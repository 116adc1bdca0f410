---------------------------- MODULE M65Hardware ----------------------------
(***************************************************************************)
(* M65BaseHardware (omr_hardware/src/m65_hardware.cpp): the ros2_control   *)
(* plugin of the chassis.  It integrates the encoder counters of the       *)
(* wheels into positions and turns wheel speeds into the speeds of the     *)
(* chassis.  m65::Chassis is outside the repository.                       *)
(*                                                                         *)
(* The code treats both wheels alike: one is followed.  Its counter is a   *)
(* signed integer from -HalfRange to HalfRange - 1.  Positions are in      *)
(* counts.                                                                 *)
(***************************************************************************)
EXTENDS Lifecycle, Integers

CONSTANTS
    HalfRange,   \* half of the values of an encoder counter, 2^31 in the code
    EncoderCpr,  \* parameter encoder_cpr
    Separation,  \* parameter wheel_separation
    WheelCmds,   \* <<left, right>> wheel speeds a controller may ask for
    Rolls,       \* distances the wheel may roll at a time
    MaxRoll      \* bound: how often it rolls

Stop == <<0, 0>>

VARIABLES
    base,     \* chassis_: "none", "up", "down", or "closed" by disconnect()
    first,    \* first_read_
    counter,  \* the encoder
    prev,     \* prev_left_encoder_
    position, \* hw_left_position_state_
    velocity, \* hw_left_velocity_state_, counts per period
    cmd,      \* hw_left_velocity_cmd_ and hw_right_velocity_cmd_
    told,     \* <<linear, angular>> the chassis was last told
    rolls,    \* how often the wheel has rolled
    rolled,   \* history: distance rolled since the last read
    since     \* history: what was read first in this activation, and the
              \* distance rolled from then to the last read

encoderVars == <<first, counter, prev, position, velocity, rolls, rolled, since>>
m65Vars == <<state, base, cmd, told, encoderVars>>

(* Mutant: a counter that does not wrap. *)
NoWrap(n) == n

Wrap(n) == ((n + HalfRange) % (2 * HalfRange)) - HalfRange
NotRead == [read |-> FALSE, from |-> 0, distance |-> 0]

M65Init ==
    /\ state = "unconfigured"
    /\ base = "none"
    /\ first = TRUE
    /\ counter \in {-HalfRange, 0, HalfRange - 1}
    /\ prev = 0 /\ position = 0 /\ velocity = 0
    /\ cmd = Stop /\ told = Stop
    /\ rolls = 0 /\ rolled = 0
    /\ since = NotRead
-----------------------------------------------------------------------------
(* Lifecycle callbacks. *)

M65Configure ==
    /\ \/ Configures("SUCCESS") /\ base' = "up"
       \/ Configures("ERROR") /\ base' = "down"
    /\ UNCHANGED <<cmd, told, encoderVars>>

(* Mutant: first_read_ stays as it is. *)
M65ActivateKeepsFirst ==
    /\ base = "up" /\ EncoderCpr > 0
    /\ Activates("SUCCESS")
    /\ since' = NotRead
    /\ UNCHANGED <<base, cmd, told, first, counter, prev, position, velocity,
                   rolls, rolled>>

M65Activate ==
    \/ /\ base = "up" /\ EncoderCpr > 0
       /\ Activates("SUCCESS")
       /\ first' = TRUE
       /\ since' = NotRead
       /\ UNCHANGED <<base, cmd, told, counter, prev, position, velocity, rolls,
                      rolled>>
    \/ /\ base # "up" \/ EncoderCpr <= 0
       /\ Activates("ERROR")
       /\ UNCHANGED <<base, cmd, told, encoderVars>>

M65Deactivate ==
    /\ Deactivates
    /\ told' = IF base = "up" THEN Stop ELSE told
    /\ base' = "closed"
    /\ UNCHANGED <<cmd, encoderVars>>

(* Neither tells the chassis to stop: the default on_cleanup has nothing    *)
(* to stop, a shutdown and the end of the process do not ask the plugin.    *)
M65CleanUp == (CleansUp \/ Ends) /\ UNCHANGED <<base, cmd, told, encoderVars>>
-----------------------------------------------------------------------------
(* One control cycle. *)

(* The counters are subtracted as int32_t: a difference that does not fit  *)
(* is undefined, and comes out wrapped or, computed wider, as it is.       *)
Delta == {counter - prev, Wrap(counter - prev)}

(* The first read of an activation, seen from outside the plugin. *)
Follow(pos) ==
    /\ rolled' = 0
    /\ since' = IF since.read
                THEN [read |-> TRUE, from |-> since.from,
                      distance |-> since.distance + rolled]
                ELSE [read |-> TRUE, from |-> pos, distance |-> 0]

M65Seed ==
    /\ Cycling
    /\ base = "up"
    /\ first
    /\ prev' = counter
    /\ velocity' = 0
    /\ first' = FALSE
    /\ Follow(position)
    /\ UNCHANGED <<base, cmd, told, counter, position, rolls>>

(* Mutant: the counter of before is not replaced. *)
M65ReadKeepsPrev(longCycle) ==
    /\ Cycling
    /\ base = "up"
    /\ ~first
    /\ \E d \in Delta :
         /\ position' = position + d
         /\ velocity' = IF longCycle THEN d ELSE velocity
    /\ Follow(position)
    /\ UNCHANGED <<base, cmd, told, first, counter, prev, rolls>>

(* A period that is not positive leaves the velocity of before. *)
M65Read(longCycle) ==
    /\ Cycling
    /\ base = "up"
    /\ ~first
    /\ \E d \in Delta :
         /\ position' = position + d
         /\ velocity' = IF longCycle THEN d ELSE velocity
    /\ prev' = counter
    /\ Follow(position)
    /\ UNCHANGED <<base, cmd, told, first, counter, rolls>>

M65Command(c) ==
    /\ state = "active" /\ UNCHANGED state
    /\ cmd' = c
    /\ UNCHANGED <<base, told, encoderVars>>

(* Wheel speeds to the speeds of the chassis, in wheel radii. *)
Unicycle(c) ==
    <<c[1] + c[2], IF Separation > 0 THEN c[2] - c[1] ELSE 0>>

M65Write ==
    /\ Cycling
    /\ base = "up"
    /\ told' = Unicycle(cmd)
    /\ UNCHANGED <<base, cmd, encoderVars>>
-----------------------------------------------------------------------------
(* The chassis. *)

WheelRolls(d) ==
    /\ rolls < MaxRoll
    /\ rolls' = rolls + 1
    /\ counter' = Wrap(counter + d)
    /\ rolled' = rolled + d
    /\ UNCHANGED <<state, base, cmd, told, first, prev, position, velocity,
                   since>>

BaseLinkChanges ==
    /\ base \in {"up", "down"}
    /\ base' \in {"up", "down"} \ {base}
    /\ UNCHANGED <<state, cmd, told, encoderVars>>

M65Next ==
    \/ M65Configure \/ M65Activate \/ M65Deactivate \/ M65CleanUp
    \/ M65Seed \/ M65Write \/ BaseLinkChanges
    \/ \E longCycle \in BOOLEAN : M65Read(longCycle)
    \/ \E c \in WheelCmds : M65Command(c)
    \/ \E d \in Rolls : WheelRolls(d)

M65Spec == M65Init /\ [][M65Next]_m65Vars
-----------------------------------------------------------------------------
(* Properties. *)

M65TypeOK ==
    /\ state \in LifecycleStates
    /\ base \in {"none", "up", "down", "closed"}
    /\ first \in BOOLEAN
    /\ counter \in -HalfRange..(HalfRange - 1)
    /\ prev \in -HalfRange..(HalfRange - 1)
    /\ position \in Int /\ velocity \in Int
    /\ cmd \in WheelCmds \cup {Stop} /\ told \in Int \X Int
    /\ rolls \in 0..MaxRoll /\ rolled \in Int
    /\ since \in [read : BOOLEAN, from : Int, distance : Int]

(* While active, the position has advanced by what the wheel rolled since  *)
(* the first read of the activation, up to whole turns of the counter:     *)
(* what it rolled while the plugin was inactive or cut off from the        *)
(* chassis is neither lost nor added.                                      *)
OdometryExact ==
    state = "active" /\ since.read
    => (position - since.from - since.distance) % (2 * HalfRange) = 0
=============================================================================
