------------------------------ MODULE Hardware ------------------------------
(***************************************************************************)
(* The three ros2_control plugins of omr_hardware.  Each runs in a         *)
(* controller manager of its own (omr_bringup/launch/bringup.launch.py)    *)
(* and they share nothing, so a behavior follows one of them, `device`,    *)
(* and the others stay as constructed.                                     *)
(***************************************************************************)
EXTENDS Integers, FiniteSets

CONSTANTS
    Devices,            \* the plugins followed
    Dof, Angles, Zero,  \* of ArmSystem
    Speeds,             \* of DaisHardware
    HalfRange, EncoderCpr, Separation, WheelCmds, Rolls, MaxRoll  \* of M65

ASSUME HardwareAssumption ==
    /\ Devices \subseteq {"arm", "dais", "m65"}
    /\ Dof \in 1..7 /\ Zero \in Angles /\ "none" \notin Angles
    /\ Speeds \subseteq Int \ {0}
    /\ HalfRange \in Nat \ {0} /\ EncoderCpr \in Int /\ Separation \in Int
    /\ WheelCmds \subseteq Int \X Int /\ Rolls \subseteq Int
    /\ MaxRoll \in Nat

VARIABLES
    device, state,
    armLink, at, armPosition, armCmd, armPrev, target, wanted, late,
    line, railCmd, drive, enabled, fault, railVelocity, leftOn,
    base, first, counter, prevCounter, wheelPosition, wheelVelocity,
    wheelCmd, told, rolls, rolled, since

Arm == INSTANCE ArmSystem
    WITH position <- armPosition, cmd <- armCmd, prev <- armPrev
Dais == INSTANCE DaisHardware
    WITH cmd <- railCmd, velocity <- railVelocity
M65 == INSTANCE M65Hardware
    WITH prev <- prevCounter, position <- wheelPosition,
         velocity <- wheelVelocity, cmd <- wheelCmd

armOwn == <<armLink, at, armPosition, armCmd, armPrev, target, wanted, late>>
daisOwn == <<line, railCmd, drive, enabled, fault, railVelocity, leftOn>>
m65Own == <<base, first, counter, prevCounter, wheelPosition, wheelVelocity,
            wheelCmd, told, rolls, rolled, since>>
vars == <<device, state, armOwn, daisOwn, m65Own>>

(* Devices that are not followed are taken in one of their states. *)
Init ==
    /\ device \in Devices
    /\ Arm!ArmInit /\ Dais!DaisInit /\ M65!M65Init
    /\ device # "arm" => at = armPosition
    /\ device # "dais" => ~enabled /\ drive = 0
    /\ device # "m65" => counter = 0

ArmStep ==
    /\ device = "arm"
    /\ Arm!ArmNext
    /\ UNCHANGED <<device, daisOwn, m65Own>>

DaisStep ==
    /\ device = "dais"
    /\ Dais!DaisNext
    /\ UNCHANGED <<device, armOwn, m65Own>>

M65Step ==
    /\ device = "m65"
    /\ M65!M65Next
    /\ UNCHANGED <<device, armOwn, daisOwn>>

Next == ArmStep \/ DaisStep \/ M65Step

Spec == Init /\ [][Next]_vars
-----------------------------------------------------------------------------
(* Properties; the modules of the plugins state what they mean. *)

(* Every plugin's state has its types. *)
TypeOK ==
    /\ device \in Devices
    /\ device = "arm" => Arm!ArmTypeOK
    /\ device = "dais" => Dais!DaisTypeOK
    /\ device = "m65" => M65!M65TypeOK

(* ArmSystem: a command skipped as already sent is the one the arm has.    *)
SentIsTaken == Arm!SentIsTaken
(* ArmSystem: an active arm is sent what it was last asked for in this     *)
(* activation.                                                             *)
NothingOldSent == Arm!NothingOldSent
(* DaisHardware: the rail moves without a fault and on duty, unless the    *)
(* order to stop was lost or never given.                                  *)
RailStill == device = "dais" => Dais!RailStill
(* M65Hardware: wheel positions count what was rolled while active. *)
OdometryExact == device = "m65" => M65!OdometryExact
=============================================================================
