---------------------------- MODULE DaisHardware ----------------------------
(***************************************************************************)
(* DaisHardware (omr_hardware/src/dais_hardware.cpp): the ros2_control     *)
(* plugin of the linear rail.  dais::Motor, outside the repository, talks  *)
(* to the drive over a serial line; it latches the drive's faults, and     *)
(* what it is told while the line is down does not reach the drive.        *)
(*                                                                         *)
(* A velocity is 0 or one of Speeds.  leftOn is history: since the drive   *)
(* was last activated or stopped, an order to stop was lost on the line or *)
(* never given, or an enable() that failed may have switched it on.        *)
(***************************************************************************)
EXTENDS Lifecycle, Integers

CONSTANT Speeds  \* velocity commands other than 0

VARIABLES
    line,     \* motor_: "none", "up", "down", or "closed" by disconnect()
    cmd,      \* hw_velocity_cmd_
    drive,    \* velocity the drive was last told
    enabled,  \* the drive's servo is on
    fault,    \* has_error(): a fault is latched in motor_
    velocity, \* hw_velocity_state_
    leftOn

daisVars == <<state, line, cmd, drive, enabled, fault, velocity, leftOn>>

Moving == enabled /\ drive # 0

(* The drive may still run from an earlier process. *)
DaisInit ==
    /\ state = "unconfigured"
    /\ line = "none"
    /\ cmd = 0 /\ velocity = 0
    /\ fault = FALSE
    /\ drive \in Speeds \cup {0}
    /\ enabled \in BOOLEAN
    /\ leftOn = enabled
-----------------------------------------------------------------------------
(* Lifecycle callbacks. *)

(* A new motor_ each time: no line if connect() fails, no fault latched.   *)
DaisConfigure ==
    /\ \/ Configures("SUCCESS") /\ line' = "up"
       \/ Configures("ERROR") /\ line' = "down"
    /\ fault' = FALSE
    /\ UNCHANGED <<cmd, drive, enabled, velocity, leftOn>>

(* configure_device() and enable() may each fail, and an enable() whose    *)
(* answer is lost has switched the drive on: nothing switches it off then. *)
(* The command of before stays.                                            *)
DaisActivate ==
    /\ \/ line = "up" /\ Activates("SUCCESS") /\ enabled' = TRUE /\ leftOn' = FALSE
       \/ line = "up" /\ Activates("ERROR") /\ enabled' = TRUE /\ leftOn' = TRUE
       \/ Activates("ERROR") /\ UNCHANGED <<enabled, leftOn>>
    /\ UNCHANGED <<line, cmd, drive, fault, velocity>>

(* Mutant: the motor stays enabled. *)
DaisDeactivateOnlyCloses ==
    /\ Deactivates
    /\ leftOn' = (line # "up")
    /\ line' = "closed"
    /\ UNCHANGED <<cmd, drive, enabled, fault, velocity>>

(* disable() reaches the drive only through the line. *)
DaisDeactivate ==
    /\ Deactivates
    /\ enabled' = (enabled /\ line # "up")
    /\ leftOn' = (line # "up")
    /\ line' = "closed"
    /\ UNCHANGED <<cmd, drive, fault, velocity>>

DaisCleanUp ==
    /\ CleansUp
    /\ UNCHANGED <<line, cmd, drive, enabled, fault, velocity, leftOn>>

(* No disable(), and no disconnect() unless the process ends. *)
DaisEnds ==
    /\ Ends
    /\ line' = IF state' = "dead" THEN "closed" ELSE line
    /\ leftOn' = (leftOn \/ state = "active")
    /\ UNCHANGED <<cmd, drive, enabled, fault, velocity>>
-----------------------------------------------------------------------------
(* One control cycle. *)

(* With a bad answer the state is that of read_state() all the same.       *)
DaisRead ==
    /\ Cycling
    /\ line = "up"
    /\ velocity' \in {IF Moving THEN drive ELSE 0, velocity}
    /\ UNCHANGED <<line, cmd, drive, enabled, fault, leftOn>>

DaisCommand(v) ==
    /\ state = "active" /\ UNCHANGED state
    /\ cmd' = v
    /\ UNCHANGED <<line, drive, enabled, fault, velocity, leftOn>>

(* Mutant: the latch is not looked at. *)
DaisWriteInFault ==
    /\ Cycling
    /\ line = "up"
    /\ drive' = cmd
    /\ UNCHANGED <<line, cmd, enabled, fault, velocity, leftOn>>

DaisWrite ==
    /\ Cycling
    /\ line = "up"
    /\ ~fault
    /\ drive' = cmd
    /\ UNCHANGED <<line, cmd, enabled, fault, velocity, leftOn>>
-----------------------------------------------------------------------------
(* dais::Motor latches a fault ("zeros cmd + disables servo"); the serial  *)
(* line comes and goes.                                                    *)
DriveFaults ==
    /\ line = "up"
    /\ fault' = TRUE
    /\ drive' = 0
    /\ enabled' = FALSE
    /\ leftOn' = FALSE
    /\ UNCHANGED <<state, line, cmd, velocity>>

LineChanges ==
    /\ line \in {"up", "down"}
    /\ line' \in {"up", "down"} \ {line}
    /\ UNCHANGED <<state, cmd, drive, enabled, fault, velocity, leftOn>>

DaisNext ==
    \/ DaisConfigure \/ DaisActivate \/ DaisDeactivate \/ DaisCleanUp \/ DaisEnds
    \/ DaisRead \/ DaisWrite \/ DriveFaults \/ LineChanges
    \/ \E v \in Speeds \cup {0} : DaisCommand(v)

DaisSpec == DaisInit /\ [][DaisNext]_daisVars
-----------------------------------------------------------------------------
(* Properties. *)

DaisTypeOK ==
    /\ state \in LifecycleStates
    /\ line \in {"none", "up", "down", "closed"}
    /\ cmd \in Speeds \cup {0} /\ drive \in Speeds \cup {0}
    /\ velocity \in Speeds \cup {0}
    /\ enabled \in BOOLEAN /\ fault \in BOOLEAN
    /\ leftOn \in BOOLEAN

(* The rail moves only with no fault latched, also when it is activated    *)
(* with a fault in it.  It moves without an active component only if the   *)
(* order to stop was lost, because the line was down as it was             *)
(* deactivated, or never given, because the component was shut down or its *)
(* process ended, or if an enable() that failed had switched it on.  So a  *)
(* deactivation over a line that is up stops it, whatever went before, and *)
(* the writes of an inactive component do not start it again.              *)
RailStill == Moving => ~fault /\ (state = "active" \/ leftOn)
=============================================================================
