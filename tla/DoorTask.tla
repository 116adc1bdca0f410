------------------------------ MODULE DoorTask ------------------------------
(***************************************************************************)
(* What DoorTrajectoryAction promises its behavior tree: once started, the *)
(* node walks a fixed route of poses in order, counts a pose only while    *)
(* the arm is there, reports SUCCESS exactly when the last pose has been   *)
(* counted, and otherwise ends with FAILURE or is interrupted.  How it     *)
(* plans, waits and manages the planning scene is not said here.           *)
(***************************************************************************)
EXTENDS Naturals, Sequences

CONSTANTS Route,     \* the poses to visit, in order
          Placements \* where the arm can be

VARIABLES status,    \* status of the node as its parent sees it
          reached,   \* how many poses of Route have been counted
          arm        \* where the arm really is

taskVars == <<status, reached, arm>>

TaskInit ==
    /\ status = "IDLE"
    /\ reached = 0
    /\ arm \in Placements

(* A new run forgets the progress of the one before. *)
Begin ==
    /\ status # "RUNNING"
    /\ status' = "RUNNING"
    /\ reached' = 0
    /\ UNCHANGED arm

(* The arm may move at any time, for this task or for another one. *)
Move ==
    /\ arm' \in Placements
    /\ UNCHANGED <<status, reached>>

(* One more pose is counted: the arm must be at it. *)
Visit ==
    /\ status = "RUNNING"
    /\ reached < Len(Route)
    /\ arm = Route[reached + 1]
    /\ reached' = reached + 1
    /\ status' = IF reached' = Len(Route) THEN "SUCCESS" ELSE "RUNNING"
    /\ UNCHANGED arm

(* The run ends early: an error inside it, or the tree interrupts it. *)
GiveUp ==
    /\ status = "RUNNING"
    /\ status' \in {"FAILURE", "IDLE"}
    /\ arm' \in Placements
    /\ UNCHANGED reached

TaskNext == Begin \/ Move \/ Visit \/ GiveUp

TaskSpec == TaskInit /\ [][TaskNext]_taskVars
=============================================================================
