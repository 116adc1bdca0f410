----------------------------- MODULE ArmSystem -----------------------------
(***************************************************************************)
(* ArmSystem (omr_hardware/src/arm_system.cpp): the ros2_control plugin    *)
(* that sends the joint positions of the controllers to the arm, once per  *)
(* change.  rm::Arm, the vendor's driver, is outside the repository.       *)
(*                                                                         *)
(* The variable wanted is history: for each joint, what it was last asked  *)
(* for in this activation, by the controllers or by staying where it was   *)
(* found.  So is late: a moveJ failed although the arm took its target.    *)
(***************************************************************************)
EXTENDS Lifecycle, Integers, FiniteSets

CONSTANTS
    Dof,     \* dof_
    Angles,  \* of a joint
    Zero     \* the angle on_init fills the buffers with

Joints == 1..Dof
Vectors == [Joints -> Angles]

None == "none"  \* NAN in hw_position_cmd_prev_; no target yet; not asked
Nothing == [j \in Joints |-> None]

VARIABLES
    armLink,  \* arm_: "none" before it is made, "up" while isConnected()
    at,       \* where the arm is
    position, \* hw_position_
    cmd,      \* hw_position_cmd_
    prev,     \* hw_position_cmd_prev_
    target,   \* the last target the arm has taken from moveJ, or Nothing
    wanted,
    late

history == <<wanted, late>>
armVars == <<state, armLink, at, position, cmd, prev, target, history>>

ArmInit ==
    /\ state = "unconfigured"
    /\ armLink = "none"
    /\ at \in Vectors
    /\ position = [j \in Joints |-> Zero]
    /\ cmd = [j \in Joints |-> Zero]
    /\ prev = Nothing
    /\ target = Nothing
    /\ wanted = Nothing
    /\ late = FALSE
-----------------------------------------------------------------------------
(* Lifecycle callbacks. *)

(* jointPosition() may answer for the first n joints only; the buffers keep *)
(* what they have for the others.                                           *)
With(n, answer, buffer) ==
    [j \in Joints |-> IF j <= n THEN answer[j] ELSE buffer[j]]

(* The constructor of rm::Arm connects or throws; then arm_ keeps the old. *)
ArmConfigure ==
    /\ \/ Configures("SUCCESS") /\ armLink' = "up"
       \/ Configures("ERROR") /\ UNCHANGED armLink
    /\ UNCHANGED <<at, position, cmd, prev, target, history>>

(* Mutant: the command buffer keeps what is in it. *)
ArmActivateKeepsCommand ==
    \/ /\ armLink = "up"
       /\ Activates("SUCCESS")
       /\ \E n \in 0..Dof :
            /\ position' = With(n, at, position)
            /\ prev' = With(n, Nothing, prev)
            /\ wanted' = With(n, at, Nothing)
       /\ UNCHANGED <<armLink, at, cmd, target, late>>
    \/ /\ armLink # "up"
       /\ Activates("ERROR")
       /\ UNCHANGED <<armLink, at, position, cmd, prev, target, history>>
    \/ /\ state = "inactive" /\ armLink = "up"
       /\ Throws
       /\ UNCHANGED <<armLink, at, position, cmd, prev, target, history>>

(* jointPosition() may throw, and nobody catches it here. *)
ArmActivate ==
    \/ /\ armLink = "up"
       /\ Activates("SUCCESS")
       /\ \E n \in 0..Dof :
            /\ position' = With(n, at, position)
            /\ cmd' = With(n, at, cmd)
            /\ prev' = With(n, Nothing, prev)
            /\ wanted' = With(n, at, Nothing)
       /\ UNCHANGED <<armLink, at, target, late>>
    \/ /\ armLink # "up"
       /\ Activates("ERROR")
       /\ UNCHANGED <<armLink, at, position, cmd, prev, target, history>>
    \/ /\ state = "inactive" /\ armLink = "up"
       /\ Throws
       /\ UNCHANGED <<armLink, at, position, cmd, prev, target, history>>

(* on_deactivate touches nothing; neither does the default on_cleanup, and *)
(* a shutdown or the end of the process calls nothing.                     *)
ArmDeactivate ==
    /\ Deactivates \/ CleansUp \/ Ends
    /\ wanted' = Nothing
    /\ UNCHANGED <<armLink, at, position, cmd, prev, target, late>>
-----------------------------------------------------------------------------
(* One control cycle: read, then the controllers, then write. *)

(* A connection that is lost, or a read that throws, leaves all positions  *)
(* as before, and the cycle is reported OK all the same.                   *)
ArmRead ==
    /\ Cycling
    /\ \E n \in 0..Dof :
         /\ armLink # "up" => n = 0
         /\ position' = With(n, at, position)
    /\ UNCHANGED <<armLink, at, cmd, prev, target, history>>

(* Controllers own command interfaces of an active component: they set     *)
(* some of the joints.                                                     *)
ArmCommand(joints, c) ==
    /\ state = "active" /\ UNCHANGED state
    /\ cmd' = [j \in Joints |-> IF j \in joints THEN c[j] ELSE cmd[j]]
    /\ wanted' = [j \in Joints |-> IF j \in joints THEN c[j] ELSE wanted[j]]
    /\ UNCHANGED <<armLink, at, position, prev, target, late>>

(* Mutant: the command is recorded as sent before it is. *)
ArmWriteRecordsFirst ==
    /\ Cycling
    /\ armLink = "up"
    /\ prev # cmd
    /\ prev' = cmd
    /\ target' \in {cmd, target}
    /\ UNCHANGED <<armLink, at, position, cmd, history>>

(* moveJ that throws may have reached the arm or not; only a moveJ that    *)
(* returns is recorded.                                                    *)
ArmWrite ==
    /\ Cycling
    /\ armLink = "up"
    /\ prev # cmd
    /\ \/ target' = cmd /\ prev' = cmd /\ late' = FALSE
       \/ target' = cmd /\ late' = TRUE /\ UNCHANGED prev
       \/ UNCHANGED <<prev, target, late>>
    /\ UNCHANGED <<armLink, at, position, cmd, wanted>>
-----------------------------------------------------------------------------
(* The arm: it follows its target or is moved by hand; the TCP connection  *)
(* comes and goes.                                                         *)
ArmMoves ==
    /\ at' \in Vectors
    /\ UNCHANGED <<state, armLink, position, cmd, prev, target, history>>

ArmLinkChanges ==
    /\ armLink # "none"
    /\ armLink' \in {"up", "down"} \ {armLink}
    /\ UNCHANGED <<state, at, position, cmd, prev, target, history>>

ArmNext ==
    \/ ArmConfigure \/ ArmActivate \/ ArmDeactivate
    \/ ArmRead \/ ArmWrite \/ ArmMoves \/ ArmLinkChanges
    \/ \E joints \in SUBSET Joints, c \in Vectors : ArmCommand(joints, c)

ArmSpec == ArmInit /\ [][ArmNext]_armVars
-----------------------------------------------------------------------------
(* Properties. *)

ArmTypeOK ==
    /\ state \in LifecycleStates
    /\ armLink \in {"none", "up", "down"}
    /\ at \in Vectors /\ position \in Vectors /\ cmd \in Vectors
    /\ prev \in [Joints -> Angles \cup {None}]
    /\ target \in Vectors \cup {Nothing}
    /\ wanted \in [Joints -> Angles \cup {None}] /\ late \in BOOLEAN

(* A command that write() skips as already sent is the one the arm has,    *)
(* through activations that clear the record of some joints and every      *)
(* moveJ that failed, unless a moveJ failed after the arm took its target: *)
(* then a command that returns to the one before is skipped while the arm  *)
(* follows the other.                                                      *)
SentIsTaken == prev = cmd /\ ~late => target = cmd

(* What write() does to the arm or to its record shows that it has sent.   *)
Sends == state = "active" /\ <<target, prev, late>>' # <<target, prev, late>>

(* Each target that an active arm is sent has, for every joint that has    *)
(* been commanded in this activation, the last of these commands and, for  *)
(* every other joint, the angle it was found at.  Of a joint that the arm  *)
(* gave no angle for and no controller has commanded, it says nothing:     *)
(* there the command of before, or the zero of on_init, is sent.           *)
NothingOldSent ==
    [][Sends => \A j \in Joints : wanted[j] # None => target'[j] = wanted[j]]_armVars
=============================================================================
