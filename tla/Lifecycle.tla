----------------------------- MODULE Lifecycle -----------------------------
(***************************************************************************)
(* The life of a hardware component under the controller manager of ROS 2  *)
(* Humble, as far as the plugins of omr_hardware see it.  ros2_control is  *)
(* outside this repository: the operators say when it calls a plugin and   *)
(* what it makes of the answer.                                            *)
(*                                                                         *)
(* A callback that answers ERROR finalizes the component, because none of  *)
(* the plugins overrides on_error.  An exception ends the process, and so  *)
(* may anything from outside.  read and write are called in every cycle    *)
(* while the component is inactive or active, and never while a transition *)
(* runs.                                                                   *)
(***************************************************************************)
VARIABLE state

LifecycleStates == {"unconfigured", "inactive", "active", "finalized", "dead"}

Configures(result) ==
    /\ state = "unconfigured"
    /\ state' = IF result = "SUCCESS" THEN "inactive" ELSE "finalized"

Activates(result) ==
    /\ state = "inactive"
    /\ state' = IF result = "SUCCESS" THEN "active" ELSE "finalized"

Deactivates == state = "active" /\ state' = "inactive"

(* None of the plugins overrides on_cleanup. *)
CleansUp == state = "inactive" /\ state' = "unconfigured"

(* None of the plugins overrides on_shutdown. *)
ShutsDown ==
    /\ state \in {"unconfigured", "inactive", "active"}
    /\ state' = "finalized"

Throws == state' = "dead"

(* Killed from outside. *)
Dies == state # "dead" /\ state' = "dead"

(* The component goes, and no callback of the plugin is called. *)
Ends == ShutsDown \/ Dies

Cycling == state \in {"inactive", "active"} /\ UNCHANGED state
=============================================================================
