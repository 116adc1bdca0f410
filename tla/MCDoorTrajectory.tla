-------------------------- MODULE MCDoorTrajectory --------------------------
(* Two opening angles, two phi and one omega: four waypoints, the first of *)
(* which is the approach pose.                                             *)
EXTENDS DoorTrajectory

MCPhis == <<0, 15>>
MCOmegas == <<0>>
=============================================================================
