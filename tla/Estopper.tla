------------------------------ MODULE Estopper ------------------------------
(***************************************************************************)
(* EstopperNode (omr_lio/src/estopper_node.cpp): for every registered      *)
(* cloud, whether enough of its points are near.  The points are places of *)
(* the map, and near means near its origin.                                *)
(***************************************************************************)
EXTENDS Integers, FiniteSets

CONSTANTS
    Distances,   \* values of stop_distance
    PointCounts  \* values of min_points_in_zone

VARIABLES
    zone,  \* the parameters
    inbox, \* the last cloud not yet taken
    estop  \* the last answer published

estopperVars == <<zone, inbox, estop>>

NoCloud == {}
Zones == [distance : Distances, minPoints : PointCounts, front : BOOLEAN]

EstopperInit ==
    /\ zone \in Zones
    /\ inbox = NoCloud
    /\ estop = "none"

(* All that was asked for, or nothing. *)
SetZone(asked) ==
    /\ zone' = asked
    /\ UNCHANGED <<inbox, estop>>

(* The points in the zone; on the line through the origin y and z are 0. *)
Dangerous(cloud) ==
    {p \in cloud :
        /\ zone.front => p > 0
        /\ p < zone.distance /\ 0 < p + zone.distance}

CloudCallback ==
    /\ inbox # NoCloud
    /\ estop' = IF Cardinality(Dangerous(inbox)) >= zone.minPoints
                THEN "stop" ELSE "clear"
    /\ inbox' = NoCloud
    /\ UNCHANGED zone
-----------------------------------------------------------------------------
EstopperTypeOK ==
    /\ zone \in Zones
    /\ estop \in {"none", "stop", "clear"}
=============================================================================
