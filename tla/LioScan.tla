------------------------------ MODULE LioScan ------------------------------
(***************************************************************************)
(* What LioNode (omr_lio/src/lio_node.cpp) makes of a scan once it is      *)
(* paired with its IMU samples (LioSync): the points left of it, the cube  *)
(* of the local map, the map and what is published.                        *)
(*                                                                         *)
(* The robot and the obstacles are on a line, the axis of the cube that is *)
(* followed: the code treats the three alike.  The filter's estimate is    *)
(* exact.  A voxel of the map is a place.                                  *)
(***************************************************************************)
EXTENDS Preprocess

CONSTANTS
    Track,      \* where the robot can be
    Worlds,     \* sets of places of obstacles
    Cubes,      \* values of cube_side_length
    Ranges,     \* values of mapping.det_range
    Sight,      \* how far the lidar sees
    Blinds,     \* values of preprocess.blind
    FewPoints,  \* a scan with fewer points is skipped
    Lidars,     \* values of preprocess.lidar_type
    Lines,      \* values of preprocess.scan_line
    Filters     \* values of point_filter_num

VARIABLES
    world,  \* the obstacles
    pos,    \* the robot
    type,   \* preprocess.lidar_type
    params, \* the parameters that may change at run time
    up,     \* the process lives
    cube,   \* LocalMap_Points_: its lower face and its length
    built,  \* ikdtree_ has been built
    map     \* the places in ikdtree_

scanVars == <<world, pos, type, params, up, cube, built, map>>

NoCube == [set |-> FALSE, min |-> 0, len |-> 0]
Params == [cubeLen : Cubes, detRange : Ranges, blind : Blinds, lines : Lines,
           filter : Filters, scanPub : BOOLEAN]
Values == [cubeLen |-> Cubes, detRange |-> Ranges, blind |-> Blinds, lines |-> Lines,
           filter |-> Filters, scanPub |-> BOOLEAN]
DetRange == params.detRange

ScanInit ==
    /\ world \in Worlds
    /\ pos = 0
    /\ type \in Lidars
    /\ params \in Params
    /\ up = TRUE
    /\ cube = NoCube
    /\ built = FALSE
    /\ map = {}

(* A request that names another parameter, or a value out of its range, is *)
(* rejected as a whole; one that sets several is as many that set one.     *)
(* The cube stays as it was made.                                          *)
SetParameter(name, value) ==
    /\ up
    /\ params' = [params EXCEPT ![name] = value]
    /\ UNCHANGED <<world, pos, type, up, cube, built, map>>

Drive(to) ==
    /\ Abs(to - pos) = 1
    /\ pos' = to
    /\ UNCHANGED <<world, type, params, up, cube, built, map>>
-----------------------------------------------------------------------------
(* lasermap_fov_segment, in whole units of length. *)

Threshold == (3 * DetRange) \div 2
NearMin == Abs(pos - cube.min) <= Threshold
NearMax == Abs(pos - cube.min - cube.len) <= Threshold
MustMove == cube.set /\ (NearMin \/ NearMax)

MovDist ==
    LET wide == (9 * (params.cubeLen - 3 * DetRange)) \div 20
        least == DetRange \div 2
    IN IF wide > least THEN wide ELSE least

(* Mutant: what lies at the near face is removed. *)
RemovedNear ==
    IF NearMin
    THEN {p \in map : cube.min <= p /\ p <= cube.min + MovDist}
    ELSE {p \in map : cube.min + cube.len - MovDist <= p /\ p <= cube.min + cube.len}

(* Delete_Point_Boxes: what lies at the face the cube moves away from. *)
Removed ==
    IF NearMin
    THEN {p \in map : cube.min + cube.len - MovDist <= p /\ p <= cube.min + cube.len}
    ELSE {p \in map : cube.min <= p /\ p <= cube.min + MovDist}

Kept == IF MustMove THEN map \ Removed ELSE map

FovSegment ==
    cube' = IF ~cube.set
            THEN [set |-> TRUE, min |-> pos - params.cubeLen \div 2,
                  len |-> params.cubeLen]
            ELSE IF ~MustMove THEN cube
            ELSE [set |-> TRUE, len |-> cube.len,
                  min |-> IF NearMin THEN cube.min - MovDist ELSE cube.min + MovDist]
-----------------------------------------------------------------------------
(* The body of run(), for the points that are left of a scan. *)

Scan == {[at |-> o - pos, ring |-> o % 2] :
            o \in {o \in world : Abs(o - pos) <= Sight}}

Scanned(timed) == Process(type, Scan, timed, params.filter, params.blind)

(* Mutant: the points are published as the lidar sees them. *)
ToBody(points) == {p.at : p \in points}

(* pointBodyToWorld; the filter is exact. *)
ToWorld(points) == {p.at + pos : p \in points}

Rest == <<world, pos, type, params, up>>

(* A write or a read past the end of a vector: the process dies or goes on *)
(* with whatever is left of the scan.                                      *)
Crash(timed) ==
    /\ up
    /\ Overruns(type, Scan, timed, params.lines)
    /\ up' = FALSE
    /\ UNCHANGED <<world, pos, type, params, cube, built, map>>

(* Some points, but too few of them: the cube has moved all the same. *)
SkipFew(points) ==
    /\ up
    /\ points # {} /\ Cardinality(points) < FewPoints
    /\ FovSegment
    /\ map' = Kept
    /\ UNCHANGED <<Rest, built>>

(* A tree that has lost all its points has a root or not. *)
BuildMap(points) ==
    /\ up
    /\ Cardinality(points) >= FewPoints
    /\ ~built \/ Kept = {}
    /\ FovSegment
    /\ built' = TRUE
    /\ map' = ToWorld(points)
    /\ UNCHANGED Rest

(* Odometry and transform go out before the map has the points. *)
Register(points) ==
    /\ up
    /\ Cardinality(points) >= FewPoints
    /\ built
    /\ FovSegment
    /\ map' = Kept \cup ToWorld(points)
    /\ UNCHANGED <<Rest, built>>
-----------------------------------------------------------------------------
ScanTypeOK ==
    /\ world \in Worlds /\ pos \in Track /\ type \in Lidars
    /\ params \in Params
    /\ up \in BOOLEAN /\ built \in BOOLEAN
    /\ cube \in [set : BOOLEAN, min : Int, len : Cubes \cup {0}]
    /\ map \subseteq UNION Worlds

(* Moving the cube takes nothing from the map that is nearer to the robot  *)
(* than the range of the lidar, as long as cube_side_length is what the    *)
(* cube was made with, and three times the range at least: a value set     *)
(* later changes how far the cube moves and not how long it is, and then   *)
(* what surrounds the robot goes as well.  With three times the range      *)
(* exactly, a point in that distance is the first that goes.               *)
NearPointsKept ==
    [][cube.len = params.cubeLen /\ cube.len >= 3 * DetRange
       => \A p \in map : Abs(p - pos) < DetRange => p \in map']_scanVars
=============================================================================
