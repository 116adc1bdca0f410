------------------------ MODULE DoorTrajectoryProofs ------------------------
(***************************************************************************)
(* Proofs about DoorTrajectory, for every schedule, executor and queue     *)
(* depth.  IInv is inductive; most invariants of the module follow from    *)
(* it, and it carries the refinement of DoorTask.  What the cached joints  *)
(* can be with one thread (StaleView) is an invariant of its own.          *)
(***************************************************************************)
EXTENDS DoorTrajectory, TLAPS

(* The product of two naturals is one: the only arithmetic on the length   *)
(* of the schedule.                                                        *)
LEMMA ProductNat == \A a, b \in Nat : a * b \in Nat
  OBVIOUS

(* The schedule is a finite list whose entries are placements of the arm.  *)
LEMMA RouteSeq ==
    /\ Route \in Seq(Placements)
    /\ Len(Route) \in Nat
    /\ DOMAIN Route = 1..Len(Route)
<1>1. Len(OmegaValues) \in Nat /\ Len(Phis) \in Nat
  BY DoorAssumption DEF OmegaValues, DefaultOmegas
<1>2. PerTheta \in Nat
  BY <1>1, ProductNat DEF PerTheta
<1>3. CASE LoopDiverges
  BY <1>3 DEF Route
<1>4. CASE ~LoopDiverges
  <2>1. ThetaCount \in Nat
    BY <1>4, DoorAssumption DEF LoopDiverges, ThetaCount
  <2> DEFINE n == ThetaCount * PerTheta
  <2>2. n \in Nat
    BY <2>1, <1>2, ProductNat
  <2>3. Route = [i \in 1..n |-> WaypointAt(i)]
    BY <1>4 DEF Route
  <2>4. \A i \in 1..n : Route[i] \in Placements
    BY <2>3 DEF Placements
  <2> HIDE DEF n
  <2>5. Route \in [1..n -> Placements]
    BY <2>3, <2>4
  <2>6. QED
    BY <2>2, <2>5
<1>5. QED
  BY <1>3, <1>4

LEMMA PlacementsOfRoute ==
    /\ Home \in Placements /\ Elsewhere \in Placements
    /\ ApproachPose \in Placements
    /\ \A i \in 1..Len(Route) : Route[i] \in Placements
  BY RouteSeq DEF Placements

LEMMA EmptyQueue == <<>> \in Seq(Placements) /\ Len(<<>>) = 0
  OBVIOUS

LEMMA InitIInv == Init => IInv
<1> SUFFICES ASSUME Init PROVE IInv
  OBVIOUS
<1> USE PlacementsOfRoute, DoorAssumption DEF Init, NoCall
<1>1. TypeOK
  <2>1. waypoints \in {<<>>, Route} /\ current_waypoint \in 0..Len(waypoints)
    BY EmptyQueue
  <2>2. samples \in Seq(Placements) /\ Len(samples) <= QueueDepth
    BY EmptyQueue
  <2>3. QED
    BY <2>1, <2>2 DEF TypeOK, BtStatuses, TrajectoryStates
<1>2. Control
  BY DEF Control, InMotion
<1>3. Position
  BY DEF Position, InMotion, CountedMeansThere
<1>4. SceneReady
  BY DEF SceneReady, InMotion
<1>5. QED
  BY <1>1, <1>2, <1>3, <1>4 DEF IInv

(* Setting the objects up raises the flag, and puts both in a scene that   *)
(* takes every object.                                                     *)
LEMMA SetupAddsDoor ==
    ASSUME TypeOK, SceneReady, SetupDoorCollisionObjects
    PROVE  /\ door_objects_added' = TRUE
           /\ planning_scene' \in BOOLEAN
           /\ panel' \in {Absent, 0}
           /\ frame' \in BOOLEAN
           /\ ~SceneMayReject => panel' # Absent /\ frame'
<1>1. CASE door_objects_added
  BY <1>1 DEF TypeOK, SceneReady, SetupDoorCollisionObjects
<1>2. CASE ~door_objects_added
  <2>1. PICK panelTaken, frameTaken \in BOOLEAN :
           /\ SceneMayReject \/ (panelTaken /\ frameTaken)
           /\ panel' = IF panelTaken \/ panel # Absent THEN 0 ELSE Absent
           /\ frame' = (frame \/ frameTaken)
    BY <1>2 DEF SetupDoorCollisionObjects
  <2>2. /\ panel' \in {Absent, 0}
        /\ panelTaken => panel' # Absent
    BY <2>1, NamesAssumption DEF TypeOK
  <2>4. /\ frame' \in BOOLEAN
        /\ frameTaken => frame'
    BY <2>1, Zenon DEF TypeOK
  <2>3. door_objects_added' = TRUE /\ planning_scene' = TRUE
    BY <1>2 DEF SetupDoorCollisionObjects
  <2>5. QED
    BY <2>1, <2>2, <2>3, <2>4
<1>3. QED
  BY <1>1, <1>2

LEMMA StepIInv == IInv /\ [Next]_vars => IInv'
<1> SUFFICES ASSUME IInv, [Next]_vars PROVE IInv'
  OBVIOUS
<1>1. CASE OnStart
  <2>1. samples' \in Seq(Placements) /\ Len(samples') <= QueueDepth
    BY <1>1, DoorAssumption DEF OnStart
  <2>2. /\ btStatus' \in BtStatuses /\ current_state' \in TrajectoryStates
        /\ door_objects_added' \in BOOLEAN /\ planning_scene' \in BOOLEAN
        /\ subscribed' \in BOOLEAN
    BY <1>1 DEF OnStart, BtStatuses, TrajectoryStates
  <2>3. TypeOK'
    BY <1>1, <2>1, <2>2 DEF IInv, TypeOK, OnStart
  <2>4. call' = NoCall
    BY <1>1 DEF IInv, Control, OnStart
  <2>5. Control' /\ Position' /\ SceneReady'
    BY <1>1, <2>4
    DEF OnStart, Control, Position, SceneReady, CountedMeansThere, InMotion,
        NoCall, Traversing
  <2>6. QED
    BY <2>3, <2>5 DEF IInv
<1>2. CASE OnHalted
  <2>1. TypeOK'
    BY <1>2 DEF IInv, TypeOK, BtStatuses, TrajectoryStates, jointVars, OnHalted
  <2>2. Control'
    BY <1>2 DEF Control, InMotion, NoCall, OnHalted
  <2>3. Position'
    BY <1>2 DEF Position, CountedMeansThere, NoCall, OnHalted
  <2>4. SceneReady'
    BY <1>2 DEF IInv, SceneReady, OnHalted
  <2>5. QED
    BY <2>1, <2>2, <2>3, <2>4 DEF IInv
<1>3. CASE IdleTick
  <2>1. TypeOK'
    BY <1>3 DEF IInv, TypeOK, TrajectoryStates, sceneVars, jointVars, IdleTick
  <2>2. Control'
    BY <1>3 DEF IInv, Control, InMotion, Traversing, AfterMove, IdleTick, Ticking
  <2>3. Position'
    BY <1>3 DEF Position, CountedMeansThere, NoCall, IdleTick, Ticking
  <2>4. SceneReady'
    BY <1>3 DEF IInv, SceneReady, Traversing, sceneVars, IdleTick
  <2>5. QED
    BY <2>1, <2>2, <2>3, <2>4 DEF IInv
<1>4. CASE HomeConfirmed
  <2>1. TypeOK'
    BY <1>4 DEF IInv, TypeOK, TrajectoryStates, sceneVars, jointVars, HomeConfirmed
  <2>2. Control'
    BY <1>4 DEF IInv, Control, InMotion, Traversing, AfterMove, HomeConfirmed, Ticking
  <2>3. Position'
    BY <1>4 DEF Position, CountedMeansThere, NoCall, HomeConfirmed, Ticking
  <2>4. SceneReady'
    BY <1>4
    DEF IInv, SceneReady, InMotion, NoCall, Traversing, sceneVars, HomeConfirmed,
        Ticking
  <2>5. QED
    BY <2>1, <2>2, <2>3, <2>4 DEF IInv
<1>5. CASE HomeCommanded
  <2>1. TypeOK'
    BY <1>5, PlacementsOfRoute
    DEF IInv, TypeOK, BtStatuses, TrajectoryStates, sceneVars, jointVars,
        HomeCommanded, Ticking, BeginMove, PlanFails, Abort
  <2>2. Control'
    BY <1>5, PlacementsOfRoute
    DEF IInv, Control, InMotion, NoCall, AfterMove, HomeCommanded, Ticking,
        BeginMove, PlanFails, Abort
  <2>3. Position'
    BY <1>5
    DEF Position, CountedMeansThere, NoCall, HomeCommanded, Ticking, BeginMove,
        PlanFails, Abort
  <2>4. SceneReady'
    BY <1>5
    DEF IInv, SceneReady, sceneVars, HomeCommanded, Ticking, BeginMove, PlanFails,
        Abort
  <2>5. QED
    BY <2>1, <2>2, <2>3, <2>4 DEF IInv
<1>6. CASE PlanApproach
  <2>1. SetupDoorCollisionObjects /\ TypeOK /\ SceneReady
    BY <1>6 DEF PlanApproach, IInv
  <2>2. /\ door_objects_added' = TRUE
        /\ planning_scene' \in BOOLEAN
        /\ panel' \in {Absent, 0}
        /\ frame' \in BOOLEAN
        /\ ~SceneMayReject => panel' # Absent /\ frame'
    BY <2>1, SetupAddsDoor
  <2>3. TypeOK'
    BY <1>6, <2>2, PlacementsOfRoute
    DEF IInv, TypeOK, BtStatuses, TrajectoryStates, jointVars, PlanApproach,
        Ticking, BeginMove, PlanFails, Abort
  <2>4. Control'
    BY <1>6, PlacementsOfRoute
    DEF IInv, Control, InMotion, NoCall, AfterMove, PlanApproach, Ticking,
        BeginMove, PlanFails, Abort
  <2>5. Position'
    BY <1>6
    DEF Position, CountedMeansThere, NoCall, PlanApproach, Ticking, BeginMove,
        PlanFails, Abort
  <2>6. SceneReady'
    BY <2>2 DEF SceneReady
  <2>7. QED
    BY <2>3, <2>4, <2>5, <2>6 DEF IInv
<1>7. CASE ExecuteApproach
  <2>1. TypeOK'
    BY <1>7 DEF IInv, TypeOK, TrajectoryStates, sceneVars, jointVars, ExecuteApproach
  <2>2. Control'
    BY <1>7 DEF IInv, Control, InMotion, Traversing, AfterMove, ExecuteApproach, Ticking
  <2>3. Position'
    BY <1>7 DEF Position, CountedMeansThere, NoCall, ExecuteApproach, Ticking
  <2>4. SceneReady'
    BY <1>7 DEF IInv, SceneReady, sceneVars, ExecuteApproach, Ticking
  <2>5. QED
    BY <2>1, <2>2, <2>3, <2>4 DEF IInv
<1>8. CASE PrepareWaypoints
  <2>1. TypeOK'
    BY <1>8
    DEF IInv, TypeOK, BtStatuses, TrajectoryStates, sceneVars, jointVars,
        PrepareWaypoints, Ticking, Abort
  <2>2. Control'
    BY <1>8 DEF Control, InMotion, NoCall, Traversing, PrepareWaypoints, Ticking, Abort
  <2>3. Position'
    BY <1>8
    DEF Position, CountedMeansThere, InMotion, NoCall, PrepareWaypoints, Ticking,
        Abort
  <2>4. SceneReady'
    BY <1>8 DEF IInv, SceneReady, sceneVars, PrepareWaypoints, Ticking
  <2>5. QED
    BY <2>1, <2>2, <2>3, <2>4 DEF IInv
<1>9. CASE PlanWaypoint
  <2>1. TypeOK'
    BY <1>9, PlacementsOfRoute
    DEF IInv, TypeOK, BtStatuses, TrajectoryStates, sceneVars, jointVars,
        PlanWaypoint, Ticking, BeginMove, PlanFails, Abort
  <2>2. Control'
    BY <1>9, PlacementsOfRoute
    DEF IInv, TypeOK, Control, InMotion, NoCall, AfterMove, PlanWaypoint, Ticking,
        BeginMove, PlanFails, Abort
  <2>3. Position'
    BY <1>9
    DEF Position, CountedMeansThere, NoCall, PlanWaypoint, Ticking, BeginMove,
        PlanFails, Abort
  <2>4. SceneReady'
    BY <1>9 DEF IInv, SceneReady, Traversing, sceneVars, PlanWaypoint, Ticking
  <2>5. QED
    BY <2>1, <2>2, <2>3, <2>4 DEF IInv
<1>10. CASE ExecutingWaypoint
  <2>1. TypeOK'
    BY <1>10 DEF IInv, TypeOK, TrajectoryStates, sceneVars, jointVars, ExecutingWaypoint
  <2>2. Control'
    BY <1>10
    DEF IInv, Control, InMotion, Traversing, AfterMove, ExecutingWaypoint, Ticking
  <2>3. Position'
    BY <1>10 DEF IInv, Position, CountedMeansThere, ExecutingWaypoint, Ticking
  <2>4. SceneReady'
    BY <1>10 DEF IInv, SceneReady, Traversing, sceneVars, ExecutingWaypoint, Ticking
  <2>5. QED
    BY <2>1, <2>2, <2>3, <2>4 DEF IInv
<1>11. CASE WaitingCompletion
  <2>1. TypeOK'
    BY <1>11
    DEF IInv, TypeOK, Position, CountedMeansThere, BtStatuses, TrajectoryStates,
        sceneVars, jointVars, WaitingCompletion, Ticking
  <2>2. Control'
    BY <1>11
    DEF IInv, Control, InMotion, Traversing, AfterMove, WaitingCompletion, Ticking
  <2>3. Position'
    BY <1>11
    DEF Position, CountedMeansThere, InMotion, NoCall, WaitingCompletion, Ticking
  <2>4. SceneReady'
    BY <1>11 DEF IInv, SceneReady, Traversing, sceneVars, WaitingCompletion, Ticking
  <2>5. QED
    BY <2>1, <2>2, <2>3, <2>4 DEF IInv
<1>12. CASE ExecuteSucceeds
  <2>1. TypeOK'
    BY <1>12
    DEF IInv, TypeOK, Control, InMotion, nodeVars, sceneVars, jointVars,
        ExecuteSucceeds
  <2>2. Control'
    BY <1>12 DEF IInv, Control, InMotion, NoCall, nodeVars, ExecuteSucceeds
  <2>3. Position'
    BY <1>12
    DEF IInv, Control, Position, CountedMeansThere, InMotion, AfterMove, nodeVars,
        ExecuteSucceeds
  <2>4. SceneReady'
    BY <1>12 DEF IInv, SceneReady, InMotion, nodeVars, sceneVars, ExecuteSucceeds
  <2>5. QED
    BY <2>1, <2>2, <2>3, <2>4 DEF IInv
<1>13. CASE ExecuteFails
  <2>1. TypeOK'
    BY <1>13
    DEF IInv, TypeOK, NoCall, BtStatuses, TrajectoryStates, sceneVars, jointVars,
        ExecuteFails, Abort
  <2>2. Control'
    BY <1>13 DEF Control, InMotion, NoCall, ExecuteFails, Abort
  <2>3. Position'
    BY <1>13 DEF Position, CountedMeansThere, NoCall, ExecuteFails, Abort
  <2>4. SceneReady'
    BY <1>13 DEF IInv, SceneReady, sceneVars, ExecuteFails, Abort
  <2>5. QED
    BY <2>1, <2>2, <2>3, <2>4 DEF IInv
<1>14. CASE PlanUnusable
  <2>1. TypeOK'
    BY <1>14
    DEF IInv, TypeOK, Control, InMotion, NoCall, BtStatuses, TrajectoryStates,
        sceneVars, jointVars, PlanUnusable, Abort
  <2>2. Control'
    BY <1>14 DEF Control, InMotion, NoCall, PlanUnusable, Abort
  <2>3. Position'
    BY <1>14 DEF Position, CountedMeansThere, NoCall, PlanUnusable, Abort
  <2>4. SceneReady'
    BY <1>14 DEF IInv, SceneReady, sceneVars, PlanUnusable, Abort
  <2>5. QED
    BY <2>1, <2>2, <2>3, <2>4 DEF IInv
<1>15. CASE PollMatches
  <2>1. TypeOK'
    BY <1>15
    DEF IInv, TypeOK, Control, InMotion, NoCall, TrajectoryStates, AfterMove,
        sceneVars, jointVars, PollMatches
  <2>2. Control'
    BY <1>15 DEF IInv, Control, InMotion, NoCall, Traversing, AfterMove, PollMatches
  <2>3. Position'
    BY <1>15
    DEF IInv, Control, Position, CountedMeansThere, InMotion, NoCall, Traversing,
        AfterMove, PollMatches
  <2>4. SceneReady'
    BY <1>15
    DEF IInv, SceneReady, InMotion, NoCall, Traversing, AfterMove, sceneVars,
        PollMatches
  <2>5. QED
    BY <2>1, <2>2, <2>3, <2>4 DEF IInv
<1>16. CASE PollTimesOut
  <2>1. TypeOK'
    BY <1>16
    DEF IInv, TypeOK, NoCall, BtStatuses, TrajectoryStates, sceneVars, jointVars,
        PollTimesOut, Abort
  <2>2. Control'
    BY <1>16 DEF Control, InMotion, NoCall, PollTimesOut, Abort
  <2>3. Position'
    BY <1>16 DEF Position, CountedMeansThere, NoCall, PollTimesOut, Abort
  <2>4. SceneReady'
    BY <1>16 DEF IInv, SceneReady, sceneVars, PollTimesOut, Abort
  <2>5. QED
    BY <2>1, <2>2, <2>3, <2>4 DEF IInv
<1>17. CASE PublishJointState
  <2>1. TypeOK'
    BY <1>17, DoorAssumption DEF IInv, TypeOK, nodeVars, sceneVars, PublishJointState
  <2>2. Control'
    BY <1>17 DEF IInv, Control, InMotion, nodeVars, PublishJointState
  <2>3. Position'
    BY <1>17
    DEF IInv, Position, CountedMeansThere, InMotion, nodeVars, PublishJointState
  <2>4. SceneReady'
    BY <1>17 DEF IInv, SceneReady, InMotion, nodeVars, sceneVars, PublishJointState
  <2>5. QED
    BY <2>1, <2>2, <2>3, <2>4 DEF IInv
<1>18. CASE JointStateCallback
  <2>1. TypeOK'
    BY <1>18, DoorAssumption DEF IInv, TypeOK, nodeVars, sceneVars, JointStateCallback
  <2>2. Control'
    BY <1>18 DEF IInv, Control, InMotion, nodeVars, JointStateCallback
  <2>3. Position'
    BY <1>18
    DEF IInv, Position, CountedMeansThere, InMotion, nodeVars, JointStateCallback
  <2>4. SceneReady'
    BY <1>18 DEF IInv, SceneReady, InMotion, nodeVars, sceneVars, JointStateCallback
  <2>5. QED
    BY <2>1, <2>2, <2>3, <2>4 DEF IInv
<1>19. CASE OtherMotion
  <2>1. TypeOK'
    BY <1>19, PlacementsOfRoute
    DEF IInv, TypeOK, nodeVars, sceneVars, jointVars, OtherMotion
  <2>2. Control'
    BY <1>19 DEF IInv, Control, InMotion, nodeVars, OtherMotion
  <2>3. Position'
    BY <1>19
    DEF IInv, Control, Position, CountedMeansThere, InMotion, NoCall, nodeVars,
        OtherMotion
  <2>4. SceneReady'
    BY <1>19 DEF IInv, SceneReady, nodeVars, sceneVars, OtherMotion
  <2>5. QED
    BY <2>1, <2>2, <2>3, <2>4 DEF IInv
<1>20. CASE UNCHANGED vars
  <2>1. TypeOK'
    BY <1>20 DEF IInv, TypeOK, nodeVars, sceneVars, jointVars, vars
  <2>2. Control'
    BY <1>20 DEF IInv, Control, InMotion, nodeVars, vars
  <2>3. Position'
    BY <1>20 DEF IInv, Position, CountedMeansThere, InMotion, nodeVars, vars
  <2>4. SceneReady'
    BY <1>20 DEF IInv, SceneReady, InMotion, nodeVars, sceneVars, vars
  <2>5. QED
    BY <2>1, <2>2, <2>3, <2>4 DEF IInv
<1>21. QED
  BY <1>1, <1>2, <1>3, <1>4, <1>5, <1>6, <1>7, <1>8, <1>9, <1>10, <1>11, <1>12, <1>13, <1>14, <1>15, <1>16, <1>17, <1>18, <1>19, <1>20
  DEF Next, Tick, ExecuteReturns, PollReturns

(* IInv holds throughout every behavior.                                   *)
THEOREM Inductive == Spec => []IInv
  BY InitIInv, StepIInv, PTL DEF Spec

(* The node's state keeps its types, and current_waypoint_ never leaves    *)
(* the list it indexes: onStart resets both, every advance is guarded.     *)
THEOREM TypeCorrect == Spec => []TypeOK
<1>1. IInv => TypeOK
  BY DEF IInv
<1>2. QED
  BY Inductive, <1>1, PTL

(* When the scene takes every object, no Cartesian motion is planned or    *)
(* executed without the door's panel and frame in it.                      *)
THEOREM DoorAlwaysSeen ==
    ASSUME ~SceneMayReject
    PROVE  Spec => []MotionSeesDoor
<1>1. IInv => MotionSeesDoor
  <2> SUFFICES ASSUME IInv, InMotion, current_state # "APPROACH_HOME"
               PROVE  panel # Absent /\ frame
    BY DEF MotionSeesDoor
  <2>1. btStatus = "RUNNING"
    BY DEF IInv, Control, InMotion, NoCall
  <2>2. door_objects_added
    BY <2>1 DEF IInv, SceneReady
  <2>3. QED
    BY <2>2 DEF IInv, SceneReady
<1>2. QED
  BY Inductive, <1>1, PTL

(* A waypoint is counted only with the arm standing at it.                 *)
THEOREM CountedOnlyThere == Spec => []CountedMeansThere
<1>1. IInv => CountedMeansThere
  BY DEF IInv, Position
<1>2. QED
  BY Inductive, <1>1, PTL
-----------------------------------------------------------------------------
(* The refinement: each step of the node is a step of DoorTask, or leaves  *)
(* its status, its count and the arm alone.                                *)

LEMMA InitRefines == Init => Task!TaskInit
  BY PlacementsOfRoute DEF Init, Task!TaskInit

LEMMA StepRefines ==
    ASSUME IInv, IInv', [Next]_vars
    PROVE  [Task!TaskNext]_(Task!taskVars)
<1> USE DEF Task!TaskNext, Task!taskVars
<1>1. arm \in Placements /\ arm' \in Placements
  BY DEF IInv, TypeOK
<1>2. CASE OnStart
  BY <1>2 DEF OnStart, Task!Begin
<1>3. CASE OnHalted
  BY <1>1, <1>3 DEF OnHalted, Task!GiveUp
<1>4. CASE IdleTick \/ HomeConfirmed \/ ExecuteApproach \/ ExecutingWaypoint
  BY <1>4 DEF IdleTick, HomeConfirmed, ExecuteApproach, ExecutingWaypoint
<1>5. CASE HomeCommanded \/ PlanApproach
  BY <1>1, <1>5
  DEF HomeCommanded, PlanApproach, Ticking, BeginMove, PlanFails, Abort,
      Task!Move, Task!GiveUp
<1>6. CASE PrepareWaypoints
  <2>1. btStatus = "RUNNING" /\ current_waypoint' = current_waypoint
    BY <1>6 DEF PrepareWaypoints, Ticking, IInv, Control, Traversing
  <2>2. UNCHANGED arm /\ btStatus' \in {btStatus, "FAILURE"}
    BY <1>6 DEF PrepareWaypoints, Abort
  <2>3. QED
    BY <1>1, <2>1, <2>2 DEF Task!GiveUp
<1>7. CASE PlanWaypoint
  <2>1. current_waypoint < Len(waypoints)
    BY <1>7 DEF PlanWaypoint, Ticking, IInv, Control, Traversing
  <2>2. BeginMove(waypoints[current_waypoint + 1]) \/ PlanFails
    BY <1>7, <2>1 DEF PlanWaypoint, IInv, TypeOK
  <2>3. btStatus = "RUNNING" /\ UNCHANGED current_waypoint
    BY <1>7 DEF PlanWaypoint, Ticking
  <2>4. QED
    BY <1>1, <2>2, <2>3 DEF BeginMove, PlanFails, Abort, Task!Move, Task!GiveUp
<1>8. CASE WaitingCompletion
  <2>1. /\ btStatus = "RUNNING" /\ waypoints = Route
        /\ current_waypoint < Len(Route)
        /\ arm = Route[current_waypoint + 1]
    BY <1>8
    DEF WaitingCompletion, Ticking, IInv, Control, Position, CountedMeansThere,
        Traversing
  <2>2. current_waypoint \in Nat /\ Len(Route) \in Nat
    BY <2>1, RouteSeq DEF IInv, TypeOK
  <2>3. btStatus' = IF current_waypoint' = Len(Route) THEN "SUCCESS" ELSE "RUNNING"
    BY <1>8, <2>1, <2>2 DEF WaitingCompletion
  <2>4. QED
    BY <1>8, <2>1, <2>3 DEF WaitingCompletion, Task!Visit
<1>9. CASE ExecuteReturns
  <2>1. btStatus = "RUNNING"
    BY <1>9
    DEF ExecuteReturns, ExecuteSucceeds, ExecuteFails, PlanUnusable, NoCall,
        IInv, Control
  <2>2. QED
    BY <1>1, <1>9, <2>1
    DEF ExecuteReturns, ExecuteSucceeds, ExecuteFails, PlanUnusable, Abort,
        nodeVars, Task!Move, Task!GiveUp
<1>10. CASE PollReturns
  <2>1. btStatus = "RUNNING"
    BY <1>10 DEF PollReturns, PollMatches, PollTimesOut, NoCall, IInv, Control
  <2>2. QED
    BY <1>1, <1>10, <2>1
    DEF PollReturns, PollMatches, PollTimesOut, Abort, Task!GiveUp
<1>11. CASE PublishJointState \/ JointStateCallback
  BY <1>11 DEF PublishJointState, JointStateCallback, nodeVars
<1>12. CASE OtherMotion
  BY <1>1, <1>12 DEF OtherMotion, nodeVars, Task!Move
<1>13. CASE UNCHANGED vars
  BY <1>13 DEF vars, nodeVars
<1>14. QED
  BY <1>2, <1>3, <1>4, <1>5, <1>6, <1>7, <1>8, <1>9, <1>10, <1>11, <1>12,
     <1>13
  DEF Next, Tick

(* The node walks its route in order and reports SUCCESS exactly after the *)
(* last waypoint, for every schedule and every executor.                   *)
THEOREM NodeImplementsTask == Spec => ImplementsTask
<1>1. Spec => []IInv
  BY Inductive
<1>2. Init => Task!TaskInit
  BY InitRefines
<1>3. IInv /\ IInv' /\ [Next]_vars => [Task!TaskNext]_(Task!taskVars)
  BY StepRefines
<1>4. QED
  BY <1>1, <1>2, <1>3, PTL DEF Spec, ImplementsTask, Task!TaskSpec
-----------------------------------------------------------------------------
(* With one thread for ticks and callbacks: the joints compared at the end *)
(* of a move are those from before the tick, so a move to another place    *)
(* than the one the arm was seen at is never confirmed.                    *)

Near == {ApproachPose, Elsewhere}
Lined == {"EXECUTE_APPROACH", "PREPARE_WAYPOINTS"} \cup Traversing
AllApproach(n) == \A i \in 1..n : Route[i] = ApproachPose

(* Up to the approach: what is queued was published where the arm stands,  *)
(* and the approach begins with the arm seen at home or where it stands.   *)
BeforeApproach ==
    /\ current_state \in {"IDLE", "APPROACH_HOME", "PLAN_APPROACH"} /\ call = NoCall
         => samples \in Seq({arm})
    /\ current_state = "APPROACH_HOME" /\ InMotion
         => call.target = Home /\ joints # Home
    /\ current_state = "PLAN_APPROACH" /\ call = NoCall => joints \in {Home, arm}
    /\ current_state = "PLAN_APPROACH" /\ InMotion =>
         /\ call.target = ApproachPose /\ arm \in Near
         /\ joints = ApproachPose => samples \in Seq(Near)

(* After it: the arm has been nowhere else, so it was seen nowhere else.   *)
AfterApproach ==
    /\ current_state \in Lined => joints \in Near
    /\ current_state \in Lined /\ call = NoCall
         => arm \in Near /\ samples \in Seq(Near)
    /\ current_state = "PLANNING_WAYPOINT" /\ InMotion =>
         /\ arm \in Near \cup {call.target}
         /\ samples \in Seq(Near \cup {call.target})
    /\ current_state \in Traversing => AllApproach(current_waypoint)
    /\ current_state \in {"EXECUTING_WAYPOINT", "WAITING_COMPLETION"}
         => AllApproach(current_waypoint + 1)

View ==
    /\ btStatus = "SUCCESS" => AllApproach(Len(Route))
    /\ btStatus = "RUNNING" => BeforeApproach /\ AfterApproach

LEMMA QueuePublished ==
    ASSUME NEW S, NEW q \in Seq(S), NEW a \in S
    PROVE  (IF Len(q) < QueueDepth THEN Append(q, a) ELSE Append(Tail(q), a)) \in Seq(S)
<1>1. CASE Len(q) < QueueDepth
  BY <1>1
<1>2. CASE ~(Len(q) < QueueDepth)
  <2>1. q # <<>>
    BY <1>2, DoorAssumption
  <2>2. Tail(q) \in Seq(S)
    BY <2>1
  <2> QED
    BY <1>2, <2>2
<1> QED
  BY <1>1, <1>2

LEMMA QueueWidened ==
    ASSUME NEW S, NEW T, S \subseteq T, NEW q \in Seq(S)
    PROVE  q \in Seq(T)
<1> QED
  OBVIOUS

(* A pose of the schedule is neither of the joint vectors with a name. *)
LEMMA RouteOfPoses == \A i \in 1..Len(Route) : Route[i] \in Pose
<1> SUFFICES ASSUME NEW i \in 1..Len(Route) PROVE Route[i] \in Pose
  OBVIOUS
<1>0. /\ Len(Phis) \in Nat /\ Len(OmegaValues) \in Nat
      /\ OmegaValues \in Seq(Int) /\ Phis \in Seq(Int)
  BY DoorAssumption DEF OmegaValues, DefaultOmegas
<1>1. ~LoopDiverges
  BY DEF Route
<1>2. ThetaCount \in Nat
  BY <1>1, DoorAssumption DEF LoopDiverges, ThetaCount
<1>3. PerTheta \in Nat /\ ThetaCount * PerTheta \in Nat
  BY <1>0, <1>2, ProductNat DEF PerTheta
<1>4. Len(Route) = ThetaCount * PerTheta /\ Route[i] = WaypointAt(i)
  <2> DEFINE n == ThetaCount * PerTheta
  <2>1. Route = [j \in 1..n |-> WaypointAt(j)]
    BY <1>1 DEF Route
  <2>2. n \in Nat
    BY <1>3
  <2> HIDE DEF n
  <2>3. Len(Route) = n
    BY <2>1, <2>2
  <2>4. Route[i] = WaypointAt(i)
    BY <2>1, <2>3
  <2> QED
    BY <2>3, <2>4 DEF n
<1>5. Len(Phis) > 0 /\ Len(OmegaValues) > 0 /\ PerTheta > 0
  <2>1. ThetaCount * PerTheta > 0
    BY <1>3, <1>4
  <2>2. PerTheta # 0
    BY <1>2, <1>3, <2>1
  <2>3. Len(Phis) # 0 /\ Len(OmegaValues) # 0
    BY <1>0, <2>2 DEF PerTheta
  <2> QED
    BY <1>0, <1>3, <2>2, <2>3
<1>6. i - 1 \in Nat
  BY <1>3, <1>4
<1>7. ((i - 1) \div PerTheta) * ThetaStep \in Int
  <2>1. (i - 1) \div PerTheta \in Int
    BY <1>3, <1>5, <1>6
  <2> QED
    BY <2>1, DoorAssumption
<1>8. /\ (((i - 1) \div Len(OmegaValues)) % Len(Phis)) + 1 \in 1..Len(Phis)
      /\ ((i - 1) % Len(OmegaValues)) + 1 \in 1..Len(OmegaValues)
  <2>1. (i - 1) \div Len(OmegaValues) \in Int
    BY <1>0, <1>5, <1>6
  <2> QED
    BY <1>0, <1>5, <1>6, <2>1
<1>9. /\ Phis[(((i - 1) \div Len(OmegaValues)) % Len(Phis)) + 1] \in Int
      /\ OmegaValues[((i - 1) % Len(OmegaValues)) + 1] \in Int
  BY <1>0, <1>8
<1> QED
  BY <1>4, <1>7, <1>9 DEF WaypointAt, Pose

LEMMA ApproachIsPose == ApproachPose \in Pose
  BY DEF ApproachPose, Pose

LEMMA ViewStarts ==
    ASSUME IInv, OnStart PROVE View'
<1>1. /\ btStatus' = "RUNNING" /\ current_state' = "IDLE"
      /\ samples' = <<>> /\ call' = NoCall
  BY DEF OnStart, IInv, Control
<1> QED
  BY <1>1 DEF View, BeforeApproach, AfterApproach, Lined, Traversing

(* A run that ends without success. *)
LEMMA ViewEnds ==
    ASSUME btStatus' \in {"IDLE", "FAILURE"} PROVE View'
<1> QED
  BY DEF View

(* The ticks that do not move the arm. *)
LEMMA ViewTicks ==
    ASSUME IInv, View,
           \/ IdleTick \/ HomeConfirmed \/ ExecuteApproach \/ ExecutingWaypoint
    PROVE  View'
<1> USE DEF View, BeforeApproach, AfterApproach, InMotion, NoCall, Lined, Traversing,
            sceneVars, jointVars, Ticking
<1>1. CASE IdleTick
  BY <1>1 DEF IdleTick
<1>2. CASE HomeConfirmed
  BY <1>2 DEF HomeConfirmed
<1>3. CASE ExecuteApproach
  BY <1>3 DEF ExecuteApproach
<1>4. CASE ExecutingWaypoint
  BY <1>4 DEF ExecutingWaypoint
<1> QED
  BY <1>1, <1>2, <1>3, <1>4

LEMMA ViewPrepares ==
    ASSUME IInv, View, PrepareWaypoints
    PROVE  View'
<1>1. /\ btStatus = "RUNNING" /\ current_state = "PREPARE_WAYPOINTS" /\ call = NoCall
      /\ current_waypoint' = 0
      /\ UNCHANGED <<joints, samples, arm>>
  BY DEF PrepareWaypoints, Ticking, jointVars
<1>2. AllApproach(current_waypoint')
  BY <1>1 DEF AllApproach
<1>3. \/ btStatus' = "FAILURE"
      \/ btStatus' = "RUNNING" /\ current_state' = "PREPARE_WAYPOINTS"
           /\ call'.stage = "looping"
      \/ btStatus' = "RUNNING" /\ current_state' = "PLANNING_WAYPOINT" /\ call' = NoCall
  BY <1>1 DEF PrepareWaypoints, Abort, NoCall
<1> QED
  BY <1>1, <1>2, <1>3 DEF View, BeforeApproach, AfterApproach, Lined

(* The ticks that begin a move. *)
LEMMA ViewCommandsHome ==
    ASSUME IInv, View, HomeCommanded
    PROVE  View'
<1>1. CASE PlanFails
  BY <1>1, ViewEnds DEF PlanFails, Abort
<1>2. CASE BeginMove(Home)
  BY <1>2
  DEF HomeCommanded, BeginMove, Ticking, jointVars, View, BeforeApproach,
      AfterApproach, NoCall
<1> QED
  BY <1>1, <1>2 DEF HomeCommanded

LEMMA ViewPlansApproach ==
    ASSUME IInv, View, PlanApproach
    PROVE  View'
<1>1. CASE PlanFails
  BY <1>1, ViewEnds DEF PlanFails, Abort
<1>2. CASE BeginMove(ApproachPose)
  <2>1. /\ btStatus' = "RUNNING" /\ current_state' = "PLAN_APPROACH"
        /\ call' = [stage |-> "moving", target |-> ApproachPose]
        /\ arm' = Elsewhere /\ UNCHANGED <<joints, samples>>
    BY <1>2 DEF PlanApproach, BeginMove, Ticking, jointVars
  <2>2. samples \in Seq({arm}) /\ joints \in {Home, arm}
    BY DEF PlanApproach, Ticking, View, BeforeApproach
  <2>3. ASSUME joints = ApproachPose PROVE samples \in Seq(Near)
    <3>1. arm = ApproachPose
      BY <2>2, <2>3, ApproachIsPose, NamesAssumption
    <3> QED
      BY <2>2, <3>1, QueueWidened DEF Near
  <2> QED
    BY <2>1, <2>3
    DEF View, BeforeApproach, AfterApproach, NoCall, Lined, Traversing, Near
<1> QED
  BY <1>1, <1>2 DEF PlanApproach

LEMMA ViewPlansWaypoint ==
    ASSUME IInv, View, PlanWaypoint
    PROVE  View'
<1>1. current_waypoint < Len(waypoints)
  BY DEF PlanWaypoint, Ticking, IInv, Control, Traversing
<1>2. CASE PlanFails
  BY <1>2, ViewEnds DEF PlanFails, Abort
<1>3. ASSUME NEW p, BeginMove(p) PROVE View'
  <2>1. /\ btStatus' = "RUNNING" /\ current_state' = "PLANNING_WAYPOINT"
        /\ call' = [stage |-> "moving", target |-> p]
        /\ arm' = Elsewhere /\ UNCHANGED <<joints, samples, current_waypoint>>
    BY <1>3 DEF PlanWaypoint, BeginMove, Ticking, jointVars
  <2>2. /\ btStatus = "RUNNING" /\ current_state = "PLANNING_WAYPOINT" /\ call = NoCall
    BY DEF PlanWaypoint, Ticking
  <2>3. joints \in Near /\ samples \in Seq(Near) /\ AllApproach(current_waypoint)
    BY <2>2 DEF View, AfterApproach, Lined, Traversing
  <2> QED
    BY <2>1, <2>3 DEF View, BeforeApproach, AfterApproach, Near
<1> QED
  BY <1>1, <1>2, <1>3 DEF PlanWaypoint, IInv, TypeOK

(* WAITING_COMPLETION counts a waypoint: SUCCESS only when all were poses  *)
(* of the approach.                                                        *)
LEMMA ViewCounts ==
    ASSUME IInv, View, WaitingCompletion
    PROVE  View'
<1>1. /\ btStatus = "RUNNING" /\ current_state = "WAITING_COMPLETION" /\ call = NoCall
      /\ current_waypoint' = current_waypoint + 1
      /\ UNCHANGED <<joints, samples, arm, call>>
  BY DEF WaitingCompletion, Ticking, jointVars
<1>2. /\ AllApproach(current_waypoint + 1) /\ joints \in Near
      /\ arm \in Near /\ samples \in Seq(Near)
  BY <1>1 DEF View, AfterApproach, Lined, Traversing
<1>3. waypoints = Route /\ current_waypoint < Len(Route) /\ current_waypoint \in Nat
  BY <1>1 DEF IInv, Control, TypeOK, Traversing
<1>4. \/ btStatus' = "SUCCESS" /\ current_waypoint + 1 >= Len(Route)
      \/ btStatus' = "RUNNING" /\ current_state' = "PLANNING_WAYPOINT"
  BY <1>1, <1>3 DEF WaitingCompletion
<1>5. ASSUME current_waypoint + 1 >= Len(Route) PROVE AllApproach(Len(Route))
  <2>0. Len(Route) \in Nat
    BY RouteSeq
  <2>1. Len(Route) = current_waypoint + 1
    BY <2>0, <1>3, <1>5
  <2> QED
    BY <1>2, <2>1 DEF AllApproach
<1> QED
  BY <1>1, <1>2, <1>4, <1>5 DEF View, BeforeApproach, AfterApproach

(* The ends of a move. *)
LEMMA ViewExecutes ==
    ASSUME IInv, View, ExecuteReturns
    PROVE  View'
<1>1. CASE ExecuteFails \/ PlanUnusable
  BY <1>1, ViewEnds DEF ExecuteFails, PlanUnusable, Abort
<1>2. CASE ExecuteSucceeds
  BY <1>2
  DEF ExecuteSucceeds, nodeVars, jointVars, View, BeforeApproach, AfterApproach,
      InMotion, NoCall, Near
<1> QED
  BY <1>1, <1>2 DEF ExecuteReturns

(* A comparison that matches: at home none does, at the approach the arm   *)
(* was there before, and a waypoint is the approach pose again.            *)
LEMMA ViewMatches ==
    ASSUME IInv, View, PollMatches
    PROVE  View'
<1>1. /\ btStatus = "RUNNING" /\ InMotion /\ joints = call.target /\ arm = call.target
      /\ current_state \in {"APPROACH_HOME", "PLAN_APPROACH", "PLANNING_WAYPOINT"}
      /\ call' = NoCall /\ btStatus' = btStatus
      /\ UNCHANGED <<joints, samples, arm, current_waypoint>>
  BY DEF PollMatches, IInv, Control, Position, InMotion, NoCall, AfterMove, jointVars
<1>2. current_state # "APPROACH_HOME"
  BY <1>1 DEF View, BeforeApproach
<1>3. CASE current_state = "PLAN_APPROACH"
  <2>1. joints \in Near /\ arm \in Near /\ samples \in Seq(Near)
    BY <1>1, <1>3 DEF View, BeforeApproach
  <2>2. current_state' = "EXECUTE_APPROACH"
    BY <1>3 DEF PollMatches, AfterMove
  <2> QED
    BY <1>1, <2>1, <2>2 DEF View, BeforeApproach, AfterApproach, Traversing
<1>4. CASE current_state = "PLANNING_WAYPOINT"
  <2>1. /\ waypoints = Route /\ current_waypoint < Len(Route)
        /\ current_waypoint \in Nat /\ Len(Route) \in Nat
        /\ call.target = Route[current_waypoint + 1]
    BY <1>1, <1>4 DEF IInv, Control, TypeOK, Position, Traversing
  <2>2. call.target \in Pose
    BY <2>1, RouteOfPoses
  <2>3. /\ joints \in Near /\ samples \in Seq(Near \cup {call.target})
        /\ AllApproach(current_waypoint)
    BY <1>1, <1>4 DEF View, AfterApproach, Lined, Traversing
  <2>4. call.target = ApproachPose
    BY <1>1, <2>2, <2>3, NamesAssumption DEF Near
  <2>5. arm \in Near /\ samples \in Seq(Near)
    BY <1>1, <2>3
  <2>6. AllApproach(current_waypoint + 1) /\ AllApproach(current_waypoint')
    <3>1. \A i \in 1..(current_waypoint + 1) :
            i \in 1..current_waypoint \/ i = current_waypoint + 1
      BY <2>1
    <3> QED
      BY <1>1, <2>1, <2>3, <2>4, <3>1 DEF AllApproach
  <2>7. current_state' = "EXECUTING_WAYPOINT" /\ AllApproach(current_waypoint' + 1)
    BY <1>4, <2>6 DEF PollMatches, AfterMove
  <2> QED
    BY <1>1, <2>5, <2>6, <2>7 DEF View, BeforeApproach, AfterApproach
<1> QED
  BY <1>1, <1>2, <1>3, <1>4

(* A sample published is of where the arm is. *)
LEMMA ViewPublishes ==
    ASSUME IInv, View, PublishJointState
    PROVE  View'
<1>1. /\ samples' = IF Len(samples) < QueueDepth THEN Append(samples, arm)
                    ELSE Append(Tail(samples), arm)
      /\ UNCHANGED <<btStatus, current_state, current_waypoint, call, joints, arm>>
  BY DEF PublishJointState, nodeVars
<1>2. ASSUME NEW S, samples \in Seq(S), arm \in S
      PROVE  samples' \in Seq(S)
  BY <1>1, <1>2, QueuePublished
<1>3. /\ samples \in Seq({arm}) => samples' \in Seq({arm})
      /\ samples \in Seq(Near) /\ arm \in Near => samples' \in Seq(Near)
      /\ samples \in Seq(Near \cup {call.target}) /\ arm \in Near \cup {call.target}
           => samples' \in Seq(Near \cup {call.target})
  BY <1>2
<1> HIDE DEF Near
<1> QED
  BY <1>1, <1>3 DEF View, BeforeApproach, AfterApproach, InMotion

(* The callback runs between ticks only. *)
LEMMA ViewCalledBack ==
    ASSUME IInv, View, ~spinDuringTick, JointStateCallback
    PROVE  View'
<1>1. /\ samples # <<>> /\ call = NoCall
      /\ joints' = Head(samples) /\ samples' = Tail(samples)
      /\ UNCHANGED <<btStatus, current_state, current_waypoint, call, arm>>
  BY DEF JointStateCallback, nodeVars
<1> QED
  BY <1>1 DEF View, BeforeApproach, AfterApproach, InMotion, NoCall

LEMMA ViewStays ==
    ASSUME View, OtherMotion \/ UNCHANGED vars
    PROVE  View'
<1>1. CASE OtherMotion
  BY <1>1 DEF OtherMotion, nodeVars, View
<1>2. CASE UNCHANGED vars
  BY <1>2 DEF vars, nodeVars, jointVars, View, BeforeApproach, AfterApproach, InMotion
<1> QED
  BY <1>1, <1>2

StaleView == ~spinDuringTick => View

LEMMA StaleViewKept ==
    ASSUME IInv, StaleView, [Next]_vars
    PROVE  StaleView'
<1>1. spinDuringTick' = spinDuringTick
  BY DEF Next, vars, jointVars, OnStart, OnHalted, Tick, IdleTick, HomeConfirmed,
    HomeCommanded, PlanApproach, ExecuteApproach, PrepareWaypoints, PlanWaypoint,
    ExecutingWaypoint, WaitingCompletion, ExecuteReturns, ExecuteSucceeds, ExecuteFails,
    PlanUnusable, PollReturns, PollMatches, PollTimesOut, PublishJointState,
    JointStateCallback, OtherMotion
<1> SUFFICES ASSUME ~spinDuringTick, View PROVE View'
  BY <1>1 DEF StaleView
<1>2. CASE OnHalted \/ PollTimesOut
  BY <1>2, ViewEnds DEF OnHalted, PollTimesOut, Abort
<1>3. CASE OtherMotion \/ UNCHANGED vars
  BY <1>3, ViewStays
<1> QED
  BY <1>2, <1>3, ViewStarts, ViewTicks, ViewPrepares, ViewCommandsHome, ViewPlansApproach,
     ViewPlansWaypoint, ViewCounts, ViewExecutes, ViewMatches, ViewPublishes, ViewCalledBack
  DEF Next, Tick, PollReturns

LEMMA StaleViewInvariant == Spec => []StaleView
<1>1. Init => StaleView
  BY DEF Init, StaleView, View
<1>2. IInv /\ StaleView /\ [Next]_vars => StaleView'
  BY StaleViewKept
<1> QED
  BY <1>1, <1>2, Inductive, PTL DEF Spec

(* NeverSucceeds holds for every schedule and queue depth: under the       *)
(* orchestrator's executor no schedule with a pose other than the approach *)
(* pose is ever completed.                                                 *)
THEOREM ScheduleNeverCompleted == Spec => []NeverSucceeds
<1>1. StaleView => NeverSucceeds
  <2> SUFFICES ASSUME StaleView, ~spinDuringTick, btStatus = "SUCCESS",
                      NEW i \in DOMAIN Route, Route[i] # ApproachPose
               PROVE  FALSE
    BY DEF NeverSucceeds
  <2>1. AllApproach(Len(Route))
    BY DEF StaleView, View
  <2> QED
    BY <2>1, RouteSeq DEF AllApproach
<1> QED
  BY <1>1, StaleViewInvariant, PTL
=============================================================================
