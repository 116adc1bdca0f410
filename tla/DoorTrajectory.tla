--------------------------- MODULE DoorTrajectory ---------------------------
(***************************************************************************)
(* DoorTrajectoryAction: the behavior-tree node that opens a door with the *)
(* arm through MoveIt (door_trajectory_action.cpp).                        *)
(*                                                                         *)
(* The node is a state machine driven by ticks.  Three of its ticks block  *)
(* inside MoveIt: they plan, execute and then poll the cached joints until *)
(* the arm is seen at the end of the plan or ten seconds have passed.  The *)
(* model splits such a tick (variable `call`): in between, the arm moves   *)
(* and joint states are published.  Under TaskOrchestrator the timer that  *)
(* ticks and the /joint_states callback are in one callback group, so the  *)
(* callback never runs during a tick (spinDuringTick = FALSE).  It does if *)
(* the tree is ticked by a thread that is not the node's executor          *)
(* (spinDuringTick = TRUE): the case joints_mutex_ guards against.         *)
(*                                                                         *)
(* Joint vectors and poses are abstracted to placements of the arm: a pose *)
(* <<theta, phi, omega>> of the schedule, Home, or Elsewhere.              *)
(***************************************************************************)
EXTENDS Integers, Sequences

CONSTANTS
    ThetaMax,       \* port theta_max_deg, whole degrees
    ThetaStep,      \* port theta_step_deg; the code does not validate it
    Phis, Omegas,   \* ports phi_values and omega_values
    Home,           \* home_joints
    Elsewhere,      \* any other joint vector
    Unknown,        \* current_joints_ before the first message
    Absent,         \* door_panel is not in the planning scene
    Threadings,     \* the deployments considered: values of spinDuringTick
    SceneMayReject, \* move_group may refuse a collision object
    QueueDepth      \* history depth of the /joint_states subscription

Pose == Int \X Int \X Int

ASSUME DoorAssumption ==
    /\ ThetaMax \in Int /\ ThetaStep \in Int
    /\ Phis \in Seq(Int) /\ Omegas \in Seq(Int)
    /\ Threadings \subseteq BOOLEAN /\ SceneMayReject \in BOOLEAN
    /\ QueueDepth \in Nat \ {0}

(* Named apart from DoorAssumption because the proofs alone need it. *)
ASSUME NamesAssumption ==
    /\ Home \notin Pose /\ Elsewhere \notin Pose /\ Unknown \notin Pose
    /\ Home # Elsewhere /\ Home # Unknown /\ Elsewhere # Unknown
    /\ Absent \notin Int
-----------------------------------------------------------------------------
(* The schedule: three nested loops over theta, phi and omega. *)

DefaultOmegas == <<15, 30, 45, 60, 75, 90>>
OmegaValues == IF Omegas = <<>> THEN DefaultOmegas ELSE Omegas

ThetaCount == IF ThetaMax < 0 THEN 0 ELSE (ThetaMax \div ThetaStep) + 1
PerTheta == Len(Phis) * Len(OmegaValues)

WaypointAt(i) ==
    <<((i - 1) \div PerTheta) * ThetaStep,
      Phis[(((i - 1) \div Len(OmegaValues)) % Len(Phis)) + 1],
      OmegaValues[((i - 1) % Len(OmegaValues)) + 1]>>

(* theta_deg += theta_step_deg never passes theta_max_deg. *)
LoopDiverges == ThetaStep <= 0 /\ ThetaMax >= 0

Route == IF LoopDiverges THEN <<>>
         ELSE [i \in 1..(ThetaCount * PerTheta) |-> WaypointAt(i)]

ApproachPose == <<0, 0, 0>>
Placements == {Home, Elsewhere, ApproachPose} \cup {Route[i] : i \in DOMAIN Route}
-----------------------------------------------------------------------------
VARIABLES
    btStatus,           \* NodeStatus last returned to the tree
    current_state,      \* TrajectoryState
    waypoints,          \* waypoints_
    current_waypoint,   \* current_waypoint_, counted from 0
    door_objects_added, \* door_objects_added_
    planning_scene,     \* planning_scene_ is not null
    call,               \* the blocking call the current tick is in
    joints,             \* current_joints_, the cache
    subscribed,         \* joint_state_sub_ exists
    samples,            \* messages queued in the subscription
    spinDuringTick,     \* the tree is ticked by a thread apart from the executor
    arm,                \* where the arm really is
    panel,              \* theta of door_panel in move_group's scene, or Absent
    frame               \* door_frame is in move_group's scene

nodeVars == <<btStatus, current_state, waypoints, current_waypoint>>
sceneVars == <<door_objects_added, planning_scene, panel, frame>>
jointVars == <<joints, subscribed, samples, spinDuringTick>>
vars == <<nodeVars, sceneVars, jointVars, call, arm>>

NoCall == [stage |-> "none", target |-> Unknown]

BtStatuses == {"IDLE", "RUNNING", "SUCCESS", "FAILURE"}
TrajectoryStates ==
    {"IDLE", "APPROACH_HOME", "PLAN_APPROACH", "EXECUTE_APPROACH",
     "PREPARE_WAYPOINTS", "PLANNING_WAYPOINT", "EXECUTING_WAYPOINT",
     "WAITING_COMPLETION", "DONE", "ERROR"}

(* The node object, just constructed by the factory; nobody else has put a *)
(* door in the scene.                                                      *)
Init ==
    /\ btStatus = "IDLE"
    /\ current_state = "IDLE"
    /\ waypoints = <<>>
    /\ current_waypoint = 0
    /\ door_objects_added = FALSE
    /\ planning_scene = FALSE
    /\ call = NoCall
    /\ joints = Unknown
    /\ subscribed = FALSE
    /\ samples = <<>>
    /\ spinDuringTick \in Threadings
    /\ arm \in {Home, Elsewhere}
    /\ panel = Absent
    /\ frame = FALSE
-----------------------------------------------------------------------------
(* Mutants: what a slip in the code would make of a definition below.      *)

(* onStart without current_waypoint_ = 0. *)
OnStartKeepsIndex ==
    /\ btStatus # "RUNNING"
    /\ btStatus' = "RUNNING"
    /\ current_state' = "IDLE"
    /\ waypoints' = <<>>
    /\ door_objects_added' = FALSE
    /\ planning_scene' = FALSE
    /\ subscribed' = TRUE
    /\ samples' = <<>>
    /\ UNCHANGED <<current_waypoint, spinDuringTick, call, joints, arm, panel,
                   frame>>

(* The frame is not added. *)
SetupPanelOnly ==
    /\ planning_scene' = TRUE
    /\ door_objects_added' = TRUE
    /\ panel' = 0
    /\ UNCHANGED frame

(* The result of execute is not looked at: poll anyway. *)
ExecuteFailureIgnored ==
    /\ call.stage = "moving"
    /\ call' = [stage |-> "polling", target |-> call.target]
    /\ UNCHANGED <<nodeVars, sceneVars, jointVars, arm>>

(* WAITING_COMPLETION stops one waypoint early. *)
LastWaypointSkipped ==
    /\ btStatus = "RUNNING" /\ call = NoCall
    /\ current_state = "WAITING_COMPLETION"
    /\ current_waypoint' = current_waypoint + 1
    /\ IF current_waypoint' + 1 >= Len(waypoints)
         THEN current_state' = "DONE" /\ btStatus' = "SUCCESS"
         ELSE current_state' = "PLANNING_WAYPOINT" /\ UNCHANGED btStatus
    /\ UNCHANGED <<waypoints, sceneVars, jointVars, call, arm>>

(* The wait has no deadline. *)
PollNeverTimesOut == FALSE /\ UNCHANGED vars

(* /joint_states is served while the tick blocks. *)
CallbackAnyTime ==
    /\ samples # <<>>
    /\ joints' = Head(samples)
    /\ samples' = Tail(samples)
    /\ UNCHANGED <<nodeVars, sceneVars, subscribed, spinDuringTick, call, arm>>
-----------------------------------------------------------------------------
(* onStart: everything is reset but the joint cache; the scene's objects   *)
(* are not removed, and the new subscription starts with an empty queue.   *)
OnStart ==
    /\ btStatus # "RUNNING"
    /\ btStatus' = "RUNNING"
    /\ current_state' = "IDLE"
    /\ current_waypoint' = 0
    /\ waypoints' = <<>>
    /\ door_objects_added' = FALSE
    /\ planning_scene' = FALSE
    /\ subscribed' = TRUE
    /\ samples' = <<>>
    /\ UNCHANGED <<spinDuringTick, call, joints, arm, panel, frame>>

(* onHalted, which the tree calls between two ticks of a running node. *)
OnHalted ==
    /\ btStatus = "RUNNING"
    /\ call = NoCall
    /\ btStatus' = "IDLE"
    /\ current_state' = "IDLE"
    /\ IF planning_scene /\ door_objects_added
         THEN /\ panel' = Absent
              /\ frame' = FALSE
              /\ door_objects_added' = FALSE
         ELSE UNCHANGED <<panel, frame, door_objects_added>>
    /\ UNCHANGED <<waypoints, current_waypoint, planning_scene, call,
                   jointVars, arm>>
-----------------------------------------------------------------------------
(* What ticks share. *)

Ticking(s) ==
    /\ btStatus = "RUNNING"
    /\ call = NoCall
    /\ current_state = s

Abort ==
    /\ current_state' = "ERROR"
    /\ btStatus' = "FAILURE"
    /\ call' = NoCall

(* plan succeeded and execute was sent: the tick stays inside the call. *)
BeginMove(target) ==
    /\ call' = [stage |-> "moving", target |-> target]
    /\ arm' = Elsewhere
    /\ UNCHANGED <<btStatus, current_state>>

(* No MoveGroupInterface, target refused, or no plan found. *)
PlanFails == Abort /\ UNCHANGED arm

(* Adds both objects, once per onStart.  The result of                     *)
(* applyCollisionObject is not looked at.  updateDoorPose(0.0) then moves  *)
(* a panel that is there; both put it at theta = 0.                        *)
SetupDoorCollisionObjects ==
    IF door_objects_added
      THEN /\ panel' = IF panel = Absent THEN Absent ELSE 0
           /\ UNCHANGED <<frame, door_objects_added, planning_scene>>
      ELSE /\ planning_scene' = TRUE
           /\ door_objects_added' = TRUE
           /\ \E panelTaken, frameTaken \in BOOLEAN :
                /\ SceneMayReject \/ (panelTaken /\ frameTaken)
                /\ panel' = IF panelTaken \/ panel # Absent THEN 0 ELSE Absent
                /\ frame' = (frame \/ frameTaken)
-----------------------------------------------------------------------------
(* onRunning, one action per state; a tick that changes nothing (the idle  *)
(* delay has not passed) is a stuttering step.                             *)

IdleTick ==
    /\ Ticking("IDLE")
    /\ current_state' = "APPROACH_HOME"
    /\ UNCHANGED <<btStatus, waypoints, current_waypoint, sceneVars,
                   jointVars, call, arm>>

(* isAtHome looks at the cache only. *)
HomeConfirmed ==
    /\ Ticking("APPROACH_HOME")
    /\ joints = Home
    /\ current_state' = "PLAN_APPROACH"
    /\ UNCHANGED <<btStatus, waypoints, current_waypoint, sceneVars,
                   jointVars, call, arm>>

HomeCommanded ==
    /\ Ticking("APPROACH_HOME")
    /\ joints # Home
    /\ BeginMove(Home) \/ PlanFails
    /\ UNCHANGED <<waypoints, current_waypoint, sceneVars, jointVars>>

PlanApproach ==
    /\ Ticking("PLAN_APPROACH")
    /\ SetupDoorCollisionObjects
    /\ BeginMove(ApproachPose) \/ PlanFails
    /\ UNCHANGED <<waypoints, current_waypoint, jointVars>>

ExecuteApproach ==
    /\ Ticking("EXECUTE_APPROACH")
    /\ current_state' = "PREPARE_WAYPOINTS"
    /\ UNCHANGED <<btStatus, waypoints, current_waypoint, sceneVars,
                   jointVars, call, arm>>

(* With a step that is not positive the tick never leaves the loop. *)
PrepareWaypoints ==
    /\ Ticking("PREPARE_WAYPOINTS")
    /\ current_waypoint' = 0
    /\ waypoints' = Route
    /\ IF LoopDiverges
         THEN /\ call' = [stage |-> "looping", target |-> Unknown]
              /\ UNCHANGED <<btStatus, current_state>>
         ELSE IF Route = <<>>
           THEN Abort
           ELSE /\ current_state' = "PLANNING_WAYPOINT"
                /\ UNCHANGED <<btStatus, call>>
    /\ UNCHANGED <<sceneVars, jointVars, arm>>

PlanWaypoint ==
    /\ Ticking("PLANNING_WAYPOINT")
    /\ IF current_waypoint >= Len(waypoints)
         THEN /\ current_state' = "DONE"
              /\ btStatus' = "SUCCESS"
              /\ UNCHANGED <<call, arm>>
         ELSE BeginMove(waypoints[current_waypoint + 1]) \/ PlanFails
    /\ UNCHANGED <<waypoints, current_waypoint, sceneVars, jointVars>>

ExecutingWaypoint ==
    /\ Ticking("EXECUTING_WAYPOINT")
    /\ current_state' = "WAITING_COMPLETION"
    /\ UNCHANGED <<btStatus, waypoints, current_waypoint, sceneVars,
                   jointVars, call, arm>>

WaitingCompletion ==
    /\ Ticking("WAITING_COMPLETION")
    /\ current_waypoint' = current_waypoint + 1
    /\ IF current_waypoint' >= Len(waypoints)
         THEN /\ current_state' = "DONE"
              /\ btStatus' = "SUCCESS"
         ELSE /\ current_state' = "PLANNING_WAYPOINT"
              /\ UNCHANGED btStatus
    /\ UNCHANGED <<waypoints, sceneVars, jointVars, call, arm>>

Tick ==
    \/ IdleTick \/ HomeConfirmed \/ HomeCommanded \/ PlanApproach
    \/ ExecuteApproach \/ PrepareWaypoints \/ PlanWaypoint
    \/ ExecutingWaypoint \/ WaitingCompletion
-----------------------------------------------------------------------------
(* The rest of a blocking tick. *)

ExecuteSucceeds ==
    /\ call.stage = "moving"
    /\ call' = [stage |-> "polling", target |-> call.target]
    /\ arm' = call.target
    /\ UNCHANGED <<nodeVars, sceneVars, jointVars>>

ExecuteFails ==
    /\ call.stage = "moving"
    /\ Abort
    /\ UNCHANGED <<waypoints, current_waypoint, sceneVars, jointVars, arm>>

(* The plan of a pose has no points, or fewer than six joints: found out   *)
(* after it has been executed.  The home move does not look.               *)
PlanUnusable ==
    /\ call.stage = "moving"
    /\ current_state # "APPROACH_HOME"
    /\ Abort
    /\ arm' = call.target
    /\ UNCHANGED <<waypoints, current_waypoint, sceneVars, jointVars>>

AfterMove ==
    [APPROACH_HOME |-> "PLAN_APPROACH", PLAN_APPROACH |-> "EXECUTE_APPROACH",
     PLANNING_WAYPOINT |-> "EXECUTING_WAYPOINT"]

PollMatches ==
    /\ call.stage = "polling"
    /\ joints = call.target
    /\ current_state' = AfterMove[current_state]
    /\ call' = NoCall
    /\ UNCHANGED <<btStatus, waypoints, current_waypoint, sceneVars,
                   jointVars, arm>>

(* Also with a match that comes in the last sleep: it is not looked at. *)
PollTimesOut ==
    /\ call.stage = "polling"
    /\ Abort
    /\ UNCHANGED <<waypoints, current_waypoint, sceneVars, jointVars, arm>>

ExecuteReturns == ExecuteSucceeds \/ ExecuteFails \/ PlanUnusable
PollReturns == PollMatches \/ PollTimesOut
-----------------------------------------------------------------------------
(* The world around the node. *)

(* joint_state_broadcaster publishes; a full queue loses its oldest. *)
PublishJointState ==
    /\ subscribed
    /\ samples' = IF Len(samples) < QueueDepth THEN Append(samples, arm)
                  ELSE Append(Tail(samples), arm)
    /\ UNCHANGED <<nodeVars, sceneVars, joints, subscribed, spinDuringTick, call,
                   arm>>

(* The callback waits for the tick to end, unless that has its own thread. *)
JointStateCallback ==
    /\ samples # <<>>
    /\ call = NoCall \/ spinDuringTick
    /\ joints' = Head(samples)
    /\ samples' = Tail(samples)
    /\ UNCHANGED <<nodeVars, sceneVars, subscribed, spinDuringTick, call, arm>>

(* Between runs the arm belongs to others: other nodes, the pendant. *)
OtherMotion ==
    /\ btStatus # "RUNNING"
    /\ arm' \in {Home, Elsewhere}
    /\ UNCHANGED <<nodeVars, sceneVars, jointVars, call>>

Next ==
    \/ OnStart \/ OnHalted \/ Tick \/ ExecuteReturns \/ PollReturns
    \/ PublishJointState \/ JointStateCallback \/ OtherMotion

Spec == Init /\ [][Next]_vars

(* The tick timer keeps firing, execute returns (MoveIt aborts a move that *)
(* overruns) and the polling loop ends at its deadline.  Nothing else is   *)
(* assumed: not that joint states arrive, not that anybody halts the node. *)
FairSpec ==
    /\ Spec
    /\ WF_vars(Tick)
    /\ WF_vars(ExecuteReturns)
    /\ WF_vars(PollReturns)
-----------------------------------------------------------------------------
(* Properties.                                                             *)

(* The state of the node stays within its types, and the waypoint index    *)
(* never passes the end of the list it indexes.                            *)
TypeOK ==
    /\ btStatus \in BtStatuses
    /\ current_state \in TrajectoryStates
    /\ waypoints \in {<<>>, Route}
    /\ current_waypoint \in 0..Len(waypoints)
    /\ door_objects_added \in BOOLEAN
    /\ planning_scene \in BOOLEAN
    /\ call \in [stage : {"none", "moving", "polling", "looping"},
                 target : Placements \cup {Unknown}]
    /\ joints \in Placements \cup {Unknown}
    /\ subscribed \in BOOLEAN
    /\ samples \in Seq(Placements)
    /\ Len(samples) <= QueueDepth
    /\ spinDuringTick \in Threadings
    /\ arm \in Placements
    /\ panel \in {Absent, 0}
    /\ frame \in BOOLEAN

InMotion == call.stage \in {"moving", "polling"}

(* Every Cartesian motion, to the approach pose or to a waypoint, is       *)
(* planned and executed with both the panel and the frame in the planning  *)
(* scene, whatever earlier runs and interruptions left there.              *)
MotionSeesDoor ==
    InMotion /\ current_state # "APPROACH_HOME" => panel # Absent /\ frame

(* A waypoint is only taken for reached while the arm stands at it, though *)
(* the node looks at a cached joint vector and several waypoints may be    *)
(* the same pose.                                                          *)
CountedMeansThere ==
    btStatus = "RUNNING"
        /\ current_state \in {"EXECUTING_WAYPOINT", "WAITING_COMPLETION"}
    => /\ current_waypoint < Len(waypoints)
       /\ arm = waypoints[current_waypoint + 1]

(* The node implements the route walk: in order, no pose skipped or        *)
(* counted away from it, SUCCESS exactly after the last one.               *)
Task == INSTANCE DoorTask WITH status <- btStatus, reached <- current_waypoint
ImplementsTask == Task!TaskSpec

(* Every run ends, whatever MoveIt answers and even if no joint state ever *)
(* arrives.                                                                *)
Terminates == btStatus = "RUNNING" ~> btStatus # "RUNNING"

(* With one thread for ticks and callbacks the cache cannot follow a move, *)
(* so a schedule with a pose other than the approach pose is never         *)
(* completed.                                                              *)
NeverSucceeds ==
    ~spinDuringTick /\ (\E i \in DOMAIN Route : Route[i] # ApproachPose)
    => btStatus # "SUCCESS"

(* The strengthening that makes the invariants above inductive.            *)
Traversing == {"PLANNING_WAYPOINT", "EXECUTING_WAYPOINT", "WAITING_COMPLETION"}

(* Where the node can be inside a tick, and what its index means there.    *)
Control ==
    /\ call.stage = "none" => call = NoCall
    /\ call # NoCall => btStatus = "RUNNING"
    /\ btStatus = "RUNNING" => current_state \notin {"DONE", "ERROR"}
    /\ InMotion => /\ call.target \in Placements
                   /\ current_state \in DOMAIN AfterMove
    /\ call.stage = "looping" => current_state = "PREPARE_WAYPOINTS"
    /\ btStatus = "RUNNING" /\ current_state \notin Traversing
          => current_waypoint = 0
    /\ btStatus = "RUNNING" /\ current_state \in Traversing
          => waypoints = Route /\ current_waypoint < Len(Route)

(* Where the arm is while the node waits for it, or has just seen it.      *)
Position ==
    /\ InMotion /\ current_state = "PLANNING_WAYPOINT"
          => call.target = waypoints[current_waypoint + 1]
    /\ call.stage = "polling" => arm = call.target
    /\ CountedMeansThere

(* From the approach on the flag is set, and it tells the truth when the   *)
(* scene takes every object.                                               *)
SceneReady ==
    /\ btStatus = "RUNNING"
          /\ \/ current_state \in Traversing \cup {"EXECUTE_APPROACH", "PREPARE_WAYPOINTS"}
             \/ InMotion /\ current_state # "APPROACH_HOME"
       => door_objects_added
    /\ door_objects_added /\ ~SceneMayReject => panel # Absent /\ frame

IInv == TypeOK /\ Control /\ Position /\ SceneReady

(* Interrupting the node leaves no door objects in the planning scene.     *)
HaltClearsScene == [][OnHalted => panel' = Absent /\ ~frame']_vars
=============================================================================
