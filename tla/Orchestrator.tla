---------------------------- MODULE Orchestrator ----------------------------
(***************************************************************************)
(* TaskOrchestrator (orchestrator.cpp) ticking the tree of                 *)
(* bt_xml/pick_and_place.xml, with the actions of bt_factory.cpp and the   *)
(* one-frame mailbox of TopicCameraAdapter between the camera topic and    *)
(* DetectObjectAction.                                                     *)
(*                                                                         *)
(* All actions of the tree are synchronous, so one tick runs it from the   *)
(* root to SUCCESS or FAILURE, and main.cpp's executor runs nothing else   *)
(* meanwhile.  A tick is split into the steps of the tree, because an      *)
(* action may wait for a server or a frame while messages arrive and the   *)
(* arm moves.  An image is its number and whether detect() finds something *)
(* in it; every file that loads holds a tree of this shape, with joint     *)
(* positions that parse.                                                   *)
(***************************************************************************)
EXTENDS Integers, Sequences

CONSTANTS
    Rates,     \* values of bt_tick_rate that are asked for
    Paths,     \* values of bt_xml_path that are asked for
    Loadable,  \* those that are files with a well-formed tree
    NoTree,    \* bt_tree_ has no root
    MaxFrames  \* bound: how many images the camera publishes

ASSUME OrchestratorAssumption ==
    /\ Rates \subseteq Int
    /\ Loadable \subseteq Paths /\ NoTree \notin Paths
    /\ MaxFrames \in Nat

(* The tree: go home, then detect, pick and place, or else scan, detect,   *)
(* pick and place.                                                         *)
Tree == <<
    <<"move", "home">>,
    <<"detect", "count">>,   <<"move", "approach">>, <<"grip", "close">>,
    <<"move", "retreat">>,   <<"move", "place">>,    <<"grip", "open">>,
    <<"move", "scan">>,
    <<"detect", "count">>,   <<"move", "approach">>, <<"grip", "close">>,
    <<"move", "retreat">>,   <<"move", "place">>,    <<"grip", "open">> >>

ScanStep == 8
LastOfBranch == {7, 14}

Idle == 0
NoTimer == 0
NoFrame == [number |-> 0, object |-> FALSE]
Frames == [number : 1..MaxFrames, object : BOOLEAN]
Targets == {"home", "approach", "retreat", "place", "scan"}

VARIABLES
    rate, path,         \* bt_tick_rate_ and bt_xml_path_
    rateParam,          \* the node's parameters: what other nodes and
    pathParam,          \*   ros2 param get are told
    tree,               \* the file bt_tree_ was built from, or NoTree
    timer,              \* period of tick_timer_, as a rate, or NoTimer
    pc,                 \* the step of the tree a tick is at, or Idle
    status,             \* last_tree_status_
    latest_frame,       \* latest_frame_
    image,              \* the image waiting in the subscription
    published,          \* images published so far
    seen,               \* number of the frame the last detection got
    arm,                \* the goal the arm controller has, and if it moves
    gripper             \* the command the gripper controller has

configVars == <<rate, path, rateParam, pathParam, tree, timer>>
cameraVars == <<latest_frame, image, published, seen>>
robotVars == <<arm, gripper>>
vars == <<configVars, pc, status, cameraVars, robotVars>>

Build(p) == IF p \in Loadable THEN p ELSE NoTree
Timer(r) == IF r > 0 THEN r ELSE NoTimer

(* The constructor takes the launch values as they are: a file that does   *)
(* not load leaves no tree, a rate that is not positive no timer.          *)
Init ==
    /\ rate \in Rates /\ path \in Paths
    /\ rateParam = rate /\ pathParam = path
    /\ tree = Build(path)
    /\ timer = Timer(rate)
    /\ pc = Idle
    /\ status = "IDLE"
    /\ latest_frame = NoFrame /\ image = NoFrame
    /\ published = 0 /\ seen = 0
    /\ arm = [goal |-> "home", moving |-> FALSE]
    /\ gripper = "open"
-----------------------------------------------------------------------------
(* The parameter callback, between ticks: a request for a rate, for a      *)
(* path, or for both; one that is refused changes nothing.                 *)

(* Mutant: the rate is set before the tree is known to load. *)
SetBothRateFirst(r, p) ==
    /\ pc = Idle
    /\ r > 0
    /\ rate' = r /\ timer' = r
    /\ IF p \in Loadable
         THEN path' = p /\ tree' = p /\ rateParam' = r /\ pathParam' = p
         ELSE UNCHANGED <<path, tree, rateParam, pathParam>>
    /\ UNCHANGED <<pc, status, cameraVars, robotVars>>

(* Mutant: the rate is not tested. *)
SetRateUnchecked(r) ==
    /\ pc = Idle
    /\ rate' = r /\ rateParam' = r /\ timer' = r
    /\ UNCHANGED <<path, pathParam, tree, pc, status, cameraVars, robotVars>>

SetRate(r) ==
    /\ pc = Idle
    /\ r > 0
    /\ rate' = r /\ rateParam' = r /\ timer' = r
    /\ UNCHANGED <<path, pathParam, tree, pc, status, cameraVars, robotVars>>

SetPath(p) ==
    /\ pc = Idle
    /\ p \in Loadable
    /\ path' = p /\ pathParam' = p /\ tree' = p
    /\ UNCHANGED <<rate, rateParam, timer, pc, status, cameraVars, robotVars>>

SetBoth(r, p) ==
    /\ pc = Idle
    /\ r > 0 /\ p \in Loadable
    /\ rate' = r /\ rateParam' = r /\ timer' = r
    /\ path' = p /\ pathParam' = p /\ tree' = p
    /\ UNCHANGED <<pc, status, cameraVars, robotVars>>
-----------------------------------------------------------------------------
(* A tick. *)

TickWithoutTree ==
    /\ timer # NoTimer /\ pc = Idle
    /\ tree = NoTree
    /\ status' = "BT_XML_NOT_LOADED"
    /\ UNCHANGED <<configVars, pc, cameraVars, robotVars>>

TickBegins ==
    /\ timer # NoTimer /\ pc = Idle
    /\ tree # NoTree
    /\ pc' = 1
    /\ UNCHANGED <<configVars, status, cameraVars, robotVars>>

(* A step succeeds: on to the next one, or the branch is complete. *)
Succeed ==
    IF pc \in LastOfBranch THEN pc' = Idle /\ status' = "SUCCESS"
    ELSE pc' = pc + 1 /\ UNCHANGED status

(* A detection finds nothing: the second branch, or none is left. *)
Miss ==
    IF pc < ScanStep THEN pc' = ScanStep /\ UNCHANGED status
    ELSE pc' = Idle /\ status' = "FAILURE"

At(action) == pc # Idle /\ Tree[pc][1] = action

(* MoveArmAction: SUCCESS as soon as the goal is sent, or dropped because  *)
(* no controller takes it; a goal that is taken preempts the one before.   *)
MoveArm ==
    /\ At("move")
    /\ arm' \in {arm, [goal |-> Tree[pc][2], moving |-> TRUE]}
    /\ Succeed
    /\ UNCHANGED <<configVars, cameraVars, gripper>>

(* GripperAction does not look at the result of open() and close() either. *)
Grip ==
    /\ At("grip")
    /\ gripper' \in {gripper, Tree[pc][2]}
    /\ Succeed
    /\ UNCHANGED <<configVars, cameraVars, arm>>

(* Mutant: next() leaves the frame in the mailbox. *)
TakeFrameKeeps ==
    /\ latest_frame # NoFrame
    /\ seen' = latest_frame.number
    /\ UNCHANGED latest_frame

(* next() waits without limit for a frame and takes it out of the mailbox. *)
TakeFrame ==
    /\ latest_frame # NoFrame
    /\ seen' = latest_frame.number
    /\ latest_frame' = NoFrame

(* DetectObjectAction: SUCCESS if something is found in the next frame. *)
Detect ==
    /\ At("detect")
    /\ TakeFrame
    /\ IF latest_frame.object THEN Succeed ELSE Miss
    /\ UNCHANGED <<configVars, image, published, robotVars>>
-----------------------------------------------------------------------------
(* The camera. *)

(* The subscription holds one image, the newest. *)
PublishImage(object) ==
    /\ published < MaxFrames
    /\ published' = published + 1
    /\ image' = [number |-> published', object |-> object]
    /\ UNCHANGED <<configVars, pc, status, latest_frame, seen, robotVars>>

(* Mutant: the callback runs while a tick waits. *)
ImageCallbackAnyTime ==
    /\ image # NoFrame
    /\ latest_frame' \in {image, latest_frame}
    /\ image' = NoFrame
    /\ UNCHANGED <<configVars, pc, status, published, seen, robotVars>>

(* The image replaces the frame nobody has taken, unless cv_bridge cannot  *)
(* convert it.  Nothing is called back during a tick.                      *)
ImageCallback ==
    /\ pc = Idle
    /\ image # NoFrame
    /\ latest_frame' \in {image, latest_frame}
    /\ image' = NoFrame
    /\ UNCHANGED <<configVars, pc, status, published, seen, robotVars>>

(* The arm controller ends its trajectory. *)
ArmStops ==
    /\ arm.moving
    /\ arm' = [goal |-> arm.goal, moving |-> FALSE]
    /\ UNCHANGED <<configVars, pc, status, cameraVars, gripper>>

Next ==
    \/ \E r \in Rates : SetRate(r)
    \/ \E p \in Paths : SetPath(p)
    \/ \E r \in Rates, p \in Paths : SetBoth(r, p)
    \/ TickWithoutTree \/ TickBegins
    \/ MoveArm \/ Grip \/ Detect
    \/ \E object \in BOOLEAN : PublishImage(object)
    \/ ImageCallback \/ ArmStops

Spec == Init /\ [][Next]_vars
-----------------------------------------------------------------------------
(* Properties. *)

TypeOK ==
    /\ rate \in Rates /\ path \in Paths
    /\ rateParam \in Rates /\ pathParam \in Paths
    /\ tree \in Loadable \cup {NoTree}
    /\ timer \in {r \in Rates : r > 0} \cup {NoTimer}
    /\ pc \in 0..Len(Tree)
    /\ status \in {"IDLE", "BT_XML_NOT_LOADED", "SUCCESS", "FAILURE"}
    /\ latest_frame \in Frames \cup {NoFrame}
    /\ image \in Frames \cup {NoFrame}
    /\ published \in 0..MaxFrames
    /\ seen \in 0..MaxFrames
    /\ arm \in [goal : Targets, moving : BOOLEAN]
    /\ gripper \in {"open", "close"}

(* Whatever mix of good and bad values is asked for, at launch or later,   *)
(* in one request or several: what the parameters say is what the node     *)
(* uses, the tree is that of the path, and the timer that of the rate.     *)
ConfigAgrees ==
    /\ rate = rateParam /\ path = pathParam
    /\ tree = Build(path)
    /\ timer = Timer(rate)

(* No detection looks at a frame a second time, or at one older than the   *)
(* last it looked at: across ticks, reloads and failed conversions.        *)
FramesAdvance == [][At("detect") /\ pc' # pc => seen' > seen]_vars

(* The mailbox is filled between ticks only and emptied by the first       *)
(* detection, so the detection after the scan move never returns: a tick   *)
(* that misses once never ends, and nothing past it is ever executed.      *)
RescanNeverReturns == pc <= ScanStep + 1

(* What the invariants rest on: after the first detection of a tick the    *)
(* mailbox is empty, and frames in it and on their way are newer than any  *)
(* seen.                                                                   *)
MailboxDrained == pc > 2 => latest_frame = NoFrame

FramesOrdered ==
    /\ seen <= published
    /\ image # NoFrame =>
         /\ seen < image.number /\ image.number <= published
         /\ latest_frame # NoFrame => latest_frame.number < image.number
    /\ latest_frame # NoFrame =>
         seen < latest_frame.number /\ latest_frame.number <= published

IInv == TypeOK /\ ConfigAgrees /\ MailboxDrained /\ FramesOrdered /\ RescanNeverReturns
=============================================================================
