------------------------- MODULE OrchestratorProofs -------------------------
(* Theorems about Orchestrator, for any rates, files and number of images. *)
EXTENDS Orchestrator, TLAPS

(* The tree: which of its steps are detections, and what the others aim at. *)
LEMMA TreeShape ==
    /\ Len(Tree) = 14
    /\ Tree[2][1] = "detect" /\ Tree[9][1] = "detect"
    /\ \A i \in 1..14 \ {2, 9} : Tree[i][1] # "detect"
    /\ \A i \in 1..14 : Tree[i][1] = "move" => Tree[i][2] \in Targets
    /\ \A i \in 1..14 : Tree[i][1] = "grip" => Tree[i][2] \in {"open", "close"}
  BY DEF Tree, Targets

LEMMA TreeDetections ==
    ASSUME NEW i \in 1..14, Tree[i][1] = "detect"
    PROVE  i = 2 \/ i = 9
  BY TreeShape
-----------------------------------------------------------------------------
LEMMA InitInv == Init => IInv
<1> SUFFICES ASSUME Init PROVE IInv
  OBVIOUS
<1> USE OrchestratorAssumption DEF Init
<1>1. TypeOK
  BY TreeShape DEF TypeOK, Build, Timer, Idle, NoTimer, Targets
<1>2. ConfigAgrees
  BY DEF ConfigAgrees
<1>3. MailboxDrained /\ RescanNeverReturns
  BY DEF MailboxDrained, RescanNeverReturns, Idle, ScanStep
<1>4. FramesOrdered
  BY DEF FramesOrdered
<1> QED
  BY <1>1, <1>2, <1>3, <1>4 DEF IInv
-----------------------------------------------------------------------------
(* A step of the tree stays within it, and before the second detection.    *)
LEMMA StepInTree ==
    ASSUME IInv, pc # Idle
    PROVE  pc \in 1..(ScanStep + 1)
  BY TreeShape DEF IInv, TypeOK, RescanNeverReturns, Idle, ScanStep

(* While there is a frame in the mailbox, a tick that detects is at its    *)
(* first detection.                                                        *)
LEMMA FirstDetection ==
    ASSUME IInv, At("detect"), latest_frame # NoFrame
    PROVE  pc = 2
<1>1. pc # Idle /\ Tree[pc][1] = "detect"
  BY DEF At
<1>2. pc \in 1..14
  BY <1>1, StepInTree DEF ScanStep
<1>3. pc = 2 \/ pc = 9
  BY <1>1, <1>2, TreeDetections
<1> QED
  BY <1>3 DEF IInv, MailboxDrained

LEMMA ConfigStep ==
    ASSUME IInv,
           \/ \E r \in Rates : SetRate(r)
           \/ \E p \in Paths : SetPath(p)
           \/ \E r \in Rates, p \in Paths : SetBoth(r, p)
    PROVE  IInv'
<1> USE OrchestratorAssumption DEF IInv
<1>1. UNCHANGED <<pc, status, cameraVars, robotVars>>
  BY DEF SetRate, SetPath, SetBoth
<1>2. TypeOK' /\ ConfigAgrees'
  <2>1. CASE \E r \in Rates : SetRate(r)
    BY <2>1 DEF SetRate, TypeOK, ConfigAgrees, Build, Timer, cameraVars, robotVars
  <2>2. CASE \E p \in Paths : SetPath(p)
    BY <2>2 DEF SetPath, TypeOK, ConfigAgrees, Build, Timer, cameraVars, robotVars
  <2>3. CASE \E r \in Rates, p \in Paths : SetBoth(r, p)
    BY <2>3 DEF SetBoth, TypeOK, ConfigAgrees, Build, Timer, cameraVars, robotVars
  <2> QED
    BY <2>1, <2>2, <2>3
<1>3. MailboxDrained' /\ RescanNeverReturns' /\ FramesOrdered'
  BY <1>1 DEF MailboxDrained, RescanNeverReturns, FramesOrdered, cameraVars
<1> QED
  BY <1>2, <1>3

LEMMA TickStep ==
    ASSUME IInv, TickWithoutTree \/ TickBegins
    PROVE  IInv'
<1> USE DEF IInv
<1>1. UNCHANGED <<configVars, cameraVars, robotVars>>
  BY DEF TickWithoutTree, TickBegins
<1>2. pc' \in {pc, 1} /\ (pc' = pc \/ pc = Idle)
  BY DEF TickWithoutTree, TickBegins
<1>3. status' \in {"BT_XML_NOT_LOADED", status}
  BY DEF TickWithoutTree, TickBegins
<1>4. TypeOK'
  BY <1>1, <1>2, <1>3, TreeShape DEF TypeOK, configVars, cameraVars, robotVars
<1>5. ConfigAgrees' /\ FramesOrdered'
  BY <1>1 DEF ConfigAgrees, FramesOrdered, configVars, cameraVars, Build, Timer
<1>6. MailboxDrained' /\ RescanNeverReturns'
  BY <1>1, <1>2 DEF MailboxDrained, RescanNeverReturns, cameraVars, ScanStep
<1> QED
  BY <1>4, <1>5, <1>6

(* A move or a gripper command: the step after it is within the tree.      *)
LEMMA CommandStep ==
    ASSUME IInv, MoveArm \/ Grip
    PROVE  IInv'
<1> USE DEF IInv
<1>1. pc \in 1..8 \ {2}
  <2>1. pc # Idle /\ Tree[pc][1] # "detect"
    BY DEF MoveArm, Grip, At
  <2> QED
    BY <2>1, StepInTree, TreeShape DEF ScanStep
<1>2. /\ UNCHANGED <<configVars, cameraVars>>
      /\ \/ pc' = pc + 1 /\ status' = status
         \/ pc = 7 /\ pc' = Idle /\ status' = "SUCCESS"
  BY <1>1 DEF MoveArm, Grip, Succeed, LastOfBranch
<1>3. arm' \in [goal : Targets, moving : BOOLEAN] /\ gripper' \in {"open", "close"}
  <2>1. CASE MoveArm
    <3>1. Tree[pc][2] \in Targets
      BY <1>1, <2>1, TreeShape DEF MoveArm, At
    <3>2. [goal |-> Tree[pc][2], moving |-> TRUE] \in [goal : Targets, moving : BOOLEAN]
      BY <3>1
    <3>3. arm' \in {arm, [goal |-> Tree[pc][2], moving |-> TRUE]} /\ gripper' = gripper
      BY <2>1 DEF MoveArm
    <3> QED
      BY <3>2, <3>3 DEF TypeOK
  <2>2. CASE Grip
    <3>1. Tree[pc][2] \in {"open", "close"}
      BY <1>1, <2>2, TreeShape DEF Grip, At
    <3> QED
      BY <2>2, <3>1 DEF Grip, TypeOK
  <2> QED
    BY <2>1, <2>2
<1>4. TypeOK'
  BY <1>1, <1>2, <1>3, TreeShape DEF TypeOK, configVars, cameraVars, Idle
<1>5. ConfigAgrees' /\ FramesOrdered'
  BY <1>2 DEF ConfigAgrees, FramesOrdered, configVars, cameraVars, Build, Timer
<1>6. MailboxDrained' /\ RescanNeverReturns'
  <2>1. pc' > 2 => pc > 2
    BY <1>1, <1>2 DEF Idle
  <2> QED
    BY <1>1, <1>2, <2>1 DEF MailboxDrained, RescanNeverReturns, cameraVars, ScanStep, Idle
<1> QED
  BY <1>4, <1>5, <1>6

(* A detection that returns is the first of its tick; it empties the       *)
(* mailbox and goes on to the approach or to the scan.                     *)
LEMMA DetectStep ==
    ASSUME IInv, Detect
    PROVE  IInv' /\ seen' > seen
<1> USE OrchestratorAssumption DEF IInv
<1>1. pc = 2
  BY FirstDetection DEF Detect, TakeFrame
<1>2. pc' \in {3, ScanStep} /\ status' = status
  BY <1>1 DEF Detect, Succeed, Miss, LastOfBranch, ScanStep
<1>3. /\ UNCHANGED <<configVars, image, published, robotVars>>
      /\ latest_frame' = NoFrame /\ seen' = latest_frame.number
      /\ latest_frame # NoFrame
  BY DEF Detect, TakeFrame
<1>4. seen' \in 0..MaxFrames
  BY <1>3 DEF TypeOK, Frames
<1>5. TypeOK'
  BY <1>2, <1>3, <1>4, TreeShape DEF TypeOK, configVars, robotVars, ScanStep
<1>6. ConfigAgrees' /\ MailboxDrained' /\ RescanNeverReturns'
  BY <1>2, <1>3
     DEF ConfigAgrees, MailboxDrained, RescanNeverReturns, configVars, Build, Timer, ScanStep
<1>7. FramesOrdered' /\ seen' > seen
  BY <1>3, <1>4 DEF FramesOrdered, TypeOK, Frames
<1> QED
  BY <1>5, <1>6, <1>7

LEMMA PublishStep ==
    ASSUME IInv, NEW object \in BOOLEAN, PublishImage(object)
    PROVE  IInv'
<1> USE OrchestratorAssumption DEF IInv
<1>1. /\ UNCHANGED <<configVars, pc, status, latest_frame, seen, robotVars>>
      /\ published' = published + 1 /\ published' \in 1..MaxFrames
      /\ image' = [number |-> published', object |-> object]
  BY DEF PublishImage, TypeOK
<1>2. image' \in Frames /\ image'.number = published + 1
  BY <1>1 DEF Frames
<1>3. TypeOK'
  BY <1>1, <1>2 DEF TypeOK, configVars, robotVars
<1>4. ConfigAgrees' /\ MailboxDrained' /\ RescanNeverReturns'
  BY <1>1 DEF ConfigAgrees, MailboxDrained, RescanNeverReturns, configVars, Build, Timer
<1>5. FramesOrdered'
  BY <1>1, <1>2 DEF FramesOrdered, TypeOK, Frames
<1> QED
  BY <1>3, <1>4, <1>5

LEMMA CallbackStep ==
    ASSUME IInv, ImageCallback
    PROVE  IInv'
<1> USE OrchestratorAssumption DEF IInv
<1>1. /\ UNCHANGED <<configVars, pc, status, published, seen, robotVars>>
      /\ pc = Idle /\ image # NoFrame /\ image' = NoFrame
      /\ latest_frame' = image \/ latest_frame' = latest_frame
  BY DEF ImageCallback
<1>2. TypeOK'
  BY <1>1 DEF TypeOK, configVars, robotVars
<1>3. ConfigAgrees' /\ MailboxDrained' /\ RescanNeverReturns'
  BY <1>1 DEF ConfigAgrees, MailboxDrained, RescanNeverReturns, configVars, Build, Timer, Idle
<1>4. FramesOrdered'
  BY <1>1 DEF FramesOrdered, TypeOK, Frames
<1> QED
  BY <1>2, <1>3, <1>4

LEMMA ArmStopsStep ==
    ASSUME IInv, ArmStops
    PROVE  IInv'
<1> USE DEF IInv
<1>1. /\ UNCHANGED <<configVars, pc, status, cameraVars, gripper>>
      /\ arm' = [goal |-> arm.goal, moving |-> FALSE]
  BY DEF ArmStops
<1>2. TypeOK'
  BY <1>1 DEF TypeOK, configVars, cameraVars
<1>3. ConfigAgrees' /\ MailboxDrained' /\ RescanNeverReturns' /\ FramesOrdered'
  BY <1>1 DEF ConfigAgrees, MailboxDrained, RescanNeverReturns, FramesOrdered,
              configVars, cameraVars, Build, Timer
<1> QED
  BY <1>2, <1>3

LEMMA StutterStep ==
    ASSUME IInv, UNCHANGED vars
    PROVE  IInv'
  BY DEF IInv, vars, configVars, cameraVars, robotVars, TypeOK, ConfigAgrees,
      MailboxDrained, RescanNeverReturns, FramesOrdered

LEMMA StepInv == IInv /\ [Next]_vars => IInv'
<1> SUFFICES ASSUME IInv, [Next]_vars PROVE IInv'
  OBVIOUS
<1> QED
  BY ConfigStep, TickStep, CommandStep, DetectStep, PublishStep, CallbackStep,
     ArmStopsStep, StutterStep DEF Next

LEMMA InvariantHolds == Spec => []IInv
  BY InitInv, StepInv, PTL DEF Spec
-----------------------------------------------------------------------------
(* The types of the orchestrator's state (orchestrator.cpp:46-172).        *)
THEOREM TypeCorrect == Spec => []TypeOK
  BY InvariantHolds, PTL DEF IInv

(* Whatever is asked for at launch or later, the parameters, the members,  *)
(* the tree and the timer agree (orchestrator.cpp:122-172).                *)
THEOREM ConfigAlwaysAgrees == Spec => []ConfigAgrees
  BY InvariantHolds, PTL DEF IInv

(* The detection after the scan move waits for ever: next() blocks the     *)
(* thread that would fill the mailbox (topic_camera_adapter.cpp:42).       *)
THEOREM NoDetectionAfterScan == Spec => []RescanNeverReturns
  BY InvariantHolds, PTL DEF IInv

(* Each detection gets a frame newer than the one before: the mailbox is   *)
(* emptied by next() and filled in the order of the topic                  *)
(* (topic_camera_adapter.cpp:13-46).                                       *)
THEOREM DetectionsAdvance == Spec => FramesAdvance
<1> DEFINE Advance == [At("detect") /\ pc' # pc => seen' > seen]_vars
<1>1. IInv /\ [Next]_vars => Advance
  <2> SUFFICES ASSUME IInv, Next, At("detect"), pc' # pc PROVE seen' > seen
    BY DEF vars
  <2>1. Detect
    BY DEF Next, SetRate, SetPath, SetBoth, TickWithoutTree, TickBegins, MoveArm, Grip,
        At, PublishImage, ImageCallback, ArmStops
  <2> QED
    BY <2>1, DetectStep
<1> QED
  BY <1>1, InvariantHolds, PTL DEF Spec, FramesAdvance
=============================================================================
