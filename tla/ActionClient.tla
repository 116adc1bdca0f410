---------------------------- MODULE ActionClient ----------------------------
(***************************************************************************)
(* ArmClient (arm_client.cpp): a fire-and-forget client of a               *)
(* FollowJointTrajectory action that keeps one handle, activeGoal_, to     *)
(* answer isMoving() and to cancel on stop().  GripperClient keeps its     *)
(* active_goal_ by the same rules.                                         *)
(*                                                                         *)
(* A goal's response and its result travel on two services, so the         *)
(* callbacks of different goals interleave.  The server is the             *)
(* joint_trajectory_controller, outside this repository: it runs one goal  *)
(* at a time and lets a newly accepted goal preempt the one it runs.       *)
(***************************************************************************)
EXTENDS Naturals, Sequences

CONSTANTS
    MaxGoals,   \* bound: how many goals a behavior sends
    Callers,    \* the callers considered: values of sequential
    MayCrash    \* the controller process may die and come back

ASSUME ClientAssumption ==
    MaxGoals \in Nat /\ Callers \subseteq BOOLEAN /\ MayCrash \in BOOLEAN

Goals == 1..MaxGoals
NoGoal == 0

VARIABLES
    sequential, \* the caller waits for a goal to settle before the next one
    serverUp,   \* the action server is there
    sent,       \* number of the last goal sent
    goal,       \* goal -> what the server has made of it
    responses,  \* goal responses on their way to the client, oldest first
    cancels,    \* cancel requests on their way to the server
    acked,      \* accepted goals whose response callback has run
    settled,    \* goals the client will hear no more of
    activeGoal  \* activeGoal_, or NoGoal

serverVars == <<serverUp, goal>>
callerVars == <<sequential, sent>>
vars == <<callerVars, serverVars, responses, cancels, acked, settled, activeGoal>>

GoalStates == {"unsent", "requested", "rejected", "executing", "over", "lost"}

Init ==
    /\ sequential \in Callers
    /\ serverUp = FALSE
    /\ sent = 0
    /\ goal = [g \in Goals |-> "unsent"]
    /\ responses = <<>>
    /\ cancels = {}
    /\ acked = {}
    /\ settled = {}
    /\ activeGoal = NoGoal

Executing(g) == goal[g] = "executing"
Outstanding == {g \in Goals : g <= sent /\ g \notin settled}
isMoving == activeGoal # NoGoal
-----------------------------------------------------------------------------
(* The client. *)

(* moveJoints: without a server within a second the goal is dropped, which *)
(* changes nothing; the response comes later.                              *)
MoveJoints ==
    /\ serverUp
    /\ sent < MaxGoals
    /\ sequential => Outstanding = {}
    /\ sent' = sent + 1
    /\ goal' = [goal EXCEPT ![sent + 1] = "requested"]
    /\ UNCHANGED <<sequential, serverUp, responses, cancels, acked, settled,
                   activeGoal>>

(* Mutant: the response callback does not store the handle. *)
ResponseDropsHandle ==
    /\ responses # <<>>
    /\ LET r == Head(responses) IN
         /\ acked' = IF r.accepted THEN acked \cup {r.goal} ELSE acked
         /\ settled' = IF r.accepted THEN settled ELSE settled \cup {r.goal}
    /\ responses' = Tail(responses)
    /\ UNCHANGED <<serverVars, callerVars, cancels, activeGoal>>

(* For an accepted goal rclcpp then asks for the result.  A server that has *)
(* come back meanwhile does not know the goal, and to say so is a result    *)
(* too, unless the request is lost on its way.                              *)
AskForResult(r) ==
    /\ UNCHANGED serverUp
    /\ \/ UNCHANGED goal
       \/ /\ r.accepted /\ serverUp /\ goal[r.goal] = "lost"
          /\ goal' = [goal EXCEPT ![r.goal] = "over"]

(* goal_response_callback: a rejection comes as a null handle, which is    *)
(* stored like any other.                                                  *)
GoalResponse ==
    /\ responses # <<>>
    /\ LET r == Head(responses) IN
         /\ activeGoal' = IF r.accepted THEN r.goal ELSE NoGoal
         /\ acked' = IF r.accepted THEN acked \cup {r.goal} ELSE acked
         /\ settled' = IF r.accepted THEN settled ELSE settled \cup {r.goal}
         /\ AskForResult(r)
    /\ responses' = Tail(responses)
    /\ UNCHANGED <<callerVars, cancels>>

(* Mutant: the result callback leaves the handle. *)
ResultKeepsHandle(g) ==
    /\ g \in acked \ settled
    /\ goal[g] = "over"
    /\ settled' = settled \cup {g}
    /\ UNCHANGED <<serverVars, callerVars, responses, cancels, acked,
                   activeGoal>>

(* result_callback: whatever goal it is about, the handle is dropped. *)
Result(g) ==
    /\ g \in acked \ settled
    /\ goal[g] = "over"
    /\ settled' = settled \cup {g}
    /\ activeGoal' = NoGoal
    /\ UNCHANGED <<serverVars, callerVars, responses, cancels, acked>>

(* Mutants: stop() without the test of the handle, and without the cancel. *)
StopUnchecked ==
    /\ cancels' = IF serverUp THEN cancels \cup {activeGoal} ELSE cancels
    /\ activeGoal' = NoGoal
    /\ UNCHANGED <<serverVars, callerVars, responses, acked, settled>>

StopForgetsCancel ==
    /\ activeGoal # NoGoal
    /\ activeGoal' = NoGoal
    /\ UNCHANGED <<serverVars, callerVars, responses, cancels, acked, settled>>

(* stop: a cancel request to a server that is gone goes nowhere. *)
Stop ==
    /\ activeGoal # NoGoal
    /\ cancels' = IF serverUp THEN cancels \cup {activeGoal} ELSE cancels
    /\ activeGoal' = NoGoal
    /\ UNCHANGED <<serverVars, callerVars, responses, acked, settled>>
-----------------------------------------------------------------------------
(* The server. *)

Answer(g, accepted) ==
    responses' = Append(responses, [goal |-> g, accepted |-> accepted])

NextRequest(g) ==
    /\ serverUp
    /\ goal[g] = "requested"
    /\ \A h \in Goals : goal[h] = "requested" => g <= h

Accept(g) ==
    /\ NextRequest(g)
    /\ goal' = [h \in Goals |-> IF h = g THEN "executing"
                                ELSE IF Executing(h) THEN "over" ELSE goal[h]]
    /\ Answer(g, TRUE)
    /\ UNCHANGED <<serverUp, callerVars, cancels, acked, settled, activeGoal>>

Reject(g) ==
    /\ NextRequest(g)
    /\ goal' = [goal EXCEPT ![g] = "rejected"]
    /\ Answer(g, FALSE)
    /\ UNCHANGED <<serverUp, callerVars, cancels, acked, settled, activeGoal>>

(* The trajectory ends: reached, or aborted by a tolerance. *)
Finish(g) ==
    /\ serverUp
    /\ Executing(g)
    /\ goal' = [goal EXCEPT ![g] = "over"]
    /\ UNCHANGED <<serverUp, callerVars, responses, cancels, acked, settled,
                   activeGoal>>

Cancel(g) ==
    /\ serverUp
    /\ g \in cancels
    /\ cancels' = cancels \ {g}
    /\ goal' = [goal EXCEPT ![g] = IF Executing(g) THEN "over" ELSE @]
    /\ UNCHANGED <<serverUp, callerVars, responses, acked, settled,
                   activeGoal>>

ServerStarts ==
    /\ ~serverUp
    /\ serverUp' = TRUE
    /\ UNCHANGED <<goal, callerVars, responses, cancels, acked, settled,
                   activeGoal>>

(* Goals and results the dead server had not delivered are gone. *)
ServerDies ==
    /\ MayCrash
    /\ serverUp
    /\ serverUp' = FALSE
    /\ goal' = [g \in Goals |->
                  IF \/ goal[g] \in {"requested", "executing"}
                     \/ goal[g] = "over" /\ g \notin settled
                  THEN "lost" ELSE goal[g]]
    /\ cancels' = {}
    /\ UNCHANGED <<callerVars, responses, acked, settled, activeGoal>>

ServerStep(g) == Accept(g) \/ Reject(g) \/ Finish(g) \/ Cancel(g)

Next ==
    \/ MoveJoints \/ GoalResponse \/ Stop
    \/ \E g \in Goals : Result(g)
    \/ \E g \in Goals : ServerStep(g)
    \/ ServerStarts \/ ServerDies

Spec == Init /\ [][Next]_vars

(* The executor delivers what has arrived, a live server answers requests  *)
(* and trajectories have an end; nobody is obliged to call the client.     *)
FairSpec ==
    /\ Spec
    /\ WF_vars(GoalResponse)
    /\ \A g \in Goals : WF_vars(Result(g)) /\ WF_vars(ServerStep(g))
-----------------------------------------------------------------------------
(* Properties.                                                             *)

TypeOK ==
    /\ sequential \in Callers
    /\ serverUp \in BOOLEAN
    /\ sent \in 0..MaxGoals
    /\ goal \in [Goals -> GoalStates]
    /\ responses \in Seq([goal : Goals, accepted : BOOLEAN])
    /\ cancels \subseteq Goals
    /\ acked \subseteq Goals
    /\ settled \subseteq Goals
    /\ activeGoal \in Goals \cup {NoGoal}

(* The handle kept is always one rclcpp still knows: its goal was accepted *)
(* and its result has not been delivered, so that stop() never cancels an  *)
(* unknown handle and isMoving() never outlives the last result.           *)
HandleIsLive == activeGoal # NoGoal => activeGoal \in acked \ settled

(* While a goal whose acceptance the client has seen is being executed and *)
(* no cancel request for it is on its way, isMoving() is true              *)
(* (arm_client.hpp: "True while a goal is being executed.").               *)
MovingWhileExecuting ==
    \A g \in acked \ settled : Executing(g) /\ g \notin cancels => isMoving

(* stop() with a handle asks for the end of every goal the client knows to *)
(* be running: in no order of responses, results and preemptions does the  *)
(* handle belong to a superseded goal (arm_client.hpp: "Cancel the active  *)
(* goal.").  What preemption breaks is that the handle may be missing.     *)
StopReachesGoal ==
    [][Stop => \A g \in acked \ settled : Executing(g) => g \in cancels']_vars

(* What the two invariants rest on: goals go unanswered until the server   *)
(* takes them, in order, and are answered once, in that order.             *)
AnswersInOrder ==
    /\ \A g \in Goals : g > sent <=> goal[g] = "unsent"
    /\ \A g \in Goals : goal[g] \in {"unsent", "requested"} =>
         /\ \A h \in acked \cup settled : h < g
         /\ \A i \in DOMAIN responses : responses[i].goal < g
    /\ \A i \in DOMAIN responses : \A h \in acked \cup settled :
         h < responses[i].goal
    /\ \A i, j \in DOMAIN responses : i < j =>
         responses[i].goal < responses[j].goal

(* The goal being executed is the last one accepted, and the handle kept   *)
(* is that of the last acceptance the client has seen.                     *)
LastAccepted ==
    /\ \A g \in Goals : Executing(g) =>
         /\ serverUp
         /\ \A h \in acked : h <= g
         /\ \A i \in DOMAIN responses :
              responses[i].accepted => responses[i].goal <= g
    /\ activeGoal # NoGoal => \A h \in acked : h <= activeGoal

(* A caller that waits for each goal to settle can rely on isMoving(), also *)
(* when the server dies and comes back.                                    *)
MovingWhenSequential == sequential => MovingWhileExecuting

(* With callers that wait, all goals but the last are settled. *)
OneOutstanding == sequential => \A g \in Goals : g < sent => g \in settled

IInv == TypeOK /\ HandleIsLive /\ AnswersInOrder /\ LastAccepted

(* Once the last goal has been sent, the client some day stops reporting   *)
(* motion, unless the handle is that of a goal which died with its server: *)
(* no order of responses, results and cancels leaves any other handle.     *)
MotionEnds ==
    (sent = MaxGoals)
    ~> (~isMoving \/ (activeGoal # NoGoal /\ goal[activeGoal] = "lost"))
=============================================================================
