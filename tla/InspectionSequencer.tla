------------------------ MODULE InspectionSequencer ------------------------
(***************************************************************************)
(* InspectionSequencer (omr_lio/scripts/inspection_sequencer.py) in the    *)
(* executor of rclpy that main() spins it with.                            *)
(*                                                                         *)
(* The node's subscriptions and its action client are all in the node's    *)
(* default callback group, which is mutually exclusive: while go_callback  *)
(* runs, the executor that navigate_to() spins inside it takes nothing of  *)
(* this node.  So the answer to the goal is never taken and navigate_to()  *)
(* does not get past its first spin_until_future_complete(); the result,   *)
(* the timeouts and the task handshake behind it are never reached and are *)
(* not modelled.  Nav2 and rclpy are outside the repository.               *)
(***************************************************************************)
EXTENDS Integers, Sequences

CONSTANTS
    Triggers, \* names published on ~/go_to_waypoint
    Depth     \* depth of the queues of the subscriptions, 10 in the code

ASSUME SequencerAssumption == Depth \in Nat \ {0}

Entities == {"go", "done", "answer"}

VARIABLES
    running,   \* the process is up
    waypoints, \* self.waypoints: a waypoint for each name
    inbox,     \* what waits to be taken for each entity of the node
    calling,   \* the name go_callback is running for
    asked,     \* its goal was sent: it spins for the answer
    taskDone,  \* _task_done_received
    goals,     \* poses of the goals sent by this process
    server,    \* the action server of Nav2 is there
    answered   \* an answer of Nav2 has been taken

navVars == <<goals, server, answered>>
sequencerVars == <<running, waypoints, inbox, calling, asked, taskDone, navVars>>

NoCall == -1
Empty == [e \in Entities |-> <<>>]

SequencerInit ==
    /\ running = FALSE
    /\ waypoints = <<>>
    /\ inbox = Empty
    /\ calling = NoCall /\ asked = FALSE
    /\ taskDone = FALSE
    /\ goals = <<>>
    /\ server \in BOOLEAN
    /\ answered = FALSE

(* What a process that starts or has ended has of its own. *)
Fresh ==
    /\ inbox' = Empty
    /\ calling' = NoCall /\ asked' = FALSE
    /\ taskDone' = FALSE
    /\ goals' = <<>>
    /\ answered' = FALSE
    /\ UNCHANGED server

(* Of waypoints with one name the last one stays. *)
LoadWaypoints(yaml) ==
    LET named(n) == {i \in DOMAIN yaml : yaml[i].name = n}
        final(n) == CHOOSE i \in named(n) : \A j \in named(n) : j <= i
    IN [n \in {yaml[i].name : i \in DOMAIN yaml} |-> yaml[final(n)]]

SequencerStart(yaml) ==
    /\ ~running
    /\ running' = TRUE
    /\ waypoints' = LoadWaypoints(yaml)
    /\ Fresh

(* An interrupt ends the process wherever it spins. *)
SequencerEnd ==
    /\ running
    /\ running' = FALSE
    /\ waypoints' = <<>>
    /\ Fresh
-----------------------------------------------------------------------------
(* Mutant: a queue keeps everything. *)
ReceiveAll(e, m) == inbox' = [inbox EXCEPT ![e] = Append(@, m)]

(* Messages for the node; a full queue loses the oldest. *)
Receive(e, m) ==
    LET all == Append(inbox[e], m)
    IN inbox' = [inbox EXCEPT ![e] =
                    IF Len(all) > Depth THEN Tail(all) ELSE all]

Publish(e, m) ==
    /\ running
    /\ Receive(e, m)
    /\ UNCHANGED <<running, waypoints, calling, asked, taskDone, navVars>>

(* Nav2 accepts a goal or rejects it. *)
NavAnswers ==
    /\ running /\ asked /\ inbox["answer"] = <<>> /\ ~answered
    /\ server
    /\ \E verdict \in {"accepted", "rejected"} : Receive("answer", verdict)
    /\ UNCHANGED <<running, waypoints, calling, asked, taskDone, navVars>>

NavChanges ==
    /\ server' = ~server
    /\ UNCHANGED <<running, waypoints, inbox, calling, asked, taskDone, goals,
                   answered>>
-----------------------------------------------------------------------------
(* The executor. *)

(* Mutant: a reentrant callback group. *)
MayTakeReentrant(e) == calling = NoCall \/ asked

(* MutuallyExclusiveCallbackGroup.can_execute. *)
MayTake(e) == calling = NoCall

(* task_done_callback takes any string; go_callback returns at once for a  *)
(* name it does not know.                                                  *)
Take(e) ==
    /\ running
    /\ inbox[e] # <<>>
    /\ MayTake(e)
    /\ inbox' = [inbox EXCEPT ![e] = Tail(@)]
    /\ taskDone' = (taskDone \/ e = "done")
    /\ answered' = (answered \/ e = "answer")
    /\ calling' = IF e = "go" /\ Head(inbox[e]) \in DOMAIN waypoints
                  THEN Head(inbox[e]) ELSE calling
    /\ UNCHANGED <<running, waypoints, asked, goals, server>>

(* navigate_to(): wait_for_server() has no timeout and does not spin. *)
NavigateTo ==
    /\ running
    /\ calling # NoCall /\ ~asked
    /\ server
    /\ goals' = Append(goals, waypoints[calling].pose)
    /\ asked' = TRUE
    /\ UNCHANGED <<running, waypoints, inbox, calling, taskDone, server, answered>>

SequencerNext ==
    \/ SequencerEnd \/ NavAnswers \/ NavChanges \/ NavigateTo
    \/ \E n \in Triggers : Publish("go", n)
    \/ Publish("done", "done")
    \/ \E e \in Entities : Take(e)
-----------------------------------------------------------------------------
SequencerTypeOK ==
    /\ running \in BOOLEAN /\ asked \in BOOLEAN /\ taskDone \in BOOLEAN
    /\ server \in BOOLEAN /\ answered \in BOOLEAN
    /\ calling \in Triggers \cup {NoCall}
    /\ \A e \in Entities : Len(inbox[e]) <= Depth

(* The node sends one goal and then waits for ever: no answer of Nav2 is   *)
(* taken, no further trigger served and no task started, until the process *)
(* is ended.                                                               *)
NeverPastFirstGoal ==
    /\ ~answered
    /\ Len(goals) <= 1
    /\ asked => calling # NoCall
=============================================================================
