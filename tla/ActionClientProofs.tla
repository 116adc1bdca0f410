------------------------- MODULE ActionClientProofs -------------------------
(* Proofs about ActionClient: the handle kept is live and is that of the   *)
(* running goal, for any number of goals, with or without server crashes;  *)
(* and isMoving() tells the truth to callers that wait.                    *)
EXTENDS ActionClient, TLAPS

Responses == [goal : Goals, accepted : BOOLEAN]

(* What is left of a queue without its head. *)
LEMMA QueueTail ==
    ASSUME NEW S, NEW q \in Seq(S), q # <<>>
    PROVE  /\ Head(q) \in S /\ Tail(q) \in Seq(S)
           /\ 1 \in DOMAIN q /\ Head(q) = q[1]
           /\ \A i \in DOMAIN Tail(q) :
                i \in Nat /\ 1 < i + 1 /\ i + 1 \in DOMAIN q /\ Tail(q)[i] = q[i + 1]
<1>1. Len(q) \in Nat /\ Len(q) # 0 /\ DOMAIN q = 1..Len(q)
    OBVIOUS
<1>2. Tail(q) \in Seq(S) /\ Len(Tail(q)) = Len(q) - 1
    OBVIOUS
<1>3. DOMAIN Tail(q) = 1..(Len(q) - 1)
    BY <1>2
<1>4. \A i \in 1..(Len(q) - 1) : Tail(q)[i] = q[i + 1]
    BY <1>1
<1> QED
    BY <1>1, <1>2, <1>3, <1>4

(* What a queue holds after an append. *)
LEMMA QueueAppend ==
    ASSUME NEW S, NEW q \in Seq(S), NEW x \in S
    PROVE  /\ Append(q, x) \in Seq(S)
           /\ \A i \in DOMAIN Append(q, x) :
                \/ i \in DOMAIN q /\ i < Len(q) + 1 /\ Append(q, x)[i] = q[i]
                \/ i = Len(q) + 1 /\ Append(q, x)[i] = x
           /\ \A i \in DOMAIN Append(q, x) : i \in Nat
           /\ Len(q) \in Nat /\ DOMAIN q = 1..Len(q)
<1>1. Append(q, x) \in Seq(S) /\ Len(Append(q, x)) = Len(q) + 1
    OBVIOUS
<1>2. Len(q) \in Nat /\ DOMAIN q = 1..Len(q) /\ DOMAIN Append(q, x) = 1..(Len(q) + 1)
    BY <1>1
<1>3. \A i \in 1..Len(q) : Append(q, x)[i] = q[i]
    BY <1>2
<1>4. Append(q, x)[Len(q) + 1] = x
    BY <1>2
<1> QED
    BY <1>1, <1>2, <1>3, <1>4

LEMMA NoResponses == <<>> \in Seq(Responses) /\ DOMAIN <<>> = {}
    OBVIOUS

(* The initial state satisfies the inductive invariant. *)
LEMMA InitIInv == Init => IInv
<1> SUFFICES ASSUME Init PROVE IInv
    OBVIOUS
<1>1. responses \in Seq(Responses)
    BY NoResponses DEF Init
<1>2. TypeOK
  <2>1. sent \in 0..MaxGoals
    BY ClientAssumption DEF Init
  <2>2. goal \in [Goals -> GoalStates]
    BY DEF Init, GoalStates
  <2>3. serverUp \in BOOLEAN /\ cancels \subseteq Goals /\ acked \subseteq Goals
        /\ settled \subseteq Goals /\ activeGoal \in Goals \cup {NoGoal}
        /\ sequential \in Callers
    BY DEF Init
  <2> QED
    BY <1>1, <2>1, <2>2, <2>3 DEF TypeOK, Responses
<1>3. HandleIsLive /\ AnswersInOrder /\ LastAccepted
    BY NoResponses DEF Init, HandleIsLive, AnswersInOrder, LastAccepted, Executing, Goals
<1> QED
    BY <1>2, <1>3 DEF IInv

LEMMA GoalNumbers == Goals \subseteq Nat /\ NoGoal \notin Goals /\ 0 \notin Goals
                     /\ MaxGoals \in Nat
    BY ClientAssumption DEF Goals, NoGoal

LEMMA MoveJointsKeeps == IInv /\ MoveJoints => IInv'
<1> SUFFICES ASSUME IInv, MoveJoints PROVE IInv'
    OBVIOUS
<1> USE GoalNumbers DEF IInv, callerVars
<1>0. sent + 1 \in Goals /\ sent \in Nat /\ sent' = sent + 1
    BY DEF TypeOK, MoveJoints, Goals
<1>1. TypeOK'
    BY <1>0 DEF TypeOK, MoveJoints, Goals, GoalStates
<1>2. HandleIsLive'
    BY DEF HandleIsLive, MoveJoints
<1>3. \A g \in Goals : goal'[g] = IF g = sent + 1 THEN "requested" ELSE goal[g]
    BY <1>0 DEF TypeOK, MoveJoints
<1>4. goal[sent + 1] = "unsent"
    BY <1>0 DEF AnswersInOrder
<1>5. AnswersInOrder'
    BY <1>0, <1>3, <1>4 DEF AnswersInOrder, MoveJoints, Goals
<1>6. LastAccepted'
  <2>1. UNCHANGED <<serverUp, responses, acked, activeGoal>>
    BY DEF MoveJoints
  <2>2. \A g \in Goals : Executing(g)' => Executing(g)
    BY <1>3, <1>4 DEF Executing
  <2> QED
    BY <2>1, <2>2 DEF LastAccepted
<1> QED
    BY <1>1, <1>2, <1>5, <1>6

(* Asking for a result at most tells that a lost goal is over. *)
LEMMA AskingTellsOfLost ==
    ASSUME TypeOK, NEW r \in Responses, AskForResult(r)
    PROVE  /\ goal' \in [Goals -> GoalStates]
           /\ \A g \in Goals :
                /\ goal'[g] = goal[g] \/ (goal[g] = "lost" /\ goal'[g] = "over")
<1>1. goal \in [Goals -> GoalStates] /\ r.goal \in Goals
    BY DEF TypeOK, Responses
<1>2. CASE UNCHANGED goal
    BY <1>1, <1>2
<1>3. CASE goal' = [goal EXCEPT ![r.goal] = "over"] /\ goal[r.goal] = "lost"
    BY <1>1, <1>3 DEF GoalStates
<1> QED
    BY <1>2, <1>3 DEF AskForResult

LEMMA GoalResponseKeeps == IInv /\ GoalResponse => IInv'
<1> SUFFICES ASSUME IInv, GoalResponse PROVE IInv'
    OBVIOUS
<1> USE GoalNumbers DEF IInv, callerVars
<1> DEFINE r == Head(responses)
<1>0. responses \in Seq(Responses) /\ responses # <<>>
    BY DEF TypeOK, Responses, GoalResponse
<1>1. /\ r \in Responses /\ Tail(responses) \in Seq(Responses)
      /\ 1 \in DOMAIN responses /\ r = responses[1]
      /\ \A i \in DOMAIN Tail(responses) :
           /\ i \in Nat /\ 1 < i + 1 /\ i + 1 \in DOMAIN responses
           /\ Tail(responses)[i] = responses[i + 1]
    BY <1>0, QueueTail
<1>2. r.goal \in Goals /\ r.goal \in Nat /\ r.accepted \in BOOLEAN
    BY <1>1 DEF Responses
<1>3. /\ acked' \subseteq acked \cup {r.goal}
      /\ acked' \cup settled' = acked \cup settled \cup {r.goal}
      /\ responses' = Tail(responses)
      /\ serverUp' = serverUp /\ sent' = sent /\ cancels' = cancels
      /\ sequential' = sequential
    BY DEF GoalResponse, AskForResult, callerVars
<1>10. /\ goal' \in [Goals -> GoalStates]
       /\ \A g \in Goals :
            goal'[g] = goal[g] \/ (goal[g] = "lost" /\ goal'[g] = "over")
    BY <1>1, AskingTellsOfLost DEF GoalResponse
<1>11. \A g \in Goals : /\ Executing(g)' <=> Executing(g)
                        /\ goal'[g] = "unsent" <=> goal[g] = "unsent"
                        /\ goal'[g] = "requested" <=> goal[g] = "requested"
    BY <1>10 DEF Executing
<1>4. \A h \in acked \cup settled : h < r.goal
    BY <1>1 DEF AnswersInOrder
<1>5. \A i \in DOMAIN responses' : r.goal < responses'[i].goal
    BY <1>1, <1>3 DEF AnswersInOrder
<1>6. TypeOK'
    BY <1>1, <1>2, <1>3, <1>10 DEF TypeOK, GoalResponse, Responses
<1>7. HandleIsLive'
  <2>1. CASE r.accepted
    <3>1. activeGoal' = r.goal /\ acked' = acked \cup {r.goal} /\ settled' = settled
        BY <2>1 DEF GoalResponse
    <3>2. r.goal \notin settled
      <4> HIDE DEF r
      <4> QED
        BY <1>2, <1>4
    <3> QED
        BY <3>1, <3>2 DEF HandleIsLive
  <2>2. CASE ~r.accepted
    BY <2>2 DEF HandleIsLive, GoalResponse
  <2> QED
    BY <2>1, <2>2
<1>8. AnswersInOrder'
  <2>1. \A g \in Goals : g > sent <=> goal[g] = "unsent"
    BY DEF AnswersInOrder
  <2>2. \A g \in Goals : goal[g] \in {"unsent", "requested"} =>
          /\ \A h \in acked' \cup settled' : h < g
          /\ \A i \in DOMAIN responses' : responses'[i].goal < g
    BY <1>1, <1>3 DEF AnswersInOrder
  <2>3. \A i \in DOMAIN responses' : \A h \in acked' \cup settled' :
          h < responses'[i].goal
    BY <1>1, <1>3, <1>5 DEF AnswersInOrder
  <2>4. \A i, j \in DOMAIN responses' : i < j =>
          responses'[i].goal < responses'[j].goal
    BY <1>1, <1>3 DEF AnswersInOrder
  <2> QED
    BY <1>3, <1>11, <2>1, <2>2, <2>3, <2>4 DEF AnswersInOrder
<1>9. LastAccepted'
  <2>1. ASSUME NEW g \in Goals, Executing(g)
        PROVE  /\ serverUp
               /\ \A h \in acked' : h <= g
               /\ \A i \in DOMAIN responses' :
                    responses'[i].accepted => responses'[i].goal <= g
    <3>1. r.accepted => r.goal <= g
        BY <1>1, <2>1 DEF LastAccepted
    <3>2. r.accepted \/ acked' = acked
        BY DEF GoalResponse
    <3> QED
        BY <1>1, <1>3, <2>1, <3>1, <3>2 DEF LastAccepted
  <2>2. activeGoal' # NoGoal => \A h \in acked' : h <= activeGoal'
    <3> SUFFICES ASSUME activeGoal' # NoGoal PROVE \A h \in acked' : h <= activeGoal'
        OBVIOUS
    <3>1. activeGoal' = r.goal
        BY DEF GoalResponse
    <3>2. acked \subseteq Goals
        BY DEF TypeOK
    <3>3. \A h \in acked : h \in Nat /\ h < r.goal
        BY <1>4, <3>2
    <3> HIDE DEF r
    <3> QED
        BY <1>2, <1>3, <3>1, <3>3
  <2> QED
    BY <1>3, <1>11, <2>1, <2>2 DEF LastAccepted
<1> QED
    BY <1>6, <1>7, <1>8, <1>9

(* Answering a request appends a goal that is later than every answer.     *)
LEMMA AnswerInOrder ==
    ASSUME IInv, NEW g \in Goals, goal[g] = "requested", NEW a \in BOOLEAN,
           Answer(g, a)
    PROVE  /\ responses' \in Seq(Responses)
           /\ \A i \in DOMAIN responses' :
                \/ i \in DOMAIN responses /\ responses'[i] = responses[i]
                \/ responses'[i] = [goal |-> g, accepted |-> a]
           /\ \A i \in DOMAIN responses' : responses'[i].goal <= g
           /\ \A i, j \in DOMAIN responses' : i < j =>
                responses'[i].goal < responses'[j].goal
           /\ \A i \in DOMAIN responses' : \A h \in acked \cup settled :
                h < responses'[i].goal
<1> USE GoalNumbers
<1> DEFINE x == [goal |-> g, accepted |-> a]
<1>1. x \in Responses /\ x.goal = g
    BY DEF Responses
<1>2. responses \in Seq(Responses) /\ responses' = Append(responses, x)
    BY DEF IInv, TypeOK, Responses, Answer
<1>3. /\ responses' \in Seq(Responses)
      /\ \A i \in DOMAIN responses' :
           \/ i \in DOMAIN responses /\ i < Len(responses) + 1 /\ responses'[i] = responses[i]
           \/ i = Len(responses) + 1 /\ responses'[i] = x
      /\ \A i \in DOMAIN responses' : i \in Nat
      /\ Len(responses) \in Nat /\ DOMAIN responses = 1..Len(responses)
    BY <1>1, <1>2, QueueAppend
<1>4. /\ \A h \in acked \cup settled : h < g
      /\ \A i \in DOMAIN responses : responses[i].goal < g
      /\ \A i \in DOMAIN responses : \A h \in acked \cup settled : h < responses[i].goal
      /\ \A i, j \in DOMAIN responses : i < j => responses[i].goal < responses[j].goal
    BY DEF IInv, AnswersInOrder
<1>5. \A i \in DOMAIN responses : responses[i] \in Responses
    BY <1>2, <1>3
<1>6. \A i \in DOMAIN responses : responses[i].goal \in Nat
    BY <1>5 DEF Responses
<1>7. \A i \in DOMAIN responses' : responses'[i].goal <= g
    BY <1>1, <1>3, <1>4, <1>6
<1>8. \A i, j \in DOMAIN responses' : i < j =>
        responses'[i].goal < responses'[j].goal
    BY <1>1, <1>3, <1>4
<1>9. \A i \in DOMAIN responses' : \A h \in acked \cup settled :
        h < responses'[i].goal
    BY <1>1, <1>3, <1>4
<1> QED
    BY <1>3, <1>7, <1>8, <1>9

LEMMA AcceptKeeps == ASSUME IInv, NEW g \in Goals, Accept(g) PROVE IInv'
<1> USE GoalNumbers DEF IInv, callerVars
<1>0. goal[g] = "requested" /\ Answer(g, TRUE) /\ serverUp /\ serverUp' = serverUp
      /\ UNCHANGED <<callerVars, cancels, acked, settled, activeGoal>>
    BY DEF Accept, NextRequest
<1>1. /\ responses' \in Seq(Responses)
      /\ \A i \in DOMAIN responses' :
           \/ i \in DOMAIN responses /\ responses'[i] = responses[i]
           \/ responses'[i] = [goal |-> g, accepted |-> TRUE]
      /\ \A i \in DOMAIN responses' : responses'[i].goal <= g
      /\ \A i, j \in DOMAIN responses' : i < j =>
           responses'[i].goal < responses'[j].goal
      /\ \A i \in DOMAIN responses' : \A h \in acked \cup settled :
           h < responses'[i].goal
    BY <1>0, AnswerInOrder, Zenon
<1>2. \A h \in Goals : goal'[h] = IF h = g THEN "executing"
                                  ELSE IF Executing(h) THEN "over" ELSE goal[h]
    BY DEF Accept
<1>3. goal' \in [Goals -> GoalStates]
    BY DEF Accept, TypeOK, GoalStates
<1>4. TypeOK'
    BY <1>0, <1>1, <1>3 DEF TypeOK, Responses
<1>5. HandleIsLive'
    BY <1>0 DEF HandleIsLive
<1>6. \A h \in Goals : goal'[h] \in {"unsent", "requested"} =>
        goal'[h] = goal[h] /\ h # g /\ (goal[h] = "requested" => g < h)
    BY <1>2 DEF Accept, NextRequest
<1>7. \A h \in Goals : h > sent <=> goal'[h] = "unsent"
    BY <1>0, <1>2 DEF AnswersInOrder, Executing
<1>8. AnswersInOrder'
  <2>1. ASSUME NEW h \in Goals, goal'[h] \in {"unsent", "requested"}
        PROVE  /\ \A k \in acked' \cup settled' : k < h
               /\ \A i \in DOMAIN responses' : responses'[i].goal < h
    <3>1. goal[h] = goal'[h] /\ (goal[h] = "requested" => g < h)
        BY <1>6, <2>1
    <3>2. sent \in Nat /\ ~(g > sent) /\ (goal[h] = "unsent" => h > sent)
        BY <1>0 DEF AnswersInOrder, TypeOK
    <3>3. g < h
        BY <3>1, <3>2, <2>1
    <3>4. \A i \in DOMAIN responses' : responses'[i] \in Responses
        BY <1>1
    <3>5. \A i \in DOMAIN responses' : responses'[i].goal \in Nat
        BY <3>4 DEF Responses
    <3>6. \A k \in acked \cup settled : k < h
        BY <2>1, <3>1 DEF AnswersInOrder
    <3>7. \A i \in DOMAIN responses' : responses'[i].goal < h
        BY <1>1, <3>3, <3>5
    <3> QED
        BY <1>0, <3>6, <3>7
  <2> QED
    BY <1>0, <1>1, <1>7, <2>1 DEF AnswersInOrder
<1>9. LastAccepted'
  <2>1. ASSUME NEW h \in Goals, Executing(h)'
        PROVE  /\ \A k \in acked' : k <= h
               /\ \A i \in DOMAIN responses' :
                    responses'[i].accepted => responses'[i].goal <= h
    <3>1. h = g
        BY <1>2, <2>1 DEF Executing
    <3>2. \A k \in acked : k < g /\ k \in Nat
        BY <1>0 DEF AnswersInOrder, TypeOK
    <3>3. \A k \in acked : k <= g
        BY <3>2
    <3> QED
        BY <1>0, <1>1, <3>1, <3>3
  <2> QED
    BY <1>0, <2>1 DEF LastAccepted
<1> QED
    BY <1>4, <1>5, <1>8, <1>9

LEMMA RejectKeeps == ASSUME IInv, NEW g \in Goals, Reject(g) PROVE IInv'
<1> USE GoalNumbers DEF IInv, callerVars
<1>0. goal[g] = "requested" /\ Answer(g, FALSE) /\ serverUp /\ serverUp' = serverUp
      /\ UNCHANGED <<callerVars, cancels, acked, settled, activeGoal>>
    BY DEF Reject, NextRequest
<1>1. /\ responses' \in Seq(Responses)
      /\ \A i \in DOMAIN responses' :
           \/ i \in DOMAIN responses /\ responses'[i] = responses[i]
           \/ responses'[i] = [goal |-> g, accepted |-> FALSE]
      /\ \A i \in DOMAIN responses' : responses'[i].goal <= g
      /\ \A i, j \in DOMAIN responses' : i < j =>
           responses'[i].goal < responses'[j].goal
      /\ \A i \in DOMAIN responses' : \A h \in acked \cup settled :
           h < responses'[i].goal
    BY <1>0, AnswerInOrder, Zenon
<1>2. \A h \in Goals : goal'[h] = IF h = g THEN "rejected" ELSE goal[h]
    BY DEF Reject, TypeOK
<1>3. goal' \in [Goals -> GoalStates]
    BY DEF Reject, TypeOK, GoalStates
<1>4. TypeOK'
    BY <1>0, <1>1, <1>3 DEF TypeOK, Responses
<1>5. HandleIsLive'
    BY <1>0 DEF HandleIsLive
<1>6. \A h \in Goals : goal'[h] \in {"unsent", "requested"} =>
        goal'[h] = goal[h] /\ h # g /\ (goal[h] = "requested" => g < h)
    BY <1>2 DEF Reject, NextRequest
<1>7. \A h \in Goals : h > sent <=> goal'[h] = "unsent"
    BY <1>0, <1>2 DEF AnswersInOrder
<1>8. AnswersInOrder'
  <2>1. ASSUME NEW h \in Goals, goal'[h] \in {"unsent", "requested"}
        PROVE  /\ \A k \in acked' \cup settled' : k < h
               /\ \A i \in DOMAIN responses' : responses'[i].goal < h
    <3>1. goal[h] = goal'[h] /\ (goal[h] = "requested" => g < h)
        BY <1>6, <2>1
    <3>2. sent \in Nat /\ ~(g > sent) /\ (goal[h] = "unsent" => h > sent)
        BY <1>0 DEF AnswersInOrder, TypeOK
    <3>3. g < h
        BY <3>1, <3>2, <2>1
    <3>4. \A i \in DOMAIN responses' : responses'[i] \in Responses
        BY <1>1
    <3>5. \A i \in DOMAIN responses' : responses'[i].goal \in Nat
        BY <3>4 DEF Responses
    <3>6. \A k \in acked \cup settled : k < h
        BY <2>1, <3>1 DEF AnswersInOrder
    <3>7. \A i \in DOMAIN responses' : responses'[i].goal < h
        BY <1>1, <3>3, <3>5
    <3> QED
        BY <1>0, <3>6, <3>7
  <2> QED
    BY <1>0, <1>1, <1>7, <2>1 DEF AnswersInOrder
<1>9. LastAccepted'
  <2>1. ASSUME NEW h \in Goals, Executing(h)'
        PROVE  /\ \A k \in acked' : k <= h
               /\ \A i \in DOMAIN responses' :
                    responses'[i].accepted => responses'[i].goal <= h
    <3>1. Executing(h)
        BY <1>2, <2>1 DEF Executing
    <3>2. \A k \in acked : k <= h
        BY <3>1 DEF LastAccepted
    <3>3. \A i \in DOMAIN responses : responses[i].accepted => responses[i].goal <= h
        BY <3>1 DEF LastAccepted
    <3> QED
        BY <1>0, <1>1, <3>2, <3>3
  <2> QED
    BY <1>0, <2>1 DEF LastAccepted
<1> QED
    BY <1>4, <1>5, <1>8, <1>9

(* The steps that answer nothing: they end goals, deliver results, ask for *)
(* cancels or change the server, and no goal starts.                       *)
QuietStep ==
    \/ Stop \/ ServerStarts \/ ServerDies
    \/ \E g \in Goals : Result(g) \/ Finish(g) \/ Cancel(g)

LEMMA QuietKeeps == IInv /\ QuietStep => IInv'
<1> SUFFICES ASSUME IInv, QuietStep PROVE IInv'
    OBVIOUS
<1> USE GoalNumbers DEF IInv, callerVars
<1>1. sequential' = sequential /\ sent' = sent /\ responses' = responses
      /\ acked' = acked
    BY DEF QuietStep, Stop, ServerStarts, ServerDies, Result, Finish, Cancel, serverVars, callerVars
<1>2. TypeOK'
  <2>1. CASE Stop
    BY <2>1 DEF TypeOK, Stop, serverVars, callerVars
  <2>2. CASE ServerStarts
    BY <2>2 DEF TypeOK, ServerStarts
  <2>3. CASE ServerDies
    <3>1. goal' \in [Goals -> GoalStates]
        BY <2>3 DEF TypeOK, ServerDies, GoalStates
    <3> QED
        BY <2>3, <3>1 DEF TypeOK, ServerDies
  <2>4. ASSUME NEW g \in Goals, Result(g) PROVE TypeOK'
    BY <2>4 DEF TypeOK, Result, serverVars, callerVars
  <2>5. ASSUME NEW g \in Goals, Finish(g) PROVE TypeOK'
    <3>1. goal' \in [Goals -> GoalStates]
        BY <2>5 DEF TypeOK, Finish, GoalStates
    <3> QED
        BY <2>5, <3>1 DEF TypeOK, Finish
  <2>6. ASSUME NEW g \in Goals, Cancel(g) PROVE TypeOK'
    <3>1. goal' \in [Goals -> GoalStates]
        BY <2>6 DEF TypeOK, Cancel, GoalStates
    <3> QED
        BY <2>6, <3>1 DEF TypeOK, Cancel
  <2> QED
    BY <2>1, <2>2, <2>3, <2>4, <2>5, <2>6 DEF QuietStep
<1>3. /\ activeGoal' = activeGoal \/ activeGoal' = NoGoal
      /\ settled' = settled \/ activeGoal' = NoGoal
      /\ settled' \subseteq settled \cup acked
    BY DEF QuietStep, Stop, ServerStarts, ServerDies, Result, Finish, Cancel, serverVars, callerVars
<1>4. \A h \in Goals :
        /\ goal'[h] \in {"unsent", "requested"} => goal'[h] = goal[h]
        /\ goal[h] = "unsent" => goal'[h] = "unsent"
        /\ Executing(h)' => Executing(h) /\ serverUp'
    BY DEF QuietStep, Stop, ServerStarts, ServerDies, Result, Finish, Cancel,
        serverVars, TypeOK, Executing, LastAccepted
<1>5. HandleIsLive'
    BY <1>1, <1>3 DEF HandleIsLive
<1>6. AnswersInOrder'
    BY <1>1, <1>3, <1>4 DEF AnswersInOrder
<1>7. LastAccepted'
    BY <1>1, <1>3, <1>4 DEF LastAccepted
<1> QED
    BY <1>2, <1>5, <1>6, <1>7

LEMMA StepIInv == IInv /\ [Next]_vars => IInv'
<1> SUFFICES ASSUME IInv, [Next]_vars PROVE IInv'
    OBVIOUS
<1>1. CASE MoveJoints
    BY <1>1, MoveJointsKeeps
<1>2. CASE GoalResponse
    BY <1>2, GoalResponseKeeps
<1>3. CASE Stop \/ ServerStarts \/ ServerDies
    BY <1>3, QuietKeeps DEF QuietStep
<1>4. ASSUME NEW g \in Goals, Result(g) PROVE IInv'
    BY <1>4, QuietKeeps DEF QuietStep
<1>5. ASSUME NEW g \in Goals, ServerStep(g) PROVE IInv'
  <2>1. CASE Accept(g)
    BY <2>1, AcceptKeeps
  <2>2. CASE Reject(g)
    BY <2>2, RejectKeeps
  <2>3. CASE Finish(g) \/ Cancel(g)
    BY <2>3, QuietKeeps DEF QuietStep
  <2> QED
    BY <1>5, <2>1, <2>2, <2>3 DEF ServerStep
<1>6. CASE UNCHANGED vars
  <2>1. UNCHANGED <<sequential, serverUp, goal, sent, responses, cancels, acked,
                    settled, activeGoal>>
    BY <1>6 DEF vars, serverVars, callerVars
  <2> QED
    BY <2>1 DEF IInv, TypeOK, HandleIsLive, AnswersInOrder, LastAccepted, Executing
<1> QED
    BY <1>1, <1>2, <1>3, <1>4, <1>5, <1>6 DEF Next

(* The inductive invariant holds in every reachable state. *)
THEOREM Inductive == Spec => []IInv
<1> QED
    BY InitIInv, StepIInv, PTL DEF Spec

(* Every state of ArmClient and its server has the declared types. *)
THEOREM TypeCorrect == Spec => []TypeOK
<1>1. IInv => TypeOK
    BY DEF IInv
<1> QED
    BY <1>1, Inductive, PTL

(* The handle activeGoal_ always belongs to an accepted goal whose result  *)
(* has not come: async_cancel_goal never meets an unknown handle, and      *)
(* isMoving() does not outlive a delivered result, crashes included.       *)
THEOREM HandleAlwaysLive == Spec => []HandleIsLive
<1>1. IInv => HandleIsLive
    BY DEF IInv
<1> QED
    BY <1>1, Inductive, PTL

(* Whenever stop() finds a handle it cancels the one goal the client knows *)
(* to be running, however goals preempt each other.                        *)
THEOREM StopAlwaysReaches == Spec => StopReachesGoal
<1> DEFINE Reaches ==
        Stop => \A g \in acked \ settled : Executing(g) => g \in cancels'
<1>1. ASSUME IInv, Stop, NEW g \in acked \ settled, Executing(g)
      PROVE  g \in cancels'
  <2>1. g \in Goals /\ activeGoal \in Goals /\ activeGoal \in acked /\ serverUp
    BY <1>1 DEF IInv, TypeOK, HandleIsLive, LastAccepted, Stop
  <2>2. g <= activeGoal /\ activeGoal <= g
    BY <1>1, <2>1 DEF IInv, LastAccepted, Stop
  <2>3. g = activeGoal
    BY <2>1, <2>2, GoalNumbers
  <2> QED
    BY <1>1, <2>1, <2>3 DEF Stop
<1>2. IInv /\ [Next]_vars => [Reaches]_vars
    BY <1>1
<1> HIDE DEF Reaches
<1>3. Spec => [][Reaches]_vars
    BY <1>2, Inductive, PTL DEF Spec
<1> QED
    BY <1>3 DEF Reaches, StopReachesGoal

(* With callers that wait for a goal to settle before sending the next,    *)
(* all goals but the last are settled.                                     *)
LEMMA StepOneOutstanding ==
    IInv /\ OneOutstanding /\ [Next]_vars => OneOutstanding'
<1> SUFFICES ASSUME IInv, OneOutstanding, [Next]_vars PROVE OneOutstanding'
    OBVIOUS
<1>1. CASE MoveJoints
    BY <1>1, GoalNumbers DEF MoveJoints, OneOutstanding, Outstanding, IInv, TypeOK
<1>2. CASE ~MoveJoints
  <2>1. sequential' = sequential /\ sent' = sent /\ settled \subseteq settled'
    BY <1>2
    DEF Next, GoalResponse, Stop, Result, ServerStep, Accept, Reject, Finish,
        Cancel, ServerStarts, ServerDies, vars, callerVars
  <2> QED
    BY <2>1 DEF OneOutstanding
<1> QED
    BY <1>1, <1>2

SIInv == IInv /\ OneOutstanding /\ MovingWhileExecuting

LEMMA StepMoving ==
    ASSUME sequential PROVE SIInv /\ [Next]_vars => SIInv'
<1> SUFFICES ASSUME SIInv, [Next]_vars PROVE SIInv'
    OBVIOUS
<1> USE GoalNumbers
<1>1. IInv /\ IInv' /\ OneOutstanding /\ OneOutstanding' /\ MovingWhileExecuting
    BY StepIInv, StepOneOutstanding, Zenon DEF SIInv
<1>2. /\ settled \subseteq Goals /\ acked \subseteq Goals /\ acked' \subseteq Goals
      /\ sent \in Nat /\ goal \in [Goals -> GoalStates]
    BY <1>1 DEF IInv, TypeOK
<1>3. \A g \in acked : g <= sent
    BY <1>1, <1>2 DEF IInv, AnswersInOrder
<1>4. \A g \in acked \ settled : g = sent
    BY <1>1, <1>2, <1>3 DEF OneOutstanding
<1>5. SUFFICES ASSUME NEW g \in acked' \ settled', Executing(g)', g \notin cancels'
               PROVE  activeGoal' # NoGoal
    BY <1>1, Zenon DEF SIInv, MovingWhileExecuting, isMoving
<1>6. CASE GoalResponse
  <2> DEFINE r == Head(responses)
  <2>1. responses \in Seq(Responses) /\ responses # <<>>
    BY <1>1, <1>6 DEF IInv, TypeOK, Responses, GoalResponse
  <2>2. r \in Responses /\ 1 \in DOMAIN responses /\ r = responses[1]
    BY <2>1, QueueTail
  <2>3. \A h \in acked \cup settled : h < r.goal
    BY <1>1, <2>2 DEF IInv, AnswersInOrder
  <2>4. r.goal \in Goals /\ r.goal \in Nat
    BY <2>2 DEF Responses
  <2>5. r.goal <= sent
    <3>1. AnswersInOrder
        BY <1>1 DEF IInv
    <3> HIDE DEF r
    <3>2. goal[r.goal] = "unsent" => r.goal < r.goal
        BY <2>2, <2>4, <3>1 DEF AnswersInOrder
    <3>3. ~(r.goal > sent)
        BY <2>4, <3>1, <3>2 DEF AnswersInOrder
    <3> QED
        BY <1>2, <2>4, <3>3
  <2>6. CASE r.accepted
    BY <1>6, <2>4, <2>6 DEF GoalResponse
  <2>7. CASE ~r.accepted
    <3>1. acked' = acked /\ settled' = settled \cup {r.goal}
        BY <1>6, <2>7 DEF GoalResponse
    <3>2. g = sent
        BY <1>4, <1>5, <3>1
    <3> HIDE DEF r
    <3>3. g < r.goal
        BY <1>5, <2>3, <3>1
    <3> QED
        BY <1>2, <2>4, <2>5, <3>2, <3>3
  <2> QED
    BY <2>6, <2>7
<1>7. CASE \E h \in Goals : Accept(h)
  <2>1. PICK h \in Goals : Accept(h)
    BY <1>7
  <2>2. acked' = acked /\ \A k \in acked : k < h
    BY <1>1, <2>1 DEF IInv, AnswersInOrder, Accept, NextRequest
  <2>3. goal'[g] = IF g = h THEN "executing" ELSE IF Executing(g) THEN "over" ELSE goal[g]
    BY <1>2, <1>5, <2>1 DEF Accept
  <2>4. g # h
    BY <1>5, <1>2, <2>2
  <2> QED
    BY <1>5, <2>3, <2>4 DEF Executing
<1>8. CASE MoveJoints
  <2>1. acked' = acked /\ settled' = settled /\ Outstanding = {}
    BY <1>8 DEF MoveJoints
  <2> QED
    BY <1>2, <1>3, <1>5, <2>1 DEF Outstanding
<1>9. CASE ~MoveJoints /\ ~GoalResponse /\ ~(\E h \in Goals : Accept(h))
  <2>1. /\ acked' = acked /\ settled \subseteq settled'
        /\ \A h \in Goals : Executing(h)' => Executing(h)
    BY <1>2, <1>9
    DEF Next, Stop, Result, ServerStep, Reject, Finish, Cancel, ServerStarts,
        ServerDies, vars, serverVars, Executing
  <2>2. g \in acked \ settled /\ Executing(g) /\ g = sent
    BY <1>4, <1>5, <1>2, <2>1
  <2>3. CASE Stop
    <3>1. Stop /\ activeGoal \in acked \ settled /\ serverUp
        BY <1>1, <1>2, <2>2, <2>3 DEF IInv, HandleIsLive, LastAccepted, Stop
    <3>2. activeGoal = g
        BY <1>4, <2>2, <3>1
    <3> QED
        BY <1>5, <3>1, <3>2 DEF Stop
  <2>4. CASE \E h \in Goals : Result(h)
    <3>1. PICK h \in Goals : Result(h)
        BY <2>4
    <3>2. h = g
        BY <1>4, <2>2, <3>1 DEF Result
    <3> QED
        BY <1>5, <3>1, <3>2 DEF Result
  <2>5. CASE ~Stop /\ ~(\E h \in Goals : Result(h))
    <3>1. activeGoal' = activeGoal
        BY <1>9, <2>5
        DEF Next, ServerStep, Reject, Finish, Cancel, ServerStarts, ServerDies, vars
    <3>2. g \notin cancels
        BY <1>5, <1>9, <2>5, <1>2
        DEF Next, ServerStep, Reject, Finish, Cancel, ServerStarts, ServerDies,
            vars, Executing
    <3> QED
        BY <1>1, <2>2, <3>1, <3>2 DEF MovingWhileExecuting, isMoving
  <2> QED
    BY <2>3, <2>4, <2>5
<1> QED
    BY <1>6, <1>7, <1>8, <1>9

(* Callers that wait for one goal to settle before they send the next can  *)
(* rely on isMoving(): it is true while a goal the client knows is being   *)
(* executed and its cancellation is not on its way.                        *)
THEOREM MovingKnown == Spec => []MovingWhenSequential
<1> DEFINE CInv == IInv /\ (sequential => SIInv)
<1>1. Init => CInv
  <2>1. Init => OneOutstanding /\ MovingWhileExecuting
    BY GoalNumbers DEF Init, OneOutstanding, MovingWhileExecuting, Goals
  <2> QED
    BY <2>1, InitIInv DEF SIInv
<1>2. CInv /\ [Next]_vars => CInv'
  <2>1. [Next]_vars => sequential' = sequential
    BY DEF Next, MoveJoints, GoalResponse, Stop, Result, ServerStep, Accept, Reject,
        Finish, Cancel, ServerStarts, ServerDies, vars, callerVars
  <2>2. sequential /\ SIInv /\ [Next]_vars => SIInv'
    BY StepMoving
  <2> QED
    BY <2>1, <2>2, StepIInv
<1>3. CInv => MovingWhenSequential
    BY DEF SIInv, MovingWhenSequential
<1> QED
    BY <1>1, <1>2, <1>3, PTL DEF Spec
=============================================================================
