-------------------------- MODULE InspectionProofs --------------------------
(***************************************************************************)
(* Theorems about Inspection, for any places, tasks, names and depth: the  *)
(* types of both nodes, what was marked is in the file and among the       *)
(* waypoints, and the sequencer does not get past the first goal it sends. *)
(***************************************************************************)
EXTENDS Inspection, TLAPS

(* The rows are numbered from 0, and the last pose saved and every marked  *)
(* pose are among them.                                                    *)
Has(rows, p) == \E i \in 1..Len(rows) : rows[i].pose = p

RowsNumbered ==
    /\ csv \in Seq(Rows)
    /\ seq = Len(csv)
    /\ \A i \in 1..Len(csv) : csv[i].seq = i - 1

MarksWritten ==
    /\ lastSaved # NoPose => Has(csv, lastSaved)
    /\ \A p \in marks : Has(csv, p)

CurrentOK == current \in Poses \cup {NoPose}

RecorderInv == RowsNumbered /\ MarksWritten /\ CurrentOK

(* A goal was sent only by the call that still runs, and an answer waits   *)
(* only for that goal.                                                     *)
CallInv ==
    /\ DOMAIN inbox = Entities
    /\ ~answered
    /\ asked => calling # NoCall
    /\ inbox["answer"] # <<>> => asked
    /\ goals = <<>> \/ (asked /\ Len(goals) = 1)

-----------------------------------------------------------------------------
(* Rows. *)

LEMMA RowAppended ==
    ASSUME NEW rows \in Seq(Rows), NEW r \in Rows, r.seq = Len(rows),
           \A i \in 1..Len(rows) : rows[i].seq = i - 1
    PROVE  /\ Append(rows, r) \in Seq(Rows)
           /\ Len(Append(rows, r)) = Len(rows) + 1
           /\ \A i \in 1..Len(Append(rows, r)) : Append(rows, r)[i].seq = i - 1
<1>1. /\ Append(rows, r) \in Seq(Rows)
      /\ Len(Append(rows, r)) = Len(rows) + 1
  OBVIOUS
<1>2. ASSUME NEW i \in 1..(Len(rows) + 1)
      PROVE  Append(rows, r)[i].seq = i - 1
  <2>1. CASE i = Len(rows) + 1
    BY <2>1
  <2>2. CASE i \in 1..Len(rows)
    BY <2>2
  <2> QED
    BY <2>1, <2>2
<1> QED
  BY <1>1, <1>2

LEMMA AppendedHas ==
    ASSUME NEW rows \in Seq(Rows), NEW r \in Rows
    PROVE  /\ Has(Append(rows, r), r.pose)
           /\ \A p : Has(rows, p) => Has(Append(rows, r), p)
<1>1. Len(rows) + 1 \in 1..Len(Append(rows, r))
  OBVIOUS
<1>2. Append(rows, r)[Len(rows) + 1] = r
  OBVIOUS
<1>3. \A i \in 1..Len(rows) : i \in 1..Len(Append(rows, r)) /\ Append(rows, r)[i] = rows[i]
  OBVIOUS
<1> QED
  BY <1>1, <1>2, <1>3 DEF Has

(* Saving a pose leaves it in the file and loses none. *)
LEMMA PoseSaved ==
    ASSUME RowsNumbered, MarksWritten,
           NEW pose \in Poses, NEW task \in Tasks \cup {DefaultTask},
           SaveWaypoint(pose, task)
    PROVE  /\ RowsNumbered'
           /\ lastSaved' = pose
           /\ Has(csv', pose)
           /\ \A p : Has(csv, p) => Has(csv', p)
<1>0. pose # NoPose
  BY DEF Poses, NoPose
<1>1. CASE lastSaved = pose
  BY <1>0, <1>1 DEF SaveWaypoint, RowsNumbered, MarksWritten
<1>2. CASE lastSaved # pose
  <2> DEFINE r == [seq |-> seq, pose |-> pose, task |-> task]
  <2>1. csv' = Append(csv, r) /\ seq' = seq + 1 /\ lastSaved' = pose
    BY <1>2 DEF SaveWaypoint
  <2>2. r \in Rows /\ r.seq = Len(csv) /\ r.pose = pose
    BY DEF Rows, RowsNumbered
  <2> HIDE DEF r
  <2>3. RowsNumbered'
    BY <2>1, <2>2, RowAppended DEF RowsNumbered
  <2>4. Has(csv', pose) /\ \A p : Has(csv, p) => Has(csv', p)
    BY <2>1, <2>2, AppendedHas DEF RowsNumbered
  <2> QED
    BY <2>1, <2>3, <2>4
<1> QED
  BY <1>1, <1>2

-----------------------------------------------------------------------------
(* The recorder. *)

LEMMA NoRows ==
    ASSUME NEW rows, rows = <<>>
    PROVE  rows \in Seq(Rows) /\ Len(rows) = 0
<1> QED
  OBVIOUS

LEMMA RecorderInitially == RecorderInit => RecorderInv
<1> QED
  BY NoRows DEF RecorderInit, RecorderInv, RowsNumbered, MarksWritten, CurrentOK

LEMMA RecorderInductive ==
    ASSUME RecorderInv, RecorderNext
    PROVE  RecorderInv'
<1>1. CASE RecorderStart
  BY <1>1, NoRows
  DEF RecorderInv, RecorderStart, RowsNumbered, MarksWritten, CurrentOK
<1>2. CASE RecorderEnd
  BY <1>2
  DEF RecorderInv, RecorderEnd, RowsNumbered, MarksWritten, CurrentOK
<1>3. ASSUME NEW p \in Poses, OdomCallback(p)
      PROVE  RecorderInv'
  <2>1. CASE UNCHANGED <<lastSaved, seq, csv>>
    BY <1>3, <2>1
    DEF RecorderInv, OdomCallback, RowsNumbered, MarksWritten, CurrentOK
  <2>2. CASE SaveWaypoint(p, DefaultTask)
    <3>1. RowsNumbered' /\ lastSaved' = p /\ Has(csv', p)
      BY <2>2, PoseSaved DEF RecorderInv
    <3>2. \A q : Has(csv, q) => Has(csv', q)
      BY <2>2, PoseSaved DEF RecorderInv
    <3> QED
      BY <1>3, <3>1, <3>2 DEF RecorderInv, OdomCallback, MarksWritten, CurrentOK
  <2> QED
    BY <1>3, <2>1, <2>2 DEF OdomCallback
<1>4. ASSUME NEW t \in Tasks, TaskCallback(t)
      PROVE  RecorderInv'
  <2>1. current \in Poses /\ SaveWaypoint(current, t)
    BY <1>4 DEF TaskCallback, RecorderInv, CurrentOK
  <2>2. RowsNumbered' /\ lastSaved' = current /\ Has(csv', current)
    BY <2>1, PoseSaved DEF RecorderInv
  <2>3. \A q : Has(csv, q) => Has(csv', q)
    BY <2>1, PoseSaved DEF RecorderInv
  <2>4. marks' = marks \cup {current} /\ current' = current
    BY <1>4 DEF TaskCallback
  <2> QED
    BY <2>2, <2>3, <2>4 DEF RecorderInv, MarksWritten, CurrentOK
<1> QED
  BY <1>1, <1>2, <1>3, <1>4 DEF RecorderNext
-----------------------------------------------------------------------------
(* The call of the sequencer. *)

LEMMA FreshCall == Fresh => CallInv'
<1> QED
  BY DEF Fresh, CallInv, Empty, Entities

LEMMA OthersWait ==
    ASSUME CallInv, NEW e \in Entities, e # "answer", NEW m, Receive(e, m)
    PROVE  DOMAIN inbox' = Entities /\ inbox'["answer"] = inbox["answer"]
<1> QED
  BY DEF CallInv, Receive, Entities

LEMMA PublishedCall ==
    ASSUME CallInv, NEW e \in Entities, e # "answer", NEW m, Publish(e, m)
    PROVE  CallInv'
<1>1. DOMAIN inbox' = Entities /\ inbox'["answer"] = inbox["answer"]
  BY OthersWait DEF Publish
<1> QED
  BY <1>1 DEF Publish, CallInv, navVars

LEMMA AnsweredCall ==
    ASSUME CallInv, NavAnswers
    PROVE  CallInv'
<1>1. PICK verdict \in {"accepted", "rejected"} : Receive("answer", verdict)
  BY DEF NavAnswers
<1>2. DOMAIN inbox' = Entities
  BY <1>1 DEF Receive, CallInv
<1>3. asked /\ UNCHANGED <<calling, asked, goals, answered>>
  BY DEF NavAnswers, navVars
<1> QED
  BY <1>2, <1>3 DEF CallInv

(* The executor does not get to the answer: while one waits, the call that *)
(* waits for it has not returned.                                          *)
LEMMA TakenCall ==
    ASSUME CallInv, NEW e \in Entities, Take(e)
    PROVE  CallInv'
<1>1. calling = NoCall /\ ~asked /\ goals = <<>>
  BY DEF Take, MayTake, CallInv
<1>2. e # "answer"
  BY <1>1 DEF Take, CallInv
<1>3. DOMAIN inbox' = Entities /\ inbox'["answer"] = inbox["answer"]
  BY <1>2 DEF Take, CallInv, Entities
<1>4. ~answered' /\ ~asked' /\ goals' = <<>>
  BY <1>1, <1>2 DEF Take, CallInv
<1> QED
  BY <1>1, <1>3, <1>4 DEF CallInv

LEMMA OneGoal == ASSUME NEW p PROVE Len(Append(<<>>, p)) = 1
<1> QED
  OBVIOUS

LEMMA NavigatedCall ==
    ASSUME CallInv, NavigateTo
    PROVE  CallInv'
<1>1. goals = <<>>
  BY DEF NavigateTo, CallInv
<1>2. Len(goals') = 1
  BY <1>1, OneGoal DEF NavigateTo
<1>3. asked' /\ calling # NoCall /\ UNCHANGED <<inbox, calling, answered>>
  BY DEF NavigateTo
<1> QED
  BY <1>2, <1>3 DEF CallInv

LEMMA CallInductive ==
    ASSUME CallInv, SequencerNext
    PROVE  CallInv'
<1>1. CASE SequencerEnd
  BY <1>1, FreshCall DEF SequencerEnd
<1>2. CASE NavChanges
  BY <1>2 DEF NavChanges, CallInv
<1>3. ASSUME NEW n \in Triggers, Publish("go", n)
      PROVE  CallInv'
  BY <1>3, PublishedCall DEF Entities
<1>4. CASE Publish("done", "done")
  BY <1>4, PublishedCall DEF Entities
<1> QED
  BY <1>1, <1>2, <1>3, <1>4, AnsweredCall, NavigatedCall, TakenCall DEF SequencerNext

-----------------------------------------------------------------------------
(* The waypoints. *)

LEMMA YamlRow ==
    ASSUME NEW rows, NEW j \in DOMAIN rows
    PROVE  /\ ToYaml(rows)[j].name = rows[j].seq
           /\ ToYaml(rows)[j].pose = rows[j].pose
<1> DEFINE t == IF rows[j].task = DefaultTask THEN "" ELSE rows[j].task
<1>1. ToYaml(rows)[j] = [name |-> rows[j].seq, pose |-> rows[j].pose, task |-> t]
  BY Zenon DEF ToYaml
<1> HIDE DEF t
<1> QED
  BY <1>1

(* Every pose of the file is the pose of a waypoint. *)
LEMMA WaypointsHave ==
    ASSUME RowsNumbered, NEW p, Has(csv, p),
           NEW w, w = LoadWaypoints(ToYaml(csv))
    PROVE  \E n \in DOMAIN w : w[n].pose = p
<1> DEFINE yaml == ToYaml(csv)
<1>1. PICK k \in 1..Len(csv) : csv[k].pose = p
  BY DEF Has
<1>2. /\ DOMAIN yaml = 1..Len(csv)
      /\ \A j \in 1..Len(csv) : yaml[j].name = csv[j].seq /\ yaml[j].pose = csv[j].pose
  <2>1. DOMAIN csv = 1..Len(csv)
    BY DEF RowsNumbered
  <2>2. DOMAIN yaml = DOMAIN csv
    BY Zenon DEF ToYaml
  <2> QED
    BY <2>1, <2>2, YamlRow
<1> HIDE DEF yaml
<1> DEFINE name == yaml[k].name
           named == {j \in DOMAIN yaml : yaml[j].name = name}
<1>3. \A j \in 1..Len(csv) : yaml[j].name = j - 1
  BY <1>2 DEF RowsNumbered
<1>4. named = {k}
  BY <1>1, <1>2, <1>3
<1>5. (CHOOSE i \in named : \A j \in named : j <= i) = k
  BY <1>1, <1>4
<1>6. name \in {yaml[i].name : i \in DOMAIN yaml}
  BY <1>1, <1>2
<1>7. name \in DOMAIN w /\ w[name] = yaml[k]
  BY <1>5, <1>6 DEF LoadWaypoints, yaml
<1> QED
  BY <1>1, <1>2, <1>7

-----------------------------------------------------------------------------
(* Both nodes. *)

IInv == RecorderInv /\ CallInv /\ MarksReachable

LEMMA Initially == Init => IInv
<1>1. RecorderInit => RecorderInv
  BY RecorderInitially
<1>2. SequencerInit => CallInv /\ ~running
  BY DEF SequencerInit, CallInv, Empty, Entities
<1> QED
  BY <1>1, <1>2 DEF Init, IInv, MarksReachable

LEMMA RecordedInv ==
    ASSUME IInv, Record
    PROVE  IInv'
<1>1. RecorderInv'
  BY RecorderInductive DEF IInv, Record
<1>2. CallInv'
  BY DEF IInv, CallInv, Record, sequencerVars, navVars
<1>3. ~running'
  BY DEF Record, sequencerVars
<1> QED
  BY <1>1, <1>2, <1>3 DEF IInv, MarksReachable

LEMMA StartedInv ==
    ASSUME IInv, StartSequencer
    PROVE  IInv'
<1>1. RecorderInv'
  BY DEF IInv, StartSequencer, recorderVars, RecorderInv, RowsNumbered, MarksWritten, CurrentOK
<1>2. CallInv'
  BY FreshCall DEF StartSequencer, SequencerStart
<1>3. waypoints' = LoadWaypoints(ToYaml(csv)) /\ marksKnown' = marks
  BY DEF StartSequencer, SequencerStart
<1>4. \A p \in marks : Has(csv, p)
  BY DEF IInv, RecorderInv, MarksWritten
<1>5. ASSUME NEW p \in marksKnown'
      PROVE  \E n \in DOMAIN waypoints' : waypoints'[n].pose = p
  BY <1>3, <1>4, <1>5, WaypointsHave DEF IInv, RecorderInv
<1> QED
  BY <1>1, <1>2, <1>5 DEF IInv, MarksReachable

LEMMA WaypointsKept ==
    ASSUME SequencerNext
    PROVE  UNCHANGED waypoints \/ ~running'
<1> QED
  BY DEF SequencerNext, SequencerEnd, NavAnswers, NavChanges, NavigateTo, Publish, Take

LEMMA InspectedInv ==
    ASSUME IInv, Inspect
    PROVE  IInv'
<1>1. RecorderInv'
  BY DEF IInv, Inspect, recorderVars, RecorderInv, RowsNumbered, MarksWritten, CurrentOK
<1>2. CallInv'
  BY CallInductive DEF IInv, Inspect
<1>3. running /\ UNCHANGED marksKnown
  BY DEF Inspect
<1>4. UNCHANGED waypoints \/ ~running'
  BY WaypointsKept DEF Inspect
<1> QED
  BY <1>1, <1>2, <1>3, <1>4 DEF IInv, MarksReachable

LEMMA IInvInvariant == Spec => []IInv
<1>1. IInv /\ UNCHANGED vars => IInv'
  BY DEF IInv, vars, recorderVars, sequencerVars, navVars, RecorderInv, RowsNumbered,
         MarksWritten, CurrentOK, CallInv, MarksReachable
<1>2. IInv /\ [Next]_vars => IInv'
  BY <1>1, RecordedInv, StartedInv, InspectedInv DEF Next
<1> QED
  BY <1>2, Initially, PTL DEF Spec

(* Every place marked in the recording the sequencer got is a waypoint:    *)
(* whatever the distance between rows, a mark finds its pose in the file.  *)
THEOREM MarksAlwaysReachable == Spec => []MarksReachable
<1>1. IInv => MarksReachable
  BY DEF IInv
<1> QED
  BY <1>1, IInvInvariant, PTL

(* However deep the queues are and whatever Nav2 does, go_callback never   *)
(* returns once it has sent its goal.                                      *)
THEOREM StuckAtFirstGoal == Spec => []NeverPastFirstGoal
<1>1. ASSUME CallInv PROVE NeverPastFirstGoal
  <2>1. Len(goals) <= 1
    <3>1. CASE goals = <<>>
      BY <3>1
    <3>2. CASE Len(goals) = 1
      BY <3>2
    <3> QED
      BY <1>1, <3>1, <3>2 DEF CallInv
  <2> QED
    BY <1>1, <2>1 DEF CallInv, NeverPastFirstGoal
<1>2. IInv => NeverPastFirstGoal
  BY <1>1 DEF IInv
<1> QED
  BY <1>2, IInvInvariant, PTL

-----------------------------------------------------------------------------
(* Types. *)

RecorderTypes ==
    /\ recording \in BOOLEAN
    /\ lastSaved \in Poses \cup {NoPose}
    /\ Len(csv) <= MaxRows
    /\ marks \subseteq Poses

(* What the node is sent: names, task messages, answers of Nav2. *)
Messages(e) ==
    CASE e = "go" -> Triggers
      [] e = "done" -> {"done"}
      [] OTHER -> {"accepted", "rejected"}

Waiting(q, M) == q \in Seq(M) /\ Len(q) <= Depth

SequencerTypes ==
    /\ running \in BOOLEAN /\ asked \in BOOLEAN /\ taskDone \in BOOLEAN
    /\ server \in BOOLEAN /\ answered \in BOOLEAN
    /\ calling \in Triggers \cup {NoCall}
    /\ DOMAIN inbox = Entities
    /\ \A e \in Entities : Waiting(inbox[e], Messages(e))

Types == RecorderTypes /\ SequencerTypes /\ marksKnown \subseteq Poses

LEMMA RowAdded ==
    ASSUME NEW rows \in Seq(Rows), NEW r, Len(rows) < MaxRows
    PROVE  Len(Append(rows, r)) <= MaxRows
<1> QED
  BY RecorderAssumption

LEMMA SavedTypes ==
    ASSUME RecorderInv, RecorderTypes, Len(csv) < MaxRows,
           NEW pose \in Poses, NEW task, SaveWaypoint(pose, task)
    PROVE  lastSaved' \in Poses \cup {NoPose} /\ Len(csv') <= MaxRows
<1>1. CASE lastSaved = pose
  BY <1>1 DEF SaveWaypoint, RecorderTypes
<1>2. CASE lastSaved # pose
  <2> DEFINE r == [seq |-> seq, pose |-> pose, task |-> task]
  <2>1. csv' = Append(csv, r) /\ lastSaved' = pose
    BY <1>2 DEF SaveWaypoint
  <2> HIDE DEF r
  <2> QED
    BY <2>1, RowAdded DEF RecorderInv, RowsNumbered
<1> QED
  BY <1>1, <1>2

LEMMA RecorderTypesKept ==
    ASSUME RecorderInv, RecorderTypes, RecorderNext
    PROVE  RecorderTypes'
<1>1. CASE RecorderStart
  <2>1. Len(csv') <= MaxRows
    BY <1>1, NoRows, RecorderAssumption DEF RecorderStart
  <2> QED
    BY <1>1, <2>1 DEF RecorderStart, RecorderTypes
<1>2. CASE RecorderEnd
  BY <1>2 DEF RecorderEnd, RecorderTypes
<1>3. ASSUME NEW p \in Poses, OdomCallback(p)
      PROVE  RecorderTypes'
  <2>1. CASE UNCHANGED <<lastSaved, seq, csv>>
    BY <1>3, <2>1 DEF OdomCallback, RecorderTypes
  <2>2. CASE SaveWaypoint(p, DefaultTask)
    BY <1>3, <2>2, SavedTypes DEF OdomCallback, RecorderTypes
  <2> QED
    BY <1>3, <2>1, <2>2 DEF OdomCallback
<1>4. ASSUME NEW t \in Tasks, TaskCallback(t)
      PROVE  RecorderTypes'
  <2>1. current \in Poses
    BY <1>4 DEF TaskCallback, RecorderInv, CurrentOK
  <2> QED
    BY <1>4, <2>1, SavedTypes DEF TaskCallback, RecorderTypes
<1> QED
  BY <1>1, <1>2, <1>3, <1>4 DEF RecorderNext

(* A full queue that loses its oldest message is as long as before. *)
LEMMA QueueReceives ==
    ASSUME NEW M, NEW q, Waiting(q, M), NEW m \in M
    PROVE  Waiting(IF Len(Append(q, m)) > Depth THEN Tail(Append(q, m)) ELSE Append(q, m), M)
<1>1. /\ q \in Seq(M) /\ Len(q) \in Nat /\ Len(q) <= Depth /\ Depth \in Nat
      /\ Append(q, m) \in Seq(M) /\ Len(Append(q, m)) = Len(q) + 1
  BY SequencerAssumption DEF Waiting
<1>2. /\ Tail(Append(q, m)) \in Seq(M)
      /\ Len(Tail(Append(q, m))) = Len(q)
  BY <1>1
<1> QED
  BY <1>1, <1>2 DEF Waiting

LEMMA QueueTaken ==
    ASSUME NEW M, NEW q, Waiting(q, M), q # <<>>
    PROVE  Waiting(Tail(q), M) /\ Head(q) \in M
<1>1. /\ Head(q) \in M /\ Tail(q) \in Seq(M)
      /\ Len(q) \in Nat /\ Len(Tail(q)) = Len(q) - 1
  BY DEF Waiting
<1> QED
  BY <1>1, SequencerAssumption DEF Waiting

LEMMA ReceivedTypes ==
    ASSUME SequencerTypes, NEW e \in Entities, NEW m \in Messages(e), Receive(e, m)
    PROVE  DOMAIN inbox' = Entities /\ \A f \in Entities : Waiting(inbox'[f], Messages(f))
<1> DEFINE all == Append(inbox[e], m)
           kept == IF Len(all) > Depth THEN Tail(all) ELSE all
<1>1. Waiting(kept, Messages(e))
  BY QueueReceives DEF SequencerTypes
<1>2. inbox' = [inbox EXCEPT ![e] = kept]
  BY DEF Receive
<1> HIDE DEF kept
<1> QED
  BY <1>1, <1>2 DEF SequencerTypes

LEMMA TakenTypes ==
    ASSUME SequencerTypes, NEW e \in Entities, Take(e)
    PROVE  SequencerTypes'
<1>1. Waiting(Tail(inbox[e]), Messages(e)) /\ Head(inbox[e]) \in Messages(e)
  BY QueueTaken DEF SequencerTypes, Take
<1>2. DOMAIN inbox' = Entities /\ \A f \in Entities : Waiting(inbox'[f], Messages(f))
  <2>1. inbox' = [inbox EXCEPT ![e] = Tail(inbox[e])]
    BY DEF Take
  <2> QED
    BY <1>1, <2>1 DEF SequencerTypes
<1>3. calling' \in Triggers \cup {NoCall}
  BY <1>1 DEF Take, Messages, SequencerTypes
<1>4. taskDone' \in BOOLEAN /\ answered' \in BOOLEAN
  BY Zenon DEF Take, SequencerTypes
<1> QED
  BY <1>2, <1>3, <1>4 DEF Take, SequencerTypes

LEMMA NothingWaits ==
    ASSUME NEW M PROVE Waiting(<<>>, M)
<1> QED
  BY SequencerAssumption DEF Waiting

LEMMA FreshTypes ==
    ASSUME Fresh, server \in BOOLEAN, running' \in BOOLEAN
    PROVE  SequencerTypes'
<1>1. DOMAIN inbox' = Entities /\ \A e \in Entities : inbox'[e] = <<>>
  BY DEF Fresh, Empty
<1> QED
  BY <1>1, NothingWaits DEF Fresh, SequencerTypes

LEMMA SequencerTypesKept ==
    ASSUME SequencerTypes, SequencerNext
    PROVE  SequencerTypes'
<1>1. CASE SequencerEnd
  BY <1>1, FreshTypes DEF SequencerEnd, SequencerTypes
<1>2. CASE NavAnswers
  <2>1. PICK verdict \in {"accepted", "rejected"} : Receive("answer", verdict)
    BY <1>2 DEF NavAnswers
  <2>2. "answer" \in Entities /\ verdict \in Messages("answer")
    BY DEF Entities, Messages
  <2>3. DOMAIN inbox' = Entities /\ \A f \in Entities : Waiting(inbox'[f], Messages(f))
    BY <2>1, <2>2, ReceivedTypes
  <2> QED
    BY <1>2, <2>3 DEF NavAnswers, SequencerTypes, navVars
<1>3. CASE NavChanges
  BY <1>3 DEF NavChanges, SequencerTypes
<1>4. CASE NavigateTo
  BY <1>4 DEF NavigateTo, SequencerTypes
<1>5. ASSUME NEW e \in Entities, NEW m \in Messages(e), Publish(e, m)
      PROVE  SequencerTypes'
  <2>1. DOMAIN inbox' = Entities /\ \A f \in Entities : Waiting(inbox'[f], Messages(f))
    BY <1>5, ReceivedTypes DEF Publish
  <2> QED
    BY <1>5, <2>1 DEF Publish, SequencerTypes, navVars
<1>6. ASSUME NEW n \in Triggers, Publish("go", n)
      PROVE  SequencerTypes'
  BY <1>5, <1>6 DEF Entities, Messages
<1>7. CASE Publish("done", "done")
  BY <1>5, <1>7 DEF Entities, Messages
<1>8. ASSUME NEW e \in Entities, Take(e)
      PROVE  SequencerTypes'
  BY <1>8, TakenTypes
<1> QED
  BY <1>1, <1>2, <1>3, <1>4, <1>6, <1>7, <1>8 DEF SequencerNext

LEMMA TypesInitially == Init => Types
<1>1. RecorderInit => RecorderTypes
  <2> SUFFICES ASSUME RecorderInit PROVE RecorderTypes
    OBVIOUS
  <2>1. Len(csv) = 0
    BY NoRows DEF RecorderInit
  <2>2. Len(csv) <= MaxRows
    BY <2>1, RecorderAssumption
  <2>3. recording \in BOOLEAN /\ lastSaved \in Poses \cup {NoPose} /\ marks \subseteq Poses
    BY DEF RecorderInit
  <2> QED
    BY <2>2, <2>3 DEF RecorderTypes
<1>2. SequencerInit => SequencerTypes
  BY NothingWaits DEF SequencerInit, SequencerTypes, Empty
<1> QED
  BY <1>1, <1>2 DEF Init, Types

LEMMA TypesKept ==
    ASSUME IInv, Types, [Next]_vars
    PROVE  Types'
<1>1. CASE Record
  <2>1. RecorderTypes'
    BY <1>1, RecorderTypesKept DEF IInv, Types, Record
  <2> QED
    BY <1>1, <2>1 DEF Types, Record, SequencerTypes, sequencerVars, navVars
<1>2. CASE StartSequencer
  <2>1. SequencerTypes'
    BY <1>2, FreshTypes DEF StartSequencer, SequencerStart, Types, SequencerTypes
  <2> QED
    BY <1>2, <2>1 DEF Types, StartSequencer, RecorderTypes, recorderVars
<1>3. CASE Inspect
  <2>1. SequencerTypes'
    BY <1>3, SequencerTypesKept DEF Types, Inspect
  <2> QED
    BY <1>3, <2>1 DEF Types, Inspect, RecorderTypes, recorderVars
<1>4. CASE UNCHANGED vars
  BY <1>4 DEF vars, recorderVars, sequencerVars, navVars, Types, RecorderTypes, SequencerTypes
<1> QED
  BY <1>1, <1>2, <1>3, <1>4 DEF Next

(* TypeOK holds for any places, tasks, names and queue depth: in           *)
(* particular no queue is longer than its depth and go_callback runs only  *)
(* for a name that was sent.                                               *)
THEOREM TypeCorrect == Spec => []TypeOK
<1>1. Init => IInv /\ Types
  BY Initially, TypesInitially
<1>2. IInv /\ Types /\ [Next]_vars => Types'
  BY TypesKept
<1>3. IInv /\ Types => TypeOK
  <2>1. SUFFICES ASSUME IInv, Types PROVE RowsNumbered /\ CurrentOK /\ Types => TypeOK
    BY DEF IInv, RecorderInv
  <2>2. ASSUME RowsNumbered PROVE seq \in Nat
    BY <2>2 DEF RowsNumbered
  <2> QED
    BY DEF RowsNumbered, CurrentOK, Types, RecorderTypes, SequencerTypes, Waiting,
        TypeOK, RecorderTypeOK, SequencerTypeOK
<1> QED
  BY <1>1, <1>2, <1>3, IInvInvariant, PTL DEF Spec
=============================================================================
