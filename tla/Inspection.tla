----------------------------- MODULE Inspection -----------------------------
(***************************************************************************)
(* How a round of inspection is made: the recorder writes the file while   *)
(* the operator drives and marks, csv_to_yaml.py converts it, finished or  *)
(* not, and the sequencer reads the result when it starts.                 *)
(*                                                                         *)
(* A recorder and a sequencer that both run share nothing, so the recorder *)
(* takes its steps before the sequencer starts.  The variable marksKnown   *)
(* is history: the marks of the recording the sequencer has read.          *)
(***************************************************************************)
EXTENDS WaypointRecorder, InspectionSequencer

VARIABLE marksKnown

vars == <<recorderVars, sequencerVars, marksKnown>>

Init ==
    /\ RecorderInit
    /\ SequencerInit
    /\ marksKnown = {}

Record == ~running /\ RecorderNext /\ UNCHANGED <<sequencerVars, marksKnown>>

StartSequencer ==
    /\ SequencerStart(ToYaml(csv))
    /\ marksKnown' = marks
    /\ UNCHANGED recorderVars

Inspect == running /\ SequencerNext /\ UNCHANGED <<recorderVars, marksKnown>>

Next == Record \/ StartSequencer \/ Inspect

Spec == Init /\ [][Next]_vars
-----------------------------------------------------------------------------
(* The state of both nodes has its types. *)
TypeOK ==
    /\ RecorderTypeOK /\ SequencerTypeOK
    /\ marksKnown \subseteq Poses

(* Every place the operator marked, in the recording the sequencer got, is *)
(* one of its waypoints: no row is lost between the odometry that saved    *)
(* the place before the mark, the numbering of the rows, the names made of *)
(* the numbers and the dictionary that keeps one waypoint for a name.  (A  *)
(* task may be lost: of two rows for one pose the second is not written.)  *)
MarksReachable ==
    running => \A p \in marksKnown :
                 \E n \in DOMAIN waypoints : waypoints[n].pose = p
=============================================================================
