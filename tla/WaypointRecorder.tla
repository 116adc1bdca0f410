-------------------------- MODULE WaypointRecorder --------------------------
(***************************************************************************)
(* WaypointRecorder (omr_lio/scripts/record_waypoints.py): a row of a CSV  *)
(* file whenever the odometry has moved min_distance from the last row,    *)
(* and one for every place the operator marks with a task or a stop.       *)
(*                                                                         *)
(* A pose is <<place, yaw>>, places on a line; poses closer than the 1e-6  *)
(* of save_waypoint() are one pose.  The variable marks is history: where  *)
(* the recording was marked.                                               *)
(***************************************************************************)
EXTENDS Integers, Sequences

CONSTANTS
    Places,      \* where the robot can be
    Yaws,        \* and which way it looks there
    MinDistance, \* parameter min_distance
    Tasks,       \* what /waypoint_task asks for, stops included
    MaxRows      \* bound: rows of a recording

ASSUME RecorderAssumption == MaxRows \in Nat

VARIABLES
    recording, \* the node runs
    current,   \* the pose of current_msg
    lastSaved, \* last_saved_x, last_saved_y and last_saved_yaw
    seq,
    csv,       \* the rows in the file
    marks

recorderVars == <<recording, current, lastSaved, seq, csv, marks>>

NoPose == <<>>
Poses == Places \X Yaws
DefaultTask == "none"

Distance(p, q) == IF p[1] < q[1] THEN q[1] - p[1] ELSE p[1] - q[1]

RecorderInit ==
    /\ recording = FALSE
    /\ current = NoPose /\ lastSaved = NoPose
    /\ seq = 0
    /\ csv = <<>>
    /\ marks = {}

(* The file is opened for writing anew: with a fixed file_name the rows of *)
(* an earlier run are gone, with the default one they are in another file. *)
RecorderStart ==
    /\ ~recording
    /\ recording' = TRUE
    /\ current' = NoPose /\ lastSaved' = NoPose
    /\ seq' = 0
    /\ csv' = <<>>
    /\ marks' = {}

(* Every row was flushed and synced when it was written. *)
RecorderEnd ==
    /\ recording
    /\ recording' = FALSE
    /\ UNCHANGED <<current, lastSaved, seq, csv, marks>>
-----------------------------------------------------------------------------
(* Mutant: only the place is compared with the last row, not the yaw. *)
SavePlace(pose, task) ==
    IF lastSaved # NoPose /\ lastSaved[1] = pose[1]
    THEN UNCHANGED <<lastSaved, seq, csv>>
    ELSE /\ csv' = Append(csv, [seq |-> seq, pose |-> pose, task |-> task])
         /\ seq' = seq + 1
         /\ lastSaved' = pose

(* Mutant: rows are numbered, but the number does not advance. *)
SaveUnnumbered(pose, task) ==
    IF lastSaved = pose
    THEN UNCHANGED <<lastSaved, seq, csv>>
    ELSE /\ csv' = Append(csv, [seq |-> seq, pose |-> pose, task |-> task])
         /\ lastSaved' = pose
         /\ UNCHANGED seq

(* A pose that was just saved is not saved again, whatever the task. *)
SaveWaypoint(pose, task) ==
    IF lastSaved = pose
    THEN UNCHANGED <<lastSaved, seq, csv>>
    ELSE /\ csv' = Append(csv, [seq |-> seq, pose |-> pose, task |-> task])
         /\ seq' = seq + 1
         /\ lastSaved' = pose

OdomCallback(pose) ==
    /\ recording /\ Len(csv) < MaxRows
    /\ current' = pose
    /\ IF lastSaved # NoPose /\ Distance(pose, lastSaved) < MinDistance
       THEN UNCHANGED <<lastSaved, seq, csv>>
       ELSE SaveWaypoint(pose, DefaultTask)
    /\ UNCHANGED <<recording, marks>>

(* Before the first odometry, and for an empty task, nothing happens. *)
TaskCallback(task) ==
    /\ recording /\ Len(csv) < MaxRows
    /\ current # NoPose
    /\ SaveWaypoint(current, task)
    /\ marks' = marks \cup {current}
    /\ UNCHANGED <<recording, current>>

RecorderNext ==
    \/ RecorderStart \/ RecorderEnd
    \/ \E p \in Poses : OdomCallback(p)
    \/ \E t \in Tasks : TaskCallback(t)
-----------------------------------------------------------------------------
(* The file as csv_to_yaml.py converts it: the number is the name. *)
ToYaml(rows) ==
    [i \in DOMAIN rows |->
        [name |-> rows[i].seq,
         pose |-> rows[i].pose,
         task |-> IF rows[i].task = DefaultTask THEN "" ELSE rows[i].task]]

Rows == [seq : Nat, pose : Poses, task : Tasks \cup {DefaultTask}]

RecorderTypeOK ==
    /\ recording \in BOOLEAN
    /\ current \in Poses \cup {NoPose} /\ lastSaved \in Poses \cup {NoPose}
    /\ seq \in Nat
    /\ csv \in Seq(Rows) /\ Len(csv) <= MaxRows
    /\ marks \subseteq Poses
=============================================================================
