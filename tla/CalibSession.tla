---------------------------- MODULE CalibSession ----------------------------
(***************************************************************************)
(* Calibration sessions: the collector that saves frames and arm poses in  *)
(* a session folder, the command line tools collect_data and run_pipeline  *)
(* that run it on the RealSense stream, and calib_node, whose services run *)
(* it on the camera topic and calibrate from the folder.                   *)
(*                                                                         *)
(* omr_controller/apps/calib_node.cpp, run_pipeline.cpp, collect.cpp,      *)
(* omr_controller/src/calib/collector.cpp, omr_vision/src/capture.cpp      *)
(***************************************************************************)
EXTENDS HandEye

CONSTANTS
  Dirs,          \* session folders
  ToolDirs,      \* those the command line tools are given
  DefaultDir,    \* the folder of the session_dir parameter at start
  Poses,         \* arm poses
  Tours,         \* where the arm may be at the first, second, ... saved frame
  TotalImages,   \* total_images
  Waypoints,     \* waypoints a caller of the collector may pass
  MaxCaptures,   \* bound: frames saved in a behaviour, all of its tour at most
  MayFail,       \* bound: those whose writes to the disk may fail
  Waiting        \* bound: [Tours -> sets of service calls that wait together]

Services == {"run", "calibrate", "hand_eye", "stop"}

ASSUME DirsAssumption == DefaultDir \in Dirs /\ ToolDirs \subseteq Dirs
ASSUME PosesAssumption == \A p \in Poses : p \in Seq(Int) /\ Len(p) = 6
ASSUME ToursAssumption ==
  /\ Tours \subseteq Seq(Poses)
  /\ \A t \in Tours : Len(t) <= MaxCaptures
ASSUME BoundsAssumption ==
  /\ TotalImages \in Nat /\ Waypoints \in Nat /\ MaxCaptures \in Nat
  /\ MayFail \subseteq Nat
  /\ Waiting \in [Tours -> SUBSET SUBSET Services]

Runners == {"tool", "node"}      \* who runs a collector
NoResult == [poses |-> <<>>, views |-> {}]

\* A frame that was saved; image and row say whether the writes succeeded.
Captures ==
  [n : 1..MaxCaptures, pose : Poses, board : BOOLEAN, image : BOOLEAN, row : BOOLEAN]

VARIABLES
  made,      \* folders that exist
  images,    \* [Dirs -> frames in <dir>/images, file i at position i + 1; one
             \* whose image was not written stands for a file that is missing]
  top,       \* [Dirs -> frames in <dir> itself]
  csv,       \* [Dirs -> rows of robot_poses.csv]
  result,    \* [Dirs -> what calibration_result.yaml was computed from]
  at,        \* [Runners -> where the collector is]
  dir,       \* [Runners -> output_dir_]
  mode,      \* [Runners -> "keys" (there is a display), "headless" or "auto"]
  left,      \* [Runners -> waypoints not yet visited]
  frame,     \* [Runners -> a chessboard is found in the frame in hand]
  saved,     \* [Runners -> saved_poses]
  taken,     \* frames saved so far
  tour,      \* the arm's pose at every saved frame, fixed
  up,        \* calib_node runs
  cfgDir,    \* cfg_.output_dir
  views,     \* last_cam_rvecs_, last_cam_tvecs_
  armPoses,  \* last_arm_poses_
  asked,     \* service calls waiting for the node
  round      \* those that the executor's last wait has found

disk == <<made, images, top, csv, result>>
collector == <<at, dir, mode, left, frame, saved>>
node == <<up, cfgDir, views, armPoses>>
calls == <<asked, round>>
vars == <<disk, collector, taken, tour, node, calls>>

TypeOK ==
  /\ made \in SUBSET Dirs
  /\ images \in [Dirs -> Seq(Captures)]
  /\ top \in [Dirs -> SUBSET Captures]
  /\ csv \in [Dirs -> Seq(Seq(Int))]
  /\ result \in [Dirs -> [poses : Seq(Captures), views : SUBSET Captures]]
  /\ at \in [Runners -> {"off", "next", "key", "collected"}]
  /\ dir \in [Runners -> Dirs]
  /\ mode \in [Runners -> {"keys", "headless", "auto"}]
  /\ left \in [Runners -> 0..Waypoints]
  /\ frame \in [Runners -> BOOLEAN]
  /\ saved \in [Runners -> Seq(Captures)]
  /\ taken \in 0..MaxCaptures
  /\ tour \in Tours
  /\ up \in BOOLEAN
  /\ cfgDir \in Dirs
  /\ views \in SUBSET Captures
  /\ armPoses \in Seq(Captures)
  /\ asked \in SUBSET Services
  /\ round \in SUBSET asked

Init ==
  /\ made = {}
  /\ images = [d \in Dirs |-> <<>>]
  /\ top = [d \in Dirs |-> {}]
  /\ csv = [d \in Dirs |-> <<>>]
  /\ result = [d \in Dirs |-> NoResult]
  /\ at = [r \in Runners |-> "off"]
  /\ dir = [r \in Runners |-> DefaultDir]
  /\ mode = [r \in Runners |-> "keys"]
  /\ left = [r \in Runners |-> 0]
  /\ frame = [r \in Runners |-> FALSE]
  /\ saved = [r \in Runners |-> <<>>]
  /\ taken = 0
  /\ tour \in Tours
  /\ up = TRUE
  /\ cfgDir = DefaultDir
  /\ views = {}
  /\ armPoses = <<>>
  /\ asked = {}
  /\ round = {}

PosesOf(captures) == [i \in DOMAIN captures |-> captures[i].pose]

\* The image files of a session folder.
Shots(d) == {c \in {images[d][i] : i \in DOMAIN images[d]} : c.image}

-----------------------------------------------------------------------------
(***************************************************************************)
(* The collector.                                                          *)
(***************************************************************************)
Off(r) == at[r] = "off"

\* The constructor of FrameCapture makes <dir>/images; the loop starts.
Open(r, d, m) ==
  /\ made' = made \cup {d}
  /\ at' = [at EXCEPT ![r] = "next"]
  /\ dir' = [dir EXCEPT ![r] = d]
  /\ mode' = [mode EXCEPT ![r] = m]
  /\ left' = [left EXCEPT ![r] = IF m = "auto" THEN Waypoints ELSE 0]
  /\ UNCHANGED <<frame, saved>>

\* The collector and its process or handler are gone, and what they held.
Close(r) ==
  /\ at' = [at EXCEPT ![r] = "off"]
  /\ dir' = [dir EXCEPT ![r] = DefaultDir]
  /\ mode' = [mode EXCEPT ![r] = "keys"]
  /\ left' = [left EXCEPT ![r] = 0]
  /\ frame' = [frame EXCEPT ![r] = FALSE]
  /\ saved' = [saved EXCEPT ![r] = <<>>]

(* Mutant: the camera callback runs beside the handler. *)
FrameComesAlways(r) == TRUE

\* CameraStream::next waits for the device.  TopicCameraAdapter::next waits for
\* a callback that only the executor's thread runs, which is not free while a
\* service handler waits here.
FrameComes(r) == r = "tool" \/ Off("node")

\* Target reached: enough frames, and diverse.
Enough(captures) == Len(captures) >= TotalImages /\ Diverse(PosesOf(captures))

(* Mutant: numbering goes on after the images that are there. *)
IndexOnDisk(r) == Len(images[dir[r]]) + 1

\* The frames of a session are numbered from the first one on.
Index(r) == Len(saved[r]) + 1

(* Mutant: the row is written where the image is, not at the end. *)
LogAtIndex(rows, index, c) ==
  IF index \in DOMAIN rows THEN [rows EXCEPT ![index] = Row(c)] ELSE Append(rows, Row(c))

\* The pose file is opened to append.
Log(rows, index, c) == Append(rows, Row(c))

\* FrameCapture::save_with_pose, and the pose into saved_poses: the image goes
\* under its number in this session, over an older one, the pose to the end of
\* the file.  The answer of imwrite is not looked at, and a pose file that does
\* not open ends the call without a word: the collector counts the frame all the
\* same.  The frame is in hand; the pose is the one the arm has now.
SaveWithPose(r, board) ==
  /\ taken < Len(tour)
  /\ taken' = taken + 1
  /\ \E image, row \in BOOLEAN :
       /\ taken' \notin MayFail => image /\ row
       /\ LET c == [n |-> taken', pose |-> tour[taken'], board |-> board,
                    image |-> image, row |-> row]
              d == dir[r]
              index == Index(r)
          IN  /\ images' = [images EXCEPT ![d] =
                              IF index > Len(@) THEN Append(@, c)
                              ELSE IF image THEN [@ EXCEPT ![index] = c] ELSE @]
              /\ csv' = [csv EXCEPT ![d] = IF row THEN Log(@, index, c) ELSE @]
              /\ saved' = [saved EXCEPT ![r] = Append(@, c)]

\* Interactive mode: a frame, its corners if there are any, a key waited for.
Grab(r) ==
  /\ at[r] = "next"
  /\ mode[r] # "auto"
  /\ FrameComes(r)
  /\ \E board \in BOOLEAN : frame' = [frame EXCEPT ![r] = board]
  /\ at' = [at EXCEPT ![r] = "key"]
  /\ UNCHANGED <<disk, dir, mode, left, saved, taken, tour, node, calls>>

(* Mutant: a key is read without a display too. *)
HasKeyHeadless(r) == at[r] = "key"

HasKey(r) == at[r] = "key" /\ mode[r] = "keys"

\* 's': saved whether or not a board was found.
KeySave(r) ==
  /\ HasKey(r)
  /\ SaveWithPose(r, frame[r])
  /\ at' = [at EXCEPT ![r] = IF Enough(saved'[r]) THEN "collected" ELSE "next"]
  /\ frame' = [frame EXCEPT ![r] = FALSE]
  /\ UNCHANGED <<made, top, result, dir, mode, left, tour, node, calls>>

\* 'q' or ESC ends the loop, no key in 30 ms goes on.  Without a display there
\* never is a key.
KeyOther(r) ==
  /\ at[r] = "key"
  /\ \/ at' = [at EXCEPT ![r] = "next"]
     \/ HasKey(r) /\ at' = [at EXCEPT ![r] = "collected"]
  /\ frame' = [frame EXCEPT ![r] = FALSE]
  /\ UNCHANGED <<disk, dir, mode, left, saved, taken, tour, node, calls>>

(* Mutant: the list of waypoints is not checked for its end. *)
WaypointLeftUnchecked(r) == mode[r] = "auto"

WaypointLeft(r) == mode[r] = "auto" /\ left[r] > 0

\* Waypoint mode: the next waypoint, unless the target is reached.  A waypoint
\* that cannot be reached, or gives no frame or no board, is passed over.
Visit(r) ==
  /\ at[r] = "next"
  /\ WaypointLeft(r)
  /\ ~Enough(saved[r])
  /\ left' = [left EXCEPT ![r] = @ - 1]
  /\ \/ UNCHANGED <<saved, images, csv, taken>>
     \/ FrameComes(r) /\ SaveWithPose(r, TRUE)
  /\ UNCHANGED <<made, top, result, at, dir, mode, frame, tour, node, calls>>

VisitsDone(r) ==
  /\ at[r] = "next"
  /\ mode[r] = "auto"
  /\ ~WaypointLeft(r) \/ Enough(saved[r])
  /\ at' = [at EXCEPT ![r] = "collected"]
  /\ UNCHANGED <<disk, dir, mode, left, frame, saved, taken, tour, node, calls>>

(* Mutant: the stages read the images where the collector saves them. *)
StageViewsOfSession(r) ==
  IF Calibrates(Shots(dir[r])) THEN Boards(Shots(dir[r])) ELSE {}

\* Stages 2 to 4, run_pipeline's and calib_node's.  The views come from the
\* .jpg files of the folder itself.  Without any, run_pipeline ends; the node
\* goes on with the views it has cached, for its "no images" is not "failed".
StageViews(r) ==
  IF Calibrates(top[dir[r]]) THEN Boards(top[dir[r]])
  ELSE IF r = "node" /\ top[dir[r]] = {} THEN views ELSE {}

\* One of the four methods has to give a rotation: that depends on the data.
Solve(d, poses, seen) ==
  \E valid \in BOOLEAN :
    result' = IF valid /\ seen # {} /\ Solvable(PosesOf(poses), seen)
              THEN [result EXCEPT ![d] = [poses |-> poses, views |-> seen]]
              ELSE result

Stages(r) ==
  /\ at[r] = "collected"
  /\ Solve(dir[r], saved[r], StageViews(r))
  /\ views' = IF r = "node" /\ Calibrates(top[dir[r]]) THEN StageViews(r) ELSE views
  /\ armPoses' = IF r = "node" THEN saved[r] ELSE armPoses
  /\ Close(r)
  /\ UNCHANGED <<made, images, top, csv, taken, tour, up, cfgDir, calls>>

-----------------------------------------------------------------------------
(***************************************************************************)
(* The command line tools, and who uses them.                              *)
(***************************************************************************)
StartTool ==
  /\ Off("tool")
  /\ \E d \in ToolDirs, m \in {"keys", "headless", "auto"} : Open("tool", d, m)
  /\ UNCHANGED <<images, top, csv, result, taken, tour, node, calls>>

\* The process ends before the stages: the stream ends (an error, not a stop),
\* an ArmError that nobody catches, Ctrl-C; collect_data has no stages.
EndTool ==
  /\ ~Off("tool")
  /\ Close("tool")
  /\ UNCHANGED <<disk, taken, tour, node, calls>>

\* Somebody puts the images where the stages look: <dir>/images/* to <dir>.
CopyImages ==
  /\ \E d \in Dirs :
       /\ Shots(d) # {}
       /\ top' = [top EXCEPT ![d] = Shots(d)]
  /\ UNCHANGED <<made, images, csv, result, collector, taken, tour, node, calls>>

-----------------------------------------------------------------------------
(***************************************************************************)
(* calib_node: one executor thread, one mutex.                             *)
(***************************************************************************)
Ask(s) ==
  /\ up
  /\ s \notin asked
  /\ asked \cup {s} \in Waiting[tour]
  /\ asked' = asked \cup {s}
  /\ UNCHANGED <<disk, collector, taken, tour, node, round>>

\* The executor has its thread for the next call.
ThreadFree == up /\ Off("node")


\* spin of a SingleThreadedExecutor: when all that a wait has found is served,
\* the next one finds what waits by then.
Wait ==
  /\ ThreadFree
  /\ round = {}
  /\ asked # {} /\ round' = asked
  /\ UNCHANGED <<disk, collector, taken, tour, node, asked>>

Serve(s) ==
  /\ ThreadFree
  /\ s \in round
  /\ round' = round \ {s}
  /\ asked' = asked \ {s}

\* on_set_parameters: every entry is checked before any is taken over, and a
\* refused batch leaves the configuration as it was.
SetParameters ==
  /\ ThreadFree
  /\ \E d \in Dirs \ {cfgDir} : cfgDir' = d
  /\ UNCHANGED <<disk, collector, taken, tour, up, views, armPoses, calls>>

\* runPipeline up to the collector's loop, in the handler, under the mutex.
ServeRun ==
  /\ Serve("run")
  /\ Open("node", cfgDir, "keys")
  /\ UNCHANGED <<images, top, csv, result, taken, tour, node>>

\* runCameraCalib on a folder that exists.
ServeCalibrate ==
  /\ Serve("calibrate")
  /\ cfgDir \in made
  /\ views' = IF Calibrates(top[cfgDir]) THEN Boards(top[cfgDir]) ELSE views
  /\ UNCHANGED <<disk, collector, taken, tour, up, cfgDir, armPoses>>

\* runHandEye: the cached views with the cached poses.
ServeHandEye ==
  /\ Serve("hand_eye")
  /\ Solve(cfgDir, armPoses, views)
  /\ UNCHANGED <<made, images, top, csv, collector, taken, tour, node>>

\* ~/stop: whether the arm took it only shows in the reply.
ServeStop ==
  /\ Serve("stop")
  /\ UNCHANGED <<disk, collector, taken, tour, node>>

NodeGone ==
  /\ up' = FALSE
  /\ asked' = {} /\ round' = {}
  /\ views' = {}
  /\ armPoses' = <<>>
  /\ cfgDir' = DefaultDir

\* directory_iterator throws for a folder that does not exist; nobody catches
\* it, and the exception leaves spin and main.
CalibrateThrows ==
  /\ ThreadFree
  /\ "calibrate" \in round
  /\ cfgDir \notin made
  /\ NodeGone
  /\ UNCHANGED <<disk, collector, taken, tour>>

\* Killed from outside, also in the middle of a call.
NodeKilled ==
  /\ up
  /\ Close("node")
  /\ NodeGone
  /\ UNCHANGED <<disk, taken, tour>>

NodeStarts ==
  /\ ~up
  /\ up' = TRUE
  /\ UNCHANGED <<disk, collector, taken, tour, cfgDir, views, armPoses, calls>>

-----------------------------------------------------------------------------
Collecting(r) ==
  \/ Grab(r) \/ KeySave(r) \/ KeyOther(r) \/ Visit(r) \/ VisitsDone(r) \/ Stages(r)

Serving == ServeRun \/ ServeCalibrate \/ ServeHandEye \/ ServeStop \/ CalibrateThrows

Next ==
  \/ \E r \in Runners : Collecting(r)
  \/ StartTool \/ EndTool \/ CopyImages
  \/ \E s \in Services : Ask(s)
  \/ SetParameters
  \/ Wait \/ Serving
  \/ NodeKilled \/ NodeStarts

\* The executor goes on while it has its thread and calls wait.  Which of them it
\* serves first is left open, and nothing makes a person press a key, copy files
\* or call a service.
Fairness == WF_vars(Wait \/ Serving)

Spec == Init /\ [][Next]_vars /\ Fairness

-----------------------------------------------------------------------------
(***************************************************************************)
(* Properties.                                                             *)
(***************************************************************************)
AllOf(captures) == {captures[i] : i \in DOMAIN captures}

\* The solver wants as many views as motions, and there is one motion fewer
\* than poses.  So no result is ever computed from the poses and the views of
\* the same frames, by the stages or by compute_hand_eye on the files: a session
\* in which every frame shows the board is never solved.
CompleteSessionUnsolved ==
  \A d \in Dirs :
    /\ result[d] # NoResult => AllOf(result[d].poses) # result[d].views
    /\ Len(csv[d]) = Cardinality(Shots(d)) => ~ComputeHandEye(csv[d], Shots(d))

\* The collector saves in <dir>/images and the stages look in <dir>: run_pipeline
\* and ~/calibrate see no image of a session unless somebody moves it, and then
\* only the images as they were at that time.
OnlyMovedImagesCount ==
  /\ \A d \in Dirs : result[d] # NoResult => top[d] # {}
  /\ views # {} => \E d \in Dirs : top[d] # {}

\* ~/run waits for a camera frame on the thread that would deliver it.  It never
\* gets one, so no call after it is served and ~/hand_eye never has poses.
RunGetsNoFrame ==
  /\ at["node"] \in {"off", "next"}
  /\ armPoses = <<>>

\* Frames i, i + 1, ... all have their rows.
LoggedFrom(captures, i) == \A j \in i..Len(captures) : captures[j].row

\* What a session has in memory is what it has on disk, over the files of
\* earlier sessions, as far as the disk took it: a frame whose image was written
\* is under its number, and the frames since the last row that was lost have
\* their poses in the last rows of the pose file, in the same order.  A row that
\* is lost moves all earlier ones of the session away from their images.
FilesFollowSession ==
  \A r \in Runners : \A i \in DOMAIN saved[r] :
    /\ saved[r][i].image => /\ i \in DOMAIN images[dir[r]]
                            /\ images[dir[r]][i] = saved[r][i]
    /\ LoggedFrom(saved[r], i) =>
         LET rows == csv[dir[r]]
         IN  rows[Len(rows) - Len(saved[r]) + i] = Row(saved[r][i])

\* A session without a display saves nothing and never ends by itself.
HeadlessNeverEnds ==
  \A r \in Runners : mode[r] = "headless" => at[r] # "collected" /\ saved[r] = <<>>


\* What the tools say they read, "CSV file with arm end-effector poses
\* (tx,ty,tz,rx,ry,rz per row)": what they load is the pose of the row.
ToolsLoadThePose ==
  \A d \in Dirs : \A i \in DOMAIN csv[d] :
    LoadPoses(csv[d])[i] = SubSeq(csv[d][i], 2, 7)
=============================================================================
