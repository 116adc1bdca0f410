------------------------------ MODULE HandEye ------------------------------
(***************************************************************************)
(* The calibration arithmetic as far as the calibration sessions depend on *)
(* it: when a set of arm poses is diverse enough, which images give a      *)
(* view, which relative motions come out of the poses, and when the        *)
(* hand-eye solver accepts motions and views.                              *)
(*                                                                         *)
(* A pose is the array {tx,ty,tz,rx,ry,rz} with angles in degrees.  A      *)
(* capture is one saved frame, [n, pose, board]: its running number, the   *)
(* arm pose written with it, whether a chessboard can be found in it.      *)
(***************************************************************************)
EXTENDS Integers, Sequences, FiniteSets

Threshold == 30             \* degrees, kRotationThresholdRad

\* rotation_diversity_ok: more than 30 degrees of range about each axis,
\* which max - min > 30 says of some pair of poses.
Diverse(poses) ==
  /\ Len(poses) >= 3
  /\ \A axis \in 4..6 :
       \E i, j \in DOMAIN poses : poses[i][axis] - poses[j][axis] > Threshold

\* CameraCalibrator::compute: images without a board are skipped, fewer than
\* three with one are an error.  There is one view per image that is used.
Boards(images) == {c \in images : c.board}
Calibrates(images) == Cardinality(Boards(images)) >= 3

\* PoseProcessor::process: the relative motions between successive poses.
Motions(poses) ==
  IF Len(poses) < 2
  THEN <<>>
  ELSE [i \in 1..(Len(poses) - 1) |-> <<poses[i], poses[i + 1]>>]

(* Mutant: one view per pose. *)
AcceptsPerPose(motions, views) ==
  /\ Len(motions) >= 3
  /\ Cardinality(views) = Len(motions) + 1

\* HandEyeSolver::solve up to the call of OpenCV: at least three motions, and
\* as many camera views as motions.
Accepts(motions, views) ==
  /\ Len(motions) >= 3
  /\ Cardinality(views) = Len(motions)

\* One line of robot_poses.csv: a timestamp, then the pose.
Row(c) == <<c.n>> \o c.pose

\* load_poses_from_csv: the first six columns of every line after the header.
LoadPoses(rows) == [i \in DOMAIN rows |-> SubSeq(rows[i], 1, 6)]

\* compute_hand_eye on a folder's pose file and the views of a rvecs/tvecs file.
ComputeHandEye(rows, views) ==
  /\ views # {}
  /\ rows # <<>>
  /\ Accepts(Motions(LoadPoses(rows)), views)

(***************************************************************************)
(* Solve pairs poses with views by position, so it needs one pose more     *)
(* than views.                                                             *)
(***************************************************************************)
Solvable(poses, views) == Accepts(Motions(poses), views)
=============================================================================
