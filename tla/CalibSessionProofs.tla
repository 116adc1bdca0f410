------------------------- MODULE CalibSessionProofs -------------------------
(***************************************************************************)
(* Theorems about CalibSession, for any folders, poses, tours and sizes:   *)
(* the node's own run of the collector never has a frame, a session        *)
(* without a display saves nothing and does not end, files and memory of a *)
(* session stay together, only images that somebody moved count, and a     *)
(* complete session is not solved.                                         *)
(***************************************************************************)
EXTENDS CalibSession, SequenceTheorems, FiniteSetTheorems, TLAPS

(* What the first two say, with what they need of the functions they look at: a  *)
(* collector that is off has nothing saved, and the node's is never in     *)
(* waypoint mode.                                                          *)
IInv ==
  /\ DOMAIN at = Runners /\ DOMAIN mode = Runners /\ DOMAIN saved = Runners
  /\ \A r \in Runners : Off(r) => saved[r] = <<>>
  /\ mode["node"] = "keys"
  /\ RunGetsNoFrame
  /\ HeadlessNeverEnds

LEMMA Initially == Init => IInv
<1> QED
  BY DEF Init, IInv, Off, RunGetsNoFrame, HeadlessNeverEnds, Runners

(* Nothing of the collectors changes, and no poses come to the node. *)
LEMMA CollectorsKept ==
  ASSUME IInv, UNCHANGED <<at, mode, saved>>, armPoses' = armPoses \/ armPoses' = <<>>
  PROVE  IInv'
<1> QED
  BY DEF IInv, Off, RunGetsNoFrame, HeadlessNeverEnds

LEMMA Closed ==
  ASSUME IInv, NEW r \in Runners, Close(r),
         armPoses' = armPoses \/ armPoses' = <<>>
  PROVE  IInv'
<1> QED
  BY DEF IInv, Close, Off, RunGetsNoFrame, HeadlessNeverEnds, Runners

LEMMA Opened ==
  ASSUME IInv, NEW r \in Runners, NEW d, NEW m, Off(r), Open(r, d, m),
         r = "node" => m = "keys", UNCHANGED armPoses
  PROVE  IInv'
<1> QED
  BY DEF IInv, Open, Off, RunGetsNoFrame, HeadlessNeverEnds, Runners

(* The frame for the node would have to come while its collector, which    *)
(* has the thread, waits for it.                                           *)
LEMMA NoFrameForTheNode ==
  ASSUME IInv, NEW r \in Runners, at[r] # "off", FrameComes(r)
  PROVE  r = "tool"
<1> QED
  BY DEF FrameComes, Off, Runners

LEMMA CollectingKeeps ==
  ASSUME IInv, NEW r \in Runners, Collecting(r)
  PROVE  IInv'
<1>1. CASE Grab(r)
  <2>1. r = "tool"
    BY <1>1, NoFrameForTheNode DEF Grab
  <2> QED
    BY <1>1, <2>1
    DEF Grab, node, IInv, Off, RunGetsNoFrame, HeadlessNeverEnds, Runners
<1>2. CASE KeySave(r)
  <2>1. r = "tool" /\ mode[r] = "keys"
    BY <1>2 DEF KeySave, HasKey, IInv, RunGetsNoFrame, Runners
  <2>2. at'[r] # "off"
    BY <1>2 DEF KeySave, IInv
  <2>3. DOMAIN saved' = Runners /\ saved'["node"] = saved["node"]
    BY <1>2, <2>1 DEF KeySave, SaveWithPose, IInv, Runners
  <2>4. DOMAIN at' = Runners /\ at'["node"] = at["node"]
    BY <1>2, <2>1 DEF KeySave, IInv, Runners
  <2>5. UNCHANGED <<mode, armPoses>>
    BY <1>2 DEF KeySave, node
  <2> QED
    BY <2>1, <2>2, <2>3, <2>4, <2>5
    DEF IInv, Off, RunGetsNoFrame, HeadlessNeverEnds, Runners
<1>3. CASE KeyOther(r)
  BY <1>3
  DEF KeyOther, HasKey, node, IInv, Off, RunGetsNoFrame, HeadlessNeverEnds, Runners
<1>4. CASE Visit(r)
  <2>1. r = "tool" /\ mode[r] = "auto" /\ at[r] = "next"
    BY <1>4 DEF Visit, WaypointLeft, IInv, Runners
  <2>2. DOMAIN saved' = Runners /\ saved'["node"] = saved["node"]
    BY <1>4, <2>1 DEF Visit, SaveWithPose, IInv, Runners
  <2>3. UNCHANGED <<at, mode, armPoses>>
    BY <1>4 DEF Visit, node
  <2> QED
    BY <2>1, <2>2, <2>3 DEF IInv, Off, RunGetsNoFrame, HeadlessNeverEnds, Runners
<1>5. CASE VisitsDone(r)
  BY <1>5
  DEF VisitsDone, node, IInv, Off, RunGetsNoFrame, HeadlessNeverEnds, Runners
<1>6. CASE Stages(r)
  <2>1. r = "tool"
    BY <1>6 DEF Stages, IInv, RunGetsNoFrame, Runners
  <2> QED
    BY <1>6, <2>1, Closed DEF Stages
<1> QED
  BY <1>1, <1>2, <1>3, <1>4, <1>5, <1>6 DEF Collecting

LEMMA ToolsKeep ==
  ASSUME IInv, StartTool \/ EndTool \/ CopyImages
  PROVE  IInv'
<1>1. CASE StartTool
  BY <1>1, Opened DEF StartTool, node, Runners
<1>2. CASE EndTool
  BY <1>2, Closed DEF EndTool, node, Runners
<1>3. CASE CopyImages
  BY <1>3, CollectorsKept DEF CopyImages, collector, node
<1> QED
  BY <1>1, <1>2, <1>3

LEMMA ServingKeeps ==
  ASSUME IInv, Serving
  PROVE  IInv'
<1>1. CASE ServeRun
  BY <1>1, Opened DEF ServeRun, Serve, ThreadFree, node, Runners
<1>2. CASE ServeCalibrate
  BY <1>2, CollectorsKept DEF ServeCalibrate, collector
<1>3. CASE ServeHandEye
  BY <1>3, CollectorsKept DEF ServeHandEye, collector, node
<1>4. CASE ServeStop
  BY <1>4, CollectorsKept DEF ServeStop, collector, node
<1>5. CASE CalibrateThrows
  BY <1>5, CollectorsKept DEF CalibrateThrows, NodeGone, collector
<1> QED
  BY <1>1, <1>2, <1>3, <1>4, <1>5 DEF Serving

LEMMA NodeKeeps ==
  ASSUME IInv, \/ \E s \in Services : Ask(s)
               \/ SetParameters \/ Wait \/ NodeKilled \/ NodeStarts
  PROVE  IInv'
<1>1. ASSUME NEW s \in Services, Ask(s)
      PROVE  IInv'
  BY <1>1, CollectorsKept DEF Ask, collector, node
<1>2. CASE SetParameters
  BY <1>2, CollectorsKept DEF SetParameters, collector
<1>3. CASE NodeKilled
  BY <1>3, Closed DEF NodeKilled, NodeGone, Runners
<1>4. CASE NodeStarts
  BY <1>4, CollectorsKept DEF NodeStarts, collector
<1>5. CASE Wait
  BY <1>5, CollectorsKept DEF Wait, collector, node
<1> QED
  BY <1>1, <1>2, <1>3, <1>4, <1>5

LEMMA IInvInvariant == Spec => []IInv
<1>1. IInv /\ UNCHANGED vars => IInv'
  BY CollectorsKept DEF vars, collector, node
<1>2. IInv /\ [Next]_vars => IInv'
  BY <1>1, CollectingKeeps, ToolsKeep, ServingKeeps, NodeKeeps DEF Next
<1> QED
  BY <1>2, Initially, PTL DEF Spec

(* ~/run never gets a frame, so the node's collector never saves, its      *)
(* stages are never reached and ~/hand_eye never has poses.                *)
THEOREM RunNeverGetsFrame == Spec => []RunGetsNoFrame
<1>1. IInv => RunGetsNoFrame
  BY DEF IInv
<1> QED
  BY <1>1, IInvInvariant, PTL

(* Without a display no key is ever read: nothing is saved and the session *)
(* does not end by itself.                                                 *)
THEOREM HeadlessRunsOn == Spec => []HeadlessNeverEnds
<1>1. IInv => HeadlessNeverEnds
  BY DEF IInv
<1> QED
  BY <1>1, IInvInvariant, PTL

(* The node's collector never saves. *)
NodeSavesNothing == saved["node"] = <<>>

(* A session has not numbered more images than its folder has numbers for, *)
(* and the pose file has the rows of the frames since the last that was    *)
(* lost.                                                                   *)
FolderHoldsSession ==
  \A r \in Runners :
    /\ Len(saved[r]) <= Len(images[dir[r]])
    /\ \A i \in DOMAIN saved[r] :
         LoggedFrom(saved[r], i) => Len(saved[r]) - i < Len(csv[dir[r]])

(* Frames in a list are different ones, taken so far. *)
Different(captures) ==
  /\ \A i \in DOMAIN captures : captures[i].n <= taken
  /\ \A i, j \in DOMAIN captures : captures[i].n = captures[j].n => i = j

FramesDiffer == \A r \in Runners : Different(saved[r])

ResultsOfOthers ==
  \A d \in Dirs : result[d] # NoResult => AllOf(result[d].poses) # result[d].views

SessionInv ==
  /\ TypeOK
  /\ NodeSavesNothing
  /\ OnlyMovedImagesCount
  /\ FolderHoldsSession
  /\ FilesFollowSession
  /\ FramesDiffer
  /\ ResultsOfOthers

(***************************************************************************)
(* Types, the files of a session and the results.                          *)
(***************************************************************************)

DiskOK ==
  /\ made \in SUBSET Dirs
  /\ images \in [Dirs -> Seq(Captures)]
  /\ top \in [Dirs -> SUBSET Captures]
  /\ csv \in [Dirs -> Seq(Seq(Int))]
  /\ result \in [Dirs -> [poses : Seq(Captures), views : SUBSET Captures]]

CollectorOK ==
  /\ at \in [Runners -> {"off", "next", "key", "collected"}]
  /\ dir \in [Runners -> Dirs]
  /\ mode \in [Runners -> {"keys", "headless", "auto"}]
  /\ left \in [Runners -> 0..Waypoints]
  /\ frame \in [Runners -> BOOLEAN]
  /\ saved \in [Runners -> Seq(Captures)]

NodeOK ==
  /\ up \in BOOLEAN
  /\ cfgDir \in Dirs
  /\ views \in SUBSET Captures
  /\ armPoses \in Seq(Captures)

RestOK ==
  /\ taken \in 0..MaxCaptures
  /\ tour \in Tours
  /\ asked \in SUBSET Services
  /\ round \in SUBSET asked

LEMMA TypeParts == TypeOK <=> DiskOK /\ CollectorOK /\ NodeOK /\ RestOK
<1> QED
  BY DEF TypeOK, DiskOK, CollectorOK, NodeOK, RestOK

LEMMA PartsType == DiskOK' /\ CollectorOK' /\ NodeOK' /\ RestOK' => TypeOK'
<1> QED
  BY DEF TypeOK, DiskOK, CollectorOK, NodeOK, RestOK

LEMMA Empty ==
  ASSUME NEW S
  PROVE  <<>> \in Seq(S) /\ Len(<<>>) = 0 /\ DOMAIN <<>> = {}
<1> QED
  OBVIOUS

LEMMA OpenOK ==
  ASSUME TypeOK, NEW r \in Runners, NEW d \in Dirs,
         NEW m \in {"keys", "headless", "auto"}, Open(r, d, m)
  PROVE  CollectorOK' /\ made' \in SUBSET Dirs
<1>1. (IF m = "auto" THEN Waypoints ELSE 0) \in 0..Waypoints
  BY BoundsAssumption
<1> QED
  BY <1>1 DEF TypeOK, CollectorOK, Open

LEMMA CloseOK ==
  ASSUME TypeOK, NEW r \in Runners, Close(r)
  PROVE  CollectorOK'
<1>1. 0 \in 0..Waypoints /\ <<>> \in Seq(Captures) /\ DefaultDir \in Dirs
  BY BoundsAssumption, DirsAssumption, Empty
<1> QED
  BY <1>1 DEF TypeOK, CollectorOK, Close

(* The row of a frame is one of the pose file. *)
LEMMA RowOK ==
  ASSUME NEW c \in Captures
  PROVE  Row(c) \in Seq(Int)
<1>1. c.n \in Int /\ c.pose \in Seq(Int)
  BY BoundsAssumption, PosesAssumption DEF Captures
<1>2. <<c.n>> \in Seq(Int)
  BY <1>1
<1> QED
  BY <1>1, <1>2, ConcatProperties DEF Row

(* A frame under number k of a folder, over an older one or after the last; *)
(* if it is not written, what was there stays.                              *)
LEMMA Overwrite ==
  ASSUME NEW S, NEW q \in Seq(S), NEW k \in Nat, 0 < k, k <= Len(q) + 1, NEW c \in S,
         NEW written \in BOOLEAN,
         NEW x, x = IF k > Len(q) THEN Append(q, c)
                    ELSE IF written THEN [q EXCEPT ![k] = c] ELSE q
  PROVE  /\ x \in Seq(S) /\ Len(x) \in Nat /\ Len(q) <= Len(x) /\ k <= Len(x)
         /\ written => x[k] = c
         /\ \A i \in 1..Len(q) : i # k => x[i] = q[i]
<1>1. Len(q) \in Nat
  OBVIOUS
<1>2. CASE k <= Len(q) /\ written
  <2>1. k \in 1..Len(q) /\ x = [q EXCEPT ![k] = c]
    BY <1>1, <1>2
  <2>2. /\ x \in Seq(S) /\ Len(x) = Len(q)
        /\ \A j \in 1..Len(q) : x[j] = IF j = k THEN c ELSE q[j]
    BY <2>1, ExceptSeq
  <2> QED
    BY <1>1, <2>1, <2>2
<1>3. CASE ~(k <= Len(q))
  <2>1. k = Len(q) + 1 /\ x = Append(q, c)
    BY <1>1, <1>3
  <2>2. /\ x \in Seq(S) /\ Len(x) = Len(q) + 1
        /\ x[Len(q) + 1] = c /\ \A j \in 1..Len(q) : x[j] = q[j]
    BY <1>1, <2>1
  <2> QED
    BY <1>1, <2>1, <2>2
<1>4. CASE k <= Len(q) /\ ~written
  <2>1. x = q
    BY <1>1, <1>4
  <2> QED
    BY <1>1, <1>4, <2>1
<1> QED
  BY <1>2, <1>3, <1>4

LEMMA AppendFacts ==
  ASSUME NEW S, NEW q \in Seq(S), NEW c \in S
  PROVE  /\ Append(q, c) \in Seq(S) /\ Len(q) \in Nat /\ Len(Append(q, c)) = Len(q) + 1
         /\ Append(q, c)[Len(q) + 1] = c
         /\ \A i \in 1..Len(q) : Append(q, c)[i] = q[i]
<1> QED
  OBVIOUS

LEMMA Domains ==
  ASSUME NEW S, NEW q \in Seq(S)
  PROVE  Len(q) \in Nat /\ DOMAIN q = 1..Len(q) /\ \A i \in DOMAIN q : q[i] \in S
<1> QED
  OBVIOUS

(* What SaveWithPose does to the three lists. *)
Saved(r, c, x, z) ==
  /\ c.n = taken + 1 /\ c.image \in BOOLEAN /\ c.row \in BOOLEAN
  /\ saved' = [saved EXCEPT ![r] = Append(saved[r], c)]
  /\ csv' = [csv EXCEPT ![dir[r]] = z]
  /\ z = IF c.row THEN Append(csv[dir[r]], Row(c)) ELSE csv[dir[r]]
  /\ images' = [images EXCEPT ![dir[r]] = x]
  /\ x = IF Len(saved[r]) + 1 > Len(images[dir[r]])
         THEN Append(images[dir[r]], c)
         ELSE IF c.image
              THEN [images[dir[r]] EXCEPT ![Len(saved[r]) + 1] = c]
              ELSE images[dir[r]]

LEMMA SaveFacts ==
  ASSUME TypeOK, FolderHoldsSession,
         NEW r \in Runners, NEW board \in BOOLEAN, SaveWithPose(r, board)
  PROVE  /\ dir[r] \in Dirs
         /\ taken \in Nat /\ taken' = taken + 1 /\ taken' \in 0..MaxCaptures
         /\ \E c \in Captures, x \in Seq(Captures), z \in Seq(Seq(Int)) :
              Saved(r, c, x, z)
<1>1. /\ dir[r] \in Dirs /\ images[dir[r]] \in Seq(Captures) /\ saved[r] \in Seq(Captures)
      /\ csv[dir[r]] \in Seq(Seq(Int))
      /\ taken \in 0..MaxCaptures /\ tour \in Seq(Poses) /\ Len(tour) <= MaxCaptures
  BY ToursAssumption DEF TypeOK
<1>2. /\ taken < Len(tour) /\ MaxCaptures \in Nat /\ taken \in Nat
      /\ taken + 1 \in 1..Len(tour)
      /\ taken' = taken + 1 /\ taken + 1 \in 1..MaxCaptures /\ taken' \in 0..MaxCaptures
  BY <1>1, BoundsAssumption DEF SaveWithPose
<1> DEFINE C(image, row) == [n |-> taken + 1, pose |-> tour[taken + 1], board |-> board,
                             image |-> image, row |-> row]
           X(c) == IF Len(saved[r]) + 1 > Len(images[dir[r]])
                   THEN Append(images[dir[r]], c)
                   ELSE IF c.image
                        THEN [images[dir[r]] EXCEPT ![Len(saved[r]) + 1] = c]
                        ELSE images[dir[r]]
           Z(c) == IF c.row THEN Append(csv[dir[r]], Row(c)) ELSE csv[dir[r]]
<1>3. PICK image \in BOOLEAN, row \in BOOLEAN :
        /\ saved' = [saved EXCEPT ![r] = Append(saved[r], C(image, row))]
        /\ csv' = [csv EXCEPT ![dir[r]] =
                     IF row THEN Append(csv[dir[r]], Row(C(image, row))) ELSE csv[dir[r]]]
        /\ images' = [images EXCEPT ![dir[r]] =
                        IF Len(saved[r]) + 1 > Len(images[dir[r]])
                        THEN Append(images[dir[r]], C(image, row))
                        ELSE IF image
                             THEN [images[dir[r]] EXCEPT ![Len(saved[r]) + 1] = C(image, row)]
                             ELSE images[dir[r]]]
  BY <1>2 DEF SaveWithPose, Index, Log
<1> DEFINE c == C(image, row)
<1>4. /\ c \in Captures /\ c.n = taken + 1 /\ c.image = image /\ c.row = row
      /\ c.image \in BOOLEAN /\ c.row \in BOOLEAN
  BY <1>1, <1>2 DEF Captures
<1>5. /\ saved' = [saved EXCEPT ![r] = Append(saved[r], c)]
      /\ csv' = [csv EXCEPT ![dir[r]] = Z(c)]
      /\ images' = [images EXCEPT ![dir[r]] = X(c)]
  BY <1>3
<1> HIDE DEF c
<1>6. Len(saved[r]) \in Nat /\ Len(saved[r]) <= Len(images[dir[r]])
      /\ Len(images[dir[r]]) \in Nat
  BY <1>1, Domains DEF FolderHoldsSession
<1>7. X(c) \in Seq(Captures)
  <2>1. Len(saved[r]) + 1 \in Nat /\ 0 < Len(saved[r]) + 1
        /\ Len(saved[r]) + 1 <= Len(images[dir[r]]) + 1
    BY <1>6
  <2> QED
    BY <1>1, <1>4, <2>1, Overwrite
<1>8. Z(c) \in Seq(Seq(Int))
  BY <1>1, <1>4, RowOK, AppendFacts
<1> QED
  BY <1>1, <1>2, <1>4, <1>5, <1>7, <1>8 DEF Saved

LEMMA SaveOK ==
  ASSUME TypeOK, FolderHoldsSession,
         NEW r \in Runners, NEW board \in BOOLEAN, SaveWithPose(r, board)
  PROVE  /\ images' \in [Dirs -> Seq(Captures)]
         /\ csv' \in [Dirs -> Seq(Seq(Int))]
         /\ saved' \in [Runners -> Seq(Captures)]
         /\ taken' \in 0..MaxCaptures
<1>1. PICK c \in Captures, x \in Seq(Captures), z \in Seq(Seq(Int)) : Saved(r, c, x, z)
  BY SaveFacts
<1>2. saved[r] \in Seq(Captures) /\ dir[r] \in Dirs
  BY DEF TypeOK
<1>3. Append(saved[r], c) \in Seq(Captures)
  BY <1>2, AppendFacts
<1>4. saved' \in [Runners -> Seq(Captures)]
  BY <1>1, <1>3 DEF TypeOK, Saved
<1>5. csv' \in [Dirs -> Seq(Seq(Int))]
  BY <1>1 DEF TypeOK, Saved
<1>6. images' \in [Dirs -> Seq(Captures)]
  BY <1>1 DEF TypeOK, Saved
<1> QED
  BY <1>4, <1>5, <1>6, SaveFacts

(***************************************************************************)
(* The files of a session.                                                 *)
(***************************************************************************)

FilesPart ==
  NodeSavesNothing /\ FolderHoldsSession /\ FilesFollowSession /\ FramesDiffer

LEMMA FilesKept ==
  ASSUME FilesPart, UNCHANGED <<saved, dir, images, csv, taken>>
  PROVE  FilesPart'
<1>1. NodeSavesNothing' /\ FolderHoldsSession'
  BY DEF FilesPart, NodeSavesNothing, FolderHoldsSession, LoggedFrom
<1>2. FilesFollowSession'
  BY DEF FilesPart, FilesFollowSession, LoggedFrom, Row
<1>3. FramesDiffer'
  BY DEF FilesPart, FramesDiffer, Different
<1> QED
  BY <1>1, <1>2, <1>3 DEF FilesPart

(* What a folder has of the frames q of a session. *)
Holds(q, shots, rows) ==
  /\ Len(q) <= Len(shots)
  /\ \A i \in DOMAIN q :
       /\ q[i].image => i \in DOMAIN shots /\ shots[i] = q[i]
       /\ LoggedFrom(q, i) =>
            /\ Len(q) - i < Len(rows)
            /\ rows[Len(rows) - Len(q) + i] = Row(q[i])

LEMMA HoldsAll ==
  /\ FolderHoldsSession /\ FilesFollowSession
       <=> \A r \in Runners : Holds(saved[r], images[dir[r]], csv[dir[r]])
  /\ FolderHoldsSession' /\ FilesFollowSession'
       <=> \A r \in Runners : Holds(saved'[r], images'[dir'[r]], csv'[dir'[r]])
<1> QED
  BY DEF FolderHoldsSession, FilesFollowSession, Holds, LoggedFrom, Row

LEMMA HoldsNothing ==
  ASSUME NEW shots \in Seq(Captures), NEW rows
  PROVE  Holds(<<>>, shots, rows)
<1> QED
  BY Domains, Empty DEF Holds

(* A collector that comes or goes has nothing saved. *)
LEMMA FilesOfOthersKept ==
  ASSUME TypeOK, FilesPart, NEW r \in Runners,
         saved' \in [Runners -> Seq(Captures)], dir' \in [Runners -> Dirs],
         saved'[r] = <<>>,
         \A q \in Runners \ {r} : saved'[q] = saved[q] /\ dir'[q] = dir[q],
         UNCHANGED <<images, csv, taken>>
  PROVE  FilesPart'
<1>1. NodeSavesNothing'
  BY DEF FilesPart, NodeSavesNothing, Runners
<1>2. ASSUME NEW q \in Runners
      PROVE  Holds(saved'[q], images'[dir'[q]], csv'[dir'[q]])
  <2>1. CASE q = r
    BY <2>1, HoldsNothing DEF TypeOK
  <2>2. CASE q # r
    BY <2>2, HoldsAll DEF FilesPart
  <2> QED
    BY <2>1, <2>2
<1>3. FramesDiffer'
  <2>1. \A q \in Runners : Different(saved[q])'
    BY Empty DEF FilesPart, FramesDiffer, Different
  <2> QED
    BY <2>1 DEF FramesDiffer, Different
<1> QED
  BY <1>1, <1>2, <1>3, HoldsAll DEF FilesPart

LEMMA FilesClosed ==
  ASSUME TypeOK, FilesPart, NEW r \in Runners, Close(r), UNCHANGED <<images, csv, taken>>
  PROVE  FilesPart'
<1>1. saved' \in [Runners -> Seq(Captures)] /\ dir' \in [Runners -> Dirs]
  BY CloseOK DEF CollectorOK
<1>2. saved'[r] = <<>> /\ \A q \in Runners \ {r} : saved'[q] = saved[q] /\ dir'[q] = dir[q]
  BY DEF Close, TypeOK
<1> QED
  BY <1>1, <1>2, FilesOfOthersKept

LEMMA FilesOpened ==
  ASSUME TypeOK, FilesPart, IInv, NEW r \in Runners, NEW d \in Dirs,
         NEW m \in {"keys", "headless", "auto"}, Off(r), Open(r, d, m),
         UNCHANGED <<images, csv, taken>>
  PROVE  FilesPart'
<1>1. saved' \in [Runners -> Seq(Captures)] /\ dir' \in [Runners -> Dirs]
  BY OpenOK DEF CollectorOK
<1>2. saved'[r] = <<>> /\ \A q \in Runners \ {r} : saved'[q] = saved[q] /\ dir'[q] = dir[q]
  BY DEF Open, TypeOK, IInv
<1> QED
  BY <1>1, <1>2, FilesOfOthersKept

LEMMA Numbers ==
  ASSUME NEW q \in Seq(Captures)
  PROVE  /\ DOMAIN q = 1..Len(q) /\ Len(q) \in Nat
         /\ \A i \in 1..Len(q) : q[i] \in Captures /\ q[i].n \in Int
<1>1. \A c \in Captures : c.n \in Int
  BY BoundsAssumption DEF Captures
<1> QED
  BY <1>1, Domains

LEMMA LastRow ==
  ASSUME NEW l \in Nat, NEW s \in Nat, NEW i \in 1..s, s - i < l
  PROVE  /\ (l + 1) - (s + 1) + i = l - s + i /\ l - s + i \in 1..l
         /\ (s + 1) - i < l + 1
<1> QED
  OBVIOUS

(* A frame more: the folder holds the new list, whatever the disk took. *)
LEMMA HoldsOneMore ==
  ASSUME NEW q \in Seq(Captures), NEW shots \in Seq(Captures), NEW rows \in Seq(Seq(Int)),
         Holds(q, shots, rows), NEW c \in Captures, c.image \in BOOLEAN, c.row \in BOOLEAN,
         NEW x, x = IF Len(q) + 1 > Len(shots) THEN Append(shots, c)
                    ELSE IF c.image THEN [shots EXCEPT ![Len(q) + 1] = c] ELSE shots,
         NEW z, z = IF c.row THEN Append(rows, Row(c)) ELSE rows
  PROVE  Holds(Append(q, c), x, z)
<1> DEFINE s == Len(q)
           y == Append(q, c)
<1>1. /\ s \in Nat /\ Len(shots) \in Nat /\ Len(rows) \in Nat /\ s <= Len(shots)
      /\ DOMAIN q = 1..s
  BY Domains DEF Holds
<1>2. /\ y \in Seq(Captures) /\ Len(y) = s + 1 /\ y[s + 1] = c
      /\ \A i \in 1..s : y[i] = q[i]
      /\ DOMAIN y = 1..(s + 1)
  BY AppendFacts, Domains
<1>3. /\ x \in Seq(Captures) /\ Len(x) \in Nat /\ s + 1 <= Len(x)
      /\ c.image => x[s + 1] = c
      /\ Len(shots) <= Len(x)
      /\ \A i \in 1..Len(shots) : i # s + 1 => x[i] = shots[i]
  <2>1. s + 1 \in Nat /\ 0 < s + 1 /\ s + 1 <= Len(shots) + 1
    BY <1>1
  <2> QED
    BY <2>1, Overwrite
<1>4. DOMAIN x = 1..Len(x)
  BY <1>3, Domains
<1>5. c.row => /\ Len(z) = Len(rows) + 1 /\ z[Len(rows) + 1] = Row(c)
               /\ \A i \in 1..Len(rows) : z[i] = rows[i]
  BY RowOK, AppendFacts
<1> HIDE DEF s, y
<1>6. ASSUME NEW i \in 1..(s + 1), y[i].image
      PROVE  i \in DOMAIN x /\ x[i] = y[i]
  <2>1. CASE i = s + 1
    BY <1>1, <1>2, <1>3, <1>4, <1>6, <2>1
  <2>2. CASE i # s + 1
    <3>1. i \in 1..s /\ y[i] = q[i]
      BY <1>1, <1>2, <2>2
    <3>2. i \in DOMAIN shots /\ shots[i] = q[i]
      BY <1>1, <1>6, <3>1 DEF Holds
    <3>3. i \in 1..Len(shots)
      BY <3>2, Domains
    <3> QED
      BY <1>1, <1>3, <1>4, <2>2, <3>1, <3>2, <3>3
  <2> QED
    BY <2>1, <2>2
<1>7. ASSUME NEW i \in 1..(s + 1), LoggedFrom(y, i)
      PROVE  /\ Len(y) - i < Len(z)
             /\ z[Len(z) - Len(y) + i] = Row(y[i])
  <2>1. c.row
    BY <1>1, <1>2, <1>7 DEF LoggedFrom
  <2>2. /\ Len(z) = Len(rows) + 1 /\ z[Len(rows) + 1] = Row(c)
        /\ \A k \in 1..Len(rows) : z[k] = rows[k]
    BY <1>5, <2>1
  <2>3. CASE i = s + 1
    <3>1. (Len(rows) + 1) - (s + 1) + i = Len(rows) + 1 /\ (s + 1) - i < Len(rows) + 1
      BY <1>1, <2>3
    <3> QED
      BY <1>2, <2>2, <2>3, <3>1
  <2>4. CASE i # s + 1
    <3>1. i \in 1..s /\ y[i] = q[i]
      BY <1>1, <1>2, <2>4
    <3>2. LoggedFrom(q, i)
      <4> SUFFICES ASSUME NEW j \in i..s PROVE q[j].row
        BY DEF LoggedFrom, s
      <4>1. j \in 1..s /\ j \in i..(s + 1)
        BY <1>1, <3>1
      <4> QED
        BY <1>2, <1>7, <4>1 DEF LoggedFrom
    <3>3. s - i < Len(rows) /\ rows[Len(rows) - s + i] = Row(q[i])
      BY <1>1, <3>1, <3>2 DEF Holds, s
    <3>4. /\ (Len(rows) + 1) - (s + 1) + i = Len(rows) - s + i
          /\ Len(rows) - s + i \in 1..Len(rows)
          /\ (s + 1) - i < Len(rows) + 1
      BY <1>1, <3>1, <3>3, LastRow
    <3> QED
      BY <1>2, <2>2, <3>1, <3>3, <3>4
  <2> QED
    BY <2>3, <2>4
<1>8. Len(y) <= Len(x)
  BY <1>2, <1>3
<1> QED
  BY <1>2, <1>6, <1>7, <1>8 DEF Holds, y

(* A new frame is a different one. *)
LEMMA OneMoreDiffers ==
  ASSUME NEW q \in Seq(Captures), Different(q), NEW c \in Captures, taken \in Nat,
         c.n = taken + 1, taken' = taken + 1, saved'["tool"] = Append(q, c)
  PROVE  Different(saved["tool"])'
<1> DEFINE s == Len(q)
           y == Append(q, c)
<1>1. /\ s \in Nat /\ y[s + 1] = c /\ DOMAIN y = 1..(s + 1)
      /\ \A i \in 1..s : y[i] = q[i]
  BY AppendFacts, Domains
<1>2. /\ \A i \in 1..s : q[i] \in Captures /\ q[i].n \in Int /\ q[i].n <= taken
      /\ \A i, j \in 1..s : q[i].n = q[j].n => i = j
  BY Numbers DEF Different
<1> HIDE DEF s, y
<1>3. ASSUME NEW i \in 1..(s + 1)
      PROVE  y[i].n <= taken + 1 /\ (i # s + 1 => y[i].n <= taken)
  <2>1. CASE i = s + 1
    BY <1>1, <2>1
  <2>2. CASE i # s + 1
    <3>1. y[i] = q[i] /\ i \in 1..s
      BY <1>1, <2>2
    <3> QED
      BY <1>2, <2>2, <3>1
  <2> QED
    BY <2>1, <2>2
<1>4. ASSUME NEW i \in 1..(s + 1), NEW j \in 1..(s + 1), y[i].n = y[j].n
      PROVE  i = j
  <2>1. CASE i = s + 1 \/ j = s + 1
    BY <1>1, <1>2, <1>3, <1>4, <2>1
  <2>2. CASE i # s + 1 /\ j # s + 1
    BY <1>1, <1>2, <1>4, <2>2
  <2> QED
    BY <2>1, <2>2
<1> QED
  BY <1>1, <1>3, <1>4 DEF Different, y

(* A frame more, of the tool. *)
LEMMA FilesSaved ==
  ASSUME TypeOK, FilesPart, NEW board \in BOOLEAN, SaveWithPose("tool", board),
         UNCHANGED dir
  PROVE  FilesPart'
<1> DEFINE d == dir["tool"]
<1>1. "tool" \in Runners /\ FolderHoldsSession
  BY DEF Runners, FilesPart
<1>2. PICK c \in Captures, x \in Seq(Captures), z \in Seq(Seq(Int)) : Saved("tool", c, x, z)
  BY <1>1, SaveFacts
<1>3. /\ d \in Dirs /\ taken \in Nat /\ taken' = taken + 1
      /\ images[d] \in Seq(Captures) /\ csv[d] \in Seq(Seq(Int))
      /\ saved["tool"] \in Seq(Captures)
  BY <1>1, SaveFacts DEF TypeOK
<1>4. saved'["tool"] = Append(saved["tool"], c) /\ saved'["node"] = <<>>
  BY <1>1, <1>2 DEF TypeOK, Runners, Saved, FilesPart, NodeSavesNothing
<1>5. csv'[d] = z /\ images'[d] = x
  BY <1>2, <1>3 DEF TypeOK, Saved
<1>6. Holds(saved["tool"], images[d], csv[d])
  BY <1>1, HoldsAll DEF FilesPart
<1>7. Holds(Append(saved["tool"], c), x, z)
  BY <1>2, <1>3, <1>6, HoldsOneMore DEF Saved
<1>8. Holds(saved'["node"], images'[dir["node"]], csv'[dir["node"]])
  <2>1. images'[dir["node"]] \in Seq(Captures)
    BY <1>1, SaveOK DEF TypeOK, Runners
  <2> QED
    BY <1>4, <2>1, HoldsNothing
<1>9. FolderHoldsSession' /\ FilesFollowSession'
  BY <1>4, <1>5, <1>7, <1>8, HoldsAll DEF Runners
<1>10. FramesDiffer'
  <2>1. Different(saved["tool"])'
    BY <1>1, <1>2, <1>3, <1>4, OneMoreDiffers DEF FilesPart, FramesDiffer, Saved
  <2>2. Different(saved["node"])'
    BY <1>4, Empty DEF Different
  <2> QED
    BY <2>1, <2>2 DEF FramesDiffer, Different, Runners
<1> QED
  BY <1>4, <1>9, <1>10 DEF FilesPart, NodeSavesNothing

(***************************************************************************)
(* The results.                                                            *)
(***************************************************************************)

(* Frames that are all different are as many as their list is long. *)
LEMMA DifferentCounted ==
  ASSUME NEW q \in Seq(Captures), Different(q)
  PROVE  Cardinality(AllOf(q)) = Len(q)
<1>1. DOMAIN q = 1..Len(q) /\ Len(q) \in Nat /\ 1 \in Int
  BY Domains
<1>2. q \in [1..Len(q) -> AllOf(q)]
  BY <1>1 DEF AllOf
<1>3. \A i, j \in 1..Len(q) : q[i] = q[j] => i = j
  BY <1>1 DEF Different
<1>4. \A c \in AllOf(q) : \E i \in 1..Len(q) : q[i] = c
  BY <1>1 DEF AllOf
<1>5. q \in Bijection(1..Len(q), AllOf(q))
  BY <1>2, <1>3, <1>4 DEF Bijection, Injection, Surjection, IsInjective
<1>6. ExistsBijection(1..Len(q), AllOf(q))
  BY <1>5 DEF ExistsBijection
<1>7. IsFiniteSet(1..Len(q)) /\ Cardinality(1..Len(q)) = Len(q)
  BY <1>1, FS_Interval
<1> QED
  BY <1>6, <1>7, FS_Bijection

LEMMA ThreeMotions ==
  ASSUME NEW n \in Nat, n >= 2, n - 1 >= 3
  PROVE  n # n - 1 /\ n # 0
<1> QED
  OBVIOUS

LEMMA MotionsCounted ==
  ASSUME NEW p, Len(p) \in Nat, NEW seen, Accepts(Motions(p), seen)
  PROVE  Cardinality(seen) # Len(p) /\ Len(p) # 0
<1>1. Len(Motions(p)) >= 3 /\ Cardinality(seen) = Len(Motions(p))
  BY DEF Accepts
<1>2. CASE Len(p) < 2
  <2>1. Len(Motions(p)) = 0
    BY <1>2, Empty DEF Motions
  <2> QED
    BY <1>1, <2>1
<1>3. CASE ~(Len(p) < 2)
  <2> DEFINE m == [i \in 1..(Len(p) - 1) |-> <<p[i], p[i + 1]>>]
  <2>1. Motions(p) = m
    BY <1>3 DEF Motions
  <2>2. Len(p) - 1 \in Nat
    BY <1>3
  <2>3. Len(m) = Len(p) - 1
    BY <2>2
  <2> HIDE DEF m
  <2>4. Len(p) - 1 >= 3 /\ Cardinality(seen) = Len(p) - 1
    BY <1>1, <2>1, <2>3
  <2> QED
    BY <1>3, <2>4, ThreeMotions
<1> QED
  BY <1>2, <1>3

LEMMA PosesCounted ==
  ASSUME NEW q \in Seq(Captures)
  PROVE  Len(PosesOf(q)) = Len(q) /\ Len(PosesOf(q)) \in Nat
<1>1. DOMAIN q = 1..Len(q) /\ Len(q) \in Nat
  BY Domains
<1> QED
  BY <1>1 DEF PosesOf

LEMMA RowsCounted ==
  ASSUME NEW rows \in Seq(Seq(Int))
  PROVE  Len(LoadPoses(rows)) = Len(rows) /\ Len(LoadPoses(rows)) \in Nat
<1>1. DOMAIN rows = 1..Len(rows) /\ Len(rows) \in Nat
  BY Domains
<1> QED
  BY <1>1 DEF LoadPoses

(* What is solved is not the poses and the views of the same frames. *)
LEMMA SolvedFromOthers ==
  ASSUME NEW q \in Seq(Captures), Different(q), NEW seen, Solvable(PosesOf(q), seen)
  PROVE  AllOf(q) # seen /\ q # <<>>
<1>1. Cardinality(AllOf(q)) = Len(q) /\ Len(PosesOf(q)) = Len(q) /\ Len(q) \in Nat
  BY DifferentCounted, PosesCounted
<1>2. Cardinality(seen) # Len(q) /\ Len(q) # 0
  BY <1>1, MotionsCounted DEF Solvable
<1> QED
  BY <1>1, <1>2, Empty

ResultPart == OnlyMovedImagesCount /\ ResultsOfOthers

LEMMA ResultKept ==
  ASSUME ResultPart, UNCHANGED <<result, top>>, views' = views \/ views' = {}
  PROVE  ResultPart'
<1>1. OnlyMovedImagesCount'
  BY DEF ResultPart, OnlyMovedImagesCount
<1>2. ResultsOfOthers'
  BY DEF ResultPart, ResultsOfOthers, AllOf
<1> QED
  BY <1>1, <1>2 DEF ResultPart

(* A result of views that are there, from different frames. *)
LEMMA ResultSolved ==
  ASSUME TypeOK, ResultPart, NEW d \in Dirs, NEW poses \in Seq(Captures), Different(poses),
         NEW seen, seen # {} => top[d] # {}, Solve(d, poses, seen),
         UNCHANGED <<top, views>>
  PROVE  ResultPart'
<1>1. CASE result' = result
  BY <1>1, ResultKept
<1>2. CASE /\ seen # {} /\ Solvable(PosesOf(poses), seen)
           /\ result' = [result EXCEPT ![d] = [poses |-> poses, views |-> seen]]
  <2>1. AllOf(poses) # seen /\ top[d] # {}
    BY <1>2, SolvedFromOthers
  <2>2. /\ result'[d] = [poses |-> poses, views |-> seen]
        /\ \A e \in Dirs \ {d} : result'[e] = result[e]
    BY <1>2 DEF TypeOK
  <2>3. result'[d].poses = poses /\ result'[d].views = seen
    BY <2>2
  <2>4. OnlyMovedImagesCount'
    BY <2>1, <2>2 DEF ResultPart, OnlyMovedImagesCount
  <2>5. ResultsOfOthers'
    <3> SUFFICES ASSUME NEW e \in Dirs, result'[e] # NoResult
                 PROVE  AllOf(result'[e].poses) # result'[e].views
      BY DEF ResultsOfOthers, AllOf, NoResult
    <3>1. CASE e = d
      BY <2>1, <2>3, <3>1
    <3>2. CASE e # d
      BY <2>2, <3>2 DEF ResultPart, ResultsOfOthers
    <3> QED
      BY <3>1, <3>2
  <2> QED
    BY <2>4, <2>5 DEF ResultPart
<1> QED
  BY <1>1, <1>2, Zenon DEF Solve

LEMMA BoardsOfImages ==
  ASSUME NEW shots, Boards(shots) # {}
  PROVE  shots # {}
<1> QED
  BY DEF Boards

(* The stages of the tool.  Those of the node are never reached. *)
LEMMA StagesResult ==
  ASSUME TypeOK, IInv, FilesPart, ResultPart, NEW r \in Runners, Stages(r)
  PROVE  ResultPart'
<1>1. r = "tool"
  BY DEF Stages, IInv, RunGetsNoFrame, Runners
<1>2. /\ dir[r] \in Dirs /\ saved[r] \in Seq(Captures) /\ Different(saved[r])
      /\ Solve(dir[r], saved[r], StageViews(r)) /\ UNCHANGED <<top, views>>
  BY <1>1 DEF TypeOK, FilesPart, FramesDiffer, Stages
<1>3. StageViews(r) # {} => top[dir[r]] # {}
  BY <1>1, BoardsOfImages DEF StageViews
<1> QED
  BY <1>2, <1>3, ResultSolved

(* The node has no poses to solve from. *)
LEMMA HandEyeResult ==
  ASSUME TypeOK, IInv, ResultPart, ServeHandEye
  PROVE  ResultPart'
<1>1. armPoses = <<>> /\ armPoses \in Seq(Captures) /\ UNCHANGED <<top, views>>
  BY DEF IInv, RunGetsNoFrame, TypeOK, ServeHandEye, node
<1>2. Different(armPoses)
  BY <1>1, Empty DEF Different
<1>3. ~Solvable(PosesOf(armPoses), views)
  BY <1>1, <1>2, SolvedFromOthers
<1>4. result' = result
  BY <1>3, Zenon DEF ServeHandEye, Solve
<1> QED
  BY <1>1, <1>4, ResultKept

LEMMA CalibrateResult ==
  ASSUME TypeOK, ResultPart, ServeCalibrate
  PROVE  ResultPart'
<1>1. UNCHANGED <<result, top>> /\ cfgDir \in Dirs
  BY DEF ServeCalibrate, disk, TypeOK
<1>2. CASE views' = views
  BY <1>1, <1>2, ResultKept
<1>3. CASE views' = Boards(top[cfgDir])
  <2>1. views' # {} => top[cfgDir] # {}
    BY <1>3, BoardsOfImages
  <2>2. OnlyMovedImagesCount'
    BY <1>1, <2>1 DEF ResultPart, OnlyMovedImagesCount
  <2>3. ResultsOfOthers'
    BY <1>1 DEF ResultPart, ResultsOfOthers, AllOf
  <2> QED
    BY <2>2, <2>3 DEF ResultPart
<1> QED
  BY <1>2, <1>3 DEF ServeCalibrate

LEMMA CopyResult ==
  ASSUME TypeOK, ResultPart, CopyImages
  PROVE  ResultPart'
<1>1. PICK d \in Dirs : Shots(d) # {} /\ top' = [top EXCEPT ![d] = Shots(d)]
  BY DEF CopyImages
<1>2. top'[d] # {} /\ \A e \in Dirs \ {d} : top'[e] = top[e]
  BY <1>1 DEF TypeOK
<1>3. UNCHANGED <<result, views>>
  BY DEF CopyImages, node
<1>4. OnlyMovedImagesCount'
  BY <1>2, <1>3 DEF ResultPart, OnlyMovedImagesCount
<1>5. ResultsOfOthers'
  BY <1>3 DEF ResultPart, ResultsOfOthers, AllOf
<1> QED
  BY <1>4, <1>5 DEF ResultPart

(***************************************************************************)
(* The steps.                                                              *)
(***************************************************************************)

SessionParts == TypeOK /\ FilesPart /\ ResultPart

LEMMA SessionByParts ==
  /\ SessionInv <=> SessionParts
  /\ SessionParts' => SessionInv'
<1> QED
  BY DEF SessionInv, SessionParts, FilesPart, ResultPart

LEMMA SessionInitially == Init => SessionInv
<1> SUFFICES ASSUME Init PROVE SessionInv
  OBVIOUS
<1>1. \A S : <<>> \in Seq(S)
  OBVIOUS
<1>2. DiskOK
  <2>1. NoResult \in [poses : Seq(Captures), views : SUBSET Captures]
    BY <1>1 DEF NoResult
  <2> QED
    BY <1>1, <2>1 DEF Init, DiskOK
<1>3. CollectorOK
  BY <1>1, BoundsAssumption, DirsAssumption DEF Init, CollectorOK
<1>4. NodeOK
  BY <1>1, DirsAssumption DEF Init, NodeOK
<1>5. RestOK
  BY BoundsAssumption DEF Init, RestOK
<1>6. TypeOK
  BY <1>2, <1>3, <1>4, <1>5, TypeParts
<1>7. /\ \A r \in Runners : saved[r] = <<>> /\ dir[r] = DefaultDir
      /\ \A d \in Dirs : images[d] = <<>> /\ csv[d] = <<>> /\ result[d] = NoResult
      /\ DefaultDir \in Dirs /\ views = {}
  BY DirsAssumption DEF Init
<1>8. FilesPart
  <2>1. NodeSavesNothing /\ FramesDiffer
    BY <1>7, Empty DEF NodeSavesNothing, FramesDiffer, Different, Runners
  <2>2. \A r \in Runners : Holds(saved[r], images[dir[r]], csv[dir[r]])
    BY <1>1, <1>7, HoldsNothing
  <2> QED
    BY <2>1, <2>2, HoldsAll DEF FilesPart
<1>9. ResultPart
  BY <1>7 DEF ResultPart, OnlyMovedImagesCount, ResultsOfOthers
<1> QED
  BY <1>6, <1>8, <1>9, SessionByParts DEF SessionParts

(* A frame in hand, a key or none: nothing is saved. *)
LEMMA AtKept ==
  ASSUME SessionParts, NEW r \in Runners,
         NEW a \in {"next", "key", "collected"}, NEW b \in BOOLEAN,
         at' = [at EXCEPT ![r] = a],
         frame' = [frame EXCEPT ![r] = b] \/ frame' = frame,
         UNCHANGED <<disk, dir, mode, left, saved, taken, tour, node, calls>>
  PROVE  SessionParts'
<1>1. CollectorOK'
  BY DEF SessionParts, TypeOK, CollectorOK
<1>2. DiskOK' /\ NodeOK' /\ RestOK'
  BY DEF SessionParts, TypeOK, DiskOK, NodeOK, RestOK, disk, node, calls
<1>3. FilesPart' /\ ResultPart'
  BY FilesKept, ResultKept DEF SessionParts, disk, node
<1> QED
  BY <1>1, <1>2, <1>3, PartsType DEF SessionParts

LEMMA GrabKeeps ==
  ASSUME SessionParts, NEW r \in Runners, Grab(r)
  PROVE  SessionParts'
<1> QED
  BY AtKept DEF Grab

LEMMA KeyOtherKeeps ==
  ASSUME SessionParts, NEW r \in Runners, KeyOther(r)
  PROVE  SessionParts'
<1> QED
  BY AtKept DEF KeyOther

LEMMA VisitsDoneKeeps ==
  ASSUME SessionParts, NEW r \in Runners, VisitsDone(r)
  PROVE  SessionParts'
<1>1. TRUE \in BOOLEAN
  OBVIOUS
<1> QED
  BY <1>1, AtKept DEF VisitsDone

(* Only the tool has a frame to save. *)
LEMMA KeySaveKeeps ==
  ASSUME SessionParts, IInv, NEW r \in Runners, KeySave(r)
  PROVE  SessionParts'
<1>1. r = "tool"
  BY DEF KeySave, HasKey, IInv, RunGetsNoFrame, Runners
<1>2. /\ frame[r] \in BOOLEAN /\ SaveWithPose(r, frame[r])
      /\ UNCHANGED <<made, top, result, dir, mode, left, tour, node, calls>>
      /\ TypeOK /\ FolderHoldsSession /\ FilesPart /\ ResultPart
  BY DEF KeySave, SessionParts, TypeOK, FilesPart
<1>3. CollectorOK'
  BY <1>2, SaveOK DEF KeySave, TypeOK, CollectorOK
<1>4. DiskOK' /\ NodeOK' /\ RestOK'
  BY <1>2, SaveOK DEF TypeOK, DiskOK, NodeOK, RestOK, node, calls
<1>5. FilesPart'
  BY <1>1, <1>2, FilesSaved
<1>6. ResultPart'
  BY <1>2, ResultKept DEF node
<1> QED
  BY <1>3, <1>4, <1>5, <1>6, PartsType DEF SessionParts

LEMMA VisitKeeps ==
  ASSUME SessionParts, IInv, NEW r \in Runners, Visit(r)
  PROVE  SessionParts'
<1>1. r = "tool"
  BY DEF Visit, WaypointLeft, IInv, Runners
<1>2. /\ UNCHANGED <<made, top, result, at, dir, mode, frame, tour, node, calls>>
      /\ TypeOK /\ FolderHoldsSession /\ FilesPart /\ ResultPart /\ TRUE \in BOOLEAN
      /\ UNCHANGED <<saved, images, csv, taken>> \/ SaveWithPose(r, TRUE)
  BY DEF Visit, SessionParts, FilesPart
<1>3. left' \in [Runners -> 0..Waypoints]
  <2>1. left[r] - 1 \in 0..Waypoints
    BY <1>2, BoundsAssumption DEF Visit, WaypointLeft, TypeOK
  <2> QED
    BY <1>2, <2>1 DEF Visit, TypeOK
<1>4. /\ images' \in [Dirs -> Seq(Captures)] /\ csv' \in [Dirs -> Seq(Seq(Int))]
      /\ saved' \in [Runners -> Seq(Captures)] /\ taken' \in 0..MaxCaptures
  <2>1. CASE UNCHANGED <<saved, images, csv, taken>>
    BY <1>2, <2>1 DEF TypeOK
  <2>2. CASE SaveWithPose(r, TRUE)
    BY <1>2, <2>2, SaveOK
  <2> QED
    BY <1>2, <2>1, <2>2
<1>5. CollectorOK'
  BY <1>2, <1>3, <1>4 DEF TypeOK, CollectorOK
<1>6. DiskOK' /\ NodeOK' /\ RestOK'
  BY <1>2, <1>4 DEF TypeOK, DiskOK, NodeOK, RestOK, node, calls
<1>7. FilesPart'
  BY <1>1, <1>2, FilesKept, FilesSaved
<1>8. ResultPart'
  BY <1>2, ResultKept DEF node
<1> QED
  BY <1>5, <1>6, <1>7, <1>8, PartsType DEF SessionParts

LEMMA ViewsTyped ==
  ASSUME TypeOK, NEW d \in Dirs
  PROVE  Boards(top[d]) \in SUBSET Captures
<1> QED
  BY DEF TypeOK, Boards

LEMMA SolveTyped ==
  ASSUME TypeOK, NEW d \in Dirs, NEW poses \in Seq(Captures), NEW seen \in SUBSET Captures,
         Solve(d, poses, seen)
  PROVE  result' \in [Dirs -> [poses : Seq(Captures), views : SUBSET Captures]]
<1>1. CASE result' = result
  BY <1>1 DEF TypeOK
<1>2. CASE result' = [result EXCEPT ![d] = [poses |-> poses, views |-> seen]]
  <2>1. [poses |-> poses, views |-> seen] \in [poses : Seq(Captures), views : SUBSET Captures]
    OBVIOUS
  <2> QED
    BY <1>2, <2>1 DEF TypeOK
<1> QED
  BY <1>1, <1>2, Zenon DEF Solve

LEMMA StagesKeeps ==
  ASSUME SessionParts, IInv, NEW r \in Runners, Stages(r)
  PROVE  SessionParts'
<1>1. r = "tool"
  BY DEF Stages, IInv, RunGetsNoFrame, Runners
<1>2. /\ UNCHANGED <<made, images, top, csv, taken, tour, up, cfgDir, calls, views, armPoses>>
      /\ Close(r) /\ Solve(dir[r], saved[r], StageViews(r))
      /\ TypeOK /\ FilesPart /\ ResultPart /\ dir[r] \in Dirs /\ saved[r] \in Seq(Captures)
  BY <1>1 DEF Stages, SessionParts, TypeOK
<1>3. StageViews(r) \in SUBSET Captures
  BY <1>1, <1>2, ViewsTyped DEF StageViews
<1>4. DiskOK'
  BY <1>2, <1>3, SolveTyped DEF TypeOK, DiskOK
<1>5. CollectorOK'
  BY <1>2, CloseOK
<1>6. NodeOK' /\ RestOK'
  BY <1>2 DEF TypeOK, NodeOK, RestOK, calls
<1>7. FilesPart'
  BY <1>2, FilesClosed
<1>8. ResultPart'
  BY <1>2, StagesResult
<1> QED
  BY <1>4, <1>5, <1>6, <1>7, <1>8, PartsType DEF SessionParts

LEMMA StartToolKeeps ==
  ASSUME SessionParts, IInv, StartTool
  PROVE  SessionParts'
<1>1. PICK d \in ToolDirs, m \in {"keys", "headless", "auto"} : Open("tool", d, m)
  BY DEF StartTool
<1>2. /\ "tool" \in Runners /\ d \in Dirs /\ Off("tool") /\ TypeOK /\ FilesPart /\ ResultPart
      /\ UNCHANGED <<images, top, csv, result, taken, tour, node, calls>>
  BY DirsAssumption DEF StartTool, Runners, SessionParts
<1>3. CollectorOK' /\ made' \in SUBSET Dirs
  BY <1>1, <1>2, OpenOK
<1>4. DiskOK' /\ NodeOK' /\ RestOK'
  BY <1>2, <1>3 DEF TypeOK, DiskOK, NodeOK, RestOK, node, calls
<1>5. FilesPart'
  BY <1>1, <1>2, FilesOpened
<1>6. ResultPart'
  BY <1>2, ResultKept DEF node
<1> QED
  BY <1>3, <1>4, <1>5, <1>6, PartsType DEF SessionParts

LEMMA EndToolKeeps ==
  ASSUME SessionParts, EndTool
  PROVE  SessionParts'
<1>1. /\ "tool" \in Runners /\ Close("tool") /\ TypeOK /\ FilesPart /\ ResultPart
      /\ UNCHANGED <<disk, taken, tour, node, calls>>
  BY DEF EndTool, Runners, SessionParts
<1>2. CollectorOK'
  BY <1>1, CloseOK
<1>3. DiskOK' /\ NodeOK' /\ RestOK'
  BY <1>1 DEF TypeOK, DiskOK, NodeOK, RestOK, disk, node, calls
<1>4. FilesPart'
  BY <1>1, FilesClosed DEF disk
<1>5. ResultPart'
  BY <1>1, ResultKept DEF disk, node
<1> QED
  BY <1>2, <1>3, <1>4, <1>5, PartsType DEF SessionParts

LEMMA CopyImagesKeeps ==
  ASSUME SessionParts, CopyImages
  PROVE  SessionParts'
<1>1. /\ TypeOK /\ FilesPart /\ ResultPart
      /\ UNCHANGED <<made, images, csv, result, collector, taken, tour, node, calls>>
  BY DEF CopyImages, SessionParts
<1>2. top' \in [Dirs -> SUBSET Captures]
  <2>1. PICK d \in Dirs : top' = [top EXCEPT ![d] = Shots(d)]
    BY DEF CopyImages
  <2>2. Shots(d) \in SUBSET Captures
    BY <1>1, Domains DEF TypeOK, Shots
  <2> QED
    BY <1>1, <2>1, <2>2 DEF TypeOK
<1>3. CollectorOK' /\ DiskOK' /\ NodeOK' /\ RestOK'
  BY <1>1, <1>2 DEF TypeOK, CollectorOK, DiskOK, NodeOK, RestOK, collector, node, calls
<1>4. FilesPart'
  BY <1>1, FilesKept DEF collector
<1>5. ResultPart'
  BY <1>1, CopyResult
<1> QED
  BY <1>3, <1>4, <1>5, PartsType DEF SessionParts

(* The node alone: its folder, its views and poses, and who waits for it. *)
LEMMA NodeAlone ==
  ASSUME SessionParts, UNCHANGED <<disk, collector, taken, tour>>, NodeOK',
         asked' \in SUBSET Services, round' \in SUBSET asked', views' = views \/ views' = {}
  PROVE  SessionParts'
<1>1. CollectorOK' /\ DiskOK' /\ RestOK'
  BY DEF SessionParts, TypeOK, CollectorOK, DiskOK, RestOK, disk, collector
<1>2. FilesPart' /\ ResultPart'
  BY FilesKept, ResultKept DEF SessionParts, disk, collector
<1> QED
  BY <1>1, <1>2, PartsType DEF SessionParts

LEMMA ServeRunKeeps ==
  ASSUME SessionParts, IInv, ServeRun
  PROVE  SessionParts'
<1>1. /\ "node" \in Runners /\ cfgDir \in Dirs /\ Off("node") /\ Open("node", cfgDir, "keys")
      /\ TypeOK /\ FilesPart /\ ResultPart
      /\ asked' \in SUBSET Services /\ round' \in SUBSET asked'
      /\ UNCHANGED <<images, top, csv, result, taken, tour, node>>
  BY DEF ServeRun, Serve, ThreadFree, Runners, SessionParts, TypeOK
<1>2. CollectorOK' /\ made' \in SUBSET Dirs
  BY <1>1, OpenOK
<1>3. DiskOK' /\ NodeOK' /\ RestOK'
  BY <1>1, <1>2 DEF TypeOK, DiskOK, NodeOK, RestOK, node
<1>4. FilesPart'
  BY <1>1, FilesOpened
<1>5. ResultPart'
  BY <1>1, ResultKept DEF node
<1> QED
  BY <1>2, <1>3, <1>4, <1>5, PartsType DEF SessionParts

LEMMA ServeCalibrateKeeps ==
  ASSUME SessionParts, ServeCalibrate
  PROVE  SessionParts'
<1>1. /\ TypeOK /\ FilesPart /\ ResultPart /\ cfgDir \in Dirs
      /\ asked' \in SUBSET Services /\ round' \in SUBSET asked'
      /\ UNCHANGED <<disk, collector, taken, tour, up, cfgDir, armPoses>>
  BY DEF ServeCalibrate, Serve, SessionParts, TypeOK
<1>2. views' \in SUBSET Captures
  BY <1>1, ViewsTyped DEF ServeCalibrate, TypeOK
<1>3. CollectorOK' /\ DiskOK' /\ NodeOK' /\ RestOK'
  BY <1>1, <1>2 DEF TypeOK, CollectorOK, DiskOK, NodeOK, RestOK, disk, collector
<1>4. FilesPart'
  BY <1>1, FilesKept DEF disk, collector
<1>5. ResultPart'
  BY <1>1, CalibrateResult
<1> QED
  BY <1>3, <1>4, <1>5, PartsType DEF SessionParts

LEMMA ServeHandEyeKeeps ==
  ASSUME SessionParts, IInv, ServeHandEye
  PROVE  SessionParts'
<1>1. /\ TypeOK /\ FilesPart /\ ResultPart /\ cfgDir \in Dirs
      /\ asked' \in SUBSET Services /\ round' \in SUBSET asked'
      /\ UNCHANGED <<made, images, top, csv, collector, taken, tour, node>>
      /\ Solve(cfgDir, armPoses, views) /\ armPoses \in Seq(Captures)
      /\ views \in SUBSET Captures
  BY DEF ServeHandEye, Serve, SessionParts, TypeOK
<1>2. DiskOK'
  BY <1>1, SolveTyped DEF TypeOK, DiskOK
<1>3. CollectorOK' /\ NodeOK' /\ RestOK'
  BY <1>1 DEF TypeOK, CollectorOK, NodeOK, RestOK, collector, node
<1>4. FilesPart'
  BY <1>1, FilesKept DEF collector
<1>5. ResultPart'
  BY <1>1, HandEyeResult
<1> QED
  BY <1>2, <1>3, <1>4, <1>5, PartsType DEF SessionParts

LEMMA NodeGoneOK ==
  ASSUME NodeGone
  PROVE  NodeOK' /\ asked' = {} /\ round' = {} /\ views' = {}
<1> QED
  BY Empty, DirsAssumption DEF NodeGone, NodeOK

LEMMA NodeKilledKeeps ==
  ASSUME SessionParts, NodeKilled
  PROVE  SessionParts'
<1>1. /\ "node" \in Runners /\ Close("node") /\ NodeGone /\ TypeOK /\ FilesPart /\ ResultPart
      /\ UNCHANGED <<disk, taken, tour>>
  BY DEF NodeKilled, Runners, SessionParts
<1>2. CollectorOK' /\ NodeOK'
  BY <1>1, CloseOK, NodeGoneOK
<1>3. DiskOK' /\ RestOK'
  BY <1>1, NodeGoneOK DEF TypeOK, DiskOK, RestOK, disk
<1>4. FilesPart'
  BY <1>1, FilesClosed DEF disk
<1>5. ResultPart'
  BY <1>1, NodeGoneOK, ResultKept DEF disk
<1> QED
  BY <1>2, <1>3, <1>4, <1>5, PartsType DEF SessionParts

LEMMA NodeAloneSteps ==
  ASSUME SessionParts,
         \/ \E s \in Services : Ask(s)
         \/ SetParameters \/ Wait \/ ServeStop \/ CalibrateThrows \/ NodeStarts
         \/ UNCHANGED vars
  PROVE  SessionParts'
<1>1. NodeOK /\ RestOK
  BY TypeParts DEF SessionParts
<1>2. ASSUME NEW s \in Services, Ask(s) PROVE SessionParts'
  BY <1>1, <1>2, NodeAlone DEF Ask, NodeOK, RestOK, node
<1>3. CASE SetParameters
  BY <1>1, <1>3, NodeAlone DEF SetParameters, NodeOK, RestOK, calls
<1>4. CASE ServeStop
  BY <1>1, <1>4, NodeAlone DEF ServeStop, Serve, NodeOK, RestOK, node
<1>5. CASE CalibrateThrows
  BY <1>5, NodeGoneOK, NodeAlone DEF CalibrateThrows
<1>6. CASE NodeStarts
  BY <1>1, <1>6, NodeAlone DEF NodeStarts, NodeOK, RestOK, calls
<1>7. CASE UNCHANGED vars
  BY <1>1, <1>7, NodeAlone DEF vars, NodeOK, RestOK, node, calls
<1>8. CASE Wait
  BY <1>1, <1>8, NodeAlone DEF Wait, NodeOK, RestOK, node
<1> QED
  BY <1>2, <1>3, <1>4, <1>5, <1>6, <1>7, <1>8

LEMMA SessionNext == IInv /\ SessionInv /\ [Next]_vars => SessionInv'
<1> SUFFICES ASSUME IInv, SessionParts, [Next]_vars PROVE SessionParts'
  BY SessionByParts
<1>1. ASSUME NEW r \in Runners, Collecting(r) PROVE SessionParts'
  BY <1>1, GrabKeeps, KeySaveKeeps, KeyOtherKeeps, VisitKeeps, VisitsDoneKeeps, StagesKeeps
  DEF Collecting
<1>2. CASE StartTool \/ EndTool \/ CopyImages
  BY <1>2, StartToolKeeps, EndToolKeeps, CopyImagesKeeps
<1>3. CASE Serving
  BY <1>3, ServeRunKeeps, ServeCalibrateKeeps, ServeHandEyeKeeps, NodeAloneSteps DEF Serving
<1>4. CASE \/ \E s \in Services : Ask(s)
           \/ SetParameters \/ Wait \/ NodeStarts \/ UNCHANGED vars
  BY <1>4, NodeAloneSteps
<1>5. CASE NodeKilled
  BY <1>5, NodeKilledKeeps
<1> QED
  BY <1>1, <1>2, <1>3, <1>4, <1>5 DEF Next

LEMMA SessionInvariant == Spec => []SessionInv
<1> QED
  BY IInvInvariant, SessionInitially, SessionNext, PTL DEF Spec

(* TypeOK holds: folders, collectors and node keep what their programs do. *)
THEOREM TypeCorrect == Spec => []TypeOK
<1>1. SessionInv => TypeOK
  BY DEF SessionInv
<1> QED
  BY <1>1, SessionInvariant, PTL

(* FilesFollowSession holds, whatever earlier sessions have left there and  *)
(* whichever writes fail: frame i of a session is under number i - 1 if its *)
(* image was written, and the frames since the last row that was lost are   *)
(* the last rows of the pose file (collector.cpp numbers the images and     *)
(* capture.cpp appends the rows, or returns without).                       *)
THEOREM FilesAlwaysFollow == Spec => []FilesFollowSession
<1>1. SessionInv => FilesFollowSession
  BY DEF SessionInv
<1> QED
  BY <1>1, SessionInvariant, PTL

(* OnlyMovedImagesCount holds: no stage finds an image of a session where  *)
(* the collector has put it.                                               *)
THEOREM OnlyMovedImagesEverCount == Spec => []OnlyMovedImagesCount
<1>1. SessionInv => OnlyMovedImagesCount
  BY DEF SessionInv
<1> QED
  BY <1>1, SessionInvariant, PTL

(* CompleteSessionUnsolved holds: with one view fewer than poses wanted    *)
(* (hand_eye.cpp), no session in which all frames count is ever solved,    *)
(* by the stages or by compute_hand_eye.                                   *)
THEOREM CompleteSessionNeverSolved == Spec => []CompleteSessionUnsolved
<1>1. SessionInv => CompleteSessionUnsolved
  <2> SUFFICES ASSUME SessionInv PROVE CompleteSessionUnsolved
    OBVIOUS
  <2>1. ASSUME NEW d \in Dirs, Len(csv[d]) = Cardinality(Shots(d)),
               ComputeHandEye(csv[d], Shots(d))
        PROVE  FALSE
    <3>1. csv[d] \in Seq(Seq(Int))
      BY DEF SessionInv, TypeOK
    <3>2. Len(LoadPoses(csv[d])) = Len(csv[d]) /\ Len(LoadPoses(csv[d])) \in Nat
      BY <3>1, RowsCounted
    <3>3. Accepts(Motions(LoadPoses(csv[d])), Shots(d))
      BY <2>1 DEF ComputeHandEye
    <3>4. Cardinality(Shots(d)) # Len(LoadPoses(csv[d]))
      BY <3>2, <3>3, MotionsCounted
    <3> QED
      BY <2>1, <3>2, <3>4
  <2> QED
    BY <2>1 DEF SessionInv, ResultsOfOthers, CompleteSessionUnsolved
<1> QED
  BY <1>1, SessionInvariant, PTL
=============================================================================
