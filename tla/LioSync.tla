------------------------------ MODULE LioSync ------------------------------
(***************************************************************************)
(* The measurement pipeline of LioNode (omr_lio/src/lio_node.cpp): the     *)
(* lidar and IMU callbacks fill three buffers, sync_packages() pairs a     *)
(* scan with the IMU samples up to its end, and the body of run() hands    *)
(* the group to ImuProcess and registers the cloud in the map.             *)
(*                                                                         *)
(* One thread runs everything: run() calls spin_some between two bodies,   *)
(* so callbacks and bodies are the atomic steps.  A scan is its number,    *)
(* the stamp of its message and whether fewer than five points remain of   *)
(* it after downsampling.  Poses, filters and the map's contents are left  *)
(* out.                                                                    *)
(***************************************************************************)
EXTENDS Naturals, Sequences

CONSTANTS
    MaxTime,     \* bound: the last stamp
    MaxScans,    \* bound: how many scans arrive
    Durations,   \* lengths a scan can have, lidar_mean_scantime_ included
    ImuSteps,    \* distances of successive IMU stamps: 1, more if some are lost
    InitCount,   \* MAX_INI_COUNT, the IMU samples that initialise the filter
    Jumps        \* streams whose stamps may go back (a bag replayed, a clock
                 \* reset), once in a behavior: "lidar", "imu"

ASSUME LioAssumption ==
    /\ MaxTime \in Nat /\ MaxScans \in Nat /\ InitCount \in Nat
    /\ Durations \subseteq Nat
    /\ ImuSteps \subseteq Nat \ {0}
    /\ Jumps \subseteq {"lidar", "imu"}

VARIABLES
    lidarBuf,  \* lidar_buffer_: scans, oldest first
    timeBuf,   \* time_buffer_: what should be their stamps
    imuBuf,    \* imu_buffer_: stamps, oldest first
    nScans,    \* number of the last scan received
    lastLidar, \* last_timestamp_lidar_
    lastImu,   \* last_timestamp_imu_
    pushed,    \* lidar_pushed_
    meas,      \* Measures_
    firstScan, \* flg_first_scan_
    initN,     \* init_iter_num of ImuProcess, no further than InitCount + 1
    feats,     \* the scan feats_undistort_ was made from
    tree,      \* the map has been built
    odom,      \* last odometry: the cloud registered and the group it is for
    jumped     \* history: the stream whose stamps have gone back, or "none"

bufVars == <<lidarBuf, timeBuf, imuBuf>>
inVars == <<nScans, lastLidar, lastImu>>
mapVars == <<firstScan, initN, feats, tree, odom>>
vars == <<bufVars, inVars, pushed, meas, mapVars, jumped>>

Stamps == 1..MaxTime
NoScan == [id |-> 0, stamp |-> 0, few |-> TRUE]
Scans == [id : 1..MaxScans, stamp : Stamps, few : BOOLEAN]

Init ==
    /\ lidarBuf = <<>> /\ timeBuf = <<>> /\ imuBuf = <<>>
    /\ nScans = 0 /\ lastLidar = 0 /\ lastImu = 0
    /\ pushed = FALSE
    /\ meas = [lidar |-> NoScan, beg |-> 0, end |-> 0, imu |-> <<>>]
    /\ firstScan = TRUE
    /\ initN = 1
    /\ feats = NoScan
    /\ tree = FALSE
    /\ odom = [cloud |-> 0, of |-> 0]
    /\ jumped = "none"
-----------------------------------------------------------------------------
(* The callbacks. *)

MayJump(stream) == stream \in Jumps /\ jumped = "none"

(* Stamps a scan may arrive with: from the end of the scan before it on,   *)
(* or from before that scan, and early enough for the IMU to pass its end  *)
(* within the bound.                                                       *)
ScanStamps ==
    {t \in Stamps :
        /\ \/ t > lastLidar /\ \A d \in Durations : t >= lastLidar + d
           \/ t < lastLidar /\ MayJump("lidar")
        /\ \A d \in Durations : t + d < MaxTime}

ImuStamps ==
    {t \in Stamps :
        \/ \E step \in ImuSteps : t = lastImu + step
        \/ t < lastImu /\ MayJump("imu")}

Arrive(t, few) ==
    [id |-> nScans + 1, stamp |-> t, few |-> few]

(* Mutant: the scan is queued at the wrong end. *)
LidarPushFront(t, few) ==
    /\ nScans < MaxScans
    /\ nScans' = nScans + 1
    /\ lidarBuf' = <<Arrive(t, few)>> \o lidarBuf
    /\ timeBuf' = <<t>> \o timeBuf
    /\ lastLidar' = t
    /\ jumped' = IF t < lastLidar THEN "lidar" ELSE jumped
    /\ UNCHANGED <<imuBuf, lastImu, pushed, meas, mapVars>>

(* A loop back empties lidar_buffer_, and neither time_buffer_ nor the     *)
(* scan sync_packages may have taken already.                              *)
LidarCallback(t, few) ==
    /\ nScans < MaxScans
    /\ nScans' = nScans + 1
    /\ lidarBuf' = Append(IF t < lastLidar THEN <<>> ELSE lidarBuf, Arrive(t, few))
    /\ timeBuf' = Append(timeBuf, t)
    /\ lastLidar' = t
    /\ jumped' = IF t < lastLidar THEN "lidar" ELSE jumped
    /\ UNCHANGED <<imuBuf, lastImu, pushed, meas, mapVars>>

(* Mutant: the sample is queued under the stamp of the one before. *)
ImuOldStamp(t) ==
    /\ lastImu' = t
    /\ imuBuf' = Append(IF t < lastImu THEN <<>> ELSE imuBuf, lastImu)
    /\ jumped' = IF t < lastImu THEN "imu" ELSE jumped
    /\ UNCHANGED <<lidarBuf, timeBuf, nScans, lastLidar, pushed, meas, mapVars>>

(* A loop back empties imu_buffer_; a scan that was taken goes on waiting  *)
(* for samples after its end.                                              *)
ImuCallback(t) ==
    /\ lastImu' = t
    /\ imuBuf' = Append(IF t < lastImu THEN <<>> ELSE imuBuf, t)
    /\ jumped' = IF t < lastImu THEN "imu" ELSE jumped
    /\ UNCHANGED <<lidarBuf, timeBuf, nScans, lastLidar, pushed, meas, mapVars>>
-----------------------------------------------------------------------------
(* sync_packages. *)

(* The group with a scan in it: the one already taken, or the oldest with  *)
(* an end computed from its points or from the mean duration.              *)
Taken(d) ==
    IF pushed THEN meas
    ELSE [lidar |-> Head(lidarBuf), beg |-> Head(timeBuf),
          end |-> Head(timeBuf) + d, imu |-> meas.imu]

(* How many samples of the buffer precede the end of the scan. *)
Before(buf, end) ==
    CHOOSE k \in 0..Len(buf) :
        /\ \A i \in 1..k : buf[i] < end
        /\ k < Len(buf) => buf[k + 1] >= end

(* Mutant: the loop tests the stamp of the sample before. *)
ImuOneTooMany(buf, end) ==
    LET k == Before(buf, end) IN IF 0 < k /\ k < Len(buf) THEN k + 1 ELSE k

(* The samples the loop moves: those before the end and, if there are any, *)
(* one that falls on it.                                                   *)
ImuCount(buf, end) ==
    LET k == Before(buf, end) IN
    IF 0 < k /\ k < Len(buf) /\ buf[k + 1] = end THEN k + 1 ELSE k

HaveBoth == lidarBuf # <<>> /\ imuBuf # <<>>

(* The scan is taken, and its end lies beyond the IMU. *)
WaitForImu(d) ==
    /\ HaveBoth
    /\ ~pushed
    /\ lastImu < Taken(d).end
    /\ meas' = Taken(d)
    /\ pushed' = TRUE
    /\ UNCHANGED <<bufVars, inVars, mapVars, jumped>>

(* Mutants: time_buffer_ is not popped; lidar_pushed_ is not cleared. *)
PopLidarOnly == lidarBuf' = Tail(lidarBuf) /\ timeBuf' = timeBuf /\ pushed' = FALSE
PopStaysPushed == lidarBuf' = Tail(lidarBuf) /\ timeBuf' = Tail(timeBuf) /\ pushed' = TRUE

PopScan == lidarBuf' = Tail(lidarBuf) /\ timeBuf' = Tail(timeBuf) /\ pushed' = FALSE

Package(m) ==
    LET n == ImuCount(imuBuf, m.end) IN
    /\ meas' = [lidar |-> m.lidar, beg |-> m.beg, end |-> m.end,
                imu |-> SubSeq(imuBuf, 1, n)]
    /\ imuBuf' = SubSeq(imuBuf, n + 1, Len(imuBuf))
    /\ PopScan
-----------------------------------------------------------------------------
(* The body of run() on a group m. *)

FirstScan ==
    /\ firstScan
    /\ firstScan' = FALSE
    /\ UNCHANGED <<initN, feats, tree, odom>>

(* ImuProcess::Process: without samples it leaves the cloud of before. *)
NoImu(m) == m.imu = <<>> /\ UNCHANGED <<initN, feats>>

ImuInit(m) ==
    /\ m.imu # <<>>
    /\ initN <= InitCount
    /\ initN' = IF initN + Len(m.imu) > InitCount THEN InitCount + 1
                ELSE initN + Len(m.imu)
    /\ UNCHANGED feats

(* Mutant: a sparse scan leaves the cloud of before. *)
UndistortDense(m) ==
    /\ m.imu # <<>>
    /\ initN > InitCount
    /\ feats' = IF m.lidar.few THEN feats ELSE m.lidar
    /\ UNCHANGED initN

UndistortPcl(m) ==
    /\ m.imu # <<>>
    /\ initN > InitCount
    /\ feats' = m.lidar
    /\ UNCHANGED initN

Process(m) == NoImu(m) \/ ImuInit(m) \/ UndistortPcl(m)

(* What follows Process: nothing for an empty or sparse cloud, the first   *)
(* cloud builds the map, later ones are matched to it and published.       *)
SkipScan == feats'.few /\ UNCHANGED <<tree, odom>>
BuildMap == ~feats'.few /\ ~tree /\ tree' = TRUE /\ UNCHANGED odom
Register(m) ==
    /\ ~feats'.few
    /\ tree
    /\ odom' = [cloud |-> feats'.id, of |-> m.lidar.id]
    /\ UNCHANGED tree

MapScan(m) ==
    /\ ~firstScan
    /\ Process(m)
    /\ SkipScan \/ BuildMap \/ Register(m)
    /\ UNCHANGED firstScan

(* sync_packages finds a group, and the body runs on it. *)
RunBody(d) ==
    /\ HaveBoth
    /\ lastImu >= Taken(d).end
    /\ Package(Taken(d))
    /\ FirstScan \/ MapScan(meas')
    /\ UNCHANGED <<inVars, jumped>>

Run == \E d \in Durations : WaitForImu(d) \/ RunBody(d)

Next ==
    \/ \E t \in ScanStamps, few \in BOOLEAN : LidarCallback(t, few)
    \/ \E t \in ImuStamps : ImuCallback(t)
    \/ Run

Spec == Init /\ [][Next]_vars

(* The loop of run() goes on and the IMU keeps publishing later samples;   *)
(* the lidar need not, and no stamp need go back.                          *)
FairSpec ==
    /\ Spec
    /\ WF_vars(Run)
    /\ WF_vars(\E t \in ImuStamps : lastImu < t /\ ImuCallback(t))
-----------------------------------------------------------------------------
(* Properties. *)

Groups == [lidar : Scans \cup {NoScan}, beg : Nat, end : Nat, imu : Seq(Stamps)]

TypeOK ==
    /\ lidarBuf \in Seq(Scans)
    /\ timeBuf \in Seq(Stamps)
    /\ imuBuf \in Seq(Stamps)
    /\ nScans \in 0..MaxScans
    /\ lastLidar \in 0..MaxTime
    /\ lastImu \in 0..MaxTime
    /\ pushed \in BOOLEAN
    /\ meas \in Groups
    /\ firstScan \in BOOLEAN
    /\ initN \in 1..(InitCount + 1)
    /\ feats \in Scans \cup {NoScan}
    /\ tree \in BOOLEAN
    /\ odom \in [cloud : 0..MaxScans, of : 0..MaxScans]
    /\ jumped \in {"none", "lidar", "imu"}

(* The two lidar queues stay in step: the stamp sync_packages takes is the *)
(* stamp of the scan it takes.  Once a lidar loop back has emptied one of  *)
(* them they are off by the scans that were dropped, neither more nor      *)
(* less, and no queue is popped empty.                                     *)
BuffersPaired ==
    /\ Len(lidarBuf) <= Len(timeBuf)
    /\ \A i \in DOMAIN lidarBuf :
         timeBuf[Len(timeBuf) - Len(lidarBuf) + i] = lidarBuf[i].stamp
    /\ jumped # "lidar" =>
         /\ Len(lidarBuf) = Len(timeBuf)
         /\ meas.beg = meas.lidar.stamp
         /\ pushed => lidarBuf # <<>> /\ lidarBuf[1] = meas.lidar

(* A group holds every IMU sample up to the end of its scan that no group  *)
(* before it held, and none from after the end; after an IMU loop back     *)
(* what is left in the buffer may be of any time.                          *)
ImuWindow ==
    ~pushed =>
        /\ \A i \in DOMAIN meas.imu : meas.imu[i] <= meas.end
        /\ jumped # "imu" => \A i \in DOMAIN imuBuf : imuBuf[i] >= meas.end

(* Scans are taken one by one in the order they arrived; a lidar loop back *)
(* may lose some, and repeats none.                                        *)
ScansInOrder ==
    [][meas'.lidar # meas.lidar =>
         IF jumped = "lidar" THEN meas'.lidar.id > meas.lidar.id
         ELSE meas'.lidar.id = meas.lidar.id + 1]_vars

(* What the invariants above rest on: scans are numbered without gaps from *)
(* the group to the end of the buffer, and IMU stamps grow.                *)
ScansNumbered ==
    /\ \A i \in DOMAIN lidarBuf : lidarBuf[i].id + Len(lidarBuf) = nScans + i
    /\ LET last == IF pushed THEN nScans + 1 ELSE nScans
       IN IF jumped = "lidar" THEN meas.lidar.id + Len(lidarBuf) <= last
          ELSE meas.lidar.id + Len(lidarBuf) = last

ImuSorted ==
    /\ \A i, j \in DOMAIN imuBuf : i < j => imuBuf[i] < imuBuf[j]
    /\ \A i \in DOMAIN imuBuf : imuBuf[i] <= lastImu
    /\ ~pushed /\ jumped # "imu" => meas.end <= lastImu

IInv == TypeOK /\ BuffersPaired /\ ScansNumbered /\ ImuSorted /\ ImuWindow

(* A group with IMU samples never publishes odometry computed from the     *)
(* cloud of another scan, whatever was lost, skipped or left in            *)
(* feats_undistort_ before it.                                             *)
OdometryFromSamples ==
    [][odom' # odom /\ meas'.imu # <<>> => odom'.cloud = odom'.of]_vars

(* Until the filter is initialised there is no cloud to register. *)
CloudNeedsInit == initN <= InitCount => feats = NoScan

(* Odometry published for a group comes from the cloud of that group       *)
(* ("No point, skip this scan!" otherwise).                                *)
OdometryOfScan == odom.cloud = odom.of

(* The last scan that arrived is some day handed to the body of run(), and *)
(* with ScansInOrder every one before it, also if the IMU stamps go back.  *)
EveryScanRuns ==
    []<>(jumped = "lidar" \/ (~pushed /\ meas.lidar.id = nScans))
=============================================================================
