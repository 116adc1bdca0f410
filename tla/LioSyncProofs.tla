--------------------------- MODULE LioSyncProofs ---------------------------
(* Proofs about LioSync, for any number of scans and samples, whether the  *)
(* stamps of a stream go back or not: types, the window of IMU samples a   *)
(* group gets, the pairing of scans with their stamps and the order of     *)
(* groups.                                                                 *)
EXTENDS LioSync, SequenceTheorems, WellFoundedInduction, TLAPS

(* The part of IInv that needs neither the numbers nor the stamps of the   *)
(* queued scans.                                                           *)
StampForEachScan == Len(lidarBuf) <= Len(timeBuf)
Base == TypeOK /\ StampForEachScan /\ ImuSorted /\ ImuWindow

LEMMA Bounds ==
    /\ Stamps \subseteq Nat /\ MaxScans \in Nat /\ MaxTime \in Nat /\ InitCount \in Nat
    /\ Durations \subseteq Nat /\ \A s \in ImuSteps : s \in Nat /\ s > 0
    BY LioAssumption DEF Stamps

LEMMA EmptyQueue ==
    /\ <<>> \in Seq(Scans) /\ <<>> \in Seq(Stamps)
    /\ DOMAIN <<>> = {} /\ Len(<<>>) = 0
    OBVIOUS

(* What is left of a queue without its head. *)
LEMMA QueueTail ==
    ASSUME NEW S, NEW q \in Seq(S), q # <<>>
    PROVE  /\ Head(q) \in S /\ Tail(q) \in Seq(S)
           /\ 1 \in DOMAIN q /\ Head(q) = q[1]
           /\ \A i \in DOMAIN Tail(q) :
                i \in Nat /\ 1 < i + 1 /\ i + 1 \in DOMAIN q /\ Tail(q)[i] = q[i + 1]
<1>1. Len(q) \in Nat /\ Len(q) # 0 /\ DOMAIN q = 1..Len(q)
    OBVIOUS
<1>2. Tail(q) \in Seq(S) /\ Len(Tail(q)) = Len(q) - 1
    OBVIOUS
<1>3. DOMAIN Tail(q) = 1..(Len(q) - 1)
    BY <1>2
<1>4. \A i \in 1..(Len(q) - 1) : Tail(q)[i] = q[i + 1]
    BY <1>1
<1> QED
    BY <1>1, <1>2, <1>3, <1>4

(* What a queue holds after an append. *)
LEMMA QueueAppend ==
    ASSUME NEW S, NEW q \in Seq(S), NEW x \in S
    PROVE  /\ Append(q, x) \in Seq(S)
           /\ \A i \in DOMAIN Append(q, x) :
                \/ i \in DOMAIN q /\ i < Len(q) + 1 /\ Append(q, x)[i] = q[i]
                \/ i = Len(q) + 1 /\ Append(q, x)[i] = x
           /\ \A i \in DOMAIN Append(q, x) : i \in Nat
           /\ Len(q) \in Nat /\ DOMAIN q = 1..Len(q)
<1>1. Append(q, x) \in Seq(S) /\ Len(Append(q, x)) = Len(q) + 1
    OBVIOUS
<1>2. Len(q) \in Nat /\ DOMAIN q = 1..Len(q) /\ DOMAIN Append(q, x) = 1..(Len(q) + 1)
    BY <1>1
<1>3. \A i \in 1..Len(q) : Append(q, x)[i] = q[i]
    BY <1>2
<1>4. Append(q, x)[Len(q) + 1] = x
    BY <1>2
<1> QED
    BY <1>1, <1>2, <1>3, <1>4

LEMMA NoRoom ==
    ASSUME NEW a \in Nat, NEW b \in Nat, b <= a, ~(b + 1 <= a)
    PROVE  a - b = 0
    OBVIOUS

(* A front part and what is left of it. *)
LEMMA QueueSplit ==
    ASSUME NEW S, NEW q \in Seq(S), NEW n \in 0..Len(q)
    PROVE  /\ SubSeq(q, 1, n) \in Seq(S)
           /\ \A i \in DOMAIN SubSeq(q, 1, n) :
                i \in 1..n /\ i \in DOMAIN q /\ SubSeq(q, 1, n)[i] = q[i]
           /\ SubSeq(q, n + 1, Len(q)) \in Seq(S)
           /\ \A i \in DOMAIN SubSeq(q, n + 1, Len(q)) :
                /\ i \in Nat /\ 0 < i /\ i + n \in DOMAIN q
                /\ SubSeq(q, n + 1, Len(q))[i] = q[i + n]
<1>0. Len(q) \in Nat /\ n \in Nat /\ n <= Len(q) /\ DOMAIN q = 1..Len(q)
    OBVIOUS
<1>1. \A i \in 1..Len(q) : q[i] \in S
    BY <1>0
<1>2. /\ SubSeq(q, 1, n) \in Seq(S) /\ Len(SubSeq(q, 1, n)) = n
      /\ \A i \in 1..n : SubSeq(q, 1, n)[i] = q[i]
  <2>1. 1 \in Int /\ n \in Int /\ \A i \in 1..n : q[i] \in S
    BY <1>0, <1>1
  <2>2. /\ SubSeq(q, 1, n) \in Seq(S)
        /\ Len(SubSeq(q, 1, n)) = IF 1 <= n THEN n - 1 + 1 ELSE 0
        /\ \A i \in 1..(n - 1 + 1) : SubSeq(q, 1, n)[i] = q[1 + i - 1]
    BY <2>1, SubSeqProperties
  <2> QED
    BY <1>0, <2>2
<1>3. /\ SubSeq(q, n + 1, Len(q)) \in Seq(S)
      /\ Len(SubSeq(q, n + 1, Len(q))) = Len(q) - n
      /\ \A i \in 1..(Len(q) - n) : SubSeq(q, n + 1, Len(q))[i] = q[i + n]
  <2>1. n + 1 \in Int /\ Len(q) \in Int /\ \A i \in (n + 1)..Len(q) : q[i] \in S
    BY <1>0, <1>1
  <2>2. /\ SubSeq(q, n + 1, Len(q)) \in Seq(S)
        /\ Len(SubSeq(q, n + 1, Len(q))) =
             IF n + 1 <= Len(q) THEN Len(q) - (n + 1) + 1 ELSE 0
        /\ \A i \in 1..(Len(q) - (n + 1) + 1) :
             SubSeq(q, n + 1, Len(q))[i] = q[n + 1 + i - 1]
    BY <2>1, SubSeqProperties
  <2>3. \A i \in 1..(Len(q) - n) : n + 1 + i - 1 = i + n
    BY <1>0
  <2>4. Len(q) - (n + 1) + 1 = Len(q) - n
    BY <1>0
  <2>5. Len(SubSeq(q, n + 1, Len(q))) = Len(q) - n
    <3>1. CASE n + 1 <= Len(q)
      <4>1. Len(SubSeq(q, n + 1, Len(q))) = Len(q) - (n + 1) + 1
        BY <2>2, <3>1, Zenon
      <4> QED
        BY <2>4, <4>1, Zenon
    <3>2. CASE ~(n + 1 <= Len(q))
      <4>1. Len(SubSeq(q, n + 1, Len(q))) = 0
        BY <2>2, <3>2, Zenon
      <4>2. Len(q) - n = 0
        BY <1>0, <3>2, NoRoom, Zenon
      <4> QED
        BY <4>1, <4>2, Zenon
    <3> QED
        BY <3>1, <3>2, Zenon
  <2>6. \A i \in 1..(Len(q) - n) : SubSeq(q, n + 1, Len(q))[i] = q[i + n]
    BY <2>2, <2>3, <2>4, Zenon
  <2> QED
    BY <2>2, <2>5, <2>6, Zenon
<1>4. DOMAIN SubSeq(q, 1, n) = 1..n /\ DOMAIN SubSeq(q, n + 1, Len(q)) = 1..(Len(q) - n)
  <2>1. \A t \in Seq(S) : DOMAIN t = 1..Len(t)
    OBVIOUS
  <2> QED
    BY <1>2, <1>3, <2>1
<1>5. \A i \in 1..(Len(q) - n) : i \in Nat /\ 0 < i /\ i + n \in 1..Len(q)
    BY <1>0
<1>6. \A i \in 1..n : i \in 1..Len(q)
    BY <1>0
<1>7. \A i \in DOMAIN SubSeq(q, 1, n) :
        i \in 1..n /\ i \in DOMAIN q /\ SubSeq(q, 1, n)[i] = q[i]
    BY <1>0, <1>2, <1>4, <1>6, Zenon
<1>8. \A i \in DOMAIN SubSeq(q, n + 1, Len(q)) :
        /\ i \in Nat /\ 0 < i /\ i + n \in DOMAIN q
        /\ SubSeq(q, n + 1, Len(q))[i] = q[i + n]
    BY <1>0, <1>3, <1>4, <1>5, Zenon
<1> QED
    BY <1>2, <1>3, <1>7, <1>8, Zenon

(* A nonempty set of naturals has a least element. *)
LEMMA LeastNat ==
    ASSUME NEW T, T \subseteq Nat, T # {}
    PROVE  \E x \in T : \A y \in T : x <= y
<1>1. \E x \in T : \A y \in T : <<y, x>> \notin OpToRel(<, Nat)
    BY NatLessThanWellFounded, WFMin, Zenon
<1>2. PICK x \in T : \A y \in T : <<y, x>> \notin OpToRel(<, Nat)
    BY <1>1
<1>3. \A y \in T : ~(y < x)
    BY <1>2 DEF OpToRel
<1> QED
    BY <1>3

LEMMA QueueDomain ==
    ASSUME NEW S, NEW q \in Seq(S)
    PROVE  Len(q) \in Nat /\ DOMAIN q = 1..Len(q) /\ \A i \in DOMAIN q : q[i] \in S
    OBVIOUS

(* Before finds the first sample that does not precede the end. *)
LEMMA BeforeEnd ==
    ASSUME NEW buf \in Seq(Stamps), NEW end \in Nat
    PROVE  LET k == Before(buf, end) IN
           /\ k \in 0..Len(buf)
           /\ \A i \in 1..k : buf[i] < end
           /\ k < Len(buf) => buf[k + 1] >= end
<1> DEFINE T == {k \in 0..Len(buf) : k < Len(buf) => buf[k + 1] >= end}
           Fits(k) == /\ \A i \in 1..k : buf[i] < end
                      /\ k < Len(buf) => buf[k + 1] >= end
<1>1. /\ Len(buf) \in Nat /\ DOMAIN buf = 1..Len(buf)
      /\ \A i \in 1..Len(buf) : buf[i] \in Nat
    BY QueueDomain, Bounds
<1>2. T \subseteq Nat /\ Len(buf) \in T
    BY <1>1
<1>3. PICK x \in T : \A y \in T : x <= y
    BY <1>2, LeastNat
<1>4. x \in 0..Len(buf) /\ (x < Len(buf) => buf[x + 1] >= end)
    BY <1>3
<1>5. ASSUME NEW i \in 1..x PROVE buf[i] < end
  <2>1. i - 1 \in 0..Len(buf) /\ i - 1 < x /\ i - 1 < Len(buf) /\ i - 1 + 1 = i
    BY <1>1, <1>4
  <2>2. i - 1 \notin T
    BY <1>1, <1>3, <1>4, <2>1
  <2>3. ~(buf[i] >= end)
    BY <2>1, <2>2
  <2>4. i \in 1..Len(buf)
    BY <1>1, <1>4
  <2> QED
    BY <1>1, <2>3, <2>4
<1>6. \E k \in 0..Len(buf) : Fits(k)
    BY <1>4, <1>5
<1>7. Before(buf, end) \in 0..Len(buf) /\ Fits(Before(buf, end))
    BY <1>6, Zenon DEF Before
<1> QED
    BY <1>7

(* What the loop of sync_packages moves out of an ordered buffer: samples  *)
(* that are not after the end, and it leaves none that is before.          *)
LEMMA ImuCountSplits ==
    ASSUME NEW buf \in Seq(Stamps), NEW end \in Nat,
           \A i, j \in DOMAIN buf : i < j => buf[i] < buf[j]
    PROVE  /\ ImuCount(buf, end) \in 0..Len(buf)
           /\ \A i \in 1..ImuCount(buf, end) : buf[i] <= end
           /\ \A i \in DOMAIN buf : i > ImuCount(buf, end) => buf[i] >= end
<1> DEFINE k == Before(buf, end)
<1>1. /\ k \in 0..Len(buf)
      /\ \A i \in 1..k : buf[i] < end
      /\ k < Len(buf) => buf[k + 1] >= end
    BY BeforeEnd
<1>2. /\ Len(buf) \in Nat /\ DOMAIN buf = 1..Len(buf)
      /\ \A i \in DOMAIN buf : buf[i] \in Nat
    BY QueueDomain, Bounds
<1>3. \/ ImuCount(buf, end) = k
      \/ k < Len(buf) /\ buf[k + 1] = end /\ ImuCount(buf, end) = k + 1
    BY DEF ImuCount
<1> HIDE DEF k
<1>4. \A i \in DOMAIN buf : i > k => buf[i] >= end
  <2>1. SUFFICES ASSUME NEW i \in DOMAIN buf, i > k PROVE buf[i] >= end
    OBVIOUS
  <2>2. k + 1 \in DOMAIN buf /\ k < Len(buf) /\ (k + 1 < i \/ k + 1 = i)
    BY <1>1, <1>2, <2>1
  <2> QED
    BY <1>1, <1>2, <2>1, <2>2
<1>5. \A i \in 1..k : buf[i] <= end
    BY <1>1, <1>2
<1>6. CASE ImuCount(buf, end) = k
    BY <1>1, <1>4, <1>5, <1>6
<1>7. CASE k < Len(buf) /\ buf[k + 1] = end /\ ImuCount(buf, end) = k + 1
  <2>1. k + 1 \in 0..Len(buf)
    BY <1>1, <1>2, <1>7
  <2>2. \A i \in 1..(k + 1) : i \in 1..k \/ i = k + 1
    BY <1>1
  <2>3. \A i \in 1..(k + 1) : buf[i] <= end
    BY <1>5, <1>7, <2>2
  <2>4. \A i \in DOMAIN buf : i > k + 1 => i > k
    BY <1>1, <1>2
  <2> QED
    BY <1>4, <1>7, <2>1, <2>3, <2>4
<1> QED
    BY <1>3, <1>6, <1>7

LEMMA InitBase == Init => Base
<1> SUFFICES ASSUME Init PROVE Base
    OBVIOUS
<1>1. lidarBuf \in Seq(Scans) /\ timeBuf \in Seq(Stamps) /\ imuBuf \in Seq(Stamps)
    BY EmptyQueue DEF Init
<1>2. meas \in Groups
    BY EmptyQueue DEF Init, Groups
<1>3. nScans \in 0..MaxScans /\ lastLidar \in 0..MaxTime /\ lastImu \in 0..MaxTime
      /\ initN \in 1..(InitCount + 1)
    BY Bounds DEF Init
<1>4. pushed \in BOOLEAN /\ firstScan \in BOOLEAN /\ tree \in BOOLEAN
      /\ feats \in Scans \cup {NoScan} /\ jumped \in {"none", "lidar", "imu"}
    BY DEF Init
<1>5. odom \in [cloud : 0..MaxScans, of : 0..MaxScans]
    BY Bounds DEF Init
<1>6. TypeOK
    BY <1>1, <1>2, <1>3, <1>4, <1>5 DEF TypeOK
<1>7. StampForEachScan /\ ImuSorted /\ ImuWindow
    BY EmptyQueue DEF Init, StampForEachScan, ImuSorted, ImuWindow
<1> QED
    BY <1>6, <1>7 DEF Base

LEMMA LidarCallbackKeeps ==
    ASSUME Base, NEW t \in ScanStamps, NEW few \in BOOLEAN, LidarCallback(t, few)
    PROVE  Base'
<1> USE DEF Base
<1> DEFINE q == IF t < lastLidar THEN <<>> ELSE lidarBuf
           x == Arrive(t, few)
<1>1. t \in Stamps
    BY DEF ScanStamps
<1>2. nScans \in Nat /\ nScans' \in 0..MaxScans /\ nScans + 1 \in 1..MaxScans
    BY Bounds DEF TypeOK, LidarCallback
<1>3. x \in Scans
    BY <1>1, <1>2 DEF Arrive, Scans
<1>4. q \in Seq(Scans) /\ Len(q) \in Nat /\ Len(q) <= Len(lidarBuf)
    BY EmptyQueue, QueueDomain DEF TypeOK
<1>5. lidarBuf' = Append(q, x) /\ timeBuf' = Append(timeBuf, t)
    BY DEF LidarCallback
<1> HIDE DEF q, x
<1>6. lidarBuf' \in Seq(Scans) /\ Len(lidarBuf') = Len(q) + 1
    BY <1>3, <1>4, <1>5
<1>7. timeBuf \in Seq(Stamps) /\ timeBuf' \in Seq(Stamps)
      /\ Len(timeBuf') = Len(timeBuf) + 1 /\ Len(timeBuf) \in Nat
    BY <1>1, <1>5 DEF TypeOK
<1>8. Len(lidarBuf) \in Nat /\ Len(lidarBuf) <= Len(timeBuf)
    BY QueueDomain DEF TypeOK, StampForEachScan
<1>9. StampForEachScan'
    BY <1>4, <1>6, <1>7, <1>8 DEF StampForEachScan
<1>10. lastLidar' \in 0..MaxTime
    BY <1>1, Bounds DEF LidarCallback, Stamps
<1>11. UNCHANGED <<imuBuf, lastImu, pushed, meas, firstScan, initN, feats, tree, odom>>
    BY DEF LidarCallback, mapVars
<1>14. /\ jumped' = jumped \/ (jumped = "none" /\ jumped' = "lidar")
       /\ jumped' \in {"none", "lidar", "imu"}
  <2>1. t \in Nat /\ lastLidar \in Nat
    BY <1>1, Bounds DEF TypeOK
  <2>2. t < lastLidar => jumped = "none"
    BY <2>1 DEF ScanStamps, MayJump
  <2> QED
    BY <2>2 DEF TypeOK, LidarCallback
<1>12. TypeOK'
    BY <1>2, <1>6, <1>7, <1>10, <1>11, <1>14 DEF TypeOK
<1>13. ImuSorted' /\ ImuWindow'
    BY <1>11, <1>14 DEF ImuSorted, ImuWindow
<1> QED
    BY <1>9, <1>12, <1>13

(* A sample that comes in order. *)
LEMMA ImuForwardKeeps ==
    ASSUME Base, NEW t \in Stamps, lastImu < t, ImuCallback(t)
    PROVE  /\ imuBuf' \in Seq(Stamps) /\ jumped' = jumped
           /\ ImuSorted' /\ ImuWindow'
<1> USE DEF Base
<1>1. t \in Nat /\ lastImu \in Nat /\ ~(t < lastImu)
    BY Bounds DEF TypeOK
<1>2. lastImu' = t /\ UNCHANGED <<pushed, meas, jumped>>
    BY <1>1 DEF ImuCallback
<1>4. imuBuf \in Seq(Stamps) /\ imuBuf' = Append(imuBuf, t)
    BY <1>1 DEF TypeOK, ImuCallback
<1>5. /\ imuBuf' \in Seq(Stamps)
      /\ \A i \in DOMAIN imuBuf' :
           \/ i \in DOMAIN imuBuf /\ i < Len(imuBuf) + 1 /\ imuBuf'[i] = imuBuf[i]
           \/ i = Len(imuBuf) + 1 /\ imuBuf'[i] = t
      /\ \A i \in DOMAIN imuBuf' : i \in Nat
      /\ Len(imuBuf) \in Nat /\ DOMAIN imuBuf = 1..Len(imuBuf)
    BY <1>4, QueueAppend
<1>6. \A i \in DOMAIN imuBuf : imuBuf[i] \in Nat /\ imuBuf[i] <= lastImu
    BY <1>4, QueueDomain, Bounds DEF ImuSorted
<1>8. meas.end \in Nat
    BY DEF TypeOK, Groups
<1>9. ImuSorted'
  <2>1. \A i \in DOMAIN imuBuf' : imuBuf'[i] <= lastImu'
    BY <1>1, <1>2, <1>5, <1>6
  <2>2. \A i, j \in DOMAIN imuBuf' : i < j => imuBuf'[i] < imuBuf'[j]
    <3> SUFFICES ASSUME NEW i \in DOMAIN imuBuf', NEW j \in DOMAIN imuBuf', i < j
                 PROVE  imuBuf'[i] < imuBuf'[j]
        OBVIOUS
    <3>1. i \in DOMAIN imuBuf /\ imuBuf'[i] = imuBuf[i]
        BY <1>5
    <3>2. CASE j \in DOMAIN imuBuf /\ imuBuf'[j] = imuBuf[j]
        BY <3>1, <3>2 DEF ImuSorted
    <3>3. CASE imuBuf'[j] = t
        BY <1>1, <1>2, <1>6, <3>1, <3>3
    <3> QED
        BY <1>5, <3>2, <3>3
  <2>3. ~pushed' /\ jumped' # "imu" => meas'.end <= lastImu'
    BY <1>1, <1>2, <1>8 DEF ImuSorted
  <2> QED
    BY <2>1, <2>2, <2>3 DEF ImuSorted
<1>10. ImuWindow'
  <2>1. ~pushed => \A i \in DOMAIN meas'.imu : meas'.imu[i] <= meas'.end
    BY <1>2 DEF ImuWindow
  <2>2. ASSUME ~pushed, jumped # "imu", NEW i \in DOMAIN imuBuf'
        PROVE  imuBuf'[i] >= meas.end
    <3>1. meas.end <= lastImu
      BY <2>2 DEF ImuSorted
    <3> QED
      BY <1>1, <1>5, <1>8, <2>2, <3>1 DEF ImuWindow
  <2> QED
    BY <1>2, <2>1, <2>2 DEF ImuWindow
<1> QED
    BY <1>2, <1>5, <1>9, <1>10

(* A sample whose stamp goes back is alone in the buffer. *)
LEMMA ImuBackKeeps ==
    ASSUME Base, NEW t \in Stamps, t < lastImu, ImuCallback(t)
    PROVE  /\ imuBuf' \in Seq(Stamps) /\ jumped' = "imu"
           /\ ImuSorted' /\ ImuWindow'
<1>1. imuBuf' = <<t>> /\ lastImu' = t /\ jumped' = "imu" /\ UNCHANGED <<pushed, meas>>
    BY DEF ImuCallback
<1>2. DOMAIN imuBuf' = {1} /\ imuBuf'[1] = t /\ imuBuf' \in Seq(Stamps)
    BY <1>1
<1>3. t \in Nat
    BY Bounds
<1>4. ImuSorted'
    BY <1>1, <1>2, <1>3 DEF ImuSorted
<1>5. ImuWindow'
    BY <1>1 DEF Base, ImuWindow
<1> QED
    BY <1>1, <1>2, <1>4, <1>5

LEMMA ImuCallbackKeeps ==
    ASSUME Base, NEW t \in ImuStamps, ImuCallback(t) PROVE Base'
<1>1. t \in Stamps /\ t \in 0..MaxTime /\ lastImu \in Nat
    BY Bounds DEF ImuStamps, Stamps, Base, TypeOK
<1>2. lastImu < t \/ t < lastImu
  <2>1. \A s \in ImuSteps : lastImu < lastImu + s
    BY <1>1, Bounds
  <2> QED
    BY <2>1 DEF ImuStamps
<1>3. imuBuf' \in Seq(Stamps) /\ jumped' \in {jumped, "imu"} /\ ImuSorted' /\ ImuWindow'
    BY <1>1, <1>2, ImuForwardKeeps, ImuBackKeeps
<1>4. lastImu' = t /\ UNCHANGED <<lidarBuf, timeBuf, nScans, lastLidar, pushed, meas,
                                  firstScan, initN, feats, tree, odom>>
    BY DEF ImuCallback, mapVars
<1>5. TypeOK'
    BY <1>1, <1>3, <1>4 DEF Base, TypeOK
<1> QED
    BY <1>3, <1>4, <1>5 DEF Base, StampForEachScan

(* The scan taken and its window are well formed. *)
LEMMA TakenGroup ==
    ASSUME Base, NEW d \in Durations, lidarBuf # <<>>
    PROVE  Taken(d) \in Groups
<1>1. d \in Nat
    BY Bounds
<1>2. lidarBuf \in Seq(Scans) /\ timeBuf \in Seq(Stamps) /\ meas \in Groups
      /\ Len(lidarBuf) <= Len(timeBuf)
    BY DEF Base, TypeOK, StampForEachScan
<1>3. Head(lidarBuf) \in Scans
    BY <1>2, QueueTail
<1>4. Len(lidarBuf) \in Nat /\ Len(lidarBuf) # 0
    BY <1>2
<1>5. timeBuf # <<>>
    BY <1>2, <1>4, EmptyQueue
<1>6. Head(timeBuf) \in Nat
    BY <1>2, <1>5, QueueTail, Bounds
<1>7. CASE pushed
    BY <1>2, <1>7 DEF Taken
<1>8. CASE ~pushed
    BY <1>1, <1>2, <1>3, <1>6, <1>8 DEF Taken, Groups
<1> QED
    BY <1>7, <1>8

LEMMA WaitForImuKeeps ==
    ASSUME Base, NEW d \in Durations, WaitForImu(d) PROVE Base'
<1> USE DEF Base
<1>1. UNCHANGED <<lidarBuf, timeBuf, imuBuf, nScans, lastLidar, lastImu,
                  firstScan, initN, feats, tree, odom, jumped>>
      /\ pushed' = TRUE /\ meas' = Taken(d)
    BY DEF WaitForImu, bufVars, inVars, mapVars
<1>2. meas' \in Groups
    BY <1>1, TakenGroup DEF WaitForImu, HaveBoth
<1>3. TypeOK'
    BY <1>1, <1>2 DEF TypeOK
<1>4. ImuSorted' /\ ImuWindow' /\ StampForEachScan'
    BY <1>1 DEF ImuSorted, ImuWindow, StampForEachScan
<1> QED
    BY <1>3, <1>4

(* What sync_packages leaves behind when it returns a group. *)
LEMMA PackageSplits ==
    ASSUME Base, NEW d \in Durations, RunBody(d)
    PROVE  /\ meas' \in Groups /\ imuBuf' \in Seq(Stamps)
           /\ meas'.lidar = Taken(d).lidar /\ meas'.beg = Taken(d).beg
           /\ meas'.end = Taken(d).end /\ meas'.end \in Nat
           /\ \A i \in DOMAIN meas'.imu : meas'.imu[i] <= meas'.end
           /\ \A i \in DOMAIN imuBuf' : imuBuf'[i] >= meas'.end /\ imuBuf'[i] <= lastImu
           /\ \A i, j \in DOMAIN imuBuf' : i < j => imuBuf'[i] < imuBuf'[j]
<1> DEFINE m == Taken(d)
           n == ImuCount(imuBuf, m.end)
<1>1. m \in Groups /\ m.end \in Nat
    BY TakenGroup DEF RunBody, HaveBoth, Groups
<1>2. imuBuf \in Seq(Stamps) /\ \A i, j \in DOMAIN imuBuf : i < j => imuBuf[i] < imuBuf[j]
    BY DEF Base, TypeOK, ImuSorted
<1>3. /\ n \in 0..Len(imuBuf)
      /\ \A i \in 1..n : imuBuf[i] <= m.end
      /\ \A i \in DOMAIN imuBuf : i > n => imuBuf[i] >= m.end
    BY <1>1, <1>2, ImuCountSplits
<1>4. /\ meas' = [lidar |-> m.lidar, beg |-> m.beg, end |-> m.end,
                  imu |-> SubSeq(imuBuf, 1, n)]
      /\ imuBuf' = SubSeq(imuBuf, n + 1, Len(imuBuf))
    BY DEF RunBody, Package
<1> HIDE DEF m, n
<1>5. /\ SubSeq(imuBuf, 1, n) \in Seq(Stamps)
      /\ \A i \in DOMAIN SubSeq(imuBuf, 1, n) :
           i \in 1..n /\ i \in DOMAIN imuBuf /\ SubSeq(imuBuf, 1, n)[i] = imuBuf[i]
      /\ SubSeq(imuBuf, n + 1, Len(imuBuf)) \in Seq(Stamps)
      /\ \A i \in DOMAIN SubSeq(imuBuf, n + 1, Len(imuBuf)) :
           /\ i \in Nat /\ 0 < i /\ i + n \in DOMAIN imuBuf
           /\ SubSeq(imuBuf, n + 1, Len(imuBuf))[i] = imuBuf[i + n]
    BY <1>2, <1>3, QueueSplit
<1>6. meas' \in Groups
    BY <1>1, <1>4, <1>5 DEF Groups
<1>7. \A i \in DOMAIN meas'.imu : meas'.imu[i] <= m.end
    BY <1>3, <1>4, <1>5
<1>8. n \in Nat /\ \A i \in Nat : 0 < i => i + n > n
    BY <1>2, <1>3
<1>9. \A i \in DOMAIN imuBuf' : imuBuf'[i] >= m.end
    BY <1>3, <1>4, <1>5, <1>8
<1>10. \A i \in DOMAIN imuBuf' : imuBuf'[i] <= lastImu
    BY <1>4, <1>5 DEF Base, ImuSorted
<1>11. \A i, j \in DOMAIN imuBuf' : i < j => imuBuf'[i] < imuBuf'[j]
  <2> SUFFICES ASSUME NEW i \in DOMAIN imuBuf', NEW j \in DOMAIN imuBuf', i < j
               PROVE  imuBuf'[i] < imuBuf'[j]
    OBVIOUS
  <2>1. i \in Nat /\ j \in Nat /\ i + n \in DOMAIN imuBuf /\ j + n \in DOMAIN imuBuf
        /\ imuBuf'[i] = imuBuf[i + n] /\ imuBuf'[j] = imuBuf[j + n]
    BY <1>4, <1>5
  <2>2. i + n < j + n
    BY <1>8, <2>1
  <2> QED
    BY <1>2, <2>1, <2>2
<1> QED
    BY <1>1, <1>4, <1>5, <1>6, <1>7, <1>9, <1>10, <1>11 DEF m

(* The body of run() keeps its variables well formed on a well-formed group. *)
LEMMA BodyTypes ==
    ASSUME TypeOK, NEW m \in Groups, FirstScan \/ MapScan(m)
    PROVE  /\ firstScan' \in BOOLEAN
           /\ initN' \in 1..(InitCount + 1)
           /\ feats' \in Scans \cup {NoScan}
           /\ tree' \in BOOLEAN
           /\ odom' \in [cloud : 0..MaxScans, of : 0..MaxScans]
<1>1. /\ firstScan \in BOOLEAN /\ initN \in 1..(InitCount + 1)
      /\ feats \in Scans \cup {NoScan} /\ tree \in BOOLEAN
      /\ odom \in [cloud : 0..MaxScans, of : 0..MaxScans]
    BY DEF TypeOK
<1>2. CASE FirstScan
    BY <1>1, <1>2 DEF FirstScan
<1>3. CASE MapScan(m)
  <2>1. m.lidar \in Scans \cup {NoScan} /\ m.imu \in Seq(Stamps) /\ Len(m.imu) \in Nat
    BY QueueDomain DEF Groups
  <2>2. feats' \in Scans \cup {NoScan}
    BY <1>1, <1>3, <2>1 DEF MapScan, Process, NoImu, ImuInit, UndistortPcl
  <2>3. initN' \in 1..(InitCount + 1)
    BY <1>1, <1>3, <2>1, Bounds DEF MapScan, Process, NoImu, ImuInit, UndistortPcl
  <2>4. \A f \in Scans \cup {NoScan} : f.id \in 0..MaxScans
    BY Bounds DEF Scans, NoScan
  <2>5. tree' \in BOOLEAN
    <3>1. tree' = tree \/ tree' = TRUE
        BY <1>3 DEF MapScan, SkipScan, BuildMap, Register
    <3> QED
        BY <1>1, <3>1, Zenon
  <2>6. odom' \in [cloud : 0..MaxScans, of : 0..MaxScans]
    BY <1>1, <1>3, <2>1, <2>2, <2>4 DEF MapScan, SkipScan, BuildMap, Register
  <2>7. firstScan' \in BOOLEAN
    <3>1. firstScan' = firstScan
        BY <1>3 DEF MapScan
    <3> QED
        BY <1>1, <3>1, Zenon
  <2> QED
    BY <2>2, <2>3, <2>5, <2>6, <2>7
<1> QED
    BY <1>2, <1>3

(* The buffers after a group is taken. *)
LEMMA PopKeeps ==
    ASSUME Base, NEW d \in Durations, RunBody(d)
    PROVE  /\ lidarBuf' \in Seq(Scans) /\ timeBuf' \in Seq(Stamps)
           /\ StampForEachScan' /\ pushed' = FALSE
           /\ Len(lidarBuf') = Len(lidarBuf) - 1 /\ Len(timeBuf') = Len(timeBuf) - 1
           /\ Len(lidarBuf) \in Nat /\ Len(timeBuf) \in Nat
           /\ lidarBuf # <<>> /\ timeBuf # <<>>
           /\ lidarBuf' = Tail(lidarBuf) /\ timeBuf' = Tail(timeBuf)
<1>1. lidarBuf \in Seq(Scans) /\ timeBuf \in Seq(Stamps) /\ lidarBuf # <<>>
      /\ Len(lidarBuf) <= Len(timeBuf)
    BY DEF Base, TypeOK, StampForEachScan, RunBody, HaveBoth
<1>2. Len(lidarBuf) \in Nat /\ Len(timeBuf) \in Nat /\ Len(lidarBuf) # 0
    BY <1>1
<1>3. timeBuf # <<>>
    BY <1>1, <1>2, EmptyQueue
<1>4. lidarBuf' = Tail(lidarBuf) /\ timeBuf' = Tail(timeBuf) /\ pushed' = FALSE
    BY DEF RunBody, Package, PopScan
<1>5. Tail(lidarBuf) \in Seq(Scans) /\ Len(Tail(lidarBuf)) = Len(lidarBuf) - 1
    BY <1>1
<1>6. Tail(timeBuf) \in Seq(Stamps) /\ Len(Tail(timeBuf)) = Len(timeBuf) - 1
    BY <1>1, <1>3
<1>7. StampForEachScan'
    BY <1>1, <1>2, <1>4, <1>5, <1>6 DEF StampForEachScan
<1> QED
    BY <1>1, <1>2, <1>3, <1>4, <1>5, <1>6, <1>7

LEMMA RunBodyKeeps ==
    ASSUME Base, NEW d \in Durations, RunBody(d) PROVE Base'
<1>1. TypeOK /\ UNCHANGED <<nScans, lastLidar, lastImu, jumped>> /\ (FirstScan \/ MapScan(meas'))
    BY DEF Base, RunBody, inVars
<1>2. /\ meas' \in Groups /\ imuBuf' \in Seq(Stamps) /\ meas'.end \in Nat
      /\ \A i \in DOMAIN meas'.imu : meas'.imu[i] <= meas'.end
      /\ \A i \in DOMAIN imuBuf' : imuBuf'[i] >= meas'.end /\ imuBuf'[i] <= lastImu
      /\ \A i, j \in DOMAIN imuBuf' : i < j => imuBuf'[i] < imuBuf'[j]
      /\ meas'.end = Taken(d).end
    BY PackageSplits
<1>3. /\ firstScan' \in BOOLEAN /\ initN' \in 1..(InitCount + 1)
      /\ feats' \in Scans \cup {NoScan} /\ tree' \in BOOLEAN
      /\ odom' \in [cloud : 0..MaxScans, of : 0..MaxScans]
    BY <1>1, <1>2, BodyTypes
<1>4. lidarBuf' \in Seq(Scans) /\ timeBuf' \in Seq(Stamps) /\ StampForEachScan'
      /\ pushed' = FALSE
    BY PopKeeps
<1>5. TypeOK'
    BY <1>1, <1>2, <1>3, <1>4 DEF TypeOK
<1>6. meas'.end <= lastImu
    BY <1>2, Bounds DEF RunBody, Base, TypeOK
<1>7. ImuSorted'
    BY <1>1, <1>2, <1>6 DEF ImuSorted
<1>8. ImuWindow'
    BY <1>2 DEF ImuWindow
<1> QED
    BY <1>4, <1>5, <1>7, <1>8 DEF Base

LEMMA StepBase == Base /\ [Next]_vars => Base'
<1> SUFFICES ASSUME Base, [Next]_vars PROVE Base'
    OBVIOUS
<1>1. ASSUME NEW t \in ScanStamps, NEW few \in BOOLEAN, LidarCallback(t, few) PROVE Base'
    BY <1>1, LidarCallbackKeeps
<1>2. ASSUME NEW t \in ImuStamps, ImuCallback(t) PROVE Base'
    BY <1>2, ImuCallbackKeeps
<1>3. ASSUME NEW d \in Durations, WaitForImu(d) PROVE Base'
    BY <1>3, WaitForImuKeeps
<1>4. ASSUME NEW d \in Durations, RunBody(d) PROVE Base'
    BY <1>4, RunBodyKeeps
<1>5. CASE UNCHANGED vars
  <2>1. UNCHANGED <<lidarBuf, timeBuf, imuBuf, nScans, lastLidar, lastImu, pushed, meas,
                    firstScan, initN, feats, tree, odom, jumped>>
    BY <1>5 DEF vars, bufVars, inVars, mapVars
  <2> QED
    BY <2>1 DEF Base, TypeOK, StampForEachScan, ImuSorted, ImuWindow
<1> QED
    BY <1>1, <1>2, <1>3, <1>4, <1>5 DEF Next, Run
-----------------------------------------------------------------------------
(* The queues of scans and stamps. *)

LEMMA CountArrival ==
    ASSUME NEW a \in Nat, NEW l \in Nat, NEW n \in Nat, NEW i \in Nat, a + l = n + i
    PROVE  a + (l + 1) = (n + 1) + i
    OBVIOUS

LEMMA CountAll ==
    ASSUME NEW a \in Nat, NEW l \in Nat, NEW n \in Nat
    PROVE  /\ a + l = n => a + (l + 1) = n + 1
           /\ a + l <= n => a + (l + 1) <= n + 1 /\ a + 1 <= n + 1
    OBVIOUS

LEMMA CountPop ==
    ASSUME NEW a \in Nat, NEW l \in Nat, NEW n \in Nat, NEW i \in Nat, a + l = n + (i + 1)
    PROVE  a + (l - 1) = n + i
    OBVIOUS

LEMMA CountTaken ==
    ASSUME NEW a \in Nat, NEW l \in Nat, NEW n \in Nat
    PROVE  /\ a + l = n + 1 => a + (l - 1) = n /\ a + (l - 1) <= n
           /\ a + l <= n + 1 => a + (l - 1) <= n
    OBVIOUS

LEMMA CountNext ==
    ASSUME NEW a \in Nat, NEW b \in Nat, NEW l \in Nat, NEW n \in Nat, a + l = n + 1
    PROVE  /\ b + l = n => a = b + 1
           /\ b + l <= n => a > b
    OBVIOUS

(* Where the stamp of the i-th of b scans is among a stamps. *)
LEMMA Places ==
    ASSUME NEW a \in Nat, NEW b \in Nat, b <= a
    PROVE  /\ (a + 1) - (b + 1) + (b + 1) = a + 1 /\ (a + 1) - 1 + 1 = a + 1
           /\ \A i \in 1..b : /\ a - b + i \in 1..a
                              /\ (a + 1) - (b + 1) + i = a - b + i
           /\ \A i \in 1..(b - 1) :
                /\ (a - 1) - (b - 1) + i \in 1..(a - 1)
                /\ ((a - 1) - (b - 1) + i) + 1 = a - b + (i + 1)
    OBVIOUS

LEMMA ScanNumbers == \A f \in Scans \cup {NoScan} : f.id \in Nat
    BY Bounds DEF Scans, NoScan

LEMMA NumbersOf ==
    ASSUME Base
    PROVE  /\ \A i \in DOMAIN lidarBuf : lidarBuf[i].id \in Nat /\ i \in Nat
           /\ DOMAIN lidarBuf = 1..Len(lidarBuf) /\ DOMAIN timeBuf = 1..Len(timeBuf)
           /\ meas.lidar.id \in Nat /\ Len(lidarBuf) \in Nat /\ Len(timeBuf) \in Nat
           /\ nScans \in Nat /\ lidarBuf \in Seq(Scans) /\ timeBuf \in Seq(Stamps)
<1>1. lidarBuf \in Seq(Scans) /\ timeBuf \in Seq(Stamps)
      /\ meas.lidar \in Scans \cup {NoScan} /\ nScans \in Nat
    BY Bounds DEF Base, TypeOK, Groups
<1>2. Len(lidarBuf) \in Nat /\ DOMAIN lidarBuf = 1..Len(lidarBuf)
      /\ Len(timeBuf) \in Nat /\ DOMAIN timeBuf = 1..Len(timeBuf)
      /\ \A i \in DOMAIN lidarBuf : lidarBuf[i] \in Scans
    BY <1>1, QueueDomain, Zenon
<1>3. \A i \in 1..Len(lidarBuf) : i \in Nat
    BY <1>2
<1>4. \A i \in DOMAIN lidarBuf : lidarBuf[i].id \in Nat
    BY <1>2, ScanNumbers, Zenon
<1> QED
    BY <1>1, <1>2, <1>3, <1>4, ScanNumbers, Zenon

LEMMA IInvParts == IInv <=> Base /\ BuffersPaired /\ ScansNumbered
    BY DEF IInv, Base, BuffersPaired, StampForEachScan

(* The scan that arrives. *)
LEMMA Arrival ==
    ASSUME Base, NEW t \in ScanStamps, NEW few \in BOOLEAN, LidarCallback(t, few)
    PROVE  LET x == Arrive(t, few) IN
           /\ x \in Scans /\ x.stamp = t /\ x.id = nScans + 1 /\ t \in Stamps
           /\ meas' = meas /\ pushed' = pushed /\ nScans' = nScans + 1
           /\ timeBuf' = Append(timeBuf, t)
           /\ Len(timeBuf') = Len(timeBuf) + 1 /\ timeBuf'[Len(timeBuf) + 1] = t
           /\ \A i \in 1..Len(timeBuf) : timeBuf'[i] = timeBuf[i]
           /\ \/ lidarBuf' = Append(lidarBuf, x) /\ jumped' = jumped
              \/ lidarBuf' = <<x>> /\ jumped' = "lidar"
<1>1. timeBuf \in Seq(Stamps) /\ t \in Stamps /\ nScans \in Nat
    BY Bounds DEF Base, TypeOK, ScanStamps
<1>2. nScans + 1 \in 1..MaxScans
    BY <1>1, Bounds DEF LidarCallback
<1>3. Arrive(t, few) \in Scans /\ Arrive(t, few).stamp = t /\ Arrive(t, few).id = nScans + 1
    BY <1>1, <1>2 DEF Arrive, Scans
<1>4. timeBuf' = Append(timeBuf, t)
    BY DEF LidarCallback
<1>5. Len(timeBuf') = Len(timeBuf) + 1 /\ timeBuf'[Len(timeBuf) + 1] = t
      /\ \A i \in 1..Len(timeBuf) : timeBuf'[i] = timeBuf[i]
    BY <1>1, <1>4
<1>6. \/ lidarBuf' = Append(lidarBuf, Arrive(t, few)) /\ jumped' = jumped
      \/ lidarBuf' = Append(<<>>, Arrive(t, few)) /\ jumped' = "lidar"
    BY DEF LidarCallback
<1>7. Append(<<>>, Arrive(t, few)) = <<Arrive(t, few)>>
    OBVIOUS
<1> QED
    BY <1>1, <1>3, <1>4, <1>5, <1>6, <1>7 DEF LidarCallback

(* A scan whose stamp goes back is alone in its queue, and its stamp is    *)
(* the last of those that were left.                                       *)
LEMMA LoopBackPairs ==
    ASSUME IInv, NEW x \in Scans, x.id = nScans + 1,
           meas' = meas, pushed' = pushed, nScans' = nScans + 1,
           Len(timeBuf') = Len(timeBuf) + 1, timeBuf'[Len(timeBuf) + 1] = x.stamp,
           lidarBuf' = <<x>>, jumped' = "lidar"
    PROVE  BuffersPaired' /\ ScansNumbered'
<1>1. Base /\ Len(lidarBuf) \in Nat /\ Len(timeBuf) \in Nat /\ Len(lidarBuf) <= Len(timeBuf)
      /\ nScans \in Nat /\ meas.lidar.id \in Nat
    BY IInvParts, NumbersOf DEF StampForEachScan, Base
<1>2. DOMAIN lidarBuf' = {1} /\ Len(lidarBuf') = 1 /\ lidarBuf'[1] = x
    OBVIOUS
<1>3. 1 <= Len(timeBuf')
    BY <1>1
<1>4. timeBuf'[Len(timeBuf') - 1 + 1] = x.stamp
    BY <1>1, Places, Zenon
<1>5. BuffersPaired'
    BY <1>2, <1>3, <1>4, Zenon DEF BuffersPaired
<1>6. lidarBuf'[1].id + 1 = nScans' + 1
    BY <1>2
<1>7. meas.lidar.id + Len(lidarBuf) <= IF pushed THEN nScans + 1 ELSE nScans
  <2>1. CASE jumped = "lidar"
    BY <2>1, Zenon DEF IInv, ScansNumbered
  <2>2. CASE jumped # "lidar"
    <3>1. meas.lidar.id + Len(lidarBuf) = IF pushed THEN nScans + 1 ELSE nScans
      BY <2>2, Zenon DEF IInv, ScansNumbered
    <3> QED
      BY <1>1, <3>1
  <2> QED
    BY <2>1, <2>2
<1>8. meas'.lidar.id + 1 <= IF pushed' THEN nScans' + 1 ELSE nScans'
  <2>1. CASE pushed
    <3>1. meas.lidar.id + Len(lidarBuf) <= nScans + 1 /\ nScans + 1 \in Nat
      BY <1>1, <1>7, <2>1
    <3>2. meas.lidar.id + 1 <= (nScans + 1) + 1
      BY <1>1, <3>1, CountAll
    <3> QED
      BY <2>1, <3>2, Zenon
  <2>2. CASE ~pushed
    <3>1. meas.lidar.id + Len(lidarBuf) <= nScans
      BY <1>7, <2>2, Zenon
    <3>2. meas.lidar.id + 1 <= nScans + 1
      BY <1>1, <3>1, CountAll
    <3> QED
      BY <2>2, <3>2, Zenon
  <2> QED
    BY <2>1, <2>2
<1> QED
    BY <1>2, <1>5, <1>6, <1>8, Zenon DEF ScansNumbered

(* A scan that comes in order is the last of its queue. *)
LEMMA ForwardPairs ==
    ASSUME IInv, NEW x \in Scans, x.id = nScans + 1,
           meas' = meas, pushed' = pushed, nScans' = nScans + 1,
           Len(timeBuf') = Len(timeBuf) + 1, timeBuf'[Len(timeBuf) + 1] = x.stamp,
           \A i \in 1..Len(timeBuf) : timeBuf'[i] = timeBuf[i],
           lidarBuf' = Append(lidarBuf, x), jumped' = jumped
    PROVE  BuffersPaired' /\ ScansNumbered'
<1>1. Base /\ Len(lidarBuf) \in Nat /\ Len(timeBuf) \in Nat /\ Len(lidarBuf) <= Len(timeBuf)
      /\ nScans \in Nat /\ meas.lidar.id \in Nat /\ lidarBuf \in Seq(Scans)
    BY IInvParts, NumbersOf DEF StampForEachScan, Base
<1>2. /\ DOMAIN lidarBuf = 1..Len(lidarBuf)
      /\ \A i \in DOMAIN lidarBuf' :
           \/ i \in DOMAIN lidarBuf /\ i < Len(lidarBuf) + 1 /\ lidarBuf'[i] = lidarBuf[i]
           \/ i = Len(lidarBuf) + 1 /\ lidarBuf'[i] = x
    BY <1>1, QueueAppend
<1>3. Len(lidarBuf') = Len(lidarBuf) + 1
    BY <1>1
<1>4. lidarBuf # <<>> => lidarBuf' # <<>> /\ lidarBuf'[1] = lidarBuf[1]
  <2> SUFFICES ASSUME lidarBuf # <<>> PROVE lidarBuf' # <<>> /\ lidarBuf'[1] = lidarBuf[1]
    OBVIOUS
  <2>1. 1 \in DOMAIN lidarBuf /\ Len(lidarBuf) # 0
    BY <1>1, QueueTail
  <2> QED
    BY <1>1, <2>1
<1>5. \A i \in DOMAIN lidarBuf' :
        timeBuf'[Len(timeBuf') - Len(lidarBuf') + i] = lidarBuf'[i].stamp
  <2> SUFFICES ASSUME NEW i \in DOMAIN lidarBuf'
               PROVE  timeBuf'[(Len(timeBuf) + 1) - (Len(lidarBuf) + 1) + i]
                      = lidarBuf'[i].stamp
    BY <1>3, Zenon
  <2>1. CASE i \in DOMAIN lidarBuf /\ lidarBuf'[i] = lidarBuf[i]
    <3>1. /\ Len(timeBuf) - Len(lidarBuf) + i \in 1..Len(timeBuf)
          /\ (Len(timeBuf) + 1) - (Len(lidarBuf) + 1) + i = Len(timeBuf) - Len(lidarBuf) + i
      <4>1. i \in 1..Len(lidarBuf)
        BY <1>2, <2>1, Zenon
      <4> QED
        BY <1>1, <4>1, Places
    <3>2. timeBuf[Len(timeBuf) - Len(lidarBuf) + i] = lidarBuf[i].stamp
      BY <2>1, Zenon DEF IInv, BuffersPaired
    <3> QED
      BY <2>1, <3>1, <3>2, Zenon
  <2>2. CASE i = Len(lidarBuf) + 1 /\ lidarBuf'[i] = x
    <3>1. (Len(timeBuf) + 1) - (Len(lidarBuf) + 1) + (Len(lidarBuf) + 1) = Len(timeBuf) + 1
      BY <1>1, Places, Zenon
    <3> QED
      BY <2>2, <3>1, Zenon
  <2> QED
    BY <1>2, <2>1, <2>2, Zenon
<1>6. Len(lidarBuf') <= Len(timeBuf')
      /\ (Len(lidarBuf) = Len(timeBuf) => Len(lidarBuf') = Len(timeBuf'))
    BY <1>1, <1>3
<1>7. BuffersPaired'
    BY <1>4, <1>5, <1>6, Zenon DEF IInv, BuffersPaired
<1>8. \A i \in DOMAIN lidarBuf' : lidarBuf'[i].id + Len(lidarBuf') = nScans' + i
  <2> SUFFICES ASSUME NEW i \in DOMAIN lidarBuf'
               PROVE  lidarBuf'[i].id + (Len(lidarBuf) + 1) = (nScans + 1) + i
    BY <1>3, Zenon
  <2>1. CASE i \in DOMAIN lidarBuf /\ lidarBuf'[i] = lidarBuf[i]
    <3>1. lidarBuf[i].id + Len(lidarBuf) = nScans + i /\ lidarBuf[i].id \in Nat /\ i \in Nat
      BY <1>1, <2>1, NumbersOf, Zenon DEF IInv, ScansNumbered
    <3>2. lidarBuf[i].id + (Len(lidarBuf) + 1) = (nScans + 1) + i
      <4>1. PICK a \in Nat, l \in Nat, n \in Nat, k \in Nat :
              a = lidarBuf[i].id /\ l = Len(lidarBuf) /\ n = nScans /\ k = i
        BY <1>1, <3>1, Zenon
      <4>2. a + l = n + k
        BY <3>1, <4>1, Zenon
      <4>3. a + (l + 1) = (n + 1) + k
        BY <4>2, CountArrival
      <4> QED
        BY <4>1, <4>3, Zenon
    <3> QED
      BY <2>1, <3>2, Zenon
  <2>2. CASE i = Len(lidarBuf) + 1 /\ lidarBuf'[i] = x
    BY <2>2, Zenon
  <2> QED
    BY <1>2, <2>1, <2>2, Zenon
<1>9. LET last == IF pushed' THEN nScans' + 1 ELSE nScans'
      IN IF jumped' = "lidar" THEN meas'.lidar.id + Len(lidarBuf') <= last
         ELSE meas'.lidar.id + Len(lidarBuf') = last
  <2> DEFINE last == IF pushed THEN nScans + 1 ELSE nScans
  <2>1. last \in Nat
    BY <1>1
  <2>2. last + 1 = IF pushed' THEN nScans' + 1 ELSE nScans'
    BY Zenon
  <2>3. IF jumped = "lidar" THEN meas.lidar.id + Len(lidarBuf) <= last
        ELSE meas.lidar.id + Len(lidarBuf) = last
    BY Zenon DEF IInv, ScansNumbered
  <2> HIDE DEF last
  <2>4. IF jumped = "lidar" THEN meas.lidar.id + (Len(lidarBuf) + 1) <= last + 1
        ELSE meas.lidar.id + (Len(lidarBuf) + 1) = last + 1
    <3>1. CASE jumped = "lidar"
      BY <1>1, <2>1, <2>3, <3>1, CountAll, Zenon
    <3>2. CASE jumped # "lidar"
      BY <1>1, <2>1, <2>3, <3>2, CountAll, Zenon
    <3> QED
      BY <3>1, <3>2, Zenon
  <2> QED
    BY <1>3, <2>2, <2>4, Zenon
<1> QED
    BY <1>7, <1>8, <1>9, Zenon DEF ScansNumbered

LEMMA ArrivalPairs ==
    ASSUME IInv, NEW t \in ScanStamps, NEW few \in BOOLEAN, LidarCallback(t, few)
    PROVE  BuffersPaired' /\ ScansNumbered'
<1>1. Base
    BY IInvParts
<1> QED
    BY <1>1, Arrival, LoopBackPairs, ForwardPairs, Zenon

(* The scan taken is the oldest of the queue, with its own stamp unless a  *)
(* lidar loop back came before; a scan already taken stays the scan.       *)
LEMMA TakenPairs ==
    ASSUME IInv, NEW d \in Durations, lidarBuf # <<>>
    PROVE  /\ jumped # "lidar" => /\ Taken(d).lidar = lidarBuf[1]
                                  /\ Taken(d).beg = lidarBuf[1].stamp
           /\ pushed => Taken(d).lidar = meas.lidar
           /\ ~pushed => Taken(d).lidar = lidarBuf[1]
           /\ lidarBuf[1].id + Len(lidarBuf) = nScans + 1
           /\ lidarBuf[1].id \in Nat /\ Len(lidarBuf) \in Nat /\ nScans \in Nat
           /\ meas.lidar.id \in Nat
           /\ ~pushed => IF jumped = "lidar" THEN lidarBuf[1].id > meas.lidar.id
                         ELSE lidarBuf[1].id = meas.lidar.id + 1
<1>1. lidarBuf \in Seq(Scans) /\ timeBuf \in Seq(Stamps) /\ nScans \in Nat
      /\ Len(lidarBuf) \in Nat /\ Len(timeBuf) \in Nat /\ meas.lidar.id \in Nat
      /\ \A i \in DOMAIN lidarBuf : lidarBuf[i].id \in Nat
    BY IInvParts, NumbersOf
<1>2. 1 \in DOMAIN lidarBuf /\ Head(lidarBuf) = lidarBuf[1]
    BY <1>1, QueueTail
<1>3. lidarBuf[1].id + Len(lidarBuf) = nScans + 1 /\ lidarBuf[1].id \in Nat
    BY <1>1, <1>2, Zenon DEF IInv, ScansNumbered
<1>4. ASSUME jumped # "lidar"
      PROVE  Taken(d).lidar = lidarBuf[1] /\ Taken(d).beg = lidarBuf[1].stamp
  <2>1. Len(lidarBuf) = Len(timeBuf)
    BY <1>4 DEF IInv, BuffersPaired
  <2>2. Len(lidarBuf) # 0
    BY <1>1
  <2>3. timeBuf # <<>>
    BY <2>1, <2>2, EmptyQueue
  <2>4. Head(timeBuf) = timeBuf[1]
    BY <1>1, <2>3, QueueTail
  <2>5. Len(timeBuf) - Len(lidarBuf) + 1 = 1
    BY <1>1, <2>1
  <2>6. timeBuf[1] = lidarBuf[1].stamp
    BY <1>2, <2>5, Zenon DEF IInv, BuffersPaired
  <2>7. pushed => meas.lidar = lidarBuf[1] /\ meas.beg = lidarBuf[1].stamp
    BY <1>4 DEF IInv, BuffersPaired
  <2> QED
    BY <1>2, <2>4, <2>6, <2>7 DEF Taken
<1>5. (pushed => Taken(d).lidar = meas.lidar) /\ (~pushed => Taken(d).lidar = lidarBuf[1])
    BY <1>2 DEF Taken
<1>6. ASSUME ~pushed
      PROVE  IF jumped = "lidar" THEN lidarBuf[1].id > meas.lidar.id
             ELSE lidarBuf[1].id = meas.lidar.id + 1
  <2>1. IF jumped = "lidar" THEN meas.lidar.id + Len(lidarBuf) <= nScans
        ELSE meas.lidar.id + Len(lidarBuf) = nScans
    BY <1>6, Zenon DEF IInv, ScansNumbered
  <2>2. CASE jumped = "lidar"
    <3>1. meas.lidar.id + Len(lidarBuf) <= nScans
      BY <2>1, <2>2, Zenon
    <3>2. lidarBuf[1].id > meas.lidar.id
      BY <1>1, <1>3, <3>1, CountNext
    <3> QED
      BY <2>2, <3>2, Zenon
  <2>3. CASE jumped # "lidar"
    <3>1. meas.lidar.id + Len(lidarBuf) = nScans
      BY <2>1, <2>3, Zenon
    <3>2. lidarBuf[1].id = meas.lidar.id + 1
      BY <1>1, <1>3, <3>1, CountNext
    <3> QED
      BY <2>3, <3>2, Zenon
  <2> QED
    BY <2>2, <2>3, Zenon
<1> QED
    BY <1>1, <1>3, <1>4, <1>5, <1>6, Zenon

LEMMA WaitPairs ==
    ASSUME IInv, NEW d \in Durations, WaitForImu(d)
    PROVE  BuffersPaired' /\ ScansNumbered'
<1>1. lidarBuf # <<>> /\ meas' = Taken(d) /\ pushed' = TRUE /\ ~pushed
      /\ UNCHANGED <<lidarBuf, timeBuf, nScans, jumped>>
    BY DEF WaitForImu, HaveBoth, bufVars, inVars
<1>2. /\ Taken(d).lidar = lidarBuf[1]
      /\ jumped # "lidar" => Taken(d).beg = lidarBuf[1].stamp
      /\ lidarBuf[1].id + Len(lidarBuf) = nScans + 1 /\ nScans \in Nat
    BY <1>1, TakenPairs
<1>3. BuffersPaired'
    BY <1>1, <1>2 DEF IInv, BuffersPaired
<1>4. nScans + 1 <= nScans + 1
    BY <1>2
<1>5. ScansNumbered'
    BY <1>1, <1>2, <1>4, Zenon DEF IInv, ScansNumbered
<1> QED
    BY <1>3, <1>5

LEMMA BodyPairs ==
    ASSUME IInv, NEW d \in Durations, RunBody(d)
    PROVE  BuffersPaired' /\ ScansNumbered'
<1>1. Base /\ lidarBuf # <<>> /\ Len(lidarBuf) <= Len(timeBuf)
      /\ UNCHANGED <<nScans, jumped>>
    BY IInvParts DEF Base, StampForEachScan, RunBody, HaveBoth, inVars
<1>2. meas'.lidar = Taken(d).lidar /\ meas'.beg = Taken(d).beg
    BY <1>1, PackageSplits
<1>3. /\ lidarBuf' = Tail(lidarBuf) /\ timeBuf' = Tail(timeBuf) /\ pushed' = FALSE
      /\ lidarBuf' \in Seq(Scans) /\ timeBuf' \in Seq(Stamps)
      /\ Len(lidarBuf') = Len(lidarBuf) - 1 /\ Len(timeBuf') = Len(timeBuf) - 1
      /\ Len(lidarBuf') <= Len(timeBuf')
      /\ timeBuf # <<>> /\ Len(lidarBuf) \in Nat /\ Len(timeBuf) \in Nat
    BY <1>1, PopKeeps DEF StampForEachScan
<1>4. lidarBuf \in Seq(Scans) /\ timeBuf \in Seq(Stamps)
      /\ DOMAIN lidarBuf' = 1..(Len(lidarBuf) - 1) /\ DOMAIN timeBuf' = 1..(Len(timeBuf) - 1)
    BY <1>1, <1>3, NumbersOf, QueueDomain, Zenon
<1>5. \A i \in DOMAIN lidarBuf' :
        i \in Nat /\ i + 1 \in DOMAIN lidarBuf /\ lidarBuf'[i] = lidarBuf[i + 1]
    BY <1>1, <1>3, <1>4, QueueTail, Zenon
<1>6. \A i \in DOMAIN timeBuf' : timeBuf'[i] = timeBuf[i + 1]
    BY <1>3, <1>4, QueueTail, Zenon
<1>7. \A i \in DOMAIN lidarBuf' :
        timeBuf'[Len(timeBuf') - Len(lidarBuf') + i] = lidarBuf'[i].stamp
  <2> SUFFICES ASSUME NEW i \in DOMAIN lidarBuf'
               PROVE  timeBuf'[(Len(timeBuf) - 1) - (Len(lidarBuf) - 1) + i]
                      = lidarBuf'[i].stamp
    BY <1>3, Zenon
  <2> DEFINE k == (Len(timeBuf) - 1) - (Len(lidarBuf) - 1) + i
  <2>1. k \in DOMAIN timeBuf' /\ k + 1 = Len(timeBuf) - Len(lidarBuf) + (i + 1)
    <3>1. i \in 1..(Len(lidarBuf) - 1)
      BY <1>4, Zenon
    <3>2. k \in 1..(Len(timeBuf) - 1) /\ k + 1 = Len(timeBuf) - Len(lidarBuf) + (i + 1)
      BY <1>1, <1>3, <3>1, Places
    <3> QED
      BY <1>4, <3>2, Zenon
  <2> HIDE DEF k
  <2>2. timeBuf'[k] = timeBuf[Len(timeBuf) - Len(lidarBuf) + (i + 1)]
    BY <1>6, <2>1, Zenon
  <2>3. timeBuf[Len(timeBuf) - Len(lidarBuf) + (i + 1)] = lidarBuf[i + 1].stamp
    BY <1>5, Zenon DEF IInv, BuffersPaired
  <2>4. timeBuf'[k] = lidarBuf'[i].stamp
    BY <1>5, <2>2, <2>3, Zenon
  <2> QED
    BY <2>4, Zenon DEF k
<1>8. ASSUME jumped # "lidar"
      PROVE  Len(lidarBuf') = Len(timeBuf') /\ meas'.beg = meas'.lidar.stamp
  <2>1. Len(lidarBuf) = Len(timeBuf)
    BY <1>8 DEF IInv, BuffersPaired
  <2> QED
    BY <1>1, <1>2, <1>3, <1>8, <2>1, TakenPairs
<1>9. BuffersPaired'
    BY <1>1, <1>3, <1>7, <1>8, Zenon DEF BuffersPaired
<1>10. \A i \in DOMAIN lidarBuf' : lidarBuf'[i].id + Len(lidarBuf') = nScans' + i
  <2> SUFFICES ASSUME NEW i \in DOMAIN lidarBuf'
               PROVE  lidarBuf'[i].id + (Len(lidarBuf) - 1) = nScans + i
    BY <1>1, <1>3, Zenon
  <2>1. lidarBuf[i + 1].id + Len(lidarBuf) = nScans + (i + 1)
        /\ lidarBuf[i + 1].id \in Nat /\ i \in Nat /\ nScans \in Nat
    BY <1>1, <1>5, NumbersOf, Zenon DEF IInv, ScansNumbered
  <2>2. lidarBuf[i + 1].id + (Len(lidarBuf) - 1) = nScans + i
    <3>1. PICK a \in Nat, l \in Nat, n \in Nat, k \in Nat :
            a = lidarBuf[i + 1].id /\ l = Len(lidarBuf) /\ n = nScans /\ k = i
      BY <1>3, <2>1, Zenon
    <3>2. a + l = n + (k + 1)
      BY <2>1, <3>1, Zenon
    <3>3. a + (l - 1) = n + k
      BY <3>2, CountPop
    <3> QED
      BY <3>1, <3>3, Zenon
  <2> QED
    BY <1>5, <2>2, Zenon
<1>11. IF jumped' = "lidar" THEN meas'.lidar.id + Len(lidarBuf') <= nScans'
       ELSE meas'.lidar.id + Len(lidarBuf') = nScans'
  <2>1. /\ lidarBuf[1].id + Len(lidarBuf) = nScans + 1
        /\ lidarBuf[1].id \in Nat /\ meas.lidar.id \in Nat /\ nScans \in Nat
        /\ jumped # "lidar" \/ ~pushed => meas'.lidar = lidarBuf[1]
        /\ pushed => meas'.lidar = meas.lidar
    BY <1>1, <1>2, TakenPairs, Zenon
  <2>2. CASE jumped # "lidar" \/ ~pushed
    <3>1. lidarBuf[1].id + (Len(lidarBuf) - 1) = nScans
          /\ lidarBuf[1].id + (Len(lidarBuf) - 1) <= nScans
      BY <1>3, <2>1, CountTaken, Zenon
    <3> QED
      BY <1>1, <1>3, <2>1, <2>2, <3>1, Zenon
  <2>3. CASE jumped = "lidar" /\ pushed
    <3>1. meas.lidar.id + Len(lidarBuf) <= nScans + 1
      BY <2>3, Zenon DEF IInv, ScansNumbered
    <3>2. meas.lidar.id + (Len(lidarBuf) - 1) <= nScans
      BY <1>3, <2>1, <3>1, CountTaken, Zenon
    <3> QED
      BY <1>1, <1>3, <2>1, <2>3, <3>2, Zenon
  <2> QED
    BY <2>2, <2>3, Zenon
<1> QED
    BY <1>3, <1>9, <1>10, <1>11, Zenon DEF ScansNumbered

LEMMA InitIInv == Init => IInv
<1> SUFFICES ASSUME Init PROVE IInv
    OBVIOUS
<1>1. BuffersPaired
    BY EmptyQueue DEF Init, BuffersPaired, NoScan
<1>2. ScansNumbered
    BY EmptyQueue DEF Init, ScansNumbered, NoScan
<1> QED
    BY <1>1, <1>2, InitBase, IInvParts

LEMMA StepIInv == IInv /\ [Next]_vars => IInv'
<1> SUFFICES ASSUME IInv, [Next]_vars PROVE BuffersPaired' /\ ScansNumbered'
  <2>1. IInv /\ [Next]_vars => Base'
    BY IInvParts, StepBase
  <2> QED
    BY <2>1 DEF IInv, Base, BuffersPaired
<1>1. ASSUME NEW t \in ScanStamps, NEW few \in BOOLEAN, LidarCallback(t, few)
      PROVE  BuffersPaired' /\ ScansNumbered'
    BY <1>1, ArrivalPairs
<1>2. ASSUME NEW t \in ImuStamps, ImuCallback(t)
      PROVE  BuffersPaired' /\ ScansNumbered'
  <2>1. UNCHANGED <<lidarBuf, timeBuf, nScans, pushed, meas>>
    BY <1>2 DEF ImuCallback
  <2>2. (jumped' = "lidar") <=> (jumped = "lidar")
    <3>1. lastImu \in Nat /\ \A s \in ImuSteps : ~(lastImu + s < lastImu)
      BY Bounds DEF IInv, TypeOK
    <3>2. t < lastImu => jumped = "none"
      BY <3>1 DEF ImuStamps, MayJump
    <3> QED
      BY <1>2, <3>2 DEF ImuCallback
  <2> QED
    BY <2>1, <2>2 DEF IInv, BuffersPaired, ScansNumbered
<1>3. ASSUME NEW d \in Durations, WaitForImu(d)
      PROVE  BuffersPaired' /\ ScansNumbered'
    BY <1>3, WaitPairs
<1>4. ASSUME NEW d \in Durations, RunBody(d)
      PROVE  BuffersPaired' /\ ScansNumbered'
    BY <1>4, BodyPairs
<1>5. CASE UNCHANGED vars
  <2>1. UNCHANGED <<lidarBuf, timeBuf, nScans, pushed, meas, jumped>>
    BY <1>5 DEF vars, bufVars, inVars
  <2> QED
    BY <2>1 DEF IInv, BuffersPaired, ScansNumbered
<1> QED
    BY <1>1, <1>2, <1>3, <1>4, <1>5 DEF Next, Run

(* The inductive invariant holds in every reachable state. *)
THEOREM Inductive == Spec => []IInv
<1> QED
    BY InitIInv, StepIInv, PTL DEF Spec

(* The pipeline's state has the declared types, also after a loop back:    *)
(* sync_packages never takes the front of an empty stamp queue.            *)
THEOREM TypeCorrect == Spec => []TypeOK
<1>1. IInv => TypeOK
    BY DEF IInv
<1> QED
    BY <1>1, Inductive, PTL

(* However IMU samples are spaced and whatever the lidar stamps, a group   *)
(* holds no sample after its end and, unless IMU stamps went back, leaves  *)
(* none before it.                                                         *)
THEOREM WindowExact == Spec => []ImuWindow
<1>1. IInv => ImuWindow
    BY DEF IInv
<1> QED
    BY <1>1, Inductive, PTL

(* lidar_buffer_ and time_buffer_ stay in step, and a group has the stamp  *)
(* of its own scan; after a lidar loop back there is still a stamp for     *)
(* each queued scan, behind those of the scans that were dropped.          *)
THEOREM StampsPaired == Spec => []BuffersPaired
<1>1. IInv => BuffersPaired
    BY DEF IInv
<1> QED
    BY <1>1, Inductive, PTL

(* No scan is taken twice or before an earlier one, and none is skipped    *)
(* unless lidar stamps went back.                                          *)
THEOREM GroupsInOrder == Spec => ScansInOrder
<1> DEFINE NextScan ==
             meas'.lidar # meas.lidar =>
               IF jumped = "lidar" THEN meas'.lidar.id > meas.lidar.id
               ELSE meas'.lidar.id = meas.lidar.id + 1
<1>1. ASSUME IInv, NEW d \in Durations, WaitForImu(d) PROVE NextScan
  <2>1. meas' = Taken(d) /\ lidarBuf # <<>> /\ ~pushed
    BY <1>1 DEF WaitForImu, HaveBoth
  <2> QED
    BY <1>1, <2>1, TakenPairs
<1>2. ASSUME IInv, NEW d \in Durations, RunBody(d) PROVE NextScan
  <2>1. meas'.lidar = Taken(d).lidar /\ lidarBuf # <<>>
    BY <1>2, IInvParts, PackageSplits DEF RunBody, HaveBoth
  <2> QED
    BY <1>2, <2>1, TakenPairs
<1>3. IInv /\ [Next]_vars => [NextScan]_vars
  <2> SUFFICES ASSUME IInv, Next PROVE NextScan
    OBVIOUS
  <2>1. ASSUME NEW t \in ScanStamps, NEW few \in BOOLEAN, LidarCallback(t, few)
        PROVE  NextScan
    BY <2>1 DEF LidarCallback
  <2>2. ASSUME NEW t \in ImuStamps, ImuCallback(t) PROVE NextScan
    BY <2>2 DEF ImuCallback
  <2> QED
    BY <1>1, <1>2, <2>1, <2>2 DEF Next, Run
<1> HIDE DEF NextScan
<1>4. Spec => [][NextScan]_vars
    BY <1>3, Inductive, PTL DEF Spec
<1> QED
    BY <1>4 DEF NextScan, ScansInOrder
-----------------------------------------------------------------------------
(* The body of run() keeps CloudNeedsInit, and registers a cloud that IMU  *)
(* samples came with for the group it belongs to.                          *)
LEMMA BodyRegisters ==
    ASSUME TypeOK, CloudNeedsInit, NEW m, FirstScan \/ MapScan(m)
    PROVE  /\ CloudNeedsInit'
           /\ odom' # odom /\ m.imu # <<>> => odom'.cloud = odom'.of
<1>1. initN \in Nat /\ InitCount \in Nat
    BY LioAssumption DEF TypeOK
<1>2. CASE FirstScan
    BY <1>2 DEF FirstScan, CloudNeedsInit
<1>3. CASE MapScan(m)
  <2>1. CASE NoImu(m)
    BY <1>3, <2>1 DEF NoImu, MapScan, CloudNeedsInit
  <2>2. CASE ImuInit(m)
    <3>1. feats = NoScan /\ feats' = NoScan
      BY <2>2 DEF ImuInit, CloudNeedsInit
    <3>2. feats'.few
      BY <3>1, Zenon DEF NoScan
    <3>3. UNCHANGED odom
      BY <1>3, <3>2 DEF MapScan, SkipScan, BuildMap, Register
    <3> QED
      BY <3>1, <3>3 DEF CloudNeedsInit
  <2>3. CASE UndistortPcl(m)
    <3>1. feats' = m.lidar /\ initN' = initN /\ ~(initN <= InitCount)
      BY <1>1, <2>3 DEF UndistortPcl
    <3>2. CloudNeedsInit'
      BY <3>1 DEF CloudNeedsInit
    <3>3. odom' = odom \/ odom' = [cloud |-> feats'.id, of |-> m.lidar.id]
      BY <1>3 DEF MapScan, SkipScan, BuildMap, Register
    <3> QED
      BY <3>1, <3>2, <3>3
  <2> QED
    BY <1>3, <2>1, <2>2, <2>3 DEF MapScan, Process
<1> QED
    BY <1>2, <1>3

(* Whatever stamps arrive, the odometry published for a group with IMU     *)
(* samples is computed from that group's cloud.                            *)
THEOREM SamplesGiveOwnCloud == Spec => OdometryFromSamples
<1> DEFINE OwnCloud == odom' # odom /\ meas'.imu # <<>> => odom'.cloud = odom'.of
           CInv == IInv /\ CloudNeedsInit
<1>1. Init => CInv
    BY InitIInv DEF Init, CloudNeedsInit
<1>2. CInv /\ [Next]_vars => CInv' /\ [OwnCloud]_vars
  <2> SUFFICES ASSUME CInv, [Next]_vars PROVE CloudNeedsInit' /\ [OwnCloud]_vars
    BY StepIInv
  <2>1. CASE UNCHANGED mapVars
    BY <2>1 DEF mapVars, CloudNeedsInit
  <2>2. ASSUME NEW d \in Durations, RunBody(d) PROVE CloudNeedsInit' /\ OwnCloud
    BY <2>2, BodyRegisters DEF RunBody, IInv
  <2>3. ASSUME NEW t \in ScanStamps, NEW few \in BOOLEAN, LidarCallback(t, few)
        PROVE  UNCHANGED mapVars
    BY <2>3 DEF LidarCallback
  <2>4. ASSUME NEW t \in ImuStamps, ImuCallback(t) PROVE UNCHANGED mapVars
    BY <2>4 DEF ImuCallback
  <2>5. ASSUME NEW d \in Durations, WaitForImu(d) PROVE UNCHANGED mapVars
    BY <2>5 DEF WaitForImu
  <2>6. UNCHANGED vars => UNCHANGED mapVars
    BY DEF vars
  <2> QED
    BY <2>1, <2>2, <2>3, <2>4, <2>5, <2>6 DEF Next, Run
<1> HIDE DEF OwnCloud, CInv
<1>3. Spec => [][OwnCloud]_vars
    BY <1>1, <1>2, PTL DEF Spec
<1> QED
    BY <1>3 DEF OwnCloud, OdometryFromSamples
=============================================================================
