--------------------------- MODULE LioStackProofs ---------------------------
(* Proofs about LioStack, for any track, worlds, lidar and parameters:     *)
(* types, what a stop of the estopper is about, that silence is reported,  *)
(* and what a move of the cube leaves in the map.                          *)
EXTENDS LioStack, FiniteSetTheorems, TLAPS

-----------------------------------------------------------------------------
(* LioNode: the points of a scan, the map and the cube. *)

(* What is left of a scan was in it. *)
LEMMA PointsSeen ==
    ASSUME NEW timed \in BOOLEAN, NEW points \in Scanned(timed)
    PROVE  points \subseteq Scan
<1>1. points \in Velodyne(Scan, timed, params.filter, params.blind)
        \/ points \in Plain(Scan, params.filter, params.blind) \/ points \in {{}}
    BY Zenon DEF Scanned, Process
<1>2. \A k \in Sampled(Scan, params.filter) : k \subseteq Scan
    BY DEF Sampled
<1>3. CASE points \in Velodyne(Scan, timed, params.filter, params.blind)
    BY <1>2, <1>3 DEF Velodyne
<1>4. CASE points \in Plain(Scan, params.filter, params.blind)
    BY <1>2, <1>4 DEF Plain
<1> QED
    BY <1>1, <1>3, <1>4

LEMMA Back == ASSUME NEW o \in Int, NEW p \in Int PROVE o - p + p = o
    OBVIOUS

(* What goes to the map and to the topic are places of obstacles. *)
LEMMA PointsAreObstacles ==
    ASSUME world \subseteq Int, pos \in Int,
           NEW points, points \subseteq Scan
    PROVE  ToWorld(points) \subseteq world
<1> SUFFICES ASSUME NEW p \in points PROVE p.at + pos \in world
    BY DEF ToWorld
<1>1. PICK o \in world : p = [at |-> o - pos, ring |-> o % 2]
    BY DEF Scan
<1>2. p.at + pos = o
    BY <1>1, Back
<1> QED
    BY <1>2

LEMMA MovDistTyped ==
    ASSUME params \in Params, NEW l \in Nat, params.cubeLen = l
    PROVE  MovDist \in Int
<1>1. DetRange \in Nat
    BY StackAssumption DEF DetRange, Params
<1>2. (9 * (l - 3 * DetRange)) \div 20 \in Int /\ DetRange \div 2 \in Int
    BY <1>1
<1> QED
    BY <1>2 DEF MovDist

CubeType == [set : BOOLEAN, min : Int, len : Cubes \cup {0}]

LEMMA CubeTyped ==
    ASSUME params \in Params, pos \in Int, cube \in CubeType, FovSegment
    PROVE  cube' \in CubeType
<1>1. Cubes \subseteq Nat /\ params.cubeLen \in Cubes
    BY StackAssumption DEF Params
<1>2. MovDist \in Int
    BY <1>1, MovDistTyped
<1>3. pos - params.cubeLen \div 2 \in Int
  <2>1. \A l \in Nat : pos - l \div 2 \in Int
    OBVIOUS
  <2> QED
    BY <1>1, <2>1
<1>4. CASE ~cube.set
    BY <1>1, <1>3, <1>4 DEF FovSegment, CubeType
<1>5. CASE cube.set /\ ~MustMove
    BY <1>5 DEF FovSegment
<1>6. CASE cube.set /\ MustMove
  <2>1. cube.min - MovDist \in Int /\ cube.min + MovDist \in Int
    BY <1>2 DEF CubeType
  <2>2. \E n \in Int : cube' = [set |-> TRUE, len |-> cube.len, min |-> n]
    <3>1. CASE NearMin
      BY <1>6, <2>1, <3>1 DEF FovSegment
    <3>2. CASE ~NearMin
      BY <1>6, <2>1, <3>2 DEF FovSegment
    <3> QED
      BY <3>1, <3>2
  <2>3. cube.len \in Cubes \cup {0}
    BY DEF CubeType
  <2> QED
    BY <2>2, <2>3 DEF CubeType
<1> QED
    BY <1>4, <1>5, <1>6

(* A cube of three times the range at least, with its faces at lo and      *)
(* lo + l: what a move of m takes at the one face is out of the range from *)
(* where the robot is, near the other.                                     *)
LEMMA MoveIsShort ==
    ASSUME NEW r \in Nat, NEW l \in Nat, l >= 3 * r,
           NEW m \in Int,
           m = (9 * (l - 3 * r)) \div 20 \/ m = r \div 2
    PROVE  2 * (l - m) >= 5 * r
<1>1. CASE m = (9 * (l - 3 * r)) \div 20
  <2>1. 20 * m <= 9 * (l - 3 * r)
    BY <1>1
  <2> QED
    BY <2>1
<1>2. CASE m = r \div 2
  <2>1. 2 * m <= r
    BY <1>2
  <2> QED
    BY <2>1
<1> QED
    BY <1>1, <1>2

LEMMA FarFromMin ==
    ASSUME NEW r \in Nat, NEW l \in Nat, NEW m \in Int, 2 * (l - m) >= 5 * r,
           NEW lo \in Int, NEW at \in Int, NEW p \in Int,
           at - lo <= (3 * r) \div 2, lo + l - m <= p
    PROVE  p - at >= r
<1>1. 2 * ((3 * r) \div 2) <= 3 * r
    OBVIOUS
<1> QED
    BY <1>1

LEMMA FarFromMax ==
    ASSUME NEW r \in Nat, NEW l \in Nat, NEW m \in Int, 2 * (l - m) >= 5 * r,
           NEW lo \in Int, NEW at \in Int, NEW p \in Int,
           -(at - lo - l) <= (3 * r) \div 2, p <= lo + m
    PROVE  at - p >= r
<1>1. 2 * ((3 * r) \div 2) <= 3 * r
    OBVIOUS
<1> QED
    BY <1>1

LEMMA AbsFacts ==
    ASSUME NEW n \in Int
    PROVE  Abs(n) >= n /\ Abs(n) >= -n
    BY DEF Abs

LEMMA NearIsKept ==
    ASSUME params \in Params, pos \in Int, cube \in CubeType, map \subseteq Int,
           cube.len = params.cubeLen, cube.len >= 3 * DetRange,
           NEW p \in map, Abs(p - pos) < DetRange
    PROVE  p \in Kept
<1> SUFFICES ASSUME MustMove PROVE p \notin Removed
    BY DEF Kept
<1>1. /\ DetRange \in Nat /\ cube.len \in Nat /\ cube.min \in Int
      /\ params.cubeLen \in Nat /\ p \in Int
    BY StackAssumption DEF Params, CubeType, DetRange
<1>2. MovDist \in Int
    BY <1>1, MovDistTyped
<1>3. MovDist = (9 * (cube.len - 3 * DetRange)) \div 20 \/ MovDist = DetRange \div 2
    BY Zenon DEF MovDist
<1>4. PICK r \in Nat, l \in Nat, lo \in Int, m \in Int, at \in Int :
        DetRange = r /\ cube.len = l /\ cube.min = lo /\ MovDist = m /\ pos = at
    BY <1>1, <1>2
<1>5. 2 * (l - m) >= 5 * r
    BY <1>3, <1>4, MoveIsShort
<1>6. Abs(p - at) < r /\ Abs(p - at) >= p - at /\ Abs(p - at) >= -(p - at)
      /\ Abs(p - at) \in Int
    BY <1>1, <1>4, AbsFacts DEF Abs
<1>7. p - at < r /\ at - p < r
    BY <1>1, <1>6
<1>8. CASE NearMin
  <2>1. at - lo <= (3 * r) \div 2
    <3>1. Abs(at - lo) <= (3 * r) \div 2
      BY <1>4, <1>8 DEF NearMin, Threshold
    <3>2. Abs(at - lo) >= at - lo /\ Abs(at - lo) \in Int
      BY AbsFacts DEF Abs
    <3> QED
      BY <3>1, <3>2
  <2>2. ASSUME lo + l - m <= p PROVE FALSE
    BY <1>1, <1>5, <1>7, <2>1, <2>2, FarFromMin
  <2> QED
    BY <1>4, <1>8, <2>2 DEF Removed
<1>9. CASE ~NearMin
  <2>1. -(at - lo - l) <= (3 * r) \div 2
    <3>1. Abs(at - lo - l) <= (3 * r) \div 2
      BY <1>4, <1>9 DEF NearMax, MustMove, Threshold
    <3>2. Abs(at - lo - l) >= -(at - lo - l) /\ Abs(at - lo - l) \in Int
      BY AbsFacts DEF Abs
    <3> QED
      BY <3>1, <3>2
  <2>2. ASSUME p <= lo + m PROVE FALSE
    BY <1>1, <1>5, <1>7, <2>1, <2>2, FarFromMax
  <2> QED
    BY <1>4, <1>9, <2>2 DEF Removed
<1> QED
    BY <1>8, <1>9

-----------------------------------------------------------------------------
(* The inductive invariant. *)

EmptyUntilBuilt == built \/ map = {}

(* What waits for the estopper are places of obstacles. *)
CloudOfObstacles == inbox \subseteq world

(* In the second of a summary silence is reported one second earlier. *)
SilenceInSummary ==
    \A m \in judged : \A t \in D!Watched(m) :
        age[t] > (IF due THEN limit + 1 ELSE limit) => level[m] # "OK"

IInv ==
    /\ TypeOK
    /\ EmptyUntilBuilt
    /\ CloudOfObstacles
    /\ StopIsAboutOrigin
    /\ SilenceInSummary

ScanInv == ScanTypeOK /\ EmptyUntilBuilt
StopInv == E!EstopperTypeOK /\ CloudOfObstacles /\ StopIsAboutOrigin
DiagnosticsInv == D!DiagnosticsTypeOK /\ SilenceInSummary

LEMMA PartsOfIInv ==
    IInv <=> driving \in BOOLEAN /\ ScanInv /\ StopInv /\ DiagnosticsInv
    BY DEF IInv, TypeOK, ScanInv, StopInv, DiagnosticsInv

LEMMA InitIInv == Init => IInv
<1> SUFFICES ASSUME Init PROVE IInv
    OBVIOUS
<1>1. ScanInv
  <2>1. pos \in Track /\ world \in Worlds /\ type \in Lidars /\ params \in Params
        /\ up \in BOOLEAN /\ built \in BOOLEAN /\ map = {}
    BY StackAssumption DEF Init, ScanInit
  <2>2. cube \in [set : BOOLEAN, min : Int, len : Cubes \cup {0}]
    BY DEF Init, ScanInit, NoCube
  <2> QED
    BY <2>1, <2>2 DEF ScanInv, ScanTypeOK, EmptyUntilBuilt
<1>2. StopInv
    BY DEF Init, StopInv, E!EstopperInit, E!EstopperTypeOK, E!NoCloud,
           CloudOfObstacles, StopIsAboutOrigin
<1>3. DiagnosticsInv
  <2>1. age \in [D!Topics -> D!Never..Oldest]
    BY StackAssumption DEF Init, D!DiagnosticsInit, D!Never
  <2>2. level \in [D!Monitors -> D!Levels]
    BY DEF Init, D!DiagnosticsInit, D!Levels
  <2> QED
    BY <2>1, <2>2 DEF Init, D!DiagnosticsInit, DiagnosticsInv, D!DiagnosticsTypeOK,
                      SilenceInSummary
<1>4. driving \in BOOLEAN
    BY DEF Init
<1> QED
    BY <1>1, <1>2, <1>3, <1>4, PartsOfIInv

-----------------------------------------------------------------------------
(* The steps of each node preserve its part. *)

LEMMA Placed ==
    ASSUME ScanInv
    PROVE  /\ world \subseteq Int /\ pos \in Int /\ cube \in CubeType
           /\ map \subseteq Int /\ params \in Params
    BY StackAssumption DEF ScanInv, ScanTypeOK, CubeType

LEMMA ScanUnchanged ==
    ASSUME ScanInv, UNCHANGED scanVars PROVE ScanInv'
    BY DEF ScanInv, ScanTypeOK, EmptyUntilBuilt, scanVars, Params

LEMMA SetParameterScan ==
    ASSUME ScanInv, NEW name \in DOMAIN Values, NEW value \in Values[name],
           SetParameter(name, value)
    PROVE  ScanInv' /\ world' = world
<1>1. name \in {"cubeLen", "detRange", "blind", "lines", "filter", "scanPub"}
    BY DEF Values
<1>2. params' \in Params
    BY <1>1 DEF ScanInv, ScanTypeOK, SetParameter, Params, Values
<1> QED
    BY <1>2 DEF ScanInv, ScanTypeOK, EmptyUntilBuilt, SetParameter

LEMMA DriveScan ==
    ASSUME ScanInv, NEW to \in Track, Drive(to)
    PROVE  ScanInv' /\ world' = world
    BY DEF ScanInv, ScanTypeOK, EmptyUntilBuilt, Drive, Params

LEMMA CrashScan ==
    ASSUME ScanInv, NEW timed \in BOOLEAN, Crash(timed)
    PROVE  ScanInv' /\ world' = world
    BY DEF ScanInv, ScanTypeOK, EmptyUntilBuilt, Crash, Params

(* The cube moves, and the map loses some points and gets some of the scan. *)
LEMMA MapScan ==
    ASSUME ScanInv, FovSegment, UNCHANGED Rest,
           NEW points, points \subseteq Scan,
           map' \subseteq map \cup ToWorld(points),
           built' = TRUE \/ (built' = built /\ map' \subseteq map)
    PROVE  ScanInv' /\ world' = world
<1>1. cube' \in CubeType
    BY Placed, CubeTyped
<1>2. ToWorld(points) \subseteq UNION Worlds
    BY Placed, PointsAreObstacles DEF ScanInv, ScanTypeOK
<1>3. EmptyUntilBuilt'
    BY DEF ScanInv, EmptyUntilBuilt
<1>4. /\ world' = world /\ world' \in Worlds /\ pos' \in Track /\ type' \in Lidars
      /\ params' \in Params /\ up' \in BOOLEAN /\ built' \in BOOLEAN
    BY DEF Rest, ScanInv, ScanTypeOK, Params
<1>5. map' \subseteq UNION Worlds
    BY <1>2 DEF ScanInv, ScanTypeOK
<1> QED
    BY <1>1, <1>3, <1>4, <1>5 DEF ScanInv, ScanTypeOK, CubeType

LEMMA KeptOfMap == Kept \subseteq map
    BY DEF Kept

LEMMA SkipFewScan ==
    ASSUME ScanInv, NEW points, points \subseteq Scan, SkipFew(points)
    PROVE  ScanInv' /\ world' = world
    BY MapScan, KeptOfMap DEF SkipFew, Rest

LEMMA BuildMapScan ==
    ASSUME ScanInv, NEW points, points \subseteq Scan, BuildMap(points)
    PROVE  ScanInv' /\ world' = world
    BY MapScan DEF BuildMap, Rest

LEMMA RegisterScan ==
    ASSUME ScanInv, NEW points, points \subseteq Scan, Register(points)
    PROVE  ScanInv' /\ world' = world
<1>1. built' = TRUE /\ map' \subseteq map \cup ToWorld(points)
    BY KeptOfMap DEF Register, ScanInv, ScanTypeOK
<1> QED
    BY <1>1, MapScan DEF Register, Rest

LEMMA StopUnchanged ==
    ASSUME StopInv, UNCHANGED <<world, estopperOwn>> PROVE StopInv'
    BY DEF StopInv, E!EstopperTypeOK, E!Zones, estopperOwn, CloudOfObstacles,
           StopIsAboutOrigin

LEMMA SetZoneStop ==
    ASSUME StopInv, NEW asked \in E!Zones, E!SetZone(asked), UNCHANGED world
    PROVE  StopInv'
    BY DEF StopInv, E!EstopperTypeOK, E!Zones, E!SetZone, CloudOfObstacles,
           StopIsAboutOrigin

LEMMA SameCardinality ==
    ASSUME NEW S PROVE E!Cardinality(S) = Cardinality(S)
    BY DEF E!Cardinality, Cardinality

(* With enough points in the zone there is one. *)
LEMMA CloudCallbackStop ==
    ASSUME ScanInv, StopInv, E!CloudCallback, UNCHANGED world
    PROVE  StopInv'
<1>1. inbox' = {} /\ zone' = zone /\ estop' \in {"stop", "clear"}
    BY DEF E!CloudCallback, E!NoCloud
<1>2. /\ zone.minPoints \in Nat /\ zone.minPoints # 0
      /\ zone.distance \in Distances /\ zone.distance \in Nat
  <2>1. zone.minPoints \in PointCounts /\ zone.distance \in Distances
    BY DEF StopInv, E!EstopperTypeOK, E!Zones
  <2> QED
    BY <2>1, StackAssumption
<1>3. ASSUME estop' = "stop" PROVE \E o \in world, d \in Distances : Abs(o) < d
  <2>1. Cardinality(E!Dangerous(inbox)) >= zone.minPoints
    BY <1>3, SameCardinality DEF E!CloudCallback
  <2>2. E!Dangerous(inbox) # {}
    BY <1>2, <2>1, FS_EmptySet
  <2>3. PICK o \in inbox : o < zone.distance /\ 0 < o + zone.distance
    BY <2>2 DEF E!Dangerous
  <2>4. o \in world /\ o \in Int
    BY Placed DEF StopInv, CloudOfObstacles
  <2>5. Abs(o) < zone.distance
    BY <1>2, <2>3, <2>4 DEF Abs
  <2> QED
    BY <1>2, <2>4, <2>5
<1>4. StopIsAboutOrigin'
    BY <1>3 DEF StopIsAboutOrigin
<1>5. E!EstopperTypeOK' /\ CloudOfObstacles'
    BY <1>1 DEF StopInv, E!EstopperTypeOK, E!Zones, CloudOfObstacles
<1> QED
    BY <1>4, <1>5 DEF StopInv

(* A registered scan reaches the estopper as places of the map. *)
LEMMA PublishStop ==
    ASSUME ScanInv, StopInv, UNCHANGED world,
           NEW points, points \subseteq Scan, PublishScan(points)
    PROVE  StopInv'
<1>1. ToWorld(points) \subseteq world
    BY Placed, PointsAreObstacles
<1>2. inbox' \subseteq world /\ zone' = zone /\ estop' = estop
    BY <1>1 DEF PublishScan, StopInv, CloudOfObstacles
<1> QED
    BY <1>2 DEF StopInv, E!EstopperTypeOK, E!Zones, CloudOfObstacles, StopIsAboutOrigin

(* RobotDiagnostics. *)

LEMMA Names ==
    /\ "lio" \notin Singles /\ Timeouts \subseteq Nat
    /\ D!Never = -1 /\ Oldest \in Nat
    /\ \A m \in D!Monitors : D!Watched(m) \subseteq D!Topics
    /\ \A m \in Singles : m \in D!Topics /\ D!Watched(m) = {m}
    /\ D!Watched("lio") = {"cloud", "odom"}
<1>1. "lio" \notin Singles /\ Timeouts \subseteq Nat /\ Oldest \in Nat
    BY StackAssumption
<1> QED
    BY <1>1 DEF D!Never, D!Monitors, D!Topics, D!Watched

LEMMA DiagnosticsUnchanged ==
    ASSUME DiagnosticsInv, UNCHANGED diagnosticsOwn PROVE DiagnosticsInv'
    BY DEF DiagnosticsInv, D!DiagnosticsTypeOK, SilenceInSummary, diagnosticsOwn

LEMMA FlagDiagnostics ==
    ASSUME DiagnosticsInv, flagged' \in BOOLEAN,
           UNCHANGED <<monitor, timeout, age, level, due, judged, limit>>
    PROVE  DiagnosticsInv'
    BY DEF DiagnosticsInv, D!DiagnosticsTypeOK, SilenceInSummary

LEMMA SetMonitorDiagnostics ==
    ASSUME DiagnosticsInv, NEW m \in D!Monitors, D!SetMonitor(m)
    PROVE  DiagnosticsInv'
    BY DEF DiagnosticsInv, D!DiagnosticsTypeOK, SilenceInSummary, D!SetMonitor

LEMMA SetTimeoutDiagnostics ==
    ASSUME DiagnosticsInv, NEW s \in Timeouts, D!SetTimeout(s)
    PROVE  DiagnosticsInv'
    BY DEF DiagnosticsInv, D!DiagnosticsTypeOK, SilenceInSummary, D!SetTimeout

(* What has just come is not silent. *)
LEMMA ReceivedDiagnostics ==
    ASSUME DiagnosticsInv, NEW ts, D!Received(ts), UNCHANGED flagged
    PROVE  DiagnosticsInv'
<1>1. /\ age \in [D!Topics -> D!Never..Oldest] /\ judged \subseteq D!Monitors
      /\ 0 \in D!Never..Oldest /\ limit \in Nat
    BY Names DEF DiagnosticsInv, D!DiagnosticsTypeOK
<1>2. \A t \in D!Topics : age'[t] = 0 \/ age'[t] = age[t]
    BY DEF D!Received
<1>3. age' \in [D!Topics -> D!Never..Oldest]
    BY <1>1 DEF D!Received
<1>4. D!DiagnosticsTypeOK'
    BY <1>3 DEF DiagnosticsInv, D!DiagnosticsTypeOK, D!Received
<1>5. SilenceInSummary'
  <2> SUFFICES ASSUME NEW m \in judged', NEW t \in D!Watched(m),
                      age'[t] > (IF due' THEN limit' + 1 ELSE limit')
               PROVE  level'[m] # "OK"
    BY DEF SilenceInSummary, D!Watched
  <2>1. m \in judged /\ due' = due /\ level' = level /\ limit' = limit /\ t \in D!Topics
    BY <1>1, Names DEF D!Received
  <2>2. age'[t] = age[t]
    BY <1>1, <1>2, <2>1, Names
  <2> QED
    BY <2>1, <2>2 DEF DiagnosticsInv, SilenceInSummary
<1> QED
    BY <1>4, <1>5 DEF DiagnosticsInv

LEMMA SecondPassesDiagnostics ==
    ASSUME DiagnosticsInv, D!SecondPasses
    PROVE  DiagnosticsInv'
<1>1. /\ age \in [D!Topics -> D!Never..Oldest] /\ judged \subseteq D!Monitors
      /\ limit \in Nat /\ limit + 2 <= Oldest
    BY Names, StackAssumption DEF DiagnosticsInv, D!DiagnosticsTypeOK
<1>2. ASSUME NEW t \in D!Topics
      PROVE  /\ age'[t] \in D!Never..Oldest
             /\ age'[t] > limit + 1 => age[t] > limit
  <2>1. age'[t] = IF age[t] = D!Never \/ age[t] = Oldest THEN age[t] ELSE age[t] + 1
    BY DEF D!SecondPasses
  <2>2. age[t] \in D!Never..Oldest
    BY <1>1
  <2> QED
    BY <1>1, <2>1, <2>2, Names
<1>3. age' \in [D!Topics -> D!Never..Oldest]
    BY <1>2 DEF D!SecondPasses
<1>4. D!DiagnosticsTypeOK'
    BY <1>3 DEF DiagnosticsInv, D!DiagnosticsTypeOK, D!SecondPasses
<1>5. SilenceInSummary'
  <2> SUFFICES ASSUME NEW m \in judged', NEW t \in D!Watched(m),
                      age'[t] > (IF due' THEN limit' + 1 ELSE limit')
               PROVE  level'[m] # "OK"
    BY DEF SilenceInSummary, D!Watched
  <2>1. m \in judged /\ ~due /\ due' /\ level' = level /\ limit' = limit /\ t \in D!Topics
    BY <1>1, Names DEF D!SecondPasses
  <2>2. age[t] > limit
    BY <1>2, <2>1
  <2> QED
    BY <2>1, <2>2 DEF DiagnosticsInv, SilenceInSummary
<1> QED
    BY <1>4, <1>5 DEF DiagnosticsInv

(* A summary of silence is not OK. *)
LEMMA SilenceSeen ==
    ASSUME DiagnosticsInv, NEW m \in D!Monitors, monitor[m],
           NEW t \in D!Watched(m), age[t] > timeout
    PROVE  (IF m = "lio" THEN D!LioSummary ELSE D!Summary(m)) # "OK"
<1>1. age \in [D!Topics -> D!Never..Oldest] /\ timeout \in Nat
    BY Names DEF DiagnosticsInv, D!DiagnosticsTypeOK
<1>2. CASE m \in Singles
  <2>1. t = m /\ m # "lio" /\ age[m] \in D!Never..Oldest
    BY <1>1, <1>2, Names
  <2>2. ~(age[m] < 0)
    BY <1>1, <2>1, Names
  <2>3. D!Summary(m) = "ERROR"
    BY <2>1, <2>2 DEF D!Summary
  <2> QED
    BY <2>1, <2>3
<1>3. CASE m = "lio"
  <2>1. /\ age["cloud"] \in D!Never..Oldest /\ age["odom"] \in D!Never..Oldest
        /\ t = "cloud" \/ t = "odom"
    BY <1>1, <1>3, Names DEF D!Topics
  <2>2. /\ age["cloud"] >= 0 \/ age["odom"] >= 0
        /\ ~(D!Fresh("cloud") /\ D!Fresh("odom"))
        /\ ~(age["cloud"] < 0 /\ age["odom"] < 0)
    BY <1>1, <2>1, Names DEF D!Fresh
  <2>3. D!LioSummary = "ERROR"
    BY <1>3, <2>2 DEF D!LioSummary
  <2> QED
    BY <1>3, <2>3
<1> QED
    BY <1>2, <1>3 DEF D!Monitors

LEMMA SummaryTyped ==
    ASSUME NEW m
    PROVE  D!LioSummary \in D!Levels /\ D!Summary(m) \in D!Levels
    BY DEF D!LioSummary, D!Summary, D!Levels

LEMMA ForceUpdateDiagnostics ==
    ASSUME DiagnosticsInv, D!ForceUpdate
    PROVE  DiagnosticsInv'
<1>1. level' \in [D!Monitors -> D!Levels]
    BY SummaryTyped DEF D!ForceUpdate
<1>2. D!DiagnosticsTypeOK'
    BY <1>1 DEF DiagnosticsInv, D!DiagnosticsTypeOK, D!ForceUpdate
<1>3. SilenceInSummary'
  <2> SUFFICES ASSUME NEW m \in judged', NEW t \in D!Watched(m),
                      age'[t] > (IF due' THEN limit' + 1 ELSE limit')
               PROVE  level'[m] # "OK"
    BY DEF SilenceInSummary, D!Watched
  <2>1. m \in D!Monitors /\ monitor[m] /\ ~due' /\ age' = age /\ limit' = timeout
    BY DEF D!ForceUpdate
  <2>2. age[t] > timeout
    BY <2>1
  <2>3. level'[m] = IF m = "lio" THEN D!LioSummary ELSE D!Summary(m)
    BY <2>1 DEF D!ForceUpdate
  <2> QED
    BY <2>1, <2>2, <2>3, SilenceSeen
<1> QED
    BY <1>2, <1>3 DEF DiagnosticsInv

-----------------------------------------------------------------------------
(* The steps of the whole. *)

LEMMA LioKeeps ==
    ASSUME IInv, LioStep PROVE IInv'
<1> USE PartsOfIInv
<1>1. ASSUME ScanInv' /\ world' = world, UNCHANGED Others PROVE IInv'
  <2>1. StopInv' /\ DiagnosticsInv'
    BY <1>1, StopUnchanged, DiagnosticsUnchanged DEF Others, estopperOwn, diagnosticsOwn
  <2> QED
    BY <1>1, <2>1 DEF Others, IInv, TypeOK, ScanInv, StopInv, DiagnosticsInv
<1>2. CASE \E timed \in BOOLEAN : Crash(timed) /\ UNCHANGED Others
    BY <1>1, <1>2, CrashScan
<1>3. CASE \E timed \in BOOLEAN : \E points \in Scanned(timed) :
             (SkipFew(points) \/ BuildMap(points)) /\ UNCHANGED Others
    BY <1>1, <1>3, PointsSeen, SkipFewScan, BuildMapScan
<1>4. CASE \E timed \in BOOLEAN : \E points \in Scanned(timed) :
             Register(points) /\ PublishScan(points)
  <2>1. PICK timed \in BOOLEAN : \E points \in Scanned(timed) :
             Register(points) /\ PublishScan(points)
    BY <1>4
  <2>2. PICK points \in Scanned(timed) : Register(points) /\ PublishScan(points)
    BY <2>1
  <2>3. points \subseteq Scan
    BY PointsSeen
  <2>4. ScanInv' /\ world' = world
    BY <2>2, <2>3, RegisterScan
  <2>5. StopInv'
    BY <2>2, <2>3, <2>4, PublishStop
  <2>6. DiagnosticsInv'
    BY <2>2, DiagnosticsUnchanged, ReceivedDiagnostics DEF PublishScan, diagnosticsOwn
  <2>7. driving' \in BOOLEAN
    BY <2>2 DEF PublishScan
  <2> QED
    BY <2>4, <2>5, <2>6, <2>7 DEF IInv, TypeOK, ScanInv, StopInv, DiagnosticsInv
<1>5. CASE \E name \in DOMAIN Values :
             (\E value \in Values[name] : SetParameter(name, value)) /\ UNCHANGED Others
    BY <1>1, <1>5, SetParameterScan
<1>6. CASE \E to \in Track : Drive(to) /\ UNCHANGED Others
    BY <1>1, <1>6, DriveScan
<1>7. "scanPub" \in DOMAIN Values
    BY DEF Values
<1> QED
    BY <1>2, <1>3, <1>4, <1>5, <1>6, <1>7 DEF LioStep

LEMMA EstopperKeeps ==
    ASSUME IInv, EstopperStep PROVE IInv'
<1>1. ScanInv /\ StopInv /\ DiagnosticsInv /\ driving \in BOOLEAN
    BY PartsOfIInv
<1>2. ScanInv' /\ world' = world /\ driving' \in BOOLEAN
    BY <1>1, ScanUnchanged DEF EstopperStep, scanVars
<1>3. StopInv'
    BY <1>1, <1>2, CloudCallbackStop, SetZoneStop DEF EstopperStep
<1>4. flagged' \in BOOLEAN
    BY <1>1 DEF EstopperStep, DiagnosticsInv, D!DiagnosticsTypeOK
<1>5. DiagnosticsInv'
    BY <1>1, <1>4, FlagDiagnostics DEF EstopperStep
<1> QED
    BY <1>2, <1>3, <1>5 DEF IInv, TypeOK, ScanInv, StopInv, DiagnosticsInv

LEMMA DiagnosticsKeeps ==
    ASSUME IInv, DiagnosticsStep PROVE IInv'
<1>1. ScanInv /\ StopInv /\ DiagnosticsInv /\ driving \in BOOLEAN
    BY PartsOfIInv
<1>2. ScanInv' /\ StopInv' /\ driving' \in BOOLEAN
    BY <1>1, ScanUnchanged, StopUnchanged DEF DiagnosticsStep, scanVars
<1>3. DiagnosticsInv'
    BY <1>1, ForceUpdateDiagnostics, SecondPassesDiagnostics, SetMonitorDiagnostics,
       ReceivedDiagnostics, SetTimeoutDiagnostics DEF DiagnosticsStep
<1> QED
    BY <1>2, <1>3 DEF IInv, TypeOK, ScanInv, StopInv, DiagnosticsInv

LEMMA StutterKeeps ==
    ASSUME IInv, UNCHANGED vars PROVE IInv'
<1>1. ScanInv /\ StopInv /\ DiagnosticsInv /\ driving \in BOOLEAN
    BY PartsOfIInv
<1>2. ScanInv' /\ StopInv' /\ DiagnosticsInv' /\ driving' \in BOOLEAN
    BY <1>1, ScanUnchanged, StopUnchanged, DiagnosticsUnchanged DEF vars, scanVars
<1> QED
    BY <1>2 DEF IInv, TypeOK, ScanInv, StopInv, DiagnosticsInv

LEMMA NextIInv == IInv /\ [Next]_vars => IInv'
    BY LioKeeps, EstopperKeeps, DiagnosticsKeeps, StutterKeeps DEF Next

LEMMA AlwaysIInv == Spec => []IInv
    BY InitIInv, NextIInv, PTL DEF Spec

-----------------------------------------------------------------------------
(* TypeOK holds: the estopper and the diagnostics get and give what their  *)
(* topics carry, and the map holds nothing but obstacles.                  *)
THEOREM TypeCorrect == Spec => []TypeOK
<1>1. IInv => TypeOK
    BY DEF IInv
<1> QED
    BY <1>1, AlwaysIInv, PTL

(* StopIsAboutOrigin holds: estopper_node.cpp measures in the frame of the *)
(* map, so a stop tells of an obstacle at its origin, wherever the robot   *)
(* is.                                                                     *)
THEOREM StopAlwaysAboutOrigin == Spec => []StopIsAboutOrigin
<1>1. IInv => StopIsAboutOrigin
    BY DEF IInv
<1> QED
    BY <1>1, AlwaysIInv, PTL

(* SilenceReported holds: robot_diagnostics.cpp reports no monitored topic *)
(* in order that is silent for longer than the timeout and a second.       *)
THEOREM SilenceAlwaysReported == Spec => []SilenceReported
<1>1. ASSUME IInv PROVE SilenceReported
  <2> SUFFICES ASSUME NEW m \in judged, NEW t \in D!Watched(m), age[t] > limit + 1
               PROVE  level[m] # "OK"
    BY DEF SilenceReported, D!SilenceReported, D!Watched
  <2>1. age \in [D!Topics -> D!Never..Oldest] /\ t \in D!Topics
    BY <1>1, Names DEF IInv, TypeOK, D!DiagnosticsTypeOK
  <2>4. limit \in Nat
    BY <1>1, Names DEF IInv, TypeOK, D!DiagnosticsTypeOK
  <2>2. age[t] \in Int
    BY <2>1, Names
  <2>3. age[t] > (IF due THEN limit + 1 ELSE limit)
    BY <2>2, <2>4
  <2> QED
    BY <1>1, <2>3 DEF IInv, SilenceInSummary
<1> QED
    BY <1>1, AlwaysIInv, PTL

(* NearPointsKept: with the cube three times the range of the lidar or     *)
(* longer, lasermap_fov_segment takes no point that is in range.           *)
THEOREM NearPointsAlwaysKept == Spec => NearPointsKept
<1> DEFINE Keeps ==
        cube.len = params.cubeLen /\ cube.len >= 3 * DetRange
        => \A p \in map : Abs(p - pos) < DetRange => p \in map'
<1>1. ASSUME IInv, [Next]_vars PROVE [Keeps]_scanVars
  <2> SUFFICES ASSUME cube.len = params.cubeLen, cube.len >= 3 * DetRange,
                      NEW p \in map, Abs(p - pos) < DetRange
               PROVE  p \in map'
    OBVIOUS
  <2>1. ScanInv
    BY <1>1, PartsOfIInv
  <2>2. p \in Kept
    BY <2>1, Placed, NearIsKept
  <2>3. ASSUME NEW points, SkipFew(points) \/ BuildMap(points) \/ Register(points)
        PROVE  p \in map'
    BY <2>1, <2>2, <2>3 DEF SkipFew, BuildMap, Register, ScanInv, EmptyUntilBuilt
  <2>4. CASE LioStep
    BY <2>3, <2>4 DEF LioStep, Crash, SetParameter, Drive
  <2>5. CASE EstopperStep \/ DiagnosticsStep \/ UNCHANGED vars
    BY <2>5 DEF EstopperStep, DiagnosticsStep, vars, scanVars
  <2> QED
    BY <1>1, <2>4, <2>5 DEF Next
<1>2. Spec => [][Next]_vars
    BY DEF Spec
<1>3. IInv /\ [Next]_vars => [Keeps]_scanVars
    BY <1>1
<1> HIDE DEF Keeps
<1>4. Spec => [][Keeps]_scanVars
    BY <1>2, <1>3, AlwaysIInv, PTL
<1> QED
    BY <1>4 DEF NearPointsKept, Keeps
=============================================================================
