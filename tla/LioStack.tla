------------------------------ MODULE LioStack ------------------------------
(***************************************************************************)
(* LioNode with the two nodes that listen to it: the estopper takes its    *)
(* clouds, the diagnostics its clouds, its odometry and the estopper's     *)
(* answers.  The topics of the other monitors come from outside.           *)
(*                                                                         *)
(* A behavior either drives or lets time pass (`driving`): the map and the *)
(* estopper do not look at the clock, the diagnostics not at the place, so *)
(* that they are followed only while the robot stands, where one      *)
(* lidar, one zone and one value of all parameters but the publishing are  *)
(* enough, as one timeout is while it drives.                              *)
(***************************************************************************)
EXTENDS LioScan, Naturals

CONSTANTS Distances, PointCounts, Singles, Timeouts, Oldest

ASSUME StackAssumption ==
    /\ Track \subseteq Int /\ 0 \in Track /\ Worlds \subseteq SUBSET Int
    /\ Cubes \subseteq Nat
    /\ Ranges \subseteq Nat /\ Blinds \subseteq Nat /\ Sight \in Nat /\ FewPoints \in Nat
    /\ Lidars \subseteq LidarTypes /\ Filters \subseteq Nat \ {0} /\ Lines \subseteq Nat
    /\ Distances \subseteq Nat /\ PointCounts \subseteq Nat \ {0}
    /\ Singles \subseteq {"arm", "dais", "m65", "orchestrator"}
    /\ Timeouts \subseteq Nat /\ Oldest \in Nat /\ \A s \in Timeouts : s + 2 <= Oldest

VARIABLES driving, zone, inbox, estop, monitor, timeout, age, flagged, level, due,
          judged, limit

E == INSTANCE Estopper
D == INSTANCE RobotDiagnostics

estopperOwn == <<zone, inbox, estop>>
diagnosticsOwn == <<monitor, timeout, age, flagged, level, due, judged, limit>>
vars == <<driving, scanVars, estopperOwn, diagnosticsOwn>>

Init ==
    /\ ScanInit /\ E!EstopperInit /\ D!DiagnosticsInit
    /\ \/ driving = TRUE /\ \A m \in D!Monitors : monitor[m]
       \/ driving = FALSE /\ type = "OUST64" /\ ~zone.front
    /\ IF driving THEN \A s \in Timeouts : timeout <= s
       ELSE \A p \in Params : \A f \in DOMAIN p \ {"scanPub"} : params[f] <= p[f]

(* A subscriber may lose a message; the last one not taken is replaced. *)
PublishScan(points) ==
    /\ inbox' = IF params.scanPub THEN ToWorld(points) ELSE inbox
    /\ IF driving THEN UNCHANGED <<monitor, timeout, age, level, due, judged, limit>>
       ELSE \E ts \in SUBSET (IF params.scanPub THEN {"cloud", "odom"} ELSE {"odom"}) :
                D!Received(ts)
    /\ UNCHANGED <<driving, zone, estop, flagged>>

Others == <<driving, estopperOwn, diagnosticsOwn>>

LioStep ==
    \/ \E timed \in BOOLEAN :
         \/ Crash(timed) /\ UNCHANGED Others
         \/ \E points \in Scanned(timed) :
              \/ SkipFew(points) /\ UNCHANGED Others
              \/ BuildMap(points) /\ UNCHANGED Others
              \/ Register(points) /\ PublishScan(points)
    \/ \E name \in IF driving THEN DOMAIN Values ELSE {"scanPub"} :
         /\ \E value \in Values[name] : SetParameter(name, value)
         /\ UNCHANGED Others
    \/ /\ driving
       /\ \E to \in Track : Drive(to)
       /\ UNCHANGED Others

EstopperStep ==
    /\ \/ E!CloudCallback /\ flagged' \in (IF driving THEN {} ELSE {estop' = "stop"}) \cup {flagged}
       \/ driving /\ (\E asked \in E!Zones : E!SetZone(asked)) /\ UNCHANGED flagged
    /\ UNCHANGED <<driving, scanVars, monitor, timeout, age, level, due, judged, limit>>

DiagnosticsStep ==
    /\ ~driving
    /\ \/ D!ForceUpdate
       \/ D!SecondPasses
       \/ \E m \in D!Monitors : D!SetMonitor(m)
       \/ \E asked \in Timeouts : D!SetTimeout(asked)
       \/ (\E ts \in SUBSET Singles : D!Received(ts)) /\ UNCHANGED flagged
    /\ UNCHANGED <<driving, scanVars, estopperOwn>>

Next == LioStep \/ EstopperStep \/ DiagnosticsStep

Spec == Init /\ [][Next]_vars
-----------------------------------------------------------------------------
(* The state of the three nodes has its types. *)
TypeOK ==
    /\ driving \in BOOLEAN
    /\ ScanTypeOK /\ E!EstopperTypeOK /\ D!DiagnosticsTypeOK

(* The estopper stops for obstacles near the origin of the map and for no  *)
(* others: where there are none, driving up to an obstacle never stops.    *)
StopIsAboutOrigin ==
    estop = "stop" => \E o \in world, d \in Distances : Abs(o) < d

(* RobotDiagnostics: what is watched and silent is not reported in order. *)
SilenceReported == D!SilenceReported
=============================================================================
