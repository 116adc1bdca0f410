----------------------------- MODULE Preprocess -----------------------------
(***************************************************************************)
(* Preprocess::process (omr_lio/src/preprocess.cpp), feature extraction    *)
(* off: which points of a scan are left in pl_surf.                        *)
(*                                                                         *)
(* A point is [at |-> its place on a line through the lidar, ring].  The   *)
(* order of the points within a scan is not modelled: where the code goes  *)
(* by the index, every choice that some order gives is possible.           *)
(***************************************************************************)
EXTENDS Integers, FiniteSets

LidarTypes == {"AVIA", "VELO16", "OUST64", "RS32"}

Abs(n) == IF n < 0 THEN -n ELSE n

(* Every filter-th point: i % point_filter_num == 0. *)
Sampled(scan, filter) ==
    {k \in SUBSET scan :
        Cardinality(k) = (Cardinality(scan) + filter - 1) \div filter}

(* oust64_handler and rs_handler. *)
Plain(scan, filter, blind) ==
    {{p \in k : Abs(p.at) >= blind} : k \in Sampled(scan, filter)}

(* velodyne_handler drops the first point of every ring of a scan without  *)
(* times.                                                                  *)
FirstOfRings(scan) ==
    {f \in SUBSET scan :
        /\ \A p \in scan : \E q \in f : q.ring = p.ring
        /\ \A p, q \in f : p.ring = q.ring => p = q}

Velodyne(scan, timed, filter, blind) ==
    {{p \in k \ f : Abs(p.at) > blind} :
        k \in Sampled(scan, filter), f \in IF timed THEN {{}} ELSE FirstOfRings(scan)}

(* The rings of such a scan index vectors of N_SCANS elements, unchecked. *)
Overruns(type, scan, timed, lines) ==
    type = "VELO16" /\ ~timed /\ \E p \in scan : p.ring >= lines

(* A Livox lidar has no handler for the PointCloud2 that LioNode receives. *)
Process(type, scan, timed, filter, blind) ==
    CASE type = "VELO16" -> Velodyne(scan, timed, filter, blind)
      [] type \in {"OUST64", "RS32"} -> Plain(scan, filter, blind)
      [] OTHER -> {{}}
=============================================================================
