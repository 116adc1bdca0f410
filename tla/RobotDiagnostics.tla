-------------------------- MODULE RobotDiagnostics --------------------------
(***************************************************************************)
(* RobotDiagnostics (omr_controller/src/robot_diagnostics.cpp): how old    *)
(* the last message of each topic is, summarised every second.             *)
(*                                                                         *)
(* Time goes in seconds, and the clock does not go back.  The variables    *)
(* judged and limit are history: what was monitored at the last summary,   *)
(* and the timeout it went by.                                             *)
(***************************************************************************)
EXTENDS Integers

CONSTANTS
    Singles,    \* the monitors of one topic: "arm", "dais", "m65", "orchestrator"
    Timeouts,   \* values of topic_timeout_sec
    Oldest      \* bound: an older message is as old as this

VARIABLES
    monitor, \* monitor_...
    timeout, \* topic_timeout_sec_
    age,     \* seconds since the last message, Never before the first
    flagged, \* lio_emergency_stop_
    level,   \* of the last summary
    due,     \* the timer has not fired in this second
    judged,
    limit

Topics == Singles \cup {"cloud", "odom"}
Monitors == Singles \cup {"lio"}
Levels == {"OK", "WARN", "ERROR"}
Never == -1

diagnosticsVars == <<monitor, timeout, age, flagged, level, due, judged, limit>>

DiagnosticsInit ==
    /\ monitor \in [Monitors -> BOOLEAN]
    /\ timeout \in Timeouts
    /\ age = [t \in Topics |-> Never]
    /\ flagged = FALSE
    /\ level = [m \in Monitors |-> "OK"]
    /\ due = TRUE
    /\ judged = {}
    /\ limit = timeout

(* A request is taken as a whole or not at all; one that sets several of   *)
(* these is as many that set one.                                          *)
SetMonitor(m) ==
    /\ monitor' = [monitor EXCEPT ![m] = ~@]
    /\ UNCHANGED <<timeout, age, flagged, level, due, judged, limit>>

SetTimeout(asked) ==
    /\ timeout' = asked
    /\ UNCHANGED <<monitor, age, flagged, level, due, judged, limit>>

(* A message of joint states may be of the arm, of the rail or of both. *)
Received(ts) ==
    /\ age' = [t \in Topics |-> IF t \in ts THEN 0 ELSE age[t]]
    /\ UNCHANGED <<monitor, timeout, level, due, judged, limit>>

(* summarizeTopic *)
Summary(m) ==
    CASE ~monitor[m] -> "OK"
      [] monitor[m] /\ age[m] < 0 -> "WARN"
      [] monitor[m] /\ age[m] > timeout -> "ERROR"
      [] OTHER -> "OK"

Fresh(t) == age[t] >= 0 /\ age[t] <= timeout

(* Mutant: one of the two topics is enough. *)
LioSummaryOfOne ==
    CASE ~monitor["lio"] -> "OK"
      [] monitor["lio"] /\ age["cloud"] < 0 /\ age["odom"] < 0 -> "WARN"
      [] monitor["lio"] /\ ~Fresh("cloud") /\ ~Fresh("odom") -> "ERROR"
      [] OTHER -> IF flagged THEN "WARN" ELSE "OK"

(* The flag of the estopper has no age: it stays when the estopper goes. *)
LioSummary ==
    CASE ~monitor["lio"] -> "OK"
      [] monitor["lio"] /\ age["cloud"] < 0 /\ age["odom"] < 0 -> "WARN"
      [] monitor["lio"] /\ (age["cloud"] >= 0 \/ age["odom"] >= 0)
            /\ ~(Fresh("cloud") /\ Fresh("odom")) -> "ERROR"
      [] OTHER -> IF flagged THEN "WARN" ELSE "OK"

ForceUpdate ==
    /\ due
    /\ due' = FALSE
    /\ level' = [m \in Monitors |-> IF m = "lio" THEN LioSummary ELSE Summary(m)]
    /\ judged' = {m \in Monitors : monitor[m]}
    /\ limit' = timeout
    /\ UNCHANGED <<monitor, timeout, age, flagged>>

(* The timer fires in every second. *)
SecondPasses ==
    /\ ~due
    /\ due' = TRUE
    /\ age' = [t \in Topics |-> IF age[t] = Never \/ age[t] = Oldest
                                THEN age[t] ELSE age[t] + 1]
    /\ UNCHANGED <<monitor, timeout, flagged, level, judged, limit>>
-----------------------------------------------------------------------------
DiagnosticsTypeOK ==
    /\ monitor \in [Monitors -> BOOLEAN]
    /\ timeout \in Timeouts /\ limit \in Timeouts
    /\ age \in [Topics -> Never..Oldest]
    /\ flagged \in BOOLEAN
    /\ level \in [Monitors -> Levels]
    /\ due \in BOOLEAN
    /\ judged \subseteq Monitors

(* What a monitor watches. *)
Watched(m) == IF m = "lio" THEN {"cloud", "odom"} ELSE {m}

(* Whatever is watched and has been silent for longer than the timeout of  *)
(* the last summary and the second between two summaries is not reported   *)
(* as being in order, however the monitors and the timeout are changed.    *)
SilenceReported ==
    \A m \in judged : \A t \in Watched(m) :
        age[t] > limit + 1 => level[m] # "OK"
=============================================================================
