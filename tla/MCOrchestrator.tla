--------------------------- MODULE MCOrchestrator ---------------------------
(* A rate no timer can have and two it can; two files that load and one    *)
(* that does not.                                                          *)
EXTENDS Orchestrator

MCRates == {-1, 10, 20}
=============================================================================
