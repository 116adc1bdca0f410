---------------------------- MODULE MCInspection ----------------------------
(* Three places in a row, two ways to look, rows two places apart; the     *)
(* names triggered are that of the second row and one nobody knows.        *)
EXTENDS Inspection

MCPlaces == 0..2
MCTriggers == {1, 7}
=============================================================================
