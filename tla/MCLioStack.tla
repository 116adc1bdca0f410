----------------------------- MODULE MCLioStack -----------------------------
(* Six places; obstacles near the origin or only further along.  A cube of *)
(* 6, three times the detection range, moves in steps of 1, and one of 26  *)
(* in steps of 9.                                                          *)
EXTENDS LioStack

MCTrack == 0..5
MCWorlds == {{1, 4}, {4, 6, 7}}
MCCubes == {6, 26}
=============================================================================
