----------------------------- MODULE MCHardware -----------------------------
(* Two joints of two angles, so that the arm can answer for one of them    *)
(* and a command can return; two speeds of the rail; counters of three     *)
(* bits that start at or near their limits, rolled forwards and backwards. *)
EXTENDS Hardware

MCSpeeds == {1, -1}
MCWheelCmds == {<<1, 1>>, <<-1, 1>>}
MCRolls == {-1, 3}
=============================================================================
