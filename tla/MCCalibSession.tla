--------------------------- MODULE MCCalibSession ---------------------------
EXTENDS CalibSession

\* Two arm poses that differ by 40 degrees about every axis.
P == <<1, 2, 3, 0, 0, 0>>
Q == <<4, 5, 6, 40, 40, 40>>
MCPoses == {P, Q}

\* The first three frames are from pose P alone, which is not diverse enough, the
\* second to the fourth are; one frame only.
MCTours == {<<P, P, P, Q>>, <<P>>}

\* One call at a time where there are frames to save (~/stop touches no files), any
\* calls together where there are few.
MCWaiting ==
  [t \in MCTours |->
     IF Len(t) = 1 THEN SUBSET Services
     ELSE {{}, {"run"}, {"calibrate"}, {"hand_eye"}}]
=============================================================================
