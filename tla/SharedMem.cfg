\* Two of each, two kills: processes come back while their partners live, one of
\* them a second time; or one kill and a failed read or an output that does not open.
CONSTANTS
  Reader = {r1, r2}
  Writer = {w1, w2}
  Chunks = 2
  MaxCrashes = 2
  MaxErrors = 1
  MaxFaults = 2
  OpenMayFail = TRUE
SPECIFICATION MCSpec
INVARIANTS Inv OutputFaithful
PROPERTY SurvivorEnds
CHECK_DEADLOCK FALSE
