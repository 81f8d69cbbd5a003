\* Violation: a message that was failed as lost runs on the next generation's Pod.
SPECIFICATION Spec
CONSTANTS
  Keys = {k1, k2}
  Sessions = {s1}
  MaxGen = 2
  MaxTurns = 1
  Faults = {"pod_death"}
PROPERTIES
  ClosedTurnNeverRuns
