\* The gate: two runs at a time, any number in all, three boots; the time fence
\* and the idle drain as near as GateAssumption lets them be.
\* The installation: one further object, five objects ever made, two steps of others.
\* The window: the script's own two owners; it needs no bound.  The rotation:
\* a window of two polls in a time of five, three tokens, two containers.
SPECIFICATION AllSpec
CONSTANTS
  Runs = {r1, r2}
  RebootBound = 2
  IdleAfter = 4
  MaxBoot = 3
  GEN0 = 1
  MaxGen = 3
  Namespace = ns
  Controller = ctrl
  Api = api
  Rest = {rest}
  MaxUid = 5
  MaxOthers = 2
  Wait = 2
  MaxClock = 5
  MaxTokens = 3
  MaxContainers = 2
  Interval = 0
  MaxHour = 2
SYMMETRY Interchangeable
INVARIANTS
  AllTypeOK
PROPERTIES
  DoneOnceAndOwned
  PassIsEarned
