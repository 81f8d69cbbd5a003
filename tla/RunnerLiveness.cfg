\* A runner that dies with a message under way, and a quiet runner that is
\* stopped twice; the operators' programs rest.
SPECIFICATION LiveSpec
CONSTANTS
  Keys = {k1, k2}
  Sessions = {s1}
  MaxGen = 2
  MaxTurns = 1
  Faults = {"api_crash", "lost_submit", "native_exit", "turn_fails", "dirty_close", "pod_death", "unsupplied", "supply_failure"}
  Disks = {d1, d2}
  MaxRev = 3
  Runs = {r1, r2}
  MaxPods = 2
  Kinds = {secrets, configmaps}
  MaxVersion = 3
  MaxWrites = 2
PROPERTIES
  DyingRunnerReleased
  QuietStopCompletes
