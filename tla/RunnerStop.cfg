\* Stop: every fault, one message, one restart after the first stop.
\* Decommission: two filesystems, three revisions of the row.  One-shot
\* creation: two runs, two Pods under the name.  Namespace: two kinds, two
\* changes of the namespace while it is read.  Trial: two versions of an object.
SPECIFICATION AllSpec
CONSTANTS
  Keys = {k1, k2}
  Sessions = {s1}
  MaxGen = 2
  MaxTurns = 1
  Faults = {"api_crash", "lost_submit", "native_exit", "turn_fails", "dirty_close", "pod_death", "unsupplied", "supply_failure"}
  Disks = {d1, d2}
  MaxRev = 3
  Runs = {r1, r2}
  MaxPods = 2
  Kinds = {secrets, configmaps}
  MaxVersion = 3
  MaxWrites = 2
INVARIANTS
  AllTypeOK
  FencedRunnerIsQuiet
PROPERTIES
  DeletionFollowsProof
  LiveTurnNeverDeclaredLost
  DecidedOnce
  RestartWasAskedFor
