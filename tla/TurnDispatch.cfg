\* Two conversations, a submission repeated or not; three turns, some of another model;
\* two shell calls under two leases; two messages whose turns call a tool twice.
SPECIFICATION AllSpec
CONSTANTS
  Sessions = {s1, s2}
  Requests = {r1, r2}
  Nobody = Nobody
  Duplicates = TRUE
  MaxTurn = 3
  Calls = {c1, c2}
  MaxLease = 2
  Slots = 2
  Handlers = 2
  MaxRequest = 2
  ToolCalls = {t1, t2}
  Mutations = {k1}
  Payloads = {p1, p2}
  MaxPending = 1
SYMMETRY Interchangeable
INVARIANTS
  AllTypeOK
  RunsOnceAndAlone
  ReservationStands
PROPERTIES
  OutcomesAreTrue
\* The bounds end every behaviour.
CHECK_DEADLOCK FALSE
