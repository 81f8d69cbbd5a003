\* Six instances under the fairness of their parts.
SPECIFICATION AllSpec
CONSTANTS
  Details = {d1}
  Prepares = {e1}
  Dispatches = {w1}
  Members = {m1}
  Stops = {s1}
  DeadStops = {}
  PoolSize = 2
  Owners = {o1, o2}
  Creators = {c1}
  Keys = {k1}
  Tab = t1
  Texts = {x0, x1, x2}
  Opening = x0
  Callers = {a1, a2}
  Questions = {"q1"}
  Accounts = {a1}
INVARIANT
  EditorKeepsItsWord
PROPERTIES
  RequestsEnd
  TabCatchesUp
\* Requests end, and an editor may rest for ever.
CHECK_DEADLOCK FALSE
