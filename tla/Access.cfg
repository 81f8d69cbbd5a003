\* Two turns of one runner with two tokens; two requests to the broker with two logins or renewals;
\* three turns of a grant of two, whose login is rotated once; two windows of two minutes.
SPECIFICATION AllSpec
CONSTANTS
  Requests = {q1, q2}
  MaxToken = 2
  Callers = {c1, c2}
  MaxFile = 3
  Submitted = {q1, q2, q3}
  Grant = 2
  MaxLogin = 2
  Budget = 1
  Length = 2
  MaxWindow = 2
  MaxTime = 4
INVARIANTS
  AllTypeOK
  EveryDispatchIsCharged
  RefreshIsOrderly
PROPERTIES
  TokensGoForward
