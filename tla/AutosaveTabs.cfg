\* Two tabs on one existing document; drafts closed elsewhere, versions made elsewhere.
\* Two composers, two requests and two edits among two questions, one fault.
SPECIFICATION AllSpec
CONSTANTS
  Tabs = {t1, t2}
  Texts = {x0, x1, x2}
  Initial = x0
  Existing = TRUE
  Faults = {"closed", "moved", "refused"}
  MaxTyped = 3
  MaxLost = 1
  Questions = {"q1", "q2"}
  MaxKeys = 2
  MaxScreens = 2
  MaxEntered = 2
  MaxFaults = 1
INVARIANTS
  AllTypeOK
  NoSilentOverwrite
  QuestionIsKept
SYMMETRY Interchangeable
\* Editors and composers may rest for ever.
CHECK_DEADLOCK FALSE
