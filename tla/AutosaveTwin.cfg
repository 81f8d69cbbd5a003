\* A new document: an uncertain create is refused when it is repeated.
SPECIFICATION Spec
CONSTANTS
  Tabs = {t1}
  Texts = {x0, x1, x2}
  Initial = x0
  Existing = FALSE
  Faults = {"refused"}
  MaxTyped = 2
  MaxLost = 2
INVARIANT
  OneDraftPerEditor
CHECK_DEADLOCK FALSE
