\* A reader of a conversation and the stop of its dead runner.
SPECIFICATION Spec
CONSTANTS
  Details = {d1}
  Prepares = {}
  Dispatches = {}
  Members = {}
  Stops = {}
  DeadStops = {s1}
  PoolSize = 2
CHECK_DEADLOCK FALSE
PROPERTY DeadWorkIsClosed
