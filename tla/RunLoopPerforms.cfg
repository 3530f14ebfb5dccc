\* Two threads with a run loop each, two requests at a time for one target.
SPECIFICATION FairSpec
CONSTANTS
  main = main
  other = other
  x1 = x1
  y1 = y1
  target = target
  Nil = Nil
  Threads = {main, other}
  Timers = {x1, y1}
  Targets = {target}
  MaxDepth <- TwoLoops
  MakesTimers = FALSE
  Stops = {}
  CancelKinds = {TRUE}
  CancelsWaited = FALSE
INVARIANTS RightWaiterWoken WaiterHasRequest
PROPERTY DueTimerFires
CHECK_DEADLOCK FALSE
