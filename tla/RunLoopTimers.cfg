\* Timers in the main thread's loop, which its callbacks run again; guest code
\* on another thread; requests for one target.
SPECIFICATION Spec
CONSTANTS
  main = main
  other = other
  x1 = x1
  y1 = y1
  target = target
  Nil = Nil
  Threads = {main, other}
  Timers = {x1, y1}
  Targets = {target}
  MaxDepth <- MainLoop
  MakesTimers = TRUE
  Stops = {main}
  CancelKinds = {TRUE}
  CancelsWaited = FALSE
SYMMETRY Symmetric
INVARIANTS TimerRefsExact ListedExact NotReentered FiredOnce
CHECK_DEADLOCK FALSE
