\* Two queues that compete for one source, with three buffers.
SPECIFICATION Spec
CONSTANTS
  main = main
  q1 = q1
  r1 = r1
  a1 = a1
  b1 = b1
  c1 = c1
  s1 = s1
  Nil = Nil
  Queues = {q1, r1}
  Buffers = {a1, b1, c1}
  Sources = {s1}
  Threads = {main}
  Loops = {main}
  Target = 1
  MaxDepth <- Flat
  FeedsStopping = TRUE
SYMMETRY Symmetry
INVARIANTS QueuedOnce SourcesOwned
PROPERTY SyncKept
