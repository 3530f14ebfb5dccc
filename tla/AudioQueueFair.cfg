\* A queue with two buffers, whose callbacks start it and run the loop again.
SPECIFICATION FairSpec
CONSTANTS
  main = main
  q1 = q1
  r1 = r1
  a1 = a1
  b1 = b1
  c1 = c1
  s1 = s1
  Nil = Nil
  Queues = {q1}
  Buffers = {a1, b1}
  Sources = {s1}
  Threads = {main}
  Loops = {main}
  Target = 1
  MaxDepth <- Nested
  FeedsStopping = FALSE
PROPERTIES EnqueuedComesBack StopCompletes
