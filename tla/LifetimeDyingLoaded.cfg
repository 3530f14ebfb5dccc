\* A weak reference is loaded while its object is being deallocated.
SPECIFICATION Spec
CONSTANTS
  t1 = t1
  t2 = t2
  o1 = o1
  o2 = o2
  p1 = p1
  p2 = p2
  l1 = l1
  l2 = l2
  Nil = Nil
  Raw = Raw
  Threads = {t1, t2}
  Objects = {o1, o2}
  Pools = {p1, p2}
  Slots = {l1, l2}
  MaxOwned = 2
  MaxPooled = 2
  MaxLeaked = 1
  LoadsDying = TRUE
SYMMETRY Symmetric
INVARIANT OwnedAlive
CHECK_DEADLOCK FALSE
