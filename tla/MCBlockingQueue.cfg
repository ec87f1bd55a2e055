\* One thread more than the queue has room for items.
CONSTANTS
  a = a
  b = b
  t1 = t1
  t2 = t2
  t3 = t3
  t4 = t4
  Threads = {t1, t2, t3, t4}
  Cap = 3
  Items = {a, b}
SPECIFICATION Spec
SYMMETRY Symmetry
INVARIANTS
  TypeOK
  WakeupNotLost
  AllAsleepForAReason
