CONSTANTS
  w1 = w1
  w2 = w2
  main = main
  other = other
  s1 = s1
  s2 = s2
  s3 = s3
  a = a
  b = b
  t1 = t1
  t2 = t2
  t3 = t3
  t4 = t4
  None = None
  Clients = {main, other}
  Workers = {w1, w2}
  Main = main
  Tasks = {t1, t2, t3}
  High = {t2}
  Schedules = {s1, s2}
  Tags = {a, b}
  SchedOf <- FlatSchedOf
  TagOf <- FlatTagOf
  Spawner <- FlatSpawner
  Owner <- FlatOwner
  Lives = 2
  Cancels = 1
SPECIFICATION Spec
SYMMETRY Symmetry
INVARIANTS TypeOK Accounting Placement WaitMeansDone NobodySleepsOnWork
PROPERTY RefinesTaskPool
