CONSTANTS
  w1 = w1
  w2 = w2
  main = main
  other = other
  s1 = s1
  s2 = s2
  s3 = s3
  a = a
  b = b
  t1 = t1
  t2 = t2
  t3 = t3
  t4 = t4
  None = None
  Clients = {main, other}
  Workers = {w1}
  Main = main
  Tasks = {t1, t2, t3, t4}
  High = {}
  Schedules = {s1, s2, s3}
  Tags = {a}
  SchedOf <- CrossSchedOf
  TagOf <- CrossTagOf
  Spawner <- CrossSpawner
  Owner <- CrossOwner
  Lives = 1
  Cancels = 0
SPECIFICATION FairSpec
PROPERTY WaitsReturnWhileUp
CHECK_DEADLOCK FALSE
