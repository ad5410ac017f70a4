CONSTANTS
  w1 = w1
  w2 = w2
  main = main
  other = other
  s1 = s1
  s2 = s2
  s3 = s3
  a = a
  b = b
  t1 = t1
  t2 = t2
  t3 = t3
  t4 = t4
  None = None
  Clients = {main}
  Workers = {w1}
  Main = main
  Tasks = {t1}
  High = {}
  Schedules = {s1}
  Tags = {a}
  SchedOf <- OneSchedOf
  TagOf <- OneTagOf
  Spawner <- OneSpawner
  Owner <- OneOwner
  Lives = 1
  Cancels = 0
SPECIFICATION Spec
INVARIANT NotifiedIsAlive
