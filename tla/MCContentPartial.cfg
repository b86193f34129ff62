SPECIFICATION Spec
CONSTANTS
  t1 = t1
  t2 = t2
  t3 = t3
  p1 = p1
  p2 = p2
  p3 = p3
  Nil = Nil
  Threads = {t1, t2, t3}
  Procs = {p1}
  ProcOf <- Together
  Crashes = FALSE
INVARIANTS
  ReadsWhole
