SPECIFICATION StoresSpec
CONSTANTS
  t1 = t1
  t2 = t2
  t3 = t3
  p1 = p1
  p2 = p2
  p3 = p3
  Nil = Nil
  NoBlock = NoBlock
  Absent = Absent
  Threads = {t1, t2, t3}
  Procs = {p1, p2, p3}
  ProcOf <- Apart
  Crashes = TRUE
  Callers = {t1, t2, t3}
  Processes = {p1, p2}
  ProcessOf <- Pairs
  MaxFaults = 2
  Workers = {t1, t2}
  Keys = {b1, b2}
  Size <- BundleSizes
  Cap = 2
  Faults = TRUE
  MaxWrites = 4
  Main = Main
  s1 = s1
  s2 = s2
  h1 = h1
  h2 = h2
  b1 = b1
  b2 = b2
  Plans <- PlanCases
  Collections <- WearableCases
  LodRuns <- LodLists
  Texels <- BlockGroups
  Animated <- AnimatedGlbs
  Primitives <- MeshDocs
  Works = {"apart", "together", "world", "lz4", "evict", "block", "corpus", "wearables", "lods", "bc7", "clips", "mesh"}
INVARIANTS
  PublishedWhole
  BlocksRight
  FitsWhenQuiet
  PlanComplete
  CodecsAgree
  ClipsPlay
  BatchesReportTruly
PROPERTIES
  UnlinksOldestOver
