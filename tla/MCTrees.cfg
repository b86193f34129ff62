SPECIFICATION TreesSpec
CONSTANTS
  e1 = e1
  e2 = e2
  e3 = e3
  glb = glb
  tex = tex
  glb1 = glb1
  glb2 = glb2
  glb3 = glb3
  tex0 = tex0
  Empty = Empty
  Part = Part
  Mixed = Mixed
  w1 = w1
  w2 = w2
  a = a
  b = b
  Nil = Nil
  Threads = {w1, w2}
  Entities = {e1, e2}
  Names = {a, b}
  Rows <- MCRows
  Textured = {a}
  Retries = 2
  Modes <- MCModes
  MaxRuns = 2
  MaxFaults = 2
  None = None
  Tasks <- SharedTasks
  Bytes <- SharedBytes
  MaxStarts = 2
  MaxErrs = 1
  Mishaps = {"disk", "kill"}
  SkipModes = {TRUE}
INVARIANTS
  SuccessMeansWhole
  ListedExists
  AssetWhole
  CleanMeansComplete
  ForecastExact
  TransientTolerated
  TwinAgrees
PROPERTIES
  WholeStays
  RunsEnd
