SPECIFICATION SpecCdn
CONSTANTS
  e1 = e1
  e2 = e2
  glb = glb
  glb1 = glb1
  glb2 = glb2
  Empty = Empty
  Part = Part
  Mixed = Mixed
  None = None
  Tasks <- PairTasks
  Bytes <- PairBytes
  MaxStarts = 2
  MaxErrs = 2
  Mishaps = {}
  SkipModes = {FALSE}
INVARIANTS
  SuccessMeansWhole
