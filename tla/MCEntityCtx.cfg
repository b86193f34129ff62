SPECIFICATION SpecEntity
CONSTANTS
  t1 = t1
  t2 = t2
  e1 = e1
  e2 = e2
  p = p
  glb = glb
  script = script
  Nil = Nil
  Callers <- MCCallers
  Ids <- MCIds
  Pointers <- MCPointers
  Hashes <- MCHashes
  Content <- MCContent
  Convertible <- MCConvertible
  Glbs <- MCGlbs
  Posts <- MCPosts
SYMMETRY Symm
INVARIANTS
  SingleFlight
  IndexAgrees
  ScanMissesOnlyLostOrTorn
PROPERTIES
  EntriesAndOwnersStable
  ImplementsMemo
