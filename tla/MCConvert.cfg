SPECIFICATION Spec
CONSTANT
  ChunkSize = 1024
  Docs <- MCDocs
INVARIANTS
  PointersResolve
  HierarchyAgrees
  NodesOnce
  PreloadCovers
  StreamsApart
  SkinsBound
  RoundTrip
  ValidatesClean

  
