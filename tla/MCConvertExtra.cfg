SPECIFICATION Spec
CONSTANT
  ChunkSize = 1024
  Docs <- LateDocs
INVARIANTS
  RenderersHaveMesh
