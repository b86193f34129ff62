SPECIFICATION Spec
CONSTANT
  ChunkSize = 1024
  Docs <- MergedDocs
INVARIANT
  MaterialPerSubmesh
