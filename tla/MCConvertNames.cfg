SPECIFICATION Spec
CONSTANT
  ChunkSize = 1024
  Docs <- NamedDocs
INVARIANTS
  NeverCollides
