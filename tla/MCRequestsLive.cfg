SPECIFICATION LiveSpec
CONSTANTS
  t1 = t1
  t2 = t2
  e1 = e1
  e2 = e2
  p = p
  glb = glb
  tex = tex
  Nil = Nil
  Mixes = {"all"}
  Callers <- MCCallers
  Ids <- MCIds
  Pointers = {}
  Hashes <- MCHashes
  Content <- Scenes
  Convertible <- MCHashes
  Glbs <- MCGlbs
  Posts = {}
  Asks <- LiveAsks
  SameVersion = FALSE
  OldBundles <- LiveOld
  Capped = TRUE
PROPERTIES
  Answered
  WorkersEnd
