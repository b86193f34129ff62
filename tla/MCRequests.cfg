SPECIFICATION MCSpec
CONSTANTS
  t1 = t1
  t2 = t2
  e1 = e1
  e2 = e2
  p = p
  glb = glb
  tex = tex
  Nil = Nil
  Mixes = {"shared", "routes"}
  Callers <- MCCallers
  Ids <- MCIds
  Pointers <- MCPointer
  Hashes <- MCHashes
  Content <- Scenes
  Convertible <- MCHashes
  Glbs <- MCGlbs
  Posts <- MCPosts
  Asks <- MCAsks
  SameVersion = TRUE
  OldBundles <- MCOld
  Capped = FALSE
SYMMETRY Symm
INVARIANTS
  BuildOnce
  CacheWhole
  AnswersRight
  FreshIsCached
  IncompleteOnlyIfLostOrTorn
  OneHop
PROPERTIES
  UsesEntityCtx
