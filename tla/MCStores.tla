------------------------------ MODULE MCStores ------------------------------
(***************************************************************************)
(* Parts of the system that are small enough to be checked in one run,     *)
(* side by side: they share no state, and one of them is at work in a      *)
(* behaviour.  The content store is written by three processes, or by      *)
(* three threads of one.  What the block cache keeps is made by Lz4Block.  *)
(***************************************************************************)
EXTENDS MCCases, ContentStore, Lz4Cache, CacheEviction, TLC

CONSTANTS t1, t2, t3, p1, p2, p3, Main, s1, s2, h1, h2, b1, b2,
          Plans, Collections, LodRuns, Texels, Animated, Primitives, \* sets of MCCases
          Works     \* which of the parts may be at work

VARIABLES
  awake,
  link, temps, bytes, fetcher,                          \* ContentStore, of one process
  main, todo, task, ids, idsOut, stored, missed, past,  \* World
  buf, sufficient, step, ip, anchor, op, opt, cur, last, \* Lz4Block
  case, uris, scan, reader, entries, plan,              \* Manifest
  asked, job, bundles, result, unresolved, tree, listed, before, \* Wearables
  sources, run, results, skipped, written, left, levels, earlier, \* Lods
  group, plans, lane, tries, best, out,                 \* Bc7Block
  glb, channels, seen, anims, clips, player,            \* Clips
  doc, stage, prim, vertex, data, boxes, shapes         \* MeshLayout

one       == <<link, temps, bytes, fetcher>>
world     == <<main, todo, task, ids, idsOut, stored, missed, past>>
encoder   == <<buf, sufficient, step, ip, anchor, op, opt, cur, last>>
corpus    == <<case, uris, scan, reader, entries, plan>>
wearables == <<asked, job, bundles, result, unresolved, tree, listed, before>>
lods      == <<sources, run, results, skipped, written, left, levels, earlier>>
texels    == <<group, plans, lane, tries, best, out>>
motion    == <<glb, channels, seen, anims, clips, player>>
mesh      == <<doc, stage, prim, vertex, data, boxes, shapes>>

\* The threads of the content store are those of three processes, or of one.
Apart    == (t1 :> p1) @@ (t2 :> p2) @@ (t3 :> p3)
Together == INSTANCE ContentStore WITH
  Crashes <- FALSE, ProcOf <- [t \in Threads |-> p1],
  path <- link, tmp <- temps, held <- bytes, thread <- fetcher

\* Of the three that compress, two share a process.
Pairs == (t1 :> p1) @@ (t2 :> p1) @@ (t3 :> p2)

\* Two bundles that fit one at a time; the larger one fills the cache exactly,
\* and temporaries that failed writes left behind add to them.
BundleSizes == (b1 :> 1) @@ (b2 :> 2)

\* Two files of scene s1 have one content hash, and s2 shares one with s1.
W == INSTANCE World WITH
  Threads <- {t1, t2}, Scenes <- {s1, s2}, Hashes <- {h1, h2},
  Worlds <- << <<s1, s2>>, <<s1>> >>,
  ContentOf <- (s1 :> <<h1, h1>>) @@ (s2 :> <<h1, h2>>),
  MaxRuns <- 2, MaxFaults <- 2, disk <- stored

\* Inputs that repeat with several periods and one that is too short, with
\* lengths that fill a token's halves and bytes at 3 and a table of 8.
Cycle(n, p) == [i \in 1..n |-> p[((i - 1) % Len(p)) + 1]]
Inputs == {Cycle(5, <<1>>)} \cup {Cycle(13, p) : p \in {<<1>>, <<1, 2>>, <<1, 2, 3, 4>>, <<1, 1, 1, 1, 1, 2>>}}
B == INSTANCE Lz4Block WITH
  Buffers <- Inputs, SufficientLens <- {5, 7},
  MinMatch <- 4, LastLiterals <- 1, MfLimit <- 5, OptNum <- 8, RunMask <- 3, MlMask <- 3, ByteMax <- 3

P == INSTANCE Manifest WITH Cases <- Plans, Readers <- {t1, t2}

R == INSTANCE Wearables WITH
  Cases <- Collections, Limit <- 3, Retries <- 2, MaxRuns <- 2, MaxFaults <- 2,
  case <- asked, past <- before

D == INSTANCE Lods WITH
  SourceLists <- LodRuns, MaxRuns <- 2, MaxFaults <- 2, todo <- left, tree <- levels, past <- earlier

C == INSTANCE Bc7Block WITH Groups <- Texels

A == INSTANCE Clips WITH Glbs <- Animated, todo <- channels, left <- anims

G == INSTANCE MeshLayout WITH Docs <- Primitives

ASSUME StoresAssumption ==
  /\ ContentStoreAssumption /\ Together!ContentStoreAssumption
  /\ Lz4CacheAssumption /\ W!WorldAssumption
  /\ B!Lz4BlockAssumption /\ P!ManifestAssumption /\ R!WearablesAssumption /\ D!LodsAssumption /\ C!AnchorsAssumption

(* What is not at work is in one state, of no meaning if it has several to *)
(* start from, and stays there.                                            *)
StoresInit ==
  /\ awake \in Works
  /\ Init /\ Together!Init /\ InitBlocks /\ InitEviction /\ W!Init
  /\ IF awake = "block" THEN B!Init
     ELSE /\ buf = Nil /\ sufficient = Nil /\ step = Nil /\ ip = Nil /\ anchor = Nil
          /\ op = Nil /\ opt = Nil /\ cur = Nil /\ last = Nil
  /\ IF awake = "corpus" THEN P!Init
     ELSE case = Nil /\ uris = Nil /\ scan = Nil /\ reader = Nil /\ entries = Nil /\ plan = Nil
  /\ IF awake = "wearables" THEN R!Init
     ELSE /\ asked = Nil /\ job = Nil /\ bundles = Nil /\ result = Nil
          /\ unresolved = Nil /\ tree = Nil /\ listed = Nil /\ before = Nil
  /\ IF awake = "lods" THEN D!Init
     ELSE /\ sources = Nil /\ run = Nil /\ results = Nil /\ skipped = Nil
          /\ written = Nil /\ left = Nil /\ levels = Nil /\ earlier = Nil
  /\ IF awake = "bc7" THEN C!Init
     ELSE group = Nil /\ plans = Nil /\ lane = Nil /\ tries = Nil /\ best = Nil /\ out = Nil
  /\ IF awake = "clips" THEN A!Init
     ELSE glb = Nil /\ channels = Nil /\ seen = Nil /\ anims = Nil /\ clips = Nil /\ player = Nil
  /\ IF awake = "mesh" THEN G!Init
     ELSE /\ doc = Nil /\ stage = Nil /\ prim = Nil /\ vertex = Nil
          /\ data = Nil /\ boxes = Nil /\ shapes = Nil

Keep(part, v) == IF awake \in part THEN TRUE ELSE UNCHANGED v
StoresNext ==
  /\ \/ awake = "apart" /\ Next
     \/ awake = "together" /\ Together!Next
     \/ awake = "lz4" /\ NextBlocks
     \/ awake = "evict" /\ NextEviction
     \/ awake = "world" /\ W!Next
     \/ awake = "block" /\ B!Next
     \/ awake = "corpus" /\ P!Next
     \/ awake = "wearables" /\ R!Next
     \/ awake = "lods" /\ D!Next
     \/ awake = "bc7" /\ C!Next
     \/ awake = "clips" /\ A!Next
     \/ awake = "mesh" /\ G!Next
  /\ UNCHANGED awake
  /\ Keep({"apart"}, vars) /\ Keep({"together"}, one) /\ Keep({"lz4"}, blockVars)
  /\ Keep({"evict"}, evictionVars) /\ Keep({"world"}, world) /\ Keep({"block"}, encoder) /\ Keep({"corpus"}, corpus)
  /\ Keep({"wearables"}, wearables) /\ Keep({"lods"}, lods) /\ Keep({"bc7"}, texels)
  /\ Keep({"clips"}, motion) /\ Keep({"mesh"}, mesh)

StoresSpec ==
  StoresInit /\ [][StoresNext]_<<awake, vars, blockVars, evictionVars, one, world, encoder, corpus,
                                wearables, lods, texels, motion, mesh>>

-----------------------------------------------------------------------------
\* The properties of the modules, each of the behaviours it is about; those of
\* ContentStore, Lz4Cache and CacheEviction hold of what is not at work as well.
\* A plan has each bundle and each entity once, and lacks nothing.
PlanComplete      == awake = "corpus" => P!PlanComplete
\* What an encoder emits is what its decoder reads back.
CodecsAgree ==
  /\ awake = "block" => B!BlockDecodes
  /\ awake = "bc7" => C!BestDecodes /\ C!SolidDecodes /\ C!PlansCheapest /\ C!EveryProcessorAgrees
  /\ awake = "mesh" => G!MeshReadsBack
\* Violated: where the vertices of a bone may be is in the box of the bone.
BoneBoxesHold     == awake = "mesh" => G!BoneBoxesHold
\* A clip moves the objects that the glTF moves, as its samplers say.
ClipsPlay         == awake = "clips" => A!ClipsPlay
\* What a finished batch says it made is there, whatever failed before, and what
\* threads that have finished leave in the content store is whole.
BatchesReportTruly ==
  /\ Together!QuietWhole
  /\ awake = "world" => W!WorldComplete
  /\ awake = "wearables" => R!ReportsTruly
  /\ awake = "lods" => D!AllLevels
=============================================================================
