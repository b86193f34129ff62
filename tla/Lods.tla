-------------------------------- MODULE Lods --------------------------------
(***************************************************************************)
(* Converting the levels of detail of a scene (src/src/lods.rs): each      *)
(* source is built in turn, those that fail are skipped, all bundles go    *)
(* into the directory of the first scene that was built, each with a       *)
(* brotli copy, and a manifest lists them.  Runs may be killed and follow  *)
(* one another over one tree.                                              *)
(*                                                                         *)
(* A source is [scene, level, ext, bytes]: its file name, the scene in     *)
(* lower case and "" when it is empty, a level of -1 when that is not a    *)
(* number; and what its bytes build into.                                  *)
(***************************************************************************)
EXTENDS Integers, Sequences, SequencesExt

CONSTANTS
  SourceLists,         \* Seq(sources): the arguments of a run
  MaxRuns, MaxFaults   \* bounds

LodsAssumption ==
  /\ {MaxRuns, MaxFaults} \subseteq Nat
  /\ \A list \in SourceLists : list # <<>> /\ list \in Seq(Range(list))

VARIABLES
  sources,
  run,      \* [pc, at, path]: where convert_lods is
  results,  \* <<[scene, level, source]>>: what was built
  skipped,  \* the sources that were not
  written,  \* [bundle -> source]: what is to be written, the last of each name
  todo,     \* what of that is not written yet
  tree,     \* [path -> source, "part" or the manifest]
  past      \* [runs, faults]

vars == <<sources, run, results, skipped, written, todo, tree, past>>

Rest == [pc |-> "off", at |-> 1, path |-> <<>>]

Init ==
  /\ sources \in SourceLists
  /\ run = Rest /\ results = <<>> /\ skipped = {} /\ written = <<>> /\ todo = {} /\ tree = <<>>
  /\ past = [runs |-> 0, faults |-> 0]

At(pc) == run.pc = pc
With(map, key, value) == [k \in DOMAIN map \cup {key} |-> IF k = key THEN value ELSE map[k]]
Fault == past.faults < MaxFaults /\ past' = [past EXCEPT !.faults = @ + 1]

StartRun ==
  /\ At("off") /\ past.runs < MaxRuns
  /\ past' = [past EXCEPT !.runs = @ + 1]
  /\ run' = [Rest EXCEPT !.pc = "build"]
  /\ results' = <<>> /\ skipped' = {} /\ written' = <<>> /\ todo' = {}
  /\ UNCHANGED <<sources, tree>>

-----------------------------------------------------------------------------
(* parse_lod_filename and the formats that are refused.                    *)
Accepted(s) == s.scene # "" /\ s.level >= 0 /\ s.ext \in {".glb", ".gltf"}
BundleName(s) == <<s.scene, s.level>> 

(* One source.  A later source of the same scene and level takes the place *)
(* of the earlier in what is written, while both stay in the results.      *)
Source == sources[run.at]
NextSource == run' = [run EXCEPT !.at = @ + 1]
Build ==
  /\ At("build") /\ run.at \in DOMAIN sources /\ Accepted(Source)
  /\ results' = Append(results, [scene |-> Source.scene, level |-> Source.level, source |-> run.at])
  /\ written' = With(written, BundleName(Source), run.at)
  /\ NextSource /\ UNCHANGED <<sources, skipped, todo, tree, past>>
Skip ==
  /\ At("build") /\ run.at \in DOMAIN sources
  /\ IF Accepted(Source) THEN Fault ELSE UNCHANGED past
  /\ skipped' = skipped \cup {run.at}
  /\ NextSource /\ UNCHANGED <<sources, results, written, todo, tree>>

(* Nothing built is an error.                                              *)
Dir == results[1].scene
Path(name, br) == <<Dir, name, br>>
Manifest == <<"manifest">>
EndBuild ==
  /\ At("build") /\ run.at \notin DOMAIN sources
  /\ IF results = <<>> THEN run' = [run EXCEPT !.pc = "failed"] /\ UNCHANGED todo
     ELSE run' = [run EXCEPT !.pc = "write"] /\ todo' = (DOMAIN written) \X BOOLEAN
  /\ UNCHANGED <<sources, results, skipped, written, tree, past>>

(* Each bundle and then its brotli copy, in the order of the names, in     *)
(* place; the manifest and its copy at the end.                            *)
Files == [names |-> {BundleName(sources[r.source]) : r \in Range(results)},
          count |-> Len(results), levels |-> {r.level : r \in Range(results)}]
Put(path, what) == tree' = With(tree, path, what)
Open(name, br) ==
  /\ At("write")
  /\ IF todo # {} THEN <<name, br>> \in todo /\ (br => <<name, FALSE>> \notin todo)
     ELSE name = Manifest /\ br = (run.path = Path(Manifest, FALSE))
  /\ todo' = todo \ {<<name, br>>}
  /\ Put(Path(name, br), "part")
  /\ run' = [run EXCEPT !.pc = "writing", !.path = Path(name, br)]
  /\ UNCHANGED <<sources, results, skipped, written, past>>
Close ==
  /\ At("writing")
  /\ Put(run.path, IF run.path[2] = Manifest THEN Files ELSE sources[written[run.path[2]]].bytes)
  /\ run' = [run EXCEPT !.pc = IF run.path = Path(Manifest, TRUE) THEN "done" ELSE "write"]
  /\ UNCHANGED <<sources, results, skipped, written, todo, past>>
WriteFail ==
  /\ At("writing") /\ Fault
  /\ run' = [run EXCEPT !.pc = "failed"]
  /\ UNCHANGED <<sources, results, skipped, written, todo, tree>>

Stop ==
  /\ run.pc \in {"done", "failed"} /\ run' = Rest
  /\ UNCHANGED <<sources, results, skipped, written, todo, tree, past>>
Kill ==
  /\ run.pc \in {"build", "write", "writing"} /\ Fault
  /\ run' = Rest
  /\ UNCHANGED <<sources, results, skipped, written, todo, tree>>

Next ==
  \/ StartRun \/ Build \/ Skip \/ EndBuild \/ Close \/ WriteFail \/ Stop \/ Kill
  \/ \E name \in DOMAIN written \cup {Manifest}, br \in BOOLEAN : Open(name, br)
  \/ At("off") /\ past.runs = MaxRuns /\ UNCHANGED vars

Spec == Init /\ [][Next]_vars

-----------------------------------------------------------------------------
(* A finished run accounts for every source, and all its manifest lists is *)
(* there under the scene's directory with an equal brotli copy: of sources *)
(* with one scene and level the last, as many as were built, whatever      *)
(* failed or was killed before (lods.rs:152, 201, 218, 267).               *)
AllLevels ==
  At("done") =>
    /\ {r.source : r \in Range(results)} \cup skipped = DOMAIN sources
    /\ tree[Path(Manifest, TRUE)] = tree[Path(Manifest, FALSE)]
    /\ LET files == tree[Path(Manifest, FALSE)] IN
       /\ files.count = Len(results) /\ {n[2] : n \in files.names} = files.levels
       /\ \A name \in files.names :
            LET last == CHOOSE i \in DOMAIN sources \ skipped :
                          /\ BundleName(sources[i]) = name
                          /\ \A j \in DOMAIN sources \ skipped : BundleName(sources[j]) = name => j <= i
            IN \A br \in BOOLEAN : tree[Path(name, br)] = sources[last].bytes
=============================================================================
