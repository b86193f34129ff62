------------------------------- MODULE World -------------------------------
(***************************************************************************)
(* abgen-world (src/src/bin/abgen-world.rs): download the entities and the *)
(* content of the scenes of some worlds into a content store, and list the *)
(* entity ids for abgen-corpus.  The worlds are handled one after another; *)
(* the content files of a scene are fetched in parallel, each through a    *)
(* temporary <hash>.part that is named after the hash alone, so that two   *)
(* files of a scene with one content hash share it.                        *)
(*                                                                         *)
(* Runs follow one another over the same store and may be killed.          *)
(***************************************************************************)
EXTENDS Integers, Sequences, Inodes

CONSTANTS
  Threads,    \* rayon's workers
  Main,       \* the main thread, which fetches the entities
  Scenes,     \* scene entities (their ids are content hashes too)
  Hashes,     \* hashes of content files
  Worlds,     \* Seq(Seq(Scenes)): the scenes a world's /about lists
  ContentOf,  \* [Scenes -> Seq(Hashes)]
  MaxRuns,    \* bound
  MaxFaults,  \* bound: failed fetches, failed writes and kills
  Nil

Fetchers == Threads \cup {Main}
Files == Scenes \cup Hashes
Paths == Files \X {"store", "part"}

WorldAssumption ==
  /\ Main \notin Threads /\ IsFiniteSet(Fetchers) /\ IsFiniteSet(Files)
  /\ Worlds \in Seq(Seq(Scenes)) /\ Worlds # <<>> /\ ContentOf \in [Scenes -> Seq(Hashes)]
  /\ {MaxRuns, MaxFaults} \subseteq Nat

VARIABLES
  main,    \* [pc, world, scene]: where run() is
  todo,    \* indices into the scene's content that no worker has taken
  task,    \* [Fetchers -> [pc, file, ino]]: calls of fetch_to_store
  ids,     \* entity_ids
  idsOut,  \* the ids file: Nil or what it lists
  disk,
  missed,  \* files whose fetch was only warned about
  past     \* history: [runs, faults, cuts]

vars == <<main, todo, task, ids, idsOut, disk, missed, past>>

Rest == [pc |-> "off", world |-> 1, scene |-> 1]
Free == [pc |-> "free", file |-> Nil, ino |-> NoInode]
Fetch(file) == [pc |-> "check", file |-> file, ino |-> NoInode]

Init ==
  /\ main = Rest /\ todo = {} /\ ids = <<>> /\ idsOut = Nil /\ missed = {}
  /\ task = [f \in Fetchers |-> Free]
  /\ disk = [link |-> [p \in Paths |-> NoInode],
             held |-> [i \in 1 .. 2 * Cardinality(Files) + Cardinality(Fetchers) |-> "part"]]
  /\ past = [runs |-> 0, faults |-> 0, cuts |-> 0]

-----------------------------------------------------------------------------
Store(file) == <<file, "store">>
Part(file)  == <<file, "part">>
Open == {task[f].ino : f \in Fetchers}
Scene == Worlds[main.world][main.scene]
Is(f, pc) == task[f].pc = pc
To(f, pc) == task' = [task EXCEPT ![f].pc = pc]
Goes(f, pc, ino) == task' = [task EXCEPT ![f] = [pc |-> pc, file |-> task[f].file, ino |-> ino]]
Fault == past.faults < MaxFaults /\ past' = [past EXCEPT !.faults = @ + 1]
\* A fault that cuts a file short.
Cut ==
  /\ past.faults < MaxFaults
  /\ past' = [runs |-> past.runs, faults |-> past.faults + 1, cuts |-> past.cuts + 1]

(* fetch_to_store *)

\* A file that exists is never looked at again.
Check(f) ==
  /\ Is(f, "check")
  /\ To(f, IF Exists(disk, Store(task[f].file)) THEN "have" ELSE "get")
  /\ UNCHANGED <<main, todo, ids, idsOut, disk, missed, past>>

\* http_get: one attempt.  No file is longer than the 512 MiB after which it
\* would cut the body short and report no error (abgen-world.rs:40).
Get(f) ==
  /\ Is(f, "get") /\ To(f, "open")
  /\ UNCHANGED <<main, todo, ids, idsOut, disk, missed, past>>

GetFail(f) ==
  /\ Is(f, "get") /\ Fault /\ To(f, "failed")
  /\ UNCHANGED <<main, todo, ids, idsOut, disk, missed>>

\* fs::write of <hash>.part.
OpenPart(f) ==
  LET p == Part(task[f].file) i == Opened(disk, p, Open) IN
  /\ Is(f, "open")
  /\ disk' = Truncated(disk, p, i)
  /\ Goes(f, "write", i)
  /\ UNCHANGED <<main, todo, ids, idsOut, missed, past>>

WritePart(f) ==
  /\ Is(f, "write")
  /\ disk' = Written(disk, task[f].ino)
  /\ Goes(f, "rename", NoInode)
  /\ UNCHANGED <<main, todo, ids, idsOut, missed, past>>

WriteFail(f) ==
  /\ Is(f, "write") /\ Cut
  /\ Goes(f, "failed", NoInode)
  /\ UNCHANGED <<main, todo, ids, idsOut, disk, missed>>

RenamePart(f) ==
  LET file == task[f].file IN
  /\ Is(f, "rename") /\ Exists(disk, Part(file))
  /\ disk' = Swept(Renamed(disk, Part(file), Store(file)), Open)
  /\ To(f, "have")
  /\ UNCHANGED <<main, todo, ids, idsOut, missed, past>>

\* Another worker has renamed the temporary they shared.
RenameFail(f) ==
  /\ Is(f, "rename") /\ ~Exists(disk, Part(task[f].file))
  /\ To(f, "failed")
  /\ UNCHANGED <<main, todo, ids, idsOut, disk, missed, past>>

-----------------------------------------------------------------------------
(* run() *)
StartRun ==
  /\ main.pc = "off" /\ past.runs < MaxRuns
  /\ main' = [Rest EXCEPT !.pc = "about"]
  /\ ids' = <<>> /\ missed' = {}
  /\ past' = [past EXCEPT !.runs = @ + 1]
  /\ UNCHANGED <<todo, task, idsOut, disk>>

\* The next world, or the list of ids.
NextWorld ==
  IF main.world = Len(Worlds) THEN [Rest EXCEPT !.pc = "ids"]
  ELSE [Rest EXCEPT !.pc = "about", !.world = main.world + 1]

\* The next scene of the world, if any: fetch its entity.
GoTo(scene) ==
  IF scene > Len(Worlds[main.world])
  THEN main' = NextWorld /\ task' = [task EXCEPT ![Main] = Free]
  ELSE /\ main' = [main EXCEPT !.pc = "entity", !.scene = scene]
       /\ task' = [task EXCEPT ![Main] = Fetch(Worlds[main.world][scene])]

About ==
  /\ main.pc = "about" /\ GoTo(1)
  /\ UNCHANGED <<todo, ids, idsOut, disk, missed, past>>

\* An error ends the world; the ids it has given so far stay.
SkipWorld ==
  /\ main' = NextWorld /\ task' = [task EXCEPT ![Main] = Free]
  /\ UNCHANGED <<todo, ids, idsOut, disk, missed>>

AboutFail == main.pc = "about" /\ Fault /\ SkipWorld

Parses == Exists(disk, Store(Scene)) /\ Content(disk, Store(Scene)) = "whole"

EntityFail ==
  /\ main.pc = "entity" /\ (Is(Main, "failed") \/ (Is(Main, "have") /\ ~Parses))
  /\ SkipWorld /\ UNCHANGED past

Entity ==
  /\ main.pc = "entity" /\ Is(Main, "have") /\ Parses
  /\ main' = [main EXCEPT !.pc = "content"]
  /\ task' = [task EXCEPT ![Main] = Free]
  /\ todo' = DOMAIN ContentOf[Scene]
  /\ UNCHANGED <<ids, idsOut, disk, missed, past>>

\* par_iter
TakeFile(f, i) ==
  /\ f \in Threads /\ Is(f, "free") /\ i \in todo
  /\ todo' = todo \ {i}
  /\ task' = [task EXCEPT ![f] = Fetch(ContentOf[Scene][i])]
  /\ UNCHANGED <<main, ids, idsOut, disk, missed, past>>

EndFile(f) ==
  /\ f \in Threads /\ task[f].pc \in {"have", "failed"}
  /\ task' = [task EXCEPT ![f] = Free]
  /\ missed' = IF Is(f, "failed") THEN missed \cup {task[f].file} ELSE missed
  /\ UNCHANGED <<main, todo, ids, idsOut, disk, past>>

\* Whatever of the content could not be had, the entity is listed.
SceneDone ==
  /\ main.pc = "content" /\ todo = {} /\ \A f \in Threads : Is(f, "free")
  /\ ids' = Append(ids, Scene)
  /\ GoTo(main.scene + 1)
  /\ UNCHANGED <<todo, idsOut, disk, missed, past>>

\* No id at all is an error, and then an older list stays.
WriteIds ==
  /\ main.pc = "ids"
  /\ idsOut' = IF ids = <<>> THEN idsOut ELSE ids
  /\ main' = [main EXCEPT !.pc = "off"]
  /\ UNCHANGED <<todo, task, ids, disk, missed, past>>

Kill ==
  /\ main.pc # "off" /\ Cut
  /\ main' = Rest /\ todo' = {} /\ task' = [f \in Fetchers |-> Free]
  /\ disk' = Swept(disk, {}) /\ ids' = <<>> /\ missed' = {}
  /\ UNCHANGED idsOut

FetchStep(f) ==
  \/ Check(f) \/ Get(f) \/ GetFail(f) \/ OpenPart(f) \/ WritePart(f) \/ WriteFail(f)
  \/ RenamePart(f) \/ RenameFail(f)
  \/ \E i \in todo : TakeFile(f, i)
  \/ EndFile(f)

Next ==
  \/ \E f \in Fetchers : FetchStep(f)
  \/ StartRun \/ About \/ AboutFail \/ Entity \/ EntityFail \/ SceneDone \/ WriteIds \/ Kill
  \/ main.pc = "off" /\ past.runs = MaxRuns /\ UNCHANGED vars

Spec == Init /\ [][Next]_vars

-----------------------------------------------------------------------------
\* At the end of a run that was not cut (killed, or out of disk), nor any before
\* it, every file in the store is whole although workers truncate each other's
\* temporary and publish it unfinished; and an id is listed only when its entity
\* is there with all the content that was not warned about.  The entities are
\* fetched by one thread: even a killed run leaves none that would not parse.
WorldComplete ==
  /\ \A s \in Scenes : Exists(disk, Store(s)) => Content(disk, Store(s)) = "whole"
  /\ main.pc = "off" /\ past.cuts = 0 /\ past.runs > 0 =>
       /\ \A file \in Files : Exists(disk, Store(file)) => Content(disk, Store(file)) = "whole"
       /\ \A i \in DOMAIN ids :
            /\ Exists(disk, Store(ids[i]))
            /\ \A k \in DOMAIN ContentOf[ids[i]] :
                 Exists(disk, Store(ContentOf[ids[i]][k])) \/ ContentOf[ids[i]][k] \in missed
=============================================================================
