---------------------------- MODULE World_proofs ----------------------------
(***************************************************************************)
(* Proofs about World for any worlds, scenes, content, workers, runs and   *)
(* faults: what a finished run lists is there, and what is there is whole. *)
(***************************************************************************)
EXTENDS World, Inodes_proofs

InodeMax == 2 * Cardinality(Files) + Cardinality(Fetchers)
MainPcs == {"off", "about", "entity", "content", "ids"}
TaskPcs == {"free", "check", "get", "open", "write", "rename", "have", "failed"}
Tasks == [pc : TaskPcs, file : Files \cup {Nil}, ino : 0 .. InodeMax]

\* No scene's entity is a content file of a scene: a file that deploys an entity
\* is not part of what it deploys.
IdsApart == Scenes \cap Hashes = {}

Types ==
  /\ disk \in Disks(Paths, InodeMax)
  /\ main \in [pc : MainPcs, world : 1 .. Len(Worlds), scene : Nat]
  /\ task \in [Fetchers -> Tasks]
  /\ ids \in Seq(Scenes)
  /\ past \in [runs : Nat, faults : Nat, cuts : Nat]

\* Which fetches can be under way where run() is.
Fetches(f) ==
  /\ ~Is(f, "free") => task[f].file \in Files
  /\ Is(f, "write") => task[f].ino \in 1 .. InodeMax
  /\ ~Is(f, "write") => task[f].ino = NoInode
Stages ==
  /\ \A f \in Fetchers : Fetches(f)
  /\ \A f \in Threads : ~Is(f, "free") => task[f].file \in Hashes
  /\ main.pc # "content" => todo = {} /\ \A f \in Threads : Is(f, "free")
  /\ main.pc # "entity" => Is(Main, "free")
  /\ main.pc \in {"entity", "content"} => main.scene \in DOMAIN Worlds[main.world]
  /\ main.pc = "entity" => ~Is(Main, "free") /\ task[Main].file = Scene
  /\ main.pc = "content" => todo \subseteq DOMAIN ContentOf[Scene]

\* An inode has one path, and one that is written, only paths of its file.
Links ==
  /\ \A p, q \in Paths : Exists(disk, p) /\ disk.link[p] = disk.link[q] => p = q
  /\ \A f \in Fetchers : Is(f, "write") =>
       \A p \in Paths : disk.link[p] = task[f].ino => p[1] = task[f].file

\* Entities are whole: who writes one has its temporary alone.
EntitiesWhole ==
  /\ \A s \in Scenes : Exists(disk, Store(s)) => Content(disk, Store(s)) = "whole"
  /\ Is(Main, "write") => disk.link[Part(task[Main].file)] = task[Main].ino
  /\ Is(Main, "rename") => /\ Exists(disk, Part(task[Main].file))
                           /\ Content(disk, Part(task[Main].file)) = "whole"

\* Until something is cut short, what is linked is whole, or will be.
Coming(i) == disk.held[i] = "whole" \/ \E f \in Fetchers : Is(f, "write") /\ task[f].ino = i
Whole == past.cuts = 0 => \A p \in Paths : Exists(disk, p) => Coming(disk.link[p])

\* What has been fetched is there, and so is what a listed entity refers to.
Had(files, lost, file) == Exists(files, Store(file)) \/ file \in lost
Going(tasks, file) == \E f \in Threads : tasks[f].pc # "free" /\ tasks[f].file = file
Fetched ==
  /\ \A f \in Fetchers : Is(f, "have") => Exists(disk, Store(task[f].file))
  /\ main.pc = "content" =>
       /\ Exists(disk, Store(Scene))
       /\ \A k \in DOMAIN ContentOf[Scene] :
            k \in todo \/ Going(task, ContentOf[Scene][k]) \/ Had(disk, missed, ContentOf[Scene][k])
  /\ \A i \in DOMAIN ids :
       /\ Exists(disk, Store(ids[i]))
       /\ \A k \in DOMAIN ContentOf[ids[i]] : Had(disk, missed, ContentOf[ids[i]][k])

WorldInv == Types /\ Stages /\ Links /\ EntitiesWhole /\ Whole /\ Fetched

-----------------------------------------------------------------------------
LEMMA Numbers ==
  ASSUME WorldAssumption
  PROVE  /\ IsFiniteSet(Fetchers) /\ Cardinality(Fetchers) \in Nat
         /\ IsFiniteSet(Paths) /\ Cardinality(Paths) \in Nat
         /\ Cardinality(Paths) + Cardinality(Fetchers) = InodeMax
         /\ InodeMax \in Nat
<1>1. /\ IsFiniteSet(Fetchers) /\ Cardinality(Fetchers) \in Nat
      /\ IsFiniteSet(Files) /\ Cardinality(Files) \in Nat
  BY FS_CardinalityType DEF WorldAssumption
<1>2. IsFiniteSet({"store"}) /\ Cardinality({"store"}) = 1
  BY FS_Singleton
<1>3. /\ IsFiniteSet({"store"} \cup {"part"})
      /\ Cardinality({"store"} \cup {"part"}) = 2
  BY <1>2, FS_AddElement
<1>4. {"store", "part"} = {"store"} \cup {"part"}
  OBVIOUS
<1>5. /\ IsFiniteSet({"store", "part"})
      /\ Cardinality({"store", "part"}) = 2
  BY <1>3, <1>4
<1>6. /\ IsFiniteSet(Files \X {"store", "part"})
      /\ Cardinality(Files \X {"store", "part"}) = Cardinality(Files) * Cardinality({"store", "part"})
  BY <1>1, <1>5, FS_Product, Zenon
<1>7. IsFiniteSet(Paths) /\ Cardinality(Paths) = Cardinality(Files) * 2
  BY <1>5, <1>6, Zenon DEF Paths
<1> QED
  BY <1>1, <1>7 DEF InodeMax

LEMMA FilePaths ==
  ASSUME NEW file \in Files
  PROVE  /\ Store(file) \in Paths /\ Part(file) \in Paths /\ Store(file) # Part(file)
         /\ Store(file)[1] = file /\ Part(file)[1] = file
         /\ \A other : Store(file) # Part(other)
         /\ \A other : other # file => Store(other) # Store(file) /\ Part(other) # Part(file)
BY DEF Store, Part, Paths

Others(f) == \A g \in Fetchers \ {f} : task'[g] = task[g]

\* What the steps do to the files and to the task.
LEMMA OpenPartIs ==
  ASSUME WorldAssumption, Types, Stages, NEW f \in Fetchers, OpenPart(f)
  PROVE  \E i \in 1 .. InodeMax, p \in Paths :
           /\ p = Part(task[f].file)
           /\ disk.link[p] = i \/ (disk.link[p] = NoInode /\ Unused(disk, i, Open))
           /\ disk' \in Disks(Paths, InodeMax) /\ disk'.link[p] = i
           /\ \A q \in Paths \ {p} : disk'.link[q] = disk.link[q]
           /\ \A j \in 1 .. InodeMax : j # i => disk'.held[j] = disk.held[j]
           /\ Goes(f, "write", i)
<1>1. task[f].file \in Files
  BY DEF OpenPart, Stages, Fetches, Is
<1>2. PICK p \in Paths : p = Part(task[f].file)
  BY <1>1, FilePaths
<1>3. IsFiniteSet(Open) /\ Cardinality(Open) <= Cardinality(Fetchers)
  <2> DEFINE g == [x \in Fetchers |-> task[x].ino]
  <2>1. Open = {g[x] : x \in Fetchers}
    BY DEF Open
  <2> HIDE DEF g
  <2> QED
    BY <2>1, Numbers, FewValues
<1>4. Cardinality(Open) + Cardinality(Paths) <= InodeMax
  BY <1>3, Numbers, FS_CardinalityType
<1>5. PICK i : i = Opened(disk, p, Open)
  OBVIOUS
<1>6. /\ i \in 1 .. InodeMax
      /\ disk.link[p] = i \/ (disk.link[p] = NoInode /\ Unused(disk, i, Open))
  BY <1>3, <1>4, <1>5, Numbers, OpenedRight DEF Types
<1>7. disk' = Truncated(disk, p, i) /\ Goes(f, "write", i)
  BY <1>2, <1>5 DEF OpenPart
<1>8. /\ disk' \in Disks(Paths, InodeMax) /\ disk'.link[p] = i
      /\ \A q \in Paths \ {p} : disk'.link[q] = disk.link[q]
      /\ \A j \in 1 .. InodeMax : j # i => disk'.held[j] = disk.held[j]
  BY <1>6, <1>7, Numbers, TruncatedIs DEF Types
<1> QED
  BY <1>2, <1>6, <1>7, <1>8

LEMMA WritePartIs ==
  ASSUME WorldAssumption, Types, Stages, NEW f \in Fetchers, WritePart(f)
  PROVE  /\ task[f].ino \in 1 .. InodeMax
         /\ disk' \in Disks(Paths, InodeMax) /\ disk'.link = disk.link
         /\ disk'.held[task[f].ino] = "whole"
         /\ \A j \in 1 .. InodeMax : j # task[f].ino => disk'.held[j] = disk.held[j]
<1>1. disk' = Written(disk, task[f].ino) /\ Is(f, "write")
  BY DEF WritePart
<1>2. PICK i \in 1 .. InodeMax : i = task[f].ino
  BY <1>1 DEF Stages, Fetches
<1>3. disk' = Written(disk, i) /\ disk \in Disks(Paths, InodeMax) /\ InodeMax \in Nat
  BY <1>1, <1>2, Numbers DEF Types
<1>4. /\ disk' \in Disks(Paths, InodeMax) /\ disk'.link = disk.link
      /\ disk'.held[i] = "whole"
      /\ \A j \in 1 .. InodeMax : j # i => disk'.held[j] = disk.held[j]
  BY <1>3, WrittenIs
<1> QED
  BY <1>2, <1>4

LEMMA RenamePartIs ==
  ASSUME WorldAssumption, Types, Stages, NEW f \in Fetchers, RenamePart(f)
  PROVE  LET p == Part(task[f].file)  s == Store(task[f].file) IN
         /\ p \in Paths /\ s \in Paths /\ s # p /\ disk.link[p] \in 1 .. InodeMax
         /\ disk' \in Disks(Paths, InodeMax)
         /\ disk'.link[s] = disk.link[p] /\ disk'.link[p] = NoInode
         /\ \A q \in Paths \ {s, p} : disk'.link[q] = disk.link[q]
         /\ \A q \in Paths : Exists(disk', q) => disk'.held[disk'.link[q]] = disk.held[disk'.link[q]]
<1> DEFINE p == Part(task[f].file)  s == Store(task[f].file)
<1>1. p \in Paths /\ s \in Paths /\ s # p
  BY FilePaths DEF RenamePart, Stages, Fetches, Is
<1>2. disk' = Swept(Renamed(disk, p, s), Open) /\ Exists(disk, p)
  BY DEF RenamePart
<1>3. disk.link[p] \in 1 .. InodeMax
  BY <1>1, <1>2, Numbers DEF Types, Disks, Exists, NoInode
<1>4. PICK d : d = Renamed(disk, p, s)
  OBVIOUS
<1> HIDE DEF p, s
<1>5. /\ d \in Disks(Paths, InodeMax) /\ d.held = disk.held
      /\ d.link[s] = disk.link[p] /\ d.link[p] = NoInode
      /\ \A q \in Paths \ {s, p} : d.link[q] = disk.link[q]
  BY <1>1, <1>4, Numbers, RenamedIs DEF Types
<1>6. /\ disk' \in Disks(Paths, InodeMax) /\ disk'.link = d.link
      /\ \A j \in 1 .. InodeMax : ~Unused(d, j, Open) => disk'.held[j] = d.held[j]
  BY <1>2, <1>4, <1>5, Numbers, SweptIs
<1>7. \A q \in Paths : Exists(disk', q) => ~Unused(d, d.link[q], Open) /\ d.link[q] \in 1 .. InodeMax
  BY <1>5, <1>6, Numbers DEF Unused, Disks, Exists, NoInode
<1>8. \A q \in Paths : Exists(disk', q) => disk'.held[disk'.link[q]] = disk.held[disk'.link[q]]
  BY <1>5, <1>6, <1>7
<1> QED
  BY <1>1, <1>3, <1>5, <1>6, <1>8 DEF p, s

LEMMA KillIs ==
  ASSUME WorldAssumption, Types, Kill
  PROVE  /\ disk' \in Disks(Paths, InodeMax) /\ disk'.link = disk.link
         /\ \A q \in Paths : Exists(disk, q) => disk'.held[disk.link[q]] = disk.held[disk.link[q]]
<1>1. disk' = Swept(disk, {})
  BY DEF Kill
<1>2. /\ disk' \in Disks(Paths, InodeMax) /\ disk'.link = disk.link
      /\ \A j \in 1 .. InodeMax : ~Unused(disk, j, {}) => disk'.held[j] = disk.held[j]
  BY <1>1, Numbers, SweptIs DEF Types
<1>3. \A q \in Paths : Exists(disk, q) => ~Unused(disk, disk.link[q], {}) /\ disk.link[q] \in 1 .. InodeMax
  BY Numbers DEF Unused, Types, Disks, Exists, NoInode
<1> QED
  BY <1>2, <1>3

-----------------------------------------------------------------------------
\* Where run() goes on from a scene, or from a world.
LEMMA NextWorldIs ==
  ASSUME WorldAssumption, Types
  PROVE  /\ NextWorld \in [pc : MainPcs, world : 1 .. Len(Worlds), scene : Nat]
         /\ NextWorld.pc \in {"ids", "about"}
<1>1. Len(Worlds) \in Nat \ {0}
  BY DEF WorldAssumption
<1>2. main.world \in 1 .. Len(Worlds)
  BY DEF Types
<1>3. CASE main.world = Len(Worlds)
  <2>1. NextWorld = [pc |-> "ids", world |-> 1, scene |-> 1]
    BY <1>3 DEF NextWorld, Rest
  <2> QED
    BY <1>1, <2>1 DEF MainPcs
<1>4. CASE main.world # Len(Worlds)
  <2>1. NextWorld = [pc |-> "about", world |-> main.world + 1, scene |-> 1]
    BY <1>4 DEF NextWorld, Rest
  <2> QED
    BY <1>1, <1>2, <1>4, <2>1 DEF MainPcs
<1> QED
  BY <1>3, <1>4

LEMMA GoToIs ==
  ASSUME WorldAssumption, Types, NEW n \in Nat \ {0}, GoTo(n)
  PROVE  /\ main' \in [pc : MainPcs, world : 1 .. Len(Worlds), scene : Nat]
         /\ task' \in [Fetchers -> Tasks]
         /\ \A f \in Threads : task'[f] = task[f]
         /\ \/ main'.pc \in {"ids", "about"} /\ task'[Main] = Free
            \/ /\ main'.pc = "entity" /\ main'.scene \in DOMAIN Worlds[main'.world]
               /\ task'[Main] = Fetch(Scene')
               /\ Scene' \in Scenes
<1>0. /\ Main \in Fetchers /\ Main \notin Threads /\ Threads \subseteq Fetchers
      /\ Free \in Tasks /\ InodeMax \in Nat /\ NoInode = 0
  BY Numbers DEF WorldAssumption, Fetchers, Free, Tasks, TaskPcs, NoInode
<1>1. CASE n > Len(Worlds[main.world])
  <2>1. main' = NextWorld /\ task' = [task EXCEPT ![Main] = Free]
    BY <1>1 DEF GoTo
  <2> QED
    BY <1>0, <2>1, NextWorldIs DEF Types
<1>2. CASE ~(n > Len(Worlds[main.world]))
  <2>1. /\ main' = [main EXCEPT !.pc = "entity", !.scene = n]
        /\ task' = [task EXCEPT ![Main] = Fetch(Worlds[main.world][n])]
    BY <1>2 DEF GoTo
  <2>2. Worlds[main.world] \in Seq(Scenes) /\ main.world \in 1 .. Len(Worlds)
    BY DEF WorldAssumption, Types
  <2>3. n \in DOMAIN Worlds[main.world] /\ Worlds[main.world][n] \in Scenes
    BY <1>2, <2>2
  <2>4. /\ main' \in [pc : MainPcs, world : 1 .. Len(Worlds), scene : Nat]
        /\ main'.pc = "entity" /\ main'.world = main.world /\ main'.scene = n
    BY <2>1 DEF Types, MainPcs
  <2>5. Scene' = Worlds[main.world][n]
    BY <2>4 DEF Scene
  <2>6. task'[Main] = Fetch(Worlds[main.world][n])
        /\ \A f \in Threads : task'[f] = task[f]
    BY <1>0, <2>1 DEF Types, Fetch
  <2>7. Fetch(Worlds[main.world][n]) \in Tasks
    BY <1>0, <2>3 DEF Tasks, TaskPcs, Files, Fetch
  <2>8. task' \in [Fetchers -> Tasks]
    BY <1>0, <2>1, <2>6, <2>7 DEF Types
  <2> QED
    BY <2>3, <2>4, <2>5, <2>6, <2>8
<1> QED
  BY <1>1, <1>2

\* A step of one fetch keeps run() where it is.
LEMMA TaskFrame ==
  ASSUME WorldAssumption, Types, Stages, NEW f \in Fetchers, Others(f), DOMAIN task' = Fetchers,
         task' = [g \in Fetchers |-> task'[g]],
         task'[f] \in Tasks, Fetches(f)', UNCHANGED <<main, ids>>, todo' \subseteq todo,
         disk' \in Disks(Paths, InodeMax), past' \in [runs : Nat, faults : Nat, cuts : Nat],
         f \in Threads /\ ~Is(f, "free")' => main.pc = "content" /\ task'[f].file \in Hashes,
         f = Main => (Is(f, "free") <=> Is(f, "free")') /\ task'[f].file = task[f].file
  PROVE  Types' /\ Stages'
<1>1. Types'
  BY DEF Types, Others
<1>2. Main \notin Threads /\ Main \in Fetchers /\ Threads \subseteq Fetchers
  BY DEF WorldAssumption, Fetchers
<1>3. \A g \in Fetchers : Fetches(g)'
  BY DEF Stages, Fetches, Others, Is
<1>4. \A g \in Threads : ~Is(g, "free")' => task'[g].file \in Hashes /\ main.pc = "content"
  BY <1>2 DEF Stages, Others, Is
<1>5. main.pc # "entity" => Is(Main, "free")'
  BY <1>2 DEF Stages, Others, Is
<1>6. main.pc = "entity" => ~Is(Main, "free")' /\ task'[Main].file = Scene
  BY <1>2 DEF Stages, Others, Is
<1>7. Scene' = Scene
  BY DEF Scene
<1>8. main.pc # "content" => todo' = {}
  BY DEF Stages
<1> QED
  BY <1>1, <1>3, <1>4, <1>5, <1>6, <1>7, <1>8 DEF Stages

\* The steps of a fetch that leave the files alone.
QuietStep(f) ==
  \/ Check(f) \/ Get(f) \/ GetFail(f) \/ WriteFail(f) \/ RenameFail(f)
  \/ (\E i \in todo : TakeFile(f, i)) \/ EndFile(f)
MainStep == StartRun \/ About \/ AboutFail \/ Entity \/ EntityFail \/ SceneDone \/ WriteIds

LEMMA Steps ==
  ASSUME [Next]_vars
  PROVE  \/ \E f \in Fetchers : QuietStep(f) \/ OpenPart(f) \/ WritePart(f) \/ RenamePart(f)
         \/ MainStep \/ Kill \/ UNCHANGED vars
BY DEF Next, FetchStep, QuietStep, MainStep

LEMMA QuietFiles ==
  ASSUME Types, NEW f \in Fetchers, QuietStep(f)
  PROVE  disk' = disk /\ Others(f) /\ task'[f].ino \in {task[f].ino, NoInode}
<1>1. disk' = disk
  BY DEF QuietStep, Check, Get, GetFail, WriteFail, RenameFail, TakeFile, EndFile
<1>2. CASE Check(f) \/ Get(f) \/ GetFail(f) \/ RenameFail(f)
  BY <1>1, <1>2 DEF Check, Get, GetFail, RenameFail, To, Others, Types, Tasks
<1>3. CASE WriteFail(f)
  BY <1>1, <1>3 DEF WriteFail, Goes, Others, Types, Tasks
<1>4. CASE EndFile(f)
  BY <1>1, <1>4 DEF EndFile, Others, Types, Tasks, Free
<1>5. ASSUME NEW i \in todo, TakeFile(f, i)
      PROVE  Others(f) /\ task'[f].ino = NoInode
  <2>1. task' = [task EXCEPT ![f] = Fetch(ContentOf[Scene][i])]
    BY <1>5 DEF TakeFile
  <2> QED
    BY <2>1 DEF Others, Types, Fetch
<1> QED
  BY <1>1, <1>2, <1>3, <1>4, <1>5 DEF QuietStep

LEMMA SceneIs ==
  ASSUME WorldAssumption, Types, Stages, main.pc \in {"entity", "content"}
  PROVE  Scene \in Scenes /\ ContentOf[Scene] \in Seq(Hashes)
<1>1. Worlds[main.world] \in Seq(Scenes) /\ main.scene \in DOMAIN Worlds[main.world]
  BY DEF WorldAssumption, Types, Stages
<1> QED
  BY <1>1 DEF Scene, WorldAssumption

LEMMA TypesStep ==
  ASSUME WorldAssumption, Types, Stages, [Next]_vars
  PROVE  Types' /\ Stages'
<1>0. /\ Main \in Fetchers /\ Main \notin Threads /\ Threads \subseteq Fetchers
      /\ Fetchers = Threads \cup {Main}
      /\ Free \in Tasks /\ InodeMax \in Nat /\ NoInode = 0
  BY Numbers DEF WorldAssumption, Fetchers, Free, Tasks, TaskPcs, NoInode
<1>1. ASSUME NEW f \in Fetchers, QuietStep(f) \/ OpenPart(f) \/ WritePart(f) \/ RenamePart(f)
      PROVE  Types' /\ Stages'
  <2>1. f = Main /\ ~Is(f, "free") => main.pc = "entity"
    BY DEF Stages
  <2>2. f \in Threads /\ ~Is(f, "free") => main.pc = "content" /\ task[f].file \in Hashes
    BY DEF Stages
  <2>3. Fetches(f) /\ task[f] \in Tasks
    BY DEF Stages, Types
  <2>4. CASE Check(f) \/ Get(f) \/ GetFail(f) \/ RenameFail(f)
    <3>1. /\ ~Is(f, "free") /\ ~Is(f, "write") /\ UNCHANGED <<main, ids, todo, disk>>
          /\ past' \in [runs : Nat, faults : Nat, cuts : Nat]
      BY <2>4 DEF Check, Get, GetFail, RenameFail, Is, Fault, Types
    <3>2. PICK pc \in TaskPcs \ {"write", "free"} : task' = [task EXCEPT ![f].pc = pc]
      BY <2>4 DEF Check, Get, GetFail, RenameFail, To, TaskPcs
    <3>3. task'[f] \in Tasks /\ task'[f].pc = pc /\ task'[f].file = task[f].file /\ task'[f].ino = NoInode
      BY <2>3, <3>1, <3>2 DEF Types, Tasks, Fetches
    <3>4. Fetches(f)'
      BY <2>3, <3>1, <3>2, <3>3 DEF Fetches, Is
    <3>5. Others(f) /\ DOMAIN task' = Fetchers /\ task' = [g \in Fetchers |-> task'[g]]
      BY <3>2 DEF Goes, Others, Types
    <3>6. ~Is(f, "free")'
      BY <3>2, <3>3 DEF Is
    <3>7. disk' \in Disks(Paths, InodeMax)
      BY <3>1 DEF Types
    <3> QED
      BY <2>2, <3>1, <3>3, <3>4, <3>5, <3>6, <3>7, TaskFrame
  <2>5. CASE WriteFail(f)
    <3>1. /\ Is(f, "write") /\ UNCHANGED <<main, ids, todo, disk>>
          /\ past' \in [runs : Nat, faults : Nat, cuts : Nat]
          /\ Goes(f, "failed", NoInode)
      BY <2>5 DEF WriteFail, Is, Cut, Types
    <3>2. task'[f].pc = "failed" /\ task'[f].file = task[f].file /\ task'[f].ino = NoInode
          /\ task'[f] \in Tasks
      BY <1>0, <2>3, <3>1 DEF Goes, Types, Tasks, TaskPcs
    <3>3. Fetches(f)' /\ ~Is(f, "free")' /\ ~Is(f, "free")
      BY <2>3, <3>1, <3>2 DEF Fetches, Is
    <3>4. Others(f) /\ DOMAIN task' = Fetchers /\ task' = [g \in Fetchers |-> task'[g]]
      BY <3>1 DEF Goes, Others, Types
    <3>5. disk' \in Disks(Paths, InodeMax)
      BY <3>1 DEF Types
    <3> QED
      BY <2>2, <3>1, <3>2, <3>3, <3>4, <3>5, TaskFrame
  <2>6. CASE EndFile(f)
    <3>1. /\ f \in Threads /\ UNCHANGED <<main, ids, todo, disk, past>>
          /\ task' = [task EXCEPT ![f] = Free]
      BY <2>6 DEF EndFile
    <3>2. task'[f] = Free /\ Others(f) /\ DOMAIN task' = Fetchers
          /\ task' = [g \in Fetchers |-> task'[g]]
      BY <3>1 DEF Goes, Others, Types
    <3>3. Fetches(f)' /\ Is(f, "free")'
      BY <3>2 DEF Fetches, Is, Free
    <3>4. disk' \in Disks(Paths, InodeMax) /\ past' \in [runs : Nat, faults : Nat, cuts : Nat]
      BY <3>1 DEF Types
    <3> QED
      BY <1>0, <3>1, <3>2, <3>3, <3>4, TaskFrame
  <2>7. ASSUME NEW i \in todo, TakeFile(f, i)
        PROVE  Types' /\ Stages'
    <3>1. main.pc = "content" /\ i \in DOMAIN ContentOf[Scene]
      BY DEF Stages
    <3>2. ContentOf[Scene][i] \in Hashes
      BY <3>1, SceneIs
    <3>3. /\ f \in Threads /\ UNCHANGED <<main, ids, disk, past>> /\ todo' = todo \ {i}
          /\ task' = [task EXCEPT ![f] = Fetch(ContentOf[Scene][i])]
      BY <2>7 DEF TakeFile
    <3>4. task'[f] = Fetch(ContentOf[Scene][i]) /\ Others(f) /\ DOMAIN task' = Fetchers
          /\ task' = [g \in Fetchers |-> task'[g]]
      BY <3>3 DEF Others, Types
    <3>5. Fetch(ContentOf[Scene][i]) \in Tasks
      BY <1>0, <3>2 DEF Fetch, Tasks, TaskPcs, Files
    <3>6. Fetches(f)' /\ task'[f].file \in Hashes
      BY <3>2, <3>4 DEF Fetches, Is, Fetch, Files
    <3>7. disk' \in Disks(Paths, InodeMax) /\ past' \in [runs : Nat, faults : Nat, cuts : Nat]
      BY <3>3 DEF Types
    <3> QED
      BY <1>0, <3>1, <3>3, <3>4, <3>5, <3>6, <3>7, TaskFrame
  <2>8. CASE OpenPart(f)
    <3>1. PICK i \in 1 .. InodeMax :
            /\ disk' \in Disks(Paths, InodeMax)
            /\ Goes(f, "write", i)
      BY <2>8, OpenPartIs
    <3>2. UNCHANGED <<main, ids, todo, past>> /\ ~Is(f, "free")
      BY <2>8 DEF OpenPart, Is
    <3>3. task'[f].pc = "write" /\ task'[f].file = task[f].file /\ task'[f].ino = i
          /\ task'[f] \in Tasks
      BY <1>0, <2>3, <3>1 DEF Goes, Types, Tasks, TaskPcs
    <3>4. Fetches(f)' /\ ~Is(f, "free")'
      BY <2>3, <3>2, <3>3 DEF Fetches, Is
    <3>5. Others(f) /\ DOMAIN task' = Fetchers /\ task' = [g \in Fetchers |-> task'[g]]
      BY <3>1 DEF Goes, Others, Types
    <3>6. past' \in [runs : Nat, faults : Nat, cuts : Nat]
      BY <3>2 DEF Types
    <3> QED
      BY <2>2, <3>1, <3>2, <3>3, <3>4, <3>5, <3>6, TaskFrame
  <2>9. CASE WritePart(f)
    <3>1. disk' \in Disks(Paths, InodeMax)
      BY <2>9, WritePartIs
    <3>2. /\ UNCHANGED <<main, ids, todo, past>> /\ ~Is(f, "free")
          /\ Goes(f, "rename", NoInode)
      BY <2>9 DEF WritePart, Is
    <3>3. task'[f].pc = "rename" /\ task'[f].file = task[f].file /\ task'[f].ino = NoInode
          /\ task'[f] \in Tasks
      BY <1>0, <2>3, <3>2 DEF Goes, Types, Tasks, TaskPcs
    <3>4. Fetches(f)' /\ ~Is(f, "free")'
      BY <2>3, <3>2, <3>3 DEF Fetches, Is
    <3>5. Others(f) /\ DOMAIN task' = Fetchers /\ task' = [g \in Fetchers |-> task'[g]]
      BY <3>2 DEF Goes, Others, Types
    <3>6. past' \in [runs : Nat, faults : Nat, cuts : Nat]
      BY <3>2 DEF Types
    <3> QED
      BY <2>2, <3>1, <3>2, <3>3, <3>4, <3>5, <3>6, TaskFrame
  <2>10. CASE RenamePart(f)
    <3>1. disk' \in Disks(Paths, InodeMax)
      BY <2>10, RenamePartIs
    <3>2. /\ UNCHANGED <<main, ids, todo, past>> /\ Is(f, "rename")
          /\ task' = [task EXCEPT ![f].pc = "have"]
      BY <2>10 DEF RenamePart, To
    <3>3. task'[f].pc = "have" /\ task'[f].file = task[f].file /\ task'[f].ino = task[f].ino
          /\ task'[f] \in Tasks
      BY <2>3, <3>2 DEF Types, Tasks, TaskPcs
    <3>4. Fetches(f)' /\ ~Is(f, "free")' /\ ~Is(f, "free")
      BY <2>3, <3>2, <3>3 DEF Fetches, Is
    <3>5. Others(f) /\ DOMAIN task' = Fetchers /\ task' = [g \in Fetchers |-> task'[g]]
      BY <3>2 DEF Goes, Others, Types
    <3>6. past' \in [runs : Nat, faults : Nat, cuts : Nat]
      BY <3>2 DEF Types
    <3> QED
      BY <2>2, <3>1, <3>2, <3>3, <3>4, <3>5, <3>6, TaskFrame
  <2> QED
    BY <1>1, <2>4, <2>5, <2>6, <2>7, <2>8, <2>9, <2>10 DEF QuietStep
<1>2. ASSUME MainStep \/ Kill
      PROVE  Types' /\ Stages'
  \* Between the scenes no fetch is under way.
  <2>1. ASSUME Types', main'.pc \notin {"entity", "content"}, todo' = {},
               \A f \in Fetchers : task'[f] = Free
        PROVE  Stages'
    BY <1>0, <2>1 DEF Stages, Fetches, Is, Free
  <2>4. CASE StartRun
    <3>0. Len(Worlds) \in Nat \ {0}
      BY DEF WorldAssumption
    <3>1. Types'
      BY <1>0, <2>4, <3>0 DEF StartRun, Types, Rest, MainPcs
    <3>2. main.pc = "off" /\ main' = [Rest EXCEPT !.pc = "about"] /\ UNCHANGED <<todo, task>>
      BY <2>4 DEF StartRun
    <3>3. main'.pc = "about"
      BY <3>2 DEF Rest
    <3> QED
      BY <1>0, <3>1, <3>2, <3>3 DEF Stages, Fetches, Is
  <2>5. CASE About \/ SceneDone
    <3>1. PICK n \in Nat \ {0} : GoTo(n)
      BY <2>5 DEF About, SceneDone, Types
    <3>2. /\ main.pc \in {"about", "content"} /\ UNCHANGED <<todo, disk, past>> /\ todo = {}
          /\ \A f \in Threads : Is(f, "free")
      BY <2>5 DEF About, SceneDone, Stages
    <3>3. ids' \in Seq(Scenes)
      <4>1. CASE About
        BY <4>1 DEF About, Types
      <4>2. CASE SceneDone
        BY <4>2, SceneIs DEF SceneDone, Types
      <4> QED
        BY <2>5, <4>1, <4>2
    <3>4. /\ main' \in [pc : MainPcs, world : 1 .. Len(Worlds), scene : Nat]
          /\ task' \in [Fetchers -> Tasks]
          /\ \A f \in Threads : task'[f] = task[f]
          /\ \/ main'.pc \in {"ids", "about"} /\ task'[Main] = Free
             \/ /\ main'.pc = "entity" /\ main'.scene \in DOMAIN Worlds[main'.world]
                /\ task'[Main] = Fetch(Scene')
                /\ Scene' \in Scenes
      BY <3>1, GoToIs
    <3>5. Types'
      BY <3>2, <3>3, <3>4 DEF Types
    <3>6. /\ \A f \in Threads : Is(f, "free")' /\ Fetches(f)'
          /\ task'[Main] = Free \/ task'[Main] = Fetch(Scene')
      BY <1>0, <3>2, <3>4 DEF Stages, Fetches, Is
    <3>7. Fetches(Main)'
      BY <1>0, <3>4 DEF Fetches, Is, Free, Fetch, Files
    <3>8. main'.pc # "entity" => Is(Main, "free")'
      BY <3>4 DEF Is, Free
    <3>9. main'.pc = "entity" => ~Is(Main, "free")' /\ task'[Main].file = Scene'
      BY <3>4 DEF Is, Fetch
    <3> QED
      BY <1>0, <3>2, <3>4, <3>5, <3>6, <3>7, <3>8, <3>9 DEF Stages
  <2>6. CASE AboutFail \/ EntityFail
    <3>1. /\ SkipWorld /\ main.pc \in {"about", "entity"}
          /\ past' \in [runs : Nat, faults : Nat, cuts : Nat]
      BY <2>6 DEF AboutFail, EntityFail, Fault, Types
    <3>2. /\ main' = NextWorld /\ task' = [task EXCEPT ![Main] = Free]
          /\ UNCHANGED <<todo, ids, disk>>
      BY <3>1 DEF SkipWorld
    <3>3. Types' /\ main'.pc \in {"ids", "about"}
      BY <1>0, <3>1, <3>2, NextWorldIs DEF Types
    <3>4. /\ todo' = {} /\ \A f \in Threads : task'[f] = task[f] /\ Is(f, "free")
          /\ task'[Main] = Free
      BY <1>0, <3>1, <3>2 DEF Stages, Types
    <3>5. \A f \in Fetchers : Fetches(f)' /\ Is(f, "free")'
      BY <1>0, <3>4 DEF Stages, Fetches, Is, Free
    <3> QED
      BY <1>0, <3>3, <3>4, <3>5 DEF Stages
  <2>7. CASE Entity
    <3>1. /\ main.pc = "entity" /\ main' = [main EXCEPT !.pc = "content"]
          /\ task' = [task EXCEPT ![Main] = Free] /\ todo' = DOMAIN ContentOf[Scene]
          /\ UNCHANGED <<ids, disk, past>>
      BY <2>7 DEF Entity
    <3>2. Types' /\ main'.pc = "content" /\ main'.scene = main.scene /\ main'.world = main.world
      BY <1>0, <3>1 DEF Types, MainPcs
    <3>3. Scene' = Scene
      BY <3>2 DEF Scene
    <3>4. \A f \in Threads : task'[f] = task[f] /\ Is(f, "free")
      BY <1>0, <3>1 DEF Stages, Types
    <3>5. task'[Main] = Free
      BY <1>0, <3>1 DEF Types
    <3>6. \A f \in Fetchers : Fetches(f)' /\ Is(f, "free")'
      BY <1>0, <3>4, <3>5 DEF Stages, Fetches, Is, Free
    <3> QED
      BY <1>0, <3>1, <3>2, <3>3, <3>6 DEF Stages
  <2>8. CASE WriteIds
    <3>1. /\ main.pc = "ids" /\ main' = [main EXCEPT !.pc = "off"]
          /\ UNCHANGED <<todo, task, ids, disk, past>>
      BY <2>8 DEF WriteIds
    <3>2. Types' /\ main'.pc = "off"
      BY <3>1 DEF Types, MainPcs
    <3> QED
      BY <3>1, <3>2 DEF Stages, Fetches, Is
  <2>9. CASE Kill
    <3>1. /\ main' = Rest /\ todo' = {} /\ task' = [f \in Fetchers |-> Free] /\ ids' = <<>>
          /\ past' \in [runs : Nat, faults : Nat, cuts : Nat] /\ disk' \in Disks(Paths, InodeMax)
      BY <2>9, KillIs DEF Kill, Cut, Types
    <3>2. Len(Worlds) \in Nat \ {0}
      BY DEF WorldAssumption
    <3>3. Types' /\ main'.pc = "off"
      BY <1>0, <3>1, <3>2 DEF Types, Rest, MainPcs
    <3> QED
      BY <2>1, <3>1, <3>3
  <2> QED
    BY <1>2, <2>4, <2>5, <2>6, <2>7, <2>8, <2>9 DEF MainStep
<1>3. CASE UNCHANGED vars
  BY <1>3 DEF vars, Types, Stages, Fetches, Is, Scene
<1> QED
  BY <1>1, <1>2, <1>3, Steps

-----------------------------------------------------------------------------
\* A step that opens nothing leaves the links, and the writers are some of those
\* there were.
LEMMA LinksStep ==
  ASSUME WorldAssumption, Types, Stages, Links, [Next]_vars
  PROVE  Links'
<1>0. /\ Main \in Fetchers /\ Threads \subseteq Fetchers
      /\ \A p \in Paths : disk.link[p] \in 0 .. InodeMax
      /\ \A f \in Fetchers : Is(f, "write") => task[f].ino \in 1 .. InodeMax
  BY DEF Fetchers, Types, Disks, Stages, Fetches
<1>1. ASSUME disk'.link = disk.link,
             \A f \in Fetchers : Is(f, "write")' => task'[f] = task[f]
      PROVE  Links'
  BY <1>1 DEF Links, Exists, Is
<1>2. ASSUME NEW f \in Fetchers, QuietStep(f)
      PROVE  Links'
  <2>1. disk' = disk /\ Others(f)
    BY <1>2, QuietFiles
  <2>2. ~Is(f, "write")'
    <3>1. CASE Check(f) \/ Get(f) \/ GetFail(f) \/ RenameFail(f)
      <4>1. PICK pc \in TaskPcs \ {"write"} : task' = [task EXCEPT ![f].pc = pc]
        BY <3>1 DEF Check, Get, GetFail, RenameFail, To, TaskPcs
      <4> QED
        BY <4>1 DEF Is, Types, Tasks
    <3>2. CASE WriteFail(f)
      BY <3>2 DEF WriteFail, Goes, Is, Types
    <3>3. CASE EndFile(f) \/ \E i \in todo : TakeFile(f, i)
      BY <3>3 DEF EndFile, TakeFile, Fetch, Free, Is, Types
    <3> QED
      BY <1>2, <3>1, <3>2, <3>3 DEF QuietStep
  <2> QED
    BY <1>1, <2>1, <2>2 DEF Others
<1>3. ASSUME NEW f \in Fetchers, OpenPart(f)
      PROVE  Links'
  <2>1. PICK i \in 1 .. InodeMax, p \in Paths :
           /\ p = Part(task[f].file)
           /\ disk.link[p] = i \/ (disk.link[p] = NoInode /\ Unused(disk, i, Open))
           /\ disk'.link[p] = i
           /\ \A q \in Paths \ {p} : disk'.link[q] = disk.link[q]
           /\ Goes(f, "write", i)
    BY <1>3, OpenPartIs
  <2>2. DOMAIN disk.link = Paths
    BY DEF Types, Disks
  <2>3. p[1] = task[f].file
    BY <2>1 DEF Part
  <2>4. /\ task'[f] = [pc |-> "write", file |-> task[f].file, ino |-> i]
        /\ \A g \in Fetchers \ {f} : task'[g] = task[g]
    BY <2>1 DEF Goes, Types
  \* Nothing else is linked at the inode, and it is open only for the same file.
  <2>5. \A q \in Paths : q # p => disk.link[q] # i
    BY <2>1, <2>2, Numbers DEF Links, Exists, NoInode, Unused
  <2>6. ASSUME NEW g \in Fetchers \ {f}, Is(g, "write"), task[g].ino = i
        PROVE  task[g].file = p[1]
    <3>1. i \in Open
      BY <2>6 DEF Open
    <3> QED
      BY <2>1, <2>6, <3>1 DEF Links, Unused
  <2>7. \A q, r \in Paths : Exists(disk', q) /\ disk'.link[q] = disk'.link[r] => q = r
    BY <2>1, <2>5 DEF Links, Exists
  <2>8. ASSUME NEW g \in Fetchers, Is(g, "write")', NEW q \in Paths, disk'.link[q] = task'[g].ino
        PROVE  q[1] = task'[g].file
    <3>1. CASE g = f
      BY <2>1, <2>3, <2>4, <2>5, <2>8, <3>1
    <3>2. CASE g # f /\ q = p
      BY <2>1, <2>4, <2>6, <2>8, <3>2 DEF Is
    <3>3. CASE g # f /\ q # p
      BY <2>1, <2>4, <2>8, <3>3 DEF Is, Links
    <3> QED
      BY <3>1, <3>2, <3>3
  <2> QED
    BY <2>7, <2>8 DEF Links
<1>4. ASSUME NEW f \in Fetchers, WritePart(f)
      PROVE  Links'
  <2>1. disk'.link = disk.link
    BY <1>4, WritePartIs
  <2>2. /\ task'[f].pc = "rename" /\ \A g \in Fetchers \ {f} : task'[g] = task[g]
    BY <1>4 DEF WritePart, Goes, Types
  <2> QED
    BY <1>1, <2>1, <2>2 DEF Is
<1>5. ASSUME NEW f \in Fetchers, RenamePart(f)
      PROVE  Links'
  <2>1. PICK p \in Paths, s \in Paths :
          /\ p = Part(task[f].file) /\ s = Store(task[f].file) /\ s # p
          /\ disk.link[p] \in 1 .. InodeMax
          /\ disk'.link[s] = disk.link[p] /\ disk'.link[p] = NoInode
          /\ \A q \in Paths \ {s, p} : disk'.link[q] = disk.link[q]
    BY <1>5, RenamePartIs
  <2>2. p[1] = s[1]
    BY <2>1 DEF Part, Store
  <2>3. /\ task'[f].pc = "have" /\ \A g \in Fetchers \ {f} : task'[g] = task[g]
    BY <1>5 DEF RenamePart, To, Types
  \* A path has what it had, except that what was at p is at s.
  <2>4. \A q \in Paths : Exists(disk', q) =>
          \/ q = s /\ disk'.link[q] = disk.link[p]
          \/ q \notin {s, p} /\ disk'.link[q] = disk.link[q]
    BY <2>1 DEF Exists
  <2>5. \A q, r \in Paths : Exists(disk', q) /\ disk'.link[q] = disk'.link[r] => q = r
    BY <2>1, <2>4 DEF Links, Exists
  <2>6. ASSUME NEW g \in Fetchers, Is(g, "write")', NEW q \in Paths, disk'.link[q] = task'[g].ino
        PROVE  q[1] = task'[g].file
    <3>1. g # f /\ task'[g] = task[g] /\ Is(g, "write") /\ task[g].ino \in 1 .. InodeMax
      BY <1>0, <2>3, <2>6 DEF Is
    <3>2. disk'.link[q] # NoInode
      BY <2>6, <3>1, Numbers DEF NoInode
    <3> QED
      BY <2>1, <2>2, <2>4, <2>6, <3>1, <3>2 DEF Links, Exists
  <2> QED
    BY <2>5, <2>6 DEF Links
<1>6. CASE MainStep
  <2>1. disk' = disk
    BY <1>6 DEF MainStep, StartRun, About, AboutFail, Entity, EntityFail, SceneDone, WriteIds, SkipWorld
  <2>2. \A f \in Fetchers : Is(f, "write")' => task'[f] = task[f]
    <3>1. CASE About \/ SceneDone
      <4>1. PICK n \in Nat \ {0} : GoTo(n)
        BY <3>1 DEF About, SceneDone, Types
      <4> QED
        BY <4>1, GoToIs DEF Is, Free, Fetch, Fetchers
    <3>2. CASE StartRun \/ WriteIds
      BY <3>2 DEF StartRun, WriteIds
    <3>3. CASE Entity \/ AboutFail \/ EntityFail
      BY <3>3 DEF Entity, AboutFail, EntityFail, SkipWorld, Free, Types, Is
    <3> QED
      BY <1>6, <3>1, <3>2, <3>3 DEF MainStep
  <2> QED
    BY <1>1, <2>1, <2>2
<1>7. CASE Kill
  BY <1>1, <1>7, KillIs DEF Kill, Free, Is
<1>8. CASE UNCHANGED vars
  BY <1>1, <1>8 DEF vars
<1> QED
  BY <1>2, <1>3, <1>4, <1>5, <1>6, <1>7, <1>8, Steps

\* What a step does to the task that takes it.
LEMMA QuietTask ==
  ASSUME Types, NEW f \in Fetchers, QuietStep(f)
  PROVE  task'[f].pc \notin {"write", "rename"}
<1>1. CASE Check(f) \/ Get(f) \/ GetFail(f) \/ RenameFail(f)
  <2>1. PICK pc \in TaskPcs \ {"write", "rename"} : task' = [task EXCEPT ![f].pc = pc]
    BY <1>1 DEF Check, Get, GetFail, RenameFail, To, TaskPcs
  <2> QED
    BY <2>1 DEF Types, Tasks
<1>2. CASE WriteFail(f)
  BY <1>2 DEF WriteFail, Goes, Types
<1>3. CASE EndFile(f) \/ \E i \in todo : TakeFile(f, i)
  BY <1>3 DEF EndFile, TakeFile, Fetch, Free, Types
<1> QED
  BY <1>1, <1>2, <1>3 DEF QuietStep

\* A step of run() leaves the files, and no fetch of its own that has begun.
LEMMA MainTask ==
  ASSUME WorldAssumption, Types, MainStep
  PROVE  /\ disk' = disk /\ past'.cuts = past.cuts
         /\ \A f \in Threads : task'[f] = task[f]
         /\ task'[Main].pc \in {"free", "check"} \/ task'[Main] = task[Main]
<1>1. disk' = disk
  BY DEF MainStep, StartRun, About, AboutFail, Entity, EntityFail, SceneDone, WriteIds, SkipWorld
<1>2. past'.cuts = past.cuts
  BY DEF MainStep, StartRun, About, AboutFail, Entity, EntityFail, SceneDone, WriteIds, Fault, Types
<1>3. CASE About \/ SceneDone
  <2>1. PICK n \in Nat \ {0} : GoTo(n)
    BY <1>3 DEF About, SceneDone, Types
  <2> QED
    BY <1>1, <1>2, <2>1, GoToIs DEF Free, Fetch
<1>4. CASE StartRun \/ WriteIds
  BY <1>1, <1>2, <1>4 DEF StartRun, WriteIds
<1>5. CASE Entity \/ AboutFail \/ EntityFail
  BY <1>1, <1>2, <1>5 DEF Entity, AboutFail, EntityFail, SkipWorld, Free, Types, WorldAssumption, Fetchers
<1> QED
  BY <1>3, <1>4, <1>5 DEF MainStep

LEMMA EntitiesStep ==
  ASSUME WorldAssumption, IdsApart, Types, Stages, Links, EntitiesWhole, [Next]_vars
  PROVE  EntitiesWhole'
<1>0. /\ Main \in Fetchers /\ Main \notin Threads /\ Fetchers = Threads \cup {Main}
      /\ Scenes \subseteq Files
      /\ \A s \in Scenes : Store(s) \in Paths /\ disk.link[Store(s)] \in 0 .. InodeMax
      /\ \A s \in Scenes : Exists(disk, Store(s)) => disk.link[Store(s)] \in 1 .. InodeMax
  <2>1. /\ Main \in Fetchers /\ Main \notin Threads /\ Fetchers = Threads \cup {Main}
        /\ Scenes \subseteq Files
    BY DEF Fetchers, WorldAssumption, Files
  <2>2. \A s \in Scenes : Store(s) \in Paths
    BY <2>1, FilePaths
  <2>3. disk.link \in [Paths -> 0 .. InodeMax]
    BY DEF Types, Disks
  <2>4. \A i \in 0 .. InodeMax : i # NoInode => i \in 1 .. InodeMax
    BY Numbers DEF NoInode
  <2> QED
    BY <2>1, <2>2, <2>3, <2>4 DEF Exists
<1>w. \A s \in Scenes : Exists(disk, Store(s)) => disk.held[disk.link[Store(s)]] = "whole"
  BY DEF EntitiesWhole, Content
<1>t. \A f \in Threads : ~Is(f, "free") => task[f].file \in Hashes \ Scenes /\ Is(Main, "free")
  BY DEF Stages, IdsApart
<1>1. ASSUME NEW f \in Fetchers, QuietStep(f)
      PROVE  EntitiesWhole'
  <2>1. disk' = disk /\ Others(f) /\ task'[f].pc \notin {"write", "rename"}
    BY <1>1, QuietFiles, QuietTask
  <2> QED
    BY <1>0, <2>1 DEF EntitiesWhole, Exists, Content, Is, Others
<1>2. ASSUME NEW f \in Fetchers, OpenPart(f)
      PROVE  EntitiesWhole'
  <2>1. PICK i \in 1 .. InodeMax, p \in Paths :
           /\ p = Part(task[f].file)
           /\ disk.link[p] = i \/ (disk.link[p] = NoInode /\ Unused(disk, i, Open))
           /\ disk'.link[p] = i
           /\ \A q \in Paths \ {p} : disk'.link[q] = disk.link[q]
           /\ \A j \in 1 .. InodeMax : j # i => disk'.held[j] = disk.held[j]
           /\ Goes(f, "write", i)
    BY <1>2, OpenPartIs
  <2>2. \A q \in Paths : q # p => disk.link[q] # i
    BY <2>1, Numbers DEF Links, Exists, NoInode, Unused, Types, Disks
  <2>3. \A s \in Scenes : Store(s) # p
    BY <2>1 DEF Store, Part
  <2>4. \A s \in Scenes : Exists(disk', Store(s)) => Content(disk', Store(s)) = "whole"
    BY <1>0, <1>w, <2>1, <2>2, <2>3 DEF Exists, Content
  <2>5. /\ task'[f].pc = "write" /\ task'[f].file = task[f].file /\ task'[f].ino = i
        /\ \A g \in Fetchers \ {f} : task'[g] = task[g]
    BY <2>1 DEF Goes, Types
  <2>6. f # Main => Is(Main, "free")
    BY <1>0, <1>2, <1>t DEF OpenPart, Is
  <2>7. CASE f = Main
    BY <2>1, <2>4, <2>5, <2>7 DEF EntitiesWhole, Is
  <2>8. CASE f # Main
    BY <1>0, <2>4, <2>5, <2>6, <2>8 DEF EntitiesWhole, Is
  <2> QED
    BY <2>7, <2>8
<1>3. ASSUME NEW f \in Fetchers, WritePart(f)
      PROVE  EntitiesWhole'
  <2>1. PICK i \in 1 .. InodeMax : i = task[f].ino
    BY <1>3, WritePartIs
  <2>2. /\ disk'.link = disk.link /\ disk'.held[i] = "whole"
        /\ \A j \in 1 .. InodeMax : j # i => disk'.held[j] = disk.held[j]
    BY <1>3, <2>1, WritePartIs
  <2>3. \A s \in Scenes : Exists(disk', Store(s)) => Content(disk', Store(s)) = "whole"
    BY <1>0, <1>w, <2>2 DEF Exists, Content
  <2>4. /\ task'[f].pc = "rename" /\ task'[f].file = task[f].file
        /\ \A g \in Fetchers \ {f} : task'[g] = task[g]
    BY <1>3 DEF WritePart, Goes, Types
  <2>5. f # Main => Is(Main, "free")
    BY <1>0, <1>3, <1>t DEF WritePart, Is
  <2>6. CASE f = Main
    <3>1. disk.link[Part(task[Main].file)] = i
      BY <1>3, <2>1, <2>6 DEF EntitiesWhole, WritePart
    <3>2. Exists(disk', Part(task[Main].file)) /\ Content(disk', Part(task[Main].file)) = "whole"
      BY <2>1, <2>2, <3>1, Numbers DEF Exists, Content, NoInode
    <3> QED
      BY <2>3, <2>4, <2>6, <3>2 DEF EntitiesWhole, Is
  <2>7. CASE f # Main
    BY <1>0, <2>3, <2>4, <2>5, <2>7 DEF EntitiesWhole, Is
  <2> QED
    BY <2>6, <2>7
<1>4. ASSUME NEW f \in Fetchers, RenamePart(f)
      PROVE  EntitiesWhole'
  <2>1. PICK p \in Paths, s \in Paths :
          /\ p = Part(task[f].file) /\ s = Store(task[f].file) /\ s # p
          /\ disk.link[p] \in 1 .. InodeMax
          /\ disk'.link[s] = disk.link[p] /\ disk'.link[p] = NoInode
          /\ \A q \in Paths \ {s, p} : disk'.link[q] = disk.link[q]
          /\ \A q \in Paths : Exists(disk', q) => disk'.held[disk'.link[q]] = disk.held[disk'.link[q]]
    BY <1>4, RenamePartIs
  <2>2. /\ task'[f].pc = "have" /\ \A g \in Fetchers \ {f} : task'[g] = task[g]
    BY <1>4 DEF RenamePart, To, Types
  <2>3. f # Main => Is(Main, "free") /\ task[f].file \notin Scenes
    BY <1>0, <1>4, <1>t DEF RenamePart, Is
  <2>4. f = Main => disk.held[disk.link[p]] = "whole"
    BY <1>4, <2>1 DEF RenamePart, EntitiesWhole, Content
  <2>5. \A x \in Scenes : x # task[f].file => Store(x) \notin {s, p}
    BY <2>1 DEF Store, Part
  <2>6. ASSUME NEW x \in Scenes, Exists(disk', Store(x))
        PROVE  disk'.held[disk'.link[Store(x)]] = "whole"
    <3>1. CASE x = task[f].file
      BY <1>0, <2>1, <2>3, <2>4, <2>6, <3>1
    <3>2. CASE x # task[f].file
      BY <1>0, <1>w, <2>1, <2>5, <2>6, <3>2 DEF Exists
    <3> QED
      BY <3>1, <3>2
  <2>7. ~Is(Main, "write")' /\ ~Is(Main, "rename")'
    BY <1>0, <2>2, <2>3 DEF Is
  <2> QED
    BY <2>6, <2>7 DEF EntitiesWhole, Content
<1>5. CASE MainStep
  BY <1>5, MainTask DEF EntitiesWhole, Exists, Content, Is
<1>6. CASE Kill
  <2>1. \A f \in Fetchers : Is(f, "free")'
    BY <1>6 DEF Kill, Is, Free
  <2>2. ~Is(Main, "write")' /\ ~Is(Main, "rename")'
    BY <1>0, <2>1 DEF Is
  <2> QED
    BY <1>0, <1>6, <1>w, <2>2, KillIs DEF EntitiesWhole, Exists, Content
<1>7. CASE UNCHANGED vars
  BY <1>7 DEF vars, EntitiesWhole, Exists, Content, Is
<1> QED
  BY <1>1, <1>2, <1>3, <1>4, <1>5, <1>6, <1>7, Steps

LEMMA WholeStep ==
  ASSUME WorldAssumption, Types, Stages, Whole, past'.cuts = 0, [Next]_vars
  PROVE  \A p \in Paths : Exists(disk', p) => Coming(disk.link[p])'
<1>f. past.cuts \in Nat
  BY DEF Types
<1>a. ~Cut
  BY <1>f DEF Cut
<1>p. \A p \in Paths : Exists(disk, p) => disk.link[p] \in 1 .. InodeMax
  BY Numbers DEF Types, Disks, Exists, NoInode
\* What a step on the links and on the writers has to keep.
<1>1. ASSUME past.cuts = 0, disk'.link = disk.link,
             \A i \in 1 .. InodeMax : Coming(i) => Coming(i)'
      PROVE  \A p \in Paths : Exists(disk', p) => Coming(disk.link[p])'
  <2> SUFFICES ASSUME NEW p \in Paths, Exists(disk', p)
               PROVE  Coming(disk.link[p])'
    OBVIOUS
  <2>1. PICK i \in 1 .. InodeMax : i = disk.link[p]
    BY <1>1, <1>p DEF Exists
  <2>2. Coming(i)'
    BY <1>1, <2>1 DEF Whole, Exists
  <2> QED
    BY <1>1, <2>1, <2>2 DEF Coming
<1>2. ASSUME NEW f \in Fetchers, QuietStep(f)
      PROVE  \A p \in Paths : Exists(disk', p) => Coming(disk.link[p])'
  <2>1. ~Is(f, "write") /\ past'.cuts = past.cuts
    BY <1>2, <1>a DEF QuietStep, Check, Get, GetFail, WriteFail, RenameFail, TakeFile, EndFile, Is,
       Fault, Types
  <2>2. disk' = disk /\ Others(f)
    BY <1>2, QuietFiles
  <2>3. \A i : Coming(i) => Coming(i)'
    BY <2>1, <2>2 DEF Coming, Is, Others
  <2> QED
    BY <1>1, <2>1, <2>2, <2>3
<1>3. ASSUME NEW f \in Fetchers, OpenPart(f)
      PROVE  \A p \in Paths : Exists(disk', p) => Coming(disk.link[p])'
  <2>1. PICK i \in 1 .. InodeMax, q \in Paths :
           /\ disk'.link[q] = i
           /\ \A p \in Paths \ {q} : disk'.link[p] = disk.link[p]
           /\ \A j \in 1 .. InodeMax : j # i => disk'.held[j] = disk.held[j]
           /\ Goes(f, "write", i)
    BY <1>3, OpenPartIs
  <2>2. /\ task'[f].pc = "write" /\ task'[f].ino = i /\ ~Is(f, "write") /\ past' = past
        /\ \A g \in Fetchers \ {f} : task'[g] = task[g]
    BY <1>3, <2>1 DEF Goes, OpenPart, Is, Types
  <2>3. ASSUME NEW j \in 1 .. InodeMax, j = i \/ Coming(j)
        PROVE  Coming(j)'
    <3>1. CASE j = i
      BY <2>2, <3>1 DEF Coming, Is
    <3>2. CASE j # i
      BY <2>1, <2>2, <2>3, <3>2 DEF Coming, Is
    <3> QED
      BY <3>1, <3>2
  <2> SUFFICES ASSUME NEW p \in Paths, Exists(disk', p)
               PROVE  Coming(disk.link[p])'
    OBVIOUS
  <2>4. PICK j \in 1 .. InodeMax : j = disk'.link[p] /\ (j = i \/ Coming(j))
    BY <1>p, <2>1, <2>2 DEF Whole, Exists
  <2> QED
    BY <2>3, <2>4 DEF Coming
<1>4. ASSUME NEW f \in Fetchers, WritePart(f)
      PROVE  \A p \in Paths : Exists(disk', p) => Coming(disk.link[p])'
  <2>1. PICK i \in 1 .. InodeMax : i = task[f].ino
    BY <1>4, WritePartIs
  <2>2. /\ disk'.link = disk.link /\ disk'.held[i] = "whole"
        /\ \A j \in 1 .. InodeMax : j # i => disk'.held[j] = disk.held[j]
    BY <1>4, <2>1, WritePartIs
  <2>3. past' = past /\ \A g \in Fetchers \ {f} : task'[g] = task[g]
    BY <1>4 DEF WritePart, Goes, Types
  <2>4. ASSUME NEW j \in 1 .. InodeMax, Coming(j)
        PROVE  Coming(j)'
    <3>1. CASE j = i
      BY <2>2, <3>1 DEF Coming
    <3>2. CASE j # i
      BY <2>1, <2>2, <2>3, <2>4, <3>2 DEF Coming, Is
    <3> QED
      BY <3>1, <3>2
  <2> QED
    BY <1>1, <2>2, <2>3, <2>4
<1>5. ASSUME NEW f \in Fetchers, RenamePart(f)
      PROVE  \A p \in Paths : Exists(disk', p) => Coming(disk.link[p])'
  <2>1. PICK p \in Paths, s \in Paths :
          /\ s # p /\ disk.link[p] \in 1 .. InodeMax
          /\ disk'.link[s] = disk.link[p] /\ disk'.link[p] = NoInode
          /\ \A q \in Paths \ {s, p} : disk'.link[q] = disk.link[q]
          /\ \A q \in Paths : Exists(disk', q) => disk'.held[disk'.link[q]] = disk.held[disk'.link[q]]
    BY <1>5, RenamePartIs
  <2>2. past' = past /\ ~Is(f, "write") /\ \A g \in Fetchers \ {f} : task'[g] = task[g]
    BY <1>5 DEF RenamePart, To, Types, Is
  <2> SUFFICES ASSUME NEW q \in Paths, Exists(disk', q)
               PROVE  Coming(disk.link[q])'
    OBVIOUS
  <2>3. PICK r \in Paths : Exists(disk, r) /\ disk'.link[q] = disk.link[r]
    BY <2>1, Numbers DEF Exists, NoInode
  <2>4. PICK j : j = disk.link[r]
    OBVIOUS
  <2>5. Coming(j) /\ disk'.held[j] = disk.held[j]
    BY <2>1, <2>2, <2>3, <2>4 DEF Whole
  <2>6. Coming(j)'
    BY <2>2, <2>5 DEF Coming, Is
  <2> QED
    BY <2>3, <2>4, <2>6 DEF Coming
<1>6. CASE MainStep
  <2>1. /\ disk' = disk /\ past'.cuts = past.cuts
        /\ \A f \in Threads : task'[f] = task[f]
        /\ ~Is(Main, "write") \/ task'[Main] = task[Main]
    <3>1. ~Is(Main, "write") \/ task'[Main] = task[Main]
      BY <1>6 DEF MainStep, StartRun, About, AboutFail, Entity, EntityFail, SceneDone, WriteIds,
         SkipWorld, Stages, Is
    <3> QED
      BY <1>6, <3>1, MainTask
  <2>2. \A i : Coming(i) => Coming(i)'
    BY <2>1 DEF Coming, Is, Fetchers
  <2> QED
    BY <1>1, <2>1, <2>2
<1>7. CASE UNCHANGED vars
  BY <1>7 DEF vars, Whole, Coming, Exists, Is
<1>8. ~Kill
  BY <1>a DEF Kill
<1> QED
  BY <1>2, <1>3, <1>4, <1>5, <1>6, <1>7, <1>8, Steps

-----------------------------------------------------------------------------
\* What is in the store stays there.
LEMMA StoreStays ==
  ASSUME WorldAssumption, Types, Stages, NEW file \in Files, Exists(disk, Store(file)), [Next]_vars
  PROVE  Exists(disk', Store(file))
<1>1. Store(file) \in Paths /\ \A other : Store(file) # Part(other)
  BY FilePaths
<1>2. ASSUME NEW f \in Fetchers, QuietStep(f)
      PROVE  disk' = disk
  BY <1>2, QuietFiles
<1>3. ASSUME NEW f \in Fetchers, OpenPart(f)
      PROVE  disk'.link[Store(file)] = disk.link[Store(file)]
  BY <1>1, <1>3, OpenPartIs
<1>4. ASSUME NEW f \in Fetchers, WritePart(f)
      PROVE  disk'.link = disk.link
  BY <1>4, WritePartIs
<1>5. ASSUME NEW f \in Fetchers, RenamePart(f)
      PROVE  Exists(disk', Store(file))
  <2>1. PICK p \in Paths, s \in Paths :
          /\ p = Part(task[f].file) /\ s = Store(task[f].file) /\ s # p
          /\ disk.link[p] \in 1 .. InodeMax
          /\ disk'.link[s] = disk.link[p]
          /\ \A q \in Paths \ {s, p} : disk'.link[q] = disk.link[q]
    BY <1>5, RenamePartIs
  <2>2. CASE Store(file) = s
    BY <2>1, <2>2, Numbers DEF Exists, NoInode
  <2>3. CASE Store(file) # s
    BY <1>1, <2>1, <2>3 DEF Exists
  <2> QED
    BY <2>2, <2>3
<1>6. CASE MainStep
  BY <1>6, MainTask DEF Exists
<1>7. CASE Kill
  BY <1>7, KillIs DEF Exists
<1>8. CASE UNCHANGED vars
  BY <1>8 DEF vars
<1> QED
  BY <1>2, <1>3, <1>4, <1>5, <1>6, <1>7, <1>8, Steps DEF Exists

LEMMA FetchedStep ==
  ASSUME WorldAssumption, Types, Stages, Fetched, [Next]_vars
  PROVE  Fetched'
<1>0. /\ Main \in Fetchers /\ Main \notin Threads /\ Fetchers = Threads \cup {Main}
      /\ Scenes \subseteq Files /\ Hashes \subseteq Files
      /\ \A s \in Scenes : ContentOf[s] \in Seq(Hashes)
      /\ \A i \in DOMAIN ids : ids[i] \in Scenes
  BY DEF WorldAssumption, Fetchers, Files, Types
<1>s. \A file \in Files : Exists(disk, Store(file)) => Exists(disk', Store(file))
  BY StoreStays
<1>c. main.pc = "content" => Scene \in Scenes
  BY SceneIs
\* What was listed stays right as long as nothing that was missed is forgotten.
<1>1. ASSUME missed \subseteq missed', NEW i \in DOMAIN ids
      PROVE  /\ Exists(disk', Store(ids[i]))
             /\ \A k \in DOMAIN ContentOf[ids[i]] : Had(disk', missed', ContentOf[ids[i]][k])
  <2>1. PICK s \in Scenes : s = ids[i]
    BY <1>0, <1>1
  <2>2. Exists(disk', Store(s)) /\ \A k \in DOMAIN ContentOf[s] : Had(disk, missed, ContentOf[s][k])
    BY <1>0, <1>1, <1>s, <2>1 DEF Fetched
  <2>3. \A k \in DOMAIN ContentOf[s] : Had(disk', missed', ContentOf[s][k])
    BY <1>0, <1>1, <1>s, <2>2 DEF Had
  <2> QED
    BY <2>1, <2>2, <2>3 DEF Had
\* The step of a fetch: it ends only with the file there, or missed.
<1>2. ASSUME NEW f \in Fetchers, Others(f), UNCHANGED <<main, ids>>, missed \subseteq missed',
             Is(f, "have")' => Exists(disk', Store(task'[f].file)),
             todo' \subseteq todo,
             main.pc = "content" =>
               /\ \A k \in todo \ todo' : Going(task', ContentOf[Scene][k])
               /\ f \in Threads /\ ~Is(f, "free") =>
                    Going(task', task[f].file) \/ Had(disk', missed', task[f].file)
      PROVE  Fetched'
  <2>1. \A g \in Fetchers : Is(g, "have")' => Exists(disk', Store(task'[g].file))
    <3>1. ASSUME NEW g \in Fetchers, g # f, Is(g, "have")'
          PROVE  Exists(disk', Store(task'[g].file))
      BY <1>2, <1>s, <3>1 DEF Fetched, Stages, Fetches, Is, Others
    <3> QED
      BY <1>2, <3>1
  <2>2. ASSUME main'.pc = "content"
        PROVE  /\ Exists(disk', Store(Scene'))
               /\ \A k \in DOMAIN ContentOf[Scene'] :
                    k \in todo' \/ Going(task', ContentOf[Scene'][k]) \/ Had(disk', missed', ContentOf[Scene'][k])
    <3>1. PICK s \in Scenes : s = Scene
      BY <1>2, <1>c, <2>2
    <3>2. main.pc = "content" /\ Scene' = s
      BY <1>2, <2>2, <3>1 DEF Scene
    <3>3. ASSUME NEW k \in DOMAIN ContentOf[s], NEW h \in Hashes, h = ContentOf[s][k]
          PROVE  k \in todo' \/ Going(task', h) \/ Had(disk', missed', h)
      <4>1. k \in todo \/ Going(task, h) \/ Had(disk, missed, h)
        BY <3>1, <3>2, <3>3 DEF Fetched
      <4>2. CASE k \in todo
        <5>1. k \in todo' \/ Going(task', ContentOf[s][k])
          BY <1>2, <3>1, <3>2, <4>2 DEF Going
        <5> QED
          BY <3>3, <5>1 DEF Going
      <4>3. CASE Going(task, h)
        <5>1. PICK g \in Threads : ~Is(g, "free") /\ task[g].file = h
          BY <4>3 DEF Going, Is
        <5>2. CASE g = f
          <6>1. Going(task', task[f].file) \/ Had(disk', missed', task[f].file)
            BY <1>2, <3>2, <5>1, <5>2
          <6> QED
            BY <1>2, <3>2, <5>1, <5>2 DEF Going, Had
        <5>3. CASE g # f
          BY <1>0, <1>2, <5>1, <5>3 DEF Going, Is, Others
        <5> QED
          BY <5>2, <5>3
      <4>4. CASE Had(disk, missed, h)
        BY <1>0, <1>2, <1>s, <4>4 DEF Had
      <4> QED
        BY <4>1, <4>2, <4>3, <4>4
    <3>4. \A k \in DOMAIN ContentOf[s] : k \in todo' \/ Going(task', ContentOf[s][k]) \/ Had(disk', missed', ContentOf[s][k])
      BY <1>0, <3>3 DEF Going, Had
    <3>5. Exists(disk', Store(s))
      BY <1>0, <1>s, <3>1, <3>2 DEF Fetched
    <3> QED
      BY <3>1, <3>2, <3>4, <3>5 DEF Going, Had
  <2>3. \A i \in DOMAIN ids' : /\ Exists(disk', Store(ids'[i]))
                               /\ \A k \in DOMAIN ContentOf[ids'[i]] : Had(disk', missed', ContentOf[ids'[i]][k])
    BY <1>1, <1>2 DEF Had
  <2> QED
    BY <2>1, <2>2, <2>3 DEF Fetched, Had, Going
<1>3. ASSUME NEW f \in Fetchers, QuietStep(f) \/ OpenPart(f) \/ WritePart(f) \/ RenamePart(f)
      PROVE  Fetched'
  <2>1. task[f].pc # "free" => task[f].file \in Files
    BY DEF Stages, Fetches, Is
  <2>2. CASE QuietStep(f) /\ ~EndFile(f) /\ ~(\E i \in todo : TakeFile(f, i))
    <3>1. /\ ~Is(f, "free") /\ UNCHANGED <<main, ids, todo, missed, disk>> /\ Others(f)
      BY <2>2, QuietFiles DEF QuietStep, Check, Get, GetFail, WriteFail, RenameFail, Is
    <3>2. /\ task'[f].file = task[f].file /\ task'[f].pc # "free"
          /\ task'[f].pc = "have" => Exists(disk, Store(task[f].file))
      <4>1. CASE Get(f) \/ GetFail(f) \/ RenameFail(f)
        <5>1. PICK pc \in {"open", "failed"} : task' = [task EXCEPT ![f].pc = pc]
          BY <4>1 DEF Get, GetFail, RenameFail, To
        <5> QED
          BY <5>1 DEF Types, Tasks
      <4>2. CASE Check(f)
        <5>1. PICK pc \in {"have", "get"} :
                task' = [task EXCEPT ![f].pc = pc] /\ (pc = "have" => Exists(disk, Store(task[f].file)))
          BY <4>2 DEF Check, To
        <5> QED
          BY <5>1 DEF Types, Tasks
      <4>3. CASE WriteFail(f)
        BY <4>3 DEF WriteFail, Goes, Types, Tasks
      <4> QED
        BY <2>2, <4>1, <4>2, <4>3 DEF QuietStep
    <3>3. f \in Threads => Going(task', task[f].file)
      BY <3>2 DEF Going
    <3> QED
      BY <1>2, <3>1, <3>2, <3>3 DEF Is
  <2>3. CASE EndFile(f)
    <3>1. /\ UNCHANGED <<main, ids, todo, disk>> /\ task'[f].pc = "free" /\ Others(f)
          /\ missed \subseteq missed' /\ (task[f].pc = "failed" => task[f].file \in missed')
          /\ task[f].pc \in {"have", "failed"}
      BY <2>3 DEF EndFile, Is, Others, Types, Free
    <3>2. Had(disk', missed', task[f].file)
      BY <3>1 DEF Had, Fetched, Is
    <3> QED
      BY <1>2, <3>1, <3>2 DEF Is
  <2>4. ASSUME NEW i \in todo, TakeFile(f, i)
        PROVE  Fetched'
    <3>1. /\ UNCHANGED <<main, ids, disk, missed>> /\ todo' = todo \ {i} /\ Is(f, "free") /\ f \in Threads
          /\ task' = [task EXCEPT ![f] = Fetch(ContentOf[Scene][i])]
      BY <2>4 DEF TakeFile
    <3>2. task'[f].pc = "check" /\ task'[f].file = ContentOf[Scene][i] /\ Others(f)
      BY <3>1 DEF Fetch, Others, Types
    <3>3. \A k \in todo \ todo' : Going(task', ContentOf[Scene][k])
      BY <3>1, <3>2 DEF Going
    <3> QED
      BY <1>2, <3>1, <3>2, <3>3 DEF Is
  <2>5. CASE OpenPart(f) \/ WritePart(f)
    <3>1. PICK ino : Goes(f, "write", ino) \/ Goes(f, "rename", ino)
      BY <2>5 DEF OpenPart, WritePart
    <3>2. /\ UNCHANGED <<main, ids, todo, missed>>
          /\ Others(f) /\ task'[f].pc \in {"write", "rename"} /\ task'[f].file = task[f].file
      BY <2>5, <3>1 DEF OpenPart, WritePart, Goes, Others, Types
    <3>3. f \in Threads => Going(task', task[f].file)
      BY <3>2 DEF Going
    <3> QED
      BY <1>2, <3>2, <3>3 DEF Is
  <2>6. CASE RenamePart(f)
    <3>1. /\ UNCHANGED <<main, ids, todo, missed>> /\ Others(f)
          /\ task'[f].pc = "have" /\ task'[f].file = task[f].file
      BY <2>6 DEF RenamePart, To, Others, Types, Tasks
    <3>2. Exists(disk', Store(task[f].file))
      BY <2>6, RenamePartIs, Numbers DEF Exists, NoInode
    <3>3. Had(disk', missed', task[f].file)
      BY <3>2 DEF Had
    <3> QED
      BY <1>2, <3>1, <3>2, <3>3
  <2> QED
    BY <1>3, <2>2, <2>3, <2>4, <2>5, <2>6
<1>4. CASE MainStep
  <2>2. \A g \in Fetchers : Is(g, "have")' => Exists(disk', Store(task'[g].file))
    BY <1>0, <1>4, MainTask DEF Fetched, Is
  <2>3. CASE StartRun
    BY <2>2, <2>3 DEF StartRun, Rest, Fetched
  <2>4. ASSUME UNCHANGED <<ids, missed>>, main'.pc # "content"
        PROVE  Fetched'
    BY <1>1, <2>2, <2>4 DEF Fetched
  <2>5. CASE About
    <3>1. UNCHANGED <<ids, missed>> /\ GoTo(1)
      BY <2>5 DEF About
    <3>2. main'.pc # "content"
      BY <3>1, GoToIs
    <3> QED
      BY <2>4, <3>1, <3>2
  <2>6. CASE AboutFail \/ EntityFail
    <3>1. UNCHANGED <<ids, missed>> /\ main' = NextWorld
      BY <2>6 DEF AboutFail, EntityFail, SkipWorld
    <3> QED
      BY <2>4, <3>1, NextWorldIs
  <2>7. CASE WriteIds
    BY <2>4, <2>7 DEF WriteIds, Types
  <2>8. CASE Entity
    <3>1. /\ main.pc = "entity" /\ main' = [main EXCEPT !.pc = "content"]
          /\ todo' = DOMAIN ContentOf[Scene] /\ Exists(disk, Store(Scene))
          /\ UNCHANGED <<ids, disk, missed>>
      BY <2>8 DEF Entity, Parses
    <3>2. Scene' = Scene
      BY <3>1 DEF Scene, Types
    <3>3. \A i \in DOMAIN ids : /\ Exists(disk', Store(ids[i]))
                                /\ \A k \in DOMAIN ContentOf[ids[i]] : Had(disk', missed', ContentOf[ids[i]][k])
      BY <1>1, <3>1
    <3>4. Exists(disk', Store(Scene')) /\ \A k \in DOMAIN ContentOf[Scene'] : k \in todo'
      BY <3>1, <3>2
    <3> QED
      BY <2>2, <3>1, <3>3, <3>4 DEF Fetched
  <2>9. CASE SceneDone
    <3>1. /\ main.pc = "content" /\ todo = {} /\ \A f \in Threads : Is(f, "free")
          /\ ids' = Append(ids, Scene) /\ UNCHANGED <<disk, missed>>
      BY <2>9 DEF SceneDone
    <3>2. PICK s \in Scenes : s = Scene
      BY <1>c, <3>1
    <3>3. Exists(disk, Store(s)) /\ \A k \in DOMAIN ContentOf[s] : Had(disk, missed, ContentOf[s][k])
      BY <3>1, <3>2 DEF Fetched, Going, Is
    <3>4. ids \in Seq(Scenes) /\ ids' = Append(ids, s)
      BY <3>1, <3>2 DEF Types
    <3>5. DOMAIN ids' = DOMAIN ids \cup {Len(ids) + 1} /\ ids'[Len(ids) + 1] = s
          /\ \A i \in DOMAIN ids : ids'[i] = ids[i]
      BY <3>4
    <3>6. \A i \in DOMAIN ids' : /\ Exists(disk', Store(ids'[i]))
                                 /\ \A k \in DOMAIN ContentOf[ids'[i]] : Had(disk', missed', ContentOf[ids'[i]][k])
      BY <1>1, <3>1, <3>3, <3>5
    <3>7. main'.pc # "content"
      <4>1. PICK n \in Nat \ {0} : GoTo(n)
        BY <2>9 DEF SceneDone, Types
      <4> QED
        BY <4>1, GoToIs
    <3> QED
      BY <2>2, <3>6, <3>7 DEF Fetched
  <2> QED
    BY <1>4, <2>3, <2>5, <2>6, <2>7, <2>8, <2>9 DEF MainStep
<1>5. CASE Kill
  BY <1>5 DEF Kill, Fetched, Free, Rest, Is
<1>6. CASE UNCHANGED vars
  <2>1. UNCHANGED <<main, todo, task, ids, disk, missed>> /\ Scene' = Scene
    BY <1>6 DEF vars, Scene
  <2> QED
    BY <2>1 DEF Fetched, Is
<1> QED
  BY <1>3, <1>4, <1>5, <1>6, Steps

-----------------------------------------------------------------------------
LEMMA WorldInit ==
  ASSUME WorldAssumption, Init
  PROVE  WorldInv
<1>1. InodeMax \in Nat /\ NoInode = 0 /\ Len(Worlds) \in Nat \ {0} /\ Main \in Fetchers
  BY Numbers DEF NoInode, WorldAssumption, Fetchers
<1>2. \A p \in Paths : ~Exists(disk, p)
  BY DEF Init, Exists
<1>3. \A f \in Fetchers : task[f] = Free
  BY DEF Init
<1>4. disk \in Disks(Paths, InodeMax)
  BY <1>1 DEF Init, Disks, InodeMax
<1>5. Types
  BY <1>1, <1>4 DEF Init, Types, Rest, Free, Tasks, TaskPcs, MainPcs
<1>6. Stages
  BY <1>1, <1>3 DEF Init, Stages, Fetches, Rest, Free, Is, Fetchers
<1>7. Links /\ Whole
  BY <1>2, <1>3 DEF Links, Whole, Free, Is
<1>8. EntitiesWhole
  BY <1>1, <1>2, <1>3, FilePaths DEF EntitiesWhole, Free, Is, Files
<1>9. Fetched
  BY <1>1, <1>3 DEF Init, Fetched, Rest, Free, Is
<1> QED
  BY <1>5, <1>6, <1>7, <1>8, <1>9 DEF WorldInv

\* WorldComplete (abgen-world.rs): for any worlds, workers, runs, failed fetches and
\* writes and kills, the entities in the store are whole; and when a run has ended
\* and no file was ever cut short, all files there are whole, and each id it lists
\* has its entity and all the content that was not warned about.
THEOREM WorldIsComplete ==
  ASSUME WorldAssumption, IdsApart
  PROVE  Spec => []WorldComplete
<1>1. Init => WorldInv
  BY WorldInit
<1>2. WorldInv /\ [Next]_vars => WorldInv'
  <2> SUFFICES ASSUME WorldInv, [Next]_vars PROVE WorldInv'
    OBVIOUS
  <2>1. Types' /\ Stages' /\ Links' /\ EntitiesWhole' /\ Fetched'
    BY TypesStep, LinksStep, EntitiesStep, FetchedStep DEF WorldInv
  <2>2. Whole'
    BY WholeStep DEF WorldInv, Whole, Exists
  <2> QED
    BY <2>1, <2>2 DEF WorldInv
<1>3. WorldInv => WorldComplete
  <2> SUFFICES ASSUME WorldInv PROVE WorldComplete
    OBVIOUS
  <2>1. \A s \in Scenes : Exists(disk, Store(s)) => Content(disk, Store(s)) = "whole"
    BY DEF WorldInv, EntitiesWhole
  <2>2. ASSUME main.pc = "off", past.cuts = 0
        PROVE  \A file \in Files : Exists(disk, Store(file)) => Content(disk, Store(file)) = "whole"
    <3>1. \A f \in Fetchers : ~Is(f, "write")
      BY <2>2 DEF WorldInv, Stages, Fetchers, Is
    <3> QED
      BY <2>2, <3>1, FilePaths DEF WorldInv, Whole, Coming, Content
  <2>3. \A i \in DOMAIN ids :
          /\ Exists(disk, Store(ids[i]))
          /\ \A k \in DOMAIN ContentOf[ids[i]] :
               Exists(disk, Store(ContentOf[ids[i]][k])) \/ ContentOf[ids[i]][k] \in missed
    BY DEF WorldInv, Fetched, Had
  <2> QED
    BY <2>1, <2>2, <2>3 DEF WorldComplete
<1> QED
  BY <1>1, <1>2, <1>3, PTL DEF Spec
=============================================================================
