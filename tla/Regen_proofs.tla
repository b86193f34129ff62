---------------------------- MODULE Regen_proofs ----------------------------
(***************************************************************************)
(* Proofs about Regen for any number of workers, entities, glbs, runs and  *)
(* faults: published assets are whole, transient faults within the number  *)
(* of attempts do no harm, an asset and its compressed twin agree, a run   *)
(* that counts no failure is complete, and a dry run foretells the next.   *)
(***************************************************************************)
EXTENDS Regen, FiniteSetTheorems, SequenceTheorems, TLAPS

Pcs == {"idle", "plan", "check", "claim", "texture", "convert", "write", "rename",
        "twin", "twinning", "manifest", "listing"}
Tasks == [pc : Pcs, ent : Entities \cup {Nil}, at : Nat, tries : Nat,
          whole : BOOLEAN, names : SUBSET Names]
Reports == [converted : Nat, already : Nat, failed : Nat, manifests : Nat]
Histories == [kills : Nat, transient : Nat, definite : Nat, plain : BOOLEAN,
              forecast : {past.forecast}, ended : {past.ended}]

\* An idle worker has forgotten its last entity, any other is at a glb of its own.
TaskShape ==
  /\ task \in [Threads -> Tasks]
  /\ \A w \in Threads : task[w].pc = "idle" => task[w] = Idle
  /\ \A w \in Threads : task[w].pc # "idle" => /\ task[w].ent \in Entities
                                               /\ task[w].at \in Glbs(task[w].ent)

\* Types; a process that is gone has left nothing but its tree.
Shape ==
  /\ run \in Modes \cup {Nil} /\ runs \in Nat
  /\ todo \subseteq Entities /\ claimed \subseteq Names /\ unique \subseteq Names
  /\ TaskShape
  /\ asset \in [Names -> {"absent", "whole", "untextured"}]
  /\ tmp \in [Names -> {"absent", "partial", "full"}]
  /\ twin \in [Names -> {"absent", "partial", "whole", "untextured"}]
  /\ DOMAIN manifest = Entities
  /\ report \in Reports /\ past \in Histories
Rest == run = Nil => /\ todo = {} /\ claimed = {} /\ unique = {} /\ report = NoReport
                     /\ \A w \in Threads : task[w] = Idle

Bounded ==
  /\ runs <= MaxRuns /\ Faults <= MaxFaults
  /\ \A w \in Threads : task[w].tries < Retries

\* The program points of convert_and_write, and those before the asset exists.
Making  == {"texture", "convert", "write", "rename"}
Holding == Making \cup {"twin", "twinning"}

\* Whoever converts a name has claimed it, nobody else converts it, and what is
\* about to be published has been written.
Claims ==
  /\ \A w \in Threads : task[w].pc \in Holding => Name(w) \in claimed
  /\ \A v, w \in Threads : v # w /\ task[v].pc \in Holding /\ task[w].pc \in Holding
                             => Name(v) # Name(w)
Ready == \A w \in Threads : task[w].pc = "rename" => tmp[Name(w)] = "full"

\* A fetch that has failed so often met as many faults, so that while these are
\* fewer than the attempts nothing is lost.
Attempts == \A w \in Threads : task[w].tries <= past.transient
Spared ==
  past.transient < Retries /\ past.definite = 0 =>
    /\ \A n \in Names : asset[n] # "untextured"
    /\ \A w \in Threads : task[w].whole
    /\ report.failed = 0

\* While nothing is killed, fails or goes without compression, a twin differs
\* from its asset only while a worker is about to write it.
Mirrored ==
  past.kills = 0 /\ past.definite = 0 /\ ~past.plain =>
    /\ run # Nil => run.compress
    /\ \A n \in Names : twin[n] # asset[n] =>
         \E w \in Threads : task[w].pc \in {"twin", "twinning"} /\ Name(w) = n

-----------------------------------------------------------------------------
\* The workers share the entities out.
Apart ==
  /\ \A w \in Threads : task[w].pc # "idle" => task[w].ent \notin todo
  /\ \A v, w \in Threads : v # w /\ task[v].pc # "idle" => task[v].ent # task[w].ent
\* A dry run only plans; a run that is not over has ended nothing.
DryPlans ==
  /\ run # Nil => past.ended = Nil
  /\ run # Nil /\ run.dry => \A w \in Threads : task[w].pc \in {"idle", "plan"}

\* The names of the glbs of e before row i.
Before(e, i) == {Rows[j].name : j \in {j \in Glbs(e) : j < i}}
\* What a worker has listed when nothing has failed.
Listed(t) ==
  t.names = IF t.pc = "plan" THEN Before(t.ent, t.at)
            ELSE IF t.pc \in {"manifest", "listing"} THEN Planned(t.ent)
            ELSE Before(t.ent, t.at) \cup {Rows[t.at].name}
\* A name somebody takes care of, or that needs no care.
Covered(n) ==
  IF run.dry THEN n \in unique ELSE n \in claimed \/ (~run.force /\ asset[n] # "absent")
Undecided(t) == IF t.pc \in {"check", "claim"} THEN {Rows[t.at].name} ELSE {}
Done(e) ==
  /\ \A n \in Planned(e) : Covered(n)
  /\ ~run.dry /\ report.manifests = 0 /\ Planned(e) # {} => manifest[e] = Planned(e)

\* A run that has not counted a failure leaves no name behind it uncared for, and
\* what is claimed is made or being made.
Clean ==
  run # Nil /\ report.failed = 0 =>
    /\ \A w \in Threads : task[w].pc # "idle" =>
         Listed(task[w]) /\ \A n \in task[w].names \ Undecided(task[w]) : Covered(n)
    /\ \A e \in Entities \ todo : (\E w \in Threads : task[w].ent = e) \/ Done(e)
    /\ \A n \in claimed : asset[n] # "absent" \/
         \E w \in Threads : task[w].pc \in Making /\ Name(w) = n

-----------------------------------------------------------------------------
Everything == {Rows[i].name : i \in {i \in DOMAIN Rows : Rows[i].gltf}}
\* What a run with this --force has to convert, over the tree as it is.
Missing(force) == {n \in Everything : force \/ asset[n] = "absent"}
Held == {Name(w) : w \in {w \in Threads : task[w].pc \in Holding}}
\* What a worker claims is in want of conversion, and everything claimed and not
\* held any more was counted.
Tally ==
  /\ claimed \subseteq Everything /\ unique \subseteq Everything
  /\ run # Nil /\ report.failed = 0 =>
       /\ \A w \in Threads : task[w].pc = "claim" =>
            Name(w) \in claimed \cup Missing(run.force)
       /\ ~run.dry => report.converted = Cardinality(claimed \ Held)
       /\ run.dry => report.already = Cardinality(unique \ Missing(run.force))

\* What a clean dry run has foretold is what a clean run over the same tree has
\* claimed or has yet to.
Foretold ==
  LET f == past.forecast IN
  f # Nil /\ f.failed = 0 =>
    /\ run # Nil /\ ~run.dry /\ report.failed = 0 /\ f.force = run.force =>
         f.converted = Cardinality(claimed \cup Missing(run.force))
    /\ run = Nil /\ past.ended # Nil /\ past.ended.mode.dry =>
         f.converted = Cardinality(Missing(f.force))

-----------------------------------------------------------------------------
\* Rows and their order.

\* A nonempty set of naturals has a least element: its initial segments, ordered
\* by strict inclusion, are well founded.
LEMMA Least ==
  ASSUME NEW S \in SUBSET Nat, S # {}
  PROVE  Min(S) \in S /\ \A i \in S : Min(S) <= i
<1>1. PICK n \in S : TRUE
  OBVIOUS
<1> DEFINE Below(m) == {i \in S : i <= m}
           T == {Below(m) : m \in Below(n)}
<1>2. n \in Below(n) /\ \A m \in Below(n) : Below(m) \in SUBSET (0 .. n)
  <2>1. n \in Nat /\ n \in Below(n)
    BY <1>1
  <2>2. ASSUME NEW m \in Below(n), NEW k \in Below(m) PROVE k \in 0 .. n
    <3>1. k \in Nat /\ m \in Nat /\ k <= m /\ m <= n
      BY <2>2
    <3> QED
      BY <2>1, <3>1
  <2> HIDE DEF Below
  <2> QED
    BY <2>1, <2>2
<1>3. T \in SUBSET (SUBSET (0 .. n)) /\ Below(n) \in T
  <2> HIDE DEF Below
  <2> QED
    BY <1>2
<1>4. PICK x \in T : \A y \in T : <<y, x>> \notin StrictSubsetOrdering(0 .. n)
  <2>1. FiniteSubsetsOf(0 .. n) = SUBSET (0 .. n)
    <3>1. IsFiniteSet(0 .. n)
      BY <1>1, FS_Interval
    <3> QED
      BY <3>1, FS_FiniteSubsetsOfFinite
  <2>2. IsWellFoundedOn(StrictSubsetOrdering(0 .. n), SUBSET (0 .. n))
    BY <2>1, FS_StrictSubsetOrderingWellFounded
  <2>3. T \subseteq SUBSET (0 .. n) /\ T # {}
    BY <1>3
  <2> HIDE DEF T
  <2> QED
    BY <2>2, <2>3, WFMin
<1>5. PICK m \in Below(n) : x = Below(m)
  BY <1>4
<1>6. ASSUME NEW i \in S, i < m PROVE FALSE
  <2>1. i \in Below(n) /\ Below(i) \in T
    <3>1. i \in Nat /\ m \in Nat /\ n \in Nat /\ m <= n
      BY <1>1, <1>5, <1>6
    <3>2. i \in Below(n)
      BY <3>1, <1>6
    <3> QED
      BY <3>2
  <2>2. Below(i) # x /\ Below(i) \subseteq x
    <3>1. i \in Nat /\ m \in Nat /\ i < m /\ m \in S
      BY <1>1, <1>5, <1>6
    <3>2. m \in Below(m) /\ m \notin Below(i)
      BY <3>1
    <3>3. ASSUME NEW k \in Below(i) PROVE k \in Below(m)
      BY <3>1, <3>3
    <3> HIDE DEF Below
    <3> QED
      BY <1>5, <3>2, <3>3
  <2>3. Below(i) \in SUBSET (0 .. n) /\ x \in SUBSET (0 .. n)
    BY <1>3, <2>1
  <2> HIDE DEF Below, T
  <2>4. <<Below(i), x>> \in (SUBSET (0 .. n)) \X (SUBSET (0 .. n))
    BY <2>3
  <2>5. <<Below(i), x>> \in StrictSubsetOrdering(0 .. n)
    BY <2>2, <2>4 DEF StrictSubsetOrdering
  <2> QED
    BY <1>4, <2>1, <2>5
<1>7. m \in S /\ \A i \in S : m <= i
  BY <1>5, <1>6, S \subseteq Nat
<1> QED
  BY <1>7 DEF Min

LEMMA GlbsRight ==
  ASSUME NEW e, NEW i \in Glbs(e)
  PROVE  /\ i \in Nat /\ i \in DOMAIN Rows
         /\ Rows[i].gltf /\ Rows[i].name \in Names /\ Rows[i].entity = e
<1>1. Rows \in Seq([entity : Entities, name : Names, gltf : BOOLEAN])
  BY RegenAssumption
<1>2. i \in DOMAIN Rows /\ Rows[i].gltf /\ Rows[i].entity = e
  BY DEF Glbs
<1>3. DOMAIN Rows = 1 .. Len(Rows) /\ Len(Rows) \in Nat
  BY <1>1
<1>4. i \in Nat
  BY <1>2, <1>3
<1>5. Rows[i] \in [entity : Entities, name : Names, gltf : BOOLEAN]
  BY <1>1, <1>2, ElementOfSeq, <1>3
<1> QED
  BY <1>2, <1>4, <1>5

\* An entity with a glb has a first one, and after each there is a next or none.
LEMMA FirstGlb ==
  ASSUME NEW e, NEW S \in SUBSET Glbs(e), S # {}
  PROVE  Min(S) \in S /\ \A i \in S : Min(S) <= i
<1>1. S \in SUBSET Nat
  BY GlbsRight
<1> QED
  BY <1>1, Least

-----------------------------------------------------------------------------
\* What a step does to the task of its worker, and that it leaves the others alone.

Others(w) == \A v \in Threads \ {w} : task'[v] = task[v]

\* The worker goes on with the same glb, at p.
Stays(w, p, names) ==
  /\ Others(w)
  /\ task'[w].pc = p /\ task'[w].ent = task[w].ent /\ task'[w].at = task[w].at
  /\ task'[w].names = names

\* With no failed fetch behind it.
Anew(w) == task'[w].tries = 0 /\ task'[w].whole = task[w].whole

\* It goes on to the next glb of its entity, to the manifest, or to the next entity.
Leaves(w, names) ==
  /\ Others(w)
  /\ task'[w].tries = 0 /\ task'[w].whole
  /\ \/ /\ Later(w) # {}
        /\ task'[w].pc = "plan" /\ task'[w].ent = task[w].ent /\ task'[w].at = Min(Later(w))
        /\ task'[w].names = names
     \/ /\ Later(w) = {} /\ (run.dry \/ names = {})
        /\ task'[w] = Idle
     \/ /\ Later(w) = {} /\ ~run.dry /\ names # {}
        /\ task'[w].pc = "manifest" /\ task'[w].ent = task[w].ent /\ task'[w].at = task[w].at
        /\ task'[w].names = names

LEMMA IdleTask ==
  Idle \in Tasks /\ Idle.pc = "idle" /\ Idle.ent = Nil /\ Idle.tries = 0 /\ Idle.whole
BY DEF Idle, Tasks, Pcs

LEMMA SetTask ==
  ASSUME TaskShape, NEW w \in Threads, NEW t \in Tasks, task' = [task EXCEPT ![w] = t],
         t.pc = "idle" => t = Idle,
         t.pc # "idle" => t.ent \in Entities /\ t.at \in Glbs(t.ent)
  PROVE  TaskShape' /\ Others(w) /\ task'[w] = t
<1>1. task' \in [Threads -> Tasks] /\ task'[w] = t /\ Others(w)
  BY DEF TaskShape, Others
<1>2. ASSUME NEW v \in Threads
      PROVE  /\ task'[v].pc = "idle" => task'[v] = Idle
             /\ task'[v].pc # "idle" => /\ task'[v].ent \in Entities
                                        /\ task'[v].at \in Glbs(task'[v].ent)
  <2>1. CASE v = w
    BY <1>1, <2>1
  <2>2. CASE v # w
    <3>1. task'[v] = task[v]
      BY <1>1, <2>2 DEF Others
    <3> QED
      BY <3>1 DEF TaskShape
  <2> QED
    BY <2>1, <2>2
<1>3. TaskShape'
  <2> HIDE DEF Glbs, Idle
  <2>1. (\A v \in Threads : task'[v].pc = "idle" => task'[v] = Idle)
        /\ \A v \in Threads : task'[v].pc # "idle" => task'[v].ent \in Entities
                                                     /\ task'[v].at \in Glbs(task'[v].ent)
    BY <1>2
  <2>2. task' \in [Threads -> Tasks]
    BY <1>1
  <2> QED
    BY <2>1, <2>2 DEF TaskShape, Glbs, Idle
<1> QED
  BY <1>1, <1>3

LEMMA NameTyped ==
  ASSUME TaskShape, NEW w \in Threads, task[w].pc # "idle"
  PROVE  Name(w) \in Names /\ task[w] \in Tasks
<1>1. task[w] \in Tasks /\ task[w].at \in Glbs(task[w].ent)
  BY DEF TaskShape
<1> QED
  BY <1>1, GlbsRight DEF Name

LEMMA ToMoves ==
  ASSUME TaskShape, NEW w \in Threads, task[w].pc # "idle", NEW p \in Pcs \ {"idle"}, To(w, p)
  PROVE  /\ TaskShape' /\ Stays(w, p, task[w].names)
         /\ task'[w].tries = 0 /\ task'[w].whole = task[w].whole
<1> DEFINE t == [task[w] EXCEPT !.pc = p, !.tries = 0]
<1>1. task[w] \in Tasks /\ task[w].ent \in Entities /\ task[w].at \in Glbs(task[w].ent)
  BY DEF TaskShape
<1>2. /\ t \in Tasks /\ t.pc = p /\ t.tries = 0 /\ t.ent = task[w].ent /\ t.at = task[w].at
      /\ t.whole = task[w].whole /\ t.names = task[w].names
  BY <1>1 DEF Tasks
<1>3. task' = [task EXCEPT ![w] = t]
  BY DEF To, TaskShape
<1> HIDE DEF t
<1> QED
  BY <1>1, <1>2, <1>3, SetTask DEF Stays

LEMMA AdvanceMoves ==
  ASSUME TaskShape, NEW w \in Threads, task[w].pc # "idle", NEW S \in SUBSET Names,
         AdvanceWith(w, S)
  PROVE  TaskShape' /\ Leaves(w, S)
<1> DEFINE t == [task[w] EXCEPT !.names = S, !.tries = 0, !.whole = TRUE]
           next == [t EXCEPT !.pc = "plan", !.at = Min(Later(w))]
           list == [t EXCEPT !.pc = "manifest"]
<1>1. task[w] \in Tasks /\ task[w].ent \in Entities /\ task[w].at \in Glbs(task[w].ent)
  BY DEF TaskShape
<1>2. /\ t \in Tasks /\ t.tries = 0 /\ t.ent = task[w].ent /\ t.at = task[w].at
      /\ t.whole /\ t.names = S
  BY <1>1 DEF Tasks
<1>3. task' = [task EXCEPT ![w] = IF Later(w) # {} THEN next
                                  ELSE IF run.dry \/ S = {} THEN Idle ELSE list]
  BY DEF AdvanceWith
<1>4. Later(w) # {} => Min(Later(w)) \in Glbs(task[w].ent)
  <2>1. Later(w) \in SUBSET Glbs(task[w].ent)
    BY DEF Later
  <2> QED
    BY <2>1, FirstGlb
<1> HIDE DEF t
<1>5. CASE Later(w) # {}
  <2>1. Min(Later(w)) \in Nat /\ "plan" \in Pcs /\ "plan" # "idle"
    BY <1>4, <1>5, GlbsRight DEF Pcs
  <2>2. /\ next \in Tasks /\ next.pc = "plan" /\ next.tries = 0 /\ next.ent = task[w].ent
        /\ next.at = Min(Later(w)) /\ next.whole /\ next.names = S
    BY <1>2, <2>1 DEF Tasks
  <2>3. task' = [task EXCEPT ![w] = next]
    BY <1>3, <1>5
  <2> HIDE DEF next
  <2> QED
    BY <1>1, <1>4, <1>5, <2>1, <2>2, <2>3, SetTask DEF Leaves
<1>6. CASE Later(w) = {} /\ (run.dry \/ S = {})
  <2>1. task' = [task EXCEPT ![w] = Idle]
    BY <1>3, <1>6
  <2> QED
    BY <1>6, <2>1, SetTask, IdleTask DEF Leaves
<1>7. CASE Later(w) = {} /\ ~run.dry /\ S # {}
  <2>1. "manifest" \in Pcs /\ "manifest" # "idle"
    BY DEF Pcs
  <2>2. /\ list \in Tasks /\ list.pc = "manifest" /\ list.tries = 0 /\ list.ent = task[w].ent
        /\ list.at = task[w].at /\ list.whole /\ list.names = S
    BY <1>2, <2>1 DEF Tasks
  <2>3. task' = [task EXCEPT ![w] = list]
    BY <1>3, <1>7
  <2> HIDE DEF list
  <2> QED
    BY <1>1, <1>7, <2>1, <2>2, <2>3, SetTask DEF Leaves
<1> QED
  BY <1>5, <1>6, <1>7

\* The table of a worker's moves.
MoveOf(w) ==
  /\ \A e \in Entities : Take(w, e) =>
       /\ Others(w)
       /\ IF Glbs(e) = {} THEN task'[w] = Idle
          ELSE /\ task'[w].pc = "plan" /\ task'[w].ent = e /\ task'[w].at = Min(Glbs(e))
               /\ task'[w].tries = 0 /\ task'[w].whole /\ task'[w].names = {}
  /\ \A p \in {"plan", "texture"} : Retry(w, p) =>
       Stays(w, p, task[w].names) /\ task'[w].tries = task[w].tries + 1
       /\ task'[w].whole = task[w].whole
  /\ PlanFail(w) =>
      Leaves(w, task[w].names)
  /\ PlanOk(w) =>
      IF run.dry THEN Leaves(w, task[w].names \cup {Name(w)})
      ELSE Stays(w, "check", task[w].names \cup {Name(w)}) /\ Anew(w)
  /\ Check(w) =>
      IF ~run.force /\ asset[Name(w)] # "absent" THEN Leaves(w, task[w].names)
      ELSE Stays(w, "claim", task[w].names) /\ Anew(w)
  /\ Claim(w) =>
      IF Name(w) \in claimed THEN Leaves(w, task[w].names)
      ELSE Stays(w, IF Name(w) \in Textured THEN "texture" ELSE "convert", task[w].names)
           /\ Anew(w)
  /\ TextureOk(w) =>
      Stays(w, "convert", task[w].names) /\ Anew(w)
  /\ ConvertFail(w) =>
      Leaves(w, task[w].names)
  /\ OpenTmp(w) =>
      Stays(w, "write", task[w].names) /\ Anew(w)
  /\ WriteTmp(w) =>
      Stays(w, "rename", task[w].names) /\ Anew(w)
  /\ WriteTmpFail(w) =>
      Leaves(w, task[w].names)
  /\ Rename(w) =>
      IF run.compress THEN Stays(w, "twin", task[w].names) /\ Anew(w)
      ELSE Leaves(w, task[w].names)
  /\ OpenTwin(w) =>
      Stays(w, "twinning", task[w].names) /\ Anew(w)
  /\ WriteTwin(w) =>
      Leaves(w, task[w].names)
  /\ WriteTwinFail(w) =>
      Leaves(w, task[w].names)
  /\ OpenManifest(w) =>
      Stays(w, "listing", task[w].names) /\ Anew(w)
  /\ TextureLost(w) =>
      Stays(w, "convert", task[w].names) /\ task'[w].tries = 0 /\ ~task'[w].whole
  /\ WriteManifest(w) \/ WriteManifestFail(w) => Others(w) /\ task'[w] = Idle

LEMMA Moves ==
  ASSUME TaskShape, RegenAssumption
  PROVE  \A w \in Threads : MoveOf(w) /\ (Work(w) => TaskShape')
<1> SUFFICES ASSUME NEW w \in Threads PROVE MoveOf(w) /\ (Work(w) => TaskShape')
  OBVIOUS
<1>p. Pcs \ {"idle"} = {"plan", "check", "claim", "texture", "convert", "write", "rename",
                      "twin", "twinning", "manifest", "listing"}
  BY DEF Pcs
<1>n. task[w].pc # "idle" => /\ Name(w) \in Names /\ task[w] \in Tasks
                             /\ task[w].names \in SUBSET Names
                             /\ task[w].names \cup {Name(w)} \in SUBSET Names
                             /\ task[w].ent \in Entities /\ task[w].at \in Glbs(task[w].ent)
  <2>1. task[w].pc # "idle" => Name(w) \in Names /\ task[w] \in Tasks
    BY NameTyped
  <2>2. task[w] \in Tasks => task[w].names \in SUBSET Names
    BY DEF Tasks
  <2> QED
    BY <2>1, <2>2 DEF TaskShape
<1>0. ASSUME NEW e \in Entities, Take(w, e)
      PROVE  /\ TaskShape' /\ Others(w)
             /\ IF Glbs(e) = {} THEN task'[w] = Idle
                ELSE /\ task'[w].pc = "plan" /\ task'[w].ent = e /\ task'[w].at = Min(Glbs(e))
                     /\ task'[w].tries = 0 /\ task'[w].whole /\ task'[w].names = {}
  <2> DEFINE t == [Idle EXCEPT !.pc = "plan", !.ent = e, !.at = Min(Glbs(e))]
  <2>1. task' = [task EXCEPT ![w] = IF Glbs(e) = {} THEN Idle ELSE t]
    BY <1>0 DEF Take
  <2>2. CASE Glbs(e) = {}
    <3>1. task' = [task EXCEPT ![w] = Idle]
      BY <2>1, <2>2
    <3> QED
      BY <2>2, <3>1, SetTask, IdleTask
  <2>3. CASE Glbs(e) # {}
    <3>1. task' = [task EXCEPT ![w] = t]
      BY <2>1, <2>3
    <3>2. Min(Glbs(e)) \in Glbs(e)
      BY <2>3, FirstGlb
    <3>3. Min(Glbs(e)) \in Nat
      BY <3>2, GlbsRight
    <3>4. /\ t \in Tasks /\ t.pc = "plan" /\ t.ent = e /\ t.at = Min(Glbs(e))
          /\ t.tries = 0 /\ t.whole /\ t.names = {}
      BY <3>3 DEF Tasks, Idle, Pcs
    <3> HIDE DEF t
    <3>5. TaskShape' /\ Others(w) /\ task'[w] = t
      BY <3>1, <3>2, <3>4, SetTask
    <3> QED
      BY <2>3, <3>4, <3>5
  <2> QED
    BY <2>2, <2>3
<1>1. ASSUME NEW p \in {"plan", "texture"}, Retry(w, p)
      PROVE  /\ TaskShape' /\ Stays(w, p, task[w].names)
             /\ task'[w].tries = task[w].tries + 1 /\ task'[w].whole = task[w].whole
  <2> DEFINE t == [task[w] EXCEPT !.tries = @ + 1]
  <2>1. task[w].pc = p /\ p # "idle"
    BY <1>1 DEF Retry, At
  <2>2. task' = [task EXCEPT ![w] = t]
    BY <1>1 DEF Retry, TaskShape
  <2>3. /\ t \in Tasks /\ t.pc = task[w].pc /\ t.tries = task[w].tries + 1
        /\ t.ent = task[w].ent /\ t.at = task[w].at
        /\ t.whole = task[w].whole /\ t.names = task[w].names
    BY <1>n, <2>1 DEF Tasks
  <2> HIDE DEF t
  <2> QED
    BY <1>n, <2>1, <2>2, <2>3, SetTask DEF Stays, Anew
<1>2. ASSUME PlanFail(w)
      PROVE  TaskShape' /\ Leaves(w, task[w].names)
  <2>1. task[w].pc # "idle" /\ AdvanceWith(w, task[w].names)
    BY <1>2 DEF PlanFail, At, Advance
  <2> QED
    BY <1>n, <2>1, AdvanceMoves
<1>3. ASSUME PlanOk(w)
      PROVE  TaskShape' /\ (IF run.dry THEN Leaves(w, task[w].names \cup {Name(w)})
      ELSE Stays(w, "check", task[w].names \cup {Name(w)}) /\ Anew(w))
  <2>1. task[w].pc = "plan"
    BY <1>3 DEF PlanOk, At
  <2>2. CASE run.dry
    <3>1. AdvanceWith(w, task[w].names \cup {Name(w)})
      BY <1>3, <2>2 DEF PlanOk
    <3> QED
      BY <1>n, <2>1, <2>2, <3>1, AdvanceMoves
  <2>3. CASE ~run.dry
    <3> DEFINE t == [task[w] EXCEPT !.pc = "check", !.tries = 0,
                                    !.names = task[w].names \cup {Name(w)}]
    <3>1. task' = [task EXCEPT ![w] = t]
      BY <1>3, <2>3 DEF PlanOk, TaskShape
    <3>2. /\ t \in Tasks /\ t.pc = "check" /\ t.tries = 0 /\ t.ent = task[w].ent
          /\ t.at = task[w].at /\ t.whole = task[w].whole
          /\ t.names = task[w].names \cup {Name(w)}
      BY <1>n, <2>1 DEF Tasks, Pcs
    <3> HIDE DEF t
    <3> QED
      BY <1>n, <2>1, <2>3, <3>1, <3>2, SetTask DEF Stays, Anew
  <2> QED
    BY <2>2, <2>3
<1>4. ASSUME Check(w)
      PROVE  TaskShape' /\ (IF ~run.force /\ asset[Name(w)] # "absent" THEN Leaves(w, task[w].names)
      ELSE Stays(w, "claim", task[w].names) /\ Anew(w))
  <2>1. task[w].pc # "idle"
    BY <1>4 DEF Check, At
  <2>2. CASE ~run.force /\ asset[Name(w)] # "absent"
    <3>1. AdvanceWith(w, task[w].names)
      BY <1>4, <2>2 DEF Check, Advance
    <3> QED
      BY <1>n, <2>1, <2>2, <3>1, AdvanceMoves
  <2>3. CASE ~(~run.force /\ asset[Name(w)] # "absent")
    <3>1. To(w, "claim")
      BY <1>4, <2>3 DEF Check
    <3> QED
      BY <1>p, <2>1, <2>3, <3>1, ToMoves DEF Anew
  <2> QED
    BY <2>2, <2>3
<1>5. ASSUME Claim(w)
      PROVE  TaskShape' /\ (IF Name(w) \in claimed THEN Leaves(w, task[w].names)
      ELSE Stays(w, IF Name(w) \in Textured THEN "texture" ELSE "convert", task[w].names)
           /\ Anew(w))
  <2>1. task[w].pc # "idle"
    BY <1>5 DEF Claim, At
  <2>2. CASE Name(w) \in claimed
    <3>1. AdvanceWith(w, task[w].names)
      BY <1>5, <2>2 DEF Claim, Advance
    <3> QED
      BY <1>n, <2>1, <2>2, <3>1, AdvanceMoves
  <2>3. CASE Name(w) \notin claimed
    <3> DEFINE p == IF Name(w) \in Textured THEN "texture" ELSE "convert"
    <3>1. To(w, p)
      BY <1>5, <2>3 DEF Claim
    <3>2. p \in Pcs \ {"idle"}
      BY <1>p
    <3>3. TaskShape' /\ Stays(w, p, task[w].names) /\ Anew(w)
      <4> HIDE DEF p
      <4> QED
        BY <2>1, <3>1, <3>2, ToMoves DEF Anew
    <3> QED
      BY <2>3, <3>3
  <2> QED
    BY <2>2, <2>3
<1>6. ASSUME TextureOk(w)
      PROVE  TaskShape' /\ Stays(w, "convert", task[w].names) /\ Anew(w)
  <2>1. task[w].pc # "idle" /\ To(w, "convert")
    BY <1>6 DEF TextureOk, At
  <2> QED
    BY <1>p, <2>1, ToMoves DEF Anew
<1>7. ASSUME ConvertFail(w)
      PROVE  TaskShape' /\ Leaves(w, task[w].names)
  <2>1. task[w].pc # "idle" /\ AdvanceWith(w, task[w].names)
    BY <1>7 DEF ConvertFail, Fail, At, Advance
  <2> QED
    BY <1>n, <2>1, AdvanceMoves
<1>8. ASSUME OpenTmp(w)
      PROVE  TaskShape' /\ Stays(w, "write", task[w].names) /\ Anew(w)
  <2>1. task[w].pc # "idle" /\ To(w, "write")
    BY <1>8 DEF OpenTmp, At
  <2> QED
    BY <1>p, <2>1, ToMoves DEF Anew
<1>9. ASSUME WriteTmp(w)
      PROVE  TaskShape' /\ Stays(w, "rename", task[w].names) /\ Anew(w)
  <2>1. task[w].pc # "idle" /\ To(w, "rename")
    BY <1>9 DEF WriteTmp, At
  <2> QED
    BY <1>p, <2>1, ToMoves DEF Anew
<1>10. ASSUME WriteTmpFail(w)
      PROVE  TaskShape' /\ Leaves(w, task[w].names)
  <2>1. task[w].pc # "idle" /\ AdvanceWith(w, task[w].names)
    BY <1>10 DEF WriteTmpFail, Fail, At, Advance
  <2> QED
    BY <1>n, <2>1, AdvanceMoves
<1>11. ASSUME Rename(w)
      PROVE  TaskShape' /\ (IF run.compress THEN Stays(w, "twin", task[w].names) /\ Anew(w)
      ELSE Leaves(w, task[w].names))
  <2>1. task[w].pc # "idle"
    BY <1>11 DEF Rename, At
  <2>2. CASE run.compress
    <3>1. To(w, "twin")
      BY <1>11, <2>2 DEF Rename
    <3> QED
      BY <1>p, <2>1, <2>2, <3>1, ToMoves DEF Anew
  <2>3. CASE ~run.compress
    <3>1. AdvanceWith(w, task[w].names)
      BY <1>11, <2>3 DEF Rename, Advance
    <3> QED
      BY <1>n, <2>1, <2>3, <3>1, AdvanceMoves
  <2> QED
    BY <2>2, <2>3
<1>12. ASSUME OpenTwin(w)
      PROVE  TaskShape' /\ Stays(w, "twinning", task[w].names) /\ Anew(w)
  <2>1. task[w].pc # "idle" /\ To(w, "twinning")
    BY <1>12 DEF OpenTwin, At
  <2> QED
    BY <1>p, <2>1, ToMoves DEF Anew
<1>13. ASSUME WriteTwin(w)
      PROVE  TaskShape' /\ Leaves(w, task[w].names)
  <2>1. task[w].pc # "idle" /\ AdvanceWith(w, task[w].names)
    BY <1>13 DEF WriteTwin, At, Advance
  <2> QED
    BY <1>n, <2>1, AdvanceMoves
<1>14. ASSUME WriteTwinFail(w)
      PROVE  TaskShape' /\ Leaves(w, task[w].names)
  <2>1. task[w].pc # "idle" /\ AdvanceWith(w, task[w].names)
    BY <1>14 DEF WriteTwinFail, Fail, At, Advance
  <2> QED
    BY <1>n, <2>1, AdvanceMoves
<1>15. ASSUME OpenManifest(w)
      PROVE  TaskShape' /\ Stays(w, "listing", task[w].names) /\ Anew(w)
  <2>1. task[w].pc # "idle" /\ To(w, "listing")
    BY <1>15 DEF OpenManifest, At
  <2> QED
    BY <1>p, <2>1, ToMoves DEF Anew
<1>16. ASSUME TextureLost(w)
      PROVE  /\ TaskShape' /\ Stays(w, "convert", task[w].names)
             /\ task'[w].tries = 0 /\ ~task'[w].whole
  <2> DEFINE t == [task[w] EXCEPT !.pc = "convert", !.tries = 0, !.whole = FALSE]
  <2>1. task[w].pc # "idle"
    BY <1>16 DEF TextureLost, At
  <2>2. task' = [task EXCEPT ![w] = t]
    BY <1>16 DEF TextureLost, TaskShape
  <2>3. /\ t \in Tasks /\ t.pc = "convert" /\ t.tries = 0 /\ t.ent = task[w].ent
        /\ t.at = task[w].at /\ ~t.whole /\ t.names = task[w].names
    BY <1>n, <2>1 DEF Tasks, Pcs
  <2> HIDE DEF t
  <2> QED
    BY <1>n, <2>1, <2>2, <2>3, SetTask DEF Stays, Anew
<1>17. ASSUME WriteManifest(w) \/ WriteManifestFail(w)
      PROVE  TaskShape' /\ Others(w) /\ task'[w] = Idle
  <2>1. task' = [task EXCEPT ![w] = Idle]
    BY <1>17 DEF WriteManifest, WriteManifestFail
  <2> QED
    BY <2>1, SetTask, IdleTask
<1>m. MoveOf(w)
  BY <1>0, <1>1, <1>2, <1>3, <1>4, <1>5, <1>6, <1>7, <1>8, <1>9,
     <1>10, <1>11, <1>12, <1>13, <1>14, <1>15, <1>16, <1>17 DEF MoveOf
<1>w. Work(w) => TaskShape'
  BY <1>0, <1>1, <1>2, <1>3, <1>4, <1>5, <1>6, <1>7, <1>8, <1>9,
     <1>10, <1>11, <1>12, <1>13, <1>14, <1>15, <1>16, <1>17 DEF Work
<1> QED
  BY <1>m, <1>w

-----------------------------------------------------------------------------
\* The counters and the history.

LEMMA CountRight ==
  ASSUME report \in Reports
  PROVE
         /\ Count("converted") =>
              /\ report' \in Reports /\ report'.converted = report.converted + 1
              /\ report'.already = report.already
              /\ report'.failed = report.failed
              /\ report'.manifests = report.manifests
         /\ Count("already") =>
              /\ report' \in Reports /\ report'.already = report.already + 1
              /\ report'.converted = report.converted
              /\ report'.failed = report.failed
              /\ report'.manifests = report.manifests
         /\ Count("failed") =>
              /\ report' \in Reports /\ report'.failed = report.failed + 1
              /\ report'.converted = report.converted
              /\ report'.already = report.already
              /\ report'.manifests = report.manifests
         /\ Count("manifests") =>
              /\ report' \in Reports /\ report'.manifests = report.manifests + 1
              /\ report'.converted = report.converted
              /\ report'.already = report.already
              /\ report'.failed = report.failed
BY DEF Count, Reports

LEMMA SufferRight ==
  ASSUME past \in Histories
  PROVE
         /\ Suffer("kills") =>
              /\ past' \in Histories' /\ past'.kills = past.kills + 1
              /\ past'.transient = past.transient /\ past'.definite = past.definite
              /\ past'.plain = past.plain /\ past'.forecast = past.forecast
              /\ past'.ended = past.ended /\ Faults' = Faults + 1 /\ Faults < MaxFaults
         /\ Suffer("transient") =>
              /\ past' \in Histories' /\ past'.transient = past.transient + 1
              /\ past'.kills = past.kills /\ past'.definite = past.definite
              /\ past'.plain = past.plain /\ past'.forecast = past.forecast
              /\ past'.ended = past.ended /\ Faults' = Faults + 1 /\ Faults < MaxFaults
         /\ Suffer("definite") =>
              /\ past' \in Histories' /\ past'.definite = past.definite + 1
              /\ past'.kills = past.kills /\ past'.transient = past.transient
              /\ past'.plain = past.plain /\ past'.forecast = past.forecast
              /\ past'.ended = past.ended /\ Faults' = Faults + 1 /\ Faults < MaxFaults
BY DEF Suffer, Histories, Faults

\* What a give-up tells: so many faults, or a definite one.
LEMMA GivesUpRight ==
  ASSUME past \in Histories, NEW w \in Threads, GivesUp(w)
  PROVE  /\ past' \in Histories' /\ past'.kills = past.kills
         /\ past'.plain = past.plain /\ past'.forecast = past.forecast
         /\ past'.ended = past.ended /\ Faults' = Faults + 1 /\ Faults < MaxFaults
         /\ \/ /\ task[w].tries + 1 = Retries
               /\ past'.transient = past.transient + 1 /\ past'.definite = past.definite
            \/ past'.transient = past.transient /\ past'.definite = past.definite + 1
BY SufferRight DEF GivesUp

\* What the work of a run leaves alone.
Framed ==
  /\ run' = run /\ runs' = runs /\ past'.kills = past.kills /\ past'.plain = past.plain
  /\ past'.forecast = past.forecast /\ past'.ended = past.ended

LEMMA WorkShape ==
  ASSUME Shape, Ready, NEW w \in Threads, Work(w)
  PROVE  Shape' /\ Framed
<1>t. TaskShape' /\ TaskShape /\ past \in Histories /\ report \in Reports
  BY RegenAssumption, Moves DEF Shape
<1>n. task[w].pc # "idle" => /\ Name(w) \in Names /\ task[w].names \in SUBSET Names
  <2>1. task[w].pc # "idle" => Name(w) \in Names /\ task[w] \in Tasks
    BY <1>t, NameTyped
  <2> QED
    BY <2>1 DEF Tasks
<1>1. ASSUME NEW e \in Entities, Take(w, e)
      PROVE  Shape' /\ Framed
  <2>1. past' = past /\ past' \in Histories'
    BY <1>1, <1>t DEF Take, Histories
  <2>2. report' \in Reports
    BY <1>1, <1>t DEF Take
  <2> QED
    BY <1>1, <1>t, <1>n, <2>1, <2>2 DEF Take, At, fs, Shape, Framed
<1>2. ASSUME Retry(w, "plan")
      PROVE  Shape' /\ Framed
  <2>1. past' \in Histories' /\ past'.kills = past.kills /\ past'.plain = past.plain
        /\ past'.forecast = past.forecast /\ past'.ended = past.ended
    BY <1>2, <1>t, SufferRight DEF Retry
  <2>2. report' \in Reports
    BY <1>2, <1>t DEF Retry
  <2> QED
    BY <1>2, <1>t, <1>n, <2>1, <2>2 DEF Retry, At, fs, Shape, Framed
<1>3. ASSUME PlanFail(w)
      PROVE  Shape' /\ Framed
  <2>1. past' \in Histories' /\ past'.kills = past.kills /\ past'.plain = past.plain
        /\ past'.forecast = past.forecast /\ past'.ended = past.ended
    BY <1>3, <1>t, GivesUpRight DEF PlanFail
  <2>2. report' \in Reports
    BY <1>3, <1>t, CountRight DEF PlanFail
  <2> QED
    BY <1>3, <1>t, <1>n, <2>1, <2>2 DEF PlanFail, At, fs, Shape, Framed
<1>4. ASSUME PlanOk(w)
      PROVE  Shape' /\ Framed
  <2>1. past' = past /\ past' \in Histories'
    BY <1>4, <1>t DEF PlanOk, Histories
  <2>2. report' \in Reports
    BY <1>4, <1>t DEF PlanOk, Reports
  <2> QED
    BY <1>4, <1>t, <1>n, <2>1, <2>2 DEF PlanOk, At, fs, Shape, Framed
<1>5. ASSUME Check(w)
      PROVE  Shape' /\ Framed
  <2>1. past' = past /\ past' \in Histories'
    BY <1>5, <1>t DEF Check, Histories
  <2>2. report' \in Reports
    BY <1>5, <1>t, CountRight DEF Check
  <2> QED
    BY <1>5, <1>t, <1>n, <2>1, <2>2 DEF Check, At, fs, Shape, Framed
<1>6. ASSUME Claim(w)
      PROVE  Shape' /\ Framed
  <2>1. past' = past /\ past' \in Histories'
    BY <1>6, <1>t DEF Claim, Histories
  <2>2. report' \in Reports
    BY <1>6, <1>t, CountRight DEF Claim
  <2> QED
    BY <1>6, <1>t, <1>n, <2>1, <2>2 DEF Claim, At, fs, Shape, Framed
<1>7. ASSUME Retry(w, "texture")
      PROVE  Shape' /\ Framed
  <2>1. past' \in Histories' /\ past'.kills = past.kills /\ past'.plain = past.plain
        /\ past'.forecast = past.forecast /\ past'.ended = past.ended
    BY <1>7, <1>t, SufferRight DEF Retry
  <2>2. report' \in Reports
    BY <1>7, <1>t DEF Retry
  <2> QED
    BY <1>7, <1>t, <1>n, <2>1, <2>2 DEF Retry, At, fs, Shape, Framed
<1>8. ASSUME TextureOk(w)
      PROVE  Shape' /\ Framed
  <2>1. past' = past /\ past' \in Histories'
    BY <1>8, <1>t DEF TextureOk, Histories
  <2>2. report' \in Reports
    BY <1>8, <1>t DEF TextureOk
  <2> QED
    BY <1>8, <1>t, <1>n, <2>1, <2>2 DEF TextureOk, At, fs, Shape, Framed
<1>9. ASSUME TextureLost(w)
      PROVE  Shape' /\ Framed
  <2>1. past' \in Histories' /\ past'.kills = past.kills /\ past'.plain = past.plain
        /\ past'.forecast = past.forecast /\ past'.ended = past.ended
    BY <1>9, <1>t, GivesUpRight DEF TextureLost
  <2>2. report' \in Reports
    BY <1>9, <1>t DEF TextureLost
  <2> QED
    BY <1>9, <1>t, <1>n, <2>1, <2>2 DEF TextureLost, At, fs, Shape, Framed
<1>10. ASSUME ConvertFail(w)
      PROVE  Shape' /\ Framed
  <2>1. past' \in Histories' /\ past'.kills = past.kills /\ past'.plain = past.plain
        /\ past'.forecast = past.forecast /\ past'.ended = past.ended
    BY <1>10, <1>t, SufferRight DEF ConvertFail, Fail
  <2>2. report' \in Reports
    BY <1>10, <1>t, CountRight DEF ConvertFail, Fail
  <2> QED
    BY <1>10, <1>t, <1>n, <2>1, <2>2 DEF ConvertFail, At, fs, Shape, Framed, Fail
<1>11. ASSUME OpenTmp(w)
      PROVE  Shape' /\ Framed
  <2>1. past' = past /\ past' \in Histories'
    BY <1>11, <1>t DEF OpenTmp, Histories
  <2>2. report' \in Reports
    BY <1>11, <1>t DEF OpenTmp
  <2> QED
    BY <1>11, <1>t, <1>n, <2>1, <2>2 DEF OpenTmp, At, fs, Shape, Framed
<1>12. ASSUME WriteTmp(w)
      PROVE  Shape' /\ Framed
  <2>1. past' = past /\ past' \in Histories'
    BY <1>12, <1>t DEF WriteTmp, Histories
  <2>2. report' \in Reports
    BY <1>12, <1>t DEF WriteTmp
  <2> QED
    BY <1>12, <1>t, <1>n, <2>1, <2>2 DEF WriteTmp, At, fs, Shape, Framed
<1>13. ASSUME WriteTmpFail(w)
      PROVE  Shape' /\ Framed
  <2>1. past' \in Histories' /\ past'.kills = past.kills /\ past'.plain = past.plain
        /\ past'.forecast = past.forecast /\ past'.ended = past.ended
    BY <1>13, <1>t, SufferRight DEF WriteTmpFail, Fail
  <2>2. report' \in Reports
    BY <1>13, <1>t, CountRight DEF WriteTmpFail, Fail
  <2> QED
    BY <1>13, <1>t, <1>n, <2>1, <2>2 DEF WriteTmpFail, At, fs, Shape, Framed, Fail
<1>14. ASSUME Rename(w)
      PROVE  Shape' /\ Framed
  <2>1. past' = past /\ past' \in Histories'
    BY <1>14, <1>t DEF Ready, Rename, Histories
  <2>2. report' \in Reports
    BY <1>14, <1>t, CountRight DEF Ready, Rename
  <2> QED
    BY <1>14, <1>t, <1>n, <2>1, <2>2 DEF Ready, Rename, At, fs, Shape, Framed
<1>15. ASSUME OpenTwin(w)
      PROVE  Shape' /\ Framed
  <2>1. past' = past /\ past' \in Histories'
    BY <1>15, <1>t DEF OpenTwin, Histories
  <2>2. report' \in Reports
    BY <1>15, <1>t DEF OpenTwin
  <2> QED
    BY <1>15, <1>t, <1>n, <2>1, <2>2 DEF OpenTwin, At, fs, Shape, Framed
<1>16. ASSUME WriteTwin(w)
      PROVE  Shape' /\ Framed
  <2>1. past' = past /\ past' \in Histories'
    BY <1>16, <1>t DEF WriteTwin, Histories
  <2>2. report' \in Reports
    BY <1>16, <1>t, CountRight DEF WriteTwin
  <2> QED
    BY <1>16, <1>t, <1>n, <2>1, <2>2 DEF WriteTwin, At, fs, Shape, Framed
<1>17. ASSUME WriteTwinFail(w)
      PROVE  Shape' /\ Framed
  <2>1. past' \in Histories' /\ past'.kills = past.kills /\ past'.plain = past.plain
        /\ past'.forecast = past.forecast /\ past'.ended = past.ended
    BY <1>17, <1>t, SufferRight DEF WriteTwinFail, Fail
  <2>2. report' \in Reports
    BY <1>17, <1>t, CountRight DEF WriteTwinFail, Fail
  <2> QED
    BY <1>17, <1>t, <1>n, <2>1, <2>2 DEF WriteTwinFail, At, fs, Shape, Framed, Fail
<1>18. ASSUME OpenManifest(w)
      PROVE  Shape' /\ Framed
  <2>1. past' = past /\ past' \in Histories'
    BY <1>18, <1>t DEF OpenManifest, Histories
  <2>2. report' \in Reports
    BY <1>18, <1>t DEF OpenManifest
  <2> QED
    BY <1>18, <1>t, <1>n, <2>1, <2>2 DEF OpenManifest, At, fs, Shape, Framed
<1>19. ASSUME WriteManifest(w)
      PROVE  Shape' /\ Framed
  <2>1. past' = past /\ past' \in Histories'
    BY <1>19, <1>t DEF WriteManifest, Histories
  <2>2. report' \in Reports
    BY <1>19, <1>t DEF WriteManifest
  <2> QED
    BY <1>19, <1>t, <1>n, <2>1, <2>2 DEF WriteManifest, At, fs, Shape, Framed
<1>20. ASSUME WriteManifestFail(w)
      PROVE  Shape' /\ Framed
  <2>1. past' \in Histories' /\ past'.kills = past.kills /\ past'.plain = past.plain
        /\ past'.forecast = past.forecast /\ past'.ended = past.ended
    BY <1>20, <1>t, SufferRight DEF WriteManifestFail
  <2>2. report' \in Reports
    BY <1>20, <1>t, CountRight DEF WriteManifestFail
  <2> QED
    BY <1>20, <1>t, <1>n, <2>1, <2>2 DEF WriteManifestFail, At, fs, Shape, Framed
<1> QED
  BY <1>1, <1>2, <1>3, <1>4, <1>5, <1>6, <1>7, <1>8, <1>9, <1>10, <1>11, <1>12, <1>13,
     <1>14, <1>15, <1>16, <1>17, <1>18, <1>19, <1>20 DEF Work

LEMMA StepShape ==
  ASSUME Shape, Ready, [Next]_vars
  PROVE  Shape'
<1>1. ASSUME NEW mode \in Modes, Start(mode) PROVE Shape'
  <2>1. past' \in Histories'
    BY <1>1, RegenAssumption DEF Start, Shape, Histories
  <2> QED
    BY <1>1, <2>1 DEF Start, Shape, TaskShape, fs
<1>2. ASSUME NEW w \in Threads, Work(w) PROVE Shape'
  BY <1>2, WorkShape
<1>g. ASSUME Gone, past' \in Histories' PROVE Shape'
  <2>1. TaskShape'
    BY <1>g, IdleTask DEF Gone, TaskShape
  <2>2. report' \in Reports
    BY <1>g DEF Gone, NoReport, Reports
  <2> QED
    BY <1>g, <2>1, <2>2 DEF Gone, Shape
<1>3. CASE Finish
  <2>1. past' \in Histories'
    BY <1>3 DEF Finish, Shape, Histories
  <2> QED
    BY <1>3, <1>g, <2>1 DEF Finish
<1>4. CASE Kill
  <2>1. past' \in Histories'
    BY <1>4, SufferRight DEF Kill, Shape
  <2> QED
    BY <1>4, <1>g, <2>1 DEF Kill
<1>5. CASE UNCHANGED vars
  BY <1>5 DEF vars, fs, Shape, TaskShape, Histories
<1> QED
  BY <1>1, <1>2, <1>3, <1>4, <1>5 DEF Next

-----------------------------------------------------------------------------
\* Claims: nobody else converts what a worker converts.

LEMMA LeavesFree ==
  ASSUME NEW w \in Threads, NEW S, Leaves(w, S)
  PROVE  Others(w) /\ task'[w].pc \in {"plan", "idle", "manifest"}
BY IdleTask DEF Leaves

LEMMA NameKept ==
  ASSUME NEW v, task'[v] = task[v] \/ (task'[v].ent = task[v].ent /\ task'[v].at = task[v].at)
  PROVE  Name(v)' = Name(v)
BY DEF Name

LEMMA ClaimsLeft ==
  ASSUME Claims, NEW w \in Threads, Others(w), task'[w].pc \notin Holding,
         claimed \subseteq claimed' \/ (task[w].pc \in Holding /\ claimed' = claimed \ {Name(w)})
  PROVE  Claims'
<1>1. \A v \in Threads : task'[v].pc \in Holding =>
        task'[v] = task[v] /\ Name(v)' = Name(v) /\ v # w
  BY NameKept DEF Others
<1>2. \A v \in Threads : task'[v].pc \in Holding => Name(v)' \in claimed'
  BY <1>1 DEF Claims
<1>3. \A u, v \in Threads : u # v /\ task'[u].pc \in Holding /\ task'[v].pc \in Holding
                              => Name(u)' # Name(v)'
  BY <1>1 DEF Claims
<1> QED
  BY <1>2, <1>3 DEF Claims

LEMMA ClaimsHeld ==
  ASSUME Claims, NEW w \in Threads, NEW p \in Holding, NEW S, Stays(w, p, S),
         \/ task[w].pc \in Holding /\ claimed' = claimed
         \/ Name(w) \notin claimed /\ claimed' = claimed \cup {Name(w)}
  PROVE  Claims'
<1>1. Name(w)' = Name(w) /\ \A v \in Threads \ {w} : task'[v] = task[v] /\ Name(v)' = Name(v)
  BY NameKept DEF Stays, Others
<1>2. \A v \in Threads : task'[v].pc \in Holding => Name(v)' \in claimed'
  BY <1>1 DEF Claims
<1>3. \A v \in Threads \ {w} : task[v].pc \in Holding => Name(v) # Name(w)
  BY DEF Claims
<1>4. \A u, v \in Threads : u # v /\ task'[u].pc \in Holding /\ task'[v].pc \in Holding
                              => Name(u)' # Name(v)'
  BY <1>1, <1>3 DEF Claims
<1> QED
  BY <1>2, <1>4 DEF Claims

\* A worker that is not converting comes to none of the points of Holding but by a claim.
LEMMA WorkClaims ==
  ASSUME Shape, Claims, NEW w \in Threads, Work(w)
  PROVE  Claims'
<1>t. TaskShape /\ MoveOf(w)
  BY RegenAssumption, Moves DEF Shape
<1>1. ASSUME NEW e \in Entities, Take(w, e)
      PROVE  Claims'
  <2>1. Others(w) /\ task'[w].pc \in {"idle", "plan"}
    BY <1>1, <1>t, IdleTask DEF MoveOf
  <2>2. claimed' = claimed
    BY <1>1 DEF Take
  <2> QED
    BY <2>1, <2>2, ClaimsLeft DEF Holding, Making
<1>2. ASSUME Retry(w, "plan")
      PROVE  Claims'
  <2>1. Stays(w, "plan", task[w].names)
    BY <1>2, <1>t DEF MoveOf
  <2>2. claimed' = claimed
    BY <1>2 DEF Retry
  <2> QED
    BY <2>1, <2>2, ClaimsLeft DEF Stays, Holding, Making
<1>3. ASSUME PlanFail(w)
      PROVE  Claims'
  <2>1. Leaves(w, task[w].names)
    BY <1>3, <1>t DEF MoveOf
  <2>2. claimed' = claimed
    BY <1>3 DEF PlanFail
  <2> QED
    BY <2>1, <2>2, LeavesFree, ClaimsLeft DEF Holding, Making
<1>4. ASSUME PlanOk(w)
      PROVE  Claims'
  <2>1. Leaves(w, task[w].names \cup {Name(w)}) \/ Stays(w, "check", task[w].names \cup {Name(w)})
    BY <1>4, <1>t DEF MoveOf
  <2>2. claimed' = claimed
    BY <1>4 DEF PlanOk
  <2>3. CASE Leaves(w, task[w].names \cup {Name(w)})
    BY <2>2, <2>3, LeavesFree, ClaimsLeft DEF Holding, Making
  <2>4. CASE Stays(w, "check", task[w].names \cup {Name(w)})
    BY <2>2, <2>4, ClaimsLeft DEF Stays, Holding, Making
  <2> QED
    BY <2>1, <2>3, <2>4
<1>5. ASSUME Check(w)
      PROVE  Claims'
  <2>1. Leaves(w, task[w].names) \/ Stays(w, "claim", task[w].names)
    BY <1>5, <1>t DEF MoveOf
  <2>2. claimed' = claimed
    BY <1>5 DEF Check
  <2>3. CASE Leaves(w, task[w].names)
    BY <2>2, <2>3, LeavesFree, ClaimsLeft DEF Holding, Making
  <2>4. CASE Stays(w, "claim", task[w].names)
    BY <2>2, <2>4, ClaimsLeft DEF Stays, Holding, Making
  <2> QED
    BY <2>1, <2>3, <2>4
<1>6. ASSUME Claim(w)
      PROVE  Claims'
  <2>1. CASE Name(w) \in claimed
    <3>1. Leaves(w, task[w].names)
      BY <1>6, <1>t, <2>1 DEF MoveOf
    <3>2. claimed' = claimed
      BY <1>6, <2>1 DEF Claim
    <3> QED
      BY <3>1, <3>2, LeavesFree, ClaimsLeft DEF Holding, Making
  <2>2. CASE Name(w) \notin claimed
    <3>1. PICK p \in {"texture", "convert"} : Stays(w, p, task[w].names)
      BY <1>6, <1>t, <2>2 DEF MoveOf
    <3>2. claimed' = claimed \cup {Name(w)}
      BY <1>6, <2>2 DEF Claim
    <3> QED
      BY <2>2, <3>1, <3>2, ClaimsHeld DEF Holding, Making
  <2> QED
    BY <2>1, <2>2
<1>7. ASSUME Retry(w, "texture")
      PROVE  Claims'
  <2>1. Stays(w, "texture", task[w].names)
    BY <1>7, <1>t DEF MoveOf
  <2>2. task[w].pc = "texture" /\ claimed' = claimed
    BY <1>7 DEF Retry, At
  <2> QED
    BY <2>1, <2>2, ClaimsHeld DEF Holding, Making
<1>8. ASSUME TextureOk(w)
      PROVE  Claims'
  <2>1. Stays(w, "convert", task[w].names)
    BY <1>8, <1>t DEF MoveOf
  <2>2. task[w].pc = "texture" /\ claimed' = claimed
    BY <1>8 DEF TextureOk, At
  <2> QED
    BY <2>1, <2>2, ClaimsHeld DEF Holding, Making
<1>9. ASSUME TextureLost(w)
      PROVE  Claims'
  <2>1. Stays(w, "convert", task[w].names)
    BY <1>9, <1>t DEF MoveOf
  <2>2. task[w].pc = "texture" /\ claimed' = claimed
    BY <1>9 DEF TextureLost, At
  <2> QED
    BY <2>1, <2>2, ClaimsHeld DEF Holding, Making
<1>10. ASSUME ConvertFail(w)
      PROVE  Claims'
  <2>1. Leaves(w, task[w].names)
    BY <1>10, <1>t DEF MoveOf
  <2>2. claimed' = claimed \ {Name(w)} /\ task[w].pc \in Holding
    BY <1>10 DEF ConvertFail, Fail, At, Holding, Making
  <2> QED
    BY <2>1, <2>2, LeavesFree, ClaimsLeft DEF Holding, Making
<1>11. ASSUME OpenTmp(w)
      PROVE  Claims'
  <2>1. Stays(w, "write", task[w].names)
    BY <1>11, <1>t DEF MoveOf
  <2>2. task[w].pc = "convert" /\ claimed' = claimed
    BY <1>11 DEF OpenTmp, At
  <2> QED
    BY <2>1, <2>2, ClaimsHeld DEF Holding, Making
<1>12. ASSUME WriteTmp(w)
      PROVE  Claims'
  <2>1. Stays(w, "rename", task[w].names)
    BY <1>12, <1>t DEF MoveOf
  <2>2. task[w].pc = "write" /\ claimed' = claimed
    BY <1>12 DEF WriteTmp, At
  <2> QED
    BY <2>1, <2>2, ClaimsHeld DEF Holding, Making
<1>13. ASSUME WriteTmpFail(w)
      PROVE  Claims'
  <2>1. Leaves(w, task[w].names)
    BY <1>13, <1>t DEF MoveOf
  <2>2. claimed' = claimed \ {Name(w)} /\ task[w].pc \in Holding
    BY <1>13 DEF WriteTmpFail, Fail, At, Holding, Making
  <2> QED
    BY <2>1, <2>2, LeavesFree, ClaimsLeft DEF Holding, Making
<1>14. ASSUME Rename(w)
      PROVE  Claims'
  <2>1. claimed' = claimed /\ task[w].pc = "rename"
    BY <1>14 DEF Rename, At
  <2>2. CASE run.compress
    <3>1. Stays(w, "twin", task[w].names)
      BY <1>14, <1>t, <2>2 DEF MoveOf
    <3> QED
      BY <2>1, <3>1, ClaimsHeld DEF Holding, Making
  <2>3. CASE ~run.compress
    <3>1. Leaves(w, task[w].names)
      BY <1>14, <1>t, <2>3 DEF MoveOf
    <3> QED
      BY <2>1, <3>1, LeavesFree, ClaimsLeft DEF Holding, Making
  <2> QED
    BY <2>2, <2>3
<1>15. ASSUME OpenTwin(w)
      PROVE  Claims'
  <2>1. Stays(w, "twinning", task[w].names)
    BY <1>15, <1>t DEF MoveOf
  <2>2. task[w].pc = "twin" /\ claimed' = claimed
    BY <1>15 DEF OpenTwin, At
  <2> QED
    BY <2>1, <2>2, ClaimsHeld DEF Holding, Making
<1>16. ASSUME WriteTwin(w)
      PROVE  Claims'
  <2>1. Leaves(w, task[w].names)
    BY <1>16, <1>t DEF MoveOf
  <2>2. claimed' = claimed
    BY <1>16 DEF WriteTwin
  <2> QED
    BY <2>1, <2>2, LeavesFree, ClaimsLeft DEF Holding, Making
<1>17. ASSUME WriteTwinFail(w)
      PROVE  Claims'
  <2>1. Leaves(w, task[w].names)
    BY <1>17, <1>t DEF MoveOf
  <2>2. claimed' = claimed \ {Name(w)} /\ task[w].pc \in Holding
    BY <1>17 DEF WriteTwinFail, Fail, At, Holding, Making
  <2> QED
    BY <2>1, <2>2, LeavesFree, ClaimsLeft DEF Holding, Making
<1>18. ASSUME OpenManifest(w)
      PROVE  Claims'
  <2>1. Stays(w, "listing", task[w].names)
    BY <1>18, <1>t DEF MoveOf
  <2>2. claimed' = claimed
    BY <1>18 DEF OpenManifest
  <2> QED
    BY <2>1, <2>2, ClaimsLeft DEF Stays, Holding, Making
<1>19. ASSUME WriteManifest(w)
      PROVE  Claims'
  <2>1. Others(w) /\ task'[w].pc = "idle"
    BY <1>19, <1>t, IdleTask DEF MoveOf
  <2>2. claimed' = claimed
    BY <1>19 DEF WriteManifest
  <2> QED
    BY <2>1, <2>2, ClaimsLeft DEF Holding, Making
<1>20. ASSUME WriteManifestFail(w)
      PROVE  Claims'
  <2>1. Others(w) /\ task'[w].pc = "idle"
    BY <1>20, <1>t, IdleTask DEF MoveOf
  <2>2. claimed' = claimed
    BY <1>20 DEF WriteManifestFail
  <2> QED
    BY <2>1, <2>2, ClaimsLeft DEF Holding, Making
<1> QED
  BY <1>1, <1>2, <1>3, <1>4, <1>5, <1>6, <1>7, <1>8, <1>9, <1>10, <1>11, <1>12, <1>13,
     <1>14, <1>15, <1>16, <1>17, <1>18, <1>19, <1>20 DEF Work

LEMMA StepClaims ==
  ASSUME Shape, Rest, Claims, [Next]_vars
  PROVE  Claims'
<1>1. ASSUME NEW mode \in Modes, Start(mode) PROVE Claims'
  <2>1. task' = task /\ claimed' = claimed
    BY <1>1 DEF Start
  <2> QED
    BY <2>1 DEF Claims, Name
<1>2. ASSUME Gone PROVE Claims'
  <2>1. \A w \in Threads : task'[w].pc = "idle"
    BY <1>2, IdleTask DEF Gone
  <2> QED
    BY <2>1 DEF Claims, Holding, Making
<1>3. CASE UNCHANGED vars
  BY <1>3 DEF vars, Claims, Name
<1> QED
  BY <1>1, <1>2, <1>3, WorkClaims DEF Next, Finish, Kill

-----------------------------------------------------------------------------
\* Ready: what is renamed has been written, and published assets are whole.

LEMMA ReadyFrame ==
  ASSUME Shape, Claims, Ready, NEW w \in Threads, Others(w),
         \/ tmp' = tmp
         \/ /\ task[w].pc \in Holding
            /\ \A n \in Names \ {Name(w)} : tmp'[n] = tmp[n],
         task'[w].pc = "rename" => tmp'[Name(w)'] = "full"
  PROVE  Ready'
<1>1. ASSUME NEW v \in Threads, task'[v].pc = "rename" PROVE tmp'[Name(v)'] = "full"
  <2>1. CASE v = w
    BY <1>1, <2>1
  <2>2. CASE v # w
    <3>1. task'[v] = task[v] /\ Name(v)' = Name(v)
      BY <2>2, NameKept DEF Others
    <3>2. tmp[Name(v)] = "full" /\ Name(v) \in Names
      BY <1>1, <3>1, NameTyped DEF Ready, Shape
    <3>3. task[w].pc \in Holding => Name(v) # Name(w)
      BY <1>1, <2>2, <3>1 DEF Claims, Holding, Making
    <3> QED
      BY <3>1, <3>2, <3>3
  <2> QED
    BY <2>1, <2>2
<1> QED
  BY <1>1 DEF Ready

\* Where the moves lead.
LEMMA WorkReady ==
  ASSUME Shape, Claims, Ready, NEW w \in Threads, Work(w)
  PROVE  Ready'
<1>t. TaskShape /\ MoveOf(w)
  BY RegenAssumption, Moves DEF Shape
<1>n. task[w].pc # "idle" => Name(w) \in Names
  BY <1>t, NameTyped
<1>1. ASSUME NEW e \in Entities, Take(w, e)
      PROVE  Ready'
  <2>1. Others(w) /\ task'[w].pc # "rename"
    BY <1>1, <1>t, IdleTask DEF MoveOf, Stays, Leaves
  <2>2. tmp' = tmp
    BY <1>1 DEF Take, fs
  <2> QED
    BY <2>1, <2>2, ReadyFrame
<1>2. ASSUME Retry(w, "plan")
      PROVE  Ready'
  <2>1. Others(w) /\ task'[w].pc # "rename"
    BY <1>2, <1>t, IdleTask DEF MoveOf, Stays, Leaves
  <2>2. tmp' = tmp
    BY <1>2 DEF Retry, fs
  <2> QED
    BY <2>1, <2>2, ReadyFrame
<1>3. ASSUME PlanFail(w)
      PROVE  Ready'
  <2>1. Others(w) /\ task'[w].pc # "rename"
    BY <1>3, <1>t, IdleTask DEF MoveOf, Stays, Leaves
  <2>2. tmp' = tmp
    BY <1>3 DEF PlanFail, fs
  <2> QED
    BY <2>1, <2>2, ReadyFrame
<1>4. ASSUME PlanOk(w)
      PROVE  Ready'
  <2>1. Others(w) /\ task'[w].pc # "rename"
    BY <1>4, <1>t, IdleTask DEF MoveOf, Stays, Leaves
  <2>2. tmp' = tmp
    BY <1>4 DEF PlanOk, fs
  <2> QED
    BY <2>1, <2>2, ReadyFrame
<1>5. ASSUME Check(w)
      PROVE  Ready'
  <2>1. Others(w) /\ task'[w].pc # "rename"
    BY <1>5, <1>t, IdleTask DEF MoveOf, Stays, Leaves
  <2>2. tmp' = tmp
    BY <1>5 DEF Check, fs
  <2> QED
    BY <2>1, <2>2, ReadyFrame
<1>6. ASSUME Claim(w)
      PROVE  Ready'
  <2>1. Others(w) /\ task'[w].pc # "rename"
    BY <1>6, <1>t, IdleTask DEF MoveOf, Stays, Leaves
  <2>2. tmp' = tmp
    BY <1>6 DEF Claim, fs
  <2> QED
    BY <2>1, <2>2, ReadyFrame
<1>7. ASSUME Retry(w, "texture")
      PROVE  Ready'
  <2>1. Others(w) /\ task'[w].pc # "rename"
    BY <1>7, <1>t, IdleTask DEF MoveOf, Stays, Leaves
  <2>2. tmp' = tmp
    BY <1>7 DEF Retry, fs
  <2> QED
    BY <2>1, <2>2, ReadyFrame
<1>8. ASSUME TextureOk(w)
      PROVE  Ready'
  <2>1. Others(w) /\ task'[w].pc # "rename"
    BY <1>8, <1>t, IdleTask DEF MoveOf, Stays, Leaves
  <2>2. tmp' = tmp
    BY <1>8 DEF TextureOk, fs
  <2> QED
    BY <2>1, <2>2, ReadyFrame
<1>9. ASSUME TextureLost(w)
      PROVE  Ready'
  <2>1. Others(w) /\ task'[w].pc # "rename"
    BY <1>9, <1>t, IdleTask DEF MoveOf, Stays, Leaves
  <2>2. tmp' = tmp
    BY <1>9 DEF TextureLost, fs
  <2> QED
    BY <2>1, <2>2, ReadyFrame
<1>10. ASSUME ConvertFail(w)
      PROVE  Ready'
  <2>1. Others(w) /\ task'[w].pc # "rename"
    BY <1>10, <1>t, IdleTask DEF MoveOf, Stays, Leaves
  <2>2. tmp' = tmp
    BY <1>10 DEF ConvertFail, Fail, fs
  <2> QED
    BY <2>1, <2>2, ReadyFrame
<1>11. ASSUME OpenTmp(w)
      PROVE  Ready'
  <2>1. Others(w) /\ task'[w].pc # "rename"
    BY <1>11, <1>t, IdleTask DEF MoveOf, Stays, Leaves
  <2>2. task[w].pc \in Holding /\ Name(w) \in Names
    BY <1>11, <1>n DEF OpenTmp, At, Holding, Making
  <2>3. \A n \in Names \ {Name(w)} : tmp'[n] = tmp[n]
    BY <1>11, <2>2 DEF OpenTmp, Shape
  <2> QED
    BY <2>1, <2>2, <2>3, ReadyFrame
<1>12. ASSUME WriteTmp(w)
      PROVE  Ready'
  <2>1. Stays(w, "rename", task[w].names)
    BY <1>12, <1>t DEF MoveOf
  <2>2. task[w].pc = "write" /\ Name(w)' = Name(w)
    BY <1>12, <2>1, NameKept DEF WriteTmp, At, Stays
  <2>3. tmp'[Name(w)] = "full" /\ \A n \in Names \ {Name(w)} : tmp'[n] = tmp[n]
    BY <1>12, <1>n, <2>2 DEF WriteTmp, Shape
  <2> QED
    BY <2>1, <2>2, <2>3, ReadyFrame DEF Stays, Holding, Making
<1>13. ASSUME WriteTmpFail(w)
      PROVE  Ready'
  <2>1. Others(w) /\ task'[w].pc # "rename"
    BY <1>13, <1>t, IdleTask DEF MoveOf, Stays, Leaves
  <2>2. tmp' = tmp
    BY <1>13 DEF WriteTmpFail, Fail, fs
  <2> QED
    BY <2>1, <2>2, ReadyFrame
<1>14. ASSUME Rename(w)
      PROVE  Ready'
  <2>1. Others(w) /\ task'[w].pc # "rename"
    BY <1>14, <1>t, IdleTask DEF MoveOf, Stays, Leaves
  <2>2. task[w].pc \in Holding /\ Name(w) \in Names
    BY <1>14, <1>n DEF Rename, At, Holding, Making
  <2>3. \A n \in Names \ {Name(w)} : tmp'[n] = tmp[n]
    BY <1>14, <2>2 DEF Rename, Shape
  <2> QED
    BY <2>1, <2>2, <2>3, ReadyFrame
<1>15. ASSUME OpenTwin(w)
      PROVE  Ready'
  <2>1. Others(w) /\ task'[w].pc # "rename"
    BY <1>15, <1>t, IdleTask DEF MoveOf, Stays, Leaves
  <2>2. tmp' = tmp
    BY <1>15 DEF OpenTwin
  <2> QED
    BY <2>1, <2>2, ReadyFrame
<1>16. ASSUME WriteTwin(w)
      PROVE  Ready'
  <2>1. Others(w) /\ task'[w].pc # "rename"
    BY <1>16, <1>t, IdleTask DEF MoveOf, Stays, Leaves
  <2>2. tmp' = tmp
    BY <1>16 DEF WriteTwin
  <2> QED
    BY <2>1, <2>2, ReadyFrame
<1>17. ASSUME WriteTwinFail(w)
      PROVE  Ready'
  <2>1. Others(w) /\ task'[w].pc # "rename"
    BY <1>17, <1>t, IdleTask DEF MoveOf, Stays, Leaves
  <2>2. tmp' = tmp
    BY <1>17 DEF WriteTwinFail, Fail, fs
  <2> QED
    BY <2>1, <2>2, ReadyFrame
<1>18. ASSUME OpenManifest(w)
      PROVE  Ready'
  <2>1. Others(w) /\ task'[w].pc # "rename"
    BY <1>18, <1>t, IdleTask DEF MoveOf, Stays, Leaves
  <2>2. tmp' = tmp
    BY <1>18 DEF OpenManifest
  <2> QED
    BY <2>1, <2>2, ReadyFrame
<1>19. ASSUME WriteManifest(w)
      PROVE  Ready'
  <2>1. Others(w) /\ task'[w].pc # "rename"
    BY <1>19, <1>t, IdleTask DEF MoveOf, Stays, Leaves
  <2>2. tmp' = tmp
    BY <1>19 DEF WriteManifest
  <2> QED
    BY <2>1, <2>2, ReadyFrame
<1>20. ASSUME WriteManifestFail(w)
      PROVE  Ready'
  <2>1. Others(w) /\ task'[w].pc # "rename"
    BY <1>20, <1>t, IdleTask DEF MoveOf, Stays, Leaves
  <2>2. tmp' = tmp
    BY <1>20 DEF WriteManifestFail
  <2> QED
    BY <2>1, <2>2, ReadyFrame
<1> QED
  BY <1>1, <1>2, <1>3, <1>4, <1>5, <1>6, <1>7, <1>8, <1>9, <1>10, <1>11, <1>12, <1>13,
     <1>14, <1>15, <1>16, <1>17, <1>18, <1>19, <1>20 DEF Work

LEMMA StepReady ==
  ASSUME Shape, Claims, Ready, [Next]_vars
  PROVE  Ready'
<1>1. ASSUME NEW mode \in Modes, Start(mode) PROVE Ready'
  <2>1. task' = task /\ tmp' = tmp
    BY <1>1 DEF Start, fs
  <2> QED
    BY <2>1 DEF Ready, Name
<1>2. ASSUME Gone PROVE Ready'
  <2>1. \A w \in Threads : task'[w].pc = "idle"
    BY <1>2, IdleTask DEF Gone
  <2> QED
    BY <2>1 DEF Ready
<1>3. CASE UNCHANGED vars
  BY <1>3 DEF vars, fs, Ready, Name
<1> QED
  BY <1>1, <1>2, <1>3, WorkReady DEF Next, Finish, Kill

-----------------------------------------------------------------------------
\* Rest and the bounds.

LEMMA StepRest ==
  ASSUME Shape, Ready, Rest, [Next]_vars
  PROVE  Rest'
<1>1. ASSUME NEW mode \in Modes, Start(mode) PROVE Rest'
  BY <1>1, RegenAssumption DEF Start, Rest
<1>2. ASSUME Gone PROVE Rest'
  BY <1>2 DEF Gone, Rest
<1>3. ASSUME NEW w \in Threads, Work(w) PROVE Rest'
  <2>1. run # Nil
    BY <1>3 DEF Work, Take, Retry, PlanFail, PlanOk, Check, Claim, TextureOk, TextureLost,
                ConvertFail, OpenTmp, WriteTmp, WriteTmpFail, Rename, OpenTwin, WriteTwin,
                WriteTwinFail, OpenManifest, WriteManifest, WriteManifestFail, At
  <2>2. run' = run
    BY <1>3, WorkShape DEF Framed
  <2> QED
    BY <2>1, <2>2 DEF Rest
<1>4. CASE UNCHANGED vars
  BY <1>4 DEF vars, Rest
<1> QED
  BY <1>1, <1>2, <1>3, <1>4 DEF Next, Finish, Kill

-----------------------------------------------------------------------------
\* Attempts, bounds and what faults spare.

SparedInv == Attempts /\ Bounded /\ Spared

LEMMA SparedFrame ==
  ASSUME Shape, Shape', SparedInv, NEW w \in Threads, Others(w), Framed,
         past'.transient >= past.transient, past'.definite >= past.definite,
         Faults' <= MaxFaults,
         \/ task'[w].tries = 0
         \/ /\ task'[w].tries = task[w].tries + 1 /\ task[w].tries + 1 < Retries
            /\ past'.transient = past.transient + 1,
         past'.transient < Retries /\ past'.definite = 0 /\ task[w].whole =>
           /\ task'[w].whole /\ report'.failed = report.failed
           /\ \A n \in Names : asset'[n] = "untextured" => asset[n] = "untextured"
  PROVE  SparedInv'
<1>1. /\ past.transient \in Nat /\ past.definite \in Nat /\ past'.transient \in Nat
      /\ past'.definite \in Nat /\ Retries \in Nat /\ Retries > 0
  BY RegenAssumption DEF Shape, Histories
<1>2. \A v \in Threads : task[v].tries \in Nat
  BY DEF Shape, TaskShape, Tasks
<1>3. ASSUME NEW v \in Threads
      PROVE  task'[v].tries <= past'.transient /\ task'[v].tries < Retries
  <2>1. task[v].tries <= past.transient /\ task[v].tries < Retries
    BY DEF SparedInv, Attempts, Bounded
  <2>2. CASE v = w
    BY <1>1, <1>2, <2>1, <2>2
  <2>3. CASE v # w
    BY <1>1, <1>2, <2>1, <2>3 DEF Others
  <2> QED
    BY <2>2, <2>3
<1>4. Bounded' /\ Attempts'
  BY <1>3 DEF SparedInv, Bounded, Attempts, Framed
<1>5. ASSUME past'.transient < Retries, past'.definite = 0
      PROVE  /\ \A n \in Names : asset'[n] # "untextured"
             /\ \A v \in Threads : task'[v].whole
             /\ report'.failed = 0
  <2>1. past.transient < Retries /\ past.definite = 0
    BY <1>1, <1>5
  <2>2. /\ \A n \in Names : asset[n] # "untextured"
        /\ \A v \in Threads : task[v].whole
        /\ report.failed = 0
    BY <2>1 DEF SparedInv, Spared
  <2> QED
    BY <1>5, <2>2 DEF Others
<1> QED
  BY <1>4, <1>5 DEF SparedInv, Spared

LEMMA WorkSpared ==
  ASSUME Shape, Ready, SparedInv, NEW w \in Threads, Work(w)
  PROVE  SparedInv'
<1>t. /\ TaskShape /\ MoveOf(w) /\ Shape' /\ Framed
      /\ past \in Histories /\ report \in Reports
  BY RegenAssumption, Moves, WorkShape DEF Shape
<1>n. task[w].pc # "idle" => Name(w) \in Names
  BY <1>t, NameTyped
<1>f. /\ past.transient \in Nat /\ past.definite \in Nat /\ Retries \in Nat
      /\ Faults \in Nat /\ Faults <= MaxFaults /\ MaxFaults \in Nat
      /\ task[w].tries <= past.transient /\ task[w].tries \in Nat
  BY <1>t, RegenAssumption DEF Histories, Faults, SparedInv, Attempts, Bounded, TaskShape, Tasks
<1>1. ASSUME NEW e \in Entities, Take(w, e)
      PROVE  SparedInv'
  <2>1. Others(w) /\ task'[w].tries = 0 /\ (task[w].whole => task'[w].whole)
    BY <1>1, <1>t, IdleTask DEF MoveOf, Stays, Leaves, Anew
  <2>2. past' = past /\ Faults' = Faults
    BY <1>1 DEF Take, Faults
  <2>3. asset' = asset /\ report'.failed = report.failed
    BY <1>1, <1>t DEF Take, fs
  <2> QED
    BY <1>t, <1>f, <2>1, <2>2, <2>3, SparedFrame
<1>2. ASSUME Retry(w, "plan")
      PROVE  SparedInv'
  <2>1. /\ Others(w) /\ task'[w].tries = task[w].tries + 1
        /\ task'[w].whole = task[w].whole
    BY <1>2, <1>t DEF MoveOf, Stays
  <2>2. /\ past'.transient = past.transient + 1 /\ past'.definite = past.definite
        /\ Faults' = Faults + 1 /\ Faults < MaxFaults /\ task[w].tries + 1 < Retries
    BY <1>2, <1>t, SufferRight DEF Retry
  <2>3. asset' = asset /\ report' = report
    BY <1>2 DEF Retry, fs
  <2> QED
    BY <1>t, <1>f, <2>1, <2>2, <2>3, SparedFrame
<1>3. ASSUME PlanFail(w)
      PROVE  SparedInv'
  <2>1. Others(w) /\ task'[w].tries = 0 /\ (task[w].whole => task'[w].whole)
    BY <1>3, <1>t, IdleTask DEF MoveOf, Stays, Leaves, Anew
  <2>2. /\ past'.transient >= past.transient /\ past'.definite >= past.definite
        /\ Faults' <= MaxFaults /\ ~(past'.transient < Retries /\ past'.definite = 0)
    BY <1>3, <1>t, <1>f, GivesUpRight DEF PlanFail
  <2> QED
    BY <1>t, <2>1, <2>2, SparedFrame
<1>4. ASSUME PlanOk(w)
      PROVE  SparedInv'
  <2>1. Others(w) /\ task'[w].tries = 0 /\ (task[w].whole => task'[w].whole)
    BY <1>4, <1>t, IdleTask DEF MoveOf, Stays, Leaves, Anew
  <2>2. past' = past /\ Faults' = Faults
    BY <1>4 DEF PlanOk, Faults
  <2>3. asset' = asset /\ report'.failed = report.failed
    BY <1>4, <1>t DEF PlanOk, fs, Reports
  <2> QED
    BY <1>t, <1>f, <2>1, <2>2, <2>3, SparedFrame
<1>5. ASSUME Check(w)
      PROVE  SparedInv'
  <2>1. Others(w) /\ task'[w].tries = 0 /\ (task[w].whole => task'[w].whole)
    BY <1>5, <1>t, IdleTask DEF MoveOf, Stays, Leaves, Anew
  <2>2. past' = past /\ Faults' = Faults
    BY <1>5 DEF Check, Faults
  <2>3. asset' = asset /\ report'.failed = report.failed
    BY <1>5, <1>t, CountRight DEF Check, fs
  <2> QED
    BY <1>t, <1>f, <2>1, <2>2, <2>3, SparedFrame
<1>6. ASSUME Claim(w)
      PROVE  SparedInv'
  <2>1. Others(w) /\ task'[w].tries = 0 /\ (task[w].whole => task'[w].whole)
    BY <1>6, <1>t, IdleTask DEF MoveOf, Stays, Leaves, Anew
  <2>2. past' = past /\ Faults' = Faults
    BY <1>6 DEF Claim, Faults
  <2>3. asset' = asset /\ report'.failed = report.failed
    BY <1>6, <1>t, CountRight DEF Claim, fs
  <2> QED
    BY <1>t, <1>f, <2>1, <2>2, <2>3, SparedFrame
<1>7. ASSUME Retry(w, "texture")
      PROVE  SparedInv'
  <2>1. /\ Others(w) /\ task'[w].tries = task[w].tries + 1
        /\ task'[w].whole = task[w].whole
    BY <1>7, <1>t DEF MoveOf, Stays
  <2>2. /\ past'.transient = past.transient + 1 /\ past'.definite = past.definite
        /\ Faults' = Faults + 1 /\ Faults < MaxFaults /\ task[w].tries + 1 < Retries
    BY <1>7, <1>t, SufferRight DEF Retry
  <2>3. asset' = asset /\ report' = report
    BY <1>7 DEF Retry, fs
  <2> QED
    BY <1>t, <1>f, <2>1, <2>2, <2>3, SparedFrame
<1>8. ASSUME TextureOk(w)
      PROVE  SparedInv'
  <2>1. Others(w) /\ task'[w].tries = 0 /\ (task[w].whole => task'[w].whole)
    BY <1>8, <1>t, IdleTask DEF MoveOf, Stays, Leaves, Anew
  <2>2. past' = past /\ Faults' = Faults
    BY <1>8 DEF TextureOk, Faults
  <2>3. asset' = asset /\ report'.failed = report.failed
    BY <1>8, <1>t DEF TextureOk, fs
  <2> QED
    BY <1>t, <1>f, <2>1, <2>2, <2>3, SparedFrame
<1>9. ASSUME TextureLost(w)
      PROVE  SparedInv'
  <2>1. Others(w) /\ task'[w].tries = 0
    BY <1>9, <1>t, IdleTask DEF MoveOf, Stays, Leaves, Anew
  <2>2. /\ past'.transient >= past.transient /\ past'.definite >= past.definite
        /\ Faults' <= MaxFaults /\ ~(past'.transient < Retries /\ past'.definite = 0)
    BY <1>9, <1>t, <1>f, GivesUpRight DEF TextureLost
  <2> QED
    BY <1>t, <2>1, <2>2, SparedFrame
<1>10. ASSUME ConvertFail(w)
      PROVE  SparedInv'
  <2>1. Others(w) /\ task'[w].tries = 0 /\ (task[w].whole => task'[w].whole)
    BY <1>10, <1>t, IdleTask DEF MoveOf, Stays, Leaves, Anew
  <2>2. /\ past'.transient = past.transient /\ past'.definite = past.definite + 1
        /\ Faults' = Faults + 1 /\ Faults < MaxFaults
    BY <1>10, <1>t, SufferRight DEF ConvertFail, Fail
  <2> QED
    BY <1>t, <1>f, <2>1, <2>2, SparedFrame
<1>11. ASSUME OpenTmp(w)
      PROVE  SparedInv'
  <2>1. Others(w) /\ task'[w].tries = 0 /\ (task[w].whole => task'[w].whole)
    BY <1>11, <1>t, IdleTask DEF MoveOf, Stays, Leaves, Anew
  <2>2. past' = past /\ Faults' = Faults
    BY <1>11 DEF OpenTmp, Faults
  <2>3. asset' = asset /\ report'.failed = report.failed
    BY <1>11, <1>t DEF OpenTmp
  <2> QED
    BY <1>t, <1>f, <2>1, <2>2, <2>3, SparedFrame
<1>12. ASSUME WriteTmp(w)
      PROVE  SparedInv'
  <2>1. Others(w) /\ task'[w].tries = 0 /\ (task[w].whole => task'[w].whole)
    BY <1>12, <1>t, IdleTask DEF MoveOf, Stays, Leaves, Anew
  <2>2. past' = past /\ Faults' = Faults
    BY <1>12 DEF WriteTmp, Faults
  <2>3. asset' = asset /\ report'.failed = report.failed
    BY <1>12, <1>t DEF WriteTmp
  <2> QED
    BY <1>t, <1>f, <2>1, <2>2, <2>3, SparedFrame
<1>13. ASSUME WriteTmpFail(w)
      PROVE  SparedInv'
  <2>1. Others(w) /\ task'[w].tries = 0 /\ (task[w].whole => task'[w].whole)
    BY <1>13, <1>t, IdleTask DEF MoveOf, Stays, Leaves, Anew
  <2>2. /\ past'.transient = past.transient /\ past'.definite = past.definite + 1
        /\ Faults' = Faults + 1 /\ Faults < MaxFaults
    BY <1>13, <1>t, SufferRight DEF WriteTmpFail, Fail
  <2> QED
    BY <1>t, <1>f, <2>1, <2>2, SparedFrame
<1>14. ASSUME Rename(w)
      PROVE  SparedInv'
  <2>1. Others(w) /\ task'[w].tries = 0 /\ (task[w].whole => task'[w].whole)
    BY <1>14, <1>t, IdleTask DEF MoveOf, Stays, Leaves, Anew
  <2>2. past' = past /\ Faults' = Faults
    BY <1>14 DEF Rename, Faults
  <2>3. /\ task[w].whole =>
             \A n \in Names : asset'[n] = "untextured" => asset[n] = "untextured"
        /\ report'.failed = report.failed
    <3>1. report'.failed = report.failed
      BY <1>14, <1>t, CountRight DEF Rename
    <3>2. Name(w) \in Names
      BY <1>14, <1>n DEF Rename, At
    <3>3. /\ \A n \in Names \ {Name(w)} : asset'[n] = asset[n]
          /\ task[w].whole => asset'[Name(w)] # "untextured"
      BY <1>14, <3>2 DEF Rename, Shape
    <3> QED
      BY <3>1, <3>3
  <2> QED
    BY <1>t, <1>f, <2>1, <2>2, <2>3, SparedFrame
<1>15. ASSUME OpenTwin(w)
      PROVE  SparedInv'
  <2>1. Others(w) /\ task'[w].tries = 0 /\ (task[w].whole => task'[w].whole)
    BY <1>15, <1>t, IdleTask DEF MoveOf, Stays, Leaves, Anew
  <2>2. past' = past /\ Faults' = Faults
    BY <1>15 DEF OpenTwin, Faults
  <2>3. asset' = asset /\ report'.failed = report.failed
    BY <1>15, <1>t DEF OpenTwin
  <2> QED
    BY <1>t, <1>f, <2>1, <2>2, <2>3, SparedFrame
<1>16. ASSUME WriteTwin(w)
      PROVE  SparedInv'
  <2>1. Others(w) /\ task'[w].tries = 0 /\ (task[w].whole => task'[w].whole)
    BY <1>16, <1>t, IdleTask DEF MoveOf, Stays, Leaves, Anew
  <2>2. past' = past /\ Faults' = Faults
    BY <1>16 DEF WriteTwin, Faults
  <2>3. asset' = asset /\ report'.failed = report.failed
    BY <1>16, <1>t, CountRight DEF WriteTwin
  <2> QED
    BY <1>t, <1>f, <2>1, <2>2, <2>3, SparedFrame
<1>17. ASSUME WriteTwinFail(w)
      PROVE  SparedInv'
  <2>1. Others(w) /\ task'[w].tries = 0 /\ (task[w].whole => task'[w].whole)
    BY <1>17, <1>t, IdleTask DEF MoveOf, Stays, Leaves, Anew
  <2>2. /\ past'.transient = past.transient /\ past'.definite = past.definite + 1
        /\ Faults' = Faults + 1 /\ Faults < MaxFaults
    BY <1>17, <1>t, SufferRight DEF WriteTwinFail, Fail
  <2> QED
    BY <1>t, <1>f, <2>1, <2>2, SparedFrame
<1>18. ASSUME OpenManifest(w)
      PROVE  SparedInv'
  <2>1. Others(w) /\ task'[w].tries = 0 /\ (task[w].whole => task'[w].whole)
    BY <1>18, <1>t, IdleTask DEF MoveOf, Stays, Leaves, Anew
  <2>2. past' = past /\ Faults' = Faults
    BY <1>18 DEF OpenManifest, Faults
  <2>3. asset' = asset /\ report'.failed = report.failed
    BY <1>18, <1>t DEF OpenManifest
  <2> QED
    BY <1>t, <1>f, <2>1, <2>2, <2>3, SparedFrame
<1>19. ASSUME WriteManifest(w)
      PROVE  SparedInv'
  <2>1. Others(w) /\ task'[w].tries = 0 /\ (task[w].whole => task'[w].whole)
    BY <1>19, <1>t, IdleTask DEF MoveOf, Stays, Leaves, Anew
  <2>2. past' = past /\ Faults' = Faults
    BY <1>19 DEF WriteManifest, Faults
  <2>3. asset' = asset /\ report'.failed = report.failed
    BY <1>19, <1>t DEF WriteManifest
  <2> QED
    BY <1>t, <1>f, <2>1, <2>2, <2>3, SparedFrame
<1>20. ASSUME WriteManifestFail(w)
      PROVE  SparedInv'
  <2>1. Others(w) /\ task'[w].tries = 0 /\ (task[w].whole => task'[w].whole)
    BY <1>20, <1>t, IdleTask DEF MoveOf, Stays, Leaves, Anew
  <2>2. /\ past'.transient = past.transient /\ past'.definite = past.definite + 1
        /\ Faults' = Faults + 1 /\ Faults < MaxFaults
    BY <1>20, <1>t, SufferRight DEF WriteManifestFail
  <2> QED
    BY <1>t, <1>f, <2>1, <2>2, SparedFrame
<1> QED
  BY <1>1, <1>2, <1>3, <1>4, <1>5, <1>6, <1>7, <1>8, <1>9, <1>10, <1>11, <1>12, <1>13,
     <1>14, <1>15, <1>16, <1>17, <1>18, <1>19, <1>20 DEF Work

LEMMA StepSpared ==
  ASSUME Shape, Ready, Rest, SparedInv, [Next]_vars
  PROVE  SparedInv'
<1>f. /\ past \in Histories /\ past.transient \in Nat /\ past.definite \in Nat /\ runs \in Nat
      /\ Faults \in Nat /\ MaxFaults \in Nat /\ Retries \in Nat /\ Retries > 0 /\ MaxRuns \in Nat
  BY RegenAssumption DEF Shape, Histories, Faults
<1>1. ASSUME NEW mode \in Modes, Start(mode) PROVE SparedInv'
  <2>1. /\ past'.transient = past.transient /\ past'.definite = past.definite /\ Faults' = Faults
        /\ runs' <= MaxRuns /\ task' = task /\ asset' = asset /\ report' = report
    BY <1>1, <1>f DEF Start, fs, Histories, Faults
  <2> QED
    BY <2>1 DEF SparedInv, Attempts, Bounded, Spared
<1>g. ASSUME Gone, past'.transient = past.transient, past'.definite = past.definite,
             Faults' <= MaxFaults
      PROVE  SparedInv'
  <2>1. \A w \in Threads : task'[w].tries = 0 /\ task'[w].whole
    BY <1>g, IdleTask DEF Gone
  <2>2. runs' = runs /\ asset' = asset /\ report'.failed = 0
    BY <1>g DEF Gone, NoReport
  <2> QED
    BY <1>f, <1>g, <2>1, <2>2 DEF SparedInv, Attempts, Bounded, Spared
<1>2. CASE Finish
  <2>1. past'.transient = past.transient /\ past'.definite = past.definite /\ Faults' = Faults
    BY <1>2, <1>f DEF Finish, Histories, Faults
  <2> QED
    BY <1>2, <1>g, <2>1 DEF Finish, SparedInv, Bounded
<1>3. CASE Kill
  <2>1. /\ past'.transient = past.transient /\ past'.definite = past.definite
        /\ Faults' = Faults + 1 /\ Faults < MaxFaults
    BY <1>3, <1>f, SufferRight DEF Kill
  <2> QED
    BY <1>3, <1>f, <1>g, <2>1 DEF Kill
<1>4. CASE UNCHANGED vars
  BY <1>4 DEF vars, fs, SparedInv, Attempts, Bounded, Spared, Faults
<1> QED
  BY <1>1, <1>2, <1>3, <1>4, WorkSpared DEF Next

-----------------------------------------------------------------------------
\* Twins.

LEMMA MirroredFrame ==
  ASSUME Shape, Mirrored, NEW w \in Threads, Others(w), Framed,
         past'.definite = 0 => past.definite = 0,
         past'.definite = 0 /\ past.kills = 0 /\ ~past.plain =>
           \A n \in Names : twin'[n] # asset'[n] =>
             \/ task'[w].pc \in {"twin", "twinning"} /\ Name(w)' = n
             \/ twin[n] # asset[n] /\ ~(task[w].pc \in {"twin", "twinning"} /\ Name(w) = n)
  PROVE  Mirrored'
<1> SUFFICES ASSUME past'.kills = 0, past'.definite = 0, ~past'.plain
             PROVE  /\ run' # Nil => run'.compress
                    /\ \A n \in Names : twin'[n] # asset'[n] =>
                         \E v \in Threads : task'[v].pc \in {"twin", "twinning"} /\ Name(v)' = n
  BY DEF Mirrored
<1>1. past.kills = 0 /\ past.definite = 0 /\ ~past.plain /\ run' = run
  BY DEF Framed
<1>2. ASSUME NEW n \in Names, twin'[n] # asset'[n],
             ~(task'[w].pc \in {"twin", "twinning"} /\ Name(w)' = n)
      PROVE  \E v \in Threads : task'[v].pc \in {"twin", "twinning"} /\ Name(v)' = n
  <2>1. twin[n] # asset[n] /\ ~(task[w].pc \in {"twin", "twinning"} /\ Name(w) = n)
    BY <1>1, <1>2
  <2>2. PICK v \in Threads : task[v].pc \in {"twin", "twinning"} /\ Name(v) = n
    BY <1>1, <2>1 DEF Mirrored
  <2>3. v # w
    BY <2>1, <2>2
  <2>4. task'[v] = task[v] /\ Name(v)' = Name(v)
    BY <2>3, NameKept DEF Others
  <2> QED
    BY <2>2, <2>4
<1> QED
  BY <1>1, <1>2 DEF Mirrored

LEMMA WorkMirrored ==
  ASSUME Shape, Ready, Mirrored, NEW w \in Threads, Work(w)
  PROVE  Mirrored'
<1>t. /\ TaskShape /\ MoveOf(w) /\ Framed /\ past \in Histories
  BY RegenAssumption, Moves, WorkShape DEF Shape
<1>n. task[w].pc # "idle" => Name(w) \in Names
  BY <1>t, NameTyped
<1>f. past.transient \in Nat /\ past.definite \in Nat
  BY <1>t DEF Histories
<1>1. ASSUME NEW e \in Entities, Take(w, e)
      PROVE  Mirrored'
  <2>1. Others(w)
    BY <1>1, <1>t DEF MoveOf, Stays, Leaves
  <2>2. past'.definite = past.definite
    BY <1>1 DEF Take
  <2>3. twin' = twin /\ asset' = asset /\ task[w].pc \notin {"twin", "twinning"}
    BY <1>1 DEF Take, At, fs
  <2> QED
    BY <1>t, <2>1, <2>2, <2>3, MirroredFrame
<1>2. ASSUME Retry(w, "plan")
      PROVE  Mirrored'
  <2>1. Others(w)
    BY <1>2, <1>t DEF MoveOf, Stays, Leaves
  <2>2. past'.definite = past.definite
    BY <1>2, <1>t, SufferRight DEF Retry
  <2>3. twin' = twin /\ asset' = asset /\ task[w].pc \notin {"twin", "twinning"}
    BY <1>2 DEF Retry, At, fs
  <2> QED
    BY <1>t, <2>1, <2>2, <2>3, MirroredFrame
<1>3. ASSUME PlanFail(w)
      PROVE  Mirrored'
  <2>1. Others(w)
    BY <1>3, <1>t DEF MoveOf, Stays, Leaves
  <2>2. past'.definite = 0 => past.definite = 0
    BY <1>3, <1>t, <1>f, GivesUpRight DEF PlanFail
  <2>3. twin' = twin /\ asset' = asset /\ task[w].pc \notin {"twin", "twinning"}
    BY <1>3 DEF PlanFail, At, fs
  <2> QED
    BY <1>t, <2>1, <2>2, <2>3, MirroredFrame
<1>4. ASSUME PlanOk(w)
      PROVE  Mirrored'
  <2>1. Others(w)
    BY <1>4, <1>t DEF MoveOf, Stays, Leaves
  <2>2. past'.definite = past.definite
    BY <1>4 DEF PlanOk
  <2>3. twin' = twin /\ asset' = asset /\ task[w].pc \notin {"twin", "twinning"}
    BY <1>4 DEF PlanOk, At, fs
  <2> QED
    BY <1>t, <2>1, <2>2, <2>3, MirroredFrame
<1>5. ASSUME Check(w)
      PROVE  Mirrored'
  <2>1. Others(w)
    BY <1>5, <1>t DEF MoveOf, Stays, Leaves
  <2>2. past'.definite = past.definite
    BY <1>5 DEF Check
  <2>3. twin' = twin /\ asset' = asset /\ task[w].pc \notin {"twin", "twinning"}
    BY <1>5 DEF Check, At, fs
  <2> QED
    BY <1>t, <2>1, <2>2, <2>3, MirroredFrame
<1>6. ASSUME Claim(w)
      PROVE  Mirrored'
  <2>1. Others(w)
    BY <1>6, <1>t DEF MoveOf, Stays, Leaves
  <2>2. past'.definite = past.definite
    BY <1>6 DEF Claim
  <2>3. twin' = twin /\ asset' = asset /\ task[w].pc \notin {"twin", "twinning"}
    BY <1>6 DEF Claim, At, fs
  <2> QED
    BY <1>t, <2>1, <2>2, <2>3, MirroredFrame
<1>7. ASSUME Retry(w, "texture")
      PROVE  Mirrored'
  <2>1. Others(w)
    BY <1>7, <1>t DEF MoveOf, Stays, Leaves
  <2>2. past'.definite = past.definite
    BY <1>7, <1>t, SufferRight DEF Retry
  <2>3. twin' = twin /\ asset' = asset /\ task[w].pc \notin {"twin", "twinning"}
    BY <1>7 DEF Retry, At, fs
  <2> QED
    BY <1>t, <2>1, <2>2, <2>3, MirroredFrame
<1>8. ASSUME TextureOk(w)
      PROVE  Mirrored'
  <2>1. Others(w)
    BY <1>8, <1>t DEF MoveOf, Stays, Leaves
  <2>2. past'.definite = past.definite
    BY <1>8 DEF TextureOk
  <2>3. twin' = twin /\ asset' = asset /\ task[w].pc \notin {"twin", "twinning"}
    BY <1>8 DEF TextureOk, At, fs
  <2> QED
    BY <1>t, <2>1, <2>2, <2>3, MirroredFrame
<1>9. ASSUME TextureLost(w)
      PROVE  Mirrored'
  <2>1. Others(w)
    BY <1>9, <1>t DEF MoveOf, Stays, Leaves
  <2>2. past'.definite = 0 => past.definite = 0
    BY <1>9, <1>t, <1>f, GivesUpRight DEF TextureLost
  <2>3. twin' = twin /\ asset' = asset /\ task[w].pc \notin {"twin", "twinning"}
    BY <1>9 DEF TextureLost, At, fs
  <2> QED
    BY <1>t, <2>1, <2>2, <2>3, MirroredFrame
<1>10. ASSUME ConvertFail(w)
      PROVE  Mirrored'
  <2>1. Others(w)
    BY <1>10, <1>t DEF MoveOf, Leaves
  <2>2. past'.definite # 0
    BY <1>10, <1>t, <1>f, SufferRight DEF ConvertFail, Fail
  <2> QED
    BY <1>t, <2>1, <2>2, MirroredFrame
<1>11. ASSUME OpenTmp(w)
      PROVE  Mirrored'
  <2>1. Others(w)
    BY <1>11, <1>t DEF MoveOf, Stays, Leaves
  <2>2. past'.definite = past.definite
    BY <1>11 DEF OpenTmp
  <2>3. twin' = twin /\ asset' = asset /\ task[w].pc \notin {"twin", "twinning"}
    BY <1>11 DEF OpenTmp, At
  <2> QED
    BY <1>t, <2>1, <2>2, <2>3, MirroredFrame
<1>12. ASSUME WriteTmp(w)
      PROVE  Mirrored'
  <2>1. Others(w)
    BY <1>12, <1>t DEF MoveOf, Stays, Leaves
  <2>2. past'.definite = past.definite
    BY <1>12 DEF WriteTmp
  <2>3. twin' = twin /\ asset' = asset /\ task[w].pc \notin {"twin", "twinning"}
    BY <1>12 DEF WriteTmp, At
  <2> QED
    BY <1>t, <2>1, <2>2, <2>3, MirroredFrame
<1>13. ASSUME WriteTmpFail(w)
      PROVE  Mirrored'
  <2>1. Others(w)
    BY <1>13, <1>t DEF MoveOf, Leaves
  <2>2. past'.definite # 0
    BY <1>13, <1>t, <1>f, SufferRight DEF WriteTmpFail, Fail
  <2> QED
    BY <1>t, <2>1, <2>2, MirroredFrame
<1>14. ASSUME Rename(w)
      PROVE  Mirrored'
  <2>1. Others(w)
    BY <1>14, <1>t DEF MoveOf, Stays, Leaves
  <2>2. past'.definite = past.definite
    BY <1>14 DEF Rename
  <2>3. CASE past'.definite = 0 /\ past.kills = 0 /\ ~past.plain
    <3>1. run.compress /\ Name(w) \in Names
      BY <1>14, <1>n, <2>2, <2>3 DEF Mirrored, Rename, At
    <3>2. task'[w].pc = "twin" /\ Name(w)' = Name(w)
      BY <1>14, <1>t, <3>1, NameKept DEF MoveOf, Stays
    <3>3. \A n \in Names \ {Name(w)} : twin'[n] = twin[n] /\ asset'[n] = asset[n]
      BY <1>14, <3>1 DEF Rename, Shape
    <3>4. task[w].pc = "rename"
      BY <1>14 DEF Rename, At
    <3> QED
      BY <1>t, <2>1, <2>2, <3>2, <3>3, <3>4, MirroredFrame
  <2> QED
    BY <1>t, <2>1, <2>2, <2>3, MirroredFrame
<1>15. ASSUME OpenTwin(w)
      PROVE  Mirrored'
  <2>1. Others(w)
    BY <1>15, <1>t DEF MoveOf, Stays, Leaves
  <2>2. past'.definite = past.definite
    BY <1>15 DEF OpenTwin
  <2>3. task'[w].pc = "twinning" /\ Name(w)' = Name(w) /\ Name(w) \in Names
    BY <1>15, <1>t, <1>n, NameKept DEF MoveOf, Stays, OpenTwin, At
  <2>4. \A n \in Names \ {Name(w)} : twin'[n] = twin[n] /\ asset'[n] = asset[n]
    BY <1>15, <2>3 DEF OpenTwin, Shape
  <2> QED
    BY <1>t, <2>1, <2>2, <2>3, <2>4, MirroredFrame
<1>16. ASSUME WriteTwin(w)
      PROVE  Mirrored'
  <2>1. Others(w)
    BY <1>16, <1>t DEF MoveOf, Stays, Leaves
  <2>2. past'.definite = past.definite
    BY <1>16 DEF WriteTwin
  <2>3. Name(w) \in Names
    BY <1>16, <1>n DEF WriteTwin, At
  <2>4. /\ \A n \in Names \ {Name(w)} : twin'[n] = twin[n] /\ asset'[n] = asset[n]
        /\ twin'[Name(w)] = asset'[Name(w)]
    BY <1>16, <2>3 DEF WriteTwin, Shape
  <2> QED
    BY <1>t, <2>1, <2>2, <2>4, MirroredFrame
<1>17. ASSUME WriteTwinFail(w)
      PROVE  Mirrored'
  <2>1. Others(w)
    BY <1>17, <1>t DEF MoveOf, Leaves
  <2>2. past'.definite # 0
    BY <1>17, <1>t, <1>f, SufferRight DEF WriteTwinFail, Fail
  <2> QED
    BY <1>t, <2>1, <2>2, MirroredFrame
<1>18. ASSUME OpenManifest(w)
      PROVE  Mirrored'
  <2>1. Others(w)
    BY <1>18, <1>t DEF MoveOf, Stays, Leaves
  <2>2. past'.definite = past.definite
    BY <1>18 DEF OpenManifest
  <2>3. twin' = twin /\ asset' = asset /\ task[w].pc \notin {"twin", "twinning"}
    BY <1>18 DEF OpenManifest, At
  <2> QED
    BY <1>t, <2>1, <2>2, <2>3, MirroredFrame
<1>19. ASSUME WriteManifest(w)
      PROVE  Mirrored'
  <2>1. Others(w)
    BY <1>19, <1>t DEF MoveOf, Stays, Leaves
  <2>2. past'.definite = past.definite
    BY <1>19 DEF WriteManifest
  <2>3. twin' = twin /\ asset' = asset /\ task[w].pc \notin {"twin", "twinning"}
    BY <1>19 DEF WriteManifest, At
  <2> QED
    BY <1>t, <2>1, <2>2, <2>3, MirroredFrame
<1>20. ASSUME WriteManifestFail(w)
      PROVE  Mirrored'
  <2>1. Others(w)
    BY <1>20, <1>t DEF MoveOf, Leaves
  <2>2. past'.definite # 0
    BY <1>20, <1>t, <1>f, SufferRight DEF WriteManifestFail
  <2> QED
    BY <1>t, <2>1, <2>2, MirroredFrame
<1> QED
  BY <1>1, <1>2, <1>3, <1>4, <1>5, <1>6, <1>7, <1>8, <1>9, <1>10, <1>11, <1>12, <1>13,
     <1>14, <1>15, <1>16, <1>17, <1>18, <1>19, <1>20 DEF Work

LEMMA StepMirrored ==
  ASSUME Shape, Ready, Rest, Mirrored, [Next]_vars
  PROVE  Mirrored'
<1>f. past \in Histories /\ past.kills \in Nat
  BY DEF Shape, Histories
<1>1. ASSUME NEW mode \in Modes, Start(mode) PROVE Mirrored'
  <2>1. /\ past'.kills = past.kills /\ past'.definite = past.definite
        /\ ~past'.plain => ~past.plain /\ mode.compress
        /\ task' = task /\ asset' = asset /\ twin' = twin /\ run' = mode
    BY <1>1, <1>f DEF Start, fs, Histories
  <2> QED
    BY <2>1 DEF Mirrored, Name
<1>2. CASE Finish
  <2>1. /\ past'.kills = past.kills /\ past'.definite = past.definite /\ past'.plain = past.plain
        /\ asset' = asset /\ twin' = twin /\ run' = Nil
    BY <1>2, <1>f DEF Finish, Gone, Histories
  <2>2. \A w \in Threads : task[w].pc \notin {"twin", "twinning"}
    BY <1>2 DEF Finish
  <2> QED
    BY <2>1, <2>2 DEF Mirrored
<1>3. CASE Kill
  <2>1. past'.kills # 0
    BY <1>3, <1>f, SufferRight DEF Kill
  <2> QED
    BY <2>1 DEF Mirrored
<1>4. CASE UNCHANGED vars
  BY <1>4 DEF vars, fs, Mirrored, Name
<1> QED
  BY <1>1, <1>2, <1>3, <1>4, WorkMirrored DEF Next

-----------------------------------------------------------------------------
\* The workers share the entities out, and a dry run only plans.

LEMMA ApartFrame ==
  ASSUME Shape, Apart, DryPlans, NEW w \in Threads, Others(w), Framed, todo' = todo,
         task'[w] = Idle \/ (task'[w].ent = task[w].ent /\ task[w].pc # "idle"),
         run.dry => task'[w].pc \in {"idle", "plan"}
  PROVE  Apart' /\ DryPlans'
<1>1. /\ \A v \in Threads \ {w} : task'[v] = task[v]
      /\ \A v \in Threads : task[v].pc # "idle" => task[v].ent \in Entities
  BY DEF Shape, TaskShape, Others
<1>2. ASSUME NEW v \in Threads, task'[v].pc # "idle"
      PROVE  task[v].pc # "idle" /\ task'[v].ent = task[v].ent
  BY <1>1, <1>2, IdleTask
<1>3. \A v \in Threads : task'[v].ent = task[v].ent \/ task'[v].ent = Nil
  BY <1>1, IdleTask
<1>4. Apart'
  <2>1. \A v \in Threads : task'[v].pc # "idle" => task'[v].ent \notin todo'
    BY <1>2 DEF Apart
  <2>2. ASSUME NEW u \in Threads, NEW v \in Threads, u # v, task'[u].pc # "idle"
        PROVE  task'[u].ent # task'[v].ent
    <3>1. task[u].pc # "idle" /\ task'[u].ent = task[u].ent
      BY <1>2, <2>2
    <3>2. task[u].ent # task[v].ent /\ task[u].ent # Nil
      BY <1>1, <2>2, <3>1, RegenAssumption DEF Apart
    <3> QED
      BY <1>3, <3>1, <3>2
  <2> QED
    BY <2>1, <2>2 DEF Apart
<1>5. DryPlans'
  BY <1>1 DEF DryPlans, Framed
<1> QED
  BY <1>4, <1>5

LEMMA WorkApart ==
  ASSUME Shape, Ready, Apart, DryPlans, NEW w \in Threads, Work(w)
  PROVE  Apart' /\ DryPlans'
<1>t. TaskShape /\ MoveOf(w) /\ Framed
  BY RegenAssumption, Moves, WorkShape DEF Shape
<1>d. run # Nil /\ run.dry => task[w].pc \in {"idle", "plan"}
  BY DEF DryPlans
<1>1. ASSUME NEW e \in Entities, Take(w, e)
      PROVE  Apart' /\ DryPlans'
  <2>1. /\ Others(w) /\ todo' = todo \ {e} /\ e \in todo /\ task[w].pc = "idle" /\ run # Nil
        /\ task'[w] = Idle \/ (task'[w].ent = e /\ task'[w].pc = "plan")
    BY <1>1, <1>t DEF MoveOf, Take, At
  <2>2. \A v \in Threads : task[v].pc # "idle" => task[v].ent \in Entities
    BY <1>t DEF TaskShape
  <2>3. \A v \in Threads : task'[v].pc # "idle" => task'[v].ent \notin todo'
    BY <2>1, IdleTask DEF Apart, Others
  <2>4. ASSUME NEW u \in Threads, NEW v \in Threads, u # v, task'[u].pc # "idle"
        PROVE  task'[u].ent # task'[v].ent
    <3>1. CASE u = w
      <4>1. task'[u].ent = e /\ task'[v] = task[v]
        BY <2>1, <2>4, <3>1, IdleTask DEF Others
      <4>2. task[v].pc = "idle" => task[v].ent = Nil
        BY <1>t, IdleTask DEF TaskShape
      <4> QED
        BY <2>1, <4>1, <4>2, RegenAssumption DEF Apart
    <3>2. CASE u # w
      <4>1. task'[u] = task[u]
        BY <2>1, <3>2 DEF Others
      <4>2. task[u].ent \in Entities \ todo
        BY <2>2, <2>4, <4>1 DEF Apart
      <4>3. CASE v = w
        BY <2>1, <4>1, <4>2, <4>3, IdleTask, RegenAssumption
      <4>4. CASE v # w
        BY <2>1, <2>4, <4>1, <4>4 DEF Apart, Others
      <4> QED
        BY <4>3, <4>4
    <3> QED
      BY <3>1, <3>2
  <2>5. DryPlans'
    BY <1>t, <2>1, IdleTask DEF DryPlans, Framed, Others
  <2> QED
    BY <2>3, <2>4, <2>5 DEF Apart
<1>2. ASSUME Retry(w, "plan")
      PROVE  Apart' /\ DryPlans'
  <2>1. Others(w) /\ (task'[w] = Idle \/ task'[w].ent = task[w].ent)
    BY <1>2, <1>t DEF MoveOf, Stays, Leaves
  <2>2. todo' = todo /\ run # Nil /\ task[w].pc # "idle"
    BY <1>2 DEF Retry, At
  <2>3. run.dry => task'[w].pc \in {"idle", "plan"}
    BY <1>2, <1>t, <1>d, IdleTask DEF MoveOf, Stays, Leaves, Retry, At
  <2> QED
    BY <1>t, <2>1, <2>2, <2>3, ApartFrame
<1>3. ASSUME PlanFail(w)
      PROVE  Apart' /\ DryPlans'
  <2>1. Others(w) /\ (task'[w] = Idle \/ task'[w].ent = task[w].ent)
    BY <1>3, <1>t DEF MoveOf, Stays, Leaves
  <2>2. todo' = todo /\ run # Nil /\ task[w].pc # "idle"
    BY <1>3 DEF PlanFail, At
  <2>3. run.dry => task'[w].pc \in {"idle", "plan"}
    BY <1>3, <1>t, <1>d, IdleTask DEF MoveOf, Stays, Leaves, PlanFail, At
  <2> QED
    BY <1>t, <2>1, <2>2, <2>3, ApartFrame
<1>4. ASSUME PlanOk(w)
      PROVE  Apart' /\ DryPlans'
  <2>1. Others(w) /\ (task'[w] = Idle \/ task'[w].ent = task[w].ent)
    BY <1>4, <1>t DEF MoveOf, Stays, Leaves
  <2>2. todo' = todo /\ run # Nil /\ task[w].pc # "idle"
    BY <1>4 DEF PlanOk, At
  <2>3. run.dry => task'[w].pc \in {"idle", "plan"}
    BY <1>4, <1>t, <1>d, IdleTask DEF MoveOf, Stays, Leaves, PlanOk, At
  <2> QED
    BY <1>t, <2>1, <2>2, <2>3, ApartFrame
<1>5. ASSUME Check(w)
      PROVE  Apart' /\ DryPlans'
  <2>1. Others(w) /\ (task'[w] = Idle \/ task'[w].ent = task[w].ent)
    BY <1>5, <1>t DEF MoveOf, Stays, Leaves
  <2>2. todo' = todo /\ run # Nil /\ task[w].pc # "idle"
    BY <1>5 DEF Check, At
  <2>3. run.dry => task'[w].pc \in {"idle", "plan"}
    BY <1>5, <1>t, <1>d, IdleTask DEF MoveOf, Stays, Leaves, Check, At
  <2> QED
    BY <1>t, <2>1, <2>2, <2>3, ApartFrame
<1>6. ASSUME Claim(w)
      PROVE  Apart' /\ DryPlans'
  <2>1. Others(w) /\ (task'[w] = Idle \/ task'[w].ent = task[w].ent)
    BY <1>6, <1>t DEF MoveOf, Stays, Leaves
  <2>2. todo' = todo /\ run # Nil /\ task[w].pc # "idle"
    BY <1>6 DEF Claim, At
  <2>3. run.dry => task'[w].pc \in {"idle", "plan"}
    BY <1>6, <1>t, <1>d, IdleTask DEF MoveOf, Stays, Leaves, Claim, At
  <2> QED
    BY <1>t, <2>1, <2>2, <2>3, ApartFrame
<1>7. ASSUME Retry(w, "texture")
      PROVE  Apart' /\ DryPlans'
  <2>1. Others(w) /\ (task'[w] = Idle \/ task'[w].ent = task[w].ent)
    BY <1>7, <1>t DEF MoveOf, Stays, Leaves
  <2>2. todo' = todo /\ run # Nil /\ task[w].pc # "idle"
    BY <1>7 DEF Retry, At
  <2>3. run.dry => task'[w].pc \in {"idle", "plan"}
    BY <1>7, <1>t, <1>d, IdleTask DEF MoveOf, Stays, Leaves, Retry, At
  <2> QED
    BY <1>t, <2>1, <2>2, <2>3, ApartFrame
<1>8. ASSUME TextureOk(w)
      PROVE  Apart' /\ DryPlans'
  <2>1. Others(w) /\ (task'[w] = Idle \/ task'[w].ent = task[w].ent)
    BY <1>8, <1>t DEF MoveOf, Stays, Leaves
  <2>2. todo' = todo /\ run # Nil /\ task[w].pc # "idle"
    BY <1>8 DEF TextureOk, At
  <2>3. run.dry => task'[w].pc \in {"idle", "plan"}
    BY <1>8, <1>t, <1>d, IdleTask DEF MoveOf, Stays, Leaves, TextureOk, At
  <2> QED
    BY <1>t, <2>1, <2>2, <2>3, ApartFrame
<1>9. ASSUME TextureLost(w)
      PROVE  Apart' /\ DryPlans'
  <2>1. Others(w) /\ (task'[w] = Idle \/ task'[w].ent = task[w].ent)
    BY <1>9, <1>t DEF MoveOf, Stays, Leaves
  <2>2. todo' = todo /\ run # Nil /\ task[w].pc # "idle"
    BY <1>9 DEF TextureLost, At
  <2>3. run.dry => task'[w].pc \in {"idle", "plan"}
    BY <1>9, <1>t, <1>d, IdleTask DEF MoveOf, Stays, Leaves, TextureLost, At
  <2> QED
    BY <1>t, <2>1, <2>2, <2>3, ApartFrame
<1>10. ASSUME ConvertFail(w)
      PROVE  Apart' /\ DryPlans'
  <2>1. Others(w) /\ (task'[w] = Idle \/ task'[w].ent = task[w].ent)
    BY <1>10, <1>t DEF MoveOf, Stays, Leaves
  <2>2. todo' = todo /\ run # Nil /\ task[w].pc # "idle"
    BY <1>10 DEF ConvertFail, At, Fail
  <2>3. run.dry => task'[w].pc \in {"idle", "plan"}
    BY <1>10, <1>t, <1>d, IdleTask DEF MoveOf, Stays, Leaves, ConvertFail, At
  <2> QED
    BY <1>t, <2>1, <2>2, <2>3, ApartFrame
<1>11. ASSUME OpenTmp(w)
      PROVE  Apart' /\ DryPlans'
  <2>1. Others(w) /\ (task'[w] = Idle \/ task'[w].ent = task[w].ent)
    BY <1>11, <1>t DEF MoveOf, Stays, Leaves
  <2>2. todo' = todo /\ run # Nil /\ task[w].pc # "idle"
    BY <1>11 DEF OpenTmp, At
  <2>3. run.dry => task'[w].pc \in {"idle", "plan"}
    BY <1>11, <1>t, <1>d, IdleTask DEF MoveOf, Stays, Leaves, OpenTmp, At
  <2> QED
    BY <1>t, <2>1, <2>2, <2>3, ApartFrame
<1>12. ASSUME WriteTmp(w)
      PROVE  Apart' /\ DryPlans'
  <2>1. Others(w) /\ (task'[w] = Idle \/ task'[w].ent = task[w].ent)
    BY <1>12, <1>t DEF MoveOf, Stays, Leaves
  <2>2. todo' = todo /\ run # Nil /\ task[w].pc # "idle"
    BY <1>12 DEF WriteTmp, At
  <2>3. run.dry => task'[w].pc \in {"idle", "plan"}
    BY <1>12, <1>t, <1>d, IdleTask DEF MoveOf, Stays, Leaves, WriteTmp, At
  <2> QED
    BY <1>t, <2>1, <2>2, <2>3, ApartFrame
<1>13. ASSUME WriteTmpFail(w)
      PROVE  Apart' /\ DryPlans'
  <2>1. Others(w) /\ (task'[w] = Idle \/ task'[w].ent = task[w].ent)
    BY <1>13, <1>t DEF MoveOf, Stays, Leaves
  <2>2. todo' = todo /\ run # Nil /\ task[w].pc # "idle"
    BY <1>13 DEF WriteTmpFail, At, Fail
  <2>3. run.dry => task'[w].pc \in {"idle", "plan"}
    BY <1>13, <1>t, <1>d, IdleTask DEF MoveOf, Stays, Leaves, WriteTmpFail, At
  <2> QED
    BY <1>t, <2>1, <2>2, <2>3, ApartFrame
<1>14. ASSUME Rename(w)
      PROVE  Apart' /\ DryPlans'
  <2>1. Others(w) /\ (task'[w] = Idle \/ task'[w].ent = task[w].ent)
    BY <1>14, <1>t DEF MoveOf, Stays, Leaves
  <2>2. todo' = todo /\ run # Nil /\ task[w].pc # "idle"
    BY <1>14 DEF Rename, At
  <2>3. run.dry => task'[w].pc \in {"idle", "plan"}
    BY <1>14, <1>t, <1>d, IdleTask DEF MoveOf, Stays, Leaves, Rename, At
  <2> QED
    BY <1>t, <2>1, <2>2, <2>3, ApartFrame
<1>15. ASSUME OpenTwin(w)
      PROVE  Apart' /\ DryPlans'
  <2>1. Others(w) /\ (task'[w] = Idle \/ task'[w].ent = task[w].ent)
    BY <1>15, <1>t DEF MoveOf, Stays, Leaves
  <2>2. todo' = todo /\ run # Nil /\ task[w].pc # "idle"
    BY <1>15 DEF OpenTwin, At
  <2>3. run.dry => task'[w].pc \in {"idle", "plan"}
    BY <1>15, <1>t, <1>d, IdleTask DEF MoveOf, Stays, Leaves, OpenTwin, At
  <2> QED
    BY <1>t, <2>1, <2>2, <2>3, ApartFrame
<1>16. ASSUME WriteTwin(w)
      PROVE  Apart' /\ DryPlans'
  <2>1. Others(w) /\ (task'[w] = Idle \/ task'[w].ent = task[w].ent)
    BY <1>16, <1>t DEF MoveOf, Stays, Leaves
  <2>2. todo' = todo /\ run # Nil /\ task[w].pc # "idle"
    BY <1>16 DEF WriteTwin, At
  <2>3. run.dry => task'[w].pc \in {"idle", "plan"}
    BY <1>16, <1>t, <1>d, IdleTask DEF MoveOf, Stays, Leaves, WriteTwin, At
  <2> QED
    BY <1>t, <2>1, <2>2, <2>3, ApartFrame
<1>17. ASSUME WriteTwinFail(w)
      PROVE  Apart' /\ DryPlans'
  <2>1. Others(w) /\ (task'[w] = Idle \/ task'[w].ent = task[w].ent)
    BY <1>17, <1>t DEF MoveOf, Stays, Leaves
  <2>2. todo' = todo /\ run # Nil /\ task[w].pc # "idle"
    BY <1>17 DEF WriteTwinFail, At, Fail
  <2>3. run.dry => task'[w].pc \in {"idle", "plan"}
    BY <1>17, <1>t, <1>d, IdleTask DEF MoveOf, Stays, Leaves, WriteTwinFail, At
  <2> QED
    BY <1>t, <2>1, <2>2, <2>3, ApartFrame
<1>18. ASSUME OpenManifest(w)
      PROVE  Apart' /\ DryPlans'
  <2>1. Others(w) /\ (task'[w] = Idle \/ task'[w].ent = task[w].ent)
    BY <1>18, <1>t DEF MoveOf, Stays, Leaves
  <2>2. todo' = todo /\ run # Nil /\ task[w].pc # "idle"
    BY <1>18 DEF OpenManifest, At
  <2>3. run.dry => task'[w].pc \in {"idle", "plan"}
    BY <1>18, <1>t, <1>d, IdleTask DEF MoveOf, Stays, Leaves, OpenManifest, At
  <2> QED
    BY <1>t, <2>1, <2>2, <2>3, ApartFrame
<1>19. ASSUME WriteManifest(w)
      PROVE  Apart' /\ DryPlans'
  <2>1. Others(w) /\ (task'[w] = Idle \/ task'[w].ent = task[w].ent)
    BY <1>19, <1>t DEF MoveOf, Stays, Leaves
  <2>2. todo' = todo /\ run # Nil /\ task[w].pc # "idle"
    BY <1>19 DEF WriteManifest, At
  <2>3. run.dry => task'[w].pc \in {"idle", "plan"}
    BY <1>19, <1>t, <1>d, IdleTask DEF MoveOf, Stays, Leaves, WriteManifest, At
  <2> QED
    BY <1>t, <2>1, <2>2, <2>3, ApartFrame
<1>20. ASSUME WriteManifestFail(w)
      PROVE  Apart' /\ DryPlans'
  <2>1. Others(w) /\ (task'[w] = Idle \/ task'[w].ent = task[w].ent)
    BY <1>20, <1>t DEF MoveOf, Stays, Leaves
  <2>2. todo' = todo /\ run # Nil /\ task[w].pc # "idle"
    BY <1>20 DEF WriteManifestFail, At
  <2>3. run.dry => task'[w].pc \in {"idle", "plan"}
    BY <1>20, <1>t, <1>d, IdleTask DEF MoveOf, Stays, Leaves, WriteManifestFail, At
  <2> QED
    BY <1>t, <2>1, <2>2, <2>3, ApartFrame
<1> QED
  BY <1>1, <1>2, <1>3, <1>4, <1>5, <1>6, <1>7, <1>8, <1>9, <1>10, <1>11, <1>12, <1>13,
     <1>14, <1>15, <1>16, <1>17, <1>18, <1>19, <1>20 DEF Work

LEMMA StepApart ==
  ASSUME Shape, Ready, Rest, Apart, DryPlans, [Next]_vars
  PROVE  Apart' /\ DryPlans'
<1>1. ASSUME NEW mode \in Modes, Start(mode) PROVE Apart' /\ DryPlans'
  <2>1. task' = task /\ run = Nil /\ past'.ended = Nil
    BY <1>1 DEF Start, Shape, Histories
  <2>2. \A w \in Threads : task'[w].pc = "idle"
    BY <2>1, IdleTask DEF Rest
  <2> QED
    BY <2>1, <2>2 DEF Apart, DryPlans
<1>2. ASSUME Gone PROVE Apart' /\ DryPlans'
  <2>1. /\ run' = Nil /\ \A w \in Threads : task'[w].pc = "idle"
    BY <1>2, IdleTask DEF Gone
  <2> QED
    BY <2>1 DEF Apart, DryPlans
<1>3. CASE UNCHANGED vars
  BY <1>3 DEF vars, Apart, DryPlans
<1> QED
  BY <1>1, <1>2, <1>3, WorkApart DEF Next, Finish, Kill

-----------------------------------------------------------------------------
\* A run that counts no failure leaves nothing behind.

\* What a worker has listed is listed right and cared for.
Own(w) == task[w].pc # "idle" =>
            Listed(task[w]) /\ \A n \in task[w].names \ Undecided(task[w]) : Covered(n)

LEMMA CoveredStays ==
  ASSUME run' = run, claimed \subseteq claimed', unique \subseteq unique',
         \A n \in Names : asset[n] # "absent" => asset'[n] # "absent"
  PROVE  \A n \in Names : Covered(n) => Covered(n)'
BY DEF Covered

LEMMA PlannedRight ==
  ASSUME NEW e, NEW i \in Glbs(e)
  PROVE  /\ Planned(e) \subseteq Names /\ Planned(e) # {}
         /\ (\A j \in Glbs(e) : j <= i) => Before(e, i) \cup {Rows[i].name} = Planned(e)
         /\ \A k \in Glbs(e) : k > i /\ (\A j \in Glbs(e) : j > i => k <= j) =>
              Before(e, k) = Before(e, i) \cup {Rows[i].name}
<1>1. \A j \in Glbs(e) : j \in Nat /\ Rows[j].name \in Names
  BY GlbsRight
<1>2. Planned(e) \subseteq Names /\ Rows[i].name \in Planned(e)
  BY <1>1 DEF Planned
<1>3. ASSUME \A j \in Glbs(e) : j <= i
      PROVE  Before(e, i) \cup {Rows[i].name} = Planned(e)
  <2>1. \A j \in Glbs(e) : j < i \/ j = i
    BY <1>1, <1>3
  <2> QED
    BY <2>1 DEF Before, Planned
<1>4. ASSUME NEW k \in Glbs(e), k > i, \A j \in Glbs(e) : j > i => k <= j
      PROVE  Before(e, k) = Before(e, i) \cup {Rows[i].name}
  <2>1. \A j \in Glbs(e) : j < k <=> (j < i \/ j = i)
    BY <1>1, <1>4
  <2> QED
    BY <2>1 DEF Before
<1> QED
  BY <1>2, <1>3, <1>4

\* The worker goes on to its next glb with everything behind it covered, or ends
\* a dry run's entity.
LEMMA OwnLeaves ==
  ASSUME TaskShape, NEW w \in Threads, task[w].pc # "idle", NEW S, Leaves(w, S), run' = run,
         NEW e, e = task[w].ent, S = Before(e, task[w].at) \cup {Rows[task[w].at].name},
         \A n \in S : Covered(n)'
  PROVE  Own(w)' /\ (task'[w].ent = e \/ Done(e)')
<1> DEFINE i == task[w].at
<1>1. i \in Glbs(e) /\ e \in Entities
  BY DEF TaskShape
<1>2. \A j \in Glbs(e) : j \in Nat
  BY GlbsRight
<1>3. /\ Planned(e) # {} /\ ((\A j \in Glbs(e) : j <= i) => S = Planned(e))
      /\ \A k \in Glbs(e) : k > i /\ (\A j \in Glbs(e) : j > i => k <= j) => Before(e, k) = S
  BY <1>1, PlannedRight
<1>4. CASE Later(w) # {}
  <2>1. /\ task'[w].pc = "plan" /\ task'[w].ent = e /\ task'[w].at = Min(Later(w))
        /\ task'[w].names = S
    BY <1>4 DEF Leaves
  <2>2. Later(w) \in SUBSET Glbs(e)
    BY DEF Later
  <2>3. Min(Later(w)) \in Later(w) /\ \A j \in Later(w) : Min(Later(w)) <= j
    BY <1>4, <2>2, FirstGlb
  <2>4. Before(e, Min(Later(w))) = S
    <3>1. Min(Later(w)) \in Glbs(e) /\ Min(Later(w)) > i
      BY <2>3 DEF Later
    <3>2. \A j \in Glbs(e) : j > i => Min(Later(w)) <= j
      BY <2>3 DEF Later
    <3> QED
      BY <1>3, <3>1, <3>2
  <2> QED
    BY <2>1, <2>4 DEF Own, Listed
<1>5. CASE Later(w) = {}
  <2>1. \A j \in Glbs(e) : j <= i
    BY <1>1, <1>2, <1>5 DEF Later
  <2>2. S = Planned(e) /\ S # {}
    BY <1>3, <2>1
  <2>3. CASE run.dry
    <3>1. task'[w] = Idle
      BY <1>5, <2>2, <2>3 DEF Leaves
    <3>2. Done(e)'
      BY <2>2, <2>3 DEF Done
    <3> QED
      BY <3>1, <3>2, IdleTask DEF Own
  <2>4. CASE ~run.dry
    <3>1. task'[w].pc = "manifest" /\ task'[w].ent = e /\ task'[w].names = S
      BY <1>5, <2>2, <2>4 DEF Leaves
    <3> QED
      BY <2>2, <3>1 DEF Own, Listed
  <2> QED
    BY <2>3, <2>4
<1> QED
  BY <1>4, <1>5

LEMMA CleanFrame ==
  ASSUME Shape, Shape', Clean, Apart, NEW w \in Threads, Others(w), Framed, run # Nil,
         report.failed = 0,
         claimed \subseteq claimed', unique \subseteq unique', todo' = todo,
         \A n \in Names : asset[n] # "absent" => asset'[n] # "absent",
         report'.manifests = 0 => report.manifests = 0,
         task[w].pc # "idle", NEW e, e = task[w].ent, Own(w)', task'[w].ent = e \/ Done(e)',
         \A c \in Entities \ {e} : manifest'[c] = manifest[c],
         \A n \in claimed' :
           \/ asset'[n] # "absent"
           \/ n \in claimed /\ ~(task[w].pc \in Making /\ Name(w) = n)
           \/ task'[w].pc \in Making /\ Name(w)' = n
  PROVE  Clean'
<1>1. /\ \A v \in Threads : Own(v)
      /\ \A c \in Entities \ todo : (\E v \in Threads : task[v].ent = c) \/ Done(c)
      /\ \A n \in claimed : asset[n] # "absent" \/
           \E v \in Threads : task[v].pc \in Making /\ Name(v) = n
  BY DEF Clean, Own
<1>2. run' = run /\ claimed \subseteq Names
  BY DEF Framed, Shape
<1>3. \A n \in Names : Covered(n) => Covered(n)'
  BY <1>2, CoveredStays
<1>4. \A v \in Threads : Own(v)'
  <2> SUFFICES ASSUME NEW v \in Threads \ {w} PROVE Own(v)'
    OBVIOUS
  <2>1. task'[v] = task[v] /\ Own(v)
    BY <1>1 DEF Others
  <2>2. task[v].names \subseteq Names
    BY DEF Shape, TaskShape, Tasks
  <2> QED
    BY <1>3, <2>1, <2>2 DEF Own, Listed, Undecided
<1>5. ASSUME NEW c \in Entities \ todo
      PROVE  (\E v \in Threads : task'[v].ent = c) \/ Done(c)'
  <2>1. CASE c = e
    BY <2>1
  <2>2. CASE \E v \in Threads \ {w} : task[v].ent = c
    BY <2>2 DEF Others
  <2>3. CASE c # e /\ Done(c)
    <3>1. manifest'[c] = manifest[c]
      BY <2>3
    <3>2. \A n \in Planned(c) : n \in Names
      BY GlbsRight DEF Planned
    <3> QED
      BY <1>2, <1>3, <2>3, <3>1, <3>2 DEF Done
  <2> QED
    BY <1>1, <2>1, <2>2, <2>3
<1>6. ASSUME NEW n \in claimed'
      PROVE  asset'[n] # "absent" \/ \E v \in Threads : task'[v].pc \in Making /\ Name(v)' = n
  <2>1. CASE n \in claimed /\ ~(task[w].pc \in Making /\ Name(w) = n) /\ asset'[n] = "absent"
    <3>1. asset[n] = "absent"
      BY <1>2, <2>1
    <3>2. PICK v \in Threads : task[v].pc \in Making /\ Name(v) = n
      BY <1>1, <2>1, <3>1
    <3>3. task'[v] = task[v] /\ Name(v)' = Name(v)
      BY <2>1, <3>2, NameKept DEF Others
    <3> QED
      BY <3>2, <3>3
  <2> QED
    BY <2>1
<1> QED
  BY <1>4, <1>5, <1>6 DEF Clean, Own

LEMMA WorkClean ==
  ASSUME Shape, Ready, Clean, Apart, DryPlans, NEW w \in Threads, Work(w)
  PROVE  Clean'
<1> SUFFICES ASSUME report'.failed = 0 PROVE Clean'
  BY DEF Clean
<1>t. /\ TaskShape /\ TaskShape' /\ MoveOf(w) /\ Shape' /\ Framed /\ run' = run
      /\ report \in Reports /\ report.failed \in Nat /\ past \in Histories
  BY RegenAssumption, Moves, WorkShape DEF Shape, Framed, Reports
<1>n. task[w].pc # "idle" => Name(w) \in Names /\ task[w].names \subseteq Names
  <2>1. task[w].pc # "idle" => Name(w) \in Names /\ task[w] \in Tasks
    BY <1>t, NameTyped
  <2> QED
    BY <2>1 DEF Tasks
<1>o. run # Nil /\ report.failed = 0 => Own(w)
  BY DEF Clean, Own
<1>d. run # Nil /\ run.dry => task[w].pc \in {"idle", "plan"}
  BY DEF DryPlans
<1>e. PICK c, n : c = task[w].ent /\ n = Name(w)
  OBVIOUS
<1>1. ASSUME NEW e \in Entities, Take(w, e)
      PROVE  Clean'
  <2>1. /\ Others(w) /\ todo' = todo \ {e} /\ e \in todo /\ task[w].pc = "idle" /\ run # Nil
        /\ claimed' = claimed /\ unique' = unique /\ report' = report /\ asset' = asset
        /\ manifest' = manifest
    BY <1>1, <1>t, <1>e DEF MoveOf, Take, At, fs
  <2>2. /\ \A v \in Threads : Own(v)
        /\ \A d \in Entities \ todo : (\E v \in Threads : task[v].ent = d) \/ Done(d)
        /\ \A m \in claimed : asset[m] # "absent" \/
             \E v \in Threads : task[v].pc \in Making /\ Name(v) = m
    BY <2>1 DEF Clean, Own
  <2>3. task[w].ent = Nil /\ task[w].pc \notin Making
    BY <1>t, <1>e, <2>1, IdleTask DEF TaskShape, Making
  <2>4. \A v \in Threads \ {w} : task'[v] = task[v] /\ Name(v)' = Name(v)
    BY <2>1, NameKept DEF Others
  <2>5. (\A m : Covered(m)' = Covered(m)) /\ \A d : Done(d)' = Done(d)
    BY <1>t, <1>e, <2>1 DEF Covered, Done
  <2>6. Own(w)' /\ (task'[w].ent = e \/ Done(e))
    <3>1. CASE Glbs(e) = {}
      <4>1. task'[w] = Idle /\ Planned(e) = {}
        BY <1>1, <1>t, <1>e, <3>1 DEF MoveOf, Planned
      <4> QED
        BY <4>1, IdleTask DEF Own, Done
    <3>2. CASE Glbs(e) # {}
      <4>1. /\ task'[w].pc = "plan" /\ task'[w].ent = e /\ task'[w].at = Min(Glbs(e))
            /\ task'[w].names = {}
        BY <1>1, <1>t, <1>e, <3>2 DEF MoveOf
      <4>2. \A j \in Glbs(e) : Min(Glbs(e)) <= j /\ j \in Nat
        BY <3>2, FirstGlb, GlbsRight
      <4>3. Min(Glbs(e)) \in Nat
        BY <3>2, FirstGlb, GlbsRight
      <4>4. Before(e, Min(Glbs(e))) = {}
        BY <4>2, <4>3 DEF Before
      <4> QED
        BY <4>1, <4>4 DEF Own, Listed
    <3> QED
      BY <3>1, <3>2
  <2>7. \A v \in Threads : Own(v)'
    BY <2>2, <2>4, <2>5, <2>6 DEF Own
  <2>8. ASSUME NEW d \in Entities \ todo'
        PROVE  (\E v \in Threads : task'[v].ent = d) \/ Done(d)'
    <3>1. CASE d = e
      BY <2>5, <2>6, <3>1
    <3>2. CASE d # e
      <4>1. d \in Entities \ todo /\ d # Nil
        BY <2>1, <3>2, RegenAssumption
      <4> QED
        BY <2>2, <2>3, <2>4, <2>5, <4>1
    <3> QED
      BY <3>1, <3>2
  <2>9. \A m \in claimed' : asset'[m] # "absent" \/
             \E v \in Threads : task'[v].pc \in Making /\ Name(v)' = m
    BY <2>1, <2>2, <2>3, <2>4
  <2> QED
    BY <2>7, <2>8, <2>9 DEF Clean, Own
<1>2. ASSUME Retry(w, "plan")
      PROVE  Clean'
  <2>1. /\ run # Nil /\ todo' = todo /\ task[w].pc = "plan" /\ report' = report
        /\ claimed' = claimed /\ unique' = unique /\ asset' = asset
        /\ manifest' = manifest
    BY <1>2, <1>t, <1>e DEF Retry, At, fs
  <2>2. Stays(w, "plan", task[w].names) /\ Name(w)' = Name(w)
    BY <1>2, <1>t, <1>e, NameKept DEF MoveOf, Stays
  <2>3. Own(w)'
    <3>1. Own(w) /\ \A m : Covered(m)' = Covered(m)
      BY <1>o, <1>t, <1>e, <2>1 DEF Covered
    <3> QED
      BY <2>1, <2>2, <3>1 DEF Own, Stays, Listed, Undecided
  <2> QED
    BY <1>t, <1>e, <2>1, <2>2, <2>3, CleanFrame DEF Stays, Making
<1>3. ASSUME PlanFail(w)
      PROVE  Clean'
  <2>1. report'.failed = report.failed + 1
    BY <1>3, <1>t, <1>e, CountRight DEF PlanFail
  <2> QED
    BY <1>t, <1>e, <2>1
<1>4. ASSUME PlanOk(w)
      PROVE  Clean'
  <2>1. /\ run # Nil /\ todo' = todo /\ task[w].pc = "plan" /\ claimed' = claimed
        /\ asset' = asset /\ manifest' = manifest /\ unique \subseteq unique'
    BY <1>4 DEF PlanOk, At, fs
  <2>2. report.failed = 0 /\ report'.manifests = report.manifests
    BY <1>4, <1>t, <1>e DEF PlanOk, Reports
  <2>3. Own(w) /\ task[w].names \subseteq Names /\ Name(w) = Rows[task[w].at].name
    BY <1>n, <1>o, <2>1, <2>2 DEF Name
  <2>4. \A m \in Names : Covered(m) => Covered(m)'
    BY <1>t, <1>e, <2>1, CoveredStays
  <2>5. CASE run.dry
    <3>1. Leaves(w, task[w].names \cup {Name(w)}) /\ unique' = unique \cup {Name(w)}
      BY <1>4, <1>t, <1>e, <2>5 DEF MoveOf, PlanOk
    <3>2. /\ task[w].names \cup {Name(w)} =
               Before(c, task[w].at) \cup {Rows[task[w].at].name}
          /\ \A m \in task[w].names : Covered(m)
      BY <1>e, <2>1, <2>3 DEF Own, Listed, Undecided
    <3>3. Covered(n)'
      BY <1>t, <1>e, <2>5, <3>1 DEF Covered
    <3>4. \A m \in task[w].names \cup {Name(w)} : Covered(m)'
      BY <1>e, <2>3, <2>4, <3>2, <3>3
    <3>5. Own(w)' /\ (task'[w].ent = c \/ Done(c)')
      BY <1>t, <1>e, <2>1, <3>1, <3>2, <3>4, OwnLeaves
    <3> QED
      BY <1>t, <1>e, <2>1, <2>2, <3>1, <3>5, LeavesFree, CleanFrame DEF Making
  <2>6. CASE ~run.dry
    <3>1. Stays(w, "check", task[w].names \cup {Name(w)})
      BY <1>4, <1>t, <1>e, <2>6 DEF MoveOf
    <3>2. Own(w)'
      BY <2>1, <2>3, <2>4, <3>1 DEF Own, Stays, Listed, Undecided
    <3> QED
      BY <1>t, <1>e, <2>1, <2>2, <3>1, <3>2, CleanFrame DEF Stays, Making
  <2> QED
    BY <2>5, <2>6
<1>5. ASSUME Check(w)
      PROVE  Clean'
  <2>1. /\ run # Nil /\ todo' = todo /\ task[w].pc = "check" /\ claimed' = claimed
        /\ asset' = asset /\ manifest' = manifest /\ unique' = unique
    BY <1>5 DEF Check, At, fs
  <2>2. report.failed = 0 /\ report'.manifests = report.manifests
    BY <1>5, <1>t, <1>e, CountRight DEF Check
  <2>3. Own(w) /\ task[w].names \subseteq Names /\ Name(w) = Rows[task[w].at].name
    BY <1>n, <1>o, <2>1, <2>2 DEF Name
  <2>4. \A m : Covered(m)' = Covered(m)
    BY <1>t, <1>e, <2>1 DEF Covered
  <2>5. CASE ~run.force /\ asset[Name(w)] # "absent"
    <3>1. Leaves(w, task[w].names)
      BY <1>5, <1>t, <1>e, <2>5 DEF MoveOf
    <3>2. /\ task[w].names = Before(c, task[w].at) \cup {Rows[task[w].at].name}
          /\ \A m \in task[w].names \ {Name(w)} : Covered(m)
      BY <1>e, <2>1, <2>3 DEF Own, Listed, Undecided
    <3>3. Covered(Name(w))
      BY <1>d, <2>1, <2>5 DEF Covered
    <3>4. Own(w)' /\ (task'[w].ent = c \/ Done(c)')
      BY <1>t, <1>e, <2>1, <2>4, <3>1, <3>2, <3>3, OwnLeaves
    <3> QED
      BY <1>t, <1>e, <2>1, <2>2, <3>1, <3>4, LeavesFree, CleanFrame DEF Making
  <2>6. CASE ~(~run.force /\ asset[Name(w)] # "absent")
    <3>1. Stays(w, "claim", task[w].names)
      BY <1>5, <1>t, <1>e, <2>6 DEF MoveOf
    <3>2. Own(w)'
      BY <2>1, <2>3, <2>4, <3>1 DEF Own, Stays, Listed, Undecided
    <3> QED
      BY <1>t, <1>e, <2>1, <2>2, <3>1, <3>2, CleanFrame DEF Stays, Making
  <2> QED
    BY <2>5, <2>6
<1>6. ASSUME Claim(w)
      PROVE  Clean'
  <2>1. /\ run # Nil /\ todo' = todo /\ task[w].pc = "claim" /\ claimed \subseteq claimed'
        /\ asset' = asset /\ manifest' = manifest /\ unique' = unique
    BY <1>6 DEF Claim, At, fs
  <2>2. report.failed = 0 /\ report'.manifests = report.manifests
    BY <1>6, <1>t, <1>e, CountRight DEF Claim
  <2>3. Own(w) /\ task[w].names \subseteq Names /\ Name(w) = Rows[task[w].at].name /\ ~run.dry
    BY <1>n, <1>o, <1>d, <2>1, <2>2 DEF Name
  <2>4. \A m \in Names : Covered(m) => Covered(m)'
    BY <1>t, <1>e, <2>1, CoveredStays
  <2>5. /\ task[w].names = Before(c, task[w].at) \cup {Rows[task[w].at].name}
        /\ \A m \in task[w].names \ {Name(w)} : Covered(m)
    BY <1>e, <2>1, <2>3 DEF Own, Listed, Undecided
  <2>6. CASE Name(w) \in claimed
    <3>1. Leaves(w, task[w].names) /\ claimed' = claimed
      BY <1>6, <1>t, <1>e, <2>6 DEF MoveOf, Claim
    <3>2. Covered(n)'
      BY <1>t, <1>e, <2>3, <2>6, <3>1 DEF Covered
    <3>3. Own(w)' /\ (task'[w].ent = c \/ Done(c)')
      BY <1>t, <1>e, <2>1, <2>3, <2>4, <2>5, <3>1, <3>2, OwnLeaves
    <3> QED
      BY <1>t, <1>e, <2>1, <2>2, <3>1, <3>3, LeavesFree, CleanFrame DEF Making
  <2>7. CASE Name(w) \notin claimed
    <3>1. PICK p \in {"texture", "convert"} : Stays(w, p, task[w].names)
      BY <1>6, <1>t, <1>e, <2>7 DEF MoveOf
    <3>2. claimed' = claimed \cup {Name(w)} /\ Name(w)' = Name(w) /\ task'[w].pc \in Making
      BY <1>6, <2>7, <3>1, NameKept DEF Claim, Stays, Making
    <3>3. Covered(n)'
      BY <1>t, <1>e, <2>3, <3>2 DEF Covered
    <3>4. Own(w)'
      <4>1. \A m \in task[w].names : Covered(m)'
        BY <1>e, <2>3, <2>4, <2>5, <3>3
      <4> QED
        BY <1>e, <2>5, <3>1, <4>1 DEF Own, Stays, Listed
    <3> QED
      BY <1>t, <1>e, <2>1, <2>2, <3>1, <3>2, <3>4, CleanFrame DEF Stays, Making
  <2> QED
    BY <2>6, <2>7
<1>7. ASSUME Retry(w, "texture")
      PROVE  Clean'
  <2>1. /\ run # Nil /\ todo' = todo /\ task[w].pc = "texture" /\ report' = report
        /\ claimed' = claimed /\ unique' = unique /\ asset' = asset
        /\ manifest' = manifest
    BY <1>7, <1>t, <1>e DEF Retry, At, fs
  <2>2. Stays(w, "texture", task[w].names) /\ Name(w)' = Name(w)
    BY <1>7, <1>t, <1>e, NameKept DEF MoveOf, Stays
  <2>3. Own(w)'
    <3>1. Own(w) /\ \A m : Covered(m)' = Covered(m)
      BY <1>o, <1>t, <1>e, <2>1 DEF Covered
    <3> QED
      BY <2>1, <2>2, <3>1 DEF Own, Stays, Listed, Undecided
  <2> QED
    BY <1>t, <1>e, <2>1, <2>2, <2>3, CleanFrame DEF Stays, Making
<1>8. ASSUME TextureOk(w)
      PROVE  Clean'
  <2>1. /\ run # Nil /\ todo' = todo /\ task[w].pc = "texture" /\ report' = report
        /\ claimed' = claimed /\ unique' = unique /\ asset' = asset
        /\ manifest' = manifest
    BY <1>8, <1>t, <1>e DEF TextureOk, At, fs
  <2>2. Stays(w, "convert", task[w].names) /\ Name(w)' = Name(w)
    BY <1>8, <1>t, <1>e, NameKept DEF MoveOf, Stays
  <2>3. Own(w)'
    <3>1. Own(w) /\ \A m : Covered(m)' = Covered(m)
      BY <1>o, <1>t, <1>e, <2>1 DEF Covered
    <3> QED
      BY <2>1, <2>2, <3>1 DEF Own, Stays, Listed, Undecided
  <2> QED
    BY <1>t, <1>e, <2>1, <2>2, <2>3, CleanFrame DEF Stays, Making
<1>9. ASSUME TextureLost(w)
      PROVE  Clean'
  <2>1. /\ run # Nil /\ todo' = todo /\ task[w].pc = "texture" /\ report' = report
        /\ claimed' = claimed /\ unique' = unique /\ asset' = asset
        /\ manifest' = manifest
    BY <1>9, <1>t, <1>e DEF TextureLost, At, fs
  <2>2. Stays(w, "convert", task[w].names) /\ Name(w)' = Name(w)
    BY <1>9, <1>t, <1>e, NameKept DEF MoveOf, Stays
  <2>3. Own(w)'
    <3>1. Own(w) /\ \A m : Covered(m)' = Covered(m)
      BY <1>o, <1>t, <1>e, <2>1 DEF Covered
    <3> QED
      BY <2>1, <2>2, <3>1 DEF Own, Stays, Listed, Undecided
  <2> QED
    BY <1>t, <1>e, <2>1, <2>2, <2>3, CleanFrame DEF Stays, Making
<1>10. ASSUME ConvertFail(w)
      PROVE  Clean'
  <2>1. report'.failed = report.failed + 1
    BY <1>10, <1>t, <1>e, CountRight DEF ConvertFail, Fail
  <2> QED
    BY <1>t, <1>e, <2>1
<1>11. ASSUME OpenTmp(w)
      PROVE  Clean'
  <2>1. /\ run # Nil /\ todo' = todo /\ task[w].pc = "convert" /\ report' = report
        /\ claimed' = claimed /\ unique' = unique /\ asset' = asset
        /\ manifest' = manifest
    BY <1>11, <1>t, <1>e DEF OpenTmp, At
  <2>2. Stays(w, "write", task[w].names) /\ Name(w)' = Name(w)
    BY <1>11, <1>t, <1>e, NameKept DEF MoveOf, Stays
  <2>3. Own(w)'
    <3>1. Own(w) /\ \A m : Covered(m)' = Covered(m)
      BY <1>o, <1>t, <1>e, <2>1 DEF Covered
    <3> QED
      BY <2>1, <2>2, <3>1 DEF Own, Stays, Listed, Undecided
  <2> QED
    BY <1>t, <1>e, <2>1, <2>2, <2>3, CleanFrame DEF Stays, Making
<1>12. ASSUME WriteTmp(w)
      PROVE  Clean'
  <2>1. /\ run # Nil /\ todo' = todo /\ task[w].pc = "write" /\ report' = report
        /\ claimed' = claimed /\ unique' = unique /\ asset' = asset
        /\ manifest' = manifest
    BY <1>12, <1>t, <1>e DEF WriteTmp, At
  <2>2. Stays(w, "rename", task[w].names) /\ Name(w)' = Name(w)
    BY <1>12, <1>t, <1>e, NameKept DEF MoveOf, Stays
  <2>3. Own(w)'
    <3>1. Own(w) /\ \A m : Covered(m)' = Covered(m)
      BY <1>o, <1>t, <1>e, <2>1 DEF Covered
    <3> QED
      BY <2>1, <2>2, <3>1 DEF Own, Stays, Listed, Undecided
  <2> QED
    BY <1>t, <1>e, <2>1, <2>2, <2>3, CleanFrame DEF Stays, Making
<1>13. ASSUME WriteTmpFail(w)
      PROVE  Clean'
  <2>1. report'.failed = report.failed + 1
    BY <1>13, <1>t, <1>e, CountRight DEF WriteTmpFail, Fail
  <2> QED
    BY <1>t, <1>e, <2>1
<1>14. ASSUME Rename(w)
      PROVE  Clean'
  <2>1. /\ run # Nil /\ todo' = todo /\ task[w].pc = "rename" /\ claimed' = claimed
        /\ manifest' = manifest /\ unique' = unique /\ Name(w) \in Names
    BY <1>14, <1>n DEF Rename, At
  <2>2. report.failed = 0 /\ report'.manifests = report.manifests
    BY <1>14, <1>t, <1>e, CountRight DEF Rename
  <2>3. /\ asset'[Name(w)] # "absent" /\ \A m \in Names \ {Name(w)} : asset'[m] = asset[m]
    BY <1>14, <2>1 DEF Rename, Shape
  <2>4. Own(w) /\ task[w].names \subseteq Names /\ Name(w) = Rows[task[w].at].name
    BY <1>n, <1>o, <2>1, <2>2 DEF Name
  <2>5. \A m \in Names : Covered(m) => Covered(m)'
    BY <1>t, <1>e, <2>1, <2>3, CoveredStays
  <2>6. /\ task[w].names = Before(c, task[w].at) \cup {Rows[task[w].at].name}
        /\ \A m \in task[w].names : Covered(m)'
    BY <1>e, <2>1, <2>4, <2>5 DEF Own, Listed, Undecided
  <2>7. CASE run.compress
    <3>1. Stays(w, "twin", task[w].names)
      BY <1>14, <1>t, <1>e, <2>7 DEF MoveOf
    <3>2. Own(w)'
      BY <1>e, <2>6, <3>1 DEF Own, Stays, Listed
    <3> QED
      BY <1>t, <1>e, <2>1, <2>2, <2>3, <3>1, <3>2, CleanFrame DEF Stays, Making
  <2>8. CASE ~run.compress
    <3>1. Leaves(w, task[w].names)
      BY <1>14, <1>t, <1>e, <2>8 DEF MoveOf
    <3>2. Own(w)' /\ (task'[w].ent = c \/ Done(c)')
      BY <1>t, <1>e, <2>1, <2>6, <3>1, OwnLeaves
    <3> QED
      BY <1>t, <1>e, <2>1, <2>2, <2>3, <3>1, <3>2, LeavesFree, CleanFrame DEF Making
  <2> QED
    BY <2>7, <2>8
<1>15. ASSUME OpenTwin(w)
      PROVE  Clean'
  <2>1. /\ run # Nil /\ todo' = todo /\ task[w].pc = "twin" /\ report' = report
        /\ claimed' = claimed /\ unique' = unique /\ asset' = asset
        /\ manifest' = manifest
    BY <1>15, <1>t, <1>e DEF OpenTwin, At
  <2>2. Stays(w, "twinning", task[w].names) /\ Name(w)' = Name(w)
    BY <1>15, <1>t, <1>e, NameKept DEF MoveOf, Stays
  <2>3. Own(w)'
    <3>1. Own(w) /\ \A m : Covered(m)' = Covered(m)
      BY <1>o, <1>t, <1>e, <2>1 DEF Covered
    <3> QED
      BY <2>1, <2>2, <3>1 DEF Own, Stays, Listed, Undecided
  <2> QED
    BY <1>t, <1>e, <2>1, <2>2, <2>3, CleanFrame DEF Stays, Making
<1>16. ASSUME WriteTwin(w)
      PROVE  Clean'
  <2>1. /\ run # Nil /\ todo' = todo /\ task[w].pc = "twinning" /\ claimed' = claimed
        /\ manifest' = manifest /\ unique' = unique /\ asset' = asset
    BY <1>16 DEF WriteTwin, At
  <2>2. report.failed = 0 /\ report'.manifests = report.manifests
    BY <1>16, <1>t, <1>e, CountRight DEF WriteTwin
  <2>3. Own(w) /\ \A m : Covered(m)' = Covered(m)
    BY <1>o, <1>t, <1>e, <2>1, <2>2 DEF Covered
  <2>4. /\ task[w].names = Before(c, task[w].at) \cup {Rows[task[w].at].name}
        /\ \A m \in task[w].names : Covered(m)'
    BY <1>e, <2>1, <2>3 DEF Own, Listed, Undecided
  <2>5. Leaves(w, task[w].names)
    BY <1>16, <1>t, <1>e DEF MoveOf
  <2>6. Own(w)' /\ (task'[w].ent = c \/ Done(c)')
    BY <1>t, <1>e, <2>1, <2>4, <2>5, OwnLeaves
  <2> QED
    BY <1>t, <1>e, <2>1, <2>2, <2>5, <2>6, LeavesFree, CleanFrame DEF Making
<1>17. ASSUME WriteTwinFail(w)
      PROVE  Clean'
  <2>1. report'.failed = report.failed + 1
    BY <1>17, <1>t, <1>e, CountRight DEF WriteTwinFail, Fail
  <2> QED
    BY <1>t, <1>e, <2>1
<1>18. ASSUME OpenManifest(w)
      PROVE  Clean'
  <2>1. /\ run # Nil /\ todo' = todo /\ task[w].pc = "manifest" /\ report' = report
        /\ claimed' = claimed /\ unique' = unique /\ asset' = asset
        /\ \A d \in Entities \ {c} : manifest'[d] = manifest[d]
    BY <1>18, <1>t, <1>e DEF OpenManifest, At, Shape
  <2>2. Stays(w, "listing", task[w].names) /\ Name(w)' = Name(w)
    BY <1>18, <1>t, <1>e, NameKept DEF MoveOf, Stays
  <2>3. Own(w)'
    <3>1. Own(w) /\ \A m : Covered(m)' = Covered(m)
      BY <1>o, <1>t, <1>e, <2>1 DEF Covered
    <3> QED
      BY <2>1, <2>2, <3>1 DEF Own, Stays, Listed, Undecided
  <2> QED
    BY <1>t, <1>e, <2>1, <2>2, <2>3, CleanFrame DEF Stays, Making
<1>19. ASSUME WriteManifest(w)
      PROVE  Clean'
  <2>1. /\ run # Nil /\ todo' = todo /\ task[w].pc = "listing" /\ claimed' = claimed
        /\ asset' = asset /\ unique' = unique
        /\ \A d \in Entities \ {c} : manifest'[d] = manifest[d]
    BY <1>19, <1>e DEF WriteManifest, At, Shape
  <2>2. report.failed = 0 /\ report' = report
    BY <1>19, <1>t DEF WriteManifest
  <2>3. Own(w) /\ \A m : Covered(m)' = Covered(m)
    BY <1>o, <1>t, <1>e, <2>1, <2>2 DEF Covered
  <2>4. task[w].names = Planned(c) /\ \A m \in Planned(c) : Covered(m)'
    BY <1>e, <2>1, <2>3 DEF Own, Listed, Undecided
  <2>5. Others(w) /\ task'[w] = Idle
    BY <1>19, <1>t, <1>e DEF MoveOf
  <2>6. Own(w)'
    BY <2>5, IdleTask DEF Own
  <2>7. Done(c)'
    <3>1. manifest'[c] = task[w].names
      BY <1>19, <1>t, <1>e, <2>1 DEF WriteManifest, Shape, TaskShape
    <3> QED
      BY <2>4, <3>1 DEF Done
  <2> QED
    BY <1>t, <1>e, <2>1, <2>2, <2>5, <2>6, <2>7, IdleTask, CleanFrame DEF Making
<1>20. ASSUME WriteManifestFail(w)
      PROVE  Clean'
  <2>1. /\ run # Nil /\ todo' = todo /\ task[w].pc = "listing" /\ claimed' = claimed
        /\ asset' = asset /\ unique' = unique
        /\ \A d \in Entities \ {c} : manifest'[d] = manifest[d]
    BY <1>20, <1>e DEF WriteManifestFail, At, Shape
  <2>2. report.failed = 0 /\ report'.manifests = report.manifests + 1 /\ report.manifests \in Nat
    BY <1>20, <1>t, CountRight DEF WriteManifestFail, Reports
  <2>3. Own(w) /\ \A m : Covered(m)' = Covered(m)
    BY <1>o, <1>t, <1>e, <2>1, <2>2 DEF Covered
  <2>4. task[w].names = Planned(c) /\ \A m \in Planned(c) : Covered(m)'
    BY <1>e, <2>1, <2>3 DEF Own, Listed, Undecided
  <2>5. Others(w) /\ task'[w] = Idle
    BY <1>20, <1>t, <1>e DEF MoveOf
  <2>6. Own(w)'
    BY <2>5, IdleTask DEF Own
  <2>7. Done(c)'
    BY <2>2, <2>4 DEF Done
  <2> QED
    BY <1>t, <1>e, <2>1, <2>2, <2>5, <2>6, <2>7, IdleTask, CleanFrame DEF Making
<1> QED
  BY <1>1, <1>2, <1>3, <1>4, <1>5, <1>6, <1>7, <1>8, <1>9, <1>10, <1>11, <1>12, <1>13,
     <1>14, <1>15, <1>16, <1>17, <1>18, <1>19, <1>20 DEF Work

\* What a clean run has ended with.
LEMMA EndsComplete ==
  ASSUME Shape, Clean, Finish
  PROVE  CleanMeansComplete'
<1>1. /\ run # Nil /\ todo = {} /\ \A w \in Threads : task[w] = Idle
      /\ asset' = asset /\ manifest' = manifest
      /\ past'.ended = [mode |-> run, report |-> report]
  BY DEF Finish, Gone, Shape, TaskShape, Histories
<1> SUFFICES ASSUME ~run.dry, report.failed = 0, NEW e \in Entities
             PROVE  /\ \A n \in Planned(e) : asset[n] # "absent"
                    /\ report.manifests = 0 /\ Planned(e) # {} => manifest[e] = Planned(e)
  BY <1>1 DEF CleanMeansComplete, Ended
<1>2. Done(e)
  <2>1. e # Nil /\ e \in Entities \ todo
    BY <1>1, RegenAssumption
  <2>2. \A w \in Threads : task[w].ent = Nil
    BY <1>1, IdleTask
  <2> QED
    BY <1>1, <2>1, <2>2 DEF Clean
<1>3. \A n \in claimed : asset[n] # "absent"
  BY <1>1, IdleTask DEF Clean, Making
<1> QED
  BY <1>2, <1>3 DEF Done, Covered

LEMMA StepClean ==
  ASSUME Shape, Ready, Rest, Apart, DryPlans, Clean, CleanMeansComplete, [Next]_vars
  PROVE  Clean' /\ CleanMeansComplete'
<1>1. ASSUME NEW mode \in Modes, Start(mode) PROVE Clean' /\ CleanMeansComplete'
  <2>1. task' = task /\ run = Nil /\ past'.ended = Nil /\ claimed' = claimed /\ todo' = Entities
    BY <1>1 DEF Start, Shape, Histories
  <2>2. claimed = {} /\ \A w \in Threads : task'[w].pc = "idle"
    BY <2>1, IdleTask DEF Rest
  <2> QED
    BY <2>1, <2>2 DEF Clean, CleanMeansComplete, Ended
<1>2. ASSUME NEW w \in Threads, Work(w) PROVE Clean' /\ CleanMeansComplete'
  <2>1. run # Nil
    BY <1>2 DEF Work, Take, Retry, PlanFail, PlanOk, Check, Claim, TextureOk, TextureLost,
                ConvertFail, OpenTmp, WriteTmp, WriteTmpFail, Rename, OpenTwin, WriteTwin,
                WriteTwinFail, OpenManifest, WriteManifest, WriteManifestFail, At
  <2>2. past'.ended = Nil
    BY <1>2, <2>1, WorkShape DEF Framed, DryPlans
  <2> QED
    BY <1>2, <2>2, WorkClean DEF CleanMeansComplete, Ended
<1>3. CASE Finish
  <2>1. run' = Nil
    BY <1>3 DEF Finish, Gone
  <2> QED
    BY <1>3, <2>1, EndsComplete DEF Clean
<1>4. CASE Kill
  <2>1. run' = Nil /\ past'.ended = Nil
    BY <1>4, SufferRight DEF Kill, Gone, Shape, DryPlans
  <2> QED
    BY <2>1 DEF Clean, CleanMeansComplete, Ended
<1>5. CASE UNCHANGED vars
  <2>1. Clean'
    BY <1>5 DEF vars, fs, Clean, Listed, Undecided, Covered, Done, Name
  <2>2. CleanMeansComplete'
    BY <1>5 DEF vars, fs, CleanMeansComplete, Ended
  <2> QED
    BY <2>1, <2>2
<1> QED
  BY <1>1, <1>2, <1>3, <1>4, <1>5 DEF Next

-----------------------------------------------------------------------------
\* Counting.

Pool == claimed \cup Missing(run.force)

LEMMA EverythingRight ==
  /\ IsFiniteSet(Everything)
  /\ \A e : Planned(e) \subseteq Everything
  /\ \A n \in Everything : n \in Names /\ \E e \in Entities : n \in Planned(e)
<1> DEFINE S == {i \in DOMAIN Rows : Rows[i].gltf}
           f == [i \in S |-> Rows[i].name]
<1>1. /\ DOMAIN Rows = 1 .. Len(Rows) /\ Len(Rows) \in Nat
      /\ Rows \in Seq([entity : Entities, name : Names, gltf : BOOLEAN])
  BY RegenAssumption
<1>2. IsFiniteSet(S)
  <2>1. IsFiniteSet(1 .. Len(Rows))
    BY <1>1, FS_Interval
  <2>2. S \in SUBSET (1 .. Len(Rows))
    BY <1>1
  <2> HIDE DEF S
  <2> QED
    BY <2>1, <2>2, FS_Subset
<1>3. f \in Surjection(S, Everything)
  <2>1. f \in [S -> Everything]
    BY DEF Everything
  <2>2. \A n \in Everything : \E i \in S : f[i] = n
    BY DEF Everything
  <2> HIDE DEF f, S
  <2> QED
    BY <2>1, <2>2 DEF Surjection
<1>4. IsFiniteSet(Everything)
  <2> HIDE DEF f, S
  <2> QED
    BY <1>2, <1>3, FS_Surjection
<1>5. \A e : Planned(e) \subseteq Everything
  BY DEF Planned, Glbs, Everything
<1>6. ASSUME NEW n \in Everything PROVE n \in Names /\ \E e \in Entities : n \in Planned(e)
  <2>1. PICK i \in DOMAIN Rows : Rows[i].gltf /\ n = Rows[i].name
    BY DEF Everything
  <2>2. Rows[i] \in [entity : Entities, name : Names, gltf : BOOLEAN]
    BY <1>1, <2>1, ElementOfSeq
  <2> QED
    BY <2>1, <2>2 DEF Planned, Glbs
<1> QED
  BY <1>4, <1>5, <1>6

LEMMA NameCounts ==
  ASSUME TaskShape, NEW w \in Threads, task[w].pc # "idle"
  PROVE  Name(w) \in Everything
<1>1. task[w].at \in Glbs(task[w].ent)
  BY DEF TaskShape
<1> QED
  BY <1>1 DEF Name, Glbs, Everything

LEMMA HeldKept ==
  ASSUME NEW w \in Threads, Others(w), task[w].pc \in Holding <=> task'[w].pc \in Holding,
         task[w].pc \in Holding => Name(w)' = Name(w)
  PROVE  Held' = Held
<1>1. \A v \in Threads : /\ task'[v].pc \in Holding <=> task[v].pc \in Holding
                         /\ task[v].pc \in Holding => Name(v)' = Name(v)
  BY NameKept DEF Others
<1>2. \A n : n \in Held' <=> \E v \in Threads : task'[v].pc \in Holding /\ n = Name(v)'
  BY DEF Held
<1>3. \A n : n \in Held <=> \E v \in Threads : task[v].pc \in Holding /\ n = Name(v)
  BY DEF Held
<1>4. ASSUME NEW n \in Held PROVE n \in Held'
  <2>1. PICK v \in Threads : task[v].pc \in Holding /\ n = Name(v)
    BY <1>3
  <2> QED
    BY <1>1, <1>2, <2>1
<1>5. ASSUME NEW n \in Held' PROVE n \in Held
  <2>1. PICK v \in Threads : task'[v].pc \in Holding /\ n = Name(v)'
    BY <1>2
  <2> QED
    BY <1>1, <1>3, <2>1
<1> QED
  BY <1>4, <1>5

\* A worker takes a name in hand, or lets go of it.
LEMMA HeldTaken ==
  ASSUME NEW w \in Threads, Others(w), task[w].pc \notin Holding, task'[w].pc \in Holding,
         NEW n, n = Name(w)'
  PROVE  Held' = Held \cup {n}
<1>1. \A v \in Threads \ {w} : task'[v] = task[v] /\ Name(v)' = Name(v)
  BY NameKept DEF Others
<1>2. \A m : m \in Held' <=> \E v \in Threads : task'[v].pc \in Holding /\ m = Name(v)'
  BY DEF Held
<1>3. \A m : m \in Held <=> \E v \in Threads : task[v].pc \in Holding /\ m = Name(v)
  BY DEF Held
<1>4. ASSUME NEW m \in Held PROVE m \in Held'
  <2>1. PICK v \in Threads : task[v].pc \in Holding /\ m = Name(v)
    BY <1>3
  <2> QED
    BY <1>1, <1>2, <2>1
<1>5. ASSUME NEW m \in Held', m # n PROVE m \in Held
  <2>1. PICK v \in Threads : task'[v].pc \in Holding /\ m = Name(v)'
    BY <1>2
  <2> QED
    BY <1>1, <1>3, <1>5, <2>1
<1>6. n \in Held'
  BY <1>2
<1> QED
  BY <1>4, <1>5, <1>6

LEMMA HeldLeft ==
  ASSUME Claims, NEW w \in Threads, Others(w), task[w].pc \in Holding, task'[w].pc \notin Holding,
         NEW n, n = Name(w)
  PROVE  Held' = Held \ {n} /\ n \in Held
<1>1. \A v \in Threads \ {w} : task'[v] = task[v] /\ Name(v)' = Name(v)
  BY NameKept DEF Others
<1>2. \A m : m \in Held' <=> \E v \in Threads : task'[v].pc \in Holding /\ m = Name(v)'
  BY DEF Held
<1>3. \A m : m \in Held <=> \E v \in Threads : task[v].pc \in Holding /\ m = Name(v)
  BY DEF Held
<1>4. \A v \in Threads \ {w} : task[v].pc \in Holding => Name(v) # n
  BY DEF Claims
<1> QED
  BY <1>1, <1>2, <1>3, <1>4

\* A dry run.
LEMMA WorkTallyDry ==
  ASSUME Shape, Ready, DryPlans, Tally, NEW w \in Threads, Work(w), run # Nil, run.dry
  PROVE  Tally'
<1>t. /\ TaskShape /\ MoveOf(w) /\ Shape' /\ Framed /\ run' = run
      /\ report \in Reports /\ report.failed \in Nat
  BY RegenAssumption, Moves, WorkShape DEF Shape, Framed, Reports
<1>d. \A v \in Threads : task[v].pc \in {"idle", "plan"}
  BY DEF DryPlans
<1>1. (\E e \in Entities : Take(w, e)) \/ Retry(w, "plan") \/ PlanFail(w) \/ PlanOk(w)
  BY <1>d DEF Work, Check, Claim, TextureOk, TextureLost, Retry,
              ConvertFail, OpenTmp, WriteTmp, WriteTmpFail, Rename, OpenTwin, WriteTwin,
              WriteTwinFail, OpenManifest, WriteManifest, WriteManifestFail, At
<1>2. Others(w) /\ task'[w].pc # "claim"
  BY <1>1, <1>t, IdleTask DEF MoveOf, Stays, Leaves
<1>3. claimed' = claimed /\ asset' = asset
  BY <1>1 DEF Take, Retry, PlanFail, PlanOk, fs
<1>4. \A v \in Threads : task'[v].pc # "claim"
  BY <1>d, <1>2 DEF Others
<1>5. \A force : Missing(force)' = Missing(force)
  BY <1>3 DEF Missing
<1>6. CASE (\E e \in Entities : Take(w, e)) \/ Retry(w, "plan") \/ PlanFail(w)
  <2>1. unique' = unique
    BY <1>6 DEF Take, Retry, PlanFail
  <2>2. report' = report \/ (report'.failed = report.failed + 1)
    BY <1>6, <1>t, CountRight DEF Take, Retry, PlanFail
  <2>3. claimed' \subseteq Everything /\ unique' \subseteq Everything
    BY <1>3, <2>1 DEF Tally
  <2>4. CASE report' = report
    <3>1. report'.failed = 0 =>
            report'.already = Cardinality(unique' \ Missing(run.force)')
      BY <1>t, <1>5, <2>1, <2>4 DEF Tally
    <3> QED
      BY <1>t, <1>4, <2>3, <3>1 DEF Tally
  <2>5. CASE report'.failed = report.failed + 1
    <3>1. report'.failed # 0
      BY <1>t, <2>5
    <3> QED
      BY <2>3, <3>1 DEF Tally
  <2> QED
    BY <2>2, <2>4, <2>5
<1>7. CASE PlanOk(w)
  <2>1. task[w].pc = "plan" /\ unique' = unique \cup {Name(w)}
    BY <1>7 DEF PlanOk, At
  <2>2. report'.failed = report.failed /\ report'.converted = report.converted
        /\ report'.already = report.already +
             IF Name(w) \notin unique /\ ~run.force /\ asset[Name(w)] # "absent" THEN 1 ELSE 0
    BY <1>7, <1>t DEF PlanOk, Reports
  <2>3. Name(w) \in Everything
    BY <1>t, <2>1, NameCounts
  <2>4. Name(w) \in Missing(run.force) <=> (run.force \/ asset[Name(w)] = "absent")
    BY <2>3 DEF Missing
  <2>5. unique \subseteq Everything /\ claimed \subseteq Everything
    BY DEF Tally
  <2>6. ASSUME report.failed = 0
        PROVE  report'.already = Cardinality(unique' \ Missing(run.force))
    <3> DEFINE S == unique \ Missing(run.force)
    <3>1. report.already = Cardinality(S)
      BY <2>6 DEF Tally
    <3>2. IsFiniteSet(S)
      <4>1. S \in SUBSET Everything
        BY <2>5
      <4> HIDE DEF S
      <4> QED
        BY <4>1, EverythingRight, FS_Subset
    <3>3. CASE Name(w) \in Missing(run.force)
      <4>1. unique' \ Missing(run.force) = S
        BY <2>1, <3>3
      <4>2. report'.already = report.already
        BY <1>t, <2>2, <2>4, <3>3 DEF Reports
      <4> QED
        BY <3>1, <4>1, <4>2
    <3>4. CASE Name(w) \notin Missing(run.force)
      <4>1. unique' \ Missing(run.force) = S \cup {Name(w)}
        BY <2>1, <3>4
      <4>2. Name(w) \in S <=> Name(w) \in unique
        BY <3>4
      <4>3. Cardinality(S \cup {Name(w)}) =
              IF Name(w) \in S THEN Cardinality(S) ELSE Cardinality(S) + 1
        BY <3>2, FS_AddElement
      <4>4. report'.already = report.already + IF Name(w) \notin unique THEN 1 ELSE 0
        BY <2>2, <2>4, <3>4
      <4>5. report.already \in Nat
        BY <1>t DEF Reports
      <4> HIDE DEF S
      <4> QED
        BY <3>1, <4>1, <4>2, <4>3, <4>4, <4>5
    <3> QED
      BY <3>3, <3>4
  <2> QED
    BY <1>t, <1>3, <1>4, <1>5, <2>1, <2>2, <2>3, <2>5, <2>6 DEF Tally
<1> QED
  BY <1>1, <1>6, <1>7

\* A run that converts.
LEMMA TallyFrame ==
  ASSUME Shape, Tally, NEW w \in Threads, Others(w), Framed, run # Nil, ~run.dry,
         claimed' = claimed, asset' = asset, unique' = unique,
         report'.failed = 0 => report.failed = 0, report'.converted = report.converted,
         Held' = Held, NEW n, n = Name(w)', task'[w].pc = "claim" => n \in Pool
  PROVE  Tally' /\ Pool' = Pool
<1>1. \A force : Missing(force)' = Missing(force)
  BY DEF Missing
<1>2. run' = run /\ Pool' = Pool
  BY <1>1 DEF Framed, Pool
<1>3. ASSUME report'.failed = 0, NEW v \in Threads, task'[v].pc = "claim"
      PROVE  Name(v)' \in Pool
  <2>1. CASE v = w
    BY <1>3, <2>1
  <2>2. CASE v # w
    <3>1. task'[v] = task[v] /\ Name(v)' = Name(v)
      BY <2>2, NameKept DEF Others
    <3> QED
      BY <1>3, <3>1 DEF Tally, Pool
  <2> QED
    BY <2>1, <2>2
<1> QED
  BY <1>1, <1>2, <1>3 DEF Tally, Pool

LEMMA WorkTally ==
  ASSUME Shape, Ready, Claims, Tally, NEW w \in Threads, Work(w), run # Nil, ~run.dry
  PROVE  Tally' /\ (report'.failed = 0 => report.failed = 0 /\ Pool' = Pool)
<1>t. /\ TaskShape /\ MoveOf(w) /\ Shape' /\ Framed /\ run' = run
      /\ report \in Reports /\ report.failed \in Nat
  BY RegenAssumption, Moves, WorkShape DEF Shape, Framed, Reports
<1>n. task[w].pc # "idle" => Name(w) \in Everything /\ Name(w) \in Names
  BY <1>t, NameCounts, NameTyped
<1>e. PICK n, m : n = Name(w)' /\ m = Name(w)
  OBVIOUS
<1>s. claimed \subseteq Everything /\ unique \subseteq Everything
  BY DEF Tally
<1>x. ASSUME report'.failed # 0, claimed' \subseteq Everything, unique' \subseteq Everything
      PROVE  Tally' /\ (report'.failed = 0 => report.failed = 0 /\ Pool' = Pool)
  BY <1>x DEF Tally
<1>1. ASSUME NEW e \in Entities, Take(w, e)
      PROVE  Tally' /\ (report'.failed = 0 => report.failed = 0 /\ Pool' = Pool)
  <2>1. /\ report'.failed = report.failed /\ report'.converted = report.converted
        /\ claimed' = claimed /\ unique' = unique /\ asset' = asset
    BY <1>1, <1>t DEF Take, fs
  <2>2. /\ Others(w) /\ task[w].pc \notin Holding /\ task'[w].pc \notin Holding
        /\ task'[w].pc # "claim"
    BY <1>1, <1>t, IdleTask DEF MoveOf, Stays, Take, At, Holding, Making
  <2> QED
    BY <1>t, <1>e, <2>1, <2>2, HeldKept, TallyFrame
<1>2. ASSUME Retry(w, "plan")
      PROVE  Tally' /\ (report'.failed = 0 => report.failed = 0 /\ Pool' = Pool)
  <2>1. /\ report'.failed = report.failed /\ report'.converted = report.converted
        /\ claimed' = claimed /\ unique' = unique /\ asset' = asset
    BY <1>2, <1>t DEF Retry, fs
  <2>2. /\ Others(w) /\ task[w].pc \notin Holding /\ task'[w].pc \notin Holding
        /\ task'[w].pc # "claim"
    BY <1>2, <1>t, IdleTask DEF MoveOf, Stays, Retry, At, Holding, Making
  <2> QED
    BY <1>t, <1>e, <2>1, <2>2, HeldKept, TallyFrame
<1>3. ASSUME PlanFail(w)
      PROVE  Tally' /\ (report'.failed = 0 => report.failed = 0 /\ Pool' = Pool)
  <2>1. /\ report'.failed = report.failed + 1 /\ unique' = unique
        /\ claimed' \subseteq claimed
    BY <1>3, <1>t, CountRight DEF PlanFail
  <2> QED
    BY <1>t, <1>s, <1>x, <2>1
<1>4. ASSUME PlanOk(w)
      PROVE  Tally' /\ (report'.failed = 0 => report.failed = 0 /\ Pool' = Pool)
  <2>1. /\ report' = report /\ claimed' = claimed /\ unique' = unique /\ asset' = asset
    BY <1>4 DEF PlanOk, fs
  <2>2. /\ Others(w) /\ task[w].pc \notin Holding /\ task'[w].pc \notin Holding
        /\ task'[w].pc # "claim"
    BY <1>4, <1>t DEF MoveOf, Stays, PlanOk, At, Holding, Making
  <2> QED
    BY <1>t, <1>e, <2>1, <2>2, HeldKept, TallyFrame
<1>5. ASSUME Check(w)
      PROVE  Tally' /\ (report'.failed = 0 => report.failed = 0 /\ Pool' = Pool)
  <2>1. /\ report'.failed = report.failed /\ report'.converted = report.converted
        /\ claimed' = claimed /\ unique' = unique /\ asset' = asset
    BY <1>5, <1>t, CountRight DEF Check, fs
  <2>2. Others(w) /\ task[w].pc \notin Holding /\ task'[w].pc \notin Holding
    BY <1>5, <1>t, IdleTask DEF MoveOf, Stays, Leaves, Check, At, Holding, Making
  <2>3. ASSUME task'[w].pc = "claim" PROVE n \in Pool
    <3>1. ~(~run.force /\ asset[Name(w)] # "absent")
      BY <1>5, <1>t, <2>3, LeavesFree DEF MoveOf
    <3>2. n = Name(w) /\ Name(w) \in Everything
      BY <1>5, <1>t, <1>e, <1>n, <3>1, NameKept DEF MoveOf, Stays, Check, At
    <3> QED
      BY <3>1, <3>2 DEF Pool, Missing
  <2> QED
    BY <1>t, <1>e, <2>1, <2>2, <2>3, HeldKept, TallyFrame
<1>6. ASSUME Claim(w)
      PROVE  Tally' /\ (report'.failed = 0 => report.failed = 0 /\ Pool' = Pool)
  <2>1. /\ report'.failed = report.failed /\ report'.converted = report.converted
        /\ unique' = unique /\ asset' = asset /\ task[w].pc = "claim"
    BY <1>6, <1>t, CountRight DEF Claim, At, fs
  <2>2. CASE Name(w) \in claimed
    <3>1. Leaves(w, task[w].names) /\ claimed' = claimed
      BY <1>6, <1>t, <2>2 DEF MoveOf, Claim
    <3>2. /\ Others(w) /\ task[w].pc \notin Holding /\ task'[w].pc \notin Holding
          /\ task'[w].pc # "claim"
      BY <2>1, <3>1, LeavesFree DEF Holding, Making
    <3> QED
      BY <1>t, <1>e, <2>1, <3>1, <3>2, HeldKept, TallyFrame
  <2>3. CASE Name(w) \notin claimed
    <3>1. /\ Others(w) /\ task'[w].pc \in {"texture", "convert"} /\ n = m
          /\ claimed' = claimed \cup {m}
      BY <1>6, <1>t, <1>e, <2>3, NameKept DEF MoveOf, Stays, Claim
    <3>2. Held' = Held \cup {m}
      BY <1>e, <2>1, <3>1, HeldTaken DEF Holding, Making
    <3>3. claimed' \ Held' = claimed \ Held /\ claimed' \subseteq Everything
      BY <1>e, <1>n, <1>s, <2>1, <2>3, <3>1, <3>2
    <3>4. report.failed = 0 => Pool' = Pool
      <4>1. report.failed = 0 => m \in Pool
        BY <1>e, <2>1 DEF Tally, Pool
      <4>2. Missing(run.force)' = Missing(run.force)
        BY <1>t, <2>1 DEF Missing
      <4> QED
        BY <1>t, <3>1, <4>1, <4>2 DEF Pool
    <3>5. ASSUME report.failed = 0, NEW v \in Threads, task'[v].pc = "claim"
          PROVE  Name(v)' \in Pool'
      <4>1. task'[v] = task[v] /\ Name(v)' = Name(v)
        BY <3>1, <3>5, NameKept DEF Others
      <4> QED
        BY <3>4, <3>5, <4>1 DEF Tally, Pool
    <3>6. report.failed = 0 => report'.converted = Cardinality(claimed' \ Held')
      BY <2>1, <3>3 DEF Tally
    <3> QED
      BY <1>t, <1>s, <2>1, <3>3, <3>4, <3>5, <3>6 DEF Tally, Pool
  <2> QED
    BY <2>2, <2>3
<1>7. ASSUME Retry(w, "texture")
      PROVE  Tally' /\ (report'.failed = 0 => report.failed = 0 /\ Pool' = Pool)
  <2>1. /\ report'.failed = report.failed /\ report'.converted = report.converted
        /\ claimed' = claimed /\ unique' = unique /\ asset' = asset
    BY <1>7, <1>t DEF Retry, fs
  <2>2. /\ Others(w) /\ task[w].pc \in Holding /\ task'[w].pc \in Holding
        /\ Name(w)' = Name(w) /\ task'[w].pc # "claim"
    BY <1>7, <1>t, NameKept DEF MoveOf, Stays, Retry, At, Holding, Making
  <2> QED
    BY <1>t, <1>e, <2>1, <2>2, HeldKept, TallyFrame
<1>8. ASSUME TextureOk(w)
      PROVE  Tally' /\ (report'.failed = 0 => report.failed = 0 /\ Pool' = Pool)
  <2>1. /\ report'.failed = report.failed /\ report'.converted = report.converted
        /\ claimed' = claimed /\ unique' = unique /\ asset' = asset
    BY <1>8, <1>t DEF TextureOk, fs
  <2>2. /\ Others(w) /\ task[w].pc \in Holding /\ task'[w].pc \in Holding
        /\ Name(w)' = Name(w) /\ task'[w].pc # "claim"
    BY <1>8, <1>t, NameKept DEF MoveOf, Stays, TextureOk, At, Holding, Making
  <2> QED
    BY <1>t, <1>e, <2>1, <2>2, HeldKept, TallyFrame
<1>9. ASSUME TextureLost(w)
      PROVE  Tally' /\ (report'.failed = 0 => report.failed = 0 /\ Pool' = Pool)
  <2>1. /\ report'.failed = report.failed /\ report'.converted = report.converted
        /\ claimed' = claimed /\ unique' = unique /\ asset' = asset
    BY <1>9, <1>t DEF TextureLost, fs
  <2>2. /\ Others(w) /\ task[w].pc \in Holding /\ task'[w].pc \in Holding
        /\ Name(w)' = Name(w) /\ task'[w].pc # "claim"
    BY <1>9, <1>t, NameKept DEF MoveOf, Stays, TextureLost, At, Holding, Making
  <2> QED
    BY <1>t, <1>e, <2>1, <2>2, HeldKept, TallyFrame
<1>10. ASSUME ConvertFail(w)
      PROVE  Tally' /\ (report'.failed = 0 => report.failed = 0 /\ Pool' = Pool)
  <2>1. /\ report'.failed = report.failed + 1 /\ unique' = unique
        /\ claimed' \subseteq claimed
    BY <1>10, <1>t, CountRight DEF ConvertFail, Fail
  <2> QED
    BY <1>t, <1>s, <1>x, <2>1
<1>11. ASSUME OpenTmp(w)
      PROVE  Tally' /\ (report'.failed = 0 => report.failed = 0 /\ Pool' = Pool)
  <2>1. /\ report'.failed = report.failed /\ report'.converted = report.converted
        /\ claimed' = claimed /\ unique' = unique /\ asset' = asset
    BY <1>11, <1>t DEF OpenTmp
  <2>2. /\ Others(w) /\ task[w].pc \in Holding /\ task'[w].pc \in Holding
        /\ Name(w)' = Name(w) /\ task'[w].pc # "claim"
    BY <1>11, <1>t, NameKept DEF MoveOf, Stays, OpenTmp, At, Holding, Making
  <2> QED
    BY <1>t, <1>e, <2>1, <2>2, HeldKept, TallyFrame
<1>12. ASSUME WriteTmp(w)
      PROVE  Tally' /\ (report'.failed = 0 => report.failed = 0 /\ Pool' = Pool)
  <2>1. /\ report'.failed = report.failed /\ report'.converted = report.converted
        /\ claimed' = claimed /\ unique' = unique /\ asset' = asset
    BY <1>12, <1>t DEF WriteTmp
  <2>2. /\ Others(w) /\ task[w].pc \in Holding /\ task'[w].pc \in Holding
        /\ Name(w)' = Name(w) /\ task'[w].pc # "claim"
    BY <1>12, <1>t, NameKept DEF MoveOf, Stays, WriteTmp, At, Holding, Making
  <2> QED
    BY <1>t, <1>e, <2>1, <2>2, HeldKept, TallyFrame
<1>13. ASSUME WriteTmpFail(w)
      PROVE  Tally' /\ (report'.failed = 0 => report.failed = 0 /\ Pool' = Pool)
  <2>1. /\ report'.failed = report.failed + 1 /\ unique' = unique
        /\ claimed' \subseteq claimed
    BY <1>13, <1>t, CountRight DEF WriteTmpFail, Fail
  <2> QED
    BY <1>t, <1>s, <1>x, <2>1
<1>14. ASSUME Rename(w)
      PROVE  Tally' /\ (report'.failed = 0 => report.failed = 0 /\ Pool' = Pool)
  <2>1. /\ claimed' = claimed /\ unique' = unique /\ task[w].pc = "rename"
        /\ Name(w) \in claimed /\ Name(w) \in Names /\ Others(w)
    BY <1>14, <1>t, <1>n DEF Rename, At, Claims, Holding, Making, MoveOf, Stays, Leaves
  <2>p. Pool' = Pool
    <3>1. /\ asset'[Name(w)] # "absent" /\ \A i \in Names \ {Name(w)} : asset'[i] = asset[i]
      BY <1>14, <2>1 DEF Rename, Shape
    <3>2. \A i \in Everything : i \in Names
      BY EverythingRight
    <3>3. Missing(run.force)' \subseteq Missing(run.force) /\
          Missing(run.force) \subseteq Missing(run.force)' \cup {Name(w)}
      BY <1>t, <3>1, <3>2 DEF Missing
    <3> QED
      BY <1>t, <2>1, <3>3 DEF Pool
  <2>9. ASSUME report.failed = 0, NEW v \in Threads \ {w}, task'[v].pc = "claim"
        PROVE  Name(v)' \in Pool
    <3>1. task'[v] = task[v] /\ Name(v)' = Name(v)
      BY <2>1, NameKept DEF Others
    <3> QED
      BY <2>9, <3>1 DEF Tally, Pool
  <2>2. CASE run.compress
    <3>1. /\ task'[w].pc = "twin" /\ Name(w)' = Name(w) /\ Others(w)
      BY <1>14, <1>t, <2>2, NameKept DEF MoveOf, Stays
    <3>2. Held' = Held
      BY <2>1, <3>1, HeldKept DEF Holding, Making
    <3>3. report' = report
      BY <1>14, <2>2 DEF Rename
    <3>4. report.failed = 0 => report'.converted = Cardinality(claimed' \ Held')
      BY <2>1, <3>2, <3>3 DEF Tally
    <3> QED
      BY <1>t, <1>s, <2>1, <2>9, <2>p, <3>1, <3>3, <3>4 DEF Tally, Pool
  <2>3. CASE ~run.compress
    <3>1. /\ Others(w) /\ task'[w].pc \notin Holding /\ task'[w].pc # "claim"
      BY <1>14, <1>t, <2>3, LeavesFree DEF MoveOf, Holding, Making
    <3>2. Held' = Held \ {m} /\ m \in Held /\ m \in claimed
      BY <1>e, <2>1, <3>1, HeldLeft DEF Holding, Making, Claims
    <3>3. claimed' \ Held' = (claimed \ Held) \cup {m} /\ m \notin claimed \ Held
      BY <2>1, <3>2
    <3>4. IsFiniteSet(claimed \ Held)
      <4>1. claimed \ Held \in SUBSET Everything
        BY <1>s
      <4> QED
        BY <4>1, EverythingRight, FS_Subset
    <3>5. Cardinality(claimed' \ Held') = Cardinality(claimed \ Held) + 1
      BY <3>3, <3>4, FS_AddElement
    <3>6. report'.failed = report.failed /\ report'.converted = report.converted + 1
      BY <1>14, <1>t, <2>3, CountRight DEF Rename
    <3> QED
      BY <1>t, <1>s, <2>1, <2>9, <2>p, <3>1, <3>5, <3>6 DEF Tally, Pool
  <2> QED
    BY <2>2, <2>3
<1>15. ASSUME OpenTwin(w)
      PROVE  Tally' /\ (report'.failed = 0 => report.failed = 0 /\ Pool' = Pool)
  <2>1. /\ report'.failed = report.failed /\ report'.converted = report.converted
        /\ claimed' = claimed /\ unique' = unique /\ asset' = asset
    BY <1>15, <1>t DEF OpenTwin
  <2>2. /\ Others(w) /\ task[w].pc \in Holding /\ task'[w].pc \in Holding
        /\ Name(w)' = Name(w) /\ task'[w].pc # "claim"
    BY <1>15, <1>t, NameKept DEF MoveOf, Stays, OpenTwin, At, Holding, Making
  <2> QED
    BY <1>t, <1>e, <2>1, <2>2, HeldKept, TallyFrame
<1>16. ASSUME WriteTwin(w)
      PROVE  Tally' /\ (report'.failed = 0 => report.failed = 0 /\ Pool' = Pool)
  <2>1. /\ claimed' = claimed /\ unique' = unique /\ task[w].pc = "twinning"
        /\ Name(w) \in claimed /\ Name(w) \in Names /\ Others(w)
    BY <1>16, <1>t, <1>n DEF WriteTwin, At, Claims, Holding, Making, MoveOf, Stays, Leaves
  <2>p. Pool' = Pool
    BY <1>16, <1>t DEF WriteTwin, Pool, Missing
  <2>9. ASSUME report.failed = 0, NEW v \in Threads \ {w}, task'[v].pc = "claim"
        PROVE  Name(v)' \in Pool
    <3>1. task'[v] = task[v] /\ Name(v)' = Name(v)
      BY <2>1, NameKept DEF Others
    <3> QED
      BY <2>9, <3>1 DEF Tally, Pool
  <2>2. /\ Others(w) /\ task'[w].pc \notin Holding /\ task'[w].pc # "claim"
    BY <1>16, <1>t, LeavesFree DEF MoveOf, Holding, Making
  <2>3. Held' = Held \ {m} /\ m \in Held /\ m \in claimed
    BY <1>e, <2>1, <2>2, HeldLeft DEF Holding, Making, Claims
  <2>4. claimed' \ Held' = (claimed \ Held) \cup {m} /\ m \notin claimed \ Held
    BY <2>1, <2>3
  <2>5. IsFiniteSet(claimed \ Held)
    <3>1. claimed \ Held \in SUBSET Everything
      BY <1>s
    <3> QED
      BY <3>1, EverythingRight, FS_Subset
  <2>6. Cardinality(claimed' \ Held') = Cardinality(claimed \ Held) + 1
    BY <2>4, <2>5, FS_AddElement
  <2>7. report'.failed = report.failed /\ report'.converted = report.converted + 1
    BY <1>16, <1>t, CountRight DEF WriteTwin
  <2> QED
    BY <1>t, <1>s, <2>1, <2>9, <2>p, <2>2, <2>6, <2>7 DEF Tally, Pool
<1>17. ASSUME WriteTwinFail(w)
      PROVE  Tally' /\ (report'.failed = 0 => report.failed = 0 /\ Pool' = Pool)
  <2>1. /\ report'.failed = report.failed + 1 /\ unique' = unique
        /\ claimed' \subseteq claimed
    BY <1>17, <1>t, CountRight DEF WriteTwinFail, Fail
  <2> QED
    BY <1>t, <1>s, <1>x, <2>1
<1>18. ASSUME OpenManifest(w)
      PROVE  Tally' /\ (report'.failed = 0 => report.failed = 0 /\ Pool' = Pool)
  <2>1. /\ report'.failed = report.failed /\ report'.converted = report.converted
        /\ claimed' = claimed /\ unique' = unique /\ asset' = asset
    BY <1>18, <1>t DEF OpenManifest
  <2>2. /\ Others(w) /\ task[w].pc \notin Holding /\ task'[w].pc \notin Holding
        /\ task'[w].pc # "claim"
    BY <1>18, <1>t, IdleTask DEF MoveOf, Stays, OpenManifest, At, Holding, Making
  <2> QED
    BY <1>t, <1>e, <2>1, <2>2, HeldKept, TallyFrame
<1>19. ASSUME WriteManifest(w)
      PROVE  Tally' /\ (report'.failed = 0 => report.failed = 0 /\ Pool' = Pool)
  <2>1. /\ report'.failed = report.failed /\ report'.converted = report.converted
        /\ claimed' = claimed /\ unique' = unique /\ asset' = asset
    BY <1>19, <1>t DEF WriteManifest
  <2>2. /\ Others(w) /\ task[w].pc \notin Holding /\ task'[w].pc \notin Holding
        /\ task'[w].pc # "claim"
    BY <1>19, <1>t, IdleTask DEF MoveOf, Stays, WriteManifest, At, Holding, Making
  <2> QED
    BY <1>t, <1>e, <2>1, <2>2, HeldKept, TallyFrame
<1>20. ASSUME WriteManifestFail(w)
      PROVE  Tally' /\ (report'.failed = 0 => report.failed = 0 /\ Pool' = Pool)
  <2>1. /\ report'.failed = report.failed /\ report'.converted = report.converted
        /\ claimed' = claimed /\ unique' = unique /\ asset' = asset
    BY <1>20, <1>t, CountRight DEF WriteManifestFail
  <2>2. /\ Others(w) /\ task[w].pc \notin Holding /\ task'[w].pc \notin Holding
        /\ task'[w].pc # "claim"
    BY <1>20, <1>t, IdleTask DEF MoveOf, Stays, WriteManifestFail, At, Holding, Making
  <2> QED
    BY <1>t, <1>e, <2>1, <2>2, HeldKept, TallyFrame
<1> QED
  BY <1>1, <1>2, <1>3, <1>4, <1>5, <1>6, <1>7, <1>8, <1>9, <1>10, <1>11, <1>12, <1>13,
     <1>14, <1>15, <1>16, <1>17, <1>18, <1>19, <1>20 DEF Work

-----------------------------------------------------------------------------
\* What a dry run foretells.

ForecastInv == Tally /\ Foretold /\ ForecastExact

LEMMA WorkRuns ==
  ASSUME NEW w \in Threads, Work(w)
  PROVE  run # Nil
BY DEF Work, Take, Retry, PlanFail, PlanOk, Check, Claim, TextureOk, TextureLost,
       ConvertFail, OpenTmp, WriteTmp, WriteTmpFail, Rename, OpenTwin, WriteTwin,
       WriteTwinFail, OpenManifest, WriteManifest, WriteManifestFail, At

\* At the end of a clean run nobody holds a name, and every glb is cared for.
LEMMA EndsCovered ==
  ASSUME Shape, Clean, Finish, report.failed = 0
  PROVE  /\ Held = {}
         /\ run.dry => Everything \subseteq unique
         /\ ~run.dry => Missing(run.force) \subseteq claimed
<1>1. run # Nil /\ todo = {} /\ \A w \in Threads : task[w] = Idle
  BY DEF Finish, Shape, TaskShape
<1>2. Held = {}
  <2>1. \A w \in Threads : task[w].pc \notin Holding
    BY <1>1, IdleTask DEF Holding, Making
  <2> QED
    BY <2>1 DEF Held
<1>3. \A e \in Entities : Done(e)
  BY <1>1, IdleTask, RegenAssumption DEF Clean
<1>4. \A n \in Everything : Covered(n)
  BY <1>3, EverythingRight DEF Done
<1> QED
  BY <1>2, <1>4 DEF Covered, Missing

LEMMA WorkForecast ==
  ASSUME Shape, Ready, Claims, DryPlans, ForecastInv, NEW w \in Threads, Work(w)
  PROVE  ForecastInv'
<1>1. /\ run # Nil /\ run' = run /\ past'.forecast = past.forecast /\ past'.ended = Nil
      /\ report' \in Reports /\ Tally /\ Foretold
  BY WorkRuns, WorkShape DEF Framed, DryPlans, ForecastInv, Shape
<1>2. ForecastExact'
  BY <1>1 DEF ForecastExact, Ended
<1>3. CASE run.dry
  <2>1. Tally'
    BY <1>1, <1>3, WorkTallyDry
  <2>2. Foretold'
    BY <1>1, <1>3 DEF Foretold
  <2> QED
    BY <1>2, <2>1, <2>2 DEF ForecastInv
<1>4. CASE ~run.dry
  <2>1. Tally' /\ (report'.failed = 0 => report.failed = 0 /\ Pool' = Pool)
    BY <1>1, <1>4, WorkTally
  <2>2. Foretold'
    <3>1. ASSUME past.forecast # Nil, past.forecast.failed = 0, report'.failed = 0,
                 past.forecast.force = run.force
          PROVE  past.forecast.converted = Cardinality(Pool')
      BY <1>1, <1>4, <2>1, <3>1 DEF Foretold, Pool
    <3> QED
      BY <1>1, <3>1 DEF Foretold, Pool
  <2> QED
    BY <1>2, <2>1, <2>2 DEF ForecastInv
<1> QED
  BY <1>3, <1>4

\* A run that has just started has claimed nothing.
LEMMA StartForecast ==
  ASSUME Shape, Rest, ForecastInv, NEW mode \in Modes, Start(mode)
  PROVE  ForecastInv'
<1>1. /\ run = Nil /\ run' = mode /\ task' = task /\ claimed' = claimed /\ unique' = unique
      /\ report' = report /\ asset' = asset /\ past'.ended = Nil
      /\ past'.forecast # Nil => /\ past'.forecast = past.forecast
                                 /\ past.ended # Nil /\ past.ended.mode.dry
  BY DEF Start, fs, Shape, Histories
<1>2. /\ claimed = {} /\ unique = {} /\ report = NoReport
      /\ \A w \in Threads : task[w].pc = "idle"
  BY <1>1, IdleTask DEF Rest
<1>3. \A force : Missing(force)' = Missing(force)
  BY <1>1 DEF Missing
<1>4. /\ claimed' \ Held' = {} /\ unique' \ Missing(mode.force) = {}
      /\ claimed' \cup Missing(mode.force) = Missing(mode.force)
      /\ report'.converted = 0 /\ report'.already = 0 /\ Cardinality({}) = 0
  BY <1>1, <1>2, FS_EmptySet DEF NoReport
<1>5. Tally'
  <2>1. \A w \in Threads : task'[w].pc # "claim"
    BY <1>1, <1>2
  <2>2. claimed' \subseteq Everything /\ unique' \subseteq Everything
    BY <1>1, <1>2
  <2>3. report'.converted = Cardinality(claimed' \ Held')
    BY <1>4
  <2>4. report'.already = Cardinality(unique' \ Missing(run.force)')
    BY <1>1, <1>3, <1>4
  <2> QED
    BY <2>1, <2>2, <2>3, <2>4 DEF Tally
<1>6. Foretold'
  <2>1. ASSUME past'.forecast # Nil, past'.forecast.failed = 0, past'.forecast.force = mode.force
        PROVE  past'.forecast.converted = Cardinality(Missing(mode.force))
    BY <1>1, <2>1 DEF ForecastInv, Foretold
  <2>2. ASSUME past'.forecast # Nil, past'.forecast.failed = 0, past'.forecast.force = mode.force
        PROVE  past'.forecast.converted = Cardinality(claimed' \cup Missing(run.force)')
    BY <1>1, <1>3, <1>4, <2>1, <2>2
  <2> QED
    BY <1>1, <2>2 DEF Foretold
<1>7. ForecastExact'
  BY <1>1 DEF ForecastExact, Ended
<1> QED
  BY <1>5, <1>6, <1>7 DEF ForecastInv

LEMMA GoneTally ==
  ASSUME Gone
  PROVE  Tally' /\ run' = Nil /\ asset' = asset
BY DEF Gone, Tally

LEMMA FinishForecast ==
  ASSUME Shape, Clean, ForecastInv, Finish
  PROVE  ForecastInv'
<1>1. /\ run # Nil /\ Tally' /\ run' = Nil /\ asset' = asset
      /\ past'.ended = [mode |-> run, report |-> report]
      /\ past'.forecast = IF run.dry
           THEN [force |-> run.force, failed |-> report.failed,
                 converted |-> Cardinality(unique) - report.already]
           ELSE past.forecast
  BY GoneTally DEF Finish, Shape, Histories
<1>2. \A force : Missing(force)' = Missing(force)
  BY <1>1 DEF Missing
<1>3. \A force : Missing(force) \subseteq Everything
  BY DEF Missing
<1>4. CASE run.dry
  <2>1. past'.forecast.converted = Cardinality(unique) - report.already
        /\ past'.forecast.failed = report.failed /\ past'.forecast.force = run.force
    BY <1>1, <1>4
  <2>2. ASSUME report.failed = 0
        PROVE  Cardinality(unique) - report.already = Cardinality(Missing(run.force))
    <3>1. Everything \subseteq unique /\ unique \subseteq Everything
      BY <1>4, <2>2, EndsCovered DEF ForecastInv, Tally
    <3>2. IsFiniteSet(unique) /\ unique \cap Missing(run.force) = Missing(run.force)
      BY <1>3, <3>1, EverythingRight
    <3>3. /\ Cardinality(unique \ Missing(run.force)) =
               Cardinality(unique) - Cardinality(unique \cap Missing(run.force))
      BY <3>2, FS_Difference
    <3>4. Cardinality(unique) \in Nat /\ Cardinality(Missing(run.force)) \in Nat
      <4>1. Missing(run.force) \in SUBSET Everything
        BY <1>3
      <4>2. IsFiniteSet(Missing(run.force))
        BY <4>1, EverythingRight, FS_Subset
      <4> QED
        BY <3>2, <4>2, FS_CardinalityType
    <3>5. report.already = Cardinality(unique \ Missing(run.force))
      BY <1>1, <1>4, <2>2 DEF ForecastInv, Tally
    <3> QED
      BY <3>2, <3>3, <3>4, <3>5
  <2>3. Foretold'
    <3>1. past'.forecast.failed = 0 =>
            past'.forecast.converted = Cardinality(Missing(run.force))
      BY <2>1, <2>2
    <3> QED
      BY <1>1, <1>2, <2>1, <3>1 DEF Foretold
  <2>4. ForecastExact'
    BY <1>1, <1>4 DEF ForecastExact, Ended
  <2> QED
    BY <1>1, <2>3, <2>4 DEF ForecastInv
<1>5. CASE ~run.dry
  <2>1. past'.forecast = past.forecast /\ past'.ended.mode = run /\ past'.ended.report = report
    BY <1>1, <1>5
  <2>2. ASSUME past.forecast # Nil, past.forecast.failed = 0, report.failed = 0,
               past.forecast.force = run.force
        PROVE  report.converted = past.forecast.converted
    <3>1. claimed \ Held = claimed /\ claimed \cup Missing(run.force) = claimed
      BY <1>5, <2>2, EndsCovered
    <3>2. report.converted = Cardinality(claimed \ Held)
      BY <1>1, <1>5, <2>2 DEF ForecastInv, Tally
    <3>3. past.forecast.converted = Cardinality(claimed \cup Missing(run.force))
      BY <1>1, <1>5, <2>2 DEF ForecastInv, Foretold
    <3> QED
      BY <3>1, <3>2, <3>3
  <2>3. ForecastExact'
    BY <2>1, <2>2 DEF ForecastExact
  <2>4. Foretold'
    BY <1>1, <1>5, <2>1 DEF Foretold
  <2> QED
    BY <1>1, <2>3, <2>4 DEF ForecastInv
<1> QED
  BY <1>4, <1>5

LEMMA StepForecast ==
  ASSUME Shape, Ready, Claims, Rest, DryPlans, Clean, ForecastInv, [Next]_vars
  PROVE  ForecastInv'
<1>1. CASE Kill
  <2>1. Tally' /\ run' = Nil /\ past'.ended = Nil
    BY <1>1, GoneTally, SufferRight DEF Kill, Shape, DryPlans
  <2> QED
    BY <2>1 DEF ForecastInv, Foretold, ForecastExact, Ended
<1>2. CASE UNCHANGED vars
  <2>1. Held' = Held /\ \A force : Missing(force)' = Missing(force)
    BY <1>2 DEF vars, fs, Held, Name, Missing
  <2>2. Tally'
    BY <1>2, <2>1 DEF vars, fs, ForecastInv, Tally, Name
  <2>3. Foretold' /\ ForecastExact'
    BY <1>2, <2>1 DEF vars, fs, ForecastInv, Foretold, ForecastExact, Ended
  <2> QED
    BY <2>2, <2>3 DEF ForecastInv
<1> QED
  BY <1>1, <1>2, StartForecast, WorkForecast, FinishForecast DEF Next

-----------------------------------------------------------------------------
\* The inductive invariant.

RegenInv ==
  /\ Shape /\ Rest /\ Claims /\ Ready
  /\ SparedInv /\ Mirrored
  /\ Apart /\ DryPlans /\ Clean /\ CleanMeansComplete
  /\ ForecastInv

LEMMA InitRegenInv ==
  Init => RegenInv
<1> SUFFICES ASSUME Init PROVE RegenInv
  OBVIOUS
<1>1. /\ \A w \in Threads : task[w] = Idle
      /\ run = Nil /\ todo = {} /\ claimed = {} /\ unique = {}
  BY DEF Init
<1>2. /\ \A w \in Threads : task[w].pc = "idle" /\ task[w].tries = 0 /\ task[w].whole
  BY <1>1, IdleTask
<1>3. /\ past.kills = 0 /\ past.transient = 0 /\ past.definite = 0 /\ past.forecast = Nil
      /\ past.ended = Nil /\ past \in Histories /\ Faults = 0
  BY DEF Init, Histories, Faults
<1>4. report = NoReport /\ report \in Reports /\ report.failed = 0
  BY DEF Init, NoReport, Reports
<1>5. Shape
  <2>1. TaskShape
    BY <1>1, <1>2, IdleTask DEF Init, TaskShape
  <2> QED
    BY <1>3, <1>4, <2>1 DEF Init, Shape
<1>6. Rest /\ Claims /\ Ready /\ Apart /\ DryPlans
  BY <1>1, <1>2, <1>4 DEF Rest, Claims, Ready, Apart, DryPlans, Holding, Making
<1>7. SparedInv
  <2>1. Bounded
    BY <1>2, <1>3, RegenAssumption DEF Init, Bounded
  <2> QED
    BY <1>2, <1>3, <1>4, <2>1 DEF Init, SparedInv, Attempts, Spared
<1>8. Mirrored /\ Clean /\ CleanMeansComplete
  BY <1>1, <1>3 DEF Init, Mirrored, Clean, CleanMeansComplete, Ended
<1>9. ForecastInv
  BY <1>1, <1>3 DEF ForecastInv, Tally, Foretold, ForecastExact, Ended
<1> QED
  BY <1>5, <1>6, <1>7, <1>8, <1>9 DEF RegenInv

LEMMA StepRegenInv ==
  RegenInv /\ [Next]_vars => RegenInv'
BY StepShape, StepRest, StepClaims, StepReady, StepSpared, StepMirrored, StepApart, StepClean,
   StepForecast DEF RegenInv

THEOREM RegenInvariant == Spec => []RegenInv
BY InitRegenInv, StepRegenInv, PTL DEF Spec

-----------------------------------------------------------------------------
\* Every variable keeps its type, and no bound is passed.
THEOREM RegenTyped == Spec => []RegenTypeOK
<1>1. RegenInv => RegenTypeOK
  <2> SUFFICES ASSUME RegenInv PROVE RegenTypeOK
    OBVIOUS
  <2>1. ASSUME NEW w \in Threads
        PROVE  /\ task[w].ent \in Entities \cup {Nil}
               /\ task[w].ent # Nil => task[w].at \in Glbs(task[w].ent)
               /\ task[w].tries \in 0 .. Retries - 1 /\ task[w].names \subseteq Names
    <3>1. task[w] \in Tasks /\ (task[w].pc = "idle" => task[w].ent = Nil)
      BY IdleTask DEF RegenInv, Shape, TaskShape
    <3>2. task[w].pc # "idle" => task[w].at \in Glbs(task[w].ent)
      BY DEF RegenInv, Shape, TaskShape
    <3>3. task[w].tries < Retries /\ Retries \in Nat
      BY RegenAssumption DEF RegenInv, SparedInv, Bounded
    <3> QED
      BY <3>1, <3>2, <3>3 DEF Tasks
  <2>2. /\ runs \in 0 .. MaxRuns /\ Faults \in 0 .. MaxFaults
    BY RegenAssumption DEF RegenInv, Shape, Histories, SparedInv, Bounded, Faults
  <2> QED
    BY <2>1, <2>2 DEF RegenInv, Shape, RegenTypeOK
<1> QED
  BY <1>1, RegenInvariant, PTL

\* No published bundle is cut short, although two workers on one name would write
\* one temporary: whoever converts a name has claimed it, and a failure gives back
\* a claim only its holder can have (convert_and_write, src/src/regen.rs).
THEOREM NothingCutShort == Spec => []AssetWhole
<1>1. RegenInv => AssetWhole
  BY DEF RegenInv, Shape, AssetWhole
<1> QED
  BY <1>1, RegenInvariant, PTL

\* With fewer transient faults than attempts, and nothing worse, no glb fails and
\* no bundle lacks its texture (CatalystClient::get).
THEOREM RetriesSuffice == Spec => []TransientTolerated
<1>1. RegenInv => TransientTolerated
  BY DEF RegenInv, SparedInv, Spared, TransientTolerated
<1> QED
  BY <1>1, RegenInvariant, PTL

\* Between runs a bundle and its compressed twin agree while nothing was killed,
\* failed or ran without compression.
THEOREM TwinsMatch == Spec => []TwinAgrees
<1>1. RegenInv => TwinAgrees
  <2> SUFFICES ASSUME RegenInv, run = Nil, past.kills = 0, past.definite = 0, ~past.plain
               PROVE  twin = asset
    BY DEF TwinAgrees
  <2>1. \A w \in Threads : task[w].pc = "idle"
    BY IdleTask DEF RegenInv, Rest
  <2>2. \A n \in Names : twin[n] = asset[n]
    BY <2>1 DEF RegenInv, Mirrored
  <2> QED
    BY <2>2 DEF RegenInv, Shape
<1> QED
  BY <1>1, RegenInvariant, PTL

\* A run that counts no failure has converted every glb and, when it could write
\* them, listed each entity's, although a worker counts as there what another has
\* only claimed.
THEOREM CleanIsComplete == Spec => []CleanMeansComplete
<1>1. RegenInv => CleanMeansComplete
  BY DEF RegenInv
<1> QED
  BY <1>1, RegenInvariant, PTL

\* What a clean dry run says will be converted, the next clean run with the same
\* --force converts, each name once.
THEOREM ForecastHolds == Spec => []ForecastExact
<1>1. RegenInv => ForecastExact
  BY DEF RegenInv, ForecastInv
<1> QED
  BY <1>1, RegenInvariant, PTL

=============================================================================
