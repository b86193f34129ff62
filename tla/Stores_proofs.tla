---------------------------- MODULE Stores_proofs ----------------------------
(***************************************************************************)
(* Proofs about the three kinds of file that writers share: a file of the  *)
(* content store, a cached LZ4 block, and the disk cache with its cap.     *)
(***************************************************************************)
EXTENDS ContentStore, CacheEviction, Lz4Cache, Inodes_proofs,
        FiniteSetTheorems, FunctionTheorems, TLAPS

(***************************************************************************)
(* ContentStore, for any number of threads and processes: what processes   *)
(* of one thread each publish and read is whole, kills included; and of    *)
(* threads that share a process, and a temporary with it, that the file is *)
(* whole whenever none of them is writing.                                 *)
(***************************************************************************)
Before  == {"exists", "fetch", "open"}
Writing == {"write1", "write2"}
FetchPcs == Before \cup Writing \cup {"rename", "read", "copy", "ok", "err", "killed"}

FetchTypes ==
  /\ path \in Threads \cup {Nil}
  /\ tmp \in [Procs -> Threads \cup {Nil}]
  /\ held \in [Threads -> SUBSET Parts]
  /\ thread \in [Threads -> [pc : FetchPcs, ino : Threads \cup {Nil}, got : SUBSET Parts]]
  /\ \A t \in Threads :
       /\ thread[t].pc \in Writing \cup {"copy"} => thread[t].ino # Nil
       /\ thread[t].pc = "read" => path # Nil

\* What a step of a thread leaves to the others.
OtherThreads(t) == \A u \in Threads \ {t} : thread'[u] = thread[u]

LEMMA WritesPart ==
  ASSUME NEW t \in Threads
  PROVE  /\ WritePart(t, 1) => /\ thread[t].pc = "write1" /\ To(t, "write2")
                               /\ held' = [held EXCEPT ![thread[t].ino] = @ \cup {1}]
                               /\ UNCHANGED <<path, tmp>>
         /\ WritePart(t, 2) => /\ thread[t].pc = "write2" /\ To(t, "rename")
                               /\ held' = [held EXCEPT ![thread[t].ino] = @ \cup {2}]
                               /\ UNCHANGED <<path, tmp>>
BY DEF WritePart

LEMMA FetchTypesStep ==
  ASSUME ContentStoreAssumption, FetchTypes, [Next]_vars
  PROVE  FetchTypes'
<1> USE DEF ContentStoreAssumption, FetchTypes
<1>1. ASSUME NEW t \in Threads, Step(t)
      PROVE  FetchTypes'
  <2>1. CASE Ensure(t) \/ Fetch(t)
    <3>1. PICK pc \in {"fetch", "read", "open", "err"} : To(t, pc) /\ (pc = "read" => path # Nil)
      BY <2>1 DEF Ensure, Fetch
    <3>2. UNCHANGED <<path, tmp, held>>
      BY <2>1 DEF Ensure, Fetch
    <3> QED
      BY <3>1, <3>2 DEF To, FetchPcs, Before, Writing
  <2>2. CASE OpenTmp(t)
    <3>1. PICK i \in Threads :
            /\ i # Nil
            /\ tmp' = [tmp EXCEPT ![ProcOf[t]] = i]
            /\ held' = [held EXCEPT ![i] = {}]
            /\ thread' = [thread EXCEPT ![t].pc = "write1", ![t].ino = i]
            /\ UNCHANGED path
      BY <2>2 DEF OpenTmp, MyTmp, TmpOf
    <3>2. /\ thread' \in [Threads -> [pc : FetchPcs, ino : Threads \cup {Nil}, got : SUBSET Parts]]
          /\ thread'[t].pc = "write1" /\ thread'[t].ino # Nil
          /\ \A u \in Threads \ {t} : thread'[u] = thread[u]
      BY <3>1 DEF FetchPcs, Writing
    <3>3. path' = path /\ tmp' \in [Procs -> Threads \cup {Nil}] /\ held' \in [Threads -> SUBSET Parts]
      BY <3>1
    <3> QED
      BY <3>2, <3>3 DEF Writing
  <2>3. CASE WritePart(t, 1) \/ WritePart(t, 2)
    <3>1. PICK n \in Parts, pc \in {"write2", "rename"} :
            /\ thread[t].pc \in Writing /\ To(t, pc) /\ UNCHANGED <<path, tmp>>
            /\ held' = [held EXCEPT ![thread[t].ino] = @ \cup {n}]
      BY <2>3, WritesPart DEF Parts, Writing
    <3> QED
      BY <3>1 DEF To, FetchPcs, Writing
  <2>4. CASE RenameTmp(t) \/ RenameFails(t)
    BY <2>4 DEF RenameTmp, RenameFails, MyTmp, TmpOf, To, FetchPcs, Writing
  <2>5. CASE OpenRead(t) \/ Copy(t)
    BY <2>5 DEF OpenRead, Copy, FetchPcs, Writing
  <2> QED
    BY <1>1, <2>1, <2>2, <2>3, <2>4, <2>5 DEF Step
<1>2. ASSUME NEW p \in Procs, Crash(p)
      PROVE  FetchTypes'
  BY <1>2 DEF Crash, FetchPcs, Writing
<1>3. CASE UNCHANGED vars
  BY <1>3 DEF vars
<1> QED
  BY <1>1, <1>2, <1>3 DEF Next, Ended

-----------------------------------------------------------------------------
(* Processes of one thread each.                                           *)

OnePerProc == \A t, u \in Threads : ProcOf[t] = ProcOf[u] => t = u

Finished(i) == held[i] = Whole /\ thread[i].pc \notin Before \cup Writing \cup {"rename"}

\* Until a thread has published its temporary, it is alone with it.
Mine(t) ==
  LET pc == thread[t].pc IN
  /\ pc \in Before => tmp[ProcOf[t]] = Nil
  /\ pc \in Writing \cup {"rename"} => tmp[ProcOf[t]] = t /\ thread[t].ino = t
  /\ pc = "write2" => 1 \in held[t]
  /\ pc = "rename" => held[t] = Whole
  /\ pc = "copy" => Finished(thread[t].ino)
  /\ pc = "ok" => thread[t].got = Whole

ApartInv == FetchTypes /\ (\A t \in Threads : Mine(t)) /\ (path # Nil => Finished(path))

LEMMA ApartStep ==
  ASSUME ContentStoreAssumption, OnePerProc, ApartInv, [Next]_vars
  PROVE  ApartInv'
<1> USE DEF ContentStoreAssumption, ApartInv, Writing, Before
<1>t. FetchTypes'
  BY FetchTypesStep
<1>1. ASSUME NEW t \in Threads, Step(t)
      PROVE  ApartInv'
  <2> DEFINE p == ProcOf[t]
  <2>1. \A u \in Threads \ {t} : ProcOf[u] # p /\ ProcOf[u] \in Procs
    BY DEF OnePerProc
  \* It is enough that the step moves the thread and its temporary alone, and
  \* writes its own inode at most.
  <2>2. ASSUME OtherThreads(t), \A u \in Threads \ {t} : tmp'[ProcOf[u]] = tmp[ProcOf[u]],
               \A i \in Threads : Finished(i) => Finished(i)',
               \A i \in Threads \ {t} : held'[i] = held[i],
               Mine(t)', path' = path \/ (path' = t /\ Finished(t)')
        PROVE  ApartInv'
    <3>1. \A u \in Threads \ {t} : Mine(u)'
      <4> SUFFICES ASSUME NEW u \in Threads \ {t} PROVE Mine(u)'
        OBVIOUS
      <4>1. PICK i : i = thread[u].ino
        OBVIOUS
      <4>2. thread[u].pc = "copy" => i \in Threads /\ Finished(i)
        BY <4>1 DEF FetchTypes, Mine
      <4>3. thread'[u] = thread[u] /\ thread'[u].ino = i
        BY <2>2, <4>1 DEF OtherThreads
      <4>4. thread[u].pc = "copy" => Finished(thread[u].ino)'
        BY <2>2, <4>2, <4>3 DEF Finished
      <4> QED
        BY <2>2, <4>3, <4>4 DEF Mine
    <3>2. path' # Nil => Finished(path)'
      <4>1. PICK i : i = path
        OBVIOUS
      <4>2. CASE path' = path
        <5>1. i # Nil => i \in Threads /\ Finished(i)
          BY <4>1 DEF FetchTypes
        <5> QED
          BY <2>2, <4>1, <4>2, <5>1 DEF Finished
      <4>3. CASE path' = t /\ Finished(t)'
        BY <4>3 DEF Finished
      <4> QED
        BY <2>2, <4>2, <4>3
    <3> QED
      BY <1>t, <2>2, <3>1, <3>2
  <2>3. CASE Ensure(t) \/ Fetch(t)
    <3>1. PICK pc \in {"fetch", "read", "open", "err"} :
            thread[t].pc \in Before /\ To(t, pc) /\ UNCHANGED <<path, tmp, held>>
      BY <2>3 DEF Ensure, Fetch
    <3>2. OtherThreads(t) /\ thread'[t].pc = pc
      BY <3>1 DEF FetchTypes, To, OtherThreads
    <3>3. Mine(t)'
      BY <3>1, <3>2 DEF Mine
    <3>f. \A i \in Threads : Finished(i) => Finished(i)'
      BY <3>1, <3>2 DEF Finished, OtherThreads
    <3> QED
      BY <2>2, <3>1, <3>2, <3>3, <3>f
  <2>4. CASE OpenTmp(t)
    <3>1. /\ thread[t].pc = "open" /\ tmp[p] = Nil
          /\ tmp' = [tmp EXCEPT ![p] = t] /\ held' = [held EXCEPT ![t] = {}]
          /\ thread' = [thread EXCEPT ![t].pc = "write1", ![t].ino = t] /\ path' = path
      BY <2>4 DEF OpenTmp, MyTmp, TmpOf, Mine
    <3>2. OtherThreads(t) /\ thread'[t].pc = "write1" /\ thread'[t].ino = t /\ tmp'[p] = t
      BY <3>1 DEF FetchTypes, OtherThreads
    <3>3. Mine(t)'
      BY <3>2 DEF Mine
    <3>4. \A i \in Threads : Finished(i) => i # t
      BY <3>1 DEF Finished
    <3>5. \A i \in Threads \ {t} : held'[i] = held[i]
      BY <3>1 DEF FetchTypes
    <3>6. \A u \in Threads \ {t} : tmp'[ProcOf[u]] = tmp[ProcOf[u]]
      BY <2>1, <3>1 DEF FetchTypes
    <3>f. \A i \in Threads : Finished(i) => Finished(i)'
      BY <3>2, <3>4, <3>5 DEF Finished, OtherThreads
    <3> QED
      BY <2>2, <3>1, <3>2, <3>3, <3>4, <3>5, <3>6, <3>f
  <2>5. ASSUME NEW n \in Parts, NEW pc, pc = IF n = 1 THEN "write2" ELSE "rename",
               thread[t].pc = (IF n = 1 THEN "write1" ELSE "write2"), To(t, pc),
               held' = [held EXCEPT ![thread[t].ino] = @ \cup {n}], UNCHANGED <<path, tmp>>
        PROVE  ApartInv'
    <3>1. thread[t].ino = t /\ tmp[p] = t
      BY <2>5 DEF Mine
    <3>2. /\ OtherThreads(t) /\ thread'[t].pc = pc /\ thread'[t].ino = t
          /\ held'[t] = held[t] \cup {n} /\ held[t] \subseteq Parts
          /\ \A i \in Threads \ {t} : held'[i] = held[i]
      BY <2>5, <3>1 DEF FetchTypes, To, OtherThreads
    <3>3. Mine(t)'
      <4>1. n = 2 => 1 \in held[t]
        BY <2>5 DEF Mine
      <4> QED
        BY <2>5, <3>1, <3>2, <4>1 DEF Mine, Whole, Parts
    <3>4. \A i \in Threads : Finished(i) => i # t
      BY <2>5 DEF Finished
    <3>f. \A i \in Threads : Finished(i) => Finished(i)'
      BY <3>2, <3>4 DEF Finished, OtherThreads
    <3> QED
      BY <2>2, <2>5, <3>2, <3>3, <3>4, <3>f
  <2>6. CASE RenameTmp(t)
    <3>1. /\ thread[t].pc = "rename" /\ tmp[p] = t /\ held[t] = Whole /\ path' = t
          /\ tmp' = [tmp EXCEPT ![p] = Nil] /\ To(t, "read") /\ held' = held
      BY <2>6 DEF RenameTmp, MyTmp, TmpOf, Mine
    <3>2. OtherThreads(t) /\ thread'[t].pc = "read"
      BY <3>1 DEF FetchTypes, To, OtherThreads
    <3>3. Mine(t)' /\ Finished(t)'
      BY <3>1, <3>2 DEF Mine, Finished
    <3>4. \A u \in Threads \ {t} : tmp'[ProcOf[u]] = tmp[ProcOf[u]]
      BY <2>1, <3>1 DEF FetchTypes
    <3>f. \A i \in Threads : Finished(i) => Finished(i)'
      BY <3>1, <3>2 DEF Finished, OtherThreads
    <3> QED
      BY <2>2, <3>1, <3>2, <3>3, <3>4, <3>f
  <2>7. CASE RenameFails(t)
    BY <2>7 DEF RenameFails, MyTmp, TmpOf, Mine
  <2>8. CASE OpenRead(t)
    <3>1. /\ thread' = [thread EXCEPT ![t].pc = "copy", ![t].ino = path]
          /\ thread[t].pc = "read" /\ UNCHANGED <<path, tmp, held>>
      BY <2>8 DEF OpenRead
    <3>2. OtherThreads(t) /\ thread'[t].pc = "copy" /\ thread'[t].ino = path
      BY <3>1 DEF FetchTypes, OtherThreads
    <3>3. \A i \in Threads : Finished(i) => Finished(i)'
      BY <3>1, <3>2 DEF Finished, OtherThreads
    <3>4. PICK i : i = path
      OBVIOUS
    <3>5. i \in Threads /\ Finished(i)'
      BY <3>1, <3>3, <3>4 DEF FetchTypes
    <3>6. Mine(t)'
      BY <3>2, <3>4, <3>5 DEF Mine, Finished
    <3> QED
      BY <2>2, <3>1, <3>2, <3>3, <3>6
  <2>9. CASE Copy(t)
    <3>1. /\ thread' = [thread EXCEPT ![t].pc = "ok", ![t].got = held[thread[t].ino]]
          /\ thread[t].pc = "copy" /\ UNCHANGED <<path, tmp, held>>
      BY <2>9 DEF Copy
    <3>2. OtherThreads(t) /\ thread'[t].pc = "ok" /\ thread'[t].got = Whole
      BY <3>1 DEF FetchTypes, OtherThreads, Mine, Finished
    <3>3. Mine(t)'
      BY <3>2 DEF Mine
    <3>f. \A i \in Threads : Finished(i) => Finished(i)'
      BY <3>1, <3>2 DEF Finished, OtherThreads
    <3> QED
      BY <2>2, <3>1, <3>2, <3>3, <3>f
  <2> QED
    BY <1>1, <2>3, <2>4, <2>5, <2>6, <2>7, <2>8, <2>9, WritesPart DEF Step, Parts
<1>2. ASSUME NEW p \in Procs, Crash(p)
      PROVE  ApartInv'
  <2>1. /\ UNCHANGED <<path, tmp, held>>
        /\ \A t \in Threads :
             \/ thread'[t] = thread[t]
             \/ thread'[t].pc = "killed" /\ thread'[t].ino = thread[t].ino
    BY <1>2 DEF Crash, FetchTypes
  <2>2. \A i \in Threads : Finished(i) => Finished(i)'
    BY <2>1 DEF Finished
  <2>3. \A t \in Threads : Mine(t)'
    <3> SUFFICES ASSUME NEW t \in Threads PROVE Mine(t)'
      OBVIOUS
    <3>1. CASE thread'[t].pc = "killed"
      BY <3>1 DEF Mine
    <3>2. CASE thread'[t] = thread[t]
      <4>1. PICK i : i = thread[t].ino
        OBVIOUS
      <4>2. thread[t].pc = "copy" => i \in Threads /\ Finished(i)'
        BY <2>2, <4>1 DEF FetchTypes, Mine
      <4> QED
        BY <2>1, <3>2, <4>1, <4>2 DEF Mine, Finished
    <3> QED
      BY <2>1, <3>1, <3>2
  <2>4. path' # Nil => Finished(path)'
    <3>1. PICK i : i = path
      OBVIOUS
    <3>2. i # Nil => Finished(i)'
      BY <2>2, <3>1 DEF FetchTypes
    <3> QED
      BY <2>1, <3>1, <3>2 DEF Finished
  <2> QED
    BY <1>t, <2>3, <2>4
<1>3. CASE UNCHANGED vars
  BY <1>t, <1>3 DEF vars, Mine, Finished
<1> QED
  BY <1>1, <1>2, <1>3 DEF Next, Ended

\* Every file that a process publishes is whole, and every reader of it gets the
\* whole content, whichever of the processes are killed and when: the temporary
\* of each is its own (LocalContentStore::write).
THEOREM ProcessesPublishWhole ==
  ASSUME ContentStoreAssumption, OnePerProc
  PROVE  Spec => [](PublishedWhole /\ ReadsWhole)
<1>1. Init => ApartInv
  BY DEF Init, ApartInv, FetchTypes, Mine, FetchPcs, Before, Writing, ContentStoreAssumption
<1>2. ApartInv /\ [Next]_vars => ApartInv'
  BY ApartStep
<1>3. ApartInv => PublishedWhole /\ ReadsWhole
  BY DEF ApartInv, Mine, Finished, PublishedWhole, ReadsWhole
<1> QED
  BY <1>1, <1>2, <1>3, PTL DEF Spec

-----------------------------------------------------------------------------
(* Threads that share a process, and its temporary, when none is killed.   *)

Publishing == Writing \cup {"rename"}

\* A part that an inode lacks is going to be written by a thread that opened it:
\* whoever truncated the inode last has all of them still to write.
StillComes(i, n) ==
  \/ n \in held[i]
  \/ \E t \in Threads : /\ thread[t].ino = i
                        /\ thread[t].pc \in IF n = 1 THEN {"write1"} ELSE Writing
Linked(i) == path = i \/ \E p \in Procs : tmp[p] = i
Filled == \A i \in Threads : Linked(i) => \A n \in Parts : StillComes(i, n)

\* A temporary has someone who will rename it, and who finds none knows that it
\* has been published.
Attended == \A p \in Procs : tmp[p] # Nil =>
              \E t \in Threads : ProcOf[t] = p /\ thread[t].pc \in Publishing
Begun ==
  /\ \A t \in Threads : thread[t].pc \in Publishing => path # Nil \/ tmp[ProcOf[t]] # Nil
  /\ (\E t \in Threads : held[t] # {}) => path # Nil \/ \E p \in Procs : tmp[p] # Nil
SomeoneRead == path # Nil => \E t \in Threads : thread[t].pc \in {"read", "copy", "ok"}

TogetherInv ==
  /\ FetchTypes /\ Filled /\ Attended /\ Begun /\ SomeoneRead
  /\ \A t \in Threads : thread[t].pc # "killed"

LEMMA TogetherStep ==
  ASSUME ContentStoreAssumption, ~Crashes, TogetherInv, [Next]_vars
  PROVE  TogetherInv'
<1> USE DEF ContentStoreAssumption, TogetherInv, Writing
<1>t. FetchTypes'
  BY FetchTypesStep
<1>1. ASSUME NEW t \in Threads, Step(t)
      PROVE  TogetherInv'
  \* A step that leaves the files alone, of a thread that is at no file.
  <2>1. ASSUME UNCHANGED <<path, tmp, held>>, OtherThreads(t), thread[t].pc \notin Publishing,
               thread'[t].pc \notin Publishing \cup {"killed"},
               thread[t].pc \in {"read", "copy", "ok"} =>
                 thread'[t].pc \in {"read", "copy", "ok"}
        PROVE  TogetherInv'
    <3>1. \A u \in Threads : thread[u].pc \in Publishing => thread'[u] = thread[u]
      BY <2>1 DEF OtherThreads
    <3>2. Filled'
      BY <2>1, <3>1 DEF Filled, Linked, StillComes, Publishing
    <3>3. Attended' /\ Begun'
      BY <2>1, <3>1 DEF Attended, Begun, OtherThreads
    <3>4. SomeoneRead' /\ \A u \in Threads : thread'[u].pc # "killed"
      BY <2>1 DEF SomeoneRead, OtherThreads
    <3> QED
      BY <1>t, <3>2, <3>3, <3>4
  <2>2. CASE Ensure(t) \/ Fetch(t)
    <3>1. PICK pc \in {"fetch", "read", "open", "err"} :
            thread[t].pc \in Before /\ To(t, pc) /\ UNCHANGED <<path, tmp, held>>
      BY <2>2 DEF Ensure, Fetch, Before
    <3>2. OtherThreads(t) /\ thread'[t].pc = pc
      BY <3>1 DEF FetchTypes, To, OtherThreads
    <3> QED
      BY <2>1, <3>1, <3>2 DEF Publishing, Before
  <2>3. CASE OpenTmp(t)
    <3> DEFINE i == IF MyTmp(t) = Nil THEN t ELSE MyTmp(t)
    <3>1. /\ thread[t].pc = "open" /\ i \in Threads /\ i # Nil
          /\ tmp' = [tmp EXCEPT ![ProcOf[t]] = i] /\ held' = [held EXCEPT ![i] = {}]
          /\ thread' = [thread EXCEPT ![t].pc = "write1", ![t].ino = i] /\ path' = path
      BY <2>3 DEF OpenTmp, MyTmp, TmpOf, FetchTypes
    <3> HIDE DEF i
    <3>2. /\ OtherThreads(t) /\ thread'[t].pc = "write1" /\ thread'[t].ino = i
          /\ tmp'[ProcOf[t]] = i /\ \A p \in Procs \ {ProcOf[t]} : tmp'[p] = tmp[p]
          /\ \A j \in Threads \ {i} : held'[j] = held[j]
      BY <3>1 DEF FetchTypes, OtherThreads
    <3>3. ASSUME NEW j \in Threads, Linked(j)', NEW n \in Parts
          PROVE  StillComes(j, n)'
      <4>1. CASE j = i
        BY <3>2, <4>1 DEF StillComes, Parts
      <4>2. CASE j # i
        <5>1. StillComes(j, n)
          BY <3>1, <3>2, <3>3, <4>2 DEF Filled, Linked
        <5> QED
          BY <3>1, <3>2, <4>2, <5>1 DEF StillComes, OtherThreads
      <4> QED
        BY <4>1, <4>2
    <3>4. Filled'
      BY <3>3 DEF Filled
    <3>5. ASSUME NEW p \in Procs, tmp'[p] # Nil
          PROVE  \E u \in Threads : ProcOf[u] = p /\ thread'[u].pc \in Publishing
      <4>1. CASE p = ProcOf[t]
        BY <3>2, <4>1 DEF Publishing
      <4>2. CASE p # ProcOf[t]
        <5>1. PICK u \in Threads : ProcOf[u] = p /\ thread[u].pc \in Publishing
          BY <3>2, <3>5, <4>2 DEF Attended
        <5> QED
          BY <3>2, <4>2, <5>1 DEF OtherThreads
      <4> QED
        BY <4>1, <4>2
    <3>6. Attended'
      BY <3>5 DEF Attended
    <3>7. Begun'
      BY <3>1, <3>2 DEF Begun, Publishing, OtherThreads
    <3>8. SomeoneRead' /\ \A u \in Threads : thread'[u].pc # "killed"
      BY <3>1, <3>2 DEF SomeoneRead, OtherThreads
    <3> QED
      BY <1>t, <3>4, <3>6, <3>7, <3>8
  <2>4. ASSUME NEW n \in Parts, NEW pc, pc = IF n = 1 THEN "write2" ELSE "rename",
               thread[t].pc = (IF n = 1 THEN "write1" ELSE "write2"), To(t, pc),
               held' = [held EXCEPT ![thread[t].ino] = @ \cup {n}], UNCHANGED <<path, tmp>>
        PROVE  TogetherInv'
    <3>1. PICK i \in Threads : i = thread[t].ino
      BY <2>4 DEF FetchTypes
    <3>2. /\ OtherThreads(t) /\ thread'[t].pc = pc /\ thread'[t].ino = i
          /\ held'[i] = held[i] \cup {n}
          /\ \A j \in Threads \ {i} : held'[j] = held[j]
      BY <2>4, <3>1 DEF FetchTypes, To, OtherThreads
    <3>3. ASSUME NEW j \in Threads, NEW m \in Parts, StillComes(j, m)
          PROVE  StillComes(j, m)'
      <4>1. CASE m \in held[j]
        BY <3>2, <4>1 DEF StillComes
      <4>2. ASSUME NEW u \in Threads, thread[u].ino = j,
                   thread[u].pc \in IF m = 1 THEN {"write1"} ELSE Writing
            PROVE  StillComes(j, m)'
        <5>1. CASE u # t
          BY <3>2, <4>2, <5>1 DEF StillComes, OtherThreads
        <5>2. CASE u = t /\ m = n
          BY <3>1, <3>2, <4>2, <5>2 DEF StillComes
        <5>3. CASE u = t /\ m # n
          <6>1. n = 1 /\ m = 2 /\ pc = "write2" /\ j = i
            BY <2>4, <3>1, <4>2, <5>3 DEF Parts
          <6> QED
            BY <3>2, <6>1 DEF StillComes
        <5> QED
          BY <5>1, <5>2, <5>3
      <4> QED
        BY <3>3, <4>1, <4>2 DEF StillComes
    <3>4. Filled'
      BY <2>4, <3>3 DEF Filled, Linked
    <3>5. \A u \in Threads : thread'[u].pc \in Publishing <=> thread[u].pc \in Publishing
      BY <2>4, <3>2 DEF OtherThreads, Publishing
    <3>6. Attended'
      BY <2>4, <3>5 DEF Attended
    <3>7. Begun'
      BY <2>4, <3>5 DEF Begun, Publishing
    <3>8. SomeoneRead' /\ \A u \in Threads : thread'[u].pc # "killed"
      BY <2>4, <3>2 DEF SomeoneRead, OtherThreads
    <3> QED
      BY <1>t, <3>4, <3>6, <3>7, <3>8
  <2>5. CASE RenameTmp(t)
    <3>1. PICK i \in Threads : i = tmp[ProcOf[t]]
      BY <2>5 DEF RenameTmp, MyTmp, TmpOf, FetchTypes
    <3>2. /\ thread[t].pc = "rename" /\ path' = i /\ i # Nil /\ held' = held
          /\ tmp' = [tmp EXCEPT ![ProcOf[t]] = Nil] /\ To(t, "read")
      BY <2>5, <3>1 DEF RenameTmp, MyTmp, TmpOf
    <3>3. /\ OtherThreads(t) /\ thread'[t].pc = "read" /\ tmp'[ProcOf[t]] = Nil
          /\ \A p \in Procs \ {ProcOf[t]} : tmp'[p] = tmp[p]
      BY <3>2 DEF FetchTypes, To, OtherThreads
    <3>4. \A j \in Threads : Linked(j)' => Linked(j)
      BY <3>1, <3>2, <3>3 DEF Linked
    <3>5. \A j \in Threads, n \in Parts : StillComes(j, n) => StillComes(j, n)'
      BY <3>2, <3>3 DEF StillComes, OtherThreads
    <3>6. Filled'
      BY <3>4, <3>5 DEF Filled
    <3>7. Attended'
      BY <3>2, <3>3 DEF Attended, OtherThreads
    <3>8. Begun' /\ SomeoneRead' /\ \A u \in Threads : thread'[u].pc # "killed"
      BY <3>2, <3>3 DEF Begun, SomeoneRead, OtherThreads
    <3> QED
      BY <1>t, <3>6, <3>7, <3>8
  <2>6. CASE RenameFails(t)
    <3>1. /\ thread[t].pc = "rename" /\ tmp[ProcOf[t]] = Nil /\ To(t, "err")
          /\ UNCHANGED <<path, tmp, held>>
      BY <2>6 DEF RenameFails, MyTmp, TmpOf
    <3>2. OtherThreads(t) /\ thread'[t].pc = "err"
      BY <3>1 DEF FetchTypes, To, OtherThreads
    <3>3. Filled'
      BY <3>1, <3>2 DEF Filled, Linked, StillComes, OtherThreads
    <3>4. Attended'
      BY <3>1, <3>2 DEF Attended, OtherThreads
    <3>5. Begun'
      BY <3>1, <3>2 DEF Begun, OtherThreads, Publishing
    <3>6. SomeoneRead' /\ \A u \in Threads : thread'[u].pc # "killed"
      BY <3>1, <3>2 DEF SomeoneRead, OtherThreads
    <3> QED
      BY <1>t, <3>3, <3>4, <3>5, <3>6
  <2>7. CASE OpenRead(t) \/ Copy(t)
    <3>1. /\ UNCHANGED <<path, tmp, held>> /\ thread[t].pc \in {"read", "copy"}
          /\ OtherThreads(t) /\ thread'[t].pc \in {"copy", "ok"}
      BY <2>7 DEF OpenRead, Copy, FetchTypes, OtherThreads
    <3> QED
      BY <2>1, <3>1 DEF Publishing
  <2> QED
    BY <1>1, <2>2, <2>3, <2>4, <2>5, <2>6, <2>7, WritesPart DEF Step, Parts
<1>2. ASSUME NEW p \in Procs, Crash(p)
      PROVE  TogetherInv'
  BY <1>2 DEF Crash
<1>3. CASE UNCHANGED vars
  BY <1>t, <1>3 DEF vars, Filled, Linked, StillComes, Attended, Begun, SomeoneRead
<1> QED
  BY <1>1, <1>2, <1>3 DEF Next, Ended

\* However the threads of a process truncate, fill and rename the temporary that
\* they share, the file is whole when none of them is writing; and when all have
\* ended it is there, and one of them has read it, if any had the bytes.
THEOREM ThreadsLeaveWhole ==
  ASSUME ContentStoreAssumption, ~Crashes
  PROVE  Spec => []QuietWhole
<1>1. Init => TogetherInv
  BY DEF Init, TogetherInv, FetchTypes, Filled, Linked, Attended, Begun, SomeoneRead, FetchPcs, Before, Writing,
         Publishing, ContentStoreAssumption
<1>2. TogetherInv /\ [Next]_vars => TogetherInv'
  BY TogetherStep
<1>3. TogetherInv => QuietWhole
  <2> SUFFICES ASSUME TogetherInv PROVE QuietWhole
    OBVIOUS
  <2> USE DEF TogetherInv
  <2>1. ASSUME \A t \in Threads : thread[t].pc \notin Writing, path # Nil
        PROVE  held[path] = Whole
    <3>1. path \in Threads /\ held[path] \subseteq Parts
      BY <2>1 DEF FetchTypes
    <3>2. \A n \in Parts : n \in held[path]
      BY <2>1, <3>1 DEF Filled, Linked, StillComes, Writing
    <3> QED
      BY <3>1, <3>2 DEF Whole
  <2>2. ASSUME \A t \in Threads : thread[t].pc \in {"ok", "err"}, \E t \in Threads : held[t] # {}
        PROVE  path # Nil /\ \E t \in Threads : thread[t].pc = "ok"
    <3>1. \A p \in Procs : tmp[p] = Nil
      BY <2>2 DEF Attended, Publishing, Writing
    <3>2. path # Nil
      BY <2>2, <3>1 DEF Begun
    <3> QED
      BY <2>2, <3>2 DEF SomeoneRead
  <2> QED
    BY <2>1, <2>2 DEF QuietWhole, Writing
<1> QED
  BY <1>1, <1>2, <1>3, PTL DEF Spec

-----------------------------------------------------------------------------
(***************************************************************************)
(* CacheEviction, for any number of workers, bundles, sizes and writes, and*)
(* any cap: when no worker is busy the bundles fit, and a lone worker      *)
(* unlinks the oldest, and only while the cache is over.                   *)
(***************************************************************************)
Stamp   == [len : Nat, time : Nat]
Entry   == [path : CachePaths, len : Nat, time : Nat]
Bundles == Keys \X {"file"}
WorkerPcs     == {"idle", "write", "rename", "list", "evict"}
State   == [pc : WorkerPcs, key : Keys \cup {Absent}, todo : SUBSET CachePaths,
            files : SUBSET Entry, total : Nat]

EvictionTypes ==
  /\ cache \in [CachePaths -> Stamp \cup {Absent}]
  /\ clock \in Nat
  /\ worker \in [Workers -> State]
  /\ \A w \in Workers : worker[w].pc \in {"write", "rename"} => worker[w].key \in Keys
  /\ \A w \in Workers : IsFiniteSet(worker[w].files)

\* No bundle that is in the cache has escaped the listing of w.
Sees(w, p) == cache[p] # Absent => p \in worker[w].todo \/ Entries({p}) \subseteq worker[w].files
Covers(w)  == worker[w].pc \in {"list", "evict"} /\ \A p \in Bundles : Sees(w, p)

\* The sum a worker goes by is never less than what is left of its listing.
Reckons(w) == worker[w].pc = "evict" =>
  worker[w].todo = {} /\ SumLen(worker[w].files) <= worker[w].total

\* The bundles fit, or some worker will see to it: each rename starts a listing
\* that no bundle can have escaped.
FitsInv ==
  /\ \A w \in Workers : Reckons(w)
  /\ Total(Bundles) <= Cap \/ \E w \in Workers : Covers(w)

\* The listing of a worker that has the cache to itself is what is there.
Knows(w) ==
  /\ worker[w].pc = "list" => worker[w].files = Entries(CachePaths \ worker[w].todo)
  /\ worker[w].pc = "evict" => /\ worker[w].files = Entries(CachePaths)
                               /\ worker[w].total = SumLen(worker[w].files)
LoneInv ==
  \A w \in alone : Knows(w) /\ \A v \in Workers : v # w => worker[v].pc = "idle"

EvictionInv == EvictionTypes /\ FitsInv /\ alone \subseteq Workers /\ LoneInv

-----------------------------------------------------------------------------
\* The sum of the sizes of finitely many files is a number, ...
LEMMA BytesFinite ==
  ASSUME NEW files \in SUBSET Entry, IsFiniteSet(files)
  PROVE  IsFiniteSet(BytesOf(files)) /\ SumLen(files) \in Nat
<1> DEFINE Own(f) == {f} \X (1 .. f.len)
           Owns   == {Own(f) : f \in files}
           own    == [f \in files |-> Own(f)]
<1>1. own \in Surjection(files, Owns)
  BY DEF Surjection
<1>2. IsFiniteSet(Owns)
  BY <1>1, FS_Surjection
<1>3. ASSUME NEW f \in files PROVE IsFiniteSet(Own(f))
  <2>1. f.len \in Nat
    BY DEF Entry
  <2>2. IsFiniteSet(1 .. f.len)
    BY <2>1, 1 \in Int, f.len \in Int, FS_Interval
  <2>3. IsFiniteSet({f})
    BY FS_Singleton
  <2> QED
    BY <2>2, <2>3, FS_Product
<1>4. \A T \in Owns : IsFiniteSet(T)
  BY <1>3
<1>5. BytesOf(files) = UNION Owns
  BY DEF BytesOf
<1>6. IsFiniteSet(BytesOf(files))
  BY <1>2, <1>4, <1>5, FS_UNION
<1> QED
  BY <1>6, FS_CardinalityType DEF SumLen

\* ... none of no file, ...
LEMMA SumOfNone == SumLen({}) = 0
  BY FS_EmptySet DEF SumLen, BytesOf

\* ... no less of more files, ...
LEMMA SumGrows ==
  ASSUME NEW files \in SUBSET Entry, IsFiniteSet(files), NEW some \in SUBSET files
  PROVE  IsFiniteSet(some) /\ SumLen(some) \in Nat /\ SumLen(some) <= SumLen(files)
<1>1. IsFiniteSet(some)
  BY FS_Subset
<1>2. BytesOf(some) \in SUBSET BytesOf(files)
  BY DEF BytesOf
<1>3. IsFiniteSet(BytesOf(files)) /\ SumLen(some) \in Nat
  BY <1>1, BytesFinite
<1> QED
  BY <1>1, <1>2, <1>3, FS_Subset DEF SumLen

\* ... and less by its size without one of them.
LEMMA SumWithout ==
  ASSUME NEW files \in SUBSET Entry, IsFiniteSet(files), NEW f \in files
  PROVE  SumLen(files) = SumLen(files \ {f}) + f.len
<1> DEFINE own == {f} \X (1 .. f.len)
           others == BytesOf(files \ {f})
<1>1. f.len \in Nat
  BY DEF Entry
<1>2. IsFiniteSet({f}) /\ Cardinality({f}) = 1
  BY FS_Singleton
<1>3. IsFiniteSet(1 .. f.len) /\ Cardinality(1 .. f.len) = f.len
  <2>1. Cardinality(1 .. f.len) = IF 1 > f.len THEN 0 ELSE f.len - 1 + 1
    BY <1>1, 1 \in Int, f.len \in Int, FS_Interval
  <2>2. IsFiniteSet(1 .. f.len)
    BY <1>1, 1 \in Int, f.len \in Int, FS_Interval
  <2> QED
    BY <1>1, <2>1, <2>2
<1>4. IsFiniteSet(own) /\ Cardinality(own) = Cardinality({f}) * Cardinality(1 .. f.len)
  BY <1>2, <1>3, FS_Product
<1>5. Cardinality(own) = f.len
  BY <1>1, <1>2, <1>3, <1>4
<1>6. IsFiniteSet(files \ {f}) /\ files \ {f} \in SUBSET Entry
  BY FS_Difference
<1>7. IsFiniteSet(others) /\ SumLen(files \ {f}) \in Nat
  BY <1>6, BytesFinite
<1>8. BytesOf(files) = others \cup own
  BY DEF BytesOf
<1>9. others \cap own = {}
  BY DEF BytesOf
<1>10. Cardinality(others \cap own) = 0
  BY <1>9, FS_EmptySet
<1>11. Cardinality(others \cup own)
         = Cardinality(others) + Cardinality(own) - Cardinality(others \cap own)
  BY <1>4, <1>7, FS_Union
<1> QED
  BY <1>1, <1>5, <1>7, <1>8, <1>10, <1>11 DEF SumLen

-----------------------------------------------------------------------------
\* Entries have the type a listing keeps, and there are finitely many.
LEMMA EntriesTyped ==
  ASSUME EvictionTypes, NEW S \in SUBSET CachePaths
  PROVE  Entries(S) \in SUBSET Entry /\ IsFiniteSet(Entries(S))
<1> DEFINE present == {q \in S : cache[q] # Absent}
           entry   == [p \in present |-> [path |-> p, len |-> cache[p].len, time |-> cache[p].time]]
<1>1. \A p \in present : cache[p] \in Stamp
  BY DEF EvictionTypes
<1>2. Entries(S) \in SUBSET Entry
  BY <1>1 DEF Entries, Entry, Stamp
<1>3. IsFiniteSet({"file"} \cup {"tmp"})
  <2>1. IsFiniteSet({"file"})
    BY FS_Singleton
  <2> QED
    BY <2>1, FS_AddElement
<1>4. {"file", "tmp"} = {"file"} \cup {"tmp"}
  OBVIOUS
<1>5. IsFiniteSet(Keys \X {"file", "tmp"})
  BY <1>3, <1>4, FS_Product, EvictionAssumption
<1>6. present \in SUBSET (Keys \X {"file", "tmp"})
  BY DEF CachePaths
<1>7. IsFiniteSet(present)
  BY <1>5, <1>6, FS_Subset
<1>8. entry \in Surjection(present, Entries(S))
  BY DEF Surjection, Entries
<1>9. IsFiniteSet(Entries(S))
  BY <1>7, <1>8, FS_Surjection
<1> QED
  BY <1>2, <1>9

LEMMA BundlesArePaths == Bundles \in SUBSET CachePaths
  BY DEF Bundles, CachePaths

\* Nothing was put into the cache.
Shrinks == \A p \in Bundles : cache'[p] # Absent => cache'[p] = cache[p]

\* Then a listing that saw all bundles still does, ...
LEMMA SeenStays ==
  ASSUME Shrinks, NEW w \in Workers, worker'[w] = worker[w], Covers(w)
  PROVE  Covers(w)'
<1>1. ASSUME NEW p \in Bundles, cache'[p] # Absent
      PROVE  p \in worker'[w].todo \/ Entries({p})' \subseteq worker'[w].files
  <2>1. cache'[p] = cache[p] /\ cache[p] # Absent
    BY <1>1 DEF Shrinks
  <2>2. Entries({p})' = Entries({p})
    BY <2>1 DEF Entries
  <2> QED
    BY <2>1, <2>2 DEF Covers, Sees
<1> QED
  BY <1>1 DEF Covers, Sees

\* ... and bundles that fitted still do.
LEMMA FittingStays ==
  ASSUME EvictionTypes, Shrinks, Total(Bundles) <= Cap
  PROVE  Total(Bundles)' <= Cap
<1>1. Entries(Bundles) \in SUBSET Entry /\ IsFiniteSet(Entries(Bundles))
  BY EntriesTyped, BundlesArePaths
<1>2. Entries(Bundles)' \in SUBSET Entries(Bundles)
  BY DEF Shrinks, Entries
<1>3. SumLen(Entries(Bundles)') \in Nat /\ SumLen(Entries(Bundles)') <= SumLen(Entries(Bundles))
  BY <1>1, <1>2, SumGrows
<1>4. SumLen(Entries(Bundles)) \in Nat
  BY <1>1, BytesFinite
<1>5. Total(Bundles)' = SumLen(Entries(Bundles)')
  BY DEF Total, SumLen, BytesOf
<1> QED
  BY <1>3, <1>4, <1>5, EvictionAssumption DEF Total

-----------------------------------------------------------------------------
LEMMA InitInv == InitEviction => EvictionInv
<1> SUFFICES ASSUME InitEviction PROVE EvictionInv
  OBVIOUS
<1> USE DEF InitEviction, Idle
<1>1. EvictionTypes
  BY FS_EmptySet DEF EvictionTypes, State, WorkerPcs
<1>2. Entries(Bundles) = {}
  BY BundlesArePaths DEF Entries
<1>3. Total(Bundles) <= Cap
  BY <1>2, SumOfNone, EvictionAssumption DEF Total
<1>4. FitsInv
  BY <1>3 DEF FitsInv, Reckons
<1> QED
  BY <1>1, <1>4 DEF EvictionInv, LoneInv

\* Every step keeps the types.
LEMMA EvictionTypesStep ==
  ASSUME EvictionTypes, [NextEviction]_evictionVars
  PROVE  EvictionTypes'
<1>1. /\ \A p \in CachePaths : cache[p] # Absent => cache[p] \in Stamp
      /\ \A w \in Workers : worker[w] \in State
  BY DEF EvictionTypes
<1>2. ASSUME NEW w \in Workers, NEW new \in State, worker' = [worker EXCEPT ![w] = new],
             new.pc \in {"write", "rename"} => new.key \in Keys, IsFiniteSet(new.files),
             cache' \in [CachePaths -> Stamp \cup {Absent}], clock' \in Nat
      PROVE  EvictionTypes'
  <2>1. worker' \in [Workers -> State]
    BY <1>2 DEF EvictionTypes
  <2>2. \A v \in Workers : worker'[v] = IF v = w THEN new ELSE worker[v]
    BY <1>2 DEF EvictionTypes
  <2> QED
    BY <1>2, <2>1, <2>2 DEF EvictionTypes
<1>3. Idle \in State /\ [Idle EXCEPT !.pc = "list", !.todo = CachePaths] \in State
  BY DEF Idle, State, WorkerPcs
<1>4. /\ IsFiniteSet(Idle.files)
      /\ IsFiniteSet([Idle EXCEPT !.pc = "list", !.todo = CachePaths].files)
  BY FS_EmptySet DEF Idle
<1>5. ASSUME NEW w \in Workers, BeginList(w), cache' \in [CachePaths -> Stamp \cup {Absent}],
             clock' \in Nat
      PROVE  EvictionTypes'
  <2> DEFINE new == [Idle EXCEPT !.pc = "list", !.todo = CachePaths]
  <2>1. worker' = [worker EXCEPT ![w] = new] /\ new.pc = "list"
    BY <1>5 DEF BeginList, Idle
  <2> QED
    BY <1>2, <1>3, <1>4, <1>5, <2>1
<1>6. ASSUME NEW w \in Workers, NEW k \in Keys, StartWrite(w, k) PROVE EvictionTypes'
  <2> DEFINE new == [worker[w] EXCEPT !.pc = "write", !.key = k]
  <2>1. clock' \in Nat
    BY <1>6 DEF StartWrite, EvictionTypes
  <2>2. [len |-> 0, time |-> clock'] \in Stamp
    BY <2>1 DEF Stamp
  <2>3. cache' \in [CachePaths -> Stamp \cup {Absent}]
    BY <1>6, <2>2 DEF StartWrite, EvictionTypes
  <2>4. worker' = [worker EXCEPT ![w].pc = "write", ![w].key = k]
    BY <1>6 DEF StartWrite
  <2>5. worker' = [worker EXCEPT ![w] = new]
    BY <1>1, <2>4 DEF EvictionTypes, State
  <2>6. new \in State /\ new.key = k /\ new.files = worker[w].files
    BY <1>1 DEF State, WorkerPcs
  <2>7. IsFiniteSet(new.files)
    BY <2>6 DEF EvictionTypes
  <2> QED
    BY <1>2, <2>1, <2>3, <2>5, <2>6, <2>7
<1>7. ASSUME NEW w \in Workers, NEW k \in Keys, CacheHit(w, k) PROVE EvictionTypes'
  BY <1>5, <1>7 DEF CacheHit, EvictionTypes
<1>8. ASSUME NEW w \in Workers, NEW p \in CachePaths, NEW n \in Nat
      PROVE  (IF cache[p] = Absent THEN cache ELSE [cache EXCEPT ![p].len = n])
               \in [CachePaths -> Stamp \cup {Absent}]
  <2>1. CASE cache[p] = Absent
    BY <2>1 DEF EvictionTypes
  <2>2. CASE cache[p] # Absent
    <3>1. [cache[p] EXCEPT !.len = n] \in Stamp
      BY <1>1, <2>2 DEF Stamp
    <3>2. [cache EXCEPT ![p].len = n] = [cache EXCEPT ![p] = [cache[p] EXCEPT !.len = n]]
      BY DEF EvictionTypes
    <3> QED
      BY <2>2, <3>1, <3>2 DEF EvictionTypes
  <2> QED
    BY <2>1, <2>2
<1>9. ASSUME NEW w \in Workers, FinishWrite(w) PROVE EvictionTypes'
  <2> DEFINE new == [worker[w] EXCEPT !.pc = "rename"]
             k   == worker[w].key
  <2>1. k \in Keys /\ <<k, "tmp">> \in CachePaths /\ Size[k] \in Nat
    BY <1>9, EvictionAssumption DEF FinishWrite, EvictionTypes, CachePaths
  <2>2. cache' \in [CachePaths -> Stamp \cup {Absent}]
    BY <1>8, <1>9, <2>1 DEF FinishWrite
  <2>3. worker' = [worker EXCEPT ![w] = new]
    BY <1>1, <1>9 DEF FinishWrite, Goes, EvictionTypes, State
  <2>4. new \in State /\ new.key = k /\ new.files = worker[w].files
    BY <1>1 DEF State, WorkerPcs
  <2>5. IsFiniteSet(new.files) /\ clock' \in Nat
    BY <1>9, <2>4 DEF EvictionTypes, FinishWrite
  <2> QED
    BY <1>2, <2>1, <2>2, <2>3, <2>4, <2>5
<1>10. ASSUME NEW w \in Workers, FailWrite(w) PROVE EvictionTypes'
  <2>1. worker[w].key \in Keys /\ <<worker[w].key, "tmp">> \in CachePaths
    BY <1>10 DEF FailWrite, EvictionTypes, CachePaths
  <2>2. PICK n \in {0, Size[worker[w].key]} :
          cache' = IF cache[<<worker[w].key, "tmp">>] = Absent THEN cache
                   ELSE [cache EXCEPT ![<<worker[w].key, "tmp">>].len = n]
    BY <1>10 DEF FailWrite
  <2>3. Size[worker[w].key] \in Nat
    BY <2>1, EvictionAssumption
  <2>4. n \in Nat
    BY <2>2, <2>3
  <2>5. cache' \in [CachePaths -> Stamp \cup {Absent}]
    BY <1>8, <2>1, <2>2, <2>4
  <2>6. worker' = [worker EXCEPT ![w] = Idle] /\ Idle.pc = "idle" /\ clock' \in Nat
    BY <1>10 DEF FailWrite, Idle, EvictionTypes
  <2> QED
    BY <1>2, <1>3, <1>4, <2>5, <2>6
<1>11. ASSUME NEW w \in Workers, Rename(w) PROVE EvictionTypes'
  <2>1. worker[w].key \in Keys
    BY <1>11 DEF Rename, EvictionTypes
  <2>2. cache' \in [CachePaths -> Stamp \cup {Absent}]
    BY <1>11, <2>1 DEF Rename, EvictionTypes, CachePaths
  <2> QED
    BY <1>5, <1>11, <2>2 DEF Rename, EvictionTypes
<1>17. ASSUME NEW w \in Workers, RenameFail(w) PROVE EvictionTypes'
  BY <1>5, <1>17 DEF RenameFail, EvictionTypes
<1>12. ASSUME NEW w \in Workers, NEW p \in CachePaths, ListOne(w, p) PROVE EvictionTypes'
  <2> DEFINE new == [worker[w] EXCEPT !.todo = @ \ {p}, !.files = @ \cup Entries({p})]
  <2>1. Entries({p}) \in SUBSET Entry /\ IsFiniteSet(Entries({p}))
    BY EntriesTyped
  <2>2. IsFiniteSet(worker[w].files \cup Entries({p}))
    BY <2>1, FS_Union DEF EvictionTypes
  <2>3. worker' = [worker EXCEPT ![w] = new]
    BY <1>1, <1>12 DEF ListOne, EvictionTypes, State
  <2>4. /\ new \in State /\ new.pc = worker[w].pc
        /\ new.files = worker[w].files \cup Entries({p})
    BY <1>1, <2>1 DEF State
  <2>5. /\ new.pc = "list" /\ clock' \in Nat
        /\ cache' \in [CachePaths -> Stamp \cup {Absent}]
    BY <1>12, <2>4 DEF ListOne, EvictionTypes
  <2> QED
    BY <1>2, <2>2, <2>3, <2>4, <2>5
<1>13. ASSUME NEW w \in Workers, AddUp(w) PROVE EvictionTypes'
  <2> DEFINE new == [worker[w] EXCEPT !.pc = "evict", !.total = SumLen(worker[w].files)]
  <2>1. IsFiniteSet(worker[w].files) /\ worker[w].files \in SUBSET Entry
    BY <1>1 DEF EvictionTypes, State
  <2>2. SumLen(worker[w].files) \in Nat
    BY <2>1, BytesFinite
  <2>3. worker' = [worker EXCEPT ![w] = new]
    BY <1>1, <1>13 DEF AddUp, EvictionTypes, State
  <2>4. new \in State /\ new.pc = "evict" /\ new.files = worker[w].files
    BY <1>1, <2>2 DEF State, WorkerPcs
  <2>5. clock' \in Nat /\ cache' \in [CachePaths -> Stamp \cup {Absent}]
    BY <1>13 DEF AddUp, EvictionTypes
  <2> QED
    BY <1>2, <2>1, <2>3, <2>4, <2>5
<1>14. ASSUME NEW w \in Workers, NEW f \in worker[w].files, Evict(w, f) PROVE EvictionTypes'
  <2>1. f \in Entry /\ worker[w].total \in Nat
    BY <1>1 DEF State
  <2>2. f.len \in Nat /\ f.path \in CachePaths
    BY <2>1 DEF Entry
  <2>3. IsFiniteSet(worker[w].files \ {f})
    BY FS_Difference DEF EvictionTypes
  <2>4. cache' \in [CachePaths -> Stamp \cup {Absent}] /\ clock' \in Nat
    BY <1>14 DEF Evict, EvictionTypes
  <2>5. PICK n \in Nat : worker' = [worker EXCEPT ![w].files = @ \ {f}, ![w].total = n]
    <3>1. (IF cache[f.path] = Absent THEN worker[w].total
           ELSE IF worker[w].total >= f.len THEN worker[w].total - f.len ELSE 0) \in Nat
      BY <2>1, <2>2
    <3> QED
      BY <1>14, <3>1 DEF Evict
  <2> DEFINE new == [worker[w] EXCEPT !.files = @ \ {f}, !.total = n]
  <2>6. worker' = [worker EXCEPT ![w] = new]
    BY <1>1, <2>5 DEF EvictionTypes, State
  <2>7. new \in State /\ new.pc = worker[w].pc /\ new.files = worker[w].files \ {f}
    BY <1>1, <2>5 DEF State
  <2>8. new.pc = "evict"
    BY <1>14, <2>7 DEF Evict
  <2> QED
    BY <1>2, <2>3, <2>4, <2>6, <2>7, <2>8
<1>15. ASSUME NEW w \in Workers, EndEvict(w) PROVE EvictionTypes'
  <2>1. worker' = [worker EXCEPT ![w] = Idle] /\ Idle.pc = "idle" /\ clock' \in Nat
        /\ cache' \in [CachePaths -> Stamp \cup {Absent}]
    BY <1>15 DEF EndEvict, Idle, EvictionTypes
  <2> QED
    BY <1>2, <1>3, <1>4, <2>1
<1>16. CASE UNCHANGED evictionVars
  BY <1>16 DEF evictionVars, EvictionTypes
<1> QED
  BY <1>6, <1>7, <1>9, <1>10, <1>11, <1>12, <1>13, <1>14, <1>15, <1>16, <1>17
  DEF NextEviction

-----------------------------------------------------------------------------
\* A step that puts nothing into the cache, and leaves alone all workers but one
\* that has no listing, keeps what fits and who sees to it.
LEMMA FitsIfOthersStay ==
  ASSUME EvictionTypes, FitsInv, Shrinks, NEW w \in Workers,
         ~Covers(w), Reckons(w)', \A v \in Workers \ {w} : worker'[v] = worker[v]
  PROVE  FitsInv'
<1>1. \A v \in Workers : Reckons(v)'
  BY DEF FitsInv, Reckons
<1>2. CASE Total(Bundles) <= Cap
  BY <1>1, <1>2, FittingStays DEF FitsInv
<1>3. CASE \E v \in Workers : Covers(v)
  <2>1. PICK v \in Workers : Covers(v)
    BY <1>3
  <2>2. v # w /\ worker'[v] = worker[v]
    BY <2>1
  <2>3. Covers(v)'
    BY <2>1, <2>2, SeenStays
  <2> QED
    BY <1>1, <2>3 DEF FitsInv
<1> QED
  BY <1>2, <1>3 DEF FitsInv

\* One that keeps its own sum and goes on seeing all it saw may be at its listing.
LEMMA FitsIfSeen ==
  ASSUME EvictionTypes, FitsInv, Shrinks, NEW w \in Workers,
         Covers(w) => Covers(w)', Reckons(w)', \A v \in Workers \ {w} : worker'[v] = worker[v]
  PROVE  FitsInv'
<1>1. \A v \in Workers : Reckons(v)'
  BY DEF FitsInv, Reckons
<1>2. CASE Covers(w)
  BY <1>1, <1>2 DEF FitsInv
<1>3. CASE ~Covers(w)
  BY <1>3, FitsIfOthersStay
<1> QED
  BY <1>2, <1>3

\* A listing that has just begun sees all that is there.
LEMMA FitsIfListing ==
  ASSUME EvictionTypes, FitsInv, NEW w \in Workers, BeginList(w)
  PROVE  FitsInv'
<1>1. /\ worker'[w].pc = "list" /\ worker'[w].todo = CachePaths
      /\ \A v \in Workers \ {w} : worker'[v] = worker[v]
  BY DEF BeginList, Idle, EvictionTypes
<1>2. Covers(w)'
  BY <1>1, BundlesArePaths DEF Covers, Sees
<1>3. \A v \in Workers : Reckons(v)'
  BY <1>1 DEF FitsInv, Reckons
<1> QED
  BY <1>2, <1>3 DEF FitsInv

\* Every step keeps the bundles within the cap, or under the eyes of a worker.
LEMMA FitsStep ==
  ASSUME EvictionTypes, FitsInv, [NextEviction]_evictionVars
  PROVE  FitsInv'
<1>1. ASSUME NEW w \in Workers, NEW k \in Keys, StartWrite(w, k) PROVE FitsInv'
  <2>1. Shrinks
    BY <1>1 DEF StartWrite, Shrinks, Bundles, EvictionTypes, CachePaths
  <2>2. /\ worker[w].pc = "idle" /\ worker'[w].pc = "write"
        /\ \A v \in Workers \ {w} : worker'[v] = worker[v]
    BY <1>1 DEF StartWrite, EvictionTypes
  <2> QED
    BY <2>1, <2>2, FitsIfOthersStay DEF Covers, Reckons
<1>2. ASSUME NEW w \in Workers, NEW k \in Keys, CacheHit(w, k) PROVE FitsInv'
  BY <1>2, FitsIfListing DEF CacheHit
<1>3. ASSUME NEW w \in Workers, FinishWrite(w) PROVE FitsInv'
  <2>1. Shrinks
    BY <1>3 DEF FinishWrite, Shrinks, Bundles, EvictionTypes, CachePaths
  <2>2. /\ worker[w].pc = "write" /\ worker'[w].pc = "rename"
        /\ \A v \in Workers \ {w} : worker'[v] = worker[v]
    BY <1>3 DEF FinishWrite, Goes, EvictionTypes
  <2> QED
    BY <2>1, <2>2, FitsIfOthersStay DEF Covers, Reckons
<1>4. ASSUME NEW w \in Workers, FailWrite(w) PROVE FitsInv'
  <2>1. Shrinks
    BY <1>4 DEF FailWrite, Shrinks, Bundles, EvictionTypes, CachePaths
  <2>2. /\ worker[w].pc = "write" /\ worker'[w].pc = "idle"
        /\ \A v \in Workers \ {w} : worker'[v] = worker[v]
    BY <1>4 DEF FailWrite, Idle, EvictionTypes
  <2> QED
    BY <2>1, <2>2, FitsIfOthersStay DEF Covers, Reckons
<1>5. ASSUME NEW w \in Workers, Rename(w) PROVE FitsInv'
  BY <1>5, FitsIfListing DEF Rename
<1>11. ASSUME NEW w \in Workers, RenameFail(w) PROVE FitsInv'
  BY <1>11, FitsIfListing DEF RenameFail
<1>6. ASSUME NEW w \in Workers, NEW p \in CachePaths, ListOne(w, p) PROVE FitsInv'
  <2>1. Shrinks
    BY <1>6 DEF ListOne, Shrinks
  <2>2. /\ worker'[w].pc = "list" /\ worker'[w].todo = worker[w].todo \ {p}
        /\ worker'[w].files = worker[w].files \cup Entries({p})
        /\ \A v \in Workers \ {w} : worker'[v] = worker[v]
    BY <1>6 DEF ListOne, EvictionTypes
  <2>3. \A q \in Bundles : Entries({q})' = Entries({q})
    BY <1>6 DEF ListOne, Entries
  <2>4. Covers(w) => Covers(w)'
    BY <1>6, <2>2, <2>3 DEF Covers, Sees, ListOne
  <2> QED
    BY <2>1, <2>2, <2>4, FitsIfSeen DEF Reckons
<1>7. ASSUME NEW w \in Workers, AddUp(w) PROVE FitsInv'
  <2>1. Shrinks
    BY <1>7 DEF AddUp, Shrinks
  <2>2. /\ worker'[w].pc = "evict" /\ worker'[w].todo = {} /\ worker[w].todo = {}
        /\ worker'[w].files = worker[w].files /\ worker'[w].total = SumLen(worker[w].files)
        /\ \A v \in Workers \ {w} : worker'[v] = worker[v]
    BY <1>7 DEF AddUp, EvictionTypes
  <2>3. \A q \in Bundles : Entries({q})' = Entries({q})
    BY <1>7 DEF AddUp, Entries
  <2>4. Covers(w) => Covers(w)'
    BY <1>7, <2>2, <2>3 DEF Covers, Sees, AddUp
  <2>5. SumLen(worker[w].files) \in Nat
    BY BytesFinite DEF EvictionTypes, State
  <2>6. SumLen(worker'[w].files) <= worker'[w].total
    BY <2>2, <2>5
  <2>7. Reckons(w)'
    BY <2>2, <2>6 DEF Reckons, SumLen, BytesOf
  <2> QED
    BY <2>1, <2>2, <2>4, <2>7, FitsIfSeen
<1>8. ASSUME NEW w \in Workers, NEW f \in worker[w].files, Evict(w, f) PROVE FitsInv'
  <2> DEFINE files == worker[w].files
             rest  == worker[w].files \ {f}
  <2>1. f \in Entry /\ files \in SUBSET Entry /\ IsFiniteSet(files) /\ worker[w].total \in Nat
    BY DEF EvictionTypes, State
  <2>2. Shrinks
    BY <1>8 DEF Evict, Shrinks, EvictionTypes, Bundles, CachePaths
  <2>3. /\ worker'[w].pc = "evict" /\ worker'[w].todo = worker[w].todo /\ worker'[w].files = rest
        /\ worker'[w].total = IF cache[f.path] = Absent THEN worker[w].total
                              ELSE IF worker[w].total >= f.len THEN worker[w].total - f.len ELSE 0
        /\ \A v \in Workers \ {w} : worker'[v] = worker[v]
    BY <1>8 DEF Evict, EvictionTypes
  <2>4. worker[w].pc = "evict" /\ worker[w].todo = {} /\ SumLen(files) <= worker[w].total
    BY <1>8 DEF Evict, FitsInv, Reckons
  <2>5. SumLen(files) \in Nat /\ SumLen(files) = SumLen(rest) + f.len
    BY <2>1, BytesFinite, SumWithout
  <2>6. SumLen(rest) \in Nat
    BY <2>1, SumGrows
  <2>7. f.len \in Nat
    BY <2>1 DEF Entry
  <2>8. SumLen(rest) <= worker'[w].total
    BY <2>1, <2>3, <2>4, <2>5, <2>6, <2>7
  <2>9. Reckons(w)'
    BY <2>3, <2>4, <2>8 DEF Reckons, SumLen, BytesOf
  <2>10. ASSUME Covers(w), NEW p \in Bundles, cache'[p] # Absent
         PROVE  Entries({p})' \subseteq worker'[w].files
    <3>1. cache'[p] = cache[p] /\ p # f.path
      BY <1>8, <2>1, <2>10 DEF Evict, EvictionTypes, Bundles, CachePaths, Entry
    <3>2. Entries({p})' = Entries({p}) /\ f \notin Entries({p})
      BY <3>1 DEF Entries
    <3>3. Entries({p}) \subseteq files
      BY <2>4, <2>10, <3>1 DEF Covers, Sees
    <3> QED
      BY <2>3, <3>2, <3>3
  <2>11. Covers(w) => Covers(w)'
    BY <2>3, <2>10 DEF Covers, Sees
  <2> QED
    BY <2>2, <2>3, <2>9, <2>11, FitsIfSeen
<1>9. ASSUME NEW w \in Workers, EndEvict(w) PROVE FitsInv'
  <2>1. Shrinks
    BY <1>9 DEF EndEvict, Shrinks
  <2>2. /\ worker'[w].pc = "idle" /\ worker[w].pc = "evict"
        /\ \A v \in Workers \ {w} : worker'[v] = worker[v]
    BY <1>9 DEF EndEvict, Idle, EvictionTypes
  <2>3. CASE ~Covers(w)
    BY <2>1, <2>2, <2>3, FitsIfOthersStay DEF Reckons
  <2>4. CASE Covers(w)
    <3>1. worker[w].todo = {} /\ SumLen(worker[w].files) <= worker[w].total
      BY <2>2 DEF FitsInv, Reckons
    <3>2. Entries(Bundles) \subseteq worker[w].files
      BY <2>4, <3>1 DEF Covers, Sees, Entries
    <3>3. worker[w].files \in SUBSET Entry /\ IsFiniteSet(worker[w].files) /\ worker[w].total \in Nat
      BY DEF EvictionTypes, State
    <3>4. /\ SumLen(Entries(Bundles)) \in Nat /\ SumLen(worker[w].files) \in Nat
          /\ SumLen(Entries(Bundles)) <= SumLen(worker[w].files)
      BY <3>2, <3>3, SumGrows, BytesFinite
    <3>5. Total(Bundles) <= Cap
      <4>1. CASE worker[w].total <= Cap
        BY <3>1, <3>3, <3>4, <4>1, EvictionAssumption DEF Total
      <4>2. CASE worker[w].files = {}
        BY <3>4, <4>2, SumOfNone, EvictionAssumption DEF Total
      <4> QED
        BY <1>9, <4>1, <4>2 DEF EndEvict
    <3>6. \A v \in Workers : Reckons(v)'
      BY <2>2 DEF FitsInv, Reckons
    <3> QED
      BY <2>1, <3>5, <3>6, FittingStays DEF FitsInv
  <2> QED
    BY <2>3, <2>4
<1>10. CASE UNCHANGED evictionVars
  BY <1>10 DEF evictionVars, FitsInv, Reckons, Covers, Sees, Total, Entries, SumLen, BytesOf
<1> QED
  BY <1>1, <1>2, <1>3, <1>4, <1>5, <1>6, <1>7, <1>8, <1>9, <1>10, <1>11 DEF NextEviction

-----------------------------------------------------------------------------
\* A worker is alone from its start, if all others are idle, until one starts.
LEMMA StartsAlone ==
  ASSUME NEW w \in Workers, Starts(w), NEW u \in alone',
         \A v \in Workers \ {w} : worker'[v] = worker[v]
  PROVE  u = w /\ \A v \in Workers : v # u => worker'[v].pc = "idle"
  BY DEF Starts

\* A step of a busy worker is, if one is alone, a step of the one that is.
LEMMA StepsAlone ==
  ASSUME LoneInv, NEW w \in Workers, worker[w].pc # "idle", alone' = alone,
         \A v \in Workers \ {w} : worker'[v] = worker[v], w \in alone => Knows(w)'
  PROVE  LoneInv'
<1> SUFFICES ASSUME NEW u \in alone
             PROVE  Knows(u)' /\ \A v \in Workers : v # u => worker'[v].pc = "idle"
  BY DEF LoneInv
<1>1. u = w
  BY DEF LoneInv
<1> QED
  BY <1>1 DEF LoneInv

\* Every step keeps what a lone worker knows.
LEMMA LoneStep ==
  ASSUME EvictionTypes, alone \subseteq Workers, LoneInv,
         [NextEviction]_evictionVars
  PROVE  alone' \subseteq Workers /\ LoneInv'
<1>1. ASSUME NEW w \in Workers, NEW k \in Keys, StartWrite(w, k)
      PROVE  alone' \subseteq Workers /\ LoneInv'
  <2>1. /\ worker'[w].pc = "write" /\ Starts(w)
        /\ \A v \in Workers \ {w} : worker'[v] = worker[v]
    BY <1>1 DEF StartWrite, EvictionTypes
  <2>2. \A u \in alone' : Knows(u)' /\ \A v \in Workers : v # u => worker'[v].pc = "idle"
    BY <2>1, StartsAlone DEF Knows
  <2> QED
    BY <2>1, <2>2 DEF LoneInv, Starts
<1>2. ASSUME NEW w \in Workers, BeginList(w)
      PROVE  /\ Knows(w)'
             /\ \A v \in Workers \ {w} : worker'[v] = worker[v]
  <2>1. /\ worker'[w].pc = "list" /\ worker'[w].todo = CachePaths /\ worker'[w].files = {}
        /\ \A v \in Workers \ {w} : worker'[v] = worker[v]
    BY <1>2 DEF BeginList, Idle, EvictionTypes
  <2>2. CachePaths \ worker'[w].todo = {}
    BY <2>1
  <2> QED
    BY <2>1, <2>2 DEF Knows, Entries
<1>3. ASSUME NEW w \in Workers, NEW k \in Keys, CacheHit(w, k)
      PROVE  alone' \subseteq Workers /\ LoneInv'
  <2>1. Starts(w) /\ Knows(w)' /\ \A v \in Workers \ {w} : worker'[v] = worker[v]
    BY <1>2, <1>3 DEF CacheHit
  <2>2. \A u \in alone' : Knows(u)' /\ \A v \in Workers : v # u => worker'[v].pc = "idle"
    BY <2>1, StartsAlone
  <2> QED
    BY <2>1, <2>2 DEF LoneInv, Starts
<1>4. ASSUME NEW w \in Workers, FinishWrite(w) \/ FailWrite(w)
      PROVE  alone' \subseteq Workers /\ LoneInv'
  <2>1. /\ worker[w].pc = "write" /\ worker'[w].pc \in {"rename", "idle"} /\ alone' = alone
        /\ \A v \in Workers \ {w} : worker'[v] = worker[v]
    BY <1>4 DEF FinishWrite, FailWrite, Goes, Idle, EvictionTypes, State
  <2> QED
    BY <2>1, StepsAlone DEF Knows
<1>5. ASSUME NEW w \in Workers, Rename(w)
      PROVE  alone' \subseteq Workers /\ LoneInv'
  BY <1>2, <1>5, StepsAlone DEF Rename
<1>11. ASSUME NEW w \in Workers, RenameFail(w)
      PROVE  alone' \subseteq Workers /\ LoneInv'
  BY <1>2, <1>11, StepsAlone DEF RenameFail
<1>6. ASSUME NEW w \in Workers, NEW p \in CachePaths, ListOne(w, p)
      PROVE  alone' \subseteq Workers /\ LoneInv'
  <2>1. /\ worker[w].pc = "list" /\ worker'[w].pc = "list" /\ p \in worker[w].todo
        /\ worker'[w].todo = worker[w].todo \ {p} /\ alone' = alone /\ cache' = cache
        /\ worker'[w].files = worker[w].files \cup Entries({p})
        /\ \A v \in Workers \ {w} : worker'[v] = worker[v]
    BY <1>6 DEF ListOne, EvictionTypes
  <2>2. Entries(CachePaths \ worker[w].todo) \cup Entries({p})
          = Entries(CachePaths \ (worker[w].todo \ {p}))
    BY <2>1 DEF Entries
  <2>3. w \in alone => worker'[w].files = Entries(CachePaths \ worker'[w].todo)
    BY <2>1, <2>2 DEF LoneInv, Knows
  <2>4. w \in alone => Knows(w)'
    BY <2>1, <2>3 DEF Knows, Entries
  <2> QED
    BY <2>1, <2>4, StepsAlone
<1>7. ASSUME NEW w \in Workers, AddUp(w)
      PROVE  alone' \subseteq Workers /\ LoneInv'
  <2>1. /\ worker[w].pc = "list" /\ worker'[w].pc = "evict" /\ worker[w].todo = {}
        /\ worker'[w].files = worker[w].files /\ alone' = alone /\ cache' = cache
        /\ worker'[w].total = SumLen(worker[w].files)
        /\ \A v \in Workers \ {w} : worker'[v] = worker[v]
    BY <1>7 DEF AddUp, EvictionTypes
  <2>2. CachePaths \ worker[w].todo = CachePaths
    BY <2>1
  <2>3. w \in alone => worker'[w].files = Entries(CachePaths)
    BY <2>1, <2>2 DEF LoneInv, Knows
  <2>4. w \in alone => Knows(w)'
    BY <2>1, <2>3 DEF Knows, Entries, SumLen, BytesOf
  <2> QED
    BY <2>1, <2>4, StepsAlone
<1>8. ASSUME NEW w \in Workers, NEW f \in worker[w].files, Evict(w, f)
      PROVE  alone' \subseteq Workers /\ LoneInv'
  <2> DEFINE files == worker[w].files
             rest  == worker[w].files \ {f}
  <2>1. /\ worker[w].pc = "evict" /\ worker'[w].pc = "evict" /\ alone' = alone
        /\ cache' = [cache EXCEPT ![f.path] = Absent] /\ worker'[w].files = rest
        /\ worker'[w].total = IF cache[f.path] = Absent THEN worker[w].total
                              ELSE IF worker[w].total >= f.len THEN worker[w].total - f.len ELSE 0
        /\ \A v \in Workers \ {w} : worker'[v] = worker[v]
    BY <1>8 DEF Evict, EvictionTypes
  <2>2. f \in Entry /\ files \in SUBSET Entry /\ IsFiniteSet(files)
    BY DEF EvictionTypes, State
  <2>3. SumLen(files) = SumLen(rest) + f.len /\ SumLen(rest) \in Nat
    BY <2>2, SumWithout, SumGrows
  <2>4. f.len \in Nat /\ f.path \in CachePaths
    BY <2>2 DEF Entry
  <2>5. ASSUME w \in alone PROVE Knows(w)'
    <3>1. files = Entries(CachePaths) /\ worker[w].total = SumLen(files)
      BY <2>1, <2>5 DEF LoneInv, Knows
    <3>2. cache[f.path] # Absent
      BY <3>1 DEF Entries
    <3>3. worker'[w].total = SumLen(rest)
      BY <2>1, <2>3, <2>4, <3>1, <3>2
    <3>4. \A p \in CachePaths : cache'[p] = IF p = f.path THEN Absent ELSE cache[p]
      BY <2>1 DEF EvictionTypes
    <3>5. rest = Entries(CachePaths)'
      BY <2>4, <3>1, <3>4 DEF Entries
    <3> QED
      BY <2>1, <3>3, <3>5 DEF Knows, SumLen, BytesOf
  <2> QED
    BY <2>1, <2>5, StepsAlone
<1>9. ASSUME NEW w \in Workers, EndEvict(w)
      PROVE  alone' \subseteq Workers /\ LoneInv'
  <2>1. /\ worker[w].pc = "evict" /\ worker'[w].pc = "idle" /\ alone' = alone
        /\ \A v \in Workers \ {w} : worker'[v] = worker[v]
    BY <1>9 DEF EndEvict, Idle, EvictionTypes
  <2> QED
    BY <2>1, StepsAlone DEF Knows
<1>10. CASE UNCHANGED evictionVars
  BY <1>10 DEF evictionVars, LoneInv, Knows, Entries, SumLen, BytesOf
<1> QED
  BY <1>1, <1>3, <1>4, <1>5, <1>6, <1>7, <1>8, <1>9, <1>10, <1>11 DEF NextEviction

-----------------------------------------------------------------------------
LEMMA EvictionInvariant == SpecEviction => []EvictionInv
<1>1. InitEviction => EvictionInv
  BY InitInv
<1>2. EvictionInv /\ [NextEviction]_evictionVars => EvictionInv'
  BY EvictionTypesStep, FitsStep, LoneStep DEF EvictionInv
<1> QED
  BY <1>1, <1>2, PTL DEF SpecEviction

\* When no worker is busy the bundles fit within the cap (enforce_lru), although
\* each worker judges by a listing, and a sum, that others make stale.
THEOREM CacheFits == SpecEviction => []FitsWhenQuiet
<1>1. EvictionInv => FitsWhenQuiet
  BY DEF EvictionInv, FitsInv, Covers, FitsWhenQuiet, Quiet, Bundles
<1> QED
  BY <1>1, EvictionInvariant, PTL

\* A worker that has had the cache to itself unlinks only while the sum is over
\* the cap, and nothing that is younger than what stays (enforce_lru).
THEOREM OldestGoFirst == SpecEviction => UnlinksOldestOver
<1>1. ASSUME EvictionInv, [NextEviction]_evictionVars
      PROVE  OldestOver
  <2> SUFFICES ASSUME NEW p \in CachePaths, cache[p] # Absent, cache'[p] = Absent,
                      NEW w \in alone, worker[w].pc = "evict"
               PROVE  /\ Total(CachePaths) > Cap
                      /\ \A q \in CachePaths : cache'[q] # Absent => cache[p].time <= cache'[q].time
    BY DEF OldestOver, UnlinkedAlone
  <2> USE <1>1
  <2>1. /\ w \in Workers
        /\ worker[w].files = Entries(CachePaths) /\ worker[w].total = SumLen(worker[w].files)
        /\ \A v \in Workers : v # w => worker[v].pc = "idle"
    BY DEF EvictionInv, LoneInv, Knows
  <2>2. PICK f \in worker[w].files : Evict(w, f)
    <3>1. ASSUME NEW v \in Workers, NEW k \in Keys, StartWrite(v, k) PROVE FALSE
      <4>1. cache' = [cache EXCEPT ![<<k, "tmp">>] = [len |-> 0, time |-> clock']] /\ clock' \in Nat
        BY <3>1 DEF StartWrite, EvictionInv, EvictionTypes
      <4>2. [len |-> 0, time |-> clock'] # Absent
        BY <4>1, EvictionAssumption
      <4> QED
        BY <4>1, <4>2 DEF EvictionInv, EvictionTypes
    <3>2. \A v \in Workers : ~FinishWrite(v) /\ ~FailWrite(v) /\ ~Rename(v)
      BY <2>1 DEF FinishWrite, FailWrite, Rename
    <3>3. \A v \in Workers, f \in Entry : Evict(v, f) => v = w
      BY <2>1 DEF Evict
    <3>4. cache' # cache
      OBVIOUS
    <3>5. \A v \in Workers : worker[v].files \subseteq Entry
      BY DEF EvictionInv, EvictionTypes, State
    <3> QED
      BY <3>1, <3>2, <3>3, <3>4, <3>5
      DEF NextEviction, RenameFail, CacheHit, ListOne, AddUp, EndEvict, evictionVars
  <2>3. f \in Entry /\ p = f.path
    BY <2>2 DEF Evict, EvictionInv, EvictionTypes, State
  <2>4. Total(CachePaths) > Cap
    BY <2>1, <2>2 DEF Evict, Total
  <2>5. ASSUME NEW q \in CachePaths, cache'[q] # Absent PROVE cache[p].time <= cache'[q].time
    <3>1. q # f.path /\ cache'[q] = cache[q]
      BY <2>2, <2>3, <2>5 DEF Evict, EvictionInv, EvictionTypes
    <3>2. PICK g \in worker[w].files : g = [path |-> q, len |-> cache[q].len, time |-> cache[q].time]
      BY <2>1, <2>5, <3>1 DEF Entries
    <3>3. f.time <= g.time
      BY <2>2 DEF Evict, Oldest
    <3>4. f.time = cache[p].time
      BY <2>1, <2>3 DEF Entries
    <3> QED
      BY <3>1, <3>2, <3>3, <3>4
  <2> QED
    BY <2>4, <2>5
<1> QED
  BY <1>1, EvictionInvariant, PTL DEF SpecEviction, UnlinksOldestOver

-----------------------------------------------------------------------------
(***************************************************************************)
(* Lz4Cache, for any number of threads, processes, failed writes and kills:*)
(* a call returns what the compressor gives as long as no two writers have *)
(* the temporary open together, and without faults the file is whole       *)
(* whenever nobody writes.                                                 *)
(***************************************************************************)
InodeMax == 2 + Cardinality(Callers)
Blocks == {"whole", "part"}
CallPcs == {"mem", "read", "open", "write", "rename", "insert", "done"}

BlockTypes ==
  /\ disk \in Disks(BlockPaths, InodeMax)
  /\ mem \in [Processes -> Blocks \cup {NoBlock}]
  /\ call \in [Callers -> [pc : CallPcs, ino : 0 .. InodeMax, got : Blocks \cup {NoBlock}]]
  /\ faults \in Nat /\ shared \in BOOLEAN
  /\ \A t \in Callers : call[t].pc \in {"read", "write"} => call[t].ino # NoInode

\* While no two writers have met, whoever holds the temporary has it alone, and
\* what is published, read or remembered is whole: the inode of the temporary is
\* another.
Writers == {t \in Callers : call[t].pc \in {"write", "rename"}}
Kept(i) == i \in 1 .. InodeMax /\ disk.held[i] = "whole" /\ i # disk.link["tmp"]
Holds(t) ==
  /\ call[t].got \in {NoBlock, "whole"}
  /\ call[t].pc = "read" => Kept(call[t].ino)
  /\ call[t].pc = "write" => call[t].ino = disk.link["tmp"]
  /\ call[t].pc = "rename" => Exists(disk, "tmp") /\ Content(disk, "tmp") = "whole"
AloneInv ==
  /\ \A t, u \in Writers : t = u
  /\ \A t \in Callers : Holds(t)
  /\ \A p \in Processes : mem[p] \in {NoBlock, "whole"}
  /\ Exists(disk, "key") => Kept(disk.link["key"])

\* Without faults what is linked is whole, or someone who opened it will write it.
Coming(i) == disk.held[i] = "whole" \/ \E t \in Callers : Is(t, "write") /\ call[t].ino = i
QuietInv == \A p \in BlockPaths : Exists(disk, p) => Coming(disk.link[p])

CacheInv == BlockTypes /\ (~shared => AloneInv) /\ (faults = 0 => QuietInv)

-----------------------------------------------------------------------------
LEMMA Numbers ==
  ASSUME Lz4CacheAssumption
  PROVE  /\ IsFiniteSet(Callers) /\ Cardinality(Callers) \in Nat /\ InodeMax \in Nat \ {0}
         /\ IsFiniteSet(BlockPaths) /\ Cardinality(BlockPaths) = 2
         /\ \A t \in Callers : ProcessOf[t] \in Processes
<1>1. IsFiniteSet(Callers) /\ Cardinality(Callers) \in Nat
  BY FS_CardinalityType DEF Lz4CacheAssumption
<1>2. IsFiniteSet({"key"}) /\ Cardinality({"key"}) = 1
  BY FS_Singleton
<1>3. /\ IsFiniteSet({"key"} \cup {"tmp"})
      /\ Cardinality({"key"} \cup {"tmp"}) = 2
  BY <1>2, FS_AddElement
<1>4. BlockPaths = {"key"} \cup {"tmp"}
  BY DEF BlockPaths
<1> QED
  BY <1>1, <1>3, <1>4 DEF InodeMax, Lz4CacheAssumption

\* The temporary is opened where it is, or at an inode of its own.
LEMMA OpensRight ==
  ASSUME Lz4CacheAssumption, BlockTypes
  PROVE  LET i == Opened(disk, "tmp", Open) IN
         /\ i \in 1 .. InodeMax
         /\ disk.link["tmp"] = i \/ (disk.link["tmp"] = NoInode /\ Unused(disk, i, Open))
<1> DEFINE f == [t \in Callers |-> call[t].ino]
<1>1. Open = {f[t] : t \in Callers}
  BY DEF Open
<1>2. IsFiniteSet(Open) /\ Cardinality(Open) <= Cardinality(Callers)
  <2> HIDE DEF f
  <2> QED
    BY <1>1, Numbers, FewValues
<1>3. Cardinality(Open) \in Nat
  BY <1>2, FS_CardinalityType
<1>4. Cardinality(Open) + Cardinality(BlockPaths) <= InodeMax
  BY <1>2, <1>3, Numbers DEF InodeMax
<1>5. "tmp" \in BlockPaths /\ disk \in Disks(BlockPaths, InodeMax)
  BY DEF BlockPaths, BlockTypes
<1> QED
  BY <1>2, <1>4, <1>5, Numbers, OpenedRight

\* What the steps do to the files and to the caller.
OtherCallers(t) == \A u \in Callers \ {t} : call'[u] = call[u]

LEMMA OpenTmpIs ==
  ASSUME Lz4CacheAssumption, BlockTypes, NEW t \in Callers, OpenBlockTmp(t)
  PROVE  \E i \in 1 .. InodeMax :
           /\ disk.link["tmp"] = i \/ (disk.link["tmp"] = NoInode /\ Unused(disk, i, Open))
           /\ disk' \in Disks(BlockPaths, InodeMax) /\ disk'.link["tmp"] = i
           /\ disk'.link["key"] = disk.link["key"]
           /\ \A j \in 1 .. InodeMax : j # i => disk'.held[j] = disk.held[j]
           /\ call' = [call EXCEPT ![t].pc = "write", ![t].ino = i]
<1> DEFINE i == Opened(disk, "tmp", Open)
<1>1. /\ i \in 1 .. InodeMax
      /\ disk.link["tmp"] = i \/ (disk.link["tmp"] = NoInode /\ Unused(disk, i, Open))
  BY OpensRight
<1>2. disk' = Truncated(disk, "tmp", i) /\ call' = [call EXCEPT ![t].pc = "write", ![t].ino = i]
  BY DEF OpenBlockTmp
<1>3. "tmp" \in BlockPaths /\ "key" \in BlockPaths \ {"tmp"} /\ InodeMax \in Nat
  BY Numbers DEF BlockPaths
<1> HIDE DEF i
<1>4. /\ disk' \in Disks(BlockPaths, InodeMax) /\ disk'.link["tmp"] = i
      /\ \A q \in BlockPaths \ {"tmp"} : disk'.link[q] = disk.link[q]
      /\ \A j \in 1 .. InodeMax : j # i => disk'.held[j] = disk.held[j]
  BY <1>1, <1>2, <1>3, TruncatedIs DEF BlockTypes
<1> QED
  BY <1>1, <1>2, <1>3, <1>4

LEMMA WriteTmpIs ==
  ASSUME Lz4CacheAssumption, BlockTypes, NEW t \in Callers, WriteTmp(t)
  PROVE  /\ call[t].ino \in 1 .. InodeMax
         /\ disk' \in Disks(BlockPaths, InodeMax) /\ disk'.link = disk.link
         /\ disk'.held[call[t].ino] = "whole"
         /\ \A j \in 1 .. InodeMax : j # call[t].ino => disk'.held[j] = disk.held[j]
BY Numbers, WrittenIs DEF WriteTmp, Is, BlockTypes, NoInode

LEMMA RenameTmpIs ==
  ASSUME Lz4CacheAssumption, BlockTypes, NEW t \in Callers, RenameBlockTmp(t)
  PROVE  /\ disk' \in Disks(BlockPaths, InodeMax)
         /\ IF Exists(disk, "tmp")
            THEN /\ disk'.link["key"] = disk.link["tmp"] /\ disk'.link["tmp"] = NoInode
                 /\ \A j \in 1 .. InodeMax :
                      j \in Open \/ j = disk.link["tmp"] => disk'.held[j] = disk.held[j]
            ELSE disk' = disk
<1> DEFINE d == Renamed(disk, "tmp", "key")
<1>1. /\ d \in Disks(BlockPaths, InodeMax) /\ d.held = disk.held
      /\ d.link["key"] = disk.link["tmp"] /\ d.link["tmp"] = NoInode
  BY Numbers, RenamedIs DEF BlockTypes, BlockPaths
<1>2. CASE Exists(disk, "tmp")
  <2>1. disk' = Swept(d, Open)
    BY <1>2 DEF RenameBlockTmp
  <2> HIDE DEF d
  <2>2. /\ disk' \in Disks(BlockPaths, InodeMax) /\ disk'.link = d.link
        /\ \A j \in 1 .. InodeMax : ~Unused(d, j, Open) => disk'.held[j] = d.held[j]
    BY <1>1, <2>1, Numbers, SweptIs
  <2>3. \A j : j \in Open \/ j = disk.link["tmp"] => ~Unused(d, j, Open)
    BY <1>1 DEF Unused, Disks, BlockPaths
  <2> QED
    BY <1>1, <1>2, <2>2, <2>3
<1>3. CASE ~Exists(disk, "tmp")
  BY <1>3 DEF RenameBlockTmp, BlockTypes
<1> QED
  BY <1>2, <1>3

LEMMA RestartIs ==
  ASSUME Lz4CacheAssumption, BlockTypes, NEW p \in Processes, Restart(p)
  PROVE  /\ disk' \in Disks(BlockPaths, InodeMax) /\ disk'.link = disk.link
         /\ \A q \in BlockPaths : Exists(disk, q) => disk'.held[disk.link[q]] = disk.held[disk.link[q]]
         /\ \A t \in Callers : call'[t] = call[t] \/ call'[t] = New
         /\ \A t \in Callers : ProcessOf[t] # p => call'[t] = call[t] /\
              (call[t].ino # NoInode => disk'.held[call[t].ino] = disk.held[call[t].ino])
         /\ \A t \in Callers : ProcessOf[t] = p => call'[t] = New
<1> DEFINE open == {call[t].ino : t \in {u \in Callers : ProcessOf[u] # p}}
<1>1. /\ disk' = Swept(disk, open)
      /\ call' = [t \in Callers |-> IF ProcessOf[t] = p THEN New ELSE call[t]]
  BY DEF Restart
<1>2. /\ \A t \in Callers : ProcessOf[t] # p => call[t].ino \in open
      /\ \A t \in Callers : call[t].ino # NoInode => call[t].ino \in 1 .. InodeMax
      /\ \A q \in BlockPaths : Exists(disk, q) => disk.link[q] \in 1 .. InodeMax
  BY Numbers DEF BlockTypes, Disks, NoInode, Exists
<1> HIDE DEF open
<1>3. /\ disk' \in Disks(BlockPaths, InodeMax) /\ disk'.link = disk.link
      /\ \A i \in 1 .. InodeMax : ~Unused(disk, i, open) => disk'.held[i] = disk.held[i]
  BY <1>1, Numbers, SweptIs DEF BlockTypes
<1>4. /\ \A i \in open : ~Unused(disk, i, open)
      /\ \A q \in BlockPaths : ~Unused(disk, disk.link[q], open)
  BY DEF Unused, BlockTypes, Disks
<1> QED
  BY <1>1, <1>2, <1>3, <1>4

LEMMA BlockTypesStep ==
  ASSUME Lz4CacheAssumption, BlockTypes, [NextBlocks]_blockVars
  PROVE  BlockTypes'
<1> USE DEF BlockTypes, CallPcs, Blocks
<1>n. NoInode \in 0 .. InodeMax /\ \A t \in Callers : ProcessOf[t] \in Processes
  BY Numbers DEF NoInode
<1>m. /\ \A i \in 1 .. InodeMax : i \in 0 .. InodeMax /\ i # NoInode
      /\ \A i \in 0 .. InodeMax : i # NoInode => i \in 1 .. InodeMax
  BY Numbers DEF NoInode
<1>1. ASSUME NEW t \in Callers, Compress(t)
      PROVE  BlockTypes'
  <2>1. CASE MemHit(t)
    BY <1>n, <2>1 DEF MemHit, Returns
  <2>2. CASE MemMiss(t)
    <3>1. CASE Exists(disk, "key")
      <4>1. disk.link["key"] \in 0 .. InodeMax /\ disk.link["key"] # NoInode
        BY <3>1 DEF Exists, Disks, BlockPaths
      <4> QED
        BY <2>2, <3>1, <4>1 DEF MemMiss
    <3>2. CASE ~Exists(disk, "key")
      BY <2>2, <3>2 DEF MemMiss, Goto
    <3> QED
      BY <3>1, <3>2
  <2>3. CASE Read(t)
    <3>1. disk.held[call[t].ino] \in Blocks
      BY <1>m, <2>3 DEF Read, Is, Disks
    <3> QED
      BY <1>n, <2>3, <3>1 DEF Read, Returns
  <2>4. CASE OpenBlockTmp(t)
    <3>1. PICK i \in 1 .. InodeMax :
            /\ disk' \in Disks(BlockPaths, InodeMax)
            /\ call' = [call EXCEPT ![t].pc = "write", ![t].ino = i]
      BY <2>4, OpenTmpIs
    <3>2. UNCHANGED <<mem, faults>> /\ shared' \in BOOLEAN
      BY <2>4 DEF OpenBlockTmp
    <3>3. call' \in [Callers -> [pc : CallPcs, ino : 0 .. InodeMax, got : Blocks \cup {NoBlock}]]
      BY <1>m, <3>1
    <3>4. \A u \in Callers : call'[u].pc \in {"read", "write"} => call'[u].ino # NoInode
      BY <1>m, <3>1
    <3> QED
      BY <3>1, <3>2, <3>3, <3>4
  <2>5. CASE WriteTmp(t)
    <3>1. disk' \in Disks(BlockPaths, InodeMax)
      BY <2>5, WriteTmpIs
    <3> QED
      BY <1>n, <2>5, <3>1 DEF WriteTmp
  <2>6. CASE WriteTmpFail(t)
    <3>1. /\ UNCHANGED <<mem, disk, shared>> /\ faults' = faults + 1
          /\ call' = [call EXCEPT ![t].pc = "insert", ![t].ino = NoInode]
      BY <2>6 DEF WriteTmpFail, Fault
    <3>2. faults' \in Nat
      BY <3>1
    <3>3. call' \in [Callers -> [pc : CallPcs, ino : 0 .. InodeMax, got : Blocks \cup {NoBlock}]]
      BY <1>n, <3>1
    <3>4. \A u \in Callers : call'[u].pc \in {"read", "write"} => call'[u].ino # NoInode
      BY <3>1
    <3> QED
      BY <3>1, <3>2, <3>3, <3>4
  <2>7. CASE RenameBlockTmp(t)
    <3>1. disk' \in Disks(BlockPaths, InodeMax)
      BY <2>7, RenameTmpIs
    <3> QED
      BY <2>7, <3>1 DEF RenameBlockTmp, Goto, Is
  <2>8. CASE Insert(t)
    BY <1>n, <2>8 DEF Insert, Returns
  <2> QED
    BY <1>1, <2>1, <2>2, <2>3, <2>4, <2>5, <2>6, <2>7, <2>8 DEF Compress
<1>2. ASSUME NEW p \in Processes, Restart(p)
      PROVE  BlockTypes'
  <2>1. /\ disk' \in Disks(BlockPaths, InodeMax)
        /\ mem' = [mem EXCEPT ![p] = NoBlock] /\ faults' = faults + 1 /\ shared' = shared
        /\ call' = [t \in Callers |-> IF ProcessOf[t] = p THEN New ELSE call[t]]
    BY <1>2, RestartIs DEF Restart, Fault
  <2> QED
    BY <1>n, <2>1 DEF New
<1>3. CASE UNCHANGED blockVars
  BY <1>3 DEF blockVars
<1> QED
  BY <1>1, <1>2, <1>3 DEF NextBlocks

-----------------------------------------------------------------------------
\* A step of a thread that is the only writer, or touches no file.
LEMMA AloneFrame ==
  ASSUME BlockTypes, AloneInv, NEW t \in Callers, OtherCallers(t),
         \/ \A u \in Callers \ {t} : u \notin Writers
         \/ disk' = disk /\ call'[t].pc \notin {"write", "rename"},
         \A i \in Open : Kept(i) => Kept(i)',
         Holds(t)', \A p \in Processes : mem'[p] \in {NoBlock, "whole"},
         Exists(disk, "key")' => Kept(disk.link["key"])'
  PROVE  AloneInv'
<1>1. ASSUME NEW u \in Callers \ {t}
      PROVE  Holds(u)'
  <2>1. PICK i : i = call[u].ino
    OBVIOUS
  <2>2. call'[u] = call[u] /\ Holds(u) /\ i \in Open
    BY <2>1 DEF OtherCallers, AloneInv, Open
  <2>3. call'[u].pc = "read" => Kept(call[u].ino)'
    <3>1. call'[u].pc = "read" => Kept(i)'
      BY <2>1, <2>2 DEF Holds
    <3> QED
      BY <2>1, <2>2, <3>1 DEF Kept
  <2> QED
    BY <2>2, <2>3 DEF Holds, Writers
<1>2. \A u, v \in Writers' : u = v
  BY DEF AloneInv, Writers, OtherCallers
<1> QED
  BY <1>1, <1>2 DEF AloneInv

LEMMA AloneStep ==
  ASSUME Lz4CacheAssumption, BlockTypes, ~shared => AloneInv, ~shared', [NextBlocks]_blockVars
  PROVE  AloneInv'
<1>s. ~shared /\ AloneInv
  BY DEF NextBlocks, Compress, MemHit, MemMiss, Read, OpenBlockTmp, WriteTmp, WriteTmpFail, RenameBlockTmp, Insert,
         Restart, blockVars, BlockTypes
<1>n. \A i \in 0 .. InodeMax : i # NoInode => i \in 1 .. InodeMax
  BY Numbers DEF NoInode
<1>k. Exists(disk, "key") => Kept(disk.link["key"])
  BY <1>s DEF AloneInv
<1>m. \A p \in Processes : mem[p] \in {NoBlock, "whole"}
  BY <1>s DEF AloneInv
<1>w. \A t \in Callers : Holds(t)
  BY <1>s DEF AloneInv
<1>p. \A t \in Callers : ProcessOf[t] \in Processes
  BY Numbers
<1>1. ASSUME NEW t \in Callers, Compress(t)
      PROVE  AloneInv'
  \* A step that touches no file.
  <2>1. ASSUME disk' = disk, OtherCallers(t), call'[t].pc \notin {"write", "rename"}, Holds(t)',
               \A p \in Processes : mem'[p] \in {NoBlock, "whole"}
        PROVE  AloneInv'
    <3>1. \A i \in Open : Kept(i) => Kept(i)'
      BY <2>1 DEF Kept
    <3>2. Exists(disk, "key")' => Kept(disk.link["key"])'
      BY <1>k, <2>1 DEF Kept, Exists
    <3> QED
      BY <1>s, <2>1, <3>1, <3>2, AloneFrame
  <2>2. CASE MemHit(t)
    <3>1. OtherCallers(t) /\ call'[t].pc = "done" /\ call'[t].got = mem[ProcessOf[t]]
      BY <2>2 DEF MemHit, Returns, OtherCallers, BlockTypes
    <3>2. Holds(t)'
      BY <1>m, <1>p, <3>1 DEF Holds
    <3> QED
      BY <1>m, <2>1, <2>2, <3>1, <3>2 DEF MemHit
  <2>3. CASE MemMiss(t)
    <3>1. PICK i : i = disk.link["key"]
      OBVIOUS
    <3>2. /\ OtherCallers(t) /\ disk' = disk /\ mem' = mem /\ call'[t].got = call[t].got
          /\ \/ call'[t].pc = "open"
             \/ Exists(disk, "key") /\ call'[t].pc = "read" /\ call'[t].ino = i
      BY <2>3, <3>1 DEF MemMiss, Goto, OtherCallers, BlockTypes
    <3>3. call'[t].pc = "read" => Kept(i)'
      BY <1>k, <3>1, <3>2 DEF Kept
    <3>4. Holds(t)'
      BY <1>w, <3>2, <3>3 DEF Holds, Kept
    <3> QED
      BY <1>m, <2>1, <3>2, <3>4
  <2>4. CASE Read(t)
    <3>1. disk.held[call[t].ino] = "whole"
      BY <1>w, <2>4 DEF Read, Is, Holds, Kept
    <3>2. /\ OtherCallers(t) /\ disk' = disk /\ call'[t].pc = "done" /\ call'[t].got = "whole"
          /\ mem' = [mem EXCEPT ![ProcessOf[t]] = "whole"]
      BY <2>4, <3>1 DEF Read, Returns, OtherCallers, BlockTypes
    <3>3. Holds(t)' /\ \A p \in Processes : mem'[p] \in {NoBlock, "whole"}
      BY <1>m, <3>2 DEF Holds, BlockTypes
    <3> QED
      BY <2>1, <3>2, <3>3
  <2>5. CASE OpenBlockTmp(t)
    <3>1. PICK i \in 1 .. InodeMax :
           /\ disk.link["tmp"] = i \/ (disk.link["tmp"] = NoInode /\ Unused(disk, i, Open))
           /\ disk' \in Disks(BlockPaths, InodeMax) /\ disk'.link["tmp"] = i
           /\ disk'.link["key"] = disk.link["key"]
           /\ \A j \in 1 .. InodeMax : j # i => disk'.held[j] = disk.held[j]
           /\ call' = [call EXCEPT ![t].pc = "write", ![t].ino = i]
      BY <2>5, OpenTmpIs
    <3>2. OtherCallers(t) /\ mem' = mem /\ \A u \in Callers \ {t} : u \notin Writers
      BY <2>5, <3>1 DEF OpenBlockTmp, OtherCallers, BlockTypes, Writers
    <3>3. /\ call'[t].pc = "write" /\ call'[t].ino = i /\ call'[t].got = call[t].got
      BY <3>1 DEF BlockTypes
    <3>4. Holds(t)'
      BY <1>w, <3>1, <3>3 DEF Holds
    <3>5. \A j \in Open \cup {disk.link["key"]} : Kept(j) => j # i
      BY <3>1 DEF Kept, Unused, BlockTypes, Disks, BlockPaths
    <3>6. \A j \in Open \cup {disk.link["key"]} : Kept(j) => Kept(j)'
      BY <3>1, <3>5 DEF Kept
    <3>7. Exists(disk, "key")' => Kept(disk.link["key"])'
      <4>1. PICK j : j = disk.link["key"]
        OBVIOUS
      <4>2. j # NoInode => Kept(j)'
        BY <1>k, <3>6, <4>1 DEF Exists
      <4> QED
        BY <3>1, <4>1, <4>2 DEF Kept, Exists
    <3> QED
      BY <1>s, <1>m, <3>2, <3>4, <3>6, <3>7, AloneFrame
  <2>6. CASE WriteTmp(t)
    <3>1. PICK i \in 1 .. InodeMax : i = call[t].ino
      BY <2>6, WriteTmpIs
    <3>2. /\ disk'.link = disk.link /\ disk'.held[i] = "whole"
          /\ \A j \in 1 .. InodeMax : j # i => disk'.held[j] = disk.held[j]
      BY <2>6, <3>1, WriteTmpIs
    <3>3. call[t].pc = "write" /\ disk.link["tmp"] = i
      BY <1>w, <2>6, <3>1 DEF WriteTmp, Is, Holds
    <3>4. /\ OtherCallers(t) /\ mem' = mem /\ call'[t].pc = "rename" /\ call'[t].got = call[t].got
      BY <2>6 DEF WriteTmp, OtherCallers, BlockTypes
    <3>5. \A u \in Callers \ {t} : u \notin Writers
      BY <1>s, <3>3 DEF AloneInv, Writers
    <3>6. Holds(t)'
      BY <1>w, <3>1, <3>2, <3>3, <3>4 DEF Holds, Exists, Content, NoInode
    <3>7. \A j : Kept(j) => Kept(j)'
      BY <3>2, <3>3 DEF Kept
    <3>8. Exists(disk, "key")' => Kept(disk.link["key"])'
      BY <1>k, <3>2, <3>3 DEF Exists, Kept
    <3> QED
      BY <1>s, <1>m, <3>4, <3>5, <3>6, <3>7, <3>8, AloneFrame
  <2>7. CASE WriteTmpFail(t)
    <3>1. /\ OtherCallers(t) /\ disk' = disk /\ mem' = mem /\ call'[t].pc = "insert"
          /\ call'[t].got = call[t].got
      BY <2>7 DEF WriteTmpFail, OtherCallers, BlockTypes
    <3>2. Holds(t)'
      BY <1>w, <3>1 DEF Holds
    <3> QED
      BY <1>m, <2>1, <3>1, <3>2
  <2>8. CASE RenameBlockTmp(t)
    <3>1. /\ Exists(disk, "tmp") /\ Content(disk, "tmp") = "whole"
          /\ \A u \in Callers \ {t} : u \notin Writers
      BY <1>s, <1>w, <2>8 DEF RenameBlockTmp, Is, Holds, AloneInv, Writers
    <3>2. PICK i \in 1 .. InodeMax : i = disk.link["tmp"]
      BY <1>n, <3>1 DEF Exists, BlockTypes, Disks, BlockPaths
    <3>3. /\ disk'.link["key"] = i /\ disk'.link["tmp"] = NoInode
          /\ \A j \in 1 .. InodeMax : j \in Open \cup {i} => disk'.held[j] = disk.held[j]
      BY <2>8, <3>1, <3>2, RenameTmpIs
    <3>4. /\ OtherCallers(t) /\ mem' = mem /\ call'[t].pc = "insert" /\ call'[t].got = call[t].got
      BY <2>8 DEF RenameBlockTmp, Goto, OtherCallers, BlockTypes
    <3>5. Holds(t)'
      BY <1>w, <3>4 DEF Holds
    <3>6. \A j \in Open : Kept(j) => Kept(j)'
      BY <3>3 DEF Kept, NoInode
    <3>7. Kept(disk.link["key"])'
      BY <3>1, <3>2, <3>3 DEF Kept, Content, NoInode
    <3> QED
      BY <1>s, <1>m, <3>1, <3>4, <3>5, <3>6, <3>7, AloneFrame
  <2>9. CASE Insert(t)
    <3>1. /\ OtherCallers(t) /\ disk' = disk /\ call'[t].pc = "done" /\ call'[t].got = "whole"
          /\ mem' = [mem EXCEPT ![ProcessOf[t]] = "whole"]
      BY <2>9 DEF Insert, Returns, OtherCallers, BlockTypes
    <3>2. Holds(t)' /\ \A p \in Processes : mem'[p] \in {NoBlock, "whole"}
      BY <1>m, <3>1 DEF Holds, BlockTypes
    <3> QED
      BY <2>1, <3>1, <3>2
  <2> QED
    BY <1>1, <2>2, <2>3, <2>4, <2>5, <2>6, <2>7, <2>8, <2>9 DEF Compress
<1>2. ASSUME NEW p \in Processes, Restart(p)
      PROVE  AloneInv'
  <2>1. mem' = [mem EXCEPT ![p] = NoBlock]
    BY <1>2 DEF Restart
  <2>2. \A q \in Processes : mem'[q] \in {NoBlock, "whole"}
    BY <1>m, <2>1 DEF BlockTypes
  <2>3. /\ disk'.link = disk.link
        /\ \A q \in BlockPaths : Exists(disk, q) => disk'.held[disk.link[q]] = disk.held[disk.link[q]]
        /\ \A t \in Callers : call'[t] = call[t] \/ call'[t] = New
        /\ \A t \in Callers : ProcessOf[t] # p => call'[t] = call[t] /\
             (call[t].ino # NoInode => disk'.held[call[t].ino] = disk.held[call[t].ino])
        /\ \A t \in Callers : ProcessOf[t] = p => call'[t] = New
    BY <1>2, RestartIs
  <2>4. Exists(disk, "key")' => Kept(disk.link["key"])'
    BY <1>k, <2>3 DEF Exists, Kept, BlockPaths
  <2>5. \A t, u \in Writers' : t = u
    BY <1>s, <2>3 DEF AloneInv, Writers, New
  <2>6. ASSUME NEW t \in Callers
        PROVE  Holds(t)'
    <3>1. CASE ProcessOf[t] = p
      BY <2>3, <3>1 DEF New, Holds
    <3>2. CASE ProcessOf[t] # p
      <4>1. call'[t] = call[t] /\ (call[t].ino # NoInode =>
              disk'.held[call[t].ino] = disk.held[call[t].ino])
        BY <2>3, <3>2
      <4>2. call[t].pc = "read" => Kept(call[t].ino)'
        BY <1>w, <2>3, <4>1 DEF Holds, Kept, NoInode
      <4>3. call[t].pc = "rename" => Exists(disk', "tmp") /\ Content(disk', "tmp") = "whole"
        BY <1>w, <2>3 DEF Holds, Exists, Content, BlockPaths
      <4> QED
        BY <1>w, <2>3, <4>1, <4>2, <4>3 DEF Holds
    <3> QED
      BY <3>1, <3>2
  <2> QED
    BY <2>2, <2>4, <2>5, <2>6 DEF AloneInv
<1>3. CASE UNCHANGED blockVars
  BY <1>s, <1>3 DEF blockVars, AloneInv, Writers, Holds, Kept, Exists
<1> QED
  BY <1>1, <1>2, <1>3 DEF NextBlocks

-----------------------------------------------------------------------------
\* A step that leaves the files and who writes them alone.
LEMMA QuietFrame ==
  ASSUME QuietInv, NEW t \in Callers, OtherCallers(t), disk' = disk, call[t].pc # "write"
  PROVE  QuietInv'
<1>1. ASSUME NEW i, Coming(i)
      PROVE  Coming(i)'
  BY <1>1 DEF Coming, Is, OtherCallers
<1>2. ASSUME NEW p \in BlockPaths, Exists(disk', p)
      PROVE  Coming(disk.link[p])'
  <2>1. PICK i : i = disk.link[p]
    OBVIOUS
  <2>2. Coming(i)'
    BY <1>1, <1>2, <2>1 DEF QuietInv, Exists
  <2> QED
    BY <2>1, <2>2 DEF Coming
<1> QED
  BY <1>2 DEF QuietInv, Exists

LEMMA QuietStep ==
  ASSUME Lz4CacheAssumption, BlockTypes, faults = 0 => QuietInv, faults' = 0, [NextBlocks]_blockVars
  PROVE  QuietInv'
<1>f. faults \in Nat
  BY DEF BlockTypes
<1>a. /\ \A t \in Callers : ~WriteTmpFail(t)
      /\ \A p \in Processes : ~Restart(p)
  BY <1>f DEF WriteTmpFail, Restart, Fault
<1>b. faults' = faults
  BY <1>a DEF NextBlocks, Compress, MemHit, MemMiss, Read, OpenBlockTmp, WriteTmp, RenameBlockTmp, Insert, blockVars
<1>0. /\ faults = 0
      /\ \A t \in Callers : ~WriteTmpFail(t)
      /\ \A p \in Processes : ~Restart(p)
  BY <1>a, <1>b
<1>q. \A p \in BlockPaths : Exists(disk, p) => Coming(disk.link[p])
  BY <1>0 DEF QuietInv
<1>n. \A i \in 0 .. InodeMax : i # NoInode => i \in 1 .. InodeMax
  BY Numbers DEF NoInode
<1>p. \A p \in BlockPaths : disk.link[p] \in 0 .. InodeMax
  BY DEF BlockTypes, Disks
<1>1. ASSUME NEW t \in Callers, Compress(t)
      PROVE  QuietInv'
  <2>1. CASE MemHit(t) \/ MemMiss(t) \/ Read(t) \/ Insert(t)
    <3>1. OtherCallers(t) /\ disk' = disk /\ call[t].pc # "write"
      BY <2>1 DEF MemHit, MemMiss, Read, Insert, Returns, Goto, Is, OtherCallers, BlockTypes
    <3> QED
      BY <1>0, <3>1, QuietFrame
  <2>2. CASE OpenBlockTmp(t)
    <3>1. PICK i \in 1 .. InodeMax :
           /\ disk'.link["tmp"] = i /\ disk'.link["key"] = disk.link["key"]
           /\ \A j \in 1 .. InodeMax : j # i => disk'.held[j] = disk.held[j]
           /\ call' = [call EXCEPT ![t].pc = "write", ![t].ino = i]
      BY <2>2, OpenTmpIs
    <3>2. OtherCallers(t) /\ call[t].pc # "write" /\ call'[t].pc = "write" /\ call'[t].ino = i
      BY <2>2, <3>1 DEF OpenBlockTmp, Is, OtherCallers, BlockTypes
    <3>3. Coming(i)'
      BY <3>2 DEF Coming, Is
    <3>4. ASSUME NEW j \in 1 .. InodeMax, Coming(j)
          PROVE  Coming(j)'
      <4>1. CASE j = i
        BY <3>2, <4>1 DEF Coming, Is
      <4>2. CASE j # i
        BY <3>1, <3>2, <3>4, <4>2 DEF Coming, Is, OtherCallers
      <4> QED
        BY <4>1, <4>2
    <3>5. ASSUME NEW p \in BlockPaths, Exists(disk', p)
          PROVE  Coming(disk.link[p])'
      <4>1. PICK j : j = disk'.link[p]
        OBVIOUS
      <4>2. CASE p = "tmp"
        <5>1. j = i
          BY <3>1, <4>1, <4>2
        <5> QED
          BY <3>3, <4>1, <5>1 DEF Coming
      <4>3. CASE p = "key"
        <5>1. j = disk.link[p] /\ Exists(disk, p) /\ j \in 1 .. InodeMax
          BY <1>n, <1>p, <3>1, <3>5, <4>1, <4>3 DEF Exists
        <5>2. Coming(j)
          BY <1>q, <5>1
        <5> QED
          BY <3>4, <4>1, <5>1, <5>2 DEF Coming
      <4> QED
        BY <4>2, <4>3 DEF BlockPaths
    <3> QED
      BY <3>5 DEF QuietInv, Exists
  <2>3. CASE WriteTmp(t)
    <3>1. PICK i \in 1 .. InodeMax : i = call[t].ino
      BY <2>3, WriteTmpIs
    <3>2. /\ disk'.link = disk.link /\ disk'.held[i] = "whole"
          /\ \A j \in 1 .. InodeMax : j # i => disk'.held[j] = disk.held[j]
      BY <2>3, <3>1, WriteTmpIs
    <3>3. OtherCallers(t)
      BY <2>3 DEF WriteTmp, OtherCallers, BlockTypes
    <3>4. ASSUME NEW j \in 1 .. InodeMax, Coming(j)
          PROVE  Coming(j)'
      <4>1. CASE j = i
        BY <3>2, <4>1 DEF Coming
      <4>2. CASE j # i
        BY <3>1, <3>2, <3>3, <3>4, <4>2 DEF Coming, Is, OtherCallers
      <4> QED
        BY <4>1, <4>2
    <3>5. ASSUME NEW p \in BlockPaths, Exists(disk', p)
          PROVE  Coming(disk.link[p])'
      <4>1. PICK j \in 1 .. InodeMax : j = disk.link[p]
        BY <1>n, <1>p, <3>2, <3>5 DEF Exists
      <4>2. Coming(j)'
        BY <1>q, <3>2, <3>4, <3>5, <4>1 DEF Exists
      <4> QED
        BY <3>2, <4>1, <4>2 DEF Coming
    <3> QED
      BY <3>5 DEF QuietInv, Exists
  <2>4. CASE RenameBlockTmp(t) /\ Exists(disk, "tmp")
    <3>1. PICK i \in 1 .. InodeMax : i = disk.link["tmp"]
      BY <1>n, <1>p, <2>4 DEF Exists, BlockPaths
    <3>2. /\ disk'.link["key"] = i /\ disk'.link["tmp"] = NoInode /\ disk'.held[i] = disk.held[i]
      BY <2>4, <3>1, RenameTmpIs
    <3>3. OtherCallers(t) /\ call[t].pc # "write"
      BY <2>4 DEF RenameBlockTmp, Is, Goto, OtherCallers, BlockTypes
    <3>4. Coming(i)
      BY <1>q, <2>4, <3>1 DEF BlockPaths
    <3>5. Coming(i)'
      BY <3>2, <3>3, <3>4 DEF Coming, Is, OtherCallers
    <3> QED
      BY <3>2, <3>5 DEF QuietInv, Exists, Coming, BlockPaths
  <2>5. CASE RenameBlockTmp(t) /\ ~Exists(disk, "tmp")
    <3>1. OtherCallers(t) /\ disk' = disk /\ call[t].pc # "write"
      BY <2>5 DEF RenameBlockTmp, Goto, Is, OtherCallers, BlockTypes
    <3> QED
      BY <1>0, <3>1, QuietFrame
  <2> QED
    BY <1>0, <1>1, <2>1, <2>2, <2>3, <2>4, <2>5 DEF Compress
<1>2. CASE UNCHANGED blockVars
  BY <1>q, <1>2 DEF blockVars, QuietInv, Coming, Exists, Is
<1> QED
  BY <1>0, <1>1, <1>2 DEF NextBlocks

-----------------------------------------------------------------------------
LEMMA CacheInit ==
  ASSUME Lz4CacheAssumption, InitBlocks
  PROVE  CacheInv
<1>1. InodeMax = 2 + Cardinality(Callers) /\ NoInode \in 0 .. InodeMax
  BY Numbers DEF InodeMax, NoInode
<1>2. disk \in Disks(BlockPaths, InodeMax)
  BY <1>1 DEF InitBlocks, Disks
<1>3. \A p \in BlockPaths : ~Exists(disk, p)
  BY DEF InitBlocks, Exists
<1>4. BlockTypes
  BY <1>1, <1>2 DEF BlockTypes, InitBlocks, New, CallPcs
<1>5. AloneInv
  BY <1>3 DEF AloneInv, Writers, Holds, InitBlocks, New, BlockPaths
<1> QED
  BY <1>3, <1>4, <1>5 DEF CacheInv, QuietInv

\* BlocksRight (lz4hc_compress_cached, src/src/unity/bundle_file.rs): whatever the
\* threads and the processes, a block comes back as the compressor makes it as long
\* as no two writers have met at the temporary, through failed writes and kills;
\* and without those the file is whole whenever nobody is writing.
THEOREM CachedBlocksRight ==
  ASSUME Lz4CacheAssumption
  PROVE  SpecBlocks => []BlocksRight
<1>1. InitBlocks => CacheInv
  BY CacheInit
<1>2. CacheInv /\ [NextBlocks]_blockVars => CacheInv'
  BY BlockTypesStep, AloneStep, QuietStep DEF CacheInv
<1>3. CacheInv => BlocksRight
  <2> SUFFICES ASSUME CacheInv PROVE BlocksRight
    OBVIOUS
  <2>1. ~shared => \A t \in Callers : call[t].got \in {NoBlock, "whole"}
    BY DEF CacheInv, AloneInv, Holds
  <2>2. faults = 0 /\ (\A t \in Callers : ~Is(t, "write")) /\ Exists(disk, "key")
          => Content(disk, "key") = "whole"
    BY DEF CacheInv, QuietInv, Coming, Content, BlockPaths
  <2> QED
    BY <2>1, <2>2 DEF BlocksRight
<1> QED
  BY <1>1, <1>2, <1>3, PTL DEF SpecBlocks
=============================================================================
