--------------------------- MODULE Inodes_proofs ---------------------------
(***************************************************************************)
(* Lemmas about Inodes: what opening, writing, renaming and sweeping leave *)
(* of a disk, and that an inode is free while there are enough of them.    *)
(***************************************************************************)
EXTENDS Inodes, FiniteSetTheorems, TLAPS

\* A disk of paths P and n inodes.
Disks(P, n) == [link : [P -> 0 .. n], held : [1 .. n -> {"whole", "part"}]]

\* An inode that nothing links and nothing holds open.
Unused(disk, i, open) == i \notin open /\ \A q \in DOMAIN disk.link : disk.link[q] # i

\* A function has no more values than arguments.
LEMMA FewValues ==
  ASSUME NEW S, IsFiniteSet(S), NEW f
  PROVE  IsFiniteSet({f[x] : x \in S}) /\ Cardinality({f[x] : x \in S}) <= Cardinality(S)
<1> DEFINE T == {f[x] : x \in S}  g == [x \in S |-> f[x]]
<1>1. g \in Surjection(S, T)
  BY DEF Surjection
<1> QED
  BY <1>1, FS_Surjection

\* With an inode for each path and for each that may be open, the one that is
\* opened is linked at the path, or is free.
LEMMA OpenedRight ==
  ASSUME NEW P, IsFiniteSet(P), NEW n \in Nat, NEW disk \in Disks(P, n), NEW p \in P,
         NEW open, IsFiniteSet(open), Cardinality(open) + Cardinality(P) <= n
  PROVE  LET i == Opened(disk, p, open) IN
         /\ i \in 1 .. n
         /\ disk.link[p] = i \/ (disk.link[p] = NoInode /\ Unused(disk, i, open))
<1> DEFINE others == P \ {p}  links == {disk.link[q] : q \in others}
<1>1. DOMAIN disk.held = 1 .. n /\ DOMAIN disk.link = P /\ disk.link[p] \in 0 .. n
  BY DEF Disks
<1>2. CASE disk.link[p] # NoInode
  BY <1>1, <1>2 DEF Opened, NoInode
<1>3. CASE disk.link[p] = NoInode
  <2>1. /\ IsFiniteSet(others) /\ Cardinality(others) = Cardinality(P) - 1
        /\ Cardinality(P) \in Nat /\ Cardinality(open) \in Nat
    BY FS_RemoveElement, FS_CardinalityType
  <2>2. IsFiniteSet(links) /\ Cardinality(links) <= Cardinality(others)
    BY <2>1, FewValues
  <2>3. /\ IsFiniteSet(open \cup links)
        /\ Cardinality(open \cup links) <= Cardinality(open) + Cardinality(links)
    <3>1. /\ IsFiniteSet(open \cup links)
          /\ Cardinality(open \cup links) =
               Cardinality(open) + Cardinality(links) - Cardinality(open \cap links)
      BY <2>2, FS_Union
    <3>2. IsFiniteSet(open \cap links)
      BY FS_Intersection, <2>2
    <3> HIDE DEF links
    <3>3. Cardinality(open \cap links) \in Nat /\ Cardinality(links) \in Nat
      BY <2>2, <3>2, FS_CardinalityType
    <3> QED
      BY <2>1, <3>1, <3>3
  <2>4. \E i \in 1 .. n : i \notin open \cup links
    <3> SUFFICES ASSUME 1 .. n \subseteq open \cup links PROVE FALSE
      OBVIOUS
    <3> HIDE DEF links, others
    <3>1. Cardinality(1 .. n) = n
      <4>1. n >= 1 => Cardinality(1 .. n) = n
        BY FS_Interval
      <4>2. n = 0 => 1 .. n = {}
        OBVIOUS
      <4> QED
        BY <4>1, <4>2, FS_EmptySet
    <3>2. Cardinality(1 .. n) <= Cardinality(open \cup links)
      BY <2>3, FS_Subset
    <3>3. Cardinality(links) \in Nat /\ Cardinality(open \cup links) \in Nat
      BY <2>2, <2>3, FS_CardinalityType
    <3> QED
      BY <2>1, <2>2, <2>3, <3>1, <3>2, <3>3
  <2>5. \A i \in 1 .. n : i \notin open \cup links => Unused(disk, i, open)
    BY <1>1, <1>3 DEF Unused, NoInode
  <2>6. Opened(disk, p, open) = CHOOSE i \in 1 .. n : Unused(disk, i, open)
    BY <1>1, <1>3 DEF Opened, Unused
  <2>7. Opened(disk, p, open) \in 1 .. n /\ Unused(disk, Opened(disk, p, open), open)
    <3> HIDE DEF links, others
    <3> QED
      BY <2>4, <2>5, <2>6
  <2> QED
    BY <1>3, <2>7
<1> QED
  BY <1>2, <1>3

\* What the operations on files leave, path by path and inode by inode.
LEMMA TruncatedIs ==
  ASSUME NEW P, NEW n \in Nat, NEW disk \in Disks(P, n), NEW p \in P, NEW i \in 1 .. n
  PROVE  LET d == Truncated(disk, p, i) IN
         /\ d \in Disks(P, n) /\ d.link[p] = i /\ d.held[i] = "part"
         /\ \A q \in P \ {p} : d.link[q] = disk.link[q]
         /\ \A j \in 1 .. n : j # i => d.held[j] = disk.held[j]
BY DEF Disks, Truncated

LEMMA WrittenIs ==
  ASSUME NEW P, NEW n \in Nat, NEW disk \in Disks(P, n), NEW i \in 1 .. n
  PROVE  LET d == Written(disk, i) IN
         /\ d \in Disks(P, n) /\ d.link = disk.link /\ d.held[i] = "whole"
         /\ \A j \in 1 .. n : j # i => d.held[j] = disk.held[j]
BY DEF Disks, Written

LEMMA RenamedIs ==
  ASSUME NEW P, NEW n \in Nat, NEW disk \in Disks(P, n),
         NEW from \in P, NEW to \in P, from # to
  PROVE  LET d == Renamed(disk, from, to) IN
         /\ d \in Disks(P, n) /\ d.held = disk.held
         /\ d.link[to] = disk.link[from] /\ d.link[from] = NoInode
         /\ \A q \in P \ {from, to} : d.link[q] = disk.link[q]
<1> DEFINE d == Renamed(disk, from, to)
<1>1. /\ d.held = disk.held /\ d.link = [disk.link EXCEPT ![to] = disk.link[from], ![from] = NoInode]
      /\ d = [link |-> d.link, held |-> d.held]
  BY DEF Renamed
<1>2. disk.link \in [P -> 0 .. n] /\ disk.held \in [1 .. n -> {"whole", "part"}] /\ NoInode \in 0 .. n
  BY DEF Disks, NoInode
<1>3. d.link \in [P -> 0 .. n] /\ d.link[to] = disk.link[from] /\ d.link[from] = NoInode
      /\ \A q \in P \ {from, to} : d.link[q] = disk.link[q]
  BY <1>1, <1>2
<1> QED
  BY <1>1, <1>2, <1>3 DEF Disks

LEMMA SweptIs ==
  ASSUME NEW P, NEW n \in Nat, NEW disk \in Disks(P, n), NEW open
  PROVE  LET d == Swept(disk, open) IN
         /\ d \in Disks(P, n) /\ d.link = disk.link
         /\ \A i \in 1 .. n : ~Unused(disk, i, open) => d.held[i] = disk.held[i]
BY DEF Disks, Swept, Unused
=============================================================================
