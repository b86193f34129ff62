------------------------------- MODULE Inodes -------------------------------
(***************************************************************************)
(* Files as the programs of this repository use them: a path is linked to  *)
(* an inode, fs::write opens (creates or truncates) and then writes to the *)
(* inode it opened wherever that is linked by then, fs::rename moves the   *)
(* link.  A disk is [link: [path -> inode or 0], held: [inode -> content]].*)
(***************************************************************************)
EXTENDS Naturals, FiniteSets

NoInode == 0

\* The inode fs::write gets: the one linked at p, or one nobody links or holds open.
Opened(disk, p, open) ==
  IF disk.link[p] # NoInode THEN disk.link[p]
  ELSE CHOOSE i \in DOMAIN disk.held :
         i \notin open /\ \A q \in DOMAIN disk.link : disk.link[q] # i

Truncated(disk, p, i) ==
  [link |-> [disk.link EXCEPT ![p] = i], held |-> [disk.held EXCEPT ![i] = "part"]]

Written(disk, i) == [disk EXCEPT !.held[i] = "whole"]

Renamed(disk, from, to) ==
  [link |-> [disk.link EXCEPT ![to] = disk.link[from], ![from] = NoInode], held |-> disk.held]

Exists(disk, p) == disk.link[p] # NoInode
Content(disk, p) == disk.held[disk.link[p]]

\* Inodes that nothing links and nothing holds open are all alike.
Swept(disk, open) ==
  [disk EXCEPT !.held = [i \in DOMAIN disk.held |->
     IF i \in open \/ \E p \in DOMAIN disk.link : disk.link[p] = i THEN disk.held[i] ELSE "part"]]
=============================================================================
