------------------------------- MODULE Volume -------------------------------
(***************************************************************************)
(* What the state of the machine means: the files and the directory of the *)
(* SFS volume, as they are in memory and on the disk, and who uses which   *)
(* block.                                                                  *)
(***************************************************************************)
EXTENDS VFSPath

\* The inode in memory, if its vnode is, else on the disk.
Inode(s, ino) ==
  IF ino \in DOMAIN s.sv THEN s.sv[ino].i ELSE AsInode(s.disk[ino])

\* The numbers in the indirect block of a file.
Pointers(s, i) == AsPtrs(IF i.indirect = 0 THEN ZERO ELSE s.disk[i.indirect])

\* The block of the disk that holds a block of a file, 0 for a hole.
BlockOf(s, i, n) ==
  IF n < NDIRECT THEN i.direct[n] ELSE Pointers(s, i)[n - NDIRECT]

Unit(s, i, n) ==
  LET b == BlockOf(s, i, n \div BLK) IN
  AsUnits(IF b = 0 THEN ZERO ELSE s.disk[b], i.type)[1 + (n % BLK)]

ContentsOf(s, i) == [n \in 1 .. i.size |-> Unit(s, i, n - 1)]

Contents(s, ino) == ContentsOf(s, Inode(s, ino))

\* The directory: its used entries, and the inodes by name.
Entries(s) == SelectSeq(Contents(s, ROOT), LAMBDA e : e.ino # 0)
NamesOf(s) == {Entries(s)[n].name : n \in DOMAIN Entries(s)}
Directory(s) ==
  [f \in NamesOf(s) |->
     Entries(s)[CHOOSE n \in DOMAIN Entries(s) : Entries(s)[n].name = f].ino]

\* Every use of a block by a file: as a block of it, as its indirect block (-1)
\* and as its inode (-2).
BlockUses(s, ino) ==
  LET i == Inode(s, ino) IN
  {u \in {<<ino, n, BlockOf(s, i, n)>> : n \in 0 .. NDIRECT + DBPERIDB - 1}
           \cup {<<ino, -1, i.indirect>>, <<ino, -2, ino>>} :
     u[3] # 0}

\* The files there are: the root, those with a name, those in memory.
FilesOf(s) ==
  {ROOT} \cup {Directory(s)[f] : f \in NamesOf(s)} \cup DOMAIN s.sv

\* The blocks marked as used, of the mounted volume or of the disk.
Marked(s) == IF s.mounted THEN s.map ELSE s.disk[MAP]

\* The volume as it would be found if the machine stopped now.
OnDisk(s) == [s EXCEPT !.sv = <<>>, !.mounted = FALSE]

\* A machine before anything is attached to it, its disk formatted.
NoMachine(threads) == [
  disk |-> mksfs, lost |-> FALSE, map |-> {}, mapdirty |-> FALSE,
  sv |-> <<>>, mounted |-> FALSE, vn |-> <<>>, uio |-> NoUio,
  fault |-> NoFault, panic |-> FALSE, off |-> FALSE, kd |-> <<>>,
  boot |-> NOV, cwd |-> [p \in threads |-> NOV],
  host |-> <<>>, handles |-> <<>>, ev |-> {}]
=============================================================================
