--------------------------------- MODULE SFS ---------------------------------
(***************************************************************************)
(* The simple file system: kern/fs/sfs and the block map of                *)
(* kern/lib/bitmap.c, on a disk formatted by sbin/mksfs.  One operator     *)
(* per C function, in the style of module Calls.  A volume has one         *)
(* directory, the root.                                                    *)
(*                                                                         *)
(* Of the state s:  disk is the blocks, and lost says that the disk failed *)
(* a write that was reported as done; map and mapdirty are sfs_freemap     *)
(* (the marked bits) and sfs_freemapdirty; sv is the table sfs_vnodes, by  *)
(* inode number, of sv_i and sv_dirty; mounted says that the struct sfs_fs *)
(* exists.                                                                 *)
(*                                                                         *)
(* A block holds BLK units.  A unit is a directory entry, a block number   *)
(* or a unit of file data, as the file it belongs to says.                 *)
(***************************************************************************)
EXTENDS Calls

CONSTANTS
  BLK,       \* SFS_BLOCKSIZE, in units
  NDIRECT,   \* SFS_NDIRECT
  DBPERIDB,  \* SFS_DBPERIDB
  NBLOCKS,   \* sp_nblocks
  MAPBITS,   \* SFS_BITMAPSIZE(sp_nblocks)
  ZERO       \* the contents of a block of zeros

ASSUME SFSAssumption ==
  /\ BLK \in Nat \ {0} /\ NDIRECT \in Nat \ {0} /\ DBPERIDB \in Nat \ {0}
  /\ NBLOCKS \in Nat /\ MAPBITS \in Nat /\ 3 < NBLOCKS /\ NBLOCKS <= MAPBITS

SB == 0     \* SFS_SB_LOCATION
ROOT == 1   \* SFS_ROOT_LOCATION
MAP == 2    \* SFS_MAP_LOCATION
Bits == 0 .. MAPBITS - 1

\* The names of the vnodes of this file system.
SV(ino) == <<"sfs", ino>>

NoInode == [size |-> 0, type |-> "inval", link |-> 0,
            direct |-> [i \in 0 .. NDIRECT - 1 |-> 0], indirect |-> 0]
NoDir == [ino |-> 0, name |-> ""]

\* What a block of zeros is, read as an inode, entries, or numbers.
AsInode(c) == IF c = ZERO THEN NoInode ELSE c
AsEntries(c) == IF c = ZERO THEN [i \in 1 .. BLK |-> NoDir] ELSE c
AsData(c) == IF c = ZERO THEN [i \in 1 .. BLK |-> 0] ELSE c
AsPtrs(c) == IF c = ZERO THEN [i \in 0 .. DBPERIDB - 1 |-> 0] ELSE c
AsUnits(c, type) == IF type = "dir" THEN AsEntries(c) ELSE AsData(c)

-----------------------------------------------------------------------------
(* mksfs.                                                                  *)

writerootdir == [NoInode EXCEPT !.type = "dir", !.link = 1]

writebitmap == {SB, ROOT, MAP} \cup (Bits \ (0 .. NBLOCKS - 1))

\* A formatted disk.
mksfs == [b \in 0 .. NBLOCKS - 1 |->
            CASE b = SB -> "super" [] b = ROOT -> writerootdir
              [] b = MAP -> writebitmap [] OTHER -> ZERO]

-----------------------------------------------------------------------------
(* Block I/O.  sfs_rwblock() retries a request that fails with EIO.        *)

\* The power is lost: the call gets no further.
Dead(s) == s.fault.kind = "crash" /\ s.fault.left = 0

\* A read that keeps failing is reported after the retries.
sfs_rblock(s, block) ==
  IF block >= NBLOCKS THEN Panic(s)
  ELSE IF Dead(s) THEN Ret(s, "POWER")
  ELSE IF Fails(s, "rio") THEN Ret(Uses(s, "rio"), "EIO")
  ELSE Val(Uses(s, "rio"), s.disk[block])

\* The retry of a write that failed.  lhd_io() has moved the data out of the
\* transfer before the disk reports the error, so the retry finds no units
\* left to write, and succeeds.  Whoever reads lost learns what the caller
\* does not.
Retried(s) == Val([s EXCEPT !.lost = TRUE], 0)

sfs_wblock(s, block, data) ==
  IF block >= NBLOCKS THEN Panic(s)
  ELSE IF Fails(s, "wio") THEN Retried(Uses(s, "wio"))
  ELSE IF Dead(s) THEN Ret(s, "POWER")
  ELSE Val([Uses(Uses(s, "crash"), "wio") EXCEPT !.disk[block] = data], 0)

sfs_clearblock(s, block) == sfs_wblock(s, block, ZERO)

sfs_sync_inode(s, ino) ==
  IF ~s.sv[ino].dirty THEN Val(s, 0)
  ELSE Then(sfs_wblock(s, ino, s.sv[ino].i), LAMBDA t, v :
            Val([t EXCEPT !.sv[ino].dirty = FALSE], 0))

\* An assignment to sv_i, with sv_dirty = 1.
Dirty(s, ino, i) == [s EXCEPT !.sv[ino] = [i |-> i, dirty |-> TRUE]]

-----------------------------------------------------------------------------
(* Space.                                                                  *)

\* The lowest clear bit.
bitmap_alloc(s) ==
  IF Bits \subseteq s.map THEN Ret(s, "ENOSPC")
  ELSE LET b == Min(Bits \ s.map) IN Val([s EXCEPT !.map = @ \cup {b}], b)

bitmap_unmark(s, b) ==
  IF b \notin s.map THEN Panic(s).s ELSE [s EXCEPT !.map = @ \ {b}]

sfs_balloc(s) ==
  Then(bitmap_alloc(s), LAMBDA t, b :
    LET u == [t EXCEPT !.mapdirty = TRUE] IN
    IF b >= NBLOCKS THEN Panic(u)
    ELSE Then(sfs_clearblock(u, b), LAMBDA w, v : Val(w, b)))

sfs_bfree(s, block) == [bitmap_unmark(s, block) EXCEPT !.mapdirty = TRUE]

sfs_bused(s, block) == block < NBLOCKS /\ block \in s.map

\* Handing back a block of the file: it must be in use.
HandBack(s, block) ==
  IF block # 0 /\ ~sfs_bused(s, block) THEN Panic(s) ELSE Val(s, block)

\* The disk block of a direct block of the file.
DirectBlock(s, ino, fileblock, doalloc) ==
  LET i == s.sv[ino].i IN
  IF i.direct[fileblock] # 0 \/ ~doalloc THEN HandBack(s, i.direct[fileblock])
  ELSE Then(sfs_balloc(s), LAMBDA t, b :
         HandBack(Dirty(t, ino, [i EXCEPT !.direct[fileblock] = b]), b))

\* The indirect block of the file, allocated if need be, and its contents.
IndirectBlock(s, ino) ==
  LET i == s.sv[ino].i IN
  IF i.indirect = 0
  THEN Then(sfs_balloc(s), LAMBDA t, b :
         Val(Dirty(t, ino, [i EXCEPT !.indirect = b]), AsPtrs(ZERO)))
  ELSE Then(sfs_rblock(s, i.indirect), LAMBDA t, c : Val(t, AsPtrs(c)))

sfs_bmap(s, ino, fileblock, doalloc) ==
  LET idoff == fileblock - NDIRECT IN
  IF fileblock < NDIRECT THEN DirectBlock(s, ino, fileblock, doalloc)
  ELSE IF idoff >= DBPERIDB THEN Ret(s, "EINVAL")
  ELSE IF s.sv[ino].i.indirect = 0 /\ ~doalloc THEN Val(s, 0)
  ELSE Then(IndirectBlock(s, ino), LAMBDA t, idbuf :
    IF idbuf[idoff] # 0 \/ ~doalloc THEN HandBack(t, idbuf[idoff])
    ELSE Then(sfs_balloc(t), LAMBDA u, b :
         Then(sfs_wblock(u, u.sv[ino].i.indirect, [idbuf EXCEPT ![idoff] = b]),
              LAMBDA w, v : HandBack(w, b))))

-----------------------------------------------------------------------------
(* File I/O.                                                               *)

\* Part of a block: it is read first, and written back after a write.
sfs_partialio(s, ino, skip, len) ==
  LET write == s.uio.rw = "write"
      type  == s.sv[ino].i.type
  IN
  Then(sfs_bmap(s, ino, s.uio.off \div BLK, write), LAMBDA t, b :
    Then(IF b = 0 THEN Val(t, ZERO) ELSE sfs_rblock(t, b), LAMBDA u, c :
      Then(uiomove(u, AsUnits(c, type), skip, len), LAMBDA w, iobuf :
        IF write THEN sfs_wblock(w, b, iobuf) ELSE Val(w, 0))))

\* A whole block, between the disk and the caller's memory.  If the I/O
\* fails the transfer has not moved.
sfs_blockio(s, ino) ==
  LET write == s.uio.rw = "write"
      type  == s.sv[ino].i.type
  IN
  Then(sfs_bmap(s, ino, s.uio.off \div BLK, write), LAMBDA t, b :
    IF b = 0 THEN uiomovezeros(t, AsUnits(ZERO, type))
    ELSE IF write
    THEN Then(sfs_wblock(t, b, SubSeq(t.uio.data, 1, BLK)), LAMBDA u, v :
              uiomove(u, AsUnits(ZERO, type), 0, BLK))
    ELSE Then(sfs_rblock(t, b), LAMBDA u, c :
              uiomove(u, AsUnits(c, type), 0, BLK)))

\* The whole of the transfer: a partial block, whole blocks, a partial block.
Transfer(s, ino) ==
  LET skip == s.uio.off % BLK
      len  == IF BLK - skip < s.uio.resid THEN BLK - skip ELSE s.uio.resid
  IN
  Then(IF skip = 0 THEN Val(s, 0) ELSE sfs_partialio(s, ino, skip, len),
    LAMBDA t, v :
      Then(For(Val(t, 0), [i \in 1 .. t.uio.resid \div BLK |-> i],
               LAMBDA u, w, i : sfs_blockio(u, ino)), LAMBDA x, w :
        IF x.uio.resid = 0 THEN Val(x, 0)
        ELSE sfs_partialio(x, ino, 0, x.uio.resid)))

\* A write, even one that failed half-way, moves the end to where it got.
Grown(s, ino) ==
  LET i == s.sv[ino].i IN
  IF s.uio.rw = "write" /\ s.uio.off > i.size
  THEN Dirty(s, ino, [i EXCEPT !.size = s.uio.off]) ELSE s

\* Mutant of sfs_io: a read does not stop at the end of the file.
sfs_io_past(s, ino) ==
  Let(Transfer(s, ino), LAMBDA r : [r EXCEPT !.s = Grown(r.s, ino)])

\* A read stops at the end of the file.
sfs_io(s, ino) ==
  LET size  == s.sv[ino].i.size
      over  == s.uio.off + s.uio.resid - size
      extra == IF s.uio.rw = "read" /\ over > 0 THEN over ELSE 0
  IN
  IF s.uio.rw = "read" /\ s.uio.off >= size THEN Val(s, 0)
  ELSE Let(Transfer([s EXCEPT !.uio.resid = @ - extra], ino), LAMBDA r :
         [r EXCEPT !.s = [Grown(r.s, ino) EXCEPT !.uio.resid = @ + extra]])

-----------------------------------------------------------------------------
(* The directory.                                                          *)

\* s.uio is a local of these two functions and is dropped at the end.
sfs_readdir(s, ino, slot) ==
  Then(sfs_io(mk_kuio(s, <<>>, 1, slot, "read"), ino), LAMBDA t, v :
    IF t.uio.resid > 0 THEN Panic(t)
    ELSE Val([t EXCEPT !.uio = s.uio], t.uio.data[1]))

sfs_writedir(s, ino, sd, slot) ==
  Let(sfs_io(mk_kuio(s, <<sd>>, 1, slot, "write"), ino), LAMBDA r :
    IF r.e = OK /\ r.s.uio.resid > 0 THEN Panic(r.s)
    ELSE [r EXCEPT !.s.uio = s.uio])

sfs_dir_nentries(s, ino) == s.sv[ino].i.size

\* The inode and slot of the name (inode 0: ENOENT) and the last free slot.
sfs_dir_findname(s, ino, name) ==
  For(Val(s, [ino |-> 0, slot |-> 0, empty |-> -1]),
      [i \in 1 .. sfs_dir_nentries(s, ino) |-> i - 1],
      LAMBDA t, f, i :
        Then(sfs_readdir(t, ino, i), LAMBDA u, tsd :
          IF tsd.ino = 0 THEN Val(u, [f EXCEPT !.empty = i])
          ELSE IF tsd.name # name THEN Val(u, f)
          ELSE IF f.ino # 0 THEN Panic(u)
          ELSE Val(u, [f EXCEPT !.ino = tsd.ino, !.slot = i])))

\* Hands back the slot.
sfs_dir_link(s, dir, name, ino) ==
  Then(sfs_dir_findname(s, dir, name), LAMBDA t, f :
    LET slot == IF f.empty < 0 THEN sfs_dir_nentries(t, dir) ELSE f.empty IN
    IF f.ino # 0 THEN Ret(t, "EEXIST")
    ELSE Then(sfs_writedir(t, dir, [ino |-> ino, name |-> name], slot),
              LAMBDA u, v : Val(u, slot)))

sfs_dir_unlink(s, dir, slot) == sfs_writedir(s, dir, NoDir, slot)

-----------------------------------------------------------------------------
(* Vnodes.                                                                 *)

\* Digs up the vnode of an inode, or reads it in.  forcetype is the type of
\* a new object, whose block is zeros.
sfs_loadvnode(s, ino, forcetype) ==
  IF \E i \in DOMAIN s.sv : ~sfs_bused(s, i) THEN Panic(s)
  ELSE IF ino \in DOMAIN s.sv
  THEN IF forcetype # "inval" THEN Panic(s)
       ELSE Val(vnode_incref(s, SV(ino)), ino)
  ELSE Then(kmalloc(s), LAMBDA t, v :
    IF ~sfs_bused(t, ino) THEN Panic(t)
    ELSE Then(sfs_rblock(t, ino), LAMBDA u, c :
      LET new == forcetype # "inval"
          i   == IF new THEN [AsInode(c) EXCEPT !.type = forcetype]
                        ELSE AsInode(c)
      IN
      IF (new /\ AsInode(c).type # "inval") \/ i.type = "inval" THEN Panic(u)
      ELSE Then(vnode_init(u, SV(ino)), LAMBDA w, v2 :
        \* array_add()
        Then(Else(kmalloc(w), LAMBDA x, e : Ret(vnode_kill(x, SV(ino)).s, e)),
             LAMBDA x, v3 :
               Val([x EXCEPT !.sv = [k \in DOMAIN @ \cup {ino} |->
                      IF k = ino THEN [i |-> i, dirty |-> new] ELSE @[k]]],
                   ino)))))

sfs_getroot(s) ==
  Else(sfs_loadvnode(s, ROOT, "inval"), LAMBDA t, e : Panic(t))

\* Looks up a name; hands back its inode, loaded, and its slot.
sfs_lookonce(s, dir, name) ==
  Then(sfs_dir_findname(s, dir, name), LAMBDA t, f :
    IF f.ino = 0 THEN Ret(t, "ENOENT")
    ELSE Then(sfs_loadvnode(t, f.ino, "inval"), LAMBDA u, v :
      IF u.sv[f.ino].i.link = 0 THEN Panic(u) ELSE Val(u, f)))

sfs_makeobj(s, type) ==
  Then(sfs_balloc(s), LAMBDA t, ino : sfs_loadvnode(t, ino, type))
=============================================================================
