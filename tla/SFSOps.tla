------------------------------- MODULE SFSOps -------------------------------
(***************************************************************************)
(* The vnode and file-system operations of SFS, the ones the VFS layer     *)
(* calls: the rest of kern/fs/sfs/sfs_vnode.c and kern/fs/sfs/sfs_fs.c.    *)
(* Flags of open() are sets of names; O_RDONLY, which is 0, is {}.         *)
(***************************************************************************)
EXTENDS SFS

-----------------------------------------------------------------------------
(* Vnode operations.                                                       *)

sfs_open(s, ino, flags) ==
  IF "APPEND" \in flags THEN Ret(s, "EUNIMP") ELSE Val(s, 0)

sfs_opendir(s, ino, flags) ==
  IF flags \cap {"WRONLY", "RDWR", "APPEND"} # {} THEN Ret(s, "EISDIR")
                                                 ELSE Val(s, 0)

sfs_fsync(s, ino) == sfs_sync_inode(s, ino)

\* The last close.
sfs_close(s, v) == sfs_fsync(s, v[2])

sfs_read(s, ino) == sfs_io(s, ino)

sfs_write(s, ino) == sfs_io(s, ino)

sfs_gettype(s, ino) ==
  IF s.sv[ino].i.type \in {"file", "dir"} THEN Val(s, s.sv[ino].i.type)
                                          ELSE Panic(s)

Free(s, blocks) == FoldSet(LAMBDA b, t : sfs_bfree(t, b), s, blocks)

\* The direct blocks past the new end are given back.
TruncateDirect(s, ino, blocklen) ==
  LET i    == s.sv[ino].i
      drop == {k \in DOMAIN i.direct : k >= blocklen /\ i.direct[k] # 0}
  IN  IF drop = {} THEN s
      ELSE Dirty(Free(s, {i.direct[k] : k \in drop}), ino,
                 [i EXCEPT !.direct = [k \in DOMAIN @ |->
                                         IF k \in drop THEN 0 ELSE @[k]]])

\* The blocks the indirect block names, and itself when it becomes empty.
TruncateIndirect(s, ino, blocklen) ==
  LET i == s.sv[ino].i IN
  IF i.indirect = 0 \/ blocklen >= NDIRECT + DBPERIDB - 1 THEN Val(s, 0)
  ELSE Then(sfs_rblock(s, i.indirect), LAMBDA t, c :
    LET idbuf == AsPtrs(c)
        past  == {j \in DOMAIN idbuf : blocklen < NDIRECT + j /\ idbuf[j] # 0}
        kept  == [j \in DOMAIN idbuf |-> IF j \in past THEN 0 ELSE idbuf[j]]
        u     == Free(t, {idbuf[j] : j \in past})
    IN  IF \A j \in DOMAIN kept : kept[j] = 0
        THEN Val(Dirty(sfs_bfree(u, i.indirect), ino,
                       [i EXCEPT !.indirect = 0]), 0)
        ELSE IF past # {} THEN sfs_wblock(u, i.indirect, kept) ELSE Val(u, 0))

\* Mutant of sfs_truncate: the indirect block is forgotten.
sfs_truncate_direct(s, ino, len) ==
  Let(TruncateDirect(s, ino, (len + BLK - 1) \div BLK), LAMBDA t :
      Val(Dirty(t, ino, [t.sv[ino].i EXCEPT !.size = len]), 0))

\* Mutant of sfs_truncate: the size stays.
sfs_truncate_size(s, ino, len) ==
  LET blocklen == (len + BLK - 1) \div BLK
  IN  TruncateIndirect(TruncateDirect(s, ino, blocklen), ino, blocklen)

sfs_truncate(s, ino, len) ==
  LET blocklen == (len + BLK - 1) \div BLK IN
  Then(TruncateIndirect(TruncateDirect(s, ino, blocklen), ino, blocklen),
       LAMBDA t, v : Val(Dirty(t, ino, [t.sv[ino].i EXCEPT !.size = len]), 0))

\* The last reference is gone.  A file that no name refers to is erased.
sfs_reclaim(s, v) ==
  LET ino  == v[2]
      gone == s.sv[ino].i.link = 0
  IN
  IF s.vn[v].ref # 1 THEN Ret([s EXCEPT !.vn[v].ref = @ - 1], "EBUSY")
  ELSE
  Then(IF gone THEN sfs_truncate(s, ino, 0) ELSE Val(s, 0), LAMBDA t, w :
    Then(sfs_sync_inode(t, ino), LAMBDA u, w2 :
      LET x == IF gone THEN sfs_bfree(u, ino) ELSE u IN
      vnode_kill([x EXCEPT !.sv = [k \in DOMAIN @ \ {ino} |-> @[k]]], v)))

Decref(s, ino) == vnode_decref(s, SV(ino), sfs_reclaim)

\* An assignment to sfi_linkcount.
SetLink(s, ino, n) == Dirty(s, ino, [s.sv[ino].i EXCEPT !.link = n])

sfs_creat(s, dir, name, excl) ==
  Then(sfs_dir_findname(s, dir, name), LAMBDA t, f :
    IF f.ino # 0 /\ excl THEN Ret(t, "EEXIST")
    ELSE IF f.ino # 0 THEN sfs_loadvnode(t, f.ino, "inval")
    ELSE Then(sfs_makeobj(t, "file"), LAMBDA u, ino :
      Then(Else(sfs_dir_link(u, dir, name, ino),
                LAMBDA w, e : Ret(Decref(w, ino), e)),
           LAMBDA w, slot : Val(SetLink(w, ino, w.sv[ino].i.link + 1), ino))))

\* Mutant of sfs_link: the link count is left alone.
sfs_link_count(s, dir, name, ino) == sfs_dir_link(s, dir, name, ino)

sfs_link(s, dir, name, ino) ==
  Then(sfs_dir_link(s, dir, name, ino), LAMBDA t, slot :
       Val(SetLink(t, ino, t.sv[ino].i.link + 1), 0))

sfs_remove(s, dir, name) ==
  Then(sfs_lookonce(s, dir, name), LAMBDA t, f :
    Let(sfs_dir_unlink(t, dir, f.slot), LAMBDA r :
      [r EXCEPT !.s = Decref(IF r.e # OK THEN @
                             ELSE SetLink(@, f.ino, @.sv[f.ino].i.link - 1),
                             f.ino)]))

\* Links the new name, then unlinks the old one; if that fails, it takes the
\* new name away again, and panics if that fails too.
sfs_rename(s, dir, n1, n2) ==
  Then(sfs_lookonce(s, dir, n1), LAMBDA t, g1 :
    LET ino    == g1.ino
        Less(w) == [w EXCEPT !.sv[ino].i.link = @ - 1]
        Undo(w, slot, e) ==
          Then(Else(sfs_dir_unlink(w, dir, slot), LAMBDA x, e2 : Panic(x)),
               LAMBDA x, v : Ret(Less(x), e))
        Unlink(w, slot) ==
          Then(Else(sfs_dir_unlink(w, dir, g1.slot),
                    LAMBDA x, e : Undo(x, slot, e)),
               LAMBDA x, v : Val([Less(x) EXCEPT !.sv[ino].dirty = TRUE], 0))
    IN
    IF t.sv[ino].i.type # "file" THEN Panic(t)
    ELSE Let(Then(sfs_dir_link(t, dir, n2, ino), LAMBDA u, slot :
               Unlink(SetLink(u, ino, u.sv[ino].i.link + 1), slot)),
             LAMBDA r : IF r.s.panic THEN r
                        ELSE [r EXCEPT !.s = Decref(@, ino)]))

sfs_lookparent(s, ino) ==
  IF s.sv[ino].i.type # "dir" THEN Ret(s, "ENOTDIR")
  ELSE Val(vnode_incref(s, SV(ino)), ino)

sfs_lookup(s, ino, name) ==
  IF s.sv[ino].i.type # "dir" THEN Ret(s, "ENOTDIR")
  ELSE Then(sfs_lookonce(s, ino, name), LAMBDA t, f : Val(t, f.ino))

-----------------------------------------------------------------------------
(* File-system operations.                                                 *)

\* The free map is one block here.
sfs_mapio_write(s) == sfs_wblock(s, MAP, s.map)

\* Mutant of sfs_sync: only the free map is written.
sfs_sync_map(s) ==
  IF ~s.mapdirty THEN Val(s, 0)
  ELSE Then(sfs_mapio_write(s), LAMBDA u, v :
            Val([u EXCEPT !.mapdirty = FALSE], 0))

\* Errors of the inodes are ignored.  (Nothing sets sfs_superdirty.)
sfs_sync(s) ==
  Let(FoldSet(LAMBDA ino, u : sfs_fsync(u, ino).s, s, DOMAIN s.sv), LAMBDA t :
    IF ~t.mapdirty THEN Val(t, 0)
    ELSE Then(sfs_mapio_write(t), LAMBDA u, v :
              Val([u EXCEPT !.mapdirty = FALSE], 0)))

sfs_unmount(s) ==
  IF DOMAIN s.sv # {} THEN Ret(s, "EBUSY")
  ELSE IF s.mapdirty THEN Panic(s)
  ELSE Val([s EXCEPT !.mounted = FALSE, !.map = {}], 0)

\* The allocations are those of the struct sfs_fs, its array and its bitmap.
sfs_domount(s) ==
  Then(kmalloc(s), LAMBDA t1, v1 :
  Then(kmalloc(t1), LAMBDA t2, v2 :
  Then(sfs_rblock(t2, SB), LAMBDA t3, sb :
    IF sb # "super" THEN Ret(t3, "EINVAL")
    ELSE
    Then(kmalloc(t3), LAMBDA t4, v4 :
    Then(sfs_rblock(t4, MAP), LAMBDA t5, map :
         Val([t5 EXCEPT !.mounted = TRUE, !.map = map, !.mapdirty = FALSE],
             0))))))
=============================================================================
