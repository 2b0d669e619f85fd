------------------------------- MODULE VFSPath -------------------------------
(***************************************************************************)
(* Pathnames: kern/fs/vfs/vfscwd.c, vfslookup.c and vfspath.c.  p is the   *)
(* current thread.                                                         *)
(***************************************************************************)
EXTENDS VFS

-----------------------------------------------------------------------------
(* The current directory.                                                  *)

vfs_getcurdir(s, p) ==
  IF s.cwd[p] = NOV THEN Ret(s, "ENOENT")
  ELSE Val(vnode_incref(s, s.cwd[p]), s.cwd[p])

\* A pointer to a vnode is replaced, and its reference given back.
Drop(s, old) == IF old = NOV THEN s ELSE VOP_DECREF(s, old)

vfs_setcurdir(s, p, dir) ==
  IF ~IsDir(s, dir) THEN Ret(s, "ENOTDIR")
  ELSE Val(Drop([vnode_incref(s, dir) EXCEPT !.cwd[p] = dir], s.cwd[p]), 0)

vfs_clearcurdir(s, p) == Drop([s EXCEPT !.cwd[p] = NOV], s.cwd[p])

-----------------------------------------------------------------------------
(* Lookup.                                                                 *)

\* :path starts at the root of the current file system.
CurrentRoot(s, p) ==
  Then(vfs_getcurdir(s, p), LAMBDA t, vn :
    IF FsOf(vn) = "" THEN Panic(t)
    ELSE Then(FSOP_GETROOT(t, FsOf(vn)), LAMBDA u, start :
              Val(VOP_DECREF(u, vn), start)))

\* The vnode at which the lookup of the path begins.
getdevice(s, p, path) ==
  CASE path.form = "rel" -> vfs_getcurdir(s, p)
    [] path.form = "dev" -> vfs_getroot(s, path.dev)
    [] path.form = "colon" -> CurrentRoot(s, p)
    [] OTHER -> IF s.boot = NOV THEN Ret(s, "ENOENT")
                ELSE Val(vnode_incref(s, s.boot), s.boot)

\* The vnode is given back, whatever the outcome.
Release(r, vn) == [r EXCEPT !.s = IF @.panic THEN @ ELSE VOP_DECREF(@, vn)]

vfs_lookparent(s, p, path) ==
  Then(getdevice(s, p, path), LAMBDA t, start :
    Release(IF path.rest = "" THEN Ret(t, "EINVAL")
            ELSE VOP_LOOKPARENT(t, start), start))

vfs_lookup(s, p, path) ==
  Then(getdevice(s, p, path), LAMBDA t, start :
    IF path.rest = "" THEN Val(t, start)
    ELSE Release(VOP_LOOKUP(t, start, path.rest), start))

vfs_chdir(s, p, path) ==
  Then(vfs_lookup(s, p, path), LAMBDA t, vn :
       Release(vfs_setcurdir(t, p, vn), vn))

change_bootfs(s, new) == Drop([s EXCEPT !.boot = new], s.boot)

\* The name of a file system, with or without its colon; with one, the code
\* refuses it.
vfs_setbootfs(s, p, dev, colon) ==
  IF colon THEN Ret(s, "EINVAL")
  ELSE Then(vfs_chdir(s, p, [form |-> "dev", dev |-> dev, rest |-> ""]),
    LAMBDA t, v :
      Then(vfs_getcurdir(t, p), LAMBDA u, new : Val(change_bootfs(u, new), 0)))

vfs_clearbootfs(s) == change_bootfs(s, NOV)

-----------------------------------------------------------------------------
(* Operations on pathnames.                                                *)

CanWrite(flags) == flags \cap {"WRONLY", "RDWR"} # {}

\* The file of the path, created if the flags say so.
Find(s, p, path, flags) ==
  IF "CREAT" \notin flags THEN vfs_lookup(s, p, path)
  ELSE Then(vfs_lookparent(s, p, path), LAMBDA t, dir :
            Release(VOP_CREAT(t, dir, path.rest, "EXCL" \in flags), dir))

vfs_close(s, vn) == VOP_DECREF(vnode_decopen(s, vn), vn)

Truncated(s, vn, flags) ==
  IF "TRUNC" \notin flags THEN Val(s, 0)
  ELSE IF ~CanWrite(flags) THEN Ret(s, "EINVAL")
  ELSE VOP_TRUNCATE(s, vn, 0)

vfs_open(s, p, path, flags) ==
  Then(Find(s, p, path, flags), LAMBDA t, vn :
    Then(Else(VOP_OPEN(t, vn, flags), LAMBDA u, e : Release(Ret(u, e), vn)),
         LAMBDA u, v :
      Then(Else(Truncated(vnode_incopen(u, vn), vn, flags), LAMBDA w, e :
                IF w.panic THEN Panic(w) ELSE Ret(vfs_close(w, vn), e)),
           LAMBDA w, v2 : Val(w, vn))))

\* The directory of the path, for F, and given back afterwards.
InParent(s, p, path, F(_, _)) ==
  Then(vfs_lookparent(s, p, path), LAMBDA t, dir : Release(F(t, dir), dir))

vfs_remove(s, p, path) ==
  InParent(s, p, path, LAMBDA t, dir : VOP_REMOVE(t, dir, path.rest))

vfs_symlink(s, p, path) ==
  InParent(s, p, path, LAMBDA t, dir : VOP_UNIMP(t, dir, path.rest))

vfs_mkdir(s, p, path) ==
  InParent(s, p, path, LAMBDA t, dir : VOP_UNIMP(t, dir, path.rest))

vfs_rmdir(s, p, path) ==
  InParent(s, p, path, LAMBDA t, dir : VOP_UNIMP(t, dir, path.rest))

\* Both vnodes must be of one file system.
SameFs(a, b) == FsOf(a) # "" /\ FsOf(a) = FsOf(b)

vfs_rename(s, p, old, new) ==
  InParent(s, p, old, LAMBDA t, olddir :
    InParent(t, p, new, LAMBDA u, newdir :
      IF ~SameFs(olddir, newdir) THEN Ret(u, "EXDEV")
      ELSE VOP_RENAME(u, olddir, old.rest, new.rest)))

vfs_link(s, p, old, new) ==
  Then(vfs_lookup(s, p, old), LAMBDA t, file :
    Release(InParent(t, p, new, LAMBDA u, newdir :
              IF ~SameFs(file, newdir) THEN Ret(u, "EXDEV")
              ELSE VOP_LINK(u, newdir, new.rest, file)), file))
=============================================================================
