--------------------------------- MODULE VFS ---------------------------------
(***************************************************************************)
(* The VFS layer, kern/fs/vfs: the table of devices, the boot file system, *)
(* current directories, pathnames, and the operations on them, over the    *)
(* vnodes of devices, SFS and the emulator file system.                    *)
(*                                                                         *)
(* Of the state s:  kd is the array knowndevs; boot is bootfs_vnode; cwd   *)
(* is the t_cwd of every thread.  A vnode is named by what kind it is and  *)
(* its device, inode or handle.  A pathname is a record: its form          *)
(* (dev:rest, /rest, :rest or rest), the device and the rest.  The strings *)
(* "" and NOV are the null pointers.                                       *)
(***************************************************************************)
EXTENDS SFSOps, EmuFS

CONSTANT VOLNAME   \* sp_volname of the SFS volume

NOV == <<"none", 0>>
DV(name) == <<"dev", name>>

-----------------------------------------------------------------------------
(* Vnode operations: each goes to the vnode's own function.                *)

Kind(v) == v[1]

\* The vnodes of a file system carry its name.
FsOf(v) == IF Kind(v) = "dev" THEN "" ELSE Kind(v)

IsDir(s, v) ==
  \/ Kind(v) = "sfs" /\ s.sv[v[2]].i.type = "dir"
  \/ Kind(v) = "emu" /\ v[2] = EMUROOT

\* A value that is an inode or a handle, as a vnode.
Wrap(r, kind) == IF r.e = OK THEN [r EXCEPT !.v = <<kind, r.v>>] ELSE r

\* Devices are permanent.
dev_reclaim(s, v) == Val(s, 0)

VOP_RECLAIM(s, v) ==
  CASE Kind(v) = "sfs" -> sfs_reclaim(s, v)
    [] Kind(v) = "emu" -> emufs_reclaim(s, v)
    [] OTHER -> dev_reclaim(s, v)

VOP_DECREF(s, v) == vnode_decref(s, v, VOP_RECLAIM)

dev_open(s, v, flags) ==
  IF flags \cap {"CREAT", "TRUNC", "EXCL", "APPEND"} # {}
  THEN Ret(s, "EINVAL") ELSE Val(s, 0)

VOP_OPEN(s, v, flags) ==
  CASE Kind(v) = "dev" -> dev_open(s, v, flags)
    [] Kind(v) = "sfs" -> IF IsDir(s, v) THEN sfs_opendir(s, v[2], flags)
                                         ELSE sfs_open(s, v[2], flags)
    [] OTHER -> IF IsDir(s, v) THEN emufs_opendir(s, v[2], flags)
                               ELSE emufs_open(s, v[2], flags)

VOP_CLOSE(s, v) == IF Kind(v) = "sfs" THEN sfs_close(s, v) ELSE Val(s, 0)

\* The last close calls VOP_CLOSE, whose error is only printed.
vnode_decopen(s, v) ==
  IF ~vnode_check(s, v) \/ s.vn[v].open = 0 THEN Panic(s).s
  ELSE LET t == [s EXCEPT !.vn[v].open = @ - 1] IN
       IF t.vn[v].open > 0 THEN t ELSE VOP_CLOSE(t, v).s

\* A device may be truncated to its own size only.
VOP_TRUNCATE(s, v, len) ==
  CASE Kind(v) = "dev" -> Ret(s, "EINVAL")
    [] IsDir(s, v) -> Ret(s, "EISDIR")
    [] Kind(v) = "sfs" -> sfs_truncate(s, v[2], len)
    [] OTHER -> emufs_truncate(s, v[2], len)

VOP_CREAT(s, v, name, excl) ==
  CASE ~IsDir(s, v) -> Ret(s, "ENOTDIR")
    [] Kind(v) = "sfs" -> Wrap(sfs_creat(s, v[2], name, excl), "sfs")
    [] OTHER -> Wrap(emufs_creat(s, name, excl), "emu")

VOP_REMOVE(s, v, name) ==
  CASE ~IsDir(s, v) -> Ret(s, "ENOTDIR")
    [] Kind(v) = "sfs" -> sfs_remove(s, v[2], name)
    [] OTHER -> Ret(s, "EUNIMP")

VOP_LINK(s, v, name, file) ==
  CASE ~IsDir(s, v) -> Ret(s, "ENOTDIR")
    [] Kind(v) = "sfs" -> sfs_link(s, v[2], name, file[2])
    [] OTHER -> Ret(s, "EUNIMP")

VOP_RENAME(s, v, n1, n2) ==
  CASE ~IsDir(s, v) -> Ret(s, "ENOTDIR")
    [] Kind(v) = "sfs" -> sfs_rename(s, v[2], n1, n2)
    [] OTHER -> Ret(s, "EUNIMP")

\* mkdir, rmdir and symlink, which no file system here has.
VOP_UNIMP(s, v, name) ==
  IF IsDir(s, v) THEN Ret(s, "EUNIMP") ELSE Ret(s, "ENOTDIR")

VOP_LOOKUP(s, v, name) ==
  CASE Kind(v) = "dev" -> Ret(s, "ENOENT")
    [] Kind(v) = "sfs" -> Wrap(sfs_lookup(s, v[2], name), "sfs")
    [] OTHER -> IF IsDir(s, v) THEN Wrap(emufs_lookup(s, name), "emu")
                               ELSE Ret(s, "ENOTDIR")

VOP_LOOKPARENT(s, v) ==
  CASE Kind(v) = "dev" -> Ret(s, "ENOTDIR")
    [] Kind(v) = "sfs" -> Wrap(sfs_lookparent(s, v[2]), "sfs")
    [] OTHER -> IF IsDir(s, v) THEN Wrap(emufs_lookparent(s, v[2]), "emu")
                               ELSE Ret(s, "ENOTDIR")

\* null: has nothing to read and takes everything; the console is module
\* Console's, and here takes everything and has a unit for every reader.
nullio(s) ==
  Val(IF s.uio.rw = "write" THEN [s EXCEPT !.uio.resid = 0] ELSE s, 0)

con_io(s) ==
  IF s.uio.rw = "write" THEN uiomove(s, s.uio.data, 0, s.uio.resid)
                        ELSE uiomove(s, <<1>>, 0, 1)

dev_io(s, v) == IF v[2] = "null" THEN nullio(s) ELSE con_io(s)

VOP_READ(s, v) ==
  CASE Kind(v) = "dev" -> dev_io(s, v)
    [] IsDir(s, v) -> Ret(s, "EISDIR")
    [] Kind(v) = "sfs" -> sfs_read(s, v[2])
    [] OTHER -> emufs_read(s, v[2])

VOP_WRITE(s, v) ==
  CASE Kind(v) = "dev" -> dev_io(s, v)
    [] IsDir(s, v) -> Ret(s, "EISDIR")
    [] Kind(v) = "sfs" -> sfs_write(s, v[2])
    [] OTHER -> emufs_write(s, v[2])

-----------------------------------------------------------------------------
(* The table of devices.                                                   *)

FSOP_GETVOLNAME(fs) == IF fs = "sfs" THEN VOLNAME ELSE ""
FSOP_SYNC(s, fs) == IF fs = "sfs" THEN sfs_sync(s) ELSE Val(s, 0)
FSOP_UNMOUNT(s, fs) == IF fs = "sfs" THEN sfs_unmount(s) ELSE emufs_unmount(s)
FSOP_GETROOT(s, fs) ==
  IF fs = "sfs" THEN Wrap(sfs_getroot(s), "sfs")
                ELSE Wrap(emufs_getroot(s), "emu")

\* One of the names of the device, if it has them.
Named(d, name) ==
  name # "" /\ name \in {d.name, d.raw, FSOP_GETVOLNAME(d.fs)}

badnames(s, names) ==
  \E i \in DOMAIN s.kd, n \in names : Named(s.kd[i], n)

dev_create_vnode(s, name) == vnode_init(s, DV(name))

\* kstrdup(), the raw name, the vnode, the struct and array_add().  The
\* table is not touched when the name is taken.
vfs_doadd(s, name, raw, fs) ==
  LET new == [name |-> name, raw |-> raw, fs |-> fs] IN
  Then(kmalloc(s), LAMBDA t, v :
  Then(dev_create_vnode(t, name), LAMBDA u, w :
    IF badnames(u, {name, raw, FSOP_GETVOLNAME(fs)}) THEN Ret(u, "EEXIST")
    ELSE Val([u EXCEPT !.kd = Append(@, new)], 0)))

vfs_adddev(s, name, raw) == vfs_doadd(s, name, raw, "")
vfs_addfs(s, name, fs) == vfs_doadd(s, name, "", fs)

\* The first device of that name: the root of its file system, or the
\* device itself.
vfs_getroot(s, name) ==
  LET found == {i \in DOMAIN s.kd : Named(s.kd[i], name)}
      d     == s.kd[Min(found)]
  IN  IF found = {} THEN Ret(s, "ENODEV")
      ELSE IF d.fs # "" /\ name # d.raw THEN FSOP_GETROOT(s, d.fs)
      ELSE IF d.raw # "" /\ name = d.name THEN Ret(s, "ENXIO")
      ELSE Val(vnode_incref(s, DV(d.name)), DV(d.name))

\* The index of the mountable device of that name, 0 if there is none.
findmount(s, name) ==
  LET found == {i \in DOMAIN s.kd : s.kd[i].raw # "" /\ s.kd[i].name = name}
  IN  IF found = {} THEN 0 ELSE Min(found)

vfs_mount(s, name) ==
  LET i == findmount(s, name) IN
  IF i = 0 THEN Ret(s, "ENODEV")
  ELSE IF s.kd[i].fs # "" THEN Ret(s, "EBUSY")
  ELSE Then(sfs_domount(s), LAMBDA t, v :
            Val([t EXCEPT !.kd[i].fs = "sfs"], 0))

vfs_unmount(s, name) ==
  LET i == findmount(s, name) IN
  IF i = 0 THEN Ret(s, "ENODEV")
  ELSE IF s.kd[i].fs = "" THEN Ret(s, "EINVAL")
  ELSE Then(FSOP_SYNC(s, s.kd[i].fs), LAMBDA t, v :
       Then(FSOP_UNMOUNT(t, t.kd[i].fs), LAMBDA u, w :
            Val([u EXCEPT !.kd[i].fs = ""], 0)))

vfs_sync(s) ==
  FoldLeft(LAMBDA t, d : IF d.fs = "" THEN t ELSE FSOP_SYNC(t, d.fs).s,
           s, s.kd)

\* Every mounted device; a sync that fails is tried once more.
vfs_unmountall(s) ==
  LET Unmount(t, i) ==
        LET d == t.kd[i] IN
        IF d.raw = "" \/ d.fs = "" THEN t
        ELSE Then(Else(FSOP_SYNC(t, d.fs), LAMBDA u, e : FSOP_SYNC(u, d.fs)),
                  LAMBDA u, v :
             Then(FSOP_UNMOUNT(u, d.fs), LAMBDA w, v2 :
                  Val([w EXCEPT !.kd[i].fs = ""], 0))).s
  IN  FoldLeft(Unmount, s, [i \in DOMAIN s.kd |-> i])
=============================================================================
