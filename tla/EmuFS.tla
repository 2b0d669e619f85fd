-------------------------------- MODULE EmuFS --------------------------------
(***************************************************************************)
(* The emulator file system of kern/dev/lamebus/emu.c: the host's files,   *)
(* seen through handles of the emulator device.  Every lookup opens a new  *)
(* handle and thus makes a new vnode; the handle is closed when the vnode  *)
(* is reclaimed.  The host's side is modelled from how the driver uses it, *)
(* with one directory.                                                     *)
(*                                                                         *)
(* Of the state s:  host maps the names of the host's files to their       *)
(* sizes, handles the open handles to names, and ev is the set of handles  *)
(* with an entry in the table ef_vnodes.                                   *)
(***************************************************************************)
EXTENDS Calls

CONSTANT EMUHANDLES   \* the handles the device has, besides the root's

EV(h) == <<"emu", h>>
EMUROOT == 0          \* EMU_ROOTHANDLE

-----------------------------------------------------------------------------
(* The device.                                                             *)

\* EMU_OP_OPEN, EMU_OP_CREATE and EMU_OP_EXCLCREATE.
HostOpen(s, name, create, excl) ==
  LET free == (1 .. EMUHANDLES) \ DOMAIN s.handles
      h    == Min(free)
      had  == name \in DOMAIN s.host
  IN  IF ~had /\ ~create THEN Ret(s, "ENOENT")
      ELSE IF had /\ excl THEN Ret(s, "EEXIST")
      ELSE IF free = {} THEN Ret(s, "ENFILE")
      ELSE Val([s EXCEPT
             !.host = [n \in DOMAIN @ \cup {name} |->
                         IF had \/ n # name THEN @[n] ELSE 0],
             !.handles = [g \in DOMAIN @ \cup {h} |->
                            IF g = h THEN name ELSE @[g]]], h)

-----------------------------------------------------------------------------
(* Driver and vnode operations.                                            *)

emu_open(s, name, create, excl) == HostOpen(s, name, create, create /\ excl)

emu_close(s, h) == [s EXCEPT !.handles = [g \in DOMAIN @ \ {h} |-> @[g]]]

\* What is left of the file after the offset, up to len.
emu_doread(s, h) ==
  LET have == s.host[s.handles[h]] - s.uio.off
      n    == IF have <= 0 THEN 0 ELSE Min({have, s.uio.resid})
  IN  uiomove(s, [i \in 1 .. n |-> 1], 0, n)

emu_write(s, h) ==
  LET n == s.uio.off + s.uio.resid IN
  Then(uiomove(s, s.uio.data, 0, s.uio.resid), LAMBDA t, v :
       Val([t EXCEPT !.host[t.handles[h]] = Max({@, n})], 0))

emu_trunc(s, h, len) == Val([s EXCEPT !.host[s.handles[h]] = len], 0)

emufs_open(s, h, flags) ==
  IF "APPEND" \in flags THEN Ret(s, "EUNIMP") ELSE Val(s, 0)

emufs_opendir(s, h, flags) ==
  IF flags \cap {"WRONLY", "RDWR", "APPEND"} # {} THEN Ret(s, "EISDIR")
                                                 ELSE Val(s, 0)

\* Mutant of emufs_reclaim: the handle is not closed.
emufs_reclaim_open(s, v) == vnode_kill([s EXCEPT !.ev = @ \ {v[2]}], v)

emufs_reclaim(s, v) ==
  IF s.vn[v].ref # 1 THEN Ret(s, "EBUSY")
  ELSE vnode_kill([emu_close(s, v[2]) EXCEPT !.ev = @ \ {v[2]}], v)

emufs_read(s, h) == emu_doread(s, h)

emufs_write(s, h) == emu_write(s, h)

emufs_truncate(s, h, len) == emu_trunc(s, h, len)

emufs_loadvnode(s, h) ==
  IF h \in s.ev THEN Val(vnode_incref(s, EV(h)), h)
  ELSE Then(kmalloc(s), LAMBDA t, v :
       Then(vnode_init(t, EV(h)), LAMBDA u, w :
         \* array_add()
         Then(Else(kmalloc(u), LAMBDA x, e : Ret(vnode_kill(x, EV(h)).s, e)),
              LAMBDA x, y : Val([x EXCEPT !.ev = @ \cup {h}], h))))

\* The vnode of a handle just opened; without one the handle is closed.
Opened(r) ==
  Then(r, LAMBDA t, h :
    Else(emufs_loadvnode(t, h), LAMBDA u, e : Ret(emu_close(u, h), e)))

emufs_creat(s, name, excl) == Opened(emu_open(s, name, TRUE, excl))

emufs_lookup(s, name) == Opened(emu_open(s, name, FALSE, FALSE))

\* The pathname is one component.
emufs_lookparent(s, h) == Val(vnode_incref(s, EV(h)), h)

emufs_getroot(s) == Val(vnode_incref(s, EV(EMUROOT)), EMUROOT)

emufs_unmount(s) == Ret(s, "EBUSY")

\* The root's vnode, which stays.
emufs_addtovfs(s) == emufs_loadvnode(s, EMUROOT)
=============================================================================
