------------------------------- MODULE Storage -------------------------------
(***************************************************************************)
(* Kernel threads using the SFS volume of the disk lhd0: through handles   *)
(* (a vnode opened with vfs_open() and an offset), and by name.  Every     *)
(* step is a whole call of the VFS layer, in which at most one thing goes  *)
(* wrong.  A loss of power may end the run after any block write.          *)
(***************************************************************************)
EXTENDS Volume

CONSTANTS
  CLIENTS,   \* the threads
  FILES,     \* the names they use
  DATA,      \* the units they write
  MAXLEN,    \* bound: no write ends past it
  MAXIO,     \* bound: units of a transfer
  MAXCHANGES,\* bound: calls that change a file
  FAULTS     \* the faults that happen

VARIABLES
  k,         \* the kernel's state
  fh,        \* the handle of every client: vnode, whether it may write, offset
  saved,     \* what a sync left on the disk: names and contents, those since
             \* touched excluded
  hit,       \* whether a failure was reported since the disk was formatted
  changes    \* the calls so far that changed a file

vars == <<k, fh, saved, hit, changes>>

-----------------------------------------------------------------------------
(* Steps.                                                                  *)

Path(name) == [form |-> "dev", dev |-> "lhd0", rest |-> name]

Closed == [vn |-> NOV, write |-> FALSE, off |-> 0]

\* The machine at boot, and after a client has mounted the volume, written a
\* file of length MAXLEN, closed it and unmounted the volume again.
Booted == vfs_adddev(NoMachine(CLIENTS), "lhd0", "lhd0raw").s

Written(c, f, data) ==
  Let(vfs_open(vfs_mount(Booted, "lhd0").s, c, Path(f), {"WRONLY", "CREAT"}),
    LAMBDA r :
      [vfs_unmount(
         vfs_close(VOP_WRITE(mk_kuio(r.s, data, Len(data), 0, "write"), r.v).s,
                   r.v), "lhd0").s EXCEPT !.uio = NoUio])

Init ==
  /\ k \in {Booted} \cup {Written(c, f, [i \in 1 .. MAXLEN |-> d]) :
                           c \in CLIENTS, f \in FILES, d \in DATA}
  /\ fh = [c \in CLIENTS |-> Closed]
  /\ saved = <<>>
  /\ hit = FALSE
  /\ changes = 0

Running == ~k.panic /\ ~k.off

\* A failure that the kernel reports, to the caller or on the console.
Reported(s) == s.fault.kind \in {"rio", "nomem"} /\ s.fault.left < 0

\* What may go wrong in a call (one failure is looked at in a run), and the
\* outcome of the call F when it does.
Faults == IF hit THEN {NoFault} ELSE FAULTS
After(F(_), fault) == F([k EXCEPT !.fault = fault])

\* The end of a call, and of one that may have changed the files touched.
\* What the call went on to do after the power was lost did not happen: only
\* the disk counts then.
End(r) ==
  /\ k' = [r.s EXCEPT !.fault = NoFault, !.uio = NoUio, !.off = Dead(r.s),
                      !.panic = @ /\ ~Dead(r.s)]
  /\ hit' = (hit \/ Reported(r.s))

Leave(r, touched) ==
  /\ End(r)
  /\ touched = {} \/ changes < MAXCHANGES
  /\ changes' = IF touched # {} /\ r.e = OK THEN changes + 1 ELSE changes
  /\ saved' = [f \in DOMAIN saved \ touched |-> saved[f]]

\* The names of the inode.
Links(ino) == {f \in NamesOf(k) : Directory(k)[f] = ino}
Same(name) ==
  {name} \cup (IF name \in NamesOf(k) THEN Links(Directory(k)[name]) ELSE {})

\* Where an open leaves the handle of the client, and a transfer.
OpenEnds(r, c, flags, touched) ==
  /\ Leave(r, touched)
  /\ fh' = IF r.e # OK THEN fh
           ELSE [fh EXCEPT ![c] = [vn |-> r.v, off |-> 0,
                                   write |-> CanWrite(flags)]]

TransferEnds(r, c, touched) ==
  /\ Leave(r, touched)
  /\ fh' = IF r.e # OK THEN fh ELSE [fh EXCEPT ![c].off = r.s.uio.off]

Open(c, name, flags) ==
  /\ Running /\ fh[c] = Closed
  /\ \E fault \in Faults :
       OpenEnds(After(LAMBDA s : vfs_open(s, c, Path(name), flags), fault),
                c, flags, IF flags = {} THEN {} ELSE Same(name))

Close(c) ==
  /\ Running /\ fh[c] # Closed
  /\ \E fault \in Faults :
       Leave(After(LAMBDA s : Val(vfs_close(s, fh[c].vn), 0), fault), {})
  /\ fh' = [fh EXCEPT ![c] = Closed]

Read(c, n) ==
  /\ Running /\ fh[c] # Closed
  /\ \E fault \in Faults :
       TransferEnds(
         After(LAMBDA s : VOP_READ(mk_kuio(s, <<>>, n, fh[c].off, "read"),
                                   fh[c].vn), fault), c, {})

Write(c, data) ==
  /\ Running /\ fh[c] # Closed /\ fh[c].write
  /\ fh[c].off + Len(data) <= MAXLEN
  /\ \E fault \in Faults :
       TransferEnds(
         After(LAMBDA s :
                 VOP_WRITE(mk_kuio(s, data, Len(data), fh[c].off, "write"),
                           fh[c].vn), fault), c, Links(fh[c].vn[2]))

\* A call that opens and closes nothing.
Plain(F(_), touched) ==
  /\ Running /\ UNCHANGED fh
  /\ \E fault \in Faults : Leave(After(F, fault), touched)

Delete(c, name) == Plain(LAMBDA s : vfs_remove(s, c, Path(name)), {name})

Rename(c, n1, n2) ==
  Plain(LAMBDA s : vfs_rename(s, c, Path(n1), Path(n2)), {n1, n2})

Link(c, n1, n2) ==
  Plain(LAMBDA s : vfs_link(s, c, Path(n1), Path(n2)), {n2})

Mount == Plain(LAMBDA s : vfs_mount(s, "lhd0"), {})

Unmount == Plain(LAMBDA s : vfs_unmount(s, "lhd0"), {})

\* A sync that is not cut short leaves every file on the disk.
SyncEnds(r) ==
  /\ End(r) /\ UNCHANGED <<fh, changes>>
  /\ saved' = IF Dead(r.s) \/ Reported(r.s) THEN saved
              ELSE [f \in NamesOf(k) |-> Contents(k, Directory(k)[f])]

Sync ==
  /\ Running
  /\ \E fault \in Faults :
       SyncEnds(After(LAMBDA s : Val(vfs_sync(s), 0), fault))

Transfers == UNION {[1 .. n -> DATA] : n \in 1 .. MAXIO}

FLAGS == {{}, {"RDWR", "CREAT"}, {"WRONLY", "CREAT", "TRUNC"}}

Next ==
  \/ \E c \in CLIENTS :
       \/ \E f \in FILES, flags \in FLAGS : Open(c, f, flags)
       \/ Close(c)
       \/ Read(c, MAXIO)
       \/ \E data \in Transfers : Write(c, data)
       \/ \E f \in FILES : Delete(c, f)
       \/ \E f, g \in FILES : Rename(c, f, g) \/ Link(c, f, g)
  \/ Mount \/ Unmount \/ Sync

Spec == Init /\ [][Next]_vars

-----------------------------------------------------------------------------
(* Properties.                                                             *)

\* The space of the volume is accounted for: no block has two uses, every
\* block in use is marked, and, unless a failure was reported, every marked
\* block is in use (sfs_bmap, sfs_truncate, sfs_reclaim and sfs_makeobj
\* together, over the map that sfs_sync saves).  None of the panics over a block
\* that is free when it should not be, or the other way round, happens unless a
\* failure was reported.
BlocksAccounted ==
  /\ k.panic => hit
  /\ Running =>
       LET uses == UNION {BlockUses(k, ino) : ino \in FilesOf(k)}
           used == {u[3] : u \in uses}
       IN  /\ Cardinality(used) = Cardinality(uses)
           /\ used \cup writebitmap \subseteq Marked(k)
           /\ hit \/ Marked(k) \subseteq used \cup writebitmap

\* The link count of a file is the number of entries that name it, and no two
\* entries have one name.
LinksCounted ==
  Running =>
    LET es == Entries(k) IN
    /\ Cardinality(NamesOf(k)) = Len(es)
    /\ \A ino \in FilesOf(k) \ {ROOT} :
         Inode(k, ino).link = Cardinality({n \in DOMAIN es : es[n].ino = ino})

\* A file of the volume is in memory exactly when someone holds it, with the
\* number of holders as its counts; a failure that was reported may leave a
\* vnode behind that no one holds.
VnodesHeld ==
  Running =>
    \A v \in DOMAIN k.vn :
      LET n == Cardinality({c \in CLIENTS : fh[c].vn = v}) IN
      v # DV("lhd0") =>
        /\ v[2] \in DOMAIN k.sv
        /\ k.vn[v].open = n
        /\ k.vn[v].ref = n \/ (hit /\ n = 0 /\ k.vn[v].ref = 1)

\* Every count is exact: the links of a file in its inode, and the holders of a
\* vnode, which together decide when sfs_reclaim() erases the file.
CountsExact == LinksCounted /\ VnodesHeld

\* What a client would read through its handle is what the file holds, from
\* the offset of the handle to the end of the file.
ReadsBack ==
  Running =>
    \A c \in CLIENTS : fh[c] # Closed =>
      LET off == fh[c].off
          f   == Contents(k, fh[c].vn[2])
      IN  Let(VOP_READ(mk_kuio(k, <<>>, MAXIO, off, "read"), fh[c].vn),
              LAMBDA r :
                r.e = OK /\ r.s.uio.data
                  = SubSeq(f, off + 1, Min({Len(f), off + MAXIO})))

\* What a sync saved, and no later call touched, is on the disk when the
\* power is lost, whatever else was being written.
SavedSurvives ==
  k.off =>
    LET s == OnDisk(k) IN
    \A f \in DOMAIN saved :
      f \in NamesOf(s) /\ Contents(s, Directory(s)[f]) = saved[f]

\* The volume as a store of files.
Store == INSTANCE FileStore WITH
  NAMES <- FILES, IDS <- 0 .. NBLOCKS - 1, UNITS <- Transfers, LIMIT <- MAXLEN,
  names <- Directory(k),
  data <- [ino \in FilesOf(k) \ {ROOT} |-> Contents(k, ino)],
  held <- {fh[c].vn[2] : c \in {d \in CLIENTS : fh[d] # Closed}},
  broken <- hit \/ ~Running

\* As long as no failure is reported the volume is a store of files: every
\* call creates, writes, truncates, links, renames or removes the one file it
\* is about, or changes nothing, whatever sync, unmount and mount come in
\* between and whatever the free space.
IsFileStore == Store!Spec
=============================================================================
