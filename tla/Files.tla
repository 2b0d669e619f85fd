-------------------------------- MODULE Files --------------------------------
(***************************************************************************)
(* Processes and their files: kern/userprog/filecalls.c, the file side of  *)
(* thread_fork(), sys_fork() and thread_exit() in kern/thread/thread.c,    *)
(* and the commands of the kernel menu that concern file systems.  A       *)
(* machine with the devices con, null, lhd0 and emu0 boots, and the menu   *)
(* runs programs, which open, read, write, close, fork and exit.           *)
(*                                                                         *)
(* Every step is a whole system call or menu command; in sys_fork() and    *)
(* the system calls no other process runs unless a disk makes it wait, and *)
(* the calls of two processes are taken here to be one after the other.    *)
(***************************************************************************)
EXTENDS Volume

CONSTANTS
  MENU,      \* the thread that boots and becomes the menu
  PROCS,     \* the threads of programs
  MAX_FD,    \* slots of a file table
  FDS,       \* the descriptors programs name
  OPENS,     \* the pathnames and flags they call open() with
  MAXLEN,    \* bound: no transfer starts past it
  MAXOPENS,  \* bound: calls of open() in a run
  MAXLEAKED, \* bound: no fork once so many descriptors are lost
  FAULTS     \* what goes wrong

VARIABLES
  k,         \* the kernel's state, with the file tables fdt
  live,      \* the threads there are
  leaked,    \* the descriptors of threads that never came to be
  hit,       \* whether a failure was reported
  opens      \* the calls of open() so far

vars == <<k, live, leaked, hit, opens>>

THREADS == {MENU} \cup PROCS
Slots == 0 .. MAX_FD - 1
NOFD == [path |-> [form |-> "", dev |-> "", rest |-> ""], flags |-> {},
         off |-> 0, vn |-> NOV]

-----------------------------------------------------------------------------
(* filecalls.c.  p is the current thread.                                  *)

\* The copy of the name is not checked: without it, vfs_open() is given NULL.
fd_init(s, p, path, flags) ==
  Then(kmalloc(s), LAMBDA t, v :
    IF Fails(t, "nomem") THEN Panic(Uses(t, "nomem"))
    ELSE Then(vfs_open(Uses(t, "nomem"), p, path, flags), LAMBDA u, vn :
      Val(u, [path |-> path, flags |-> flags, off |-> 0, vn |-> vn])))

fd_destroy(s, fd) == IF fd = NOFD THEN s ELSE vfs_close(s, fd.vn)

\* Mutant of fd_copy: the copy starts at the beginning of the file.
fd_copy_start(s, p, master) ==
  IF master = NOFD THEN Val(s, NOFD)
  ELSE Then(kmalloc(s), LAMBDA t, v : fd_init(t, p, master.path, master.flags))

\* Opens the name of the descriptor once more, with its flags.
fd_copy(s, p, master) ==
  IF master = NOFD THEN Val(s, NOFD)
  ELSE Then(kmalloc(s), LAMBDA t, v :
       Then(fd_init(t, p, master.path, master.flags), LAMBDA u, copy :
            Val(u, [copy EXCEPT !.off = master.off])))

con == [form |-> "dev", dev |-> "con", rest |-> ""]

\* Descriptors 0, 1 and 2 of the menu; if one fails the others are destroyed.
fd_init_initial(s, p) ==
  Else(For(Val(s, 0), <<0, 1, 2>>, LAMBDA t, v, i :
         Then(kmalloc(t), LAMBDA u, w :
         Then(fd_init(u, p, con, IF i = 0 THEN {} ELSE {"WRONLY"}),
              LAMBDA x, fd : Val([x EXCEPT !.fdt[p][i] = fd], 0)))),
       LAMBDA t, e :
         Ret([FoldLeft(LAMBDA u, i : fd_destroy(u, u.fdt[p][i]), t, <<1, 0>>)
                EXCEPT !.fdt[p] = s.fdt[p]], e))

\* The descriptor a program names is in use.  (The code lets MAX_FD through,
\* one past the table; the programs here name slots of the table.)
fd_check_valid(s, p, i) == i \in Slots /\ s.fdt[p][i] # NOFD

sys_open(s, p, path, flags) ==
  LET free == {i \in Slots : i >= 3 /\ s.fdt[p][i] = NOFD} IN
  IF free = {} THEN Ret(s, "EMFILE")
  ELSE Then(kmalloc(s), LAMBDA t, v :
       Then(fd_init(t, p, path, flags), LAMBDA u, fd :
            Val([u EXCEPT !.fdt[p][Min(free)] = fd], Min(free))))

sys_close(s, p, i) ==
  IF ~fd_check_valid(s, p, i) THEN Ret(s, "EBADF")
  ELSE Val([fd_destroy(s, s.fdt[p][i]) EXCEPT !.fdt[p][i] = NOFD], 0)

\* Neither moves the offset when the transfer fails.
Move(r, p, i) ==
  Then(r, LAMBDA t, v : Val([t EXCEPT !.fdt[p][i].off = t.uio.off], 0))

sys_read(s, p, i, size) ==
  IF size = 0 THEN Val(s, 0)
  ELSE IF ~fd_check_valid(s, p, i) THEN Ret(s, "EBADF")
  ELSE Then(kmalloc(s), LAMBDA t, v :
    LET des == t.fdt[p][i] IN
    IF "RDWR" \notin des.flags /\ "WRONLY" \in des.flags THEN Ret(t, "EINVAL")
    ELSE Move(VOP_READ(mk_kuio(t, <<>>, size, des.off, "read"), des.vn), p, i))

sys_write(s, p, i, data) ==
  IF data = <<>> THEN Val(s, 0)
  ELSE IF ~fd_check_valid(s, p, i) THEN Ret(s, "EBADF")
  ELSE Then(kmalloc(s), LAMBDA t, v :
    LET des == t.fdt[p][i] IN
    IF ~CanWrite(des.flags) THEN Ret(t, "EINVAL")
    ELSE Move(VOP_WRITE(mk_kuio(t, data, Len(data), des.off, "write"), des.vn),
              p, i))

-----------------------------------------------------------------------------
(* The file side of the life of a thread.  s.elf is as_elfbin, the program *)
(* a thread runs, which its address space keeps open.                      *)

\* The new thread gets the current directory.
CopyCwd(s, p, c) ==
  IF s.cwd[p] = NOV THEN s
  ELSE [vnode_incref(s, s.cwd[p]) EXCEPT !.cwd[c] = s.cwd[p]]

\* The new thread gets a copy of every descriptor; handed back are those made
\* so far, also when one cannot be made.
CopyFds(s, p, c) ==
  For(Val(s, <<>>), [i \in 1 .. MAX_FD |-> i - 1], LAMBDA t, made, i :
    Let(fd_copy(t, p, s.fdt[p][i]), LAMBDA r :
      [r EXCEPT !.v = Append(made, IF r.e = OK THEN @ ELSE NOFD)]))

\* The end of both kinds of fork.  One that fails gives the directory back;
\* its loop over the descriptors destroys the one that could not be made, over
\* and over, and none of those that were: they are handed back as leaked.
Forked(s, p, c) ==
  Let(CopyFds(s, p, c), LAMBDA r :
    IF r.e = OK
    THEN Val([r.s EXCEPT !.fdt[c] = [i \in Slots |-> r.v[i + 1]]], <<>>)
    ELSE [r EXCEPT !.s = IF @.panic THEN @ ELSE vfs_clearcurdir(@, c)])

\* kmalloc() stands for the thread, its stack and the space of the lists.
thread_create(s) == [kmalloc(s) EXCEPT !.v = <<>>]

thread_fork(s, p, c) ==
  Then(thread_create(s), LAMBDA t, none : Forked(CopyCwd(t, p, c), p, c))

\* Mutant of sys_fork: the program is not opened once more.
sys_fork_elf(s, p, c) ==
  Then(thread_create(s), LAMBDA t, none :
    Forked([CopyCwd(t, p, c) EXCEPT !.elf[c] = t.elf[p]], p, c))

\* as_copy() counts the program once more.  Its address space is not destroyed
\* if the descriptors cannot be copied.
sys_fork(s, p, c) ==
  Then(thread_create(s), LAMBDA t, none :
    Let(Forked([vnode_incref(vnode_incopen(CopyCwd(t, p, c), t.elf[p]), t.elf[p])
                  EXCEPT !.elf[c] = t.elf[p]], p, c), LAMBDA r :
      IF r.e = OK THEN r
      ELSE [r EXCEPT !.s.elf[c] = NOV,
                     !.v = Append(@, [NOFD EXCEPT !.vn = t.elf[p]])]))

\* as_create() may fail.
runprogram(s, p, path) ==
  Then(vfs_open(s, p, path, {}), LAMBDA t, vn :
    Then(Else(kmalloc(t), LAMBDA u, e : Ret(vfs_close(u, vn), e)),
         LAMBDA u, v : Val([u EXCEPT !.elf[p] = vn], 0)))

\* The new address space replaces the old one, which closes its program, when
\* nothing can go wrong any more.
sys_execv(s, p, path) ==
  Then(vfs_open(s, p, path, {}), LAMBDA t, vn :
    Then(Else(kmalloc(t), LAMBDA u, e : Ret(vfs_close(u, vn), e)),
         LAMBDA u, v :
           Val([vfs_close(u, u.elf[p]) EXCEPT !.elf[p] = vn], 0)))

thread_exit(s, p) ==
  Let(FoldLeft(LAMBDA u, i :
                 [fd_destroy(u, u.fdt[p][i]) EXCEPT !.fdt[p][i] = NOFD],
               s, [i \in 1 .. MAX_FD |-> i - 1]), LAMBDA t :
    vfs_clearcurdir(IF t.elf[p] = NOV THEN t
                    ELSE [vfs_close(t, t.elf[p]) EXCEPT !.elf[p] = NOV], p))

-----------------------------------------------------------------------------
(* Boot and shutdown.                                                      *)

devnull_create(s) == vfs_adddev(s, "null", "").s

vfs_bootstrap(s) == devnull_create(s)

dev_bootstrap(s) ==
  LET t == vfs_adddev(vfs_adddev(s, "con", "").s, "lhd0", "lhd0raw").s
  IN  vfs_addfs(emufs_addtovfs(t).s, "emu0", "emu").s

\* The swap file stays open.
swap_bootstrap(s) ==
  Let(vfs_open(s, MENU, [form |-> "slash", dev |-> "", rest |-> "SWAPFILE"],
               {"RDWR", "CREAT"}), LAMBDA r : [r.s EXCEPT !.swap = r.v])

\* The boot file system is emu0, and the first current directory.
boot(s) ==
  swap_bootstrap(fd_init_initial(
    vfs_setbootfs(dev_bootstrap(vfs_bootstrap(s)), MENU, "emu0", FALSE).s,
    MENU).s)

\* Mutant of shutdown: the current directory keeps its file system busy.
shutdown_cwd(s, p) == vfs_unmountall(vfs_clearbootfs(s))

shutdown(s, p) == vfs_unmountall(vfs_clearcurdir(vfs_clearbootfs(s), p))

sys_reboot(s, p) == [shutdown(s, p) EXCEPT !.off = TRUE]

-----------------------------------------------------------------------------
(* Steps.                                                                  *)

\* The machine, its disk formatted, a program among the host's files.
Prog == [form |-> "slash", dev |-> "", rest |-> "prog"]

PowerOn ==
  NoMachine(THREADS) @@ [elf |-> [p \in THREADS |-> NOV], swap |-> NOV,
    fdt |-> [p \in THREADS |-> [i \in Slots |-> NOFD]]]

Init ==
  /\ k = [boot([PowerOn EXCEPT !.host = [n \in {"prog"} |-> 1]])
            EXCEPT !.uio = NoUio]
  /\ live = {MENU}
  /\ leaked = <<>>
  /\ hit = FALSE
  /\ opens = 0

Running == ~k.panic /\ ~k.off

\* One failure is looked at in a run; After() is the outcome of a call in
\* which it happens, or none.
Faults == IF hit THEN {NoFault} ELSE FAULTS
After(F(_), fault) == F([k EXCEPT !.fault = fault])

End(s) ==
  /\ k' = [s EXCEPT !.fault = NoFault, !.uio = NoUio]
  /\ hit' = (hit \/ (s.fault.kind # "none" /\ s.fault.left < 0))

\* The menu waits until its program and all that it forked are gone.
AtMenu == Running /\ live = {MENU}

\* A menu command: mount, unmount, sync, cd, bootfs.
Command(F(_)) ==
  /\ AtMenu
  /\ \E fault \in Faults : End(After(F, fault))
  /\ UNCHANGED <<live, leaked, opens>>

cmd_mount == Command(LAMBDA s : vfs_mount(s, "lhd0").s)
cmd_unmount == Command(LAMBDA s : vfs_unmount(s, "lhd0").s)
cmd_sync == Command(LAMBDA s : vfs_sync(s))
cmd_chdir(dev) == Command(LAMBDA s :
  vfs_chdir(s, MENU, [form |-> "dev", dev |-> dev, rest |-> ""]).s)
cmd_bootfs(dev) == Command(LAMBDA s : vfs_setbootfs(s, MENU, dev, FALSE).s)

\* Commands sync and reboot; the menu's threads do not come back.
cmd_quit ==
  /\ AtMenu
  /\ \E fault \in Faults :
       End(After(LAMBDA s : sys_reboot(vfs_sync(s), MENU), fault))
  /\ UNCHANGED <<live, leaked, opens>>

\* A fork that leaves c behind, or only its descriptors.
ForkEnds(r, c) ==
  /\ End(r.s)
  /\ live' = IF r.e = OK THEN live \cup {c} ELSE live
  /\ leaked' = IF r.e = OK THEN leaked
               ELSE leaked \o SelectSeq(r.v, LAMBDA fd : fd # NOFD)

Fork(F(_), c) ==
  /\ c \notin live /\ Len(leaked) < MAXLEAKED
  /\ \E fault \in Faults : ForkEnds(After(F, fault), c)
  /\ UNCHANGED opens

common_prog(c) == AtMenu /\ Fork(LAMBDA s : thread_fork(s, MENU, c), c)

\* The new thread runs the program, or ends.
ProgStarted(r, c) ==
  /\ End(IF r.e = OK \/ r.s.panic THEN r.s ELSE thread_exit(r.s, c))
  /\ live' = IF r.e = OK THEN live ELSE live \ {c}

cmd_progthread(c) ==
  /\ Running /\ c \in live \ {MENU} /\ k.elf[c] = NOV
  /\ \E fault \in Faults :
       ProgStarted(After(LAMBDA s : runprogram(s, c, Prog), fault), c)
  /\ UNCHANGED <<leaked, opens>>

\* p runs a program.
Runs(p) == Running /\ p \in live \ {MENU} /\ k.elf[p] # NOV

Call(p, F(_)) ==
  /\ Runs(p)
  /\ \E fault \in Faults : End(After(F, fault).s)
  /\ UNCHANGED <<live, leaked>>

Open(p, path, flags) ==
  /\ opens < MAXOPENS
  /\ opens' = opens + 1
  /\ Call(p, LAMBDA s : sys_open(s, p, path, flags))

Close(p, i) == Call(p, LAMBDA s : sys_close(s, p, i)) /\ UNCHANGED opens

Read(p, i) ==
  /\ k.fdt[p][i].off < MAXLEN
  /\ Call(p, LAMBDA s : sys_read(s, p, i, 1)) /\ UNCHANGED opens

Write(p, i) ==
  /\ k.fdt[p][i].off < MAXLEN
  /\ Call(p, LAMBDA s : sys_write(s, p, i, <<1>>)) /\ UNCHANGED opens

Exec(p) == Call(p, LAMBDA s : sys_execv(s, p, Prog)) /\ UNCHANGED opens

ForkProg(p, c) == Runs(p) /\ Fork(LAMBDA s : sys_fork(s, p, c), c)

Exit(p) ==
  /\ Runs(p)
  /\ \E fault \in Faults : End(After(LAMBDA s : thread_exit(s, p), fault))
  /\ live' = live \ {p}
  /\ UNCHANGED <<leaked, opens>>

Reboot(p) == Call(p, LAMBDA s : Val(sys_reboot(s, p), 0)) /\ UNCHANGED opens

Next ==
  \/ cmd_mount \/ cmd_unmount \/ cmd_sync \/ cmd_quit
  \/ \E dev \in {"lhd0", "emu0", "con"} : cmd_chdir(dev) \/ cmd_bootfs(dev)
  \/ \E p \in PROCS :
       \/ common_prog(p) \/ cmd_progthread(p) \/ Exec(p) \/ Exit(p) \/ Reboot(p)
       \/ \E o \in OPENS : Open(p, o[1], o[2])
       \/ \E i \in FDS : Close(p, i) \/ Read(p, i) \/ Write(p, i)
       \/ \E c \in PROCS : ForkProg(p, c)

Spec == Init /\ [][Next]_vars

-----------------------------------------------------------------------------
(* Properties.                                                             *)

\* Who has a vnode open: descriptors, those that leaked, running programs and
\* the swap file.
Opens(v) ==
    Cardinality({<<p, i>> \in live \X Slots : k.fdt[p][i].vn = v})
  + Cardinality({j \in DOMAIN leaked : leaked[j].vn = v})
  + Cardinality({p \in live : k.elf[p] = v})
  + (IF k.swap = v THEN 1 ELSE 0)

\* Who else refers to it: current directories, the boot file system, and
\* for ever the table of devices and the root of the emulator.
Refers(v) ==
    Cardinality({p \in live : k.cwd[p] = v})
  + (IF k.boot = v THEN 1 ELSE 0)
  + (IF Kind(v) = "dev" \/ v = EV(EMUROOT) THEN 1 ELSE 0)

\* The counts of a vnode are the numbers of its holders, through every way a
\* system call, a fork, an exec, an exit or a menu command ends, failures
\* included; a vnode nobody holds is left only by a failing disk, and a thread
\* that is gone holds nothing.
VnodesCounted ==
  ~k.panic =>
    /\ \A v \in DOMAIN k.vn :
         /\ k.vn[v].open = Opens(v)
         /\ \/ k.vn[v].ref = Opens(v) + Refers(v)
            \/ hit /\ Kind(v) = "sfs" /\ k.vn[v].ref = 1 /\ Opens(v) + Refers(v) = 0
    /\ \A p \in live, i \in Slots :
         k.fdt[p][i] # NOFD => k.fdt[p][i].vn \in DOMAIN k.vn
    /\ \A p \in THREADS \ live :
         k.elf[p] = NOV /\ k.cwd[p] = NOV /\ \A i \in Slots : k.fdt[p][i] = NOFD

\* A handle of the emulator is open exactly as long as its vnode is there.
HandlesHeld ==
  ~k.panic =>
    /\ k.ev = {h \in 0 .. EMUHANDLES : EV(h) \in DOMAIN k.vn}
    /\ DOMAIN k.handles = k.ev \ {EMUROOT}

\* The file a vnode stands for.
FileOf(s, v) == IF Kind(v) = "emu" /\ v[2] # EMUROOT
                THEN <<"host", s.handles[v[2]]>> ELSE v

\* A fork gives the child the descriptors of the parent: open on the same
\* files, with the same flags and offsets, though each is opened anew by name.
ForkSharesFiles ==
  [][\A p \in PROCS, c \in PROCS : c \in live' \ live /\ ForkProg(p, c) =>
       \A i \in Slots :
         LET a == k'.fdt[p][i]
             b == k'.fdt[c][i]
         IN  a.flags = b.flags /\ a.off = b.off
               /\ FileOf(k', a.vn) = FileOf(k', b.vn)]_vars

\* Unless a failure was reported, no sequence of commands and calls makes the
\* kernel panic, and whoever reboots the machine, and whatever is open then, the
\* disk holds what the files held, and its map their blocks; if only the menu was
\* left the volume is unmounted.
CleanShutdown ==
  ~hit =>
    /\ ~k.panic
    /\ k.off => LET s == OnDisk(k) IN
                /\ live = {MENU} /\ leaked = <<>> => ~k.mounted
                /\ Marked(s) = Marked(k)
                /\ Directory(s) = Directory(k)
                /\ \A f \in NamesOf(k) :
                     Contents(s, Directory(s)[f]) = Contents(k, Directory(k)[f])

\* What the files hold.
Files(s) == [host |-> s.host,
             vol |-> [f \in NamesOf(s) |-> Contents(s, Directory(s)[f])]]

\* fork() duplicates the process and changes no file.  This does not hold:
\* fd_copy() opens with the flags of the original, O_TRUNC included.
ForkKeepsFiles ==
  [][\A p \in PROCS, c \in PROCS : ForkProg(p, c) => Files(k') = Files(k)]_vars
=============================================================================
