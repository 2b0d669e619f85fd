--------------------------------- MODULE VM ---------------------------------
(***************************************************************************)
(* What processes see of the memory in Paging: vm_fault() and the address  *)
(* spaces (kern/vm/addrspace.c), the TLB (kern/vm/vm_tlb.c) and the        *)
(* loading of a page from the executable (load_segment() in                *)
(* userprog/loadelf.c through emu_doread() in dev/lamebus/emu.c).          *)
(*                                                                         *)
(* There is one processor.  A step of a process is a stretch of code up to *)
(* the next place where another process can run, and begins with what      *)
(* as_activate() does in mi_switch().  The TLB has more slots than there   *)
(* are pages in an instance, so it is a function of the pages.             *)
(*                                                                         *)
(* The executable and the swap file are on emu0.  Reads and writes of the  *)
(* swap file are single steps, which need e_lock to be free; a read of the *)
(* executable keeps e_lock while it copies to the user's page.             *)
(***************************************************************************)
EXTENDS Paging

CONSTANTS
  Stack,  \* the stack's pages, not in Text
  Freed   \* the active address space when it was destroyed: no process

VARIABLES
  at,              \* where a process is in vm_fault(); see Stages
  page,            \* the page of the fault
  found,           \* the frame that tlb_write() got from pt_get_paddr()
  stackok,         \* the address spaces that have stack limits
  tlb, active_as,
  e_lock           \* emu0's lock

faultvars == <<at, page, found>>
vmvars == <<pagingvars, faultvars, stackok, tlb, active_as, e_lock>>

\* Stages: user mode; before tlb_write() for a new page; in load_segment()
\* before and with e_lock; before tlb_write() for a page that is in memory
\* (or being swapped in) and in it; about to exit.
Stages == {"user", "fresh", "open", "loading", "install", "tlbwrite", "dying"}

Invalid == [frame |-> NULL, dirty |-> FALSE]
Mapping(f, dirty) == [frame |-> f, dirty |-> dirty]
FlushedTlb == [v \in Pages |-> Invalid]

\* The TLB when p runs.
TlbOf(p) == IF active_as = p THEN tlb ELSE FlushedTlb

as_activate(p) == active_as' = p /\ tlb' = TlbOf(p)

tlb_invalidate(p) == active_as' = p /\ tlb' = FlushedTlb

\* TLB_Write() for page v; physical address 0 if the page is not in memory.
TLB_Write(p, v, m) == active_as' = p /\ tlb' = [TlbOf(p) EXCEPT ![v] = m]

pt_get_paddr(p, v) ==
  IF Resident(p, v) THEN CHOOSE f \in Frames : Holds(f, p, v) /\
                           \A g \in Frames : Holds(g, p, v) => f <= g
                    ELSE "zero"

Stage(p, s) == ~panicked /\ at' = [at EXCEPT ![p] = s]

-----------------------------------------------------------------------------
(* Page faults.                                                            *)

\* p accesses page v: its program does, or load_segment(), at splhigh().
Accesses(p, v) ==
  /\ pc[p] = "user"
  /\ at[p] = "user" \/ (at[p] = "loading" /\ v = page[p])

\* A fault on page v goes on at the given stage.
Fault(p, v, stage) ==
  /\ Accesses(p, v)
  /\ TlbOf(p)[v] = Invalid
  /\ Stage(p, stage)
  /\ page' = [page EXCEPT ![p] = v]
  /\ UNCHANGED <<found, stackok, e_lock>>

\* The page is in memory.
FaultReload(p, v) ==
  /\ at[p] = "user"
  /\ Resident(p, v) /\ pt_mutex = NULL
  /\ Fault(p, v, "install")
  /\ as_activate(p)
  /\ UNCHANGED pagingvars

\* The page is in the swap file.  load_segment() never gets it from there: it
\* has e_lock.
FaultSwap(p, v, s) == SwapLookup(p, v, s) /\ Fault(p, v, "install") /\ as_activate(p)

\* The page is in neither: it is a page of the executable, or of the stack
\* where that has its limits.
FaultNew(p, v) ==
  /\ v \in Stack => p \in stackok
  /\ Demand(p, v)
  /\ Fault(p, v, "fresh")
  /\ as_activate(p)

\* EFAULT: the program is killed.
FaultStack(p, v) ==
  /\ v \in Stack /\ p \notin stackok
  /\ ~Resident(p, v) /\ ~InSwap(p, v)
  /\ pt_mutex = NULL /\ swap_mutex = NULL
  /\ Fault(p, v, "dying")
  /\ as_activate(p)
  /\ UNCHANGED pagingvars

\* tlb_write() for a page that is in memory asks for the frame again ...
TlbLookup(p) ==
  /\ pc[p] = "user" /\ at[p] = "install" /\ pt_mutex = NULL
  /\ found' = [found EXCEPT ![p] = pt_get_paddr(p, page[p])]
  /\ Stage(p, "tlbwrite")
  /\ as_activate(p)
  /\ UNCHANGED <<pagingvars, page, stackok, e_lock>>

\* ... and maps the page read-only, to see the first write.
TlbWrite(p) ==
  /\ at[p] = "tlbwrite"
  /\ TLB_Write(p, page[p], Mapping(found[p], FALSE))
  /\ found' = [found EXCEPT ![p] = NULL]
  /\ Stage(p, "user")
  /\ UNCHANGED <<pagingvars, page, stackok, e_lock>>

\* What pt_is_writeable() can return: anything if it does not find the page.
pt_is_writeable(p, v) ==
  IF Resident(p, v) THEN {page_table[pt_get_paddr(p, v)].writeable} ELSE BOOLEAN

\* VM_FAULT_READONLY on page v, which is in the TLB; the process goes on at
\* the given stage with the page's dirty bit set, or is killed.
ReadOnly(p, v, stage, dirty) ==
  \E w \in pt_is_writeable(p, v) :
    IF w THEN TLB_Write(p, v, Mapping(pt_get_paddr(p, v), dirty)) /\ Stage(p, stage)
         ELSE as_activate(p) /\ Stage(p, "dying")

\* A program writes to a page that is mapped read-only.  Who is interrupted
\* before tlb_update() finds the TLB flushed, and faults again.
WriteFault(p, v) ==
  /\ at[p] = "user" /\ Accesses(p, v) /\ pt_mutex = NULL
  /\ TlbOf(p)[v] # Invalid /\ ~TlbOf(p)[v].dirty
  /\ ReadOnly(p, v, "user", TRUE)
  /\ UNCHANGED <<pagingvars, page, found, stackok, e_lock>>

\* A new page is mapped, at splhigh(): one of the executable writeable, until
\* it has been loaded; one of the stack read-only, so that bzero() faults.
FreshMap(p) ==
  /\ pc[p] = "user" /\ at[p] = "fresh" /\ pt_mutex = NULL
  /\ IF page[p] \in Stack
       THEN ReadOnly(p, page[p], "user", TRUE)
       ELSE /\ TLB_Write(p, page[p], Mapping(pt_get_paddr(p, page[p]), TRUE))
            /\ Stage(p, "open")
  /\ UNCHANGED <<pagingvars, page, found, stackok, e_lock>>

\* load_segment() waits for e_lock; after this it sleeps until the device has
\* read the page.
LoadOpen(p) ==
  /\ at[p] = "open" /\ e_lock = NULL
  /\ e_lock' = p
  /\ Stage(p, "loading")
  /\ as_activate(p)
  /\ UNCHANGED <<pagingvars, page, found, stackok>>

\* load_segment() copies the page, and vm_fault() sets it read-only if its
\* segment is.
LoadDone(p) ==
  /\ at[p] = "loading" /\ pc[p] = "user"
  /\ TlbOf(p)[page[p]].dirty
  /\ TLB_Write(p, page[p], [TlbOf(p)[page[p]] EXCEPT !.dirty = page[p] \notin Text])
  /\ e_lock' = NULL
  /\ Stage(p, "user")
  /\ UNCHANGED <<pagingvars, page, found, stackok>>

\* Another process ran during the read, so that the copy faults: the page is
\* put back into the TLB read-only, and the copy faults once more.  Killed
\* for that, the process still has e_lock.
LoadRefault(p) ==
  LET v == page[p] IN
    /\ at[p] = "loading" /\ pc[p] = "user" /\ pt_mutex = NULL
    /\ TlbOf(p)[v] = Invalid /\ Resident(p, v)
    /\ ReadOnly(p, v, "user", v \notin Text)
    /\ e_lock' = IF at'[p] = "user" THEN NULL ELSE p
    /\ UNCHANGED <<pagingvars, page, found, stackok>>

-----------------------------------------------------------------------------
(* The steps of Paging.                                                    *)

\* A step of p in alloc_page() or pt_copymem().
Pages1(p) ==
  /\ SwapAlloc(p) \/ SwapOutLock(p) \/ SwapFill(p) \/ \E i, f \in Frames : CopyPage(p, i, f)
  /\ as_activate(p)
  /\ UNCHANGED <<faultvars, stackok, e_lock>>

ReadSwap(p) ==
  /\ e_lock = NULL
  /\ SwapRead(p)
  /\ as_activate(p)
  /\ UNCHANGED <<faultvars, stackok, e_lock>>

\* alloc_page() invalidates the whole TLB after swap_out().
WriteSwap(p, s) ==
  /\ e_lock = NULL
  /\ SwapWrite(p, s)
  /\ tlb_invalidate(p)
  /\ UNCHANGED <<faultvars, stackok, e_lock>>

\* The new address space may be where the last one was freed.
Run(p) ==
  /\ runprogram(p)
  /\ active_as' = p
  /\ tlb' \in {FlushedTlb} \cup (IF active_as = Freed THEN {tlb} ELSE {})
  /\ stackok' = stackok \cup {p}
  /\ UNCHANGED <<faultvars, e_lock>>

StartFork(p, c) ==
  /\ at[p] = "user"
  /\ as_copy(p, c)
  /\ as_activate(p)
  /\ UNCHANGED <<faultvars, stackok, e_lock>>

\* as_copy() leaves the child's stack limits at 0.
EndFork(p) ==
  /\ ForkDone(p) \/ ForkFail(p)
  /\ as_activate(p)
  /\ stackok' = stackok \ {child[p]}
  /\ UNCHANGED <<faultvars, e_lock>>

\* Exit, wherever the process is: nothing gives its locks back.
Exit(p) ==
  /\ at[p] \in {"user", "dying"}
  /\ ExitClear(p)
  /\ Stage(p, "user")
  /\ active_as' = Freed /\ tlb' = TlbOf(p)
  /\ UNCHANGED <<page, found, stackok, e_lock>>

FreePagesOf(p) ==
  /\ ExitPages(p)
  /\ UNCHANGED <<faultvars, stackok, tlb, active_as, e_lock>>

\* exec succeeds; or fails, before the new address space is active or after.
Exec(p) ==
  /\ at[p] = "user"
  /\ sys_execv(p)
  /\ \/ tlb_invalidate(p) /\ stackok' \in {stackok, stackok \cup {p}}
     \/ as_activate(p) /\ UNCHANGED stackok
  /\ UNCHANGED <<faultvars, e_lock>>

KernelPages ==
  /\ (\E n \in 1 .. KernelMax : alloc_kpages(n)) \/ (\E f \in Frames : free_kpages(f))
  /\ UNCHANGED <<faultvars, stackok, tlb, active_as, e_lock>>

VMInit ==
  /\ Init
  /\ at = [p \in Procs |-> "user"]
  /\ page = [p \in Procs |-> NULL]
  /\ found = [p \in Procs |-> NULL]
  /\ stackok = {}
  /\ tlb = FlushedTlb /\ active_as = NULL
  /\ e_lock = NULL

VMNext ==
  \/ \E p \in Procs :
       \/ \E v \in Pages :
            \/ FaultReload(p, v) \/ FaultNew(p, v) \/ FaultStack(p, v) \/ WriteFault(p, v)
            \/ \E s \in Slots : FaultSwap(p, v, s)
       \/ TlbLookup(p) \/ TlbWrite(p) \/ FreshMap(p)
       \/ LoadOpen(p) \/ LoadDone(p) \/ LoadRefault(p)
       \/ Pages1(p) \/ ReadSwap(p) \/ \E s \in Slots : WriteSwap(p, s)
       \/ Run(p) \/ EndFork(p) \/ \E c \in Procs : StartFork(p, c)
       \/ Exit(p) \/ FreePagesOf(p) \/ Exec(p)
  \/ KernelPages

VMSpec == VMInit /\ [][VMNext]_vmvars

-----------------------------------------------------------------------------
(* What comments say, where the code does something else.                  *)

\* A page can be written until it has been loaded (addrspace.c: "need to be
\* able to write to tlb until completely loaded"): a program is not killed
\* for the kernel's own write to its text.
LoadNotKilled == \A p \in Procs : e_lock = p => at[p] # "dying"
=============================================================================
