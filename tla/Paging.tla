------------------------------- MODULE Paging -------------------------------
(***************************************************************************)
(* Physical memory: the coremap (kern/vm/coremap.c), the inverted page     *)
(* table (kern/vm/pt.c) and the swap file (kern/vm/swapfile.c), used by    *)
(* the page faults, forks, execs and exits of processes and by the kernel. *)
(*                                                                         *)
(* The coremap's in_use and is_kernel are the sets user and kernel, its    *)
(* time stamps the order in which the user frames were last handed out.    *)
(* A step of a process is a stretch of code up to the next place where     *)
(* another process can interfere.  A process that waits for a lock and has *)
(* none is still where it was before.                                      *)
(***************************************************************************)
EXTENDS Integers, Sequences, FiniteSets

CONSTANTS
  Procs,        \* processes, named by their pids
  Pages, Text,  \* user pages, named by their addresses; the read-only ones
  total_pages,  \* frames the coremap manages
  SWAP_MAX,     \* slots of the swap file
  KernelMax,    \* bound on the frames the kernel has, for model checking
  NULL

Frames == 0 .. total_pages - 1
Slots == 0 .. SWAP_MAX - 1

\* The kernel leaves a frame to the processes: get_fifo_page() returns an
\* uninitialized index when no user page is in memory.
ASSUME PagingAssumption ==
  /\ Text \subseteq Pages
  /\ total_pages \in Nat /\ SWAP_MAX \in Nat
  /\ KernelMax \in Nat /\ KernelMax < total_pages
  /\ NULL \notin Procs \cup Pages \cup Frames \cup Slots

VARIABLES
  user, kernel, order,   \* the coremap
  page_table, npages,
  swap_array,
  pt_mutex, swap_mutex,
  pc,                    \* where a process is in the code
  fault,                 \* the page it faulted on
  index, paddr,          \* locals of swap_in(): slot found, frame allocated
  evicting,              \* locals of the alloc_page() that is swapping out
  child, copyi,          \* of pt_copymem(): the child, the loop's index
  exiting,               \* pids given back before the pages were freed
  leaked,                \* pids with pages left by a fork that failed
  panicked

coremap == <<user, kernel, order>>
frames == <<coremap, page_table, npages>>
locks == <<pt_mutex, swap_mutex>>
local == <<fault, index, paddr, child, copyi>>
ended == <<exiting, leaked>>
pagingvars == <<frames, swap_array, locks, pc, local, evicting, ended, panicked>>

\* Places: no such process; being forked; outside this module's code; in
\* swap_in()'s read, before its pt_alloc_page() and before its memmove; in
\* swap_out() before swap_mutex and after; in pt_copymem().
Places == {"none", "embryo", "user", "reading", "alloc", "fill", "evict",
           "writing", "copy"}

Goto(p, place) == ~panicked /\ pc' = [pc EXCEPT ![p] = place]

-----------------------------------------------------------------------------
(* The coremap.                                                            *)

FreeFrames == Frames \ (user \cup kernel)

get_free_page(f) == f \in FreeFrames /\ \A g \in FreeFrames : f <= g

\* The oldest user frame.
get_fifo_page(f) == f \in user /\ f = Head(order)

Without(seq, F) == LET Keep(f) == f \notin F IN SelectSeq(seq, Keep)

\* set_coremap_entry_time() of a user frame.
Stamp(f) == order' = Append(Without(order, {f}), f)

\* free_page() of the frames F.
FreePages(F) ==
  /\ user' = user \ F
  /\ kernel' = kernel \ F
  /\ order' = Without(order, F)

-----------------------------------------------------------------------------
(* The page table.                                                         *)

Entry(p, v, w) == [pid |-> p, va |-> v, writeable |-> w]
Empty == Entry(NULL, NULL, FALSE)
Entries == [pid : Procs \cup {NULL}, va : Pages \cup {NULL}, writeable : BOOLEAN]

\* The locals of alloc_page() in an eviction: see EvictStart.
Evictions ==
  [frame : Frames, pid : Procs \cup {NULL}, va : Pages \cup {NULL}, new : Entries]

Holds(f, p, v) == page_table[f].pid = p /\ page_table[f].va = v
OwnedBy(p) == {f \in Frames : page_table[f].pid = p}

\* pt_get_paddr() finds the page.
Resident(p, v) == \E f \in Frames : Holds(f, p, v)

\* alloc_page() when there is a free frame.
AllocFree(f, p, v, w) ==
  /\ get_free_page(f)
  /\ user' = user \cup {f}
  /\ Stamp(f)
  /\ page_table' = [page_table EXCEPT ![f] = Entry(p, v, w)]
  /\ UNCHANGED <<kernel, npages>>

\* alloc_page() when there is none, called by p for page v of q: up to
\* swap_out()'s wait for swap_mutex.
EvictStart(p, f, q, v, w) ==
  /\ FreeFrames = {}
  /\ get_fifo_page(f)
  /\ Stamp(f)
  /\ pt_mutex' = p
  /\ evicting' = [frame |-> f, pid |-> page_table[f].pid, va |-> page_table[f].va,
                  new |-> Entry(q, v, w)]
  /\ Goto(p, "evict")
  /\ UNCHANGED <<user, kernel, page_table, npages>>

\* Mutant of pt_free_pages: it stops at the first page it finds.
pt_free_pages_one(p) ==
  LET F == {f \in OwnedBy(p) : \A g \in OwnedBy(p) : f <= g} IN
    /\ page_table' = [f \in Frames |-> IF f \in F THEN Empty ELSE page_table[f]]
    /\ FreePages(F)
    /\ UNCHANGED npages

\* It takes no lock.
pt_free_pages(p) ==
  /\ page_table' = [f \in Frames |-> IF f \in OwnedBy(p) THEN Empty ELSE page_table[f]]
  /\ FreePages(OwnedBy(p))
  /\ UNCHANGED npages

Chunk(f, n) == f .. f + n - 1

\* The first n free frames in a row start at f.
get_free_kpages(f, n) ==
  /\ Chunk(f, n) \subseteq FreeFrames
  /\ \A g \in Frames : Chunk(g, n) \subseteq FreeFrames => f <= g

\* pt_alloc_kpages() gets n frames.
TakeChunk(n) ==
  \E f \in Frames :
    /\ get_free_kpages(f, n)
    /\ kernel' = kernel \cup Chunk(f, n)
    /\ npages' = [g \in Frames |-> IF g \in Chunk(f, n) THEN f + n - g ELSE npages[g]]
    /\ page_table' = [g \in Frames |-> IF g \in Chunk(f, n) THEN Empty ELSE page_table[g]]

\* Any thread in the kernel, at splhigh(); it waits for pt_mutex.
alloc_kpages(n) ==
  /\ ~panicked
  /\ Cardinality(kernel) + n <= KernelMax
  /\ pt_mutex = NULL
  /\ TakeChunk(n)
  /\ UNCHANGED <<user, order, swap_array, locks, pc, local, evicting, ended, panicked>>

\* free_kpages() of the chunk that starts at f.  It takes no lock.
free_kpages(f) ==
  LET F == Chunk(f, npages[f]) IN
    /\ ~panicked
    /\ f \in kernel
    /\ f - 1 \in kernel => npages[f - 1] = 1
    /\ page_table' = [g \in Frames |-> IF g \in F THEN Empty ELSE page_table[g]]
    /\ npages' = [g \in Frames |-> IF g \in F THEN 0 ELSE npages[g]]
    /\ FreePages(F)
    /\ UNCHANGED <<swap_array, locks, pc, local, evicting, ended, panicked>>

-----------------------------------------------------------------------------
(* The swap file.                                                          *)

SwapEntry(p, v) == [pid |-> p, va |-> v]
Unused == SwapEntry(NULL, NULL)
SwapEntries == [pid : Procs \cup {NULL}, va : Pages \cup {NULL}]

\* The first slot that has page v of p.
swap_search(p, v, s) ==
  /\ swap_array[s] = SwapEntry(p, v)
  /\ \A t \in 0 .. s - 1 : swap_array[t] # SwapEntry(p, v)

InSwap(p, v) == \E s \in Slots : swap_array[s] = SwapEntry(p, v)

\* Mutant of swap_find_free: any slot will do.
swap_find_free_any(s) == TRUE

swap_find_free(s) ==
  /\ swap_array[s].va = NULL
  /\ \A t \in 0 .. s - 1 : swap_array[t].va # NULL

SwapFull == \A s \in Slots : swap_array[s].va # NULL

-----------------------------------------------------------------------------
(* Page faults on pages that are not in memory.                            *)

\* Mutant of Demand: the page table is not searched.
Demand_unsearched(p, v) ==
  /\ pc[p] = "user"
  /\ pt_mutex = NULL /\ swap_mutex = NULL
  /\ ~InSwap(p, v)
  /\ \E f \in Frames :
       \/ /\ AllocFree(f, p, v, v \notin Text)
          /\ Goto(p, "user")
          /\ UNCHANGED <<pt_mutex, fault, evicting>>
       \/ EvictStart(p, f, p, v, v \notin Text) /\ fault' = [fault EXCEPT ![p] = v]
  /\ UNCHANGED <<swap_array, swap_mutex, index, paddr, child, copyi, ended, panicked>>

\* vm_fault() finds the page neither in the page table nor in the swap file
\* and calls pt_alloc_page(), with the permission of the page's segment.
Demand(p, v) ==
  /\ pc[p] = "user"
  /\ pt_mutex = NULL /\ swap_mutex = NULL
  /\ ~Resident(p, v) /\ ~InSwap(p, v)
  /\ \E f \in Frames :
       \/ /\ AllocFree(f, p, v, v \notin Text)
          /\ Goto(p, "user")
          /\ UNCHANGED <<pt_mutex, fault, evicting>>
       \/ EvictStart(p, f, p, v, v \notin Text) /\ fault' = [fault EXCEPT ![p] = v]
  /\ UNCHANGED <<swap_array, swap_mutex, index, paddr, child, copyi, ended, panicked>>

\* vm_fault() does not find the page in the page table; swap_in() finds it.
SwapLookup(p, v, s) ==
  /\ pc[p] = "user"
  /\ pt_mutex = NULL /\ swap_mutex = NULL
  /\ ~Resident(p, v)
  /\ swap_search(p, v, s)
  /\ swap_mutex' = p
  /\ index' = [index EXCEPT ![p] = s]
  /\ fault' = [fault EXCEPT ![p] = v]
  /\ Goto(p, "reading")
  /\ UNCHANGED <<frames, swap_array, pt_mutex, paddr, child, copyi, evicting, ended, panicked>>

\* Mutant of SwapRead: swap_mutex is kept until the page has been filled.
SwapRead_locked(p) ==
  /\ pc[p] = "reading"
  /\ Goto(p, "alloc")
  /\ UNCHANGED <<frames, swap_array, locks, local, evicting, ended, panicked>>

\* swap_in() reads the page into its buffer, or panics.
SwapRead(p) ==
  /\ pc[p] = "reading"
  /\ Goto(p, "alloc")
  /\ swap_mutex' = NULL
  /\ panicked' \in BOOLEAN
  /\ UNCHANGED <<frames, swap_array, pt_mutex, local, evicting, ended>>

\* swap_in() calls pt_alloc_page(): every page it brings in is writeable.
SwapAlloc(p) ==
  /\ pc[p] = "alloc"
  /\ pt_mutex = NULL
  /\ \E f \in Frames :
       \/ /\ AllocFree(f, p, fault[p], TRUE)
          /\ paddr' = [paddr EXCEPT ![p] = f]
          /\ Goto(p, "fill")
          /\ UNCHANGED <<pt_mutex, evicting>>
       \/ EvictStart(p, f, p, fault[p], TRUE) /\ UNCHANGED paddr
  /\ UNCHANGED <<swap_array, swap_mutex, fault, index, child, copyi, ended, panicked>>

\* swap_out() takes swap_mutex, and panics if there is no slot.
SwapOutLock(p) ==
  /\ pc[p] = "evict"
  /\ swap_mutex = NULL
  /\ IF SwapFull THEN ~panicked /\ panicked' = TRUE /\ UNCHANGED <<swap_mutex, pc>>
                 ELSE swap_mutex' = p /\ Goto(p, "writing") /\ UNCHANGED panicked
  /\ UNCHANGED <<frames, swap_array, pt_mutex, local, evicting, ended>>

\* swap_out() writes the page to slot s and enters it, or fails to write it:
\* its caller does not look at the result.
SwapOut(s) ==
  /\ swap_find_free(s)
  /\ \/ swap_array' = [swap_array EXCEPT ![s] = SwapEntry(evicting.pid, evicting.va)]
     \/ UNCHANGED swap_array

\* swap_out() and alloc_page() return: the frame is a page of the faulting
\* process, or of the child of a fork.
SwapWrite(p, s) ==
  /\ pc[p] = "writing"
  /\ SwapOut(s)
  /\ swap_mutex' = NULL
  /\ page_table' = [page_table EXCEPT ![evicting.frame] = evicting.new]
  /\ evicting' = NULL
  /\ \/ /\ child[p] = NULL /\ index[p] = NULL
        /\ Goto(p, "user")
        /\ fault' = [fault EXCEPT ![p] = NULL]
        /\ pt_mutex' = NULL
        /\ UNCHANGED <<paddr, copyi>>
     \/ /\ child[p] = NULL /\ index[p] # NULL
        /\ Goto(p, "fill")
        /\ paddr' = [paddr EXCEPT ![p] = evicting.frame]
        /\ pt_mutex' = NULL
        /\ UNCHANGED <<fault, copyi>>
     \/ /\ child[p] # NULL
        /\ Goto(p, "copy")
        /\ copyi' = copyi + 1
        /\ UNCHANGED <<pt_mutex, fault, paddr>>
  /\ UNCHANGED <<coremap, npages, index, child, ended, panicked>>

\* swap_in() fills the page and drops the swap entry, without a lock.
SwapFill(p) ==
  /\ pc[p] = "fill"
  /\ swap_array' = [swap_array EXCEPT ![index[p]] = Unused]
  /\ index' = [index EXCEPT ![p] = NULL]
  /\ paddr' = [paddr EXCEPT ![p] = NULL]
  /\ fault' = [fault EXCEPT ![p] = NULL]
  /\ Goto(p, "user")
  /\ UNCHANGED <<frames, locks, child, copyi, evicting, ended, panicked>>

-----------------------------------------------------------------------------
(* Processes.                                                              *)

\* The menu starts a program only when no other is running.
runprogram(p) ==
  /\ exiting = {} /\ \A q \in Procs : pc[q] = "none"
  /\ Goto(p, "user")
  /\ UNCHANGED <<frames, swap_array, locks, local, evicting, ended, panicked>>

\* sys_fork() calls as_copy(), which calls pt_copymem().
as_copy(p, c) ==
  /\ ~panicked
  /\ pc[p] = "user" /\ pc[c] = "none"
  /\ pt_mutex = NULL
  /\ pt_mutex' = p
  /\ child' = [child EXCEPT ![p] = c]
  /\ copyi' = 0
  /\ pc' = [pc EXCEPT ![p] = "copy", ![c] = "embryo"]
  /\ UNCHANGED <<frames, swap_array, swap_mutex, fault, index, paddr, evicting, ended, panicked>>

\* The next page of the parent in pt_copymem()'s loop.
NextPage(p, i) ==
  /\ i \in OwnedBy(p) /\ i >= copyi
  /\ \A j \in OwnedBy(p) : j >= copyi => i <= j

\* pt_copymem() copies page i to frame f; without a free frame it swaps the
\* page in f out first, which may be page i.
CopyPage(p, i, f) ==
  /\ pc[p] = "copy"
  /\ NextPage(p, i)
  /\ \/ /\ AllocFree(f, child[p], page_table[i].va, page_table[i].writeable)
        /\ copyi' = i + 1
        /\ Goto(p, "copy")
        /\ UNCHANGED <<pt_mutex, evicting>>
     \/ /\ EvictStart(p, f, child[p], page_table[i].va, page_table[i].writeable)
        /\ copyi' = i
  /\ UNCHANGED <<swap_array, swap_mutex, fault, index, paddr, child, ended, panicked>>

\* pt_copymem() is done; the child is as given.
CopyDone(p, place) ==
  /\ ~panicked
  /\ pc[p] = "copy"
  /\ \A i \in OwnedBy(p) : i < copyi
  /\ pt_mutex' = NULL
  /\ pc' = [pc EXCEPT ![p] = "user", ![child[p]] = place]
  /\ child' = [child EXCEPT ![p] = NULL]
  /\ copyi' = 0
  /\ UNCHANGED <<frames, swap_array, swap_mutex, fault, index, paddr, evicting, exiting,
                 panicked>>

\* The fork succeeds.
ForkDone(p) == CopyDone(p, "user") /\ UNCHANGED leaked

\* A later step of sys_fork() fails: the pid is given back, the pages are not.
ForkFail(p) == CopyDone(p, "none") /\ leaked' = leaked \cup {child[p]}

\* thread_exit() gives the pid back ...
ExitClear(p) ==
  /\ pc[p] = "user"
  /\ p \notin exiting
  /\ Goto(p, "none")
  /\ exiting' = exiting \cup {p}
  /\ UNCHANGED <<frames, swap_array, locks, local, evicting, leaked, panicked>>

\* ... and frees the pages, of another process if that has the pid by now.
ExitPages(p) ==
  /\ ~panicked
  /\ p \in exiting
  /\ pt_free_pages(p)
  /\ exiting' = exiting \ {p}
  /\ leaked' = leaked \ {p}
  /\ UNCHANGED <<swap_array, locks, pc, local, evicting, panicked>>

\* sys_execv() frees the pages, also when it fails after that.
sys_execv(p) ==
  /\ pc[p] = "user"
  /\ pt_free_pages(p)
  /\ leaked' = leaked \ {p}
  /\ Goto(p, "user")
  /\ UNCHANGED <<swap_array, locks, local, evicting, exiting, panicked>>

Init ==
  /\ user = {} /\ kernel = {} /\ order = <<>>
  /\ page_table = [f \in Frames |-> Empty]
  /\ npages = [f \in Frames |-> 0]
  /\ swap_array = [s \in Slots |-> Unused]
  /\ pt_mutex = NULL /\ swap_mutex = NULL
  /\ pc = [p \in Procs |-> "none"]
  /\ fault = [p \in Procs |-> NULL]
  /\ index = [p \in Procs |-> NULL]
  /\ paddr = [p \in Procs |-> NULL]
  /\ child = [p \in Procs |-> NULL]
  /\ copyi = 0
  /\ evicting = NULL
  /\ exiting = {} /\ leaked = {}
  /\ panicked = FALSE

Next ==
  \/ \E p \in Procs :
       \/ \E v \in Pages : Demand(p, v) \/ \E s \in Slots : SwapLookup(p, v, s)
       \/ SwapRead(p) \/ SwapAlloc(p) \/ SwapOutLock(p)
       \/ \E s \in Slots : SwapWrite(p, s)
       \/ SwapFill(p)
       \/ runprogram(p) \/ ForkDone(p) \/ ForkFail(p)
       \/ ExitClear(p) \/ ExitPages(p) \/ sys_execv(p)
       \/ \E c \in Procs : as_copy(p, c)
       \/ \E i, f \in Frames : CopyPage(p, i, f)
  \/ \E n \in 1 .. KernelMax : alloc_kpages(n)
  \/ \E f \in Frames : free_kpages(f)

Spec == Init /\ [][Next]_pagingvars

-----------------------------------------------------------------------------
(* Properties.                                                             *)

\* The types of everything but order.
StateOK ==
  /\ user \subseteq Frames /\ kernel \subseteq Frames
  /\ page_table \in [Frames -> Entries]
  /\ npages \in [Frames -> 0 .. total_pages]
  /\ swap_array \in [Slots -> SwapEntries]
  /\ pt_mutex \in Procs \cup {NULL} /\ swap_mutex \in Procs \cup {NULL}
  /\ pc \in [Procs -> Places]
  /\ fault \in [Procs -> Pages \cup {NULL}]
  /\ index \in [Procs -> Slots \cup {NULL}]
  /\ paddr \in [Procs -> Frames \cup {NULL}]
  /\ child \in [Procs -> Procs \cup {NULL}]
  /\ copyi \in 0 .. total_pages
  /\ evicting \in Evictions \cup {NULL}
  /\ exiting \subseteq Procs /\ leaked \subseteq Procs
  /\ panicked \in BOOLEAN

TypeOK == StateOK /\ order \in Seq(Frames)

\* The page that a process looked for in the page table and did not find is
\* still not there when it gets a frame, although it had no lock in between:
\* no page is allocated twice.
StillMissing ==
  \A p \in Procs :
    pc[p] \in {"reading", "alloc", "evict", "writing"} /\ child[p] = NULL
      => ~Resident(p, fault[p])

\* A frame of the kernel is never a page of a process: neither through page
\* replacement, nor when a frame is freed in the middle of its eviction.
KernelApart ==
  \A f \in kernel : f \notin user /\ page_table[f].pid = NULL

\* Memory belongs to processes that exist: once an exit has freed the pages
\* of a pid, and unless a fork failed, its next life starts without pages.
FramesOfLive ==
  \A f \in Frames :
    page_table[f].pid \notin leaked \cup exiting \cup {NULL}
      => pc[page_table[f].pid] # "none"

\* A page in the swap file is not overwritten with another one before it is
\* read back.
SlotsKept ==
  [][\A s \in Slots :
       swap_array[s].va # NULL => swap_array'[s] \in {swap_array[s], Unused}]_pagingvars

\* pt_mutex comes before swap_mutex: a process that has swap_mutex never
\* waits for pt_mutex.
LockOrder ==
  \A p \in Procs : swap_mutex = p => pc[p] \in {"reading", "writing"}

=============================================================================
