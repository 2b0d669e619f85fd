---------------------------- MODULE PagingSteps ----------------------------
(***************************************************************************)
(* The inductive invariant of Paging, and the steps that do not allocate   *)
(* pages of processes.  PagingProofs has the others and the theorems.      *)
(***************************************************************************)
EXTENDS Paging, TLAPS

-----------------------------------------------------------------------------
(* The inductive invariant.                                                *)

Evicting == {"evict", "writing"}

\* pt_mutex and swap_mutex are held in these places and nowhere else.
LocksHeld ==
  \A p \in Procs :
    /\ pt_mutex = p <=> pc[p] \in Evicting \cup {"copy"}
    /\ swap_mutex = p <=> pc[p] \in {"reading", "writing"}

\* A child is an embryo while its parent is in pt_copymem().
Children ==
  \A p \in Procs :
    /\ child[p] # NULL => pc[p] \in Evicting \cup {"copy"} /\ pc[child[p]] = "embryo"
    /\ pc[p] = "copy" => child[p] # NULL

\* Where the locals of a page fault have a value.
Locals ==
  \A p \in Procs :
    /\ pc[p] \in {"reading", "alloc", "fill"} => fault[p] # NULL /\ index[p] # NULL
    /\ pc[p] \in Evicting /\ child[p] = NULL => fault[p] # NULL
    /\ pc[p] \in Evicting /\ child[p] # NULL => copyi \in Frames

\* What is being swapped out is not the kernel's, although the frame may have
\* been freed meanwhile, and is going to be a page of the process that evicts
\* it or of its child.
Eviction ==
  \A p \in Procs : pc[p] \in Evicting =>
    /\ evicting \in Evictions
    /\ evicting.frame \notin kernel
    /\ evicting.new.pid = (IF child[p] = NULL THEN p ELSE child[p])

PagingInv ==
  /\ StateOK /\ LocksHeld /\ Children /\ Locals /\ Eviction
  /\ KernelApart /\ StillMissing /\ FramesOfLive

-----------------------------------------------------------------------------
(* Facts about the steps.                                                  *)

\* What the constants are.
LEMMA Constants ==
  /\ NULL \notin Procs /\ NULL \notin Pages /\ NULL \notin Frames /\ NULL \notin Slots
  /\ total_pages \in Nat
BY PagingAssumption

\* The entries that alloc_page() makes.
LEMMA EntryType ==
  ASSUME NEW p \in Procs \cup {NULL}, NEW v \in Pages \cup {NULL}, NEW w \in BOOLEAN
  PROVE  /\ Entry(p, v, w) \in Entries
         /\ Entry(p, v, w).pid = p /\ Entry(p, v, w).va = v
BY DEF Entry, Entries

\* The entry of a frame without a page.
LEMMA EmptyType == Empty \in Entries /\ Empty.pid = NULL
BY DEF Empty, Entry, Entries

\* The pages of the page table belong to processes.
LEMMA PagePids ==
  ASSUME StateOK
  PROVE  \A f \in Frames : page_table[f].pid \in Procs \cup {NULL}
BY DEF StateOK, Entries

\* Steps that leave the locks and the processes alone.
LEMMA SameProcs ==
  ASSUME PagingInv, UNCHANGED <<pt_mutex, swap_mutex, pc, fault, index, child, copyi>>
  PROVE  LocksHeld' /\ Children' /\ Locals'
<1>1. LocksHeld'
  BY DEF PagingInv, LocksHeld
<1>2. Children'
  BY DEF PagingInv, Children
<1>3. Locals'
  BY DEF PagingInv, Locals
<1> QED
  BY <1>1, <1>2, <1>3

\* Steps that change nothing, except that they may panic.
LEMMA SameMemory ==
  ASSUME PagingInv, panicked' \in BOOLEAN,
         UNCHANGED <<user, kernel, page_table, npages, swap_array, evicting, paddr>>,
         UNCHANGED <<pt_mutex, swap_mutex, pc, fault, index, child, copyi>>,
         UNCHANGED <<exiting, leaked>>
  PROVE  PagingInv'
<1>1. StateOK'
  BY DEF PagingInv, StateOK
<1>2. LocksHeld' /\ Children' /\ Locals'
  BY SameProcs
<1>3. Eviction'
  BY DEF PagingInv, Eviction
<1>4. KernelApart'
  BY DEF PagingInv, KernelApart
<1>5. StillMissing'
  BY DEF PagingInv, StillMissing, Resident, Holds
<1>6. FramesOfLive'
  BY DEF PagingInv, FramesOfLive
<1> QED
  BY <1>1, <1>2, <1>3, <1>4, <1>5, <1>6 DEF PagingInv

\* The invariant holds when vm_bootstrap() is done.
LEMMA InitInv == Init => PagingInv
<1> SUFFICES ASSUME Init PROVE PagingInv
  OBVIOUS
<1>1. StateOK
  <2>1. /\ user \subseteq Frames /\ kernel \subseteq Frames
        /\ page_table \in [Frames -> Entries]
        /\ exiting \subseteq Procs /\ leaked \subseteq Procs
        /\ panicked \in BOOLEAN
    BY EmptyType, Zenon DEF Init
  <2>2. npages \in [Frames -> 0 .. total_pages] /\ copyi \in 0 .. total_pages
    BY Constants DEF Init
  <2>3. /\ swap_array \in [Slots -> SwapEntries]
        /\ pt_mutex \in Procs \cup {NULL} /\ swap_mutex \in Procs \cup {NULL}
        /\ pc \in [Procs -> Places]
    BY DEF Init, Unused, SwapEntry, SwapEntries, Places
  <2>4. /\ fault \in [Procs -> Pages \cup {NULL}]
        /\ index \in [Procs -> Slots \cup {NULL}]
        /\ paddr \in [Procs -> Frames \cup {NULL}]
        /\ child \in [Procs -> Procs \cup {NULL}]
        /\ evicting = NULL
    BY DEF Init
  <2> QED
    BY <2>1, <2>2, <2>3, <2>4 DEF StateOK
<1>2. LocksHeld /\ Children /\ Locals /\ Eviction
  BY Constants DEF Init, LocksHeld, Children, Locals, Eviction, Evicting
<1>3. KernelApart /\ StillMissing
  BY DEF Init, KernelApart, StillMissing
<1>4. FramesOfLive
  BY EmptyType DEF Init, FramesOfLive
<1> QED
  BY <1>1, <1>2, <1>3, <1>4 DEF PagingInv
-----------------------------------------------------------------------------
(* The steps preserve it.                                                  *)

\* What moving p from one place to another preserves, where neither is in an
\* eviction or a fork.
LEMMA MoveEffect ==
  ASSUME PagingInv, NEW p \in Procs, NEW place \in {"none", "user", "reading", "alloc"},
         pc[p] \in {"none", "user", "reading", "fill"},
         pc' = [pc EXCEPT ![p] = place],
         UNCHANGED <<user, kernel, page_table, evicting, child, copyi, leaked>>,
         exiting \subseteq exiting', place = "none" => p \in exiting',
         \A q \in Procs : q # p => fault'[q] = fault[q] /\ index'[q] = index[q],
         place \in {"reading", "alloc"}
           => fault'[p] # NULL /\ index'[p] # NULL /\ ~Resident(p, fault'[p])
  PROVE  /\ pc' \in [Procs -> Places]
         /\ \A q \in Procs : pc'[q] = IF q = p THEN place ELSE pc[q]
         /\ Children' /\ Locals' /\ Eviction'
         /\ KernelApart' /\ StillMissing' /\ FramesOfLive'
<1>t. /\ pc \in [Procs -> Places] /\ child \in [Procs -> Procs \cup {NULL}]
      /\ NULL \notin Procs
  BY Constants DEF PagingInv, StateOK
<1>u. UNCHANGED <<user, kernel, page_table, evicting, child, copyi, leaked>>
  OBVIOUS
<1>e. /\ pc' \in [Procs -> Places]
      /\ \A q \in Procs : pc'[q] = IF q = p THEN place ELSE pc[q]
  BY <1>t DEF Places
<1>c. Children'
  BY <1>e, <1>t, <1>u DEF PagingInv, Children, Evicting
<1>l. Locals'
  BY <1>e, <1>u DEF PagingInv, Locals, Evicting
<1>v. Eviction'
  BY <1>e, <1>u DEF PagingInv, Eviction, Evicting
<1>k. KernelApart'
  BY <1>u DEF PagingInv, KernelApart
<1>m. StillMissing'
  BY <1>e, <1>u DEF PagingInv, StillMissing, Resident, Holds
<1>f. FramesOfLive'
  BY <1>e, <1>u, PagePids DEF PagingInv, FramesOfLive
<1> QED
  BY <1>c, <1>e, <1>f, <1>k, <1>l, <1>m, <1>v

\* Finding a page in the swap file preserves the invariant.
LEMMA SwapLookupStep ==
  ASSUME PagingInv, NEW p \in Procs, NEW v \in Pages, NEW s \in Slots, SwapLookup(p, v, s)
  PROVE  PagingInv'
<1>a. /\ pc[p] = "user" /\ swap_mutex = NULL /\ swap_mutex' = p /\ ~Resident(p, v)
      /\ index' = [index EXCEPT ![p] = s] /\ fault' = [fault EXCEPT ![p] = v]
      /\ pc' = [pc EXCEPT ![p] = "reading"]
  BY DEF SwapLookup, Goto
<1>u. UNCHANGED <<user, kernel, page_table, evicting, child, copyi, leaked>>
  BY DEF SwapLookup, frames, coremap, ended
<1>w. UNCHANGED <<npages, swap_array, pt_mutex, paddr, exiting, panicked>>
  BY DEF SwapLookup, frames, ended
<1>i. /\ index' \in [Procs -> Slots \cup {NULL}] /\ fault' \in [Procs -> Pages \cup {NULL}]
      /\ index'[p] = s /\ fault'[p] = v /\ s # NULL /\ v # NULL
      /\ \A q \in Procs : q # p => fault'[q] = fault[q] /\ index'[q] = index[q]
  BY <1>a, Constants DEF PagingInv, StateOK
<1>1. /\ pc' \in [Procs -> Places]
      /\ \A q \in Procs : pc'[q] = IF q = p THEN "reading" ELSE pc[q]
      /\ Children' /\ Locals' /\ Eviction'
      /\ KernelApart' /\ StillMissing' /\ FramesOfLive'
  BY <1>a, <1>i, <1>u, <1>w, MoveEffect, Zenon
<1>2. StateOK'
  BY <1>a, <1>i, <1>u, <1>w, <1>1 DEF PagingInv, StateOK
<1>3. LocksHeld'
  BY <1>a, <1>w, <1>1, Constants DEF PagingInv, LocksHeld, Evicting
<1> QED
  BY <1>1, <1>2, <1>3 DEF PagingInv

\* Reading it does.
LEMMA SwapReadStep ==
  ASSUME PagingInv, NEW p \in Procs, SwapRead(p)
  PROVE  PagingInv'
<1>a. /\ pc[p] = "reading" /\ swap_mutex' = NULL
      /\ pc' = [pc EXCEPT ![p] = "alloc"]
  BY DEF SwapRead, Goto
<1>u. UNCHANGED <<user, kernel, page_table, evicting, child, copyi, leaked>>
  BY DEF SwapRead, frames, coremap, local, ended
<1>w. UNCHANGED <<npages, swap_array, pt_mutex, paddr, exiting, fault, index>>
  BY DEF SwapRead, frames, local, ended
<1>b. panicked' \in BOOLEAN
  BY DEF SwapRead
<1>i. fault[p] # NULL /\ index[p] # NULL /\ ~Resident(p, fault[p])
  BY <1>a DEF PagingInv, Locals, StillMissing, Children, Evicting
<1>1. /\ pc' \in [Procs -> Places]
      /\ \A q \in Procs : pc'[q] = IF q = p THEN "alloc" ELSE pc[q]
      /\ Children' /\ Locals' /\ Eviction'
      /\ KernelApart' /\ StillMissing' /\ FramesOfLive'
  BY <1>a, <1>i, <1>u, <1>w, MoveEffect, Zenon
<1>2. StateOK'
  BY <1>a, <1>b, <1>u, <1>w, <1>1 DEF PagingInv, StateOK
<1>3. LocksHeld'
  BY <1>a, <1>w, <1>1, Constants DEF PagingInv, LocksHeld, Evicting
<1> QED
  BY <1>1, <1>2, <1>3 DEF PagingInv

\* Filling the frame does.
LEMMA SwapFillStep ==
  ASSUME PagingInv, NEW p \in Procs, SwapFill(p)
  PROVE  PagingInv'
<1>a. /\ pc[p] = "fill" /\ pc' = [pc EXCEPT ![p] = "user"]
      /\ index' = [index EXCEPT ![p] = NULL] /\ fault' = [fault EXCEPT ![p] = NULL]
      /\ paddr' = [paddr EXCEPT ![p] = NULL]
  BY DEF SwapFill, Goto
<1>u. UNCHANGED <<user, kernel, page_table, evicting, child, copyi, leaked>>
  BY DEF SwapFill, frames, coremap, ended
<1>w. UNCHANGED <<npages, pt_mutex, swap_mutex, exiting, panicked>>
  BY DEF SwapFill, frames, locks, ended
<1>s. swap_array' \in [Slots -> SwapEntries]
  <2>1. swap_array' = [swap_array EXCEPT ![index[p]] = Unused] /\ Unused \in SwapEntries
    BY DEF SwapFill, Unused, SwapEntry, SwapEntries
  <2> QED
    BY <2>1, Zenon DEF PagingInv, StateOK
<1>i. /\ index' \in [Procs -> Slots \cup {NULL}] /\ fault' \in [Procs -> Pages \cup {NULL}]
      /\ paddr' \in [Procs -> Frames \cup {NULL}]
      /\ \A q \in Procs : q # p => fault'[q] = fault[q] /\ index'[q] = index[q]
  BY <1>a DEF PagingInv, StateOK
<1>1. /\ pc' \in [Procs -> Places]
      /\ \A q \in Procs : pc'[q] = IF q = p THEN "user" ELSE pc[q]
      /\ Children' /\ Locals' /\ Eviction'
      /\ KernelApart' /\ StillMissing' /\ FramesOfLive'
  BY <1>a, <1>i, <1>u, <1>w, MoveEffect, Zenon
<1>2. StateOK'
  BY <1>i, <1>s, <1>u, <1>w, <1>1 DEF PagingInv, StateOK
<1>3. LocksHeld'
  BY <1>a, <1>w, <1>1 DEF PagingInv, LocksHeld, Evicting
<1> QED
  BY <1>1, <1>2, <1>3 DEF PagingInv

\* Starting a program does.
LEMMA runprogramStep ==
  ASSUME PagingInv, NEW p \in Procs, runprogram(p)
  PROVE  PagingInv'
<1>a. pc[p] = "none" /\ pc' = [pc EXCEPT ![p] = "user"]
  BY DEF runprogram, Goto
<1>u. UNCHANGED <<user, kernel, page_table, evicting, child, copyi, leaked>>
  BY DEF runprogram, frames, coremap, local, ended
<1>w. /\ UNCHANGED <<npages, swap_array, pt_mutex, swap_mutex>>
      /\ UNCHANGED <<fault, index, paddr, exiting, panicked>>
  BY DEF runprogram, frames, locks, local, ended
<1>1. /\ pc' \in [Procs -> Places]
      /\ \A q \in Procs : pc'[q] = IF q = p THEN "user" ELSE pc[q]
      /\ Children' /\ Locals' /\ Eviction'
      /\ KernelApart' /\ StillMissing' /\ FramesOfLive'
  BY <1>a, <1>u, <1>w, MoveEffect, Zenon
<1>2. StateOK'
  BY <1>u, <1>w, <1>1 DEF PagingInv, StateOK
<1>3. LocksHeld'
  BY <1>a, <1>w, <1>1 DEF PagingInv, LocksHeld, Evicting
<1> QED
  BY <1>1, <1>2, <1>3 DEF PagingInv

\* Starting a fork does.
LEMMA as_copyStep ==
  ASSUME PagingInv, NEW p \in Procs, NEW c \in Procs, as_copy(p, c)
  PROVE  PagingInv'
<1>a. /\ pc[p] = "user" /\ pc[c] = "none" /\ pt_mutex = NULL /\ pt_mutex' = p /\ copyi' = 0
      /\ child' = [child EXCEPT ![p] = c]
      /\ pc' = [pc EXCEPT ![p] = "copy", ![c] = "embryo"]
  BY DEF as_copy
<1>u. UNCHANGED <<user, kernel, page_table, npages, swap_array, paddr, evicting, panicked>>
  BY DEF as_copy, frames, coremap
<1>q. UNCHANGED <<swap_mutex, fault, index, exiting, leaked>>
  BY DEF as_copy, ended
<1>t. /\ pc \in [Procs -> Places] /\ child \in [Procs -> Procs \cup {NULL}]
      /\ NULL \notin Procs
  BY Constants DEF PagingInv, StateOK
<1>e. /\ pc' \in [Procs -> Places]
      /\ \A q \in Procs :
           pc'[q] = IF q = p THEN "copy" ELSE IF q = c THEN "embryo" ELSE pc[q]
  BY <1>a, <1>t DEF Places
<1>f. /\ child' \in [Procs -> Procs \cup {NULL}]
      /\ \A q \in Procs : child'[q] = IF q = p THEN c ELSE child[q]
  BY <1>a, <1>t
<1>o. \A q \in Procs : pc[q] \notin Evicting \cup {"copy"} /\ child[q] = NULL
  BY <1>a, <1>t DEF PagingInv, LocksHeld, Children
<1>1. StateOK'
  BY <1>a, <1>e, <1>f, <1>q, <1>u, Constants DEF PagingInv, StateOK
<1>2. LocksHeld'
  BY <1>a, <1>e, <1>o, <1>q DEF PagingInv, LocksHeld, Evicting
<1>3. Children'
  BY <1>a, <1>e, <1>f, <1>o, <1>t DEF Children
<1>4. Locals'
  BY <1>e, <1>o, <1>q DEF PagingInv, Locals, Evicting
<1>5. Eviction'
  BY <1>e, <1>o DEF Eviction, Evicting
<1>6. KernelApart'
  BY <1>u DEF PagingInv, KernelApart
<1>7. StillMissing'
  BY <1>e, <1>f, <1>q, <1>u, Zenon DEF PagingInv, StillMissing, Resident, Holds
<1>8. FramesOfLive'
  BY <1>e, <1>q, <1>u, PagePids, Zenon DEF PagingInv, FramesOfLive
<1> QED
  BY <1>1, <1>2, <1>3, <1>4, <1>5, <1>6, <1>7, <1>8 DEF PagingInv

\* The end of pt_copymem() does, where the child's pid, if it is given back,
\* is one whose pages are leaked.
LEMMA CopyDoneStep ==
  ASSUME PagingInv, NEW p \in Procs, NEW place \in {"user", "none"}, CopyDone(p, place),
         leaked' \subseteq Procs, leaked \subseteq leaked',
         place = "none" => child[p] \in leaked'
  PROVE  PagingInv'
<1>t. /\ pc \in [Procs -> Places] /\ child \in [Procs -> Procs \cup {NULL}]
      /\ NULL \notin Procs
  BY Constants DEF PagingInv, StateOK
<1>c. /\ pc[p] = "copy" /\ child[p] \in Procs /\ child[p] # p /\ pc[child[p]] = "embryo"
  BY <1>t DEF PagingInv, Children, CopyDone
<1>u. UNCHANGED <<user, kernel, page_table, npages, swap_array, paddr, evicting, panicked>>
  BY DEF CopyDone, frames, coremap
<1>q. pt_mutex' = NULL /\ copyi' = 0 /\ UNCHANGED <<swap_mutex, fault, index, exiting>>
  BY DEF CopyDone
<1>p. /\ pc' = [pc EXCEPT ![p] = "user", ![child[p]] = place]
      /\ child' = [child EXCEPT ![p] = NULL]
  BY DEF CopyDone
<1>e. /\ pc' \in [Procs -> Places]
      /\ \A q \in Procs :
           pc'[q] = IF q = p THEN "user" ELSE IF q = child[p] THEN place ELSE pc[q]
  BY <1>c, <1>p, <1>t DEF Places
<1>f. /\ child' \in [Procs -> Procs \cup {NULL}]
      /\ \A q \in Procs : child'[q] = IF q = p THEN NULL ELSE child[q]
  BY <1>p, <1>t
<1>o. pt_mutex = p /\ \A q \in Procs : q # p => pc[q] \notin Evicting \cup {"copy"}
  BY <1>c DEF PagingInv, LocksHeld
<1>1. StateOK'
  BY <1>e, <1>f, <1>q, <1>u, Constants DEF PagingInv, StateOK
<1>2. LocksHeld'
  BY <1>c, <1>e, <1>o, <1>q, <1>t DEF PagingInv, LocksHeld, Evicting
<1>3. Children'
  BY <1>e, <1>f, <1>o DEF PagingInv, Children
<1>4. Locals'
  BY <1>e, <1>o, <1>q DEF PagingInv, Locals, Evicting
<1>5. Eviction'
  BY <1>e, <1>o DEF Eviction, Evicting
<1>6. KernelApart'
  BY <1>u DEF PagingInv, KernelApart
<1>7. StillMissing'
  BY <1>e, <1>f, <1>q, <1>u, Zenon DEF PagingInv, StillMissing, Resident, Holds
<1>8. FramesOfLive'
  BY <1>e, <1>q, <1>u, PagePids, Zenon DEF PagingInv, FramesOfLive
<1> QED
  BY <1>1, <1>2, <1>3, <1>4, <1>5, <1>6, <1>7, <1>8 DEF PagingInv

\* The end of a fork does.
LEMMA ForkDoneStep ==
  ASSUME PagingInv, NEW p \in Procs, ForkDone(p)
  PROVE  PagingInv'
<1>1. CopyDone(p, "user") /\ leaked' = leaked
  BY DEF ForkDone
<1>2. leaked' \subseteq Procs /\ leaked \subseteq leaked'
  BY <1>1 DEF PagingInv, StateOK
<1> QED
  BY <1>1, <1>2, CopyDoneStep

\* The failure of a fork does.
LEMMA ForkFailStep ==
  ASSUME PagingInv, NEW p \in Procs, ForkFail(p)
  PROVE  PagingInv'
<1>1. CopyDone(p, "none") /\ leaked' = leaked \cup {child[p]}
  BY DEF ForkFail
<1>2. child[p] \in Procs /\ leaked \subseteq Procs
  BY <1>1 DEF PagingInv, StateOK, Children, CopyDone
<1>3. leaked' \subseteq Procs /\ leaked \subseteq leaked' /\ child[p] \in leaked'
  BY <1>1, <1>2
<1> QED
  BY <1>1, <1>3, CopyDoneStep

\* Giving a pid back does.
LEMMA ExitClearStep ==
  ASSUME PagingInv, NEW p \in Procs, ExitClear(p)
  PROVE  PagingInv'
<1>a. pc[p] = "user" /\ pc' = [pc EXCEPT ![p] = "none"] /\ exiting' = exiting \cup {p}
  BY DEF ExitClear, Goto
<1>u. UNCHANGED <<user, kernel, page_table, evicting, child, copyi, leaked>>
  BY DEF ExitClear, frames, coremap, local
<1>w. /\ UNCHANGED <<npages, swap_array, pt_mutex, swap_mutex>>
      /\ UNCHANGED <<fault, index, paddr, panicked>>
  BY DEF ExitClear, frames, locks, local
<1>s. exiting' \subseteq Procs /\ exiting \subseteq exiting' /\ p \in exiting'
  BY <1>a DEF PagingInv, StateOK
<1>1. /\ pc' \in [Procs -> Places]
      /\ \A q \in Procs : pc'[q] = IF q = p THEN "none" ELSE pc[q]
      /\ Children' /\ Locals' /\ Eviction'
      /\ KernelApart' /\ StillMissing' /\ FramesOfLive'
  BY <1>a, <1>s, <1>u, <1>w, MoveEffect, Zenon
<1>2. StateOK'
  BY <1>s, <1>u, <1>w, <1>1 DEF PagingInv, StateOK
<1>3. LocksHeld'
  BY <1>a, <1>w, <1>1 DEF PagingInv, LocksHeld, Evicting
<1> QED
  BY <1>1, <1>2, <1>3 DEF PagingInv

\* Waiting for swap_mutex to evict a page does, also with the swap file full.
LEMMA SwapOutLockStep ==
  ASSUME PagingInv, NEW p \in Procs, SwapOutLock(p)
  PROVE  PagingInv'
<1>a. /\ pc[p] = "evict" /\ swap_mutex = NULL
      /\ UNCHANGED <<frames, swap_array, pt_mutex, local, evicting, ended>>
      /\ \/ panicked' = TRUE /\ UNCHANGED <<swap_mutex, pc>>
         \/ swap_mutex' = p /\ Goto(p, "writing") /\ UNCHANGED panicked
  BY DEF SwapOutLock
<1>b. UNCHANGED <<user, kernel, page_table, npages, swap_array, evicting, paddr>>
  BY <1>a DEF frames, coremap, local
<1>q. UNCHANGED <<pt_mutex, fault, index, child, copyi>>
  BY <1>a DEF local
<1>e. UNCHANGED <<exiting, leaked>>
  BY <1>a DEF ended
<1>p. pc[p] = "evict" /\ swap_mutex = NULL
  BY <1>a
<1>c. CASE panicked' = TRUE /\ UNCHANGED <<swap_mutex, pc>>
  BY <1>b, <1>c, <1>e, <1>q, SameMemory
<1>d. CASE swap_mutex' = p /\ Goto(p, "writing") /\ UNCHANGED panicked
  <2>e. /\ pc' \in [Procs -> Places]
        /\ \A q \in Procs : pc'[q] = IF q = p THEN "writing" ELSE pc[q]
    BY <1>d DEF PagingInv, StateOK, Goto, Places
  <2>1. StateOK'
    BY <1>b, <1>d, <1>e, <1>q, <2>e DEF PagingInv, StateOK
  <2>2. LocksHeld'
    BY <1>d, <1>p, <1>q, <2>e, Constants DEF PagingInv, LocksHeld, Evicting
  <2>3. Children'
    <3>1. child \in [Procs -> Procs \cup {NULL}]
      BY DEF PagingInv, StateOK
    <3> QED
      BY <1>p, <1>q, <2>e, <3>1 DEF PagingInv, Children, Evicting
  <2>4. Locals'
    BY <1>p, <1>q, <2>e DEF PagingInv, Locals, Evicting
  <2>5. Eviction'
    BY <1>b, <1>p, <1>q, <2>e DEF PagingInv, Eviction, Evicting
  <2>6. KernelApart'
    BY <1>b, Zenon DEF PagingInv, KernelApart
  <2>7. StillMissing'
    BY <1>b, <1>p, <1>q, <2>e DEF PagingInv, StillMissing, Resident, Holds
  <2>8. FramesOfLive'
    BY <1>b, <1>e, <1>p, <2>e, PagePids DEF PagingInv, FramesOfLive
  <2> QED
    BY <2>1, <2>2, <2>3, <2>4, <2>5, <2>6, <2>7, <2>8 DEF PagingInv
<1> QED
  BY <1>a, <1>c, <1>d, Zenon

-----------------------------------------------------------------------------
(* Frames change hands.                                                    *)

\* A free frame becomes page v of q.
LEMMA AllocFreeEffect ==
  ASSUME StateOK, KernelApart, NEW f \in Frames, NEW q \in Procs,
         NEW v \in Pages \cup {NULL}, NEW w \in BOOLEAN, AllocFree(f, q, v, w)
  PROVE  /\ user' \subseteq Frames /\ kernel' = kernel /\ npages' = npages
         /\ page_table' \in [Frames -> Entries]
         /\ \A g \in Frames :
              page_table'[g] = IF g = f THEN Entry(q, v, w) ELSE page_table[g]
         /\ KernelApart'
<1>1. f \notin kernel /\ user' = user \cup {f} /\ kernel' = kernel /\ npages' = npages
  BY DEF AllocFree, get_free_page, FreeFrames
<1>2. Entry(q, v, w) \in Entries
  BY EntryType
<1>3. page_table' = [page_table EXCEPT ![f] = Entry(q, v, w)]
  BY DEF AllocFree
<1>4. /\ page_table' \in [Frames -> Entries]
      /\ \A g \in Frames :
           page_table'[g] = IF g = f THEN Entry(q, v, w) ELSE page_table[g]
  BY <1>2, <1>3 DEF StateOK
<1>5. user' \subseteq Frames
  BY <1>1 DEF StateOK
<1>6. KernelApart'
  BY <1>1, <1>4 DEF KernelApart, StateOK
<1> QED
  BY <1>1, <1>4, <1>5, <1>6

\* The frames of q become free.
LEMMA FreeEffect ==
  ASSUME StateOK, KernelApart, NEW q \in Procs, pt_free_pages(q)
  PROVE  /\ user' \subseteq Frames /\ kernel' \subseteq kernel /\ npages' = npages
         /\ page_table' \in [Frames -> Entries]
         /\ \A g \in Frames :
              page_table'[g] = IF page_table[g].pid = q THEN Empty ELSE page_table[g]
         /\ KernelApart'
<1>1. user' \subseteq user /\ kernel' \subseteq kernel /\ npages' = npages
  BY DEF pt_free_pages, FreePages
<1>2. page_table' = [g \in Frames |-> IF g \in OwnedBy(q) THEN Empty ELSE page_table[g]]
  BY DEF pt_free_pages
<1>3. \A g \in Frames :
        page_table'[g] = IF page_table[g].pid = q THEN Empty ELSE page_table[g]
  BY <1>2 DEF OwnedBy
<1>4. page_table' \in [Frames -> Entries]
  BY <1>2, EmptyType DEF StateOK
<1>5. KernelApart'
  BY <1>1, <1>3, EmptyType DEF KernelApart, StateOK
<1> QED
  BY <1>1, <1>3, <1>4, <1>5 DEF StateOK

\* p begins to evict the page in f, which will be page v of q.
LEMMA EvictEffect ==
  ASSUME StateOK, KernelApart, NEW p \in Procs, NEW f \in Frames, NEW q \in Procs,
         NEW v \in Pages \cup {NULL}, NEW w \in BOOLEAN, EvictStart(p, f, q, v, w)
  PROVE  /\ UNCHANGED <<user, kernel, page_table, npages>>
         /\ pt_mutex' = p
         /\ \A r \in Procs : pc'[r] = IF r = p THEN "evict" ELSE pc[r]
         /\ pc' \in [Procs -> Places]
         /\ evicting' \in Evictions
         /\ evicting'.frame \notin kernel
         /\ evicting'.new.pid = q
<1>1. /\ UNCHANGED <<user, kernel, page_table, npages>> /\ pt_mutex' = p
      /\ f \in user /\ Goto(p, "evict")
      /\ evicting' = [frame |-> f, pid |-> page_table[f].pid, va |-> page_table[f].va,
                      new |-> Entry(q, v, w)]
  BY DEF EvictStart, get_fifo_page
<1>2. page_table[f] \in Entries
  BY DEF StateOK
<1>3. Entry(q, v, w) \in Entries /\ Entry(q, v, w).pid = q
  BY EntryType, Zenon
<1>4. /\ evicting' \in Evictions
      /\ evicting'.frame = f /\ evicting'.new = Entry(q, v, w)
  <2>1. page_table[f].pid \in Procs \cup {NULL} /\ page_table[f].va \in Pages \cup {NULL}
    BY <1>2 DEF Entries
  <2>2. evicting' = [frame |-> f, pid |-> page_table[f].pid, va |-> page_table[f].va,
                     new |-> Entry(q, v, w)]
    BY <1>1
  <2> QED
    BY <1>3, <2>1, <2>2 DEF Evictions
<1>5. f \notin kernel
  BY <1>1 DEF KernelApart
<1>6. /\ pc' \in [Procs -> Places]
      /\ \A r \in Procs : pc'[r] = IF r = p THEN "evict" ELSE pc[r]
  BY <1>1 DEF StateOK, Goto, Places
<1> QED
  BY <1>1, <1>3, <1>4, <1>5, <1>6

\* Freeing the pages of a pid preserves the invariant.
LEMMA FreePagesStep ==
  ASSUME PagingInv, NEW p \in Procs, pt_free_pages(p),
         exiting' \in SUBSET exiting, \A q \in exiting : q # p => q \in exiting',
         leaked' \in SUBSET leaked, \A q \in leaked : q # p => q \in leaked',
         UNCHANGED <<swap_array, pt_mutex, swap_mutex, pc, fault, index, paddr, child,
                     copyi, evicting, panicked>>
  PROVE  PagingInv'
<1>1. /\ user' \subseteq Frames /\ kernel' \subseteq kernel /\ npages' = npages
      /\ page_table' \in [Frames -> Entries]
      /\ \A g \in Frames :
           page_table'[g] = IF page_table[g].pid = p THEN Empty ELSE page_table[g]
      /\ KernelApart'
  BY FreeEffect DEF PagingInv
<1>2. StateOK'
  BY <1>1 DEF PagingInv, StateOK
<1>3. LocksHeld' /\ Children' /\ Locals'
  BY SameProcs
<1>4. Eviction'
  BY <1>1 DEF PagingInv, Eviction
<1>5. NULL \notin Procs /\ Empty.pid = NULL
  BY Constants, EmptyType, Zenon
<1>6. StillMissing'
  BY <1>1, <1>5, Zenon DEF PagingInv, StillMissing, Resident, Holds
<1>7. FramesOfLive'
  BY <1>1, <1>5 DEF PagingInv, FramesOfLive
<1> QED
  BY <1>1, <1>2, <1>3, <1>4, <1>6, <1>7, Zenon DEF PagingInv

\* The second half of thread_exit() preserves the invariant.
LEMMA ExitPagesStep ==
  ASSUME PagingInv, NEW p \in Procs, ExitPages(p)
  PROVE  PagingInv'
<1>1. /\ pt_free_pages(p)
      /\ exiting' \in SUBSET exiting /\ \A q \in exiting : q # p => q \in exiting'
      /\ leaked' \in SUBSET leaked /\ \A q \in leaked : q # p => q \in leaked'
  BY DEF ExitPages
<1>2. UNCHANGED <<swap_array, pt_mutex, swap_mutex, pc, fault, index, paddr, child,
                  copyi, evicting, panicked>>
  BY DEF ExitPages, locks, local
<1> QED
  BY <1>1, <1>2, FreePagesStep

\* sys_execv() preserves the invariant.
LEMMA sys_execvStep ==
  ASSUME PagingInv, NEW p \in Procs, sys_execv(p)
  PROVE  PagingInv'
<1>1. /\ pt_free_pages(p)
      /\ exiting' \in SUBSET exiting /\ \A q \in exiting : q # p => q \in exiting'
      /\ leaked' \in SUBSET leaked /\ \A q \in leaked : q # p => q \in leaked'
  BY DEF sys_execv
<1>2. /\ pc[p] = "user" /\ Goto(p, "user")
      /\ UNCHANGED <<swap_array, pt_mutex, swap_mutex, fault, index, paddr, child,
                     copyi, evicting, panicked>>
  BY DEF sys_execv, locks, local
<1>3. pc' = pc
  BY <1>2 DEF PagingInv, StateOK, Goto
<1> QED
  BY <1>1, <1>2, <1>3, FreePagesStep

\* An allocation by the kernel preserves the invariant: nobody is evicting.
LEMMA alloc_kpagesStep ==
  ASSUME PagingInv, NEW n \in 1 .. KernelMax, alloc_kpages(n)
  PROVE  PagingInv'
<1>a. /\ pt_mutex = NULL /\ TakeChunk(n)
      /\ UNCHANGED <<user, swap_array, paddr, evicting, panicked>>
  BY DEF alloc_kpages, local, ended
<1>q. UNCHANGED <<pt_mutex, swap_mutex, pc, fault, index, child, copyi>>
  BY DEF alloc_kpages, locks, local
<1>e. UNCHANGED <<exiting, leaked>>
  BY DEF alloc_kpages, ended
<1>1. PICK f \in Frames :
        /\ Chunk(f, n) \subseteq FreeFrames
        /\ kernel' = kernel \cup Chunk(f, n)
        /\ npages' = [g \in Frames |-> IF g \in Chunk(f, n) THEN f + n - g ELSE npages[g]]
        /\ page_table' = [g \in Frames |-> IF g \in Chunk(f, n) THEN Empty ELSE page_table[g]]
  BY <1>a DEF TakeChunk, get_free_kpages
<1>n. NULL \notin Procs /\ Empty.pid = NULL /\ Empty \in Entries
  BY Constants, EmptyType, Zenon
<1>2. /\ page_table' \in [Frames -> Entries]
      /\ \A g \in Frames :
           page_table'[g] = IF g \in Chunk(f, n) THEN Empty ELSE page_table[g]
  BY <1>1, <1>n DEF PagingInv, StateOK
<1>3. npages' \in [Frames -> 0 .. total_pages]
  <2>1. total_pages \in Nat /\ KernelMax \in Nat /\ KernelMax < total_pages
    BY PagingAssumption
  <2>2. \A g \in Frames : g \in Chunk(f, n) => f + n - g \in 0 .. total_pages
    BY <2>1 DEF Frames, Chunk
  <2>3. npages \in [Frames -> 0 .. total_pages]
    BY DEF PagingInv, StateOK
  <2> QED
    BY <1>1, <2>2, <2>3
<1>4. kernel' \subseteq Frames /\ \A g \in Chunk(f, n) : g \notin user /\ g \in Frames
  BY <1>1 DEF PagingInv, StateOK, FreeFrames
<1>5. StateOK'
  BY <1>a, <1>e, <1>q, <1>2, <1>3, <1>4 DEF PagingInv, StateOK
<1>6. LocksHeld' /\ Children' /\ Locals'
  BY <1>q, SameProcs, Zenon
<1>7. Eviction'
  BY <1>a, <1>n, <1>q, Zenon DEF PagingInv, LocksHeld, Eviction
<1>8. KernelApart'
  BY <1>a, <1>1, <1>2, <1>4, <1>n, Zenon DEF PagingInv, StateOK, KernelApart
<1>9. StillMissing'
  BY <1>q, <1>2, <1>n, Zenon DEF PagingInv, StillMissing, Resident, Holds
<1>10. FramesOfLive'
  BY <1>e, <1>q, <1>2, <1>n DEF PagingInv, FramesOfLive
<1> QED
  BY <1>5, <1>6, <1>7, <1>8, <1>9, <1>10 DEF PagingInv

\* free_kpages() preserves the invariant.
LEMMA free_kpagesStep ==
  ASSUME PagingInv, NEW f \in Frames, free_kpages(f)
  PROVE  PagingInv'
<1> DEFINE F == Chunk(f, npages[f])
<1>1. /\ page_table' = [g \in Frames |-> IF g \in F THEN Empty ELSE page_table[g]]
      /\ npages' = [g \in Frames |-> IF g \in F THEN 0 ELSE npages[g]]
      /\ user' = user \ F /\ kernel' = kernel \ F
      /\ UNCHANGED <<swap_array, paddr, evicting, panicked>>
  BY DEF free_kpages, FreePages, local, ended
<1> HIDE DEF F
<1>u. /\ user' = user \ F /\ kernel' = kernel \ F
      /\ UNCHANGED <<swap_array, paddr, evicting, panicked>>
  BY <1>1
<1>q. UNCHANGED <<pt_mutex, swap_mutex, pc, fault, index, child, copyi>>
  BY DEF free_kpages, locks, local
<1>e. UNCHANGED <<exiting, leaked>>
  BY DEF free_kpages, ended
<1>n. NULL \notin Procs /\ Empty.pid = NULL /\ Empty \in Entries
  BY Constants, EmptyType, Zenon
<1>2. /\ page_table' \in [Frames -> Entries]
      /\ \A g \in Frames : page_table'[g] = IF g \in F THEN Empty ELSE page_table[g]
  BY <1>1, <1>n DEF PagingInv, StateOK
<1>3. npages' \in [Frames -> 0 .. total_pages]
  BY <1>1, Constants DEF PagingInv, StateOK
<1>4. StateOK'
  BY <1>2, <1>3, <1>e, <1>q, <1>u DEF PagingInv, StateOK
<1>5. LocksHeld' /\ Children' /\ Locals'
  BY <1>q, SameProcs
<1>6. Eviction'
  BY <1>q, <1>u, Zenon DEF PagingInv, Eviction
<1>7. KernelApart'
  BY <1>2, <1>n, <1>u, Zenon DEF PagingInv, StateOK, KernelApart
<1>8. StillMissing'
  BY <1>2, <1>n, <1>q, Zenon DEF PagingInv, StillMissing, Resident, Holds
<1>9. FramesOfLive'
  BY <1>2, <1>e, <1>n, <1>q, Zenon DEF PagingInv, FramesOfLive
<1> QED
  BY <1>4, <1>5, <1>6, <1>7, <1>8, <1>9 DEF PagingInv
=============================================================================
