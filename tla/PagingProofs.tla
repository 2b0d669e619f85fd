---------------------------- MODULE PagingProofs ----------------------------
(***************************************************************************)
(* Proofs about Paging, for any number of processes, pages, frames and     *)
(* swap slots.                                                             *)
(***************************************************************************)
EXTENDS PagingSteps

-----------------------------------------------------------------------------
(* Processes get frames.                                                   *)

\* A page fault on a page that is nowhere preserves the invariant.
LEMMA DemandStep ==
  ASSUME PagingInv, NEW p \in Procs, NEW v \in Pages, Demand(p, v)
  PROVE  PagingInv'
<1>a. /\ pc[p] = "user" /\ pt_mutex = NULL /\ swap_mutex = NULL /\ ~Resident(p, v)
      /\ UNCHANGED <<swap_array, swap_mutex, index, paddr, child, copyi, exiting, leaked, panicked>>
  BY DEF Demand, ended
<1>k. /\ StateOK /\ KernelApart
      /\ v \in Pages \cup {NULL} /\ (v \notin Text) \in BOOLEAN
  BY DEF PagingInv
<1>t. /\ NULL \notin Procs
      /\ pc \in [Procs -> Places] /\ child \in [Procs -> Procs \cup {NULL}]
      /\ page_table \in [Frames -> Entries]
      /\ v # NULL /\ fault \in [Procs -> Pages \cup {NULL}]
  BY Constants DEF PagingInv, StateOK
<1>c. child[p] = NULL
  BY <1>a DEF PagingInv, Children, Evicting
<1>1. ASSUME NEW f \in Frames, AllocFree(f, p, v, v \notin Text), Goto(p, "user"),
             UNCHANGED <<pt_mutex, fault, evicting>>
      PROVE  PagingInv'
  <2>1. /\ user' \subseteq Frames /\ kernel' = kernel /\ npages' = npages
        /\ page_table' \in [Frames -> Entries]
        /\ \A g \in Frames :
             page_table'[g] = IF g = f THEN Entry(p, v, v \notin Text) ELSE page_table[g]
        /\ KernelApart'
    BY <1>1, <1>k, AllocFreeEffect, Zenon
  <2>2. Entry(p, v, v \notin Text).pid = p
    BY <1>k, EntryType, Zenon
  <2>3. pc' = pc
    BY <1>a, <1>t, <1>c, <1>1 DEF Goto
  <2>4. StateOK'
    BY <1>a, <1>k, <1>c, <1>1, <2>1, <2>3 DEF StateOK
  <2>5. LocksHeld' /\ Children' /\ Locals' /\ Eviction'
    BY <1>a, <1>t, <1>c, <1>1, <2>1, <2>3 DEF PagingInv, LocksHeld, Children, Locals, Eviction
  <2>6. StillMissing'
    BY <1>a, <1>t, <1>c, <1>1, <2>1, <2>2, <2>3 DEF PagingInv, StillMissing, Resident, Holds
  <2>7. FramesOfLive'
    BY <1>a, <1>t, <1>c, <1>1, <2>1, <2>2, <2>3 DEF PagingInv, FramesOfLive
  <2> QED
    BY <2>1, <2>4, <2>5, <2>6, <2>7 DEF PagingInv
<1>2. ASSUME NEW f \in Frames, EvictStart(p, f, p, v, v \notin Text),
             fault' = [fault EXCEPT ![p] = v]
      PROVE  PagingInv'
  <2>1. /\ UNCHANGED <<user, kernel, page_table, npages>> /\ pt_mutex' = p
        /\ \A r \in Procs : pc'[r] = IF r = p THEN "evict" ELSE pc[r]
        /\ pc' \in [Procs -> Places]
        /\ evicting' \in Evictions
        /\ evicting'.frame \notin kernel
        /\ evicting'.new.pid = p
    BY <1>2, <1>k, EvictEffect, Zenon
  <2>2. /\ fault' \in [Procs -> Pages \cup {NULL}]
        /\ \A r \in Procs : fault'[r] = IF r = p THEN v ELSE fault[r]
    BY <1>a, <1>t, <1>c, <1>2
  <2>3. StateOK'
    BY <1>a, <1>k, <1>c, <2>1, <2>2 DEF StateOK
  <2>4. LocksHeld' /\ Children'
    BY <1>a, <1>t, <1>c, <2>1 DEF PagingInv, LocksHeld, Children, Evicting
  <2>5. Locals'
    BY <1>a, <1>t, <1>c, <2>1, <2>2 DEF PagingInv, Locals, Evicting
  <2>6. Eviction'
    BY <1>a, <1>t, <1>c, <2>1 DEF PagingInv, Eviction, LocksHeld, Evicting
  <2>7. KernelApart' /\ StillMissing'
    BY <1>a, <1>t, <1>c, <2>1, <2>2 DEF PagingInv, KernelApart, StillMissing, Resident, Holds
  <2>8. FramesOfLive'
    BY <1>a, <1>t, <1>c, <2>1, PagePids DEF PagingInv, FramesOfLive
  <2> QED
    BY <2>3, <2>4, <2>5, <2>6, <2>7, <2>8 DEF PagingInv
<1> QED
  BY <1>1, <1>2 DEF Demand

\* The allocation in swap_in() preserves the invariant.
LEMMA SwapAllocStep ==
  ASSUME PagingInv, NEW p \in Procs, SwapAlloc(p)
  PROVE  PagingInv'
<1>a. /\ pc[p] = "alloc" /\ pt_mutex = NULL
      /\ UNCHANGED <<swap_array, swap_mutex, fault, index, child, copyi, exiting, leaked, panicked>>
  BY DEF SwapAlloc, ended
<1>t. /\ NULL \notin Procs
      /\ pc \in [Procs -> Places] /\ child \in [Procs -> Procs \cup {NULL}]
      /\ page_table \in [Frames -> Entries]
      /\ fault[p] \in Pages \cup {NULL}
  BY Constants DEF PagingInv, StateOK
<1>k. /\ StateOK /\ KernelApart
      /\ fault[p] \in Pages \cup {NULL} /\ TRUE \in BOOLEAN
  BY <1>t DEF PagingInv
<1>c. child[p] = NULL /\ fault[p] # NULL /\ index[p] # NULL
  BY <1>a DEF PagingInv, Children, Evicting, Locals
<1>1. ASSUME NEW f \in Frames, AllocFree(f, p, fault[p], TRUE),
             paddr' = [paddr EXCEPT ![p] = f], Goto(p, "fill"),
             UNCHANGED <<pt_mutex, evicting>>
      PROVE  PagingInv'
  <2> DEFINE e == Entry(p, fault[p], TRUE)
  <2>1. /\ user' \subseteq Frames /\ kernel' = kernel /\ npages' = npages
        /\ page_table' \in [Frames -> Entries]
        /\ \A g \in Frames :
             page_table'[g] = IF g = f THEN e ELSE page_table[g]
        /\ KernelApart'
    BY <1>1, <1>k, AllocFreeEffect, Zenon
  <2>2. e.pid = p
    BY <1>k, EntryType, Zenon
  <2> HIDE DEF e
  <2>3. /\ pc' \in [Procs -> Places]
        /\ \A r \in Procs : pc'[r] = IF r = p THEN "fill" ELSE pc[r]
    BY <1>a, <1>t, <1>c, <1>1 DEF Goto, Places
  <2>4. paddr' \in [Procs -> Frames \cup {NULL}]
    BY <1>a, <1>k, <1>c, <1>1 DEF StateOK
  <2>5. StateOK'
    BY <1>a, <1>k, <1>c, <1>1, <2>1, <2>3, <2>4 DEF StateOK
  <2>6. LocksHeld' /\ Children' /\ Locals'
    BY <1>a, <1>t, <1>c, <1>1, <2>3 DEF PagingInv, LocksHeld, Children, Locals, Evicting
  <2>7. Eviction'
    BY <1>a, <1>t, <1>c, <1>1, <2>1, <2>3 DEF PagingInv, Eviction, Evicting
  <2>8. StillMissing'
    BY <1>a, <1>t, <1>c, <1>1, <2>1, <2>2, <2>3 DEF PagingInv, StillMissing, Resident, Holds
  <2>9. FramesOfLive'
    BY <1>a, <1>t, <1>c, <1>1, <2>1, <2>2, <2>3, PagePids DEF PagingInv, FramesOfLive
  <2> QED
    BY <2>1, <2>5, <2>6, <2>7, <2>8, <2>9 DEF PagingInv
<1>2. ASSUME NEW f \in Frames, EvictStart(p, f, p, fault[p], TRUE), UNCHANGED paddr
      PROVE  PagingInv'
  <2>1. /\ UNCHANGED <<user, kernel, page_table, npages>> /\ pt_mutex' = p
        /\ \A r \in Procs : pc'[r] = IF r = p THEN "evict" ELSE pc[r]
        /\ pc' \in [Procs -> Places]
        /\ evicting' \in Evictions
        /\ evicting'.frame \notin kernel
        /\ evicting'.new.pid = p
    BY <1>2, <1>k, EvictEffect, Zenon
  <2>3. StateOK'
    BY <1>a, <1>k, <1>c, <1>2, <2>1 DEF StateOK
  <2>4. LocksHeld' /\ Children'
    BY <1>a, <1>t, <1>c, <2>1 DEF PagingInv, LocksHeld, Children, Evicting
  <2>5. Locals'
    BY <1>a, <1>t, <1>c, <2>1 DEF PagingInv, Locals, Evicting
  <2>6. Eviction'
    BY <1>a, <1>t, <1>c, <2>1 DEF PagingInv, Eviction, LocksHeld, Evicting
  <2>7. KernelApart' /\ StillMissing'
    BY <1>a, <1>t, <1>c, <2>1 DEF PagingInv, KernelApart, StillMissing, Resident, Holds
  <2>8. FramesOfLive'
    BY <1>a, <1>t, <1>c, <2>1, PagePids DEF PagingInv, FramesOfLive
  <2> QED
    BY <2>3, <2>4, <2>5, <2>6, <2>7, <2>8 DEF PagingInv
<1> QED
  BY <1>1, <1>2, Zenon DEF SwapAlloc

\* Copying a page of the parent preserves the invariant.
LEMMA CopyPageStep ==
  ASSUME PagingInv, NEW p \in Procs, NEW i \in Frames, NEW f \in Frames, CopyPage(p, i, f)
  PROVE  PagingInv'
<1> DEFINE c == child[p]
           v == page_table[i].va
           w == page_table[i].writeable
<1>a. /\ pc[p] = "copy"
      /\ UNCHANGED <<swap_array, swap_mutex, fault, index, paddr, child, exiting, leaked, panicked>>
  BY DEF CopyPage, ended
<1>k. StateOK /\ KernelApart
  BY DEF PagingInv
<1>t. /\ NULL \notin Procs
      /\ pc \in [Procs -> Places] /\ child \in [Procs -> Procs \cup {NULL}]
      /\ page_table \in [Frames -> Entries]
  BY Constants DEF PagingInv, StateOK
<1>c. c \in Procs /\ pc[c] = "embryo" /\ pt_mutex = p
  BY <1>a, <1>t DEF PagingInv, Children, LocksHeld
<1>v. v \in Pages \cup {NULL} /\ w \in BOOLEAN
  BY <1>t DEF Entries
<1>p. c \in Procs
  BY <1>c
<1>n. i + 1 \in 0 .. total_pages /\ i \in 0 .. total_pages
  BY Constants DEF Frames
<1>o. \A r \in Procs : r # p => pc[r] \notin Evicting
  BY <1>c DEF PagingInv, LocksHeld
<1>d. \/ /\ AllocFree(f, c, v, w)
         /\ copyi' = i + 1 /\ Goto(p, "copy") /\ UNCHANGED <<pt_mutex, evicting>>
      \/ EvictStart(p, f, c, v, w) /\ copyi' = i
  BY DEF CopyPage
<1>g. c = child[p]
  OBVIOUS
<1> HIDE DEF c, v, w
<1>1. CASE /\ AllocFree(f, c, v, w)
           /\ copyi' = i + 1 /\ Goto(p, "copy") /\ UNCHANGED <<pt_mutex, evicting>>
  <2>1. /\ user' \subseteq Frames /\ kernel' = kernel /\ npages' = npages
        /\ page_table' \in [Frames -> Entries]
        /\ \A g \in Frames : page_table'[g] = IF g = f THEN Entry(c, v, w) ELSE page_table[g]
        /\ KernelApart'
    BY <1>1, <1>p, <1>v, <1>k, AllocFreeEffect, Zenon
  <2>2. Entry(c, v, w).pid = c
    BY <1>p, <1>v, EntryType, Zenon
  <2>3. pc' = pc
    BY <1>a, <1>t, <1>c, <1>1 DEF Goto
  <2>5. StateOK'
    BY <1>a, <1>k, <1>c, <1>1, <1>n, <2>1, <2>3 DEF StateOK
  <2>6. LocksHeld' /\ Children' /\ Locals'
    BY <1>a, <1>t, <1>c, <1>1, <1>o, <1>g, <2>3 DEF PagingInv, LocksHeld, Children, Locals, Evicting
  <2>7. Eviction'
    BY <1>a, <1>t, <1>c, <1>1, <2>1, <2>3 DEF PagingInv, Eviction, Evicting
  <2>8. StillMissing'
    BY <1>a, <1>t, <1>c, <1>1, <2>1, <2>2, <2>3 DEF PagingInv, StillMissing, Resident, Holds
  <2>9. FramesOfLive'
    BY <1>a, <1>t, <1>c, <1>1, <2>1, <2>2, <2>3, PagePids DEF PagingInv, FramesOfLive
  <2> QED
    BY <2>1, <2>5, <2>6, <2>7, <2>8, <2>9 DEF PagingInv
<1>2. CASE EvictStart(p, f, c, v, w) /\ copyi' = i
  <2>1. /\ UNCHANGED <<user, kernel, page_table, npages>> /\ pt_mutex' = p
        /\ \A r \in Procs : pc'[r] = IF r = p THEN "evict" ELSE pc[r]
        /\ pc' \in [Procs -> Places]
        /\ evicting' \in Evictions
        /\ evicting'.frame \notin kernel
        /\ evicting'.new.pid = c
    BY <1>2, <1>p, <1>v, <1>k, EvictEffect
  <2>3. StateOK'
    BY <1>a, <1>k, <1>c, <1>2, <1>n, <2>1 DEF StateOK
  <2>4. LocksHeld' /\ Children'
    BY <1>a, <1>t, <1>c, <1>g, <2>1 DEF PagingInv, LocksHeld, Children, Evicting
  <2>5. Locals'
    BY <1>a, <1>t, <1>c, <1>2, <1>o, <1>g, <2>1 DEF PagingInv, Locals, Evicting
  <2>6. Eviction'
    BY <1>a, <1>t, <1>c, <1>o, <1>g, <2>1 DEF PagingInv, Eviction, Evicting
  <2>7. KernelApart' /\ StillMissing'
    BY <1>a, <1>t, <1>c, <1>g, <2>1 DEF PagingInv, KernelApart, StillMissing, Resident, Holds
  <2>8. FramesOfLive'
    BY <1>a, <1>t, <1>c, <2>1, PagePids DEF PagingInv, FramesOfLive
  <2> QED
    BY <2>3, <2>4, <2>5, <2>6, <2>7, <2>8 DEF PagingInv
<1> QED
  BY <1>d, <1>1, <1>2

\* The end of an eviction preserves the invariant.
LEMMA SwapWriteStep ==
  ASSUME PagingInv, NEW p \in Procs, NEW s \in Slots, SwapWrite(p, s)
  PROVE  PagingInv'
<1> DEFINE f == evicting.frame
           e == evicting.new
<1>a. /\ pc[p] = "writing" /\ SwapOut(s) /\ swap_mutex' = NULL
      /\ page_table' = [page_table EXCEPT ![f] = e]
      /\ evicting' = NULL
      /\ UNCHANGED <<user, kernel, npages, index, child, exiting, leaked, panicked>>
  BY DEF SwapWrite, coremap, ended
<1>d. \/ /\ child[p] = NULL /\ index[p] = NULL /\ Goto(p, "user")
         /\ fault' = [fault EXCEPT ![p] = NULL] /\ pt_mutex' = NULL
         /\ UNCHANGED <<paddr, copyi>>
      \/ /\ child[p] = NULL /\ index[p] # NULL /\ Goto(p, "fill")
         /\ paddr' = [paddr EXCEPT ![p] = f] /\ pt_mutex' = NULL
         /\ UNCHANGED <<fault, copyi>>
      \/ /\ child[p] # NULL /\ Goto(p, "copy") /\ copyi' = copyi + 1
         /\ UNCHANGED <<pt_mutex, fault, paddr>>
  BY DEF SwapWrite
<1>t. /\ NULL \notin Procs /\ pc \in [Procs -> Places]
      /\ child \in [Procs -> Procs \cup {NULL}]
      /\ page_table \in [Frames -> Entries]
      /\ fault \in [Procs -> Pages \cup {NULL}]
  BY Constants DEF PagingInv, StateOK
<1>v. /\ evicting \in Evictions
      /\ f \notin kernel
      /\ e.pid = IF child[p] = NULL THEN p ELSE child[p]
  BY <1>a DEF PagingInv, Eviction, Evicting
<1>w. f \in Frames /\ e \in Entries
  BY <1>v DEF Evictions
<1>g. /\ page_table' \in [Frames -> Entries]
      /\ \A g \in Frames : page_table'[g] = IF g = f THEN e ELSE page_table[g]
  BY <1>a, <1>t, <1>w
<1>s. swap_array' \in [Slots -> SwapEntries]
  <2>1. SwapEntry(evicting.pid, evicting.va) \in SwapEntries
    BY <1>v DEF SwapEntry, SwapEntries, Evictions
  <2>2. \/ swap_array' = [swap_array EXCEPT ![s] = SwapEntry(evicting.pid, evicting.va)]
        \/ UNCHANGED swap_array
    BY <1>a DEF SwapOut
  <2> QED
    BY <2>1, <2>2 DEF PagingInv, StateOK
<1>o. \A r \in Procs : r # p => pc[r] \notin Evicting \cup {"copy"}
  BY <1>a DEF PagingInv, LocksHeld, Evicting
<1>h. pt_mutex = p /\ swap_mutex = p
  BY <1>a DEF PagingInv, LocksHeld, Evicting
<1>i. child[p] # NULL => child[p] \in Procs /\ child[p] # p /\ pc[child[p]] = "embryo"
  BY <1>a, <1>t DEF PagingInv, Children
<1> HIDE DEF f, e
<1>k. KernelApart'
  BY <1>a, <1>g, <1>v DEF PagingInv, StateOK, KernelApart
<1>l. \E place \in {"user", "fill", "copy"} :
        \A r \in Procs : pc'[r] = IF r = p THEN place ELSE pc[r]
  BY <1>d, <1>t DEF Goto
<1>m. FramesOfLive'
  <2>1. \A g \in Frames : page_table[g].pid \in Procs \cup {NULL}
    BY PagePids DEF PagingInv
  <2> QED
    BY <1>a, <1>g, <1>i, <1>l, <1>t, <1>v, <2>1 DEF PagingInv, FramesOfLive
<1>n. StillMissing'
  <2>1. \A r \in Procs : r # p => fault'[r] = fault[r]
    BY <1>d, <1>t
  <2> SUFFICES ASSUME NEW r \in Procs, child'[r] = NULL,
                      pc'[r] \in {"reading", "alloc", "evict", "writing"}
               PROVE  ~Resident(r, fault[r])'
    BY DEF StillMissing
  <2>2. r # p /\ pc[r] = pc'[r] /\ child[r] = NULL
    BY <1>a, <1>l
  <2>3. e.pid # r
    BY <1>i, <1>v, <2>2
  <2>4. ~Resident(r, fault[r])
    BY <2>2 DEF PagingInv, StillMissing
  <2> QED
    BY <1>g, <2>1, <2>2, <2>3, <2>4 DEF Resident, Holds
<1>u. /\ evicting' = NULL /\ swap_mutex' = NULL
      /\ UNCHANGED <<user, kernel, npages, index, child, exiting, leaked, panicked>>
  BY <1>a
<1>1. CASE child[p] = NULL /\ index[p] = NULL /\ pt_mutex' = NULL
           /\ fault' = [fault EXCEPT ![p] = NULL] /\ Goto(p, "user")
           /\ UNCHANGED <<paddr, copyi>>
  <2>e. /\ pc' \in [Procs -> Places]
        /\ \A r \in Procs : pc'[r] = IF r = p THEN "user" ELSE pc[r]
        /\ fault' \in [Procs -> Pages \cup {NULL}]
        /\ \A r \in Procs : r # p => fault'[r] = fault[r]
        /\ pt_mutex' = NULL /\ UNCHANGED <<paddr, copyi>>
    BY <1>1, <1>t DEF Goto, Places
  <2>1. StateOK'
    BY <1>g, <1>s, <1>u, <2>e DEF PagingInv, StateOK
  <2>2. LocksHeld'
    BY <1>h, <1>o, <1>t, <1>u, <2>e DEF PagingInv, LocksHeld, Evicting
  <2>3. Children'
    BY <1>1, <1>o, <1>t, <1>u, <2>e DEF PagingInv, Children, Evicting
  <2>4. Locals'
    BY <1>o, <1>u, <2>e DEF PagingInv, Locals, Evicting
  <2>5. Eviction'
    BY <1>o, <2>e DEF Eviction, Evicting
  <2> QED
    BY <1>k, <1>m, <1>n, <2>1, <2>2, <2>3, <2>4, <2>5 DEF PagingInv
<1>2. CASE child[p] = NULL /\ index[p] # NULL /\ pt_mutex' = NULL
           /\ paddr' = [paddr EXCEPT ![p] = f] /\ Goto(p, "fill")
           /\ UNCHANGED <<fault, copyi>>
  <2>e. /\ pc' \in [Procs -> Places]
        /\ \A r \in Procs : pc'[r] = IF r = p THEN "fill" ELSE pc[r]
        /\ pt_mutex' = NULL /\ UNCHANGED <<fault, copyi>>
    BY <1>2, <1>t DEF Goto, Places
  <2>p. paddr' \in [Procs -> Frames \cup {NULL}]
    BY <1>2, <1>w DEF PagingInv, StateOK
  <2>f. fault[p] # NULL /\ index[p] # NULL /\ child[p] = NULL
    BY <1>2, <1>a DEF PagingInv, Locals, Evicting
  <2>1. StateOK'
    BY <1>g, <1>s, <1>u, <2>e, <2>p DEF PagingInv, StateOK
  <2>2. LocksHeld'
    BY <1>h, <1>o, <1>t, <1>u, <2>e DEF PagingInv, LocksHeld, Evicting
  <2>3. Children'
    BY <1>o, <1>t, <1>u, <2>e, <2>f DEF PagingInv, Children, Evicting
  <2>4. Locals'
    BY <1>o, <1>u, <2>e, <2>f DEF PagingInv, Locals, Evicting
  <2>5. Eviction'
    BY <1>o, <2>e DEF Eviction, Evicting
  <2> QED
    BY <1>k, <1>m, <1>n, <2>1, <2>2, <2>3, <2>4, <2>5 DEF PagingInv
<1>3. CASE child[p] # NULL /\ copyi' = copyi + 1 /\ Goto(p, "copy")
           /\ UNCHANGED <<pt_mutex, fault, paddr>>
  <2>e. /\ pc' \in [Procs -> Places]
        /\ \A r \in Procs : pc'[r] = IF r = p THEN "copy" ELSE pc[r]
        /\ UNCHANGED <<pt_mutex, fault, paddr>>
    BY <1>3, <1>t DEF Goto, Places
  <2>n. copyi' \in 0 .. total_pages
    BY <1>3, <1>a, Constants DEF PagingInv, Locals, Evicting, Frames
  <2>1. StateOK'
    BY <1>g, <1>s, <1>u, <2>e, <2>n DEF PagingInv, StateOK
  <2>2. LocksHeld'
    BY <1>h, <1>o, <1>t, <1>u, <2>e DEF PagingInv, LocksHeld, Evicting
  <2>3. Children'
    BY <1>3, <1>i, <1>o, <1>t, <1>u, <2>e DEF PagingInv, Children, Evicting
  <2>4. Locals'
    BY <1>o, <1>u, <2>e DEF PagingInv, Locals, Evicting
  <2>5. Eviction'
    BY <1>o, <2>e DEF Eviction, Evicting
  <2> QED
    BY <1>k, <1>m, <1>n, <2>1, <2>2, <2>3, <2>4, <2>5 DEF PagingInv
<1> QED
  BY <1>d, <1>1, <1>2, <1>3

\* Every step preserves the invariant.
LEMMA NextInv == PagingInv /\ [Next]_pagingvars => PagingInv'
<1> SUFFICES ASSUME PagingInv, [Next]_pagingvars PROVE PagingInv'
  OBVIOUS
<1>1. ASSUME NEW p \in Procs, NEW v \in Pages, Demand(p, v) PROVE PagingInv'
  BY <1>1, DemandStep
<1>2. ASSUME NEW p \in Procs, NEW v \in Pages, NEW s \in Slots, SwapLookup(p, v, s)
      PROVE  PagingInv'
  BY <1>2, SwapLookupStep
<1>3. ASSUME NEW p \in Procs, SwapRead(p) PROVE PagingInv'
  BY <1>3, SwapReadStep
<1>4. ASSUME NEW p \in Procs, SwapAlloc(p) PROVE PagingInv'
  BY <1>4, SwapAllocStep
<1>5. ASSUME NEW p \in Procs, SwapOutLock(p) PROVE PagingInv'
  BY <1>5, SwapOutLockStep
<1>6. ASSUME NEW p \in Procs, NEW s \in Slots, SwapWrite(p, s) PROVE PagingInv'
  BY <1>6, SwapWriteStep
<1>7. ASSUME NEW p \in Procs, SwapFill(p) PROVE PagingInv'
  BY <1>7, SwapFillStep
<1>8. ASSUME NEW p \in Procs, runprogram(p) PROVE PagingInv'
  BY <1>8, runprogramStep
<1>9. ASSUME NEW p \in Procs, ForkDone(p) PROVE PagingInv'
  BY <1>9, ForkDoneStep
<1>10. ASSUME NEW p \in Procs, ForkFail(p) PROVE PagingInv'
  BY <1>10, ForkFailStep
<1>11. ASSUME NEW p \in Procs, ExitClear(p) PROVE PagingInv'
  BY <1>11, ExitClearStep
<1>12. ASSUME NEW p \in Procs, ExitPages(p) PROVE PagingInv'
  BY <1>12, ExitPagesStep
<1>13. ASSUME NEW p \in Procs, sys_execv(p) PROVE PagingInv'
  BY <1>13, sys_execvStep
<1>14. ASSUME NEW p \in Procs, NEW c \in Procs, as_copy(p, c) PROVE PagingInv'
  BY <1>14, as_copyStep
<1>15. ASSUME NEW p \in Procs, NEW i \in Frames, NEW f \in Frames, CopyPage(p, i, f)
       PROVE  PagingInv'
  BY <1>15, CopyPageStep
<1>16. ASSUME NEW n \in 1 .. KernelMax, alloc_kpages(n) PROVE PagingInv'
  BY <1>16, alloc_kpagesStep
<1>17. ASSUME NEW f \in Frames, free_kpages(f) PROVE PagingInv'
  BY <1>17, free_kpagesStep
<1>18. CASE UNCHANGED pagingvars
  BY <1>18, SameMemory DEF PagingInv, StateOK, pagingvars, frames, coremap, locks, local, ended
<1> QED
  BY <1>1, <1>2, <1>3, <1>4, <1>5, <1>6, <1>7, <1>8, <1>9, <1>10, <1>11, <1>12, <1>13,
     <1>14, <1>15, <1>16, <1>17, <1>18 DEF Next

-----------------------------------------------------------------------------
(* The theorems.                                                           *)

\* Memory management never leaves the inductive invariant, whatever the
\* interleaving of faults, forks, execs, exits and kernel allocations.
THEOREM PagingSafety == Spec => []PagingInv
<1>1. Init => PagingInv
  BY InitInv
<1>2. PagingInv /\ [Next]_pagingvars => PagingInv'
  BY NextInv
<1> QED
  BY <1>1, <1>2, PTL DEF Spec

\* Neither page replacement nor a free in the middle of an eviction gives a
\* frame of the kernel to a process.
THEOREM KernelFramesApart == Spec => []KernelApart
<1>1. PagingInv => KernelApart
  BY DEF PagingInv
<1> QED
  BY <1>1, PagingSafety, PTL

\* A page that a fault did not find is still missing when it gets a frame, so
\* that no page is allocated twice.
THEOREM NoPageTwice == Spec => []StillMissing
<1>1. PagingInv => StillMissing
  BY DEF PagingInv
<1> QED
  BY <1>1, PagingSafety, PTL

\* Frames belong to processes that exist, to exits that have yet to free them
\* or to forks that failed.
THEOREM FramesHaveOwners == Spec => []FramesOfLive
<1>1. PagingInv => FramesOfLive
  BY DEF PagingInv
<1> QED
  BY <1>1, PagingSafety, PTL

\* Nobody who has swap_mutex waits for pt_mutex.
THEOREM LocksOrdered == Spec => []LockOrder
<1>1. PagingInv => LockOrder
  BY DEF PagingInv, LocksHeld, LockOrder
<1> QED
  BY <1>1, PagingSafety, PTL

\* swap_out() enters a page only in a slot that is unused, and nothing but
\* swap_in() gives a slot back.
THEOREM SlotsNotOverwritten == Spec => SlotsKept
<1> DEFINE A == \A s \in Slots :
                  swap_array[s].va # NULL => swap_array'[s] \in {swap_array[s], Unused}
<1>1. ASSUME PagingInv, Next PROVE A
  <2>t. swap_array \in [Slots -> SwapEntries]
    BY <1>1 DEF PagingInv, StateOK
  <2>1. ASSUME NEW p \in Procs, NEW s \in Slots, SwapWrite(p, s) PROVE A
    <3>1. /\ swap_array[s].va = NULL
          /\ \/ swap_array' = [swap_array EXCEPT ![s] = SwapEntry(evicting.pid, evicting.va)]
             \/ UNCHANGED swap_array
      BY <2>1 DEF SwapWrite, SwapOut, swap_find_free
    <3> QED
      BY <3>1, <2>t
  <2>2. ASSUME NEW p \in Procs, SwapFill(p) PROVE A
    <3>1. swap_array' = [swap_array EXCEPT ![index[p]] = Unused]
      BY <2>2 DEF SwapFill
    <3> QED
      BY <3>1, <2>t
  <2>3. CASE UNCHANGED swap_array
    BY <2>3
  <2>4. \/ \E p \in Procs, s \in Slots : SwapWrite(p, s)
        \/ \E p \in Procs : SwapFill(p)
        \/ UNCHANGED swap_array
    <3>1. ASSUME NEW p \in Procs
          PROVE  /\ \A v \in Pages : Demand(p, v) => UNCHANGED swap_array
                 /\ \A v \in Pages, s \in Slots : SwapLookup(p, v, s) => UNCHANGED swap_array
                 /\ SwapRead(p) => UNCHANGED swap_array
                 /\ SwapAlloc(p) => UNCHANGED swap_array
                 /\ SwapOutLock(p) => UNCHANGED swap_array
      BY Zenon DEF Demand, SwapLookup, SwapRead, SwapAlloc, SwapOutLock
    <3>2. ASSUME NEW p \in Procs
          PROVE  /\ runprogram(p) => UNCHANGED swap_array
                 /\ ForkDone(p) \/ ForkFail(p) => UNCHANGED swap_array
                 /\ ExitClear(p) => UNCHANGED swap_array
                 /\ ExitPages(p) => UNCHANGED swap_array
                 /\ sys_execv(p) => UNCHANGED swap_array
      BY DEF runprogram, ForkDone, ForkFail, CopyDone, ExitClear, ExitPages, sys_execv
    <3>3. ASSUME NEW p \in Procs
          PROVE  /\ \A c \in Procs : as_copy(p, c) => UNCHANGED swap_array
                 /\ \A i, f \in Frames : CopyPage(p, i, f) => UNCHANGED swap_array
      BY DEF as_copy, CopyPage
    <3>4. /\ \A n \in 1 .. KernelMax : alloc_kpages(n) => UNCHANGED swap_array
          /\ \A f \in Frames : free_kpages(f) => UNCHANGED swap_array
      BY DEF alloc_kpages, free_kpages
    <3> QED
      BY <1>1, <3>1, <3>2, <3>3, <3>4 DEF Next
  <2> QED
    BY <2>1, <2>2, <2>3, <2>4
<1>2. PagingInv /\ [Next]_pagingvars => [A]_pagingvars
  BY <1>1
<1> QED
  BY <1>2, PagingSafety, PTL DEF Spec, SlotsKept
=============================================================================
