------------------------------- MODULE KHeap -------------------------------
(***************************************************************************)
(* The kernel heap of kern/lib/kheap.c: pages cut into blocks of one size, *)
(* a pageref for each of them, and whole pages for large requests.         *)
(*                                                                         *)
(* Interrupts are off in the allocator, but alloc_kpages() takes the page  *)
(* table's lock and may sleep: at[t] is where thread t then waits, with a  *)
(* pageref reserved and the size lists already searched.  Everything else  *)
(* runs without a switch.                                                  *)
(*                                                                         *)
(* The free list threaded through the blocks of a page is the sequence of  *)
(* their offsets.  Addresses are pairs of a page and an offset.            *)
(***************************************************************************)
EXTENDS Integers, Sequences, FiniteSets, SequencesExt, FiniteSetsExt

CONSTANTS
  THREADS,     \* the threads that use the heap
  PAGE_SIZE,
  SIZES,       \* the block sizes, increasing; the last is LARGEST_SUBPAGE_SIZE
  NPAGEREFS,
  NPAGES,      \* pages of memory, without those of the coremap and page table
  REQUESTS     \* the sizes callers ask for

ASSUME HeapAssumption ==
  /\ PAGE_SIZE \in Nat \ {0} /\ NPAGEREFS \in Nat /\ NPAGES \in Nat
  /\ SIZES \in Seq(1 .. PAGE_SIZE) /\ SIZES # <<>>
  /\ \A i \in DOMAIN SIZES : PAGE_SIZE % SIZES[i] = 0
  /\ \A i, j \in DOMAIN SIZES : i < j => SIZES[i] < SIZES[j]
  /\ REQUESTS \subseteq Nat \ {0}

VARIABLES
  pagerefs,    \* the pageref structures
  inuse,       \* pagerefs_inuse
  sizebases,   \* for each size, its pagerefs
  allbase,     \* all pagerefs with a page
  npages,      \* page_table[].npages: 0 for a free page
  stolen,      \* pages that ram_stealmem() gave away before coremap_bootstrap()
  booted,      \* coremap_bootstrap() has run
  live,        \* the pointers callers hold
  at,          \* where each thread is
  panicked     \* an assertion failed or panic() was called

heapvars == <<pagerefs, inuse, sizebases, allbase, npages, stolen, booted,
              live, at, panicked>>

Refs == 1 .. NPAGEREFS
Pages == 1 .. NPAGES
Types == DOMAIN SIZES
LARGEST_SUBPAGE_SIZE == SIZES[Len(SIZES)]
Running == [in |-> "caller"]
NoPage == [page |-> 0, type |-> 1, free |-> <<>>, nfree |-> 0]

\* A pointer: a block of a page cut up for its size, or n whole pages.
Block(p, off, type) == [page |-> p, off |-> off, len |-> SIZES[type]]
Chunk(p, n) == [page |-> p, off |-> 0, len |-> n * PAGE_SIZE]

-----------------------------------------------------------------------------
(* Pages: alloc_kpages() and free_kpages().                                *)

\* The first page of the first run of n free pages, 0 if there is none.
get_free_kpages(n) ==
  LET runs == {p \in Pages : /\ p + n - 1 <= NPAGES
                             /\ \A i \in p .. p + n - 1 : i > stolen /\ npages[i] = 0}
  IN IF runs = {} THEN 0 ELSE Min(runs)

\* Before coremap_bootstrap() memory is taken from the bottom for good.
ram_stealmem(n) == stolen + 1

\* There is memory for what the kernel allocates before coremap_bootstrap().
\* If there were not, is_coremap_initialized() would turn the 0 that
\* ram_stealmem() returns into the address of the exception handlers.
BootFits(n) == booted \/ stolen + n <= NPAGES

alloc_kpages(n) == IF booted THEN get_free_kpages(n) ELSE ram_stealmem(n)

\* What alloc_kpages() does to the page tables when it returns p.
TakePages(p, n) ==
  IF booted
    THEN /\ npages' = [i \in Pages |-> IF i \in p .. p + n - 1 THEN n - (i - p)
                                       ELSE npages[i]]
         /\ UNCHANGED stolen
    ELSE /\ stolen' = stolen + n
         /\ UNCHANGED npages

\* Frees the chunk that starts at p; stolen pages are in no table.
free_kpages(p) ==
  npages' = [i \in Pages |-> IF i \in p .. p + npages[p] - 1 THEN 0 ELSE npages[i]]

-----------------------------------------------------------------------------
(* Blocks.                                                                 *)

\* The smallest size that fits; there is none above the largest.
blocktype(sz) == IF sz > LARGEST_SUBPAGE_SIZE THEN 0
                 ELSE Min({i \in Types : sz <= SIZES[i]})

\* The free list of a new page: the blocks from the last to the first.
FreshList(type) == [i \in 1 .. PAGE_SIZE \div SIZES[type] |->
                      PAGE_SIZE - i * SIZES[type]]

\* The first free block of pageref r, as it stands in prs, is handed out.
doalloc(prs, r) ==
  /\ pagerefs' = [prs EXCEPT ![r].free = Tail(@), ![r].nfree = @ - 1]
  /\ live' = live \cup {Block(prs[r].page, Head(prs[r].free), prs[r].type)}
  /\ panicked' = (panicked \/ (Tail(prs[r].free) = <<>>) # (prs[r].nfree = 1))

\* The first pageref not in use.
allocpageref(r) ==
  /\ inuse # Refs
  /\ r = Min(Refs \ inuse)
  /\ inuse' = inuse \cup {r}

\* The call returns NULL or panics: nothing but the caller's place changes.
GiveUp(t, bad) ==
  /\ at' = [at EXCEPT ![t] = Running]
  /\ panicked' = (panicked \/ bad)
  /\ UNCHANGED <<pagerefs, sizebases, allbase, npages, stolen, booted, live>>

\* Up to the call of alloc_kpages().
subpage_kmalloc(t, sz) ==
  LET type == blocktype(sz)
      avail == SelectSeq(sizebases[type], LAMBDA r : pagerefs[r].nfree > 0)
  IN \/ /\ type = 0
        /\ GiveUp(t, TRUE)
        /\ UNCHANGED inuse
     \/ /\ type # 0 /\ avail # <<>>
        /\ doalloc(pagerefs, Head(avail))
        /\ UNCHANGED <<inuse, sizebases, allbase, npages, stolen, booted, at>>
     \/ /\ type # 0 /\ avail = <<>> /\ inuse = Refs
        /\ GiveUp(t, FALSE)
        /\ UNCHANGED inuse
     \/ /\ type # 0 /\ avail = <<>>
        /\ \E r \in Refs :
             /\ allocpageref(r)
             /\ at' = [at EXCEPT ![t] = [in |-> "subpage", type |-> type, ref |-> r]]
        /\ UNCHANGED <<pagerefs, sizebases, allbase, npages, stolen, booted,
                       live, panicked>>

\* Mutant of NoPageForRef: the pageref is kept.
NoPageForRef_kept(t) == GiveUp(t, FALSE) /\ UNCHANGED inuse

\* alloc_kpages(1) failed.
NoPageForRef(t) == GiveUp(t, FALSE) /\ inuse' = inuse \ {at[t].ref}

\* alloc_kpages(1) returned page p: it is cut up and put in front of both
\* lists, and the first block is allocated.
NewPage(t, p) ==
  LET r == at[t].ref
      type == at[t].type
      list == FreshList(type)
  IN /\ TakePages(p, 1)
     /\ doalloc([pagerefs EXCEPT ![r] = [page |-> p, type |-> type, free |-> list,
                                         nfree |-> Len(list)]], r)
     /\ sizebases' = [sizebases EXCEPT ![type] = <<r>> \o @]
     /\ allbase' = <<r>> \o allbase
     /\ at' = [at EXCEPT ![t] = Running]
     /\ UNCHANGED <<inuse, booted>>

\* The rest of subpage_kmalloc() once alloc_kpages() is done.
subpage_page(t) ==
  /\ at[t].in = "subpage" /\ BootFits(1)
  /\ LET p == alloc_kpages(1) IN
       \/ p = 0 /\ NoPageForRef(t)
       \/ p # 0 /\ NewPage(t, p)

kmalloc(t, sz) ==
  /\ at[t] = Running
  /\ \/ /\ sz >= LARGEST_SUBPAGE_SIZE
        /\ at' = [at EXCEPT ![t] = [in |-> "chunk",
                                    n |-> (sz + PAGE_SIZE - 1) \div PAGE_SIZE]]
        /\ UNCHANGED <<pagerefs, inuse, sizebases, allbase, npages, stolen,
                       booted, live, panicked>>
     \/ sz < LARGEST_SUBPAGE_SIZE /\ subpage_kmalloc(t, sz)

\* alloc_kpages(npages) returns to kmalloc().
kmalloc_pages(t) ==
  /\ at[t].in = "chunk" /\ BootFits(at[t].n)
  /\ LET p == alloc_kpages(at[t].n) IN
       \/ p = 0 /\ GiveUp(t, FALSE) /\ UNCHANGED inuse
       \/ /\ p # 0
          /\ TakePages(p, at[t].n)
          /\ live' = live \cup {Chunk(p, at[t].n)}
          /\ at' = [at EXCEPT ![t] = Running]
          /\ UNCHANGED <<pagerefs, inuse, sizebases, allbase, booted, panicked>>

-----------------------------------------------------------------------------
(* kfree().                                                                *)

\* Takes r off both lists.
remove_lists(r) ==
  LET Others(list) == SelectSeq(list, LAMBDA x : x # r)
  IN /\ sizebases' = [sizebases EXCEPT ![pagerefs[r].type] = Others(@)]
     /\ allbase' = Others(allbase)

\* What a pageref holds while it is not in use is never read.
freepageref(r) ==
  /\ inuse' = inuse \ {r}
  /\ pagerefs' = [pagerefs EXCEPT ![r] = NoPage]

\* The last block of the page of r is free again.
FreePage(r) ==
  /\ remove_lists(r)
  /\ free_kpages(pagerefs[r].page)
  /\ freepageref(r)

\* A block goes in front of the free list.
FreeBlock(ptr, r) ==
  /\ pagerefs' = [pagerefs EXCEPT ![r].free = <<ptr.off>> \o @, ![r].nfree = @ + 1]
  /\ UNCHANGED <<sizebases, allbase, npages, inuse>>

\* ptr is on the page of pageref r.
subpage_kfree(ptr, r) ==
  LET pr == pagerefs[r]
      all == PAGE_SIZE \div SIZES[pr.type]
  IN /\ panicked' = (panicked \/ ptr.off % SIZES[pr.type] # 0 \/ pr.nfree + 1 > all)
     /\ \/ pr.nfree + 1 = all /\ FreePage(r)
        \/ pr.nfree + 1 # all /\ FreeBlock(ptr, r)

\* The subpage allocator is asked first; what is on none of its pages is a
\* chunk of whole pages.
kfree(t, ptr) ==
  LET on == SelectSeq(allbase, LAMBDA r : pagerefs[r].page = ptr.page) IN
    /\ at[t] = Running
    /\ live' = live \ {ptr}
    /\ \/ on # <<>> /\ subpage_kfree(ptr, Head(on))
       \/ /\ on = <<>>
          /\ free_kpages(ptr.page)
          /\ panicked' = (panicked \/ ptr.off # 0)
          /\ UNCHANGED <<pagerefs, inuse, sizebases, allbase>>
    /\ UNCHANGED <<stolen, booted, at>>

\* vm_bootstrap(): the page table takes over the memory that is left.
coremap_bootstrap ==
  /\ ~booted
  /\ \A t \in THREADS : at[t] = Running
  /\ booted' = TRUE
  /\ UNCHANGED <<pagerefs, inuse, sizebases, allbase, npages, stolen, live, at,
                 panicked>>

HeapInit ==
  /\ pagerefs = [r \in Refs |-> NoPage]
  /\ inuse = {}
  /\ sizebases = [i \in Types |-> <<>>]
  /\ allbase = <<>>
  /\ npages = [p \in Pages |-> 0]
  /\ stolen = 0
  /\ booted = FALSE
  /\ live = {}
  /\ at = [t \in THREADS |-> Running]
  /\ panicked = FALSE

\* There is one thread until coremap_bootstrap().
HeapNext ==
  \/ \E t \in THREADS :
       /\ booted \/ \A u \in THREADS \ {t} : at[u] = Running
       /\ \/ \E sz \in REQUESTS : kmalloc(t, sz)
          \/ subpage_page(t)
          \/ kmalloc_pages(t)
          \/ \E ptr \in live : kfree(t, ptr)
  \/ coremap_bootstrap

HeapSpec == HeapInit /\ [][HeapNext]_heapvars

-----------------------------------------------------------------------------
(* Properties.                                                             *)

\* The pages a pointer covers.
PagesOf(ptr) == ptr.page .. ptr.page + (ptr.off + ptr.len - 1) \div PAGE_SIZE

\* Two callers never hold overlapping memory, and what they hold is memory
\* the page allocator considers taken, whatever happened to the heap while
\* they were asleep in alloc_kpages().
BlocksDisjoint ==
  /\ \A p, q \in live :
       \/ p = q
       \/ PagesOf(p) \cap PagesOf(q) = {}
       \/ p.page = q.page /\ (p.off + p.len <= q.off \/ q.off + q.len <= p.off)
  /\ \A p \in live, i \in Pages : i \in PagesOf(p) => i <= stolen \/ npages[i] > 0

\* On every page of the subpage allocator each block is either held by a
\* caller or on the free list, once, and nfree counts the latter: what
\* checksubpage() asserts, and that no block is lost.
PageBlocksKept ==
  \A r \in Range(allbase) :
    LET pr == pagerefs[r]
        held == {p.off : p \in {q \in live : q.page = pr.page}}
    IN /\ pr.nfree = Len(pr.free)
       /\ IsInjective(pr.free)
       /\ Range(pr.free) \cap held = {}
       /\ Range(pr.free) \cup held = {i * SIZES[pr.type] : i \in 0 .. (PAGE_SIZE \div SIZES[pr.type]) - 1}

\* Both lists hold the same pagerefs (the assertion of checksubpages()), a
\* pageref in use is on them or reserved by one thread that is asleep, and
\* every page taken belongs to a pageref or to a caller: failed allocations
\* and concurrent ones leak neither pages nor pagerefs.
PagesAccounted ==
  LET reserved == {t \in THREADS : at[t].in = "subpage"}
      paged == {pagerefs[r].page : r \in Range(allbase)}
  IN /\ IsInjective(allbase)
     /\ \A i \in Types : /\ IsInjective(sizebases[i])
                         /\ Range(sizebases[i]) = {r \in Range(allbase) : pagerefs[r].type = i}
     /\ Cardinality(paged) = Len(allbase)
     /\ Cardinality({at[t].ref : t \in reserved}) = Cardinality(reserved)
     /\ inuse = Range(allbase) \cup {at[t].ref : t \in reserved}
     /\ Len(allbase) + Cardinality(reserved) = Cardinality(inuse)
     /\ \A i \in Pages : npages[i] > 0 => i \in paged \/ \E p \in live : i \in PagesOf(p)

\* The heap is whole between any two steps of any threads: memory is given to
\* one caller at a time, none is lost, and no assertion of the allocator fails,
\* for any sequence of requests, failures and frees.
HeapSound == BlocksDisjoint /\ PageBlocksKept /\ PagesAccounted /\ ~panicked
=============================================================================
