--------------------------- MODULE LoadingProofs ---------------------------
(***************************************************************************)
(* Proofs about Loading, for any executables, page size and TLB size.      *)
(***************************************************************************)
EXTENDS Loading, WellFoundedInduction, TLAPS

-----------------------------------------------------------------------------
(* The inductive invariant.                                                *)

Stat == [faults : Nat, free : Nat, replace : Nat, reloads : Nat, zeroed : Nat, disk : Nat,
         elf : Nat]
TlbEntry == [valid : BOOLEAN, page : Nat, dirty : BOOLEAN]

TlbType == tlb \in [Slots -> TlbEntry] /\ m_next_victim \in Slots

\* A page has its permission and its bytes.
PageRecords ==
  /\ pt = [v \in DOMAIN pt |-> pt[v]]
  /\ \A v \in DOMAIN pt : pt[v] = [w |-> pt[v].w, bytes |-> pt[v].bytes]

\* The entries of the TLB are of different pages, all in memory.
TlbPairs ==
  \A i, j \in Slots : tlb[i].valid /\ tlb[j].valid /\ tlb[i].page = tlb[j].page => i = j
TlbResident == \A i \in Slots : tlb[i].valid => tlb[i].page \in DOMAIN pt

\* Only the page that is being loaded may be writable and read-only.
OnlyWritable ==
  \A i \in Slots : /\ tlb[i].valid /\ tlb[i].dirty /\ tlb[i].page \notin botched
                   /\ ~ (stage.at = "loading" /\ tlb[i].page = stage.page)
                   => pt[tlb[i].page].w

\* While a page is read, its entry is the one vm_fault() remembers, or gone.
LoadingPage ==
  /\ botched \subseteq DOMAIN pt
  /\ stage.at = "loading" =>
       /\ stage.page \in DOMAIN pt \ botched /\ stage.storeloc \in Slots
       /\ stage.page \in Nat
       /\ pt[stage.page].w = stage.sd.sd_flags
       /\ \A i \in Slots : tlb[i].valid /\ tlb[i].page = stage.page => i = stage.storeloc

\* The fault being served is counted as one, and not yet as one of the disk.
Counted ==
  /\ stats \in Stat /\ stats.faults = stats.free + stats.replace /\ stats.disk = stats.elf
  /\ botched = {} /\ stage.at \in {"header", "phdr", "run", "loading"} =>
       stats.faults = stats.reloads + stats.zeroed + stats.disk
                        + (IF stage.at = "loading" THEN 1 ELSE 0)

\* The cursor over the program headers is a record with an index.
PhdrStage == stage.at = "phdr" => stage = [at |-> "phdr", i |-> stage.i]

TlbInv == TlbType /\ TlbPairs /\ TlbResident /\ OnlyWritable
LoadInv == TlbInv /\ PageRecords /\ LoadingPage /\ Counted /\ PhdrStage

-----------------------------------------------------------------------------
(* The slot that tlb_write() takes.                                        *)

\* A nonempty set of natural numbers has a least element.
LEMMA MinOfNats ==
  ASSUME NEW S \in SUBSET Nat, S # {}
  PROVE  Min(S) \in S
<1> DEFINE less == {ss \in Nat \X Nat : ss[1] < ss[2]}
<1>1. IsWellFoundedOn(less, Nat)
  BY NatLessThanWellFounded DEF OpToRel
<1>2. \E x \in S : \A y \in S : ~ (<<y, x>> \in less)
  <2> HIDE DEF less
  <2> QED
    BY <1>1, WFMin
<1>3. \A x, y \in Nat : y < x => <<y, x>> \in less
  OBVIOUS
<1>4. \E x \in S : \A y \in S : x =< y
  <2> HIDE DEF less
  <2>1. PICK x \in S : \A y \in S : ~ (<<y, x>> \in less)
    BY <1>2
  <2>2. \A y \in S : ~ (y < x)
    BY <1>3, <2>1
  <2> QED
    BY <2>2
<1> QED
  BY <1>4 DEF Min

\* It is a free one if there is one.
LEMMA SlotType ==
  ASSUME TlbType
  PROVE  TlbSlot \in Slots /\ (Unused # {} => TlbSlot \in Unused)
<1>1. Unused \in SUBSET Nat /\ Unused \subseteq Slots
  BY LoadingAssumption DEF Unused, Slots
<1> QED
  BY <1>1, MinOfNats DEF TlbSlot, TlbType

\* A page without an entry gets one, and the others keep theirs.
LEMMA WriteEntry ==
  ASSUME TlbType, TlbPairs, TlbResident, NEW v \in Nat, NEW d \in BOOLEAN, SlotsOf(v) = {},
         tlb' = [tlb EXCEPT ![TlbSlot] = Entry(v, d)],
         v \in DOMAIN pt', DOMAIN pt \subseteq DOMAIN pt'
  PROVE  /\ tlb' \in [Slots -> TlbEntry] /\ TlbPairs' /\ TlbResident'
         /\ tlb'[TlbSlot] = Entry(v, d)
         /\ \A i \in Slots \ {TlbSlot} : tlb'[i] = tlb[i] /\ ~ (tlb[i].valid /\ tlb[i].page = v)
<1>1. TlbSlot \in Slots
  BY SlotType
<1>2. Entry(v, d) \in TlbEntry /\ Entry(v, d).valid /\ Entry(v, d).page = v
  BY DEF Entry, TlbEntry
<1>3. /\ tlb' \in [Slots -> TlbEntry] /\ tlb'[TlbSlot] = Entry(v, d)
      /\ \A i \in Slots \ {TlbSlot} : tlb'[i] = tlb[i]
  BY <1>1, <1>2 DEF TlbType
<1>4. \A i \in Slots : ~ (tlb[i].valid /\ tlb[i].page = v)
  BY DEF SlotsOf
<1>5. TlbPairs'
  BY <1>1, <1>2, <1>3, <1>4 DEF TlbPairs
<1>6. TlbResident'
  BY <1>1, <1>2, <1>3 DEF TlbResident
<1> QED
  BY <1>3, <1>4, <1>5, <1>6

\* A fault counts one fault and one slot, free or replaced.
LEMMA FaultCounted ==
  ASSUME stats \in Stat, stats.faults = stats.free + stats.replace
  PROVE  LET s == FaultStats(stats)
         IN /\ s \in Stat /\ s.faults = stats.faults + 1 /\ s.faults = s.free + s.replace
            /\ s.reloads = stats.reloads /\ s.zeroed = stats.zeroed
            /\ s.disk = stats.disk /\ s.elf = stats.elf
<1> DEFINE f == IF Unused # {} THEN 1 ELSE 0
           r == IF Unused = {} THEN 1 ELSE 0
<1>1. f \in Nat /\ r \in Nat /\ f + r = 1
  OBVIOUS
<1>2. FaultStats(stats) = [stats EXCEPT !.faults = @ + 1, !.free = @ + f, !.replace = @ + r]
  BY DEF FaultStats
<1> HIDE DEF f, r
<1>3. FaultStats(stats) = [faults |-> stats.faults + 1, free |-> stats.free + f,
                           replace |-> stats.replace + r, reloads |-> stats.reloads,
                           zeroed |-> stats.zeroed, disk |-> stats.disk, elf |-> stats.elf]
  BY <1>2 DEF Stat
<1> QED
  BY <1>1, <1>3 DEF Stat

\* The next victim is a slot.
LEMMA VictimType ==
  ASSUME TlbType, NEW v, NEW d, tlb_write(v, d)
  PROVE  m_next_victim' \in Slots
<1>1. m_next_victim \in Nat /\ NUM_TLB \in Nat \ {0}
  BY LoadingAssumption DEF TlbType, Slots
<1>2. (m_next_victim + 1) % NUM_TLB \in 0 .. NUM_TLB - 1
  BY <1>1
<1> QED
  BY <1>2 DEF tlb_write, TlbType, Slots

-----------------------------------------------------------------------------
(* The steps.                                                              *)

\* load_elf(), and a fault for no page, leave memory and the TLB alone.
LEMMA QuietStep ==
  ASSUME LoadInv, UNCHANGED <<pt, tlb, m_next_victim, stats, botched>>,
         stage.at \in {"header", "phdr", "run"},
         stage'.at \in {"header", "phdr", "run", "failed", "exited"}, PhdrStage'
  PROVE  LoadInv'
<1>1. TlbInv'
  BY DEF LoadInv, TlbInv, TlbType, TlbPairs, TlbResident, OnlyWritable
<1>2. PageRecords'
  BY DEF LoadInv, PageRecords
<1>3. LoadingPage'
  BY DEF LoadInv, LoadingPage
<1>4. Counted'
  BY DEF LoadInv, Counted
<1> QED
  BY <1>1, <1>2, <1>3, <1>4 DEF LoadInv

\* The headers are read one by one.
LEMMA HeaderStep ==
  ASSUME LoadInv, (\E error \in BOOLEAN : Header(error) \/ Phdr(error)) \/ as_prepare_load
  PROVE  LoadInv'
<1>1. UNCHANGED <<pt, tlb, m_next_victim, stats, botched>>
  BY DEF Header, Phdr, as_prepare_load
<1>2. stage.at \in {"header", "phdr"}
  <2>1. ASSUME NEW error \in BOOLEAN, Header(error) PROVE stage.at = "header"
    BY <2>1 DEF Header, At
  <2>2. ASSUME NEW error \in BOOLEAN, Phdr(error) PROVE stage.at = "phdr"
    BY <2>2 DEF Phdr
  <2> QED
    BY <2>1, <2>2 DEF as_prepare_load
<1>3. stage'.at \in {"phdr", "run", "failed"} /\ PhdrStage'
  <2>1. ASSUME NEW error \in BOOLEAN, Header(error)
        PROVE  stage'.at \in {"phdr", "failed"} /\ PhdrStage'
    <3>1. CASE \E rc : Fails(rc)
      BY <3>1 DEF Fails, PhdrStage
    <3>2. CASE stage' = [at |-> "phdr", i |-> 1]
      BY <3>2 DEF PhdrStage
    <3> QED
      BY <2>1, <3>1, <3>2 DEF Header
  <2>2. ASSUME NEW error \in BOOLEAN, Phdr(error)
        PROVE  stage'.at \in {"phdr", "failed"} /\ PhdrStage'
    <3>1. stage = [at |-> "phdr", i |-> stage.i]
      BY <2>2 DEF Phdr, LoadInv, PhdrStage
    <3>2. CASE \E rc : Fails(rc)
      BY <3>2 DEF Fails, PhdrStage
    <3>3. CASE stage' = [stage EXCEPT !.i = @ + 1]
      <4>1. stage' = [at |-> "phdr", i |-> stage.i + 1]
        BY <3>1, <3>3
      <4> QED
        BY <4>1 DEF PhdrStage
    <3> QED
      BY <2>2, <3>2, <3>3 DEF Phdr
  <2>3. CASE as_prepare_load
    BY <2>3 DEF as_prepare_load, At, PhdrStage
  <2> QED
    BY <2>1, <2>2, <2>3
<1> QED
  BY <1>1, <1>2, <1>3, QuietStep

\* An empty TLB maps nothing.
LEMMA SwitchedStep ==
  ASSUME LoadInv, Switched
  PROVE  LoadInv'
<1>1. /\ tlb' = [i \in Slots |-> Invalid] /\ m_next_victim' = 0
      /\ UNCHANGED <<stage, pt, stats, botched>>
  BY DEF Switched, tlb_invalidate
<1>2. \A i \in Slots : tlb'[i] = Invalid /\ ~tlb'[i].valid
  BY <1>1 DEF Invalid
<1>3. TlbType'
  BY <1>1, LoadingAssumption DEF TlbType, TlbEntry, Slots, Invalid
<1>4. TlbInv'
  BY <1>2, <1>3 DEF TlbInv, TlbPairs, TlbResident, OnlyWritable
<1>5. LoadingPage'
  BY <1>1, <1>2 DEF LoadInv, LoadingPage
<1> QED
  BY <1>1, <1>4, <1>5 DEF LoadInv, PageRecords, Counted, PhdrStage

\* A page in memory is mapped again, for reading.
LEMMA ReloadStep ==
  ASSUME LoadInv, stage = At("run"), NEW v \in Nat, SlotsOf(v) = {}, Reload(v)
  PROVE  LoadInv'
<1> USE DEF LoadInv, TlbInv
<1>1. /\ tlb' = [tlb EXCEPT ![TlbSlot] = Entry(v, FALSE)] /\ v \in DOMAIN pt
      /\ UNCHANGED <<stage, pt, botched>> /\ stage.at = "run"
  BY DEF Reload, tlb_write, At
<1>2. /\ tlb' \in [Slots -> TlbEntry] /\ TlbPairs' /\ TlbResident'
      /\ tlb'[TlbSlot] = Entry(v, FALSE)
      /\ \A i \in Slots \ {TlbSlot} : tlb'[i] = tlb[i]
  BY <1>1, WriteEntry
<1>3. TlbType'
  BY <1>2, VictimType DEF Reload, TlbType
<1>4. OnlyWritable'
  BY <1>1, <1>2 DEF OnlyWritable, Entry
<1>5. LoadingPage'
  BY <1>1 DEF LoadingPage
<1>6. Counted'
  <2>1. stats' = [FaultStats(stats) EXCEPT !.reloads = @ + 1]
    BY DEF Reload
  <2> QED
    BY <1>1, <2>1, FaultCounted DEF Counted, Stat
<1> QED
  BY <1>1, <1>2, <1>3, <1>4, <1>5, <1>6 DEF PageRecords, PhdrStage

\* A new page comes with an entry; the pages there were stay as they are.
LEMMA FreshPageStep ==
  ASSUME LoadInv, NEW v \in Nat, NEW w, NEW byte, v \notin DOMAIN pt,
         SlotsOf(v) = {}, pt' = FreshPage(v, w, byte), tlb_write(v, TRUE), botched' = botched
  PROVE  /\ PageRecords' /\ TlbType' /\ TlbPairs' /\ TlbResident'
         /\ v \in DOMAIN pt' \ botched' /\ pt'[v].w = w /\ botched' \subseteq DOMAIN pt'
         /\ TlbSlot \in Slots /\ tlb'[TlbSlot] = Entry(v, TRUE)
         /\ \A i \in Slots \ {TlbSlot} : tlb'[i] = tlb[i] /\ ~ (tlb[i].valid /\ tlb[i].page = v)
         /\ \A u \in DOMAIN pt : pt'[u] = pt[u]
<1> USE DEF LoadInv, TlbInv
<1>1. /\ DOMAIN pt' = DOMAIN pt \cup {v} /\ pt'[v] = [w |-> w, bytes |-> [k \in 0 .. PAGE - 1 |-> byte]]
      /\ \A u \in DOMAIN pt : pt'[u] = pt[u]
      /\ pt' = [u \in DOMAIN pt' |-> pt'[u]]
  BY DEF FreshPage
<1>2. tlb' = [tlb EXCEPT ![TlbSlot] = Entry(v, TRUE)]
  BY DEF tlb_write
<1>3. /\ tlb' \in [Slots -> TlbEntry] /\ TlbPairs' /\ TlbResident'
      /\ tlb'[TlbSlot] = Entry(v, TRUE)
      /\ \A i \in Slots \ {TlbSlot} : tlb'[i] = tlb[i] /\ ~ (tlb[i].valid /\ tlb[i].page = v)
  BY <1>1, <1>2, WriteEntry
<1>4. TlbType'
  BY <1>3, VictimType DEF TlbType
<1>5. \A u \in DOMAIN pt' : pt'[u] = [w |-> pt'[u].w, bytes |-> pt'[u].bytes]
  BY <1>1 DEF PageRecords
<1>6. PageRecords'
  BY <1>1, <1>5 DEF PageRecords
<1>7. v \in DOMAIN pt' \ botched' /\ botched' \subseteq DOMAIN pt' /\ pt'[v].w = w
  BY <1>1 DEF LoadingPage
<1> QED
  BY <1>1, <1>3, <1>4, <1>6, <1>7, SlotType

\* A page of the stack may be written.
LEMMA StackStep ==
  ASSUME LoadInv, stage = At("run"), NEW v \in Nat, SlotsOf(v) = {}, FaultStack(v)
  PROVE  LoadInv'
<1>1. /\ v \notin DOMAIN pt /\ pt' = FreshPage(v, TRUE, 0) /\ tlb_write(v, TRUE)
      /\ stats' = [FaultStats(stats) EXCEPT !.zeroed = @ + 1]
      /\ UNCHANGED <<stage, botched>> /\ stage.at = "run"
  BY DEF FaultStack, At
<1>2. /\ PageRecords' /\ TlbType' /\ TlbPairs' /\ TlbResident'
      /\ pt'[v].w = TRUE /\ botched' \subseteq DOMAIN pt'
      /\ TlbSlot \in Slots /\ tlb'[TlbSlot] = Entry(v, TRUE)
      /\ \A i \in Slots \ {TlbSlot} : tlb'[i] = tlb[i] /\ ~ (tlb[i].valid /\ tlb[i].page = v)
      /\ \A u \in DOMAIN pt : pt'[u] = pt[u]
  BY <1>1, FreshPageStep
<1>3. OnlyWritable'
  <2> SUFFICES ASSUME NEW i \in Slots, tlb'[i].valid, tlb'[i].dirty, tlb'[i].page \notin botched
               PROVE  pt'[tlb'[i].page].w
    BY <1>1 DEF OnlyWritable
  <2>1. CASE i = TlbSlot
    BY <1>2, <2>1 DEF Entry
  <2>2. CASE i # TlbSlot
    <3>1. tlb'[i] = tlb[i]
      BY <1>2, <2>2
    <3>2. tlb[i].page \in DOMAIN pt /\ pt[tlb[i].page].w
      BY <1>1, <3>1 DEF OnlyWritable, LoadInv, TlbInv, TlbResident
    <3> QED
      BY <1>2, <3>1, <3>2
  <2> QED
    BY <2>1, <2>2
<1>4. LoadingPage'
  BY <1>1, <1>2 DEF LoadingPage
<1>5. Counted'
  BY <1>1, FaultCounted DEF LoadInv, Counted, Stat
<1> QED
  BY <1>1, <1>2, <1>3, <1>4, <1>5 DEF LoadInv, TlbInv, PhdrStage

\* A page of a segment may be written while it is loaded.
LEMMA SegmentStep ==
  ASSUME LoadInv, stage = At("run"), NEW v \in Nat, NEW kernel \in BOOLEAN, SlotsOf(v) = {},
         FaultSegment(v, kernel)
  PROVE  LoadInv'
<1> DEFINE sd == Head(sd_get_by_addr(v))
<1>1. /\ v \notin DOMAIN pt /\ pt' = FreshPage(v, sd.sd_flags, JUNK_BYTE) /\ tlb_write(v, TRUE)
      /\ stats' = FaultStats(stats) /\ botched' = botched /\ stage.at = "run"
  BY DEF FaultSegment, At
<1>2. /\ stage'.at = "loading" /\ stage'.page = v /\ stage'.storeloc = TlbSlot
      /\ stage'.sd = sd
  BY DEF FaultSegment
<1> HIDE DEF sd
<1>3. /\ PageRecords' /\ TlbType' /\ TlbPairs' /\ TlbResident'
      /\ v \in DOMAIN pt' \ botched' /\ pt'[v].w = sd.sd_flags /\ botched' \subseteq DOMAIN pt'
      /\ TlbSlot \in Slots /\ tlb'[TlbSlot] = Entry(v, TRUE)
      /\ \A i \in Slots \ {TlbSlot} : tlb'[i] = tlb[i] /\ ~ (tlb[i].valid /\ tlb[i].page = v)
      /\ \A u \in DOMAIN pt : pt'[u] = pt[u]
  BY <1>1, FreshPageStep
<1>4. OnlyWritable'
  <2> SUFFICES ASSUME NEW i \in Slots, tlb'[i].valid, tlb'[i].dirty,
                      tlb'[i].page \notin botched, tlb'[i].page # v
               PROVE  pt'[tlb'[i].page].w
    BY <1>1, <1>2 DEF OnlyWritable
  <2>1. i # TlbSlot
    BY <1>3 DEF Entry
  <2> QED
    BY <1>1, <1>3, <2>1 DEF OnlyWritable, LoadInv, TlbInv, TlbResident
<1>5. LoadingPage'
  <2>1. \A i \in Slots : tlb'[i].valid /\ tlb'[i].page = v => i = TlbSlot
    BY <1>3
  <2> QED
    BY <1>2, <1>3, <2>1 DEF LoadingPage
<1>6. Counted'
  BY <1>1, <1>2, FaultCounted DEF LoadInv, Counted, Stat
<1> QED
  BY <1>2, <1>3, <1>4, <1>5, <1>6 DEF LoadInv, TlbInv, PhdrStage

\* A first write makes the entry of a writable page writable.
LEMMA ReadOnlyStep ==
  ASSUME LoadInv, stage = At("run"), NEW v \in Nat, FaultReadOnly(v)
  PROVE  LoadInv'
<1> USE DEF LoadInv, TlbInv
<1>1. UNCHANGED <<pt, m_next_victim, stats, botched>> /\ stage.at = "run"
  BY DEF FaultReadOnly, At
<1>2. CASE FaultFails(FALSE) /\ UNCHANGED tlb
  <2>1. stage'.at = "exited"
    BY <1>2 DEF FaultFails
  <2> QED
    BY <1>1, <1>2, <2>1, QuietStep DEF PhdrStage
<1>3. CASE pt[v].w /\ tlb_update(v) /\ UNCHANGED stage
  <2>1. \A i \in Slots : IF tlb[i].valid /\ tlb[i].page = v THEN tlb'[i] = Entry(v, TRUE)
                                                           ELSE tlb'[i] = tlb[i]
    BY <1>3 DEF tlb_update, SlotsOf
  <2>2. Entry(v, TRUE) \in TlbEntry /\ Entry(v, TRUE).valid /\ Entry(v, TRUE).page = v
    BY DEF Entry, TlbEntry
  <2>3. \A i \in Slots : /\ tlb'[i] \in TlbEntry /\ tlb'[i].valid = tlb[i].valid
                         /\ tlb'[i].page = tlb[i].page
    BY <2>1, <2>2 DEF TlbType, TlbEntry
  <2>4. TlbType'
    BY <1>1, <1>3, <2>3 DEF TlbType, tlb_update
  <2>5. TlbPairs' /\ TlbResident'
    BY <1>1, <2>3 DEF TlbPairs, TlbResident
  <2>6. OnlyWritable'
    BY <1>1, <1>3, <2>1, <2>2 DEF OnlyWritable
  <2>7. LoadingPage'
    BY <1>1, <1>3 DEF LoadingPage
  <2> QED
    BY <1>1, <1>3, <2>4, <2>5, <2>6, <2>7 DEF PageRecords, Counted, PhdrStage
<1> QED
  BY <1>2, <1>3 DEF FaultReadOnly

\* A fault for no page fails.
LEMMA NothingStep ==
  ASSUME LoadInv, stage = At("run"), NEW v, NEW kernel \in BOOLEAN, FaultNothing(v, kernel)
  PROVE  LoadInv'
<1>1. stage.at = "run" /\ stage'.at \in {"run", "exited"}
  BY DEF FaultNothing, FaultFails, At
<1>2. UNCHANGED <<pt, tlb, m_next_victim, stats, botched>>
  BY DEF FaultNothing
<1> QED
  BY <1>1, <1>2, QuietStep DEF PhdrStage

\* A page that could not be read is given up.
LEMMA ErrorStep ==
  ASSUME LoadInv, LoadError
  PROVE  LoadInv'
<1> USE DEF LoadInv, TlbInv
<1>1. /\ stage.at = "loading" /\ botched' = botched \cup {stage.page}
      /\ UNCHANGED <<pt, tlb, m_next_victim, stats>>
  BY DEF LoadError
<1>2. stage'.at \in {"run", "exited"}
  BY DEF LoadError, FaultFails, At
<1>3. OnlyWritable'
  BY <1>1, <1>2 DEF OnlyWritable
<1>4. LoadingPage'
  BY <1>1, <1>2 DEF LoadingPage
<1>5. Counted'
  BY <1>1 DEF Counted
<1> QED
  BY <1>1, <1>2, <1>3, <1>4, <1>5 DEF TlbType, TlbPairs, TlbResident, PageRecords, PhdrStage

\* The entry of a read-only segment's page loses its permission, or the
\* fault fails; t is the TLB and counts are the counters after the read.
LEMMA LoadedStep ==
  ASSUME LoadInv, stage.at = "loading", UNCHANGED m_next_victim,
         NEW t \in [Slots -> TlbEntry], NEW counts \in Stat, Loaded(t, counts),
         \A i, j \in Slots : t[i].valid /\ t[j].valid /\ t[i].page = t[j].page => i = j,
         \A i \in Slots : t[i].valid => t[i].page \in DOMAIN pt,
         \A i \in Slots : t[i].valid /\ t[i].dirty /\ t[i].page \notin botched
                          /\ t[i].page # stage.page => pt[t[i].page].w,
         \A i \in Slots : t[i].valid /\ t[i].page = stage.page
                          => i = stage.storeloc \/ stage.sd.sd_flags,
         counts.faults = counts.free + counts.replace, counts.disk = counts.elf,
         botched = {} => counts.faults = counts.reloads + counts.zeroed + counts.disk + 1
  PROVE  LoadInv'
<1> USE DEF LoadInv, TlbInv
<1> DEFINE v == stage.page
           loc == stage.storeloc
           w == stage.sd.sd_flags
           ro == tlb_set_read_only(t, stage.sd, loc)
           page == load_segment(FilePage(stage.sd, v))
<1>1. /\ pt' = [pt EXCEPT ![v].bytes = page] /\ tlb' = (IF w THEN t ELSE ro.tlb)
      /\ stats' = [counts EXCEPT !.disk = @ + 1, !.elf = @ + 1]
      /\ IF w \/ ro.ok THEN stage' = At("run") /\ botched' = botched
                       ELSE FaultFails(stage.kernel) /\ botched' = botched \cup {v}
  BY DEF Loaded
<1>2. v \in DOMAIN pt \ botched /\ loc \in Slots /\ pt[v].w = w /\ botched \subseteq DOMAIN pt
  BY DEF LoadingPage
<1>3. ro.tlb = IF ro.ok THEN [t EXCEPT ![loc].dirty = FALSE] ELSE t
  BY DEF tlb_set_read_only
<1> HIDE DEF ro, page
<1>4. stage'.at \in {"run", "exited"}
  BY <1>1 DEF FaultFails, At
<1>5. /\ DOMAIN pt' = DOMAIN pt /\ \A u \in DOMAIN pt : pt'[u].w = pt[u].w
      /\ PageRecords'
  <2>1. pt'[v] = [w |-> pt[v].w, bytes |-> page] /\ \A u \in DOMAIN pt \ {v} : pt'[u] = pt[u]
    BY <1>1, <1>2 DEF PageRecords
  <2>2. DOMAIN pt' = DOMAIN pt /\ pt' = [u \in DOMAIN pt |-> pt'[u]]
    BY <1>1
  <2> QED
    BY <1>2, <2>1, <2>2 DEF PageRecords
<1>6. /\ tlb' \in [Slots -> TlbEntry]
      /\ \A i \in Slots : /\ tlb'[i].valid = t[i].valid /\ tlb'[i].page = t[i].page
                          /\ tlb'[i].dirty => t[i].dirty
      /\ ~w /\ ro.ok => ~tlb'[loc].dirty
  <2>1. [t EXCEPT ![loc].dirty = FALSE] \in [Slots -> TlbEntry]
    BY <1>2 DEF TlbEntry
  <2> QED
    BY <1>1, <1>2, <1>3, <2>1 DEF TlbEntry
<1>7. TlbType' /\ TlbPairs' /\ TlbResident'
  BY <1>5, <1>6 DEF TlbType, TlbPairs, TlbResident
<1>8. OnlyWritable'
  <2> SUFFICES ASSUME NEW i \in Slots, tlb'[i].valid, tlb'[i].dirty, tlb'[i].page \notin botched'
               PROVE  pt'[tlb'[i].page].w
    BY DEF OnlyWritable
  <2>1. t[i].valid /\ t[i].dirty /\ t[i].page = tlb'[i].page /\ t[i].page \in DOMAIN pt
        /\ t[i].page \notin botched
    BY <1>1, <1>6
  <2>2. CASE t[i].page # v
    BY <1>5, <2>1, <2>2
  <2>3. CASE t[i].page = v
    <3>1. w \/ ro.ok
      BY <1>1, <2>1, <2>3
    <3>2. w
      BY <1>6, <2>1, <2>3, <3>1
    <3> QED
      BY <1>2, <1>5, <2>1, <2>3, <3>2
  <2> QED
    BY <2>2, <2>3
<1>9. LoadingPage'
  BY <1>1, <1>2, <1>4, <1>5 DEF LoadingPage
<1>10. Counted'
  <2>1. stats' = [faults |-> counts.faults, free |-> counts.free, replace |-> counts.replace,
                  reloads |-> counts.reloads, zeroed |-> counts.zeroed,
                  disk |-> counts.disk + 1, elf |-> counts.elf + 1]
    BY <1>1 DEF Stat
  <2>2. stats' \in Stat /\ stats'.faults = stats'.free + stats'.replace /\ stats'.disk = stats'.elf
    BY <2>1 DEF Stat
  <2>3. botched' = {} => stats'.faults = stats'.reloads + stats'.zeroed + stats'.disk
    BY <1>1, <2>1 DEF Stat
  <2> QED
    BY <1>4, <2>2, <2>3 DEF Counted, Stat
<1> QED
  BY <1>4, <1>5, <1>7, <1>8, <1>9, <1>10 DEF PhdrStage

\* The page is read while its entry is there.
LEMMA DoneStep ==
  ASSUME LoadInv, LoadDone
  PROVE  LoadInv'
<1>1. stage.at = "loading" /\ Loaded(tlb, stats) /\ UNCHANGED m_next_victim
  BY DEF LoadDone
<1>2. tlb \in [Slots -> TlbEntry] /\ stats \in Stat
  BY DEF LoadInv, TlbInv, TlbType, Counted
<1>3. \A i \in Slots : tlb[i].valid /\ tlb[i].dirty /\ tlb[i].page \notin botched
                       /\ tlb[i].page # stage.page => pt[tlb[i].page].w
  BY DEF LoadInv, TlbInv, OnlyWritable
<1>4. \A i \in Slots : tlb[i].valid /\ tlb[i].page = stage.page => i = stage.storeloc
  BY <1>1 DEF LoadInv, LoadingPage
<1>5. /\ stats.faults = stats.free + stats.replace /\ stats.disk = stats.elf
      /\ botched = {} => stats.faults = stats.reloads + stats.zeroed + stats.disk + 1
  BY <1>1 DEF LoadInv, Counted
<1>6. /\ \A i, j \in Slots : tlb[i].valid /\ tlb[j].valid /\ tlb[i].page = tlb[j].page => i = j
      /\ \A i \in Slots : tlb[i].valid => tlb[i].page \in DOMAIN pt
  BY DEF LoadInv, TlbInv, TlbPairs, TlbResident
<1> QED
  BY <1>1, <1>2, <1>3, <1>4, <1>5, <1>6, LoadedStep

\* Its entry is gone: the copy maps it again, and fails on a read-only page.
LEMMA SwitchedLoadStep ==
  ASSUME LoadInv, LoadSwitched
  PROVE  LoadInv'
<1> USE DEF LoadInv, TlbInv
<1> DEFINE v == stage.page
           Mapped(d) == [tlb EXCEPT ![TlbSlot] = Entry(v, d)]
           counts == [FaultStats(stats) EXCEPT !.reloads = @ + 1]
<1>1. stage.at = "loading" /\ SlotsOf(v) = {} /\ UNCHANGED m_next_victim
  BY DEF LoadSwitched
<1>2. v \in Nat /\ v \in DOMAIN pt \ botched /\ pt[v].w = stage.sd.sd_flags
  BY <1>1 DEF LoadingPage
<1>3. /\ counts \in Stat /\ counts.faults = counts.free + counts.replace
      /\ counts.disk = counts.elf /\ counts.disk = stats.disk /\ counts.zeroed = stats.zeroed
      /\ counts.faults = stats.faults + 1 /\ counts.reloads = stats.reloads + 1
  BY FaultCounted DEF Counted, Stat
<1>4. botched = {} => counts.faults = counts.reloads + counts.zeroed + counts.disk + 1
  BY <1>1, <1>3 DEF Counted, Stat
<1>5. ASSUME NEW d \in BOOLEAN
      PROVE  /\ Mapped(d) \in [Slots -> TlbEntry] /\ TlbSlot \in Slots
             /\ Mapped(d)[TlbSlot] = Entry(v, d)
             /\ \A i \in Slots \ {TlbSlot} :
                  Mapped(d)[i] = tlb[i] /\ ~ (tlb[i].valid /\ tlb[i].page = v)
  <2>1. Entry(v, d) \in TlbEntry
    BY <1>2 DEF Entry, TlbEntry
  <2>2. \A i \in Slots : ~ (tlb[i].valid /\ tlb[i].page = v)
    BY <1>1 DEF SlotsOf
  <2> QED
    BY <2>1, <2>2, SlotType DEF TlbType
<1>6. CASE pt[v].w /\ Loaded(Mapped(TRUE), counts)
  <2> DEFINE t == Mapped(TRUE)
  <2>1. /\ t \in [Slots -> TlbEntry] /\ t[TlbSlot].valid /\ t[TlbSlot].page = v
        /\ \A i \in Slots \ {TlbSlot} : t[i] = tlb[i] /\ ~ (tlb[i].valid /\ tlb[i].page = v)
    BY <1>5 DEF Entry
  <2>2. Loaded(t, counts) /\ stage.sd.sd_flags
    BY <1>2, <1>6
  <2> HIDE DEF t, counts
  <2>3. \A i, j \in Slots : t[i].valid /\ t[j].valid /\ t[i].page = t[j].page => i = j
    BY <2>1 DEF TlbPairs
  <2>4. \A i \in Slots : t[i].valid => t[i].page \in DOMAIN pt
    BY <1>2, <2>1 DEF TlbResident
  <2>5. \A i \in Slots : t[i].valid /\ t[i].dirty /\ t[i].page \notin botched /\ t[i].page # v
                         => pt[t[i].page].w
    BY <2>1 DEF OnlyWritable
  <2> QED
    BY <1>1, <1>3, <1>4, <2>1, <2>2, <2>3, <2>4, <2>5, LoadedStep
<1>7. CASE FaultFails(FALSE) /\ stats' = counts /\ tlb' = Mapped(FALSE) /\ UNCHANGED <<pt, botched>>
  <2>1. stage'.at = "exited"
    BY <1>7 DEF FaultFails
  <2>2. /\ tlb' \in [Slots -> TlbEntry] /\ TlbPairs' /\ TlbResident'
        /\ tlb'[TlbSlot] = Entry(v, FALSE) /\ \A i \in Slots \ {TlbSlot} : tlb'[i] = tlb[i]
        /\ \A i \in Slots \ {TlbSlot} : ~ (tlb[i].valid /\ tlb[i].page = v)
    BY <1>1, <1>2, <1>7, WriteEntry
  <2>3. OnlyWritable'
    BY <1>7, <2>1, <2>2 DEF OnlyWritable, Entry
  <2>4. LoadingPage'
    BY <1>7, <2>1 DEF LoadingPage
  <2>5. Counted'
    BY <1>3, <1>7, <2>1 DEF Counted
  <2> QED
    BY <1>1, <1>7, <2>1, <2>2, <2>3, <2>4, <2>5 DEF TlbType, PageRecords, PhdrStage
<1> QED
  BY <1>6, <1>7 DEF LoadSwitched

-----------------------------------------------------------------------------
(* The theorem.                                                            *)

\* The invariant holds before the program is loaded.
LEMMA LoadInitInv == LoadInit => LoadInv
<1> SUFFICES ASSUME LoadInit PROVE LoadInv
  OBVIOUS
<1>1. /\ stage = At("header") /\ pt = [v \in {} |-> 0] /\ botched = {}
      /\ tlb = [i \in Slots |-> Invalid] /\ m_next_victim = 0
      /\ stats = [faults |-> 0, free |-> 0, replace |-> 0, reloads |-> 0, zeroed |-> 0,
                  disk |-> 0, elf |-> 0]
  BY DEF LoadInit, LoadStart
<1>2. stage.at = "header" /\ \A i \in Slots : tlb[i] = Invalid /\ ~tlb[i].valid
  BY <1>1 DEF At, Invalid
<1>3. TlbType
  BY <1>1, LoadingAssumption DEF TlbType, TlbEntry, Slots, Invalid
<1>4. TlbPairs /\ TlbResident /\ OnlyWritable
  BY <1>2 DEF TlbPairs, TlbResident, OnlyWritable
<1>5. PageRecords /\ LoadingPage /\ PhdrStage
  BY <1>1, <1>2 DEF PageRecords, LoadingPage, PhdrStage
<1>6. Counted
  BY <1>1, <1>2 DEF Counted, Stat
<1> QED
  BY <1>3, <1>4, <1>5, <1>6 DEF LoadInv, TlbInv

\* Every step keeps it.
LEMMA LoadNextInv == LoadInv /\ [LoadNext]_loadvars => LoadInv'
<1> SUFFICES ASSUME LoadInv, [LoadNext]_loadvars PROVE LoadInv'
  OBVIOUS
<1>1. ASSUME NEW v \in {PAGE * n : n \in 0 .. USERSTACK \div PAGE - 1},
             NEW write \in BOOLEAN, NEW kernel \in BOOLEAN, Access(v, write, kernel)
      PROVE  LoadInv'
  <2>1. v \in Nat
    <3>1. PICK n \in 0 .. USERSTACK \div PAGE - 1 : v = PAGE * n
      OBVIOUS
    <3>2. n \in Nat /\ PAGE \in Nat
      BY LoadingAssumption
    <3> QED
      BY <3>1, <3>2
  <2>2. stage = At("run")
    BY <1>1 DEF Access
  <2>3. CASE SlotsOf(v) = {} /\ (Reload(v) \/ FaultSegment(v, kernel) \/ FaultStack(v)
                                 \/ FaultNothing(v, kernel))
    BY <2>1, <2>2, <2>3, ReloadStep, SegmentStep, StackStep, NothingStep
  <2>4. CASE FaultReadOnly(v)
    BY <2>1, <2>2, <2>4, ReadOnlyStep
  <2> QED
    BY <1>1, <2>3, <2>4 DEF Access
<1>2. CASE UNCHANGED loadvars
  BY <1>2 DEF loadvars, LoadInv, TlbInv, TlbType, TlbPairs, TlbResident, OnlyWritable,
              PageRecords, LoadingPage, Counted, PhdrStage
<1> QED
  BY <1>1, <1>2, HeaderStep, SwitchedStep, ErrorStep, DoneStep, SwitchedLoadStep DEF LoadNext

\* So it always holds.
LEMMA LoadAlways == LoadSpec => []LoadInv
BY LoadInitInv, LoadNextInv, PTL DEF LoadSpec

\* For any executables, page size and number of slots, the TLB never has two
\* entries for a page, nor one for a page that is not in memory.
THEOREM OneEntryPerPage == LoadSpec => []TlbOneEntry
<1>1. LoadInv => TlbOneEntry
  BY DEF LoadInv, TlbInv, TlbPairs, TlbResident, TlbOneEntry, SlotsOf
<1> QED
  BY <1>1, LoadAlways, PTL

\* The program never has a read-only page mapped for writing, although
\* vm_fault() maps it so while it reads the page.
THEOREM TextStaysReadOnly == LoadSpec => []TextReadOnly
<1>1. LoadInv => TextReadOnly
  BY DEF LoadInv, TlbInv, OnlyWritable, TextReadOnly, Running_, At
<1> QED
  BY <1>1, LoadAlways, PTL

\* The sums that _vmstats_print() tests come out, however the faults and the
\* other processes' turns follow each other.
THEOREM CountersAgree == LoadSpec => []StatsAddUp
<1>1. LoadInv => StatsAddUp
  <2> SUFFICES ASSUME LoadInv PROVE StatsAddUp
    OBVIOUS
  <2>1. stage = At("run") => stage.at = "run"
    BY DEF At
  <2> QED
    BY <2>1 DEF LoadInv, Counted, StatsAddUp, Running_, Stat
<1> QED
  BY <1>1, LoadAlways, PTL
=============================================================================
