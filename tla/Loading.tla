------------------------------ MODULE Loading ------------------------------
(***************************************************************************)
(* A program from its executable: load_elf() and load_segment() of         *)
(* kern/userprog/loadelf.c, the segments of kern/vm/segments.c and         *)
(* kern/vm/addrspace.c, the slots of the TLB of kern/vm/vm_tlb.c and the   *)
(* counters of kern/vm/uw-vmstats.c.                                       *)
(*                                                                         *)
(* One process with memory enough (Paging has the rest).  Addresses and    *)
(* file offsets count bytes.  Byte o of the file holds o + 1; memory       *)
(* nobody wrote holds JUNK.  Another process may run whenever this one     *)
(* sleeps for the disk, and then the TLB is empty.                         *)
(***************************************************************************)
EXTENDS Integers, Sequences, SequencesExt, FiniteSetsExt

CONSTANTS
  PAGE,         \* PAGE_SIZE of the user's pages
  NUM_TLB,
  EXES,         \* the executables: see Phdr
  USERSTACK,    \* the end of the stack
  STACKPAGES,
  MAXFAULTS     \* bound on the page faults of a behaviour

ASSUME LoadingAssumption ==
  PAGE \in Nat \ {0} /\ NUM_TLB \in Nat \ {0} /\ USERSTACK \in Nat

VARIABLES
  exe,          \* the executable
  stage,        \* where the process is
  as,           \* its address space
  pt,           \* the pages in memory
  tlb, m_next_victim,
  stats,        \* stats_counts
  botched       \* pages for which vm_fault() returned an error
loadvars == <<exe, stage, as, pt, tlb, m_next_victim, stats, botched>>

JUNK_BYTE == 0 - 1
Slots == 0 .. NUM_TLB - 1
Invalid == [valid |-> FALSE, page |-> 0, dirty |-> FALSE]
Entry(v, dirty) == [valid |-> TRUE, page |-> v, dirty |-> dirty]
Base(a) == a - (a % PAGE)
At(s) == [at |-> s]

-----------------------------------------------------------------------------
(* load_elf().  A program header gives a segment's type, place in memory   *)
(* and in the file, both sizes and whether it may be written.              *)

Fails(rc) == stage' = [at |-> "failed", rc |-> rc] /\ UNCHANGED as

\* The executable header: a read error, a file too short, a wrong one.
Header(error) ==
  /\ stage = At("header")
  /\ \/ error /\ Fails("EIO")
     \/ ~error /\ ~exe.magic /\ Fails("ENOEXEC")
     \/ /\ ~error /\ exe.magic
        /\ stage' = [at |-> "phdr", i |-> 1]
        /\ UNCHANGED as
  /\ UNCHANGED <<exe, pt, tlb, m_next_victim, stats, botched>>

\* The segment starts at the page of its address, but keeps its own size
\* and offset.
as_define_region(ph) ==
  [sd_vbase |-> Base(ph.vaddr), sd_segsz |-> ph.memsz, sd_flags |-> ph.w,
   sd_offset |-> ph.offset]

\* The next program header.
Phdr(error) ==
  LET ph == exe.phdrs[stage.i] IN
  /\ stage.at = "phdr" /\ stage.i <= Len(exe.phdrs)
  /\ \/ error /\ Fails("EIO")
     \/ ~error /\ ph.type = "unknown" /\ Fails("ENOEXEC")
     \/ ~error /\ ph.type = "load" /\ ph.vaddr > USERSTACK /\ Fails("EINVAL")
     \/ /\ ~error /\ ph.type = "skip"
        /\ stage' = [stage EXCEPT !.i = @ + 1]
        /\ UNCHANGED as
     \/ /\ ~error /\ ph.type = "load" /\ ph.vaddr <= USERSTACK
        /\ stage' = [stage EXCEPT !.i = @ + 1]
        /\ as' = [as EXCEPT !.as_segments = Append(@, as_define_region(ph))]
  /\ UNCHANGED <<exe, pt, tlb, m_next_victim, stats, botched>>

\* After the last: as_prepare_load(), as_complete_load(), as_define_stack().
as_prepare_load ==
  /\ stage.at = "phdr" /\ stage.i > Len(exe.phdrs)
  /\ as' = [as EXCEPT !.stackt = USERSTACK, !.stackb = USERSTACK - STACKPAGES * PAGE]
  /\ stage' = At("run")
  /\ UNCHANGED <<exe, pt, tlb, m_next_victim, stats, botched>>

-----------------------------------------------------------------------------
(* The TLB.                                                                *)

SlotsOf(v) == {i \in Slots : tlb[i].valid /\ tlb[i].page = v}

Unused == {i \in Slots : ~tlb[i].valid}
TlbSlot == IF Unused # {} THEN Min(Unused) ELSE m_next_victim

\* The counters that tlb_write() increments.
FaultStats(s) == [s EXCEPT !.faults = @ + 1, !.free = @ + (IF Unused # {} THEN 1 ELSE 0),
                           !.replace = @ + (IF Unused = {} THEN 1 ELSE 0)]

\* The first free slot, or the victim.
tlb_write(v, dirty) ==
  /\ tlb' = [tlb EXCEPT ![TlbSlot] = Entry(v, dirty)]
  /\ m_next_victim' = IF Unused # {} THEN m_next_victim ELSE (m_next_victim + 1) % NUM_TLB

\* Mutant of tlb_update: the entry goes to the victim's slot.
tlb_update_victim(v) == tlb' = [tlb EXCEPT ![m_next_victim] = Entry(v, TRUE)]

\* The entries of v become writable.
tlb_update(v) == tlb' = [i \in Slots |-> IF i \in SlotsOf(v) THEN Entry(v, TRUE) ELSE tlb[i]]

\* The entry loses its write permission if its page is of the segment.
tlb_set_read_only(t, sd, i) ==
  LET mine == t[i].valid /\ t[i].page >= sd.sd_vbase /\ t[i].page < sd.sd_vbase + sd.sd_segsz
  IN [ok |-> mine, tlb |-> IF mine THEN [t EXCEPT ![i].dirty = FALSE] ELSE t]

tlb_invalidate == tlb' = [i \in Slots |-> Invalid] /\ m_next_victim' = 0

\* as_activate() after another process ran: by the clock, or while this one
\* slept for the disk.
Switched ==
  /\ stage.at \in {"run", "loading"} /\ \E i \in Slots : tlb[i].valid
  /\ tlb_invalidate
  /\ UNCHANGED <<exe, stage, as, pt, stats, botched>>

-----------------------------------------------------------------------------
(* vm_fault() for page v.                                                  *)

\* The first segment that the page is in; its end counts as inside.
sd_get_by_addr(v) ==
  SelectSeq(as.as_segments, LAMBDA sd : sd.sd_vbase <= v /\ v <= sd.sd_vbase + sd.sd_segsz)

\* Mutant of FilePage: every page comes from the start of the segment.
FilePage_first(sd, v) ==
  LET segsize == Min({sd.sd_vbase + sd.sd_segsz - v, PAGE})
  IN [offset |-> sd.sd_offset, size |-> segsize]

\* What part of the file the page comes from.
FilePage(sd, v) ==
  LET segsize == Min({sd.sd_vbase + sd.sd_segsz - v, PAGE})
      curpage == (v - sd.sd_vbase) \div PAGE
  IN [offset |-> sd.sd_offset + curpage * PAGE, size |-> segsize]

\* The page after load_segment(): what the file has of it, then as many zeros
\* as the part is smaller than a page.
load_segment(part) ==
  LET n == Max({0, Min({part.size, exe.len - part.offset})})
      zeros == PAGE - part.size
  IN [k \in 0 .. PAGE - 1 |-> IF k < n THEN part.offset + k + 1
                              ELSE IF k < n + zeros THEN 0 ELSE JUNK_BYTE]

\* vm_fault() returns an error: EFAULT to a copy, the end to the program.
FaultFails(kernel) ==
  stage' = IF kernel THEN At("run") ELSE [at |-> "exited", rc |-> "EFAULT"]

\* The page is in memory.
Reload(v) ==
  /\ v \in DOMAIN pt
  /\ tlb_write(v, FALSE)
  /\ stats' = [FaultStats(stats) EXCEPT !.reloads = @ + 1]
  /\ UNCHANGED <<stage, pt, botched>>

FreshPage(v, w, byte) == [u \in DOMAIN pt \cup {v} |->
                    IF u = v THEN [w |-> w, bytes |-> [k \in 0 .. PAGE - 1 |-> byte]] ELSE pt[u]]

\* A page of a segment: it is allocated, mapped writable, and read.
FaultSegment(v, kernel) ==
  LET sds == sd_get_by_addr(v) IN
  /\ v \notin DOMAIN pt /\ sds # <<>>
  /\ pt' = FreshPage(v, Head(sds).sd_flags, JUNK_BYTE)
  /\ tlb_write(v, TRUE)
  /\ stats' = FaultStats(stats)
  /\ stage' = [at |-> "loading", page |-> v, storeloc |-> TlbSlot, kernel |-> kernel,
               sd |-> Head(sds)]
  /\ UNCHANGED botched

\* A page of the stack: cleared, which makes its entry writable.
FaultStack(v) ==
  /\ v \notin DOMAIN pt /\ sd_get_by_addr(v) = <<>>
  /\ v >= as.stackb /\ v <= as.stackt
  /\ pt' = FreshPage(v, TRUE, 0)
  /\ tlb_write(v, TRUE)
  /\ stats' = [FaultStats(stats) EXCEPT !.zeroed = @ + 1]
  /\ UNCHANGED <<stage, botched>>

FaultNothing(v, kernel) ==
  /\ v \notin DOMAIN pt /\ sd_get_by_addr(v) = <<>>
  /\ ~ (v >= as.stackb /\ v <= as.stackt)
  /\ FaultFails(kernel)
  /\ UNCHANGED <<pt, tlb, m_next_victim, stats, botched>>

\* A write to a page that is mapped for reading.
FaultReadOnly(v) ==
  /\ \/ pt[v].w /\ tlb_update(v) /\ UNCHANGED stage
     \/ ~pt[v].w /\ FaultFails(FALSE) /\ UNCHANGED tlb
  /\ UNCHANGED <<pt, m_next_victim, stats, botched>>

\* The program, or the kernel for it, touches page v.
Access(v, write, kernel) ==
  /\ stage = At("run") /\ stats.faults < MAXFAULTS
  /\ \/ /\ SlotsOf(v) = {}
        /\ Reload(v) \/ FaultSegment(v, kernel) \/ FaultStack(v) \/ FaultNothing(v, kernel)
     \/ /\ SlotsOf(v) # {} /\ write /\ \A i \in SlotsOf(v) : ~tlb[i].dirty
        /\ FaultReadOnly(v)
  /\ UNCHANGED <<exe, as>>

-----------------------------------------------------------------------------
(* The rest of vm_fault() when the disk has answered.                      *)

\* The read failed: the page and its entry stay.
LoadError ==
  /\ stage.at = "loading"
  /\ FaultFails(stage.kernel)
  /\ botched' = botched \cup {stage.page}
  /\ UNCHANGED <<exe, as, pt, tlb, m_next_victim, stats>>

\* The data is copied to the page, t being the TLB then, and the page made
\* read-only if its segment is.
Loaded(t, counts) ==
  LET v == stage.page
      ro == tlb_set_read_only(t, stage.sd, stage.storeloc)
      ok == stage.sd.sd_flags \/ ro.ok
  IN /\ pt' = [pt EXCEPT ![v].bytes = load_segment(FilePage(stage.sd, v))]
     /\ tlb' = IF stage.sd.sd_flags THEN t ELSE ro.tlb
     /\ stats' = [counts EXCEPT !.disk = @ + 1, !.elf = @ + 1]
     /\ IF ok THEN stage' = At("run") ELSE FaultFails(stage.kernel)
     /\ botched' = IF ok THEN botched ELSE botched \cup {v}

\* The TLB still has the page.
LoadDone ==
  /\ stage.at = "loading" /\ SlotsOf(stage.page) # {}
  /\ Loaded(tlb, stats)
  /\ UNCHANGED <<exe, as, m_next_victim>>

\* Another process ran: the copy takes a fault of its own, which maps the
\* page for reading, and then one for writing, fatal if it is read-only.
LoadSwitched ==
  LET counts == [FaultStats(stats) EXCEPT !.reloads = @ + 1]
      Mapped(dirty) == [tlb EXCEPT ![TlbSlot] = Entry(stage.page, dirty)]
  IN /\ stage.at = "loading" /\ SlotsOf(stage.page) = {}
     /\ \/ pt[stage.page].w /\ Loaded(Mapped(TRUE), counts)
        \/ /\ ~pt[stage.page].w
           /\ FaultFails(FALSE)
           /\ stats' = counts
           /\ tlb' = Mapped(FALSE)
           /\ UNCHANGED <<pt, botched>>
     /\ UNCHANGED <<exe, as, m_next_victim>>

-----------------------------------------------------------------------------
LoadStart(e) ==
  /\ exe = e
  /\ stage = At("header")
  /\ as = [as_segments |-> <<>>, stackt |-> 0, stackb |-> 0]
  /\ pt = [v \in {} |-> 0]
  /\ tlb = [i \in Slots |-> Invalid] /\ m_next_victim = 0
  /\ stats = [faults |-> 0, free |-> 0, replace |-> 0, reloads |-> 0, zeroed |-> 0,
              disk |-> 0, elf |-> 0]
  /\ botched = {}

LoadInit == \E e \in EXES : LoadStart(e)

LoadNext ==
  \/ \E error \in BOOLEAN : Header(error) \/ Phdr(error)
  \/ as_prepare_load
  \/ Switched
  \/ \E v \in {PAGE * n : n \in 0 .. USERSTACK \div PAGE - 1}, write, kernel \in BOOLEAN :
       Access(v, write, kernel)
  \/ LoadError \/ LoadDone \/ LoadSwitched

LoadSpec == LoadInit /\ [][LoadNext]_loadvars

-----------------------------------------------------------------------------
(* Properties.                                                             *)

Loads == {exe.phdrs[i] : i \in {j \in DOMAIN exe.phdrs : exe.phdrs[j].type = "load"}}
Running_ == stage = At("run")

\* The byte of memory at address a.
Memory_(a) == pt[Base(a)].bytes[a % PAGE]
Resident_(a) == Base(a) \in DOMAIN pt \ botched

\* Once a page is in memory, every byte that a page-aligned segment really
\* has in the file is at its address, whatever was touched first and whoever ran
\* while the disk was read.
LoadedAsFile ==
  Running_ => \A ph \in Loads : ph.vaddr % PAGE = 0 =>
    \A k \in 0 .. ph.filesz - 1 :
      Resident_(ph.vaddr + k) /\ ph.offset + k < exe.len
        => Memory_(ph.vaddr + k) = ph.offset + k + 1

\* A program never has a read-only page mapped for writing, although the
\* kernel maps it so while it loads it.
TextReadOnly ==
  Running_ => \A i \in Slots : tlb[i].valid /\ tlb[i].page \notin botched
                               => (tlb[i].dirty => pt[tlb[i].page].w)

\* The TLB has at most one entry for a page, and only of pages in memory.
TlbOneEntry ==
  \A i \in Slots : tlb[i].valid => /\ tlb[i].page \in DOMAIN pt
                                   /\ SlotsOf(tlb[i].page) = {i}

\* The sums that _vmstats_print() warns about come out equal between faults,
\* as long as no fault failed after its page was mapped.
StatsAddUp ==
  /\ stats.faults = stats.free + stats.replace
  /\ stats.disk = stats.elf
  /\ Running_ /\ botched = {} => stats.faults = stats.reloads + stats.zeroed + stats.disk

\* "FILESIZE may be less than MEMSIZE; if so the remaining portion of the
\* in-memory segment should be zero-filled" (loadelf.c): the program finds
\* zeros between the two sizes of its segments.
BssZeroed ==
  Running_ => \A ph \in Loads : ph.vaddr % PAGE = 0 =>
    \A k \in ph.filesz .. ph.memsz - 1 :
      Resident_(ph.vaddr + k) => Memory_(ph.vaddr + k) = 0
=============================================================================
