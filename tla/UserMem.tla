------------------------------ MODULE UserMem ------------------------------
(***************************************************************************)
(* The kernel's access to user memory: copyin(), copyout(), copyinstr()    *)
(* and copyoutstr() of kern/lib/copyinout.c, and what mips_trap() of       *)
(* kern/arch/mips/mips/trap.c does with the faults they take.              *)
(*                                                                         *)
(* One thread, since the pcb and the address space are its own.  frames    *)
(* are the copies in progress, outermost first: a copy that touches a page *)
(* of the executable for the first time waits while vm_fault() loads it,   *)
(* which is a copyout() of its own.  Pages have one byte, 0 or 1.          *)
(***************************************************************************)
EXTENDS Integers, Sequences, SequencesExt, FiniteSetsExt

CONSTANTS
  ADDRESSES,   \* how many addresses there are; they wrap around
  USERTOP,     \* the first that is not the user's
  LENS,        \* lengths of copies
  LAYOUTS      \* what the user's pages are; see Kinds

ASSUME UserMemAssumption ==
  /\ ADDRESSES \in Nat /\ USERTOP \in 1 .. ADDRESSES - 1
  /\ LENS \subseteq 0 .. ADDRESSES - 1

VARIABLES
  kind,        \* for each user page, what it is
  umem,        \* and the byte in it
  frames,
  badfault,    \* pcb_badfaultfunc is set
  copyjmp,     \* pcb_copyjmp: the frame whose setjmp() was last
  last,        \* the last copy of a system call that ended
  exited,
  crashed
copyvars == <<kind, umem, frames, badfault, copyjmp, last, exited, crashed>>

\* Writable or not, in memory or still to be loaded, and no page at all.
Kinds == {"data", "text", "newdata", "newtext", "hole"}
User == 0 .. USERTOP - 1
Nothing == [len |-> 0]
EFAULT == "EFAULT"
ENAMETOOLONG == "ENAMETOOLONG"

Reads(f) == f.fn \in {"copyin", "copyinstr"}
String(f) == f.fn \in {"copyinstr", "copyoutstr"}

-----------------------------------------------------------------------------
(* Entering and leaving a copy.                                            *)

\* Mutant of copycheck: only the first address is looked at.
copycheck_start(u, len) == [rc |-> IF u >= USERTOP THEN EFAULT ELSE "ok", stop |-> len]

\* The check, and how much can be copied.
copycheck(u, len) ==
  LET top == (u + len - 1) % ADDRESSES IN
    [rc |-> IF top < u \/ u >= USERTOP THEN EFAULT ELSE "ok",
     stop |-> IF top >= USERTOP THEN USERTOP - u ELSE len]

\* f is entered: the handler and the jump buffer are set.
Enter(f) ==
  /\ frames' = Append(frames, f)
  /\ badfault' = TRUE
  /\ copyjmp' = Len(frames) + 1

\* Frame n returns rc, and with it all frames inside it.
Leave(n, rc) ==
  /\ frames' = SubSeq(frames, 1, n - 1)
  /\ badfault' = FALSE
  /\ UNCHANGED copyjmp
  /\ last' = IF n = 1 THEN [frames[1] EXCEPT !.rc = rc] ELSE last

\* A system call copies; src is the kernel's data of a copy to the user.
UserCopy(fn, u, len, src) ==
  LET c == copycheck(u, len)
      f == [fn |-> fn, u |-> u, len |-> len, stop |-> c.stop, i |-> 0,
            buf |-> IF Reads([fn |-> fn]) THEN <<>> ELSE src, rc |-> "none"]
  IN /\ frames = <<>> /\ last = Nothing /\ ~exited /\ ~crashed
     /\ \/ /\ c.rc = EFAULT \/ (~String(f) /\ c.stop # len)
           /\ last' = [f EXCEPT !.rc = EFAULT]
           /\ UNCHANGED <<frames, badfault, copyjmp>>
        \/ /\ c.rc # EFAULT /\ (String(f) \/ c.stop = len)
           /\ Enter(f)
           /\ UNCHANGED last
     /\ UNCHANGED <<kind, umem, exited, crashed>>

copyin(u, len) == UserCopy("copyin", u, len, <<>>)
copyout(u, len) == UserCopy("copyout", u, len, [i \in 1 .. len |-> 1])
copyinstr(u, len) == UserCopy("copyinstr", u, len, <<>>)

\* A string that ends anywhere in the block.
copyoutstr(u, len) ==
  \E n \in 1 .. len : UserCopy("copyoutstr", u, len, [i \in 1 .. len |-> IF i = n THEN 0 ELSE 1])

-----------------------------------------------------------------------------
(* One byte at a time.                                                     *)

Top == frames[Len(frames)]
Address == Top.u + Top.i

\* The loop of memcpy() or copystr() is over.
Ended(f) == f.i = f.stop \/ (String(f) /\ f.i > 0 /\ f.buf[f.i] = 0)

\* Mutant of copystr: running into the kernel is not told apart.
copystr_long(f) ==
  IF ~String(f) \/ (f.i > 0 /\ f.buf[f.i] = 0) THEN "ok" ELSE ENAMETOOLONG

\* What copyin() and the others return then.
copystr(f) ==
  IF ~String(f) \/ (f.i > 0 /\ f.buf[f.i] = 0) THEN "ok"
  ELSE IF f.stop < f.len THEN EFAULT ELSE ENAMETOOLONG

Finish ==
  /\ frames # <<>> /\ ~exited /\ ~crashed /\ Ended(Top)
  /\ Leave(Len(frames), copystr(Top))
  /\ UNCHANGED <<kind, umem, exited, crashed>>

\* The byte is there and may be used so.
Byte ==
  /\ kind[Address] = "data" \/ (kind[Address] = "text" /\ Reads(Top))
  /\ IF Reads(Top)
       THEN /\ frames' = [frames EXCEPT ![Len(frames)].i = @ + 1,
                                        ![Len(frames)].buf = Append(@, umem[Address])]
            /\ UNCHANGED umem
       ELSE /\ frames' = [frames EXCEPT ![Len(frames)].i = @ + 1]
            /\ umem' = [umem EXCEPT ![Address] = Top.buf[Top.i + 1]]
  /\ UNCHANGED <<kind, badfault, copyjmp, last, exited, crashed>>

\* The byte of a page that is being loaded: the TLB lets it be written.
LoadByte ==
  /\ Top.fn = "load"
  /\ frames' = [frames EXCEPT ![Len(frames)].i = 1]
  /\ kind' = [kind EXCEPT ![Address] = IF @ = "newdata" THEN "data" ELSE "text"]
  /\ UNCHANGED <<umem, badfault, copyjmp, last, exited, crashed>>

\* vm_fault() finds a page of the executable and calls load_segment().
Load ==
  /\ kind[Address] \in {"newdata", "newtext"} /\ Top.fn # "load"
  /\ Enter([fn |-> "load", u |-> Address, len |-> 1, stop |-> 1, i |-> 0,
            buf |-> <<umem[Address]>>, rc |-> "none"])
  /\ UNCHANGED <<kind, umem, last, exited, crashed>>

\* A write to a page that may only be read: vm_fault() calls sys__exit().
ReadOnly ==
  /\ kind[Address] = "text" /\ ~Reads(Top)
  /\ exited' = TRUE
  /\ UNCHANGED <<kind, umem, frames, badfault, copyjmp, last, crashed>>

\* vm_fault() fails: no page, or no memory or an error of the disk for one
\* that is to be loaded.  In kernel mode only copyfail() saves the machine.
BadFault ==
  /\ kind[Address] \in {"hole", "newdata", "newtext"} /\ Top.fn # "load"
  /\ \/ badfault /\ Leave(copyjmp, EFAULT) /\ UNCHANGED crashed
     \/ /\ ~badfault
        /\ crashed' = TRUE
        /\ UNCHANGED <<frames, badfault, copyjmp, last>>
  /\ UNCHANGED <<kind, umem, exited>>

Touch ==
  /\ frames # <<>> /\ ~exited /\ ~crashed /\ ~Ended(Top)
  /\ Address < USERTOP
  /\ Byte \/ LoadByte \/ Load \/ ReadOnly \/ BadFault

\* The system call returns to the program.
Return ==
  /\ last # Nothing
  /\ last' = Nothing
  /\ UNCHANGED <<kind, umem, frames, badfault, copyjmp, exited, crashed>>

\* The program itself touches memory, reading or writing.
UserAccess(a, write) ==
  /\ frames = <<>> /\ last = Nothing /\ ~exited /\ ~crashed
  /\ \/ /\ a < USERTOP /\ kind[a] \in {"newdata", "newtext"}
        /\ kind' = [kind EXCEPT ![a] = IF @ = "newdata" THEN "data" ELSE "text"]
        /\ UNCHANGED <<umem, exited>>
     \/ /\ a < USERTOP /\ kind[a] = "data" /\ write
        /\ umem' = [umem EXCEPT ![a] = 1 - @]
        /\ UNCHANGED <<kind, exited>>
     \/ /\ a < USERTOP => kind[a] = "hole" \/ (kind[a] = "text" /\ write)
        /\ exited' = TRUE
        /\ UNCHANGED <<kind, umem>>
  /\ UNCHANGED <<frames, badfault, copyjmp, last, crashed>>

\* User memory of these pages, with a zero byte at z.
CopyStart(k, z) ==
  /\ kind = k
  /\ umem = [a \in User |-> IF a = z THEN 0 ELSE 1]
  /\ frames = <<>> /\ badfault = FALSE /\ copyjmp = 0
  /\ last = Nothing
  /\ exited = FALSE /\ crashed = FALSE

CopyInit == \E k \in LAYOUTS, z \in 0 .. USERTOP : CopyStart(k, z)

CopyNext ==
  \/ \E u \in 0 .. ADDRESSES - 1, len \in LENS :
       copyin(u, len) \/ copyout(u, len) \/ copyinstr(u, len) \/ copyoutstr(u, len)
  \/ Touch
  \/ Finish
  \/ Return
  \/ \E a \in 0 .. ADDRESSES - 1, write \in BOOLEAN : UserAccess(a, write)

CopySpec == CopyInit /\ [][CopyNext]_copyvars

-----------------------------------------------------------------------------
(* Properties.                                                             *)

\* No copy touches an address that is not the user's, whatever address and
\* length the program passed: the ranges that wrap around and the strings
\* that run into the kernel included.
TouchesUserOnly ==
  frames # <<>> /\ ~Ended(Top) => Address < USERTOP

\* A fault that is caught returns from the copy that took it: pcb_copyjmp
\* never names a copy that has returned, although a copy can take a fault
\* that copies, and no handler is left behind in a thread that copies
\* nothing.
JumpsToOwnFrame ==
  badfault => frames # <<>> /\ copyjmp = Len(frames)

\* What a copy of at least one byte returns: success when all of the block,
\* or a whole string, was copied; ENAMETOOLONG when all the bytes could be
\* read and none ends the string; EFAULT only when a byte it needed was not
\* the user's or could not be had.  What was copied is what is at the source.
CopyResults ==
  [][last' # last /\ last'.len > 0 =>
       LET f == last'
           n == f.i
           range == {(f.u + k) % ADDRESSES : k \in 0 .. f.len - 1}
           ends == {k \in 1 .. n : f.buf[k] = 0}
       IN /\ \A k \in 1 .. n : f.buf[k] = umem'[f.u + k - 1]
          /\ CASE f.rc = "ok" -> IF String(f) THEN n > 0 /\ ends = {n} ELSE n = f.len
               [] f.rc = ENAMETOOLONG -> n = f.len /\ ends = {}
               [] OTHER -> /\ String(f) => ends = {}
                           /\ \E a \in range : a >= USERTOP \/ kind'[a] \in Kinds \ {"data", "text"}
    ]_copyvars

\* "These are arranged to prevent fatal kernel memory faults if invalid
\* addresses are supplied by user-level code" (copyinout.c): a fault in a
\* copy never panics the kernel.
CopyNeverPanics == ~crashed
=============================================================================
