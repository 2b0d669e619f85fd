--------------------------- MODULE UserMemProofs ---------------------------
(***************************************************************************)
(* Proofs about UserMem, for any addresses, lengths and user pages.        *)
(***************************************************************************)
EXTENDS UserMem, SequenceTheorems, TLAPS

-----------------------------------------------------------------------------
(* The inductive invariant.                                                *)

Bit == {0, 1}
Calls == {"copyin", "copyout", "copyinstr", "copyoutstr"}
Frame == [fn : Calls \cup {"load"}, u : Nat, len : Nat, stop : Nat, i : Nat, buf : Seq(Bit),
          rc : {"none"}]

\* A copy in progress stops before the user's memory does, and before the
\* kernel's data.
Within(f) ==
  /\ f \in Frame /\ f.u + f.stop <= USERTOP /\ f.i <= f.stop
  /\ Reads(f) \/ f.stop <= Len(f.buf)

Bytes == umem \in [User -> Bit]
FramesWithin == frames \in Seq(Frame) /\ \A n \in 1 .. Len(frames) : Within(frames[n])
CopyInv == Bytes /\ FramesWithin /\ JumpsToOwnFrame

-----------------------------------------------------------------------------
(* Addresses.                                                              *)

\* What passes copycheck() ends in user memory, although the address of the
\* last byte is computed with wrap-around.
LEMMA CheckedRange ==
  ASSUME NEW u \in 0 .. ADDRESSES - 1, NEW len \in LENS, copycheck(u, len).rc # EFAULT
  PROVE  /\ copycheck(u, len).stop \in Nat /\ u + copycheck(u, len).stop <= USERTOP
         /\ len > 0 => copycheck(u, len).stop <= len
<1> DEFINE top == (u + len - 1) % ADDRESSES
<1>1. /\ ADDRESSES \in Nat /\ ADDRESSES > 1 /\ USERTOP \in Nat /\ USERTOP < ADDRESSES
      /\ u \in Nat /\ u < ADDRESSES /\ len \in Nat /\ len < ADDRESSES
  BY UserMemAssumption
<1>2. /\ copycheck(u, len).rc = (IF top < u \/ u >= USERTOP THEN EFAULT ELSE "ok")
      /\ copycheck(u, len).stop = (IF top >= USERTOP THEN USERTOP - u ELSE len)
  BY DEF copycheck
<1>3. ~ (top < u) /\ u < USERTOP
  BY <1>1, <1>2
<1>4. CASE u + len - 1 >= ADDRESSES
  <2>1. (u + len - 1 - ADDRESSES) \in 0 .. ADDRESSES - 1
    BY <1>1, <1>4
  <2>2. top = u + len - 1 - ADDRESSES
    BY <1>1, <1>4, <2>1
  <2> QED
    BY <1>1, <1>3, <2>2
<1>5. CASE u + len - 1 < ADDRESSES /\ u + len > 0
  <2>1. top = u + len - 1
    BY <1>1, <1>5
  <2> QED
    BY <1>1, <1>2, <1>3, <2>1
<1>6. CASE u + len = 0
  BY <1>1, <1>2, <1>3, <1>6
<1> QED
  BY <1>1, <1>4, <1>5, <1>6

\* So a copy that has not ended is at an address of the user's.
LEMMA TopWithin ==
  ASSUME FramesWithin, frames # <<>>
  PROVE  /\ Len(frames) \in 1 .. Len(frames) /\ Within(Top)
         /\ ~Ended(Top) => Top.i < Top.stop /\ Address \in User
<1>1. Len(frames) \in Nat /\ Len(frames) # 0
  BY DEF FramesWithin
<1>2. Len(frames) \in 1 .. Len(frames) /\ Within(Top)
  BY <1>1 DEF FramesWithin, Top
<1>3. Top.u \in Nat /\ Top.i \in Nat /\ Top.stop \in Nat
  BY <1>2 DEF Within, Frame
<1>4. ~Ended(Top) => Top.i < Top.stop
  BY <1>2, <1>3 DEF Ended, Within
<1>5. Top.i < Top.stop => Address \in User
  BY <1>2, <1>3, UserMemAssumption DEF Within, Address, User
<1> QED
  BY <1>2, <1>4, <1>5

-----------------------------------------------------------------------------
(* The steps.                                                              *)

\* A copy that is entered owns the jump buffer.
LEMMA EnterStep ==
  ASSUME CopyInv, NEW f, Within(f), Enter(f), umem' = umem
  PROVE  CopyInv'
<1>1. f \in Frame /\ frames \in Seq(Frame) /\ frames' = Append(frames, f)
  BY DEF CopyInv, FramesWithin, Within, Enter
<1>2. /\ frames' \in Seq(Frame) /\ Len(frames') = Len(frames) + 1 /\ frames'[Len(frames) + 1] = f
      /\ \A n \in 1 .. Len(frames) : frames'[n] = frames[n]
  BY <1>1
<1>3. \A n \in 1 .. Len(frames') : Within(frames'[n])
  BY <1>1, <1>2 DEF CopyInv, FramesWithin
<1>4. FramesWithin'
  BY <1>2, <1>3 DEF FramesWithin, Within
<1>5. frames' # <<>> /\ copyjmp' = Len(frames')
  BY <1>1, <1>2 DEF Enter
<1> QED
  BY <1>4, <1>5 DEF CopyInv, Bytes, JumpsToOwnFrame

\* When one returns, the handler is gone.
LEMMA LeaveStep ==
  ASSUME CopyInv, NEW n \in 1 .. Len(frames), NEW rc, Leave(n, rc), umem' = umem
  PROVE  CopyInv'
<1>1. frames \in Seq(Frame) /\ frames' = SubSeq(frames, 1, n - 1) /\ badfault' = FALSE
  BY DEF CopyInv, FramesWithin, Leave
<1>2. Len(frames) \in Nat /\ n \in Nat /\ n <= Len(frames) /\ n >= 1
  BY <1>1
<1>3. \A k \in 1 .. n - 1 : frames[k] \in Frame
  BY <1>1, <1>2
<1>4. /\ frames' \in Seq(Frame) /\ Len(frames') = n - 1
      /\ \A k \in 1 .. n - 1 : frames'[k] = frames[k]
  BY <1>1, <1>2, <1>3
<1>5. \A k \in 1 .. Len(frames') : Within(frames'[k])
  BY <1>2, <1>4 DEF CopyInv, FramesWithin
<1>6. FramesWithin'
  BY <1>4, <1>5 DEF FramesWithin, Within
<1> QED
  BY <1>1, <1>6 DEF CopyInv, Bytes, JumpsToOwnFrame

\* A byte is copied in the frame that is on top.
LEMMA AdvanceStep ==
  ASSUME CopyInv, NEW f, Within(f), frames # <<>>, Bytes',
         frames' = [frames EXCEPT ![Len(frames)] = f], UNCHANGED <<badfault, copyjmp>>
  PROVE  CopyInv'
<1>1. frames \in Seq(Frame) /\ f \in Frame /\ Len(frames) \in 1 .. Len(frames)
  BY TopWithin DEF CopyInv, FramesWithin, Within
<1>2. /\ frames' \in Seq(Frame) /\ Len(frames') = Len(frames) /\ frames'[Len(frames)] = f
      /\ \A n \in 1 .. Len(frames) : n # Len(frames) => frames'[n] = frames[n]
  BY <1>1, ExceptSeq
<1>3. \A n \in 1 .. Len(frames') : Within(frames'[n])
  <2> SUFFICES ASSUME NEW n \in 1 .. Len(frames) PROVE Within(frames'[n])
    BY <1>2
  <2> QED
    BY <1>2 DEF CopyInv, FramesWithin
<1>4. FramesWithin'
  BY <1>2, <1>3 DEF FramesWithin, Within
<1>5. frames' # <<>>
  <2>1. \A n \in Nat : n \in 1 .. n => n # 0
    OBVIOUS
  <2>2. Len(frames) \in Nat
    BY <1>1
  <2>3. Len(frames') # 0
    BY <1>1, <1>2, <2>1, <2>2, Zenon
  <2>4. Len(<<>>) = 0
    OBVIOUS
  <2> QED
    BY <2>3, <2>4, Zenon
<1> QED
  BY <1>2, <1>4, <1>5 DEF CopyInv, JumpsToOwnFrame

\* A system call enters a copy only for a range it has checked.
LEMMA UserCopyStep ==
  ASSUME CopyInv, NEW fn \in Calls, NEW u \in 0 .. ADDRESSES - 1, NEW len \in LENS,
         NEW src \in Seq(Bit), UserCopy(fn, u, len, src),
         fn \in {"copyout", "copyoutstr"} => Len(src) = len,
         fn = "copyoutstr" => len > 0
  PROVE  CopyInv'
<1> DEFINE c == copycheck(u, len)
           f == [fn |-> fn, u |-> u, len |-> len, stop |-> c.stop, i |-> 0,
                 buf |-> IF Reads([fn |-> fn]) THEN <<>> ELSE src, rc |-> "none"]
<1>1. umem' = umem
  BY DEF UserCopy
<1>2. CASE UNCHANGED <<frames, badfault, copyjmp>>
  BY <1>1, <1>2 DEF CopyInv, Bytes, FramesWithin, Within, JumpsToOwnFrame
<1>3. CASE c.rc # EFAULT /\ Enter(f) /\ (String(f) \/ c.stop = len)
  <2>1. c.stop \in Nat /\ u + c.stop <= USERTOP /\ (len > 0 => c.stop <= len)
    BY <1>3, CheckedRange
  <2>2. u \in Nat /\ len \in Nat
    BY UserMemAssumption
  <2> HIDE DEF c
  <2>3. <<>> \in Seq(Bit)
    OBVIOUS
  <2>4. f \in Frame
    BY <2>1, <2>2, <2>3 DEF Frame
  <2>5. Reads(f) \/ f.stop <= Len(f.buf)
    <3>1. CASE fn \in {"copyin", "copyinstr"}
      BY <3>1 DEF Reads
    <3>2. CASE fn = "copyout"
      BY <1>3, <2>1, <2>2, <3>2 DEF Reads, String
    <3>3. CASE fn = "copyoutstr"
      BY <2>1, <2>2, <3>3 DEF Reads
    <3> QED
      BY <3>1, <3>2, <3>3 DEF Calls
  <2>6. Within(f)
    BY <2>1, <2>4, <2>5 DEF Within
  <2> QED
    BY <1>1, <1>3, <2>6, EnterStep
<1> QED
  BY <1>2, <1>3 DEF UserCopy

\* The next byte of a copy that has not ended.
LEMMA TouchStep ==
  ASSUME CopyInv, Touch
  PROVE  CopyInv'
<1> DEFINE l == Len(frames)
<1>1. frames # <<>> /\ ~Ended(Top)
  BY DEF Touch
<1>2. /\ l \in 1 .. l /\ Within(Top) /\ Top.i < Top.stop /\ Address \in User
      /\ Top = frames[l] /\ frames \in Seq(Frame)
  BY <1>1, TopWithin DEF CopyInv, FramesWithin, Top
<1>3. /\ Top \in Frame /\ Top.i \in Nat /\ Top.stop \in Nat /\ Top.i + 1 <= Top.stop
      /\ umem[Address] \in Bit
  BY <1>2 DEF Within, Frame, CopyInv, Bytes
<1>4. CASE Byte
  <2>1. CASE Reads(Top)
    <3> DEFINE b == Append(Top.buf, umem[Address])
               f == [Top EXCEPT !.i = @ + 1, !.buf = b]
    <3>1. frames' = [frames EXCEPT ![l] = f] /\ umem' = umem
      BY <1>2, <1>4, <2>1 DEF Byte
    <3>2. b \in Seq(Bit)
      BY <1>3 DEF Frame
    <3> HIDE DEF b
    <3>3. f \in Frame /\ f.u = Top.u /\ f.stop = Top.stop /\ f.i = Top.i + 1 /\ f.fn = Top.fn
      <4> DEFINE g == [Top EXCEPT !.i = @ + 1]
      <4>1. g \in Frame /\ g.u = Top.u /\ g.stop = Top.stop /\ g.i = Top.i + 1 /\ g.fn = Top.fn
        BY <1>3 DEF Frame
      <4>2. f = [g EXCEPT !.buf = b]
        OBVIOUS
      <4> HIDE DEF g, f
      <4> QED
        BY <3>2, <4>1, <4>2 DEF Frame
    <3>4. Within(f)
      BY <1>2, <1>3, <2>1, <3>3 DEF Within, Reads
    <3>5. Bytes' /\ UNCHANGED <<badfault, copyjmp>>
      BY <1>4, <3>1 DEF CopyInv, Bytes, Byte
    <3> QED
      BY <1>1, <3>1, <3>4, <3>5, AdvanceStep
  <2>2. CASE ~Reads(Top)
    <3> DEFINE f == [Top EXCEPT !.i = @ + 1]
    <3>1. /\ frames' = [frames EXCEPT ![l] = f]
          /\ umem' = [umem EXCEPT ![Address] = Top.buf[Top.i + 1]]
      BY <1>2, <1>4, <2>2 DEF Byte
    <3>2. /\ f \in Frame /\ f.u = Top.u /\ f.stop = Top.stop /\ f.i = Top.i + 1
          /\ f.fn = Top.fn /\ f.buf = Top.buf
      BY <1>3 DEF Frame
    <3>3. Within(f)
      BY <1>2, <1>3, <3>2 DEF Within, Reads
    <3>4. Top.buf[Top.i + 1] \in Bit
      <4>1. Top.buf \in Seq(Bit) /\ Top.stop <= Len(Top.buf)
        BY <1>2, <1>3, <2>2 DEF Within, Frame
      <4>2. Top.i + 1 \in 1 .. Len(Top.buf)
        BY <1>3, <4>1
      <4> QED
        BY <4>1, <4>2
    <3>5. Bytes' /\ UNCHANGED <<badfault, copyjmp>>
      BY <1>4, <3>1, <3>4 DEF CopyInv, Bytes, Byte
    <3> QED
      BY <1>1, <3>1, <3>3, <3>5, AdvanceStep
  <2> QED
    BY <2>1, <2>2
<1>5. CASE LoadByte
  <2> DEFINE f == [Top EXCEPT !.i = 1]
  <2>1. frames' = [frames EXCEPT ![l] = f] /\ umem' = umem /\ UNCHANGED <<badfault, copyjmp>>
    BY <1>2, <1>5 DEF LoadByte
  <2>2. /\ f \in Frame /\ f.u = Top.u /\ f.stop = Top.stop /\ f.i = 1
        /\ f.fn = Top.fn /\ f.buf = Top.buf
    BY <1>3 DEF Frame
  <2>3. Within(f)
    BY <1>2, <1>3, <2>2 DEF Within, Reads
  <2>4. Bytes'
    BY <2>1 DEF CopyInv, Bytes
  <2> QED
    BY <1>1, <2>1, <2>3, <2>4, AdvanceStep
<1>6. CASE Load
  <2> DEFINE f == [fn |-> "load", u |-> Address, len |-> 1, stop |-> 1, i |-> 0,
                   buf |-> <<umem[Address]>>, rc |-> "none"]
  <2>1. Enter(f) /\ umem' = umem
    BY <1>6 DEF Load
  <2>2. <<umem[Address]>> \in Seq(Bit) /\ Address \in Nat /\ Address + 1 <= USERTOP
    BY <1>2, <1>3, UserMemAssumption DEF User
  <2>3. f \in Frame
    BY <2>2 DEF Frame
  <2>4. Len(f.buf) = 1
    OBVIOUS
  <2>5. Within(f)
    BY <2>2, <2>3, <2>4 DEF Within
  <2> QED
    BY <2>1, <2>5, EnterStep
<1>7. CASE ReadOnly
  BY <1>7 DEF ReadOnly, CopyInv, Bytes, FramesWithin, Within, JumpsToOwnFrame
<1>8. CASE BadFault
  <2>1. umem' = umem
    BY <1>8 DEF BadFault
  <2>2. CASE badfault /\ Leave(copyjmp, EFAULT)
    <3>1. copyjmp \in 1 .. Len(frames)
      BY <1>2, <2>2 DEF CopyInv, JumpsToOwnFrame
    <3> QED
      BY <2>1, <2>2, <3>1, LeaveStep
  <2>3. CASE UNCHANGED <<frames, badfault, copyjmp>>
    BY <2>1, <2>3 DEF CopyInv, Bytes, FramesWithin, Within, JumpsToOwnFrame
  <2> QED
    BY <1>8, <2>2, <2>3 DEF BadFault
<1> QED
  BY <1>4, <1>5, <1>6, <1>7, <1>8 DEF Touch

-----------------------------------------------------------------------------
(* The theorem.                                                            *)

\* The invariant holds before the program runs.
LEMMA CopyInitInv == CopyInit => CopyInv
<1> SUFFICES ASSUME CopyInit PROVE CopyInv
  OBVIOUS
<1>1. /\ \E z : umem = [a \in User |-> IF a = z THEN 0 ELSE 1]
      /\ frames = <<>> /\ badfault = FALSE
  BY DEF CopyInit, CopyStart
<1>2. Bytes
  BY <1>1 DEF Bytes, Bit
<1>3. FramesWithin
  BY <1>1 DEF FramesWithin
<1> QED
  BY <1>1, <1>2, <1>3 DEF CopyInv, JumpsToOwnFrame

\* Every step keeps it.
LEMMA CopyNextInv == CopyInv /\ [CopyNext]_copyvars => CopyInv'
<1> SUFFICES ASSUME CopyInv, [CopyNext]_copyvars PROVE CopyInv'
  OBVIOUS
<1>1. ASSUME NEW u \in 0 .. ADDRESSES - 1, NEW len \in LENS,
             copyin(u, len) \/ copyout(u, len) \/ copyinstr(u, len) \/ copyoutstr(u, len)
      PROVE  CopyInv'
  <2>1. len \in Nat
    BY UserMemAssumption
  <2>2. \A g \in [1 .. len -> Bit] : g \in Seq(Bit) /\ Len(g) = len
    BY <2>1
  <2>3. CASE copyin(u, len) \/ copyinstr(u, len)
    <3>1. <<>> \in Seq(Bit)
      OBVIOUS
    <3> QED
      BY <2>3, <3>1, UserCopyStep DEF copyin, copyinstr, Calls
  <2>4. CASE copyout(u, len)
    <3>1. [i \in 1 .. len |-> 1] \in [1 .. len -> Bit]
      BY DEF Bit
    <3> QED
      BY <2>2, <2>4, <3>1, UserCopyStep DEF copyout, Calls
  <2>5. CASE copyoutstr(u, len)
    <3>1. PICK n \in 1 .. len :
            UserCopy("copyoutstr", u, len, [i \in 1 .. len |-> IF i = n THEN 0 ELSE 1])
      BY <2>5 DEF copyoutstr
    <3>2. [i \in 1 .. len |-> IF i = n THEN 0 ELSE 1] \in [1 .. len -> Bit] /\ len > 0
      BY <2>1 DEF Bit
    <3> QED
      BY <2>2, <3>1, <3>2, UserCopyStep DEF Calls
  <2> QED
    BY <1>1, <2>3, <2>4, <2>5
<1>2. CASE Finish
  <2>1. frames # <<>> /\ Leave(Len(frames), copystr(Top)) /\ umem' = umem
    BY <1>2 DEF Finish
  <2>2. Len(frames) \in 1 .. Len(frames)
    BY <2>1, TopWithin DEF CopyInv
  <2> QED
    BY <2>1, <2>2, LeaveStep
<1>3. ASSUME NEW a \in 0 .. ADDRESSES - 1, NEW write \in BOOLEAN, UserAccess(a, write)
      PROVE  CopyInv'
  <2>1. UNCHANGED <<frames, badfault, copyjmp>>
    BY <1>3 DEF UserAccess
  <2>2. Bytes'
    <3>1. CASE umem' = umem
      BY <3>1 DEF CopyInv, Bytes
    <3>2. CASE a < USERTOP /\ umem' = [umem EXCEPT ![a] = 1 - @]
      <4>1. a \in User
        BY <3>2, UserMemAssumption DEF User
      <4>2. 1 - umem[a] \in Bit
        BY <4>1 DEF CopyInv, Bytes, Bit
      <4> QED
        BY <3>2, <4>2 DEF CopyInv, Bytes
    <3> QED
      BY <1>3, <3>1, <3>2 DEF UserAccess
  <2> QED
    BY <2>1, <2>2 DEF CopyInv, FramesWithin, Within, JumpsToOwnFrame
<1>4. CASE Return \/ UNCHANGED copyvars
  BY <1>4 DEF Return, copyvars, CopyInv, Bytes, FramesWithin, Within, JumpsToOwnFrame
<1> QED
  BY <1>1, <1>2, <1>3, <1>4, TouchStep DEF CopyNext

\* So it always holds.
LEMMA CopyAlways == CopySpec => []CopyInv
BY CopyInitInv, CopyNextInv, PTL DEF CopySpec

\* For any addresses, lengths and pages, a copy only touches addresses of the
\* user's: copycheck() is right about ranges that wrap around or run into the
\* kernel.
THEOREM CopiesStayInUserMemory == CopySpec => []TouchesUserOnly
<1>1. CopyInv => TouchesUserOnly
  <2> SUFFICES ASSUME CopyInv, frames # <<>>, ~Ended(Top) PROVE Address < USERTOP
    BY DEF TouchesUserOnly
  <2>1. Address \in User
    BY TopWithin DEF CopyInv
  <2> QED
    BY <2>1, UserMemAssumption DEF User
<1> QED
  BY <1>1, CopyAlways, PTL

\* A fault that is caught returns from the copy that took it, and no handler
\* stays set when no copy is in progress.
THEOREM FaultsReturnToTheirCopy == CopySpec => []JumpsToOwnFrame
<1>1. CopyInv => JumpsToOwnFrame
  BY DEF CopyInv
<1> QED
  BY <1>1, CopyAlways, PTL
=============================================================================
