----------------------------- MODULE Containers -----------------------------
(***************************************************************************)
(* The kernel's containers: the circular queue of kern/lib/queue.c, the    *)
(* growing array of kern/lib/array.c and the bitmap of kern/lib/bitmap.c.  *)
(*                                                                         *)
(* obj is the structure as the code keeps it (indexes from 0, JUNK in      *)
(* memory nobody wrote), val the abstract value its callers rely on: a     *)
(* sequence or a set.  ret is what the last call returned and due what it  *)
(* had to return.  Every call that allocates may find no memory.           *)
(***************************************************************************)
EXTENDS Integers, Sequences, FiniteSets, SequencesExt, FiniteSetsExt

CONSTANTS
  VALUES,         \* the pointers kept in queues and arrays
  JUNK,           \* uninitialized memory
  QSIZES,         \* the sizes queues are created with
  MAXITEMS,       \* bound on the items of a queue or array
  KEPT,           \* the capacity an emptied array may keep (16 in the code)
  BITS_PER_WORD,
  NBITS           \* the sizes of bitmaps

ASSUME ContainersAssumption ==
  /\ JUNK \notin VALUES
  /\ QSIZES \subseteq Nat \ {0}
  /\ BITS_PER_WORD \in Nat \ {0} /\ NBITS \subseteq Nat \ {0}

VARIABLES obj, val, ret, due, failed
convars == <<obj, val, ret, due, failed>>

Memory(n) == [i \in 0 .. n - 1 |-> JUNK]
Returns(r, d) == ret' = r /\ due' = d

-----------------------------------------------------------------------------
(* Queue.                                                                  *)

q_create(size) == [kind |-> "queue", size |-> size, nextwrite |-> 0,
                   nextread |-> 0, data |-> Memory(size)]

q_empty(q) == q.nextwrite = q.nextread

\* The items, from the next to read to the last written.
Items(q) ==
  LET n == (q.nextwrite - q.nextread + q.size) % q.size
  IN [i \in 1 .. n |-> q.data[(q.nextread + i - 1) % q.size]]

Doubled(n, target) == Min({m \in {n, 2 * n, 4 * n, 8 * n} : m >= target})

\* Mutant of q_grow: the old memory is copied as it lies.
q_grow_flat(q, target) ==
  LET nsize == Doubled(q.size, target)
  IN [q EXCEPT !.size = nsize,
               !.data = [i \in 0 .. nsize - 1 |-> IF i < q.size THEN q.data[i] ELSE JUNK]]

\* The queue in twice the memory, often enough, its items at the front.
q_grow(q, target) ==
  LET nsize == Doubled(q.size, target)
      items == Items(q)
  IN [q EXCEPT !.size = nsize, !.nextread = 0, !.nextwrite = Len(items),
               !.data = [i \in 0 .. nsize - 1 |-> IF i < Len(items) THEN items[i + 1] ELSE JUNK]]

Full(q) == (q.nextwrite + 1) % q.size = q.nextread

Write(q, x) == [q EXCEPT !.data[q.nextwrite] = x, !.nextwrite = (@ + 1) % q.size]

q_addtail(x, memory) ==
  /\ obj.kind = "queue" /\ Len(val) < MAXITEMS
  /\ \/ /\ ~Full(obj)
        /\ obj' = Write(obj, x)
        /\ val' = Append(val, x)
     \/ /\ Full(obj) /\ memory
        /\ obj' = Write(q_grow(obj, obj.size + 1), x)
        /\ val' = Append(val, x)
     \/ /\ Full(obj) /\ ~memory
        /\ UNCHANGED <<obj, val>>
  /\ UNCHANGED <<ret, due, failed>>

q_preallocate(n, memory) ==
  /\ obj.kind = "queue"
  /\ obj' = IF n > obj.size /\ memory THEN q_grow(obj, n) ELSE obj
  /\ UNCHANGED <<val, ret, due, failed>>

\* Callers look before they remove: q_remhead() asserts it.
q_remhead ==
  /\ obj.kind = "queue" /\ val # <<>>
  /\ failed' = (failed \/ q_empty(obj))
  /\ obj' = [obj EXCEPT !.nextread = (@ + 1) % obj.size]
  /\ Returns(obj.data[obj.nextread], Head(val))
  /\ val' = Tail(val)

-----------------------------------------------------------------------------
(* Array.  val has the item JUNK where the caller has not set one.         *)

array_create == [kind |-> "array", num |-> 0, max |-> 0, v |-> Memory(0)]

Capacity(max, n) ==
  IF n <= max THEN max
  ELSE Min({m \in {2 * (max + 1), 4 * max + 6, 8 * max + 14} : m >= n})

\* New memory, with the items in use copied.
Moved(a, n) ==
  LET newmax == Capacity(a.max, n)
  IN [a EXCEPT !.max = newmax,
               !.v = [i \in 0 .. newmax - 1 |-> IF i < a.num THEN a.v[i] ELSE JUNK]]

\* array_setsize() when there is memory.
Sized(a, n) ==
  IF n > a.max THEN [Moved(a, n) EXCEPT !.num = n]
  ELSE IF n = 0 /\ a.max > KEPT THEN [a EXCEPT !.num = 0, !.max = 0, !.v = Memory(0)]
  ELSE [a EXCEPT !.num = n]

\* The first n items, unset ones after them.
Cut(s, n) == [i \in 1 .. n |-> IF i <= Len(s) THEN s[i] ELSE JUNK]

array_preallocate(n, memory) ==
  /\ obj.kind = "array"
  /\ obj' = IF memory THEN Moved(obj, n) ELSE obj
  /\ UNCHANGED <<val, ret, due, failed>>

array_setsize(n, memory) ==
  /\ obj.kind = "array"
  /\ \/ /\ memory \/ n <= obj.max
        /\ obj' = Sized(obj, n)
        /\ val' = Cut(val, n)
     \/ /\ ~memory /\ n > obj.max
        /\ UNCHANGED <<obj, val>>
  /\ UNCHANGED <<ret, due, failed>>

array_add(x, memory) ==
  /\ obj.kind = "array" /\ Len(val) < MAXITEMS
  /\ \/ /\ memory \/ obj.num + 1 <= obj.max
        /\ obj' = [Sized(obj, obj.num + 1) EXCEPT !.v[obj.num] = x]
        /\ val' = Append(val, x)
     \/ /\ ~memory /\ obj.num + 1 > obj.max
        /\ UNCHANGED <<obj, val>>
  /\ UNCHANGED <<ret, due, failed>>

\* Index i is in range, as the callers see to: getguy and setguy assert it.
array_getguy(i) ==
  /\ obj.kind = "array" /\ i \in 0 .. Len(val) - 1
  /\ failed' = (failed \/ obj.num > obj.max \/ i >= obj.num)
  /\ Returns(obj.v[i], val[i + 1])
  /\ UNCHANGED <<obj, val>>

array_setguy(i, x) ==
  /\ obj.kind = "array" /\ i \in 0 .. Len(val) - 1
  /\ failed' = (failed \/ obj.num > obj.max \/ i >= obj.num)
  /\ obj' = [obj EXCEPT !.v[i] = x]
  /\ val' = [val EXCEPT ![i + 1] = x]
  /\ UNCHANGED <<ret, due>>

array_remove(i) ==
  /\ obj.kind = "array" /\ i \in 0 .. Len(val) - 1
  /\ failed' = (failed \/ obj.num > obj.max \/ i >= obj.num)
  /\ obj' = [obj EXCEPT !.num = @ - 1,
                        !.v = [j \in DOMAIN @ |-> IF j >= i /\ j < obj.num - 1
                                                  THEN @[j + 1] ELSE @[j]]]
  /\ val' = RemoveAt(val, i + 1)
  /\ UNCHANGED <<ret, due>>

-----------------------------------------------------------------------------
(* Bitmap.  A word is the set of its bits that are 1.                      *)

AllBits == 0 .. BITS_PER_WORD - 1
Words(nbits) == (nbits + BITS_PER_WORD - 1) \div BITS_PER_WORD

\* The bits beyond nbits in the last word are marked.
bitmap_create(nbits) ==
  LET words == Words(nbits)
      over == nbits - (words - 1) * BITS_PER_WORD
  IN [kind |-> "bitmap", nbits |-> nbits,
      v |-> [w \in 0 .. words - 1 |-> IF w = words - 1 THEN {j \in AllBits : j >= over} ELSE {}]]

\* Word and bit of a bit number.
bitmap_translate(bit) == <<bit \div BITS_PER_WORD, bit % BITS_PER_WORD>>

bitmap_isset(b, bit) == LET t == bitmap_translate(bit) IN t[2] \in b.v[t[1]]

\* The lowest clear bit of the first word that is not full; ENOSPC is -1.
bitmap_alloc ==
  LET open == {w \in DOMAIN obj.v : obj.v[w] # AllBits}
      free == (0 .. obj.nbits - 1) \ val
      due1 == IF free = {} THEN -1 ELSE Min(free)
  IN /\ obj.kind = "bitmap"
     /\ \/ /\ open = {}
           /\ Returns(-1, due1)
           /\ UNCHANGED <<obj, val, failed>>
        \/ /\ open # {}
           /\ LET w == Min(open)
                  off == Min(AllBits \ obj.v[w])
                  bit == w * BITS_PER_WORD + off
              IN /\ obj' = [obj EXCEPT !.v[w] = @ \cup {off}]
                 /\ failed' = (failed \/ bit >= obj.nbits)
                 /\ Returns(bit, due1)
                 /\ val' = val \cup {bit}

bitmap_mark(bit) ==
  LET t == bitmap_translate(bit) IN
    /\ obj.kind = "bitmap" /\ bit \in (0 .. obj.nbits - 1) \ val
    /\ failed' = (failed \/ bitmap_isset(obj, bit))
    /\ obj' = [obj EXCEPT !.v[t[1]] = @ \cup {t[2]}]
    /\ val' = val \cup {bit}
    /\ UNCHANGED <<ret, due>>

bitmap_unmark(bit) ==
  LET t == bitmap_translate(bit) IN
    /\ obj.kind = "bitmap" /\ bit \in val
    /\ failed' = (failed \/ ~bitmap_isset(obj, bit))
    /\ obj' = [obj EXCEPT !.v[t[1]] = @ \ {t[2]}]
    /\ val' = val \ {bit}
    /\ UNCHANGED <<ret, due>>

-----------------------------------------------------------------------------
ContainersInit ==
  /\ \/ val = <<>> /\ obj \in {q_create(n) : n \in QSIZES}
     \/ val = <<>> /\ obj = array_create
     \/ val = {} /\ obj \in {bitmap_create(n) : n \in NBITS}
  /\ ret = 0 /\ due = 0 /\ failed = FALSE

ContainersNext ==
  \/ \E memory \in BOOLEAN :
       \/ \E x \in VALUES : q_addtail(x, memory) \/ array_add(x, memory)
       \/ \E n \in 0 .. MAXITEMS :
            \/ q_preallocate(n, memory)
            \/ array_preallocate(n, memory)
            \/ array_setsize(n, memory)
  \/ q_remhead
  \/ \E i \in 0 .. MAXITEMS :
       \/ array_getguy(i) \/ array_remove(i)
       \/ \E x \in VALUES : array_setguy(i, x)
  \/ bitmap_alloc
  \/ \E bit \in 0 .. Max(NBITS) : bitmap_mark(bit) \/ bitmap_unmark(bit)

-----------------------------------------------------------------------------
(* Properties.                                                             *)

\* A queue holds what was added and not yet removed, in that order, through
\* wrap-around, growth and allocations that fail; no assertion fails for
\* callers that look before they remove.
QueueIsFifo ==
  obj.kind = "queue" => /\ Items(obj) = val
                        /\ ret = due /\ ~failed
                        /\ obj.nextread < obj.size /\ obj.nextwrite < obj.size

\* An array keeps every item its caller set and has not removed, however it
\* was grown, cut and refilled, and its memory is large enough.
ArrayKeepsItems ==
  obj.kind = "array" => /\ Len(val) = obj.num /\ obj.num <= obj.max
                        /\ DOMAIN obj.v = 0 .. obj.max - 1
                        /\ \A i \in 1 .. Len(val) : val[i] # JUNK => obj.v[i - 1] = val[i]
                        /\ due # JUNK => ret = due
                        /\ ~failed

\* A bitmap is a set of bit numbers below nbits: bitmap_alloc() returns the
\* smallest that is clear and fails only when none is; the bits that fill up
\* the last word stay marked, and no assertion fails.
BitmapIsSet ==
  obj.kind = "bitmap" =>
    /\ ret = due /\ ~failed
    /\ \A w \in DOMAIN obj.v, j \in AllBits :
         j \in obj.v[w] <=> (w * BITS_PER_WORD + j \in val \/ w * BITS_PER_WORD + j >= obj.nbits)

\* Queues, arrays and bitmaps stand for the sequence, items and set that the
\* calls on them have made.
ContainersFaithful == QueueIsFifo /\ ArrayKeepsItems /\ BitmapIsSet
=============================================================================
