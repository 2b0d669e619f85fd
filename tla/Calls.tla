-------------------------------- MODULE Calls --------------------------------
(***************************************************************************)
(* What the file-system modules are written in.  A C function that can     *)
(* fail is an operator from the kernel's state (a record s) to a record    *)
(* with the error it returns, the state it leaves and the value it hands   *)
(* back; Then() is "if (result) return result;", Else() what is undone     *)
(* before such a return, and Let() names a value that is used often.       *)
(*                                                                         *)
(* s.fault says what goes wrong during the current operation: the left-th  *)
(* block I/O or allocation to come fails, or the power is lost after left  *)
(* block writes.  This module also has the calls every layer uses:         *)
(* kmalloc(), the counts of kern/fs/vfs/vnode.c and kern/userprog/uio.c.   *)
(***************************************************************************)
EXTENDS Integers, Sequences, FiniteSets, SequencesExt, FiniteSetsExt

OK == "OK"

Val(s, v) == [e |-> OK, s |-> s, v |-> v]
Ret(s, e) == [e |-> e, s |-> s, v |-> 0]

Then(r, F(_, _)) == IF r.e = OK THEN F(r.s, r.v) ELSE r
Else(r, F(_, _)) == IF r.e = OK THEN r ELSE F(r.s, r.e)
Let(x, F(_)) == F(x)

\* panic() or a failed assertion: nothing runs after it.
Panic(s) == Ret([s EXCEPT !.panic = TRUE], "PANIC")

\* for (i in is) { result = F; if (result) break; }, handing a value along.
For(r, is, F(_, _, _)) ==
  FoldLeft(LAMBDA q, i : Then(q, LAMBDA s, v : F(s, v, i)), r, is)

NoFault == [kind |-> "none", left |-> 0]

\* This use of the resource is the one that fails.
Fails(s, kind) == s.fault.kind = kind /\ s.fault.left = 0

Uses(s, kind) ==
  IF s.fault.kind = kind THEN [s EXCEPT !.fault.left = @ - 1] ELSE s

\* kmalloc(), and the calls that only fail when it does.
kmalloc(s) ==
  IF Fails(s, "nomem") THEN Ret(Uses(s, "nomem"), "ENOMEM")
                       ELSE Val(Uses(s, "nomem"), 0)

-----------------------------------------------------------------------------
(* Abstract vnodes.  s.vn maps the vnodes in memory to their counts.       *)

\* The check made before every VOP_ call: the vnode must not be freed memory.
vnode_check(s, v) == v \in DOMAIN s.vn /\ s.vn[v].ref > 0 /\ s.vn[v].open >= 0

vnode_init(s, v) ==
  Then(kmalloc(s), LAMBDA t, u :
       Val([t EXCEPT !.vn = [w \in DOMAIN @ \cup {v} |->
              IF w = v THEN [ref |-> 1, open |-> 0] ELSE @[w]]], v))

vnode_kill(s, v) ==
  IF s.vn[v].ref # 1 \/ s.vn[v].open # 0 THEN Panic(s)
  ELSE Val([s EXCEPT !.vn = [w \in DOMAIN @ \ {v} |-> @[w]]], 0)

vnode_incref(s, v) ==
  IF vnode_check(s, v) THEN [s EXCEPT !.vn[v].ref = @ + 1] ELSE Panic(s).s

\* The last reference is left for VOP_RECLAIM, whose error is only printed.
vnode_decref(s, v, Reclaim(_, _)) ==
  IF ~vnode_check(s, v) THEN Panic(s).s
  ELSE IF s.vn[v].ref > 1 THEN [s EXCEPT !.vn[v].ref = @ - 1]
  ELSE Reclaim(s, v).s

vnode_incopen(s, v) == [s EXCEPT !.vn[v].open = @ + 1]

-----------------------------------------------------------------------------
(* struct uio.  s.uio is the transfer in progress: data is what is still   *)
(* to be written, or what has been read.                                   *)

NoUio == [rw |-> "read", off |-> 0, resid |-> 0, data |-> <<>>]

mk_kuio(s, data, len, pos, rw) ==
  [s EXCEPT !.uio = [rw |-> rw, off |-> pos, resid |-> len, data |-> data]]

\* Moves up to n units between the transfer and buf, from its unit skip on,
\* and hands back buf.
uiomove(s, buf, skip, n) ==
  LET u    == s.uio
      m    == IF n < u.resid THEN n ELSE u.resid
      rd   == u.rw = "read"
      t    == [s EXCEPT !.uio = [rw |-> u.rw, off |-> u.off + m,
                 resid |-> u.resid - m,
                 data |-> IF rd THEN u.data \o SubSeq(buf, skip + 1, skip + m)
                                ELSE SubSeq(u.data, m + 1, Len(u.data))]]
      full == SubSeq(buf, 1, skip) \o SubSeq(u.data, 1, m)
                \o SubSeq(buf, skip + m + 1, Len(buf))
  IN  Val(t, IF rd THEN buf ELSE full)

uiomovezeros(s, zeros) == uiomove(s, zeros, 0, Len(zeros))
=============================================================================
