----------------------------- MODULE UserStack -----------------------------
(***************************************************************************)
(* The arguments of a program: how sys_execv() of kern/userprog/execv.c    *)
(* and runprogram() of kern/userprog/runprogram.c lay them out on the new  *)
(* stack, and the registers md_usermode() of kern/arch/mips/mips/trap.c    *)
(* starts the program with.                                                *)
(*                                                                         *)
(* Addresses are counted down from the end of the stack, at 0, so the      *)
(* stack has the addresses -STACK .. -1 and words of WORD bytes.  A byte   *)
(* is <<"char", its argument, its index>>, <<"nul">>, <<"word", the word,  *)
(* its byte>> or UNWRITTEN.                                                *)
(***************************************************************************)
EXTENDS Integers, Sequences

CONSTANTS
  STACK,       \* bytes of the stack
  ARGLENS      \* the lengths of the arguments, as sequences

VARIABLES
  by,          \* "sys_execv" or "runprogram"
  lens,        \* the lengths of the arguments of this call
  ustack,      \* the bytes of the new stack
  stackptr,
  addrOfCharPtrs,
  todo,        \* the step
  regs         \* the registers the program starts with, or the error
argvars == <<by, lens, ustack, stackptr, addrOfCharPtrs, todo, regs>>

WORD == 4
UNWRITTEN == <<"junk">>
NULL_WORD == 0   \* no address of the stack
nargs == Len(lens)
String_(i) == [k \in 1 .. lens[i] + 1 |-> IF k <= lens[i] THEN <<"char", i, k>> ELSE <<"nul">>]
Word_(w) == [k \in 1 .. WORD |-> <<"word", w, k>>]

\* The stack with these bytes at address a.
Put(a, bytes) ==
  [x \in DOMAIN ustack |-> IF x >= a /\ x < a + Len(bytes) THEN bytes[x - a + 1] ELSE ustack[x]]

\* A copyout() to the stack, and the next step.  It may fail, for want of a
\* page or of room; sys_execv() then gives up, runprogram() goes on.
Copy_(a, bytes, next) ==
  /\ stackptr' = a
  /\ \/ /\ a >= 0 - STACK
        /\ ustack' = Put(a, bytes) /\ todo' = next /\ regs' = regs
     \/ /\ by = "sys_execv"
        /\ todo' = <<"failed">> /\ regs' = [rc |-> "EFAULT"] /\ ustack' = ustack
     \/ /\ by = "runprogram"
        /\ todo' = next /\ regs' = [rc |-> "lost"] /\ ustack' = ustack
  /\ UNCHANGED <<by, lens>>

\* The strings, the last first.
CopyString ==
  /\ todo[1] = "string" /\ todo[2] >= 1
  /\ LET i == todo[2]
         a == stackptr - (lens[i] + 1)
     IN /\ addrOfCharPtrs' = [addrOfCharPtrs EXCEPT ![i] = a]
        /\ Copy_(a, String_(i), <<"string", i - 1>>)

\* Mutant of NullLen: what lies above is not aligned.
NullLen_word == WORD

\* The zeros, and what aligns the stack.
NullLen == WORD + (stackptr % WORD)

\* Only the first word of the zeros has a defined value.
CopyZeros ==
  /\ todo = <<"string", 0>>
  /\ Copy_(stackptr - NullLen,
           Word_(NULL_WORD) \o [k \in 1 .. NullLen - WORD |-> UNWRITTEN],
           <<"pointer", IF by = "sys_execv" THEN nargs + 1 ELSE nargs>>)
  /\ UNCHANGED addrOfCharPtrs

\* The pointers, the last first; sys_execv() starts with the word behind its
\* array.
CopyPointer ==
  /\ todo[1] = "pointer" /\ todo[2] >= 1
  /\ LET i == todo[2] IN
       Copy_(stackptr - WORD,
             IF i > nargs THEN [k \in 1 .. WORD |-> UNWRITTEN] ELSE Word_(addrOfCharPtrs[i]),
             <<"pointer", i - 1>>)
  /\ UNCHANGED addrOfCharPtrs

\* Mutant of FinalStack: the stack starts above what was put on it.
FinalStack_above(sp) == sp + ((0 - sp) % 8)

FinalStack(sp) == sp - (sp % 8)

\* The address of argv, and md_usermode().
CopyArgv ==
  /\ todo = <<"pointer", 0>>
  /\ Copy_(stackptr - WORD, Word_(stackptr), <<"enter", stackptr>>)
  /\ UNCHANGED addrOfCharPtrs

md_usermode ==
  /\ todo[1] = "enter"
  /\ todo' = <<"running">>
  /\ regs' = [rc |-> regs.rc, a0 |-> nargs, a1 |-> todo[2], sp |-> FinalStack(stackptr)]
  /\ UNCHANGED <<by, lens, ustack, stackptr, addrOfCharPtrs>>

ArgsStart(caller, l) ==
  /\ by = caller
  /\ lens = l
  /\ ustack = [a \in 0 - STACK .. 0 - 1 |-> UNWRITTEN]
  /\ stackptr = 0
  /\ addrOfCharPtrs = [i \in 1 .. Len(lens) |-> 0]
  /\ todo = <<"string", Len(lens)>>
  /\ regs = [rc |-> "ok"]

\* sys_execv() insists on an argument.
ArgsInit ==
  \E caller \in {"sys_execv", "runprogram"}, l \in ARGLENS :
    (caller = "sys_execv" => l # <<>>) /\ ArgsStart(caller, l)

ArgsNext == CopyString \/ CopyZeros \/ CopyPointer \/ CopyArgv \/ md_usermode

-----------------------------------------------------------------------------
\* A program that starts with nothing lost finds its arguments: argv is
\* aligned, its pointers lead to the strings, each whole and ended, argv ends
\* with NULL if runprogram() made it, the stack pointer is aligned to eight
\* bytes, and a push overwrites none of it.
ArgsReadable ==
  todo = <<"running">> /\ regs.rc = "ok" =>
    LET Holds(a, bytes) == \A k \in DOMAIN bytes : ustack[a + k - 1] = bytes[k]
    IN /\ regs.a1 % WORD = 0 /\ regs.sp % 8 = 0 /\ regs.sp < regs.a1
       /\ \A i \in 1 .. regs.a0 : \E p \in DOMAIN ustack :
            Holds(regs.a1 + WORD * (i - 1), Word_(p)) /\ Holds(p, String_(i))
       /\ by = "runprogram" => Holds(regs.a1 + WORD * regs.a0, Word_(NULL_WORD))
=============================================================================
