----------------------------- MODULE MCLibrary -----------------------------
(***************************************************************************)
(* The instance of Library for TLC: pages of two and of three blocks and   *)
(* fewer pagerefs than pages; queues and arrays that grow twice; bitmaps   *)
(* that end inside, at and after a word; six-bit integers and every        *)
(* combination of printf flags followed by a second field; three pages of  *)
(* user memory of every kind below addresses that wrap around; executables *)
(* with text, data, an unaligned segment, a segment that ends at a page,   *)
(* zeros after the data, a truncated file and each defect of a header.     *)
(***************************************************************************)
EXTENDS Library

CONSTANTS t1, t2, x1, x2

Sizes == <<4, 6>>

Strs == {<<>>, <<"b", "r">>}
Opt(c) == {<<>>, <<c>>}
Fields == {<<"%">> \o a \o b \o c \o w \o <<t>> :
             a \in Opt("#"), b \in Opt("-"), c \in Opt("0"), w \in Opt("4"),
             t \in {"d", "o", "u", "p", "x", "s", "c", "%", "k"}}
Seconds == {<<"%", "4", "d">>, <<"%", "l", "x">>, <<"z", "%", "3", "s">>}
Formats == {f \o g : f \in Fields, g \in Seconds}

Letters == <<",", "a", "b">>
Seps == <<",">>
Typed == {"x", " ", "\\n", "\\b", "^C", "^R", "^U", "^W"}

Layouts == [User -> Kinds]

Ph(type, vaddr, offset, filesz, memsz, w) ==
  [type |-> type, vaddr |-> vaddr, offset |-> offset, filesz |-> filesz, memsz |-> memsz, w |-> w]
Exe(len, phdrs) == [magic |-> TRUE, len |-> len, phdrs |-> phdrs]
Exes == {
  [magic |-> FALSE, len |-> 4, phdrs |-> <<>>],
  Exe(14, <<Ph("skip", 0, 0, 0, 0, FALSE), Ph("load", 0, 0, 6, 6, FALSE),
            Ph("load", 8, 8, 5, 5, TRUE)>>),
  Exe(14, <<Ph("load", 4, 0, 4, 4, FALSE), Ph("load", 9, 5, 3, 7, TRUE)>>),
  Exe(14, <<Ph("load", 8, 4, 5, 8, TRUE)>>),
  Exe(6, <<Ph("load", 0, 0, 8, 8, TRUE), Ph("load", 12, 4, 4, 4, FALSE)>>),
  Exe(14, <<Ph("load", 0, 4, 4, 4, TRUE), Ph("unknown", 0, 0, 0, 0, FALSE)>>),
  Exe(14, <<Ph("load", 28, 4, 4, 4, TRUE)>>)}

ArgLens == UNION {[1 .. n -> 0 .. 4] : n \in 0 .. 2}

Symmetry == Permutations(THREADS)
=============================================================================
