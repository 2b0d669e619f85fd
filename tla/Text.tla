-------------------------------- MODULE Text --------------------------------
(***************************************************************************)
(* The C library routines on memory and text that the kernel is built      *)
(* with: memcpy() and memmove(), strtok_r(), strcmp() and atoi() of        *)
(* lib/libc, and the line editor kgets() of kern/lib/kgets.c.              *)
(*                                                                         *)
(* Strings are sequences of characters without their terminator.  job is a *)
(* call in progress: its arguments and what it did so far.                 *)
(***************************************************************************)
EXTENDS Printf

CONSTANTS
  LONG,      \* sizeof(long)
  MEMSIZE,   \* bytes of memory memmove() works in
  SEPS,      \* separators given to strtok_r()
  LETTERS,   \* characters of the strings, in increasing order
  MAXSTR,    \* bound on the length of strings
  TYPED,     \* what is typed at kgets()
  MAXTYPED,  \* bound on how much is typed
  LINE       \* maxlen of kgets()

VARIABLE job

Strings == UNION {[1 .. n -> ToSet(LETTERS)] : n \in 0 .. MAXSTR}

-----------------------------------------------------------------------------
(* memcpy() and memmove(): by words when everything is aligned.            *)

\* Copies the units of size u with the indexes in order, one after another.
Copy(mem, dst, src, u, order) ==
  FoldLeft(LAMBDA m, i : [a \in DOMAIN m |->
             IF a \in dst + i * u .. dst + i * u + u - 1 THEN m[src + (a - dst)] ELSE m[a]],
           mem, order)

Unit(dst, src, len) ==
  IF dst % LONG = 0 /\ src % LONG = 0 /\ len % LONG = 0 THEN LONG ELSE 1

Upward(n) == [i \in 1 .. n |-> i - 1]
Downward(n) == [i \in 1 .. n |-> n - i]

memcpy(mem, dst, src, len) ==
  LET u == Unit(dst, src, len) IN Copy(mem, dst, src, u, Upward(len \div u))

memmove(mem, dst, src, len) ==
  LET u == Unit(dst, src, len) IN
    IF dst < src THEN memcpy(mem, dst, src, len)
    ELSE Copy(mem, dst, src, u, Downward(len \div u))

Move ==
  /\ job.fn = "memmove" /\ ~job.done
  /\ job' = [job EXCEPT !.done = TRUE, !.mem = memmove(@, job.dst, job.src, job.len)]

-----------------------------------------------------------------------------
(* strtok_r(): context is the index of the rest of the string, 0 for NULL. *)

strchr(s, c) == c \in ToSet(s)

\* The first index from i on whose character is, or is not, a separator.
SkipTo(str, i, sep) ==
  Min({k \in i .. Len(str) : strchr(SEPS, str[k]) = sep} \cup {Len(str) + 1})

\* Mutant of NextContext: the character after the separator is passed over.
NextContext_lost(str, tail) == IF tail > Len(str) THEN 0 ELSE tail + 2

\* Where the next call starts when the word ends before tail.
NextContext(str, tail) == IF tail > Len(str) THEN 0 ELSE tail + 1

strtok_r ==
  LET head == SkipTo(job.str, job.context, FALSE)
      tail == SkipTo(job.str, head, TRUE)
  IN /\ job.fn = "strtok_r" /\ ~job.done
     /\ \/ /\ job.context # 0 => head > Len(job.str)
           /\ job' = [job EXCEPT !.done = TRUE, !.context = 0]
        \/ /\ job.context # 0 /\ head <= Len(job.str)
           /\ job' = [job EXCEPT !.context = NextContext(job.str, tail),
                                 !.words = Append(@, SubSeq(job.str, head, tail - 1))]

-----------------------------------------------------------------------------
(* strcmp().  Past its end a string has the character 0.                   *)

Code(s, i) == IF i > Len(s) THEN 0 ELSE CHOOSE n \in DOMAIN LETTERS : LETTERS[n] = s[i]

\* The first index where a ends or the two differ.
Differs(a, b) ==
  Min({k \in 1 .. MAXSTR + 1 : Code(a, k) = 0 \/ Code(a, k) # Code(b, k)})

strcmp(a, b) ==
  LET i == Differs(a, b)
  IN IF Code(a, i) > Code(b, i) THEN 1 ELSE IF Code(a, i) = Code(b, i) THEN 0 ELSE -1

Compare ==
  /\ job.fn = "strcmp" /\ ~job.done
  /\ job' = [job EXCEPT !.done = TRUE, !.res = strcmp(job.a, job.b)]

-----------------------------------------------------------------------------
(* atoi(): blanks, a sign, digits; an unsigned sum that wraps.             *)

atoi(s) ==
  LET nonblank == Min({i \in 1 .. Len(s) : s[i] # " "} \cup {Len(s) + 1})
      sign == nonblank <= Len(s) /\ s[nonblank] \in {"-", "+"}
      neg == sign /\ s[nonblank] = "-"
      start == IF sign THEN nonblank + 1 ELSE nonblank
      end == Min({i \in start .. Len(s) : s[i] \notin Digits0to9} \cup {Len(s) + 1})
      val == FoldLeft(LAMBDA v, c : (v * 10 + ValueOf(c)) % 2^WIDTH, 0, SubSeq(s, start, end - 1))
  IN Signed(IF neg THEN (2^WIDTH - val) % 2^WIDTH ELSE val)

-----------------------------------------------------------------------------
(* kgets().  screen is what the terminal shows of the line, cursor where   *)
(* the next character goes; the terminal shows a long line as it is.       *)

putch(j, ch) ==
  CASE ch = "\\b" -> [j EXCEPT !.cursor = @ - 1]
    [] ch = "\\n" -> [j EXCEPT !.cursor = 0, !.screen = <<>>]
    [] OTHER -> [j EXCEPT !.cursor = @ + 1,
                          !.screen = SubSeq(@, 1, j.cursor) \o <<ch>>
                                       \o SubSeq(@, j.cursor + 2, Len(@))]

backsp(j) == putch(putch(putch(j, "\\b"), " "), "\\b")

\* Erases the last n characters of the line.
Erase(j, n) ==
  FoldLeft(LAMBDA k, i : [backsp(k) EXCEPT !.buf = Front(@)], j, [i \in 1 .. n |-> i])

\* The length of what ^W takes: blanks at the end and the word before them.
LastWord(buf) ==
  LET blanks == Max({k \in 0 .. Len(buf) : \A i \in Len(buf) - k + 1 .. Len(buf) : buf[i] = " "})
      rest == Len(buf) - blanks
      word == Max({k \in 0 .. rest : \A i \in rest - k + 1 .. rest : buf[i] # " "})
  IN blanks + word

Visible(ch) == ch \notin {"\\n", "\\b", "^C", "^R", "^U", "^W"}

\* Mutant of Room: the terminator has no room.
Room_none(j) == Len(j.buf) < LINE

Room(j) == Len(j.buf) < LINE - 1

Ends(j) == [j EXCEPT !.done = TRUE]
Reprint(j) == [putch(j, "\\n") EXCEPT !.screen = j.buf, !.cursor = Len(j.buf)]

\* One character typed; beep() has no effect on the line.
kgets(ch) ==
  LET j == [job EXCEPT !.typed = @ + 1] IN
  /\ job.fn = "kgets" /\ ~job.done /\ job.typed < MAXTYPED
  /\ job' = CASE ch = "\\n" -> Ends(putch(j, "\\n"))
              [] Visible(ch) /\ Room(j) -> [putch(j, ch) EXCEPT !.buf = Append(@, ch)]
              [] ch = "\\b" /\ j.buf # <<>> -> Erase(j, 1)
              [] ch = "^C" -> Ends([putch(j, "\\n") EXCEPT !.buf = <<>>])
              [] ch = "^R" -> Reprint(j)
              [] ch = "^U" -> Erase(j, Len(j.buf))
              [] ch = "^W" -> Erase(j, LastWord(j.buf))
              [] OTHER -> j

-----------------------------------------------------------------------------
Jobs ==
  LET mem == [a \in 0 .. MEMSIZE - 1 |-> a] IN
  {[fn |-> "memmove", done |-> FALSE, mem |-> mem, dst |-> d, src |-> s, len |-> n] :
     d, s, n \in 0 .. MEMSIZE}
  \cup {[fn |-> "strtok_r", done |-> FALSE, str |-> s, context |-> 1, words |-> <<>>] : s \in Strings}
  \cup {[fn |-> "strcmp", done |-> FALSE, a |-> a, b |-> b, res |-> 0] : a, b \in Strings}
  \cup {[fn |-> "kgets", done |-> FALSE, buf |-> <<>>, screen |-> <<>>, cursor |-> 0, typed |-> 0]}

\* Calls of memmove() stay inside the memory.
TextInit ==
  \E j \in Jobs : /\ j.fn = "memmove" => j.dst + j.len <= MEMSIZE /\ j.src + j.len <= MEMSIZE
                  /\ job = j

TextNext == Move \/ strtok_r \/ Compare \/ \E ch \in TYPED : kgets(ch)

-----------------------------------------------------------------------------
(* Properties.                                                             *)

\* Whatever the overlap and the alignment of the two regions, memmove()
\* leaves in the destination what the source held before, and the rest of
\* memory alone.
MoveIsExact ==
  job.fn = "memmove" /\ job.done =>
    job.mem = [a \in 0 .. MEMSIZE - 1 |->
                 IF a \in job.dst .. job.dst + job.len - 1 THEN job.src + (a - job.dst) ELSE a]

\* strtok_r() returns the maximal runs of characters that are not
\* separators, each once and in order.
TokensAreWords ==
  LET Word(i, j) == /\ i <= j
                    /\ \A k \in i .. j : job.str[k] \notin ToSet(SEPS)
                    /\ i = 1 \/ job.str[i - 1] \in ToSet(SEPS)
                    /\ j = Len(job.str) \/ job.str[j + 1] \in ToSet(SEPS)
  IN job.fn = "strtok_r" /\ job.done =>
       /\ Len(job.words) = Cardinality({i \in DOMAIN job.str : \E j \in DOMAIN job.str : Word(i, j)})
       /\ \A w \in DOMAIN job.words : \E i, j \in DOMAIN job.str :
            /\ Word(i, j)
            /\ job.words[w] = SubSeq(job.str, i, j)
            /\ w = Cardinality({k \in 1 .. i : \E l \in DOMAIN job.str : Word(k, l)})

\* strcmp() orders strings like a dictionary: a string before its longer
\* continuations, others by the first character that differs.
CompareIsOrder ==
  LET Less(a, b) == \E n \in 0 .. MAXSTR : /\ n <= Len(a) /\ n < Len(b)
                                           /\ SubSeq(a, 1, n) = SubSeq(b, 1, n)
                                           /\ n = Len(a) \/ Code(a, n + 1) < Code(b, n + 1)
  IN job.fn = "strcmp" /\ job.done =>
       job.res = (IF job.a = job.b THEN 0 ELSE IF Less(job.a, job.b) THEN -1 ELSE 1)

\* Whatever %d prints, with any padding that keeps the digits together,
\* atoi() reads as the number that was printed.
AtoiInvertsPrintf ==
  ~pf.in_pct /\ field.ch = "d" /\ ~(FieldLeft /\ FieldFill = "0")
    => atoi(text) = Signed(field.arg)

\* While a line is edited the terminal shows exactly the characters in the
\* buffer, with blanks where erased ones stood, and the buffer keeps room
\* for the terminator.
ScreenShowsLine ==
  job.fn = "kgets" =>
    /\ Len(job.buf) <= LINE - 1
    /\ ~job.done => /\ job.cursor = Len(job.buf)
                    /\ SubSeq(job.screen, 1, job.cursor) = job.buf
                    /\ \A i \in job.cursor + 1 .. Len(job.screen) : job.screen[i] = " "

\* The text routines compute what their definitions say.
TextExact ==
  MoveIsExact /\ TokensAreWords /\ CompareIsOrder /\ AtoiInvertsPrintf /\ ScreenShowsLine
=============================================================================
