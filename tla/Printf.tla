------------------------------- MODULE Printf -------------------------------
(***************************************************************************)
(* Formatted printing: lib/libc/__printf.c and snprintf.c, which the       *)
(* kernel and user programs share.  A format is sent one character at a    *)
(* time; every conversion takes an argument.  Integers have WIDTH bits.    *)
(*                                                                         *)
(* For the properties, text is what was sent since the last percent sign,  *)
(* mods the modifiers that followed it, and field the conversion that      *)
(* ended last.                                                             *)
(***************************************************************************)
EXTENDS Integers, Sequences, SequencesExt, FiniteSetsExt

CONSTANTS
  WIDTH,       \* bits of an int and of a long
  NUMS,        \* the integer arguments, as unsigned numbers
  STRS,        \* the string arguments
  FORMATS,     \* the formats, as sequences of characters
  BUFLENS      \* the lengths given to snprintf()

ASSUME PrintfAssumption ==
  /\ WIDTH \in Nat \ {0}
  /\ NUMS \subseteq 0 .. 2^WIDTH - 1
  /\ BUFLENS \subseteq Nat

VARIABLES
  pf,     \* the PF structure
  text, mods, field,
  snp,    \* the SNP structure: buf, buflen, bufpos
  front,  \* the beginning of all that was sent, as long as the buffer
  fmt     \* what is left of the format
printvars == <<pf, text, mods, field, snp, front, fmt>>

DIGITS == <<"0", "1", "2", "3", "4", "5", "6", "7", "8", "9", "a", "b", "c",
            "d", "e", "f">>
Digit(d) == DIGITS[d + 1]
NUMBER_BUF_SIZE == WIDTH \div 3 + 2
Rep(c, n) == [i \in 1 .. n |-> c]
None == [ch |-> "none"]

\* The state for the next field.
__pf_endfield(p) ==
  [p EXCEPT !.in_pct = FALSE, !.num = 0, !.sign = FALSE, !.spacing = 0,
            !.rightspc = FALSE, !.fillchar = " ", !.base = 0,
            !.baseprefix = FALSE, !.altformat = FALSE]

Digits0to9 == {DIGITS[i] : i \in 1 .. 10}
ValueOf(c) == CHOOSE d \in 0 .. 15 : DIGITS[d + 1] = c

\* int and long have one size here: l and q change nothing.
__pf_modifier(p, ch) ==
  CASE ch = "#" -> [p EXCEPT !.altformat = TRUE]
    [] ch = "-" -> [p EXCEPT !.rightspc = TRUE]
    [] ch = "l" -> p
    [] ch = "0" -> IF p.spacing > 0 THEN [p EXCEPT !.spacing = @ * 10]
                                    ELSE [p EXCEPT !.fillchar = "0"]
    [] ch \in Digits0to9 \ {"0"} -> [p EXCEPT !.spacing = @ * 10 + ValueOf(ch)]

Signed(n) == IF n >= 2^(WIDTH - 1) THEN n - 2^WIDTH ELSE n

\* Mutant of __pf_getnum: the negated number is kept in a signed variable.
__pf_getnum_signed(p, ch, arg) ==
  IF ch = "d" /\ Signed(arg) < 0
    THEN [p EXCEPT !.sign = TRUE, !.num = (-Signed(arg)) % 2^(WIDTH - 1)]
    ELSE [p EXCEPT !.num = arg]

\* The argument, as magnitude and sign for %d.
__pf_getnum(p, ch, arg) ==
  IF ch = "d" /\ Signed(arg) < 0
    THEN [p EXCEPT !.sign = TRUE, !.num = (-Signed(arg)) % 2^WIDTH]
    ELSE [p EXCEPT !.num = arg]

__pf_setbase(p, ch) ==
  [p EXCEPT !.base = IF ch \in {"d", "u"} THEN 10 ELSE IF ch = "o" THEN 8 ELSE 16,
            !.baseprefix = p.altformat \/ ch = "p"]

\* Blanks go before the prefixes, zeros after them, and both after the text
\* when it is aligned to the left.
__pf_printstuff(p, prefix, prefix2, stuff) ==
  LET len == Len(prefix) + Len(prefix2) + Len(stuff)
      fill == Rep(p.fillchar, IF p.spacing > len THEN p.spacing - len ELSE 0)
      left == ~p.rightspc
  IN (IF left /\ p.fillchar # "0" THEN fill ELSE <<>>) \o prefix \o prefix2
     \o (IF left /\ p.fillchar = "0" THEN fill ELSE <<>>) \o stuff
     \o (IF ~left THEN fill ELSE <<>>)

\* The digits of n, filled in from the right.
NumberText(n, base) ==
  LET t[m \in 0 .. n] == IF m < base THEN <<Digit(m)>>
                         ELSE Append(t[m \div base], Digit(m % base))
  IN t[n]

Prefix(p) == IF p.baseprefix /\ p.base = 16 THEN <<"0", "x">>
             ELSE IF p.baseprefix /\ p.base = 8 THEN <<"0">> ELSE <<>>

__pf_printnum(p) ==
  __pf_printstuff(p, IF p.sign THEN <<"-">> ELSE <<>>, Prefix(p), NumberText(p.num, p.base))

-----------------------------------------------------------------------------
(* Output: __pf_print() counts, snprintf's function stores.                *)

\* What __snprintf_send() keeps of chars.
Stored(s, chars) ==
  LET n == IF s.len = 0 THEN 0 ELSE s.len - 1
      room == IF s.pos + Len(chars) <= n THEN Len(chars) ELSE n - s.pos
  IN [s EXCEPT !.buf = @ \o SubSeq(chars, 1, room), !.pos = @ + room]

__pf_print(p, chars) ==
  /\ pf' = [p EXCEPT !.charcount = @ + Len(chars)]
  /\ snp' = Stored(snp, chars)
  /\ text' = text \o chars
  /\ front' = LET all == front \o chars IN SubSeq(all, 1, Min({Len(all), Max(BUFLENS)}))

\* The conversion ch of argument arg with modifiers p printed chars.
Converted(p, ch, arg, chars) ==
  /\ __pf_print(__pf_endfield(p), chars)
  /\ field' = [ch |-> ch, arg |-> arg]
  /\ UNCHANGED mods

SendPlain(ch) ==
  /\ ~pf.in_pct /\ ch # "%"
  /\ __pf_print(pf, <<ch>>)
  /\ field' = None
  /\ UNCHANGED mods

SendPercent(ch) ==
  /\ ~pf.in_pct /\ ch = "%"
  /\ pf' = [pf EXCEPT !.in_pct = TRUE]
  /\ text' = <<>> /\ mods' = <<>> /\ field' = None
  /\ UNCHANGED <<snp, front>>

SendModifier(ch) ==
  /\ pf.in_pct /\ ch \in {"#", "-", "l"} \cup Digits0to9
  /\ pf' = __pf_modifier(pf, ch)
  /\ mods' = Append(mods, ch)
  /\ UNCHANGED <<text, field, snp, front>>

SendInteger(ch) ==
  /\ pf.in_pct /\ ch \in {"d", "o", "u", "p", "x"}
  /\ \E arg \in NUMS :
       LET p == __pf_setbase(__pf_getnum(pf, ch, arg), ch)
       IN Converted(p, ch, arg, __pf_printnum(p))

SendString(ch) ==
  /\ pf.in_pct /\ ch = "s"
  /\ \E arg \in STRS : Converted(pf, ch, arg, __pf_printstuff(pf, <<>>, <<>>, arg))

\* %c prints its argument, anything else itself.
SendOther(ch) ==
  /\ pf.in_pct /\ ch \notin {"#", "-", "l", "d", "o", "u", "p", "x", "s"} \cup Digits0to9
  /\ LET x == <<IF ch = "c" THEN "a" ELSE ch>>
     IN Converted(pf, ch, x, __pf_printstuff(pf, <<>>, <<>>, x))

\* One character of the format.
__pf_send(ch) ==
  \/ SendPlain(ch) \/ SendPercent(ch) \/ SendModifier(ch)
  \/ SendInteger(ch) \/ SendString(ch) \/ SendOther(ch)

\* The loop over the format.
__vprintf ==
  /\ fmt # <<>>
  /\ __pf_send(Head(fmt))
  /\ fmt' = Tail(fmt)

\* vsnprintf() and __vprintf() up to the first character of format f.
PrintStart(f, len) ==
  /\ pf = __pf_endfield([in_pct |-> FALSE, num |-> 0, sign |-> FALSE, spacing |-> 0,
                         rightspc |-> FALSE, fillchar |-> " ", base |-> 0,
                         baseprefix |-> FALSE, altformat |-> FALSE, charcount |-> 0])
  /\ snp = [buf |-> <<>>, len |-> len, pos |-> 0]
  /\ text = <<>> /\ mods = <<>> /\ field = None /\ front = <<>> /\ fmt = f

-----------------------------------------------------------------------------
(* Properties.                                                             *)

\* The number that digits denote in a base.
Eval(ds, base) == FoldLeft(LAMBDA n, c : n * base + ValueOf(c), 0, ds)

\* What the format asked for, read off the modifiers of the field.
FieldWidth == Eval(SelectSeq(mods, LAMBDA c : c \in Digits0to9), 10)
FieldLeft == "-" \in ToSet(mods)
FieldFill == IF \E i \in DOMAIN mods : mods[i] = "0" /\
                  \A j \in 1 .. i : mods[j] \notin Digits0to9 \ {"0"}
             THEN "0" ELSE " "
FieldBase == IF field.ch \in {"d", "u"} THEN 10 ELSE IF field.ch = "o" THEN 8 ELSE 16
FieldSign == IF field.ch = "d" /\ Signed(field.arg) < 0 THEN <<"-">> ELSE <<>>
FieldPrefix == IF ~("#" \in ToSet(mods) \/ field.ch = "p") \/ FieldBase = 10 THEN <<>>
               ELSE IF FieldBase = 8 THEN <<"0">> ELSE <<"0", "x">>
FieldNumber == IF field.ch = "d" /\ Signed(field.arg) < 0 THEN -Signed(field.arg)
               ELSE field.arg

\* text is head and body padded to the width: blanks before both, zeros
\* between them, or the fill character behind, as the format asked.
Padded(head, body) ==
  LET len == Len(head) + Len(body)
      pad == Rep(FieldFill, IF FieldWidth > len THEN FieldWidth - len ELSE 0)
  IN text = IF FieldLeft THEN head \o body \o pad
            ELSE IF FieldFill = "0" THEN head \o pad \o body
            ELSE pad \o head \o body

\* Every number printed reads back as the argument, in its base and with its
\* sign, for the smallest integer too, and fits the buffer it is made in.
NumbersReadBack ==
  pf.in_pct \/ field.ch \notin {"d", "o", "u", "p", "x"} \/
  \E i \in 1 .. Len(text), j \in 1 .. Len(text) :
    LET body == SubSeq(text, i, j) IN
      /\ i <= j
      /\ \A k \in i .. j : text[k] \in ToSet(DIGITS)
      /\ Len(body) > 1 => body[1] # "0"
      /\ Len(body) + 1 <= NUMBER_BUF_SIZE
      /\ Eval(body, FieldBase) = FieldNumber
      /\ Padded(FieldSign \o FieldPrefix, body)

\* Strings and characters are padded to the width of their own field: what
\* an earlier field asked for has no effect.
StringsPadded ==
  pf.in_pct \/ field.ch \in {"none", "d", "o", "u", "p", "x"} \/ Padded(<<>>, field.arg)

\* snprintf() stores the beginning of the output and leaves room for the
\* terminator, however the output was cut into pieces; the count it returns
\* covers what did not fit.
BufferHoldsFront ==
  LET room == IF snp.len = 0 THEN 0 ELSE snp.len - 1 IN
    /\ snp.pos = Len(snp.buf) /\ snp.pos <= room
    /\ snp.pos = (IF pf.charcount < room THEN pf.charcount ELSE room)
    /\ snp.buf = SubSeq(front, 1, snp.pos)

\* Every field of a format is printed as its argument says, and snprintf()
\* stores the front of it.
PrintedRight == NumbersReadBack /\ StringsPadded /\ BufferHoldsFront
=============================================================================
