------------------------------ MODULE FileStore ------------------------------
(***************************************************************************)
(* What a file system promises: files, which have contents, and names of   *)
(* them.  A file lives as long as it has a name or someone holds it open.  *)
(* Once the store is broken (a failure was reported, or the machine went   *)
(* down) it promises nothing more.                                         *)
(***************************************************************************)
EXTENDS Integers, Sequences

CONSTANTS
  NAMES, IDS,   \* names, and identities of files
  UNITS,        \* what a write may write
  LIMIT         \* the longest file

VARIABLES
  names,    \* name -> file
  data,     \* file -> contents
  held,     \* the files that are open
  broken

vars == <<names, data, held, broken>>

Files(ns) == {ns[f] : f \in DOMAIN ns}

Init ==
  /\ held = {} /\ ~broken
  /\ DOMAIN names \subseteq NAMES
  /\ DOMAIN data = Files(names)

\* The contents after units are written at pos; a gap reads as zeros.
Overlay(old, pos, units) ==
  LET len == IF pos + Len(units) > Len(old) THEN pos + Len(units) ELSE Len(old)
  IN  [n \in 1 .. len |->
         IF n > pos /\ n <= pos + Len(units) THEN units[n - pos]
         ELSE IF n <= Len(old) THEN old[n] ELSE 0]

\* The names and contents become ns and ds; of files without a name only
\* those that are open are left.
Becomes(ns, ds) ==
  /\ names' = ns
  /\ data' = [id \in Files(ns) \cup held' |-> ds[id]]

Create(f, id) ==
  /\ f \notin DOMAIN names /\ id \notin DOMAIN data
  /\ Becomes([g \in DOMAIN names \cup {f} |-> IF g = f THEN id ELSE names[g]],
             [i \in DOMAIN data \cup {id} |-> IF i = id THEN <<>> ELSE data[i]])

Write(id, pos, units) ==
  Becomes(names, [data EXCEPT ![id] = Overlay(@, pos, units)])

Truncate(id) == Becomes(names, [data EXCEPT ![id] = <<>>])

Link(f, g) ==
  /\ g \notin DOMAIN names
  /\ Becomes([h \in DOMAIN names \cup {g} |->
                IF h = g THEN names[f] ELSE names[h]], data)

Unlink(f) == Becomes([h \in DOMAIN names \ {f} |-> names[h]], data)

Rename(f, g) ==
  /\ g \notin DOMAIN names
  /\ Becomes([h \in (DOMAIN names \ {f}) \cup {g} |->
                IF h = g THEN names[f] ELSE names[h]], data)

\* Files are opened or closed, and their contents stay.
Keep == held' \subseteq DOMAIN data /\ Becomes(names, data)

Next ==
  \/ broken'
  \/ /\ ~broken'
     /\ \/ Keep
        \/ \E f \in NAMES, id \in IDS : Create(f, id)
        \/ \E id \in held, pos \in 0 .. LIMIT, u \in UNITS : Write(id, pos, u)
        \/ \E id \in DOMAIN data : Truncate(id)
        \/ \E f \in DOMAIN names : Unlink(f)
        \/ \E f \in DOMAIN names, g \in NAMES : Link(f, g) \/ Rename(f, g)

Spec == Init /\ [][Next]_vars
=============================================================================
