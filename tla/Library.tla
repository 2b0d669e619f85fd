------------------------------ MODULE Library ------------------------------
(***************************************************************************)
(* The code that each thread runs for itself: the heap, the containers,    *)
(* formatted printing and the C library routines, and what a process does  *)
(* on its way to and from its program: copies to and from user memory, the *)
(* loading of its executable and its arguments.  They share no state, so a *)
(* behaviour uses one of them and leaves the others as they were.          *)
(***************************************************************************)
EXTENDS KHeap, Containers, Text, UserMem, Loading, UserStack

VARIABLE part   \* the one in use
libvars == <<heapvars, convars, printvars, job, copyvars, loadvars, argvars, part>>

ContainersIdle ==
  obj = array_create /\ val = <<>> /\ ret = 0 /\ due = 0 /\ failed = FALSE
CopyIdle == CopyStart([a \in User |-> "hole"], 0)
LoadIdle == LoadStart([magic |-> FALSE, len |-> 0, phdrs |-> <<>>])

Init ==
  /\ part \in {"heap", "containers", "print", "text", "copy", "load", "args"}
  /\ HeapInit
  /\ IF part = "containers" THEN ContainersInit ELSE ContainersIdle
  /\ IF part = "print" THEN \E f \in FORMATS, n \in BUFLENS : PrintStart(f, n)
                       ELSE PrintStart(<<>>, 0)
  /\ IF part = "text" THEN TextInit ELSE job = [fn |-> "none"]
  /\ IF part = "copy" THEN CopyInit ELSE CopyIdle
  /\ IF part = "load" THEN LoadInit ELSE LoadIdle
  /\ IF part = "args" THEN ArgsInit ELSE ArgsStart("runprogram", <<>>)

Next ==
  \/ part = "heap" /\ HeapNext
     /\ UNCHANGED <<convars, printvars, job, copyvars, loadvars, argvars, part>>
  \/ part = "containers" /\ ContainersNext
     /\ UNCHANGED <<heapvars, printvars, job, copyvars, loadvars, argvars, part>>
  \/ part = "print" /\ __vprintf
     /\ UNCHANGED <<heapvars, convars, job, copyvars, loadvars, argvars, part>>
  \/ part = "text" /\ TextNext
     /\ UNCHANGED <<heapvars, convars, printvars, copyvars, loadvars, argvars, part>>
  \/ part = "copy" /\ CopyNext
     /\ UNCHANGED <<heapvars, convars, printvars, job, loadvars, argvars, part>>
  \/ part = "load" /\ LoadNext
     /\ UNCHANGED <<heapvars, convars, printvars, job, copyvars, argvars, part>>
  \/ part = "args" /\ ArgsNext
     /\ UNCHANGED <<heapvars, convars, printvars, job, copyvars, loadvars, part>>

Spec == Init /\ [][Next]_libvars
=============================================================================
