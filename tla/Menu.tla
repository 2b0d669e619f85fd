-------------------------------- MODULE Menu --------------------------------
(***************************************************************************)
(* The programs that run inside the kernel: the menu of kern/main/menu.c   *)
(* starts a test or the cat and mouse simulation and waits for it.         *)
(***************************************************************************)
EXTENDS CatMouse, KernelTests

menuvars == <<vars, testvars>>

MenuInit == Init /\ TestInit

\* catmouse() returns when all simulations have.
CatMouseReturns ==
  /\ test = "catmouse" /\ joined = NumCats + NumMice
  /\ test' = "menu" /\ driver' = <<"idle", 0>>
  /\ UNCHANGED vars
  /\ UNCHANGED <<line, place, left, count, holder, testval, addr, wakerdone, mismatches>>

MenuNext ==
  \/ test = "catmouse" /\ Next /\ UNCHANGED testvars
  \/ CatMouseReturns
  \/ TestNext /\ UNCHANGED vars

MenuSpec == MenuInit /\ [][MenuNext]_menuvars /\ TestFairness
=============================================================================
