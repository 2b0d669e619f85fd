------------------------------- MODULE MCMenu -------------------------------
(* The instance of Menu for TLC: every test after every other, and the cat *)
(* and mouse simulation.                                                   *)
EXTENDS Menu

Lines == {<<"catmouse", "semtest">>}
           \cup {<<t, u>> : t, u \in Tests \ {"threadtest3"}}
           \cup {<<"threadtest3">>, <<"threadtest3", "threadtest3">>}
=============================================================================
