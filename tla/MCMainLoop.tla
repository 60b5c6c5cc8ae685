----------------------------- MODULE MCMainLoop -----------------------------
(* An instance of MainLoop for TLC. *)
EXTENDS MainLoop

\* a timer called once, and an aligned one that runs for ever
Kinds == {[interval |-> 1, align_second |-> 0, max_calls |-> 1],
          [interval |-> 2, align_second |-> 2, max_calls |-> 0]}

\* back, far enough to be noticed
SomeJumps == {-8}
=============================================================================
