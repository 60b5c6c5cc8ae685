--------------------------- MODULE MCIrcOutqueue ---------------------------
(* Instances of IrcOutqueue for TLC. *)
EXTENDS IrcOutqueue

\* one second between messages of high priority, two for those of low priority
Delays == [p \in Priority |-> p]
=============================================================================
