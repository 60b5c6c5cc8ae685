---------------------------- MODULE FileTransfer ----------------------------
(***************************************************************************)
(* What the transfer of a file promises to the user who receives it         *)
(* (abstract specification of the plugin "xfer"): the copy on disk is a     *)
(* beginning of the file at any moment, whatever happens to the connection, *)
(* the processes and the messages; "received: OK" is only said of the whole *)
(* file, it is the last thing said, and the copy does not change any more.  *)
(***************************************************************************)
EXTENDS Integers, Sequences

VARIABLES
    file,   \* the file that is sent
    copy,   \* what the receiver has of it on disk
    verdict \* the last outcome the receiving user was told

vars == <<file, copy, verdict>>

Verdicts == {"none", "failed", "done"}

Init ==
    /\ copy = <<>>
    /\ verdict = "none"

\* some more of the file reaches the disk
Extend ==
    /\ verdict # "done"
    /\ \E n \in (Len(copy) + 1)..Len(file) : copy' = SubSeq(file, 1, n)
    /\ UNCHANGED <<file, verdict>>

\* the next attempt starts with a new file on disk
StartOver ==
    /\ verdict # "done"
    /\ copy' = <<>>
    /\ UNCHANGED <<file, verdict>>

Fail ==
    /\ verdict # "done"
    /\ verdict' = "failed"
    /\ UNCHANGED <<file, copy>>

Finish ==
    /\ copy = file
    /\ verdict' = "done"
    /\ UNCHANGED <<file, copy>>

Next == Extend \/ StartOver \/ Fail \/ Finish

Spec == Init /\ [][Next]_vars
=============================================================================
