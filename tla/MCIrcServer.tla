---------------------------- MODULE MCIrcServer ----------------------------
(* Instances of IrcServer for TLC: how the addresses behave.               *)
EXTENDS IrcServer

\* the second of three addresses works; the others fail in any way, but for a
\* nick that the first one would refuse for ever
SomeStatus == [a \in Address |-> {"OK"} \cup
    IF a = 1 THEN {} ELSE {"ADDRESS_NOT_FOUND", "CONNECTION_REFUSED", "MEMORY_ERROR", "SOCKET_ERROR"}]
SomeLogin == [a \in Address |-> CASE a = 0 -> Login \ {"nick_refused"} [] a = 1 -> {"001"} [] OTHER -> Login]
=============================================================================
