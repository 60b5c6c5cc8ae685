--------------------------- MODULE MCIrcRedirect ---------------------------
(* Two of the patterns of irc_redirect_patterns, with what servers answer: a *)
(* start, other messages and a stop; an error, after which the extra message *)
(* may be missing; no start.                                                 *)
EXTENDS IrcRedirect

Patterns == {"whois", "who"}
Starts == [whois |-> {"311"}, who |-> {"352"}]
Stops == [whois |-> {"318", "401"}, who |-> {"315"}]
Extras == [whois |-> {"318"}, who |-> {}]
ServerAnswersWith ==
    [whois |-> {<<"311", "319", "318">>, <<"401", "318">>, <<"401">>},
     who |-> {<<"352", "315">>, <<"315">>}]

\* What the proofs assume of the patterns and of the server.
ASSUME PatternsAssumption == Regular /\ Distinct

Symmetry == Permutations(Target)
=============================================================================
