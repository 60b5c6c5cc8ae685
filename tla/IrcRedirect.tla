---------------------------- MODULE IrcRedirect ----------------------------
(***************************************************************************)
(* What an IRC server answers: the bytes received (irc_server_recv_cb),    *)
(* the queue of messages received (irc_recv_msgq), and the                 *)
(* redirections that take messages out of it (irc-redirect.c).             *)
(*                                                                         *)
(* The server answers the commands one after another and may send a        *)
(* message of its own between any two.  A message travels as two halves,   *)
(* the second with the end of line, and a read takes any number of them    *)
(* (AddBuffer, RecvEnds).  The commands wait in the queue of IrcOutqueue;  *)
(* what matters of it here is that a redirection starts when its command   *)
(* is sent.                                                                *)
(***************************************************************************)
EXTENDS Integers, Sequences, SequencesExt

CONSTANTS
    Pattern,       \* patterns of redirections
    CmdStart,      \* [Pattern -> set of numerics]: cmd_start,
    CmdStop,       \*    cmd_stop
    CmdExtra,      \*    and cmd_extra
    Unchecked,     \* numerics without the argument the redirection looks for
    Answers,       \* [Pattern -> set of sequences of numerics]: of the server
    Target,        \* nicks and channels
    MaxCommands,   \* bound: commands in a behaviour
    MaxNoise,      \* bound: messages the server sends on its own
    MaxTimeouts,   \* bound: redirections that time out
    MaxConnects    \* bound: connections

None == "none"

\* A message is the at-th one of an answer to the command "of"; the server also
\* sends messages of its own.
Line(n, answer, at, target) == [of |-> n, answer |-> answer, at |-> at, target |-> target]
Noise == Line(0, <<"privmsg">>, 1, None)
Numeric(m) == m.answer[m.at]

ASSUME RedirectAssumption ==
    /\ \A p \in Pattern : CmdStop[p] # {} /\ \A a \in Answers[p] : a \in Seq(STRING) /\ a # <<>>
    /\ None \notin Target
    /\ {MaxCommands, MaxNoise, MaxTimeouts} \subseteq Nat /\ MaxConnects \in Nat \ {0}

VARIABLES
    connected,     \* sock # -1
    redirects,     \* the list of redirections of the server, by the number of
                   \*    their first command: a new one is put at the end
    outqueue,      \* commands not sent yet: sequence of [command, redirect]
    receiving,     \* irc_server_recv_cb is adding what it reads
    unterminated,  \* unterminated_message: halves, without an end of line
    irc_recv_msgq, \* messages received: sequences of halves
    sent,          \* commands the server has not begun to answer
    reply,         \* rest of the answer it is giving
    wire,          \* messages on their way
    halved,        \* the first half of the first of them was read
    \* history
    commands,      \* [pattern, target] of each command given
    reports,       \* redirections that ended: [redirect, error]
    garbled,       \* a message was not a whole line of this connection
    orderly,       \* commands were redirected, answered in time and in one go
    recounts,      \* a redirection counts answers that may have an extra message
    noise, timeouts, connects

client == <<connected, redirects, outqueue, receiving, unterminated, irc_recv_msgq>>
server == <<sent, reply, wire, halved>>
asked == <<commands, orderly, recounts>>
results == <<reports, garbled>>
bounds == <<noise, timeouts, connects>>
vars == <<client, server, asked, results, bounds>>

-----------------------------------------------------------------------------
(* Redirections.                                                           *)

\* irc_redirect_new_with_commands; the redirection of commands n .. n + count - 1
NewRedirect(n, pattern, string, count) ==
    [id |-> n, pattern |-> pattern, string |-> string, count |-> count, current_count |-> 1,
     started |-> FALSE, cmd_start_received |-> FALSE, cmd_stop_received |-> FALSE, output |-> <<>>]

\* irc_redirect_message_match_hash
Match(r, m, cmds) ==
    Numeric(m) \in cmds /\ (r.string = None \/ Numeric(m) \in Unchecked \/ m.target = r.string)

Added(r, m) == [r EXCEPT !.output = Append(@, m)]
StartReceived(r) == [r EXCEPT !.cmd_start_received = TRUE]
StopReceived(r) == [r EXCEPT !.cmd_stop_received = TRUE]

\* irc_redirect_stop: it is over, or waits for the next answer
Stop(r, error) ==
    IF error \/ r.current_count + 1 > r.count THEN [redirect |-> r, over |-> TRUE]
    ELSE [redirect |-> [r EXCEPT !.current_count = @ + 1, !.cmd_start_received = FALSE,
                                 !.cmd_stop_received = FALSE], over |-> FALSE]

Keep(r) == [redirect |-> r, over |-> FALSE]
Takes(x, taken) == [redirect |-> x.redirect, over |-> x.over, taken |-> taken]
Report(r, error) == [redirect |-> r, error |-> error]

\* Mutant: between start and stop only the messages of the pattern are taken.
OneOnlyMatching(r, m) ==
    LET p == r.pattern
        start == ~r.cmd_start_received /\ Match(r, m, CmdStart[p])
    IN  IF r.started /\ Match(r, m, CmdStop[p]) THEN Takes(Stop(Added(r, m), FALSE), TRUE)
        ELSE IF r.started /\ start THEN Takes(Keep(StartReceived(Added(r, m))), TRUE)
        ELSE Takes(Keep(r), FALSE)

\* a redirection of the list and a message, in irc_redirect_message
One(r, m) ==
    LET p == r.pattern
        stop == Match(r, m, CmdStop[p])
    IN  IF ~r.started THEN Takes(Keep(r), FALSE)
        ELSE IF r.cmd_stop_received
        THEN IF Match(r, m, CmdExtra[p]) THEN Takes(Stop(Added(r, m), FALSE), TRUE)
             ELSE Takes(Stop(r, FALSE), FALSE)
        ELSE IF ~r.cmd_start_received /\ Match(r, m, CmdStart[p])
        THEN Takes(Keep(StartReceived(Added(r, m))), TRUE)
        ELSE IF ~stop /\ ~r.cmd_start_received THEN Takes(Keep(r), FALSE)
        ELSE IF ~stop THEN Takes(Keep(Added(r, m)), TRUE)
        ELSE IF CmdExtra[p] = {} \/ Match(r, m, CmdExtra[p]) THEN Takes(Stop(Added(r, m), FALSE), TRUE)
        ELSE Takes(Keep(StopReceived(Added(r, m))), TRUE)

\* Mutant: the message goes on to the next redirections.
ReachedAll(list, m) == DOMAIN list

\* the redirections a message comes to, until one takes it
Reached(list, m) ==
    {n \in DOMAIN list : \A k \in DOMAIN list : k < n => ~One(list[k], m).taken}

\* irc_redirect_message
Message(list, m) ==
    LET x == [n \in Reached(list, m) |-> One(list[n], m)]
        over == {n \in DOMAIN x : x[n].over}
    IN  [redirects |-> [n \in DOMAIN list \ over |->
                           IF n \in DOMAIN x THEN x[n].redirect ELSE list[n]],
         reports   |-> {Report(x[n].redirect, FALSE) : n \in over},
         taken     |-> \E n \in DOMAIN x : x[n].taken]

-----------------------------------------------------------------------------
(* Messages received.                                                      *)
Half(m, i) == [msg |-> m, conn |-> connects, half |-> i]
Halves(m) == <<Half(m, 1), Half(m, 2)>>

\* the main loop runs when the queue of messages received is flushed
Idle == ~receiving /\ irc_recv_msgq = <<>>

\* Mutant: the unterminated message is kept.
ClosedKeepsMessage == [unterminated |-> unterminated, redirects |-> <<>>, outqueue |-> <<>>]

\* irc_server_close_connection
Closed == [unterminated |-> <<>>, redirects |-> <<>>, outqueue |-> <<>>]

\* irc_server_disconnect: nothing of the connection is left
Disconnected ==
    /\ connected' = FALSE
    /\ unterminated' = Closed.unterminated
    /\ redirects' = Closed.redirects
    /\ outqueue' = Closed.outqueue
    /\ sent' = <<>> /\ reply' = <<>> /\ wire' = <<>> /\ halved' = FALSE

\* irc_server_recv_cb, irc_server_msgq_add_buffer: one more half was read; an
\* end of line ends a message
AddBuffer ==
    LET line == Append(unterminated, Half(Head(wire), IF halved THEN 2 ELSE 1))
    IN  /\ connected /\ (receiving \/ Idle)
        /\ wire # <<>>
        /\ receiving' = TRUE
        /\ halved' = ~halved
        /\ IF halved THEN /\ irc_recv_msgq' = Append(irc_recv_msgq, line)
                          /\ unterminated' = <<>>
                          /\ wire' = Tail(wire)
           ELSE unterminated' = line /\ UNCHANGED <<irc_recv_msgq, wire>>
        /\ UNCHANGED <<connected, redirects, outqueue, sent, reply, asked, results, bounds>>

\* irc_server_recv_cb: no more data, or an error or the end of the stream
RecvEnds(lost) ==
    /\ receiving \/ (lost /\ Idle /\ connected)
    /\ receiving' = FALSE
    /\ IF lost THEN Disconnected
       ELSE UNCHANGED <<connected, redirects, outqueue, unterminated, server>>
    /\ UNCHANGED <<irc_recv_msgq, asked, results, bounds>>

\* irc_server_msgq_flush, for one message; its callbacks may disconnect
Flush(disconnects) ==
    LET line == Head(irc_recv_msgq)
        m == Last(line).msg
        x == Message(redirects, m)
    IN  /\ ~receiving /\ irc_recv_msgq # <<>>
        /\ irc_recv_msgq' = Tail(irc_recv_msgq)
        /\ IF connected
           THEN /\ garbled' = (garbled \/ line # Halves(m))
                /\ reports' = reports \cup x.reports
                /\ IF disconnects /\ ~x.taken THEN Disconnected
                   ELSE redirects' = x.redirects /\ UNCHANGED <<connected, outqueue, unterminated, server>>
           ELSE ~disconnects /\ UNCHANGED <<connected, redirects, outqueue, unterminated, server, results>>
        /\ orderly' = (orderly /\ ~(m = Noise /\ \E n \in DOMAIN redirects : redirects[n].cmd_stop_received))
        /\ UNCHANGED <<receiving, commands, recounts, bounds>>

-----------------------------------------------------------------------------
(* Commands.                                                               *)

\* a script redirects a command and gives it, count times
Ask(pattern, target, string, count) ==
    LET n == Len(commands) + 1
    IN  /\ Idle /\ connected
        /\ n + count - 1 <= MaxCommands
        /\ commands' = commands \o [i \in 1 .. count |-> [pattern |-> pattern, target |-> target]]
        /\ redirects' = [k \in DOMAIN redirects \cup {n} |->
               IF k = n THEN NewRedirect(n, pattern, string, count) ELSE redirects[k]]
        /\ outqueue' = outqueue \o [i \in 1 .. count |->
               [command |-> n + i - 1, redirect |-> IF i = 1 THEN n ELSE 0]]
        /\ recounts' = (recounts \/ (count > 1 /\ CmdExtra[pattern] # {}))
        /\ UNCHANGED <<connected, receiving, unterminated, irc_recv_msgq, server, orderly, results, bounds>>

\* the user gives a command
Type(pattern, target) ==
    /\ Idle /\ connected /\ Len(commands) < MaxCommands
    /\ commands' = Append(commands, [pattern |-> pattern, target |-> target])
    /\ outqueue' = Append(outqueue, [command |-> Len(commands) + 1, redirect |-> 0])
    /\ orderly' = FALSE
    /\ UNCHANGED <<connected, redirects, receiving, unterminated, irc_recv_msgq, server, recounts,
                   results, bounds>>

\* irc_server_outqueue_send, irc_redirect_init_command
Send ==
    /\ Idle /\ connected /\ outqueue # <<>>
    /\ sent' = Append(sent, Head(outqueue).command)
    /\ redirects' = [n \in DOMAIN redirects |->
           IF n = Head(outqueue).redirect THEN [redirects[n] EXCEPT !.started = TRUE]
           ELSE redirects[n]]
    /\ outqueue' = Tail(outqueue)
    /\ UNCHANGED <<connected, receiving, unterminated, irc_recv_msgq, reply, wire, halved, asked,
                   results, bounds>>

\* irc_server_timer_cb: redirections that have waited for too long
Timeout(n) ==
    /\ Idle /\ timeouts < MaxTimeouts
    /\ redirects[n].started
    /\ reports' = reports \cup {Report(Stop(redirects[n], TRUE).redirect, TRUE)}
    /\ redirects' = [k \in DOMAIN redirects \ {n} |-> redirects[k]]
    /\ orderly' = FALSE
    /\ timeouts' = timeouts + 1
    /\ UNCHANGED <<connected, outqueue, receiving, unterminated, irc_recv_msgq, server, commands,
                   recounts, garbled, noise, connects>>

Connect ==
    /\ Idle /\ ~connected /\ connects < MaxConnects
    /\ connected' = TRUE
    /\ connects' = connects + 1
    /\ UNCHANGED <<redirects, outqueue, receiving, unterminated, irc_recv_msgq, server, asked, results,
                   noise, timeouts>>

-----------------------------------------------------------------------------
(* The server.                                                             *)
ServerAnswers ==
    /\ sent # <<>> /\ reply = <<>>
    /\ \E a \in Answers[commands[Head(sent)].pattern] :
          reply' = [i \in DOMAIN a |-> Line(Head(sent), a, i, commands[Head(sent)].target)]
    /\ sent' = Tail(sent)
    /\ UNCHANGED <<client, wire, halved, asked, results, bounds>>

ServerSends ==
    /\ reply # <<>>
    /\ wire' = Append(wire, Head(reply))
    /\ reply' = Tail(reply)
    /\ UNCHANGED <<client, sent, halved, asked, results, bounds>>

ServerNoise ==
    /\ connected /\ noise < MaxNoise
    /\ wire' = Append(wire, Noise)
    /\ noise' = noise + 1
    /\ UNCHANGED <<client, sent, reply, halved, asked, results, timeouts, connects>>

-----------------------------------------------------------------------------
Init ==
    /\ connected = TRUE /\ redirects = <<>> /\ outqueue = <<>>
    /\ receiving = FALSE /\ unterminated = <<>> /\ irc_recv_msgq = <<>>
    /\ sent = <<>> /\ reply = <<>> /\ wire = <<>> /\ halved = FALSE
    /\ commands = <<>> /\ reports = {}
    /\ garbled = FALSE /\ orderly = TRUE /\ recounts = FALSE
    /\ noise = 0 /\ timeouts = 0 /\ connects = 1

Client ==
    \/ AddBuffer
    \/ \E lost \in BOOLEAN : RecvEnds(lost)
    \/ \E disconnects \in BOOLEAN : Flush(disconnects)
    \/ \E p \in Pattern, t \in Target :
          \/ Type(p, t)
          \/ \E s \in {None, t}, count \in 1 .. 2 : Ask(p, t, s, count)
    \/ Send
    \/ \E n \in DOMAIN redirects : Timeout(n)
    \/ Connect

Next == Client \/ ServerAnswers \/ ServerSends \/ ServerNoise

Spec == Init /\ [][Next]_vars

-----------------------------------------------------------------------------
(* Properties.                                                             *)
Ids(r) == r.id .. r.id + r.count - 1
Lines(r) == {r.output[i] : i \in DOMAIN r.output}
Finished == {x.redirect : x \in {y \in reports : ~y.error}}

\* Every variable has its type.
TypeOK ==
    /\ {connected, receiving, halved, garbled, orderly, recounts} \subseteq BOOLEAN
    /\ \A n \in DOMAIN redirects : LET r == redirects[n] IN
          /\ r.id = n /\ Ids(r) \subseteq DOMAIN commands
          /\ r.current_count \in 1 .. r.count
          /\ r.cmd_start_received \/ r.cmd_stop_received => r.started
    /\ unterminated # <<>> => Last(unterminated).half = 1
    /\ \A i \in DOMAIN irc_recv_msgq : Last(irc_recv_msgq[i]).half = 2
    /\ ~connected => DOMAIN redirects = {} /\ outqueue = <<>> /\ unterminated = <<>>

\* A message that is handled is one whole line of the connection, however the
\* line was cut by the reads, and never the end of one connection with the
\* beginning of the next.
WholeLines == ~garbled

\* What the patterns rely on: an answer has one message that starts it or none,
\* the k-th ends it, and only an extra message comes after that; no answer begins
\* with an extra message, and the server's own messages are in no pattern.
EndsAt(p, a, k) ==
    /\ a[k] \in CmdStop[p]
    /\ \A i \in DOMAIN a : IF i < k THEN a[i] \notin CmdStop[p] ELSE a[i] \notin CmdStart[p]
    /\ k > 1 => a[1] \in CmdStart[p]
    /\ \/ Len(a) = k
       \/ /\ CmdExtra[p] # {} /\ a[k] \notin CmdExtra[p]
          /\ Len(a) = k + 1 /\ a[k + 1] \in CmdExtra[p]

Regular ==
    \A p \in Pattern :
        /\ \A a \in Answers[p] : \E k \in DOMAIN a : EndsAt(p, a, k)
        /\ \A q \in Pattern : \A a \in Answers[q] : a[1] \notin CmdExtra[p]
        /\ Numeric(Noise) \notin CmdStart[p] \cup CmdStop[p] \cup CmdExtra[p]

\* What redirections with a string rely on: every numeric has the argument they
\* look for, and none is in two patterns.
Distinct ==
    \A p \in Pattern : LET cmds == CmdStart[p] \cup CmdStop[p] \cup CmdExtra[p] IN
        /\ cmds \cap Unchecked = {}
        /\ \A q \in Pattern \ {p} : \A a \in Answers[q] : \A i \in DOMAIN a : a[i] \notin cmds

\* A redirection with a string (a nick, a channel) takes no answer about
\* another one, even when answers of commands that were not redirected or
\* late answers of a redirection that timed out come in between: once it has
\* started it takes every message and relies on the order of the answers.
\* (Not when a redirection counts answers that may have an extra message: an
\* extra message that does not come makes it lose the first message of the
\* next answer, which another redirection may take as its own.)
StringKeepsOut ==
    ~recounts => \A x \in reports : LET r == x.redirect IN
        r.string # None => \A m \in Lines(r) : m.of # 0 => m.target = r.string

\* While every command is redirected and answered in time, and no message of
\* the server's own comes between the message that ends an answer and its
\* extra message, a redirection gets answers to its own commands only, even
\* if many run with the same pattern.
AnswersAreOwn ==
    orderly /\ ~recounts => \A x \in reports : LET r == x.redirect IN
        \A m \in Lines(r) : m.of # 0 => m.of \in Ids(r)

\* The messages of command n that r has are the first l of the answer a, in order.
Got(r, n, a, l) ==
    LET own == {i \in DOMAIN r.output : r.output[i].of = n}
    IN  /\ \A j \in 1 .. l : \E i \in own : r.output[i].at = j
        /\ \A i \in own : /\ r.output[i].at <= l /\ r.output[i].answer = a
                          /\ \A k \in own : i < k => r.output[i].at < r.output[k].at

\* ... and it has all of them: of each answer the first messages, up to the one
\* that ends it at least.
AnswersComplete ==
    orderly /\ ~recounts => \A r \in Finished : \A n \in Ids(r) :
        \E a \in Answers[r.pattern] : \E l \in 1 .. Len(a) :
            Got(r, n, a, l) /\ \E j \in 1 .. l : a[j] \in CmdStop[r.pattern]

\* A script is told once of the end of its redirection, which is then gone.
EndsOnce ==
    /\ \A x, y \in reports : x.redirect.id = y.redirect.id => x = y
    /\ \A x \in reports : x.redirect.id \notin DOMAIN redirects
-----------------------------------------------------------------------------
(* Conjunctions of the properties above, as the runs check them.           *)

\* The queue of received messages holds whole lines of one connection
\* (irc_server_msgq_add_buffer, irc_server_msgq_add_unterminated).
LinesWhole == TypeOK /\ WholeLines

\* A redirection takes the messages of its own answer
\* (irc_redirect_message, irc_redirect_message_match_hash).
OwnAnswers == StringKeepsOut /\ AnswersAreOwn

\* A redirection gives its whole answer, once (irc_redirect_message,
\* irc_redirect_stop).
AnswersWhole == AnswersComplete /\ EndsOnce
=============================================================================
