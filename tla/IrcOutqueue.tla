---------------------------- MODULE IrcOutqueue ----------------------------
(***************************************************************************)
(* What an IRC server sends: irc_server_send_one_msg, the two queues of    *)
(* the anti-flood, and the redirections that the messages carry            *)
(* (irc-server.c, irc-redirect.c).                                         *)
(*                                                                         *)
(* These functions send signals in the middle ("irc_out_xxx" before a      *)
(* message is sent, "irc_redirection_xxx" before a redirection is freed),  *)
(* and run a modifier first; their callbacks may send other messages, empty *)
(* the queues or disconnect before the function goes on.  "stack" holds one frame per function in   *)
(* progress, the innermost last.  Messages are numbered in the order they  *)
(* are given to irc_server_send_one_msg; the redirection made for a        *)
(* message has its number.  Time is counted in seconds and does not pass   *)
(* during a callback.                                                      *)
(***************************************************************************)
EXTENDS Integers, Sequences, FiniteSets

CONSTANTS
    AntiFlood,    \* [1..2 -> Nat]: options anti_flood_prio_high and _low
    SendsIn,      \* frames whose callbacks send messages
    EmptiesIn,    \* frames whose callbacks disconnect or empty the queues
    Drops,        \* may a modifier "irc_out_xxx" drop a message?
    SendFails,    \* may send() fail on a live socket?
    Deletes,      \* may the user run /server deloutq?
    MaxMessages,  \* bound: messages in a behaviour
    MaxBacks,     \* bound: how often the clock is set back
    MaxConnects,  \* bound: connections in a behaviour
    MaxDepth      \* bound: frames in progress

Priority == 1..2             \* 1: high, 2: low
Kind     == {"modify", "send", "queue", "stop"}
None     == 0                \* no priority, no redirection, no message

ASSUME OutqueueAssumption ==
    /\ AntiFlood \in [Priority -> Nat]
    /\ SendsIn \subseteq Kind /\ EmptiesIn \subseteq Kind
    /\ {Drops, SendFails, Deletes} \subseteq BOOLEAN
    /\ MaxMessages \in Nat /\ MaxBacks \in Nat
    /\ {MaxConnects, MaxDepth} \subseteq Nat \ {0}

Patience == IF AntiFlood[1] > AntiFlood[2] THEN AntiFlood[1] ELSE AntiFlood[2]
Message  == 1..MaxMessages

VARIABLES
    connected,   \* sock # -1 and is_connected
    outqueue,    \* [Priority -> Seq([msg, redirect])]
    redirects,   \* the list of redirections of the server
    buffer,      \* the static buffer of irc_server_send_one_msg
    since,       \* clock - last_user_message, at most Patience
    stack,       \* functions in progress
    crashed,     \* memory was used after it was freed
    \* history
    next,        \* number of the next message
    prio,        \* [Message -> 0..2]: the priority a message was given
    wire,        \* what went to the socket of this connection, and as what
    gone,        \* messages of lost connections, failed sends, deleted queues
    elapsed,     \* [Priority -> 0..Patience]: true time since one was sent
    connects,    \* connections so far
    backs        \* times the clock was set back

queueVars   == <<outqueue, redirects>>
historyVars == <<next, prio, wire, gone, elapsed, connects, backs>>
vars == <<connected, outqueue, redirects, buffer, since, stack, crashed,
          next, prio, wire, gone, elapsed, connects, backs>>

Top   == stack[Len(stack)]
Pop   == SubSeq(stack, 1, Len(stack) - 1)
Empty == [p \in Priority |-> <<>>]

\* Code may run outside of any function, or in a callback of one.
MayRun(kinds) == stack # <<>> => Top.kind \in kinds /\ Len(stack) < MaxDepth
In(kind)      == IF stack = <<>> THEN FALSE ELSE Top.kind = kind

ItemsOf(q)  == {q[i] : i \in 1..Len(q)}
Messages(q) == {item.msg : item \in ItemsOf(q)}
Queued      == UNION {Messages(outqueue[p]) : p \in Priority}
InFrames    == Messages(stack)

-----------------------------------------------------------------------------
(* Redirections.                                                           *)

Known(r) == \E i \in 1..Len(redirects) : redirects[i].id = r

\* irc_redirect_new
WithNew(list, r) ==
    Append(list, [id |-> r, assigned |-> FALSE, started |-> FALSE, command |-> None])

\* Mutant: assigned_to_command is not looked at.
AvailableAny(list) == IF list = <<>> THEN None ELSE list[1].id

\* irc_redirect_search_available
Available(list) ==
    LET free == {i \in 1..Len(list) : ~list[i].assigned}
    IN  IF free = {} THEN None
        ELSE list[CHOOSE i \in free : \A j \in free : i <= j].id

Changed(list, r, New(_)) ==
    [i \in 1..Len(list) |-> IF list[i].id = r THEN New(list[i]) ELSE list[i]]

Assigned(list, r) == Changed(list, r, LAMBDA x : [x EXCEPT !.assigned = TRUE])

\* irc_redirect_init_command
Started(list, r, m) ==
    Changed(list, r, LAMBDA x : [x EXCEPT !.assigned = TRUE, !.started = TRUE, !.command = m])

-----------------------------------------------------------------------------
(* Sending.                                                                *)

\* the clock went back: last_user_message > time_now
Corrected == IF since < 0 THEN 0 ELSE since

MustWait(p) ==
    /\ p # None
    /\ outqueue[p] # <<>> \/ (AntiFlood[p] > 0 /\ Corrected < AntiFlood[p])

FrameFor(kind, m, p, r) == [kind |-> kind, msg |-> m, prio |-> p, redirect |-> r]

\* irc_server_send_one_msg, for a message with or without a redirection made
\* just before: the modifiers are called ...
Send(p, redirected) ==
    /\ MayRun(SendsIn)
    /\ connected
    /\ next \in Message
    /\ next' = next + 1
    /\ prio' = [prio EXCEPT ![next] = p]
    /\ redirects' = IF redirected THEN WithNew(redirects, next) ELSE redirects
    /\ stack' = Append(stack, FrameFor("modify", next, p, None))
    /\ UNCHANGED <<connected, outqueue, buffer, since, crashed, wire, gone, elapsed, connects,
                   backs>>

\* ... the message is dropped ...
Dropped ==
    /\ In("modify")
    /\ Drops
    /\ gone' = gone \cup {Top.msg}
    /\ stack' = Pop
    /\ UNCHANGED <<connected, queueVars, buffer, since, crashed, next, prio, wire, elapsed,
                   connects, backs>>

\* ... or queued, or about to be sent: the signals are sent ...
Modified ==
    /\ In("modify")
    /\ since' = Corrected
    /\ buffer' = Top.msg
    /\ LET r == Available(redirects)
           p == Top.prio
       IN  IF MustWait(p)
           THEN /\ outqueue' = [outqueue EXCEPT
                                   ![p] = Append(@, [msg |-> Top.msg, redirect |-> r])]
                /\ redirects' = Assigned(redirects, r)
                /\ stack' = Pop
           ELSE /\ stack' = Append(Pop, FrameFor("send", Top.msg, p, r))
                /\ UNCHANGED queueVars
    /\ UNCHANGED <<connected, crashed, historyVars>>

Results == IF connected THEN {TRUE} \cup (IF SendFails THEN {FALSE} ELSE {}) ELSE {FALSE}

\* send(), whose result is ok, of msg for the frame on top
ToSocket(ok, msg) ==
    /\ wire' = IF ok THEN Append(wire, [announced |-> Top.msg, msg |-> msg]) ELSE wire
    /\ gone' = IF ok THEN gone ELSE gone \cup {Top.msg}
    /\ elapsed' = IF ok /\ Top.prio # None THEN [elapsed EXCEPT ![Top.prio] = 0] ELSE elapsed

WritesFreed(r) == r # None /\ ~Known(r)

\* ... and then: what is sent is the buffer.
SendEnds ==
    /\ In("send")
    /\ \E ok \in Results :
          /\ ToSocket(ok, buffer)
          /\ since' = IF ok /\ Top.prio # None THEN 0 ELSE since
    /\ crashed' = WritesFreed(Top.redirect)
    /\ redirects' = Started(redirects, Top.redirect, buffer)
    /\ stack' = Pop
    /\ UNCHANGED <<connected, outqueue, buffer, next, prio, connects, backs>>

\* Mutant: the low priority queue is never looked at.
DueHighOnly(p) == p = 1 /\ outqueue[p] # <<>> /\ Corrected >= AntiFlood[p]

Due(p) == outqueue[p] # <<>> /\ Corrected >= AntiFlood[p]

\* irc_server_outqueue_send, called by the timer: nothing is due ...
OutqueueIdle ==
    /\ stack = <<>>
    /\ connected
    /\ \A p \in Priority : ~Due(p)
    /\ since' = Corrected
    /\ UNCHANGED <<connected, queueVars, buffer, stack, crashed, historyVars>>

\* ... or a message is: the signals are sent ...
OutqueueSend(p) ==
    /\ stack = <<>>
    /\ connected
    /\ Due(p)
    /\ \A q \in Priority : q < p => ~Due(q)
    /\ since' = Corrected
    /\ stack' = <<FrameFor("queue", Head(outqueue[p]).msg, p, None)>>
    /\ UNCHANGED <<connected, queueVars, buffer, crashed, historyVars>>

\* The head of the queue leaves it.
Leaves(item, last_user_message) ==
    /\ \E ok \in Results : ToSocket(ok, item.msg)
    /\ since' = last_user_message
    /\ crashed' = WritesFreed(item.redirect)
    /\ redirects' = Started(redirects, item.redirect, item.msg)
    /\ outqueue' = [outqueue EXCEPT ![Top.prio] = Tail(@)]
    /\ stack' = Pop
    /\ UNCHANGED <<connected, buffer, next, prio, connects, backs>>

\* Mutant: the message stays at the head of the queue.
OutqueueSentKeeps ==
    /\ In("queue")
    /\ ToSocket(TRUE, Top.msg)
    /\ since' = 0
    /\ stack' = Pop
    /\ UNCHANGED <<connected, queueVars, buffer, crashed, next, prio, connects, backs>>

\* Mutant: last_user_message is not set.
OutqueueSentAtOnce ==
    In("queue") /\ Leaves(Head(outqueue[Top.prio]), since)

\* ... and after them the head of the queue is read again, which is NULL if a
\* callback has emptied it.
OutqueueSent ==
    /\ In("queue")
    /\ IF outqueue[Top.prio] = <<>>
       THEN /\ crashed' = TRUE
            /\ stack' = Pop
            /\ UNCHANGED <<connected, queueVars, buffer, since, historyVars>>
       ELSE Leaves(Head(outqueue[Top.prio]), 0)

-----------------------------------------------------------------------------
(* The end of a redirection: the answer is complete, or its time is over.  *)

\* irc_redirect_stop sends its signal ...
RedirectStop(i) ==
    /\ stack = <<>>
    /\ i \in 1..Len(redirects)
    /\ redirects[i].started
    /\ stack' = <<FrameFor("stop", None, None, redirects[i].id)>>
    /\ UNCHANGED <<connected, queueVars, buffer, since, crashed, historyVars>>

\* irc_redirect_free: the queues forget the redirection too
Freed(r) ==
    LET i == CHOOSE j \in 1..Len(redirects) : redirects[j].id = r
    IN  /\ redirects' = SubSeq(redirects, 1, i - 1) \o SubSeq(redirects, i + 1, Len(redirects))
        /\ outqueue' = [p \in Priority |->
                          [j \in 1..Len(outqueue[p]) |->
                              [outqueue[p][j] EXCEPT !.redirect = IF @ = r THEN None ELSE @]]]

\* ... and frees it.
RedirectStopped ==
    /\ In("stop")
    /\ crashed' = ~Known(Top.redirect)
    /\ IF Known(Top.redirect) THEN Freed(Top.redirect) ELSE UNCHANGED queueVars
    /\ stack' = Pop
    /\ UNCHANGED <<connected, buffer, since, historyVars>>

-----------------------------------------------------------------------------
(* The connection, the user and the clock.                                 *)

\* irc_server_close_connection
Disconnect ==
    /\ connected
    /\ MayRun(EmptiesIn)
    /\ connected' = FALSE
    /\ outqueue' = Empty
    /\ redirects' = <<>>
    /\ gone' = gone \cup Queued
    /\ UNCHANGED <<buffer, since, stack, crashed, next, prio, wire, elapsed, connects, backs>>

Connect ==
    /\ stack = <<>>
    /\ ~connected
    /\ connects < MaxConnects
    /\ connects' = connects + 1
    /\ connected' = TRUE
    /\ gone' = 1..(next - 1)
    /\ wire' = <<>>
    /\ UNCHANGED <<queueVars, buffer, since, stack, crashed, next, prio, elapsed, backs>>

\* /server deloutq
DelOutq ==
    /\ Deletes
    /\ MayRun(EmptiesIn)
    /\ Queued # {}
    /\ outqueue' = Empty
    /\ gone' = gone \cup Queued
    /\ UNCHANGED <<connected, redirects, buffer, since, stack, crashed, next, prio, wire,
                   elapsed, connects, backs>>

\* One second; what is beyond Patience makes no difference.
Tick ==
    /\ stack = <<>>
    /\ since < Patience \/ \E p \in Priority : elapsed[p] < Patience
    /\ since' = IF since < Patience THEN since + 1 ELSE since
    /\ elapsed' = [p \in Priority |-> IF elapsed[p] < Patience THEN elapsed[p] + 1 ELSE Patience]
    /\ UNCHANGED <<connected, queueVars, buffer, stack, crashed, next, prio, wire, gone,
                   connects, backs>>

\* The system clock is set back.
ClockBack ==
    /\ stack = <<>>
    /\ backs < MaxBacks
    /\ backs' = backs + 1
    /\ since' \in -1 .. since
    /\ UNCHANGED <<connected, queueVars, buffer, stack, crashed, next, prio, wire, gone,
                   elapsed, connects>>

Init ==
    /\ connected = TRUE /\ outqueue = Empty /\ redirects = <<>> /\ buffer = None
    /\ since = Patience /\ stack = <<>> /\ crashed = FALSE
    /\ next = 1 /\ prio = [m \in Message |-> None] /\ wire = <<>> /\ gone = {}
    /\ elapsed = [p \in Priority |-> Patience] /\ connects = 1 /\ backs = 0

Running == ~crashed

Timer == OutqueueIdle \/ \E p \in Priority : OutqueueSend(p)
Ends  == Dropped \/ Modified \/ SendEnds \/ OutqueueSent \/ RedirectStopped

Next ==
    /\ Running
    /\ \/ \E p \in Priority \cup {None}, redirected \in BOOLEAN : Send(p, redirected)
       \/ Ends
       \/ Timer
       \/ \E i \in 1..Len(redirects) : RedirectStop(i)
       \/ Disconnect \/ Connect \/ DelOutq \/ Tick \/ ClockBack

Spec == Init /\ [][Next]_vars

\* A callback returns, the timer runs every second, and time passes; the
\* clock is not set back for ever.
FairSpec ==
    /\ Spec
    /\ WF_vars(Running /\ Ends)
    /\ SF_vars(Running /\ Timer)
    /\ WF_vars(Running /\ Tick)

-----------------------------------------------------------------------------
(* Properties.                                                             *)

\* Every variable has its type.
TypeOK ==
    /\ {connected, crashed} \subseteq BOOLEAN
    /\ outqueue \in [Priority -> Seq([msg : Message, redirect : {None} \cup Message])]
    /\ redirects \in Seq([id : Message, assigned : BOOLEAN, started : BOOLEAN,
                          command : {None} \cup Message])
    /\ buffer \in {None} \cup Message
    /\ since \in -1 .. Patience /\ elapsed \in [Priority -> 0 .. Patience]
    /\ stack \in Seq([kind : Kind, msg : {None} \cup Message, prio : {None} \cup Priority,
                      redirect : {None} \cup Message])
    /\ next \in 1 .. MaxMessages + 1
    /\ prio \in [Message -> {None} \cup Priority]
    /\ wire \in Seq([announced : Message, msg : Message])
    /\ gone \subseteq Message
    /\ connects \in 1 .. MaxConnects /\ backs \in 0 .. MaxBacks

\* Messages of one priority leave in the order they were given, each once,
\* whether they waited or not.
OrderKept ==
    \A i, j \in 1..Len(wire) :
        (i < j /\ prio[wire[i].msg] = prio[wire[j].msg]) => wire[i].msg < wire[j].msg

\* On a connection that lives, a message is sent, still on its way, or lost
\* with a failed send, a deleted queue or its connection; and what is lost or
\* sent does not wait any more.
OnWire == Messages(wire)
NothingLost ==
    /\ connected => 1..(next - 1) \subseteq gone \cup Queued \cup InFrames \cup OnWire
    /\ gone \cap (Queued \cup OnWire) = {}
    /\ Queued \cap OnWire = {}

\* "anti-flood ...: number of seconds between two user messages or commands
\* sent to IRC server": two messages of one priority are that far apart in true
\* time, even if the clock goes back and callbacks send messages.
Throttled ==
    [][\A p \in Priority :
          (Len(wire') > Len(wire) /\ prio[wire'[Len(wire')].announced] = p)
              => elapsed[p] >= AntiFlood[p]]_vars

\* "send signal with command that will be sent to server": the message that
\* is sent is the one the signals have shown.
AnnouncedIsSent == \A i \in 1..Len(wire) : wire[i].msg = wire[i].announced

\* A redirection is used for one command: it waits with one message, or is
\* with the message being sent, or was started for one.
Users(r) ==
    (UNION {{x.msg : x \in {y \in ItemsOf(outqueue[p]) : y.redirect = r}} : p \in Priority})
      \cup {x.msg : x \in {y \in ItemsOf(stack) : y.redirect = r /\ y.kind = "send"}}
      \cup {x.command : x \in {y \in ItemsOf(redirects) : y.id = r /\ y.started}}
RedirectUsedOnce == \A r \in Message : Cardinality(Users(r)) <= 1

\* "redirection will be used for this command": the redirection made just
\* before a command is the one it is sent or queued with.
RedirectOfItsCommand ==
    /\ \A i \in 1..Len(redirects) :
          redirects[i].started => redirects[i].command = redirects[i].id
    /\ \A p \in Priority : \A i \in 1..Len(outqueue[p]) :
          outqueue[p][i].redirect \in {None, outqueue[p][i].msg}

\* "remove any pointer to this redirect": no message waits with a redirection
\* that was freed.
RedirectsAllocated ==
    \A p \in Priority : \A i \in 1..Len(outqueue[p]) :
        outqueue[p][i].redirect # None => Known(outqueue[p][i].redirect)

\* No memory is used after it was freed.
NoFreedMemoryUsed == ~crashed

\* A message that waits is sent, or goes with its connection.
QueueDrains == \A m \in Message : m \in Queued ~> m \notin Queued
-----------------------------------------------------------------------------
(* Conjunctions of the properties above, as the runs check them.           *)

\* Messages keep their order, and each is sent as announced, waits, or is lost
\* with what loses messages (irc_server_send_one_msg,
\* irc_server_outqueue_send, irc_server_outqueue_free_all).
MessagesKept == TypeOK /\ OrderKept /\ NothingLost /\ AnnouncedIsSent

\* A redirection serves one command and is allocated while a message points
\* to it, although it may stop while the message waits or is being sent
\* (irc_redirect_search_available, irc_redirect_free).
RedirectsSound == RedirectUsedOnce /\ RedirectsAllocated /\ NoFreedMemoryUsed
=============================================================================
