----------------------------- MODULE IrcChannels -----------------------------
(***************************************************************************)
(* Channels, nicks and modes (irc-channel.c, irc-nick.c, irc-mode.c, the    *)
(* handlers of irc-protocol.c and the commands /join, /part, /cycle,        *)
(* /names): what the client believes of the channels of a server, from the  *)
(* messages it gets, while the server, its other users and the user of the  *)
(* client all change them.                                                  *)
(*                                                                         *)
(* Commands and messages travel in order and are lost together when the     *)
(* connection is; a low-priority command may be overtaken in the out queue  *)
(* (IrcOutqueue).  Of the nick prefixes there is "op", of the channel modes *)
(* one flag; topics, keys, private buffers and what is displayed are left   *)
(* out.                                                                     *)
(***************************************************************************)
EXTENDS Integers, SequencesExt, Functions

CONSTANTS
    Channel,
    Nick,
    Autojoin,        \* channels of the option "autojoin"
    AutorejoinModes, \* subset of {"no", "now", "later"}: options autorejoin,
                     \* autorejoin_delay, which may change at any time
    MaxUser,         \* bound: commands of the user
    MaxOthers,       \* bound: things other users do
    MaxDrops         \* bound: connections lost

NoNick == "none"

ASSUME ChannelsAssumption ==
    /\ IsFiniteSet(Channel) /\ NoNick \notin Nick
    /\ Autojoin \subseteq Channel
    /\ AutorejoinModes \subseteq {"no", "now", "later"} /\ AutorejoinModes # {}
    /\ {MaxUser, MaxOthers, MaxDrops} \subseteq Nat

VARIABLES
    conn,      \* "off", "registering" (no 001 yet) or "on" (is_connected)
    nick,      \* server->nick
    channels,  \* [Channel -> record]: the channel, if its buffer is open
    timers,    \* [Channel -> number]: timers irc_channel_autorejoin_cb waiting
    outq,      \* commands on their way
    wire,      \* messages on their way
    mine,      \* what the server knows: the nick of the client,
    rooms,     \*    and [Channel -> [list: nick -> op, flag: BOOLEAN]]
    intent,    \* history: [Channel -> "in", "out", or "any" when it is left open]
    users, others, drops

client == <<conn, nick, channels, timers>>
server == <<mine, rooms>>
bounds == <<users, others, drops>>
vars == <<client, outq, wire, server, intent, bounds>>

-----------------------------------------------------------------------------
(* Commands on their way to the server.                                    *)
Cmd(cmd, c) == [cmd |-> cmd, chan |-> c]

\* irc_server_sendf: at the end, or before the commands of low priority there
Queued(q, x) ==
    {InsertAt(q, i, x) : i \in {j \in 1 .. Len(q) + 1 : \A k \in j .. Len(q) : q[k].cmd = "MODE"}}

Underway(c) ==
    \/ \E i \in DOMAIN outq : outq[i].chan = c /\ outq[i].cmd \in {"JOIN", "PART"}
    \/ wire # <<>>

-----------------------------------------------------------------------------
(* The channel of the client.                                              *)
NoNicks == <<>>
Single(n, op) == [x \in {n} |-> op]
Over(new, list) ==
    [n \in DOMAIN new \cup DOMAIN list |-> IF n \in DOMAIN new THEN new[n] ELSE list[n]]
Without(list, n) == Restrict(list, DOMAIN list \ {n})

\* irc_channel_new; a channel without a buffer is the same with open = FALSE
NewChannel == [open |-> TRUE, nicks |-> NoNicks, part |-> FALSE, cycle |-> FALSE,
               modes |-> "unknown", named |-> FALSE, hook_autorejoin |-> FALSE]
NoChannel == [NewChannel EXCEPT !.open = FALSE]

\* Mutant: a nick that is there keeps its prefixes.
NewNicksKeepPrefixes(list, names) == Over(list, names)

\* irc_nick_new, for each of some nicks: adds the nick, or sets the prefixes of
\* the one that is there
NewNicks(list, names) == Over(names, list)

\* irc_nick_change
NickChanged(list, old, new) ==
    IF old \in DOMAIN list
    THEN [n \in (DOMAIN list \ {old}) \cup {new} |-> IF n = new THEN list[old] ELSE list[n]]
    ELSE list

\* irc_protocol_cb_join: a JOIN, of the client itself or of someone else
Joined(ch, n, local) ==
    LET list == IF local THEN NoNicks ELSE ch.nicks
        known == list # NoNicks
    IN  [ch EXCEPT !.open = TRUE, !.part = FALSE,
                   !.nicks = NewNicks(list, Single(n, FALSE)),
                   !.modes = IF known THEN @ ELSE "unknown",
                   !.named = known /\ @]

\* irc_buffer_close_cb: the PART sent when the buffer is closed
SentOnClose(ch, c) == IF ch.nicks = NoNicks THEN {outq} ELSE Queued(outq, Cmd("PART", c))

\* Mutant: the buffer is closed, and the nicks freed afterwards.
OwnPartClosesFirst(ch, c) ==
    [left |-> [ch EXCEPT !.nicks = NoNicks, !.cycle = FALSE, !.part = TRUE],
     onClose |-> SentOnClose(ch, c)]

\* irc_protocol_cb_part for the client itself: the channel that was left, and
\* what is sent if its buffer is closed
OwnPart(ch, c) ==
    LET left == [ch EXCEPT !.nicks = NoNicks, !.cycle = FALSE, !.part = ~ch.cycle]
    IN  [left |-> left, onClose |-> SentOnClose(left, c)]

\* irc_channel_free: unhooks the last timer; one that an earlier KICK left
\* behind looks for the channel by its address, which a new one may be given
Freed(c) ==
    LET left == timers[c] - (IF channels[c].hook_autorejoin THEN 1 ELSE 0)
    IN  {[timers EXCEPT ![c] = k] : k \in {0, left}}

-----------------------------------------------------------------------------
(* The user.                                                               *)
Types == users < MaxUser /\ users' = users + 1 /\ conn = "on"
         /\ UNCHANGED <<conn, nick, wire, server, others, drops>>

\* irc_command_join, irc_command_join_server
UserJoins(c) ==
    /\ Types
    /\ outq' \in Queued(outq, Cmd("JOIN", c))
    /\ intent' = [intent EXCEPT ![c] = "in"]
    /\ UNCHANGED <<channels, timers>>

\* The user leaves.  Without nicks in the channel, nothing is sent even if a
\* JOIN is underway, and a /part is not remembered for the next connection; a
\* /part after a /cycle whose PART was not read makes it cycle, and a /part
\* leaves the timer of an autorejoin.
Leaves(c, closes) ==
    LET ch == channels[c]
        back == /\ ch.open
                /\ \/ ch.nicks = NoNicks /\ (Underway(c) \/ ~(closes \/ ch.part))
                   \/ ~closes /\ (ch.hook_autorejoin \/ (ch.cycle /\ ch.nicks # NoNicks))
    IN  intent' = [intent EXCEPT ![c] = IF back THEN "any" ELSE "out"]

Close(c) ==
    /\ outq' \in SentOnClose(channels[c], c)
    /\ channels' = [channels EXCEPT ![c] = NoChannel]
    /\ timers' \in Freed(c)

\* irc_command_part; with closes the option part_closes_buffer
UserParts(c, closes) ==
    LET empty == channels[c].open /\ channels[c].nicks = NoNicks
    IN  /\ Types
        /\ Leaves(c, empty /\ closes)
        /\ IF empty /\ closes THEN Close(c)
           ELSE /\ outq' \in IF empty THEN {outq} ELSE Queued(outq, Cmd("PART", c))
                /\ UNCHANGED <<channels, timers>>

\* /buffer close, irc_buffer_close_cb
UserCloses(c) ==
    /\ Types
    /\ channels[c].open
    /\ Leaves(c, TRUE)
    /\ Close(c)

\* irc_command_cycle
UserCycles(c) ==
    /\ Types
    /\ channels[c].open
    /\ channels' = [channels EXCEPT ![c].cycle = TRUE]
    /\ outq' \in Queued(outq, Cmd("PART", c))
    /\ intent' = [intent EXCEPT ![c] = IF channels[c].nicks = NoNicks THEN "any" ELSE "in"]
    /\ UNCHANGED timers

\* irc_command_names
UserAsksNames(c) ==
    /\ Types
    /\ outq' \in Queued(outq, Cmd("NAMES", c))
    /\ UNCHANGED <<channels, timers, intent>>

\* Mutant: the channel is found when it has no timer any more.
AutorejoinCbTooLate(c) ==
    /\ timers[c] > 0
    /\ timers' = [timers EXCEPT ![c] = @ - 1]
    /\ channels' = [channels EXCEPT ![c].hook_autorejoin = FALSE]
    /\ outq' \in IF channels[c].hook_autorejoin \/ conn = "off" THEN {outq} ELSE Queued(outq, Cmd("JOIN", c))
    /\ UNCHANGED <<conn, nick, wire, server, intent, bounds>>

\* irc_channel_autorejoin_cb, irc_channel_rejoin
AutorejoinCb(c) ==
    /\ timers[c] > 0
    /\ timers' = [timers EXCEPT ![c] = @ - 1]
    /\ IF channels[c].open /\ channels[c].hook_autorejoin
       THEN /\ channels' = [channels EXCEPT ![c].hook_autorejoin = FALSE]
            /\ outq' \in IF conn = "off" THEN {outq} ELSE Queued(outq, Cmd("JOIN", c))
       ELSE UNCHANGED <<channels, outq>>
    /\ UNCHANGED <<conn, nick, wire, server, intent, bounds>>

-----------------------------------------------------------------------------
(* The messages the client gets.                                           *)
Gets(cmd) == wire # <<>> /\ Head(wire).cmd = cmd /\ wire' = Tail(wire)
Message == Head(wire)

\* irc_protocol_cb_001, irc_server_autojoin_channels: the channels that are
\* open are joined again, those of the option "autojoin" when there are none
Get001 ==
    LET open == {c \in Channel : channels[c].open}
        joined == IF open = {} THEN Autojoin ELSE {c \in open : ~channels[c].part}
    IN  /\ Gets("001")
        /\ nick' = Message.nick
        /\ conn' = "on"
        /\ \E order \in SetToSeqs(joined) : outq' = outq \o [i \in DOMAIN order |-> Cmd("JOIN", order[i])]
        /\ intent' = [c \in Channel |-> IF open = {} /\ c \in joined THEN "in" ELSE intent[c]]
        /\ UNCHANGED <<channels, timers, server, bounds>>

\* irc_protocol_cb_join: the channel of a JOIN of the client is opened
GetJoin ==
    LET c == Message.chan
        local == Message.nick = nick
    IN  /\ Gets("JOIN")
        /\ channels' = IF channels[c].open \/ local
                       THEN [channels EXCEPT ![c] = Joined(@, Message.nick, local)] ELSE channels
        /\ UNCHANGED <<conn, nick, timers, outq, server, intent, bounds>>

\* irc_protocol_cb_part; after a /cycle the channel is joined again
GetPart(closes) ==
    LET c == Message.chan
        own == OwnPart(channels[c], c)
    IN  /\ Gets("PART")
        /\ IF ~channels[c].open \/ Message.nick # nick
           THEN /\ channels' = [channels EXCEPT ![c].nicks = Without(@, Message.nick)]
                /\ ~closes /\ UNCHANGED <<timers, outq>>
           ELSE IF channels[c].cycle
           THEN /\ channels' = [channels EXCEPT ![c] = own.left]
                /\ outq' \in Queued(outq, Cmd("JOIN", c))
                /\ ~closes /\ UNCHANGED timers
           ELSE IF closes
           THEN /\ channels' = [channels EXCEPT ![c] = NoChannel]
                /\ outq' \in own.onClose
                /\ timers' \in Freed(c)
           ELSE /\ channels' = [channels EXCEPT ![c] = own.left]
                /\ UNCHANGED <<timers, outq>>
        /\ UNCHANGED <<conn, nick, server, intent, bounds>>

\* irc_protocol_cb_kick for the client itself
OwnKick(c, autorejoin) ==
    /\ channels' = [channels EXCEPT ![c].nicks = NoNicks,
                                    ![c].hook_autorejoin = @ \/ autorejoin = "later"]
    /\ timers' = [timers EXCEPT ![c] = @ + (IF autorejoin = "later" THEN 1 ELSE 0)]
    /\ outq' \in IF autorejoin = "now" THEN Queued(outq, Cmd("JOIN", c)) ELSE {outq}
    /\ intent' = [intent EXCEPT ![c] = IF @ = "in" /\ autorejoin # "no" THEN @ ELSE "any"]

\* irc_protocol_cb_kick
GetKick(autorejoin) ==
    LET c == Message.chan
    IN  /\ Gets("KICK")
        /\ IF channels[c].open /\ Message.nick = nick THEN OwnKick(c, autorejoin)
           ELSE /\ channels' = [channels EXCEPT ![c].nicks = Without(@, Message.nick)]
                /\ UNCHANGED <<timers, outq, intent>>
        /\ UNCHANGED <<conn, nick, server, bounds>>

\* irc_protocol_cb_nick, irc_server_set_nick
GetNick ==
    /\ Gets("NICK")
    /\ nick' = IF Message.nick = nick THEN Message.new ELSE nick
    /\ channels' = [c \in Channel |->
           [channels[c] EXCEPT !.nicks = NickChanged(@, Message.nick, Message.new)]]
    /\ UNCHANGED <<conn, timers, outq, server, intent, bounds>>

\* irc_protocol_cb_quit
GetQuit ==
    /\ Gets("QUIT")
    /\ channels' = [c \in Channel |-> [channels[c] EXCEPT !.nicks = Without(@, Message.nick)]]
    /\ UNCHANGED <<conn, nick, timers, outq, server, intent, bounds>>

\* irc_protocol_cb_mode, irc_mode_channel_set: the mode "o" of a nick or the flag
GetMode ==
    LET c == Message.chan
    IN  /\ Gets("MODE")
        /\ channels' =
             IF ~channels[c].open THEN channels
             ELSE IF Message.nick = NoNick
             THEN [channels EXCEPT ![c].modes = IF Message.set THEN "set" ELSE "unset"]
             ELSE IF Message.nick \in DOMAIN channels[c].nicks
             THEN [channels EXCEPT ![c].nicks[Message.nick] = Message.set]
             ELSE channels
        /\ UNCHANGED <<conn, nick, timers, outq, server, intent, bounds>>

\* irc_protocol_cb_324
Get324 ==
    LET c == Message.chan
    IN  /\ Gets("324")
        /\ channels' = IF channels[c].open
                       THEN [channels EXCEPT ![c].modes = IF Message.set THEN "set" ELSE "unset"]
                       ELSE channels
        /\ UNCHANGED <<conn, nick, timers, outq, server, intent, bounds>>

\* irc_protocol_cb_353: names are added to a channel that has nicks
Get353 ==
    LET c == Message.chan
        list == channels[c].nicks
    IN  /\ Gets("353")
        /\ channels' = IF list = NoNicks THEN channels
                       ELSE [channels EXCEPT ![c].nicks = NewNicks(@, Message.list)]
        /\ UNCHANGED <<conn, nick, timers, outq, server, intent, bounds>>

\* irc_protocol_cb_366: the first time after a JOIN, the modes are asked for
Get366 ==
    LET c == Message.chan
        first == channels[c].nicks # NoNicks /\ ~channels[c].named
    IN  /\ Gets("366")
        /\ channels' = IF channels[c].open THEN [channels EXCEPT ![c].named = TRUE] ELSE channels
        /\ outq' = IF first THEN Append(outq, Cmd("MODE", c)) ELSE outq
        /\ UNCHANGED <<conn, nick, timers, server, intent, bounds>>

-----------------------------------------------------------------------------
(* The connection and the server.                                          *)

\* irc_server_connect, irc_server_login: the nick is one that is free
Connect ==
    /\ conn = "off"
    /\ conn' = "registering"
    /\ \E n \in Nick \ UNION {DOMAIN rooms[c].list : c \in Channel} :
          mine' = n /\ wire' = <<[cmd |-> "001", nick |-> n]>>
    /\ UNCHANGED <<nick, channels, timers, outq, rooms, intent, bounds>>

\* irc_server_disconnect, for one channel
FreedOnDisconnect(ch) == [ch EXCEPT !.nicks = NoNicks, !.hook_autorejoin = FALSE]

\* The connection is lost, with all that was on its way; what the user asked
\* of a channel just before may be lost too.
Drop ==
    /\ conn # "off" /\ drops < MaxDrops
    /\ conn' = "off"
    /\ mine' = NoNick
    /\ rooms' = [c \in Channel |-> [rooms[c] EXCEPT !.list = Without(@, mine)]]
    /\ outq' = <<>> /\ wire' = <<>>
    /\ IF conn = "on"
       THEN /\ channels' = [c \in Channel |-> FreedOnDisconnect(channels[c])]
            /\ timers' = [c \in Channel |-> timers[c] - (IF channels[c].hook_autorejoin THEN 1 ELSE 0)]
       ELSE UNCHANGED <<channels, timers>>
    /\ intent' = [c \in Channel |-> IF Underway(c) \/ channels[c].hook_autorejoin THEN "any" ELSE intent[c]]
    /\ drops' = drops + 1
    /\ UNCHANGED <<nick, users, others>>

\* the server handles a command
Serve ==
    LET c == Head(outq).chan
        list == rooms[c].list
        me == mine
        members == IF me \in DOMAIN list THEN list ELSE Over(Single(me, list = NoNicks), list)
        names == <<[cmd |-> "353", chan |-> c, list |-> members], [cmd |-> "366", chan |-> c]>>
        Answer(cmd) ==
            CASE cmd = "JOIN" /\ me \notin DOMAIN list ->
                   <<members, <<[cmd |-> "JOIN", nick |-> me, chan |-> c]>> \o names>>
              [] cmd = "PART" /\ me \in DOMAIN list ->
                   <<Without(list, me), <<[cmd |-> "PART", nick |-> me, chan |-> c]>>>>
              [] cmd = "NAMES" -> <<list, IF me \in DOMAIN list THEN names ELSE Tail(names)>>
              [] cmd = "MODE" -> <<list, <<[cmd |-> "324", chan |-> c, set |-> rooms[c].flag]>>>>
              [] OTHER -> <<list, <<>>>>
    IN  /\ conn # "off" /\ outq # <<>>
        /\ outq' = Tail(outq)
        /\ rooms' = [rooms EXCEPT ![c].list = Answer(Head(outq).cmd)[1]]
        /\ wire' = wire \o Answer(Head(outq).cmd)[2]
        /\ UNCHANGED <<client, mine, intent, bounds>>

\* others do something in a channel: the client is told when it is there
InRoom(c) == mine \in DOMAIN rooms[c].list
Users == UNION {DOMAIN rooms[c].list : c \in Channel}
Others(told, m) ==
    /\ others < MaxOthers /\ others' = others + 1
    /\ wire' = IF told THEN Append(wire, m) ELSE wire
    /\ UNCHANGED <<client, outq, intent, users, drops>>

OtherJoins(n, c) ==
    /\ n # mine /\ n \notin DOMAIN rooms[c].list
    /\ Users \cup {n} # Nick \/ mine # NoNick      \* there is a nick for the client
    /\ rooms' = [rooms EXCEPT ![c].list = Over(Single(n, @ = NoNicks), @)]
    /\ Others(InRoom(c), [cmd |-> "JOIN", nick |-> n, chan |-> c])
    /\ UNCHANGED mine

\* a PART of another user, or a KICK
Removed(n, c, cmd) ==
    /\ n \in DOMAIN rooms[c].list /\ (n = mine => cmd = "KICK")
    /\ rooms' = [rooms EXCEPT ![c].list = Without(@, n)]
    /\ Others(InRoom(c), [cmd |-> cmd, nick |-> n, chan |-> c])
    /\ UNCHANGED mine

\* a nick changes, that of the client too (/nick, or the server decides)
Renamed(n, new) ==
    /\ new \notin {mine} \cup Users
    /\ n = mine \/ \E c \in Channel : n \in DOMAIN rooms[c].list
    /\ mine' = IF n = mine THEN new ELSE mine
    /\ rooms' = [c \in Channel |-> [rooms[c] EXCEPT !.list = NickChanged(@, n, new)]]
    /\ Others(n = mine \/ \E c \in Channel : InRoom(c) /\ n \in DOMAIN rooms[c].list,
              [cmd |-> "NICK", nick |-> n, new |-> new])

Quits(n) ==
    /\ n # mine /\ \E c \in Channel : n \in DOMAIN rooms[c].list
    /\ rooms' = [c \in Channel |-> [rooms[c] EXCEPT !.list = Without(@, n)]]
    /\ Others(\E c \in Channel : InRoom(c) /\ n \in DOMAIN rooms[c].list, [cmd |-> "QUIT", nick |-> n])
    /\ UNCHANGED mine

\* MODE +o or -o of a nick
Op(n, c, set) ==
    /\ n \in DOMAIN rooms[c].list /\ rooms[c].list[n] # set
    /\ rooms' = [rooms EXCEPT ![c].list[n] = set]
    /\ Others(InRoom(c), [cmd |-> "MODE", nick |-> n, chan |-> c, set |-> set])
    /\ UNCHANGED mine

Flag(c) ==
    /\ rooms' = [rooms EXCEPT ![c].flag = ~@]
    /\ Others(InRoom(c), [cmd |-> "MODE", nick |-> NoNick, chan |-> c, set |-> ~rooms[c].flag])
    /\ UNCHANGED mine

-----------------------------------------------------------------------------
Init ==
    /\ conn = "off" /\ nick = NoNick
    /\ channels = [c \in Channel |-> NoChannel]
    /\ timers = [c \in Channel |-> 0]
    /\ outq = <<>> /\ wire = <<>>
    /\ mine = NoNick
    /\ \E n \in Nick : rooms = [c \in Channel |-> [list |-> Single(n, TRUE), flag |-> FALSE]]
    /\ intent = [c \in Channel |-> "out"]
    /\ users = 0 /\ others = 0 /\ drops = 0

User ==
    \E c \in Channel :
        \/ UserJoins(c) \/ UserCloses(c) \/ UserCycles(c) \/ UserAsksNames(c)
        \/ \E closes \in BOOLEAN : UserParts(c, closes)

Get ==
    \/ Get001 \/ GetJoin \/ GetNick \/ GetQuit \/ GetMode \/ Get324 \/ Get353 \/ Get366
    \/ \E closes \in BOOLEAN : GetPart(closes)
    \/ \E autorejoin \in AutorejoinModes : GetKick(autorejoin)

OtherUsers ==
    \/ \E n \in Nick, c \in Channel :
          \/ OtherJoins(n, c)
          \/ \E cmd \in {"PART", "KICK"} : Removed(n, c, cmd)
          \/ \E set \in BOOLEAN : Op(n, c, set)
    \/ \E n, new \in Nick : Renamed(n, new)
    \/ \E n \in Nick : Quits(n)
    \/ \E c \in Channel : Flag(c)

Next ==
    \/ User \/ Get \/ OtherUsers
    \/ Serve \/ Connect \/ Drop
    \/ \E c \in Channel : AutorejoinCb(c)

\* The network delivers and the server answers, timers expire, and a lost
\* connection is made again (IrcServer).
Spec ==
    /\ Init /\ [][Next]_vars
    /\ WF_vars(Get) /\ WF_vars(Serve) /\ WF_vars(Connect)
    /\ \A c \in Channel : WF_vars(AutorejoinCb(c))

-----------------------------------------------------------------------------
(* Properties.                                                             *)

\* Every variable has its type; the list of nicks is empty while the client
\* is not connected.
TypeOK ==
    /\ conn \in {"off", "registering", "on"}
    /\ {nick, mine} \subseteq Nick \cup {NoNick}
    /\ \A c \in Channel :
          /\ channels[c].modes \in {"unknown", "set", "unset"}
          /\ DOMAIN channels[c].nicks \subseteq Nick
          /\ conn # "on" => channels[c].nicks = NoNicks
          /\ channels[c].hook_autorejoin => timers[c] > 0
          /\ intent[c] \in {"in", "out", "any"}

\* Once the client has read all that the server sent, the nick list of each
\* open channel is the server's, with the op of each nick, whatever joins,
\* parts, kicks, nick changes, quits and modes came before, between and after
\* the names of the channel; it is empty when the client is not on the
\* channel; and the client knows its own nick.
ListIsTheServers ==
    conn = "on" /\ wire = <<>> =>
        /\ nick = mine
        /\ \A c \in Channel : channels[c].open =>
              channels[c].nicks = IF InRoom(c) THEN rooms[c].list ELSE NoNicks

\* The modes of a channel are asked for after each JOIN and no mode of the time
\* before it is kept: when all was read and answered they are the server's.
ModesAreTheServers ==
    conn = "on" /\ wire = <<>> /\ outq = <<>> =>
        \A c \in Channel : channels[c].open /\ InRoom(c) =>
            channels[c].modes = IF rooms[c].flag THEN "set" ELSE "unset"

\* What the user asked last of a channel is what the client ends with, through
\* parts and joins that cross, kicks, cycles, closed buffers, and connections
\* lost: it is there or not.  (Not when a race or a /part that cycles leaves it
\* open, see intent.)
UserIsObeyed ==
    \A c \in Channel :
        conn = "on" /\ ~Underway(c) /\ ~channels[c].hook_autorejoin =>
            /\ intent[c] = "in" => InRoom(c)
            /\ intent[c] = "out" => ~InRoom(c)

\* A channel that the user wants to be on is joined (again), after a kick with
\* the option "autorejoin" and after each connection that is lost.
ComesBack ==
    \A c \in Channel : intent[c] = "in" ~> InRoom(c) \/ intent[c] # "in"

\* "currently cycling (/part + /join)": the PART of a /cycle is underway.
CyclingIsTrue ==
    \A c \in Channel : channels[c].cycle => Underway(c)
-----------------------------------------------------------------------------
(* Conjunctions of the properties above, as the runs check them.           *)

\* What the client shows of a channel is what the server has, once all that
\* the server sent was read (irc_protocol_cb_join, _part, _kick, _nick, _quit,
\* _mode, _353, _324, irc_nick_new, irc_mode_channel_set).
ChannelsAreTheServers == TypeOK /\ ListIsTheServers /\ ModesAreTheServers
=============================================================================
