-------------------------- MODULE IrcChannelsProofs --------------------------
(***************************************************************************)
(* Proofs about IrcChannels.                                               *)
(*                                                                         *)
(* While messages are on their way the client is behind the server.  The   *)
(* invariant says by how much: there are views, one before and one after    *)
(* each message, of which the first is what the client shows, the last what *)
(* the server has, and each what the message before makes of the one before *)
(* (Chain).  The client takes the first view away, the server and its users *)
(* add one.  So nothing has to be computed from the messages by induction.  *)
(* The modes are not in step with the server after a JOIN, until they were  *)
(* asked for and answered (ModesAsked).                                     *)
(*                                                                         *)
(* What the user asked is followed in the same way, channel by channel: the *)
(* standings say before and after each message whether the client is on the *)
(* channel (Course), from what the client shows to what the server has, and *)
(* the last command for the channel that waits in the out queue, or the     *)
(* last standing if none does, is what the user asked last (Obeys).         *)
(***************************************************************************)
EXTENDS IrcChannels, FiniteSetTheorems, SequenceTheorems, TLAPS

NickList == UNION {[S -> BOOLEAN] : S \in SUBSET Nick}
Person   == Nick \cup {NoNick}
Mode     == {"unknown", "set", "unset"}
Buffer   == [open : BOOLEAN, nicks : NickList, part : BOOLEAN, cycle : BOOLEAN,
             modes : Mode, named : BOOLEAN, hook_autorejoin : BOOLEAN]
Room     == [list : NickList, flag : BOOLEAN]
Command  == [cmd : {"JOIN", "PART", "NAMES", "MODE"}, chan : Channel]
Messages == [cmd : {"001"}, nick : Nick]
       \cup [cmd : {"JOIN", "PART", "KICK"}, nick : Nick, chan : Channel]
       \cup [cmd : {"NICK"}, nick : Nick, new : Nick]
       \cup [cmd : {"QUIT"}, nick : Nick]
       \cup [cmd : {"MODE"}, nick : Person, chan : Channel, set : BOOLEAN]
       \cup [cmd : {"324"}, chan : Channel, set : BOOLEAN]
       \cup [cmd : {"353"}, chan : Channel, list : NickList]
       \cup [cmd : {"366"}, chan : Channel]

-----------------------------------------------------------------------------
(* A view is what a client that keeps every channel open would show: its    *)
(* nick and, of each channel, the list of nicks, the modes, and whether the *)
(* names were received.  "Seen" is what a message makes of a view.          *)
View == [nick : Person, lists : [Channel -> NickList], modes : [Channel -> Mode],
         named : [Channel -> BOOLEAN]]

ModeName(set) == IF set THEN "set" ELSE "unset"

NickAfter(m, s) ==
    CASE m.cmd = "001" -> m.nick
      [] m.cmd = "NICK" /\ m.nick = s.nick -> m.new
      [] OTHER -> s.nick

ListAfter(m, s, c) ==
    LET list == s.lists[c]
        own == m.nick = s.nick
    IN  CASE m.cmd = "NICK" -> NickChanged(list, m.nick, m.new)
          [] m.cmd = "QUIT" -> Without(list, m.nick)
          [] m.cmd = "JOIN" /\ m.chan = c ->
                IF own THEN Single(m.nick, FALSE) ELSE Over(Single(m.nick, FALSE), list)
          [] m.cmd \in {"PART", "KICK"} /\ m.chan = c ->
                IF own THEN NoNicks ELSE Without(list, m.nick)
          [] m.cmd = "MODE" /\ m.chan = c ->
                IF m.nick \in DOMAIN list THEN [list EXCEPT ![m.nick] = m.set] ELSE list
          [] m.cmd = "353" /\ m.chan = c ->
                IF list = NoNicks THEN list ELSE Over(m.list, list)
          [] OTHER -> list

\* a JOIN that finds no nick on the channel: the names and modes are to come
Starts(m, s, c) == /\ m.cmd = "JOIN" /\ m.chan = c
                   /\ m.nick = s.nick \/ s.lists[c] = NoNicks

ModesAfter(m, s, c) ==
    CASE m.cmd = "324" /\ m.chan = c -> ModeName(m.set)
      [] m.cmd = "MODE" /\ m.chan = c /\ m.nick = NoNick -> ModeName(m.set)
      [] Starts(m, s, c) -> "unknown"
      [] OTHER -> s.modes[c]

NamedAfter(m, s, c) ==
    CASE m.cmd = "366" /\ m.chan = c -> TRUE
      [] Starts(m, s, c) -> FALSE
      [] OTHER -> s.named[c]

Seen(m, s) == [nick  |-> NickAfter(m, s),
               lists |-> [c \in Channel |-> ListAfter(m, s, c)],
               modes |-> [c \in Channel |-> ModesAfter(m, s, c)],
               named |-> [c \in Channel |-> NamedAfter(m, s, c)]]

\* the views before, between and after the messages on their way
Chain(w, v) ==
    /\ v \in [0 .. Len(w) -> View]
    /\ \A k \in 1 .. Len(w) : v[k] = Seen(w[k], v[k - 1])

OwnJoin(w, v, c, j) == w[j].cmd = "JOIN" /\ w[j].chan = c /\ w[j].nick = v[j - 1].nick

\* The first view is the client's, the last one the server's.
ClientEnd(v) ==
    /\ conn = "on" => v[0].nick = nick
    /\ \A c \in Channel : channels[c].open =>
          /\ channels[c].nicks = v[0].lists[c]
          /\ channels[c].modes = v[0].modes[c]
          /\ channels[c].named = v[0].named[c]

ServerEnd(v) ==
    /\ v[Len(wire)].nick = mine
    /\ \A c \in Channel :
          v[Len(wire)].lists[c] = IF InRoom(c) THEN rooms[c].list ELSE NoNicks

Pending(q, c) == \E i \in 1 .. Len(q) : q[i].cmd = "MODE" /\ q[i].chan = c

\* Names that end for the first time after the position j
NamesEnd(w, v, c, j) ==
    \E k \in 1 .. Len(w) : /\ k > j
                           /\ w[k].cmd = "366" /\ w[k].chan = c
                           /\ ~v[k - 1].named[c] /\ v[k - 1].lists[c] # NoNicks

\* In a view that the client will have of a channel, from now if it is open
\* and from its next JOIN otherwise, the modes end as the flag f says, or
\* they are asked for (p), or will be.
Asked(w, v, c, open, p, f) ==
    \A j \in 0 .. Len(w) :
        (IF j = 0 THEN open ELSE OwnJoin(w, v, c, j)) =>
            \/ v[Len(w)].modes[c] = ModeName(f)
            \/ p
            \/ NamesEnd(w, v, c, j)

ModesAsked(v) ==
    \A c \in Channel : InRoom(c) =>
        Asked(wire, v, c, channels[c].open, Pending(outq, c), rooms[c].flag)

Typed ==
    /\ conn \in {"off", "registering", "on"}
    /\ nick \in Person /\ mine \in Person
    /\ channels \in [Channel -> Buffer]
    /\ timers \in [Channel -> Nat]
    /\ outq \in Seq(Command) /\ wire \in Seq(Messages)
    /\ rooms \in [Channel -> Room]
    /\ intent \in [Channel -> {"in", "out", "any"}]
    /\ \A c \in Channel :
          /\ ~channels[c].open => channels[c] = NoChannel
          /\ conn # "on" => channels[c].nicks = NoNicks
          /\ channels[c].hook_autorejoin => timers[c] > 0

\* The 001 is the first message of a connection, and ends the registration.
Registered ==
    /\ conn = "off" => wire = <<>> /\ mine = NoNick
    /\ conn # "off" => mine \in Nick
    /\ conn = "registering" => wire # <<>> /\ wire[1].cmd = "001"
    /\ \A i \in 1 .. Len(wire) : wire[i].cmd = "001" => i = 1 /\ conn = "registering"

-----------------------------------------------------------------------------
(* Lists of nicks.                                                         *)

LEMMA ListFacts ==
    /\ NoNicks \in NickList
    /\ \A l \in NickList : DOMAIN l \in SUBSET Nick /\ l \in [DOMAIN l -> BOOLEAN]
    /\ \A S \in SUBSET Nick : \A l \in [S -> BOOLEAN] : l \in NickList
    /\ \A l \in NickList : l = NoNicks <=> DOMAIN l = {}
<1>1. \A l \in NickList : DOMAIN l \in SUBSET Nick /\ l \in [DOMAIN l -> BOOLEAN]
  BY DEF NickList
<1>2. \A S \in SUBSET Nick : \A l \in [S -> BOOLEAN] : l \in NickList
  BY DEF NickList
<1>3. NoNicks \in [{} -> BOOLEAN] /\ DOMAIN NoNicks = {}
  BY DEF NoNicks
<1>4. NoNicks \in NickList
  BY <1>2, <1>3
<1>5. \A l \in [{} -> BOOLEAN] : l = NoNicks
  BY DEF NoNicks
<1>6. \A l \in NickList : DOMAIN l = {} => l = NoNicks
  BY <1>1, <1>5
<1> QED BY <1>1, <1>2, <1>3, <1>4, <1>6

LEMMA SingleFacts ==
    ASSUME NEW n \in Nick, NEW op \in BOOLEAN
    PROVE  /\ Single(n, op) \in NickList /\ DOMAIN Single(n, op) = {n}
           /\ Single(n, op)[n] = op /\ Single(n, op) # NoNicks
<1>1. Single(n, op) \in [{n} -> BOOLEAN] /\ DOMAIN Single(n, op) = {n} /\ Single(n, op)[n] = op
  BY DEF Single
<1> QED BY <1>1, ListFacts

LEMMA OverFacts ==
    ASSUME NEW new \in NickList, NEW list \in NickList
    PROVE  /\ Over(new, list) \in NickList
           /\ DOMAIN Over(new, list) = DOMAIN new \cup DOMAIN list
           /\ \A n \in DOMAIN new \cup DOMAIN list :
                 Over(new, list)[n] = IF n \in DOMAIN new THEN new[n] ELSE list[n]
<1> DEFINE D == DOMAIN new \cup DOMAIN list
<1>1. /\ D \in SUBSET Nick /\ new \in [DOMAIN new -> BOOLEAN] /\ list \in [DOMAIN list -> BOOLEAN]
  BY ListFacts
<1>2. Over(new, list) \in [D -> BOOLEAN]
  BY <1>1 DEF Over
<1>3. \A n \in D : Over(new, list)[n] = IF n \in DOMAIN new THEN new[n] ELSE list[n]
  BY DEF Over
<1>4. Over(new, list) \in NickList
  BY <1>1, <1>2, ListFacts
<1> QED BY <1>2, <1>3, <1>4

\* Names on top of a list that has no other nicks are the names.
LEMMA OverAll ==
    ASSUME NEW new \in NickList, NEW list \in NickList, DOMAIN list \subseteq DOMAIN new
    PROVE  Over(new, list) = new
<1>1. new \in [DOMAIN new -> BOOLEAN]
  BY ListFacts
<1>2. Over(new, list) = [n \in DOMAIN new |-> new[n]]
  BY DEF Over
<1> QED BY <1>1, <1>2

LEMMA WithoutFacts ==
    ASSUME NEW list \in NickList, NEW n
    PROVE  /\ Without(list, n) \in NickList
           /\ DOMAIN Without(list, n) = DOMAIN list \ {n}
           /\ n \notin DOMAIN list => Without(list, n) = list
           /\ Without(NoNicks, n) = NoNicks
<1>1. /\ DOMAIN list \in SUBSET Nick /\ list \in [DOMAIN list -> BOOLEAN]
  BY ListFacts
<1>2. Without(list, n) = [x \in DOMAIN list \ {n} |-> list[x]]
  BY DEF Without, Restrict
<1>3. Without(list, n) \in [DOMAIN list \ {n} -> BOOLEAN]
  BY <1>1, <1>2
<1>4. ASSUME n \notin DOMAIN list
      PROVE  Without(list, n) = list
  <2>1. DOMAIN list \ {n} = DOMAIN list
    BY <1>4
  <2> QED BY <1>1, <1>2, <2>1
<1>5. Without(NoNicks, n) = NoNicks
  BY DEF Without, Restrict, NoNicks
<1> QED BY <1>1, <1>3, <1>4, <1>5, ListFacts

LEMMA ChangedFacts ==
    ASSUME NEW list \in NickList, NEW old \in Nick, NEW new \in Nick
    PROVE  /\ NickChanged(list, old, new) \in NickList
           /\ old \in DOMAIN list =>
                 DOMAIN NickChanged(list, old, new) = (DOMAIN list \ {old}) \cup {new}
           /\ old \notin DOMAIN list => NickChanged(list, old, new) = list
           /\ NickChanged(NoNicks, old, new) = NoNicks
<1>1. /\ DOMAIN list \in SUBSET Nick /\ list \in [DOMAIN list -> BOOLEAN]
  BY ListFacts
<1> DEFINE D == (DOMAIN list \ {old}) \cup {new}
           f == [n \in D |-> IF n = new THEN list[old] ELSE list[n]]
<1>2. old \in DOMAIN list => NickChanged(list, old, new) = f
  BY DEF NickChanged
<1>3. old \in DOMAIN list => f \in [D -> BOOLEAN]
  BY <1>1
<1>4. old \notin DOMAIN list => NickChanged(list, old, new) = list
  BY DEF NickChanged
<1>5. NickChanged(NoNicks, old, new) = NoNicks
  BY DEF NickChanged, NoNicks
<1>6. D \in SUBSET Nick
  BY <1>1
<1>7. old \in DOMAIN list => f \in NickList
  <2> HIDE DEF D, f
  <2> QED BY <1>3, <1>6, ListFacts
<1>8. old \in DOMAIN list => DOMAIN f = D
  OBVIOUS
<1> QED BY <1>2, <1>4, <1>5, <1>7, <1>8

LEMMA ExceptFacts ==
    ASSUME NEW list \in NickList, NEW n \in DOMAIN list, NEW op \in BOOLEAN
    PROVE  /\ [list EXCEPT ![n] = op] \in NickList
           /\ DOMAIN [list EXCEPT ![n] = op] = DOMAIN list
<1>1. /\ DOMAIN list \in SUBSET Nick /\ list \in [DOMAIN list -> BOOLEAN]
  BY ListFacts
<1>2. [list EXCEPT ![n] = op] \in [DOMAIN list -> BOOLEAN]
  BY <1>1
<1> QED BY <1>1, <1>2, ListFacts

-----------------------------------------------------------------------------
(* Messages and views.                                                     *)

LEMMA MessageFields ==
    ASSUME NEW m \in Messages
    PROVE  /\ m.cmd \in {"001", "JOIN", "PART", "KICK", "NICK", "QUIT", "MODE", "324", "353", "366"}
           /\ m.cmd \in {"001", "JOIN", "PART", "KICK", "NICK", "QUIT"} => m.nick \in Nick
           /\ m.cmd \in {"JOIN", "PART", "KICK", "MODE", "324", "353", "366"} => m.chan \in Channel
           /\ m.cmd = "NICK" => m.new \in Nick
           /\ m.cmd = "MODE" => m.nick \in Person
           /\ m.cmd \in {"MODE", "324"} => m.set \in BOOLEAN
           /\ m.cmd = "353" => m.list \in NickList
BY DEF Messages

LEMMA ViewFields ==
    ASSUME NEW s \in View
    PROVE  /\ s.nick \in Person /\ s.lists \in [Channel -> NickList]
           /\ s.modes \in [Channel -> Mode] /\ s.named \in [Channel -> BOOLEAN]
           /\ \A c \in Channel : /\ s.lists[c] \in NickList /\ s.modes[c] \in Mode
                                 /\ s.named[c] \in BOOLEAN
BY DEF View

LEMMA SeenFields ==
    ASSUME NEW m, NEW s
    PROVE  /\ Seen(m, s).nick = NickAfter(m, s)
           /\ \A c \in Channel : /\ Seen(m, s).lists[c] = ListAfter(m, s, c)
                                 /\ Seen(m, s).modes[c] = ModesAfter(m, s, c)
                                 /\ Seen(m, s).named[c] = NamedAfter(m, s, c)
BY DEF Seen

LEMMA SeenType ==
    ASSUME NEW m \in Messages, NEW s \in View
    PROVE  Seen(m, s) \in View
<1>m. s.nick \in Person
  BY ViewFields
<1>1. NickAfter(m, s) \in Person
  BY <1>m, MessageFields DEF NickAfter, Person
<1>2. ASSUME NEW c \in Channel
      PROVE  ListAfter(m, s, c) \in NickList
  <2> DEFINE list == s.lists[c]
  <2>1. list \in NickList
    BY ViewFields
  <2> HIDE DEF list
  <2>2. CASE m.cmd = "NICK"
    <3>1. m.nick \in Nick /\ m.new \in Nick
      BY <2>2, MessageFields
    <3>2. NickChanged(list, m.nick, m.new) \in NickList
      BY <2>1, <3>1, ChangedFacts
    <3> QED BY <2>2, <3>2 DEF ListAfter, list
  <2>3. CASE m.cmd = "QUIT"
    BY <2>1, <2>3, WithoutFacts DEF ListAfter, list
  <2>4. CASE m.cmd = "JOIN"
    <3>1. m.nick \in Nick
      BY <2>4, MessageFields
    <3>2. Single(m.nick, FALSE) \in NickList
      BY <3>1, SingleFacts
    <3>3. Over(Single(m.nick, FALSE), list) \in NickList
      BY <2>1, <3>2, OverFacts
    <3> QED BY <2>1, <2>4, <3>2, <3>3 DEF ListAfter, list
  <2>5. CASE m.cmd \in {"PART", "KICK"}
    BY <2>1, <2>5, WithoutFacts, ListFacts DEF ListAfter, list
  <2>6. CASE m.cmd = "MODE"
    <3>1. m.set \in BOOLEAN
      BY <2>6, MessageFields
    <3>2. m.nick \in DOMAIN list => [list EXCEPT ![m.nick] = m.set] \in NickList
      BY <2>1, <3>1, ExceptFacts
    <3> QED BY <2>1, <2>6, <3>2 DEF ListAfter, list
  <2>7. CASE m.cmd = "353"
    <3>1. Over(m.list, list) \in NickList
      BY <2>1, <2>7, OverFacts, MessageFields
    <3> QED BY <2>1, <2>7, <3>1 DEF ListAfter, list
  <2>8. CASE m.cmd \in {"001", "324", "366"}
    BY <2>1, <2>8 DEF ListAfter, list
  <2> QED BY <2>2, <2>3, <2>4, <2>5, <2>6, <2>7, <2>8, MessageFields
<1>3. ASSUME NEW c \in Channel
      PROVE  ModesAfter(m, s, c) \in Mode /\ NamedAfter(m, s, c) \in BOOLEAN
  <2>1. s.modes[c] \in Mode /\ s.named[c] \in BOOLEAN
    BY ViewFields
  <2>2. \A b : ModeName(b) \in Mode
    BY DEF ModeName, Mode
  <2>3. ModesAfter(m, s, c) \in Mode
    BY <2>1, <2>2 DEF ModesAfter, Mode
  <2>4. NamedAfter(m, s, c) \in BOOLEAN
    BY <2>1 DEF NamedAfter
  <2> QED BY <2>3, <2>4
<1> QED BY <1>1, <1>2, <1>3 DEF Seen, View

-----------------------------------------------------------------------------
(* Sequences and chains of views.                                          *)

LEMMA AppendFacts ==
    ASSUME NEW S, NEW s \in Seq(S), NEW e \in S
    PROVE  /\ Append(s, e) \in Seq(S) /\ Len(Append(s, e)) = Len(s) + 1 /\ Len(s) \in Nat
           /\ \A i \in 1 .. Len(s) : Append(s, e)[i] = s[i]
           /\ Append(s, e)[Len(s) + 1] = e
OBVIOUS

LEMMA TailFacts ==
    ASSUME NEW S, NEW s \in Seq(S), s # <<>>
    PROVE  /\ Tail(s) \in Seq(S) /\ Len(Tail(s)) = Len(s) - 1 /\ Len(s) \in Nat \ {0}
           /\ \A i \in 1 .. Len(Tail(s)) : Tail(s)[i] = s[i + 1]
           /\ Head(s) = s[1] /\ Head(s) \in S
OBVIOUS

LEMMA Members ==
    ASSUME NEW S, NEW s \in Seq(S)
    PROVE  Len(s) \in Nat /\ (\A i \in 1 .. Len(s) : s[i] \in S) /\ (Len(s) = 0 <=> s = <<>>)
OBVIOUS

\* A function on 1..n is a sequence.
LEMMA FunctionIsSeq ==
    ASSUME NEW S, NEW n \in Nat, NEW f \in [1 .. n -> S]
    PROVE  f \in Seq(S)
BY SeqDef, Zenon

LEMMA ChainFacts ==
    ASSUME NEW w \in Seq(Messages), NEW v, Chain(w, v)
    PROVE  /\ Len(w) \in Nat
           /\ \A k \in 0 .. Len(w) : v[k] \in View
           /\ \A k \in 1 .. Len(w) : v[k] = Seen(w[k], v[k - 1]) /\ k - 1 \in 0 .. Len(w)
<1>1. Len(w) \in Nat
  BY Members
<1> QED BY <1>1 DEF Chain

\* "ChainAppended" says that the views u go on after the views v with m.
ChainAppended(w, v, m, u) ==
    /\ Chain(Append(w, m), u)
    /\ \A k \in 0 .. Len(w) : u[k] = v[k]
    /\ u[Len(w) + 1] = Seen(m, v[Len(w)])

LEMMA ChainAppend ==
    ASSUME NEW w \in Seq(Messages), NEW v, Chain(w, v), NEW m \in Messages
    PROVE  \E u : ChainAppended(w, v, m, u)
<1> DEFINE L == Len(w)
           u == [k \in 0 .. L + 1 |-> IF k = L + 1 THEN Seen(m, v[L]) ELSE v[k]]
<1>1. /\ L \in Nat /\ Len(Append(w, m)) = L + 1
      /\ \A i \in 1 .. L : Append(w, m)[i] = w[i]
      /\ Append(w, m)[L + 1] = m
  BY AppendFacts
<1>2. /\ \A k \in 0 .. L : v[k] \in View
      /\ \A k \in 1 .. L : v[k] = Seen(w[k], v[k - 1]) /\ k - 1 \in 0 .. L
  BY ChainFacts
<1>3. /\ \A k \in 0 .. L : u[k] = v[k]
      /\ u[L + 1] = Seen(m, v[L])
  BY <1>1
<1>4. Seen(m, v[L]) \in View
  BY <1>1, <1>2, SeenType
<1>5. u \in [0 .. L + 1 -> View]
  BY <1>1, <1>2, <1>4
<1> HIDE DEF u
<1>6. \A k \in 1 .. L + 1 : u[k] = Seen(Append(w, m)[k], u[k - 1])
  <2> SUFFICES ASSUME NEW k \in 1 .. L + 1 PROVE u[k] = Seen(Append(w, m)[k], u[k - 1])
    OBVIOUS
  <2>1. CASE k = L + 1
    BY <1>1, <1>3, <2>1
  <2>2. CASE k # L + 1
    <3>1. k \in 1 .. L /\ k \in 0 .. L /\ k - 1 \in 0 .. L
      BY <1>1, <2>2
    <3> QED BY <1>1, <1>2, <1>3, <3>1
  <2> QED BY <2>1, <2>2
<1>7. Chain(Append(w, m), u)
  BY <1>1, <1>5, <1>6 DEF Chain
<1> QED BY <1>3, <1>7 DEF ChainAppended

\* The views without the first one.
Rest(w, v) == [k \in 0 .. Len(w) - 1 |-> v[k + 1]]

LEMMA ChainTail ==
    ASSUME NEW w \in Seq(Messages), w # <<>>, NEW v, Chain(w, v)
    PROVE  /\ Chain(Tail(w), Rest(w, v))
           /\ \A k \in 0 .. Len(w) - 1 : Rest(w, v)[k] = v[k + 1]
<1> DEFINE L == Len(w)
           u == Rest(w, v)
<1>1. /\ Tail(w) \in Seq(Messages) /\ Len(Tail(w)) = L - 1 /\ L \in Nat \ {0}
      /\ \A i \in 1 .. Len(Tail(w)) : Tail(w)[i] = w[i + 1]
  BY TailFacts
<1>2. /\ \A k \in 0 .. L : v[k] \in View
      /\ \A k \in 1 .. L : v[k] = Seen(w[k], v[k - 1]) /\ k - 1 \in 0 .. L
  BY ChainFacts
<1>3. \A k \in 0 .. L - 1 : u[k] = v[k + 1] /\ k + 1 \in 0 .. L
  BY <1>1 DEF Rest
<1>4. u \in [0 .. L - 1 -> View]
  BY <1>1, <1>2 DEF Rest
<1> HIDE DEF u
<1>5. \A k \in 1 .. L - 1 : u[k] = Seen(Tail(w)[k], u[k - 1])
  <2> SUFFICES ASSUME NEW k \in 1 .. L - 1 PROVE u[k] = Seen(Tail(w)[k], u[k - 1])
    OBVIOUS
  <2>1. /\ k \in 0 .. L - 1 /\ k - 1 \in 0 .. L - 1 /\ k + 1 \in 1 .. L /\ (k + 1) - 1 = k
        /\ (k - 1) + 1 = k /\ k \in 1 .. Len(Tail(w))
    BY <1>1
  <2>2. u[k] = v[k + 1] /\ u[k - 1] = v[k] /\ Tail(w)[k] = w[k + 1]
    BY <1>1, <1>3, <2>1
  <2>3. v[k + 1] = Seen(w[k + 1], v[k])
    BY <1>2, <2>1
  <2> QED BY <2>2, <2>3
<1>6. Chain(Tail(w), u)
  BY <1>1, <1>4, <1>5 DEF Chain
<1> QED BY <1>3, <1>6 DEF u

\* One more message that is not a JOIN of the client on the channel.
LEMMA AskedAppend ==
    ASSUME NEW w \in Seq(Messages), NEW v, Chain(w, v), NEW m \in Messages, NEW u,
           ChainAppended(w, v, m, u),
           NEW c \in Channel, NEW open, NEW p, NEW f, NEW p2, NEW f2,
           Asked(w, v, c, open, p, f),
           ~ (m.cmd = "JOIN" /\ m.chan = c /\ m.nick = v[Len(w)].nick),
           v[Len(w)].modes[c] = ModeName(f) => Seen(m, v[Len(w)]).modes[c] = ModeName(f2),
           p => p2
    PROVE  Asked(Append(w, m), u, c, open, p2, f2)
<1> DEFINE L == Len(w)
           x == Append(w, m)
<1>1. /\ L \in Nat /\ Len(x) = L + 1
      /\ \A i \in 1 .. L : x[i] = w[i]
      /\ x[L + 1] = m
  BY AppendFacts
<1>2. /\ \A k \in 0 .. L : u[k] = v[k]
      /\ u[L + 1] = Seen(m, v[L])
  BY DEF ChainAppended
<1> HIDE DEF x
<1> SUFFICES ASSUME NEW j \in 0 .. L + 1, IF j = 0 THEN open ELSE OwnJoin(x, u, c, j)
             PROVE  \/ u[L + 1].modes[c] = ModeName(f2)
                    \/ p2
                    \/ NamesEnd(x, u, c, j)
  BY <1>1 DEF Asked, x
<1>3. j # L + 1
  <2> SUFFICES ASSUME j = L + 1 PROVE FALSE
    OBVIOUS
  <2>1. j # 0 /\ x[j] = m /\ j - 1 = L /\ u[j - 1] = v[L]
    BY <1>1, <1>2
  <2> QED BY <2>1 DEF OwnJoin
<1>4. j \in 0 .. L /\ (j # 0 => j \in 1 .. L /\ j - 1 \in 0 .. L)
  BY <1>1, <1>3
<1>5. IF j = 0 THEN open ELSE OwnJoin(w, v, c, j)
  BY <1>1, <1>2, <1>4 DEF OwnJoin
<1>6. \/ v[L].modes[c] = ModeName(f)
      \/ p
      \/ NamesEnd(w, v, c, j)
  BY <1>4, <1>5 DEF Asked
<1>7. ASSUME NamesEnd(w, v, c, j)
      PROVE  NamesEnd(x, u, c, j)
  <2>1. PICK k \in 1 .. L : /\ k > j
                            /\ w[k].cmd = "366" /\ w[k].chan = c
                            /\ ~v[k - 1].named[c] /\ v[k - 1].lists[c] # NoNicks
    BY <1>7 DEF NamesEnd
  <2>2. k \in 1 .. L + 1 /\ k - 1 \in 0 .. L
    BY <1>1
  <2>3. x[k] = w[k] /\ u[k - 1] = v[k - 1]
    BY <1>1, <1>2, <2>2
  <2> QED BY <1>1, <2>1, <2>2, <2>3 DEF NamesEnd
<1> QED BY <1>2, <1>6, <1>7

\* The client gets the first message.
LEMMA AskedTail ==
    ASSUME NEW w \in Seq(Messages), w # <<>>, NEW v, Chain(w, v),
           NEW c \in Channel, NEW open, NEW p, NEW f, NEW open2, NEW p2,
           Asked(w, v, c, open, p, f),
           open2 => open \/ OwnJoin(w, v, c, 1),
           (/\ open
            /\ w[1].cmd = "366" /\ w[1].chan = c
            /\ ~v[0].named[c] /\ v[0].lists[c] # NoNicks) => p2,
           p => p2
    PROVE  Asked(Tail(w), Rest(w, v), c, open2, p2, f)
<1> DEFINE L == Len(w)
           x == Tail(w)
           u == Rest(w, v)
<1>1. /\ L \in Nat \ {0} /\ Len(x) = L - 1
      /\ \A i \in 1 .. L - 1 : x[i] = w[i + 1]
  BY TailFacts
<1>2. \A k \in 0 .. L - 1 : u[k] = v[k + 1]
  BY ChainTail
<1> HIDE DEF x, u
<1> SUFFICES ASSUME NEW j \in 0 .. L - 1, IF j = 0 THEN open2 ELSE OwnJoin(x, u, c, j)
             PROVE  \/ u[L - 1].modes[c] = ModeName(f)
                    \/ p2
                    \/ NamesEnd(x, u, c, j)
  BY <1>1 DEF Asked, x, u
<1>3. /\ L - 1 \in 0 .. L - 1 /\ (L - 1) + 1 = L /\ u[L - 1] = v[L]
      /\ j + 1 \in 0 .. L /\ (j + 1) - 1 = j /\ j + 1 # 0
  BY <1>1, <1>2
<1>4. ASSUME NEW i \in 0 .. L, i = j + 1 \/ (i = 0 /\ j = 0 /\ open), NamesEnd(w, v, c, i)
      PROVE  p2 \/ NamesEnd(x, u, c, j)
  <2>1. PICK k \in 1 .. L : /\ k > i
                            /\ w[k].cmd = "366" /\ w[k].chan = c
                            /\ ~v[k - 1].named[c] /\ v[k - 1].lists[c] # NoNicks
    BY <1>4 DEF NamesEnd
  <2>2. CASE k = 1
    <3>1. i = 0 /\ open /\ v[k - 1] = v[0]
      BY <1>1, <1>4, <2>1, <2>2
    <3> QED BY <2>1, <2>2, <3>1
  <2>3. CASE k # 1
    <3>1. k - 1 \in 1 .. L - 1 /\ k - 1 > j /\ (k - 1) + 1 = k /\ (k - 1) - 1 \in 0 .. L - 1
          /\ ((k - 1) - 1) + 1 = k - 1
      BY <1>1, <1>4, <2>1, <2>3
    <3>2. x[k - 1] = w[k] /\ u[(k - 1) - 1] = v[k - 1]
      BY <1>1, <1>2, <3>1
    <3> QED BY <1>1, <2>1, <3>1, <3>2 DEF NamesEnd
  <2> QED BY <2>2, <2>3
<1>5. PICK i \in 0 .. L : /\ i = j + 1 \/ (i = 0 /\ j = 0 /\ open)
                          /\ IF i = 0 THEN open ELSE OwnJoin(w, v, c, i)
  <2>1. CASE j = 0 /\ open
    BY <1>1, <2>1
  <2>2. CASE j = 0 /\ ~open
    <3>1. OwnJoin(w, v, c, 1) /\ j + 1 = 1
      BY <2>2
    <3> QED BY <1>3, <2>2, <3>1
  <2>3. CASE j # 0
    <3>1. j \in 1 .. L - 1 /\ j - 1 \in 0 .. L - 1 /\ (j - 1) + 1 = j
      BY <1>1, <2>3
    <3>2. x[j] = w[j + 1] /\ u[j - 1] = v[j]
      BY <1>1, <1>2, <3>1
    <3>3. OwnJoin(w, v, c, j + 1)
      BY <1>3, <2>3, <3>2 DEF OwnJoin
    <3> QED BY <1>3, <3>3
  <2> QED BY <2>1, <2>2, <2>3
<1>6. v[L].modes[c] = ModeName(f) \/ p \/ NamesEnd(w, v, c, i)
  BY <1>5 DEF Asked
<1> QED BY <1>3, <1>4, <1>5, <1>6

-----------------------------------------------------------------------------
(* The queue of commands.                                                  *)

LEMMA QueuedFacts ==
    ASSUME NEW q \in Seq(Command), NEW x \in Command, NEW r \in Queued(q, x)
    PROVE  r \in Seq(Command) /\ \A c : Pending(q, c) => Pending(r, c)
<1>1. PICK i \in 1 .. Len(q) + 1 : r = InsertAt(q, i, x)
  BY DEF Queued
<1>2. /\ r \in Seq(Command) /\ Len(r) = Len(q) + 1 /\ Len(q) \in Nat
      /\ \A k \in 1 .. Len(q) : r[IF k < i THEN k ELSE k + 1] = q[k]
  <2> DEFINE a == SubSeq(q, 1, i - 1)
             b == SubSeq(q, i, Len(q))
             ax == Append(a, x)
  <2>1. Len(q) \in Nat /\ \A k \in 1 .. Len(q) : q[k] \in Command
    OBVIOUS
  <2>2. a \in Seq(Command) /\ Len(a) = i - 1 /\ \A k \in 1 .. i - 1 : a[k] = q[k]
    OBVIOUS
  <2>3. /\ b \in Seq(Command) /\ Len(b) = Len(q) - i + 1
        /\ \A k \in 1 .. Len(q) - i + 1 : b[k] = q[k + i - 1]
    OBVIOUS
  <2> HIDE DEF a, b
  <2>4. ax \in Seq(Command) /\ Len(ax) = i /\ \A k \in 1 .. i - 1 : ax[k] = q[k]
    BY <2>1, <2>2
  <2>5. a \o <<x>> = ax
    BY <2>2
  <2> HIDE DEF ax
  <2>6. r = ax \o b
    BY <1>1, <2>5 DEF InsertAt, a, b
  <2>7. /\ r \in Seq(Command) /\ Len(r) = Len(ax) + Len(b)
        /\ \A k \in 1 .. Len(ax) + Len(b) : r[k] = IF k <= Len(ax) THEN ax[k] ELSE b[k - Len(ax)]
    BY <2>3, <2>4, <2>6, ConcatProperties, Zenon
  <2>8. ASSUME NEW k \in 1 .. Len(q)
        PROVE  r[IF k < i THEN k ELSE k + 1] = q[k]
    <3>1. CASE k < i
      <4>1. k \in 1 .. Len(ax) + Len(b) /\ k <= Len(ax) /\ k \in 1 .. i - 1
        BY <2>1, <2>3, <2>4, <3>1
      <4> QED BY <2>4, <2>7, <3>1, <4>1
    <3>2. CASE ~ (k < i)
      <4>1. /\ k + 1 \in 1 .. Len(ax) + Len(b) /\ ~ (k + 1 <= Len(ax))
            /\ (k + 1) - Len(ax) \in 1 .. Len(q) - i + 1 /\ (k + 1) - Len(ax) + i - 1 = k
        BY <2>1, <2>3, <2>4, <3>2
      <4> QED BY <2>3, <2>7, <3>2, <4>1
    <3> QED BY <3>1, <3>2
  <2> QED BY <2>1, <2>3, <2>4, <2>7, <2>8
<1>3. ASSUME NEW c, Pending(q, c)
      PROVE  Pending(r, c)
  <2>1. PICK k \in 1 .. Len(q) : q[k].cmd = "MODE" /\ q[k].chan = c
    BY <1>3 DEF Pending
  <2> DEFINE n == IF k < i THEN k ELSE k + 1
  <2>2. n \in 1 .. Len(r) /\ r[n] = q[k]
    BY <1>2
  <2> HIDE DEF n
  <2> QED BY <2>1, <2>2 DEF Pending
<1> QED BY <1>2, <1>3

LEMMA AppendedFacts ==
    ASSUME NEW q \in Seq(Command), NEW x \in Command
    PROVE  /\ Append(q, x) \in Seq(Command) /\ \A c : Pending(q, c) => Pending(Append(q, x), c)
           /\ x.cmd = "MODE" => Pending(Append(q, x), x.chan)
<1>1. /\ Append(q, x) \in Seq(Command) /\ Len(Append(q, x)) = Len(q) + 1 /\ Len(q) \in Nat
      /\ \A i \in 1 .. Len(q) : Append(q, x)[i] = q[i]
      /\ Append(q, x)[Len(q) + 1] = x
  BY AppendFacts
<1>2. Len(q) + 1 \in 1 .. Len(Append(q, x)) /\ 1 .. Len(q) \subseteq 1 .. Len(Append(q, x))
  BY <1>1
<1> QED BY <1>1, <1>2 DEF Pending

LEMMA CommandType ==
    ASSUME NEW cmd \in {"JOIN", "PART", "NAMES", "MODE"}, NEW c \in Channel
    PROVE  Cmd(cmd, c) \in Command /\ Cmd(cmd, c).cmd = cmd /\ Cmd(cmd, c).chan = c
BY DEF Cmd, Command

\* The commands sent when a channel is left or joined.
LEMMA SentFacts ==
    ASSUME outq \in Seq(Command), NEW c \in Channel, NEW cmd \in {"JOIN", "PART", "NAMES"}
    PROVE  \A r \in Queued(outq, Cmd(cmd, c)) \cup {outq} :
              r \in Seq(Command) /\ \A d : Pending(outq, d) => Pending(r, d)
BY QueuedFacts, CommandType

LEMMA CloseFacts ==
    ASSUME outq \in Seq(Command), NEW c \in Channel, NEW ch, NEW r \in SentOnClose(ch, c)
    PROVE  r \in Seq(Command) /\ \A d : Pending(outq, d) => Pending(r, d)
BY SentFacts DEF SentOnClose

-----------------------------------------------------------------------------
(* Steps that change one end of the views, or both.                        *)

Matches(v) == Chain(wire, v) /\ ClientEnd(v) /\ ServerEnd(v) /\ ModesAsked(v)

\* What the client does by itself.
LEMMA ClientStep ==
    ASSUME Typed, NEW v, Matches(v),
           wire' = wire, mine' = mine, rooms' = rooms,
           conn' = "on" => conn = "on" /\ nick' = nick,
           \A c \in Channel : channels'[c].open =>
              /\ channels[c].open
              /\ channels'[c].nicks = channels[c].nicks
              /\ channels'[c].modes = channels[c].modes
              /\ channels'[c].named = channels[c].named,
           \A c \in Channel : Pending(outq, c) => Pending(outq', c)
    PROVE  Matches(v)'
<1>1. Chain(wire, v)' /\ ServerEnd(v)'
  BY DEF Matches, Chain, ServerEnd, InRoom
<1>2. ClientEnd(v)'
  BY DEF Matches, ClientEnd
<1>3. ModesAsked(v)'
  <2> SUFFICES ASSUME NEW c \in Channel, InRoom(c)
               PROVE  Asked(wire, v, c, channels'[c].open, Pending(outq', c), rooms[c].flag)
    BY DEF ModesAsked, InRoom
  <2>1. Asked(wire, v, c, channels[c].open, Pending(outq, c), rooms[c].flag)
    BY DEF Matches, ModesAsked
  <2> QED BY <2>1 DEF Asked
<1> QED BY <1>1, <1>2, <1>3 DEF Matches

\* The client gets a message.
LEMMA GetStep ==
    ASSUME Typed, NEW v, Matches(v), wire # <<>>,
           wire' = Tail(wire), mine' = mine, rooms' = rooms,
           conn' = "on" => nick' = Seen(Head(wire), v[0]).nick,
           \A c \in Channel : channels'[c].open =>
              /\ channels'[c].nicks = Seen(Head(wire), v[0]).lists[c]
              /\ channels'[c].modes = Seen(Head(wire), v[0]).modes[c]
              /\ channels'[c].named = Seen(Head(wire), v[0]).named[c],
           \A c \in Channel : channels'[c].open =>
              \/ channels[c].open
              \/ Head(wire).cmd = "JOIN" /\ Head(wire).chan = c /\ Head(wire).nick = v[0].nick,
           \A c \in Channel :
              (/\ channels[c].open
               /\ Head(wire).cmd = "366" /\ Head(wire).chan = c
               /\ ~v[0].named[c] /\ v[0].lists[c] # NoNicks) => Pending(outq', c),
           \A c \in Channel : Pending(outq, c) => Pending(outq', c)
    PROVE  \E u : Matches(u)'
<1> DEFINE L == Len(wire)
<1>0. PICK u : u = Rest(wire, v)
  OBVIOUS
<1>1. wire \in Seq(Messages) /\ Chain(wire, v)
  BY DEF Typed, Matches
<1>2. /\ L \in Nat \ {0} /\ Len(Tail(wire)) = L - 1 /\ Head(wire) = wire[1]
      /\ Chain(Tail(wire), u) /\ \A k \in 0 .. L - 1 : u[k] = v[k + 1]
  BY <1>0, <1>1, TailFacts, ChainTail
<1>3. /\ u[L - 1] = v[L] /\ u[0] = v[1] /\ v[1] = Seen(Head(wire), v[0])
  <2>1. L - 1 \in 0 .. L - 1 /\ (L - 1) + 1 = L /\ 0 \in 0 .. L - 1 /\ 1 \in 1 .. L /\ 1 - 1 = 0
        /\ 0 + 1 = 1
    BY <1>2
  <2>2. v[1] = Seen(wire[1], v[1 - 1])
    BY <1>1, <2>1, ChainFacts
  <2> QED BY <1>2, <2>1, <2>2
<1>4. ServerEnd(u)'
  BY <1>2, <1>3 DEF Matches, ServerEnd, InRoom
<1>5. ClientEnd(u)'
  BY <1>3 DEF ClientEnd
<1>6. ModesAsked(u)'
  <2> SUFFICES ASSUME NEW c \in Channel, InRoom(c)
               PROVE  Asked(Tail(wire), Rest(wire, v), c, channels'[c].open, Pending(outq', c),
                            rooms[c].flag)
    BY <1>0 DEF ModesAsked, InRoom
  <2>1. Asked(wire, v, c, channels[c].open, Pending(outq, c), rooms[c].flag)
    BY DEF Matches, ModesAsked
  <2>2. channels'[c].open => channels[c].open \/ OwnJoin(wire, v, c, 1)
    BY <1>2 DEF OwnJoin
  <2>3. (/\ channels[c].open
         /\ wire[1].cmd = "366" /\ wire[1].chan = c
         /\ ~v[0].named[c] /\ v[0].lists[c] # NoNicks) => Pending(outq', c)
    BY <1>2
  <2> QED BY <1>1, <2>1, <2>2, <2>3, AskedTail
<1>7. Chain(wire, u)'
  BY <1>2 DEF Chain
<1> QED BY <1>4, <1>5, <1>6, <1>7 DEF Matches

\* Something happens on the server, and the client is told ...
Told(v, m) ==
    /\ m \in Messages /\ wire' = Append(wire, m)
    /\ channels' = channels /\ outq' = outq
    /\ conn' = "on" => conn = "on" /\ nick' = nick
    /\ Seen(m, v[Len(wire)]).nick = mine'
    /\ \A c \in Channel :
          Seen(m, v[Len(wire)]).lists[c] = IF InRoom(c)' THEN rooms'[c].list ELSE NoNicks
    /\ \A c \in Channel : InRoom(c)' =>
          /\ InRoom(c)
          /\ ~ (m.cmd = "JOIN" /\ m.chan = c /\ m.nick = v[Len(wire)].nick)
          /\ v[Len(wire)].modes[c] = ModeName(rooms[c].flag)
                => Seen(m, v[Len(wire)]).modes[c] = ModeName(rooms'[c].flag)

LEMMA ToldStep ==
    ASSUME Typed, NEW v, Matches(v), NEW m, Told(v, m)
    PROVE  \E u : Matches(u)'
<1> DEFINE L == Len(wire)
<1>1. wire \in Seq(Messages) /\ Chain(wire, v) /\ m \in Messages
  BY DEF Typed, Matches, Told
<1>2. PICK u : ChainAppended(wire, v, m, u)
  BY <1>1, ChainAppend
<1>3. /\ Chain(Append(wire, m), u) /\ Len(Append(wire, m)) = L + 1 /\ L \in Nat
      /\ u[0] = v[0] /\ u[L + 1] = Seen(m, v[L])
  BY <1>1, <1>2, AppendFacts DEF ChainAppended
<1>4. Chain(wire, u)'
  BY <1>3 DEF Chain, Told
<1>5. ServerEnd(u)'
  BY <1>3 DEF ServerEnd, Told
<1>6. ClientEnd(u)'
  BY <1>3 DEF Matches, ClientEnd, Told
<1>7. ModesAsked(u)'
  <2> SUFFICES ASSUME NEW c \in Channel, InRoom(c)'
               PROVE  Asked(Append(wire, m), u, c, channels[c].open, Pending(outq, c), rooms'[c].flag)
    BY DEF ModesAsked, Told
  <2>1. /\ InRoom(c)
        /\ ~ (m.cmd = "JOIN" /\ m.chan = c /\ m.nick = v[Len(wire)].nick)
        /\ v[Len(wire)].modes[c] = ModeName(rooms[c].flag)
              => Seen(m, v[Len(wire)]).modes[c] = ModeName(rooms'[c].flag)
    BY DEF Told
  <2>2. Asked(wire, v, c, channels[c].open, Pending(outq, c), rooms[c].flag)
    BY <2>1 DEF Matches, ModesAsked
  <2> QED BY <1>1, <1>2, <2>1, <2>2, AskedAppend
<1> QED BY <1>4, <1>5, <1>6, <1>7 DEF Matches

\* ... or is not.
LEMMA UntoldStep ==
    ASSUME Typed, NEW v, Matches(v),
           wire' = wire, client' = client, outq' = outq, mine' = mine,
           \A c \in Channel : InRoom(c)' <=> InRoom(c),
           \A c \in Channel : InRoom(c) => rooms'[c] = rooms[c]
    PROVE  Matches(v)'
<1>1. Chain(wire, v)'
  BY DEF Matches, Chain
<1>2. ServerEnd(v)'
  BY DEF Matches, ServerEnd
<1>3. ClientEnd(v)'
  BY DEF Matches, ClientEnd, client
<1>4. ModesAsked(v)'
  <2> SUFFICES ASSUME NEW c \in Channel, InRoom(c)'
               PROVE  Asked(wire, v, c, channels[c].open, Pending(outq, c), rooms'[c].flag)
    BY DEF ModesAsked, client
  <2> QED BY DEF Matches, ModesAsked
<1> QED BY <1>1, <1>2, <1>3, <1>4 DEF Matches

-----------------------------------------------------------------------------
(* The invariant, and the messages of one channel.                         *)

Faithful == Typed /\ Registered /\ \E v : Matches(v)

LEMMA ChannelFacts ==
    ASSUME Typed, NEW c \in Channel
    PROVE  /\ channels[c] \in Buffer /\ channels[c].nicks \in NickList
           /\ channels[c].modes \in Mode
           /\ channels[c].named \in BOOLEAN /\ channels[c].open \in BOOLEAN
           /\ channels[c].cycle \in BOOLEAN /\ channels[c].part \in BOOLEAN
           /\ channels[c].hook_autorejoin \in BOOLEAN
           /\ timers[c] \in Nat
           /\ ~channels[c].open => /\ channels[c].nicks = NoNicks
                                   /\ ~channels[c].hook_autorejoin /\ channels[c] = NoChannel
           /\ channels[c].hook_autorejoin => timers[c] > 0
BY Zenon DEF Typed, Buffer, NoChannel, NewChannel

LEMMA NoChannelFacts ==
    NoChannel \in Buffer /\ ~NoChannel.open /\ NoChannel.nicks = NoNicks
    /\ ~NoChannel.hook_autorejoin
BY ListFacts DEF NoChannel, NewChannel, Buffer, Mode

LEMMA GetFacts ==
    ASSUME Typed, Registered, NEW v, Matches(v), wire # <<>>
    PROVE  /\ Message \in Messages /\ Message = wire[1] /\ v[0] \in View
           /\ conn # "off" /\ mine \in Nick
           /\ Message.cmd # "001" => conn = "on" /\ v[0].nick = nick /\ nick \in Person
           /\ Message.cmd = "001" => conn = "registering"
           /\ Tail(wire) \in Seq(Messages)
           /\ \A i \in 1 .. Len(Tail(wire)) : Tail(wire)[i].cmd # "001"
<1>1. /\ wire \in Seq(Messages) /\ Tail(wire) \in Seq(Messages)
      /\ Len(Tail(wire)) = Len(wire) - 1 /\ Len(wire) \in Nat \ {0}
      /\ \A i \in 1 .. Len(Tail(wire)) : Tail(wire)[i] = wire[i + 1]
      /\ Head(wire) = wire[1] /\ Head(wire) \in Messages
  BY TailFacts DEF Typed
<1>2. v[0] \in View
  BY <1>1, ChainFacts DEF Matches
<1>3. conn \in {"registering", "on"} /\ mine \in Nick
  BY DEF Registered, Typed
<1>4. Message.cmd # "001" => conn = "on"
  BY <1>1, <1>3 DEF Registered, Message
<1>5. Message.cmd = "001" => conn = "registering"
  BY <1>1 DEF Registered, Message
<1>6. conn = "on" => v[0].nick = nick /\ nick \in Person
  BY DEF Matches, ClientEnd, Typed
<1>7. \A i \in 1 .. Len(Tail(wire)) : Tail(wire)[i].cmd # "001"
  <2> TAKE i \in 1 .. Len(Tail(wire))
  <2>1. i + 1 \in 1 .. Len(wire) /\ i + 1 # 1
    BY <1>1
  <2> QED BY <1>1, <2>1 DEF Registered
<1> QED BY <1>1, <1>2, <1>3, <1>4, <1>5, <1>6, <1>7 DEF Message

LEMMA GetRegistered ==
    ASSUME Typed, Registered, NEW v, Matches(v), wire # <<>>,
           wire' = Tail(wire), mine' = mine, conn' = "on"
    PROVE  Registered'
BY GetFacts DEF Registered

\* A message of the channel c, whose buffer becomes b: the other channels stay
\* as they are.
OneGot(v, c, b) ==
    /\ wire # <<>> /\ wire' = Tail(wire)
    /\ c \in Channel /\ Message.chan = c
    /\ Message.cmd \in {"JOIN", "PART", "KICK", "MODE", "324", "353", "366"}
    /\ mine' = mine /\ rooms' = rooms /\ conn' = conn /\ nick' = nick
    /\ b \in Buffer /\ channels' = [channels EXCEPT ![c] = b]
    /\ ~b.open => b = NoChannel
    /\ timers' \in [Channel -> Nat] /\ \A d \in Channel \ {c} : timers'[d] = timers[d]
    /\ b.hook_autorejoin => timers'[c] > 0
    /\ outq' \in Seq(Command) /\ \A d \in Channel : Pending(outq, d) => Pending(outq', d)
    /\ intent' \in [Channel -> {"in", "out", "any"}]
    /\ b.open => /\ b.nicks = ListAfter(Message, v[0], c)
                 /\ b.modes = ModesAfter(Message, v[0], c)
                 /\ b.named = NamedAfter(Message, v[0], c)
                 /\ channels[c].open \/ (Message.cmd = "JOIN" /\ Message.nick = nick)
    /\ (/\ channels[c].open /\ Message.cmd = "366"
        /\ ~v[0].named[c] /\ v[0].lists[c] # NoNicks) => Pending(outq', c)

LEMMA GetOne ==
    ASSUME Typed, Registered, NEW v, Matches(v), NEW c, NEW b, OneGot(v, c, b)
    PROVE  Faithful'
<1>0. /\ wire # <<>> /\ wire' = Tail(wire)
      /\ c \in Channel /\ Message.chan = c
      /\ Message.cmd \in {"JOIN", "PART", "KICK", "MODE", "324", "353", "366"}
      /\ mine' = mine /\ rooms' = rooms /\ conn' = conn /\ nick' = nick
      /\ b \in Buffer /\ channels' = [channels EXCEPT ![c] = b]
      /\ ~b.open => b = NoChannel
      /\ timers' \in [Channel -> Nat] /\ \A d \in Channel \ {c} : timers'[d] = timers[d]
      /\ b.hook_autorejoin => timers'[c] > 0
      /\ outq' \in Seq(Command) /\ \A d \in Channel : Pending(outq, d) => Pending(outq', d)
      /\ intent' \in [Channel -> {"in", "out", "any"}]
  BY DEF OneGot
<1>1. /\ Message \in Messages /\ conn = "on" /\ v[0].nick = nick /\ Tail(wire) \in Seq(Messages)
      /\ v[0] \in View
  BY <1>0, GetFacts
<1>2. channels \in [Channel -> Buffer]
  BY DEF Typed
<1>3. /\ channels' \in [Channel -> Buffer] /\ channels'[c] = b
      /\ \A d \in Channel \ {c} : channels'[d] = channels[d]
  BY <1>0, <1>2
<1>4. Typed'
  <2>1. ASSUME NEW d \in Channel
        PROVE  /\ ~channels'[d].open => channels'[d] = NoChannel
               /\ channels'[d].hook_autorejoin => timers'[d] > 0
    BY <1>0, <1>3, ChannelFacts
  <2>2. /\ conn' \in {"off", "registering", "on"} /\ conn' = "on" /\ nick' \in Person
        /\ mine' \in Person /\ wire' \in Seq(Messages) /\ rooms' \in [Channel -> Room]
    BY <1>0, <1>1 DEF Typed
  <2>3. \A d \in Channel : ~channels'[d].open => channels'[d] = NoChannel'
    BY <2>1 DEF NoChannel, NewChannel, NoNicks
  <2> QED BY <1>0, <1>3, <2>1, <2>2, <2>3 DEF Typed
<1>5. Registered'
  BY <1>0, <1>1, GetRegistered
<1>6. ASSUME NEW d \in Channel \ {c}
      PROVE  /\ ListAfter(Message, v[0], d) = v[0].lists[d]
             /\ ModesAfter(Message, v[0], d) = v[0].modes[d]
             /\ NamedAfter(Message, v[0], d) = v[0].named[d]
  <2>1. Message.chan # d
    BY <1>0
  <2>2. ListAfter(Message, v[0], d) = v[0].lists[d]
    BY <1>0, <2>1 DEF ListAfter
  <2>3. ModesAfter(Message, v[0], d) = v[0].modes[d]
    BY <1>0, <2>1 DEF ModesAfter, Starts
  <2>4. NamedAfter(Message, v[0], d) = v[0].named[d]
    BY <1>0, <2>1 DEF NamedAfter, Starts
  <2> QED BY <2>2, <2>3, <2>4
<1>7. \A d \in Channel : channels'[d].open =>
         /\ channels'[d].nicks = Seen(Message, v[0]).lists[d]
         /\ channels'[d].modes = Seen(Message, v[0]).modes[d]
         /\ channels'[d].named = Seen(Message, v[0]).named[d]
  <2> SUFFICES ASSUME NEW d \in Channel, channels'[d].open
               PROVE  /\ channels'[d].nicks = ListAfter(Message, v[0], d)
                      /\ channels'[d].modes = ModesAfter(Message, v[0], d)
                      /\ channels'[d].named = NamedAfter(Message, v[0], d)
    BY SeenFields
  <2>1. CASE d = c
    BY <1>3, <2>1 DEF OneGot
  <2>2. CASE d # c
    <3>1. /\ channels[d].nicks = v[0].lists[d] /\ channels[d].modes = v[0].modes[d]
          /\ channels[d].named = v[0].named[d]
      BY <1>3, <2>2 DEF Matches, ClientEnd
    <3> QED BY <1>3, <1>6, <2>2, <3>1
  <2> QED BY <2>1, <2>2
<1>8. nick' = Seen(Message, v[0]).nick
  <2>1. NickAfter(Message, v[0]) = v[0].nick
    BY <1>0 DEF NickAfter
  <2> QED BY <1>0, <1>1, <2>1, SeenFields
<1>9. \A d \in Channel : channels'[d].open =>
         channels[d].open \/ (Message.cmd = "JOIN" /\ Message.chan = d /\ Message.nick = v[0].nick)
  BY <1>0, <1>1, <1>3 DEF OneGot
<1>10. \E u : Matches(u)'
  <2>1. \A d \in Channel :
           (/\ channels[d].open
            /\ Message.cmd = "366" /\ Message.chan = d
            /\ ~v[0].named[d] /\ v[0].lists[d] # NoNicks) => Pending(outq', d)
    BY <1>0 DEF OneGot
  <2> QED BY <1>0, <1>7, <1>8, <1>9, <2>1, GetStep DEF Message
<1> QED BY <1>4, <1>5, <1>10 DEF Faithful

\* The join of a channel, by the client itself or by someone else.
LEMMA StepGetJoin ==
    ASSUME Typed, Registered, NEW v, Matches(v), GetJoin
    PROVE  Faithful'
<1> DEFINE c == Message.chan
           n == Message.nick
           ch == channels[c]
           local == n = nick
           b == IF ch.open \/ local THEN Joined(ch, n, local) ELSE ch
<1>1. /\ wire # <<>> /\ wire' = Tail(wire) /\ Message.cmd = "JOIN"
      /\ channels' = IF ch.open \/ local THEN [channels EXCEPT ![c] = Joined(ch, n, local)] ELSE channels
      /\ UNCHANGED <<conn, nick, timers, outq, server, intent, bounds>>
  BY DEF GetJoin, Gets, Message
<1>2. /\ Message \in Messages /\ conn = "on" /\ v[0].nick = nick /\ v[0] \in View
      /\ c \in Channel /\ n \in Nick
  BY <1>1, GetFacts, MessageFields
<1>3. /\ ch \in Buffer /\ ch.nicks \in NickList /\ ch.modes \in Mode /\ ch.named \in BOOLEAN
      /\ ~ch.open => ch = NoChannel
      /\ ch.hook_autorejoin => timers[c] > 0
  BY <1>2, ChannelFacts
<1>4. channels' = [channels EXCEPT ![c] = b]
  BY <1>1, <1>2 DEF Typed
<1>5. ch.open => /\ ch.nicks = v[0].lists[c] /\ ch.modes = v[0].modes[c]
                 /\ ch.named = v[0].named[c]
  BY <1>2 DEF Matches, ClientEnd
<1>6. /\ timers' = timers /\ outq' = outq /\ mine' = mine /\ rooms' = rooms /\ conn' = conn
      /\ nick' = nick /\ intent' = intent
  BY <1>1 DEF server
<1> DEFINE list == IF local THEN NoNicks ELSE ch.nicks
           known == list # NoNicks
<1>7. ASSUME ch.open \/ local
      PROVE  /\ b \in Buffer /\ b.open
             /\ b.nicks = ListAfter(Message, v[0], c)
             /\ b.modes = ModesAfter(Message, v[0], c)
             /\ b.named = NamedAfter(Message, v[0], c)
             /\ b.hook_autorejoin = ch.hook_autorejoin
  <2> DEFINE new == Over(Single(n, FALSE), list)
  <2>1. list \in NickList /\ Single(n, FALSE) \in NickList
    BY <1>2, <1>3, ListFacts, SingleFacts
  <2>2. new \in NickList
    BY <2>1, OverFacts
  <2>3. local => new = Single(n, FALSE)
    <3>1. DOMAIN NoNicks = {}
      BY ListFacts
    <3> QED BY <2>1, <3>1, OverAll
  <2> HIDE DEF ch
  <2>4. b = [ch EXCEPT !.open = TRUE, !.part = FALSE, !.nicks = new,
                       !.modes = IF known THEN ch.modes ELSE "unknown",
                       !.named = known /\ ch.named]
    BY <1>7 DEF Joined, NewNicks
  <2> HIDE DEF b, new, list
  <2>5. /\ b \in Buffer /\ b.open /\ b.nicks = new
        /\ b.modes = (IF list # NoNicks THEN ch.modes ELSE "unknown")
        /\ b.named = (list # NoNicks /\ ch.named) /\ b.hook_autorejoin = ch.hook_autorejoin
    BY <1>3, <2>2, <2>4 DEF Buffer, Mode
  <2>6. new = ListAfter(Message, v[0], c)
    <3>1. CASE local
      BY <1>1, <1>2, <2>3, <3>1 DEF ListAfter
    <3>2. CASE ~local
      <4>1. list = v[0].lists[c]
        BY <1>5, <1>7, <3>2 DEF list
      <4> QED BY <1>1, <1>2, <3>2, <4>1 DEF ListAfter, new
    <3> QED BY <3>1, <3>2
  <2>7. Starts(Message, v[0], c) <=> list = NoNicks
    <3>1. CASE local
      BY <1>1, <1>2, <3>1 DEF Starts, list
    <3>2. CASE ~local
      BY <1>1, <1>2, <1>5, <1>7, <3>2 DEF Starts, list
    <3> QED BY <3>1, <3>2
  <2>8. list # NoNicks => ch.open
    BY <1>7 DEF list
  <2>9. b.modes = ModesAfter(Message, v[0], c)
    BY <1>1, <1>5, <2>5, <2>7, <2>8 DEF ModesAfter
  <2>10. b.named = NamedAfter(Message, v[0], c)
    <3>1. CASE list = NoNicks
      <4>1. b.named = FALSE
        BY <2>5, <3>1
      <4> QED BY <1>1, <2>7, <3>1, <4>1 DEF NamedAfter
    <3>2. CASE list # NoNicks
      <4>1. b.named = ch.named
        BY <1>3, <2>5, <3>2
      <4> QED BY <1>1, <1>5, <2>7, <2>8, <3>2, <4>1 DEF NamedAfter
    <3> QED BY <3>1, <3>2
  <2> QED BY <2>5, <2>6, <2>9, <2>10
<1>8. ASSUME ~ (ch.open \/ local)
      PROVE  b = ch
  BY <1>8
<1> HIDE DEF b, ch, list
<1>9. /\ b \in Buffer
      /\ ~b.open => b = NoChannel
      /\ b.hook_autorejoin => timers'[c] > 0
      /\ b.open => /\ b.nicks = ListAfter(Message, v[0], c)
                   /\ b.modes = ModesAfter(Message, v[0], c)
                   /\ b.named = NamedAfter(Message, v[0], c)
                   /\ channels[c].open \/ (Message.cmd = "JOIN" /\ Message.nick = nick)
  BY <1>1, <1>3, <1>6, <1>7, <1>8 DEF ch
<1>10. /\ timers' \in [Channel -> Nat] /\ outq' \in Seq(Command)
       /\ intent' \in [Channel -> {"in", "out", "any"}]
       /\ \A d \in Channel \ {c} : timers'[d] = timers[d]
       /\ \A d \in Channel : Pending(outq, d) => Pending(outq', d)
  BY <1>6 DEF Typed
<1>11. Message.cmd \in {"JOIN", "PART", "KICK", "MODE", "324", "353", "366"} /\ Message.cmd # "366"
  BY <1>1
<1> QED
  <2>1. PICK d \in Channel : d = c
    BY <1>2
  <2>2. PICK e : e = b
    OBVIOUS
  <2> HIDE DEF c
  <2>3. OneGot(v, d, e)
    BY <1>1, <1>2, <1>4, <1>6, <1>9, <1>10, <1>11, <2>1, <2>2 DEF OneGot, c
  <2> QED BY <2>3, GetOne

WithNicks(ch, list) == [ch EXCEPT !.nicks = list]

LEMMA WithNicksFacts ==
    ASSUME NEW ch \in Buffer, NEW list \in NickList
    PROVE  /\ WithNicks(ch, list) \in Buffer /\ WithNicks(ch, list).open = ch.open
           /\ WithNicks(ch, list).nicks = list /\ WithNicks(ch, list).modes = ch.modes
           /\ WithNicks(ch, list).named = ch.named
           /\ WithNicks(ch, list).hook_autorejoin = ch.hook_autorejoin
           /\ list = ch.nicks => WithNicks(ch, list) = ch
BY DEF WithNicks, Buffer

\* Someone else leaves, or the channel has no buffer.
LEMMA StepOtherLeft ==
    ASSUME Typed, Registered, NEW v, Matches(v), wire # <<>>, wire' = Tail(wire),
           Message.cmd \in {"PART", "KICK"},
           ~channels[Message.chan].open \/ Message.nick # nick,
           NEW b, b = WithNicks(channels[Message.chan],
                                Without(channels[Message.chan].nicks, Message.nick)),
           channels' = [channels EXCEPT ![Message.chan] = b],
           UNCHANGED <<conn, nick, timers, outq, server, intent>>
    PROVE  Faithful'
<1> DEFINE n == Message.nick
<1>0. PICK c : c = Message.chan
  OBVIOUS
<1>1. /\ Message \in Messages /\ conn = "on" /\ v[0].nick = nick /\ v[0] \in View
      /\ c \in Channel /\ n \in Nick
  BY <1>0, GetFacts, MessageFields
<1>2. PICK ch : ch = channels[c]
  OBVIOUS
<1>3. /\ ch \in Buffer /\ ch.nicks \in NickList /\ ch.modes \in Mode /\ ch.named \in BOOLEAN
      /\ ~ch.open => ch = NoChannel /\ ch.nicks = NoNicks
      /\ ch.hook_autorejoin => timers[c] > 0
  BY <1>1, <1>2, ChannelFacts
<1>4. b = WithNicks(ch, Without(ch.nicks, n))
  BY <1>0, <1>2
<1>5. channels' = [channels EXCEPT ![c] = b]
  BY <1>0
<1>6. Without(ch.nicks, n) \in NickList
  BY <1>3, WithoutFacts
<1>7. /\ b \in Buffer /\ b.open = ch.open /\ b.nicks = Without(ch.nicks, n)
      /\ b.modes = ch.modes /\ b.named = ch.named /\ b.hook_autorejoin = ch.hook_autorejoin
  BY <1>3, <1>4, <1>6, WithNicksFacts
<1>8. ~b.open => b = NoChannel
  <2> SUFFICES ASSUME ~b.open PROVE b = NoChannel
    OBVIOUS
  <2>1. ch = NoChannel /\ ch.nicks = NoNicks
    BY <1>3, <1>7
  <2>2. Without(NoNicks, n) = NoNicks
    BY <2>1, <1>3, WithoutFacts
  <2> QED BY <1>3, <1>4, <1>6, <2>1, <2>2, WithNicksFacts
<1>9. ch.open => /\ ch.nicks = v[0].lists[c] /\ ch.modes = v[0].modes[c]
                 /\ ch.named = v[0].named[c]
  BY <1>1, <1>2 DEF Matches, ClientEnd
<1>10. b.open => /\ b.nicks = ListAfter(Message, v[0], c)
                 /\ b.modes = ModesAfter(Message, v[0], c)
                 /\ b.named = NamedAfter(Message, v[0], c)
                 /\ channels[c].open
  <2> SUFFICES ASSUME b.open
               PROVE  /\ b.nicks = ListAfter(Message, v[0], c)
                      /\ b.modes = ModesAfter(Message, v[0], c)
                      /\ b.named = NamedAfter(Message, v[0], c)
    BY <1>2, <1>7
  <2>1. n # v[0].nick /\ ch.open
    BY <1>0, <1>1, <1>2, <1>7
  <2>2. b.nicks = ListAfter(Message, v[0], c)
    BY <1>0, <1>7, <1>9, <2>1 DEF ListAfter
  <2>3. b.modes = ModesAfter(Message, v[0], c) /\ b.named = NamedAfter(Message, v[0], c)
    BY <1>7, <1>9, <2>1 DEF ModesAfter, NamedAfter, Starts
  <2> QED BY <2>2, <2>3
<1>11. /\ timers' \in [Channel -> Nat] /\ outq' \in Seq(Command)
       /\ intent' \in [Channel -> {"in", "out", "any"}]
       /\ \A d \in Channel \ {c} : timers'[d] = timers[d]
       /\ \A d \in Channel : Pending(outq, d) => Pending(outq', d)
       /\ mine' = mine /\ rooms' = rooms /\ conn' = conn /\ nick' = nick
       /\ b.hook_autorejoin => timers'[c] > 0
  BY <1>3, <1>7 DEF Typed, server
<1>12. Message.cmd \in {"JOIN", "PART", "KICK", "MODE", "324", "353", "366"} /\ Message.cmd # "366"
  OBVIOUS
<1>13. OneGot(v, c, b)
  BY <1>0, <1>1, <1>5, <1>7, <1>8, <1>10, <1>11, <1>12 DEF OneGot
<1> QED BY <1>13, GetOne

\* The client leaves, and keeps the buffer.
LEMMA StepOwnLeft ==
    ASSUME Typed, Registered, NEW v, Matches(v), wire # <<>>, wire' = Tail(wire),
           Message.cmd \in {"PART", "KICK"},
           channels[Message.chan].open, Message.nick = nick,
           NEW b \in Buffer, channels' = [channels EXCEPT ![Message.chan] = b],
           b.open, b.nicks = NoNicks, b.modes = channels[Message.chan].modes,
           b.named = channels[Message.chan].named,
           timers' \in [Channel -> Nat],
           \A d \in Channel \ {Message.chan} : timers'[d] = timers[d],
           b.hook_autorejoin => timers'[Message.chan] > 0,
           outq' \in Seq(Command), \A d \in Channel : Pending(outq, d) => Pending(outq', d),
           intent' \in [Channel -> {"in", "out", "any"}],
           UNCHANGED <<conn, nick, server>>
    PROVE  Faithful'
<1>0. PICK c : c = Message.chan
  OBVIOUS
<1>1. /\ Message \in Messages /\ v[0].nick = nick /\ v[0] \in View /\ c \in Channel
  BY <1>0, GetFacts, MessageFields
<1>2. channels[c].modes = v[0].modes[c] /\ channels[c].named = v[0].named[c]
  BY <1>0, <1>1 DEF Matches, ClientEnd
<1>3. b.nicks = ListAfter(Message, v[0], c)
  BY <1>0, <1>1 DEF ListAfter
<1>4. b.modes = ModesAfter(Message, v[0], c) /\ b.named = NamedAfter(Message, v[0], c)
  BY <1>0, <1>2 DEF ModesAfter, NamedAfter, Starts
<1>5. mine' = mine /\ rooms' = rooms /\ conn' = conn /\ nick' = nick
  BY DEF server
<1>6. Message.cmd \in {"JOIN", "PART", "KICK", "MODE", "324", "353", "366"} /\ Message.cmd # "366"
  OBVIOUS
<1>7. /\ channels' = [channels EXCEPT ![c] = b] /\ channels[c].open
      /\ \A d \in Channel \ {c} : timers'[d] = timers[d]
      /\ b.hook_autorejoin => timers'[c] > 0
  BY <1>0
<1>8. /\ b.open => /\ b.nicks = ListAfter(Message, v[0], c)
                   /\ b.modes = ModesAfter(Message, v[0], c)
                   /\ b.named = NamedAfter(Message, v[0], c)
                   /\ channels[c].open
      /\ ~b.open => b = NoChannel
  BY <1>3, <1>4, <1>7
<1>9. OneGot(v, c, b)
  BY <1>0, <1>1, <1>5, <1>6, <1>7, <1>8 DEF OneGot
<1> QED BY <1>9, GetOne

LEMMA FreedFacts ==
    ASSUME Typed, NEW c \in Channel, NEW t \in Freed(c)
    PROVE  t \in [Channel -> Nat] /\ \A d \in Channel \ {c} : t[d] = timers[d]
<1>1. timers \in [Channel -> Nat]
  BY DEF Typed
<1>2. timers[c] - (IF channels[c].hook_autorejoin THEN 1 ELSE 0) \in Nat
  BY ChannelFacts
<1> DEFINE left == timers[c] - (IF channels[c].hook_autorejoin THEN 1 ELSE 0)
<1>3. PICK k \in {0, left} : t = [timers EXCEPT ![c] = k]
  BY DEF Freed
<1>4. k \in Nat
  BY <1>2
<1> QED BY <1>1, <1>3, <1>4

LEMMA StepGetPart ==
    ASSUME Typed, Registered, NEW v, Matches(v), NEW closes \in BOOLEAN, GetPart(closes)
    PROVE  Faithful'
<1>0. PICK c : c = Message.chan
  OBVIOUS
<1>1. /\ wire # <<>> /\ wire' = Tail(wire) /\ Message.cmd = "PART"
      /\ UNCHANGED <<conn, nick, server, intent, bounds>>
  BY DEF GetPart, Gets, Message
<1>2. /\ Message \in Messages /\ conn = "on" /\ v[0].nick = nick /\ c \in Channel
      /\ Message.nick \in Nick
  BY <1>0, <1>1, GetFacts, MessageFields
<1>3. PICK ch : ch = channels[c]
  OBVIOUS
<1>4. /\ ch \in Buffer /\ ch.cycle \in BOOLEAN
      /\ ch.hook_autorejoin => timers[c] > 0
  BY <1>2, <1>3, ChannelFacts
<1>5. PICK left : left = [ch EXCEPT !.nicks = NoNicks, !.cycle = FALSE, !.part = ~ch.cycle]
  OBVIOUS
<1>6. OwnPart(channels[c], c).left = left /\ OwnPart(channels[c], c).onClose = SentOnClose(left, c)
  BY <1>3, <1>5 DEF OwnPart
<1>7. /\ left \in Buffer /\ left.open = ch.open /\ left.nicks = NoNicks /\ left.modes = ch.modes
      /\ left.named = ch.named /\ left.hook_autorejoin = ch.hook_autorejoin
  BY <1>4, <1>5, ListFacts DEF Buffer
<1>8. CASE ~ch.open \/ Message.nick # nick
  <2>0. PICK b : b = WithNicks(ch, Without(ch.nicks, Message.nick))
    OBVIOUS
  <2>1. channels' = [channels EXCEPT ![c] = b] /\ UNCHANGED <<timers, outq>>
    BY <1>0, <1>3, <1>8, <2>0 DEF GetPart, WithNicks
  <2> QED BY <1>0, <1>1, <1>3, <1>8, <2>0, <2>1, StepOtherLeft
<1>9. ASSUME ch.open, Message.nick = nick,
             channels' = [channels EXCEPT ![c] = left], timers' = timers,
             outq' \in Queued(outq, Cmd("JOIN", c)) \cup {outq}
      PROVE  Faithful'
  <2>1. outq \in Seq(Command) /\ timers' \in [Channel -> Nat] /\ timers' = timers
        /\ intent' \in [Channel -> {"in", "out", "any"}]
    BY <1>1, <1>9 DEF Typed
  <2>2. outq' \in Seq(Command) /\ \A d : Pending(outq, d) => Pending(outq', d)
    BY <1>2, <1>9, <2>1, SentFacts
  <2>3. UNCHANGED <<conn, nick, server>>
    BY <1>1
  <2>4. left.open /\ (left.hook_autorejoin => timers'[c] > 0) /\ Message.cmd \in {"PART", "KICK"}
    BY <1>1, <1>4, <1>7, <1>9
  <2>5. \A d \in Channel \ {c} : timers'[d] = timers[d]
    BY <2>1
  <2> QED BY <1>0, <1>1, <1>3, <1>7, <1>9, <2>1, <2>2, <2>3, <2>4, <2>5, StepOwnLeft
<1>10. CASE ch.open /\ Message.nick = nick /\ (ch.cycle \/ ~closes)
  <2>1. /\ channels' = [channels EXCEPT ![c] = left] /\ timers' = timers
        /\ outq' \in Queued(outq, Cmd("JOIN", c)) \cup {outq}
    BY <1>0, <1>3, <1>6, <1>10 DEF GetPart
  <2> QED BY <1>9, <1>10, <2>1
<1>11. CASE ch.open /\ Message.nick = nick /\ ~ch.cycle /\ closes
  <2>1. /\ channels' = [channels EXCEPT ![c] = NoChannel] /\ timers' \in Freed(c)
        /\ outq' \in SentOnClose(left, c)
    BY <1>0, <1>3, <1>6, <1>11 DEF GetPart
  <2>2. timers' \in [Channel -> Nat] /\ \A d \in Channel \ {c} : timers'[d] = timers[d]
    BY <1>2, <2>1, FreedFacts
  <2>3. outq' \in Seq(Command) /\ \A d : Pending(outq, d) => Pending(outq', d)
    BY <1>2, <2>1, CloseFacts DEF Typed
  <2>4. PICK b : b = NoChannel
    OBVIOUS
  <2>5. b \in Buffer /\ ~b.open /\ ~b.hook_autorejoin /\ channels' = [channels EXCEPT ![c] = b]
    BY <2>1, <2>4, NoChannelFacts
  <2>6. mine' = mine /\ rooms' = rooms /\ conn' = conn /\ nick' = nick
        /\ intent' \in [Channel -> {"in", "out", "any"}]
    BY <1>1 DEF server, Typed
  <2>7. Message.cmd \in {"JOIN", "PART", "KICK", "MODE", "324", "353", "366"} /\ Message.cmd # "366"
    BY <1>1
  <2>8. OneGot(v, c, b)
    BY <1>0, <1>1, <1>2, <2>2, <2>3, <2>4, <2>5, <2>6, <2>7 DEF OneGot
  <2> QED BY <2>8, GetOne
<1> QED BY <1>8, <1>10, <1>11, <1>4 DEF Buffer

LEMMA StepGetKick ==
    ASSUME Typed, Registered, NEW v, Matches(v), NEW autorejoin, GetKick(autorejoin)
    PROVE  Faithful'
<1>0. PICK c : c = Message.chan
  OBVIOUS
<1>1. /\ wire # <<>> /\ wire' = Tail(wire) /\ Message.cmd = "KICK"
      /\ UNCHANGED <<conn, nick, server, bounds>>
  BY DEF GetKick, Gets, Message
<1>2. Message \in Messages /\ c \in Channel
  BY <1>0, <1>1, GetFacts, MessageFields
<1>3. PICK ch : ch = channels[c]
  OBVIOUS
<1>4. ch \in Buffer /\ timers[c] \in Nat /\ (ch.hook_autorejoin => timers[c] > 0)
  BY <1>2, <1>3, ChannelFacts
<1>5. CASE ~ (ch.open /\ Message.nick = nick)
  <2>0. PICK b : b = WithNicks(ch, Without(ch.nicks, Message.nick))
    OBVIOUS
  <2>1. channels' = [channels EXCEPT ![c] = b] /\ UNCHANGED <<timers, outq, intent>>
    BY <1>0, <1>3, <1>5, <2>0 DEF GetKick, WithNicks
  <2>2. UNCHANGED <<conn, nick, timers, outq, server, intent>>
    BY <1>1, <2>1
  <2> QED BY <1>0, <1>1, <1>3, <1>5, <2>0, <2>1, <2>2, StepOtherLeft
<1>6. CASE ch.open /\ Message.nick = nick
  <2>1. OwnKick(c, autorejoin)
    BY <1>0, <1>3, <1>6 DEF GetKick
  <2>2. PICK b : b = [ch EXCEPT !.nicks = NoNicks,
                                !.hook_autorejoin = ch.hook_autorejoin \/ autorejoin = "later"]
    OBVIOUS
  <2>3. channels' = [channels EXCEPT ![c] = b]
    BY <1>2, <1>3, <2>1, <2>2 DEF OwnKick, Typed
  <2>4. /\ b \in Buffer /\ b.open = ch.open /\ b.nicks = NoNicks /\ b.modes = ch.modes
        /\ b.named = ch.named
        /\ b.hook_autorejoin = (ch.hook_autorejoin \/ autorejoin = "later")
    BY <1>4, <2>2, ListFacts DEF Buffer
  <2>5. /\ timers' \in [Channel -> Nat] /\ \A d \in Channel \ {c} : timers'[d] = timers[d]
        /\ timers'[c] = timers[c] + (IF autorejoin = "later" THEN 1 ELSE 0)
    BY <1>2, <1>4, <2>1 DEF OwnKick, Typed
  <2>6. b.hook_autorejoin => timers'[c] > 0
    <3>1. CASE autorejoin = "later"
      BY <1>4, <2>5, <3>1
    <3>2. CASE autorejoin # "later"
      <4>1. b.hook_autorejoin => ch.hook_autorejoin
        BY <2>4, <3>2
      <4>2. timers'[c] = timers[c]
        BY <1>4, <2>5, <3>2
      <4> QED BY <1>4, <4>1, <4>2
    <3> QED BY <3>1, <3>2
  <2>7. outq' \in Seq(Command) /\ \A d : Pending(outq, d) => Pending(outq', d)
    <3>1. outq' \in Queued(outq, Cmd("JOIN", c)) \cup {outq}
      BY <2>1 DEF OwnKick
    <3> QED BY <1>2, <3>1, SentFacts DEF Typed
  <2>8. intent' \in [Channel -> {"in", "out", "any"}]
    BY <2>1 DEF OwnKick, Typed
  <2>9. UNCHANGED <<conn, nick, server>> /\ Message.cmd \in {"PART", "KICK"}
    BY <1>1
  <2>10. b.open
    BY <1>6, <2>4
  <2> QED BY <1>0, <1>1, <1>3, <1>6, <2>3, <2>4, <2>5, <2>6, <2>7, <2>8, <2>9, <2>10, StepOwnLeft
<1> QED BY <1>5, <1>6

\* A message that changes what is shown of one channel, which stays open or not.
ShownGot(v, c, b) ==
    /\ wire # <<>> /\ wire' = Tail(wire)
    /\ Message.cmd \in {"MODE", "324", "353", "366"} /\ c = Message.chan
    /\ b \in Buffer /\ channels' = [channels EXCEPT ![c] = b]
    /\ b.open = channels[c].open /\ b.hook_autorejoin = channels[c].hook_autorejoin
    /\ ~channels[c].open => b = channels[c]
    /\ UNCHANGED <<conn, nick, timers, server, intent>>
    /\ outq' \in Seq(Command) /\ \A d \in Channel : Pending(outq, d) => Pending(outq', d)
    /\ channels[c].open =>
          /\ b.nicks = ListAfter(Message, v[0], c)
          /\ b.modes = ModesAfter(Message, v[0], c)
          /\ b.named = NamedAfter(Message, v[0], c)
          /\ (/\ Message.cmd = "366"
              /\ ~v[0].named[c] /\ v[0].lists[c] # NoNicks) => Pending(outq', c)

LEMMA GetShown ==
    ASSUME Typed, Registered, NEW v, Matches(v), NEW c, NEW b, ShownGot(v, c, b)
    PROVE  Faithful'
<1>0. /\ wire # <<>> /\ wire' = Tail(wire)
      /\ Message.cmd \in {"MODE", "324", "353", "366"} /\ c = Message.chan
  BY DEF ShownGot
<1>1. c \in Channel
  BY <1>0, GetFacts, MessageFields
<1>2. /\ ~channels[c].open => channels[c] = NoChannel
      /\ channels[c].hook_autorejoin => timers[c] > 0
  BY <1>1, ChannelFacts
<1>3. /\ timers' \in [Channel -> Nat] /\ timers' = timers
      /\ intent' \in [Channel -> {"in", "out", "any"}]
      /\ mine' = mine /\ rooms' = rooms /\ conn' = conn /\ nick' = nick
  BY DEF ShownGot, Typed, server
<1>4. Message.cmd \in {"JOIN", "PART", "KICK", "MODE", "324", "353", "366"}
  BY <1>0
<1>5. OneGot(v, c, b)
  BY <1>0, <1>1, <1>2, <1>3, <1>4 DEF OneGot, ShownGot
<1> QED BY <1>5, GetOne

\* What the client shows of the channel of a message, if it is open.
LEMMA Shown ==
    ASSUME Typed, Registered, NEW v, Matches(v), wire # <<>>,
           Message.cmd \in {"MODE", "324", "353", "366"}, NEW c, c = Message.chan
    PROVE  /\ c \in Channel /\ channels[c] \in Buffer /\ Message \in Messages
           /\ channels[c].nicks \in NickList /\ channels[c].named \in BOOLEAN
           /\ channels \in [Channel -> Buffer] /\ outq \in Seq(Command)
           /\ ~channels[c].open => channels[c].nicks = NoNicks
           /\ channels[c].open =>
                 /\ channels[c].nicks = v[0].lists[c] /\ channels[c].modes = v[0].modes[c]
                 /\ channels[c].named = v[0].named[c]
BY GetFacts, MessageFields, ChannelFacts DEF Matches, ClientEnd, Typed

LEMMA StepGetMode ==
    ASSUME Typed, Registered, NEW v, Matches(v), GetMode
    PROVE  Faithful'
<1>0. PICK c, ch : c = Message.chan /\ ch = channels[c]
  OBVIOUS
<1>1. /\ wire # <<>> /\ wire' = Tail(wire) /\ Message.cmd = "MODE"
      /\ UNCHANGED <<conn, nick, timers, outq, server, intent>>
  BY DEF GetMode, Gets, Message
<1>2. /\ c \in Channel /\ ch \in Buffer /\ ch.nicks \in NickList /\ Message.set \in BOOLEAN
      /\ channels \in [Channel -> Buffer] /\ outq \in Seq(Command)
      /\ ch.open => /\ ch.nicks = v[0].lists[c] /\ ch.modes = v[0].modes[c]
                    /\ ch.named = v[0].named[c]
  BY <1>0, <1>1, Shown, MessageFields
<1>3. Message.cmd \in {"MODE", "324", "353", "366"} /\ Message.cmd # "366"
      /\ outq' \in Seq(Command) /\ outq' = outq
      /\ UNCHANGED <<conn, nick, timers, server, intent>>
  BY <1>1, <1>2
<1>4. NamedAfter(Message, v[0], c) = v[0].named[c]
  BY <1>1 DEF NamedAfter, Starts
<1> DEFINE n == Message.nick
           set == Message.set
<1>5. ASSUME NEW b \in Buffer, channels' = [channels EXCEPT ![c] = b],
             b.open = ch.open, b.hook_autorejoin = ch.hook_autorejoin, ~ch.open => b = ch,
             b.named = ch.named,
             ch.open => /\ b.nicks = ListAfter(Message, v[0], c)
                        /\ b.modes = ModesAfter(Message, v[0], c)
      PROVE  Faithful'
  <2>1. ShownGot(v, c, b)
    BY <1>0, <1>1, <1>2, <1>3, <1>4, <1>5 DEF ShownGot
  <2> QED BY <2>1, GetShown
<1>6. CASE ~ch.open
  <2>1. channels' = channels
    BY <1>0, <1>6 DEF GetMode
  <2>2. channels' = [channels EXCEPT ![c] = ch]
    BY <1>0, <1>2, <2>1
  <2> QED BY <1>2, <1>5, <1>6, <2>2
<1>7. CASE ch.open /\ n = NoNick
  <2>1. PICK b : b = [ch EXCEPT !.modes = ModeName(set)]
    OBVIOUS
  <2>2. channels' = [channels EXCEPT ![c] = b]
    BY <1>0, <1>7, <2>1 DEF GetMode, ModeName
  <2>3. /\ b \in Buffer /\ b.open = ch.open /\ b.nicks = ch.nicks /\ b.modes = ModeName(set)
        /\ b.named = ch.named /\ b.hook_autorejoin = ch.hook_autorejoin
    <3>1. ModeName(set) \in Mode
      BY DEF ModeName, Mode
    <3> QED BY <1>2, <2>1, <3>1 DEF Buffer
  <2>4. n \notin DOMAIN ch.nicks
    BY <1>2, <1>7, ListFacts, ChannelsAssumption
  <2>5. b.nicks = ListAfter(Message, v[0], c)
    BY <1>0, <1>1, <1>2, <1>7, <2>3, <2>4 DEF ListAfter
  <2>6. b.modes = ModesAfter(Message, v[0], c)
    BY <1>0, <1>1, <1>7, <2>3 DEF ModesAfter, Starts
  <2> QED BY <1>5, <1>7, <2>2, <2>3, <2>5, <2>6
<1>8. CASE ch.open /\ n # NoNick
  <2>1. v[0].modes[c] = ModesAfter(Message, v[0], c)
    BY <1>1, <1>8 DEF ModesAfter, Starts
  <2>2. CASE n \in DOMAIN ch.nicks
    <3>1. PICK list : list = [ch.nicks EXCEPT ![n] = set]
      OBVIOUS
    <3>2. PICK b : b = WithNicks(ch, list)
      OBVIOUS
    <3>3. channels' = [channels EXCEPT ![c] = b]
      BY <1>0, <1>8, <2>2, <3>1, <3>2 DEF GetMode, WithNicks
    <3>4. list \in NickList
      BY <1>2, <2>2, <3>1, ExceptFacts
    <3>5. /\ b \in Buffer /\ b.open = ch.open /\ b.nicks = list /\ b.modes = ch.modes
          /\ b.named = ch.named /\ b.hook_autorejoin = ch.hook_autorejoin
      BY <1>2, <3>2, <3>4, WithNicksFacts
    <3>6. b.nicks = ListAfter(Message, v[0], c)
      BY <1>0, <1>1, <1>2, <1>8, <2>2, <3>1, <3>5 DEF ListAfter
    <3> QED BY <1>2, <1>5, <1>8, <2>1, <3>3, <3>5, <3>6
  <2>3. CASE n \notin DOMAIN ch.nicks
    <3>1. channels' = channels
      BY <1>0, <1>8, <2>3 DEF GetMode
    <3>2. channels' = [channels EXCEPT ![c] = ch]
      BY <1>0, <1>2, <3>1
    <3>3. ch.nicks = ListAfter(Message, v[0], c)
      BY <1>0, <1>1, <1>2, <1>8, <2>3 DEF ListAfter
    <3> QED BY <1>2, <1>5, <1>8, <2>1, <3>2, <3>3
  <2> QED BY <2>2, <2>3
<1> QED BY <1>6, <1>7, <1>8

LEMMA StepGet324 ==
    ASSUME Typed, Registered, NEW v, Matches(v), Get324
    PROVE  Faithful'
<1>0. PICK c, ch : c = Message.chan /\ ch = channels[c]
  OBVIOUS
<1>1. /\ wire # <<>> /\ wire' = Tail(wire) /\ Message.cmd = "324"
      /\ UNCHANGED <<conn, nick, timers, outq, server, intent>>
  BY DEF Get324, Gets, Message
<1>2. /\ c \in Channel /\ ch \in Buffer /\ channels \in [Channel -> Buffer]
      /\ outq \in Seq(Command)
      /\ ch.open => /\ ch.nicks = v[0].lists[c] /\ ch.named = v[0].named[c]
  BY <1>0, <1>1, Shown
<1>3. PICK b : b = IF ch.open THEN [ch EXCEPT !.modes = ModeName(Message.set)] ELSE ch
  OBVIOUS
<1>4. channels' = [channels EXCEPT ![c] = b]
  BY <1>0, <1>2, <1>3 DEF Get324, ModeName
<1>5. /\ b \in Buffer /\ b.open = ch.open /\ b.nicks = ch.nicks
      /\ b.named = ch.named /\ b.hook_autorejoin = ch.hook_autorejoin
      /\ ch.open => b.modes = ModeName(Message.set)
      /\ ~ch.open => b = ch
  <2>1. ModeName(Message.set) \in Mode
    BY DEF ModeName, Mode
  <2> QED BY <1>2, <1>3, <2>1 DEF Buffer
<1>6. ch.open => /\ b.nicks = ListAfter(Message, v[0], c)
                 /\ b.modes = ModesAfter(Message, v[0], c)
                 /\ b.named = NamedAfter(Message, v[0], c)
  BY <1>0, <1>1, <1>2, <1>5 DEF ListAfter, ModesAfter, NamedAfter, Starts
<1>7. /\ Message.cmd \in {"MODE", "324", "353", "366"} /\ Message.cmd # "366"
      /\ outq' \in Seq(Command) /\ outq' = outq
      /\ UNCHANGED <<conn, nick, timers, server, intent>>
  BY <1>1, <1>2
<1>8. ShownGot(v, c, b)
  BY <1>0, <1>1, <1>4, <1>5, <1>6, <1>7 DEF ShownGot
<1> QED BY <1>8, GetShown

LEMMA StepGet353 ==
    ASSUME Typed, Registered, NEW v, Matches(v), Get353
    PROVE  Faithful'
<1>0. PICK c, ch : c = Message.chan /\ ch = channels[c]
  OBVIOUS
<1>1. /\ wire # <<>> /\ wire' = Tail(wire) /\ Message.cmd = "353"
      /\ UNCHANGED <<conn, nick, timers, outq, server, intent>>
  BY DEF Get353, Gets, Message
<1>2. /\ c \in Channel /\ ch \in Buffer /\ channels \in [Channel -> Buffer]
      /\ outq \in Seq(Command) /\ ch.nicks \in NickList /\ Message.list \in NickList
      /\ ~ch.open => ch.nicks = NoNicks
      /\ ch.open => /\ ch.nicks = v[0].lists[c] /\ ch.modes = v[0].modes[c]
                    /\ ch.named = v[0].named[c]
  BY <1>0, <1>1, Shown, MessageFields
<1>3. PICK list : list = IF ch.nicks = NoNicks THEN NoNicks ELSE Over(Message.list, ch.nicks)
  OBVIOUS
<1>4. PICK b : b = WithNicks(ch, list)
  OBVIOUS
<1>5. list \in NickList
  BY <1>2, <1>3, OverFacts, ListFacts
<1>6. /\ b \in Buffer /\ b.open = ch.open /\ b.nicks = list /\ b.modes = ch.modes
      /\ b.named = ch.named /\ b.hook_autorejoin = ch.hook_autorejoin
      /\ list = ch.nicks => b = ch
  BY <1>2, <1>4, <1>5, WithNicksFacts
<1>7. channels' = [channels EXCEPT ![c] = b]
  <2>1. CASE ch.nicks = NoNicks
    <3>1. channels' = channels /\ b = ch
      BY <1>0, <1>3, <1>6, <2>1 DEF Get353
    <3> QED BY <1>0, <1>2, <3>1
  <2>2. CASE ch.nicks # NoNicks
    BY <1>0, <1>3, <1>4, <2>2 DEF Get353, NewNicks, WithNicks
  <2> QED BY <2>1, <2>2
<1>8. ch.open => /\ b.nicks = ListAfter(Message, v[0], c)
                 /\ b.modes = ModesAfter(Message, v[0], c)
                 /\ b.named = NamedAfter(Message, v[0], c)
  <2> SUFFICES ASSUME ch.open
               PROVE  /\ list = ListAfter(Message, v[0], c)
                      /\ ch.modes = ModesAfter(Message, v[0], c)
                      /\ ch.named = NamedAfter(Message, v[0], c)
    BY <1>6
  <2>1. list = ListAfter(Message, v[0], c)
    BY <1>0, <1>1, <1>2, <1>3 DEF ListAfter
  <2>2. ch.modes = ModesAfter(Message, v[0], c) /\ ch.named = NamedAfter(Message, v[0], c)
    BY <1>1, <1>2 DEF ModesAfter, NamedAfter, Starts
  <2> QED BY <2>1, <2>2
<1>9. ~ch.open => b = ch
  BY <1>2, <1>3, <1>6
<1>10. /\ Message.cmd \in {"MODE", "324", "353", "366"} /\ Message.cmd # "366"
       /\ outq' \in Seq(Command) /\ outq' = outq
       /\ UNCHANGED <<conn, nick, timers, server, intent>>
  BY <1>1, <1>2
<1>11. ShownGot(v, c, b)
  BY <1>0, <1>1, <1>6, <1>7, <1>8, <1>9, <1>10 DEF ShownGot
<1> QED BY <1>11, GetShown

LEMMA StepGet366 ==
    ASSUME Typed, Registered, NEW v, Matches(v), Get366
    PROVE  Faithful'
<1>0. PICK c, ch : c = Message.chan /\ ch = channels[c]
  OBVIOUS
<1>1. /\ wire # <<>> /\ wire' = Tail(wire) /\ Message.cmd = "366"
      /\ UNCHANGED <<conn, nick, timers, server, intent>>
  BY DEF Get366, Gets, Message
<1>2. /\ c \in Channel /\ ch \in Buffer /\ channels \in [Channel -> Buffer]
      /\ outq \in Seq(Command)
      /\ ch.open => /\ ch.nicks = v[0].lists[c] /\ ch.modes = v[0].modes[c]
                    /\ ch.named = v[0].named[c]
  BY <1>0, <1>1, Shown
<1>3. PICK b : b = IF ch.open THEN [ch EXCEPT !.named = TRUE] ELSE ch
  OBVIOUS
<1>4. channels' = [channels EXCEPT ![c] = b]
  BY <1>0, <1>2, <1>3 DEF Get366
<1>5. /\ b \in Buffer /\ b.open = ch.open /\ b.nicks = ch.nicks /\ b.modes = ch.modes
      /\ b.hook_autorejoin = ch.hook_autorejoin
      /\ ch.open => b.named = TRUE
      /\ ~ch.open => b = ch
  BY <1>2, <1>3 DEF Buffer
<1>6. ch.open => /\ b.nicks = ListAfter(Message, v[0], c)
                 /\ b.modes = ModesAfter(Message, v[0], c)
                 /\ b.named = NamedAfter(Message, v[0], c)
  BY <1>0, <1>1, <1>2, <1>5 DEF ListAfter, ModesAfter, NamedAfter, Starts
<1>7. outq' = IF ch.nicks # NoNicks /\ ~ch.named THEN Append(outq, Cmd("MODE", c)) ELSE outq
  BY <1>0 DEF Get366
<1>8. /\ outq' \in Seq(Command) /\ \A d \in Channel : Pending(outq, d) => Pending(outq', d)
      /\ ch.nicks # NoNicks /\ ~ch.named => Pending(outq', c)
  <2>1. Cmd("MODE", c) \in Command /\ Cmd("MODE", c).cmd = "MODE" /\ Cmd("MODE", c).chan = c
    BY <1>2, CommandType
  <2> QED BY <1>2, <1>7, <2>1, AppendedFacts
<1>9. Message.cmd \in {"MODE", "324", "353", "366"}
  BY <1>1
<1>10. ShownGot(v, c, b)
  BY <1>0, <1>1, <1>2, <1>4, <1>5, <1>6, <1>8, <1>9 DEF ShownGot
<1> QED BY <1>10, GetShown

\* A message of no channel: the lists of nicks become l.
AllGot(v, l) ==
    /\ wire # <<>> /\ wire' = Tail(wire)
    /\ Message.cmd \in {"NICK", "QUIT"}
    /\ l \in [Channel -> NickList]
    /\ channels' = [c \in Channel |-> WithNicks(channels[c], l[c])]
    /\ \A c \in Channel : /\ channels[c].nicks = NoNicks => l[c] = NoNicks
                          /\ channels[c].open => l[c] = ListAfter(Message, v[0], c)
    /\ nick' \in Person /\ nick' = NickAfter(Message, v[0])
    /\ UNCHANGED <<conn, timers, outq, server, intent>>

LEMMA GetAll ==
    ASSUME Typed, Registered, NEW v, Matches(v), NEW l, AllGot(v, l)
    PROVE  Faithful'
<1>0. /\ wire # <<>> /\ wire' = Tail(wire)
      /\ Message.cmd \in {"NICK", "QUIT"}
      /\ l \in [Channel -> NickList]
      /\ \A c \in Channel : /\ channels[c].nicks = NoNicks => l[c] = NoNicks
                            /\ channels[c].open => l[c] = ListAfter(Message, v[0], c)
      /\ nick' \in Person /\ nick' = NickAfter(Message, v[0])
      /\ timers' = timers /\ outq' = outq /\ mine' = mine /\ rooms' = rooms /\ conn' = conn
      /\ intent' = intent
  BY DEF AllGot, server
<1>1. /\ Message \in Messages /\ conn = "on" /\ v[0].nick = nick /\ Tail(wire) \in Seq(Messages)
  BY <1>0, GetFacts
<1>2. ASSUME NEW c \in Channel
      PROVE  /\ channels'[c] \in Buffer /\ channels'[c].open = channels[c].open
             /\ channels'[c].nicks = l[c] /\ channels'[c].modes = channels[c].modes
             /\ channels'[c].named = channels[c].named
             /\ channels'[c].hook_autorejoin = channels[c].hook_autorejoin
             /\ ~channels[c].open => channels'[c] = channels[c]
  <2>1. channels'[c] = WithNicks(channels[c], l[c])
    BY DEF AllGot
  <2>2. /\ channels[c] \in Buffer /\ l[c] \in NickList
        /\ ~channels[c].open => channels[c].nicks = NoNicks
    BY <1>0, ChannelFacts
  <2> QED BY <1>0, <2>1, <2>2, WithNicksFacts
<1>3. channels' \in [Channel -> Buffer]
  <2>1. channels' = [c \in Channel |-> channels'[c]]
    BY DEF AllGot
  <2> QED BY <1>2, <2>1
<1>4. Typed'
  <2>1. \A d \in Channel : ~channels'[d].open => channels'[d] = NoChannel'
    <3>1. NoChannel' = NoChannel
      BY DEF NoChannel, NewChannel, NoNicks
    <3> QED BY <1>2, <3>1, ChannelFacts
  <2>2. \A d \in Channel : channels'[d].hook_autorejoin => timers'[d] > 0
    BY <1>0, <1>2, ChannelFacts
  <2>3. /\ conn' \in {"off", "registering", "on"} /\ conn' = "on" /\ nick' \in Person
        /\ mine' \in Person /\ wire' \in Seq(Messages) /\ rooms' \in [Channel -> Room]
        /\ timers' \in [Channel -> Nat] /\ outq' \in Seq(Command)
        /\ intent' \in [Channel -> {"in", "out", "any"}]
    BY <1>0, <1>1 DEF Typed
  <2> QED BY <1>3, <2>1, <2>2, <2>3 DEF Typed
<1>5. Registered'
  BY <1>0, <1>1, GetRegistered
<1>6. nick' = Seen(Message, v[0]).nick
  BY <1>0, SeenFields
<1>7. ASSUME NEW d \in Channel, channels'[d].open
      PROVE  /\ channels'[d].nicks = Seen(Message, v[0]).lists[d]
             /\ channels'[d].modes = Seen(Message, v[0]).modes[d]
             /\ channels'[d].named = Seen(Message, v[0]).named[d]
             /\ channels[d].open
  <2>1. /\ channels[d].open
        /\ channels[d].modes = v[0].modes[d] /\ channels[d].named = v[0].named[d]
    BY <1>2, <1>7 DEF Matches, ClientEnd
  <2>2. ModesAfter(Message, v[0], d) = v[0].modes[d] /\ NamedAfter(Message, v[0], d) = v[0].named[d]
    BY <1>0 DEF ModesAfter, NamedAfter, Starts
  <2> QED BY <1>0, <1>2, <2>1, <2>2, SeenFields
<1>8. \E u : Matches(u)'
  <2>1. Message.cmd # "366" /\ \A d \in Channel : Pending(outq, d) => Pending(outq', d)
    BY <1>0
  <2> QED BY <1>0, <1>6, <1>7, <2>1, GetStep DEF Message
<1> QED BY <1>4, <1>5, <1>8 DEF Faithful

LEMMA StepGetNick ==
    ASSUME Typed, Registered, NEW v, Matches(v), GetNick
    PROVE  Faithful'
<1>1. /\ wire # <<>> /\ wire' = Tail(wire) /\ Message.cmd = "NICK"
      /\ UNCHANGED <<conn, timers, outq, server, intent, bounds>>
  BY DEF GetNick, Gets, Message
<1>2. /\ Message \in Messages /\ v[0].nick = nick /\ nick \in Person
      /\ Message.nick \in Nick /\ Message.new \in Nick
  BY <1>1, GetFacts, MessageFields
<1>3. PICK l : l = [c \in Channel |-> NickChanged(channels[c].nicks, Message.nick, Message.new)]
  OBVIOUS
<1>4. ASSUME NEW c \in Channel
      PROVE  /\ l[c] \in NickList
             /\ channels[c].nicks = NoNicks => l[c] = NoNicks
             /\ channels[c].open => l[c] = ListAfter(Message, v[0], c)
  <2>1. l[c] = NickChanged(channels[c].nicks, Message.nick, Message.new)
    BY <1>3
  <2>2. channels[c].nicks \in NickList
    BY ChannelFacts
  <2>3. channels[c].open => channels[c].nicks = v[0].lists[c]
    BY DEF Matches, ClientEnd
  <2>4. ListAfter(Message, v[0], c) = NickChanged(v[0].lists[c], Message.nick, Message.new)
    BY <1>1 DEF ListAfter
  <2>5. /\ NickChanged(channels[c].nicks, Message.nick, Message.new) \in NickList
        /\ NickChanged(NoNicks, Message.nick, Message.new) = NoNicks
    BY <1>2, <2>2, ChangedFacts
  <2>6. l[c] \in NickList
    BY <2>1, <2>5
  <2>7. channels[c].nicks = NoNicks => l[c] = NoNicks
    BY <2>1, <2>5
  <2>8. channels[c].open => l[c] = ListAfter(Message, v[0], c)
    BY <2>1, <2>3, <2>4
  <2> QED BY <2>6, <2>7, <2>8
<1>5. channels' = [c \in Channel |-> WithNicks(channels[c], l[c])]
  BY <1>3 DEF GetNick, WithNicks
<1>6. nick' \in Person /\ nick' = NickAfter(Message, v[0])
  <2>1. nick' = IF Message.nick = nick THEN Message.new ELSE nick
    BY DEF GetNick
  <2> QED BY <1>1, <1>2, <2>1 DEF NickAfter, Person
<1>7. l \in [Channel -> NickList]
  BY <1>3, <1>4
<1>8. AllGot(v, l)
  BY <1>1, <1>4, <1>5, <1>6, <1>7 DEF AllGot
<1> QED BY <1>8, GetAll

LEMMA StepGetQuit ==
    ASSUME Typed, Registered, NEW v, Matches(v), GetQuit
    PROVE  Faithful'
<1>1. /\ wire # <<>> /\ wire' = Tail(wire) /\ Message.cmd = "QUIT"
      /\ UNCHANGED <<conn, nick, timers, outq, server, intent, bounds>>
  BY DEF GetQuit, Gets, Message
<1>2. v[0].nick = nick /\ nick \in Person
  BY <1>1, GetFacts
<1>3. PICK l : l = [c \in Channel |-> Without(channels[c].nicks, Message.nick)]
  OBVIOUS
<1>4. ASSUME NEW c \in Channel
      PROVE  /\ l[c] \in NickList
             /\ channels[c].nicks = NoNicks => l[c] = NoNicks
             /\ channels[c].open => l[c] = ListAfter(Message, v[0], c)
  <2>1. l[c] = Without(channels[c].nicks, Message.nick)
    BY <1>3
  <2>2. channels[c].nicks \in NickList
    BY ChannelFacts
  <2>3. channels[c].open => channels[c].nicks = v[0].lists[c]
    BY DEF Matches, ClientEnd
  <2>4. ListAfter(Message, v[0], c) = Without(v[0].lists[c], Message.nick)
    BY <1>1 DEF ListAfter
  <2> QED BY <2>1, <2>2, <2>3, <2>4, WithoutFacts
<1>5. channels' = [c \in Channel |-> WithNicks(channels[c], l[c])]
  BY <1>3 DEF GetQuit, WithNicks
<1>6. nick' \in Person /\ nick' = NickAfter(Message, v[0])
  BY <1>1, <1>2 DEF NickAfter
<1>7. l \in [Channel -> NickList]
  BY <1>3, <1>4
<1>8. UNCHANGED <<conn, timers, outq, server, intent>>
  BY <1>1
<1>9. AllGot(v, l)
  BY <1>1, <1>4, <1>5, <1>6, <1>7, <1>8 DEF AllGot
<1> QED BY <1>9, GetAll

\* The registration ends, and channels are joined.
LEMMA StepGet001 ==
    ASSUME Typed, Registered, NEW v, Matches(v), Get001
    PROVE  Faithful'
<1> DEFINE opened == {c \in Channel : channels[c].open}
           joined == IF opened = {} THEN Autojoin ELSE {c \in opened : ~channels[c].part}
<1>1. /\ wire # <<>> /\ wire' = Tail(wire) /\ Message.cmd = "001" /\ nick' = Message.nick
      /\ conn' = "on" /\ timers' = timers /\ channels' = channels /\ mine' = mine /\ rooms' = rooms
  BY DEF Get001, Gets, Message, server
<1>2. PICK order \in SetToSeqs(joined) :
         outq' = outq \o [i \in DOMAIN order |-> Cmd("JOIN", order[i])]
  BY DEF Get001
<1>3. /\ Message \in Messages /\ v[0] \in View /\ Message.nick \in Nick
      /\ Tail(wire) \in Seq(Messages) /\ conn = "registering"
  BY <1>1, GetFacts, MessageFields
<1>4. outq' \in Seq(Command) /\ \A d : Pending(outq, d) => Pending(outq', d)
  <2>1. joined \subseteq Channel
    BY ChannelsAssumption
  <2> HIDE DEF joined
  <2>2. Cardinality(joined) \in Nat
    BY <2>1, ChannelsAssumption, FS_Subset, FS_CardinalityType
  <2>3. order \in [1 .. Cardinality(joined) -> Channel]
    BY <2>1 DEF SetToSeqs
  <2> DEFINE n == Cardinality(joined)
             f == [i \in DOMAIN order |-> Cmd("JOIN", order[i])]
  <2>4. DOMAIN order = 1 .. n /\ \A i \in 1 .. n : order[i] \in Channel
    BY <2>3
  <2>5. f = [i \in 1 .. n |-> Cmd("JOIN", order[i])]
    BY <2>4
  <2>6. \A i \in 1 .. n : Cmd("JOIN", order[i]) \in Command
    BY <2>4, CommandType
  <2>7. f \in [1 .. n -> Command]
    BY <2>5, <2>6
  <2> HIDE DEF f, n
  <2>8. f \in Seq(Command) /\ Len(f) \in Nat
    <3>1. n \in Nat
      BY <2>2 DEF n
    <3>2. f \in Seq(Command)
      BY <2>7, <3>1, FunctionIsSeq
    <3> QED BY <3>2, Members
  <2>9. outq \in Seq(Command) /\ Len(outq) \in Nat
    BY Members DEF Typed
  <2>10. /\ outq' \in Seq(Command) /\ Len(outq') = Len(outq) + Len(f)
         /\ \A i \in 1 .. Len(outq) + Len(f) :
               outq'[i] = IF i <= Len(outq) THEN outq[i] ELSE f[i - Len(outq)]
    BY <1>2, <2>8, <2>9, ConcatProperties DEF f
  <2>11. \A i \in 1 .. Len(outq) : i \in 1 .. Len(outq') /\ outq'[i] = outq[i]
    BY <2>8, <2>9, <2>10
  <2> QED BY <2>10, <2>11 DEF Pending
<1>5. intent' \in [Channel -> {"in", "out", "any"}]
  BY DEF Get001, Typed
<1>6. Typed'
  <2>1. NoChannel' = NoChannel
    BY DEF NoChannel, NewChannel, NoNicks
  <2>2. nick' \in Person /\ conn' \in {"off", "registering", "on"}
    BY <1>1, <1>3 DEF Person
  <2> QED BY <1>1, <1>3, <1>4, <1>5, <2>1, <2>2 DEF Typed
<1>7. Registered'
  BY <1>1, GetRegistered
<1>8. nick' = Seen(Message, v[0]).nick
  BY <1>1, SeenFields DEF NickAfter
<1>9. \A d \in Channel : channels'[d].open =>
         /\ channels'[d].nicks = Seen(Message, v[0]).lists[d]
         /\ channels'[d].modes = Seen(Message, v[0]).modes[d]
         /\ channels'[d].named = Seen(Message, v[0]).named[d]
         /\ channels[d].open
  <2> TAKE d \in Channel
  <2> SUFFICES ASSUME channels[d].open
               PROVE  /\ channels[d].nicks = Seen(Message, v[0]).lists[d]
                      /\ channels[d].modes = Seen(Message, v[0]).modes[d]
                      /\ channels[d].named = Seen(Message, v[0]).named[d]
    BY <1>1
  <2>1. /\ channels[d].nicks = v[0].lists[d] /\ channels[d].modes = v[0].modes[d]
        /\ channels[d].named = v[0].named[d]
    BY DEF Matches, ClientEnd
  <2>2. /\ ListAfter(Message, v[0], d) = v[0].lists[d] /\ ModesAfter(Message, v[0], d) = v[0].modes[d]
        /\ NamedAfter(Message, v[0], d) = v[0].named[d]
    BY <1>1 DEF ListAfter, ModesAfter, NamedAfter, Starts
  <2> QED BY <2>1, <2>2, SeenFields
<1>10. \E u : Matches(u)'
  <2>1. Message.cmd # "366" /\ \A d \in Channel : Pending(outq, d) => Pending(outq', d)
    BY <1>1, <1>4
  <2> QED BY <1>1, <1>8, <1>9, <2>1, GetStep DEF Message
<1> QED BY <1>6, <1>7, <1>10 DEF Faithful

-----------------------------------------------------------------------------
(* The user, timers, and the connection.                                   *)

\* The client changes the buffer of the channel c by itself, to b.
OneActed(c, b) ==
    /\ UNCHANGED <<conn, nick, wire, server>>
    /\ c \in Channel /\ b \in Buffer /\ channels' = [channels EXCEPT ![c] = b]
    /\ b.open => /\ channels[c].open /\ b.nicks = channels[c].nicks
                 /\ b.modes = channels[c].modes /\ b.named = channels[c].named
    /\ ~b.open => b = NoChannel
    /\ timers' \in [Channel -> Nat] /\ \A d \in Channel \ {c} : timers'[d] = timers[d]
    /\ b.hook_autorejoin => timers'[c] > 0
    /\ outq' \in Seq(Command) /\ \A d \in Channel : Pending(outq, d) => Pending(outq', d)
    /\ intent' \in [Channel -> {"in", "out", "any"}]

LEMMA StepOne ==
    ASSUME Typed, Registered, NEW v, Matches(v), NEW c, NEW b, OneActed(c, b)
    PROVE  Faithful'
<1>1. /\ wire' = wire /\ conn' = conn /\ nick' = nick /\ mine' = mine /\ rooms' = rooms
      /\ c \in Channel /\ b \in Buffer /\ channels' = [channels EXCEPT ![c] = b]
      /\ channels \in [Channel -> Buffer]
  BY DEF OneActed, server, Typed
<1>2. /\ channels' \in [Channel -> Buffer] /\ channels'[c] = b
      /\ \A d \in Channel \ {c} : channels'[d] = channels[d]
  BY <1>1
<1>3. Typed'
  <2>1. ASSUME NEW d \in Channel
        PROVE  /\ ~channels'[d].open => channels'[d] = NoChannel
               /\ conn' # "on" => channels'[d].nicks = NoNicks
               /\ channels'[d].hook_autorejoin => timers'[d] > 0
    <3>1. CASE d = c
      <4>1. b.open \/ ~b.open
        OBVIOUS
      <4> QED BY <1>1, <1>2, <3>1, NoChannelFacts DEF OneActed, Typed
    <3>2. CASE d # c
      BY <1>1, <1>2, <3>2, ChannelFacts DEF OneActed, Typed
    <3> QED BY <3>1, <3>2
  <2>2. NoChannel' = NoChannel
    BY DEF NoChannel, NewChannel, NoNicks
  <2>3. \A d \in Channel : /\ ~channels'[d].open => channels'[d] = NoChannel'
                           /\ conn' # "on" => channels'[d].nicks = NoNicks'
                           /\ channels'[d].hook_autorejoin => timers'[d] > 0
    BY <2>1, <2>2 DEF NoNicks
  <2>4. timers' \in [Channel -> Nat] /\ outq' \in Seq(Command)
        /\ intent' \in [Channel -> {"in", "out", "any"}]
    BY DEF OneActed
  <2> QED BY <1>1, <1>2, <2>3, <2>4 DEF Typed
<1>4. Registered'
  BY <1>1 DEF Registered
<1>5. \A d \in Channel : channels'[d].open =>
         /\ channels[d].open
         /\ channels'[d].nicks = channels[d].nicks
         /\ channels'[d].modes = channels[d].modes
         /\ channels'[d].named = channels[d].named
  BY <1>2 DEF OneActed
<1>6. \A d \in Channel : Pending(outq, d) => Pending(outq', d)
  BY DEF OneActed
<1>7. Matches(v)'
  BY <1>1, <1>5, <1>6, ClientStep
<1> QED BY <1>3, <1>4, <1>7 DEF Faithful

\* A command is sent at most, and no channel changes.
LEMMA StepSent ==
    ASSUME Typed, Registered, NEW v, Matches(v), NEW c \in Channel,
           UNCHANGED <<conn, nick, wire, server, channels, timers>>,
           outq' \in Seq(Command), \A d \in Channel : Pending(outq, d) => Pending(outq', d),
           intent' \in [Channel -> {"in", "out", "any"}]
    PROVE  Faithful'
<1>1. PICK b : b = channels[c]
  OBVIOUS
<1>2. /\ b \in Buffer /\ channels' = [channels EXCEPT ![c] = b]
      /\ ~b.open => b = NoChannel
      /\ b.hook_autorejoin => timers[c] > 0
      /\ timers' \in [Channel -> Nat] /\ timers' = timers
  BY <1>1, ChannelFacts DEF Typed
<1>3. OneActed(c, b)
  BY <1>1, <1>2 DEF OneActed
<1> QED BY <1>3, StepOne

LEMMA LeavesFacts ==
    ASSUME Typed, NEW c \in Channel, NEW closes, Leaves(c, closes)
    PROVE  intent' \in [Channel -> {"in", "out", "any"}]
BY DEF Leaves, Typed

LEMMA StepClose ==
    ASSUME Typed, Registered, NEW v, Matches(v), NEW c \in Channel,
           UNCHANGED <<conn, nick, wire, server>>, Close(c),
           intent' \in [Channel -> {"in", "out", "any"}]
    PROVE  Faithful'
<1>1. PICK b : b = NoChannel
  OBVIOUS
<1>2. b \in Buffer /\ ~b.open /\ ~b.hook_autorejoin
  BY <1>1, NoChannelFacts
<1>3. channels' = [channels EXCEPT ![c] = b]
  BY <1>1 DEF Close
<1>4. timers' \in [Channel -> Nat] /\ \A d \in Channel \ {c} : timers'[d] = timers[d]
  BY FreedFacts DEF Close
<1>5. outq' \in Seq(Command) /\ \A d : Pending(outq, d) => Pending(outq', d)
  BY CloseFacts DEF Close, Typed
<1>6. OneActed(c, b)
  BY <1>1, <1>2, <1>3, <1>4, <1>5 DEF OneActed
<1> QED BY <1>6, StepOne

LEMMA StepUser ==
    ASSUME Typed, Registered, NEW v, Matches(v), User
    PROVE  Faithful'
<1>0. outq \in Seq(Command) /\ intent \in [Channel -> {"in", "out", "any"}]
  BY DEF Typed
<1>1. ASSUME NEW c \in Channel, UserJoins(c)
      PROVE  Faithful'
  <2>1. outq' \in Seq(Command) /\ \A d : Pending(outq, d) => Pending(outq', d)
    BY <1>0, <1>1, SentFacts DEF UserJoins
  <2>2. intent' \in [Channel -> {"in", "out", "any"}]
        /\ UNCHANGED <<conn, nick, wire, server, channels, timers>>
    BY <1>0, <1>1 DEF UserJoins, Types
  <2> QED BY <2>1, <2>2, StepSent
<1>2. ASSUME NEW c \in Channel, UserAsksNames(c)
      PROVE  Faithful'
  <2>1. outq' \in Seq(Command) /\ \A d : Pending(outq, d) => Pending(outq', d)
    BY <1>0, <1>2, SentFacts DEF UserAsksNames
  <2>2. intent' \in [Channel -> {"in", "out", "any"}]
        /\ UNCHANGED <<conn, nick, wire, server, channels, timers>>
    BY <1>0, <1>2 DEF UserAsksNames, Types
  <2> QED BY <2>1, <2>2, StepSent
<1>3. ASSUME NEW c \in Channel, UserCloses(c)
      PROVE  Faithful'
  <2>1. intent' \in [Channel -> {"in", "out", "any"}]
    BY <1>3, LeavesFacts DEF UserCloses
  <2>2. UNCHANGED <<conn, nick, wire, server>> /\ Close(c)
    BY <1>3 DEF UserCloses, Types
  <2> QED BY <2>1, <2>2, StepClose
<1>4. ASSUME NEW c \in Channel, NEW closes \in BOOLEAN, UserParts(c, closes)
      PROVE  Faithful'
  <2> DEFINE empty == channels[c].open /\ channels[c].nicks = NoNicks
  <2>1. intent' \in [Channel -> {"in", "out", "any"}]
    BY <1>4, LeavesFacts DEF UserParts
  <2>2. UNCHANGED <<conn, nick, wire, server>>
    BY <1>4 DEF UserParts, Types
  <2>3. CASE empty /\ closes
    <3>1. Close(c)
      BY <1>4, <2>3 DEF UserParts
    <3> QED BY <2>1, <2>2, <3>1, StepClose
  <2>4. CASE ~ (empty /\ closes)
    <3>1. outq' \in Queued(outq, Cmd("PART", c)) \cup {outq} /\ UNCHANGED <<channels, timers>>
      BY <1>4, <2>4 DEF UserParts
    <3>2. outq' \in Seq(Command) /\ \A d : Pending(outq, d) => Pending(outq', d)
      BY <1>0, <3>1, SentFacts
    <3>3. UNCHANGED <<conn, nick, wire, server, channels, timers>>
      BY <2>2, <3>1
    <3> QED BY <2>1, <3>2, <3>3, StepSent
  <2> QED BY <2>3, <2>4
<1>5. ASSUME NEW c \in Channel, UserCycles(c)
      PROVE  Faithful'
  <2>1. PICK ch, b : ch = channels[c] /\ b = [ch EXCEPT !.cycle = TRUE]
    OBVIOUS
  <2>2. ch \in Buffer /\ ch.open /\ (ch.hook_autorejoin => timers[c] > 0)
    BY <1>5, <2>1, ChannelFacts DEF UserCycles
  <2>3. /\ b \in Buffer /\ b.open /\ b.nicks = ch.nicks /\ b.modes = ch.modes
        /\ b.named = ch.named /\ b.hook_autorejoin = ch.hook_autorejoin
    BY <2>1, <2>2 DEF Buffer
  <2>4. channels' = [channels EXCEPT ![c] = b]
    BY <1>5, <2>1 DEF UserCycles
  <2>5. outq' \in Seq(Command) /\ \A d : Pending(outq, d) => Pending(outq', d)
    BY <1>0, <1>5, SentFacts DEF UserCycles
  <2>6. /\ intent' \in [Channel -> {"in", "out", "any"}]
        /\ UNCHANGED <<conn, nick, wire, server>> /\ timers' = timers
        /\ timers' \in [Channel -> Nat]
    BY <1>0, <1>5 DEF UserCycles, Types, Typed
  <2>7. OneActed(c, b)
    BY <2>1, <2>2, <2>3, <2>4, <2>5, <2>6 DEF OneActed
  <2> QED BY <2>7, StepOne
<1> QED BY <1>1, <1>2, <1>3, <1>4, <1>5 DEF User

LEMMA StepAutorejoin ==
    ASSUME Typed, Registered, NEW v, Matches(v), NEW c \in Channel, AutorejoinCb(c)
    PROVE  Faithful'
<1>0. /\ outq \in Seq(Command) /\ timers \in [Channel -> Nat]
      /\ timers[c] > 0 /\ timers' = [timers EXCEPT ![c] = @ - 1]
      /\ UNCHANGED <<conn, nick, wire, server>>
      /\ intent' \in [Channel -> {"in", "out", "any"}]
  BY DEF Typed, AutorejoinCb
<1>1. timers' \in [Channel -> Nat] /\ \A d \in Channel \ {c} : timers'[d] = timers[d]
  BY <1>0
<1>2. PICK ch : ch = channels[c]
  OBVIOUS
<1>3. ch \in Buffer /\ (~ch.open => ch = NoChannel /\ ~ch.hook_autorejoin)
  BY <1>2, ChannelFacts
<1>4. CASE ch.open /\ ch.hook_autorejoin
  <2>1. PICK b : b = [ch EXCEPT !.hook_autorejoin = FALSE]
    OBVIOUS
  <2>2. channels' = [channels EXCEPT ![c] = b]
    BY <1>2, <1>4, <2>1 DEF AutorejoinCb
  <2>3. /\ b \in Buffer /\ b.open /\ b.nicks = ch.nicks /\ b.modes = ch.modes
        /\ b.named = ch.named /\ ~b.hook_autorejoin
    BY <1>3, <1>4, <2>1 DEF Buffer
  <2>4. outq' \in Queued(outq, Cmd("JOIN", c)) \cup {outq}
    BY <1>2, <1>4 DEF AutorejoinCb
  <2>5. outq' \in Seq(Command) /\ \A d : Pending(outq, d) => Pending(outq', d)
    BY <1>0, <2>4, SentFacts
  <2>6. OneActed(c, b)
    BY <1>0, <1>1, <1>2, <1>4, <2>2, <2>3, <2>5 DEF OneActed
  <2> QED BY <2>6, StepOne
<1>5. CASE ~ (ch.open /\ ch.hook_autorejoin)
  <2>1. channels' = channels /\ outq' = outq
    BY <1>2, <1>5 DEF AutorejoinCb
  <2>2. channels' = [channels EXCEPT ![c] = ch] /\ ~ch.hook_autorejoin
    BY <1>2, <1>3, <1>5, <2>1 DEF Typed
  <2>3. OneActed(c, ch)
    BY <1>0, <1>1, <1>2, <1>3, <2>1, <2>2 DEF OneActed
  <2> QED BY <2>3, StepOne
<1> QED BY <1>4, <1>5

-----------------------------------------------------------------------------
(* The connection.                                                         *)

LEMMA SameNoNicks == NoNicks' = NoNicks /\ NoChannel' = NoChannel
BY DEF NoChannel, NewChannel, NoNicks

LEMMA RoomFacts ==
    ASSUME Typed, NEW c \in Channel
    PROVE  /\ rooms[c] \in Room /\ rooms[c].list \in NickList /\ rooms[c].flag \in BOOLEAN
           /\ DOMAIN rooms[c].list \in SUBSET Nick
           /\ mine \notin Nick => ~InRoom(c)
BY ListFacts DEF Typed, Room, InRoom

\* The client and what it remembers stay as they are.
LEMMA ServerTyped ==
    ASSUME Typed, UNCHANGED <<client, intent>>,
           mine' \in Person, rooms' \in [Channel -> Room],
           wire' \in Seq(Messages), outq' \in Seq(Command)
    PROVE  Typed'
BY SameNoNicks DEF Typed, client

LEMMA StepConnect ==
    ASSUME Typed, Registered, NEW v, Matches(v), Connect
    PROVE  Faithful'
<1>1. /\ conn = "off" /\ wire = <<>> /\ mine = NoNick
      /\ conn' = "registering" /\ UNCHANGED <<nick, channels, timers, outq, rooms, intent>>
  BY DEF Connect, Registered
<1>2. PICK n \in Nick \ UNION {DOMAIN rooms[c].list : c \in Channel} :
         mine' = n /\ wire' = <<[cmd |-> "001", nick |-> n]>>
  BY DEF Connect
<1>3. PICK m : m = [cmd |-> "001", nick |-> n]
  OBVIOUS
<1>4. m \in Messages /\ m.cmd = "001" /\ m.nick = n /\ wire' = Append(wire, m)
  BY <1>1, <1>2, <1>3 DEF Messages
<1>5. \A c \in Channel : ~InRoom(c) /\ ~InRoom(c)'
  <2> TAKE c \in Channel
  <2>1. ~InRoom(c)
    BY <1>1, RoomFacts, ChannelsAssumption
  <2>2. n \notin DOMAIN rooms[c].list
    BY <1>2
  <2> QED BY <1>1, <1>2, <2>1, <2>2 DEF InRoom
<1>6. Typed'
  <2>1. wire' \in Seq(Messages)
    BY <1>4, AppendFacts DEF Typed
  <2> QED BY <1>1, <1>2, <2>1, SameNoNicks DEF Typed, Person
<1>7. Registered'
  <2>1. wire' # <<>> /\ Len(wire') = 1 /\ wire'[1].cmd = "001"
    BY <1>2
  <2> QED BY <1>1, <1>2, <2>1 DEF Registered
<1>8. Told(v, m)
  <2>1. Seen(m, v[Len(wire)]).nick = mine'
    BY <1>2, <1>4, SeenFields DEF NickAfter
  <2>2. ASSUME NEW c \in Channel
        PROVE  Seen(m, v[Len(wire)]).lists[c] = NoNicks
    <3>1. v[Len(wire)].lists[c] = NoNicks
      BY <1>5 DEF Matches, ServerEnd
    <3>2. ListAfter(m, v[Len(wire)], c) = v[Len(wire)].lists[c]
      BY <1>4 DEF ListAfter
    <3> QED BY <3>1, <3>2, SeenFields
  <2> QED BY <1>1, <1>4, <1>5, <2>1, <2>2 DEF Told
<1> QED BY <1>6, <1>7, <1>8, ToldStep DEF Faithful

LEMMA SameBuffer ==
    ASSUME NEW a \in Buffer, NEW b \in Buffer,
           a.open = b.open, a.nicks = b.nicks, a.part = b.part, a.cycle = b.cycle,
           a.modes = b.modes, a.named = b.named, a.hook_autorejoin = b.hook_autorejoin
    PROVE  a = b
BY DEF Buffer

\* The client is in no room after its connection was lost.
LEMMA DropLeaves ==
    ASSUME Typed, Drop, NEW c \in Channel
    PROVE  rooms'[c] \in Room /\ ~InRoom(c)'
<1>1. mine' = NoNick /\ rooms' = [d \in Channel |-> [rooms[d] EXCEPT !.list = Without(@, mine)]]
  BY DEF Drop
<1>2. rooms[c] \in Room /\ Without(rooms[c].list, mine) \in NickList
  BY RoomFacts, WithoutFacts
<1>3. rooms'[c] = [rooms[c] EXCEPT !.list = Without(rooms[c].list, mine)]
  BY <1>1
<1>4. rooms'[c] \in Room /\ rooms'[c].list \in NickList
  BY <1>2, <1>3 DEF Room
<1>5. NoNick \notin DOMAIN rooms'[c].list
  BY <1>4, ListFacts, ChannelsAssumption
<1> QED BY <1>1, <1>4, <1>5 DEF InRoom

LEMMA StepDrop ==
    ASSUME Typed, Registered, NEW v, Matches(v), Drop
    PROVE  Faithful'
<1>1. /\ conn' = "off" /\ mine' = NoNick /\ outq' = <<>> /\ wire' = <<>> /\ nick' = nick
      /\ rooms' = [c \in Channel |-> [rooms[c] EXCEPT !.list = Without(@, mine)]]
      /\ intent' \in [Channel -> {"in", "out", "any"}]
  BY DEF Drop, Typed
<1>2. \A c \in Channel : rooms'[c] \in Room /\ ~InRoom(c)'
  BY DropLeaves
<1>3. rooms' \in [Channel -> Room]
  <2>1. rooms' = [c \in Channel |-> rooms'[c]]
    BY <1>1
  <2> QED BY <1>2, <2>1
<1>4. /\ channels' \in [Channel -> Buffer] /\ timers' \in [Channel -> Nat]
      /\ \A c \in Channel : /\ ~channels'[c].open => channels'[c] = NoChannel
                            /\ channels'[c].nicks = NoNicks
                            /\ channels'[c].hook_autorejoin => timers'[c] > 0
  <2>1. CASE conn = "on"
    <3>1. /\ channels' = [c \in Channel |-> FreedOnDisconnect(channels[c])]
          /\ timers' = [c \in Channel |-> timers[c] - (IF channels[c].hook_autorejoin THEN 1 ELSE 0)]
      BY <2>1 DEF Drop
    <3>2. ASSUME NEW c \in Channel
          PROVE  /\ FreedOnDisconnect(channels[c]) \in Buffer
                 /\ FreedOnDisconnect(channels[c]).nicks = NoNicks
                 /\ ~FreedOnDisconnect(channels[c]).hook_autorejoin
                 /\ ~FreedOnDisconnect(channels[c]).open => FreedOnDisconnect(channels[c]) = NoChannel
      <4>1. /\ channels[c] \in Buffer
            /\ ~channels[c].open => /\ channels[c] = NoChannel /\ channels[c].nicks = NoNicks
                                    /\ channels[c].hook_autorejoin = FALSE
        BY ChannelFacts
      <4>2. PICK ch : ch = channels[c]
        OBVIOUS
      <4>3. FreedOnDisconnect(ch) = [ch EXCEPT !.nicks = NoNicks, !.hook_autorejoin = FALSE]
        BY DEF FreedOnDisconnect
      <4>4. /\ FreedOnDisconnect(ch) \in Buffer /\ FreedOnDisconnect(ch).nicks = NoNicks
            /\ ~FreedOnDisconnect(ch).hook_autorejoin /\ FreedOnDisconnect(ch).open = ch.open
        BY <4>1, <4>2, <4>3, ListFacts DEF Buffer
      <4>5. ~ch.open => FreedOnDisconnect(ch) = ch
        <5>1. PICK b : b = FreedOnDisconnect(ch)
          OBVIOUS
        <5>2. /\ b \in Buffer /\ b.open = ch.open /\ b.nicks = NoNicks /\ b.part = ch.part
              /\ b.cycle = ch.cycle /\ b.modes = ch.modes /\ b.named = ch.named
              /\ b.hook_autorejoin = FALSE
          BY <4>1, <4>2, <4>3, <5>1, ListFacts DEF Buffer
        <5>3. ASSUME ~ch.open
              PROVE  b = ch
          <6>1. ch.nicks = NoNicks /\ ch.hook_autorejoin = FALSE /\ ch \in Buffer
            BY <4>1, <4>2, <5>3
          <6> QED BY <5>2, <6>1, SameBuffer
        <5> QED BY <5>1, <5>3
      <4> QED BY <4>1, <4>2, <4>4, <4>5
    <3>3. \A c \in Channel : timers[c] - (IF channels[c].hook_autorejoin THEN 1 ELSE 0) \in Nat
      BY ChannelFacts
    <3> QED BY <3>1, <3>2, <3>3
  <2>2. CASE conn # "on"
    <3>1. channels' = channels /\ timers' = timers
      BY <2>2 DEF Drop
    <3> QED BY <2>2, <3>1, ChannelFacts DEF Typed
  <2> QED BY <2>1, <2>2
<1>5. Typed'
  <2>1. wire' \in Seq(Messages) /\ outq' \in Seq(Command) /\ nick' \in Person /\ mine' \in Person
    BY <1>1 DEF Typed, Person
  <2> QED BY <1>1, <1>3, <1>4, <2>1, SameNoNicks DEF Typed
<1>6. Registered'
  BY <1>1 DEF Registered
<1>7. PICK s : s = [nick  |-> NoNick, lists |-> [c \in Channel |-> NoNicks],
                    modes |-> [c \in Channel |-> channels'[c].modes],
                    named |-> [c \in Channel |-> channels'[c].named]]
  OBVIOUS
<1>8. PICK u : u = [k \in {0} |-> s]
  OBVIOUS
<1>9. s \in View
  <2>1. \A c \in Channel : channels'[c].modes \in Mode /\ channels'[c].named \in BOOLEAN
    BY <1>4 DEF Buffer
  <2>2. \A c \in Channel : NoNicks \in NickList
    BY ListFacts
  <2> QED BY <1>7, <2>1, <2>2 DEF View, Person
<1>10. u[0] = s /\ u \in [0 .. 0 -> View] /\ Len(wire') = 0
  <2>1. 0 .. 0 = {0}
    OBVIOUS
  <2> QED BY <1>1, <1>8, <1>9, <2>1
<1>11. Chain(wire, u)'
  BY <1>10 DEF Chain
<1>12. ClientEnd(u)'
  BY <1>1, <1>4, <1>7, <1>10 DEF ClientEnd
<1>13. ServerEnd(u)'
  BY <1>1, <1>2, <1>7, <1>10, SameNoNicks DEF ServerEnd
<1>14. ModesAsked(u)'
  BY <1>2 DEF ModesAsked
<1> QED BY <1>5, <1>6, <1>11, <1>12, <1>13, <1>14 DEF Faithful, Matches

-----------------------------------------------------------------------------
(* The server answers a command.                                           *)

JoinMsg(c) == [cmd |-> "JOIN", nick |-> mine, chan |-> c]
PartMsg(c) == [cmd |-> "PART", nick |-> mine, chan |-> c]
NamesMsg(c, list) == [cmd |-> "353", chan |-> c, list |-> list]
EndMsg(c) == [cmd |-> "366", chan |-> c]
ModeMsg(c) == [cmd |-> "324", chan |-> c, set |-> rooms[c].flag]

LEMMA SequenceOfAppends ==
    ASSUME NEW S, NEW s \in Seq(S), NEW x \in S, NEW y \in S, NEW z \in S
    PROVE  /\ s \o <<x>> = Append(s, x)
           /\ s \o <<x, y>> = Append(Append(s, x), y)
           /\ s \o (<<x>> \o <<y, z>>) = Append(Append(Append(s, x), y), z)
           /\ s \o <<>> = s
<1>1. s \o <<x>> = Append(s, x) /\ s \o <<>> = s
  OBVIOUS
<1>2. s \o <<x, y>> = Append(Append(s, x), y)
  OBVIOUS
<1>3. PICK t : t = <<x>> \o <<y, z>>
  OBVIOUS
<1>4. t \in Seq(S) /\ Len(t) = 3 /\ t[1] = x /\ t[2] = y /\ t[3] = z
  BY <1>3
<1>5. s \o t = Append(Append(Append(s, x), y), z)
  <2> DEFINE a == s \o t
             b == Append(Append(Append(s, x), y), z)
  <2>1. /\ a \in Seq(S) /\ Len(a) = Len(s) + 3 /\ Len(s) \in Nat
        /\ \A i \in 1 .. Len(s) + 3 : a[i] = IF i <= Len(s) THEN s[i] ELSE t[i - Len(s)]
    <3>1. /\ a \in Seq(S) /\ Len(a) = Len(s) + Len(t)
          /\ \A i \in 1 .. Len(s) + Len(t) : a[i] = IF i <= Len(s) THEN s[i] ELSE t[i - Len(s)]
      BY <1>4, ConcatProperties
    <3>2. Len(s) \in Nat
      OBVIOUS
    <3> HIDE DEF a
    <3> QED BY <1>4, <3>1, <3>2
  <2>2. /\ b \in Seq(S) /\ Len(b) = Len(s) + 3
        /\ \A i \in 1 .. Len(s) : b[i] = s[i]
        /\ b[Len(s) + 1] = x /\ b[Len(s) + 2] = y /\ b[Len(s) + 3] = z
    OBVIOUS
  <2> HIDE DEF a, b
  <2>3. ASSUME NEW i \in 1 .. Len(s) + 3
        PROVE  a[i] = b[i]
    <3>1. CASE i <= Len(s)
      BY <2>1, <2>2, <3>1, SMTT(30)
    <3>2. CASE i = Len(s) + 1
      BY <1>4, <2>1, <2>2, <3>2
    <3>3. CASE i = Len(s) + 2
      BY <1>4, <2>1, <2>2, <3>3, SMTT(30)
    <3>4. CASE i = Len(s) + 3
      BY <1>4, <2>1, <2>2, <3>4
    <3> QED BY <2>1, <3>1, <3>2, <3>3, <3>4
  <2>4. a = b
    BY <2>1, <2>2, <2>3
  <2> QED BY <2>4 DEF a, b
<1> QED BY <1>1, <1>2, <1>3, <1>5

LEMMA MessageTypes ==
    ASSUME Typed, Registered, conn # "off", NEW c \in Channel, NEW list \in NickList
    PROVE  /\ mine \in Nick
           /\ {JoinMsg(c), PartMsg(c), NamesMsg(c, list), EndMsg(c), ModeMsg(c)} \subseteq Messages
<1>1. mine \in Nick
  BY DEF Registered
<1>2. JoinMsg(c) \in Messages /\ PartMsg(c) \in Messages
  BY <1>1 DEF JoinMsg, PartMsg, Messages
<1>3. NamesMsg(c, list) \in Messages /\ EndMsg(c) \in Messages
  BY DEF NamesMsg, EndMsg, Messages
<1>4. ModeMsg(c) \in Messages
  BY RoomFacts DEF ModeMsg, Messages
<1> QED BY <1>1, <1>2, <1>3, <1>4

\* The list of the room c becomes "list", and the messages on their way w.
Answered(c, list, w) ==
    rooms' = [rooms EXCEPT ![c].list = list] /\ wire' = w

AllNames(c) == IF InRoom(c) THEN rooms[c].list
              ELSE Over(Single(mine, rooms[c].list = NoNicks), rooms[c].list)

\* What the server does with the command x.
LEMMA ServeCases ==
    ASSUME Typed, Registered, Serve, NEW x, x = Head(outq), NEW c, c = x.chan
    PROVE  \/ /\ x.cmd = "JOIN" /\ ~InRoom(c)
              /\ Answered(c, AllNames(c),
                    Append(Append(Append(wire, JoinMsg(c)), NamesMsg(c, AllNames(c))), EndMsg(c)))
           \/ /\ x.cmd = "PART" /\ InRoom(c)
              /\ Answered(c, Without(rooms[c].list, mine), Append(wire, PartMsg(c)))
           \/ /\ x.cmd = "NAMES" /\ InRoom(c)
              /\ Answered(c, rooms[c].list,
                    Append(Append(wire, NamesMsg(c, rooms[c].list)), EndMsg(c)))
           \/ /\ x.cmd = "NAMES" /\ ~InRoom(c)
              /\ Answered(c, rooms[c].list, Append(wire, EndMsg(c)))
           \/ /\ x.cmd = "MODE"
              /\ Answered(c, rooms[c].list, Append(wire, ModeMsg(c)))
           \/ /\ IF InRoom(c) THEN x.cmd = "JOIN" ELSE x.cmd = "PART"
              /\ Answered(c, rooms[c].list, wire)
<1> DEFINE list == rooms[c].list
           members == IF mine \in DOMAIN list THEN list ELSE Over(Single(mine, list = NoNicks), list)
           names == <<NamesMsg(c, members), EndMsg(c)>>
           answer ==
             CASE x.cmd = "JOIN" /\ mine \notin DOMAIN list -> <<members, <<JoinMsg(c)>> \o names>>
               [] x.cmd = "PART" /\ mine \in DOMAIN list -> <<Without(list, mine), <<PartMsg(c)>>>>
               [] x.cmd = "NAMES" -> <<list, IF mine \in DOMAIN list THEN names ELSE Tail(names)>>
               [] x.cmd = "MODE" -> <<list, <<ModeMsg(c)>>>>
               [] OTHER -> <<list, <<>>>>
<1>1. conn # "off" /\ outq # <<>> /\ rooms' = [rooms EXCEPT ![c].list = answer[1]] /\ wire' = wire \o answer[2]
  BY Zenon DEF Serve, JoinMsg, NamesMsg, EndMsg, PartMsg, ModeMsg
<1>a. PICK l, w : l = answer[1] /\ w = answer[2]
  BY Zenon
<1>b. rooms' = [rooms EXCEPT ![c].list = l] /\ wire' = wire \o w
  BY <1>1, <1>a, Zenon
<1> HIDE DEF answer
<1>2. x \in Command /\ x.cmd \in {"JOIN", "PART", "NAMES", "MODE"} /\ c \in Channel
  <2>1. outq \in Seq(Command)
    BY DEF Typed
  <2>2. x \in Command
    BY <1>1, <2>1, TailFacts
  <2> QED BY <2>2 DEF Command
<1>3. members = AllNames(c) /\ list \in NickList /\ members \in NickList /\ mine \in Nick
  <2>1. list \in NickList
    BY <1>2, RoomFacts
  <2>2. mine \in Nick
    BY <1>1 DEF Registered
  <2>3. Single(mine, list = NoNicks) \in NickList
    BY <2>2, SingleFacts
  <2>4. members \in NickList
    BY <2>1, <2>3, OverFacts
  <2> QED BY <2>1, <2>2, <2>4 DEF AllNames, InRoom
<1> HIDE DEF members
<1>4. /\ {JoinMsg(c), PartMsg(c), NamesMsg(c, members), NamesMsg(c, list), EndMsg(c), ModeMsg(c)} \subseteq Messages
      /\ wire \in Seq(Messages)
  <2>1. wire \in Seq(Messages)
    BY DEF Typed
  <2>2. {JoinMsg(c), PartMsg(c), NamesMsg(c, members), EndMsg(c), ModeMsg(c)} \subseteq Messages
    BY <1>1, <1>2, <1>3, MessageTypes
  <2>3. NamesMsg(c, list) \in Messages
    BY <1>1, <1>2, <1>3, MessageTypes
  <2> QED BY <2>1, <2>2, <2>3
<1>5. Tail(names) = <<EndMsg(c)>>
  OBVIOUS
<1>6. CASE x.cmd = "JOIN" /\ ~InRoom(c)
  <2>1. answer = <<members, <<JoinMsg(c)>> \o names>>
    BY <1>6, Zenon DEF InRoom, answer
  <2>2. l = members /\ w = <<JoinMsg(c)>> \o names
    BY <1>a, <2>1
  <2>3. wire \o w =
           Append(Append(Append(wire, JoinMsg(c)), NamesMsg(c, members)), EndMsg(c))
    BY <1>4, <2>2, SequenceOfAppends
  <2>4. Answered(c, AllNames(c),
          Append(Append(Append(wire, JoinMsg(c)), NamesMsg(c, AllNames(c))), EndMsg(c)))
    BY <1>b, <1>3, <2>2, <2>3 DEF Answered
  <2> QED BY <1>6, <2>4, Zenon
<1>7. CASE x.cmd = "PART" /\ InRoom(c)
  <2>1. answer = <<Without(list, mine), <<PartMsg(c)>>>>
    BY <1>7 DEF InRoom, answer
  <2>2. l = Without(list, mine) /\ w = <<PartMsg(c)>>
    BY <1>a, <2>1
  <2>3. wire \o w = Append(wire, PartMsg(c))
    BY <1>4, <2>2, SequenceOfAppends
  <2>4. Answered(c, Without(rooms[c].list, mine), Append(wire, PartMsg(c)))
    BY <1>b, <2>2, <2>3 DEF Answered
  <2> QED BY <1>7, <2>4
<1>8. CASE x.cmd = "NAMES"
  <2>1. answer = <<list, IF mine \in DOMAIN list THEN names ELSE Tail(names)>>
    BY <1>8 DEF answer
  <2>2. l = list /\ w = IF mine \in DOMAIN list THEN names ELSE Tail(names)
    BY <1>a, <2>1
  <2>3. CASE InRoom(c)
    <3>1. members = list
      BY <2>3 DEF InRoom, members
    <3>2. w = <<NamesMsg(c, list), EndMsg(c)>>
      BY <2>2, <2>3, <3>1 DEF InRoom
    <3>3. wire \o w = Append(Append(wire, NamesMsg(c, list)), EndMsg(c))
      BY <1>4, <3>2, SequenceOfAppends, SMTT(30)
    <3>4. Answered(c, rooms[c].list, Append(Append(wire, NamesMsg(c, rooms[c].list)), EndMsg(c)))
      BY <1>b, <2>2, <3>3 DEF Answered
    <3> QED BY <1>8, <2>3, <3>4
  <2>4. CASE ~InRoom(c)
    <3>1. w = <<EndMsg(c)>>
      BY <1>5, <2>2, <2>4 DEF InRoom
    <3>2. wire \o w = Append(wire, EndMsg(c))
      BY <1>4, <3>1, SequenceOfAppends, SMTT(30)
    <3>3. Answered(c, rooms[c].list, Append(wire, EndMsg(c)))
      BY <1>b, <2>2, <3>2 DEF Answered
    <3> QED BY <1>8, <2>4, <3>3
  <2> QED BY <2>3, <2>4
<1>9. CASE x.cmd = "MODE"
  <2>1. answer = <<list, <<ModeMsg(c)>>>>
    BY <1>9 DEF answer
  <2>2. l = list /\ w = <<ModeMsg(c)>>
    BY <1>a, <2>1
  <2>3. wire \o w = Append(wire, ModeMsg(c))
    BY <1>4, <2>2, SequenceOfAppends
  <2>4. Answered(c, rooms[c].list, Append(wire, ModeMsg(c)))
    BY <1>b, <2>2, <2>3 DEF Answered
  <2> QED BY <1>9, <2>4
<1>10. CASE (x.cmd = "JOIN" /\ InRoom(c)) \/ (x.cmd = "PART" /\ ~InRoom(c))
  <2>1. answer = <<list, <<>>>>
    BY <1>10 DEF InRoom, answer
  <2>2. l = list /\ w = <<>>
    BY <1>a, <2>1
  <2>3. wire \o w = wire
    BY <1>4, <2>2, SequenceOfAppends
  <2>4. Answered(c, rooms[c].list, wire)
    BY <1>b, <2>2, <2>3 DEF Answered
  <2> QED BY <1>10, <2>4
<1> QED BY <1>2, <1>6, <1>7, <1>8, <1>9, <1>10, Zenon

LEMMA EndFacts ==
    ASSUME Typed, NEW v, Matches(v)
    PROVE  /\ wire \in Seq(Messages) /\ Len(wire) \in Nat /\ Chain(wire, v)
           /\ v[Len(wire)] \in View /\ v[Len(wire)].nick = mine
           /\ \A c \in Channel :
                 /\ v[Len(wire)].lists[c] = IF InRoom(c) THEN rooms[c].list ELSE NoNicks
                 /\ InRoom(c) => Asked(wire, v, c, channels[c].open, Pending(outq, c), rooms[c].flag)
<1>1. wire \in Seq(Messages) /\ Chain(wire, v)
  BY DEF Typed, Matches
<1>2. Len(wire) \in Nat /\ v[Len(wire)] \in View
  BY <1>1, ChainFacts
<1> QED BY <1>1, <1>2 DEF Matches, ServerEnd, ModesAsked

\* The messages x, with the views u, are those on their way and more about the
\* channel c.
More(v, c, x, u) ==
    /\ x \in Seq(Messages) /\ Chain(x, u) /\ u[0] = v[0]
    /\ Len(x) >= Len(wire)
    /\ \A i \in 1 .. Len(wire) : x[i] = wire[i]
    /\ \A i \in 1 .. Len(x) : i > Len(wire) => x[i].cmd # "001"
    /\ u[Len(x)].nick = mine
    /\ \A d \in Channel \ {c} :
          /\ u[Len(x)].lists[d] = v[Len(wire)].lists[d]
          /\ InRoom(d) => Asked(x, u, d, channels[d].open, Pending(outq, d), rooms[d].flag)

LEMMA NoMore ==
    ASSUME Typed, NEW v, Matches(v), NEW c
    PROVE  More(v, c, wire, v)
BY EndFacts DEF More

LEMMA OneMore ==
    ASSUME Typed, NEW v, Matches(v), NEW c, NEW x, NEW u, More(v, c, x, u), NEW m \in Messages,
           m.cmd \in {"JOIN", "PART", "324", "353", "366"}, m.chan = c, NEW t, ChainAppended(x, u, m, t)
    PROVE  /\ More(v, c, Append(x, m), t)
           /\ Len(Append(x, m)) = Len(x) + 1 /\ Len(x) \in Nat
           /\ t[Len(x) + 1] = Seen(m, u[Len(x)])
<1>1. /\ x \in Seq(Messages) /\ Chain(x, u) /\ u[0] = v[0]
      /\ Len(x) >= Len(wire) /\ u[Len(x)].nick = mine /\ Len(wire) \in Nat
  BY EndFacts DEF More
<1>2. /\ Append(x, m) \in Seq(Messages) /\ Len(Append(x, m)) = Len(x) + 1 /\ Len(x) \in Nat
      /\ \A i \in 1 .. Len(x) : Append(x, m)[i] = x[i]
      /\ Append(x, m)[Len(x) + 1] = m
  BY <1>1, AppendFacts
<1>3. /\ Chain(Append(x, m), t) /\ t[0] = u[0] /\ t[Len(x) + 1] = Seen(m, u[Len(x)])
  BY <1>2 DEF ChainAppended
<1>4. \A i \in 1 .. Len(wire) : Append(x, m)[i] = wire[i]
  BY <1>1, <1>2 DEF More
<1>5. \A i \in 1 .. Len(x) + 1 : i > Len(wire) => Append(x, m)[i].cmd # "001"
  <2> TAKE i \in 1 .. Len(x) + 1
  <2>1. CASE i = Len(x) + 1
    BY <1>2, <2>1
  <2>2. CASE i # Len(x) + 1
    <3>1. i \in 1 .. Len(x)
      BY <1>2, <2>2
    <3> QED BY <1>2, <3>1 DEF More
  <2> QED BY <2>1, <2>2
<1>6. Seen(m, u[Len(x)]).nick = mine
  <2>1. NickAfter(m, u[Len(x)]) = u[Len(x)].nick
    BY DEF NickAfter
  <2> QED BY <1>1, <2>1, SeenFields
<1>7. ASSUME NEW d \in Channel \ {c}
      PROVE  /\ Seen(m, u[Len(x)]).lists[d] = v[Len(wire)].lists[d]
             /\ InRoom(d) => Asked(Append(x, m), t, d, channels[d].open, Pending(outq, d), rooms[d].flag)
  <2>1. /\ u[Len(x)].lists[d] = v[Len(wire)].lists[d]
        /\ InRoom(d) => Asked(x, u, d, channels[d].open, Pending(outq, d), rooms[d].flag)
    BY DEF More
  <2>2. m.chan # d
    OBVIOUS
  <2>3. ListAfter(m, u[Len(x)], d) = u[Len(x)].lists[d]
    BY <2>2 DEF ListAfter
  <2>4. ModesAfter(m, u[Len(x)], d) = u[Len(x)].modes[d]
    BY <2>2 DEF ModesAfter, Starts
  <2>5. Seen(m, u[Len(x)]).modes[d] = u[Len(x)].modes[d]
    BY <2>4, SeenFields
  <2>6. InRoom(d) => Asked(Append(x, m), t, d, channels[d].open, Pending(outq, d), rooms[d].flag)
    BY <1>1, <2>1, <2>2, <2>5, AskedAppend
  <2> QED BY <2>1, <2>3, <2>6, SeenFields
<1> QED BY <1>1, <1>2, <1>3, <1>4, <1>5, <1>6, <1>7 DEF More

\* What was answered is what the last view shows.
LEMMA AnswerStep ==
    ASSUME Typed, Registered, NEW v, Matches(v), NEW c \in Channel, NEW x, NEW u, More(v, c, x, u),
           NEW list \in NickList, Answered(c, list, x),
           conn # "off", outq # <<>>, Head(outq).chan = c, outq' = Tail(outq),
           UNCHANGED <<client, mine, intent>>,
           u[Len(x)].lists[c] = IF mine \in DOMAIN list THEN list ELSE NoNicks,
           mine \in DOMAIN list =>
              Asked(x, u, c, channels[c].open, Pending(Tail(outq), c), rooms[c].flag)
    PROVE  Faithful'
<1>1. /\ x \in Seq(Messages) /\ Chain(x, u) /\ u[0] = v[0] /\ u[Len(x)].nick = mine
      /\ Len(x) >= Len(wire) /\ Len(wire) \in Nat /\ Len(x) \in Nat
      /\ wire' = x /\ mine' = mine /\ client' = client /\ intent' = intent
  BY EndFacts, Members DEF More, Answered
<1>2. /\ outq \in Seq(Command) /\ Tail(outq) \in Seq(Command)
      /\ \A d \in Channel \ {c} : Pending(outq, d) => Pending(Tail(outq), d)
  <2>1. outq \in Seq(Command)
    BY DEF Typed
  <2>2. /\ Tail(outq) \in Seq(Command) /\ Len(Tail(outq)) = Len(outq) - 1 /\ Len(outq) \in Nat \ {0}
        /\ \A i \in 1 .. Len(Tail(outq)) : Tail(outq)[i] = outq[i + 1]
        /\ Head(outq) = outq[1]
    BY <2>1, TailFacts
  <2>3. ASSUME NEW d \in Channel \ {c}, Pending(outq, d)
        PROVE  Pending(Tail(outq), d)
    <3>1. PICK i \in 1 .. Len(outq) : outq[i].cmd = "MODE" /\ outq[i].chan = d
      BY <2>3 DEF Pending
    <3>2. i # 1
      BY <2>2, <3>1
    <3>3. i - 1 \in 1 .. Len(Tail(outq)) /\ (i - 1) + 1 = i
      BY <2>2, <3>2
    <3> QED BY <2>2, <3>1, <3>3 DEF Pending
  <2> QED BY <2>1, <2>2, <2>3
<1>3. /\ rooms' \in [Channel -> Room] /\ rooms'[c].list = list /\ rooms'[c].flag = rooms[c].flag
      /\ \A d \in Channel \ {c} : rooms'[d] = rooms[d]
  <2>1. rooms' = [rooms EXCEPT ![c].list = list] /\ rooms \in [Channel -> Room]
    BY DEF Answered, Typed
  <2> QED BY <2>1 DEF Room
<1>4. Typed'
  <2>1. /\ mine' \in Person /\ wire' \in Seq(Messages) /\ outq' \in Seq(Command)
        /\ UNCHANGED <<client, intent>>
    BY <1>1, <1>2 DEF Typed
  <2> QED BY <1>3, <2>1, ServerTyped
<1>5. Registered'
  <2>1. conn' = conn
    BY <1>1 DEF client
  <2>2. conn = "registering" => x # <<>> /\ x[1].cmd = "001"
    <3> SUFFICES ASSUME conn = "registering" PROVE x # <<>> /\ x[1].cmd = "001"
      OBVIOUS
    <3>1. wire # <<>> /\ wire[1].cmd = "001"
      BY DEF Registered
    <3>2. 1 \in 1 .. Len(wire) /\ Len(x) # 0
      BY <1>1, <3>1, EndFacts
    <3> QED BY <1>1, <3>1, <3>2 DEF More
  <2>3. ASSUME NEW i \in 1 .. Len(x), x[i].cmd = "001"
        PROVE  i = 1 /\ conn = "registering"
    <3>1. i \in 1 .. Len(wire)
      BY <1>1, <2>3 DEF More
    <3> QED BY <2>3, <3>1 DEF More, Registered
  <2> QED BY <1>1, <2>1, <2>2, <2>3 DEF Registered
<1>6. \A d \in Channel : InRoom(d)' <=> (IF d = c THEN mine \in DOMAIN list ELSE InRoom(d))
  BY <1>1, <1>3 DEF InRoom
<1>7. ServerEnd(u)'
  <2>1. ASSUME NEW d \in Channel
        PROVE  u[Len(x)].lists[d] = IF InRoom(d)' THEN rooms'[d].list ELSE NoNicks
    <3>1. CASE d = c
      BY <1>3, <1>6, <3>1
    <3>2. CASE d # c
      <4>1. u[Len(x)].lists[d] = v[Len(wire)].lists[d]
        BY <3>2 DEF More
      <4>2. v[Len(wire)].lists[d] = IF InRoom(d) THEN rooms[d].list ELSE NoNicks
        BY EndFacts
      <4> QED BY <1>3, <1>6, <3>2, <4>1, <4>2
    <3> QED BY <3>1, <3>2
  <2> QED BY <1>1, <2>1, SameNoNicks DEF ServerEnd
<1>8. ClientEnd(u)'
  BY <1>1 DEF Matches, ClientEnd, client
<1>9. ModesAsked(u)'
  <2> SUFFICES ASSUME NEW d \in Channel, InRoom(d)'
               PROVE  Asked(x, u, d, channels[d].open, Pending(Tail(outq), d), rooms'[d].flag)
    BY <1>1 DEF ModesAsked, client
  <2>1. CASE d = c
    BY <1>3, <1>6, <2>1
  <2>2. CASE d # c
    <3>1. Asked(x, u, d, channels[d].open, Pending(outq, d), rooms[d].flag)
      BY <1>6, <2>2 DEF More
    <3> QED BY <1>2, <1>3, <2>2, <3>1 DEF Asked
  <2> QED BY <2>1, <2>2
<1>10. Chain(wire, u)'
  BY <1>1, Zenon DEF Chain
<1> QED BY <1>4, <1>5, <1>7, <1>8, <1>9, <1>10 DEF Faithful, Matches

LEMMA ServeFacts ==
    ASSUME Typed, Registered, Serve
    PROVE  /\ conn # "off" /\ outq # <<>> /\ outq' = Tail(outq) /\ outq \in Seq(Command)
           /\ UNCHANGED <<client, mine, intent>> /\ mine \in Nick
           /\ Head(outq) \in Command /\ Head(outq).chan \in Channel
           /\ \A c : Pending(outq, c) /\ Head(outq).cmd # "MODE" => Pending(Tail(outq), c)
<1>1. conn # "off" /\ outq # <<>> /\ outq' = Tail(outq) /\ UNCHANGED <<client, mine, intent>>
  BY Zenon DEF Serve
<1>2. outq \in Seq(Command) /\ mine \in Nick
  BY <1>1 DEF Typed, Registered
<1>3. /\ Head(outq) \in Command /\ Len(Tail(outq)) = Len(outq) - 1 /\ Len(outq) \in Nat \ {0}
      /\ \A i \in 1 .. Len(Tail(outq)) : Tail(outq)[i] = outq[i + 1]
      /\ Head(outq) = outq[1]
  BY <1>1, <1>2, TailFacts
<1>4. ASSUME NEW c, Pending(outq, c), Head(outq).cmd # "MODE"
      PROVE  Pending(Tail(outq), c)
  <2>1. PICK i \in 1 .. Len(outq) : outq[i].cmd = "MODE" /\ outq[i].chan = c
    BY <1>4 DEF Pending
  <2>2. i - 1 \in 1 .. Len(Tail(outq)) /\ (i - 1) + 1 = i
    BY <1>3, <1>4, <2>1
  <2> QED BY <1>3, <2>1, <2>2 DEF Pending
<1> QED BY <1>1, <1>2, <1>3, <1>4 DEF Command

\* The answer to a JOIN: the JOIN, the names, and their end.
LEMMA ServeJoin ==
    ASSUME Typed, Registered, NEW v, Matches(v), Serve, NEW c, c = Head(outq).chan, ~InRoom(c),
           Answered(c, AllNames(c),
              Append(Append(Append(wire, JoinMsg(c)), NamesMsg(c, AllNames(c))), EndMsg(c)))
    PROVE  Faithful'
<1> DEFINE list == AllNames(c)
           L == Len(wire)
<1>1. /\ c \in Channel /\ mine \in Nick /\ conn # "off" /\ outq # <<>> /\ outq' = Tail(outq)
      /\ UNCHANGED <<client, mine, intent>>
  BY ServeFacts
<1>2. list \in NickList /\ DOMAIN list = {mine} \cup DOMAIN rooms[c].list /\ list # NoNicks
  <2>1. rooms[c].list \in NickList
    BY <1>1, RoomFacts
  <2>2. PICK one, old : one = Single(mine, rooms[c].list = NoNicks) /\ old = rooms[c].list
    OBVIOUS
  <2>3. (rooms[c].list = NoNicks) \in BOOLEAN
    OBVIOUS
  <2>4. one \in NickList /\ DOMAIN one = {mine}
    BY <1>1, <2>2, <2>3, SingleFacts
  <2>5. list = Over(one, old) /\ old \in NickList
    BY <2>1, <2>2 DEF AllNames
  <2> HIDE DEF list
  <2>6. Over(one, old) \in NickList /\ DOMAIN Over(one, old) = DOMAIN one \cup DOMAIN old
    BY <2>4, <2>5, OverFacts
  <2>7. list \in NickList /\ DOMAIN list = {mine} \cup DOMAIN rooms[c].list
    BY <2>2, <2>4, <2>5, <2>6
  <2> QED BY <2>7, ListFacts
<1> HIDE DEF list
<1>3. /\ JoinMsg(c) \in Messages /\ NamesMsg(c, list) \in Messages /\ EndMsg(c) \in Messages
  BY <1>1, <1>2, MessageTypes
<1>4. PICK m1, m2, m3 : m1 = JoinMsg(c) /\ m2 = NamesMsg(c, list) /\ m3 = EndMsg(c)
  OBVIOUS
<1>5. /\ m1 \in Messages /\ m1.cmd = "JOIN" /\ m1.nick = mine /\ m1.chan = c
      /\ m2 \in Messages /\ m2.cmd = "353" /\ m2.list = list /\ m2.chan = c
      /\ m3 \in Messages /\ m3.cmd = "366" /\ m3.chan = c
  BY <1>3, <1>4 DEF JoinMsg, NamesMsg, EndMsg
<1>6. PICK x1, x2, x3 : x1 = Append(wire, m1) /\ x2 = Append(x1, m2) /\ x3 = Append(x2, m3)
  OBVIOUS
<1>7. More(v, c, wire, v)
  BY NoMore
<1>8. PICK u1 : ChainAppended(wire, v, m1, u1)
  BY <1>5, EndFacts, ChainAppend
<1>9. More(v, c, x1, u1) /\ Len(x1) = L + 1 /\ L \in Nat /\ u1[L + 1] = Seen(m1, v[L])
  BY <1>5, <1>6, <1>7, <1>8, OneMore
<1>10. PICK u2 : ChainAppended(x1, u1, m2, u2)
  BY <1>5, <1>9, ChainAppend DEF More
<1>11. More(v, c, x2, u2) /\ Len(x2) = L + 2 /\ u2[L + 2] = Seen(m2, u1[L + 1])
  <2>1. /\ More(v, c, x2, u2) /\ Len(x2) = Len(x1) + 1
        /\ u2[Len(x1) + 1] = Seen(m2, u1[Len(x1)])
    <3>1. m2 \in Messages /\ m2.cmd \in {"JOIN", "PART", "324", "353", "366"} /\ m2.chan = c
      BY <1>5
    <3>2. More(v, c, x1, u1) /\ ChainAppended(x1, u1, m2, u2)
      BY <1>9, <1>10
    <3>3. /\ More(v, c, Append(x1, m2), u2) /\ Len(Append(x1, m2)) = Len(x1) + 1
          /\ u2[Len(x1) + 1] = Seen(m2, u1[Len(x1)])
      BY <3>1, <3>2, OneMore
    <3> QED BY <1>6, <3>3
  <2>2. Len(x1) + 1 = L + 2
    BY <1>9
  <2> QED BY <1>9, <2>1, <2>2
<1>12. PICK u3 : ChainAppended(x2, u2, m3, u3)
  BY <1>5, <1>11, ChainAppend DEF More
<1>13. More(v, c, x3, u3) /\ Len(x3) = L + 3 /\ u3[L + 3] = Seen(m3, u2[L + 2])
  <2>1. /\ More(v, c, x3, u3) /\ Len(x3) = Len(x2) + 1
        /\ u3[Len(x2) + 1] = Seen(m3, u2[Len(x2)])
    <3>1. m3 \in Messages /\ m3.cmd \in {"JOIN", "PART", "324", "353", "366"} /\ m3.chan = c
      BY <1>5
    <3>2. More(v, c, x2, u2) /\ ChainAppended(x2, u2, m3, u3)
      BY <1>11, <1>12
    <3>3. /\ More(v, c, Append(x2, m3), u3) /\ Len(Append(x2, m3)) = Len(x2) + 1
          /\ u3[Len(x2) + 1] = Seen(m3, u2[Len(x2)])
      BY <3>1, <3>2, OneMore
    <3> QED BY <1>6, <3>3
  <2>2. Len(x2) + 1 = L + 3
    BY <1>9, <1>11
  <2> QED BY <1>11, <2>1, <2>2
<1>14. v[L].nick = mine
  BY EndFacts
<1>15. u1[L + 1].lists[c] = Single(mine, FALSE) /\ u1[L + 1].named[c] = FALSE
  <2>1. ListAfter(m1, v[L], c) = Single(mine, FALSE)
    BY <1>5, <1>14 DEF ListAfter
  <2>2. NamedAfter(m1, v[L], c) = FALSE
    BY <1>5, <1>14 DEF NamedAfter, Starts
  <2>3. PICK s, t : s = v[L] /\ t = u1[L + 1]
    OBVIOUS
  <2>4. t = Seen(m1, s)
    BY <1>9, <2>3
  <2>5. /\ t.lists[c] = ListAfter(m1, s, c)
        /\ t.named[c] = NamedAfter(m1, s, c)
    BY <1>1, <2>4, SeenFields
  <2>6. t.lists[c] = Single(mine, FALSE)
    BY <2>1, <2>3, <2>5
  <2>7. t.named[c] = FALSE
    BY <2>2, <2>3, <2>5
  <2> QED BY <2>3, <2>6, <2>7
<1>16. u2[L + 2].lists[c] = list /\ u2[L + 2].named[c] = FALSE
  <2>1. /\ Single(mine, FALSE) \in NickList /\ DOMAIN Single(mine, FALSE) = {mine}
        /\ Single(mine, FALSE) # NoNicks
    BY <1>1, SingleFacts
  <2>2. Over(list, Single(mine, FALSE)) = list
    BY <1>2, <2>1, OverAll
  <2>3. ListAfter(m2, u1[L + 1], c) = list
    BY <1>5, <1>15, <2>1, <2>2 DEF ListAfter
  <2>4. NamedAfter(m2, u1[L + 1], c) = FALSE
    BY <1>5, <1>15 DEF NamedAfter, Starts
  <2> QED BY <1>1, <1>11, <2>3, <2>4, SeenFields
<1>17. u3[L + 3].lists[c] = list
  <2>1. ListAfter(m3, u2[L + 2], c) = list
    BY <1>5, <1>16 DEF ListAfter
  <2> QED BY <1>1, <1>13, <2>1, SeenFields
<1>18. /\ x3[L + 3] = m3 /\ x3[L + 2] = m2 /\ u3[L + 2] = u2[L + 2]
  <2>1. x2 \in Seq(Messages) /\ x1 \in Seq(Messages)
    BY <1>9, <1>11 DEF More
  <2>2. x3[L + 3] = m3 /\ x3[L + 2] = x2[L + 2] /\ x2[L + 2] = m2
    BY <1>5, <1>6, <1>9, <1>11, <2>1, AppendFacts
  <2>3. u3[L + 2] = u2[L + 2]
    BY <1>9, <1>11, <1>12 DEF ChainAppended
  <2> QED BY <2>2, <2>3
<1>19. Asked(x3, u3, c, channels[c].open, Pending(Tail(outq), c), rooms[c].flag)
  <2>1. ASSUME NEW j \in 0 .. L + 3, IF j = 0 THEN channels[c].open ELSE OwnJoin(x3, u3, c, j)
        PROVE  NamesEnd(x3, u3, c, j)
    <3>1. j # L + 3
      <4> SUFFICES ASSUME j = L + 3 PROVE FALSE
        OBVIOUS
      <4>1. x3[j] = m3 /\ j # 0
        BY <1>9, <1>18
      <4> QED BY <1>5, <2>1, <4>1 DEF OwnJoin
    <3>2. L + 3 \in 1 .. L + 3 /\ L + 3 > j /\ (L + 3) - 1 = L + 2
      BY <1>9, <3>1
    <3> QED BY <1>2, <1>5, <1>13, <1>16, <1>18, <3>2 DEF NamesEnd
  <2> QED BY <1>13, <2>1 DEF Asked
<1>20. Answered(c, list, x3)
  BY <1>4, <1>6 DEF list
<1>21. u3[Len(x3)].lists[c] = IF mine \in DOMAIN list THEN list ELSE NoNicks
  BY <1>2, <1>13, <1>17
<1> QED BY <1>1, <1>2, <1>13, <1>19, <1>20, <1>21, AnswerStep

\* The names of a channel the client is on.
LEMMA ServeNames ==
    ASSUME Typed, Registered, NEW v, Matches(v), Serve, NEW c, c = Head(outq).chan, InRoom(c),
           Head(outq).cmd = "NAMES",
           Answered(c, rooms[c].list,
              Append(Append(wire, NamesMsg(c, rooms[c].list)), EndMsg(c)))
    PROVE  Faithful'
<1>0. PICK list : list = rooms[c].list
  OBVIOUS
<1> DEFINE L == Len(wire)
<1>1. /\ c \in Channel /\ mine \in Nick /\ conn # "off" /\ outq # <<>> /\ outq' = Tail(outq)
      /\ UNCHANGED <<client, mine, intent>>
      /\ Pending(outq, c) => Pending(Tail(outq), c)
  BY ServeFacts
<1>2. list \in NickList /\ mine \in DOMAIN list /\ list # NoNicks
  BY <1>0, <1>1, RoomFacts, ListFacts DEF InRoom
<1>3. PICK m1, m2 : m1 = NamesMsg(c, list) /\ m2 = EndMsg(c)
  OBVIOUS
<1>4. /\ m1 \in Messages /\ m1.cmd = "353" /\ m1.list = list /\ m1.chan = c
      /\ m2 \in Messages /\ m2.cmd = "366" /\ m2.chan = c
  <2>1. m1 \in Messages /\ m2 \in Messages
    BY <1>1, <1>2, <1>3, MessageTypes
  <2> QED BY <1>3, <2>1 DEF NamesMsg, EndMsg
<1>5. PICK x1, x2 : x1 = Append(wire, m1) /\ x2 = Append(x1, m2)
  OBVIOUS
<1>6. More(v, c, wire, v)
  BY NoMore
<1>7. PICK u1 : ChainAppended(wire, v, m1, u1)
  BY <1>4, EndFacts, ChainAppend
<1>8. More(v, c, x1, u1) /\ Len(x1) = L + 1 /\ L \in Nat /\ u1[L + 1] = Seen(m1, v[L])
  BY <1>4, <1>5, <1>6, <1>7, OneMore
<1>9. PICK u2 : ChainAppended(x1, u1, m2, u2)
  BY <1>4, <1>8, ChainAppend DEF More
<1>10. More(v, c, x2, u2) /\ Len(x2) = L + 2 /\ u2[L + 2] = Seen(m2, u1[L + 1])
  <2>1. /\ More(v, c, x2, u2) /\ Len(x2) = Len(x1) + 1
        /\ u2[Len(x1) + 1] = Seen(m2, u1[Len(x1)])
    <3>1. m2 \in Messages /\ m2.cmd \in {"JOIN", "PART", "324", "353", "366"} /\ m2.chan = c
      BY <1>4
    <3>2. More(v, c, x1, u1) /\ ChainAppended(x1, u1, m2, u2)
      BY <1>8, <1>9
    <3>3. /\ More(v, c, Append(x1, m2), u2) /\ Len(Append(x1, m2)) = Len(x1) + 1
          /\ u2[Len(x1) + 1] = Seen(m2, u1[Len(x1)])
      BY <3>1, <3>2, OneMore
    <3> QED BY <1>5, <3>3
  <2>2. Len(x1) + 1 = L + 2
    BY <1>8
  <2> QED BY <1>8, <2>1, <2>2
<1>11. v[L].lists[c] = list
  BY <1>0, <1>1, EndFacts
<1>12. u1[L + 1].lists[c] = list /\ u1[L + 1].modes[c] = v[L].modes[c]
  <2>1. Over(list, list) = list
    BY <1>2, OverAll
  <2>2. ListAfter(m1, v[L], c) = list
    BY <1>4, <1>11, <2>1 DEF ListAfter
  <2>3. ModesAfter(m1, v[L], c) = v[L].modes[c]
    BY <1>4 DEF ModesAfter, Starts
  <2> QED BY <1>1, <1>8, <2>2, <2>3, SeenFields
<1>13. u2[L + 2].lists[c] = list /\ u2[L + 2].modes[c] = u1[L + 1].modes[c]
  <2>1. ListAfter(m2, u1[L + 1], c) = list
    BY <1>4, <1>12 DEF ListAfter
  <2>2. ModesAfter(m2, u1[L + 1], c) = u1[L + 1].modes[c]
    BY <1>4 DEF ModesAfter, Starts
  <2> QED BY <1>1, <1>10, <2>1, <2>2, SeenFields
<1>14. Asked(wire, v, c, channels[c].open, Pending(outq, c), rooms[c].flag)
  BY <1>1, EndFacts
<1>15. Asked(x1, u1, c, channels[c].open, Pending(outq, c), rooms[c].flag)
  <2>1. Seen(m1, v[L]).modes[c] = v[L].modes[c]
    BY <1>8, <1>12
  <2> QED BY <1>1, <1>4, <1>5, <1>7, <1>14, <2>1, EndFacts, AskedAppend
<1>16. Asked(x2, u2, c, channels[c].open, Pending(Tail(outq), c), rooms[c].flag)
  <2>1. Seen(m2, u1[Len(x1)]).modes[c] = u1[Len(x1)].modes[c]
    BY <1>8, <1>10, <1>13
  <2>2. x1 \in Seq(Messages) /\ Chain(x1, u1)
    BY <1>8 DEF More
  <2>3. m2.cmd # "JOIN"
    BY <1>4
  <2>4. Pending(outq, c) => Pending(Tail(outq), c)
    BY <1>1
  <2>5. m2 \in Messages /\ c \in Channel
    BY <1>1, <1>4
  <2>6. Asked(Append(x1, m2), u2, c, channels[c].open, Pending(Tail(outq), c), rooms[c].flag)
    BY <1>9, <1>15, <2>1, <2>2, <2>3, <2>4, <2>5, AskedAppend
  <2> QED BY <1>5, <2>6
<1>17. Answered(c, list, x2)
  BY <1>0, <1>3, <1>5
<1>18. u2[Len(x2)].lists[c] = IF mine \in DOMAIN list THEN list ELSE NoNicks
  BY <1>2, <1>10, <1>13
<1> QED BY <1>1, <1>2, <1>10, <1>16, <1>17, <1>18, AnswerStep

\* The other answers are one message, or none.
LEMMA ServeOne ==
    ASSUME Typed, Registered, NEW v, Matches(v), Serve, NEW c, c = Head(outq).chan,
           NEW list \in NickList, NEW m \in Messages, Answered(c, list, Append(wire, m)),
           m.cmd \in {"PART", "324", "366"}, m.chan = c,
           Seen(m, v[Len(wire)]).lists[c] = IF mine \in DOMAIN list THEN list ELSE NoNicks,
           mine \in DOMAIN list => Seen(m, v[Len(wire)]).modes[c] = ModeName(rooms[c].flag)
    PROVE  Faithful'
<1>1. /\ c \in Channel /\ conn # "off" /\ outq # <<>> /\ outq' = Tail(outq)
      /\ UNCHANGED <<client, mine, intent>>
  BY ServeFacts
<1>2. PICK x : x = Append(wire, m)
  OBVIOUS
<1>3. PICK u : ChainAppended(wire, v, m, u)
  BY EndFacts, ChainAppend
<1>4. /\ More(v, c, x, u) /\ Len(x) = Len(wire) + 1
      /\ u[Len(wire) + 1] = Seen(m, v[Len(wire)])
  BY <1>2, <1>3, NoMore, OneMore
<1>5. mine \in DOMAIN list =>
         Asked(x, u, c, channels[c].open, Pending(Tail(outq), c), rooms[c].flag)
  BY <1>4 DEF Asked
<1>6. u[Len(x)].lists[c] = IF mine \in DOMAIN list THEN list ELSE NoNicks
  BY <1>4
<1> QED BY <1>1, <1>2, <1>4, <1>5, <1>6, AnswerStep

LEMMA StepServe ==
    ASSUME Typed, Registered, NEW v, Matches(v), Serve
    PROVE  Faithful'
<1> DEFINE L == Len(wire)
<1>0. PICK c, x : c = Head(outq).chan /\ x = Head(outq)
  OBVIOUS
<1>1. /\ c \in Channel /\ mine \in Nick /\ conn # "off" /\ outq # <<>> /\ outq' = Tail(outq)
      /\ UNCHANGED <<client, mine, intent>>
      /\ Pending(outq, c) /\ x.cmd # "MODE" => Pending(Tail(outq), c)
  BY <1>0, ServeFacts
<1>2. /\ rooms[c].list \in NickList /\ v[L].nick = mine /\ (InRoom(c) <=> mine \in DOMAIN rooms[c].list)
      /\ v[L].lists[c] = IF InRoom(c) THEN rooms[c].list ELSE NoNicks
  BY <1>1, RoomFacts, EndFacts DEF InRoom
<1>3. /\ PartMsg(c) \in Messages /\ EndMsg(c) \in Messages /\ ModeMsg(c) \in Messages
  BY <1>1, <1>2, MessageTypes
<1>4. CASE /\ x.cmd = "JOIN" /\ ~InRoom(c)
           /\ Answered(c, AllNames(c),
                 Append(Append(Append(wire, JoinMsg(c)), NamesMsg(c, AllNames(c))), EndMsg(c)))
  BY <1>0, <1>4, ServeJoin
<1>5. CASE /\ x.cmd = "PART" /\ InRoom(c)
           /\ Answered(c, Without(rooms[c].list, mine), Append(wire, PartMsg(c)))
  <2>1. PICK m, list : m = PartMsg(c) /\ list = Without(rooms[c].list, mine)
    OBVIOUS
  <2>2. m \in Messages /\ m.cmd = "PART" /\ m.chan = c /\ m.nick = mine
    BY <1>3, <2>1 DEF PartMsg
  <2>3. list \in NickList /\ mine \notin DOMAIN list
    <3>1. PICK old, me : old = rooms[c].list /\ me = mine
      OBVIOUS
    <3>2. old \in NickList
      BY <1>2, <3>1
    <3>3. Without(old, me) \in NickList /\ DOMAIN Without(old, me) = DOMAIN old \ {me}
      BY <3>2, WithoutFacts
    <3>4. list = Without(old, me)
      BY <2>1, <3>1
    <3> QED BY <3>1, <3>3, <3>4
  <2>4. Seen(m, v[L]).lists[c] = NoNicks
    <3>1. ListAfter(m, v[L], c) = NoNicks
      BY <1>2, <2>2 DEF ListAfter
    <3> QED BY <1>1, <3>1, SeenFields
  <2> QED BY <1>0, <1>5, <2>1, <2>2, <2>3, <2>4, ServeOne
<1>6. CASE /\ x.cmd = "NAMES" /\ InRoom(c)
           /\ Answered(c, rooms[c].list,
                 Append(Append(wire, NamesMsg(c, rooms[c].list)), EndMsg(c)))
  BY <1>0, <1>6, ServeNames
<1>7. CASE /\ x.cmd = "NAMES" /\ ~InRoom(c)
           /\ Answered(c, rooms[c].list, Append(wire, EndMsg(c)))
  <2>1. PICK m, list : m = EndMsg(c) /\ list = rooms[c].list
    OBVIOUS
  <2>2. m \in Messages /\ m.cmd = "366" /\ m.chan = c
    BY <1>3, <2>1 DEF EndMsg
  <2>3. list \in NickList /\ mine \notin DOMAIN list
    <3>1. ~InRoom(c)
      BY <1>7
    <3>2. mine \notin DOMAIN rooms[c].list
      BY <3>1 DEF InRoom
    <3>3. rooms[c].list \in NickList
      BY <1>2
    <3>4. list = rooms[c].list
      BY <2>1
    <3>5. mine \notin DOMAIN list
      BY ONLY <3>2, <3>4, Zenon
    <3>6. list \in NickList
      BY ONLY <3>3, <3>4, Zenon
    <3> QED BY <3>5, <3>6
  <2>4. Seen(m, v[L]).lists[c] = NoNicks
    <3>1. ListAfter(m, v[L], c) = v[L].lists[c]
      BY <2>2 DEF ListAfter
    <3> QED BY <1>1, <1>2, <1>7, <3>1, SeenFields
  <2> QED BY <1>0, <1>7, <2>1, <2>2, <2>3, <2>4, ServeOne
<1>8. CASE /\ x.cmd = "MODE"
           /\ Answered(c, rooms[c].list, Append(wire, ModeMsg(c)))
  <2>1. PICK m, list : m = ModeMsg(c) /\ list = rooms[c].list
    OBVIOUS
  <2>2. m \in Messages /\ m.cmd = "324" /\ m.chan = c /\ m.set = rooms[c].flag
    BY <1>3, <2>1 DEF ModeMsg
  <2>3. list \in NickList /\ (InRoom(c) <=> mine \in DOMAIN list)
    BY <1>2, <2>1
  <2>4. Seen(m, v[L]).lists[c] = IF mine \in DOMAIN list THEN list ELSE NoNicks
    <3>1. ListAfter(m, v[L], c) = v[L].lists[c]
      BY <2>2 DEF ListAfter
    <3> QED BY <1>1, <1>2, <2>1, <2>3, <3>1, SeenFields
  <2>5. Seen(m, v[L]).modes[c] = ModeName(rooms[c].flag)
    <3>1. ModesAfter(m, v[L], c) = ModeName(rooms[c].flag)
      BY <2>2 DEF ModesAfter, Starts
    <3> QED BY <1>1, <3>1, SeenFields
  <2> QED BY <1>0, <1>8, <2>1, <2>2, <2>3, <2>4, <2>5, ServeOne
<1>9. CASE /\ IF InRoom(c) THEN x.cmd = "JOIN" ELSE x.cmd = "PART"
           /\ Answered(c, rooms[c].list, wire)
  <2>1. PICK w, list : w = wire /\ list = rooms[c].list
    OBVIOUS
  <2>2. More(v, c, w, v) /\ list \in NickList /\ Answered(c, list, w)
    BY <1>2, <1>9, <2>1, NoMore
  <2>3. v[Len(w)].lists[c] = IF mine \in DOMAIN list THEN list ELSE NoNicks
    BY <1>2, <2>1
  <2>4. mine \in DOMAIN list =>
           Asked(w, v, c, channels[c].open, Pending(Tail(outq), c), rooms[c].flag)
    <3> SUFFICES ASSUME InRoom(c)
                 PROVE  Asked(wire, v, c, channels[c].open, Pending(Tail(outq), c), rooms[c].flag)
      BY <1>2, <2>1
    <3>1. Asked(wire, v, c, channels[c].open, Pending(outq, c), rooms[c].flag)
      BY <1>1, EndFacts
    <3>2. Pending(outq, c) => Pending(Tail(outq), c)
      BY <1>1, <1>9
    <3> QED BY <3>1, <3>2 DEF Asked
  <2> QED BY <1>0, <1>1, <2>2, <2>3, <2>4, AnswerStep
<1> QED BY <1>0, <1>4, <1>5, <1>6, <1>7, <1>8, <1>9, ServeCases

-----------------------------------------------------------------------------
(* What other users do.                                                    *)

LEMMA OthersStep ==
    ASSUME Typed, Registered, NEW m, UNCHANGED <<client, outq, intent>>, rooms' \in [Channel -> Room],
           \/ wire' = wire
           \/ m \in Messages /\ m.cmd # "001" /\ mine \in Nick /\ wire' = Append(wire, m),
           mine' = mine \/ (mine \in Nick /\ mine' \in Nick)
    PROVE  Typed' /\ Registered'
<1>1. wire \in Seq(Messages) /\ mine \in Person /\ mine' \in Person /\ outq' \in Seq(Command)
  BY DEF Typed, Person
<1>2. CASE wire' = wire
  <2>1. Typed'
    BY <1>1, <1>2, ServerTyped
  <2>2. Registered'
    BY <1>2, ChannelsAssumption DEF Registered, client
  <2> QED BY <2>1, <2>2
<1>3. CASE m \in Messages /\ m.cmd # "001" /\ mine \in Nick /\ wire' = Append(wire, m)
  <2>1. /\ wire' \in Seq(Messages) /\ Len(wire') = Len(wire) + 1 /\ Len(wire) \in Nat
        /\ \A i \in 1 .. Len(wire) : wire'[i] = wire[i]
        /\ wire'[Len(wire) + 1] = m
    BY <1>1, <1>3, AppendFacts
  <2>2. Typed'
    BY <1>1, <2>1, ServerTyped
  <2>3. conn' = conn /\ conn # "off" /\ mine' \in Nick
    BY <1>3, ChannelsAssumption DEF Registered, client
  <2>4. conn = "registering" => wire' # <<>> /\ wire'[1].cmd = "001"
    <3> SUFFICES ASSUME conn = "registering" PROVE wire' # <<>> /\ wire'[1].cmd = "001"
      OBVIOUS
    <3>1. wire # <<>> /\ wire[1].cmd = "001"
      BY DEF Registered
    <3>2. 1 \in 1 .. Len(wire)
      BY <1>1, <3>1, Members
    <3>3. Len(wire') # 0
      BY <2>1
    <3> QED BY <2>1, <3>1, <3>2, <3>3
  <2>5. ASSUME NEW i \in 1 .. Len(wire'), wire'[i].cmd = "001"
        PROVE  i = 1 /\ conn = "registering"
    <3>1. i # Len(wire) + 1
      BY <1>3, <2>1, <2>5
    <3>2. i \in 1 .. Len(wire)
      BY <2>1, <3>1
    <3> QED BY <2>1, <2>5, <3>2 DEF Registered
  <2>6. Registered'
    BY <2>3, <2>4, <2>5 DEF Registered
  <2> QED BY <2>2, <2>6
<1> QED BY <1>2, <1>3

\* In the room c the list becomes l and the flag f, which the message m says.
OneChanged(v, m, c, l, f) ==
    /\ c \in Channel /\ l \in NickList /\ f \in BOOLEAN
    /\ rooms' \in [Channel -> Room] /\ rooms'[c].list = l /\ rooms'[c].flag = f
    /\ \A d \in Channel \ {c} : rooms'[d] = rooms[d]
    /\ UNCHANGED <<client, outq, intent, mine>>
    /\ m \in Messages /\ m.cmd \in {"JOIN", "PART", "KICK", "MODE"} /\ m.chan = c
    /\ wire' = IF InRoom(c) THEN Append(wire, m) ELSE wire
    /\ mine \in DOMAIN l => InRoom(c)
    /\ InRoom(c) =>
          /\ ListAfter(m, v[Len(wire)], c) = IF mine \in DOMAIN l THEN l ELSE NoNicks
          /\ mine \in DOMAIN l =>
                /\ ~ (m.cmd = "JOIN" /\ m.nick = mine)
                /\ v[Len(wire)].modes[c] = ModeName(rooms[c].flag)
                      => ModesAfter(m, v[Len(wire)], c) = ModeName(f)

LEMMA OneChange ==
    ASSUME Typed, Registered, NEW v, Matches(v), NEW m, NEW c, NEW l, NEW f, OneChanged(v, m, c, l, f)
    PROVE  Faithful'
<1> DEFINE L == Len(wire)
<1>1. /\ c \in Channel /\ l \in NickList
      /\ rooms' \in [Channel -> Room] /\ rooms'[c].list = l /\ rooms'[c].flag = f
      /\ \A d \in Channel \ {c} : rooms'[d] = rooms[d]
      /\ UNCHANGED <<client, outq, intent, mine>>
      /\ m \in Messages /\ m.cmd \in {"JOIN", "PART", "KICK", "MODE"} /\ m.chan = c
      /\ wire' = IF InRoom(c) THEN Append(wire, m) ELSE wire
      /\ mine \in DOMAIN l => InRoom(c)
  BY DEF OneChanged
<1>2. InRoom(c) => mine \in Nick
  BY <1>1, RoomFacts
<1>3. Typed' /\ Registered'
  BY <1>1, <1>2, OthersStep
<1>4. \A d \in Channel : InRoom(d)' <=> IF d = c THEN mine \in DOMAIN l ELSE InRoom(d)
  BY <1>1 DEF InRoom
<1>5. CASE InRoom(c)
  <2>1. PICK s : s = v[L]
    OBVIOUS
  <2>2. /\ s.nick = mine
        /\ \A d \in Channel : s.lists[d] = IF InRoom(d) THEN rooms[d].list ELSE NoNicks
    BY <2>1, EndFacts
  <2>3. Seen(m, s).nick = mine'
    <3>1. NickAfter(m, s) = s.nick
      BY <1>1 DEF NickAfter
    <3> QED BY <1>1, <2>2, <3>1, SeenFields
  <2>4. ASSUME NEW d \in Channel, d # c
        PROVE  /\ Seen(m, s).lists[d] = IF InRoom(d)' THEN rooms'[d].list ELSE NoNicks
               /\ Seen(m, s).modes[d] = s.modes[d]
    <3>1. ListAfter(m, s, d) = s.lists[d]
      BY <1>1, <2>4 DEF ListAfter
    <3>2. ModesAfter(m, s, d) = s.modes[d]
      BY <1>1, <2>4 DEF ModesAfter, Starts
    <3>3. Seen(m, s).lists[d] = IF InRoom(d) THEN rooms[d].list ELSE NoNicks
      BY <2>2, <3>1, SeenFields
    <3>4. (InRoom(d)' <=> InRoom(d)) /\ rooms'[d] = rooms[d]
      BY <1>1, <1>4, <2>4
    <3>5. Seen(m, s).modes[d] = s.modes[d]
      BY <3>2, SeenFields
    <3> QED BY <3>3, <3>4, <3>5
  <2>5. Seen(m, s).lists[c] = IF InRoom(c)' THEN rooms'[c].list ELSE NoNicks
    <3>1. ListAfter(m, s, c) = IF mine \in DOMAIN l THEN l ELSE NoNicks
      BY <1>5, <2>1 DEF OneChanged
    <3>2. Seen(m, s).lists[c] = ListAfter(m, s, c)
      BY <1>1, SeenFields
    <3> QED BY <1>1, <1>4, <3>1, <3>2
  <2>6. ASSUME NEW d \in Channel, InRoom(d)'
        PROVE  /\ InRoom(d)
               /\ ~ (m.cmd = "JOIN" /\ m.chan = d /\ m.nick = s.nick)
               /\ s.modes[d] = ModeName(rooms[d].flag)
                     => Seen(m, s).modes[d] = ModeName(rooms'[d].flag)
    <3>1. CASE d = c
      <4>1. /\ ~ (m.cmd = "JOIN" /\ m.nick = mine)
            /\ s.modes[c] = ModeName(rooms[c].flag) => ModesAfter(m, s, c) = ModeName(f)
        BY <1>4, <1>5, <2>1, <2>6, <3>1 DEF OneChanged
      <4>2. Seen(m, s).modes[c] = ModesAfter(m, s, c)
        BY <1>1, SeenFields
      <4> QED BY <1>1, <1>5, <2>2, <3>1, <4>1, <4>2
    <3>2. CASE d # c
      BY <1>1, <1>4, <2>4, <2>6, <3>2
    <3> QED BY <3>1, <3>2
  <2>7. /\ wire' = Append(wire, m) /\ channels' = channels /\ outq' = outq
        /\ conn' = "on" => conn = "on" /\ nick' = nick
    BY <1>1, <1>5 DEF client
  <2>8. \A d \in Channel : Seen(m, s).lists[d] = IF InRoom(d)' THEN rooms'[d].list ELSE NoNicks
    BY <2>4, <2>5
  <2>9. Told(v, m)
    BY <1>1, <2>1, <2>3, <2>6, <2>7, <2>8, SameNoNicks DEF Told
  <2> QED BY <1>3, <2>9, ToldStep DEF Faithful
<1>6. CASE ~InRoom(c)
  <2>1. \A d \in Channel : InRoom(d)' <=> InRoom(d)
    BY <1>1, <1>4, <1>6
  <2>2. \A d \in Channel : InRoom(d) => rooms'[d] = rooms[d]
    BY <1>1, <1>6
  <2>3. Matches(v)'
    BY <1>1, <1>6, <2>1, <2>2, UntoldStep
  <2> QED BY <1>3, <2>3 DEF Faithful
<1> QED BY <1>5, <1>6

LEMMA StepOtherJoins ==
    ASSUME Typed, Registered, NEW v, Matches(v), NEW n \in Nick, NEW c \in Channel, OtherJoins(n, c)
    PROVE  Faithful'
<1>1. PICK list : list = rooms[c].list
  OBVIOUS
<1>2. list \in NickList /\ rooms \in [Channel -> Room] /\ rooms[c].flag \in BOOLEAN
  BY <1>1, RoomFacts DEF Typed
<1>3. PICK one : one = Single(n, list = NoNicks)
  OBVIOUS
<1>4. one \in NickList /\ DOMAIN one = {n}
  <2>1. (list = NoNicks) \in BOOLEAN
    OBVIOUS
  <2> QED BY <1>3, <2>1, SingleFacts
<1>5. PICK l : l = Over(one, list)
  OBVIOUS
<1>6. l \in NickList /\ DOMAIN l = {n} \cup DOMAIN list
  BY <1>2, <1>4, <1>5, OverFacts
<1>7. PICK m : m = [cmd |-> "JOIN", nick |-> n, chan |-> c]
  OBVIOUS
<1>8. m \in Messages /\ m.cmd = "JOIN" /\ m.nick = n /\ m.chan = c
  BY <1>7 DEF Messages
<1>9. /\ n # mine /\ n \notin DOMAIN list
      /\ rooms' = [rooms EXCEPT ![c].list = l]
      /\ wire' = IF InRoom(c) THEN Append(wire, m) ELSE wire
      /\ UNCHANGED <<client, outq, intent, mine>>
  BY <1>1, <1>3, <1>5, <1>7 DEF OtherJoins, Others
<1>10. /\ rooms' \in [Channel -> Room] /\ rooms'[c].list = l /\ rooms'[c].flag = rooms[c].flag
       /\ \A d \in Channel \ {c} : rooms'[d] = rooms[d]
  BY <1>2, <1>6, <1>9 DEF Room
<1>11. mine \in DOMAIN l => InRoom(c)
  BY <1>1, <1>6, <1>9 DEF InRoom
<1>12. ASSUME InRoom(c)
       PROVE  /\ ListAfter(m, v[Len(wire)], c) = IF mine \in DOMAIN l THEN l ELSE NoNicks
              /\ ModesAfter(m, v[Len(wire)], c) = v[Len(wire)].modes[c]
  <2>1. mine \in DOMAIN list /\ list # NoNicks
    BY <1>1, <1>2, <1>12, ListFacts DEF InRoom
  <2>2. one = Single(n, FALSE)
    <3>1. (list = NoNicks) = FALSE
      BY <2>1
    <3> QED BY <1>3, <3>1
  <2>3. v[Len(wire)].nick = mine /\ v[Len(wire)].lists[c] = list
    BY <1>1, <1>12, EndFacts
  <2>4. ListAfter(m, v[Len(wire)], c) = l
    BY <1>5, <1>8, <1>9, <2>2, <2>3 DEF ListAfter
  <2>5. ModesAfter(m, v[Len(wire)], c) = v[Len(wire)].modes[c]
    BY <1>8, <1>9, <2>1, <2>3 DEF ModesAfter, Starts
  <2> QED BY <1>6, <2>1, <2>4, <2>5
<1>13. OneChanged(v, m, c, l, rooms[c].flag)
  BY <1>2, <1>6, <1>8, <1>9, <1>10, <1>11, <1>12 DEF OneChanged
<1> QED BY <1>13, OneChange

LEMMA StepRemoved ==
    ASSUME Typed, Registered, NEW v, Matches(v), NEW n \in Nick, NEW c \in Channel,
           NEW cmd \in {"PART", "KICK"}, Removed(n, c, cmd)
    PROVE  Faithful'
<1>1. PICK list : list = rooms[c].list
  OBVIOUS
<1>2. list \in NickList /\ rooms \in [Channel -> Room] /\ rooms[c].flag \in BOOLEAN
  BY <1>1, RoomFacts DEF Typed
<1>3. PICK l : l = Without(list, n)
  OBVIOUS
<1>4. l \in NickList /\ DOMAIN l = DOMAIN list \ {n}
  BY <1>2, <1>3, WithoutFacts
<1>5. PICK m : m = [cmd |-> cmd, nick |-> n, chan |-> c]
  OBVIOUS
<1>6. m \in Messages /\ m.cmd = cmd /\ m.nick = n /\ m.chan = c
  BY <1>5 DEF Messages
<1>7. /\ rooms' = [rooms EXCEPT ![c].list = l]
      /\ wire' = IF InRoom(c) THEN Append(wire, m) ELSE wire
      /\ UNCHANGED <<client, outq, intent, mine>>
  BY <1>1, <1>3, <1>5 DEF Removed, Others
<1>8. /\ rooms' \in [Channel -> Room] /\ rooms'[c].list = l /\ rooms'[c].flag = rooms[c].flag
      /\ \A d \in Channel \ {c} : rooms'[d] = rooms[d]
  BY <1>2, <1>4, <1>7 DEF Room
<1>9. mine \in DOMAIN l => InRoom(c)
  BY <1>1, <1>4 DEF InRoom
<1>10. ASSUME InRoom(c)
       PROVE  /\ ListAfter(m, v[Len(wire)], c) = IF mine \in DOMAIN l THEN l ELSE NoNicks
              /\ ModesAfter(m, v[Len(wire)], c) = v[Len(wire)].modes[c]
  <2>1. v[Len(wire)].nick = mine /\ v[Len(wire)].lists[c] = list /\ mine \in DOMAIN list
    BY <1>1, <1>10, EndFacts DEF InRoom
  <2>2. ListAfter(m, v[Len(wire)], c) = IF n = mine THEN NoNicks ELSE l
    BY <1>3, <1>6, <2>1 DEF ListAfter
  <2>3. ModesAfter(m, v[Len(wire)], c) = v[Len(wire)].modes[c]
    BY <1>6 DEF ModesAfter, Starts
  <2> QED BY <1>4, <2>1, <2>2, <2>3
<1>11. OneChanged(v, m, c, l, rooms[c].flag)
  BY <1>2, <1>4, <1>6, <1>7, <1>8, <1>9, <1>10 DEF OneChanged
<1> QED BY <1>11, OneChange

LEMMA StepOp ==
    ASSUME Typed, Registered, NEW v, Matches(v), NEW n \in Nick, NEW c \in Channel,
           NEW set \in BOOLEAN, Op(n, c, set)
    PROVE  Faithful'
<1>1. PICK list : list = rooms[c].list
  OBVIOUS
<1>2. list \in NickList /\ rooms \in [Channel -> Room] /\ rooms[c].flag \in BOOLEAN /\ n \in DOMAIN list
  BY <1>1, RoomFacts DEF Typed, Op
<1>3. PICK l : l = [list EXCEPT ![n] = set]
  OBVIOUS
<1>4. l \in NickList /\ DOMAIN l = DOMAIN list
  BY <1>2, <1>3, ExceptFacts
<1>5. PICK m : m = [cmd |-> "MODE", nick |-> n, chan |-> c, set |-> set]
  OBVIOUS
<1>6. m \in Messages /\ m.cmd = "MODE" /\ m.nick = n /\ m.chan = c /\ m.set = set
  BY <1>5 DEF Messages, Person
<1>7. /\ rooms' = [rooms EXCEPT ![c].list = l]
      /\ wire' = IF InRoom(c) THEN Append(wire, m) ELSE wire
      /\ UNCHANGED <<client, outq, intent, mine>>
  <2>1. rooms' = [rooms EXCEPT ![c].list[n] = set]
    BY DEF Op
  <2>2. [rooms EXCEPT ![c].list[n] = set] = [rooms EXCEPT ![c].list = l]
    BY <1>1, <1>3
  <2> QED BY <1>5, <2>1, <2>2 DEF Op, Others
<1>8. /\ rooms' \in [Channel -> Room] /\ rooms'[c].list = l /\ rooms'[c].flag = rooms[c].flag
      /\ \A d \in Channel \ {c} : rooms'[d] = rooms[d]
  BY <1>2, <1>4, <1>7 DEF Room
<1>9. mine \in DOMAIN l => InRoom(c)
  BY <1>1, <1>4 DEF InRoom
<1>10. ASSUME InRoom(c)
       PROVE  /\ ListAfter(m, v[Len(wire)], c) = IF mine \in DOMAIN l THEN l ELSE NoNicks
              /\ ModesAfter(m, v[Len(wire)], c) = v[Len(wire)].modes[c]
  <2>1. v[Len(wire)].lists[c] = list /\ mine \in DOMAIN list /\ n # NoNick
    BY <1>1, <1>10, EndFacts, ChannelsAssumption DEF InRoom
  <2>2. ListAfter(m, v[Len(wire)], c) = l
    BY <1>2, <1>3, <1>6, <2>1 DEF ListAfter
  <2>3. ModesAfter(m, v[Len(wire)], c) = v[Len(wire)].modes[c]
    BY <1>6, <2>1 DEF ModesAfter, Starts
  <2> QED BY <1>4, <2>1, <2>2, <2>3
<1>11. OneChanged(v, m, c, l, rooms[c].flag)
  BY <1>2, <1>4, <1>6, <1>7, <1>8, <1>9, <1>10 DEF OneChanged
<1> QED BY <1>11, OneChange

LEMMA StepFlag ==
    ASSUME Typed, Registered, NEW v, Matches(v), NEW c \in Channel, Flag(c)
    PROVE  Faithful'
<1>1. PICK list : list = rooms[c].list
  OBVIOUS
<1>2. list \in NickList /\ rooms \in [Channel -> Room] /\ rooms[c].flag \in BOOLEAN
  BY <1>1, RoomFacts DEF Typed
<1>3. PICK f \in BOOLEAN : f = ~rooms[c].flag
  BY <1>2
<1>4. NoNick \notin DOMAIN list
  BY <1>2, ListFacts, ChannelsAssumption
<1>5. PICK m : m = [cmd |-> "MODE", nick |-> NoNick, chan |-> c, set |-> ~rooms[c].flag]
  OBVIOUS
<1>6. m \in Messages /\ m.cmd = "MODE" /\ m.nick = NoNick /\ m.chan = c /\ m.set = f
  BY <1>2, <1>3, <1>5 DEF Messages, Person
<1>7. /\ rooms' = [rooms EXCEPT ![c].flag = f]
      /\ wire' = IF InRoom(c) THEN Append(wire, m) ELSE wire
      /\ UNCHANGED <<client, outq, intent, mine>>
  <2>1. rooms' = [rooms EXCEPT ![c].flag = ~rooms[c].flag]
    BY DEF Flag
  <2>2. rooms' = [rooms EXCEPT ![c].flag = f]
    BY <1>3, <2>1
  <2> QED BY <1>5, <2>2 DEF Flag, Others
<1>8. /\ rooms' \in [Channel -> Room] /\ rooms'[c].list = list /\ rooms'[c].flag = f
      /\ \A d \in Channel \ {c} : rooms'[d] = rooms[d]
  BY <1>1, <1>2, <1>7 DEF Room
<1>9. mine \in DOMAIN list <=> InRoom(c)
  BY <1>1 DEF InRoom
<1>10. ASSUME InRoom(c)
       PROVE  /\ ListAfter(m, v[Len(wire)], c) = IF mine \in DOMAIN list THEN list ELSE NoNicks
              /\ ModesAfter(m, v[Len(wire)], c) = ModeName(f)
  <2>1. v[Len(wire)].lists[c] = list
    BY <1>1, <1>10, EndFacts
  <2>2. ListAfter(m, v[Len(wire)], c) = list
    BY <1>4, <1>6, <2>1 DEF ListAfter
  <2>3. ModesAfter(m, v[Len(wire)], c) = ModeName(f)
    <3>1. ModesAfter(m, v[Len(wire)], c) = ModeName(m.set)
      BY <1>6 DEF ModesAfter, Starts
    <3>2. ModeName(m.set) = ModeName(f)
      BY <1>6 DEF ModeName
    <3> QED BY <3>1, <3>2
  <2> QED BY <1>9, <1>10, <2>2, <2>3
<1>11. OneChanged(v, m, c, list, f)
  BY <1>2, <1>6, <1>7, <1>8, <1>9, <1>10 DEF OneChanged
<1> QED BY <1>11, OneChange

LEMMA StepQuits ==
    ASSUME Typed, Registered, NEW v, Matches(v), NEW n \in Nick, Quits(n)
    PROVE  Faithful'
<1> DEFINE told == \E c \in Channel : InRoom(c) /\ n \in DOMAIN rooms[c].list
<1>1. PICK m : m = [cmd |-> "QUIT", nick |-> n]
  OBVIOUS
<1>2. m \in Messages /\ m.cmd = "QUIT" /\ m.nick = n
  BY <1>1 DEF Messages
<1>3. /\ n # mine
      /\ rooms' = [c \in Channel |-> [rooms[c] EXCEPT !.list = Without(@, n)]]
      /\ wire' = IF told THEN Append(wire, m) ELSE wire
      /\ UNCHANGED <<client, outq, intent, mine>>
  BY <1>1 DEF Quits, Others
<1>4. ASSUME NEW c \in Channel
      PROVE  /\ rooms'[c] \in Room
             /\ rooms'[c].list = Without(rooms[c].list, n) /\ rooms'[c].flag = rooms[c].flag
             /\ InRoom(c)' <=> InRoom(c)
             /\ n \notin DOMAIN rooms[c].list => rooms'[c] = rooms[c]
  <2>1. PICK r : r = rooms[c]
    OBVIOUS
  <2>2. r \in Room /\ r.list \in NickList
    BY <2>1, RoomFacts
  <2>3. PICK l : l = Without(r.list, n)
    OBVIOUS
  <2>4. /\ l \in NickList /\ DOMAIN l = DOMAIN r.list \ {n}
        /\ n \notin DOMAIN r.list => l = r.list
    BY <2>2, <2>3, WithoutFacts
  <2>5. rooms'[c] = [r EXCEPT !.list = l]
    BY <1>3, <2>1, <2>3
  <2>6. rooms'[c] \in Room /\ rooms'[c].list = l /\ rooms'[c].flag = r.flag
    BY <2>2, <2>4, <2>5 DEF Room
  <2>7. l = r.list => [r EXCEPT !.list = l] = r
    BY <2>2 DEF Room
  <2> QED BY <1>3, <2>1, <2>3, <2>4, <2>5, <2>6, <2>7 DEF InRoom
<1>5. rooms' \in [Channel -> Room]
  <2>1. rooms' = [c \in Channel |-> rooms'[c]]
    BY <1>3
  <2> QED BY <1>4, <2>1
<1>6. told => mine \in Nick
  BY RoomFacts
<1>7. Typed' /\ Registered'
  <2>1. mine' = mine
    BY <1>3
  <2>2. CASE told
    <3>1. wire' = Append(wire, m) /\ m.cmd # "001"
      BY <1>2, <1>3, <2>2
    <3> QED BY <1>2, <1>3, <1>5, <1>6, <2>1, <2>2, <3>1, OthersStep
  <2>3. CASE ~told
    <3>1. wire' = wire
      BY <1>3, <2>3
    <3> QED BY <1>3, <1>5, <2>1, <3>1, OthersStep
  <2> QED BY <2>2, <2>3
<1>8. CASE told
  <2>1. PICK s : s = v[Len(wire)]
    OBVIOUS
  <2>2. /\ s.nick = mine /\ s \in View
        /\ \A c \in Channel : s.lists[c] = IF InRoom(c) THEN rooms[c].list ELSE NoNicks
    BY <2>1, EndFacts
  <2>3. Seen(m, s).nick = mine'
    <3>1. NickAfter(m, s) = s.nick
      BY <1>2 DEF NickAfter
    <3> QED BY <1>3, <2>2, <3>1, SeenFields
  <2>4. ASSUME NEW c \in Channel
        PROVE  /\ Seen(m, s).lists[c] = IF InRoom(c)' THEN rooms'[c].list ELSE NoNicks
               /\ Seen(m, s).modes[c] = s.modes[c]
    <3>1. ListAfter(m, s, c) = Without(s.lists[c], n)
      BY <1>2 DEF ListAfter
    <3>2. ModesAfter(m, s, c) = s.modes[c]
      BY <1>2 DEF ModesAfter, Starts
    <3>3. Without(NoNicks, n) = NoNicks
      BY ListFacts, WithoutFacts
    <3>4. Seen(m, s).lists[c] = Without(s.lists[c], n) /\ Seen(m, s).modes[c] = s.modes[c]
      BY <3>1, <3>2, SeenFields
    <3>5. CASE InRoom(c)
      <4>1. s.lists[c] = rooms[c].list
        BY <2>2, <3>5
      <4> QED BY <1>4, <3>4, <3>5, <4>1
    <3>6. CASE ~InRoom(c)
      <4>1. s.lists[c] = NoNicks
        BY <2>2, <3>6
      <4> QED BY <1>4, <3>3, <3>4, <3>6, <4>1
    <3> QED BY <3>5, <3>6
  <2>5. ASSUME NEW c \in Channel, InRoom(c)'
        PROVE  /\ InRoom(c)
               /\ ~ (m.cmd = "JOIN" /\ m.chan = c /\ m.nick = s.nick)
               /\ s.modes[c] = ModeName(rooms[c].flag)
                     => Seen(m, s).modes[c] = ModeName(rooms'[c].flag)
    BY <1>2, <1>4, <2>4, <2>5
  <2>6. /\ wire' = Append(wire, m) /\ channels' = channels /\ outq' = outq
        /\ conn' = "on" => conn = "on" /\ nick' = nick
    BY <1>3, <1>8 DEF client
  <2>7. Told(v, m)
    BY <1>2, <2>1, <2>3, <2>4, <2>5, <2>6, SameNoNicks DEF Told
  <2> QED BY <1>7, <2>7, ToldStep DEF Faithful
<1>9. CASE ~told
  <2>1. \A c \in Channel : InRoom(c)' <=> InRoom(c)
    BY <1>4
  <2>2. \A c \in Channel : InRoom(c) => rooms'[c] = rooms[c]
    BY <1>4, <1>9
  <2>3. Matches(v)'
    BY <1>3, <1>9, <2>1, <2>2, UntoldStep
  <2> QED BY <1>7, <2>3 DEF Faithful
<1> QED BY <1>8, <1>9

LEMMA StepRenamed ==
    ASSUME Typed, Registered, NEW v, Matches(v), NEW n \in Nick, NEW new \in Nick, Renamed(n, new)
    PROVE  Faithful'
<1> DEFINE told == n = mine \/ \E c \in Channel : InRoom(c) /\ n \in DOMAIN rooms[c].list
<1>1. PICK m : m = [cmd |-> "NICK", nick |-> n, new |-> new]
  OBVIOUS
<1>2. m \in Messages /\ m.cmd = "NICK" /\ m.nick = n /\ m.new = new
  BY <1>1 DEF Messages
<1>3. /\ new # mine /\ \A c \in Channel : new \notin DOMAIN rooms[c].list
      /\ mine' = IF n = mine THEN new ELSE mine
      /\ rooms' = [c \in Channel |-> [rooms[c] EXCEPT !.list = NickChanged(@, n, new)]]
      /\ wire' = IF told THEN Append(wire, m) ELSE wire
      /\ UNCHANGED <<client, outq, intent>>
  BY <1>1 DEF Renamed, Others, Users
<1>4. ASSUME NEW c \in Channel
      PROVE  /\ rooms'[c] \in Room
             /\ rooms'[c].list = NickChanged(rooms[c].list, n, new) /\ rooms'[c].flag = rooms[c].flag
             /\ InRoom(c)' <=> InRoom(c)
             /\ n \notin DOMAIN rooms[c].list => rooms'[c] = rooms[c]
  <2>1. PICK r : r = rooms[c]
    OBVIOUS
  <2>2. r \in Room /\ r.list \in NickList
    BY <2>1, RoomFacts
  <2>3. PICK l : l = NickChanged(r.list, n, new)
    OBVIOUS
  <2>4. /\ l \in NickList
        /\ n \in DOMAIN r.list => DOMAIN l = (DOMAIN r.list \ {n}) \cup {new}
        /\ n \notin DOMAIN r.list => l = r.list
    BY <2>2, <2>3, ChangedFacts
  <2>5. rooms'[c] = [r EXCEPT !.list = l]
    BY <1>3, <2>1, <2>3
  <2>6. rooms'[c] \in Room /\ rooms'[c].list = l /\ rooms'[c].flag = r.flag
    BY <2>2, <2>4, <2>5 DEF Room
  <2>7. l = r.list => [r EXCEPT !.list = l] = r
    BY <2>2 DEF Room
  <2>8. mine' \in DOMAIN l <=> mine \in DOMAIN r.list
    <3>1. new \notin DOMAIN r.list
      BY <1>3, <2>1
    <3> QED BY <1>3, <2>4, <3>1
  <2>9. InRoom(c)' <=> InRoom(c)
    BY <2>1, <2>6, <2>8 DEF InRoom
  <2> QED BY <2>1, <2>3, <2>4, <2>5, <2>6, <2>7, <2>9
<1>5. rooms' \in [Channel -> Room]
  <2>1. rooms' = [c \in Channel |-> rooms'[c]]
    BY <1>3
  <2> QED BY <1>4, <2>1
<1>6. told => mine \in Nick
  BY RoomFacts
<1>7. Typed' /\ Registered'
  <2>1. mine' = mine \/ (mine \in Nick /\ mine' \in Nick)
    BY <1>3
  <2>2. CASE told
    <3>1. wire' = Append(wire, m) /\ m.cmd # "001"
      BY <1>2, <1>3, <2>2
    <3> QED BY <1>2, <1>3, <1>5, <1>6, <2>1, <2>2, <3>1, OthersStep
  <2>3. CASE ~told
    <3>1. wire' = wire
      BY <1>3, <2>3
    <3> QED BY <1>3, <1>5, <2>1, <3>1, OthersStep
  <2> QED BY <2>2, <2>3
<1>8. CASE told
  <2>1. PICK s : s = v[Len(wire)]
    OBVIOUS
  <2>2. /\ s.nick = mine /\ s \in View
        /\ \A c \in Channel : s.lists[c] = IF InRoom(c) THEN rooms[c].list ELSE NoNicks
    BY <2>1, EndFacts
  <2>3. Seen(m, s).nick = mine'
    <3>1. NickAfter(m, s) = IF n = mine THEN new ELSE s.nick
      BY <1>2, <2>2 DEF NickAfter
    <3> QED BY <1>3, <2>2, <3>1, SeenFields
  <2>4. ASSUME NEW c \in Channel
        PROVE  /\ Seen(m, s).lists[c] = IF InRoom(c)' THEN rooms'[c].list ELSE NoNicks
               /\ Seen(m, s).modes[c] = s.modes[c]
    <3>1. ListAfter(m, s, c) = NickChanged(s.lists[c], n, new)
      BY <1>2 DEF ListAfter
    <3>2. ModesAfter(m, s, c) = s.modes[c]
      BY <1>2 DEF ModesAfter, Starts
    <3>3. NickChanged(NoNicks, n, new) = NoNicks
      BY ListFacts, ChangedFacts
    <3>4. Seen(m, s).lists[c] = NickChanged(s.lists[c], n, new) /\ Seen(m, s).modes[c] = s.modes[c]
      BY <3>1, <3>2, SeenFields
    <3>5. CASE InRoom(c)
      <4>1. s.lists[c] = rooms[c].list
        BY <2>2, <3>5
      <4> QED BY <1>4, <3>4, <3>5, <4>1
    <3>6. CASE ~InRoom(c)
      <4>1. s.lists[c] = NoNicks
        BY <2>2, <3>6
      <4> QED BY <1>4, <3>3, <3>4, <3>6, <4>1
    <3> QED BY <3>5, <3>6
  <2>5. ASSUME NEW c \in Channel, InRoom(c)'
        PROVE  /\ InRoom(c)
               /\ ~ (m.cmd = "JOIN" /\ m.chan = c /\ m.nick = s.nick)
               /\ s.modes[c] = ModeName(rooms[c].flag)
                     => Seen(m, s).modes[c] = ModeName(rooms'[c].flag)
    BY <1>2, <1>4, <2>4, <2>5
  <2>6. /\ wire' = Append(wire, m) /\ channels' = channels /\ outq' = outq
        /\ conn' = "on" => conn = "on" /\ nick' = nick
    BY <1>3, <1>8 DEF client
  <2>7. Told(v, m)
    BY <1>2, <2>1, <2>3, <2>4, <2>5, <2>6, SameNoNicks DEF Told
  <2> QED BY <1>7, <2>7, ToldStep DEF Faithful
<1>9. CASE ~told
  <2>1. \A c \in Channel : InRoom(c)' <=> InRoom(c)
    BY <1>4
  <2>2. \A c \in Channel : InRoom(c) => rooms'[c] = rooms[c]
    BY <1>4, <1>9
  <2>3. Matches(v)'
    <3>1. mine' = mine
      BY <1>3, <1>9
    <3> QED BY <1>3, <1>9, <2>1, <2>2, <3>1, UntoldStep
  <2> QED BY <1>7, <2>3 DEF Faithful
<1> QED BY <1>8, <1>9

-----------------------------------------------------------------------------
(* The theorems.                                                           *)

LEMMA InitFaithful ==
    ASSUME Init
    PROVE  Faithful
<1>1. /\ conn = "off" /\ nick = NoNick /\ mine = NoNick /\ outq = <<>> /\ wire = <<>>
      /\ channels = [c \in Channel |-> NoChannel]
      /\ timers = [c \in Channel |-> 0] /\ intent = [c \in Channel |-> "out"]
  BY DEF Init
<1>2. PICK n \in Nick : rooms = [c \in Channel |-> [list |-> Single(n, TRUE), flag |-> FALSE]]
  BY DEF Init
<1>3. Single(n, TRUE) \in NickList /\ DOMAIN Single(n, TRUE) = {n}
  BY SingleFacts
<1>4. rooms \in [Channel -> Room] /\ \A c \in Channel : ~InRoom(c)
  <2>1. NoNick # n
    BY ChannelsAssumption
  <2> QED BY <1>1, <1>2, <1>3, <2>1 DEF Room, InRoom
<1>5. Typed
  <2>1. channels \in [Channel -> Buffer] /\ \A c \in Channel : channels[c] = NoChannel
    BY <1>1, NoChannelFacts
  <2> QED BY <1>1, <1>4, <2>1, NoChannelFacts DEF Typed, Person
<1>6. Registered
  BY <1>1 DEF Registered
<1>7. PICK s : s = [nick  |-> NoNick, lists |-> [c \in Channel |-> NoNicks],
                    modes |-> [c \in Channel |-> "unknown"],
                    named |-> [c \in Channel |-> FALSE]]
  OBVIOUS
<1>8. s \in View
  BY <1>7, ListFacts DEF View, Person, Mode
<1>9. PICK u : u = [k \in {0} |-> s]
  OBVIOUS
<1>10. u[0] = s /\ u \in [0 .. 0 -> View] /\ Len(wire) = 0
  <2>1. 0 .. 0 = {0}
    OBVIOUS
  <2> QED BY <1>1, <1>8, <1>9, <2>1
<1>11. Chain(wire, u)
  BY <1>10 DEF Chain
<1>12. ClientEnd(u)
  BY <1>1, NoChannelFacts DEF ClientEnd
<1>13. ServerEnd(u)
  BY <1>1, <1>4, <1>7, <1>10 DEF ServerEnd
<1>14. ModesAsked(u)
  BY <1>4 DEF ModesAsked
<1> QED BY <1>5, <1>6, <1>11, <1>12, <1>13, <1>14 DEF Faithful, Matches

LEMMA NextFaithful ==
    ASSUME Faithful, [Next]_vars
    PROVE  Faithful'
<1>0. Typed /\ Registered
  BY DEF Faithful
<1>v. PICK v : Matches(v)
  BY DEF Faithful
<1>1. CASE User
  BY <1>0, <1>v, <1>1, StepUser
<1>2. CASE Get
  <2>1. CASE Get001
    BY <1>0, <1>v, <2>1, StepGet001
  <2>2. CASE GetJoin
    BY <1>0, <1>v, <2>2, StepGetJoin
  <2>3. CASE GetNick
    BY <1>0, <1>v, <2>3, StepGetNick
  <2>4. CASE GetQuit
    BY <1>0, <1>v, <2>4, StepGetQuit
  <2>5. CASE GetMode
    BY <1>0, <1>v, <2>5, StepGetMode
  <2>6. CASE Get324
    BY <1>0, <1>v, <2>6, StepGet324
  <2>7. CASE Get353
    BY <1>0, <1>v, <2>7, StepGet353
  <2>8. CASE Get366
    BY <1>0, <1>v, <2>8, StepGet366
  <2>9. ASSUME NEW closes \in BOOLEAN, GetPart(closes)
        PROVE  Faithful'
    BY <1>0, <1>v, <2>9, StepGetPart
  <2>10. ASSUME NEW autorejoin \in AutorejoinModes, GetKick(autorejoin)
         PROVE  Faithful'
    BY <1>0, <1>v, <2>10, StepGetKick
  <2> QED BY <1>2, <2>1, <2>2, <2>3, <2>4, <2>5, <2>6, <2>7, <2>8, <2>9, <2>10 DEF Get
<1>3. CASE OtherUsers
  <2>1. ASSUME NEW n \in Nick, NEW c \in Channel, OtherJoins(n, c)
        PROVE  Faithful'
    BY <1>0, <1>v, <2>1, StepOtherJoins
  <2>2. ASSUME NEW n \in Nick, NEW c \in Channel, NEW cmd \in {"PART", "KICK"}, Removed(n, c, cmd)
        PROVE  Faithful'
    BY <1>0, <1>v, <2>2, StepRemoved
  <2>3. ASSUME NEW n \in Nick, NEW c \in Channel, NEW set \in BOOLEAN, Op(n, c, set)
        PROVE  Faithful'
    BY <1>0, <1>v, <2>3, StepOp
  <2>4. ASSUME NEW n \in Nick, NEW new \in Nick, Renamed(n, new)
        PROVE  Faithful'
    BY <1>0, <1>v, <2>4, StepRenamed
  <2>5. ASSUME NEW n \in Nick, Quits(n)
        PROVE  Faithful'
    BY <1>0, <1>v, <2>5, StepQuits
  <2>6. ASSUME NEW c \in Channel, Flag(c)
        PROVE  Faithful'
    BY <1>0, <1>v, <2>6, StepFlag
  <2> QED BY <1>3, <2>1, <2>2, <2>3, <2>4, <2>5, <2>6 DEF OtherUsers
<1>4. CASE Serve
  BY <1>0, <1>v, <1>4, StepServe
<1>5. CASE Connect
  BY <1>0, <1>v, <1>5, StepConnect
<1>6. CASE Drop
  BY <1>0, <1>v, <1>6, StepDrop
<1>7. ASSUME NEW c \in Channel, AutorejoinCb(c)
      PROVE  Faithful'
  BY <1>0, <1>v, <1>7, StepAutorejoin
<1>8. CASE UNCHANGED vars
  <2>1. UNCHANGED <<client, outq, wire, mine, rooms, intent>>
    BY <1>8 DEF vars, server
  <2>2. \A c \in Channel : InRoom(c)' <=> InRoom(c)
    BY <2>1 DEF InRoom
  <2>3. Matches(v)'
    BY <1>0, <1>v, <2>1, <2>2, UntoldStep
  <2>4. Typed'
    BY <1>0, <2>1, SameNoNicks DEF Typed, client
  <2>5. Registered'
    BY <1>0, <2>1 DEF Registered, client
  <2> QED BY <2>3, <2>4, <2>5 DEF Faithful
<1> QED BY <1>1, <1>2, <1>3, <1>4, <1>5, <1>6, <1>7, <1>8 DEF Next

LEMMA TypedIsTypeOK ==
    ASSUME Typed
    PROVE  TypeOK
<1>1. {nick, mine} \subseteq Nick \cup {NoNick} /\ conn \in {"off", "registering", "on"}
  BY DEF Typed, Person
<1>2. ASSUME NEW c \in Channel
      PROVE  /\ channels[c].modes \in {"unknown", "set", "unset"}
             /\ DOMAIN channels[c].nicks \subseteq Nick
             /\ conn # "on" => channels[c].nicks = NoNicks
             /\ channels[c].hook_autorejoin => timers[c] > 0
             /\ intent[c] \in {"in", "out", "any"}
  <2>1. channels[c].nicks \in NickList /\ channels[c].modes \in Mode
    BY ChannelFacts
  <2>2. DOMAIN channels[c].nicks \subseteq Nick
    BY <2>1, ListFacts
  <2> QED BY <2>1, <2>2 DEF Typed, Mode
<1> QED BY <1>1, <1>2 DEF TypeOK

\* With nothing on its way there is one view, the client's and the server's.
LEMMA FaithfulIsTrue ==
    ASSUME Faithful
    PROVE  ChannelsAreTheServers
<1>0. Typed
  BY DEF Faithful
<1>v. PICK v : Matches(v)
  BY DEF Faithful
<1>1. TypeOK
  BY <1>0, TypedIsTypeOK
<1>2. ASSUME conn = "on", wire = <<>>
      PROVE  /\ Len(wire) = 0 /\ nick = mine
             /\ \A c \in Channel : channels[c].open =>
                   /\ channels[c].nicks = IF InRoom(c) THEN rooms[c].list ELSE NoNicks
                   /\ channels[c].modes = v[0].modes[c]
  <2>1. Len(wire) = 0
    BY <1>2
  <2>2. v[0].nick = nick /\ v[Len(wire)].nick = mine
    BY <1>v, <1>2 DEF Matches, ClientEnd, ServerEnd
  <2>3. ASSUME NEW c \in Channel, channels[c].open
        PROVE  /\ channels[c].nicks = IF InRoom(c) THEN rooms[c].list ELSE NoNicks
               /\ channels[c].modes = v[0].modes[c]
    <3>1. /\ channels[c].nicks = v[0].lists[c] /\ channels[c].modes = v[0].modes[c]
          /\ v[Len(wire)].lists[c] = IF InRoom(c) THEN rooms[c].list ELSE NoNicks
      BY <1>v, <2>3 DEF Matches, ClientEnd, ServerEnd
    <3> QED BY <2>1, <3>1
  <2> QED BY <2>1, <2>2, <2>3
<1>3. ListIsTheServers
  BY <1>2 DEF ListIsTheServers
<1>4. ASSUME conn = "on", wire = <<>>, outq = <<>>, NEW c \in Channel, channels[c].open, InRoom(c)
      PROVE  channels[c].modes = ModeName(rooms[c].flag)
  <2>1. Asked(wire, v, c, channels[c].open, Pending(outq, c), rooms[c].flag)
    BY <1>v, <1>4 DEF Matches, ModesAsked
  <2>2. Len(wire) = 0 /\ channels[c].modes = v[0].modes[c] /\ Len(outq) = 0
    BY <1>2, <1>4
  <2>3. ~Pending(outq, c) /\ ~NamesEnd(wire, v, c, 0)
    BY <2>2 DEF Pending, NamesEnd
  <2>4. 0 \in 0 .. Len(wire)
    BY <2>2
  <2>5. v[Len(wire)].modes[c] = ModeName(rooms[c].flag)
    BY <1>4, <2>1, <2>3, <2>4 DEF Asked
  <2> QED BY <2>2, <2>5
<1>5. ModesAreTheServers
  BY <1>4 DEF ModesAreTheServers, ModeName
<1> QED BY <1>1, <1>3, <1>5 DEF ChannelsAreTheServers

\* In every reachable state there are views that lead, message by message, from
\* what the client shows to what the server has.
THEOREM AlwaysFaithful == Spec => []Faithful
BY InitFaithful, NextFaithful, PTL DEF Spec

\* Every variable has its type, the lists are empty while the client is not
\* connected, and a channel waiting to be joined again has its timer
\* (irc_server_disconnect, irc_channel_autorejoin_cb).
THEOREM TypeCorrect == Spec => []TypeOK
<1>1. Faithful => TypeOK
  BY TypedIsTypeOK DEF Faithful
<1> QED BY <1>1, AlwaysFaithful, PTL

\* For any channels, nicks and bounds, and any order of commands, messages,
\* answers, timers and lost connections: once all was read, the nick, the nick
\* lists and their ops are the server's, and once all was answered the modes
\* are too (irc_protocol_cb_join, _part, _kick, _nick, _quit, _mode, _324, _353,
\* _366, irc_server_disconnect).
THEOREM ChannelsAlwaysTheServers == Spec => []ChannelsAreTheServers
BY FaithfulIsTrue, AlwaysFaithful, PTL

-----------------------------------------------------------------------------
(* Whether the client is on a channel, as far as what is on its way tells.  *)

Standing == [nick : Person, in : BOOLEAN]

\* The message m is about the client itself on the channel c.
Own(m, s, c, cmds) == m.cmd \in cmds /\ m.chan = c /\ m.nick = s.nick

After(m, s, c) ==
    [nick |-> NickAfter(m, s),
     in   |-> (s.in \/ Own(m, s, c, {"JOIN"})) /\ ~Own(m, s, c, {"PART", "KICK"})]

\* What the server may send to a client that stands as s says.
Fits(m, s, c) ==
    /\ m.cmd = "JOIN" /\ m.chan = c => (s.in <=> m.nick # s.nick)
    /\ Own(m, s, c, {"PART", "KICK"}) => s.in
    /\ m.cmd = "QUIT" => m.nick # s.nick

\* the positions at which the client leaves the channel, and joins it
Left(w, u, c) == {j \in 1 .. Len(w) : Own(w[j], u[j - 1], c, {"PART", "KICK"})}
Came(w, u, c) == {j \in 1 .. Len(w) : Own(w[j], u[j - 1], c, {"JOIN"})}

Course(w, u, c) ==
    /\ u \in [0 .. Len(w) -> Standing]
    /\ \A k \in 1 .. Len(w) : Fits(w[k], u[k - 1], c) /\ u[k] = After(w[k], u[k - 1], c)
    /\ \A k, l \in 0 .. Len(w) : k < l /\ u[k].in /\ ~u[l].in =>
          \E j \in Left(w, u, c) : k < j /\ j <= l
    /\ \A k, l \in 0 .. Len(w) : k < l /\ ~u[k].in /\ u[l].in =>
          \E j \in Came(w, u, c) : k < j /\ j <= l

LEMMA AfterFacts ==
    ASSUME NEW m \in Messages, NEW s \in Standing, NEW c
    PROVE  /\ After(m, s, c) \in Standing
           /\ After(m, s, c).nick = NickAfter(m, s)
           /\ Own(m, s, c, {"JOIN"}) => After(m, s, c).in
           /\ Own(m, s, c, {"PART", "KICK"}) => ~After(m, s, c).in
           /\ ~Own(m, s, c, {"JOIN"}) /\ ~Own(m, s, c, {"PART", "KICK"}) => After(m, s, c).in = s.in
           /\ ~After(m, s, c).in => ~s.in \/ Own(m, s, c, {"PART", "KICK"})
           /\ After(m, s, c).in => s.in \/ Own(m, s, c, {"JOIN"})
<1>1. NickAfter(m, s) \in Person /\ s.in \in BOOLEAN
  BY MessageFields DEF NickAfter, Person, Standing
<1>2. After(m, s, c).in = ((s.in \/ Own(m, s, c, {"JOIN"})) /\ ~Own(m, s, c, {"PART", "KICK"}))
  BY DEF After
<1>3. After(m, s, c) \in Standing
  BY <1>1 DEF After, Standing
<1>4. After(m, s, c).nick = NickAfter(m, s)
  BY DEF After
<1>5. ~ (Own(m, s, c, {"JOIN"}) /\ Own(m, s, c, {"PART", "KICK"}))
  BY DEF Own
<1>6. Own(m, s, c, {"JOIN"}) => After(m, s, c).in
  BY <1>2, <1>5, Zenon
<1>7. Own(m, s, c, {"PART", "KICK"}) => ~After(m, s, c).in
  BY <1>2, Zenon
<1>8. ~Own(m, s, c, {"JOIN"}) /\ ~Own(m, s, c, {"PART", "KICK"}) => After(m, s, c).in = s.in
  BY <1>1, <1>2
<1>9. /\ ~After(m, s, c).in => ~s.in \/ Own(m, s, c, {"PART", "KICK"})
      /\ After(m, s, c).in => s.in \/ Own(m, s, c, {"JOIN"})
  BY <1>2, Zenon
<1> QED BY <1>3, <1>4, <1>6, <1>7, <1>8, <1>9

LEMMA CourseFacts ==
    ASSUME NEW w \in Seq(Messages), NEW c, NEW u, Course(w, u, c)
    PROVE  /\ Len(w) \in Nat
           /\ \A k \in 0 .. Len(w) : u[k] \in Standing /\ u[k].in \in BOOLEAN
           /\ \A k \in 1 .. Len(w) : /\ w[k] \in Messages /\ k - 1 \in 0 .. Len(w) /\ k \in 0 .. Len(w)
                                     /\ Fits(w[k], u[k - 1], c) /\ u[k] = After(w[k], u[k - 1], c)
           /\ \A j \in Left(w, u, c) : j \in 1 .. Len(w) /\ u[j - 1].in /\ ~u[j].in
           /\ \A j \in Came(w, u, c) : j \in 1 .. Len(w) /\ ~u[j - 1].in /\ u[j].in
<1>1. Len(w) \in Nat /\ \A k \in 1 .. Len(w) : w[k] \in Messages
  BY Members
<1>2. \A k \in 0 .. Len(w) : u[k] \in Standing /\ u[k].in \in BOOLEAN
  BY DEF Course, Standing
<1>3. \A k \in 1 .. Len(w) : /\ w[k] \in Messages /\ k - 1 \in 0 .. Len(w) /\ k \in 0 .. Len(w)
                             /\ Fits(w[k], u[k - 1], c) /\ u[k] = After(w[k], u[k - 1], c)
  BY <1>1 DEF Course
<1>4. ASSUME NEW j \in Left(w, u, c)
      PROVE  j \in 1 .. Len(w) /\ u[j - 1].in /\ ~u[j].in
  <2>1. j \in 1 .. Len(w) /\ Own(w[j], u[j - 1], c, {"PART", "KICK"})
    BY DEF Left
  <2>2. w[j] \in Messages /\ u[j - 1] \in Standing
        /\ Fits(w[j], u[j - 1], c) /\ u[j] = After(w[j], u[j - 1], c)
    BY <1>2, <1>3, <2>1
  <2> QED BY <2>1, <2>2, AfterFacts DEF Fits
<1>5. ASSUME NEW j \in Came(w, u, c)
      PROVE  j \in 1 .. Len(w) /\ ~u[j - 1].in /\ u[j].in
  <2>1. j \in 1 .. Len(w) /\ Own(w[j], u[j - 1], c, {"JOIN"})
    BY DEF Came
  <2>2. w[j] \in Messages /\ u[j - 1] \in Standing
        /\ Fits(w[j], u[j - 1], c) /\ u[j] = After(w[j], u[j - 1], c)
    BY <1>2, <1>3, <2>1
  <2>3. ~u[j - 1].in
    BY <2>1, <2>2 DEF Fits, Own
  <2> QED BY <2>1, <2>2, <2>3, AfterFacts
<1> QED BY <1>1, <1>2, <1>3, <1>4, <1>5

\* The standings t over x go on after u over w.
GoesOn(w, u, x, t) ==
    /\ Len(w) <= Len(x)
    /\ \A k \in 1 .. Len(w) : x[k] = w[k]
    /\ \A k \in 0 .. Len(w) : t[k] = u[k]

LEMMA GoesOnFacts ==
    ASSUME NEW w \in Seq(Messages), NEW x \in Seq(Messages), NEW u, NEW t, NEW c, GoesOn(w, u, x, t)
    PROVE  /\ Left(w, u, c) \subseteq Left(x, t, c) /\ Came(w, u, c) \subseteq Came(x, t, c)
           /\ Len(w) \in Nat /\ Len(x) \in Nat /\ 0 .. Len(w) \subseteq 0 .. Len(x)
           /\ t[0] = u[0]
<1>1. Len(w) \in Nat /\ Len(x) \in Nat
  BY Members
<1>2. /\ Len(w) <= Len(x)
      /\ \A k \in 1 .. Len(w) : x[k] = w[k]
      /\ \A k \in 0 .. Len(w) : t[k] = u[k]
  BY DEF GoesOn
<1>3. ASSUME NEW j \in 1 .. Len(w)
      PROVE  j \in 1 .. Len(x) /\ x[j] = w[j] /\ t[j - 1] = u[j - 1]
  <2>1. j \in 1 .. Len(x) /\ j - 1 \in 0 .. Len(w)
    BY <1>1, <1>2
  <2> QED BY <1>2, <2>1
<1>4. Left(w, u, c) \subseteq Left(x, t, c)
  BY <1>3 DEF Left
<1>5. Came(w, u, c) \subseteq Came(x, t, c)
  BY <1>3 DEF Came
<1> QED BY <1>1, <1>2, <1>4, <1>5

LEMMA CourseAppend ==
    ASSUME NEW w \in Seq(Messages), NEW c, NEW u, Course(w, u, c),
           NEW m \in Messages, Fits(m, u[Len(w)], c)
    PROVE  \E t : /\ Course(Append(w, m), t, c) /\ GoesOn(w, u, Append(w, m), t)
                  /\ t[Len(w) + 1] = After(m, u[Len(w)], c)
<1>0. PICK L, x : L = Len(w) /\ x = Append(w, m)
  OBVIOUS
<1>1. /\ x \in Seq(Messages) /\ Len(x) = L + 1 /\ L \in Nat
      /\ \A i \in 1 .. L : x[i] = w[i]
      /\ x[L + 1] = m
  BY <1>0, AppendFacts
<1>2. PICK t : t = [k \in 0 .. L + 1 |-> IF k = L + 1 THEN After(m, u[L], c) ELSE u[k]]
  OBVIOUS
<1>3. /\ \A k \in 0 .. L : t[k] = u[k]
      /\ t[L + 1] = After(m, u[L], c)
  BY <1>1, <1>2
<1>4. \A k \in 0 .. L : u[k] \in Standing
  BY <1>0, CourseFacts
<1>5. After(m, u[L], c) \in Standing
  BY <1>1, <1>4, AfterFacts
<1>6. t \in [0 .. L + 1 -> Standing]
  BY <1>1, <1>2, <1>4, <1>5
<1>7. GoesOn(w, u, x, t)
  BY <1>0, <1>1, <1>3 DEF GoesOn
<1>8. ASSUME NEW k \in 1 .. L + 1
      PROVE  Fits(x[k], t[k - 1], c) /\ t[k] = After(x[k], t[k - 1], c)
  <2>1. CASE k = L + 1
    <3>1. k - 1 = L /\ L \in 0 .. L
      BY <1>1, <2>1
    <3> QED BY <1>0, <1>1, <1>3, <2>1, <3>1
  <2>2. CASE k # L + 1
    <3>1. k \in 1 .. L /\ k - 1 \in 0 .. L /\ k \in 0 .. L
      BY <1>1, <2>2
    <3>2. Fits(w[k], u[k - 1], c) /\ u[k] = After(w[k], u[k - 1], c)
      BY <1>0, <3>1, CourseFacts
    <3> QED BY <1>1, <1>3, <3>1, <3>2
  <2> QED BY <2>1, <2>2
<1>9. Left(w, u, c) \subseteq Left(x, t, c) /\ Came(w, u, c) \subseteq Came(x, t, c)
  BY <1>1, <1>7, GoesOnFacts
<1>10. L + 1 \in 1 .. Len(x) /\ (L + 1) - 1 = L /\ t[L] = u[L] /\ u[L] \in Standing
  BY <1>1, <1>3, <1>4
<1>11. ASSUME t[L].in, ~t[L + 1].in
       PROVE  L + 1 \in Left(x, t, c)
  <2>1. Own(m, u[L], c, {"PART", "KICK"})
    BY <1>3, <1>10, <1>11, AfterFacts
  <2> QED BY <1>1, <1>10, <2>1 DEF Left
<1>12. ASSUME ~t[L].in, t[L + 1].in
       PROVE  L + 1 \in Came(x, t, c)
  <2>1. Own(m, u[L], c, {"JOIN"})
    BY <1>3, <1>10, <1>12, AfterFacts
  <2> QED BY <1>1, <1>10, <2>1 DEF Came
<1>13. ASSUME NEW k \in 0 .. L + 1, NEW l \in 0 .. L + 1, k < l, t[k].in, ~t[l].in
       PROVE  \E j \in Left(x, t, c) : k < j /\ j <= l
  <2>1. k \in 0 .. L /\ L \in 0 .. L
    BY <1>1, <1>13
  <2>2. ASSUME NEW i \in 0 .. L, k < i, i <= l, ~t[i].in
        PROVE  \E j \in Left(x, t, c) : k < j /\ j <= l
    <3>1. u[k].in /\ ~u[i].in
      BY <1>3, <1>13, <2>1, <2>2
    <3>2. PICK j \in Left(w, u, c) : k < j /\ j <= i
      BY <1>0, <2>1, <2>2, <3>1 DEF Course
    <3>3. j \in Left(x, t, c) /\ j \in 1 .. L
      BY <1>0, <1>9, CourseFacts
    <3>4. j <= l
      BY <1>1, <2>2, <3>2, <3>3
    <3> QED BY <3>2, <3>3, <3>4
  <2>3. CASE l # L + 1
    <3>1. l \in 0 .. L /\ l <= l
      BY <1>1, <2>3
    <3> QED BY <1>13, <2>2, <3>1
  <2>4. CASE l = L + 1 /\ t[L].in
    <3>1. L + 1 \in Left(x, t, c)
      BY <1>11, <1>13, <2>4
    <3>2. k < L + 1 /\ L + 1 <= l
      BY <1>1, <1>13, <2>4
    <3> QED BY <3>1, <3>2
  <2>5. CASE l = L + 1 /\ ~t[L].in
    <3>1. k # L
      BY <1>13, <2>5
    <3>2. k < L /\ L <= l
      BY <1>1, <2>1, <2>5, <3>1
    <3> QED BY <2>1, <2>2, <2>5, <3>2
  <2> QED BY <2>3, <2>4, <2>5
<1>14. ASSUME NEW k \in 0 .. L + 1, NEW l \in 0 .. L + 1, k < l, ~t[k].in, t[l].in
       PROVE  \E j \in Came(x, t, c) : k < j /\ j <= l
  <2>1. k \in 0 .. L /\ L \in 0 .. L
    BY <1>1, <1>14
  <2>2. ASSUME NEW i \in 0 .. L, k < i, i <= l, t[i].in
        PROVE  \E j \in Came(x, t, c) : k < j /\ j <= l
    <3>1. ~u[k].in /\ u[i].in
      BY <1>3, <1>14, <2>1, <2>2
    <3>2. PICK j \in Came(w, u, c) : k < j /\ j <= i
      BY <1>0, <2>1, <2>2, <3>1 DEF Course
    <3>3. j \in Came(x, t, c) /\ j \in 1 .. L
      BY <1>0, <1>9, CourseFacts
    <3>4. j <= l
      BY <1>1, <2>2, <3>2, <3>3
    <3> QED BY <3>2, <3>3, <3>4
  <2>3. CASE l # L + 1
    <3>1. l \in 0 .. L /\ l <= l
      BY <1>1, <2>3
    <3> QED BY <1>14, <2>2, <3>1
  <2>4. CASE l = L + 1 /\ ~t[L].in
    <3>1. L + 1 \in Came(x, t, c)
      BY <1>12, <1>14, <2>4
    <3>2. k < L + 1 /\ L + 1 <= l
      BY <1>1, <1>14, <2>4
    <3> QED BY <3>1, <3>2
  <2>5. CASE l = L + 1 /\ t[L].in
    <3>1. k # L
      BY <1>14, <2>5
    <3>2. k < L /\ L <= l
      BY <1>1, <2>1, <2>5, <3>1
    <3> QED BY <2>1, <2>2, <2>5, <3>2
  <2> QED BY <2>3, <2>4, <2>5
<1>15. Course(x, t, c)
  <2>1. \A k \in 1 .. Len(x) : Fits(x[k], t[k - 1], c) /\ t[k] = After(x[k], t[k - 1], c)
    BY <1>1, <1>8
  <2>2. \A k, l \in 0 .. Len(x) : k < l /\ t[k].in /\ ~t[l].in =>
           \E j \in Left(x, t, c) : k < j /\ j <= l
    BY <1>1, <1>13
  <2>3. \A k, l \in 0 .. Len(x) : k < l /\ ~t[k].in /\ t[l].in =>
           \E j \in Came(x, t, c) : k < j /\ j <= l
    BY <1>1, <1>14
  <2> QED BY <1>1, <1>6, <2>1, <2>2, <2>3 DEF Course
<1> QED BY <1>0, <1>3, <1>7, <1>15

\* The standings without the first one.
Later(w, u) == [k \in 0 .. Len(w) - 1 |-> u[k + 1]]

LEMMA CourseTail ==
    ASSUME NEW w \in Seq(Messages), w # <<>>, NEW c, NEW u, Course(w, u, c)
    PROVE  /\ Course(Tail(w), Later(w, u), c)
           /\ Tail(w) \in Seq(Messages) /\ Len(Tail(w)) = Len(w) - 1 /\ Len(w) \in Nat \ {0}
           /\ \A k \in 0 .. Len(w) - 1 : Later(w, u)[k] = u[k + 1] /\ k + 1 \in 1 .. Len(w)
           /\ \A k \in 1 .. Len(w) - 1 : Tail(w)[k] = w[k + 1]
           /\ \A j \in Left(w, u, c) : j # 1 => j - 1 \in Left(Tail(w), Later(w, u), c)
           /\ \A j \in Came(w, u, c) : j # 1 => j - 1 \in Came(Tail(w), Later(w, u), c)
<1>0. PICK L, x, t : L = Len(w) /\ x = Tail(w) /\ t = Later(w, u)
  OBVIOUS
<1>1. /\ x \in Seq(Messages) /\ Len(x) = L - 1 /\ L \in Nat \ {0}
      /\ \A i \in 1 .. L - 1 : x[i] = w[i + 1]
  BY <1>0, TailFacts
<1>2. \A k \in 0 .. L - 1 : t[k] = u[k + 1] /\ k + 1 \in 1 .. L
  BY <1>0, <1>1 DEF Later
<1>3. \A k \in 0 .. L : u[k] \in Standing
  BY <1>0, CourseFacts
<1>4. t \in [0 .. L - 1 -> Standing]
  <2>1. t = [k \in 0 .. L - 1 |-> u[k + 1]]
    BY <1>0 DEF Later
  <2>2. \A k \in 0 .. L - 1 : u[k + 1] \in Standing
    BY <1>1, <1>2, <1>3
  <2> QED BY <2>1, <2>2
<1>5. ASSUME NEW k \in 1 .. L - 1
      PROVE  Fits(x[k], t[k - 1], c) /\ t[k] = After(x[k], t[k - 1], c)
  <2>1. k + 1 \in 1 .. L /\ (k + 1) - 1 = k /\ k - 1 \in 0 .. L - 1 /\ (k - 1) + 1 = k /\ k \in 0 .. L - 1
    BY <1>1
  <2>2. Fits(w[k + 1], u[k], c) /\ u[k + 1] = After(w[k + 1], u[k], c)
    BY <1>0, <2>1, CourseFacts
  <2>3. x[k] = w[k + 1] /\ t[k - 1] = u[k] /\ t[k] = u[k + 1]
    BY <1>1, <1>2, <2>1
  <2> QED BY <2>2, <2>3
<1>6. ASSUME NEW j \in 1 .. L, j # 1
      PROVE  j - 1 \in 1 .. L - 1 /\ x[j - 1] = w[j] /\ t[(j - 1) - 1] = u[j - 1]
  <2>1. j - 1 \in 1 .. L - 1 /\ (j - 1) + 1 = j /\ (j - 1) - 1 \in 0 .. L - 1
        /\ ((j - 1) - 1) + 1 = j - 1
    BY <1>1, <1>6
  <2>2. x[j - 1] = w[(j - 1) + 1] /\ t[(j - 1) - 1] = u[((j - 1) - 1) + 1]
    BY <1>1, <1>2, <2>1
  <2> QED BY <2>1, <2>2
<1>7. \A j \in Left(w, u, c) : j # 1 => j - 1 \in Left(x, t, c)
  BY <1>0, <1>1, <1>6 DEF Left
<1>8. \A j \in Came(w, u, c) : j # 1 => j - 1 \in Came(x, t, c)
  BY <1>0, <1>1, <1>6 DEF Came
<1>9. ASSUME NEW k \in 0 .. L - 1, NEW l \in 0 .. L - 1, k < l
      PROVE  /\ k + 1 \in 0 .. L /\ l + 1 \in 0 .. L /\ k + 1 < l + 1
             /\ t[k] = u[k + 1] /\ t[l] = u[l + 1]
             /\ \A j \in 1 .. L : k + 1 < j /\ j <= l + 1 => j # 1 /\ k < j - 1 /\ j - 1 <= l
  BY <1>1, <1>2, <1>9
<1>10. ASSUME NEW k \in 0 .. L - 1, NEW l \in 0 .. L - 1, k < l, t[k].in, ~t[l].in
       PROVE  \E j \in Left(x, t, c) : k < j /\ j <= l
  <2>1. PICK j \in Left(w, u, c) : k + 1 < j /\ j <= l + 1
    BY <1>0, <1>9, <1>10 DEF Course
  <2>2. j \in 1 .. L
    BY <1>0, CourseFacts
  <2> QED BY <1>7, <1>9, <1>10, <2>1, <2>2
<1>11. ASSUME NEW k \in 0 .. L - 1, NEW l \in 0 .. L - 1, k < l, ~t[k].in, t[l].in
       PROVE  \E j \in Came(x, t, c) : k < j /\ j <= l
  <2>1. PICK j \in Came(w, u, c) : k + 1 < j /\ j <= l + 1
    BY <1>0, <1>9, <1>11 DEF Course
  <2>2. j \in 1 .. L
    BY <1>0, CourseFacts
  <2> QED BY <1>8, <1>9, <1>11, <2>1, <2>2
<1>12. Course(x, t, c)
  <2>1. \A k \in 1 .. Len(x) : Fits(x[k], t[k - 1], c) /\ t[k] = After(x[k], t[k - 1], c)
    BY <1>1, <1>5
  <2>2. \A k, l \in 0 .. Len(x) : k < l /\ t[k].in /\ ~t[l].in =>
           \E j \in Left(x, t, c) : k < j /\ j <= l
    BY <1>1, <1>10
  <2>3. \A k, l \in 0 .. Len(x) : k < l /\ ~t[k].in /\ t[l].in =>
           \E j \in Came(x, t, c) : k < j /\ j <= l
    BY <1>1, <1>11
  <2> QED BY <1>1, <1>4, <2>1, <2>2, <2>3 DEF Course
<1> QED BY <1>0, <1>1, <1>2, <1>7, <1>8, <1>12

-----------------------------------------------------------------------------
(* What was asked of a channel and not served yet.                         *)

Asks(x, c) == x.chan = c /\ x.cmd \in {"JOIN", "PART"}
Unasked(q, c) == \A i \in 1 .. Len(q) : ~Asks(q[i], c)
PartQueued(q, c) == \E i \in 1 .. Len(q) : q[i] = Cmd("PART", c)

\* cmd is the last of what was asked
Ends(q, c, cmd) ==
    \E i \in 1 .. Len(q) : q[i] = Cmd(cmd, c) /\ \A j \in 1 .. Len(q) : j > i => ~Asks(q[j], c)

\* Nothing more is asked of c in r than in q.
AsksTheSame(q, r, c) ==
    /\ r \in Seq(Command)
    /\ Unasked(q, c) => Unasked(r, c)
    /\ PartQueued(q, c) => PartQueued(r, c)
    /\ \A cmd \in {"JOIN", "PART"} : Ends(q, c, cmd) => Ends(r, c, cmd)

LEMMA QueuedAt ==
    ASSUME NEW q \in Seq(Command), NEW x \in Command, NEW r \in Queued(q, x)
    PROVE  /\ r \in Seq(Command) /\ Len(r) = Len(q) + 1 /\ Len(q) \in Nat
           /\ \E i \in 1 .. Len(q) + 1 :
                 /\ r[i] = x
                 /\ \A k \in 1 .. Len(q) : r[IF k < i THEN k ELSE k + 1] = q[k]
                 /\ \A k \in 1 .. Len(q) : k >= i => q[k].cmd = "MODE"
<1>1. PICK i \in 1 .. Len(q) + 1 :
         r = InsertAt(q, i, x) /\ \A k \in i .. Len(q) : q[k].cmd = "MODE"
  BY DEF Queued
<1> DEFINE a == SubSeq(q, 1, i - 1)
           b == SubSeq(q, i, Len(q))
           ax == Append(a, x)
<1>2. Len(q) \in Nat /\ \A k \in 1 .. Len(q) : q[k] \in Command
  OBVIOUS
<1>3. a \in Seq(Command) /\ Len(a) = i - 1 /\ \A k \in 1 .. i - 1 : a[k] = q[k]
  OBVIOUS
<1>4. /\ b \in Seq(Command) /\ Len(b) = Len(q) - i + 1
      /\ \A k \in 1 .. Len(q) - i + 1 : b[k] = q[k + i - 1]
  OBVIOUS
<1> HIDE DEF a, b
<1>5. /\ ax \in Seq(Command) /\ Len(ax) = i /\ ax[i] = x
      /\ \A k \in 1 .. i - 1 : ax[k] = q[k]
  BY <1>2, <1>3
<1>6. a \o <<x>> = ax
  BY <1>3
<1> HIDE DEF ax
<1>7. r = ax \o b
  BY <1>1, <1>6 DEF InsertAt, a, b
<1>8. /\ r \in Seq(Command) /\ Len(r) = Len(ax) + Len(b)
      /\ \A k \in 1 .. Len(ax) + Len(b) : r[k] = IF k <= Len(ax) THEN ax[k] ELSE b[k - Len(ax)]
  BY <1>4, <1>5, <1>7, ConcatProperties, Zenon
<1>9. ASSUME NEW k \in 1 .. Len(q)
      PROVE  r[IF k < i THEN k ELSE k + 1] = q[k]
  <2>1. CASE k < i
    <3>1. k \in 1 .. Len(ax) + Len(b) /\ k <= Len(ax) /\ k \in 1 .. i - 1
      BY <1>2, <1>4, <1>5, <2>1
    <3> QED BY <1>5, <1>8, <2>1, <3>1
  <2>2. CASE ~ (k < i)
    <3>1. /\ k + 1 \in 1 .. Len(ax) + Len(b) /\ ~ (k + 1 <= Len(ax))
          /\ (k + 1) - Len(ax) \in 1 .. Len(q) - i + 1 /\ (k + 1) - Len(ax) + i - 1 = k
      <4>1. Len(ax) = i /\ Len(b) = Len(q) - i + 1 /\ Len(q) \in Nat
        BY <1>2, <1>4, <1>5
      <4>2. /\ k + 1 \in 1 .. i + (Len(q) - i + 1) /\ ~ (k + 1 <= i)
            /\ (k + 1) - i \in 1 .. Len(q) - i + 1 /\ (k + 1) - i + i - 1 = k
        BY <2>2, <4>1
      <4> QED BY <4>1, <4>2
    <3>2. r[k + 1] = b[(k + 1) - Len(ax)]
      BY <1>8, <3>1
    <3>3. b[(k + 1) - Len(ax)] = q[k]
      BY <1>4, <3>1
    <3> QED BY <2>2, <3>2, <3>3
  <2> QED BY <2>1, <2>2
<1>10. r[i] = x
  <2>1. i \in 1 .. Len(ax) + Len(b) /\ i <= Len(ax)
    BY <1>2, <1>4, <1>5
  <2> QED BY <1>5, <1>8, <2>1
<1>11. Len(r) = Len(q) + 1
  BY <1>2, <1>4, <1>5, <1>8
<1>12. \A k \in 1 .. Len(q) : k >= i => q[k].cmd = "MODE"
  BY <1>1, <1>2
<1> QED BY <1>1, <1>2, <1>8, <1>9, <1>10, <1>11, <1>12

\* A command about something else is put between the others.
LEMMA SlippedIn ==
    ASSUME NEW q \in Seq(Command), NEW r \in Seq(Command), NEW x, NEW c, ~Asks(x, c),
           Len(r) = Len(q) + 1, NEW i \in 1 .. Len(q) + 1, r[i] = x,
           \A k \in 1 .. Len(q) : r[IF k < i THEN k ELSE k + 1] = q[k]
    PROVE  AsksTheSame(q, r, c)
<1>1. Len(q) \in Nat
  BY Members
<1>2. ASSUME NEW j \in 1 .. Len(r), j # i
      PROVE  \E k \in 1 .. Len(q) : j = (IF k < i THEN k ELSE k + 1) /\ r[j] = q[k]
  <2>1. CASE j < i
    <3>1. j \in 1 .. Len(q)
      BY <1>1, <2>1
    <3> QED BY <2>1, <3>1
  <2>2. CASE ~ (j < i)
    <3>1. j - 1 \in 1 .. Len(q) /\ ~ (j - 1 < i) /\ (j - 1) + 1 = j
      BY <1>1, <1>2, <2>2
    <3> QED BY <3>1
  <2> QED BY <2>1, <2>2
<1>3. ASSUME NEW k \in 1 .. Len(q)
      PROVE  (IF k < i THEN k ELSE k + 1) \in 1 .. Len(r)
  BY <1>1
<1>4. Unasked(q, c) => Unasked(r, c)
  BY <1>2 DEF Unasked
<1>5. ASSUME PartQueued(q, c)
      PROVE  PartQueued(r, c)
  <2>1. PICK k \in 1 .. Len(q) : q[k] = Cmd("PART", c)
    BY <1>5 DEF PartQueued
  <2>2. PICK n : n = IF k < i THEN k ELSE k + 1
    OBVIOUS
  <2>3. n \in 1 .. Len(r) /\ r[n] = Cmd("PART", c)
    BY <1>3, <2>1, <2>2
  <2> QED BY <2>3 DEF PartQueued
<1>6. ASSUME NEW cmd \in {"JOIN", "PART"}, Ends(q, c, cmd)
      PROVE  Ends(r, c, cmd)
  <2>1. PICK k \in 1 .. Len(q) : q[k] = Cmd(cmd, c) /\ \A j \in 1 .. Len(q) : j > k => ~Asks(q[j], c)
    BY <1>6 DEF Ends
  <2>2. PICK n : n = IF k < i THEN k ELSE k + 1
    OBVIOUS
  <2>3. n \in 1 .. Len(r) /\ r[n] = Cmd(cmd, c)
    BY <1>3, <2>1, <2>2
  <2>4. ASSUME NEW j \in 1 .. Len(r), j > n
        PROVE  ~Asks(r[j], c)
    <3>1. CASE j = i
      BY <3>1
    <3>2. CASE j # i
      <4>1. PICK l \in 1 .. Len(q) : j = (IF l < i THEN l ELSE l + 1) /\ r[j] = q[l]
        BY <1>2, <3>2
      <4>2. l > k
        BY <1>1, <2>2, <2>4, <4>1
      <4> QED BY <2>1, <4>1, <4>2
    <3> QED BY <3>1, <3>2
  <2> QED BY <2>3, <2>4 DEF Ends
<1> QED BY <1>4, <1>5, <1>6 DEF AsksTheSame

LEMMA QueuedElsewhere ==
    ASSUME NEW q \in Seq(Command), NEW x \in Command, NEW r \in Queued(q, x) \cup {q}, NEW c, ~Asks(x, c)
    PROVE  AsksTheSame(q, r, c)
<1>1. CASE r = q
  BY <1>1 DEF AsksTheSame
<1>2. CASE r \in Queued(q, x)
  BY <1>2, QueuedAt, SlippedIn
<1> QED BY <1>1, <1>2

LEMMA AppendedElsewhere ==
    ASSUME NEW q \in Seq(Command), NEW x \in Command, NEW c, ~Asks(x, c)
    PROVE  AsksTheSame(q, Append(q, x), c)
<1>1. PICK r : r = Append(q, x)
  OBVIOUS
<1>2. /\ r \in Seq(Command) /\ Len(r) = Len(q) + 1 /\ Len(q) \in Nat
      /\ \A k \in 1 .. Len(q) : r[k] = q[k]
      /\ r[Len(q) + 1] = x
  BY <1>1, AppendFacts
<1>3. Len(q) + 1 \in 1 .. Len(q) + 1 /\ \A k \in 1 .. Len(q) : k < Len(q) + 1
  BY <1>2
<1>4. \A k \in 1 .. Len(q) : r[IF k < Len(q) + 1 THEN k ELSE k + 1] = q[k]
  BY <1>2, <1>3
<1> QED BY <1>1, <1>2, <1>3, <1>4, SlippedIn

\* A JOIN or PART is overtaken by nothing that asks for something.
LEMMA QueuedHere ==
    ASSUME NEW q \in Seq(Command), NEW c \in Channel, NEW cmd \in {"JOIN", "PART"},
           NEW r \in Queued(q, Cmd(cmd, c))
    PROVE  /\ r \in Seq(Command) /\ Ends(r, c, cmd)
           /\ PartQueued(q, c) => PartQueued(r, c)
           /\ cmd = "PART" => PartQueued(r, c)
<1>1. Cmd(cmd, c) \in Command
  BY CommandType
<1>2. r \in Seq(Command) /\ Len(r) = Len(q) + 1 /\ Len(q) \in Nat
  BY <1>1, QueuedAt
<1>3. PICK i \in 1 .. Len(q) + 1 :
         /\ r[i] = Cmd(cmd, c)
         /\ \A k \in 1 .. Len(q) : r[IF k < i THEN k ELSE k + 1] = q[k]
         /\ \A k \in 1 .. Len(q) : k >= i => q[k].cmd = "MODE"
  BY <1>1, QueuedAt
<1>4. ASSUME NEW j \in 1 .. Len(r), j > i
      PROVE  ~Asks(r[j], c)
  <2>1. j - 1 \in 1 .. Len(q) /\ j - 1 >= i /\ ~ (j - 1 < i) /\ (j - 1) + 1 = j
    BY <1>2, <1>4
  <2>2. r[j] = q[j - 1] /\ q[j - 1].cmd = "MODE"
    BY <1>3, <2>1
  <2> QED BY <2>2 DEF Asks
<1>5. i \in 1 .. Len(r)
  BY <1>2
<1>6. Ends(r, c, cmd)
  BY <1>3, <1>4, <1>5 DEF Ends
<1>7. ASSUME PartQueued(q, c)
      PROVE  PartQueued(r, c)
  <2>1. PICK k \in 1 .. Len(q) : q[k] = Cmd("PART", c)
    BY <1>7 DEF PartQueued
  <2>2. PICK n : n = IF k < i THEN k ELSE k + 1
    OBVIOUS
  <2>3. n \in 1 .. Len(r) /\ r[n] = Cmd("PART", c)
    BY <1>2, <1>3, <2>1, <2>2
  <2> QED BY <2>3 DEF PartQueued
<1>8. cmd = "PART" => PartQueued(r, c)
  BY <1>3, <1>5 DEF PartQueued
<1> QED BY <1>2, <1>6, <1>7, <1>8

\* The server takes the first command: "here" is whether the client is on the
\* channel before, "here2" after.
Taken(q, r, c, here, here2) ==
    /\ r \in Seq(Command)
    /\ Unasked(q, c) => Unasked(r, c) /\ (here <=> here2)
    /\ PartQueued(q, c) => PartQueued(r, c) \/ ~here2
    /\ Ends(q, c, "JOIN") => Ends(r, c, "JOIN") \/ (Unasked(r, c) /\ here2)
    /\ Ends(q, c, "PART") => Ends(r, c, "PART") \/ (Unasked(r, c) /\ ~here2)

LEMMA FirstTaken ==
    ASSUME NEW q \in Seq(Command), q # <<>>, NEW c \in Channel, NEW here \in BOOLEAN, NEW here2 \in BOOLEAN,
           ~Asks(q[1], c) => (here <=> here2),
           q[1] = Cmd("JOIN", c) => here2,
           q[1] = Cmd("PART", c) => ~here2
    PROVE  Taken(q, Tail(q), c, here, here2)
<1>0. PICK r : r = Tail(q)
  OBVIOUS
<1>1. /\ r \in Seq(Command) /\ Len(r) = Len(q) - 1 /\ Len(q) \in Nat \ {0}
      /\ \A i \in 1 .. Len(r) : r[i] = q[i + 1]
  BY <1>0, TailFacts
<1>2. 1 \in 1 .. Len(q) /\ \A i \in 1 .. Len(r) : i + 1 \in 1 .. Len(q) /\ i + 1 # 1
  BY <1>1
<1>3. \A i \in 1 .. Len(q) : i # 1 => i - 1 \in 1 .. Len(r) /\ r[i - 1] = q[i]
  <2> TAKE i \in 1 .. Len(q)
  <2> HAVE i # 1
  <2>1. i - 1 \in 1 .. Len(r) /\ (i - 1) + 1 = i
    BY <1>1
  <2> QED BY <1>1, <2>1
<1>4. ASSUME Unasked(q, c)
      PROVE  Unasked(r, c) /\ (here <=> here2)
  BY <1>1, <1>2, <1>4 DEF Unasked
<1>5. ASSUME PartQueued(q, c)
      PROVE  PartQueued(r, c) \/ ~here2
  <2>1. PICK k \in 1 .. Len(q) : q[k] = Cmd("PART", c)
    BY <1>5 DEF PartQueued
  <2> QED BY <1>3, <2>1 DEF PartQueued
<1>6. ASSUME NEW cmd \in {"JOIN", "PART"}, Ends(q, c, cmd)
      PROVE  Ends(r, c, cmd) \/ (q[1] = Cmd(cmd, c) /\ Unasked(r, c))
  <2>1. PICK k \in 1 .. Len(q) : q[k] = Cmd(cmd, c) /\ \A j \in 1 .. Len(q) : j > k => ~Asks(q[j], c)
    BY <1>6 DEF Ends
  <2>2. ASSUME NEW j \in 1 .. Len(r), j > k - 1
        PROVE  ~Asks(r[j], c)
    <3>1. j + 1 \in 1 .. Len(q) /\ j + 1 > k
      BY <1>1, <2>2
    <3> QED BY <1>1, <2>1, <3>1
  <2>3. CASE k = 1
    <3>1. \A j \in 1 .. Len(r) : j > k - 1
      BY <1>1, <2>3
    <3> QED BY <2>1, <2>2, <2>3, <3>1 DEF Unasked
  <2>4. CASE k # 1
    <3>1. k - 1 \in 1 .. Len(r) /\ r[k - 1] = Cmd(cmd, c)
      BY <1>3, <2>1, <2>4
    <3> QED BY <2>2, <3>1 DEF Ends
  <2> QED BY <2>3, <2>4
<1> QED BY <1>0, <1>1, <1>4, <1>5, <1>6 DEF Taken

-----------------------------------------------------------------------------
(* A channel c of which the user's last word is "want": the messages w and  *)
(* commands q are on their way, b is the channel of the client, st the      *)
(* connection, and the server has the client on the channel (here) or not.  *)

Nowhere(w, u) == \A k \in 0 .. Len(w) : ~u[k].in

\* The last the client will read is that it was kicked.
KickEnds(w, u, c, open) ==
    \E j \in Left(w, u, c) :
        /\ w[j].cmd = "KICK"
        /\ \A k \in 0 .. Len(w) : k >= j => ~u[k].in
        /\ open \/ \E i \in Came(w, u, c) : i < j

\* The user wants to be on the channel: the last command is a JOIN; or it will
\* be sent, when the client reads its own PART or a timer runs out; or the client
\* is there, or was kicked and has to join again.
Wanted(c, w, u, q, b, here) ==
    \/ Ends(q, c, "JOIN")
    \/ b.open /\ b.cycle /\ (u[0].in \/ b.hook_autorejoin)
    \/ /\ Unasked(q, c)
       /\ here \/ KickEnds(w, u, c, b.open) \/ (b.open /\ b.hook_autorejoin /\ Nowhere(w, u))

\* The user wants to be away: the last command is a PART, or the client is
\* away, and nothing will join the channel again.
Unwanted(c, w, u, q, b, here) ==
    /\ Ends(q, c, "PART") \/ (Unasked(q, c) /\ ~here)
    /\ b.open => /\ ~b.hook_autorejoin
                 /\ b.nicks = NoNicks => b.part
                 /\ b.cycle => Unasked(q, c) /\ Nowhere(w, u)

\* What the next connection will make of it.
Offline(w, u, q, b, want) ==
    /\ q = <<>> /\ ~b.hook_autorejoin /\ Nowhere(w, u)
    /\ want = "in" => b.open /\ ~b.part
    /\ want = "out" => ~b.open \/ b.part

\* The channel of the client is what its standing s says.
Shows(s, b) ==
    b.open => /\ IF s.in THEN s.nick \in DOMAIN b.nicks ELSE b.nicks = NoNicks
              /\ b.part => b.nicks = NoNicks

\* A channel that was closed is being left.
Closing(c, w, u, q, b) == ~b.open /\ u[0].in => PartQueued(q, c) \/ Left(w, u, c) # {}

Obeys(c, w, u, q, b, st, want, here) ==
    /\ Course(w, u, c) /\ (u[Len(w)].in <=> here)
    /\ Shows(u[0], b) /\ Closing(c, w, u, q, b)
    /\ st # "on" => Offline(w, u, q, b, want)
    /\ st = "on" /\ want = "in" => Wanted(c, w, u, q, b, here)
    /\ st = "on" /\ want = "out" => Unwanted(c, w, u, q, b, here)

LEMMA CourseEnds ==
    ASSUME NEW w \in Seq(Messages), NEW c, NEW u, Course(w, u, c)
    PROVE  /\ Len(w) \in Nat /\ Len(w) \in 0 .. Len(w) /\ 0 \in 0 .. Len(w)
           /\ u[0] \in Standing /\ u[0].in \in BOOLEAN /\ u[Len(w)].in \in BOOLEAN
           /\ u[0].in /\ ~u[Len(w)].in => Left(w, u, c) # {}
           /\ ~u[0].in /\ u[Len(w)].in => Came(w, u, c) # {}
<1>1. Len(w) \in Nat /\ Len(w) \in 0 .. Len(w) /\ 0 \in 0 .. Len(w)
  BY Members
<1>2. u[0] \in Standing /\ u[0].in \in BOOLEAN /\ u[Len(w)].in \in BOOLEAN
  BY <1>1, CourseFacts
<1>3. u[0].in # u[Len(w)].in => 0 < Len(w)
  BY <1>1
<1>4. u[0].in /\ ~u[Len(w)].in => Left(w, u, c) # {}
  BY <1>1, <1>2, <1>3 DEF Course
<1>5. ~u[0].in /\ u[Len(w)].in => Came(w, u, c) # {}
  BY <1>1, <1>2, <1>3 DEF Course
<1> QED BY <1>1, <1>2, <1>4, <1>5

\* The messages x and standings t go on after w and u; if "still", the client
\* stands on the channel as before.
Further(c, w, u, x, t, still) ==
    /\ x \in Seq(Messages) /\ Course(x, t, c) /\ GoesOn(w, u, x, t)
    /\ still => \A k \in 0 .. Len(x) : k > Len(w) => (t[k].in <=> u[Len(w)].in)

LEMMA KickEndsFurther ==
    ASSUME NEW w \in Seq(Messages), NEW c, NEW u, Course(w, u, c), NEW x, NEW t, NEW open,
           Further(c, w, u, x, t, TRUE), KickEnds(w, u, c, open)
    PROVE  KickEnds(x, t, c, open)
<1>1. /\ x \in Seq(Messages) /\ Course(x, t, c) /\ GoesOn(w, u, x, t)
      /\ \A k \in 0 .. Len(x) : k > Len(w) => (t[k].in <=> u[Len(w)].in)
  BY DEF Further
<1>2. /\ Left(w, u, c) \subseteq Left(x, t, c) /\ Came(w, u, c) \subseteq Came(x, t, c)
      /\ Len(w) \in Nat /\ Len(x) \in Nat
  BY <1>1, GoesOnFacts
<1>3. PICK j \in Left(w, u, c) :
         /\ w[j].cmd = "KICK"
         /\ \A k \in 0 .. Len(w) : k >= j => ~u[k].in
         /\ open \/ \E i \in Came(w, u, c) : i < j
  BY DEF KickEnds
<1>4. j \in 1 .. Len(w) /\ Len(w) >= j /\ Len(w) \in 0 .. Len(w)
  BY <1>2, CourseFacts
<1>5. x[j].cmd = "KICK"
  BY <1>1, <1>3, <1>4 DEF GoesOn
<1>6. ~u[Len(w)].in
  BY <1>3, <1>4
<1>7. ASSUME NEW k \in 0 .. Len(x), k >= j
      PROVE  ~t[k].in
  <2>1. CASE k > Len(w)
    BY <1>1, <1>6, <2>1
  <2>2. CASE ~ (k > Len(w))
    <3>1. k \in 0 .. Len(w)
      BY <1>2, <2>2
    <3> QED BY <1>1, <1>3, <1>7, <3>1 DEF GoesOn
  <2> QED BY <2>1, <2>2
<1>8. open \/ \E i \in Came(x, t, c) : i < j
  BY <1>2, <1>3
<1> QED BY <1>2, <1>5, <1>7, <1>8 DEF KickEnds

LEMMA NowhereFurther ==
    ASSUME NEW w \in Seq(Messages), NEW c, NEW u, NEW x, NEW t,
           Further(c, w, u, x, t, TRUE), Nowhere(w, u)
    PROVE  Nowhere(x, t)
<1>1. /\ x \in Seq(Messages) /\ GoesOn(w, u, x, t)
      /\ \A k \in 0 .. Len(x) : k > Len(w) => (t[k].in <=> u[Len(w)].in)
  BY DEF Further
<1>2. Len(w) \in Nat /\ Len(x) \in Nat /\ Len(w) \in 0 .. Len(w)
  BY <1>1, Members
<1>3. ASSUME NEW k \in 0 .. Len(x)
      PROVE  ~t[k].in
  <2>1. CASE k > Len(w)
    BY <1>1, <1>2, <2>1 DEF Nowhere
  <2>2. CASE ~ (k > Len(w))
    <3>1. k \in 0 .. Len(w)
      BY <1>2, <2>2
    <3> QED BY <1>1, <3>1 DEF GoesOn, Nowhere
  <2> QED BY <2>1, <2>2
<1> QED BY <1>3 DEF Nowhere

\* The server and its users go on: messages are added, a command is taken.
LEMMA ObeysServed ==
    ASSUME NEW c, NEW w \in Seq(Messages), NEW u, NEW q, NEW b, NEW st, NEW want, NEW here,
           Obeys(c, w, u, q, b, st, want, here),
           NEW x, NEW t, NEW r, NEW st2, NEW here2,
           Further(c, w, u, x, t, Unasked(q, c)), t[Len(x)].in <=> here2,
           Taken(q, r, c, here, here2),
           st2 = "on" <=> st = "on", st # "on" => r = q
    PROVE  Obeys(c, x, t, r, b, st2, want, here2)
<1>1. /\ Course(w, u, c) /\ (u[Len(w)].in <=> here)
      /\ Shows(u[0], b) /\ Closing(c, w, u, q, b)
  BY DEF Obeys
<1>2. /\ x \in Seq(Messages) /\ Course(x, t, c) /\ GoesOn(w, u, x, t)
      /\ Unasked(q, c) => Further(c, w, u, x, t, TRUE)
  BY DEF Further
<1>3. /\ Left(w, u, c) \subseteq Left(x, t, c) /\ t[0] = u[0]
  <2>1. x \in Seq(Messages) /\ GoesOn(w, u, x, t)
    BY <1>2
  <2>2. Left(w, u, c) \subseteq Left(x, t, c)
    BY <2>1, GoesOnFacts
  <2>3. 0 \in 0 .. Len(w)
    BY <1>1, CourseEnds
  <2>4. t[0] = u[0]
    BY <2>1, <2>3 DEF GoesOn
  <2> QED BY <2>2, <2>4
<1>4. /\ Unasked(q, c) => Unasked(r, c) /\ (here <=> here2)
      /\ PartQueued(q, c) => PartQueued(r, c) \/ ~here2
      /\ Ends(q, c, "JOIN") => Ends(r, c, "JOIN") \/ (Unasked(r, c) /\ here2)
      /\ Ends(q, c, "PART") => Ends(r, c, "PART") \/ (Unasked(r, c) /\ ~here2)
  BY Zenon DEF Taken
<1>5. Shows(t[0], b)
  BY <1>1, <1>3
<1>6. Closing(c, x, t, r, b)
  <2> SUFFICES ASSUME ~b.open, t[0].in PROVE PartQueued(r, c) \/ Left(x, t, c) # {}
    BY DEF Closing
  <2>1. PartQueued(q, c) \/ Left(w, u, c) # {}
    BY <1>1, <1>3 DEF Closing
  <2>2. ~here2 => Left(x, t, c) # {}
    BY <1>2, CourseEnds
  <2> QED BY <1>3, <1>4, <2>1, <2>2
<1>7. ASSUME st # "on"
      PROVE  Offline(x, t, r, b, want)
  <2>1. Offline(w, u, q, b, want) /\ r = q
    BY <1>7 DEF Obeys
  <2>2. Unasked(q, c)
    BY <2>1 DEF Offline, Unasked
  <2>3. Nowhere(x, t)
    BY <1>2, <2>1, <2>2, NowhereFurther DEF Offline
  <2> QED BY <2>1, <2>3 DEF Offline
<1>8. ASSUME st = "on", want = "in"
      PROVE  Wanted(c, x, t, r, b, here2)
  <2>1. Wanted(c, w, u, q, b, here)
    BY <1>8 DEF Obeys
  <2>2. CASE Ends(q, c, "JOIN")
    BY <1>4, <2>2 DEF Wanted
  <2>3. CASE b.open /\ b.cycle /\ (u[0].in \/ b.hook_autorejoin)
    BY <1>3, <2>3 DEF Wanted
  <2>4. CASE Unasked(q, c) /\ here
    BY <1>4, <2>4 DEF Wanted
  <2>5. CASE Unasked(q, c) /\ KickEnds(w, u, c, b.open)
    <3>1. KickEnds(x, t, c, b.open)
      BY <1>1, <1>2, <2>5, KickEndsFurther
    <3> QED BY <1>4, <2>5, <3>1 DEF Wanted
  <2>6. CASE Unasked(q, c) /\ b.open /\ b.hook_autorejoin /\ Nowhere(w, u)
    <3>1. Nowhere(x, t)
      BY <1>2, <2>6, NowhereFurther
    <3> QED BY <1>4, <2>6, <3>1 DEF Wanted
  <2> QED BY <2>1, <2>2, <2>3, <2>4, <2>5, <2>6 DEF Wanted
<1>9. ASSUME st = "on", want = "out"
      PROVE  Unwanted(c, x, t, r, b, here2)
  <2>1. Unwanted(c, w, u, q, b, here)
    BY <1>9 DEF Obeys
  <2>2. Ends(r, c, "PART") \/ (Unasked(r, c) /\ ~here2)
    BY <1>4, <2>1 DEF Unwanted
  <2>3. ASSUME b.open, b.cycle
        PROVE  Unasked(r, c) /\ Nowhere(x, t)
    <3>1. Unasked(q, c) /\ Nowhere(w, u)
      BY <2>1, <2>3 DEF Unwanted
    <3> QED BY <1>2, <1>4, <3>1, NowhereFurther
  <2> QED BY <2>1, <2>2, <2>3 DEF Unwanted
<1> QED BY <1>2, <1>5, <1>6, <1>7, <1>8, <1>9 DEF Obeys

\* The standings t are u and one more, with the same nick.
OneMoreThan(w, u, t) == t[0] = u[0] /\ t[Len(w) + 1].nick = u[Len(w)].nick

\* The client is kicked: the message m tells.
LEMMA ObeysKicked ==
    ASSUME NEW c, NEW w \in Seq(Messages), NEW u, NEW q, NEW b, NEW st, NEW want,
           NEW here, here = TRUE, Obeys(c, w, u, q, b, st, want, here), NEW here2, here2 = FALSE,
           NEW m \in Messages, m.cmd = "KICK", m.chan = c, m.nick = u[Len(w)].nick
    PROVE  \E t : /\ Obeys(c, Append(w, m), t, q, b, st, want, here2)
                  /\ OneMoreThan(w, u, t)
<1>0. PICK x, L : x = Append(w, m) /\ L = Len(w)
  OBVIOUS
<1>1. /\ Course(w, u, c) /\ u[L].in
      /\ Shows(u[0], b) /\ Closing(c, w, u, q, b)
  BY <1>0 DEF Obeys
<1>2. u[L] \in Standing /\ L \in Nat /\ L \in 0 .. L /\ 0 \in 0 .. L
  BY <1>0, <1>1, CourseFacts, CourseEnds
<1>3. Own(m, u[L], c, {"PART", "KICK"})
  BY <1>0 DEF Own
<1>4. Fits(m, u[L], c)
  BY <1>1 DEF Fits
<1>5. PICK t : Course(x, t, c) /\ GoesOn(w, u, x, t) /\ t[L + 1] = After(m, u[L], c)
  BY <1>0, <1>1, <1>4, CourseAppend
<1>6. /\ x \in Seq(Messages) /\ Len(x) = L + 1 /\ x[L + 1] = m
      /\ \A i \in 1 .. L : x[i] = w[i]
  BY <1>0, AppendFacts
<1>7. /\ Left(w, u, c) \subseteq Left(x, t, c) /\ Came(w, u, c) \subseteq Came(x, t, c)
      /\ t[0] = u[0] /\ t[L] = u[L]
  <2>1. t[L] = u[L]
    BY <1>0, <1>2, <1>5 DEF GoesOn
  <2>2. /\ Left(w, u, c) \subseteq Left(x, t, c) /\ Came(w, u, c) \subseteq Came(x, t, c)
        /\ t[0] = u[0]
    BY <1>5, <1>6, GoesOnFacts
  <2> QED BY <2>1, <2>2
<1>8. ~t[L + 1].in /\ t[L + 1].nick = u[L].nick
  <2>1. NickAfter(m, u[L]) = u[L].nick
    BY DEF NickAfter
  <2> QED BY <1>2, <1>3, <1>5, <2>1, AfterFacts
<1>9. L + 1 \in Left(x, t, c)
  <2>1. L + 1 \in 1 .. Len(x) /\ (L + 1) - 1 = L
    BY <1>2, <1>6
  <2> QED BY <1>3, <1>6, <1>7, <2>1 DEF Left
<1>10. st = "on"
  <2> SUFFICES ASSUME st # "on" PROVE FALSE
    OBVIOUS
  <2>1. Nowhere(w, u)
    BY DEF Obeys, Offline
  <2> QED BY <1>0, <1>1, <1>2, <2>1 DEF Nowhere
<1>11. ASSUME want = "in"
       PROVE  Wanted(c, x, t, q, b, here2)
  <2>1. Wanted(c, w, u, q, b, here)
    BY <1>10, <1>11 DEF Obeys
  <2>2. CASE Ends(q, c, "JOIN")
    BY <2>2 DEF Wanted
  <2>3. CASE b.open /\ b.cycle /\ (u[0].in \/ b.hook_autorejoin)
    BY <1>7, <2>3 DEF Wanted
  <2>4. CASE Unasked(q, c)
    <3>1. ASSUME ~b.open
          PROVE  \E i \in Came(x, t, c) : i < L + 1
      <4>1. PICK l \in 0 .. L : ~u[l].in /\ l < L
        <5>1. CASE u[0].in
          <6>1. ~PartQueued(q, c)
            BY <2>4 DEF PartQueued, Unasked, Cmd, Asks
          <6>2. PICK j \in Left(w, u, c) : TRUE
            BY <1>1, <3>1, <5>1, <6>1 DEF Closing
          <6>3. j \in 1 .. L /\ ~u[j].in
            BY <1>0, <1>1, CourseFacts
          <6>4. j \in 0 .. L /\ j # L
            BY <1>1, <1>2, <6>3
          <6> QED BY <1>2, <6>3, <6>4
        <5>2. CASE ~u[0].in
          <6>1. 0 # L
            BY <1>1, <5>2
          <6> QED BY <1>2, <5>2, <6>1
        <5> QED BY <5>1, <5>2
      <4>2. PICK i \in Came(w, u, c) : l < i /\ i <= L
        BY <1>0, <1>1, <1>2, <4>1 DEF Course
      <4>3. i < L + 1
        BY <1>0, <1>1, <1>2, <4>2, CourseFacts
      <4> QED BY <1>7, <4>2, <4>3
    <3>2. \A k \in 0 .. Len(x) : k >= L + 1 => ~t[k].in
      <4> TAKE k \in 0 .. Len(x)
      <4> HAVE k >= L + 1
      <4>1. k = L + 1
        BY <1>2, <1>6
      <4> QED BY <1>8, <4>1
    <3>3. KickEnds(x, t, c, b.open)
      BY <1>6, <1>9, <3>1, <3>2 DEF KickEnds
    <3> QED BY <2>4, <3>3 DEF Wanted
  <2> QED BY <2>1, <2>2, <2>3, <2>4 DEF Wanted
<1>12. ASSUME want = "out"
       PROVE  Unwanted(c, x, t, q, b, here2)
  <2>1. Unwanted(c, w, u, q, b, here)
    BY <1>10, <1>12 DEF Obeys
  <2>2. ~Nowhere(w, u)
    BY <1>0, <1>1, <1>2 DEF Nowhere
  <2> QED BY <2>1, <2>2 DEF Unwanted
<1>13. Closing(c, x, t, q, b)
  BY <1>9 DEF Closing
<1>14. Obeys(c, x, t, q, b, st, want, here2)
  BY <1>1, <1>5, <1>6, <1>7, <1>8, <1>10, <1>11, <1>12, <1>13 DEF Obeys
<1> QED BY <1>0, <1>7, <1>8, <1>14 DEF OneMoreThan

-----------------------------------------------------------------------------
(* The client gets the first message.                                      *)

LEMMA KickEndsLater ==
    ASSUME NEW w \in Seq(Messages), w # <<>>, NEW c, NEW u, Course(w, u, c),
           NEW open, NEW open2, KickEnds(w, u, c, open),
           ~open2 => (~open /\ 1 \notin Came(w, u, c)) \/ 1 \in Left(w, u, c)
    PROVE  \/ KickEnds(Tail(w), Later(w, u), c, open2)
           \/ /\ 1 \in Left(w, u, c) /\ w[1].cmd = "KICK" /\ open
              /\ Nowhere(Tail(w), Later(w, u))
<1>0. PICK L, x, t : L = Len(w) /\ x = Tail(w) /\ t = Later(w, u)
  OBVIOUS
<1>1. /\ Len(x) = L - 1 /\ L \in Nat \ {0}
      /\ \A k \in 0 .. L - 1 : t[k] = u[k + 1] /\ k + 1 \in 1 .. L
      /\ \A k \in 1 .. L - 1 : x[k] = w[k + 1]
      /\ \A j \in Left(w, u, c) : j # 1 => j - 1 \in Left(x, t, c)
      /\ \A j \in Came(w, u, c) : j # 1 => j - 1 \in Came(x, t, c)
  BY <1>0, CourseTail
<1>2. PICK j \in Left(w, u, c) :
         /\ w[j].cmd = "KICK"
         /\ \A k \in 0 .. L : k >= j => ~u[k].in
         /\ open \/ \E i \in Came(w, u, c) : i < j
  BY <1>0 DEF KickEnds
<1>3. j \in 1 .. L /\ u[j - 1].in
  BY <1>0, CourseFacts
<1>4. \A i \in Came(w, u, c) : i \in 1 .. L
  BY <1>0, CourseFacts
<1>5. CASE j = 1
  <2>1. open
    BY <1>2, <1>4, <1>5
  <2>2. ASSUME NEW k \in 0 .. L - 1
        PROVE  ~t[k].in
    <3>1. k + 1 \in 0 .. L /\ k + 1 >= 1
      BY <1>1
    <3> QED BY <1>1, <1>2, <1>5, <3>1
  <2>3. Nowhere(x, t)
    BY <1>1, <2>2 DEF Nowhere
  <2> QED BY <1>0, <1>2, <1>5, <2>1, <2>3
<1>6. CASE j # 1
  <2>1. j - 1 \in Left(x, t, c) /\ j - 1 \in 1 .. L - 1 /\ (j - 1) + 1 = j
    BY <1>1, <1>3, <1>6
  <2>2. x[j - 1].cmd = "KICK"
    BY <1>1, <1>2, <2>1
  <2>3. ASSUME NEW k \in 0 .. L - 1, k >= j - 1
        PROVE  ~t[k].in
    <3>1. k + 1 \in 0 .. L /\ k + 1 >= j
      BY <1>1, <1>3, <2>3
    <3> QED BY <1>1, <1>2, <3>1
  <2>4. ASSUME NEW i \in Came(w, u, c), i < j, i # 1
        PROVE  i - 1 \in Came(x, t, c) /\ i - 1 < j - 1
    BY <1>1, <1>3, <1>4, <2>4
  <2>5. open2 \/ \E i \in Came(x, t, c) : i < j - 1
    <3>1. CASE ~open /\ 1 \notin Came(w, u, c)
      BY <1>2, <2>4, <3>1
    <3>2. CASE 1 \in Left(w, u, c)
      <4>1. ~u[1].in
        BY <3>2, CourseFacts
      <4>2. j - 1 # 1
        BY <1>3, <4>1
      <4>3. 1 \in 0 .. L /\ j - 1 \in 0 .. L /\ 1 < j - 1
        BY <1>1, <1>3, <2>1, <4>2
      <4>4. PICK i \in Came(w, u, c) : 1 < i /\ i <= j - 1
        BY <1>0, <1>3, <4>1, <4>3 DEF Course
      <4>5. i < j /\ i # 1
        BY <1>3, <1>4, <4>4
      <4> QED BY <2>4, <4>5
    <3> QED BY <3>1, <3>2
  <2>6. KickEnds(x, t, c, open2)
    BY <1>1, <2>1, <2>2, <2>3, <2>5 DEF KickEnds
  <2> QED BY <1>0, <2>6
<1> QED BY <1>5, <1>6

\* The standings t over x are those of u over w without the first one.
Follows(c, w, u, x, t, here) ==
    /\ Course(w, u, c) /\ Course(x, t, c)
    /\ t[Len(x)].in <=> here
    /\ t[0] = u[1]
    /\ Nowhere(w, u) => Nowhere(x, t) /\ ~u[0].in /\ ~u[1].in /\ ~here
    /\ 1 \in Left(w, u, c) => u[0].in /\ ~u[1].in
    /\ 1 \in Came(w, u, c) => ~u[0].in /\ u[1].in
    /\ 1 \notin Left(w, u, c) /\ 1 \notin Came(w, u, c) => (u[0].in <=> u[1].in)
    /\ Left(w, u, c) \ {1} # {} => Left(x, t, c) # {}

LEMMA FirstRead ==
    ASSUME NEW c, NEW w \in Seq(Messages), w # <<>>, NEW u, NEW q, NEW b, NEW st, NEW want, NEW here,
           Obeys(c, w, u, q, b, st, want, here)
    PROVE  Follows(c, w, u, Tail(w), Later(w, u), here)
<1>0. PICK L, x, t : L = Len(w) /\ x = Tail(w) /\ t = Later(w, u)
  OBVIOUS
<1>1. Course(w, u, c) /\ (u[L].in <=> here)
  BY <1>0 DEF Obeys
<1>2. /\ Course(x, t, c) /\ Len(x) = L - 1 /\ L \in Nat \ {0}
      /\ \A k \in 0 .. L - 1 : t[k] = u[k + 1] /\ k + 1 \in 1 .. L
      /\ \A j \in Left(w, u, c) : j # 1 => j - 1 \in Left(x, t, c)
  BY <1>0, <1>1, CourseTail
<1>3. L - 1 \in 0 .. L - 1 /\ (L - 1) + 1 = L /\ 0 \in 0 .. L - 1 /\ 0 + 1 = 1
      /\ 0 \in 0 .. L /\ 1 \in 0 .. L /\ 1 \in 1 .. L /\ L \in 0 .. L /\ 1 - 1 = 0
  BY <1>2
<1>4. t[Len(x)] = u[L] /\ t[0] = u[1]
  <2>1. t[L - 1] = u[(L - 1) + 1] /\ t[0] = u[0 + 1]
    BY <1>2, <1>3
  <2> QED BY <1>2, <1>3, <2>1
<1>6. ASSUME Nowhere(w, u)
      PROVE  Nowhere(x, t) /\ ~u[0].in /\ ~u[1].in /\ ~u[L].in
  <2>1. \A k \in 0 .. L : ~u[k].in
    BY <1>0, <1>6 DEF Nowhere
  <2>2. \A k \in 0 .. L - 1 : t[k] = u[k + 1] /\ k + 1 \in 0 .. L
    BY <1>2
  <2>3. \A k \in 0 .. L - 1 : ~t[k].in
    BY <2>1, <2>2
  <2> QED BY <1>2, <1>3, <2>1, <2>3 DEF Nowhere
<1>7. /\ 1 \in Left(w, u, c) => u[1 - 1].in /\ ~u[1].in
      /\ 1 \in Came(w, u, c) => ~u[1 - 1].in /\ u[1].in
  BY <1>1, CourseFacts
<1>8. ASSUME 1 \notin Left(w, u, c), 1 \notin Came(w, u, c)
      PROVE  u[0].in <=> u[1].in
  <2>1. \A j \in Left(w, u, c) \cup Came(w, u, c) : j \in 1 .. L
    BY <1>0, <1>1, CourseFacts
  <2>2. \A j \in 1 .. L : 0 < j /\ j <= 1 => j = 1
    BY <1>2
  <2>3. ~ (u[0].in /\ ~u[1].in)
    BY <1>0, <1>1, <1>3, <1>8, <2>1, <2>2 DEF Course
  <2>4. ~ (~u[0].in /\ u[1].in)
    BY <1>0, <1>1, <1>3, <1>8, <2>1, <2>2 DEF Course
  <2> QED BY <2>3, <2>4
<1>9. Left(w, u, c) \ {1} # {} => Left(x, t, c) # {}
  BY <1>2
<1> QED BY <1>0, <1>1, <1>2, <1>3, <1>4, <1>6, <1>7, <1>8, <1>9 DEF Follows

\* A message that is not about the client on the channel, or finds it closed.
LEMMA ObeysQuiet ==
    ASSUME NEW c, NEW w \in Seq(Messages), w # <<>>, NEW u, NEW q, NEW b, NEW want, NEW here,
           Obeys(c, w, u, q, b, "on", want, here),
           1 \notin Came(w, u, c), 1 \in Left(w, u, c) => ~b.open,
           NEW b2, b2.open <=> b.open, Shows(u[1], b2),
           b.open => /\ b2.part = b.part /\ b2.cycle = b.cycle
                     /\ b2.hook_autorejoin = b.hook_autorejoin,
           NEW r, AsksTheSame(q, r, c)
    PROVE  Obeys(c, Tail(w), Later(w, u), r, b2, "on", want, here)
<1>0. PICK x, t : x = Tail(w) /\ t = Later(w, u)
  OBVIOUS
<1>1. /\ Course(w, u, c) /\ Course(x, t, c) /\ (t[Len(x)].in <=> here) /\ t[0] = u[1]
      /\ Nowhere(w, u) => Nowhere(x, t)
      /\ 1 \in Left(w, u, c) => ~u[1].in
      /\ 1 \notin Left(w, u, c) => (u[0].in <=> u[1].in)
      /\ Left(w, u, c) \ {1} # {} => Left(x, t, c) # {}
  <2>1. Follows(c, w, u, x, t, here)
    BY <1>0, FirstRead
  <2> QED BY <2>1 DEF Follows
<1>2. /\ Unasked(q, c) => Unasked(r, c)
      /\ PartQueued(q, c) => PartQueued(r, c)
      /\ Ends(q, c, "JOIN") => Ends(r, c, "JOIN")
      /\ Ends(q, c, "PART") => Ends(r, c, "PART")
  BY DEF AsksTheSame
<1>3. Closing(c, x, t, r, b2)
  <2> SUFFICES ASSUME ~b2.open, t[0].in PROVE PartQueued(r, c) \/ Left(x, t, c) # {}
    BY DEF Closing
  <2>1. 1 \notin Left(w, u, c) /\ u[0].in /\ ~b.open
    BY <1>1
  <2>2. PartQueued(q, c) \/ Left(w, u, c) # {}
    BY <2>1 DEF Obeys, Closing
  <2> QED BY <1>1, <1>2, <2>1, <2>2
<1>4. ASSUME want = "in"
      PROVE  Wanted(c, x, t, r, b2, here)
  <2>1. Wanted(c, w, u, q, b, here)
    BY <1>4 DEF Obeys
  <2>2. CASE Ends(q, c, "JOIN")
    BY <1>2, <2>2 DEF Wanted
  <2>3. CASE b.open /\ b.cycle /\ (u[0].in \/ b.hook_autorejoin)
    BY <1>1, <2>3 DEF Wanted
  <2>4. CASE Unasked(q, c) /\ here
    BY <1>2, <2>4 DEF Wanted
  <2>5. CASE Unasked(q, c) /\ KickEnds(w, u, c, b.open)
    <3>1. KickEnds(x, t, c, b2.open)
      BY <1>0, <1>1, <2>5, KickEndsLater
    <3> QED BY <1>2, <2>5, <3>1 DEF Wanted
  <2>6. CASE Unasked(q, c) /\ b.open /\ b.hook_autorejoin /\ Nowhere(w, u)
    BY <1>1, <1>2, <2>6 DEF Wanted
  <2> QED BY <2>1, <2>2, <2>3, <2>4, <2>5, <2>6 DEF Wanted
<1>5. ASSUME want = "out"
      PROVE  Unwanted(c, x, t, r, b2, here)
  <2>1. Unwanted(c, w, u, q, b, here)
    BY <1>5 DEF Obeys
  <2>2. b2.open /\ b2.nicks = NoNicks => b.nicks = NoNicks
    <3>1. Shows(u[0], b)
      BY DEF Obeys
    <3> QED BY <1>1, <3>1 DEF Shows, NoNicks
  <2> QED BY <1>1, <1>2, <2>1, <2>2 DEF Unwanted
<1>6. Shows(t[0], b2)
  BY <1>1
<1> QED BY <1>0, <1>1, <1>3, <1>4, <1>5, <1>6 DEF Obeys

LEMMA ObeysCame ==
    ASSUME NEW c, NEW w \in Seq(Messages), w # <<>>, NEW u, NEW q, NEW b, NEW want, NEW here,
           Obeys(c, w, u, q, b, "on", want, here),
           1 \in Came(w, u, c),
           NEW b2, b2.open, Shows(u[1], b2), b2.nicks # NoNicks,
           b.open => /\ b2.cycle = b.cycle /\ b2.hook_autorejoin = b.hook_autorejoin,
           ~b.open => ~b2.cycle /\ ~b2.hook_autorejoin
    PROVE  Obeys(c, Tail(w), Later(w, u), q, b2, "on", want, here)
<1>0. PICK x, t : x = Tail(w) /\ t = Later(w, u)
  OBVIOUS
<1>1. /\ Course(w, u, c) /\ Course(x, t, c) /\ (t[Len(x)].in <=> here) /\ t[0] = u[1]
      /\ ~Nowhere(w, u) /\ u[1].in /\ ~u[0].in /\ 1 \notin Left(w, u, c)
  <2>1. Follows(c, w, u, x, t, here)
    BY <1>0, FirstRead
  <2> QED BY <2>1 DEF Follows
<1>3. ASSUME want = "in"
      PROVE  Wanted(c, x, t, q, b2, here)
  <2>1. Wanted(c, w, u, q, b, here)
    BY <1>3 DEF Obeys
  <2>2. CASE Ends(q, c, "JOIN")
    BY <2>2 DEF Wanted
  <2>3. CASE b.open /\ b.cycle /\ (u[0].in \/ b.hook_autorejoin)
    BY <1>1, <2>3 DEF Wanted
  <2>4. CASE Unasked(q, c) /\ here
    BY <2>4 DEF Wanted
  <2>5. CASE Unasked(q, c) /\ KickEnds(w, u, c, b.open)
    <3>1. KickEnds(x, t, c, b2.open)
      BY <1>0, <1>1, <2>5, KickEndsLater
    <3> QED BY <2>5, <3>1 DEF Wanted
  <2> QED BY <1>1, <2>1, <2>2, <2>3, <2>4, <2>5 DEF Wanted
<1>4. ASSUME want = "out"
      PROVE  Unwanted(c, x, t, q, b2, here)
  <2>1. Unwanted(c, w, u, q, b, here)
    BY <1>4 DEF Obeys
  <2> QED BY <1>1, <2>1 DEF Unwanted
<1>5. Shows(t[0], b2) /\ Closing(c, x, t, q, b2)
  BY <1>1 DEF Closing
<1> QED BY <1>0, <1>1, <1>3, <1>4, <1>5 DEF Obeys

\* The client learns that it left the channel and joins it again, or leaves it
\* open what the user wants.
LEMMA ObeysRejoins ==
    ASSUME NEW c, NEW w \in Seq(Messages), w # <<>>, NEW u, NEW q, NEW b, NEW want, NEW here,
           Obeys(c, w, u, q, b, "on", want, here),
           1 \in Left(w, u, c), b.open,
           NEW b2, b2.open, b2.nicks = NoNicks,
           NEW r, NEW want2, want2 = "in" => Ends(r, c, "JOIN"), want2 = "out" => want = "out" /\ b.cycle
    PROVE  Obeys(c, Tail(w), Later(w, u), r, b2, "on", want2, here)
<1>0. PICK x, t : x = Tail(w) /\ t = Later(w, u)
  OBVIOUS
<1>1. /\ Course(w, u, c) /\ Course(x, t, c) /\ (t[Len(x)].in <=> here) /\ t[0] = u[1]
      /\ ~Nowhere(w, u) /\ ~u[1].in
  <2>1. Follows(c, w, u, x, t, here)
    BY <1>0, FirstRead
  <2> QED BY <2>1 DEF Follows
<1>2. want2 = "in" => Wanted(c, x, t, r, b2, here)
  BY DEF Wanted
<1>3. want2 # "out"
  BY <1>1 DEF Obeys, Unwanted
<1>4. Shows(t[0], b2) /\ Closing(c, x, t, r, b2)
  BY <1>1 DEF Shows, Closing
<1> QED BY <1>0, <1>1, <1>2, <1>3, <1>4 DEF Obeys

\* The client learns that it left the channel, which it closes or remembers.
LEMMA ObeysGone ==
    ASSUME NEW c, NEW w \in Seq(Messages), w # <<>>, NEW u, NEW q, NEW b, NEW want, NEW here,
           Obeys(c, w, u, q, b, "on", want, here),
           1 \in Left(w, u, c), b.open, w[1].cmd = "PART", ~b.cycle,
           NEW b2, b2.open => /\ b2.nicks = NoNicks /\ b2.part /\ ~b2.cycle
                              /\ b2.hook_autorejoin = b.hook_autorejoin
    PROVE  Obeys(c, Tail(w), Later(w, u), q, b2, "on", want, here)
<1>0. PICK x, t : x = Tail(w) /\ t = Later(w, u)
  OBVIOUS
<1>1. /\ Course(w, u, c) /\ Course(x, t, c) /\ (t[Len(x)].in <=> here) /\ t[0] = u[1]
      /\ ~Nowhere(w, u) /\ ~u[1].in
  <2>1. Follows(c, w, u, x, t, here)
    BY <1>0, FirstRead
  <2> QED BY <2>1 DEF Follows
<1>2. ASSUME want = "in"
      PROVE  Wanted(c, x, t, q, b2, here)
  <2>1. Wanted(c, w, u, q, b, here)
    BY <1>2 DEF Obeys
  <2>2. CASE Ends(q, c, "JOIN")
    BY <2>2 DEF Wanted
  <2>3. CASE Unasked(q, c) /\ here
    BY <2>3 DEF Wanted
  <2>4. CASE Unasked(q, c) /\ KickEnds(w, u, c, b.open)
    <3>1. KickEnds(x, t, c, b2.open)
      BY <1>0, <1>1, <2>4, KickEndsLater
    <3> QED BY <2>4, <3>1 DEF Wanted
  <2> QED BY <1>1, <2>1, <2>2, <2>3, <2>4 DEF Wanted
<1>3. ASSUME want = "out"
      PROVE  Unwanted(c, x, t, q, b2, here)
  <2>1. Unwanted(c, w, u, q, b, here)
    BY <1>3 DEF Obeys
  <2> QED BY <2>1 DEF Unwanted
<1>4. Shows(t[0], b2) /\ Closing(c, x, t, q, b2)
  BY <1>1 DEF Shows, Closing
<1> QED BY <1>0, <1>1, <1>2, <1>3, <1>4 DEF Obeys

\* The client learns that it was kicked, and hooks a timer.
LEMMA ObeysWaits ==
    ASSUME NEW c, NEW w \in Seq(Messages), w # <<>>, NEW u, NEW q, NEW b, NEW want, NEW here,
           Obeys(c, w, u, q, b, "on", want, here),
           1 \in Left(w, u, c), b.open,
           NEW b2, b2.open, b2.nicks = NoNicks, b2.hook_autorejoin, b2.cycle = b.cycle,
           NEW want2, want2 = "in" => want = "in", want2 # "out"
    PROVE  Obeys(c, Tail(w), Later(w, u), q, b2, "on", want2, here)
<1>0. PICK x, t : x = Tail(w) /\ t = Later(w, u)
  OBVIOUS
<1>1. /\ Course(w, u, c) /\ Course(x, t, c) /\ (t[Len(x)].in <=> here) /\ t[0] = u[1]
      /\ ~Nowhere(w, u) /\ ~u[1].in
  <2>1. Follows(c, w, u, x, t, here)
    BY <1>0, FirstRead
  <2> QED BY <2>1 DEF Follows
<1>2. ASSUME want2 = "in"
      PROVE  Wanted(c, x, t, q, b2, here)
  <2>1. Wanted(c, w, u, q, b, here)
    BY <1>2 DEF Obeys
  <2>2. CASE Ends(q, c, "JOIN")
    BY <2>2 DEF Wanted
  <2>3. CASE b.open /\ b.cycle
    BY <2>3 DEF Wanted
  <2>4. CASE Unasked(q, c) /\ here
    BY <2>4 DEF Wanted
  <2>5. CASE Unasked(q, c) /\ KickEnds(w, u, c, b.open)
    <3>1. KickEnds(x, t, c, b2.open) \/ Nowhere(x, t)
      BY <1>0, <1>1, <2>5, KickEndsLater
    <3> QED BY <2>5, <3>1 DEF Wanted
  <2> QED BY <1>1, <2>1, <2>2, <2>3, <2>4, <2>5 DEF Wanted
<1>3. Shows(t[0], b2) /\ Closing(c, x, t, q, b2)
  BY <1>1 DEF Shows, Closing
<1> QED BY <1>0, <1>1, <1>2, <1>3 DEF Obeys

\* The 001, after which the channels are joined again.
LEMMA ObeysWelcomed ==
    ASSUME NEW c, NEW w \in Seq(Messages), w # <<>>, NEW u, NEW q, NEW b, NEW st, NEW want, NEW here,
           Obeys(c, w, u, q, b, st, want, here), st # "on", b.open => b.nicks = NoNicks,
           NEW r, NEW want2, want2 = "in" => Ends(r, c, "JOIN"),
           want2 = "out" => Unasked(r, c) /\ (b.open => b.part)
    PROVE  Obeys(c, Tail(w), Later(w, u), r, b, "on", want2, here)
<1>0. PICK x, t : x = Tail(w) /\ t = Later(w, u)
  OBVIOUS
<1>1. Offline(w, u, q, b, want)
  BY DEF Obeys
<1>2. /\ Course(x, t, c) /\ (t[Len(x)].in <=> here) /\ t[0] = u[1]
      /\ Nowhere(x, t) /\ ~u[1].in /\ ~here
  <2>1. Follows(c, w, u, x, t, here)
    BY <1>0, FirstRead
  <2> QED BY <1>1, <2>1 DEF Follows, Offline
<1>3. want2 = "in" => Wanted(c, x, t, r, b, here)
  BY DEF Wanted
<1>4. want2 = "out" => Unwanted(c, x, t, r, b, here)
  BY <1>1, <1>2 DEF Unwanted, Offline
<1>5. Shows(t[0], b) /\ Closing(c, x, t, r, b)
  BY <1>2 DEF Shows, Closing
<1> QED BY <1>0, <1>2, <1>3, <1>4, <1>5 DEF Obeys

-----------------------------------------------------------------------------
(* The user, timers, and connections that are lost.                        *)

\* Something is asked of another channel, or about something else.
LEMMA ObeysElsewhere ==
    ASSUME NEW c, NEW w \in Seq(Messages), NEW u, NEW q, NEW b, NEW want, NEW here,
           Obeys(c, w, u, q, b, "on", want, here),
           NEW r, AsksTheSame(q, r, c)
    PROVE  Obeys(c, w, u, r, b, "on", want, here)
<1>1. /\ Course(w, u, c) /\ (u[Len(w)].in <=> here)
      /\ Shows(u[0], b) /\ Closing(c, w, u, q, b)
  BY DEF Obeys
<1>2. /\ Unasked(q, c) => Unasked(r, c)
      /\ PartQueued(q, c) => PartQueued(r, c)
      /\ Ends(q, c, "JOIN") => Ends(r, c, "JOIN")
      /\ Ends(q, c, "PART") => Ends(r, c, "PART")
  BY DEF AsksTheSame
<1>3. Closing(c, w, u, r, b)
  BY <1>1, <1>2 DEF Closing
<1>4. Wanted(c, w, u, q, b, here) => Wanted(c, w, u, r, b, here)
  BY <1>2 DEF Wanted
<1>5. Unwanted(c, w, u, q, b, here) => Unwanted(c, w, u, r, b, here)
  BY <1>2 DEF Unwanted
<1> QED BY <1>1, <1>3, <1>4, <1>5 DEF Obeys

\* A JOIN is sent, by the user or by the timer.
LEMMA ObeysJoins ==
    ASSUME NEW c, NEW w \in Seq(Messages), NEW u, NEW q, NEW b, NEW want, NEW here,
           Obeys(c, w, u, q, b, "on", want, here),
           NEW b2, b2.open <=> b.open, Shows(u[0], b2),
           NEW r, Ends(r, c, "JOIN"), PartQueued(q, c) => PartQueued(r, c),
           NEW want2, want2 = "out" => want = "out" /\ b.open /\ b.hook_autorejoin
    PROVE  Obeys(c, w, u, r, b2, "on", want2, here)
<1>1. /\ Course(w, u, c) /\ (u[Len(w)].in <=> here) /\ Closing(c, w, u, q, b)
  BY DEF Obeys
<1>2. Closing(c, w, u, r, b2)
  BY <1>1 DEF Closing
<1>3. Wanted(c, w, u, r, b2, here)
  BY DEF Wanted
<1>4. want2 # "out"
  BY DEF Obeys, Unwanted
<1> QED BY <1>1, <1>2, <1>3, <1>4 DEF Obeys

\* A PART is sent by the user.
LEMMA ObeysParts ==
    ASSUME NEW c, NEW w \in Seq(Messages), NEW u, NEW q, NEW b, NEW want, NEW here,
           Obeys(c, w, u, q, b, "on", want, here),
           NEW r, Ends(r, c, "PART"), PartQueued(q, c) => PartQueued(r, c),
           NEW want2, want2 # "in",
           want2 = "out" /\ b.open => ~b.hook_autorejoin /\ b.nicks # NoNicks /\ ~b.cycle
    PROVE  Obeys(c, w, u, r, b, "on", want2, here)
<1>1. /\ Course(w, u, c) /\ (u[Len(w)].in <=> here) /\ Closing(c, w, u, q, b) /\ Shows(u[0], b)
  BY DEF Obeys
<1>2. Closing(c, w, u, r, b)
  BY <1>1 DEF Closing
<1>3. want2 = "out" => Unwanted(c, w, u, r, b, here)
  BY DEF Unwanted
<1> QED BY <1>1, <1>2, <1>3 DEF Obeys

\* Nothing is on its way and the client shows no nicks: it is not there.
LEMMA Alone ==
    ASSUME NEW c, NEW u, NEW b, Course(<<>>, u, c), Shows(u[0], b), b.open, b.nicks = NoNicks
    PROVE  Nowhere(<<>>, u)
<1>1. <<>> \in Seq(Messages) /\ Len(<<>>) = 0
  OBVIOUS
<1>2. \A k \in 0 .. 0 : k = 0
  OBVIOUS
<1>3. ~u[0].in
  BY DEF Shows, NoNicks
<1> QED BY <1>1, <1>2, <1>3 DEF Nowhere

\* The user parts from a channel without nicks: nothing is sent.
LEMMA ObeysStays ==
    ASSUME NEW c, NEW w \in Seq(Messages), NEW u, NEW q, NEW b, NEW want, NEW here,
           Obeys(c, w, u, q, b, "on", want, here), b.open, b.nicks = NoNicks,
           NEW want2, want2 # "in",
           want2 = "out" => w = <<>> /\ Unasked(q, c) /\ b.part /\ ~b.hook_autorejoin
    PROVE  Obeys(c, w, u, q, b, "on", want2, here)
<1>1. /\ Course(w, u, c) /\ (u[Len(w)].in <=> here) /\ Closing(c, w, u, q, b) /\ Shows(u[0], b)
  BY DEF Obeys
<1>2. ASSUME want2 = "out"
      PROVE  Unwanted(c, w, u, q, b, here)
  <2>1. Nowhere(w, u)
    BY <1>1, <1>2, Alone
  <2>2. ~here
    BY <1>1, <2>1, CourseEnds DEF Nowhere
  <2> QED BY <1>2, <2>1, <2>2 DEF Unwanted
<1> QED BY <1>1, <1>2 DEF Obeys

\* The user closes the channel.
LEMMA ObeysCloses ==
    ASSUME NEW c, NEW w \in Seq(Messages), NEW u, NEW q, NEW b, NEW want, NEW here,
           Obeys(c, w, u, q, b, "on", want, here), b.open,
           NEW b2, ~b2.open,
           NEW r, NEW want2, want2 # "in",
           b.nicks # NoNicks => Ends(r, c, "PART") /\ PartQueued(r, c),
           b.nicks = NoNicks => r = q /\ (want2 = "out" => w = <<>> /\ Unasked(q, c))
    PROVE  Obeys(c, w, u, r, b2, "on", want2, here)
<1>1. /\ Course(w, u, c) /\ (u[Len(w)].in <=> here) /\ Shows(u[0], b)
  BY DEF Obeys
<1>2. Closing(c, w, u, r, b2)
  <2>1. b.nicks = NoNicks => ~u[0].in
    BY <1>1 DEF Shows, NoNicks
  <2> QED BY <2>1 DEF Closing
<1>3. ASSUME want2 = "out"
      PROVE  Unwanted(c, w, u, r, b2, here)
  <2>1. CASE b.nicks # NoNicks
    BY <2>1 DEF Unwanted
  <2>2. CASE b.nicks = NoNicks
    <3>1. Nowhere(w, u)
      BY <1>1, <1>3, <2>2, Alone
    <3>2. ~here
      BY <1>1, <3>1, CourseEnds DEF Nowhere
    <3> QED BY <1>3, <2>2, <3>2 DEF Unwanted
  <2> QED BY <2>1, <2>2
<1>4. Shows(u[0], b2)
  BY DEF Shows
<1> QED BY <1>1, <1>2, <1>3, <1>4 DEF Obeys

\* The user cycles.
LEMMA ObeysCycles ==
    ASSUME NEW c, NEW w \in Seq(Messages), NEW u, NEW q, NEW b, NEW want, NEW here,
           Obeys(c, w, u, q, b, "on", want, here), b.open,
           NEW b2, b2.open, b2.cycle, Shows(u[0], b2),
           NEW r, NEW want2, want2 # "out", want2 = "in" => b.nicks # NoNicks
    PROVE  Obeys(c, w, u, r, b2, "on", want2, here)
<1>1. /\ Course(w, u, c) /\ (u[Len(w)].in <=> here) /\ Shows(u[0], b)
  BY DEF Obeys
<1>2. want2 = "in" => Wanted(c, w, u, r, b2, here)
  BY <1>1 DEF Shows, Wanted
<1>3. Closing(c, w, u, r, b2)
  BY DEF Closing
<1> QED BY <1>1, <1>2, <1>3 DEF Obeys

\* When nothing is on its way, the user is obeyed, now and by the next
\* connection.
LEMMA ObeysAtLast ==
    ASSUME NEW c, NEW u, NEW q, NEW b, NEW want, NEW here,
           Obeys(c, <<>>, u, q, b, "on", want, here), Unasked(q, c), ~b.hook_autorejoin
    PROVE  /\ want = "in" => here /\ b.open /\ ~b.part
           /\ want = "out" => ~here /\ (b.open => b.part)
<1>1. <<>> \in Seq(Messages) /\ Len(<<>>) = 0
  OBVIOUS
<1>2. /\ Course(<<>>, u, c) /\ (u[0].in <=> here)
      /\ Shows(u[0], b) /\ Closing(c, <<>>, u, q, b)
  BY <1>1 DEF Obeys
<1>3. Left(<<>>, u, c) = {} /\ Came(<<>>, u, c) = {}
  BY <1>1 DEF Left, Came
<1>4. ~Ends(q, c, "JOIN") /\ ~Ends(q, c, "PART") /\ ~PartQueued(q, c)
  BY DEF Ends, Unasked, PartQueued, Asks, Cmd
<1>5. ASSUME want = "in"
      PROVE  here /\ b.open /\ ~b.part
  <2>1. Wanted(c, <<>>, u, q, b, here)
    BY <1>5 DEF Obeys
  <2>2. ~KickEnds(<<>>, u, c, b.open)
    BY <1>3 DEF KickEnds
  <2>3. u[0].in /\ here
    BY <1>2, <1>4, <2>1, <2>2 DEF Wanted
  <2>4. b.open
    BY <1>2, <1>3, <1>4, <2>3 DEF Closing
  <2>5. ~b.part
    BY <1>2, <2>3, <2>4 DEF Shows, NoNicks
  <2> QED BY <2>3, <2>4, <2>5
<1>6. ASSUME want = "out"
      PROVE  ~here /\ (b.open => b.part)
  <2>1. Unwanted(c, <<>>, u, q, b, here)
    BY <1>6 DEF Obeys
  <2> QED BY <1>2, <1>4, <2>1 DEF Unwanted, Shows
<1> QED BY <1>5, <1>6

\* There is no connection.
LEMMA ObeysOff ==
    ASSUME NEW c, NEW b, NEW want,
           ~b.hook_autorejoin, b.open => b.nicks = NoNicks,
           want = "in" => b.open /\ ~b.part, want = "out" => ~b.open \/ b.part
    PROVE  \E u : /\ Obeys(c, <<>>, u, <<>>, b, "off", want, FALSE)
                  /\ u[0].nick = NoNick
<1>1. PICK u : u = [k \in 0 .. 0 |-> [nick |-> NoNick, in |-> FALSE]]
  OBVIOUS
<1>2. <<>> \in Seq(Messages) /\ Len(<<>>) = 0 /\ 1 .. 0 = {} /\ \A k \in 0 .. 0 : k = 0
  OBVIOUS
<1>3. [nick |-> NoNick, in |-> FALSE] \in Standing
  BY DEF Standing, Person
<1>4. u \in [0 .. 0 -> Standing] /\ ~u[0].in /\ u[0].nick = NoNick
  BY <1>1, <1>3
<1>5. Course(<<>>, u, c)
  <2>1. \A k, l \in 0 .. 0 : ~ (k < l)
    OBVIOUS
  <2> QED BY <1>2, <1>4, <2>1 DEF Course
<1>6. Nowhere(<<>>, u)
  BY <1>2, <1>4 DEF Nowhere
<1>7. Offline(<<>>, u, <<>>, b, want)
  BY <1>6 DEF Offline
<1>8. Shows(u[0], b) /\ Closing(c, <<>>, u, <<>>, b)
  BY <1>4 DEF Shows, Closing
<1> QED BY <1>2, <1>4, <1>5, <1>7, <1>8 DEF Obeys

-----------------------------------------------------------------------------
(* Each channel of the client follows what the user said last of it.       *)

FollowedBy(c, u, here) ==
    /\ here \in BOOLEAN /\ (here <=> InRoom(c))
    /\ Obeys(c, wire, u, outq, channels[c], conn, intent[c], here)
    /\ conn = "on" => u[0].nick = nick
    /\ u[Len(wire)].nick = mine

Followed(c) == \E u, here : FollowedBy(c, u, here)

Obedient == Faithful /\ \A c \in Channel : Followed(c)

LEMMA UserFollowed ==
    ASSUME NEW c, NEW u, NEW here, FollowedBy(c, u, here),
           UNCHANGED <<conn, nick, wire, server>>,
           Obeys(c, wire, u, outq', channels'[c], conn, intent'[c], here)
    PROVE  Followed(c)'
<1>1. /\ conn' = conn /\ nick' = nick /\ wire' = wire /\ mine' = mine /\ rooms' = rooms
  BY DEF server
<1>2. /\ here \in BOOLEAN /\ (here <=> InRoom(c))
      /\ conn = "on" => u[0].nick = nick
      /\ u[Len(wire)].nick = mine
  BY DEF FollowedBy
<1>3. InRoom(c)' <=> InRoom(c)
  BY <1>1 DEF InRoom
<1>4. FollowedBy(c, u, here)'
  BY <1>1, <1>2, <1>3 DEF FollowedBy
<1> QED BY <1>4 DEF Followed

\* What the client knows of the message that it reads.
Reads(c, u, m) ==
    /\ m = Message /\ m \in Messages /\ wire \in Seq(Messages) /\ wire # <<>>
    /\ u[0] \in Standing /\ u[0].in \in BOOLEAN
    /\ Fits(m, u[0], c)
    /\ u[1].nick = NickAfter(m, u[0])
    /\ 1 \in Left(wire, u, c) <=> Own(m, u[0], c, {"PART", "KICK"})
    /\ 1 \in Came(wire, u, c) <=> Own(m, u[0], c, {"JOIN"})
    /\ Follows(c, wire, u, Tail(wire), Later(wire, u), InRoom(c))
    /\ Later(wire, u)[Len(Tail(wire))] = u[Len(wire)]
    /\ m.cmd # "001" => conn = "on" /\ u[0].nick = nick
    /\ m.cmd = "001" => conn # "on"

LEMMA ReadsFirst ==
    ASSUME Faithful, NEW c, NEW u, NEW here, FollowedBy(c, u, here), wire # <<>>
    PROVE  Reads(c, u, Message)
<1>0. PICK m : m = Message
  OBVIOUS
<1>1. Typed /\ Registered /\ \E v : Matches(v)
  BY DEF Faithful
<1>2. /\ m \in Messages /\ m = wire[1]
      /\ m.cmd # "001" => conn = "on"
      /\ m.cmd = "001" => conn # "on"
  BY <1>0, <1>1, GetFacts
<1>3. wire \in Seq(Messages)
  BY <1>1 DEF Typed
<1>4. /\ Obeys(c, wire, u, outq, channels[c], conn, intent[c], here)
      /\ here <=> InRoom(c)
      /\ conn = "on" => u[0].nick = nick
  BY DEF FollowedBy
<1>5. Course(wire, u, c)
  BY <1>4 DEF Obeys
<1>6. /\ Len(wire) \in Nat \ {0} /\ Len(Tail(wire)) = Len(wire) - 1
      /\ \A k \in 0 .. Len(wire) - 1 : Later(wire, u)[k] = u[k + 1]
  BY <1>3, <1>5, CourseTail
<1>7. 1 \in 1 .. Len(wire) /\ 1 - 1 = 0 /\ Len(wire) - 1 \in 0 .. Len(wire) - 1
      /\ (Len(wire) - 1) + 1 = Len(wire) /\ 0 \in 0 .. Len(wire)
  BY <1>6
<1>8. u[0] \in Standing /\ u[0].in \in BOOLEAN
  BY <1>3, <1>5, <1>7, CourseFacts
<1>9. Fits(wire[1], u[1 - 1], c) /\ u[1] = After(wire[1], u[1 - 1], c)
  BY <1>3, <1>5, <1>7, CourseFacts
<1>10. Fits(m, u[0], c) /\ u[1] = After(m, u[0], c)
  BY <1>2, <1>7, <1>9
<1>11. u[1].nick = NickAfter(m, u[0])
  BY <1>2, <1>8, <1>10, AfterFacts
<1>12. 1 \in Left(wire, u, c) <=> Own(m, u[0], c, {"PART", "KICK"})
  BY <1>2, <1>7 DEF Left
<1>13. 1 \in Came(wire, u, c) <=> Own(m, u[0], c, {"JOIN"})
  BY <1>2, <1>7 DEF Came
<1>14. Follows(c, wire, u, Tail(wire), Later(wire, u), here)
  BY <1>3, <1>4, FirstRead
<1>15. Follows(c, wire, u, Tail(wire), Later(wire, u), InRoom(c))
  BY <1>4, <1>14 DEF Follows
<1>16. Later(wire, u)[Len(Tail(wire))] = u[Len(wire)]
  BY <1>6, <1>7
<1> QED BY <1>0, <1>2, <1>3, <1>4, <1>8, <1>10, <1>11, <1>12, <1>13, <1>15, <1>16 DEF Reads

LEMMA ReadFollowed ==
    ASSUME Faithful, NEW c, NEW u, NEW here, FollowedBy(c, u, here), wire # <<>>,
           wire' = Tail(wire), mine' = mine, rooms' = rooms,
           conn' = "on", nick' = NickAfter(Message, u[0]),
           Obeys(c, Tail(wire), Later(wire, u), outq', channels'[c], "on", intent'[c], here)
    PROVE  Followed(c)'
<1>1. Reads(c, u, Message)
  BY ReadsFirst
<1>2. /\ here \in BOOLEAN /\ (here <=> InRoom(c))
      /\ u[Len(wire)].nick = mine
  BY DEF FollowedBy
<1>3. Later(wire, u)[0] = u[1] /\ u[1].nick = nick'
      /\ Later(wire, u)[Len(Tail(wire))] = u[Len(wire)]
  BY <1>1 DEF Reads, Follows
<1>4. InRoom(c)' <=> InRoom(c)
  BY DEF InRoom
<1>5. PICK t : t = Later(wire, u)
  OBVIOUS
<1>6. FollowedBy(c, t, here)'
  BY <1>2, <1>3, <1>4, <1>5 DEF FollowedBy
<1> QED BY <1>6 DEF Followed

\* A message after which the client is on the channel, or not, as before.
ReadQuietly(c, u, b) ==
    LET m == Message
        ch == channels[c]
    IN  /\ wire # <<>> /\ wire' = Tail(wire) /\ UNCHANGED <<conn, server>>
        /\ m.cmd # "001" /\ nick' = NickAfter(m, u[0])
        /\ ~Own(m, u[0], c, {"JOIN"}) /\ (ch.open => ~Own(m, u[0], c, {"PART", "KICK"}))
        /\ channels'[c] = b /\ (b.open <=> ch.open)
        /\ ch.open => /\ b.part = ch.part /\ b.cycle = ch.cycle
                      /\ b.hook_autorejoin = ch.hook_autorejoin
                      /\ u[0].in /\ u[0].nick \in DOMAIN ch.nicks => nick' \in DOMAIN b.nicks
                      /\ ch.nicks = NoNicks => b.nicks = NoNicks
        /\ AsksTheSame(outq, outq', c) /\ intent'[c] = intent[c]

LEMMA QuietFollowed ==
    ASSUME Faithful, NEW c, NEW u, NEW here, FollowedBy(c, u, here), NEW b, ReadQuietly(c, u, b)
    PROVE  Followed(c)'
<1>0. PICK m, ch : m = Message /\ ch = channels[c]
  OBVIOUS
<1>1. /\ wire # <<>> /\ wire' = Tail(wire) /\ conn' = conn /\ mine' = mine /\ rooms' = rooms
      /\ m.cmd # "001" /\ nick' = NickAfter(m, u[0])
      /\ ~Own(m, u[0], c, {"JOIN"}) /\ (ch.open => ~Own(m, u[0], c, {"PART", "KICK"}))
      /\ channels'[c] = b /\ (b.open <=> ch.open)
      /\ AsksTheSame(outq, outq', c) /\ intent'[c] = intent[c]
  BY <1>0 DEF ReadQuietly, server
<1>2. ch.open => /\ b.part = ch.part /\ b.cycle = ch.cycle
                 /\ b.hook_autorejoin = ch.hook_autorejoin
                 /\ u[0].in /\ u[0].nick \in DOMAIN ch.nicks => nick' \in DOMAIN b.nicks
                 /\ ch.nicks = NoNicks => b.nicks = NoNicks
  BY <1>0 DEF ReadQuietly
<1>3. Reads(c, u, m)
  BY <1>0, <1>1, ReadsFirst
<1>4. /\ conn = "on" /\ u[1].nick = nick' /\ wire \in Seq(Messages)
      /\ 1 \notin Came(wire, u, c) /\ (1 \in Left(wire, u, c) => ~ch.open)
  BY <1>1, <1>3 DEF Reads
<1>5. ch.open => (u[0].in <=> u[1].in)
  BY <1>3, <1>4 DEF Reads, Follows
<1>6. Obeys(c, wire, u, outq, ch, "on", intent[c], here)
  BY <1>0, <1>4 DEF FollowedBy
<1>7. Shows(u[0], ch)
  BY <1>6 DEF Obeys
<1>8. Shows(u[1], b)
  BY <1>1, <1>2, <1>4, <1>5, <1>7 DEF Shows
<1>9. Obeys(c, Tail(wire), Later(wire, u), outq', b, "on", intent[c], here)
  BY <1>1, <1>2, <1>4, <1>6, <1>8, ObeysQuiet
<1> QED BY <1>0, <1>1, <1>4, <1>9, ReadFollowed

\* A message that is about another channel.
LEMMA ElsewhereFollowed ==
    ASSUME Faithful, NEW c, Followed(c), wire # <<>>, wire' = Tail(wire),
           Message.cmd \in {"JOIN", "PART", "KICK", "MODE", "324", "353", "366"}, Message.chan # c,
           UNCHANGED <<conn, nick, server>>, channels'[c] = channels[c], intent'[c] = intent[c],
           AsksTheSame(outq, outq', c)
    PROVE  Followed(c)'
<1>1. PICK u, here : FollowedBy(c, u, here)
  BY DEF Followed
<1>2. Reads(c, u, Message)
  BY <1>1, ReadsFirst
<1>3. /\ Message.cmd # "001" /\ conn = "on" /\ u[0].nick = nick
      /\ NickAfter(Message, u[0]) = nick
  BY <1>2 DEF Reads, NickAfter
<1>4. PICK b : b = channels[c]
  OBVIOUS
<1>5. ReadQuietly(c, u, b)
  BY <1>3, <1>4 DEF ReadQuietly, Own
<1> QED BY <1>1, <1>5, QuietFollowed

LEMMA SameAsks ==
    ASSUME Faithful, outq' = outq, NEW c
    PROVE  AsksTheSame(outq, outq', c)
BY DEF AsksTheSame, Faithful, Typed

\* Only one channel is changed.
Elsewhere(c) ==
    /\ \A d \in Channel \ {c} : channels'[d] = channels[d] /\ intent'[d] = intent[d]
    /\ \A d \in Channel \ {c} : AsksTheSame(outq, outq', d)

LEMMA ReadObedient ==
    ASSUME Obedient, wire # <<>>, wire' = Tail(wire), NEW c, c = Message.chan,
           Message.cmd \in {"JOIN", "PART", "KICK", "MODE", "324", "353", "366"},
           UNCHANGED <<conn, nick, server>>, Elsewhere(c), Followed(c)'
    PROVE  \A d \in Channel : Followed(d)'
<1> SUFFICES ASSUME NEW d \in Channel PROVE Followed(d)'
  OBVIOUS
<1>1. CASE d = c
  BY <1>1
<1>2. CASE d # c
  <2>1. Faithful /\ Followed(d)
    BY DEF Obedient
  <2>2. channels'[d] = channels[d] /\ intent'[d] = intent[d] /\ AsksTheSame(outq, outq', d)
    BY <1>2 DEF Elsewhere
  <2> QED BY <1>2, <2>1, <2>2, ElsewhereFollowed
<1> QED BY <1>1, <1>2

\* A message for one channel, after which the client is there as before.
LEMMA ReadOne ==
    ASSUME Obedient, wire # <<>>, wire' = Tail(wire), NEW c \in Channel, c = Message.chan,
           Message.cmd \in {"JOIN", "PART", "KICK", "MODE", "324", "353", "366"},
           UNCHANGED <<conn, nick, server, intent>>,
           NEW b, channels' = [channels EXCEPT ![c] = b], b.open <=> channels[c].open,
           \/ Message.cmd \notin {"JOIN", "PART", "KICK"} \/ Message.nick # nick
           \/ Message.cmd # "JOIN" /\ ~channels[c].open,
           channels[c].open =>
              /\ b.part = channels[c].part /\ b.cycle = channels[c].cycle
              /\ b.hook_autorejoin = channels[c].hook_autorejoin
              /\ nick \in DOMAIN channels[c].nicks => nick \in DOMAIN b.nicks
              /\ (Message.cmd = "JOIN" => nick \in DOMAIN channels[c].nicks)
                    => (channels[c].nicks = NoNicks => b.nicks = NoNicks),
           \A d \in Channel : AsksTheSame(outq, outq', d)
    PROVE  \A d \in Channel : Followed(d)'
<1>1. Faithful /\ Typed /\ Followed(c)
  BY DEF Obedient, Faithful
<1>2. PICK u, here : FollowedBy(c, u, here)
  BY <1>1 DEF Followed
<1>3. Reads(c, u, Message)
  BY <1>1, <1>2, ReadsFirst
<1>4. /\ Message.cmd # "001" /\ conn = "on" /\ u[0].nick = nick /\ Message \in Messages
      /\ NickAfter(Message, u[0]) = nick /\ Fits(Message, u[0], c)
  BY <1>3 DEF Reads, NickAfter
<1>5. channels'[c] = b
  BY <1>1 DEF Typed
<1>6. /\ ~Own(Message, u[0], c, {"JOIN"})
      /\ channels[c].open => ~Own(Message, u[0], c, {"PART", "KICK"})
  BY <1>4 DEF Own
<1>7. ASSUME channels[c].open, Message.cmd = "JOIN"
      PROVE  nick \in DOMAIN channels[c].nicks
  <2>1. u[0].in
    BY <1>4, <1>6, <1>7 DEF Fits, Own
  <2>2. Shows(u[0], channels[c])
    BY <1>2 DEF FollowedBy, Obeys
  <2> QED BY <1>4, <1>7, <2>1, <2>2 DEF Shows
<1>8. nick' = nick /\ conn' = conn
  OBVIOUS
<1>9. channels[c].open =>
        /\ u[0].in /\ u[0].nick \in DOMAIN channels[c].nicks => nick' \in DOMAIN b.nicks
        /\ channels[c].nicks = NoNicks => b.nicks = NoNicks
  BY <1>4, <1>7, <1>8
<1>10. ReadQuietly(c, u, b)
  BY <1>4, <1>5, <1>6, <1>8, <1>9 DEF ReadQuietly
<1>11. Followed(c)'
  BY <1>1, <1>2, <1>10, QuietFollowed
<1>12. Elsewhere(c)
  BY <1>1 DEF Elsewhere, Typed
<1> QED BY <1>11, <1>12, ReadObedient

LEMMA ObeyGetJoin ==
    ASSUME Obedient, GetJoin
    PROVE  \A d \in Channel : Followed(d)'
<1>0. PICK c, ch, n : c = Message.chan /\ ch = channels[c] /\ n = Message.nick
  OBVIOUS
<1>1. /\ wire # <<>> /\ wire' = Tail(wire) /\ Message.cmd = "JOIN"
      /\ UNCHANGED <<conn, nick, timers, outq, server, intent, bounds>>
      /\ channels' = IF ch.open \/ n = nick
                     THEN [channels EXCEPT ![c] = Joined(ch, n, n = nick)] ELSE channels
  BY <1>0 DEF GetJoin, Gets, Message
<1>2. Faithful /\ Typed /\ \E v : Matches(v)
  BY DEF Obedient, Faithful
<1>3. Message \in Messages /\ c \in Channel /\ n \in Nick /\ conn = "on"
  BY <1>0, <1>1, <1>2, GetFacts, MessageFields DEF Faithful
<1>4. ch \in Buffer /\ ch.nicks \in NickList /\ (~ch.open => ~ch.cycle /\ ~ch.hook_autorejoin)
  BY <1>0, <1>2, <1>3, ChannelFacts DEF NoChannel, NewChannel
<1>5. \A d \in Channel : AsksTheSame(outq, outq', d)
  BY <1>1, <1>2, SameAsks
<1>6. PICK b : b = Joined(ch, n, n = nick)
  OBVIOUS
<1>7. PICK names : names = NewNicks(IF n = nick THEN NoNicks ELSE ch.nicks, Single(n, FALSE))
  OBVIOUS
<1>8. /\ b.open /\ b.part = FALSE /\ b.nicks = names /\ b.cycle = ch.cycle
      /\ b.hook_autorejoin = ch.hook_autorejoin
  BY <1>4, <1>6, <1>7 DEF Joined, Buffer
<1>9. names = Over(Single(n, FALSE), IF n = nick THEN NoNicks ELSE ch.nicks)
  BY <1>7 DEF NewNicks
<1>10. /\ Single(n, FALSE) \in NickList /\ DOMAIN Single(n, FALSE) = {n}
       /\ NoNicks \in NickList /\ DOMAIN NoNicks = {}
  BY <1>3, SingleFacts, ListFacts
<1>11. CASE n = nick
  <2>1. DOMAIN names = {n} /\ names # NoNicks
    BY <1>9, <1>10, <1>11, OverFacts, Zenon
  <2>2. PICK u, here : FollowedBy(c, u, here)
    BY <1>3 DEF Obedient, Followed
  <2>3. Reads(c, u, Message)
    BY <1>1, <1>2, <2>2, ReadsFirst
  <2>4. /\ u[0].nick = nick /\ u[1].nick = nick /\ NickAfter(Message, u[0]) = nick
        /\ 1 \in Came(wire, u, c) /\ wire \in Seq(Messages)
    BY <1>0, <1>1, <1>11, <2>3 DEF Reads, NickAfter, Own
  <2>5. u[1].in
    BY <2>3, <2>4 DEF Reads, Follows
  <2>6. Shows(u[1], b)
    BY <1>8, <1>11, <2>1, <2>4, <2>5 DEF Shows
  <2>7. Obeys(c, wire, u, outq, ch, "on", intent[c], here)
    BY <1>0, <1>3, <2>2 DEF FollowedBy
  <2>8. Obeys(c, Tail(wire), Later(wire, u), outq, b, "on", intent[c], here)
    BY <1>1, <1>4, <1>8, <2>1, <2>4, <2>6, <2>7, ObeysCame
  <2>9. channels' = [channels EXCEPT ![c] = b] /\ channels'[c] = b
    BY <1>1, <1>2, <1>3, <1>6, <1>11 DEF Typed
  <2>10. Followed(c)'
    <3>1. conn' = "on" /\ nick' = NickAfter(Message, u[0]) /\ mine' = mine /\ rooms' = rooms
      BY <1>1, <1>3, <2>4 DEF server
    <3>2. Obeys(c, Tail(wire), Later(wire, u), outq', channels'[c], "on", intent'[c], here)
      BY <1>1, <2>8, <2>9
    <3> QED BY <1>1, <1>2, <2>2, <3>1, <3>2, ReadFollowed
  <2>11. Elsewhere(c)
    BY <1>1, <1>5, <2>9 DEF Elsewhere
  <2> QED BY <1>0, <1>1, <2>10, <2>11, ReadObedient
<1>12. CASE n # nick /\ ch.open
  <2>1. DOMAIN names = {n} \cup DOMAIN ch.nicks
    <3>1. names = Over(Single(n, FALSE), ch.nicks)
      BY <1>9, <1>12
    <3>2. DOMAIN Over(Single(n, FALSE), ch.nicks) = DOMAIN Single(n, FALSE) \cup DOMAIN ch.nicks
      BY <1>4, <1>10, OverFacts
    <3> QED BY <1>10, <3>1, <3>2
  <2>2. channels' = [channels EXCEPT ![c] = b]
    BY <1>1, <1>6, <1>12
  <2>3. PICK u, here : FollowedBy(c, u, here)
    BY <1>3 DEF Obedient, Followed
  <2>4. Reads(c, u, Message)
    BY <1>1, <1>2, <2>3, ReadsFirst
  <2>5. u[0].nick = nick /\ u[0].in
    BY <1>0, <1>1, <1>12, <2>4 DEF Reads, Fits
  <2>6. nick \in DOMAIN ch.nicks /\ ~ch.part
    <3>1. Shows(u[0], ch)
      BY <1>0, <2>3 DEF FollowedBy, Obeys
    <3> QED BY <1>12, <2>5, <3>1 DEF Shows, NoNicks
  <2>7. ch.nicks # NoNicks /\ b.part = ch.part
    BY <1>4, <1>8, <1>10, <2>6 DEF Buffer
  <2>8. UNCHANGED <<conn, nick, server, intent>>
    BY <1>1
  <2> QED BY <1>0, <1>1, <1>3, <1>5, <1>8, <1>12, <2>1, <2>2, <2>7, <2>8, ReadOne, Zenon
<1>13. CASE n # nick /\ ~ch.open
  <2>1. channels' = [channels EXCEPT ![c] = ch]
    BY <1>0, <1>1, <1>2, <1>13 DEF Typed
  <2>2. UNCHANGED <<conn, nick, server, intent>>
    BY <1>1
  <2> QED BY <1>0, <1>1, <1>3, <1>5, <1>13, <2>1, <2>2, ReadOne
<1> QED BY <1>11, <1>12, <1>13

\* The nick of someone else leaves the list, or the channel is closed.
LEMMA ObeyOtherLeft ==
    ASSUME Obedient, wire # <<>>, wire' = Tail(wire), NEW c, c = Message.chan,
           Message.cmd \in {"PART", "KICK"}, ~channels[c].open \/ Message.nick # nick,
           NEW b, b = WithNicks(channels[c], Without(channels[c].nicks, Message.nick)),
           channels' = [channels EXCEPT ![c] = b],
           UNCHANGED <<conn, nick, outq, server, intent>>
    PROVE  \A d \in Channel : Followed(d)'
<1>1. Faithful /\ Typed /\ Registered /\ \E v : Matches(v)
  BY DEF Obedient, Faithful
<1>2. Message \in Messages /\ c \in Channel
  BY <1>1, GetFacts, MessageFields
<1>3. PICK ch, list : ch = channels[c] /\ list = Without(ch.nicks, Message.nick)
  OBVIOUS
<1>4. /\ ch \in Buffer /\ ch.nicks \in NickList
  BY <1>1, <1>2, <1>3, ChannelFacts
<1>5. /\ list \in NickList /\ DOMAIN list = DOMAIN ch.nicks \ {Message.nick}
      /\ ch.nicks = NoNicks => list = NoNicks
  BY <1>3, <1>4, WithoutFacts
<1>6. b = WithNicks(ch, list)
  BY <1>3
<1>7. /\ b.open = ch.open /\ b.nicks = list /\ b.part = ch.part /\ b.cycle = ch.cycle
      /\ b.hook_autorejoin = ch.hook_autorejoin
  BY <1>4, <1>5, <1>6 DEF WithNicks, Buffer
<1>8. \A d \in Channel : AsksTheSame(outq, outq', d)
  BY <1>1, SameAsks
<1>9. ch.open => /\ nick \in DOMAIN ch.nicks => nick \in DOMAIN b.nicks
                 /\ ch.nicks = NoNicks => b.nicks = NoNicks
  BY <1>3, <1>5, <1>7
<1>10. UNCHANGED <<conn, nick, server, intent>>
  OBVIOUS
<1> QED BY <1>2, <1>3, <1>7, <1>8, <1>9, <1>10, ReadOne, Zenon

\* The client reads that it left the channel c, or was kicked.
OwnLeft(c, u, here, m) ==
    /\ c \in Channel /\ FollowedBy(c, u, here) /\ Reads(c, u, m)
    /\ conn = "on" /\ NickAfter(m, u[0]) = nick /\ wire \in Seq(Messages) /\ wire # <<>>
    /\ wire[1] = m /\ 1 \in Left(wire, u, c)
    /\ Obeys(c, wire, u, outq, channels[c], "on", intent[c], here)

LEMMA OwnLeftRead ==
    ASSUME Obedient, wire # <<>>, NEW c, c = Message.chan,
           Message.cmd \in {"PART", "KICK"}, Message.nick = nick
    PROVE  \E u, here : OwnLeft(c, u, here, Message)
<1>1. Faithful /\ Typed /\ Registered /\ \E v : Matches(v)
  BY DEF Obedient, Faithful
<1>2. Message \in Messages /\ c \in Channel
  BY <1>1, GetFacts, MessageFields
<1>3. PICK u, here : FollowedBy(c, u, here)
  BY <1>2 DEF Obedient, Followed
<1>4. Reads(c, u, Message)
  BY <1>1, <1>3, ReadsFirst
<1>5. /\ u[0].nick = nick /\ NickAfter(Message, u[0]) = nick /\ conn = "on"
      /\ 1 \in Left(wire, u, c) /\ wire \in Seq(Messages)
  BY <1>4 DEF Reads, NickAfter, Own
<1>6. Obeys(c, wire, u, outq, channels[c], "on", intent[c], here)
  BY <1>3, <1>5 DEF FollowedBy
<1>7. wire[1] = Message
  BY <1>5, TailFacts DEF Message
<1> QED BY <1>2, <1>3, <1>4, <1>5, <1>6, <1>7 DEF OwnLeft

LEMMA OwnLeftFollowed ==
    ASSUME Obedient, NEW c, NEW u, NEW here, OwnLeft(c, u, here, Message), c = Message.chan,
           Message.cmd \in {"PART", "KICK"}, wire' = Tail(wire), UNCHANGED <<conn, nick, server>>,
           NEW b, channels' = [channels EXCEPT ![c] = b],
           \A d \in Channel \ {c} : intent'[d] = intent[d],
           outq' \in Queued(outq, Cmd("JOIN", c)) \cup {outq},
           Obeys(c, Tail(wire), Later(wire, u), outq', b, "on", intent'[c], here)
    PROVE  \A d \in Channel : Followed(d)'
<1>1. Faithful /\ Typed
  BY DEF Obedient, Faithful
<1>2. /\ c \in Channel /\ FollowedBy(c, u, here) /\ conn = "on" /\ NickAfter(Message, u[0]) = nick
      /\ wire # <<>>
  BY DEF OwnLeft
<1>3. channels \in [Channel -> Buffer] /\ outq \in Seq(Command)
  BY <1>1 DEF Typed
<1>4. channels'[c] = b /\ \A d \in Channel \ {c} : channels'[d] = channels[d]
  BY <1>2, <1>3
<1>5. conn' = "on" /\ nick' = NickAfter(Message, u[0]) /\ mine' = mine /\ rooms' = rooms
  BY <1>2 DEF server
<1>6. Obeys(c, Tail(wire), Later(wire, u), outq', channels'[c], "on", intent'[c], here)
  BY <1>4
<1>7. Followed(c)'
  BY <1>1, <1>2, <1>5, <1>6, ReadFollowed
<1>8. ASSUME NEW d \in Channel \ {c}
      PROVE  AsksTheSame(outq, outq', d)
  <2>1. Cmd("JOIN", c) \in Command /\ ~Asks(Cmd("JOIN", c), d)
    BY <1>2, CommandType DEF Asks
  <2> QED BY <1>3, <2>1, QueuedElsewhere
<1>9. Elsewhere(c)
  BY <1>4, <1>8 DEF Elsewhere
<1> QED BY <1>2, <1>7, <1>9, ReadObedient

LEMMA ObeyGetPart ==
    ASSUME Obedient, NEW closes \in BOOLEAN, GetPart(closes)
    PROVE  \A d \in Channel : Followed(d)'
<1>0. PICK c, ch : c = Message.chan /\ ch = channels[c]
  OBVIOUS
<1>1. /\ wire # <<>> /\ wire' = Tail(wire) /\ Message.cmd = "PART"
      /\ UNCHANGED <<conn, nick, server, intent, bounds>>
  BY DEF GetPart, Gets, Message
<1>2. PICK left : left = [ch EXCEPT !.nicks = NoNicks, !.cycle = FALSE, !.part = ~ch.cycle]
  OBVIOUS
<1>3. OwnPart(channels[c], c).left = left /\ OwnPart(channels[c], c).onClose = SentOnClose(left, c)
  BY <1>0, <1>2 DEF OwnPart
<1>4. CASE ~ch.open \/ Message.nick # nick
  <2>1. PICK b : b = WithNicks(ch, Without(ch.nicks, Message.nick))
    OBVIOUS
  <2>2. channels' = [channels EXCEPT ![c] = b] /\ UNCHANGED <<timers, outq>>
    BY <1>0, <1>4, <2>1 DEF GetPart, WithNicks
  <2>3. UNCHANGED <<conn, nick, outq, server, intent>>
    BY <1>1, <2>2
  <2> QED BY <1>0, <1>1, <1>4, <2>1, <2>2, <2>3, ObeyOtherLeft
<1>5. CASE ch.open /\ Message.nick = nick
  <2>1. PICK u, here : OwnLeft(c, u, here, Message)
    BY <1>0, <1>1, <1>5, OwnLeftRead
  <2>2. /\ c \in Channel /\ wire \in Seq(Messages) /\ 1 \in Left(wire, u, c)
        /\ wire[1].cmd = "PART"
        /\ Obeys(c, wire, u, outq, ch, "on", intent[c], here)
    BY <1>0, <1>1, <2>1 DEF OwnLeft
  <2>3. ch \in Buffer /\ ch.cycle \in BOOLEAN /\ outq \in Seq(Command)
    BY <1>0, <2>2, ChannelFacts DEF Obedient, Faithful, Typed
  <2>4. /\ left.open = ch.open /\ left.nicks = NoNicks /\ left.cycle = FALSE /\ left.part = ~ch.cycle
        /\ left.hook_autorejoin = ch.hook_autorejoin
    BY <1>2, <2>3 DEF Buffer
  <2>5. UNCHANGED <<conn, nick, server>> /\ intent' = intent
    BY <1>1
  <2>6. ASSUME NEW b, channels' = [channels EXCEPT ![c] = b],
               outq' \in Queued(outq, Cmd("JOIN", c)) \cup {outq},
               Obeys(c, Tail(wire), Later(wire, u), outq', b, "on", intent[c], here)
        PROVE  \A d \in Channel : Followed(d)'
    BY <1>0, <1>1, <2>1, <2>5, <2>6, OwnLeftFollowed
  <2>7. CASE ch.cycle
    <3>1. channels' = [channels EXCEPT ![c] = left] /\ outq' \in Queued(outq, Cmd("JOIN", c))
      BY <1>0, <1>3, <1>5, <2>7 DEF GetPart
    <3>2. Ends(outq', c, "JOIN")
      BY <2>2, <2>3, <3>1, QueuedHere
    <3>3. Obeys(c, Tail(wire), Later(wire, u), outq', left, "on", intent[c], here)
      BY <1>1, <1>5, <2>2, <2>4, <2>7, <3>2, ObeysRejoins
    <3> QED BY <2>6, <3>1, <3>3
  <2>8. CASE ~ch.cycle /\ closes
    <3>1. channels' = [channels EXCEPT ![c] = NoChannel] /\ outq' \in SentOnClose(left, c)
      BY <1>0, <1>3, <1>5, <2>8 DEF GetPart
    <3>2. outq' = outq
      BY <2>4, <3>1 DEF SentOnClose
    <3>3. PICK b : b = NoChannel
      OBVIOUS
    <3>4. ~b.open
      BY <3>3, NoChannelFacts
    <3>5. Obeys(c, Tail(wire), Later(wire, u), outq, b, "on", intent[c], here)
      BY <1>1, <1>5, <2>2, <2>8, <3>4, ObeysGone
    <3> QED BY <2>6, <3>1, <3>2, <3>3, <3>5
  <2>9. CASE ~ch.cycle /\ ~closes
    <3>1. channels' = [channels EXCEPT ![c] = left] /\ outq' = outq
      BY <1>0, <1>3, <1>5, <2>9 DEF GetPart
    <3>2. Obeys(c, Tail(wire), Later(wire, u), outq, left, "on", intent[c], here)
      BY <1>1, <1>5, <2>2, <2>4, <2>9, ObeysGone
    <3> QED BY <2>6, <3>1, <3>2
  <2> QED BY <2>3, <2>7, <2>8, <2>9
<1> QED BY <1>4, <1>5

LEMMA ObeyGetKick ==
    ASSUME Obedient, NEW autorejoin \in AutorejoinModes, GetKick(autorejoin)
    PROVE  \A d \in Channel : Followed(d)'
<1>0. PICK c, ch : c = Message.chan /\ ch = channels[c]
  OBVIOUS
<1>1. /\ wire # <<>> /\ wire' = Tail(wire) /\ Message.cmd = "KICK"
      /\ UNCHANGED <<conn, nick, server, bounds>>
  BY DEF GetKick, Gets, Message
<1>2. CASE ~ (ch.open /\ Message.nick = nick)
  <2>1. PICK b : b = WithNicks(ch, Without(ch.nicks, Message.nick))
    OBVIOUS
  <2>2. channels' = [channels EXCEPT ![c] = b] /\ UNCHANGED <<timers, outq, intent>>
    BY <1>0, <1>2, <2>1 DEF GetKick, WithNicks
  <2>3. UNCHANGED <<conn, nick, outq, server, intent>>
    BY <1>1, <2>2
  <2> QED BY <1>0, <1>1, <1>2, <2>1, <2>2, <2>3, ObeyOtherLeft
<1>3. CASE ch.open /\ Message.nick = nick
  <2>1. PICK u, here : OwnLeft(c, u, here, Message)
    BY <1>0, <1>1, <1>3, OwnLeftRead
  <2>2. /\ c \in Channel /\ wire \in Seq(Messages) /\ 1 \in Left(wire, u, c)
        /\ Obeys(c, wire, u, outq, ch, "on", intent[c], here)
    BY <1>0, <2>1 DEF OwnLeft
  <2>3. ch \in Buffer /\ ch.hook_autorejoin \in BOOLEAN /\ outq \in Seq(Command)
        /\ channels \in [Channel -> Buffer] /\ intent \in [Channel -> {"in", "out", "any"}]
    BY <1>0, <2>2, ChannelFacts DEF Obedient, Faithful, Typed
  <2>4. OwnKick(c, autorejoin)
    BY <1>0, <1>3 DEF GetKick
  <2>5. PICK b : b = [ch EXCEPT !.nicks = NoNicks,
                                !.hook_autorejoin = ch.hook_autorejoin \/ autorejoin = "later"]
    OBVIOUS
  <2>6. channels' = [channels EXCEPT ![c] = b]
    BY <1>0, <2>2, <2>3, <2>4, <2>5 DEF OwnKick
  <2>7. /\ b.open = ch.open /\ b.nicks = NoNicks /\ b.cycle = ch.cycle
        /\ b.hook_autorejoin = (ch.hook_autorejoin \/ autorejoin = "later")
    BY <2>3, <2>5 DEF Buffer
  <2>8. /\ intent'[c] = IF intent[c] = "in" /\ autorejoin # "no" THEN intent[c] ELSE "any"
        /\ \A d \in Channel \ {c} : intent'[d] = intent[d]
    BY <2>2, <2>3, <2>4 DEF OwnKick
  <2>9. PICK want2 : want2 = intent'[c]
    OBVIOUS
  <2>10. /\ want2 # "out" /\ (want2 = "in" => intent[c] = "in" /\ autorejoin # "no")
    BY <2>8, <2>9
  <2>11. /\ autorejoin \in {"no", "now", "later"}
         /\ outq' \in IF autorejoin = "now" THEN Queued(outq, Cmd("JOIN", c)) ELSE {outq}
    BY <2>4, ChannelsAssumption DEF OwnKick
  <2>12. Obeys(c, Tail(wire), Later(wire, u), outq', b, "on", want2, here)
    <3>1. CASE autorejoin = "later"
      <4>1. outq' = outq /\ b.hook_autorejoin
        BY <2>7, <2>11, <3>1
      <4> QED BY <1>1, <1>3, <2>2, <2>7, <2>10, <4>1, ObeysWaits
    <3>2. CASE autorejoin # "later"
      <4>1. want2 = "in" => Ends(outq', c, "JOIN")
        <5> SUFFICES ASSUME want2 = "in" PROVE Ends(outq', c, "JOIN")
          OBVIOUS
        <5>1. outq' \in Queued(outq, Cmd("JOIN", c))
          BY <2>10, <2>11, <3>2
        <5> QED BY <2>2, <2>3, <5>1, QueuedHere
      <4> QED BY <1>1, <1>3, <2>2, <2>7, <2>10, <4>1, ObeysRejoins
    <3> QED BY <3>1, <3>2
  <2>13. Obeys(c, Tail(wire), Later(wire, u), outq', b, "on", intent'[c], here)
    BY <2>9, <2>12
  <2>14. outq' \in Queued(outq, Cmd("JOIN", c)) \cup {outq} /\ UNCHANGED <<conn, nick, server>>
    BY <1>1, <2>11
  <2> QED BY <1>0, <1>1, <2>1, <2>6, <2>8, <2>13, <2>14, OwnLeftFollowed
<1> QED BY <1>2, <1>3

\* What becomes of a channel by a message that brings nobody in or out.
KeepsNicks(ch, b) ==
    /\ b.open = ch.open /\ b.part = ch.part /\ b.cycle = ch.cycle
    /\ b.hook_autorejoin = ch.hook_autorejoin
    /\ DOMAIN ch.nicks \subseteq DOMAIN b.nicks
    /\ ch.nicks = NoNicks => b.nicks = NoNicks

LEMMA ObeyShown ==
    ASSUME Obedient, wire # <<>>, wire' = Tail(wire), NEW c, c = Message.chan,
           Message.cmd \in {"MODE", "324", "353", "366"},
           UNCHANGED <<conn, nick, server, intent>>,
           NEW b, channels' = [channels EXCEPT ![c] = b], KeepsNicks(channels[c], b),
           \A d \in Channel : AsksTheSame(outq, outq', d)
    PROVE  \A d \in Channel : Followed(d)'
<1>1. PICK v : Typed /\ Registered /\ Matches(v)
  BY DEF Obedient, Faithful
<1>2. c \in Channel
  BY <1>1, Shown
<1>3. /\ b.open <=> channels[c].open
      /\ b.part = channels[c].part /\ b.cycle = channels[c].cycle
      /\ b.hook_autorejoin = channels[c].hook_autorejoin
      /\ nick \in DOMAIN channels[c].nicks => nick \in DOMAIN b.nicks
      /\ channels[c].nicks = NoNicks => b.nicks = NoNicks
  BY DEF KeepsNicks
<1>4. UNCHANGED <<conn, nick, server, intent>>
  OBVIOUS
<1> QED BY <1>2, <1>3, <1>4, ReadOne

LEMMA ObeyGetMode ==
    ASSUME Obedient, GetMode
    PROVE  \A d \in Channel : Followed(d)'
<1>0. PICK c, ch : c = Message.chan /\ ch = channels[c]
  OBVIOUS
<1>1. /\ wire # <<>> /\ wire' = Tail(wire) /\ Message.cmd = "MODE" /\ outq' = outq
      /\ UNCHANGED <<conn, nick, server, intent>>
  BY DEF GetMode, Gets, Message
<1>2. PICK v : Faithful /\ Typed /\ Registered /\ Matches(v)
  BY DEF Obedient, Faithful
<1>3. /\ c \in Channel /\ ch \in Buffer /\ ch.nicks \in NickList /\ Message.set \in BOOLEAN
      /\ channels \in [Channel -> Buffer]
  BY <1>0, <1>1, <1>2, Shown, MessageFields
<1>4. \A d \in Channel : AsksTheSame(outq, outq', d)
  BY <1>1, <1>2, SameAsks
<1>5. ASSUME NEW b, channels' = [channels EXCEPT ![c] = b], KeepsNicks(ch, b)
      PROVE  \A d \in Channel : Followed(d)'
  BY <1>0, <1>1, <1>4, <1>5, ObeyShown
<1>6. CASE channels' = channels
  <2>1. channels' = [channels EXCEPT ![c] = ch]
    BY <1>0, <1>3, <1>6
  <2>2. KeepsNicks(ch, ch)
    BY DEF KeepsNicks
  <2> QED BY <1>5, <2>1, <2>2
<1>7. CASE ch.open /\ Message.nick = NoNick
  <2>1. PICK b : b = [ch EXCEPT !.modes = ModeName(Message.set)]
    OBVIOUS
  <2>2. channels' = [channels EXCEPT ![c] = b]
    BY <1>0, <1>7, <2>1 DEF GetMode, ModeName
  <2>3. KeepsNicks(ch, b)
    BY <1>3, <2>1 DEF KeepsNicks, Buffer
  <2> QED BY <1>5, <2>2, <2>3
<1>8. CASE ch.open /\ Message.nick # NoNick /\ Message.nick \in DOMAIN ch.nicks
  <2>1. PICK list : list = [ch.nicks EXCEPT ![Message.nick] = Message.set]
    OBVIOUS
  <2>2. PICK b : b = WithNicks(ch, list)
    OBVIOUS
  <2>3. channels' = [channels EXCEPT ![c] = b]
    BY <1>0, <1>8, <2>1, <2>2 DEF GetMode, WithNicks
  <2>4. list \in NickList /\ DOMAIN list = DOMAIN ch.nicks
    BY <1>3, <1>8, <2>1, ExceptFacts
  <2>5. ch.nicks = NoNicks => list = NoNicks
    BY <1>3, <2>4, ListFacts
  <2>6. KeepsNicks(ch, b)
    BY <1>3, <2>2, <2>4, <2>5 DEF KeepsNicks, WithNicks, Buffer
  <2> QED BY <1>5, <2>3, <2>6
<1>9. CASE ~ch.open \/ (Message.nick # NoNick /\ Message.nick \notin DOMAIN ch.nicks)
  <2>1. channels' = channels
    BY <1>0, <1>9 DEF GetMode
  <2> QED BY <1>6, <2>1
<1> QED BY <1>3, <1>7, <1>8, <1>9

LEMMA ObeyGet324 ==
    ASSUME Obedient, Get324
    PROVE  \A d \in Channel : Followed(d)'
<1>0. PICK c, ch : c = Message.chan /\ ch = channels[c]
  OBVIOUS
<1>1. /\ wire # <<>> /\ wire' = Tail(wire) /\ Message.cmd = "324" /\ outq' = outq
      /\ UNCHANGED <<conn, nick, server, intent>>
  BY DEF Get324, Gets, Message
<1>2. PICK v : Faithful /\ Typed /\ Registered /\ Matches(v)
  BY DEF Obedient, Faithful
<1>3. c \in Channel /\ ch \in Buffer /\ channels \in [Channel -> Buffer]
  BY <1>0, <1>1, <1>2, Shown
<1>4. PICK b : b = IF ch.open THEN [ch EXCEPT !.modes = ModeName(Message.set)] ELSE ch
  OBVIOUS
<1>5. channels' = [channels EXCEPT ![c] = b]
  BY <1>0, <1>3, <1>4 DEF Get324, ModeName
<1>6. KeepsNicks(ch, b)
  BY <1>3, <1>4 DEF KeepsNicks, Buffer
<1>7. \A d \in Channel : AsksTheSame(outq, outq', d)
  BY <1>1, <1>2, SameAsks
<1> QED BY <1>0, <1>1, <1>5, <1>6, <1>7, ObeyShown

LEMMA ObeyGet353 ==
    ASSUME Obedient, Get353
    PROVE  \A d \in Channel : Followed(d)'
<1>0. PICK c, ch : c = Message.chan /\ ch = channels[c]
  OBVIOUS
<1>1. /\ wire # <<>> /\ wire' = Tail(wire) /\ Message.cmd = "353" /\ outq' = outq
      /\ UNCHANGED <<conn, nick, server, intent>>
  BY DEF Get353, Gets, Message
<1>2. PICK v : Faithful /\ Typed /\ Registered /\ Matches(v)
  BY DEF Obedient, Faithful
<1>3. /\ c \in Channel /\ ch \in Buffer /\ channels \in [Channel -> Buffer]
      /\ ch.nicks \in NickList /\ Message.list \in NickList
  BY <1>0, <1>1, <1>2, Shown, MessageFields
<1>4. PICK list : list = IF ch.nicks = NoNicks THEN ch.nicks ELSE Over(Message.list, ch.nicks)
  OBVIOUS
<1>5. PICK b : b = WithNicks(ch, list)
  OBVIOUS
<1>6. /\ list \in NickList /\ DOMAIN ch.nicks \subseteq DOMAIN list
      /\ ch.nicks = NoNicks => list = NoNicks
  <2>1. CASE ch.nicks = NoNicks
    BY <1>3, <1>4, <2>1
  <2>2. CASE ch.nicks # NoNicks
    <3>1. list = Over(Message.list, ch.nicks)
      BY <1>4, <2>2
    <3>2. /\ Over(Message.list, ch.nicks) \in NickList
          /\ DOMAIN Over(Message.list, ch.nicks) = DOMAIN Message.list \cup DOMAIN ch.nicks
      BY <1>3, OverFacts
    <3> QED BY <2>2, <3>1, <3>2
  <2> QED BY <2>1, <2>2
<1>7. channels' = [channels EXCEPT ![c] = b]
  <2>1. CASE ch.nicks = NoNicks
    <3>1. channels' = channels /\ b = ch
      BY <1>0, <1>3, <1>4, <1>5, <2>1, WithNicksFacts DEF Get353
    <3> QED BY <1>0, <1>3, <3>1
  <2>2. CASE ch.nicks # NoNicks
    BY <1>0, <1>4, <1>5, <2>2 DEF Get353, NewNicks, WithNicks
  <2> QED BY <2>1, <2>2
<1>8. KeepsNicks(ch, b)
  BY <1>3, <1>5, <1>6 DEF KeepsNicks, WithNicks, Buffer
<1>9. \A d \in Channel : AsksTheSame(outq, outq', d)
  BY <1>1, <1>2, SameAsks
<1> QED BY <1>0, <1>1, <1>7, <1>8, <1>9, ObeyShown

LEMMA ObeyGet366 ==
    ASSUME Obedient, Get366
    PROVE  \A d \in Channel : Followed(d)'
<1>0. PICK c, ch : c = Message.chan /\ ch = channels[c]
  OBVIOUS
<1>1. /\ wire # <<>> /\ wire' = Tail(wire) /\ Message.cmd = "366"
      /\ UNCHANGED <<conn, nick, server, intent>>
  BY DEF Get366, Gets, Message
<1>2. PICK v : Faithful /\ Typed /\ Registered /\ Matches(v)
  BY DEF Obedient, Faithful
<1>3. c \in Channel /\ ch \in Buffer /\ channels \in [Channel -> Buffer] /\ outq \in Seq(Command)
  BY <1>0, <1>1, <1>2, Shown
<1>4. PICK b : b = IF ch.open THEN [ch EXCEPT !.named = TRUE] ELSE ch
  OBVIOUS
<1>5. channels' = [channels EXCEPT ![c] = b]
  BY <1>0, <1>3, <1>4 DEF Get366
<1>6. KeepsNicks(ch, b)
  BY <1>3, <1>4 DEF KeepsNicks, Buffer
<1>7. outq' = Append(outq, Cmd("MODE", c)) \/ outq' = outq
  BY <1>0 DEF Get366
<1>8. ASSUME NEW d \in Channel
      PROVE  AsksTheSame(outq, outq', d)
  <2>1. Cmd("MODE", c) \in Command /\ ~Asks(Cmd("MODE", c), d)
    BY <1>3, CommandType DEF Asks
  <2>2. AsksTheSame(outq, Append(outq, Cmd("MODE", c)), d)
    BY <1>3, <2>1, AppendedElsewhere
  <2>3. CASE outq' = Append(outq, Cmd("MODE", c))
    BY <2>2, <2>3
  <2>4. CASE outq' = outq
    BY <1>2, <2>4, SameAsks
  <2> QED BY <1>7, <2>3, <2>4
<1>9. \A d \in Channel : AsksTheSame(outq, outq', d)
  BY <1>8
<1> QED BY <1>0, <1>1, <1>5, <1>6, <1>9, ObeyShown

\* A nick changes, or leaves: the channels have the lists l.
LEMMA ObeyAll ==
    ASSUME Obedient, wire # <<>>, wire' = Tail(wire), Message.cmd \in {"NICK", "QUIT"},
           UNCHANGED <<conn, outq, server, intent>>,
           nick' = NickAfter(Message, [nick |-> nick]),
           NEW l \in [Channel -> NickList],
           channels' = [c \in Channel |-> WithNicks(channels[c], l[c])],
           \A c \in Channel :
              /\ channels[c].nicks = NoNicks => l[c] = NoNicks
              /\ nick \in DOMAIN channels[c].nicks /\ (Message.cmd = "QUIT" => Message.nick # nick)
                    => nick' \in DOMAIN l[c]
    PROVE  \A d \in Channel : Followed(d)'
<1> SUFFICES ASSUME NEW c \in Channel PROVE Followed(c)'
  OBVIOUS
<1>1. Faithful /\ Typed
  BY DEF Obedient, Faithful
<1>2. PICK u, here : FollowedBy(c, u, here)
  BY DEF Obedient, Followed
<1>3. Reads(c, u, Message)
  BY <1>1, <1>2, ReadsFirst
<1>4. /\ Message.cmd # "001" /\ conn = "on" /\ u[0].nick = nick
      /\ Message.cmd = "QUIT" => Message.nick # nick
      /\ ~Own(Message, u[0], c, {"JOIN"}) /\ ~Own(Message, u[0], c, {"PART", "KICK"})
  BY <1>3 DEF Reads, Fits, Own
<1>5. nick' = NickAfter(Message, u[0])
  BY <1>4 DEF NickAfter
<1>6. PICK ch, b : ch = channels[c] /\ b = WithNicks(ch, l[c])
  OBVIOUS
<1>7. ch \in Buffer /\ l[c] \in NickList /\ channels'[c] = b
  BY <1>1, <1>6, ChannelFacts
<1>8. /\ b.open = ch.open /\ b.nicks = l[c] /\ b.part = ch.part /\ b.cycle = ch.cycle
      /\ b.hook_autorejoin = ch.hook_autorejoin
  BY <1>6, <1>7 DEF WithNicks, Buffer
<1>9. /\ u[0].nick \in DOMAIN ch.nicks => nick' \in DOMAIN b.nicks
      /\ ch.nicks = NoNicks => b.nicks = NoNicks
  BY <1>4, <1>6, <1>8
<1>10. AsksTheSame(outq, outq', c)
  BY <1>1, SameAsks
<1>11. UNCHANGED <<conn, server>> /\ intent'[c] = intent[c]
  OBVIOUS
<1>12. ReadQuietly(c, u, b)
  BY <1>4, <1>5, <1>6, <1>7, <1>8, <1>9, <1>10, <1>11 DEF ReadQuietly
<1> QED BY <1>1, <1>2, <1>12, QuietFollowed

LEMMA ObeyGetNick ==
    ASSUME Obedient, GetNick
    PROVE  \A d \in Channel : Followed(d)'
<1>1. /\ wire # <<>> /\ wire' = Tail(wire) /\ Message.cmd = "NICK"
      /\ UNCHANGED <<conn, outq, server, intent>>
  BY DEF GetNick, Gets, Message
<1>2. PICK v : Typed /\ Registered /\ Matches(v)
  BY DEF Obedient, Faithful
<1>3. Message \in Messages /\ Message.nick \in Nick /\ Message.new \in Nick
  BY <1>1, <1>2, GetFacts, MessageFields
<1>4. PICK l : l = [c \in Channel |-> NickChanged(channels[c].nicks, Message.nick, Message.new)]
  OBVIOUS
<1>5. channels' = [c \in Channel |-> WithNicks(channels[c], l[c])]
  BY <1>4 DEF GetNick, WithNicks
<1>6. /\ nick' = IF Message.nick = nick THEN Message.new ELSE nick
      /\ nick' = NickAfter(Message, [nick |-> nick])
  <2>1. nick' = IF Message.nick = nick THEN Message.new ELSE nick
    BY DEF GetNick
  <2> QED BY <1>1, <2>1 DEF NickAfter
<1>7. ASSUME NEW c \in Channel
      PROVE  /\ l[c] \in NickList
             /\ channels[c].nicks = NoNicks => l[c] = NoNicks
             /\ nick \in DOMAIN channels[c].nicks => nick' \in DOMAIN l[c]
  <2>1. PICK list : list = channels[c].nicks
    OBVIOUS
  <2>2. l[c] = NickChanged(list, Message.nick, Message.new) /\ list \in NickList
    BY <1>2, <1>4, <2>1, ChannelFacts
  <2>3. /\ l[c] \in NickList
        /\ Message.nick \in DOMAIN list => DOMAIN l[c] = (DOMAIN list \ {Message.nick}) \cup {Message.new}
        /\ Message.nick \notin DOMAIN list => l[c] = list
        /\ list = NoNicks => l[c] = NoNicks
    BY <1>3, <2>2, ChangedFacts
  <2> QED BY <1>6, <2>1, <2>3
<1>8. l \in [Channel -> NickList]
  BY <1>4, <1>7
<1>9. UNCHANGED <<conn, outq, server, intent>>
  BY <1>1
<1> QED BY <1>1, <1>5, <1>6, <1>7, <1>8, <1>9, ObeyAll

LEMMA ObeyGetQuit ==
    ASSUME Obedient, GetQuit
    PROVE  \A d \in Channel : Followed(d)'
<1>1. /\ wire # <<>> /\ wire' = Tail(wire) /\ Message.cmd = "QUIT" /\ nick' = nick
      /\ UNCHANGED <<conn, outq, server, intent>>
  BY DEF GetQuit, Gets, Message
<1>2. PICK v : Typed /\ Registered /\ Matches(v)
  BY DEF Obedient, Faithful
<1>3. PICK l : l = [c \in Channel |-> Without(channels[c].nicks, Message.nick)]
  OBVIOUS
<1>4. channels' = [c \in Channel |-> WithNicks(channels[c], l[c])]
  BY <1>3 DEF GetQuit, WithNicks
<1>5. nick' = NickAfter(Message, [nick |-> nick])
  BY <1>1 DEF NickAfter
<1>6. ASSUME NEW c \in Channel
      PROVE  /\ l[c] \in NickList
             /\ channels[c].nicks = NoNicks => l[c] = NoNicks
             /\ nick \in DOMAIN channels[c].nicks /\ Message.nick # nick => nick' \in DOMAIN l[c]
  <2>1. l[c] = Without(channels[c].nicks, Message.nick) /\ channels[c].nicks \in NickList
    BY <1>2, <1>3, ChannelFacts
  <2>2. PICK n, list : n = Message.nick /\ list = channels[c].nicks
    OBVIOUS
  <2>3. l[c] = Without(list, n) /\ list \in NickList
    BY <2>1, <2>2
  <2>4. /\ l[c] \in NickList /\ DOMAIN l[c] = DOMAIN list \ {n}
        /\ list = NoNicks => l[c] = NoNicks
    BY <2>3, WithoutFacts
  <2> QED BY <1>1, <2>2, <2>4
<1>7. l \in [Channel -> NickList]
  BY <1>3, <1>6
<1>8. UNCHANGED <<conn, outq, server, intent>>
  BY <1>1
<1> QED BY <1>1, <1>4, <1>5, <1>6, <1>7, <1>8, ObeyAll

\* The commands that join the channels of S in some order.
LEMMA JoinsAll ==
    ASSUME NEW S \in SUBSET Channel, NEW order \in SetToSeqs(S), NEW r,
           r = <<>> \o [i \in DOMAIN order |-> Cmd("JOIN", order[i])], NEW c \in Channel
    PROVE  IF c \in S THEN Ends(r, c, "JOIN") ELSE Unasked(r, c)
<1>1. PICK n : n = Cardinality(S)
  OBVIOUS
<1>2. IsFiniteSet(S) /\ n \in Nat
  BY <1>1, ChannelsAssumption, FS_Subset, FS_CardinalityType
<1>3. order \in [1 .. n -> S] /\ \A i, j \in 1 .. n : i # j => order[i] # order[j]
  BY <1>1 DEF SetToSeqs
<1>4. \A k \in S : \E i \in 1 .. n : order[i] = k
  <2>1. order \in Injection(1 .. n, S)
    BY <1>3 DEF Injection, IsInjective
  <2>2. Cardinality(1 .. n) = n
    BY <1>2, FS_Interval
  <2>3. order \in Surjection(1 .. n, S)
    BY <1>1, <1>2, <2>1, <2>2, FS_Injection
  <2> QED BY <2>3 DEF Surjection
<1>5. PICK f : f = [i \in 1 .. n |-> Cmd("JOIN", order[i])]
  OBVIOUS
<1>6. f \in [1 .. n -> Command]
  <2>1. \A i \in 1 .. n : Cmd("JOIN", order[i]) \in Command
    BY <1>3, CommandType
  <2> QED BY <1>5, <2>1
<1>7. f \in Seq(Command)
  BY <1>2, <1>6, FunctionIsSeq
<1>8. r = f
  <2>1. DOMAIN order = 1 .. n
    BY <1>3
  <2>2. r = <<>> \o f
    BY <1>5, <2>1
  <2> QED BY <1>7, <2>2
<1>9. Len(r) = n /\ \A i \in 1 .. n : r[i] = Cmd("JOIN", order[i])
  <2>1. Len(f) \in Nat /\ DOMAIN f = 1 .. Len(f) /\ DOMAIN f = 1 .. n
    BY <1>6, <1>7
  <2>2. Len(f) = n
    <3>1. PICK k : k = Len(f)
      OBVIOUS
    <3>2. k \in Nat /\ 1 .. k = 1 .. n
      BY <2>1, <3>1
    <3>3. ~ (k < n) /\ ~ (n < k)
      <4>1. k < n => n \in 1 .. n /\ n \notin 1 .. k
        BY <1>2, <3>2
      <4>2. n < k => k \in 1 .. k /\ k \notin 1 .. n
        BY <1>2, <3>2
      <4> QED BY <3>2, <4>1, <4>2
    <3> QED BY <1>2, <3>1, <3>2, <3>3
  <2> QED BY <1>5, <1>8, <2>2
<1>10. CASE c \in S
  <2>1. PICK i \in 1 .. n : order[i] = c
    BY <1>4, <1>10
  <2>2. \A j \in 1 .. n : j > i => ~Asks(r[j], c)
    BY <1>2, <1>3, <1>9, <2>1 DEF Asks, Cmd
  <2> QED BY <1>9, <1>10, <2>1, <2>2 DEF Ends
<1>11. CASE c \notin S
  <2>1. \A j \in 1 .. n : ~Asks(r[j], c)
    BY <1>3, <1>9, <1>11 DEF Asks, Cmd
  <2> QED BY <1>9, <1>11, <2>1 DEF Unasked
<1> QED BY <1>10, <1>11

LEMMA ObeyGet001 ==
    ASSUME Obedient, Get001
    PROVE  \A d \in Channel : Followed(d)'
<1> DEFINE opened == {c \in Channel : channels[c].open}
           joined == IF opened = {} THEN Autojoin ELSE {c \in opened : ~channels[c].part}
<1>1. /\ wire # <<>> /\ wire' = Tail(wire) /\ Message.cmd = "001" /\ nick' = Message.nick
      /\ conn' = "on" /\ channels' = channels /\ mine' = mine /\ rooms' = rooms
  BY DEF Get001, Gets, Message, server
<1>2. PICK order \in SetToSeqs(joined) :
         outq' = outq \o [i \in DOMAIN order |-> Cmd("JOIN", order[i])]
  BY DEF Get001
<1>3. intent' = [c \in Channel |-> IF opened = {} /\ c \in joined THEN "in" ELSE intent[c]]
  BY DEF Get001
<1>4. joined \in SUBSET Channel
  BY ChannelsAssumption
<1>5. \A c \in Channel : c \in opened <=> channels[c].open
  OBVIOUS
<1>6. \A c \in Channel : /\ opened = {} => ~channels[c].open /\ (c \in joined <=> c \in Autojoin)
                         /\ opened # {} => (c \in joined <=> channels[c].open /\ ~channels[c].part)
  BY ChannelsAssumption
<1> HIDE DEF joined, opened
<1> SUFFICES ASSUME NEW c \in Channel PROVE Followed(c)'
  OBVIOUS
<1>7. Faithful /\ Typed
  BY DEF Obedient, Faithful
<1>8. PICK u, here : FollowedBy(c, u, here)
  BY DEF Obedient, Followed
<1>9. /\ conn # "on" /\ nick' = NickAfter(Message, u[0]) /\ wire \in Seq(Messages)
  <2>1. Reads(c, u, Message)
    BY <1>1, <1>7, <1>8, ReadsFirst
  <2> QED BY <1>1, <2>1 DEF Reads, NickAfter
<1>10. Obeys(c, wire, u, outq, channels[c], conn, intent[c], here)
  BY <1>8 DEF FollowedBy
<1>11. Offline(wire, u, outq, channels[c], intent[c])
  BY <1>9, <1>10 DEF Obeys
<1>12. PICK r, want2 : r = outq' /\ want2 = intent'[c]
  OBVIOUS
<1>13. IF c \in joined THEN Ends(r, c, "JOIN") ELSE Unasked(r, c)
  <2>1. outq = <<>>
    BY <1>11 DEF Offline
  <2>2. r = <<>> \o [i \in DOMAIN order |-> Cmd("JOIN", order[i])]
    BY <1>2, <1>12, <2>1
  <2> QED BY <1>2, <1>4, <2>2, JoinsAll
<1>14. want2 = IF opened = {} /\ c \in joined THEN "in" ELSE intent[c]
  BY <1>3, <1>12
<1>15. /\ intent[c] = "in" => channels[c].open /\ ~channels[c].part
       /\ intent[c] = "out" => ~channels[c].open \/ channels[c].part
  BY <1>11 DEF Offline
<1>16. channels[c].open \in BOOLEAN /\ channels[c].part \in BOOLEAN
  BY <1>7, ChannelFacts
<1>17. want2 = "in" => Ends(r, c, "JOIN")
  BY <1>5, <1>6, <1>13, <1>14, <1>15
<1>18. want2 = "out" => Unasked(r, c) /\ (channels[c].open => channels[c].part)
  BY <1>5, <1>6, <1>13, <1>14, <1>15
<1>19. channels[c].nicks = NoNicks
  BY <1>7, <1>9 DEF Typed
<1>20. Obeys(c, Tail(wire), Later(wire, u), r, channels[c], "on", want2, here)
  BY <1>1, <1>9, <1>10, <1>17, <1>18, <1>19, ObeysWelcomed
<1>21. Obeys(c, Tail(wire), Later(wire, u), outq', channels'[c], "on", intent'[c], here)
  BY <1>1, <1>12, <1>20
<1> QED BY <1>1, <1>7, <1>8, <1>9, <1>21, ReadFollowed

-----------------------------------------------------------------------------
(* The user and the timers, in the channel c.                              *)

LEMMA NotUnderway ==
    ASSUME Typed, NEW c, ~Underway(c)
    PROVE  Unasked(outq, c) /\ wire = <<>>
<1>1. DOMAIN outq = 1 .. Len(outq)
  BY DEF Typed
<1> QED BY <1>1 DEF Underway, Unasked, Asks

\* What the client knows of its channel c.
Here(c, u, here, ch) ==
    /\ ch = channels[c] /\ ch \in Buffer /\ outq \in Seq(Command) /\ wire \in Seq(Messages)
    /\ FollowedBy(c, u, here)
    /\ conn = "on" => Obeys(c, wire, u, outq, ch, "on", intent[c], here)
    /\ Shows(u[0], ch)

LEMMA SomeHere ==
    ASSUME Obedient, NEW c \in Channel
    PROVE  \E u, here, ch : Here(c, u, here, ch)
<1>1. PICK u, here, ch : FollowedBy(c, u, here) /\ ch = channels[c]
  BY DEF Obedient, Followed
<1>2. Obeys(c, wire, u, outq, ch, conn, intent[c], here)
  BY <1>1 DEF FollowedBy
<1>3. ch \in Buffer /\ outq \in Seq(Command) /\ wire \in Seq(Messages)
  BY <1>1, ChannelFacts DEF Obedient, Faithful, Typed
<1>4. Shows(u[0], ch)
  BY <1>2 DEF Obeys
<1> QED BY <1>1, <1>2, <1>3, <1>4 DEF Here

LEMMA ObeyActed ==
    ASSUME Obedient, conn = "on", UNCHANGED <<conn, nick, wire, server>>, NEW c \in Channel,
           NEW u, NEW here, NEW ch, Here(c, u, here, ch),
           NEW b, channels' = [channels EXCEPT ![c] = b],
           NEW want2, intent' = [intent EXCEPT ![c] = want2],
           NEW cmd \in {"JOIN", "PART", "NAMES"}, outq' \in Queued(outq, Cmd(cmd, c)) \cup {outq},
           Obeys(c, wire, u, outq', b, "on", want2, here)
    PROVE  \A d \in Channel : Followed(d)'
<1>1. /\ channels \in [Channel -> Buffer] /\ intent \in [Channel -> {"in", "out", "any"}]
      /\ outq \in Seq(Command) /\ wire \in Seq(Messages)
  BY DEF Obedient, Faithful, Typed
<1>2. /\ channels'[c] = b /\ intent'[c] = want2
      /\ \A d \in Channel \ {c} : channels'[d] = channels[d] /\ intent'[d] = intent[d]
  BY <1>1
<1>3. UNCHANGED <<conn, nick, wire, server>>
  OBVIOUS
<1> SUFFICES ASSUME NEW d \in Channel PROVE Followed(d)'
  OBVIOUS
<1>4. CASE d = c
  <2>1. Obeys(c, wire, u, outq', channels'[c], conn, intent'[c], here)
    BY <1>2
  <2>2. Followed(c)'
    BY <1>3, <2>1, UserFollowed DEF Here
  <2> QED BY <1>4, <2>2
<1>5. CASE d # c
  <2>1. PICK s, there : FollowedBy(d, s, there)
    BY DEF Obedient, Followed
  <2>2. Obeys(d, wire, s, outq, channels[d], "on", intent[d], there)
    BY <2>1 DEF FollowedBy
  <2>3. AsksTheSame(outq, outq', d)
    <3>1. Cmd(cmd, c) \in Command /\ ~Asks(Cmd(cmd, c), d)
      BY <1>5, CommandType DEF Asks
    <3> QED BY <1>1, <3>1, QueuedElsewhere
  <2>4. Obeys(d, wire, s, outq', channels[d], "on", intent[d], there)
    BY <1>1, <2>2, <2>3, ObeysElsewhere
  <2>5. Obeys(d, wire, s, outq', channels'[d], conn, intent'[d], there)
    BY <1>2, <1>5, <2>4
  <2> QED BY <1>3, <2>1, <2>5, UserFollowed
<1> QED BY <1>4, <1>5

LEMMA ObeyUserJoins ==
    ASSUME Obedient, NEW c \in Channel, UserJoins(c)
    PROVE  \A d \in Channel : Followed(d)'
<1>1. PICK u, here, ch : Here(c, u, here, ch)
  BY SomeHere
<1>2. /\ conn = "on" /\ UNCHANGED <<conn, nick, wire, server>> /\ channels' = channels
      /\ outq' \in Queued(outq, Cmd("JOIN", c)) /\ intent' = [intent EXCEPT ![c] = "in"]
  BY DEF UserJoins, Types
<1>3. channels' = [channels EXCEPT ![c] = ch]
  BY <1>1, <1>2 DEF Obedient, Faithful, Typed, Here
<1>4. Ends(outq', c, "JOIN") /\ (PartQueued(outq, c) => PartQueued(outq', c))
  BY <1>1, <1>2, QueuedHere DEF Here
<1>5. PICK r, want2 : r = outq' /\ want2 = "in"
  OBVIOUS
<1>6. /\ wire \in Seq(Messages) /\ Obeys(c, wire, u, outq, ch, "on", intent[c], here)
      /\ Shows(u[0], ch)
  BY <1>1, <1>2 DEF Here
<1>7. Obeys(c, wire, u, r, ch, "on", want2, here)
  BY <1>4, <1>5, <1>6, ObeysJoins
<1> QED BY <1>1, <1>2, <1>3, <1>5, <1>7, ObeyActed

LEMMA ObeyUserAsksNames ==
    ASSUME Obedient, NEW c \in Channel, UserAsksNames(c)
    PROVE  \A d \in Channel : Followed(d)'
<1>1. PICK u, here, ch : Here(c, u, here, ch)
  BY SomeHere
<1>2. /\ conn = "on" /\ UNCHANGED <<conn, nick, wire, server>> /\ channels' = channels
      /\ outq' \in Queued(outq, Cmd("NAMES", c)) /\ intent' = intent
  BY DEF UserAsksNames, Types
<1>3. PICK want : want = intent[c]
  OBVIOUS
<1>4. channels' = [channels EXCEPT ![c] = ch] /\ intent' = [intent EXCEPT ![c] = want]
  BY <1>1, <1>2, <1>3 DEF Obedient, Faithful, Typed, Here
<1>5. AsksTheSame(outq, outq', c)
  <2>1. Cmd("NAMES", c) \in Command /\ ~Asks(Cmd("NAMES", c), c)
    BY CommandType DEF Asks
  <2> QED BY <1>1, <1>2, <2>1, QueuedElsewhere DEF Here
<1>6. wire \in Seq(Messages) /\ Obeys(c, wire, u, outq, ch, "on", want, here)
  BY <1>1, <1>2, <1>3 DEF Here
<1>7. Obeys(c, wire, u, outq', ch, "on", want, here)
  BY <1>5, <1>6, ObeysElsewhere
<1> QED BY <1>1, <1>2, <1>4, <1>7, ObeyActed

\* The user leaves the channel: what intent says then.
LEMMA LeftFor ==
    ASSUME Typed, NEW c \in Channel, NEW closes, Leaves(c, closes)
    PROVE  \E want2 \in {"out", "any"} :
              /\ intent' = [intent EXCEPT ![c] = want2]
              /\ want2 = "out" /\ channels[c].open =>
                    /\ channels[c].nicks = NoNicks =>
                          Unasked(outq, c) /\ wire = <<>> /\ (closes \/ channels[c].part)
                    /\ ~closes => /\ ~channels[c].hook_autorejoin
                                  /\ channels[c].nicks # NoNicks => ~channels[c].cycle
<1> DEFINE ch == channels[c]
           back == /\ ch.open
                   /\ \/ ch.nicks = NoNicks /\ (Underway(c) \/ ~(closes \/ ch.part))
                      \/ ~closes /\ (ch.hook_autorejoin \/ (ch.cycle /\ ch.nicks # NoNicks))
<1>1. intent' = [intent EXCEPT ![c] = IF back THEN "any" ELSE "out"]
  BY DEF Leaves
<1>2. CASE back
  BY <1>1, <1>2
<1>3. CASE ~back
  <2>1. intent' = [intent EXCEPT ![c] = "out"]
    BY <1>1, <1>3
  <2>2. ch.open => /\ ch.nicks = NoNicks => ~Underway(c) /\ (closes \/ ch.part)
                   /\ ~closes => ~ch.hook_autorejoin /\ (ch.nicks # NoNicks => ~ch.cycle)
    BY <1>3
  <2> QED BY <2>1, <2>2, NotUnderway
<1> QED BY <1>2, <1>3

LEMMA ObeyClosed ==
    ASSUME Obedient, NEW c \in Channel, channels[c].open, conn = "on",
           UNCHANGED <<conn, nick, wire, server>>, Leaves(c, TRUE), Close(c)
    PROVE  \A d \in Channel : Followed(d)'
<1>1. PICK u, here, ch : Here(c, u, here, ch)
  BY SomeHere
<1>2. /\ ch.open /\ ch = channels[c] /\ wire \in Seq(Messages) /\ outq \in Seq(Command)
      /\ Obeys(c, wire, u, outq, ch, "on", intent[c], here)
  BY <1>1 DEF Here
<1>3. PICK want2 \in {"out", "any"} :
         /\ intent' = [intent EXCEPT ![c] = want2]
         /\ want2 = "out" /\ channels[c].open =>
               (channels[c].nicks = NoNicks => Unasked(outq, c) /\ wire = <<>>)
  BY LeftFor DEF Obedient, Faithful
<1>4. PICK b2 : b2 = NoChannel
  OBVIOUS
<1>5. channels' = [channels EXCEPT ![c] = b2] /\ ~b2.open
  BY <1>4, NoChannelFacts DEF Close
<1>6. outq' \in IF ch.nicks = NoNicks THEN {outq} ELSE Queued(outq, Cmd("PART", c))
  BY <1>2 DEF Close, SentOnClose
<1>7. ch.nicks # NoNicks => Ends(outq', c, "PART") /\ PartQueued(outq', c)
  BY <1>2, <1>6, QueuedHere
<1>8. ch.nicks = NoNicks => outq' = outq /\ (want2 = "out" => wire = <<>> /\ Unasked(outq, c))
  BY <1>2, <1>3, <1>6
<1>9. Obeys(c, wire, u, outq', b2, "on", want2, here)
  BY <1>2, <1>5, <1>7, <1>8, ObeysCloses
<1>10. outq' \in Queued(outq, Cmd("PART", c)) \cup {outq} /\ UNCHANGED <<conn, nick, wire, server>>
  BY <1>6
<1> QED BY <1>1, <1>3, <1>5, <1>9, <1>10, ObeyActed

LEMMA ObeyUserCloses ==
    ASSUME Obedient, NEW c \in Channel, UserCloses(c)
    PROVE  \A d \in Channel : Followed(d)'
<1>1. /\ channels[c].open /\ conn = "on" /\ UNCHANGED <<conn, nick, wire, server>>
      /\ Leaves(c, TRUE) /\ Close(c)
  BY DEF UserCloses, Types
<1> QED BY <1>1, ObeyClosed

LEMMA ObeyUserParts ==
    ASSUME Obedient, NEW c \in Channel, NEW closes \in BOOLEAN, UserParts(c, closes)
    PROVE  \A d \in Channel : Followed(d)'
<1> DEFINE empty == channels[c].open /\ channels[c].nicks = NoNicks
<1>1. /\ conn = "on" /\ UNCHANGED <<conn, nick, wire, server>>
      /\ Leaves(c, empty /\ closes)
  BY DEF UserParts, Types
<1>2. CASE empty /\ closes
  <2>1. Close(c)
    BY <1>2 DEF UserParts
  <2>2. (empty /\ closes) = TRUE
    BY <1>2
  <2>3. Leaves(c, TRUE)
    BY <1>1, <2>2
  <2> QED BY <1>1, <1>2, <2>1, <2>3, ObeyClosed
<1>3. CASE ~ (empty /\ closes)
  <2>1. PICK u, here, ch : Here(c, u, here, ch)
    BY SomeHere
  <2>2. /\ ch = channels[c] /\ wire \in Seq(Messages) /\ outq \in Seq(Command)
        /\ Obeys(c, wire, u, outq, ch, "on", intent[c], here)
    BY <1>1, <2>1 DEF Here
  <2>3. /\ outq' \in IF empty THEN {outq} ELSE Queued(outq, Cmd("PART", c))
        /\ channels' = channels
    BY <1>3 DEF UserParts
  <2>4. channels' = [channels EXCEPT ![c] = ch]
    BY <2>2, <2>3 DEF Obedient, Faithful, Typed
  <2>5. Leaves(c, FALSE)
    <3>1. (empty /\ closes) = FALSE
      BY <1>3
    <3> QED BY <1>1, <3>1
  <2>6. PICK want2 \in {"out", "any"} :
           /\ intent' = [intent EXCEPT ![c] = want2]
           /\ want2 = "out" /\ ch.open =>
                 /\ ch.nicks = NoNicks => Unasked(outq, c) /\ wire = <<>> /\ ch.part
                 /\ ~ch.hook_autorejoin /\ (ch.nicks # NoNicks => ~ch.cycle)
    BY <2>2, <2>5, LeftFor DEF Obedient, Faithful
  <2>7. Obeys(c, wire, u, outq', ch, "on", want2, here)
    <3>1. CASE empty
      <4>1. outq' = outq /\ ch.open /\ ch.nicks = NoNicks
        BY <2>2, <2>3, <3>1
      <4>2. want2 = "out" => wire = <<>> /\ Unasked(outq, c) /\ ch.part /\ ~ch.hook_autorejoin
        BY <2>6, <4>1
      <4>3. Obeys(c, wire, u, outq, ch, "on", want2, here)
        BY <2>2, <4>1, <4>2, ObeysStays
      <4> QED BY <4>1, <4>3
    <3>2. CASE ~empty
      <4>1. outq' \in Queued(outq, Cmd("PART", c)) /\ (ch.open => ch.nicks # NoNicks)
        BY <2>2, <2>3, <3>2
      <4>2. Ends(outq', c, "PART") /\ (PartQueued(outq, c) => PartQueued(outq', c))
        BY <2>2, <4>1, QueuedHere
      <4>3. want2 = "out" /\ ch.open => ~ch.hook_autorejoin /\ ch.nicks # NoNicks /\ ~ch.cycle
        BY <2>6, <4>1
      <4> QED BY <2>2, <4>2, <4>3, ObeysParts
    <3> QED BY <3>1, <3>2
  <2>8. outq' \in Queued(outq, Cmd("PART", c)) \cup {outq}
    BY <2>3
  <2> QED BY <1>1, <2>1, <2>4, <2>6, <2>7, <2>8, ObeyActed
<1> QED BY <1>2, <1>3

LEMMA ObeyUserCycles ==
    ASSUME Obedient, NEW c \in Channel, UserCycles(c)
    PROVE  \A d \in Channel : Followed(d)'
<1>1. PICK u, here, ch : Here(c, u, here, ch)
  BY SomeHere
<1>2. /\ conn = "on" /\ UNCHANGED <<conn, nick, wire, server>>
      /\ outq' \in Queued(outq, Cmd("PART", c))
  BY DEF UserCycles, Types
<1>3. /\ ch = channels[c] /\ ch \in Buffer /\ ch.open /\ Shows(u[0], ch) /\ wire \in Seq(Messages)
      /\ Obeys(c, wire, u, outq, ch, "on", intent[c], here)
  BY <1>1, <1>2 DEF Here, UserCycles
<1>4. PICK b : b = [ch EXCEPT !.cycle = TRUE]
  OBVIOUS
<1>5. channels' = [channels EXCEPT ![c] = b]
  BY <1>3, <1>4 DEF UserCycles
<1>6. b.open /\ b.cycle /\ b.nicks = ch.nicks /\ b.part = ch.part
  BY <1>3, <1>4 DEF Buffer
<1>7. Shows(u[0], b)
  BY <1>3, <1>6 DEF Shows
<1>8. PICK want2 : want2 = IF ch.nicks = NoNicks THEN "any" ELSE "in"
  OBVIOUS
<1>9. intent' = [intent EXCEPT ![c] = want2]
  BY <1>3, <1>8 DEF UserCycles
<1>10. want2 # "out" /\ (want2 = "in" => ch.nicks # NoNicks)
  BY <1>8
<1>11. Obeys(c, wire, u, outq', b, "on", want2, here)
  BY <1>3, <1>6, <1>7, <1>10, ObeysCycles
<1> QED BY <1>1, <1>2, <1>5, <1>9, <1>11, ObeyActed

LEMMA ObeyAutorejoin ==
    ASSUME Obedient, NEW c \in Channel, AutorejoinCb(c)
    PROVE  \A d \in Channel : Followed(d)'
<1>1. PICK u, here, ch : Here(c, u, here, ch)
  BY SomeHere
<1>2. UNCHANGED <<conn, nick, wire, server>> /\ intent' = intent
  BY DEF AutorejoinCb
<1>3. ch = channels[c] /\ ch \in Buffer
  BY <1>1 DEF Here
<1>4. CASE ch.open /\ ch.hook_autorejoin
  <2>1. conn = "on"
    <3>1. Obeys(c, wire, u, outq, ch, conn, intent[c], here)
      BY <1>1 DEF Here, FollowedBy
    <3> QED BY <1>4, <3>1 DEF Obeys, Offline
  <2>2. PICK b : b = [ch EXCEPT !.hook_autorejoin = FALSE]
    OBVIOUS
  <2>3. channels' = [channels EXCEPT ![c] = b] /\ outq' \in Queued(outq, Cmd("JOIN", c))
    BY <1>3, <1>4, <2>1, <2>2 DEF AutorejoinCb
  <2>4. b.open = ch.open /\ b.nicks = ch.nicks /\ b.part = ch.part
    BY <1>3, <2>2 DEF Buffer
  <2>5. /\ wire \in Seq(Messages) /\ outq \in Seq(Command)
        /\ Obeys(c, wire, u, outq, ch, "on", intent[c], here) /\ Shows(u[0], ch)
    BY <1>1, <2>1 DEF Here
  <2>6. Shows(u[0], b)
    BY <2>4, <2>5 DEF Shows
  <2>7. Ends(outq', c, "JOIN") /\ (PartQueued(outq, c) => PartQueued(outq', c))
    BY <2>3, <2>5, QueuedHere
  <2>8. PICK want : want = intent[c]
    OBVIOUS
  <2>9. Obeys(c, wire, u, outq', b, "on", want, here)
    BY <1>4, <2>4, <2>5, <2>6, <2>7, <2>8, ObeysJoins
  <2>10. intent' = [intent EXCEPT ![c] = want]
    BY <1>2, <2>8 DEF Obedient, Faithful, Typed
  <2>11. outq' \in Queued(outq, Cmd("JOIN", c)) \cup {outq}
    BY <2>3
  <2> QED BY <1>1, <1>2, <2>1, <2>3, <2>9, <2>10, <2>11, ObeyActed
<1>5. CASE ~ (ch.open /\ ch.hook_autorejoin)
  <2>1. channels' = channels /\ outq' = outq
    BY <1>3, <1>5 DEF AutorejoinCb
  <2> SUFFICES ASSUME NEW d \in Channel PROVE Followed(d)'
    OBVIOUS
  <2>2. PICK s, there : FollowedBy(d, s, there)
    BY DEF Obedient, Followed
  <2>3. Obeys(d, wire, s, outq', channels'[d], conn, intent'[d], there)
    BY <1>2, <2>1, <2>2 DEF FollowedBy
  <2> QED BY <1>2, <2>2, <2>3, UserFollowed
<1> QED BY <1>4, <1>5

LEMMA ObeyUser ==
    ASSUME Obedient, User
    PROVE  \A d \in Channel : Followed(d)'
BY ObeyUserJoins, ObeyUserAsksNames, ObeyUserCloses, ObeyUserCycles, ObeyUserParts DEF User

-----------------------------------------------------------------------------
(* The server and its users, in the channel c.                             *)

\* The client will stand on the channel as s says once it has read x, of which
\* it has now w to read, with the standings u.
Stands(c, w, u, x, s, still) ==
    s \in Standing /\ \E t : Further(c, w, u, x, t, still) /\ t[Len(x)] = s

LEMMA StandsNow ==
    ASSUME NEW c, NEW w \in Seq(Messages), NEW u, Course(w, u, c), NEW still
    PROVE  Stands(c, w, u, w, u[Len(w)], still)
<1>1. Len(w) \in Nat /\ u[Len(w)] \in Standing
  BY CourseFacts
<1>2. GoesOn(w, u, w, u)
  BY <1>1 DEF GoesOn
<1>3. ASSUME NEW k \in 0 .. Len(w), k > Len(w)
      PROVE  FALSE
  BY <1>1, <1>3
<1>4. Further(c, w, u, w, u, still)
  BY <1>2, <1>3 DEF Further
<1> QED BY <1>1, <1>4 DEF Stands

LEMMA GoesOnAgain ==
    ASSUME NEW w \in Seq(Messages), NEW x \in Seq(Messages), NEW y \in Seq(Messages),
           NEW u, NEW t, NEW s, GoesOn(w, u, x, t), GoesOn(x, t, y, s)
    PROVE  GoesOn(w, u, y, s)
<1>1. Len(w) \in Nat /\ Len(x) \in Nat /\ Len(y) \in Nat
  BY Members
<1>2. Len(w) <= Len(x) /\ Len(x) <= Len(y)
  BY DEF GoesOn
<1>3. Len(w) <= Len(y) /\ 1 .. Len(w) \subseteq 1 .. Len(x) /\ 0 .. Len(w) \subseteq 0 .. Len(x)
  BY <1>1, <1>2
<1> QED BY <1>3 DEF GoesOn

LEMMA StandsAppend ==
    ASSUME NEW c, NEW w \in Seq(Messages), NEW u, NEW x, NEW s, NEW still, Stands(c, w, u, x, s, still),
           NEW m \in Messages, Fits(m, s, c),
           still => ~Own(m, s, c, {"JOIN"}) /\ ~Own(m, s, c, {"PART", "KICK"})
    PROVE  Stands(c, w, u, Append(x, m), After(m, s, c), still)
<1>1. PICK t : Further(c, w, u, x, t, still) /\ t[Len(x)] = s
  BY DEF Stands
<1>2. /\ x \in Seq(Messages) /\ Course(x, t, c) /\ GoesOn(w, u, x, t) /\ s \in Standing
      /\ still => \A k \in 0 .. Len(x) : k > Len(w) => (t[k].in <=> u[Len(w)].in)
  BY <1>1 DEF Further, Stands
<1>3. PICK y, L, r : y = Append(x, m) /\ L = Len(x) /\ r = After(m, s, c)
  OBVIOUS
<1>4. y \in Seq(Messages) /\ Len(y) = L + 1 /\ L \in Nat
  BY <1>2, <1>3, AppendFacts
<1>5. PICK v : Course(y, v, c) /\ GoesOn(x, t, y, v) /\ v[L + 1] = r
  BY <1>1, <1>2, <1>3, CourseAppend
<1>6. GoesOn(w, u, y, v)
  BY <1>2, <1>4, <1>5, GoesOnAgain
<1>7. r \in Standing
  BY <1>2, <1>3, AfterFacts
<1>8. ASSUME still, NEW k \in 0 .. Len(y), k > Len(w)
      PROVE  v[k].in <=> u[Len(w)].in
  <2>1. CASE k # L + 1
    <3>1. k \in 0 .. L
      BY <1>4, <2>1
    <3>2. v[k] = t[k]
      BY <1>3, <1>5, <3>1 DEF GoesOn
    <3> QED BY <1>2, <1>3, <1>8, <3>1, <3>2
  <2>2. CASE k = L + 1
    <3>1. r.in = s.in
      BY <1>2, <1>3, <1>8, AfterFacts
    <3>2. Len(w) \in Nat /\ Len(w) <= L
      BY <1>2, <1>3, Members DEF GoesOn
    <3>3. CASE L > Len(w)
      <4>1. L \in 0 .. L
        BY <1>4
      <4> QED BY <1>1, <1>2, <1>3, <1>5, <1>8, <2>2, <3>1, <3>3, <4>1
    <3>4. CASE ~ (L > Len(w))
      <4>1. L = Len(w) /\ L \in 0 .. L
        BY <1>4, <3>2, <3>4
      <4>2. t[L] = u[L]
        BY <1>2, <4>1 DEF GoesOn
      <4> QED BY <1>1, <1>3, <1>5, <2>2, <3>1, <4>1, <4>2
    <3> QED BY <3>3, <3>4
  <2> QED BY <2>1, <2>2
<1>9. Further(c, w, u, y, v, still)
  BY <1>4, <1>5, <1>6, <1>8 DEF Further
<1>10. Stands(c, w, u, y, r, still)
  BY <1>4, <1>5, <1>7, <1>9 DEF Stands
<1> QED BY <1>3, <1>10

LEMMA ServedFollowed ==
    ASSUME Obedient, NEW c \in Channel, NEW u, NEW here, FollowedBy(c, u, here),
           UNCHANGED <<nick, channels, intent>>, conn' = "on" <=> conn = "on",
           NEW x, wire' = x, NEW s, Stands(c, wire, u, x, s, Unasked(outq, c)),
           NEW here2 \in BOOLEAN, here2 <=> InRoom(c)', s.in <=> here2, s.nick = mine',
           Taken(outq, outq', c, here, here2), conn # "on" => outq' = outq
    PROVE  Followed(c)'
<1>1. PICK t : Further(c, wire, u, x, t, Unasked(outq, c)) /\ t[Len(x)] = s
  BY DEF Stands
<1>2. /\ here \in BOOLEAN
      /\ Obeys(c, wire, u, outq, channels[c], conn, intent[c], here)
      /\ conn = "on" => u[0].nick = nick
  BY DEF FollowedBy
<1>3. wire \in Seq(Messages)
  BY DEF Obedient, Faithful, Typed
<1>4. PICK q, b, st, want, r, st2 :
         /\ q = outq /\ b = channels[c] /\ st = conn /\ want = intent[c]
         /\ r = outq' /\ st2 = conn'
  OBVIOUS
<1>5. (st2 = "on" <=> st = "on") /\ (st # "on" => r = q)
  BY <1>4
<1>6. Obeys(c, wire, u, q, b, st, want, here)
  BY <1>2, <1>4
<1>7. Further(c, wire, u, x, t, Unasked(q, c)) /\ (t[Len(x)].in <=> here2)
  BY <1>1, <1>4
<1>8. Taken(q, r, c, here, here2)
  BY <1>4
<1>9. Obeys(c, x, t, r, b, st2, want, here2)
  BY <1>3, <1>5, <1>6, <1>7, <1>8, ObeysServed
<1>10. Obeys(c, x, t, outq', channels'[c], conn', intent'[c], here2)
  BY <1>4, <1>9
<1>11. t[0] = u[0]
  <2>1. GoesOn(wire, u, x, t)
    BY <1>1 DEF Further
  <2>2. 0 \in 0 .. Len(wire)
    BY <1>3
  <2> QED BY <2>1, <2>2 DEF GoesOn
<1>12. FollowedBy(c, t, here2)'
  BY <1>1, <1>2, <1>10, <1>11 DEF FollowedBy
<1> QED BY <1>12 DEF Followed

LEMMA TakenNone ==
    ASSUME NEW q \in Seq(Command), NEW c, NEW here \in BOOLEAN
    PROVE  Taken(q, q, c, here, here)
BY DEF Taken

\* The message m changes nothing of whether the client is on the channel c.
Silent(m, c) ==
    /\ m.cmd \in {"JOIN", "PART", "KICK"} /\ m.chan = c => m.nick # mine
    /\ m.cmd = "JOIN" /\ m.chan = c => InRoom(c)
    /\ m.cmd = "QUIT" => m.nick # mine

LEMMA SilentFacts ==
    ASSUME NEW c, NEW m \in Messages, NEW s \in Standing, s.nick = mine, Silent(m, c), s.in <=> InRoom(c)
    PROVE  /\ Fits(m, s, c) /\ ~Own(m, s, c, {"JOIN"}) /\ ~Own(m, s, c, {"PART", "KICK"})
           /\ After(m, s, c) \in Standing /\ After(m, s, c).in = s.in
           /\ After(m, s, c).nick = NickAfter(m, s)
<1>1. ~Own(m, s, c, {"JOIN"}) /\ ~Own(m, s, c, {"PART", "KICK"})
  BY DEF Own, Silent
<1>2. Fits(m, s, c)
  BY <1>1 DEF Fits, Silent
<1> QED BY <1>1, <1>2, AfterFacts

\* How the client will stand when it has read all.
LEMMA LastStanding ==
    ASSUME Obedient, NEW c \in Channel
    PROVE  \E u, here, s :
              /\ FollowedBy(c, u, here) /\ here \in BOOLEAN /\ (here <=> InRoom(c))
              /\ s \in Standing /\ s.nick = mine /\ (s.in <=> here)
              /\ \A still : Stands(c, wire, u, wire, s, still)
              /\ conn # "on" => outq = <<>>
<1>1. PICK u, here : FollowedBy(c, u, here)
  BY DEF Obedient, Followed
<1>2. /\ here \in BOOLEAN /\ (here <=> InRoom(c)) /\ u[Len(wire)].nick = mine
      /\ Obeys(c, wire, u, outq, channels[c], conn, intent[c], here)
  BY <1>1 DEF FollowedBy
<1>3. wire \in Seq(Messages)
  BY DEF Obedient, Faithful, Typed
<1>4. Course(wire, u, c) /\ (u[Len(wire)].in <=> here)
  BY <1>2 DEF Obeys
<1>5. \A still : Stands(c, wire, u, wire, u[Len(wire)], still)
  BY <1>3, <1>4, StandsNow
<1>6. u[Len(wire)] \in Standing
  BY <1>5 DEF Stands
<1>7. conn # "on" => outq = <<>>
  BY <1>2 DEF Obeys, Offline
<1> QED BY <1>1, <1>2, <1>4, <1>5, <1>6, <1>7

\* The message m is sent to the client.
LEMMA ToldFollowed ==
    ASSUME Obedient, NEW c \in Channel, NEW m \in Messages, wire' = Append(wire, m), Silent(m, c),
           mine' = NickAfter(m, [nick |-> mine]), InRoom(c)' <=> InRoom(c),
           UNCHANGED <<nick, channels, outq, intent>>, conn' = "on" <=> conn = "on"
    PROVE  Followed(c)'
<1>1. PICK u, here, s :
         /\ FollowedBy(c, u, here) /\ here \in BOOLEAN /\ (here <=> InRoom(c))
         /\ s \in Standing /\ s.nick = mine /\ (s.in <=> here)
         /\ \A still : Stands(c, wire, u, wire, s, still)
  BY LastStanding
<1>2. wire \in Seq(Messages) /\ outq \in Seq(Command)
  BY DEF Obedient, Faithful, Typed
<1>3. PICK r, x : r = After(m, s, c) /\ x = Append(wire, m)
  OBVIOUS
<1>4. /\ Fits(m, s, c) /\ ~Own(m, s, c, {"JOIN"}) /\ ~Own(m, s, c, {"PART", "KICK"})
      /\ r.in = s.in /\ r.nick = NickAfter(m, s)
  BY <1>1, <1>3, SilentFacts
<1>5. PICK still : still = Unasked(outq, c)
  OBVIOUS
<1>6. Stands(c, wire, u, wire, s, still)
  BY <1>1
<1>7. Stands(c, wire, u, x, r, still)
  BY <1>2, <1>3, <1>4, <1>6, StandsAppend
<1>8. NickAfter(m, s) = mine'
  BY <1>1 DEF NickAfter
<1>9. Taken(outq, outq', c, here, here)
  BY <1>1, <1>2, TakenNone
<1> QED BY <1>1, <1>3, <1>4, <1>5, <1>7, <1>8, <1>9, ServedFollowed

\* Nothing is sent to it.
LEMMA UntoldFollowed ==
    ASSUME Obedient, NEW c \in Channel, wire' = wire, mine' = mine, InRoom(c)' <=> InRoom(c),
           UNCHANGED <<conn, nick, channels, outq, intent>>
    PROVE  Followed(c)'
<1>1. PICK u, here : FollowedBy(c, u, here)
  BY DEF Obedient, Followed
<1>2. FollowedBy(c, u, here)'
  BY <1>1 DEF FollowedBy
<1> QED BY <1>2 DEF Followed

-----------------------------------------------------------------------------
(* Other users.                                                            *)

LEMMA ObeyOthers ==
    ASSUME Obedient, NEW m, UNCHANGED <<client, outq, intent>>,
           \A d \in Channel : InRoom(d)' <=> InRoom(d),
           \/ wire' = wire /\ mine' = mine
           \/ /\ m \in Messages /\ wire' = Append(wire, m) /\ mine' = NickAfter(m, [nick |-> mine])
              /\ \A d \in Channel : Silent(m, d)
    PROVE  \A d \in Channel : Followed(d)'
<1> SUFFICES ASSUME NEW d \in Channel PROVE Followed(d)'
  OBVIOUS
<1>1. /\ UNCHANGED <<conn, nick, channels, outq, intent>> /\ UNCHANGED <<nick, channels, outq, intent>>
      /\ conn' = "on" <=> conn = "on" /\ (InRoom(d)' <=> InRoom(d))
  BY DEF client
<1>2. CASE wire' = wire /\ mine' = mine
  BY <1>1, <1>2, UntoldFollowed
<1>3. CASE /\ m \in Messages /\ wire' = Append(wire, m) /\ mine' = NickAfter(m, [nick |-> mine])
           /\ \A e \in Channel : Silent(m, e)
  BY <1>1, <1>3, ToldFollowed
<1> QED BY <1>2, <1>3

\* Whether the client is in the room c after its list became l.
LEMMA RoomChanged ==
    ASSUME Typed, NEW c \in Channel, NEW l \in NickList, rooms' = [rooms EXCEPT ![c].list = l],
           mine' = mine
    PROVE  /\ InRoom(c)' <=> mine \in DOMAIN l
           /\ \A d \in Channel \ {c} : InRoom(d)' <=> InRoom(d)
<1>1. rooms \in [Channel -> Room]
  BY DEF Typed
<1>2. rooms'[c].list = l /\ \A d \in Channel \ {c} : rooms'[d] = rooms[d]
  BY <1>1 DEF Room
<1> QED BY <1>2 DEF InRoom

LEMMA ObeyOtherJoins ==
    ASSUME Obedient, NEW n \in Nick, NEW c \in Channel, OtherJoins(n, c)
    PROVE  \A d \in Channel : Followed(d)'
<1>1. PICK list, one, l, m :
         /\ list = rooms[c].list /\ one = Single(n, list = NoNicks) /\ l = Over(one, list)
         /\ m = [cmd |-> "JOIN", nick |-> n, chan |-> c]
  OBVIOUS
<1>2. Typed
  BY DEF Obedient, Faithful
<1>3. one \in NickList /\ DOMAIN one = {n}
  <2>1. (list = NoNicks) \in BOOLEAN
    OBVIOUS
  <2> QED BY <1>1, <2>1, SingleFacts
<1>4. list \in NickList
  BY <1>1, <1>2, RoomFacts
<1>5. l \in NickList /\ DOMAIN l = {n} \cup DOMAIN list
  BY <1>1, <1>3, <1>4, OverFacts, Zenon
<1>6. /\ n # mine /\ rooms' = [rooms EXCEPT ![c].list = l]
      /\ wire' = IF InRoom(c) THEN Append(wire, m) ELSE wire
      /\ UNCHANGED <<client, outq, intent>> /\ mine' = mine
  BY <1>1 DEF OtherJoins, Others
<1>7. \A d \in Channel : InRoom(d)' <=> InRoom(d)
  <2>1. InRoom(c)' <=> InRoom(c)
    BY <1>1, <1>2, <1>5, <1>6, RoomChanged DEF InRoom
  <2> QED BY <1>2, <1>5, <1>6, <2>1, RoomChanged
<1>8. m \in Messages /\ m.cmd = "JOIN" /\ m.nick = n /\ m.chan = c
  BY <1>1 DEF Messages
<1>9. mine' = NickAfter(m, [nick |-> mine])
  BY <1>6, <1>8 DEF NickAfter
<1>10. InRoom(c) => \A d \in Channel : Silent(m, d)
  BY <1>6, <1>8 DEF Silent
<1> QED BY <1>6, <1>7, <1>8, <1>9, <1>10, ObeyOthers

LEMMA ObeyRemoved ==
    ASSUME Obedient, NEW n \in Nick, NEW c \in Channel, NEW cmd \in {"PART", "KICK"}, Removed(n, c, cmd)
    PROVE  \A d \in Channel : Followed(d)'
<1>1. PICK list, l, m, me :
         /\ list = rooms[c].list /\ l = Without(list, n) /\ me = mine
         /\ m = [cmd |-> cmd, nick |-> n, chan |-> c]
  OBVIOUS
<1>2. Typed
  BY DEF Obedient, Faithful
<1>3. l \in NickList /\ DOMAIN l = DOMAIN list \ {n}
  <2>1. list \in NickList
    BY <1>1, <1>2, RoomFacts
  <2> QED BY <1>1, <2>1, WithoutFacts
<1>4. /\ n \in DOMAIN list /\ (n = mine => cmd = "KICK") /\ rooms' = [rooms EXCEPT ![c].list = l]
      /\ wire' = IF InRoom(c) THEN Append(wire, m) ELSE wire
      /\ UNCHANGED <<client, outq, intent>> /\ mine' = mine
  BY <1>1 DEF Removed, Others
<1>5. m \in Messages /\ m.cmd = cmd /\ m.nick = n /\ m.chan = c
  BY <1>1 DEF Messages
<1>6. mine' = NickAfter(m, [nick |-> mine])
  BY <1>4, <1>5 DEF NickAfter
<1>7. /\ InRoom(c)' <=> mine \in DOMAIN list /\ n # mine
      /\ InRoom(c) <=> mine \in DOMAIN list
      /\ \A d \in Channel \ {c} : InRoom(d)' <=> InRoom(d)
  <2>1. InRoom(c)' <=> mine \in DOMAIN l
    BY <1>2, <1>3, <1>4, RoomChanged
  <2>2. InRoom(c) <=> mine \in DOMAIN list
    BY <1>1 DEF InRoom
  <2>3. \A d \in Channel \ {c} : InRoom(d)' <=> InRoom(d)
    BY <1>2, <1>3, <1>4, RoomChanged
  <2> QED BY <1>3, <2>1, <2>2, <2>3
<1>8. CASE n # mine
  <2>1. \A d \in Channel : InRoom(d)' <=> InRoom(d)
    BY <1>7, <1>8
  <2>2. \A d \in Channel : Silent(m, d)
    BY <1>5, <1>8 DEF Silent
  <2> QED BY <1>4, <1>5, <1>6, <2>1, <2>2, ObeyOthers
<1>9. CASE n = mine
  <2>1. wire' = Append(wire, m) /\ m.cmd = "KICK" /\ InRoom(c) /\ ~InRoom(c)'
    BY <1>4, <1>5, <1>7, <1>9
  <2>2. /\ UNCHANGED <<nick, channels, outq, intent>> /\ (conn' = "on" <=> conn = "on")
        /\ UNCHANGED <<conn, nick, channels, outq, intent>>
    BY <1>4 DEF client
  <2>3. ASSUME NEW d \in Channel, d # c
        PROVE  Followed(d)'
    <3>1. Silent(m, d) /\ (InRoom(d)' <=> InRoom(d))
      BY <1>5, <1>7, <2>1, <2>3 DEF Silent
    <3> QED BY <1>5, <1>6, <2>1, <2>2, <3>1, ToldFollowed
  <2>4. Followed(c)'
    <3>1. PICK u, here : FollowedBy(c, u, here)
      BY DEF Obedient, Followed
    <3>2. PICK w, q, b, st, want, there :
             /\ w = wire /\ q = outq /\ b = channels[c] /\ st = conn /\ want = intent[c]
             /\ there = FALSE
      OBVIOUS
    <3>3. /\ here = TRUE /\ Obeys(c, w, u, q, b, st, want, here) /\ u[Len(w)].nick = mine
          /\ conn = "on" => u[0].nick = nick
      BY <2>1, <3>1, <3>2 DEF FollowedBy
    <3>4. w \in Seq(Messages) /\ Len(Append(w, m)) = Len(w) + 1
      <4>1. w \in Seq(Messages)
        BY <1>2, <3>2 DEF Typed
      <4> QED BY <1>5, <4>1, AppendFacts
    <3>5. PICK t : /\ Obeys(c, Append(w, m), t, q, b, st, want, there)
                   /\ OneMoreThan(w, u, t)
      <4>1. m.cmd = "KICK" /\ m.nick = u[Len(w)].nick
        BY <1>5, <1>9, <2>1, <3>3
      <4> QED BY <1>5, <3>2, <3>3, <3>4, <4>1, ObeysKicked
    <3>6. Obeys(c, wire', t, outq', channels'[c], conn', intent'[c], there)
      BY <2>1, <2>2, <3>2, <3>5
    <3>7. t[Len(wire')].nick = mine' /\ (conn' = "on" => t[0].nick = nick')
      BY <1>4, <2>1, <2>2, <3>2, <3>3, <3>4, <3>5 DEF OneMoreThan
    <3>9. FollowedBy(c, t, there)'
      BY <2>1, <3>2, <3>6, <3>7 DEF FollowedBy
    <3> QED BY <3>9 DEF Followed
  <2> QED BY <2>3, <2>4
<1> QED BY <1>8, <1>9

LEMMA ObeyOp ==
    ASSUME Obedient, NEW n \in Nick, NEW c \in Channel, NEW set \in BOOLEAN, Op(n, c, set)
    PROVE  \A d \in Channel : Followed(d)'
<1>1. PICK list, l, m :
         /\ list = rooms[c].list /\ l = [list EXCEPT ![n] = set]
         /\ m = [cmd |-> "MODE", nick |-> n, chan |-> c, set |-> set]
  OBVIOUS
<1>2. Typed
  BY DEF Obedient, Faithful
<1>3. l \in NickList /\ DOMAIN l = DOMAIN list
  <2>1. list \in NickList /\ n \in DOMAIN list
    BY <1>1, <1>2, RoomFacts DEF Op
  <2> QED BY <1>1, <2>1, ExceptFacts
<1>4. rooms' = [rooms EXCEPT ![c].list = l]
  <2>1. rooms' = [rooms EXCEPT ![c].list[n] = set]
    BY DEF Op
  <2>2. [rooms EXCEPT ![c].list[n] = set] = [rooms EXCEPT ![c].list = l]
    BY <1>1
  <2> QED BY <2>1, <2>2
<1>5. /\ wire' = IF InRoom(c) THEN Append(wire, m) ELSE wire
      /\ UNCHANGED <<client, outq, intent>> /\ mine' = mine
  BY <1>1 DEF Op, Others
<1>6. \A d \in Channel : InRoom(d)' <=> InRoom(d)
  <2>1. InRoom(c)' <=> InRoom(c)
    BY <1>1, <1>2, <1>3, <1>4, <1>5, RoomChanged DEF InRoom
  <2> QED BY <1>2, <1>3, <1>4, <1>5, <2>1, RoomChanged
<1>7. m \in Messages /\ m.cmd = "MODE"
  BY <1>1 DEF Messages, Person
<1>8. mine' = NickAfter(m, [nick |-> mine]) /\ \A d \in Channel : Silent(m, d)
  BY <1>5, <1>7 DEF NickAfter, Silent
<1> QED BY <1>5, <1>6, <1>7, <1>8, ObeyOthers

LEMMA ObeyFlag ==
    ASSUME Obedient, NEW c \in Channel, Flag(c)
    PROVE  \A d \in Channel : Followed(d)'
<1>1. PICK f, m :
         /\ f = ~rooms[c].flag
         /\ m = [cmd |-> "MODE", nick |-> NoNick, chan |-> c, set |-> ~rooms[c].flag]
  OBVIOUS
<1>2. rooms[c].flag \in BOOLEAN /\ rooms \in [Channel -> Room]
  BY RoomFacts DEF Obedient, Faithful, Typed
<1>3. /\ rooms' = [rooms EXCEPT ![c].flag = ~rooms[c].flag]
      /\ wire' = IF InRoom(c) THEN Append(wire, m) ELSE wire
      /\ UNCHANGED <<client, outq, intent>> /\ mine' = mine
  BY <1>1 DEF Flag, Others
<1>4. \A d \in Channel : InRoom(d)' <=> InRoom(d)
  <2>1. \A d \in Channel : rooms'[d].list = rooms[d].list
    BY <1>2, <1>3 DEF Room
  <2> QED BY <1>3, <2>1 DEF InRoom
<1>5. m \in Messages /\ m.cmd = "MODE"
  BY <1>1, <1>2 DEF Messages, Person
<1>6. mine' = NickAfter(m, [nick |-> mine]) /\ \A d \in Channel : Silent(m, d)
  BY <1>3, <1>5 DEF NickAfter, Silent
<1> QED BY <1>3, <1>4, <1>5, <1>6, ObeyOthers

LEMMA ObeyQuits ==
    ASSUME Obedient, NEW n \in Nick, Quits(n)
    PROVE  \A d \in Channel : Followed(d)'
<1>1. PICK m : m = [cmd |-> "QUIT", nick |-> n]
  OBVIOUS
<1>2. m \in Messages /\ m.cmd = "QUIT" /\ m.nick = n
  BY <1>1 DEF Messages
<1>3. /\ n # mine
      /\ rooms' = [c \in Channel |-> [rooms[c] EXCEPT !.list = Without(@, n)]]
      /\ wire' = wire \/ wire' = Append(wire, m)
      /\ UNCHANGED <<client, outq, intent>> /\ mine' = mine
  BY <1>1 DEF Quits, Others
<1>4. ASSUME NEW c \in Channel
      PROVE  InRoom(c)' <=> InRoom(c)
  <2>1. PICK r, l : r = rooms[c] /\ l = Without(r.list, n)
    OBVIOUS
  <2>2. r \in Room /\ r.list \in NickList
    BY <2>1, RoomFacts DEF Obedient, Faithful
  <2>3. DOMAIN l = DOMAIN r.list \ {n}
    BY <2>1, <2>2, WithoutFacts
  <2>4. rooms'[c] = [r EXCEPT !.list = l]
    BY <1>3, <2>1
  <2>5. rooms'[c].list = l
    BY <2>2, <2>4 DEF Room
  <2> QED BY <1>3, <2>1, <2>3, <2>5 DEF InRoom
<1>5. mine' = NickAfter(m, [nick |-> mine]) /\ \A d \in Channel : Silent(m, d)
  BY <1>2, <1>3 DEF NickAfter, Silent
<1> QED BY <1>2, <1>3, <1>4, <1>5, ObeyOthers

LEMMA ObeyRenamed ==
    ASSUME Obedient, NEW n \in Nick, NEW new \in Nick, Renamed(n, new)
    PROVE  \A d \in Channel : Followed(d)'
<1>1. PICK m : m = [cmd |-> "NICK", nick |-> n, new |-> new]
  OBVIOUS
<1>2. m \in Messages /\ m.cmd = "NICK" /\ m.nick = n /\ m.new = new
  BY <1>1 DEF Messages
<1>3. /\ new # mine /\ \A c \in Channel : new \notin DOMAIN rooms[c].list
      /\ mine' = IF n = mine THEN new ELSE mine
      /\ rooms' = [c \in Channel |-> [rooms[c] EXCEPT !.list = NickChanged(@, n, new)]]
      /\ (wire' = wire /\ n # mine) \/ wire' = Append(wire, m)
      /\ UNCHANGED <<client, outq, intent>>
  BY <1>1 DEF Renamed, Others, Users
<1>4. ASSUME NEW c \in Channel
      PROVE  InRoom(c)' <=> InRoom(c)
  <2>1. PICK r, l : r = rooms[c] /\ l = NickChanged(r.list, n, new)
    OBVIOUS
  <2>2. r \in Room /\ r.list \in NickList
    BY <2>1, RoomFacts DEF Obedient, Faithful
  <2>3. /\ n \in DOMAIN r.list => DOMAIN l = (DOMAIN r.list \ {n}) \cup {new}
        /\ n \notin DOMAIN r.list => l = r.list
    BY <2>1, <2>2, ChangedFacts
  <2>4. rooms'[c] = [r EXCEPT !.list = l]
    BY <1>3, <2>1
  <2>5. rooms'[c].list = l
    BY <2>2, <2>4 DEF Room
  <2>6. new \notin DOMAIN r.list
    BY <1>3, <2>1
  <2>7. mine' \in DOMAIN l <=> mine \in DOMAIN r.list
    BY <1>3, <2>3, <2>6
  <2> QED BY <2>1, <2>5, <2>7 DEF InRoom
<1>5. mine' = NickAfter(m, [nick |-> mine]) /\ \A d \in Channel : Silent(m, d)
  BY <1>2, <1>3 DEF NickAfter, Silent
<1> QED BY <1>2, <1>3, <1>4, <1>5, ObeyOthers

-----------------------------------------------------------------------------
(* The connection, and the answers of the server.                          *)

LEMMA ObeyConnect ==
    ASSUME Obedient, Connect
    PROVE  \A d \in Channel : Followed(d)'
<1>1. /\ conn = "off" /\ wire = <<>> /\ mine = NoNick /\ conn' = "registering"
      /\ UNCHANGED <<nick, channels, timers, outq, rooms, intent>>
  BY DEF Obedient, Faithful, Connect, Registered
<1>2. PICK n \in Nick \ UNION {DOMAIN rooms[c].list : c \in Channel} :
         mine' = n /\ wire' = <<[cmd |-> "001", nick |-> n]>>
  BY DEF Connect
<1>3. PICK m : m = [cmd |-> "001", nick |-> n]
  OBVIOUS
<1>4. m \in Messages /\ m.cmd = "001" /\ m.nick = n /\ wire' = Append(wire, m)
  BY <1>1, <1>2, <1>3 DEF Messages
<1>5. mine' = NickAfter(m, [nick |-> mine])
  BY <1>2, <1>4 DEF NickAfter
<1> SUFFICES ASSUME NEW d \in Channel PROVE Followed(d)'
  OBVIOUS
<1>6. InRoom(d)' <=> InRoom(d)
  <2>1. ~InRoom(d)
    BY <1>1, RoomFacts, ChannelsAssumption DEF Obedient, Faithful
  <2>2. n \notin DOMAIN rooms[d].list
    BY <1>2
  <2> QED BY <1>1, <1>2, <2>1, <2>2 DEF InRoom
<1>7. Silent(m, d)
  BY <1>4 DEF Silent
<1>8. UNCHANGED <<nick, channels, outq, intent>> /\ (conn' = "on" <=> conn = "on")
  BY <1>1
<1> QED BY <1>4, <1>5, <1>6, <1>7, <1>8, ToldFollowed

LEMMA DisconnectFacts ==
    ASSUME NEW ch \in Buffer
    PROVE  /\ FreedOnDisconnect(ch).open = ch.open /\ FreedOnDisconnect(ch).part = ch.part
           /\ FreedOnDisconnect(ch).nicks = NoNicks /\ ~FreedOnDisconnect(ch).hook_autorejoin
BY DEF FreedOnDisconnect, Buffer

LEMMA ObeyDrop ==
    ASSUME Obedient, Drop
    PROVE  \A d \in Channel : Followed(d)'
<1> SUFFICES ASSUME NEW d \in Channel PROVE Followed(d)'
  OBVIOUS
<1>1. /\ conn' = "off" /\ mine' = NoNick /\ outq' = <<>> /\ wire' = <<>>
      /\ intent'[d] = IF Underway(d) \/ channels[d].hook_autorejoin THEN "any" ELSE intent[d]
  BY DEF Drop
<1>2. Typed /\ ~InRoom(d)'
  BY DropLeaves DEF Obedient, Faithful
<1>3. PICK u, here, ch : Here(d, u, here, ch)
  BY SomeHere
<1>4. PICK b, want, want2 : b = channels'[d] /\ want = intent[d] /\ want2 = intent'[d]
  OBVIOUS
<1>5. ch = channels[d] /\ ch \in Buffer
  BY <1>3 DEF Here
<1>6. Obeys(d, wire, u, outq, ch, conn, want, here)
  BY <1>3, <1>4, <1>5 DEF Here, FollowedBy
<1>7. want2 # "any" => want2 = want /\ ~Underway(d) /\ ~ch.hook_autorejoin
  BY <1>1, <1>4, <1>5
<1>8. /\ ~b.hook_autorejoin /\ b.nicks = NoNicks /\ (b.open <=> ch.open)
      /\ b.part = ch.part
  <2>1. CASE conn = "on"
    <3>1. b = FreedOnDisconnect(ch)
      BY <1>4, <1>5, <2>1 DEF Drop
    <3> QED BY <1>5, <3>1, DisconnectFacts
  <2>2. CASE conn # "on"
    <3>1. b = ch /\ ch.nicks = NoNicks
      BY <1>2, <1>4, <1>5, <2>2 DEF Drop, Typed
    <3>2. ~ch.hook_autorejoin
      BY <1>6, <2>2 DEF Obeys, Offline
    <3> QED BY <3>1, <3>2
  <2> QED BY <2>1, <2>2
<1>9. /\ want2 = "in" => ch.open /\ ~ch.part
      /\ want2 = "out" => ~ch.open \/ ch.part
  <2>1. CASE want2 \in {"in", "out"} /\ conn = "on"
    <3>1. Unasked(outq, d) /\ wire = <<>>
      BY <1>2, <1>7, <2>1, NotUnderway
    <3>2. Obeys(d, <<>>, u, outq, ch, "on", want, here)
      BY <1>6, <2>1, <3>1
    <3>3. /\ want = "in" => ch.open /\ ~ch.part
          /\ want = "out" => (ch.open => ch.part)
      BY <1>7, <2>1, <3>1, <3>2, ObeysAtLast
    <3> QED BY <1>7, <2>1, <3>3
  <2>2. CASE want2 \in {"in", "out"} /\ conn # "on"
    <3>1. Offline(wire, u, outq, ch, want)
      BY <1>6, <2>2 DEF Obeys
    <3> QED BY <1>7, <2>2, <3>1 DEF Offline
  <2> QED BY <2>1, <2>2
<1>10. PICK t, w, off, there :
          /\ w = <<>> /\ off = "off" /\ there = FALSE
          /\ Obeys(d, w, t, w, b, off, want2, there) /\ t[0].nick = NoNick
  BY <1>8, <1>9, ObeysOff
<1>11. t[Len(wire')].nick = mine'
  <2>1. Len(wire') = 0
    BY <1>1
  <2> QED BY <1>1, <1>10, <2>1
<1>12. Obeys(d, wire', t, outq', channels'[d], conn', intent'[d], there)
  BY <1>1, <1>4, <1>10
<1>13. FollowedBy(d, t, there)'
  BY <1>1, <1>2, <1>10, <1>11, <1>12 DEF FollowedBy
<1> QED BY <1>13 DEF Followed

\* Messages that tell nothing of whether the client is on the channel c.
Aside(m, c) ==
    m.cmd \in {"353", "366", "324"} \/ (m.cmd \in {"JOIN", "PART"} /\ m.chan # c)

LEMMA AsideStands ==
    ASSUME NEW c, NEW w \in Seq(Messages), NEW u, NEW x, NEW s, NEW still, Stands(c, w, u, x, s, still),
           NEW m \in Messages, Aside(m, c)
    PROVE  Stands(c, w, u, Append(x, m), s, still)
<1>1. s \in Standing
  BY DEF Stands
<1>2. ~Own(m, s, c, {"JOIN"}) /\ ~Own(m, s, c, {"PART", "KICK"}) /\ Fits(m, s, c)
  BY DEF Aside, Own, Fits
<1>3. NickAfter(m, s) = s.nick
  BY DEF Aside, NickAfter
<1>4. PICK r : r = After(m, s, c)
  OBVIOUS
<1>5. r \in Standing /\ r.in = s.in /\ r.nick = s.nick
  BY <1>1, <1>2, <1>3, <1>4, AfterFacts
<1>6. r = s
  BY <1>1, <1>5 DEF Standing
<1>7. Stands(c, w, u, Append(x, m), After(m, s, c), still)
  BY <1>2, StandsAppend
<1> QED BY <1>4, <1>6, <1>7

\* The first command is served, after which the client will stand as s says.
LEMMA ServedWith ==
    ASSUME Obedient, NEW d \in Channel, NEW u, NEW here, FollowedBy(d, u, here),
           UNCHANGED <<client, intent>>, outq # <<>>, outq' = Tail(outq), conn = "on",
           NEW x, wire' = x, NEW s, Stands(d, wire, u, x, s, Unasked(outq, d)), s.nick = mine',
           s.in <=> InRoom(d)',
           ~Asks(outq[1], d) => (s.in <=> here),
           outq[1] = Cmd("JOIN", d) => s.in,
           outq[1] = Cmd("PART", d) => ~s.in
    PROVE  Followed(d)'
<1>1. PICK here2 : here2 = s.in
  OBVIOUS
<1>2. here2 \in BOOLEAN /\ here \in BOOLEAN
  BY <1>1 DEF Stands, Standing, FollowedBy
<1>3. outq \in Seq(Command)
  BY DEF Obedient, Faithful, Typed
<1>4. /\ ~Asks(outq[1], d) => (here <=> here2)
      /\ outq[1] = Cmd("JOIN", d) => here2
      /\ outq[1] = Cmd("PART", d) => ~here2
  BY <1>1
<1>5. Taken(outq, outq', d, here, here2)
  BY <1>2, <1>3, <1>4, FirstTaken
<1>6. UNCHANGED <<nick, channels, intent>> /\ (conn' = "on" <=> conn = "on")
      /\ (conn # "on" => outq' = outq)
  BY DEF client
<1>7. (here2 <=> InRoom(d)') /\ (s.in <=> here2)
  BY <1>1
<1> QED BY <1>2, <1>5, <1>6, <1>7, ServedFollowed

LEMMA AnsweredRoom ==
    ASSUME Typed, NEW c \in Channel, NEW list \in NickList, NEW w, Answered(c, list, w), mine' = mine
    PROVE  /\ wire' = w /\ (InRoom(c)' <=> mine \in DOMAIN list)
           /\ \A d \in Channel \ {c} : InRoom(d)' <=> InRoom(d)
<1>1. rooms' = [rooms EXCEPT ![c].list = list] /\ wire' = w
  BY DEF Answered
<1> QED BY <1>1, RoomChanged

\* Of the channel d, which the client will stand on as s says.
LEMMA ObeyServed ==
    ASSUME Obedient, Serve, NEW d \in Channel
    PROVE  Followed(d)'
<1>0. Typed /\ Registered
  BY DEF Obedient, Faithful
<1>1. /\ conn # "off" /\ outq # <<>> /\ outq' = Tail(outq) /\ outq \in Seq(Command)
      /\ UNCHANGED <<client, intent>> /\ mine' = mine /\ mine \in Nick
      /\ Head(outq) \in Command /\ Head(outq).chan \in Channel
  BY <1>0, ServeFacts
<1>2. PICK q, c, list : q = Head(outq) /\ c = q.chan /\ list = rooms[c].list
  OBVIOUS
<1>3. /\ q = outq[1] /\ q \in Command /\ c \in Channel /\ list \in NickList
      /\ wire \in Seq(Messages) /\ (InRoom(c) <=> mine \in DOMAIN list)
  BY <1>0, <1>1, <1>2, TailFacts, RoomFacts DEF Typed, InRoom
<1>4. PICK u, here, s :
         /\ FollowedBy(d, u, here) /\ here \in BOOLEAN /\ (here <=> InRoom(d))
         /\ s \in Standing /\ s.nick = mine /\ (s.in <=> here)
         /\ \A still : Stands(d, wire, u, wire, s, still)
         /\ conn # "on" => outq = <<>>
  BY LastStanding
<1>5. conn = "on"
  BY <1>1, <1>4
<1>6. PICK w, still : w = wire /\ still = Unasked(outq, d)
  OBVIOUS
<1>7. w \in Seq(Messages) /\ Stands(d, w, u, w, s, still)
  BY <1>3, <1>4, <1>6
<1>8. ASSUME NEW x, wire' = x, NEW r, Stands(d, w, u, x, r, still), r.nick = mine, r.in <=> InRoom(d)',
             ~Asks(q, d) => (r.in <=> here),
             q = Cmd("JOIN", d) => r.in,
             q = Cmd("PART", d) => ~r.in
      PROVE  Followed(d)'
  <2>1. /\ Stands(d, wire, u, x, r, Unasked(outq, d)) /\ r.nick = mine'
        /\ ~Asks(outq[1], d) => (r.in <=> here)
        /\ outq[1] = Cmd("JOIN", d) => r.in
        /\ outq[1] = Cmd("PART", d) => ~r.in
    BY <1>1, <1>3, <1>6, <1>8
  <2> QED BY <1>1, <1>4, <1>5, <1>8, <2>1, ServedWith
<1>9. q = [cmd |-> q.cmd, chan |-> c] /\ q.cmd \in {"JOIN", "PART", "NAMES", "MODE"}
  BY <1>2, <1>3 DEF Command
<1>10. Asks(q, d) <=> (c = d /\ q.cmd \in {"JOIN", "PART"})
  BY <1>2 DEF Asks
<1>11. \A cmd : q = Cmd(cmd, d) => q.cmd = cmd /\ c = d
  BY <1>2 DEF Cmd
\* the messages that may be sent
<1>12. PICK all, join, names, some, end, part, mode, l :
          /\ all = AllNames(c) /\ join = JoinMsg(c) /\ names = NamesMsg(c, all) /\ end = EndMsg(c)
          /\ some = NamesMsg(c, list) /\ part = PartMsg(c) /\ mode = ModeMsg(c)
          /\ l = Without(list, mine)
  OBVIOUS
<1>13. all \in NickList /\ mine \in DOMAIN all
  <2>1. CASE InRoom(c)
    BY <1>2, <1>3, <1>12, <2>1 DEF AllNames
  <2>2. CASE ~InRoom(c)
    <3>1. PICK one : one = Single(mine, list = NoNicks)
      OBVIOUS
    <3>2. (list = NoNicks) \in BOOLEAN
      OBVIOUS
    <3>3. one \in NickList /\ DOMAIN one = {mine}
      BY <1>1, <3>1, <3>2, SingleFacts
    <3>4. all = Over(one, list)
      BY <1>2, <1>12, <2>2, <3>1 DEF AllNames
    <3>5. Over(one, list) \in NickList /\ DOMAIN Over(one, list) = DOMAIN one \cup DOMAIN list
      BY <1>3, <3>3, OverFacts
    <3> QED BY <3>3, <3>4, <3>5
  <2> QED BY <2>1, <2>2
<1>14. l \in NickList /\ mine \notin DOMAIN l
  <2>1. PICK me : me = mine
    OBVIOUS
  <2>2. l = Without(list, me) /\ Without(list, me) \in NickList
        /\ DOMAIN Without(list, me) = DOMAIN list \ {me}
    BY <1>3, <1>12, <2>1, WithoutFacts
  <2> QED BY <2>1, <2>2
<1>15. {join, names, some, end, part, mode} \subseteq Messages
  <2>1. /\ {JoinMsg(c), PartMsg(c), NamesMsg(c, all), EndMsg(c), ModeMsg(c)} \subseteq Messages
    BY <1>0, <1>1, <1>3, <1>13, MessageTypes
  <2>2. NamesMsg(c, list) \in Messages
    BY <1>0, <1>1, <1>3, MessageTypes
  <2> QED BY <1>12, <2>1, <2>2
<1>16. /\ join.cmd = "JOIN" /\ join.nick = mine /\ join.chan = c
       /\ part.cmd = "PART" /\ part.nick = mine /\ part.chan = c
       /\ names.cmd = "353" /\ some.cmd = "353" /\ end.cmd = "366" /\ mode.cmd = "324"
  BY <1>12 DEF JoinMsg, PartMsg, NamesMsg, EndMsg, ModeMsg
<1>17. /\ \A m \in {names, some, end, mode} : Aside(m, d)
       /\ c # d => Aside(join, d) /\ Aside(part, d)
  BY <1>16 DEF Aside
<1>18. ASSUME c = d, q.cmd \in {"JOIN", "PART"}
       PROVE  ~still
  <2>1. 1 \in 1 .. Len(outq)
    BY <1>1
  <2> QED BY <1>3, <1>6, <1>10, <1>18, <2>1 DEF Unasked
\* the six answers
<1>19. CASE /\ q.cmd = "JOIN" /\ ~InRoom(c)
            /\ Answered(c, all, Append(Append(Append(w, join), names), end))
  <2>1. wire' = Append(Append(Append(w, join), names), end) /\ InRoom(c)'
        /\ (c # d => (InRoom(d)' <=> InRoom(d)))
    BY <1>0, <1>1, <1>3, <1>13, <1>19, AnsweredRoom
  <2>2. PICK r : r = IF c = d THEN After(join, s, d) ELSE s
    OBVIOUS
  <2>3. Stands(d, w, u, Append(w, join), r, still) /\ r.nick = mine
        /\ IF c = d THEN r.in ELSE r.in <=> here
    <3>1. CASE c # d
      <4>1. r = s
        BY <2>2, <3>1
      <4>2. Stands(d, w, u, Append(w, join), s, still)
        BY <1>7, <1>15, <1>17, <3>1, AsideStands
      <4> QED BY <1>4, <3>1, <4>1, <4>2
    <3>2. CASE c = d
      <4>1. Own(join, s, d, {"JOIN"}) /\ Fits(join, s, d) /\ NickAfter(join, s) = s.nick
        BY <1>4, <1>16, <1>19, <3>2 DEF Own, Fits, NickAfter
      <4>2. ~still
        BY <1>18, <1>19, <3>2
      <4>3. Stands(d, w, u, Append(w, join), After(join, s, d), still)
        BY <1>7, <1>15, <4>1, <4>2, StandsAppend
      <4>4. After(join, s, d).in /\ After(join, s, d).nick = s.nick
        BY <1>4, <1>15, <4>1, AfterFacts
      <4>5. r = After(join, s, d)
        BY <2>2, <3>2
      <4> QED BY <1>4, <3>2, <4>3, <4>4, <4>5
    <3> QED BY <3>1, <3>2
  <2>4. Stands(d, w, u, Append(Append(w, join), names), r, still)
    BY <1>7, <1>15, <1>17, <2>3, AsideStands
  <2>5. Stands(d, w, u, Append(Append(Append(w, join), names), end), r, still)
    BY <1>7, <1>15, <1>17, <2>4, AsideStands
  <2>6. /\ r.in <=> InRoom(d)'
        /\ ~Asks(q, d) => (r.in <=> here)
        /\ q = Cmd("JOIN", d) => r.in
        /\ q = Cmd("PART", d) => ~r.in
    BY <1>4, <1>10, <1>11, <1>19, <2>1, <2>3
  <2> QED BY <1>8, <2>1, <2>3, <2>5, <2>6
<1>20. CASE q.cmd = "PART" /\ InRoom(c) /\ Answered(c, l, Append(w, part))
  <2>1. wire' = Append(w, part) /\ ~InRoom(c)' /\ (c # d => (InRoom(d)' <=> InRoom(d)))
    BY <1>0, <1>1, <1>3, <1>14, <1>20, AnsweredRoom
  <2>2. PICK r : r = IF c = d THEN After(part, s, d) ELSE s
    OBVIOUS
  <2>3. Stands(d, w, u, Append(w, part), r, still) /\ r.nick = mine
        /\ IF c = d THEN ~r.in ELSE r.in <=> here
    <3>1. CASE c # d
      <4>1. r = s
        BY <2>2, <3>1
      <4>2. Stands(d, w, u, Append(w, part), s, still)
        BY <1>7, <1>15, <1>17, <3>1, AsideStands
      <4> QED BY <1>4, <3>1, <4>1, <4>2
    <3>2. CASE c = d
      <4>1. Own(part, s, d, {"PART", "KICK"}) /\ Fits(part, s, d) /\ NickAfter(part, s) = s.nick
        BY <1>4, <1>16, <1>20, <3>2 DEF Own, Fits, NickAfter
      <4>2. ~still
        BY <1>18, <1>20, <3>2
      <4>3. Stands(d, w, u, Append(w, part), After(part, s, d), still)
        BY <1>7, <1>15, <4>1, <4>2, StandsAppend
      <4>4. ~After(part, s, d).in /\ After(part, s, d).nick = s.nick
        BY <1>4, <1>15, <4>1, AfterFacts
      <4>5. r = After(part, s, d)
        BY <2>2, <3>2
      <4> QED BY <1>4, <3>2, <4>3, <4>4, <4>5
    <3> QED BY <3>1, <3>2
  <2>4. /\ r.in <=> InRoom(d)'
        /\ ~Asks(q, d) => (r.in <=> here)
        /\ q = Cmd("JOIN", d) => r.in
        /\ q = Cmd("PART", d) => ~r.in
    BY <1>4, <1>10, <1>11, <1>20, <2>1, <2>3
  <2> QED BY <1>8, <2>1, <2>3, <2>4
\* the client stays where it is
<1>21. ASSUME NEW x, Answered(c, list, x), Stands(d, w, u, x, s, still),
              \/ q.cmd \in {"NAMES", "MODE"}
              \/ IF InRoom(c) THEN q.cmd = "JOIN" ELSE q.cmd = "PART"
       PROVE  Followed(d)'
  <2>1. wire' = x /\ (InRoom(d)' <=> InRoom(d))
    BY <1>0, <1>1, <1>3, <1>21, AnsweredRoom
  <2>2. /\ s.in <=> InRoom(d)'
        /\ ~Asks(q, d) => (s.in <=> here)
        /\ q = Cmd("JOIN", d) => s.in
        /\ q = Cmd("PART", d) => ~s.in
    BY <1>4, <1>11, <1>21, <2>1
  <2> QED BY <1>4, <1>8, <1>21, <2>1, <2>2
<1>22. CASE q.cmd = "NAMES" /\ InRoom(c) /\ Answered(c, list, Append(Append(w, some), end))
  <2>1. Stands(d, w, u, Append(w, some), s, still)
    BY <1>7, <1>15, <1>17, AsideStands
  <2>2. Stands(d, w, u, Append(Append(w, some), end), s, still)
    BY <1>7, <1>15, <1>17, <2>1, AsideStands
  <2> QED BY <1>21, <1>22, <2>2
<1>23. CASE q.cmd = "NAMES" /\ ~InRoom(c) /\ Answered(c, list, Append(w, end))
  <2>1. Stands(d, w, u, Append(w, end), s, still)
    BY <1>7, <1>15, <1>17, AsideStands
  <2> QED BY <1>21, <1>23, <2>1
<1>24. CASE q.cmd = "MODE" /\ Answered(c, list, Append(w, mode))
  <2>1. Stands(d, w, u, Append(w, mode), s, still)
    BY <1>7, <1>15, <1>17, AsideStands
  <2> QED BY <1>21, <1>24, <2>1
<1>25. CASE (IF InRoom(c) THEN q.cmd = "JOIN" ELSE q.cmd = "PART") /\ Answered(c, list, w)
  BY <1>7, <1>21, <1>25
<1>26. \/ /\ q.cmd = "JOIN" /\ ~InRoom(c)
          /\ Answered(c, all, Append(Append(Append(w, join), names), end))
       \/ q.cmd = "PART" /\ InRoom(c) /\ Answered(c, l, Append(w, part))
       \/ q.cmd = "NAMES" /\ InRoom(c) /\ Answered(c, list, Append(Append(w, some), end))
       \/ q.cmd = "NAMES" /\ ~InRoom(c) /\ Answered(c, list, Append(w, end))
       \/ q.cmd = "MODE" /\ Answered(c, list, Append(w, mode))
       \/ (IF InRoom(c) THEN q.cmd = "JOIN" ELSE q.cmd = "PART") /\ Answered(c, list, w)
  BY <1>0, <1>2, <1>6, <1>12, ServeCases
<1> QED BY <1>19, <1>20, <1>22, <1>23, <1>24, <1>25, <1>26

LEMMA ObeyServe ==
    ASSUME Obedient, Serve
    PROVE  \A d \in Channel : Followed(d)'
BY ObeyServed

-----------------------------------------------------------------------------
LEMMA InitObedient ==
    ASSUME Init
    PROVE  Obedient
<1>1. Faithful
  BY InitFaithful
<1>2. /\ conn = "off" /\ mine = NoNick /\ outq = <<>> /\ wire = <<>>
      /\ channels = [c \in Channel |-> NoChannel] /\ intent = [c \in Channel |-> "out"]
  BY DEF Init
<1>3. ASSUME NEW c \in Channel
      PROVE  Followed(c)
  <2>1. PICK b, want : b = channels[c] /\ want = intent[c]
    OBVIOUS
  <2>2. b = NoChannel /\ want = "out"
    BY <1>2, <2>1
  <2>3. ~b.hook_autorejoin /\ ~b.open
    BY <2>2 DEF NoChannel, NewChannel
  <2>4. PICK u, w, off, here :
           /\ w = <<>> /\ off = "off" /\ here = FALSE
           /\ Obeys(c, w, u, w, b, off, want, here) /\ u[0].nick = NoNick
    BY <2>2, <2>3, ObeysOff
  <2>5. ~InRoom(c)
    BY <1>1, <1>2, RoomFacts, ChannelsAssumption DEF Faithful
  <2>6. Len(wire) = 0
    BY <1>2
  <2>7. FollowedBy(c, u, here)
    BY <1>2, <2>1, <2>4, <2>5, <2>6 DEF FollowedBy
  <2> QED BY <2>7 DEF Followed
<1> QED BY <1>1, <1>3 DEF Obedient

LEMMA NextObedient ==
    ASSUME Obedient, [Next]_vars
    PROVE  Obedient'
<1>1. Faithful'
  BY NextFaithful DEF Obedient
<1>2. CASE User
  BY <1>1, <1>2, ObeyUser DEF Obedient
<1>3. CASE Get
  <2>1. ASSUME NEW closes \in BOOLEAN, GetPart(closes)
        PROVE  Obedient'
    BY <1>1, <2>1, ObeyGetPart DEF Obedient
  <2>2. ASSUME NEW autorejoin \in AutorejoinModes, GetKick(autorejoin)
        PROVE  Obedient'
    BY <1>1, <2>2, ObeyGetKick DEF Obedient
  <2>3. CASE Get001 \/ GetJoin \/ GetNick \/ GetQuit \/ GetMode \/ Get324 \/ Get353 \/ Get366
    BY <1>1, <2>3, ObeyGet001, ObeyGetJoin, ObeyGetNick, ObeyGetQuit, ObeyGetMode, ObeyGet324,
       ObeyGet353, ObeyGet366 DEF Obedient
  <2> QED BY <1>3, <2>1, <2>2, <2>3 DEF Get
<1>4. CASE OtherUsers
  <2>1. ASSUME NEW n \in Nick, NEW c \in Channel, OtherJoins(n, c)
        PROVE  Obedient'
    BY <1>1, <2>1, ObeyOtherJoins DEF Obedient
  <2>2. ASSUME NEW n \in Nick, NEW c \in Channel, NEW cmd \in {"PART", "KICK"}, Removed(n, c, cmd)
        PROVE  Obedient'
    BY <1>1, <2>2, ObeyRemoved DEF Obedient
  <2>3. ASSUME NEW n \in Nick, NEW c \in Channel, NEW set \in BOOLEAN, Op(n, c, set)
        PROVE  Obedient'
    BY <1>1, <2>3, ObeyOp DEF Obedient
  <2>4. ASSUME NEW n \in Nick, NEW new \in Nick, Renamed(n, new)
        PROVE  Obedient'
    BY <1>1, <2>4, ObeyRenamed DEF Obedient
  <2>5. ASSUME NEW n \in Nick, Quits(n)
        PROVE  Obedient'
    BY <1>1, <2>5, ObeyQuits DEF Obedient
  <2>6. ASSUME NEW c \in Channel, Flag(c)
        PROVE  Obedient'
    BY <1>1, <2>6, ObeyFlag DEF Obedient
  <2> QED BY <1>4, <2>1, <2>2, <2>3, <2>4, <2>5, <2>6 DEF OtherUsers
<1>5. CASE Serve \/ Connect \/ Drop
  BY <1>1, <1>5, ObeyServe, ObeyConnect, ObeyDrop DEF Obedient
<1>6. ASSUME NEW c \in Channel, AutorejoinCb(c)
      PROVE  Obedient'
  BY <1>1, <1>6, ObeyAutorejoin DEF Obedient
<1>7. CASE UNCHANGED vars
  <2>1. UNCHANGED <<conn, nick, channels, outq, intent>> /\ wire' = wire /\ mine' = mine /\ rooms' = rooms
    BY <1>7 DEF vars, client, server
  <2>2. \A c \in Channel : InRoom(c)' <=> InRoom(c)
    BY <2>1 DEF InRoom
  <2>3. \A c \in Channel : Followed(c)'
    BY <2>1, <2>2, UntoldFollowed
  <2> QED BY <1>1, <2>3 DEF Obedient
<1> QED BY <1>2, <1>3, <1>4, <1>5, <1>6, <1>7 DEF Next

LEMMA ObedientIsObeyed ==
    ASSUME Obedient
    PROVE  UserIsObeyed
<1> SUFFICES ASSUME NEW c \in Channel, conn = "on", ~Underway(c), ~channels[c].hook_autorejoin
             PROVE  /\ intent[c] = "in" => InRoom(c)
                    /\ intent[c] = "out" => ~InRoom(c)
  BY DEF UserIsObeyed
<1>1. PICK u, here : FollowedBy(c, u, here)
  BY DEF Obedient, Followed
<1>2. Unasked(outq, c) /\ wire = <<>>
  BY NotUnderway DEF Obedient, Faithful
<1>3. PICK b, want : b = channels[c] /\ want = intent[c]
  OBVIOUS
<1>4. Obeys(c, <<>>, u, outq, b, "on", want, here) /\ (here <=> InRoom(c))
  BY <1>1, <1>2, <1>3 DEF FollowedBy
<1>5. (want = "in" => here) /\ (want = "out" => ~here)
  BY <1>2, <1>3, <1>4, ObeysAtLast
<1> QED BY <1>3, <1>4, <1>5

\* In every reachable state, of each channel: the commands and messages on
\* their way end with what the user asked last.
THEOREM AlwaysObedient == Spec => []Obedient
BY InitObedient, NextObedient, PTL DEF Spec

\* For any channels, nicks and bounds, and whatever crosses: once nothing is on
\* its way for a channel, the client is on it if the user's last word was to be
\* there and is not if it was to leave (irc_command_join, _part, _cycle,
\* irc_buffer_close_cb, irc_protocol_cb_part, _kick, _001,
\* irc_channel_autorejoin_cb, irc_server_disconnect).
THEOREM UserAlwaysObeyed == Spec => []UserIsObeyed
BY ObedientIsObeyed, AlwaysObedient, PTL
=============================================================================
