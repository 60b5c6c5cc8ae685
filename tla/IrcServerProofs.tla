-------------------------- MODULE IrcServerProofs --------------------------
(***************************************************************************)
(* Theorems about IrcServer: whatever the order of commands, timers,       *)
(* messages and failures, a server does one thing at a time, its timers    *)
(* have a socket, and once disconnected by the user it stays so; a server  *)
(* the user wants always has something to wait for, the failures of each   *)
(* address are counted, and the reconnection delay only grows.             *)
(***************************************************************************)
EXTENDS IrcServer, TLAPS

Server ==
    [hook_connect : {"none", "pending", "freed"}, sock : BOOLEAN, is_connected : BOOLEAN,
     hook_timer_connection : BOOLEAN, hook_timer_sasl : BOOLEAN,
     sasl : {"none", "started", "over"},
     addresses_count : 0 .. MaxAddresses, index_current_address : Address,
     current_address : BOOLEAN,
     retry_array : [Address -> 0 .. Ips - 1], current_retry : 0 .. Ips - 1,
     reconnect_delay : 0 .. DelayMax, reconnect_start : Age \cup {Idle},
     disconnected : BOOLEAN, buffer : BOOLEAN, failures : [Address -> 0 .. Ips - 1],
     disturbed : BOOLEAN]

\* No socket, no timer, and no connect hook that will report.
Closed(s) ==
    /\ ~s.sock /\ ~s.is_connected /\ ~s.hook_timer_connection /\ ~s.hook_timer_sasl
    /\ s.hook_connect # "pending" /\ s.sasl # "started"

\* t has the connection of s: its hooks and its socket.
SameConnection(s, t) ==
    /\ t.hook_connect = s.hook_connect /\ t.sock = s.sock /\ t.is_connected = s.is_connected
    /\ t.hook_timer_connection = s.hook_timer_connection
    /\ t.hook_timer_sasl = s.hook_timer_sasl /\ t.sasl = s.sasl

\* The server does one thing at a time, and its timers and its SASL have a socket.
Sound(s) ==
    /\ s.sock => s.hook_connect = "none" /\ s.reconnect_start = Idle
    /\ s.hook_connect = "pending" => s.reconnect_start = Idle
    /\ s.is_connected => s.sock
    /\ s.hook_timer_connection \/ s.hook_timer_sasl => s.sock
    /\ s.sasl = "started" => s.sock

\* Nothing is under way.
Quiet(s) == s.hook_connect = "none" /\ ~s.sock /\ s.reconnect_start = Idle

-----------------------------------------------------------------------------
(* The functions of the server.                                            *)

LEMMA CloseConnectionCloses ==
    ASSUME NEW s \in Server
    PROVE  LET t == CloseConnection(s)
           IN  /\ t \in Server /\ Closed(t) /\ t.hook_connect = "none"
               /\ t.reconnect_start = s.reconnect_start
  BY DEF CloseConnection, Server, Closed

LEMMA GrownBound ==
    ASSUME NEW d \in 0 .. DelayMax
    PROVE  Grown(d) \in 0 .. DelayMax
  <1>1. DelayOption \in 0 .. DelayMax /\ DelayMax \in Nat /\ DelayGrowing \in Nat
    BY ConstantsAssumption
  <1>2. d * DelayGrowing \in Nat
    BY <1>1
  <1> QED
    BY <1>1, <1>2 DEF Grown

LEMMA UnscheduleType ==
    ASSUME NEW s \in Server
    PROVE  LET t == Unschedule(s)
           IN  t \in Server /\ SameConnection(s, t) /\ t.reconnect_start = Idle
  <1>1. 0 \in 0 .. DelayMax /\ Idle \in Age \cup {Idle}
    BY ConstantsAssumption
  <1> QED
    BY <1>1 DEF Unschedule, Server, SameConnection

LEMMA ReconnectScheduleType ==
    ASSUME NEW s \in Server
    PROVE  ReconnectSchedule(s) \in Server /\ SameConnection(s, ReconnectSchedule(s))
  <1>1. CASE AutoReconnect
    <2>1. Grown(s.reconnect_delay) \in 0 .. DelayMax
      BY GrownBound DEF Server
    <2>2. 0 \in Age
      BY ConstantsAssumption DEF Age
    <2> QED
      BY <1>1, <2>1, <2>2 DEF ReconnectSchedule, Server, SameConnection
  <1>2. CASE ~AutoReconnect
    BY <1>2, UnscheduleType DEF ReconnectSchedule
  <1> QED
    BY <1>1, <1>2

LEMMA SetIndexType ==
    ASSUME NEW s \in Server, NEW index \in Nat
    PROVE  LET t == SetIndexCurrentAddress(s, index)
           IN  t \in Server /\ SameConnection(s, t) /\ t.reconnect_start = s.reconnect_start
  <1> DEFINE saved == IF s.current_address /\ s.index_current_address < s.addresses_count
                      THEN [s.retry_array EXCEPT ![s.index_current_address] = s.current_retry]
                      ELSE s.retry_array
             i == index % s.addresses_count
  <1>1. saved \in [Address -> 0 .. Ips - 1]
    BY DEF Server
  <1>2. 0 \in 0 .. Ips - 1
    BY ConstantsAssumption
  <1>3. CASE s.addresses_count = 0
    <2>1. SetIndexCurrentAddress(s, index) = [s EXCEPT !.current_address = FALSE, !.current_retry = 0]
      BY <1>3 DEF SetIndexCurrentAddress
    <2> QED
      BY <1>2, <2>1 DEF Server, SameConnection
  <1>4. CASE s.addresses_count # 0
    <2>1. i \in Address
      <3>1. s.addresses_count \in 1 .. MaxAddresses /\ MaxAddresses \in Nat
        BY <1>4, ConstantsAssumption DEF Server
      <3>2. i \in 0 .. s.addresses_count - 1
        BY <3>1
      <3> QED
        BY <3>1, <3>2 DEF Address
    <2>2. saved[i] \in 0 .. Ips - 1
      BY <1>1, <2>1
    <2>3. SetIndexCurrentAddress(s, index) =
            [s EXCEPT !.retry_array = saved, !.index_current_address = i,
                      !.current_address = TRUE, !.current_retry = saved[i]]
      BY <1>4 DEF SetIndexCurrentAddress
    <2> HIDE DEF saved, i
    <2> QED
      BY <1>1, <2>1, <2>2, <2>3 DEF Server, SameConnection
  <1> QED
    BY <1>3, <1>4

LEMMA FailedType ==
    ASSUME NEW s \in Server
    PROVE  LET t == Failed(s)
           IN  t \in Server /\ SameConnection(s, t) /\ t.reconnect_start = s.reconnect_start
  <1>1. \A n \in 0 .. Ips - 1 : (n + 1) % Ips \in 0 .. Ips - 1
    BY ConstantsAssumption
  <1>2. (s.current_retry + 1) % Ips \in 0 .. Ips - 1
    BY <1>1 DEF Server
  <1>3. FailuresBecome(s, (s.failures[s.index_current_address] + 1) % Ips) \in [Address -> 0 .. Ips - 1]
    BY <1>1 DEF Server, FailuresBecome
  <1> QED
    BY <1>2, <1>3 DEF Failed, Server, SameConnection

\* hook_connect leaves a hook that will report, or a freed one.
LEMMA HookConnectType ==
    ASSUME NEW s \in Server, Closed(s), s.hook_connect = "none", s.reconnect_start = Idle,
           NEW t \in HookConnect(s)
    PROVE  t \in Server /\ Sound(t)
  <1>1. CASE t = [s EXCEPT !.hook_connect = "pending"]
    BY <1>1 DEF Server, Closed, Sound
  <1>2. ASSUME NEW u \in {s, Failed(s)},
               t = [ReconnectSchedule(u) EXCEPT !.hook_connect = "freed", !.disturbed = TRUE]
        PROVE  t \in Server /\ Sound(t)
    <2>1. u \in Server /\ Closed(u)
      BY FailedType DEF Closed, SameConnection
    <2>2. ReconnectSchedule(u) \in Server /\ Closed(ReconnectSchedule(u))
      BY <2>1, ReconnectScheduleType DEF Closed, SameConnection
    <2> QED
      BY <1>2, <2>2 DEF Server, Closed, Sound
  <1> QED
    BY <1>1, <1>2 DEF HookConnect

\* irc_server_connect gives up without a change of the connection, or closes it
\* and leaves a server that is sound once nothing is scheduled.
LEMMA ConnectType ==
    ASSUME NEW s \in Server, NEW r \in Connect(s)
    PROVE  /\ r.ok \in BOOLEAN /\ r.server \in Server
           /\ r.ok => ~r.server.sock /\ ~r.server.is_connected
                      /\ ~r.server.hook_timer_connection /\ ~r.server.hook_timer_sasl
                      /\ r.server.sasl # "started"
           /\ r.ok /\ s.reconnect_start = Idle => Sound(r.server)
           /\ ~r.ok => SameConnection(s, r.server) /\ r.server.reconnect_start = s.reconnect_start
  <1> DEFINE u == [s EXCEPT !.disconnected = FALSE, !.buffer = TRUE]
             at == SetIndexCurrentAddress(u, s.index_current_address)
             c == CloseConnection(at)
  <1>1. u \in Server /\ SameConnection(s, u) /\ u.reconnect_start = s.reconnect_start
    BY DEF Server, SameConnection
  <1>2. s.index_current_address \in Nat
    BY ConstantsAssumption DEF Server, Address
  <1>3. at \in Server /\ SameConnection(u, at) /\ at.reconnect_start = u.reconnect_start
    BY <1>1, <1>2, SetIndexType
  <1>4. /\ c \in Server /\ Closed(c) /\ c.hook_connect = "none"
        /\ c.reconnect_start = s.reconnect_start
    BY <1>1, <1>3, CloseConnectionCloses
  <1>5. \/ \E t \in HookConnect(c) : r = [ok |-> TRUE, server |-> t]
        \/ r = [ok |-> FALSE, server |-> at]
    BY DEF Connect
  <1> HIDE DEF c, at, u
  <1>6. ASSUME NEW t \in HookConnect(c)
        PROVE  /\ t \in Server /\ ~t.sock /\ ~t.is_connected
               /\ ~t.hook_timer_connection /\ ~t.hook_timer_sasl
               /\ t.sasl # "started"
               /\ s.reconnect_start = Idle => Sound(t)
    <2>1. s.reconnect_start = Idle => t \in Server /\ Sound(t)
      BY <1>4, <1>6, HookConnectType
    <2>2. /\ t \in Server /\ ~t.sock /\ ~t.is_connected
          /\ ~t.hook_timer_connection /\ ~t.hook_timer_sasl
          /\ t.sasl # "started"
      <3>1. CASE t = [c EXCEPT !.hook_connect = "pending"]
        BY <1>4, <3>1 DEF Server, Closed
      <3>2. ASSUME NEW v \in {c, Failed(c)},
                   t = [ReconnectSchedule(v) EXCEPT !.hook_connect = "freed", !.disturbed = TRUE]
            PROVE  /\ t \in Server /\ ~t.sock /\ ~t.is_connected
                   /\ ~t.hook_timer_connection /\ ~t.hook_timer_sasl
                   /\ t.sasl # "started"
        <4>1. v \in Server /\ Closed(v)
          BY <1>4, FailedType DEF Closed, SameConnection
        <4>2. ReconnectSchedule(v) \in Server /\ Closed(ReconnectSchedule(v))
          BY <4>1, ReconnectScheduleType DEF Closed, SameConnection
        <4> QED
          BY <3>2, <4>2 DEF Server, Closed
      <3> QED
        BY <1>6, <3>1, <3>2 DEF HookConnect
    <2> QED
      BY <2>1, <2>2
  <1>7. ASSUME NEW t \in HookConnect(c), r = [ok |-> TRUE, server |-> t]
        PROVE  /\ r.ok \in BOOLEAN /\ r.server \in Server /\ r.ok
               /\ ~r.server.sock /\ ~r.server.is_connected
               /\ ~r.server.hook_timer_connection /\ ~r.server.hook_timer_sasl
               /\ r.server.sasl # "started"
               /\ s.reconnect_start = Idle => Sound(r.server)
    <2>1. r.ok /\ r.server = t
      BY <1>7
    <2> QED
      BY <1>6, <2>1
  <1>8. CASE r = [ok |-> FALSE, server |-> at]
    <2>1. r.ok = FALSE /\ r.server = at
      BY <1>8
    <2>2. SameConnection(s, at) /\ at.reconnect_start = s.reconnect_start
      BY <1>1, <1>3 DEF SameConnection
    <2> QED
      BY <1>3, <2>1, <2>2
  <1> QED
    BY <1>5, <1>7, <1>8

LEMMA ClosedIsSound ==
    ASSUME NEW s \in Server, Closed(s) PROVE Sound(s)
  BY DEF Closed, Sound

LEMMA SwitchAddressType ==
    ASSUME NEW s \in Server
    PROVE  LET t == SwitchAddress(s)
           IN  t \in Server /\ SameConnection(s, t) /\ t.reconnect_start = s.reconnect_start
  <1>1. s.index_current_address + 1 \in Nat
    BY ConstantsAssumption DEF Server, Address
  <1>2. CASE s.addresses_count > 1
    BY <1>1, <1>2, SetIndexType DEF SwitchAddress
  <1>3. CASE ~(s.addresses_count > 1)
    BY <1>3 DEF SwitchAddress, SameConnection
  <1> QED
    BY <1>2, <1>3

\* The next address, at once or after the delay.
LEMMA SwitchAndConnectSound ==
    ASSUME NEW s \in Server, Closed(s), s.reconnect_start = Idle, NEW t \in SwitchAndConnect(s)
    PROVE  t \in Server /\ Sound(t)
  <1> DEFINE next == SwitchAddress(s)
  <1>1. next \in Server /\ Closed(next) /\ next.reconnect_start = Idle
    BY SwitchAddressType DEF SameConnection, Closed
  <1>2. \/ \E r \in Connect(next) : t = r.server
        \/ t = ReconnectSchedule(next)
    BY DEF SwitchAndConnect
  <1> HIDE DEF next
  <1>3. ASSUME NEW r \in Connect(next), t = r.server
        PROVE  t \in Server /\ Sound(t)
    <2>1. CASE r.ok
      BY <1>1, <1>3, <2>1, ConnectType
    <2>2. CASE ~r.ok
      <3>1. t \in Server /\ Closed(t)
        BY <1>1, <1>3, <2>2, ConnectType DEF SameConnection, Closed
      <3> QED
        BY <3>1, ClosedIsSound
    <2> QED
      BY <2>1, <2>2
  <1>4. CASE t = ReconnectSchedule(next)
    <2>1. t \in Server /\ Closed(t)
      BY <1>1, <1>4, ReconnectScheduleType DEF SameConnection, Closed
    <2> QED
      BY <2>1, ClosedIsSound
  <1> QED
    BY <1>2, <1>3, <1>4

\* A connection that is tried, or put off when it cannot be.
LEMMA ConnectOrSchedule ==
    ASSUME NEW s \in Server, Closed(s), s.reconnect_start = Idle, NEW r \in Connect(s)
    PROVE  LET t == IF r.ok THEN r.server ELSE ReconnectSchedule(r.server)
           IN  t \in Server /\ Sound(t)
  <1>1. CASE r.ok
    BY <1>1, ConnectType
  <1>2. CASE ~r.ok
    <2>1. r.server \in Server /\ Closed(r.server)
      BY <1>2, ConnectType DEF SameConnection, Closed
    <2>2. ReconnectSchedule(r.server) \in Server /\ Closed(ReconnectSchedule(r.server))
      BY <2>1, ReconnectScheduleType DEF SameConnection, Closed
    <2> QED
      BY <1>2, <2>2, ClosedIsSound
  <1> QED
    BY <1>1, <1>2

LEMMA DisconnectCloses ==
    ASSUME NEW s \in Server, NEW switch_address \in BOOLEAN, NEW reconnect \in BOOLEAN
    PROVE  LET t == Disconnect(s, switch_address, reconnect)
           IN  t \in Server /\ Closed(t) /\ Sound(t) /\ (~reconnect => Quiet(t))
  <1> DEFINE closed == CloseConnection(s)
             f == IF s.current_address THEN FailuresBecome(s, 0) ELSE s.failures
             zero == [closed EXCEPT !.current_retry = 0,
                                    !.failures = IF s.current_address THEN FailuresBecome(s, 0) ELSE @]
             moved == IF switch_address THEN SwitchAddress(zero) ELSE SetIndexCurrentAddress(zero, 0)
             timed == IF reconnect THEN ReconnectSchedule(moved) ELSE Unschedule(moved)
             t == [timed EXCEPT !.disconnected = TRUE]
  <1>1. closed \in Server /\ Closed(closed) /\ closed.hook_connect = "none"
    BY CloseConnectionCloses
  <1>2. f \in [Address -> 0 .. Ips - 1] /\ 0 \in 0 .. Ips - 1
    BY ConstantsAssumption DEF Server, FailuresBecome
  <1>3. zero \in Server /\ Closed(zero) /\ zero.hook_connect = "none"
    <2>1. closed.failures = s.failures
      BY DEF CloseConnection, Server
    <2>2. zero = [closed EXCEPT !.current_retry = 0, !.failures = f]
      BY <1>1, <2>1 DEF Server
    <2> HIDE DEF zero, closed, f
    <2> QED
      BY <1>1, <1>2, <2>2 DEF Server, Closed
  <1> HIDE DEF zero, closed, f
  <1>4. moved \in Server /\ Closed(moved) /\ moved.hook_connect = "none"
    BY <1>3, SwitchAddressType, SetIndexType DEF SameConnection, Closed
  <1> HIDE DEF moved
  <1>5. /\ timed \in Server /\ Closed(timed) /\ timed.hook_connect = "none"
        /\ ~reconnect => timed.reconnect_start = Idle
    <2>1. CASE reconnect
      BY <1>4, <2>1, ReconnectScheduleType DEF SameConnection, Closed
    <2>2. CASE ~reconnect
      BY <1>4, <2>2, UnscheduleType DEF SameConnection, Closed
    <2> QED
      BY <2>1, <2>2
  <1> HIDE DEF timed
  <1>6. t \in Server /\ Closed(t) /\ (~reconnect => Quiet(t))
    BY <1>5 DEF Server, Closed, Quiet
  <1>7. Disconnect(s, switch_address, reconnect) = t
    BY DEF Disconnect, closed, zero, moved, timed
  <1> HIDE DEF t
  <1> QED
    BY <1>6, <1>7, ClosedIsSound

-----------------------------------------------------------------------------
(* The inductive invariant.                                                *)

IInv ==
    /\ TypeOK
    /\ Sound(server)
    /\ starting \/ stopped => Quiet(server)

LEMMA InitHolds ==
    ASSUME Init PROVE IInv
  <1>1. /\ MaxAddresses \in 0 .. MaxAddresses /\ 0 \in Address /\ 0 \in 0 .. Ips - 1
        /\ 0 \in 0 .. DelayMax /\ Idle \in Age \cup {Idle} /\ 0 \in 0 .. MaxCommands
    BY ConstantsAssumption DEF Address
  <1>2. [a \in Address |-> 0] \in [Address -> 0 .. Ips - 1]
    BY <1>1
  <1>3. New(MaxAddresses) \in Server
    BY <1>1, <1>2 DEF New, Server
  <1>4. Sound(New(MaxAddresses)) /\ Quiet(New(MaxAddresses))
    BY DEF New, Sound, Quiet
  <1>5. server = New(MaxAddresses) /\ commands = 0
    BY DEF Init
  <1>6. {usable, starting, wanted, stopped} \subseteq BOOLEAN
    BY DEF Init
  <1> HIDE DEF New
  <1>7. TypeOK
    BY <1>1, <1>3, <1>5, <1>6 DEF TypeOK, Server
  <1> QED
    BY <1>4, <1>5, <1>7 DEF IInv

\* The end of /connect and /reconnect.
LEMMA ConnectedSound ==
    ASSUME NEW s \in Server, Sound(s), wanted \in BOOLEAN, Connected(s)
    PROVE  server' \in Server /\ Sound(server') /\ wanted' \in BOOLEAN /\ stopped' = FALSE
  <1>1. PICK r \in Connect(s) :
           /\ server' = IF r.ok THEN Unschedule(r.server) ELSE r.server
           /\ wanted' = (r.ok \/ (wanted /\ r.server.reconnect_start # Idle))
           /\ stopped' = FALSE
    BY DEF Connected
  <1>2. r.ok \in BOOLEAN /\ r.server \in Server
    BY ConnectType
  <1>3. wanted' \in BOOLEAN
    BY <1>1, <1>2
  <1>4. CASE r.ok
    <2>1. /\ ~r.server.sock /\ ~r.server.is_connected
          /\ ~r.server.hook_timer_connection /\ ~r.server.hook_timer_sasl
          /\ r.server.sasl # "started"
      BY <1>4, ConnectType
    <2>2. Unschedule(r.server) \in Server /\ Sound(Unschedule(r.server))
      BY <1>2, <2>1, UnscheduleType DEF SameConnection, Sound
    <2> QED
      BY <1>1, <1>3, <1>4, <2>2
  <1>5. CASE ~r.ok
    <2>1. SameConnection(s, r.server) /\ r.server.reconnect_start = s.reconnect_start
      BY <1>5, ConnectType
    <2>2. Sound(r.server)
      BY <2>1 DEF SameConnection, Sound
    <2> QED
      BY <1>1, <1>2, <1>3, <1>5, <2>2
  <1> QED
    BY <1>4, <1>5

\* What is left of the invariant when the server is sound.
LEMMA IInvFrom ==
    ASSUME IInv, server' \in Server, Sound(server'), usable' \in BOOLEAN, starting' \in BOOLEAN,
           wanted' \in BOOLEAN, stopped' \in BOOLEAN, commands' \in 0 .. MaxCommands,
           starting' \/ stopped' => Quiet(server')
    PROVE  IInv'
  BY DEF IInv, TypeOK, Server

-----------------------------------------------------------------------------
(* The steps.                                                              *)

LEMMA UserStep ==
    ASSUME IInv, User PROVE IInv'
  <1>1. server \in Server /\ Sound(server) /\ (stopped => Quiet(server))
    BY DEF IInv, TypeOK, Server
  <1>2. /\ {usable, starting, wanted, stopped} \subseteq BOOLEAN
        /\ commands \in 0 .. MaxCommands /\ MaxCommands \in Nat
    BY ConstantsAssumption DEF IInv, TypeOK
  <1>3. Command => ~starting /\ commands' \in 0 .. MaxCommands
    BY <1>2 DEF Command
  <1>4. ASSUME NEW switch_address \in BOOLEAN, CommandConnect(switch_address)
        PROVE  IInv'
    <2> DEFINE s == IF switch_address THEN SwitchAddress(server) ELSE server
    <2>1. s \in Server /\ Sound(s)
      BY <1>1, SwitchAddressType DEF SameConnection, Sound
    <2>2. Connected(s) /\ Command /\ UNCHANGED <<usable, starting>>
      BY <1>4 DEF CommandConnect
    <2> HIDE DEF s
    <2>3. server' \in Server /\ Sound(server') /\ wanted' \in BOOLEAN /\ stopped' = FALSE
      BY <1>2, <2>1, <2>2, ConnectedSound
    <2> QED
      BY <1>2, <1>3, <2>2, <2>3, IInvFrom
  <1>5. ASSUME NEW switch_address \in BOOLEAN, CommandReconnect(switch_address)
        PROVE  IInv'
    <2>1. PICK s \in {Disconnect(server, switch_address, FALSE), SwitchAddress(server), server} :
             Connected(s)
      BY <1>5 DEF CommandReconnect
    <2>2. s \in Server /\ Sound(s)
      <3>1. CASE s = Disconnect(server, switch_address, FALSE)
        BY <1>1, <3>1, DisconnectCloses
      <3>2. CASE s = SwitchAddress(server)
        BY <1>1, <3>2, SwitchAddressType DEF SameConnection, Sound
      <3>3. CASE s = server
        BY <1>1, <3>3
      <3> QED
        BY <2>1, <3>1, <3>2, <3>3
    <2>3. Command /\ UNCHANGED <<usable, starting>>
      BY <1>5 DEF CommandReconnect
    <2>4. server' \in Server /\ Sound(server') /\ wanted' \in BOOLEAN /\ stopped' = FALSE
      BY <1>2, <2>1, <2>2, ConnectedSound
    <2> QED
      BY <1>2, <1>3, <2>3, <2>4, IInvFrom
  <1>6. CASE CommandDisconnect
    <2>1. server' = Disconnect(server, FALSE, FALSE) /\ wanted' = FALSE /\ stopped' = TRUE
      BY <1>6 DEF CommandDisconnect, Stops
    <2>2. server' \in Server /\ Sound(server') /\ Quiet(server')
      BY <1>1, <2>1, DisconnectCloses
    <2> QED
      BY <1>2, <1>3, <1>6, <2>1, <2>2, IInvFrom DEF CommandDisconnect
  <1>7. CASE BufferClose
    <2>1. CASE server.disconnected
      <3>1. server' = [server EXCEPT !.buffer = FALSE] /\ UNCHANGED <<wanted, stopped>>
        BY <1>7, <2>1 DEF BufferClose
      <3>2. server' \in Server /\ Sound(server') /\ (stopped => Quiet(server'))
        BY <1>1, <3>1 DEF Server, Sound, Quiet
      <3> QED
        BY <1>2, <1>3, <1>7, <3>1, <3>2, IInvFrom DEF BufferClose
    <2>2. CASE ~server.disconnected
      <3> DEFINE t == Disconnect(server, FALSE, FALSE)
      <3>1. server' = [t EXCEPT !.buffer = FALSE] /\ wanted' = FALSE /\ stopped' = TRUE
        BY <1>7, <2>2 DEF BufferClose, Stops
      <3>2. t \in Server /\ Sound(t) /\ Quiet(t)
        BY <1>1, DisconnectCloses
      <3> HIDE DEF t
      <3>3. server' \in Server /\ Sound(server') /\ Quiet(server')
        BY <3>1, <3>2 DEF Server, Sound, Quiet
      <3> QED
        BY <1>2, <1>3, <1>7, <3>1, <3>3, IInvFrom DEF BufferClose
    <2> QED
      BY <2>1, <2>2
  <1>8. CASE SetProxy
    <2>1. /\ server' = [server EXCEPT !.disturbed = TRUE] /\ Command
          /\ UNCHANGED <<starting, wanted, stopped>> /\ usable' \in BOOLEAN
      BY <1>2, <1>8 DEF SetProxy
    <2>2. server' \in Server /\ Sound(server') /\ (stopped => Quiet(server'))
      BY <1>1, <2>1 DEF Server, Sound, Quiet
    <2> QED
      BY <1>2, <1>3, <2>1, <2>2, IInvFrom
  <1>9. CASE Upgrade
    <2>1. /\ server' = Restored(Saved(server)) /\ Command
          /\ UNCHANGED <<usable, starting, wanted, stopped>>
      BY <1>9 DEF Upgrade
    <2>2. Saved(server) \in Server /\ Sound(Saved(server)) /\ (stopped => Quiet(Saved(server)))
      <3>1. CASE server.is_connected /\ Ssl
        <4> DEFINE t == Disconnect(server, FALSE, FALSE)
        <4>1. t \in Server /\ Closed(t)
          BY <1>1, DisconnectCloses
        <4>2. Saved(server) = [t EXCEPT !.index_current_address = 0,
                                        !.reconnect_delay = DelayOption,
                                        !.reconnect_start = DelayMax]
          BY <3>1 DEF Saved
        <4>3. /\ 0 \in Address /\ DelayOption \in 0 .. DelayMax /\ DelayMax \in Age
          BY ConstantsAssumption DEF Address, Age
        <4>4. ~stopped
          BY <1>1, <3>1 DEF Sound, Quiet
        <4> HIDE DEF t
        <4>5. Saved(server) \in Server /\ Closed(Saved(server))
          BY <4>1, <4>2, <4>3 DEF Server, Closed
        <4> QED
          BY <4>4, <4>5, ClosedIsSound
      <3>2. CASE ~(server.is_connected /\ Ssl)
        BY <1>1, <3>2 DEF Saved
      <3> QED
        BY <3>1, <3>2
    <2>3. [a \in Address |-> 0] \in [Address -> 0 .. Ips - 1] /\ 0 \in 0 .. Ips - 1
      BY ConstantsAssumption
    <2>4. \A s \in Server : Sound(s) =>
             Restored(s) \in Server /\ Sound(Restored(s)) /\ (Quiet(s) => Quiet(Restored(s)))
      <3> SUFFICES ASSUME NEW s \in Server, Sound(s)
                   PROVE  /\ Restored(s) \in Server /\ Sound(Restored(s))
                          /\ Quiet(s) => Quiet(Restored(s))
        OBVIOUS
      <3> DEFINE known == s.current_address \/ s.index_current_address < s.addresses_count
                 zero  == [a \in Address |-> 0]
      <3>1. known \in BOOLEAN
        OBVIOUS
      <3>2. zero \in [Address -> 0 .. Ips - 1]
        BY <2>3
      <3>3. Restored(s) =
              [s EXCEPT !.hook_connect = "none", !.disturbed = TRUE, !.hook_timer_connection = FALSE,
                        !.hook_timer_sasl = FALSE, !.current_retry = 0,
                        !.current_address = known, !.retry_array = zero, !.failures = zero]
        BY DEF Restored, Server
      <3> HIDE DEF known, zero
      <3>4. Restored(s) \in Server
        <4> DEFINE u == [s EXCEPT !.hook_connect = "none", !.disturbed = TRUE,
                                  !.hook_timer_connection = FALSE, !.hook_timer_sasl = FALSE]
        <4>1. u \in Server
          BY DEF Server
        <4>2. Restored(s) = [u EXCEPT !.current_retry = 0, !.current_address = known,
                                      !.retry_array = zero, !.failures = zero]
          BY <3>3
        <4> HIDE DEF u
        <4>3. 0 \in 0 .. Ips - 1
          BY <2>3
        <4> QED
          BY <3>1, <3>2, <4>1, <4>2, <4>3 DEF Server
      <3>5. SameConnection([s EXCEPT !.hook_connect = "none", !.hook_timer_connection = FALSE,
                                     !.hook_timer_sasl = FALSE], Restored(s))
            /\ Restored(s).reconnect_start = s.reconnect_start
        BY <3>3 DEF Server, SameConnection
      <3> QED
        BY <3>4, <3>5 DEF Server, SameConnection, Sound, Quiet
    <2>5. server' \in Server /\ Sound(server') /\ (stopped => Quiet(server'))
      BY <2>1, <2>2, <2>4
    <2> QED
      BY <1>2, <1>3, <2>1, <2>5, IInvFrom
  <1>10. ASSUME NEW count \in 0 .. MaxAddresses, SetAddresses(count)
         PROVE  IInv'
    <2>1. [a \in Address |-> 0] \in [Address -> 0 .. Ips - 1]
      BY ConstantsAssumption
    <2>2. /\ server' = [server EXCEPT !.addresses_count = count, !.disturbed = TRUE,
                                      !.retry_array = [a \in Address |-> 0],
                                      !.failures = [a \in Address |-> 0]]
          /\ UNCHANGED <<usable, starting, wanted, stopped>> /\ Command
      BY <1>10 DEF SetAddresses
    <2>3. server' \in Server /\ Sound(server') /\ (stopped => Quiet(server'))
      BY <1>1, <2>1, <2>2 DEF Server, Sound, Quiet
    <2> QED
      BY <1>2, <1>3, <2>2, <2>3, IInvFrom
  <1> QED
    BY <1>4, <1>5, <1>6, <1>7, <1>8, <1>9, <1>10 DEF User

\* SASL has failed and the connection is given up.
LEMMA GivesUpSound ==
    ASSUME server \in Server, wanted \in BOOLEAN, SaslGivesUp
    PROVE  server' \in Server /\ Sound(server') /\ wanted' \in BOOLEAN
  <1>1. (SaslFail = "reconnect") \in BOOLEAN
    OBVIOUS
  <1>2. server' = Disconnect(server, FALSE, SaslFail = "reconnect")
    BY DEF SaslGivesUp
  <1>3. wanted' \in BOOLEAN
    BY DEF SaslGivesUp
  <1> QED
    BY <1>1, <1>2, <1>3, DisconnectCloses

LEMMA TimerStep ==
    ASSUME IInv, AutoConnect \/ Timer \/ TimerLagTooHigh \/ TimerConnection \/ TimerSasl
    PROVE  IInv'
  <1>1. server \in Server /\ Sound(server) /\ (starting \/ stopped => Quiet(server))
    BY DEF IInv, TypeOK, Server
  <1>2. /\ {usable, starting, wanted, stopped} \subseteq BOOLEAN
        /\ commands \in 0 .. MaxCommands
    BY DEF IInv, TypeOK
  <1>3. Quiet(server) => Closed(server) /\ server.reconnect_start = Idle
    BY <1>1 DEF Sound, Quiet, Closed
  <1>4. CASE AutoConnect
    <2>1. PICK r \in Connect(server) :
             server' = IF r.ok THEN r.server ELSE ReconnectSchedule(r.server)
      BY <1>4 DEF AutoConnect
    <2>2. server' \in Server /\ Sound(server')
      BY <1>1, <1>3, <1>4, <2>1, ConnectOrSchedule DEF AutoConnect
    <2>3. /\ starting' = FALSE /\ wanted' = AutoReconnect /\ stopped' = FALSE
          /\ UNCHANGED <<usable, commands>> /\ AutoReconnect \in BOOLEAN
      BY <1>4, ConstantsAssumption DEF AutoConnect
    <2> QED
      BY <1>2, <2>2, <2>3, IInvFrom
  <1>5. CASE Timer
    <2>1. server.reconnect_start # Idle /\ UNCHANGED <<usable, starting, commands, wanted, stopped>>
      BY <1>5 DEF Timer, TimerWaits, TimerReconnects, Scheduled
    <2>2. ~starting /\ ~stopped
      BY <1>1, <2>1 DEF Quiet
    <2>3. Closed(server)
      BY <1>1, <2>1 DEF Sound, Closed
    <2>4. CASE TimerWaits
      <3>1. server' = Older(server)
        BY <2>4 DEF TimerWaits
      <3>2. /\ server.reconnect_start \in Age /\ DelayMax \in Nat
            /\ \A n \in Age : n < DelayMax => n + 1 \in Age
        BY <1>1, <2>1, ConstantsAssumption DEF Server, Age
      <3>3. server' \in Server /\ Closed(server')
        BY <1>1, <2>3, <3>1, <3>2 DEF Older, Server, Closed
      <3> QED
        BY <1>2, <2>1, <2>2, <3>3, ClosedIsSound, IInvFrom
    <2>5. CASE TimerReconnects
      <3> DEFINE s == [server EXCEPT !.reconnect_start = Idle]
      <3>1. Idle \in Age \cup {Idle}
        OBVIOUS
      <3>2. s \in Server /\ Closed(s) /\ s.reconnect_start = Idle
        BY <1>1, <2>3, <3>1 DEF Server, Closed
      <3>3. PICK r \in Connect(s) : server' = IF r.ok THEN r.server ELSE ReconnectSchedule(r.server)
        BY <2>5 DEF TimerReconnects, Reconnect
      <3> HIDE DEF s
      <3>4. server' \in Server /\ Sound(server')
        BY <3>2, <3>3, ConnectOrSchedule
      <3> QED
        BY <1>2, <2>1, <2>2, <3>4, IInvFrom
    <2> QED
      BY <1>5, <2>4, <2>5 DEF Timer
  <1>6. CASE TimerLagTooHigh
    <2>1. /\ server' = Disconnect(server, FALSE, TRUE) /\ server.is_connected
          /\ UNCHANGED <<usable, starting, commands, wanted, stopped>>
      BY <1>6 DEF TimerLagTooHigh
    <2>2. server' \in Server /\ Sound(server')
      BY <1>1, <2>1, DisconnectCloses
    <2>3. ~starting /\ ~stopped
      BY <1>1, <2>1 DEF Sound, Quiet
    <2> QED
      BY <1>2, <2>1, <2>2, <2>3, IInvFrom
  <1>7. CASE TimerConnection
    <2>1. /\ server.hook_timer_connection
          /\ UNCHANGED <<usable, starting, commands, wanted, stopped>>
          /\ \/ server' = [server EXCEPT !.hook_timer_connection = FALSE]
             \/ server' = Disconnect(server, TRUE, TRUE)
      BY <1>7 DEF TimerConnection
    <2>2. ~starting /\ ~stopped
      BY <1>1, <2>1 DEF Sound, Quiet
    <2>3. CASE server' = [server EXCEPT !.hook_timer_connection = FALSE]
      <3>1. server' \in Server /\ Sound(server')
        BY <1>1, <2>3 DEF Server, Sound
      <3> QED
        BY <1>2, <2>1, <2>2, <3>1, IInvFrom
    <2>4. CASE server' = Disconnect(server, TRUE, TRUE)
      <3>1. server' \in Server /\ Sound(server')
        BY <1>1, <2>4, DisconnectCloses
      <3> QED
        BY <1>2, <2>1, <2>2, <3>1, IInvFrom
    <2> QED
      BY <2>1, <2>3, <2>4
  <1>8. CASE TimerSasl
    <2>1. /\ server.hook_timer_sasl /\ UNCHANGED <<usable, starting, commands, stopped>>
          /\ SaslGivesUp \/ (server' = [server EXCEPT !.hook_timer_sasl = FALSE] /\ wanted' = wanted)
      BY <1>8 DEF TimerSasl
    <2>2. ~starting /\ ~stopped
      BY <1>1, <2>1 DEF Sound, Quiet
    <2>3. CASE SaslGivesUp
      BY <1>1, <1>2, <2>1, <2>2, <2>3, GivesUpSound, IInvFrom
    <2>4. CASE server' = [server EXCEPT !.hook_timer_sasl = FALSE] /\ wanted' = wanted
      <3>1. server' \in Server /\ Sound(server')
        BY <1>1, <2>4 DEF Server, Sound
      <3> QED
        BY <1>2, <2>1, <2>2, <2>4, <3>1, IInvFrom
    <2> QED
      BY <2>1, <2>3, <2>4
  <1> QED
    BY <1>4, <1>5, <1>6, <1>7, <1>8

LEMMA PeerStep ==
    ASSUME IInv, Peer \/ \E status \in Status : ConnectCb(status)
    PROVE  IInv'
  <1>1. server \in Server /\ Sound(server) /\ (starting \/ stopped => Quiet(server))
    BY DEF IInv, TypeOK, Server
  <1>2. /\ {usable, starting, wanted, stopped} \subseteq BOOLEAN
        /\ commands \in 0 .. MaxCommands
    BY DEF IInv, TypeOK
  <1>3. CASE Receive001
    <2>1. /\ server.sock /\ UNCHANGED <<usable, starting, commands, wanted, stopped>>
          /\ server' = [server EXCEPT !.is_connected = TRUE, !.reconnect_delay = 0,
                                      !.hook_timer_connection = FALSE]
      BY <1>3 DEF Receive001
    <2>2. 0 \in 0 .. DelayMax
      BY ConstantsAssumption
    <2>3. server' \in Server /\ Sound(server')
      BY <1>1, <2>1, <2>2 DEF Server, Sound
    <2>4. ~starting /\ ~stopped
      BY <1>1, <2>1 DEF Quiet
    <2> QED
      BY <1>2, <2>1, <2>3, <2>4, IInvFrom
  <1>4. CASE ReceiveNickRefused \/ PeerCloses
    <2>1. /\ server.sock /\ UNCHANGED <<usable, starting, commands, wanted, stopped>>
          /\ \E switch_address \in BOOLEAN : server' = Disconnect(server, switch_address, TRUE)
      BY <1>1, <1>4 DEF ReceiveNickRefused, PeerCloses, LoggingIn, Server
    <2>2. server' \in Server /\ Sound(server')
      BY <1>1, <2>1, DisconnectCloses
    <2>3. ~starting /\ ~stopped
      BY <1>1, <2>1 DEF Quiet
    <2> QED
      BY <1>2, <2>1, <2>2, <2>3, IInvFrom
  <1>5. CASE ReceiveCapAck
    <2>1. /\ server.sock /\ UNCHANGED <<usable, starting, commands, wanted, stopped>>
          /\ server' = [server EXCEPT !.hook_timer_sasl = TRUE, !.sasl = "started"]
      BY <1>5 DEF ReceiveCapAck
    <2>2. server' \in Server /\ Sound(server')
      BY <1>1, <2>1 DEF Server, Sound
    <2>3. ~starting /\ ~stopped
      BY <1>1, <2>1 DEF Quiet
    <2> QED
      BY <1>2, <2>1, <2>2, <2>3, IInvFrom
  <1>6. ASSUME server' = [server EXCEPT !.sasl = "over"],
               UNCHANGED <<usable, starting, commands, wanted, stopped>>
        PROVE  IInv'
    <2>1. server' \in Server /\ Sound(server') /\ (starting \/ stopped => Quiet(server'))
      BY <1>1, <1>6 DEF Server, Sound, Quiet
    <2> QED
      BY <1>2, <1>6, <2>1, IInvFrom
  <1>7. CASE ReceiveSaslOk
    BY <1>6, <1>7 DEF ReceiveSaslOk
  <1>8. CASE ReceiveSaslFail
    <2>1. UNCHANGED <<usable, starting, commands, stopped>>
      BY <1>8 DEF ReceiveSaslFail
    <2>2. CASE SaslFail = "continue"
      BY <1>6, <1>8, <2>2 DEF ReceiveSaslFail
    <2>3. CASE SaslGivesUp
      <3>1. server' \in Server /\ Sound(server') /\ wanted' \in BOOLEAN
        BY <1>1, <1>2, <2>3, GivesUpSound
      <3>2. ~starting /\ ~stopped
        BY <1>1, <1>8 DEF ReceiveSaslFail, Sound, Quiet
      <3> QED
        BY <1>2, <2>1, <3>1, <3>2, IInvFrom
    <2> QED
      BY <1>8, <2>2, <2>3 DEF ReceiveSaslFail
  <1>9. ASSUME NEW status \in Status, ConnectCb(status)
        PROVE  IInv'
    <2> DEFINE s == [server EXCEPT !.hook_connect = "none"]
               closed == CloseConnection(s)
               counted == IF status \in Counted THEN Failed(closed) ELSE closed
    <2>1. /\ server.hook_connect = "pending"
          /\ \/ server' = LoginStarts(s)
             \/ server' \in SwitchAndConnect(counted)
             \/ server' = ReconnectSchedule(counted)
          /\ UNCHANGED <<usable, starting, commands, wanted, stopped>>
      BY <1>9 DEF ConnectCb
    <2>2. /\ ~starting /\ ~stopped /\ server.reconnect_start = Idle
          /\ ~server.sock /\ ~server.is_connected
      BY <1>1, <2>1 DEF Sound, Quiet
    <2>3. s \in Server /\ s.reconnect_start = Idle /\ s.hook_connect = "none" /\ ~s.is_connected
      BY <1>1, <2>2 DEF Server
    <2>4. counted \in Server /\ Closed(counted) /\ counted.reconnect_start = Idle
      <3>1. closed \in Server /\ Closed(closed) /\ closed.reconnect_start = Idle
        BY <2>3, CloseConnectionCloses
      <3> HIDE DEF closed
      <3> QED
        BY <3>1, FailedType DEF SameConnection, Closed
    <2> HIDE DEF counted, s
    <2>5. CASE server' = LoginStarts(s)
      <3>1. server' \in Server /\ Sound(server')
        BY <2>3, <2>5 DEF LoginStarts, Server, Sound
      <3> QED
        BY <1>2, <2>1, <2>2, <3>1, IInvFrom
    <2>6. CASE server' \in SwitchAndConnect(counted)
      BY <1>2, <2>1, <2>2, <2>4, <2>6, SwitchAndConnectSound, IInvFrom
    <2>7. CASE server' = ReconnectSchedule(counted)
      <3>1. server' \in Server /\ Closed(server')
        BY <2>4, <2>7, ReconnectScheduleType DEF SameConnection, Closed
      <3> QED
        BY <1>2, <2>1, <2>2, <3>1, ClosedIsSound, IInvFrom
    <2> QED
      BY <2>1, <2>5, <2>6, <2>7
  <1> QED
    BY <1>3, <1>4, <1>5, <1>7, <1>8, <1>9 DEF Peer

LEMMA InvariantHolds == Spec => []IInv
  <1>1. Init => IInv
    BY InitHolds
  <1>2. IInv /\ [Next]_vars => IInv'
    <2> SUFFICES ASSUME IInv, [Next]_vars
                 PROVE  IInv'
      OBVIOUS
    <2>1. CASE User
      BY <2>1, UserStep
    <2>2. CASE AutoConnect \/ Timer \/ TimerLagTooHigh \/ TimerConnection \/ TimerSasl
      BY <2>2, TimerStep
    <2>3. CASE Peer \/ \E status \in Status : ConnectCb(status)
      BY <2>3, PeerStep
    <2>4. CASE UNCHANGED vars
      BY <2>4 DEF vars, IInv, TypeOK
    <2> QED
      BY <2>1, <2>2, <2>3, <2>4 DEF Next
  <1> QED
    BY <1>1, <1>2, PTL DEF Spec

-----------------------------------------------------------------------------
(* The theorems.                                                           *)

\* Every variable, and every field of the server, keeps its type.
THEOREM TypeCorrect == Spec => []TypeOK
  <1>1. IInv => TypeOK
    BY DEF IInv
  <1> QED
    BY <1>1, InvariantHolds, PTL

\* A server waits for its connect hook, or talks on its socket, or waits to
\* reconnect.
THEOREM AlwaysOneThing == Spec => []OneThingAtATime
  <1>1. IInv => OneThingAtATime
    BY DEF IInv, Sound, OneThingAtATime, Scheduled
  <1> QED
    BY <1>1, InvariantHolds, PTL

\* No timer of the login or of SASL outlives its socket.
THEOREM TimersAlwaysHaveSocket == Spec => []TimersHaveSocket
  <1>1. IInv => TimersHaveSocket
    BY DEF IInv, Sound, TimersHaveSocket
  <1> QED
    BY <1>1, InvariantHolds, PTL

\* Once the user has disconnected it, nothing brings a server back.
THEOREM StoppedStaysDisconnected == Spec => []StaysDisconnected
  <1>1. IInv => StaysDisconnected
    BY DEF IInv, Quiet, StaysDisconnected, Scheduled
  <1> QED
    BY <1>1, InvariantHolds, PTL

\* A server does one thing at a time, with its timers, and a stopped one stays so.
THEOREM AlwaysOneConnection == Spec => []OneConnection
  <1>1. TypeOK /\ OneThingAtATime /\ TimersHaveSocket /\ StaysDisconnected => OneConnection
    BY DEF OneConnection
  <1> QED
    BY <1>1, TypeCorrect, AlwaysOneThing, TimersAlwaysHaveSocket, StoppedStaysDisconnected, PTL

-----------------------------------------------------------------------------
(* What the server never loses: the failures of its addresses, the timer   *)
(* of its login, the address it connects to, and something that will       *)
(* happen to it.                                                           *)

\* The failures counted for each address are those it had.
Tally(s) ==
    ~s.disturbed => \A a \in 0 .. s.addresses_count - 1 : RetryOf(s, a) = s.failures[a]

\* The login has its timer, and a connect hook its address.
Watched(s) == s.sock /\ ~s.is_connected /\ ~s.disturbed => s.hook_timer_connection
Ready(s) == s.hook_connect = "pending" => s.current_address

\* A connect hook will report, if the server was not disturbed.
Underway(s) == s.hook_connect = "pending" \/ s.disturbed

\* Something will happen to the server.
Active(s) ==
    s.disturbed \/ s.hook_connect = "pending" \/ s.sock \/ s.reconnect_start # Idle

\* The inductive invariant of NeverStuck and RetryPerAddress, beside IInv.
MoreInv ==
    /\ Tally(server) /\ Watched(server) /\ Ready(server)
    /\ usable \/ server.disturbed
    /\ AutoReconnect /\ wanted => Active(server)

\* t counts its failures as s does, and its addresses are those of s.
Counts(s, t) ==
    /\ Tally(s) => Tally(t)
    /\ s.disturbed => t.disturbed
    /\ t.addresses_count = s.addresses_count

\* Moreover, t does not wait less than s.
Carries(s, t) == Counts(s, t) /\ (AutoReconnect => t.reconnect_delay >= s.reconnect_delay)

\* Nothing of the addresses of s has changed in t.
SameAddresses(s, t) ==
    /\ t.addresses_count = s.addresses_count /\ t.current_address = s.current_address
    /\ t.index_current_address = s.index_current_address
    /\ t.retry_array = s.retry_array /\ t.current_retry = s.current_retry
    /\ t.failures = s.failures /\ t.disturbed = s.disturbed

\* The counts depend on the addresses alone.
LEMMA SameAddressesCount ==
    ASSUME NEW s \in Server, NEW t \in Server, SameAddresses(s, t)
    PROVE  Counts(s, t)
  BY DEF SameAddresses, Counts, Tally, RetryOf

\* The relations compose.
LEMMA CountsCompose ==
    ASSUME NEW s \in Server, NEW t \in Server, NEW u \in Server, Counts(s, t), Counts(t, u)
    PROVE  Counts(s, u)
  BY DEF Counts

LEMMA CarriesCompose ==
    ASSUME NEW s \in Server, NEW t \in Server, NEW u \in Server, Carries(s, t), Carries(t, u)
    PROVE  Carries(s, u)
  <1>1. s.reconnect_delay \in Nat /\ t.reconnect_delay \in Nat /\ u.reconnect_delay \in Nat
    BY ConstantsAssumption DEF Server
  <1> QED
    BY <1>1, CountsCompose DEF Carries

\* irc_server_close_connection leaves the addresses and the delay alone.
LEMMA CloseConnectionCarries ==
    ASSUME NEW s \in Server
    PROVE  SameAddresses(s, CloseConnection(s)) /\ Carries(s, CloseConnection(s))
  <1>1. /\ CloseConnection(s) \in Server /\ SameAddresses(s, CloseConnection(s))
        /\ CloseConnection(s).reconnect_delay = s.reconnect_delay
    BY CloseConnectionCloses DEF CloseConnection, Server, SameAddresses
  <1>2. s.reconnect_delay >= s.reconnect_delay
    BY DEF Server
  <1> QED
    BY <1>1, <1>2, SameAddressesCount DEF Carries

\* The delay grows up to its maximum.
LEMMA GrownGrows ==
    ASSUME NEW d \in 0 .. DelayMax PROVE Grown(d) >= d
  <1>1. DelayOption \in 1 .. DelayMax /\ DelayMax \in Nat /\ DelayGrowing \in Nat /\ DelayGrowing >= 1
    BY ConstantsAssumption
  <1>2. d * DelayGrowing >= d
    <2>1. DelayGrowing = 1 + (DelayGrowing - 1) /\ DelayGrowing - 1 \in Nat
      BY <1>1
    <2>2. \A n \in Nat : d * n \in Nat /\ d * (1 + n) = d + d * n
      BY <1>1
    <2> QED
      BY <2>1, <2>2
  <1> QED
    BY <1>1, <1>2 DEF Grown

\* A reconnection is scheduled, after a delay that is not shorter.
LEMMA ReconnectScheduleCarries ==
    ASSUME NEW s \in Server
    PROVE  LET t == ReconnectSchedule(s)
           IN  /\ SameAddresses(s, t) /\ Carries(s, t)
               /\ AutoReconnect => t.reconnect_start = 0 /\ t.reconnect_start # Idle
  <1>1. 0 # Idle
    BY ConstantsAssumption DEF Idle
  <1>2. SameAddresses(s, ReconnectSchedule(s))
    BY DEF ReconnectSchedule, Unschedule, Server, SameAddresses
  <1>3. AutoReconnect => /\ ReconnectSchedule(s).reconnect_start = 0
                         /\ ReconnectSchedule(s).reconnect_delay = Grown(s.reconnect_delay)
    BY DEF ReconnectSchedule, Server
  <1>4. Grown(s.reconnect_delay) >= s.reconnect_delay
    BY GrownGrows DEF Server
  <1>5. Counts(s, ReconnectSchedule(s))
    BY <1>2, ReconnectScheduleType, SameAddressesCount
  <1> QED
    BY <1>1, <1>2, <1>3, <1>4, <1>5 DEF Carries

\* The retry count of the address that is left is saved, and that of the new one
\* is loaded.
LEMMA SetIndexCarries ==
    ASSUME NEW s \in Server, NEW index \in Nat
    PROVE  LET t == SetIndexCurrentAddress(s, index)
           IN  Carries(s, t) /\ (t.current_address <=> s.addresses_count # 0)
  <1> DEFINE saved == IF s.current_address /\ s.index_current_address < s.addresses_count
                      THEN [s.retry_array EXCEPT ![s.index_current_address] = s.current_retry]
                      ELSE s.retry_array
             i == index % s.addresses_count
             t == SetIndexCurrentAddress(s, index)
  <1>1. s.reconnect_delay >= s.reconnect_delay
    BY DEF Server
  <1>2. CASE s.addresses_count = 0
    <2>1. t = [s EXCEPT !.current_address = FALSE, !.current_retry = 0]
      BY <1>2 DEF SetIndexCurrentAddress
    <2>2. /\ t.addresses_count = 0 /\ ~t.current_address /\ t.disturbed = s.disturbed
          /\ t.reconnect_delay = s.reconnect_delay
      BY <1>2, <2>1 DEF Server
    <2>3. Tally(t)
      BY <2>2 DEF Tally
    <2> QED
      BY <1>1, <1>2, <2>2, <2>3 DEF Carries, Counts
  <1>3. CASE s.addresses_count # 0
    <2>1. t = [s EXCEPT !.retry_array = saved, !.index_current_address = i,
                        !.current_address = TRUE, !.current_retry = saved[i]]
      BY <1>3 DEF SetIndexCurrentAddress
    <2>2. \A a \in 0 .. s.addresses_count - 1 : saved[a] = RetryOf(s, a)
      <3>1. s.addresses_count \in 0 .. MaxAddresses /\ MaxAddresses \in Nat /\ s.retry_array \in [Address -> 0 .. Ips - 1]
        BY ConstantsAssumption DEF Server
      <3>2. s.index_current_address \in Address
        BY DEF Server
      <3> QED
        BY <3>1, <3>2 DEF RetryOf, Address
    <2> HIDE DEF saved, i
    <2>3. /\ t.addresses_count = s.addresses_count /\ t.current_address /\ t.disturbed = s.disturbed
          /\ t.reconnect_delay = s.reconnect_delay /\ t.failures = s.failures
          /\ t.retry_array = saved /\ t.current_retry = saved[t.index_current_address]
      BY <2>1 DEF Server
    <2> HIDE DEF t
    <2>4. \A a : RetryOf(t, a) = saved[a]
      BY <2>3 DEF RetryOf
    <2>5. Tally(s) => Tally(t)
      BY <2>2, <2>3, <2>4 DEF Tally
    <2> QED
      BY <1>1, <1>3, <2>3, <2>5 DEF Carries, Counts, t
  <1> QED
    BY <1>2, <1>3

\* One failure more, for the address and in its count.
LEMMA FailedCarries ==
    ASSUME NEW s \in Server, s.current_address
    PROVE  Carries(s, Failed(s)) /\ Failed(s).current_address
  <1> DEFINE t == Failed(s)
             n == (s.failures[s.index_current_address] + 1) % Ips
             f == FailuresBecome(s, n)
  <1>1. t = [s EXCEPT !.current_retry = (s.current_retry + 1) % Ips, !.failures = f]
    BY DEF Failed, Server
  <1>2. s.addresses_count \in 0 .. MaxAddresses /\ MaxAddresses \in Nat /\ s.index_current_address \in Address
    BY ConstantsAssumption DEF Server
  <1>3. s.failures \in [Address -> 0 .. Ips - 1]
    BY DEF Server
  <1>4. \A a \in 0 .. s.addresses_count - 1 :
           f[a] = IF a = s.index_current_address THEN n ELSE s.failures[a]
    BY <1>2, <1>3 DEF FailuresBecome, Address
  <1> HIDE DEF f
  <1>5. /\ t.addresses_count = s.addresses_count /\ t.current_address /\ t.disturbed = s.disturbed
        /\ t.reconnect_delay = s.reconnect_delay /\ t.failures = f
        /\ t.index_current_address = s.index_current_address
        /\ t.retry_array = s.retry_array /\ t.current_retry = (s.current_retry + 1) % Ips
    BY <1>1 DEF Server
  <1> HIDE DEF t
  <1>6. ASSUME Tally(s), ~t.disturbed, NEW a \in 0 .. t.addresses_count - 1
        PROVE  RetryOf(t, a) = t.failures[a]
    <2>1. RetryOf(s, a) = s.failures[a] /\ a \in 0 .. s.addresses_count - 1
      BY <1>5, <1>6 DEF Tally
    <2>2. CASE a = s.index_current_address
      BY <1>4, <1>5, <2>1, <2>2 DEF RetryOf
    <2>3. CASE a # s.index_current_address
      BY <1>4, <1>5, <2>1, <2>3 DEF RetryOf
    <2> QED
      BY <2>2, <2>3
  <1>7. Tally(s) => Tally(t)
    BY <1>6 DEF Tally
  <1>8. s.reconnect_delay >= s.reconnect_delay
    BY DEF Server
  <1> QED
    BY <1>5, <1>7, <1>8 DEF Carries, Counts, t

\* hook_connect leaves a hook that will report, or disturbs the server.
LEMMA HookConnectCarries ==
    ASSUME NEW s \in Server, NEW t \in HookConnect(s), s.current_address
    PROVE  t \in Server /\ Carries(s, t) /\ Underway(t) /\ Ready(t)
  <1>1. CASE t = [s EXCEPT !.hook_connect = "pending"]
    <2>1. /\ t \in Server /\ SameAddresses(s, t) /\ t.reconnect_delay = s.reconnect_delay
          /\ t.hook_connect = "pending" /\ t.current_address
      BY <1>1 DEF Server, SameAddresses
    <2>2. t.reconnect_delay >= s.reconnect_delay
      BY <2>1, ConstantsAssumption DEF Server
    <2> QED
      BY <2>1, <2>2, SameAddressesCount DEF Carries, Underway, Ready
  <1>2. ASSUME NEW u \in {s, Failed(s)},
               t = [ReconnectSchedule(u) EXCEPT !.hook_connect = "freed", !.disturbed = TRUE]
        PROVE  t \in Server /\ Carries(s, t) /\ Underway(t) /\ Ready(t)
    <2> DEFINE v == ReconnectSchedule(u)
    <2>1. u \in Server /\ Carries(s, u)
      <3>1. s.reconnect_delay >= s.reconnect_delay
        BY ConstantsAssumption DEF Server
      <3>2. Carries(s, s)
        BY <3>1 DEF Carries, Counts
      <3> QED
        BY <3>2, FailedType, FailedCarries
    <2>2. v \in Server /\ Carries(u, v)
      BY <2>1, ReconnectScheduleType, ReconnectScheduleCarries
    <2>3. Carries(s, v)
      BY <2>1, <2>2, CarriesCompose
    <2> HIDE DEF v
    <2>4. /\ t \in Server /\ t.addresses_count = v.addresses_count /\ t.disturbed
          /\ t.reconnect_delay = v.reconnect_delay /\ t.hook_connect = "freed"
      BY <1>2, <2>2 DEF Server, v
    <2> QED
      BY <2>3, <2>4 DEF Carries, Counts, Tally, Underway, Ready
  <1> QED
    BY <1>1, <1>2 DEF HookConnect

\* A connection that is tried waits for its hook; one that is not tried had no
\* address or no proxy.
LEMMA ConnectCarries ==
    ASSUME NEW s \in Server, NEW r \in Connect(s)
    PROVE  /\ Carries(s, r.server)
           /\ r.ok => Underway(r.server) /\ Ready(r.server)
           /\ ~r.ok => ~usable \/ s.addresses_count = 0
  <1> DEFINE u == [s EXCEPT !.disconnected = FALSE, !.buffer = TRUE]
             at == SetIndexCurrentAddress(u, s.index_current_address)
             c == CloseConnection(at)
  <1>1. u \in Server /\ SameAddresses(s, u) /\ u.reconnect_delay = s.reconnect_delay
    BY DEF Server, SameAddresses
  <1>2. s.index_current_address \in Nat /\ s.reconnect_delay >= s.reconnect_delay
    BY ConstantsAssumption DEF Server, Address
  <1>3. Carries(s, u)
    BY <1>1, <1>2, SameAddressesCount DEF Carries
  <1>4. at \in Server /\ Carries(u, at) /\ (at.current_address <=> u.addresses_count # 0)
    BY <1>1, <1>2, SetIndexType, SetIndexCarries
  <1>5. c \in Server /\ Carries(at, c) /\ c.current_address = at.current_address
    BY <1>4, CloseConnectionCloses, CloseConnectionCarries DEF SameAddresses
  <1>6. Carries(s, at) /\ Carries(s, c)
    BY <1>1, <1>3, <1>4, <1>5, CarriesCompose
  <1>7. \/ /\ usable /\ at.current_address
           /\ \E t \in HookConnect(c) : r = [ok |-> TRUE, server |-> t]
        \/ ~(usable /\ at.current_address) /\ r = [ok |-> FALSE, server |-> at]
    BY DEF Connect
  <1> HIDE DEF c, at, u
  <1>8. ASSUME NEW t \in HookConnect(c), r = [ok |-> TRUE, server |-> t], at.current_address
        PROVE  Carries(s, r.server) /\ r.ok /\ Underway(r.server) /\ Ready(r.server)
    <2>1. t \in Server /\ Carries(c, t) /\ Underway(t) /\ Ready(t)
      BY <1>5, <1>8, HookConnectCarries
    <2>2. Carries(s, t)
      BY <1>5, <1>6, <2>1, CarriesCompose
    <2>3. r.ok /\ r.server = t
      BY <1>8
    <2> QED
      BY <2>1, <2>2, <2>3
  <1>9. CASE ~(usable /\ at.current_address) /\ r = [ok |-> FALSE, server |-> at]
    <2>1. ~r.ok /\ r.server = at
      BY <1>9
    <2>2. ~usable \/ s.addresses_count = 0
      BY <1>1, <1>4, <1>9 DEF SameAddresses
    <2> QED
      BY <1>6, <2>1, <2>2
  <1> QED
    BY <1>7, <1>8, <1>9

LEMMA SwitchAddressCarries ==
    ASSUME NEW s \in Server PROVE Carries(s, SwitchAddress(s))
  <1>1. s.index_current_address + 1 \in Nat /\ s.reconnect_delay >= s.reconnect_delay
    BY ConstantsAssumption DEF Server, Address
  <1>2. CASE s.addresses_count > 1
    BY <1>1, <1>2, SetIndexCarries DEF SwitchAddress
  <1>3. CASE ~(s.addresses_count > 1)
    BY <1>1, <1>3 DEF SwitchAddress, Carries, Counts
  <1> QED
    BY <1>2, <1>3

\* A connection that is tried, or put off when it cannot be.
LEMMA ConnectOrScheduleCarries ==
    ASSUME NEW s \in Server, NEW r \in Connect(s)
    PROVE  LET t == IF r.ok THEN r.server ELSE ReconnectSchedule(r.server)
           IN  Carries(s, t) /\ (AutoReconnect => Active(t)) /\ (s.hook_connect # "pending" => Ready(t))
  <1>1. r.server \in Server /\ Carries(s, r.server) /\ r.ok \in BOOLEAN
    BY ConnectType, ConnectCarries
  <1>2. CASE r.ok
    BY <1>1, <1>2, ConnectCarries DEF Underway, Active
  <1>3. CASE ~r.ok
    <2> DEFINE t == ReconnectSchedule(r.server)
    <2>1. /\ t \in Server /\ Carries(r.server, t) /\ t.hook_connect = r.server.hook_connect
          /\ AutoReconnect => t.reconnect_start # Idle
      BY <1>1, ReconnectScheduleType, ReconnectScheduleCarries DEF SameConnection
    <2>2. r.server.hook_connect = s.hook_connect
      BY <1>3, ConnectType DEF SameConnection
    <2> HIDE DEF t
    <2>3. Carries(s, t) /\ (AutoReconnect => Active(t)) /\ (s.hook_connect # "pending" => Ready(t))
      BY <1>1, <2>1, <2>2, CarriesCompose DEF Active, Ready
    <2> QED
      BY <1>3, <2>3 DEF t
  <1> QED
    BY <1>1, <1>2, <1>3

\* The connection is closed, whatever comes next.
LEMMA SwitchAndConnectCloses ==
    ASSUME NEW s \in Server, Closed(s), NEW t \in SwitchAndConnect(s)
    PROVE  ~t.sock
  <1> DEFINE next == SwitchAddress(s)
  <1>1. next \in Server /\ ~next.sock
    BY SwitchAddressType DEF SameConnection, Closed
  <1>2. \/ \E r \in Connect(next) : t = r.server
        \/ t = ReconnectSchedule(next)
    BY DEF SwitchAndConnect
  <1> HIDE DEF next
  <1> QED
    BY <1>1, <1>2, ConnectType, ReconnectScheduleType DEF SameConnection

\* The next address, at once when it is not the first one and the proxy exists.
LEMMA SwitchAndConnectCarries ==
    ASSUME NEW s \in Server, NEW t \in SwitchAndConnect(s), s.hook_connect # "pending",
           usable \/ s.disturbed
    PROVE  Carries(s, t) /\ (AutoReconnect => Active(t)) /\ Ready(t)
  <1> DEFINE next == SwitchAddress(s)
  <1>1. /\ next \in Server /\ Carries(s, next) /\ next.hook_connect # "pending"
    BY SwitchAddressType, SwitchAddressCarries DEF SameConnection
  <1>2. \/ s.addresses_count > 1 /\ \E r \in Connect(next) : t = r.server
        \/ t = ReconnectSchedule(next)
    BY DEF SwitchAndConnect
  <1> HIDE DEF next
  <1>3. ASSUME NEW r \in Connect(next), t = r.server, s.addresses_count > 1
        PROVE  Carries(s, t) /\ (AutoReconnect => Active(t)) /\ Ready(t)
    <2>1. r.server \in Server /\ Carries(next, r.server) /\ r.ok \in BOOLEAN
      BY <1>1, ConnectType, ConnectCarries
    <2>2. Carries(s, t)
      BY <1>1, <1>3, <2>1, CarriesCompose
    <2>3. CASE r.ok
      BY <1>1, <1>3, <2>2, <2>3, ConnectCarries DEF Underway, Active
    <2>4. CASE ~r.ok
      <3>1. ~usable \/ next.addresses_count = 0
        BY <1>1, <2>4, ConnectCarries
      <3>2. next.addresses_count # 0
        BY <1>1, <1>3, ConstantsAssumption DEF Carries, Counts, Server
      <3>3. t.disturbed
        BY <2>2, <3>1, <3>2 DEF Carries, Counts
      <3>4. t.hook_connect # "pending"
        BY <1>1, <1>3, <2>4, ConnectType DEF SameConnection
      <3> QED
        BY <2>2, <3>3, <3>4 DEF Active, Ready
    <2> QED
      BY <2>1, <2>3, <2>4
  <1>4. CASE t = ReconnectSchedule(next)
    <2>1. /\ t \in Server /\ Carries(next, t) /\ t.hook_connect # "pending"
          /\ AutoReconnect => t.reconnect_start # Idle
      BY <1>1, <1>4, ReconnectScheduleType, ReconnectScheduleCarries DEF SameConnection
    <2> QED
      BY <1>1, <2>1, CarriesCompose DEF Active, Ready
  <1> QED
    BY <1>2, <1>3, <1>4

\* irc_server_disconnect clears the failures of the address in use, with its
\* retry count, and a reconnection does not come sooner.
LEMMA DisconnectCarries ==
    ASSUME NEW s \in Server, NEW switch_address \in BOOLEAN, NEW reconnect \in BOOLEAN
    PROVE  LET t == Disconnect(s, switch_address, reconnect)
           IN  /\ Counts(s, t) /\ Ready(t)
               /\ reconnect => Carries(s, t) /\ (AutoReconnect => Active(t))
  <1> DEFINE closed == CloseConnection(s)
             f == IF s.current_address THEN FailuresBecome(s, 0) ELSE s.failures
             zero == [closed EXCEPT !.current_retry = 0,
                                    !.failures = IF s.current_address THEN FailuresBecome(s, 0) ELSE @]
             moved == IF switch_address THEN SwitchAddress(zero) ELSE SetIndexCurrentAddress(zero, 0)
             timed == IF reconnect THEN ReconnectSchedule(moved) ELSE Unschedule(moved)
             t == [timed EXCEPT !.disconnected = TRUE]
  <1>1. /\ closed \in Server /\ Closed(closed) /\ Carries(s, closed) /\ SameAddresses(s, closed)
        /\ closed.reconnect_delay = s.reconnect_delay
    <2>1. CloseConnection(s).reconnect_delay = s.reconnect_delay
      BY DEF CloseConnection, Server
    <2> QED
      BY <2>1, CloseConnectionCloses, CloseConnectionCarries
  <1>2. f \in [Address -> 0 .. Ips - 1] /\ 0 \in 0 .. Ips - 1
    BY ConstantsAssumption DEF Server, FailuresBecome
  <1>3. zero = [closed EXCEPT !.current_retry = 0, !.failures = f]
    BY <1>1 DEF Server, SameAddresses
  <1>4. \A a \in 0 .. s.addresses_count - 1 :
           f[a] = IF s.current_address /\ a = s.index_current_address THEN 0 ELSE s.failures[a]
    <2>1. s.addresses_count \in 0 .. MaxAddresses /\ MaxAddresses \in Nat /\ s.index_current_address \in Address
      BY ConstantsAssumption DEF Server
    <2>2. s.failures \in [Address -> 0 .. Ips - 1]
      BY DEF Server
    <2> QED
      BY <2>1, <2>2 DEF FailuresBecome, Address
  <1> HIDE DEF zero, closed, f
  <1>5. /\ zero \in Server /\ zero.reconnect_delay = s.reconnect_delay
        /\ zero.addresses_count = s.addresses_count /\ zero.disturbed = s.disturbed
        /\ zero.failures = f /\ zero.current_retry = 0 /\ zero.retry_array = s.retry_array
        /\ zero.current_address = s.current_address
        /\ zero.index_current_address = s.index_current_address
        /\ Closed(zero)
    BY <1>1, <1>2, <1>3 DEF Server, SameAddresses, Closed
  <1>6. Tally(s) => Tally(zero)
    <2>1. ASSUME Tally(s), ~zero.disturbed, NEW a \in 0 .. zero.addresses_count - 1
          PROVE  RetryOf(zero, a) = zero.failures[a]
      <3>1. RetryOf(s, a) = s.failures[a] /\ a \in 0 .. s.addresses_count - 1
        BY <1>5, <2>1 DEF Tally
      <3>2. CASE s.current_address /\ s.index_current_address = a
        BY <1>4, <1>5, <3>1, <3>2 DEF RetryOf
      <3>3. CASE ~(s.current_address /\ s.index_current_address = a)
        BY <1>4, <1>5, <3>1, <3>3 DEF RetryOf
      <3> QED
        BY <3>2, <3>3
    <2> QED
      BY <2>1 DEF Tally
  <1>7. Carries(s, zero)
    BY <1>5, <1>6, ConstantsAssumption DEF Carries, Counts, Server
  <1>8. moved \in Server /\ Carries(zero, moved) /\ Closed(moved)
    BY <1>5, SwitchAddressType, SetIndexType, SwitchAddressCarries, SetIndexCarries
       DEF SameConnection, Closed
  <1>9. Carries(s, moved)
    BY <1>5, <1>7, <1>8, CarriesCompose
  <1> HIDE DEF moved
  <1>10. CASE reconnect
    <2>1. /\ timed \in Server /\ Carries(moved, timed) /\ Closed(timed)
          /\ AutoReconnect => timed.reconnect_start # Idle
      BY <1>8, <1>10, ReconnectScheduleType, ReconnectScheduleCarries DEF SameConnection, Closed
    <2> HIDE DEF timed
    <2>2. Carries(s, timed)
      BY <1>8, <1>9, <2>1, CarriesCompose
    <2>3. /\ t \in Server /\ SameAddresses(timed, t) /\ t.reconnect_delay = timed.reconnect_delay
          /\ t.reconnect_start = timed.reconnect_start /\ t.hook_connect = timed.hook_connect
      BY <2>1 DEF Server, SameAddresses
    <2> HIDE DEF t
    <2>4. Counts(timed, t)
      BY <2>1, <2>3, SameAddressesCount
    <2>5. Carries(timed, t)
      BY <2>1, <2>3, <2>4, ConstantsAssumption DEF Carries, Server
    <2>6. Carries(s, t) /\ Ready(t) /\ (AutoReconnect => Active(t))
      BY <2>1, <2>2, <2>3, <2>5, CarriesCompose DEF Ready, Active, Closed
    <2> QED
      BY <2>6 DEF Disconnect, closed, zero, moved, timed, t, Carries
  <1>11. CASE ~reconnect
    <2>1. timed \in Server /\ SameAddresses(moved, timed) /\ Closed(timed)
      <3>1. timed = Unschedule(moved)
        BY <1>11
      <3> HIDE DEF timed
      <3>2. timed \in Server /\ Closed(timed)
        BY <1>8, <3>1, UnscheduleType DEF SameConnection, Closed
      <3>3. SameAddresses(moved, timed)
        BY <1>8, <3>1 DEF Unschedule, Server, SameAddresses
      <3> QED
        BY <3>2, <3>3
    <2> HIDE DEF timed
    <2>2. t \in Server /\ SameAddresses(timed, t) /\ t.hook_connect = timed.hook_connect
      BY <2>1 DEF Server, SameAddresses
    <2> HIDE DEF t
    <2>3. Counts(moved, timed) /\ Counts(timed, t)
      BY <1>8, <2>1, <2>2, SameAddressesCount
    <2>4. Counts(s, t) /\ Ready(t)
      BY <1>8, <1>9, <2>1, <2>2, <2>3, CountsCompose DEF Carries, Ready, Closed
    <2> QED
      BY <1>11, <2>4 DEF Disconnect, closed, zero, moved, timed, t
  <1> QED
    BY <1>10, <1>11

-----------------------------------------------------------------------------
(* The steps.                                                              *)

\* What DelayGrows says of a step.
DelayStep ==
    AutoReconnect /\ server'.reconnect_delay < server.reconnect_delay =>
        server'.is_connected \/ commands' # commands \/ ~wanted'

LEMMA MoreInit ==
    ASSUME Init PROVE MoreInv
  <1>1. /\ server.hook_connect = "none" /\ ~server.sock /\ ~server.current_address
        /\ server.retry_array = [a \in Address |-> 0] /\ server.failures = [a \in Address |-> 0]
        /\ usable /\ ~wanted
    BY DEF Init, New
  <1> QED
    BY <1>1 DEF MoreInv, Tally, Watched, Ready, RetryOf

\* What is left of the invariant when the counts are carried.
LEMMA MoreFrom ==
    ASSUME MoreInv, Counts(server, server'), Watched(server'), Ready(server'), usable' = usable,
           AutoReconnect /\ wanted' => Active(server')
    PROVE  MoreInv'
  BY DEF MoreInv, Counts

\* The same for a server that reports nothing and does not wait less.
LEMMA MoreFromCarries ==
    ASSUME MoreInv, server \in Server, server' \in Server, Carries(server, server'), ~server'.sock,
           Ready(server'), usable' = usable, AutoReconnect /\ wanted' => Active(server')
    PROVE  MoreInv' /\ DelayStep
  <1>1. ~(AutoReconnect /\ server'.reconnect_delay < server.reconnect_delay)
    BY ConstantsAssumption DEF Carries, Server
  <1> QED
    BY <1>1, MoreFrom DEF Carries, Watched, DelayStep

\* An order of the user may shorten the delay.
LEMMA CommandDelay ==
    ASSUME commands \in 0 .. MaxCommands, Command PROVE DelayStep
  <1>1. commands' # commands
    BY ConstantsAssumption DEF Command
  <1> QED
    BY <1>1 DEF DelayStep

\* The end of /connect and /reconnect: the server waits for its hook, or for the
\* reconnection it waited for.
LEMMA ConnectedMore ==
    ASSUME NEW s \in Server, MoreInv, server \in Server, Counts(server, s), Connected(s),
           usable' = usable, Watched(s), s.hook_connect # "pending"
    PROVE  MoreInv'
  <1>1. PICK r \in Connect(s) :
           /\ server' = IF r.ok THEN Unschedule(r.server) ELSE r.server
           /\ wanted' = (r.ok \/ (wanted /\ r.server.reconnect_start # Idle))
    BY DEF Connected
  <1>2. r.server \in Server /\ r.ok \in BOOLEAN /\ Counts(s, r.server)
    BY ConnectType, ConnectCarries DEF Carries
  <1>3. Counts(server, r.server)
    BY <1>2, CountsCompose
  <1>4. CASE r.ok
    <2> DEFINE t == Unschedule(r.server)
    <2>1. server' = t
      BY <1>1, <1>4
    <2>2. t \in Server /\ SameConnection(r.server, t) /\ SameAddresses(r.server, t)
      BY <1>2, UnscheduleType DEF Unschedule, Server, SameAddresses
    <2>3. ~r.server.sock /\ Underway(r.server) /\ Ready(r.server)
      BY <1>4, ConnectType, ConnectCarries
    <2> HIDE DEF t
    <2>4. Counts(server, t)
      BY <1>2, <1>3, <2>2, SameAddressesCount, CountsCompose
    <2>5. Watched(t) /\ Ready(t) /\ Active(t)
      BY <2>2, <2>3 DEF SameConnection, SameAddresses, Watched, Ready, Active, Underway
    <2> QED
      BY <2>1, <2>4, <2>5, MoreFrom
  <1>5. CASE ~r.ok
    <2>1. server' = r.server
      BY <1>1, <1>5
    <2>2. SameConnection(s, r.server)
      BY <1>5, ConnectType
    <2>3. Watched(r.server) /\ (AutoReconnect /\ wanted' => Active(r.server))
      BY <1>1, <1>2, <1>5, <2>2 DEF SameConnection, Watched, Active, Counts
    <2>4. Ready(r.server)
      BY <2>2 DEF SameConnection, Ready
    <2> QED
      BY <1>3, <2>1, <2>3, <2>4, MoreFrom
  <1> QED
    BY <1>2, <1>4, <1>5

LEMMA UserMore ==
    ASSUME IInv, MoreInv, User PROVE MoreInv' /\ DelayStep
  <1>1. server \in Server /\ Sound(server) /\ wanted \in BOOLEAN /\ commands \in 0 .. MaxCommands
    BY DEF IInv, TypeOK, Server
  <1>2. Watched(server) /\ Ready(server) /\ Tally(server)
    BY DEF MoreInv
  <1>3. Counts(server, server)
    BY DEF Counts
  <1>4. DelayStep
    <2>1. Command
      BY DEF User, CommandConnect, CommandReconnect, CommandDisconnect, BufferClose, SetProxy,
             SetAddresses, Upgrade
    <2> QED
      BY <1>1, <2>1, CommandDelay
  <1> SUFFICES MoreInv'
    BY <1>4
  <1>5. ASSUME NEW switch_address \in BOOLEAN, CommandConnect(switch_address)
        PROVE  MoreInv'
    <2> DEFINE s == IF switch_address THEN SwitchAddress(server) ELSE server
    <2>1. /\ ~server.is_connected /\ server.hook_connect = "none" /\ Connected(s)
          /\ usable' = usable
      BY <1>5 DEF CommandConnect
    <2>2. s \in Server /\ SameConnection(server, s) /\ Counts(server, s)
      <3>1. /\ SwitchAddress(server) \in Server /\ SameConnection(server, SwitchAddress(server))
            /\ Counts(server, SwitchAddress(server)) /\ SameConnection(server, server)
        BY <1>1, SwitchAddressType, SwitchAddressCarries DEF Carries, SameConnection
      <3> QED
        BY <1>1, <1>3, <3>1
    <2> HIDE DEF s
    <2>3. Watched(s) /\ s.hook_connect # "pending"
      BY <1>2, <2>1, <2>2 DEF SameConnection, Counts, Watched
    <2> QED
      BY <1>1, <2>1, <2>2, <2>3, ConnectedMore
  <1>6. ASSUME NEW switch_address \in BOOLEAN, CommandReconnect(switch_address)
        PROVE  MoreInv'
    <2> DEFINE online == server.is_connected \/ server.hook_connect # "none" \/ server.sock
    <2>1. usable' = usable
      BY <1>6 DEF CommandReconnect
    <2>2. CASE online
      <3> DEFINE s == Disconnect(server, switch_address, FALSE)
      <3>1. Connected(s)
        BY <1>6, <2>2 DEF CommandReconnect
      <3>2. /\ s \in Server /\ Closed(s) /\ Counts(server, s)
        BY <1>1, DisconnectCloses, DisconnectCarries
      <3> HIDE DEF s
      <3>3. Watched(s) /\ s.hook_connect # "pending"
        BY <3>2 DEF Closed, Watched
      <3> QED
        BY <1>1, <2>1, <3>1, <3>2, <3>3, ConnectedMore
    <2>3. CASE ~online
      <3> DEFINE s == IF switch_address THEN SwitchAddress(server) ELSE server
      <3>1. Connected(s)
        BY <1>6, <2>3 DEF CommandReconnect
      <3>2. s \in Server /\ SameConnection(server, s) /\ Counts(server, s)
        <4>1. /\ SwitchAddress(server) \in Server /\ SameConnection(server, SwitchAddress(server))
              /\ Counts(server, SwitchAddress(server)) /\ SameConnection(server, server)
          BY <1>1, SwitchAddressType, SwitchAddressCarries DEF Carries, SameConnection
        <4> QED
          BY <1>1, <1>3, <4>1
      <3> HIDE DEF s
      <3>3. Watched(s) /\ s.hook_connect # "pending"
        BY <2>3, <3>2 DEF SameConnection, Watched
      <3> QED
        BY <1>1, <2>1, <3>1, <3>2, <3>3, ConnectedMore
    <2> QED
      BY <2>2, <2>3
  <1>7. CASE CommandDisconnect
    <2>1. server' = Disconnect(server, FALSE, FALSE) /\ ~wanted' /\ usable' = usable
      BY <1>7 DEF CommandDisconnect, Stops
    <2>2. server' \in Server /\ Closed(server') /\ Counts(server, server') /\ Ready(server')
      BY <1>1, <2>1, DisconnectCloses, DisconnectCarries
    <2> QED
      BY <2>1, <2>2, MoreFrom DEF Closed, Watched
  <1>8. CASE BufferClose
    <2>1. usable' = usable
      BY <1>8 DEF BufferClose
    <2>2. CASE server.disconnected
      <3>1. server' = [server EXCEPT !.buffer = FALSE] /\ wanted' = wanted
        BY <1>8, <2>2 DEF BufferClose
      <3>2. /\ server' \in Server /\ SameAddresses(server, server') /\ SameConnection(server, server')
            /\ server'.reconnect_start = server.reconnect_start
        BY <1>1, <3>1 DEF Server, SameAddresses, SameConnection
      <3>3. Counts(server, server')
        BY <1>1, <3>2, SameAddressesCount
      <3>4. Watched(server') /\ Ready(server') /\ (AutoReconnect /\ wanted' => Active(server'))
        BY <1>2, <3>1, <3>2 DEF MoreInv, SameAddresses, SameConnection, Watched, Ready, Active
      <3> QED
        BY <2>1, <3>3, <3>4, MoreFrom
    <2>3. CASE ~server.disconnected
      <3> DEFINE s == Disconnect(server, FALSE, FALSE)
      <3>1. server' = [s EXCEPT !.buffer = FALSE] /\ ~wanted'
        BY <1>8, <2>3 DEF BufferClose, Stops
      <3>2. s \in Server /\ Closed(s) /\ Counts(server, s) /\ Ready(s)
        BY <1>1, DisconnectCloses, DisconnectCarries
      <3> HIDE DEF s
      <3>3. server' \in Server /\ SameAddresses(s, server') /\ SameConnection(s, server')
        BY <3>1, <3>2 DEF Server, SameAddresses, SameConnection
      <3>4. Counts(server, server')
        BY <1>1, <3>2, <3>3, SameAddressesCount, CountsCompose
      <3>5. Watched(server') /\ Ready(server')
        BY <3>2, <3>3 DEF Closed, SameAddresses, SameConnection, Watched, Ready
      <3> QED
        BY <2>1, <3>1, <3>4, <3>5, MoreFrom
    <2> QED
      BY <2>2, <2>3
  <1>9. ASSUME server'.disturbed, Ready(server') PROVE MoreInv'
    BY <1>9 DEF MoreInv, Tally, Watched, Active
  <1>10. CASE SetProxy
    <2>1. server' = [server EXCEPT !.disturbed = TRUE]
      BY <1>10 DEF SetProxy
    <2> QED
      BY <1>1, <1>2, <1>9, <2>1 DEF Server, Ready
  <1>11. ASSUME NEW count \in 0 .. MaxAddresses, SetAddresses(count)
        PROVE  MoreInv'
    <2>1. server'.disturbed /\ Ready(server')
      BY <1>1, <1>2, <1>11 DEF SetAddresses, Server, Ready
    <2> QED
      BY <1>9, <2>1
  <1>12. CASE Upgrade
    <2>1. server' = Restored(Saved(server))
      BY <1>12 DEF Upgrade
    <2>2. \A s \in Server : Restored(s).disturbed /\ Restored(s).hook_connect = "none"
      BY DEF Restored, Server
    <2>3. Saved(server) \in Server
      <3>1. CASE server.is_connected /\ Ssl
        <4> DEFINE d == Disconnect(server, FALSE, FALSE)
        <4>1. d \in Server
          BY <1>1, DisconnectCloses
        <4>2. Saved(server) = [d EXCEPT !.index_current_address = 0, !.reconnect_delay = DelayOption,
                                        !.reconnect_start = DelayMax]
          BY <3>1 DEF Saved
        <4>3. 0 \in Address /\ DelayOption \in 0 .. DelayMax /\ DelayMax \in Age
          BY ConstantsAssumption DEF Address, Age
        <4> HIDE DEF d
        <4> QED
          BY <4>1, <4>2, <4>3 DEF Server
      <3>2. CASE ~(server.is_connected /\ Ssl)
        BY <1>1, <3>2 DEF Saved
      <3> QED
        BY <3>1, <3>2
    <2>4. server'.disturbed /\ server'.hook_connect = "none"
      BY <2>1, <2>2, <2>3
    <2> QED
      BY <1>9, <2>4 DEF Ready
  <1> QED
    BY <1>5, <1>6, <1>7, <1>8, <1>10, <1>11, <1>12 DEF User

\* SASL has failed: the delay is not shortened, or the server is let go.
LEMMA GivesUpMore ==
    ASSUME IInv, MoreInv, SaslGivesUp, usable' = usable
    PROVE  MoreInv' /\ DelayStep
  <1>1. server \in Server
    BY DEF IInv, TypeOK, Server
  <1>2. (SaslFail = "reconnect") \in BOOLEAN
    OBVIOUS
  <1>3. /\ server' = Disconnect(server, FALSE, SaslFail = "reconnect")
        /\ wanted' = (wanted /\ SaslFail = "reconnect")
    BY DEF SaslGivesUp
  <1>4. server' \in Server /\ Closed(server') /\ Counts(server, server') /\ Ready(server')
    BY <1>1, <1>2, <1>3, DisconnectCloses, DisconnectCarries
  <1>5. CASE SaslFail = "reconnect"
    <2>1. Carries(server, server') /\ (AutoReconnect => Active(server'))
      BY <1>1, <1>2, <1>3, <1>5, DisconnectCarries
    <2> QED
      BY <1>1, <1>4, <2>1, MoreFromCarries DEF Closed
  <1>6. CASE SaslFail # "reconnect"
    BY <1>3, <1>4, <1>6, MoreFrom DEF Closed, Watched, DelayStep
  <1> QED
    BY <1>5, <1>6

\* A disconnection that is followed by a reconnection.
LEMMA DisconnectMore ==
    ASSUME IInv, MoreInv, NEW switch_address \in BOOLEAN,
           server' = Disconnect(server, switch_address, TRUE), usable' = usable
    PROVE  MoreInv' /\ DelayStep
  <1>1. server \in Server
    BY DEF IInv, TypeOK, Server
  <1>2. /\ server' \in Server /\ Closed(server') /\ Ready(server')
        /\ Carries(server, server') /\ (AutoReconnect => Active(server'))
    BY <1>1, DisconnectCloses, DisconnectCarries
  <1> QED
    BY <1>1, <1>2, MoreFromCarries DEF Closed

\* A step that leaves the addresses, the delay and the connect hook alone.
LEMMA MoreFromSame ==
    ASSUME IInv, MoreInv, server' \in Server, SameAddresses(server, server'), usable' = usable,
           server'.hook_connect = server.hook_connect, server'.sock = server.sock,
           Watched(server'), wanted' = wanted,
           server.reconnect_start # Idle => server'.reconnect_start # Idle,
           server'.reconnect_delay = server.reconnect_delay \/ server'.is_connected
    PROVE  MoreInv' /\ DelayStep
  <1>1. server \in Server
    BY DEF IInv, TypeOK, Server
  <1>2. Counts(server, server')
    BY <1>1, SameAddressesCount
  <1>3. Ready(server') /\ (AutoReconnect /\ wanted' => Active(server'))
    BY DEF MoreInv, SameAddresses, Ready, Active
  <1>4. DelayStep
    BY <1>1, ConstantsAssumption DEF Server, DelayStep
  <1> QED
    BY <1>2, <1>3, <1>4, MoreFrom

LEMMA TimerMore ==
    ASSUME IInv, MoreInv, AutoConnect \/ Timer \/ TimerLagTooHigh \/ TimerConnection \/ TimerSasl
    PROVE  MoreInv' /\ DelayStep
  <1>1. server \in Server /\ Sound(server) /\ (starting => Quiet(server))
    BY DEF IInv, TypeOK, Server
  <1>2. Watched(server) /\ IInv'
    BY TimerStep DEF MoreInv
  <1>3. server' \in Server
    BY <1>2 DEF IInv, TypeOK, Server
  <1>4. usable' = usable
    BY DEF AutoConnect, Timer, TimerWaits, TimerReconnects, TimerLagTooHigh, TimerConnection, TimerSasl
  <1>5. ASSUME NEW s \in Server, Carries(server, s), Closed(s), NEW r \in Connect(s),
               server' = IF r.ok THEN r.server ELSE ReconnectSchedule(r.server)
        PROVE  MoreInv' /\ DelayStep
    <2>1. Carries(s, server') /\ (AutoReconnect => Active(server')) /\ Ready(server')
      BY <1>5, ConnectOrScheduleCarries DEF Closed
    <2>2. Carries(server, server')
      BY <1>1, <1>3, <1>5, <2>1, CarriesCompose
    <2>3. ~server'.sock
      <3>1. CASE r.ok
        BY <1>5, <3>1, ConnectType
      <3>2. CASE ~r.ok
        BY <1>5, <3>2, ConnectType, ReconnectScheduleType DEF SameConnection, Closed
      <3> QED
        BY <3>1, <3>2
    <2> QED
      BY <1>1, <1>3, <1>4, <2>1, <2>2, <2>3, MoreFromCarries
  <1>6. Counts(server, server) /\ server.reconnect_delay >= server.reconnect_delay
    BY <1>1, ConstantsAssumption DEF Counts, Server
  <1>7. CASE AutoConnect
    <2>1. starting /\ \E r \in Connect(server) :
                         server' = IF r.ok THEN r.server ELSE ReconnectSchedule(r.server)
      BY <1>7 DEF AutoConnect
    <2>2. Closed(server) /\ Carries(server, server)
      BY <1>1, <1>6, <2>1 DEF Quiet, Sound, Closed, Carries
    <2> QED
      BY <1>1, <1>5, <2>1, <2>2
  <1>8. CASE TimerReconnects
    <2> DEFINE s == [server EXCEPT !.reconnect_start = Idle]
    <2>1. \E r \in Connect(s) : server' = IF r.ok THEN r.server ELSE ReconnectSchedule(r.server)
      BY <1>8 DEF TimerReconnects, Reconnect
    <2>2. Closed(server)
      BY <1>1, <1>8 DEF TimerReconnects, Scheduled, Sound, Closed
    <2>3. s \in Server /\ Closed(s) /\ SameAddresses(server, s) /\ s.reconnect_delay = server.reconnect_delay
      BY <1>1, <2>2 DEF Server, Closed, SameAddresses
    <2> HIDE DEF s
    <2>4. Carries(server, s)
      BY <1>1, <1>6, <2>3, SameAddressesCount DEF Carries
    <2> QED
      BY <1>5, <2>1, <2>3, <2>4
  <1>9. CASE TimerWaits
    <2>1. server' = Older(server) /\ wanted' = wanted
      BY <1>9 DEF TimerWaits
    <2>2. /\ SameAddresses(server, server') /\ server'.reconnect_delay = server.reconnect_delay
          /\ server'.hook_connect = server.hook_connect /\ server'.sock = server.sock
          /\ server'.is_connected = server.is_connected
          /\ server'.hook_timer_connection = server.hook_timer_connection
      BY <1>1, <2>1 DEF Older, Server, SameAddresses
    <2>3. server'.reconnect_start # Idle
      <3>1. server.reconnect_start \in 0 .. DelayMax /\ DelayMax \in Nat
        BY <1>1, <1>9, ConstantsAssumption DEF TimerWaits, Scheduled, Server, Age
      <3>2. server'.reconnect_start =
               IF server.reconnect_start < DelayMax THEN server.reconnect_start + 1
               ELSE server.reconnect_start
        BY <1>1, <2>1 DEF Older, Server
      <3> QED
        BY <3>1, <3>2 DEF Idle
    <2>4. Watched(server')
      BY <1>2, <2>2 DEF Watched, SameAddresses
    <2> QED
      BY <1>3, <1>4, <2>1, <2>2, <2>3, <2>4, MoreFromSame
  <1>10. CASE TimerLagTooHigh
    BY <1>4, <1>10, DisconnectMore DEF TimerLagTooHigh
  <1>11. CASE TimerConnection
    <2>1. CASE server.is_connected
      <3>1. server' = [server EXCEPT !.hook_timer_connection = FALSE] /\ wanted' = wanted
        BY <1>11, <2>1 DEF TimerConnection
      <3>2. /\ SameAddresses(server, server') /\ server'.reconnect_delay = server.reconnect_delay
            /\ server'.hook_connect = server.hook_connect /\ server'.sock = server.sock
            /\ server'.is_connected /\ server'.reconnect_start = server.reconnect_start
        BY <1>1, <2>1, <3>1 DEF Server, SameAddresses
      <3> QED
        BY <1>3, <1>4, <3>1, <3>2, MoreFromSame DEF Watched
    <2>2. CASE ~server.is_connected
      BY <1>4, <1>11, <2>2, DisconnectMore DEF TimerConnection
    <2> QED
      BY <2>1, <2>2
  <1>12. CASE TimerSasl
    <2>1. CASE ~server.is_connected /\ SaslFail # "continue"
      BY <1>4, <1>12, <2>1, GivesUpMore DEF TimerSasl
    <2>2. CASE ~(~server.is_connected /\ SaslFail # "continue")
      <3>1. server' = [server EXCEPT !.hook_timer_sasl = FALSE] /\ wanted' = wanted
        BY <1>12, <2>2 DEF TimerSasl
      <3>2. /\ SameAddresses(server, server') /\ server'.reconnect_delay = server.reconnect_delay
            /\ server'.hook_connect = server.hook_connect /\ server'.sock = server.sock
            /\ server'.is_connected = server.is_connected
            /\ server'.hook_timer_connection = server.hook_timer_connection
            /\ server'.reconnect_start = server.reconnect_start
        BY <1>1, <3>1 DEF Server, SameAddresses
      <3>3. Watched(server')
        BY <1>2, <3>2 DEF Watched, SameAddresses
      <3> QED
        BY <1>3, <1>4, <3>1, <3>2, <3>3, MoreFromSame
    <2> QED
      BY <2>1, <2>2
  <1> QED
    BY <1>7, <1>8, <1>9, <1>10, <1>11, <1>12 DEF Timer

LEMMA PeerMore ==
    ASSUME IInv, MoreInv, Peer \/ \E status \in Status : ConnectCb(status)
    PROVE  MoreInv' /\ DelayStep
  <1>1. server \in Server /\ Sound(server)
    BY DEF IInv, TypeOK, Server
  <1>2. Watched(server) /\ Ready(server) /\ (usable \/ server.disturbed) /\ IInv'
    BY PeerStep DEF MoreInv
  <1>3. server' \in Server
    BY <1>2 DEF IInv, TypeOK, Server
  <1>4. usable' = usable
    BY DEF Peer, Receive001, ReceiveNickRefused, PeerCloses, ReceiveCapAck, ReceiveSaslOk,
           ReceiveSaslFail, ConnectCb
  <1>5. CASE Receive001
    <2>1. /\ server' = [server EXCEPT !.is_connected = TRUE, !.reconnect_delay = 0,
                                      !.hook_timer_connection = FALSE]
          /\ wanted' = wanted
      BY <1>5 DEF Receive001
    <2>2. /\ SameAddresses(server, server') /\ server'.is_connected
          /\ server'.hook_connect = server.hook_connect /\ server'.sock = server.sock
          /\ server'.reconnect_start = server.reconnect_start
      BY <1>1, <2>1 DEF Server, SameAddresses
    <2> QED
      BY <1>3, <1>4, <2>1, <2>2, MoreFromSame DEF Watched
  <1>6. CASE ReceiveNickRefused
    BY <1>4, <1>6, DisconnectMore DEF ReceiveNickRefused
  <1>7. CASE PeerCloses
    <2>1. server' = Disconnect(server, ~server.is_connected, TRUE) /\ (~server.is_connected) \in BOOLEAN
      BY <1>7 DEF PeerCloses
    <2> QED
      BY <1>4, <2>1, DisconnectMore
  <1>8. ASSUME NEW timer \in BOOLEAN, NEW x \in {"none", "started", "over"}, wanted' = wanted,
               server' = [server EXCEPT !.hook_timer_sasl = timer, !.sasl = x]
        PROVE  MoreInv' /\ DelayStep
    <2>1. /\ SameAddresses(server, server') /\ server'.reconnect_delay = server.reconnect_delay
          /\ server'.hook_connect = server.hook_connect /\ server'.sock = server.sock
          /\ server'.is_connected = server.is_connected
          /\ server'.hook_timer_connection = server.hook_timer_connection
          /\ server'.reconnect_start = server.reconnect_start
      BY <1>1, <1>8 DEF Server, SameAddresses
    <2>2. Watched(server')
      BY <1>2, <2>1 DEF Watched, SameAddresses
    <2> QED
      BY <1>3, <1>4, <1>8, <2>1, <2>2, MoreFromSame
  <1>9. CASE ReceiveCapAck
    BY <1>8, <1>9 DEF ReceiveCapAck
  <1>10. ASSUME server' = [server EXCEPT !.sasl = "over"], wanted' = wanted
         PROVE  MoreInv' /\ DelayStep
    <2>1. server' = [server EXCEPT !.hook_timer_sasl = server.hook_timer_sasl, !.sasl = "over"]
      BY <1>1, <1>10 DEF Server
    <2>2. server.hook_timer_sasl \in BOOLEAN
      BY <1>1 DEF Server
    <2> QED
      BY <1>8, <1>10, <2>1, <2>2
  <1>11. CASE ReceiveSaslOk
    BY <1>10, <1>11 DEF ReceiveSaslOk
  <1>12. CASE ReceiveSaslFail
    BY <1>4, <1>10, <1>12, GivesUpMore DEF ReceiveSaslFail
  <1>13. ASSUME NEW status \in Status, ConnectCb(status)
         PROVE  MoreInv' /\ DelayStep
    <2> DEFINE s == [server EXCEPT !.hook_connect = "none"]
               closed == CloseConnection(s)
               counted == IF status \in Counted THEN Failed(closed) ELSE closed
    <2>1. /\ server.hook_connect = "pending" /\ wanted' = wanted
          /\ \/ server' = LoginStarts(s)
             \/ server' \in SwitchAndConnect(counted)
             \/ server' = ReconnectSchedule(counted)
      BY <1>13 DEF ConnectCb
    <2>2. s \in Server /\ SameAddresses(server, s) /\ s.reconnect_delay = server.reconnect_delay
      BY <1>1 DEF Server, SameAddresses
    <2>3. Carries(server, s)
      BY <1>1, <2>2, SameAddressesCount, ConstantsAssumption DEF Carries, Server
    <2>4. server.current_address /\ ~server.sock
      BY <1>1, <1>2, <2>1 DEF Ready, Sound
    <2>5. /\ closed \in Server /\ Closed(closed) /\ Carries(s, closed)
          /\ closed.current_address
      BY <2>2, <2>4, CloseConnectionCloses, CloseConnectionCarries DEF SameAddresses
    <2> HIDE DEF closed
    <2>6. counted \in Server /\ Closed(counted) /\ Carries(closed, counted)
      <3>1. Failed(closed) \in Server /\ Closed(Failed(closed)) /\ Carries(closed, Failed(closed))
        BY <2>5, FailedType, FailedCarries DEF SameConnection, Closed
      <3>2. Carries(closed, closed)
        BY <2>5, ConstantsAssumption DEF Carries, Counts, Server
      <3> QED
        BY <2>5, <3>1, <3>2
    <2> HIDE DEF counted
    <2>7. Carries(server, closed)
      BY <1>1, <2>2, <2>3, <2>5, CarriesCompose
    <2>8. Carries(server, counted)
      BY <1>1, <2>5, <2>6, <2>7, CarriesCompose
    <2>9. CASE server' = LoginStarts(s)
      <3>1. /\ SameAddresses(s, server') /\ server'.reconnect_delay = s.reconnect_delay
            /\ server'.sock /\ server'.hook_timer_connection /\ server'.hook_connect = "none"
        BY <2>2, <2>9 DEF LoginStarts, Server, SameAddresses
      <3>2. SameAddresses(server, server') /\ server'.reconnect_delay = server.reconnect_delay
        BY <2>2, <3>1 DEF SameAddresses
      <3>3. Counts(server, server')
        BY <1>1, <1>3, <3>2, SameAddressesCount
      <3>4. DelayStep
        BY <1>1, <3>2, ConstantsAssumption DEF DelayStep, Server
      <3> QED
        BY <1>4, <3>1, <3>3, <3>4, MoreFrom DEF Watched, Ready, Active
    <2>10. ASSUME Carries(counted, server'), AutoReconnect => Active(server'), Ready(server'), ~server'.sock
           PROVE  MoreInv' /\ DelayStep
      <3>1. Carries(server, server')
        BY <1>1, <1>3, <2>6, <2>8, <2>10, CarriesCompose
      <3> QED
        BY <1>1, <1>3, <1>4, <2>10, <3>1, MoreFromCarries
    <2>11. CASE server' \in SwitchAndConnect(counted)
      <3>1. usable \/ counted.disturbed
        BY <1>2, <2>8 DEF Carries, Counts
      <3>2. ~server'.sock
        BY <2>6, <2>11, SwitchAndConnectCloses
      <3> QED
        BY <2>6, <2>10, <2>11, <3>1, <3>2, SwitchAndConnectCarries DEF Closed
    <2>12. CASE server' = ReconnectSchedule(counted)
      <3>1. /\ Carries(counted, server') /\ server'.hook_connect # "pending" /\ ~server'.sock
            /\ AutoReconnect => server'.reconnect_start # Idle
        BY <2>6, <2>12, ReconnectScheduleType, ReconnectScheduleCarries DEF SameConnection, Closed
      <3> QED
        BY <2>10, <3>1 DEF Active, Ready
    <2> QED
      BY <2>1, <2>9, <2>11, <2>12
  <1> QED
    BY <1>5, <1>6, <1>7, <1>9, <1>11, <1>12, <1>13 DEF Peer

\* The whole invariant holds, and every step lengthens the delay or has a reason
\* not to.
LEMMA MoreHolds == Spec => [](IInv /\ MoreInv)
  <1>1. Init => IInv /\ MoreInv
    BY InitHolds, MoreInit
  <1>2. IInv /\ MoreInv /\ IInv' /\ [Next]_vars => MoreInv'
    <2> SUFFICES ASSUME IInv, MoreInv, [Next]_vars
                 PROVE  MoreInv'
      OBVIOUS
    <2>1. CASE User
      BY <2>1, UserMore
    <2>2. CASE AutoConnect \/ Timer \/ TimerLagTooHigh \/ TimerConnection \/ TimerSasl
      BY <2>2, TimerMore
    <2>3. CASE Peer \/ \E status \in Status : ConnectCb(status)
      BY <2>3, PeerMore
    <2>4. CASE UNCHANGED vars
      BY <2>4 DEF vars, MoreInv
    <2> QED
      BY <2>1, <2>2, <2>3, <2>4 DEF Next
  <1> QED
    BY <1>1, <1>2, InvariantHolds, PTL DEF Spec

-----------------------------------------------------------------------------
(* The theorems that need the whole invariant.                             *)

\* A server the user wants has a login with a timer, or something that will
\* happen to it.
THEOREM AlwaysMoves == Spec => []NeverStuck
  <1>1. IInv /\ MoreInv => NeverStuck
    BY DEF MoreInv, Watched, Active, NeverStuck, LoginHasTimeout, LoggingIn, NeverForgotten, Scheduled
  <1> QED
    BY <1>1, MoreHolds, PTL

\* The retry counts of the addresses are the failures they had.
THEOREM RetriesAlwaysCounted == Spec => []RetryPerAddress
  <1>1. IInv /\ MoreInv => RetryPerAddress
    BY DEF MoreInv, Tally, RetryPerAddress
  <1> QED
    BY <1>1, MoreHolds, PTL

\* A failure never shortens the reconnection delay.
THEOREM DelayAlwaysGrows == Spec => DelayGrows
  <1>1. IInv /\ MoreInv /\ [Next]_vars => [DelayStep]_vars
    <2> SUFFICES ASSUME IInv, MoreInv, Next PROVE DelayStep
      OBVIOUS
    <2>1. CASE User
      BY <2>1, UserMore
    <2>2. CASE AutoConnect \/ Timer \/ TimerLagTooHigh \/ TimerConnection \/ TimerSasl
      BY <2>2, TimerMore
    <2>3. CASE Peer \/ \E status \in Status : ConnectCb(status)
      BY <2>3, PeerMore
    <2> QED
      BY <2>1, <2>2, <2>3 DEF Next
  <1>2. DelayGrows <=> [][DelayStep]_vars
    BY DEF DelayGrows, DelayStep
  <1> QED
    BY <1>1, <1>2, MoreHolds, PTL DEF Spec
=============================================================================
