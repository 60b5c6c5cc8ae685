----------------------------- MODULE IrcServer -----------------------------
(***************************************************************************)
(* The life of the connection to one IRC server (irc-server.c), with the   *)
(* commands, messages, timers and the connect hook that drive it.  The     *)
(* fields of t_irc_server are those the connection depends on; servers do  *)
(* not share state, so one is enough.  Time is counted in seconds since    *)
(* reconnect_start; retry counts are kept modulo Ips, which is all that    *)
(* network_connect_child uses them for (it picks address retry % number    *)
(* of IP addresses of the host).                                           *)
(***************************************************************************)
EXTENDS Naturals, FiniteSets

CONSTANTS
    MaxAddresses,    \* longest value of option "addresses"
    Ips,             \* IP addresses behind a host name
    AutoReconnect,   \* option autoreconnect
    DelayOption,     \* option autoreconnect_delay
    DelayGrowing,    \* option irc.network.autoreconnect_delay_growing
    DelayMax,        \* option irc.network.autoreconnect_delay_max, not 0 here
    SaslFail,        \* option sasl_fail: "continue", "reconnect", "disconnect"
    Ssl,             \* option ssl
    ConnectStatus,   \* for each address, how a connection to it may end
    LoginResult,     \* for each address, how a login on it may end
    ProxyChanges,    \* the user may name a proxy that does not exist
    AddressChanges,  \* the user may change option "addresses"
    SyncFails,       \* hook_connect may fail before it returns
    Upgrades,        \* the user may run /upgrade
    MaxCommands      \* bound: commands of the user in a behaviour

Address == 0 .. MaxAddresses - 1

Switching == {"ADDRESS_NOT_FOUND", "IP_ADDRESS_NOT_FOUND", "PROXY_ERROR",
              "CONNECTION_REFUSED", "GNUTLS_HANDSHAKE_ERROR", "TIMEOUT"}
Waiting == {"LOCAL_HOSTNAME_ERROR", "MEMORY_ERROR",
            "GNUTLS_INIT_ERROR", "SOCKET_ERROR"}
Counted == {"CONNECTION_REFUSED", "GNUTLS_HANDSHAKE_ERROR", "TIMEOUT",
            "GNUTLS_INIT_ERROR", "SOCKET_ERROR"}
Status == {"OK"} \cup Switching \cup Waiting
Login == {"001", "nick_refused", "closed", "silence"}

ASSUME ConstantsAssumption ==
    /\ MaxAddresses \in Nat \ {0} /\ Ips \in Nat \ {0}
    /\ DelayMax \in Nat \ {0} /\ DelayOption \in 1 .. DelayMax
    /\ DelayGrowing \in Nat \ {0}
    /\ SaslFail \in {"continue", "reconnect", "disconnect"}
    /\ {AutoReconnect, Ssl, ProxyChanges, AddressChanges, SyncFails, Upgrades} \subseteq BOOLEAN
    /\ ConnectStatus \in [Address -> SUBSET Status]
    /\ LoginResult \in [Address -> SUBSET Login]
    /\ MaxCommands \in Nat

VARIABLES
    server,    \* the t_irc_server, with the history of its failures
    usable,    \* does option proxy name a proxy that exists (or none)?
    starting,  \* is the server to be connected by irc_server_auto_connect?
    commands,  \* commands of the user so far
    wanted,    \* has the user been told he is being connected, and not let it go?
    stopped    \* was the last order of the user to disconnect?

vars == <<server, usable, starting, commands, wanted, stopped>>

Idle == DelayMax + 1   \* reconnect_start = 0: nothing is scheduled
Age == 0 .. DelayMax   \* seconds since reconnect_start

Scheduled == server.reconnect_start # Idle

\* retry count of an address: in current_retry while it is the current one
RetryOf(s, a) ==
    IF s.current_address /\ s.index_current_address = a THEN s.current_retry
    ELSE s.retry_array[a]

-----------------------------------------------------------------------------
(* The functions of irc-server.c, as functions of the server.              *)

CloseConnection(s) ==
    [s EXCEPT !.hook_timer_connection = FALSE, !.hook_timer_sasl = FALSE, !.sasl = "none",
              !.hook_connect = "none", !.sock = FALSE, !.is_connected = FALSE]

Grown(delay) ==
    LET next == IF delay = 0 THEN DelayOption ELSE delay * DelayGrowing
    IN  IF next > DelayMax THEN DelayMax ELSE next

Unschedule(s) == [s EXCEPT !.reconnect_delay = 0, !.reconnect_start = Idle]

ReconnectSchedule(s) ==
    IF AutoReconnect
    THEN [s EXCEPT !.reconnect_delay = Grown(@), !.reconnect_start = 0]
    ELSE Unschedule(s)

\* Mutant: the retry count of the address that is left is not saved.
SetIndexForgetsRetry(s, index) ==
    LET i == index % s.addresses_count
    IN  IF s.addresses_count = 0
        THEN [s EXCEPT !.current_address = FALSE, !.current_retry = 0]
        ELSE [s EXCEPT !.index_current_address = i, !.current_address = TRUE,
                       !.current_retry = s.retry_array[i]]

SetIndexCurrentAddress(s, index) ==
    LET saved == IF s.current_address /\ s.index_current_address < s.addresses_count
                 THEN [s.retry_array EXCEPT ![s.index_current_address] = s.current_retry]
                 ELSE s.retry_array
        i == index % s.addresses_count
    IN  IF s.addresses_count = 0
        THEN [s EXCEPT !.current_address = FALSE, !.current_retry = 0]
        ELSE [s EXCEPT !.retry_array = saved, !.index_current_address = i,
                       !.current_address = TRUE, !.current_retry = saved[i]]

\* history: the failures of the current address become n
FailuresBecome(s, n) ==
    IF s.index_current_address < s.addresses_count
    THEN [s.failures EXCEPT ![s.index_current_address] = n]
    ELSE s.failures

Failed(s) ==
    [s EXCEPT !.current_retry = (@ + 1) % Ips,
              !.failures = FailuresBecome(s, (s.failures[s.index_current_address] + 1) % Ips)]

\* hook_connect runs irc_server_connect_cb itself when it cannot create the
\* pipe, the sockets or the child, or set up TLS; it frees the hook and then
\* returns it (irc_server_close_connection will give this pointer to unhook,
\* which ignores a hook it does not know)
HookConnect(s) ==
    {[s EXCEPT !.hook_connect = "pending"]}
    \cup IF SyncFails
         THEN {[ReconnectSchedule(t) EXCEPT !.hook_connect = "freed", !.disturbed = TRUE] : t \in {s, Failed(s)}}
         ELSE {}

Connect(s) ==
    LET at == SetIndexCurrentAddress([s EXCEPT !.disconnected = FALSE, !.buffer = TRUE],
                                     s.index_current_address)
    IN  IF usable /\ at.current_address
        THEN {[ok |-> TRUE, server |-> t] : t \in HookConnect(CloseConnection(at))}
        ELSE {[ok |-> FALSE, server |-> at]}

\* Mutant: the index of the address does not move.
SwitchAddressStuck(s) == SetIndexCurrentAddress(s, s.index_current_address)

\* irc_server_switch_address, connection = 0
SwitchAddress(s) ==
    IF s.addresses_count > 1
    THEN SetIndexCurrentAddress(s, s.index_current_address + 1)
    ELSE s

\* Mutant: nothing is scheduled when the list of addresses starts again.
SwitchAndForget(s) ==
    LET next == SwitchAddress(s)
    IN  IF s.addresses_count <= 1 THEN {ReconnectSchedule(next)}
        ELSE IF next.index_current_address = 0 THEN {next}
        ELSE {r.server : r \in Connect(next)}

\* irc_server_switch_address, connection = 1
SwitchAndConnect(s) ==
    LET next == SwitchAddress(s)
    IN  IF s.addresses_count > 1 /\ next.index_current_address # 0
        THEN {r.server : r \in Connect(next)}
        ELSE {ReconnectSchedule(next)}

Reconnect(s) ==
    {IF r.ok THEN r.server ELSE ReconnectSchedule(r.server) :
        r \in Connect([s EXCEPT !.reconnect_start = Idle])}

\* Mutant: the delay starts again at each disconnection.
DisconnectResetsDelay(s, switch_address, reconnect) ==
    LET zero == [Unschedule(CloseConnection(s)) EXCEPT
                    !.current_retry = 0,
                    !.failures = IF s.current_address THEN FailuresBecome(s, 0) ELSE @]
        moved == IF switch_address THEN SwitchAddress(zero)
                 ELSE SetIndexCurrentAddress(zero, 0)
    IN  [(IF reconnect THEN ReconnectSchedule(moved) ELSE moved) EXCEPT !.disconnected = TRUE]

\* Mutant: a pending reconnection is not cancelled.
DisconnectKeepsSchedule(s, switch_address, reconnect) ==
    LET zero == [CloseConnection(s) EXCEPT !.current_retry = 0]
        moved == IF switch_address THEN SwitchAddress(zero)
                 ELSE SetIndexCurrentAddress(zero, 0)
    IN  [(IF reconnect THEN ReconnectSchedule(moved) ELSE moved) EXCEPT !.disconnected = TRUE]

Disconnect(s, switch_address, reconnect) ==
    LET closed == CloseConnection(s)
        zero == [closed EXCEPT
                    !.current_retry = 0,
                    !.failures = IF s.current_address THEN FailuresBecome(s, 0) ELSE @]
        moved == IF switch_address THEN SwitchAddress(zero)
                 ELSE SetIndexCurrentAddress(zero, 0)
        timed == IF reconnect THEN ReconnectSchedule(moved) ELSE Unschedule(moved)
    IN  [timed EXCEPT !.disconnected = TRUE]

-----------------------------------------------------------------------------
(* The user.                                                               *)

\* the timer of irc_server_auto_connect runs in the first turn of the main
\* loop, before any input
Command ==
    /\ ~starting
    /\ commands < MaxCommands
    /\ commands' = commands + 1

\* end of /connect and /reconnect
Connected(s) ==
    \E r \in Connect(s) :
        /\ server' = IF r.ok THEN Unschedule(r.server) ELSE r.server
        /\ wanted' = (r.ok \/ (wanted /\ r.server.reconnect_start # Idle))
        /\ stopped' = FALSE

CommandConnect(switch_address) ==
    /\ Command
    /\ ~server.is_connected
    /\ server.hook_connect = "none"
    /\ Connected(IF switch_address THEN SwitchAddress(server) ELSE server)
    /\ UNCHANGED <<usable, starting>>

CommandReconnect(switch_address) ==
    LET online == server.is_connected \/ server.hook_connect # "none" \/ server.sock
    IN  /\ Command
        /\ Connected(IF online THEN Disconnect(server, switch_address, FALSE)
                     ELSE IF switch_address THEN SwitchAddress(server) ELSE server)
        /\ UNCHANGED <<usable, starting>>

Stops(s) ==
    /\ server' = s
    /\ wanted' = FALSE
    /\ stopped' = TRUE

CommandDisconnect ==
    /\ Command
    /\ server.is_connected \/ server.hook_connect # "none" \/ server.sock \/ Scheduled
    /\ Stops(Disconnect(server, FALSE, FALSE))
    /\ UNCHANGED <<usable, starting>>

\* closing the buffer of the server; a server marked disconnected keeps the
\* reconnection it is waiting for
BufferClose ==
    /\ Command
    /\ server.buffer
    /\ IF server.disconnected
       THEN /\ server' = [server EXCEPT !.buffer = FALSE]
            /\ UNCHANGED <<wanted, stopped>>
       ELSE Stops([Disconnect(server, FALSE, FALSE) EXCEPT !.buffer = FALSE])
    /\ UNCHANGED <<usable, starting>>

\* /set irc.server.*.proxy
SetProxy ==
    /\ ProxyChanges
    /\ Command
    /\ usable' = ~usable
    /\ server' = [server EXCEPT !.disturbed = TRUE]
    /\ UNCHANGED <<starting, wanted, stopped>>

\* /set irc.server.*.addresses
SetAddresses(count) ==
    /\ AddressChanges
    /\ Command
    /\ server' = [server EXCEPT !.addresses_count = count, !.disturbed = TRUE,
                                !.retry_array = [a \in Address |-> 0],
                                !.failures = [a \in Address |-> 0]]
    /\ UNCHANGED <<usable, starting, wanted, stopped>>

\* /upgrade: what the old process saves; a server connected with SSL is closed
\* and scheduled for the new process
Saved(s) ==
    IF s.is_connected /\ Ssl
    THEN [Disconnect(s, FALSE, FALSE) EXCEPT !.index_current_address = 0,
                                             !.reconnect_delay = DelayOption,
                                             !.reconnect_start = DelayMax]
    ELSE s

\* /upgrade: what the new process restores; of the hooks only hook_fd is made again
Restored(s) ==
    [s EXCEPT !.hook_connect = "none", !.disturbed = TRUE,
              !.hook_timer_connection = FALSE, !.hook_timer_sasl = FALSE,
              !.current_retry = 0,
              !.current_address = @ \/ s.index_current_address < s.addresses_count,
              !.retry_array = [a \in Address |-> 0],
              !.failures = [a \in Address |-> 0]]

Upgrade ==
    /\ Upgrades
    /\ Command
    /\ server' = Restored(Saved(server))
    /\ UNCHANGED <<usable, starting, wanted, stopped>>

-----------------------------------------------------------------------------
(* Timers of the program.                                                  *)

AutoConnect ==
    /\ starting
    /\ starting' = FALSE
    /\ \E r \in Connect(server) :
          server' = IF r.ok THEN r.server ELSE ReconnectSchedule(r.server)
    /\ wanted' = AutoReconnect
    /\ stopped' = FALSE
    /\ UNCHANGED <<usable, commands>>

\* one second goes by and irc_server_timer_cb runs
Older(s) == [s EXCEPT !.reconnect_start = IF @ < DelayMax THEN @ + 1 ELSE @]

Due(s) == /\ ~s.is_connected
          /\ s.reconnect_start # Idle
          /\ s.reconnect_start >= s.reconnect_delay

TimerWaits ==
    /\ Scheduled
    /\ ~Due(Older(server))
    /\ server' = Older(server)
    /\ UNCHANGED <<usable, starting, commands, wanted, stopped>>

TimerReconnects ==
    /\ Scheduled
    /\ Due(Older(server))
    /\ server' \in Reconnect(server)
    /\ UNCHANGED <<usable, starting, commands, wanted, stopped>>

TimerLagTooHigh ==
    /\ server.is_connected
    /\ server' = Disconnect(server, FALSE, TRUE)
    /\ UNCHANGED <<usable, starting, commands, wanted, stopped>>

TimerConnection ==
    /\ server.hook_timer_connection
    /\ "silence" \in LoginResult[server.index_current_address]
    /\ server' = IF server.is_connected
                 THEN [server EXCEPT !.hook_timer_connection = FALSE]
                 ELSE Disconnect(server, TRUE, TRUE)
    /\ UNCHANGED <<usable, starting, commands, wanted, stopped>>

SaslGivesUp ==
    /\ server' = Disconnect(server, FALSE, SaslFail = "reconnect")
    /\ wanted' = (wanted /\ SaslFail = "reconnect")

TimerSasl ==
    /\ server.hook_timer_sasl
    /\ IF ~server.is_connected /\ SaslFail # "continue"
       THEN SaslGivesUp
       ELSE /\ server' = [server EXCEPT !.hook_timer_sasl = FALSE]
            /\ UNCHANGED wanted
    /\ UNCHANGED <<usable, starting, commands, stopped>>

-----------------------------------------------------------------------------
(* The connect hook and the server.                                        *)

LoginStarts(s) == [s EXCEPT !.sock = TRUE, !.hook_timer_connection = TRUE]

ConnectCb(status) ==
    LET s == [server EXCEPT !.hook_connect = "none"]
        closed == CloseConnection(s)
        counted == IF status \in Counted THEN Failed(closed) ELSE closed
    IN  /\ server.hook_connect = "pending"
        /\ status \in ConnectStatus[server.index_current_address]
        /\ \/ status = "OK" /\ server' = LoginStarts(s)
           \/ status \in Switching /\ server' \in SwitchAndConnect(counted)
           \/ status \in Waiting /\ server' = ReconnectSchedule(counted)
        /\ UNCHANGED <<usable, starting, commands, wanted, stopped>>

LoggingIn == server.sock /\ ~server.is_connected

Receive001 ==
    /\ server.sock
    /\ "001" \in LoginResult[server.index_current_address]
    /\ server' = [server EXCEPT !.is_connected = TRUE, !.reconnect_delay = 0,
                                !.hook_timer_connection = FALSE]
    /\ UNCHANGED <<usable, starting, commands, wanted, stopped>>

\* 432, 433 or 437 when no nick of the list is left
ReceiveNickRefused ==
    /\ LoggingIn
    /\ "nick_refused" \in LoginResult[server.index_current_address]
    /\ server' = Disconnect(server, FALSE, TRUE)
    /\ UNCHANGED <<usable, starting, commands, wanted, stopped>>

\* end of file or error on the socket, or "ERROR :Closing Link"
PeerCloses ==
    /\ server.sock
    /\ LoggingIn => "closed" \in LoginResult[server.index_current_address]
    /\ server' = Disconnect(server, ~server.is_connected, TRUE)
    /\ UNCHANGED <<usable, starting, commands, wanted, stopped>>

\* CAP ACK of capability sasl
ReceiveCapAck ==
    /\ server.sock
    /\ server' = [server EXCEPT !.hook_timer_sasl = TRUE, !.sasl = "started"]
    /\ UNCHANGED <<usable, starting, commands, wanted, stopped>>

\* 903, 907
ReceiveSaslOk ==
    /\ server.sasl = "started"
    /\ server' = [server EXCEPT !.sasl = "over"]
    /\ UNCHANGED <<usable, starting, commands, wanted, stopped>>

\* 902, 904, 905, 906
ReceiveSaslFail ==
    /\ server.sasl = "started"
    /\ IF SaslFail = "continue"
       THEN server' = [server EXCEPT !.sasl = "over"] /\ UNCHANGED wanted
       ELSE SaslGivesUp
    /\ UNCHANGED <<usable, starting, commands, stopped>>

-----------------------------------------------------------------------------
New(count) ==
    [hook_connect |-> "none", sock |-> FALSE, is_connected |-> FALSE,
     hook_timer_connection |-> FALSE, hook_timer_sasl |-> FALSE, sasl |-> "none",
     addresses_count |-> count, index_current_address |-> 0, current_address |-> FALSE,
     retry_array |-> [a \in Address |-> 0], current_retry |-> 0,
     reconnect_delay |-> 0, reconnect_start |-> Idle, disconnected |-> FALSE, buffer |-> FALSE,
     failures |-> [a \in Address |-> 0], disturbed |-> FALSE]

Init ==
    /\ server = New(MaxAddresses)
    /\ usable = TRUE
    /\ starting \in BOOLEAN   \* option autoconnect
    /\ commands = 0
    /\ wanted = FALSE
    /\ stopped = FALSE

User ==
    \/ \E switch_address \in BOOLEAN :
          CommandConnect(switch_address) \/ CommandReconnect(switch_address)
    \/ CommandDisconnect \/ BufferClose \/ SetProxy \/ Upgrade
    \/ \E count \in 0 .. MaxAddresses : SetAddresses(count)

Timer == TimerWaits \/ TimerReconnects

Peer ==
    \/ Receive001 \/ ReceiveNickRefused \/ PeerCloses
    \/ ReceiveCapAck \/ ReceiveSaslOk \/ ReceiveSaslFail

Next ==
    \/ User \/ AutoConnect \/ Timer \/ TimerLagTooHigh \/ TimerConnection \/ TimerSasl
    \/ Peer
    \/ \E status \in Status : ConnectCb(status)

Spec == Init /\ [][Next]_vars

\* timers run, a connection attempt ends (at worst by its own timeout) and does
\* not fail for ever on the local side, and a peer that accepts logins answers
FairSpec ==
    /\ Spec
    /\ WF_vars(AutoConnect)
    /\ WF_vars(Timer)
    /\ WF_vars(TimerConnection)
    /\ WF_vars(\E status \in Status : ConnectCb(status))
    /\ SF_vars(\E status \in Status \ Waiting : ConnectCb(status))
    /\ WF_vars(LoggingIn /\ (Receive001 \/ ReceiveNickRefused \/ PeerCloses))

-----------------------------------------------------------------------------
(* Properties.                                                             *)
(* A server is "disturbed" by a missing proxy, a change of its addresses,  *)
(* /upgrade, and a connection that fails before hook_connect returns.      *)

\* Every variable, and every field of the server, has its type.
TypeOK ==
    /\ server \in
          [hook_connect : {"none", "pending", "freed"}, sock : BOOLEAN, is_connected : BOOLEAN,
           hook_timer_connection : BOOLEAN, hook_timer_sasl : BOOLEAN,
           sasl : {"none", "started", "over"},
           addresses_count : 0 .. MaxAddresses, index_current_address : Address,
           current_address : BOOLEAN,
           retry_array : [Address -> 0 .. Ips - 1], current_retry : 0 .. Ips - 1,
           reconnect_delay : 0 .. DelayMax, reconnect_start : Age \cup {Idle},
           disconnected : BOOLEAN, buffer : BOOLEAN, failures : [Address -> 0 .. Ips - 1],
           disturbed : BOOLEAN]
    /\ {usable, starting, wanted, stopped} \subseteq BOOLEAN
    /\ commands \in 0 .. MaxCommands

\* A server is doing one thing at a time: waiting for its connect hook,
\* talking on its socket, or waiting to reconnect.  A reconnection that comes
\* due would otherwise close a connection the user is using, or a connect
\* hook and a socket would both report on the same server.
OneThingAtATime ==
    /\ server.sock => server.hook_connect = "none" /\ ~Scheduled
    /\ server.hook_connect = "pending" => ~Scheduled
    /\ server.is_connected => server.sock

\* The timers of irc_server_login and of SASL exist only with the socket they
\* watch: one that outlives its connection would end the next one.
TimersHaveSocket ==
    server.hook_timer_connection \/ server.hook_timer_sasl => server.sock

\* While message 001 is awaited the timer of irc_server_login is running, so a
\* silent server cannot keep the program in the login for ever.
LoginHasTimeout == LoggingIn /\ ~server.disturbed => server.hook_timer_connection

\* Option autoreconnect: a server the user asked for is connecting, connected
\* or scheduled for reconnection, whatever has failed since.
NeverForgotten ==
    AutoReconnect /\ wanted /\ ~server.disturbed =>
        server.hook_connect = "pending" \/ server.sock \/ Scheduled

\* Once the user has disconnected the server (or closed its buffer while
\* connected), nothing brings it back before he asks.
StaysDisconnected ==
    stopped => server.hook_connect = "none" /\ ~server.sock /\ ~Scheduled

\* The retry count of each address, whether saved in retry_array or loaded in
\* current_retry, is the number of its failed connections since it last worked.
RetryPerAddress ==
    ~server.disturbed => \A a \in 0 .. server.addresses_count - 1 : RetryOf(server, a) = server.failures[a]

\* With option autoreconnect, failures never shorten the reconnection delay: only
\* a message 001, a command of the user or /upgrade does.
DelayGrows ==
    [][AutoReconnect /\ server'.reconnect_delay < server.reconnect_delay =>
          server'.is_connected \/ commands' # commands \/ ~wanted']_vars

\* A server the user wants is connected in the end, or he gives up, if one of
\* its addresses accepts him: every address is tried in turn.
WantedIsConnected == wanted ~> server.is_connected \/ ~wanted \/ server.disturbed

\* hook_connect points to a hook that exists.
HookConnectValid == server.hook_connect # "freed"

\* The SASL timer runs only while the authentication is under way.
SaslTimerWhileAuthenticating == server.hook_timer_sasl => server.sasl = "started"
-----------------------------------------------------------------------------
(* Conjunctions of the properties above, as the runs check them.           *)

\* A server does one thing at a time, with the timers of what it does and no
\* other, and nothing brings it back once the user has stopped it
\* (irc_server_disconnect, irc_server_close_connection and the commands).
OneConnection == TypeOK /\ OneThingAtATime /\ TimersHaveSocket /\ StaysDisconnected

\* A server the user wants waits for something that will happen: a hook, a
\* socket whose login has a timeout, or a reconnection (irc_server_timer_cb,
\* irc_server_timer_connection_cb, irc_server_connect_cb).
NeverStuck == LoginHasTimeout /\ NeverForgotten
=============================================================================
