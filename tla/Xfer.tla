-------------------------------- MODULE Xfer --------------------------------
(***************************************************************************)
(* The plugin "xfer" sending a file with DCC (xfer.c, xfer-network.c,       *)
(* xfer-dcc.c, xfer-file.c, xfer-buffer.c) between two clients: on each     *)
(* side the main process with its t_xfer and the child it forks, the pipe   *)
(* between them, the connection with its blocks and its acknowledgements    *)
(* (counters of 32 bits: AckModulo), and the two messages DCC RESUME and    *)
(* DCC ACCEPT, which go through the IRC server.                             *)
(*                                                                         *)
(* A byte of the file is its number.  One transfer at a time per side: an   *)
(* ended one is removed before the file is offered again.  The check of the *)
(* CRC32 in the file name and the speed limit are left out.                 *)
(***************************************************************************)
EXTENDS Integers, SequencesExt

CONSTANTS
    Sizes,      \* sizes of the file
    Block,      \* option "blocksize"
    Room,       \* capacity of the connection
    AckModulo,  \* 2^32 in the code
    MaxOffers,  \* bound: times the file is offered
    MaxCancels, \* bound: transfers the users cancel
    MaxFaults   \* bound: connections broken, messages lost, forks that fail

ASSUME XferAssumption ==
    /\ Sizes \subseteq Nat
    /\ {Block, Room, AckModulo} \subseteq Nat \ {0}
    /\ {MaxOffers, MaxCancels, MaxFaults} \subseteq Nat

VARIABLES
    file, fast, autoResume, \* the file; options "fast_send" and "auto_resume"
    offer,   \* number of the current offer: its port
    snd,     \* t_xfer of the sender: status, sock, pos, hook_timer
    sc,      \* child of the sender: running, pos, ack, sent_ok
    rcv,     \* t_xfer of the receiver: status, start_resume
    rc,      \* child of the receiver: phase, pos, pos_last_ack
    spipe, rpipe, \* statuses in the pipes from the children
    conn,    \* the connection
    irc,     \* RESUME and ACCEPT on their way
    disk,    \* local file of the receiver
    \* history
    verdict,   \* the last outcome the receiving user was told
    gaveUp,    \* the sender said "done" two seconds after its last block
    disturbed, \* a search changed the status of a transfer it did not look for
    cancels, faults

options == <<file, fast, autoResume>>
sender == <<snd, sc, spipe>>
receiver == <<rcv, rc, rpipe, disk, verdict>>
bounds == <<cancels, faults>>
vars == <<options, offer, sender, receiver, conn, irc, gaveUp, disturbed, bounds>>

-----------------------------------------------------------------------------
(* States.  "none": no t_xfer (not offered yet, or removed).               *)
Ended == {"done", "failed", "aborted"}                    \* XFER_HAS_ENDED
Status == {"none", "waiting", "connecting", "active"} \cup Ended

NoSndChild == [on |-> FALSE, pos |-> 0, ack |-> 0, sentOk |-> FALSE]
NoRcvChild == [phase |-> "none", pos |-> 0, lastAck |-> 0]
NoConn == [state |-> "none", sndOpen |-> FALSE, data |-> <<>>, acks |-> <<>>]
Broken == [NoConn EXCEPT !.state = "broken"]

Size == Len(file)
RcvOpen == rc.phase = "recv"

\* what the other end sees of the socket of the sender closed: listening,
\* connected, or nothing to close
SndSocketClosed ==
    CASE conn.state = "pending" -> Broken
      [] conn.state = "up" -> [conn EXCEPT !.sndOpen = FALSE]
      [] OTHER -> conn

\* the end of the receiver closed: nobody reads the data any more
RcvSocketClosed ==
    IF conn.state \in {"pending", "up"} /\ RcvOpen
    THEN [conn EXCEPT !.data = <<>>] ELSE conn

-----------------------------------------------------------------------------
(* Mutant: the timer goes on.                                              *)
SndClosesNotTimer(status) ==
    /\ snd' = [snd EXCEPT !.status = status, !.sock = "none"]
    /\ sc' = NoSndChild
    /\ spipe' = <<>>
    /\ conn' = SndSocketClosed

(* xfer_close with an ended status: hooks removed, child killed (with its   *)
(* pipe), sockets closed.  An empty file of the receiver is deleted: no     *)
(* file and an empty one are the same here.                                 *)
SndCloses(status) ==
    /\ snd' = [snd EXCEPT !.status = status, !.sock = "none", !.timer = FALSE]
    /\ sc' = NoSndChild
    /\ spipe' = <<>>
    /\ conn' = SndSocketClosed

RcvCloses(status) ==
    /\ rcv' = [rcv EXCEPT !.status = status]
    /\ rc' = NoRcvChild
    /\ rpipe' = <<>>
    /\ verdict' = IF status = "done" THEN "done" ELSE "failed"
    /\ conn' = RcvSocketClosed

-----------------------------------------------------------------------------
(* The users.                                                              *)

\* /dcc send: xfer_new on both sides.  The receiver looks for the name of its
\* local file: a part of the file is resumed, else a new name is taken.  The
\* offer travels behind the messages sent before
Offer ==
    /\ offer < MaxOffers /\ verdict # "done"
    /\ snd.status = "none" /\ rcv.status = "none"
    /\ \A msg \in irc : msg.cmd # "ACCEPT"
    /\ offer' = offer + 1
    /\ snd' = [status |-> "connecting", sock |-> "listen", pos |-> 0, timer |-> TRUE]
    /\ disk' = IF autoResume /\ Len(disk) < Size THEN disk ELSE <<>>
    /\ rcv' = [status |-> "waiting", start |-> Len(disk')]
    /\ conn' = NoConn
    /\ UNCHANGED <<options, sc, spipe, rc, rpipe, irc, verdict, gaveUp, disturbed, bounds>>

\* xfer_network_recv_file_fork: without a child the transfer is closed, then
\* xfer_network_connect_init says "connecting" all the same
Forks(start) ==
    \/ /\ rcv' = [status |-> "connecting", start |-> start]
       /\ rc' = [NoRcvChild EXCEPT !.phase = "connect", !.pos = start]
       /\ rpipe' = <<>>
       /\ disk' = IF start > 0 THEN disk ELSE <<>>
       /\ UNCHANGED <<verdict, faults>>
    \/ /\ faults < MaxFaults
       /\ faults' = faults + 1
       /\ rcv' = [status |-> "connecting", start |-> start]
       /\ verdict' = "failed"
       /\ UNCHANGED <<rc, rpipe, disk>>

\* xfer_network_accept: to resume, the sender is asked first
Accept ==
    /\ rcv.status = "waiting"
    /\ IF rcv.start > 0
       THEN /\ rcv' = [rcv EXCEPT !.status = "connecting"]
            /\ irc' = irc \cup {[cmd |-> "RESUME", port |-> offer, pos |-> rcv.start]}
            /\ UNCHANGED <<rc, rpipe, disk, verdict, faults>>
       ELSE Forks(0) /\ UNCHANGED irc
    /\ UNCHANGED <<options, offer, sender, conn, gaveUp, disturbed, cancels>>

\* "c" in the buffer of transfers
SndCancel ==
    /\ cancels < MaxCancels /\ snd.status \notin Ended \cup {"none"}
    /\ SndCloses("aborted")
    /\ cancels' = cancels + 1
    /\ UNCHANGED <<options, offer, receiver, irc, gaveUp, disturbed, faults>>

RcvCancel ==
    /\ cancels < MaxCancels /\ rcv.status \notin Ended \cup {"none"}
    /\ RcvCloses("aborted")
    /\ cancels' = cancels + 1
    /\ UNCHANGED <<options, offer, sender, disk, irc, gaveUp, disturbed, faults>>

\* "r" or "p" in the buffer of transfers (xfer_free)
SndRemove ==
    /\ snd.status \in Ended
    /\ snd' = [snd EXCEPT !.status = "none"]
    /\ gaveUp' = FALSE
    /\ UNCHANGED <<options, offer, sc, spipe, receiver, conn, irc, disturbed, bounds>>

RcvRemove ==
    /\ rcv.status \in Ended
    /\ rcv' = [rcv EXCEPT !.status = "none"]
    /\ UNCHANGED <<options, offer, sender, rc, rpipe, disk, verdict, conn, irc,
                   gaveUp, disturbed, bounds>>

-----------------------------------------------------------------------------
(* Messages.  xfer_search compares the port last, and where it means to     *)
(* compare the status it assigns it ("ptr_xfer->status = status").          *)
Searched(x) == IF x.status = "none" THEN x ELSE [x EXCEPT !.status = "connecting"]
Found(x, msg) == x.status # "none" /\ msg.port = offer
Disturbs(x) == x.status \notin {"none", "connecting"}

\* mutant: the sender accepts, and sends from the beginning
GetResumeIgnored(msg) ==
    /\ msg \in irc /\ msg.cmd = "RESUME"
    /\ snd' = Searched(snd)
    /\ irc' = IF Found(snd, msg)
              THEN (irc \ {msg}) \cup {[msg EXCEPT !.cmd = "ACCEPT"]} ELSE irc \ {msg}
    /\ disturbed' = (disturbed \/ Disturbs(snd))
    /\ UNCHANGED <<options, offer, sc, spipe, receiver, conn, gaveUp, bounds>>

\* xfer_accept_resume_cb
GetResume(msg) ==
    /\ msg \in irc /\ msg.cmd = "RESUME"
    /\ IF Found(snd, msg)
       THEN /\ snd' = [Searched(snd) EXCEPT !.pos = msg.pos]
            /\ irc' = (irc \ {msg}) \cup {[msg EXCEPT !.cmd = "ACCEPT"]}
       ELSE /\ snd' = Searched(snd)
            /\ irc' = irc \ {msg}
    /\ disturbed' = (disturbed \/ Disturbs(snd))
    /\ UNCHANGED <<options, offer, sc, spipe, receiver, conn, gaveUp, bounds>>

\* xfer_start_resume_cb
GetAccept(msg) ==
    /\ msg \in irc /\ msg.cmd = "ACCEPT"
    /\ irc' = irc \ {msg}
    /\ IF Found(rcv, msg)
       THEN Forks(msg.pos)
       ELSE /\ rcv' = Searched(rcv)
            /\ UNCHANGED <<rc, rpipe, disk, verdict, faults>>
    /\ disturbed' = (disturbed \/ Disturbs(rcv))
    /\ UNCHANGED <<options, offer, sender, conn, gaveUp, cancels>>

-----------------------------------------------------------------------------
(* The main process of the sender.                                         *)

\* xfer_network_fd_cb and xfer_network_send_file_fork
SndAccepts ==
    /\ snd.sock = "listen" /\ snd.status = "connecting" /\ conn.state = "pending"
    /\ \/ /\ snd' = [snd EXCEPT !.status = "active", !.sock = "conn"]
          /\ sc' = [NoSndChild EXCEPT !.on = TRUE, !.pos = snd.pos, !.ack = snd.pos]
          /\ conn' = [conn EXCEPT !.state = "up", !.sndOpen = TRUE]
          /\ UNCHANGED <<spipe, faults>>
       \/ /\ faults < MaxFaults
          /\ faults' = faults + 1
          /\ SndCloses("failed")
    /\ UNCHANGED <<options, offer, receiver, irc, gaveUp, disturbed, cancels>>

\* mutant: the status tested is the one of a chat
TimeoutOfChat ==
    /\ snd.timer
    /\ IF snd.status = "waiting"
       THEN SndCloses("failed")
       ELSE /\ snd' = [snd EXCEPT !.timer = FALSE]
            /\ UNCHANGED <<sc, spipe, conn>>
    /\ UNCHANGED <<options, offer, receiver, irc, gaveUp, disturbed, bounds>>

\* xfer_network_timer_cb, called once: the timer is not removed by "active"
Timeout ==
    /\ snd.timer
    /\ IF snd.status = "connecting"
       THEN SndCloses("failed")
       ELSE /\ snd' = [snd EXCEPT !.timer = FALSE]
            /\ UNCHANGED <<sc, spipe, conn>>
    /\ UNCHANGED <<options, offer, receiver, irc, gaveUp, disturbed, bounds>>

\* xfer_network_child_read_cb
SndReadsPipe ==
    /\ spipe # <<>>
    /\ IF Head(spipe) = "active"
       THEN /\ spipe' = Tail(spipe)
            /\ snd' = [snd EXCEPT !.status = IF @ = "connecting" THEN "active" ELSE @]
            /\ UNCHANGED <<sc, conn>>
       ELSE SndCloses(Head(spipe))
    /\ UNCHANGED <<options, offer, receiver, irc, gaveUp, disturbed, bounds>>

RcvReadsPipe ==
    /\ rpipe # <<>>
    /\ IF Head(rpipe) = "active"
       THEN /\ rpipe' = Tail(rpipe)
            /\ rcv' = [rcv EXCEPT !.status = IF @ = "connecting" THEN "active" ELSE @]
            /\ UNCHANGED <<rc, verdict, conn>>
       ELSE RcvCloses(Head(rpipe))
    /\ UNCHANGED <<options, offer, sender, disk, irc, gaveUp, disturbed, bounds>>

-----------------------------------------------------------------------------
(* The child of the sender (xfer_dcc_send_file_child).                     *)

\* xfer_network_write_pipe, then the child exits; the main process still holds
\* the socket
SndExits(status) ==
    /\ spipe' = Append(spipe, status)
    /\ sc' = [sc EXCEPT !.on = FALSE]

SndChild == sc.on /\ UNCHANGED <<options, offer, snd, receiver, irc, disturbed, bounds>>

\* nothing to send (an empty file)
NothingToSend ==
    /\ SndChild
    /\ sc.pos >= Size /\ ~sc.sentOk
    /\ SndExits("done")
    /\ UNCHANGED <<conn, gaveUp>>

\* mutant: any acknowledgement does once all is sent
ReadAnyAck ==
    /\ SndChild
    /\ sc.pos > sc.ack /\ conn.acks # <<>>
    /\ conn' = [conn EXCEPT !.acks = Tail(@)]
    /\ IF sc.pos >= Size
       THEN SndExits("done")
       ELSE sc' = [sc EXCEPT !.ack = Head(conn.acks)] /\ UNCHANGED spipe
    /\ UNCHANGED gaveUp

\* all acknowledgements received are read while some are due
ReadAck ==
    /\ SndChild
    /\ sc.pos > sc.ack /\ conn.acks # <<>>
    /\ conn' = [conn EXCEPT !.acks = Tail(@)]
    /\ IF sc.pos >= Size /\ Head(conn.acks) >= Size
       THEN SndExits("done")
       ELSE sc' = [sc EXCEPT !.ack = Head(conn.acks)] /\ UNCHANGED spipe
    /\ UNCHANGED gaveUp

\* the main process is told when the last block is sent (and every second)
SendBlock ==
    /\ SndChild
    /\ sc.pos > sc.ack => conn.acks = <<>>
    /\ sc.pos < Size /\ (fast \/ sc.pos <= sc.ack)
    /\ conn.state = "up" /\ RcvOpen
    /\ \E n \in 1..Min({Block, Size - sc.pos, Room - Len(conn.data)}) :
          /\ conn' = [conn EXCEPT !.data = @ \o SubSeq(file, sc.pos + 1, sc.pos + n)]
          /\ sc' = [sc EXCEPT !.pos = @ + n, !.sentOk = sc.pos + n >= Size]
          /\ IF sc.pos + n >= Size THEN spipe' = Append(spipe, "active")
             ELSE spipe' \in {spipe} \cup (IF spipe = <<>> THEN {<<"active">>} ELSE {})
    /\ UNCHANGED gaveUp

\* no acknowledgement to read or no block to send: the other end is gone
SndError ==
    /\ SndChild
    /\ conn.state = "broken" \/ ~RcvOpen
    /\ \/ sc.pos > sc.ack /\ conn.acks = <<>>
       \/ sc.pos < Size /\ sc.pos <= sc.ack
    /\ SndExits("failed")
    /\ UNCHANGED <<conn, gaveUp>>

\* all was sent for more than two seconds
GiveUp ==
    /\ SndChild
    /\ sc.sentOk /\ conn.acks = <<>>
    /\ SndExits("done")
    /\ gaveUp' = TRUE
    /\ UNCHANGED conn

-----------------------------------------------------------------------------
(* The child of the receiver (xfer_dcc_recv_file_child).                   *)
RcvChild == UNCHANGED <<options, offer, sender, rcv, verdict, irc, gaveUp, disturbed, bounds>>

\* exits, with its socket
RcvExits(status) ==
    /\ rpipe' = Append(rpipe, status)
    /\ rc' = NoRcvChild

RcvConnects ==
    /\ RcvChild
    /\ rc.phase = "connect"
    /\ IF snd.sock = "listen" /\ conn.state = "none"
       THEN /\ conn' = [NoConn EXCEPT !.state = "pending"]
            /\ rc' = [rc EXCEPT !.phase = "recv"]
            /\ rpipe' = Append(rpipe, "active")
       ELSE RcvExits("failed") /\ UNCHANGED conn
    /\ UNCHANGED disk

\* xfer_dcc_recv_file_send_ack: the position, in 32 bits
Acked(pos) == Append(conn.acks, pos % AckModulo)

\* some of what is in the connection is written to disk
RecvBlock ==
    /\ RcvChild
    /\ RcvOpen /\ conn.state = "up"
    /\ \E n \in 1..Len(conn.data) :
          /\ disk' = disk \o SubSeq(conn.data, 1, n)
          /\ IF rc.pos + n >= Size
             THEN /\ conn' = [conn EXCEPT !.data = <<>>, !.acks = Acked(rc.pos + n)]
                  /\ RcvExits("done")
             ELSE /\ conn' = [conn EXCEPT !.data = SubSeq(@, n + 1, Len(@))]
                  /\ rc' = [rc EXCEPT !.pos = @ + n]
                  /\ rpipe' \in {rpipe} \cup (IF rpipe = <<>> THEN {<<"active">>} ELSE {})

\* nothing more to read: the position reached is acknowledged.  There is room:
\* the sender reads all acknowledgements before it sends a block (TypeOK)
SendAck ==
    /\ RcvChild
    /\ RcvOpen /\ conn.state = "up" /\ conn.data = <<>>
    /\ rc.pos > rc.lastAck
    /\ conn' = [conn EXCEPT !.acks = Acked(rc.pos)]
    /\ rc' = [rc EXCEPT !.lastAck = rc.pos]
    /\ UNCHANGED <<rpipe, disk>>

\* the connection is closed by the sender (which is how an empty file ends),
\* or broken
RecvEnd ==
    /\ RcvChild
    /\ RcvOpen
    /\ \/ /\ conn.state = "up" /\ ~conn.sndOpen /\ conn.data = <<>>
          /\ RcvExits(IF rc.pos >= Size THEN "done" ELSE "failed")
       \/ conn.state = "broken" /\ RcvExits("failed")
    /\ UNCHANGED <<conn, disk>>

-----------------------------------------------------------------------------
(* The connection and the IRC server.                                      *)

\* an acknowledgement arrives where the socket is closed: the connection is
\* reset, and what is not received yet is lost
Reset ==
    /\ conn.state = "up" /\ ~conn.sndOpen /\ RcvOpen /\ conn.acks # <<>>
    /\ conn' = Broken
    /\ UNCHANGED <<options, offer, sender, receiver, irc, gaveUp, disturbed, bounds>>

Break ==
    /\ faults < MaxFaults
    /\ faults' = faults + 1
    /\ conn.state \in {"pending", "up"}
    /\ conn' = Broken
    /\ UNCHANGED <<options, offer, sender, receiver, irc, gaveUp, disturbed, cancels>>

LoseMessage(msg) ==
    /\ faults < MaxFaults
    /\ faults' = faults + 1
    /\ msg \in irc
    /\ irc' = irc \ {msg}
    /\ UNCHANGED <<options, offer, sender, receiver, conn, gaveUp, disturbed, cancels>>

-----------------------------------------------------------------------------
Init ==
    /\ \E n \in Sizes : file = [i \in 1..n |-> i]
    /\ fast \in BOOLEAN /\ autoResume \in BOOLEAN
    /\ offer = 0
    /\ snd = [status |-> "none", sock |-> "none", pos |-> 0, timer |-> FALSE]
    /\ sc = NoSndChild
    /\ rcv = [status |-> "none", start |-> 0]
    /\ rc = NoRcvChild
    /\ spipe = <<>> /\ rpipe = <<>>
    /\ conn = NoConn
    /\ irc = {}
    /\ disk = <<>>
    /\ verdict = "none"
    /\ gaveUp = FALSE /\ disturbed = FALSE
    /\ cancels = 0 /\ faults = 0

Users == Offer \/ Accept \/ SndCancel \/ RcvCancel \/ SndRemove \/ RcvRemove
Messages == \E msg \in irc : GetResume(msg) \/ GetAccept(msg)
MainLoops == SndAccepts \/ Timeout \/ SndReadsPipe \/ RcvReadsPipe
SndChildStep == NothingToSend \/ ReadAck \/ SendBlock \/ SndError \/ GiveUp
RcvChildStep == RcvConnects \/ RecvBlock \/ SendAck \/ RecvEnd
Network == Reset \/ Break \/ \E msg \in irc : LoseMessage(msg)

Next == Users \/ Messages \/ MainLoops \/ SndChildStep \/ RcvChildStep \/ Network

\* Processes go on, pipes are read, timers run; what users and the network do
\* is up to them.
Fairness ==
    /\ WF_vars(SndAccepts) /\ WF_vars(Timeout)
    /\ WF_vars(SndReadsPipe) /\ WF_vars(RcvReadsPipe)
    /\ WF_vars(SndChildStep) /\ WF_vars(RcvChildStep)

Spec == Init /\ [][Next]_vars
FairSpec == Spec /\ Fairness

-----------------------------------------------------------------------------
(* Properties.                                                             *)
TypeOK ==
    /\ offer \in 0..MaxOffers
    /\ snd.status \in Status /\ snd.sock \in {"none", "listen", "conn"}
    /\ snd.pos \in 0..Size /\ snd.timer \in BOOLEAN
    /\ sc.on \in BOOLEAN /\ sc.pos \in 0..Size /\ sc.ack \in 0..Size
    /\ rcv.status \in Status /\ rcv.start \in 0..Size
    /\ rc.phase \in {"none", "connect", "recv"} /\ rc.pos \in 0..Size
    /\ \A p \in {spipe, rpipe} : \A i \in DOMAIN p : p[i] \in {"active", "done", "failed"}
    /\ conn.state \in {"none", "pending", "up", "broken"}
    /\ Len(conn.data) <= Room /\ Len(conn.acks) <= 2
    /\ disk \in Seq(1..Size)
    /\ verdict \in {"none", "failed", "done"}

\* The local file is a beginning of the file sent, "received: OK" is only said
\* of all of it and is final (recv of the child, resume, xfer_close), through
\* failures, resumed transfers and users who cancel.
Transfer == INSTANCE FileTransfer WITH copy <- disk
ImplementsTransfer == Transfer!Spec

\* When the sender is told "sent: OK", the receiver has the file, unless the
\* sender stopped waiting for acknowledgements (2-second rule of
\* xfer_dcc_send_file_child).
SentIsDelivered == snd.status = "done" /\ ~gaveUp => disk = file

\* Without a fault of the network, the sender is not told "FAILED" for a file
\* that was received, if its size fits in an acknowledgement.
BothAgree ==
    verdict = "done" /\ Size < AckModulo /\ faults = 0 /\ ~disturbed
        => snd.status # "failed"

\* A transfer that has ended keeps nothing: no child, no socket, no timer,
\* nothing in the pipe (xfer_close, xfer_network_child_kill).
NothingLeftBehind ==
    /\ snd.status \in Ended => ~sc.on /\ snd.sock = "none" /\ ~snd.timer /\ spipe = <<>>
    /\ rcv.status \in Ended => rc.phase = "none" /\ rpipe = <<>>

\* Files too long for the acknowledgements, sent without "fast_send": the
\* sender waits for ever for an acknowledgement it cannot get.
Stalls == ~fast /\ Size > AckModulo

\* An offer is taken up, refused or times out, and a transfer that runs comes
\* to an end on both sides.
TransfersEnd ==
    /\ snd.status \in {"connecting", "active"} ~>
           snd.status \in Ended \cup {"none"} \/ disturbed \/ Stalls
    /\ rc.phase # "none" ~> rcv.status \in Ended \cup {"none"} \/ disturbed \/ Stalls

\* What was cancelled, failed or done does not start again by itself
\* (xfer_search, xfer_start_resume_cb, xfer_accept_resume_cb).
EndedStaysEnded ==
    [][/\ snd.status \in Ended => snd'.status \in {snd.status, "none"}
       /\ rcv.status \in Ended => rcv'.status \in {rcv.status, "none"}]_vars
-----------------------------------------------------------------------------
(* Conjunctions of the properties above, as the runs check them.           *)

\* Sender, receiver and their children keep their types, and what has ended
\* leaves no child, socket, timer or message behind (xfer_close,
\* xfer_network_child_kill).
TransferSound == TypeOK /\ NothingLeftBehind

\* The two ends tell their users the same: "sent: OK" means received, and what
\* was received is not called failed without a fault
\* (xfer_dcc_send_file_child, xfer_dcc_recv_file_child).
EndsAgree == SentIsDelivered /\ BothAgree
=============================================================================
