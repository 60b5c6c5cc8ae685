----------------------------- MODULE XferProofs -----------------------------
(***************************************************************************)
(* Xfer implements FileTransfer, and its two ends agree, for files of any   *)
(* size, any blocks, any capacity of the connection, any width of the       *)
(* acknowledgements and any number of offers, faults and cancelled          *)
(* transfers.                                                               *)
(***************************************************************************)
EXTENDS Xfer, SequenceTheorems, TLAPS

-----------------------------------------------------------------------------
(* The inductive invariant.                                                *)
Statuses == {"active", "done", "failed"}

Typed ==
    /\ file \in Seq(Nat) /\ disk \in Seq(Nat)
    /\ offer \in Nat
    /\ snd \in [status : Status, sock : {"none", "listen", "conn"}, pos : Nat, timer : BOOLEAN]
    /\ sc \in [on : BOOLEAN, pos : Nat, ack : Nat, sentOk : BOOLEAN]
    /\ rcv \in [status : Status, start : Nat]
    /\ rc \in [phase : {"none", "connect", "recv"}, pos : Nat, lastAck : Nat]
    /\ spipe \in Seq(Statuses) /\ rpipe \in Seq(Statuses)
    /\ conn \in [state : {"none", "pending", "up", "broken"}, sndOpen : BOOLEAN,
                 data : Seq(Nat), acks : Seq(Nat)]
    /\ irc \subseteq [cmd : {"RESUME", "ACCEPT"}, port : Nat, pos : Nat]
    /\ verdict \in {"none", "failed", "done"}

\* s holds the bytes of the file that follow the first k.
Follows(s, k) ==
    /\ k + Len(s) <= Size
    /\ \A i \in 1..Len(s) : s[i] = file[k + i]

\* An ended transfer has no child, and a child of the sender has a connection.
SenderQuiet ==
    /\ snd.status \in Ended \cup {"none"} => ~sc.on
    /\ sc.on => conn.state \in {"up", "broken"}

ReceiverQuiet ==
    rcv.status \in Ended \cup {"none", "waiting"} => rc.phase = "none" /\ rpipe = <<>>

\* No message of the current offer is on its way.
NoMessage == \A msg \in irc : msg.port # offer

Waiting ==
    rcv.status = "waiting" =>
        snd.pos = 0 /\ rcv.start = Len(disk) /\ NoMessage /\ verdict # "done"

\* There is one message at most of the current offer; before it arrives no child
\* runs, and the position in it is the size of the local file.
MessagesSound ==
    /\ \A msg \in irc : msg.port <= offer
    /\ \A msg \in irc : msg.cmd = "ACCEPT" => msg.port = offer /\ msg.pos = snd.pos
    /\ \A m1, m2 \in irc : m1.port = offer /\ m2.port = offer => m1 = m2
    /\ \A msg \in irc : msg.port = offer =>
          rc.phase = "none" /\ rpipe = <<>> /\ verdict # "done" /\ msg.pos = Len(disk)

\* The child of the receiver: the disk and the data in the connection are
\* consecutive parts of the file, and the child of the sender goes on there.
Receiving ==
    rc.phase # "none" =>
        /\ rc.pos = Len(disk) /\ verdict # "done" /\ NoMessage
        /\ \A i \in 1..Len(rpipe) : rpipe[i] # "done"
        /\ rc.phase = "connect" \/ conn.state = "pending" => snd.pos = rc.pos
        /\ rc.phase = "recv" /\ conn.state = "pending" => conn.data = <<>>
        /\ rc.phase = "recv" /\ conn.state = "up" =>
              /\ Follows(conn.data, Len(disk))
              /\ sc.on => sc.pos = Len(disk) + Len(conn.data)

\* "done" is in the pipe, then said, when the file is on disk.
SaidWhenWhole ==
    /\ (\E i \in 1..Len(rpipe) : rpipe[i] = "done") => disk = file
    /\ verdict = "done" => rcv.status \in {"done", "none"}

IInv ==
    /\ Typed /\ Follows(disk, 0)
    /\ SenderQuiet /\ ReceiverQuiet /\ Waiting /\ MessagesSound /\ Receiving /\ SaidWhenWhole

-----------------------------------------------------------------------------
(* Parts of the file.                                                      *)
LEMMA NothingFollows ==
    ASSUME file \in Seq(Nat), NEW k \in Nat, k <= Size
    PROVE  Follows(<<>>, k)
  <1>1. Len(<<>>) = 0
    BY EmptySeq
  <1>2. Size \in Nat
    BY LenProperties DEF Size
  <1> QED
    BY <1>1, <1>2 DEF Follows

LEMMA BeginningOfFile ==
    ASSUME file \in Seq(Nat), NEW s \in Seq(Nat), Follows(s, 0)
    PROVE  /\ s = SubSeq(file, 1, Len(s))
           /\ Len(s) >= Size => s = file
  <1>1. Len(s) \in Nat /\ Len(file) \in Nat /\ Len(s) <= Len(file)
    BY LenProperties DEF Follows, Size
  <1>2. \A i \in 1..Len(s) : s[i] = file[i]
    BY <1>1 DEF Follows
  <1>3. \A i \in 1..Len(s) : file[i] \in Nat
    BY <1>1, ElementOfSeq
  <1>4. /\ SubSeq(file, 1, Len(s)) \in Seq(Nat)
        /\ Len(SubSeq(file, 1, Len(s))) = Len(s)
        /\ \A i \in 1..Len(s) : SubSeq(file, 1, Len(s))[i] = file[i]
    BY <1>1, <1>3, SubSeqProperties
  <1>5. s = SubSeq(file, 1, Len(s))
    BY <1>2, <1>4, SeqEqual
  <1>6. ASSUME Len(s) >= Size PROVE s = file
    <2>1. Len(s) = Len(file)
      BY <1>1, <1>6 DEF Size
    <2> QED
      BY <1>2, <2>1, SeqEqual
  <1> QED
    BY <1>5, <1>6

LEMMA Joined ==
    ASSUME file \in Seq(Nat), NEW s \in Seq(Nat), NEW t \in Seq(Nat), NEW k \in Nat,
           Follows(s, k), Follows(t, k + Len(s))
    PROVE  s \o t \in Seq(Nat) /\ Len(s \o t) = Len(s) + Len(t) /\ Follows(s \o t, k)
  <1>1. Len(s) \in Nat /\ Len(t) \in Nat /\ Len(file) \in Nat
    BY LenProperties
  <1>2. /\ s \o t \in Seq(Nat) /\ Len(s \o t) = Len(s) + Len(t)
        /\ \A i \in 1..Len(s) + Len(t) :
              (s \o t)[i] = IF i <= Len(s) THEN s[i] ELSE t[i - Len(s)]
    BY ConcatProperties
  <1>3. ASSUME NEW i \in 1..Len(s) + Len(t)
        PROVE  (s \o t)[i] = file[k + i]
    <2>1. CASE i <= Len(s)
      <3>1. i \in 1..Len(s)
        BY <1>1, <2>1
      <3> QED
        BY <1>2, <2>1, <3>1 DEF Follows
    <2>2. CASE i > Len(s)
      <3>1. i - Len(s) \in 1..Len(t) /\ k + Len(s) + (i - Len(s)) = k + i /\ ~(i <= Len(s))
        BY <1>1, <2>2
      <3>2. t[i - Len(s)] = file[k + Len(s) + (i - Len(s))]
        BY <3>1 DEF Follows
      <3> QED
        BY <1>2, <3>1, <3>2
    <2> QED
      BY <1>1, <2>1, <2>2
  <1> QED
    BY <1>1, <1>2, <1>3 DEF Follows

\* What is left of the data when the first n are taken, and what is taken.
LEMMA Split ==
    ASSUME file \in Seq(Nat), NEW s \in Seq(Nat), NEW k \in Nat, Follows(s, k),
           NEW n \in 0..Len(s)
    PROVE  /\ SubSeq(s, 1, n) \in Seq(Nat) /\ Len(SubSeq(s, 1, n)) = n
           /\ Follows(SubSeq(s, 1, n), k)
           /\ SubSeq(s, n + 1, Len(s)) \in Seq(Nat)
           /\ Len(SubSeq(s, n + 1, Len(s))) = Len(s) - n
           /\ Follows(SubSeq(s, n + 1, Len(s)), k + n)
  <1>1. Len(s) \in Nat /\ Len(file) \in Nat
    BY LenProperties
  <1>2. \A i \in 1..Len(s) : s[i] \in Nat /\ s[i] = file[k + i]
    BY ElementOfSeq DEF Follows
  <1>3. /\ SubSeq(s, 1, n) \in Seq(Nat) /\ Len(SubSeq(s, 1, n)) = n
        /\ \A i \in 1..n : SubSeq(s, 1, n)[i] = s[i]
    <2>1. \A i \in 1..n : s[i] \in Nat
      BY <1>1, <1>2
    <2> QED
      BY <1>1, <2>1, SubSeqProperties
  <1>4. /\ SubSeq(s, n + 1, Len(s)) \in Seq(Nat)
        /\ Len(SubSeq(s, n + 1, Len(s))) = Len(s) - n
        /\ \A i \in 1..Len(s) - n : SubSeq(s, n + 1, Len(s))[i] = s[n + i]
    <2>1. \A i \in (n + 1)..Len(s) : s[i] \in Nat
      BY <1>1, <1>2
    <2>2. /\ SubSeq(s, n + 1, Len(s)) \in Seq(Nat)
          /\ Len(SubSeq(s, n + 1, Len(s))) =
                IF n + 1 <= Len(s) THEN Len(s) - (n + 1) + 1 ELSE 0
          /\ \A i \in 1..(Len(s) - (n + 1) + 1) : SubSeq(s, n + 1, Len(s))[i] = s[n + 1 + i - 1]
      BY <1>1, <2>1, SubSeqProperties
    <2>3. \A i \in 1..Len(s) - n : n + 1 + i - 1 = n + i /\ i \in 1..(Len(s) - (n + 1) + 1)
      BY <1>1
    <2> QED
      BY <1>1, <2>2, <2>3
  <1>5. \A i \in 1..n : SubSeq(s, 1, n)[i] = file[k + i]
    BY <1>1, <1>2, <1>3
  <1>6. \A i \in 1..Len(s) - n : SubSeq(s, n + 1, Len(s))[i] = file[k + n + i]
    <2>1. \A i \in 1..Len(s) - n : n + i \in 1..Len(s) /\ k + (n + i) = k + n + i
      BY <1>1
    <2> QED
      BY <1>2, <1>4, <2>1
  <1>7. k + Len(s) <= Len(file)
    BY DEF Follows, Size
  <1> DEFINE a == SubSeq(s, 1, n)
             b == SubSeq(s, n + 1, Len(s))
  <1> HIDE DEF a, b
  <1>8. /\ Len(a) = n /\ \A i \in 1..n : a[i] = file[k + i]
        /\ Len(b) = Len(s) - n /\ \A i \in 1..Len(s) - n : b[i] = file[k + n + i]
    BY <1>3, <1>4, <1>5, <1>6 DEF a, b
  <1>9. k + Len(a) <= Len(file) /\ k + n + Len(b) <= Len(file)
    BY <1>1, <1>7, <1>8
  <1>10. Follows(a, k) /\ Follows(b, k + n)
    BY <1>8, <1>9 DEF Follows, Size
  <1> QED
    BY <1>3, <1>4, <1>10 DEF a, b

\* A block read from the file.
LEMMA BlockFollows ==
    ASSUME file \in Seq(Nat), NEW k \in Nat, NEW n \in Nat, k + n <= Size
    PROVE  /\ SubSeq(file, k + 1, k + n) \in Seq(Nat)
           /\ Len(SubSeq(file, k + 1, k + n)) = n
           /\ Follows(SubSeq(file, k + 1, k + n), k)
  <1>1. Len(file) \in Nat /\ k + n <= Len(file)
    BY LenProperties DEF Size
  <1>2. \A i \in (k + 1)..(k + n) : file[i] \in Nat
    BY <1>1, ElementOfSeq
  <1>3. /\ SubSeq(file, k + 1, k + n) \in Seq(Nat)
        /\ Len(SubSeq(file, k + 1, k + n)) =
              IF k + 1 <= k + n THEN k + n - (k + 1) + 1 ELSE 0
        /\ \A i \in 1..(k + n - (k + 1) + 1) : SubSeq(file, k + 1, k + n)[i] = file[k + 1 + i - 1]
    BY <1>1, <1>2, SubSeqProperties
  <1>4. k + n - (k + 1) + 1 = n /\ \A i \in 1..n : k + 1 + i - 1 = k + i
    BY <1>1
  <1> DEFINE b == SubSeq(file, k + 1, k + n)
  <1>5. b \in Seq(Nat) /\ Len(b) = n /\ \A i \in 1..n : b[i] = file[k + i]
    <2>1. Len(b) = n
      BY <1>1, <1>3, <1>4
    <2>2. \A i \in 1..n : b[i] = file[k + 1 + i - 1]
      BY <1>3, <1>4
    <2> QED
      BY <1>3, <1>4, <2>1, <2>2
  <1> HIDE DEF b
  <1>6. Follows(b, k)
    BY <1>1, <1>5 DEF Follows, Size
  <1> QED
    BY <1>5, <1>6 DEF b

-----------------------------------------------------------------------------
(* Steps of the sender, and of the network.                                *)

\* What they leave alone.
ReceiverStays == UNCHANGED <<file, disk, offer, rcv, rc, rpipe, verdict>>

\* A step that moves no data: at most the connection breaks and a message is lost.
LEMMA SenderStep ==
    ASSUME IInv, ReceiverStays, irc' \subseteq irc,
           snd' \in [status : Status, sock : {"none", "listen", "conn"}, pos : Nat, timer : BOOLEAN],
           sc' \in [on : BOOLEAN, pos : Nat, ack : Nat, sentOk : BOOLEAN],
           spipe' \in Seq(Statuses),
           conn' \in [state : {"none", "pending", "up", "broken"}, sndOpen : BOOLEAN,
                      data : Seq(Nat), acks : Seq(Nat)],
           snd'.pos = snd.pos,
           sc'.on => sc.on /\ sc'.pos = sc.pos,
           \/ conn'.state = conn.state /\ conn'.data = conn.data
           \/ conn'.state = "broken",
           snd'.status \in Ended \cup {"none"} => ~sc'.on
    PROVE  IInv'
  <1>1. Typed'
    BY DEF IInv, Typed, ReceiverStays
  <1>2. Follows(disk, 0)' /\ ReceiverQuiet' /\ SaidWhenWhole'
    BY DEF IInv, Follows, Size, ReceiverQuiet, SaidWhenWhole, ReceiverStays
  <1>3. SenderQuiet'
    BY DEF IInv, SenderQuiet
  <1>4. NoMessage => NoMessage'
    BY DEF NoMessage, ReceiverStays
  <1>5. Waiting'
    BY <1>4 DEF IInv, Waiting, ReceiverStays
  <1>6. MessagesSound'
    BY DEF IInv, MessagesSound, ReceiverStays
  <1>7. Receiving'
    BY <1>4 DEF IInv, Receiving, Follows, Size, ReceiverStays
  <1> QED
    BY <1>1, <1>2, <1>3, <1>5, <1>6, <1>7 DEF IInv

LEMMA Constants ==
    /\ NoSndChild \in [on : BOOLEAN, pos : Nat, ack : Nat, sentOk : BOOLEAN] /\ ~NoSndChild.on
    /\ NoRcvChild \in [phase : {"none", "connect", "recv"}, pos : Nat, lastAck : Nat]
    /\ NoRcvChild.phase = "none"
    /\ NoConn \in [state : {"none", "pending", "up", "broken"}, sndOpen : BOOLEAN,
                   data : Seq(Nat), acks : Seq(Nat)]
    /\ NoConn.state = "none" /\ NoConn.data = <<>>
    /\ Broken \in [state : {"none", "pending", "up", "broken"}, sndOpen : BOOLEAN,
                   data : Seq(Nat), acks : Seq(Nat)]
    /\ Broken.state = "broken" /\ Broken.data = <<>>
    /\ <<>> \in Seq(Statuses)
  <1>1. <<>> \in Seq(Nat) /\ <<>> \in Seq(Statuses)
    BY EmptySeq
  <1>2. /\ NoSndChild \in [on : BOOLEAN, pos : Nat, ack : Nat, sentOk : BOOLEAN] /\ ~NoSndChild.on
        /\ NoRcvChild \in [phase : {"none", "connect", "recv"}, pos : Nat, lastAck : Nat]
        /\ NoRcvChild.phase = "none"
    BY DEF NoSndChild, NoRcvChild
  <1>3. /\ NoConn \in [state : {"none", "pending", "up", "broken"}, sndOpen : BOOLEAN,
                       data : Seq(Nat), acks : Seq(Nat)]
        /\ NoConn.state = "none" /\ NoConn.data = <<>>
    BY <1>1 DEF NoConn
  <1>4. /\ Broken \in [state : {"none", "pending", "up", "broken"}, sndOpen : BOOLEAN,
                       data : Seq(Nat), acks : Seq(Nat)]
        /\ Broken.state = "broken" /\ Broken.data = <<>>
    BY <1>3 DEF Broken
  <1> QED
    BY <1>1, <1>2, <1>3, <1>4

LEMMA SndClosesKeeps ==
    ASSUME IInv, NEW status \in Ended, SndCloses(status), ReceiverStays, irc' \subseteq irc
    PROVE  IInv'
  <1>1. snd' \in [status : Status, sock : {"none", "listen", "conn"}, pos : Nat, timer : BOOLEAN]
        /\ snd'.pos = snd.pos
    BY DEF IInv, Typed, SndCloses, Status, Ended
  <1>2. /\ conn' \in [state : {"none", "pending", "up", "broken"}, sndOpen : BOOLEAN,
                      data : Seq(Nat), acks : Seq(Nat)]
        /\ \/ conn'.state = conn.state /\ conn'.data = conn.data
           \/ conn'.state = "broken"
    BY Constants DEF IInv, Typed, SndCloses, SndSocketClosed
  <1>3. sc' = NoSndChild /\ spipe' = <<>>
    BY DEF SndCloses
  <1> QED
    BY <1>1, <1>2, <1>3, Constants, SenderStep

\* The main process of the sender, its user, and the network.
LEMMA SenderMainKeeps ==
    ASSUME IInv,
           SndCancel \/ SndRemove \/ Timeout \/ SndReadsPipe \/ Reset \/ Break
             \/ \E msg \in irc : LoseMessage(msg)
    PROVE  IInv'
  <1>1. ReceiverStays /\ irc' \subseteq irc
    BY DEF ReceiverStays, SndCancel, SndRemove, Timeout, SndReadsPipe, Reset, Break, LoseMessage,
       options, receiver, sender, bounds
  <1>2. ASSUME NEW status \in Ended, SndCloses(status) PROVE IInv'
    BY <1>1, <1>2, SndClosesKeeps
  <1>3. CASE SndCancel
    BY <1>2, <1>3 DEF SndCancel, Ended
  <1>4. CASE SndRemove
    <2>1. /\ UNCHANGED <<sc, spipe, conn>> /\ ~sc.on
          /\ snd' = [snd EXCEPT !.status = "none"]
      BY <1>4 DEF SndRemove, IInv, SenderQuiet
    <2> QED
      BY <1>1, <2>1, SenderStep DEF IInv, Typed, Status
  <1>5. CASE Timeout
    <2>1. CASE SndCloses("failed")
      BY <1>2, <2>1 DEF Ended
    <2>2. CASE snd' = [snd EXCEPT !.timer = FALSE] /\ UNCHANGED <<sc, spipe, conn>>
      BY <1>1, <2>2, SenderStep DEF IInv, Typed, SenderQuiet
    <2> QED
      BY <1>5, <2>1, <2>2 DEF Timeout
  <1>6. CASE SndReadsPipe
    <2>1. Head(spipe) \in Statuses /\ Tail(spipe) \in Seq(Statuses)
      BY <1>6, HeadTailProperties DEF IInv, Typed, SndReadsPipe
    <2>2. CASE Head(spipe) = "active"
      <3>1. /\ spipe' = Tail(spipe) /\ UNCHANGED <<sc, conn>>
            /\ snd' = [snd EXCEPT !.status = IF @ = "connecting" THEN "active" ELSE @]
        BY <1>6, <2>2 DEF SndReadsPipe
      <3> QED
        BY <1>1, <2>1, <3>1, SenderStep DEF IInv, Typed, SenderQuiet, Status, Ended
    <2>3. CASE Head(spipe) # "active"
      <3>1. SndCloses(Head(spipe)) /\ Head(spipe) \in Ended
        BY <1>6, <2>1, <2>3 DEF SndReadsPipe, Statuses, Ended
      <3> QED
        BY <1>2, <3>1
    <2> QED
      BY <2>2, <2>3
  <1>7. CASE Reset \/ Break
    <2>1. UNCHANGED <<snd, sc, spipe>> /\ conn' = Broken
      BY <1>7 DEF Reset, Break, sender
    <2> QED
      BY <1>1, <2>1, Constants, SenderStep DEF IInv, Typed, SenderQuiet
  <1>8. CASE \E msg \in irc : LoseMessage(msg)
    <2>1. UNCHANGED <<snd, sc, spipe, conn>>
      BY <1>8 DEF LoseMessage, sender
    <2> QED
      BY <1>1, <2>1, SenderStep DEF IInv, Typed, SenderQuiet
  <1> QED
    BY <1>3, <1>4, <1>5, <1>6, <1>7, <1>8

\* The child of the sender, but for the blocks it sends.
LEMMA SndChildKeeps ==
    ASSUME IInv, NothingToSend \/ ReadAck \/ SndError \/ GiveUp
    PROVE  IInv'
  <1>1. ReceiverStays /\ irc' \subseteq irc /\ UNCHANGED snd /\ sc.on
    BY DEF ReceiverStays, NothingToSend, ReadAck, SndError, GiveUp, SndChild, options, receiver
  <1>2. /\ conn' \in [state : {"none", "pending", "up", "broken"}, sndOpen : BOOLEAN,
                      data : Seq(Nat), acks : Seq(Nat)]
        /\ conn'.state = conn.state /\ conn'.data = conn.data
    <2>1. CASE UNCHANGED conn
      BY <2>1 DEF IInv, Typed
    <2>2. CASE ReadAck
      <3>1. conn.acks \in Seq(Nat) /\ Tail(conn.acks) \in Seq(Nat)
        BY <2>2, HeadTailProperties DEF ReadAck, IInv, Typed
      <3> QED
        BY <2>2, <3>1 DEF ReadAck, IInv, Typed
    <2> QED
      BY <2>1, <2>2 DEF NothingToSend, SndError, GiveUp
  <1>3. ASSUME NEW status \in {"done", "failed"}, SndExits(status) PROVE IInv'
    <2>1. spipe' \in Seq(Statuses)
      BY <1>3, AppendProperties DEF SndExits, Statuses, IInv, Typed
    <2>2. /\ sc' \in [on : BOOLEAN, pos : Nat, ack : Nat, sentOk : BOOLEAN]
          /\ ~sc'.on
      BY <1>3 DEF SndExits, IInv, Typed
    <2> QED
      BY <1>1, <1>2, <2>1, <2>2, SenderStep DEF IInv, Typed
  <1>4. CASE ReadAck /\ sc' = [sc EXCEPT !.ack = Head(conn.acks)] /\ UNCHANGED spipe
    <2>1. Head(conn.acks) \in Nat
      BY <1>4, HeadTailProperties DEF ReadAck, IInv, Typed
    <2>2. /\ sc' \in [on : BOOLEAN, pos : Nat, ack : Nat, sentOk : BOOLEAN]
          /\ sc'.pos = sc.pos
      BY <1>4, <2>1 DEF IInv, Typed
    <2>3. snd.status \notin Ended \cup {"none"}
      BY <1>1 DEF IInv, SenderQuiet
    <2> QED
      BY <1>1, <1>2, <1>4, <2>2, <2>3, SenderStep DEF IInv, Typed
  <1> QED
    BY <1>3, <1>4 DEF NothingToSend, ReadAck, SndError, GiveUp

\* The sender accepts: what it sends next follows what the receiver has.
LEMMA SndAcceptsKeeps ==
    ASSUME IInv, SndAccepts
    PROVE  IInv'
  <1>1. ReceiverStays /\ UNCHANGED irc
    BY DEF ReceiverStays, SndAccepts, options, receiver
  <1>2. CASE SndCloses("failed")
    BY <1>1, <1>2, SndClosesKeeps DEF Ended
  <1>3. CASE /\ snd' = [snd EXCEPT !.status = "active", !.sock = "conn"]
             /\ sc' = [NoSndChild EXCEPT !.on = TRUE, !.pos = snd.pos, !.ack = snd.pos]
             /\ conn' = [conn EXCEPT !.state = "up", !.sndOpen = TRUE]
             /\ UNCHANGED <<spipe, faults>>
    <2>1. /\ snd' \in [status : Status, sock : {"none", "listen", "conn"}, pos : Nat,
                       timer : BOOLEAN]
          /\ snd'.pos = snd.pos /\ snd'.status = "active"
      BY <1>3 DEF IInv, Typed, Status
    <2>2. /\ sc' \in [on : BOOLEAN, pos : Nat, ack : Nat, sentOk : BOOLEAN]
          /\ sc'.pos = snd.pos
      <3>1. snd.pos \in Nat
        BY DEF IInv, Typed
      <3> QED
        BY <1>3, <3>1, Constants
    <2>3. /\ conn' \in [state : {"none", "pending", "up", "broken"}, sndOpen : BOOLEAN,
                        data : Seq(Nat), acks : Seq(Nat)]
          /\ conn.state = "pending" /\ conn'.state = "up" /\ conn'.data = conn.data
      BY <1>3 DEF IInv, Typed, SndAccepts
    <2>4. Typed'
      BY <1>1, <1>3, <2>1, <2>2, <2>3 DEF IInv, Typed, ReceiverStays
    <2>5. /\ Follows(disk, 0)' /\ ReceiverQuiet' /\ SaidWhenWhole'
          /\ SenderQuiet' /\ Waiting' /\ MessagesSound'
      BY <1>1, <2>1, <2>3 DEF IInv, Follows, Size, ReceiverQuiet, SaidWhenWhole, ReceiverStays,
         SenderQuiet, Waiting, MessagesSound, NoMessage, Ended
    <2>6. Receiving'
      <3>1. CASE rc.phase = "recv"
        <4>1. /\ snd.pos = Len(disk) /\ conn.data = <<>> /\ verdict # "done" /\ NoMessage
              /\ rc.pos = Len(disk) /\ \A i \in 1..Len(rpipe) : rpipe[i] # "done"
          BY <2>3, <3>1 DEF IInv, Receiving
        <4>2. Len(disk) \in Nat /\ Len(disk) <= Size /\ Len(conn.data) = 0
          BY <4>1, LenProperties, EmptySeq DEF IInv, Typed, Follows
        <4>3. Follows(conn.data, Len(disk))
          BY <4>1, <4>2, NothingFollows DEF IInv, Typed
        <4>4. sc'.pos = Len(disk) + Len(conn.data)
          BY <2>2, <4>1, <4>2
        <4> QED
          BY <1>1, <2>3, <3>1, <4>1, <4>3, <4>4
             DEF Receiving, ReceiverStays, NoMessage, Follows, Size
      <3>2. CASE rc.phase # "recv"
        BY <1>1, <2>1, <2>3, <3>2 DEF IInv, Typed, Receiving, ReceiverStays, NoMessage
      <3> QED
        BY <3>1, <3>2
    <2> QED
      BY <2>4, <2>5, <2>6 DEF IInv
  <1> QED
    BY <1>2, <1>3 DEF SndAccepts

\* The least of three integers is one that is no greater than the others.
LEMMA MinFacts ==
    ASSUME NEW a \in Int, NEW b \in Int, NEW c \in Int
    PROVE  Min({a, b, c}) \in Int /\ Min({a, b, c}) <= b
  <1>1. \E x \in {a, b, c} : \A y \in {a, b, c} : x =< y
    <2>1. CASE a <= b /\ a <= c
      BY <2>1
    <2>2. CASE b <= a /\ b <= c
      BY <2>2
    <2>3. CASE c <= a /\ c <= b
      BY <2>3
    <2> QED
      BY <2>1, <2>2, <2>3
  <1>2. Min({a, b, c}) \in {a, b, c} /\ \A y \in {a, b, c} : Min({a, b, c}) =< y
    BY <1>1 DEF Min
  <1> QED
    BY <1>2

LEMMA SendBlockKeeps ==
    ASSUME IInv, SendBlock
    PROVE  IInv'
  <1>1. /\ ReceiverStays /\ UNCHANGED <<irc, snd>>
        /\ sc.on /\ conn.state = "up" /\ rc.phase = "recv" /\ sc.pos < Size
    BY DEF ReceiverStays, SendBlock, SndChild, RcvOpen, options, receiver
  <1>2. PICK n \in 1..Min({Block, Size - sc.pos, Room - Len(conn.data)}) :
          /\ conn' = [conn EXCEPT !.data = @ \o SubSeq(file, sc.pos + 1, sc.pos + n)]
          /\ sc' = [sc EXCEPT !.pos = @ + n, !.sentOk = sc.pos + n >= Size]
          /\ IF sc.pos + n >= Size THEN spipe' = Append(spipe, "active")
             ELSE spipe' \in {spipe} \cup (IF spipe = <<>> THEN {<<"active">>} ELSE {})
    BY DEF SendBlock
  <1>3. /\ Size \in Nat /\ Len(conn.data) \in Nat /\ Len(disk) \in Nat
        /\ sc.pos \in Nat /\ Block \in Int /\ Room \in Int
    BY LenProperties, XferAssumption DEF IInv, Typed, Size
  <1>4. n \in Nat /\ sc.pos + n <= Size
    <2> DEFINE m == Min({Block, Size - sc.pos, Room - Len(conn.data)})
    <2>1. m \in Int /\ m <= Size - sc.pos
      <3>1. Size - sc.pos \in Int /\ Room - Len(conn.data) \in Int
        BY <1>3
      <3> QED
        BY <1>3, <3>1, MinFacts
    <2>2. n \in 1..m
      OBVIOUS
    <2> HIDE DEF m
    <2> QED
      BY <1>3, <2>1, <2>2
  <1> DEFINE block == SubSeq(file, sc.pos + 1, sc.pos + n)
  <1>5. block \in Seq(Nat) /\ Len(block) = n /\ Follows(block, sc.pos)
    BY <1>3, <1>4, BlockFollows DEF IInv, Typed
  <1>6. /\ Follows(conn.data, Len(disk)) /\ sc.pos = Len(disk) + Len(conn.data)
        /\ rc.pos = Len(disk) /\ verdict # "done" /\ NoMessage
        /\ \A i \in 1..Len(rpipe) : rpipe[i] # "done"
    BY <1>1 DEF IInv, Receiving
  <1> HIDE DEF block
  <1>7. /\ conn.data \o block \in Seq(Nat) /\ Len(conn.data \o block) = Len(conn.data) + n
        /\ Follows(conn.data \o block, Len(disk))
    BY <1>3, <1>5, <1>6, Joined DEF IInv, Typed
  <1>8. /\ conn' \in [state : {"none", "pending", "up", "broken"}, sndOpen : BOOLEAN,
                      data : Seq(Nat), acks : Seq(Nat)]
        /\ conn'.data = conn.data \o block /\ conn'.state = "up"
    BY <1>1, <1>2, <1>7 DEF IInv, Typed, block
  <1>9. /\ sc' \in [on : BOOLEAN, pos : Nat, ack : Nat, sentOk : BOOLEAN]
        /\ sc'.on /\ sc'.pos = sc.pos + n
    <2>1. sc.pos + n \in Nat /\ (sc.pos + n >= Size) \in BOOLEAN
      BY <1>3, <1>4
    <2>2. sc' = [sc EXCEPT !.pos = sc.pos + n, !.sentOk = (sc.pos + n >= Size)]
      BY <1>2
    <2> QED
      BY <1>1, <2>1, <2>2 DEF IInv, Typed
  <1>10. spipe' \in Seq(Statuses)
    <2>1. Append(spipe, "active") \in Seq(Statuses) /\ <<"active">> \in Seq(Statuses)
      BY AppendProperties DEF IInv, Typed, Statuses
    <2> QED
      BY <1>2, <2>1 DEF IInv, Typed
  <1>11. Typed'
    BY <1>1, <1>8, <1>9, <1>10 DEF IInv, Typed, ReceiverStays
  <1>12. /\ Follows(disk, 0)' /\ ReceiverQuiet' /\ SaidWhenWhole'
         /\ SenderQuiet' /\ Waiting' /\ MessagesSound'
    BY <1>1, <1>8 DEF IInv, Follows, Size, ReceiverQuiet, SaidWhenWhole, ReceiverStays,
       SenderQuiet, Waiting, MessagesSound, NoMessage
  <1>13. Receiving'
    <2>1. sc'.pos = Len(disk) + Len(conn'.data)
      <3>1. Len(conn'.data) = Len(conn.data) + n
        BY <1>7, <1>8
      <3> QED
        BY <1>3, <1>4, <1>6, <1>9, <3>1
    <2>2. Follows(conn.data, Len(disk))'
      BY <1>1, <1>7, <1>8 DEF ReceiverStays, Follows, Size
    <2> QED
      BY <1>1, <1>6, <1>8, <2>1, <2>2 DEF Receiving, ReceiverStays, NoMessage
  <1> QED
    BY <1>11, <1>12, <1>13 DEF IInv

-----------------------------------------------------------------------------
(* Steps of the receiver.                                                  *)

\* What they leave alone.
SenderStays == UNCHANGED <<file, offer, snd, sc, spipe, irc>>

LEMMA RcvClosesKeeps ==
    ASSUME IInv, NEW status \in Ended, RcvCloses(status), SenderStays, UNCHANGED disk,
           status = "done" => NoMessage
    PROVE  IInv'
  <1>1. rcv' \in [status : Status, start : Nat] /\ rcv'.status = status
    BY DEF IInv, Typed, RcvCloses, Status, Ended
  <1>2. rc' = NoRcvChild /\ rpipe' = <<>> /\ verdict' = IF status = "done" THEN "done" ELSE "failed"
    BY DEF RcvCloses
  <1>3. /\ conn' \in [state : {"none", "pending", "up", "broken"}, sndOpen : BOOLEAN,
                      data : Seq(Nat), acks : Seq(Nat)]
        /\ conn'.state = conn.state
    BY Constants DEF IInv, Typed, RcvCloses, RcvSocketClosed
  <1>4. Typed'
    BY <1>1, <1>2, <1>3, Constants DEF IInv, Typed, SenderStays
  <1>5. Follows(disk, 0)' /\ SenderQuiet' /\ ReceiverQuiet'
    BY <1>1, <1>2, <1>3, Constants
       DEF IInv, Follows, Size, SenderQuiet, ReceiverQuiet, SenderStays
  <1>6. Waiting' /\ Receiving'
    BY <1>1, <1>2, Constants DEF Waiting, Receiving, Ended
  <1>7. MessagesSound'
    BY <1>2, Constants DEF IInv, MessagesSound, NoMessage, SenderStays
  <1>8. SaidWhenWhole'
    <2>1. Len(rpipe') = 0
      BY <1>2, EmptySeq
    <2> QED
      BY <1>1, <1>2, <2>1 DEF SaidWhenWhole
  <1> QED
    BY <1>4, <1>5, <1>6, <1>7, <1>8 DEF IInv

\* What the first status in the pipe says.
LEMMA PipeHead ==
    ASSUME IInv, rpipe # <<>>
    PROVE  /\ Head(rpipe) \in Statuses /\ Tail(rpipe) \in Seq(Statuses)
           /\ \A i \in 1..Len(Tail(rpipe)) : i + 1 \in 1..Len(rpipe) /\ Tail(rpipe)[i] = rpipe[i + 1]
           /\ Head(rpipe) = "done" => disk = file
           /\ NoMessage /\ verdict # "done"
           /\ rcv.status \notin Ended \cup {"none", "waiting"}
  <1>1. /\ Head(rpipe) \in Statuses /\ Tail(rpipe) \in Seq(Statuses)
        /\ Len(Tail(rpipe)) = Len(rpipe) - 1
        /\ \A i \in 1..Len(Tail(rpipe)) : Tail(rpipe)[i] = rpipe[i + 1]
        /\ Len(rpipe) \in Nat \ {0}
    BY HeadTailProperties, EmptySeq DEF IInv, Typed
  <1>2. Head(rpipe) = rpipe[1] /\ 1 \in 1..Len(rpipe)
    BY <1>1 DEF IInv, Typed
  <1>3. \A i \in 1..Len(Tail(rpipe)) : i + 1 \in 1..Len(rpipe)
    BY <1>1
  <1>4. NoMessage
    BY DEF IInv, MessagesSound, NoMessage
  <1>5. rcv.status \notin Ended \cup {"none", "waiting"}
    BY DEF IInv, ReceiverQuiet
  <1>6. verdict # "done"
    BY <1>5 DEF IInv, SaidWhenWhole, Ended
  <1>7. Head(rpipe) = "done" => disk = file
    BY <1>2 DEF IInv, SaidWhenWhole
  <1> QED
    BY <1>1, <1>3, <1>4, <1>5, <1>6, <1>7

LEMMA ReceiverMainKeeps ==
    ASSUME IInv, RcvCancel \/ RcvRemove \/ RcvReadsPipe
    PROVE  IInv'
  <1>1. SenderStays /\ UNCHANGED disk
    BY DEF SenderStays, RcvCancel, RcvRemove, RcvReadsPipe, options, sender
  <1>2. CASE RcvCancel
    BY <1>1, <1>2, RcvClosesKeeps DEF RcvCancel, Ended
  <1>3. CASE RcvRemove
    <2>1. /\ UNCHANGED <<rc, rpipe, verdict, conn>> /\ rcv.status \in Ended
          /\ rcv' = [rcv EXCEPT !.status = "none"]
      BY <1>3 DEF RcvRemove
    <2>2. rcv' \in [status : Status, start : Nat] /\ rcv'.status = "none"
      BY <2>1 DEF IInv, Typed, Status
    <2>3. Typed'
      BY <1>1, <2>1, <2>2 DEF IInv, Typed, SenderStays
    <2>4. /\ Follows(disk, 0)' /\ SenderQuiet' /\ ReceiverQuiet' /\ Waiting' /\ MessagesSound'
          /\ SaidWhenWhole'
      BY <1>1, <2>1, <2>2 DEF IInv, Follows, Size, SenderQuiet, ReceiverQuiet, Waiting,
         MessagesSound, SaidWhenWhole, SenderStays
    <2>5. Receiving'
      BY <1>1, <2>1 DEF IInv, Receiving, ReceiverQuiet, SenderStays
    <2> QED
      BY <2>3, <2>4, <2>5 DEF IInv
  <1>4. CASE RcvReadsPipe
    <2>1. rpipe # <<>>
      BY <1>4 DEF RcvReadsPipe
    <2>2. CASE Head(rpipe) # "active"
      <3>1. RcvCloses(Head(rpipe)) /\ Head(rpipe) \in Ended
        BY <1>4, <2>1, <2>2, PipeHead DEF RcvReadsPipe, Statuses, Ended
      <3> QED
        BY <1>1, <2>1, <3>1, PipeHead, RcvClosesKeeps
    <2>3. CASE Head(rpipe) = "active"
      <3>1. /\ rpipe' = Tail(rpipe) /\ UNCHANGED <<rc, verdict, conn>>
            /\ rcv' = [rcv EXCEPT !.status = IF @ = "connecting" THEN "active" ELSE @]
        BY <1>4, <2>3 DEF RcvReadsPipe
      <3>2. /\ rcv' \in [status : Status, start : Nat]
            /\ rcv'.status \notin Ended \cup {"none", "waiting"}
        BY <2>1, <3>1, PipeHead DEF IInv, Typed, Status, Ended
      <3>3. Typed'
        BY <1>1, <2>1, <3>1, <3>2, PipeHead DEF IInv, Typed, SenderStays
      <3>4. /\ Follows(disk, 0)' /\ SenderQuiet' /\ ReceiverQuiet' /\ Waiting'
        BY <1>1, <3>1, <3>2 DEF IInv, Follows, Size, SenderQuiet, ReceiverQuiet, Waiting, SenderStays
      <3>5. MessagesSound'
        BY <1>1, <2>1, <3>1, PipeHead DEF IInv, MessagesSound, NoMessage, SenderStays
      <3>6. SaidWhenWhole'
        BY <1>1, <2>1, <3>1, PipeHead DEF IInv, SaidWhenWhole, SenderStays
      <3>7. Receiving'
        BY <1>1, <2>1, <3>1, PipeHead
           DEF IInv, Receiving, NoMessage, Follows, Size, SenderStays
      <3> QED
        BY <3>3, <3>4, <3>5, <3>6, <3>7 DEF IInv
    <2> QED
      BY <2>2, <2>3
  <1> QED
    BY <1>2, <1>3, <1>4

\* A status of the child, and its end.
LEMMA RcvExitsFacts ==
    ASSUME IInv, rc.phase # "none", NEW status \in Statuses, RcvExits(status),
           status = "done" => (disk = file)'
    PROVE  /\ rpipe' \in Seq(Statuses) /\ rc' = NoRcvChild
           /\ (\E i \in 1..Len(rpipe') : rpipe'[i] = "done") => (disk = file)'
  <1>1. /\ rpipe' \in Seq(Statuses) /\ Len(rpipe') = Len(rpipe) + 1 /\ Len(rpipe) \in Nat
        /\ \A i \in 1..Len(rpipe) : rpipe'[i] = rpipe[i]
        /\ rpipe'[Len(rpipe) + 1] = status
    BY AppendProperties, LenProperties DEF RcvExits, IInv, Typed
  <1>2. \A i \in 1..Len(rpipe) : rpipe[i] # "done"
    BY DEF IInv, Receiving
  <1>3. ASSUME NEW i \in 1..Len(rpipe'), rpipe'[i] = "done"
        PROVE  status = "done"
    <2>1. i \in 1..Len(rpipe) \/ i = Len(rpipe) + 1
      BY <1>1
    <2> QED
      BY <1>1, <1>2, <1>3, <2>1
  <1> QED
    BY <1>1, <1>3 DEF RcvExits

\* The child ends: what it leaves satisfies the invariant.
LEMMA RcvExitsKeeps ==
    ASSUME IInv, rc.phase # "none", NEW status \in Statuses, RcvExits(status),
           SenderStays, UNCHANGED <<rcv, verdict>>,
           disk' \in Seq(Nat), Follows(disk, 0)', status = "done" => (disk = file)',
           conn' \in [state : {"none", "pending", "up", "broken"}, sndOpen : BOOLEAN,
                      data : Seq(Nat), acks : Seq(Nat)],
           conn'.state = conn.state
    PROVE  IInv'
  <1>1. /\ rpipe' \in Seq(Statuses) /\ rc' = NoRcvChild
        /\ (\E i \in 1..Len(rpipe') : rpipe'[i] = "done") => (disk = file)'
    BY RcvExitsFacts
  <1>2. rcv.status \notin Ended \cup {"none", "waiting"} /\ NoMessage /\ verdict # "done"
    BY DEF IInv, ReceiverQuiet, Receiving
  <1>3. Typed'
    BY <1>1, Constants DEF IInv, Typed, SenderStays
  <1>4. SenderQuiet' /\ ReceiverQuiet' /\ Waiting' /\ Receiving'
    BY <1>1, <1>2, Constants DEF IInv, SenderQuiet, ReceiverQuiet, Waiting, Receiving, SenderStays
  <1>5. MessagesSound' /\ SaidWhenWhole'
    BY <1>1, <1>2 DEF IInv, MessagesSound, NoMessage, SaidWhenWhole, SenderStays
  <1> QED
    BY <1>3, <1>4, <1>5 DEF IInv

LEMMA AckedType ==
    ASSUME IInv, NEW pos \in Nat
    PROVE  Acked(pos) \in Seq(Nat)
  <1>1. pos % AckModulo \in Nat
    BY XferAssumption
  <1> DEFINE ack == pos % AckModulo
  <1> HIDE DEF ack
  <1>2. Append(conn.acks, ack) \in Seq(Nat)
    BY <1>1, AppendProperties DEF IInv, Typed, ack
  <1> QED
    BY <1>2 DEF Acked, ack

\* A child that goes on.
LEMMA RcvGoesOnKeeps ==
    ASSUME IInv, rc.phase # "none", rc' \in [phase : {"connect", "recv"}, pos : Nat, lastAck : Nat],
           SenderStays, UNCHANGED <<rcv, verdict>>,
           disk' \in Seq(Nat), Follows(disk, 0)',
           rpipe' \in Seq(Statuses), \A i \in 1..Len(rpipe') : rpipe'[i] # "done",
           conn' \in [state : {"none", "pending", "up", "broken"}, sndOpen : BOOLEAN,
                      data : Seq(Nat), acks : Seq(Nat)],
           SenderQuiet', Receiving'
    PROVE  IInv'
  <1>1. rcv.status \notin Ended \cup {"none", "waiting"} /\ NoMessage /\ verdict # "done"
    BY DEF IInv, ReceiverQuiet, Receiving
  <1>2. Typed'
    BY DEF IInv, Typed, SenderStays
  <1>3. ReceiverQuiet' /\ Waiting' /\ MessagesSound' /\ SaidWhenWhole'
    BY <1>1 DEF IInv, ReceiverQuiet, Waiting, MessagesSound, NoMessage, SaidWhenWhole, SenderStays
  <1> QED
    BY <1>2, <1>3 DEF IInv

LEMMA RcvConnectsKeeps ==
    ASSUME IInv, RcvConnects
    PROVE  IInv'
  <1>1. SenderStays /\ UNCHANGED <<rcv, verdict, disk>> /\ rc.phase = "connect"
    BY DEF SenderStays, RcvConnects, RcvChild, options, sender
  <1>2. CASE RcvExits("failed") /\ UNCHANGED conn
    <2>1. disk' \in Seq(Nat) /\ Follows(disk, 0)'
      BY <1>1 DEF IInv, Typed, Follows, Size, SenderStays
    <2> QED
      BY <1>1, <1>2, <2>1, RcvExitsKeeps DEF Statuses, IInv, Typed
  <1>3. CASE /\ conn.state = "none"
             /\ conn' = [NoConn EXCEPT !.state = "pending"]
             /\ rc' = [rc EXCEPT !.phase = "recv"]
             /\ rpipe' = Append(rpipe, "active")
    <2>1. /\ conn' \in [state : {"none", "pending", "up", "broken"}, sndOpen : BOOLEAN,
                        data : Seq(Nat), acks : Seq(Nat)]
          /\ conn'.state = "pending" /\ conn'.data = <<>>
      BY <1>3, Constants
    <2>2. /\ rc' \in [phase : {"connect", "recv"}, pos : Nat, lastAck : Nat]
          /\ rc'.phase = "recv" /\ rc'.pos = rc.pos
      BY <1>3 DEF IInv, Typed
    <2>3. rc.pos = Len(disk) /\ verdict # "done" /\ NoMessage /\ snd.pos = rc.pos
          /\ \A i \in 1..Len(rpipe) : rpipe[i] # "done"
      BY <1>1 DEF IInv, Receiving
    <2>4. rpipe' \in Seq(Statuses) /\ \A i \in 1..Len(rpipe') : rpipe'[i] # "done"
      <3>1. /\ rpipe' \in Seq(Statuses) /\ Len(rpipe') = Len(rpipe) + 1 /\ Len(rpipe) \in Nat
            /\ \A i \in 1..Len(rpipe) : rpipe'[i] = rpipe[i]
            /\ rpipe'[Len(rpipe) + 1] = "active"
        BY <1>3, AppendProperties, LenProperties DEF IInv, Typed, Statuses
      <3>2. \A i \in 1..Len(rpipe') : i \in 1..Len(rpipe) \/ i = Len(rpipe) + 1
        BY <3>1
      <3> QED
        BY <2>3, <3>1, <3>2
    <2>5. SenderQuiet'
      BY <1>1, <1>3 DEF IInv, SenderQuiet, SenderStays
    <2>6. Receiving'
      BY <1>1, <2>1, <2>2, <2>3, <2>4 DEF Receiving, NoMessage, SenderStays
    <2>7. disk' \in Seq(Nat) /\ Follows(disk, 0)'
      BY <1>1 DEF IInv, Typed, Follows, Size, SenderStays
    <2> QED
      BY <1>1, <2>1, <2>2, <2>4, <2>5, <2>6, <2>7, RcvGoesOnKeeps
  <1> QED
    BY <1>2, <1>3 DEF RcvConnects

\* What RecvBlock reads and leaves: used for the invariant and the refinement.
LEMMA BlockRead ==
    ASSUME IInv, RecvBlock
    PROVE  \E n \in 1..Len(conn.data) :
              /\ disk' \in Seq(Nat) /\ Len(disk') = Len(disk) + n /\ Follows(disk', 0)
              /\ SubSeq(conn.data, n + 1, Len(conn.data)) \in Seq(Nat)
              /\ Len(SubSeq(conn.data, n + 1, Len(conn.data))) = Len(conn.data) - n
              /\ Follows(SubSeq(conn.data, n + 1, Len(conn.data)), Len(disk) + n)
              /\ rc.pos = Len(disk)
              /\ IF rc.pos + n >= Size
                 THEN /\ conn' = [conn EXCEPT !.data = <<>>, !.acks = Acked(rc.pos + n)]
                      /\ RcvExits("done")
                 ELSE /\ conn' = [conn EXCEPT !.data = SubSeq(@, n + 1, Len(@))]
                      /\ rc' = [rc EXCEPT !.pos = @ + n]
                      /\ rpipe' \in {rpipe} \cup (IF rpipe = <<>> THEN {<<"active">>} ELSE {})
  <1>1. PICK n \in 1..Len(conn.data) :
          /\ disk' = disk \o SubSeq(conn.data, 1, n)
          /\ IF rc.pos + n >= Size
             THEN /\ conn' = [conn EXCEPT !.data = <<>>, !.acks = Acked(rc.pos + n)]
                  /\ RcvExits("done")
             ELSE /\ conn' = [conn EXCEPT !.data = SubSeq(@, n + 1, Len(@))]
                  /\ rc' = [rc EXCEPT !.pos = @ + n]
                  /\ rpipe' \in {rpipe} \cup (IF rpipe = <<>> THEN {<<"active">>} ELSE {})
    BY DEF RecvBlock
  <1>2. rc.pos = Len(disk) /\ Follows(conn.data, Len(disk))
    BY DEF RecvBlock, RcvOpen, IInv, Receiving
  <1>3. /\ file \in Seq(Nat) /\ disk \in Seq(Nat) /\ conn.data \in Seq(Nat) /\ Follows(disk, 0)
        /\ Len(disk) \in Nat /\ Len(conn.data) \in Nat /\ n \in 0..Len(conn.data)
    BY LenProperties DEF IInv, Typed
  <1> DEFINE block == SubSeq(conn.data, 1, n)
             rest == SubSeq(conn.data, n + 1, Len(conn.data))
  <1>4. /\ block \in Seq(Nat) /\ Len(block) = n /\ Follows(block, Len(disk))
        /\ rest \in Seq(Nat) /\ Len(rest) = Len(conn.data) - n /\ Follows(rest, Len(disk) + n)
    BY <1>2, <1>3, Split
  <1> HIDE DEF block, rest
  <1>5. /\ disk \o block \in Seq(Nat) /\ Len(disk \o block) = Len(disk) + n
        /\ Follows(disk \o block, 0)
    <2>1. 0 + Len(disk) = Len(disk)
      BY <1>3
    <2> QED
      BY <1>3, <1>4, <2>1, Joined
  <1>6. disk' = disk \o block
    BY <1>1 DEF block
  <1> QED
    BY <1>1, <1>2, <1>4, <1>5, <1>6 DEF rest

LEMMA RecvBlockKeeps ==
    ASSUME IInv, RecvBlock
    PROVE  IInv'
  <1>1. /\ SenderStays /\ UNCHANGED <<rcv, verdict>> /\ rc.phase = "recv" /\ conn.state = "up"
    BY DEF SenderStays, RecvBlock, RcvChild, RcvOpen, options, sender
  <1>2. PICK n \in 1..Len(conn.data) :
              /\ disk' \in Seq(Nat) /\ Len(disk') = Len(disk) + n /\ Follows(disk', 0)
              /\ SubSeq(conn.data, n + 1, Len(conn.data)) \in Seq(Nat)
              /\ Len(SubSeq(conn.data, n + 1, Len(conn.data))) = Len(conn.data) - n
              /\ Follows(SubSeq(conn.data, n + 1, Len(conn.data)), Len(disk) + n)
              /\ rc.pos = Len(disk)
              /\ IF rc.pos + n >= Size
                 THEN /\ conn' = [conn EXCEPT !.data = <<>>, !.acks = Acked(rc.pos + n)]
                      /\ RcvExits("done")
                 ELSE /\ conn' = [conn EXCEPT !.data = SubSeq(@, n + 1, Len(@))]
                      /\ rc' = [rc EXCEPT !.pos = @ + n]
                      /\ rpipe' \in {rpipe} \cup (IF rpipe = <<>> THEN {<<"active">>} ELSE {})
    BY BlockRead
  <1>3. /\ Len(disk) \in Nat /\ Len(conn.data) \in Nat /\ n \in Nat /\ rc.pos + n \in Nat
        /\ rc.pos + n = Len(disk) + n /\ Size \in Nat
    <2>1. Len(disk) \in Nat /\ Len(conn.data) \in Nat /\ Size \in Nat
      BY LenProperties DEF IInv, Typed, Size
    <2>2. n \in Nat /\ rc.pos = Len(disk)
      BY <1>2, <2>1
    <2> QED
      BY <2>1, <2>2
  <1>4. Follows(disk, 0)'
    BY <1>1, <1>2 DEF Follows, Size, SenderStays
  <1>5. CASE rc.pos + n >= Size
    <2>1. /\ conn' = [conn EXCEPT !.data = <<>>, !.acks = Acked(rc.pos + n)]
          /\ RcvExits("done")
      BY <1>2, <1>5
    <2>2. Acked(rc.pos + n) \in Seq(Nat) /\ <<>> \in Seq(Nat)
      BY <1>3, AckedType, EmptySeq
    <2>3. /\ conn' \in [state : {"none", "pending", "up", "broken"}, sndOpen : BOOLEAN,
                        data : Seq(Nat), acks : Seq(Nat)]
          /\ conn'.state = conn.state
      BY <2>1, <2>2 DEF IInv, Typed
    <2>4. (disk = file)'
      <3>1. Len(disk') >= Size
        BY <1>2, <1>3, <1>5
      <3>2. disk' = file
        BY <1>2, <3>1, BeginningOfFile DEF IInv, Typed
      <3> QED
        BY <1>1, <3>2 DEF SenderStays
    <2> QED
      BY <1>1, <1>2, <1>4, <2>1, <2>3, <2>4, RcvExitsKeeps DEF Statuses
  <1>6. CASE ~(rc.pos + n >= Size)
    <2> DEFINE rest == SubSeq(conn.data, n + 1, Len(conn.data))
    <2>1. /\ conn' = [conn EXCEPT !.data = rest]
          /\ rc' = [rc EXCEPT !.pos = rc.pos + n]
          /\ rpipe' \in {rpipe} \cup (IF rpipe = <<>> THEN {<<"active">>} ELSE {})
      BY <1>2, <1>6
    <2>2. rest \in Seq(Nat) /\ Len(rest) = Len(conn.data) - n /\ Follows(rest, Len(disk) + n)
      BY <1>2
    <2> HIDE DEF rest
    <2>3. /\ conn' \in [state : {"none", "pending", "up", "broken"}, sndOpen : BOOLEAN,
                        data : Seq(Nat), acks : Seq(Nat)]
          /\ conn'.data = rest /\ conn'.state = "up"
      BY <1>1, <2>1, <2>2 DEF IInv, Typed
    <2>4. /\ rc' \in [phase : {"connect", "recv"}, pos : Nat, lastAck : Nat]
          /\ rc'.phase = "recv" /\ rc'.pos = Len(disk')
      BY <1>1, <1>2, <1>3, <2>1 DEF IInv, Typed
    <2>5. /\ verdict # "done" /\ NoMessage /\ \A i \in 1..Len(rpipe) : rpipe[i] # "done"
          /\ sc.on => sc.pos = Len(disk) + Len(conn.data)
      BY <1>1 DEF IInv, Receiving
    <2>6. rpipe' \in Seq(Statuses) /\ \A i \in 1..Len(rpipe') : rpipe'[i] # "done"
      <3>1. CASE rpipe' = rpipe
        BY <2>5, <3>1 DEF IInv, Typed
      <3>2. CASE rpipe' = <<"active">>
        BY <3>2 DEF Statuses
      <3> QED
        BY <2>1, <3>1, <3>2
    <2>7. SenderQuiet'
      BY <1>1, <2>3 DEF IInv, SenderQuiet, SenderStays
    <2>8. Receiving'
      <3>1. Follows(conn.data, Len(disk))'
        BY <1>1, <1>2, <2>2, <2>3 DEF Follows, Size, SenderStays
      <3>2. sc'.on => sc'.pos = Len(disk') + Len(conn'.data)
        <4>1. Len(conn'.data) = Len(conn.data) - n
          BY <2>2, <2>3
        <4> QED
          BY <1>1, <1>2, <1>3, <2>5, <4>1 DEF SenderStays
      <3> QED
        BY <1>1, <2>3, <2>4, <2>5, <2>6, <3>1, <3>2 DEF Receiving, NoMessage, SenderStays
    <2> QED
      BY <1>1, <1>2, <1>4, <2>3, <2>4, <2>6, <2>7, <2>8, RcvGoesOnKeeps
  <1> QED
    BY <1>5, <1>6

LEMMA SendAckKeeps ==
    ASSUME IInv, SendAck
    PROVE  IInv'
  <1>1. /\ SenderStays /\ UNCHANGED <<rcv, verdict, rpipe, disk>>
        /\ rc.phase = "recv" /\ conn.state = "up"
        /\ conn' = [conn EXCEPT !.acks = Acked(rc.pos)]
        /\ rc' = [rc EXCEPT !.lastAck = rc.pos]
    BY DEF SenderStays, SendAck, RcvChild, RcvOpen, options, sender
  <1>2. Acked(rc.pos) \in Seq(Nat)
    BY AckedType DEF IInv, Typed
  <1>3. /\ conn' \in [state : {"none", "pending", "up", "broken"}, sndOpen : BOOLEAN,
                      data : Seq(Nat), acks : Seq(Nat)]
        /\ conn'.data = conn.data /\ conn'.state = "up"
    BY <1>1, <1>2 DEF IInv, Typed
  <1>4. /\ rc' \in [phase : {"connect", "recv"}, pos : Nat, lastAck : Nat]
        /\ rc'.phase = "recv" /\ rc'.pos = rc.pos
    BY <1>1 DEF IInv, Typed
  <1>5. disk' \in Seq(Nat) /\ Follows(disk, 0)' /\ rpipe' \in Seq(Statuses) /\ SenderQuiet'
    BY <1>1, <1>3 DEF IInv, Typed, Follows, Size, SenderQuiet, SenderStays
  <1>6. Receiving' /\ \A i \in 1..Len(rpipe') : rpipe'[i] # "done"
    BY <1>1, <1>3, <1>4 DEF IInv, Receiving, Follows, Size, NoMessage, SenderStays
  <1> QED
    BY <1>1, <1>3, <1>4, <1>5, <1>6, RcvGoesOnKeeps

LEMMA RecvEndKeeps ==
    ASSUME IInv, RecvEnd
    PROVE  IInv'
  <1>1. SenderStays /\ UNCHANGED <<rcv, verdict, disk, conn>> /\ rc.phase = "recv"
    BY DEF SenderStays, RecvEnd, RcvChild, RcvOpen, options, sender
  <1>2. disk' \in Seq(Nat) /\ Follows(disk, 0)'
    BY <1>1 DEF IInv, Typed, Follows, Size, SenderStays
  <1>3. rc.pos >= Size => (disk = file)'
    <2>1. rc.pos = Len(disk)
      BY <1>1 DEF IInv, Receiving
    <2> QED
      BY <1>1, <2>1, BeginningOfFile DEF IInv, Typed, SenderStays
  <1>4. \/ RcvExits("done") /\ rc.pos >= Size
        \/ RcvExits("failed")
    BY DEF RecvEnd
  <1> QED
    BY <1>1, <1>2, <1>3, <1>4, RcvExitsKeeps DEF Statuses, IInv, Typed

-----------------------------------------------------------------------------
(* Offers, and messages.                                                   *)

\* The receiver forks at the size of its local file, and no message of this offer
\* is left.
LEMMA ForksKeeps ==
    ASSUME IInv, NEW start \in Nat, Forks(start),
           UNCHANGED <<file, offer, snd, sc, spipe, conn>>, irc' \subseteq irc,
           start = Len(disk), snd.pos = start, verdict # "done", NoMessage',
           rc.phase = "none", rpipe = <<>>
    PROVE  IInv'
  <1>1. /\ rcv' = [status |-> "connecting", start |-> start]
        /\ rcv' \in [status : Status, start : Nat]
    BY DEF Forks, Status
  <1>2. /\ disk' \in Seq(Nat) /\ disk' = disk /\ Follows(disk, 0)'
    <2>1. start = 0 => disk = <<>>
      BY EmptySeq DEF IInv, Typed
    <2>2. disk' = disk
      BY <2>1 DEF Forks
    <2> QED
      BY <2>2 DEF IInv, Typed, Follows, Size
  <1>3. rpipe' = <<>> /\ Len(rpipe') = 0 /\ rpipe' \in Seq(Statuses)
    BY EmptySeq DEF Forks
  <1>4. /\ rc' \in [phase : {"none", "connect", "recv"}, pos : Nat, lastAck : Nat]
        /\ verdict' \in {"none", "failed"}
        /\ rc'.phase = "none" \/ (rc'.phase = "connect" /\ rc'.pos = start)
    BY Constants DEF IInv, Typed, Forks
  <1>5. Typed'
    BY <1>1, <1>2, <1>3, <1>4 DEF IInv, Typed
  <1>6. SenderQuiet' /\ ReceiverQuiet' /\ Waiting' /\ SaidWhenWhole'
    BY <1>1, <1>3, <1>4 DEF IInv, SenderQuiet, ReceiverQuiet, Waiting, SaidWhenWhole, Ended
  <1>7. MessagesSound'
    BY DEF IInv, MessagesSound, NoMessage
  <1>8. Receiving'
    BY <1>2, <1>3, <1>4 DEF Receiving
  <1> QED
    BY <1>2, <1>5, <1>6, <1>7, <1>8 DEF IInv

LEMMA AcceptKeeps ==
    ASSUME IInv, Accept
    PROVE  IInv'
  <1>1. /\ UNCHANGED <<file, offer, snd, sc, spipe, conn>> /\ rcv.status = "waiting"
    BY DEF Accept, options, sender
  <1>2. /\ snd.pos = 0 /\ rcv.start = Len(disk) /\ NoMessage /\ verdict # "done"
        /\ rc.phase = "none" /\ rpipe = <<>> /\ rcv.start \in Nat
    BY <1>1 DEF IInv, Typed, Waiting, ReceiverQuiet
  <1>3. CASE ~(rcv.start > 0)
    <2>1. Forks(0) /\ UNCHANGED irc /\ rcv.start = 0
      BY <1>2, <1>3 DEF Accept
    <2>2. NoMessage'
      BY <1>1, <1>2, <2>1 DEF NoMessage
    <2> QED
      BY <1>1, <1>2, <2>1, <2>2, ForksKeeps
  <1>4. CASE rcv.start > 0
    <2> DEFINE msg == [cmd |-> "RESUME", port |-> offer, pos |-> rcv.start]
    <2>1. /\ rcv' = [rcv EXCEPT !.status = "connecting"] /\ irc' = irc \cup {msg}
          /\ UNCHANGED <<rc, rpipe, disk, verdict>>
      BY <1>4 DEF Accept
    <2>2. /\ msg \in [cmd : {"RESUME", "ACCEPT"}, port : Nat, pos : Nat]
          /\ msg.cmd = "RESUME" /\ msg.port = offer /\ msg.pos = Len(disk)
      BY <1>2 DEF IInv, Typed
    <2> HIDE DEF msg
    <2>3. rcv' \in [status : Status, start : Nat] /\ rcv'.status = "connecting"
      BY <2>1 DEF IInv, Typed, Status
    <2>4. Typed'
      BY <1>1, <2>1, <2>2, <2>3 DEF IInv, Typed
    <2>5. /\ Follows(disk, 0)' /\ SenderQuiet' /\ ReceiverQuiet' /\ Waiting' /\ Receiving'
          /\ SaidWhenWhole'
      BY <1>1, <1>2, <2>1, <2>3 DEF IInv, Follows, Size, SenderQuiet, ReceiverQuiet, Waiting,
         Receiving, SaidWhenWhole, Ended
    <2>6. MessagesSound'
      <3>1. offer <= offer
        BY DEF IInv, Typed
      <3>2. \A m \in irc' : m \in irc \/ m = msg
        BY <2>1
      <3>3. /\ \A m \in irc' : m.port <= offer
            /\ \A m \in irc' : m.cmd = "ACCEPT" => m.port = offer /\ m.pos = snd.pos
        BY <2>2, <3>1, <3>2 DEF IInv, MessagesSound
      <3>4. \A m \in irc' : m.port = offer => m = msg
        BY <1>2, <3>2 DEF NoMessage
      <3> QED
        BY <1>1, <1>2, <2>1, <2>2, <3>3, <3>4 DEF MessagesSound
    <2> QED
      BY <2>4, <2>5, <2>6 DEF IInv
  <1> QED
    BY <1>3, <1>4

LEMMA OfferKeeps ==
    ASSUME IInv, Offer
    PROVE  IInv'
  <1>1. /\ UNCHANGED <<file, sc, spipe, rc, rpipe, irc, verdict>> /\ verdict # "done"
        /\ snd.status = "none" /\ rcv.status = "none" /\ \A msg \in irc : msg.cmd # "ACCEPT"
        /\ offer' = offer + 1 /\ conn' = NoConn
        /\ snd' = [status |-> "connecting", sock |-> "listen", pos |-> 0, timer |-> TRUE]
        /\ disk' = disk \/ disk' = <<>>
        /\ rcv' = [status |-> "waiting", start |-> Len(disk')]
    BY DEF Offer, options
  <1>2. rc.phase = "none" /\ rpipe = <<>> /\ ~sc.on /\ Len(rpipe) = 0
    BY <1>1, EmptySeq DEF IInv, ReceiverQuiet, SenderQuiet
  <1>3. /\ disk' \in Seq(Nat) /\ Len(disk') \in Nat /\ Follows(disk, 0)'
    <2>1. CASE disk' = disk
      BY <1>1, <2>1, LenProperties DEF IInv, Typed, Follows, Size
    <2>2. CASE disk' = <<>>
      <3>1. 0 <= Size
        BY LenProperties DEF IInv, Typed, Size
      <3>2. Follows(<<>>, 0)
        BY <3>1, NothingFollows DEF IInv, Typed
      <3> QED
        BY <1>1, <2>2, <3>2, EmptySeq DEF Follows, Size
    <2> QED
      BY <1>1, <2>1, <2>2
  <1>4. /\ snd' \in [status : Status, sock : {"none", "listen", "conn"}, pos : Nat, timer : BOOLEAN]
        /\ rcv' \in [status : Status, start : Nat]
    BY <1>1, <1>3 DEF Status
  <1>5. Typed'
    BY <1>1, <1>3, <1>4, Constants DEF IInv, Typed
  <1>6. \A msg \in irc : msg.port \in Nat /\ msg.port < offer'
    BY <1>1 DEF IInv, Typed, MessagesSound
  <1>7. NoMessage' /\ MessagesSound'
    <2>1. \A msg \in irc : msg.port # offer' /\ msg.port <= offer'
      BY <1>5, <1>6 DEF Typed
    <2> QED
      BY <1>1, <2>1 DEF NoMessage, MessagesSound
  <1>8. /\ SenderQuiet' /\ ReceiverQuiet' /\ Waiting' /\ Receiving' /\ SaidWhenWhole'
    BY <1>1, <1>2, <1>7 DEF SenderQuiet, ReceiverQuiet, Waiting, Receiving, SaidWhenWhole
  <1> QED
    BY <1>3, <1>5, <1>7, <1>8 DEF IInv

\* A request to resume: the sender takes its position, or does not know the offer.
LEMMA GetResumeKeeps ==
    ASSUME IInv, NEW msg \in irc, GetResume(msg)
    PROVE  IInv'
  <1>1. /\ UNCHANGED <<file, offer, sc, spipe, rcv, rc, rpipe, disk, verdict, conn>>
        /\ msg.cmd = "RESUME"
        /\ msg \in [cmd : {"RESUME", "ACCEPT"}, port : Nat, pos : Nat]
    BY DEF GetResume, IInv, Typed, options, receiver
  <1>2. /\ Searched(snd) \in [status : Status, sock : {"none", "listen", "conn"}, pos : Nat,
                              timer : BOOLEAN]
        /\ Searched(snd).pos = snd.pos
        /\ Searched(snd).status = "connecting" \/ Searched(snd) = snd
    BY DEF IInv, Typed, Searched, Status
  <1>3. CASE ~Found(snd, msg)
    <2>1. snd' = Searched(snd) /\ irc' = irc \ {msg}
      BY <1>3 DEF GetResume
    <2>2. snd'.status \in Ended \cup {"none"} => ~sc'.on
      BY <1>1, <1>2, <2>1 DEF IInv, SenderQuiet, Ended
    <2> QED
      BY <1>1, <1>2, <2>1, <2>2, SenderStep DEF ReceiverStays, IInv, Typed
  <1>4. CASE Found(snd, msg)
    <2> DEFINE answer == [msg EXCEPT !.cmd = "ACCEPT"]
    <2>1. /\ snd' = [Searched(snd) EXCEPT !.pos = msg.pos]
          /\ irc' = (irc \ {msg}) \cup {answer}
      BY <1>4 DEF GetResume
    <2>2. /\ answer \in [cmd : {"RESUME", "ACCEPT"}, port : Nat, pos : Nat]
          /\ answer.cmd = "ACCEPT" /\ answer.port = msg.port /\ answer.pos = msg.pos
      BY <1>1
    <2> HIDE DEF answer
    <2>3. /\ snd' \in [status : Status, sock : {"none", "listen", "conn"}, pos : Nat,
                       timer : BOOLEAN]
          /\ snd'.pos = msg.pos
          /\ snd'.status = "connecting"
      BY <1>1, <1>2, <1>4, <2>1 DEF IInv, Typed, Searched, Found
    <2>4. msg.port = offer
      BY <1>4 DEF Found
    <2>5. /\ rc.phase = "none" /\ rpipe = <<>> /\ verdict # "done" /\ msg.pos = Len(disk)
          /\ \A m \in irc : m.port = offer => m = msg
      BY <2>4 DEF IInv, MessagesSound
    <2>6. Typed'
      BY <1>1, <2>1, <2>2, <2>3 DEF IInv, Typed
    <2>7. /\ Follows(disk, 0)' /\ SenderQuiet' /\ ReceiverQuiet' /\ Receiving' /\ SaidWhenWhole'
      BY <1>1, <2>3, <2>5 DEF IInv, Follows, Size, SenderQuiet, ReceiverQuiet, Receiving,
         SaidWhenWhole, Ended
    <2>8. Waiting'
      <3>1. rcv.status # "waiting"
        BY <2>4 DEF IInv, Waiting, NoMessage
      <3> QED
        BY <1>1, <3>1 DEF Waiting
    <2>9. MessagesSound'
      <3>1. \A m \in irc' : m = answer \/ (m \in irc /\ m.port # offer)
        BY <2>1, <2>5
      <3>2. offer <= offer
        BY DEF IInv, Typed
      <3>3. /\ \A m \in irc' : m.port <= offer
            /\ \A m \in irc' : m.cmd = "ACCEPT" => m = answer
        BY <2>2, <2>4, <3>1, <3>2 DEF IInv, MessagesSound
      <3> QED
        BY <1>1, <2>2, <2>3, <2>4, <2>5, <3>1, <3>3 DEF MessagesSound
    <2> QED
      BY <2>6, <2>7, <2>8, <2>9 DEF IInv
  <1> QED
    BY <1>3, <1>4

\* The answer: the receiver starts where the sender will.
LEMMA GetAcceptKeeps ==
    ASSUME IInv, NEW msg \in irc, GetAccept(msg)
    PROVE  IInv'
  <1>1. /\ UNCHANGED <<file, offer, snd, sc, spipe, conn>> /\ irc' = irc \ {msg}
        /\ msg.cmd = "ACCEPT" /\ msg.pos \in Nat
    BY DEF GetAccept, IInv, Typed, options, sender
  <1>2. /\ msg.port = offer /\ msg.pos = snd.pos
        /\ rc.phase = "none" /\ rpipe = <<>> /\ verdict # "done" /\ msg.pos = Len(disk)
        /\ \A m \in irc : m.port = offer => m = msg
    BY <1>1 DEF IInv, MessagesSound
  <1>3. NoMessage'
    BY <1>1, <1>2 DEF NoMessage
  <1>4. CASE Found(rcv, msg)
    BY <1>1, <1>2, <1>3, <1>4, ForksKeeps DEF GetAccept
  <1>5. CASE ~Found(rcv, msg)
    <2>1. UNCHANGED <<rcv, rc, rpipe, disk, verdict>>
      BY <1>2, <1>5 DEF GetAccept, Found, Searched
    <2> QED
      BY <1>1, <2>1, SenderStep DEF ReceiverStays, IInv, Typed, SenderQuiet
  <1> QED
    BY <1>4, <1>5

LEMMA InitHolds == Init => IInv
  <1> SUFFICES ASSUME Init
               PROVE  IInv
    OBVIOUS
  <1>1. PICK n \in Nat : file = [i \in 1..n |-> i]
    BY XferAssumption DEF Init
  <1>2. file \in Seq(Nat)
    BY <1>1
  <1>3. snd \in [status : Status, sock : {"none", "listen", "conn"}, pos : Nat, timer : BOOLEAN]
    BY DEF Init, Status
  <1>4. rcv \in [status : Status, start : Nat]
    BY DEF Init, Status
  <1>5. Typed
    BY <1>2, <1>3, <1>4, Constants, EmptySeq DEF Init, Typed
  <1>6. Follows(disk, 0)
    <2>1. 0 <= Size
      BY <1>2, LenProperties DEF Size
    <2> QED
      BY <1>2, <2>1, NothingFollows DEF Init
  <1>7. SenderQuiet /\ ReceiverQuiet /\ Waiting /\ MessagesSound /\ Receiving
    BY Constants DEF Init, SenderQuiet, ReceiverQuiet, Waiting, MessagesSound, Receiving
  <1>8. SaidWhenWhole
    <2>1. Len(rpipe) = 0
      BY EmptySeq DEF Init
    <2> QED
      BY <2>1 DEF Init, SaidWhenWhole
  <1> QED
    BY <1>5, <1>6, <1>7, <1>8 DEF IInv

\* No step breaks the invariant.
LEMMA InvariantStep ==
    ASSUME IInv, [Next]_vars
    PROVE  IInv'
  <1>1. CASE Users
    BY <1>1, OfferKeeps, AcceptKeeps, SenderMainKeeps, ReceiverMainKeeps DEF Users
  <1>2. CASE Messages
    BY <1>2, GetResumeKeeps, GetAcceptKeeps DEF Messages
  <1>3. CASE MainLoops
    BY <1>3, SndAcceptsKeeps, SenderMainKeeps, ReceiverMainKeeps DEF MainLoops
  <1>4. CASE SndChildStep
    BY <1>4, SndChildKeeps, SendBlockKeeps DEF SndChildStep
  <1>5. CASE RcvChildStep
    BY <1>5, RcvConnectsKeeps, RecvBlockKeeps, SendAckKeeps, RecvEndKeeps DEF RcvChildStep
  <1>6. CASE Network
    BY <1>6, SenderMainKeeps DEF Network
  <1>7. CASE UNCHANGED vars
    <2>1. ReceiverStays /\ UNCHANGED <<irc, snd, sc, spipe, conn>>
      BY <1>7 DEF vars, options, sender, receiver, ReceiverStays
    <2> QED
      BY <2>1, SenderStep DEF IInv, Typed, SenderQuiet
  <1> QED
    BY <1>1, <1>2, <1>3, <1>4, <1>5, <1>6, <1>7 DEF Next

LEMMA InvariantHolds == Spec => []IInv
  BY InitHolds, InvariantStep, PTL DEF Spec

-----------------------------------------------------------------------------
(* The refinement: each step is one of the abstract specification, or leaves *)
(* its variables alone.                                                     *)
LEMMA ClosesMaps ==
    ASSUME IInv, NEW status \in Ended, RcvCloses(status), UNCHANGED <<file, disk>>,
           verdict # "done", status = "done" => disk = file
    PROVE  Transfer!Next
  <1>1. CASE status = "done"
    BY <1>1 DEF RcvCloses, Transfer!Next, Transfer!Finish
  <1>2. CASE status # "done"
    BY <1>2 DEF RcvCloses, Transfer!Next, Transfer!Fail
  <1> QED
    BY <1>1, <1>2

LEMMA ForksMaps ==
    ASSUME NEW start, Forks(start), UNCHANGED file, verdict # "done"
    PROVE  [Transfer!Next]_(Transfer!vars)
  <1>1. \/ (disk' = disk \/ disk' = <<>>) /\ verdict' = verdict
        \/ disk' = disk /\ verdict' = "failed"
    BY DEF Forks
  <1> QED
    BY <1>1 DEF Transfer!Next, Transfer!StartOver, Transfer!Fail, Transfer!vars

LEMMA RecvBlockMaps ==
    ASSUME IInv, RecvBlock
    PROVE  Transfer!Next
  <1>1. UNCHANGED <<file, verdict>> /\ rc.phase = "recv"
    BY DEF RecvBlock, RcvChild, RcvOpen, options
  <1>2. verdict # "done"
    BY <1>1 DEF IInv, Receiving
  <1>3. PICK n \in 1..Len(conn.data) :
          disk' \in Seq(Nat) /\ Len(disk') = Len(disk) + n /\ Follows(disk', 0)
    BY BlockRead
  <1>4. disk' = SubSeq(file, 1, Len(disk'))
    BY <1>3, BeginningOfFile DEF IInv, Typed
  <1>5. Len(disk') \in (Len(disk) + 1)..Len(file)
    <2>1. Len(disk) \in Nat /\ Len(conn.data) \in Nat /\ Len(file) \in Nat
      BY LenProperties DEF IInv, Typed
    <2>2. n \in Nat /\ n >= 1
      BY <2>1
    <2>3. Len(disk') <= Len(file)
      BY <1>3, <2>1, <2>2 DEF Follows, Size
    <2> QED
      BY <1>3, <2>1, <2>2, <2>3
  <1> QED
    BY <1>1, <1>2, <1>4, <1>5 DEF Transfer!Next, Transfer!Extend

LEMMA StepMaps ==
    ASSUME IInv, [Next]_vars
    PROVE  [Transfer!Next]_(Transfer!vars)
  <1>1. ASSUME UNCHANGED <<file, disk, verdict>>
        PROVE  [Transfer!Next]_(Transfer!vars)
    BY <1>1 DEF Transfer!vars
  <1>2. CASE Offer
    <2>1. UNCHANGED <<file, verdict>> /\ verdict # "done" /\ (disk' = disk \/ disk' = <<>>)
      BY <1>2 DEF Offer, options
    <2> QED
      BY <1>1, <2>1 DEF Transfer!Next, Transfer!StartOver
  <1>3. CASE Accept
    <2>1. UNCHANGED file /\ verdict # "done"
      BY <1>3 DEF Accept, options, IInv, Waiting
    <2>2. Forks(0) \/ UNCHANGED <<disk, verdict>>
      BY <1>3 DEF Accept
    <2> QED
      BY <1>1, <2>1, <2>2, ForksMaps
  <1>4. CASE RcvCancel
    <2>1. /\ RcvCloses("aborted") /\ UNCHANGED <<file, disk>>
          /\ verdict # "done"
      BY <1>4 DEF RcvCancel, options, IInv, SaidWhenWhole, Ended
    <2> QED
      BY <2>1, ClosesMaps DEF Ended
  <1>5. CASE SndCancel \/ SndRemove \/ RcvRemove
    BY <1>1, <1>5 DEF SndCancel, SndRemove, RcvRemove, options, receiver
  <1>6. ASSUME NEW msg \in irc, GetResume(msg)
        PROVE  [Transfer!Next]_(Transfer!vars)
    BY <1>1, <1>6 DEF GetResume, options, receiver
  <1>7. ASSUME NEW msg \in irc, GetAccept(msg)
        PROVE  [Transfer!Next]_(Transfer!vars)
    <2>1. UNCHANGED file /\ msg.cmd = "ACCEPT"
      BY <1>7 DEF GetAccept, options
    <2>2. verdict # "done"
      BY <2>1 DEF IInv, MessagesSound
    <2>3. Forks(msg.pos) \/ UNCHANGED <<disk, verdict>>
      BY <1>7 DEF GetAccept
    <2> QED
      BY <1>1, <2>1, <2>2, <2>3, ForksMaps
  <1>8. CASE SndAccepts \/ Timeout \/ SndReadsPipe
    BY <1>1, <1>8 DEF SndAccepts, Timeout, SndReadsPipe, options, receiver
  <1>9. CASE RcvReadsPipe
    <2>1. rpipe # <<>> /\ UNCHANGED <<file, disk>>
      BY <1>9 DEF RcvReadsPipe, options
    <2>2. CASE Head(rpipe) = "active"
      BY <1>1, <1>9, <2>1, <2>2 DEF RcvReadsPipe
    <2>3. CASE Head(rpipe) # "active"
      <3>1. RcvCloses(Head(rpipe)) /\ Head(rpipe) \in Ended
        BY <1>9, <2>1, <2>3, PipeHead DEF RcvReadsPipe, Statuses, Ended
      <3> QED
        BY <2>1, <3>1, PipeHead, ClosesMaps
    <2> QED
      BY <2>2, <2>3
  <1>10. CASE SndChildStep
    BY <1>1, <1>10 DEF SndChildStep, NothingToSend, ReadAck, SendBlock, SndError, GiveUp, SndChild,
       options, receiver
  <1>11. CASE RcvConnects \/ SendAck \/ RecvEnd
    BY <1>1, <1>11 DEF RcvConnects, SendAck, RecvEnd, RcvChild, options
  <1>12. CASE RecvBlock
    BY <1>12, RecvBlockMaps
  <1>13. CASE Network
    BY <1>1, <1>13 DEF Network, Reset, Break, LoseMessage, options, receiver
  <1>14. CASE UNCHANGED vars
    BY <1>1, <1>14 DEF vars, options, receiver
  <1> QED
    BY <1>2, <1>3, <1>4, <1>5, <1>6, <1>7, <1>8, <1>9, <1>10, <1>11, <1>12, <1>13, <1>14
       DEF Next, Users, Messages, MainLoops, RcvChildStep

\* The local file is a beginning of the file at any moment, and "received: OK" is
\* only said of all of it, and is final, for every file and every fault.
THEOREM TransferAlwaysImplemented == Spec => ImplementsTransfer
  <1>1. Init => Transfer!Init
    BY DEF Init, Transfer!Init
  <1>2. IInv /\ [Next]_vars => [Transfer!Next]_(Transfer!vars)
    BY StepMaps
  <1> QED
    BY <1>1, <1>2, InvariantHolds, PTL DEF Spec, ImplementsTransfer, Transfer!Spec

-----------------------------------------------------------------------------
(* What TransferSound and EndsAgree need beside IInv.                      *)

\* An ended transfer keeps nothing on the side of the sender, which listens
\* before it has a child; a child that exits leaves nothing.
SenderEnds ==
    /\ snd.status \in Ended \cup {"none"} =>
          ~sc.on /\ snd.sock = "none" /\ ~snd.timer /\ spipe = <<>>
    /\ snd.sock = "listen" => ~sc.on /\ spipe = <<>>
    /\ sc.on /\ conn.state = "up" => conn.sndOpen
    /\ rc.phase = "none" => rc = NoRcvChild

\* A position that a part of the file to be resumed may have.
Unfinished(n) == n < Size \/ Size = 0

Within ==
    /\ offer <= MaxOffers
    /\ \A i \in 1..Size : file[i] \in 1..Size
    /\ snd.pos <= Len(disk) /\ Unfinished(snd.pos)
    /\ sc.pos <= Size /\ sc.ack <= Size /\ rcv.start <= Size
    /\ sc.on /\ ~sc.sentOk => Unfinished(sc.pos)
    /\ rcv.status = "waiting" => Unfinished(Len(disk))
    /\ \A msg \in irc : msg.port = offer => Unfinished(msg.pos)
    /\ Len(conn.data) <= Room

\* The acknowledgements on their way are of what is on disk; there are two at
\* most, as the child of the sender sends no block before it has read them, but
\* for its first block, when the receiver has acknowledged the position of a resume.
Few ==
    /\ Len(conn.acks) <= 2
    /\ \A i \in 1..Len(conn.acks) : conn.acks[i] <= Len(disk)
    /\ conn.state \in {"none", "pending"} => conn.acks = <<>> /\ conn.data = <<>>
    /\ sc.on => sc.ack <= sc.pos /\ \A i \in 1..Len(conn.acks) : conn.acks[i] <= sc.pos
    /\ rc.lastAck <= rc.pos
    /\ rc.phase = "recv" /\ conn.state = "up" =>
          /\ \A i \in 1..Len(conn.acks) :
                conn.acks[i] <= rc.lastAck /\ (i < Len(conn.acks) => conn.acks[i] < rc.lastAck)
          /\ conn.data # <<>> \/ rc.lastAck < rc.pos => Len(conn.acks) <= 1
          /\ sc.on /\ sc.pos <= sc.ack =>
                /\ conn.data = <<>> /\ Len(conn.acks) <= 1
                /\ rc.lastAck < rc.pos => conn.acks = <<>>

\* "done" is in the pipe of the sender, then its status, when the file is on disk.
SentWhenWhole ==
    (snd.status = "done" \/ \E i \in 1..Len(spipe) : spipe[i] = "done") /\ ~gaveUp => disk = file

\* The child of the receiver, or its user, was told "done".
Said == verdict = "done" \/ \E i \in 1..Len(rpipe) : rpipe[i] = "done"

\* Without a fault, the sender fails neither while the connection is up nor after
\* the file is received: it has the last acknowledgement, or finds it.
Agreed ==
    faults = 0 /\ ~disturbed /\ Size < AckModulo =>
        /\ (rc.phase = "recv" /\ conn.state = "up") \/ Said =>
              /\ snd.status \notin {"failed", "connecting"}
              /\ \A i \in 1..Len(spipe) : spipe[i] # "failed"
        /\ Said /\ sc.on =>
              /\ conn.state = "up" /\ sc.pos = Size
              /\ conn.acks # <<>> /\ conn.acks[Len(conn.acks)] = Size

EndsInv == IInv /\ SenderEnds /\ Within /\ Few /\ SentWhenWhole /\ Agreed

-----------------------------------------------------------------------------
(* The steps of this second invariant.                                      *)

\* The sender's side of a step.
LEMMA SenderEndsStep ==
    ASSUME IInv, SenderEnds, [Next]_vars
    PROVE  SenderEnds'
  <1>t. /\ snd \in [status : Status, sock : {"none", "listen", "conn"}, pos : Nat, timer : BOOLEAN]
        /\ sc \in [on : BOOLEAN, pos : Nat, ack : Nat, sentOk : BOOLEAN]
        /\ rc \in [phase : {"none", "connect", "recv"}, pos : Nat, lastAck : Nat]
        /\ conn \in [state : {"none", "pending", "up", "broken"}, sndOpen : BOOLEAN,
                     data : Seq(Nat), acks : Seq(Nat)]
        /\ rcv \in [status : Status, start : Nat]
    BY DEF IInv, Typed
  <1>c. ~NoSndChild.on
    BY DEF NoSndChild
  <1>1. CASE Offer
    <2>1. /\ snd' = [status |-> "connecting", sock |-> "listen", pos |-> 0, timer |-> TRUE]
          /\ snd.status = "none" /\ UNCHANGED <<sc, spipe, rc>>
      BY <1>1 DEF Offer
    <2> QED
      BY <2>1, <1>t DEF SenderEnds, Ended
  <1>2. ASSUME NEW status \in Ended, SndCloses(status), UNCHANGED rc PROVE SenderEnds'
    BY <1>2, <1>t, <1>c DEF SndCloses, SenderEnds
  <1>3. ASSUME NEW status \in Ended, RcvCloses(status), UNCHANGED <<snd, sc, spipe>> PROVE SenderEnds'
    BY <1>3, <1>t, Constants DEF RcvCloses, RcvSocketClosed, SenderEnds
  <1>4. ASSUME NEW start, Forks(start), UNCHANGED <<snd, sc, spipe, conn>> PROVE SenderEnds'
    BY <1>4, <1>t DEF Forks, SenderEnds, NoRcvChild
  <1>5. CASE Accept
    BY <1>5, <1>4, <1>t DEF Accept, sender, SenderEnds
  <1>6. CASE SndCancel
    BY <1>6, <1>2 DEF SndCancel, receiver, Ended
  <1>7. CASE RcvCancel
    BY <1>7, <1>3 DEF RcvCancel, sender, Ended
  <1>8. CASE SndRemove
    BY <1>8, <1>t DEF SndRemove, receiver, SenderEnds
  <1>9. CASE RcvRemove \/ UNCHANGED vars
    BY <1>9 DEF RcvRemove, vars, receiver, sender, SenderEnds
  <1>10. ASSUME NEW msg \in irc, GetResume(msg) PROVE SenderEnds'
    <2>1. UNCHANGED <<sc, spipe, rc, conn>> /\ (snd' = Searched(snd) \/ snd' = [Searched(snd) EXCEPT !.pos = msg.pos])
      BY <1>10 DEF GetResume, receiver
    <2> QED
      BY <2>1, <1>t DEF Searched, SenderEnds, Ended
  <1>11. ASSUME NEW msg \in irc, GetAccept(msg) PROVE SenderEnds'
    BY <1>11, <1>4, <1>t DEF GetAccept, sender, SenderEnds
  <1>12. CASE SndAccepts
    <2>1. CASE /\ snd' = [snd EXCEPT !.status = "active", !.sock = "conn"]
               /\ conn' = [conn EXCEPT !.state = "up", !.sndOpen = TRUE]
               /\ UNCHANGED rc
      BY <2>1, <1>t DEF SenderEnds, Ended
    <2> QED
      BY <1>12, <2>1, <1>2 DEF SndAccepts, receiver, Ended
  <1>13. CASE Timeout
    BY <1>13, <1>2, <1>t DEF Timeout, receiver, SenderEnds, Ended
  <1>14. CASE SndReadsPipe
    <2>0. Head(spipe) \in Statuses
      BY <1>14, HeadTailProperties DEF IInv, Typed, SndReadsPipe
    <2>1. CASE Head(spipe) = "active"
      BY <2>1, <1>14, <1>t DEF SndReadsPipe, receiver, SenderEnds, Ended
    <2> QED
      BY <2>0, <2>1, <1>14, <1>2 DEF SndReadsPipe, receiver, Ended, Statuses
  <1>15. CASE RcvReadsPipe
    <2>0. Head(rpipe) \in Statuses
      BY <1>15, HeadTailProperties DEF IInv, Typed, RcvReadsPipe
    <2>1. CASE Head(rpipe) = "active"
      BY <2>1, <1>15, <1>t DEF RcvReadsPipe, sender, SenderEnds, Ended
    <2> QED
      BY <2>0, <2>1, <1>15, <1>3 DEF RcvReadsPipe, sender, Ended, Statuses
  <1>16. CASE SndChildStep
    <2>1. /\ sc.on /\ UNCHANGED <<snd, rc>> /\ conn'.state = conn.state /\ conn'.sndOpen = conn.sndOpen
      BY <1>16, <1>t DEF SndChildStep, SndChild, NothingToSend, ReadAck, SendBlock, SndError, GiveUp,
         receiver
    <2> QED
      BY <2>1, <1>t DEF SenderEnds
  <1>17. CASE RcvChildStep
    <2>0. ASSUME NEW status, RcvExits(status) PROVE rc' = NoRcvChild
      BY <2>0 DEF RcvExits
    <2>1. /\ UNCHANGED <<snd, sc, spipe>>
          /\ conn'.state = "up" => conn.state = "up" /\ conn'.sndOpen = conn.sndOpen
          /\ rc'.phase = "none" => rc' = NoRcvChild
      BY <2>0, <1>17, <1>t DEF RcvChildStep, RcvChild, RcvConnects, RecvBlock, SendAck, RecvEnd, sender,
         RcvOpen, NoConn
    <2> QED
      BY <2>1, <1>t DEF SenderEnds
  <1>18. CASE Network
    <2>1. UNCHANGED <<snd, sc, spipe, rc>> /\ (conn' = conn \/ conn' = Broken)
      BY <1>18 DEF Network, Reset, Break, LoseMessage, sender, receiver
    <2> QED
      BY <2>1, Constants DEF SenderEnds
  <1> QED
    BY <1>1, <1>5, <1>6, <1>7, <1>8, <1>9, <1>10, <1>11, <1>12, <1>13, <1>14, <1>15, <1>16, <1>17, <1>18
    DEF Next, Users, Messages, MainLoops

\* An acknowledgement is at most the position it is of.
LEMMA AckAtMost ==
    ASSUME NEW n \in Nat
    PROVE  n % AckModulo \in Nat /\ n % AckModulo <= n /\ (n < AckModulo => n % AckModulo = n)
  BY XferAssumption

\* What a block adds.
LEMMA BlockSent ==
    ASSUME IInv, SendBlock
    PROVE  \E n \in Nat \ {0} :
              /\ sc' = [sc EXCEPT !.pos = sc.pos + n, !.sentOk = (sc.pos + n >= Size)]
              /\ n <= Size - sc.pos /\ n <= Room - Len(conn.data)
              /\ Len(conn'.data) = Len(conn.data) + n
  <1>t. /\ sc \in [on : BOOLEAN, pos : Nat, ack : Nat, sentOk : BOOLEAN]
        /\ conn \in [state : {"none", "pending", "up", "broken"}, sndOpen : BOOLEAN,
                     data : Seq(Nat), acks : Seq(Nat)]
        /\ Size \in Nat /\ Len(conn.data) \in Nat /\ Room \in Nat /\ Block \in Nat
    BY LenProperties, XferAssumption DEF IInv, Typed, Size
  <1>1. PICK n \in 1..Min({Block, Size - sc.pos, Room - Len(conn.data)}) :
          /\ conn' = [conn EXCEPT !.data = @ \o SubSeq(file, sc.pos + 1, sc.pos + n)]
          /\ sc' = [sc EXCEPT !.pos = @ + n, !.sentOk = sc.pos + n >= Size]
    BY DEF SendBlock
  <1> DEFINE m == Min({Block, Size - sc.pos, Room - Len(conn.data)})
  <1>2. m \in Int /\ m <= Size - sc.pos /\ m <= Room - Len(conn.data)
    <2>1. Size - sc.pos \in Int /\ Room - Len(conn.data) \in Int /\ Block \in Int
      BY <1>t
    <2>2. {Block, Size - sc.pos, Room - Len(conn.data)} = {Block, Room - Len(conn.data), Size - sc.pos}
      OBVIOUS
    <2> QED
      BY <2>1, <2>2, MinFacts
  <1>3. n \in 1..m
    OBVIOUS
  <1> HIDE DEF m
  <1>4. n \in Nat \ {0} /\ n <= Size - sc.pos /\ n <= Room - Len(conn.data)
    BY <1>2, <1>3, <1>t
  <1>5. Len(conn'.data) = Len(conn.data) + n
    <2>1. sc.pos + n <= Size /\ sc.pos \in Nat
      BY <1>4, <1>t
    <2>2. SubSeq(file, sc.pos + 1, sc.pos + n) \in Seq(Nat) /\ Len(SubSeq(file, sc.pos + 1, sc.pos + n)) = n
      BY <1>4, <2>1, BlockFollows DEF IInv, Typed
    <2>3. conn'.data = conn.data \o SubSeq(file, sc.pos + 1, sc.pos + n)
      BY <1>1, <1>t
    <2> QED
      BY <2>2, <2>3, <1>t, ConcatProperties
  <1> QED
    BY <1>1, <1>4, <1>5, <1>t

\* No variable leaves its bounds.
LEMMA WithinStep ==
    ASSUME IInv, SenderEnds, Within, Few, [Next]_vars
    PROVE  Within'
  <1>t. /\ snd \in [status : Status, sock : {"none", "listen", "conn"}, pos : Nat, timer : BOOLEAN]
        /\ sc \in [on : BOOLEAN, pos : Nat, ack : Nat, sentOk : BOOLEAN]
        /\ rc \in [phase : {"none", "connect", "recv"}, pos : Nat, lastAck : Nat]
        /\ conn \in [state : {"none", "pending", "up", "broken"}, sndOpen : BOOLEAN,
                     data : Seq(Nat), acks : Seq(Nat)]
        /\ rcv \in [status : Status, start : Nat]
        /\ offer \in Nat /\ Size \in Nat /\ Len(disk) \in Nat /\ Len(disk) <= Size
        /\ Len(conn.data) \in Nat
    BY LenProperties DEF IInv, Typed, Size, Follows
  <1>k. Room \in Nat /\ MaxOffers \in Nat /\ Block \in Nat
    BY XferAssumption
  <1>c. NoSndChild.pos = 0 /\ NoSndChild.ack = 0 /\ NoConn.data = <<>> /\ Len(<<>>) = 0 /\ Broken.data = <<>>
        /\ ~NoSndChild.on
    BY Constants DEF NoSndChild
  <1>f. UNCHANGED file => Size' = Size
    BY DEF Size
  <1>z. ASSUME UNCHANGED <<file, offer>>, irc' \subseteq irc, snd'.pos = snd.pos, rcv'.start <= Size,
               rcv'.status = "waiting" => rcv.status = "waiting" /\ disk' = disk, Len(disk) <= Len(disk'),
               Len(disk') \in Nat,
               sc'.pos <= Size, sc'.ack <= Size, sc'.on /\ ~sc'.sentOk => Unfinished(sc'.pos),
               Len(conn'.data) <= Room
        PROVE  Within'
    BY <1>z, <1>t, <1>f DEF Within, Unfinished
  <1>1. CASE Offer
    <2>0. IInv'
      BY InvariantStep
    <2>1. /\ snd'.pos = 0 /\ UNCHANGED <<file, sc, irc>> /\ offer' = offer + 1 /\ offer < MaxOffers
          /\ snd.status = "none"
          /\ conn' = NoConn /\ ((disk' = disk /\ Len(disk) < Size) \/ disk' = <<>>)
          /\ rcv' = [status |-> "waiting", start |-> Len(disk')]
      BY <1>1 DEF Offer, options
    <2>2. Len(disk') <= Size /\ Unfinished(Len(disk')) /\ Len(disk') \in Nat
      BY <2>1, <1>t, <1>c DEF Unfinished
    <2>3. \A msg \in irc' : msg.port # offer'
      BY <2>1, <1>t DEF IInv, MessagesSound, Typed
    <2> QED
      BY <2>1, <2>2, <2>3, <1>t, <1>f, <1>c, <1>k DEF Within, Unfinished
  <1>2. ASSUME NEW status \in Ended, SndCloses(status), ReceiverStays, UNCHANGED irc
        PROVE  Within'
    <2>1. /\ snd'.pos = snd.pos /\ sc' = NoSndChild /\ (conn'.data = conn.data \/ conn'.data = <<>>)
      BY <1>2, <1>t, <1>c DEF SndCloses, SndSocketClosed
    <2> QED
      BY <2>1, <1>2, <1>z, <1>t, <1>c, <1>k DEF ReceiverStays, Within
  <1>3. ASSUME NEW status \in Ended, RcvCloses(status), SenderStays, UNCHANGED disk PROVE Within'
    <2>1. /\ rcv'.start = rcv.start /\ rcv'.status = status /\ (conn'.data = conn.data \/ conn'.data = <<>>)
      BY <1>3, <1>t, <1>c DEF RcvCloses, RcvSocketClosed
    <2> QED
      BY <2>1, <1>3, <1>z, <1>t, <1>c, <1>k DEF SenderStays, Within, Ended
  <1>4. ASSUME Forks(Len(disk)), UNCHANGED <<file, offer, snd, sc, conn>>, irc' \subseteq irc
        PROVE  Within'
    <2>1. /\ disk' = disk
          /\ rcv' = [status |-> "connecting", start |-> Len(disk)]
      BY <1>4, EmptySeq, <1>t DEF Forks, IInv, Typed
    <2> QED
      BY <2>1, <1>4, <1>z, <1>t DEF Within
  <1>5. CASE Accept
    <2>0. rcv.status = "waiting" /\ rcv.start = Len(disk)
      BY <1>5 DEF Accept, IInv, Waiting
    <2>1. CASE rcv.start > 0
      <3>1. /\ rcv' = [rcv EXCEPT !.status = "connecting"]
            /\ irc' = irc \cup {[cmd |-> "RESUME", port |-> offer, pos |-> rcv.start]}
            /\ UNCHANGED <<file, offer, snd, sc, conn, disk>>
        BY <1>5, <2>1 DEF Accept, options, sender
      <3> QED
        BY <3>1, <2>0, <1>t, <1>f DEF Within, Unfinished
    <2>2. CASE ~(rcv.start > 0)
      <3>1. Forks(Len(disk)) /\ UNCHANGED <<file, offer, snd, sc, conn, irc>>
        BY <1>5, <2>0, <2>2, <1>t DEF Accept, options, sender
      <3> QED
        BY <3>1, <1>4
    <2> QED
      BY <2>1, <2>2
  <1>6. CASE SndCancel
    BY <1>6, <1>2 DEF SndCancel, receiver, Ended, ReceiverStays, options
  <1>7. CASE RcvCancel
    BY <1>7, <1>3 DEF RcvCancel, sender, Ended, SenderStays, options
  <1>8. CASE SndRemove \/ RcvRemove \/ UNCHANGED vars
    <2>1. /\ UNCHANGED <<file, offer, sc, disk, conn, irc>> /\ snd'.pos = snd.pos
          /\ rcv'.start = rcv.start /\ (rcv'.status = rcv.status \/ rcv'.status = "none")
      BY <1>8, <1>t DEF SndRemove, RcvRemove, vars, receiver, sender, options
    <2> QED
      BY <2>1, <1>z, <1>t DEF Within
  <1>9. ASSUME NEW msg \in irc, GetResume(msg) PROVE Within'
    <2>0. msg \in [cmd : {"RESUME", "ACCEPT"}, port : Nat, pos : Nat]
      BY DEF IInv, Typed
    <2>1. /\ UNCHANGED <<file, offer, sc, disk, conn, rcv>>
          /\ \/ snd'.pos = snd.pos /\ irc' \subseteq irc
             \/ /\ msg.port = offer /\ snd'.pos = msg.pos
                /\ irc' = (irc \ {msg}) \cup {[msg EXCEPT !.cmd = "ACCEPT"]}
      BY <1>9, <1>t DEF GetResume, Found, Searched, receiver, options
    <2>2. CASE snd'.pos = snd.pos /\ irc' \subseteq irc
      BY <2>1, <2>2, <1>z, <1>t DEF Within
    <2>3. CASE /\ msg.port = offer /\ snd'.pos = msg.pos
               /\ irc' = (irc \ {msg}) \cup {[msg EXCEPT !.cmd = "ACCEPT"]}
      <3>1. Unfinished(msg.pos) /\ msg.pos = Len(disk)
        BY <2>3 DEF Within, IInv, MessagesSound
      <3>2. \A m \in irc' : m \in irc \/ m.pos = msg.pos
        BY <2>3, <2>0
      <3>3. Size' = Size /\ UNCHANGED <<file, offer, sc, disk, conn, rcv>>
        BY <2>1, <1>f
      <3>4. \A m \in irc' : m.port = offer' => Unfinished(m.pos)'
        BY <3>1, <3>2, <3>3 DEF Within, Unfinished
      <3>5. snd'.pos <= Len(disk') /\ Unfinished(snd.pos)'
        BY <2>3, <3>1, <3>3, <1>t DEF Unfinished
      <3> QED
        BY <3>3, <3>4, <3>5, <1>t DEF Within, Unfinished
    <2> QED
      BY <2>1, <2>2, <2>3
  <1>10. ASSUME NEW msg \in irc, GetAccept(msg) PROVE Within'
    <2>1. UNCHANGED <<file, offer, snd, sc, conn>> /\ irc' \subseteq irc
      BY <1>10 DEF GetAccept, options, sender
    <2>2. CASE Found(rcv, msg)
      <3>1. Forks(msg.pos) /\ msg.pos = Len(disk)
        BY <1>10, <2>2 DEF GetAccept, Found, IInv, MessagesSound
      <3> QED
        BY <2>1, <3>1, <1>4
    <2>3. CASE ~Found(rcv, msg)
      <3>1. rcv'.start = rcv.start /\ rcv'.status \in {rcv.status, "connecting"} /\ disk' = disk
        BY <1>10, <2>3, <1>t DEF GetAccept, Searched
      <3> QED
        BY <2>1, <3>1, <1>z, <1>t DEF Within
    <2> QED
      BY <2>2, <2>3
  <1>11. CASE SndAccepts
    <2>1. CASE /\ snd' = [snd EXCEPT !.status = "active", !.sock = "conn"]
               /\ sc' = [NoSndChild EXCEPT !.on = TRUE, !.pos = snd.pos, !.ack = snd.pos]
               /\ conn' = [conn EXCEPT !.state = "up", !.sndOpen = TRUE]
      <3>1. UNCHANGED <<file, offer, irc, rcv, disk>>
        BY <1>11 DEF SndAccepts, receiver, options
      <3>2. snd'.pos = snd.pos /\ conn'.data = conn.data /\ sc'.pos = snd.pos /\ sc'.ack = snd.pos
        BY <2>1, <1>t DEF NoSndChild
      <3> QED
        BY <3>1, <3>2, <1>z, <1>t DEF Within
    <2> QED
      BY <1>11, <2>1, <1>2 DEF SndAccepts, receiver, options, Ended, ReceiverStays
  <1>12. CASE Timeout
    <2>1. CASE snd.status = "connecting"
      BY <2>1, <1>12, <1>2 DEF Timeout, receiver, options, Ended, ReceiverStays
    <2>2. CASE snd.status # "connecting"
      <3>1. UNCHANGED <<file, offer, irc, rcv, disk, sc, conn>> /\ snd'.pos = snd.pos
        BY <1>12, <2>2, <1>t DEF Timeout, receiver, options
      <3> QED
        BY <3>1, <1>z, <1>t DEF Within
    <2> QED
      BY <2>1, <2>2
  <1>13. CASE SndReadsPipe
    <2>0. Head(spipe) \in Statuses
      BY <1>13, HeadTailProperties DEF IInv, Typed, SndReadsPipe
    <2>1. CASE Head(spipe) = "active"
      <3>1. UNCHANGED <<file, offer, irc, rcv, disk, sc, conn>> /\ snd'.pos = snd.pos
        BY <1>13, <2>1, <1>t DEF SndReadsPipe, receiver, options
      <3> QED
        BY <3>1, <1>z, <1>t DEF Within
    <2> QED
      BY <2>0, <2>1, <1>13, <1>2 DEF SndReadsPipe, receiver, options, Ended, Statuses, ReceiverStays
  <1>14. CASE RcvReadsPipe
    <2>0. Head(rpipe) \in Statuses
      BY <1>14, HeadTailProperties DEF IInv, Typed, RcvReadsPipe
    <2>1. CASE Head(rpipe) = "active"
      <3>1. /\ UNCHANGED <<file, offer, irc, disk, snd, sc, conn>> /\ rcv'.start = rcv.start
            /\ rcv'.status \in {rcv.status, "active"}
        BY <1>14, <2>1, <1>t DEF RcvReadsPipe, sender, options
      <3> QED
        BY <3>1, <1>z, <1>t DEF Within
    <2> QED
      BY <2>0, <2>1, <1>14, <1>3 DEF RcvReadsPipe, sender, options, Ended, Statuses, SenderStays
  <1>15. CASE SendBlock
    <2>1. UNCHANGED <<file, offer, irc, rcv, disk, snd>>
      BY <1>15 DEF SendBlock, SndChild, receiver, options
    <2>2. PICK n \in Nat \ {0} :
              /\ sc' = [sc EXCEPT !.pos = sc.pos + n, !.sentOk = (sc.pos + n >= Size)]
              /\ n <= Size - sc.pos /\ n <= Room - Len(conn.data)
              /\ Len(conn'.data) = Len(conn.data) + n
      BY <1>15, BlockSent
    <2>3. sc'.pos = sc.pos + n /\ sc'.ack = sc.ack /\ sc'.sentOk = (sc.pos + n >= Size)
      BY <2>2, <1>t
    <2>4. /\ sc'.pos <= Size /\ sc'.ack <= Size /\ Len(conn'.data) <= Room
      <3>1. sc.pos + n <= Size /\ Len(conn.data) + n <= Room
        <4>1. sc.pos \in Nat /\ Size \in Nat /\ Len(conn.data) \in Nat /\ Room \in Nat
          BY <1>t, <1>k
        <4>2. n <= Size - sc.pos /\ n <= Room - Len(conn.data)
          BY <2>2
        <4> QED
          BY <4>1, <4>2
      <3>2. sc.ack <= Size
        BY DEF Within
      <3> QED
        BY <3>1, <3>2, <2>2, <2>3
    <2>5. ~sc'.sentOk => Unfinished(sc'.pos)
      <3>1. ~(sc.pos + n >= Size) => sc.pos + n < Size
        BY <1>t
      <3> QED
        BY <3>1, <2>3 DEF Unfinished
    <2> QED
      BY <2>1, <2>4, <2>5, <1>z, <1>t DEF Within
  <1>16. CASE NothingToSend \/ SndError \/ GiveUp
    <2>1. /\ UNCHANGED <<file, offer, irc, rcv, disk, snd, conn>>
          /\ sc'.pos = sc.pos /\ sc'.ack = sc.ack /\ ~sc'.on
      BY <1>16, <1>t DEF NothingToSend, SndError, GiveUp, SndExits, SndChild, receiver, options
    <2> QED
      BY <2>1, <1>z, <1>t DEF Within
  <1>17. CASE RcvConnects
    <2>1. UNCHANGED <<file, offer, irc, rcv, disk, snd, sc>> /\ conn'.data \in {conn.data, <<>>}
      BY <1>17, <1>t, <1>c DEF RcvConnects, RcvChild, sender, options, NoConn
    <2> QED
      BY <2>1, <1>z, <1>t, <1>c, <1>k DEF Within
  <1>18. CASE RecvBlock
    <2>1. UNCHANGED <<file, offer, irc, rcv, snd, sc>> /\ rc.phase = "recv"
      BY <1>18 DEF RecvBlock, RcvChild, sender, options, RcvOpen
    <2>2. rcv.status # "waiting"
      BY <2>1 DEF IInv, ReceiverQuiet
    <2>3. PICK n \in 1..Len(conn.data) :
              /\ Len(disk') = Len(disk) + n
              /\ Len(SubSeq(conn.data, n + 1, Len(conn.data))) = Len(conn.data) - n
              /\ conn'.data \in {<<>>, SubSeq(conn.data, n + 1, Len(conn.data))}
      <3>1. PICK n \in 1..Len(conn.data) :
              /\ Len(disk') = Len(disk) + n
              /\ Len(SubSeq(conn.data, n + 1, Len(conn.data))) = Len(conn.data) - n
              /\ IF rc.pos + n >= Size
                 THEN conn' = [conn EXCEPT !.data = <<>>, !.acks = Acked(rc.pos + n)]
                 ELSE conn' = [conn EXCEPT !.data = SubSeq(@, n + 1, Len(@))]
        BY <1>18, BlockRead
      <3> QED
        BY <3>1, <1>t
    <2>4. n \in Nat
      BY <1>t
    <2>5. Len(conn'.data) <= Room
      <3>1. Len(conn'.data) = 0 \/ Len(conn'.data) = Len(conn.data) - n
        BY <2>3, <1>c
      <3> QED
        BY <3>1, <2>4, <1>t, <1>k DEF Within
    <2> QED
      BY <2>1, <2>2, <2>3, <2>4, <2>5, <1>z, <1>t DEF Within
  <1>19. CASE SendAck \/ RecvEnd \/ ReadAck \/ Network
    <2>1. /\ UNCHANGED <<file, offer, rcv, disk, snd>> /\ irc' \subseteq irc
          /\ sc'.pos = sc.pos /\ sc'.sentOk = sc.sentOk
          /\ sc'.on => sc.on
          /\ conn'.data \in {conn.data, <<>>}
      <3>1. CASE SendAck
        BY <3>1, <1>t DEF SendAck, RcvChild, sender, options
      <3>2. CASE RecvEnd
        BY <3>2, <1>t DEF RecvEnd, RcvChild, sender, options
      <3>3. CASE ReadAck
        BY <3>3, <1>t DEF ReadAck, SndChild, receiver, options, SndExits
      <3>4. CASE Network
        BY <3>4, <1>t, <1>c DEF Network, Reset, Break, LoseMessage, receiver, sender, options
      <3> QED
        BY <1>19, <3>1, <3>2, <3>3, <3>4
    <2>2. sc'.ack <= Size
      <3>1. CASE UNCHANGED sc
        BY <3>1 DEF Within
      <3>2. CASE ReadAck
        <4>1. sc'.ack \in {sc.ack, Head(conn.acks)} /\ conn.acks # <<>>
          BY <3>2, <1>t DEF ReadAck, SndExits
        <4>2. Head(conn.acks) <= Size
          <5>1. Head(conn.acks) = conn.acks[1] /\ 1 \in 1..Len(conn.acks) /\ conn.acks[1] \in Nat
            BY <4>1, <1>t, EmptySeq, HeadTailProperties, LenProperties, ElementOfSeq
          <5> QED
            BY <5>1, <1>t DEF Few
        <4> QED
          BY <4>1, <4>2 DEF Within
      <3> QED
        BY <1>19, <3>1, <3>2 DEF SendAck, RecvEnd, Network, Reset, Break, LoseMessage, RcvChild, sender
    <2> QED
      BY <2>1, <2>2, <1>z, <1>t, <1>c, <1>k DEF Within
  <1> QED
    BY <1>1, <1>5, <1>6, <1>7, <1>8, <1>9, <1>10, <1>11, <1>12, <1>13, <1>14, <1>15, <1>16, <1>17, <1>18, <1>19
    DEF Next, Users, Messages, MainLoops, SndChildStep, RcvChildStep

\* The acknowledgements stay few, and of what is on disk.
LEMMA FewStep ==
    ASSUME IInv, SenderEnds, Few, [Next]_vars
    PROVE  Few'
  <1>t. /\ snd \in [status : Status, sock : {"none", "listen", "conn"}, pos : Nat, timer : BOOLEAN]
        /\ sc \in [on : BOOLEAN, pos : Nat, ack : Nat, sentOk : BOOLEAN]
        /\ rc \in [phase : {"none", "connect", "recv"}, pos : Nat, lastAck : Nat]
        /\ conn \in [state : {"none", "pending", "up", "broken"}, sndOpen : BOOLEAN,
                     data : Seq(Nat), acks : Seq(Nat)]
        /\ rcv \in [status : Status, start : Nat]
        /\ Len(disk) \in Nat /\ Len(conn.data) \in Nat /\ Len(conn.acks) \in Nat
        /\ \A i \in 1..Len(conn.acks) : conn.acks[i] \in Nat
    BY LenProperties, ElementOfSeq DEF IInv, Typed
  <1>e. Len(<<>>) = 0 /\ \A s \in Seq(Nat) : s = <<>> <=> Len(s) = 0
    BY EmptySeq
  <1>c. /\ ~NoSndChild.on /\ NoRcvChild.phase = "none" /\ NoRcvChild.pos = 0 /\ NoRcvChild.lastAck = 0
        /\ NoConn.acks = <<>> /\ NoConn.data = <<>> /\ NoConn.state = "none"
        /\ Broken.acks = <<>> /\ Broken.data = <<>> /\ Broken.state = "broken"
    BY DEF NoSndChild, NoRcvChild, NoConn, Broken
  \* nothing is acknowledged, and the connection keeps its state
  <1>z. ASSUME conn'.acks = conn.acks, conn'.state = conn.state, conn'.data \in {conn.data, <<>>},
               Len(disk') = Len(disk), rc'.lastAck <= rc'.pos,
               rc'.phase = "recv" =>
                  rc'.phase = rc.phase /\ rc'.pos = rc.pos /\ rc'.lastAck = rc.lastAck,
               sc'.on => sc.on /\ sc'.pos = sc.pos /\ sc'.ack = sc.ack
        PROVE  Few'
    BY <1>z, <1>t DEF Few
  <1>y. ASSUME conn'.acks = <<>>, conn'.data = <<>>, rc'.lastAck <= rc'.pos,
               sc'.on => sc'.ack <= sc'.pos
        PROVE  Few'
    BY <1>y, <1>e DEF Few
  <1>1. CASE Offer
    <2>1. conn' = NoConn /\ UNCHANGED <<rc, sc>>
      BY <1>1 DEF Offer
    <2> QED
      BY <2>1, <1>c, <1>y DEF Few
  <1>2. ASSUME NEW status \in Ended, SndCloses(status), ReceiverStays PROVE Few'
    <2>1. sc' = NoSndChild /\ UNCHANGED <<rc, disk>>
      BY <1>2 DEF SndCloses, ReceiverStays
    <2>2. CASE conn' = Broken
      BY <2>1, <2>2, <1>c, <1>y DEF Few
    <2>3. CASE conn' = conn \/ conn' = [conn EXCEPT !.sndOpen = FALSE]
      <3>1. conn'.acks = conn.acks /\ conn'.state = conn.state /\ conn'.data = conn.data
        BY <2>3, <1>t
      <3>2. rc.lastAck <= rc.pos
        BY DEF Few
      <3> QED
        BY <2>1, <3>1, <3>2, <1>c, <1>t, <1>z
    <2> QED
      BY <1>2, <2>2, <2>3 DEF SndCloses, SndSocketClosed
  <1>3. ASSUME NEW status \in Ended, RcvCloses(status), UNCHANGED <<snd, sc, disk>> PROVE Few'
    <2>1. rc' = NoRcvChild /\ conn'.acks = conn.acks /\ conn'.state = conn.state /\ conn'.data \in {conn.data, <<>>}
      BY <1>3, <1>t DEF RcvCloses, RcvSocketClosed
    <2> QED
      BY <2>1, <1>3, <1>c, <1>t, <1>z
  <1>4. ASSUME Forks(Len(disk)), UNCHANGED <<sc, conn>>
        PROVE  Few'
    <2>1. disk' = disk
      BY <1>4, EmptySeq, <1>t DEF Forks, IInv, Typed
    <2>2. UNCHANGED rc \/ (rc'.phase = "connect" /\ rc'.lastAck = 0 /\ rc'.pos = Len(disk))
      BY <1>4 DEF Forks, NoRcvChild
    <2>3. rc.lastAck <= rc.pos
      BY DEF Few
    <2> QED
      BY <2>1, <2>2, <2>3, <1>4, <1>t, <1>z
  <1>5. CASE Accept
    <2>0. rcv.status = "waiting" /\ rcv.start = Len(disk)
      BY <1>5 DEF Accept, IInv, Waiting
    <2>1. CASE UNCHANGED <<rc, disk>>
      <3>1. UNCHANGED <<sc, conn>>
        BY <1>5 DEF Accept, sender
      <3>2. rc.lastAck <= rc.pos
        BY DEF Few
      <3> QED
        BY <2>1, <3>1, <3>2, <1>t, <1>z
    <2>2. CASE Forks(0) /\ ~(rcv.start > 0)
      BY <1>5, <2>0, <2>2, <1>4, <1>t DEF Accept, sender
    <2> QED
      BY <1>5, <2>1, <2>2 DEF Accept
  <1>6. ASSUME UNCHANGED <<rc, sc, disk, conn>> PROVE Few'
    <2>1. rc.lastAck <= rc.pos
      BY DEF Few
    <2> QED
      BY <1>6, <2>1, <1>t, <1>z
  <1>7. CASE SndRemove \/ RcvRemove \/ UNCHANGED vars
    BY <1>7, <1>6 DEF SndRemove, RcvRemove, vars, receiver, sender
  <1>8. CASE SndCancel
    BY <1>8, <1>2 DEF SndCancel, receiver, Ended, ReceiverStays, options
  <1>9. CASE RcvCancel
    BY <1>9, <1>3 DEF RcvCancel, sender, Ended
  <1>10. ASSUME NEW msg \in irc, GetResume(msg) PROVE Few'
    BY <1>10, <1>6 DEF GetResume, receiver
  <1>11. ASSUME NEW msg \in irc, GetAccept(msg) PROVE Few'
    <2>1. UNCHANGED <<sc, conn>>
      BY <1>11 DEF GetAccept, sender
    <2>2. CASE Found(rcv, msg)
      <3>1. Forks(msg.pos) /\ msg.pos = Len(disk)
        BY <1>11, <2>2 DEF GetAccept, Found, IInv, MessagesSound
      <3> QED
        BY <2>1, <3>1, <1>4
    <2>3. CASE ~Found(rcv, msg)
      BY <1>11, <2>1, <2>3, <1>6 DEF GetAccept
    <2> QED
      BY <2>2, <2>3
  <1>12. CASE SndAccepts
    <2>1. CASE /\ snd' = [snd EXCEPT !.status = "active", !.sock = "conn"]
               /\ sc' = [NoSndChild EXCEPT !.on = TRUE, !.pos = snd.pos, !.ack = snd.pos]
               /\ conn' = [conn EXCEPT !.state = "up", !.sndOpen = TRUE]
      <3>1. /\ UNCHANGED rc /\ conn.state = "pending"
            /\ conn'.data = conn.data /\ conn'.acks = conn.acks /\ sc'.ack <= sc'.pos
        BY <1>12, <2>1, <1>t DEF SndAccepts, receiver, NoSndChild
      <3> QED
        BY <3>1, <1>y DEF Few
    <2> QED
      BY <1>12, <2>1, <1>2 DEF SndAccepts, receiver, options, Ended, ReceiverStays
  <1>13. CASE Timeout
    <2>1. CASE snd.status = "connecting"
      BY <2>1, <1>13, <1>2 DEF Timeout, receiver, options, Ended, ReceiverStays
    <2> QED
      BY <2>1, <1>13, <1>6 DEF Timeout, receiver
  <1>14. CASE SndReadsPipe
    <2>0. Head(spipe) \in Statuses
      BY <1>14, HeadTailProperties DEF IInv, Typed, SndReadsPipe
    <2>1. CASE Head(spipe) = "active"
      BY <1>14, <2>1, <1>6 DEF SndReadsPipe, receiver
    <2> QED
      BY <2>0, <2>1, <1>14, <1>2 DEF SndReadsPipe, receiver, options, Ended, Statuses, ReceiverStays
  <1>15. CASE RcvReadsPipe
    <2>0. Head(rpipe) \in Statuses
      BY <1>15, HeadTailProperties DEF IInv, Typed, RcvReadsPipe
    <2>1. CASE Head(rpipe) = "active"
      BY <1>15, <2>1, <1>6 DEF RcvReadsPipe, sender
    <2> QED
      BY <2>0, <2>1, <1>15, <1>3 DEF RcvReadsPipe, sender, Ended, Statuses
  <1>16. CASE NothingToSend \/ SndError \/ GiveUp
    <2>1. UNCHANGED <<rc, disk, conn>> /\ ~sc'.on
      BY <1>16, <1>t DEF NothingToSend, SndError, GiveUp, SndExits, SndChild, receiver
    <2>2. rc.lastAck <= rc.pos
      BY DEF Few
    <2> QED
      BY <2>1, <2>2, <1>t, <1>z
  <1>17. CASE SendBlock
    <2>1. /\ UNCHANGED <<rc, disk>> /\ conn.state = "up" /\ rc.phase = "recv" /\ sc.on
          /\ sc.pos > sc.ack => conn.acks = <<>>
          /\ conn'.acks = conn.acks /\ conn'.state = "up"
      BY <1>17, <1>t DEF SendBlock, SndChild, receiver, RcvOpen
    <2>2. sc'.ack = sc.ack /\ sc'.pos \in Nat /\ sc'.pos > sc.pos
      <3>1. PICK n \in Nat \ {0} : sc' = [sc EXCEPT !.pos = sc.pos + n, !.sentOk = (sc.pos + n >= Size)]
        BY <1>17, BlockSent
      <3> QED
        BY <3>1, <1>t
    <2>3. Len(conn.acks) <= 1
      BY <2>1, <1>e, <1>t DEF Few
    <2>4. (rc.lastAck < rc.pos => Len(conn.acks) <= 1)
      BY <2>3
    <2>5. sc.pos <= sc.ack => (rc.lastAck < rc.pos => conn.acks = <<>>)
      BY <2>1 DEF Few
    <2>6. ~(sc'.pos <= sc'.ack)
      <3>1. CASE sc.pos > sc.ack
        BY <3>1, <2>2, <1>t
      <3>2. CASE ~(sc.pos > sc.ack)
        <4>1. sc.ack <= sc.pos
          BY <2>1 DEF Few
        <4> QED
          BY <4>1, <2>2, <1>t
      <3> QED
        BY <3>1, <3>2
    <2>7. sc'.ack <= sc'.pos /\ \A i \in 1..Len(conn.acks) : conn.acks[i] <= sc'.pos
      <3>1. sc.ack <= sc.pos /\ \A i \in 1..Len(conn.acks) : conn.acks[i] <= sc.pos
        BY <2>1 DEF Few
      <3> QED
        BY <3>1, <2>2, <1>t
    <2> QED
      BY <2>1, <2>2, <2>3, <2>6, <2>7, <1>t DEF Few
  <1>18. CASE ReadAck
    <2>1. /\ UNCHANGED <<rc, disk>> /\ sc.on /\ sc.pos > sc.ack /\ conn.acks # <<>>
          /\ conn'.acks = Tail(conn.acks) /\ conn'.state = conn.state /\ conn'.data = conn.data
          /\ sc'.pos = sc.pos /\ (~sc'.on \/ sc'.ack = Head(conn.acks))
      BY <1>18, <1>t DEF ReadAck, SndChild, receiver, SndExits
    <2>2. /\ Len(Tail(conn.acks)) = Len(conn.acks) - 1 /\ Head(conn.acks) = conn.acks[1]
          /\ \A i \in 1..Len(Tail(conn.acks)) : Tail(conn.acks)[i] = conn.acks[i + 1]
          /\ Len(conn.acks) \in Nat \ {0} /\ conn.acks \in Seq(Nat)
      BY <2>1, <1>t, <1>e, HeadTailProperties
    <2>3. \A i \in 1..Len(Tail(conn.acks)) :
             i + 1 \in 1..Len(conn.acks) /\ (i < Len(Tail(conn.acks)) => i + 1 < Len(conn.acks))
      BY <2>2
    <2>4. /\ Len(conn'.acks) <= 2
          /\ \A i \in 1..Len(conn'.acks) : conn'.acks[i] <= Len(disk')
          /\ conn'.state \in {"none", "pending"} => conn'.acks = <<>> /\ conn'.data = <<>>
          /\ rc'.lastAck <= rc'.pos
          /\ sc'.on => sc'.ack <= sc'.pos /\ \A i \in 1..Len(conn'.acks) : conn'.acks[i] <= sc'.pos
      <3>1. conn.state \notin {"none", "pending"} /\ 1 \in 1..Len(conn.acks)
        BY <2>1, <2>2 DEF Few
      <3>2. /\ Len(conn.acks) <= 2 /\ rc.lastAck <= rc.pos
            /\ \A i \in 1..Len(conn.acks) : conn.acks[i] <= Len(disk)
            /\ \A i \in 1..Len(conn.acks) : conn.acks[i] <= sc.pos
        BY <2>1 DEF Few
      <3>3. Len(Tail(conn.acks)) <= 2
        BY <3>2, <2>2
      <3>4. \A i \in 1..Len(Tail(conn.acks)) :
               Tail(conn.acks)[i] <= Len(disk) /\ Tail(conn.acks)[i] <= sc.pos
        BY <3>2, <2>2, <2>3
      <3>5. Head(conn.acks) <= sc.pos
        BY <3>1, <3>2, <2>2
      <3> QED
        BY <2>1, <3>1, <3>2, <3>3, <3>4, <3>5
    <2>5. ASSUME rc'.phase = "recv", conn'.state = "up"
          PROVE  /\ \A i \in 1..Len(conn'.acks) :
                       conn'.acks[i] <= rc'.lastAck /\ (i < Len(conn'.acks) => conn'.acks[i] < rc'.lastAck)
                 /\ conn'.data # <<>> \/ rc'.lastAck < rc'.pos => Len(conn'.acks) <= 1
                 /\ sc'.on /\ sc'.pos <= sc'.ack =>
                       /\ conn'.data = <<>> /\ Len(conn'.acks) <= 1
                       /\ rc'.lastAck < rc'.pos => conn'.acks = <<>>
      <3>1. /\ \A i \in 1..Len(conn.acks) :
                  conn.acks[i] <= rc.lastAck /\ (i < Len(conn.acks) => conn.acks[i] < rc.lastAck)
            /\ conn.data # <<>> \/ rc.lastAck < rc.pos => Len(conn.acks) <= 1
            /\ Len(conn.acks) <= 2 /\ rc.lastAck <= rc.pos
        BY <2>1, <2>5 DEF Few
      <3>2. \A i \in 1..Len(conn'.acks) :
               conn'.acks[i] <= rc'.lastAck /\ (i < Len(conn'.acks) => conn'.acks[i] < rc'.lastAck)
        BY <2>1, <2>2, <2>3, <3>1
      <3>3. conn'.data # <<>> \/ rc'.lastAck < rc'.pos => Len(conn'.acks) <= 1
        BY <2>1, <2>2, <3>1, <1>t
      <3>4. ASSUME sc'.on, sc'.pos <= sc'.ack
            PROVE  conn'.data = <<>> /\ Len(conn'.acks) = 0
        <4>1. sc.pos = Len(disk) + Len(conn.data) /\ rc.pos = Len(disk)
          BY <2>1, <2>5 DEF IInv, Receiving
        <4>2. sc.pos <= conn.acks[1] /\ conn.acks[1] <= rc.lastAck /\ conn.acks[1] \in Nat
              /\ (1 < Len(conn.acks) => conn.acks[1] < rc.lastAck)
          BY <2>1, <2>2, <3>1, <3>4, <1>t
        <4>3. Len(conn.data) = 0 /\ ~(1 < Len(conn.acks))
          <5>1. rc.pos \in Nat /\ rc.lastAck \in Nat /\ Len(conn.data) \in Nat /\ rc.lastAck <= rc.pos
            BY <3>1, <1>t
          <5> QED
            BY <4>1, <4>2, <5>1
        <4>4. conn.data = <<>>
          BY <4>3, <1>e, <1>t
        <4>5. Len(conn.acks) - 1 = 0
          <5>1. \A k \in Nat \ {0} : ~(1 < k) => k - 1 = 0
            OBVIOUS
          <5> QED
            BY <4>3, <2>2, <5>1
        <4> QED
          BY <4>4, <4>5, <2>1, <2>2
      <3>5. Len(conn'.acks) = 0 => conn'.acks = <<>>
        BY <2>1, <2>2, HeadTailProperties, <1>e
      <3> QED
        BY <3>2, <3>3, <3>4, <3>5
    <2> QED
      BY <2>4, <2>5 DEF Few
  <1>19. CASE RcvConnects
    <2>0. rc.lastAck <= rc.pos /\ UNCHANGED <<sc, disk>>
      BY <1>19 DEF Few, RcvConnects, RcvChild, sender
    <2>1. CASE RcvExits("failed") /\ UNCHANGED conn
      BY <2>0, <2>1, <1>c, <1>t, <1>z DEF RcvExits
    <2>2. CASE /\ conn' = [NoConn EXCEPT !.state = "pending"]
               /\ rc' = [rc EXCEPT !.phase = "recv"]
      <3>1. conn'.acks = <<>> /\ conn'.data = <<>> /\ rc'.lastAck = rc.lastAck /\ rc'.pos = rc.pos
        BY <2>2, <1>t DEF NoConn
      <3> QED
        BY <3>1, <2>0, <1>y DEF Few
    <2> QED
      BY <1>19, <2>1, <2>2 DEF RcvConnects
  <1>20. CASE RecvEnd
    <2>1. rc' = NoRcvChild /\ UNCHANGED <<sc, conn, disk>>
      BY <1>20 DEF RecvEnd, RcvExits, RcvChild, sender
    <2> QED
      BY <2>1, <1>c, <1>t, <1>z
  <1>21. CASE Network
    <2>1. UNCHANGED <<sc, rc, disk>> /\ (UNCHANGED conn \/ conn' = Broken)
      BY <1>21 DEF Network, Reset, Break, LoseMessage, sender, receiver
    <2>2. rc.lastAck <= rc.pos
      BY DEF Few
    <2> QED
      BY <2>1, <2>2, <1>6, <1>c, <1>y DEF Few
  <1>22. CASE SendAck
    <2>1. /\ UNCHANGED <<sc, disk>> /\ rc.phase = "recv" /\ conn.state = "up" /\ conn.data = <<>>
          /\ rc.pos > rc.lastAck
          /\ conn'.acks = Append(conn.acks, rc.pos % AckModulo) /\ conn'.state = "up" /\ conn'.data = <<>>
          /\ rc'.phase = "recv" /\ rc'.pos = rc.pos /\ rc'.lastAck = rc.pos
      BY <1>22, <1>t DEF SendAck, RcvChild, RcvOpen, Acked, sender
    <2>2. rc.pos % AckModulo \in Nat /\ rc.pos % AckModulo <= rc.pos
      BY <1>t, AckAtMost
    <2> DEFINE ack == rc.pos % AckModulo
    <2> HIDE DEF ack
    <2>3. /\ Len(conn'.acks) = Len(conn.acks) + 1
          /\ \A i \in 1..Len(conn.acks) : conn'.acks[i] = conn.acks[i]
          /\ conn'.acks[Len(conn.acks) + 1] = ack
      BY <2>1, <2>2, <1>t, AppendProperties DEF ack
    <2>4. ack <= rc.pos /\ ack \in Nat /\ rc.pos = Len(disk)
      BY <2>1, <2>2 DEF ack, IInv, Receiving
    <2>5. /\ \A i \in 1..Len(conn.acks) : conn.acks[i] <= rc.lastAck
          /\ Len(conn.acks) <= 1
          /\ sc.on /\ sc.pos <= sc.ack => conn.acks = <<>>
          /\ sc.on => sc.ack <= sc.pos /\ \A i \in 1..Len(conn.acks) : conn.acks[i] <= sc.pos
      BY <2>1, <1>t DEF Few
    <2>6. \A i \in 1..Len(conn'.acks) : i \in 1..Len(conn.acks) \/ i = Len(conn.acks) + 1
      BY <2>3, <1>t
    <2>7. \A i \in 1..Len(conn'.acks) :
             /\ conn'.acks[i] <= rc'.lastAck /\ conn'.acks[i] <= Len(disk')
             /\ i < Len(conn'.acks) => conn'.acks[i] < rc'.lastAck
      BY <2>1, <2>3, <2>4, <2>5, <2>6, <1>t
    <2>8. Len(conn'.acks) <= 2 /\ (sc.on /\ sc.pos <= sc.ack => Len(conn'.acks) <= 1)
      BY <2>3, <2>5, <1>e, <1>t
    <2>9. sc.on => \A i \in 1..Len(conn'.acks) : conn'.acks[i] <= sc.pos
      <3>1. sc.on => sc.pos = Len(disk) + Len(conn.data)
        BY <2>1 DEF IInv, Receiving
      <3> SUFFICES ASSUME sc.on, NEW i \in 1..Len(conn'.acks) PROVE conn'.acks[i] <= sc.pos
        OBVIOUS
      <3>2. CASE i \in 1..Len(conn.acks)
        BY <3>2, <2>3, <2>5
      <3>3. CASE i = Len(conn.acks) + 1
        <4>1. ack <= sc.pos
          BY <3>1, <2>4, <1>t
        <4> QED
          BY <3>3, <4>1, <2>3
      <3> QED
        BY <3>2, <3>3, <2>6
    <2> QED
      BY <2>1, <2>5, <2>7, <2>8, <2>9, <1>t DEF Few
  <1>23. CASE RecvBlock
    <2>1. UNCHANGED sc /\ rc.phase = "recv" /\ conn.state = "up" /\ rc.pos = Len(disk)
      BY <1>23 DEF RecvBlock, RcvChild, RcvOpen, sender, IInv, Receiving
    <2>2. PICK n \in 1..Len(conn.data) :
              /\ Len(disk') = Len(disk) + n
              /\ Len(SubSeq(conn.data, n + 1, Len(conn.data))) = Len(conn.data) - n
              /\ IF rc.pos + n >= Size
                 THEN /\ conn' = [conn EXCEPT !.data = <<>>, !.acks = Acked(rc.pos + n)]
                      /\ RcvExits("done")
                 ELSE /\ conn' = [conn EXCEPT !.data = SubSeq(@, n + 1, Len(@))]
                      /\ rc' = [rc EXCEPT !.pos = @ + n]
      BY <1>23, BlockRead
    <2>3. n \in Nat /\ n >= 1 /\ conn.data # <<>>
      BY <1>t, <1>e
    <2>4. /\ \A i \in 1..Len(conn.acks) :
                conn.acks[i] <= rc.lastAck /\ (i < Len(conn.acks) => conn.acks[i] < rc.lastAck)
          /\ Len(conn.acks) <= 1 /\ rc.lastAck <= rc.pos
          /\ ~(sc.on /\ sc.pos <= sc.ack)
          /\ \A i \in 1..Len(conn.acks) : conn.acks[i] <= Len(disk)
          /\ sc.on => sc.ack <= sc.pos /\ \A i \in 1..Len(conn.acks) : conn.acks[i] <= sc.pos
      BY <2>1, <2>3 DEF Few
    <2>e. \A i \in 1..Len(conn.acks) : conn.acks[i] <= Len(disk')
      <3>1. Len(disk') = Len(disk) + n
        BY <2>2
      <3> QED
        BY <3>1, <2>3, <2>4, <1>t
    <2>p. sc.on => rc.pos + n <= sc.pos
      <3>1. sc.on => sc.pos = Len(disk) + Len(conn.data)
        BY <2>1 DEF IInv, Receiving
      <3> QED
        BY <3>1, <2>1, <1>t
    <2>5. CASE rc.pos + n >= Size
      <3>1. /\ conn'.acks = Append(conn.acks, (rc.pos + n) % AckModulo) /\ conn'.state = "up"
            /\ rc' = NoRcvChild
        BY <2>1, <2>2, <2>5, <1>t DEF Acked, RcvExits
      <3>2. (rc.pos + n) % AckModulo \in Nat /\ (rc.pos + n) % AckModulo <= rc.pos + n
        <4>1. rc.pos + n \in Nat
          BY <2>3, <1>t
        <4> QED
          BY <4>1, AckAtMost
      <3> DEFINE ack == (rc.pos + n) % AckModulo
      <3> HIDE DEF ack
      <3>3. /\ Len(conn'.acks) = Len(conn.acks) + 1
            /\ \A i \in 1..Len(conn.acks) : conn'.acks[i] = conn.acks[i]
            /\ conn'.acks[Len(conn.acks) + 1] = ack
        BY <3>1, <3>2, <1>t, AppendProperties DEF ack
      <3>4. ack <= rc.pos + n /\ ack \in Nat
        BY <3>2 DEF ack
      <3>5. \A i \in 1..Len(conn'.acks) : i \in 1..Len(conn.acks) \/ i = Len(conn.acks) + 1
        BY <3>3, <1>t
      <3>6. \A i \in 1..Len(conn'.acks) : conn'.acks[i] <= Len(disk')
        <4>1. Len(disk') = rc.pos + n
          BY <2>1, <2>2
        <4> QED
          BY <4>1, <2>e, <3>3, <3>4, <3>5
      <3>8. sc.on => \A i \in 1..Len(conn'.acks) : conn'.acks[i] <= sc.pos
        <4> SUFFICES ASSUME sc.on, NEW i \in 1..Len(conn'.acks) PROVE conn'.acks[i] <= sc.pos
          OBVIOUS
        <4>1. CASE i \in 1..Len(conn.acks)
          BY <4>1, <2>4, <3>3
        <4>2. CASE i = Len(conn.acks) + 1
          <5>1. ack <= sc.pos
            BY <2>p, <3>4, <2>3, <1>t
          <5> QED
            BY <4>2, <5>1, <3>3
        <4> QED
          BY <4>1, <4>2, <3>5
      <3>7. Len(conn'.acks) <= 2
        BY <2>4, <3>3, <1>t
      <3> QED
        BY <2>1, <2>4, <3>1, <3>6, <3>7, <3>8, <1>c DEF Few
    <2>6. CASE ~(rc.pos + n >= Size)
      <3>1. /\ conn'.acks = conn.acks /\ conn'.state = "up"
            /\ rc'.phase = "recv" /\ rc'.pos = rc.pos + n /\ rc'.lastAck = rc.lastAck
        BY <2>1, <2>2, <2>6, <1>t
      <3>2. \A i \in 1..Len(conn'.acks) : conn'.acks[i] <= Len(disk')
        BY <2>e, <3>1
      <3>3. rc'.lastAck <= rc'.pos
        BY <2>3, <2>4, <3>1, <1>t
      <3> QED
        BY <2>1, <2>4, <3>1, <3>2, <3>3, <1>t DEF Few
    <2> QED
      BY <2>5, <2>6
  <1> QED
    BY <1>1, <1>5, <1>7, <1>8, <1>9, <1>10, <1>11, <1>12, <1>13, <1>14, <1>15, <1>16, <1>17, <1>18,
       <1>19, <1>20, <1>21, <1>22, <1>23
    DEF Next, Users, Messages, MainLoops, SndChildStep, RcvChildStep

\* The local file only changes when it is offered again, and by a block.
LEMMA DiskSteps ==
    ASSUME IInv, [Next]_vars, ~Offer
    PROVE  UNCHANGED file /\ (disk' = disk \/ RecvBlock) /\ (disk = file => UNCHANGED disk)
  <1>1. ASSUME Forks(Len(disk)) PROVE disk' = disk
    BY <1>1, EmptySeq, LenProperties DEF Forks, IInv, Typed
  <1>2. CASE Accept
    BY <1>1, <1>2, LenProperties DEF Accept, options, IInv, Typed, Waiting
  <1>3. ASSUME NEW msg \in irc, GetAccept(msg) PROVE UNCHANGED <<file, disk>>
    <2>1. CASE Found(rcv, msg)
      <3>1. Forks(msg.pos) /\ msg.pos = Len(disk)
        BY <1>3, <2>1 DEF GetAccept, Found, IInv, MessagesSound
      <3> QED
        BY <1>1, <3>1, <1>3 DEF GetAccept, options
    <2> QED
      BY <1>3, <2>1 DEF GetAccept, options
  <1>4. CASE RecvBlock
    <2>1. UNCHANGED file
      BY <1>4 DEF RecvBlock, RcvChild, options
    <2>2. PICK n \in 1..Len(conn.data) :
              disk' \in Seq(Nat) /\ Len(disk') = Len(disk) + n /\ Follows(disk', 0)
      BY <1>4, BlockRead
    <2>3. disk # file
      <3>1. Len(disk) \in Nat /\ Size \in Nat /\ Len(conn.data) \in Nat
        BY LenProperties DEF IInv, Typed, Size
      <3>2. Len(disk) + n <= Size /\ n >= 1 /\ n \in Nat
        BY <2>2, <3>1 DEF Follows
      <3> QED
        BY <3>1, <3>2 DEF Size
    <2> QED
      BY <1>4, <2>1, <2>3
  <1>5. CASE UNCHANGED <<file, disk>>
    BY <1>5
  <1>6. CASE Users
    BY <1>2, <1>6 DEF Users, SndCancel, RcvCancel, SndRemove, RcvRemove, receiver, options
  <1>7. CASE Messages
    BY <1>3, <1>7 DEF Messages, GetResume, receiver, options
  <1>8. CASE MainLoops
    BY <1>8 DEF MainLoops, SndAccepts, Timeout, SndReadsPipe, RcvReadsPipe, receiver, options
  <1>9. CASE SndChildStep
    BY <1>9 DEF SndChildStep, NothingToSend, ReadAck, SendBlock, SndError, GiveUp, SndChild, receiver, options
  <1>10. CASE RcvChildStep
    BY <1>4, <1>10 DEF RcvChildStep, RcvConnects, SendAck, RecvEnd, RcvChild, options
  <1>11. CASE Network
    BY <1>11 DEF Network, Reset, Break, LoseMessage, receiver, options
  <1>12. CASE UNCHANGED vars
    BY <1>12 DEF vars, receiver, options
  <1> QED
    BY <1>6, <1>7, <1>8, <1>9, <1>10, <1>11, <1>12 DEF Next

\* A status is in a pipe.
Holds(pipe, status) == \E i \in 1..Len(pipe) : pipe[i] = status

\* What a pipe holds as it is written and read.
LEMMA PipeFacts ==
    ASSUME NEW pipe \in Seq(Statuses), NEW status
    PROVE  /\ ~Holds(<<>>, status)
           /\ pipe # <<>> => /\ Head(pipe) \in Statuses
                             /\ Head(pipe) = status => Holds(pipe, status)
                             /\ Holds(Tail(pipe), status) => Holds(pipe, status)
           /\ \A s \in Statuses : Holds(Append(pipe, s), status) <=> Holds(pipe, status) \/ s = status
           /\ \A s \in Statuses : Holds(<<s>>, status) <=> s = status
  <1>1. ~Holds(<<>>, status)
    <2>1. Len(<<>>) = 0
      BY EmptySeq
    <2> QED
      BY <2>1 DEF Holds
  <1>2. ASSUME pipe # <<>>
        PROVE  /\ Head(pipe) \in Statuses
               /\ Head(pipe) = status => Holds(pipe, status)
               /\ Holds(Tail(pipe), status) => Holds(pipe, status)
    <2>1. /\ Head(pipe) \in Statuses
          /\ Len(Tail(pipe)) = Len(pipe) - 1
          /\ \A i \in 1..Len(Tail(pipe)) : Tail(pipe)[i] = pipe[i + 1]
          /\ Len(pipe) \in Nat \ {0} /\ Head(pipe) = pipe[1]
      BY <1>2, HeadTailProperties, EmptySeq
    <2>2. 1 \in 1..Len(pipe) /\ \A i \in 1..Len(Tail(pipe)) : i + 1 \in 1..Len(pipe)
      BY <2>1
    <2> QED
      BY <2>1, <2>2 DEF Holds
  <1>3. ASSUME NEW s \in Statuses
        PROVE  Holds(Append(pipe, s), status) <=> Holds(pipe, status) \/ s = status
    <2>1. /\ Len(Append(pipe, s)) = Len(pipe) + 1 /\ Len(pipe) \in Nat
          /\ \A i \in 1..Len(pipe) : Append(pipe, s)[i] = pipe[i]
          /\ Append(pipe, s)[Len(pipe) + 1] = s
      BY AppendProperties, LenProperties
    <2>2. \A i \in 1..Len(Append(pipe, s)) : i \in 1..Len(pipe) \/ i = Len(pipe) + 1
      BY <2>1
    <2>3. Len(pipe) + 1 \in 1..Len(Append(pipe, s)) /\ \A i \in 1..Len(pipe) : i \in 1..Len(Append(pipe, s))
      BY <2>1
    <2> QED
      BY <2>1, <2>2, <2>3 DEF Holds
  <1>4. ASSUME NEW s \in Statuses PROVE Holds(<<s>>, status) <=> s = status
    <2>1. Len(<<s>>) = 1 /\ <<s>>[1] = s
      OBVIOUS
    <2> QED
      BY <2>1 DEF Holds
  <1> QED
    BY <1>1, <1>2, <1>3, <1>4

\* "sent: OK" is said of a file that is received.
LEMMA SentWhenWholeStep ==
    ASSUME IInv, SenderEnds, Within, Few, SentWhenWhole, [Next]_vars
    PROVE  SentWhenWhole'
  <1>t. /\ snd \in [status : Status, sock : {"none", "listen", "conn"}, pos : Nat, timer : BOOLEAN]
        /\ sc \in [on : BOOLEAN, pos : Nat, ack : Nat, sentOk : BOOLEAN]
        /\ conn \in [state : {"none", "pending", "up", "broken"}, sndOpen : BOOLEAN,
                     data : Seq(Nat), acks : Seq(Nat)]
        /\ spipe \in Seq(Statuses) /\ disk \in Seq(Nat) /\ file \in Seq(Nat)
        /\ Size \in Nat /\ Len(disk) \in Nat /\ Len(disk) <= Size
    BY LenProperties DEF IInv, Typed, Size, Follows
  <1>w. Len(disk) >= Size => disk = file
    BY <1>t, BeginningOfFile DEF IInv
  <1>d. ~Offer => UNCHANGED file /\ (disk = file => UNCHANGED disk)
    BY DiskSteps
  <1>s. SentWhenWhole <=> ((snd.status = "done" \/ Holds(spipe, "done")) /\ ~gaveUp => disk = file)
    BY DEF SentWhenWhole, Holds
  <1>s2. SentWhenWhole' <=> ((snd'.status = "done" \/ Holds(spipe', "done")) /\ ~gaveUp' => disk' = file')
    BY DEF SentWhenWhole, Holds
  <1>z. ASSUME ~Offer, snd'.status = "done" \/ Holds(spipe', "done") =>
                          snd.status = "done" \/ Holds(spipe, "done"),
               gaveUp' = gaveUp
        PROVE  SentWhenWhole'
    BY <1>z, <1>d, <1>s, <1>s2
  <1>1. CASE Offer
    <2>1. snd'.status = "connecting" /\ spipe' = spipe /\ snd.status = "none"
      BY <1>1 DEF Offer
    <2>2. spipe = <<>>
      BY <2>1 DEF SenderEnds
    <2> QED
      BY <2>1, <2>2, <1>s2, PipeFacts, <1>t
  <1>2. ASSUME ~Offer, NEW status \in Ended, SndCloses(status), gaveUp' = gaveUp,
               status = "done" => Holds(spipe, "done")
        PROVE  SentWhenWhole'
    <2>1. snd'.status = status /\ spipe' = <<>>
      BY <1>2, <1>t DEF SndCloses
    <2> QED
      BY <2>1, <1>2, <1>z, PipeFacts, <1>t
  <1>3. CASE ~Offer /\ SndCancel
    BY <1>3, <1>2 DEF SndCancel, Ended
  <1>4. CASE ~Offer /\ SndRemove
    <2>1. snd'.status = "none" /\ spipe' = spipe /\ snd.status \in Ended
      BY <1>4, <1>t DEF SndRemove
    <2>2. spipe = <<>>
      BY <2>1 DEF SenderEnds
    <2> QED
      BY <2>1, <2>2, <1>s2, PipeFacts, <1>t
  <1>5. CASE ~Offer /\ SndAccepts
    <2>1. CASE snd' = [snd EXCEPT !.status = "active", !.sock = "conn"] /\ UNCHANGED <<spipe, gaveUp>>
      <3>1. snd'.status = "active"
        BY <2>1, <1>t
      <3> QED
        BY <1>5, <2>1, <3>1, <1>z
    <2> QED
      BY <1>5, <2>1, <1>2 DEF SndAccepts, Ended
  <1>6. CASE ~Offer /\ Timeout
    <2>1. CASE snd.status = "connecting"
      BY <1>6, <2>1, <1>2 DEF Timeout, Ended
    <2>2. CASE snd.status # "connecting"
      <3>1. UNCHANGED <<spipe, gaveUp>> /\ snd'.status = snd.status
        BY <1>6, <2>2, <1>t DEF Timeout
      <3> QED
        BY <1>6, <3>1, <1>z
    <2> QED
      BY <2>1, <2>2
  <1>7. CASE ~Offer /\ SndReadsPipe
    <2>1. CASE Head(spipe) = "active"
      <3>1. spipe' = Tail(spipe) /\ spipe # <<>> /\ gaveUp' = gaveUp
            /\ (snd'.status = snd.status \/ snd'.status = "active")
        BY <1>7, <2>1, <1>t DEF SndReadsPipe
      <3> QED
        BY <1>7, <3>1, <1>z, PipeFacts, <1>t
    <2>2. CASE Head(spipe) # "active"
      <3>1. spipe # <<>> /\ gaveUp' = gaveUp /\ SndCloses(Head(spipe))
        BY <1>7, <2>2 DEF SndReadsPipe
      <3>2. Head(spipe) \in Statuses /\ (Head(spipe) = "done" => Holds(spipe, "done"))
        BY <3>1, PipeFacts, <1>t
      <3>3. Head(spipe) \in Ended
        BY <2>2, <3>2 DEF Statuses, Ended
      <3> QED
        BY <1>7, <3>1, <3>2, <3>3, <1>2
    <2> QED
      BY <2>1, <2>2
  <1>8. ASSUME ~Offer, NEW msg \in irc, GetResume(msg) PROVE SentWhenWhole'
    <2>1. UNCHANGED <<spipe, gaveUp>> /\ (snd'.status = snd.status \/ snd'.status = "connecting")
      BY <1>8, <1>t DEF GetResume, Searched
    <2> QED
      BY <1>8, <2>1, <1>z
  <1>9. ASSUME ~Offer, NEW status \in Statuses, SndExits(status), UNCHANGED snd,
               status = "done" /\ ~gaveUp' => disk = file, ~gaveUp' => ~gaveUp
        PROVE  SentWhenWhole'
    <2>1. spipe' = Append(spipe, status)
      BY <1>9 DEF SndExits
    <2>2. Holds(spipe', "done") <=> Holds(spipe, "done") \/ status = "done"
      BY <2>1, PipeFacts, <1>t
    <2> QED
      BY <2>2, <1>9, <1>d, <1>s, <1>s2
  <1>10. CASE ~Offer /\ NothingToSend
    <2>1. /\ sc.on /\ sc.pos >= Size /\ ~sc.sentOk /\ SndExits("done") /\ UNCHANGED <<snd, gaveUp>>
      BY <1>10 DEF NothingToSend, SndChild
    <2>2. Size = 0
      BY <2>1, <1>t DEF Within, Unfinished
    <2> QED
      BY <1>10, <2>1, <2>2, <1>w, <1>9, <1>t DEF Statuses
  <1>11. CASE ~Offer /\ ReadAck
    <2>1. /\ UNCHANGED <<snd, gaveUp>> /\ conn.acks # <<>>
          /\ \/ Head(conn.acks) >= Size /\ SndExits("done")
             \/ UNCHANGED spipe
      BY <1>11 DEF ReadAck, SndChild
    <2>2. Head(conn.acks) <= Len(disk)
      <3>1. Head(conn.acks) = conn.acks[1] /\ 1 \in 1..Len(conn.acks)
        BY <2>1, <1>t, EmptySeq, HeadTailProperties, LenProperties
      <3> QED
        BY <3>1 DEF Few
    <2>3. Head(conn.acks) \in Nat
      BY <2>1, <1>t, HeadTailProperties
    <2>4. Head(conn.acks) >= Size => disk = file
      BY <2>2, <2>3, <1>t, <1>w
    <2>5. CASE UNCHANGED spipe
      BY <1>11, <2>1, <2>5, <1>z
    <2> QED
      BY <1>11, <2>1, <2>4, <2>5, <1>9 DEF Statuses
  <1>12. CASE ~Offer /\ SendBlock
    <2>1. /\ UNCHANGED <<snd, gaveUp>>
          /\ spipe' \in {spipe, Append(spipe, "active"), <<"active">>}
      BY <1>12 DEF SendBlock, SndChild
    <2>2. Holds(spipe', "done") => Holds(spipe, "done")
      <3>1. CASE spipe' = Append(spipe, "active")
        BY <3>1, PipeFacts, <1>t DEF Statuses
      <3>2. CASE spipe' = <<"active">>
        BY <3>2, PipeFacts, <1>t DEF Statuses
      <3> QED
        BY <2>1, <3>1, <3>2
    <2> QED
      BY <1>12, <2>1, <2>2, <1>z
  <1>13. CASE ~Offer /\ SndError
    BY <1>13, <1>9 DEF SndError, SndChild, Statuses
  <1>14. CASE ~Offer /\ GiveUp
    <2>1. SndExits("done") /\ UNCHANGED snd /\ gaveUp'
      BY <1>14 DEF GiveUp, SndChild
    <2> QED
      BY <1>14, <2>1, <1>9 DEF Statuses
  <1>15. CASE ~Offer /\ UNCHANGED <<snd, spipe, gaveUp>>
    BY <1>15, <1>z
  <1> QED
    BY <1>1, <1>3, <1>4, <1>5, <1>6, <1>7, <1>8, <1>10, <1>11, <1>12, <1>13, <1>14, <1>15
    DEF Next, Users, Messages, MainLoops, SndChildStep, RcvChildStep, Network, Accept, RcvCancel, RcvRemove,
        GetAccept, RcvReadsPipe, RcvConnects, RecvBlock, SendAck, RecvEnd, RcvChild, Reset, Break,
        LoseMessage, sender, vars

\* Faults are counted, and a disturbed transfer stays so.
LEMMA FaultsStep ==
    ASSUME faults \in Nat, [Next]_vars
    PROVE  faults' \in Nat /\ (faults' = 0 => faults = 0) /\ (disturbed => disturbed')
  <1>1. /\ faults' = faults \/ faults' = faults + 1
        /\ disturbed => disturbed'
    <2>1. CASE Users
      BY <2>1 DEF Users, Offer, Accept, Forks, SndCancel, RcvCancel, SndRemove, RcvRemove, bounds
    <2>2. CASE Messages
      BY <2>2 DEF Messages, GetResume, GetAccept, Forks, bounds
    <2>3. CASE MainLoops
      <3>1. CASE SndAccepts
        BY <3>1 DEF SndAccepts
      <3>2. CASE Timeout \/ SndReadsPipe \/ RcvReadsPipe
        BY <3>2 DEF Timeout, SndReadsPipe, RcvReadsPipe, bounds
      <3> QED
        BY <2>3, <3>1, <3>2 DEF MainLoops
    <2>4. CASE SndChildStep
      <3>1. SndChild
        BY <2>4 DEF SndChildStep, NothingToSend, ReadAck, SendBlock, SndError, GiveUp
      <3> QED
        BY <3>1 DEF SndChild, bounds
    <2>5. CASE RcvChildStep
      <3>1. RcvChild
        BY <2>5 DEF RcvChildStep, RcvConnects, RecvBlock, SendAck, RecvEnd
      <3> QED
        BY <3>1 DEF RcvChild, bounds
    <2>6. CASE Network
      BY <2>6 DEF Network, Reset, Break, LoseMessage, bounds
    <2>7. CASE UNCHANGED vars
      BY <2>7 DEF vars, bounds
    <2> QED
      BY <2>1, <2>2, <2>3, <2>4, <2>5, <2>6, <2>7 DEF Next
  <1> QED
    BY <1>1

\* The sender does not fail once the file is received.
LEMMA AgreedStep ==
    ASSUME IInv, SenderEnds, Within, Few, Agreed, faults \in Nat, [Next]_vars
    PROVE  Agreed'
  <1> DEFINE Live == rc.phase = "recv" /\ conn.state = "up"
             NotFailed == snd.status \notin {"failed", "connecting"} /\ ~Holds(spipe, "failed")
             Answered == /\ conn.state = "up" /\ sc.pos = Size
                         /\ conn.acks # <<>> /\ conn.acks[Len(conn.acks)] = Size
  <1>t. /\ snd \in [status : Status, sock : {"none", "listen", "conn"}, pos : Nat, timer : BOOLEAN]
        /\ sc \in [on : BOOLEAN, pos : Nat, ack : Nat, sentOk : BOOLEAN]
        /\ rc \in [phase : {"none", "connect", "recv"}, pos : Nat, lastAck : Nat]
        /\ rcv \in [status : Status, start : Nat]
        /\ conn \in [state : {"none", "pending", "up", "broken"}, sndOpen : BOOLEAN,
                     data : Seq(Nat), acks : Seq(Nat)]
        /\ spipe \in Seq(Statuses) /\ rpipe \in Seq(Statuses)
        /\ Size \in Nat /\ Len(disk) \in Nat /\ Len(conn.data) \in Nat
    BY LenProperties DEF IInv, Typed, Size
  <1>c. ~NoSndChild.on /\ NoRcvChild.phase = "none" /\ Broken.state = "broken"
    BY DEF NoSndChild, NoRcvChild, Broken
  <1>said. /\ Said <=> verdict = "done" \/ Holds(rpipe, "done")
           /\ Said' <=> verdict' = "done" \/ Holds(rpipe', "done")
    BY DEF Said, Holds
  <1> SUFFICES ASSUME (faults = 0 /\ ~disturbed /\ Size < AckModulo)'
               PROVE  (Live \/ Said => NotFailed)' /\ (Said /\ sc.on => Answered)'
    BY DEF Agreed, Holds
  <1>f. faults' = 0 /\ ~disturbed' /\ faults = 0 /\ ~disturbed
    BY FaultsStep
  <1>g. ASSUME UNCHANGED file
        PROVE  Size < AckModulo /\ Size' = Size
    BY <1>g DEF Size
  <1>i. ASSUME UNCHANGED file
        PROVE  (Live \/ Said => NotFailed) /\ (Said /\ sc.on => Answered)
    BY <1>f, <1>g, <1>i DEF Agreed, Holds
  <1>r. rc.phase # "none" => ~Said
    BY <1>said DEF IInv, Receiving, Holds
  <1>x. ASSUME ~Live', ~Said'
        PROVE  (Live \/ Said => NotFailed)' /\ (Said /\ sc.on => Answered)'
    BY <1>x
  <1> HIDE DEF Live, NotFailed, Answered
  <1> DEFINE Goal == (Live \/ Said => NotFailed)' /\ (Said /\ sc.on => Answered)'
  <1>1. CASE Offer
    <2>1. verdict # "done" /\ rcv.status = "none" /\ UNCHANGED <<rc, rpipe, verdict>>
      BY <1>1 DEF Offer
    <2>2. rc.phase = "none" /\ rpipe = <<>>
      BY <2>1 DEF IInv, ReceiverQuiet
    <2> QED
      BY <2>1, <2>2, <1>said, <1>x, PipeFacts, <1>t DEF Live
  \* the sender closes
  <1>2. ASSUME NEW status \in Ended, SndCloses(status), UNCHANGED <<file, rc, rpipe, verdict>>,
               NotFailed => status # "failed"
        PROVE  Goal
    <2>1. snd'.status = status /\ spipe' = <<>> /\ ~sc'.on /\ (conn'.state = "up" => conn.state = "up")
      BY <1>2, <1>t, <1>c DEF SndCloses, SndSocketClosed
    <2>2. (Live => Live)' /\ (Live' => Live) /\ (Said' <=> Said)
      BY <2>1, <1>2, <1>said DEF Live
    <2>3. status # "failed" => NotFailed'
      BY <2>1, <1>2, PipeFacts, <1>t DEF NotFailed, Ended
    <2> QED
      BY <2>1, <2>2, <2>3, <1>2, <1>i
  \* what the sender does on its side
  <1>3. ASSUME UNCHANGED <<file, rc, rpipe, verdict>>,
               conn'.state = conn.state, NotFailed => NotFailed', ~sc'.on
        PROVE  Goal
    <2>1. (Live' <=> Live) /\ (Said' <=> Said)
      BY <1>3, <1>said DEF Live
    <2> QED
      BY <2>1, <1>3, <1>i
  \* nothing of that changes
  <1>4. ASSUME UNCHANGED <<file, rc, rpipe, verdict, conn, spipe, sc>>, snd'.status = snd.status
        PROVE  Goal
    <2>1. (Live' <=> Live) /\ (Said' <=> Said) /\ (NotFailed' <=> NotFailed) /\ (Answered' <=> Answered)
      BY <1>4, <1>said, <1>g DEF Live, NotFailed, Answered
    <2> QED
      BY <2>1, <1>4, <1>i
  \* the receiver closes
  <1>5. ASSUME NEW status \in Ended, RcvCloses(status), UNCHANGED <<file, snd, sc, spipe>>,
               status = "done" => Holds(rpipe, "done")
        PROVE  Goal
    <2>1. /\ rc'.phase = "none" /\ rpipe' = <<>> /\ verdict' = IF status = "done" THEN "done" ELSE "failed"
          /\ conn'.acks = conn.acks /\ conn'.state = conn.state
      BY <1>5, <1>t, <1>c DEF RcvCloses, RcvSocketClosed
    <2>2. ~Live' /\ (Said' => Said)
      BY <2>1, <1>5, <1>said, PipeFacts, <1>t DEF Live
    <2>3. (NotFailed => NotFailed') /\ (Answered => Answered')
      BY <2>1, <1>5, <1>g DEF NotFailed, Answered
    <2> QED
      BY <2>2, <2>3, <1>5, <1>i
  \* a child is forked
  <1>6. ASSUME NEW start, Forks(start), verdict # "done"
        PROVE  Goal
    <2>0. faults' # faults + 1
      BY <1>f
    <2>1. rc' = [NoRcvChild EXCEPT !.phase = "connect", !.pos = start] /\ rpipe' = <<>> /\ verdict' = verdict
      BY <2>0, <1>6 DEF Forks
    <2>2. rc'.phase = "connect"
      BY <2>1 DEF NoRcvChild
    <2> QED
      BY <2>1, <2>2, <1>6, <1>x, <1>said, PipeFacts, <1>t DEF Live
  <1>7. CASE Accept
    <2>1. UNCHANGED <<file, snd, sc, spipe, conn>> /\ verdict # "done"
      BY <1>7 DEF Accept, sender, options, IInv, Waiting
    <2> QED
      BY <2>1, <1>7, <1>4, <1>6 DEF Accept
  <1>8. CASE SndCancel
    BY <1>8, <1>2 DEF SndCancel, receiver, options, Ended
  <1>9. CASE RcvCancel
    BY <1>9, <1>5 DEF RcvCancel, sender, options, Ended
  <1>10. CASE SndRemove
    <2>1. /\ UNCHANGED <<file, rc, rpipe, verdict, conn, sc, spipe>> /\ snd'.status = "none"
          /\ snd.status \in Ended
      BY <1>10, <1>t DEF SndRemove, receiver, options
    <2>2. ~sc.on
      BY <2>1 DEF SenderEnds
    <2>3. NotFailed => NotFailed'
      BY <2>1 DEF NotFailed
    <2> QED
      BY <2>1, <2>2, <2>3, <1>3
  <1>11. CASE RcvRemove \/ UNCHANGED vars
    BY <1>11, <1>4 DEF RcvRemove, vars, sender, receiver, options
  <1>12. ASSUME NEW msg \in irc, GetResume(msg) PROVE Goal
    <2>1. UNCHANGED <<file, rc, rpipe, verdict, conn, sc, spipe>>
      BY <1>12 DEF GetResume, receiver, options
    <2>2. snd.status \in {"none", "connecting"}
      BY <1>12, <1>f DEF GetResume, Disturbs
    <2>3. snd'.status = snd.status
      BY <1>12, <2>2, <1>t DEF GetResume, Searched
    <2> QED
      BY <2>1, <2>3, <1>4
  <1>13. ASSUME NEW msg \in irc, GetAccept(msg) PROVE Goal
    <2>1. CASE Found(rcv, msg)
      <3>1. Forks(msg.pos) /\ verdict # "done"
        BY <1>13, <2>1 DEF GetAccept, Found, IInv, MessagesSound
      <3> QED
        BY <3>1, <1>6
    <2>2. CASE ~Found(rcv, msg)
      BY <1>13, <2>2, <1>4 DEF GetAccept, sender, options
    <2> QED
      BY <2>1, <2>2
  <1>14. CASE SndAccepts
    <2>1. /\ snd.sock = "listen" /\ snd.status = "connecting"
          /\ snd' = [snd EXCEPT !.status = "active", !.sock = "conn"]
          /\ UNCHANGED <<spipe, file, rc, rpipe, verdict>>
      BY <1>14, <1>f DEF SndAccepts, receiver, options
    <2>2. ~Said
      BY <2>1, <1>i DEF NotFailed
    <2>3. spipe' = <<>> /\ snd'.status = "active"
      BY <2>1, <1>t DEF SenderEnds
    <2>4. NotFailed'
      BY <2>3, PipeFacts, <1>t DEF NotFailed
    <2> QED
      BY <2>1, <2>2, <2>4, <1>said
  <1>15. CASE Timeout
    <2>1. CASE snd.status = "connecting"
      BY <1>15, <2>1, <1>2 DEF Timeout, receiver, options, Ended, NotFailed
    <2>2. CASE snd.status # "connecting"
      <3>1. UNCHANGED <<file, rc, rpipe, verdict, conn, sc, spipe>> /\ snd'.status = snd.status
        BY <1>15, <2>2, <1>t DEF Timeout, receiver, options
      <3> QED
        BY <3>1, <1>4
    <2> QED
      BY <2>1, <2>2
  <1>16. CASE SndReadsPipe
    <2>0. spipe # <<>> /\ UNCHANGED <<file, rc, rpipe, verdict>>
      BY <1>16 DEF SndReadsPipe, receiver, options
    <2>1. CASE Head(spipe) = "active"
      <3>1. /\ spipe' = Tail(spipe) /\ UNCHANGED <<sc, conn>>
            /\ snd.status # "connecting" => snd'.status = snd.status
        BY <1>16, <2>1, <1>t DEF SndReadsPipe
      <3>2. NotFailed => NotFailed'
        BY <2>0, <3>1, PipeFacts, <1>t DEF NotFailed
      <3>3. (Live' <=> Live) /\ (Said' <=> Said) /\ (Answered' <=> Answered)
        BY <2>0, <3>1, <1>said, <1>g DEF Live, Answered
      <3> QED
        BY <2>0, <3>1, <3>2, <3>3, <1>i
    <2>2. CASE Head(spipe) # "active"
      <3>1. SndCloses(Head(spipe))
        BY <1>16, <2>2 DEF SndReadsPipe
      <3>2. Head(spipe) \in Statuses /\ (Head(spipe) = "failed" => Holds(spipe, "failed"))
        BY <2>0, PipeFacts, <1>t
      <3>3. Head(spipe) \in Ended /\ (NotFailed => Head(spipe) # "failed")
        BY <2>2, <3>2 DEF Statuses, Ended, NotFailed
      <3> QED
        BY <2>0, <3>1, <3>3, <1>2
    <2> QED
      BY <2>1, <2>2
  <1>17. CASE RcvReadsPipe
    <2>0. rpipe # <<>> /\ UNCHANGED <<file, snd, sc, spipe>>
      BY <1>17 DEF RcvReadsPipe, sender, options
    <2>1. CASE Head(rpipe) = "active"
      <3>1. rpipe' = Tail(rpipe) /\ UNCHANGED <<rc, verdict, conn>>
        BY <1>17, <2>1 DEF RcvReadsPipe
      <3>2. Said' => Said
        BY <2>0, <3>1, <1>said, PipeFacts, <1>t
      <3>3. (Live' <=> Live) /\ (NotFailed' <=> NotFailed) /\ (Answered' <=> Answered)
        BY <2>0, <3>1, <1>g DEF Live, Answered, NotFailed
      <3> QED
        BY <2>0, <3>1, <3>2, <3>3, <1>i
    <2>2. CASE Head(rpipe) # "active"
      <3>1. RcvCloses(Head(rpipe))
        BY <1>17, <2>2 DEF RcvReadsPipe
      <3>2. Head(rpipe) \in Statuses /\ (Head(rpipe) = "done" => Holds(rpipe, "done"))
        BY <2>0, PipeFacts, <1>t
      <3>3. Head(rpipe) \in Ended
        BY <2>2, <3>2 DEF Statuses, Ended
      <3> QED
        BY <2>0, <3>1, <3>2, <3>3, <1>5
    <2> QED
      BY <2>1, <2>2
  <1>18. CASE NothingToSend \/ GiveUp
    <2>1. /\ UNCHANGED <<file, rc, rpipe, verdict, conn, snd>> /\ spipe' = Append(spipe, "done") /\ ~sc'.on
      BY <1>18, <1>t DEF NothingToSend, GiveUp, SndChild, SndExits, receiver, options
    <2>2. NotFailed => NotFailed'
      BY <2>1, PipeFacts, <1>t DEF NotFailed, Statuses
    <2> QED
      BY <2>1, <2>2, <1>3
  <1>19. CASE ReadAck
    <2>1. /\ UNCHANGED <<file, rc, rpipe, verdict, snd>> /\ conn.acks # <<>> /\ sc.on
          /\ conn'.acks = Tail(conn.acks) /\ conn'.state = conn.state
          /\ \/ spipe' = Append(spipe, "done") /\ ~sc'.on
             \/ spipe' = spipe /\ sc'.pos = sc.pos /\ (sc.pos >= Size => ~(Head(conn.acks) >= Size))
      BY <1>19, <1>t DEF ReadAck, SndChild, SndExits, receiver, options
    <2>2. NotFailed => NotFailed'
      <3>1. CASE spipe' = spipe
        BY <3>1, <2>1 DEF NotFailed
      <3>2. CASE spipe' = Append(spipe, "done")
        BY <3>2, <2>1, PipeFacts, <1>t DEF NotFailed, Statuses
      <3> QED
        BY <2>1, <3>1, <3>2
    <2>3. (Live' <=> Live) /\ (Said' <=> Said)
      BY <2>1, <1>said DEF Live
    <2>4. ASSUME Answered, sc'.on PROVE Answered'
      <3>1. /\ conn.acks[Len(conn.acks)] = Size /\ sc.pos = Size /\ conn.state = "up"
            /\ spipe' = spipe /\ sc'.pos = sc.pos /\ ~(Head(conn.acks) >= Size)
        BY <2>1, <2>4, <1>t DEF Answered
      <3>2. /\ Len(Tail(conn.acks)) = Len(conn.acks) - 1 /\ Head(conn.acks) = conn.acks[1]
            /\ \A i \in 1..Len(Tail(conn.acks)) : Tail(conn.acks)[i] = conn.acks[i + 1]
            /\ Len(conn.acks) \in Nat \ {0}
        BY <2>1, <1>t, EmptySeq, HeadTailProperties
      <3>3. Len(conn.acks) # 1
        BY <3>1, <3>2, <1>t
      <3>4. /\ Len(conn.acks) - 1 \in 1..Len(Tail(conn.acks)) /\ Len(conn.acks) - 1 + 1 = Len(conn.acks)
        <4>1. \A k \in Nat \ {0} : k # 1 => k - 1 \in 1..(k - 1) /\ k - 1 + 1 = k
          OBVIOUS
        <4> QED
          BY <3>2, <3>3, <4>1
      <3>5. conn'.acks[Len(conn'.acks)] = Size /\ Len(conn'.acks) # 0
        BY <2>1, <3>1, <3>2, <3>4
      <3>6. conn'.acks # <<>>
        BY <3>5, EmptySeq
      <3> QED
        BY <2>1, <3>1, <3>5, <3>6, <1>g DEF Answered
    <2> QED
      BY <2>1, <2>2, <2>3, <2>4, <1>i
  <1>20. CASE SendBlock
    <2>1. /\ UNCHANGED <<file, rc, rpipe, verdict, snd>> /\ conn'.state = conn.state
          /\ rc.phase = "recv"
          /\ spipe' \in {spipe, Append(spipe, "active"), <<"active">>}
      BY <1>20, <1>t DEF SendBlock, SndChild, RcvOpen, receiver, options
    <2>2. ~Said' /\ (Live' <=> Live)
      BY <2>1, <1>r, <1>said DEF Live
    <2>3. NotFailed => NotFailed'
      <3>1. CASE spipe' = spipe
        BY <3>1, <2>1 DEF NotFailed
      <3>2. CASE spipe' = Append(spipe, "active")
        BY <3>2, <2>1, PipeFacts, <1>t DEF NotFailed, Statuses
      <3>3. CASE spipe' = <<"active">>
        BY <3>3, <2>1, PipeFacts, <1>t DEF NotFailed, Statuses
      <3> QED
        BY <2>1, <3>1, <3>2, <3>3
    <2> QED
      BY <2>1, <2>2, <2>3, <1>i
  <1>21. CASE SndError
    <2>1. /\ UNCHANGED <<file, rc, rpipe, verdict, conn, snd>> /\ sc.on
          /\ conn.state = "broken" \/ rc.phase # "recv"
          /\ conn.acks = <<>> \/ sc.pos < Size
      BY <1>21 DEF SndError, SndChild, RcvOpen, receiver, options
    <2>2. ~Live /\ ~Answered
      BY <2>1, <1>t DEF Live, Answered
    <2>3. ~Said /\ ~Live' /\ (Said' <=> Said)
      BY <2>1, <2>2, <1>i, <1>said DEF Live
    <2> QED
      BY <2>3, <1>x
  \* the child of the receiver exits with a failure, or goes on
  <1>22. CASE RcvConnects
    <2>1. /\ rc.phase = "connect" /\ verdict' = verdict
          /\ rpipe' \in {Append(rpipe, "failed"), Append(rpipe, "active")}
          /\ rc'.phase = "none" \/ conn'.state = "pending"
      BY <1>22, <1>c, <1>t DEF RcvConnects, RcvChild, RcvExits, NoConn
    <2>2. ~Said
      BY <2>1, <1>r
    <2>3. ~Holds(rpipe', "done")
      <3>1. CASE rpipe' = Append(rpipe, "failed")
        BY <3>1, <2>2, <1>said, PipeFacts, <1>t DEF Statuses
      <3>2. CASE rpipe' = Append(rpipe, "active")
        BY <3>2, <2>2, <1>said, PipeFacts, <1>t DEF Statuses
      <3> QED
        BY <2>1, <3>1, <3>2
    <2>4. ~Live' /\ ~Said'
      BY <2>1, <2>2, <2>3, <1>said DEF Live
    <2> QED
      BY <2>4, <1>x
  <1>23. CASE RecvBlock
    <2>1. /\ UNCHANGED <<file, snd, sc, spipe, verdict>>
          /\ rc.phase = "recv" /\ conn.state = "up" /\ rc.pos = Len(disk)
          /\ sc.on => sc.pos = Len(disk) + Len(conn.data)
          /\ Len(disk) + Len(conn.data) <= Size
      BY <1>23, <1>t DEF RecvBlock, RcvChild, RcvOpen, sender, options, IInv, Receiving, Follows
    <2>2. NotFailed' /\ ~Said
      BY <2>1, <1>i, <1>r DEF Live, NotFailed
    <2>3. PICK n \in 1..Len(conn.data) :
              IF rc.pos + n >= Size
              THEN /\ conn' = [conn EXCEPT !.data = <<>>, !.acks = Acked(rc.pos + n)]
                   /\ RcvExits("done")
              ELSE /\ conn' = [conn EXCEPT !.data = SubSeq(@, n + 1, Len(@))]
                   /\ rc' = [rc EXCEPT !.pos = @ + n]
                   /\ rpipe' \in {rpipe} \cup (IF rpipe = <<>> THEN {<<"active">>} ELSE {})
      BY <1>23, BlockRead
    <2>4. n \in Nat /\ rc.pos + n <= Size /\ rc.pos + n \in Nat
      BY <2>1, <1>t
    <2>5. CASE rc.pos + n >= Size
      <3>1. conn'.acks = Append(conn.acks, (rc.pos + n) % AckModulo) /\ conn'.state = "up"
        BY <2>1, <2>3, <2>5, <1>t DEF Acked
      <3>2. rc.pos + n = Size
        BY <2>4, <2>5, <1>t
      <3>3. (rc.pos + n) % AckModulo = Size
        BY <3>2, <2>1, <1>g, <1>t, AckAtMost
      <3>4. /\ Len(conn'.acks) = Len(conn.acks) + 1 /\ Len(conn.acks) \in Nat
            /\ conn'.acks[Len(conn.acks) + 1] = Size
        BY <3>1, <3>3, <1>t, AppendProperties, LenProperties
      <3>5. conn'.acks # <<>> /\ conn'.acks[Len(conn'.acks)] = Size
        <4>1. Len(conn'.acks) # 0
          BY <3>4
        <4> QED
          BY <4>1, <3>4, EmptySeq
      <3>6. sc'.on => sc'.pos = Size
        <4>1. sc.on => sc.pos >= rc.pos + n /\ sc.pos <= Size
          BY <2>1, <2>4, <1>t
        <4> QED
          BY <4>1, <3>2, <2>1, <1>t
      <3>7. sc'.on => Answered'
        BY <3>1, <3>5, <3>6, <2>1, <1>g DEF Answered
      <3> QED
        BY <2>2, <3>7
    <2>6. CASE ~(rc.pos + n >= Size)
      <3>1. rpipe' = rpipe \/ rpipe' = <<"active">>
        BY <2>3, <2>6
      <3>2. ~Said'
        <4>1. CASE rpipe' = rpipe
          BY <4>1, <2>1, <2>2, <1>said
        <4>2. CASE rpipe' = <<"active">>
          <5>1. ~Holds(rpipe', "done")
            BY <4>2, PipeFacts, <1>t DEF Statuses
          <5> QED
            BY <5>1, <2>1, <2>2, <1>said
        <4> QED
          BY <3>1, <4>1, <4>2
      <3> QED
        BY <2>2, <3>2
    <2> QED
      BY <2>5, <2>6
  <1>24. CASE SendAck
    <2>1. /\ UNCHANGED <<file, snd, sc, spipe, verdict, rpipe>>
          /\ rc.phase = "recv" /\ conn.state = "up"
      BY <1>24 DEF SendAck, RcvChild, RcvOpen, sender, options
    <2>2. NotFailed' /\ ~Said'
      BY <2>1, <1>i, <1>r, <1>said DEF Live, NotFailed
    <2> QED
      BY <2>2
  <1>25. CASE RecvEnd
    <2>1. UNCHANGED <<file, snd, sc, spipe, verdict, conn>> /\ rc.phase = "recv" /\ rc'.phase = "none"
      BY <1>25, <1>c DEF RecvEnd, RcvChild, RcvOpen, RcvExits, sender, options
    <2>2. CASE conn.state = "up" /\ ~conn.sndOpen
      <3>1. NotFailed' /\ ~sc'.on
        BY <2>1, <2>2, <1>i DEF Live, NotFailed, SenderEnds
      <3> QED
        BY <3>1
    <2>3. CASE RcvExits("failed")
      <3>1. ~Holds(rpipe', "done")
        BY <2>1, <2>3, <1>r, <1>said, PipeFacts, <1>t DEF RcvExits, Statuses
      <3>2. ~Live' /\ ~Said'
        BY <3>1, <2>1, <1>r, <1>said DEF Live
      <3> QED
        BY <3>2, <1>x
    <2> QED
      BY <1>25, <2>2, <2>3 DEF RecvEnd
  <1>26. CASE Reset
    <2>1. rc.phase = "recv" /\ UNCHANGED <<rpipe, verdict>> /\ conn'.state = "broken"
      BY <1>26, <1>c DEF Reset, RcvOpen, receiver
    <2>2. ~Live' /\ ~Said'
      BY <2>1, <1>r, <1>said DEF Live
    <2> QED
      BY <2>2, <1>x
  <1>27. CASE Break \/ \E msg \in irc : LoseMessage(msg)
    BY <1>27, <1>f DEF Break, LoseMessage
  <1> QED
    BY <1>1, <1>7, <1>8, <1>9, <1>10, <1>11, <1>12, <1>13, <1>14, <1>15, <1>16, <1>17, <1>18,
       <1>19, <1>20, <1>21, <1>22, <1>23, <1>24, <1>25, <1>26, <1>27
    DEF Next, Users, Messages, MainLoops, SndChildStep, RcvChildStep, Network

\* Nothing is under way at first.
LEMMA EndsInit == Init => EndsInv /\ faults \in Nat
  <1> SUFFICES ASSUME Init PROVE EndsInv /\ faults \in Nat
    OBVIOUS
  <1>0. IInv
    BY InitHolds
  <1>e. Len(<<>>) = 0
    BY EmptySeq
  <1>1. PICK n \in Nat : file = [i \in 1..n |-> i]
    BY XferAssumption DEF Init
  <1>2. Size = n
    BY <1>1 DEF Size
  <1>3. SenderEnds
    BY DEF Init, SenderEnds, NoSndChild
  <1>4. Within
    <2>1. Room \in Nat /\ MaxOffers \in Nat
      BY XferAssumption
    <2>2. sc.pos = 0 /\ sc.ack = 0 /\ ~sc.on /\ snd.pos = 0 /\ rcv.start = 0 /\ conn.data = <<>> /\ offer = 0
          /\ irc = {} /\ rcv.status = "none" /\ disk = <<>>
      BY DEF Init, NoSndChild, NoConn
    <2> QED
      BY <1>1, <1>2, <1>e, <2>1, <2>2 DEF Within, Unfinished
  <1>5. Few
    <2>1. ~sc.on /\ conn.acks = <<>> /\ conn.data = <<>> /\ rc.lastAck = 0 /\ rc.pos = 0 /\ rc.phase = "none"
      BY DEF Init, NoSndChild, NoConn, NoRcvChild
    <2> QED
      BY <1>e, <2>1 DEF Few
  <1>6. SentWhenWhole /\ Agreed
    <2>1. ~sc.on /\ spipe = <<>> /\ snd.status = "none"
      BY DEF Init, NoSndChild
    <2> QED
      BY <1>e, <2>1 DEF SentWhenWhole, Agreed
  <1> QED
    BY <1>0, <1>3, <1>4, <1>5, <1>6 DEF EndsInv, Init

\* The second invariant holds.
LEMMA EndsHold == Spec => [](EndsInv /\ faults \in Nat)
  <1>1. EndsInv /\ faults \in Nat /\ [Next]_vars => (EndsInv /\ faults \in Nat)'
    BY InvariantStep, SenderEndsStep, WithinStep, FewStep, SentWhenWholeStep, AgreedStep, FaultsStep
    DEF EndsInv
  <1> QED
    BY EndsInit, <1>1, PTL DEF Spec

\* Sender, receiver and their children keep their types, no more than two
\* acknowledgements are on their way, and a transfer that has ended keeps no child,
\* socket, timer or message (xfer_close, xfer_network_child_kill).
THEOREM TransferAlwaysSound == Spec => []TransferSound
  <1>1. EndsInv => TransferSound
    <2> SUFFICES ASSUME EndsInv PROVE TypeOK /\ NothingLeftBehind
      BY DEF TransferSound
    <2>t. /\ offer \in Nat
          /\ snd \in [status : Status, sock : {"none", "listen", "conn"}, pos : Nat, timer : BOOLEAN]
          /\ sc \in [on : BOOLEAN, pos : Nat, ack : Nat, sentOk : BOOLEAN]
          /\ rcv \in [status : Status, start : Nat]
          /\ rc \in [phase : {"none", "connect", "recv"}, pos : Nat, lastAck : Nat]
          /\ conn \in [state : {"none", "pending", "up", "broken"}, sndOpen : BOOLEAN,
                       data : Seq(Nat), acks : Seq(Nat)]
          /\ disk \in Seq(Nat) /\ Len(disk) \in Nat /\ Size \in Nat /\ Len(disk) <= Size
          /\ verdict \in {"none", "failed", "done"}
      BY LenProperties DEF EndsInv, IInv, Typed, Size, Follows
    <2>1. /\ offer \in 0..MaxOffers /\ snd.pos \in 0..Size /\ sc.pos \in 0..Size /\ sc.ack \in 0..Size
          /\ rcv.start \in 0..Size
      BY <2>t, XferAssumption DEF EndsInv, Within
    <2>2. rc.pos \in 0..Size
      <3>1. rc.phase = "none" => rc.pos = 0
        BY DEF EndsInv, SenderEnds, NoRcvChild
      <3>2. rc.phase # "none" => rc.pos = Len(disk)
        BY DEF EndsInv, IInv, Receiving
      <3> QED
        BY <3>1, <3>2, <2>t
    <2>3. \A p \in {spipe, rpipe} : \A i \in DOMAIN p : p[i] \in {"active", "done", "failed"}
      BY DEF EndsInv, IInv, Typed, Statuses
    <2>4. Len(conn.data) <= Room /\ Len(conn.acks) <= 2
      BY DEF EndsInv, Within, Few
    <2>5. disk \in Seq(1..Size)
      <3>1. \A i \in 1..Len(disk) : disk[i] \in 1..Size
        <4>1. \A i \in 1..Len(disk) : disk[i] = file[0 + i]
          BY DEF EndsInv, IInv, Follows
        <4>2. \A i \in 1..Len(disk) : i \in 1..Size /\ 0 + i = i
          BY <2>t
        <4>3. \A i \in 1..Size : file[i] \in 1..Size
          BY DEF EndsInv, Within
        <4> QED
          BY <4>1, <4>2, <4>3
      <3>2. disk = [i \in 1..Len(disk) |-> disk[i]]
        BY <2>t, LenProperties
      <3>3. [i \in 1..Len(disk) |-> disk[i]] \in [1..Len(disk) -> 1..Size]
        BY <3>1
      <3>4. disk \in [1..Len(disk) -> 1..Size]
        BY <3>2, <3>3, Zenon
      <3> DEFINE S == 1..Size
      <3> HIDE DEF S
      <3>5. disk \in [1..Len(disk) -> S] /\ Len(disk) \in Nat
        BY <3>4, <2>t DEF S
      <3>6. disk \in Seq(S)
        BY <3>5, SeqDef, Zenon
      <3> QED
        BY <3>6 DEF S
    <2>6. TypeOK
      BY <2>t, <2>1, <2>2, <2>3, <2>4, <2>5 DEF TypeOK
    <2>7. NothingLeftBehind
      BY DEF EndsInv, SenderEnds, IInv, ReceiverQuiet, NothingLeftBehind
    <2> QED
      BY <2>6, <2>7
  <1> QED
    BY <1>1, EndsHold, PTL

\* "sent: OK" means that the file is received, unless the sender stopped waiting,
\* and a file that was received is not called failed by its sender without a fault
\* of the network (xfer_dcc_send_file_child, xfer_dcc_recv_file_child).
THEOREM EndsAlwaysAgree == Spec => []EndsAgree
  <1>1. EndsInv => EndsAgree
    BY DEF EndsInv, SentWhenWhole, Agreed, Said, EndsAgree, SentIsDelivered, BothAgree
  <1> QED
    BY <1>1, EndsHold, PTL
=============================================================================
