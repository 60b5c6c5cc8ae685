------------------------- MODULE IrcRedirectProofs -------------------------
(***************************************************************************)
(* Theorems about IrcRedirect, for every set of patterns and of answers,   *)
(* every number of commands, messages of the server, timeouts and          *)
(* connections.                                                            *)
(*                                                                         *)
(* Safe: how lines are carried from the wire to the queue of messages, and *)
(* how commands and redirections are numbered.  Linked: the messages on    *)
(* their way follow, in the order of the commands, the last one handled,   *)
(* and each redirection has exactly what it should have up to there.       *)
(* Told: so had the redirections that ended.                               *)
(***************************************************************************)
EXTENDS IrcRedirect, SequenceTheorems, TLAPS

\* What the server may send for an answer.
Sentence == {<<"privmsg">>} \cup UNION {Answers[p] : p \in Pattern}
Msg == [of : Nat, answer : Sentence, at : Nat, target : Target \cup {None}]
Redirect == [id : Nat, pattern : Pattern, string : Target \cup {None}, count : Nat,
             current_count : Nat, started : BOOLEAN, cmd_start_received : BOOLEAN,
             cmd_stop_received : BOOLEAN, output : Seq(Msg)]
Entry == [command : Nat, redirect : Nat]
Command == [pattern : Pattern, target : Target]
Halved == [msg : Msg, conn : Nat, half : {1, 2}]

Typed ==
    /\ connected \in BOOLEAN /\ receiving \in BOOLEAN /\ halved \in BOOLEAN
    /\ garbled \in BOOLEAN /\ orderly \in BOOLEAN /\ recounts \in BOOLEAN
    /\ DOMAIN redirects \subseteq Nat /\ redirects \in [DOMAIN redirects -> Redirect]
    /\ outqueue \in Seq(Entry)
    /\ unterminated \in Seq(Halved) /\ irc_recv_msgq \in Seq(Seq(Halved))
    /\ sent \in Seq(Nat) /\ reply \in Seq(Msg) /\ wire \in Seq(Msg)
    /\ commands \in Seq(Command)
    /\ reports \subseteq [redirect : Redirect, error : BOOLEAN]
    /\ connects \in Nat

-----------------------------------------------------------------------------
(* A redirection and a message.                                            *)

\* The redirection itself is the same.
Same(x, r) ==
    /\ x.id = r.id /\ x.pattern = r.pattern /\ x.string = r.string /\ x.count = r.count
    /\ x.started <=> r.started

\* irc_redirect_stop was called.
Ended(x, r) ==
    IF r.current_count + 1 > r.count THEN x.over /\ x.redirect.current_count = r.current_count
    ELSE /\ ~x.over /\ x.redirect.current_count = r.current_count + 1
         /\ ~x.redirect.cmd_start_received /\ ~x.redirect.cmd_stop_received

Goes(x, r, start, stop) ==
    /\ ~x.over /\ x.redirect.current_count = r.current_count
    /\ x.redirect.cmd_start_received <=> start
    /\ x.redirect.cmd_stop_received <=> stop

LEMMA AddedFacts ==
    ASSUME NEW r \in Redirect, NEW m \in Msg
    PROVE  /\ Added(r, m) \in Redirect /\ Same(Added(r, m), r)
           /\ Added(r, m).output = Append(r.output, m)
           /\ Added(r, m).current_count = r.current_count
           /\ Added(r, m).cmd_start_received = r.cmd_start_received
           /\ Added(r, m).cmd_stop_received = r.cmd_stop_received
<1>1. PICK o : o = Append(r.output, m)
  OBVIOUS
<1>2. o \in Seq(Msg)
  BY <1>1 DEF Redirect
<1>3. Added(r, m) = [r EXCEPT !.output = o]
  BY <1>1 DEF Added
<1> QED BY <1>1, <1>2, <1>3 DEF Redirect, Same

LEMMA ReceivedFacts ==
    ASSUME NEW a \in Redirect, NEW b, NEW c, b = StartReceived(a), c = StopReceived(a)
    PROVE  /\ b \in Redirect /\ Same(b, a) /\ b.output = a.output /\ b.current_count = a.current_count
           /\ b.cmd_start_received /\ b.cmd_stop_received = a.cmd_stop_received
           /\ c \in Redirect /\ Same(c, a) /\ c.output = a.output /\ c.current_count = a.current_count
           /\ c.cmd_stop_received /\ c.cmd_start_received = a.cmd_start_received
<1>1. PICK yes \in BOOLEAN : yes = TRUE
  OBVIOUS
<1>2. b = [a EXCEPT !.cmd_start_received = yes] /\ c = [a EXCEPT !.cmd_stop_received = yes]
  BY <1>1, Zenon DEF StartReceived, StopReceived
<1> QED BY <1>1, <1>2 DEF Redirect, Same

LEMMA StopFacts ==
    ASSUME NEW r \in Redirect
    PROVE  /\ Stop(r, FALSE).redirect \in Redirect /\ Same(Stop(r, FALSE).redirect, r)
           /\ Stop(r, FALSE).redirect.output = r.output
           /\ Stop(r, FALSE).over \in BOOLEAN
           /\ Ended(Stop(r, FALSE), r)
<1>1. CASE r.current_count + 1 > r.count
  BY <1>1 DEF Stop, Same, Ended
<1>2. CASE ~(r.current_count + 1 > r.count)
  <2>1. PICK c : c = r.current_count + 1
    OBVIOUS
  <2>2. c \in Nat
    BY <2>1 DEF Redirect
  <2>3. PICK x : x = [r EXCEPT !.current_count = c, !.cmd_start_received = FALSE,
                               !.cmd_stop_received = FALSE]
    OBVIOUS
  <2>4. x \in Redirect /\ Same(x, r) /\ x.output = r.output /\ x.current_count = c
        /\ ~x.cmd_start_received /\ ~x.cmd_stop_received
    BY <2>2, <2>3 DEF Redirect, Same
  <2>6. PICK y : y = Stop(r, FALSE)
    OBVIOUS
  <2>5. y = [redirect |-> x, over |-> FALSE]
    BY <1>2, <2>1, <2>3, <2>6, Zenon DEF Stop
  <2>7. y.redirect = x /\ y.over = FALSE
    BY <2>5
  <2>8. Ended(y, r)
    BY <1>2, <2>1, <2>4, <2>7 DEF Ended
  <2> QED BY <2>4, <2>6, <2>7, <2>8
<1> QED BY <1>1, <1>2

\* It has the message if it took it.
Gives(x, r, m) ==
    /\ x.taken => r.started /\ x.redirect.output = Append(r.output, m)
    /\ ~x.taken => x.redirect.output = r.output

\* What a message does to a redirection.
LEMMA OneCases ==
    ASSUME NEW r \in Redirect, NEW m \in Msg, NEW x, x = One(r, m),
           NEW p, p = r.pattern
    PROVE  /\ x.redirect \in Redirect /\ Same(x.redirect, r) /\ x.over \in BOOLEAN
           /\ x.taken \in BOOLEAN /\ Gives(x, r, m)
           /\ ~r.started => ~x.taken /\ ~x.over /\ x.redirect = r
           /\ r.started /\ r.cmd_stop_received => (x.taken <=> Match(r, m, CmdExtra[p])) /\ Ended(x, r)
           /\ r.started /\ ~r.cmd_stop_received =>
                 LET start == ~r.cmd_start_received /\ Match(r, m, CmdStart[p])
                     stop  == Match(r, m, CmdStop[p])
                 IN  /\ start => x.taken /\ Goes(x, r, TRUE, FALSE)
                     /\ ~start /\ ~stop /\ ~r.cmd_start_received => ~x.taken /\ ~x.over /\ x.redirect = r
                     /\ ~start /\ ~stop /\ r.cmd_start_received => x.taken /\ Goes(x, r, TRUE, FALSE)
                     /\ ~start /\ stop =>
                           /\ x.taken
                           /\ IF CmdExtra[p] = {} \/ Match(r, m, CmdExtra[p]) THEN Ended(x, r)
                              ELSE Goes(x, r, r.cmd_start_received, TRUE)
<1>a. PICK a : a = Added(r, m)
  OBVIOUS
<1>b. /\ a \in Redirect /\ Same(a, r) /\ a.output = Append(r.output, m)
      /\ a.current_count = r.current_count
      /\ a.cmd_start_received = r.cmd_start_received /\ a.cmd_stop_received = r.cmd_stop_received
  BY <1>a, AddedFacts
<1>c. PICK s, t : s = Stop(r, FALSE) /\ t = Stop(a, FALSE)
  OBVIOUS
<1>d. /\ s.redirect \in Redirect /\ Same(s.redirect, r) /\ s.redirect.output = r.output
      /\ s.over \in BOOLEAN /\ Ended(s, r)
      /\ t.redirect \in Redirect /\ Same(t.redirect, a) /\ t.redirect.output = a.output
      /\ t.over \in BOOLEAN /\ Ended(t, a)
  BY <1>b, <1>c, StopFacts
<1>e. Same(t.redirect, r) /\ Ended(t, r)
  BY <1>b, <1>d DEF Same, Ended
<1>f. PICK b, c : b = StartReceived(a) /\ c = StopReceived(a)
  OBVIOUS
<1>m. /\ b \in Redirect /\ Same(b, a) /\ b.output = a.output /\ b.current_count = a.current_count
      /\ b.cmd_start_received /\ b.cmd_stop_received = a.cmd_stop_received
      /\ c \in Redirect /\ Same(c, a) /\ c.output = a.output /\ c.current_count = a.current_count
      /\ c.cmd_stop_received /\ c.cmd_start_received = a.cmd_start_received
  BY <1>b, <1>f, ReceivedFacts
<1>g. Same(b, r) /\ Same(c, r)
  BY <1>b, <1>m DEF Same
<1>i. r.started \in BOOLEAN /\ r.cmd_start_received \in BOOLEAN /\ r.cmd_stop_received \in BOOLEAN
  BY DEF Redirect
<1>j. Same(r, r)
  BY DEF Same
<1>k. PICK start, stop, extra : /\ start = Match(r, m, CmdStart[p]) /\ stop = Match(r, m, CmdStop[p])
                                /\ extra = Match(r, m, CmdExtra[p])
  OBVIOUS
<1>l. start \in BOOLEAN /\ stop \in BOOLEAN /\ extra \in BOOLEAN
  BY <1>k DEF Match
<1>1. CASE ~r.started
  <2>1. x = Takes(Keep(r), FALSE)
    BY <1>1 DEF One
  <2>2. x.redirect = r /\ x.over = FALSE /\ x.taken = FALSE
    BY <2>1 DEF Takes, Keep
  <2>3. Gives(x, r, m)
    BY <2>2 DEF Gives
  <2> QED BY <1>1, <1>j, <2>2, <2>3
<1>2. CASE r.started /\ r.cmd_stop_received
  <2>1. x = IF extra THEN Takes(t, TRUE) ELSE Takes(s, FALSE)
    BY <1>2, <1>a, <1>c, <1>k DEF One
  <2>2. /\ x.redirect = (IF extra THEN t.redirect ELSE s.redirect)
        /\ x.over = (IF extra THEN t.over ELSE s.over) /\ (x.taken <=> extra)
        /\ x.taken \in BOOLEAN
    <3>1. CASE extra
      <4>1. x = [redirect |-> t.redirect, over |-> t.over, taken |-> TRUE]
        BY <2>1, <3>1, Zenon DEF Takes
      <4> QED BY <3>1, <4>1
    <3>2. CASE ~extra
      <4>1. x = [redirect |-> s.redirect, over |-> s.over, taken |-> FALSE]
        BY <2>1, <3>2, Zenon DEF Takes
      <4> QED BY <3>2, <4>1
    <3> QED BY <3>1, <3>2
  <2>3. Ended(x, r)
    BY <1>d, <1>e, <2>2 DEF Ended
  <2>4. /\ x.redirect \in Redirect /\ Same(x.redirect, r) /\ x.over \in BOOLEAN
        /\ x.redirect.output = (IF extra THEN Append(r.output, m) ELSE r.output)
    BY <1>b, <1>d, <1>e, <1>l, <2>2
  <2>5. x.taken \in BOOLEAN /\ (x.taken <=> Match(r, m, CmdExtra[p]))
    BY <1>k, <2>2, Zenon
  <2>6. Gives(x, r, m)
    BY <1>2, <1>l, <2>2, <2>4 DEF Gives
  <2> QED BY <1>2, <2>3, <2>4, <2>5, <2>6
<1>3. CASE r.started /\ ~r.cmd_stop_received /\ ~r.cmd_start_received /\ start
  <2>1. x = Takes(Keep(b), TRUE)
    BY <1>3, <1>a, <1>f, <1>k, Zenon DEF One
  <2>2. x.redirect = b /\ x.over = FALSE /\ x.taken = TRUE
    BY <2>1 DEF Takes, Keep
  <2>3. Goes(x, r, TRUE, FALSE)
    BY <1>3, <1>b, <1>g, <1>m, <2>2 DEF Goes
  <2>4. Gives(x, r, m)
    BY <1>3, <1>b, <1>m, <2>2 DEF Gives
  <2> QED BY <1>3, <1>b, <1>g, <1>m, <1>k, <2>2, <2>3, <2>4
<1>4. CASE r.started /\ ~r.cmd_stop_received /\ ~(~r.cmd_start_received /\ start) /\ ~stop /\ ~r.cmd_start_received
  <2>1. x = Takes(Keep(r), FALSE)
    BY <1>4, <1>k DEF One
  <2>2. x.redirect = r /\ x.over = FALSE /\ x.taken = FALSE
    BY <2>1 DEF Takes, Keep
  <2>3. Gives(x, r, m)
    BY <2>2 DEF Gives
  <2> QED BY <1>4, <1>j, <1>k, <2>2, <2>3
<1>5. CASE r.started /\ ~r.cmd_stop_received /\ ~(~r.cmd_start_received /\ start) /\ ~stop /\ r.cmd_start_received
  <2>1. x = Takes(Keep(a), TRUE)
    BY <1>5, <1>a, <1>k DEF One
  <2>2. x.redirect = a /\ x.over = FALSE /\ x.taken = TRUE
    BY <2>1 DEF Takes, Keep
  <2>3. Goes(x, r, TRUE, FALSE)
    BY <1>5, <1>b, <2>2 DEF Goes
  <2>4. Gives(x, r, m)
    BY <1>5, <1>b, <2>2 DEF Gives
  <2> QED BY <1>5, <1>b, <1>k, <2>2, <2>3, <2>4
<1>6. CASE /\ r.started /\ ~r.cmd_stop_received /\ ~(~r.cmd_start_received /\ start) /\ stop
           /\ CmdExtra[p] = {} \/ extra
  <2>1. x = Takes(t, TRUE)
    BY <1>6, <1>a, <1>c, <1>k DEF One
  <2>2. x.redirect = t.redirect /\ x.over = t.over /\ x.taken = TRUE
    BY <2>1 DEF Takes
  <2>3. Ended(x, r)
    BY <1>e, <2>2 DEF Ended
  <2>4. Gives(x, r, m)
    BY <1>6, <1>b, <1>d, <2>2 DEF Gives
  <2> QED BY <1>6, <1>b, <1>d, <1>e, <1>k, <2>2, <2>3, <2>4
<1>7. CASE /\ r.started /\ ~r.cmd_stop_received /\ ~(~r.cmd_start_received /\ start) /\ stop
           /\ ~(CmdExtra[p] = {} \/ extra)
  <2>1. x = Takes(Keep(c), TRUE)
    BY <1>7, <1>a, <1>f, <1>k, Zenon DEF One
  <2>2. x.redirect = c /\ x.over = FALSE /\ x.taken = TRUE
    BY <2>1 DEF Takes, Keep
  <2>3. Goes(x, r, r.cmd_start_received, TRUE)
    BY <1>7, <1>b, <1>g, <1>m, <2>2 DEF Goes
  <2>4. Gives(x, r, m)
    BY <1>7, <1>b, <1>m, <2>2 DEF Gives
  <2> QED BY <1>7, <1>b, <1>g, <1>m, <1>k, <2>2, <2>3, <2>4
<1> QED BY <1>i, <1>l, <1>1, <1>2, <1>3, <1>4, <1>5, <1>6, <1>7

\* The same, one case after the other.
LEMMA OneOutput ==
    ASSUME NEW r \in Redirect, NEW m \in Msg, NEW x, x = One(r, m)
    PROVE  /\ x.redirect \in Redirect /\ Same(x.redirect, r) /\ x.over \in BOOLEAN
           /\ x.taken \in BOOLEAN
           /\ x.taken => x.redirect.output = Append(r.output, m)
           /\ ~x.taken => x.redirect.output = r.output
<1>1. PICK p : p = r.pattern
  OBVIOUS
<1>2. x.redirect \in Redirect /\ Same(x.redirect, r) /\ x.over \in BOOLEAN /\ x.taken \in BOOLEAN
  BY <1>1, OneCases
<1>3. Gives(x, r, m)
  BY <1>1, OneCases
<1> QED BY <1>2, <1>3 DEF Gives

\* It goes on, having got the start, or the stop.
GoesOn(x, r) == ~x.over /\ x.redirect.current_count = r.current_count

LEMMA OneNone ==
    ASSUME NEW r \in Redirect, NEW m \in Msg, NEW x, x = One(r, m),
           \/ ~r.started
           \/ /\ ~r.cmd_stop_received /\ ~r.cmd_start_received
              /\ ~Match(r, m, CmdStart[r.pattern]) /\ ~Match(r, m, CmdStop[r.pattern])
    PROVE  ~x.taken /\ ~x.over /\ x.redirect = r
<1>1. PICK p : p = r.pattern
  OBVIOUS
<1>2. r.started \in BOOLEAN
  BY DEF Redirect
<1>3. CASE ~r.started
  BY <1>1, <1>3, OneCases
<1>4. CASE r.started
  <2>1. /\ ~r.cmd_stop_received /\ ~r.cmd_start_received
        /\ ~Match(r, m, CmdStart[p]) /\ ~Match(r, m, CmdStop[p])
    BY <1>1, <1>4
  <2> QED BY <1>1, <1>4, <2>1, OneCases
<1> QED BY <1>2, <1>3, <1>4

LEMMA OneStart ==
    ASSUME NEW r \in Redirect, NEW m \in Msg, NEW x, x = One(r, m), r.started,
           ~r.cmd_stop_received, ~r.cmd_start_received, Match(r, m, CmdStart[r.pattern])
    PROVE  /\ x.taken /\ GoesOn(x, r) /\ x.redirect.cmd_start_received
           /\ ~x.redirect.cmd_stop_received
<1>1. PICK p : p = r.pattern
  OBVIOUS
<1>2. Match(r, m, CmdStart[p])
  BY <1>1
<1>3. x.taken /\ Goes(x, r, TRUE, FALSE)
  BY <1>1, <1>2, OneCases
<1> QED BY <1>3, Zenon DEF Goes, GoesOn

LEMMA OneMiddle ==
    ASSUME NEW r \in Redirect, NEW m \in Msg, NEW x, x = One(r, m), r.started,
           ~r.cmd_stop_received, r.cmd_start_received, ~Match(r, m, CmdStop[r.pattern])
    PROVE  /\ x.taken /\ GoesOn(x, r) /\ x.redirect.cmd_start_received
           /\ ~x.redirect.cmd_stop_received
<1>1. PICK p : p = r.pattern
  OBVIOUS
<1>2. ~Match(r, m, CmdStop[p])
  BY <1>1
<1>3. x.taken /\ Goes(x, r, TRUE, FALSE)
  BY <1>1, <1>2, OneCases
<1> QED BY <1>3, Zenon DEF Goes, GoesOn

LEMMA OneStop ==
    ASSUME NEW r \in Redirect, NEW m \in Msg, NEW x, x = One(r, m), r.started,
           ~r.cmd_stop_received, r.cmd_start_received \/ ~Match(r, m, CmdStart[r.pattern]),
           Match(r, m, CmdStop[r.pattern])
    PROVE  /\ x.taken
           /\ \/ Ended(x, r) /\ (CmdExtra[r.pattern] = {} \/ Match(r, m, CmdExtra[r.pattern]))
              \/ /\ GoesOn(x, r) /\ x.redirect.cmd_stop_received
                 /\ ~(CmdExtra[r.pattern] = {} \/ Match(r, m, CmdExtra[r.pattern]))
<1>1. PICK p : p = r.pattern
  OBVIOUS
<1>2. Match(r, m, CmdStop[p]) /\ ~(~r.cmd_start_received /\ Match(r, m, CmdStart[p]))
  BY <1>1
<1>3. /\ x.taken
      /\ IF CmdExtra[p] = {} \/ Match(r, m, CmdExtra[p]) THEN Ended(x, r)
         ELSE Goes(x, r, r.cmd_start_received, TRUE)
  BY <1>1, <1>2, OneCases
<1>4. Goes(x, r, r.cmd_start_received, TRUE) => GoesOn(x, r) /\ x.redirect.cmd_stop_received
  BY Zenon DEF Goes, GoesOn
<1> QED BY <1>1, <1>3, <1>4, Zenon

LEMMA OneExtra ==
    ASSUME NEW r \in Redirect, NEW m \in Msg, NEW x, x = One(r, m), r.started, r.cmd_stop_received
    PROVE  (x.taken <=> Match(r, m, CmdExtra[r.pattern])) /\ Ended(x, r)
<1>1. PICK p : p = r.pattern
  OBVIOUS
<1>2. (x.taken <=> Match(r, m, CmdExtra[p])) /\ Ended(x, r)
  BY <1>1, OneCases
<1> QED BY <1>1, <1>2

-----------------------------------------------------------------------------
(* The numbers of the commands.                                            *)

Given == Len(commands)
\* the last command that is not in outqueue
Queued == Given - Len(outqueue)

\* r is the redirection of its commands.
Serves(r) ==
    \A k \in Ids(r) : /\ k \in 1 .. Given /\ commands[k].pattern = r.pattern
                      /\ r.string = None \/ commands[k].target = r.string

\* The redirection n: it has started when its command was sent; one that may wait
\* for an extra message does not go on with another answer, if none "recounts".
Placed(n, r) ==
    /\ r.id = n /\ n >= 1 /\ r.current_count \in 1 .. r.count
    /\ Serves(r)
    /\ r.started <=> n <= Queued
    /\ r.cmd_start_received \/ r.cmd_stop_received => r.started
    /\ r.cmd_stop_received => CmdExtra[r.pattern] # {}
    /\ ~recounts => r.count = 1 \/ CmdExtra[r.pattern] = {}

\* Commands are sent, and answered, in the order of their numbers, and the
\* redirections in the list have one number after the other.
Numbered ==
    /\ Len(outqueue) + Len(sent) <= Given
    /\ \A i \in 1 .. Len(outqueue) : /\ outqueue[i].command = Queued + i
                                     /\ outqueue[i].redirect \in {0, Queued + i}
    /\ \A i \in 1 .. Len(sent) : sent[i] = Queued - Len(sent) + i
    /\ \A n \in DOMAIN redirects :
          /\ Placed(n, redirects[n])
          /\ n > Queued => outqueue[n - Queued].redirect = n
          /\ \A k \in DOMAIN redirects : k < n => k + redirects[k].count <= n

Off == ~connected => /\ DOMAIN redirects = {} /\ outqueue = <<>> /\ unterminated = <<>>
                     /\ sent = <<>> /\ reply = <<>> /\ wire = <<>> /\ ~halved /\ ~receiving

LEMMA Lengths ==
    ASSUME Typed
    PROVE  Given \in Nat /\ Len(outqueue) \in Nat /\ Len(sent) \in Nat /\ Queued \in Int
BY DEF Typed, Given, Queued

LEMMA Members ==
    ASSUME NEW S, NEW s \in Seq(S)
    PROVE  /\ Len(s) \in Nat /\ DOMAIN s = 1 .. Len(s) /\ \A i \in 1 .. Len(s) : s[i] \in S
           /\ s # <<>> => /\ Len(s) >= 1 /\ Head(s) = s[1] /\ Head(s) \in S /\ Tail(s) \in Seq(S)
                          /\ Len(Tail(s)) = Len(s) - 1
                          /\ \A i \in 1 .. Len(s) - 1 : Tail(s)[i] = s[i + 1]
OBVIOUS

LEMMA AppendFacts ==
    ASSUME NEW S, NEW s \in Seq(S), NEW x \in S
    PROVE  /\ Append(s, x) \in Seq(S) /\ Len(Append(s, x)) = Len(s) + 1
           /\ \A i \in 1 .. Len(s) : Append(s, x)[i] = s[i]
           /\ Append(s, x)[Len(s) + 1] = x
OBVIOUS

LEMMA ConcatFacts ==
    ASSUME NEW S, NEW s \in Seq(S), NEW t \in Seq(S)
    PROVE  /\ s \o t \in Seq(S) /\ Len(s \o t) = Len(s) + Len(t)
           /\ \A i \in 1 .. Len(s) : (s \o t)[i] = s[i]
           /\ \A i \in 1 .. Len(t) : (s \o t)[Len(s) + i] = t[i]
<1>1. Len(s) \in Nat /\ Len(t) \in Nat
  OBVIOUS
<1>2. \A i \in 1 .. Len(t) : Len(s) + i \in 1 .. Len(s) + Len(t)
  BY <1>1
<1> QED BY <1>1, <1>2

LEMMA RedirectFields ==
    ASSUME NEW r \in Redirect
    PROVE  /\ r.id \in Nat /\ r.count \in Nat /\ r.current_count \in Nat /\ r.pattern \in Pattern
           /\ r.started \in BOOLEAN /\ r.cmd_start_received \in BOOLEAN
           /\ r.cmd_stop_received \in BOOLEAN /\ r.output \in Seq(Msg)
           /\ r.string \in Target \cup {None}
BY DEF Redirect

LEMMA SentenceFacts ==
    ASSUME NEW a \in Sentence
    PROVE  Len(a) \in Nat /\ Len(a) >= 1 /\ DOMAIN a = 1 .. Len(a)
<1>1. CASE a = <<"privmsg">>
  BY <1>1
<1>2. ASSUME NEW p \in Pattern, a \in Answers[p]
      PROVE  Len(a) \in Nat /\ Len(a) >= 1 /\ DOMAIN a = 1 .. Len(a)
  BY <1>2, RedirectAssumption DEF RedirectAssumption
<1> QED BY <1>1, <1>2 DEF Sentence

LEMMA NoiseFacts ==
    /\ Noise \in Msg /\ Noise.of = 0 /\ Noise.answer = <<"privmsg">> /\ Noise.at = 1
    /\ Noise.target = None /\ Len(Noise.answer) = 1 /\ Numeric(Noise) = "privmsg"
<1>1. PICK a, n, t : a = <<"privmsg">> /\ n = 0 /\ t = None
  OBVIOUS
<1>2. a \in Sentence /\ Len(a) = 1 /\ a[1] = "privmsg"
  BY <1>1 DEF Sentence
<1>3. Noise = [of |-> n, answer |-> a, at |-> 1, target |-> t]
  BY <1>1, Zenon DEF Noise, Line
<1>4. n \in Nat /\ t \in Target \cup {None}
  BY <1>1
<1>5. PICK o : o = Noise
  OBVIOUS
<1>6. o \in Msg /\ o.of = n /\ o.answer = a /\ o.at = 1 /\ o.target = t
  BY <1>2, <1>3, <1>4, <1>5 DEF Msg
<1>7. Numeric(o) = "privmsg"
  BY <1>2, <1>6 DEF Numeric
<1> QED BY <1>1, <1>2, <1>5, <1>6, <1>7

\* The redirections that end with the message.
Overs(list, m) == {n \in Reached(list, m) : One(list[n], m).over}

\* What irc_redirect_message does to the list.
Handled(list, m, x) ==
    /\ Reached(list, m) \subseteq DOMAIN list /\ Overs(list, m) \subseteq Reached(list, m)
    /\ DOMAIN x.redirects = DOMAIN list \ Overs(list, m)
    /\ \A n \in DOMAIN list \ Overs(list, m) :
          x.redirects[n] = IF n \in Reached(list, m) THEN One(list[n], m).redirect ELSE list[n]
    /\ x.redirects \in [DOMAIN list \ Overs(list, m) -> Redirect]
    /\ x.reports = {Report(One(list[n], m).redirect, FALSE) : n \in Overs(list, m)}
    /\ x.reports \subseteq [redirect : Redirect, error : BOOLEAN]

LEMMA MessageFacts ==
    ASSUME NEW list, DOMAIN list \subseteq Nat, list \in [DOMAIN list -> Redirect], NEW m \in Msg,
           NEW x, x = Message(list, m)
    PROVE  Handled(list, m, x)
<1>a. PICK S : S = Reached(list, m)
  OBVIOUS
<1>b. PICK over : over = Overs(list, m)
  OBVIOUS
<1>c. over = {n \in S : One(list[n], m).over}
  BY <1>a, <1>b DEF Overs
<1>1. S \subseteq DOMAIN list /\ over \subseteq S
  BY <1>a, <1>c DEF Reached
<1>2. \A n \in DOMAIN list : One(list[n], m).redirect \in Redirect
  <2> SUFFICES ASSUME NEW n \in DOMAIN list
               PROVE  One(list[n], m).redirect \in Redirect
    OBVIOUS
  <2>1. PICK r, y, p : r = list[n] /\ y = One(r, m) /\ p = r.pattern
    OBVIOUS
  <2>2. r \in Redirect
    BY <2>1
  <2>3. y.redirect \in Redirect
    BY <2>1, <2>2, OneCases
  <2> QED BY <2>1, <2>3
<1>3. PICK y : y = [n \in S |-> One(list[n], m)]
  OBVIOUS
<1>4. DOMAIN y = S /\ \A n \in S : y[n] = One(list[n], m)
  BY <1>3
<1>5. {n \in DOMAIN y : y[n].over} = over
  BY <1>4, <1>c
<1>6. x.redirects = [n \in DOMAIN list \ over |-> IF n \in S THEN y[n].redirect ELSE list[n]]
  BY <1>3, <1>4, <1>5, <1>a DEF Message
<1>7. x.reports = {Report(y[n].redirect, FALSE) : n \in over}
  BY <1>3, <1>4, <1>5, <1>a DEF Message
<1>8. \A n \in over : One(list[n], m).redirect \in Redirect
  BY <1>1, <1>2
<1>9. \A r \in Redirect : Report(r, FALSE) \in [redirect : Redirect, error : BOOLEAN]
  BY DEF Report
<1>10. \A n \in DOMAIN list \ over :
         x.redirects[n] = IF n \in S THEN One(list[n], m).redirect ELSE list[n]
  BY <1>4, <1>6
<1>11. DOMAIN x.redirects = DOMAIN list \ over
  BY <1>6
<1>12. \A n \in DOMAIN list \ over :
          (IF n \in S THEN y[n].redirect ELSE list[n]) \in Redirect
  BY <1>2, <1>4
<1>13. x.redirects \in [DOMAIN list \ over -> Redirect]
  BY <1>6, <1>12
<1>14. x.reports = {Report(One(list[n], m).redirect, FALSE) : n \in over}
  <2>1. \A n \in over : y[n] = One(list[n], m)
    BY <1>1, <1>4
  <2> QED BY <1>7, <2>1
<1>15. x.reports \subseteq [redirect : Redirect, error : BOOLEAN]
  BY <1>8, <1>9, <1>14
<1> QED BY <1>a, <1>b, <1>1, <1>10, <1>11, <1>13, <1>14, <1>15 DEF Handled

LEMMA RedirectsHandled ==
    ASSUME Typed, NEW m \in Msg, NEW x, x = Message(redirects, m)
    PROVE  Handled(redirects, m, x)
BY MessageFacts DEF Typed

-----------------------------------------------------------------------------
(* Every variable has its type.                                            *)

LEMMA HalfFacts ==
    ASSUME NEW m \in Msg, NEW i \in {1, 2}, connects \in Nat
    PROVE  /\ Half(m, i) \in Halved /\ Half(m, i).msg = m /\ Half(m, i).half = i
           /\ Halves(m) = Append(<<Half(m, 1)>>, Half(m, 2))
           /\ Last(Halves(m)) = Half(m, 2) /\ Len(Halves(m)) = 2 /\ Halves(m) \in Seq(Halved)
<1>1. PICK a, b : a = Half(m, 1) /\ b = Half(m, 2)
  OBVIOUS
<1>2. a \in Halved /\ a.half = 1 /\ a.msg = m /\ b \in Halved /\ b.half = 2 /\ b.msg = m
  BY <1>1 DEF Half, Halved
<1>3. Halves(m) = <<a, b>>
  BY <1>1 DEF Halves
<1>4. <<a, b>> = Append(<<a>>, b) /\ <<a, b>>[2] = b /\ Len(<<a, b>>) = 2 /\ <<a, b>> \in Seq(Halved)
  BY <1>2
<1>5. Last(Halves(m)) = b
  BY <1>3, <1>4 DEF Last
<1> QED BY <1>1, <1>2, <1>3, <1>4, <1>5

LEMMA NewRedirectFacts ==
    ASSUME NEW n \in Nat, NEW p \in Pattern, NEW s \in Target \cup {None}, NEW c \in Nat,
           NEW r, r = NewRedirect(n, p, s, c)
    PROVE  /\ r \in Redirect /\ r.id = n /\ r.pattern = p /\ r.string = s /\ r.count = c
           /\ r.current_count = 1 /\ ~r.started /\ ~r.cmd_start_received /\ ~r.cmd_stop_received
           /\ r.output = <<>>
<1>1. PICK no \in BOOLEAN : no = FALSE
  OBVIOUS
<1>2. PICK o : o = <<>>
  OBVIOUS
<1>3. o \in Seq(Msg)
  BY <1>2
<1>4. r = [id |-> n, pattern |-> p, string |-> s, count |-> c, current_count |-> 1,
           started |-> no, cmd_start_received |-> no, cmd_stop_received |-> no, output |-> o]
  BY <1>1, <1>2, Zenon DEF NewRedirect
<1> QED BY <1>1, <1>2, <1>3, <1>4 DEF Redirect

LEMMA StartedFacts ==
    ASSUME NEW r \in Redirect, NEW x, x = [r EXCEPT !.started = TRUE]
    PROVE  /\ x \in Redirect /\ x.started /\ x.id = r.id /\ x.pattern = r.pattern
           /\ x.string = r.string /\ x.count = r.count /\ x.current_count = r.current_count
           /\ x.cmd_start_received = r.cmd_start_received
           /\ x.cmd_stop_received = r.cmd_stop_received /\ x.output = r.output
BY DEF Redirect

LEMMA ReportFacts ==
    ASSUME NEW r, NEW e \in BOOLEAN, NEW x, x = Report(r, e)
    PROVE  /\ x.redirect = r /\ x.error = e
           /\ r \in Redirect => x \in [redirect : Redirect, error : BOOLEAN]
<1>1. x = [redirect |-> r, error |-> e]
  BY DEF Report
<1> QED BY <1>1

LEMMA StopError ==
    ASSUME NEW r, NEW x, x = Report(Stop(r, TRUE).redirect, TRUE)
    PROVE  x.redirect = r /\ x.error /\ (r \in Redirect => x \in [redirect : Redirect, error : BOOLEAN])
<1>1. PICK yes \in BOOLEAN : yes = TRUE
  OBVIOUS
<1>2. Stop(r, yes) = [redirect |-> r, over |-> yes]
  BY <1>1, Zenon DEF Stop
<1>3. [redirect |-> r, over |-> yes].redirect = r
  OBVIOUS
<1>4. Stop(r, yes).redirect = r
  BY <1>2, <1>3
<1>5. x = Report(r, yes)
  BY <1>1, <1>4, Zenon
<1>6. yes \in BOOLEAN
  BY <1>1
<1>7. x.redirect = r /\ x.error = yes /\ (r \in Redirect => x \in [redirect : Redirect, error : BOOLEAN])
  BY <1>5, <1>6, ReportFacts, Zenon
<1> QED BY <1>1, <1>7, Zenon

LEMMA InitTyped == Init => Typed
<1>1. SUFFICES ASSUME Init PROVE Typed
  OBVIOUS
<1>2. DOMAIN redirects = {}
  BY <1>1 DEF Init
<1>3. redirects \in [DOMAIN redirects -> Redirect]
  BY <1>1, <1>2 DEF Init
<1>4. /\ connected \in BOOLEAN /\ receiving \in BOOLEAN /\ halved \in BOOLEAN
      /\ garbled \in BOOLEAN /\ orderly \in BOOLEAN /\ recounts \in BOOLEAN
  BY <1>1, Zenon DEF Init
<1>5. /\ outqueue = <<>> /\ unterminated = <<>> /\ irc_recv_msgq = <<>> /\ sent = <<>>
      /\ reply = <<>> /\ wire = <<>> /\ commands = <<>> /\ reports = {} /\ connects = 1
  BY <1>1 DEF Init
<1> QED BY <1>2, <1>3, <1>4, <1>5 DEF Typed

LEMMA DisconnectedTyped ==
    ASSUME Typed, Disconnected
    PROVE  /\ connected' \in BOOLEAN /\ halved' \in BOOLEAN
           /\ DOMAIN redirects' \subseteq Nat /\ redirects' \in [DOMAIN redirects' -> Redirect]
           /\ outqueue' \in Seq(Entry) /\ unterminated' \in Seq(Halved)
           /\ sent' \in Seq(Nat) /\ reply' \in Seq(Msg) /\ wire' \in Seq(Msg)
<1>1. DOMAIN redirects' = {} /\ redirects' = <<>> /\ outqueue' = <<>> /\ unterminated' = <<>>
  BY DEF Disconnected, Closed
<1>2. redirects' \in [DOMAIN redirects' -> Redirect]
  BY <1>1
<1>3. connected' \in BOOLEAN /\ halved' \in BOOLEAN
  BY Zenon DEF Disconnected
<1>4. sent' = <<>> /\ reply' = <<>> /\ wire' = <<>>
  BY DEF Disconnected
<1> QED BY <1>1, <1>2, <1>3, <1>4

LEMMA AddBufferTyped ==
    ASSUME Typed, AddBuffer
    PROVE  Typed'
<1>1. wire \in Seq(Msg) /\ wire # <<>> /\ connects \in Nat /\ unterminated \in Seq(Halved)
      /\ irc_recv_msgq \in Seq(Seq(Halved))
  BY DEF Typed, AddBuffer
<1>2. PICK h : h = Half(Head(wire), IF halved THEN 2 ELSE 1)
  OBVIOUS
<1>3. Head(wire) \in Msg /\ Tail(wire) \in Seq(Msg)
  BY <1>1
<1>4. h \in Halved
  BY <1>1, <1>2, <1>3, HalfFacts
<1>5. PICK line : line = Append(unterminated, h)
  OBVIOUS
<1>6. line \in Seq(Halved)
  BY <1>1, <1>4, <1>5
<1>7. Append(irc_recv_msgq, line) \in Seq(Seq(Halved))
  BY <1>1, <1>6
<1>8. /\ halved => irc_recv_msgq' = Append(irc_recv_msgq, line) /\ unterminated' = <<>>
                   /\ wire' = Tail(wire)
      /\ ~halved => unterminated' = line /\ irc_recv_msgq' = irc_recv_msgq /\ wire' = wire
  BY <1>2, <1>5, Zenon DEF AddBuffer
<1>9. unterminated' \in Seq(Halved) /\ irc_recv_msgq' \in Seq(Seq(Halved)) /\ wire' \in Seq(Msg)
  <2>1. CASE halved
    <3>1. irc_recv_msgq' = Append(irc_recv_msgq, line) /\ unterminated' = <<>> /\ wire' = Tail(wire)
      BY <1>8, <2>1, Zenon
    <3>2. <<>> \in Seq(Halved)
      OBVIOUS
    <3> QED BY <1>3, <1>7, <3>1, <3>2, Zenon
  <2>2. CASE ~halved
    BY <1>1, <1>6, <1>8, <2>2
  <2> QED BY <2>1, <2>2
<1>10. receiving' \in BOOLEAN /\ halved' \in BOOLEAN
  BY Zenon DEF AddBuffer
<1>11. UNCHANGED <<connected, redirects, outqueue, sent, reply, asked, results, bounds>>
  BY DEF AddBuffer
<1> QED BY <1>9, <1>10, <1>11 DEF Typed, asked, results, bounds

LEMMA RecvEndsTyped ==
    ASSUME Typed, NEW lost \in BOOLEAN, RecvEnds(lost)
    PROVE  Typed'
<1>1. CASE lost
  <2>1. Disconnected
    BY <1>1 DEF RecvEnds
  <2> QED BY <2>1, DisconnectedTyped DEF Typed, RecvEnds, asked, results, bounds
<1>2. CASE ~lost
  BY <1>2 DEF Typed, RecvEnds, server, asked, results, bounds
<1> QED BY <1>1, <1>2

\* A line of the queue.
LEMMA LineFacts ==
    ASSUME Typed, \A i \in 1 .. Len(irc_recv_msgq) : irc_recv_msgq[i] # <<>>,
           irc_recv_msgq # <<>>, NEW line, line = Head(irc_recv_msgq)
    PROVE  line \in Seq(Halved) /\ line # <<>> /\ Last(line) \in Halved /\ Last(line).msg \in Msg
<1>1. line \in Seq(Halved) /\ line = irc_recv_msgq[1] /\ Len(irc_recv_msgq) >= 1
  BY DEF Typed
<1>2. line # <<>>
  BY <1>1
<1>3. Last(line) = line[Len(line)]
  BY DEF Last
<1>4. Last(line) \in Halved
  BY <1>1, <1>2, <1>3
<1> QED BY <1>1, <1>2, <1>4 DEF Halved

LEMMA FlushTyped ==
    ASSUME Typed, \A i \in 1 .. Len(irc_recv_msgq) : irc_recv_msgq[i] # <<>>,
           NEW disconnects \in BOOLEAN, Flush(disconnects)
    PROVE  Typed'
<1>1. PICK line, m, x : line = Head(irc_recv_msgq) /\ m = Last(line).msg /\ x = Message(redirects, m)
  OBVIOUS
<1>2. irc_recv_msgq # <<>> /\ m \in Msg
  BY <1>1, LineFacts DEF Flush
<1>5. /\ DOMAIN x.redirects = DOMAIN redirects \ Overs(redirects, m)
      /\ x.redirects \in [DOMAIN redirects \ Overs(redirects, m) -> Redirect]
      /\ x.reports \subseteq [redirect : Redirect, error : BOOLEAN]
  BY <1>1, <1>2, RedirectsHandled DEF Handled
<1>6. irc_recv_msgq' \in Seq(Seq(Halved))
  BY <1>2 DEF Typed, Flush
<1>7. orderly' \in BOOLEAN
  BY DEF Flush, Typed
<1>8. reports' \subseteq [redirect : Redirect, error : BOOLEAN] /\ garbled' \in BOOLEAN
  BY <1>1, <1>5 DEF Flush, Typed, results
<1>9. CASE ~connected
  BY <1>6, <1>7, <1>8, <1>9 DEF Typed, Flush, server, bounds
<1>10. CASE connected /\ disconnects /\ ~x.taken
  <2>1. Disconnected
    BY <1>1, <1>10 DEF Flush
  <2> QED BY <1>6, <1>7, <1>8, <2>1, DisconnectedTyped DEF Typed, Flush, bounds
<1>11. CASE connected /\ ~(disconnects /\ ~x.taken)
  <2>1. redirects' = x.redirects /\ UNCHANGED <<connected, outqueue, unterminated, server>>
    BY <1>1, <1>11 DEF Flush
  <2>2. DOMAIN redirects' \subseteq Nat /\ redirects' \in [DOMAIN redirects' -> Redirect]
    BY <1>5, <2>1 DEF Typed
  <2> QED BY <1>6, <1>7, <1>8, <2>1, <2>2 DEF Typed, Flush, server, bounds
<1> QED BY <1>9, <1>10, <1>11

LEMMA AskTyped ==
    ASSUME Typed, NEW p \in Pattern, NEW t \in Target, NEW s \in {None, t}, NEW count \in 1 .. 2,
           Ask(p, t, s, count)
    PROVE  Typed'
<1>1. PICK n : n = Len(commands) + 1
  OBVIOUS
<1>2. commands \in Seq(Command) /\ n \in Nat /\ count \in Nat
      /\ outqueue \in Seq(Entry)
  BY <1>1 DEF Typed
<1>3. PICK c : c = [i \in 1 .. count |-> [pattern |-> p, target |-> t]]
  OBVIOUS
<1>4. c \in Seq(Command)
  <2>1. [pattern |-> p, target |-> t] \in Command
    BY DEF Command
  <2> QED BY <1>2, <1>3, <2>1
<1>5. PICK o : o = [i \in 1 .. count |-> [command |-> n + i - 1, redirect |-> IF i = 1 THEN n ELSE 0]]
  OBVIOUS
<1>6. o \in Seq(Entry)
  <2>1. \A i \in 1 .. count : n + i - 1 \in Nat /\ (IF i = 1 THEN n ELSE 0) \in Nat
    BY <1>2
  <2>2. \A i \in 1 .. count : [command |-> n + i - 1, redirect |-> IF i = 1 THEN n ELSE 0]
                              \in Entry
    BY <2>1 DEF Entry
  <2>3. o \in [1 .. count -> Entry]
    BY <1>5, <2>2, Zenon
  <2> QED BY <1>2, <2>3
<1>7. commands' = commands \o c /\ outqueue' = outqueue \o o
  BY <1>1, <1>3, <1>5 DEF Ask
<1>8. commands' \in Seq(Command)
      /\ outqueue' \in Seq(Entry)
  BY <1>2, <1>4, <1>6, <1>7
<1>9. PICK r : r = NewRedirect(n, p, s, count)
  OBVIOUS
<1>10. r \in Redirect
  <2>1. s \in Target \cup {None}
    OBVIOUS
  <2> QED BY <1>2, <1>9, <2>1, NewRedirectFacts
<1>11. redirects' = [k \in DOMAIN redirects \cup {n} |-> IF k = n THEN r ELSE redirects[k]]
  BY <1>1, <1>9 DEF Ask
<1>12. DOMAIN redirects' \subseteq Nat /\ redirects' \in [DOMAIN redirects' -> Redirect]
  BY <1>2, <1>10, <1>11 DEF Typed
<1>13. recounts' \in BOOLEAN
  BY Zenon DEF Ask, Typed
<1>14. UNCHANGED <<connected, receiving, unterminated, irc_recv_msgq, server, orderly, results, bounds>>
  BY DEF Ask
<1> QED BY <1>8, <1>12, <1>13, <1>14 DEF Typed, server, results, bounds

LEMMA TypeTyped ==
    ASSUME Typed, NEW p \in Pattern, NEW t \in Target, Type(p, t)
    PROVE  Typed'
<1>1. orderly' \in BOOLEAN
  BY Zenon DEF Type
<1>2. [pattern |-> p, target |-> t] \in Command
  BY DEF Command
<1>3. commands' \in Seq(Command)
  BY <1>2 DEF Typed, Type
<1>4. PICK n : n = Len(commands) + 1
  OBVIOUS
<1>5. [command |-> n, redirect |-> 0] \in Entry
  BY <1>4 DEF Typed, Entry
<1>6. outqueue' \in Seq(Entry)
  BY <1>4, <1>5 DEF Typed, Type
<1>7. UNCHANGED <<connected, redirects, receiving, unterminated, irc_recv_msgq, server, recounts, results,
                  bounds>>
  BY DEF Type
<1> QED BY <1>1, <1>3, <1>6, <1>7 DEF Typed, server, results, bounds

\* What Send does to the redirections.
LEMMA SendFacts ==
    ASSUME Typed, Send
    PROVE  /\ DOMAIN redirects' = DOMAIN redirects
           /\ \A n \in DOMAIN redirects : LET x == redirects'[n]
                                              r == redirects[n] IN
                 /\ x \in Redirect /\ x.id = r.id /\ x.pattern = r.pattern /\ x.string = r.string
                 /\ x.count = r.count /\ x.current_count = r.current_count
                 /\ x.cmd_start_received = r.cmd_start_received
                 /\ x.cmd_stop_received = r.cmd_stop_received /\ x.output = r.output
                 /\ n = Head(outqueue).redirect => x.started
                 /\ n # Head(outqueue).redirect => x = r
<1>1. DOMAIN redirects' = DOMAIN redirects
  BY DEF Send
<1>2. SUFFICES ASSUME NEW n \in DOMAIN redirects, NEW x, NEW r, x = redirects'[n], r = redirects[n]
               PROVE  /\ x \in Redirect /\ x.id = r.id /\ x.pattern = r.pattern /\ x.string = r.string
                      /\ x.count = r.count /\ x.current_count = r.current_count
                      /\ x.cmd_start_received = r.cmd_start_received
                      /\ x.cmd_stop_received = r.cmd_stop_received /\ x.output = r.output
                      /\ n = Head(outqueue).redirect => x.started
                      /\ n # Head(outqueue).redirect => x = r
  BY <1>1
<1>3. r \in Redirect
  BY <1>2 DEF Typed
<1>4. x = IF n = Head(outqueue).redirect THEN [r EXCEPT !.started = TRUE] ELSE r
  BY <1>2, Zenon DEF Send
<1>5. CASE n = Head(outqueue).redirect
  <2>1. x = [r EXCEPT !.started = TRUE]
    BY <1>4, <1>5, Zenon
  <2> QED BY <1>3, <1>5, <2>1, StartedFacts
<1>6. CASE n # Head(outqueue).redirect
  BY <1>3, <1>4, <1>6
<1> QED BY <1>5, <1>6

LEMMA SendTyped ==
    ASSUME Typed, Send
    PROVE  Typed'
<1>1. outqueue # <<>> /\ outqueue \in Seq(Entry) /\ sent \in Seq(Nat)
  BY DEF Typed, Send
<1>a. Head(outqueue) \in Entry
  BY <1>1
<1>2. Head(outqueue).command \in Nat /\ outqueue' \in Seq(Entry)
  BY <1>1, <1>a DEF Send, Entry
<1>3. sent' \in Seq(Nat)
  BY <1>1, <1>2 DEF Send
<1>4. DOMAIN redirects' \subseteq Nat /\ redirects' \in [DOMAIN redirects' -> Redirect]
  <2>1. DOMAIN redirects' = DOMAIN redirects /\ \A n \in DOMAIN redirects : redirects'[n] \in Redirect
    BY SendFacts
  <2>2. PICK f : f = [n \in DOMAIN redirects |->
                        IF n = Head(outqueue).redirect THEN [redirects[n] EXCEPT !.started = TRUE]
                        ELSE redirects[n]]
    OBVIOUS
  <2>3. redirects' = f
    BY <2>2, Zenon DEF Send
  <2>4. f \in [DOMAIN redirects -> Redirect]
    BY <2>1, <2>2, <2>3
  <2> QED BY <2>1, <2>3, <2>4 DEF Typed
<1>5. UNCHANGED <<connected, receiving, unterminated, irc_recv_msgq, reply, wire, halved, asked, results,
                  bounds>>
  BY DEF Send
<1> QED BY <1>2, <1>3, <1>4, <1>5 DEF Typed, asked, results, bounds

LEMMA TimeoutTyped ==
    ASSUME Typed, NEW n \in DOMAIN redirects, Timeout(n)
    PROVE  Typed'
<1>1. PICK r : r = redirects[n]
  OBVIOUS
<1>2. r \in Redirect
  BY <1>1 DEF Typed
<1>3. PICK x : x = Report(Stop(r, TRUE).redirect, TRUE)
  OBVIOUS
<1>4. x \in [redirect : Redirect, error : BOOLEAN]
  BY <1>2, <1>3, StopError
<1>5. reports' = reports \cup {x}
  BY <1>1, <1>3, Zenon DEF Timeout
<1>6. redirects' = [k \in DOMAIN redirects \ {n} |-> redirects[k]]
  BY DEF Timeout
<1>7. DOMAIN redirects' \subseteq Nat /\ redirects' \in [DOMAIN redirects' -> Redirect]
  BY <1>6 DEF Typed
<1>8. orderly' \in BOOLEAN
  BY Zenon DEF Timeout
<1>9. UNCHANGED <<connected, outqueue, receiving, unterminated, irc_recv_msgq, server, commands, recounts,
                  garbled, noise, connects>>
  BY DEF Timeout
<1> QED BY <1>4, <1>5, <1>7, <1>8, <1>9 DEF Typed, server

LEMMA ConnectTyped ==
    ASSUME Typed, Connect
    PROVE  Typed'
<1>1. connected' \in BOOLEAN
  BY Zenon DEF Connect
<1> QED BY <1>1 DEF Typed, Connect, server, asked, results

LEMMA LineTyped ==
    ASSUME NEW n \in Nat, NEW a \in Sentence, NEW i \in Nat, NEW t \in Target \cup {None},
           NEW m, m = Line(n, a, i, t)
    PROVE  m \in Msg /\ m.of = n /\ m.answer = a /\ m.at = i /\ m.target = t
BY DEF Line, Msg

\* An answer and its messages.
LEMMA AnswersFacts ==
    ASSUME Typed, ServerAnswers, Head(sent) \in 1 .. Len(commands)
    PROVE  \E a \in Answers[commands[Head(sent)].pattern] :
              /\ a \in Sentence
              /\ reply' \in Seq(Msg) /\ Len(reply') = Len(a)
              /\ \A i \in 1 .. Len(a) :
                    reply'[i] = Line(Head(sent), a, i, commands[Head(sent)].target)
<1>1. PICK n, p, t : n = Head(sent) /\ p = commands[n].pattern /\ t = commands[n].target
  OBVIOUS
<1>2. n \in Nat /\ p \in Pattern /\ t \in Target
  <2>1. commands[n] \in Command
    BY <1>1 DEF Typed
  <2>2. n \in Nat
    BY <1>1
  <2> QED BY <1>1, <2>1, <2>2 DEF Command
<1>3. PICK a \in Answers[p] : reply' = [i \in DOMAIN a |-> Line(n, a, i, t)]
  BY <1>1 DEF ServerAnswers
<1>4. a \in Sentence /\ Len(a) \in Nat /\ DOMAIN a = 1 .. Len(a)
  BY <1>2, <1>3, SentenceFacts DEF Sentence
<1>5. \A i \in 1 .. Len(a) : Line(n, a, i, t) \in Msg
  BY <1>2, <1>4, LineTyped
<1>6. reply' = [i \in 1 .. Len(a) |-> Line(n, a, i, t)]
  BY <1>3, <1>4
<1>7. reply' \in Seq(Msg) /\ Len(reply') = Len(a)
  BY <1>4, <1>5, <1>6
<1> QED BY <1>1, <1>3, <1>4, <1>6, <1>7

LEMMA ServerTyped ==
    ASSUME Typed, sent # <<>> => Head(sent) \in 1 .. Len(commands),
           ServerAnswers \/ ServerSends \/ ServerNoise
    PROVE  Typed'
<1>1. CASE ServerAnswers
  <2>1. reply' \in Seq(Msg)
    BY <1>1, AnswersFacts DEF ServerAnswers
  <2>2. sent' \in Seq(Nat)
    BY <1>1 DEF ServerAnswers, Typed
  <2> QED BY <1>1, <2>1, <2>2 DEF Typed, ServerAnswers, client, asked, results, bounds
<1>2. CASE ServerSends
  <2>1. Head(reply) \in Msg /\ reply' \in Seq(Msg)
    BY <1>2 DEF ServerSends, Typed
  <2>2. wire' \in Seq(Msg)
    BY <1>2, <2>1 DEF ServerSends, Typed
  <2> QED BY <1>2, <2>1, <2>2 DEF Typed, ServerSends, client, asked, results, bounds
<1>3. CASE ServerNoise
  <2>1. wire' \in Seq(Msg)
    BY <1>3, NoiseFacts DEF ServerNoise, Typed
  <2> QED BY <1>3, <2>1 DEF Typed, ServerNoise, client, asked, results
<1> QED BY <1>1, <1>2, <1>3

LEMMA StutterTyped == ASSUME Typed, UNCHANGED vars PROVE Typed'
BY DEF Typed, vars, client, server, asked, results, bounds

-----------------------------------------------------------------------------
(* Whole lines.                                                            *)

\* The halves of a message are in the queue of messages received, or both on
\* their way, or in unterminated_message and on their way.
Carried ==
    /\ \A i \in 1 .. Len(irc_recv_msgq) : irc_recv_msgq[i] = Halves(Last(irc_recv_msgq[i]).msg)
    /\ halved => wire # <<>> /\ unterminated = <<Half(Head(wire), 1)>>
    /\ ~halved => unterminated = <<>>

LEMMA CarriedLines ==
    ASSUME Typed, Carried
    PROVE  \A i \in 1 .. Len(irc_recv_msgq) : irc_recv_msgq[i] # <<>>
<1>1. SUFFICES ASSUME NEW i \in 1 .. Len(irc_recv_msgq), irc_recv_msgq[i] = <<>>
               PROVE  FALSE
  OBVIOUS
<1>2. PICK m : irc_recv_msgq[i] = Halves(m)
  BY DEF Carried
<1>3. PICK a, b : a = Half(m, 1) /\ b = Half(m, 2)
  OBVIOUS
<1>4. <<a, b>> = <<>>
  BY <1>1, <1>2, <1>3 DEF Halves
<1> QED BY <1>4

LEMMA AddBufferCarried ==
    ASSUME Typed, Carried, AddBuffer
    PROVE  Carried'
<1>1. /\ wire \in Seq(Msg) /\ wire # <<>> /\ connects \in Nat /\ connects' = connects
      /\ irc_recv_msgq \in Seq(Seq(Halved)) /\ Head(wire) \in Msg
  BY DEF Typed, AddBuffer, bounds
<1>2. PICK m, a, b : m = Head(wire) /\ a = Half(m, 1) /\ b = Half(m, 2)
  OBVIOUS
<1>3. Half(m, 1)' = a /\ Half(m, 2)' = b
  BY <1>1, <1>2 DEF Half
<1>4. \A x : Halves(x)' = Halves(x)
  BY <1>1 DEF Halves, Half
<1>5. CASE halved
  <2>1. /\ irc_recv_msgq' = Append(irc_recv_msgq, Append(unterminated, b))
        /\ unterminated' = <<>> /\ ~halved'
    BY <1>2, <1>5, Zenon DEF AddBuffer
  <2>2. unterminated = <<a>>
    BY <1>2, <1>5 DEF Carried
  <2>3. PICK line : line = Append(<<a>>, b)
    OBVIOUS
  <2>4. line = Halves(m) /\ Last(line).msg = m /\ line \in Seq(Halved)
    BY <1>1, <1>2, <2>3, HalfFacts
  <2>5. irc_recv_msgq' = Append(irc_recv_msgq, line)
    BY <2>1, <2>2, <2>3
  <2>6. /\ Len(irc_recv_msgq') = Len(irc_recv_msgq) + 1
        /\ \A i \in 1 .. Len(irc_recv_msgq) : irc_recv_msgq'[i] = irc_recv_msgq[i]
        /\ irc_recv_msgq'[Len(irc_recv_msgq) + 1] = line
    BY <1>1, <2>4, <2>5, AppendFacts
  <2>7. \A i \in 1 .. Len(irc_recv_msgq') : irc_recv_msgq'[i] = Halves(Last(irc_recv_msgq'[i]).msg)
    <3>1. SUFFICES ASSUME NEW i \in 1 .. Len(irc_recv_msgq')
                   PROVE  irc_recv_msgq'[i] = Halves(Last(irc_recv_msgq'[i]).msg)
      OBVIOUS
    <3>2. CASE i \in 1 .. Len(irc_recv_msgq)
      BY <2>6, <3>2 DEF Carried
    <3>3. CASE i = Len(irc_recv_msgq) + 1
      BY <2>4, <2>6, <3>3
    <3> QED BY <1>1, <2>6, <3>2, <3>3
  <2> QED BY <1>4, <2>1, <2>7, Zenon DEF Carried
<1>6. CASE ~halved
  <2>1. /\ unterminated' = Append(unterminated, a) /\ halved' /\ wire' = wire
        /\ irc_recv_msgq' = irc_recv_msgq
    BY <1>2, <1>6, Zenon DEF AddBuffer
  <2>2. unterminated = <<>>
    BY <1>6 DEF Carried
  <2>3. unterminated' = <<a>>
    BY <2>1, <2>2
  <2>4. Half(Head(wire), 1)' = a
    BY <1>2, <1>3, <2>1
  <2> QED BY <1>1, <1>4, <2>1, <2>3, <2>4 DEF Carried
<1> QED BY <1>5, <1>6

\* The connection is closed, or the queue of messages received loses its first.
LEMMA LessCarried ==
    ASSUME Typed, Carried, connects' = connects,
           \/ irc_recv_msgq' = irc_recv_msgq
           \/ irc_recv_msgq # <<>> /\ irc_recv_msgq' = Tail(irc_recv_msgq),
           Disconnected \/ UNCHANGED <<unterminated, wire, halved>>
    PROVE  Carried'
<1>1. \A x : Halves(x)' = Halves(x) /\ Half(x, 1)' = Half(x, 1)
  BY DEF Halves, Half
<1>2. \A i \in 1 .. Len(irc_recv_msgq') : irc_recv_msgq'[i] = Halves(Last(irc_recv_msgq'[i]).msg)
  <2>1. CASE irc_recv_msgq' = irc_recv_msgq
    BY <2>1 DEF Carried
  <2>2. CASE irc_recv_msgq # <<>> /\ irc_recv_msgq' = Tail(irc_recv_msgq)
    <3>1. /\ Len(irc_recv_msgq) \in Nat /\ Len(irc_recv_msgq') = Len(irc_recv_msgq) - 1
          /\ \A i \in 1 .. Len(irc_recv_msgq) - 1 : irc_recv_msgq'[i] = irc_recv_msgq[i + 1]
      BY <2>2, Members DEF Typed
    <3>2. \A i \in 1 .. Len(irc_recv_msgq) - 1 : i + 1 \in 1 .. Len(irc_recv_msgq)
      BY <3>1
    <3> QED BY <3>1, <3>2 DEF Carried
  <2> QED BY <2>1, <2>2
<1>3. CASE Disconnected
  <2>1. unterminated' = <<>> /\ ~halved'
    BY <1>3, Zenon DEF Disconnected, Closed
  <2> QED BY <1>1, <1>2, <2>1, Zenon DEF Carried
<1>4. CASE UNCHANGED <<unterminated, wire, halved>>
  BY <1>1, <1>2, <1>4 DEF Carried
<1> QED BY <1>3, <1>4

LEMMA WireCarried ==
    ASSUME Typed, Carried, connects' = connects, NEW m \in Msg, wire' = Append(wire, m),
           UNCHANGED <<unterminated, irc_recv_msgq, halved>>
    PROVE  Carried'
<1>1. \A x : Halves(x)' = Halves(x) /\ Half(x, 1)' = Half(x, 1)
  BY DEF Halves, Half
<1>2. wire # <<>> => wire' # <<>> /\ Head(wire') = Head(wire)
  BY DEF Typed
<1> QED BY <1>1, <1>2 DEF Carried

LEMMA ConnectCarried ==
    ASSUME Typed, Carried, Off, Connect
    PROVE  Carried'
<1>1. irc_recv_msgq' = <<>> /\ ~halved' /\ unterminated' = <<>>
  BY DEF Connect, Idle, Off, server
<1> QED BY <1>1 DEF Carried

LEMMA SameCarried ==
    ASSUME Carried, UNCHANGED <<unterminated, irc_recv_msgq, wire, halved, connects>>
    PROVE  Carried'
<1>1. \A x : Halves(x)' = Halves(x) /\ Half(x, 1)' = Half(x, 1)
  BY DEF Halves, Half
<1> QED BY <1>1 DEF Carried

\* The message handled is whole.
LEMMA WholeLine ==
    ASSUME Typed, Carried, irc_recv_msgq # <<>>, NEW line, line = Head(irc_recv_msgq)
    PROVE  line = Halves(Last(line).msg) /\ Last(line).msg \in Msg
<1>1. line = irc_recv_msgq[1] /\ 1 \in 1 .. Len(irc_recv_msgq)
  BY DEF Typed
<1>2. line = Halves(Last(line).msg)
  BY <1>1 DEF Carried
<1> QED BY <1>2, CarriedLines, LineFacts

-----------------------------------------------------------------------------
(* The numbers stay in order.                                              *)

LEMMA OnePlaced ==
    ASSUME NEW n, NEW r \in Redirect, Placed(n, r), NEW m \in Msg, NEW x, x = One(r, m), ~x.over
    PROVE  Placed(n, x.redirect) /\ x.redirect.count = r.count
<1>1. PICK p, y : p = r.pattern /\ y = x.redirect
  OBVIOUS
<1>2. y \in Redirect /\ Same(y, r)
  BY <1>1, OneCases
<1>3. y.current_count \in 1 .. y.count
  <2>1. r.current_count \in 1 .. r.count /\ r.count \in Nat /\ y.count = r.count
    BY <1>2 DEF Placed, Redirect, Same
  <2>2. \/ y = r \/ y.current_count = r.current_count \/ Ended(x, r)
    BY <1>1, OneCases DEF Goes
  <2>3. CASE Ended(x, r)
    BY <1>1, <2>1, <2>3 DEF Ended
  <2> QED BY <2>1, <2>2, <2>3
<1>4. y.cmd_start_received \/ y.cmd_stop_received => y.started
  <2>1. CASE r.started
    BY <1>2, <2>1 DEF Same
  <2>2. CASE ~r.started
    <3>1. y = r
      BY <1>1, <2>2, OneCases
    <3> QED BY <3>1 DEF Placed
  <2> QED BY <2>1, <2>2
<1>5. y.cmd_stop_received => CmdExtra[p] # {}
  <2>1. \/ y = r \/ ~y.cmd_stop_received \/ CmdExtra[p] # {}
    <3>1. CASE ~r.started
      BY <1>1, <3>1, OneCases
    <3>2. CASE r.started /\ r.cmd_stop_received
      BY <1>1, <3>2 DEF Placed
    <3>3. CASE r.started /\ ~r.cmd_stop_received
      BY <1>1, <3>3, OneCases DEF Goes, Ended
    <3> QED BY <3>1, <3>2, <3>3, RedirectFields
  <2> QED BY <1>1, <2>1 DEF Placed
<1>6. Ids(y) = Ids(r) /\ y.count = r.count /\ y.id = r.id /\ y.string = r.string /\ y.pattern = p
      /\ (y.started <=> r.started)
  BY <1>1, <1>2 DEF Same, Ids
<1>7. Serves(y)
  BY <1>1, <1>6 DEF Placed, Serves
<1> QED BY <1>1, <1>3, <1>4, <1>5, <1>6, <1>7 DEF Placed

LEMMA SamePlaced ==
    ASSUME UNCHANGED <<commands, outqueue, recounts>>
    PROVE  Given' = Given /\ Queued' = Queued /\ \A n, r : Placed(n, r)' <=> Placed(n, r)
<1>1. Given' = Given /\ Queued' = Queued
  BY DEF Given, Queued
<1>2. \A n, r : Placed(n, r)' <=> Placed(n, r)
  <2>1. SUFFICES ASSUME NEW n, NEW r PROVE Placed(n, r)' <=> Placed(n, r)
    OBVIOUS
  <2>2. Serves(r)' <=> Serves(r)
    BY <1>1 DEF Serves, Ids
  <2> QED BY <1>1, <2>2 DEF Placed, Ids
<1> QED BY <1>1, <1>2

\* The same commands and the same queues, with fewer redirections.
LEMMA LessNumbered ==
    ASSUME Numbered, UNCHANGED <<commands, outqueue, sent, recounts>>,
           DOMAIN redirects' \subseteq DOMAIN redirects,
           \A n \in DOMAIN redirects' : /\ Placed(n, redirects'[n])
                                        /\ redirects'[n].count = redirects[n].count
    PROVE  Numbered'
<1>1. Given' = Given /\ Queued' = Queued
  BY SamePlaced
<1>2. \A n, r : Placed(n, r)' <=> Placed(n, r)
  BY SamePlaced
<1>3. ASSUME NEW n \in DOMAIN redirects'
      PROVE  Placed(n, redirects[n])' /\ redirects'[n].count = redirects[n].count
  <2>1. PICK r : r = redirects'[n]
    OBVIOUS
  <2>2. Placed(n, r)'
    BY <1>2, <1>3, <2>1
  <2>3. Placed(n, redirects[n])'
    BY <2>1, <2>2
  <2> QED BY <1>3, <2>3
<1> QED BY <1>1, <1>3 DEF Numbered

LEMMA SameNumbered ==
    ASSUME Numbered, UNCHANGED <<commands, outqueue, sent, recounts, redirects>>
    PROVE  Numbered'
BY LessNumbered DEF Numbered

LEMMA DisconnectedNumbered ==
    ASSUME Typed, Disconnected, UNCHANGED <<commands, recounts>>
    PROVE  Numbered' /\ (~receiving' => Off')
<1>1. DOMAIN redirects' = {} /\ outqueue' = <<>> /\ sent' = <<>> /\ commands' = commands
      /\ unterminated' = <<>> /\ reply' = <<>> /\ wire' = <<>>
  BY DEF Disconnected, Closed
<1>2. Len(outqueue') = 0 /\ Len(sent') = 0 /\ Len(commands) \in Nat
  BY <1>1 DEF Typed
<1>3. ~halved'
  BY Zenon DEF Disconnected
<1>4. Numbered'
  BY <1>1, <1>2 DEF Numbered, Given
<1> QED BY <1>1, <1>3, <1>4 DEF Off

LEMMA FlushNumbered ==
    ASSUME Typed, Carried, Numbered, NEW disconnects \in BOOLEAN, Flush(disconnects)
    PROVE  Numbered'
<1>1. PICK line, m, x : line = Head(irc_recv_msgq) /\ m = Last(line).msg /\ x = Message(redirects, m)
  OBVIOUS
<1>2. m \in Msg
  BY <1>1, WholeLine DEF Flush
<1>3. UNCHANGED <<receiving, commands, recounts>>
  BY DEF Flush
<1>4. CASE ~connected
  BY <1>3, <1>4, SameNumbered DEF Flush, server
<1>5. CASE connected /\ disconnects /\ ~x.taken
  BY <1>1, <1>3, <1>5, DisconnectedNumbered DEF Flush
<1>6. CASE connected /\ ~(disconnects /\ ~x.taken)
  <2>1. redirects' = x.redirects /\ UNCHANGED <<outqueue, server>>
    BY <1>1, <1>6 DEF Flush
  <2>2. /\ DOMAIN x.redirects = DOMAIN redirects \ Overs(redirects, m)
        /\ Overs(redirects, m) \subseteq Reached(redirects, m)
        /\ \A n \in DOMAIN redirects \ Overs(redirects, m) :
              x.redirects[n] = IF n \in Reached(redirects, m) THEN One(redirects[n], m).redirect
                               ELSE redirects[n]
    <3>1. Handled(redirects, m, x)
      BY <1>1, <1>2, RedirectsHandled
    <3> QED BY <3>1, Zenon DEF Handled
  <2>3. ASSUME NEW n \in DOMAIN redirects'
        PROVE  Placed(n, redirects'[n]) /\ redirects'[n].count = redirects[n].count
    <3>1. PICK r, o : r = redirects[n] /\ o = One(r, m)
      OBVIOUS
    <3>2. r \in Redirect /\ Placed(n, r) /\ n \in DOMAIN redirects \ Overs(redirects, m)
      BY <2>1, <2>2, <2>3, <3>1 DEF Typed, Numbered
    <3>3. CASE n \in Reached(redirects, m)
      <4>1. ~o.over /\ redirects'[n] = o.redirect
        BY <2>1, <2>2, <3>1, <3>2, <3>3 DEF Overs
      <4> QED BY <1>2, <3>1, <3>2, <4>1, OnePlaced
    <3>4. CASE n \notin Reached(redirects, m)
      BY <2>1, <2>2, <3>1, <3>2, <3>4
    <3> QED BY <3>3, <3>4
  <2>4. DOMAIN redirects' \subseteq DOMAIN redirects /\ UNCHANGED <<commands, outqueue, sent, recounts>>
    BY <1>3, <2>1, <2>2 DEF server
  <2> QED BY <2>3, <2>4, LessNumbered
<1> QED BY <1>4, <1>5, <1>6

LEMMA TimeoutNumbered ==
    ASSUME Typed, Numbered, NEW n \in DOMAIN redirects, Timeout(n)
    PROVE  Numbered'
<1>1. redirects' = [k \in DOMAIN redirects \ {n} |-> redirects[k]]
      /\ UNCHANGED <<commands, outqueue, sent, recounts>>
  BY DEF Timeout, server
<1> QED BY <1>1, LessNumbered DEF Numbered

\* More commands are given and, in order, wait in outqueue.
MoreGiven(c, cs, os) ==
    /\ Given' = Given + c /\ Queued' = Queued
    /\ \A k \in 1 .. Given : commands'[k] = commands[k]
    /\ \A i \in 1 .. c : commands'[Given + i] = cs[i]
    /\ Len(outqueue') = Len(outqueue) + c
    /\ \A i \in 1 .. Len(outqueue) : outqueue'[i] = outqueue[i]
    /\ \A i \in 1 .. c : outqueue'[Len(outqueue) + i] = os[i]
    /\ \A i \in 1 .. Len(outqueue') : /\ outqueue'[i].command = Queued + i
                                      /\ outqueue'[i].redirect \in {0, Queued + i}

LEMMA MoreFacts ==
    ASSUME Typed, Numbered, NEW c \in Nat, NEW cs, NEW os,
           cs \in Seq(Command), os \in Seq(Entry), Len(cs) = c, Len(os) = c,
           commands' = commands \o cs, outqueue' = outqueue \o os,
           \A i \in 1 .. c : /\ os[i].command = Given + i
                             /\ os[i].redirect \in {0, Given + i}
    PROVE  MoreGiven(c, cs, os)
<1>1. commands \in Seq(Command) /\ outqueue \in Seq(Entry)
  BY DEF Typed
<1>2. Len(commands') = Len(commands) + c /\ Len(outqueue') = Len(outqueue) + c
      /\ Len(commands) \in Nat /\ Len(outqueue) \in Nat
  <2>1. Len(commands) \in Nat /\ Len(outqueue) \in Nat
    BY <1>1
  <2>2. Len(commands \o cs) = Len(commands) + Len(cs)
    BY <1>1, ConcatFacts, Zenon
  <2>3. Len(outqueue \o os) = Len(outqueue) + Len(os)
    BY <1>1, ConcatFacts, Zenon
  <2> QED BY <2>1, <2>2, <2>3
<1>3. Given' = Given + c /\ Queued' = Queued /\ Given \in Nat /\ Queued \in Int
      /\ Given = Queued + Len(outqueue)
  BY <1>2 DEF Given, Queued
<1>4. /\ \A k \in 1 .. Given : commands'[k] = commands[k]
      /\ \A i \in 1 .. c : commands'[Given + i] = cs[i]
  BY <1>1, <1>2 DEF Given
<1>5. /\ \A i \in 1 .. Len(outqueue) : outqueue'[i] = outqueue[i]
      /\ \A i \in 1 .. c : outqueue'[Len(outqueue) + i] = os[i]
  BY <1>1, <1>2
<1>6. ASSUME NEW i \in 1 .. Len(outqueue')
      PROVE  outqueue'[i].command = Queued + i /\ outqueue'[i].redirect \in {0, Queued + i}
  <2>1. CASE i \in 1 .. Len(outqueue)
    BY <1>5, <2>1 DEF Numbered
  <2>2. CASE i \notin 1 .. Len(outqueue)
    <3>1. PICK j \in 1 .. c : i = Len(outqueue) + j
      <4>1. i - Len(outqueue) \in 1 .. c /\ i = Len(outqueue) + (i - Len(outqueue))
        BY <1>2, <2>2
      <4> QED BY <4>1
    <3>2. Queued + i = Given + j
      BY <1>2, <1>3, <3>1
    <3> QED BY <1>5, <3>1, <3>2
  <2> QED BY <2>1, <2>2
<1> QED BY <1>2, <1>3, <1>4, <1>5, <1>6 DEF MoreGiven

\* A redirection of commands given before.
LEMMA StillPlaced ==
    ASSUME NEW n, NEW r \in Redirect, Placed(n, r), Given \in Nat, NEW c \in Nat,
           Given' = Given + c, Queued' = Queued,
           \A k \in 1 .. Given : commands'[k] = commands[k],
           ~recounts' => ~recounts
    PROVE  Placed(n, r)'
<1>1. \A k \in Ids(r) : k \in 1 .. Given' /\ commands'[k] = commands[k]
  BY DEF Placed, Serves
<1>2. Serves(r)'
  BY <1>1 DEF Placed, Serves, Ids
<1> QED BY <1>2 DEF Placed, Ids

\* A redirection ends with its last command, which was given.
LEMMA PlacedBounds ==
    ASSUME NEW n, NEW r \in Redirect, Placed(n, r)
    PROVE  /\ n \in Nat /\ n >= 1 /\ r.count >= 1 /\ n + r.count - 1 \in Ids(r) /\ n \in Ids(r)
           /\ n + r.count - 1 \in 1 .. Given /\ n \in 1 .. Given
<1>1. n \in Nat /\ n >= 1 /\ r.count \in Nat /\ r.count >= 1 /\ r.id = n
  BY DEF Placed, Redirect
<1>2. n + r.count - 1 \in Ids(r) /\ n \in Ids(r)
  BY <1>1 DEF Ids
<1> QED BY <1>1, <1>2 DEF Placed, Serves

\* The redirection n is put at the end of the list, with its commands.
AskedFor(n, r, count) ==
      /\ Given' = Given + count /\ Queued' = Queued /\ n \in Nat
      /\ \A k \in 1 .. Given : commands'[k] = commands[k]
      /\ Len(outqueue') = Len(outqueue) + count
      /\ \A i \in 1 .. Len(outqueue) : outqueue'[i] = outqueue[i]
      /\ outqueue'[Len(outqueue) + 1].redirect = n
      /\ \A i \in 1 .. Len(outqueue') : /\ outqueue'[i].command = Queued + i
                                        /\ outqueue'[i].redirect \in {0, Queued + i}
      /\ r \in Redirect /\ r.count = count
      /\ n \notin DOMAIN redirects
      /\ DOMAIN redirects' = DOMAIN redirects \cup {n} /\ redirects'[n] = r
      /\ \A k \in DOMAIN redirects : redirects'[k] = redirects[k]
      /\ ~recounts' => ~recounts

LEMMA AskFacts ==
    ASSUME Typed, Numbered, NEW p \in Pattern, NEW t \in Target, NEW s \in {None, t}, NEW count \in 1 .. 2,
           Ask(p, t, s, count), NEW n, n = Given + 1, NEW r, r = NewRedirect(n, p, s, count)
    PROVE  AskedFor(n, r, count) /\ Placed(n, r)' /\ r.current_count = 1 /\ r.output = <<>>
           /\ ~r.cmd_start_received /\ ~r.cmd_stop_received
<1>1. Given \in Nat /\ count \in Nat /\ n \in Nat /\ n = Len(commands) + 1
  BY Lengths DEF Given
<1>2. PICK cs : cs = [i \in 1 .. count |-> [pattern |-> p, target |-> t]]
  OBVIOUS
<1>3. PICK os : os = [i \in 1 .. count |-> [command |-> n + i - 1, redirect |-> IF i = 1 THEN n ELSE 0]]
  OBVIOUS
<1>4. commands' = commands \o cs /\ outqueue' = outqueue \o os
  BY <1>1, <1>2, <1>3 DEF Ask
<1>5. \A i \in 1 .. count : /\ os[i].command = Given + i
                            /\ os[i].redirect \in {0, Given + i}
                            /\ i = 1 => os[i].redirect = n
                            /\ os[i] \in Entry
  <2>1. SUFFICES ASSUME NEW i \in 1 .. count
                 PROVE  /\ os[i].command = Given + i
                        /\ os[i].redirect \in {0, Given + i}
                        /\ i = 1 => os[i].redirect = n
                        /\ os[i] \in Entry
    OBVIOUS
  <2>2. PICK k : k = IF i = 1 THEN n ELSE 0
    OBVIOUS
  <2>3. os[i] = [command |-> n + i - 1, redirect |-> k]
    BY <1>3, <2>2
  <2>4. n + i - 1 = Given + i /\ n + i - 1 \in Nat /\ k \in Nat /\ k \in {0, Given + i}
    BY <1>1, <2>2
  <2> QED BY <2>2, <2>3, <2>4 DEF Entry
<1>6. os \in Seq(Entry) /\ Len(os) = count
  <2>1. os \in [1 .. count -> Entry]
    BY <1>3, <1>5, Zenon
  <2> QED BY <1>1, <2>1
<1>7. cs \in Seq(Command) /\ Len(cs) = count /\ \A i \in 1 .. count : cs[i].pattern = p /\ cs[i].target = t
  <2>1. PICK x : x = [pattern |-> p, target |-> t]
    OBVIOUS
  <2>2. x \in Command /\ x.pattern = p /\ x.target = t
    BY <2>1 DEF Command
  <2>3. cs = [i \in 1 .. count |-> x]
    BY <1>2, <2>1
  <2> QED BY <1>1, <2>2, <2>3
<1>8. /\ Given' = Given + count /\ Queued' = Queued
      /\ \A k \in 1 .. Given : commands'[k] = commands[k]
      /\ \A i \in 1 .. count : commands'[Given + i] = cs[i]
      /\ Len(outqueue') = Len(outqueue) + count
      /\ \A i \in 1 .. Len(outqueue) : outqueue'[i] = outqueue[i]
      /\ \A i \in 1 .. count : outqueue'[Len(outqueue) + i] = os[i]
      /\ \A i \in 1 .. Len(outqueue') : /\ outqueue'[i].command = Queued + i
                                        /\ outqueue'[i].redirect \in {0, Queued + i}
  <2>1. \A i \in 1 .. count : /\ os[i].command = Given + i
                              /\ os[i].redirect \in {0, Given + i}
    BY <1>5
  <2>2. cs \in Seq(Command) /\ os \in Seq(Entry) /\ Len(cs) = count /\ Len(os) = count /\ count \in Nat
    BY <1>1, <1>6, <1>7
  <2>3. MoreGiven(count, cs, os)
    BY <1>4, <2>1, <2>2, MoreFacts
  <2> QED BY <2>3 DEF MoreGiven
<1>9. outqueue'[Len(outqueue) + 1].redirect = n
  BY <1>5, <1>8
<1>10. /\ r \in Redirect /\ r.id = n /\ r.pattern = p /\ r.string = s /\ r.count = count
       /\ r.current_count = 1 /\ ~r.started /\ ~r.cmd_start_received /\ ~r.cmd_stop_received
       /\ r.output = <<>>
  <2>1. s \in Target \cup {None} /\ count \in Nat
    OBVIOUS
  <2>2. n \in Nat
    BY <1>1
  <2> QED BY <2>1, <2>2, NewRedirectFacts
<1>11. n > Queued'
  BY <1>1, <1>8, Lengths DEF Queued
<1>12. recounts' <=> (recounts \/ (count > 1 /\ CmdExtra[p] # {}))
  BY Zenon DEF Ask
<1>13. Serves(r)'
  <2>1. ASSUME NEW k \in n .. n + count - 1
        PROVE  k \in 1 .. Given' /\ commands'[k].pattern = p /\ commands'[k].target = t
    <3>1. PICK i \in 1 .. count : k = Given + i
      <4>1. k - Given \in 1 .. count /\ k = Given + (k - Given)
        BY <1>1
      <4> QED BY <4>1
    <3> QED BY <1>1, <1>7, <1>8, <3>1
  <2>2. Ids(r)' = n .. n + count - 1
    BY <1>10 DEF Ids
  <2>3. \A k \in Ids(r)' : k \in 1 .. Given' /\ commands'[k].pattern = r.pattern /\ commands'[k].target = t
    BY <1>10, <2>1, <2>2
  <2>4. r.string = None \/ t = r.string
    BY <1>10
  <2> QED BY <2>3, <2>4 DEF Serves
<1>14. Placed(n, r)'
  <2>1. ~recounts' => r.count = 1 \/ CmdExtra[r.pattern] = {}
    BY <1>10, <1>12
  <2>2. r.current_count \in 1 .. r.count /\ r.id = n /\ n >= 1
    BY <1>1, <1>10
  <2>3. Queued' \in Int
    BY <1>8, Lengths
  <2>4. r.started <=> n <= Queued'
    BY <1>1, <1>10, <1>11, <2>3
  <2>5. (r.cmd_start_received \/ r.cmd_stop_received => r.started)
        /\ (r.cmd_stop_received => CmdExtra[r.pattern] # {})
    BY <1>10
  <2> QED BY <1>13, <2>1, <2>2, <2>4, <2>5 DEF Placed
<1>15. n \notin DOMAIN redirects
  <2>1. SUFFICES ASSUME n \in DOMAIN redirects PROVE FALSE
    OBVIOUS
  <2>2. PICK o : o = redirects[n]
    OBVIOUS
  <2>3. o \in Redirect /\ Placed(n, o)
    BY <2>1, <2>2 DEF Typed, Numbered
  <2> QED BY <1>1, <2>3, PlacedBounds
<1>16. redirects' = [k \in DOMAIN redirects \cup {n} |-> IF k = n THEN r ELSE redirects[k]]
  BY <1>1 DEF Ask
<1>17. /\ DOMAIN redirects' = DOMAIN redirects \cup {n} /\ redirects'[n] = r
       /\ \A k \in DOMAIN redirects : redirects'[k] = redirects[k]
  BY <1>15, <1>16
<1>18. ~recounts' => ~recounts
  BY <1>12
<1> QED BY <1>1, <1>8, <1>9, <1>10, <1>14, <1>15, <1>17, <1>18 DEF AskedFor

LEMMA AskNumbered ==
    ASSUME Typed, Numbered, NEW p \in Pattern, NEW t \in Target, NEW s \in {None, t}, NEW count \in 1 .. 2,
           Ask(p, t, s, count)
    PROVE  Numbered'
<1>1. PICK n, r : n = Given + 1 /\ r = NewRedirect(n, p, s, count)
  OBVIOUS
<1>0. AskedFor(n, r, count) /\ Placed(n, r)'
  BY <1>1, AskFacts
<1>2. /\ Given' = Given + count /\ Queued' = Queued /\ n \in Nat
      /\ \A k \in 1 .. Given : commands'[k] = commands[k]
      /\ Len(outqueue') = Len(outqueue) + count
      /\ \A i \in 1 .. Len(outqueue) : outqueue'[i] = outqueue[i]
      /\ outqueue'[Len(outqueue) + 1].redirect = n
      /\ \A i \in 1 .. Len(outqueue') : /\ outqueue'[i].command = Queued + i
                                        /\ outqueue'[i].redirect \in {0, Queued + i}
      /\ r \in Redirect /\ Placed(n, r)' /\ r.count = count
      /\ n \notin DOMAIN redirects
      /\ DOMAIN redirects' = DOMAIN redirects \cup {n} /\ redirects'[n] = r
      /\ \A k \in DOMAIN redirects : redirects'[k] = redirects[k]
      /\ ~recounts' => ~recounts
  BY <1>0 DEF AskedFor
<1>3. Given \in Nat /\ count \in Nat /\ Len(outqueue) \in Nat /\ Len(sent) \in Nat
      /\ Queued = Given - Len(outqueue) /\ sent' = sent /\ Queued \in Int
  BY Lengths DEF Ask, server, Queued
<1>4. ASSUME NEW k \in DOMAIN redirects
      PROVE  /\ Placed(k, redirects[k])' /\ k + redirects'[k].count <= n /\ k < n /\ k \in Nat
             /\ k > Queued' => outqueue'[k - Queued'].redirect = k
  <2>1. PICK o : o = redirects[k]
    OBVIOUS
  <2>2. o \in Redirect /\ Placed(k, o) /\ o = redirects'[k]
    BY <1>2, <2>1 DEF Typed, Numbered
  <2>3. Placed(k, o)'
    BY <1>2, <1>3, <2>2, StillPlaced
  <2>4. k \in Nat /\ o.count \in Nat /\ k + o.count - 1 \in 1 .. Given /\ k \in 1 .. Given
    BY <2>2, PlacedBounds DEF Redirect
  <2>5. k > Queued => k - Queued \in 1 .. Len(outqueue) /\ outqueue[k - Queued].redirect = k
    <3>1. k > Queued => k - Queued \in 1 .. Len(outqueue)
      BY <1>3, <2>4
    <3> QED BY <3>1 DEF Numbered
  <2>6. k > Queued' => outqueue'[k - Queued'].redirect = k
    BY <1>2, <2>5
  <2>7. k + o.count <= n /\ k < n
    BY <1>1, <1>3, <2>4
  <2> QED BY <2>2, <2>3, <2>4, <2>6, <2>7
<1>5. n - Queued' = Len(outqueue) + 1
  BY <1>1, <1>2, <1>3
<1>6. ASSUME NEW k \in DOMAIN redirects'
      PROVE  /\ Placed(k, redirects[k])'
             /\ k > Queued' => outqueue'[k - Queued'].redirect = k
             /\ \A j \in DOMAIN redirects' : j < k => j + redirects'[j].count <= k
  <2>1. CASE k = n
    <3>1. \A j \in DOMAIN redirects' : j < k => j \in DOMAIN redirects
      BY <1>2, <2>1
    <3> QED BY <1>2, <1>4, <1>5, <2>1, <3>1
  <2>2. CASE k \in DOMAIN redirects
    <3>1. \A j \in DOMAIN redirects' : j < k => j \in DOMAIN redirects
      BY <1>2, <1>4, <2>2
    <3>2. \A j \in DOMAIN redirects : j < k => j + redirects[j].count <= k
      BY <2>2 DEF Numbered
    <3> QED BY <1>2, <1>4, <2>2, <3>1, <3>2
  <2> QED BY <1>2, <2>1, <2>2
<1>7. Len(outqueue') + Len(sent') <= Given'
  BY <1>2, <1>3 DEF Numbered
<1>8. \A i \in 1 .. Len(sent') : sent'[i] = Queued' - Len(sent') + i
  BY <1>2, <1>3 DEF Numbered
<1> QED BY <1>2, <1>6, <1>7, <1>8 DEF Numbered

LEMMA TypeNumbered ==
    ASSUME Typed, Numbered, NEW p \in Pattern, NEW t \in Target, Type(p, t)
    PROVE  /\ Numbered' /\ Given' = Given + 1 /\ Queued' = Queued
           /\ \A k \in 1 .. Given : commands'[k] = commands[k]
<1>1. PICK c : c = [pattern |-> p, target |-> t]
  OBVIOUS
<1>2. PICK n, o : n = Len(commands) + 1 /\ o = [command |-> n, redirect |-> 0]
  OBVIOUS
<1>3. Given \in Nat /\ n = Given + 1 /\ Len(outqueue) \in Nat /\ Len(sent) \in Nat /\ Queued \in Int
      /\ Given = Len(commands) /\ Queued = Given - Len(outqueue)
  BY <1>2, Lengths DEF Given, Queued
<1>4. c \in Command /\ o \in Entry /\ o.command = n /\ o.redirect = 0
  BY <1>1, <1>2, <1>3 DEF Command, Entry
<1>5. commands' = Append(commands, c) /\ outqueue' = Append(outqueue, o)
      /\ UNCHANGED <<redirects, sent, recounts>>
  BY <1>1, <1>2 DEF Type, server
<1>6. /\ Len(commands') = Len(commands) + 1
      /\ \A k \in 1 .. Len(commands) : commands'[k] = commands[k]
  BY <1>4, <1>5, AppendFacts DEF Typed
<1>7. /\ Len(outqueue') = Len(outqueue) + 1
      /\ \A k \in 1 .. Len(outqueue) : outqueue'[k] = outqueue[k]
      /\ outqueue'[Len(outqueue) + 1] = o
  BY <1>4, <1>5, AppendFacts DEF Typed
<1>8. Given' = Given + 1 /\ Queued' = Queued /\ \A k \in 1 .. Given : commands'[k] = commands[k]
  BY <1>3, <1>6, <1>7 DEF Given, Queued
<1>9. \A i \in 1 .. Len(outqueue') : /\ outqueue'[i].command = Queued' + i
                                     /\ outqueue'[i].redirect \in {0, Queued' + i}
  <2>1. SUFFICES ASSUME NEW i \in 1 .. Len(outqueue')
                 PROVE  /\ outqueue'[i].command = Queued' + i
                        /\ outqueue'[i].redirect \in {0, Queued' + i}
    OBVIOUS
  <2>2. CASE i \in 1 .. Len(outqueue)
    BY <1>7, <1>8, <2>2 DEF Numbered
  <2>3. CASE i \notin 1 .. Len(outqueue)
    <3>1. i = Len(outqueue) + 1
      BY <1>3, <1>7, <2>3
    <3>2. Queued' + i = n
      BY <1>3, <1>8, <3>1
    <3> QED BY <1>4, <1>7, <3>1, <3>2
  <2> QED BY <2>2, <2>3
<1>10. ASSUME NEW k \in DOMAIN redirects'
       PROVE  /\ Placed(k, redirects[k])'
              /\ k > Queued' => outqueue'[k - Queued'].redirect = k
              /\ \A j \in DOMAIN redirects' : j < k => j + redirects'[j].count <= k
  <2>1. PICK r : r = redirects[k]
    OBVIOUS
  <2>2. r \in Redirect /\ Placed(k, r) /\ r = redirects'[k] /\ k \in DOMAIN redirects
    BY <1>5, <1>10, <2>1 DEF Typed, Numbered
  <2>3. Placed(k, r)'
    BY <1>3, <1>5, <1>8, <2>2, StillPlaced
  <2>4. k \in 1 .. Given
    BY <2>2, PlacedBounds
  <2>5. k > Queued => k - Queued \in 1 .. Len(outqueue)
    BY <1>3, <2>4
  <2>6. k > Queued => outqueue[k - Queued].redirect = k
    BY <2>2 DEF Numbered
  <2>7. k > Queued' => outqueue'[k - Queued'].redirect = k
    BY <1>7, <1>8, <2>5, <2>6
  <2>8. \A j \in DOMAIN redirects' : j < k => j + redirects'[j].count <= k
    BY <1>5, <2>2 DEF Numbered
  <2> QED BY <2>2, <2>3, <2>7, <2>8
<1>11. Len(outqueue') + Len(sent') <= Given'
  BY <1>3, <1>5, <1>7, <1>8 DEF Numbered
<1>12. \A i \in 1 .. Len(sent') : sent'[i] = Queued' - Len(sent') + i
  BY <1>5, <1>8 DEF Numbered
<1>13. Numbered'
  BY <1>9, <1>10, <1>11, <1>12 DEF Numbered
<1> QED BY <1>8, <1>13

LEMMA SendNumbered ==
    ASSUME Typed, Numbered, Send
    PROVE  Numbered' /\ Queued' = Queued + 1 /\ Given' = Given /\ commands' = commands
           /\ recounts' = recounts /\ Len(sent') = Len(sent) + 1
<1>1. /\ outqueue \in Seq(Entry) /\ outqueue # <<>> /\ outqueue' = Tail(outqueue) /\ sent \in Seq(Nat)
      /\ sent' = Append(sent, Head(outqueue).command) /\ commands' = commands /\ recounts' = recounts
  BY DEF Send, Typed, asked
<1>2. PICK q : q = Queued + 1
  OBVIOUS
<1>3. Given \in Nat /\ Len(outqueue) \in Nat /\ Len(sent) \in Nat /\ Queued \in Int
      /\ Queued = Given - Len(outqueue)
  BY Lengths DEF Queued
<1>4. /\ Len(outqueue) >= 1 /\ Head(outqueue) = outqueue[1] /\ Len(outqueue') = Len(outqueue) - 1
      /\ \A i \in 1 .. Len(outqueue) - 1 : outqueue'[i] = outqueue[i + 1]
  BY <1>1, Members
<1>5. 1 \in 1 .. Len(outqueue)
  BY <1>3, <1>4
<1>6. Head(outqueue).command = q /\ Head(outqueue).redirect \in {0, q}
  BY <1>2, <1>4, <1>5 DEF Numbered
<1>7. Given' = Given /\ Queued' = q
  BY <1>1, <1>2, <1>3, <1>4 DEF Given, Queued
<1>8. q \in Nat
  BY <1>2, <1>3 DEF Numbered
<1>9. /\ Len(sent') = Len(sent) + 1 /\ \A i \in 1 .. Len(sent) : sent'[i] = sent[i]
      /\ sent'[Len(sent) + 1] = q
  BY <1>1, <1>6, <1>8, AppendFacts
<1>10. Len(outqueue') + Len(sent') <= Given'
  <2>1. Len(outqueue) + Len(sent) <= Given
    BY DEF Numbered
  <2> QED BY <1>3, <1>4, <1>7, <1>9, <2>1
<1>11. \A i \in 1 .. Len(outqueue') : /\ outqueue'[i].command = Queued' + i
                                      /\ outqueue'[i].redirect \in {0, Queued' + i}
  <2>1. SUFFICES ASSUME NEW i \in 1 .. Len(outqueue')
                 PROVE  /\ outqueue'[i].command = Queued' + i
                        /\ outqueue'[i].redirect \in {0, Queued' + i}
    OBVIOUS
  <2>2. PICK j : j = i + 1
    OBVIOUS
  <2>3. j \in 1 .. Len(outqueue) /\ outqueue'[i] = outqueue[j] /\ Queued + j = Queued' + i
    <3>1. i \in 1 .. Len(outqueue) - 1 /\ i + 1 \in 1 .. Len(outqueue)
      BY <1>3, <1>4
    <3>2. Queued + j = Queued' + i
      BY <1>2, <1>3, <1>7, <2>2
    <3> QED BY <1>4, <2>2, <3>1, <3>2
  <2> QED BY <2>3 DEF Numbered
<1>12. \A i \in 1 .. Len(sent') : sent'[i] = Queued' - Len(sent') + i
  <2>1. SUFFICES ASSUME NEW i \in 1 .. Len(sent')
                 PROVE  sent'[i] = Queued' - Len(sent') + i
    OBVIOUS
  <2>2. CASE i \in 1 .. Len(sent)
    <3>1. sent'[i] = Queued - Len(sent) + i
      BY <1>9, <2>2 DEF Numbered
    <3> QED BY <1>2, <1>3, <1>7, <1>9, <3>1
  <2>3. CASE i \notin 1 .. Len(sent)
    <3>1. i = Len(sent) + 1
      BY <1>3, <1>9, <2>3
    <3> QED BY <1>3, <1>7, <1>8, <1>9, <3>1
  <2> QED BY <2>2, <2>3
<1>13. ASSUME NEW n \in DOMAIN redirects'
       PROVE  /\ Placed(n, redirects[n])' /\ redirects'[n].count = redirects[n].count
              /\ n > Queued' => outqueue'[n - Queued'].redirect = n
  <2>1. PICK r, x : r = redirects[n] /\ x = redirects'[n]
    OBVIOUS
  <2>2. n \in DOMAIN redirects /\ r \in Redirect /\ Placed(n, r)
    BY <1>13, <2>1, SendFacts DEF Typed, Numbered
  <2>3. /\ x \in Redirect /\ x.id = r.id /\ x.pattern = r.pattern /\ x.string = r.string
        /\ x.count = r.count /\ x.current_count = r.current_count
        /\ x.cmd_start_received = r.cmd_start_received
        /\ x.cmd_stop_received = r.cmd_stop_received
        /\ n = Head(outqueue).redirect => x.started
        /\ n # Head(outqueue).redirect => x = r
    BY <2>1, <2>2, SendFacts
  <2>4. n \in Nat /\ n >= 1
    BY <2>2, PlacedBounds
  <2>5. n = q => n = Head(outqueue).redirect
    <3>1. SUFFICES ASSUME n = q PROVE n = Head(outqueue).redirect
      OBVIOUS
    <3>2. n > Queued /\ n - Queued = 1
      BY <1>2, <1>3, <3>1
    <3>3. outqueue[n - Queued].redirect = n
      BY <2>2, <3>2 DEF Numbered
    <3> QED BY <1>4, <3>2, <3>3
  <2>6. x.started <=> n <= q
    <3>1. CASE n = q
      BY <1>8, <2>3, <2>5, <3>1
    <3>2. CASE n # q
      <4>1. x = r
        BY <1>6, <2>3, <2>4, <3>2
      <4>2. r.started <=> n <= Queued
        BY <2>2 DEF Placed
      <4>3. n <= Queued <=> n <= q
        BY <1>2, <1>3, <2>4, <3>2
      <4> QED BY <4>1, <4>2, <4>3
    <3> QED BY <3>1, <3>2
  <2>7. Serves(x)'
    <3>1. Ids(x)' = Ids(r)
      BY <2>3 DEF Ids
    <3> QED BY <1>1, <1>7, <2>2, <2>3, <3>1 DEF Placed, Serves
  <2>8. x.cmd_start_received \/ x.cmd_stop_received => x.started
    <3>1. x.cmd_start_received \/ x.cmd_stop_received => n <= Queued
      BY <2>2, <2>3 DEF Placed
    <3>2. n <= Queued => n <= q
      BY <1>2, <1>3, <2>4
    <3> QED BY <2>6, <3>1, <3>2
  <2>9. Placed(n, x)'
    <3>1. /\ x.id = n /\ n >= 1 /\ x.current_count \in 1 .. x.count
          /\ x.cmd_stop_received => CmdExtra[x.pattern] # {}
          /\ ~recounts' => x.count = 1 \/ CmdExtra[x.pattern] = {}
      BY <1>1, <2>2, <2>3 DEF Placed
    <3> QED BY <1>7, <2>6, <2>7, <2>8, <3>1 DEF Placed
  <2>10. n > Queued' => outqueue'[n - Queued'].redirect = n
    <3>1. SUFFICES ASSUME n > Queued' PROVE outqueue'[n - Queued'].redirect = n
      OBVIOUS
    <3>2. n \in 1 .. Given
      BY <2>2, PlacedBounds
    <3>3. PICK i : i = n - Queued'
      OBVIOUS
    <3>4. n > Queued /\ i \in 1 .. Len(outqueue) - 1 /\ i + 1 = n - Queued
      BY <1>2, <1>3, <1>7, <3>1, <3>2, <3>3
    <3>5. outqueue[n - Queued].redirect = n
      BY <2>2, <3>4 DEF Numbered
    <3> QED BY <1>4, <3>3, <3>4, <3>5
  <2> QED BY <2>1, <2>3, <2>9, <2>10
<1>14. \A n \in DOMAIN redirects' : \A k \in DOMAIN redirects' : k < n => k + redirects'[k].count <= n
  BY <1>13, SendFacts DEF Numbered
<1>15. Numbered'
  BY <1>10, <1>11, <1>12, <1>13, <1>14 DEF Numbered
<1> QED BY <1>1, <1>2, <1>7, <1>9, <1>15

LEMMA ServerNumbered ==
    ASSUME Typed, Numbered, ServerAnswers \/ ServerSends \/ ServerNoise
    PROVE  Numbered'
<1>1. CASE ServerAnswers
  <2>1. UNCHANGED <<commands, outqueue, recounts, redirects>> /\ sent # <<>> /\ sent' = Tail(sent)
    BY <1>1 DEF ServerAnswers, client, asked
  <2>2. Given \in Nat /\ Len(outqueue) \in Nat /\ Len(sent) \in Nat /\ Queued \in Int
    BY Lengths
  <2>3. /\ Len(sent) >= 1 /\ Len(sent') = Len(sent) - 1
        /\ \A i \in 1 .. Len(sent) - 1 : sent'[i] = sent[i + 1]
    BY <2>1, Members DEF Typed
  <2>4. Given' = Given /\ Queued' = Queued
    BY <2>1 DEF Given, Queued
  <2>5. \A i \in 1 .. Len(sent') : sent'[i] = Queued' - Len(sent') + i
    <3>1. SUFFICES ASSUME NEW i \in 1 .. Len(sent') PROVE sent'[i] = Queued' - Len(sent') + i
      OBVIOUS
    <3>2. PICK j : j = i + 1
      OBVIOUS
    <3>3. j \in 1 .. Len(sent) /\ sent'[i] = sent[j]
      BY <2>2, <2>3, <3>2
    <3>4. sent[j] = Queued - Len(sent) + j
      BY <3>3 DEF Numbered
    <3> QED BY <2>2, <2>3, <2>4, <3>2, <3>3, <3>4
  <2>6. Len(outqueue') + Len(sent') <= Given'
    <3>1. Len(outqueue) + Len(sent) <= Given
      BY DEF Numbered
    <3> QED BY <2>1, <2>2, <2>3, <2>4, <3>1
  <2>7. \A n, r : Placed(n, r) => Placed(n, r)'
    BY <2>1, SamePlaced
  <2>8. \A n \in DOMAIN redirects' : Placed(n, redirects[n])'
    <3>1. SUFFICES ASSUME NEW n \in DOMAIN redirects' PROVE Placed(n, redirects[n])'
      OBVIOUS
    <3>2. PICK r : r = redirects[n]
      OBVIOUS
    <3>3. Placed(n, r) /\ redirects'[n] = r
      BY <2>1, <3>1, <3>2 DEF Numbered
    <3>4. Placed(n, r)'
      BY <2>7, <3>3
    <3> QED BY <3>3, <3>4
  <2> QED BY <2>1, <2>4, <2>5, <2>6, <2>8 DEF Numbered
<1>2. CASE ServerSends \/ ServerNoise
  BY <1>2, SameNumbered DEF ServerSends, ServerNoise, client, asked
<1> QED BY <1>1, <1>2

\* The first command sent was given.
LEMMA SentGiven ==
    ASSUME Typed, Numbered, sent # <<>>
    PROVE  /\ Head(sent) \in 1 .. Len(commands) /\ Head(sent) = Queued - Len(sent) + 1
           /\ Len(sent) >= 1
<1>1. Given \in Nat /\ Len(outqueue) \in Nat /\ Len(sent) \in Nat /\ Queued = Given - Len(outqueue)
  BY Lengths DEF Queued
<1>2. Len(sent) >= 1 /\ Head(sent) = sent[1]
  BY Members DEF Typed
<1>3. 1 \in 1 .. Len(sent)
  BY <1>1, <1>2
<1>4. sent[1] = Queued - Len(sent) + 1
  BY <1>3 DEF Numbered
<1>5. Len(outqueue) + Len(sent) <= Given
  BY DEF Numbered
<1>6. Queued - Len(sent) + 1 \in 1 .. Given
  BY <1>1, <1>2, <1>5
<1> QED BY <1>2, <1>4, <1>6 DEF Given

-----------------------------------------------------------------------------
(* The redirections that ended.                                            *)

Reported ==
    /\ \A x \in reports : x.redirect.id \in 1 .. Given /\ x.redirect.id \notin DOMAIN redirects
    /\ \A x, y \in reports : x.redirect.id = y.redirect.id => x = y

LEMMA MoreReported ==
    ASSUME Reported, Given \in Nat, Given' = Given, DOMAIN redirects' \subseteq DOMAIN redirects,
           DOMAIN redirects \subseteq 1 .. Given, NEW R, reports' = reports \cup R,
           \A x \in R : /\ x.redirect.id \in DOMAIN redirects /\ x.redirect.id \notin DOMAIN redirects'
                        /\ \A y \in R : x.redirect.id = y.redirect.id => x = y
    PROVE  Reported'
<1>1. \A x \in reports' : x.redirect.id \in 1 .. Given' /\ x.redirect.id \notin DOMAIN redirects'
  BY DEF Reported
<1>2. ASSUME NEW x \in reports', NEW y \in reports', x.redirect.id = y.redirect.id
      PROVE  x = y
  <2>1. CASE x \in reports /\ y \in reports
    BY <1>2, <2>1 DEF Reported
  <2>2. CASE x \in R /\ y \in R
    BY <1>2, <2>2
  <2>3. CASE x \in reports /\ y \in R
    BY <1>2, <2>3 DEF Reported
  <2>4. CASE x \in R /\ y \in reports
    BY <1>2, <2>4 DEF Reported
  <2> QED BY <2>1, <2>2, <2>3, <2>4
<1> QED BY <1>1, <1>2 DEF Reported

LEMMA ListGiven ==
    ASSUME Typed, Numbered
    PROVE  DOMAIN redirects \subseteq 1 .. Given /\ Given \in Nat
<1>1. SUFFICES ASSUME NEW n \in DOMAIN redirects PROVE n \in 1 .. Given
  BY Lengths
<1>2. PICK r : r = redirects[n]
  OBVIOUS
<1>3. r \in Redirect /\ Placed(n, r)
  BY <1>2 DEF Typed, Numbered
<1> QED BY <1>3, PlacedBounds

LEMMA SameReported ==
    ASSUME Typed, Numbered, Reported, UNCHANGED <<commands, reports>>,
           DOMAIN redirects' \subseteq DOMAIN redirects
    PROVE  Reported'
<1>1. Given' = Given
  BY DEF Given
<1> QED BY <1>1 DEF Reported

\* The redirection n of the list, whose end with the message m the report y tells.
EndsWith(n, m, y) ==
    LET r == redirects[n] IN
    /\ n \in DOMAIN redirects /\ n \in Reached(redirects, m) /\ r \in Redirect /\ Placed(n, r)
    /\ y.redirect = One(r, m).redirect /\ y.redirect \in Redirect /\ Same(y.redirect, r)
    /\ ~y.error /\ One(r, m).over /\ y = Report(One(r, m).redirect, FALSE)

\* The reports of the message are of the redirections that end with it.
LEMMA HandledReports ==
    ASSUME Typed, Numbered, NEW m \in Msg, NEW x, x = Message(redirects, m), NEW y \in x.reports
    PROVE  \E n \in Overs(redirects, m) : EndsWith(n, m, y)
<1>1. Handled(redirects, m, x)
  BY RedirectsHandled
<1>2. PICK n \in Overs(redirects, m) : y = Report(One(redirects[n], m).redirect, FALSE)
  BY <1>1 DEF Handled
<1>3. n \in DOMAIN redirects /\ n \in Reached(redirects, m)
  BY <1>1, <1>2 DEF Handled
<1>4. PICK r, o : r = redirects[n] /\ o = One(r, m)
  OBVIOUS
<1>5. r \in Redirect /\ Placed(n, r)
  BY <1>3, <1>4 DEF Typed, Numbered
<1>6. o.redirect \in Redirect /\ Same(o.redirect, r)
  BY <1>4, <1>5, OneCases
<1>7. PICK no \in BOOLEAN : no = FALSE
  OBVIOUS
<1>8. y = Report(o.redirect, no)
  BY <1>2, <1>4, <1>7
<1>9. y.redirect = o.redirect /\ y.error = no
  BY <1>7, <1>8, ReportFacts
<1>10. ~y.error
  BY <1>7, <1>9
<1>11. o.over
  BY <1>2, <1>4 DEF Overs
<1> QED BY <1>2, <1>3, <1>4, <1>5, <1>6, <1>9, <1>10, <1>11 DEF EndsWith

LEMMA FlushReported ==
    ASSUME Typed, Carried, Numbered, Reported, NEW disconnects \in BOOLEAN, Flush(disconnects)
    PROVE  Reported'
<1>1. PICK line, m, x : line = Head(irc_recv_msgq) /\ m = Last(line).msg /\ x = Message(redirects, m)
  OBVIOUS
<1>2. m \in Msg
  BY <1>1, WholeLine DEF Flush
<1>3. commands' = commands /\ Given' = Given /\ DOMAIN redirects \subseteq 1 .. Given /\ Given \in Nat
  BY ListGiven DEF Flush, Given
<1>4. CASE ~connected
  BY <1>3, <1>4, SameReported DEF Flush, results
<1>5. CASE connected
  <2>1. reports' = reports \cup x.reports
    BY <1>1, <1>5 DEF Flush
  <2>2. Handled(redirects, m, x)
    BY <1>1, <1>2, RedirectsHandled
  <2>3. DOMAIN redirects' \subseteq DOMAIN redirects \ Overs(redirects, m)
    <3>1. CASE disconnects /\ ~x.taken
      <4>1. Disconnected
        BY <1>1, <1>5, <3>1 DEF Flush
      <4>2. DOMAIN redirects' = {}
        BY <4>1 DEF Disconnected, Closed
      <4> QED BY <4>2
    <3>2. CASE ~(disconnects /\ ~x.taken)
      BY <1>1, <1>5, <2>2, <3>2 DEF Flush, Handled
    <3> QED BY <3>1, <3>2
  <2>4. ASSUME NEW y \in x.reports
        PROVE  \E n \in Overs(redirects, m) : /\ y = Report(One(redirects[n], m).redirect, FALSE)
                                              /\ y.redirect.id = n /\ n \in DOMAIN redirects
    <3>1. PICK n \in Overs(redirects, m) : EndsWith(n, m, y)
      BY <1>1, <1>2, <2>4, HandledReports
    <3>2. y.redirect.id = redirects[n].id /\ redirects[n].id = n
      BY <3>1 DEF EndsWith, Same, Placed
    <3> QED BY <3>1, <3>2 DEF EndsWith
  <2>5. \A y \in x.reports : /\ y.redirect.id \in DOMAIN redirects
                             /\ y.redirect.id \notin DOMAIN redirects'
                             /\ \A z \in x.reports : y.redirect.id = z.redirect.id => y = z
    BY <2>3, <2>4
  <2> QED BY <1>3, <2>1, <2>3, <2>5, MoreReported
<1> QED BY <1>4, <1>5

LEMMA TimeoutReported ==
    ASSUME Typed, Numbered, Reported, NEW n \in DOMAIN redirects, Timeout(n)
    PROVE  Reported'
<1>1. PICK r, x : r = redirects[n] /\ x = Report(Stop(r, TRUE).redirect, TRUE)
  OBVIOUS
<1>2. x.redirect = r /\ r.id = n
  BY <1>1, StopError DEF Numbered, Placed
<1>3. reports' = reports \cup {x}
  BY <1>1, Zenon DEF Timeout
<1>4. redirects' = [k \in DOMAIN redirects \ {n} |-> redirects[k]]
  BY DEF Timeout
<1>5. DOMAIN redirects' = DOMAIN redirects \ {n}
  BY <1>4
<1>6. Given' = Given
  BY DEF Timeout, Given
<1>7. Given \in Nat /\ DOMAIN redirects \subseteq 1 .. Given
  BY ListGiven
<1>8. \A y \in {x} : /\ y.redirect.id \in DOMAIN redirects /\ y.redirect.id \notin DOMAIN redirects'
                     /\ \A z \in {x} : y.redirect.id = z.redirect.id => y = z
  BY <1>2, <1>5
<1>9. PICK R : R = {x}
  OBVIOUS
<1> QED BY <1>3, <1>5, <1>6, <1>7, <1>8, <1>9, MoreReported

LEMMA AskReported ==
    ASSUME Typed, Numbered, Reported, NEW p \in Pattern, NEW t \in Target, NEW s \in {None, t},
           NEW count \in 1 .. 2, Ask(p, t, s, count)
    PROVE  Reported'
<1>1. PICK n, r : n = Given + 1 /\ r = NewRedirect(n, p, s, count)
  OBVIOUS
<1>2. AskedFor(n, r, count)
  BY <1>1, AskFacts
<1>3. Given' = Given + count /\ Given \in Nat /\ DOMAIN redirects' = DOMAIN redirects \cup {n}
  BY <1>2, Lengths DEF AskedFor
<1>4. reports' = reports
  BY DEF Ask, results
<1>5. \A k \in 1 .. Given : k \in 1 .. Given' /\ k # n
  BY <1>1, <1>3
<1> QED BY <1>3, <1>4, <1>5 DEF Reported

LEMMA TypeReported ==
    ASSUME Typed, Numbered, Reported, NEW p \in Pattern, NEW t \in Target, Type(p, t)
    PROVE  Reported'
<1>1. Given' = Given + 1 /\ Given \in Nat
  BY TypeNumbered, Lengths
<1>2. reports' = reports /\ redirects' = redirects
  BY DEF Type, results
<1>3. \A k \in 1 .. Given : k \in 1 .. Given'
  BY <1>1
<1> QED BY <1>2, <1>3 DEF Reported

-----------------------------------------------------------------------------
(* What always holds.                                                      *)

Safe == Typed /\ Carried /\ Numbered /\ Off /\ Reported /\ ~garbled

LEMMA InitSafe == Init => Safe
<1>1. SUFFICES ASSUME Init PROVE Safe
  OBVIOUS
<1>2. Typed
  BY <1>1, InitTyped
<1>3. /\ DOMAIN redirects = {} /\ outqueue = <<>> /\ unterminated = <<>> /\ irc_recv_msgq = <<>>
      /\ sent = <<>> /\ commands = <<>> /\ reports = {}
  BY <1>1 DEF Init
<1>4. connected /\ ~halved /\ ~garbled
  BY <1>1, Zenon DEF Init
<1>5. Numbered
  BY <1>3 DEF Numbered, Given
<1> QED BY <1>2, <1>3, <1>4, <1>5 DEF Safe, Carried, Off, Reported

LEMMA ReceiveSafe ==
    ASSUME Safe, AddBuffer \/ \E lost \in BOOLEAN : RecvEnds(lost)
    PROVE  Safe'
<1>1. CASE AddBuffer
  <2>1. Typed' /\ Carried'
    BY <1>1, AddBufferTyped, AddBufferCarried DEF Safe
  <2>2. UNCHANGED <<redirects, outqueue, sent, commands, recounts, reports, garbled>>
        /\ connected /\ connected' = connected
    BY <1>1 DEF AddBuffer, asked, results
  <2>3. Numbered' /\ Reported'
    BY <2>2, SameNumbered, SameReported DEF Safe
  <2>4. Off' /\ ~garbled'
    BY <2>2 DEF Safe, Off
  <2> QED BY <2>1, <2>3, <2>4 DEF Safe
<1>2. ASSUME NEW lost \in BOOLEAN, RecvEnds(lost)
      PROVE  Safe'
  <2>1. UNCHANGED <<irc_recv_msgq, commands, recounts, reports, garbled, connects>>
    BY <1>2 DEF RecvEnds, asked, results, bounds
  <2>2. ~receiving'
    BY <1>2, Zenon DEF RecvEnds
  <2>3. Typed'
    BY <1>2, RecvEndsTyped DEF Safe
  <2>4. CASE lost
    <3>1. Disconnected
      BY <1>2, <2>4 DEF RecvEnds
    <3>2. Carried'
      BY <2>1, <3>1, LessCarried DEF Safe
    <3>3. Numbered' /\ Off'
      BY <2>1, <2>2, <3>1, DisconnectedNumbered DEF Safe
    <3>4. DOMAIN redirects' = {}
      BY <3>1 DEF Disconnected, Closed
    <3>5. Reported'
      BY <2>1, <3>4, SameReported DEF Safe
    <3> QED BY <2>1, <2>3, <3>2, <3>3, <3>5 DEF Safe
  <2>5. CASE ~lost
    <3>1. UNCHANGED <<connected, redirects, outqueue, unterminated, sent, reply, wire, halved>>
      BY <1>2, <2>5 DEF RecvEnds, server
    <3>2. Carried' /\ Numbered' /\ Reported'
      BY <2>1, <3>1, SameCarried, SameNumbered, SameReported DEF Safe
    <3>3. Off'
      BY <2>2, <3>1 DEF Safe, Off
    <3> QED BY <2>1, <2>3, <3>2, <3>3 DEF Safe
  <2> QED BY <2>4, <2>5
<1> QED BY <1>1, <1>2

LEMMA FlushSafe ==
    ASSUME Safe, NEW disconnects \in BOOLEAN, Flush(disconnects)
    PROVE  Safe'
<1>1. PICK line, m, x : line = Head(irc_recv_msgq) /\ m = Last(line).msg /\ x = Message(redirects, m)
  OBVIOUS
<1>2. Typed /\ Carried /\ Numbered /\ Off /\ Reported /\ ~garbled
  BY DEF Safe
<1>3. Typed'
  BY <1>2, CarriedLines, FlushTyped
<1>4. Numbered' /\ Reported'
  BY <1>2, FlushNumbered, FlushReported
<1>5. /\ ~receiving /\ irc_recv_msgq # <<>> /\ irc_recv_msgq' = Tail(irc_recv_msgq)
      /\ connects' = connects /\ commands' = commands /\ recounts' = recounts /\ receiving' = receiving
  BY DEF Flush, bounds
<1>6. line = Halves(m)
  BY <1>1, <1>2, <1>5, WholeLine
<1>7. ~garbled'
  <2>1. CASE connected
    <3>1. garbled' <=> (garbled \/ line # Halves(m))
      BY <1>1, <2>1, Zenon DEF Flush
    <3> QED BY <1>2, <1>6, <3>1
  <2>2. CASE ~connected
    BY <1>2, <2>2 DEF Flush, results
  <2> QED BY <2>1, <2>2
<1>8. Disconnected \/ UNCHANGED <<connected, outqueue, unterminated, sent, reply, wire, halved>>
  BY <1>1 DEF Flush, server
<1>9. Carried'
  <2>1. Disconnected \/ UNCHANGED <<unterminated, wire, halved>>
    BY <1>8
  <2> QED BY <1>2, <1>5, <2>1, LessCarried
<1>10. Off'
  <2>1. CASE Disconnected
    BY <1>2, <1>5, <2>1, DisconnectedNumbered
  <2>2. CASE UNCHANGED <<connected, outqueue, unterminated, sent, reply, wire, halved>>
    <3>1. ~connected => redirects' = redirects
      <4>1. ~connected => UNCHANGED <<connected, redirects, outqueue, unterminated, server, results>>
        BY DEF Flush
      <4> QED BY <4>1
    <3> QED BY <1>2, <1>5, <2>2, <3>1 DEF Off
  <2> QED BY <1>8, <2>1, <2>2
<1> QED BY <1>3, <1>4, <1>7, <1>9, <1>10 DEF Safe

LEMMA CommandSafe ==
    ASSUME Safe, NEW p \in Pattern, NEW t \in Target,
           Type(p, t) \/ \E s \in {None, t}, count \in 1 .. 2 : Ask(p, t, s, count)
    PROVE  Safe'
<1>1. Typed /\ Carried /\ Numbered /\ Off /\ Reported /\ ~garbled
  BY DEF Safe
<1>2. CASE Type(p, t)
  <2>1. Typed' /\ Numbered' /\ Reported'
    BY <1>1, <1>2, TypeTyped, TypeNumbered, TypeReported
  <2>2. /\ UNCHANGED <<connected, unterminated, irc_recv_msgq, wire, halved, connects, garbled>>
        /\ connected
    BY <1>2 DEF Type, server, results, bounds
  <2>3. Carried'
    BY <1>1, <2>2, SameCarried
  <2> QED BY <1>1, <2>1, <2>2, <2>3 DEF Safe, Off
<1>3. ASSUME NEW s \in {None, t}, NEW count \in 1 .. 2, Ask(p, t, s, count)
      PROVE  Safe'
  <2>1. Typed' /\ Numbered' /\ Reported'
    BY <1>1, <1>3, AskTyped, AskNumbered, AskReported
  <2>2. /\ UNCHANGED <<connected, unterminated, irc_recv_msgq, wire, halved, connects, garbled>>
        /\ connected
    BY <1>3 DEF Ask, server, results, bounds
  <2>3. Carried'
    BY <1>1, <2>2, SameCarried
  <2> QED BY <1>1, <2>1, <2>2, <2>3 DEF Safe, Off
<1> QED BY <1>2, <1>3

LEMMA QueueSafe ==
    ASSUME Safe, Send \/ Connect \/ \E n \in DOMAIN redirects : Timeout(n)
    PROVE  Safe'
<1>1. Typed /\ Carried /\ Numbered /\ Off /\ Reported /\ ~garbled
  BY DEF Safe
<1>2. CASE Send
  <2>1. Typed' /\ Numbered'
    BY <1>1, <1>2, SendTyped, SendNumbered
  <2>2. /\ UNCHANGED <<connected, unterminated, irc_recv_msgq, wire, halved, connects, garbled,
                       commands, reports>>
        /\ connected
    BY <1>2 DEF Send, asked, results, bounds
  <2>3. Carried'
    BY <1>1, <2>2, SameCarried
  <2>4. DOMAIN redirects' = DOMAIN redirects
    BY <1>1, <1>2, SendFacts
  <2>5. Reported'
    BY <1>1, <2>2, <2>4, SameReported
  <2> QED BY <1>1, <2>1, <2>2, <2>3, <2>5 DEF Safe, Off
<1>3. CASE Connect
  <2>1. Typed' /\ Carried'
    BY <1>1, <1>3, ConnectTyped, ConnectCarried
  <2>2. UNCHANGED <<redirects, outqueue, sent, commands, recounts, reports, garbled>>
    BY <1>3 DEF Connect, server, asked, results
  <2>3. Numbered' /\ Reported'
    BY <1>1, <2>2, SameNumbered, SameReported
  <2>4. connected'
    BY <1>3, Zenon DEF Connect
  <2> QED BY <1>1, <2>1, <2>2, <2>3, <2>4 DEF Safe, Off
<1>4. ASSUME NEW n \in DOMAIN redirects, Timeout(n)
      PROVE  Safe'
  <2>1. Typed' /\ Numbered' /\ Reported'
    BY <1>1, <1>4, TimeoutTyped, TimeoutNumbered, TimeoutReported
  <2>2. UNCHANGED <<connected, unterminated, irc_recv_msgq, wire, halved, connects, garbled>>
    BY <1>4 DEF Timeout, server
  <2>3. Carried'
    BY <1>1, <2>2, SameCarried
  <2>4. connected
    BY <1>1, <1>4 DEF Off
  <2> QED BY <1>1, <2>1, <2>2, <2>3, <2>4 DEF Safe, Off
<1> QED BY <1>2, <1>3, <1>4

LEMMA ServerSafe ==
    ASSUME Safe, ServerAnswers \/ ServerSends \/ ServerNoise
    PROVE  Safe'
<1>1. Typed /\ Carried /\ Numbered /\ Off /\ Reported /\ ~garbled
  BY DEF Safe
<1>2. Typed'
  <2>1. sent # <<>> => Head(sent) \in 1 .. Len(commands)
    BY <1>1, SentGiven
  <2> QED BY <1>1, <2>1, ServerTyped
<1>3. Numbered'
  BY <1>1, ServerNumbered
<1>4. UNCHANGED <<connected, redirects, unterminated, irc_recv_msgq, halved, connects, garbled, commands,
                  reports>>
  BY DEF ServerAnswers, ServerSends, ServerNoise, client, asked, results, bounds
<1>5. Reported'
  BY <1>1, <1>4, SameReported
<1>6. connected
  BY <1>1 DEF ServerAnswers, ServerSends, ServerNoise, Off
<1>7. Carried'
  <2>1. CASE ServerAnswers
    BY <1>1, <1>4, <2>1, SameCarried DEF ServerAnswers
  <2>2. CASE ServerSends
    <3>1. Head(reply) \in Msg
      BY <1>1, <2>2 DEF ServerSends, Typed
    <3>2. wire' = Append(wire, Head(reply))
      BY <2>2 DEF ServerSends
    <3> QED BY <1>1, <1>4, <3>1, <3>2, WireCarried
  <2>3. CASE ServerNoise
    <3>1. wire' = Append(wire, Noise)
      BY <2>3 DEF ServerNoise
    <3> QED BY <1>1, <1>4, <3>1, NoiseFacts, WireCarried
  <2> QED BY <2>1, <2>2, <2>3
<1> QED BY <1>1, <1>2, <1>3, <1>4, <1>5, <1>6, <1>7 DEF Safe, Off

LEMMA NextSafe == Safe /\ [Next]_vars => Safe'
<1>1. SUFFICES ASSUME Safe, [Next]_vars PROVE Safe'
  OBVIOUS
<1>2. CASE UNCHANGED vars
  <2>1. Typed'
    BY <1>1, <1>2, StutterTyped DEF Safe
  <2>2. UNCHANGED <<connected, redirects, outqueue, receiving, unterminated, irc_recv_msgq, sent, reply, wire,
                    halved, commands, recounts, reports, garbled, connects>>
    BY <1>2 DEF vars, client, server, asked, results, bounds
  <2>3. Carried' /\ Numbered' /\ Reported'
    BY <1>1, <2>2, SameCarried, SameNumbered, SameReported DEF Safe
  <2> QED BY <1>1, <2>1, <2>2, <2>3 DEF Safe, Off
<1>3. CASE Client
  BY <1>1, <1>3, ReceiveSafe, FlushSafe, CommandSafe, QueueSafe DEF Client
<1>4. CASE ServerAnswers \/ ServerSends \/ ServerNoise
  BY <1>1, <1>4, ServerSafe
<1> QED BY <1>1, <1>2, <1>3, <1>4 DEF Next

\* The lines are carried whole, the redirections and the commands keep their
\* order, and nothing is left of a connection that was closed.
THEOREM AlwaysSafe == Spec => []Safe
BY InitSafe, NextSafe, PTL DEF Spec

LEMMA SafeTyped == Safe => TypeOK
<1>1. SUFFICES ASSUME Safe PROVE TypeOK
  OBVIOUS
<1>2. Typed /\ Carried /\ Numbered /\ Off
  BY <1>1 DEF Safe
<1>3. {connected, receiving, halved, garbled, orderly, recounts} \subseteq BOOLEAN
  BY <1>2 DEF Typed
<1>4. DOMAIN commands = 1 .. Given
  BY <1>2 DEF Typed, Given
<1>5. \A n \in DOMAIN redirects : LET r == redirects[n] IN
          /\ r.id = n /\ Ids(r) \subseteq DOMAIN commands
          /\ r.current_count \in 1 .. r.count
          /\ r.cmd_start_received \/ r.cmd_stop_received => r.started
  BY <1>2, <1>4 DEF Numbered, Placed, Serves
<1>6. unterminated # <<>> => Last(unterminated).half = 1
  <2>1. SUFFICES ASSUME unterminated # <<>> PROVE Last(unterminated).half = 1
    OBVIOUS
  <2>2. PICK m : unterminated = <<Half(m, 1)>>
    BY <1>2, <2>1 DEF Carried
  <2>3. PICK h : h = Half(m, 1)
    OBVIOUS
  <2>4. h.half = 1
    BY <2>3 DEF Half
  <2>5. Last(<<h>>) = h
    BY DEF Last
  <2> QED BY <2>2, <2>3, <2>4, <2>5
<1>7. \A i \in DOMAIN irc_recv_msgq : Last(irc_recv_msgq[i]).half = 2
  <2>1. SUFFICES ASSUME NEW i \in 1 .. Len(irc_recv_msgq) PROVE Last(irc_recv_msgq[i]).half = 2
    <3>1. DOMAIN irc_recv_msgq = 1 .. Len(irc_recv_msgq)
      BY <1>2 DEF Typed
    <3> QED BY <3>1
  <2>2. PICK line, m : line = irc_recv_msgq[i] /\ m = Last(line).msg
    OBVIOUS
  <2>3. line = Halves(m)
    BY <1>2, <2>2 DEF Carried
  <2>4. PICK a, b : a = Half(m, 1) /\ b = Half(m, 2)
    OBVIOUS
  <2>5. b.half = 2
    BY <2>4 DEF Half
  <2>6. line = <<a, b>>
    BY <2>3, <2>4 DEF Halves
  <2>7. Last(<<a, b>>) = b
    BY DEF Last
  <2> QED BY <2>2, <2>5, <2>6, <2>7
<1>8. ~connected => DOMAIN redirects = {} /\ outqueue = <<>> /\ unterminated = <<>>
  BY <1>2 DEF Off
<1> QED BY <1>3, <1>5, <1>6, <1>7, <1>8 DEF TypeOK

\* A message that is handled is one whole line of the connection, however the reads
\* cut it.
THEOREM LinesAlwaysWhole == Spec => []LinesWhole
<1>1. Safe => LinesWhole
  BY SafeTyped DEF Safe, LinesWhole, WholeLines
<1> QED BY <1>1, AlwaysSafe, PTL

\* A redirection ends once.
THEOREM EndsOnceAlways == Spec => []EndsOnce
<1>1. Safe => EndsOnce
  BY DEF Safe, Reported, EndsOnce
<1> QED BY <1>1, AlwaysSafe, PTL

-----------------------------------------------------------------------------
(* The messages that come, and the answers they are in.                    *)

\* The messages received and on their way.
Total == Len(irc_recv_msgq) + Len(wire)
At(k) == IF k <= Len(irc_recv_msgq) THEN Last(irc_recv_msgq[k]).msg ELSE wire[k - Len(irc_recv_msgq)]

\* m is in an answer to a command sent.
OfCommand(m) ==
    /\ m.of \in 1 .. Queued
    /\ m.answer \in Answers[commands[m.of].pattern] /\ m.target = commands[m.of].target

\* m ends its answer.
Full(m) == m.at = Len(m.answer)

\* Where the server is, after b.
Place(b) ==
    /\ b \in Msg /\ b.at \in 1 .. Len(b.answer) /\ b.of <= Queued
    /\ Full(b) \/ OfCommand(b)

NextOf(b) == Line(b.of, b.answer, b.at + 1, b.target)

\* m comes after b: it goes on with the answer, or begins the next.
Follows(b, m) ==
    /\ OfCommand(m)
    /\ IF Full(b) THEN m.of = b.of + 1 /\ m.at = 1 ELSE m = NextOf(b)

\* c is the place after m.
Leads(b, m, c) == IF m = Noise THEN c = b ELSE c = m /\ Follows(b, m)

\* p[k] is the place after the k-th message that comes.
Chain(p) ==
    /\ p \in [0 .. Total -> Msg]
    /\ \A k \in 0 .. Total : Place(p[k])
    /\ \A k \in 1 .. Total : At(k) \in Msg /\ Leads(p[k - 1], At(k), p[k])

\* What the server goes on with.
ServerEnd(e) ==
    IF reply = <<>> THEN Full(e) /\ e.of = Queued - Len(sent)
    ELSE /\ Follows(e, reply[1]) /\ reply[1].of = Queued - Len(sent)
         /\ \A i \in 1 .. Len(reply) : reply[i].at \in 1 .. Len(reply[i].answer)
         /\ \A i \in 1 .. Len(reply) - 1 : ~Full(reply[i]) /\ reply[i + 1] = NextOf(reply[i])
         /\ Full(reply[Len(reply)])

LEMMA TotalFacts ==
    ASSUME Typed
    PROVE  Total \in Nat /\ Len(irc_recv_msgq) \in Nat /\ Len(wire) \in Nat
BY DEF Typed, Total

LEMMA NotNoise == ASSUME NEW m, OfCommand(m), Typed PROVE m # Noise
BY NoiseFacts, Lengths DEF OfCommand

\* What was sent and answered is not disturbed.
Kept == Queued <= Queued' /\ \A k \in 1 .. Given : commands'[k] = commands[k]

LEMMA KeptPlaces ==
    ASSUME Typed, Typed', Kept
    PROVE  /\ \A m : OfCommand(m) => OfCommand(m)'
           /\ \A b : Place(b) => Place(b)'
           /\ \A b, m : Follows(b, m) => Follows(b, m)'
           /\ \A b, m, c : Leads(b, m, c) => Leads(b, m, c)'
<1>1. Queued \in Int /\ Queued' \in Int /\ Given \in Nat /\ Queued <= Given
  BY Lengths DEF Typed, Queued, Given
<1>2. \A k \in 1 .. Queued : k \in 1 .. Queued' /\ commands'[k] = commands[k]
  BY <1>1 DEF Kept
<1>3. ASSUME NEW m, OfCommand(m) PROVE OfCommand(m)'
  BY <1>2, <1>3 DEF OfCommand
<1>4. ASSUME NEW b, Place(b) PROVE Place(b)'
  <2>1. b.of \in Nat
    BY <1>4 DEF Place, Msg
  <2>2. b.of <= Queued'
    BY <1>1, <1>4, <2>1 DEF Kept, Place
  <2> QED BY <1>3, <1>4, <2>2 DEF Place, Full
<1>5. ASSUME NEW b, NEW m, Follows(b, m) PROVE Follows(b, m)'
  BY <1>3, <1>5 DEF Follows, Full, NextOf
<1>6. ASSUME NEW b, NEW m, NEW c, Leads(b, m, c) PROVE Leads(b, m, c)'
  BY <1>5, <1>6 DEF Leads
<1> QED BY <1>3, <1>4, <1>5, <1>6

LEMMA SameChain ==
    ASSUME Typed, Typed', Kept, NEW p, Chain(p), Total' = Total,
           \A k \in 1 .. Total : At(k)' = At(k)
    PROVE  Chain(p)'
<1>1. /\ \A b : Place(b) => Place(b)'
      /\ \A b, m, c : Leads(b, m, c) => Leads(b, m, c)'
  BY KeptPlaces
<1>2. \A k \in 0 .. Total' : Place(p[k])'
  BY <1>1 DEF Chain
<1>3. ASSUME NEW k \in 1 .. Total PROVE At(k)' \in Msg /\ Leads(p[k - 1], At(k), p[k])'
  <2>1. PICK m : m = At(k)
    OBVIOUS
  <2>2. Leads(p[k - 1], m, p[k]) /\ m \in Msg
    BY <1>3, <2>1 DEF Chain
  <2>3. Leads(p[k - 1], m, p[k])'
    BY <1>1, <2>2
  <2>4. At(k)' = m
    BY <1>3, <2>1
  <2> QED BY <2>2, <2>3, <2>4
<1> QED BY <1>2, <1>3 DEF Chain

\* The first message was handled.
LEMMA TailChain ==
    ASSUME Typed, Typed', Kept, NEW p, Chain(p), Total >= 1, Total' = Total - 1,
           \A k \in 1 .. Total - 1 : At(k)' = At(k + 1)
    PROVE  \E q : Chain(q)' /\ q[0] = p[1] /\ q[Total'] = p[Total]
<1>1. /\ \A b : Place(b) => Place(b)'
      /\ \A b, m, c : Leads(b, m, c) => Leads(b, m, c)'
  BY KeptPlaces
<1>2. PICK t \in Nat : t = Total
  BY TotalFacts
<1>3. PICK q : q = [k \in 0 .. t - 1 |-> p[k + 1]]
  OBVIOUS
<1>4. \A k \in 0 .. t - 1 : k + 1 \in 0 .. t
  BY <1>2
<1>5. p \in [0 .. t -> Msg]
  BY <1>2 DEF Chain
<1>6. q \in [0 .. Total' -> Msg]
  BY <1>2, <1>3, <1>4, <1>5
<1>7. \A k \in 0 .. Total' : Place(q[k])'
  <2>1. SUFFICES ASSUME NEW k \in 0 .. t - 1 PROVE Place(q[k])'
    BY <1>2
  <2>2. Place(p[k + 1])
    BY <1>2, <1>4 DEF Chain
  <2> QED BY <1>1, <1>3, <2>2
<1>8. ASSUME NEW k \in 1 .. t - 1 PROVE At(k)' \in Msg /\ Leads(q[k - 1], At(k), q[k])'
  <2>1. PICK j : j = k + 1
    OBVIOUS
  <2>2. j \in 1 .. t /\ j - 1 = k /\ q[k - 1] = p[k] /\ q[k] = p[j]
    BY <1>2, <1>3, <2>1
  <2>3. PICK m : m = At(j)
    OBVIOUS
  <2>4. Leads(p[k], m, p[j]) /\ m \in Msg
    BY <1>2, <2>2, <2>3 DEF Chain
  <2>5. Leads(p[k], m, p[j])'
    BY <1>1, <2>4
  <2>6. At(k)' = m
    BY <1>2, <2>1, <2>3
  <2> QED BY <2>2, <2>4, <2>5, <2>6
<1>9. Chain(q)'
  BY <1>2, <1>6, <1>7, <1>8 DEF Chain
<1>10. q[0] = p[1] /\ q[Total'] = p[Total]
  BY <1>2, <1>3
<1> QED BY <1>9, <1>10

\* The server sent a message.
LEMMA MoreChain ==
    ASSUME Typed, Typed', Kept, NEW p, Chain(p), Total' = Total + 1,
           \A k \in 1 .. Total : At(k)' = At(k), NEW m \in Msg, At(Total)' = m,
           NEW c, Leads(p[Total], m, c), Place(c)
    PROVE  \E q : Chain(q)' /\ q[0] = p[0] /\ q[Total'] = c
<1>1. /\ \A b : Place(b) => Place(b)'
      /\ \A b, d, e : Leads(b, d, e) => Leads(b, d, e)'
  BY KeptPlaces
<1>2. PICK t \in Nat : t = Total
  BY TotalFacts
<1>3. PICK q : q = [k \in 0 .. t + 1 |-> IF k <= t THEN p[k] ELSE c]
  OBVIOUS
<1>4. p \in [0 .. t -> Msg] /\ c \in Msg
  BY <1>2 DEF Chain, Place
<1>5. (\A k \in 0 .. t : q[k] = p[k]) /\ q[t + 1] = c
  BY <1>2, <1>3
<1>6. q \in [0 .. Total' -> Msg]
  BY <1>2, <1>3, <1>4
<1>7. ASSUME NEW k \in 0 .. t + 1 PROVE Place(q[k])'
  <2>1. CASE k \in 0 .. t
    <3>1. Place(p[k])
      BY <1>2, <2>1 DEF Chain
    <3> QED BY <1>1, <1>5, <2>1, <3>1
  <2>2. CASE k = t + 1
    <3>1. Place(c)'
      BY <1>1
    <3> QED BY <1>5, <2>2, <3>1
  <2> QED BY <1>2, <2>1, <2>2
<1>8. ASSUME NEW k \in 1 .. t + 1 PROVE At(k)' \in Msg /\ Leads(q[k - 1], At(k), q[k])'
  <2>1. CASE k \in 1 .. t
    <3>1. PICK d : d = At(k)
      OBVIOUS
    <3>2. Leads(p[k - 1], d, p[k]) /\ d \in Msg
      BY <1>2, <2>1, <3>1 DEF Chain
    <3>3. Leads(p[k - 1], d, p[k])'
      BY <1>1, <3>2
    <3>4. At(k)' = d /\ q[k - 1] = p[k - 1] /\ q[k] = p[k]
      BY <1>2, <1>5, <2>1, <3>1
    <3> QED BY <3>2, <3>3, <3>4
  <2>2. CASE k = t + 1
    <3>1. Leads(p[t], m, c)'
      BY <1>1, <1>2
    <3>2. q[k - 1] = p[t] /\ q[k] = c /\ k = Total'
      BY <1>2, <1>5, <2>2
    <3>3. At(k)' = m
      BY <3>2 DEF At
    <3> QED BY <3>1, <3>2, <3>3
  <2> QED BY <1>2, <2>1, <2>2
<1>9. Chain(q)'
  BY <1>2, <1>6, <1>7, <1>8 DEF Chain
<1> QED BY <1>2, <1>5, <1>9

LEMMA AddBufferTotal ==
    ASSUME Typed, Carried, AddBuffer
    PROVE  Total' = Total /\ \A k \in 1 .. Total : At(k)' = At(k)
<1>1. /\ wire \in Seq(Msg) /\ wire # <<>> /\ connects \in Nat
      /\ irc_recv_msgq \in Seq(Seq(Halved)) /\ Head(wire) \in Msg
  BY DEF Typed, AddBuffer
<1>2. CASE ~halved
  <2>1. wire' = wire /\ irc_recv_msgq' = irc_recv_msgq
    BY <1>2, Zenon DEF AddBuffer
  <2> QED BY <2>1 DEF Total, At
<1>3. CASE halved
  <2>1. PICK m, a, b : m = Head(wire) /\ a = Half(m, 1) /\ b = Half(m, 2)
    OBVIOUS
  <2>2. irc_recv_msgq' = Append(irc_recv_msgq, Append(unterminated, b)) /\ wire' = Tail(wire)
    BY <1>3, <2>1, Zenon DEF AddBuffer
  <2>3. unterminated = <<a>>
    BY <1>3, <2>1 DEF Carried
  <2>4. PICK line : line = Append(<<a>>, b)
    OBVIOUS
  <2>5. Last(line).msg = m /\ line \in Seq(Halved)
    BY <1>1, <2>1, <2>4, HalfFacts
  <2>6. irc_recv_msgq' = Append(irc_recv_msgq, line)
    BY <2>2, <2>3, <2>4
  <2>7. PICK l, w : l = Len(irc_recv_msgq) /\ w = Len(wire)
    OBVIOUS
  <2>8. /\ Len(irc_recv_msgq') = l + 1 /\ l \in Nat
        /\ \A i \in 1 .. l : irc_recv_msgq'[i] = irc_recv_msgq[i]
        /\ irc_recv_msgq'[l + 1] = line
    BY <1>1, <2>5, <2>6, <2>7, AppendFacts
  <2>9. /\ w \in Nat /\ w >= 1 /\ m = wire[1] /\ Len(wire') = w - 1
        /\ \A i \in 1 .. w - 1 : wire'[i] = wire[i + 1]
    BY <1>1, <2>1, <2>2, <2>7, Members
  <2>10. Total = l + w /\ Total' = Total
    BY <2>7, <2>8, <2>9 DEF Total
  <2>11. ASSUME NEW k \in 1 .. l + w PROVE At(k)' = At(k)
    <3>1. CASE k <= l
      <4>1. k <= Len(irc_recv_msgq') /\ k <= Len(irc_recv_msgq) /\ irc_recv_msgq'[k] = irc_recv_msgq[k]
        BY <2>7, <2>8, <3>1
      <4> QED BY <4>1 DEF At
    <3>2. CASE k = l + 1
      <4>1. At(k)' = m
        BY <2>5, <2>8, <3>2 DEF At
      <4>2. At(k) = wire[1]
        <5>1. ~(k <= Len(irc_recv_msgq)) /\ k - Len(irc_recv_msgq) = 1
          BY <2>7, <2>8, <3>2
        <5> QED BY <5>1 DEF At
      <4> QED BY <2>9, <4>1, <4>2
    <3>3. CASE k > l + 1
      <4>1. PICK i : i = k - (l + 1)
        OBVIOUS
      <4>2. i \in 1 .. w - 1 /\ ~(k <= l) /\ ~(k <= l + 1) /\ k - l = i + 1
        BY <2>8, <2>9, <3>3, <4>1
      <4>3. At(k)' = wire'[i]
        BY <2>8, <4>1, <4>2 DEF At
      <4>4. At(k) = wire[i + 1]
        BY <2>7, <4>2 DEF At
      <4> QED BY <2>9, <4>2, <4>3, <4>4
    <3> QED BY <2>8, <2>9, <3>1, <3>2, <3>3
  <2> QED BY <2>10, <2>11
<1> QED BY <1>2, <1>3

LEMMA FlushTotal ==
    ASSUME Typed, irc_recv_msgq # <<>>, irc_recv_msgq' = Tail(irc_recv_msgq), wire' = wire
    PROVE  /\ Total >= 1 /\ Total' = Total - 1 /\ \A k \in 1 .. Total - 1 : At(k)' = At(k + 1)
           /\ At(1) = Last(Head(irc_recv_msgq)).msg
<1>1. PICK l, w : l = Len(irc_recv_msgq) /\ w = Len(wire)
  OBVIOUS
<1>2. /\ l \in Nat /\ l >= 1 /\ Head(irc_recv_msgq) = irc_recv_msgq[1] /\ Len(irc_recv_msgq') = l - 1
      /\ \A i \in 1 .. l - 1 : irc_recv_msgq'[i] = irc_recv_msgq[i + 1]
  BY <1>1, Members DEF Typed
<1>3. w \in Nat /\ Len(wire') = w
  BY <1>1 DEF Typed
<1>4. Total = l + w /\ Total' = Total - 1 /\ Total >= 1
  BY <1>1, <1>2, <1>3 DEF Total
<1>5. ASSUME NEW k \in 1 .. l + w - 1 PROVE At(k)' = At(k + 1)
  <2>1. CASE k <= l - 1
    <3>1. k \in 1 .. l - 1 /\ k + 1 <= l
      BY <1>2, <2>1
    <3>2. At(k)' = Last(irc_recv_msgq'[k]).msg
      BY <1>2, <2>1 DEF At
    <3>3. At(k + 1) = Last(irc_recv_msgq[k + 1]).msg
      BY <1>1, <3>1 DEF At
    <3> QED BY <1>2, <3>1, <3>2, <3>3
  <2>2. CASE ~(k <= l - 1)
    <3>1. ~(k + 1 <= l) /\ k - (l - 1) = (k + 1) - l
      BY <1>2, <1>3, <2>2
    <3>2. At(k)' = wire[k - (l - 1)]
      BY <1>2, <2>2 DEF At
    <3>3. At(k + 1) = wire[(k + 1) - l]
      BY <1>1, <3>1 DEF At
    <3> QED BY <3>1, <3>2, <3>3
  <2> QED BY <2>1, <2>2
<1>6. At(1) = Last(Head(irc_recv_msgq)).msg
  <2>1. 1 <= Len(irc_recv_msgq)
    BY <1>1, <1>2
  <2> QED BY <1>2, <2>1 DEF At
<1>7. \A k \in 1 .. Total - 1 : At(k)' = At(k + 1)
  <2>1. 1 .. Total - 1 = 1 .. l + w - 1
    BY <1>2, <1>3, <1>4
  <2> QED BY <1>5, <2>1, Zenon
<1> QED BY <1>4, <1>6, <1>7

LEMMA WireTotal ==
    ASSUME Typed, NEW m \in Msg, wire' = Append(wire, m), irc_recv_msgq' = irc_recv_msgq
    PROVE  /\ Total' = Total + 1 /\ \A k \in 1 .. Total : At(k)' = At(k)
           /\ At(Total)' = m
<1>1. PICK l, w : l = Len(irc_recv_msgq) /\ w = Len(wire)
  OBVIOUS
<1>2. /\ w \in Nat /\ l \in Nat /\ Len(wire') = w + 1 /\ \A i \in 1 .. w : wire'[i] = wire[i]
      /\ wire'[w + 1] = m /\ Len(irc_recv_msgq') = l
  BY <1>1, AppendFacts DEF Typed
<1>3. Total = l + w /\ Total' = Total + 1
  BY <1>1, <1>2 DEF Total
<1>4. ASSUME NEW k \in 1 .. l + w PROVE At(k)' = At(k)
  <2>1. CASE k <= l
    BY <1>1, <1>2, <2>1 DEF At
  <2>2. CASE ~(k <= l)
    <3>1. k - l \in 1 .. w
      BY <1>2, <2>2
    <3>2. At(k)' = wire'[k - l] /\ At(k) = wire[k - l]
      BY <1>1, <1>2, <2>2 DEF At
    <3> QED BY <1>2, <3>1, <3>2
  <2> QED BY <2>1, <2>2
<1>5. At(Total)' = m
  <2>1. PICK k : k = Total'
    OBVIOUS
  <2>2. ~(k <= l) /\ k - l = w + 1
    BY <1>2, <1>3, <2>1
  <2>3. At(k)' = m
    BY <1>2, <2>2 DEF At
  <2> QED BY <2>1, <2>3 DEF At
<1> QED BY <1>3, <1>4, <1>5

Stream(p) == Chain(p) /\ ServerEnd(p[Total])

LEMMA SameEnd ==
    ASSUME Typed, Typed', Kept, UNCHANGED reply, Queued' - Len(sent') = Queued - Len(sent), NEW e, ServerEnd(e)
    PROVE  ServerEnd(e)'
<1>1. \A m : Follows(e, m) => Follows(e, m)'
  BY KeptPlaces
<1> QED BY <1>1 DEF ServerEnd, Full, NextOf

\* Nothing comes and nothing goes.
LEMMA SameStream ==
    ASSUME Typed, Typed', Kept, UNCHANGED reply, Queued' - Len(sent') = Queued - Len(sent), NEW p, Stream(p),
           Total' = Total, \A k \in 1 .. Total : At(k)' = At(k)
    PROVE  Stream(p)'
<1>1. Chain(p)'
  BY SameChain DEF Stream
<1>2. PICK e : e = p[Total]
  OBVIOUS
<1>3. ServerEnd(e)'
  BY <1>2, SameEnd DEF Stream
<1>4. e = p[Total']
  BY <1>2
<1> QED BY <1>1, <1>3, <1>4 DEF Stream

LEMMA SameTotal ==
    ASSUME UNCHANGED <<irc_recv_msgq, wire>>
    PROVE  Total' = Total /\ \A k \in 1 .. Total : At(k)' = At(k)
BY DEF Total, At

LEMMA FlushStream ==
    ASSUME Typed, Typed', Kept, UNCHANGED <<reply, sent, wire>>, Queued' = Queued, NEW p, Stream(p),
           irc_recv_msgq # <<>>, irc_recv_msgq' = Tail(irc_recv_msgq),
           NEW m, m = Last(Head(irc_recv_msgq)).msg
    PROVE  /\ \E q : Stream(q)' /\ q[0] = p[1]
           /\ Place(p[0]) /\ Place(p[1]) /\ Leads(p[0], m, p[1]) /\ m \in Msg
<1>1. /\ Total >= 1 /\ Total' = Total - 1 /\ \A k \in 1 .. Total - 1 : At(k)' = At(k + 1)
      /\ At(1) = m
  BY FlushTotal
<1>2. PICK q : Chain(q)' /\ q[0] = p[1] /\ q[Total'] = p[Total]
  BY <1>1, TailChain DEF Stream
<1>3. PICK e : e = p[Total]
  OBVIOUS
<1>4. ServerEnd(e)'
  BY <1>3, SameEnd DEF Stream
<1>5. Stream(q)'
  BY <1>2, <1>3, <1>4 DEF Stream
<1>6. Total \in Nat
  BY TotalFacts
<1>7. 0 \in 0 .. Total /\ 1 \in 0 .. Total /\ 1 \in 1 .. Total
  BY <1>1, <1>6
<1>8. Place(p[0]) /\ Place(p[1]) /\ m \in Msg /\ Leads(p[1 - 1], m, p[1])
  BY <1>1, <1>7 DEF Stream, Chain
<1>9. Leads(p[0], m, p[1])
  <2>1. 1 - 1 = 0
    OBVIOUS
  <2> QED BY <1>8, <2>1
<1> QED BY <1>2, <1>5, <1>8, <1>9

LEMMA AnswersStream ==
    ASSUME Typed, Typed', Numbered, ServerAnswers, NEW p, Stream(p)
    PROVE  Stream(p)'
<1>1. UNCHANGED <<commands, outqueue, irc_recv_msgq, wire>> /\ sent # <<>> /\ reply = <<>> /\ sent' = Tail(sent)
  BY DEF ServerAnswers, client, asked
<1>2. Given' = Given /\ Queued' = Queued /\ Kept
  <2>1. Given' = Given /\ Queued' = Queued
    BY <1>1 DEF Given, Queued
  <2>2. Queued \in Int
    BY Lengths
  <2> QED BY <1>1, <2>1, <2>2 DEF Kept
<1>3. Chain(p)'
  BY <1>1, <1>2, SameTotal, SameChain DEF Stream
<1>4. PICK e, h : e = p[Total] /\ h = Head(sent)
  OBVIOUS
<1>5. Full(e) /\ e.of = Queued - Len(sent)
  BY <1>1, <1>4 DEF Stream, ServerEnd
<1>6. h \in 1 .. Len(commands) /\ h = Queued - Len(sent) + 1 /\ Len(sent) >= 1 /\ Len(sent) \in Nat
      /\ Queued \in Int
  BY <1>1, <1>4, SentGiven, Lengths
<1>7. PICK a \in Answers[commands[h].pattern] :
              /\ a \in Sentence
              /\ reply' \in Seq(Msg) /\ Len(reply') = Len(a)
              /\ \A i \in 1 .. Len(a) : reply'[i] = Line(h, a, i, commands[h].target)
  BY <1>4, <1>6, AnswersFacts
<1>8. PICK t : t = commands[h].target
  OBVIOUS
<1>9. Len(a) \in Nat /\ Len(a) >= 1
  BY <1>7, SentenceFacts
<1>10. \A i \in 1 .. Len(a) : /\ reply'[i].of = h /\ reply'[i].answer = a /\ reply'[i].at = i
                              /\ reply'[i].target = t
  <2>1. SUFFICES ASSUME NEW i \in 1 .. Len(a)
                 PROVE  /\ reply'[i].of = h /\ reply'[i].answer = a /\ reply'[i].at = i
                        /\ reply'[i].target = t
    OBVIOUS
  <2>2. reply'[i] = Line(h, a, i, t)
    BY <1>7, <1>8
  <2> QED BY <2>2 DEF Line
<1>11. Len(sent') = Len(sent) - 1
  BY <1>1, Members DEF Typed
<1>12. h = Queued' - Len(sent') /\ h = e.of + 1 /\ h \in 1 .. Queued'
  BY <1>2, <1>5, <1>6, <1>11
<1>13. reply' # <<>>
  BY <1>7, <1>9
<1>14. Follows(e, reply[1])'
  <2>1. PICK m : m = reply'[1]
    OBVIOUS
  <2>2. m.of = h /\ m.answer = a /\ m.at = 1 /\ m.target = t
    BY <1>9, <1>10, <2>1
  <2>3. OfCommand(m)'
    BY <1>1, <1>7, <1>8, <1>12, <2>2 DEF OfCommand
  <2>4. Follows(e, m)'
    BY <1>5, <1>12, <2>2, <2>3 DEF Follows, Full
  <2> QED BY <2>1, <2>4
<1>15. \A i \in 1 .. Len(reply') : reply'[i].at \in 1 .. Len(reply'[i].answer)
  BY <1>7, <1>10
<1>16. ASSUME NEW i \in 1 .. Len(reply') - 1
       PROVE  ~Full(reply'[i]) /\ reply'[i + 1] = NextOf(reply'[i])
  <2>1. i \in 1 .. Len(a) /\ i + 1 \in 1 .. Len(a) /\ i # Len(a)
    BY <1>7, <1>9, <1>16
  <2>2. reply'[i + 1] = Line(h, a, i + 1, t)
    BY <1>7, <1>8, <2>1
  <2> QED BY <1>10, <2>1, <2>2 DEF Full, NextOf
<1>17. Full(reply'[Len(reply')])
  BY <1>7, <1>9, <1>10 DEF Full
<1>18. reply'[1].of = Queued' - Len(sent')
  BY <1>9, <1>10, <1>12
<1>19. ServerEnd(e)'
  BY <1>13, <1>14, <1>15, <1>16, <1>17, <1>18 DEF ServerEnd, Full, NextOf
<1>20. e = p[Total']
  BY <1>1, <1>4, SameTotal
<1> QED BY <1>3, <1>19, <1>20 DEF Stream

LEMMA NextOfFacts ==
    ASSUME NEW b \in Msg, Typed
    PROVE  /\ NextOf(b) \in Msg /\ NextOf(b).of = b.of /\ NextOf(b).answer = b.answer
           /\ NextOf(b).at = b.at + 1 /\ NextOf(b).target = b.target
           /\ OfCommand(b) => OfCommand(NextOf(b))
<1>1. b.of \in Nat /\ b.answer \in Sentence /\ b.at + 1 \in Nat /\ b.target \in Target \cup {None}
  BY DEF Msg
<1>2. PICK m : m = NextOf(b)
  OBVIOUS
<1>3. m \in Msg /\ m.of = b.of /\ m.answer = b.answer /\ m.at = b.at + 1 /\ m.target = b.target
  BY <1>1, <1>2, LineTyped DEF NextOf
<1>4. OfCommand(b) => OfCommand(m)
  BY <1>3 DEF OfCommand
<1> QED BY <1>2, <1>3, <1>4

LEMMA SendsStream ==
    ASSUME Typed, Typed', ServerSends, NEW p, Stream(p)
    PROVE  \E q : Stream(q)' /\ q[0] = p[0]
<1>1. UNCHANGED <<commands, outqueue, irc_recv_msgq, sent>> /\ reply # <<>> /\ reply' = Tail(reply)
      /\ wire' = Append(wire, Head(reply))
  BY DEF ServerSends, client, asked
<1>2. Given' = Given /\ Queued' = Queued /\ Kept
  <2>1. Given' = Given /\ Queued' = Queued
    BY <1>1 DEF Given, Queued
  <2>2. Queued \in Int
    BY Lengths
  <2> QED BY <1>1, <2>1, <2>2 DEF Kept
<1>3. PICK c, e : c = reply[1] /\ e = p[Total]
  OBVIOUS
<1>4. PICK n : n = Len(reply)
  OBVIOUS
<1>5. /\ n \in Nat /\ n >= 1 /\ Head(reply) = c /\ c \in Msg /\ Len(reply') = n - 1
      /\ \A i \in 1 .. n - 1 : reply'[i] = reply[i + 1]
  BY <1>1, <1>3, <1>4, Members DEF Typed
<1>6. /\ Follows(e, c) /\ c.of = Queued - Len(sent)
      /\ \A i \in 1 .. n : reply[i].at \in 1 .. Len(reply[i].answer)
      /\ \A i \in 1 .. n - 1 : ~Full(reply[i]) /\ reply[i + 1] = NextOf(reply[i])
      /\ Full(reply[n])
  BY <1>1, <1>3, <1>4 DEF Stream, ServerEnd
<1>7. OfCommand(c) /\ c # Noise
  BY <1>6, NotNoise DEF Follows
<1>8. Place(c)
  <2>1. c.at \in 1 .. Len(c.answer)
    BY <1>3, <1>5, <1>6
  <2>2. c.of <= Queued
    BY <1>7, Lengths DEF OfCommand
  <2> QED BY <1>5, <1>7, <2>1, <2>2 DEF Place
<1>9. Leads(e, c, c)
  BY <1>6, <1>7 DEF Leads
<1>10. wire' = Append(wire, c)
  BY <1>1, <1>5
<1>11. Total' = Total + 1 /\ (\A k \in 1 .. Total : At(k)' = At(k)) /\ At(Total)' = c
  BY <1>1, <1>5, <1>10, WireTotal
<1>12. PICK q : Chain(q)' /\ q[0] = p[0] /\ q[Total'] = c
  BY <1>2, <1>3, <1>5, <1>8, <1>9, <1>11, MoreChain DEF Stream
<1>13. ServerEnd(c)'
  <2>1. CASE n = 1
    <3>1. reply' = <<>>
      BY <1>5, <2>1, Typed' DEF Typed
    <3>2. Full(c)
      BY <1>3, <1>6, <2>1
    <3> QED BY <1>1, <1>2, <1>6, <3>1, <3>2 DEF ServerEnd, Full
  <2>2. CASE n # 1
    <3>1. 1 \in 1 .. n - 1 /\ n - 1 \in 1 .. n - 1
      BY <1>5, <2>2
    <3>2. reply' # <<>> /\ reply'[1] = reply[2]
      <4>1. reply'[1] = reply[1 + 1]
        BY <1>5, <3>1
      <4> QED BY <1>5, <3>1, <4>1
    <3>3. ~Full(c) /\ reply'[1] = NextOf(c)
      <4>1. reply[1 + 1] = NextOf(reply[1]) /\ ~Full(reply[1])
        BY <1>6, <3>1
      <4> QED BY <1>3, <3>2, <4>1
    <3>4. PICK d : d = NextOf(c)
      OBVIOUS
    <3>5. OfCommand(d) /\ d.of = c.of
      BY <1>5, <1>7, <3>4, NextOfFacts
    <3>6. Follows(c, d)
      BY <3>3, <3>4, <3>5 DEF Follows
    <3>7. Follows(c, d)'
      BY <1>2, <3>6, KeptPlaces
    <3>8. \A i \in 1 .. n - 1 : reply'[i].at \in 1 .. Len(reply'[i].answer)
      <4>1. \A i \in 1 .. n - 1 : i + 1 \in 1 .. n
        BY <1>5
      <4> QED BY <1>5, <1>6, <4>1
    <3>9. \A i \in 1 .. n - 2 : ~Full(reply'[i]) /\ reply'[i + 1] = NextOf(reply'[i])
      <4>1. SUFFICES ASSUME NEW i \in 1 .. n - 2
                     PROVE  ~Full(reply'[i]) /\ reply'[i + 1] = NextOf(reply'[i])
        OBVIOUS
      <4>2. PICK j : j = i + 1
        OBVIOUS
      <4>3. i \in 1 .. n - 1 /\ j \in 1 .. n - 1
        BY <1>5, <4>2
      <4>4. reply'[i] = reply[j] /\ reply'[j] = reply[j + 1]
        BY <1>5, <4>2, <4>3
      <4>5. ~Full(reply[j]) /\ reply[j + 1] = NextOf(reply[j])
        BY <1>6, <4>3
      <4> QED BY <4>2, <4>4, <4>5
    <3>10. Full(reply'[n - 1])
      <4>1. reply'[n - 1] = reply[(n - 1) + 1] /\ (n - 1) + 1 = n
        BY <1>5, <3>1
      <4> QED BY <1>6, <4>1
    <3>11. reply'[1].of = Queued' - Len(sent')
      BY <1>1, <1>2, <1>6, <3>3, <3>4, <3>5
    <3>12. Follows(c, reply[1])'
      BY <3>3, <3>4, <3>7
    <3>13. Len(reply') - 1 = n - 2
      BY <1>5
    <3> QED BY <1>5, <3>2, <3>8, <3>9, <3>10, <3>11, <3>12, <3>13 DEF ServerEnd, Full, NextOf
  <2> QED BY <2>1, <2>2
<1> QED BY <1>12, <1>13 DEF Stream

LEMMA NoiseStream ==
    ASSUME Typed, Typed', ServerNoise, NEW p, Stream(p)
    PROVE  \E q : Stream(q)' /\ q[0] = p[0]
<1>1. UNCHANGED <<commands, outqueue, irc_recv_msgq, sent, reply>> /\ wire' = Append(wire, Noise)
  BY DEF ServerNoise, client, asked
<1>2. Given' = Given /\ Queued' = Queued /\ Kept
  <2>1. Given' = Given /\ Queued' = Queued
    BY <1>1 DEF Given, Queued
  <2>2. Queued \in Int
    BY Lengths
  <2> QED BY <1>1, <2>1, <2>2 DEF Kept
<1>3. PICK c, m : c = p[Total] /\ m = Noise
  OBVIOUS
<1>4. m \in Msg /\ Total \in Nat
  BY <1>3, NoiseFacts, TotalFacts
<1>5. Total' = Total + 1 /\ (\A k \in 1 .. Total : At(k)' = At(k)) /\ At(Total)' = m
  BY <1>1, <1>3, <1>4, WireTotal
<1>6. Leads(c, m, c) /\ Place(c)
  <2>1. Total \in 0 .. Total
    BY <1>4
  <2> QED BY <1>3, <2>1 DEF Leads, Stream, Chain
<1>7. PICK q : Chain(q)' /\ q[0] = p[0] /\ q[Total'] = c
  BY <1>2, <1>3, <1>4, <1>5, <1>6, MoreChain DEF Stream
<1>8. ServerEnd(c)'
  BY <1>1, <1>2, <1>3, SameEnd DEF Stream
<1> QED BY <1>7, <1>8 DEF Stream

\* A new connection: all the commands given so far were lost.
LEMMA ConnectStream ==
    ASSUME Typed, Typed', Numbered, Off, Connect
    PROVE  \E q : Stream(q)' /\ q[0].of = Given /\ Full(q[0]) /\ Place(q[0])'
<1>1. /\ irc_recv_msgq' = <<>> /\ wire' = <<>> /\ reply' = <<>> /\ sent' = <<>> /\ outqueue' = <<>>
      /\ commands' = commands
  BY DEF Connect, Idle, Off, server, asked
<1>2. Given \in Nat /\ Given' = Given
  BY <1>1, Lengths DEF Given
<1>3. Total' = 0 /\ Queued' = Given /\ Len(sent') = 0
  BY <1>1, <1>2 DEF Total, Queued
<1>4. PICK g, a, t : g = Given /\ a = <<"privmsg">> /\ t = None
  OBVIOUS
<1>5. PICK b : b = Line(g, a, 1, t)
  OBVIOUS
<1>6. a \in Sentence /\ Len(a) = 1
  BY <1>4 DEF Sentence
<1>7. b \in Msg /\ b.of = g /\ b.answer = a /\ b.at = 1
  BY <1>2, <1>4, <1>5, <1>6, LineTyped
<1>8. Full(b) /\ Full(b)'
  BY <1>6, <1>7 DEF Full
<1>9. Place(b)'
  BY <1>2, <1>3, <1>4, <1>6, <1>7, <1>8 DEF Place
<1>10. PICK q : q = [k \in 0 .. 0 |-> b]
  OBVIOUS
<1>11. q \in [0 .. 0 -> Msg] /\ q[0] = b /\ \A k \in 0 .. 0 : q[k] = b
  BY <1>7, <1>10
<1>12. Chain(q)'
  BY <1>3, <1>9, <1>11 DEF Chain
<1>13. ServerEnd(b)'
  BY <1>1, <1>2, <1>3, <1>4, <1>7, <1>8 DEF ServerEnd
<1>14. Stream(q)'
  BY <1>3, <1>11, <1>12, <1>13 DEF Stream
<1> QED BY <1>4, <1>7, <1>8, <1>9, <1>11, <1>14

-----------------------------------------------------------------------------
(* What a redirection has of an answer.                                    *)

LEMMA OutputFacts ==
    ASSUME NEW r \in Redirect
    PROVE  /\ r.output \in Seq(Msg) /\ DOMAIN r.output = 1 .. Len(r.output) /\ Len(r.output) \in Nat
           /\ \A i \in DOMAIN r.output : r.output[i] \in Lines(r) /\ r.output[i] \in Msg
           /\ \A m \in Lines(r) : \E i \in DOMAIN r.output : m = r.output[i]
BY DEF Redirect, Lines

\* The message m was put after the others.
MoreOutput(x, r, m) ==
    /\ Len(x.output) = Len(r.output) + 1
    /\ \A i \in 1 .. Len(r.output) : x.output[i] = r.output[i]
    /\ x.output[Len(r.output) + 1] = m

LEMMA AppendOutput ==
    ASSUME NEW r \in Redirect, NEW x \in Redirect, NEW m \in Msg, x.output = Append(r.output, m)
    PROVE  /\ MoreOutput(x, r, m) /\ DOMAIN x.output = 1 .. Len(r.output) + 1
           /\ DOMAIN r.output = 1 .. Len(r.output) /\ Len(r.output) \in Nat
           /\ Lines(x) \subseteq Lines(r) \cup {m}
<1>1. /\ MoreOutput(x, r, m) /\ DOMAIN x.output = 1 .. Len(r.output) + 1
      /\ DOMAIN r.output = 1 .. Len(r.output) /\ Len(r.output) \in Nat
  BY OutputFacts, AppendFacts DEF MoreOutput
<1>2. ASSUME NEW y \in Lines(x) PROVE y \in Lines(r) \cup {m}
  <2>1. PICK i \in 1 .. Len(r.output) + 1 : y = x.output[i]
    BY <1>1, <1>2, OutputFacts
  <2>2. CASE i \in 1 .. Len(r.output)
    BY <1>1, <2>1, <2>2 DEF MoreOutput, Lines
  <2>3. CASE i = Len(r.output) + 1
    BY <1>1, <2>1, <2>3 DEF MoreOutput
  <2> QED BY <1>1, <2>1, <2>2, <2>3
<1> QED BY <1>1, <1>2

LEMMA GotSame ==
    ASSUME NEW r, NEW x, x.output = r.output, NEW n, NEW a, NEW l, Got(r, n, a, l)
    PROVE  Got(x, n, a, l)
BY DEF Got

LEMMA GotNone ==
    ASSUME NEW r \in Redirect, NEW n, NEW a, \A m \in Lines(r) : m.of # n
    PROVE  Got(r, n, a, 0)
<1>1. \A i \in DOMAIN r.output : r.output[i].of # n
  BY OutputFacts
<1> QED BY <1>1 DEF Got

LEMMA GotOther ==
    ASSUME NEW r \in Redirect, NEW x \in Redirect, NEW m \in Msg, x.output = Append(r.output, m),
           NEW n, m.of # n, NEW a, NEW l, Got(r, n, a, l)
    PROVE  Got(x, n, a, l)
<1>1. /\ MoreOutput(x, r, m) /\ DOMAIN x.output = 1 .. Len(r.output) + 1
      /\ DOMAIN r.output = 1 .. Len(r.output) /\ Len(r.output) \in Nat
  BY AppendOutput
<1>2. PICK own, new : /\ own = {i \in DOMAIN r.output : r.output[i].of = n}
                      /\ new = {i \in DOMAIN x.output : x.output[i].of = n}
  OBVIOUS
<1>3. new = own /\ \A i \in own : x.output[i] = r.output[i]
  <2>1. \A i \in own : x.output[i] = r.output[i] /\ i \in new
    BY <1>1, <1>2 DEF MoreOutput
  <2>2. \A i \in new : i \in own
    <3>1. SUFFICES ASSUME NEW i \in new PROVE i \in own
      OBVIOUS
    <3>2. i \in 1 .. Len(r.output) + 1 /\ x.output[i].of = n
      BY <1>1, <1>2
    <3>3. i # Len(r.output) + 1
      BY <1>1, <3>2 DEF MoreOutput
    <3>4. i \in 1 .. Len(r.output)
      BY <1>1, <3>2, <3>3
    <3> QED BY <1>1, <1>2, <3>2, <3>4 DEF MoreOutput
  <2> QED BY <2>1, <2>2
<1>4. /\ \A j \in 1 .. l : \E i \in own : r.output[i].at = j
      /\ \A i \in own : /\ r.output[i].at <= l /\ r.output[i].answer = a
                        /\ \A k \in own : i < k => r.output[i].at < r.output[k].at
  BY <1>2 DEF Got
<1>5. /\ \A j \in 1 .. l : \E i \in new : x.output[i].at = j
      /\ \A i \in new : /\ x.output[i].at <= l /\ x.output[i].answer = a
                        /\ \A k \in new : i < k => x.output[i].at < x.output[k].at
  BY <1>3, <1>4
<1> QED BY <1>2, <1>5 DEF Got

LEMMA GotNext ==
    ASSUME NEW r \in Redirect, NEW x \in Redirect, NEW m \in Msg, x.output = Append(r.output, m),
           NEW l \in Nat, m.at = l + 1, Got(r, m.of, m.answer, l)
    PROVE  Got(x, m.of, m.answer, l + 1)
<1>1. /\ MoreOutput(x, r, m) /\ DOMAIN x.output = 1 .. Len(r.output) + 1
      /\ DOMAIN r.output = 1 .. Len(r.output) /\ Len(r.output) \in Nat
  BY AppendOutput
<1>2. PICK n, a, e : n = m.of /\ a = m.answer /\ e = Len(r.output) + 1
  OBVIOUS
<1>3. PICK own, new : /\ own = {i \in DOMAIN r.output : r.output[i].of = n}
                      /\ new = {i \in DOMAIN x.output : x.output[i].of = n}
  OBVIOUS
<1>4. /\ new = own \cup {e} /\ x.output[e] = m
      /\ \A i \in own : x.output[i] = r.output[i] /\ i < e /\ i \in Nat /\ r.output[i].at \in Nat
  <2>1. \A i \in own : x.output[i] = r.output[i] /\ i \in new /\ i < e /\ i \in Nat
    BY <1>1, <1>2, <1>3 DEF MoreOutput
  <2>2. \A i \in new : i \in own \cup {e}
    <3>1. SUFFICES ASSUME NEW i \in new, i # e PROVE i \in own
      OBVIOUS
    <3>2. i \in 1 .. Len(r.output) /\ x.output[i].of = n
      BY <1>1, <1>2, <1>3, <3>1
    <3> QED BY <1>1, <1>3, <3>2 DEF MoreOutput
  <2>3. e \in new /\ x.output[e] = m
    BY <1>1, <1>2, <1>3 DEF MoreOutput
  <2>4. \A i \in own : r.output[i].at \in Nat
    BY <1>3, OutputFacts DEF Msg
  <2> QED BY <2>1, <2>2, <2>3, <2>4
<1>5. /\ \A j \in 1 .. l : \E i \in own : r.output[i].at = j
      /\ \A i \in own : /\ r.output[i].at <= l /\ r.output[i].answer = a
                        /\ \A k \in own : i < k => r.output[i].at < r.output[k].at
  BY <1>2, <1>3 DEF Got
<1>6. \A j \in 1 .. l + 1 : \E i \in new : x.output[i].at = j
  <2>1. SUFFICES ASSUME NEW j \in 1 .. l + 1 PROVE \E i \in new : x.output[i].at = j
    OBVIOUS
  <2>2. CASE j = l + 1
    BY <1>4, <2>2
  <2>3. CASE j # l + 1
    <3>1. j \in 1 .. l
      BY <2>3
    <3> QED BY <1>4, <1>5, <3>1
  <2> QED BY <2>2, <2>3
<1>7. \A i \in new : x.output[i].at <= l + 1 /\ x.output[i].answer = a
  <2>1. SUFFICES ASSUME NEW i \in new PROVE x.output[i].at <= l + 1 /\ x.output[i].answer = a
    OBVIOUS
  <2>2. CASE i = e
    <3>1. x.output[i] = m
      BY <1>4, <2>2
    <3> QED BY <1>2, <3>1
  <2>3. CASE i \in own
    <3>1. x.output[i] = r.output[i] /\ r.output[i].at \in Nat /\ r.output[i].at <= l
          /\ r.output[i].answer = a
      BY <1>4, <1>5, <2>3
    <3>2. \A u \in Nat : u <= l => u <= l + 1
      OBVIOUS
    <3> QED BY <3>1, <3>2
  <2> QED BY <1>4, <2>2, <2>3
<1>8. ASSUME NEW i \in new, NEW k \in new, i < k PROVE x.output[i].at < x.output[k].at
  <2>1. CASE i \in own /\ k \in own
    BY <1>4, <1>5, <1>8, <2>1
  <2>2. CASE i \in own /\ k = e
    <3>1. x.output[i] = r.output[i] /\ r.output[i].at \in Nat /\ r.output[i].at <= l
      BY <1>4, <1>5, <2>2
    <3>2. x.output[k] = m
      BY <1>4, <2>2
    <3>3. \A u \in Nat : u <= l => u < l + 1
      OBVIOUS
    <3> QED BY <3>1, <3>2, <3>3
  <2>3. CASE i = e
    <3>1. e \in Nat /\ (k = e \/ (k < e /\ k \in Nat))
      BY <1>1, <1>2, <1>4
    <3> QED BY <1>8, <2>3, <3>1
  <2> QED BY <1>4, <2>1, <2>2, <2>3
<1> QED BY <1>2, <1>3, <1>6, <1>7, <1>8 DEF Got

-----------------------------------------------------------------------------
(* A redirection and the answers to its commands.                          *)

\* the command whose answer it takes or waits for
Cur(r) == r.id + r.current_count - 1
Busy(r) == r.cmd_start_received \/ r.cmd_stop_received

\* It has the answer up to b.
Partial(r, b) ==
    /\ b.of = Cur(r) /\ b.answer \in Answers[r.pattern] /\ OfCommand(b)
    /\ Got(r, b.of, b.answer, b.at)
    /\ \E k \in 1 .. Len(b.answer) :
          /\ EndsAt(r.pattern, b.answer, k)
          /\ r.cmd_stop_received => k = b.at
          /\ ~r.cmd_stop_received => b.at < k

\* It has the answer to command n.
Done(r, n) ==
    \E a \in Answers[r.pattern] : \E l \in 1 .. Len(a) :
        Got(r, n, a, l) /\ \E j \in 1 .. l : a[j] \in CmdStop[r.pattern]

\* It has messages of the commands of r up to n only.
Upto(r, n) == \A m \in Lines(r) : m.of # 0 => m.of \in r.id .. n

\* After the message b, it has what it should have.
Own(r, b) ==
    /\ Busy(r) => Partial(r, b) /\ Upto(r, Cur(r))
    /\ ~Busy(r) => Cur(r) > b.of /\ Upto(r, Cur(r) - 1)
    /\ \A n \in r.id .. Cur(r) - 1 : Done(r, n)

\* At its end.
Owned(r) == Upto(r, r.id + r.count - 1) /\ \A n \in Ids(r) : Done(r, n)

LEMMA CurFacts ==
    ASSUME NEW n, NEW r \in Redirect, Placed(n, r)
    PROVE  /\ Cur(r) \in Nat /\ Cur(r) >= n /\ Cur(r) <= n + r.count - 1 /\ r.id = n /\ n \in Nat
           /\ Cur(r) \in Ids(r) /\ Cur(r) \in 1 .. Given
<1>1. n \in Nat /\ n >= 1 /\ r.count \in Nat /\ r.current_count \in 1 .. r.count /\ r.id = n
  BY DEF Placed, Redirect
<1>2. Cur(r) = n + r.current_count - 1
  BY <1>1 DEF Cur
<1>3. Cur(r) \in Nat /\ Cur(r) >= n /\ Cur(r) <= n + r.count - 1
  BY <1>1, <1>2
<1>4. Cur(r) \in Ids(r)
  BY <1>1, <1>3 DEF Ids
<1> QED BY <1>1, <1>3, <1>4 DEF Placed, Serves

LEMMA DoneSame ==
    ASSUME NEW r, NEW x, x.output = r.output, x.pattern = r.pattern, NEW n, Done(r, n)
    PROVE  Done(x, n)
<1>a. PICK a \in Answers[r.pattern] : \E l \in 1 .. Len(a) :
         Got(r, n, a, l) /\ \E j \in 1 .. l : a[j] \in CmdStop[r.pattern]
  BY DEF Done
<1>1. PICK l \in 1 .. Len(a) :
         Got(r, n, a, l) /\ \E j \in 1 .. l : a[j] \in CmdStop[r.pattern]
  BY <1>a
<1>2. Got(x, n, a, l)
  BY <1>1, GotSame
<1> QED BY <1>1, <1>2 DEF Done

LEMMA DoneOther ==
    ASSUME NEW r \in Redirect, NEW x \in Redirect, NEW m \in Msg, x.output = Append(r.output, m),
           x.pattern = r.pattern, NEW n, m.of # n, Done(r, n)
    PROVE  Done(x, n)
<1>a. PICK a \in Answers[r.pattern] : \E l \in 1 .. Len(a) :
         Got(r, n, a, l) /\ \E j \in 1 .. l : a[j] \in CmdStop[r.pattern]
  BY DEF Done
<1>1. PICK l \in 1 .. Len(a) :
         Got(r, n, a, l) /\ \E j \in 1 .. l : a[j] \in CmdStop[r.pattern]
  BY <1>a
<1>2. Got(x, n, a, l)
  BY <1>1, GotOther
<1> QED BY <1>1, <1>2 DEF Done

\* A message of an answer to its own command, as it looks at it.
LEMMA MatchOwn ==
    ASSUME Typed, NEW r \in Redirect, Serves(r), NEW m \in Msg, OfCommand(m), m.of \in Ids(r), NEW S
    PROVE  /\ Match(r, m, S) <=> Numeric(m) \in S
           /\ m.answer \in Answers[r.pattern] /\ r.pattern \in Pattern
<1>1. commands[m.of].pattern = r.pattern /\ (r.string = None \/ commands[m.of].target = r.string)
  BY DEF Serves
<1>2. m.target = commands[m.of].target /\ m.answer \in Answers[commands[m.of].pattern]
  BY DEF OfCommand
<1>3. r.string = None \/ m.target = r.string
  BY <1>1, <1>2
<1>4. Match(r, m, S) <=> Numeric(m) \in S
  BY <1>3, Zenon DEF Match
<1> QED BY <1>1, <1>2, <1>4, RedirectFields

LEMMA AnswerLength ==
    ASSUME NEW p \in Pattern, NEW a \in Answers[p]
    PROVE  Len(a) \in Nat /\ Len(a) >= 1 /\ DOMAIN a = 1 .. Len(a)
BY SentenceFacts DEF Sentence

\* It took the message of its answer: it goes on, or has the whole answer.
Took(x, r, m) ==
    /\ x.taken
    /\ \/ /\ ~x.over /\ x.redirect.current_count = r.current_count
          /\ Busy(x.redirect) /\ Partial(x.redirect, m)
       \/ Ended(x, r) /\ Full(m) /\ Done(x.redirect, m.of)

LEMMA TakesFirst ==
    ASSUME Typed, Regular, NEW n, NEW r \in Redirect, Placed(n, r), r.started, ~Busy(r), NEW m \in Msg,
           OfCommand(m), m.of = Cur(r), m.at = 1, Upto(r, Cur(r) - 1), NEW x, x = One(r, m)
    PROVE  Took(x, r, m)
<1>1. PICK p, a, y : p = r.pattern /\ a = m.answer /\ y = x.redirect
  OBVIOUS
<1>2. m.of \in Ids(r) /\ Cur(r) \in Nat
  BY CurFacts
<1>3. /\ \A S : Match(r, m, S) <=> Numeric(m) \in S
      /\ a \in Answers[p] /\ p \in Pattern
  BY <1>1, <1>2, MatchOwn DEF Placed
<1>4. Numeric(m) = a[1] /\ Len(a) \in Nat /\ Len(a) >= 1 /\ DOMAIN a = 1 .. Len(a)
  BY <1>1, <1>3, AnswerLength DEF Numeric
<1>5. PICK k \in 1 .. Len(a) : EndsAt(p, a, k)
  BY <1>3, <1>4 DEF Regular
<1>6. a[1] \notin CmdExtra[p]
  BY <1>3 DEF Regular
<1>7. y \in Redirect /\ Same(y, r) /\ x.taken \in BOOLEAN
  BY <1>1, OneOutput
<1>8. ~r.cmd_start_received /\ ~r.cmd_stop_received
  BY DEF Busy
<1>9. \A l \in Lines(r) : l.of # m.of
  <2>1. SUFFICES ASSUME NEW l \in Lines(r), l.of = m.of PROVE FALSE
    OBVIOUS
  <2>2. m.of # 0
    BY DEF OfCommand
  <2>3. l.of \in r.id .. Cur(r) - 1
    BY <2>1, <2>2 DEF Upto
  <2> QED BY <1>2, <2>1, <2>3
<1>10. Got(r, m.of, a, 0)
  BY <1>9, GotNone
<1>11. x.taken => Got(y, m.of, a, 1)
  <2>1. SUFFICES ASSUME x.taken PROVE Got(y, m.of, a, 1)
    OBVIOUS
  <2>2. y.output = Append(r.output, m)
    BY <1>1, <2>1, OneOutput
  <2>3. PICK z \in Nat : z = 0
    OBVIOUS
  <2>4. m.at = z + 1 /\ Got(r, m.of, m.answer, z) /\ z + 1 = 1
    BY <1>1, <1>10, <2>3
  <2>5. Got(y, m.of, m.answer, z + 1)
    BY <1>7, <2>2, <2>4, GotNext
  <2> QED BY <1>1, <2>4, <2>5
<1>12. y.current_count = r.current_count => Cur(y) = Cur(r)
  BY <1>7 DEF Same, Cur
<1>13. CASE k > 1
  <2>1. a[1] \in CmdStart[p]
    BY <1>13, <1>5 DEF EndsAt
  <2>2. Match(r, m, CmdStart[r.pattern])
    BY <1>1, <1>3, <1>4, <2>1
  <2>5. x.taken /\ GoesOn(x, r) /\ y.cmd_start_received /\ ~y.cmd_stop_received
    BY <1>1, <1>8, <2>2, OneStart
  <2>3. x.taken /\ ~x.over /\ y.current_count = r.current_count /\ y.cmd_start_received /\ ~y.cmd_stop_received
    BY <1>1, <2>5, Zenon DEF GoesOn
  <2>4. Partial(y, m)
    BY <1>1, <1>3, <1>5, <1>7, <1>11, <1>12, <1>13, <2>3 DEF Partial, Same
  <2> QED BY <1>1, <2>3, <2>4 DEF Took, Busy
<1>14. CASE k = 1
  <2>1. 1 \in DOMAIN a
    BY <1>4
  <2>2. a[1] \in CmdStop[p] /\ a[1] \notin CmdStart[p]
    BY <1>5, <1>14, <2>1 DEF EndsAt
  <2>6. Match(r, m, CmdStop[r.pattern]) /\ ~Match(r, m, CmdStart[r.pattern])
    BY <1>1, <1>3, <1>4, <2>2
  <2>3. /\ x.taken
        /\ \/ Ended(x, r) /\ (CmdExtra[p] = {} \/ Match(r, m, CmdExtra[p]))
           \/ /\ GoesOn(x, r) /\ y.cmd_stop_received
              /\ ~(CmdExtra[p] = {} \/ Match(r, m, CmdExtra[p]))
    BY <1>1, <1>8, <2>6, OneStop
  <2>4. CASE CmdExtra[p] = {}
    <3>1. Ended(x, r)
      BY <2>3, <2>4
    <3>2. Full(m)
      BY <1>1, <1>5, <1>14, <2>4 DEF EndsAt, Full
    <3>3. 1 \in 1 .. Len(a) /\ 1 \in 1 .. 1
      BY <1>4
    <3>4. Got(y, m.of, a, 1) /\ y.pattern = p
      BY <1>1, <1>7, <1>11, <2>3 DEF Same
    <3>5. Done(y, m.of)
      BY <1>3, <2>2, <3>3, <3>4 DEF Done
    <3> QED BY <1>1, <2>3, <3>1, <3>2, <3>5 DEF Took
  <2>5. CASE CmdExtra[p] # {}
    <3>1. GoesOn(x, r) /\ y.cmd_stop_received
      BY <1>3, <1>4, <1>6, <2>3, <2>5
    <3>2. ~x.over /\ y.current_count = r.current_count /\ y.cmd_stop_received
      BY <1>1, <3>1, Zenon DEF GoesOn
    <3>3. Partial(y, m)
      BY <1>1, <1>3, <1>5, <1>7, <1>11, <1>12, <1>14, <2>3, <3>2 DEF Partial, Same
    <3> QED BY <1>1, <2>3, <3>2, <3>3 DEF Took, Busy
  <2> QED BY <2>4, <2>5
<1> QED BY <1>4, <1>5, <1>13, <1>14

LEMMA TakesNext ==
    ASSUME Typed, NEW n, NEW r \in Redirect, Placed(n, r), Busy(r), NEW b \in Msg, Partial(r, b),
           ~Full(b), b.at \in 1 .. Len(b.answer), NEW m \in Msg, m = NextOf(b), NEW x, x = One(r, m)
    PROVE  Took(x, r, m)
<1>1. PICK p, a, y, l : p = r.pattern /\ a = b.answer /\ y = x.redirect /\ l = b.at
  OBVIOUS
<1>2. /\ m.of = b.of /\ m.answer = a /\ m.at = l + 1 /\ OfCommand(m)
      /\ m.of = Cur(r) /\ m.of \in Ids(r)
  BY <1>1, NextOfFacts, CurFacts DEF Partial
<1>3. /\ \A S : Match(r, m, S) <=> Numeric(m) \in S
      /\ a \in Answers[p] /\ p \in Pattern
  BY <1>1, <1>2, MatchOwn DEF Placed
<1>4. Len(a) \in Nat /\ DOMAIN a = 1 .. Len(a) /\ l \in 1 .. Len(a) /\ l # Len(a) /\ l \in Nat
  BY <1>1, <1>3, AnswerLength DEF Full
<1>5. PICK k \in 1 .. Len(a) : /\ EndsAt(p, a, k) /\ (r.cmd_stop_received => k = l)
                               /\ (~r.cmd_stop_received => l < k)
  BY <1>1 DEF Partial
<1>15. l \in Nat /\ k \in Nat
  <2>1. PICK e : e = Len(a)
    OBVIOUS
  <2>2. e \in Nat /\ k \in 1 .. e
    BY <1>4, <2>1
  <2>3. k \in Nat
    BY <2>2
  <2> QED BY <1>4, <2>3, Zenon
<1>6. l + 1 \in DOMAIN a /\ Numeric(m) = a[l + 1] /\ l + 1 \in 1 .. Len(a)
  <2>1. l + 1 \in 1 .. Len(a)
    <3>1. PICK e : e = Len(a)
      OBVIOUS
    <3>2. e \in Nat /\ l \in 1 .. e /\ l # e
      BY <1>4, <3>1
    <3>3. l + 1 \in 1 .. e
      BY <3>2
    <3> QED BY <3>1, <3>3
  <2>2. Numeric(m) = a[l + 1]
    BY <1>2 DEF Numeric
  <2> QED BY <1>4, <2>1, <2>2
<1>7. y \in Redirect /\ Same(y, r) /\ x.taken \in BOOLEAN
  BY <1>1, OneOutput
<1>8. x.taken => Got(y, m.of, a, l + 1)
  <2>1. SUFFICES ASSUME x.taken PROVE Got(y, m.of, a, l + 1)
    OBVIOUS
  <2>2. y.output = Append(r.output, m)
    BY <1>1, <2>1, OneOutput
  <2>3. Got(r, m.of, m.answer, l)
    BY <1>1, <1>2 DEF Partial
  <2> QED BY <1>2, <1>4, <1>7, <2>2, <2>3, GotNext
<1>9. y.current_count = r.current_count => Cur(y) = Cur(r)
  BY <1>7 DEF Same, Cur
<1>10. r.started /\ (r.cmd_start_received \/ r.cmd_stop_received)
  BY DEF Placed, Busy
<1>11. ASSUME x.taken, Ended(x, r), l + 1 = Len(a), k <= l + 1 PROVE Took(x, r, m)
  <2>1. a[k] \in CmdStop[p] /\ k \in 1 .. l + 1
    BY <1>4, <1>5, <1>11 DEF EndsAt
  <2>2. y.pattern = p
    BY <1>1, <1>7 DEF Same
  <2>3. Done(y, m.of)
    BY <1>3, <1>6, <1>8, <1>11, <2>1, <2>2 DEF Done
  <2>4. Full(m)
    BY <1>2, <1>11 DEF Full
  <2> QED BY <1>1, <1>11, <2>3, <2>4 DEF Took
<1>12. CASE r.cmd_stop_received
  <2>1. k = l /\ CmdExtra[p] # {} /\ Len(a) = l + 1 /\ a[l + 1] \in CmdExtra[p]
    BY <1>4, <1>5, <1>12 DEF EndsAt
  <2>2. (x.taken <=> Match(r, m, CmdExtra[p])) /\ Ended(x, r)
    BY <1>1, <1>10, <1>12, OneExtra
  <2>3. x.taken
    BY <1>3, <1>6, <2>1, <2>2
  <2>4. k <= l + 1
    BY <1>15, <2>1
  <2> QED BY <1>11, <2>1, <2>2, <2>3, <2>4
<1>13. CASE ~r.cmd_stop_received /\ l + 1 < k
  <2>1. a[l + 1] \notin CmdStop[p]
    BY <1>5, <1>6, <1>13 DEF EndsAt
  <2>2. r.cmd_start_received
    BY <1>10, <1>13
  <2>6. ~Match(r, m, CmdStop[r.pattern])
    BY <1>1, <1>3, <1>6, <2>1
  <2>3. x.taken /\ GoesOn(x, r) /\ y.cmd_start_received /\ ~y.cmd_stop_received
    BY <1>1, <1>10, <1>13, <2>2, <2>6, OneMiddle
  <2>4. ~x.over /\ y.current_count = r.current_count /\ y.cmd_start_received /\ ~y.cmd_stop_received
    BY <1>1, <2>3, Zenon DEF GoesOn
  <2>5. Partial(y, m)
    BY <1>1, <1>2, <1>3, <1>5, <1>7, <1>8, <1>9, <1>13, <2>3, <2>4 DEF Partial, Same
  <2> QED BY <1>1, <2>3, <2>4, <2>5 DEF Took, Busy
<1>14. CASE ~r.cmd_stop_received /\ ~(l + 1 < k)
  <2>1. k = l + 1
    <3>1. l < k
      BY <1>5, <1>14, Zenon
    <3> QED BY <1>15, <1>14, <3>1
  <2>2. a[l + 1] \in CmdStop[p]
    BY <1>5, <2>1 DEF EndsAt
  <2>3. r.cmd_start_received
    BY <1>10, <1>14
  <2>7. Match(r, m, CmdStop[r.pattern])
    BY <1>1, <1>3, <1>6, <2>2
  <2>4. /\ x.taken
        /\ \/ Ended(x, r) /\ (CmdExtra[p] = {} \/ Match(r, m, CmdExtra[p]))
           \/ /\ GoesOn(x, r) /\ y.cmd_stop_received
              /\ ~(CmdExtra[p] = {} \/ Match(r, m, CmdExtra[p]))
    BY <1>1, <1>10, <1>14, <2>3, <2>7, OneStop
  <2>5. CASE CmdExtra[p] = {} \/ Numeric(m) \in CmdExtra[p]
    <3>1. Ended(x, r)
      BY <1>3, <2>4, <2>5
    <3>2. Len(a) = l + 1
      BY <1>5, <1>6, <2>1, <2>5 DEF EndsAt
    <3>3. k <= l + 1
      BY <1>15, <2>1
    <3> QED BY <1>11, <2>4, <3>1, <3>2, <3>3
  <2>6. CASE ~(CmdExtra[p] = {} \/ Numeric(m) \in CmdExtra[p])
    <3>1. GoesOn(x, r) /\ y.cmd_stop_received
      BY <1>3, <2>4, <2>6
    <3>2. ~x.over /\ y.current_count = r.current_count /\ y.cmd_stop_received
      BY <1>1, <3>1, Zenon DEF GoesOn
    <3>3. Partial(y, m)
      BY <1>1, <1>2, <1>3, <1>5, <1>7, <1>8, <1>9, <2>1, <2>4, <3>2 DEF Partial, Same
    <3> QED BY <1>1, <2>4, <3>2, <3>3 DEF Took, Busy
  <2> QED BY <2>5, <2>6
<1> QED BY <1>12, <1>13, <1>14

-----------------------------------------------------------------------------
(* A message and what a redirection should have.                           *)

LEMMA OfGiven ==
    ASSUME Typed, NEW m, OfCommand(m)
    PROVE  m.of \in 1 .. Given /\ m.of \in Nat /\ m.of >= 1 /\ m.of <= Queued /\ Queued <= Given
<1>1. Given \in Nat /\ Queued \in Int /\ Queued <= Given
  <2>1. Given \in Nat /\ Len(outqueue) \in Nat
    BY Lengths
  <2> QED BY <2>1 DEF Queued
<1> QED BY <1>1 DEF OfCommand

LEMMA UptoMore ==
    ASSUME NEW r \in Redirect, NEW y \in Redirect, NEW m \in Msg, y.output = Append(r.output, m),
           y.id = r.id, NEW n, Upto(r, n), m.of = 0 \/ m.of \in r.id .. n
    PROVE  Upto(y, n)
<1>1. Lines(y) \subseteq Lines(r) \cup {m}
  BY AppendOutput
<1> QED BY <1>1 DEF Upto

LEMMA TookOwn ==
    ASSUME NEW n, NEW r \in Redirect, Placed(n, r), NEW m \in Msg, m.of = Cur(r),
           Upto(r, Cur(r)), \A k \in r.id .. Cur(r) - 1 : Done(r, k), NEW x, x = One(r, m), Took(x, r, m)
    PROVE  /\ x.over => Owned(x.redirect) /\ r.current_count = r.count /\ Full(m)
           /\ ~x.over => Own(x.redirect, m)
           /\ ~x.over => \/ x.redirect.current_count = r.current_count
                         \/ Full(m) /\ x.redirect.current_count = r.current_count + 1
<1>1. PICK y, c : y = x.redirect /\ c = Cur(r)
  OBVIOUS
<1>2. y \in Redirect /\ Same(y, r) /\ y.output = Append(r.output, m) /\ x.over \in BOOLEAN
  BY <1>1, OneOutput DEF Took
<1>3. /\ y.id = r.id /\ y.count = r.count /\ y.pattern = r.pattern /\ y.id = n
      /\ n \in Nat /\ r.count \in Nat /\ r.current_count \in 1 .. r.count
      /\ c = n + r.current_count - 1
  BY <1>1, <1>2, RedirectFields, CurFacts DEF Same, Placed, Cur
<1>4. c \in Nat /\ n <= c
  BY <1>3
<1>5. Upto(y, c)
  <2>1. m.of \in r.id .. c /\ Upto(r, c)
    BY <1>1, <1>3, <1>4
  <2>2. y.id = r.id
    BY <1>3
  <2> QED BY <1>2, <2>1, <2>2, UptoMore, Zenon
<1>6. \A k \in n .. c - 1 : Done(y, k)
  <2>1. SUFFICES ASSUME NEW k \in n .. c - 1 PROVE Done(y, k)
    OBVIOUS
  <2>2. m.of # k /\ Done(r, k)
    BY <1>1, <1>3, <1>4, <2>1
  <2> QED BY <1>2, <1>3, <2>2, DoneOther
<1>7. CASE ~x.over /\ y.current_count = r.current_count /\ Busy(y) /\ Partial(y, m)
  <2>1. Cur(y) = c
    BY <1>1, <1>3, <1>7 DEF Cur
  <2>2. Own(y, m)
    BY <1>3, <1>5, <1>6, <1>7, <2>1 DEF Own
  <2> QED BY <1>1, <1>7, <2>2
<1>8. CASE Ended(x, r) /\ Full(m) /\ Done(y, m.of)
  <2>1. \A k \in n .. c : Done(y, k)
    <3>1. \A k \in n .. c : k = c \/ k \in n .. c - 1
      BY <1>3, <1>4
    <3> QED BY <1>1, <1>6, <1>8, <3>1
  <2>2. CASE r.current_count + 1 > r.count
    <3>1. x.over /\ r.current_count = r.count
      BY <1>3, <1>8, <2>2 DEF Ended
    <3>2. y.id + y.count - 1 = c
      BY <1>3, <3>1
    <3>3. Owned(y)
      BY <1>3, <1>5, <2>1, <3>2 DEF Owned, Ids
    <3> QED BY <1>1, <1>8, <3>1, <3>3
  <2>3. CASE ~(r.current_count + 1 > r.count)
    <3>1. ~x.over /\ y.current_count = r.current_count + 1 /\ ~y.cmd_start_received /\ ~y.cmd_stop_received
      BY <1>1, <1>8, <2>3 DEF Ended
    <3>2. Cur(y) - 1 = c /\ Cur(y) > m.of
      BY <1>1, <1>3, <1>4, <3>1 DEF Cur
    <3>3. Own(y, m)
      BY <1>3, <1>5, <2>1, <3>1, <3>2 DEF Own, Busy
    <3> QED BY <1>1, <1>8, <3>1, <3>3
  <2> QED BY <2>2, <2>3
<1> QED BY <1>1, <1>7, <1>8 DEF Took

\* A message of the server's own between the answers, or in an answer.
LEMMA NoiseOwn ==
    ASSUME Typed, Regular, NEW n, NEW r \in Redirect, Placed(n, r), ~r.cmd_stop_received, NEW b \in Msg,
           Own(r, b), NEW x, x = One(r, Noise)
    PROVE  ~x.over /\ Own(x.redirect, b) /\ x.redirect.current_count = r.current_count
<1>1. PICK m, p, y : m = Noise /\ p = r.pattern /\ y = x.redirect
  OBVIOUS
<1>2. m \in Msg /\ m.of = 0
  BY <1>1, NoiseFacts
<1>3. p \in Pattern /\ r.started \in BOOLEAN /\ r.cmd_start_received \in BOOLEAN
  BY <1>1, RedirectFields
<1>4. ~Match(r, m, CmdStart[p]) /\ ~Match(r, m, CmdStop[p])
  BY <1>1, <1>3 DEF Regular, Match
<1>5. CASE ~r.started \/ ~r.cmd_start_received
  <2>1. ~x.over /\ y = r
    BY <1>1, <1>2, <1>4, <1>5, OneNone
  <2> QED BY <1>1, <2>1
<1>6. CASE r.started /\ r.cmd_start_received
  <2>1. x.taken /\ GoesOn(x, r) /\ y.cmd_start_received /\ ~y.cmd_stop_received
    BY <1>1, <1>2, <1>4, <1>6, OneMiddle
  <2>2. y \in Redirect /\ Same(y, r) /\ y.output = Append(r.output, m)
    BY <1>1, <1>2, <2>1, OneOutput
  <2>3. ~x.over /\ y.current_count = r.current_count
    BY <1>1, <2>1, Zenon DEF GoesOn
  <2>4. y.id = r.id /\ y.pattern = r.pattern /\ Cur(y) = Cur(r) /\ r.id = n /\ n \in Nat /\ n >= 1
    BY <2>2, <2>3, CurFacts DEF Same, Cur, Placed
  <2>5. Busy(r) /\ Busy(y)
    BY <1>6, <2>1 DEF Busy
  <2>6. Partial(r, b) /\ Upto(r, Cur(r)) /\ \A k \in n .. Cur(r) - 1 : Done(r, k)
    BY <2>4, <2>5 DEF Own
  <2>7. Upto(y, Cur(r))
    BY <1>2, <2>2, <2>4, <2>6, UptoMore
  <2>8. \A k \in n .. Cur(r) - 1 : Done(y, k)
    <3>1. SUFFICES ASSUME NEW k \in n .. Cur(r) - 1 PROVE Done(y, k)
      OBVIOUS
    <3>2. m.of # k
      BY <1>2, <2>4, <3>1
    <3> QED BY <1>2, <2>2, <2>4, <2>6, <3>2, DoneOther
  <2>9. Partial(y, b)
    <3>1. b.of # 0
      BY <2>6 DEF Partial, OfCommand
    <3>2. Got(y, b.of, b.answer, b.at)
      BY <1>2, <2>2, <2>6, <3>1, GotOther DEF Partial
    <3> QED BY <1>6, <2>1, <2>4, <2>6, <3>2 DEF Partial
  <2>10. Own(y, b)
    BY <2>4, <2>5, <2>7, <2>8, <2>9 DEF Own
  <2> QED BY <1>1, <2>3, <2>10
<1> QED BY <1>3, <1>5, <1>6

\* It waits for an extra message, and the next answer begins.
LEMMA WaitsOver ==
    ASSUME Typed, Regular, ~recounts, NEW n, NEW r \in Redirect, Placed(n, r), r.cmd_stop_received,
           NEW b \in Msg, b.at \in 1 .. Len(b.answer), Own(r, b), NEW m \in Msg, OfCommand(m), m.at = 1,
           NEW x, x = One(r, m)
    PROVE  x.over /\ ~x.taken /\ Owned(x.redirect)
<1>1. PICK p, y : p = r.pattern /\ y = x.redirect
  OBVIOUS
<1>2. /\ p \in Pattern /\ r.started /\ r.count = 1 /\ r.current_count = 1 /\ r.id = n /\ n \in Nat
      /\ Cur(r) = n
  <2>1. p \in Pattern /\ r.started /\ r.count = 1 /\ r.current_count = 1 /\ r.id = n /\ n \in Nat
    BY <1>1, RedirectFields DEF Placed
  <2> QED BY <2>1 DEF Cur
<1>3. Numeric(m) \notin CmdExtra[p]
  <2>1. PICK q : q = commands[m.of].pattern
    OBVIOUS
  <2>2. q \in Pattern
    <3>1. m.of \in 1 .. Len(commands)
      BY OfGiven DEF Given
    <3>2. commands[m.of] \in Command
      BY <3>1, Members DEF Typed
    <3> QED BY <2>1, <3>2 DEF Command
  <2>3. m.answer \in Answers[q]
    BY <2>1 DEF OfCommand
  <2> QED BY <1>2, <2>2, <2>3 DEF Regular, Numeric
<1>4. ~Match(r, m, CmdExtra[p])
  BY <1>3 DEF Match
<1>5. ~x.taken /\ Ended(x, r)
  BY <1>1, <1>2, <1>4, OneExtra
<1>6. x.over
  BY <1>2, <1>5 DEF Ended
<1>7. y \in Redirect /\ Same(y, r) /\ y.output = r.output
  BY <1>1, <1>5, OneOutput
<1>8. y.id = n /\ y.count = 1 /\ y.pattern = p /\ Lines(y) = Lines(r)
  BY <1>1, <1>2, <1>7 DEF Same, Lines
<1>9. Partial(r, b) /\ Upto(r, n)
  BY <1>2 DEF Own, Busy
<1>10. Done(y, n)
  <2>1. PICK k \in 1 .. Len(b.answer) : EndsAt(p, b.answer, k) /\ k = b.at
    BY <1>1, <1>9 DEF Partial
  <2>2. b.answer[k] \in CmdStop[p] /\ b.answer \in Answers[p] /\ Got(r, n, b.answer, k)
    BY <1>1, <1>2, <1>9, <2>1 DEF Partial, EndsAt
  <2>3. Got(y, n, b.answer, k)
    BY <1>7, <2>2, GotSame
  <2>4. k \in 1 .. k
    BY <1>2, <1>1, <2>1, <2>2, AnswerLength
  <2> QED BY <1>8, <2>1, <2>2, <2>3, <2>4 DEF Done
<1>11. Owned(y)
  BY <1>2, <1>8, <1>9, <1>10 DEF Owned, Upto, Ids
<1> QED BY <1>1, <1>5, <1>6, <1>11

-----------------------------------------------------------------------------
(* A message and the list of redirections.                                 *)

\* Each redirection of the list has what it should have after b, and the commands
\* whose answers come after b are of redirections in the list.
AnsweredBy(list, b) ==
    /\ \A n \in DOMAIN list : Own(list[n], b)
    /\ \A k \in 1 .. Given : k > b.of \/ (k = b.of /\ ~Full(b)) =>
          \E n \in DOMAIN list : k \in Cur(list[n]) .. n + list[n].count - 1

Answered(b) == AnsweredBy(redirects, b)

\* The redirection n is the one to take m.
Owner(n, m) ==
    LET r == redirects[n] IN
    /\ n \in DOMAIN redirects /\ m.of = Cur(r) /\ Upto(r, Cur(r))
    /\ \A k \in r.id .. Cur(r) - 1 : Done(r, k)
    /\ Took(One(r, m), r, m)

LEMMA ListMember ==
    ASSUME Typed, Numbered, NEW n \in DOMAIN redirects, NEW r, r = redirects[n]
    PROVE  /\ r \in Redirect /\ Placed(n, r) /\ r.id = n /\ n \in Nat /\ n >= 1 /\ r.count \in Nat
           /\ r.current_count \in 1 .. r.count /\ Cur(r) \in Nat /\ Cur(r) >= n
           /\ Cur(r) <= n + r.count - 1 /\ Cur(r) = n + r.current_count - 1
           /\ \A k \in DOMAIN redirects : k > n => n + r.count <= k
<1>1. r \in Redirect /\ Placed(n, r)
  BY DEF Typed, Numbered
<1>2. r.id = n /\ n \in Nat /\ n >= 1 /\ r.count \in Nat /\ r.current_count \in 1 .. r.count
      /\ Cur(r) \in Nat /\ Cur(r) >= n /\ Cur(r) <= n + r.count - 1
  BY <1>1, CurFacts, RedirectFields DEF Placed
<1>3. Cur(r) = n + r.current_count - 1
  BY <1>2 DEF Cur
<1>4. \A k \in DOMAIN redirects : k > n => n + r.count <= k
  <2>1. SUFFICES ASSUME NEW k \in DOMAIN redirects, k > n PROVE n + r.count <= k
    OBVIOUS
  <2>2. k \in Nat
    BY DEF Typed
  <2>3. n < k
    BY <1>2, <2>1, <2>2
  <2> QED BY <2>3 DEF Numbered
<1> QED BY <1>1, <1>2, <1>3, <1>4

\* One that has the whole of b and is busy waits for an extra message.
LEMMA FullWaits ==
    ASSUME Typed, Numbered, ~recounts, NEW n \in DOMAIN redirects, NEW r, r = redirects[n],
           NEW b \in Msg, Own(r, b), Full(b), Busy(r)
    PROVE  r.cmd_stop_received /\ r.count = 1 /\ Cur(r) = n /\ b.of = n
<1>1. r \in Redirect /\ Placed(n, r) /\ n \in Nat /\ Cur(r) = n + r.current_count - 1
      /\ r.current_count \in 1 .. r.count
  BY ListMember
<1>2. Partial(r, b)
  BY DEF Own
<1>3. Len(b.answer) \in Nat
  BY SentenceFacts DEF Msg
<1>4. r.cmd_stop_received
  <2>1. SUFFICES ASSUME ~r.cmd_stop_received PROVE FALSE
    OBVIOUS
  <2>2. PICK k \in 1 .. Len(b.answer) : b.at < k
    BY <1>2, <2>1 DEF Partial
  <2> QED BY <1>3, <2>2 DEF Full
<1>5. r.count = 1
  BY <1>1, <1>4 DEF Placed
<1>6. Cur(r) = n
  BY <1>1, <1>5
<1> QED BY <1>2, <1>4, <1>5, <1>6 DEF Partial

LEMMA OwnerTakes ==
    ASSUME Typed, Numbered, Regular, ~recounts, NEW b, Place(b), Answered(b), NEW m \in Msg, Follows(b, m)
    PROVE  \E n \in DOMAIN redirects : Owner(n, m)
<1>1. b \in Msg /\ b.of \in Nat /\ b.at \in 1 .. Len(b.answer)
  BY DEF Place, Msg
<1>2. OfCommand(m) /\ m.of \in 1 .. Given /\ m.of \in Nat /\ m.of <= Queued /\ Queued \in Int
  BY OfGiven, Lengths DEF Follows
<1>3. \/ Full(b) /\ m.of = b.of + 1 /\ m.at = 1
      \/ ~Full(b) /\ m = NextOf(b) /\ m.of = b.of
  BY <1>1, NextOfFacts DEF Follows
<1>4. m.of > b.of \/ (m.of = b.of /\ ~Full(b))
  BY <1>1, <1>3
<1>5. PICK n \in DOMAIN redirects : m.of \in Cur(redirects[n]) .. n + redirects[n].count - 1
  BY <1>2, <1>4 DEF Answered, AnsweredBy
<1>6. PICK r, x : r = redirects[n] /\ x = One(r, m)
  OBVIOUS
<1>7. /\ r \in Redirect /\ Placed(n, r) /\ r.id = n /\ n \in Nat /\ Cur(r) \in Nat /\ Cur(r) >= n
      /\ r.count \in Nat
  BY <1>6, ListMember
<1>8. Own(r, b)
  BY <1>6 DEF Answered, AnsweredBy
<1>9. Cur(r) <= m.of /\ m.of <= n + r.count - 1
  BY <1>2, <1>5, <1>6, <1>7
<1>10. r.started
  <2>1. n <= Queued
    BY <1>2, <1>7, <1>9
  <2> QED BY <1>7, <2>1 DEF Placed
<1>11. CASE Full(b)
  <2>1. m.of = b.of + 1 /\ m.at = 1
    BY <1>3, <1>11
  <2>2. ~Busy(r)
    <3>1. SUFFICES ASSUME Busy(r) PROVE FALSE
      OBVIOUS
    <3>2. r.count = 1 /\ b.of = n
      BY <1>1, <1>6, <1>8, <1>11, <3>1, FullWaits
    <3> QED BY <1>7, <1>9, <2>1, <3>2
  <2>3. Cur(r) > b.of /\ Upto(r, Cur(r) - 1) /\ \A k \in r.id .. Cur(r) - 1 : Done(r, k)
    BY <1>8, <2>2 DEF Own
  <2>4. m.of = Cur(r)
    BY <1>1, <1>7, <1>9, <2>1, <2>3
  <2>5. Took(x, r, m)
    BY <1>2, <1>6, <1>7, <1>10, <2>1, <2>2, <2>3, <2>4, TakesFirst
  <2>6. Upto(r, Cur(r))
    <3>1. \A i \in r.id .. Cur(r) - 1 : i \in r.id .. Cur(r)
      BY <1>7
    <3> QED BY <2>3, <3>1 DEF Upto
  <2> QED BY <1>6, <2>3, <2>4, <2>5, <2>6 DEF Owner
<1>12. CASE ~Full(b)
  <2>1. m = NextOf(b) /\ m.of = b.of
    BY <1>3, <1>12
  <2>2. Busy(r)
    <3>1. SUFFICES ASSUME ~Busy(r) PROVE FALSE
      OBVIOUS
    <3>2. Cur(r) > b.of
      BY <1>8, <3>1 DEF Own
    <3> QED BY <1>1, <1>7, <1>9, <2>1, <3>2
  <2>3. Partial(r, b) /\ Upto(r, Cur(r)) /\ \A k \in r.id .. Cur(r) - 1 : Done(r, k)
    BY <1>8, <2>2 DEF Own
  <2>4. m.of = Cur(r)
    BY <2>1, <2>3 DEF Partial
  <2>5. Took(x, r, m)
    BY <1>1, <1>6, <1>7, <1>12, <2>1, <2>2, <2>3, TakesNext
  <2> QED BY <1>6, <2>3, <2>4, <2>5 DEF Owner
<1> QED BY <1>11, <1>12

\* Those before it in the list were waiting for an extra message.
LEMMA BeforeOwner ==
    ASSUME Typed, Numbered, Regular, ~recounts, NEW b, Place(b), Answered(b), NEW m \in Msg, Follows(b, m),
           NEW n, Owner(n, m), NEW k \in DOMAIN redirects, k < n, NEW x, x = One(redirects[k], m)
    PROVE  x.over /\ ~x.taken /\ Owned(x.redirect)
<1>1. b \in Msg /\ b.of \in Nat /\ b.at \in 1 .. Len(b.answer)
  BY DEF Place, Msg
<1>2. OfCommand(m)
  BY DEF Follows
<1>3. PICK s : s = redirects[n]
  OBVIOUS
<1>4. n \in DOMAIN redirects /\ m.of = Cur(s)
  BY <1>3 DEF Owner
<1>5. Cur(s) \in Nat /\ n \in Nat /\ Cur(s) >= n
  BY <1>3, <1>4, ListMember
<1>6. PICK r : r = redirects[k]
  OBVIOUS
<1>7. /\ r \in Redirect /\ Placed(k, r) /\ k \in Nat /\ Cur(r) \in Nat /\ Cur(r) <= k + r.count - 1
      /\ r.count \in Nat /\ \A j \in DOMAIN redirects : j > k => k + r.count <= j
  BY <1>6, ListMember
<1>8. k + r.count <= n
  BY <1>4, <1>5, <1>7
<1>9. Cur(r) < m.of
  BY <1>4, <1>5, <1>7, <1>8
<1>10. Own(r, b)
  BY <1>6 DEF Answered, AnsweredBy
<1>11. \/ Full(b) /\ m.of = b.of + 1 /\ m.at = 1
       \/ ~Full(b) /\ m.of = b.of
  BY <1>1, NextOfFacts DEF Follows
<1>12. Busy(r)
  <2>1. SUFFICES ASSUME ~Busy(r) PROVE FALSE
    OBVIOUS
  <2>2. Cur(r) > b.of
    BY <1>10, <2>1 DEF Own
  <2> QED BY <1>1, <1>7, <1>9, <1>11, <2>2
<1>13. b.of = Cur(r)
  BY <1>10, <1>12 DEF Own, Partial
<1>14. Full(b) /\ m.at = 1
  BY <1>7, <1>9, <1>11, <1>13
<1>15. r.cmd_stop_received
  BY <1>1, <1>6, <1>10, <1>12, <1>14, FullWaits
<1> QED BY <1>1, <1>2, <1>6, <1>7, <1>10, <1>14, <1>15, WaitsOver

\* Those after it wait for their answers.
LEMMA AfterOwner ==
    ASSUME Typed, Numbered, NEW b, Place(b), Answered(b), NEW m \in Msg, Follows(b, m),
           NEW n, Owner(n, m), NEW k \in DOMAIN redirects, n < k, NEW r, r = redirects[k]
    PROVE  Own(r, m)
<1>1. b \in Msg /\ b.of \in Nat
  BY DEF Place, Msg
<1>2. PICK s : s = redirects[n]
  OBVIOUS
<1>3. n \in DOMAIN redirects /\ m.of = Cur(s)
  BY <1>2 DEF Owner
<1>4. /\ Cur(s) \in Nat /\ n \in Nat /\ Cur(s) <= n + s.count - 1 /\ s.count \in Nat
      /\ \A j \in DOMAIN redirects : j > n => n + s.count <= j
  BY <1>2, <1>3, ListMember
<1>5. k \in Nat /\ Cur(r) \in Nat /\ Cur(r) >= k
  BY ListMember
<1>6. Cur(r) > m.of
  <2>1. n + s.count <= k
    BY <1>4, <1>5
  <2> QED BY <1>3, <1>4, <1>5, <2>1
<1>7. m.of = b.of \/ m.of = b.of + 1
  BY <1>1, NextOfFacts DEF Follows
<1>8. Own(r, b)
  BY DEF Answered, AnsweredBy
<1>9. ~Busy(r)
  <2>1. SUFFICES ASSUME Busy(r) PROVE FALSE
    OBVIOUS
  <2>2. b.of = Cur(r)
    BY <1>8, <2>1 DEF Own, Partial
  <2> QED BY <1>1, <1>5, <1>6, <1>7, <2>2
<1> QED BY <1>6, <1>8, <1>9 DEF Own

\* What a message of an answer leaves, and what it ends.
LEMMA CommandHandled ==
    ASSUME Typed, Numbered, Regular, ~recounts, NEW b, Place(b), Answered(b), NEW m \in Msg, Follows(b, m),
           NEW x, x = Message(redirects, m)
    PROVE  AnsweredBy(x.redirects, m) /\ \A y \in x.reports : Owned(y.redirect)
<1>a. PICK L, over : L = x.redirects /\ over = Overs(redirects, m)
  OBVIOUS
<1>b. Handled(redirects, m, x)
  BY RedirectsHandled
<1>1. /\ DOMAIN L = DOMAIN redirects \ over
      /\ \A n \in DOMAIN redirects \ over :
            L[n] = IF n \in Reached(redirects, m) THEN One(redirects[n], m).redirect ELSE redirects[n]
  BY <1>a, <1>b DEF Handled
<1>2. PICK n \in DOMAIN redirects : Owner(n, m)
  BY OwnerTakes
<1>3. PICK r, o : r = redirects[n] /\ o = One(r, m)
  OBVIOUS
<1>4. /\ m.of = Cur(r) /\ Upto(r, Cur(r)) /\ \A k \in r.id .. Cur(r) - 1 : Done(r, k)
      /\ Took(o, r, m)
  BY <1>2, <1>3 DEF Owner
<1>5. /\ r \in Redirect /\ Placed(n, r) /\ r.id = n /\ n \in Nat /\ r.count \in Nat
      /\ r.current_count \in 1 .. r.count /\ Cur(r) \in Nat /\ Cur(r) >= n
      /\ Cur(r) <= n + r.count - 1 /\ Cur(r) = n + r.current_count - 1
  BY <1>2, <1>3, ListMember
<1>6. /\ o.over => Owned(o.redirect) /\ r.current_count = r.count /\ Full(m)
      /\ ~o.over => Own(o.redirect, m)
      /\ ~o.over => \/ o.redirect.current_count = r.current_count
                    \/ Full(m) /\ o.redirect.current_count = r.current_count + 1
  BY <1>3, <1>4, <1>5, TookOwn
<1>7. o.taken /\ Same(o.redirect, r)
  BY <1>3, <1>4, <1>5, OneOutput DEF Took
<1>8. \A k \in DOMAIN redirects : k \in Nat
  BY DEF Typed
<1>9. \A k \in DOMAIN redirects : k < n =>
         One(redirects[k], m).over /\ ~One(redirects[k], m).taken /\ Owned(One(redirects[k], m).redirect)
  BY <1>2, BeforeOwner
<1>10. \A k \in DOMAIN redirects : k \in Reached(redirects, m) <=> k <= n
  <2>1. SUFFICES ASSUME NEW k \in DOMAIN redirects PROVE k \in Reached(redirects, m) <=> k <= n
    OBVIOUS
  <2>2. CASE k <= n
    <3>1. \A j \in DOMAIN redirects : j < k => ~One(redirects[j], m).taken
      <4>1. \A j \in DOMAIN redirects : j < k => j < n
        BY <1>5, <1>8, <2>1, <2>2
      <4> QED BY <1>9, <4>1
    <3> QED BY <2>1, <2>2, <3>1 DEF Reached
  <2>3. CASE ~(k <= n)
    <3>1. n < k
      BY <1>5, <1>8, <2>1, <2>3
    <3> QED BY <1>2, <1>3, <1>7, <2>3, <3>1 DEF Reached
  <2> QED BY <2>2, <2>3
<1>11. \A k \in DOMAIN redirects : k \in over <=> k < n \/ (k = n /\ o.over)
  <2>1. SUFFICES ASSUME NEW k \in DOMAIN redirects PROVE k \in over <=> k < n \/ (k = n /\ o.over)
    OBVIOUS
  <2>2. k \in over <=> k <= n /\ One(redirects[k], m).over
    BY <1>a, <1>10 DEF Overs
  <2>3. k <= n <=> k < n \/ k = n
    BY <1>5, <1>8
  <2> QED BY <1>3, <1>9, <2>2, <2>3
<1>12. /\ \A k \in DOMAIN L : k \in DOMAIN redirects /\ k >= n
       /\ \A k \in DOMAIN redirects : k > n => k \in DOMAIN L /\ L[k] = redirects[k]
       /\ n \in DOMAIN L <=> ~o.over
       /\ n \in DOMAIN L => L[n] = o.redirect
  <2>1. \A k \in DOMAIN L : k \in DOMAIN redirects /\ k >= n
    BY <1>1, <1>5, <1>8, <1>11
  <2>2. ASSUME NEW k \in DOMAIN redirects, k > n PROVE k \in DOMAIN L /\ L[k] = redirects[k]
    <3>1. ~(k <= n) /\ ~(k < n) /\ k # n
      BY <1>5, <1>8, <2>2
    <3> QED BY <1>1, <1>10, <1>11, <2>2, <3>1
  <2>3. n \in DOMAIN L <=> ~o.over
    <3>1. ~(n < n)
      BY <1>5
    <3> QED BY <1>1, <1>2, <1>11, <3>1
  <2>4. n \in DOMAIN L => L[n] = o.redirect
    <3>1. n <= n
      BY <1>5
    <3> QED BY <1>1, <1>2, <1>3, <1>10, <3>1
  <2> QED BY <2>1, <2>2, <2>3, <2>4
<1>13. ASSUME NEW k \in DOMAIN L PROVE Own(L[k], m)
  <2>1. CASE k = n
    BY <1>6, <1>12, <1>13, <2>1
  <2>2. CASE k # n
    <3>1. k \in DOMAIN redirects /\ n < k /\ k > n
      BY <1>5, <1>8, <1>12, <1>13, <2>2
    <3>2. L[k] = redirects[k]
      BY <1>12, <3>1
    <3> QED BY <1>2, <3>1, <3>2, AfterOwner
  <2> QED BY <2>1, <2>2
<1>14. ASSUME NEW k \in 1 .. Given, k > m.of \/ (k = m.of /\ ~Full(m))
       PROVE  \E j \in DOMAIN L : k \in Cur(L[j]) .. j + L[j].count - 1
  <2>1. b.of \in Nat /\ (m.of = b.of \/ m.of = b.of + 1)
    BY NextOfFacts DEF Place, Msg, Follows
  <2>2. k \in Nat
    BY Lengths
  <2>3. CASE k > m.of
    <3>1. k > b.of
      BY <2>1, <2>2, <2>3
    <3>2. PICK j \in DOMAIN redirects : k \in Cur(redirects[j]) .. j + redirects[j].count - 1
      BY <1>14, <3>1 DEF Answered, AnsweredBy
    <3>3. PICK s : s = redirects[j]
      OBVIOUS
    <3>4. /\ j \in Nat /\ Cur(s) \in Nat /\ s.count \in Nat /\ k <= j + s.count - 1 /\ Cur(s) <= k
          /\ \A i \in DOMAIN redirects : i > j => j + s.count <= i
      <4>1. /\ j \in Nat /\ Cur(s) \in Nat /\ s.count \in Nat
            /\ \A i \in DOMAIN redirects : i > j => j + s.count <= i
        BY <3>2, <3>3, ListMember
      <4> QED BY <2>2, <3>2, <3>3, <4>1
    <3>5. CASE j > n
      BY <1>12, <3>2, <3>5
    <3>6. CASE j < n
      <4>1. j + s.count <= n
        BY <1>2, <1>5, <3>4, <3>6
      <4> QED BY <1>4, <1>5, <2>2, <2>3, <3>4, <4>1
    <3>7. CASE j = n
      <4>1. s = r /\ k <= n + r.count - 1 /\ k > Cur(r)
        BY <1>3, <1>4, <2>3, <3>3, <3>4, <3>7
      <4>2. r.current_count # r.count
        BY <1>5, <2>2, <4>1
      <4>3. ~o.over
        BY <1>6, <4>2
      <4>4. PICK y : y = o.redirect
        OBVIOUS
      <4>5. y.id = n /\ y.count = r.count
        BY <1>5, <1>7, <4>4 DEF Same
      <4>6. y.current_count = r.current_count \/ y.current_count = r.current_count + 1
        BY <1>6, <4>3, <4>4
      <4>7. Cur(y) = Cur(r) \/ Cur(y) = Cur(r) + 1
        BY <1>5, <4>5, <4>6 DEF Cur
      <4>8. k \in Cur(y) .. n + y.count - 1
        BY <1>5, <2>2, <4>1, <4>5, <4>7
      <4>9. n \in DOMAIN L /\ L[n] = y
        BY <1>12, <4>3, <4>4
      <4> QED BY <4>8, <4>9
    <3> QED BY <1>5, <3>4, <3>5, <3>6, <3>7
  <2>4. CASE k = m.of /\ ~Full(m)
    <3>1. ~o.over
      BY <1>6, <2>4
    <3>2. PICK y : y = o.redirect
      OBVIOUS
    <3>3. y.id = n /\ y.count = r.count
      BY <1>5, <1>7, <3>2 DEF Same
    <3>4. y.current_count = r.current_count
      BY <1>6, <2>4, <3>1, <3>2
    <3>5. Cur(y) = Cur(r)
      BY <1>5, <3>3, <3>4 DEF Cur
    <3>6. k \in Cur(y) .. n + y.count - 1
      BY <1>4, <1>5, <2>4, <3>3, <3>5
    <3>7. n \in DOMAIN L /\ L[n] = y
      BY <1>12, <3>1, <3>2
    <3> QED BY <3>6, <3>7
  <2> QED BY <1>14, <2>3, <2>4
<1>15. AnsweredBy(L, m)
  BY <1>13, <1>14 DEF AnsweredBy
<1>16. ASSUME NEW y \in x.reports PROVE Owned(y.redirect)
  <2>1. PICK k \in Overs(redirects, m) : EndsWith(k, m, y)
    BY <1>16, HandledReports
  <2>2. k \in DOMAIN redirects /\ y.redirect = One(redirects[k], m).redirect /\ k \in over
    BY <1>a, <2>1 DEF EndsWith
  <2>3. k < n \/ (k = n /\ o.over)
    BY <1>11, <2>2
  <2>4. CASE k < n
    BY <1>9, <2>2, <2>4
  <2>5. CASE k = n /\ o.over
    BY <1>3, <1>6, <2>2, <2>5
  <2> QED BY <2>3, <2>4, <2>5
<1> QED BY <1>a, <1>15, <1>16

\* What a message of the server's own leaves.
LEMMA NoiseHandled ==
    ASSUME Typed, Numbered, Regular, NEW b \in Msg, Answered(b),
           \A n \in DOMAIN redirects : ~redirects[n].cmd_stop_received,
           NEW m, m = Noise, NEW x, x = Message(redirects, m)
    PROVE  AnsweredBy(x.redirects, b) /\ x.reports = {}
<1>a. PICK L, over : L = x.redirects /\ over = Overs(redirects, m)
  OBVIOUS
<1>0. m \in Msg
  BY NoiseFacts
<1>b. Handled(redirects, m, x)
  BY <1>0, RedirectsHandled
<1>1. /\ DOMAIN L = DOMAIN redirects \ over /\ over \subseteq DOMAIN redirects
      /\ \A n \in DOMAIN redirects \ over :
            L[n] = IF n \in Reached(redirects, m) THEN One(redirects[n], m).redirect ELSE redirects[n]
      /\ x.reports = {Report(One(redirects[n], m).redirect, FALSE) : n \in over}
  BY <1>a, <1>b DEF Handled
<1>2. ASSUME NEW n \in DOMAIN redirects
      PROVE  LET o == One(redirects[n], m) IN
             /\ ~o.over /\ Own(o.redirect, b) /\ Cur(o.redirect) = Cur(redirects[n])
             /\ o.redirect.count = redirects[n].count
  <2>1. PICK r, o : r = redirects[n] /\ o = One(r, m)
    OBVIOUS
  <2>2. r \in Redirect /\ Placed(n, r)
    BY <2>1, ListMember
  <2>3. Own(r, b)
    BY <2>1 DEF Answered, AnsweredBy
  <2>4. ~o.over /\ Own(o.redirect, b) /\ o.redirect.current_count = r.current_count
    BY <2>1, <2>2, <2>3, NoiseOwn
  <2>5. Same(o.redirect, r)
    BY <1>0, <2>1, <2>2, OneOutput
  <2> QED BY <2>1, <2>4, <2>5 DEF Same, Cur
<1>3. over = {}
  BY <1>a, <1>1, <1>2 DEF Overs
<1>4. DOMAIN L = DOMAIN redirects
  BY <1>1, <1>3
<1>5. ASSUME NEW n \in DOMAIN redirects
      PROVE  Own(L[n], b) /\ Cur(L[n]) = Cur(redirects[n]) /\ L[n].count = redirects[n].count
  <2>1. L[n] = One(redirects[n], m).redirect \/ L[n] = redirects[n]
    BY <1>1, <1>3
  <2>2. Own(redirects[n], b)
    BY DEF Answered, AnsweredBy
  <2> QED BY <1>2, <2>1, <2>2
<1>6. AnsweredBy(L, b)
  <2>1. ASSUME NEW k \in 1 .. Given, k > b.of \/ (k = b.of /\ ~Full(b))
        PROVE  \E n \in DOMAIN L : k \in Cur(L[n]) .. n + L[n].count - 1
    <3>1. PICK n \in DOMAIN redirects : k \in Cur(redirects[n]) .. n + redirects[n].count - 1
      BY <2>1 DEF Answered, AnsweredBy
    <3> QED BY <1>4, <1>5, <3>1
  <2> QED BY <1>4, <1>5, <2>1 DEF AnsweredBy
<1> QED BY <1>a, <1>1, <1>3, <1>6

-----------------------------------------------------------------------------
(* What the redirections should have stays so.                             *)

LEMMA KeptAnswered ==
    ASSUME Typed, Typed', Kept
    PROVE  /\ \A r, b : Own(r, b) => Own(r, b)'
           /\ Given' = Given => \A L, b : AnsweredBy(L, b) => AnsweredBy(L, b)'
<1>1. ASSUME NEW r, NEW b, Own(r, b) PROVE Own(r, b)'
  <2>1. OfCommand(b) => OfCommand(b)'
    BY KeptPlaces
  <2>2. Partial(r, b) => Partial(r, b)'
    BY <2>1 DEF Partial, Cur, Got, EndsAt
  <2> QED BY <1>1, <2>2 DEF Own, Busy, Upto, Cur, Done, Got, Lines
<1>2. ASSUME Given' = Given, NEW L, NEW b, AnsweredBy(L, b) PROVE AnsweredBy(L, b)'
  <2>1. \A n \in DOMAIN L : Own(L[n], b)'
    <3>1. SUFFICES ASSUME NEW n \in DOMAIN L PROVE Own(L[n], b)'
      OBVIOUS
    <3>2. PICK r : r = L[n]
      OBVIOUS
    <3>3. Own(r, b)
      BY <1>2, <3>2 DEF AnsweredBy
    <3>4. Own(r, b)'
      BY <1>1, <3>3
    <3> QED BY <3>2, <3>4
  <2> QED BY <1>2, <2>1 DEF AnsweredBy, Full, Cur
<1> QED BY <1>1, <1>2

LEMMA SameAnswered ==
    ASSUME Typed, Typed', UNCHANGED <<commands, outqueue, redirects>>, NEW b, Answered(b)
    PROVE  Answered(b)'
<1>1. Given' = Given /\ Queued' = Queued /\ Queued \in Int
  BY Lengths DEF Given, Queued
<1>2. Kept
  BY <1>1 DEF Kept
<1>3. PICK L : L = redirects
  OBVIOUS
<1>4. AnsweredBy(L, b)
  BY <1>3 DEF Answered
<1>5. AnsweredBy(L, b)'
  BY <1>1, <1>2, <1>4, KeptAnswered
<1>6. redirects' = L
  BY <1>3
<1> QED BY <1>5, <1>6 DEF Answered

\* The two differ in "started" only.
LEMMA AlikeOwn ==
    ASSUME NEW r, NEW x, NEW b, Own(r, b), x.id = r.id, x.pattern = r.pattern,
           x.current_count = r.current_count, x.cmd_start_received = r.cmd_start_received,
           x.cmd_stop_received = r.cmd_stop_received, x.output = r.output
    PROVE  Own(x, b)
<1>1. Cur(x) = Cur(r) /\ Lines(x) = Lines(r) /\ (Busy(x) <=> Busy(r))
  BY DEF Cur, Lines, Busy
<1>2. \A n : Done(r, n) => Done(x, n)
  BY DoneSame
<1>3. \A n, a, l : Got(r, n, a, l) => Got(x, n, a, l)
  BY GotSame
<1>4. Partial(r, b) => Partial(x, b)
  BY <1>1, <1>3 DEF Partial
<1> QED BY <1>1, <1>2, <1>4 DEF Own, Upto

LEMMA SendAnswered ==
    ASSUME Typed, Typed', Numbered, Send, NEW b, Answered(b)
    PROVE  Answered(b)' /\ Kept
<1>1. Queued' = Queued + 1 /\ Given' = Given /\ commands' = commands
  BY SendNumbered
<1>2. Kept
  <2>1. Queued \in Int
    BY Lengths
  <2> QED BY <1>1, <2>1 DEF Kept
<1>3. PICK L : L = redirects'
  OBVIOUS
<1>4. DOMAIN L = DOMAIN redirects
  BY <1>3, SendFacts
<1>5. ASSUME NEW n \in DOMAIN redirects
      PROVE  Own(L[n], b) /\ Cur(L[n]) = Cur(redirects[n]) /\ L[n].count = redirects[n].count
  <2>1. PICK r, x : r = redirects[n] /\ x = L[n]
    OBVIOUS
  <2>2. /\ x.id = r.id /\ x.pattern = r.pattern /\ x.count = r.count
        /\ x.current_count = r.current_count /\ x.cmd_start_received = r.cmd_start_received
        /\ x.cmd_stop_received = r.cmd_stop_received /\ x.output = r.output
    BY <1>3, <2>1, SendFacts
  <2>3. Own(r, b)
    BY <2>1 DEF Answered, AnsweredBy
  <2>4. Own(x, b)
    BY <2>2, <2>3, AlikeOwn
  <2> QED BY <2>1, <2>2, <2>4 DEF Cur
<1>6. AnsweredBy(L, b)
  <2>1. ASSUME NEW k \in 1 .. Given, k > b.of \/ (k = b.of /\ ~Full(b))
        PROVE  \E n \in DOMAIN L : k \in Cur(L[n]) .. n + L[n].count - 1
    <3>1. PICK n \in DOMAIN redirects : k \in Cur(redirects[n]) .. n + redirects[n].count - 1
      BY <2>1 DEF Answered, AnsweredBy
    <3> QED BY <1>4, <1>5, <3>1
  <2> QED BY <1>4, <1>5, <2>1 DEF AnsweredBy
<1>7. AnsweredBy(L, b)'
  BY <1>1, <1>2, <1>6, KeptAnswered
<1> QED BY <1>2, <1>3, <1>7 DEF Answered

LEMMA AskKept ==
    ASSUME Typed, Numbered, NEW p \in Pattern, NEW t \in Target, NEW s \in {None, t}, NEW count \in 1 .. 2,
           Ask(p, t, s, count)
    PROVE  Kept /\ Queued' = Queued
<1>1. PICK n, r : n = Given + 1 /\ r = NewRedirect(n, p, s, count)
  OBVIOUS
<1>2. AskedFor(n, r, count)
  BY <1>1, AskFacts
<1>3. Queued \in Int
  BY Lengths
<1> QED BY <1>2, <1>3 DEF Kept, AskedFor

LEMMA AskAnswered ==
    ASSUME Typed, Typed', Numbered, NEW p \in Pattern, NEW t \in Target, NEW s \in {None, t},
           NEW count \in 1 .. 2, Ask(p, t, s, count), NEW b, Place(b), Answered(b)
    PROVE  Answered(b)'
<1>1. PICK n, r : n = Given + 1 /\ r = NewRedirect(n, p, s, count)
  OBVIOUS
<1>2. /\ AskedFor(n, r, count) /\ r.current_count = 1 /\ r.output = <<>>
      /\ ~r.cmd_start_received /\ ~r.cmd_stop_received /\ Placed(n, r)'
  BY <1>1, AskFacts
<1>3. /\ Given' = Given + count /\ n \in Nat /\ r \in Redirect /\ r.count = count
      /\ n \notin DOMAIN redirects
      /\ DOMAIN redirects' = DOMAIN redirects \cup {n}
      /\ \A k \in DOMAIN redirects : redirects'[k] = redirects[k]
      /\ redirects'[n] = r
  BY <1>2 DEF AskedFor
<1>4. r.id = n
  BY <1>2 DEF Placed
<1>5. Given \in Nat /\ b.of \in Nat /\ b.of <= Given /\ b \in Msg
  <2>1. b.of <= Queued /\ b \in Msg /\ b.of \in Nat
    BY DEF Place, Msg
  <2>2. Given \in Nat /\ Len(outqueue) \in Nat
    BY Lengths
  <2> QED BY <2>1, <2>2 DEF Queued
<1>6. Cur(r) = n
  BY <1>2, <1>3, <1>4 DEF Cur
<1>7. Lines(r) = {}
  BY <1>2 DEF Lines
<1>8. Own(r, b)
  <2>1. r.id .. Cur(r) - 1 = {}
    BY <1>3, <1>4, <1>6
  <2>2. Cur(r) > b.of
    BY <1>1, <1>5, <1>6
  <2> QED BY <1>2, <1>7, <2>1, <2>2 DEF Own, Busy, Upto
<1>9. Kept
  BY AskKept
<1>10. PICK L : L = redirects'
  OBVIOUS
<1>11. ASSUME NEW k \in DOMAIN L PROVE Own(L[k], b)'
  <2>1. PICK x : x = L[k]
    OBVIOUS
  <2>2. Own(x, b)
    BY <1>3, <1>8, <1>10, <1>11, <2>1 DEF Answered, AnsweredBy
  <2>3. Own(x, b)'
    BY <1>9, <2>2, KeptAnswered
  <2> QED BY <2>1, <2>3
<1>12. ASSUME NEW k \in 1 .. Given', k > b.of \/ (k = b.of /\ ~Full(b))
       PROVE  \E j \in DOMAIN L : k \in Cur(L[j]) .. j + L[j].count - 1
  <2>1. CASE k \in 1 .. Given
    <3>1. PICK j \in DOMAIN redirects : k \in Cur(redirects[j]) .. j + redirects[j].count - 1
      BY <1>12, <2>1 DEF Answered, AnsweredBy
    <3> QED BY <1>3, <1>10, <3>1
  <2>2. CASE k \notin 1 .. Given
    <3>1. k \in n .. n + count - 1
      BY <1>1, <1>3, <1>5, <2>2
    <3> QED BY <1>3, <1>6, <1>10, <3>1
  <2> QED BY <2>1, <2>2
<1>13. AnsweredBy(L, b)'
  BY <1>11, <1>12 DEF AnsweredBy, Full, Cur
<1> QED BY <1>10, <1>13 DEF Answered

-----------------------------------------------------------------------------
(* Redirections with a string.                                             *)

\* between the message that starts an answer and the one that ends it
Middle(r) == r.cmd_start_received /\ ~r.cmd_stop_received

Stringed(r) == r.string # None => \A m \in Lines(r) : m.of # 0 => m.target = r.string

\* After b, the rest of an answer of the pattern of r, about its string, is to come.
Amid(r, b) ==
    /\ OfCommand(b) /\ commands[b.of].pattern = r.pattern /\ b.target = r.string
    /\ \E i \in b.at + 1 .. Len(b.answer) : b.answer[i] \in CmdStop[r.pattern]

\* No redirection before n would take it.
Alone(list, n) ==
    \A k \in DOMAIN list : k < n =>
        /\ ~Middle(list[k])
        /\ list[k].pattern # list[n].pattern \/ list[k].string \notin {None, list[n].string}

StringsBy(list, b) ==
    \A n \in DOMAIN list : list[n].string # None =>
        Stringed(list[n]) /\ (Middle(list[n]) => Amid(list[n], b) /\ Alone(list, n))

Strings(b) == StringsBy(redirects, b)

\* m is a message of an answer or of the server's own.
Coming(m) == m \in Msg /\ (m = Noise \/ (OfCommand(m) /\ m.at \in 1 .. Len(m.answer)))

LEMMA OfPattern ==
    ASSUME Typed, NEW m, OfCommand(m)
    PROVE  commands[m.of].pattern \in Pattern
<1>1. m.of \in 1 .. Len(commands)
  BY OfGiven DEF Given
<1>2. commands[m.of] \in Command
  BY <1>1, Members DEF Typed
<1> QED BY <1>2 DEF Command

Cmds(p) == {CmdStart[p], CmdStop[p], CmdExtra[p]}

\* With patterns that are apart, a message a redirection looks for is of its own
\* pattern, and about its string.
LEMMA MatchFacts ==
    ASSUME Typed, Regular, Distinct, NEW r \in Redirect, NEW m, Coming(m), NEW S \in Cmds(r.pattern),
           Match(r, m, S)
    PROVE  /\ m # Noise /\ OfCommand(m) /\ Numeric(m) \in S
           /\ commands[m.of].pattern = r.pattern /\ r.string \in {None, m.target}
<1>1. PICK p : p = r.pattern
  OBVIOUS
<1>2. p \in Pattern /\ Numeric(m) \in S /\ Numeric(m) \in CmdStart[p] \cup CmdStop[p] \cup CmdExtra[p]
  BY <1>1, RedirectFields DEF Match, Cmds
<1>3. m # Noise
  BY <1>2 DEF Regular
<1>4. OfCommand(m) /\ m.at \in 1 .. Len(m.answer)
  BY <1>3 DEF Coming
<1>5. PICK q \in Pattern : q = commands[m.of].pattern
  BY <1>4, OfPattern
<1>6. m.answer \in Answers[q]
  BY <1>4, <1>5 DEF OfCommand
<1>7. m.at \in DOMAIN m.answer
  BY <1>4, <1>6, AnswerLength
<1>8. q = p
  <2>1. SUFFICES ASSUME q # p PROVE FALSE
    OBVIOUS
  <2>2. q \in Pattern \ {p}
    BY <2>1
  <2>3. m.answer[m.at] \notin CmdStart[p] \cup CmdStop[p] \cup CmdExtra[p]
    BY <1>2, <1>6, <1>7, <2>2 DEF Distinct
  <2> QED BY <1>2, <2>3 DEF Numeric
<1>9. Numeric(m) \notin Unchecked
  BY <1>2 DEF Distinct
<1>10. r.string \in {None, m.target}
  BY <1>9 DEF Match
<1> QED BY <1>1, <1>2, <1>3, <1>4, <1>5, <1>8, <1>10

\* One that waits for an extra message ends with the next message, whatever it is.
LEMMA WaitEnds ==
    ASSUME ~recounts, NEW n, NEW r \in Redirect, Placed(n, r), r.cmd_stop_received, NEW m \in Msg,
           NEW x, x = One(r, m)
    PROVE  x.over /\ (x.taken <=> Match(r, m, CmdExtra[r.pattern]))
<1>1. r.started /\ r.count = 1 /\ r.current_count = 1
  BY RedirectFields DEF Placed
<1>2. (x.taken <=> Match(r, m, CmdExtra[r.pattern])) /\ Ended(x, r)
  BY <1>1, OneExtra
<1>3. x.over
  BY <1>1, <1>2 DEF Ended
<1> QED BY <1>2, <1>3

LEMMA NotTaken ==
    ASSUME ~recounts, NEW n, NEW r \in Redirect, Placed(n, r), r.started, NEW m \in Msg,
           NEW x, x = One(r, m), ~x.taken
    PROVE  ~Middle(r) /\ (x.over \/ (x.redirect = r /\ ~Match(r, m, CmdStart[r.pattern])))
<1>1. CASE r.cmd_stop_received
  BY <1>1, WaitEnds DEF Middle
<1>2. CASE ~r.cmd_stop_received /\ r.cmd_start_received
  <2>1. x.taken
    BY <1>2, OneMiddle, OneStop
  <2> QED BY <2>1
<1>3. CASE ~r.cmd_stop_received /\ ~r.cmd_start_received
  <2>1. ~Match(r, m, CmdStart[r.pattern])
    <3>1. Match(r, m, CmdStart[r.pattern]) => x.taken
      BY <1>3, OneStart
    <3> QED BY <3>1
  <2>2. ~Match(r, m, CmdStop[r.pattern])
    <3>1. Match(r, m, CmdStop[r.pattern]) => x.taken
      BY <1>3, <2>1, OneStop
    <3> QED BY <3>1
  <2>3. x.redirect = r
    BY <1>3, <2>1, <2>2, OneNone
  <2> QED BY <1>3, <2>1, <2>3 DEF Middle
<1> QED BY <1>1, <1>2, <1>3, RedirectFields

LEMMA TakenMatch ==
    ASSUME ~recounts, NEW n, NEW r \in Redirect, Placed(n, r), ~Middle(r), NEW m \in Msg,
           NEW x, x = One(r, m), x.taken
    PROVE  \E S \in Cmds(r.pattern) : Match(r, m, S)
<1>1. CASE r.cmd_stop_received
  <2>1. Match(r, m, CmdExtra[r.pattern])
    BY <1>1, WaitEnds
  <2> QED BY <2>1 DEF Cmds
<1>2. CASE ~r.cmd_stop_received
  <2>1. ~r.cmd_start_received
    BY <1>2 DEF Middle
  <2>2. Match(r, m, CmdStart[r.pattern]) \/ Match(r, m, CmdStop[r.pattern])
    <3>1. SUFFICES ASSUME ~Match(r, m, CmdStart[r.pattern]), ~Match(r, m, CmdStop[r.pattern]) PROVE FALSE
      OBVIOUS
    <3>2. ~x.taken
      BY <1>2, <2>1, <3>1, OneNone
    <3> QED BY <3>2
  <2> QED BY <2>2 DEF Cmds
<1> QED BY <1>1, <1>2

\* A redirection that is not in the middle of an answer lets pass what is not for it.
LEMMA Quiet ==
    ASSUME Typed, Regular, Distinct, ~recounts, NEW n, NEW r \in Redirect, Placed(n, r), ~Middle(r),
           NEW m, Coming(m), NEW x, x = One(r, m),
           m = Noise \/ commands[m.of].pattern # r.pattern \/ r.string \notin {None, m.target}
    PROVE  ~x.taken
<1>1. SUFFICES ASSUME x.taken PROVE FALSE
  OBVIOUS
<1>2. m \in Msg
  BY DEF Coming
<1>3. PICK S \in Cmds(r.pattern) : Match(r, m, S)
  BY <1>1, <1>2, TakenMatch
<1> QED BY <1>3, MatchFacts

\* The next message of an answer that is not at its end.
LEMMA AmidNext ==
    ASSUME Typed, NEW b \in Msg, NEW r, Amid(r, b), NEW m, m # Noise, NEW c, Leads(b, m, c)
    PROVE  /\ c = m /\ m.of = b.of /\ m.answer = b.answer /\ m.at = b.at + 1 /\ m.target = r.string
           /\ OfCommand(m) /\ commands[m.of].pattern = r.pattern
<1>1. Len(b.answer) \in Nat /\ b.at \in Nat
  BY SentenceFacts DEF Msg
<1>2. ~Full(b)
  BY <1>1 DEF Amid, Full
<1>3. c = m /\ m = NextOf(b) /\ OfCommand(m)
  BY <1>2 DEF Leads, Follows
<1> QED BY <1>3, NextOfFacts DEF Amid

LEMMA StringLines ==
    ASSUME Typed, Regular, Distinct, ~recounts, NEW n, NEW r \in Redirect, Placed(n, r), r.string # None,
           NEW b \in Msg, NEW m, Coming(m), NEW c, Leads(b, m, c), Stringed(r), Middle(r) => Amid(r, b),
           NEW x, x = One(r, m)
    PROVE  Stringed(x.redirect)
<1>1. PICK y : y = x.redirect
  OBVIOUS
<1>2. /\ m \in Msg /\ y \in Redirect /\ Same(y, r) /\ x.taken \in BOOLEAN
      /\ x.taken => y.output = Append(r.output, m)
      /\ ~x.taken => y.output = r.output
  <2>1. m \in Msg
    BY DEF Coming
  <2> QED BY <1>1, <2>1, OneOutput
<1>3. y.string = r.string
  BY <1>2 DEF Same
<1>4. CASE ~x.taken
  <2>1. Lines(y) = Lines(r)
    BY <1>2, <1>4 DEF Lines
  <2> QED BY <1>1, <1>3, <2>1 DEF Stringed
<1>5. CASE x.taken
  <2>1. Lines(y) \subseteq Lines(r) \cup {m}
    BY <1>2, <1>5, AppendOutput
  <2>2. m.of # 0 => m.target = r.string
    <3>1. SUFFICES ASSUME m.of # 0 PROVE m.target = r.string
      OBVIOUS
    <3>2. m # Noise
      BY <3>1, NoiseFacts
    <3>3. CASE Middle(r)
      BY <3>2, <3>3, AmidNext
    <3>4. CASE ~Middle(r)
      <4>1. PICK S \in Cmds(r.pattern) : Match(r, m, S)
        BY <1>2, <1>5, <3>4, TakenMatch
      <4>2. r.string \in {None, m.target}
        BY <4>1, MatchFacts
      <4> QED BY <4>2
    <3> QED BY <3>3, <3>4
  <2> QED BY <1>1, <1>3, <2>1, <2>2 DEF Stringed
<1> QED BY <1>2, <1>4, <1>5

\* It is in the middle of an answer after m: it was, or m starts it.
LEMMA StringMiddle ==
    ASSUME Typed, Regular, Distinct, ~recounts, NEW n, NEW r \in Redirect, Placed(n, r), r.string # None,
           NEW b \in Msg, NEW m, Coming(m), NEW c, Leads(b, m, c), Middle(r) => Amid(r, b),
           NEW x, x = One(r, m), ~x.over, Middle(x.redirect)
    PROVE  /\ Amid(x.redirect, c) /\ r.started
           /\ Middle(r) \/ (m # Noise /\ Match(r, m, CmdStart[r.pattern]))
<1>1. PICK y, p : y = x.redirect /\ p = r.pattern
  OBVIOUS
<1>2. /\ m \in Msg /\ y \in Redirect /\ Same(y, r) /\ x.taken \in BOOLEAN
  <2>1. m \in Msg
    BY DEF Coming
  <2> QED BY <1>1, <2>1, OneOutput
<1>3. y.string = r.string /\ y.pattern = p /\ p \in Pattern
  BY <1>1, <1>2, RedirectFields DEF Same
<1>4. y.cmd_start_received /\ ~y.cmd_stop_received
  BY <1>1 DEF Middle
<1>5. ~Ended(x, r)
  <2>1. SUFFICES ASSUME Ended(x, r) PROVE FALSE
    OBVIOUS
  <2> QED BY <1>1, <1>4, <2>1 DEF Ended
<1>6. CASE Middle(r)
  <2>1. Amid(r, b) /\ r.started /\ r.cmd_start_received /\ ~r.cmd_stop_received
    BY <1>6 DEF Middle, Placed
  <2>2. CASE m = Noise
    <3>1. c = b
      BY <2>2 DEF Leads
    <3>2. Amid(y, c)
      BY <1>1, <1>3, <2>1, <3>1 DEF Amid
    <3> QED BY <1>1, <1>6, <2>1, <3>2
  <2>3. CASE m # Noise
    <3>1. /\ c = m /\ m.of = b.of /\ m.answer = b.answer /\ m.at = b.at + 1 /\ m.target = r.string
          /\ OfCommand(m) /\ commands[m.of].pattern = r.pattern
      BY <2>1, <2>3, AmidNext
    <3>2. PICK i \in b.at + 1 .. Len(b.answer) : b.answer[i] \in CmdStop[p]
      BY <1>1, <2>1 DEF Amid
    <3>3. b.at \in Nat /\ Len(b.answer) \in Nat
      BY SentenceFacts DEF Msg
    <3>4. i # b.at + 1
      <4>1. SUFFICES ASSUME i = b.at + 1 PROVE FALSE
        OBVIOUS
      <4>2. Numeric(m) \in CmdStop[p]
        BY <3>1, <3>2, <4>1 DEF Numeric
      <4>3. Match(r, m, CmdStop[r.pattern])
        BY <1>1, <3>1, <4>2 DEF Match
      <4>4. Ended(x, r) \/ y.cmd_stop_received
        BY <1>1, <1>2, <2>1, <4>3, OneStop
      <4> QED BY <1>4, <1>5, <4>4
    <3>5. i \in m.at + 1 .. Len(m.answer)
      <4>1. PICK l, e : l = b.at /\ e = Len(b.answer)
        OBVIOUS
      <4>2. l \in Nat /\ e \in Nat /\ i \in l + 1 .. e /\ i # l + 1
        BY <3>2, <3>3, <3>4, <4>1
      <4>3. i \in l + 1 + 1 .. e
        BY <4>2
      <4> QED BY <3>1, <4>1, <4>3
    <3>6. Amid(y, c)
      BY <1>3, <3>1, <3>2, <3>5, <1>1 DEF Amid
    <3> QED BY <1>1, <1>6, <2>1, <3>6
  <2> QED BY <2>2, <2>3
<1>7. CASE ~Middle(r)
  <2>1. ~r.cmd_stop_received
    <3>1. SUFFICES ASSUME r.cmd_stop_received PROVE FALSE
      OBVIOUS
    <3> QED BY <1>2, <3>1, WaitEnds
  <2>2. ~r.cmd_start_received
    BY <1>7, <2>1 DEF Middle
  <2>3. y # r
    BY <1>4, <2>2
  <2>4. r.started
    <3>1. SUFFICES ASSUME ~r.started PROVE FALSE
      OBVIOUS
    <3> QED BY <1>1, <1>2, <2>3, <3>1, OneNone
  <2>5. Match(r, m, CmdStart[r.pattern])
    <3>1. SUFFICES ASSUME ~Match(r, m, CmdStart[r.pattern]) PROVE FALSE
      OBVIOUS
    <3>2. CASE ~Match(r, m, CmdStop[r.pattern])
      BY <1>1, <1>2, <2>1, <2>2, <2>3, <3>1, <3>2, OneNone
    <3>3. CASE Match(r, m, CmdStop[r.pattern])
      <4>1. Ended(x, r) \/ y.cmd_stop_received
        BY <1>1, <1>2, <2>1, <2>4, <3>1, <3>3, OneStop
      <4> QED BY <1>4, <1>5, <4>1
    <3> QED BY <3>2, <3>3
  <2>6. CmdStart[p] \in Cmds(p)
    BY DEF Cmds
  <2>7. /\ m # Noise /\ OfCommand(m) /\ Numeric(m) \in CmdStart[p]
        /\ commands[m.of].pattern = p /\ r.string \in {None, m.target}
    BY <1>1, <2>5, <2>6, MatchFacts
  <2>8. m.at \in 1 .. Len(m.answer) /\ m.answer \in Answers[p]
    BY <2>7 DEF Coming, OfCommand
  <2>9. PICK l \in Nat : l = Len(m.answer) /\ DOMAIN m.answer = 1 .. l
    BY <1>3, <2>8, AnswerLength
  <2>10. PICK k \in 1 .. l : EndsAt(p, m.answer, k)
    BY <1>3, <2>8, <2>9 DEF Regular
  <2>11. m.answer[k] \in CmdStop[p] /\ m.at < k
    <3>1. m.answer[k] \in CmdStop[p]
      BY <2>10 DEF EndsAt
    <3>2. SUFFICES ASSUME ~(m.at < k) PROVE FALSE
      BY <3>1
    <3>3. m.answer[m.at] \notin CmdStart[p]
      BY <2>8, <2>9, <2>10, <3>2 DEF EndsAt
    <3> QED BY <2>7, <3>3 DEF Numeric
  <2>12. k \in m.at + 1 .. Len(m.answer)
    BY <2>8, <2>9, <2>10, <2>11
  <2>13. c = m /\ m.target = r.string
    BY <2>7 DEF Leads
  <2>14. Amid(y, c)
    BY <1>3, <2>7, <2>11, <2>12, <2>13 DEF Amid
  <2> QED BY <1>1, <2>4, <2>5, <2>7, <2>14
<1> QED BY <1>6, <1>7

\* What a message leaves of the redirections with a string.
LEMMA StringsHandled ==
    ASSUME Typed, Numbered, Regular, Distinct, ~recounts, NEW b \in Msg, Strings(b), NEW m, Coming(m),
           NEW c, Leads(b, m, c), NEW x, x = Message(redirects, m)
    PROVE  StringsBy(x.redirects, c) /\ \A y \in x.reports : Stringed(y.redirect)
<1>a. PICK L, over, R : L = x.redirects /\ over = Overs(redirects, m) /\ R = Reached(redirects, m)
  OBVIOUS
<1>0. m \in Msg
  BY DEF Coming
<1>b. Handled(redirects, m, x)
  BY <1>0, RedirectsHandled
<1>1. /\ DOMAIN L = DOMAIN redirects \ over
      /\ \A n \in DOMAIN redirects \ over :
            L[n] = IF n \in R THEN One(redirects[n], m).redirect ELSE redirects[n]
  BY <1>a, <1>b DEF Handled
<1>2. /\ \A n \in R : n \in DOMAIN redirects /\ \A k \in DOMAIN redirects : k < n => ~One(redirects[k], m).taken
      /\ \A n \in over : n \in R /\ One(redirects[n], m).over
      /\ \A n \in R : n \notin over => ~One(redirects[n], m).over
  BY <1>a DEF Reached, Overs
<1>3. ASSUME NEW n \in DOMAIN redirects, redirects[n].string # None
      PROVE  /\ Stringed(redirects[n]) /\ Stringed(One(redirects[n], m).redirect)
             /\ Middle(redirects[n]) => Amid(redirects[n], b) /\ Alone(redirects, n) /\ n \in R
  <2>1. PICK r : r = redirects[n]
    OBVIOUS
  <2>2. r \in Redirect /\ Placed(n, r)
    BY <2>1, ListMember
  <2>3. Stringed(r) /\ (Middle(r) => Amid(r, b) /\ Alone(redirects, n))
    BY <1>3, <2>1 DEF Strings, StringsBy
  <2>4. Stringed(One(r, m).redirect)
    BY <1>3, <2>1, <2>2, <2>3, StringLines
  <2>5. Middle(r) => n \in R
    <3>1. SUFFICES ASSUME Middle(r), NEW k \in DOMAIN redirects, k < n
                   PROVE  ~One(redirects[k], m).taken
      BY <1>a DEF Reached
    <3>2. PICK s : s = redirects[k]
      OBVIOUS
    <3>3. s \in Redirect /\ Placed(k, s)
      BY <3>2, ListMember
    <3>4. ~Middle(s) /\ (s.pattern # r.pattern \/ s.string \notin {None, r.string})
      BY <2>1, <2>3, <3>1, <3>2 DEF Alone
    <3>5. m # Noise => m.target = r.string /\ commands[m.of].pattern = r.pattern
      BY <2>3, <3>1, AmidNext
    <3>6. ~One(s, m).taken
      BY <3>3, <3>4, <3>5, Quiet
    <3> QED BY <3>2, <3>6
  <2> QED BY <2>1, <2>3, <2>4, <2>5
<1>4. ASSUME NEW n \in DOMAIN L, L[n].string # None
      PROVE  Stringed(L[n]) /\ (Middle(L[n]) => Amid(L[n], c) /\ Alone(L, n))
  <2>1. PICK r, o : r = redirects[n] /\ o = One(r, m)
    OBVIOUS
  <2>2. n \in DOMAIN redirects /\ n \notin over
    BY <1>1, <1>4
  <2>3. /\ r \in Redirect /\ Placed(n, r) /\ n \in Nat
    BY <2>1, <2>2, ListMember
  <2>4. CASE n \notin R
    <3>1. L[n] = r
      BY <1>1, <2>1, <2>2, <2>4
    <3> QED BY <1>3, <1>4, <2>1, <2>2, <2>4, <3>1
  <2>5. CASE n \in R
    <3>1. L[n] = o.redirect /\ ~o.over
      BY <1>1, <1>2, <2>1, <2>2, <2>5
    <3>2. o.redirect.string = r.string /\ o.redirect.pattern = r.pattern
      BY <1>0, <2>1, <2>3, OneOutput DEF Same
    <3>3. Stringed(L[n])
      BY <1>3, <1>4, <2>1, <2>2, <3>1, <3>2
    <3>4. SUFFICES ASSUME Middle(L[n]) PROVE Amid(L[n], c) /\ Alone(L, n)
      BY <3>3
    <3>5. Middle(r) => Amid(r, b) /\ Alone(redirects, n)
      BY <1>3, <1>4, <2>1, <2>2, <3>1, <3>2
    <3>6. /\ Amid(o.redirect, c) /\ r.started
          /\ Middle(r) \/ (m # Noise /\ Match(r, m, CmdStart[r.pattern]))
      BY <1>4, <2>1, <2>3, <3>1, <3>2, <3>4, <3>5, StringMiddle
    <3>7. ASSUME NEW k \in DOMAIN L, k < n
          PROVE  /\ ~Middle(L[k])
                 /\ L[k].pattern # L[n].pattern \/ L[k].string \notin {None, L[n].string}
      <4>1. PICK s, q : s = redirects[k] /\ q = One(s, m)
        OBVIOUS
      <4>2. k \in DOMAIN redirects /\ k \notin over
        BY <1>1, <3>7
      <4>3. s \in Redirect /\ Placed(k, s) /\ k \in Nat
        BY <4>1, <4>2, ListMember
      <4>4. k \in R
        <5>1. \A j \in DOMAIN redirects : j < k => j < n
          <6>1. \A j \in DOMAIN redirects : j \in Nat
            BY DEF Typed
          <6> QED BY <2>3, <3>7, <4>3, <6>1
        <5> QED BY <1>a, <1>2, <2>5, <4>2, <5>1 DEF Reached
      <4>5. ~q.taken
        BY <1>2, <2>5, <3>7, <4>1, <4>2
      <4>6. L[k] = q.redirect /\ ~q.over
        BY <1>1, <1>2, <4>1, <4>2, <4>4
      <4>7. s.started
        <5>1. n <= Queued /\ Queued \in Int
          BY <2>3, <3>6, Lengths DEF Placed
        <5>2. k <= Queued
          BY <2>3, <3>7, <4>3, <5>1
        <5> QED BY <4>3, <5>2 DEF Placed
      <4>8. ~Middle(s) /\ q.redirect = s /\ ~Match(s, m, CmdStart[s.pattern])
        BY <1>0, <4>1, <4>3, <4>5, <4>6, <4>7, NotTaken
      <4>9. s.pattern # r.pattern \/ s.string \notin {None, r.string}
        <5>1. CASE Middle(r)
          BY <2>1, <3>5, <3>7, <4>1, <4>2, <5>1 DEF Alone
        <5>2. CASE Match(r, m, CmdStart[r.pattern])
          <6>1. CmdStart[r.pattern] \in Cmds(r.pattern)
            BY DEF Cmds
          <6>2. Numeric(m) \in CmdStart[r.pattern] /\ r.string = m.target
            BY <1>4, <2>3, <3>1, <3>2, <5>2, <6>1, MatchFacts
          <6> QED BY <4>8, <6>2 DEF Match
        <5> QED BY <3>6, <5>1, <5>2
      <4> QED BY <3>1, <3>2, <4>6, <4>8, <4>9
    <3> QED BY <3>1, <3>6, <3>7 DEF Alone
  <2> QED BY <2>4, <2>5
<1>5. ASSUME NEW y \in x.reports PROVE Stringed(y.redirect)
  <2>1. PICK k \in Overs(redirects, m) : EndsWith(k, m, y)
    BY <1>0, <1>5, HandledReports
  <2>2. k \in DOMAIN redirects /\ y.redirect = One(redirects[k], m).redirect
        /\ y.redirect.string = redirects[k].string
    BY <2>1 DEF EndsWith, Same
  <2>3. CASE y.redirect.string # None
    BY <1>3, <2>2, <2>3
  <2>4. CASE y.redirect.string = None
    BY <2>4 DEF Stringed
  <2> QED BY <2>3, <2>4
<1> QED BY <1>a, <1>4, <1>5 DEF StringsBy

LEMMA KeptStrings ==
    ASSUME Typed, Typed', Kept, NEW L, NEW b, StringsBy(L, b)
    PROVE  StringsBy(L, b)'
<1>1. ASSUME NEW r, Amid(r, b) PROVE Amid(r, b)'
  <2>1. OfCommand(b) /\ OfCommand(b)' /\ b.of \in 1 .. Given
    BY <1>1, KeptPlaces, OfGiven DEF Amid
  <2>2. commands'[b.of] = commands[b.of]
    BY <2>1 DEF Kept
  <2> QED BY <1>1, <2>1, <2>2 DEF Amid
<1>2. ASSUME NEW n \in DOMAIN L, L[n].string # None
      PROVE  Stringed(L[n]) /\ (Middle(L[n]) => Amid(L[n], b)' /\ Alone(L, n))
  <2>1. PICK r : r = L[n]
    OBVIOUS
  <2>2. Stringed(r) /\ (Middle(r) => Amid(r, b) /\ Alone(L, n))
    BY <1>2, <2>1 DEF StringsBy
  <2>3. Middle(r) => Amid(r, b)'
    BY <1>1, <2>2
  <2> QED BY <2>1, <2>2, <2>3
<1> QED BY <1>2 DEF StringsBy, Stringed, Middle, Alone, Lines

\* The redirections of the list are as in the other, but for "started".
LEMMA AlikeStrings ==
    ASSUME NEW L, NEW b, StringsBy(L, b), NEW D, DOMAIN D \subseteq DOMAIN L,
           \A n \in DOMAIN D : /\ D[n].pattern = L[n].pattern /\ D[n].string = L[n].string
                               /\ D[n].cmd_start_received = L[n].cmd_start_received
                               /\ D[n].cmd_stop_received = L[n].cmd_stop_received
                               /\ D[n].output = L[n].output
    PROVE  StringsBy(D, b)
<1>1. SUFFICES ASSUME NEW n \in DOMAIN D, D[n].string # None
               PROVE  Stringed(D[n]) /\ (Middle(D[n]) => Amid(D[n], b) /\ Alone(D, n))
  BY DEF StringsBy
<1>2. n \in DOMAIN L /\ L[n].string # None
  BY <1>1
<1>3. Stringed(L[n]) /\ (Middle(L[n]) => Amid(L[n], b) /\ Alone(L, n))
  BY <1>2 DEF StringsBy
<1>4. Stringed(D[n])
  BY <1>1, <1>3 DEF Stringed, Lines
<1>5. Middle(D[n]) => Middle(L[n])
  BY <1>1 DEF Middle
<1>6. Amid(L[n], b) => Amid(D[n], b)
  BY <1>1 DEF Amid
<1>7. Alone(L, n) => Alone(D, n)
  BY <1>1 DEF Alone, Middle
<1> QED BY <1>3, <1>4, <1>5, <1>6, <1>7

LEMMA SendStrings ==
    ASSUME Typed, Typed', Numbered, Send, Kept, NEW b, Strings(b)
    PROVE  Strings(b)'
<1>1. PICK L, D : L = redirects /\ D = redirects'
  OBVIOUS
<1>2. /\ DOMAIN D = DOMAIN L
      /\ \A n \in DOMAIN D : /\ D[n].pattern = L[n].pattern /\ D[n].string = L[n].string
                             /\ D[n].cmd_start_received = L[n].cmd_start_received
                             /\ D[n].cmd_stop_received = L[n].cmd_stop_received
                             /\ D[n].output = L[n].output
  BY <1>1, SendFacts
<1>3. StringsBy(L, b)
  BY <1>1 DEF Strings
<1>4. StringsBy(D, b)
  BY <1>2, <1>3, AlikeStrings
<1>5. StringsBy(D, b)'
  BY <1>4, KeptStrings
<1> QED BY <1>1, <1>5 DEF Strings

LEMMA FewerStrings ==
    ASSUME Typed, Typed', Kept, NEW b, Strings(b), DOMAIN redirects' \subseteq DOMAIN redirects,
           \A n \in DOMAIN redirects' : redirects'[n] = redirects[n]
    PROVE  Strings(b)'
<1>1. PICK L, D : L = redirects /\ D = redirects'
  OBVIOUS
<1>2. StringsBy(L, b)
  BY <1>1 DEF Strings
<1>3. DOMAIN D \subseteq DOMAIN L /\ \A n \in DOMAIN D : D[n] = L[n]
  BY <1>1
<1>4. StringsBy(D, b)
  BY <1>2, <1>3, AlikeStrings
<1>5. StringsBy(D, b)'
  BY <1>4, KeptStrings
<1> QED BY <1>1, <1>5 DEF Strings

LEMMA AskStrings ==
    ASSUME Typed, Typed', Numbered, NEW p \in Pattern, NEW t \in Target, NEW s \in {None, t},
           NEW count \in 1 .. 2, Ask(p, t, s, count), NEW b, Strings(b)
    PROVE  Strings(b)'
<1>1. PICK n, r : n = Given + 1 /\ r = NewRedirect(n, p, s, count)
  OBVIOUS
<1>2. /\ AskedFor(n, r, count) /\ r.output = <<>> /\ ~r.cmd_start_received /\ ~r.cmd_stop_received
  BY <1>1, AskFacts
<1>3. PICK L, D : L = redirects /\ D = redirects'
  OBVIOUS
<1>4. /\ DOMAIN D = DOMAIN L \cup {n} /\ D[n] = r
      /\ \A k \in DOMAIN L : D[k] = L[k]
  BY <1>2, <1>3 DEF AskedFor
<1>5. \A k \in DOMAIN L : k < n /\ k \in Nat
  <2>1. DOMAIN L \subseteq 1 .. Given /\ Given \in Nat
    BY <1>3, ListGiven
  <2> QED BY <1>1, <2>1
<1>6. n \in Nat
  BY <1>2 DEF AskedFor
<1>7. StringsBy(L, b)
  BY <1>3 DEF Strings
<1>8. ASSUME NEW k \in DOMAIN D, D[k].string # None
      PROVE  Stringed(D[k]) /\ (Middle(D[k]) => Amid(D[k], b) /\ Alone(D, k))
  <2>1. CASE k = n
    <3>1. Lines(r) = {}
      BY <1>2 DEF Lines
    <3>2. Stringed(r) /\ ~Middle(r)
      BY <1>2, <3>1 DEF Stringed, Middle
    <3> QED BY <1>4, <2>1, <3>2
  <2>2. CASE k # n
    <3>1. k \in DOMAIN L /\ D[k] = L[k]
      BY <1>4, <1>8, <2>2
    <3>2. Stringed(L[k]) /\ (Middle(L[k]) => Amid(L[k], b) /\ Alone(L, k))
      BY <1>7, <1>8, <3>1 DEF StringsBy
    <3>3. \A j \in DOMAIN D : j < k => j \in DOMAIN L /\ D[j] = L[j]
      BY <1>4, <1>5, <1>6, <3>1
    <3>4. Alone(L, k) => Alone(D, k)
      BY <3>1, <3>3 DEF Alone
    <3> QED BY <3>1, <3>2, <3>4
  <2> QED BY <2>1, <2>2
<1>9. StringsBy(D, b)
  BY <1>8 DEF StringsBy
<1>10. StringsBy(D, b)'
  BY <1>9, AskKept, KeptStrings
<1> QED BY <1>3, <1>10 DEF Strings

-----------------------------------------------------------------------------
(* The invariant of the answers.                                           *)

\* After b, the redirections have what they should have.
Followed(b) ==
    /\ Regular /\ orderly /\ ~recounts => Answered(b)
    /\ Regular /\ Distinct /\ ~recounts => Strings(b)

Linked == connected => \E p : Stream(p) /\ Followed(p[0])

\* and they had it when they ended.
Told ==
    /\ Regular /\ orderly /\ ~recounts => \A x \in reports : Owned(x.redirect)
    /\ Regular /\ Distinct /\ ~recounts => \A x \in reports : Stringed(x.redirect)

\* What the redirections rely on stays so, or was not so already.
NoBetter == (orderly' => orderly) /\ (~recounts' => ~recounts)

LEMMA SameTold ==
    ASSUME Told, NoBetter, reports' = reports
    PROVE  Told'
BY DEF Told, NoBetter

LEMMA SameKept ==
    ASSUME Typed, UNCHANGED <<commands, outqueue>>
    PROVE  Kept /\ Queued' = Queued /\ Given' = Given
<1>1. Given' = Given /\ Queued' = Queued /\ Queued \in Int
  BY Lengths DEF Given, Queued
<1> QED BY <1>1 DEF Kept

\* The commands and the redirections are the same.
LEMMA SameFollowed ==
    ASSUME Typed, Typed', UNCHANGED <<commands, outqueue, redirects>>, NoBetter, NEW b, Followed(b)
    PROVE  Followed(b)'
<1>1. Answered(b) => Answered(b)'
  BY SameAnswered
<1>2. Kept
  BY SameKept
<1>3. Strings(b) => Strings(b)'
  BY <1>2, FewerStrings
<1> QED BY <1>1, <1>3 DEF Followed, NoBetter

\* The messages on their way, too.
LEMMA SameLinked ==
    ASSUME Typed, Typed', Linked, Told, UNCHANGED <<commands, outqueue, redirects, reply, sent, reports>>,
           NoBetter, connected' => connected, Total' = Total, \A k \in 1 .. Total : At(k)' = At(k)
    PROVE  Linked' /\ Told'
<1>1. Told'
  BY SameTold
<1>2. ASSUME connected' PROVE \E p : Stream(p)' /\ Followed(p[0])'
  <2>1. PICK p : Stream(p) /\ Followed(p[0])
    BY <1>2 DEF Linked
  <2>2. Kept /\ Queued' = Queued
    BY SameKept
  <2>3. Len(sent) \in Nat /\ Queued \in Int
    BY Lengths
  <2>4. Queued' - Len(sent') = Queued - Len(sent)
    BY <2>2, <2>3
  <2>5. Stream(p)'
    BY <2>1, <2>2, <2>4, SameStream
  <2>6. PICK b : b = p[0]
    OBVIOUS
  <2>7. Followed(b)'
    BY <2>1, <2>6, SameFollowed
  <2> QED BY <2>5, <2>6, <2>7
<1> QED BY <1>1, <1>2 DEF Linked

LEMMA AddBufferLinked ==
    ASSUME Safe, Safe', Linked, Told, AddBuffer
    PROVE  Linked' /\ Told'
<1>1. UNCHANGED <<connected, commands, outqueue, redirects, reply, sent, reports, orderly, recounts>>
  BY DEF AddBuffer, asked, results
<1>2. Total' = Total /\ \A k \in 1 .. Total : At(k)' = At(k)
  BY AddBufferTotal DEF Safe
<1> QED BY <1>1, <1>2, SameLinked DEF Safe, NoBetter

LEMMA RecvEndsLinked ==
    ASSUME Safe, Safe', Linked, Told, NEW lost \in BOOLEAN, RecvEnds(lost)
    PROVE  Linked' /\ Told'
<1>1. UNCHANGED <<irc_recv_msgq, commands, orderly, recounts, reports>>
  BY DEF RecvEnds, asked, results
<1>2. CASE lost
  <2>1. connected' = FALSE
    BY <1>2 DEF RecvEnds, Disconnected
  <2> QED BY <1>1, <2>1, SameTold DEF Linked, NoBetter
<1>3. CASE ~lost
  <2>1. UNCHANGED <<connected, redirects, outqueue, sent, reply, wire>>
    BY <1>3 DEF RecvEnds, server
  <2> QED BY <1>1, <2>1, SameTotal, SameLinked DEF Safe, NoBetter
<1> QED BY <1>2, <1>3

LEMMA ConnectLinked ==
    ASSUME Safe, Safe', Told, Connect
    PROVE  Linked' /\ Told'
<1>1. UNCHANGED <<commands, outqueue, redirects, reports, orderly, recounts>> /\ ~connected
  BY DEF Connect, asked, results
<1>2. DOMAIN redirects = {}
  BY <1>1 DEF Safe, Off
<1>3. PICK q : Stream(q)' /\ q[0].of = Given /\ Full(q[0]) /\ Place(q[0])'
  BY ConnectStream DEF Safe
<1>4. PICK b, L : b = q[0] /\ L = redirects
  OBVIOUS
<1>5. AnsweredBy(L, b) /\ StringsBy(L, b)
  <2>1. \A k \in 1 .. Given : ~(k > b.of \/ (k = b.of /\ ~Full(b)))
    BY <1>3, <1>4, Lengths DEF Safe
  <2> QED BY <1>2, <1>4, <2>1 DEF AnsweredBy, StringsBy
<1>6. Answered(b) /\ Strings(b)
  BY <1>4, <1>5 DEF Answered, Strings
<1>7. Followed(b)'
  BY <1>1, <1>6, SameFollowed DEF Safe, Followed, NoBetter
<1>8. Told'
  BY <1>1, SameTold DEF NoBetter
<1> QED BY <1>3, <1>4, <1>7, <1>8 DEF Linked

LEMMA ServerLinked ==
    ASSUME Safe, Safe', Linked, Told, ServerAnswers \/ ServerSends \/ ServerNoise
    PROVE  Linked' /\ Told'
<1>1. UNCHANGED <<connected, commands, outqueue, redirects, reports, orderly, recounts>>
  BY DEF ServerAnswers, ServerSends, ServerNoise, client, asked, results
<1>2. Told'
  BY <1>1, SameTold DEF NoBetter
<1>3. ASSUME connected' PROVE \E q : Stream(q)' /\ Followed(q[0])'
  <2>1. PICK p : Stream(p) /\ Followed(p[0])
    BY <1>1, <1>3 DEF Linked
  <2>2. PICK q : Stream(q)' /\ q[0] = p[0]
    BY <2>1, AnswersStream, SendsStream, NoiseStream DEF Safe
  <2>3. PICK b : b = p[0]
    OBVIOUS
  <2>4. Followed(b)'
    BY <1>1, <2>1, <2>3, SameFollowed DEF Safe, NoBetter
  <2> QED BY <2>2, <2>3, <2>4
<1> QED BY <1>2, <1>3 DEF Linked

-----------------------------------------------------------------------------
(* A message is handled.                                                   *)

LEMMA StreamHead ==
    ASSUME Typed, NEW p, Stream(p), irc_recv_msgq # <<>>, NEW m, m = Last(Head(irc_recv_msgq)).msg
    PROVE  Place(p[0]) /\ Place(p[1]) /\ Leads(p[0], m, p[1]) /\ m \in Msg
<1>1. Total \in Nat /\ Len(irc_recv_msgq) \in Nat /\ Len(wire) \in Nat
  BY TotalFacts
<1>2. Len(irc_recv_msgq) >= 1 /\ Head(irc_recv_msgq) = irc_recv_msgq[1]
  BY Members DEF Typed
<1>3. Total >= 1 /\ At(1) = m
  BY <1>1, <1>2 DEF Total, At
<1>4. 0 \in 0 .. Total /\ 1 \in 0 .. Total /\ 1 \in 1 .. Total
  BY <1>1, <1>3
<1>5. Place(p[0]) /\ Place(p[1]) /\ At(1) \in Msg /\ Leads(p[1 - 1], At(1), p[1])
  BY <1>4 DEF Stream, Chain
<1>6. 1 - 1 = 0
  OBVIOUS
<1> QED BY <1>3, <1>5, <1>6

NoneWaits == \A n \in DOMAIN redirects : ~redirects[n].cmd_stop_received

LEMMA HeadAnswered ==
    ASSUME Typed, Numbered, Regular, ~recounts, NEW b, NEW c, NEW m \in Msg, Place(b), Place(c), Leads(b, m, c),
           Answered(b), m = Noise => NoneWaits, NEW x, x = Message(redirects, m)
    PROVE  AnsweredBy(x.redirects, c) /\ \A y \in x.reports : Owned(y.redirect)
<1>1. CASE m = Noise
  <2>1. b \in Msg /\ c = b
    BY <1>1 DEF Leads, Place
  <2>2. \A n \in DOMAIN redirects : ~redirects[n].cmd_stop_received
    BY <1>1 DEF NoneWaits
  <2>3. AnsweredBy(x.redirects, b) /\ x.reports = {}
    BY <1>1, <2>1, <2>2, NoiseHandled
  <2> QED BY <2>1, <2>3
<1>2. CASE m # Noise
  <2>1. c = m /\ Follows(b, m)
    BY <1>2 DEF Leads
  <2>2. AnsweredBy(x.redirects, m) /\ \A y \in x.reports : Owned(y.redirect)
    BY <2>1, CommandHandled
  <2> QED BY <2>1, <2>2
<1> QED BY <1>1, <1>2

LEMMA HeadStrings ==
    ASSUME Typed, Numbered, Regular, Distinct, ~recounts, NEW b, NEW c, NEW m \in Msg, Place(b), Place(c),
           Leads(b, m, c), Strings(b), NEW x, x = Message(redirects, m)
    PROVE  StringsBy(x.redirects, c) /\ \A y \in x.reports : Stringed(y.redirect)
<1>1. b \in Msg
  BY DEF Place
<1>2. Coming(m)
  <2>1. CASE m # Noise
    BY <2>1 DEF Leads, Follows, Place, Coming
  <2> QED BY <2>1 DEF Coming
<1> QED BY <1>1, <1>2, StringsHandled

LEMMA FlushLinked ==
    ASSUME Safe, Safe', Linked, Told, NEW disconnects \in BOOLEAN, Flush(disconnects)
    PROVE  Linked' /\ Told'
<1>1. PICK m : m = Last(Head(irc_recv_msgq)).msg
  OBVIOUS
<1>2. PICK x : x = Message(redirects, m)
  OBVIOUS
<1>3. /\ irc_recv_msgq # <<>> /\ irc_recv_msgq' = Tail(irc_recv_msgq)
      /\ UNCHANGED <<commands, recounts>>
      /\ orderly' => orderly /\ (m = Noise => NoneWaits)
  BY <1>1 DEF Flush, NoneWaits
<1>4. NoBetter
  BY <1>3 DEF NoBetter
<1>5. CASE ~connected
  <2>1. ~connected' /\ UNCHANGED reports
    BY <1>5 DEF Flush, results
  <2> QED BY <1>4, <2>1, SameTold DEF Linked
<1>6. CASE connected
  <2>1. PICK p : Stream(p) /\ Followed(p[0])
    BY <1>6 DEF Linked
  <2>2. PICK b, c : b = p[0] /\ c = p[1]
    OBVIOUS
  <2>3. Place(b) /\ Place(c) /\ Leads(b, m, c) /\ m \in Msg
    BY <1>1, <1>3, <2>1, <2>2, StreamHead DEF Safe
  <2>4. Regular /\ orderly' /\ ~recounts' =>
            AnsweredBy(x.redirects, c) /\ \A y \in x.reports : Owned(y.redirect)
    <3>1. SUFFICES ASSUME Regular, orderly', ~recounts'
                   PROVE  AnsweredBy(x.redirects, c) /\ \A y \in x.reports : Owned(y.redirect)
      OBVIOUS
    <3>2. orderly /\ (m = Noise => NoneWaits) /\ ~recounts
      BY <1>3, <3>1
    <3>3. Answered(b)
      BY <2>1, <2>2, <3>1, <3>2 DEF Followed
    <3> QED BY <1>2, <2>3, <3>1, <3>2, <3>3, HeadAnswered DEF Safe
  <2>5. Regular /\ Distinct /\ ~recounts' =>
            StringsBy(x.redirects, c) /\ \A y \in x.reports : Stringed(y.redirect)
    <3>1. SUFFICES ASSUME Regular, Distinct, ~recounts'
                   PROVE  StringsBy(x.redirects, c) /\ \A y \in x.reports : Stringed(y.redirect)
      OBVIOUS
    <3>2. ~recounts
      BY <1>3, <3>1
    <3>3. Strings(b)
      BY <2>1, <2>2, <3>1, <3>2 DEF Followed
    <3> QED BY <1>2, <2>3, <3>1, <3>2, <3>3, HeadStrings DEF Safe
  <2>6. reports' = reports \cup x.reports
    BY <1>1, <1>2, <1>6 DEF Flush
  <2>7. Told'
    BY <1>4, <2>4, <2>5, <2>6 DEF Told, NoBetter
  <2>8. CASE disconnects /\ ~x.taken
    <3>1. connected' = FALSE
      BY <1>1, <1>2, <1>6, <2>8 DEF Flush, Disconnected
    <3> QED BY <2>7, <3>1 DEF Linked
  <2>9. CASE ~(disconnects /\ ~x.taken)
    <3>1. redirects' = x.redirects /\ UNCHANGED <<connected, outqueue, sent, reply, wire>>
      BY <1>1, <1>2, <1>6, <2>9 DEF Flush, server
    <3>2. Kept /\ Queued' = Queued /\ Given' = Given
      BY <1>3, <3>1, SameKept DEF Safe
    <3>3. PICK q : Stream(q)' /\ q[0] = c
      BY <1>1, <1>3, <2>1, <2>2, <3>1, <3>2, FlushStream DEF Safe
    <3>4. PICK L : L = x.redirects
      OBVIOUS
    <3>5. AnsweredBy(L, c) => AnsweredBy(L, c)'
      BY <3>2, KeptAnswered DEF Safe
    <3>6. StringsBy(L, c) => StringsBy(L, c)'
      BY <3>2, KeptStrings DEF Safe
    <3>7. redirects' = L
      BY <3>1, <3>4
    <3>8. AnsweredBy(L, c) => Answered(c)'
      BY <3>5, <3>7 DEF Answered
    <3>9. StringsBy(L, c) => Strings(c)'
      BY <3>6, <3>7 DEF Strings
    <3>10. Followed(c)'
      BY <2>4, <2>5, <3>4, <3>8, <3>9 DEF Followed
    <3> QED BY <2>7, <3>3, <3>10 DEF Linked
  <2> QED BY <2>8, <2>9
<1> QED BY <1>5, <1>6

-----------------------------------------------------------------------------
(* Commands.                                                               *)

\* A step that takes nothing from the wire, nor adds to it.
LEMMA CommandLinked ==
    ASSUME Safe, Safe', Linked, Told, Kept, Queued' - Len(sent') = Queued - Len(sent), NoBetter,
           UNCHANGED <<connected, irc_recv_msgq, wire, reply, reports>>,
           \A b : Place(b) /\ Followed(b) => Followed(b)'
    PROVE  Linked' /\ Told'
<1>1. Told'
  BY SameTold
<1>2. ASSUME connected' PROVE \E p : Stream(p)' /\ Followed(p[0])'
  <2>1. PICK p : Stream(p) /\ Followed(p[0])
    BY <1>2 DEF Linked
  <2>2. Stream(p)'
    BY <2>1, SameTotal, SameStream DEF Safe
  <2>3. PICK b : b = p[0]
    OBVIOUS
  <2>4. 0 \in 0 .. Total
    BY TotalFacts DEF Safe
  <2>5. Place(b)
    BY <2>1, <2>3, <2>4 DEF Stream, Chain
  <2>6. Followed(b)'
    BY <2>1, <2>3, <2>5
  <2> QED BY <2>2, <2>3, <2>6
<1> QED BY <1>1, <1>2 DEF Linked

LEMMA TypeLinked ==
    ASSUME Safe, Safe', Linked, Told, NEW p \in Pattern, NEW t \in Target, Type(p, t)
    PROVE  Linked' /\ Told'
<1>1. /\ UNCHANGED <<connected, irc_recv_msgq, wire, reply, sent, reports, redirects, recounts>>
      /\ orderly' = FALSE
  BY DEF Type, server, results
<1>2. Queued' = Queued /\ \A k \in 1 .. Given : commands'[k] = commands[k]
  BY TypeNumbered DEF Safe
<1>3. Queued \in Int
  BY Lengths DEF Safe
<1>4. Kept
  BY <1>2, <1>3 DEF Kept
<1>5. \A b : Strings(b) => Strings(b)'
  BY <1>1, <1>4, FewerStrings DEF Safe
<1>6. \A b : Followed(b) => Followed(b)'
  BY <1>1, <1>5 DEF Followed
<1>7. Queued' - Len(sent') = Queued - Len(sent)
  BY <1>1, <1>2
<1> QED BY <1>1, <1>4, <1>6, <1>7, CommandLinked DEF NoBetter

LEMMA AskLinked ==
    ASSUME Safe, Safe', Linked, Told, NEW p \in Pattern, NEW t \in Target, NEW s \in {None, t},
           NEW count \in 1 .. 2, Ask(p, t, s, count)
    PROVE  Linked' /\ Told'
<1>1. /\ UNCHANGED <<connected, irc_recv_msgq, wire, reply, sent, reports, orderly>>
      /\ ~recounts' => ~recounts
  BY DEF Ask, server, results
<1>2. Kept /\ Queued' = Queued
  BY AskKept DEF Safe
<1>3. \A b : Strings(b) => Strings(b)'
  BY AskStrings DEF Safe
<1>4. \A b : Place(b) /\ Answered(b) => Answered(b)'
  BY AskAnswered DEF Safe
<1>5. \A b : Place(b) /\ Followed(b) => Followed(b)'
  BY <1>1, <1>3, <1>4 DEF Followed
<1>6. Queued' - Len(sent') = Queued - Len(sent)
  BY <1>1, <1>2
<1> QED BY <1>1, <1>2, <1>5, <1>6, CommandLinked DEF NoBetter

LEMMA SendLinked ==
    ASSUME Safe, Safe', Linked, Told, Send
    PROVE  Linked' /\ Told'
<1>1. UNCHANGED <<connected, irc_recv_msgq, wire, reply, reports, orderly, recounts>>
  BY DEF Send, asked, results
<1>2. Queued' = Queued + 1 /\ Len(sent') = Len(sent) + 1 /\ commands' = commands
  BY SendNumbered DEF Safe
<1>3. Queued \in Int /\ Len(sent) \in Nat
  BY Lengths DEF Safe
<1>4. Kept
  BY <1>2, <1>3 DEF Kept
<1>5. \A b : Strings(b) => Strings(b)'
  BY <1>4, SendStrings DEF Safe
<1>6. \A b : Answered(b) => Answered(b)'
  BY SendAnswered DEF Safe
<1>7. \A b : Followed(b) => Followed(b)'
  BY <1>1, <1>5, <1>6 DEF Followed
<1>8. Queued' - Len(sent') = Queued - Len(sent)
  BY <1>2, <1>3
<1> QED BY <1>1, <1>4, <1>7, <1>8, CommandLinked DEF NoBetter

\* A redirection that timed out had messages about its string only.
LEMMA TimeoutLinked ==
    ASSUME Safe, Safe', Linked, Told, NEW n \in DOMAIN redirects, Timeout(n)
    PROVE  Linked' /\ Told'
<1>1. /\ UNCHANGED <<connected, commands, outqueue, irc_recv_msgq, wire, reply, sent, recounts>>
      /\ orderly' = FALSE
  BY DEF Timeout, server
<1>2. Kept /\ Queued' = Queued
  BY <1>1, SameKept DEF Safe
<1>3. PICK r, x : r = redirects[n] /\ x = Report(Stop(r, TRUE).redirect, TRUE)
  OBVIOUS
<1>4. x.redirect = r
  BY <1>3, StopError
<1>5. reports' = reports \cup {x} /\ redirects' = [k \in DOMAIN redirects \ {n} |-> redirects[k]]
  BY <1>3 DEF Timeout
<1>6. connected
  BY DEF Safe, Off
<1>7. PICK p : Stream(p) /\ Followed(p[0])
  BY <1>6 DEF Linked
<1>8. PICK b : b = p[0]
  OBVIOUS
<1>9. Regular /\ Distinct /\ ~recounts => Stringed(r)
  <2>1. SUFFICES ASSUME Regular, Distinct, ~recounts PROVE Stringed(r)
    OBVIOUS
  <2>2. Strings(b)
    BY <1>7, <1>8, <2>1 DEF Followed
  <2>3. r.string # None => Stringed(r)
    BY <1>3, <2>2 DEF Strings, StringsBy
  <2> QED BY <2>3 DEF Stringed
<1>10. Told'
  <2>1. ASSUME Regular, Distinct, ~recounts' PROVE \A y \in reports' : Stringed(y.redirect)
    BY <1>1, <1>4, <1>5, <1>9, <2>1 DEF Told
  <2> QED BY <1>1, <2>1 DEF Told
<1>11. Followed(b)'
  <2>1. Strings(b) => Strings(b)'
    BY <1>2, <1>5, FewerStrings DEF Safe
  <2> QED BY <1>1, <1>7, <1>8, <2>1 DEF Followed
<1>12. Stream(p)'
  <2>1. Queued' - Len(sent') = Queued - Len(sent)
    BY <1>1, <1>2
  <2> QED BY <1>1, <1>2, <1>7, <2>1, SameTotal, SameStream DEF Safe
<1> QED BY <1>8, <1>10, <1>11, <1>12 DEF Linked

LEMMA InitLinked == Init => Linked /\ Told
<1>1. SUFFICES ASSUME Init PROVE Linked /\ Told
  OBVIOUS
<1>2. /\ irc_recv_msgq = <<>> /\ wire = <<>> /\ reply = <<>> /\ sent = <<>> /\ outqueue = <<>>
      /\ commands = <<>> /\ redirects = <<>> /\ reports = {}
  BY <1>1 DEF Init
<1>3. Given = 0 /\ Queued = 0 /\ Total = 0 /\ Len(sent) = 0
  BY <1>2 DEF Given, Queued, Total
<1>4. PICK a, t : a = <<"privmsg">> /\ t = None
  OBVIOUS
<1>5. PICK b : b = Line(0, a, 1, t)
  OBVIOUS
<1>6. a \in Sentence /\ Len(a) = 1
  BY <1>4 DEF Sentence
<1>7. b \in Msg /\ b.of = 0 /\ b.answer = a /\ b.at = 1
  BY <1>4, <1>5, <1>6, LineTyped
<1>8. Full(b)
  BY <1>6, <1>7 DEF Full
<1>9. Place(b)
  BY <1>3, <1>6, <1>7, <1>8 DEF Place
<1>10. PICK q : q = [k \in 0 .. 0 |-> b]
  OBVIOUS
<1>11. q \in [0 .. 0 -> Msg] /\ q[0] = b /\ \A k \in 0 .. 0 : q[k] = b
  BY <1>7, <1>10
<1>12. Chain(q)
  BY <1>3, <1>9, <1>11 DEF Chain
<1>13. ServerEnd(b)
  <2>1. b.of = Queued - Len(sent)
    BY <1>3, <1>7
  <2> QED BY <1>2, <1>8, <2>1 DEF ServerEnd
<1>14. Stream(q)
  BY <1>3, <1>11, <1>12, <1>13 DEF Stream
<1>15. Followed(b)
  <2>1. DOMAIN redirects = {}
    BY <1>2
  <2>2. Answered(b) /\ Strings(b)
    BY <1>3, <2>1 DEF Answered, AnsweredBy, Strings, StringsBy
  <2> QED BY <2>2 DEF Followed
<1> QED BY <1>2, <1>11, <1>14, <1>15 DEF Linked, Told

LEMMA NextLinked ==
    ASSUME Safe, Safe', Linked, Told, [Next]_vars
    PROVE  Linked' /\ Told'
<1>1. CASE UNCHANGED vars
  <2>1. UNCHANGED <<connected, commands, outqueue, redirects, irc_recv_msgq, wire, reply, sent, reports, orderly,
                    recounts>>
    BY <1>1 DEF vars, client, server, asked, results
  <2> QED BY <2>1, SameTotal, SameLinked DEF Safe, NoBetter
<1>2. CASE Client
  <2>1. CASE AddBuffer
    BY <2>1, AddBufferLinked
  <2>2. CASE \E lost \in BOOLEAN : RecvEnds(lost)
    BY <2>2, RecvEndsLinked
  <2>3. CASE \E disconnects \in BOOLEAN : Flush(disconnects)
    BY <2>3, FlushLinked
  <2>4. CASE \E p \in Pattern, t \in Target :
                \/ Type(p, t)
                \/ \E s \in {None, t}, count \in 1 .. 2 : Ask(p, t, s, count)
    BY <2>4, TypeLinked, AskLinked
  <2>5. CASE Send
    BY <2>5, SendLinked
  <2>6. CASE \E n \in DOMAIN redirects : Timeout(n)
    BY <2>6, TimeoutLinked
  <2>7. CASE Connect
    BY <2>7, ConnectLinked
  <2> QED BY <1>2, <2>1, <2>2, <2>3, <2>4, <2>5, <2>6, <2>7 DEF Client
<1>3. CASE ServerAnswers \/ ServerSends \/ ServerNoise
  BY <1>3, ServerLinked
<1> QED BY <1>1, <1>2, <1>3 DEF Next

\* What is on its way follows what was handled, the redirections have what they
\* should have of it, and those that ended had.
THEOREM AlwaysLinked == Spec => [](Safe /\ Linked /\ Told)
<1>1. Init => Safe /\ Linked /\ Told
  BY InitSafe, InitLinked
<1>2. (Safe /\ Linked /\ Told) /\ [Next]_vars => (Safe /\ Linked /\ Told)'
  BY NextSafe, NextLinked
<1> QED BY <1>1, <1>2, PTL DEF Spec

\* A redirection takes the messages of its own answers: with a string, about it
\* only; when every command is redirected and answered in time and in one go, of
\* its own commands only.
THEOREM AnswersAlwaysOwn ==
    ASSUME Regular, Distinct
    PROVE  Spec => []OwnAnswers
<1>1. Safe /\ Linked /\ Told => OwnAnswers
  <2>1. SUFFICES ASSUME Told PROVE OwnAnswers
    OBVIOUS
  <2>2. StringKeepsOut
    BY <2>1 DEF Told, Stringed, StringKeepsOut
  <2>3. AnswersAreOwn
    <3>1. SUFFICES ASSUME orderly, ~recounts, NEW x \in reports, NEW m \in Lines(x.redirect), m.of # 0
                   PROVE  m.of \in Ids(x.redirect)
      BY DEF AnswersAreOwn
    <3>2. PICK r : r = x.redirect
      OBVIOUS
    <3>3. Owned(r)
      BY <2>1, <3>1, <3>2 DEF Told
    <3>4. m.of \in r.id .. r.id + r.count - 1
      BY <3>1, <3>2, <3>3 DEF Owned, Upto
    <3> QED BY <3>2, <3>4 DEF Ids
  <2> QED BY <2>2, <2>3 DEF OwnAnswers
<1> QED BY <1>1, AlwaysLinked, PTL

\* A redirection that ends without an error has the answers to all its commands,
\* each up to the message that ends it at least, and ends once.
THEOREM AnswersAlwaysWhole ==
    ASSUME Regular
    PROVE  Spec => []AnswersWhole
<1>1. Safe /\ Linked /\ Told => AnswersWhole
  <2>1. SUFFICES ASSUME Safe, Told PROVE AnswersWhole
    OBVIOUS
  <2>2. AnswersComplete
    <3>1. SUFFICES ASSUME orderly, ~recounts, NEW r \in Finished, NEW n \in Ids(r)
                   PROVE  \E a \in Answers[r.pattern] : \E l \in 1 .. Len(a) :
                              Got(r, n, a, l) /\ \E j \in 1 .. l : a[j] \in CmdStop[r.pattern]
      BY DEF AnswersComplete
    <3>2. PICK x \in reports : r = x.redirect
      BY DEF Finished
    <3>3. Owned(r)
      BY <2>1, <3>1, <3>2 DEF Told
    <3> QED BY <3>1, <3>3 DEF Owned, Done
  <2>3. EndsOnce
    BY <2>1 DEF Safe, Reported, EndsOnce
  <2> QED BY <2>2, <2>3 DEF AnswersWhole
<1> QED BY <1>1, AlwaysLinked, PTL
=============================================================================
