------------------------- MODULE IrcOutqueueProofs -------------------------
(***************************************************************************)
(* Proofs about IrcOutqueue.                                               *)
(***************************************************************************)
EXTENDS IrcOutqueue, FiniteSetTheorems, SequenceTheorems, WellFoundedInduction, TLAPS

USE DEF None

Item       == [msg : Message, redirect : {None} \cup Message]
Redirect   == [id : Message, assigned : BOOLEAN, started : BOOLEAN, command : {None} \cup Message]
Frame      == [kind : Kind, msg : {None} \cup Message, prio : {None} \cup Priority,
               redirect : {None} \cup Message]
Sent       == [announced : Message, msg : Message]

-----------------------------------------------------------------------------
(* Sequences and numbers.                                                  *)

LEMMA AppendFacts ==
    ASSUME NEW S, NEW s \in Seq(S), NEW e \in S
    PROVE  /\ Append(s, e) \in Seq(S) /\ Len(Append(s, e)) = Len(s) + 1
           /\ \A i \in 1..Len(s) : Append(s, e)[i] = s[i]
           /\ Append(s, e)[Len(s) + 1] = e
OBVIOUS

LEMMA FrontFacts ==
    ASSUME NEW S, NEW s \in Seq(S), s # <<>>
    PROVE  /\ SubSeq(s, 1, Len(s) - 1) \in Seq(S)
           /\ Len(SubSeq(s, 1, Len(s) - 1)) = Len(s) - 1 /\ Len(s) \in Nat \ {0}
           /\ \A i \in 1..Len(s) - 1 : SubSeq(s, 1, Len(s) - 1)[i] = s[i]
<1>1. PICK n \in Nat : Len(s) = n + 1
  <2>1. Len(s) \in Nat /\ Len(s) # 0
    OBVIOUS
  <2>2. Len(s) - 1 \in Nat /\ Len(s) = (Len(s) - 1) + 1
    BY <2>1
  <2> QED BY <2>2
<1>2. \A i \in 1..n : s[i] \in S
  BY <1>1
<1>3. /\ SubSeq(s, 1, n) \in Seq(S)
      /\ Len(SubSeq(s, 1, n)) = IF 1 <= n THEN n - 1 + 1 ELSE 0
      /\ \A i \in 1 .. n - 1 + 1 : SubSeq(s, 1, n)[i] = s[1 + i - 1]
  BY <1>2, SubSeqProperties
<1> DEFINE f == SubSeq(s, 1, n)
<1>4. f \in Seq(S) /\ Len(f) = n /\ \A i \in 1..n : f[i] = s[i]
  <2> HIDE DEF f
  <2> QED BY <1>3 DEF f
<1>5. Len(s) - 1 = n
  BY <1>1
<1> QED BY <1>1, <1>4, <1>5

\* A function on 1..n is a sequence.
LEMMA FunctionIsSeq ==
    ASSUME NEW S, NEW n \in Nat, NEW f \in [1..n -> S]
    PROVE  f \in Seq(S) /\ Len(f) = n
<1>1. f \in Seq(S)
  BY SeqDef, Zenon
<1>2. DOMAIN f = 1..n
  OBVIOUS
<1> QED BY <1>1, <1>2

LEMMA TailFacts ==
    ASSUME NEW S, NEW s \in Seq(S), s # <<>>
    PROVE  /\ Tail(s) \in Seq(S) /\ Len(Tail(s)) = Len(s) - 1 /\ Len(s) \in Nat \ {0}
           /\ \A i \in 1..Len(Tail(s)) : Tail(s)[i] = s[i + 1]
           /\ Head(s) = s[1] /\ Head(s) \in S
OBVIOUS

LEMMA RemoveFacts ==
    ASSUME NEW S, NEW s \in Seq(S), NEW k \in 1..Len(s)
    PROVE  LET r == SubSeq(s, 1, k - 1) \o SubSeq(s, k + 1, Len(s))
           IN  /\ r \in Seq(S) /\ Len(r) = Len(s) - 1
               /\ \A i \in 1..Len(r) : r[i] = IF i < k THEN s[i] ELSE s[i + 1]
<1> DEFINE a == SubSeq(s, 1, k - 1)
           b == SubSeq(s, k + 1, Len(s))
<1>0. Len(s) \in Nat /\ \A i \in 1..Len(s) : s[i] \in S
  OBVIOUS
<1>1. a \in Seq(S) /\ Len(a) = k - 1 /\ \A i \in 1..Len(a) : a[i] = s[i]
  OBVIOUS
<1>2. b \in Seq(S) /\ Len(b) = Len(s) - k /\ \A i \in 1..Len(b) : b[i] = s[i + k]
  OBVIOUS
<1> HIDE DEF a, b
<1>3. (a \o b) \in Seq(S) /\ Len(a \o b) = Len(s) - 1
  <2>1. (a \o b) \in Seq(S) /\ Len(a \o b) = Len(a) + Len(b)
    BY <1>1, <1>2, ConcatProperties
  <2> QED BY <2>1, <1>0, <1>1, <1>2
<1>4. \A i \in 1..Len(a \o b) : (a \o b)[i] = IF i < k THEN s[i] ELSE s[i + 1]
  <2> TAKE i \in 1..Len(a \o b)
  <2>1. CASE i < k
    BY <1>1, <1>2, <1>3, <2>1
  <2>2. CASE ~(i < k)
    <3>1. (a \o b)[i] = b[i - Len(a)] /\ i - Len(a) \in 1..Len(b)
      BY <1>1, <1>2, <1>3, <2>2
    <3>2. b[i - Len(a)] = s[i - Len(a) + k]
      BY <1>2, <3>1
    <3> QED BY <1>1, <3>1, <3>2, <2>2
  <2> QED BY <2>1, <2>2
<1> QED BY <1>3, <1>4 DEF a, b

\* The least element of a set of numbers: "<" on Nat is well-founded.
LEMMA LeastNumber ==
    ASSUME NEW T \in SUBSET Nat, T # {}
    PROVE  \E x \in T : \A y \in T : x <= y
<1> DEFINE R == OpToRel(<, Nat)
<1>1. IsWellFoundedOn(R, Nat)
  BY NatLessThanWellFounded
<1>2. \A x, y \in Nat : y < x => <<y, x>> \in R
  BY DEF OpToRel
<1> HIDE DEF R
<1>3. PICK x \in T : \A y \in T : ~ (<<y, x>> \in R)
  BY <1>1, WFMin
<1>4. \A y \in T : x <= y
  <2> TAKE y \in T
  <2>1. ~ (y < x)
    BY <1>2, <1>3
  <2> QED BY <2>1
<1> QED BY <1>4

-----------------------------------------------------------------------------
(* Redirections.                                                           *)

\* irc_redirect_search_available gives a redirection of the list that is not
\* assigned, or none.
LEMMA AvailableFacts ==
    ASSUME NEW list \in Seq(Redirect)
    PROVE  \/ Available(list) = None
           \/ \E k \in 1..Len(list) : Available(list) = list[k].id /\ ~list[k].assigned
<1> DEFINE free == {i \in 1..Len(list) : ~list[i].assigned}
           Least(i) == \A j \in free : i <= j
           k == CHOOSE i \in free : Least(i)
<1>1. CASE free = {}
  BY <1>1 DEF Available
<1>2. CASE free # {}
  <2>1. free \in SUBSET Nat
    OBVIOUS
  <2>2. \E i \in free : Least(i)
    BY <1>2, <2>1, LeastNumber
  <2>3. k \in free
    <3> HIDE DEF free, Least
    <3> QED BY <2>2
  <2>4. Available(list) = list[k].id
    BY <1>2 DEF Available
  <2> HIDE DEF k
  <2> QED BY <2>3, <2>4
<1> QED BY <1>1, <1>2

LEMMA AvailableType ==
    ASSUME NEW list \in Seq(Redirect)
    PROVE  Available(list) \in {None} \cup Message
<1>1. \A k \in 1..Len(list) : list[k].id \in Message
  <2> TAKE k \in 1..Len(list)
  <2>1. list[k] \in Redirect
    OBVIOUS
  <2> QED BY <2>1 DEF Redirect
<1> QED BY <1>1, AvailableFacts

\* What assigning changes: the redirections of that number.
LEMMA AssignedFacts ==
    ASSUME NEW list \in Seq(Redirect), NEW r
    PROVE  /\ Assigned(list, r) \in Seq(Redirect) /\ Len(Assigned(list, r)) = Len(list)
           /\ \A i \in 1..Len(list) :
                 /\ list[i].id = r =>
                       Assigned(list, r)[i] = [list[i] EXCEPT !.assigned = TRUE]
                 /\ list[i].id # r => Assigned(list, r)[i] = list[i]
<1> DEFINE New(i) == IF list[i].id = r THEN [list[i] EXCEPT !.assigned = TRUE] ELSE list[i]
           s == [i \in 1..Len(list) |-> New(i)]
<1>1. Assigned(list, r) = s
  BY DEF Assigned, Changed
<1>2. \A i \in 1..Len(list) : New(i) \in Redirect
  <2> TAKE i \in 1..Len(list)
  <2>1. list[i] \in Redirect
    OBVIOUS
  <2> QED BY <2>1 DEF Redirect
<1>3. s \in Seq(Redirect) /\ Len(s) = Len(list)
  <2>1. s \in [1..Len(list) -> Redirect] /\ Len(list) \in Nat
    <3> HIDE DEF New
    <3> QED BY <1>2
  <2> HIDE DEF s
  <2> QED BY <2>1, FunctionIsSeq
<1> QED BY <1>1, <1>3

\* The same, field by field.
LEMMA AssignedFields ==
    ASSUME NEW list \in Seq(Redirect), NEW r
    PROVE  /\ Assigned(list, r) \in Seq(Redirect) /\ Len(Assigned(list, r)) = Len(list)
           /\ \A i \in 1..Len(list) :
                 /\ Assigned(list, r)[i].id = list[i].id
                 /\ Assigned(list, r)[i].started = list[i].started
                 /\ Assigned(list, r)[i].command = list[i].command
                 /\ list[i].id = r => Assigned(list, r)[i].assigned
                 /\ list[i].id # r => Assigned(list, r)[i].assigned = list[i].assigned
<1> DEFINE s == Assigned(list, r)
<1>1. /\ s \in Seq(Redirect) /\ Len(s) = Len(list)
      /\ \A i \in 1..Len(list) :
            /\ list[i].id = r => s[i] = [list[i] EXCEPT !.assigned = TRUE]
            /\ list[i].id # r => s[i] = list[i]
  BY AssignedFacts, Zenon
<1>2. \A i \in 1..Len(list) : list[i] \in Redirect
  OBVIOUS
<1> HIDE DEF s
<1>3. \A i \in 1..Len(list) :
                 /\ s[i].id = list[i].id
                 /\ s[i].started = list[i].started
                 /\ s[i].command = list[i].command
                 /\ list[i].id = r => s[i].assigned
                 /\ list[i].id # r => s[i].assigned = list[i].assigned
  <2> TAKE i \in 1..Len(list)
  <2>1. list[i] \in Redirect
    BY <1>2
  <2> QED BY <1>1, <2>1 DEF Redirect
<1> QED BY <1>1, <1>3 DEF s

LEMMA StartedFields ==
    ASSUME NEW list \in Seq(Redirect), NEW r, NEW m \in Message
    PROVE  /\ Started(list, r, m) \in Seq(Redirect) /\ Len(Started(list, r, m)) = Len(list)
           /\ \A i \in 1..Len(list) :
                 /\ Started(list, r, m)[i].id = list[i].id
                 /\ list[i].id = r => /\ Started(list, r, m)[i].assigned
                                      /\ Started(list, r, m)[i].started
                                      /\ Started(list, r, m)[i].command = m
                 /\ list[i].id # r => Started(list, r, m)[i] = list[i]
<1> DEFINE New(i) == IF list[i].id = r
                     THEN [list[i] EXCEPT !.assigned = TRUE, !.started = TRUE, !.command = m]
                     ELSE list[i]
           s == [i \in 1..Len(list) |-> New(i)]
<1>1. Started(list, r, m) = s
  BY DEF Started, Changed
<1>2. \A i \in 1..Len(list) :
         /\ New(i) \in Redirect
         /\ New(i).id = list[i].id
         /\ list[i].id = r => New(i).assigned /\ New(i).started /\ New(i).command = m
         /\ list[i].id # r => New(i) = list[i]
  <2> TAKE i \in 1..Len(list)
  <2>1. list[i] \in Redirect
    OBVIOUS
  <2> QED BY <2>1 DEF Redirect
<1>3. s \in Seq(Redirect) /\ Len(s) = Len(list) /\ \A i \in 1..Len(list) : s[i] = New(i)
  <2> HIDE DEF New
  <2>1. s \in [1..Len(list) -> Redirect] /\ Len(list) \in Nat
    BY <1>2
  <2>2. \A i \in 1..Len(list) : s[i] = New(i)
    OBVIOUS
  <2> HIDE DEF s
  <2> QED BY <2>1, <2>2, FunctionIsSeq
<1> HIDE DEF New, s
<1> QED BY <1>1, <1>2, <1>3

-----------------------------------------------------------------------------
(* Types.                                                                  *)

Typed ==
    /\ connected \in BOOLEAN /\ crashed \in BOOLEAN
    /\ outqueue \in [Priority -> Seq(Item)]
    /\ redirects \in Seq(Redirect)
    /\ buffer \in {None} \cup Message
    /\ since \in -1 .. Patience
    /\ elapsed \in [Priority -> 0 .. Patience]
    /\ stack \in Seq(Frame)
    /\ next \in 1 .. MaxMessages + 1
    /\ prio \in [Message -> {None} \cup Priority]
    /\ wire \in Seq(Sent)
    /\ gone \subseteq Message
    /\ connects \in 1 .. MaxConnects /\ backs \in 0 .. MaxBacks

\* What a frame says of the message it is about, with b in the buffer.
FrameOK(f, b) ==
    /\ f.kind = "stop" => f.redirect \in Message
    /\ f.kind # "stop" => f.msg \in Message
    /\ f.kind = "queue" => f.prio \in Priority
    /\ f.kind = "send" => b \in Message
FrameSound == \A i \in 1..Len(stack) : FrameOK(stack[i], buffer)

LEMMA TypedIsTypeOK == Typed <=> TypeOK
BY DEF Typed, TypeOK, Item, Redirect, Frame, Sent

LEMMA TypedIsTypeOKPrimed == Typed' <=> TypeOK'
BY DEF Typed, TypeOK, Item, Redirect, Frame, Sent

LEMMA Numbers ==
    /\ MaxMessages \in Nat /\ MaxConnects \in Nat \ {0} /\ MaxBacks \in Nat
    /\ AntiFlood \in [Priority -> Nat]
    /\ Patience \in Nat /\ \A p \in Priority : AntiFlood[p] <= Patience
    /\ Priority = {1, 2}
<1>1. Priority = {1, 2}
  BY DEF Priority
<1>2. AntiFlood[1] \in Nat /\ AntiFlood[2] \in Nat
  BY <1>1, OutqueueAssumption
<1> QED BY <1>1, <1>2, OutqueueAssumption DEF Patience

\* The frame on top, what is left without it, and with one more.
LEMMA TopFacts ==
    ASSUME Typed, stack # <<>>
    PROVE  /\ Len(stack) \in Nat \ {0} /\ Top = stack[Len(stack)] /\ Top \in Frame
           /\ Pop \in Seq(Frame) /\ Len(Pop) = Len(stack) - 1
           /\ \A i \in 1..Len(Pop) : Pop[i] = stack[i]
<1>1. stack \in Seq(Frame)
  BY DEF Typed
<1>2. Len(stack) \in Nat \ {0} /\ stack[Len(stack)] \in Frame
  BY <1>1
<1> QED BY <1>1, <1>2, FrontFacts DEF Top, Pop

LEMMA InFacts ==
    ASSUME NEW k, In(k)
    PROVE  stack # <<>> /\ Top.kind = k
BY DEF In

LEMMA FrameFields ==
    ASSUME NEW f \in Frame
    PROVE  /\ f.kind \in Kind /\ f.msg \in {None} \cup Message
           /\ f.prio \in {None} \cup Priority /\ f.redirect \in {None} \cup Message
BY DEF Frame

LEMMA FrameForType ==
    ASSUME NEW k \in Kind, NEW m \in {None} \cup Message, NEW p \in {None} \cup Priority,
           NEW r \in {None} \cup Message
    PROVE  /\ FrameFor(k, m, p, r) \in Frame
           /\ FrameFor(k, m, p, r).kind = k /\ FrameFor(k, m, p, r).msg = m
           /\ FrameFor(k, m, p, r).prio = p /\ FrameFor(k, m, p, r).redirect = r
BY DEF FrameFor, Frame

LEMMA TopSound ==
    ASSUME Typed, FrameSound, stack # <<>>
    PROVE  /\ Top.kind = "stop" => Top.redirect \in Message
           /\ Top.kind # "stop" => Top.msg \in Message
           /\ Top.kind = "queue" => Top.prio \in Priority
           /\ Top.kind = "send" => buffer \in Message
BY TopFacts DEF FrameSound, FrameOK

LEMMA CorrectedFacts ==
    ASSUME Typed
    PROVE  /\ Corrected \in 0 .. Patience
           /\ Corrected = since \/ (since = -1 /\ Corrected = 0)
BY Numbers DEF Typed, Corrected

LEMMA ToSocketType ==
    ASSUME Typed, NEW ok \in BOOLEAN, NEW msg \in Message, Top.msg \in Message,
           Top.prio \in {None} \cup Priority, ToSocket(ok, msg)
    PROVE  /\ wire' \in Seq(Sent) /\ gone' \subseteq Message
           /\ elapsed' \in [Priority -> 0 .. Patience]
<1> DEFINE e == [announced |-> Top.msg, msg |-> msg]
<1>1. e \in Sent
  BY DEF Sent
<1>2. wire \in Seq(Sent) /\ gone \subseteq Message /\ elapsed \in [Priority -> 0 .. Patience]
  BY DEF Typed
<1>3. wire' = IF ok THEN Append(wire, e) ELSE wire
  BY DEF ToSocket
<1>4. wire' \in Seq(Sent)
  <2> HIDE DEF e
  <2> QED BY <1>1, <1>2, <1>3, AppendFacts
<1>5. gone' \subseteq Message
  BY <1>2 DEF ToSocket
<1>6. elapsed' \in [Priority -> 0 .. Patience]
  BY <1>2, Numbers DEF ToSocket
<1> QED BY <1>4, <1>5, <1>6

LEMMA WithNewFacts ==
    ASSUME NEW list \in Seq(Redirect), NEW r \in Message
    PROVE  /\ WithNew(list, r) \in Seq(Redirect) /\ Len(WithNew(list, r)) = Len(list) + 1
           /\ \A i \in 1..Len(list) : WithNew(list, r)[i] = list[i]
           /\ WithNew(list, r)[Len(list) + 1] =
                 [id |-> r, assigned |-> FALSE, started |-> FALSE, command |-> None]
<1> DEFINE e == [id |-> r, assigned |-> FALSE, started |-> FALSE, command |-> None]
<1>1. e \in Redirect
  BY DEF Redirect
<1>2. WithNew(list, r) = Append(list, e)
  BY DEF WithNew
<1> HIDE DEF e
<1> QED BY <1>1, <1>2, AppendFacts DEF e

\* irc_redirect_free: the list without the redirection, and the queues with
\* no pointer to it.
LEMMA FreedFacts ==
    ASSUME Typed, NEW r \in Message, Known(r), Freed(r)
    PROVE  /\ redirects' \in Seq(Redirect)
           /\ \E k \in 1..Len(redirects) :
                 /\ redirects[k].id = r
                 /\ Len(redirects') = Len(redirects) - 1
                 /\ \A i \in 1..Len(redirects') :
                       redirects'[i] = IF i < k THEN redirects[i] ELSE redirects[i + 1]
           /\ outqueue' \in [Priority -> Seq(Item)]
           /\ \A p \in Priority :
                 /\ Len(outqueue'[p]) = Len(outqueue[p])
                 /\ \A i \in 1..Len(outqueue[p]) :
                       /\ outqueue'[p][i].msg = outqueue[p][i].msg
                       /\ outqueue'[p][i].redirect =
                             IF outqueue[p][i].redirect = r THEN None ELSE outqueue[p][i].redirect
<1> DEFINE k == CHOOSE j \in 1..Len(redirects) : redirects[j].id = r
           New(p, j) == [outqueue[p][j] EXCEPT !.redirect = IF @ = r THEN None ELSE @]
           q(p) == [j \in 1..Len(outqueue[p]) |-> New(p, j)]
<1>1. k \in 1..Len(redirects) /\ redirects[k].id = r
  BY DEF Known
<1>2. redirects' = SubSeq(redirects, 1, k - 1) \o SubSeq(redirects, k + 1, Len(redirects))
  BY DEF Freed
<1>3. redirects \in Seq(Redirect) /\ outqueue \in [Priority -> Seq(Item)]
  BY DEF Typed
<1>4. /\ redirects' \in Seq(Redirect) /\ Len(redirects') = Len(redirects) - 1
      /\ \A i \in 1..Len(redirects') :
            redirects'[i] = IF i < k THEN redirects[i] ELSE redirects[i + 1]
  <2> HIDE DEF k
  <2> QED BY <1>1, <1>2, <1>3, RemoveFacts
<1>5. outqueue' = [p \in Priority |-> q(p)]
  BY DEF Freed
<1>6. \A p \in Priority : /\ q(p) \in Seq(Item) /\ Len(q(p)) = Len(outqueue[p])
                          /\ \A j \in 1..Len(outqueue[p]) : q(p)[j] = New(p, j)
  <2> TAKE p \in Priority
  <2>1. outqueue[p] \in Seq(Item)
    BY <1>3
  <2>2. \A j \in 1..Len(outqueue[p]) : New(p, j) \in Item
    <3> TAKE j \in 1..Len(outqueue[p])
    <3>1. outqueue[p][j] \in Item
      BY <2>1
    <3> QED BY <3>1 DEF Item
  <2> HIDE DEF New
  <2>3. q(p) \in [1..Len(outqueue[p]) -> Item] /\ Len(outqueue[p]) \in Nat
    BY <2>1, <2>2
  <2>4. \A j \in 1..Len(outqueue[p]) : q(p)[j] = New(p, j)
    OBVIOUS
  <2> HIDE DEF q
  <2> QED BY <2>3, <2>4, FunctionIsSeq
<1>7. \A p \in Priority : \A j \in 1..Len(outqueue[p]) :
         /\ New(p, j).msg = outqueue[p][j].msg
         /\ New(p, j).redirect =
               IF outqueue[p][j].redirect = r THEN None ELSE outqueue[p][j].redirect
  <2> TAKE p \in Priority
  <2> TAKE j \in 1..Len(outqueue[p])
  <2>1. outqueue[p] \in Seq(Item)
    BY <1>3
  <2>2. outqueue[p][j] \in Item
    BY <2>1
  <2> QED BY <2>2 DEF Item
<1> HIDE DEF k, New, q
<1>8. outqueue' \in [Priority -> Seq(Item)]
  BY <1>5, <1>6
<1>9. \A p \in Priority :
         /\ Len(outqueue'[p]) = Len(outqueue[p])
         /\ \A i \in 1..Len(outqueue[p]) :
               /\ outqueue'[p][i].msg = outqueue[p][i].msg
               /\ outqueue'[p][i].redirect =
                     IF outqueue[p][i].redirect = r THEN None ELSE outqueue[p][i].redirect
  BY <1>5, <1>6, <1>7
<1> QED BY <1>1, <1>4, <1>8, <1>9

\* Every step keeps the types: what it appends, pops, marks and counts is of
\* the kind it should be.
LEMMA TypedStep ==
    ASSUME Typed, FrameSound, Next
    PROVE  Typed'
<1>n. /\ outqueue \in [Priority -> Seq(Item)] /\ redirects \in Seq(Redirect)
      /\ stack \in Seq(Frame) /\ prio \in [Message -> {None} \cup Priority]
      /\ next \in 1 .. MaxMessages + 1 /\ gone \subseteq Message
      /\ \A p \in Priority : outqueue[p] \in Seq(Item)
  BY DEF Typed
<1>e. Empty \in [Priority -> Seq(Item)]
  BY DEF Empty
<1>k. Kind = {"modify", "send", "queue", "stop"}
  BY DEF Kind
<1>q. Queued \subseteq Message
  <2>1. \A p \in Priority : \A i \in 1..Len(outqueue[p]) : outqueue[p][i].msg \in Message
    <3> TAKE p \in Priority
    <3> TAKE i \in 1..Len(outqueue[p])
    <3>1. outqueue[p][i] \in Item
      BY <1>n
    <3> QED BY <3>1 DEF Item
  <2> QED BY <2>1 DEF Queued, Messages, ItemsOf
<1>1. ASSUME NEW p \in Priority \cup {None}, NEW redirected \in BOOLEAN, Send(p, redirected)
      PROVE  Typed'
  <2>1. next \in Message /\ next' = next + 1 /\ next' \in 1 .. MaxMessages + 1
    BY <1>1, Numbers DEF Send, Message
  <2>2. prio' \in [Message -> {None} \cup Priority]
    BY <1>1, <1>n DEF Send
  <2>3. redirects' \in Seq(Redirect)
    BY <1>1, <1>n, <2>1, WithNewFacts DEF Send
  <2>4. stack' \in Seq(Frame)
    <3>1. FrameFor("modify", next, p, None) \in Frame
      BY <2>1, <1>k, FrameForType
    <3> QED BY <1>1, <1>n, <3>1, AppendFacts DEF Send
  <2> QED BY <1>1, <2>1, <2>2, <2>3, <2>4 DEF Send, Typed
<1>2. ASSUME Dropped
      PROVE  Typed'
  <2>1. stack' \in Seq(Frame)
    BY <1>2, InFacts, TopFacts DEF Dropped
  <2>2. Top.msg \in Message
    BY <1>2, InFacts, TopSound DEF Dropped
  <2>3. gone' \subseteq Message
    BY <1>2, <1>n, <2>2 DEF Dropped
  <2> QED BY <1>2, <2>1, <2>3 DEF Dropped, queueVars, Typed
<1>3. ASSUME Modified
      PROVE  Typed'
  <2>1. /\ stack # <<>> /\ Top.kind = "modify" /\ Top.msg \in Message
        /\ Top \in Frame /\ Pop \in Seq(Frame)
    BY <1>3, InFacts, TopFacts, TopSound DEF Modified
  <2>2. since' \in -1 .. Patience /\ buffer' \in {None} \cup Message
    BY <1>3, <2>1, CorrectedFacts, Numbers DEF Modified
  <2>3. Top.prio \in {None} \cup Priority
    BY <2>1, FrameFields
  <2>4. Available(redirects) \in {None} \cup Message
    BY <1>n, AvailableType
  <2>5. CASE MustWait(Top.prio)
    <3>1. Top.prio \in Priority
      BY <2>3, <2>5 DEF MustWait
    <3>2. [msg |-> Top.msg, redirect |-> Available(redirects)] \in Item
      BY <2>1, <2>4 DEF Item
    <3>3. outqueue' = [outqueue EXCEPT ![Top.prio] =
                          Append(@, [msg |-> Top.msg, redirect |-> Available(redirects)])]
      BY <1>3, <2>5 DEF Modified
    <3>4. outqueue' \in [Priority -> Seq(Item)]
      BY <1>n, <3>1, <3>2, <3>3
    <3>5. redirects' \in Seq(Redirect)
      BY <1>3, <1>n, <2>5, AssignedFacts DEF Modified
    <3>6. stack' \in Seq(Frame)
      BY <1>3, <2>1, <2>5 DEF Modified
    <3> QED BY <1>3, <2>2, <3>4, <3>5, <3>6 DEF Modified, historyVars, Typed
  <2>6. CASE ~ MustWait(Top.prio)
    <3>1. FrameFor("send", Top.msg, Top.prio, Available(redirects)) \in Frame
      BY <2>1, <2>3, <2>4, <1>k, FrameForType
    <3>2. stack' \in Seq(Frame)
      BY <1>3, <2>1, <2>6, <3>1, AppendFacts DEF Modified
    <3> QED BY <1>3, <2>2, <2>6, <3>2 DEF Modified, historyVars, queueVars, Typed
  <2> QED BY <2>5, <2>6
<1>4. ASSUME SendEnds
      PROVE  Typed'
  <2>1. /\ stack # <<>> /\ Top.kind = "send" /\ Top.msg \in Message /\ buffer \in Message
        /\ Top \in Frame /\ Pop \in Seq(Frame)
    BY <1>4, InFacts, TopFacts, TopSound DEF SendEnds
  <2>2. PICK ok \in Results : /\ ToSocket(ok, buffer)
                              /\ since' = IF ok /\ Top.prio # None THEN 0 ELSE since
    BY <1>4 DEF SendEnds
  <2>3. ok \in BOOLEAN /\ Top.prio \in {None} \cup Priority
    BY <2>1, FrameFields DEF Results
  <2>4. /\ wire' \in Seq(Sent) /\ gone' \subseteq Message
        /\ elapsed' \in [Priority -> 0 .. Patience]
    BY <2>1, <2>2, <2>3, ToSocketType
  <2>5. since' \in -1 .. Patience
    BY <2>2, Numbers DEF Typed
  <2>6. redirects' \in Seq(Redirect)
    BY <1>4, <1>n, <2>1, StartedFields DEF SendEnds
  <2>7. crashed' \in BOOLEAN
    BY <1>4 DEF SendEnds, WritesFreed, Known
  <2>8. stack' \in Seq(Frame)
    BY <1>4, <2>1 DEF SendEnds
  <2> QED BY <1>4, <2>4, <2>5, <2>6, <2>7, <2>8 DEF SendEnds, Typed
<1>5. ASSUME OutqueueSent
      PROVE  Typed'
  <2>1. /\ stack # <<>> /\ Top.kind = "queue" /\ Top.msg \in Message /\ Top.prio \in Priority
        /\ Top \in Frame /\ Pop \in Seq(Frame)
    BY <1>5, InFacts, TopFacts, TopSound DEF OutqueueSent
  <2>2. CASE outqueue[Top.prio] = <<>>
    BY <1>5, <2>1, <2>2 DEF OutqueueSent, queueVars, historyVars, Typed
  <2>3. CASE outqueue[Top.prio] # <<>>
    <3> DEFINE item == Head(outqueue[Top.prio])
    <3>1. Leaves(item, 0)
      BY <1>5, <2>3 DEF OutqueueSent
    <3>2. item \in Item /\ Tail(outqueue[Top.prio]) \in Seq(Item)
      BY <1>n, <2>1, <2>3, TailFacts
    <3>3. item.msg \in Message
      BY <3>2 DEF Item
    <3> HIDE DEF item
    <3>4. PICK ok \in Results : ToSocket(ok, item.msg)
      BY <3>1 DEF Leaves
    <3>5. ok \in BOOLEAN
      BY DEF Results
    <3>6. /\ wire' \in Seq(Sent) /\ gone' \subseteq Message
          /\ elapsed' \in [Priority -> 0 .. Patience]
      BY <2>1, <3>3, <3>4, <3>5, ToSocketType
    <3>7. since' \in -1 .. Patience
      BY <3>1, Numbers DEF Leaves
    <3>8. redirects' \in Seq(Redirect)
      BY <1>n, <3>1, <3>3, StartedFields DEF Leaves
    <3>9. outqueue' \in [Priority -> Seq(Item)]
      BY <1>n, <2>1, <3>1, <3>2 DEF Leaves
    <3>10. crashed' \in BOOLEAN
      BY <3>1 DEF Leaves, WritesFreed, Known
    <3>11. stack' \in Seq(Frame)
      BY <2>1, <3>1 DEF Leaves
    <3> QED BY <3>1, <3>6, <3>7, <3>8, <3>9, <3>10, <3>11 DEF Leaves, Typed
  <2> QED BY <2>2, <2>3
<1>6. ASSUME RedirectStopped
      PROVE  Typed'
  <2>1. /\ stack # <<>> /\ Top.redirect \in Message /\ Pop \in Seq(Frame)
    BY <1>6, InFacts, TopFacts, TopSound DEF RedirectStopped
  <2>2. crashed' \in BOOLEAN /\ stack' \in Seq(Frame)
    BY <1>6, <2>1 DEF RedirectStopped, Known
  <2>3. outqueue' \in [Priority -> Seq(Item)] /\ redirects' \in Seq(Redirect)
    BY <1>6, <1>n, <2>1, FreedFacts DEF RedirectStopped, queueVars
  <2> QED BY <1>6, <2>2, <2>3 DEF RedirectStopped, historyVars, Typed
<1>7. CASE OutqueueIdle
  BY <1>7, CorrectedFacts, Numbers DEF OutqueueIdle, queueVars, historyVars, Typed
<1>8. ASSUME NEW p \in Priority, OutqueueSend(p)
      PROVE  Typed'
  <2>1. outqueue[p] \in Seq(Item) /\ outqueue[p] # <<>>
    BY <1>8, <1>n DEF OutqueueSend, Due
  <2>2. Head(outqueue[p]).msg \in Message
    <3>1. Head(outqueue[p]) \in Item
      BY <2>1, TailFacts
    <3> QED BY <3>1 DEF Item
  <2>3. FrameFor("queue", Head(outqueue[p]).msg, p, None) \in Frame
    BY <2>2, <1>k, FrameForType
  <2>4. stack' \in Seq(Frame)
    BY <1>8, <2>3 DEF OutqueueSend
  <2>5. since' \in -1 .. Patience
    BY <1>8, CorrectedFacts, Numbers DEF OutqueueSend
  <2> QED BY <1>8, <2>4, <2>5 DEF OutqueueSend, queueVars, historyVars, Typed
<1>9. ASSUME NEW i \in 1..Len(redirects), RedirectStop(i)
      PROVE  Typed'
  <2>1. redirects[i] \in Redirect
    BY <1>n
  <2>2. redirects[i].id \in Message
    BY <2>1 DEF Redirect
  <2>3. FrameFor("stop", None, None, redirects[i].id) \in Frame
    BY <2>2, <1>k, FrameForType
  <2>4. stack' \in Seq(Frame)
    BY <1>9, <2>3 DEF RedirectStop
  <2> QED BY <1>9, <2>4 DEF RedirectStop, queueVars, historyVars, Typed
<1>10. CASE Disconnect
  <2>1. redirects' \in Seq(Redirect) /\ gone' \subseteq Message
    BY <1>10, <1>n, <1>q DEF Disconnect
  <2> QED BY <1>10, <1>e, <2>1 DEF Disconnect, Typed
<1>11. CASE Connect
  <2>1. connects' \in 1 .. MaxConnects
    BY <1>11, Numbers DEF Connect, Typed
  <2>2. gone' \subseteq Message /\ wire' \in Seq(Sent)
    BY <1>11, <1>n, Numbers DEF Connect, Message
  <2> QED BY <1>11, <2>1, <2>2 DEF Connect, queueVars, Typed
<1>12. CASE DelOutq
  BY <1>12, <1>e, <1>n, <1>q DEF DelOutq, Typed
<1>13. CASE Tick
  <2>1. since' \in -1 .. Patience
    BY <1>13, Numbers DEF Tick, Typed
  <2>2. elapsed' \in [Priority -> 0 .. Patience]
    <3>1. elapsed' = [p \in Priority |->
                         IF elapsed[p] < Patience THEN elapsed[p] + 1 ELSE Patience]
      BY <1>13 DEF Tick
    <3>2. ASSUME NEW p \in Priority
          PROVE  (IF elapsed[p] < Patience THEN elapsed[p] + 1 ELSE Patience) \in 0 .. Patience
      <4>1. elapsed[p] \in 0 .. Patience /\ Patience \in Nat
        BY Numbers DEF Typed
      <4> QED BY <4>1
    <3> QED BY <3>1, <3>2
  <2> QED BY <1>13, <2>1, <2>2 DEF Tick, queueVars, Typed
<1>14. CASE ClockBack
  <2>1. since' \in -1 .. Patience
    BY <1>14, Numbers DEF ClockBack, Typed
  <2>2. backs' \in 0 .. MaxBacks
    BY <1>14, Numbers DEF ClockBack, Typed
  <2> QED BY <1>14, <2>1, <2>2 DEF ClockBack, queueVars, Typed
<1> QED BY <1>1, <1>2, <1>3, <1>4, <1>5, <1>6, <1>7, <1>8, <1>9, <1>10, <1>11, <1>12, <1>13, <1>14
        DEF Next, Ends, Timer

\* A frame is pushed on the stack, or replaces the one on top.
LEMMA PushFacts ==
    ASSUME Typed, NEW f \in Frame, stack' = Append(stack, f)
    PROVE  /\ Len(stack) \in Nat /\ Len(stack') = Len(stack) + 1
           /\ stack'[Len(stack')] = f
           /\ \A i \in 1..Len(stack) : stack'[i] = stack[i]
<1>1. stack \in Seq(Frame)
  BY DEF Typed
<1> QED BY <1>1, AppendFacts

LEMMA ReplaceFacts ==
    ASSUME Typed, stack # <<>>, NEW f \in Frame, stack' = Append(Pop, f)
    PROVE  /\ Len(stack) \in Nat \ {0} /\ Len(stack') = Len(stack)
           /\ stack'[Len(stack)] = f
           /\ \A i \in 1 .. Len(stack) - 1 : stack'[i] = stack[i]
<1>1. /\ Len(stack) \in Nat \ {0} /\ Pop \in Seq(Frame) /\ Len(Pop) = Len(stack) - 1
      /\ \A i \in 1..Len(Pop) : Pop[i] = stack[i]
  BY TopFacts
<1>2. /\ Len(stack') = Len(Pop) + 1 /\ \A i \in 1..Len(Pop) : stack'[i] = Pop[i]
      /\ stack'[Len(Pop) + 1] = f
  BY <1>1, AppendFacts
<1> QED BY <1>1, <1>2

\* The frames below stay sound, since the buffer is only written, never cleared.
LEMMA FramesStaySound ==
    ASSUME FrameSound, buffer' = buffer \/ buffer' \in Message,
           \A i \in 1..Len(stack') : \/ i \in 1..Len(stack) /\ stack'[i] = stack[i]
                                     \/ FrameOK(stack'[i], buffer')
    PROVE  FrameSound'
BY DEF FrameSound, FrameOK

LEMMA FrameSoundStep ==
    ASSUME Typed, FrameSound, Next
    PROVE  FrameSound'
<1>k. Kind = {"modify", "send", "queue", "stop"}
  BY DEF Kind
<1>1. ASSUME NEW p \in Priority \cup {None}, NEW redirected \in BOOLEAN, Send(p, redirected)
      PROVE  FrameSound'
  <2>1. next \in Message
    BY <1>1 DEF Send
  <2> DEFINE f == FrameFor("modify", next, p, None)
  <2>2. f \in Frame /\ f.kind = "modify" /\ f.msg = next
    <3>1. f \in Frame
      BY <2>1, <1>k, FrameForType
    <3> QED BY <3>1 DEF FrameFor
  <2>3. stack' = Append(stack, f) /\ buffer' = buffer
    BY <1>1 DEF Send
  <2> HIDE DEF f
  <2>4. FrameOK(f, buffer')
    BY <2>1, <2>2 DEF FrameOK
  <2> QED BY <2>2, <2>3, <2>4, PushFacts, FramesStaySound
<1>2. ASSUME stack # <<>>, stack' = Pop, buffer' = buffer \/ buffer' \in Message
      PROVE  FrameSound'
  BY <1>2, TopFacts, FramesStaySound
<1>3. CASE Dropped
  BY <1>2, <1>3, InFacts DEF Dropped
<1>4. ASSUME Modified
      PROVE  FrameSound'
  <2>1. /\ stack # <<>> /\ Top.kind = "modify" /\ Top.msg \in Message /\ Top \in Frame
        /\ buffer' = Top.msg
    BY <1>4, InFacts, TopFacts, TopSound DEF Modified
  <2>2. CASE MustWait(Top.prio)
    BY <1>2, <1>4, <2>1, <2>2 DEF Modified
  <2>3. CASE ~ MustWait(Top.prio)
    <3> DEFINE f == FrameFor("send", Top.msg, Top.prio, Available(redirects))
    <3>1. redirects \in Seq(Redirect)
      BY DEF Typed
    <3>2. f \in Frame /\ f.kind = "send" /\ f.msg = Top.msg
      <4>1. Top.prio \in {None} \cup Priority /\ Available(redirects) \in {None} \cup Message
        BY <2>1, <3>1, FrameFields, AvailableType
      <4>2. f \in Frame
        BY <2>1, <4>1, <1>k, FrameForType
      <4> QED BY <4>2 DEF FrameFor
    <3>3. stack' = Append(Pop, f)
      BY <1>4, <2>3 DEF Modified
    <3> HIDE DEF f
    <3>4. FrameOK(f, buffer')
      BY <2>1, <3>2 DEF FrameOK
    <3> QED BY <2>1, <3>2, <3>3, <3>4, ReplaceFacts, FramesStaySound
  <2> QED BY <2>2, <2>3
<1>5. CASE SendEnds
  BY <1>2, <1>5, InFacts DEF SendEnds
<1>6. CASE OutqueueSent
  BY <1>2, <1>6, InFacts DEF OutqueueSent, Leaves
<1>7. CASE RedirectStopped
  BY <1>2, <1>7, InFacts DEF RedirectStopped
<1>8. ASSUME NEW p \in Priority, OutqueueSend(p)
      PROVE  FrameSound'
  <2>1. outqueue[p] \in Seq(Item) /\ outqueue[p] # <<>>
    BY <1>8 DEF OutqueueSend, Due, Typed
  <2>2. Head(outqueue[p]) \in Item
    BY <2>1, TailFacts
  <2>3. Head(outqueue[p]).msg \in Message
    BY <2>2 DEF Item
  <2> DEFINE f == FrameFor("queue", Head(outqueue[p]).msg, p, None)
  <2>4. f \in Frame /\ f.kind = "queue" /\ f.msg \in Message /\ f.prio = p
    <3>1. f \in Frame
      BY <2>3, <1>k, FrameForType
    <3> QED BY <2>3, <3>1 DEF FrameFor
  <2>5. stack' = <<f>> /\ buffer' = buffer
    BY <1>8 DEF OutqueueSend
  <2> HIDE DEF f
  <2>6. FrameOK(f, buffer')
    BY <2>4 DEF FrameOK
  <2> QED BY <2>5, <2>6, FramesStaySound
<1>9. ASSUME NEW i \in 1..Len(redirects), RedirectStop(i)
      PROVE  FrameSound'
  <2>1. redirects[i] \in Redirect
    BY DEF Typed
  <2>2. redirects[i].id \in Message
    BY <2>1 DEF Redirect
  <2> DEFINE f == FrameFor("stop", None, None, redirects[i].id)
  <2>3. f \in Frame /\ f.kind = "stop" /\ f.redirect \in Message
    <3>1. f \in Frame
      BY <2>2, <1>k, FrameForType
    <3> QED BY <2>2, <3>1 DEF FrameFor
  <2>4. stack' = <<f>> /\ buffer' = buffer
    BY <1>9 DEF RedirectStop
  <2> HIDE DEF f
  <2>5. FrameOK(f, buffer')
    BY <2>3 DEF FrameOK
  <2> QED BY <2>4, <2>5, FramesStaySound
<1>10. ASSUME UNCHANGED <<stack, buffer>>
       PROVE  FrameSound'
  BY <1>10 DEF FrameSound
<1>11. CASE OutqueueIdle \/ Disconnect \/ Connect \/ DelOutq \/ Tick \/ ClockBack
  BY <1>10, <1>11 DEF OutqueueIdle, Disconnect, Connect, DelOutq, Tick, ClockBack
<1> QED BY <1>1, <1>3, <1>4, <1>5, <1>6, <1>7, <1>8, <1>9, <1>11 DEF Next, Ends, Timer

-----------------------------------------------------------------------------
(* What holds whatever callbacks do.                                       *)

\* What is known stays known until it is freed, and then the queues do not
\* point to it any more.
LEMMA AllocatedStep ==
    ASSUME Typed, FrameSound, RedirectsAllocated, Next
    PROVE  RedirectsAllocated'
<1>n. /\ outqueue \in [Priority -> Seq(Item)] /\ redirects \in Seq(Redirect)
      /\ \A p \in Priority : outqueue[p] \in Seq(Item)
  BY DEF Typed
<1>0. ASSUME outqueue' = outqueue, \A r : Known(r) => Known(r)'
      PROVE  RedirectsAllocated'
  BY <1>0 DEF RedirectsAllocated
<1>s. ASSUME NEW r, NEW m \in Message, redirects' = Started(redirects, r, m)
      PROVE  \A x : Known(x) => Known(x)'
  <2>1. /\ Len(redirects') = Len(redirects)
        /\ \A i \in 1..Len(redirects) : redirects'[i].id = redirects[i].id
    BY <1>s, <1>n, StartedFields
  <2> QED BY <2>1 DEF Known
<1>1. ASSUME NEW p \in Priority \cup {None}, NEW redirected \in BOOLEAN, Send(p, redirected)
      PROVE  RedirectsAllocated'
  <2>1. \A x : Known(x) => Known(x)'
    <3>1. next \in Message
      BY <1>1 DEF Send
    <3>2. redirects' = redirects \/ redirects' = WithNew(redirects, next)
      BY <1>1 DEF Send
    <3>3. /\ Len(redirects) \in Nat /\ Len(redirects') >= Len(redirects) /\ Len(redirects') \in Nat
          /\ \A i \in 1..Len(redirects) : redirects'[i] = redirects[i]
      <4>1. CASE redirects' = redirects
        BY <1>n, <4>1
      <4>2. CASE redirects' = WithNew(redirects, next)
        <5>1. Len(redirects) \in Nat /\ redirects \in Seq(Redirect)
          BY <1>n
        <5>2. /\ Len(WithNew(redirects, next)) = Len(redirects) + 1
              /\ \A i \in 1..Len(redirects) : WithNew(redirects, next)[i] = redirects[i]
          BY <3>1, <5>1, WithNewFacts
        <5> QED BY <4>2, <5>1, <5>2
      <4> QED BY <3>2, <4>1, <4>2
    <3> QED BY <3>3 DEF Known
  <2> QED BY <1>0, <1>1, <2>1 DEF Send
<1>3. ASSUME Modified
      PROVE  RedirectsAllocated'
  <2>1. CASE MustWait(Top.prio)
    <3>1. stack # <<>> /\ Top \in Frame
      BY <1>3, InFacts, TopFacts DEF Modified
    <3>2. Top.prio \in Priority
      BY <2>1, <3>1, FrameFields DEF MustWait
    <3> DEFINE r == Available(redirects)
               e == [msg |-> Top.msg, redirect |-> r]
    <3>3. outqueue' = [outqueue EXCEPT ![Top.prio] = Append(@, e)]
          /\ redirects' = Assigned(redirects, r)
      BY <1>3, <2>1 DEF Modified
    <3>4. /\ Len(redirects') = Len(redirects)
          /\ \A i \in 1..Len(redirects) : redirects'[i].id = redirects[i].id
      <4> HIDE DEF r
      <4> QED BY <1>n, <3>3, AssignedFields
    <3>5. \A x : Known(x) => Known(x)'
      BY <3>4 DEF Known
    <3>6. r # None => Known(r)
      BY <1>n, AvailableFacts DEF Known
    <3>7. e \in Item
      <4>1. Top.msg \in Message
        BY <1>3, InFacts, TopSound DEF Modified
      <4>2. r \in {None} \cup Message
        BY <1>n, AvailableType
      <4> QED BY <4>1, <4>2 DEF Item
    <3>8. e.redirect = r
      OBVIOUS
    <3> HIDE DEF e, r
    <3>9. \A p \in Priority : \A i \in 1..Len(outqueue'[p]) :
             \/ i \in 1..Len(outqueue[p]) /\ outqueue'[p][i] = outqueue[p][i]
             \/ outqueue'[p][i] = e
      <4> TAKE p \in Priority
      <4>1. CASE p = Top.prio
        BY <1>n, <3>2, <3>3, <3>7, <4>1, AppendFacts
      <4>2. CASE p # Top.prio
        BY <1>n, <3>2, <3>3, <4>2
      <4> QED BY <4>1, <4>2
    <3> QED BY <3>5, <3>6, <3>8, <3>9 DEF RedirectsAllocated
  <2>2. CASE ~ MustWait(Top.prio)
    BY <1>0, <1>3, <2>2 DEF Modified, queueVars, Known
  <2> QED BY <2>1, <2>2
<1>4. ASSUME SendEnds
      PROVE  RedirectsAllocated'
  <2>1. buffer \in Message /\ redirects' = Started(redirects, Top.redirect, buffer)
    BY <1>4, InFacts, TopSound DEF SendEnds
  <2> QED BY <1>0, <1>s, <1>4, <2>1 DEF SendEnds
<1>5. ASSUME OutqueueSent
      PROVE  RedirectsAllocated'
  <2>1. CASE outqueue[Top.prio] = <<>>
    BY <1>0, <1>5, <2>1 DEF OutqueueSent, queueVars, Known
  <2>2. CASE outqueue[Top.prio] # <<>>
    <3>1. Top.prio \in Priority
      BY <1>5, InFacts, TopSound DEF OutqueueSent
    <3> DEFINE item == Head(outqueue[Top.prio])
    <3>2. /\ outqueue' = [outqueue EXCEPT ![Top.prio] = Tail(@)]
          /\ redirects' = Started(redirects, item.redirect, item.msg)
      BY <1>5, <2>2 DEF OutqueueSent, Leaves
    <3>3. item \in Item
      BY <1>n, <2>2, <3>1, TailFacts
    <3>4. item.msg \in Message
      BY <3>3 DEF Item
    <3> HIDE DEF item
    <3>5. \A x : Known(x) => Known(x)'
      BY <1>s, <3>2, <3>4
    <3>6. \A p \in Priority : \A i \in 1..Len(outqueue'[p]) :
             \E j \in 1..Len(outqueue[p]) : outqueue'[p][i] = outqueue[p][j]
      <4> TAKE p \in Priority
      <4>1. CASE p = Top.prio
        <5>1. outqueue'[p] = Tail(outqueue[p])
          BY <1>n, <3>1, <3>2, <4>1
        <5>2. /\ Len(outqueue'[p]) = Len(outqueue[p]) - 1 /\ Len(outqueue[p]) \in Nat \ {0}
              /\ \A i \in 1..Len(outqueue'[p]) : outqueue'[p][i] = outqueue[p][i + 1]
          BY <1>n, <2>2, <4>1, <5>1, TailFacts
        <5>3. \A i \in 1..Len(outqueue'[p]) : i + 1 \in 1..Len(outqueue[p])
          BY <5>2
        <5> QED BY <5>2, <5>3
      <4>2. CASE p # Top.prio
        BY <1>n, <3>1, <3>2, <4>2
      <4> QED BY <4>1, <4>2
    <3> QED BY <3>5, <3>6 DEF RedirectsAllocated
  <2> QED BY <2>1, <2>2
<1>6. ASSUME RedirectStopped
      PROVE  RedirectsAllocated'
  <2>1. CASE ~ Known(Top.redirect)
    BY <1>0, <1>6, <2>1 DEF RedirectStopped, queueVars, Known
  <2>2. CASE Known(Top.redirect)
    <3> DEFINE r == Top.redirect
    <3>1. r \in Message /\ Freed(r)
      BY <1>6, <2>2, InFacts, TopSound DEF RedirectStopped
    <3> HIDE DEF r
    <3>2. PICK k \in 1..Len(redirects) :
             /\ redirects[k].id = r
             /\ Len(redirects') = Len(redirects) - 1
             /\ \A i \in 1..Len(redirects') :
                   redirects'[i] = IF i < k THEN redirects[i] ELSE redirects[i + 1]
      BY <2>2, <3>1, FreedFacts DEF r
    <3>3. \A p \in Priority :
             /\ Len(outqueue'[p]) = Len(outqueue[p])
             /\ \A i \in 1..Len(outqueue[p]) :
                   outqueue'[p][i].redirect =
                      IF outqueue[p][i].redirect = r THEN None ELSE outqueue[p][i].redirect
      BY <2>2, <3>1, FreedFacts DEF r
    <3>4. ASSUME NEW x, x # r, Known(x)
          PROVE  Known(x)'
      <4>1. PICK i \in 1..Len(redirects) : redirects[i].id = x
        BY <3>4 DEF Known
      <4>2. Len(redirects) \in Nat /\ i # k
        BY <1>n, <3>2, <3>4, <4>1
      <4>3. CASE i < k
        BY <3>2, <4>1, <4>2, <4>3 DEF Known
      <4>4. CASE i > k
        <5>1. i - 1 \in 1..Len(redirects') /\ redirects'[i - 1] = redirects[(i - 1) + 1]
              /\ (i - 1) + 1 = i
          BY <3>2, <4>2, <4>4
        <5> QED BY <4>1, <5>1 DEF Known
      <4> QED BY <4>2, <4>3, <4>4
    <3>5. ASSUME NEW p \in Priority, NEW i \in 1..Len(outqueue'[p]), NEW x,
                 x = outqueue'[p][i].redirect, x # None
          PROVE  Known(x)'
      <4>1. /\ i \in 1..Len(outqueue[p]) /\ x # r
            /\ x = outqueue[p][i].redirect
        BY <3>3, <3>5
      <4>2. Known(x)
        BY <3>5, <4>1 DEF RedirectsAllocated
      <4> QED BY <3>4, <4>1, <4>2
    <3> QED BY <3>5 DEF RedirectsAllocated, Known
  <2> QED BY <2>1, <2>2
<1>7. CASE Disconnect \/ DelOutq
  <2>1. \A p \in Priority : Len(outqueue'[p]) = 0
    BY <1>7 DEF Disconnect, DelOutq, Empty
  <2> QED BY <2>1 DEF RedirectsAllocated
<1>8. ASSUME UNCHANGED queueVars
      PROVE  RedirectsAllocated'
  BY <1>0, <1>8 DEF queueVars, Known
<1>9. CASE Dropped \/ OutqueueIdle \/ (\E p \in Priority : OutqueueSend(p)) \/ Connect \/ Tick
           \/ ClockBack \/ (\E i \in 1..Len(redirects) : RedirectStop(i))
  BY <1>8, <1>9 DEF Dropped, OutqueueIdle, OutqueueSend, Connect, Tick, ClockBack, RedirectStop
<1> QED BY <1>1, <1>3, <1>4, <1>5, <1>6, <1>7, <1>9 DEF Next, Ends, Timer

-----------------------------------------------------------------------------
(* What holds when callbacks send messages only from the signals of a      *)
(* queue or of a redirection that ends, and do not disconnect.             *)

Calm == SendsIn \subseteq {"queue", "stop"} /\ EmptiesIn = {}

FreshKind == {"modify", "send"}

Waits(m)    == \E p \in Priority : \E i \in 1..Len(outqueue[p]) : outqueue[p][i].msg = m
OnSocket(m) == \E i \in 1..Len(wire) : wire[i].msg = m

\* A message is being sent in the frame on top only; a server that is not
\* connected has nothing under way.
Nested ==
    /\ \A i \in 1..Len(stack) :
          /\ i < Len(stack) => stack[i].kind \notin FreshKind
          /\ i > 1 => stack[i].kind \in FreshKind
    /\ ~connected => stack = <<>> /\ outqueue = Empty /\ redirects = <<>>

\* What a frame has read and relies on after its callbacks: the newest
\* message and a free redirection, the head of the queue, a redirection that
\* is in the list; and that the anti-flood let the message pass.
FrameHolds(f) ==
    /\ f.kind \in FreshKind =>
          /\ f.msg = next - 1 /\ prio[f.msg] = f.prio
          /\ f.msg \notin gone /\ ~ Waits(f.msg) /\ ~ OnSocket(f.msg)
    /\ f.kind = "send" =>
          /\ buffer = f.msg
          /\ f.prio # None => Len(outqueue[f.prio]) = 0 /\ elapsed[f.prio] >= AntiFlood[f.prio]
          /\ f.redirect # None =>
                \E k \in 1..Len(redirects) : redirects[k].id = f.redirect /\ ~redirects[k].assigned
    /\ f.kind = "queue" =>
          /\ Len(outqueue[f.prio]) > 0 /\ outqueue[f.prio][1].msg = f.msg
          /\ elapsed[f.prio] >= AntiFlood[f.prio]
    /\ f.kind = "stop" =>
          \E k \in 1..Len(redirects) : redirects[k].id = f.redirect /\ redirects[k].started
FramesHold == \A i \in 1..Len(stack) : FrameHolds(stack[i])

\* The queue of a priority is in the order the messages were given, after what
\* has been sent with this priority.
QueueSorted ==
    \A p \in Priority : \A i \in 1..Len(outqueue[p]) :
        /\ outqueue[p][i].msg < next /\ prio[outqueue[p][i].msg] = p
        /\ outqueue[p][i].msg \notin gone
        /\ \A j \in 1..Len(outqueue[p]) : i < j => outqueue[p][i].msg < outqueue[p][j].msg
        /\ \A j \in 1..Len(wire) :
              prio[wire[j].msg] = p => wire[j].msg < outqueue[p][i].msg

WireSorted ==
    \A i \in 1..Len(wire) :
        /\ wire[i].msg < next /\ wire[i].msg \notin gone /\ wire[i].announced = wire[i].msg
        /\ \A j \in 1..Len(wire) :
              i < j /\ prio[wire[i].msg] = prio[wire[j].msg] => wire[i].msg < wire[j].msg

\* Where each message is.
Accounted ==
    /\ \A m \in gone : m < next
    /\ connected =>
          \A m \in 1 .. next - 1 :
             \/ m \in gone \/ Waits(m) \/ OnSocket(m)
             \/ \E i \in 1..Len(stack) : stack[i].kind \in FreshKind /\ stack[i].msg = m

\* The system clock may only make the last message look younger than it is.
Aged == \A p \in Priority : since <= elapsed[p]

\* A redirection that waits with a message is assigned, not started, and waits
\* with no other message.
RedirectsOnce ==
    /\ \A i, j \in 1..Len(redirects) : redirects[i].id = redirects[j].id => i = j
    /\ \A i \in 1..Len(redirects) :
          redirects[i].id < next /\ (redirects[i].started => redirects[i].assigned)
    /\ \A p \in Priority : \A i \in 1..Len(outqueue[p]) :
          outqueue[p][i].redirect # None =>
             /\ \E k \in 1..Len(redirects) :
                   /\ redirects[k].id = outqueue[p][i].redirect
                   /\ redirects[k].assigned /\ ~ redirects[k].started
             /\ \A q \in Priority : \A j \in 1..Len(outqueue[q]) :
                   outqueue[q][j].redirect = outqueue[p][i].redirect => q = p /\ j = i

CalmInv ==
    /\ ~ crashed
    /\ Nested /\ FramesHold /\ QueueSorted /\ WireSorted /\ Accounted /\ Aged /\ RedirectsOnce

Sound == Typed /\ FrameSound /\ CalmInv

\* The types of what the lists hold.
LEMMA Members ==
    ASSUME Typed
    PROVE  /\ Len(stack) \in Nat /\ Len(wire) \in Nat /\ Len(redirects) \in Nat
           /\ next \in Nat /\ next > 0 /\ Message = 1 .. MaxMessages /\ MaxMessages \in Nat
           /\ \A i \in 1..Len(stack) : stack[i] \in Frame
           /\ \A i \in 1..Len(wire) : wire[i].msg \in Message /\ wire[i].announced \in Message
           /\ \A i \in 1..Len(redirects) :
                 /\ redirects[i].id \in Message
                 /\ redirects[i].assigned \in BOOLEAN /\ redirects[i].started \in BOOLEAN
           /\ \A p \in Priority :
                 /\ Len(outqueue[p]) \in Nat
                 /\ \A i \in 1..Len(outqueue[p]) :
                       /\ outqueue[p][i].msg \in Message
                       /\ outqueue[p][i].redirect \in {None} \cup Message
<1>1. /\ stack \in Seq(Frame) /\ wire \in Seq(Sent) /\ redirects \in Seq(Redirect)
      /\ \A p \in Priority : outqueue[p] \in Seq(Item)
  BY DEF Typed
<1>2. \A i \in 1..Len(wire) : wire[i] \in Sent
  BY <1>1
<1>3. \A i \in 1..Len(redirects) : redirects[i] \in Redirect
  BY <1>1
<1>4. \A p \in Priority : \A i \in 1..Len(outqueue[p]) : outqueue[p][i] \in Item
  BY <1>1
<1>5. \A i \in 1..Len(wire) : wire[i].msg \in Message /\ wire[i].announced \in Message
  BY <1>2 DEF Sent
<1>6. \A i \in 1..Len(redirects) :
         /\ redirects[i].id \in Message
         /\ redirects[i].assigned \in BOOLEAN /\ redirects[i].started \in BOOLEAN
  BY <1>3 DEF Redirect
<1>7. \A p \in Priority : \A i \in 1..Len(outqueue[p]) :
         /\ outqueue[p][i].msg \in Message /\ outqueue[p][i].redirect \in {None} \cup Message
  BY <1>4 DEF Item
<1>8. \A i \in 1..Len(stack) : stack[i] \in Frame
  BY <1>1
<1>9. next \in Nat /\ next > 0 /\ Message = 1 .. MaxMessages /\ MaxMessages \in Nat
  BY Numbers DEF Typed, Message
<1>10. Len(stack) \in Nat /\ Len(wire) \in Nat /\ Len(redirects) \in Nat
  BY <1>1
<1>11. \A p \in Priority : Len(outqueue[p]) \in Nat
  BY <1>1
<1> QED BY <1>5, <1>6, <1>7, <1>8, <1>9, <1>10, <1>11, Zenon

\* Callbacks that may run: none while a message is being sent.
LEMMA CallbacksCalm ==
    ASSUME Calm, Typed, Nested
    PROVE  /\ MayRun(SendsIn) => \A i \in 1..Len(stack) : stack[i].kind \notin FreshKind
           /\ MayRun(EmptiesIn) => stack = <<>>
<1>1. ASSUME MayRun(SendsIn), NEW i \in 1..Len(stack)
      PROVE  stack[i].kind \notin FreshKind
  <2>1. stack # <<>> /\ Len(stack) \in Nat
    BY <1>1, Members
  <2>2. Top = stack[Len(stack)] /\ Top.kind \in {"queue", "stop"}
    BY <1>1, <2>1, TopFacts DEF MayRun, Calm
  <2>3. CASE i < Len(stack)
    BY <2>3 DEF Nested
  <2>4. CASE i = Len(stack)
    BY <2>2, <2>4 DEF FreshKind
  <2> QED BY <2>1, <2>3, <2>4
<1>2. MayRun(EmptiesIn) => stack = <<>>
  BY DEF MayRun, Calm
<1> QED BY <1>1, <1>2

\* Time passes, or the clock is corrected, while nothing is under way.
LEMMA QuietStep ==
    ASSUME Sound, stack = <<>>, \A p \in Priority : since' <= elapsed'[p],
           UNCHANGED <<connected, queueVars, buffer, stack, crashed, next, prio, wire, gone>>
    PROVE  CalmInv'
<1>1. Nested'
  BY DEF Sound, CalmInv, Nested, queueVars
<1>2. FramesHold'
  BY DEF FramesHold
<1>3. QueueSorted'
  BY DEF Sound, CalmInv, QueueSorted, queueVars
<1>4. WireSorted'
  BY DEF Sound, CalmInv, WireSorted
<1>5. Accounted'
  BY DEF Sound, CalmInv, Accounted, queueVars, Waits, OnSocket
<1>6. Aged'
  BY DEF Aged
<1>7. RedirectsOnce'
  BY DEF Sound, CalmInv, RedirectsOnce, queueVars
<1> QED BY <1>1, <1>2, <1>3, <1>4, <1>5, <1>6, <1>7 DEF Sound, CalmInv

LEMMA TimeStep ==
    ASSUME Sound, OutqueueIdle \/ Tick \/ ClockBack
    PROVE  CalmInv'
<1>1. /\ since \in -1 .. Patience /\ Patience \in Nat
      /\ \A p \in Priority : elapsed[p] \in 0 .. Patience /\ since <= elapsed[p]
  BY Numbers DEF Sound, Typed, CalmInv, Aged
<1>2. CASE OutqueueIdle
  <2>1. \A p \in Priority : since' <= elapsed'[p]
    BY <1>1, <1>2 DEF OutqueueIdle, Corrected, historyVars
  <2> QED BY <1>2, <2>1, QuietStep DEF OutqueueIdle, historyVars
<1>3. CASE Tick
  <2>1. \A p \in Priority : since' <= elapsed'[p]
    BY <1>1, <1>3 DEF Tick
  <2> QED BY <1>3, <2>1, QuietStep DEF Tick
<1>4. CASE ClockBack
  <2>1. \A p \in Priority : since' <= elapsed'[p]
    BY <1>1, <1>4 DEF ClockBack
  <2> QED BY <1>4, <2>1, QuietStep DEF ClockBack
<1> QED BY <1>2, <1>3, <1>4

\* The timer, or the end of a redirection, pushes the first frame.
LEMMA FirstFrameStep ==
    ASSUME Sound, stack = <<>>, connected, NEW f \in Frame, stack' = <<f>>,
           f.kind \notin FreshKind, FrameHolds(f)', \A p \in Priority : since' <= elapsed'[p],
           UNCHANGED <<connected, queueVars, buffer, crashed, historyVars>>
    PROVE  CalmInv'
<1>0. Len(stack) = 0 /\ Len(stack') = 1 /\ stack'[1] = f
  OBVIOUS
<1>1. Nested'
  BY <1>0 DEF Nested
<1>2. FramesHold'
  BY <1>0 DEF FramesHold
<1>3. QueueSorted'
  BY DEF Sound, CalmInv, QueueSorted, queueVars, historyVars
<1>4. WireSorted'
  BY DEF Sound, CalmInv, WireSorted, historyVars
<1>5. Accounted'
  BY <1>0 DEF Sound, CalmInv, Accounted, queueVars, historyVars, Waits, OnSocket
<1>6. Aged'
  BY DEF Aged
<1>7. RedirectsOnce'
  BY DEF Sound, CalmInv, RedirectsOnce, queueVars, historyVars
<1> QED BY <1>1, <1>2, <1>3, <1>4, <1>5, <1>6, <1>7 DEF Sound, CalmInv

LEMMA OutqueueSendStep ==
    ASSUME Sound, NEW p \in Priority, OutqueueSend(p)
    PROVE  CalmInv'
<1>k. Kind = {"modify", "send", "queue", "stop"}
  BY DEF Kind
<1>1. outqueue[p] \in Seq(Item) /\ outqueue[p] # <<>>
  BY DEF OutqueueSend, Due, Sound, Typed
<1>2. Head(outqueue[p]) = outqueue[p][1] /\ Len(outqueue[p]) \in Nat \ {0}
  BY <1>1, TailFacts
<1>3. outqueue[p][1].msg \in Message
  <2>1. 1 \in 1..Len(outqueue[p])
    BY <1>2
  <2> QED BY <2>1, Members DEF Sound
<1>4. PICK f \in Frame : f = FrameFor("queue", outqueue[p][1].msg, p, None)
  BY <1>3, <1>k, FrameForType
<1>5. f.kind = "queue" /\ f.msg = outqueue[p][1].msg /\ f.prio = p
  BY <1>4 DEF FrameFor
<1>6. stack' = <<f>> /\ stack = <<>> /\ connected
  BY <1>2, <1>4 DEF OutqueueSend
<1>7. /\ since \in -1 .. Patience /\ Patience \in Nat
      /\ \A q \in Priority : elapsed[q] \in 0 .. Patience /\ since <= elapsed[q]
  BY Numbers DEF Sound, Typed, CalmInv, Aged
<1>8. since' = Corrected /\ elapsed' = elapsed /\ Corrected >= AntiFlood[p]
  BY DEF OutqueueSend, Due, historyVars
<1>9. \A q \in Priority : since' <= elapsed'[q]
  BY <1>7, <1>8 DEF Corrected
<1>10. elapsed[p] >= AntiFlood[p]
  BY <1>7, <1>8, Numbers DEF Corrected
<1>11. FrameHolds(f)'
  BY <1>2, <1>5, <1>8, <1>10 DEF FrameHolds, FreshKind, OutqueueSend, queueVars
<1>12. f.kind \notin FreshKind
  BY <1>5 DEF FreshKind
<1> QED BY <1>4, <1>6, <1>9, <1>11, <1>12, FirstFrameStep DEF OutqueueSend, historyVars

LEMMA RedirectStopStep ==
    ASSUME Sound, NEW i \in 1..Len(redirects), RedirectStop(i)
    PROVE  CalmInv'
<1>k. Kind = {"modify", "send", "queue", "stop"}
  BY DEF Kind
<1>1. redirects[i].id \in Message
  BY Members DEF Sound
<1>2. PICK f \in Frame : f = FrameFor("stop", None, None, redirects[i].id)
  BY <1>1, <1>k, FrameForType
<1>3. f.kind = "stop" /\ f.redirect = redirects[i].id
  BY <1>2 DEF FrameFor
<1>4. stack' = <<f>> /\ stack = <<>> /\ redirects[i].started
  BY <1>2 DEF RedirectStop
<1>5. connected
  BY Members DEF Sound, CalmInv, Nested
<1>6. \A p \in Priority : since' <= elapsed'[p]
  BY DEF RedirectStop, historyVars, Sound, CalmInv, Aged
<1>7. FrameHolds(f)'
  BY <1>3, <1>4 DEF FrameHolds, FreshKind, RedirectStop, queueVars
<1>8. f.kind \notin FreshKind
  BY <1>3 DEF FreshKind
<1> QED BY <1>2, <1>4, <1>5, <1>6, <1>7, <1>8, FirstFrameStep DEF RedirectStop, historyVars

\* The connection ends or begins, or the user deletes the queues.
LEMMA EmptyStep ==
    ASSUME Sound, Calm, Disconnect \/ DelOutq \/ Connect
    PROVE  CalmInv'
<1>m. Typed /\ Nested
  BY DEF Sound, CalmInv
<1>0. stack = <<>> /\ stack' = <<>> /\ Len(stack') = 0
  BY <1>m, CallbacksCalm DEF Disconnect, DelOutq, Connect
<1>1. outqueue' = Empty /\ \A p \in Priority : Len(outqueue'[p]) = 0
  <2>1. outqueue' = Empty
    BY <1>m DEF Disconnect, DelOutq, Connect, queueVars, Nested
  <2> QED BY <2>1 DEF Empty
<1>2. redirects' = redirects \/ redirects' = <<>>
  BY DEF Disconnect, DelOutq, Connect, queueVars
<1>3. Nested'
  <2>1. CASE Disconnect
    BY <1>0, <1>1, <2>1 DEF Nested, Disconnect
  <2>2. CASE DelOutq
    BY <1>m, <1>0, <1>1, <2>2 DEF Nested, DelOutq
  <2>3. CASE Connect
    BY <1>0, <1>1, <2>3 DEF Nested, Connect
  <2> QED BY <2>1, <2>2, <2>3
<1>4. FramesHold'
  BY <1>0 DEF FramesHold
<1>5. QueueSorted'
  BY <1>1 DEF QueueSorted
<1>6. \A m \in Message : m \in Queued <=> Waits(m)
  BY DEF Queued, Messages, ItemsOf, Waits
<1>7. ASSUME NEW i \in 1..Len(wire), wire[i].msg \in Queued
      PROVE  FALSE
  <2>1. PICK p \in Priority : \E j \in 1..Len(outqueue[p]) : outqueue[p][j].msg = wire[i].msg
    BY <1>m, <1>6, <1>7, Members DEF Waits
  <2>2. PICK j \in 1..Len(outqueue[p]) : outqueue[p][j].msg = wire[i].msg
    BY <2>1
  <2>3. wire[i].msg < outqueue[p][j].msg
    BY <2>2 DEF Sound, CalmInv, QueueSorted
  <2> QED BY <1>m, <2>2, <2>3, Members
<1>8. WireSorted'
  <2>1. CASE Disconnect \/ DelOutq
    <3>1. wire' = wire /\ prio' = prio /\ next' = next /\ gone' = gone \cup Queued
      BY <2>1 DEF Disconnect, DelOutq
    <3> QED BY <1>7, <3>1 DEF Sound, CalmInv, WireSorted
  <2>2. CASE Connect
    BY <2>2 DEF Connect, WireSorted
  <2> QED BY <2>1, <2>2
<1>9. Accounted'
  <2>1. CASE Disconnect \/ DelOutq
    <3>1. wire' = wire /\ next' = next /\ gone' = gone \cup Queued /\ (connected' => connected)
      BY <2>1 DEF Disconnect, DelOutq
    <3>2. \A m \in gone' : m < next'
      <4>1. \A m \in Queued : m < next
        BY <1>m, <1>6, Members DEF Sound, CalmInv, QueueSorted, Queued, Messages, ItemsOf
      <4> QED BY <3>1, <4>1 DEF Sound, CalmInv, Accounted
    <3>3. ASSUME connected', NEW m \in 1 .. next' - 1
          PROVE  m \in gone' \/ OnSocket(m)'
      <4>1. m \in gone \/ Waits(m) \/ OnSocket(m)
        BY <1>0, <3>1, <3>3 DEF Sound, CalmInv, Accounted
      <4>2. m \in Message
        BY <1>m, <3>1, Members, Numbers DEF Typed
      <4> QED BY <1>6, <3>1, <4>1, <4>2 DEF OnSocket
    <3> QED BY <3>2, <3>3 DEF Accounted
  <2>2. CASE Connect
    <3>1. gone' = 1 .. next - 1 /\ next' = next /\ next \in Nat
      BY <1>m, <2>2, Members DEF Connect
    <3> QED BY <3>1 DEF Accounted
  <2> QED BY <2>1, <2>2
<1>10. Aged'
  BY DEF Sound, CalmInv, Aged, Disconnect, DelOutq, Connect
<1>11. RedirectsOnce'
  <2>1. next' = next
    BY DEF Disconnect, DelOutq, Connect
  <2>2. CASE redirects' = redirects
    BY <1>1, <2>1, <2>2 DEF Sound, CalmInv, RedirectsOnce
  <2>3. CASE redirects' = <<>>
    BY <1>1, <2>3 DEF RedirectsOnce
  <2> QED BY <1>2, <2>2, <2>3
<1>12. ~ crashed'
  BY DEF Sound, CalmInv, Disconnect, DelOutq, Connect
<1> QED BY <1>3, <1>4, <1>5, <1>8, <1>9, <1>10, <1>11, <1>12 DEF CalmInv

\* A new message is the newest of all; the frames below wait for their signals
\* and lose nothing.
LEMMA SendStep ==
    ASSUME Sound, Calm, NEW p \in Priority \cup {None}, NEW redirected \in BOOLEAN,
           Send(p, redirected)
    PROVE  CalmInv'
<1>k. Kind = {"modify", "send", "queue", "stop"}
  BY DEF Kind
<1>m. Typed /\ Nested /\ connected /\ next \in Message
  BY DEF Sound, CalmInv, Send
<1>u. UNCHANGED <<connected, outqueue, buffer, since, crashed, wire, gone, elapsed>>
  BY DEF Send
<1>0. \A i \in 1..Len(stack) : stack[i].kind \notin FreshKind
  BY <1>m, CallbacksCalm DEF Send
<1>1. PICK f \in Frame : f = FrameFor("modify", next, p, None)
  BY <1>m, <1>k, FrameForType
<1>2. f.kind = "modify" /\ f.msg = next /\ f.prio = p
  BY <1>1 DEF FrameFor
<1>3. stack' = Append(stack, f) /\ next' = next + 1 /\ prio' = [prio EXCEPT ![next] = p]
  BY <1>1 DEF Send
<1>4. /\ Len(stack) \in Nat /\ Len(stack') = Len(stack) + 1 /\ stack'[Len(stack')] = f
      /\ \A i \in 1..Len(stack) : stack'[i] = stack[i]
  BY <1>m, <1>3, PushFacts
<1>5. prio'[next] = p /\ \A m \in Message : m # next => prio'[m] = prio[m]
  BY <1>m, <1>3 DEF Typed
<1>6. \/ redirects' = redirects
      \/ /\ Len(redirects') = Len(redirects) + 1
         /\ \A i \in 1..Len(redirects) : redirects'[i] = redirects[i]
         /\ redirects'[Len(redirects) + 1] =
               [id |-> next, assigned |-> FALSE, started |-> FALSE, command |-> None]
  <2>1. CASE redirects' = WithNew(redirects, next)
    <3>1. redirects \in Seq(Redirect)
      BY <1>m DEF Typed
    <3>2. /\ Len(WithNew(redirects, next)) = Len(redirects) + 1
          /\ \A i \in 1..Len(redirects) : WithNew(redirects, next)[i] = redirects[i]
          /\ WithNew(redirects, next)[Len(redirects) + 1] =
                [id |-> next, assigned |-> FALSE, started |-> FALSE, command |-> None]
      BY <1>m, <3>1, WithNewFacts
    <3> QED BY <2>1, <3>2
  <2>2. CASE redirects' = redirects
    BY <2>2
  <2> QED BY <2>1, <2>2 DEF Send
<1>7. /\ Len(redirects) \in Nat
      /\ \A k \in 1..Len(redirects) : k \in 1..Len(redirects') /\ redirects'[k] = redirects[k]
  BY <1>m, <1>6, Members
<1>8. Nested'
  BY <1>m, <1>u, <1>0, <1>2, <1>4 DEF Nested, FreshKind
<1>9. FramesHold'
  <2>1. ASSUME NEW f0, f0.kind \notin FreshKind, FrameHolds(f0)
        PROVE  FrameHolds(f0)'
    BY <1>u, <1>7, <2>1 DEF FrameHolds, FreshKind
  <2>2. next \notin gone /\ ~ Waits(next) /\ ~ OnSocket(next)
    BY <1>m, Members DEF Sound, CalmInv, Accounted, QueueSorted, WireSorted, Waits, OnSocket
  <2>3. FrameHolds(f)'
    BY <1>m, <1>u, <1>2, <1>3, <1>5, <2>2, Members DEF FrameHolds, FreshKind, Waits, OnSocket
  <2>4. ASSUME NEW i \in 1..Len(stack'), NEW f0, f0 = stack'[i]
        PROVE  FrameHolds(f0)'
    <3>1. CASE i \in 1..Len(stack)
      BY <1>0, <1>4, <2>1, <2>4, <3>1 DEF Sound, CalmInv, FramesHold
    <3>2. CASE i = Len(stack')
      BY <1>4, <2>3, <2>4, <3>2
    <3> QED BY <1>4, <3>1, <3>2
  <2> QED BY <2>4 DEF FramesHold
<1>10. QueueSorted'
  <2>1. \A q \in Priority : \A i \in 1..Len(outqueue[q]) :
           /\ outqueue[q][i].msg \in Message /\ outqueue[q][i].msg \in Nat
           /\ outqueue[q][i].msg < next /\ prio'[outqueue[q][i].msg] = q
    <3> TAKE q \in Priority
    <3> TAKE i \in 1..Len(outqueue[q])
    <3>1. outqueue[q][i].msg \in Message /\ outqueue[q][i].msg \in Nat /\ next \in Nat
      BY <1>m, Members
    <3>2. outqueue[q][i].msg < next /\ prio[outqueue[q][i].msg] = q
      BY DEF Sound, CalmInv, QueueSorted
    <3> QED BY <1>5, <3>1, <3>2
  <2>2. \A j \in 1..Len(wire) : prio'[wire[j].msg] = prio[wire[j].msg]
    <3> TAKE j \in 1..Len(wire)
    <3>1. wire[j].msg \in Message /\ wire[j].msg \in Nat /\ next \in Nat
      BY <1>m, Members
    <3>2. wire[j].msg < next
      BY DEF Sound, CalmInv, WireSorted
    <3> QED BY <1>5, <3>1, <3>2
  <2>3. next \in Nat /\ \A x \in Nat : x < next => x < next'
    BY <1>m, <1>3, Members
  <2> QED BY <1>u, <2>1, <2>2, <2>3 DEF Sound, CalmInv, QueueSorted
<1>11. WireSorted'
  <2>1. \A i \in 1..Len(wire) :
           /\ wire[i].msg < next /\ wire[i].msg \notin gone /\ wire[i].announced = wire[i].msg
           /\ \A j \in 1..Len(wire) :
                 i < j /\ prio[wire[i].msg] = prio[wire[j].msg] => wire[i].msg < wire[j].msg
    BY DEF Sound, CalmInv, WireSorted
  <2>2. \A i \in 1..Len(wire) : prio'[wire[i].msg] = prio[wire[i].msg] /\ wire[i].msg < next'
    <3> TAKE i \in 1..Len(wire)
    <3>1. wire[i].msg \in Message /\ wire[i].msg \in Nat /\ next \in Nat
      BY <1>m, Members
    <3>2. wire[i].msg < next
      BY <2>1
    <3> QED BY <1>3, <1>5, <3>1, <3>2
  <2> QED BY <1>u, <2>1, <2>2 DEF WireSorted
<1>12. Accounted'
  <2>1. \A m \in gone' : m < next'
    BY <1>m, <1>u, <1>3, Members DEF Sound, CalmInv, Accounted, Typed
  <2>2. ASSUME NEW m \in 1 .. next' - 1
        PROVE  \/ m \in gone' \/ Waits(m)' \/ OnSocket(m)'
               \/ \E i \in 1..Len(stack') : stack'[i].kind \in FreshKind /\ stack'[i].msg = m
    <3>1. CASE m = next
      <4>1. Len(stack') \in 1..Len(stack')
        BY <1>4
      <4> QED BY <1>2, <1>4, <3>1, <4>1 DEF FreshKind
    <3>2. CASE m \in 1 .. next - 1
      <4>1. m \in gone \/ Waits(m) \/ OnSocket(m)
        BY <1>m, <1>0, <3>2 DEF Sound, CalmInv, Accounted
      <4> QED BY <1>u, <4>1 DEF Waits, OnSocket
    <3>3. m = next \/ m \in 1 .. next - 1
      <4>1. next \in Nat /\ next' = next + 1
        BY <1>m, <1>3, Members
      <4> QED BY <4>1
    <3> QED BY <3>1, <3>2, <3>3
  <2> QED BY <2>1, <2>2 DEF Accounted
<1>13. Aged'
  BY <1>u DEF Sound, CalmInv, Aged
<1>14. RedirectsOnce'
  <2>1. CASE redirects' = redirects
    <3>1. next \in Nat /\ next' = next + 1 /\ \A i \in 1..Len(redirects) : redirects[i].id \in Nat
      BY <1>m, <1>3, Members
    <3>2. \A i \in 1..Len(redirects) : redirects[i].id < next'
      <4>1. \A i \in 1..Len(redirects) : redirects[i].id < next
        BY DEF Sound, CalmInv, RedirectsOnce
      <4> QED BY <3>1, <4>1
    <3> QED BY <1>u, <2>1, <3>2 DEF Sound, CalmInv, RedirectsOnce
  <2>2. CASE /\ Len(redirects') = Len(redirects) + 1
             /\ \A i \in 1..Len(redirects) : redirects'[i] = redirects[i]
             /\ redirects'[Len(redirects) + 1] =
                   [id |-> next, assigned |-> FALSE, started |-> FALSE, command |-> None]
    <3>1. \A i \in 1..Len(redirects') :
             \/ i \in 1..Len(redirects) /\ redirects'[i] = redirects[i]
             \/ i = Len(redirects) + 1 /\ redirects'[i].id = next /\ ~ redirects'[i].started
      BY <1>7, <2>2
    <3>2. \A i \in 1..Len(redirects) :
             redirects[i].id < next /\ (redirects[i].started => redirects[i].assigned)
      BY DEF Sound, CalmInv, RedirectsOnce
    <3>n. next \in Nat /\ next' = next + 1 /\ \A i \in 1..Len(redirects) : redirects[i].id \in Nat
      BY <1>m, <1>3, Members
    <3>3. \A i, j \in 1..Len(redirects') : redirects'[i].id = redirects'[j].id => i = j
      <4>1. \A i, j \in 1..Len(redirects) : redirects[i].id = redirects[j].id => i = j
        BY DEF Sound, CalmInv, RedirectsOnce
      <4>2. \A i \in 1..Len(redirects) : redirects[i].id # next
        BY <3>n, <3>2
      <4> TAKE i, j \in 1..Len(redirects')
      <4> QED BY <3>1, <4>1, <4>2
    <3>4. \A i \in 1..Len(redirects') :
             redirects'[i].id < next' /\ (redirects'[i].started => redirects'[i].assigned)
      <4> TAKE i \in 1..Len(redirects')
      <4>1. CASE i \in 1..Len(redirects) /\ redirects'[i] = redirects[i]
        BY <3>n, <3>2, <4>1
      <4>2. CASE redirects'[i].id = next /\ ~ redirects'[i].started
        BY <3>n, <4>2
      <4> QED BY <3>1, <4>1, <4>2
    <3>5. \A q \in Priority : \A i \in 1..Len(outqueue'[q]) :
             outqueue'[q][i].redirect # None =>
                /\ \E k \in 1..Len(redirects') :
                      /\ redirects'[k].id = outqueue'[q][i].redirect
                      /\ redirects'[k].assigned /\ ~ redirects'[k].started
                /\ \A s \in Priority : \A j \in 1..Len(outqueue'[s]) :
                      outqueue'[s][j].redirect = outqueue'[q][i].redirect => s = q /\ j = i
      <4>1. outqueue' = outqueue
        BY <1>u
      <4>2. \A q \in Priority : \A i \in 1..Len(outqueue[q]) :
             outqueue[q][i].redirect # None =>
                /\ \E k \in 1..Len(redirects) :
                      /\ redirects[k].id = outqueue[q][i].redirect
                      /\ redirects[k].assigned /\ ~ redirects[k].started
                /\ \A s \in Priority : \A j \in 1..Len(outqueue[s]) :
                      outqueue[s][j].redirect = outqueue[q][i].redirect => s = q /\ j = i
        BY DEF Sound, CalmInv, RedirectsOnce
      <4>3. ASSUME NEW q \in Priority, NEW i \in 1..Len(outqueue[q]), outqueue[q][i].redirect # None
            PROVE  \E k \in 1..Len(redirects') :
                      /\ redirects'[k].id = outqueue[q][i].redirect
                      /\ redirects'[k].assigned /\ ~ redirects'[k].started
        <5>1. PICK k \in 1..Len(redirects) :
                 /\ redirects[k].id = outqueue[q][i].redirect
                 /\ redirects[k].assigned /\ ~ redirects[k].started
          BY <4>2, <4>3
        <5>2. k \in 1..Len(redirects') /\ redirects'[k] = redirects[k]
          BY <1>7
        <5> QED BY <5>1, <5>2
      <4>4. ASSUME NEW q \in Priority, NEW i \in 1..Len(outqueue[q]), outqueue[q][i].redirect # None
            PROVE  \A s \in Priority : \A j \in 1..Len(outqueue[s]) :
                      outqueue[s][j].redirect = outqueue[q][i].redirect => s = q /\ j = i
        BY <4>2, <4>4
      <4> QED BY <4>1, <4>3, <4>4
    <3> QED BY <3>3, <3>4, <3>5 DEF RedirectsOnce
  <2> QED BY <1>6, <2>1, <2>2
<1> QED BY <1>u, <1>8, <1>9, <1>10, <1>11, <1>12, <1>13, <1>14 DEF Sound, CalmInv

\* A frame is popped: those below hold a queue or a redirection.
LEMMA PopNested ==
    ASSUME Typed, Nested, stack # <<>>, stack' = Pop, connected' = connected
    PROVE  /\ connected /\ Nested'
           /\ Len(stack) \in Nat \ {0} /\ Len(stack') = Len(stack) - 1 /\ Top = stack[Len(stack)]
           /\ \A i \in 1..Len(stack') : stack'[i] = stack[i] /\ stack[i].kind \notin FreshKind
           /\ \A i \in 1..Len(stack) : i \in 1..Len(stack') \/ i = Len(stack)
<1>1. /\ Len(stack) \in Nat \ {0} /\ Top = stack[Len(stack)] /\ Len(Pop) = Len(stack) - 1
      /\ \A i \in 1..Len(Pop) : Pop[i] = stack[i]
  BY TopFacts
<1>2. \A i \in 1..Len(stack') : stack'[i] = stack[i] /\ stack[i].kind \notin FreshKind
  BY <1>1 DEF Nested
<1>3. connected
  BY DEF Nested
<1>4. Nested'
  BY <1>1, <1>2, <1>3 DEF Nested
<1> QED BY <1>1, <1>2, <1>3, <1>4

LEMMA DroppedStep ==
    ASSUME Sound, Dropped
    PROVE  CalmInv'
<1>m. Typed /\ Nested /\ stack # <<>> /\ Top.kind = "modify" /\ Top.msg \in Message
  BY InFacts, TopSound DEF Sound, CalmInv, Dropped
<1>u. UNCHANGED <<connected, queueVars, buffer, since, crashed, next, prio, wire, elapsed>>
  BY DEF Dropped
<1>1. /\ connected /\ Nested' /\ Len(stack) \in Nat \ {0} /\ Top = stack[Len(stack)]
      /\ \A i \in 1..Len(stack') : i \in 1..Len(stack) /\ stack'[i] = stack[i]
                                     /\ stack[i].kind \notin FreshKind
      /\ \A i \in 1..Len(stack) : i \in 1..Len(stack') \/ i = Len(stack)
  BY <1>m, PopNested DEF Dropped
<1>2. gone' = gone \cup {Top.msg}
  BY DEF Dropped
<1>3. /\ Top.msg = next - 1 /\ ~ Waits(Top.msg) /\ ~ OnSocket(Top.msg)
  BY <1>m, <1>1 DEF Sound, CalmInv, FramesHold, FrameHolds, FreshKind
<1>4. FramesHold'
  BY <1>u, <1>1 DEF Sound, CalmInv, FramesHold, FrameHolds, queueVars
<1>5. QueueSorted'
  BY <1>u, <1>2, <1>3 DEF Sound, CalmInv, QueueSorted, queueVars, Waits
<1>6. WireSorted'
  BY <1>u, <1>2, <1>3 DEF Sound, CalmInv, WireSorted, OnSocket
<1>7. Accounted'
  <2>1. \A m \in gone' : m < next'
    BY <1>m, <1>u, <1>2, <1>3, Members DEF Sound, CalmInv, Accounted
  <2>2. ASSUME NEW m \in 1 .. next' - 1
        PROVE  m \in gone' \/ Waits(m)' \/ OnSocket(m)'
    <3>1. \/ m \in gone \/ Waits(m) \/ OnSocket(m)
          \/ \E i \in 1..Len(stack) : stack[i].kind \in FreshKind /\ stack[i].msg = m
      BY <1>1, <1>u DEF Sound, CalmInv, Accounted
    <3>2. ASSUME NEW i \in 1..Len(stack), stack[i].kind \in FreshKind, stack[i].msg = m
          PROVE  m \in gone'
      BY <1>1, <1>2, <3>2
    <3> QED BY <1>u, <1>2, <3>1, <3>2 DEF Waits, OnSocket, queueVars
  <2> QED BY <2>1, <2>2 DEF Accounted
<1>8. Aged'
  BY <1>u DEF Sound, CalmInv, Aged
<1>9. RedirectsOnce'
  BY <1>u DEF Sound, CalmInv, RedirectsOnce, queueVars
<1> QED BY <1>u, <1>1, <1>4, <1>5, <1>6, <1>7, <1>8, <1>9 DEF Sound, CalmInv

\* The message waits: it is the newest, so it goes to the end of its queue, with
\* a redirection no other message has.
LEMMA WaitStep ==
    ASSUME Sound, Modified, MustWait(Top.prio)
    PROVE  CalmInv'
<1>m. /\ Typed /\ Nested /\ stack # <<>> /\ Top.kind = "modify" /\ Top.msg \in Message
      /\ Top \in Frame
  BY InFacts, TopFacts, TopSound DEF Sound, CalmInv, Modified
<1>u. UNCHANGED <<connected, crashed, next, prio, wire, gone, elapsed>>
  BY DEF Modified, historyVars
<1>3. Top.prio \in Priority
  BY <1>m, FrameFields DEF MustWait
<1>t. /\ Available(redirects) \in {None} \cup Message
      /\ redirects \in Seq(Redirect) /\ outqueue \in [Priority -> Seq(Item)]
  BY <1>m, AvailableType DEF Typed
<1>v. PICK p \in Priority, m \in Message, r \in {None} \cup Message :
         p = Top.prio /\ m = Top.msg /\ r = Available(redirects)
  BY <1>m, <1>3, <1>t
<1>w. PICK n \in Nat : n = Len(outqueue[p])
  BY <1>t
<1>1. /\ connected /\ Nested' /\ Len(stack) \in Nat \ {0} /\ Top = stack[Len(stack)]
      /\ \A i \in 1..Len(stack') : i \in 1..Len(stack) /\ stack'[i] = stack[i]
                                     /\ stack[i].kind \notin FreshKind
      /\ \A i \in 1..Len(stack) : i \in 1..Len(stack') \/ i = Len(stack)
  BY <1>m, <1>u, PopNested DEF Modified
<1>2. m = next - 1 /\ prio[m] = p /\ m \notin gone /\ ~ Waits(m) /\ ~ OnSocket(m)
  BY <1>m, <1>v, <1>1 DEF Sound, CalmInv, FramesHold, FrameHolds, FreshKind
<1>4. \/ r = None
      \/ \E k \in 1..Len(redirects) : r = redirects[k].id /\ ~ redirects[k].assigned
  BY <1>m, <1>v, AvailableFacts DEF Typed
<1>5. PICK e \in Item : e = [msg |-> m, redirect |-> r]
  BY DEF Item
<1>6. e.msg = m /\ e.redirect = r
  BY <1>5
<1>7. outqueue' = [outqueue EXCEPT ![p] = Append(@, e)] /\ redirects' = Assigned(redirects, r)
      /\ since' = Corrected
  BY <1>v, <1>5 DEF Modified
<1>8. /\ Len(outqueue'[p]) = n + 1 /\ outqueue'[p][n + 1] = e /\ n \in Nat
      /\ \A i \in 1..n : outqueue'[p][i] = outqueue[p][i]
      /\ \A q \in Priority : q # p => outqueue'[q] = outqueue[q]
  BY <1>t, <1>w, <1>7, AppendFacts
<1>9. \A q \in Priority : \A i \in 1..Len(outqueue'[q]) :
         \/ i \in 1..Len(outqueue[q]) /\ outqueue'[q][i] = outqueue[q][i]
         \/ q = p /\ i = n + 1 /\ outqueue'[q][i].msg = m /\ outqueue'[q][i].redirect = r
  BY <1>6, <1>8, <1>w
<1>b. \A q \in Priority : \A i \in 1..Len(outqueue[q]) :
         i \in 1..Len(outqueue'[q]) /\ outqueue'[q][i] = outqueue[q][i]
  <2> TAKE q \in Priority
  <2>1. CASE q = p
    BY <1>8, <1>w, <2>1
  <2>2. CASE q # p
    BY <1>8, <2>2
  <2> QED BY <2>1, <2>2
<1>10. /\ Len(redirects') = Len(redirects)
       /\ \A k \in 1..Len(redirects) :
             /\ redirects'[k].id = redirects[k].id /\ redirects'[k].started = redirects[k].started
             /\ redirects[k].id = r => redirects'[k].assigned
             /\ redirects[k].id # r => redirects'[k].assigned = redirects[k].assigned
  BY <1>t, <1>7, AssignedFields
<1>11. FramesHold'
  <2>1. ASSUME NEW f \in Frame, f.kind \notin FreshKind, FrameHolds(f), f.kind = "queue" => f.prio \in Priority
        PROVE  FrameHolds(f)'
    <3>1. CASE f.kind = "queue"
      <4>1. /\ f.prio \in Priority /\ Len(outqueue[f.prio]) > 0 /\ outqueue[f.prio][1].msg = f.msg
            /\ elapsed[f.prio] >= AntiFlood[f.prio]
        BY <2>1, <3>1 DEF FrameHolds
      <4>2. 1 \in 1..Len(outqueue[f.prio])
        BY <1>t, <4>1
      <4>3. 1 \in 1..Len(outqueue'[f.prio]) /\ outqueue'[f.prio][1] = outqueue[f.prio][1]
        BY <1>b, <4>1, <4>2
      <4>4. Len(outqueue'[f.prio]) > 0
        BY <4>3
      <4> QED BY <1>u, <2>1, <3>1, <4>1, <4>3, <4>4 DEF FrameHolds, FreshKind
    <3>2. CASE f.kind = "stop"
      BY <1>10, <2>1, <3>2 DEF FrameHolds, FreshKind
    <3> QED BY <2>1, <3>1, <3>2 DEF FrameHolds, FreshKind
  <2>2. \A i \in 1..Len(stack) : /\ stack[i] \in Frame /\ FrameHolds(stack[i])
                                 /\ stack[i].kind = "queue" => stack[i].prio \in Priority
    BY <1>m, Members DEF Sound, CalmInv, FramesHold, FrameSound, FrameOK
  <2>3. ASSUME NEW i \in 1..Len(stack'), NEW f, f = stack'[i]
        PROVE  FrameHolds(f)'
    <3>1. i \in 1..Len(stack) /\ f = stack[i] /\ f.kind \notin FreshKind
      BY <1>1, <2>3
    <3> QED BY <2>1, <2>2, <3>1
  <2> QED BY <2>3 DEF FramesHold
<1>12. QueueSorted'
  <2>1. \A q \in Priority : \A i \in 1..Len(outqueue[q]) :
           outqueue[q][i].msg < m /\ outqueue[q][i].msg \in Message
    <3> TAKE q \in Priority
    <3> TAKE i \in 1..Len(outqueue[q])
    <3>1. outqueue[q][i].msg \in Message /\ outqueue[q][i].msg \in Nat /\ next \in Nat
      BY <1>m, Members
    <3>2. outqueue[q][i].msg < next
      BY DEF Sound, CalmInv, QueueSorted
    <3>3. outqueue[q][i].msg # m
      BY <1>2 DEF Waits
    <3> QED BY <1>2, <3>1, <3>2, <3>3
  <2>2. \A j \in 1..Len(wire) : wire[j].msg < m
    BY <1>m, <1>2, Members DEF Sound, CalmInv, WireSorted, OnSocket
  <2>3. m < next
    BY <1>m, <1>2, Members
  <2>4. \A q \in Priority : \A i \in 1..Len(outqueue[q]) :
           /\ outqueue[q][i].msg < next /\ prio[outqueue[q][i].msg] = q
           /\ outqueue[q][i].msg \notin gone
           /\ \A j \in 1..Len(outqueue[q]) : i < j => outqueue[q][i].msg < outqueue[q][j].msg
           /\ \A j \in 1..Len(wire) :
                 prio[wire[j].msg] = q => wire[j].msg < outqueue[q][i].msg
    BY DEF Sound, CalmInv, QueueSorted
  <2>5. ASSUME NEW q \in Priority, NEW i \in 1..Len(outqueue'[q])
        PROVE  /\ outqueue'[q][i].msg < next /\ prio[outqueue'[q][i].msg] = q
               /\ outqueue'[q][i].msg \notin gone
               /\ \A j \in 1..Len(wire) :
                     prio[wire[j].msg] = q => wire[j].msg < outqueue'[q][i].msg
    BY <1>2, <1>9, <2>2, <2>3, <2>4
  <2>6. ASSUME NEW q \in Priority, NEW i \in 1..Len(outqueue'[q]), NEW j \in 1..Len(outqueue'[q]),
               i < j
        PROVE  outqueue'[q][i].msg < outqueue'[q][j].msg
    <3>1. CASE i \in 1..Len(outqueue[q]) /\ j \in 1..Len(outqueue[q])
      BY <1>b, <2>4, <2>6, <3>1
    <3>2. CASE i \in 1..Len(outqueue[q]) /\ outqueue'[q][j].msg = m
      BY <1>b, <2>1, <3>2
    <3>3. CASE q = p /\ i = n + 1
      BY <1>8, <2>6, <3>3
    <3>4. /\ i \in 1..Len(outqueue[q]) \/ (q = p /\ i = n + 1)
          /\ j \in 1..Len(outqueue[q]) \/ outqueue'[q][j].msg = m
      BY <1>9
    <3> QED BY <3>1, <3>2, <3>3, <3>4
  <2> QED BY <1>u, <2>5, <2>6 DEF QueueSorted
<1>13. WireSorted'
  BY <1>u DEF Sound, CalmInv, WireSorted
<1>14. Accounted'
  <2>1. \A x : Waits(x) => Waits(x)'
    BY <1>b DEF Waits
  <2>2. Waits(m)'
    <3>1. n + 1 \in 1..Len(outqueue'[p]) /\ outqueue'[p][n + 1].msg = m
      BY <1>6, <1>8
    <3> QED BY <3>1 DEF Waits
  <2>3. ASSUME NEW x \in 1 .. next' - 1
        PROVE  x \in gone' \/ Waits(x)' \/ OnSocket(x)'
    <3>1. \/ x \in gone \/ Waits(x) \/ OnSocket(x)
          \/ \E i \in 1..Len(stack) : stack[i].kind \in FreshKind /\ stack[i].msg = x
      BY <1>1, <1>u DEF Sound, CalmInv, Accounted
    <3>2. ASSUME NEW i \in 1..Len(stack), stack[i].kind \in FreshKind, stack[i].msg = x
          PROVE  x = m
      BY <1>1, <1>v, <3>2
    <3> QED BY <1>u, <2>1, <2>2, <3>1, <3>2 DEF OnSocket
  <2> QED BY <1>u, <2>3 DEF Sound, CalmInv, Accounted
<1>15. Aged'
  <2>1. /\ since \in -1 .. Patience /\ Patience \in Nat
        /\ \A q \in Priority : elapsed[q] \in 0 .. Patience /\ since <= elapsed[q]
    BY Numbers DEF Sound, Typed, CalmInv, Aged
  <2> QED BY <1>u, <1>7, <2>1 DEF Aged, Corrected
<1>16. RedirectsOnce'
  <2>1. \A i, j \in 1..Len(redirects') : redirects'[i].id = redirects'[j].id => i = j
    BY <1>10 DEF Sound, CalmInv, RedirectsOnce
  <2>2. \A i \in 1..Len(redirects') :
           redirects'[i].id < next' /\ (redirects'[i].started => redirects'[i].assigned)
    BY <1>u, <1>10 DEF Sound, CalmInv, RedirectsOnce
  <2>3. ASSUME NEW x, NEW k \in 1..Len(redirects), redirects[k].id = x, redirects[k].assigned,
               ~ redirects[k].started
        PROVE  \E l \in 1..Len(redirects') :
                  redirects'[l].id = x /\ redirects'[l].assigned /\ ~ redirects'[l].started
    BY <1>10, <2>3
  <2>4. ASSUME r # None
        PROVE  /\ \E l \in 1..Len(redirects') :
                     redirects'[l].id = r /\ redirects'[l].assigned /\ ~ redirects'[l].started
               /\ \A q \in Priority : \A i \in 1..Len(outqueue[q]) : outqueue[q][i].redirect # r
    <3>1. PICK k \in 1..Len(redirects) : r = redirects[k].id /\ ~ redirects[k].assigned
      BY <1>4, <2>4
    <3>2. ~ redirects[k].started
      BY <3>1 DEF Sound, CalmInv, RedirectsOnce
    <3>3. \A q \in Priority : \A i \in 1..Len(outqueue[q]) : outqueue[q][i].redirect # r
      BY <2>4, <3>1 DEF Sound, CalmInv, RedirectsOnce
    <3> QED BY <1>10, <3>1, <3>2, <3>3
  <2>5. ASSUME NEW q \in Priority, NEW i \in 1..Len(outqueue'[q]), outqueue'[q][i].redirect # None
        PROVE  /\ \E k \in 1..Len(redirects') :
                     /\ redirects'[k].id = outqueue'[q][i].redirect
                     /\ redirects'[k].assigned /\ ~ redirects'[k].started
               /\ \A s \in Priority : \A j \in 1..Len(outqueue'[s]) :
                     outqueue'[s][j].redirect = outqueue'[q][i].redirect => s = q /\ j = i
    <3>1. CASE i \in 1..Len(outqueue[q]) /\ outqueue'[q][i] = outqueue[q][i]
      <4>1. PICK k \in 1..Len(redirects) :
               /\ redirects[k].id = outqueue[q][i].redirect
               /\ redirects[k].assigned /\ ~ redirects[k].started
        BY <2>5, <3>1 DEF Sound, CalmInv, RedirectsOnce
      <4>2. outqueue[q][i].redirect # r
        BY <2>4, <2>5, <3>1
      <4>3. \A s \in Priority : \A j \in 1..Len(outqueue[s]) :
               outqueue[s][j].redirect = outqueue[q][i].redirect => s = q /\ j = i
        BY <2>5, <3>1 DEF Sound, CalmInv, RedirectsOnce
      <4>4. PICK x : x = outqueue[q][i].redirect
        OBVIOUS
      <4>5. \E l \in 1..Len(redirects') :
               redirects'[l].id = x /\ redirects'[l].assigned /\ ~ redirects'[l].started
        BY <2>3, <4>1, <4>4
      <4>6. ASSUME NEW s \in Priority, NEW j \in 1..Len(outqueue'[s]), outqueue'[s][j].redirect = x
            PROVE  s = q /\ j = i
        <5>1. \/ j \in 1..Len(outqueue[s]) /\ outqueue'[s][j] = outqueue[s][j]
              \/ outqueue'[s][j].redirect = r
          BY <1>9
        <5> QED BY <4>2, <4>3, <4>4, <4>6, <5>1
      <4> QED BY <3>1, <4>4, <4>5, <4>6
    <3>2. CASE q = p /\ i = n + 1 /\ outqueue'[q][i].redirect = r
      BY <1>9, <2>4, <2>5, <3>2
    <3>3. \/ i \in 1..Len(outqueue[q]) /\ outqueue'[q][i] = outqueue[q][i]
          \/ q = p /\ i = n + 1 /\ outqueue'[q][i].redirect = r
      BY <1>9
    <3> QED BY <3>1, <3>2, <3>3, Zenon
  <2> QED BY <2>1, <2>2, <2>5 DEF RedirectsOnce
<1> QED BY <1>u, <1>1, <1>11, <1>12, <1>13, <1>14, <1>15, <1>16 DEF Sound, CalmInv

\* The message is about to be sent: its queue is empty and its delay is over,
\* in true time too.
LEMMA PassStep ==
    ASSUME Sound, Modified, ~ MustWait(Top.prio)
    PROVE  CalmInv'
<1>k. Kind = {"modify", "send", "queue", "stop"}
  BY DEF Kind
<1>m. /\ Typed /\ Nested /\ stack # <<>> /\ Top.kind = "modify" /\ Top.msg \in Message
      /\ Top \in Frame
  BY InFacts, TopFacts, TopSound DEF Sound, CalmInv, Modified
<1>u. UNCHANGED <<connected, crashed, next, prio, wire, gone, elapsed, outqueue, redirects>>
  BY DEF Modified, historyVars, queueVars
<1>t. /\ Available(redirects) \in {None} \cup Message /\ Top.prio \in {None} \cup Priority
      /\ redirects \in Seq(Redirect) /\ outqueue \in [Priority -> Seq(Item)]
  BY <1>m, AvailableType, FrameFields DEF Typed
<1>v. PICK p \in {None} \cup Priority, m \in Message, r \in {None} \cup Message :
         p = Top.prio /\ m = Top.msg /\ r = Available(redirects)
  BY <1>m, <1>t
<1>1. PICK f \in Frame : f = FrameFor("send", m, p, r)
  BY <1>k, FrameForType
<1>2. f.kind = "send" /\ f.msg = m /\ f.prio = p /\ f.redirect = r
  BY <1>1 DEF FrameFor
<1>3. stack' = Append(Pop, f) /\ buffer' = m /\ since' = Corrected
  BY <1>v, <1>1 DEF Modified
<1>4. /\ Len(stack) \in Nat \ {0} /\ Len(stack') = Len(stack) /\ stack'[Len(stack)] = f
      /\ \A i \in 1 .. Len(stack) - 1 : stack'[i] = stack[i]
      /\ Top = stack[Len(stack)]
  BY <1>m, <1>3, ReplaceFacts, TopFacts
<1>5. \A i \in 1 .. Len(stack) - 1 : i \in 1..Len(stack) /\ stack[i].kind \notin FreshKind
  BY <1>m, <1>4 DEF Nested
<1>6. connected
  BY <1>m DEF Nested
<1>7. Nested'
  <2>1. \A i \in 1..Len(stack) : i > 1 => stack[i].kind \in FreshKind
    BY <1>m DEF Nested
  <2>2. ASSUME NEW i \in 1..Len(stack')
        PROVE  /\ i < Len(stack') => stack'[i].kind \notin FreshKind
               /\ i > 1 => stack'[i].kind \in FreshKind
    <3>1. CASE i \in 1 .. Len(stack) - 1
      BY <1>4, <1>5, <2>1, <3>1
    <3>2. CASE i = Len(stack)
      BY <1>2, <1>4, <3>2 DEF FreshKind
    <3> QED BY <1>4, <3>1, <3>2
  <2> QED BY <1>u, <1>6, <2>2 DEF Nested
<1>8. m = next - 1 /\ prio[m] = p /\ m \notin gone /\ ~ Waits(m) /\ ~ OnSocket(m)
  BY <1>m, <1>v, <1>4 DEF Sound, CalmInv, FramesHold, FrameHolds, FreshKind
<1>9. /\ since \in -1 .. Patience /\ Patience \in Nat
      /\ \A q \in Priority : elapsed[q] \in 0 .. Patience /\ since <= elapsed[q]
  BY Numbers DEF Sound, Typed, CalmInv, Aged
<1>10. p # None => Len(outqueue[p]) = 0 /\ elapsed[p] >= AntiFlood[p]
  <2> SUFFICES ASSUME p # None PROVE Len(outqueue[p]) = 0 /\ elapsed[p] >= AntiFlood[p]
    OBVIOUS
  <2>1. p \in Priority /\ outqueue[p] = <<>> /\ ~ (AntiFlood[p] > 0 /\ Corrected < AntiFlood[p])
    BY <1>v DEF MustWait
  <2>2. elapsed[p] >= AntiFlood[p]
    BY <1>9, <2>1, Numbers DEF Corrected
  <2> QED BY <2>1, <2>2
<1>11. FramesHold'
  <2>1. FrameHolds(f)'
    <3>1. r # None => \E k \in 1..Len(redirects) : redirects[k].id = r /\ ~ redirects[k].assigned
      BY <1>t, <1>v, AvailableFacts
    <3> QED BY <1>u, <1>2, <1>3, <1>8, <1>10, <3>1 DEF FrameHolds, FreshKind, Waits, OnSocket
  <2>2. ASSUME NEW f0, f0.kind \notin FreshKind, FrameHolds(f0)
        PROVE  FrameHolds(f0)'
    BY <1>u, <2>2 DEF FrameHolds, FreshKind
  <2>3. ASSUME NEW i \in 1..Len(stack'), NEW f0, f0 = stack'[i]
        PROVE  FrameHolds(f0)'
    <3>1. CASE i \in 1 .. Len(stack) - 1
      BY <1>4, <1>5, <2>2, <2>3, <3>1 DEF Sound, CalmInv, FramesHold
    <3>2. CASE i = Len(stack)
      BY <1>4, <2>1, <2>3, <3>2
    <3> QED BY <1>4, <3>1, <3>2
  <2> QED BY <2>3 DEF FramesHold
<1>12. QueueSorted'
  BY <1>u DEF Sound, CalmInv, QueueSorted
<1>13. WireSorted'
  BY <1>u DEF Sound, CalmInv, WireSorted
<1>14. Accounted'
  <2>1. ASSUME NEW x \in 1 .. next' - 1
        PROVE  \/ x \in gone' \/ Waits(x)' \/ OnSocket(x)'
               \/ \E i \in 1..Len(stack') : stack'[i].kind \in FreshKind /\ stack'[i].msg = x
    <3>1. \/ x \in gone \/ Waits(x) \/ OnSocket(x)
          \/ \E i \in 1..Len(stack) : stack[i].kind \in FreshKind /\ stack[i].msg = x
      BY <1>6, <1>u DEF Sound, CalmInv, Accounted
    <3>2. ASSUME NEW i \in 1..Len(stack), stack[i].kind \in FreshKind, stack[i].msg = x
          PROVE  \E l \in 1..Len(stack') : stack'[l].kind \in FreshKind /\ stack'[l].msg = x
      <4>1. i = Len(stack)
        BY <1>4, <1>5, <3>2
      <4>2. i \in 1..Len(stack') /\ stack'[i].kind = "send" /\ stack'[i].msg = x
        BY <1>2, <1>4, <1>v, <3>2, <4>1
      <4> QED BY <4>2 DEF FreshKind
    <3> QED BY <1>u, <3>1, <3>2 DEF Waits, OnSocket
  <2> QED BY <1>u, <2>1 DEF Sound, CalmInv, Accounted
<1>15. Aged'
  BY <1>u, <1>3, <1>9 DEF Aged, Corrected
<1>16. RedirectsOnce'
  BY <1>u DEF Sound, CalmInv, RedirectsOnce
<1> QED BY <1>u, <1>7, <1>11, <1>12, <1>13, <1>14, <1>15, <1>16 DEF Sound, CalmInv

\* A message goes to the socket, or is lost there: it comes after all that went
\* before it with its priority and before all that waits, its redirection waits
\* with no other message, and the first d[q] messages leave queue q.
Departs(m, r, d) ==
    /\ stack # <<>> /\ stack' = Pop /\ m = Top.msg
    /\ \E ok \in BOOLEAN : ToSocket(ok, m)
    /\ redirects' = Started(redirects, r, m) /\ crashed' = WritesFreed(r)
    /\ r # None => Known(r)
    /\ connected' = connected /\ next' = next /\ prio' = prio
    /\ \A q \in Priority : since' <= elapsed'[q]
    /\ m < next /\ m \notin gone
    /\ \A j \in 1..Len(wire) :
          wire[j].msg # m /\ (prio[wire[j].msg] = prio[m] => wire[j].msg < m)
    /\ \A q \in Priority :
          /\ Len(outqueue'[q]) = Len(outqueue[q]) - d[q]
          /\ \A i \in 1..Len(outqueue'[q]) : outqueue'[q][i] = outqueue[q][i + d[q]]
    /\ \A q \in Priority : \A i \in 1..Len(outqueue'[q]) :
          /\ outqueue'[q][i].msg # m /\ (q = prio[m] => m < outqueue'[q][i].msg)
          /\ outqueue'[q][i].redirect # None => outqueue'[q][i].redirect # r
    /\ \A q \in Priority : \A i \in 1..Len(outqueue[q]) :
          outqueue[q][i].msg = m
             \/ \E j \in 1..Len(outqueue'[q]) : outqueue'[q][j] = outqueue[q][i]

LEMMA DepartStep ==
    ASSUME Sound, NEW m \in Message, NEW r, NEW d \in [Priority -> {0, 1}], Departs(m, r, d),
           FramesHold'
    PROVE  CalmInv'
<1> USE DEF Departs
<1>0. PICK ok \in BOOLEAN : ToSocket(ok, m)
  OBVIOUS
<1>m. Typed /\ Nested
  BY DEF Sound, CalmInv
<1>1. /\ connected /\ Nested' /\ Len(stack) \in Nat \ {0} /\ Top = stack[Len(stack)]
      /\ \A i \in 1..Len(stack') : i \in 1..Len(stack) /\ stack'[i] = stack[i]
                                     /\ stack[i].kind \notin FreshKind
      /\ \A i \in 1..Len(stack) : i \in 1..Len(stack') \/ i = Len(stack)
  BY <1>m, PopNested
<1>2. \/ ~ ok /\ wire' = wire /\ gone' = gone \cup {m}
      \/ /\ ok /\ gone' = gone /\ Len(wire) \in Nat /\ Len(wire') = Len(wire) + 1
         /\ \A j \in 1..Len(wire) : wire'[j] = wire[j]
         /\ wire'[Len(wire) + 1].msg = m /\ wire'[Len(wire) + 1].announced = m
  <2>1. CASE ~ ok
    BY <1>0, <2>1 DEF ToSocket
  <2>2. CASE ok
    <3>1. PICK e \in Sent : e = [announced |-> m, msg |-> m]
      BY DEF Sent
    <3>2. wire' = Append(wire, e) /\ gone' = gone /\ wire \in Seq(Sent)
      BY <1>0, <1>m, <2>2, <3>1 DEF ToSocket, Typed
    <3>3. e.msg = m /\ e.announced = m
      BY <3>1
    <3> QED BY <2>2, <3>2, <3>3, AppendFacts
  <2> QED BY <2>1, <2>2
<1>3. /\ Len(redirects') = Len(redirects) /\ Len(redirects) \in Nat
      /\ \A i \in 1..Len(redirects) :
            /\ redirects'[i].id = redirects[i].id
            /\ redirects[i].id = r => redirects'[i].assigned /\ redirects'[i].started
            /\ redirects[i].id # r => redirects'[i] = redirects[i]
  BY <1>m, StartedFields, Members DEF Typed
<1>4. \A q \in Priority : \A i \in 1..Len(outqueue'[q]) :
         i + d[q] \in 1..Len(outqueue[q]) /\ outqueue'[q][i] = outqueue[q][i + d[q]]
           /\ i \in Nat /\ d[q] \in {0, 1}
  BY <1>m, Members
<1>n. next \in Nat /\ (\A i \in 1..Len(wire) : wire[i].msg \in Nat) /\ m \in Nat
  BY <1>m, Members
<1>5. QueueSorted'
  <2>1. \A q \in Priority : \A i \in 1..Len(outqueue[q]) :
           /\ outqueue[q][i].msg < next /\ prio[outqueue[q][i].msg] = q
           /\ outqueue[q][i].msg \notin gone
           /\ \A j \in 1..Len(outqueue[q]) : i < j => outqueue[q][i].msg < outqueue[q][j].msg
           /\ \A j \in 1..Len(wire) :
                 prio[wire[j].msg] = q => wire[j].msg < outqueue[q][i].msg
    BY DEF Sound, CalmInv, QueueSorted
  <2>2. ASSUME NEW q \in Priority, NEW i \in 1..Len(outqueue'[q])
        PROVE  /\ outqueue'[q][i].msg < next' /\ prio'[outqueue'[q][i].msg] = q
               /\ outqueue'[q][i].msg \notin gone'
               /\ \A j \in 1..Len(outqueue'[q]) : i < j => outqueue'[q][i].msg < outqueue'[q][j].msg
               /\ \A j \in 1..Len(wire') :
                     prio'[wire'[j].msg] = q => wire'[j].msg < outqueue'[q][i].msg
    <3>1. i + d[q] \in 1..Len(outqueue[q]) /\ outqueue'[q][i] = outqueue[q][i + d[q]]
      BY <1>4
    <3>2. outqueue'[q][i].msg < next' /\ prio'[outqueue'[q][i].msg] = q
      BY <2>1, <3>1
    <3>3. outqueue'[q][i].msg \notin gone'
      BY <1>2, <2>1, <3>1
    <3>4. \A j \in 1..Len(outqueue'[q]) : i < j => outqueue'[q][i].msg < outqueue'[q][j].msg
      <4> TAKE j \in 1..Len(outqueue'[q])
      <4>1. j + d[q] \in 1..Len(outqueue[q]) /\ outqueue'[q][j] = outqueue[q][j + d[q]]
        BY <1>4
      <4>2. i < j => i + d[q] < j + d[q]
        BY <1>4
      <4> QED BY <2>1, <3>1, <4>1, <4>2
    <3>5. \A j \in 1..Len(wire) :
             prio[wire[j].msg] = q => wire[j].msg < outqueue'[q][i].msg
      BY <2>1, <3>1
    <3>6. \A j \in 1..Len(wire') :
             prio[wire'[j].msg] = q => wire'[j].msg < outqueue'[q][i].msg
      <4> TAKE j \in 1..Len(wire')
      <4>1. CASE ~ ok
        BY <1>2, <3>5, <4>1
      <4>2. CASE ok
        <5>1. (j \in 1..Len(wire) /\ wire'[j] = wire[j]) \/ wire'[j].msg = m
          BY <1>2, <4>2
        <5> QED BY <3>5, <5>1
      <4> QED BY <4>1, <4>2
    <3> QED BY <3>2, <3>3, <3>4, <3>6
  <2> QED BY <2>2 DEF QueueSorted
<1>6. WireSorted'
  <2>1. \A i \in 1..Len(wire) :
           /\ wire[i].msg < next /\ wire[i].msg \notin gone /\ wire[i].announced = wire[i].msg
           /\ \A j \in 1..Len(wire) :
                 i < j /\ prio[wire[i].msg] = prio[wire[j].msg] => wire[i].msg < wire[j].msg
    BY DEF Sound, CalmInv, WireSorted
  <2>2. CASE ~ ok
    BY <1>2, <2>1, <2>2 DEF WireSorted
  <2>3. CASE ok
    <3>1. \A i \in 1..Len(wire') :
             \/ i \in 1..Len(wire) /\ wire'[i] = wire[i]
             \/ i = Len(wire) + 1 /\ wire'[i].msg = m /\ wire'[i].announced = m
      BY <1>2, <2>3
    <3>2. Len(wire) \in Nat /\ gone' = gone
      BY <1>2, <2>3
    <3>3. ASSUME NEW i \in 1..Len(wire')
          PROVE  /\ wire'[i].msg < next /\ wire'[i].msg \notin gone
                 /\ wire'[i].announced = wire'[i].msg
      BY <2>1, <3>1
    <3>4. ASSUME NEW i \in 1..Len(wire'), NEW j \in 1..Len(wire'), i < j,
                 prio[wire'[i].msg] = prio[wire'[j].msg]
          PROVE  wire'[i].msg < wire'[j].msg
      <4>1. i \in 1..Len(wire) /\ wire'[i] = wire[i]
        BY <1>2, <2>3, <3>1, <3>2, <3>4
      <4>2. CASE j \in 1..Len(wire) /\ wire'[j] = wire[j]
        BY <2>1, <3>4, <4>1, <4>2
      <4>3. CASE wire'[j].msg = m
        BY <3>4, <4>1, <4>3
      <4> QED BY <3>1, <4>2, <4>3
    <3> QED BY <3>2, <3>3, <3>4 DEF WireSorted
  <2> QED BY <2>2, <2>3
<1>7. Accounted'
  <2>1. \A x \in gone' : x < next'
    BY <1>2 DEF Sound, CalmInv, Accounted
  <2>2. m \in gone' \/ OnSocket(m)'
    <3>1. ok => Len(wire) + 1 \in 1..Len(wire') /\ wire'[Len(wire) + 1].msg = m
      BY <1>2
    <3> QED BY <1>2, <3>1 DEF OnSocket
  <2>3. \A x : OnSocket(x) => OnSocket(x)'
    <3>1. \A j \in 1..Len(wire) : j \in 1..Len(wire') /\ wire'[j] = wire[j]
      BY <1>2
    <3> QED BY <3>1 DEF OnSocket
  <2>4. ASSUME NEW x, Waits(x)
        PROVE  x = m \/ Waits(x)'
    <3>1. PICK q \in Priority : \E i \in 1..Len(outqueue[q]) : outqueue[q][i].msg = x
      BY <2>4 DEF Waits
    <3>2. PICK i \in 1..Len(outqueue[q]) : outqueue[q][i].msg = x
      BY <3>1
    <3>3. CASE x # m
      <4>1. PICK j \in 1..Len(outqueue'[q]) : outqueue'[q][j] = outqueue[q][i]
        BY <3>2, <3>3
      <4>2. outqueue'[q][j].msg = x
        BY <3>2, <4>1
      <4> QED BY <4>2 DEF Waits
    <3> QED BY <3>3
  <2>5. ASSUME NEW x \in 1 .. next' - 1
        PROVE  x \in gone' \/ Waits(x)' \/ OnSocket(x)'
    <3>1. \/ x \in gone \/ Waits(x) \/ OnSocket(x)
          \/ \E i \in 1..Len(stack) : stack[i].kind \in FreshKind /\ stack[i].msg = x
      BY <1>1 DEF Sound, CalmInv, Accounted
    <3>2. ASSUME NEW i \in 1..Len(stack), stack[i].kind \in FreshKind, stack[i].msg = x
          PROVE  x = m
      BY <1>1, <3>2
    <3>3. gone \subseteq gone'
      BY <1>2
    <3> QED BY <2>2, <2>3, <2>4, <3>1, <3>2, <3>3
  <2> QED BY <2>1, <2>5 DEF Accounted
<1>8. Aged'
  BY DEF Aged
<1>9. RedirectsOnce'
  <2>1. \A i, j \in 1..Len(redirects') : redirects'[i].id = redirects'[j].id => i = j
    BY <1>3 DEF Sound, CalmInv, RedirectsOnce
  <2>2. \A i \in 1..Len(redirects') :
           redirects'[i].id < next' /\ (redirects'[i].started => redirects'[i].assigned)
    BY <1>3 DEF Sound, CalmInv, RedirectsOnce
  <2>3. ASSUME NEW q \in Priority, NEW i \in 1..Len(outqueue'[q]), outqueue'[q][i].redirect # None
        PROVE  /\ \E k \in 1..Len(redirects') :
                     /\ redirects'[k].id = outqueue'[q][i].redirect
                     /\ redirects'[k].assigned /\ ~ redirects'[k].started
               /\ \A s \in Priority : \A j \in 1..Len(outqueue'[s]) :
                     outqueue'[s][j].redirect = outqueue'[q][i].redirect => s = q /\ j = i
    <3>1. PICK x : x = outqueue'[q][i].redirect
      OBVIOUS
    <3>2. /\ i + d[q] \in 1..Len(outqueue[q]) /\ outqueue[q][i + d[q]].redirect = x
          /\ x # None /\ x # r
      BY <1>4, <2>3, <3>1
    <3>3. PICK k \in 1..Len(redirects) :
             redirects[k].id = x /\ redirects[k].assigned /\ ~ redirects[k].started
      BY <3>2 DEF Sound, CalmInv, RedirectsOnce
    <3>4. /\ k \in 1..Len(redirects') /\ redirects'[k].id = x
          /\ redirects'[k].assigned /\ ~ redirects'[k].started
      BY <1>3, <3>2, <3>3
    <3>5. \A s \in Priority : \A j \in 1..Len(outqueue[s]) :
             outqueue[s][j].redirect = x => s = q /\ j = i + d[q]
      BY <3>2 DEF Sound, CalmInv, RedirectsOnce
    <3>6. ASSUME NEW s \in Priority, NEW j \in 1..Len(outqueue'[s]), outqueue'[s][j].redirect = x
          PROVE  s = q /\ j = i
      <4>1. j + d[s] \in 1..Len(outqueue[s]) /\ outqueue[s][j + d[s]].redirect = x
        BY <1>4, <3>6
      <4>2. s = q /\ j + d[s] = i + d[q]
        BY <3>5, <4>1
      <4>3. j \in Nat /\ i \in Nat /\ d[q] \in {0, 1}
        BY <1>4
      <4> QED BY <4>2, <4>3
    <3> QED BY <3>1, <3>4, <3>6
  <2> QED BY <2>1, <2>2, <2>3 DEF RedirectsOnce
<1>10. ~ crashed'
  BY DEF WritesFreed
<1> QED BY <1>1, <1>5, <1>6, <1>7, <1>8, <1>9, <1>10 DEF CalmInv

\* irc_server_send_one_msg goes on after its signals.
LEMMA SendEndsStep ==
    ASSUME Sound, SendEnds
    PROVE  CalmInv'
<1>m. /\ Typed /\ Nested /\ stack # <<>> /\ Top.kind = "send" /\ Top.msg \in Message
      /\ Top \in Frame
  BY InFacts, TopFacts, TopSound DEF Sound, CalmInv, SendEnds
<1>u. UNCHANGED <<connected, outqueue, next, prio>> /\ stack' = Pop
  BY DEF SendEnds
<1>t. Top.prio \in {None} \cup Priority /\ Top.redirect \in {None} \cup Message
  BY <1>m, FrameFields
<1>v. PICK p \in {None} \cup Priority, m \in Message, r \in {None} \cup Message :
         p = Top.prio /\ m = Top.msg /\ r = Top.redirect
  BY <1>m, <1>t
<1>1. /\ Len(stack) \in Nat \ {0} /\ Top = stack[Len(stack)]
      /\ \A i \in 1..Len(stack') : i \in 1..Len(stack) /\ stack'[i] = stack[i]
                                     /\ stack[i].kind \notin FreshKind
  BY <1>m, <1>u, PopNested
<1>2. FrameHolds(Top)
  BY <1>1 DEF Sound, CalmInv, FramesHold
<1>3. m = next - 1 /\ prio[m] = p /\ m \notin gone /\ ~ Waits(m) /\ ~ OnSocket(m) /\ buffer = m
  BY <1>m, <1>v, <1>2 DEF FrameHolds, FreshKind
<1>4. p # None => p \in Priority /\ Len(outqueue[p]) = 0
  BY <1>m, <1>v, <1>2 DEF FrameHolds
<1>5. r # None => \E k \in 1..Len(redirects) : redirects[k].id = r /\ ~ redirects[k].assigned
  BY <1>m, <1>v, <1>2 DEF FrameHolds
<1>6. PICK ok \in Results : /\ ToSocket(ok, m)
                            /\ since' = IF ok /\ p # None THEN 0 ELSE since
  BY <1>v, <1>3 DEF SendEnds
<1>7. ok \in BOOLEAN
  BY DEF Results
<1>8. elapsed' = IF ok /\ p # None THEN [elapsed EXCEPT ![p] = 0] ELSE elapsed
  BY <1>v, <1>6 DEF ToSocket
<1>9. /\ since \in -1 .. Patience /\ Patience \in Nat /\ elapsed \in [Priority -> 0 .. Patience]
      /\ \A q \in Priority : since <= elapsed[q]
  BY Numbers DEF Sound, Typed, CalmInv, Aged
<1>10. \A q \in Priority : since' <= elapsed'[q] /\ (q # p => elapsed'[q] = elapsed[q])
  BY <1>4, <1>6, <1>8, <1>9
<1>11. m < next /\ \A j \in 1..Len(wire) : wire[j].msg # m /\ wire[j].msg < m
  <2>1. next \in Nat /\ \A j \in 1..Len(wire) : wire[j].msg \in Nat /\ wire[j].msg < next
    BY <1>m, Members DEF Sound, CalmInv, WireSorted
  <2>2. \A j \in 1..Len(wire) : wire[j].msg # m
    BY <1>3 DEF OnSocket
  <2> QED BY <1>3, <2>1, <2>2
<1>12. redirects' = Started(redirects, r, m) /\ crashed' = WritesFreed(r)
  BY <1>v, <1>3 DEF SendEnds
<1>13. r # None => Known(r)
  BY <1>5 DEF Known
<1>14. ASSUME NEW q \in Priority, NEW i \in 1..Len(outqueue'[q])
       PROVE  /\ outqueue'[q][i].msg # m /\ (q = prio[m] => m < outqueue'[q][i].msg)
              /\ outqueue'[q][i].redirect # None => outqueue'[q][i].redirect # r
  <2>1. outqueue' = outqueue /\ i \in 1..Len(outqueue[q]) /\ Len(outqueue[q]) \in Nat
    BY <1>m, <1>u, Members
  <2>2. outqueue[q][i].msg # m
    BY <1>3, <2>1 DEF Waits
  <2>3. q # prio[m]
    BY <1>3, <1>4, <2>1 DEF Priority, None
  <2>4. ASSUME r # None, outqueue[q][i].redirect = r
        PROVE  FALSE
    <3>1. PICK k \in 1..Len(redirects) : redirects[k].id = r /\ ~ redirects[k].assigned
      BY <1>5, <2>4
    <3>2. PICK l \in 1..Len(redirects) : redirects[l].id = r /\ redirects[l].assigned
      BY <2>1, <2>4 DEF Sound, CalmInv, RedirectsOnce
    <3>3. k = l
      BY <3>1, <3>2 DEF Sound, CalmInv, RedirectsOnce
    <3> QED BY <3>1, <3>2, <3>3
  <2> QED BY <2>1, <2>2, <2>3, <2>4
<1>15. PICK d \in [Priority -> {0, 1}] : \A q \in Priority : d[q] = 0
  <2>1. [q \in Priority |-> 0] \in [Priority -> {0, 1}]
    OBVIOUS
  <2> QED BY <2>1
<1>16. \A q \in Priority :
          /\ Len(outqueue'[q]) = Len(outqueue[q]) - d[q]
          /\ \A i \in 1..Len(outqueue'[q]) : outqueue'[q][i] = outqueue[q][i + d[q]]
  <2>1. \A q \in Priority : Len(outqueue[q]) \in Nat /\ outqueue' = outqueue
    BY <1>m, <1>u, Members
  <2> QED BY <1>15, <2>1
<1>17. FramesHold'
  <2>1. /\ Len(redirects') = Len(redirects)
        /\ \A i \in 1..Len(redirects) :
              /\ redirects'[i].id = redirects[i].id
              /\ redirects[i].started => redirects'[i].started
    <3>1. /\ Len(redirects') = Len(redirects)
          /\ \A i \in 1..Len(redirects) :
                /\ redirects'[i].id = redirects[i].id
                /\ redirects[i].id = r => redirects'[i].started
                /\ redirects[i].id # r => redirects'[i] = redirects[i]
      <4>1. redirects \in Seq(Redirect)
        BY <1>m DEF Typed
      <4>2. /\ Len(Started(redirects, r, m)) = Len(redirects)
            /\ \A i \in 1..Len(redirects) :
                  /\ Started(redirects, r, m)[i].id = redirects[i].id
                  /\ redirects[i].id = r => Started(redirects, r, m)[i].started
                  /\ redirects[i].id # r => Started(redirects, r, m)[i] = redirects[i]
        BY <4>1, StartedFields
      <4> QED BY <1>12, <4>2
    <3> QED BY <3>1
  <2>2. ASSUME NEW f \in Frame, f.kind \notin FreshKind, FrameHolds(f),
               f.kind = "queue" => f.prio \in Priority
        PROVE  FrameHolds(f)'
    <3>1. CASE f.kind = "queue"
      <4>1. /\ f.prio \in Priority /\ Len(outqueue[f.prio]) > 0
            /\ outqueue[f.prio][1].msg = f.msg /\ elapsed[f.prio] >= AntiFlood[f.prio]
        BY <2>2, <3>1 DEF FrameHolds
      <4>2. f.prio # p
        BY <1>4, <4>1 DEF Priority, None
      <4>3. elapsed'[f.prio] = elapsed[f.prio]
        BY <1>10, <4>1, <4>2
      <4> QED BY <1>u, <2>2, <3>1, <4>1, <4>3 DEF FrameHolds, FreshKind
    <3>2. CASE f.kind = "stop"
      BY <2>1, <2>2, <3>2 DEF FrameHolds, FreshKind
    <3> QED BY <2>2, <3>1, <3>2 DEF FrameHolds, FreshKind
  <2>3. \A i \in 1..Len(stack) : /\ stack[i] \in Frame /\ FrameHolds(stack[i])
                                 /\ stack[i].kind = "queue" => stack[i].prio \in Priority
    BY <1>m, Members DEF Sound, CalmInv, FramesHold, FrameSound, FrameOK
  <2>4. ASSUME NEW i \in 1..Len(stack'), NEW f, f = stack'[i]
        PROVE  FrameHolds(f)'
    <3>1. i \in 1..Len(stack) /\ f = stack[i] /\ f.kind \notin FreshKind
      BY <1>1, <2>4
    <3> QED BY <2>2, <2>3, <3>1
  <2> QED BY <2>4 DEF FramesHold
<1>18. \A q \in Priority : \A i \in 1..Len(outqueue[q]) :
          \E j \in 1..Len(outqueue'[q]) : outqueue'[q][j] = outqueue[q][i]
  BY <1>u
<1>19. Departs(m, r, d)
  BY <1>m, <1>u, <1>v, <1>3, <1>6, <1>7, <1>10, <1>11, <1>12, <1>13, <1>14, <1>16, <1>18
     DEF Departs
<1> QED BY <1>17, <1>19, DepartStep

\* irc_server_outqueue_send goes on: the head of the queue is still the message
\* it has announced.
LEMMA OutqueueSentStep ==
    ASSUME Sound, OutqueueSent
    PROVE  CalmInv'
<1>m. /\ Typed /\ Nested /\ stack # <<>> /\ Top.kind = "queue" /\ Top.msg \in Message
      /\ Top \in Frame /\ Top.prio \in Priority
  BY InFacts, TopFacts, TopSound DEF Sound, CalmInv, OutqueueSent
<1>v. PICK p \in Priority, m \in Message : p = Top.prio /\ m = Top.msg
  BY <1>m
<1>1. Len(stack) \in Nat \ {0} /\ Top = stack[Len(stack)]
  BY <1>m, TopFacts
<1>2. FrameHolds(Top)
  BY <1>1 DEF Sound, CalmInv, FramesHold
<1>3. /\ Len(outqueue[p]) > 0 /\ outqueue[p][1].msg = m /\ elapsed[p] >= AntiFlood[p]
      /\ outqueue[p] \in Seq(Item) /\ outqueue[p] # <<>>
  <2>1. /\ Len(outqueue[p]) > 0 /\ outqueue[p][1].msg = m /\ elapsed[p] >= AntiFlood[p]
    BY <1>m, <1>v, <1>2 DEF FrameHolds
  <2> QED BY <1>m, <2>1 DEF Typed
<1>4. /\ Head(outqueue[p]) = outqueue[p][1] /\ Head(outqueue[p]) \in Item
      /\ Len(outqueue[p]) \in Nat \ {0} /\ 1 \in 1..Len(outqueue[p])
      /\ Len(Tail(outqueue[p])) = Len(outqueue[p]) - 1
      /\ \A i \in 1..Len(Tail(outqueue[p])) : Tail(outqueue[p])[i] = outqueue[p][i + 1]
  BY <1>3, TailFacts
<1>5. PICK item \in Item, r \in {None} \cup Message :
         item = outqueue[p][1] /\ item.msg = m /\ item.redirect = r
  BY <1>3, <1>4 DEF Item
<1>6. Leaves(item, 0)
  BY <1>v, <1>3, <1>4, <1>5 DEF OutqueueSent
<1>u. /\ UNCHANGED <<connected, next, prio>> /\ stack' = Pop /\ since' = 0
      /\ redirects' = Started(redirects, r, m) /\ crashed' = WritesFreed(r)
      /\ outqueue' = [outqueue EXCEPT ![p] = Tail(@)]
  BY <1>v, <1>5, <1>6 DEF Leaves
<1>7. PICK ok \in BOOLEAN : ToSocket(ok, m)
  BY <1>5, <1>6 DEF Leaves, Results
<1>8. /\ outqueue \in [Priority -> Seq(Item)]
      /\ \A q \in Priority : Len(outqueue[q]) \in Nat
      /\ \A q \in Priority : \A i \in 1..Len(outqueue[q]) : outqueue[q][i].msg \in Nat
  <2>1. \A q \in Priority : \A i \in 1..Len(outqueue[q]) : outqueue[q][i].msg \in Message
    BY <1>m, Members
  <2>2. \A x \in Message : x \in Nat
    BY <1>m, Members
  <2>3. outqueue \in [Priority -> Seq(Item)] /\ \A q \in Priority : Len(outqueue[q]) \in Nat
    BY <1>m, Members DEF Typed
  <2> QED BY <2>1, <2>2, <2>3
<1>9. outqueue'[p] = Tail(outqueue[p]) /\ \A q \in Priority : q # p => outqueue'[q] = outqueue[q]
  BY <1>u, <1>8
<1>10. PICK d \in [Priority -> {0, 1}] : \A q \in Priority : d[q] = IF q = p THEN 1 ELSE 0
  <2>1. [q \in Priority |-> IF q = p THEN 1 ELSE 0] \in [Priority -> {0, 1}]
    OBVIOUS
  <2> QED BY <2>1
<1>11. \A q \in Priority :
          /\ Len(outqueue'[q]) = Len(outqueue[q]) - d[q]
          /\ \A i \in 1..Len(outqueue'[q]) : outqueue'[q][i] = outqueue[q][i + d[q]]
  <2> TAKE q \in Priority
  <2>1. CASE q = p
    BY <1>4, <1>9, <1>10, <2>1
  <2>2. CASE q # p
    BY <1>8, <1>9, <1>10, <2>2
  <2> QED BY <2>1, <2>2
<1>12. \A q \in Priority : since' <= elapsed'[q]
  <2>1. \A q \in Priority : elapsed'[q] \in Nat
    BY <1>m, <1>7, Numbers DEF ToSocket, Typed
  <2> QED BY <1>u, <2>1
<1>13. m < next /\ m \notin gone /\ prio[m] = p
  BY <1>3, <1>4 DEF Sound, CalmInv, QueueSorted
<1>14. \A j \in 1..Len(wire) :
          wire[j].msg # m /\ (prio[wire[j].msg] = prio[m] => wire[j].msg < m)
  <2> TAKE j \in 1..Len(wire)
  <2>1. prio[wire[j].msg] = p => wire[j].msg < m
    BY <1>3, <1>4 DEF Sound, CalmInv, QueueSorted
  <2>2. wire[j].msg \in Nat /\ m \in Nat
    BY <1>m, Members
  <2> QED BY <1>13, <2>1, <2>2
<1>15. ASSUME NEW q \in Priority, NEW i \in 1..Len(outqueue'[q])
       PROVE  /\ outqueue'[q][i].msg # m /\ (q = prio[m] => m < outqueue'[q][i].msg)
              /\ outqueue'[q][i].redirect # None => outqueue'[q][i].redirect # r
  <2>1. /\ i + d[q] \in 1..Len(outqueue[q]) /\ outqueue'[q][i] = outqueue[q][i + d[q]]
        /\ i \in Nat \ {0} /\ (q = p => i + d[q] > 1)
    BY <1>8, <1>10, <1>11
  <2>2. /\ prio[outqueue[q][i + d[q]].msg] = q
        /\ q = p => outqueue[p][1].msg < outqueue[q][i + d[q]].msg
    BY <1>4, <2>1 DEF Sound, CalmInv, QueueSorted
  <2>3. outqueue[q][i + d[q]].msg \in Nat /\ m \in Nat
    BY <1>8, <2>1, Members, <1>m
  <2>4. outqueue'[q][i].msg # m /\ (q = prio[m] => m < outqueue'[q][i].msg)
    BY <1>3, <1>13, <2>1, <2>2, <2>3
  <2>5. ASSUME outqueue'[q][i].redirect # None, outqueue'[q][i].redirect = r
        PROVE  FALSE
    <3>1. r # None /\ outqueue[p][1].redirect = r /\ outqueue[q][i + d[q]].redirect = r
      BY <1>5, <2>1, <2>5
    <3>2. q = p /\ i + d[q] = 1
      BY <1>4, <2>1, <3>1 DEF Sound, CalmInv, RedirectsOnce
    <3> QED BY <2>1, <3>2
  <2> QED BY <2>4, <2>5
<1>16. \A q \in Priority : \A i \in 1..Len(outqueue[q]) :
          outqueue[q][i].msg = m
             \/ \E j \in 1..Len(outqueue'[q]) : outqueue'[q][j] = outqueue[q][i]
  <2> TAKE q \in Priority
  <2> TAKE i \in 1..Len(outqueue[q])
  <2>1. CASE q # p
    BY <1>9, <2>1
  <2>2. CASE q = p /\ i = 1
    BY <1>3, <2>2
  <2>3. CASE q = p /\ i # 1
    <3>1. /\ i - 1 \in 1..Len(outqueue'[q]) /\ (i - 1) + d[q] = i
      BY <1>8, <1>10, <1>11, <2>3
    <3>2. outqueue'[q][i - 1] = outqueue[q][i]
      BY <1>11, <3>1
    <3> QED BY <3>1, <3>2
  <2> QED BY <2>1, <2>2, <2>3
<1>17. FramesHold'
  <2>1. Len(stack) = 1
    <3>1. Len(stack) > 1 => Top.kind \in FreshKind
      BY <1>m, <1>1 DEF Nested
    <3>2. Top.kind \notin FreshKind
      BY <1>m DEF FreshKind
    <3>3. PICK n \in Nat \ {0} : n = Len(stack)
      BY <1>1
    <3>4. ~ (n > 1)
      BY <3>1, <3>2, <3>3
    <3>5. n = 1
      BY <3>4
    <3> QED BY <3>3, <3>5
  <2>2. Len(stack') = 0
    BY <1>m, <1>u, <2>1, TopFacts
  <2> QED BY <2>2 DEF FramesHold
<1>18. r # None => Known(r)
  <2>1. r # None => \E k \in 1..Len(redirects) : redirects[k].id = r
    BY <1>4, <1>5 DEF Sound, CalmInv, RedirectsOnce
  <2> QED BY <2>1 DEF Known
<1>19. Departs(m, r, d)
  BY <1>m, <1>u, <1>v, <1>7, <1>11, <1>12, <1>13, <1>14, <1>15, <1>16, <1>18 DEF Departs
<1> QED BY <1>17, <1>19, DepartStep

\* irc_redirect_stop goes on: the redirection is still in the list, and since it
\* has started no message waits with it.
LEMMA RedirectStoppedStep ==
    ASSUME Sound, RedirectStopped
    PROVE  CalmInv'
<1>m. /\ Typed /\ Nested /\ stack # <<>> /\ Top.kind = "stop" /\ Top.redirect \in Message
      /\ Top \in Frame
  BY InFacts, TopFacts, TopSound DEF Sound, CalmInv, RedirectStopped
<1>u. UNCHANGED <<connected, buffer, since, next, prio, wire, gone, elapsed>> /\ stack' = Pop
  BY DEF RedirectStopped, historyVars
<1>v. PICK r \in Message : r = Top.redirect
  BY <1>m
<1>1. /\ connected /\ Nested' /\ Len(stack) \in Nat \ {0} /\ Top = stack[Len(stack)]
      /\ \A i \in 1..Len(stack') : i \in 1..Len(stack) /\ stack'[i] = stack[i]
                                     /\ stack[i].kind \notin FreshKind
      /\ \A i \in 1..Len(stack) : i \in 1..Len(stack') \/ i = Len(stack)
  BY <1>m, <1>u, PopNested
<1>2. \E k \in 1..Len(redirects) : redirects[k].id = r /\ redirects[k].started
  BY <1>m, <1>v, <1>1 DEF Sound, CalmInv, FramesHold, FrameHolds
<1>3. Known(r) /\ Freed(r) /\ ~ crashed'
  <2>1. Known(r)
    BY <1>2 DEF Known
  <2> QED BY <1>v, <2>1 DEF RedirectStopped
<1>4. PICK k \in 1..Len(redirects) :
         /\ redirects[k].id = r
         /\ Len(redirects') = Len(redirects) - 1
         /\ \A i \in 1..Len(redirects') :
               redirects'[i] = IF i < k THEN redirects[i] ELSE redirects[i + 1]
  BY <1>m, <1>3, FreedFacts
<1>5. \A q \in Priority :
         /\ Len(outqueue'[q]) = Len(outqueue[q])
         /\ \A i \in 1..Len(outqueue[q]) :
               /\ outqueue'[q][i].msg = outqueue[q][i].msg
               /\ outqueue'[q][i].redirect =
                     IF outqueue[q][i].redirect = r THEN None ELSE outqueue[q][i].redirect
  BY <1>m, <1>3, FreedFacts
<1>6. \A q \in Priority : \A i \in 1..Len(outqueue[q]) : outqueue[q][i].redirect # r
  <2> TAKE q \in Priority
  <2> TAKE i \in 1..Len(outqueue[q])
  <2> SUFFICES ASSUME outqueue[q][i].redirect = r PROVE FALSE
    OBVIOUS
  <2>1. r # None
    BY Numbers DEF Message, None
  <2>2. PICK l \in 1..Len(redirects) : redirects[l].id = r /\ ~ redirects[l].started
    BY <2>1 DEF Sound, CalmInv, RedirectsOnce
  <2>3. PICK j \in 1..Len(redirects) : redirects[j].id = r /\ redirects[j].started
    BY <1>2
  <2>4. l = j
    BY <2>2, <2>3 DEF Sound, CalmInv, RedirectsOnce
  <2> QED BY <2>2, <2>3, <2>4
<1>7. \A q \in Priority : \A i \in 1..Len(outqueue[q]) :
         outqueue'[q][i].redirect = outqueue[q][i].redirect
  BY <1>5, <1>6
<1>8. FramesHold'
  <2>1. Len(stack) = 1
    <3>1. Len(stack) > 1 => Top.kind \in FreshKind
      BY <1>m, <1>1 DEF Nested
    <3>2. Top.kind \notin FreshKind
      BY <1>m DEF FreshKind
    <3>3. PICK n \in Nat \ {0} : n = Len(stack)
      BY <1>1
    <3>4. ~ (n > 1)
      BY <3>1, <3>2, <3>3
    <3>5. n = 1
      BY <3>4
    <3> QED BY <3>3, <3>5
  <2>2. Len(stack') = 0
    BY <1>m, <1>u, <2>1, TopFacts
  <2> QED BY <2>2 DEF FramesHold
<1>9. QueueSorted'
  <2>1. ASSUME NEW q \in Priority, NEW i \in 1..Len(outqueue'[q])
        PROVE  i \in 1..Len(outqueue[q]) /\ outqueue'[q][i].msg = outqueue[q][i].msg
    BY <1>5
  <2> QED BY <1>u, <2>1 DEF Sound, CalmInv, QueueSorted
<1>10. WireSorted'
  BY <1>u DEF Sound, CalmInv, WireSorted
<1>11. Accounted'
  <2>1. ASSUME NEW x, Waits(x)
        PROVE  Waits(x)'
    <3>1. PICK q \in Priority : \E i \in 1..Len(outqueue[q]) : outqueue[q][i].msg = x
      BY <2>1 DEF Waits
    <3> QED BY <1>5, <3>1 DEF Waits
  <2>2. ASSUME NEW x \in 1 .. next' - 1
        PROVE  x \in gone' \/ Waits(x)' \/ OnSocket(x)'
    <3>1. \/ x \in gone \/ Waits(x) \/ OnSocket(x)
          \/ \E i \in 1..Len(stack) : stack[i].kind \in FreshKind /\ stack[i].msg = x
      BY <1>1, <1>u DEF Sound, CalmInv, Accounted
    <3>2. \A i \in 1..Len(stack) : stack[i].kind \notin FreshKind
      BY <1>m, <1>1 DEF FreshKind
    <3> QED BY <1>u, <2>1, <3>1, <3>2 DEF OnSocket
  <2> QED BY <1>u, <2>2 DEF Sound, CalmInv, Accounted
<1>12. Aged'
  BY <1>u DEF Sound, CalmInv, Aged
<1>13. RedirectsOnce'
  <2>n. Len(redirects) \in Nat
    BY <1>m, Members
  <2>1. PICK Old \in [1..Len(redirects') -> 1..Len(redirects)] :
           /\ \A i \in 1..Len(redirects') : redirects'[i] = redirects[Old[i]]
           /\ \A i, j \in 1..Len(redirects') : Old[i] = Old[j] => i = j
    <3> DEFINE f == [i \in 1..Len(redirects') |-> IF i < k THEN i ELSE i + 1]
    <3>1. f \in [1..Len(redirects') -> 1..Len(redirects)]
      BY <1>4, <2>n
    <3>2. \A i \in 1..Len(redirects') : redirects'[i] = redirects[f[i]]
      BY <1>4
    <3>3. \A i, j \in 1..Len(redirects') : f[i] = f[j] => i = j
      BY <1>4, <2>n
    <3> HIDE DEF f
    <3> QED BY <3>1, <3>2, <3>3
  <2>2. \A i, j \in 1..Len(redirects') : redirects'[i].id = redirects'[j].id => i = j
    BY <2>1 DEF Sound, CalmInv, RedirectsOnce
  <2>3. \A i \in 1..Len(redirects') :
           redirects'[i].id < next' /\ (redirects'[i].started => redirects'[i].assigned)
    BY <1>u, <2>1 DEF Sound, CalmInv, RedirectsOnce
  <2>4. ASSUME NEW q \in Priority, NEW i \in 1..Len(outqueue'[q]), outqueue'[q][i].redirect # None
        PROVE  /\ \E l \in 1..Len(redirects') :
                     /\ redirects'[l].id = outqueue'[q][i].redirect
                     /\ redirects'[l].assigned /\ ~ redirects'[l].started
               /\ \A s \in Priority : \A j \in 1..Len(outqueue'[s]) :
                     outqueue'[s][j].redirect = outqueue'[q][i].redirect => s = q /\ j = i
    <3>1. PICK x : x = outqueue'[q][i].redirect
      OBVIOUS
    <3>2. i \in 1..Len(outqueue[q]) /\ outqueue[q][i].redirect = x /\ x # None /\ x # r
      BY <1>5, <1>6, <1>7, <2>4, <3>1
    <3>3. PICK l \in 1..Len(redirects) :
             redirects[l].id = x /\ redirects[l].assigned /\ ~ redirects[l].started
      BY <3>2 DEF Sound, CalmInv, RedirectsOnce
    <3>4. \E j \in 1..Len(redirects') : redirects'[j] = redirects[l]
      <4>1. l # k
        BY <1>4, <3>2, <3>3
      <4>2. CASE l < k
        <5>1. l \in 1..Len(redirects') /\ redirects'[l] = redirects[l]
          BY <1>4, <2>n, <4>2
        <5> QED BY <5>1
      <4>3. CASE l > k
        <5>1. l - 1 \in 1..Len(redirects') /\ redirects'[l - 1] = redirects[(l - 1) + 1]
              /\ (l - 1) + 1 = l
          BY <1>4, <2>n, <4>3
        <5> QED BY <5>1
      <4> QED BY <2>n, <4>1, <4>2, <4>3
    <3>5. \A s \in Priority : \A j \in 1..Len(outqueue[s]) :
             outqueue[s][j].redirect = x => s = q /\ j = i
      BY <3>2 DEF Sound, CalmInv, RedirectsOnce
    <3>6. \A s \in Priority : \A j \in 1..Len(outqueue'[s]) :
             outqueue'[s][j].redirect = x => s = q /\ j = i
      <4> TAKE s \in Priority
      <4> TAKE j \in 1..Len(outqueue'[s])
      <4>1. j \in 1..Len(outqueue[s])
        BY <1>5
      <4>2. outqueue'[s][j].redirect = outqueue[s][j].redirect
        BY <1>7, <4>1
      <4> QED BY <3>5, <4>1, <4>2
    <3> QED BY <3>1, <3>3, <3>4, <3>6
  <2> QED BY <2>2, <2>3, <2>4 DEF RedirectsOnce
<1> QED BY <1>1, <1>3, <1>8, <1>9, <1>10, <1>11, <1>12, <1>13 DEF CalmInv

-----------------------------------------------------------------------------
(* The invariant, and what follows from it.                                *)

LEMMA InitSound ==
    ASSUME Init
    PROVE  Typed /\ FrameSound /\ RedirectsAllocated /\ CalmInv
<1>0. Len(stack) = 0 /\ Len(wire) = 0 /\ Len(redirects) = 0 /\ gone = {} /\ next = 1
  BY DEF Init
<1>1. outqueue = Empty /\ \A p \in Priority : outqueue[p] = <<>> /\ Len(outqueue[p]) = 0
  BY DEF Init, Empty
<1>2. Typed
  <2>1. outqueue \in [Priority -> Seq(Item)] /\ stack \in Seq(Frame) /\ wire \in Seq(Sent)
        /\ redirects \in Seq(Redirect)
    BY DEF Init, Empty
  <2>2. since \in -1 .. Patience /\ elapsed \in [Priority -> 0 .. Patience]
        /\ prio \in [Message -> {None} \cup Priority]
    BY Numbers DEF Init
  <2>3. next \in 1 .. MaxMessages + 1 /\ connects \in 1 .. MaxConnects /\ backs \in 0 .. MaxBacks
    BY Numbers DEF Init
  <2> QED BY <2>1, <2>2, <2>3 DEF Init, Typed
<1>3. FrameSound /\ FramesHold /\ RedirectsAllocated /\ QueueSorted /\ WireSorted
  BY <1>0, <1>1 DEF FrameSound, FramesHold, RedirectsAllocated, QueueSorted, WireSorted
<1>4. Nested /\ RedirectsOnce
  BY <1>0, <1>1 DEF Init, Nested, RedirectsOnce
<1>5. Accounted
  BY <1>0 DEF Accounted
<1>6. Aged
  BY Numbers DEF Init, Aged
<1> QED BY <1>2, <1>3, <1>4, <1>5, <1>6 DEF Init, CalmInv

LEMMA SoundStep ==
    ASSUME Calm, Sound, Next
    PROVE  Sound'
<1>1. Typed' /\ FrameSound'
  BY TypedStep, FrameSoundStep DEF Sound
<1>2. CalmInv'
  <2>1. CASE \E p \in Priority \cup {None}, redirected \in BOOLEAN : Send(p, redirected)
    BY <2>1, SendStep
  <2>2. CASE Ends
    BY <2>2, DroppedStep, WaitStep, PassStep, SendEndsStep, OutqueueSentStep, RedirectStoppedStep
       DEF Ends
  <2>3. CASE Timer
    BY <2>3, TimeStep, OutqueueSendStep DEF Timer
  <2>4. CASE \E i \in 1..Len(redirects) : RedirectStop(i)
    BY <2>4, RedirectStopStep
  <2>5. CASE Disconnect \/ Connect \/ DelOutq \/ Tick \/ ClockBack
    BY <2>5, EmptyStep, TimeStep
  <2> QED BY <2>1, <2>2, <2>3, <2>4, <2>5 DEF Next
<1> QED BY <1>1, <1>2 DEF Sound

LEMMA Unchanged ==
    ASSUME UNCHANGED vars
    PROVE  /\ Typed => Typed'
           /\ FrameSound => FrameSound'
           /\ RedirectsAllocated => RedirectsAllocated'
           /\ Sound => Sound'
<1>1. Typed => Typed'
  BY DEF vars, Typed
<1>2. FrameSound => FrameSound'
  BY DEF vars, FrameSound
<1>3. RedirectsAllocated => RedirectsAllocated'
  BY DEF vars, RedirectsAllocated, Known
<1>4. CalmInv => CalmInv'
  <2>1. Nested => Nested'
    BY DEF vars, Nested
  <2>2. FramesHold => FramesHold'
    <3>1. ASSUME NEW f, FrameHolds(f)
          PROVE  FrameHolds(f)'
      BY <3>1 DEF vars, FrameHolds, Waits, OnSocket
    <3>2. ASSUME FramesHold, NEW i \in 1..Len(stack'), NEW f, f = stack'[i]
          PROVE  FrameHolds(f)'
      <4>1. FrameHolds(f)
        BY <3>2 DEF vars, FramesHold
      <4> QED BY <3>1, <4>1
    <3> QED BY <3>2 DEF FramesHold
  <2>3. QueueSorted => QueueSorted'
    BY DEF vars, QueueSorted
  <2>4. WireSorted => WireSorted'
    BY DEF vars, WireSorted
  <2>5. Accounted => Accounted'
    BY DEF vars, Accounted, Waits, OnSocket
  <2>6. Aged => Aged'
    BY DEF vars, Aged
  <2>7. RedirectsOnce => RedirectsOnce'
    BY DEF vars, RedirectsOnce
  <2> QED BY <2>1, <2>2, <2>3, <2>4, <2>5, <2>6, <2>7 DEF CalmInv, vars
<1> QED BY <1>1, <1>2, <1>3, <1>4 DEF Sound

LEMMA AlwaysTyped == Spec => [](Typed /\ FrameSound /\ RedirectsAllocated)
<1>1. Init => Typed /\ FrameSound /\ RedirectsAllocated
  BY InitSound
<1>2. Typed /\ FrameSound /\ RedirectsAllocated /\ [Next]_vars
         => (Typed /\ FrameSound /\ RedirectsAllocated)'
  BY TypedStep, FrameSoundStep, AllocatedStep, Unchanged
<1> QED BY <1>1, <1>2, PTL DEF Spec

\* Types: whatever callbacks do, a function in progress knows which message or
\* redirection it is about (irc_server_send_one_msg, irc_server_outqueue_send,
\* irc_redirect_stop).
THEOREM TypeCorrect == Spec => []TypeOK
<1>1. Typed => TypeOK
  BY TypedIsTypeOK
<1> QED BY <1>1, AlwaysTyped, PTL

\* "remove any pointer to this redirect" (irc_redirect_free): whatever callbacks
\* do, no message waits in a queue with a redirection that was freed.
THEOREM RedirectsAlwaysAllocated == Spec => []RedirectsAllocated
BY AlwaysTyped, PTL

LEMMA AlwaysSound ==
    ASSUME Calm
    PROVE  Spec => []Sound
<1>1. Init => Sound
  BY InitSound DEF Sound
<1>2. Sound /\ [Next]_vars => Sound'
  BY SoundStep, Unchanged
<1> QED BY <1>1, <1>2, PTL DEF Spec

\* Messages of one priority leave in their order, each as it was announced, and
\* none is forgotten, if the callbacks of a message's own signals send nothing
\* and no callback disconnects (irc_server_send_one_msg,
\* irc_server_outqueue_send).
THEOREM MessagesAlwaysKept ==
    ASSUME Calm
    PROVE  Spec => []MessagesKept
<1>1. Sound => MessagesKept
  <2> SUFFICES ASSUME Sound PROVE MessagesKept
    OBVIOUS
  <2>m. Typed
    BY DEF Sound
  <2>1. TypeOK
    BY <2>m, TypedIsTypeOK
  <2>2. OrderKept /\ AnnouncedIsSent
    BY DEF Sound, CalmInv, WireSorted, OrderKept, AnnouncedIsSent
  <2>3. \A m : (m \in Queued <=> Waits(m)) /\ (m \in OnWire <=> OnSocket(m))
    BY DEF Queued, Messages, ItemsOf, Waits, OnWire, OnSocket
  <2>4. ASSUME connected, NEW m \in 1 .. next - 1
        PROVE  m \in gone \cup Queued \cup InFrames \cup OnWire
    <3>1. \/ m \in gone \/ Waits(m) \/ OnSocket(m)
          \/ \E i \in 1..Len(stack) : stack[i].kind \in FreshKind /\ stack[i].msg = m
      BY <2>4 DEF Sound, CalmInv, Accounted
    <3>2. (\E i \in 1..Len(stack) : stack[i].msg = m) => m \in InFrames
      BY DEF InFrames, Messages, ItemsOf
    <3> QED BY <2>3, <3>1, <3>2
  <2>5. ASSUME NEW m, Waits(m)
        PROVE  m \notin gone /\ ~ OnSocket(m)
    <3>1. PICK p \in Priority : \E i \in 1..Len(outqueue[p]) : outqueue[p][i].msg = m
      BY <2>5 DEF Waits
    <3>2. PICK i \in 1..Len(outqueue[p]) : outqueue[p][i].msg = m
      BY <3>1
    <3>3. /\ m \notin gone /\ prio[m] = p
          /\ \A j \in 1..Len(wire) : prio[wire[j].msg] = p => wire[j].msg < m
      BY <3>2 DEF Sound, CalmInv, QueueSorted
    <3>4. m \in Nat
      <4>1. m \in Message
        BY <2>m, <3>2, Members
      <4> QED BY <2>m, <4>1, Members
    <3> QED BY <3>3, <3>4 DEF OnSocket
  <2>6. ASSUME NEW m, OnSocket(m)
        PROVE  m \notin gone
    BY <2>6 DEF Sound, CalmInv, WireSorted, OnSocket
  <2>7. NothingLost
    BY <2>3, <2>4, <2>5, <2>6 DEF NothingLost
  <2> QED BY <2>1, <2>2, <2>7 DEF MessagesKept
<1> QED BY <1>1, AlwaysSound, PTL

\* A set whose members are all equal has at most one.
LEMMA AtMostOne ==
    ASSUME NEW S, \A x, y \in S : x = y
    PROVE  Cardinality(S) <= 1
<1>1. CASE S = {}
  BY <1>1, FS_EmptySet
<1>2. CASE S # {}
  <2>1. PICK x \in S : TRUE
    BY <1>2
  <2>2. S = {x}
    BY <2>1
  <2>3. Cardinality({x}) = 1
    BY FS_Singleton
  <2> QED BY <2>2, <2>3
<1> QED BY <1>1, <1>2

\* A redirection waits with one message, or is with the one being sent, or was
\* started for one, and is in memory meanwhile (irc_redirect_search_available,
\* irc_redirect_init_command, irc_redirect_free).
THEOREM RedirectsAlwaysSound ==
    ASSUME Calm
    PROVE  Spec => []RedirectsSound
<1>1. Sound => RedirectUsedOnce
  <2> SUFFICES ASSUME Sound, NEW r \in Message PROVE Cardinality(Users(r)) <= 1
    BY DEF RedirectUsedOnce
  <2>m. Typed /\ r # None /\ Nested
    BY Numbers DEF Sound, CalmInv, Message, None
  <2> DEFINE
        WithQueue(x) == \E p \in Priority : \E i \in 1..Len(outqueue[p]) :
                           outqueue[p][i].redirect = r /\ outqueue[p][i].msg = x
        WithFrame(x) == \E i \in 1..Len(stack) :
                           /\ stack[i].redirect = r /\ stack[i].kind = "send"
                           /\ stack[i].msg = x
        WithList(x)  == \E i \in 1..Len(redirects) :
                           redirects[i].id = r /\ redirects[i].started /\ redirects[i].command = x
  <2>1. ASSUME NEW u, u \in Users(r)
        PROVE  WithQueue(u) \/ WithFrame(u) \/ WithList(u)
    <3> DEFINE Q(p) == {x.msg : x \in {y \in ItemsOf(outqueue[p]) : y.redirect = r}}
               F    == {x.msg : x \in {y \in ItemsOf(stack) : y.redirect = r /\ y.kind = "send"}}
               L    == {x.command : x \in {y \in ItemsOf(redirects) : y.id = r /\ y.started}}
    <3>1. u \in (UNION {Q(p) : p \in Priority}) \cup F \cup L
      BY <2>1 DEF Users
    <3>2. ASSUME NEW p \in Priority, u \in Q(p)
          PROVE  WithQueue(u)
      BY <3>2 DEF ItemsOf
    <3>3. u \in F => WithFrame(u)
      BY DEF ItemsOf
    <3>4. u \in L => WithList(u)
      BY DEF ItemsOf
    <3> HIDE DEF WithQueue, WithFrame, WithList, Q, F, L
    <3>5. (\E p \in Priority : u \in Q(p)) \/ u \in F \/ u \in L
      BY <3>1
    <3> QED BY <3>2, <3>3, <3>4, <3>5
  <2>2. \A i, j \in 1..Len(redirects) : redirects[i].id = redirects[j].id => i = j
    BY DEF Sound, CalmInv, RedirectsOnce
  <2>3. \A i \in 1..Len(redirects) : redirects[i].started => redirects[i].assigned
    BY DEF Sound, CalmInv, RedirectsOnce
  <2>4. ASSUME NEW x, WithQueue(x)
        PROVE  \E k \in 1..Len(redirects) :
                  redirects[k].id = r /\ redirects[k].assigned /\ ~ redirects[k].started
    BY <2>m, <2>4 DEF Sound, CalmInv, RedirectsOnce
  <2>5. ASSUME NEW x, WithFrame(x)
        PROVE  \E k \in 1..Len(redirects) : redirects[k].id = r /\ ~ redirects[k].assigned
    BY <2>m, <2>5 DEF Sound, CalmInv, FramesHold, FrameHolds
  <2>6. ASSUME NEW x, NEW y, WithQueue(x), WithQueue(y)
        PROVE  x = y
    BY <2>m, <2>6 DEF Sound, CalmInv, RedirectsOnce
  <2>7. ASSUME NEW x, NEW y, WithFrame(x), WithFrame(y)
        PROVE  x = y
    <3>1. ASSUME NEW z, WithFrame(z)
          PROVE  z = next - 1
      BY <3>1 DEF Sound, CalmInv, FramesHold, FrameHolds, FreshKind
    <3> QED BY <2>7, <3>1
  <2>8. ASSUME NEW x, NEW y, WithList(x), WithList(y)
        PROVE  x = y
    BY <2>2, <2>8
  <2>9. ASSUME NEW x, NEW y, WithList(x), WithQueue(y)
        PROVE  FALSE
    <3>1. PICK k \in 1..Len(redirects) : redirects[k].id = r /\ ~ redirects[k].started
      BY <2>4, <2>9
    <3>2. PICK l \in 1..Len(redirects) : redirects[l].id = r /\ redirects[l].started
      BY <2>9
    <3> QED BY <2>2, <3>1, <3>2
  <2>10. ASSUME NEW x, NEW y, WithFrame(x), WithQueue(y) \/ WithList(y)
         PROVE  FALSE
    <3>1. PICK k \in 1..Len(redirects) : redirects[k].id = r /\ ~ redirects[k].assigned
      BY <2>5, <2>10
    <3>2. \E l \in 1..Len(redirects) : redirects[l].id = r /\ redirects[l].assigned
      <4>1. CASE WithQueue(y)
        BY <2>4, <4>1
      <4>2. CASE WithList(y)
        BY <2>3, <4>2
      <4> QED BY <2>10, <4>1, <4>2
    <3> QED BY <2>2, <3>1, <3>2
  <2> HIDE DEF WithQueue, WithFrame, WithList
  <2>11. ASSUME NEW x \in Users(r), NEW y \in Users(r)
         PROVE  x = y
    <3>1. WithQueue(x) \/ WithFrame(x) \/ WithList(x)
      BY <2>1
    <3>2. WithQueue(y) \/ WithFrame(y) \/ WithList(y)
      BY <2>1
    <3> QED BY <2>6, <2>7, <2>8, <2>9, <2>10, <3>1, <3>2
  <2> QED BY <2>11, AtMostOne
<1>2. Sound => NoFreedMemoryUsed
  BY DEF Sound, CalmInv, NoFreedMemoryUsed
<1>3. RedirectUsedOnce /\ NoFreedMemoryUsed /\ RedirectsAllocated => RedirectsSound
  BY DEF RedirectsSound
<1> QED BY <1>1, <1>2, <1>3, AlwaysSound, RedirectsAlwaysAllocated, PTL

\* "anti-flood ...: number of seconds between two user messages": what goes to
\* the socket was allowed by the delay of its priority, in true time, although
\* the clock may be set back and callbacks send messages
\* (irc_server_send_one_msg, irc_server_outqueue_send).
THEOREM AlwaysThrottled ==
    ASSUME Calm
    PROVE  Spec => Throttled
<1> DEFINE Allowed == \A p \in Priority :
              (Len(wire') > Len(wire) /\ prio[wire'[Len(wire')].announced] = p)
                 => elapsed[p] >= AntiFlood[p]
<1>1. ASSUME Sound, Next
      PROVE  Allowed
  <2>m. Typed /\ Len(wire) \in Nat
    BY <1>1, Members DEF Sound
  <2>1. ASSUME wire' = wire \/ wire' = <<>>
        PROVE  Allowed
    BY <2>m, <2>1
  <2>2. ASSUME NEW ok, NEW msg, ToSocket(ok, msg), stack # <<>>, Top.kind \in {"send", "queue"}
        PROVE  Allowed
    <3>1. CASE ~ ok
      BY <2>1, <2>2, <3>1 DEF ToSocket
    <3>2. CASE ok
      <4>1. /\ Top = stack[Len(stack)] /\ Len(stack) \in 1..Len(stack) /\ Top.msg \in Message
        BY <1>1, <2>m, <2>2, TopFacts, TopSound DEF Sound
      <4>2. FrameHolds(Top)
        BY <1>1, <4>1 DEF Sound, CalmInv, FramesHold
      <4>3. ASSUME NEW p \in Priority, prio[Top.msg] = p
            PROVE  elapsed[p] >= AntiFlood[p]
        <5>1. CASE Top.kind = "send"
          <6>1. Top.prio = p /\ p # None
            BY <4>2, <4>3, <5>1 DEF FrameHolds, FreshKind, Priority, None
          <6> QED BY <4>2, <5>1, <6>1 DEF FrameHolds
        <5>2. CASE Top.kind = "queue"
          <6>1. Top.prio \in Priority
            BY <1>1, <2>m, <2>2, <5>2, TopSound DEF Sound
          <6>2. /\ Len(outqueue[Top.prio]) > 0 /\ outqueue[Top.prio][1].msg = Top.msg
                /\ elapsed[Top.prio] >= AntiFlood[Top.prio]
            BY <4>2, <5>2 DEF FrameHolds
          <6>3. 1 \in 1..Len(outqueue[Top.prio])
            BY <2>m, <6>1, <6>2, Members
          <6>4. prio[Top.msg] = Top.prio
            BY <1>1, <6>1, <6>2, <6>3 DEF Sound, CalmInv, QueueSorted
          <6> QED BY <4>3, <6>2, <6>4
        <5> QED BY <2>2, <5>1, <5>2
      <4>4. wire'[Len(wire')].announced = Top.msg
        BY <2>2, <2>m, <3>2 DEF ToSocket, Typed
      <4> QED BY <4>3, <4>4
    <3> QED BY <3>1, <3>2
  <2>3. CASE SendEnds
    BY <2>2, <2>3, InFacts DEF SendEnds
  <2>4. CASE OutqueueSent
    BY <2>1, <2>2, <2>4, InFacts DEF OutqueueSent, Leaves, historyVars
  <2>5. CASE \/ \E p \in Priority \cup {None}, redirected \in BOOLEAN : Send(p, redirected)
             \/ Dropped \/ Modified \/ RedirectStopped
    BY <2>1, <2>5 DEF Send, Dropped, Modified, RedirectStopped, historyVars
  <2>6. CASE \/ Timer \/ \E i \in 1..Len(redirects) : RedirectStop(i)
             \/ Disconnect \/ Connect \/ DelOutq \/ Tick \/ ClockBack
    BY <2>1, <2>6 DEF Timer, OutqueueIdle, OutqueueSend, RedirectStop, Disconnect, Connect,
                      DelOutq, Tick, ClockBack, historyVars
  <2> QED BY <1>1, <2>3, <2>4, <2>5, <2>6 DEF Next, Ends
<1>2. Sound /\ [Next]_vars => [Allowed]_vars
  BY <1>1
<1>3. Spec => []Sound
  BY AlwaysSound
<1> QED BY <1>2, <1>3, PTL DEF Spec, Throttled
=============================================================================
