----------------------------- MODULE HookProofs -----------------------------
(***************************************************************************)
(* Theorems about the hooks, for every value of the constants.             *)
(*                                                                         *)
(* HookDispatch: the memory safety and the order of the hook lists, and    *)
(* the calls of the dispatch loops, for every set of hooks, plugins and    *)
(* names and every depth of nested loops.                                  *)
(*                                                                         *)
(* HookProcess (second half): the output of a child is neither lost nor    *)
(* written past a buffer, its end is reported once, after its output, no   *)
(* zombie is left, and a timeout that is a multiple of the interval kills  *)
(* neither early nor a child that has ended in time.                       *)
(***************************************************************************)
EXTENDS HookDispatch, HookProcess, FiniteSetTheorems, SequenceTheorems, TLAPS

(***************************************************************************)
(* Sequences: what push, pop and a change of the last element do.          *)
(***************************************************************************)
\* Pushing a frame keeps the frames below it.
LEMMA PushFacts ==
    ASSUME NEW S, NEW s \in Seq(S), NEW e \in S
    PROVE  /\ Append(s, e) \in Seq(S)
           /\ Len(Append(s, e)) = Len(s) + 1
           /\ \A i \in 1..Len(s) : Append(s, e)[i] = s[i]
           /\ Append(s, e)[Len(s) + 1] = e
    OBVIOUS

\* Changing the last frame keeps the others.
LEMMA SetLastFacts ==
    ASSUME NEW S, NEW s \in Seq(S), s # <<>>, NEW e \in S
    PROVE  /\ [s EXCEPT ![Len(s)] = e] \in Seq(S)
           /\ Len([s EXCEPT ![Len(s)] = e]) = Len(s)
           /\ \A i \in 1..Len(s) - 1 : [s EXCEPT ![Len(s)] = e][i] = s[i]
           /\ [s EXCEPT ![Len(s)] = e][Len(s)] = e
    OBVIOUS

\* Popping the last frame keeps the others.
LEMMA PopFacts ==
    ASSUME NEW S, NEW s \in Seq(S), s # <<>>
    PROVE  /\ SubSeq(s, 1, Len(s) - 1) \in Seq(S)
           /\ Len(SubSeq(s, 1, Len(s) - 1)) = Len(s) - 1
           /\ \A i \in 1..Len(s) - 1 : SubSeq(s, 1, Len(s) - 1)[i] = s[i]
<1>1. Len(s) \in Nat /\ Len(s) # 0
    OBVIOUS
<1>2. \A i \in 1..Len(s) - 1 : s[i] \in S
    BY <1>1
<1>3. SubSeq(s, 1, Len(s) - 1) \in Seq(S)
    BY <1>1, <1>2, SubSeqProperties
<1>4. Len(SubSeq(s, 1, Len(s) - 1)) =
        IF 1 <= Len(s) - 1 THEN (Len(s) - 1) - 1 + 1 ELSE 0
    BY <1>1, <1>2, SubSeqProperties
<1>5. \A i \in 1..(Len(s) - 1) - 1 + 1 : SubSeq(s, 1, Len(s) - 1)[i] = s[1 + i - 1]
    BY <1>1, <1>2, SubSeqProperties
<1>6. \A i \in 1..Len(s) - 1 : SubSeq(s, 1, Len(s) - 1)[i] = s[i]
    BY <1>1, <1>5
<1>7. Len(SubSeq(s, 1, Len(s) - 1)) = Len(s) - 1
    <2> DEFINE n == Len(s)
               k == Len(SubSeq(s, 1, Len(s) - 1))
    <2>1. n \in Nat /\ n # 0 /\ k = IF 1 <= n - 1 THEN (n - 1) - 1 + 1 ELSE 0
        BY <1>1, <1>4
    <2> HIDE DEF n, k
    <2>2. k = n - 1
        BY <2>1
    <2> QED BY <2>2 DEF n, k
<1> QED BY <1>3, <1>6, <1>7, Zenon

(***************************************************************************)
(* The loops counted in a stack, and how push, pop and a change of the     *)
(* last frame change their number.                                         *)
(***************************************************************************)
Counted(s) == {i \in 1..Len(s) : Guarded(s[i])}

\* The loops of a stack are finitely many.
LEMMA CountedFinite ==
    ASSUME NEW s \in Seq(Frame)
    PROVE  /\ IsFiniteSet(Counted(s))
           /\ Cardinality(Counted(s)) \in Nat
           /\ Cardinality(Counted(s)) = 0 <=> \A i \in 1..Len(s) : ~ Guarded(s[i])
<1>1. Len(s) \in Nat
    OBVIOUS
<1>2. IsFiniteSet(1..Len(s))
    BY <1>1, FS_Interval
<1>3. IsFiniteSet(Counted(s))
    BY <1>2, FS_Subset DEF Counted
<1>4. Cardinality(Counted(s)) \in Nat
    BY <1>3, FS_CardinalityType
<1>5. Cardinality(Counted(s)) = 0 <=> Counted(s) = {}
    BY <1>3, FS_EmptySet
<1> QED BY <1>3, <1>4, <1>5 DEF Counted

\* A new loop adds one to the count if it is guarded.
LEMMA PushCount ==
    ASSUME NEW s \in Seq(Frame), NEW f \in Frame
    PROVE  Cardinality(Counted(Append(s, f))) =
             Cardinality(Counted(s)) + (IF Guarded(f) THEN 1 ELSE 0)
<1>0. Len(s) \in Nat
    OBVIOUS
<1>1. Counted(Append(s, f)) = Counted(s) \cup (IF Guarded(f) THEN {Len(s) + 1} ELSE {})
    BY <1>0, PushFacts DEF Counted
<1>2. Len(s) + 1 \notin Counted(s)
    BY <1>0 DEF Counted
<1>3. IsFiniteSet(Counted(s)) /\ Cardinality(Counted(s)) \in Nat
    BY CountedFinite
<1>4. CASE Guarded(f)
    <2>1. Counted(Append(s, f)) = Counted(s) \cup {Len(s) + 1}
        BY <1>1, <1>4
    <2> QED BY <2>1, <1>2, <1>3, <1>4, FS_AddElement DEF Guarded
<1>5. CASE ~ Guarded(f)
    <2>1. Counted(Append(s, f)) = Counted(s)
        BY <1>1, <1>5
    <2> QED BY <2>1, <1>3, <1>5 DEF Guarded
<1> QED BY <1>4, <1>5 DEF Guarded

\* The end of a guarded loop takes one from the count.
LEMMA PopCount ==
    ASSUME NEW s \in Seq(Frame), s # <<>>
    PROVE  Cardinality(Counted(SubSeq(s, 1, Len(s) - 1))) =
             Cardinality(Counted(s)) - (IF Guarded(s[Len(s)]) THEN 1 ELSE 0)
<1>0. Len(s) \in Nat /\ Len(s) # 0
    OBVIOUS
<1>1. Counted(SubSeq(s, 1, Len(s) - 1)) = Counted(s) \ {Len(s)}
    BY <1>0, PopFacts DEF Counted
<1>2. Len(s) \in Counted(s) <=> Guarded(s[Len(s)])
    BY <1>0 DEF Counted
<1>3. IsFiniteSet(Counted(s)) /\ Cardinality(Counted(s)) \in Nat
    BY CountedFinite
<1>4. Cardinality(Counted(s) \ {Len(s)}) =
        IF Len(s) \in Counted(s) THEN Cardinality(Counted(s)) - 1 ELSE Cardinality(Counted(s))
    BY <1>3, FS_RemoveElement
<1>5. CASE Guarded(s[Len(s)])
    <2>1. Cardinality(Counted(s) \ {Len(s)}) = Cardinality(Counted(s)) - 1
        BY <1>2, <1>4, <1>5
    <2> QED BY <2>1, <1>1, <1>5
<1>6. CASE ~ Guarded(s[Len(s)])
    <2>1. Cardinality(Counted(s) \ {Len(s)}) = Cardinality(Counted(s))
        BY <1>2, <1>4, <1>6
    <2>2. Cardinality(Counted(SubSeq(s, 1, Len(s) - 1))) = Cardinality(Counted(s))
        BY <2>1, <1>1
    <2>3. Cardinality(Counted(s)) - 0 = Cardinality(Counted(s))
        BY <1>3
    <2> QED BY <2>2, <2>3, <1>6, Zenon
<1> QED BY <1>5, <1>6

\* Changing the last frame changes the count if it becomes guarded.
LEMMA SetLastCount ==
    ASSUME NEW s \in Seq(Frame), s # <<>>, NEW f \in Frame,
           Guarded(s[Len(s)]) => Guarded(f)
    PROVE  Cardinality(Counted([s EXCEPT ![Len(s)] = f])) =
             Cardinality(Counted(s))
               + (IF Guarded(f) /\ ~ Guarded(s[Len(s)]) THEN 1 ELSE 0)
<1>0. Len(s) \in Nat /\ Len(s) # 0
    OBVIOUS
<1>1. Counted([s EXCEPT ![Len(s)] = f]) =
        Counted(s) \cup (IF Guarded(f) THEN {Len(s)} ELSE {})
    BY <1>0, SetLastFacts DEF Counted
<1>2. Len(s) \in Counted(s) <=> Guarded(s[Len(s)])
    BY <1>0 DEF Counted
<1>3. IsFiniteSet(Counted(s)) /\ Cardinality(Counted(s)) \in Nat
    BY CountedFinite
<1>4. CASE Guarded(f)
    <2>1. Counted([s EXCEPT ![Len(s)] = f]) = Counted(s) \cup {Len(s)}
        BY <1>1, <1>4
    <2>2. Cardinality(Counted(s) \cup {Len(s)}) =
            IF Len(s) \in Counted(s) THEN Cardinality(Counted(s))
                                     ELSE Cardinality(Counted(s)) + 1
        BY <1>3, FS_AddElement
    <2>3. CASE Guarded(s[Len(s)])
        <3>1. Cardinality(Counted(s) \cup {Len(s)}) = Cardinality(Counted(s))
            BY <1>2, <2>2, <2>3
        <3>2. Cardinality(Counted([s EXCEPT ![Len(s)] = f])) = Cardinality(Counted(s))
            BY <3>1, <2>1
        <3>3. Cardinality(Counted(s)) + 0 = Cardinality(Counted(s))
            BY <1>3
        <3> QED BY <3>2, <3>3, <2>3, Zenon
    <2>4. CASE ~ Guarded(s[Len(s)])
        <3>1. Cardinality(Counted(s) \cup {Len(s)}) = Cardinality(Counted(s)) + 1
            BY <1>2, <2>2, <2>4
        <3> QED BY <3>1, <2>1, <2>4, <1>4
    <2> QED BY <2>3, <2>4
<1>5. CASE ~ Guarded(f)
    <2>1. Counted([s EXCEPT ![Len(s)] = f]) = Counted(s)
        BY <1>1, <1>5
    <2> QED BY <2>1, <1>3, <1>5 DEF Guarded
<1> QED BY <1>4, <1>5 DEF Guarded

(***************************************************************************)
(* Type correctness.                                                       *)
(***************************************************************************)
\* The innermost loop is a frame.
LEMMA TopFrame ==
    ASSUME TypeOK, stack # <<>>
    PROVE  Depth \in Nat /\ Depth > 0 /\ Top \in Frame
    BY DEF TypeOK, Depth, Top

\* A change of the innermost loop keeps the type of the stack.
LEMMA SetTopType ==
    ASSUME TypeOK, stack # <<>>, NEW f \in Frame, SetTop(f)
    PROVE  stack' \in Seq(Frame)
    BY SetLastFacts DEF TypeOK, SetTop, Depth

\* The first hook of a list, or the next one, is a hook or NULL.
LEMMA NextType ==
    /\ \A t : HeadOf(t) \subseteq Hook \cup {NoHook}
    /\ \A h : NextOf(h) \subseteq Hook \cup {NoHook}
    BY DEF HeadOf, NextOf

\* The command that is chosen is a live hook of type command.
LEMMA CommandForLive ==
    ASSUME NEW n, NEW p, NEW any
    PROVE  CommandFor(n, p, any) \subseteq {h \in Hook : Live(h) /\ TypeOf[h] = "command"}
<1> DEFINE C       == {h \in Hook : Live(h) /\ TypeOf[h] = "command"}
           mine    == FirstOf({h \in Named(n) : PluginOf[h] = p})
           foreign == IF any THEN {h \in Named(n) : PluginOf[h] # p} ELSE {}
           other   == FirstOf(foreign)
           other2  == FirstOf(foreign \ other)
           before(A, B) == \E a \in A, b \in B : Priority[a] > Priority[b]
           level(A, B)  == \E a \in A, b \in B : Priority[a] = Priority[b]
<1>1. mine \subseteq C
    BY DEF FirstOf, Named
<1>2. other \subseteq C
    BY DEF FirstOf, Named
<1>3. Started(n) \subseteq C
    BY DEF Started
<1>4. CommandFor(n, p, any) =
        CASE mine = {} /\ other = {} ->
               IF Cardinality(Started(n)) = 1 THEN Started(n) ELSE {}
          [] mine = {} /\ other # {} -> IF level(other, other2) THEN {} ELSE other
          [] mine # {} -> IF before(other, mine) THEN other ELSE mine
    BY DEF CommandFor
<1> HIDE DEF C, mine, other, other2, before, level
<1>5. CommandFor(n, p, any) \subseteq C
    BY <1>1, <1>2, <1>3, <1>4
<1> QED BY <1>5 DEF C

\* The end of a loop keeps the types.
LEMMA LeaveType ==
    ASSUME TypeOK, stack # <<>>, Leave
    PROVE  /\ status' \in [Hook -> {"free", "live", "deleted"}]
           /\ precedes' \subseteq Hook \X Hook
           /\ recursion' \in Int /\ pending' \in BOOLEAN /\ stack' \in Seq(Frame)
<1>1. stack' \in Seq(Frame)
    BY PopFacts DEF TypeOK, Leave, Depth
<1>2. recursion' \in Int
    BY DEF TypeOK, Leave
<1>3. CASE recursion = 1 /\ pending
    <2>1. status' \in [Hook -> {"free", "live", "deleted"}]
        BY <1>3 DEF TypeOK, Leave
    <2>2. precedes' \subseteq Hook \X Hook /\ pending' \in BOOLEAN
        BY <1>3 DEF TypeOK, Leave, Without
    <2> QED BY <1>1, <1>2, <2>1, <2>2
<1>4. CASE ~ (recursion = 1 /\ pending)
    BY <1>1, <1>2, <1>4 DEF TypeOK, Leave
<1> QED BY <1>3, <1>4

\* unhook() and unhook_all_plugin() keep the types.
LEMMA UnhookType ==
    ASSUME TypeOK, NEW S \in SUBSET Hook, UnhookSet(S)
    PROVE  TypeOK'
<1>1. CASE recursion = 0
    BY <1>1 DEF TypeOK, UnhookSet, Without
<1>2. CASE recursion # 0
    BY <1>2 DEF TypeOK, UnhookSet
<1> QED BY <1>1, <1>2

\* hook_exec_start and the first hook of the list keep the types.
LEMMA StartLoopType ==
    TypeOK => \A t \in DispatchedType, n \in Name, g \in BOOLEAN,
                 p \in Plugin \cup {NoPlugin}, any \in BOOLEAN :
                 StartLoop(t, n, g, p, any) => TypeOK'
<1> SUFFICES ASSUME TypeOK, NEW t \in DispatchedType, NEW n \in Name, NEW g \in BOOLEAN,
                    NEW p \in Plugin \cup {NoPlugin}, NEW any \in BOOLEAN,
                    StartLoop(t, n, g, p, any)
             PROVE  TypeOK'
    OBVIOUS
<1>1. PICK first \in HeadOf(t) :
        stack' = Append(stack,
                   [type |-> t, name |-> n, cur |-> NoHook, next |-> first,
                    phase |-> "scan", gesture |-> g, plugin |-> p, any |-> any,
                    due |-> Due(t, n), called |-> {}])
    BY DEF StartLoop
<1>2. first \in Hook \cup {NoHook}
    BY NextType
<1>3. [type |-> t, name |-> n, cur |-> NoHook, next |-> first,
       phase |-> "scan", gesture |-> g, plugin |-> p, any |-> any,
       due |-> Due(t, n), called |-> {}] \in Frame
    BY <1>2 DEF Frame, Phase, Due, HookType
<1>4. stack' \in Seq(Frame)
    BY <1>1, <1>3, PushFacts DEF TypeOK
<1> QED BY <1>4 DEF TypeOK, StartLoop

\* Every step keeps the types.
LEMMA TypeStep == TypeOK /\ [Next]_vars => TypeOK'
<1> SUFFICES ASSUME TypeOK, [Next]_vars
             PROVE  TypeOK'
    OBVIOUS
<1> USE ConstantsAssumption
<1>1. CASE Skip
    <2>1. PICK n \in NextOf(Top.next) : SetTop([Top EXCEPT !.next = n])
        BY <1>1 DEF Skip
    <2>2. stack # <<>> /\ Top \in Frame
        BY <1>1, TopFrame DEF Skip, Scanning
    <2>3. [Top EXCEPT !.next = n] \in Frame
        BY <2>1, <2>2, NextType DEF Frame
    <2> QED BY <1>1, <2>1, <2>2, <2>3, SetTopType DEF Skip, TypeOK
<1>2. CASE Call
    <2> DEFINE f(n) == [Top EXCEPT !.cur = Top.next, !.next = n, !.phase = "call",
                                   !.called = @ \cup {Top.next}]
    <2>1. PICK n \in NextOf(Top.next) : SetTop(f(n))
        BY <1>2 DEF Call
    <2>2. stack # <<>> /\ Top \in Frame /\ Top.next \in Hook
        BY <1>2, TopFrame DEF Call, Scanning
    <2>3. f(n) \in Frame
        BY <2>1, <2>2, NextType DEF Frame, Phase
    <2> HIDE DEF f
    <2>4. stack' \in Seq(Frame)
        BY <2>1, <2>2, <2>3, SetTopType
    <2> QED BY <1>2, <2>2, <2>4 DEF Call, TypeOK
<1>3. CASE FocusAgain
    <2>1. stack # <<>> /\ Top \in Frame
        BY <1>3, TopFrame DEF FocusAgain, InCallback
    <2>2. [Top EXCEPT !.phase = "call2"] \in Frame
        BY <2>1 DEF Frame, Phase
    <2> QED BY <1>3, <2>1, <2>2, SetTopType DEF FocusAgain, TypeOK
<1>4. CASE Finish
    BY <1>4, LeaveType DEF Finish, Exhausted, TypeOK
<1>5. CASE CommandEaten
    <2>1. stack' \in Seq(Frame)
        BY <1>5, PopFacts DEF CommandEaten, Exhausted, Depth, TypeOK
    <2> QED BY <1>5, <2>1 DEF CommandEaten, TypeOK
<1>6. CASE CommandGoesOn
    <2> DEFINE f == [Top EXCEPT !.type = "command", !.phase = "select",
                                !.cur = NoHook, !.due = {}, !.called = {}]
    <2>1. stack # <<>> /\ Top \in Frame
        BY <1>6, TopFrame DEF CommandGoesOn, Exhausted
    <2>2. f \in Frame
        BY <2>1 DEF Frame, Phase, HookType
    <2>3. SetTop(f)
        BY <1>6 DEF CommandGoesOn
    <2> HIDE DEF f
    <2>4. stack' \in Seq(Frame)
        BY <2>1, <2>2, <2>3, SetTopType
    <2> QED BY <1>6, <2>4 DEF CommandGoesOn, TypeOK
<1>7. CASE NoCommand
    BY <1>7, LeaveType DEF NoCommand, Selecting, TypeOK
<1>8. CASE CrashAndRestart
    <2>1. stack' \in Seq(Frame)
        BY <1>8 DEF CrashAndRestart
    <2>2. running' \in [Hook -> Int] /\ recursion' \in Int
        BY <1>8 DEF CrashAndRestart
    <2>3. status' \in [Hook -> {"free", "live", "deleted"}]
        BY <1>8 DEF CrashAndRestart
    <2>4. precedes' \subseteq Hook \X Hook /\ pending' \in BOOLEAN
        BY <1>8 DEF CrashAndRestart
    <2> QED BY <2>1, <2>2, <2>3, <2>4 DEF TypeOK
<1>9. ASSUME NEW h \in Hook, RunCommand(h)
      PROVE  TypeOK'
    <2>1. stack # <<>> /\ Top \in Frame
        BY <1>9, TopFrame DEF RunCommand, Selecting
    <2>2. [Top EXCEPT !.phase = "call", !.cur = h] \in Frame
        BY <2>1 DEF Frame, Phase
    <2>3. stack' \in Seq(Frame)
        BY <1>9, <2>1, <2>2, SetTopType DEF RunCommand
    <2>4. running' \in [Hook -> Int]
        <3>1. running[h] + 1 \in Int
            BY <1>9 DEF TypeOK
        <3> QED BY <1>9, <3>1 DEF RunCommand, TypeOK
    <2> QED BY <1>9, <2>3, <2>4 DEF RunCommand, TypeOK
<1>10. CASE CommandReturns
    <2>1. running' \in [Hook -> Int]
        <3>1. CASE Top.cur \in Hook
            <4>1. running[Top.cur] - 1 \in Int
                BY <3>1 DEF TypeOK
            <4> QED BY <1>10, <4>1 DEF CommandReturns, TypeOK
        <3>2. CASE Top.cur \notin Hook
            BY <1>10, <3>2 DEF CommandReturns, TypeOK
        <3> QED BY <3>1, <3>2
    <2> QED BY <1>10, <2>1, LeaveType DEF CommandReturns, InCallback, TypeOK
<1>11. ASSUME NEW eat \in BOOLEAN, Return(eat)
       PROVE  TypeOK'
    <2> DEFINE f == IF Ends(Top.type, eat)
                      THEN [Top EXCEPT !.phase = "done", !.cur = NoHook]
                      ELSE [Top EXCEPT !.phase = "scan", !.cur = NoHook]
    <2>1. stack # <<>> /\ Top \in Frame
        BY <1>11, TopFrame DEF Return, InCallback
    <2>2. f \in Frame
        BY <2>1 DEF Frame, Phase
    <2>3. SetTop(f)
        BY <1>11 DEF Return
    <2> HIDE DEF f
    <2>4. stack' \in Seq(Frame)
        BY <2>1, <2>2, <2>3, SetTopType
    <2>5. running' \in [Hook -> Int]
        <3>1. running' = [running EXCEPT ![Top.cur] = 0]
            BY <1>11 DEF Return
        <3>2. running \in [Hook -> Int]
            BY DEF TypeOK
        <3>3. CASE Top.cur \in Hook
            BY <3>1, <3>2, <3>3
        <3>4. CASE Top.cur \notin Hook
            BY <3>1, <3>2, <3>4
        <3> QED BY <3>3, <3>4
    <2> QED BY <1>11, <2>4, <2>5 DEF Return, TypeOK
<1>12. ASSUME NEW h \in Hook, AddHook(h)
       PROVE  TypeOK'
    <2>1. precedes' \subseteq Hook \X Hook
        BY <1>12 DEF AddHook, TypeOK, Inserted, Ahead, Behind
    <2>2. status' \in [Hook -> {"free", "live", "deleted"}]
        BY <1>12 DEF AddHook, TypeOK
    <2>3. running' \in [Hook -> Int]
        BY <1>12 DEF AddHook, TypeOK
    <2> QED BY <1>12, <2>1, <2>2, <2>3 DEF AddHook, TypeOK
<1>13. ASSUME NEW h \in Hook, Unhook(h)
       PROVE  TypeOK'
    BY <1>13, UnhookType DEF Unhook
<1>14. ASSUME NEW p \in Plugin, UnhookAllPlugin(p)
       PROVE  TypeOK'
    BY <1>14, UnhookType DEF UnhookAllPlugin
<1>15. ASSUME NEW t \in DispatchedType, NEW n \in Name, StartDispatch(t, n)
       PROVE  TypeOK'
    <2>1. PICK g \in BOOLEAN, any \in BOOLEAN : StartLoop(t, n, g, NoPlugin, any)
        BY <1>15, Zenon DEF StartDispatch
    <2> QED BY <1>15, <2>1, StartLoopType
<1>16. ASSUME NEW n \in Name, NEW p \in Plugin, NEW any \in BOOLEAN, StartCommand(n, p, any)
       PROVE  TypeOK'
    <2>1. "command_run" \in DispatchedType
        BY DEF DispatchedType, StopsOnEat
    <2>2. PICK g \in BOOLEAN : StartLoop("command_run", n, g, p, any)
        BY <1>16, Zenon DEF StartCommand
    <2> QED BY <1>16, <2>1, <2>2, StartLoopType
<1>17. CASE UNCHANGED vars
    BY <1>17 DEF vars, TypeOK
<1> QED
    BY <1>1, <1>2, <1>3, <1>4, <1>5, <1>6, <1>7, <1>8, <1>9, <1>10, <1>11,
       <1>12, <1>13, <1>14, <1>15, <1>16, <1>17 DEF Next, Loop, CallbackReturns

\* The initial values have their types.
LEMMA TypeInit == Init => TypeOK
<1> SUFFICES ASSUME Init PROVE TypeOK
    OBVIOUS
<1>1. stack \in Seq(Frame)
    BY DEF Init
<1>2. running \in [Hook -> Int] /\ recursion \in Int
    BY DEF Init
<1>3. status \in [Hook -> {"free", "live", "deleted"}]
    BY DEF Init
<1>4. precedes \subseteq Hook \X Hook /\ pending \in BOOLEAN
    BY DEF Init
<1> QED BY <1>1, <1>2, <1>3, <1>4 DEF TypeOK

\* Every variable of the hook lists keeps its type.
THEOREM TypeCorrect == Spec => []TypeOK
    BY TypeInit, TypeStep, PTL DEF Spec

(***************************************************************************)
(* The lists: linked as a strict total order per type, and sorted.         *)
(***************************************************************************)
ListsInv == ListsLinked /\ ListsSorted

\* The steps that change neither the hooks nor their order.
ListsUnchanged == UNCHANGED <<status, precedes>>

\* A hook that goes before b also goes before all that b does not follow.
LEMMA OrderFacts ==
    ASSUME NEW a \in Hook, NEW b \in Hook, NEW c \in Hook,
           TypeOf[a] = TypeOf[b], TypeOf[b] = TypeOf[c],
           GoesBefore(a, b), ~ GoesBefore(c, b)
    PROVE  ~ GoesBefore(c, a)
<1>1. /\ Priority[a] \in Nat /\ Priority[b] \in Nat /\ Priority[c] \in Nat
      /\ NameOf[a] \in Nat /\ NameOf[b] \in Nat /\ NameOf[c] \in Nat
    BY ConstantsAssumption
<1> QED BY <1>1 DEF GoesBefore

\* hook_add_to_list keeps the list linked.
LEMMA AddHookLinked ==
    ASSUME TypeOK, ListsLinked, NEW h \in Hook, AddHook(h)
    PROVE  ListsLinked'
<1>1. \A x \in Hook : Allocated(x)' <=> (Allocated(x) \/ x = h)
    BY DEF AddHook, Allocated, TypeOK
<1>2. ~ Allocated(h)
    BY DEF AddHook, Allocated
<1>3. precedes' = precedes \cup {<<x, h>> : x \in Ahead(h)} \cup {<<h, x>> : x \in Behind(h)}
    BY DEF AddHook, Inserted
<1>4. \A x \in Hook : <<x, h>> \notin precedes /\ <<h, x>> \notin precedes
    BY <1>2 DEF ListsLinked
<1>5. h \notin Ahead(h) /\ h \notin Behind(h)
    BY <1>2 DEF Ahead, Behind
<1>6. \A a, b \in Hook : <<a, b>> \in precedes' <=>
        \/ <<a, b>> \in precedes
        \/ b = h /\ a \in Ahead(h)
        \/ a = h /\ b \in Behind(h)
    BY <1>3
<1>7. \A x \in Hook : x \in Ahead(h) \/ x \in Behind(h) <=>
                        Allocated(x) /\ TypeOf[x] = TypeOf[h]
    BY DEF Ahead, Behind
<1>8. \A x \in Hook : ~ (x \in Ahead(h) /\ x \in Behind(h))
    BY DEF Behind
<1>9. \A x, y \in Hook : <<x, y>> \in precedes /\ y \in Ahead(h) => x \in Ahead(h)
    <2> SUFFICES ASSUME NEW x \in Hook, NEW y \in Hook,
                        <<x, y>> \in precedes, y \in Ahead(h)
                 PROVE  x \in Ahead(h)
        OBVIOUS
    <2>1. Allocated(x) /\ TypeOf[x] = TypeOf[h]
        BY DEF ListsLinked, Ahead
    <2>2. \A p \in Positions(h) : <<x, p>> \in precedes
        BY DEF ListsLinked, Ahead, Positions
    <2> QED BY <2>1, <2>2 DEF Ahead
<1>10. \A x, y \in Hook : <<x, y>> \in precedes /\ x \in Behind(h) => y \in Behind(h)
    <2> SUFFICES ASSUME NEW x \in Hook, NEW y \in Hook,
                        <<x, y>> \in precedes, x \in Behind(h)
                 PROVE  y \in Behind(h)
        OBVIOUS
    <2>1. Allocated(y) /\ TypeOf[y] = TypeOf[h]
        BY DEF ListsLinked, Behind
    <2>2. y \notin Ahead(h)
        BY <1>8, <1>9
    <2> QED BY <2>1, <2>2 DEF Behind
<1>11. \A x, y \in Hook : x \in Ahead(h) /\ y \in Behind(h) => <<x, y>> \in precedes
    <2> SUFFICES ASSUME NEW x \in Hook, NEW y \in Hook, x \in Ahead(h), y \in Behind(h)
                 PROVE  <<x, y>> \in precedes
        OBVIOUS
    <2>1. PICK p \in Positions(h) : <<y, p>> \notin precedes
        BY DEF Ahead, Behind
    <2>2. <<x, p>> \in precedes
        BY <2>1 DEF Ahead
    <2>3. p \in Hook /\ Allocated(p) /\ TypeOf[p] = TypeOf[y] /\ Allocated(y)
        BY <2>1 DEF Positions, Behind, Live, Allocated
    <2>4. p = y \/ <<p, y>> \in precedes
        BY <2>1, <2>3 DEF ListsLinked
    <2> QED BY <2>2, <2>3, <2>4 DEF ListsLinked
<1>12. ASSUME NEW a \in Hook, NEW b \in Hook, <<a, b>> \in precedes'
       PROVE  /\ Allocated(a)' /\ Allocated(b)' /\ TypeOf[a] = TypeOf[b] /\ a # b
              /\ \A c \in Hook : <<b, c>> \in precedes' => <<a, c>> \in precedes'
    <2>1. Allocated(a)' /\ Allocated(b)' /\ TypeOf[a] = TypeOf[b] /\ a # b
        BY <1>1, <1>5, <1>6, <1>7, <1>12 DEF ListsLinked
    <2>2. ASSUME NEW c \in Hook, <<b, c>> \in precedes'
          PROVE  <<a, c>> \in precedes'
        <3>1. CASE <<a, b>> \in precedes
            BY <1>4, <1>6, <1>9, <2>2, <3>1 DEF ListsLinked
        <3>2. CASE b = h /\ a \in Ahead(h)
            BY <1>4, <1>5, <1>6, <1>11, <2>2, <3>2
        <3>3. CASE a = h /\ b \in Behind(h)
            BY <1>4, <1>5, <1>6, <1>8, <1>10, <2>2, <3>3
        <3> QED BY <1>6, <1>12, <3>1, <3>2, <3>3
    <2> QED BY <2>1, <2>2
<1>13. ASSUME NEW a \in Hook, NEW b \in Hook, a # b,
              Allocated(a)', Allocated(b)', TypeOf[a] = TypeOf[b]
       PROVE  <<a, b>> \in precedes' <=> <<b, a>> \notin precedes'
    <2>1. CASE a = h
        BY <1>1, <1>4, <1>5, <1>6, <1>7, <1>8, <1>13, <2>1
    <2>2. CASE b = h
        BY <1>1, <1>4, <1>5, <1>6, <1>7, <1>8, <1>13, <2>2
    <2>3. CASE a # h /\ b # h
        BY <1>1, <1>6, <1>13, <2>3 DEF ListsLinked
    <2> QED BY <2>1, <2>2, <2>3
<1> QED BY <1>12, <1>13 DEF ListsLinked

\* hook_find_pos keeps the live hooks sorted, whatever deleted hooks lie between.
LEMMA AddHookSorted ==
    ASSUME TypeOK, ListsLinked, ListsSorted, NEW h \in Hook, AddHook(h)
    PROVE  ListsSorted'
<1> SUFFICES ASSUME NEW a \in Hook, NEW b \in Hook,
                    <<a, b>> \in precedes', Live(a)', Live(b)'
             PROVE  ~ GoesBefore(b, a)
    BY DEF ListsSorted, GoesBefore
<1>1. \A x \in Hook : x # h => (Live(x)' <=> Live(x))
    BY DEF AddHook, Live, TypeOK
<1>2. ~ Allocated(h)
    BY DEF AddHook, Allocated
<1>3. \/ <<a, b>> \in precedes
      \/ b = h /\ a \in Ahead(h)
      \/ a = h /\ b \in Behind(h)
    BY DEF AddHook, Inserted
<1>4. CASE <<a, b>> \in precedes
    <2>1. a # h /\ b # h
        BY <1>2, <1>4 DEF ListsLinked
    <2> QED BY <1>1, <1>4, <2>1 DEF ListsSorted
<1>5. CASE b = h /\ a \in Ahead(h)
    <2>1. a # h /\ TypeOf[a] = TypeOf[h] /\ <<a, a>> \notin precedes
        BY <1>2, <1>5 DEF Ahead, ListsLinked
    <2>2. a \notin Positions(h)
        BY <1>5, <2>1 DEF Ahead
    <2> QED BY <1>1, <1>5, <2>1, <2>2 DEF Positions
<1>6. CASE a = h /\ b \in Behind(h)
    <2>1. PICK p \in Positions(h) : <<b, p>> \notin precedes
        BY <1>6 DEF Ahead, Behind
    <2>2. /\ p \in Hook /\ Live(p) /\ GoesBefore(h, p)
          /\ TypeOf[p] = TypeOf[h] /\ TypeOf[b] = TypeOf[h] /\ Allocated(b) /\ Allocated(p)
        BY <1>6, <2>1 DEF Positions, Behind, Live, Allocated
    <2>3. b # h /\ Live(b)
        BY <1>1, <1>2, <2>2
    <2>4. p = b \/ <<p, b>> \in precedes
        BY <2>1, <2>2 DEF ListsLinked
    <2>5. ~ GoesBefore(b, p)
        <3>1. CASE p = b
            <4>1. Priority[b] \in Nat /\ NameOf[b] \in Nat
                BY ConstantsAssumption
            <4> QED BY <3>1, <4>1 DEF GoesBefore
        <3>2. CASE <<p, b>> \in precedes
            BY <2>2, <2>3, <3>2 DEF ListsSorted
        <3> QED BY <2>4, <3>1, <3>2
    <2> QED BY <1>6, <2>2, <2>5, OrderFacts
<1> QED BY <1>3, <1>4, <1>5, <1>6

\* Freeing hooks keeps the lists linked and sorted.
LEMMA FreeLists ==
    ASSUME TypeOK, ListsInv, NEW S \in SUBSET Hook,
           status' = [h \in Hook |-> IF h \in S THEN "free" ELSE status[h]],
           precedes' = Without(S)
    PROVE  ListsInv'
<1>1. \A x \in Hook : Allocated(x)' <=> (Allocated(x) /\ x \notin S)
    BY DEF Allocated, TypeOK
<1>2. \A x \in Hook : Live(x)' => Live(x)
    BY DEF Live, TypeOK
<1>3. \A a, b \in Hook : <<a, b>> \in precedes' <=>
        (<<a, b>> \in precedes /\ a \notin S /\ b \notin S)
    BY DEF Without
<1>4. ListsLinked'
    BY <1>1, <1>3 DEF ListsInv, ListsLinked
<1>5. ListsSorted'
    <2> SUFFICES ASSUME NEW a \in Hook, NEW b \in Hook,
                        <<a, b>> \in precedes', Live(a)', Live(b)'
                 PROVE  ~ GoesBefore(b, a)
        BY DEF ListsSorted, GoesBefore
    <2> QED BY <1>2, <1>3 DEF ListsInv, ListsSorted
<1> QED BY <1>4, <1>5 DEF ListsInv

\* unhook() keeps the lists linked and sorted.
LEMMA UnhookLists ==
    ASSUME TypeOK, ListsInv, NEW S \in SUBSET Hook, \A h \in S : Live(h), UnhookSet(S)
    PROVE  ListsInv'
<1>1. CASE recursion = 0
    BY <1>1, FreeLists DEF UnhookSet
<1>2. CASE recursion # 0
    <2>1. \A x \in Hook : Allocated(x)' <=> Allocated(x)
        BY <1>2 DEF UnhookSet, Allocated, Live, TypeOK
    <2>2. \A x \in Hook : Live(x)' => Live(x)
        BY <1>2 DEF UnhookSet, Live, TypeOK
    <2>3. precedes' = precedes
        BY <1>2 DEF UnhookSet
    <2>4. ListsLinked'
        BY <2>1, <2>3 DEF ListsInv, ListsLinked
    <2>5. ListsSorted'
        <3> SUFFICES ASSUME NEW a \in Hook, NEW b \in Hook,
                            <<a, b>> \in precedes', Live(a)', Live(b)'
                     PROVE  ~ GoesBefore(b, a)
            BY DEF ListsSorted, GoesBefore
        <3> QED BY <2>2, <2>3 DEF ListsInv, ListsSorted
    <2> QED BY <2>4, <2>5 DEF ListsInv
<1> QED BY <1>1, <1>2

\* The end of a loop keeps the lists linked and sorted.
LEMMA LeaveLists ==
    ASSUME TypeOK, ListsInv, Leave
    PROVE  ListsInv'
<1>1. CASE recursion = 1 /\ pending
    BY <1>1, FreeLists DEF Leave, Deleted
<1>2. CASE ~ (recursion = 1 /\ pending)
    BY <1>2 DEF Leave, ListsInv, ListsLinked, ListsSorted, Allocated, Live, GoesBefore
<1> QED BY <1>1, <1>2

\* The initial lists are empty, and so are those of a restarted program.
LEMMA EmptyLists ==
    /\ Init => ListsInv
    /\ CrashAndRestart => ListsInv'
<1>1. Init => ListsInv
    BY DEF Init, ListsInv, ListsLinked, ListsSorted, Allocated
<1>2. CrashAndRestart => ListsInv'
    BY DEF CrashAndRestart, ListsInv, ListsLinked, ListsSorted, Allocated
<1> QED BY <1>1, <1>2

\* Every step keeps the lists linked and sorted.
LEMMA ListsStep == TypeOK /\ ListsInv /\ [Next]_vars => ListsInv'
<1> SUFFICES ASSUME TypeOK, ListsInv, [Next]_vars
             PROVE  ListsInv'
    OBVIOUS
<1>1. ListsUnchanged => ListsInv'
    BY DEF ListsUnchanged, ListsInv, ListsLinked, ListsSorted, Allocated, Live, GoesBefore
<1>2. CASE Skip \/ Call \/ FocusAgain \/ CommandEaten \/ CommandGoesOn
    BY <1>1, <1>2 DEF Skip, Call, FocusAgain, CommandEaten, CommandGoesOn, ListsUnchanged
<1>3. CASE Finish \/ NoCommand \/ CommandReturns
    BY <1>3, LeaveLists DEF Finish, NoCommand, CommandReturns
<1>4. CASE CrashAndRestart
    BY <1>4, EmptyLists
<1>5. ASSUME NEW h \in Hook, RunCommand(h)
      PROVE  ListsInv'
    BY <1>1, <1>5 DEF RunCommand, ListsUnchanged
<1>6. ASSUME NEW eat \in BOOLEAN, Return(eat)
      PROVE  ListsInv'
    BY <1>1, <1>6 DEF Return, ListsUnchanged
<1>7. ASSUME NEW h \in Hook, AddHook(h)
      PROVE  ListsInv'
    BY <1>7, AddHookLinked, AddHookSorted DEF ListsInv
<1>8. ASSUME NEW h \in Hook, Unhook(h)
      PROVE  ListsInv'
    BY <1>8, UnhookLists DEF Unhook
<1>9. ASSUME NEW p \in Plugin, UnhookAllPlugin(p)
      PROVE  ListsInv'
    BY <1>9, UnhookLists DEF UnhookAllPlugin
<1>10. ASSUME NEW t \in DispatchedType, NEW n \in Name, StartDispatch(t, n)
       PROVE  ListsInv'
    BY <1>1, <1>10 DEF StartDispatch, StartLoop, ListsUnchanged
<1>11. ASSUME NEW n \in Name, NEW p \in Plugin, NEW any \in BOOLEAN, StartCommand(n, p, any)
       PROVE  ListsInv'
    BY <1>1, <1>11 DEF StartCommand, StartLoop, ListsUnchanged
<1>12. CASE UNCHANGED vars
    BY <1>1, <1>12 DEF vars, ListsUnchanged
<1> QED
    BY <1>2, <1>3, <1>4, <1>5, <1>6, <1>7, <1>8, <1>9, <1>10, <1>11, <1>12
    DEF Next, Loop, CallbackReturns

\* The list of each type is a strict total order of its allocated hooks.
THEOREM ListsAlwaysLinked == Spec => []ListsLinked
<1>1. Init => TypeOK
    BY TypeInit
<1>2. Init => ListsInv
    BY EmptyLists
<1>3. ListsInv => ListsLinked
    BY DEF ListsInv
<1> QED BY <1>1, <1>2, <1>3, TypeStep, ListsStep, PTL DEF Spec

\* The live hooks of each list are sorted by priority (commands by name first).
THEOREM ListsAlwaysSorted == Spec => []ListsSorted
<1>1. Init => TypeOK
    BY TypeInit
<1>2. Init => ListsInv
    BY EmptyLists
<1>3. ListsInv => ListsSorted
    BY DEF ListsInv
<1> QED BY <1>1, <1>2, <1>3, TypeStep, ListsStep, PTL DEF Spec

(***************************************************************************)
(* Memory safety.  A hook is freed only when hook_exec_recursion is 0, the *)
(* counter counts the guarded loops, hence no guarded loop is in progress  *)
(* then; and a pointer saved by a guarded loop pointed to an allocated     *)
(* hook when it was saved.                                                 *)
(***************************************************************************)
\* Only the frame of a command is in the phase that selects the command.
SelectIsCommand ==
    \A i \in 1..Depth : stack[i].phase = "select" => stack[i].type = "command"

FrameValid(f) == \A h \in {f.cur, f.next} : h \in Hook => Allocated(h)

SafeInv == /\ RecursionCountsLoops
           /\ DeletedHooksPending
           /\ PointersValid
           /\ SelectIsCommand

\* hook_exec_recursion is the number of guarded loops of the stack.
LEMMA CountDef == RecursionCountsLoops <=> recursion = Cardinality(Counted(stack))
    BY DEF RecursionCountsLoops, Counted, Depth

\* When hook_exec_recursion is 0, no loop is protected.
LEMMA IdleUnprotected ==
    ASSUME stack \in Seq(Frame), Cardinality(Counted(stack)) = 0
    PROVE  \A i \in 1..Depth : ~ Protected(i)
<1>1. \A i \in 1..Len(stack) : ~ Guarded(stack[i])
    BY CountedFinite
<1>2. Len(stack) \in Nat
    OBVIOUS
<1> QED BY <1>1, <1>2 DEF Protected, Depth

\* A step of the innermost loop that is still the same loop afterwards.
LEMMA SetTopSafe ==
    ASSUME TypeOK, SafeInv, stack # <<>>, NEW f \in Frame, SetTop(f),
           f.type = Top.type,
           f.phase = "select" => Top.phase = "select",
           \A h \in {f.cur, f.next} : h \in Hook => Allocated(h) \/ h \in {Top.cur, Top.next},
           UNCHANGED <<status, recursion, pending>>
    PROVE  SafeInv'
<1>0. /\ stack \in Seq(Frame) /\ Len(stack) \in Nat /\ Len(stack) # 0
      /\ Depth = Len(stack) /\ Depth' = Len(stack) /\ Top = stack[Len(stack)]
      /\ stack' = [stack EXCEPT ![Len(stack)] = f]
      /\ stack'[Len(stack)] = f
      /\ \A i \in 1..Len(stack) - 1 : stack'[i] = stack[i]
    BY SetLastFacts DEF TypeOK, SetTop, Depth, Top
<1>1. RecursionCountsLoops'
    <2>1. Guarded(f) <=> Guarded(Top)
        BY DEF Guarded
    <2>2. Cardinality(Counted(stack)) \in Nat
        BY <1>0, CountedFinite
    <2>3. Cardinality(Counted([stack EXCEPT ![Len(stack)] = f])) =
            Cardinality(Counted(stack)) + 0
        BY <1>0, <2>1, SetLastCount
    <2>4. Cardinality(Counted(stack')) = Cardinality(Counted(stack))
        BY <1>0, <2>2, <2>3
    <2>5. recursion' = Cardinality(Counted(stack'))
        BY <2>4, CountDef DEF SafeInv
    <2> QED BY <2>5 DEF RecursionCountsLoops, Counted, Depth
<1>2. DeletedHooksPending'
    BY DEF SafeInv, DeletedHooksPending, Deleted
<1>3. PointersValid'
    <2> SUFFICES ASSUME NEW i \in 1..Len(stack), Protected(i)'
                 PROVE  FrameValid(stack[i])'
        BY <1>0 DEF PointersValid, FrameValid
    <2>1. \A j \in 1..Len(stack) : Guarded(stack'[j]) <=> Guarded(stack[j])
        BY <1>0 DEF Guarded
    <2>2. PICK j \in 1..i : Guarded(stack'[j])
        BY DEF Protected, Guarded
    <2>3. j \in 1..i /\ j \in 1..Len(stack)
        BY <1>0
    <2>4. Protected(i)
        BY <2>1, <2>2, <2>3 DEF Protected
    <2>5. FrameValid(stack[i])
        BY <1>0, <2>4 DEF SafeInv, PointersValid, FrameValid
    <2>6. CASE i = Len(stack)
        BY <1>0, <2>5, <2>6 DEF FrameValid, Allocated
    <2>7. CASE i # Len(stack)
        <3>1. stack'[i] = stack[i]
            BY <1>0, <2>7
        <3> QED BY <2>5, <3>1 DEF FrameValid, Allocated
    <2> QED BY <2>6, <2>7
<1>4. SelectIsCommand'
    <2> SUFFICES ASSUME NEW i \in 1..Len(stack), stack'[i].phase = "select"
                 PROVE  stack'[i].type = "command"
        BY <1>0 DEF SelectIsCommand
    <2>1. CASE i = Len(stack)
        BY <1>0, <2>1 DEF SafeInv, SelectIsCommand
    <2>2. CASE i # Len(stack)
        <3>1. stack'[i] = stack[i]
            BY <1>0, <2>2
        <3> QED BY <1>0, <3>1 DEF SafeInv, SelectIsCommand
    <2> QED BY <2>1, <2>2
<1> QED BY <1>1, <1>2, <1>3, <1>4 DEF SafeInv

\* The stack and the counters stay and no hook is freed.
LEMMA NoneFreedSafe ==
    ASSUME TypeOK, SafeInv, UNCHANGED <<stack, recursion>>,
           \A h \in Hook : Allocated(h) => Allocated(h)', DeletedHooksPending'
    PROVE  SafeInv'
<1>1. RecursionCountsLoops' /\ SelectIsCommand'
    BY DEF SafeInv, RecursionCountsLoops, SelectIsCommand, Depth, Guarded
<1>2. PointersValid'
    BY DEF SafeInv, PointersValid, Protected, Depth, Guarded
<1> QED BY <1>1, <1>2 DEF SafeInv

\* unhook(): with hook_exec_recursion 0 no loop is protected, otherwise no hook
\* is freed.
LEMMA UnhookSafe ==
    ASSUME TypeOK, SafeInv, NEW S \in SUBSET Hook, S # {}, \A h \in S : Live(h), UnhookSet(S)
    PROVE  SafeInv'
<1>1. CASE recursion = 0
    <2>1. Cardinality(Counted(stack)) = 0 /\ stack \in Seq(Frame)
        BY <1>1, CountDef DEF SafeInv, TypeOK
    <2>2. \A i \in 1..Depth : ~ Protected(i)
        BY <2>1, IdleUnprotected
    <2>3. UNCHANGED <<stack, recursion, pending>>
        BY <1>1 DEF UnhookSet
    <2>4. RecursionCountsLoops' /\ SelectIsCommand'
        BY <2>3 DEF SafeInv, RecursionCountsLoops, SelectIsCommand, Depth, Guarded
    <2>5. PointersValid'
        BY <2>2, <2>3 DEF PointersValid, Protected, Depth, Guarded
    <2>6. ~ pending /\ Deleted = {}
        BY <1>1 DEF SafeInv, DeletedHooksPending
    <2>7. Deleted' = {}
        BY <1>1, <2>6 DEF UnhookSet, Deleted, TypeOK
    <2>8. DeletedHooksPending'
        BY <2>3, <2>6, <2>7 DEF DeletedHooksPending
    <2> QED BY <2>4, <2>5, <2>8 DEF SafeInv
<1>2. CASE recursion # 0
    <2>1. \A h \in Hook : Allocated(h) => Allocated(h)'
        BY <1>2 DEF UnhookSet, Allocated, TypeOK
    <2>2. UNCHANGED <<stack, recursion>> /\ pending' = TRUE
        BY <1>2 DEF UnhookSet
    <2>3. Cardinality(Counted(stack)) \in Nat
        BY CountedFinite DEF TypeOK
    <2>4. recursion > 0
        BY <1>2, <2>3, CountDef DEF SafeInv
    <2>5. Deleted' # {}
        BY <1>2 DEF UnhookSet, Deleted, TypeOK
    <2>6. DeletedHooksPending'
        BY <2>2, <2>4, <2>5 DEF DeletedHooksPending
    <2> QED BY <2>1, <2>2, <2>6, NoneFreedSafe
<1> QED BY <1>1, <1>2

\* hook_exec_end: the last guarded loop leaves no protected loop behind.
LEMMA LeaveSafe ==
    ASSUME TypeOK, SafeInv, stack # <<>>, Guarded(Top), Leave
    PROVE  SafeInv'
<1>0. /\ stack \in Seq(Frame) /\ Len(stack) \in Nat /\ Len(stack) # 0
      /\ stack' \in Seq(Frame) /\ Len(stack') = Len(stack) - 1
      /\ \A i \in 1..Len(stack) - 1 : stack'[i] = stack[i]
      /\ Top = stack[Len(stack)]
    BY PopFacts DEF TypeOK, Leave, Depth, Top
<1>1. recursion' = recursion - 1
    BY DEF Leave
<1>2. recursion' = Cardinality(Counted(stack'))
    <2>1. Cardinality(Counted(SubSeq(stack, 1, Len(stack) - 1))) =
            Cardinality(Counted(stack)) - 1
        BY <1>0, PopCount
    <2> QED BY <1>1, <2>1, CountDef DEF SafeInv, Leave, Depth
<1>3. RecursionCountsLoops'
    BY <1>2 DEF RecursionCountsLoops, Counted, Depth
<1>4. Cardinality(Counted(stack)) \in Nat /\ Cardinality(Counted(stack')) \in Nat
    BY <1>0, CountedFinite
<1>5. SelectIsCommand'
    <2> SUFFICES ASSUME NEW i \in 1..Len(stack) - 1, stack'[i].phase = "select"
                 PROVE  stack'[i].type = "command"
        BY <1>0 DEF SelectIsCommand, Depth
    <2>1. i \in 1..Len(stack) /\ stack'[i] = stack[i]
        BY <1>0
    <2> QED BY <2>1 DEF SafeInv, SelectIsCommand, Depth
<1>6. DeletedHooksPending'
    <2>1. CASE recursion = 1 /\ pending
        <3>1. Deleted' = {} /\ pending' = FALSE
            BY <2>1 DEF Leave, Deleted, TypeOK
        <3> QED BY <3>1 DEF DeletedHooksPending
    <2>2. CASE ~ (recursion = 1 /\ pending)
        <3>1. UNCHANGED <<status, pending>> /\ Deleted' = Deleted
            BY <2>2 DEF Leave, Deleted
        <3>2. pending => recursion' > 0
            BY <1>1, <2>2 DEF SafeInv, DeletedHooksPending, TypeOK
        <3> QED BY <3>1, <3>2 DEF SafeInv, DeletedHooksPending
    <2> QED BY <2>1, <2>2
<1>7. PointersValid'
    <2>1. CASE recursion = 1 /\ pending
        <3>1. Cardinality(Counted(stack')) = 0
            BY <1>1, <1>2, <2>1
        <3>2. \A i \in 1..Len(stack') : ~ Guarded(stack'[i])
            BY <1>0, <3>1, CountedFinite
        <3>3. \A i \in 1..Len(stack') : \A j \in 1..i : ~ Guarded(stack'[j])
            BY <1>0, <3>2
        <3> QED BY <3>3 DEF PointersValid, Protected, Depth, Guarded
    <2>2. CASE ~ (recursion = 1 /\ pending)
        <3>1. status' = status
            BY <2>2 DEF Leave
        <3> SUFFICES ASSUME NEW i \in 1..Len(stack) - 1, Protected(i)'
                     PROVE  FrameValid(stack[i])'
            BY <1>0 DEF PointersValid, FrameValid, Depth
        <3>2. i \in 1..Len(stack) /\ \A j \in 1..i : stack'[j] = stack[j]
            BY <1>0
        <3>3. Protected(i)
            BY <3>2 DEF Protected, Guarded
        <3>4. FrameValid(stack[i])
            BY <3>2, <3>3 DEF SafeInv, PointersValid, FrameValid, Depth
        <3>5. stack'[i] = stack[i]
            BY <3>2
        <3> QED BY <3>1, <3>4, <3>5 DEF FrameValid, Allocated
    <2> QED BY <2>1, <2>2
<1> QED BY <1>3, <1>5, <1>6, <1>7 DEF SafeInv

\* A new loop saves a pointer to the first hook of its list, which is allocated.
LEMMA StartLoopSafe ==
    TypeOK /\ SafeInv =>
      \A t \in DispatchedType, n \in Name, g \in BOOLEAN,
         p \in Plugin \cup {NoPlugin}, any \in BOOLEAN :
         StartLoop(t, n, g, p, any) => SafeInv'
<1> SUFFICES ASSUME TypeOK, SafeInv, NEW t \in DispatchedType, NEW n \in Name,
                    NEW g \in BOOLEAN, NEW p \in Plugin \cup {NoPlugin},
                    NEW any \in BOOLEAN, StartLoop(t, n, g, p, any)
             PROVE  SafeInv'
    OBVIOUS
<1> DEFINE F(first) == [type |-> t, name |-> n, cur |-> NoHook, next |-> first,
                        phase |-> "scan", gesture |-> g, plugin |-> p, any |-> any,
                        due |-> Due(t, n), called |-> {}]
<1>1. PICK first \in HeadOf(t) : stack' = Append(stack, F(first))
    BY DEF StartLoop
<1>2. first \in Hook \cup {NoHook} /\ (first \in Hook => Allocated(first))
    BY ConstantsAssumption DEF HeadOf
<1>3. /\ F(first) \in Frame /\ F(first).type = t /\ F(first).phase = "scan"
      /\ F(first).cur = NoHook /\ F(first).next = first
    BY <1>2 DEF Frame, Phase, Due, HookType
<1> HIDE DEF F
<1>0. /\ stack \in Seq(Frame) /\ Len(stack) \in Nat
      /\ stack' \in Seq(Frame) /\ Len(stack') = Len(stack) + 1
      /\ \A i \in 1..Len(stack) : stack'[i] = stack[i]
      /\ stack'[Len(stack) + 1] = F(first)
    BY <1>1, <1>3, PushFacts DEF TypeOK
<1>4. Cardinality(Counted(stack)) \in Nat
    BY <1>0, CountedFinite
<1>5. recursion' = Cardinality(Counted(stack'))
    <2>1. CASE t = "command_run"
        <3>1. ~ Guarded(F(first))
            BY <1>3, <2>1 DEF Guarded
        <3>2. Cardinality(Counted(Append(stack, F(first)))) = Cardinality(Counted(stack)) + 0
            BY <1>0, <1>3, <3>1, PushCount
        <3>3. Cardinality(Counted(stack')) = Cardinality(Counted(stack))
            BY <1>1, <1>4, <3>2
        <3> QED BY <2>1, <3>3, CountDef DEF StartLoop, SafeInv
    <2>2. CASE t # "command_run"
        <3>1. Guarded(F(first))
            BY <1>3, <2>2 DEF Guarded
        <3>2. Cardinality(Counted(Append(stack, F(first)))) = Cardinality(Counted(stack)) + 1
            BY <1>0, <1>3, <3>1, PushCount
        <3>3. Cardinality(Counted(stack')) = Cardinality(Counted(stack)) + 1
            BY <1>1, <3>2
        <3> QED BY <2>2, <3>3, CountDef DEF StartLoop, SafeInv
    <2> QED BY <2>1, <2>2
<1>6. RecursionCountsLoops'
    BY <1>5 DEF RecursionCountsLoops, Counted, Depth
<1>7. DeletedHooksPending'
    <2>1. UNCHANGED <<status, pending>> /\ (recursion' = recursion \/ recursion' = recursion + 1)
        BY DEF StartLoop
    <2>2. recursion > 0 => recursion' > 0
        BY <2>1 DEF TypeOK
    <2> QED BY <2>1, <2>2 DEF SafeInv, DeletedHooksPending, Deleted
<1>8. \A i \in 1..Len(stack') : i \in 1..Len(stack) \/ i = Len(stack) + 1
    BY <1>0
<1>9. PointersValid'
    <2>0. status' = status
        BY DEF StartLoop
    <2> SUFFICES ASSUME NEW i \in 1..Len(stack'), Protected(i)'
                 PROVE  FrameValid(stack[i])'
        BY DEF PointersValid, FrameValid, Depth
    <2>1. CASE i = Len(stack) + 1
        BY <1>0, <1>2, <1>3, <2>0, <2>1, ConstantsAssumption DEF FrameValid, Allocated
    <2>2. CASE i \in 1..Len(stack)
        <3>1. \A j \in 1..i : stack'[j] = stack[j]
            BY <1>0, <2>2
        <3>2. Protected(i)
            BY <3>1 DEF Protected, Guarded
        <3>3. FrameValid(stack[i])
            BY <2>2, <3>2 DEF SafeInv, PointersValid, FrameValid, Depth
        <3>4. stack'[i] = stack[i]
            BY <3>1, <2>2
        <3> QED BY <2>0, <3>3, <3>4 DEF FrameValid, Allocated
    <2> QED BY <1>8, <2>1, <2>2
<1>10. SelectIsCommand'
    <2> SUFFICES ASSUME NEW i \in 1..Len(stack'), stack'[i].phase = "select"
                 PROVE  stack'[i].type = "command"
        BY DEF SelectIsCommand, Depth
    <2>1. i \in 1..Len(stack)
        BY <1>0, <1>3, <1>8
    <2>2. stack'[i] = stack[i]
        BY <1>0, <2>1
    <2> QED BY <2>1, <2>2 DEF SafeInv, SelectIsCommand, Depth
<1> QED BY <1>6, <1>7, <1>9, <1>10 DEF SafeInv

\* A command that is eaten ends a loop that is not counted.
LEMMA CommandEatenSafe ==
    ASSUME TypeOK, SafeInv, CommandEaten
    PROVE  SafeInv'
<1>0. /\ stack \in Seq(Frame) /\ Len(stack) \in Nat /\ Len(stack) # 0 /\ stack # <<>>
      /\ stack' \in Seq(Frame) /\ Len(stack') = Len(stack) - 1
      /\ stack' = SubSeq(stack, 1, Len(stack) - 1)
      /\ \A i \in 1..Len(stack) - 1 : stack'[i] = stack[i]
      /\ ~ Guarded(stack[Len(stack)])
      /\ UNCHANGED <<status, recursion, pending>>
    BY PopFacts DEF TypeOK, CommandEaten, Exhausted, Depth, Top
<1>1. Cardinality(Counted(stack)) \in Nat
    BY <1>0, CountedFinite
<1>2. Cardinality(Counted(SubSeq(stack, 1, Len(stack) - 1))) = Cardinality(Counted(stack)) - 0
    BY <1>0, PopCount
<1>3. recursion' = Cardinality(Counted(stack'))
    BY <1>0, <1>1, <1>2, CountDef DEF SafeInv
<1>4. RecursionCountsLoops'
    BY <1>3 DEF RecursionCountsLoops, Counted, Depth
<1>5. DeletedHooksPending'
    BY <1>0 DEF SafeInv, DeletedHooksPending, Deleted
<1>6. PointersValid'
    <2> SUFFICES ASSUME NEW i \in 1..Len(stack) - 1, Protected(i)'
                 PROVE  FrameValid(stack[i])'
        BY <1>0 DEF PointersValid, FrameValid, Depth
    <2>1. i \in 1..Len(stack) /\ \A j \in 1..i : stack'[j] = stack[j]
        BY <1>0
    <2>2. Protected(i)
        BY <2>1 DEF Protected, Guarded
    <2>3. FrameValid(stack[i])
        BY <2>1, <2>2 DEF SafeInv, PointersValid, FrameValid, Depth
    <2> QED BY <1>0, <2>3 DEF FrameValid, Allocated
<1>7. SelectIsCommand'
    <2> SUFFICES ASSUME NEW i \in 1..Len(stack) - 1, stack'[i].phase = "select"
                 PROVE  stack'[i].type = "command"
        BY <1>0 DEF SelectIsCommand, Depth
    <2>1. i \in 1..Len(stack) /\ stack'[i] = stack[i]
        BY <1>0
    <2> QED BY <2>1 DEF SafeInv, SelectIsCommand, Depth
<1> QED BY <1>4, <1>5, <1>6, <1>7 DEF SafeInv

\* hook_command_exec becomes a counted loop once its command_run loop is over:
\* that loop has no pointer left.
LEMMA CommandGoesOnSafe ==
    ASSUME TypeOK, SafeInv, CommandGoesOn
    PROVE  SafeInv'
<1> DEFINE f == [Top EXCEPT !.type = "command", !.phase = "select",
                            !.cur = NoHook, !.due = {}, !.called = {}]
<1>1. stack # <<>> /\ Top \in Frame /\ Top.next = NoHook /\ ~ Guarded(Top)
    BY TopFrame DEF CommandGoesOn, Exhausted
<1>2. /\ f \in Frame /\ f.type = "command" /\ f.phase = "select"
      /\ f.cur = NoHook /\ f.next = NoHook
    BY <1>1 DEF Frame, Phase, HookType
<1>3. SetTop(f) /\ UNCHANGED <<status, pending>> /\ recursion' = recursion + 1
    BY DEF CommandGoesOn
<1> HIDE DEF f
<1>0. /\ stack \in Seq(Frame) /\ Len(stack) \in Nat /\ Len(stack) # 0
      /\ Depth = Len(stack) /\ Depth' = Len(stack) /\ Top = stack[Len(stack)]
      /\ stack' = [stack EXCEPT ![Len(stack)] = f]
      /\ stack'[Len(stack)] = f
      /\ \A i \in 1..Len(stack) - 1 : stack'[i] = stack[i]
    BY <1>1, <1>2, <1>3, SetLastFacts DEF TypeOK, SetTop, Depth, Top
<1>4. Guarded(f)
    BY <1>2 DEF Guarded
<1>5. Cardinality(Counted([stack EXCEPT ![Len(stack)] = f])) = Cardinality(Counted(stack)) + 1
    BY <1>0, <1>1, <1>2, <1>4, SetLastCount
<1>6. recursion' = Cardinality(Counted(stack'))
    BY <1>0, <1>3, <1>5, CountDef DEF SafeInv
<1>7. RecursionCountsLoops'
    BY <1>6 DEF RecursionCountsLoops, Counted, Depth
<1>8. DeletedHooksPending'
    <2>1. recursion > 0 => recursion' > 0
        BY <1>3 DEF TypeOK
    <2> QED BY <1>3, <2>1 DEF SafeInv, DeletedHooksPending, Deleted
<1>9. PointersValid'
    <2> SUFFICES ASSUME NEW i \in 1..Len(stack), Protected(i)'
                 PROVE  FrameValid(stack[i])'
        BY <1>0 DEF PointersValid, FrameValid
    <2>1. CASE i = Len(stack)
        BY <1>0, <1>2, <2>1, ConstantsAssumption DEF FrameValid
    <2>2. CASE i # Len(stack)
        <3>1. \A j \in 1..i : stack'[j] = stack[j]
            BY <1>0, <2>2
        <3>2. Protected(i)
            BY <3>1 DEF Protected, Guarded
        <3>3. FrameValid(stack[i])
            BY <1>0, <3>2 DEF SafeInv, PointersValid, FrameValid
        <3>4. stack'[i] = stack[i]
            BY <1>0, <2>2
        <3> QED BY <1>3, <3>3, <3>4 DEF FrameValid, Allocated
    <2> QED BY <2>1, <2>2
<1>10. SelectIsCommand'
    <2> SUFFICES ASSUME NEW i \in 1..Len(stack), stack'[i].phase = "select"
                 PROVE  stack'[i].type = "command"
        BY <1>0 DEF SelectIsCommand
    <2>1. CASE i = Len(stack)
        BY <1>0, <1>2, <2>1
    <2>2. CASE i # Len(stack)
        <3>1. stack'[i] = stack[i]
            BY <1>0, <2>2
        <3> QED BY <1>0, <3>1 DEF SafeInv, SelectIsCommand
    <2> QED BY <2>1, <2>2
<1> QED BY <1>7, <1>8, <1>9, <1>10 DEF SafeInv

\* Every step keeps the loops on allocated hooks and the counter exact.
LEMMA SafeStep == TypeOK /\ ListsInv /\ SafeInv /\ [Next]_vars => SafeInv'
<1> SUFFICES ASSUME TypeOK, ListsInv, SafeInv, [Next]_vars
             PROVE  SafeInv'
    OBVIOUS
<1>0. \A h \in Hook : \A n \in NextOf(h) : n \in Hook => Allocated(n)
    BY ConstantsAssumption DEF NextOf, ListsInv, ListsLinked
<1>1. CASE Skip
    <2>1. PICK n \in NextOf(Top.next) : SetTop([Top EXCEPT !.next = n])
        BY <1>1 DEF Skip
    <2> DEFINE f == [Top EXCEPT !.next = n]
    <2>2. stack # <<>> /\ Top \in Frame /\ Top.next \in Hook
        BY <1>1, TopFrame DEF Skip, Scanning
    <2>3. /\ f \in Frame /\ f.type = Top.type /\ f.phase = Top.phase
          /\ f.cur = Top.cur /\ f.next = n
        BY <2>1, <2>2, NextType DEF Frame
    <2>4. n \in Hook => Allocated(n)
        BY <1>0, <2>1, <2>2
    <2>5. SetTop(f) /\ UNCHANGED <<status, recursion, pending>>
        BY <1>1, <2>1 DEF Skip
    <2> HIDE DEF f
    <2>6. \A h \in {f.cur, f.next} : h \in Hook => Allocated(h) \/ h \in {Top.cur, Top.next}
        BY <2>3, <2>4
    <2> QED BY <2>2, <2>3, <2>5, <2>6, SetTopSafe
<1>2. CASE Call
    <2>1. PICK n \in NextOf(Top.next) :
            SetTop([Top EXCEPT !.cur = Top.next, !.next = n, !.phase = "call",
                               !.called = @ \cup {Top.next}])
        BY <1>2 DEF Call
    <2> DEFINE f == [Top EXCEPT !.cur = Top.next, !.next = n, !.phase = "call",
                                !.called = @ \cup {Top.next}]
    <2>2. stack # <<>> /\ Top \in Frame /\ Top.next \in Hook
        BY <1>2, TopFrame DEF Call, Scanning
    <2>3. /\ f \in Frame /\ f.type = Top.type /\ f.phase = "call"
          /\ f.cur = Top.next /\ f.next = n
        BY <2>1, <2>2, NextType DEF Frame, Phase
    <2>4. n \in Hook => Allocated(n)
        BY <1>0, <2>1, <2>2
    <2>5. SetTop(f) /\ UNCHANGED <<status, recursion, pending>>
        BY <1>2, <2>1 DEF Call
    <2> HIDE DEF f
    <2>6. \A h \in {f.cur, f.next} : h \in Hook => Allocated(h) \/ h \in {Top.cur, Top.next}
        BY <2>3, <2>4
    <2> QED BY <2>2, <2>3, <2>5, <2>6, SetTopSafe
<1>3. CASE FocusAgain
    <2> DEFINE f == [Top EXCEPT !.phase = "call2"]
    <2>1. stack # <<>> /\ Top \in Frame
        BY <1>3, TopFrame DEF FocusAgain, InCallback
    <2>2. /\ f \in Frame /\ f.type = Top.type /\ f.phase = "call2"
          /\ f.cur = Top.cur /\ f.next = Top.next
        BY <2>1 DEF Frame, Phase
    <2>3. SetTop(f) /\ UNCHANGED <<status, recursion, pending>>
        BY <1>3 DEF FocusAgain
    <2> HIDE DEF f
    <2> QED BY <2>1, <2>2, <2>3, SetTopSafe
<1>4. CASE Finish
    BY <1>4, LeaveSafe DEF Finish, Exhausted
<1>5. CASE CommandEaten
    BY <1>5, CommandEatenSafe
<1>6. CASE CommandGoesOn
    BY <1>6, CommandGoesOnSafe
<1>7. CASE NoCommand
    <2>1. stack # <<>> /\ Top.phase = "select" /\ Leave
        BY <1>7 DEF NoCommand, Selecting
    <2>2. Top.type = "command"
        BY <2>1, TopFrame DEF SafeInv, SelectIsCommand, Top, Depth
    <2> QED BY <2>1, <2>2, LeaveSafe DEF Guarded
<1>8. CASE CrashAndRestart
    <2>1. stack' = <<>> /\ recursion' = 0 /\ pending' = FALSE /\ Deleted' = {}
        BY <1>8 DEF CrashAndRestart, Deleted
    <2>2. Len(stack') = 0 /\ stack' \in Seq(Frame)
        BY <2>1
    <2>3. Cardinality(Counted(stack')) = 0
        <3>1. \A i \in 1..Len(stack') : ~ Guarded(stack'[i])
            BY <2>2
        <3> QED BY <2>2, <3>1, CountedFinite
    <2>4. RecursionCountsLoops'
        BY <2>1, <2>3 DEF RecursionCountsLoops, Counted, Depth
    <2>5. DeletedHooksPending'
        BY <2>1 DEF DeletedHooksPending
    <2>6. PointersValid' /\ SelectIsCommand'
        BY <2>2 DEF PointersValid, SelectIsCommand, Depth
    <2> QED BY <2>4, <2>5, <2>6 DEF SafeInv
<1>9. ASSUME NEW h \in Hook, RunCommand(h)
      PROVE  SafeInv'
    <2> DEFINE f == [Top EXCEPT !.phase = "call", !.cur = h]
    <2>1. stack # <<>> /\ Top \in Frame
        BY <1>9, TopFrame DEF RunCommand, Selecting
    <2>2. /\ f \in Frame /\ f.type = Top.type /\ f.phase = "call"
          /\ f.cur = h /\ f.next = Top.next
        BY <2>1 DEF Frame, Phase
    <2>3. SetTop(f) /\ UNCHANGED <<status, recursion, pending>>
        BY <1>9 DEF RunCommand
    <2>4. h \in CommandFor(Top.name, Top.plugin, Top.any)
        BY <1>9 DEF RunCommand
    <2>5. Allocated(h)
        BY <2>4, CommandForLive DEF Allocated, Live
    <2> HIDE DEF f
    <2>6. \A x \in {f.cur, f.next} : x \in Hook => Allocated(x) \/ x \in {Top.cur, Top.next}
        BY <2>2, <2>5
    <2> QED BY <2>1, <2>2, <2>3, <2>6, SetTopSafe
<1>10. CASE CommandReturns
    BY <1>10, LeaveSafe DEF CommandReturns, InCallback, Guarded
<1>11. ASSUME NEW eat \in BOOLEAN, Return(eat)
       PROVE  SafeInv'
    <2> DEFINE f == IF Ends(Top.type, eat)
                      THEN [Top EXCEPT !.phase = "done", !.cur = NoHook]
                      ELSE [Top EXCEPT !.phase = "scan", !.cur = NoHook]
    <2>1. stack # <<>> /\ Top \in Frame
        BY <1>11, TopFrame DEF Return, InCallback
    <2>2. /\ f \in Frame /\ f.type = Top.type /\ f.phase \in {"done", "scan"}
          /\ f.cur = NoHook /\ f.next = Top.next
        BY <2>1 DEF Frame, Phase
    <2>3. SetTop(f) /\ UNCHANGED <<status, recursion, pending>>
        BY <1>11 DEF Return
    <2> HIDE DEF f
    <2>4. \A x \in {f.cur, f.next} : x \in Hook => Allocated(x) \/ x \in {Top.cur, Top.next}
        BY <2>2, ConstantsAssumption
    <2> QED BY <2>1, <2>2, <2>3, <2>4, SetTopSafe
<1>12. ASSUME NEW h \in Hook, AddHook(h)
       PROVE  SafeInv'
    <2>1. UNCHANGED <<stack, recursion, pending>>
        BY <1>12 DEF AddHook
    <2>2. \A x \in Hook : Allocated(x) => Allocated(x)'
        BY <1>12 DEF AddHook, Allocated, TypeOK
    <2>3. Deleted' = Deleted
        BY <1>12 DEF AddHook, Deleted, TypeOK
    <2>4. DeletedHooksPending'
        BY <2>1, <2>3 DEF SafeInv, DeletedHooksPending
    <2> QED BY <2>1, <2>2, <2>4, NoneFreedSafe
<1>13. ASSUME NEW h \in Hook, Unhook(h)
       PROVE  SafeInv'
    BY <1>13, UnhookSafe DEF Unhook
<1>14. ASSUME NEW p \in Plugin, UnhookAllPlugin(p)
       PROVE  SafeInv'
    <2> DEFINE S == {h \in Hook : Live(h) /\ PluginOf[h] = p}
    <2>1. S \in SUBSET Hook /\ S # {} /\ (\A h \in S : Live(h)) /\ UnhookSet(S)
        BY <1>14 DEF UnhookAllPlugin
    <2> HIDE DEF S
    <2> QED BY <2>1, UnhookSafe
<1>15. ASSUME NEW t \in DispatchedType, NEW n \in Name, StartDispatch(t, n)
       PROVE  SafeInv'
    <2>1. PICK g \in BOOLEAN, any \in BOOLEAN : StartLoop(t, n, g, NoPlugin, any)
        BY <1>15, Zenon DEF StartDispatch
    <2> QED BY <1>15, <2>1, StartLoopSafe
<1>16. ASSUME NEW n \in Name, NEW p \in Plugin, NEW any \in BOOLEAN, StartCommand(n, p, any)
       PROVE  SafeInv'
    <2>1. "command_run" \in DispatchedType
        BY DEF DispatchedType, StopsOnEat
    <2>2. PICK g \in BOOLEAN : StartLoop("command_run", n, g, p, any)
        BY <1>16, Zenon DEF StartCommand
    <2> QED BY <1>16, <2>1, <2>2, StartLoopSafe
<1>17. CASE UNCHANGED vars
    <2>1. UNCHANGED <<status, stack, recursion, pending>>
        BY <1>17 DEF vars
    <2>2. DeletedHooksPending'
        BY <2>1 DEF SafeInv, DeletedHooksPending, Deleted
    <2>3. \A x \in Hook : Allocated(x) => Allocated(x)'
        BY <2>1 DEF Allocated
    <2> QED BY <2>1, <2>2, <2>3, NoneFreedSafe
<1> QED
    BY <1>1, <1>2, <1>3, <1>4, <1>5, <1>6, <1>7, <1>8, <1>9, <1>10, <1>11,
       <1>12, <1>13, <1>14, <1>15, <1>16, <1>17 DEF Next, Loop, CallbackReturns

\* The program starts without a loop, without a hook.
LEMMA SafeInit == Init => SafeInv
<1> SUFFICES ASSUME Init PROVE SafeInv
    OBVIOUS
<1>1. stack = <<>> /\ recursion = 0 /\ pending = FALSE /\ Deleted = {}
    BY DEF Init, Deleted
<1>2. Len(stack) = 0 /\ stack \in Seq(Frame)
    BY <1>1
<1>3. Cardinality(Counted(stack)) = 0
    <2>1. \A i \in 1..Len(stack) : ~ Guarded(stack[i])
        BY <1>2
    <2> QED BY <1>2, <2>1, CountedFinite
<1>4. RecursionCountsLoops
    BY <1>1, <1>3, CountDef
<1>5. DeletedHooksPending
    BY <1>1 DEF DeletedHooksPending
<1>6. PointersValid /\ SelectIsCommand
    BY <1>2 DEF PointersValid, SelectIsCommand, Depth
<1> QED BY <1>4, <1>5, <1>6 DEF SafeInv

\* The inductive invariant holds in every reachable state.
LEMMA Safe == Spec => []SafeInv
<1>1. Init => TypeOK /\ ListsInv /\ SafeInv
    BY TypeInit, EmptyLists, SafeInit
<1> QED BY <1>1, TypeStep, ListsStep, SafeStep, PTL DEF Spec

\* No guarded loop, nor any loop above one, ever holds a pointer to a freed
\* hook, whatever the callbacks hook and unhook.
THEOREM PointersAlwaysValid == Spec => []PointersValid
<1>1. SafeInv => PointersValid
    BY DEF SafeInv
<1> QED BY <1>1, Safe, PTL

\* hook_exec_recursion is always the number of guarded loops in progress.
THEOREM RecursionAlwaysCounts == Spec => []RecursionCountsLoops
<1>1. SafeInv => RecursionCountsLoops
    BY DEF SafeInv
<1> QED BY <1>1, Safe, PTL

\* Deleted hooks exist only while a loop is counted, and real_delete_pending
\* tells whether there are any.
THEOREM DeletedAlwaysPending == Spec => []DeletedHooksPending
<1>1. SafeInv => DeletedHooksPending
    BY DEF SafeInv
<1> QED BY <1>1, Safe, PTL

\* The lists stay well formed: total orders of the allocated hooks of a type,
\* the live ones sorted by priority, whatever callbacks hook and unhook.
THEOREM ListsAlwaysWellFormed == Spec => []ListsWellFormed
  <1>1. TypeOK /\ ListsLinked /\ ListsSorted => ListsWellFormed
    BY DEF ListsWellFormed
  <1> QED
    BY <1>1, TypeCorrect, ListsAlwaysLinked, ListsAlwaysSorted, PTL

\* hook_exec_recursion and real_delete_pending are exact through every nesting
\* of loops and every way out of them.
THEOREM LoopsAlwaysAccounted == Spec => []LoopsAccounted
  <1>1. RecursionCountsLoops /\ DeletedHooksPending => LoopsAccounted
    BY DEF LoopsAccounted
  <1> QED
    BY <1>1, RecursionAlwaysCounts, DeletedAlwaysPending, PTL

(***************************************************************************)
(* Every event reaches every hook.  The inductive invariant says, of each  *)
(* loop in progress, what it still has in front of it; and that a hook     *)
(* which is still to be called is idle, or runs in a loop above.           *)
(***************************************************************************)
InCall(f) == f.phase \in {"call", "call2"}
Visits(f) == Guarded(f) /\ f.phase \in {"scan", "call", "call2"} /\ f.type # "command"

\* A loop walks the hooks of its own type; those it had to call, and those it
\* has called, are not freed under it; and it still has the others in front.
FrameSound(f) ==
    /\ InCall(f) => f.cur \in Hook
    /\ \A h \in {f.cur, f.next} : h \in Hook => TypeOf[h] = f.type
    /\ f.type = "command" => f.next = NoHook
    /\ \A h \in f.due : TypeOf[h] = f.type /\ f.name \in Covers[h]
    /\ \A h \in f.called : TypeOf[h] = f.type
    /\ Guarded(f) => \A h \in f.due \cup f.called : Allocated(h)
    /\ Visits(f) => /\ \A h \in f.due \ f.called : Live(h) => h \in Remaining(f)
                    /\ f.called \cap Remaining(f) = {}

\* A hook that a loop has yet to call is idle, but for the callbacks above it.
IdleUntilCalled ==
    \A i \in 1..Depth : Visits(stack[i]) =>
        \A h \in stack[i].due \ stack[i].called : running[h] # 0 =>
            \E j \in 1..Depth : j > i /\ InCall(stack[j]) /\ stack[j].cur = h

EventInv == (\A i \in 1..Depth : FrameSound(stack[i])) /\ IdleUntilCalled

\* The loops that a step leaves as they are: the first k, all but the innermost.
Kept(k) == /\ Len(stack) \in {k, k + 1} /\ Len(stack') \in {k, k + 1}
           /\ \A j \in 1..k : stack'[j] = stack[j]

\* Nothing is freed, and hooks are put in the lists between the others.
NoneFreed ==
    /\ \A h \in Hook : Allocated(h) => Allocated(h)' /\ (Live(h)' => Live(h))
    /\ \A a, b \in Hook : Allocated(a) /\ Allocated(b) =>
          (<<a, b>> \in precedes' <=> <<a, b>> \in precedes)

\* A hook runs because it ran already, or because the innermost loop calls it.
RunsAbove(k) ==
    \A h \in Hook : TypeOf[h] # "command" /\ running'[h] # 0 =>
       \/ Len(stack') = k + 1 /\ InCall(stack'[k + 1]) /\ stack'[k + 1].cur = h
       \/ /\ running[h] # 0
          /\ ~ (Len(stack) = k + 1 /\ InCall(stack[k + 1]) /\ stack[k + 1].cur = h)

\* The loops below the innermost one keep what they have to visit, and the
\* hooks they have yet to call stay idle.
LEMMA KeptSound ==
    ASSUME TypeOK, TypeOK', PointersValid, EventInv, NEW k \in Nat, Kept(k),
           NoneFreed \/ \A j \in 1..k : ~ Guarded(stack[j]),
           NEW i \in 1..k
    PROVE  FrameSound(stack[i])'
<1>1. stack'[i] = stack[i] /\ i \in 1..Depth
    BY DEF Kept, Depth
<1>2. FrameSound(stack[i]) /\ stack[i] \in Frame
    BY <1>1 DEF EventInv, TypeOK, Depth
<1>3. CASE ~ Guarded(stack[i])
    BY <1>1, <1>2, <1>3 DEF FrameSound, InCall, Visits, Guarded
<1>4. CASE Guarded(stack[i]) /\ NoneFreed
    <2> DEFINE f == stack[i]
    <2>1. f.next \in Hook => Allocated(f.next)
        <3>1. Protected(i)
            BY <1>1, <1>4 DEF Protected
        <3> QED BY <3>1, <1>1 DEF PointersValid
    <2>2. \A h \in f.due \cup f.called : h \in Hook /\ Allocated(h) /\ Allocated(h)'
        BY <1>2, <1>4 DEF FrameSound, NoneFreed, Frame
    <2>3. \A h \in f.due \cup f.called :
             (h = f.next \/ <<f.next, h>> \in precedes)
               <=> (h = f.next \/ <<f.next, h>> \in precedes')
        <3>1. precedes \subseteq Hook \X Hook /\ precedes' \subseteq Hook \X Hook
            BY DEF TypeOK
        <3> QED BY <1>4, <2>1, <2>2, <3>1 DEF NoneFreed
    <2>4. \A h \in f.due \cup f.called : Live(h)' => Live(h)
        BY <2>2, <1>4 DEF NoneFreed
    <2>5. f' = f
        BY <1>1
    <2>6. Visits(f) => /\ \A h \in f.due \ f.called : Live(h)' => h \in Remaining(f)'
                       /\ f.called \cap Remaining(f)' = {}
        BY <1>2, <2>2, <2>3, <2>4, <2>5 DEF FrameSound, Remaining
    <2> QED BY <1>2, <1>4, <2>2, <2>5, <2>6 DEF FrameSound, InCall, Visits, Guarded
<1>5. QED
    BY <1>3, <1>4 DEF Kept

\* The same for the whole invariant, given what the innermost loop becomes.
LEMMA EventKept ==
    ASSUME TypeOK, TypeOK', PointersValid, EventInv, NEW k \in Nat, Kept(k),
           NoneFreed \/ \A j \in 1..k : ~ Guarded(stack[j]),
           RunsAbove(k),
           Len(stack') = k + 1 =>
             /\ FrameSound(stack[k + 1])'
             /\ Visits(stack'[k + 1]) =>
                  \A h \in stack'[k + 1].due \ stack'[k + 1].called : running'[h] = 0
    PROVE  EventInv'
<1>0. Depth' = Len(stack') /\ Depth = Len(stack) /\ Len(stack') \in {k, k + 1}
      /\ Len(stack) \in {k, k + 1}
    BY DEF Kept, Depth
<1>1. ASSUME NEW i \in 1..Len(stack')
      PROVE  FrameSound(stack[i])'
    <2>1. CASE i \in 1..k
        BY <2>1, KeptSound
    <2>2. CASE i = k + 1
        BY <1>0, <1>1, <2>2
    <2> QED BY <1>0, <2>1, <2>2
<1>2. IdleUntilCalled'
    <2> SUFFICES ASSUME NEW i \in 1..Len(stack'), Visits(stack'[i]),
                        NEW h \in stack'[i].due \ stack'[i].called, running'[h] # 0
                 PROVE  \E j \in 1..Len(stack') :
                           j > i /\ InCall(stack'[j]) /\ stack'[j].cur = h
        BY <1>0 DEF IdleUntilCalled, Visits, InCall, Guarded
    <2>1. i \in 1..k
        BY <1>0
    <2>2. stack'[i] = stack[i] /\ i \in 1..Len(stack)
        BY <2>1, <1>0 DEF Kept
    <2>3. stack[i] \in Frame /\ FrameSound(stack[i])
        BY <2>2, <1>0 DEF TypeOK, EventInv
    <2>4. h \in Hook /\ TypeOf[h] = stack[i].type /\ TypeOf[h] # "command"
        BY <2>2, <2>3 DEF FrameSound, Frame, Visits
    <2>5. CASE Len(stack') = k + 1 /\ InCall(stack'[k + 1]) /\ stack'[k + 1].cur = h
        BY <2>1, <2>5
    <2>6. CASE /\ running[h] # 0
               /\ ~ (Len(stack) = k + 1 /\ InCall(stack[k + 1]) /\ stack[k + 1].cur = h)
        <3>1. PICK j \in 1..Len(stack) : j > i /\ InCall(stack[j]) /\ stack[j].cur = h
            BY <2>2, <2>6, <1>0 DEF EventInv, IdleUntilCalled
        <3>2. j \in 1..k /\ j \in 1..Len(stack')
            BY <3>1, <2>6, <1>0
        <3> QED BY <3>1, <3>2 DEF Kept
    <2> QED BY <2>4, <2>5, <2>6 DEF RunsAbove
<1> QED BY <1>0, <1>1, <1>2 DEF EventInv

\* The innermost loop goes on.
LEMMA EventSetTop ==
    ASSUME TypeOK, TypeOK', PointersValid, EventInv, stack # <<>>,
           NEW f \in Frame, SetTop(f), UNCHANGED <<status, precedes>>, FrameSound(f),
           Visits(f) => \A h \in f.due \ f.called : running'[h] = 0,
           \A h \in Hook : TypeOf[h] # "command" /\ running'[h] # 0 =>
              \/ InCall(f) /\ f.cur = h
              \/ running[h] # 0 /\ ~ (InCall(Top) /\ Top.cur = h)
    PROVE  EventInv'
<1>0. /\ Len(stack) \in Nat /\ Len(stack) # 0 /\ Len(stack') = Len(stack)
      /\ Top = stack[Len(stack)] /\ stack'[Len(stack)] = f
      /\ \A i \in 1..Len(stack) - 1 : stack'[i] = stack[i]
    BY SetLastFacts DEF TypeOK, SetTop, Depth, Top
<1>10. PICK k \in Nat : Len(stack) = k + 1
    <2>1. Len(stack) - 1 \in Nat /\ Len(stack) = (Len(stack) - 1) + 1
        BY <1>0
    <2> QED BY <2>1, Zenon
<1>1. Len(stack') = k + 1 /\ Kept(k)
    BY <1>0, <1>10 DEF Kept
<1>2. NoneFreed
    BY DEF NoneFreed, Allocated, Live
<1>3. stack'[k + 1] = f /\ Top = stack[k + 1]
    BY <1>0, <1>10
<1>4. RunsAbove(k)
    BY <1>10, <1>1, <1>3 DEF RunsAbove
<1>5. FrameSound(stack[k + 1])'
    <2>1. FrameSound(stack'[k + 1])
        BY <1>3
    <2> QED BY <2>1 DEF FrameSound, InCall, Visits, Guarded, Remaining, Allocated, Live
<1> QED BY <1>1, <1>2, <1>3, <1>4, <1>5, EventKept

\* Going on to the next hook of a list leaves exactly one hook behind.
LEMMA NextFacts ==
    ASSUME TypeOK, ListsLinked, NEW h \in Hook, Allocated(h), NEW n \in NextOf(h)
    PROVE  /\ n \in Hook => TypeOf[n] = TypeOf[h]
           /\ n # h
           /\ \A x \in Hook : <<h, x>> \in precedes <=> (x = n \/ <<n, x>> \in precedes)
           /\ <<n, h>> \notin precedes /\ <<h, h>> \notin precedes
<1>1. precedes \subseteq Hook \X Hook /\ NoHook \notin Hook
    BY ConstantsAssumption DEF TypeOK
<1>2. CASE \E x \in Hook : <<h, x>> \in precedes
    <2>1. /\ n \in Hook /\ <<h, n>> \in precedes
          /\ \A y \in Hook : ~ (<<h, y>> \in precedes /\ <<y, n>> \in precedes)
        BY <1>1, <1>2 DEF NextOf
    <2>2. n # h /\ TypeOf[n] = TypeOf[h] /\ Allocated(n)
        BY <2>1 DEF ListsLinked
    <2>3. <<n, h>> \notin precedes /\ <<h, h>> \notin precedes
        BY <2>1 DEF ListsLinked
    <2>4. ASSUME NEW x \in Hook, <<h, x>> \in precedes, x # n
          PROVE  <<n, x>> \in precedes
        <3>1. Allocated(x) /\ TypeOf[x] = TypeOf[n] /\ <<x, n>> \notin precedes
            BY <2>1, <2>2, <2>4 DEF ListsLinked
        <3> QED BY <2>1, <2>2, <2>4, <3>1 DEF ListsLinked
    <2>5. \A x \in Hook : <<n, x>> \in precedes => <<h, x>> \in precedes
        BY <2>1 DEF ListsLinked
    <2> QED BY <2>1, <2>2, <2>3, <2>4, <2>5
<1>3. CASE ~ \E x \in Hook : <<h, x>> \in precedes
    <2>1. n = NoHook
        BY <1>1, <1>3 DEF NextOf
    <2> QED BY <1>1, <1>3, <2>1
<1> QED BY <1>2, <1>3

\* All the hooks of a list are the first one and those behind it.
LEMMA HeadFacts ==
    ASSUME TypeOK, ListsLinked, NEW t, NEW n \in HeadOf(t)
    PROVE  /\ n \in Hook => TypeOf[n] = t
           /\ \A x \in Hook : Allocated(x) /\ TypeOf[x] = t => x = n \/ <<n, x>> \in precedes
<1>1. NoHook \notin Hook
    BY ConstantsAssumption
<1>2. CASE \E x \in Hook : Allocated(x) /\ TypeOf[x] = t
    <2>1. n \in Hook /\ Allocated(n) /\ TypeOf[n] = t /\ \A x \in Hook : <<x, n>> \notin precedes
        BY <1>1, <1>2 DEF HeadOf
    <2> QED BY <2>1 DEF ListsLinked
<1>3. CASE ~ \E x \in Hook : Allocated(x) /\ TypeOf[x] = t
    BY <1>1, <1>3 DEF HeadOf
<1> QED BY <1>2, <1>3

\* In the innermost loop the hooks still to be called are idle.
LEMMA TopIdle ==
    ASSUME TypeOK, EventInv, stack # <<>>, Visits(Top)
    PROVE  \A h \in Top.due \ Top.called : running[h] = 0
<1>1. Depth \in 1..Depth /\ Top = stack[Depth] /\ Depth \in Nat
    BY TopFrame DEF Top
<1>2. \A j \in 1..Depth : ~ (j > Depth)
    BY <1>1
<1> QED BY <1>1, <1>2 DEF EventInv, IdleUntilCalled

\* What the invariant says of the innermost loop.
LEMMA TopSound ==
    ASSUME TypeOK, EventInv, stack # <<>>
    PROVE  Top \in Frame /\ FrameSound(Top) /\ Depth \in 1..Depth /\ Top = stack[Depth]
<1>1. Depth \in 1..Depth /\ Top = stack[Depth] /\ Top \in Frame
    BY TopFrame DEF Top
<1> QED BY <1>1 DEF EventInv

\* A guarded innermost loop holds pointers to allocated hooks.
LEMMA TopValid ==
    ASSUME TypeOK, PointersValid, stack # <<>>, Guarded(Top)
    PROVE  /\ Top.next \in Hook => Allocated(Top.next)
           /\ Top.cur \in Hook => Allocated(Top.cur)
<1>1. Depth \in 1..Depth /\ Top = stack[Depth]
    BY TopFrame DEF Top
<1>2. Protected(Depth)
    BY <1>1 DEF Protected
<1> QED BY <1>1, <1>2 DEF PointersValid

\* A loop steps over a hook.
LEMMA SkipEvent ==
    ASSUME TypeOK, TypeOK', ListsLinked, PointersValid, EventInv, Skip
    PROVE  EventInv'
<1>1. PICK n \in NextOf(Top.next) : SetTop([Top EXCEPT !.next = n])
    BY DEF Skip
<1> DEFINE f == [Top EXCEPT !.next = n]
<1>2. stack # <<>> /\ Top.next \in Hook /\ Allocated(Top.next) /\ Top.phase = "scan"
    BY DEF Skip, Scanning
<1>3. Top \in Frame /\ FrameSound(Top)
    BY <1>2, TopSound
<1>4. /\ f \in Frame /\ f.type = Top.type /\ f.phase = "scan" /\ f.cur = Top.cur
      /\ f.next = n /\ f.due = Top.due /\ f.called = Top.called /\ f.name = Top.name
    BY <1>1, <1>2, <1>3, NextType DEF Frame
<1>5. UNCHANGED <<status, precedes, running>> /\ SetTop(f)
    BY <1>1 DEF Skip
<1>6. ~ InCall(f) /\ ~ InCall(Top) /\ (Visits(f) <=> Visits(Top))
    BY <1>2, <1>4 DEF InCall, Visits, Guarded
<1> HIDE DEF f
<1>7. ASSUME Visits(f)
      PROVE  /\ \A h \in f.due \ f.called : Live(h) => h \in Remaining(f)
             /\ f.called \cap Remaining(f) = {}
    <2>1. \A x \in Hook : <<Top.next, x>> \in precedes <=> (x = n \/ <<n, x>> \in precedes)
        BY <1>1, <1>2, NextFacts
    <2>2. n # Top.next /\ <<n, Top.next>> \notin precedes /\ <<Top.next, Top.next>> \notin precedes
        BY <1>1, <1>2, NextFacts
    <2>3. \A h \in f.due \ f.called : Live(h) => h # Top.next
        <3>1. \A h \in f.due \ f.called : running[h] = 0 /\ Top.name \in Covers[h]
            BY <1>2, <1>3, <1>4, <1>6, <1>7, TopIdle DEF FrameSound
        <3>2. ~ Runnable(Top.next)
            BY DEF Skip
        <3> QED BY <3>1, <3>2 DEF Runnable
    <2>4. \A h \in Hook : h \in Remaining(f) <=> h = n \/ <<n, h>> \in precedes
        BY <1>4 DEF Remaining
    <2>5. \A h \in Hook : h \in Remaining(Top) <=> h = Top.next \/ <<Top.next, h>> \in precedes
        BY DEF Remaining
    <2>6. f.due \subseteq Hook /\ f.called \subseteq Hook
        BY <1>4 DEF Frame
    <2>7. \A h \in f.due \ f.called : Live(h) => h \in Remaining(f)
        BY <1>3, <1>4, <1>6, <1>7, <2>1, <2>3, <2>4, <2>5, <2>6 DEF FrameSound
    <2>8. f.called \cap Remaining(f) = {}
        BY <1>3, <1>4, <1>6, <1>7, <2>1, <2>4, <2>5, <2>6 DEF FrameSound
    <2> QED BY <2>7, <2>8
<1>8. FrameSound(f)
    <2>1. n \in Hook => TypeOf[n] = TypeOf[Top.next]
        BY <1>1, <1>2, NextFacts
    <2>2. f.type # "command"
        BY <1>2, <1>3, <1>4, ConstantsAssumption DEF FrameSound
    <2> QED BY <1>2, <1>3, <1>4, <1>6, <1>7, <2>1, <2>2 DEF FrameSound, Guarded
<1>9. Visits(f) => \A h \in f.due \ f.called : running'[h] = 0
    BY <1>2, <1>4, <1>5, <1>6, TopIdle
<1> QED BY <1>2, <1>4, <1>5, <1>6, <1>8, <1>9, EventSetTop

\* A loop calls a hook.
LEMMA CallEvent ==
    ASSUME TypeOK, TypeOK', ListsLinked, PointersValid, EventInv, Call
    PROVE  EventInv'
<1>1. PICK n \in NextOf(Top.next) :
        SetTop([Top EXCEPT !.cur = Top.next, !.next = n, !.phase = "call",
                           !.called = @ \cup {Top.next}])
    BY DEF Call
<1> DEFINE f == [Top EXCEPT !.cur = Top.next, !.next = n, !.phase = "call",
                            !.called = @ \cup {Top.next}]
<1>2. stack # <<>> /\ Top.next \in Hook /\ Allocated(Top.next) /\ Top.phase = "scan"
    BY DEF Call, Scanning
<1>3. Top \in Frame /\ FrameSound(Top)
    BY <1>2, TopSound
<1>4. /\ f \in Frame /\ f.type = Top.type /\ f.phase = "call" /\ f.cur = Top.next
      /\ f.next = n /\ f.due = Top.due /\ f.called = Top.called \cup {Top.next}
      /\ f.name = Top.name
    BY <1>1, <1>2, <1>3, NextType DEF Frame, Phase
<1>5. /\ UNCHANGED <<status, precedes>> /\ SetTop(f)
      /\ running' = [running EXCEPT ![Top.next] = 1]
    BY <1>1 DEF Call
<1>6. InCall(f) /\ ~ InCall(Top) /\ (Visits(f) <=> Visits(Top))
    BY <1>2, <1>4 DEF InCall, Visits, Guarded
<1> HIDE DEF f
<1>7. ASSUME Visits(f)
      PROVE  /\ \A h \in f.due \ f.called : Live(h) => h \in Remaining(f)
             /\ f.called \cap Remaining(f) = {}
    <2>1. \A x \in Hook : <<Top.next, x>> \in precedes <=> (x = n \/ <<n, x>> \in precedes)
        BY <1>1, <1>2, NextFacts
    <2>2. n # Top.next /\ <<n, Top.next>> \notin precedes /\ <<Top.next, Top.next>> \notin precedes
        BY <1>1, <1>2, NextFacts
    <2>4. \A h \in Hook : h \in Remaining(f) <=> h = n \/ <<n, h>> \in precedes
        BY <1>4 DEF Remaining
    <2>5. \A h \in Hook : h \in Remaining(Top) <=> h = Top.next \/ <<Top.next, h>> \in precedes
        BY DEF Remaining
    <2>6. f.due \subseteq Hook /\ f.called \subseteq Hook
        BY <1>4 DEF Frame
    <2>7. \A h \in f.due \ f.called : Live(h) => h \in Remaining(f)
        BY <1>3, <1>4, <1>6, <1>7, <2>1, <2>4, <2>5, <2>6 DEF FrameSound
    <2>8. f.called \cap Remaining(f) = {}
        BY <1>3, <1>4, <1>6, <1>7, <2>1, <2>2, <2>4, <2>5, <2>6 DEF FrameSound
    <2> QED BY <2>7, <2>8
<1>8. FrameSound(f)
    <2>1. n \in Hook => TypeOf[n] = TypeOf[Top.next]
        BY <1>1, <1>2, NextFacts
    <2>2. \A h \in {f.cur, f.next} : h \in Hook => TypeOf[h] = f.type
        BY <1>2, <1>3, <1>4, <2>1 DEF FrameSound
    <2>3. \A h \in f.due : TypeOf[h] = f.type /\ f.name \in Covers[h]
        BY <1>3, <1>4 DEF FrameSound
    <2>4. \A h \in f.called : TypeOf[h] = f.type
        BY <1>2, <1>3, <1>4 DEF FrameSound
    <2>5. Guarded(f) => \A h \in f.due \cup f.called : Allocated(h)
        BY <1>2, <1>3, <1>4 DEF FrameSound, Guarded
    <2>6. f.type # "command"
        BY <1>2, <1>3, <1>4, ConstantsAssumption DEF FrameSound
    <2> QED BY <1>2, <1>4, <1>7, <2>2, <2>3, <2>4, <2>5, <2>6 DEF FrameSound
<1>9. Visits(f) => \A h \in f.due \ f.called : running'[h] = 0
    <2>1. \A h \in Hook : h # Top.next => running'[h] = running[h]
        BY <1>5 DEF TypeOK
    <2>2. f.due \subseteq Hook
        BY <1>4 DEF Frame
    <2> QED BY <1>2, <1>4, <1>6, <2>1, <2>2, TopIdle
<1>10. \A h \in Hook : running'[h] # 0 => h = Top.next \/ running[h] # 0
    BY <1>5 DEF TypeOK
<1> QED BY <1>2, <1>4, <1>5, <1>6, <1>8, <1>9, <1>10, EventSetTop

\* A callback returns to its loop.
LEMMA ReturnEvent ==
    ASSUME TypeOK, TypeOK', PointersValid, EventInv, NEW eat \in BOOLEAN, Return(eat)
    PROVE  EventInv'
<1> DEFINE f == IF Ends(Top.type, eat)
                  THEN [Top EXCEPT !.phase = "done", !.cur = NoHook]
                  ELSE [Top EXCEPT !.phase = "scan", !.cur = NoHook]
<1>1. stack # <<>> /\ InCall(Top) /\ Top.type # "command"
    BY DEF Return, InCallback, InCall
<1>2. Top \in Frame /\ FrameSound(Top) /\ Top.cur \in Hook
    BY <1>1, TopSound DEF FrameSound
<1>3. /\ f \in Frame /\ f.type = Top.type /\ f.phase \in {"done", "scan"} /\ f.cur = NoHook
      /\ f.next = Top.next /\ f.due = Top.due /\ f.called = Top.called /\ f.name = Top.name
    BY <1>2 DEF Frame, Phase
<1>4. /\ UNCHANGED <<status, precedes>> /\ SetTop(f)
      /\ running' = [running EXCEPT ![Top.cur] = 0]
    BY DEF Return
<1>5. ~ InCall(f) /\ (Visits(f) => Visits(Top)) /\ Remaining(f) = Remaining(Top)
    BY <1>1, <1>3 DEF InCall, Visits, Guarded, Remaining
<1> HIDE DEF f
<1>6. FrameSound(f)
    BY <1>1, <1>2, <1>3, <1>5, ConstantsAssumption DEF FrameSound, Guarded
<1>7. \A h \in Hook : running'[h] = IF h = Top.cur THEN 0 ELSE running[h]
    BY <1>2, <1>4 DEF TypeOK
<1>8. Visits(f) => \A h \in f.due \ f.called : running'[h] = 0
    <2>1. f.due \subseteq Hook
        BY <1>3 DEF Frame
    <2> QED BY <1>1, <1>3, <1>5, <1>7, <2>1, TopIdle
<1> QED BY <1>1, <1>3, <1>4, <1>6, <1>7, <1>8, EventSetTop

\* A focus hook is called a second time.
LEMMA FocusAgainEvent ==
    ASSUME TypeOK, TypeOK', PointersValid, EventInv, FocusAgain
    PROVE  EventInv'
<1> DEFINE f == [Top EXCEPT !.phase = "call2"]
<1>1. stack # <<>> /\ Top.phase = "call"
    BY DEF FocusAgain, InCallback
<1>2. Top \in Frame /\ FrameSound(Top)
    BY <1>1, TopSound
<1>3. /\ f \in Frame /\ f.type = Top.type /\ f.phase = "call2" /\ f.cur = Top.cur
      /\ f.next = Top.next /\ f.due = Top.due /\ f.called = Top.called /\ f.name = Top.name
    BY <1>2 DEF Frame, Phase
<1>4. UNCHANGED <<status, precedes, running>> /\ SetTop(f)
    BY DEF FocusAgain
<1>5. InCall(f) /\ InCall(Top) /\ (Visits(f) <=> Visits(Top)) /\ Remaining(f) = Remaining(Top)
    BY <1>1, <1>3 DEF InCall, Visits, Guarded, Remaining
<1> HIDE DEF f
<1>6. FrameSound(f)
    BY <1>2, <1>3, <1>5 DEF FrameSound, Guarded
<1>7. Visits(f) => \A h \in f.due \ f.called : running'[h] = 0
    BY <1>1, <1>3, <1>4, <1>5, TopIdle
<1> QED BY <1>1, <1>3, <1>4, <1>5, <1>6, <1>7, EventSetTop

\* A command is selected and runs.
LEMMA RunCommandEvent ==
    ASSUME TypeOK, TypeOK', SafeInv, EventInv, NEW h \in Hook, RunCommand(h)
    PROVE  EventInv'
<1> DEFINE f == [Top EXCEPT !.phase = "call", !.cur = h]
<1>1. stack # <<>> /\ Top.phase = "select"
    BY DEF RunCommand, Selecting
<1>2. Top \in Frame /\ FrameSound(Top) /\ Top.type = "command"
    BY <1>1, TopSound DEF SafeInv, SelectIsCommand
<1>3. /\ f \in Frame /\ f.type = "command" /\ f.phase = "call" /\ f.cur = h
      /\ f.next = Top.next /\ f.due = Top.due /\ f.called = Top.called /\ f.name = Top.name
    BY <1>2 DEF Frame, Phase
<1>4. /\ UNCHANGED <<status, precedes>> /\ SetTop(f)
      /\ running' = [running EXCEPT ![h] = @ + 1]
    BY DEF RunCommand
<1>5. TypeOf[h] = "command"
    BY CommandForLive DEF RunCommand
<1>6. ~ Visits(f) /\ ~ InCall(Top)
    BY <1>1, <1>3 DEF InCall, Visits
<1> HIDE DEF f
<1>7. FrameSound(f)
    BY <1>2, <1>3, <1>5, <1>6 DEF FrameSound, Guarded
<1>8. \A x \in Hook : TypeOf[x] # "command" => running'[x] = running[x]
    BY <1>4, <1>5 DEF TypeOK
<1> QED BY <1>1, <1>3, <1>4, <1>6, <1>7, <1>8, EventSetTop DEF SafeInv

\* The loop before a command is over, the command is looked for.
LEMMA CommandGoesOnEvent ==
    ASSUME TypeOK, TypeOK', PointersValid, EventInv, CommandGoesOn
    PROVE  EventInv'
<1> DEFINE f == [Top EXCEPT !.type = "command", !.phase = "select",
                            !.cur = NoHook, !.due = {}, !.called = {}]
<1>1. stack # <<>> /\ Top \in Frame /\ Top.next = NoHook /\ Top.phase = "scan"
    BY TopFrame DEF CommandGoesOn, Exhausted
<1>2. /\ f \in Frame /\ f.type = "command" /\ f.phase = "select"
      /\ f.cur = NoHook /\ f.next = NoHook /\ f.due = {} /\ f.called = {}
    BY <1>1 DEF Frame, Phase, HookType
<1>3. SetTop(f) /\ UNCHANGED <<status, precedes, running>>
    BY DEF CommandGoesOn
<1>4. ~ Visits(f) /\ ~ InCall(f) /\ ~ InCall(Top)
    BY <1>1, <1>2 DEF InCall, Visits
<1> HIDE DEF f
<1>5. FrameSound(f)
    BY <1>2, <1>4, ConstantsAssumption DEF FrameSound
<1> QED BY <1>1, <1>2, <1>3, <1>4, <1>5, EventSetTop

\* A new loop has all the hooks that are due in front of it.
LEMMA StartLoopEvent ==
    ASSUME TypeOK, TypeOK', ListsLinked, PointersValid, EventInv, NEW t \in DispatchedType,
           NEW n \in Name, NEW g \in BOOLEAN, NEW p \in Plugin \cup {NoPlugin},
           NEW any \in BOOLEAN, StartLoop(t, n, g, p, any)
    PROVE  EventInv'
<1> DEFINE F(first) == [type |-> t, name |-> n, cur |-> NoHook, next |-> first,
                        phase |-> "scan", gesture |-> g, plugin |-> p, any |-> any,
                        due |-> Due(t, n), called |-> {}]
<1>1. PICK first \in HeadOf(t) : stack' = Append(stack, F(first))
    BY DEF StartLoop
<1>2. /\ first \in Hook => TypeOf[first] = t
      /\ \A x \in Hook : Allocated(x) /\ TypeOf[x] = t => x = first \/ <<first, x>> \in precedes
    BY <1>1, HeadFacts
<1>3. first \in Hook \cup {NoHook}
    BY <1>1, NextType
<1>4. /\ F(first) \in Frame /\ F(first).type = t /\ F(first).phase = "scan"
      /\ F(first).cur = NoHook /\ F(first).next = first /\ F(first).due = Due(t, n)
      /\ F(first).called = {} /\ F(first).name = n
    BY <1>3 DEF Frame, Phase, Due, HookType
<1> HIDE DEF F
<1>5. /\ Len(stack) \in Nat /\ Len(stack') = Len(stack) + 1
      /\ \A i \in 1..Len(stack) : stack'[i] = stack[i]
      /\ stack'[Len(stack) + 1] = F(first)
    BY <1>1, <1>4, PushFacts DEF TypeOK
<1>6. UNCHANGED <<status, precedes, running>>
    BY DEF StartLoop
<1>7. FrameSound(F(first))
    <2>1. Remaining(F(first)) = {h \in Hook : h = first \/ <<first, h>> \in precedes}
        BY <1>4 DEF Remaining
    <2>2. Due(t, n) \subseteq {h \in Hook : Allocated(h) /\ TypeOf[h] = t /\ n \in Covers[h]}
        BY DEF Due, Live, Allocated
    <2>3. t # "command"
        BY DEF DispatchedType, NeverStops, StopsOnEat, StopsAtFirst
    <2> QED BY <1>2, <1>4, <2>1, <2>2, <2>3, ConstantsAssumption DEF FrameSound, InCall
<1>8. PICK k \in Nat : k = Len(stack)
    BY <1>5
<1>9. Kept(k)
    BY <1>5, <1>8 DEF Kept
<1>10. FrameSound(stack[k + 1])'
    <2>1. FrameSound(stack'[k + 1])
        BY <1>5, <1>7, <1>8
    <2> QED BY <1>6, <2>1 DEF FrameSound, InCall, Visits, Guarded, Remaining, Allocated, Live
<1>11. \A h \in stack'[k + 1].due \ stack'[k + 1].called : running'[h] = 0
    BY <1>4, <1>5, <1>6, <1>8 DEF Due
<1>12. RunsAbove(k)
    BY <1>5, <1>6, <1>8 DEF RunsAbove
<1>13. NoneFreed
    BY <1>6 DEF NoneFreed, Allocated, Live
<1> QED BY <1>9, <1>10, <1>11, <1>12, <1>13, EventKept

\* The innermost loop ends; what it ran has returned.
LEMMA PopEvent ==
    ASSUME TypeOK, TypeOK', PointersValid, EventInv, stack # <<>>,
           stack' = SubSeq(stack, 1, Len(stack) - 1),
           NoneFreed \/ \A j \in 1..Len(stack') : ~ Guarded(stack'[j]),
           \A h \in Hook : TypeOf[h] # "command" /\ running'[h] # 0 =>
              running[h] # 0 /\ ~ (InCall(Top) /\ Top.cur = h)
    PROVE  EventInv'
<1>1. /\ Len(stack) \in Nat /\ Len(stack) # 0 /\ Len(stack') = Len(stack) - 1
      /\ \A i \in 1..Len(stack) - 1 : stack'[i] = stack[i]
      /\ Top = stack[Len(stack)]
    BY PopFacts DEF TypeOK, Depth, Top
<1>2. PICK k \in Nat : Len(stack) = k + 1
    <2>1. Len(stack) - 1 \in Nat /\ Len(stack) = (Len(stack) - 1) + 1
        BY <1>1
    <2> QED BY <2>1, Zenon
<1>3. Len(stack') = k /\ Kept(k)
    BY <1>1, <1>2 DEF Kept
<1>4. NoneFreed \/ \A j \in 1..k : ~ Guarded(stack[j])
    BY <1>3 DEF Kept
<1>5. RunsAbove(k)
    BY <1>1, <1>2, <1>3 DEF RunsAbove
<1>6. Len(stack') # k + 1
    BY <1>3
<1> QED BY <1>3, <1>4, <1>5, <1>6, EventKept

\* hook_exec_end frees hooks only when no counted loop is left.
LEMMA LeaveEvent ==
    ASSUME TypeOK, TypeOK', SafeInv, EventInv, stack # <<>>, Guarded(Top), Leave,
           \A h \in Hook : TypeOf[h] # "command" /\ running'[h] # 0 =>
              running[h] # 0 /\ ~ (InCall(Top) /\ Top.cur = h)
    PROVE  EventInv'
<1>1. stack' = SubSeq(stack, 1, Len(stack) - 1)
    BY DEF Leave, Depth
<1>2. CASE recursion = 1 /\ pending
    <2>1. SafeInv'
        BY LeaveSafe
    <2>2. Cardinality(Counted(stack')) = 0
        <3>1. recursion' = 0
            BY <1>2 DEF Leave
        <3> QED BY <2>1, <3>1 DEF SafeInv, RecursionCountsLoops, Counted, Depth
    <2>3. \A j \in 1..Len(stack') : ~ Guarded(stack'[j])
        BY <2>2, CountedFinite DEF TypeOK
    <2> QED BY <1>1, <2>3, PopEvent DEF SafeInv
<1>3. CASE ~ (recursion = 1 /\ pending)
    <2>1. UNCHANGED <<status, precedes>>
        BY <1>3 DEF Leave
    <2>2. NoneFreed
        BY <2>1 DEF NoneFreed, Allocated, Live
    <2> QED BY <1>1, <2>2, PopEvent DEF SafeInv
<1> QED BY <1>2, <1>3

\* A change of the lists by the code that runs in the innermost callback.
LEMMA ListsEvent ==
    ASSUME TypeOK, TypeOK', PointersValid, EventInv, stack' = stack,
           NoneFreed \/ \A j \in 1..Len(stack) : ~ Guarded(stack[j]),
           \A h \in Hook : running'[h] # 0 => running[h] # 0
    PROVE  EventInv'
<1>1. PICK k \in Nat : k = Len(stack)
    BY DEF TypeOK
<1>2. Kept(k) /\ Len(stack) # k + 1 /\ Len(stack') # k + 1
    BY <1>1 DEF Kept
<1>3. RunsAbove(k)
    BY <1>2 DEF RunsAbove
<1> QED BY <1>1, <1>2, <1>3, EventKept

\* hook_add_to_list puts a hook between the others: no loop loses one.
LEMMA AddHookEvent ==
    ASSUME TypeOK, TypeOK', ListsLinked, PointersValid, EventInv, NEW h \in Hook, AddHook(h)
    PROVE  EventInv'
<1>1. stack' = stack /\ precedes' = Inserted(h)
    BY DEF AddHook
<1>2. \A x \in Hook : running'[x] # 0 => running[x] # 0
    BY DEF AddHook, TypeOK
<1>3. status[h] = "free" /\ status' = [status EXCEPT ![h] = "live"]
    BY DEF AddHook
<1>4. NoneFreed
    <2>1. \A x \in Hook : Allocated(x) => Allocated(x)' /\ (Live(x)' => Live(x))
        BY <1>3 DEF Allocated, Live, TypeOK
    <2>2. \A a, b \in Hook : Allocated(a) /\ Allocated(b) =>
             (<<a, b>> \in precedes' <=> <<a, b>> \in precedes)
        BY <1>1, <1>3 DEF Inserted, Allocated
    <2> QED BY <2>1, <2>2 DEF NoneFreed
<1> QED BY <1>1, <1>2, <1>4, ListsEvent

\* unhook() under a counted loop only marks hooks: no loop loses its place.
LEMMA UnhookEvent ==
    ASSUME TypeOK, TypeOK', SafeInv, EventInv, NEW S \in SUBSET Hook,
           \A h \in S : Live(h), UnhookSet(S)
    PROVE  EventInv'
<1>1. stack' = stack /\ running' = running
    BY DEF UnhookSet
<1>2. CASE recursion = 0
    <2>1. Cardinality(Counted(stack)) = 0
        BY <1>2, CountDef DEF SafeInv
    <2>2. \A j \in 1..Len(stack) : ~ Guarded(stack[j])
        BY <2>1, CountedFinite DEF TypeOK
    <2> QED BY <1>1, <2>2, ListsEvent DEF SafeInv
<1>3. CASE recursion # 0
    <2>1. /\ status' = [h \in Hook |-> IF h \in S THEN "deleted" ELSE status[h]]
          /\ precedes' = precedes
        BY <1>3 DEF UnhookSet
    <2>2. NoneFreed
        BY <2>1 DEF NoneFreed, Allocated, Live
    <2> QED BY <1>1, <2>2, ListsEvent DEF SafeInv
<1> QED BY <1>2, <1>3

\* The invariant of the events is inductive.
LEMMA EventStep == TypeOK /\ ListsInv /\ SafeInv /\ EventInv /\ [Next]_vars => EventInv'
<1> SUFFICES ASSUME TypeOK, ListsInv, SafeInv, EventInv, [Next]_vars
             PROVE  EventInv'
    OBVIOUS
<1>0. TypeOK' /\ ListsLinked /\ PointersValid
    BY TypeStep DEF ListsInv, SafeInv
<1>1. CASE Skip
    BY <1>0, <1>1, SkipEvent
<1>2. CASE Call
    BY <1>0, <1>2, CallEvent
<1>3. CASE FocusAgain
    BY <1>0, <1>3, FocusAgainEvent
<1>4. CASE Finish
    BY <1>0, <1>4, LeaveEvent DEF Finish, Exhausted, InCall
<1>5. CASE CommandEaten
    <2>1. stack # <<>> /\ Top.phase = "done" /\ UNCHANGED <<status, precedes, running>>
        BY <1>5 DEF CommandEaten, Exhausted
    <2>2. NoneFreed /\ ~ InCall(Top) /\ stack' = SubSeq(stack, 1, Len(stack) - 1)
        BY <1>5, <2>1 DEF NoneFreed, Allocated, Live, InCall, CommandEaten, Depth
    <2> QED BY <1>0, <2>1, <2>2, PopEvent
<1>6. CASE CommandGoesOn
    BY <1>0, <1>6, CommandGoesOnEvent
<1>7. CASE NoCommand
    <2>1. stack # <<>> /\ Top.phase = "select" /\ Leave /\ running' = running
        BY <1>7 DEF NoCommand, Selecting
    <2>2. Top.type = "command" /\ ~ InCall(Top)
        BY <2>1, TopSound DEF SafeInv, SelectIsCommand, InCall
    <2> QED BY <1>0, <2>1, <2>2, LeaveEvent DEF Guarded
<1>8. CASE CrashAndRestart
    <2>1. Len(stack') = 0
        BY <1>8 DEF CrashAndRestart
    <2> QED BY <2>1 DEF EventInv, IdleUntilCalled, Depth
<1>9. ASSUME NEW h \in Hook, RunCommand(h)
      PROVE  EventInv'
    BY <1>0, <1>9, RunCommandEvent
<1>10. CASE CommandReturns
    <2>1. stack # <<>> /\ InCall(Top) /\ Top.type = "command" /\ Leave
        BY <1>10 DEF CommandReturns, InCallback, InCall
    <2>2. Top.cur \in Hook /\ TypeOf[Top.cur] = "command"
        BY <2>1, TopSound DEF FrameSound
    <2>3. \A h \in Hook : TypeOf[h] # "command" => running'[h] = running[h]
        BY <1>10, <2>2 DEF CommandReturns, TypeOK
    <2> QED BY <1>0, <2>1, <2>2, <2>3, LeaveEvent DEF Guarded
<1>11. ASSUME NEW eat \in BOOLEAN, Return(eat)
       PROVE  EventInv'
    BY <1>0, <1>11, ReturnEvent
<1>12. ASSUME NEW h \in Hook, AddHook(h)
       PROVE  EventInv'
    BY <1>0, <1>12, AddHookEvent
<1>13. ASSUME NEW h \in Hook, Unhook(h)
       PROVE  EventInv'
    BY <1>0, <1>13, UnhookEvent DEF Unhook
<1>14. ASSUME NEW p \in Plugin, UnhookAllPlugin(p)
       PROVE  EventInv'
    BY <1>0, <1>14, UnhookEvent DEF UnhookAllPlugin
<1>15. ASSUME NEW t \in DispatchedType, NEW n \in Name, StartDispatch(t, n)
       PROVE  EventInv'
    <2>1. PICK g \in BOOLEAN, any \in BOOLEAN : StartLoop(t, n, g, NoPlugin, any)
        BY <1>15, Zenon DEF StartDispatch
    <2> QED BY <1>0, <1>15, <2>1, StartLoopEvent
<1>16. ASSUME NEW n \in Name, NEW p \in Plugin, NEW any \in BOOLEAN, StartCommand(n, p, any)
       PROVE  EventInv'
    <2>1. "command_run" \in DispatchedType
        BY DEF DispatchedType, StopsOnEat
    <2>2. PICK g \in BOOLEAN : StartLoop("command_run", n, g, p, any)
        BY <1>16, Zenon DEF StartCommand
    <2> QED BY <1>0, <1>16, <2>1, <2>2, StartLoopEvent
<1>17. CASE UNCHANGED vars
    <2>1. NoneFreed /\ stack' = stack /\ running' = running
        BY <1>17 DEF vars, NoneFreed, Allocated, Live
    <2> QED BY <1>0, <2>1, ListsEvent
<1> QED
    BY <1>1, <1>2, <1>3, <1>4, <1>5, <1>6, <1>7, <1>8, <1>9, <1>10, <1>11,
       <1>12, <1>13, <1>14, <1>15, <1>16, <1>17 DEF Next, Loop, CallbackReturns

\* It holds in every reachable state.
LEMMA Events == Spec => [](TypeOK /\ ListsInv /\ SafeInv /\ EventInv)
<1>1. Init => EventInv
    <2> SUFFICES ASSUME Init PROVE EventInv
        OBVIOUS
    <2>1. Len(stack) = 0
        BY DEF Init
    <2> QED BY <2>1 DEF EventInv, IdleUntilCalled, Depth
<1>2. Init => TypeOK /\ ListsInv /\ SafeInv
    BY TypeInit, EmptyLists, SafeInit
<1> QED BY <1>1, <1>2, TypeStep, ListsStep, SafeStep, EventStep, PTL DEF Spec

\* hook_signal_send, hook_print_exec, hook_timer_exec and the other loops miss
\* no hook and call none twice, whatever the callbacks hook and unhook and
\* however the loops nest: a hook that was due when the loop started and is
\* still hooked has been called, or is still in front of the loop.
THEOREM EveryHookAlwaysCalledOnce == Spec => []EveryHookCalledOnce
<1>1. EventInv => EveryHookCalledOnce
    BY DEF EventInv, FrameSound, Visits, EveryHookCalledOnce
<1> QED BY <1>1, Events, PTL

(***************************************************************************)
(* Reentry.  The inductive invariant ties hook->running to the callbacks   *)
(* in progress: no two guarded loops run the callback of the same hook,    *)
(* and the counter of a command is the number of its calls in progress.    *)
(***************************************************************************)
Calls(i) == InCall(stack[i]) /\ Protected(i) /\ stack[i].type # "command"

CallInv ==
    /\ \A i, j \in 1..Depth : Calls(i) /\ Calls(j) /\ stack[i].cur = stack[j].cur => i = j
    /\ \A i \in 1..Depth : Calls(i) => running[stack[i].cur] # 0
    /\ \A h \in Hook : TypeOf[h] = "command" /\ Allocated(h) =>
          running[h] = Cardinality(CallsOf(h)) /\ running[h] <= MaxCalls

\* The innermost loop runs the callback of h.
TopCalls(s, k, h) == Len(s) = k + 1 /\ InCall(s[k + 1]) /\ s[k + 1].cur = h

\* What a step may do to the counter of a command.
CountedCall(k, h) ==
    \/ /\ Allocated(h) /\ running'[h] = running[h]
       /\ TopCalls(stack', k, h) <=> TopCalls(stack, k, h)
    \/ /\ Allocated(h) /\ running'[h] = running[h] + 1 /\ running[h] < MaxCalls
       /\ TopCalls(stack', k, h) /\ ~ TopCalls(stack, k, h)
    \/ /\ Allocated(h) /\ running'[h] = running[h] - 1
       /\ ~ TopCalls(stack', k, h) /\ TopCalls(stack, k, h)
    \/ /\ ~ Allocated(h) /\ running'[h] = 0
       /\ Len(stack) = k /\ Len(stack') = k

\* The calls of a command are in guarded loops.
LEMMA CommandCalls ==
    ASSUME TypeOK, EventInv, NEW h \in Hook, TypeOf[h] = "command"
    PROVE  CallsOf(h) = {i \in 1..Depth : InCall(stack[i]) /\ stack[i].cur = h}
<1>1. ASSUME NEW i \in 1..Depth, InCall(stack[i]), stack[i].cur = h
      PROVE  Protected(i)
    <2>1. Guarded(stack[i])
        BY <1>1 DEF EventInv, FrameSound, Guarded
    <2>2. i \in 1..i
        BY DEF TypeOK, Depth
    <2> QED BY <2>1, <2>2 DEF Protected
<1> QED BY <1>1 DEF CallsOf, InCall

\* Protection of a loop only depends on the loops below it.
LEMMA ProtectedKept ==
    ASSUME TypeOK, NEW k \in Nat, Kept(k), NEW i \in 1..k
    PROVE  /\ Protected(i)' <=> Protected(i)
           /\ Calls(i)' <=> Calls(i)
           /\ stack'[i] = stack[i] /\ i \in 1..Depth /\ i \in 1..Len(stack')
<1>1. \A j \in 1..i : stack'[j] = stack[j]
    BY DEF Kept
<1>2. stack'[i] = stack[i] /\ i \in 1..Depth /\ i \in 1..Len(stack')
    BY DEF Kept, Depth
<1>3. Protected(i)' <=> Protected(i)
    BY <1>1 DEF Protected, Guarded
<1> QED BY <1>2, <1>3 DEF Calls, InCall

\* The counters of the commands stay exact.
LEMMA CommandsCounted ==
    ASSUME TypeOK, TypeOK', PointersValid, EventInv, EventInv', CallInv, NEW k \in Nat, Kept(k),
           NEW h \in Hook, TypeOf[h] = "command", CountedCall(k, h)
    PROVE  running'[h] = Cardinality(CallsOf(h))' /\ running'[h] <= MaxCalls
<1> DEFINE Below == {i \in 1..k : InCall(stack[i]) /\ stack[i].cur = h}
<1>1. CallsOf(h) = {i \in 1..Len(stack) : InCall(stack[i]) /\ stack[i].cur = h}
    BY CommandCalls DEF Depth
<1>2. CallsOf(h)' = {i \in 1..Len(stack') : InCall(stack'[i]) /\ stack'[i].cur = h}
    <2>1. ASSUME NEW i \in 1..Len(stack'), InCall(stack'[i]), stack'[i].cur = h
          PROVE  Protected(i)'
        <3>1. Guarded(stack'[i])
            BY <2>1 DEF EventInv, FrameSound, Guarded, Depth, InCall
        <3>2. i \in 1..i
            BY DEF TypeOK
        <3> QED BY <3>1, <3>2 DEF Protected, Guarded
    <2> QED BY <2>1 DEF CallsOf, InCall, Depth
<1>3. CallsOf(h) = Below \cup (IF TopCalls(stack, k, h) THEN {k + 1} ELSE {})
    BY <1>1 DEF Kept, TopCalls
<1>4. CallsOf(h)' = Below \cup (IF TopCalls(stack', k, h) THEN {k + 1} ELSE {})
    BY <1>2 DEF Kept, TopCalls
<1>5. IsFiniteSet(Below) /\ k + 1 \notin Below
    <2>1. IsFiniteSet(1..k)
        BY FS_Interval
    <2> QED BY <2>1, FS_Subset
<1>6. Cardinality(Below) \in Nat /\ Cardinality(Below \cup {k + 1}) = Cardinality(Below) + 1
    BY <1>5, FS_CardinalityType, FS_AddElement
<1>7. Below \cup {} = Below /\ MaxCalls \in Nat \ {0}
    BY ConstantsAssumption
<1> HIDE DEF Below
<1>8. Allocated(h) => running[h] = Cardinality(CallsOf(h)) /\ running[h] <= MaxCalls
    BY DEF CallInv
<1>9. CASE /\ Allocated(h) /\ running'[h] = running[h]
           /\ TopCalls(stack', k, h) <=> TopCalls(stack, k, h)
    BY <1>3, <1>4, <1>8, <1>9
<1>10. CASE /\ Allocated(h) /\ running'[h] = running[h] + 1 /\ running[h] < MaxCalls
            /\ TopCalls(stack', k, h) /\ ~ TopCalls(stack, k, h)
    BY <1>3, <1>4, <1>6, <1>7, <1>8, <1>10
<1>11. CASE /\ Allocated(h) /\ running'[h] = running[h] - 1
            /\ ~ TopCalls(stack', k, h) /\ TopCalls(stack, k, h)
    BY <1>3, <1>4, <1>6, <1>7, <1>8, <1>11
<1>12. CASE /\ ~ Allocated(h) /\ running'[h] = 0 /\ Len(stack) = k /\ Len(stack') = k
    <2>1. CallsOf(h) = {}
        BY <1>12 DEF CallsOf, PointersValid
    <2>2. Below = {} /\ ~ TopCalls(stack', k, h)
        BY <1>3, <1>12, <2>1 DEF TopCalls
    <2>3. CallsOf(h)' = {}
        BY <1>4, <2>2
    <2> QED BY <1>7, <1>12, <2>3, FS_EmptySet
<1> QED BY <1>9, <1>10, <1>11, <1>12 DEF CountedCall

\* What a step must do to keep the invariant: a callback below goes on running,
\* the innermost one is of a hook that no loop below runs.
LEMMA CallKept ==
    ASSUME TypeOK, TypeOK', PointersValid, EventInv, EventInv', CallInv,
           NEW k \in Nat, Kept(k),
           \A i \in 1..k : Calls(i) => running'[stack[i].cur] # 0,
           (Len(stack') = k + 1 /\ Calls(k + 1)') =>
              /\ running'[stack'[k + 1].cur] # 0
              /\ \A i \in 1..k : Calls(i) => stack[i].cur # stack'[k + 1].cur,
           \A h \in Hook : TypeOf[h] = "command" /\ Allocated(h)' => CountedCall(k, h)
    PROVE  CallInv'
<1>0. Depth' = Len(stack') /\ Len(stack') \in {k, k + 1}
    BY DEF Kept, Depth
<1>1. \A i \in 1..k : (Calls(i)' <=> Calls(i)) /\ stack'[i] = stack[i] /\ i \in 1..Depth
    BY ProtectedKept
<1>2. ASSUME NEW i \in 1..Len(stack'), NEW j \in 1..Len(stack'), Calls(i)', Calls(j)',
             stack'[i].cur = stack'[j].cur
      PROVE  i = j
    <2>1. CASE i \in 1..k /\ j \in 1..k
        BY <1>1, <1>2, <2>1 DEF CallInv
    <2>2. CASE i = k + 1 /\ j \in 1..k
        BY <1>0, <1>1, <1>2, <2>2
    <2>3. CASE i \in 1..k /\ j = k + 1
        BY <1>0, <1>1, <1>2, <2>3
    <2> QED BY <1>0, <2>1, <2>2, <2>3
<1>3. ASSUME NEW i \in 1..Len(stack'), Calls(i)'
      PROVE  running'[stack'[i].cur] # 0
    <2>1. CASE i \in 1..k
        BY <1>1, <1>3, <2>1
    <2>2. CASE i = k + 1
        BY <1>0, <1>3, <2>2
    <2> QED BY <1>0, <2>1, <2>2
<1>4. ASSUME NEW h \in Hook, TypeOf[h] = "command", Allocated(h)'
      PROVE  running'[h] = Cardinality(CallsOf(h))' /\ running'[h] <= MaxCalls
    BY <1>4, CommandsCounted
<1> QED BY <1>0, <1>2, <1>3, <1>4 DEF CallInv

\* The innermost loop goes on as f.
LEMMA CallSetTop ==
    ASSUME TypeOK, TypeOK', PointersValid, EventInv, EventInv', CallInv, stack # <<>>,
           NEW f \in Frame, SetTop(f), status' = status,
           \A i \in 1..Depth - 1 : Calls(i) => running'[stack[i].cur] # 0,
           (InCall(f) /\ f.type # "command" /\ Calls(Depth)') =>
              /\ running'[f.cur] # 0
              /\ \A i \in 1..Depth - 1 : Calls(i) => stack[i].cur # f.cur,
           \A h \in Hook : TypeOf[h] = "command" =>
              \/ /\ running'[h] = running[h]
                 /\ (InCall(f) /\ f.cur = h) <=> (InCall(Top) /\ Top.cur = h)
              \/ /\ running'[h] = running[h] + 1 /\ running[h] < MaxCalls
                 /\ InCall(f) /\ f.cur = h /\ ~ InCall(Top)
    PROVE  CallInv'
<1>1. /\ Len(stack) \in Nat /\ Len(stack) # 0 /\ Len(stack') = Len(stack)
      /\ Top = stack[Len(stack)] /\ stack'[Len(stack)] = f
      /\ \A i \in 1..Len(stack) - 1 : stack'[i] = stack[i]
      /\ Depth = Len(stack)
    BY SetLastFacts DEF TypeOK, SetTop, Depth, Top
<1>2. PICK k \in Nat : Len(stack) = k + 1
    <2>1. Len(stack) - 1 \in Nat /\ Len(stack) = (Len(stack) - 1) + 1
        BY <1>1
    <2> QED BY <2>1, Zenon
<1>3. Kept(k) /\ Depth = k + 1 /\ Depth - 1 = k
    BY <1>1, <1>2 DEF Kept
<1>4. Top = stack[k + 1] /\ stack'[k + 1] = f /\ Depth' = k + 1
    BY <1>1, <1>2 DEF Depth
<1>5. ASSUME Calls(k + 1)'
      PROVE  /\ running'[stack'[k + 1].cur] # 0
             /\ \A i \in 1..k : Calls(i) => stack[i].cur # stack'[k + 1].cur
    <2>1. InCall(f) /\ f.type # "command" /\ Calls(Depth)'
        BY <1>3, <1>4, <1>5 DEF Calls, InCall
    <2> QED BY <1>3, <1>4, <2>1
<1>6. ASSUME NEW h \in Hook, TypeOf[h] = "command", Allocated(h)'
      PROVE  CountedCall(k, h)
    <2>1. Allocated(h)
        BY <1>6 DEF Allocated
    <2>2. /\ TopCalls(stack', k, h) <=> InCall(f) /\ f.cur = h
          /\ TopCalls(stack, k, h) <=> InCall(Top) /\ Top.cur = h
        BY <1>1, <1>2, <1>4 DEF TopCalls
    <2> QED BY <1>6, <2>1, <2>2 DEF CountedCall
<1> QED BY <1>3, <1>5, <1>6, CallKept

\* The innermost loop goes on without a call or a return.
LEMMA CallQuiet ==
    ASSUME TypeOK, TypeOK', PointersValid, EventInv, EventInv', CallInv, stack # <<>>,
           NEW f \in Frame, SetTop(f), UNCHANGED <<status, running>>,
           InCall(f) <=> InCall(Top), InCall(f) => f.type = Top.type /\ f.cur = Top.cur
    PROVE  CallInv'
<1>1. /\ Len(stack) \in Nat /\ Len(stack) # 0 /\ Len(stack') = Len(stack)
      /\ Top = stack[Len(stack)] /\ stack'[Len(stack)] = f
      /\ \A i \in 1..Len(stack) - 1 : stack'[i] = stack[i]
      /\ Depth = Len(stack)
    BY SetLastFacts DEF TypeOK, SetTop, Depth, Top
<1>2. \A i \in 1..Depth - 1 : Calls(i) => running'[stack[i].cur] # 0
    BY <1>1 DEF CallInv
<1>3. ASSUME InCall(f), f.type # "command", Calls(Depth)'
      PROVE  /\ running'[f.cur] # 0
             /\ \A i \in 1..Depth - 1 : Calls(i) => stack[i].cur # f.cur
    <2>1. Depth \in 1..Depth /\ Depth' = Depth /\ Top = stack[Depth]
        BY <1>1 DEF Depth
    <2>2. \A j \in 1..Depth : Guarded(stack'[j]) => Guarded(stack[j])
        BY <1>1, <1>3 DEF Guarded
    <2>3. Calls(Depth)
        BY <1>3, <2>1, <2>2 DEF Calls, Protected, Guarded
    <2>4. \A i \in 1..Depth - 1 : i \in 1..Depth /\ i # Depth
        BY <1>1
    <2> QED BY <1>3, <2>1, <2>3, <2>4 DEF CallInv
<1> QED BY <1>2, <1>3, CallSetTop

\* A loop calls a hook that no other loop runs.
LEMMA CallCall ==
    ASSUME TypeOK, TypeOK', PointersValid, EventInv, EventInv', CallInv, Call
    PROVE  CallInv'
<1>1. PICK n \in NextOf(Top.next) :
        SetTop([Top EXCEPT !.cur = Top.next, !.next = n, !.phase = "call",
                           !.called = @ \cup {Top.next}])
    BY DEF Call
<1> DEFINE f == [Top EXCEPT !.cur = Top.next, !.next = n, !.phase = "call",
                            !.called = @ \cup {Top.next}]
<1>2. stack # <<>> /\ Top.next \in Hook /\ Top.phase = "scan" /\ running[Top.next] = 0
    BY DEF Call, Scanning, Runnable
<1>3. Top \in Frame /\ FrameSound(Top)
    BY <1>2, TopSound
<1>4. f \in Frame /\ f.type = Top.type /\ f.phase = "call" /\ f.cur = Top.next
    BY <1>1, <1>2, <1>3, NextType DEF Frame, Phase
<1>5. /\ UNCHANGED <<status, precedes>> /\ SetTop(f)
      /\ running' = [running EXCEPT ![Top.next] = 1]
    BY <1>1 DEF Call
<1> HIDE DEF f
<1>6. \A h \in Hook : running'[h] = IF h = Top.next THEN 1 ELSE running[h]
    BY <1>5 DEF TypeOK
<1>7. \A i \in 1..Depth - 1 : Calls(i) =>
         stack[i].cur \in Hook /\ running[stack[i].cur] # 0 /\ stack[i].cur # f.cur
    <2>1. \A i \in 1..Depth - 1 : i \in 1..Depth
        BY DEF TypeOK, Depth
    <2> QED BY <1>2, <1>4, <2>1 DEF CallInv, EventInv, FrameSound, Calls
<1>8. TypeOf[Top.next] # "command" /\ ~ InCall(Top)
    BY <1>2, <1>3, ConstantsAssumption DEF FrameSound, InCall
<1> QED BY <1>2, <1>4, <1>5, <1>6, <1>7, <1>8, CallSetTop

\* The callback that returns was the only one of its hook.
LEMMA CallReturn ==
    ASSUME TypeOK, TypeOK', PointersValid, EventInv, EventInv', CallInv,
           NEW eat \in BOOLEAN, Return(eat)
    PROVE  CallInv'
<1> DEFINE f == IF Ends(Top.type, eat)
                  THEN [Top EXCEPT !.phase = "done", !.cur = NoHook]
                  ELSE [Top EXCEPT !.phase = "scan", !.cur = NoHook]
<1>1. stack # <<>> /\ InCall(Top) /\ Top.type # "command"
    BY DEF Return, InCallback, InCall
<1>2. /\ Top \in Frame /\ Top.cur \in Hook /\ TypeOf[Top.cur] # "command"
      /\ Depth \in 1..Depth /\ Top = stack[Depth]
    BY <1>1, TopSound DEF FrameSound
<1>3. f \in Frame /\ ~ InCall(f)
    BY <1>2 DEF Frame, Phase, InCall
<1>4. /\ status' = status /\ SetTop(f)
      /\ running' = [running EXCEPT ![Top.cur] = 0]
    BY DEF Return
<1> HIDE DEF f
<1>5. \A h \in Hook : running'[h] = IF h = Top.cur THEN 0 ELSE running[h]
    BY <1>2, <1>4 DEF TypeOK
<1>6. ASSUME NEW i \in 1..Depth - 1, Calls(i)
      PROVE  running'[stack[i].cur] # 0
    <2>1. i \in 1..Depth /\ i # Depth /\ i < Depth
        BY DEF TypeOK, Depth
    <2>2. Protected(Depth)
        <3>1. PICK j \in 1..i : Guarded(stack[j])
            BY <1>6 DEF Calls, Protected
        <3>2. j \in 1..Depth
            BY <2>1 DEF TypeOK, Depth
        <3> QED BY <3>1, <3>2 DEF Protected
    <2>3. Calls(Depth)
        BY <1>1, <1>2, <2>2 DEF Calls
    <2>4. stack[i].cur # Top.cur
        BY <1>2, <1>6, <2>1, <2>3 DEF CallInv
    <2>5. stack[i].cur \in Hook
        BY <1>6, <2>1 DEF EventInv, FrameSound, Calls
    <2> QED BY <1>5, <1>6, <2>1, <2>4, <2>5 DEF CallInv
<1> QED BY <1>1, <1>2, <1>3, <1>4, <1>5, <1>6, CallSetTop

\* A command is called once more.
LEMMA CallRunCommand ==
    ASSUME TypeOK, TypeOK', SafeInv, EventInv, EventInv', CallInv,
           NEW h \in Hook, RunCommand(h)
    PROVE  CallInv'
<1> DEFINE f == [Top EXCEPT !.phase = "call", !.cur = h]
<1>1. stack # <<>> /\ Top.phase = "select"
    BY DEF RunCommand, Selecting
<1>2. Top \in Frame /\ Top.type = "command"
    BY <1>1, TopSound DEF SafeInv, SelectIsCommand
<1>3. f \in Frame /\ f.type = "command" /\ InCall(f) /\ f.cur = h
    BY <1>2 DEF Frame, Phase, InCall
<1>4. /\ status' = status /\ SetTop(f) /\ running[h] < MaxCalls
      /\ running' = [running EXCEPT ![h] = @ + 1]
    BY DEF RunCommand
<1>5. TypeOf[h] = "command" /\ ~ InCall(Top)
    BY <1>1, CommandForLive DEF RunCommand, InCall
<1> HIDE DEF f
<1>6. \A x \in Hook : running'[x] = IF x = h THEN running[x] + 1 ELSE running[x]
    BY <1>4 DEF TypeOK
<1>7. ASSUME NEW i \in 1..Depth - 1, Calls(i)
      PROVE  running'[stack[i].cur] # 0
    <2>1. i \in 1..Depth
        BY DEF TypeOK, Depth
    <2>2. stack[i].cur \in Hook /\ stack[i].cur # h
        BY <1>5, <1>7, <2>1 DEF EventInv, FrameSound, Calls
    <2> QED BY <1>6, <1>7, <2>1, <2>2 DEF CallInv
<1> QED BY <1>1, <1>3, <1>4, <1>5, <1>6, <1>7, CallSetTop DEF SafeInv

\* A new loop calls nothing yet.
LEMMA CallStartLoop ==
    ASSUME TypeOK, TypeOK', PointersValid, EventInv, EventInv', CallInv,
           NEW t, NEW n, NEW g, NEW p, NEW any, StartLoop(t, n, g, p, any)
    PROVE  CallInv'
<1>1. /\ Len(stack) \in Nat /\ Len(stack') = Len(stack) + 1
      /\ \A i \in 1..Len(stack) : stack'[i] = stack[i]
      /\ ~ InCall(stack'[Len(stack) + 1])
      /\ UNCHANGED <<status, running>>
    BY DEF StartLoop, TypeOK, InCall
<1>2. PICK k \in Nat : k = Len(stack)
    BY <1>1
<1>3. Kept(k) /\ Depth = k
    BY <1>1, <1>2 DEF Kept, Depth
<1>4. \A i \in 1..k : Calls(i) => running'[stack[i].cur] # 0
    BY <1>1, <1>3 DEF CallInv
<1>5. ~ Calls(k + 1)'
    BY <1>1, <1>2 DEF Calls, InCall
<1>6. \A h \in Hook : TypeOf[h] = "command" /\ Allocated(h)' => CountedCall(k, h)
    BY <1>1, <1>2 DEF CountedCall, TopCalls, Allocated
<1> QED BY <1>3, <1>4, <1>5, <1>6, CallKept

\* The innermost loop ends; a command has returned.
LEMMA CallPop ==
    ASSUME TypeOK, TypeOK', PointersValid, EventInv, EventInv', CallInv, stack # <<>>,
           stack' = SubSeq(stack, 1, Len(stack) - 1),
           \A h \in Hook : Allocated(h)' => Allocated(h),
           IF InCall(Top) THEN Top.type = "command" /\ running' = [running EXCEPT ![Top.cur] = @ - 1]
                          ELSE running' = running
    PROVE  CallInv'
<1>1. /\ Len(stack) \in Nat /\ Len(stack) # 0 /\ Len(stack') = Len(stack) - 1
      /\ \A i \in 1..Len(stack) - 1 : stack'[i] = stack[i]
      /\ Top = stack[Len(stack)] /\ Depth = Len(stack)
    BY PopFacts DEF TypeOK, Depth, Top
<1>2. PICK k \in Nat : Len(stack) = k + 1
    <2>1. Len(stack) - 1 \in Nat /\ Len(stack) = (Len(stack) - 1) + 1
        BY <1>1
    <2> QED BY <2>1, Zenon
<1>3. Len(stack') = k /\ Kept(k) /\ Depth = k + 1 /\ Top = stack[k + 1] /\ Len(stack') # k + 1
    BY <1>1, <1>2 DEF Kept
<1>4. InCall(Top) => Top.cur \in Hook /\ TypeOf[Top.cur] = "command"
    BY TopSound DEF FrameSound
<1>5. \A h \in Hook : running'[h] =
         IF InCall(Top) /\ Top.cur = h THEN running[h] - 1 ELSE running[h]
    BY <1>4 DEF TypeOK
<1>6. ASSUME NEW i \in 1..k, Calls(i)
      PROVE  running'[stack[i].cur] # 0
    <2>1. i \in 1..Depth
        BY <1>3
    <2>2. stack[i].cur \in Hook /\ TypeOf[stack[i].cur] # "command"
        BY <1>6, <2>1 DEF EventInv, FrameSound, Calls
    <2> QED BY <1>4, <1>5, <1>6, <2>1, <2>2 DEF CallInv
<1>7. ASSUME NEW h \in Hook, TypeOf[h] = "command", Allocated(h)'
      PROVE  CountedCall(k, h)
    <2>1. ~ TopCalls(stack', k, h) /\ (TopCalls(stack, k, h) <=> InCall(Top) /\ Top.cur = h)
        BY <1>2, <1>3 DEF TopCalls
    <2> QED BY <1>5, <1>7, <2>1 DEF CountedCall
<1> QED BY <1>3, <1>6, <1>7, CallKept

\* hook_exec_end allocates nothing.
LEMMA LeaveAllocated ==
    ASSUME TypeOK, Leave
    PROVE  /\ \A h \in Hook : Allocated(h)' => Allocated(h)
           /\ stack' = SubSeq(stack, 1, Len(stack) - 1)
    BY DEF Leave, Allocated, TypeOK, Depth, Deleted

\* Hooks come and go while the stack stays.
LEMMA CallLists ==
    ASSUME TypeOK, TypeOK', PointersValid, EventInv, EventInv', CallInv, stack' = stack,
           \A h \in Hook : Allocated(h) => running'[h] = running[h],
           \A h \in Hook : Allocated(h)' /\ ~ Allocated(h) => running'[h] = 0
    PROVE  CallInv'
<1>1. PICK k \in Nat : k = Len(stack)
    BY DEF TypeOK
<1>2. Kept(k) /\ Depth = k /\ Len(stack') = k /\ Len(stack') # k + 1 /\ Len(stack) # k + 1
    BY <1>1 DEF Kept, Depth
<1>3. ASSUME NEW i \in 1..k, Calls(i)
      PROVE  running'[stack[i].cur] # 0
    <2>1. i \in 1..Depth /\ stack[i].cur \in Hook
        BY <1>2, <1>3 DEF EventInv, FrameSound, Calls
    <2>2. Allocated(stack[i].cur)
        BY <1>3, <2>1 DEF PointersValid, Calls
    <2> QED BY <1>3, <2>1, <2>2 DEF CallInv
<1>4. \A h \in Hook : TypeOf[h] = "command" /\ Allocated(h)' => CountedCall(k, h)
    BY <1>2 DEF CountedCall, TopCalls
<1> QED BY <1>2, <1>3, <1>4, CallKept

\* The invariant of the calls is inductive.
LEMMA CallStep ==
    TypeOK /\ ListsInv /\ SafeInv /\ EventInv /\ CallInv /\ [Next]_vars => CallInv'
<1> SUFFICES ASSUME TypeOK, ListsInv, SafeInv, EventInv, CallInv, [Next]_vars
             PROVE  CallInv'
    OBVIOUS
<1>0. TypeOK' /\ EventInv' /\ PointersValid
    BY TypeStep, EventStep DEF SafeInv
<1>1. CASE Skip
    <2>1. PICK n \in NextOf(Top.next) : SetTop([Top EXCEPT !.next = n])
        BY <1>1 DEF Skip
    <2> DEFINE f == [Top EXCEPT !.next = n]
    <2>2. stack # <<>> /\ Top \in Frame /\ Top.phase = "scan" /\ UNCHANGED <<status, running>>
        BY <1>1, TopFrame DEF Skip, Scanning
    <2>3. f \in Frame /\ ~ InCall(f) /\ ~ InCall(Top) /\ SetTop(f)
        BY <2>1, <2>2, NextType DEF Frame, InCall
    <2> HIDE DEF f
    <2> QED BY <1>0, <2>2, <2>3, CallQuiet
<1>2. CASE Call
    BY <1>0, <1>2, CallCall
<1>3. CASE FocusAgain
    <2> DEFINE f == [Top EXCEPT !.phase = "call2"]
    <2>1. /\ stack # <<>> /\ Top \in Frame /\ Top.phase = "call"
          /\ UNCHANGED <<status, running>> /\ SetTop(f)
        BY <1>3, TopFrame DEF FocusAgain, InCallback
    <2>2. f \in Frame /\ f.type = Top.type /\ f.cur = Top.cur /\ InCall(f) /\ InCall(Top)
        BY <2>1 DEF Frame, Phase, InCall
    <2> HIDE DEF f
    <2> QED BY <1>0, <2>1, <2>2, CallQuiet
<1>4. CASE Finish
    <2>1. stack # <<>> /\ ~ InCall(Top) /\ Leave /\ running' = running
        BY <1>4 DEF Finish, Exhausted, InCall
    <2> QED BY <1>0, <2>1, LeaveAllocated, CallPop
<1>5. CASE CommandEaten
    <2>1. /\ stack # <<>> /\ ~ InCall(Top) /\ UNCHANGED <<status, running>>
          /\ stack' = SubSeq(stack, 1, Len(stack) - 1)
        BY <1>5 DEF CommandEaten, Exhausted, InCall, Depth
    <2> QED BY <1>0, <2>1, CallPop DEF Allocated
<1>6. CASE CommandGoesOn
    <2> DEFINE f == [Top EXCEPT !.type = "command", !.phase = "select",
                                !.cur = NoHook, !.due = {}, !.called = {}]
    <2>1. /\ stack # <<>> /\ Top \in Frame /\ ~ InCall(Top)
          /\ UNCHANGED <<status, running>> /\ SetTop(f)
        BY <1>6, TopFrame DEF CommandGoesOn, Exhausted, InCall
    <2>2. f \in Frame /\ ~ InCall(f)
        BY <2>1 DEF Frame, Phase, HookType, InCall
    <2> HIDE DEF f
    <2> QED BY <1>0, <2>1, <2>2, CallQuiet
<1>7. CASE NoCommand
    <2>1. stack # <<>> /\ ~ InCall(Top) /\ Leave /\ running' = running
        BY <1>7 DEF NoCommand, Selecting, InCall
    <2> QED BY <1>0, <2>1, LeaveAllocated, CallPop
<1>8. CASE CrashAndRestart
    <2>1. Len(stack') = 0 /\ \A h \in Hook : ~ Allocated(h)'
        BY <1>8 DEF CrashAndRestart, Allocated
    <2> QED BY <2>1 DEF CallInv, Depth
<1>9. ASSUME NEW h \in Hook, RunCommand(h)
      PROVE  CallInv'
    BY <1>0, <1>9, CallRunCommand
<1>10. CASE CommandReturns
    <2>1. /\ stack # <<>> /\ InCall(Top) /\ Top.type = "command" /\ Leave
          /\ running' = [running EXCEPT ![Top.cur] = @ - 1]
        BY <1>10 DEF CommandReturns, InCallback, InCall
    <2> QED BY <1>0, <2>1, LeaveAllocated, CallPop
<1>11. ASSUME NEW eat \in BOOLEAN, Return(eat)
       PROVE  CallInv'
    BY <1>0, <1>11, CallReturn
<1>12. ASSUME NEW h \in Hook, AddHook(h)
       PROVE  CallInv'
    <2>1. stack' = stack /\ status[h] = "free"
        BY <1>12 DEF AddHook
    <2>2. /\ status' = [status EXCEPT ![h] = "live"]
          /\ running' = [running EXCEPT ![h] = 0]
        BY <1>12 DEF AddHook
    <2>3. \A x \in Hook : Allocated(x) => running'[x] = running[x]
        BY <2>1, <2>2 DEF TypeOK, Allocated
    <2>4. \A x \in Hook : Allocated(x)' /\ ~ Allocated(x) => running'[x] = 0
        BY <2>2 DEF TypeOK, Allocated
    <2> QED BY <1>0, <2>1, <2>3, <2>4, CallLists
<1>13. ASSUME NEW S \in SUBSET Hook, \A h \in S : Live(h), UnhookSet(S)
       PROVE  CallInv'
    <2>1. UNCHANGED <<stack, running>> /\ \A h \in Hook : Allocated(h)' => Allocated(h)
        BY <1>13 DEF UnhookSet, Allocated, Live
    <2> QED BY <1>0, <2>1, CallLists
<1>14. ASSUME NEW t \in DispatchedType, NEW n \in Name, StartDispatch(t, n)
       PROVE  CallInv'
    <2>1. PICK g \in BOOLEAN, any \in BOOLEAN : StartLoop(t, n, g, NoPlugin, any)
        BY <1>14, Zenon DEF StartDispatch
    <2> QED BY <1>0, <2>1, CallStartLoop
<1>15. ASSUME NEW n \in Name, NEW p \in Plugin, NEW any \in BOOLEAN, StartCommand(n, p, any)
       PROVE  CallInv'
    <2>1. PICK g \in BOOLEAN : StartLoop("command_run", n, g, p, any)
        BY <1>15, Zenon DEF StartCommand
    <2> QED BY <1>0, <2>1, CallStartLoop
<1>16. CASE UNCHANGED vars
    <2>1. UNCHANGED <<stack, running, status>>
        BY <1>16 DEF vars
    <2> QED BY <1>0, <2>1, CallLists DEF Allocated
<1>17. ASSUME NEW h \in Hook, Unhook(h)
       PROVE  CallInv'
    BY <1>13, <1>17 DEF Unhook
<1>18. ASSUME NEW p \in Plugin, UnhookAllPlugin(p)
       PROVE  CallInv'
    BY <1>13, <1>18 DEF UnhookAllPlugin
<1> QED
    BY <1>1, <1>2, <1>3, <1>4, <1>5, <1>6, <1>7, <1>8, <1>9, <1>10, <1>11, <1>12,
       <1>14, <1>15, <1>16, <1>17, <1>18 DEF Next, Loop, CallbackReturns

\* No callback is entered again while it runs; a command is, at most
\* HOOK_COMMAND_MAX_CALLS times (hook->running and HOOK_COMMAND_EXEC_RUNNING).
THEOREM ReentryAlwaysBounded == Spec => []ReentryBounded
<1>1. TypeOK /\ SafeInv /\ EventInv /\ CallInv => ReentryBounded
    <2> SUFFICES ASSUME TypeOK, SafeInv, EventInv, CallInv, NEW h \in Hook
                 PROVE  Cardinality(CallsOf(h)) <= (IF TypeOf[h] = "command" THEN MaxCalls ELSE 1)
        BY DEF ReentryBounded
    <2>0. MaxCalls \in Nat \ {0}
        BY ConstantsAssumption
    <2>1. CASE TypeOf[h] = "command" /\ Allocated(h)
        BY <2>1 DEF CallInv
    <2>2. CASE ~ Allocated(h)
        <3>1. CallsOf(h) = {}
            BY <2>2 DEF CallsOf, SafeInv, PointersValid
        <3> QED BY <2>0, <3>1, FS_EmptySet
    <2>3. CASE TypeOf[h] # "command"
        <3>1. \A i \in CallsOf(h) : i \in 1..Depth /\ Calls(i) /\ stack[i].cur = h
            BY <2>3 DEF CallsOf, Calls, InCall, EventInv, FrameSound
        <3>2. \A i, j \in CallsOf(h) : i = j
            BY <3>1 DEF CallInv
        <3>3. CASE CallsOf(h) = {}
            BY <2>3, <3>3, FS_EmptySet
        <3>4. CASE CallsOf(h) # {}
            <4>1. PICK i : CallsOf(h) = {i}
                BY <3>2, <3>4
            <4> QED BY <2>3, <4>1, FS_Singleton
        <3> QED BY <3>3, <3>4
    <2> QED BY <2>1, <2>2, <2>3
<1>2. Init => CallInv
    <2> SUFFICES ASSUME Init PROVE CallInv
        OBVIOUS
    <2>1. Len(stack) = 0 /\ \A h \in Hook : ~ Allocated(h)
        BY DEF Init, Allocated
    <2> QED BY <2>1 DEF CallInv, Depth
<1>3. Spec => []CallInv
    BY <1>2, Events, CallStep, PTL DEF Spec
<1> QED BY <1>1, <1>3, Events, PTL

(***************************************************************************)
(* The choice of a command.  hook_command_exec takes the first hook of a   *)
(* name it meets: that it has the highest priority needs the list sorted,  *)
(* and that there is a first one, whatever subset of the list it looks at. *)
(***************************************************************************)
\* Every set of hooks of a list has a first one.
ListsFounded ==
    \A S \in SUBSET {h \in Hook : Allocated(h)} :
        (S # {} /\ \A a, b \in S : TypeOf[a] = TypeOf[b]) => FirstOf(S) # {}

\* Hooks freed and unhooked leave the order of the others.
LEMMA FoundedFewer ==
    ASSUME ListsFounded, \A h \in Hook : Allocated(h)' => Allocated(h),
           \A a, b \in Hook : Allocated(a)' /\ Allocated(b)' =>
              (<<a, b>> \in precedes' <=> <<a, b>> \in precedes)
    PROVE  ListsFounded'
<1> SUFFICES ASSUME NEW S, S \subseteq {h \in Hook : Allocated(h)'}, S # {},
                    \A a, b \in S : TypeOf[a] = TypeOf[b]
             PROVE  FirstOf(S)' # {}
    BY DEF ListsFounded, FirstOf, Allocated
<1>1. S \in SUBSET {h \in Hook : Allocated(h)}
    OBVIOUS
<1>2. PICK h \in S : \A x \in S \ {h} : <<h, x>> \in precedes
    BY <1>1 DEF ListsFounded, FirstOf
<1> QED BY <1>2 DEF FirstOf

\* A new hook is first, or the hook that was first still is.
LEMMA FoundedAddHook ==
    ASSUME TypeOK, ListsLinked, ListsLinked', ListsFounded, NEW h \in Hook, AddHook(h)
    PROVE  ListsFounded'
<1>1. \A x \in Hook : Allocated(x)' <=> (Allocated(x) \/ x = h)
    BY DEF AddHook, Allocated, TypeOK
<1>2. ~ Allocated(h) /\ precedes \subseteq precedes'
    BY DEF AddHook, Allocated, Inserted
<1> SUFFICES ASSUME NEW S, S \subseteq {x \in Hook : Allocated(x)'}, S # {},
                    \A a, b \in S : TypeOf[a] = TypeOf[b]
             PROVE  \E f \in S : \A x \in S \ {f} : <<f, x>> \in precedes'
    BY DEF ListsFounded, FirstOf, Allocated
<1>3. CASE S \ {h} = {}
    BY <1>3
<1>4. CASE S \ {h} # {}
    <2>1. S \ {h} \in SUBSET {x \in Hook : Allocated(x)}
        BY <1>1
    <2>2. PICK f \in S \ {h} : \A x \in (S \ {h}) \ {f} : <<f, x>> \in precedes
        BY <1>4, <2>1 DEF ListsFounded, FirstOf
    <2>3. \A x \in (S \ {h}) \ {f} : <<f, x>> \in precedes'
        BY <1>2, <2>2
    <2>4. f \in Hook /\ Allocated(f)'
        OBVIOUS
    <2>5. CASE h \notin S
        BY <2>3, <2>5
    <2>6. CASE h \in S /\ <<f, h>> \in precedes'
        BY <2>3, <2>6
    <2>7. CASE h \in S /\ <<f, h>> \notin precedes'
        <3>1. <<h, f>> \in precedes'
            BY <2>4, <2>7 DEF ListsLinked, Allocated
        <3>2. \A x \in S \ {h} : x # f => <<h, x>> \in precedes'
            BY <2>3, <2>4, <3>1 DEF ListsLinked, Allocated
        <3> QED BY <2>7, <3>1, <3>2
    <2> QED BY <2>5, <2>6, <2>7
<1> QED BY <1>3, <1>4

\* Every step keeps a first hook in every set of hooks of a list.
LEMMA FoundedStep ==
    TypeOK /\ ListsInv /\ ListsFounded /\ [Next]_vars => ListsFounded'
<1> SUFFICES ASSUME TypeOK, ListsInv, ListsFounded, [Next]_vars
             PROVE  ListsFounded'
    OBVIOUS
<1>1. CASE UNCHANGED <<status, precedes>>
    BY <1>1, FoundedFewer DEF Allocated
<1>2. ASSUME NEW S \in SUBSET Hook, \A h \in S : Live(h), UnhookSet(S)
      PROVE  ListsFounded'
    <2>1. CASE recursion = 0
        BY <1>2, <2>1, FoundedFewer DEF UnhookSet, Without, Allocated, TypeOK
    <2>2. CASE recursion # 0
        <3>1. \A h \in S : h \in Hook /\ Live(h)
            BY <1>2
        <3> QED BY <1>2, <2>2, <3>1, FoundedFewer DEF UnhookSet, Allocated, Live, TypeOK
    <2> QED BY <2>1, <2>2
<1>3. CASE Leave
    <2>1. CASE recursion = 1 /\ pending
        BY <1>3, <2>1, FoundedFewer DEF Leave, Without, Allocated, Deleted, TypeOK
    <2>2. CASE ~ (recursion = 1 /\ pending)
        BY <1>1, <1>3, <2>2 DEF Leave
    <2> QED BY <2>1, <2>2
<1>4. CASE CrashAndRestart
    BY <1>4, FoundedFewer DEF CrashAndRestart, Allocated
<1>5. ASSUME NEW h \in Hook, AddHook(h)
      PROVE  ListsFounded'
    <2>1. ListsLinked /\ ListsLinked'
        BY ListsStep DEF ListsInv
    <2> QED BY <1>5, <2>1, FoundedAddHook
<1>6. ASSUME NEW t \in DispatchedType, NEW n \in Name, StartDispatch(t, n)
      PROVE  UNCHANGED <<status, precedes>>
    BY <1>6 DEF StartDispatch, StartLoop
<1>7. ASSUME NEW n \in Name, NEW p \in Plugin, NEW any \in BOOLEAN, StartCommand(n, p, any)
      PROVE  UNCHANGED <<status, precedes>>
    BY <1>7 DEF StartCommand, StartLoop
<1>8. ASSUME NEW eat \in BOOLEAN, Return(eat)
      PROVE  UNCHANGED <<status, precedes>>
    BY <1>8 DEF Return
<1>9. ASSUME NEW h \in Hook, Unhook(h)
      PROVE  ListsFounded'
    BY <1>2, <1>9 DEF Unhook
<1>10. ASSUME NEW p \in Plugin, UnhookAllPlugin(p)
       PROVE  ListsFounded'
    BY <1>2, <1>10 DEF UnhookAllPlugin
<1>11. ASSUME NEW h \in Hook, RunCommand(h)
       PROVE  UNCHANGED <<status, precedes>>
    BY <1>11 DEF RunCommand
<1>12. Skip \/ Call \/ FocusAgain \/ CommandEaten \/ CommandGoesOn
         => UNCHANGED <<status, precedes>>
    BY DEF Skip, Call, FocusAgain, CommandEaten, CommandGoesOn
<1>13. Finish \/ NoCommand \/ CommandReturns => Leave
    BY DEF Finish, NoCommand, CommandReturns
<1>14. UNCHANGED vars => UNCHANGED <<status, precedes>>
    BY DEF vars
<1> QED
    BY <1>1, <1>3, <1>4, <1>5, <1>6, <1>7, <1>8, <1>9, <1>10, <1>11, <1>12, <1>13, <1>14
    DEF Next, Loop, CallbackReturns

\* The first of the hooks of a name has the highest priority of them.
LEMMA FirstHasTopPriority ==
    ASSUME ListsSorted, NEW n \in Name, NEW S \in SUBSET Named(n), NEW h \in FirstOf(S), NEW x \in S
    PROVE  Priority[x] <= Priority[h] /\ h \in S
<1>1. h \in S /\ (x # h => <<h, x>> \in precedes)
    BY DEF FirstOf
<1>2. /\ h \in Hook /\ Live(h) /\ TypeOf[h] = "command" /\ NameOf[h] = n
      /\ x \in Hook /\ Live(x) /\ TypeOf[x] = "command" /\ NameOf[x] = n
    BY <1>1 DEF Named
<1>3. Priority[h] \in Nat /\ Priority[x] \in Nat
    BY <1>2, ConstantsAssumption
<1>4. CASE x = h
    BY <1>1, <1>3, <1>4
<1>5. CASE x # h
    <2>1. ~ GoesBefore(x, h)
        BY <1>1, <1>2, <1>5 DEF ListsSorted
    <2> QED BY <1>1, <1>2, <1>3, <2>1 DEF GoesBefore
<1> QED BY <1>4, <1>5

\* Some command is first when there is one of the name.
LEMMA FirstExists ==
    ASSUME ListsFounded, NEW n \in Name, NEW S \in SUBSET Named(n), S # {}
    PROVE  FirstOf(S) # {}
<1>1. /\ S \in SUBSET {h \in Hook : Allocated(h)}
      /\ \A a, b \in S : TypeOf[a] = TypeOf[b]
    BY DEF Named, Live, Allocated
<1> QED BY <1>1 DEF ListsFounded

\* hook_command_exec runs, of the commands of a name that its caller may use,
\* one with the highest priority: no command is hidden by one of a lower
\* priority, whatever was hooked and unhooked before.
THEOREM ChosenAlwaysTopPriority == Spec => []ChosenHasTopPriority
<1>1. ListsInv /\ ListsFounded => ChosenHasTopPriority
    <2> SUFFICES ASSUME ListsSorted, ListsFounded, NEW n \in Name, NEW p \in Plugin,
                        NEW any \in BOOLEAN, NEW h \in CommandFor(n, p, any),
                        NEW x \in Named(n), PluginOf[x] = p \/ any
                 PROVE  Priority[x] <= Priority[h]
        BY DEF ChosenHasTopPriority, ListsInv
    <2> DEFINE Mine    == {c \in Named(n) : PluginOf[c] = p}
               Foreign == IF any THEN {c \in Named(n) : PluginOf[c] # p} ELSE {}
               mine    == FirstOf(Mine)
               other   == FirstOf(Foreign)
               other2  == FirstOf(Foreign \ other)
               before(A, B) == \E a \in A, b \in B : Priority[a] > Priority[b]
               level(A, B)  == \E a \in A, b \in B : Priority[a] = Priority[b]
    <2>1. x \in Mine \/ x \in Foreign
        OBVIOUS
    <2>2. Mine \in SUBSET Named(n) /\ Foreign \in SUBSET Named(n)
        OBVIOUS
    <2>3. CommandFor(n, p, any) =
            CASE mine = {} /\ other = {} ->
                   IF Cardinality(Started(n)) = 1 THEN Started(n) ELSE {}
              [] mine = {} /\ other # {} -> IF level(other, other2) THEN {} ELSE other
              [] mine # {} -> IF before(other, mine) THEN other ELSE mine
        BY DEF CommandFor
    <2>4. \A c \in Named(n) : Priority[c] \in Nat
        BY ConstantsAssumption DEF Named
    <2> HIDE DEF Mine, Foreign
    <2>5. /\ mine = {} => Mine = {}
          /\ other = {} => Foreign = {}
        BY <2>2, FirstExists
    <2>6. /\ \A m \in mine : m \in Named(n) /\ \A y \in Mine : Priority[y] <= Priority[m]
          /\ \A o \in other : o \in Named(n) /\ \A y \in Foreign : Priority[y] <= Priority[o]
        BY <2>2, FirstHasTopPriority DEF FirstOf
    <2> HIDE DEF mine, other, other2, level
    <2>7. CASE mine = {}
        <3>1. x \in Foreign /\ other # {}
            BY <2>1, <2>5, <2>7
        <3>2. h \in other
            BY <2>3, <2>7, <3>1
        <3> QED BY <2>6, <3>1, <3>2
    <2>8. CASE mine # {} /\ before(other, mine)
        <3>1. h \in other
            BY <2>3, <2>8
        <3>2. PICK o \in other, m \in mine : Priority[o] > Priority[m]
            BY <2>8
        <3>3. CASE x \in Foreign
            BY <2>6, <3>1, <3>3
        <3>4. CASE x \in Mine
            <4>1. Priority[x] <= Priority[m] /\ o \in Foreign /\ Priority[o] <= Priority[h]
                BY <2>6, <3>1, <3>2, <3>4 DEF other, FirstOf
            <4> QED BY <2>4, <2>6, <3>1, <3>2, <4>1
        <3> QED BY <2>1, <3>3, <3>4
    <2>9. CASE mine # {} /\ ~ before(other, mine)
        <3>1. h \in mine
            BY <2>3, <2>9
        <3>2. CASE x \in Mine
            BY <2>6, <3>1, <3>2
        <3>3. CASE x \in Foreign
            <4>1. PICK o \in other : TRUE
                BY <2>5, <3>3
            <4>2. Priority[x] <= Priority[o] /\ ~ (Priority[o] > Priority[h])
                BY <2>6, <2>9, <3>1, <3>3, <4>1
            <4> QED BY <2>4, <2>6, <3>1, <4>1, <4>2
        <3> QED BY <2>1, <3>2, <3>3
    <2> QED BY <2>7, <2>8, <2>9
<1>2. Init => ListsFounded
    BY DEF Init, ListsFounded, Allocated
<1>3. Spec => []ListsFounded
    BY <1>2, Events, FoundedStep, PTL DEF Spec
<1> QED BY <1>1, <1>3, Events, PTL

-----------------------------------------------------------------------------
(***************************************************************************)
(* HookProcess.                                                            *)
(***************************************************************************)

Chunks == [Stream -> Nat]
Buf    == [kept : Chunks, got : Chunks, calls : BOOLEAN]

\* d and e hold the same chunks, but for n more of s in e.
Gains(d, e, s, n) ==
    \A x \in Stream : e.kept[x] + e.got[x] = d.kept[x] + d.got[x] + (IF x = s THEN n ELSE 0)

Fits(d) == \A x \in Stream : d.kept[x] <= BufferSize

-----------------------------------------------------------------------------
(* The buffers.                                                            *)

\* A flush keeps the chunks and leaves the buffers empty.
LEMMA SentKeeps ==
    ASSUME NEW d \in Buf
    PROVE  /\ Sent(d) \in Buf /\ Fits(Sent(d))
           /\ \A x \in Stream : Sent(d).kept[x] = 0
           /\ \A x \in Stream : Sent(d).kept[x] + Sent(d).got[x] = d.kept[x] + d.got[x]
  <1>1. Zero \in Chunks /\ \A x \in Stream : Zero[x] = 0
    BY DEF Zero, Chunks
  <1>2. \A x \in Stream : d.kept[x] \in Nat /\ d.got[x] \in Nat
    BY DEF Buf, Chunks
  <1>3. [x \in Stream |-> d.got[x] + d.kept[x]] \in Chunks
    BY <1>2 DEF Chunks
  <1>4. BufferSize \in Nat
    BY ProcessAssumption
  <1> QED
    BY <1>1, <1>2, <1>3, <1>4 DEF Sent, Buf, Fits

\* A read of n chunks of s adds them to the buffers, which still fit.
LEMMA AddedKeeps ==
    ASSUME NEW d \in Buf, Fits(d), NEW s \in Stream, NEW n \in 0 .. BufferSize
    PROVE  Added(d, s, n) \in Buf /\ Fits(Added(d, s, n)) /\ Gains(d, Added(d, s, n), s, n)
  <1> DEFINE e == IF d.kept[s] + n > BufferSize THEN Sent(d) ELSE d
             a == [e EXCEPT !.kept[s] = @ + n]
  <1>1. BufferSize \in Nat /\ n \in Nat
    BY ProcessAssumption
  <1>2. /\ e \in Buf /\ Fits(e) /\ e.kept[s] + n <= BufferSize
        /\ \A x \in Stream : e.kept[x] + e.got[x] = d.kept[x] + d.got[x]
    <2>1. d.kept[s] \in Nat
      BY DEF Buf, Chunks
    <2>2. CASE d.kept[s] + n > BufferSize
      BY <2>2, <1>1, SentKeeps
    <2>3. CASE ~(d.kept[s] + n > BufferSize)
      BY <2>3, <2>1, <1>1
    <2> QED
      BY <2>2, <2>3
  <1>3. /\ e.kept \in Chunks /\ e.got \in Chunks /\ e.calls \in BOOLEAN
        /\ e = [kept |-> e.kept, got |-> e.got, calls |-> e.calls]
    BY <1>2 DEF Buf
  <1>4. a = [kept |-> [e.kept EXCEPT ![s] = @ + n], got |-> e.got, calls |-> e.calls]
    BY <1>3
  <1>5. Added(d, s, n) = a
    BY DEF Added
  <1> HIDE DEF e, a
  <1>6. \A x \in Stream : a.kept[x] = (IF x = s THEN e.kept[s] + n ELSE e.kept[x])
    BY <1>3, <1>4 DEF Chunks
  <1>7. a.kept \in Chunks /\ a.got = e.got
    BY <1>1, <1>3, <1>4 DEF Chunks
  <1>8. \A x \in Stream : e.kept[x] \in Nat /\ e.got[x] \in Nat
    BY <1>3 DEF Chunks
  <1>9. a \in Buf
    BY <1>3, <1>4, <1>7 DEF Buf
  <1>10. Fits(a)
    BY <1>1, <1>2, <1>6 DEF Fits
  <1>11. Gains(d, a, s, n)
    <2> SUFFICES ASSUME NEW x \in Stream
                 PROVE  a.kept[x] + a.got[x]
                          = d.kept[x] + d.got[x] + (IF x = s THEN n ELSE 0)
      BY DEF Gains
    <2>1. e.kept[x] + e.got[x] = d.kept[x] + d.got[x] /\ a.got[x] = e.got[x]
      BY <1>2, <1>7
    <2>2. CASE x = s
      BY <2>1, <2>2, <1>1, <1>6, <1>8
    <2>3. CASE x # s
      BY <2>1, <2>3, <1>1, <1>6, <1>8
    <2> QED
      BY <2>2, <2>3
  <1> QED
    BY <1>5, <1>9, <1>10, <1>11

LEMMA ReadIntoKeeps ==
    ASSUME NEW d \in Buf, Fits(d), NEW s \in Stream, NEW n \in 0 .. BufferSize
    PROVE  ReadInto(d, s, n) \in Buf /\ Fits(ReadInto(d, s, n)) /\ Gains(d, ReadInto(d, s, n), s, n)
  <1>1. Added(d, s, n) \in Buf /\ Fits(Added(d, s, n)) /\ Gains(d, Added(d, s, n), s, n)
    BY AddedKeeps
  <1>2. /\ Sent(Added(d, s, n)) \in Buf /\ Fits(Sent(Added(d, s, n)))
        /\ Gains(d, Sent(Added(d, s, n)), s, n)
    BY <1>1, SentKeeps DEF Gains
  <1>3. CASE Added(d, s, n).kept[s] >= Flush
    BY <1>2, <1>3 DEF ReadInto
  <1>4. CASE ~(Added(d, s, n).kept[s] >= Flush)
    BY <1>1, <1>4 DEF ReadInto
  <1> QED
    BY <1>3, <1>4

-----------------------------------------------------------------------------
(* The inductive invariant.                                                *)

\* What is kept fits; what the next read adds then fits too.
KeptFits == \A s \in Stream : buffer_size[s] <= BufferSize

\* Before it starts, a hook has done nothing.
Fresh ==
    hook = "none" =>
        /\ child = "none" /\ holder = {} /\ reports = 0 /\ code = "none" /\ loops = 0
        /\ pipe = Zero /\ buffer_size = Zero /\ delivered = Zero /\ written = Zero
        /\ now = 0 /\ killedAt = -1

\* A stream that some process can write on still has its fd hook.
WritersAreRead == hook = "live" => holder \subseteq hook_fd

IInv ==
    /\ ProcessTypeOK /\ KeptFits /\ NothingLost /\ OneFinalReport /\ NoZombie
    /\ Fresh /\ WritersAreRead


-----------------------------------------------------------------------------

\* The buffers of the hook, as a record.
LEMMA BuffersType ==
    ASSUME ProcessTypeOK, KeptFits
    PROVE  Buffers \in Buf /\ Fits(Buffers) /\ Buffers.kept = buffer_size /\ Buffers.got = delivered
  BY DEF ProcessTypeOK, KeptFits, Buffers, Buf, Chunks, Fits

\* What one read takes from a pipe fits in a buffer.
LEMMA LeastBound ==
    ASSUME NEW p \in Nat
    PROVE  Least(p, ReadMax) \in 0 .. BufferSize /\ Least(p, ReadMax) <= p
  BY ProcessAssumption DEF Least

\* What a read does, by the fd hook or until end of file: chunks go from the
\* pipes to the buffers, which still fit, and the callback may be called.
Moves ==
    \E d \in Buf, p \in Chunks :
        /\ SetBuffers(d) /\ Fits(d)
        /\ pipe' = p
        /\ \A x \in Stream : p[x] + d.kept[x] + d.got[x] = pipe[x] + buffer_size[x] + delivered[x]
        /\ hook' \in {"live", "crashed"} /\ code' \in {"running", code}

LEMMA FdReadMoves ==
    ASSUME ProcessTypeOK, KeptFits, NEW s \in Stream, FdReads(s)
    PROVE  Moves
  <1> DEFINE n == Least(pipe[s], ReadMax)
             d == ReadInto(Buffers, s, n)
             p == [pipe EXCEPT ![s] = @ - n]
  <1>1. pipe \in Chunks /\ pipe[s] \in Nat
    BY DEF ProcessTypeOK, Chunks
  <1>2. n \in 0 .. BufferSize /\ n <= pipe[s]
    BY <1>1, LeastBound
  <1>3. Buffers \in Buf /\ Fits(Buffers) /\ Buffers.kept = buffer_size /\ Buffers.got = delivered
    BY BuffersType
  <1>4. d \in Buf /\ Fits(d) /\ Gains(Buffers, d, s, n)
    BY <1>2, <1>3, ReadIntoKeeps
  <1>5. SetBuffers(d) /\ pipe' = p /\ code' \in {"running", code} /\ hook' \in {"live", "crashed"}
    BY DEF FdReads, CallbackResult
  <1> HIDE DEF n, d
  <1>6. p \in Chunks /\ \A x \in Stream : p[x] = (IF x = s THEN pipe[s] - n ELSE pipe[x])
    BY <1>1, <1>2, ProcessAssumption DEF Chunks
  <1>7. ASSUME NEW x \in Stream
        PROVE  p[x] + d.kept[x] + d.got[x] = pipe[x] + buffer_size[x] + delivered[x]
    <2>1. d.kept[x] + d.got[x] = buffer_size[x] + delivered[x] + (IF x = s THEN n ELSE 0)
      BY <1>3, <1>4 DEF Gains
    <2>2. /\ d.kept[x] \in Nat /\ d.got[x] \in Nat /\ pipe[x] \in Nat
          /\ buffer_size[x] \in Nat /\ delivered[x] \in Nat /\ n \in Nat
      BY <1>1, <1>2, <1>4, ProcessAssumption DEF Buf, Chunks, ProcessTypeOK
    <2>3. p[x] = (IF x = s THEN pipe[s] - n ELSE pipe[x])
      BY <1>6
    <2> HIDE DEF p
    <2> QED
      BY <2>1, <2>2, <2>3
  <1> QED
    BY <1>4, <1>5, <1>6, <1>7 DEF Moves

LEMMA DrainMoves ==
    ASSUME ProcessTypeOK, KeptFits, DrainLoop
    PROVE  Moves
  <1> DEFINE n(s) == Least(pipe[s], ReadMax)
             out(s) == IF s \in Readable THEN n(s) ELSE 0
             a == IF "stdout" \in Readable THEN ReadInto(Buffers, "stdout", n("stdout")) ELSE Buffers
             b == IF "stderr" \in Readable THEN ReadInto(a, "stderr", n("stderr")) ELSE a
             p == [s \in Stream |-> IF s \in Readable THEN pipe[s] - n(s) ELSE pipe[s]]
  <1>1. pipe \in Chunks /\ \A s \in Stream : pipe[s] \in Nat
    BY DEF ProcessTypeOK, Chunks
  <1>2. \A s \in Stream : n(s) \in 0 .. BufferSize /\ n(s) <= pipe[s]
    BY <1>1, LeastBound
  <1>3. Buffers \in Buf /\ Fits(Buffers) /\ Buffers.kept = buffer_size /\ Buffers.got = delivered
    BY BuffersType
  <1>4. SetBuffers(b) /\ pipe' = p /\ code' \in {"running", code} /\ hook' \in {"live", "crashed"}
    BY DEF DrainLoop, CallbackResult
  <1>5. "stdout" \in Stream /\ "stderr" \in Stream /\ BufferSize \in Nat
    BY ProcessAssumption DEF Stream
  <1>6. a \in Buf /\ Fits(a) /\ Gains(Buffers, a, "stdout", out("stdout"))
    <2>1. CASE "stdout" \in Readable
      BY <1>2, <1>3, <1>5, <2>1, ReadIntoKeeps
    <2>2. CASE "stdout" \notin Readable
      <3>1. a = Buffers /\ out("stdout") = 0
        BY <2>2
      <3> HIDE DEF a, out
      <3>2. Gains(Buffers, Buffers, "stdout", 0)
        BY <1>3 DEF Gains, Buf, Chunks
      <3> QED
        BY <1>3, <3>1, <3>2
    <2> QED
      BY <2>1, <2>2
  <1> HIDE DEF a
  <1>7. b \in Buf /\ Fits(b) /\ Gains(a, b, "stderr", out("stderr"))
    <2>1. CASE "stderr" \in Readable
      BY <1>2, <1>6, <1>5, <2>1, ReadIntoKeeps
    <2>2. CASE "stderr" \notin Readable
      <3>1. b = a /\ out("stderr") = 0
        BY <2>2
      <3> HIDE DEF b, out
      <3>2. Gains(a, a, "stderr", 0)
        BY <1>6 DEF Gains, Buf, Chunks
      <3> QED
        BY <1>6, <3>1, <3>2
    <2> QED
      BY <2>1, <2>2
  <1> HIDE DEF b
  <1>8. ASSUME NEW x \in Stream
        PROVE  out(x) \in Nat /\ out(x) <= pipe[x] /\ p[x] = pipe[x] - out(x)
    <2>1. n(x) \in Nat /\ n(x) <= pipe[x] /\ pipe[x] \in Nat
      BY <1>1, <1>2, <1>5
    <2>2. p[x] = IF x \in Readable THEN pipe[x] - n(x) ELSE pipe[x]
      OBVIOUS
    <2> HIDE DEF n, p
    <2> QED
      BY <2>1, <2>2
  <1> HIDE DEF out
  <1>9. p \in Chunks
    <2>1. \A x \in Stream : p[x] \in Nat
      BY <1>1, <1>8
    <2> QED
      BY <2>1 DEF Chunks
  <1> HIDE DEF p
  <1>10. ASSUME NEW x \in Stream
         PROVE  p[x] + b.kept[x] + b.got[x] = pipe[x] + buffer_size[x] + delivered[x]
    <2>1. a.kept[x] + a.got[x]
            = buffer_size[x] + delivered[x] + (IF x = "stdout" THEN out("stdout") ELSE 0)
      BY <1>3, <1>6 DEF Gains
    <2>2. b.kept[x] + b.got[x] = a.kept[x] + a.got[x] + (IF x = "stderr" THEN out("stderr") ELSE 0)
      BY <1>7 DEF Gains
    <2>3. /\ b.kept[x] \in Nat /\ b.got[x] \in Nat /\ a.kept[x] \in Nat /\ a.got[x] \in Nat
          /\ buffer_size[x] \in Nat /\ delivered[x] \in Nat /\ pipe[x] \in Nat
      BY <1>1, <1>6, <1>7 DEF Buf, Chunks, ProcessTypeOK
    <2>4. x = "stdout" \/ x = "stderr"
      BY DEF Stream
    <2>5. /\ out(x) \in Nat /\ out(x) <= pipe[x] /\ p[x] = pipe[x] - out(x)
          /\ out("stdout") \in Nat /\ out("stderr") \in Nat
      BY <1>5, <1>8
    <2>6. b.kept[x] + b.got[x] = buffer_size[x] + delivered[x] + out(x)
      <3>1. CASE x = "stdout"
        <4>1. a.kept[x] + a.got[x] = buffer_size[x] + delivered[x] + out(x)
          BY <2>1, <3>1
        <4>2. b.kept[x] + b.got[x] = a.kept[x] + a.got[x]
          BY <2>2, <2>3, <3>1
        <4> QED
          BY <4>1, <4>2
      <3>2. CASE x = "stderr"
        <4>1. a.kept[x] + a.got[x] = buffer_size[x] + delivered[x]
          BY <2>1, <2>3, <3>2
        <4>2. b.kept[x] + b.got[x] = a.kept[x] + a.got[x] + out(x)
          BY <2>2, <3>2
        <4> QED
          BY <4>1, <4>2
      <3> QED
        BY <2>4, <3>1, <3>2
    <2> QED
      BY <2>3, <2>5, <2>6
  <1> QED
    BY <1>4, <1>7, <1>9, <1>10 DEF Moves

\* The invariant holds at the start.
LEMMA InitHolds ==
    ASSUME ProcessInit PROVE IInv
  <1>1. Zero \in Chunks /\ \A x \in Stream : Zero[x] = 0
    BY DEF Zero, Chunks
  <1>2. ProcessTypeOK
    BY <1>1 DEF ProcessInit, ProcessTypeOK, Stream, Chunks
  <1>3. KeptFits
    BY <1>1, ProcessAssumption DEF ProcessInit, KeptFits
  <1> QED
    BY <1>1, <1>2, <1>3 DEF ProcessInit, IInv, NothingLost, OneFinalReport, NoZombie, Fresh, WritersAreRead

-----------------------------------------------------------------------------
(* The type invariant.                                                     *)

LEMMA ProcessTypeStep ==
    ASSUME ProcessTypeOK, KeptFits, [ProcessNext]_processVars
    PROVE  ProcessTypeOK'
  <1> USE ProcessAssumption DEF ProcessTypeOK
  <1>0. Zero \in Chunks
    BY DEF Zero, Chunks
  <1>1. ASSUME NEW ms \in Timeouts, Start(ms)
        PROVE  ProcessTypeOK'
    <2>1. Interval(ms) \in Nat /\ TimerMaxCalls(ms) \in Nat
      BY DEF Interval, TimerMaxCalls
    <2> QED
      BY <1>1, <2>1 DEF Start, reportVars, killVars
  <1>2. CASE StartFails
    BY <1>2 DEF StartFails, childVars, timerVars, killVars
  <1>3. CASE ChildEnds
    BY <1>3 DEF ChildEnds, timerVars, reportVars, killVars
  <1>4. CASE OwnerUnhooks
    BY <1>0, <1>4 DEF OwnerUnhooks, Unhooked, Chunks, childVars, timerVars, reportVars
  <1>5. CASE Tick
    BY <1>5 DEF Tick, childVars, timerVars, reportVars, killVars
  <1>6. CASE TimeoutReached
    <2>1. Sent(Buffers) \in Buf
      BY BuffersType, SentKeeps
    <2> QED
      BY <1>0, <1>6, <2>1 DEF TimeoutReached, Unhooked, SetBuffers, Buf, Chunks, childVars, timerVars
  <1>7. CASE StillRunning
    <2>1. Interval(timeout) \in Nat
      BY DEF Interval
    <2> QED
      BY <1>7, <2>1 DEF StillRunning, childVars, reportVars, killVars
  <1>8. CASE ChildFound
    BY <1>8 DEF ChildFound, childVars, timerVars, reportVars, killVars
  <1>9. CASE DrainLoop
    <2>1. PICK d \in Buf, p \in Chunks :
             SetBuffers(d) /\ pipe' = p /\ code' \in Code /\ hook' \in {"live", "crashed"}
      BY <1>9, DrainMoves DEF Moves, Code
    <2> QED
      BY <1>9, <2>1 DEF DrainLoop, SetBuffers, Buf, Chunks, Code, childVars, timerVars, killVars
  <1>10. CASE Drained
    <2>1. Sent(Buffers) \in Buf
      BY BuffersType, SentKeeps
    <2> QED
      BY <1>0, <1>10, <2>1 DEF Drained, Unhooked, SetBuffers, Buf, Chunks, childVars, timerVars
  <1>11. ASSUME NEW s \in Stream, FdReads(s)
         PROVE  ProcessTypeOK'
    <2>1. PICK d \in Buf, p \in Chunks :
             SetBuffers(d) /\ pipe' = p /\ code' \in Code /\ hook' \in {"live", "crashed"}
      BY <1>11, FdReadMoves DEF Moves, Code
    <2> QED
      BY <1>11, <2>1 DEF FdReads, SetBuffers, Buf, Chunks, Code, childVars, timerVars, killVars
  <1>12. ASSUME NEW s \in Stream, FdEof(s)
         PROVE  ProcessTypeOK'
    BY <1>12 DEF FdEof, childVars, timerVars, reportVars, killVars
  <1>13. ASSUME NEW s \in Stream, Write(s)
         PROVE  ProcessTypeOK'
    BY <1>13 DEF Write, timerVars, reportVars, killVars
  <1>14. ASSUME NEW s \in Stream, CloseStream(s)
         PROVE  ProcessTypeOK'
    BY <1>14 DEF CloseStream, timerVars, reportVars, killVars
  <1>15. CASE UNCHANGED processVars
    BY <1>15 DEF processVars
  <1> QED
    BY <1>1, <1>2, <1>3, <1>4, <1>5, <1>6, <1>7, <1>8, <1>9, <1>10, <1>11, <1>12, <1>13,
       <1>14, <1>15 DEF ProcessNext, MainLoop

-----------------------------------------------------------------------------
(* The other parts of the invariant.                                       *)

\* Reading moves chunks and reports nothing: what holds of a live hook stays.
LEMMA MovesKeep ==
    ASSUME IInv, Moves, hook = "live", child' \in {child, "reaped"},
           UNCHANGED <<holder, hook_fd, written, reports>>
    PROVE  KeptFits' /\ NothingLost' /\ OneFinalReport' /\ NoZombie' /\ Fresh' /\ WritersAreRead'
  <1>1. PICK d \in Buf, p \in Chunks :
           /\ SetBuffers(d) /\ Fits(d) /\ pipe' = p
           /\ \A x \in Stream : p[x] + d.kept[x] + d.got[x]
                                  = pipe[x] + buffer_size[x] + delivered[x]
           /\ hook' \in {"live", "crashed"} /\ code' \in {"running", code}
    BY DEF Moves
  <1>2. buffer_size' = d.kept /\ delivered' = d.got
    BY <1>1 DEF SetBuffers
  <1>3. KeptFits'
    BY <1>1, <1>2 DEF KeptFits, Fits
  <1>4. NothingLost'
    BY <1>1, <1>2 DEF IInv, NothingLost
  <1>5. OneFinalReport'
    BY <1>1 DEF IInv, ProcessTypeOK, OneFinalReport
  <1>6. NoZombie' /\ Fresh' /\ WritersAreRead'
    BY <1>1 DEF IInv, NoZombie, Fresh, WritersAreRead
  <1> QED
    BY <1>3, <1>4, <1>5, <1>6

\* The final report: everything goes to the callback, then the hook goes.
LEMMA ReportKeeps ==
    ASSUME IInv, SetBuffers(Sent(Buffers)), hook = "live", code' \in {"exit", "error"},
           reports' = reports + 1, hook' \in {"gone", "crashed"}, Unhooked
    PROVE  KeptFits' /\ NothingLost' /\ OneFinalReport' /\ NoZombie' /\ Fresh' /\ WritersAreRead'
  <1>1. Buffers \in Buf
    BY BuffersType DEF IInv
  <1>2. KeptFits'
    BY <1>1, SentKeeps DEF KeptFits, SetBuffers, Fits
  <1>3. reports = 0
    BY DEF IInv, OneFinalReport
  <1>4. OneFinalReport'
    BY <1>3 DEF OneFinalReport
  <1> QED
    BY <1>2, <1>4 DEF NothingLost, NoZombie, Fresh, WritersAreRead, Unhooked

LEMMA InvariantStep ==
    ASSUME IInv, [ProcessNext]_processVars
    PROVE  IInv'
  <1> DEFINE Rest == KeptFits /\ NothingLost /\ OneFinalReport /\ NoZombie /\ Fresh /\ WritersAreRead
  <1>0. ProcessTypeOK'
    BY ProcessTypeStep DEF IInv
  <1>1. ASSUME NEW ms \in Timeouts, Start(ms)
        PROVE  Rest'
    <2>1. buffer_size' = Zero /\ delivered' = Zero /\ pipe' = Zero /\ written' = Zero
      BY <1>1 DEF Start, IInv, Fresh, reportVars
    <2>2. \A x \in Stream : Zero[x] = 0
      BY DEF Zero
    <2>3. reports' = 0 /\ code' = "none" /\ hook' = "live" /\ holder' = hook_fd'
      BY <1>1 DEF Start, IInv, Fresh, reportVars
    <2>4. NothingLost' /\ KeptFits'
      BY <2>1, <2>2, ProcessAssumption DEF NothingLost, KeptFits
    <2> QED
      BY <2>3, <2>4 DEF OneFinalReport, NoZombie, Fresh, WritersAreRead
  <1>2. ASSUME StartFails
        PROVE  Rest'
    BY <1>2 DEF StartFails, IInv, ProcessTypeOK, KeptFits, NothingLost, OneFinalReport, NoZombie, Fresh,
                WritersAreRead, childVars, timerVars, killVars
  <1>3. ASSUME ChildEnds
        PROVE  Rest'
    BY <1>3 DEF ChildEnds, IInv, ProcessTypeOK, KeptFits, NothingLost, OneFinalReport, NoZombie, Fresh,
                WritersAreRead, timerVars, reportVars, killVars
  <1>4. ASSUME OwnerUnhooks
        PROVE  Rest'
    <2>1. code \notin {"exit", "error"} /\ reports = 0
      BY <1>4 DEF OwnerUnhooks, Idle, IInv, OneFinalReport
    <2> QED
      BY <1>4, <2>1 DEF OwnerUnhooks, Idle, Unhooked, IInv, KeptFits, NothingLost, OneFinalReport, NoZombie,
                Fresh, WritersAreRead, childVars, timerVars, reportVars
  <1>5. ASSUME Tick
        PROVE  Rest'
    BY <1>5 DEF Tick, IInv, KeptFits, NothingLost, OneFinalReport, NoZombie, Fresh,
                WritersAreRead, childVars, timerVars, reportVars, killVars
  <1>6. ASSUME TimeoutReached
        PROVE  Rest'
    BY <1>6, ReportKeeps DEF TimeoutReached, TimerDue, Idle
  <1>7. ASSUME StillRunning
        PROVE  Rest'
    BY <1>7 DEF StillRunning, TimerDue, Idle, IInv, KeptFits, NothingLost, OneFinalReport, NoZombie, Fresh,
                WritersAreRead, childVars, reportVars, killVars
  <1>8. ASSUME ChildFound
        PROVE  Rest'
    BY <1>8 DEF ChildFound, TimerDue, Idle, IInv, KeptFits, NothingLost, OneFinalReport, NoZombie, Fresh,
                WritersAreRead, childVars, timerVars, reportVars, killVars
  <1>9. ASSUME DrainLoop
        PROVE  Rest'
    <2>1. Moves
      BY <1>9, DrainMoves DEF IInv
    <2> QED
      BY <1>9, <2>1, MovesKeep DEF DrainLoop, childVars
  <1>10. ASSUME Drained
         PROVE  Rest'
    BY <1>10, ReportKeeps DEF Drained
  <1>11. ASSUME NEW s \in Stream, FdReads(s)
         PROVE  Rest'
    <2>1. Moves
      BY <1>11, FdReadMoves DEF IInv
    <2> QED
      BY <1>11, <2>1, MovesKeep DEF FdReads, Idle, childVars
  <1>12. ASSUME NEW s \in Stream, FdEof(s)
         PROVE  Rest'
    BY <1>12 DEF FdEof, Idle, IInv, KeptFits, NothingLost, OneFinalReport, NoZombie, Fresh,
                 WritersAreRead, childVars, timerVars, reportVars, killVars
  <1>13. ASSUME NEW s \in Stream, Write(s)
         PROVE  Rest'
    <2>1. hook # "none"
      BY <1>13 DEF Write, IInv, Fresh
    <2>2. NothingLost'
      <3> SUFFICES ASSUME hook = "live", NEW x \in Stream
                   PROVE  pipe'[x] + buffer_size[x] + delivered[x] = written'[x]
        BY <1>13 DEF NothingLost, Write, reportVars
      <3>1. s \in hook_fd
        BY <1>13 DEF Write, IInv, WritersAreRead
      <3>2. pipe[x] + buffer_size[x] + delivered[x] = written[x]
        BY DEF IInv, NothingLost
      <3>3. /\ pipe \in [Stream -> Nat] /\ written \in [Stream -> Nat]
            /\ pipe[x] \in Nat /\ buffer_size[x] \in Nat /\ delivered[x] \in Nat
            /\ written[x] \in Nat
        BY DEF IInv, ProcessTypeOK
      <3>4. /\ pipe'[x] = (IF x = s THEN pipe[x] + 1 ELSE pipe[x])
            /\ written'[x] = (IF x = s THEN written[x] + 1 ELSE written[x])
        BY <1>13, <3>1, <3>3 DEF Write
      <3> QED
        BY <3>2, <3>3, <3>4
    <2> QED
      BY <1>13, <2>1, <2>2 DEF Write, IInv, KeptFits, OneFinalReport, NoZombie, Fresh,
                 WritersAreRead, reportVars
  <1>14. ASSUME NEW s \in Stream, CloseStream(s)
         PROVE  Rest'
    BY <1>14 DEF CloseStream, IInv, KeptFits, NothingLost, OneFinalReport, NoZombie, Fresh,
                 WritersAreRead, timerVars, reportVars, killVars
  <1>15. ASSUME UNCHANGED processVars
         PROVE  Rest'
    BY <1>15 DEF processVars, IInv, KeptFits, NothingLost, OneFinalReport, NoZombie, Fresh, WritersAreRead
  <1>16. Rest'
    BY <1>1, <1>2, <1>3, <1>4, <1>5, <1>6, <1>7, <1>8, <1>9, <1>10, <1>11, <1>12, <1>13,
       <1>14, <1>15 DEF ProcessNext, MainLoop
  <1> QED
    BY <1>0, <1>16 DEF IInv

\* What the next read adds fits too.
LEMMA FitsFollows ==
    ASSUME ProcessTypeOK, KeptFits PROVE BuffersFit
  <1> SUFFICES ASSUME NEW s \in Stream
               PROVE  Added(Buffers, s, Least(pipe[s], ReadMax)).kept[s] <= BufferSize
    BY DEF BuffersFit, KeptFits
  <1>1. Least(pipe[s], ReadMax) \in 0 .. BufferSize
    BY LeastBound DEF ProcessTypeOK
  <1>2. Buffers \in Buf /\ Fits(Buffers)
    BY BuffersType
  <1>3. Fits(Added(Buffers, s, Least(pipe[s], ReadMax)))
    BY <1>1, <1>2, AddedKeeps
  <1> QED
    BY <1>3 DEF Fits

LEMMA InvariantHolds == ProcessSpec => []IInv
  <1>1. ProcessInit => IInv
    BY InitHolds
  <1>2. IInv /\ [ProcessNext]_processVars => IInv'
    BY InvariantStep
  <1> QED
    BY <1>1, <1>2, PTL DEF ProcessSpec

-----------------------------------------------------------------------------
(* The theorems.                                                           *)

\* Every variable of the process hook keeps its type.
THEOREM ProcessTypeCorrect == ProcessSpec => []ProcessTypeOK
  <1>1. IInv => ProcessTypeOK
    BY DEF IInv
  <1> QED
    BY <1>1, InvariantHolds, PTL

\* hook_process_add_to_buffer never writes past a buffer, for any size of the
\* buffer, of a read and of the option buffer_flush.
THEOREM BuffersAlwaysFit == ProcessSpec => []BuffersFit
  <1>1. IInv => BuffersFit
    BY FitsFollows DEF IInv
  <1> QED
    BY <1>1, InvariantHolds, PTL

\* While the hook lives, what the child wrote is in a pipe, in a buffer or with
\* the callback.
THEOREM OutputNeverLost == ProcessSpec => []NothingLost
  <1>1. IInv => NothingLost
    BY DEF IInv
  <1> QED
    BY <1>1, InvariantHolds, PTL

\* The callback gets one final code, when the hook goes.
THEOREM ReportedOnce == ProcessSpec => []OneFinalReport
  <1>1. IInv => OneFinalReport
    BY DEF IInv
  <1> QED
    BY <1>1, InvariantHolds, PTL

\* A hook that is gone leaves no zombie.
THEOREM NeverZombie == ProcessSpec => []NoZombie
  <1>1. IInv => NoZombie
    BY DEF IInv
  <1> QED
    BY <1>1, InvariantHolds, PTL

-----------------------------------------------------------------------------
(* The timeout.                                                            *)

\* The timeouts for which the countdown by 100 ms is right.
Exact == \A ms \in Timeouts : ms <= 100 \/ ms % 100 = 0

\* The call that kills comes no earlier than the timeout.
Countdown ==
    /\ hook = "live" =>
         IF timeout <= 100 THEN remaining <= 1 /\ (remaining = 1 => next_exec >= timeout)
         ELSE remaining >= 1 /\ next_exec + (remaining - 1) * 100 >= timeout
    /\ hook \in {"none", "live"} => killedAt = -1

TimeInv == IInv /\ Countdown /\ NotKilledEarly

LEMMA TimeStep ==
    ASSUME Exact, TimeInv, [ProcessNext]_processVars
    PROVE  TimeInv'
  <1> DEFINE Rest == Countdown /\ NotKilledEarly
  <1>0. IInv'
    BY InvariantStep DEF TimeInv
  <1> USE DEF TimeInv, Countdown, NotKilledEarly
  <1>1. ASSUME NEW ms \in Timeouts, Start(ms)
        PROVE  Rest'
    <2>1. /\ ms \in Nat /\ now \in Nat /\ (ms <= 100 \/ ms % 100 = 0)
          /\ timeout' = ms /\ killedAt' = -1
          /\ next_exec' = now + Interval(ms) /\ remaining' = TimerMaxCalls(ms)
      BY <1>1, ProcessAssumption DEF Start, killVars, Exact, IInv, ProcessTypeOK
    <2>2. CASE ms = 0
      BY <2>1, <2>2 DEF TimerMaxCalls
    <2>3. CASE ms \in 1..100
      BY <2>1, <2>3 DEF TimerMaxCalls, Interval
    <2>4. CASE ms > 100
      <3>1. TimerMaxCalls(ms) = (ms \div 100) + 1 /\ Interval(ms) = 100
        BY <2>1, <2>4 DEF TimerMaxCalls, Interval
      <3>2. (ms \div 100) \in Nat /\ (ms \div 100) * 100 = ms
        BY <2>1, <2>4
      <3> QED
        BY <2>1, <2>4, <3>1, <3>2
    <2> QED
      BY <2>1, <2>2, <2>3, <2>4
  <1>2. ASSUME StartFails
        PROVE  Rest'
    BY <1>2 DEF StartFails, childVars, killVars
  <1>3. ASSUME ChildEnds
        PROVE  Rest'
    BY <1>3 DEF ChildEnds, timerVars, killVars
  <1>4. ASSUME OwnerUnhooks
        PROVE  Rest'
    BY <1>4 DEF OwnerUnhooks, Idle, childVars
  <1>5. ASSUME Tick
        PROVE  Rest'
    BY <1>5 DEF Tick, childVars, timerVars, killVars
  <1>6. ASSUME TimeoutReached
        PROVE  Rest'
    <2>1. next_exec \in Nat /\ timeout \in Nat /\ now \in Nat
      BY ProcessAssumption DEF IInv, ProcessTypeOK
    <2>2. now >= next_exec /\ remaining = 1 /\ hook = "live"
      BY <1>6 DEF TimeoutReached, TimerDue, Idle
    <2>3. now >= timeout
      BY <2>1, <2>2
    <2>4. killedAt' = now /\ timeout' = timeout /\ hook' \in {"gone", "crashed"}
      BY <1>6 DEF TimeoutReached, childVars
    <2> QED
      BY <2>3, <2>4
  <1>7. ASSUME StillRunning
        PROVE  Rest'
    <2>1. remaining \in Nat /\ next_exec \in Nat /\ timeout \in Nat
      BY ProcessAssumption DEF IInv, ProcessTypeOK
    <2>2. timeout > 100 => Interval(timeout) = 100
      BY <2>1 DEF Interval
    <2> QED
      BY <1>7, <2>1, <2>2 DEF StillRunning, TimerDue, Idle, childVars, killVars
  <1>8. ASSUME ChildFound
        PROVE  Rest'
    BY <1>8 DEF ChildFound, childVars, timerVars, killVars
  <1>9. ASSUME DrainLoop
        PROVE  Rest'
    BY <1>9 DEF DrainLoop, CallbackResult, childVars, timerVars, killVars
  <1>10. ASSUME Drained
         PROVE  Rest'
    BY <1>10 DEF Drained, childVars
  <1>11. ASSUME NEW s \in Stream, FdReads(s)
         PROVE  Rest'
    BY <1>11 DEF FdReads, Idle, CallbackResult, childVars, timerVars, killVars
  <1>12. ASSUME NEW s \in Stream, FdEof(s)
         PROVE  Rest'
    BY <1>12 DEF FdEof, childVars, timerVars, killVars
  <1>13. ASSUME NEW s \in Stream, Write(s)
         PROVE  Rest'
    BY <1>13 DEF Write, timerVars, killVars
  <1>14. ASSUME NEW s \in Stream, CloseStream(s)
         PROVE  Rest'
    BY <1>14 DEF CloseStream, timerVars, killVars
  <1>15. ASSUME UNCHANGED processVars
         PROVE  Rest'
    BY <1>15 DEF processVars
  <1>16. Rest'
    BY <1>1, <1>2, <1>3, <1>4, <1>5, <1>6, <1>7, <1>8, <1>9, <1>10, <1>11, <1>12, <1>13,
       <1>14, <1>15 DEF ProcessNext, MainLoop
  <1> QED
    BY <1>0, <1>16

\* "after this timeout, child process is killed": never before, provided that
\* every timeout is a multiple of 100 ms or at most 100 ms.
THEOREM NeverKilledEarly ==
    ASSUME Exact
    PROVE  ProcessSpec => []NotKilledEarly
  <1>1. ProcessInit => TimeInv
    BY InitHolds DEF TimeInv, Countdown, NotKilledEarly, ProcessInit
  <1>2. TimeInv /\ [ProcessNext]_processVars => TimeInv'
    BY TimeStep
  <1>3. TimeInv => NotKilledEarly
    BY DEF TimeInv
  <1> QED
    BY <1>1, <1>2, <1>3, PTL DEF ProcessSpec

\* The buffers never overflow and no output is lost.
THEOREM BuffersAlwaysSound == ProcessSpec => []BuffersSound
  <1>1. ProcessTypeOK /\ BuffersFit /\ NothingLost => BuffersSound
    BY DEF BuffersSound
  <1> QED
    BY <1>1, ProcessTypeCorrect, BuffersAlwaysFit, OutputNeverLost, PTL

\* One final code for the callback, and no zombie.
THEOREM AlwaysEndsClean == ProcessSpec => []EndsClean
  <1>1. OneFinalReport /\ NoZombie => EndsClean
    BY DEF EndsClean
  <1> QED
    BY <1>1, ReportedOnce, NeverZombie, PTL

-----------------------------------------------------------------------------
(* The outcome.                                                            *)

\* The timeouts for which the last call of the timer comes one interval after
\* the timeout, so that the call before has looked for the child.
Prompt == \A ms \in Timeouts : ms = 0 \/ (ms > 100 /\ ms % 100 = 0)

\* The reading until end of file takes what a pipe holds.
ReadsPipe == PipeSize <= MaxLoops * ReadMax

\* What the callback has or will have of the output of a stream.
Received(s) == buffer_size[s] + delivered[s]

\* The iterations that are left, once the child is found, read what it wrote.
Reading ==
    /\ \A s \in Stream : pipe[s] <= PipeSize /\ writtenAtEnd[s] <= written[s]
    /\ hook = "live" => \A s \in Stream \ hook_fd : pipe[s] = 0
    /\ hook = "live" /\ loops > 0 =>
         /\ loops <= MaxLoops + 1 /\ child = "reaped"
         /\ \A s \in Stream : writtenAtEnd[s] <= Received(s) + (MaxLoops + 1 - loops) * ReadMax
    /\ child = "running" => loops = 0
    /\ code = "exit" => hook # "live" /\ child = "reaped"
    /\ hook = "none" => writtenAtEnd = Zero /\ timeout = 0

\* No child is left after a kill for the timeout.
KillReaps ==
    /\ hook \in {"none", "live"} => killedAt = -1
    /\ killedAt # -1 => child = "reaped"

\* The last call kills a child that was running at the timeout.
LastCall ==
    hook = "live" =>
        IF timeout = 0 THEN remaining = 0
        ELSE /\ remaining >= 1 /\ next_exec + (remaining - 1) * 100 >= timeout + 100
             /\ timeout > 100
             /\ remaining = 1 => now >= timeout /\ (child = "ended" => endedAt >= timeout)

OutInv == IInv /\ Reading /\ AllOutputDelivered

PromptInv == IInv /\ LastCall /\ KillReaps /\ TimelyExitReported

\* One iteration less, one read less.
LEMMA IterationTakesARead ==
    ASSUME NEW k \in Nat \ {0}
    PROVE  /\ k * ReadMax = (k - 1) * ReadMax + ReadMax /\ (k - 1) * ReadMax \in Nat
  <1>1. ReadMax \in Nat /\ k - 1 \in Nat /\ k = (k - 1) + 1
    BY ProcessAssumption
  <1>2. \A n \in Nat : (n + 1) * ReadMax = n * ReadMax + ReadMax /\ n * ReadMax \in Nat
    BY <1>1
  <1> QED
    BY <1>1, <1>2

\* An iteration takes from each stream what its pipe holds, or a whole read.
LEMMA DrainTakes ==
    ASSUME IInv, DrainLoop, NEW s \in Stream, s \notin hook_fd => pipe[s] = 0
    PROVE  /\ Received(s)' \in Nat
           /\ \/ Received(s)' = Received(s) + pipe[s]
              \/ Received(s)' = Received(s) + ReadMax
           /\ pipe'[s] \in Nat /\ pipe'[s] <= pipe[s]
  <1>1. PICK d \in Buf, p \in Chunks :
           /\ SetBuffers(d) /\ pipe' = p
           /\ \A x \in Stream : p[x] + d.kept[x] + d.got[x] = pipe[x] + buffer_size[x] + delivered[x]
    BY DrainMoves DEF IInv, Moves
  <1>2. buffer_size' = d.kept /\ delivered' = d.got
    BY <1>1 DEF SetBuffers
  <1>3. /\ d.kept[s] \in Nat /\ d.got[s] \in Nat /\ p[s] \in Nat
        /\ pipe[s] \in Nat /\ buffer_size[s] \in Nat /\ delivered[s] \in Nat
    BY DEF IInv, ProcessTypeOK, Buf, Chunks
  <1>4. p[s] = IF s \in Readable THEN pipe[s] - Least(pipe[s], ReadMax) ELSE pipe[s]
    BY <1>1 DEF DrainLoop
  <1>5. Received(s)' = d.kept[s] + d.got[s]
    BY <1>2 DEF Received
  <1>6. s \notin Readable => pipe[s] = 0
    BY <1>3 DEF Readable
  <1>7. ReadMax \in Nat
    BY ProcessAssumption
  <1>8. CASE s \in Readable /\ pipe[s] > ReadMax
    <2>1. p[s] = pipe[s] - ReadMax
      BY <1>3, <1>4, <1>7, <1>8 DEF Least
    <2>2. p[s] + d.kept[s] + d.got[s] = pipe[s] + buffer_size[s] + delivered[s] /\ pipe'[s] = p[s]
      BY <1>1
    <2>3. d.kept[s] + d.got[s] = buffer_size[s] + delivered[s] + ReadMax
      <3>1. pipe[s] = p[s] + ReadMax
        BY <1>3, <1>7, <2>1
      <3>2. p[s] + d.kept[s] + d.got[s] = p[s] + ReadMax + buffer_size[s] + delivered[s]
        BY <2>2, <3>1
      <3>3. PICK q \in Nat, k \in Nat, g \in Nat, b \in Nat, e \in Nat :
               q = p[s] /\ k = d.kept[s] /\ g = d.got[s] /\ b = buffer_size[s] /\ e = delivered[s]
        BY <1>3
      <3>4. q + k + g = q + ReadMax + b + e
        BY <3>2, <3>3
      <3>5. k + g = b + e + ReadMax
        BY <1>7, <3>4
      <3> QED
        BY <3>3, <3>5
    <2>4. p[s] <= pipe[s]
      BY <1>3, <1>7, <2>1
    <2> QED
      BY <1>3, <1>5, <1>7, <2>2, <2>3, <2>4 DEF Received
  <1>9. CASE ~(s \in Readable /\ pipe[s] > ReadMax)
    <2>1. p[s] = 0
      BY <1>3, <1>4, <1>6, <1>7, <1>9 DEF Least
    <2>2. p[s] + d.kept[s] + d.got[s] = pipe[s] + buffer_size[s] + delivered[s] /\ pipe'[s] = p[s]
      BY <1>1
    <2>3. d.kept[s] + d.got[s] = buffer_size[s] + delivered[s] + pipe[s]
      BY <1>3, <2>1, <2>2
    <2> QED
      BY <1>3, <1>5, <2>1, <2>2, <2>3 DEF Received
  <1> QED
    BY <1>8, <1>9

\* The final report gives everything to the callback.
LEMMA ReportGivesAll ==
    ASSUME IInv, SetBuffers(Sent(Buffers)), NEW s \in Stream
    PROVE  delivered'[s] = Received(s) /\ Received(s) \in Nat
  <1>1. /\ buffer_size[s] \in Nat /\ delivered[s] \in Nat
    BY DEF IInv, ProcessTypeOK
  <1>2. delivered'[s] = delivered[s] + buffer_size[s]
    BY DEF SetBuffers, Sent, Buffers
  <1> QED
    BY <1>1, <1>2 DEF Received

LEMMA OutputStep ==
    ASSUME ReadsPipe, OutInv, [ProcessNext]_processVars
    PROVE  OutInv'
  <1> DEFINE Rest == Reading /\ AllOutputDelivered
  <1>0. IInv' /\ IInv
    BY InvariantStep DEF OutInv
  <1>t. /\ \A s \in Stream : /\ pipe[s] \in Nat /\ buffer_size[s] \in Nat /\ delivered[s] \in Nat
                             /\ written[s] \in Nat /\ writtenAtEnd[s] \in Nat
        /\ loops \in Nat /\ MaxLoops \in Nat /\ ReadMax \in Nat /\ PipeSize \in Nat
        /\ pipe \in [Stream -> Nat] /\ written \in [Stream -> Nat]
    BY <1>0, ProcessAssumption DEF IInv, ProcessTypeOK
  <1>z. Zero \in [Stream -> Nat] /\ \A s \in Stream : Zero[s] = 0
    BY DEF Zero
  <1>1. ASSUME NEW ms \in Timeouts, Start(ms)
        PROVE  Rest'
    <2>1. /\ pipe' = Zero /\ written' = Zero /\ writtenAtEnd' = Zero /\ loops' = 0 /\ hook' = "live"
          /\ code' = "none"
      BY <1>1 DEF Start, OutInv, IInv, Fresh, Reading, reportVars
    <2> QED
      BY <1>t, <1>z, <2>1 DEF Reading, AllOutputDelivered
  <1>2. ASSUME StartFails
        PROVE  Rest'
    BY <1>0, <1>2 DEF StartFails, OutInv, IInv, Fresh, Reading, AllOutputDelivered, childVars, timerVars, killVars
  <1>3. ASSUME ChildEnds
        PROVE  Rest'
    <2>1. /\ writtenAtEnd' = written /\ loops = 0 /\ code # "exit" /\ hook # "none"
          /\ UNCHANGED <<hook, written, pipe, hook_fd, loops, code>>
      BY <1>3 DEF ChildEnds, OutInv, IInv, Fresh, Reading, reportVars
    <2>2. child' = "ended"
      BY <1>3 DEF ChildEnds
    <2> QED
      BY <1>t, <2>1, <2>2 DEF OutInv, Reading, AllOutputDelivered
  <1>4. ASSUME OwnerUnhooks
        PROVE  Rest'
    <2>1. /\ pipe' = Zero /\ hook' = "gone" /\ code' = code /\ child' = "reaped"
          /\ writtenAtEnd' = writtenAtEnd /\ written' = written /\ code # "exit"
      BY <1>4 DEF OwnerUnhooks, Unhooked, Idle, OutInv, Reading, childVars, reportVars
    <2> QED
      BY <1>t, <1>z, <2>1 DEF OutInv, Reading, AllOutputDelivered
  <1>5. ASSUME UNCHANGED <<hook, child, endedAt, normal, timeout, written, writtenAtEnd, pipe, hook_fd, loops,
                           code, delivered, buffer_size>>
        PROVE  Rest'
    BY <1>5 DEF OutInv, Reading, AllOutputDelivered, Received
  <1>6. ASSUME Tick
        PROVE  Rest'
    BY <1>5, <1>6 DEF Tick, childVars, timerVars, reportVars, killVars
  <1>7. ASSUME TimeoutReached
        PROVE  Rest'
    <2>1. /\ pipe' = Zero /\ hook' \in {"gone", "crashed"} /\ code' = "error" /\ child' = "reaped"
          /\ writtenAtEnd' = writtenAtEnd /\ written' = written
      BY <1>7 DEF TimeoutReached, Unhooked, childVars
    <2> QED
      BY <1>t, <1>z, <2>1 DEF OutInv, Reading, AllOutputDelivered
  <1>8. ASSUME StillRunning
        PROVE  Rest'
    BY <1>5, <1>8 DEF StillRunning, childVars, reportVars, killVars
  <1>9. ASSUME ChildFound
        PROVE  Rest'
    <2>1. /\ hook = "live" /\ loops' = 1 /\ child' = "reaped"
          /\ UNCHANGED <<hook, written, writtenAtEnd, pipe, hook_fd, code, delivered, buffer_size>>
      BY <1>9 DEF ChildFound, TimerDue, Idle, childVars, reportVars
    <2>2. MaxLoops + 1 - 1 = MaxLoops /\ 1 <= MaxLoops + 1
      BY ProcessAssumption
    <2>3. ASSUME NEW s \in Stream
          PROVE  writtenAtEnd[s] <= Received(s) + (MaxLoops + 1 - 1) * ReadMax
      <3>1. pipe[s] + Received(s) = written[s] /\ writtenAtEnd[s] <= written[s] /\ pipe[s] <= PipeSize
        BY <1>t, <2>1 DEF OutInv, IInv, NothingLost, Reading, Received
      <3>2. MaxLoops * ReadMax \in Nat /\ PipeSize <= MaxLoops * ReadMax /\ Received(s) \in Nat
        BY <1>t DEF ReadsPipe, Received
      <3> QED
        BY <1>t, <2>2, <3>1, <3>2
    <2>4. \A s \in Stream : Received(s)' = Received(s)
      BY <2>1 DEF Received
    <2> QED
      BY <2>1, <2>2, <2>3, <2>4 DEF OutInv, Reading, AllOutputDelivered
  <1>10. ASSUME DrainLoop
         PROVE  Rest'
    <2>1. /\ hook = "live" /\ loops \in 1 .. MaxLoops /\ loops' = loops + 1 /\ child' = child
          /\ UNCHANGED <<written, writtenAtEnd, hook_fd, timeout>> /\ code' \in {"running", code}
          /\ hook' \in {"live", "crashed"}
      BY <1>10 DEF DrainLoop, CallbackResult, childVars
    <2>2. child = "reaped" /\ code # "exit"
      BY <1>t, <2>1 DEF OutInv, Reading
    <2>3. ASSUME NEW s \in Stream
          PROVE  /\ pipe'[s] \in Nat /\ pipe'[s] <= pipe[s]
                 /\ writtenAtEnd[s] <= Received(s)' + (MaxLoops + 1 - (loops + 1)) * ReadMax
      <3>1. s \notin hook_fd => pipe[s] = 0
        BY <2>1 DEF OutInv, Reading
      <3>2. /\ Received(s)' \in Nat
            /\ \/ Received(s)' = Received(s) + pipe[s]
               \/ Received(s)' = Received(s) + ReadMax
            /\ pipe'[s] \in Nat /\ pipe'[s] <= pipe[s]
        BY <1>0, <1>10, <3>1, DrainTakes
      <3>3. /\ writtenAtEnd[s] <= Received(s) + (MaxLoops + 1 - loops) * ReadMax
            /\ pipe[s] + Received(s) = written[s] /\ writtenAtEnd[s] <= written[s]
            /\ Received(s) \in Nat
        BY <1>t, <2>1 DEF OutInv, IInv, NothingLost, Reading, Received
      <3>4. /\ MaxLoops + 1 - loops \in Nat \ {0}
            /\ MaxLoops + 1 - (loops + 1) = (MaxLoops + 1 - loops) - 1
        BY <1>t, <2>1
      <3>5. /\ (MaxLoops + 1 - loops) * ReadMax = (MaxLoops + 1 - (loops + 1)) * ReadMax + ReadMax
            /\ (MaxLoops + 1 - (loops + 1)) * ReadMax \in Nat
        BY <3>4, IterationTakesARead
      <3> QED
        BY <1>t, <3>2, <3>3, <3>5
    <2>4. \A s \in Stream : s \notin hook_fd => pipe'[s] = 0
      BY <1>t, <2>1, <2>3 DEF OutInv, Reading
    <2>5. \A s \in Stream : pipe'[s] <= PipeSize
      BY <1>t, <2>3 DEF OutInv, Reading
    <2>6. loops' <= MaxLoops + 1
      BY <1>t, <2>1
    <2> QED
      BY <2>1, <2>2, <2>3, <2>4, <2>5, <2>6 DEF OutInv, Reading, AllOutputDelivered
  <1>11. ASSUME Drained
         PROVE  Rest'
    <2>1. /\ hook = "live" /\ loops > 0 /\ (loops > MaxLoops \/ PollReady = {})
          /\ pipe' = Zero /\ hook' \in {"gone", "crashed"} /\ child' = "reaped"
          /\ UNCHANGED <<written, writtenAtEnd, timeout>> /\ SetBuffers(Sent(Buffers))
      BY <1>11 DEF Drained, Unhooked, childVars
    <2>2. ASSUME NEW s \in Stream
          PROVE  delivered'[s] >= writtenAtEnd[s]
      <3>1. delivered'[s] = Received(s) /\ Received(s) \in Nat
        BY <1>0, <2>1, ReportGivesAll
      <3>2. CASE loops > MaxLoops
        <4>1. loops = MaxLoops + 1 /\ writtenAtEnd[s] <= Received(s) + (MaxLoops + 1 - loops) * ReadMax
          BY <1>t, <2>1, <3>2 DEF OutInv, Reading
        <4>2. (MaxLoops + 1 - loops) * ReadMax = 0
          BY <1>t, <4>1
        <4> QED
          BY <1>t, <3>1, <4>1, <4>2
      <3>3. CASE PollReady = {}
        <4>1. pipe[s] = 0
          BY <1>t, <2>1, <3>3 DEF PollReady, Readable, OutInv, Reading
        <4>2. pipe[s] + Received(s) = written[s] /\ writtenAtEnd[s] <= written[s]
          BY <1>t, <2>1 DEF OutInv, IInv, NothingLost, Reading, Received
        <4> QED
          BY <1>t, <3>1, <4>1, <4>2
      <3> QED
        BY <2>1, <3>2, <3>3
    <2> QED
      BY <1>t, <1>z, <2>1, <2>2 DEF OutInv, Reading, AllOutputDelivered
  <1>12. ASSUME NEW s \in Stream, FdReads(s)
         PROVE  Rest'
    <2>1. /\ hook = "live" /\ loops = 0 /\ loops' = 0 /\ child' = child
          /\ UNCHANGED <<written, writtenAtEnd, hook_fd, timeout>> /\ code' \in {"running", code}
          /\ hook' \in {"live", "crashed"} /\ s \in hook_fd
          /\ pipe' = [pipe EXCEPT ![s] = @ - Least(pipe[s], ReadMax)]
      BY <1>12 DEF FdReads, Idle, CallbackResult, childVars
    <2>2. \A x \in Stream : pipe'[x] <= pipe[x] /\ pipe'[x] \in Nat
      BY <1>t, <2>1 DEF Least
    <2>3. \A x \in Stream : pipe'[x] <= PipeSize /\ (x \notin hook_fd => pipe'[x] = 0)
      BY <1>t, <2>1, <2>2 DEF OutInv, Reading
    <2> QED
      BY <2>1, <2>3 DEF OutInv, Reading, AllOutputDelivered
  <1>13. ASSUME NEW s \in Stream, FdEof(s)
         PROVE  Rest'
    BY <1>13 DEF FdEof, Idle, OutInv, Reading, AllOutputDelivered, Received, childVars, reportVars
  <1>14. ASSUME NEW s \in Stream, Write(s)
         PROVE  Rest'
    <2>1. /\ written' = [written EXCEPT ![s] = @ + 1]
          /\ pipe' = [pipe EXCEPT ![s] = IF s \in hook_fd THEN @ + 1 ELSE @]
          /\ s \in hook_fd => pipe[s] < PipeSize
          /\ UNCHANGED <<hook, child, hook_fd, loops, code, delivered, buffer_size, writtenAtEnd, timeout>>
      BY <1>14 DEF Write, reportVars
    <2>2. \A x \in Stream : written'[x] >= written[x]
      BY <1>t, <2>1
    <2>3. \A x \in Stream : pipe'[x] <= PipeSize /\ (x \notin hook_fd => pipe'[x] = pipe[x])
      BY <1>t, <2>1 DEF OutInv, Reading
    <2>4. \A x \in Stream : writtenAtEnd[x] <= written'[x]
      BY <1>0, <1>t, <2>2 DEF IInv, ProcessTypeOK, OutInv, Reading
    <2>5. \A x \in Stream : Received(x)' = Received(x)
      BY <2>1 DEF Received
    <2> QED
      BY <2>1, <2>3, <2>4, <2>5 DEF OutInv, Reading, AllOutputDelivered
  <1>15. ASSUME \E s \in Stream : CloseStream(s)
        PROVE  Rest'
    BY <1>5, <1>15 DEF CloseStream, timerVars, reportVars, killVars
  <1>16. ASSUME UNCHANGED processVars
        PROVE  Rest'
    BY <1>5, <1>16 DEF processVars
  <1>17. Rest'
    BY <1>1, <1>2, <1>3, <1>4, <1>6, <1>7, <1>8, <1>9, <1>10, <1>11, <1>12, <1>13,
       <1>14, <1>15, <1>16 DEF ProcessNext, MainLoop
  <1> QED
    BY <1>0, <1>17 DEF OutInv

\* All the output of a child is delivered before its exit code, provided that
\* the reading until end of file takes what a pipe holds.
THEOREM OutputAlwaysDelivered ==
    ASSUME ReadsPipe
    PROVE  ProcessSpec => []AllOutputDelivered
  <1>1. ProcessInit => OutInv
    <2> SUFFICES ASSUME ProcessInit PROVE Reading /\ AllOutputDelivered
      BY InitHolds DEF OutInv
    <2>1. \A s \in Stream : Zero[s] = 0
      BY DEF Zero
    <2> QED
      BY <2>1, ProcessAssumption DEF ProcessInit, Reading, AllOutputDelivered
  <1>2. OutInv /\ [ProcessNext]_processVars => OutInv'
    BY OutputStep
  <1>3. OutInv => AllOutputDelivered
    BY DEF OutInv
  <1> QED
    BY <1>1, <1>2, <1>3, PTL DEF ProcessSpec

LEMMA PromptStep ==
    ASSUME Prompt, PromptInv, [ProcessNext]_processVars
    PROVE  PromptInv'
  <1> DEFINE Rest == LastCall /\ KillReaps /\ TimelyExitReported
  <1>0. IInv' /\ IInv
    BY InvariantStep DEF PromptInv
  <1>t. /\ next_exec \in Nat /\ timeout \in Nat /\ now \in Nat /\ remaining \in Nat /\ endedAt \in Nat
        /\ Step \in Nat
    BY <1>0, ProcessAssumption DEF IInv, ProcessTypeOK
  <1> USE DEF PromptInv, LastCall, KillReaps, TimelyExitReported
  <1>1. ASSUME NEW ms \in Timeouts, Start(ms)
        PROVE  Rest'
    <2>1. /\ ms \in Nat /\ (ms = 0 \/ (ms > 100 /\ ms % 100 = 0))
          /\ timeout' = ms /\ killedAt' = -1 /\ now = 0
          /\ child' = "running"
          /\ next_exec' = now + Interval(ms) /\ remaining' = TimerMaxCalls(ms)
      BY <1>0, <1>1, ProcessAssumption DEF Start, killVars, Prompt, IInv, Fresh
    <2>2. CASE ms = 0
      BY <2>1, <2>2 DEF TimerMaxCalls
    <2>3. CASE ms > 100
      <3>1. TimerMaxCalls(ms) = (ms \div 100) + 1 /\ Interval(ms) = 100
        <4>1. ms % 100 = 0 /\ ms # 0 /\ ms \notin 1 .. 100
          BY <2>1, <2>3
        <4>2. Interval(ms) = 100
          BY <4>1 DEF Interval
        <4>3. TimerMaxCalls(ms) = (ms \div 100) + (IF ms % 100 = 0 THEN 1 ELSE 0)
          BY <2>3, <4>1 DEF TimerMaxCalls
        <4> QED
          BY <4>1, <4>2, <4>3
      <3>2. (ms \div 100) \in Nat /\ (ms \div 100) * 100 = ms /\ ms \div 100 >= 1
        BY <2>1, <2>3
      <3>3. remaining' = (ms \div 100) + 1 /\ next_exec' = 100
        BY <2>1, <3>1
      <3>4. remaining' # 1 /\ remaining' >= 1
        BY <3>2, <3>3
      <3>5. next_exec' + (remaining' - 1) * 100 >= timeout' + 100
        BY <2>1, <3>2, <3>3
      <3> QED
        BY <2>1, <2>3, <3>4, <3>5
    <2> QED
      BY <2>1, <2>2, <2>3
  <1>2. ASSUME StartFails
        PROVE  Rest'
    BY <1>2 DEF StartFails, childVars, killVars
  <1>3. ASSUME ChildEnds
        PROVE  Rest'
    <2>1. /\ child = "running" /\ child' = "ended" /\ endedAt' = now
          /\ UNCHANGED <<now, timeout, hook, next_exec, remaining, killedAt, killedPid>>
      BY <1>3 DEF ChildEnds, timerVars, killVars
    <2> QED
      BY <1>t, <2>1
  <1>4. ASSUME OwnerUnhooks
        PROVE  Rest'
    BY <1>4 DEF OwnerUnhooks, Unhooked, Idle, childVars
  <1>5. ASSUME UNCHANGED <<timeout, endedAt, next_exec, remaining, killedAt, killedPid>>,
               hook' = hook \/ (hook = "live" /\ hook' = "crashed"), child' \in {child, "reaped"}, now' >= now, now' \in Nat
        PROVE  Rest'
    BY <1>t, <1>5
  <1>6. ASSUME Tick
        PROVE  Rest'
    BY <1>t, <1>5, <1>6 DEF Tick, childVars, timerVars, killVars
  <1>7. ASSUME TimeoutReached
        PROVE  Rest'
    <2>1. now >= next_exec /\ remaining = 1 /\ hook = "live"
      BY <1>7 DEF TimeoutReached, TimerDue, Idle
    <2>2. /\ killedAt' = now /\ killedPid' = child /\ hook' \in {"gone", "crashed"}
          /\ child' = "reaped" /\ UNCHANGED <<timeout, endedAt>>
      BY <1>7 DEF TimeoutReached, Unhooked, childVars
    <2>3. now >= timeout /\ (child = "ended" => endedAt >= timeout)
      BY <1>t, <2>1
    <2> QED
      BY <2>2, <2>3
  <1>8. ASSUME StillRunning
        PROVE  Rest'
    <2>1. /\ hook = "live" /\ now >= next_exec /\ remaining # 1 /\ child = "running" /\ child' = child
          /\ next_exec' = next_exec + Interval(timeout)
          /\ remaining' = (IF remaining > 0 THEN remaining - 1 ELSE 0)
          /\ UNCHANGED <<now, hook, timeout, endedAt, killedAt, killedPid>>
      BY <1>8 DEF StillRunning, TimerDue, Idle, childVars, killVars
    <2>2. CASE timeout = 0
      BY <1>t, <2>1, <2>2
    <2>3. CASE timeout # 0
      <3>1. Interval(timeout) = 100
        BY <1>t, <2>1, <2>3 DEF Interval
      <3>2. remaining' = remaining - 1 /\ remaining' >= 1 /\ next_exec' = next_exec + 100
        BY <1>t, <2>1, <2>3, <3>1
      <3>3. next_exec' + (remaining' - 1) * 100 >= timeout + 100
        BY <1>t, <2>1, <2>3, <3>2
      <3>4. remaining' = 1 => now >= timeout
        BY <1>t, <2>1, <2>3, <3>2
      <3> QED
        BY <2>1, <2>3, <3>2, <3>3, <3>4
    <2> QED
      BY <2>2, <2>3
  <1>9. ASSUME ChildFound
        PROVE  Rest'
    BY <1>t, <1>5, <1>9 DEF ChildFound, childVars, timerVars, killVars
  <1>10. ASSUME DrainLoop
         PROVE  Rest'
    BY <1>t, <1>5, <1>10 DEF DrainLoop, CallbackResult, childVars, timerVars, killVars
  <1>11. ASSUME Drained
         PROVE  Rest'
    BY <1>11 DEF Drained, Unhooked, childVars
  <1>12. ASSUME NEW s \in Stream, FdReads(s) \/ FdEof(s) \/ Write(s) \/ CloseStream(s)
         PROVE  Rest'
    BY <1>t, <1>5, <1>12 DEF FdReads, FdEof, Write, CloseStream, Idle, CallbackResult, childVars,
                             timerVars, killVars
  <1>13. ASSUME UNCHANGED processVars
         PROVE  Rest'
    BY <1>t, <1>5, <1>13 DEF processVars
  <1>14. Rest'
    BY <1>1, <1>2, <1>3, <1>4, <1>6, <1>7, <1>8, <1>9, <1>10, <1>11, <1>12, <1>13 DEF ProcessNext, MainLoop
  <1> QED
    BY <1>0, <1>14

\* A child that ends before its timeout is not taken for one that lasts, provided
\* that every timeout is a multiple of 100 ms, of more than 100 ms (or none).
THEOREM ExitAlwaysInTime ==
    ASSUME Prompt
    PROVE  ProcessSpec => []TimelyExitReported
  <1>1. ProcessInit => PromptInv
    BY InitHolds DEF PromptInv, LastCall, KillReaps, TimelyExitReported, ProcessInit
  <1>2. PromptInv /\ [ProcessNext]_processVars => PromptInv'
    BY PromptStep
  <1>3. PromptInv => TimelyExitReported
    BY DEF PromptInv
  <1> QED
    BY <1>1, <1>2, <1>3, PTL DEF ProcessSpec

\* What the callback is told of the end of a process is true.
THEOREM OutcomeAlwaysTrue ==
    ASSUME Prompt, ReadsPipe
    PROVE  ProcessSpec => []OutcomeTrue
  <1>1. Exact
    BY DEF Exact, Prompt
  <1>2. AllOutputDelivered /\ TimelyExitReported /\ NotKilledEarly => OutcomeTrue
    BY DEF OutcomeTrue
  <1> QED
    BY <1>1, <1>2, OutputAlwaysDelivered, ExitAlwaysInTime, NeverKilledEarly, PTL
=============================================================================
