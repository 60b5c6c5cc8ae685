----------------------------- MODULE CoreProofs -----------------------------
(***************************************************************************)
(* Proofs about MainLoop, then about ConfigFile: timers and descriptors for *)
(* any hooks, clocks and callbacks; the values of the options, the file     *)
(* after a crash, and what a start and a reload read, for every set of      *)
(* options, every range, any width of the integers and any number of        *)
(* changes, saves, edits and crashes.                                       *)
(***************************************************************************)
EXTENDS MainLoop, ConfigFile, FiniteSetTheorems, SequenceTheorems, WellFoundedInduction, TLAPS

Timer  == [id : TimerId, kind : Kind, due : Int, remaining : Nat, deleted : BOOLEAN]
FdHook == [id : Fd, deleted : BOOLEAN]

-----------------------------------------------------------------------------
(* The inductive invariants.                                               *)

\* The variables that are not lists.
Scalars ==
    /\ pc \in Place /\ ops \in 0 .. MaxOps
    /\ late \in Int /\ skew \in Int /\ sleep \in 0 .. MaxSleep /\ second \in 0 .. Align - 1
    /\ allocated \in Nat
    /\ desc \in [Fd -> [state : {"closed", "idle", "readable"}, polled : BOOLEAN]]
    /\ served \in Ids \cup {Nobody}
    /\ jumps \in 0 .. MaxJumps /\ slow \in 0 .. MaxSlow

\* The lists, the cursor of the loop in progress, and the hook whose callback runs.
Lists ==
    /\ timers \in Seq(Timer) /\ fds \in Seq(FdHook) /\ pollfd \in Seq(Fd \cup {0})
    /\ cursor \in Nat
    /\ pc \in {"timers", "timer_cb"} => cursor <= Len(timers) + 1
    /\ pc \in {"fds", "fd_cb"} => cursor <= Len(fds) + 1
    /\ pc \in {"top", "build", "poll"} => cursor = 0
    /\ pc = "timer_cb" => running \in 1 .. Len(timers)
    /\ pc = "fd_cb" => running \in 1 .. Len(fds)
    /\ pc \notin {"timer_cb", "fd_cb"} => running = 0

\* A timer that was called was due, and stays so if its callback is slow; the
\* deleted timers are gone between two loops.
Due ==
    /\ pc = "timer_cb" => timers[running].due <= -late
    /\ pc \in {"timers", "timer_cb"} => late = skew
    /\ pc \in {"top", "build", "poll"} => \A i \in 1 .. Len(timers) : ~timers[i].deleted

Sound == Scalars /\ Lists /\ Due

\* The array of poll() has one entry for each hook, and is read in one turn.
Arrays ==
    /\ allocated = Len(fds)
    /\ Len(pollfd) <= allocated
    /\ pc \notin {"poll", "fds", "fd_cb"} => pollfd = <<>>

\* The clock, before it is set: it differs from the time of the last check by
\* the sleep and the slow callbacks.
Clock ==
    jumps = 0 =>
        /\ skew \in 0 .. MaxSleep + slow
        /\ pc = "poll" => skew + sleep <= MaxSleep
        /\ \A i \in 1 .. Len(timers) : timers[i].due <= timers[i].kind.interval

\* After the clock was set: a timer is late by less than what is not noticed, or
\* the change has still to be noticed.
PutOff ==
    jumps <= 1 =>
        \A i \in 1 .. Len(timers) :
            \/ timers[i].due < timers[i].kind.interval + Skew + MaxSleep + slow
            \/ timers[i].due <= timers[i].kind.interval + MaxSleep + slow - skew

\* The timers of a list that a loop has passed, when its cursor is there.
Passed(i) == cursor = 0 \/ i < cursor

\* Without disturbance: no timer is late, those the loop has passed are not due,
\* and the sleep ends before the next one.
Undisturbed ==
    jumps = 0 /\ slow = 0 =>
        /\ skew <= MaxSleep
        /\ pc \in {"timers", "timer_cb", "build"} => skew = 0
        /\ pc = "timer_cb" => Passed(running)
        /\ \A i \in 1 .. Len(timers) : ~timers[i].deleted =>
              /\ timers[i].due >= 0
              /\ pc = "poll" => sleep <= timers[i].due
              /\ pc = "build" => timers[i].due >= 1
              /\ pc \in {"timers", "timer_cb"} /\ i # running /\ Passed(i) => timers[i].due >= 1

\* The callers of hook_timer that align a timer give it an interval that is a
\* multiple of its alignment (gui_bar_item_timer: 1 s and 1 s,
\* config_day_change_timer: 60 s and 60 s).
Regular == \A kind \in Kind : kind.align_second > 0 => kind.interval % kind.align_second = 0

-----------------------------------------------------------------------------
(* Numbers and lists.                                                      *)

\* The least element of a set of numbers: "<" on Nat is well-founded.
LEMMA LeastNumber ==
    ASSUME NEW T \in SUBSET Nat, T # {}
    PROVE  \E x \in T : \A y \in T : x <= y
<1> DEFINE R == OpToRel(<, Nat)
<1>1. IsWellFoundedOn(R, Nat)
  BY NatLessThanWellFounded
<1>2. \A x, y \in Nat : y < x => <<y, x>> \in R
  BY DEF OpToRel
<1> HIDE DEF R
<1>3. PICK x \in T : \A y \in T : ~ (<<y, x>> \in R)
  BY <1>1, WFMin
<1>4. \A y \in T : x <= y
  <2> TAKE y \in T
  <2>1. ~ (y < x)
    BY <1>2, <1>3
  <2> QED BY <2>1
<1> QED BY <1>4

\* A multiple of a number leaves no remainder, and what leaves none is one.
LEMMA Division ==
    ASSUME NEW x \in Int, NEW a \in Nat \ {0}
    PROVE  /\ x % a \in 0 .. a - 1 /\ x \div a \in Int
           /\ x = (a * (x \div a)) + (x % a)
OBVIOUS

LEMMA SmallMultiple ==
    ASSUME NEW q \in Int, NEW a \in Nat \ {0}, a * q \in 0 .. a - 1
    PROVE  q = 0
<1>1. CASE q >= 1
  <2>1. a * q - a = a * (q - 1) /\ a * (q - 1) >= 0
    BY <1>1, SMT
  <2> QED BY <2>1, SMT
<1>2. CASE q <= -1
  <2>1. a * q + a = a * (q + 1) /\ a * (q + 1) <= 0
    BY <1>2, SMT
  <2> QED BY <2>1, SMT
<1> QED BY <1>1, <1>2

LEMMA MultipleDivides ==
    ASSUME NEW a \in Nat \ {0}, NEW q \in Int
    PROVE  (a * q) % a = 0
<1> DEFINE x == a * q
<1>1. x \in Int
  OBVIOUS
<1>2. x % a \in 0 .. a - 1 /\ x \div a \in Int /\ x = (a * (x \div a)) + (x % a)
  BY <1>1, Division
<1>3. a * (q - (x \div a)) = x % a /\ q - (x \div a) \in Int
  BY <1>2, SMT
<1>4. q - (x \div a) = 0
  BY <1>2, <1>3, SmallMultiple
<1>5. a * (q - (x \div a)) = 0
  BY <1>4
<1> QED BY <1>3, <1>5

\* "Is a multiple of": the form in which sums are computed.
LEMMA Divides ==
    ASSUME NEW x \in Int, NEW a \in Nat \ {0}
    PROVE  x % a = 0 <=> \E q \in Int : x = a * q
<1>1. ASSUME x % a = 0
      PROVE  \E q \in Int : x = a * q
  <2>1. x \div a \in Int /\ x = a * (x \div a)
    BY <1>1, Division
  <2> QED BY <2>1
<1>2. ASSUME NEW q \in Int, x = a * q
      PROVE  x % a = 0
  BY <1>2, MultipleDivides
<1> QED BY <1>1, <1>2

\* A sum of multiples is one, and so is a difference.
LEMMA SumOfMultiples ==
    ASSUME NEW x \in Int, NEW y \in Int, NEW a \in Nat \ {0}, x % a = 0, y % a = 0
    PROVE  (x + y) % a = 0 /\ (x - y) % a = 0
<1>1. PICK q \in Int : x = a * q
  BY Divides
<1>2. PICK r \in Int : y = a * r
  BY Divides
<1>3. x + y = a * (q + r) /\ x - y = a * (q - r)
  BY <1>1, <1>2, SMT
<1>4. q + r \in Int /\ q - r \in Int /\ x + y \in Int /\ x - y \in Int
  OBVIOUS
<1> QED BY <1>3, <1>4, Divides

\* A remainder by a multiple of "a" is the number itself, but for multiples of "a".
LEMMA RemainderOfMultiple ==
    ASSUME NEW x \in Int, NEW a \in Nat \ {0}, NEW b \in Nat \ {0}, b % a = 0
    PROVE  ((x % b) - x) % a = 0
<1>0. b \in Int
  OBVIOUS
<1>1. PICK q \in Int : b = a * q
  BY <1>0, Divides
<1>2. x % b \in Int /\ x \div b \in Int /\ x = (b * (x \div b)) + (x % b)
  BY Division
<1>3. (x % b) - x = 0 - (b * (x \div b))
  BY <1>2
<1>4. 0 - (b * (x \div b)) = a * (0 - (q * (x \div b)))
  <2>1. ASSUME NEW d \in Int
        PROVE  0 - ((a * q) * d) = a * (0 - (q * d))
    BY SMT
  <2> QED BY <1>1, <1>2, <2>1
<1>5. (x % b) - x \in Int /\ 0 - (q * (x \div b)) \in Int
  BY <1>2
<1> QED BY <1>3, <1>4, <1>5, Divides

-----------------------------------------------------------------------------
(* The lists of hooks.                                                     *)

\* The n-th index of a set is one of its elements: the number of elements up to
\* an index grows by at most one from an index to the next.
LEMMA NthIsOne ==
    ASSUME NEW m \in Nat, NEW indexes \in SUBSET (1 .. m), NEW n \in 1 .. Cardinality(indexes)
    PROVE  Nth(indexes, n) \in indexes
<1> DEFINE Upto(i) == {j \in indexes : j <= i}
           Reached == {i \in 1 .. m : Cardinality(Upto(i)) >= n}
<1>0. \A j \in indexes : j \in Nat /\ 1 <= j /\ j <= m
  OBVIOUS
<1>1. IsFiniteSet(indexes) /\ Cardinality(indexes) \in Nat
  <2>1. IsFiniteSet(1 .. m)
    BY FS_Interval
  <2>2. IsFiniteSet(indexes)
    BY <2>1, FS_Subset
  <2> QED BY <2>2, FS_CardinalityType
<1>2. ASSUME NEW i \in Int
      PROVE  IsFiniteSet(Upto(i)) /\ Cardinality(Upto(i)) \in Nat
  <2>1. Upto(i) \in SUBSET indexes
    OBVIOUS
  <2>2. IsFiniteSet(Upto(i))
    BY <1>1, <2>1, FS_Subset
  <2> QED BY <2>2, FS_CardinalityType
<1>3. \E i \in Reached : \A j \in Reached : i <= j
  <2>1. Upto(m) = indexes
    BY <1>0
  <2>2. m \in 1 .. m
    <3>1. m # 0
      <4> SUFFICES ASSUME m = 0 PROVE FALSE
        OBVIOUS
      <4>1. indexes = {}
        OBVIOUS
      <4> QED BY <4>1, FS_EmptySet
    <3> QED BY <3>1
  <2>3. m \in Reached
    BY <2>1, <2>2, <1>1
  <2>4. Reached \in SUBSET Nat
    OBVIOUS
  <2> HIDE DEF Reached
  <2> QED BY <2>3, <2>4, LeastNumber
<1>4. PICK i \in Reached : \A j \in Reached : i <= j
  BY <1>3
<1>i. i \in 1 .. m /\ i \in Nat /\ i - 1 \in Int /\ Cardinality(Upto(i)) >= n
  OBVIOUS
<1>5. Cardinality(Upto(i - 1)) < n
  <2>1. CASE i = 1
    <3>1. \A j \in indexes : ~ (j <= i - 1)
      BY <1>0, <2>1
    <3>2. Upto(i - 1) = {}
      BY <3>1
    <3> QED BY <1>i, <3>2, FS_EmptySet
  <2>2. CASE i # 1
    <3>1. i - 1 \in 1 .. m /\ ~ (i <= i - 1)
      BY <1>i, <2>2
    <3>2. i - 1 \notin Reached
      <4> HIDE DEF Reached
      <4> QED BY <1>4, <3>1
    <3>3. ~ (Cardinality(Upto(i - 1)) >= n)
      <4> HIDE DEF Upto
      <4> QED BY <3>1, <3>2
    <3>4. Cardinality(Upto(i - 1)) \in Nat
      <4> HIDE DEF Upto
      <4> QED BY <1>2, <1>i
    <3> HIDE DEF Upto
    <3> QED BY <3>3, <3>4
  <2> QED BY <2>1, <2>2
<1>6. i \in indexes /\ Cardinality(Upto(i)) = n
  <2>0. Cardinality(Upto(i)) \in Nat /\ Cardinality(Upto(i - 1)) \in Nat /\ Cardinality(Upto(i)) >= n
        /\ IsFiniteSet(Upto(i - 1))
    <3> HIDE DEF Upto
    <3> QED BY <1>2, <1>i
  <2>1. CASE i \in indexes
    <3>1. Upto(i) = Upto(i - 1) \cup {i}
      <4>1. \A j \in indexes : j <= i <=> j <= i - 1 \/ j = i
        BY <1>0, <1>i
      <4> QED BY <2>1, <4>1
    <3>2. Cardinality(Upto(i)) <= Cardinality(Upto(i - 1)) + 1
      <4> HIDE DEF Upto
      <4>1. Cardinality(Upto(i - 1) \cup {i}) = IF i \in Upto(i - 1) THEN Cardinality(Upto(i - 1))
                                               ELSE Cardinality(Upto(i - 1)) + 1
        BY <2>0, FS_AddElement
      <4> QED BY <3>1, <4>1, <2>0
    <3> HIDE DEF Upto
    <3> QED BY <2>0, <2>1, <3>2, <1>5
  <2>2. CASE i \notin indexes
    <3>1. Upto(i) = Upto(i - 1)
      <4>1. \A j \in indexes : j <= i <=> j <= i - 1
        BY <1>0, <1>i, <2>2
      <4> QED BY <4>1
    <3> HIDE DEF Upto
    <3> QED BY <3>1, <2>0, <1>5
  <2> QED BY <2>1, <2>2
<1>7. \E k \in indexes : Cardinality({j \in indexes : j <= k}) = n
  BY <1>6
<1> QED BY <1>7 DEF Nth

\* What is selected from a list are hooks of it.
LEMMA SelectedFacts ==
    ASSUME NEW S, NEW list \in Seq(S), NEW indexes \in SUBSET (1 .. Len(list))
    PROVE  /\ Selected(list, indexes) \in Seq(S)
           /\ Len(Selected(list, indexes)) \in 0 .. Len(list)
           /\ \A n \in 1 .. Len(Selected(list, indexes)) :
                 \E i \in indexes : Selected(list, indexes)[n] = list[i]
<1>1. Cardinality(indexes) \in Nat /\ Cardinality(indexes) <= Len(list)
  <2>1. IsFiniteSet(1 .. Len(list)) /\ Cardinality(1 .. Len(list)) = Len(list)
    <3>1. Len(list) \in Nat
      OBVIOUS
    <3>2. 1 \in Int /\ Len(list) \in Int
      BY <3>1
    <3>3. /\ IsFiniteSet(1 .. Len(list))
          /\ Cardinality(1 .. Len(list)) = IF 1 > Len(list) THEN 0 ELSE Len(list) - 1 + 1
      BY <3>2, FS_Interval
    <3> QED BY <3>1, <3>3
  <2>2. IsFiniteSet(indexes) /\ Cardinality(indexes) <= Len(list)
    BY <2>1, FS_Subset
  <2> QED BY <2>2, FS_CardinalityType
<1> DEFINE s == [n \in 1 .. Cardinality(indexes) |-> list[Nth(indexes, n)]]
<1>2. ASSUME NEW n \in 1 .. Cardinality(indexes)
      PROVE  Nth(indexes, n) \in indexes /\ list[Nth(indexes, n)] \in S
  <2>1. Len(list) \in Nat
    OBVIOUS
  <2>2. Nth(indexes, n) \in indexes
    BY <2>1, NthIsOne
  <2>3. Nth(indexes, n) \in 1 .. Len(list)
    BY <2>2
  <2> QED BY <2>2, <2>3
<1>3. s \in Seq(S) /\ Len(s) = Cardinality(indexes)
  <2>1. s \in [1 .. Cardinality(indexes) -> S]
    BY <1>2
  <2> QED BY <1>1, <2>1
<1>4. \A n \in 1 .. Cardinality(indexes) : s[n] = list[Nth(indexes, n)]
  OBVIOUS
<1>5. Selected(list, indexes) = s
  BY DEF Selected
<1>6. \A n \in 1 .. Len(s) : \E i \in indexes : s[n] = list[i]
  <2> HIDE DEF s
  <2> QED BY <1>2, <1>3, <1>4
<1>7. Len(s) \in 0 .. Len(list)
  <2> HIDE DEF s
  <2>1. Len(list) \in Nat
    OBVIOUS
  <2> QED BY <1>1, <1>3, <2>1
<1> HIDE DEF s
<1> QED BY <1>3, <1>5, <1>6, <1>7

\* hook_exec_end leaves the hooks that are not deleted.
LEMMA PurgedFacts ==
    ASSUME NEW S, NEW list \in Seq(S)
    PROVE  /\ Purged(list) \in Seq(S)
           /\ Len(Purged(list)) \in 0 .. Len(list)
           /\ \A n \in 1 .. Len(Purged(list)) :
                 \E i \in 1 .. Len(list) : Purged(list)[n] = list[i] /\ ~list[i].deleted
<1> DEFINE kept == {i \in 1 .. Len(list) : ~list[i].deleted}
<1>1. kept \in SUBSET (1 .. Len(list)) /\ \A i \in kept : ~list[i].deleted
  OBVIOUS
<1>2. Purged(list) = Selected(list, kept)
  BY DEF Purged
<1> HIDE DEF kept
<1> QED BY <1>1, <1>2, SelectedFacts

\* The hook a loop calls next is the first that it may call from its cursor on.
LEMMA FirstFromFacts ==
    ASSUME NEW S, NEW list \in Seq(S), NEW from \in Nat, NEW hooks
    PROVE  /\ FirstFrom(list, from, hooks) \in 0 .. Len(list)
           /\ FirstFrom(list, from, hooks) # 0 =>
                 /\ from # 0 /\ FirstFrom(list, from, hooks) >= from
                 /\ ~list[FirstFrom(list, from, hooks)].deleted
                 /\ list[FirstFrom(list, from, hooks)] \in hooks
           /\ \A j \in 1 .. Len(list) :
                 from # 0 /\ j >= from /\ ~list[j].deleted /\ list[j] \in hooks
                    => FirstFrom(list, from, hooks) # 0 /\ FirstFrom(list, from, hooks) <= j
<1> DEFINE found == {i \in 1 .. Len(list) : from # 0 /\ i >= from /\ ~list[i].deleted /\ list[i] \in hooks}
           first == CHOOSE i \in found : \A j \in found : i <= j
<1>1. FirstFrom(list, from, hooks) = IF found = {} THEN 0 ELSE first
  BY DEF FirstFrom
<1>2. CASE found = {}
  BY <1>1, <1>2
<1>3. CASE found # {}
  <2>1. found \in SUBSET Nat
    OBVIOUS
  <2>2. first \in found /\ \A j \in found : first <= j
    <3> HIDE DEF found
    <3> QED BY <1>3, <2>1, LeastNumber
  <2> HIDE DEF first
  <2> QED BY <1>1, <1>3, <2>2
<1> QED BY <1>2, <1>3

-----------------------------------------------------------------------------
(* Timers.                                                                 *)

LEMMA KindFacts ==
    ASSUME NEW kind \in Kind
    PROVE  /\ kind.interval \in Nat \ {0} /\ kind.max_calls \in Nat
           /\ kind.align_second \in 0 .. Align /\ kind.align_second \in Nat
           /\ kind.align_second > 0 => Align % kind.align_second = 0
<1>1. kind \in [interval : Nat \ {0}, align_second : 0 .. Align, max_calls : Nat]
  BY ConstantsAssumption
<1>2. Align \in Nat
  BY ConstantsAssumption
<1>3. kind.align_second > 0 => Align % kind.align_second = 0
  BY ConstantsAssumption
<1> QED BY <1>1, <1>2, <1>3

LEMMA TimerFacts ==
    ASSUME NEW list \in Seq(Timer), NEW i \in 1 .. Len(list)
    PROVE  /\ list[i] \in Timer /\ list[i].kind \in Kind /\ list[i].due \in Int
           /\ list[i].deleted \in BOOLEAN /\ list[i].remaining \in Nat /\ list[i].id \in TimerId
<1>1. list[i] \in Timer
  OBVIOUS
<1> QED BY <1>1 DEF Timer

\* The first call is an interval away, less what aligns it.
LEMMA FirstCallFacts ==
    ASSUME NEW kind \in Kind, second \in 0 .. Align - 1
    PROVE  /\ FirstCall(kind) \in Int /\ FirstCall(kind) <= kind.interval
           /\ kind.align_second = 0 => FirstCall(kind) = kind.interval
           /\ kind.align_second > 0 => FirstCall(kind) > kind.interval - kind.align_second
<1>1. kind.interval \in Int /\ kind.align_second \in Nat
  BY KindFacts
<1>2. second \in Int
  BY ConstantsAssumption
<1>3. CASE kind.align_second = 0
  BY <1>1, <1>3 DEF FirstCall
<1>4. CASE kind.align_second # 0
  <2>1. second % kind.align_second \in 0 .. kind.align_second - 1
    BY <1>1, <1>2, <1>4, Division
  <2> QED BY <1>1, <1>4, <2>1 DEF FirstCall
<1> QED BY <1>3, <1>4

\* An interval that is a multiple of the alignment leaves a second at least.
LEMMA FirstCallLater ==
    ASSUME Regular, NEW kind \in Kind, second \in 0 .. Align - 1
    PROVE  FirstCall(kind) >= 1
<1>1. kind.interval \in Nat \ {0} /\ kind.align_second \in Nat
  BY KindFacts
<1>2. FirstCall(kind) \in Int
  BY FirstCallFacts
<1>3. CASE kind.align_second = 0
  BY <1>1, <1>3, FirstCallFacts
<1>4. CASE kind.align_second # 0
  <2>1. kind.interval % kind.align_second = 0
    BY <1>1, <1>4 DEF Regular
  <2>2. kind.interval >= kind.align_second
    <3> SUFFICES ASSUME kind.interval < kind.align_second PROVE FALSE
      BY <1>1
    <3>0. kind.interval \in Int /\ kind.align_second \in Nat \ {0}
      BY <1>1, <1>4
    <3>1. PICK q \in Int : kind.interval = kind.align_second * q
      BY <3>0, <2>1, Divides
    <3>2. q = 0
      <4>1. kind.align_second * q \in 0 .. kind.align_second - 1
        BY <1>1, <3>1
      <4> QED BY <1>1, <1>4, <4>1, SmallMultiple
    <3>3. kind.align_second * 0 = 0
      BY <1>1
    <3> QED BY <1>1, <3>1, <3>2, <3>3
  <2>3. FirstCall(kind) > kind.interval - kind.align_second
    BY <1>1, <1>4, FirstCallFacts
  <2> QED BY <1>1, <1>2, <2>2, <2>3
<1> QED BY <1>3, <1>4

LEMMA NewTimerFacts ==
    ASSUME NEW id \in TimerId, NEW kind \in Kind, second \in 0 .. Align - 1
    PROVE  /\ NewTimer(id, kind) \in Timer /\ ~NewTimer(id, kind).deleted
           /\ NewTimer(id, kind).kind = kind /\ NewTimer(id, kind).due = FirstCall(kind)
<1>1. FirstCall(kind) \in Int /\ kind.max_calls \in Nat
  BY FirstCallFacts, KindFacts
<1> QED BY <1>1 DEF NewTimer, Timer

\* hook_timer_check_system_clock counts the timers anew, or changes nothing.
LEMMA ReinitializedFacts ==
    ASSUME timers \in Seq(Timer), second \in 0 .. Align - 1, skew \in Int
    PROVE  /\ Reinitialized \in Seq(Timer) /\ Len(Reinitialized) = Len(timers)
           /\ \A i \in 1 .. Len(timers) :
                 /\ Reinitialized[i].kind = timers[i].kind
                 /\ Reinitialized[i].deleted = timers[i].deleted
                 /\ \/ Reinitialized[i].due = timers[i].due
                    \/ Reinitialized[i].due = FirstCall(timers[i].kind)
                 /\ (skew <= -Skew \/ skew >= Skew) /\ ~timers[i].deleted =>
                       Reinitialized[i].due = FirstCall(timers[i].kind)
           /\ ~ (skew <= -Skew \/ skew >= Skew) => Reinitialized = timers
<1>1. CASE ~ (skew <= -Skew \/ skew >= Skew)
  BY <1>1 DEF Reinitialized
<1>2. CASE skew <= -Skew \/ skew >= Skew
  <2> DEFINE Again(i) == IF timers[i].deleted THEN timers[i]
                         ELSE [timers[i] EXCEPT !.due = FirstCall(timers[i].kind)]
  <2>1. Reinitialized = [i \in 1 .. Len(timers) |-> Again(i)]
    BY <1>2 DEF Reinitialized
  <2>2. ASSUME NEW i \in 1 .. Len(timers)
        PROVE  /\ Again(i) \in Timer /\ Again(i).kind = timers[i].kind
               /\ Again(i).deleted = timers[i].deleted
               /\ Again(i).due = timers[i].due \/ Again(i).due = FirstCall(timers[i].kind)
               /\ ~timers[i].deleted => Again(i).due = FirstCall(timers[i].kind)
    <3>1. timers[i] \in Timer /\ timers[i].kind \in Kind
      BY TimerFacts
    <3>2. FirstCall(timers[i].kind) \in Int
      BY <3>1, FirstCallFacts
    <3> QED BY <3>1, <3>2 DEF Timer
  <2> HIDE DEF Again
  <2>3. [i \in 1 .. Len(timers) |-> Again(i)] \in Seq(Timer)
        /\ Len([i \in 1 .. Len(timers) |-> Again(i)]) = Len(timers)
    <3>1. Len(timers) \in Nat
      OBVIOUS
    <3>2. [i \in 1 .. Len(timers) |-> Again(i)] \in [1 .. Len(timers) -> Timer]
      BY <2>2
    <3> QED BY <3>1, <3>2
  <2>4. \A i \in 1 .. Len(timers) : Reinitialized[i] = Again(i)
    BY <2>1
  <2>5. Reinitialized \in Seq(Timer) /\ Len(Reinitialized) = Len(timers)
    BY <2>1, <2>3
  <2> QED BY <1>2, <2>2, <2>4, <2>5
<1> QED BY <1>1, <1>2

\* A finite list has a first date.
LEMMA LeastDate ==
    ASSUME NEW list \in Seq(Timer), NEW first \in 1 .. Len(list), ~list[first].deleted
    PROVE  \E i \in 1 .. Len(list) :
              /\ ~list[i].deleted
              /\ \A j \in 1 .. Len(list) : ~list[j].deleted => list[i].due <= list[j].due
<1> DEFINE Least(i, k) == \A j \in 1 .. k : ~list[j].deleted => list[i].due <= list[j].due
           Bad == {k \in 0 .. Len(list) :
                     /\ \E i \in 1 .. k : ~list[i].deleted
                     /\ ~ \E i \in 1 .. k : ~list[i].deleted /\ Least(i, k)}
<1>0. Len(list) \in Nat /\ \A i \in 1 .. Len(list) : list[i].due \in Int
  BY TimerFacts
<1>1. Len(list) \notin Bad
  <2> SUFFICES ASSUME Bad # {} PROVE FALSE
    OBVIOUS
  <2>1. Bad \in SUBSET Nat
    OBVIOUS
  <2>2. PICK k \in Bad : \A m \in Bad : k <= m
    <3> HIDE DEF Bad
    <3> QED BY <2>1, LeastNumber
  <2>3. k \in 0 .. Len(list) /\ k \in Nat /\ \E i \in 1 .. k : ~list[i].deleted
    OBVIOUS
  <2>4. ~ \E i \in 1 .. k : ~list[i].deleted /\ Least(i, k)
    OBVIOUS
  <2>5. k # 0 /\ k - 1 \in 0 .. Len(list) /\ k \in 1 .. Len(list) /\ k - 1 \in Nat
    <3>1. k # 0
      BY <2>3
    <3> QED BY <1>0, <2>3, <3>1
  <2>i. \A j \in 1 .. k : j \in 1 .. Len(list) /\ list[j].due \in Int
    <3>1. 1 .. k \subseteq 1 .. Len(list)
      BY <1>0, <2>3
    <3> QED BY <1>0, <3>1
  <2>6. k - 1 \notin Bad
    <3>1. ~ (k <= k - 1)
      BY <2>3
    <3> HIDE DEF Bad
    <3> QED BY <2>2, <3>1
  <2>7. \A j \in 1 .. k : j \in 1 .. k - 1 \/ j = k
    BY <2>3
  <2>8. CASE \A i \in 1 .. k - 1 : list[i].deleted
    <3>1. ~list[k].deleted /\ k \in 1 .. k
      BY <2>3, <2>5, <2>7, <2>8
    <3>2. Least(k, k)
      <4> SUFFICES ASSUME NEW j \in 1 .. k, ~list[j].deleted PROVE list[k].due <= list[j].due
        OBVIOUS
      <4>1. j = k /\ list[k].due \in Int
        BY <1>0, <2>5, <2>7, <2>8
      <4> QED BY <4>1
    <3> QED BY <2>4, <3>1, <3>2
  <2>9. CASE \E i \in 1 .. k - 1 : ~list[i].deleted
    <3>1. PICK i \in 1 .. k - 1 : ~list[i].deleted /\ Least(i, k - 1)
      BY <2>5, <2>6, <2>9
    <3>2. i \in 1 .. k /\ i \in 1 .. Len(list) /\ k \in 1 .. k
      BY <2>3, <2>5
    <3>3. list[i].due \in Int /\ list[k].due \in Int
      BY <1>0, <2>5, <3>2
    <3>4. CASE list[k].deleted \/ list[i].due <= list[k].due
      <4>1. Least(i, k)
        BY <2>7, <3>1, <3>4
      <4> QED BY <2>4, <3>1, <3>2, <4>1
    <3>5. CASE ~list[k].deleted /\ list[k].due < list[i].due
      <4>1. Least(k, k)
        <5> SUFFICES ASSUME NEW j \in 1 .. k, ~list[j].deleted PROVE list[k].due <= list[j].due
          OBVIOUS
        <5>1. CASE j = k
          <6>1. list[k].due <= list[k].due
            BY <3>3
          <6> QED BY <5>1, <6>1
        <5>2. CASE j \in 1 .. k - 1
          <6>1. list[i].due <= list[j].due
            BY <3>1, <5>2
          <6>2. list[j].due \in Int
            BY <2>i
          <6>3. \A x, y, z \in Int : x < y /\ y <= z => x <= z
            OBVIOUS
          <6> HIDE DEF Least, Bad
          <6> QED BY <3>3, <3>5, <6>1, <6>2, <6>3
        <5> QED BY <2>7, <5>1, <5>2
      <4> QED BY <2>4, <3>2, <3>5, <4>1
    <3> QED BY <3>3, <3>4, <3>5
  <2> QED BY <2>8, <2>9
<1> QED BY <1>0, <1>1

\* The sleep of poll() is bounded, and ends before the first date to come.
LEMMA TimeToNextFacts ==
    ASSUME NEW list \in Seq(Timer)
    PROVE  /\ TimeToNext(list) \in 0 .. MaxSleep
           /\ \A i \in 1 .. Len(list) :
                 ~list[i].deleted /\ list[i].due >= 0 => TimeToNext(list) <= list[i].due
<1> DEFINE dates == {list[i].due : i \in {j \in DOMAIN list : ~list[j].deleted}}
           next == CHOOSE d \in dates : \A e \in dates : d <= e
<1>0. MaxSleep \in Nat /\ DOMAIN list = 1 .. Len(list) /\ \A i \in 1 .. Len(list) : list[i].due \in Int
  BY ConstantsAssumption, TimerFacts
<1>1. TimeToNext(list) = IF dates = {} THEN MaxSleep
                         ELSE IF next < 0 THEN 0 ELSE IF next > MaxSleep THEN MaxSleep ELSE next
  BY DEF TimeToNext
<1>2. CASE dates = {}
  <2>1. \A i \in 1 .. Len(list) : list[i].deleted
    BY <1>0, <1>2
  <2> HIDE DEF dates, next
  <2> QED BY <1>0, <1>1, <1>2, <2>1
<1>3. CASE dates # {}
  <2>1. PICK i \in 1 .. Len(list) : ~list[i].deleted
    BY <1>0, <1>3
  <2>2. PICK k \in 1 .. Len(list) :
           /\ ~list[k].deleted
           /\ \A j \in 1 .. Len(list) : ~list[j].deleted => list[k].due <= list[j].due
    BY <2>1, LeastDate
  <2>3. list[k].due \in dates /\ \A e \in dates : list[k].due <= e
    BY <1>0, <2>2
  <2>4. next \in dates /\ \A e \in dates : next <= e
    <3> HIDE DEF dates
    <3> QED BY <2>3
  <2>5. \A d \in dates : d \in Int
    BY <1>0
  <2>6. \A j \in 1 .. Len(list) : ~list[j].deleted => list[j].due \in dates
    BY <1>0
  <2> HIDE DEF dates, next
  <2> QED BY <1>0, <1>1, <1>3, <2>4, <2>5, <2>6
<1> QED BY <1>2, <1>3

-----------------------------------------------------------------------------
(* Sound is inductive.                                                     *)

LEMMA UpdateFacts ==
    ASSUME NEW S, NEW s \in Seq(S), NEW i \in 1 .. Len(s), NEW e \in S
    PROVE  /\ [s EXCEPT ![i] = e] \in Seq(S) /\ Len([s EXCEPT ![i] = e]) = Len(s)
           /\ [s EXCEPT ![i] = e][i] = e
           /\ \A j \in 1 .. Len(s) : j # i => [s EXCEPT ![i] = e][j] = s[j]
OBVIOUS

LEMMA AppendFacts ==
    ASSUME NEW S, NEW s \in Seq(S), NEW e \in S
    PROVE  /\ Append(s, e) \in Seq(S) /\ Len(Append(s, e)) = Len(s) + 1
           /\ \A i \in 1 .. Len(s) : Append(s, e)[i] = s[i]
           /\ Append(s, e)[Len(s) + 1] = e
OBVIOUS

LEMMA SoundTypes == Sound => TypeOK
<1> SUFFICES ASSUME Sound PROVE TypeOK
  OBVIOUS
<1> USE DEF Sound, Scalars, Lists
<1>1. \A i \in DOMAIN timers : timers[i] \in Timer
  OBVIOUS
<1>2. \A i \in DOMAIN fds : fds[i] \in FdHook
  OBVIOUS
<1>3. Listed(pollfd) \subseteq Fd \cup {0}
  BY DEF Listed
<1>4. Len(timers) \in Nat /\ Len(fds) \in Nat
  OBVIOUS
<1>5. cursor \in 0 .. Len(timers) + Len(fds) + 1 /\ running \in 0 .. Len(timers) + Len(fds)
  BY <1>4 DEF Place
<1> QED BY <1>1, <1>2, <1>3, <1>5 DEF TypeOK, Timer, FdHook

LEMMA InitSound == Init => Sound
<1> SUFFICES ASSUME Init PROVE Sound
  OBVIOUS
<1>1. PICK kind \in Kind :
         timers = <<[id |-> CHOOSE id \in TimerId : TRUE, kind |-> kind, due |-> kind.interval,
                     remaining |-> kind.max_calls, deleted |-> FALSE]>>
  BY DEF Init
<1>2. timers \in Seq(Timer) /\ Len(timers) = 1 /\ ~timers[1].deleted
  <2> DEFINE id == CHOOSE x \in TimerId : TRUE
             timer == [id |-> id, kind |-> kind, due |-> kind.interval,
                       remaining |-> kind.max_calls, deleted |-> FALSE]
  <2>1. id \in TimerId
    BY ConstantsAssumption
  <2>2. timer \in Timer /\ ~timer.deleted
    BY <2>1, KindFacts DEF Timer
  <2>3. timers = <<timer>>
    BY <1>1
  <2> HIDE DEF timer
  <2> QED BY <2>2, <2>3
<1>3. fds \in Seq(FdHook) /\ Len(fds) = 1
  <2>1. [id |-> Stdin, deleted |-> FALSE] \in FdHook
    BY ConstantsAssumption DEF FdHook
  <2>2. fds = <<[id |-> Stdin, deleted |-> FALSE]>>
    BY DEF Init
  <2> QED BY <2>1, <2>2
<1>4. Scalars
  BY ConstantsAssumption DEF Init, Scalars, Place, Nobody
<1>5. Lists
  BY <1>2, <1>3 DEF Init, Lists
<1>6. Due
  BY <1>2 DEF Init, Due
<1> QED BY <1>4, <1>5, <1>6 DEF Sound

\* n seconds more: every timer has n seconds less.
LEMMA ShiftFacts ==
    ASSUME Sound, NEW n \in Int, Shift(n)
    PROVE  /\ timers' \in Seq(Timer) /\ Len(timers') = Len(timers)
           /\ \A i \in 1 .. Len(timers) :
                 /\ timers'[i].due = timers[i].due - n
                 /\ timers'[i].kind = timers[i].kind /\ timers'[i].deleted = timers[i].deleted
           /\ second' \in 0 .. Align - 1 /\ skew' \in Int /\ late' \in Int
<1> DEFINE Sooner(i) == [timers[i] EXCEPT !.due = @ - n]
<1>0. timers \in Seq(Timer) /\ Len(timers) \in Nat
  BY DEF Sound, Lists
<1>1. ASSUME NEW i \in 1 .. Len(timers)
      PROVE  /\ Sooner(i) \in Timer /\ Sooner(i).due = timers[i].due - n
             /\ Sooner(i).kind = timers[i].kind /\ Sooner(i).deleted = timers[i].deleted
  <2>1. timers[i] \in Timer
    BY <1>0, TimerFacts
  <2> QED BY <2>1 DEF Timer
<1>2. timers' = [i \in 1 .. Len(timers) |-> Sooner(i)]
  BY <1>0 DEF Shift
<1> HIDE DEF Sooner
<1>3. timers' \in Seq(Timer) /\ Len(timers') = Len(timers)
  <2>1. timers' \in [1 .. Len(timers) -> Timer]
    BY <1>1, <1>2
  <2>2. Len(timers') = Len(timers)
    BY <1>0, <1>2
  <2> QED BY <1>0, <2>1, <2>2
<1>4. second' \in 0 .. Align - 1
  <2>1. Align \in Nat \ {0} /\ second + n \in Int
    BY ConstantsAssumption DEF Sound, Scalars
  <2> QED BY <2>1, Division DEF Shift
<1>5. skew' \in Int /\ late' \in Int
  BY DEF Shift, Sound, Scalars
<1>6. \A i \in 1 .. Len(timers) : timers'[i] = Sooner(i)
  BY <1>2
<1> QED BY <1>1, <1>3, <1>4, <1>5, <1>6

LEMMA ShiftSound ==
    ASSUME Sound, NEW n \in Int, Shift(n), pc \in {"poll", "timer_cb", "fd_cb"},
           sleep' \in 0 .. MaxSleep, jumps' \in 0 .. MaxJumps, slow' \in 0 .. MaxSlow
    PROVE  Sound'
<1>0. /\ timers' \in Seq(Timer) /\ Len(timers') = Len(timers)
      /\ \A i \in 1 .. Len(timers) :
            /\ timers'[i].due = timers[i].due - n
            /\ timers'[i].kind = timers[i].kind /\ timers'[i].deleted = timers[i].deleted
      /\ second' \in 0 .. Align - 1 /\ skew' \in Int /\ late' \in Int
  BY ShiftFacts
<1>1. Scalars'
  BY <1>0 DEF Shift, Sound, Scalars
<1>2. Lists'
  BY <1>0 DEF Shift, Sound, Lists
<1>3. Due'
  <2>1. ASSUME pc = "timer_cb" PROVE timers'[running].due <= -late' /\ late' = skew'
    <3>1. running \in 1 .. Len(timers) /\ timers \in Seq(Timer)
      BY <2>1 DEF Sound, Lists
    <3>2. timers[running].due \in Int
      BY <3>1, TimerFacts
    <3>3. timers[running].due <= -late /\ late = skew /\ late \in Int
      BY <2>1 DEF Sound, Due, Scalars
    <3>4. late' = late + n /\ skew' = skew + n
      BY <2>1 DEF Shift
    <3> QED BY <1>0, <3>1, <3>2, <3>3, <3>4
  <2> QED BY <1>0, <2>1 DEF Shift, Sound, Due
<1> QED BY <1>1, <1>2, <1>3 DEF Sound

\* The callback of a timer has returned.
LEMMA CalledFacts ==
    ASSUME NEW timer \in Timer
    PROVE  /\ Called(timer) \in Timer /\ Called(timer).kind = timer.kind
           /\ timer.deleted => Called(timer) = timer
           /\ ~timer.deleted => Called(timer).due = timer.due + timer.kind.interval
<1>1. timer.kind \in Kind /\ timer.due \in Int /\ timer.remaining \in Nat
  BY DEF Timer
<1>2. timer.kind.interval \in Int
  BY <1>1, KindFacts
<1>3. CASE timer.deleted
  BY <1>3 DEF Called
<1>4. CASE ~timer.deleted
  <2> DEFINE due == timer.due + timer.kind.interval
             remaining == IF timer.remaining > 0 THEN timer.remaining - 1 ELSE timer.remaining
  <2>1. due \in Int /\ remaining \in Nat
    BY <1>1, <1>2
  <2>2. Called(timer) = [timer EXCEPT !.due = due, !.remaining = remaining,
                                      !.deleted = timer.remaining = 1]
    BY <1>4 DEF Called
  <2> HIDE DEF due, remaining
  <2>3. [timer EXCEPT !.due = due, !.remaining = remaining, !.deleted = timer.remaining = 1] \in Timer
    BY <2>1 DEF Timer
  <2>4. Called(timer).due = due /\ Called(timer).kind = timer.kind
    BY <2>2 DEF Timer
  <2> QED BY <1>4, <2>2, <2>3, <2>4 DEF due
<1> QED BY <1>3, <1>4

LEMMA TimerReturnsFacts ==
    ASSUME Sound, TimerReturns
    PROVE  /\ running \in 1 .. Len(timers) /\ timers' \in Seq(Timer) /\ Len(timers') = Len(timers)
           /\ timers'[running] = Called(timers[running])
           /\ \A i \in 1 .. Len(timers) : i # running => timers'[i] = timers[i]
<1>1. running \in 1 .. Len(timers) /\ timers \in Seq(Timer)
  BY DEF TimerReturns, Sound, Lists
<1>2. timers[running] \in Timer
  BY <1>1, TimerFacts
<1>3. Called(timers[running]) \in Timer
  BY <1>2, CalledFacts
<1>4. timers' = [timers EXCEPT ![running] = Called(timers[running])]
  BY DEF TimerReturns
<1> QED BY <1>1, <1>3, <1>4, UpdateFacts

\* A hook is marked as deleted.
LEMMA UnhookFacts ==
    ASSUME NEW S, NEW list \in Seq(S), NEW i \in 1 .. Len(list)
    PROVE  [list EXCEPT ![i].deleted = TRUE]
              = [list EXCEPT ![i] = [list[i] EXCEPT !.deleted = TRUE]]
OBVIOUS

LEMMA TimerExecSound == ASSUME Sound, TimerExec PROVE Sound'
<1>0. timers \in Seq(Timer) /\ second \in 0 .. Align - 1 /\ skew \in Int /\ Len(timers) \in Nat
  BY DEF Sound, Scalars, Lists
<1>1. timers' \in Seq(Timer) /\ Len(timers') \in Nat
  BY <1>0, ReinitializedFacts DEF TimerExec
<1>2. Scalars'
  BY <1>0 DEF TimerExec, Sound, Scalars, Place
<1>3. Lists'
  BY <1>1 DEF TimerExec, Sound, Lists
<1>4. Due'
  BY DEF TimerExec, Due
<1> QED BY <1>2, <1>3, <1>4 DEF Sound

\* The timer that is called: the first one that is due from the cursor on.
LEMMA TimerCallFacts ==
    ASSUME Sound, TimerCall
    PROVE  /\ running' \in 1 .. Len(timers)
           /\ timers[running'].due <= -late /\ ~timers[running'].deleted
           /\ cursor # 0 /\ running' >= cursor
           /\ cursor' = IF running' < Len(timers) THEN running' + 1 ELSE 0
           /\ \A j \in 1 .. Len(timers) :
                 j >= cursor /\ j < running' /\ ~timers[j].deleted => ~ (timers[j].due <= -late)
<1>0. timers \in Seq(Timer) /\ cursor \in Nat /\ Len(timers) \in Nat
  BY DEF Sound, Lists
<1>1. running' = FirstFrom(timers, cursor, DueTimers) /\ running' # 0
      /\ cursor' = Following(timers, running')
  BY DEF TimerCall
<1>2. running' \in 1 .. Len(timers)
  BY <1>0, <1>1, FirstFromFacts
<1>3. /\ cursor # 0 /\ running' >= cursor /\ ~timers[running'].deleted
      /\ timers[running'] \in DueTimers
  BY <1>0, <1>1, FirstFromFacts
<1>4. timers[running'].due <= -late
  BY <1>3 DEF DueTimers
<1>5. ASSUME NEW j \in 1 .. Len(timers), j >= cursor, j < running', ~timers[j].deleted,
             timers[j].due <= -late
      PROVE  FALSE
  <2>1. timers[j] \in DueTimers
    <3>1. timers[j] \in Listed(timers)
      BY <1>0 DEF Listed
    <3> QED BY <1>5, <3>1 DEF DueTimers
  <2>2. running' <= j
    BY <1>0, <1>1, <1>3, <1>5, <2>1, FirstFromFacts
  <2> QED BY <1>2, <1>5, <2>2
<1> QED BY <1>1, <1>2, <1>3, <1>4, <1>5 DEF Following

LEMMA TimerCallSound == ASSUME Sound, TimerCall PROVE Sound'
<1>0. timers \in Seq(Timer) /\ Len(timers) \in Nat
  BY DEF Sound, Lists
<1>1. /\ running' \in 1 .. Len(timers) /\ timers[running'].due <= -late
      /\ cursor' = IF running' < Len(timers) THEN running' + 1 ELSE 0
  BY TimerCallFacts
<1>2. Scalars'
  <2>1. served' \in Ids
    BY <1>0, <1>1, TimerFacts DEF TimerCall, Ids
  <2> QED BY <2>1 DEF TimerCall, time, Sound, Scalars, Place
<1>3. Lists'
  BY <1>0, <1>1 DEF TimerCall, time, Sound, Lists
<1>4. Due'
  BY <1>1 DEF TimerCall, time, Sound, Due
<1> QED BY <1>2, <1>3, <1>4 DEF Sound

LEMMA TimerReturnsSound == ASSUME Sound, TimerReturns PROVE Sound'
<1>0. timers' \in Seq(Timer) /\ Len(timers') = Len(timers)
  BY TimerReturnsFacts
<1>1. Scalars'
  BY ConstantsAssumption DEF TimerReturns, time, Sound, Scalars, Place, Nobody
<1>2. Lists'
  BY <1>0 DEF TimerReturns, time, Sound, Lists
<1>3. Due'
  BY DEF TimerReturns, time, Sound, Due
<1> QED BY <1>1, <1>2, <1>3 DEF Sound

\* hook_exec_end leaves lists, in which nothing is deleted.
LEMMA ExecEndFacts ==
    ASSUME Sound, ExecEnd
    PROVE  /\ timers' \in Seq(Timer) /\ fds' \in Seq(FdHook) /\ allocated' \in Nat /\ cursor' = 0
           /\ \A i \in 1 .. Len(timers') :
                 /\ ~timers'[i].deleted
                 /\ \E j \in 1 .. Len(timers) : timers'[i] = timers[j] /\ ~timers[j].deleted
           /\ Len(fds') \in Nat /\ allocated' \in Realloc(Len(fds'))
<1>0. timers \in Seq(Timer) /\ fds \in Seq(FdHook) /\ allocated \in Nat
  BY DEF Sound, Scalars, Lists
<1>1. /\ timers' = Purged(timers) /\ fds' = Purged(fds) /\ cursor' = 0
      /\ allocated' \in Realloc(Len(fds'))
  BY DEF ExecEnd
<1>2. /\ timers' \in Seq(Timer)
      /\ \A i \in 1 .. Len(timers') :
            \E j \in 1 .. Len(timers) : timers'[i] = timers[j] /\ ~timers[j].deleted
  BY <1>0, <1>1, PurgedFacts
<1>3. fds' \in Seq(FdHook)
  BY <1>0, <1>1, PurgedFacts
<1>4. Len(fds') \in Nat
  BY <1>3
<1>5. allocated' \in Nat
  BY <1>0, <1>1, <1>4 DEF Realloc
<1> QED BY <1>1, <1>2, <1>3, <1>4, <1>5

LEMMA TimerExecEndsSound == ASSUME Sound, TimerExecEnds PROVE Sound'
<1>0. /\ timers' \in Seq(Timer) /\ fds' \in Seq(FdHook) /\ allocated' \in Nat /\ cursor' = 0
      /\ \A i \in 1 .. Len(timers') : ~timers'[i].deleted
  BY ExecEndFacts DEF TimerExecEnds
<1>1. Scalars'
  BY <1>0 DEF TimerExecEnds, Sound, Scalars, Place
<1>2. Lists'
  BY <1>0 DEF TimerExecEnds, Sound, Lists
<1>3. Due'
  BY <1>0 DEF TimerExecEnds, Due
<1> QED BY <1>1, <1>2, <1>3 DEF Sound

\* The array of poll() has at most one entry for each hook.
LEMMA PolledFacts ==
    ASSUME Sound
    PROVE  /\ Polled \in Seq(Fd \cup {0})
           /\ Len(Polled) <= Len(fds) /\ Len(Polled) <= allocated + 1
<1> DEFINE open == {i \in 1 .. Len(fds) : ~fds[i].deleted /\ desc[fds[i].id].state # "closed"}
           good == Selected(fds, open)
           n == IF Len(good) > allocated + 1 THEN allocated + 1 ELSE Len(good)
<1>0. fds \in Seq(FdHook) /\ allocated \in Nat /\ Len(fds) \in Nat
  BY DEF Sound, Scalars, Lists
<1>1. good \in Seq(FdHook) /\ Len(good) \in 0 .. Len(fds)
  <2>1. open \in SUBSET (1 .. Len(fds))
    OBVIOUS
  <2> HIDE DEF open
  <2> QED BY <1>0, <2>1, SelectedFacts
<1>2. Polled = [i \in 1 .. n |-> good[i].id]
  BY DEF Polled
<1> HIDE DEF good
<1>3. n \in Nat /\ n <= Len(good) /\ n <= allocated + 1
  BY <1>0, <1>1
<1>4. \A i \in 1 .. n : good[i].id \in Fd \cup {0}
  <2> TAKE i \in 1 .. n
  <2>1. i \in 1 .. Len(good)
    BY <1>0, <1>1, <1>3
  <2>2. good[i] \in FdHook
    BY <1>1, <2>1
  <2> QED BY <2>2 DEF FdHook
<1> HIDE DEF n
<1>5. Polled \in [1 .. n -> Fd \cup {0}]
  BY <1>2, <1>4
<1>6. Polled \in Seq(Fd \cup {0}) /\ Len(Polled) = n
  BY <1>2, <1>3, <1>5
<1> QED BY <1>0, <1>1, <1>3, <1>6

LEMMA BuildFacts ==
    ASSUME Sound, Build
    PROVE  /\ timers' \in Seq(Timer) /\ Len(timers') = Len(timers)
           /\ \A i \in 1 .. Len(timers) : ~timers'[i].deleted
           /\ sleep' \in 0 .. MaxSleep
           /\ \A i \in 1 .. Len(timers) : timers'[i].due >= 0 => sleep' <= timers'[i].due
<1>0. timers \in Seq(Timer) /\ second \in 0 .. Align - 1 /\ skew \in Int
  BY DEF Sound, Scalars, Lists
<1>1. timers' = Reinitialized /\ sleep' = TimeToNext(Reinitialized)
  BY DEF Build
<1>2. /\ timers' \in Seq(Timer) /\ Len(timers') = Len(timers)
      /\ \A i \in 1 .. Len(timers) : timers'[i].deleted = timers[i].deleted
  BY <1>0, <1>1, ReinitializedFacts
<1>3. \A i \in 1 .. Len(timers) : ~timers'[i].deleted
  BY <1>2 DEF Build, Sound, Due
<1> QED BY <1>1, <1>2, <1>3, TimeToNextFacts

LEMMA BuildSound == ASSUME Sound, Build PROVE Sound'
<1>0. /\ timers' \in Seq(Timer) /\ Len(timers') = Len(timers)
      /\ \A i \in 1 .. Len(timers) : ~timers'[i].deleted
      /\ sleep' \in 0 .. MaxSleep
  BY BuildFacts
<1>1. Scalars'
  <2>1. desc' = [fd \in Fd |-> [desc[fd] EXCEPT !.polled = fd \in Listed(Polled)]]
    BY DEF Build
  <2>2. desc' \in [Fd -> [state : {"closed", "idle", "readable"}, polled : BOOLEAN]]
    <3> DEFINE in(fd) == fd \in Listed(Polled)
    <3>1. \A fd \in Fd : in(fd) \in BOOLEAN
      OBVIOUS
    <3>2. desc' = [fd \in Fd |-> [desc[fd] EXCEPT !.polled = in(fd)]]
      BY <2>1
    <3> HIDE DEF in
    <3> QED BY <3>1, <3>2 DEF Sound, Scalars
  <2> QED BY <1>0, <2>2 DEF Build, Sound, Scalars, Place
<1>2. Lists'
  BY <1>0, PolledFacts DEF Build, Sound, Lists
<1>3. Due'
  BY <1>0 DEF Build, Sound, Due
<1> QED BY <1>1, <1>2, <1>3 DEF Sound

\* What poll() leaves: no array, or as many entries.
LEMMA WakeFacts ==
    ASSUME Sound, Wake
    PROVE  /\ pollfd' \in Seq(Fd \cup {0}) /\ Len(pollfd') <= Len(pollfd)
           /\ desc' \in [Fd -> [state : {"closed", "idle", "readable"}, polled : BOOLEAN]]
           /\ \/ pc' = "top" /\ cursor' = 0 /\ pollfd' = <<>>
              \/ pc' = "fds" /\ cursor' = 1
<1>0. pollfd \in Seq(Fd \cup {0}) /\ Len(pollfd) \in Nat
  BY DEF Sound, Lists
<1>d. desc \in [Fd -> [state : {"closed", "idle", "readable"}, polled : BOOLEAN]]
  BY DEF Sound, Scalars
<1>1. CASE Readable = {}
  <2>1. pollfd' = <<>> /\ desc' = NotPolled /\ pc' = "top" /\ cursor' = 0
    BY <1>1 DEF Wake
  <2>2. desc' \in [Fd -> [state : {"closed", "idle", "readable"}, polled : BOOLEAN]]
    BY <1>d, <2>1 DEF NotPolled
  <2> QED BY <1>0, <2>1, <2>2
<1>2. CASE Readable # {}
  <2> DEFINE Left(i) == IF pollfd[i] \in Readable THEN pollfd[i] ELSE 0
  <2>1. pollfd' = [i \in 1 .. Len(pollfd) |-> Left(i)] /\ desc' = desc /\ pc' = "fds" /\ cursor' = 1
    BY <1>0, <1>2 DEF Wake
  <2>2. \A i \in 1 .. Len(pollfd) : Left(i) \in Fd \cup {0}
    BY <1>0
  <2> HIDE DEF Left
  <2>3. pollfd' \in [1 .. Len(pollfd) -> Fd \cup {0}]
    BY <2>1, <2>2
  <2>4. pollfd' \in Seq(Fd \cup {0}) /\ Len(pollfd') = Len(pollfd)
    BY <1>0, <2>1, <2>3
  <2> QED BY <1>0, <1>d, <2>1, <2>4
<1> QED BY <1>1, <1>2

LEMMA WakeSound == ASSUME Sound, Wake PROVE Sound'
<1>0. MaxSleep \in Nat /\ Len(fds) \in Nat
  BY ConstantsAssumption DEF Sound, Lists
<1>1. Scalars'
  BY <1>0, WakeFacts DEF Wake, Sound, Scalars, Place
<1>2. Lists'
  BY <1>0, WakeFacts DEF Wake, Sound, Lists
<1>3. Due'
  BY WakeFacts DEF Wake, Sound, Due
<1> QED BY <1>1, <1>2, <1>3 DEF Sound

LEMMA FdCallSound == ASSUME Sound, FdCall PROVE Sound'
<1>0. fds \in Seq(FdHook) /\ cursor \in Nat /\ Len(fds) \in Nat
  BY DEF Sound, Lists
<1>1. running' = FirstFrom(fds, cursor, ReadyFds) /\ running' # 0
      /\ cursor' = Following(fds, running')
  BY DEF FdCall
<1>2. running' \in 1 .. Len(fds)
  BY <1>0, <1>1, FirstFromFacts
<1>3. Scalars'
  <2>1. fds[running'] \in FdHook /\ served' = fds[running'].id
    BY <1>0, <1>2 DEF FdCall
  <2>2. served' \in Ids
    BY <2>1 DEF FdHook, Ids
  <2> QED BY <2>2 DEF FdCall, time, Sound, Scalars, Place
<1>4. Lists'
  BY <1>0, <1>1, <1>2 DEF FdCall, time, Sound, Lists, Following
<1>5. Due'
  BY DEF FdCall, time, Sound, Due
<1> QED BY <1>3, <1>4, <1>5 DEF Sound

LEMMA FdReturnsSound == ASSUME Sound, FdReturns PROVE Sound'
<1>0. fds \in Seq(FdHook) /\ running \in 1 .. Len(fds)
  BY DEF FdReturns, Sound, Lists
<1>1. Scalars'
  <2> DEFINE fd == fds[running].id
  <2>1. fd \in Fd
    <3>1. fds[running] \in FdHook
      BY <1>0
    <3> QED BY <3>1 DEF FdHook
  <2>2. desc' = IF desc[fd].state = "readable" THEN [desc EXCEPT ![fd].state = "idle"] ELSE desc
    BY DEF FdReturns
  <2> HIDE DEF fd
  <2>3. desc' \in [Fd -> [state : {"closed", "idle", "readable"}, polled : BOOLEAN]]
    BY <2>1, <2>2 DEF Sound, Scalars
  <2> QED BY <2>3, ConstantsAssumption DEF FdReturns, time, Sound, Scalars, Place, Nobody
<1>2. Lists'
  BY <1>0 DEF FdReturns, time, Sound, Lists
<1>3. Due'
  BY DEF FdReturns, time, Sound, Due
<1> QED BY <1>1, <1>2, <1>3 DEF Sound

LEMMA FdExecEndsSound == ASSUME Sound, FdExecEnds PROVE Sound'
<1>0. /\ timers' \in Seq(Timer) /\ fds' \in Seq(FdHook) /\ allocated' \in Nat /\ cursor' = 0
      /\ \A i \in 1 .. Len(timers') : ~timers'[i].deleted
  BY ExecEndFacts DEF FdExecEnds
<1>1. Scalars'
  <2>1. desc' \in [Fd -> [state : {"closed", "idle", "readable"}, polled : BOOLEAN]]
    BY DEF FdExecEnds, NotPolled, Sound, Scalars
  <2> QED BY <1>0, <2>1 DEF FdExecEnds, time, Sound, Scalars, Place
<1>2. Lists'
  BY <1>0 DEF FdExecEnds, time, Sound, Lists
<1>3. Due'
  BY <1>0 DEF FdExecEnds, time, Due
<1> QED BY <1>1, <1>2, <1>3 DEF Sound

\* What callbacks change: one list, or one descriptor.
LEMMA HookTimerFacts ==
    ASSUME Sound, NEW id \in TimerId, NEW kind \in Kind, HookTimer(id, kind)
    PROVE  /\ timers' \in Seq(Timer) /\ Len(timers') = Len(timers) + 1
           /\ \A i \in 1 .. Len(timers) : timers'[i] = timers[i]
           /\ ~timers'[Len(timers) + 1].deleted /\ timers'[Len(timers) + 1].kind = kind
           /\ timers'[Len(timers) + 1].due = FirstCall(kind)
<1>1. timers \in Seq(Timer) /\ second \in 0 .. Align - 1
  BY DEF Sound, Scalars, Lists
<1>2. /\ NewTimer(id, kind) \in Timer /\ ~NewTimer(id, kind).deleted
      /\ NewTimer(id, kind).kind = kind /\ NewTimer(id, kind).due = FirstCall(kind)
  BY <1>1, NewTimerFacts
<1>3. timers' = Append(timers, NewTimer(id, kind))
  BY DEF HookTimer
<1> QED BY <1>1, <1>2, <1>3, AppendFacts

LEMMA UnhookTimerFacts ==
    ASSUME Sound, NEW i \in 1 .. Len(timers), UnhookTimer(i)
    PROVE  /\ timers' \in Seq(Timer) /\ Len(timers') = Len(timers)
           /\ timers'[i].deleted /\ timers'[i].due = timers[i].due /\ timers'[i].kind = timers[i].kind
           /\ \A j \in 1 .. Len(timers) : j # i => timers'[j] = timers[j]
<1> DEFINE e == [timers[i] EXCEPT !.deleted = TRUE]
<1>1. timers \in Seq(Timer) /\ timers[i] \in Timer
  BY DEF Sound, Lists
<1>2. e \in Timer /\ e.deleted /\ e.due = timers[i].due /\ e.kind = timers[i].kind
  BY <1>1 DEF Timer
<1>3. timers' = [timers EXCEPT ![i] = e]
  BY <1>1, UnhookFacts DEF UnhookTimer
<1> HIDE DEF e
<1> QED BY <1>1, <1>2, <1>3, UpdateFacts

\* A callback is left where it was, when lists only grow and stay of their type.
LEMMA ChangesSound ==
    ASSUME Sound, Changes,
           timers' \in Seq(Timer), fds' \in Seq(FdHook), allocated' \in Nat,
           Len(timers') >= Len(timers), Len(fds') >= Len(fds),
           desc' \in [Fd -> [state : {"closed", "idle", "readable"}, polled : BOOLEAN]],
           pc = "timer_cb" => timers'[running].due = timers[running].due
    PROVE  Sound'
<1>0. /\ Len(timers) \in Nat /\ Len(fds) \in Nat /\ Len(timers') \in Nat /\ Len(fds') \in Nat
      /\ MaxOps \in Nat
  BY ConstantsAssumption DEF Sound, Lists
<1>1. Scalars'
  <2>1. ops' \in 0 .. MaxOps
    BY <1>0 DEF Changes, Sound, Scalars
  <2> QED BY <2>1 DEF Changes, time, Sound, Scalars
<1>2. Lists'
  BY <1>0 DEF Changes, InCallback, Sound, Lists
<1>3. Due'
  BY DEF Changes, InCallback, time, Sound, Due
<1> QED BY <1>1, <1>2, <1>3 DEF Sound

LEMMA CallbackSound == ASSUME Sound, Callback PROVE Sound'
<1>0. /\ timers \in Seq(Timer) /\ fds \in Seq(FdHook) /\ allocated \in Nat
      /\ Len(timers) \in Nat /\ Len(fds) \in Nat
      /\ desc \in [Fd -> [state : {"closed", "idle", "readable"}, polled : BOOLEAN]]
      /\ pc = "timer_cb" => running \in 1 .. Len(timers)
  BY DEF Sound, Scalars, Lists
<1>1. ASSUME NEW id \in TimerId, NEW kind \in Kind, HookTimer(id, kind)
      PROVE  Sound'
  <2>1. /\ timers' \in Seq(Timer) /\ Len(timers') = Len(timers) + 1
        /\ \A i \in 1 .. Len(timers) : timers'[i] = timers[i]
    BY <1>1, HookTimerFacts
  <2>2. Changes /\ UNCHANGED <<fds, allocated, desc>>
    BY <1>1 DEF HookTimer
  <2>3. Len(timers') >= Len(timers) /\ Len(fds') >= Len(fds)
    BY <1>0, <2>1, <2>2
  <2> QED BY <1>0, <2>1, <2>2, <2>3, ChangesSound
<1>2. ASSUME NEW i \in 1 .. Len(timers), UnhookTimer(i)
      PROVE  Sound'
  <2>1. /\ timers' \in Seq(Timer) /\ Len(timers') = Len(timers)
        /\ \A j \in 1 .. Len(timers) : timers'[j].due = timers[j].due
    BY <1>2, UnhookTimerFacts
  <2>2. Changes /\ UNCHANGED <<fds, allocated, desc>>
    BY <1>2 DEF UnhookTimer
  <2>3. Len(timers') >= Len(timers) /\ Len(fds') >= Len(fds)
    BY <1>0, <2>1, <2>2
  <2> QED BY <1>0, <2>1, <2>2, <2>3, ChangesSound
<1>3. ASSUME NEW i \in 1 .. Len(fds), UnhookFd(i)
      PROVE  Sound'
  <2> DEFINE e == [fds[i] EXCEPT !.deleted = TRUE]
  <2>1. fds[i] \in FdHook
    BY <1>0
  <2>2. e \in FdHook
    BY <2>1 DEF FdHook
  <2>3. fds' = [fds EXCEPT ![i] = e]
    BY <1>0, <1>3, UnhookFacts DEF UnhookFd
  <2> HIDE DEF e
  <2>4. fds' \in Seq(FdHook) /\ Len(fds') = Len(fds)
    BY <1>0, <2>2, <2>3, UpdateFacts
  <2>5. Changes /\ UNCHANGED <<timers, allocated, desc>>
    BY <1>3 DEF UnhookFd
  <2>6. Len(timers') >= Len(timers) /\ Len(fds') >= Len(fds)
    BY <1>0, <2>4, <2>5
  <2> QED BY <1>0, <2>4, <2>5, <2>6, ChangesSound
<1>4. ASSUME NEW fd \in Fd, HookFd(fd)
      PROVE  Sound'
  <2>1. [id |-> fd, deleted |-> FALSE] \in FdHook
    BY DEF FdHook
  <2>2. fds' \in Seq(FdHook) /\ Len(fds') = Len(fds) + 1
    BY <1>0, <1>4, <2>1, AppendFacts DEF HookFd
  <2>3. Changes /\ UNCHANGED <<timers, desc>> /\ allocated' \in Realloc(Len(fds) + 1)
    BY <1>4 DEF HookFd
  <2>4. allocated' \in Nat
    BY <1>0, <2>3 DEF Realloc
  <2>5. Len(timers') >= Len(timers) /\ Len(fds') >= Len(fds)
    BY <1>0, <2>2, <2>3
  <2> QED BY <1>0, <2>2, <2>3, <2>4, <2>5, ChangesSound
<1>5. ASSUME NEW fd \in Fd, Close(fd) \/ Open(fd)
      PROVE  Sound'
  <2>1. \E state \in {"closed", "idle"} :
           desc' = [desc EXCEPT ![fd] = [state |-> state, polled |-> FALSE]]
    BY <1>5 DEF Close, Open
  <2>2. desc' \in [Fd -> [state : {"closed", "idle", "readable"}, polled : BOOLEAN]]
    BY <1>0, <2>1
  <2>3. Changes /\ UNCHANGED <<timers, fds, allocated>>
    BY <1>5 DEF Close, Open
  <2>4. Len(timers') >= Len(timers) /\ Len(fds') >= Len(fds)
    BY <1>0, <2>3
  <2> QED BY <1>0, <2>2, <2>3, <2>4, ChangesSound
<1> QED BY <1>1, <1>2, <1>3, <1>4, <1>5 DEF Callback

LEMMA EnvironmentSound == ASSUME Sound, Environment PROVE Sound'
<1>0. /\ MaxSleep \in Nat /\ MaxJumps \in Nat /\ MaxSlow \in Nat /\ Jumps \subseteq Int
      /\ sleep \in 0 .. MaxSleep /\ jumps \in 0 .. MaxJumps /\ slow \in 0 .. MaxSlow
  BY ConstantsAssumption DEF Sound, Scalars
<1>1. CASE Tick
  <2>1. sleep' \in 0 .. MaxSleep /\ jumps' = jumps /\ slow' = slow /\ pc = "poll" /\ Shift(1)
    BY <1>0, <1>1 DEF Tick
  <2> QED BY <1>0, <2>1, ShiftSound
<1>2. CASE Slow
  <2>1. sleep' = sleep /\ jumps' = jumps /\ slow' \in 0 .. MaxSlow /\ InCallback /\ Shift(1)
    BY <1>0, <1>2 DEF Slow
  <2> QED BY <1>0, <2>1, ShiftSound DEF InCallback
<1>3. ASSUME NEW n \in Jumps, Jump(n)
      PROVE  Sound'
  <2>1. sleep' = sleep /\ jumps' \in 0 .. MaxJumps /\ slow' = slow
        /\ pc \in {"poll", "timer_cb", "fd_cb"} /\ Shift(n)
    BY <1>0, <1>3 DEF Jump
  <2>2. n \in Int
    BY <1>0
  <2> QED BY <1>0, <2>1, <2>2, ShiftSound
<1>4. ASSUME NEW fd \in Fd, Arrives(fd)
      PROVE  Sound'
  <2>1. desc' \in [Fd -> [state : {"closed", "idle", "readable"}, polled : BOOLEAN]]
    BY <1>4 DEF Arrives, Sound, Scalars
  <2> QED BY <1>4, <2>1 DEF Arrives, time, Sound, Scalars, Lists, Due
<1> QED BY <1>1, <1>2, <1>3, <1>4 DEF Environment

LEMMA SoundStep == ASSUME Sound, [Next]_vars PROVE Sound'
<1>1. CASE UNCHANGED vars
  BY <1>1 DEF vars, Sound, Scalars, Lists, Due
<1>2. CASE Loop
  BY <1>2, TimerExecSound, TimerCallSound, TimerReturnsSound, TimerExecEndsSound, BuildSound,
     WakeSound, FdCallSound, FdReturnsSound, FdExecEndsSound DEF Loop
<1> QED BY <1>1, <1>2, CallbackSound, EnvironmentSound DEF Next

\* The invariant all the others rest on, and the types of the variables.
LEMMA AlwaysSound == Spec => []Sound
<1>1. Sound /\ [Next]_vars => Sound'
  BY SoundStep
<1> QED BY <1>1, InitSound, PTL DEF Spec

THEOREM TypeCorrect == Spec => []TypeOK
<1> QED BY AlwaysSound, SoundTypes, PTL

-----------------------------------------------------------------------------
(* The array of poll().                                                    *)

\* Arrays, when the memory of the array is there.
LEMMA ArraysStep ==
    ASSUME ~ReallocFails, Sound, Arrays, [Next]_vars
    PROVE  Arrays'
<1>0. /\ fds \in Seq(FdHook) /\ Len(fds) \in Nat /\ allocated \in Nat
      /\ pollfd \in Seq(Fd \cup {0}) /\ Len(pollfd) \in Nat
  BY DEF Sound, Scalars, Lists
<1>n. \A n \in Nat : Realloc(n) = {n}
  BY DEF Realloc
<1>1. CASE UNCHANGED <<fds, allocated, pollfd>> /\ (pc' = pc \/ {pc, pc'} \subseteq {"poll", "fds", "fd_cb"}
                                                     \/ {pc, pc'} \subseteq {"top", "timers", "timer_cb", "build"})
  BY <1>1 DEF Arrays
<1>2. CASE TimerExec \/ TimerCall \/ TimerReturns \/ FdCall \/ FdReturns
  BY <1>1, <1>2 DEF TimerExec, TimerCall, TimerReturns, FdCall, FdReturns
<1>3. CASE TimerExecEnds
  <2>1. /\ Len(fds') \in Nat /\ allocated' \in Realloc(Len(fds'))
    BY <1>3, ExecEndFacts DEF TimerExecEnds
  <2>2. allocated' = Len(fds') /\ pollfd' = <<>>
    BY <1>n, <1>3, <2>1 DEF TimerExecEnds, Arrays
  <2> QED BY <2>1, <2>2 DEF Arrays
<1>4. CASE FdExecEnds
  <2>1. /\ Len(fds') \in Nat /\ allocated' \in Realloc(Len(fds'))
    BY <1>4, ExecEndFacts DEF FdExecEnds
  <2>2. allocated' = Len(fds') /\ pollfd' = <<>>
    BY <1>n, <1>4, <2>1 DEF FdExecEnds
  <2> QED BY <2>1, <2>2 DEF Arrays
<1>5. CASE Build
  BY <1>5, PolledFacts DEF Build, Arrays
<1>6. CASE Wake
  <2>1. Len(pollfd') <= Len(pollfd) /\ Len(pollfd') \in Nat
    BY <1>6, WakeFacts
  <2> QED BY <1>0, <1>6, <2>1, WakeFacts DEF Wake, Arrays
<1>7. CASE Callback
  <2>1. ASSUME NEW fd \in Fd, HookFd(fd)
        PROVE  Arrays'
    <3>1. /\ fds' = Append(fds, [id |-> fd, deleted |-> FALSE])
          /\ allocated' \in Realloc(Len(fds) + 1) /\ pollfd' = pollfd /\ pc' = pc
      BY <2>1 DEF HookFd, Changes
    <3>2. Len(fds') = Len(fds) + 1
      <4>1. [id |-> fd, deleted |-> FALSE] \in FdHook
        BY DEF FdHook
      <4> QED BY <1>0, <3>1, <4>1, AppendFacts
    <3>3. allocated' = Len(fds) + 1
      BY <1>0, <1>n, <3>1
    <3> QED BY <1>0, <3>1, <3>2, <3>3 DEF Arrays
  <2>2. ASSUME NEW i \in 1 .. Len(fds), UnhookFd(i)
        PROVE  Arrays'
    <3>1. Len(fds') = Len(fds)
      <4> DEFINE e == [fds[i] EXCEPT !.deleted = TRUE]
      <4>1. fds[i] \in FdHook
        BY <1>0
      <4>2. e \in FdHook
        BY <4>1 DEF FdHook
      <4>3. fds' = [fds EXCEPT ![i] = e]
        BY <1>0, <2>2, UnhookFacts DEF UnhookFd
      <4> HIDE DEF e
      <4> QED BY <1>0, <4>2, <4>3, UpdateFacts
    <3> QED BY <2>2, <3>1 DEF UnhookFd, Changes, Arrays
  <2>3. ASSUME UNCHANGED <<fds, allocated>>, Changes
        PROVE  Arrays'
    BY <2>3 DEF Changes, Arrays
  <2> QED BY <1>7, <2>1, <2>2, <2>3 DEF Callback, HookTimer, UnhookTimer, Close, Open
<1>8. CASE Environment
  BY <1>1, <1>8 DEF Environment, Tick, Slow, Jump, Shift, Arrives
<1>9. CASE UNCHANGED vars
  BY <1>1, <1>9 DEF vars
<1> QED BY <1>2, <1>3, <1>4, <1>5, <1>6, <1>7, <1>8, <1>9 DEF Next, Loop

\* hook_fd_exec reads no entry that the array of poll() does not have, whatever
\* descriptors the callbacks hook, unhook and close, unless realloc() failed.
THEOREM LoopAlwaysSound ==
    ASSUME ~ReallocFails
    PROVE  Spec => []LoopSound
<1>1. Init => Arrays
  BY DEF Init, Arrays
<1>2. Sound /\ Arrays /\ [Next]_vars => Arrays'
  BY ArraysStep
<1>3. Sound /\ Arrays => LoopSound
  BY SoundTypes DEF LoopSound, Arrays, PolledStaysAllocated
<1> QED BY <1>1, <1>2, <1>3, AlwaysSound, PTL DEF Spec

-----------------------------------------------------------------------------
(* Aligned timers.                                                         *)

\* What is left of the timers of a list.
Aligned ==
    \A i \in 1 .. Len(timers) : timers[i].kind.align_second > 0 =>
        (second + timers[i].due) % timers[i].kind.align_second = 0

LEMMA AlignedIs ==
    ASSUME Sound
    PROVE  Aligned <=> StaysAligned
<1>1. DOMAIN timers = 1 .. Len(timers)
  BY DEF Sound, Lists
<1> QED BY <1>1 DEF Aligned, StaysAligned

\* An aligned timer is first called on a multiple of its alignment.
LEMMA FirstCallAligned ==
    ASSUME Regular, NEW kind \in Kind, kind.align_second > 0, second \in 0 .. Align - 1
    PROVE  (second + FirstCall(kind)) % kind.align_second = 0
<1> DEFINE a == kind.align_second
<1>1. a \in Nat \ {0} /\ kind.interval \in Int /\ kind.interval % a = 0 /\ second \in Int
  BY KindFacts, ConstantsAssumption DEF Regular
<1>s. second \in Int /\ a \in Nat \ {0}
  BY <1>1
<1> HIDE DEF a
<1>2. second % a \in Int /\ second \div a \in Int /\ second = (a * (second \div a)) + (second % a)
  <2>1. second % a \in 0 .. a - 1 /\ second \div a \in Int
    BY <1>s, Division
  <2>2. second = (a * (second \div a)) + (second % a)
    BY <1>s, Division
  <2> QED BY <1>s, <2>1, <2>2
<1>3. (second - (second % a)) % a = 0
  <2>1. second - (second % a) = a * (second \div a)
    BY <1>1, <1>2
  <2>2. (a * (second \div a)) % a = 0
    BY <1>1, <1>2, MultipleDivides
  <2> QED BY <2>1, <2>2
<1>4. second - (second % a) \in Int
  BY <1>1, <1>2
<1>5. (kind.interval + (second - (second % a))) % a = 0
  BY <1>1, <1>3, <1>4, SumOfMultiples
<1>6. FirstCall(kind) = kind.interval - (second % a)
  BY DEF FirstCall, a
<1>7. second + FirstCall(kind) = kind.interval + (second - (second % a))
  BY <1>1, <1>2, <1>6
<1>8. (second + FirstCall(kind)) % a = 0
  BY <1>5, <1>7
<1> QED BY <1>8 DEF a

\* A change of the clock changes what is left of a timer by as much, but for
\* multiples of Align.
LEMMA ShiftAligned ==
    ASSUME Sound, Aligned, NEW n \in Int, Shift(n)
    PROVE  Aligned'
<1>0. /\ Len(timers') = Len(timers) /\ timers \in Seq(Timer)
      /\ \A i \in 1 .. Len(timers) :
            timers'[i].due = timers[i].due - n /\ timers'[i].kind = timers[i].kind
  BY ShiftFacts DEF Sound, Lists
<1>1. second \in Int /\ Align \in Nat \ {0} /\ second' = (second + n) % Align
  BY ConstantsAssumption DEF Sound, Scalars, Shift
<1>2. ASSUME NEW i \in 1 .. Len(timers), timers[i].kind.align_second > 0
      PROVE  (second' + timers'[i].due) % timers[i].kind.align_second = 0
  <2> DEFINE a == timers[i].kind.align_second
             due == timers[i].due
  <2>1. timers[i].kind \in Kind /\ due \in Int
    BY <1>0, TimerFacts
  <2>2. a \in Nat \ {0} /\ Align % a = 0
    BY <1>2, <2>1, KindFacts
  <2>3. (second + due) % a = 0
    BY <1>2 DEF Aligned
  <2>4. timers'[i].due = due - n
    BY <1>0
  <2> HIDE DEF a, due
  <2>5. second + n \in Int /\ second' \in Int
    BY <1>1, Division
  <2>6. (second' - (second + n)) % a = 0
    BY <1>1, <2>2, <2>5, RemainderOfMultiple
  <2>7. ((second' - (second + n)) + (second + due)) % a = 0
    <3>1. second' - (second + n) \in Int /\ second + due \in Int
      BY <1>1, <2>1, <2>5
    <3> QED BY <2>2, <2>3, <2>6, <3>1, SumOfMultiples
  <2>8. second' + (due - n) = (second' - (second + n)) + (second + due)
    BY <1>1, <2>1, <2>5
  <2>9. (second' + timers'[i].due) % a = 0
    BY <2>4, <2>7, <2>8
  <2> QED BY <2>9 DEF a
<1> QED BY <1>0, <1>2 DEF Aligned

LEMMA AlignedStep ==
    ASSUME Regular, Sound, Aligned, [Next]_vars
    PROVE  Aligned'
<1>0. /\ timers \in Seq(Timer) /\ Len(timers) \in Nat /\ second \in 0 .. Align - 1 /\ skew \in Int
      /\ second \in Int
  BY ConstantsAssumption DEF Sound, Scalars, Lists
<1>1. CASE UNCHANGED <<timers, second>>
  BY <1>1 DEF Aligned
<1>2. CASE timers' = Reinitialized /\ second' = second
  <2>1. ASSUME NEW i \in 1 .. Len(timers), timers[i].kind.align_second > 0
        PROVE  (second + Reinitialized[i].due) % timers[i].kind.align_second = 0
    <3>1. timers[i].kind \in Kind
      BY <1>0, TimerFacts
    <3>2. (second + FirstCall(timers[i].kind)) % timers[i].kind.align_second = 0
      BY <1>0, <2>1, <3>1, FirstCallAligned
    <3>3. (second + timers[i].due) % timers[i].kind.align_second = 0
      BY <2>1 DEF Aligned
    <3>4. Reinitialized[i].due = timers[i].due \/ Reinitialized[i].due = FirstCall(timers[i].kind)
      BY <1>0, ReinitializedFacts
    <3> QED BY <3>2, <3>3, <3>4
  <2>2. Len(Reinitialized) = Len(timers)
        /\ \A i \in 1 .. Len(timers) : Reinitialized[i].kind = timers[i].kind
    BY <1>0, ReinitializedFacts
  <2> QED BY <1>2, <2>1, <2>2 DEF Aligned
<1>3. CASE ExecEnd /\ second' = second
  BY <1>3, ExecEndFacts DEF Aligned
<1>4. CASE TimerReturns
  <2>1. /\ running \in 1 .. Len(timers) /\ Len(timers') = Len(timers)
        /\ timers'[running] = Called(timers[running])
        /\ \A i \in 1 .. Len(timers) : i # running => timers'[i] = timers[i]
    BY <1>4, TimerReturnsFacts
  <2>2. second' = second
    BY <1>4 DEF TimerReturns, time
  <2>3. /\ timers[running] \in Timer /\ timers[running].kind \in Kind /\ timers[running].due \in Int
        /\ timers[running].deleted \in BOOLEAN
    BY <1>0, <2>1, TimerFacts
  <2> DEFINE kind == timers[running].kind
             due == timers[running].due
  <2>4. ASSUME kind.align_second > 0
        PROVE  (second + Called(timers[running]).due) % kind.align_second = 0
    <3>1. (second + due) % kind.align_second = 0
      BY <2>1, <2>4 DEF Aligned
    <3>2. kind.align_second \in Nat \ {0} /\ kind.interval \in Int
          /\ kind.interval % kind.align_second = 0
      BY <2>3, <2>4, KindFacts DEF Regular
    <3>3. ((second + due) + kind.interval) % kind.align_second = 0
      <4>1. second + due \in Int
        BY <1>0, <2>3
      <4> HIDE DEF kind, due
      <4> QED BY <3>1, <3>2, <4>1, SumOfMultiples
    <3>4. (second + due) + kind.interval = second + (due + kind.interval)
      BY <1>0, <2>3, <3>2
    <3>5. Called(timers[running]).due = due \/ Called(timers[running]).due = due + kind.interval
      BY <2>3, CalledFacts
    <3> HIDE DEF kind, due
    <3> QED BY <3>1, <3>3, <3>4, <3>5
  <2>5. Called(timers[running]).kind = kind
    BY <2>3, CalledFacts
  <2> QED BY <2>1, <2>2, <2>4, <2>5 DEF Aligned
<1>5. ASSUME NEW id \in TimerId, NEW kind \in Kind, HookTimer(id, kind)
      PROVE  Aligned'
  <2>1. /\ Len(timers') = Len(timers) + 1
        /\ \A i \in 1 .. Len(timers) : timers'[i] = timers[i]
        /\ timers'[Len(timers) + 1].kind = kind
        /\ timers'[Len(timers) + 1].due = FirstCall(kind)
    BY <1>5, HookTimerFacts
  <2>2. second' = second
    BY <1>5 DEF HookTimer, Changes, time
  <2>3. kind.align_second > 0 => (second + FirstCall(kind)) % kind.align_second = 0
    BY <1>0, FirstCallAligned
  <2>4. \A i \in 1 .. Len(timers') : i \in 1 .. Len(timers) \/ i = Len(timers) + 1
    BY <1>0, <2>1
  <2> QED BY <2>1, <2>2, <2>3, <2>4 DEF Aligned
<1>6. ASSUME NEW i \in 1 .. Len(timers), UnhookTimer(i)
      PROVE  Aligned'
  <2>1. second' = second
    BY <1>6 DEF UnhookTimer, Changes, time
  <2> QED BY <1>6, <2>1, UnhookTimerFacts DEF Aligned
<1>7. CASE Environment
  <2>1. Jumps \subseteq Int
    BY ConstantsAssumption
  <2>2. ASSUME Tick \/ Slow
        PROVE  Aligned'
    <3>1. Shift(1)
      BY <2>2 DEF Tick, Slow
    <3> QED BY <3>1, ShiftAligned
  <2>3. ASSUME NEW n \in Jumps, Jump(n)
        PROVE  Aligned'
    <3>1. Shift(n) /\ n \in Int
      BY <2>1, <2>3 DEF Jump
    <3> QED BY <3>1, ShiftAligned
  <2>4. ASSUME NEW fd \in Fd, Arrives(fd)
        PROVE  Aligned'
    BY <1>1, <2>4 DEF Arrives, time
  <2> QED BY <1>7, <2>2, <2>3, <2>4 DEF Environment
<1>8. CASE Loop
  <2>1. CASE TimerExec \/ Build
    BY <1>2, <2>1 DEF TimerExec, Build
  <2>2. CASE TimerExecEnds \/ FdExecEnds
    BY <1>3, <2>2 DEF TimerExecEnds, FdExecEnds, time
  <2>3. CASE TimerCall \/ Wake \/ FdCall \/ FdReturns
    BY <1>1, <2>3 DEF TimerCall, Wake, FdCall, FdReturns, time
  <2> QED BY <1>4, <1>8, <2>1, <2>2, <2>3 DEF Loop
<1>9. CASE Callback
  <2>1. ASSUME Changes, timers' = timers
        PROVE  Aligned'
    BY <1>1, <2>1 DEF Changes, time
  <2> QED BY <1>5, <1>6, <1>9, <2>1 DEF Callback, HookFd, UnhookFd, Close, Open
<1> QED BY <1>1, <1>7, <1>8, <1>9 DEF Next, vars

\* A timer that is aligned stays so, through calls, slow callbacks and changes
\* of the clock.
THEOREM AlwaysAligned ==
    ASSUME Regular
    PROVE  Spec => []StaysAligned
<1>1. Init => Aligned
  <2> SUFFICES ASSUME Init PROVE Aligned
    OBVIOUS
  <2>1. PICK kind \in Kind :
           timers = <<[id |-> CHOOSE id \in TimerId : TRUE, kind |-> kind, due |-> kind.interval,
                       remaining |-> kind.max_calls, deleted |-> FALSE]>>
    BY DEF Init
  <2>2. Len(timers) = 1 /\ timers[1].kind = kind /\ timers[1].due = kind.interval /\ second = 0
    BY <2>1 DEF Init
  <2>3. kind.interval \in Int
    BY KindFacts
  <2>4. \A i \in 1 .. 1 : i = 1
    OBVIOUS
  <2>5. second + kind.interval = kind.interval
    BY <2>2, <2>3
  <2> QED BY <2>2, <2>4, <2>5 DEF Aligned, Regular
<1>2. Sound /\ Aligned /\ [Next]_vars => Aligned'
  BY AlignedStep
<1>3. Sound /\ Aligned => StaysAligned
  BY AlignedIs
<1> QED BY <1>1, <1>2, <1>3, AlwaysSound, PTL DEF Spec

-----------------------------------------------------------------------------
(* Timers and the clock.                                                   *)

\* The dates of a timer that is called, before and after the call.
LEMMA CallFacts ==
    ASSUME Sound, TimerReturns
    PROVE  /\ timers[running].due <= -skew /\ timers[running].due \in Int
           /\ timers[running].kind.interval \in Nat \ {0}
           /\ timers'[running].kind = timers[running].kind
           /\ timers[running].deleted => timers'[running] = timers[running]
           /\ ~timers[running].deleted =>
                 timers'[running].due = timers[running].due + timers[running].kind.interval
<1>1. timers \in Seq(Timer) /\ running \in 1 .. Len(timers) /\ pc = "timer_cb"
  BY DEF TimerReturns, Sound, Lists
<1>2. timers[running] \in Timer /\ timers[running].kind \in Kind /\ timers[running].due \in Int
      /\ timers[running].deleted \in BOOLEAN
  BY <1>1, TimerFacts
<1>3. timers[running].due <= -skew
  BY <1>1 DEF Sound, Due
<1>4. timers'[running] = Called(timers[running])
  BY TimerReturnsFacts
<1> QED BY <1>2, <1>3, <1>4, KindFacts, CalledFacts

\* While the clock is not set it differs by the sleep and the slow callbacks.
LEMMA ClockStep ==
    ASSUME Sound, Clock, [Next]_vars
    PROVE  Clock'
<1>0. /\ timers \in Seq(Timer) /\ Len(timers) \in Nat /\ second \in 0 .. Align - 1 /\ skew \in Int
      /\ MaxSleep \in Nat /\ slow \in Nat /\ jumps \in Nat /\ sleep \in 0 .. MaxSleep
      /\ Jumps \subseteq Int
  BY ConstantsAssumption DEF Sound, Scalars, Lists
<1>i. \A i \in 1 .. Len(timers) :
         timers[i].due \in Int /\ timers[i].kind \in Kind /\ timers[i].kind.interval \in Nat
  BY <1>0, TimerFacts, KindFacts
<1> DEFINE Dates == \A i \in 1 .. Len(timers) : timers[i].due <= timers[i].kind.interval
<1>c. jumps = 0 => skew \in 0 .. MaxSleep + slow /\ (pc = "poll" => skew + sleep <= MaxSleep) /\ Dates
  BY DEF Clock
<1>1. ASSUME jumps' = jumps, slow' = slow, skew' = skew, pc' = "poll" => pc = "poll" /\ sleep' = sleep,
             Dates => Dates'
      PROVE  Clock'
  BY <1>1, <1>c DEF Clock
<1>2. ASSUME jumps' = jumps, slow' = slow, skew' = 0, sleep' \in 0 .. MaxSleep, Dates => Dates'
      PROVE  Clock'
  <2>1. 0 \in 0 .. MaxSleep + slow /\ 0 + sleep' <= MaxSleep
    <3>1. MaxSleep + slow \in Nat
      BY <1>0
    <3>2. 0 + sleep' <= MaxSleep
      <4>1. \A x \in 0 .. MaxSleep : 0 + x <= MaxSleep
        BY <1>0
      <4> QED BY <1>2, <4>1
    <3> QED BY <3>1, <3>2
  <2> QED BY <1>2, <1>c, <2>1 DEF Clock
<1>3. ASSUME timers' = timers
      PROVE  Dates => Dates'
  BY <1>3
<1>4. ASSUME timers' = Reinitialized
      PROVE  Dates => Dates'
  <2> SUFFICES ASSUME Dates, NEW i \in 1 .. Len(timers)
               PROVE  Reinitialized[i].due <= Reinitialized[i].kind.interval
    BY <1>0, <1>4, ReinitializedFacts
  <2>1. FirstCall(timers[i].kind) <= timers[i].kind.interval
    BY <1>0, <1>i, FirstCallFacts
  <2> QED BY <1>0, <2>1, ReinitializedFacts
<1>5. ASSUME ExecEnd
      PROVE  Dates => Dates'
  BY <1>5, ExecEndFacts
<1>6. CASE TimerExec
  BY <1>2, <1>4, <1>6, <1>0 DEF TimerExec
<1>7. CASE TimerCall \/ FdCall \/ FdReturns
  BY <1>1, <1>3, <1>7 DEF TimerCall, FdCall, FdReturns, time
<1>8. CASE TimerReturns
  <2>1. /\ running \in 1 .. Len(timers) /\ Len(timers') = Len(timers)
        /\ \A i \in 1 .. Len(timers) : i # running => timers'[i] = timers[i]
    BY <1>8, TimerReturnsFacts
  <2>2. UNCHANGED time /\ pc' = "timers"
    BY <1>8 DEF TimerReturns
  <2>3. ASSUME jumps = 0, Dates
        PROVE  timers'[running].due <= timers'[running].kind.interval
    <3>1. skew \in 0 .. MaxSleep + slow
      BY <1>c, <2>3
    <3>2. CASE timers[running].deleted
      BY <1>8, <2>1, <2>3, <3>2, CallFacts
    <3>3. CASE ~timers[running].deleted
      <4>1. /\ timers'[running].due = timers[running].due + timers[running].kind.interval
            /\ timers'[running].kind = timers[running].kind
            /\ timers[running].due <= -skew /\ timers[running].due \in Int
            /\ timers[running].kind.interval \in Int
        BY <1>8, <3>3, CallFacts
      <4>2. \A due, interval \in Int : due <= -skew => due + interval <= interval
        BY <1>0, <3>1
      <4> QED BY <4>1, <4>2
    <3> QED BY <3>2, <3>3
  <2>4. jumps = 0 /\ Dates => Dates'
    BY <2>1, <2>3
  <2> HIDE DEF Dates
  <2>5. jumps = 0 => Dates' /\ Dates
    BY <1>c, <2>4
  <2> QED BY <1>c, <2>2, <2>5 DEF time, Clock, Dates
<1>9. CASE TimerExecEnds \/ FdExecEnds
  BY <1>1, <1>5, <1>9 DEF TimerExecEnds, FdExecEnds, time
<1>10. CASE Build
  BY <1>2, <1>4, <1>10, BuildFacts DEF Build
<1>11. CASE Wake
  BY <1>1, <1>3, <1>11, WakeFacts DEF Wake
<1>12. CASE Callback
  <2>1. ASSUME Changes, Dates => Dates'
        PROVE  Clock'
    BY <1>1, <2>1 DEF Changes, InCallback, time
  <2>2. ASSUME NEW id \in TimerId, NEW kind \in Kind, HookTimer(id, kind)
        PROVE  Clock'
    <3>1. /\ Len(timers') = Len(timers) + 1
          /\ \A i \in 1 .. Len(timers) : timers'[i] = timers[i]
          /\ timers'[Len(timers) + 1].kind = kind
          /\ timers'[Len(timers) + 1].due = FirstCall(kind)
      BY <2>2, HookTimerFacts
    <3>2. FirstCall(kind) <= kind.interval
      BY <1>0, FirstCallFacts
    <3>3. \A i \in 1 .. Len(timers') : i \in 1 .. Len(timers) \/ i = Len(timers) + 1
      BY <1>0, <3>1
    <3>4. Dates => Dates'
      BY <3>1, <3>2, <3>3
    <3>5. Changes
      BY <2>2 DEF HookTimer
    <3> HIDE DEF Dates
    <3> QED BY <2>1, <3>4, <3>5
  <2>3. ASSUME NEW i \in 1 .. Len(timers), UnhookTimer(i)
        PROVE  Clock'
    <3>1. Dates => Dates'
      BY <2>3, UnhookTimerFacts
    <3>2. Changes
      BY <2>3 DEF UnhookTimer
    <3> HIDE DEF Dates
    <3> QED BY <2>1, <3>1, <3>2
  <2>4. ASSUME Changes, timers' = timers
        PROVE  Clock'
    BY <2>1, <2>4, <1>3
  <2> QED BY <1>12, <2>2, <2>3, <2>4 DEF Callback, HookFd, UnhookFd, Close, Open
<1>13. ASSUME Shift(1), jumps' = jumps,
              \/ pc = "poll" /\ sleep > 0 /\ sleep' = sleep - 1 /\ slow' = slow
              \/ pc # "poll" /\ slow' = slow + 1
       PROVE  Clock'
  <2>1. /\ Len(timers') = Len(timers) /\ skew' = skew + 1 /\ pc' = pc
        /\ \A i \in 1 .. Len(timers) :
              timers'[i].due = timers[i].due - 1 /\ timers'[i].kind = timers[i].kind
    BY <1>13, ShiftFacts DEF Shift
  <2>2. Dates => Dates'
    <3> SUFFICES ASSUME Dates, NEW i \in 1 .. Len(timers)
                 PROVE  timers[i].due - 1 <= timers[i].kind.interval
      BY <2>1
    <3> QED BY <1>i
  <2>3. jumps = 0 => skew + 1 \in 0 .. MaxSleep + slow' /\ (pc = "poll" => skew + 1 + sleep' <= MaxSleep)
    <3> HIDE DEF Dates
    <3> QED BY <1>0, <1>c, <1>13
  <2> HIDE DEF Dates
  <2> QED BY <1>13, <1>c, <2>1, <2>2, <2>3 DEF Clock, Dates
<1>14. CASE Environment
  <2>1. CASE Tick
    BY <1>13, <2>1 DEF Tick
  <2>2. CASE Slow
    BY <1>13, <2>2 DEF Slow, InCallback
  <2>3. ASSUME NEW n \in Jumps, Jump(n)
        PROVE  Clock'
    BY <1>0, <2>3 DEF Jump, Clock
  <2>4. ASSUME NEW fd \in Fd, Arrives(fd)
        PROVE  Clock'
    BY <1>1, <1>3, <2>4 DEF Arrives, time
  <2> QED BY <1>14, <2>1, <2>2, <2>3, <2>4 DEF Environment
<1>15. CASE UNCHANGED vars
  BY <1>1, <1>3, <1>15 DEF vars
<1> QED BY <1>6, <1>7, <1>8, <1>9, <1>10, <1>11, <1>12, <1>14, <1>15 DEF Next, Loop

\* A change of the clock puts off a timer by a bounded time.
LEMMA PutOffStep ==
    ASSUME Sound, Clock, PutOff, [Next]_vars
    PROVE  PutOff'
<1>0. /\ timers \in Seq(Timer) /\ Len(timers) \in Nat /\ second \in 0 .. Align - 1 /\ skew \in Int
      /\ MaxSleep \in Nat /\ slow \in Nat /\ jumps \in Nat /\ Skew \in Nat \ {0}
      /\ Jumps \subseteq Int
  BY ConstantsAssumption DEF Sound, Scalars, Lists
<1>i. \A i \in 1 .. Len(timers) :
         timers[i].due \in Int /\ timers[i].kind \in Kind /\ timers[i].kind.interval \in Nat
  BY <1>0, TimerFacts, KindFacts
<1> DEFINE Noticed(due, interval) == due < interval + Skew + MaxSleep + slow
           Pending(due, interval) == due <= interval + MaxSleep + slow - skew
           Off(due, interval) == Noticed(due, interval) \/ Pending(due, interval)
<1>a. jumps <= 1 => \A i \in 1 .. Len(timers) : Off(timers[i].due, timers[i].kind.interval)
  BY DEF PutOff
<1>b. \A due, interval \in Int : due <= interval => Noticed(due, interval)
  BY <1>0
<1>1. ASSUME skew' = skew, slow' = slow, jumps' = jumps,
             \A i \in 1 .. Len(timers') :
                \/ Noticed(timers'[i].due, timers'[i].kind.interval)
                \/ Pending(timers'[i].due, timers'[i].kind.interval)
                \/ \E j \in 1 .. Len(timers) : timers'[i].due = timers[j].due
                                               /\ timers'[i].kind = timers[j].kind
      PROVE  PutOff'
  <2> SUFFICES ASSUME jumps <= 1, NEW i \in 1 .. Len(timers')
               PROVE  \/ timers'[i].due < timers'[i].kind.interval + Skew + MaxSleep + slow
                      \/ timers'[i].due <= timers'[i].kind.interval + MaxSleep + slow - skew
    BY <1>1 DEF PutOff
  <2>1. CASE \E j \in 1 .. Len(timers) : timers'[i].due = timers[j].due /\ timers'[i].kind = timers[j].kind
    BY <1>a, <2>1
  <2> QED BY <1>1, <2>1
<1>2. ASSUME timers' = Reinitialized, skew' = 0, slow' = slow, jumps' = jumps,
             \A i \in 1 .. Len(timers) : ~timers[i].deleted
      PROVE  PutOff'
  <2> SUFFICES ASSUME jumps <= 1, NEW i \in 1 .. Len(timers)
               PROVE  Reinitialized[i].due < Reinitialized[i].kind.interval + Skew + MaxSleep + slow
    BY <1>0, <1>2, ReinitializedFacts DEF PutOff
  <2>1. Reinitialized[i].kind = timers[i].kind
    BY <1>0, ReinitializedFacts
  <2>2. timers[i].due \in Int /\ timers[i].kind \in Kind /\ timers[i].kind.interval \in Int
    BY <1>i
  <2>3. CASE skew <= -Skew \/ skew >= Skew
    <3>1. Reinitialized[i].due = FirstCall(timers[i].kind)
      BY <1>0, <1>2, <2>3, ReinitializedFacts
    <3>2. FirstCall(timers[i].kind) \in Int /\ FirstCall(timers[i].kind) <= timers[i].kind.interval
      BY <1>0, <2>2, FirstCallFacts
    <3> QED BY <1>b, <2>1, <2>2, <3>1, <3>2
  <2>4. CASE ~ (skew <= -Skew \/ skew >= Skew)
    <3>1. Reinitialized[i].due = timers[i].due
      BY <1>0, <2>4, ReinitializedFacts
    <3>2. Off(timers[i].due, timers[i].kind.interval)
      BY <1>a
    <3>3. \A due, interval \in Int : Off(due, interval) => Noticed(due, interval)
      BY <1>0, <2>4
    <3> HIDE DEF Off
    <3> QED BY <2>1, <2>2, <3>1, <3>2, <3>3
  <2> QED BY <2>3, <2>4
<1>3. ASSUME skew' = skew, slow' = slow, jumps' = jumps, timers' = timers
      PROVE  PutOff'
  BY <1>3 DEF PutOff
<1>4. CASE TimerExec \/ Build
  BY <1>2, <1>4 DEF TimerExec, Build, Sound, Due
<1>5. CASE TimerCall \/ FdCall \/ FdReturns \/ Wake
  BY <1>3, <1>5 DEF TimerCall, FdCall, FdReturns, Wake, time
<1>6. CASE TimerExecEnds \/ FdExecEnds
  <2>1. skew' = skew /\ slow' = slow /\ jumps' = jumps /\ ExecEnd
    BY <1>6 DEF TimerExecEnds, FdExecEnds, time
  <2>2. \A i \in 1 .. Len(timers') :
           \E j \in 1 .. Len(timers) : timers'[i].due = timers[j].due /\ timers'[i].kind = timers[j].kind
    BY <2>1, ExecEndFacts
  <2> HIDE DEF Noticed, Pending
  <2> QED BY <1>1, <2>1, <2>2
<1>7. CASE TimerReturns
  <2>1. /\ running \in 1 .. Len(timers) /\ Len(timers') = Len(timers)
        /\ \A i \in 1 .. Len(timers) : i # running => timers'[i] = timers[i]
    BY <1>7, TimerReturnsFacts
  <2>2. skew' = skew /\ slow' = slow /\ jumps' = jumps
    BY <1>7 DEF TimerReturns, time
  <2>3. Pending(timers'[running].due, timers'[running].kind.interval) \/ timers'[running] = timers[running]
    <3>1. CASE ~timers[running].deleted
      <4>1. /\ timers'[running].due = timers[running].due + timers[running].kind.interval
            /\ timers'[running].kind = timers[running].kind
            /\ timers[running].due <= -skew /\ timers[running].due \in Int
            /\ timers[running].kind.interval \in Int
        BY <1>7, <3>1, CallFacts
      <4>2. \A due, interval \in Int : due <= -skew => Pending(due + interval, interval)
        BY <1>0
      <4> HIDE DEF Pending
      <4> QED BY <4>1, <4>2
    <3> QED BY <1>7, <3>1, CallFacts
  <2> HIDE DEF Noticed, Pending
  <2> QED BY <1>1, <2>1, <2>2, <2>3
<1>8. CASE Callback
  <2>1. skew' = skew /\ slow' = slow /\ jumps' = jumps
    BY <1>8 DEF Callback, HookTimer, UnhookTimer, HookFd, UnhookFd, Close, Open, Changes, time
  <2>2. ASSUME NEW id \in TimerId, NEW kind \in Kind, HookTimer(id, kind)
        PROVE  PutOff'
    <3>1. /\ Len(timers') = Len(timers) + 1
          /\ \A i \in 1 .. Len(timers) : timers'[i] = timers[i]
          /\ timers'[Len(timers) + 1].kind = kind
          /\ timers'[Len(timers) + 1].due = FirstCall(kind)
      BY <2>2, HookTimerFacts
    <3>2. FirstCall(kind) <= kind.interval /\ FirstCall(kind) \in Int /\ kind.interval \in Int
      BY <1>0, FirstCallFacts, KindFacts
    <3>3. \A i \in 1 .. Len(timers') : i \in 1 .. Len(timers) \/ i = Len(timers) + 1
      BY <1>0, <3>1
    <3>4. Noticed(timers'[Len(timers) + 1].due, timers'[Len(timers) + 1].kind.interval)
      BY <1>b, <3>1, <3>2
    <3> HIDE DEF Noticed, Pending
    <3> QED BY <1>1, <2>1, <3>1, <3>3, <3>4
  <2>3. ASSUME NEW i \in 1 .. Len(timers), UnhookTimer(i)
        PROVE  PutOff'
    <3> HIDE DEF Noticed, Pending
    <3> QED BY <1>1, <2>1, <2>3, UnhookTimerFacts
  <2>4. ASSUME timers' = timers
        PROVE  PutOff'
    BY <1>3, <2>1, <2>4
  <2> QED BY <1>8, <2>2, <2>3, <2>4 DEF Callback, HookFd, UnhookFd, Close, Open
<1>9. ASSUME Shift(1), jumps' = jumps, slow' = slow \/ slow' = slow + 1
      PROVE  PutOff'
  <2>1. /\ Len(timers') = Len(timers) /\ skew' = skew + 1
        /\ \A i \in 1 .. Len(timers) :
              timers'[i].due = timers[i].due - 1 /\ timers'[i].kind = timers[i].kind
    BY <1>9, ShiftFacts DEF Shift
  <2> SUFFICES ASSUME jumps <= 1, NEW i \in 1 .. Len(timers)
               PROVE  \/ timers[i].due - 1 < timers[i].kind.interval + Skew + MaxSleep + slow'
                      \/ timers[i].due - 1 <= timers[i].kind.interval + MaxSleep + slow' - (skew + 1)
    BY <1>9, <2>1 DEF PutOff
  <2>2. Off(timers[i].due, timers[i].kind.interval)
    BY <1>a
  <2>3. \A due, interval \in Int : Off(due, interval) =>
           \/ due - 1 < interval + Skew + MaxSleep + slow'
           \/ due - 1 <= interval + MaxSleep + slow' - (skew + 1)
    BY <1>0, <1>9
  <2> HIDE DEF Off
  <2> QED BY <1>i, <2>2, <2>3
<1>10. ASSUME NEW n \in Jumps, Jump(n)
       PROVE  PutOff'
  <2>1. n \in Int /\ Shift(n) /\ jumps' = jumps + 1 /\ slow' = slow
    BY <1>0, <1>10 DEF Jump
  <2>2. /\ Len(timers') = Len(timers) /\ skew' = skew + n
        /\ \A i \in 1 .. Len(timers) :
              timers'[i].due = timers[i].due - n /\ timers'[i].kind = timers[i].kind
    BY <2>1, ShiftFacts DEF Shift
  <2> SUFFICES ASSUME jumps + 1 <= 1, NEW i \in 1 .. Len(timers)
               PROVE  timers[i].due - n <= timers[i].kind.interval + MaxSleep + slow - (skew + n)
    BY <2>1, <2>2 DEF PutOff
  <2>3. timers[i].due <= timers[i].kind.interval /\ skew <= MaxSleep + slow
    BY <1>0 DEF Clock
  <2>4. \A due, interval \in Int :
           due <= interval => due - n <= interval + MaxSleep + slow - (skew + n)
    BY <1>0, <2>1, <2>3
  <2> QED BY <1>i, <2>3, <2>4
<1>11. CASE Environment
  <2>1. CASE Tick
    BY <1>9, <2>1 DEF Tick
  <2>2. CASE Slow
    BY <1>9, <2>2 DEF Slow
  <2>3. ASSUME NEW fd \in Fd, Arrives(fd)
        PROVE  PutOff'
    BY <1>3, <2>3 DEF Arrives, time
  <2> QED BY <1>10, <1>11, <2>1, <2>2, <2>3 DEF Environment
<1>12. CASE UNCHANGED vars
  BY <1>3, <1>12 DEF vars
<1> QED BY <1>4, <1>5, <1>6, <1>7, <1>8, <1>11, <1>12 DEF Next, Loop

\* The first timer of the program is an interval away.
LEMMA InitDates ==
    ASSUME Init
    PROVE  /\ Len(timers) = 1 /\ timers[1].kind \in Kind
           /\ timers[1].due = timers[1].kind.interval /\ ~timers[1].deleted
<1>1. PICK kind \in Kind :
         timers = <<[id |-> CHOOSE id \in TimerId : TRUE, kind |-> kind, due |-> kind.interval,
                     remaining |-> kind.max_calls, deleted |-> FALSE]>>
  BY DEF Init
<1> QED BY <1>1

LEMMA InitClock ==
    ASSUME Init
    PROVE  Clock /\ PutOff /\ Undisturbed
<1>1. /\ Len(timers) = 1 /\ timers[1].kind \in Kind
      /\ timers[1].due = timers[1].kind.interval /\ timers[1].kind.interval \in Nat \ {0}
  BY InitDates, KindFacts
<1>2. \A i \in 1 .. Len(timers) : i = 1
  BY <1>1
<1>3. MaxSleep \in Nat /\ Skew \in Nat \ {0} /\ skew = 0 /\ slow = 0 /\ pc = "top"
  BY ConstantsAssumption DEF Init
<1>4. 0 \in 0 .. MaxSleep + 0
  BY <1>3
<1>5. timers[1].due < timers[1].kind.interval + Skew + MaxSleep + 0
  BY <1>1, <1>3
<1>6. Clock
  BY <1>1, <1>2, <1>3, <1>4 DEF Clock
<1>7. PutOff
  BY <1>1, <1>2, <1>3, <1>5 DEF PutOff
<1>8. Undisturbed
  BY <1>1, <1>2, <1>3 DEF Undisturbed
<1> QED BY <1>6, <1>7, <1>8

\* Sound and Clock are an invariant together.
LEMMA AlwaysClock == Spec => [](Sound /\ Clock)
<1>1. Sound /\ Clock /\ [Next]_vars => Sound' /\ Clock'
  BY SoundStep, ClockStep
<1>2. Init => Sound /\ Clock
  BY InitSound, InitClock
<1> QED BY <1>1, <1>2, PTL DEF Spec

\* A clock set back once delays a timer by less than what is noticed, a sleep
\* and the slow callbacks.
THEOREM NeverStalled == Spec => []NotStalled
<1>1. Init => PutOff
  BY InitClock
<1>2. Sound /\ Clock /\ PutOff /\ [Next]_vars => PutOff'
  BY PutOffStep
<1>3. Sound /\ PutOff => NotStalled
  <2> SUFFICES ASSUME Sound, PutOff, jumps <= 1, skew = 0, NEW i \in DOMAIN timers
               PROVE  timers[i].due < timers[i].kind.interval + Skew + MaxSleep + slow
    BY DEF NotStalled
  <2>0. timers \in Seq(Timer) /\ slow \in 0 .. MaxSlow
    BY DEF Sound, Scalars, Lists
  <2>1. timers \in Seq(Timer) /\ i \in 1 .. Len(timers) /\ slow \in Nat /\ Skew \in Nat \ {0}
        /\ MaxSleep \in Nat
    <3>1. slow \in Nat /\ Skew \in Nat \ {0} /\ MaxSleep \in Nat
      BY <2>0, ConstantsAssumption
    <3>2. DOMAIN timers = 1 .. Len(timers)
      BY <2>0
    <3> QED BY <2>0, <3>1, <3>2
  <2>2. timers[i].due \in Int /\ timers[i].kind.interval \in Nat
    BY <2>1, TimerFacts, KindFacts
  <2>3. \/ timers[i].due < timers[i].kind.interval + Skew + MaxSleep + slow
        \/ timers[i].due <= timers[i].kind.interval + MaxSleep + slow - 0
    BY <2>1 DEF PutOff
  <2>4. \A due, interval \in Int :
           due <= interval + MaxSleep + slow - 0 => due < interval + Skew + MaxSleep + slow
    BY <2>1
  <2> QED BY <2>2, <2>3, <2>4
<1> QED BY <1>1, <1>2, <1>3, AlwaysClock, PTL DEF Spec

\* Without disturbance: timers are passed by the loop when they are not due, or
\* were called, and the sleep ends before the next date.
LEMMA UndisturbedStep ==
    ASSUME Regular, Sound, Clock, Undisturbed, [Next]_vars
    PROVE  Undisturbed'
<1>0. /\ timers \in Seq(Timer) /\ Len(timers) \in Nat /\ second \in 0 .. Align - 1
      /\ MaxSleep \in Nat /\ slow \in Nat /\ jumps \in Nat /\ sleep \in 0 .. MaxSleep
      /\ Skew \in Nat \ {0} /\ MaxSleep < Skew /\ cursor \in Nat
  <2>1. timers \in Seq(Timer) /\ cursor \in Nat
    BY DEF Sound, Lists
  <2>2. second \in 0 .. Align - 1 /\ slow \in 0 .. MaxSlow /\ jumps \in 0 .. MaxJumps /\ sleep \in 0 .. MaxSleep
    BY DEF Sound, Scalars
  <2> QED BY <2>1, <2>2, ConstantsAssumption
<1>i. \A i \in 1 .. Len(timers) :
         timers[i].due \in Int /\ timers[i].kind \in Kind /\ timers[i].kind.interval \in Nat \ {0}
  BY <1>0, TimerFacts, KindFacts
<1>1. CASE Slow
  BY <1>0, <1>1 DEF Slow, Undisturbed
<1>2. ASSUME NEW n \in Jumps, Jump(n)
      PROVE  Undisturbed'
  BY <1>0, <1>2 DEF Jump, Undisturbed
<1>3. CASE UNCHANGED vars
  BY <1>3 DEF vars, Undisturbed, Passed
<1>4. ASSUME NEW fd \in Fd, Arrives(fd)
      PROVE  Undisturbed'
  BY <1>4 DEF Arrives, time, Undisturbed, Passed
<1>5. ASSUME Loop \/ Callback \/ Tick
      PROVE  Undisturbed'
  <2>1. jumps' = jumps /\ slow' = slow
    BY <1>5 DEF Loop, TimerExec, TimerCall, TimerReturns, TimerExecEnds, Build, Wake, FdCall, FdReturns,
       FdExecEnds, Callback, HookTimer, UnhookTimer, HookFd, UnhookFd, Close, Open, Changes, Tick, time
  <2> SUFFICES ASSUME jumps = 0, slow = 0
               PROVE  Undisturbed'
    BY <2>1 DEF Undisturbed
  <2>2. skew \in 0 .. MaxSleep /\ (pc = "poll" => skew + sleep <= MaxSleep)
    <3>1. skew \in 0 .. MaxSleep + 0 /\ (pc = "poll" => skew + sleep <= MaxSleep)
      BY DEF Clock
    <3> QED BY <1>0, <3>1
  <2>3. pc \in {"timers", "timer_cb", "build"} => skew = 0
    BY DEF Undisturbed
  <2>4. pc = "timer_cb" => Passed(running)
    BY DEF Undisturbed
  <2>5. \A i \in 1 .. Len(timers) : ~timers[i].deleted =>
           /\ timers[i].due >= 0
           /\ pc = "poll" => sleep <= timers[i].due
           /\ pc = "build" => timers[i].due >= 1
           /\ pc \in {"timers", "timer_cb"} /\ i # running /\ Passed(i) => timers[i].due >= 1
    BY DEF Undisturbed
  <2>6. Reinitialized = timers
    <3>1. ~ (skew <= -Skew \/ skew >= Skew)
      BY <1>0, <2>2
    <3> QED BY <3>1 DEF Reinitialized
  <2>7. late = skew \/ pc \notin {"timers", "timer_cb"}
    BY DEF Sound, Due
  <2>8. running = 0 \/ pc \in {"timer_cb", "fd_cb"}
    BY DEF Sound, Lists
  <2>9. CASE TimerExec
    <3>1. timers' = timers /\ skew' = 0 /\ pc' = "timers" /\ cursor' = 1
      BY <2>6, <2>9 DEF TimerExec
    <3>2. \A i \in 1 .. Len(timers) : ~ (1 = 0 \/ i < 1)
      BY <1>0
    <3> QED BY <1>0, <2>5, <3>1, <3>2 DEF Undisturbed, Passed
  <2>10. CASE TimerCall
    <3>1. /\ timers' = timers /\ skew' = 0 /\ pc' = "timer_cb" /\ pc = "timers" /\ running = 0 /\ late = 0
      BY <2>3, <2>7, <2>8, <2>10 DEF TimerCall, time
    <3>2. /\ running' \in 1 .. Len(timers) /\ cursor # 0
          /\ cursor' = IF running' < Len(timers) THEN running' + 1 ELSE 0
          /\ \A j \in 1 .. Len(timers) :
                j >= cursor /\ j < running' /\ ~timers[j].deleted => ~ (timers[j].due <= 0)
      BY <2>10, <3>1, TimerCallFacts
    <3>c. PICK r \in 1 .. Len(timers) : running' = r
      BY <3>2
    <3>d. r \in Nat /\ 1 <= r /\ r <= Len(timers)
      BY <1>0
    <3>e. \/ r < Len(timers) /\ cursor' = r + 1
          \/ r = Len(timers) /\ cursor' = 0
      <4>1. cursor' = IF r < Len(timers) THEN r + 1 ELSE 0
        BY <3>2, <3>c
      <4>2. r < Len(timers) \/ r = Len(timers)
        BY <1>0, <3>d
      <4> QED BY <1>0, <3>d, <4>1, <4>2
    <3>3. ASSUME NEW i \in 1 .. Len(timers), ~timers[i].deleted, i # running', cursor' = 0 \/ i < cursor'
          PROVE  timers[i].due >= 1
      <4>1. i < running'
        <5>0. i \in Nat /\ i <= Len(timers) /\ i # r
          BY <1>0, <3>3, <3>c
        <5>1. CASE r = Len(timers)
          BY <1>0, <3>c, <3>d, <5>0, <5>1
        <5>2. CASE cursor' = r + 1
          <6>1. i < r + 1
            BY <3>d, <3>3, <5>2
          <6>2. \A x, y \in Nat : x < y + 1 /\ x # y => x < y
            OBVIOUS
          <6> QED BY <3>c, <3>d, <5>0, <6>1, <6>2
        <5> QED BY <3>e, <5>1, <5>2
      <4>2. CASE i < cursor
        <5>1. i # running
          BY <3>1
        <5> QED BY <2>5, <3>1, <3>3, <4>2, <5>1 DEF Passed
      <4>3. CASE i >= cursor
        <5>1. ~ (timers[i].due <= 0) /\ timers[i].due \in Int
          BY <1>i, <3>2, <3>3, <4>1, <4>3
        <5> QED BY <5>1
      <4> QED BY <1>0, <4>2, <4>3
    <3>4. cursor' = 0 \/ running' < cursor'
      <4>1. r < r + 1
        BY <3>d
      <4> QED BY <3>c, <3>e, <4>1
    <3> QED BY <1>0, <2>5, <3>1, <3>3, <3>4 DEF Undisturbed, Passed
  <2>11. CASE TimerReturns
    <3>1. /\ running \in 1 .. Len(timers) /\ Len(timers') = Len(timers)
          /\ \A i \in 1 .. Len(timers) : i # running => timers'[i] = timers[i]
      BY <2>11, TimerReturnsFacts
    <3>2. /\ pc = "timer_cb" /\ pc' = "timers" /\ skew' = 0 /\ cursor' = cursor
      BY <2>3, <2>11 DEF TimerReturns, time
    <3>3. ~timers'[running].deleted => timers'[running].due >= 1
      <4>1. CASE timers[running].deleted
        BY <2>11, <4>1, CallFacts
      <4>2. CASE ~timers[running].deleted
        <5>1. timers'[running].due = timers[running].due + timers[running].kind.interval
          BY <2>11, <4>2, CallFacts
        <5>2. timers[running].due >= 0 /\ timers[running].due \in Int
              /\ timers[running].kind.interval \in Nat \ {0}
          BY <1>i, <2>5, <3>1, <4>2
        <5> QED BY <5>1, <5>2
      <4> QED BY <4>1, <4>2
    <3>4. ASSUME NEW i \in 1 .. Len(timers), ~timers'[i].deleted
          PROVE  timers'[i].due >= 0 /\ (cursor = 0 \/ i < cursor => timers'[i].due >= 1)
      <4>1. CASE i = running
        <5>1. timers'[running].due \in Int
          <6>1. timers' \in Seq(Timer)
            BY <2>11, TimerReturnsFacts
          <6> QED BY <3>1, <6>1, TimerFacts
        <5> QED BY <3>3, <3>4, <4>1, <5>1
      <4>2. CASE i # running
        <5>1. timers'[i] = timers[i]
          BY <3>1, <4>2
        <5> QED BY <2>5, <3>2, <3>4, <4>2, <5>1 DEF Passed
      <4> QED BY <4>1, <4>2
    <3> QED BY <1>0, <3>1, <3>2, <3>4 DEF Undisturbed, Passed
  <2>12. CASE TimerExecEnds
    <3>1. pc = "timers" /\ pc' = "build" /\ skew' = 0 /\ late = 0 /\ running = 0
      BY <2>3, <2>7, <2>8, <2>12 DEF TimerExecEnds
    <3>2. \A j \in 1 .. Len(timers) : ~timers[j].deleted => timers[j].due >= 1
      <4> SUFFICES ASSUME NEW j \in 1 .. Len(timers), ~timers[j].deleted
                   PROVE  timers[j].due >= 1
        OBVIOUS
      <4>1. CASE cursor = 0 \/ j < cursor
        BY <2>5, <3>1, <4>1 DEF Passed
      <4>2. CASE cursor # 0 /\ j >= cursor
        <5>1. timers[j] \notin DueTimers
          BY <1>0, <2>12, <4>2, FirstFromFacts DEF TimerExecEnds
        <5>2. timers[j] \in Listed(timers)
          BY <1>0 DEF Listed
        <5>3. ~ (timers[j].due <= 0) /\ timers[j].due \in Int
          BY <1>i, <3>1, <5>1, <5>2 DEF DueTimers
        <5> QED BY <5>3
      <4> QED BY <1>0, <4>1, <4>2
    <3>3. \A i \in 1 .. Len(timers') : timers'[i].due >= 1 /\ timers'[i].due >= 0
      <4> SUFFICES ASSUME NEW i \in 1 .. Len(timers')
                   PROVE  timers'[i].due >= 1 /\ timers'[i].due >= 0
        OBVIOUS
      <4>1. PICK j \in 1 .. Len(timers) : timers'[i] = timers[j] /\ ~timers[j].deleted
        BY <2>12, ExecEndFacts DEF TimerExecEnds
      <4>2. timers[j].due \in Int /\ timers[j].due >= 1
        BY <1>i, <3>2, <4>1
      <4> QED BY <4>1, <4>2
    <3> QED BY <1>0, <3>1, <3>3 DEF Undisturbed
  <2>13. CASE Build
    <3>1. pc = "build" /\ pc' = "poll" /\ skew' = 0 /\ timers' = timers
      BY <2>6, <2>13 DEF Build
    <3>2. \A i \in 1 .. Len(timers) : timers[i].due >= 0 => sleep' <= timers[i].due
      BY <2>13, <3>1, BuildFacts
    <3> QED BY <1>0, <2>5, <3>1, <3>2 DEF Undisturbed
  <2>14. CASE Wake \/ FdCall \/ FdReturns
    <3>1. timers' = timers /\ skew' = skew /\ pc' \in {"top", "fds", "fd_cb"}
      BY <2>14, WakeFacts DEF Wake, FdCall, FdReturns, time
    <3> QED BY <1>0, <2>2, <2>5, <3>1 DEF Undisturbed
  <2>15. CASE FdExecEnds
    <3>1. pc' = "top" /\ skew' = skew
      BY <2>15 DEF FdExecEnds, time
    <3>2. \A i \in 1 .. Len(timers') : timers'[i].due >= 0
      BY <2>5, <2>15, ExecEndFacts DEF FdExecEnds
    <3> QED BY <1>0, <2>2, <3>1, <3>2 DEF Undisturbed
  <2>16. CASE Callback
    <3>1. UNCHANGED <<pc, cursor, running, skew>> /\ pc \in {"timer_cb", "fd_cb"}
      BY <2>16 DEF Callback, HookTimer, UnhookTimer, HookFd, UnhookFd, Close, Open, Changes, InCallback, time
    <3>2. ASSUME \A i \in 1 .. Len(timers') :
                    \/ i \in 1 .. Len(timers) /\ timers'[i] = timers[i]
                    \/ timers'[i].deleted
                    \/ timers'[i].due \in Int /\ timers'[i].due >= 1
          PROVE  Undisturbed'
      <4>1. ASSUME NEW i \in 1 .. Len(timers'), ~timers'[i].deleted
            PROVE  timers'[i].due >= 0 /\ (pc = "timer_cb" /\ i # running /\ Passed(i) => timers'[i].due >= 1)
        <5>1. CASE i \in 1 .. Len(timers) /\ timers'[i] = timers[i]
          BY <2>5, <4>1, <5>1
        <5>2. CASE timers'[i].due \in Int /\ timers'[i].due >= 1
          BY <5>2
        <5> QED BY <3>2, <4>1, <5>1, <5>2
      <4>2. skew <= MaxSleep
        BY <1>0, <2>2
      <4> QED BY <2>3, <2>4, <3>1, <4>1, <4>2 DEF Undisturbed, Passed
    <3>3. ASSUME NEW id \in TimerId, NEW kind \in Kind, HookTimer(id, kind)
          PROVE  Undisturbed'
      <4>1. /\ Len(timers') = Len(timers) + 1
            /\ \A i \in 1 .. Len(timers) : timers'[i] = timers[i]
            /\ timers'[Len(timers) + 1].due = FirstCall(kind)
        BY <3>3, HookTimerFacts
      <4>2. FirstCall(kind) >= 1 /\ FirstCall(kind) \in Int
        BY <1>0, FirstCallLater, FirstCallFacts
      <4>3. \A i \in 1 .. Len(timers') : i \in 1 .. Len(timers) \/ i = Len(timers) + 1
        BY <1>0, <4>1
      <4> QED BY <3>2, <4>1, <4>2, <4>3
    <3>4. ASSUME NEW i \in 1 .. Len(timers), UnhookTimer(i)
          PROVE  Undisturbed'
      BY <3>2, <3>4, UnhookTimerFacts
    <3>5. ASSUME timers' = timers
          PROVE  Undisturbed'
      BY <3>2, <3>5
    <3> QED BY <2>16, <3>3, <3>4, <3>5 DEF Callback, HookFd, UnhookFd, Close, Open
  <2>17. CASE Tick
    <3>1. Shift(1) /\ pc = "poll" /\ pc' = "poll" /\ sleep > 0 /\ sleep' = sleep - 1
      BY <2>17 DEF Tick, Shift
    <3>2. /\ Len(timers') = Len(timers) /\ skew' = skew + 1
          /\ \A i \in 1 .. Len(timers) :
                timers'[i].due = timers[i].due - 1 /\ timers'[i].deleted = timers[i].deleted
      BY <3>1, ShiftFacts DEF Shift
    <3>3. skew' <= MaxSleep
      BY <1>0, <2>2, <3>1, <3>2
    <3>4. \A i \in 1 .. Len(timers) :
             ~timers[i].deleted => timers[i].due - 1 >= 0 /\ sleep - 1 <= timers[i].due - 1
      <4> SUFFICES ASSUME NEW i \in 1 .. Len(timers), ~timers[i].deleted
                   PROVE  timers[i].due - 1 >= 0 /\ sleep - 1 <= timers[i].due - 1
        OBVIOUS
      <4>1. sleep <= timers[i].due /\ timers[i].due \in Int
        BY <1>i, <2>5, <3>1
      <4> QED BY <1>0, <3>1, <4>1
    <3> QED BY <3>1, <3>2, <3>3, <3>4 DEF Undisturbed
  <2> QED BY <1>5, <2>9, <2>10, <2>11, <2>12, <2>13, <2>14, <2>15, <2>16, <2>17 DEF Loop
<1> QED BY <1>1, <1>2, <1>3, <1>4, <1>5 DEF Next, Environment

\* As long as the clock is not touched and no callback takes long, timers are
\* called on their date, to the second, whatever the callbacks hook and unhook.
THEOREM AlwaysPunctual ==
    ASSUME Regular
    PROVE  Spec => []Punctual
<1>1. Init => Undisturbed
  BY InitClock
<1>2. Sound /\ Clock /\ Undisturbed /\ [Next]_vars => Undisturbed'
  BY UndisturbedStep
<1>3. Sound /\ Undisturbed => Punctual
  <2> SUFFICES ASSUME Sound, Undisturbed, jumps = 0, slow = 0, NEW i \in DOMAIN timers,
                      ~timers[i].deleted
               PROVE  timers[i].due >= 0 /\ (pc = "timer_cb" /\ running = i => timers[i].due = 0)
    BY DEF Punctual
  <2>0. timers \in Seq(Timer)
    BY DEF Sound, Lists
  <2>1. i \in 1 .. Len(timers)
    BY <2>0
  <2>2. timers[i].due \in Int /\ timers[i].due >= 0
    BY <2>0, <2>1, TimerFacts DEF Undisturbed
  <2>3. pc = "timer_cb" => late = 0 /\ timers[running].due <= -late
    BY DEF Sound, Due, Undisturbed
  <2> QED BY <2>2, <2>3
<1> QED BY <1>1, <1>2, <1>3, AlwaysClock, PTL DEF Spec

\* Timers are called on time, in the three senses, for any timers, lists of
\* hooks, changes of the clock and slow callbacks.
THEOREM AlwaysOnTime ==
    ASSUME Regular
    PROVE  Spec => []OnTime
<1>1. Punctual /\ StaysAligned /\ NotStalled => OnTime
  BY DEF OnTime
<1> QED BY <1>1, AlwaysPunctual, AlwaysAligned, NeverStalled, PTL
-----------------------------------------------------------------------------
(***************************************************************************)
(* ConfigFile.                                                             *)
(***************************************************************************)
-----------------------------------------------------------------------------
(* The inductive invariant.                                                *)
Values == Number \cup Int32 \cup {Null, Absent, Empty}

Typed ==
    /\ up \in BOOLEAN
    /\ value \in [All -> Values] /\ told \in [Option -> Values]
    /\ loaded \subseteq All /\ strayed \subseteq Option
    /\ op \in [kind : {"idle", "writing", "reading", "resetting"}, left : SUBSET All,
               lines : Lines, then : {"none", "started", "reloaded"}]
    /\ file \in [lines : Lines, whole : BOOLEAN]
    /\ \A o \in Option : file.lines[o] # Empty /\ op.lines[o] # Empty
    /\ alone \in {"no", "started", "reloaded"}
    /\ ~up => op.kind = "idle" /\ alone = "no"

\* Options of the program are integers, or null where they may be; those of the
\* user are never null.
Proper(f) ==
    /\ f \in [All -> Values]
    /\ \A o \in Option : f[o] \in Int32 \cup {Null} /\ (f[o] = Null => o \in NullAllowed)
    /\ \A o \in UserOption : f[o] # Null

OwnersKnow ==
    /\ up => Proper(value)
    /\ saved # Absent => Proper(saved)

\* The temporary file has the value of each option that was written.
Disk ==
    /\ FileIsWhole
    /\ op.kind = "writing" => \A o \in All : o \in op.left \/ op.lines[o] = value[o]

\* What the start of the program leaves of each option, while it reads.
Begun(o) == IF o \in Option THEN Default ELSE Absent
Restored(o) == o \in UserOption \/ saved[o] = Null \/ InRange(saved[o]) => value[o] = saved[o]
Started ==
    alone = "started" =>
        /\ op.kind # "resetting" /\ op.then # "reloaded"
        /\ op.kind = "writing" /\ op.then = "started" => \A o \in All : value[o] = Begun(o)
        /\ op.kind = "reading" =>
              /\ op.then = "started"
              /\ \A o \in op.left : value[o] = Begun(o)
              /\ saved # Absent => \A o \in All : o \in op.left \/ Restored(o)
        /\ op.kind = "idle" \/ op.then = "none" =>
              (saved # Absent => \A o \in All : Restored(o))

\* What a reload leaves of each option, before its line is read, before the
\* options without a line are reset, and in the end.
Unread(o) == o \notin loaded /\ (o \in UserOption => value[o] = Absent)
Reread(o) == Valid(o, file.lines[o]) => value[o] = ReadAtStart(o, file.lines[o])
LineRead(o) == IF file.lines[o] = Absent THEN Unread(o) ELSE o \in loaded /\ Reread(o)
Reloaded ==
    alone = "reloaded" =>
        /\ op.then # "started"
        /\ op.kind = "writing" /\ op.then = "reloaded" => \A o \in All : Unread(o)
        /\ op.kind = "reading" =>
              /\ op.then = "reloaded"
              /\ \A o \in All : IF o \in op.left THEN Unread(o) ELSE LineRead(o)
        /\ op.kind = "resetting" =>
              \A o \in All : IF o \in op.left THEN LineRead(o) ELSE Reread(o)
        /\ op.kind = "idle" \/ (op.kind = "writing" /\ op.then = "none") =>
              \A o \in All : Reread(o)

IInv == Typed /\ OwnersKnow /\ ValueInRange /\ ChangesAreTold /\ Disk /\ Started /\ Reloaded

-----------------------------------------------------------------------------
(* Integers and values.                                                    *)

\* The rest of a small number.
LEMMA ModSmall ==
    ASSUME NEW k \in Nat, NEW m \in Nat, k < m
    PROVE  k % m = k
  <1>1. m > 0 /\ k % m \in 0 .. m - 1
    OBVIOUS
  <1>2. k = m * (k \div m) + (k % m)
    BY <1>1
  <1>3. k \div m = 0
    BY <1>1
  <1> QED
    BY <1>1, <1>2, <1>3

\* A number that fits in an int is not changed by the conversion, and the
\* result of the conversion is an int.
LEMMA WrapFacts ==
    /\ \A n \in Int : Wrap(n) \in Int32
    /\ \A n \in Int32 : Wrap(n) = n
  <1> DEFINE m == 2 * IntMax + 2
  <1>1. IntMax \in Nat /\ m \in Nat \ {0}
    BY ConfigAssumption
  <1>2. ASSUME NEW n \in Int
        PROVE  (n + IntMax + 1) % m \in 0 .. m - 1
    <2> DEFINE k == n + IntMax + 1
    <2>1. k \in Int
      BY <1>1
    <2> HIDE DEF k, m
    <2> QED BY <2>1, <1>1
  <1>3. ASSUME NEW n \in Int32
        PROVE  (n + IntMax + 1) % m = n + IntMax + 1
    <2> DEFINE k == n + IntMax + 1
    <2>1. k \in 0 .. m - 1
      BY <1>1 DEF Int32
    <2>2. k \in Nat /\ m \in Nat /\ k < m
      BY <1>1, <2>1
    <2> HIDE DEF k, m
    <2>3. k % m = k
      BY <2>2, ModSmall
    <2> QED BY <2>3 DEF k
  <1> QED
    BY <1>1, <1>2, <1>3 DEF Wrap, Int32

\* The range is a part of the integers, the special values are not.
LEMMA ValueFacts ==
    /\ Min \in Int32 /\ Max \in Int32 /\ Default \in Int32 /\ InRange(Default)
    /\ Int32 \subseteq Int /\ Number \subseteq Int
    /\ Null \notin Int /\ Absent \notin Int /\ Empty \notin Int
    /\ Null # Absent /\ Empty # Null /\ Empty # Absent
    /\ Option \cap UserOption = {} /\ All = Option \cup UserOption
    /\ 0 \in Int32
  BY ConfigAssumption DEF Int32, InRange, All

\* What a set leaves: a value the option may have.
LEMMA SetToFacts ==
    ASSUME Proper(value), NEW o \in All, NEW v \in Values, v # Absent, v # Empty \/ o \in UserOption
    PROVE  /\ SetTo(o, v) \in Values
           /\ o \in Option => /\ SetTo(o, v) \in Int32 \cup {Null}
                              /\ SetTo(o, v) = Null => o \in NullAllowed
                              /\ SetTo(o, v) # value[o] /\ SetTo(o, v) # Null => InRange(SetTo(o, v))
           /\ o \in UserOption => SetTo(o, v) # Null
  <1>1. v \in Int => Wrap(v) \in Int32
    BY WrapFacts
  <1> QED
    BY <1>1, ValueFacts DEF SetTo, Proper, Values

\* What "++" and "--" leave.
LEMMA RelativeFacts ==
    ASSUME Proper(value), NEW o \in Option, NEW n \in Number
    PROVE  /\ Plus(o, n) \in Int32 \cup {Null} /\ Minus(o, n) \in Int32 \cup {Null}
           /\ Plus(o, n) = Null \/ Minus(o, n) = Null => o \in NullAllowed
           /\ n >= 0 /\ InRange(Old(o)) /\ {Old(o) + n, Old(o) - n} \subseteq Int32 =>
                 /\ Plus(o, n) = value[o] \/ InRange(Plus(o, n))
                 /\ Minus(o, n) = value[o] \/ InRange(Minus(o, n))
  <1>1. Old(o) \in Int32 /\ n \in Int
    BY ValueFacts DEF Old, Proper
  <1>2. Old(o) + n \in Int /\ Old(o) - n \in Int
    <2>1. Old(o) \in Int
      BY <1>1, ValueFacts
    <2> QED
      BY <1>1, <2>1
  <1>3. Wrap(Old(o) + n) \in Int32 /\ Wrap(Old(o) - n) \in Int32
    BY <1>2, WrapFacts
  <1>4. o \in All /\ value[o] \in Int32 \cup {Null} /\ (value[o] = Null => o \in NullAllowed)
    BY ValueFacts DEF Proper
  <1>5. /\ Plus(o, n) \in Int32 \cup {Null} /\ Minus(o, n) \in Int32 \cup {Null}
        /\ Plus(o, n) = Null \/ Minus(o, n) = Null => o \in NullAllowed
    BY <1>3, <1>4, ValueFacts DEF Plus, Minus
  <1>6. ASSUME n >= 0, InRange(Old(o)), {Old(o) + n, Old(o) - n} \subseteq Int32
        PROVE  /\ Plus(o, n) = value[o] \/ InRange(Plus(o, n))
               /\ Minus(o, n) = value[o] \/ InRange(Minus(o, n))
    <2>1. Wrap(Old(o) + n) = Old(o) + n /\ Wrap(Old(o) - n) = Old(o) - n
      BY <1>6, WrapFacts
    <2>2. Min \in Int /\ Max \in Int /\ Old(o) \in Int
      BY <1>1, ValueFacts
    <2> QED
      BY <1>1, <1>6, <2>1, <2>2 DEF Plus, Minus, InRange
  <1> QED
    BY <1>5, <1>6

\* The value of one option changes, and its owner is told.
LEMMA AssignFacts ==
    ASSUME Typed, NEW o \in All, NEW v \in Values, Assign(o, v)
    PROVE  /\ value' \in [All -> Values] /\ told' \in [Option -> Values]
           /\ value'[o] = v /\ \A p \in All : p # o => value'[p] = value[p]
           /\ ChangesAreTold /\ up' = up => ChangesAreTold'
  BY ValueFacts DEF Assign, Typed, ChangesAreTold

-----------------------------------------------------------------------------
(* The steps.                                                              *)

\* A value that one option may have keeps the values proper and in range, if
\* an option that has strayed is remembered.
LEMMA ProperAfter ==
    ASSUME IInv, up, up' = up, saved' = saved, NEW o \in All, NEW v \in Values, Assign(o, v),
           o \in Option => /\ v \in Int32 \cup {Null} /\ (v = Null => o \in NullAllowed)
                           /\ o \in strayed' \/ v = Null \/ InRange(v),
           o \in UserOption => v # Null,
           \A p \in Option : p = o \/ (p \in strayed => p \in strayed')
    PROVE  OwnersKnow' /\ ValueInRange' /\ ChangesAreTold'
  <1>1. /\ value' \in [All -> Values]
        /\ value'[o] = v /\ \A p \in All : p # o => value'[p] = value[p]
        /\ ChangesAreTold'
    BY AssignFacts DEF IInv
  <1>2. Proper(value')
    BY <1>1, ValueFacts DEF IInv, OwnersKnow, Proper
  <1>3. ValueInRange'
    BY <1>1, ValueFacts DEF IInv, ValueInRange, InRange
  <1> QED
    BY <1>1, <1>2, <1>3 DEF IInv, OwnersKnow, Proper

\* The user or a callback changes an option.
LEMMA ChangeStep ==
    ASSUME IInv, Changing, NEW o \in All, NEW v \in Values, Assign(o, v),
           strayed' \subseteq Option, loaded' \subseteq All,
           o \in Option => /\ v \in Int32 \cup {Null} /\ (v = Null => o \in NullAllowed)
                           /\ o \in strayed' \/ v = Null \/ InRange(v),
           o \in UserOption => v # Null,
           \A p \in Option : p = o \/ (p \in strayed => p \in strayed')
    PROVE  IInv'
  <1>1. OwnersKnow' /\ ValueInRange' /\ ChangesAreTold'
    BY ProperAfter DEF Changing, IInv
  <1>2. value' \in [All -> Values] /\ told' \in [Option -> Values]
    BY AssignFacts DEF IInv
  <1>3. Typed'
    BY <1>2 DEF IInv, Typed, Changing
  <1>4. Disk'
    BY DEF IInv, Disk, FileIsWhole, Exists, Changing
  <1>5. Started' /\ Reloaded'
    BY DEF Started, Reloaded, Changing
  <1> QED
    BY <1>1, <1>3, <1>4, <1>5 DEF IInv

\* The four commands that change an option.
LEMMA ChangesKeep ==
    ASSUME IInv,
           \/ \E o \in All : Unset(o) \/ \E v \in Number \cup {Null} : Set(o, v) \/ Create(o, v)
           \/ \E o \in Option, n \in Number : SetRelative(o, n)
    PROVE  IInv'
  <1>1. ASSUME NEW o \in All, Unset(o)
        PROVE  IInv'
    <2> DEFINE v == IF o \in UserOption THEN Absent ELSE Default
    <2>1. Changing /\ Assign(o, v) /\ strayed' = strayed \ {o} /\ loaded' = loaded
      BY <1>1 DEF Unset
    <2>2. v \in Values /\ (o \in Option => v = Default) /\ (o \in UserOption => v # Null)
      BY ValueFacts DEF Values
    <2>3. strayed \subseteq Option /\ loaded \subseteq All
      BY DEF IInv, Typed
    <2> HIDE DEF v
    <2> QED
      BY <2>1, <2>2, <2>3, ValueFacts, ChangeStep
  <1>2. ASSUME NEW o \in All, NEW v \in Number \cup {Null}, Set(o, v)
        PROVE  IInv'
    <2> DEFINE w == SetTo(o, v)
    <2>1. /\ Changing /\ Assign(o, w) /\ loaded' = loaded
          /\ strayed' = IF w = value[o] THEN strayed ELSE strayed \ {o}
      BY <1>2 DEF Set
    <2>2. Proper(value) /\ strayed \subseteq Option /\ loaded \subseteq All /\ up
      BY <2>1 DEF IInv, Typed, OwnersKnow, Changing
    <2>3. v \in Values /\ v # Absent /\ v # Empty
      BY ValueFacts DEF Values
    <2>4. /\ w \in Values
          /\ o \in Option => /\ w \in Int32 \cup {Null} /\ (w = Null => o \in NullAllowed)
                             /\ w # value[o] /\ w # Null => InRange(w)
          /\ o \in UserOption => w # Null
      BY <2>2, <2>3, SetToFacts
    <2>5. o \in Option => o \in strayed' \/ w = Null \/ InRange(w)
      BY <2>1, <2>2, <2>4, ValueFacts DEF IInv, ValueInRange
    <2> HIDE DEF w
    <2> QED
      BY <2>1, <2>2, <2>4, <2>5, ChangeStep
  <1>3. ASSUME NEW o \in All, NEW v \in Number \cup {Null}, Create(o, v)
        PROVE  IInv'
    <2> DEFINE w == Created(v)
    <2>1. /\ Changing /\ Assign(o, w) /\ loaded' = loaded \cup {o} /\ strayed' = strayed
          /\ o \in UserOption
      BY <1>3 DEF Create
    <2>2. strayed \subseteq Option /\ loaded \subseteq All
      BY DEF IInv, Typed
    <2>3. w \in Values /\ w # Null
      BY ValueFacts DEF Values, Created
    <2> HIDE DEF w
    <2> QED
      BY <2>1, <2>2, <2>3, ValueFacts, ChangeStep
  <1>4. ASSUME NEW o \in Option, NEW n \in Number, SetRelative(o, n)
        PROVE  IInv'
    <2>1. PICK w \in {Plus(o, n), Minus(o, n)} :
            /\ Changing /\ Assign(o, w) /\ loaded' = loaded
            /\ strayed' = IF n >= 0 /\ InRange(Old(o)) /\ {Old(o) + n, Old(o) - n} \subseteq Int32
                          THEN strayed ELSE strayed \cup {o}
      BY <1>4 DEF SetRelative
    <2>2. Proper(value) /\ strayed \subseteq Option /\ loaded \subseteq All /\ up /\ o \in All
      BY <2>1, ValueFacts DEF IInv, Typed, OwnersKnow, Changing
    <2>3. /\ w \in Int32 \cup {Null} /\ (w = Null => o \in NullAllowed)
          /\ o \in strayed' \/ w = value[o] \/ InRange(w)
      BY <2>1, <2>2, RelativeFacts
    <2>4. o \in strayed' \/ w = Null \/ InRange(w)
      BY <2>1, <2>2, <2>3 DEF IInv, ValueInRange
    <2>5. w \in Values /\ o \notin UserOption
      BY <2>3, ValueFacts DEF Values
    <2> QED
      BY <2>1, <2>2, <2>3, <2>4, <2>5, ChangeStep
  <1> QED
    BY <1>1, <1>2, <1>3, <1>4

\* The states of op, and the empty file.
LEMMA OpFacts ==
    /\ NoFile.lines \in Lines /\ NoFile.lines = [o \in All |-> Absent] /\ ~NoFile.whole
    /\ NoFile \in [lines : Lines, whole : BOOLEAN]
    /\ Idle.kind = "idle" /\ Idle.then = "none" /\ Idle.left = {} /\ Idle.lines = NoFile.lines
    /\ \A t : /\ Writing(t).kind = "writing" /\ Writing(t).then = t
              /\ Writing(t).left = All /\ Writing(t).lines = NoFile.lines
              /\ Reading(t).kind = "reading" /\ Reading(t).then = t
              /\ Reading(t).left = All /\ Reading(t).lines = NoFile.lines
    /\ Resetting.kind = "resetting" /\ Resetting.then = "none" /\ Resetting.left = All
    /\ Resetting.lines = NoFile.lines
    /\ \A k \in {Idle, Resetting} \cup {Writing(t) : t \in {"none", "started", "reloaded"}}
                   \cup {Reading(t) : t \in {"none", "started", "reloaded"}} :
          /\ k \in [kind : {"idle", "writing", "reading", "resetting"}, left : SUBSET All,
                    lines : Lines, then : {"none", "started", "reloaded"}]
          /\ \A o \in Option : k.lines[o] # Empty
  <1>1. NoFile.lines \in Lines /\ NoFile.lines = [o \in All |-> Absent]
    BY DEF NoFile, Lines
  <1>2. \A o \in Option : NoFile.lines[o] # Empty
    BY <1>1, ValueFacts
  <1> QED
    BY <1>1, <1>2 DEF NoFile, Idle, Writing, Reading, Resetting

\* A step that leaves the options and the file alone.
LEMMA QuietStep ==
    ASSUME IInv, UNCHANGED <<up, value, told, strayed, saved>>
    PROVE  OwnersKnow' /\ ValueInRange' /\ ChangesAreTold'
  BY DEF IInv, OwnersKnow, Proper, ValueInRange, ChangesAreTold, InRange

\* The program begins to write, or to read, the file.
LEMMA SaveKeeps ==
    ASSUME IInv, Save
    PROVE  IInv'
  <1>1. OwnersKnow' /\ ValueInRange' /\ ChangesAreTold'
    BY QuietStep DEF Save, history
  <1>2. Typed'
    BY OpFacts DEF IInv, Typed, Save, history
  <1>3. Disk'
    BY OpFacts DEF IInv, Disk, Save, history, FileIsWhole, Exists
  <1>4. Started' /\ Reloaded'
    BY OpFacts DEF IInv, Started, Reloaded, Save, history, Restored, Reread, Valid, ReadAtStart, InRange,
       Created, Wrap
  <1> QED
    BY <1>1, <1>2, <1>3, <1>4 DEF IInv

LEMMA StartKeeps ==
    ASSUME IInv, Start
    PROVE  IInv'
  <1>1. /\ value' \in [All -> Values]
        /\ \A o \in All : value'[o] = Begun(o)
        /\ up' /\ strayed' = {} /\ saved' = saved /\ told' = [o \in Option |-> Default]
    BY ValueFacts DEF Start, Values, Begun
  <1>2. OwnersKnow' /\ ValueInRange' /\ ChangesAreTold'
    <2>1. \A o \in Option : o \in All /\ value'[o] = Default /\ told'[o] = Default
      BY <1>1, ValueFacts DEF Begun
    <2>2. \A o \in UserOption : o \in All /\ value'[o] = Absent
      BY <1>1, ValueFacts DEF Begun
    <2>3. Proper(value')
      BY <1>1, <2>1, <2>2, ValueFacts DEF Proper
    <2> QED
      BY <1>1, <2>1, <2>3, ValueFacts DEF OwnersKnow, IInv, ValueInRange, ChangesAreTold, InRange, Proper
  <1>3. op' \in {Writing("started"), Reading("started")}
    BY DEF Start, Opened
  <1>4. Typed'
    <2>1. told' \in [Option -> Values]
      BY <1>1, ValueFacts DEF Values
    <2> QED
      BY <1>1, <1>3, <2>1, OpFacts DEF IInv, Typed, Start
  <1>5. Disk'
    BY <1>3, OpFacts DEF IInv, Disk, FileIsWhole, Exists, Start
  <1>6. Started'
    BY <1>1, <1>3, OpFacts DEF Started, Start, Begun
  <1>7. Reloaded'
    BY DEF Reloaded, Start
  <1> QED
    BY <1>2, <1>4, <1>5, <1>6, <1>7 DEF IInv

LEMMA ReloadKeeps ==
    ASSUME IInv, Reload
    PROVE  IInv'
  <1>1. /\ value' \in [All -> Values]
        /\ \A o \in Option : value'[o] = value[o]
        /\ \A o \in UserOption : value'[o] = Absent
        /\ up' = up /\ strayed' = strayed /\ saved' = saved /\ told' = told
    BY ValueFacts DEF Reload, Values, IInv, Typed
  <1>2. OwnersKnow' /\ ValueInRange' /\ ChangesAreTold'
    BY <1>1, ValueFacts DEF IInv, OwnersKnow, Proper, ValueInRange, ChangesAreTold, InRange
  <1>3. op' \in {Writing("reloaded"), Reading("reloaded")}
    BY DEF Reload, Opened
  <1>4. Typed'
    BY <1>1, <1>3, OpFacts DEF IInv, Typed, Reload
  <1>5. Disk'
    BY <1>3, OpFacts DEF IInv, Disk, FileIsWhole, Exists, Reload
  <1>6. Started'
    BY DEF Started, Reload
  <1>7. Reloaded'
    BY <1>1, <1>3, OpFacts DEF Reloaded, Reload, Unread
  <1> QED
    BY <1>2, <1>4, <1>5, <1>6, <1>7 DEF IInv

\* One more line of the temporary file.
LEMMA WriteLineKeeps ==
    ASSUME IInv, NEW o \in All, WriteLine(o)
    PROVE  IInv'
  <1>1. OwnersKnow' /\ ValueInRange' /\ ChangesAreTold'
    BY QuietStep DEF WriteLine, history
  <1>2. value[o] \in Values /\ (o \in Option => value[o] # Empty)
    BY ValueFacts DEF WriteLine, IInv, Typed, OwnersKnow, Proper
  <1>3. /\ op'.kind = "writing" /\ op'.then = op.then /\ op'.left = op.left \ {o}
        /\ op'.lines = [op.lines EXCEPT ![o] = value[o]]
        /\ op' \in [kind : {"idle", "writing", "reading", "resetting"}, left : SUBSET All,
                    lines : Lines, then : {"none", "started", "reloaded"}]
    BY <1>2 DEF WriteLine, IInv, Typed, Lines, Values
  <1>4. /\ op'.lines[o] = value[o]
        /\ \A p \in All : p # o => op'.lines[p] = op.lines[p]
    BY <1>3 DEF IInv, Typed, Lines
  <1>5. Typed'
    BY <1>2, <1>3, <1>4, ValueFacts DEF IInv, Typed, WriteLine, history
  <1>6. Disk'
    BY <1>3, <1>4 DEF IInv, Disk, WriteLine, history, FileIsWhole, Exists
  <1>7. Started' /\ Reloaded'
    BY <1>3 DEF IInv, Started, Reloaded, WriteLine, history, Restored, Reread, Valid, ReadAtStart,
       InRange, Created, Wrap, Unread
  <1> QED
    BY <1>1, <1>5, <1>6, <1>7 DEF IInv

\* What is written can be read: the lines of proper values give them back.
LEMMA WrittenIsRead ==
    ASSUME Proper(value), NEW o \in All, Valid(o, value[o])
    PROVE  value[o] = ReadAtStart(o, value[o])
  <1>1. o \in Option => value[o] \in Int32 \cup {Null} /\ value[o] # Absent
    BY ValueFacts DEF Proper
  <1>2. o \in Option /\ value[o] # Null => Wrap(value[o]) = value[o]
    BY <1>1, WrapFacts
  <1>3. o \in UserOption => value[o] # Null
    BY DEF Proper
  <1> QED
    BY <1>1, <1>2, <1>3, ValueFacts DEF ReadAtStart, Created

\* The temporary file replaces the file.
LEMMA RenameKeeps ==
    ASSUME IInv, Rename
    PROVE  IInv'
  <1>1. up /\ op.kind = "writing" /\ op.left = {} /\ Proper(value)
    BY DEF Rename, IInv, OwnersKnow
  <1>2. /\ UNCHANGED <<up, value, loaded, told, strayed, alone>> /\ saved' = value
        /\ file'.lines = op.lines /\ file'.whole /\ file' \in [lines : Lines, whole : BOOLEAN]
    BY DEF Rename, bounds, IInv, Typed
  <1>3. \A o \in All : file'.lines[o] = value[o]
    BY <1>1, <1>2 DEF IInv, Disk
  <1>4. \/ op' = Idle /\ op.then = "none"
        \/ op' = Reading(op.then) /\ op.then # "none"
    BY DEF Rename, AfterWrite
  <1>5. OwnersKnow' /\ ValueInRange' /\ ChangesAreTold'
    BY <1>1, <1>2 DEF IInv, OwnersKnow, Proper, ValueInRange, ChangesAreTold, InRange
  <1>6. Typed'
    <2>1. op.then \in {"none", "started", "reloaded"} /\ All = Option \cup UserOption
      BY DEF IInv, Typed, All
    <2>2. /\ op' \in [kind : {"idle", "writing", "reading", "resetting"}, left : SUBSET All,
                      lines : Lines, then : {"none", "started", "reloaded"}]
          /\ \A o \in Option : op'.lines[o] # Empty
      BY <1>4, <2>1, OpFacts
    <2>3. \A o \in Option : file'.lines[o] # Empty
      BY <1>2 DEF IInv, Typed
    <2> QED
      BY <1>1, <1>2, <2>2, <2>3 DEF IInv, Typed
  <1>7. Disk'
    BY <1>2, <1>3, <1>4, OpFacts DEF Disk, FileIsWhole, Exists
  <1>8. Started'
    <2>1. alone = "started" => op.then # "reloaded"
      BY DEF IInv, Started
    <2>2. alone = "started" /\ op.then = "started" => \A o \in All : value[o] = Begun(o)
      BY <1>1 DEF IInv, Started
    <2>3. op'.then = op.then /\ op'.kind \in {"idle", "reading"}
          /\ (op'.kind = "idle" <=> op.then = "none") /\ op'.left \subseteq All
          /\ (op'.kind = "reading" => op'.left = All)
      BY <1>4, OpFacts
    <2>4. op.then \in {"none", "started", "reloaded"}
      BY DEF IInv, Typed
    <2> QED
      BY <1>2, <2>1, <2>2, <2>3, <2>4 DEF Started, Restored, Begun
  <1>9. Reloaded'
    <2>1. op'.then = op.then /\ op'.kind \in {"idle", "reading"}
          /\ (op'.kind = "idle" <=> op.then = "none")
          /\ (op'.kind = "reading" => op'.left = All)
      BY <1>4, OpFacts
    <2>2. op.then \in {"none", "started", "reloaded"}
      BY DEF IInv, Typed
    <2>3. \A o \in All : Reread(o)'
      <3> SUFFICES ASSUME NEW o \in All, Valid(o, value[o])
                   PROVE  value[o] = ReadAtStart(o, value[o])
        BY <1>2, <1>3 DEF Reread, Valid, ReadAtStart, InRange, Created, Wrap
      <3> QED
        BY <1>1, WrittenIsRead
    <2>4. alone = "reloaded" =>
             op.then # "started" /\ (op.then = "reloaded" => \A o \in All : Unread(o))
      BY <1>1 DEF IInv, Reloaded
    <2>5. alone = "reloaded" => (op.then = "reloaded" => \A o \in All : Unread(o)')
      BY <1>2, <2>4 DEF Unread
    <2> QED
      BY <1>2, <2>1, <2>2, <2>3, <2>4, <2>5 DEF Reloaded
  <1> QED
    BY <1>5, <1>6, <1>7, <1>8, <1>9 DEF IInv

LEMMA WriteFailsKeeps ==
    ASSUME IInv, WriteFails
    PROVE  IInv'
  <1>1. OwnersKnow' /\ ValueInRange' /\ ChangesAreTold'
    BY QuietStep DEF WriteFails, history
  <1>2. UNCHANGED <<up, value, loaded, file, told, strayed, saved, alone>> /\ up /\ op.kind = "writing"
    BY DEF WriteFails, history
  <1>3. op.then \in {"none", "started", "reloaded"}
    BY DEF IInv, Typed
  <1>4. \/ op' = Idle /\ op.then = "none"
        \/ op' = Reading(op.then) /\ op.then # "none"
    BY DEF WriteFails, AfterWrite
  <1>5. /\ op' \in [kind : {"idle", "writing", "reading", "resetting"}, left : SUBSET All,
                    lines : Lines, then : {"none", "started", "reloaded"}]
        /\ \A o \in Option : op'.lines[o] # Empty
    BY <1>3, <1>4, OpFacts
  <1>6. op'.then = op.then /\ op'.kind \in {"idle", "reading"}
        /\ (op'.kind = "idle" <=> op.then = "none")
        /\ (op'.kind = "reading" => op'.left = All)
    BY <1>4, OpFacts
  <1>7. Typed'
    BY <1>2, <1>5 DEF IInv, Typed
  <1>8. Disk'
    BY <1>2, <1>6 DEF IInv, Disk, FileIsWhole, Exists
  <1>9. Started'
    BY <1>2, <1>3, <1>6 DEF IInv, Started, Restored, Begun, InRange
  <1>10. Reloaded'
    BY <1>2, <1>3, <1>6 DEF IInv, Reloaded, Unread, Reread, Valid, ReadAtStart, InRange, Created, Wrap
  <1> QED
    BY <1>1, <1>7, <1>8, <1>9, <1>10 DEF IInv

\* A line of the file is read.
LEMMA ReadLineKeeps ==
    ASSUME IInv, NEW o \in All, ReadLine(o)
    PROVE  IInv'
  <1> DEFINE line == file.lines[o]
             new == IF value[o] = Absent THEN Created(line) ELSE SetTo(o, line)
  <1>1. /\ up /\ op.kind = "reading" /\ Exists /\ o \in op.left
        /\ UNCHANGED <<up, file, saved, alone>>
    BY DEF ReadLine
  <1>2. /\ op'.kind = "reading" /\ op'.then = op.then /\ op'.left = op.left \ {o}
        /\ op'.lines = op.lines
        /\ op' \in [kind : {"idle", "writing", "reading", "resetting"}, left : SUBSET All,
                    lines : Lines, then : {"none", "started", "reloaded"}]
    BY DEF ReadLine, IInv, Typed
  <1>3. /\ Proper(value) /\ line \in Values /\ (o \in Option => line # Empty)
        /\ loaded \subseteq All /\ strayed \subseteq Option
    BY <1>1 DEF IInv, OwnersKnow, Typed, Lines, Values
  <1>4. CASE line = Absent
    <2>1. UNCHANGED <<value, told, loaded, strayed>>
      BY <1>4 DEF ReadLine
    <2>2. OwnersKnow' /\ ValueInRange' /\ ChangesAreTold'
      BY <1>1, <2>1, QuietStep
    <2>3. Typed' /\ Disk'
      BY <1>1, <1>2, <2>1 DEF IInv, Typed, Disk, FileIsWhole, Exists
    <2>4. Started'
      <3>1. ASSUME alone = "started"
            PROVE  /\ op.then = "started"
                   /\ \A p \in op.left : value[p] = Begun(p)
                   /\ saved # Absent => \A p \in All : p \in op.left \/ Restored(p)
        BY <1>1, <3>1 DEF IInv, Started
      <3>2. ASSUME alone = "started", saved # Absent
            PROVE  Restored(o)
        <4>1. saved[o] = Absent
          BY <1>1, <1>4, <3>2 DEF IInv, Disk, FileIsWhole
        <4>2. o \notin Option
          BY <4>1, <3>2, ValueFacts DEF IInv, OwnersKnow, Proper
        <4>3. value[o] = Absent
          BY <1>1, <3>1, <3>2, <4>2 DEF Begun
        <4> QED
          BY <4>1, <4>3 DEF Restored
      <3> QED
        BY <1>1, <1>2, <2>1, <3>1, <3>2 DEF Started, Restored, Begun, InRange
    <2>5. Reloaded'
      <3>1. ASSUME alone = "reloaded"
            PROVE  /\ op.then = "reloaded"
                   /\ \A p \in All : IF p \in op.left THEN Unread(p) ELSE LineRead(p)
        BY <1>1, <3>1 DEF IInv, Reloaded
      <3>2. \A p \in All : (Unread(p) => Unread(p)') /\ (LineRead(p) => LineRead(p)')
        BY <1>1, <2>1 DEF Unread, LineRead, Reread, Valid, ReadAtStart, InRange, Created, Wrap
      <3>3. alone = "reloaded" => LineRead(o)
        BY <1>1, <1>4, <3>1 DEF LineRead
      <3> QED
        BY <1>1, <1>2, <3>1, <3>2, <3>3 DEF Reloaded
    <2> QED
      BY <2>2, <2>3, <2>4, <2>5 DEF IInv
  <1>5. CASE line # Absent
    <2>1. /\ Assign(o, new) /\ loaded' = loaded \cup {o}
          /\ strayed' = IF value'[o] = value[o] THEN strayed ELSE strayed \ {o}
      BY <1>5 DEF ReadLine
    <2>2. /\ new \in Values
          /\ o \in Option => /\ new \in Int32 \cup {Null} /\ (new = Null => o \in NullAllowed)
                             /\ new # value[o] /\ new # Null => InRange(new)
                             /\ new = SetTo(o, line)
          /\ o \in UserOption => new # Null
      <3>1. o \in Option => value[o] # Absent
        BY <1>3, ValueFacts DEF Proper
      <3>2. Created(line) \in Values /\ Created(line) # Null
        BY <1>3, ValueFacts DEF Created, Values
      <3>3. /\ SetTo(o, line) \in Values
            /\ o \in Option => /\ SetTo(o, line) \in Int32 \cup {Null}
                               /\ SetTo(o, line) = Null => o \in NullAllowed
                               /\ SetTo(o, line) # value[o] /\ SetTo(o, line) # Null => InRange(SetTo(o, line))
            /\ o \in UserOption => SetTo(o, line) # Null
        BY <1>3, <1>5, SetToFacts, ValueFacts
      <3> QED
        BY <3>1, <3>2, <3>3
    <2> HIDE DEF new
    <2>3. /\ value' \in [All -> Values] /\ told' \in [Option -> Values]
          /\ value'[o] = new /\ \A p \in All : p # o => value'[p] = value[p]
      BY <2>1, <2>2, AssignFacts DEF IInv
    <2>4. OwnersKnow' /\ ValueInRange' /\ ChangesAreTold'
      <3>1. o \in Option => o \in strayed' \/ new = Null \/ InRange(new)
        BY <1>1, <2>1, <2>2, <2>3, ValueFacts DEF IInv, ValueInRange
      <3> QED
        BY <1>1, <2>1, <2>2, <3>1, ProperAfter
    <2>5. Typed'
      BY <1>1, <1>2, <1>3, <2>1, <2>3 DEF IInv, Typed
    <2>6. Disk'
      BY <1>1, <1>2 DEF IInv, Disk, FileIsWhole, Exists
    <2>7. Started'
      <3>1. ASSUME alone = "started"
            PROVE  /\ op.then = "started"
                   /\ \A p \in op.left : value[p] = Begun(p)
                   /\ saved # Absent => \A p \in All : p \in op.left \/ Restored(p)
        BY <1>1, <3>1 DEF IInv, Started
      <3>2. ASSUME alone = "started", saved # Absent
            PROVE  Restored(o)'
        <4>1. saved[o] = line /\ Proper(saved)
          BY <1>1, <3>2 DEF IInv, Disk, FileIsWhole, OwnersKnow
        <4>2. CASE o \in UserOption
          <5>1. value[o] = Absent /\ line # Null
            BY <1>1, <3>1, <3>2, <4>1, <4>2, ValueFacts DEF Begun, Proper
          <5>2. new = line
            BY <5>1 DEF new, Created
          <5> QED
            BY <1>1, <2>3, <4>1, <5>2 DEF Restored
        <4>3. CASE o \in Option
          <5>1. line \in Int32 \cup {Null} /\ (line = Null => o \in NullAllowed) /\ o \notin UserOption
            BY <4>1, <4>3, ValueFacts DEF Proper
          <5>2. line # Null => Wrap(line) = line
            BY <5>1, WrapFacts
          <5>3. line = Null \/ InRange(line) => new = line
            BY <2>2, <4>3, <5>1, <5>2 DEF SetTo
          <5> QED
            BY <1>1, <2>3, <4>1, <5>1, <5>3 DEF Restored, InRange
        <4> QED
          BY <4>2, <4>3 DEF All
      <3>3. \A p \in All : p # o => (Restored(p) => Restored(p)')
        BY <1>1, <2>3 DEF Restored, InRange
      <3> QED
        BY <1>1, <1>2, <2>3, <3>1, <3>2, <3>3 DEF Started, Begun, IInv, Typed
    <2>8. Reloaded'
      <3>1. ASSUME alone = "reloaded"
            PROVE  /\ op.then = "reloaded"
                   /\ \A p \in All : IF p \in op.left THEN Unread(p) ELSE LineRead(p)
        BY <1>1, <3>1 DEF IInv, Reloaded
      <3>2. \A p \in All : p # o => (Unread(p) => Unread(p)') /\ (LineRead(p) => LineRead(p)')
        BY <1>1, <2>1, <2>3 DEF Unread, LineRead, Reread, Valid, ReadAtStart, InRange, Created, Wrap
      <3>3. ASSUME alone = "reloaded", Valid(o, line)
            PROVE  new = ReadAtStart(o, line)
        <4>1. CASE o \in UserOption
          <5>1. value[o] = Absent
            BY <1>1, <3>1, <3>3, <4>1 DEF Unread
          <5> QED
            BY <1>5, <4>1, <5>1 DEF new, ReadAtStart
        <4>2. CASE o \in Option
          BY <1>5, <2>2, <3>3, <4>2, ValueFacts DEF Valid, ReadAtStart, SetTo
        <4> QED
          BY <4>1, <4>2 DEF All
      <3>4. alone = "reloaded" => LineRead(o)'
        <4>1. alone = "reloaded" => Reread(o)'
          BY <1>1, <2>3, <3>3 DEF Reread, Valid, ReadAtStart, InRange, Created, Wrap
        <4> QED
          BY <1>1, <1>5, <2>1, <4>1 DEF LineRead
      <3> QED
        BY <1>1, <1>2, <3>1, <3>2, <3>4 DEF Reloaded
    <2> QED
      BY <2>4, <2>5, <2>6, <2>7, <2>8 DEF IInv
  <1> QED
    BY <1>4, <1>5

\* The end of a read: nothing was read, or everything.
LEMMA ReadEndsKeep ==
    ASSUME IInv, OpenFails \/ EndOfFile
    PROVE  IInv'
  <1>1. /\ UNCHANGED <<up, value, loaded, file, told, strayed, saved>> /\ up
        /\ op.kind = "reading"
        /\ alone' = "no" \/ (alone' = alone /\ op.left = {})
    BY DEF OpenFails, EndOfFile, history
  <1>2. op' = IF op.then = "reloaded" THEN Resetting ELSE Idle
    BY DEF OpenFails, EndOfFile
  <1>3. OwnersKnow' /\ ValueInRange' /\ ChangesAreTold'
    BY <1>1, QuietStep
  <1>4. Typed'
    <2>1. /\ op' \in [kind : {"idle", "writing", "reading", "resetting"}, left : SUBSET All,
                      lines : Lines, then : {"none", "started", "reloaded"}]
          /\ \A o \in Option : op'.lines[o] # Empty
      BY <1>2, OpFacts
    <2> QED
      BY <1>1, <2>1 DEF IInv, Typed
  <1>5. /\ op'.kind \in {"idle", "resetting"} /\ op'.then = "none"
        /\ op'.kind = "resetting" <=> op.then = "reloaded"
        /\ op'.kind = "resetting" => op'.left = All
    BY <1>2, OpFacts
  <1>6. Disk'
    BY <1>1, <1>5 DEF IInv, Disk, FileIsWhole, Exists
  <1>7. Started'
    BY <1>1, <1>5 DEF IInv, Started, Restored, Begun, InRange
  <1>8. Reloaded'
    <2>1. ASSUME alone' = "reloaded"
          PROVE  op.then = "reloaded" /\ \A o \in All : LineRead(o)
      BY <1>1, <2>1 DEF IInv, Reloaded
    <2>2. \A o \in All : LineRead(o) => LineRead(o)'
      BY <1>1 DEF LineRead, Unread, Reread, Valid, ReadAtStart, InRange, Created, Wrap
    <2> QED
      BY <1>5, <2>1, <2>2 DEF Reloaded
  <1> QED
    BY <1>3, <1>4, <1>6, <1>7, <1>8 DEF IInv

\* An option without a line gets its default value back.
LEMMA ResetKeeps ==
    ASSUME IInv, NEW o \in All, ResetOption(o)
    PROVE  IInv'
  <1>1. /\ up /\ op.kind = "resetting" /\ o \in op.left
        /\ UNCHANGED <<up, loaded, file, saved, alone>>
    BY DEF ResetOption
  <1>2. /\ op'.kind = "resetting" /\ op'.then = op.then /\ op'.left = op.left \ {o}
        /\ op'.lines = op.lines
        /\ op' \in [kind : {"idle", "writing", "reading", "resetting"}, left : SUBSET All,
                    lines : Lines, then : {"none", "started", "reloaded"}]
    BY DEF ResetOption, IInv, Typed
  <1>3. Proper(value) /\ strayed \subseteq Option
    BY <1>1 DEF IInv, OwnersKnow, Typed
  <1>4. /\ OwnersKnow' /\ ValueInRange' /\ ChangesAreTold' /\ strayed' \subseteq Option
        /\ value' \in [All -> Values] /\ told' \in [Option -> Values]
        /\ \A p \in All : p # o => value'[p] = value[p]
        /\ IF value[o] = Absent \/ o \in loaded THEN value'[o] = value[o] ELSE value'[o] = Reset(o)
    <2>1. CASE value[o] = Absent \/ o \in loaded
      <3>1. UNCHANGED <<value, told, strayed>>
        BY <2>1 DEF ResetOption
      <3> QED
        BY <1>1, <1>3, <2>1, <3>1, QuietStep DEF IInv, Typed
    <2>2. CASE ~(value[o] = Absent \/ o \in loaded)
      <3>1. Assign(o, Reset(o)) /\ strayed' = strayed \ {o}
        BY <2>2 DEF ResetOption
      <3>2. /\ Reset(o) \in Values
            /\ o \in Option => Reset(o) \in Int32 /\ InRange(Reset(o)) /\ Reset(o) # Null
            /\ o \in UserOption => Reset(o) # Null
        BY ValueFacts DEF Reset, Values
      <3>3. /\ value' \in [All -> Values] /\ told' \in [Option -> Values]
            /\ value'[o] = Reset(o) /\ \A p \in All : p # o => value'[p] = value[p]
        BY <3>1, <3>2, AssignFacts DEF IInv
      <3>4. OwnersKnow' /\ ValueInRange' /\ ChangesAreTold'
        BY <1>1, <3>1, <3>2, ProperAfter
      <3> QED
        BY <1>3, <2>2, <3>1, <3>3, <3>4
    <2> QED
      BY <2>1, <2>2
  <1>5. Typed'
    BY <1>1, <1>2, <1>4 DEF IInv, Typed
  <1>6. Disk'
    BY <1>1, <1>2 DEF IInv, Disk, FileIsWhole, Exists
  <1>7. Started'
    BY <1>1 DEF IInv, Started
  <1>8. Reloaded'
    <2>1. ASSUME alone = "reloaded"
          PROVE  /\ op.then # "started"
                 /\ \A p \in All : IF p \in op.left THEN LineRead(p) ELSE Reread(p)
      BY <1>1, <2>1 DEF IInv, Reloaded
    <2>2. \A p \in All : p # o => (LineRead(p) => LineRead(p)') /\ (Reread(p) => Reread(p)')
      BY <1>1, <1>4 DEF LineRead, Unread, Reread, Valid, ReadAtStart, InRange, Created, Wrap
    <2>3. ASSUME alone = "reloaded"
          PROVE  Reread(o)'
      <3>1. LineRead(o)
        BY <1>1, <2>1, <2>3
      <3>2. CASE file.lines[o] = Absent
        <4>1. o \notin loaded /\ (o \in UserOption => value[o] = Absent)
          BY <3>1, <3>2 DEF LineRead, Unread
        <4>2. o \in Option => value[o] # Absent /\ o \notin UserOption
          BY <1>3, ValueFacts DEF Proper
        <4>3. value'[o] = IF o \in UserOption THEN Absent ELSE Default
          BY <1>4, <4>1, <4>2 DEF Reset, All
        <4> QED
          BY <1>1, <3>2, <4>3 DEF Reread, ReadAtStart
      <3>3. CASE file.lines[o] # Absent
        <4>1. o \in loaded /\ Reread(o)
          BY <3>1, <3>3 DEF LineRead
        <4> QED
          BY <1>1, <1>4, <4>1 DEF Reread, Valid, ReadAtStart, InRange, Created, Wrap
      <3> QED
        BY <3>2, <3>3
    <2> QED
      BY <1>1, <1>2, <2>1, <2>2, <2>3 DEF Reloaded
  <1> QED
    BY <1>4, <1>5, <1>6, <1>7, <1>8 DEF IInv

LEMMA ReloadEndsKeeps ==
    ASSUME IInv, ReloadEnds
    PROVE  IInv'
  <1>1. /\ UNCHANGED <<up, value, loaded, file, told, strayed, saved, alone>>
        /\ up /\ op.kind = "resetting" /\ op.left = {} /\ op' = Idle
    BY DEF ReloadEnds, history
  <1>2. OwnersKnow' /\ ValueInRange' /\ ChangesAreTold'
    BY <1>1, QuietStep
  <1>3. Typed' /\ Disk'
    BY <1>1, OpFacts DEF IInv, Typed, Disk, FileIsWhole, Exists
  <1>4. Started'
    BY <1>1 DEF IInv, Started
  <1>5. Reloaded'
    <2>1. alone = "reloaded" => \A o \in All : Reread(o)
      BY <1>1 DEF IInv, Reloaded
    <2>2. \A o \in All : Reread(o) => Reread(o)'
      BY <1>1 DEF Reread, Valid, ReadAtStart, InRange, Created, Wrap
    <2> QED
      BY <1>1, <2>1, <2>2, OpFacts DEF Reloaded
  <1> QED
    BY <1>2, <1>3, <1>4, <1>5 DEF IInv

\* The user changes the file, or the program stops.
LEMMA OutsideKeeps ==
    ASSUME IInv,
           \/ \E o \in All, v \in Number \cup {Null, Absent} : Edit(o, v)
           \/ RemoveFile \/ Crash
    PROVE  IInv'
  <1>1. /\ UNCHANGED <<value, loaded, told, strayed>> /\ alone' = "no"
        /\ saved' = Absent \/ UNCHANGED <<saved, file>>
        /\ (UNCHANGED <<up, op>> /\ op.kind = "idle") \/ (up' = FALSE /\ op' = Idle)
    BY DEF Edit, RemoveFile, Crash
  <1>2. OwnersKnow' /\ ValueInRange' /\ ChangesAreTold'
    BY <1>1 DEF IInv, Typed, OwnersKnow, Proper, ValueInRange, ChangesAreTold, InRange
  <1>3. /\ file' \in [lines : Lines, whole : BOOLEAN]
        /\ \A o \in Option : file'.lines[o] # Empty
    <2>1. ASSUME NEW o \in All, NEW v \in Number \cup {Null, Absent}, Edit(o, v)
          PROVE  /\ file' \in [lines : Lines, whole : BOOLEAN]
                 /\ \A p \in Option : file'.lines[p] # Empty
      <3>1. file'.lines = [file.lines EXCEPT ![o] = v] /\ file'.whole = file.whole
            /\ file' = [lines |-> [file.lines EXCEPT ![o] = v], whole |-> file.whole]
        BY <2>1 DEF Edit, IInv, Typed
      <3>2. v # Empty
        BY ValueFacts
      <3>3. [file.lines EXCEPT ![o] = v] \in Lines
        BY DEF IInv, Typed, Lines
      <3> QED
        BY <3>1, <3>2, <3>3 DEF IInv, Typed, Lines, All
    <2>2. CASE RemoveFile
      BY <2>2, OpFacts, ValueFacts DEF RemoveFile
    <2>3. CASE Crash
      BY <2>3 DEF Crash, IInv, Typed
    <2> QED
      BY <2>1, <2>2, <2>3
  <1>4. Typed'
    <2>1. CASE UNCHANGED <<up, op>> /\ op.kind = "idle"
      BY <1>1, <1>3, <2>1 DEF IInv, Typed
    <2>2. CASE up' = FALSE /\ op' = Idle
      <3>1. /\ op' \in [kind : {"idle", "writing", "reading", "resetting"}, left : SUBSET All,
                         lines : Lines, then : {"none", "started", "reloaded"}]
            /\ op'.kind = "idle"
            /\ \A o \in Option : op'.lines[o] # Empty
        BY <2>2, OpFacts
      <3>2. /\ value' \in [All -> Values] /\ told' \in [Option -> Values]
            /\ loaded' \subseteq All /\ strayed' \subseteq Option
        BY <1>1 DEF IInv, Typed
      <3> QED
        BY <1>1, <1>3, <2>2, <3>1, <3>2 DEF Typed
    <2> QED
      BY <1>1, <2>1, <2>2
  <1>5. Disk'
    BY <1>1, OpFacts DEF IInv, Disk, FileIsWhole, Exists
  <1>6. Started' /\ Reloaded'
    BY <1>1 DEF Started, Reloaded
  <1> QED
    BY <1>2, <1>4, <1>5, <1>6 DEF IInv

LEMMA InitHolds == ConfigInit => IInv
  <1> SUFFICES ASSUME ConfigInit
               PROVE  IInv
    OBVIOUS
  <1>1. Typed
    <2>1. value \in [All -> Values] /\ told \in [Option -> Values]
      BY DEF ConfigInit, Values
    <2>2. /\ file \in [lines : Lines, whole : BOOLEAN] /\ file.lines = [o \in All |-> Absent]
          /\ op.lines = file.lines
          /\ op \in [kind : {"idle", "writing", "reading", "resetting"}, left : SUBSET All,
                     lines : Lines, then : {"none", "started", "reloaded"}]
          /\ op.kind = "idle"
      BY OpFacts DEF ConfigInit
    <2>3. \A o \in Option : file.lines[o] # Empty /\ op.lines[o] # Empty
      BY <2>2, ValueFacts DEF All
    <2> QED
      BY <2>1, <2>2, <2>3 DEF ConfigInit, Typed
  <1>2. Disk /\ Started /\ Reloaded
    BY OpFacts DEF ConfigInit, Disk, FileIsWhole, Exists, Started, Reloaded
  <1> QED
    BY <1>1, <1>2 DEF ConfigInit, IInv, OwnersKnow, ValueInRange, ChangesAreTold

LEMMA InvariantHolds == ConfigSpec => []IInv
  <1>1. IInv /\ [ConfigNext]_configVars => IInv'
    <2> SUFFICES ASSUME IInv, [ConfigNext]_configVars
                 PROVE  IInv'
      OBVIOUS
    <2>1. CASE User
      BY <2>1, ChangesKeep, SaveKeeps, ReloadKeeps, StartKeeps, OutsideKeeps DEF User
    <2>2. CASE Program
      BY <2>2, WriteLineKeeps, ReadLineKeeps, ResetKeeps, RenameKeeps, WriteFailsKeeps,
         ReadEndsKeep, ReloadEndsKeeps DEF Program
    <2>3. CASE Crash
      BY <2>3, OutsideKeeps
    <2>4. CASE UNCHANGED configVars
      <3>1. UNCHANGED <<up, value, loaded, op, file, told, strayed, saved, alone>>
        BY <2>4 DEF configVars, history
      <3>2. OwnersKnow' /\ ValueInRange' /\ ChangesAreTold'
        BY <3>1, QuietStep
      <3>3. Typed' /\ Disk'
        BY <3>1 DEF IInv, Typed, Disk, FileIsWhole, Exists
      <3>4. Started'
        BY <3>1 DEF IInv, Started, Restored, Begun, InRange
      <3>5. Reloaded'
        BY <3>1 DEF IInv, Reloaded, LineRead, Unread, Reread, Valid, ReadAtStart, InRange, Created, Wrap
      <3> QED
        BY <3>2, <3>3, <3>4, <3>5 DEF IInv
    <2> QED
      BY <2>1, <2>2, <2>3, <2>4 DEF ConfigNext
  <1> QED
    BY InitHolds, <1>1, PTL DEF ConfigSpec

-----------------------------------------------------------------------------
(* The theorems.                                                           *)

\* The options keep values in their range (unless one has strayed by "++" or
\* "--"), null only where it may be, and their owners know them.
THEOREM ValuesAlwaysSound == ConfigSpec => []ValuesSound
  <1>1. IInv => ValuesSound
    <2> SUFFICES ASSUME IInv
                 PROVE  ConfigTypeOK
      BY DEF ValuesSound, IInv
    <2>1. \A o \in All : value[o] \in Int32 \cup {Null, Absent, Empty} \cup Number
      BY DEF IInv, Typed, Values
    <2>2. up => \A o \in Option : value[o] # Absent
      BY ValueFacts DEF IInv, OwnersKnow, Proper
    <2> QED
      BY <2>1, <2>2 DEF ConfigTypeOK, IInv, Typed
  <1> QED
    BY <1>1, InvariantHolds, PTL

\* Wherever the program crashes and whatever write fails, the file is a whole
\* one, and the next start gives back what was saved.
THEOREM AlwaysCrashSafe == ConfigSpec => []CrashSafe
  <1>1. IInv => CrashSafe
    BY DEF IInv, Disk, Started, Restored, CrashSafe, RestartRestores
  <1> QED
    BY <1>1, InvariantHolds, PTL

\* A reload that nothing disturbs gives what a start would.
THEOREM ReloadAlwaysLikeRestart == ConfigSpec => []ReloadIsLikeRestart
  <1>1. IInv => ReloadIsLikeRestart
    BY DEF IInv, Reloaded, Reread, ReloadIsLikeRestart
  <1> QED
    BY <1>1, InvariantHolds, PTL
=============================================================================
