-------------------------- MODULE GuiBufferProofs --------------------------
(***************************************************************************)
(* Theorems about the list of buffers (GuiBuffer), for any buffers, windows *)
(* and layout.                                                             *)
(***************************************************************************)
EXTENDS GuiBuffer, FiniteSetTheorems, SequenceTheorems, WellFoundedInduction, TLAPS

-----------------------------------------------------------------------------
(* What an operator on the interface leaves alone.                         *)
SameList(g, h) == h.open = g.open /\ h.before = g.before /\ h.number = g.number
SameLook(g, h) ==
    /\ h.active = g.active /\ h.zoomed = g.zoomed /\ h.hidden = g.hidden
    /\ h.mixed_lines = g.mixed_lines /\ h.lines = g.lines
SameView(g, h) ==
    /\ h.window = g.window /\ h.current = g.current
    /\ h.visited = g.visited /\ h.visited_index = g.visited_index
    /\ h.hotlist = g.hotlist /\ h.initial_buffer = g.initial_buffer
    /\ h.last_displayed = g.last_displayed /\ h.shown = g.shown
SameCount(g, h) == h.num_displayed = g.num_displayed

-----------------------------------------------------------------------------
(* The list as an order.                                                   *)
LinkedOn(g, set) ==
    \A b \in set :
        /\ g.before[b] \subseteq set \ {b}
        /\ \A c \in g.before[b] : b \notin g.before[c] /\ g.before[c] \subseteq g.before[b]
        /\ \A c \in set \ {b} : c \in g.before[b] \/ b \in g.before[c]

Linked(g) == LinkedOn(g, g.open) /\ \A b \in Buffer \ g.open : g.before[b] = {}

\* Of some natural numbers one is the least.
LEMMA LeastOf ==
    ASSUME NEW T \in SUBSET Nat, T # {}
    PROVE  \E x \in T : \A y \in T : x <= y
<1> DEFINE R == OpToRel(<, Nat)
<1>1. IsWellFoundedOn(R, Nat)
  BY NatLessThanWellFounded
<1>2. \A x, y \in Nat : y < x => <<y, x>> \in R
  BY DEF OpToRel
<1> HIDE DEF R
<1>3. PICK x \in T : \A y \in T : ~ (<<y, x>> \in R)
  BY <1>1, WFMin
<1>4. \A y \in T : x <= y
  <2> TAKE y \in T
  <2>1. ~ (y < x)
    BY <1>2, <1>3
  <2> QED BY <2>1
<1> QED BY <1>4

LEMMA Subfinite ==
    ASSUME NEW S \in SUBSET Buffer
    PROVE  IsFiniteSet(S) /\ Cardinality(S) \in Nat
BY FS_Subset, FS_CardinalityType, GuiAssumption

LEMMA SmallerSet ==
    ASSUME NEW S \in SUBSET Buffer, NEW T \in SUBSET S, S # T
    PROVE  Cardinality(T) < Cardinality(S)
BY FS_Subset, Subfinite

\* Any buffers of the list have a first one and a last one.
LEMMA FirstOfIs ==
    ASSUME NEW g \in Interface, NEW all \in SUBSET Buffer, LinkedOn(g, all),
           NEW set \in SUBSET all, set # {}
    PROVE  /\ FirstOf(g, set) \in set
           /\ \A c \in set : c = FirstOf(g, set) \/ FirstOf(g, set) \in g.before[c]
           /\ \A c \in set : c \notin g.before[FirstOf(g, set)]
<1>1. g.before \in [Buffer -> SUBSET Buffer]
  BY DEF Interface
<1> DEFINE rank == {Cardinality(g.before[c]) : c \in set}
<1>2. rank \in SUBSET Nat /\ rank # {}
  BY <1>1, Subfinite
<1>3. PICK b \in set : \A c \in set : Cardinality(g.before[b]) <= Cardinality(g.before[c])
  <2>1. PICK n \in rank : \A m \in rank : n <= m
    BY <1>2, LeastOf
  <2> QED BY <2>1
<1>4. \A c \in set : c \notin g.before[b]
  <2> SUFFICES ASSUME NEW c \in set, c \in g.before[b] PROVE FALSE
    OBVIOUS
  <2>1. g.before[c] \subseteq g.before[b] /\ c \notin g.before[c]
    BY DEF LinkedOn
  <2>2. Cardinality(g.before[c]) < Cardinality(g.before[b])
    BY <1>1, <2>1, SmallerSet
  <2> QED BY <1>1, <1>3, <2>2, Subfinite
<1>5. FirstOf(g, set) \in set /\ \A c \in set : c \notin g.before[FirstOf(g, set)]
  BY <1>4 DEF FirstOf
<1> QED BY <1>5 DEF LinkedOn

LEMMA LastOfIs ==
    ASSUME NEW g \in Interface, NEW all \in SUBSET Buffer, LinkedOn(g, all),
           NEW set \in SUBSET all, set # {}
    PROVE  /\ LastOf(g, set) \in set
           /\ \A c \in set : c = LastOf(g, set) \/ c \in g.before[LastOf(g, set)]
           /\ \A c \in set : LastOf(g, set) \notin g.before[c]
<1>1. g.before \in [Buffer -> SUBSET Buffer]
  BY DEF Interface
<1> DEFINE rank == {Cardinality(Buffer \ g.before[c]) : c \in set}
<1>2. rank \in SUBSET Nat /\ rank # {}
  BY <1>1, Subfinite
<1>3. PICK b \in set : \A c \in set : Cardinality(Buffer \ g.before[b]) <= Cardinality(Buffer \ g.before[c])
  <2>1. PICK n \in rank : \A m \in rank : n <= m
    BY <1>2, LeastOf
  <2> QED BY <2>1
<1>4. \A c \in set : b \notin g.before[c]
  <2> SUFFICES ASSUME NEW c \in set, b \in g.before[c] PROVE FALSE
    OBVIOUS
  <2>1. g.before[b] \subseteq g.before[c] /\ b \notin g.before[b]
    BY DEF LinkedOn
  <2>2. Buffer \ g.before[c] \subseteq Buffer \ g.before[b] /\ Buffer \ g.before[c] # Buffer \ g.before[b]
    BY <1>1, <2>1
  <2>3. Cardinality(Buffer \ g.before[c]) < Cardinality(Buffer \ g.before[b])
    BY <1>1, <2>2, SmallerSet
  <2> QED BY <1>1, <1>3, <2>3, Subfinite
<1>5. LastOf(g, set) \in set /\ \A c \in set : LastOf(g, set) \notin g.before[c]
  BY <1>4 DEF LastOf
<1> QED BY <1>5 DEF LinkedOn

\* The buffer just before another one.
LEMMA PrevIs ==
    ASSUME NEW g \in Interface, NEW all \in SUBSET Buffer, LinkedOn(g, all),
           NEW b \in all, g.before[b] # {}
    PROVE  /\ Prev(g, b) \in g.before[b]
           /\ \A c \in g.before[b] : c = Prev(g, b) \/ c \in g.before[Prev(g, b)]
<1>1. g.before[b] \in SUBSET all
  BY DEF LinkedOn
<1> QED BY <1>1, LastOfIs DEF Prev

-----------------------------------------------------------------------------
(* The fields of what the operators return.                                *)
\* h is g once a set of buffers has left the list.
RemovedFrom(g, h, set) ==
    /\ h.open = g.open \ set /\ h.number = g.number
    /\ \A b \in Buffer : h.before[b] = IF b \in set THEN g.before[b] \cap set ELSE g.before[b] \ set

LEMMA RemovedIs ==
    ASSUME NEW g \in Interface, NEW set \in SUBSET Buffer, NEW h, h = Removed(g, set)
    PROVE  /\ h \in Interface /\ RemovedFrom(g, h, set)
           /\ SameLook(g, h) /\ SameView(g, h) /\ SameCount(g, h)
BY DEF Removed, RemovedFrom, Interface, SameLook, SameView, SameCount

\* h is g once a block of buffers has entered the list after those of front.
PlacedIn(g, h, block, front, n) ==
    /\ h.open = g.open \cup block
    /\ \A b \in Buffer : h.before[b] =
          IF b \in block THEN g.before[b] \cup front
          ELSE IF b \in g.open \ front THEN g.before[b] \cup block ELSE g.before[b]
    /\ \A b \in Buffer : h.number[b] = IF b \in block THEN n ELSE g.number[b]

LEMMA PlacedIs ==
    ASSUME NEW g \in Interface, NEW block \in SUBSET Buffer, NEW front \in SUBSET Buffer, NEW n \in Int,
           NEW h, h = Placed(g, block, front, n)
    PROVE  /\ h \in Interface /\ PlacedIn(g, h, block, front, n)
           /\ SameLook(g, h) /\ SameView(g, h) /\ SameCount(g, h)
BY DEF Placed, Interface, PlacedIn, SameLook, SameView, SameCount

LEMMA ShiftedIs ==
    ASSUME NEW g \in Interface, NEW set, NEW d \in Int
    PROVE  /\ Shifted(g, set, d) \in Interface
           /\ Shifted(g, set, d).open = g.open /\ Shifted(g, set, d).before = g.before
           /\ \A b \in Buffer : Shifted(g, set, d).number[b] = IF b \in set THEN g.number[b] + d ELSE g.number[b]
           /\ SameLook(g, Shifted(g, set, d)) /\ SameView(g, Shifted(g, set, d))
           /\ SameCount(g, Shifted(g, set, d))
<1> DEFINE number == [b \in Buffer |-> IF b \in set THEN g.number[b] + d ELSE g.number[b]]
<1>1. number \in [Buffer -> Int]
  BY DEF Interface
<1>2. Shifted(g, set, d) = [g EXCEPT !.number = number]
  BY DEF Shifted, Interface
<1> HIDE DEF number
<1>3. [g EXCEPT !.number = number] \in Interface /\ [g EXCEPT !.number = number].number = number
  BY <1>1 DEF Interface
<1>4. /\ SameLook(g, [g EXCEPT !.number = number]) /\ SameView(g, [g EXCEPT !.number = number])
      /\ SameCount(g, [g EXCEPT !.number = number])
      /\ [g EXCEPT !.number = number].open = g.open /\ [g EXCEPT !.number = number].before = g.before
  BY <1>1 DEF Interface, SameLook, SameView, SameCount
<1> QED BY <1>2, <1>3, <1>4 DEF number

\* The buffer becomes the active one of its group.
Activated(g, h, b) ==
    \E active \in {1, 2} :
        /\ IF \A c \in Mates(g, b) : g.active[c] = 0 THEN active = 1
           ELSE \E c \in Mates(g, b) : active = g.active[c]
        /\ \A c \in Buffer :
              /\ h.active[c] = IF c = b THEN active ELSE IF c \in Mates(g, b) THEN 0 ELSE g.active[c]
              /\ h.lines[c] = IF c = b /\ active = 2 THEN "own"
                              ELSE IF c \in Others(g, b) /\ g.active[c] = 2 THEN "mixed" ELSE g.lines[c]

LEMMA SetActiveIs ==
    ASSUME NEW g \in Interface, LinkedOn(g, g.open), NEW b \in g.open, NEW h, h = SetActive(g, b)
    PROVE  /\ h \in Interface /\ SameList(g, h) /\ SameView(g, h) /\ SameCount(g, h)
           /\ h.zoomed = g.zoomed /\ h.hidden = g.hidden /\ h.mixed_lines = g.mixed_lines
           /\ Activated(g, h, b)
<1> DEFINE on == {c \in Mates(g, b) : g.active[c] # 0}
           active == IF on = {} THEN 1 ELSE g.active[FirstOf(g, on)]
<1>0. g.open \in SUBSET Buffer /\ g.active \in [Buffer -> 0 .. 2]
  BY DEF Interface
<1>1. on \in SUBSET g.open
  BY DEF Mates, Group
<1>2. on # {} => FirstOf(g, on) \in on
  BY <1>0, <1>1, FirstOfIs
<1>3. active \in {1, 2}
  BY <1>0, <1>1, <1>2
<1>4. IF \A c \in Mates(g, b) : g.active[c] = 0 THEN active = 1
      ELSE \E c \in Mates(g, b) : active = g.active[c]
  BY <1>2
<1> DEFINE actives == [c \in Buffer |-> IF c = b THEN active ELSE IF c \in Mates(g, b) THEN 0 ELSE g.active[c]]
           lines == [c \in Buffer |-> IF c = b /\ active = 2 THEN "own"
                                      ELSE IF c \in Others(g, b) /\ g.active[c] = 2 THEN "mixed" ELSE g.lines[c]]
<1>5. h = [g EXCEPT !.active = actives, !.lines = lines]
  BY DEF SetActive, Interface
<1> HIDE DEF active
<1>6. actives \in [Buffer -> 0 .. 2] /\ lines \in [Buffer -> {"own", "mixed"}]
  BY <1>3 DEF Interface
<1>7. \A c \in Buffer :
         /\ actives[c] = IF c = b THEN active ELSE IF c \in Mates(g, b) THEN 0 ELSE g.active[c]
         /\ lines[c] = IF c = b /\ active = 2 THEN "own"
                       ELSE IF c \in Others(g, b) /\ g.active[c] = 2 THEN "mixed" ELSE g.lines[c]
  OBVIOUS
<1> HIDE DEF actives, lines
<1>8. h \in Interface /\ SameList(g, h) /\ SameView(g, h) /\ SameCount(g, h)
      /\ h.zoomed = g.zoomed /\ h.hidden = g.hidden /\ h.mixed_lines = g.mixed_lines
      /\ h.active = actives /\ h.lines = lines
  BY <1>5, <1>6 DEF Interface, SameList, SameView, SameCount
<1> QED BY <1>3, <1>4, <1>7, <1>8 DEF Activated

LEMMA CountIs ==
    ASSUME NEW g \in Interface, IsFiniteSet(DOMAIN g.window), NEW h, h = ComputeNumDisplayed(g)
    PROVE  /\ h \in Interface /\ SameList(g, h) /\ SameView(g, h) /\ SameLook(g, h)
           /\ \A b \in Buffer : h.num_displayed[b] =
                 IF b \in g.open /\ (~g.zoomed[b] \/ g.active[b] = 2) THEN Cardinality(Displays(g, b)) ELSE 0
<1> DEFINE count == [b \in Buffer |-> IF b \in g.open /\ (~g.zoomed[b] \/ g.active[b] = 2)
                                      THEN Cardinality(Displays(g, b)) ELSE 0]
<1>1. \A b \in Buffer : Cardinality(Displays(g, b)) \in Nat
  BY FS_Subset, FS_CardinalityType DEF Displays
<1>2. count \in [Buffer -> Nat]
  BY <1>1
<1>3. h = [g EXCEPT !.num_displayed = count]
  BY DEF ComputeNumDisplayed, Interface
<1>4. \A b \in Buffer : count[b] =
         IF b \in g.open /\ (~g.zoomed[b] \/ g.active[b] = 2) THEN Cardinality(Displays(g, b)) ELSE 0
  OBVIOUS
<1> HIDE DEF count
<1> QED BY <1>2, <1>3, <1>4 DEF Interface, SameList, SameView, SameLook

LEMMA MixedIs ==
    ASSUME NEW g \in Interface, NEW b \in g.open, NEW new_lines \in SUBSET Buffer,
           NEW h, h = MixedTogether(g, b, new_lines)
    PROVE  /\ h \in Interface /\ SameList(g, h) /\ SameView(g, h) /\ SameCount(g, h)
           /\ h.active = g.active /\ h.zoomed = g.zoomed /\ h.hidden = g.hidden
           /\ \A c \in Buffer :
                 /\ h.mixed_lines[c] = IF c \in Mates(g, b) THEN new_lines ELSE g.mixed_lines[c]
                 /\ h.lines[c] = IF c \in Mates(g, b) THEN "mixed" ELSE g.lines[c]
BY DEF MixedTogether, Interface, SameList, SameView, SameCount

\* h is g with the fields of a buffer that is not open.
FreshIn(g, h, b) ==
    /\ h.open = g.open /\ h.before = g.before
    /\ \A c \in Buffer \ {b} :
          /\ h.number[c] = g.number[c] /\ h.active[c] = g.active[c] /\ h.zoomed[c] = g.zoomed[c]
          /\ h.hidden[c] = g.hidden[c] /\ h.mixed_lines[c] = g.mixed_lines[c]
          /\ h.lines[c] = g.lines[c] /\ h.num_displayed[c] = g.num_displayed[c]
    /\ h.number[b] = 0 /\ h.active[b] = 1 /\ h.zoomed[b] = FALSE /\ h.mixed_lines[b] = {}
    /\ h.lines[b] = "own" /\ h.num_displayed[b] = 0

LEMMA FreshIs ==
    ASSUME NEW g \in Interface, NEW b \in Buffer, NEW h, h = Fresh(g, b)
    PROVE  h \in Interface /\ SameView(g, h) /\ FreshIn(g, h, b)
<1>1. /\ [g.number EXCEPT ![b] = 0] \in [Buffer -> Int] /\ [g.active EXCEPT ![b] = 1] \in [Buffer -> 0 .. 2]
      /\ [g.zoomed EXCEPT ![b] = FALSE] \in [Buffer -> BOOLEAN]
      /\ [g.hidden EXCEPT ![b] = FALSE] \in [Buffer -> BOOLEAN]
      /\ [g.mixed_lines EXCEPT ![b] = {}] \in [Buffer -> SUBSET Buffer]
      /\ [g.lines EXCEPT ![b] = "own"] \in [Buffer -> {"own", "mixed"}]
      /\ [g.num_displayed EXCEPT ![b] = 0] \in [Buffer -> Nat]
  BY DEF Interface
<1>2. h \in Interface
  BY <1>1 DEF Fresh, Interface
<1>3. /\ h.number = [g.number EXCEPT ![b] = 0] /\ h.active = [g.active EXCEPT ![b] = 1]
      /\ h.zoomed = [g.zoomed EXCEPT ![b] = FALSE] /\ h.hidden = [g.hidden EXCEPT ![b] = FALSE]
      /\ h.mixed_lines = [g.mixed_lines EXCEPT ![b] = {}] /\ h.lines = [g.lines EXCEPT ![b] = "own"]
      /\ h.num_displayed = [g.num_displayed EXCEPT ![b] = 0]
      /\ SameView(g, h) /\ h.open = g.open /\ h.before = g.before
  BY DEF Fresh, Interface, SameView
<1>4. /\ DOMAIN g.number = Buffer /\ DOMAIN g.active = Buffer /\ DOMAIN g.zoomed = Buffer
      /\ DOMAIN g.hidden = Buffer /\ DOMAIN g.mixed_lines = Buffer /\ DOMAIN g.lines = Buffer
      /\ DOMAIN g.num_displayed = Buffer
  BY DEF Interface
<1> QED BY <1>2, <1>3, <1>4 DEF FreshIn

\* Of the buffers of a group, the next one and the previous one are in it.
LEMMA FollowingIs ==
    ASSUME NEW g \in Interface, LinkedOn(g, g.open), NEW b \in g.open,
           NEW set \in SUBSET g.open
    PROVE  /\ set # {} => Following(g, b, set) \in set /\ Preceding(g, b, set) \in set
           /\ set = {} => Following(g, b, set) = None /\ Preceding(g, b, set) = None
<1>1. g.open \in SUBSET Buffer /\ set \cap After(g, b) \in SUBSET g.open
      /\ set \cap g.before[b] \in SUBSET g.open
  BY DEF Interface
<1> QED BY <1>1, FirstOfIs, LastOfIs DEF Following, Preceding

\* h is g once the hotlist has lost b or what its group displays.
HotlistLess(g, h, b, force) ==
    /\ h.window = g.window /\ h.current = g.current
    /\ h.visited = g.visited /\ h.visited_index = g.visited_index
    /\ h.initial_buffer = g.initial_buffer
    /\ h.last_displayed = g.last_displayed /\ h.shown = g.shown
    /\ h.hotlist \subseteq g.hotlist
    /\ \A c \in g.hotlist \ h.hotlist :
          c = b \/ (g.number[c] = g.number[b] /\ (~g.zoomed[c] \/ g.active[c] = 2))
    /\ force => b \notin h.hotlist

LEMMA HotlistIs ==
    ASSUME NEW g \in Interface, NEW b \in Buffer, NEW force \in BOOLEAN, NEW h, h = HotlistRemove(g, b, force)
    PROVE  /\ h \in Interface /\ SameList(g, h) /\ SameLook(g, h) /\ SameCount(g, h)
           /\ HotlistLess(g, h, b, force)
<1> DEFINE merged == {c \in g.hotlist : /\ g.number[c] = g.number[b]
                                        /\ ~g.zoomed[c] \/ g.active[c] = 2}
           left == g.hotlist \ ((IF force \/ ~RemoveMerged THEN {b} ELSE {})
                                \cup (IF RemoveMerged THEN merged ELSE {}))
<1>1. h = [g EXCEPT !.hotlist = left]
  BY DEF HotlistRemove, Interface
<1>2. left \in SUBSET Buffer /\ left \subseteq g.hotlist /\ (force => b \notin left)
  BY DEF Interface
<1>3. \A c \in g.hotlist \ left : c = b \/ c \in merged
  OBVIOUS
<1>4. \A c \in g.hotlist \ left : c = b \/ (g.number[c] = g.number[b] /\ (~g.zoomed[c] \/ g.active[c] = 2))
  BY <1>3
<1> HIDE DEF left
<1>5. h \in Interface /\ SameList(g, h) /\ SameLook(g, h) /\ SameCount(g, h) /\ h.hotlist = left
  BY <1>1, <1>2 DEF Interface, SameList, SameLook, SameCount
<1>6. /\ h.window = g.window /\ h.current = g.current
      /\ h.visited = g.visited /\ h.visited_index = g.visited_index
      /\ h.initial_buffer = g.initial_buffer
      /\ h.last_displayed = g.last_displayed /\ h.shown = g.shown
  BY <1>1, <1>2 DEF Interface
<1> QED BY <1>2, <1>4, <1>5, <1>6 DEF HotlistLess

-----------------------------------------------------------------------------
(* The buffers visited and the windows.                                    *)
VisitOnce(g) ==
    /\ \A i, j \in DOMAIN g.visited : g.visited[i] = g.visited[j] => i = j
    /\ g.visited_index \in -1 .. Len(g.visited) - 1

SameButVisited(g, h) ==
    /\ SameList(g, h) /\ SameLook(g, h) /\ SameCount(g, h)
    /\ h.window = g.window /\ h.current = g.current /\ h.hotlist = g.hotlist
    /\ h.initial_buffer = g.initial_buffer /\ h.last_displayed = g.last_displayed /\ h.shown = g.shown

LEMMA LastPart ==
    ASSUME NEW S, NEW s \in Seq(S), NEW k \in 0 .. Len(s), NEW u, u = SubSeq(s, k + 1, Len(s))
    PROVE  u \in Seq(S) /\ Len(u) = Len(s) - k /\ \A j \in 1 .. Len(s) - k : u[j] = s[k + j]
<1>0. Len(s) \in Nat /\ \A i \in 1 .. Len(s) : s[i] \in S
  OBVIOUS
<1>1. \A i \in k + 1 .. Len(s) : s[i] \in S
  BY <1>0
<1>2. /\ SubSeq(s, k + 1, Len(s)) \in Seq(S)
      /\ Len(SubSeq(s, k + 1, Len(s))) = IF k + 1 <= Len(s) THEN Len(s) - (k + 1) + 1 ELSE 0
      /\ \A j \in 1 .. Len(s) - (k + 1) + 1 : SubSeq(s, k + 1, Len(s))[j] = s[k + 1 + j - 1]
  BY <1>0, <1>1, SubSeqProperties
<1>3. /\ u \in Seq(S) /\ Len(u) = IF k + 1 <= Len(s) THEN Len(s) - (k + 1) + 1 ELSE 0
      /\ \A j \in 1 .. Len(s) - (k + 1) + 1 : u[j] = s[k + 1 + j - 1]
  BY <1>2
<1>4. Len(s) - (k + 1) + 1 = Len(s) - k /\ \A j \in 1 .. Len(s) - k : k + 1 + j - 1 = k + j
  BY <1>0
<1>5. Len(u) = Len(s) - k
  BY <1>0, <1>3
<1>6. \A j \in 1 .. Len(s) - k : u[j] = s[k + j]
  BY <1>3, <1>4, Zenon
<1> QED BY <1>3, <1>5, <1>6

LEMMA CutOut ==
    ASSUME NEW S, NEW s \in Seq(S), NEW i \in 1 .. Len(s), NEW t,
           t = [j \in 1 .. Len(s) - 1 |-> IF j < i THEN s[j] ELSE s[j + 1]]
    PROVE  /\ t \in Seq(S) /\ Len(t) = Len(s) - 1 /\ DOMAIN t = 1 .. Len(s) - 1
           /\ \A j \in 1 .. Len(s) - 1 : t[j] = IF j < i THEN s[j] ELSE s[j + 1]
<1>0. Len(s) \in Nat /\ Len(s) - 1 \in Nat /\ \A j \in 1 .. Len(s) : s[j] \in S
  OBVIOUS
<1>1. \A j \in 1 .. Len(s) - 1 : (IF j < i THEN s[j] ELSE s[j + 1]) \in S
  BY <1>0
<1>2. t \in [1 .. Len(s) - 1 -> S]
  BY <1>1
<1> QED BY <1>0, <1>2

\* The buffers visited in h are those of g without b.
NotVisited(g, h, b) ==
    \A i \in DOMAIN h.visited :
        h.visited[i] # b /\ \E j \in DOMAIN g.visited : h.visited[i] = g.visited[j]

LEMMA VisitedRemoveIs ==
    ASSUME NEW g \in Interface, VisitOnce(g), NEW b \in Buffer, NEW h, h = VisitedRemove(g, b)
    PROVE  /\ h \in Interface /\ SameButVisited(g, h) /\ VisitOnce(h)
           /\ NotVisited(g, h, b)
<1> DEFINE s == g.visited
<1>0. s \in Seq(Buffer) /\ g.visited_index \in Int /\ Len(s) \in Nat /\ DOMAIN s = 1 .. Len(s)
  BY DEF Interface
<1>1. CASE \A j \in DOMAIN s : s[j] # b
  <2>1. h = g
    BY <1>1 DEF VisitedRemove
  <2> QED BY <1>1, <2>1 DEF SameButVisited, SameList, SameLook, SameCount, NotVisited
<1>2. CASE \E j \in DOMAIN s : s[j] = b
  <2> DEFINE i == CHOOSE j \in DOMAIN s : s[j] = b
             t == [j \in 1 .. Len(s) - 1 |-> IF j < i THEN s[j] ELSE s[j + 1]]
             index == IF g.visited_index >= Len(s) - 1 THEN -1 ELSE g.visited_index
  <2>1. i \in DOMAIN s /\ s[i] = b
    BY <1>2
  <2>2. h = [g EXCEPT !.visited = t, !.visited_index = index]
    BY <1>2 DEF VisitedRemove, Interface
  <2> HIDE DEF i
  <2>3. t \in Seq(Buffer) /\ Len(t) = Len(s) - 1 /\ DOMAIN t = 1 .. Len(s) - 1
        /\ \A j \in 1 .. Len(s) - 1 : t[j] = IF j < i THEN s[j] ELSE s[j + 1]
    BY <2>1, <1>0, CutOut
  <2> HIDE DEF t
  <2>4. index \in Int /\ index \in -1 .. Len(t) - 1
    BY <1>0, <2>3 DEF VisitOnce
  <2> HIDE DEF index
  <2>5. h \in Interface /\ SameButVisited(g, h) /\ h.visited = t /\ h.visited_index = index
    BY <2>2, <2>3, <2>4 DEF Interface, SameButVisited, SameList, SameLook, SameCount
  <2> DEFINE at(j) == IF j < i THEN j ELSE j + 1
  <2>6. \A j \in 1 .. Len(s) - 1 : at(j) \in 1 .. Len(s) /\ at(j) # i /\ t[j] = s[at(j)]
    BY <2>1, <2>3, <1>0
  <2>7. \A j, k \in 1 .. Len(s) - 1 : at(j) = at(k) => j = k
    BY <2>1, <1>0
  <2>8. \A j, k \in DOMAIN s : s[j] = s[k] => j = k
    BY DEF VisitOnce
  <2> HIDE DEF at
  <2>9. \A j, k \in DOMAIN t : t[j] = t[k] => j = k
    BY <2>3, <2>6, <2>7, <2>8, <1>0
  <2>10. \A j \in DOMAIN t : t[j] # b /\ \E k \in DOMAIN s : t[j] = s[k]
    BY <2>1, <2>3, <2>6, <2>8, <1>0
  <2>11. VisitOnce(h)
    BY <2>4, <2>5, <2>9 DEF VisitOnce
  <2>12. NotVisited(g, h, b)
    BY <2>5, <2>10 DEF NotVisited
  <2> QED BY <2>5, <2>11, <2>12
<1> QED BY <1>1, <1>2

LEMMA VisitedAddIs ==
    ASSUME NEW g \in Interface, VisitOnce(g), NEW b \in Buffer, NEW h, h = VisitedAdd(g, b)
    PROVE  /\ h \in Interface /\ SameButVisited(g, h) /\ VisitOnce(h)
           /\ \A i \in DOMAIN h.visited :
                 h.visited[i] = b \/ \E j \in DOMAIN g.visited : h.visited[i] = g.visited[j]
<1> DEFINE r == VisitedRemove(g, b)
           s == r.visited
           extra == IF Len(s) > MaxVisited THEN Len(s) - MaxVisited ELSE 0
           u == SubSeq(s, extra + 1, Len(s))
           t == Append(u, b)
<1>1. r \in Interface /\ VisitOnce(r)
      /\ \A i \in DOMAIN s : s[i] # b /\ \E j \in DOMAIN g.visited : s[i] = g.visited[j]
  BY VisitedRemoveIs DEF NotVisited
<1> HIDE DEF r
<1>2. s \in Seq(Buffer) /\ Len(s) \in Nat /\ DOMAIN s = 1 .. Len(s) /\ MaxVisited \in Nat
  BY <1>1, GuiAssumption DEF Interface
<1>3. extra \in 0 .. Len(s)
  BY <1>2
<1>4. h = [g EXCEPT !.visited = t, !.visited_index = -1]
  BY DEF VisitedAdd, Interface, r
<1> HIDE DEF s, extra
<1>5. u \in Seq(Buffer) /\ Len(u) = Len(s) - extra /\ \A j \in 1 .. Len(s) - extra : u[j] = s[extra + j]
  BY <1>2, <1>3, LastPart
<1> HIDE DEF u
<1>6. t \in Seq(Buffer) /\ Len(t) = Len(u) + 1 /\ DOMAIN t = 1 .. Len(u) + 1
      /\ t[Len(u) + 1] = b /\ \A j \in 1 .. Len(u) : t[j] = u[j]
  BY <1>5
<1> HIDE DEF t
<1>a. t \in Seq(Buffer) /\ -1 \in Int
  BY <1>6
<1>7. h \in Interface /\ SameButVisited(g, h) /\ h.visited = t /\ h.visited_index = -1
  BY <1>4, <1>a DEF Interface, SameButVisited, SameList, SameLook, SameCount
<1>8. \A j \in 1 .. Len(u) : extra + j \in DOMAIN s /\ t[j] = s[extra + j] /\ t[j] # b
  <2> TAKE j \in 1 .. Len(u)
  <2>1. j \in 1 .. Len(s) - extra /\ extra + j \in 1 .. Len(s)
    BY <1>2, <1>3, <1>5
  <2>2. t[j] = s[extra + j] /\ extra + j \in DOMAIN s
    BY <2>1, <1>2, <1>5, <1>6
  <2>3. s[extra + j] # b
    BY <2>2, <1>1 DEF s
  <2> QED BY <2>2, <2>3
<1>9. \A j, k \in DOMAIN s : s[j] = s[k] => j = k
  BY <1>1 DEF VisitOnce, s
<1>10. \A j, k \in DOMAIN t : t[j] = t[k] => j = k
  <2> SUFFICES ASSUME NEW j \in DOMAIN t, NEW k \in DOMAIN t, t[j] = t[k] PROVE j = k
    OBVIOUS
  <2>0. Len(u) \in Nat /\ extra \in Nat
    BY <1>5, <1>2, <1>3
  <2>1. CASE j \in 1 .. Len(u) /\ k \in 1 .. Len(u)
    <3>1. extra + j = extra + k
      BY <2>1, <1>8, <1>9
    <3> QED BY <3>1, <2>1, <2>0
  <2>2. CASE j = Len(u) + 1 \/ k = Len(u) + 1
    BY <2>0, <2>2, <1>6, <1>8
  <2> QED BY <2>0, <2>1, <2>2, <1>6
<1>11. Len(t) >= 1
  BY <1>5, <1>6
<1>12. \A i \in DOMAIN t : t[i] = b \/ \E j \in DOMAIN g.visited : t[i] = g.visited[j]
  <2> SUFFICES ASSUME NEW i \in DOMAIN t, t[i] # b PROVE \E j \in DOMAIN g.visited : t[i] = g.visited[j]
    OBVIOUS
  <2>1. i \in 1 .. Len(u)
    BY <1>5, <1>6
  <2> QED BY <2>1, <1>8, <1>1 DEF s
<1>13. -1 \in -1 .. Len(t) - 1
  BY <1>6, <1>11
<1> QED BY <1>7, <1>10, <1>12, <1>13 DEF VisitOnce

LEMMA WindowsFinite ==
    ASSUME NEW g \in Interface
    PROVE  /\ IsFiniteSet(DOMAIN g.window) /\ DOMAIN g.window = 1 .. Len(g.window) /\ Len(g.window) \in Nat
           /\ \A w \in DOMAIN g.window : g.window[w] \in Buffer
<1>1. g.window \in Seq(Buffer)
  BY DEF Interface
<1> QED BY <1>1, FS_Interval

CountsTrue(g) ==
    \A b \in Buffer : g.num_displayed[b] =
        IF b \in g.open /\ (~g.zoomed[b] \/ g.active[b] = 2) THEN Cardinality(Displays(g, b)) ELSE 0

LEMMA CountsAre ==
    ASSUME NEW g \in Interface, NEW h, h = ComputeNumDisplayed(g)
    PROVE  CountsTrue(h)
<1>1. SameList(g, h) /\ SameView(g, h) /\ SameLook(g, h) /\ h \in Interface
      /\ \A b \in Buffer : h.num_displayed[b] =
            IF b \in g.open /\ (~g.zoomed[b] \/ g.active[b] = 2) THEN Cardinality(Displays(g, b)) ELSE 0
  BY CountIs, WindowsFinite
<1>2. \A b \in Buffer : Displays(h, b) = Displays(g, b)
  BY <1>1 DEF Displays, Mates, Group, SameList, SameView
<1> QED BY <1>1, <1>2 DEF CountsTrue, SameList, SameLook


\* h is g once some windows that displayed old have been switched to b.
SwitchedTo(g, h, windows, old, b) ==
    /\ h \in Interface /\ SameList(g, h) /\ VisitOnce(h) /\ CountsTrue(h)
    /\ h.zoomed = g.zoomed /\ h.hidden = g.hidden /\ h.mixed_lines = g.mixed_lines
    /\ Activated(g, h, b)
    /\ DOMAIN h.window = DOMAIN g.window /\ h.current = g.current
    /\ \A w \in DOMAIN g.window : h.window[w] = IF w \in windows THEN b ELSE g.window[w]
    /\ \A i \in DOMAIN h.visited :
          h.visited[i] \in {old, b} \/ \E j \in DOMAIN g.visited : h.visited[i] = g.visited[j]
    /\ h.initial_buffer = g.initial_buffer /\ h.last_displayed \in {old, g.last_displayed}
    /\ h.hotlist \subseteq g.hotlist /\ g.shown \subseteq h.shown
    /\ \A c \in g.open : Visible(h, c) => c \in h.shown
    /\ \A c \in g.hotlist \ h.hotlist :
          c = b \/ (h.number[c] = h.number[b] /\ (~h.zoomed[c] \/ h.active[c] = 2))

LEMMA SwitchIs ==
    ASSUME NEW g \in Interface, LinkedOn(g, g.open), VisitOnce(g),
           NEW windows \in SUBSET DOMAIN g.window, NEW old \in g.open, NEW b \in g.open,
           NEW frozen \in BOOLEAN, NEW h, h = SwitchWindows(g, windows, old, b, frozen)
    PROVE  SwitchedTo(g, h, windows, old, b)
<1> DEFINE moves == g.number[old] # g.number[b]
           g2 == IF moves THEN [g EXCEPT !.last_displayed = old] ELSE g
           ga == VisitedAdd(g2, old)
           g3 == IF moves /\ ~frozen THEN VisitedAdd(ga, b) ELSE g2
           window == [w \in DOMAIN g3.window |-> IF w \in windows THEN b ELSE g3.window[w]]
           g4 == [g3 EXCEPT !.window = window]
           gb == SetActive(g4, b)
           g5 == ComputeNumDisplayed(gb)
           seen == {c \in g5.open : Visible(g5, c)}
           g6 == [g5 EXCEPT !.shown = @ \cup seen]
<1>0. old \in Buffer /\ b \in Buffer /\ g.open \in SUBSET Buffer
  BY DEF Interface
<1>1. /\ g2 \in Interface /\ SameList(g, g2) /\ SameLook(g, g2) /\ SameCount(g, g2)
      /\ g2.window = g.window /\ g2.current = g.current /\ g2.visited = g.visited
      /\ g2.visited_index = g.visited_index /\ g2.hotlist = g.hotlist /\ g2.shown = g.shown
      /\ g2.initial_buffer = g.initial_buffer /\ g2.last_displayed \in {old, g.last_displayed}
  BY <1>0 DEF Interface, SameList, SameLook, SameCount
<1> HIDE DEF g2
<1>2. VisitOnce(g2)
  BY <1>1 DEF VisitOnce
<1>3. /\ ga \in Interface /\ SameButVisited(g2, ga) /\ VisitOnce(ga)
      /\ \A i \in DOMAIN ga.visited : ga.visited[i] = old \/ \E j \in DOMAIN g.visited : ga.visited[i] = g.visited[j]
  <2>1. \A i \in DOMAIN ga.visited : ga.visited[i] = old \/ \E j \in DOMAIN g2.visited : ga.visited[i] = g2.visited[j]
    BY <1>0, <1>1, <1>2, VisitedAddIs
  <2> QED BY <2>1, <1>0, <1>1, <1>2, VisitedAddIs
<1> HIDE DEF ga
<1>4. /\ g3 \in Interface /\ SameButVisited(g2, g3) /\ VisitOnce(g3)
      /\ \A i \in DOMAIN g3.visited :
            g3.visited[i] \in {old, b} \/ \E j \in DOMAIN g.visited : g3.visited[i] = g.visited[j]
  <2>1. CASE ~(moves /\ ~frozen)
    BY <2>1, <1>1, <1>2 DEF SameButVisited, SameList, SameLook, SameCount
  <2>2. CASE moves /\ ~frozen
    <3> DEFINE x == VisitedAdd(ga, b)
    <3>1. g3 = x
      BY <2>2
    <3>2. x \in Interface /\ SameButVisited(ga, x) /\ VisitOnce(x)
          /\ \A i \in DOMAIN x.visited : x.visited[i] = b \/ \E j \in DOMAIN ga.visited : x.visited[i] = ga.visited[j]
      BY <1>0, <1>3, VisitedAddIs
    <3> HIDE DEF x, g3
    <3>3. SameButVisited(g2, x)
      BY <1>3, <3>2 DEF SameButVisited, SameList, SameLook, SameCount
    <3>4. \A i \in DOMAIN x.visited :
             x.visited[i] \in {old, b} \/ \E j \in DOMAIN g.visited : x.visited[i] = g.visited[j]
      BY <1>3, <3>2
    <3> QED BY <3>1, <3>2, <3>3, <3>4
  <2> QED BY <2>1, <2>2
<1> HIDE DEF g3
<1>5. window \in Seq(Buffer) /\ DOMAIN window = DOMAIN g.window
      /\ \A w \in DOMAIN g.window : window[w] = IF w \in windows THEN b ELSE g.window[w]
  <2>1. g3.window = g.window
    BY <1>1, <1>4 DEF SameButVisited
  <2>2. DOMAIN g.window = 1 .. Len(g.window) /\ Len(g.window) \in Nat
        /\ \A w \in DOMAIN g.window : g.window[w] \in Buffer
    BY WindowsFinite
  <2>3. window \in [1 .. Len(g.window) -> Buffer]
    BY <1>0, <2>1, <2>2
  <2>4. window \in Seq(Buffer)
    BY <2>2, <2>3
  <2> QED BY <2>1, <2>4
<1>6. /\ g4 \in Interface /\ SameList(g3, g4) /\ SameLook(g3, g4) /\ SameCount(g3, g4)
      /\ g4.window = window /\ g4.current = g3.current /\ g4.visited = g3.visited
      /\ g4.visited_index = g3.visited_index /\ g4.hotlist = g3.hotlist /\ g4.shown = g3.shown
      /\ g4.initial_buffer = g3.initial_buffer /\ g4.last_displayed = g3.last_displayed
  <2> HIDE DEF window
  <2> QED BY <1>4, <1>5 DEF Interface, SameList, SameLook, SameCount
<1> HIDE DEF g4, window
<1>7. SameList(g, g4) /\ SameLook(g, g4)
  BY <1>1, <1>4, <1>6 DEF SameButVisited, SameList, SameLook
<1>8. LinkedOn(g4, g4.open) /\ b \in g4.open
  BY <1>7 DEF LinkedOn, SameList
<1>9. /\ gb \in Interface /\ SameList(g4, gb) /\ SameView(g4, gb) /\ SameCount(g4, gb)
      /\ gb.zoomed = g4.zoomed /\ gb.hidden = g4.hidden /\ gb.mixed_lines = g4.mixed_lines
      /\ Activated(g4, gb, b)
  BY <1>6, <1>8, SetActiveIs
<1> HIDE DEF gb
<1>10. g5 \in Interface /\ SameList(gb, g5) /\ SameView(gb, g5) /\ SameLook(gb, g5) /\ CountsTrue(g5)
  BY <1>9, CountIs, CountsAre, WindowsFinite
<1> HIDE DEF g5
<1>11. seen \in SUBSET Buffer
  BY <1>10 DEF Interface
<1>12. /\ g6 \in Interface /\ SameList(g5, g6) /\ SameLook(g5, g6) /\ SameCount(g5, g6)
       /\ g6.window = g5.window /\ g6.current = g5.current /\ g6.visited = g5.visited
       /\ g6.visited_index = g5.visited_index /\ g6.hotlist = g5.hotlist
       /\ g6.shown = g5.shown \cup seen
       /\ g6.initial_buffer = g5.initial_buffer /\ g6.last_displayed = g5.last_displayed
  <2> HIDE DEF seen
  <2> QED BY <1>10, <1>11 DEF Interface, SameList, SameLook, SameCount
<1> HIDE DEF g6
<1> DEFINE g7 == IF old # b THEN HotlistRemove(g6, b, FALSE) ELSE g6
<1>13. h = g7
  BY DEF SwitchWindows, g2, ga, g3, window, g4, gb, g5, g6
<1>14. /\ h \in Interface /\ SameList(g6, h) /\ SameLook(g6, h) /\ SameCount(g6, h)
       /\ h.window = g6.window /\ h.current = g6.current /\ h.visited = g6.visited
       /\ h.visited_index = g6.visited_index /\ h.shown = g6.shown
       /\ h.initial_buffer = g6.initial_buffer /\ h.last_displayed = g6.last_displayed
       /\ h.hotlist \subseteq g6.hotlist
       /\ \A c \in g6.hotlist \ h.hotlist :
             c = b \/ (g6.number[c] = g6.number[b] /\ (~g6.zoomed[c] \/ g6.active[c] = 2))
  <2>1. CASE old # b
    <3>1. h = HotlistRemove(g6, b, FALSE)
      BY <2>1, <1>13
    <3>2. PICK force \in BOOLEAN : force = FALSE
      OBVIOUS
    <3>3. g6 \in Interface /\ b \in Buffer /\ h = HotlistRemove(g6, b, force)
      BY <1>0, <1>12, <3>1, <3>2
    <3> HIDE DEF g7
    <3> QED BY <3>3, HotlistIs DEF HotlistLess
  <2>2. CASE old = b
    BY <2>2, <1>12, <1>13 DEF SameList, SameLook, SameCount
  <2> QED BY <2>1, <2>2
<1> HIDE DEF g7, seen
<1>20. SameList(g, h) /\ SameList(g5, h) /\ SameLook(g5, h) /\ SameLook(gb, h)
  BY <1>7, <1>9, <1>10, <1>12, <1>14 DEF SameList, SameLook
<1>21. h.zoomed = g.zoomed /\ h.hidden = g.hidden /\ h.mixed_lines = g.mixed_lines
  BY <1>7, <1>9, <1>20 DEF SameLook
<1>22. Activated(g, h, b)
  BY <1>7, <1>9, <1>20 DEF Activated, Mates, Others, Group, SameLook, SameList
<1>23. h.window = window /\ h.current = g.current
  BY <1>1, <1>4, <1>6, <1>9, <1>10, <1>12, <1>14 DEF SameView, SameButVisited
<1>24. VisitOnce(h) /\ h.visited = g3.visited
  BY <1>4, <1>6, <1>9, <1>10, <1>12, <1>14 DEF SameView, VisitOnce
<1>25. /\ h.initial_buffer = g.initial_buffer /\ h.last_displayed \in {old, g.last_displayed}
       /\ h.hotlist \subseteq g.hotlist /\ g.hotlist = g6.hotlist
  BY <1>1, <1>4, <1>6, <1>9, <1>10, <1>12, <1>14 DEF SameView, SameButVisited
<1>26. h.shown = g.shown \cup seen
  BY <1>1, <1>4, <1>6, <1>9, <1>10, <1>12, <1>14 DEF SameView, SameButVisited
<1>27. h.window = g5.window
  BY <1>12, <1>14
<1>28. \A c \in Buffer : Displays(h, c) = Displays(g5, c)
  BY <1>20, <1>27 DEF Displays, Mates, Group, SameList
<1>29. CountsTrue(h)
  BY <1>10, <1>12, <1>14, <1>20, <1>28 DEF CountsTrue, SameList, SameLook, SameCount
<1>30. \A c \in g.open : Visible(h, c) => c \in h.shown
  <2>1. \A c \in g.open : Visible(h, c) = Visible(g5, c)
    BY <1>0, <1>20, <1>28 DEF Visible, Zoomed, Group, SameList, SameLook
  <2>2. g5.open = g.open
    BY <1>20 DEF SameList
  <2> QED BY <2>1, <2>2, <1>26 DEF seen
<1>31. \A c \in g.hotlist \ h.hotlist :
          c = b \/ (h.number[c] = h.number[b] /\ (~h.zoomed[c] \/ h.active[c] = 2))
  BY <1>14, <1>25 DEF SameList, SameLook
<1> QED BY <1>4, <1>5, <1>14, <1>20, <1>21, <1>22, <1>23, <1>24, <1>25, <1>26, <1>29, <1>30, <1>31 DEF SwitchedTo

-----------------------------------------------------------------------------
(* The list and the numbers, when buffers leave it and enter it.           *)
Sorted(g) == \A b \in g.open : \A c \in g.before[b] : g.number[c] <= g.number[b]
Positive(g) == \A b \in g.open : g.number[b] >= 1
Dense(g) == \A b \in g.open : g.number[b] <= 1 \/ \E c \in g.open : g.number[c] = g.number[b] - 1
Listed(g) == LinkedOn(g, g.open) /\ Sorted(g) /\ Positive(g) /\ (auto_renumber => Dense(g))

\* two states of the list have the same groups among some buffers
SameGroups(g, h, set) == \A b, c \in set : h.number[b] = h.number[c] <=> g.number[b] = g.number[c]

LEMMA TypeFacts ==
    ASSUME NEW g \in Interface
    PROVE  /\ g.open \in SUBSET Buffer /\ \A b \in Buffer : g.number[b] \in Int /\ g.before[b] \in SUBSET Buffer
           /\ \A b \in Buffer : g.active[b] \in {0, 1, 2} /\ g.mixed_lines[b] \in SUBSET Buffer
           /\ \A b \in Buffer : g.zoomed[b] \in BOOLEAN /\ g.lines[b] \in {"own", "mixed"}
           /\ \A b \in Buffer : g.num_displayed[b] \in Nat
           /\ g.hotlist \in SUBSET Buffer /\ g.shown \in SUBSET Buffer
BY DEF Interface

\* The order of the list, one pair at a time.
Ordered(before, set) ==
    /\ \A b \in set : \A c \in before[b] : c \in set /\ c # b /\ b \notin before[c]
    /\ \A b \in set : \A c \in before[b] : \A d \in before[c] : d \in before[b]
    /\ \A b, c \in set : b = c \/ c \in before[b] \/ b \in before[c]

LEMMA LinkedOrdered ==
    ASSUME NEW g, NEW set
    PROVE  LinkedOn(g, set) <=> Ordered(g.before, set)
<1>1. ASSUME LinkedOn(g, set) PROVE Ordered(g.before, set)
  <2>1. \A b \in set : \A c \in g.before[b] : c \in set /\ c # b /\ b \notin g.before[c]
    BY <1>1 DEF LinkedOn
  <2>2. \A b \in set : \A c \in g.before[b] : \A d \in g.before[c] : d \in g.before[b]
    BY <1>1 DEF LinkedOn
  <2>3. \A b, c \in set : b = c \/ c \in g.before[b] \/ b \in g.before[c]
    BY <1>1 DEF LinkedOn
  <2> QED BY <2>1, <2>2, <2>3 DEF Ordered
<1>2. ASSUME Ordered(g.before, set) PROVE LinkedOn(g, set)
  <2> SUFFICES ASSUME NEW b \in set
               PROVE  /\ g.before[b] \subseteq set \ {b}
                      /\ \A c \in g.before[b] : b \notin g.before[c] /\ g.before[c] \subseteq g.before[b]
                      /\ \A c \in set \ {b} : c \in g.before[b] \/ b \in g.before[c]
    BY DEF LinkedOn
  <2>1. \A c \in g.before[b] : c \in set /\ c # b /\ b \notin g.before[c]
    BY <1>2 DEF Ordered
  <2>2. \A c \in g.before[b] : \A d \in g.before[c] : d \in g.before[b]
    BY <1>2 DEF Ordered
  <2>3. \A c \in set : b = c \/ c \in g.before[b] \/ b \in g.before[c]
    BY <1>2 DEF Ordered
  <2> QED BY <2>1, <2>2, <2>3
<1> QED BY <1>1, <1>2

LEMMA RemovedLinked ==
    ASSUME NEW g \in Interface, LinkedOn(g, g.open), NEW set \in SUBSET g.open,
           NEW h \in Interface, h.open = g.open \ set,
           \A b \in g.open : h.before[b] = IF b \in set THEN g.before[b] \cap set ELSE g.before[b] \ set
    PROVE  LinkedOn(h, h.open) /\ LinkedOn(h, set)
<1>1. Ordered(g.before, g.open)
  BY LinkedOrdered
<1>2. \A b \in g.open : \A c : c \in h.before[b] <=> c \in g.before[b] /\ (c \in set <=> b \in set)
  <2>1. \A b \in g.open : \A c \in g.before[b] : c \in g.open
    BY <1>1 DEF Ordered
  <2> QED BY <2>1
<1>3. Ordered(h.before, h.open)
  BY <1>1, <1>2 DEF Ordered
<1>4. Ordered(h.before, set)
  BY <1>1, <1>2 DEF Ordered
<1> QED BY <1>3, <1>4, LinkedOrdered

LEMMA PlacedLinked ==
    ASSUME NEW g \in Interface, LinkedOn(g, g.open), NEW block \in SUBSET (Buffer \ g.open),
           LinkedOn(g, block), NEW front \in SUBSET g.open, \A c \in front : g.before[c] \subseteq front,
           NEW h \in Interface, NEW n, PlacedIn(g, h, block, front, n)
    PROVE  LinkedOn(h, h.open)
<1>0. /\ h.open = g.open \cup block
      /\ \A b \in h.open : h.before[b] = IF b \in block THEN g.before[b] \cup front
                                           ELSE IF b \in g.open \ front THEN g.before[b] \cup block ELSE g.before[b]
  <2>1. \A b \in g.open \cup block : b \in Buffer
    BY TypeFacts
  <2> QED BY <2>1 DEF PlacedIn
<1>12. h.open = g.open \cup block
  BY <1>0
<1>1. Ordered(g.before, g.open) /\ Ordered(g.before, block)
  BY LinkedOrdered
<1>2. \A b \in block : \A c : c \in h.before[b] <=> c \in g.before[b] \/ c \in front
  BY <1>0
<1>3. \A b \in front : \A c : c \in h.before[b] <=> c \in g.before[b]
  BY <1>0
<1>4. \A b \in g.open \ front : \A c : c \in h.before[b] <=> c \in g.before[b] \/ c \in block
  BY <1>0
<1>5. \A b \in block : \A c \in g.before[b] : c \in block
  BY <1>1 DEF Ordered
<1>6. \A b \in front : \A c \in g.before[b] : c \in front
  OBVIOUS
<1>7. \A b \in g.open : \A c \in g.before[b] : c \in g.open
  BY <1>1 DEF Ordered
<1>8. \A b \in g.open \ front : \A c \in front : c \in g.before[b]
  BY <1>1, <1>6 DEF Ordered
<1>9. \A b \in h.open : \A c \in h.before[b] : c \in h.open /\ c # b /\ b \notin h.before[c]
  <2> TAKE b \in h.open
  <2> TAKE c \in h.before[b]
  <2>1. CASE b \in block
    BY <1>12, <2>1, <1>1, <1>2, <1>3, <1>5, <1>7 DEF Ordered
  <2>2. CASE b \in front
    BY <1>12, <2>2, <1>1, <1>3, <1>6, <1>7 DEF Ordered
  <2>3. CASE b \in g.open \ front
    <3>1. CASE c \in block
      BY <1>12, <3>1, <2>3, <1>2, <1>5
    <3>2. CASE c \in front
      BY <1>12, <3>2, <2>3, <1>1, <1>3, <1>4, <1>6, <1>7 DEF Ordered
    <3>3. CASE c \notin block /\ c \notin front
      BY <1>12, <3>3, <2>3, <1>1, <1>4, <1>7 DEF Ordered
    <3> QED BY <1>12, <3>1, <3>2, <3>3
  <2> QED BY <1>12, <2>1, <2>2, <2>3
<1>10. \A b \in h.open : \A c \in h.before[b] : \A d \in h.before[c] : d \in h.before[b]
  <2> TAKE b \in h.open
  <2> TAKE c \in h.before[b]
  <2> TAKE d \in h.before[c]
  <2>1. CASE b \in block
    <3>1. CASE c \in block
      BY <1>12, <3>1, <2>1, <1>1, <1>2, <1>5, <1>7 DEF Ordered
    <3>2. CASE c \in front
      BY <1>12, <3>2, <2>1, <1>2, <1>3, <1>6
    <3> QED BY <1>12, <3>1, <3>2, <2>1, <1>2, <1>5
  <2>2. CASE b \in front
    BY <1>12, <2>2, <1>1, <1>3, <1>6, <1>7 DEF Ordered
  <2>3. CASE b \in g.open \ front
    <3>1. CASE c \in block
      BY <1>12, <3>1, <2>3, <1>2, <1>4, <1>5, <1>8
    <3>2. CASE c \in front
      BY <1>12, <3>2, <2>3, <1>3, <1>4, <1>6, <1>8
    <3>3. CASE c \in g.open \ front
      BY <1>12, <3>3, <2>3, <1>1, <1>4, <1>7 DEF Ordered
    <3> QED BY <1>12, <3>1, <3>2, <3>3, <2>3, <1>4, <1>7
  <2> QED BY <1>12, <2>1, <2>2, <2>3
<1>11. \A b, c \in h.open : b = c \/ c \in h.before[b] \/ b \in h.before[c]
  BY <1>12, <1>1, <1>2, <1>3, <1>4, <1>8 DEF Ordered
<1> QED BY <1>12, <1>9, <1>10, <1>11, LinkedOrdered DEF Ordered

\* A group leaves the list, and the next ones take its number.
TakenFrom(g, h, set) ==
    /\ h.open = g.open \ set
    /\ \A c \in g.open : h.before[c] = IF c \in set THEN g.before[c] \cap set ELSE g.before[c] \ set
    /\ \A c \in g.open \ set :
          h.number[c] = IF auto_renumber /\ g.before[c] \cap set # {} THEN g.number[c] - 1 ELSE g.number[c]

LEMMA GroupTaken ==
    ASSUME NEW g \in Interface, Listed(g), NEW b \in g.open, NEW set, set = Mates(g, b),
           NEW h \in Interface, TakenFrom(g, h, set)
    PROVE  Listed(h) /\ LinkedOn(h, set) /\ SameGroups(g, h, h.open)
<1>0. /\ h.open = g.open \ set
      /\ \A c \in g.open : h.before[c] = IF c \in set THEN g.before[c] \cap set ELSE g.before[c] \ set
      /\ \A c \in g.open \ set :
            h.number[c] = IF auto_renumber /\ g.before[c] \cap set # {} THEN g.number[c] - 1 ELSE g.number[c]
  BY DEF TakenFrom
<1>1. LinkedOn(h, h.open) /\ LinkedOn(h, set)
  BY <1>0, RemovedLinked DEF Listed, Mates, Group
<1>2. \A c \in g.open \ set : g.before[c] \cap set # {} <=> g.number[c] > g.number[b]
  <2> TAKE c \in g.open \ set
  <2>0. g.number[c] \in Int /\ g.number[b] \in Int /\ g.number[c] # g.number[b]
    BY TypeFacts DEF Mates, Group
  <2>1. ASSUME NEW d \in g.before[c] \cap set PROVE g.number[c] > g.number[b]
    BY <2>0 DEF Listed, Sorted, Mates, Group
  <2>2. ASSUME g.number[c] > g.number[b] PROVE b \in g.before[c] \cap set
    BY <2>0, <2>2 DEF Listed, Sorted, LinkedOn, Mates, Group
  <2> QED BY <2>1, <2>2
<1>3. \A c \in h.open :
         h.number[c] = IF auto_renumber /\ g.number[c] > g.number[b] THEN g.number[c] - 1 ELSE g.number[c]
  BY <1>0, <1>2
<1>4. \A c \in h.open : g.number[c] \in Int /\ g.number[c] >= 1 /\ g.number[c] # g.number[b]
  BY <1>0, TypeFacts DEF Mates, Group, Listed, Positive
<1>5. g.number[b] \in Int /\ g.number[b] >= 1
  BY TypeFacts DEF Listed, Positive
<1>6. Positive(h)
  BY <1>3, <1>4, <1>5 DEF Positive
<1>7. SameGroups(g, h, h.open)
  BY <1>3, <1>4, <1>5 DEF SameGroups
<1>8. Sorted(h)
  <2>1. \A c \in h.open : \A d \in h.before[c] : d \in h.open /\ g.number[d] <= g.number[c]
    <3> TAKE c \in h.open
    <3> TAKE d \in h.before[c]
    <3>1. d \in h.open
      BY <1>1 DEF LinkedOn
    <3>2. h.before[c] = g.before[c] \ set /\ c \in g.open
      BY <1>0
    <3> QED BY <3>1, <3>2 DEF Listed, Sorted
  <2> QED BY <1>3, <1>4, <1>5, <2>1 DEF Sorted
<1>9. ASSUME auto_renumber PROVE Dense(h)
  <2> SUFFICES ASSUME NEW c \in h.open, h.number[c] > 1
               PROVE  \E d \in h.open : h.number[d] = h.number[c] - 1
    BY <1>3, <1>4 DEF Dense
  <2>0. Dense(g)
    BY <1>9 DEF Listed
  <2>1. PICK d \in g.open : g.number[d] = g.number[c] - 1
    BY <1>0, <1>3, <1>4, <1>5, <1>9, <2>0 DEF Dense
  <2>2. CASE d \notin set
    BY <1>0, <1>3, <1>4, <1>5, <1>9, <2>1, <2>2
  <2>3. CASE d \in set
    <3>1. g.number[d] = g.number[b]
      BY <2>3 DEF Mates, Group
    <3>2. h.number[c] = g.number[b]
      BY <1>3, <1>4, <1>5, <1>9, <2>1, <3>1
    <3>3. PICK e \in g.open : g.number[e] = g.number[b] - 1
      BY <1>5, <3>2, <2>0 DEF Dense
    <3>4. e \in h.open
      BY <1>0, <1>5, <3>3 DEF Mates, Group
    <3>5. h.number[e] = g.number[e]
      BY <1>3, <1>4, <1>5, <3>3, <3>4
    <3> QED BY <3>2, <3>3, <3>4, <3>5
  <2> QED BY <2>2, <2>3
<1> QED BY <1>1, <1>6, <1>7, <1>8, <1>9 DEF Listed

\* Numbers are shifted until a gap, where they are not taken.
LEMMA ShiftNumbersIs ==
    ASSUME NEW g \in Interface, LinkedOn(g, g.open), Sorted(g), Positive(g), NEW from \in g.open,
           NEW h, h = ShiftNumbers(g, from)
    PROVE  /\ h \in Interface /\ h.open = g.open /\ h.before = g.before
           /\ SameLook(g, h) /\ SameView(g, h) /\ SameCount(g, h)
           /\ \E run \in SUBSET g.open :
                 /\ \A b \in Buffer : h.number[b] = IF b \in run THEN g.number[b] + 1 ELSE g.number[b]
                 /\ from \in run /\ run \subseteq After(g, from) \cup {from}
                 /\ \A b \in run : \A c \in After(g, from) \ run : g.number[c] > g.number[b] + 1
                 /\ Dense(g) => run = After(g, from) \cup {from}
<1> DEFINE gap(b) == g.number[b] > g.number[Prev(g, b)] + 1
           upto(b) == After(g, from) \cap (g.before[b] \cup {b})
           run == {b \in After(g, from) \cup {from} : \A c \in upto(b) : ~gap(c)}
<1>0. g.open \in SUBSET Buffer /\ \A b \in Buffer : g.number[b] \in Int
  BY TypeFacts
<1>1. h = Shifted(g, run, 1)
  BY DEF ShiftNumbers
<1>2. run \in SUBSET g.open
  BY DEF After
<1>3. from \in run
  BY DEF After, LinkedOn
<1>4. \A d \in After(g, from) : /\ d \in g.open /\ Prev(g, d) \in g.before[d]
                                /\ \A c \in g.before[d] : c = Prev(g, d) \/ c \in g.before[Prev(g, d)]
  BY <1>0, PrevIs DEF After
<1>5. ASSUME NEW d \in After(g, from), gap(d), NEW c \in g.before[d] PROVE g.number[d] > g.number[c] + 1
  <2>1. Prev(g, d) \in g.open /\ c \in g.open
    <3>1. d \in g.open
      BY <1>4
    <3>2. g.before[d] \subseteq g.open
      BY <3>1 DEF LinkedOn
    <3> QED BY <3>2, <1>4
  <2>2. g.number[c] <= g.number[Prev(g, d)]
    BY <1>0, <1>4, <1>5, <2>1 DEF Sorted
  <2>3. g.number[d] > g.number[Prev(g, d)] + 1
    BY <1>5
  <2>4. g.number[d] \in Int /\ g.number[c] \in Int /\ g.number[Prev(g, d)] \in Int
    BY <1>0, <1>4, <2>1
  <2> QED BY <2>2, <2>3, <2>4
<1>6. ASSUME NEW c \in After(g, from) \ run PROVE \E d \in upto(c) : gap(d)
  BY <1>6
<1> HIDE DEF gap
<1>7. ASSUME NEW b \in run, NEW c \in After(g, from) \ run PROVE g.number[c] > g.number[b] + 1
  <2>1. PICK d \in upto(c) : gap(d)
    BY <1>6
  <2>2. d \in After(g, from) /\ (d = c \/ d \in g.before[c]) /\ d \in g.open /\ c \in g.open /\ b \in g.open
    BY <1>2 DEF After
  <2>3. d \notin upto(b)
    BY <2>1
  <2>4. d # b /\ d \notin g.before[b]
    BY <2>2, <2>3
  <2>5. b \in g.before[d]
    BY <2>2, <2>4 DEF LinkedOn
  <2>6. g.number[d] > g.number[b] + 1
    BY <1>5, <2>1, <2>2, <2>5
  <2>7. g.number[d] <= g.number[c]
    BY <1>0, <2>2 DEF Sorted
  <2> QED BY <1>0, <2>2, <2>6, <2>7
<1>8. ASSUME Dense(g) PROVE run = After(g, from) \cup {from}
  <2> SUFFICES ASSUME NEW c \in After(g, from) \ run PROVE FALSE
    BY <1>3
  <2>1. PICK d \in upto(c) : gap(d)
    BY <1>6
  <2>2. d \in After(g, from) /\ d \in g.open /\ from \in g.before[d]
    BY DEF After
  <2>3. g.number[d] > g.number[from] + 1
    BY <1>5, <2>1, <2>2
  <2>4. g.number[d] \in Int /\ g.number[from] \in Int /\ g.number[from] >= 1
    BY <1>0, <2>2 DEF Positive
  <2>5. PICK e \in g.open : g.number[e] = g.number[d] - 1
    BY <1>8, <2>2, <2>3, <2>4 DEF Dense
  <2>6. e \in g.before[d]
    <3>1. e # d
      BY <2>4, <2>5
    <3>2. d \notin g.before[e]
      BY <2>4, <2>5, <2>2 DEF Sorted
    <3> QED BY <3>1, <3>2, <2>2 DEF LinkedOn
  <2>7. g.number[d] > g.number[e] + 1
    BY <1>5, <2>1, <2>2, <2>6
  <2> QED BY <2>4, <2>5, <2>7
<1> HIDE DEF run
<1>9. /\ h \in Interface /\ h.open = g.open /\ h.before = g.before
      /\ \A b \in Buffer : h.number[b] = IF b \in run THEN g.number[b] + 1 ELSE g.number[b]
      /\ SameLook(g, h) /\ SameView(g, h) /\ SameCount(g, h)
  BY <1>1, ShiftedIs
<1>10. run \subseteq After(g, from) \cup {from}
  BY DEF run
<1> QED BY <1>2, <1>3, <1>7, <1>8, <1>9, <1>10

\* A block of buffers enters the list with a number of its own.
InsertNumber(g, n, m) ==
    /\ n \in Int /\ m \in Int /\ n >= 1 /\ m >= 1
    /\ (\E b \in g.open : g.number[b] >= n) => m = n
    /\ (\A b \in g.open : g.number[b] < n) =>
          /\ \A b \in g.open : g.number[b] < m
          /\ auto_renumber => m = 1 \/ \E b \in g.open : g.number[b] = m - 1

\* h is g once a block of buffers has entered the list, as a group.
InsertedIn(g, h, block) ==
    /\ h.open = g.open \cup block /\ SameGroups(g, h, g.open)
    /\ \A b \in block : \A c \in h.open : h.number[c] = h.number[b] <=> c \in block
    /\ \A b \in Buffer \ h.open : h.before[b] = g.before[b]

LEMMA InsertIs ==
    ASSUME NEW g \in Interface, Listed(g), NEW block \in SUBSET (Buffer \ g.open), LinkedOn(g, block),
           NEW n, NEW m, InsertNumber(g, n, m), block # {}, NEW h, h = Insert(g, block, n, m)
    PROVE  /\ h \in Interface /\ Listed(h) /\ InsertedIn(g, h, block)
           /\ SameLook(g, h) /\ SameView(g, h) /\ SameCount(g, h)
<1> DEFINE front == {b \in g.open : \A c \in g.before[b] \cup {b} : g.number[c] < n}
           next == FirstOf(g, g.open \ front)
           g2 == Placed(g, block, front, m)
<1>0. /\ g.open \in SUBSET Buffer /\ \A b \in Buffer : g.number[b] \in Int
      /\ n \in Int /\ m \in Int /\ n >= 1 /\ m >= 1 /\ block \in SUBSET Buffer
  BY TypeFacts DEF InsertNumber
<1>1. front \in SUBSET g.open /\ \A b \in g.open : b \in front <=> g.number[b] < n
  <2> SUFFICES ASSUME NEW b \in g.open PROVE b \in front <=> g.number[b] < n
    OBVIOUS
  <2>1. \A c \in g.before[b] : c \in g.open
    BY DEF Listed, LinkedOn
  <2>2. \A c \in g.before[b] : g.number[c] <= g.number[b]
    BY DEF Listed, Sorted
  <2>3. \A c \in g.before[b] : g.number[c] \in Int /\ g.number[b] \in Int
    BY <1>0, <2>1
  <2>4. g.number[b] < n => \A c \in g.before[b] \cup {b} : g.number[c] < n
    BY <1>0, <2>2, <2>3
  <2> QED BY <2>4
<1> HIDE DEF front
<1>2. \A b \in front : g.before[b] \subseteq front
  <2> TAKE b \in front
  <2> SUFFICES ASSUME NEW c \in g.before[b] PROVE c \in front
    OBVIOUS
  <2>0. b \in g.open
    BY <1>1
  <2>1. c \in g.open
    BY <2>0 DEF Listed, LinkedOn
  <2>2. g.number[c] <= g.number[b]
    BY <2>0 DEF Listed, Sorted
  <2> QED BY <1>0, <1>1, <2>0, <2>1, <2>2
<1>3. /\ g2 \in Interface /\ PlacedIn(g, g2, block, front, m) /\ g2.open = g.open \cup block
      /\ \A b \in Buffer : g2.before[b] =
            IF b \in block THEN g.before[b] \cup front
            ELSE IF b \in g.open \ front THEN g.before[b] \cup block ELSE g.before[b]
      /\ \A b \in Buffer : g2.number[b] = IF b \in block THEN m ELSE g.number[b]
      /\ SameLook(g, g2) /\ SameView(g, g2) /\ SameCount(g, g2)
  <2>1. front \in SUBSET Buffer /\ m \in Int
    BY <1>0, <1>1
  <2>2. g2 = Placed(g, block, front, m)
    OBVIOUS
  <2> HIDE DEF g2
  <2>3. block \in SUBSET Buffer
    BY <1>0
  <2> HIDE DEF next
  <2>4. /\ g2 \in Interface /\ PlacedIn(g, g2, block, front, m)
        /\ SameLook(g, g2) /\ SameView(g, g2) /\ SameCount(g, g2)
    BY <2>1, <2>2, <2>3, PlacedIs
  <2> QED BY <2>4 DEF PlacedIn
<1> HIDE DEF g2
<1>4. LinkedOn(g2, g2.open)
  <2>1. LinkedOn(g, g.open)
    BY DEF Listed
  <2>2. front \in SUBSET g.open /\ \A b \in front : g.before[b] \subseteq front
    BY <1>1, <1>2
  <2> QED BY <1>3, <2>1, <2>2, PlacedLinked
<1>5. \A b \in g.open : g.number[b] < n => g.number[b] < m
  BY <1>0 DEF InsertNumber
<1>6. \A b \in g.open : g.number[b] >= n => m = n
  BY <1>0 DEF InsertNumber
<1>7. Sorted(g2)
  <2> SUFFICES ASSUME NEW b \in g2.open, NEW c \in g2.before[b] PROVE g2.number[c] <= g2.number[b]
    BY DEF Sorted
  <2>0. b \in Buffer /\ c \in Buffer /\ c \in g2.open
    BY <1>0, <1>3, <1>4 DEF LinkedOn
  <2>1. CASE b \in block
    <3>0. g.before[b] \subseteq block
      BY <2>1 DEF LinkedOn
    <3>1. c \in block \/ c \in front
      BY <2>1, <2>0, <3>0, <1>3
    <3> QED BY <3>1, <2>0, <2>1, <1>0, <1>1, <1>3, <1>5
  <2>2. CASE b \notin block
    <3>1. b \in g.open
      BY <2>2, <1>3
    <3>2. CASE c \in block
      <4>1. b \notin front
        <5>1. ASSUME b \in front PROVE c \in g.open
          BY <3>1, <5>1, <1>3, <2>0, <2>2 DEF Listed, LinkedOn
        <5> QED BY <5>1, <3>2
      <4> QED BY <3>1, <3>2, <4>1, <2>0, <1>0, <1>1, <1>3, <1>6
    <3>3. CASE c \notin block
      <4>1. c \in g.before[b]
        BY <3>3, <2>0, <2>2, <1>3
      <4>2. g.number[c] <= g.number[b]
        BY <3>1, <4>1 DEF Listed, Sorted
      <4> QED BY <4>2, <3>3, <2>0, <2>2, <1>3
    <3> QED BY <3>2, <3>3
  <2> QED BY <2>1, <2>2
<1>8. Positive(g2)
  BY <1>0, <1>3 DEF Positive, Listed
<1>9. ASSUME auto_renumber, g.open # front
      PROVE  n = 1 \/ \E b \in g.open : g.number[b] = n - 1
  <2>1. /\ next \in g.open \ front /\ \A c \in g.open \ front : c = next \/ next \in g.before[c]
    BY <1>0, <1>1, <1>9, FirstOfIs DEF Listed
  <2> HIDE DEF next
  <2>2. \A c \in g.open \ front : g.number[next] <= g.number[c]
    BY <2>1, <1>0 DEF Listed, Sorted
  <2>3. g.number[next] >= n /\ g.number[next] \in Int
    BY <2>1, <1>0, <1>1
  <2>4. CASE g.number[next] <= 1
    BY <2>3, <2>4, <1>0
  <2>5. CASE g.number[next] > 1
    <3>1. PICK c \in g.open : g.number[c] = g.number[next] - 1
      BY <2>1, <2>3, <2>5, <1>9 DEF Listed, Dense
    <3>2. c \in front
      BY <2>2, <2>3, <3>1
    <3> QED BY <2>3, <3>1, <3>2, <1>0, <1>1
  <2> QED BY <2>3, <2>4, <2>5
<1>10. ASSUME auto_renumber PROVE m = 1 \/ \E b \in g.open : g.number[b] = m - 1
  <2>1. CASE g.open # front
    <3>1. m = n
      BY <2>1, <1>0, <1>1, <1>6
    <3> QED BY <3>1, <2>1, <1>9, <1>10
  <2>2. CASE g.open = front
    BY <2>2, <1>1, <1>10 DEF InsertNumber
  <2> QED BY <2>1, <2>2
<1>11. ASSUME auto_renumber PROVE Dense(g2)
  <2> SUFFICES ASSUME NEW b \in g2.open, g2.number[b] > 1 PROVE \E c \in g2.open : g2.number[c] = g2.number[b] - 1
    BY <1>0, <1>3 DEF Dense
  <2>1. CASE b \in block
    BY <2>1, <1>0, <1>3, <1>10, <1>11
  <2>2. CASE b \notin block
    <3>1. b \in g.open /\ g2.number[b] = g.number[b] /\ g.number[b] \in Int
      BY <2>2, <1>0, <1>3
    <3>2. PICK c \in g.open : g.number[c] = g.number[b] - 1
      BY <3>1, <1>11 DEF Listed, Dense
    <3> QED BY <3>1, <3>2, <1>0, <1>3
  <2> QED BY <2>1, <2>2
<1>12. \A b \in g.open : b \in Buffer /\ b \notin block
  BY <1>0
<1>13. CASE ~(front # g.open /\ g.number[next] = m)
  <2>1. h = g2
    BY <1>13 DEF Insert, front, g2
  <2>2. \A c \in g.open : g.number[c] # m
    <3>1. CASE front = g.open
      BY <3>1, <1>0, <1>1, <1>5
    <3>2. CASE front # g.open
      <4>1. /\ next \in g.open \ front /\ \A c \in g.open \ front : c = next \/ next \in g.before[c]
        BY <1>0, <1>1, <3>2, FirstOfIs DEF Listed
      <4>2. g.number[next] # m
        BY <1>13, <3>2
      <4> HIDE DEF next
      <4>3. m = n
        BY <4>1, <1>0, <1>1, <1>6
      <4>4. \A c \in g.open \ front : g.number[next] <= g.number[c]
        BY <4>1, <1>0 DEF Listed, Sorted
      <4>5. g.number[next] > m /\ g.number[next] \in Int
        BY <4>1, <4>2, <4>3, <1>0, <1>1
      <4>6. \A c \in g.open \ front : g.number[c] # m
        BY <1>0, <4>4, <4>5
      <4>7. \A c \in front : g.number[c] < m /\ g.number[c] \in Int
        BY <1>0, <1>1, <4>3
      <4>8. \A c \in front : g.number[c] # m
        BY <1>0, <4>7
      <4> QED BY <4>6, <4>8
    <3> QED BY <3>1, <3>2
  <2>3. SameGroups(g, g2, g.open)
    BY <1>3, <1>12 DEF SameGroups
  <2>4. \A b \in block : \A c \in g2.open : g2.number[c] = g2.number[b] <=> c \in block
    BY <2>2, <1>0, <1>3, <1>12
  <2>5. \A b \in Buffer \ g2.open : g2.before[b] = g.before[b]
    BY <1>3
  <2> QED BY <2>1, <2>3, <2>4, <2>5, <1>3, <1>4, <1>7, <1>8, <1>11 DEF Listed, InsertedIn
<1>14. CASE front # g.open /\ g.number[next] = m
  <2>1. h = ShiftNumbers(g2, next)
    BY <1>14 DEF Insert, front, g2
  <2>2. /\ next \in g.open \ front /\ \A c \in g.open \ front : c = next \/ next \in g.before[c]
    BY <1>0, <1>1, <1>14, FirstOfIs DEF Listed
  <2>3. g.number[next] = m /\ m = n
    BY <1>14, <2>2, <1>0, <1>1, <1>6
  <2> HIDE DEF next
  <2>4. \A c \in g2.open : c \in After(g2, next) \cup {next} <=> c \in g.open \ front
    <3> TAKE c \in g2.open
    <3>1. CASE c \in block
      <4>1. g.before[c] \subseteq block
        BY <3>1 DEF LinkedOn
      <4>2. next \notin g2.before[c] /\ next # c
        BY <3>1, <4>1, <2>2, <1>0, <1>3, <1>12
      <4> QED BY <3>1, <4>2, <1>12 DEF After
    <3>2. CASE c \in front
      <4>1. next \notin g.before[c]
        BY <3>2, <2>2, <1>2
      <4> QED BY <3>2, <4>1, <2>2, <1>1, <1>3, <1>12 DEF After
    <3>3. CASE c \in g.open \ front
      BY <3>3, <2>2, <1>0, <1>3, <1>12 DEF After
    <3> QED BY <3>1, <3>2, <3>3, <1>3
  <2>5. next \in g2.open
    BY <2>2, <1>3
  <2>60. /\ h \in Interface /\ h.open = g2.open /\ h.before = g2.before
         /\ SameLook(g2, h) /\ SameView(g2, h) /\ SameCount(g2, h)
         /\ \E run \in SUBSET g2.open :
               /\ \A b \in Buffer : h.number[b] = IF b \in run THEN g2.number[b] + 1 ELSE g2.number[b]
               /\ next \in run /\ run \subseteq After(g2, next) \cup {next}
               /\ \A b \in run : \A c \in After(g2, next) \ run : g2.number[c] > g2.number[b] + 1
               /\ Dense(g2) => run = After(g2, next) \cup {next}
    <3>1. g2 \in Interface
      BY <1>3
    <3> QED BY <2>1, <2>5, <3>1, <1>4, <1>7, <1>8, ShiftNumbersIs
  <2>6. PICK run \in SUBSET g2.open :
           /\ \A b \in Buffer : h.number[b] = IF b \in run THEN g2.number[b] + 1 ELSE g2.number[b]
           /\ next \in run /\ run \subseteq After(g2, next) \cup {next}
           /\ \A b \in run : \A c \in After(g2, next) \ run : g2.number[c] > g2.number[b] + 1
           /\ Dense(g2) => run = After(g2, next) \cup {next}
    BY <2>60
  <2>7. /\ h \in Interface /\ h.open = g2.open /\ h.before = g2.before
        /\ SameLook(g2, h) /\ SameView(g2, h) /\ SameCount(g2, h)
    BY <2>60
  <2>8. /\ run \subseteq g.open \ front /\ next \in run
        /\ \A b \in run : \A c \in (g.open \ front) \ run : g.number[c] > g.number[b] + 1
        /\ auto_renumber => run = g.open \ front
    <3>1. run \subseteq g.open \ front
      BY <2>4, <2>6
    <3>2. ASSUME NEW b \in run, NEW c \in (g.open \ front) \ run PROVE g.number[c] > g.number[b] + 1
      <4>1. c \in After(g2, next) \ run
        BY <2>4, <2>6, <1>3
      <4>2. g2.number[c] = g.number[c] /\ g2.number[b] = g.number[b]
        BY <3>1, <1>3, <1>12
      <4> QED BY <4>1, <4>2, <2>6
    <3>3. ASSUME auto_renumber PROVE run = g.open \ front
      BY <3>1, <3>3, <1>3, <1>11, <2>4, <2>6
    <3> QED BY <3>1, <3>2, <3>3, <2>6
  <2>9. /\ \A b \in block : h.number[b] = n
        /\ \A b \in g.open : h.number[b] = IF b \in run THEN g.number[b] + 1 ELSE g.number[b]
    BY <2>3, <2>6, <2>8, <1>0, <1>3, <1>12
  <2> HIDE DEF SameLook, SameView, SameCount
  <2>10. \A b \in run : g.number[b] >= n /\ g.number[b] \in Int
    BY <2>8, <1>0, <1>1
  <2>11. \A c \in (g.open \ front) \ run : g.number[c] > n + 1
    BY <2>3, <2>8, <1>0
  <2>12. \A c \in front : g.number[c] < n /\ g.number[c] \in Int /\ c \in g.open
    BY <1>0, <1>1
  <2>13. SameGroups(g, h, g.open)
    <3> SUFFICES ASSUME NEW b \in g.open, NEW c \in g.open PROVE h.number[b] = h.number[c] <=> g.number[b] = g.number[c]
      BY DEF SameGroups
    <3>0. g.number[b] \in Int /\ g.number[c] \in Int
      BY <1>0
    <3>1. CASE b \in run /\ c \in run
      BY <3>0, <3>1, <2>9
    <3>2. CASE b \notin run /\ c \notin run
      BY <3>0, <3>2, <2>9
    <3>3. CASE b \in run /\ c \in front
      <4>1. c \notin run
        BY <3>3, <2>8
      <4>2. g.number[b] >= n /\ g.number[c] < n
        BY <3>3, <2>10, <2>12
      <4>3. h.number[b] = g.number[b] + 1 /\ h.number[c] = g.number[c]
        BY <3>3, <4>1, <2>9
      <4> QED BY <3>0, <4>2, <4>3, <1>0
    <3>4. CASE b \in run /\ c \in (g.open \ front) \ run
      <4>1. g.number[c] > g.number[b] + 1
        BY <3>4, <2>8
      <4> QED BY <4>1, <3>0, <3>4, <2>9
    <3>5. CASE c \in run /\ b \in front
      <4>1. b \notin run
        BY <3>5, <2>8
      <4>2. g.number[c] >= n /\ g.number[b] < n
        BY <3>5, <2>10, <2>12
      <4>3. h.number[c] = g.number[c] + 1 /\ h.number[b] = g.number[b]
        BY <3>5, <4>1, <2>9
      <4> QED BY <3>0, <4>2, <4>3, <1>0
    <3>6. CASE c \in run /\ b \in (g.open \ front) \ run
      <4>1. g.number[b] > g.number[c] + 1
        BY <3>6, <2>8
      <4> QED BY <4>1, <3>0, <3>6, <2>9
    <3> QED BY <3>1, <3>2, <3>3, <3>4, <3>5, <3>6
  <2>14. \A c \in g.open : h.number[c] # n
    BY <1>0, <2>9, <2>10, <2>11, <2>12
  <2>15. \A b \in block : \A c \in h.open : h.number[c] = h.number[b] <=> c \in block
    BY <2>7, <2>9, <2>14, <1>3
  <2>16. LinkedOn(h, h.open) /\ Positive(h)
    <3>1. \A b \in h.open : h.number[b] >= 1
      BY <1>0, <1>3, <2>7, <2>9 DEF Listed, Positive
    <3> QED BY <3>1, <2>7, <1>4 DEF LinkedOn, Positive
  <2>17. Sorted(h)
    <3> SUFFICES ASSUME NEW b \in h.open, NEW c \in h.before[b] PROVE h.number[c] <= h.number[b]
      BY DEF Sorted
    <3>0. b \in g2.open /\ c \in g2.before[b] /\ c \in g2.open /\ b \notin g2.before[c]
      BY <2>7, <1>4 DEF LinkedOn
    <3>1. g2.number[c] <= g2.number[b] /\ g2.number[b] \in Int /\ g2.number[c] \in Int
      BY <3>0, <1>0, <1>3, <1>7 DEF Sorted
    <3>2. h.number[b] = (IF b \in run THEN g2.number[b] + 1 ELSE g2.number[b])
          /\ h.number[c] = (IF c \in run THEN g2.number[c] + 1 ELSE g2.number[c])
      BY <3>0, <2>6, <1>0, <1>3
    <3>3. CASE c \notin run \/ b \in run
      BY <3>1, <3>2, <3>3
    <3>4. CASE c \in run /\ b \notin run
      <4>1. b \in After(g2, next) \cup {next}
        <5>1. c = next \/ next \in g2.before[c]
          BY <3>4, <2>6 DEF After
        <5>2. next \in g2.before[b]
          BY <5>1, <3>0, <1>4 DEF LinkedOn
        <5> QED BY <5>2, <3>0 DEF After
      <4>2. b \in After(g2, next) \ run
        BY <4>1, <3>4, <2>6
      <4>3. g2.number[b] > g2.number[c] + 1
        BY <4>2, <3>4, <2>6
      <4> QED BY <4>3, <3>1, <3>2, <3>4
    <3> QED BY <3>3, <3>4
  <2>18. ASSUME auto_renumber PROVE Dense(h)
    <3> SUFFICES ASSUME NEW b \in h.open, ~(h.number[b] <= 1) PROVE \E c \in h.open : h.number[c] = h.number[b] - 1
      BY DEF Dense
    <3>0. run = g.open \ front /\ h.open = g.open \cup block
      BY <2>7, <2>8, <2>18, <1>3
    <3>1. \A c \in front : h.number[c] = g.number[c]
      BY <3>0, <2>9, <2>12
    <3>2. CASE b \in block
      <4>1. PICK c \in g.open : g.number[c] = n - 1
        BY <3>2, <2>3, <2>9, <2>18, <1>0, <1>10
      <4>2. c \in front
        BY <4>1, <1>0, <1>1
      <4> QED BY <3>0, <3>1, <3>2, <4>1, <4>2, <2>9
    <3>3. CASE b \in front
      <4>1. h.number[b] = g.number[b] /\ g.number[b] < n /\ g.number[b] \in Int /\ b \in g.open
        BY <3>1, <3>3, <2>12
      <4>2. PICK c \in g.open : g.number[c] = g.number[b] - 1
        BY <4>1, <2>18 DEF Listed, Dense
      <4>3. c \in front
        BY <4>1, <4>2, <1>0, <1>1
      <4> QED BY <3>0, <3>1, <4>1, <4>2, <4>3
    <3>4. CASE b \in g.open \ front
      <4>1. h.number[b] = g.number[b] + 1 /\ g.number[b] \in Int /\ g.number[b] >= n
        BY <3>0, <3>4, <2>9, <2>10
      <4>2. CASE g.number[b] = n
        <5>1. PICK c \in block : TRUE
          OBVIOUS
        <5> QED BY <5>1, <4>1, <4>2, <3>0, <2>9
      <4>3. CASE g.number[b] > n
        <5>1. PICK c \in g.open : g.number[c] = g.number[b] - 1
          BY <3>4, <4>1, <4>3, <2>18, <1>0 DEF Listed, Dense
        <5>2. c \in g.open \ front
          BY <5>1, <4>1, <4>3, <1>0, <1>1
        <5>3. h.number[c] = g.number[c] + 1 /\ g.number[c] \in Int
          BY <5>2, <3>0, <2>9, <1>0
        <5> QED BY <5>1, <5>2, <5>3, <4>1, <3>0
      <4> QED BY <4>1, <4>2, <4>3, <1>0
    <3> QED BY <3>0, <3>2, <3>3, <3>4
  <2>19. \A b \in Buffer \ h.open : h.before[b] = g.before[b]
    BY <1>3, <2>7
  <2>20. SameLook(g, h) /\ SameView(g, h) /\ SameCount(g, h)
    BY <1>3, <2>7 DEF SameLook, SameView, SameCount
  <2> QED BY <2>7, <2>13, <2>15, <2>16, <2>17, <2>18, <2>19, <2>20, <1>3 DEF Listed, InsertedIn
<1> QED BY <1>13, <1>14

-----------------------------------------------------------------------------
(* The groups of merged buffers.                                           *)

\* Of the buffers with one number exactly one is active.
One(g) ==
    /\ \A b \in g.open : \E c \in g.open : g.number[c] = g.number[b] /\ g.active[c] # 0
    /\ \A b, c \in g.open : g.number[c] = g.number[b] /\ g.active[b] # 0 /\ g.active[c] # 0 => b = c
    /\ \A b \in g.open : g.active[b] = 2 => \E c \in g.open : c # b /\ g.number[c] = g.number[b]

\* The mixed lines of a group hold the lines of all its buffers.
Mixed(g) ==
    \A b \in g.open :
        /\ Merged(g, b) => g.mixed_lines[b] = Mates(g, b)
        /\ ~Merged(g, b) => g.mixed_lines[b] = {}
        /\ g.lines[b] = "mixed" <=> Merged(g, b) /\ g.active[b] # 2

\* A buffer is marked as zoomed if one of its group is.
Marked(g) == \A b \in g.open : g.zoomed[b] <=> \E c \in g.open : g.number[c] = g.number[b] /\ g.active[c] = 2

LEMMA MatesAre ==
    ASSUME NEW g, NEW b
    PROVE  /\ \A c : c \in Mates(g, b) <=> c \in g.open /\ g.number[c] = g.number[b]
           /\ \A c : c \in Others(g, b) <=> c \in g.open /\ g.number[c] = g.number[b] /\ c # b
           /\ Merged(g, b) <=> \E c \in g.open : g.number[c] = g.number[b] /\ c # b
BY DEF Mates, Group, Others, Merged

LEMMA ActivatedOne ==
    ASSUME NEW g \in Interface, One(g), NEW b \in g.open, NEW h, SameList(g, h), Activated(g, h, b)
    PROVE  One(h) /\ h.active[b] # 0
<1>0. g.open \in SUBSET Buffer /\ h.open = g.open /\ h.number = g.number
  BY TypeFacts DEF SameList
<1>1. PICK active \in {1, 2} :
        /\ active = 2 => \E c \in g.open : g.number[c] = g.number[b] /\ g.active[c] = 2
        /\ \A c \in g.open : h.active[c] = IF c = b THEN active
                                           ELSE IF g.number[c] = g.number[b] THEN 0 ELSE g.active[c]
  BY <1>0, MatesAre DEF Activated
<1>2. ASSUME NEW x \in g.open
      PROVE  \E c \in h.open : h.number[c] = h.number[x] /\ h.active[c] # 0
  <2>1. CASE g.number[x] = g.number[b]
    BY <2>1, <1>0, <1>1
  <2>2. CASE g.number[x] # g.number[b]
    <3>1. PICK c \in g.open : g.number[c] = g.number[x] /\ g.active[c] # 0
      BY DEF One
    <3> QED BY <2>2, <3>1, <1>0, <1>1
  <2> QED BY <2>1, <2>2
<1>3. ASSUME NEW x \in g.open, NEW c \in g.open, g.number[c] = g.number[x], h.active[x] # 0, h.active[c] # 0
      PROVE  x = c
  <2>1. CASE g.number[x] = g.number[b]
    BY <2>1, <1>1, <1>3
  <2>2. CASE g.number[x] # g.number[b]
    <3>1. g.active[x] # 0 /\ g.active[c] # 0
      BY <2>2, <1>1, <1>3
    <3> QED BY <3>1, <1>3 DEF One
  <2> QED BY <2>1, <2>2
<1>4. ASSUME NEW x \in g.open, h.active[x] = 2
      PROVE  \E c \in g.open : c # x /\ g.number[c] = g.number[x]
  <2>1. CASE x = b
    <3>1. PICK c \in g.open : g.number[c] = g.number[b] /\ g.active[c] = 2
      BY <2>1, <1>1, <1>4
    <3>2. PICK d \in g.open : d # c /\ g.number[d] = g.number[c]
      BY <3>1 DEF One
    <3> QED BY <2>1, <3>1, <3>2
  <2>2. CASE x # b
    <3>1. g.active[x] = 2
      BY <2>2, <1>1, <1>4
    <3> QED BY <3>1 DEF One
  <2> QED BY <2>1, <2>2
<1>5. h.active[b] # 0
  BY <1>1
<1> QED BY <1>0, <1>2, <1>3, <1>4, <1>5 DEF One

LEMMA ActivatedClean ==
    ASSUME NEW g \in Interface, One(g), NEW b \in g.open, NEW h, SameList(g, h), Activated(g, h, b),
           h.zoomed = g.zoomed, h.mixed_lines = g.mixed_lines, Mixed(g), Marked(g)
    PROVE  Mixed(h) /\ Marked(h)
<1>0. g.open \in SUBSET Buffer /\ h.open = g.open /\ h.number = g.number
  BY TypeFacts DEF SameList
<1>1. PICK active \in {1, 2} :
        /\ IF \A c \in Mates(g, b) : g.active[c] = 0 THEN active = 1
           ELSE \E c \in Mates(g, b) : active = g.active[c]
        /\ \A c \in Buffer :
              /\ h.active[c] = IF c = b THEN active ELSE IF c \in Mates(g, b) THEN 0 ELSE g.active[c]
              /\ h.lines[c] = IF c = b /\ active = 2 THEN "own"
                              ELSE IF c \in Others(g, b) /\ g.active[c] = 2 THEN "mixed" ELSE g.lines[c]
  BY DEF Activated
<1>2. PICK on \in g.open : g.number[on] = g.number[b] /\ g.active[on] # 0
  BY DEF One
<1>3. \A c \in g.open : g.number[c] = g.number[b] /\ g.active[c] # 0 => c = on
  BY <1>2 DEF One
<1>4. active = g.active[on]
  BY <1>1, <1>2, <1>3, MatesAre
<1>5. \A c \in g.open : h.active[c] = IF c = b THEN active
                                      ELSE IF g.number[c] = g.number[b] THEN 0 ELSE g.active[c]
  BY <1>0, <1>1, MatesAre
<1>6. \A c \in g.open : h.lines[c] = IF c = b /\ active = 2 THEN "own"
                              ELSE IF c # b /\ g.number[c] = g.number[b] /\ g.active[c] = 2 THEN "mixed" ELSE g.lines[c]
  BY <1>0, <1>1, MatesAre
<1>7. \A c \in g.open : Merged(h, c) = Merged(g, c) /\ Mates(h, c) = Mates(g, c)
  BY <1>0 DEF Merged, Others, Mates, Group
<1>8. Marked(h)
  <2> SUFFICES ASSUME NEW x \in g.open
               PROVE  (\E c \in g.open : g.number[c] = g.number[x] /\ h.active[c] = 2)
                          <=> (\E c \in g.open : g.number[c] = g.number[x] /\ g.active[c] = 2)
    BY <1>0 DEF Marked
  <2>1. CASE g.number[x] = g.number[b]
    BY <2>1, <1>2, <1>3, <1>4, <1>5
  <2>2. CASE g.number[x] # g.number[b]
    BY <2>2, <1>5
  <2> QED BY <2>1, <2>2
<1>9. ASSUME NEW x \in g.open PROVE h.lines[x] = "mixed" <=> Merged(g, x) /\ h.active[x] # 2
  <2>0. g.lines[x] = "mixed" <=> Merged(g, x) /\ g.active[x] # 2
    BY DEF Mixed
  <2>1. CASE x = b
    <3>1. CASE active = 2
      BY <2>1, <3>1, <1>5, <1>6
    <3>2. CASE active # 2
      <4>1. g.active[x] # 2
        BY <2>1, <3>2, <1>3, <1>4
      <4> QED BY <4>1, <2>0, <2>1, <3>2, <1>5, <1>6
    <3> QED BY <3>1, <3>2
  <2>2. CASE x # b /\ g.number[x] = g.number[b]
    <3>1. Merged(g, x) /\ h.active[x] = 0
      BY <2>2, <1>5, MatesAre
    <3> QED BY <3>1, <2>0, <2>2, <1>6
  <2>3. CASE x # b /\ g.number[x] # g.number[b]
    BY <2>0, <2>3, <1>5, <1>6
  <2> QED BY <2>1, <2>2, <2>3
<1>10. Mixed(h)
  <2>1. \A x \in g.open : (Merged(g, x) => g.mixed_lines[x] = Mates(g, x)) /\ (~Merged(g, x) => g.mixed_lines[x] = {})
    BY DEF Mixed
  <2> QED BY <1>0, <1>7, <1>9, <2>1 DEF Mixed
<1> QED BY <1>8, <1>10

\* An operation that keeps the groups, and how they are displayed.
LEMMA RearrangedSound ==
    ASSUME NEW g \in Interface, NEW h \in Interface, h.open = g.open, SameGroups(g, h, g.open),
           SameLook(g, h)
    PROVE  /\ One(g) => One(h)
           /\ Mixed(g) => Mixed(h)
           /\ Marked(g) => Marked(h)
           /\ \A b \in g.open : Mates(h, b) = Mates(g, b)
<1>1. \A b, c \in g.open : h.number[c] = h.number[b] <=> g.number[c] = g.number[b]
  BY DEF SameGroups
<1>2. \A b \in g.open : Mates(h, b) = Mates(g, b)
  BY <1>1 DEF Mates, Group
<1>3. \A b \in g.open : Merged(h, b) = Merged(g, b)
  BY <1>2 DEF Merged, Others
<1>4. One(g) => One(h)
  BY <1>1 DEF One, SameLook
<1>5. Mixed(g) => Mixed(h)
  BY <1>2, <1>3 DEF Mixed, SameLook
<1>6. Marked(g) => Marked(h)
  BY <1>1 DEF Marked, SameLook
<1> QED BY <1>2, <1>4, <1>5, <1>6

LEMMA RearrangedCount ==
    ASSUME NEW g \in Interface, NEW h \in Interface, h.open = g.open, SameGroups(g, h, g.open),
           SameLook(g, h), SameView(g, h), SameCount(g, h), CountsTrue(g)
    PROVE  CountsTrue(h)
<1>1. \A b, c \in g.open : h.number[c] = h.number[b] <=> g.number[c] = g.number[b]
  BY DEF SameGroups
<1>2. \A b \in g.open : Mates(h, b) = Mates(g, b)
  BY <1>1 DEF Mates, Group
<1>3. \A b \in g.open : Displays(h, b) = Displays(g, b)
  BY <1>2 DEF Displays, SameView
<1>4. h.zoomed = g.zoomed /\ h.active = g.active /\ h.num_displayed = g.num_displayed
  BY DEF SameLook, SameCount
<1> QED BY <1>3, <1>4 DEF CountsTrue

-----------------------------------------------------------------------------
(* Buffers merged.                                                         *)
Outside(g) == \A b \in Buffer \ g.open : g.before[b] = {}

LEMMA TakenIs ==
    ASSUME NEW g \in Interface, Listed(g), Outside(g), NEW b \in g.open, NEW group, group = Mates(g, b),
           NEW h, h = TakenOut(g, group)
    PROVE  /\ h \in Interface /\ h.open = g.open \ group /\ Listed(h) /\ LinkedOn(h, group)
           /\ SameGroups(g, h, h.open) /\ SameLook(g, h) /\ SameView(g, h) /\ SameCount(g, h)
           /\ \A c \in Buffer \ g.open : h.before[c] = {}
<1> DEFINE r == Removed(g, group)
           set == {c \in g.open \ group : g.before[c] \cap group # {}}
<1>0. g.open \in SUBSET Buffer /\ group \in SUBSET g.open /\ group \in SUBSET Buffer /\ -1 \in Int
      /\ \A c \in Buffer : g.number[c] \in Int
  BY TypeFacts DEF Mates, Group
<1>1. /\ r \in Interface /\ RemovedFrom(g, r, group)
      /\ SameLook(g, r) /\ SameView(g, r) /\ SameCount(g, r)
  BY <1>0, RemovedIs
<1>2. h = IF auto_renumber THEN Shifted(r, set, -1) ELSE r
  BY DEF TakenOut, ShiftBack
<1> HIDE DEF r
<1>10. /\ r.open = g.open \ group /\ r.number = g.number
       /\ \A c \in Buffer : r.before[c] = IF c \in group THEN g.before[c] \cap group ELSE g.before[c] \ group
  BY <1>1 DEF RemovedFrom
<1>3. /\ h \in Interface /\ h.open = r.open /\ h.before = r.before
      /\ SameLook(r, h) /\ SameView(r, h) /\ SameCount(r, h)
      /\ \A c \in Buffer : h.number[c] = IF auto_renumber /\ c \in set THEN r.number[c] - 1 ELSE r.number[c]
  <2> HIDE DEF set
  <2>1. CASE auto_renumber
    <3>1. /\ h \in Interface /\ h.open = r.open /\ h.before = r.before
          /\ SameLook(r, h) /\ SameView(r, h) /\ SameCount(r, h)
          /\ \A c \in Buffer : h.number[c] = IF c \in set THEN r.number[c] + -1 ELSE r.number[c]
      BY <2>1, <1>0, <1>1, <1>2, ShiftedIs
    <3>2. \A c \in Buffer : r.number[c] + -1 = r.number[c] - 1
      BY <1>0, <1>10
    <3> QED BY <2>1, <3>1, <3>2
  <2>2. CASE ~auto_renumber
    BY <2>2, <1>1, <1>2 DEF SameLook, SameView, SameCount
  <2> QED BY <2>1, <2>2
<1>4. \A c \in g.open : h.before[c] = IF c \in group THEN g.before[c] \cap group ELSE g.before[c] \ group
  BY <1>0, <1>10, <1>3
<1>5. \A c \in g.open \ group :
         h.number[c] = IF auto_renumber /\ g.before[c] \cap group # {} THEN g.number[c] - 1 ELSE g.number[c]
  BY <1>0, <1>10, <1>3
<1>6. h.open = g.open \ group
  BY <1>10, <1>3
<1>7. Listed(h) /\ LinkedOn(h, group) /\ SameGroups(g, h, h.open)
  <2>1. TakenFrom(g, h, group)
    BY <1>4, <1>5, <1>6 DEF TakenFrom
  <2> QED BY <1>3, <2>1, GroupTaken
<1>8. SameLook(g, h) /\ SameView(g, h) /\ SameCount(g, h)
  BY <1>1, <1>3 DEF SameLook, SameView, SameCount
<1>9. \A c \in Buffer \ g.open : h.before[c] = {}
  BY <1>0, <1>10, <1>3 DEF Outside
<1> QED BY <1>3, <1>6, <1>7, <1>8, <1>9

\* The list when a block of buffers joins the group of a buffer.
LEMMA JoinedIs ==
    ASSUME NEW g \in Interface, Listed(g), NEW block \in SUBSET (Buffer \ g.open), LinkedOn(g, block),
           NEW target \in g.open, NEW h,
           h = Placed(g, block, UpTo(g, Mates(g, target)), g.number[target])
    PROVE  /\ h \in Interface /\ h.open = g.open \cup block /\ Listed(h)
           /\ \A c \in g.open : h.number[c] = g.number[c]
           /\ \A c \in block : h.number[c] = g.number[target]
           /\ \A c \in block : \A d \in Mates(g, target) : d \in h.before[c]
           /\ SameLook(g, h) /\ SameView(g, h) /\ SameCount(g, h)
           /\ \A c \in Buffer \ h.open : h.before[c] = g.before[c]
<1> DEFINE group == Mates(g, target)
           front == UpTo(g, group)
           n == g.number[target]
<1>0. /\ g.open \in SUBSET Buffer /\ block \in SUBSET Buffer /\ n \in Int
      /\ \A c \in Buffer : g.number[c] \in Int
  BY TypeFacts
<1>1. group \in SUBSET g.open /\ target \in group /\ \A c \in g.open : c \in group <=> g.number[c] = n
  BY DEF Mates, Group
<1> HIDE DEF group
<1>2. \A c \in front : c \in group \/ \E d \in group : c \in g.before[d]
  BY DEF UpTo
<1>3. /\ \A c \in group : c \in front
      /\ \A d \in group : \A c \in g.before[d] : c \in front
  BY DEF UpTo
<1>4. Ordered(g.before, g.open)
  BY LinkedOrdered DEF Listed
<1>5. \A c \in front : c \in g.open
  BY <1>1, <1>2, <1>4 DEF Ordered
<1>6. \A c \in front : \A d \in g.before[c] : d \in front
  <2> TAKE c \in front
  <2> TAKE d \in g.before[c]
  <2>1. CASE c \in group
    BY <2>1, <1>3
  <2>2. CASE c \notin group
    <3>1. PICK e \in group : c \in g.before[e]
      BY <2>2, <1>2
    <3>2. d \in g.before[e]
      BY <3>1, <1>1, <1>4 DEF Ordered
    <3> QED BY <3>2, <1>3
  <2> QED BY <2>1, <2>2
<1>7. \A c \in front : g.number[c] <= n
  <2> TAKE c \in front
  <2>1. CASE c \in group
    BY <2>1, <1>0, <1>1
  <2>2. CASE c \notin group
    <3>1. PICK e \in group : c \in g.before[e]
      BY <2>2, <1>2
    <3>2. g.number[c] <= g.number[e]
      BY <3>1, <1>1 DEF Listed, Sorted
    <3> QED BY <3>1, <3>2, <1>1
  <2> QED BY <2>1, <2>2
<1>8. \A c \in g.open \ front : g.number[c] >= n
  <2> TAKE c \in g.open \ front
  <2>1. target \in g.before[c]
    BY <1>1, <1>3, <1>4 DEF Ordered
  <2>2. g.number[target] <= g.number[c]
    BY <2>1 DEF Listed, Sorted
  <2> QED BY <2>2, <1>0
<1>9. h = Placed(g, block, front, n)
  BY DEF group
<1> HIDE DEF front, n
<1>10. /\ h \in Interface /\ PlacedIn(g, h, block, front, n)
       /\ SameLook(g, h) /\ SameView(g, h) /\ SameCount(g, h)
  <2>1. front \in SUBSET Buffer
    BY <1>0, <1>5
  <2> QED BY <2>1, <1>0, <1>9, PlacedIs
<1>11. /\ h.open = g.open \cup block
       /\ \A b \in Buffer : h.before[b] =
             IF b \in block THEN g.before[b] \cup front
             ELSE IF b \in g.open \ front THEN g.before[b] \cup block ELSE g.before[b]
       /\ \A b \in Buffer : h.number[b] = IF b \in block THEN n ELSE g.number[b]
  BY <1>10 DEF PlacedIn
<1>12. LinkedOn(h, h.open)
  <2>1. LinkedOn(g, g.open)
    BY DEF Listed
  <2>2. front \in SUBSET g.open /\ \A c \in front : g.before[c] \subseteq front
    BY <1>5, <1>6
  <2> QED BY <1>10, <2>1, <2>2, PlacedLinked
<1>13. \A c \in g.open : c \in Buffer /\ c \notin block /\ h.number[c] = g.number[c]
  BY <1>0, <1>11
<1>14. \A c \in block : c \in Buffer /\ h.number[c] = n
  BY <1>0, <1>11
<1>15. \A b \in block : g.before[b] \subseteq block
  BY DEF LinkedOn
<1>16. Sorted(h)
  <2> SUFFICES ASSUME NEW b \in h.open, NEW c \in h.before[b] PROVE h.number[c] <= h.number[b]
    BY DEF Sorted
  <2>1. CASE b \in block
    <3>0. c \in g.before[b] \cup front
      BY <2>1, <1>11, <1>14
    <3>1. c \in block \/ c \in front
      BY <2>1, <3>0, <1>15
    <3> QED BY <2>1, <3>1, <1>0, <1>5, <1>7, <1>13, <1>14
  <2>2. CASE b \in g.open /\ c \in block
    <3>1. b \notin front
      <4>1. \A d \in g.before[b] : d \in g.open
        BY <2>2, <1>4 DEF Ordered
      <4> QED BY <4>1, <2>2, <1>11, <1>13
    <3> QED BY <2>2, <3>1, <1>8, <1>13, <1>14
  <2>3. CASE b \in g.open /\ c \notin block
    <3>1. c \in g.before[b]
      BY <2>3, <1>11, <1>13
    <3>2. c \in g.open
      BY <2>3, <3>1, <1>4 DEF Ordered
    <3>3. g.number[c] <= g.number[b]
      BY <2>3, <3>1 DEF Listed, Sorted
    <3> QED BY <2>3, <3>2, <3>3, <1>13
  <2> QED BY <2>1, <2>2, <2>3, <1>11
<1>17. Positive(h)
  <2>1. n >= 1 /\ \A c \in g.open : g.number[c] >= 1
    BY DEF Listed, Positive, n
  <2> QED BY <2>1, <1>11, <1>13, <1>14 DEF Positive
<1>18. auto_renumber => Dense(h)
  <2> SUFFICES ASSUME auto_renumber, NEW b \in h.open, ~(h.number[b] <= 1)
               PROVE  \E c \in h.open : h.number[c] = h.number[b] - 1
    BY DEF Dense
  <2>1. PICK d \in g.open : g.number[d] = h.number[b]
    BY <1>1, <1>11, <1>13, <1>14 DEF n
  <2>2. PICK c \in g.open : g.number[c] = g.number[d] - 1
    BY <2>1 DEF Listed, Dense
  <2> QED BY <2>1, <2>2, <1>11, <1>13
<1>19. \A c \in block : \A d \in group : d \in h.before[c]
  BY <1>3, <1>11, <1>14
<1>20. \A c \in Buffer \ h.open : h.before[c] = g.before[c]
  BY <1>11
<1> QED BY <1>10, <1>11, <1>12, <1>13, <1>14, <1>16, <1>17, <1>18, <1>19, <1>20 DEF Listed, group, n

\* h is g once the group of a buffer has joined the group of another one.
MergedInto(g, h, b, target) ==
    /\ h.open = g.open
    /\ \A c \in Mates(g, b) \cup Mates(g, target) : Mates(h, c) = Mates(g, b) \cup Mates(g, target)
    /\ \A c \in g.open \ (Mates(g, b) \cup Mates(g, target)) : Mates(h, c) = Mates(g, c)

LEMMA MergeIs ==
    ASSUME NEW g \in Interface, Listed(g), Outside(g), One(g), NEW b \in g.open, NEW target \in g.open,
           g.number[b] # g.number[target], NEW h, h = Merge(g, b, target)
    PROVE  /\ h \in Interface /\ Listed(h) /\ Outside(h) /\ MergedInto(g, h, b, target)
           /\ One(h) /\ CountsTrue(h) /\ SameView(g, h)
           /\ (Mixed(g) /\ Marked(g) /\ \A c \in Mates(g, b) \cup Mates(g, target) : g.active[c] # 2)
                 => Mixed(h) /\ Marked(h)
<1> DEFINE moved == Mates(g, b)
           group == Mates(g, target)
           all == moved \cup group
           g2 == TakenOut(g, moved)
           g3 == Placed(g2, moved, UpTo(g2, Mates(g2, target)), g2.number[target])
           g4 == MixBuffers(g3, b)
           g5 == SetActive(g4, b)
<1>0. /\ g.open \in SUBSET Buffer
      /\ \A c : c \in moved <=> c \in g.open /\ g.number[c] = g.number[b]
      /\ \A c : c \in group <=> c \in g.open /\ g.number[c] = g.number[target]
      /\ \A c : c \in all <=> c \in moved \/ c \in group
  BY TypeFacts, MatesAre
<1>1. h = ComputeNumDisplayed(g5)
  BY DEF Merge
<1>2. /\ g2 \in Interface /\ g2.open = g.open \ moved /\ Listed(g2) /\ LinkedOn(g2, moved)
      /\ SameGroups(g, g2, g2.open) /\ SameLook(g, g2) /\ SameView(g, g2)
      /\ \A c \in Buffer \ g.open : g2.before[c] = {}
  BY TakenIs
<1> HIDE DEF moved, group, all, g2
<1>3. target \in g2.open /\ moved \in SUBSET (Buffer \ g2.open)
  BY <1>0, <1>2
<1>4. /\ g3 \in Interface /\ g3.open = g2.open \cup moved /\ Listed(g3)
      /\ \A c \in g2.open : g3.number[c] = g2.number[c]
      /\ \A c \in moved : g3.number[c] = g2.number[target]
      /\ \A c \in moved : \A d \in Mates(g2, target) : d \in g3.before[c]
      /\ SameLook(g2, g3) /\ SameView(g2, g3)
      /\ \A c \in Buffer \ g3.open : g3.before[c] = g2.before[c]
  <2>1. g3 = Placed(g2, moved, UpTo(g2, Mates(g2, target)), g2.number[target])
    OBVIOUS
  <2> HIDE DEF g3
  <2> QED BY <1>2, <1>3, <2>1, JoinedIs
<1> HIDE DEF g3
<1>5. g3.open = g.open /\ \A c \in g.open : c \in moved \/ c \in g2.open
  BY <1>0, <1>2, <1>4
<1>6. \A c, d \in g2.open : g2.number[c] = g2.number[d] <=> g.number[c] = g.number[d]
  BY <1>2 DEF SameGroups
<1>7. \A c \in g.open : g3.number[c] = g3.number[b] <=> c \in all
  <2> TAKE c \in g.open
  <2>1. CASE c \in moved
    BY <2>1, <1>0, <1>4
  <2>2. CASE c \in g2.open
    <3>1. b \in moved /\ c \notin moved
      BY <2>2, <1>0, <1>2
    <3> QED BY <2>2, <3>1, <1>0, <1>3, <1>4, <1>6
  <2> QED BY <2>1, <2>2, <1>5
<1>8. \A c, d \in g.open : c \notin all /\ d \notin all => (g3.number[c] = g3.number[d] <=> g.number[c] = g.number[d])
  BY <1>0, <1>4, <1>5, <1>6
<1>9. /\ Mates(g3, b) = all /\ \A c \in all : Mates(g3, c) = all
      /\ \A c \in g.open \ all : Mates(g3, c) = Mates(g, c)
  <2>0. \A c \in all : c \in g.open
    BY <1>0
  <2>1. Mates(g3, b) = all
    BY <1>5, <1>7, <2>0 DEF Mates, Group
  <2>2. \A c \in all : Mates(g3, c) = all
    BY <1>5, <1>7, <2>0 DEF Mates, Group
  <2>3. ASSUME NEW c \in g.open \ all, NEW d \in g.open
        PROVE  g3.number[d] = g3.number[c] <=> g.number[d] = g.number[c]
    <3>1. CASE d \in all
      BY <3>1, <1>0, <1>7
    <3>2. CASE d \notin all
      BY <3>2, <1>8
    <3> QED BY <3>1, <3>2
  <2>4. \A c \in g.open \ all : Mates(g3, c) = Mates(g, c)
    BY <1>5, <2>3 DEF Mates, Group
  <2> QED BY <2>1, <2>2, <2>4
<1> DEFINE f == FirstOf(g3, Others(g3, b))
           new_lines == LinesOf(g3, f) \cup LinesOf(g3, b)
<1>10. f \in group /\ f \in Buffer
  <2>1. Others(g3, b) \in SUBSET g3.open /\ target \in Others(g3, b) /\ \A c \in Others(g3, b) : c \in all
    BY <1>0, <1>5, <1>9 DEF Others
  <2>2. f \in Others(g3, b) /\ target \notin g3.before[f]
    <3>1. LinkedOn(g3, g3.open)
      BY <1>4 DEF Listed
    <3>2. g3.open \in SUBSET Buffer /\ Others(g3, b) # {}
      BY <1>0, <1>5, <2>1
    <3> QED BY <1>4, <2>1, <3>1, <3>2, FirstOfIs
  <2>3. target \in Mates(g2, target)
    BY <1>3, MatesAre
  <2>4. f \notin moved
    BY <1>4, <2>2, <2>3
  <2> QED BY <1>0, <2>1, <2>2, <2>4
<1> HIDE DEF f
<1>11. new_lines \in SUBSET Buffer /\ b \in g3.open
  BY <1>0, <1>4, <1>5, <1>10, TypeFacts DEF LinesOf
<1>12. /\ g4 \in Interface /\ SameList(g3, g4) /\ SameView(g3, g4)
       /\ g4.active = g3.active /\ g4.zoomed = g3.zoomed
       /\ \A c \in Buffer :
             /\ g4.mixed_lines[c] = IF c \in Mates(g3, b) THEN new_lines ELSE g3.mixed_lines[c]
             /\ g4.lines[c] = IF c \in Mates(g3, b) THEN "mixed" ELSE g3.lines[c]
  <2>1. g4 = MixedTogether(g3, b, new_lines)
    BY DEF MixBuffers, f
  <2> HIDE DEF g4, new_lines
  <2> QED BY <1>4, <1>11, <2>1, MixedIs
<1> HIDE DEF g4
<1>13. b \in g4.open /\ LinkedOn(g4, g4.open)
  BY <1>4, <1>11, <1>12 DEF SameList, Listed, LinkedOn
<1>14. /\ g5 \in Interface /\ SameList(g4, g5) /\ SameView(g4, g5)
       /\ g5.zoomed = g4.zoomed /\ g5.mixed_lines = g4.mixed_lines /\ Activated(g4, g5, b)
  BY <1>12, <1>13, SetActiveIs
<1> HIDE DEF g5, new_lines
<1>15. h \in Interface /\ SameList(g5, h) /\ SameView(g5, h) /\ SameLook(g5, h) /\ CountsTrue(h)
  <2>1. IsFiniteSet(DOMAIN g5.window)
    BY <1>14, WindowsFinite
  <2> QED BY <1>1, <1>14, <2>1, CountIs, CountsAre
<1>16. h.open = g.open /\ h.before = g3.before /\ h.number = g3.number
  BY <1>5, <1>12, <1>14, <1>15 DEF SameList
<1>17. Listed(h)
  BY <1>4, <1>5, <1>16 DEF Listed, LinkedOn, Sorted, Positive, Dense
<1>18. Outside(h)
  BY <1>2, <1>4, <1>5, <1>16 DEF Outside
<1>19. \A c \in g.open : Mates(h, c) = Mates(g3, c)
  BY <1>5, <1>16 DEF Mates, Group
<1>20. MergedInto(g, h, b, target)
  BY <1>0, <1>9, <1>16, <1>19 DEF MergedInto, all, moved, group
<1>21. SameView(g, h)
  BY <1>2, <1>4, <1>12, <1>14, <1>15 DEF SameView
<1>22. Mates(g4, b) = all /\ Others(g4, b) = all \ {b}
  BY <1>9, <1>12 DEF Mates, Group, SameList, Others
<1>23. PICK active \in {1, 2} :
        /\ IF \A c \in all : g.active[c] = 0 THEN active = 1 ELSE \E c \in all : active = g.active[c]
        /\ \A c \in g.open : h.active[c] = IF c = b THEN active ELSE IF c \in all THEN 0 ELSE g.active[c]
        /\ \A c \in g.open : h.lines[c] = IF c = b /\ active = 2 THEN "own"
                                          ELSE IF c # b /\ c \in all /\ g.active[c] = 2 THEN "mixed"
                                          ELSE IF c \in all THEN "mixed" ELSE g.lines[c]
  <2>1. g4.active = g.active /\ h.active = g5.active /\ h.lines = g5.lines /\ g3.lines = g.lines
    BY <1>2, <1>4, <1>12, <1>15 DEF SameLook
  <2>2. \A c \in g.open : c \in Buffer /\ g4.lines[c] = IF c \in all THEN "mixed" ELSE g.lines[c]
    BY <1>0, <1>9, <1>12, <2>1
  <2>3. PICK active \in {1, 2} :
        /\ IF \A c \in all : g.active[c] = 0 THEN active = 1 ELSE \E c \in all : active = g.active[c]
        /\ \A c \in Buffer :
              /\ h.active[c] = IF c = b THEN active ELSE IF c \in all THEN 0 ELSE g.active[c]
              /\ h.lines[c] = IF c = b /\ active = 2 THEN "own"
                               ELSE IF c \in all \ {b} /\ g.active[c] = 2 THEN "mixed" ELSE g4.lines[c]
    BY <1>14, <1>22, <2>1 DEF Activated
  <2> QED BY <2>2, <2>3
<1>24. b \in all /\ target \in all /\ target # b
  BY <1>0
<1>25. \A c, d \in g.open : c \in all => (h.number[d] = h.number[c] <=> d \in all)
  BY <1>0, <1>7, <1>16
<1>26. \A c, d \in g.open : c \notin all => (h.number[d] = h.number[c] <=> g.number[d] = g.number[c])
  <2> SUFFICES ASSUME NEW c \in g.open, NEW d \in g.open, c \notin all
               PROVE  h.number[d] = h.number[c] <=> g.number[d] = g.number[c]
    OBVIOUS
  <2>1. CASE d \in all
    BY <2>1, <1>0, <1>7, <1>16
  <2>2. CASE d \notin all
    BY <2>2, <1>8, <1>16
  <2> QED BY <2>1, <2>2
<1>260. \A c, d \in g.open : c \notin all /\ g.number[d] = g.number[c] => d \notin all
  BY <1>0
<1>27. One(h)
  <2>1. ASSUME NEW x \in g.open PROVE \E c \in g.open : h.number[c] = h.number[x] /\ h.active[c] # 0
    <3>1. CASE x \in all
      BY <3>1, <1>23, <1>24, <1>25
    <3>2. CASE x \notin all
      <4>1. PICK c \in g.open : g.number[c] = g.number[x] /\ g.active[c] # 0
        BY DEF One
      <4>2. c \notin all /\ c # b
        BY <3>2, <4>1, <1>24, <1>260
      <4> QED BY <3>2, <4>1, <4>2, <1>23, <1>26
    <3> QED BY <3>1, <3>2
  <2>2. ASSUME NEW x \in g.open, NEW c \in g.open, h.number[c] = h.number[x], h.active[x] # 0, h.active[c] # 0
        PROVE  x = c
    <3>1. CASE x \in all
      BY <3>1, <2>2, <1>23, <1>24, <1>25
    <3>2. CASE x \notin all
      <4>1. g.number[c] = g.number[x] /\ c \notin all
        BY <3>2, <2>2, <1>26, <1>260
      <4>2. g.active[x] # 0 /\ g.active[c] # 0
        BY <3>2, <4>1, <2>2, <1>23, <1>24
      <4> QED BY <4>1, <4>2 DEF One
    <3> QED BY <3>1, <3>2
  <2>3. ASSUME NEW x \in g.open, h.active[x] = 2
        PROVE  \E c \in g.open : c # x /\ h.number[c] = h.number[x]
    <3>1. CASE x \in all
      <4>1. b \in g.open /\ target \in g.open
        OBVIOUS
      <4> QED BY <3>1, <4>1, <1>24, <1>25
    <3>2. CASE x \notin all
      <4>1. g.active[x] = 2
        BY <3>2, <2>3, <1>23, <1>24
      <4>2. PICK c \in g.open : c # x /\ g.number[c] = g.number[x]
        BY <4>1 DEF One
      <4> QED BY <3>2, <4>2, <1>26
    <3> QED BY <3>1, <3>2
  <2> QED BY <1>16, <2>1, <2>2, <2>3 DEF One
<1>28. ASSUME Mixed(g), Marked(g), \A c \in all : g.active[c] # 2
       PROVE  Mixed(h) /\ Marked(h)
  <2>1. active = 1
    BY <1>23, <1>28
  <2>2. h.zoomed = g.zoomed
    BY <1>2, <1>4, <1>12, <1>14, <1>15 DEF SameLook
  <2>3. \A x \in g.open : (\E c \in g.open : h.number[c] = h.number[x] /\ h.active[c] = 2)
                            <=> (\E c \in g.open : g.number[c] = g.number[x] /\ g.active[c] = 2)
    <3> TAKE x \in g.open
    <3>1. CASE x \in all
      <4>1. \A c \in g.open : g.number[c] = g.number[x] => c \in all
        BY <3>1, <1>0
      <4> QED BY <3>1, <4>1, <1>23, <1>25, <1>28, <2>1
    <3>2. CASE x \notin all
      BY <3>2, <1>23, <1>24, <1>26, <1>260
    <3> QED BY <3>1, <3>2
  <2>4. Marked(h)
    BY <1>16, <1>28, <2>2, <2>3 DEF Marked
  <2>5. \A c \in g.open : h.mixed_lines[c] = IF c \in all THEN new_lines ELSE g.mixed_lines[c]
    <3>1. h.mixed_lines = g4.mixed_lines /\ g3.mixed_lines = g.mixed_lines
      BY <1>2, <1>4, <1>14, <1>15 DEF SameLook
    <3>2. \A c \in g.open : c \in Buffer
      BY <1>0
    <3> QED BY <1>9, <1>12, <3>1, <3>2
  <2>6. g3.lines = g.lines /\ g3.mixed_lines = g.mixed_lines
    BY <1>2, <1>4 DEF SameLook
  <2>7. ASSUME NEW x \in g.open, g.active[x] # 2 PROVE LinesOf(g3, x) = Mates(g, x)
    <3>1. CASE Merged(g, x)
      <4>1. g.lines[x] = "mixed" /\ g.mixed_lines[x] = Mates(g, x)
        BY <1>28, <2>7, <3>1 DEF Mixed
      <4> QED BY <4>1, <2>6 DEF LinesOf
    <3>2. CASE ~Merged(g, x)
      <4>1. g.lines[x] = "own"
        <5>1. g.lines[x] \in {"own", "mixed"}
          BY <1>0, TypeFacts
        <5> QED BY <5>1, <1>28, <3>2 DEF Mixed
      <4>2. Mates(g, x) = {x}
        BY <3>2, MatesAre
      <4> QED BY <4>1, <4>2, <2>6 DEF LinesOf
    <3> QED BY <3>1, <3>2
  <2>8. new_lines = all
    <3>1. f \in g.open /\ f \in all /\ b \in all /\ Mates(g, f) = group /\ Mates(g, b) = moved
      BY <1>0, <1>10, <1>24, MatesAre DEF moved
    <3>2. LinesOf(g3, f) = group /\ LinesOf(g3, b) = moved
      BY <1>28, <2>7, <3>1
    <3> QED BY <3>2 DEF new_lines, all
  <2>9. \A x \in g.open : Merged(h, x) <=> x \in all \/ Merged(g, x)
    <3> TAKE x \in g.open
    <3>1. CASE x \in all
      <4>1. \E c \in g.open : c # x /\ h.number[c] = h.number[x]
        BY <3>1, <1>24, <1>25
      <4> QED BY <3>1, <4>1, <1>16, MatesAre
    <3>2. CASE x \notin all
      BY <3>2, <1>16, <1>26, MatesAre
    <3> QED BY <3>1, <3>2
  <2>10. ASSUME NEW x \in g.open
         PROVE  /\ Merged(h, x) => h.mixed_lines[x] = Mates(h, x)
                /\ ~Merged(h, x) => h.mixed_lines[x] = {}
                /\ h.lines[x] = "mixed" <=> Merged(h, x) /\ h.active[x] # 2
    <3>1. CASE x \in all
      <4>1. h.active[x] # 2
        BY <3>1, <1>23, <2>1
      <4>2. h.lines[x] = "mixed"
        BY <3>1, <1>23, <2>1
      <4>3. h.mixed_lines[x] = Mates(h, x)
        BY <3>1, <1>9, <1>19, <2>5, <2>8
      <4> QED BY <3>1, <4>1, <4>2, <4>3, <2>9
    <3>2. CASE x \notin all
      <4>1. h.lines[x] = g.lines[x] /\ h.active[x] = g.active[x] /\ h.mixed_lines[x] = g.mixed_lines[x]
        BY <3>2, <1>23, <1>24, <2>1, <2>5
      <4>2. Merged(h, x) = Merged(g, x) /\ Mates(h, x) = Mates(g, x)
        BY <3>2, <1>9, <1>16, <1>19, <1>26 DEF Merged, Others, Mates, Group
      <4> QED BY <4>1, <4>2, <1>28 DEF Mixed
    <3> QED BY <3>1, <3>2
  <2>11. Mixed(h)
    BY <1>16, <2>10 DEF Mixed
  <2> QED BY <2>4, <2>11
<1> QED BY <1>15, <1>17, <1>18, <1>20, <1>21, <1>27, <1>28 DEF all, moved, group

-----------------------------------------------------------------------------
(* Groups moved, swapped and renumbered.                                   *)

\* h is g with the same groups in another order, or with other numbers.
Rearranged(g, h) ==
    /\ h \in Interface /\ h.open = g.open /\ SameGroups(g, h, g.open)
    /\ SameLook(g, h) /\ SameView(g, h) /\ SameCount(g, h) /\ Outside(h)

LEMMA LastNumberIs ==
    ASSUME NEW g \in Interface, Listed(g), g.open # {}
    PROVE  /\ LastNumber(g) \in Int /\ LastNumber(g) >= 1
           /\ \A b \in g.open : g.number[b] <= LastNumber(g)
           /\ \E b \in g.open : g.number[b] = LastNumber(g)
<1> DEFINE last == LastOf(g, g.open)
<1>0. g.open \in SUBSET Buffer /\ \A c \in Buffer : g.number[c] \in Int
  BY TypeFacts
<1>1. last \in g.open /\ \A c \in g.open : c = last \/ c \in g.before[last]
  <2>1. LinkedOn(g, g.open)
    BY DEF Listed
  <2> QED BY <1>0, <2>1, LastOfIs
<1> HIDE DEF last
<1>2. LastNumber(g) = g.number[last]
  BY DEF LastNumber, last
<1>3. \A b \in g.open : g.number[b] <= g.number[last]
  BY <1>0, <1>1 DEF Listed, Sorted
<1>4. g.number[last] >= 1 /\ g.number[last] \in Int
  BY <1>0, <1>1 DEF Listed, Positive
<1> QED BY <1>1, <1>2, <1>3, <1>4

LEMMA MoveToNumberIs ==
    ASSUME NEW g \in Interface, Listed(g), Outside(g), NEW b \in g.open, NEW number \in Int, number >= 1,
           NEW h, h = MoveToNumber(g, b, number)
    PROVE  Rearranged(g, h) /\ Listed(h)
<1> DEFINE moved == Mates(g, b)
           g2 == TakenOut(g, moved)
           too_big == \A c \in g2.open : g2.number[c] < number
           m == IF too_big /\ auto_renumber THEN LastNumber(g2) + 1 ELSE number
<1>0. /\ g.open \in SUBSET Buffer
      /\ \A c : c \in moved <=> c \in g.open /\ g.number[c] = g.number[b]
  BY TypeFacts, MatesAre
<1>1. CASE h = g
  BY <1>1 DEF Rearranged, SameGroups, SameLook, SameView, SameCount
<1>2. CASE ~(number = g.number[b] \/ (auto_renumber /\ g2.open = {}))
  <2>1. h = Insert(g2, moved, number, m)
    BY <1>2 DEF MoveToNumber
  <2>2. /\ g2 \in Interface /\ g2.open = g.open \ moved /\ Listed(g2) /\ LinkedOn(g2, moved)
        /\ SameGroups(g, g2, g2.open) /\ SameLook(g, g2) /\ SameView(g, g2) /\ SameCount(g, g2)
        /\ \A c \in Buffer \ g.open : g2.before[c] = {}
    BY TakenIs
  <2> HIDE DEF g2, moved
  <2>3. InsertNumber(g2, number, m)
    <3>0. \A c \in g2.open : g2.number[c] \in Int
      BY <2>2, TypeFacts
    <3>1. CASE too_big /\ auto_renumber
      <4>1. /\ LastNumber(g2) \in Int /\ LastNumber(g2) >= 1
            /\ \A c \in g2.open : g2.number[c] <= LastNumber(g2)
            /\ \E c \in g2.open : g2.number[c] = LastNumber(g2)
        BY <1>2, <2>2, <3>1, LastNumberIs
      <4>2. m = LastNumber(g2) + 1
        BY <3>1
      <4> HIDE DEF m
      <4>3. \A c \in g2.open : g2.number[c] < m
        BY <3>0, <4>1, <4>2
      <4>4. \E c \in g2.open : g2.number[c] = m - 1
        BY <3>0, <4>1, <4>2
      <4>5. ~ \E c \in g2.open : g2.number[c] >= number
        BY <3>0, <3>1
      <4> QED BY <4>1, <4>2, <4>3, <4>4, <4>5 DEF InsertNumber
    <3>2. CASE too_big /\ ~auto_renumber
      BY <3>2 DEF InsertNumber
    <3>3. CASE ~too_big
      <4>1. m = number /\ ~ \A c \in g2.open : g2.number[c] < number
        BY <3>3
      <4> HIDE DEF m
      <4> QED BY <4>1 DEF InsertNumber
    <3> QED BY <3>1, <3>2, <3>3
  <2>4. moved \in SUBSET (Buffer \ g2.open) /\ moved # {}
    BY <1>0, <2>2
  <2>5. /\ h \in Interface /\ h.open = g2.open \cup moved /\ Listed(h)
        /\ SameLook(g2, h) /\ SameView(g2, h) /\ SameCount(g2, h)
        /\ SameGroups(g2, h, g2.open)
        /\ \A x \in moved : \A c \in h.open : h.number[c] = h.number[x] <=> c \in moved
        /\ \A x \in Buffer \ h.open : h.before[x] = g2.before[x]
    <3> HIDE DEF m
    <3>1. /\ h \in Interface /\ Listed(h) /\ InsertedIn(g2, h, moved)
          /\ SameLook(g2, h) /\ SameView(g2, h) /\ SameCount(g2, h)
      BY <2>1, <2>2, <2>3, <2>4, InsertIs
    <3> QED BY <3>1 DEF InsertedIn
  <2>6. h.open = g.open
    BY <1>0, <2>2, <2>5
  <2>7. SameGroups(g, h, g.open)
    <3> SUFFICES ASSUME NEW c \in g.open, NEW d \in g.open
                 PROVE  h.number[c] = h.number[d] <=> g.number[c] = g.number[d]
      BY DEF SameGroups
    <3>1. CASE c \in moved
      BY <3>1, <1>0, <2>5, <2>6
    <3>2. CASE d \in moved
      BY <3>2, <1>0, <2>5, <2>6
    <3>3. CASE c \notin moved /\ d \notin moved
      <4>1. c \in g2.open /\ d \in g2.open
        BY <3>3, <2>2
      <4> QED BY <4>1, <2>2, <2>5 DEF SameGroups
    <3> QED BY <3>1, <3>2, <3>3
  <2>8. SameLook(g, h) /\ SameView(g, h) /\ SameCount(g, h)
    BY <2>2, <2>5 DEF SameLook, SameView, SameCount
  <2>9. Outside(h)
    BY <2>2, <2>5, <2>6 DEF Outside
  <2> QED BY <2>5, <2>6, <2>7, <2>8, <2>9 DEF Rearranged
<1> QED BY <1>1, <1>2 DEF MoveToNumber

\* A list is sorted by number, and in a group as it was.
LEMMA ByNumber ==
    ASSUME NEW g \in Interface, Listed(g), NEW h \in Interface, h.open = g.open, SameGroups(g, h, g.open),
           \A b \in g.open : \A c : c \in h.before[b] <=>
              c \in g.open /\ (h.number[c] < h.number[b] \/ (h.number[c] = h.number[b] /\ c \in g.before[b]))
    PROVE  LinkedOn(h, h.open) /\ Sorted(h)
<1>0. /\ g.open \in SUBSET Buffer /\ \A c \in g.open : h.number[c] \in Int
      /\ \A b, c \in g.open : h.number[b] = h.number[c] <=> g.number[b] = g.number[c]
  BY TypeFacts DEF SameGroups
<1>1. Ordered(g.before, g.open)
  BY LinkedOrdered DEF Listed
<1>2. \A b \in g.open : \A c \in h.before[b] : c \in g.open /\ c # b /\ b \notin h.before[c]
  <2> TAKE b \in g.open
  <2> TAKE c \in h.before[b]
  <2>1. c \in g.open /\ (h.number[c] < h.number[b] \/ (h.number[c] = h.number[b] /\ c \in g.before[b]))
    OBVIOUS
  <2>2. c \in g.before[b] => c # b /\ b \notin g.before[c]
    BY <1>1 DEF Ordered
  <2>3. b \in h.before[c] =>
           h.number[b] < h.number[c] \/ (h.number[b] = h.number[c] /\ b \in g.before[c])
    BY <2>1
  <2> QED BY <1>0, <2>1, <2>2, <2>3
<1>3. \A b \in g.open : \A c \in h.before[b] : \A d \in h.before[c] : d \in h.before[b]
  <2> TAKE b \in g.open
  <2> TAKE c \in h.before[b]
  <2> TAKE d \in h.before[c]
  <2>1. c \in g.open /\ (h.number[c] < h.number[b] \/ (h.number[c] = h.number[b] /\ c \in g.before[b]))
    OBVIOUS
  <2>2. d \in g.open /\ (h.number[d] < h.number[c] \/ (h.number[d] = h.number[c] /\ d \in g.before[c]))
    BY <2>1
  <2>3. c \in g.before[b] /\ d \in g.before[c] => d \in g.before[b]
    BY <1>1 DEF Ordered
  <2>4. h.number[d] < h.number[b] \/ (h.number[d] = h.number[b] /\ d \in g.before[b])
    BY <1>0, <2>1, <2>2, <2>3
  <2> QED BY <2>2, <2>4
<1>4. \A b, c \in g.open : b = c \/ c \in h.before[b] \/ b \in h.before[c]
  <2> TAKE b, c \in g.open
  <2>1. b = c \/ c \in g.before[b] \/ b \in g.before[c]
    BY <1>1 DEF Ordered
  <2> QED BY <1>0, <2>1
<1>5. LinkedOn(h, h.open)
  BY <1>2, <1>3, <1>4, LinkedOrdered DEF Ordered
<1>6. Sorted(h)
  <2> SUFFICES ASSUME NEW b \in g.open, NEW c \in h.before[b] PROVE h.number[c] <= h.number[b]
    BY DEF Sorted
  <2> QED BY <1>0
<1> QED BY <1>5, <1>6

LEMMA InOrder ==
    ASSUME NEW g \in Interface, Listed(g), NEW b \in g.open, NEW c
    PROVE  c \in g.before[b] <=>
              c \in g.open /\ (g.number[c] < g.number[b] \/ (g.number[c] = g.number[b] /\ c \in g.before[b]))
<1>0. \A x \in g.open : g.number[x] \in Int
  BY TypeFacts
<1>1. Ordered(g.before, g.open)
  BY LinkedOrdered DEF Listed
<1>2. \A x \in g.open : \A y \in g.before[x] : g.number[y] <= g.number[x]
  BY DEF Listed, Sorted
<1>3. c \in g.before[b] => c \in g.open
  BY <1>1 DEF Ordered
<1>4. c \in g.open => b = c \/ c \in g.before[b] \/ b \in g.before[c]
  BY <1>1 DEF Ordered
<1>5. c \in g.open => g.number[c] \in Int /\ g.number[b] \in Int
  BY <1>0
<1>6. b \in g.before[c] /\ c \in g.open => g.number[b] <= g.number[c]
  BY <1>2
<1>7. c \in g.before[b] => g.number[c] <= g.number[b]
  BY <1>2
<1> QED BY <1>3, <1>4, <1>5, <1>6, <1>7

LEMMA SwappedIs ==
    ASSUME NEW g \in Interface, Listed(g), Outside(g), NEW n1 \in Int, NEW n2 \in Int, n1 < n2,
           Group(g, n1) # {}, Group(g, n2) # {}, NEW h, h = Swapped(g, n1, n2)
    PROVE  Rearranged(g, h) /\ Listed(h)
<1> DEFINE group1 == Group(g, n1)
           group2 == Group(g, n2)
           between == {b \in g.open \ (group1 \cup group2) :
                          g.before[b] \cap group1 # {} /\ g.before[b] \cap group2 = {}}
<1>0. /\ g.open \in SUBSET Buffer /\ \A c \in Buffer : g.number[c] \in Int
      /\ \A c : c \in group1 <=> c \in g.open /\ g.number[c] = n1
      /\ \A c : c \in group2 <=> c \in g.open /\ g.number[c] = n2
  BY TypeFacts DEF Group
<1>1. /\ h \in Interface /\ h.open = g.open
      /\ \A b \in Buffer : h.number[b] = IF b \in group1 THEN n2 ELSE IF b \in group2 THEN n1 ELSE g.number[b]
      /\ \A b \in Buffer : h.before[b] = IF b \in group2 THEN g.before[b] \ (group1 \cup between)
                                         ELSE IF b \in between THEN (g.before[b] \ group1) \cup group2
                                         ELSE IF b \in group1 THEN g.before[b] \cup between \cup group2
                                         ELSE g.before[b]
      /\ SameLook(g, h) /\ SameView(g, h) /\ SameCount(g, h)
  <2> DEFINE before == [b \in Buffer |-> IF b \in group2 THEN g.before[b] \ (group1 \cup between)
                                         ELSE IF b \in between THEN (g.before[b] \ group1) \cup group2
                                         ELSE IF b \in group1 THEN g.before[b] \cup between \cup group2
                                         ELSE g.before[b]]
             number == [b \in Buffer |-> IF b \in group1 THEN n2 ELSE IF b \in group2 THEN n1 ELSE g.number[b]]
  <2>1. /\ \A b \in Buffer : g.before[b] \in SUBSET Buffer
        /\ group1 \in SUBSET Buffer /\ group2 \in SUBSET Buffer /\ between \in SUBSET Buffer
    BY <1>0, TypeFacts
  <2>2. h = [g EXCEPT !.before = before, !.number = number]
    BY DEF Swapped
  <2> HIDE DEF group1, group2, between
  <2>3. before \in [Buffer -> SUBSET Buffer]
    BY <2>1
  <2>4. number \in [Buffer -> Int]
    BY <1>0
  <2>5. /\ h \in Interface /\ h.open = g.open /\ h.before = before /\ h.number = number
        /\ SameLook(g, h) /\ SameView(g, h) /\ SameCount(g, h)
    <3> HIDE DEF before, number
    <3> QED BY <2>2, <2>3, <2>4 DEF Interface, SameLook, SameView, SameCount
  <2> QED BY <2>5
<1>2. \A b \in g.open : b \in Buffer /\ g.number[b] \in Int
  BY <1>0
<1>3. \A b \in g.open : \A c : c \in g.before[b] <=>
         c \in g.open /\ (g.number[c] < g.number[b] \/ (g.number[c] = g.number[b] /\ c \in g.before[b]))
  BY InOrder
<1>4. PICK x1 \in g.open : g.number[x1] = n1
  BY <1>0
<1>5. PICK x2 \in g.open : g.number[x2] = n2
  BY <1>0
<1>6. \A b : b \in between <=> b \in g.open /\ n1 < g.number[b] /\ g.number[b] < n2
  <2> TAKE b
  <2>1. CASE b \in g.open /\ n1 < g.number[b] /\ g.number[b] < n2
    <3>1. b \notin group1 /\ b \notin group2 /\ x1 \in group1
      BY <2>1, <1>0, <1>4
    <3>2. x1 \in g.before[b]
      BY <2>1, <1>3, <1>4
    <3>3. \A c \in g.before[b] : c \notin group2
      BY <2>1, <1>0, <1>2, <1>3
    <3> QED BY <2>1, <3>1, <3>2, <3>3
  <2>2. CASE b \in between
    <3>1. b \in g.open /\ g.number[b] # n1 /\ g.number[b] # n2 /\ x2 \notin g.before[b]
      BY <2>2, <1>0, <1>5
    <3>2. PICK c \in g.before[b] : c \in group1
      BY <2>2
    <3>3. n1 < g.number[b]
      BY <3>1, <3>2, <1>0, <1>2, <1>3
    <3>4. ~(n2 < g.number[b])
      BY <3>1, <1>3, <1>5
    <3>5. g.number[b] \in Int
      BY <3>1, <1>2
    <3>6. g.number[b] < n2
      BY <3>1, <3>4, <3>5
    <3> HIDE DEF between
    <3> QED BY <2>2, <3>1, <3>3, <3>6
  <2> QED BY <2>1, <2>2
<1> HIDE DEF group1, group2, between
<1>7. \A b \in g.open : h.number[b] = IF g.number[b] = n1 THEN n2 ELSE IF g.number[b] = n2 THEN n1 ELSE g.number[b]
  BY <1>0, <1>1, <1>2
<1>8. SameGroups(g, h, g.open)
  BY <1>2, <1>7 DEF SameGroups
<1>9. ASSUME NEW b \in g.open, NEW c
      PROVE  c \in h.before[b] <=>
                c \in g.open /\ (h.number[c] < h.number[b] \/ (h.number[c] = h.number[b] /\ c \in g.before[b]))
  <2>0. c \in g.before[b] <=>
           c \in g.open /\ (g.number[c] < g.number[b] \/ (g.number[c] = g.number[b] /\ c \in g.before[b]))
    BY <1>3
  <2>1. c \in h.before[b] <=> IF b \in group2 THEN c \in g.before[b] /\ c \notin group1 /\ c \notin between
                              ELSE IF b \in between THEN (c \in g.before[b] /\ c \notin group1) \/ c \in group2
                              ELSE IF b \in group1 THEN c \in g.before[b] \/ c \in between \/ c \in group2
                              ELSE c \in g.before[b]
    BY <1>1, <1>2
  <2>2. CASE c \notin g.open
    <3>1. c \notin group1 /\ c \notin group2 /\ c \notin between /\ c \notin g.before[b]
      BY <2>0, <2>2, <1>0, <1>6
    <3> QED BY <2>1, <2>2, <3>1
  <2>3. CASE c \in g.open
    <3>1. g.number[b] \in Int /\ g.number[c] \in Int
      BY <2>3, <1>2
    <3>2. /\ c \in group1 <=> g.number[c] = n1
          /\ c \in group2 <=> g.number[c] = n2
          /\ c \in between <=> n1 < g.number[c] /\ g.number[c] < n2
          /\ b \in group1 <=> g.number[b] = n1
          /\ b \in group2 <=> g.number[b] = n2
          /\ b \in between <=> n1 < g.number[b] /\ g.number[b] < n2
      BY <2>3, <1>0, <1>6
    <3>3. /\ h.number[b] = IF g.number[b] = n1 THEN n2 ELSE IF g.number[b] = n2 THEN n1 ELSE g.number[b]
          /\ h.number[c] = IF g.number[c] = n1 THEN n2 ELSE IF g.number[c] = n2 THEN n1 ELSE g.number[c]
      BY <2>3, <1>7
    <3> QED BY <2>0, <2>1, <2>3, <3>1, <3>2, <3>3
  <2> QED BY <2>2, <2>3
<1>10. LinkedOn(h, h.open) /\ Sorted(h)
  BY <1>1, <1>8, <1>9, ByNumber
<1>11. \A b \in g.open : g.number[b] >= 1
  BY DEF Listed, Positive
<1>12. Positive(h)
  BY <1>1, <1>4, <1>5, <1>7, <1>11 DEF Positive
<1>13. ASSUME auto_renumber PROVE Dense(h)
  <2> SUFFICES ASSUME NEW b \in g.open, ~(h.number[b] <= 1)
               PROVE  \E c \in g.open : h.number[c] = h.number[b] - 1
    BY <1>1 DEF Dense
  <2>1. PICK d \in g.open : g.number[d] = h.number[b]
    BY <1>4, <1>5, <1>7
  <2>2. PICK e \in g.open : g.number[e] = g.number[d] - 1
    BY <2>1, <1>13 DEF Listed, Dense
  <2>3. \E c \in g.open : h.number[c] = g.number[e]
    <3>1. CASE g.number[e] = n1
      BY <3>1, <1>5, <1>7
    <3>2. CASE g.number[e] = n2
      BY <3>2, <1>4, <1>7
    <3>3. CASE g.number[e] # n1 /\ g.number[e] # n2
      BY <3>3, <1>7
    <3> QED BY <3>1, <3>2, <3>3
  <2> QED BY <2>1, <2>2, <2>3
<1>14. Outside(h)
  <2> SUFFICES ASSUME NEW b \in Buffer \ g.open PROVE h.before[b] = {}
    BY <1>1 DEF Outside
  <2>1. b \notin group1 /\ b \notin group2 /\ b \notin between
    BY <1>0, <1>6
  <2>2. h.before[b] = g.before[b]
    BY <2>1, <1>1
  <2> QED BY <2>2 DEF Outside
<1> QED BY <1>1, <1>8, <1>10, <1>12, <1>13, <1>14 DEF Rearranged, Listed

LEMMA SwapIs ==
    ASSUME NEW g \in Interface, Listed(g), Outside(g), NEW b \in g.open, NEW c \in g.open,
           NEW h, h = Swap(g, g.number[b], g.number[c])
    PROVE  Rearranged(g, h) /\ Listed(h)
<1>1. /\ g.number[b] \in Int /\ g.number[c] \in Int
      /\ Group(g, g.number[b]) # {} /\ Group(g, g.number[c]) # {}
  BY TypeFacts DEF Group
<1>2. CASE g.number[b] < g.number[c]
  BY <1>1, <1>2, SwappedIs DEF Swap
<1>3. CASE g.number[b] > g.number[c]
  BY <1>1, <1>3, SwappedIs DEF Swap
<1>4. CASE g.number[b] = g.number[c]
  <2>1. h = g
    BY <1>1, <1>4 DEF Swap
  <2> QED BY <2>1 DEF Rearranged, SameGroups, SameLook, SameView, SameCount
<1> QED BY <1>1, <1>2, <1>3, <1>4

-----------------------------------------------------------------------------
(* The rank of a number among others.                                      *)
RankIn(numbers, n) == Cardinality({m \in numbers : m < n})

Ranked(numbers) ==
    /\ IsFiniteSet(numbers) /\ Cardinality(numbers) \in Nat
    /\ \A n \in Int : RankIn(numbers, n) \in Nat /\ (n \in numbers => RankIn(numbers, n) < Cardinality(numbers))
    /\ \A n, p \in Int : n \in numbers /\ n < p => RankIn(numbers, n) < RankIn(numbers, p)
    /\ \A n, p \in Int : n \in numbers /\ n < p /\ (\A m \in numbers : m < p => m <= n) =>
          RankIn(numbers, p) = RankIn(numbers, n) + 1

LEMMA RankIs ==
    ASSUME NEW set \in SUBSET Buffer, NEW number \in [Buffer -> Int], NEW numbers,
           numbers = {number[b] : b \in set}
    PROVE  Ranked(numbers)
<1>1. IsFiniteSet(set)
  BY Subfinite
<1>2. IsFiniteSet(numbers)
  <2> DEFINE f == [b \in set |-> number[b]]
  <2>1. f \in Surjection(set, numbers)
    BY DEF Surjection
  <2> QED BY <1>1, <2>1, FS_Surjection
<1>3. \A n : IsFiniteSet({m \in numbers : m < n})
  <2> TAKE n
  <2>1. {m \in numbers : m < n} \in SUBSET numbers
    OBVIOUS
  <2> QED BY <1>2, <2>1, FS_Subset
<1>4. \A n : Cardinality({m \in numbers : m < n}) \in Nat
  BY <1>3, FS_CardinalityType
<1>5. \A n \in numbers : n \in Int
  OBVIOUS
<1>6. ASSUME NEW n \in Int, n \in numbers
      PROVE  Cardinality({m \in numbers : m < n}) < Cardinality(numbers)
  <2> DEFINE S == {m \in numbers : m < n}
  <2>1. S \in SUBSET numbers /\ n \notin S
    BY <1>5
  <2> HIDE DEF S
  <2>2. Cardinality(S) <= Cardinality(numbers) /\ (Cardinality(numbers) = Cardinality(S) => numbers = S)
    BY <1>2, <2>1, FS_Subset
  <2>3. Cardinality(S) \in Nat /\ Cardinality(numbers) \in Nat
    BY <1>2, <1>4, FS_CardinalityType DEF S
  <2>4. Cardinality(S) < Cardinality(numbers)
    BY <1>6, <2>1, <2>2, <2>3
  <2> QED BY <2>4 DEF S
<1>7. ASSUME NEW n \in Int, NEW p \in Int, n \in numbers, n < p
      PROVE  Cardinality({m \in numbers : m < n}) < Cardinality({m \in numbers : m < p})
  <2> DEFINE S == {m \in numbers : m < n}
             T == {m \in numbers : m < p}
  <2>1. S \in SUBSET T /\ n \in T /\ n \notin S
    BY <1>5, <1>7
  <2>2. IsFiniteSet(T)
    BY <1>3
  <2> HIDE DEF S, T
  <2>3. Cardinality(S) <= Cardinality(T) /\ (Cardinality(T) = Cardinality(S) => T = S)
    BY <2>1, <2>2, FS_Subset
  <2>4. Cardinality(S) \in Nat /\ Cardinality(T) \in Nat
    BY <1>4 DEF S, T
  <2>5. Cardinality(S) < Cardinality(T)
    BY <2>1, <2>3, <2>4
  <2> QED BY <2>5 DEF S, T
<1>8. ASSUME NEW n \in Int, NEW p \in Int, n \in numbers, n < p, \A m \in numbers : m < p => m <= n
      PROVE  Cardinality({m \in numbers : m < p}) = Cardinality({m \in numbers : m < n}) + 1
  <2> DEFINE S == {m \in numbers : m < n}
             T == {m \in numbers : m < p}
  <2>1. T = S \cup {n} /\ n \notin S
    BY <1>5, <1>8
  <2>2. IsFiniteSet(S)
    BY <1>3
  <2> HIDE DEF S, T
  <2>3. Cardinality(T) = Cardinality(S) + 1
    BY <2>1, <2>2, FS_AddElement
  <2> QED BY <2>3 DEF S, T
<1>9. Cardinality(numbers) \in Nat
  BY <1>2, FS_CardinalityType
<1> QED BY <1>2, <1>4, <1>6, <1>7, <1>8, <1>9 DEF Ranked, RankIn

\* The operation of renumbering, when it is done.
LEMMA RenumberIs ==
    ASSUME NEW g \in Interface, Listed(g), Outside(g), NEW number1 \in Int, NEW number2 \in Int,
           NEW start_number \in Int, NEW h, h = Renumber(g, number1, number2, start_number)
    PROVE  /\ Rearranged(g, h) /\ LinkedOn(h, h.open) /\ Sorted(h) /\ Positive(h)
           /\ (start_number = 1 /\ (\A b \in g.open : g.number[b] \in number1 .. number2)) => Dense(h)
<1> DEFINE range == {b \in g.open : g.number[b] \in number1 .. number2}
           numbers == {g.number[b] : b \in range}
           first == FirstOf(g, range)
           last == LastOf(g, range)
           next == After(g, last)
           start == IF start_number < 1 THEN g.number[first] ELSE start_number
           rank(n) == Cardinality({m \in numbers : m < n})
           kept == \/ range = {}
                   \/ g.before[first] # {} /\ start <= g.number[Prev(g, first)]
                   \/ next # {} /\ start + Cardinality(numbers) > g.number[FirstOf(g, next)]
<1>0. /\ g.open \in SUBSET Buffer /\ \A c \in Buffer : g.number[c] \in Int
      /\ \A b \in g.open : b \in Buffer /\ g.number[b] \in Int /\ g.number[b] >= 1
  BY TypeFacts DEF Listed, Positive
<1>1. LinkedOn(g, g.open) /\ Sorted(g) /\ Positive(g)
  BY DEF Listed
<1>2. CASE kept
  <2>1. h = g
    BY <1>2 DEF Renumber
  <2>2. (start_number = 1 /\ (\A b \in g.open : g.number[b] \in number1 .. number2)) => Dense(h)
    <3> SUFFICES ASSUME start_number = 1, \A b \in g.open : g.number[b] \in number1 .. number2
                 PROVE  Dense(h)
      OBVIOUS
    <3>1. range = g.open
      OBVIOUS
    <3>2. CASE g.open = {}
      BY <2>1, <3>2 DEF Dense
    <3>3. CASE g.open # {}
      <4>1. /\ first \in g.open /\ last \in g.open
            /\ \A c \in g.open : c \notin g.before[first]
            /\ \A c \in g.open : last \notin g.before[c]
        BY <1>0, <1>1, <3>1, <3>3, FirstOfIs, LastOfIs
      <4> HIDE DEF first, last
      <4>2. g.before[first] = {}
        <5>1. \A c \in g.before[first] : c \in g.open
          BY <4>1, <1>1 DEF LinkedOn
        <5> QED BY <4>1, <5>1
      <4>3. next = {}
        BY <4>1 DEF After
      <4> QED BY <1>2, <3>1, <3>3, <4>2, <4>3
    <3> QED BY <3>2, <3>3
  <2> QED BY <1>1, <2>1, <2>2 DEF Rearranged, SameGroups, SameLook, SameView, SameCount
<1>3. CASE ~kept
  <2>0. h = [g EXCEPT !.number = [b \in Buffer |-> IF b \in range THEN start + rank(@[b]) ELSE @[b]]]
    BY <1>3 DEF Renumber
  <2>1. /\ range # {} /\ range \in SUBSET g.open /\ range \in SUBSET Buffer
        /\ \A b : b \in range <=> b \in g.open /\ number1 <= g.number[b] /\ g.number[b] <= number2
    BY <1>0, <1>3
  <2>2. /\ first \in range /\ \A c \in range : c = first \/ first \in g.before[c]
        /\ last \in range /\ \A c \in range : c = last \/ c \in g.before[last]
    BY <1>0, <1>1, <2>1, FirstOfIs, LastOfIs
  <2>3. g.before[first] # {} => start > g.number[Prev(g, first)] \/ ~(start <= g.number[Prev(g, first)])
    BY <1>3
  <2>4. next # {} => ~(start + Cardinality(numbers) > g.number[FirstOf(g, next)])
    BY <1>3
  <2>5. start \in Int /\ start >= 1
    <3>1. first \in g.open
      BY <2>1, <2>2
    <3>2. start = IF start_number < 1 THEN g.number[first] ELSE start_number
      OBVIOUS
    <3> HIDE DEF first, start
    <3>3. g.number[first] \in Int /\ g.number[first] >= 1
      BY <3>1, <1>0
    <3> QED BY <3>2, <3>3
  <2>50. start_number = 1 => start = 1
    OBVIOUS
  <2> HIDE DEF first, last, kept, start
  <2>6. /\ IsFiniteSet(numbers) /\ Cardinality(numbers) \in Nat
        /\ \A n \in Int : rank(n) \in Nat /\ (n \in numbers => rank(n) < Cardinality(numbers))
        /\ \A n, p \in Int : n \in numbers /\ n < p => rank(n) < rank(p)
        /\ \A n, p \in Int : n \in numbers /\ n < p /\ (\A m \in numbers : m < p => m <= n) =>
              rank(p) = rank(n) + 1
    <3>1. g.number \in [Buffer -> Int]
      BY DEF Interface
    <3>2. numbers = {g.number[b] : b \in range}
      OBVIOUS
    <3> HIDE DEF range, numbers
    <3>3. Ranked(numbers)
      BY <2>1, <3>1, <3>2, RankIs
    <3> QED BY <3>3 DEF Ranked, RankIn
  <2>7. \A b \in range : g.number[b] \in numbers
    OBVIOUS
  <2>70. \A n \in numbers : \E b \in range : n = g.number[b]
    OBVIOUS
  <2> HIDE DEF rank, numbers, range
  <2>8. /\ h \in Interface /\ h.open = g.open /\ h.before = g.before
        /\ \A b \in Buffer : h.number[b] = IF b \in range THEN start + rank(g.number[b]) ELSE g.number[b]
        /\ SameLook(g, h) /\ SameView(g, h) /\ SameCount(g, h)
    <3> DEFINE number == [b \in Buffer |-> IF b \in range THEN start + rank(g.number[b]) ELSE g.number[b]]
    <3>1. number \in [Buffer -> Int]
      BY <1>0, <2>5, <2>6
    <3>2. h = [g EXCEPT !.number = number]
      BY <2>0
    <3>3. /\ h \in Interface /\ h.open = g.open /\ h.before = g.before /\ h.number = number
          /\ SameLook(g, h) /\ SameView(g, h) /\ SameCount(g, h)
      <4> HIDE DEF number
      <4> QED BY <3>1, <3>2 DEF Interface, SameLook, SameView, SameCount
    <3> QED BY <3>3
  <2>9. \A b \in range : /\ b \in g.open /\ g.number[b] \in Int /\ rank(g.number[b]) \in Nat
                         /\ rank(g.number[b]) < Cardinality(numbers)
                         /\ h.number[b] = start + rank(g.number[b])
    BY <1>0, <2>1, <2>6, <2>7, <2>8
  <2>10. \A b \in g.open \ range : h.number[b] = g.number[b]
    BY <1>0, <2>8
  \* the buffers before the first one renumbered, and those after the last one
  <2>11. ASSUME NEW c \in g.open \ range, NEW b \in range, g.number[c] < g.number[b]
         PROVE  g.number[c] < start
    <3>1. g.number[c] < number1
      BY <2>1, <2>11, <1>0
    <3>2. g.number[c] < g.number[first] /\ first \in g.open
      BY <3>1, <2>1, <2>2, <1>0
    <3>3. c \in g.before[first]
      BY <3>2, <1>0, InOrder
    <3>4. /\ Prev(g, first) \in g.before[first]
          /\ c = Prev(g, first) \/ c \in g.before[Prev(g, first)]
      BY <3>2, <3>3, <1>0, <1>1, PrevIs
    <3>5. Prev(g, first) \in g.open
      BY <3>2, <3>4, <1>1 DEF LinkedOn
    <3>6. g.number[c] <= g.number[Prev(g, first)]
      BY <3>4, <3>5, <1>0, <1>1 DEF Sorted
    <3>7. ~(start <= g.number[Prev(g, first)])
      BY <3>3, <2>3, <2>5, <3>5, <1>0
    <3>8. g.number[Prev(g, first)] \in Int /\ g.number[c] \in Int
      BY <3>5, <1>0
    <3> QED BY <3>6, <3>7, <3>8, <2>5
  <2>12. ASSUME NEW c \in g.open \ range, NEW b \in range, g.number[c] > g.number[b]
         PROVE  g.number[c] >= start + Cardinality(numbers)
    <3>1. g.number[c] > number2
      BY <2>1, <2>12, <1>0
    <3>2. g.number[c] > g.number[last] /\ last \in g.open
      BY <3>1, <2>1, <2>2, <1>0
    <3>3. last \in g.before[c]
      BY <3>2, <1>0, InOrder
    <3>4. c \in next /\ next \in SUBSET g.open
      BY <3>3 DEF After
    <3>5. /\ FirstOf(g, next) \in next
          /\ c = FirstOf(g, next) \/ FirstOf(g, next) \in g.before[c]
      <4> HIDE DEF next
      <4> QED BY <3>4, <1>0, <1>1, FirstOfIs
    <3>6. FirstOf(g, next) \in g.open
      BY <3>4, <3>5
    <3>7. g.number[FirstOf(g, next)] <= g.number[c]
      BY <3>5, <3>6, <1>0, <1>1 DEF Sorted
    <3>8. ~(start + Cardinality(numbers) > g.number[FirstOf(g, next)])
      BY <3>4, <2>4
    <3>9. g.number[FirstOf(g, next)] \in Int /\ g.number[c] \in Int
      BY <3>6, <1>0
    <3> QED BY <3>7, <3>8, <3>9, <2>5, <2>6
  <2>13. ASSUME NEW b \in g.open, NEW c \in g.open, g.number[b] < g.number[c]
         PROVE  h.number[b] < h.number[c]
    <3>0. g.number[b] \in Int /\ g.number[c] \in Int
      BY <1>0
    <3>1. CASE b \in range /\ c \in range
      <4>1. rank(g.number[b]) < rank(g.number[c])
        BY <3>0, <3>1, <2>6, <2>7, <2>13
      <4> QED BY <4>1, <3>1, <2>5, <2>9
    <3>2. CASE b \in range /\ c \notin range
      <4>1. g.number[c] >= start + Cardinality(numbers)
        BY <3>2, <2>12, <2>13, <3>0
      <4> QED BY <4>1, <3>0, <3>2, <2>5, <2>6, <2>9, <2>10
    <3>3. CASE b \notin range /\ c \in range
      <4>1. g.number[b] < start
        BY <3>3, <2>11, <2>13
      <4> QED BY <4>1, <3>0, <3>3, <2>5, <2>9, <2>10
    <3>4. CASE b \notin range /\ c \notin range
      BY <3>4, <2>10, <2>13
    <3> QED BY <3>1, <3>2, <3>3, <3>4
  <2>14. ASSUME NEW b \in g.open, NEW c \in g.open, g.number[b] = g.number[c]
         PROVE  h.number[b] = h.number[c]
    <3>1. b \in range <=> c \in range
      BY <2>1, <2>14
    <3> QED BY <3>1, <2>9, <2>10, <2>14
  <2>15. \A b \in g.open : h.number[b] \in Int
    BY <2>8, TypeFacts, <1>0
  <2>16. SameGroups(g, h, g.open)
    <3> SUFFICES ASSUME NEW b \in g.open, NEW c \in g.open
                 PROVE  h.number[b] = h.number[c] <=> g.number[b] = g.number[c]
      BY DEF SameGroups
    <3>1. g.number[b] = g.number[c] \/ g.number[b] < g.number[c] \/ g.number[c] < g.number[b]
      BY <1>0
    <3>2. h.number[b] \in Int /\ h.number[c] \in Int
      BY <2>15
    <3> QED BY <3>1, <3>2, <2>13, <2>14
  <2>17. LinkedOn(h, h.open) /\ Outside(h)
    BY <1>1, <2>8 DEF LinkedOn, Outside
  <2>18. Sorted(h)
    <3> SUFFICES ASSUME NEW b \in g.open, NEW c \in g.before[b] PROVE h.number[c] <= h.number[b]
      BY <2>8 DEF Sorted
    <3>1. c \in g.open
      BY <1>1 DEF LinkedOn
    <3>2. g.number[c] <= g.number[b] /\ g.number[c] \in Int /\ g.number[b] \in Int
      BY <3>1, <1>0, <1>1 DEF Sorted
    <3>3. g.number[c] = g.number[b] \/ g.number[c] < g.number[b]
      BY <3>2
    <3> QED BY <3>1, <3>3, <2>13, <2>14, <2>15
  <2>19. Positive(h)
    <3> SUFFICES ASSUME NEW b \in g.open PROVE h.number[b] >= 1
      BY <2>8 DEF Positive
    <3>1. CASE b \in range
      BY <3>1, <2>5, <2>9
    <3>2. CASE b \notin range
      BY <3>2, <2>10, <1>0
    <3> QED BY <3>1, <3>2
  <2>20. ASSUME start_number = 1, \A b \in g.open : g.number[b] \in number1 .. number2 PROVE Dense(h)
    <3> SUFFICES ASSUME NEW b \in g.open, ~(h.number[b] <= 1)
                 PROVE  \E c \in g.open : h.number[c] = h.number[b] - 1
      BY <2>8 DEF Dense
    <3>0. start = 1 /\ \A c \in g.open : c \in range
      BY <2>20, <2>50, <1>0, <2>1
    <3>1. h.number[b] = 1 + rank(g.number[b]) /\ rank(g.number[b]) \in Nat /\ g.number[b] \in Int
      BY <3>0, <2>9
    <3>2. PICK d \in g.open : g.number[d] < g.number[b]
      <4> SUFFICES ASSUME \A d \in g.open : ~(g.number[d] < g.number[b]) PROVE FALSE
        OBVIOUS
      <4>1. \A m \in numbers : ~(m < g.number[b])
        BY <2>1, <2>70
      <4>2. {m \in numbers : m < g.number[b]} = {}
        BY <4>1
      <4>3. rank(g.number[b]) = 0
        BY <4>2, FS_EmptySet DEF rank
      <4> QED BY <4>3, <3>1
    <3> DEFINE lower == {e \in g.open : g.number[e] < g.number[b]}
    <3>3. lower \in SUBSET g.open /\ d \in lower
      BY <3>2
    <3>4. PICK c \in lower : \A e \in lower : e = c \/ e \in g.before[c]
      <4> HIDE DEF lower
      <4> QED BY <3>3, <1>0, <1>1, LastOfIs
    <3>5. c \in g.open /\ g.number[c] < g.number[b] /\ g.number[c] \in Int
      BY <3>4, <1>0
    <3>6. \A m \in numbers : m < g.number[b] => m <= g.number[c]
      <4> SUFFICES ASSUME NEW m \in numbers, m < g.number[b] PROVE m <= g.number[c]
        OBVIOUS
      <4>1. PICK e \in g.open : m = g.number[e]
        BY <2>1, <2>70
      <4>2. e = c \/ e \in g.before[c]
        BY <4>1, <3>4
      <4>3. e \in g.before[c] => g.number[e] <= g.number[c]
        BY <3>5, <1>1 DEF Sorted
      <4> QED BY <4>1, <4>2, <4>3, <3>5
    <3>7. rank(g.number[b]) = rank(g.number[c]) + 1
      BY <3>0, <3>1, <3>5, <3>6, <2>6, <2>7
    <3>8. h.number[c] = 1 + rank(g.number[c]) /\ rank(g.number[c]) \in Nat
      BY <3>0, <3>5, <2>9
    <3> QED BY <3>1, <3>5, <3>7, <3>8
  <2> QED BY <2>8, <2>16, <2>17, <2>18, <2>19, <2>20 DEF Rearranged
<1> QED BY <1>2, <1>3

-----------------------------------------------------------------------------
(* A buffer leaves its group.                                              *)

\* h is g once a buffer has nothing more to do with those it was merged with.
SeparatedIn(g, h, b) ==
    /\ \A c \in g.open \ Mates(g, b) : /\ h.active[c] = g.active[c] /\ h.lines[c] = g.lines[c]
                                       /\ h.mixed_lines[c] = g.mixed_lines[c]
    /\ h.mixed_lines[b] = {} /\ h.lines[b] = "own"
    /\ \E x \in Others(g, b) :
          /\ h.active[x] \in {1, 2} /\ \A c \in Others(g, b) \ {x} : h.active[c] = 0
          /\ h.active[x] = 2 => Others(g, b) # {x} /\ \E c \in Mates(g, b) : g.active[c] = 2
    /\ \A c \in Others(g, b) :
          /\ Others(g, b) = {c} => h.mixed_lines[c] = {} /\ h.lines[c] = "own"
          /\ Others(g, b) # {c} => h.mixed_lines[c] = g.mixed_lines[c] \ {b}
          /\ Others(g, b) # {c} /\ (\A d \in Mates(g, b) : g.active[d] # 2) => h.lines[c] = g.lines[c]

LEMMA AnyNextIs ==
    ASSUME NEW g \in Interface, Listed(g), NEW b \in g.open, Merged(g, b)
    PROVE  AnyNextActive(g, b) \in Others(g, b)
<1>1. Others(g, b) \in SUBSET g.open /\ NotHidden(g, b) \in SUBSET Others(g, b) /\ Others(g, b) # {}
  BY MatesAre DEF NotHidden, Merged
<1>2. LinkedOn(g, g.open)
  BY DEF Listed
<1>3. NotHidden(g, b) \in SUBSET g.open
  BY <1>1
<1>4. NotHidden(g, b) # {} => Following(g, b, NotHidden(g, b)) \in NotHidden(g, b)
  BY <1>2, <1>3, FollowingIs
<1>5. Following(g, b, Others(g, b)) \in Others(g, b)
  BY <1>1, <1>2, FollowingIs
<1> QED BY <1>1, <1>4, <1>5 DEF AnyNextActive, NextActive

NewLines(g, mixed_lines, lines) == [g EXCEPT !.mixed_lines = mixed_lines, !.lines = lines]

LEMMA NewLinesIs ==
    ASSUME NEW g \in Interface, NEW mixed_lines \in [Buffer -> SUBSET Buffer],
           NEW lines \in [Buffer -> {"own", "mixed"}], NEW h,
           h = NewLines(g, mixed_lines, lines)
    PROVE  /\ h \in Interface /\ SameList(g, h) /\ SameView(g, h) /\ SameCount(g, h)
           /\ h.zoomed = g.zoomed /\ h.hidden = g.hidden
           /\ h.active = g.active /\ h.mixed_lines = mixed_lines /\ h.lines = lines
BY DEF NewLines, Interface, SameList, SameView, SameCount

NewActive(g, active) == [g EXCEPT !.active = active]

LEMMA NewActiveIs ==
    ASSUME NEW g \in Interface, NEW active \in [Buffer -> 0 .. 2], NEW h, h = NewActive(g, active)
    PROVE  /\ h \in Interface /\ SameList(g, h) /\ SameView(g, h) /\ SameCount(g, h)
           /\ h.zoomed = g.zoomed /\ h.hidden = g.hidden
           /\ h.active = active /\ h.mixed_lines = g.mixed_lines /\ h.lines = g.lines
BY DEF NewActive, Interface, SameList, SameView, SameCount

LEMMA SeparatedIs ==
    ASSUME NEW g \in Interface, Listed(g), One(g), NEW b \in g.open, Merged(g, b),
           NEW h, h = Separated(g, b)
    PROVE  /\ h \in Interface /\ SameList(g, h) /\ SameView(g, h) /\ SameCount(g, h)
           /\ h.zoomed = g.zoomed /\ h.hidden = g.hidden /\ SeparatedIn(g, h, b)
<1> DEFINE group == Mates(g, b)
           others == Others(g, b)
           x == AnyNextActive(g, b)
           g2 == SetActive(g, x)
<1>0. /\ g.open \in SUBSET Buffer /\ group \in SUBSET Buffer /\ b \in Buffer
      /\ \A c : c \in others <=> c \in group /\ c # b
      /\ b \in group /\ \A c \in group : c \in g.open /\ c \in Buffer
  BY TypeFacts, MatesAre
<1>1. CASE \E c \in group : group = {b, c}
  <2>0. PICK c \in group : group = {b, c}
    BY <1>1
  <2>1. others # {}
    BY DEF Merged
  <2>2. others = {c} /\ c # b
    BY <2>0, <2>1, <1>0
  <2> DEFINE active == [d \in Buffer |-> IF d \in group THEN 1 ELSE g.active[d]]
             mixed_lines == [d \in Buffer |-> IF d \in group THEN {} ELSE g.mixed_lines[d]]
             lines == [d \in Buffer |-> IF d \in group THEN "own" ELSE g.lines[d]]
  <2>3. h = [g EXCEPT !.active = active, !.mixed_lines = mixed_lines, !.lines = lines]
    BY <1>1 DEF Separated
  <2>4. active \in [Buffer -> 0 .. 2]
    <3>1. \A d \in Buffer : g.active[d] \in 0 .. 2 /\ 1 \in 0 .. 2
      BY TypeFacts
    <3> HIDE DEF group
    <3> QED BY <3>1
  <2>5. mixed_lines \in [Buffer -> SUBSET Buffer]
    BY TypeFacts
  <2>6. lines \in [Buffer -> {"own", "mixed"}]
    BY TypeFacts
  <2>7. /\ h \in Interface /\ SameList(g, h) /\ SameView(g, h) /\ SameCount(g, h)
        /\ h.zoomed = g.zoomed /\ h.hidden = g.hidden
        /\ h.active = active /\ h.mixed_lines = mixed_lines /\ h.lines = lines
    <3> DEFINE k == NewActive(g, active)
    <3>1. h = NewLines(k, mixed_lines, lines)
      BY <2>3 DEF NewLines, NewActive
    <3> HIDE DEF active, mixed_lines, lines
    <3>2. /\ k \in Interface /\ SameList(g, k) /\ SameView(g, k) /\ SameCount(g, k)
          /\ k.zoomed = g.zoomed /\ k.hidden = g.hidden /\ k.active = active
      BY <2>4, NewActiveIs
    <3> HIDE DEF k
    <3>3. /\ h \in Interface /\ SameList(k, h) /\ SameView(k, h) /\ SameCount(k, h)
          /\ h.zoomed = k.zoomed /\ h.hidden = k.hidden
          /\ h.active = k.active /\ h.mixed_lines = mixed_lines /\ h.lines = lines
      BY <3>1, <3>2, <2>5, <2>6, NewLinesIs
    <3> QED BY <3>2, <3>3 DEF SameList, SameView, SameCount
  <2> HIDE DEF group, others
  <2>8. /\ \A d \in group : h.active[d] = 1 /\ h.mixed_lines[d] = {} /\ h.lines[d] = "own"
        /\ \A d \in g.open \ group : /\ h.active[d] = g.active[d] /\ h.lines[d] = g.lines[d]
                                     /\ h.mixed_lines[d] = g.mixed_lines[d]
    BY <2>7, <1>0
  <2>9. SeparatedIn(g, h, b)
    <3>1. h.active[c] \in {1, 2} /\ h.active[c] # 2
      BY <2>0, <2>8
    <3>2. \E y \in others : /\ h.active[y] \in {1, 2} /\ \A d \in others \ {y} : h.active[d] = 0
                            /\ h.active[y] = 2 => others # {y} /\ \E d \in group : g.active[d] = 2
      BY <2>2, <3>1
    <3> QED BY <2>0, <2>2, <2>8, <3>2, <1>0 DEF SeparatedIn, group, others
  <2> QED BY <2>7, <2>9
<1>2. CASE ~ \E c \in group : group = {b, c}
  <2>1. x \in others
    BY AnyNextIs
  <2> HIDE DEF x
  <2>2. x \in g.open /\ LinkedOn(g, g.open) /\ x \in group /\ x # b
    BY <2>1, <1>0 DEF Listed
  <2>3. /\ g2 \in Interface /\ SameList(g, g2) /\ SameView(g, g2) /\ SameCount(g, g2)
        /\ g2.zoomed = g.zoomed /\ g2.hidden = g.hidden /\ g2.mixed_lines = g.mixed_lines
        /\ Activated(g, g2, x)
    BY <2>2, SetActiveIs
  <2> HIDE DEF g2
  <2>4. \A c \in others : others # {c}
    BY <1>0, <1>2
  <2>5. Mates(g, x) = group /\ Others(g, x) = group \ {x}
    BY <2>2 DEF Mates, Group, Others
  <2> DEFINE mixed_lines == [c \in Buffer |-> IF c = b THEN {}
                                              ELSE IF c \in group THEN g.mixed_lines[c] \ {b} ELSE g.mixed_lines[c]]
             lines == [g2.lines EXCEPT ![b] = "own"]
  <2>6. h = [g2 EXCEPT !.mixed_lines = mixed_lines, !.lines = lines]
    BY <1>2, <2>3 DEF Separated, g2, x
  <2>7. mixed_lines \in [Buffer -> SUBSET Buffer]
    BY TypeFacts
  <2>8. lines \in [Buffer -> {"own", "mixed"}] /\ lines[b] = "own" /\ \A c \in Buffer \ {b} : lines[c] = g2.lines[c]
    BY <2>3, <1>0 DEF Interface
  <2>9. /\ h \in Interface /\ SameList(g, h) /\ SameView(g, h) /\ SameCount(g, h)
        /\ h.zoomed = g.zoomed /\ h.hidden = g.hidden
        /\ h.active = g2.active /\ h.mixed_lines = mixed_lines /\ h.lines = lines
    <3> HIDE DEF mixed_lines, lines
    <3>0. h = NewLines(g2, mixed_lines, lines)
      BY <2>6 DEF NewLines
    <3>1. /\ h \in Interface /\ SameList(g2, h) /\ SameView(g2, h) /\ SameCount(g2, h)
          /\ h.zoomed = g2.zoomed /\ h.hidden = g2.hidden
          /\ h.active = g2.active /\ h.mixed_lines = mixed_lines /\ h.lines = lines
      BY <2>3, <3>0, <2>7, <2>8, NewLinesIs
    <3> QED BY <2>3, <3>1 DEF SameList, SameView, SameCount
  <2> HIDE DEF group, others, lines
  <2>10. PICK active \in {1, 2} :
            /\ IF \A c \in group : g.active[c] = 0 THEN active = 1 ELSE \E c \in group : active = g.active[c]
            /\ \A c \in Buffer :
                  /\ h.active[c] = IF c = x THEN active ELSE IF c \in group THEN 0 ELSE g.active[c]
                  /\ g2.lines[c] = IF c = x /\ active = 2 THEN "own"
                                   ELSE IF c \in group \ {x} /\ g.active[c] = 2 THEN "mixed" ELSE g.lines[c]
    BY <2>3, <2>5, <2>9 DEF Activated
  <2>11. active = 2 => \E c \in group : g.active[c] = 2
    BY <2>10
  <2>12. h.active[x] = active /\ \A c \in others \ {x} : h.active[c] = 0
    BY <2>2, <2>10, <1>0
  <2>13. \A c \in g.open \ group : /\ h.active[c] = g.active[c] /\ h.lines[c] = g.lines[c]
                                   /\ h.mixed_lines[c] = g.mixed_lines[c]
    <3> TAKE c \in g.open \ group
    <3>1. c \in Buffer /\ c # b /\ c # x
      BY <2>2, <1>0
    <3> QED BY <3>1, <2>8, <2>9, <2>10
  <2>14. h.mixed_lines[b] = {} /\ h.lines[b] = "own"
    BY <2>8, <2>9, <1>0
  <2>15. \A c \in others : /\ h.mixed_lines[c] = g.mixed_lines[c] \ {b}
                           /\ (\A d \in group : g.active[d] # 2) => h.lines[c] = g.lines[c]
    <3> TAKE c \in others
    <3>1. c \in Buffer /\ c # b /\ c \in group
      BY <1>0
    <3>2. h.mixed_lines[c] = g.mixed_lines[c] \ {b}
      BY <3>1, <2>9
    <3>3. (\A d \in group : g.active[d] # 2) => h.lines[c] = g.lines[c]
      BY <3>1, <2>8, <2>9, <2>10, <2>11
    <3> QED BY <3>2, <3>3
  <2>16. \E y \in others : /\ h.active[y] \in {1, 2} /\ \A d \in others \ {y} : h.active[d] = 0
                           /\ h.active[y] = 2 => others # {y} /\ \E d \in group : g.active[d] = 2
    BY <2>1, <2>4, <2>11, <2>12
  <2>17. SeparatedIn(g, h, b)
    BY <2>4, <2>13, <2>14, <2>15, <2>16 DEF SeparatedIn, group, others
  <2> QED BY <2>9, <2>17
<1> QED BY <1>1, <1>2

\* h is g once a buffer has left its group.
UnmergedIn(g, h, b) ==
    h.open = g.open /\ Mates(h, b) = {b} /\ \A c \in g.open \ {b} : Mates(h, c) = Mates(g, c) \ {b}

LEMMA UnmergeIs ==
    ASSUME NEW g \in Interface, Listed(g), Outside(g), One(g), NEW b \in g.open, Merged(g, b),
           NEW number \in Int, NEW h, h = Unmerge(g, b, number)
    PROVE  /\ h \in Interface /\ Listed(h) /\ Outside(h) /\ UnmergedIn(g, h, b)
           /\ One(h) /\ CountsTrue(h) /\ SameView(g, h)
           /\ (Mixed(g) /\ Marked(g) /\ \A c \in Mates(g, b) : g.active[c] # 2) => Mixed(h) /\ Marked(h)
<1> DEFINE group == Mates(g, b)
           others == Others(g, b)
           s == Separated(g, b)
           r == Removed(s, {b})
           g2 == [r EXCEPT !.active = [@ EXCEPT ![b] = 1]]
           n == IF number < 1 \/ number = g.number[b] THEN g.number[b] + 1
                ELSE IF auto_renumber /\ number > LastNumber(g) + 1 THEN LastNumber(g) + 1
                ELSE number
           i == Insert(g2, {b}, n, n)
<1>0. /\ g.open \in SUBSET Buffer /\ b \in Buffer /\ {b} \in SUBSET Buffer /\ {b} \in SUBSET g.open
      /\ \A c \in g.open : c \in Buffer /\ g.number[c] \in Int /\ g.number[c] >= 1
      /\ \A c : c \in group <=> c \in g.open /\ g.number[c] = g.number[b]
      /\ \A c : c \in others <=> c \in g.open /\ g.number[c] = g.number[b] /\ c # b
  BY TypeFacts, MatesAre DEF Listed, Positive
<1>1. PICK mate \in g.open : mate # b /\ g.number[mate] = g.number[b]
  BY MatesAre
<1>2. /\ LastNumber(g) \in Int /\ LastNumber(g) >= 1
      /\ \A c \in g.open : g.number[c] <= LastNumber(g)
      /\ \E c \in g.open : g.number[c] = LastNumber(g)
  BY LastNumberIs
<1>3. h = ComputeNumDisplayed(i)
  BY DEF Unmerge
<1>4. /\ s \in Interface /\ SameList(g, s) /\ SameView(g, s)
      /\ s.zoomed = g.zoomed /\ s.hidden = g.hidden /\ SeparatedIn(g, s, b)
  BY SeparatedIs
<1> HIDE DEF s
<1>5. r \in Interface /\ RemovedFrom(s, r, {b}) /\ SameLook(s, r) /\ SameView(s, r)
  BY <1>0, <1>4, RemovedIs
<1> HIDE DEF r
<1>6. /\ g2 \in Interface /\ SameList(r, g2) /\ SameView(r, g2)
      /\ g2.zoomed = r.zoomed /\ g2.mixed_lines = r.mixed_lines /\ g2.lines = r.lines
      /\ g2.active = [r.active EXCEPT ![b] = 1]
  <2> DEFINE active == [r.active EXCEPT ![b] = 1]
  <2>1. active \in [Buffer -> 0 .. 2]
    <3>1. r.active \in [Buffer -> 0 .. 2] /\ 1 \in 0 .. 2
      BY <1>5 DEF Interface
    <3> QED BY <3>1
  <2>2. g2 = NewActive(r, active)
    BY DEF NewActive
  <2> HIDE DEF active
  <2>3. r \in Interface
    BY <1>5
  <2> HIDE DEF g2
  <2>4. /\ g2 \in Interface /\ SameList(r, g2) /\ SameView(r, g2) /\ SameCount(r, g2)
        /\ g2.zoomed = r.zoomed /\ g2.hidden = r.hidden
        /\ g2.active = active /\ g2.mixed_lines = r.mixed_lines /\ g2.lines = r.lines
    BY <2>1, <2>2, <2>3, NewActiveIs
  <2> QED BY <2>4 DEF active
<1> HIDE DEF g2
<1>7. /\ g2.open = g.open \ {b} /\ g2.number = g.number
      /\ \A c \in Buffer : g2.before[c] = IF c \in {b} THEN g.before[c] \cap {b} ELSE g.before[c] \ {b}
  BY <1>4, <1>5, <1>6 DEF SameList, RemovedFrom
<1>8. Listed(g2) /\ LinkedOn(g2, {b})
  <2>1. LinkedOn(g2, g2.open) /\ LinkedOn(g2, {b})
    <3>1. \A c \in g.open : g2.before[c] = IF c \in {b} THEN g.before[c] \cap {b} ELSE g.before[c] \ {b}
      BY <1>0, <1>7
    <3>2. LinkedOn(g, g.open) /\ g2.open = g.open \ {b}
      BY <1>7 DEF Listed
    <3> QED BY <1>0, <1>6, <3>1, <3>2, RemovedLinked
  <2>2. Sorted(g2)
    <3> SUFFICES ASSUME NEW c \in g2.open, NEW d \in g2.before[c] PROVE g2.number[d] <= g2.number[c]
      BY DEF Sorted
    <3>1. d \in g.before[c] /\ c \in g.open
      BY <1>0, <1>7
    <3> QED BY <3>1, <1>7 DEF Listed, Sorted
  <2>3. Positive(g2)
    BY <1>0, <1>7 DEF Positive
  <2>4. ASSUME auto_renumber PROVE Dense(g2)
    <3> SUFFICES ASSUME NEW c \in g2.open, ~(g2.number[c] <= 1)
                 PROVE  \E d \in g2.open : g2.number[d] = g2.number[c] - 1
      BY DEF Dense
    <3>1. PICK d \in g.open : g.number[d] = g.number[c] - 1
      BY <1>7, <2>4 DEF Listed, Dense
    <3> QED BY <3>1, <1>1, <1>7
  <2> QED BY <2>1, <2>2, <2>3, <2>4 DEF Listed
<1>9. InsertNumber(g2, n, n)
  <2>1. n \in Int /\ n >= 1
    BY <1>0, <1>2
  <2>2. ASSUME auto_renumber, \A c \in g2.open : g2.number[c] < n
        PROVE  \E c \in g2.open : g2.number[c] = n - 1
    <3>1. \A c \in g.open : \E d \in g2.open : g2.number[d] = g.number[c]
      BY <1>1, <1>7
    <3>2. \E c \in g.open : g.number[c] = n - 1
      <4>1. CASE n = g.number[b] + 1
        <5>1. n - 1 = g.number[b]
          BY <4>1, <1>0
        <5> QED BY <5>1
      <4>2. CASE n # g.number[b] + 1
        <5>1. n <= LastNumber(g) + 1
          BY <4>2, <2>2, <1>2
        <5>2. LastNumber(g) < n
          BY <2>2, <3>1, <1>2
        <5>3. n - 1 = LastNumber(g)
          BY <5>1, <5>2, <2>1, <1>2
        <5> QED BY <5>3, <1>2
      <4> QED BY <4>1, <4>2
    <3> QED BY <3>1, <3>2
  <2> HIDE DEF n
  <2> QED BY <2>1, <2>2 DEF InsertNumber
<1> HIDE DEF n
<1>10. i \in Interface /\ Listed(i) /\ InsertedIn(g2, i, {b}) /\ SameLook(g2, i) /\ SameView(g2, i)
  <2>1. {b} \in SUBSET (Buffer \ g2.open) /\ {b} # {}
    BY <1>0, <1>7
  <2> QED BY <2>1, <1>6, <1>8, <1>9, InsertIs
<1> HIDE DEF i
<1>11. /\ i.open = g.open
       /\ \A c, d \in g.open \ {b} : i.number[c] = i.number[d] <=> g.number[c] = g.number[d]
       /\ \A c \in g.open : i.number[c] = i.number[b] <=> c = b
       /\ \A c \in Buffer \ g.open : i.before[c] = {}
  <2>1. /\ i.open = g2.open \cup {b} /\ SameGroups(g2, i, g2.open)
        /\ \A c \in i.open : i.number[c] = i.number[b] <=> c \in {b}
        /\ \A c \in Buffer \ i.open : i.before[c] = g2.before[c]
    BY <1>10 DEF InsertedIn
  <2>2. i.open = g.open
    BY <2>1, <1>0, <1>7
  <2>3. \A c \in Buffer \ g.open : i.before[c] = {}
    <3> TAKE c \in Buffer \ g.open
    <3>1. i.before[c] = g2.before[c] /\ c # b
      BY <2>1, <2>2
    <3>2. g2.before[c] = g.before[c] \ {b}
      BY <3>1, <1>7
    <3>3. g.before[c] = {}
      BY DEF Outside
    <3> QED BY <3>1, <3>2, <3>3
  <2> QED BY <2>1, <2>2, <2>3, <1>7 DEF SameGroups
<1>12. h \in Interface /\ SameList(i, h) /\ SameView(i, h) /\ SameLook(i, h) /\ CountsTrue(h)
  <2>1. IsFiniteSet(DOMAIN i.window)
    BY <1>10, WindowsFinite
  <2> QED BY <1>3, <1>10, <2>1, CountIs, CountsAre
<1>13. /\ h.open = g.open
       /\ \A c, d \in g.open \ {b} : h.number[c] = h.number[d] <=> g.number[c] = g.number[d]
       /\ \A c \in g.open : h.number[c] = h.number[b] <=> c = b
       /\ \A c \in Buffer \ g.open : h.before[c] = {}
  BY <1>11, <1>12 DEF SameList
<1>14. Listed(h) /\ Outside(h)
  <2>1. Listed(h)
    BY <1>10, <1>12 DEF SameList, Listed, LinkedOn, Sorted, Positive, Dense
  <2>2. Outside(h)
    BY <1>13 DEF Outside
  <2> QED BY <2>1, <2>2
<1>15. SameView(g, h)
  BY <1>4, <1>5, <1>6, <1>10, <1>12 DEF SameView
<1>16. UnmergedIn(g, h, b)
  <2>1. Mates(h, b) = {b}
    BY <1>13 DEF Mates, Group
  <2>2. ASSUME NEW c \in g.open \ {b} PROVE Mates(h, c) = Mates(g, c) \ {b}
    <3>1. h.number[b] # h.number[c]
      BY <1>13
    <3> QED BY <3>1, <1>13 DEF Mates, Group
  <2> QED BY <2>1, <2>2, <1>13 DEF UnmergedIn
<1>17. /\ h.zoomed = g.zoomed /\ h.mixed_lines = s.mixed_lines /\ h.lines = s.lines
       /\ \A c \in g.open : h.active[c] = IF c = b THEN 1 ELSE s.active[c]
  <2>1. h.active = g2.active /\ h.zoomed = g.zoomed /\ h.mixed_lines = s.mixed_lines /\ h.lines = s.lines
    BY <1>4, <1>5, <1>6, <1>10, <1>12 DEF SameLook
  <2>2. g2.active = [s.active EXCEPT ![b] = 1] /\ s.active \in [Buffer -> 0 .. 2]
    BY <1>4, <1>5, <1>6 DEF SameLook, Interface
  <2> QED BY <2>1, <2>2, <1>0
<1>18. PICK x \in others :
          /\ s.active[x] \in {1, 2} /\ \A c \in others \ {x} : s.active[c] = 0
          /\ s.active[x] = 2 => others # {x} /\ \E c \in group : g.active[c] = 2
  BY <1>4 DEF SeparatedIn
<1>19. /\ \A c \in g.open \ group : /\ s.active[c] = g.active[c] /\ s.lines[c] = g.lines[c]
                                    /\ s.mixed_lines[c] = g.mixed_lines[c]
       /\ s.mixed_lines[b] = {} /\ s.lines[b] = "own"
       /\ \A c \in others :
             /\ others = {c} => s.mixed_lines[c] = {} /\ s.lines[c] = "own"
             /\ others # {c} => s.mixed_lines[c] = g.mixed_lines[c] \ {b}
             /\ others # {c} /\ (\A d \in group : g.active[d] # 2) => s.lines[c] = g.lines[c]
  BY <1>4 DEF SeparatedIn
<1> HIDE DEF group, others
<1>20. /\ h.active[b] = 1 /\ \A c \in others : h.active[c] = s.active[c]
       /\ \A c \in g.open \ group : h.active[c] = g.active[c]
  BY <1>0, <1>17, <1>19
<1>21. \A c \in g.open : c = b \/ c \in others \/ c \in g.open \ group
  BY <1>0
<1>22. One(h)
  <2>1. ASSUME NEW c \in g.open PROVE \E d \in g.open : h.number[d] = h.number[c] /\ h.active[d] # 0
    <3>1. CASE c = b
      BY <3>1, <1>20
    <3>2. CASE c \in others
      <4>1. x \in g.open \ {b} /\ c \in g.open \ {b} /\ g.number[x] = g.number[c]
        BY <3>2, <1>0, <1>18
      <4>2. h.number[x] = h.number[c] /\ h.active[x] # 0
        BY <4>1, <1>13, <1>18, <1>20
      <4> QED BY <4>1, <4>2
    <3>3. CASE c \in g.open \ group
      <4>1. PICK d \in g.open : g.number[d] = g.number[c] /\ g.active[d] # 0
        BY DEF One
      <4>2. d \in g.open \ group /\ d # b /\ c # b
        BY <3>3, <4>1, <1>0
      <4> QED BY <3>3, <4>1, <4>2, <1>13, <1>20
    <3> QED BY <3>1, <3>2, <3>3, <1>21
  <2>2. ASSUME NEW c \in g.open, NEW d \in g.open, h.number[d] = h.number[c], h.active[c] # 0, h.active[d] # 0
        PROVE  c = d
    <3>1. CASE c = b \/ d = b
      BY <3>1, <2>2, <1>13
    <3>2. CASE c # b /\ d # b
      <4>1. g.number[d] = g.number[c]
        BY <3>2, <2>2, <1>13
      <4>2. CASE c \in others
        <5>1. d \in others
          BY <3>2, <4>1, <4>2, <1>0
        <5> QED BY <4>2, <5>1, <2>2, <1>18, <1>20
      <4>3. CASE c \notin others
        <5>1. c \in g.open \ group /\ d \in g.open \ group
          BY <3>2, <4>1, <4>3, <1>0
        <5>2. g.active[c] # 0 /\ g.active[d] # 0
          BY <5>1, <2>2, <1>20
        <5> QED BY <4>1, <5>2 DEF One
      <4> QED BY <4>2, <4>3
    <3> QED BY <3>1, <3>2
  <2>3. ASSUME NEW c \in g.open, h.active[c] = 2 PROVE \E d \in g.open : d # c /\ h.number[d] = h.number[c]
    <3>1. CASE c = b
      BY <3>1, <2>3, <1>20
    <3>2. CASE c \in others
      <4>1. c = x
        BY <3>2, <2>3, <1>18, <1>20
      <4>2. PICK d \in others : d # x
        BY <4>1, <2>3, <1>18, <1>20
      <4>3. x \in g.open \ {b} /\ d \in g.open \ {b} /\ g.number[x] = g.number[d]
        BY <4>2, <1>0, <1>18
      <4> QED BY <4>1, <4>2, <4>3, <1>13
    <3>3. CASE c \in g.open \ group
      <4>1. PICK d \in g.open : d # c /\ g.number[d] = g.number[c]
        BY <2>3, <3>3, <1>20 DEF One
      <4>2. d \in g.open \ {b} /\ c \in g.open \ {b}
        BY <3>3, <4>1, <1>0
      <4> QED BY <4>1, <4>2, <1>13
    <3> QED BY <3>1, <3>2, <3>3, <1>21
  <2> QED BY <2>1, <2>2, <2>3, <1>13 DEF One
<1>23. ASSUME Mixed(g), Marked(g), \A c \in group : g.active[c] # 2
       PROVE  Mixed(h) /\ Marked(h)
  <2>1. \A c \in group : h.active[c] # 2 /\ ~g.zoomed[c]
    <3> TAKE c \in group
    <3>1. h.active[c] # 2
      BY <1>0, <1>18, <1>20, <1>23
    <3>2. ~g.zoomed[c]
      BY <1>0, <1>23 DEF Marked
    <3> QED BY <3>1, <3>2
  <2>2. \A c \in g.open : h.zoomed[c] <=> \E d \in g.open : h.number[d] = h.number[c] /\ h.active[d] = 2
    <3> TAKE c \in g.open
    <3>1. CASE c = b
      <4>1. ~h.zoomed[c]
        BY <3>1, <2>1, <1>0, <1>17
      <4> QED BY <3>1, <4>1, <1>13, <1>20
    <3>2. CASE c \in others
      <4>1. ~h.zoomed[c]
        BY <3>2, <2>1, <1>0, <1>17
      <4>2. ASSUME NEW d \in g.open, h.number[d] = h.number[c] PROVE d \in group
        BY <3>2, <4>2, <1>0, <1>13
      <4> QED BY <4>1, <4>2, <2>1
    <3>3. CASE c \in g.open \ group
      <4>1. h.zoomed[c] = g.zoomed[c]
        BY <1>17
      <4>2. \A d \in g.open : h.number[d] = h.number[c] => d # b /\ g.number[d] = g.number[c]
        BY <3>3, <1>0, <1>13
      <4>3. \A d \in g.open : g.number[d] = g.number[c] => d # b /\ h.number[d] = h.number[c] /\ d \in g.open \ group
        BY <3>3, <1>0, <1>13
      <4> QED BY <4>1, <4>2, <4>3, <1>20, <1>23 DEF Marked
    <3> QED BY <3>1, <3>2, <3>3, <1>21
  <2>3. Marked(h)
    BY <2>2, <1>13 DEF Marked
  <2>4. ASSUME NEW c \in g.open
        PROVE  /\ Merged(h, c) => h.mixed_lines[c] = Mates(h, c)
               /\ ~Merged(h, c) => h.mixed_lines[c] = {}
               /\ h.lines[c] = "mixed" <=> Merged(h, c) /\ h.active[c] # 2
    <3>1. CASE c = b
      <4>1. ~Merged(h, c)
        BY <3>1, <1>13, MatesAre
      <4> QED BY <3>1, <4>1, <1>17, <1>19
    <3>2. CASE c \in others
      <4>1. Mates(h, c) = Mates(g, c) \ {b} /\ Mates(g, c) = group /\ c # b /\ c \in group
        BY <3>2, <1>0, <1>16 DEF UnmergedIn, Mates, Group, group
      <4>2. Mates(h, c) = others
        BY <4>1, <1>0
      <4>3. Merged(h, c) <=> others # {c}
        BY <4>2, <3>2 DEF Merged, Others
      <4>4. Merged(g, c) /\ g.mixed_lines[c] = group /\ g.lines[c] = "mixed"
        <5>1. Merged(g, c)
          BY <3>2, <1>0, MatesAre
        <5> QED BY <4>1, <5>1, <1>23, <1>0 DEF Mixed
      <4>5. CASE others = {c}
        BY <3>2, <4>3, <4>5, <1>17, <1>19
      <4>6. CASE others # {c}
        <5>1. h.mixed_lines[c] = group \ {b} /\ h.lines[c] = "mixed"
          BY <3>2, <4>4, <4>6, <1>17, <1>19, <1>23
        <5>2. h.active[c] # 2
          BY <4>1, <2>1
        <5> QED BY <4>1, <4>3, <4>6, <5>1, <5>2
      <4> QED BY <4>5, <4>6
    <3>3. CASE c \in g.open \ group
      <4>1. c # b /\ b \notin Mates(g, c)
        BY <3>3, <1>0, MatesAre
      <4>2. Mates(h, c) = Mates(g, c)
        BY <4>1, <1>16 DEF UnmergedIn
      <4>3. Merged(h, c) = Merged(g, c)
        BY <4>2 DEF Merged, Others
      <4>4. h.mixed_lines[c] = g.mixed_lines[c] /\ h.lines[c] = g.lines[c] /\ h.active[c] = g.active[c]
        BY <3>3, <1>17, <1>19, <1>20
      <4> QED BY <4>2, <4>3, <4>4, <1>23 DEF Mixed
    <3> QED BY <3>1, <3>2, <3>3, <1>21
  <2>5. Mixed(h)
    BY <2>4, <1>13 DEF Mixed
  <2> QED BY <2>3, <2>5
<1> QED BY <1>12, <1>14, <1>15, <1>16, <1>22, <1>23 DEF group

-----------------------------------------------------------------------------
(* What every operation keeps.                                             *)
Sound(g) == g \in Interface /\ Listed(g) /\ Outside(g) /\ One(g) /\ CountsTrue(g)
Clean(g) == Mixed(g) /\ Marked(g)

Alive(g) ==
    /\ \A w \in DOMAIN g.window : g.window[w] \in g.open
    /\ \A i \in DOMAIN g.visited : g.visited[i] \in g.open
    /\ g.hotlist \subseteq g.open
    /\ g.initial_buffer \in g.open \cup {None} /\ g.last_displayed \in g.open \cup {None}
    /\ VisitOnce(g) /\ g.current \in DOMAIN g.window

\* No zoomed buffer has been merged or unmerged.
Untouched(g, h) == \A b \in g.open : g.active[b] = 2 => Mates(h, b) = Mates(g, b)

\* What left the hotlist has been displayed, or closed.
Seen(g, h) == \A b \in g.hotlist \ h.hotlist : b \notin h.open \/ b \in h.shown \/ Visible(h, b)

Kept(g, h) ==
    \A w \in DOMAIN g.window : w \in DOMAIN h.window /\ h.window[w] # g.window[w] =>
        g.window[w] \notin h.open \/ SameList(g, h)

Fine(g) == Sound(g) /\ Alive(g) /\ Core \in g.open /\ DOMAIN g.window \subseteq Window
Goes(g, h) == Fine(h) /\ Kept(g, h) /\ (Clean(g) /\ Untouched(g, h) => Clean(h) /\ Seen(g, h))

LEMMA ViewKept ==
    ASSUME NEW g \in Interface, Fine(g), NEW h, Sound(h), SameView(g, h), g.open \subseteq h.open,
           Clean(g) /\ Untouched(g, h) => Clean(h)
    PROVE  Goes(g, h)
<1>1. Alive(h)
  BY DEF Fine, Alive, SameView, VisitOnce
<1>2. Core \in h.open /\ DOMAIN h.window \subseteq Window
  BY DEF Fine, SameView
<1>3. Kept(g, h)
  BY DEF Kept, SameView
<1>4. Seen(g, h)
  BY DEF Seen, SameView
<1> QED BY <1>1, <1>2, <1>3, <1>4 DEF Goes, Fine

LEMMA RearrangedGoes ==
    ASSUME NEW g \in Interface, Fine(g), NEW h, Rearranged(g, h), Listed(h)
    PROVE  Goes(g, h)
<1>1. /\ h \in Interface /\ h.open = g.open /\ SameGroups(g, h, g.open) /\ SameLook(g, h)
      /\ SameView(g, h) /\ SameCount(g, h) /\ Outside(h)
  BY DEF Rearranged
<1>2. One(g) /\ CountsTrue(g)
  BY DEF Fine, Sound
<1>3. One(h) /\ (Mixed(g) => Mixed(h)) /\ (Marked(g) => Marked(h))
  BY <1>1, <1>2, RearrangedSound
<1>4. CountsTrue(h)
  BY <1>1, <1>2, RearrangedCount
<1>5. Sound(h) /\ (Clean(g) => Clean(h))
  BY <1>1, <1>3, <1>4 DEF Sound, Clean
<1> QED BY <1>1, <1>5, ViewKept

-----------------------------------------------------------------------------
(* A buffer is opened.                                                     *)

\* h is g with one more buffer, alone.
AddedTo(g, h, b) ==
    /\ Sound(h) /\ SameView(g, h) /\ h.open = g.open \cup {b} /\ Mates(h, b) = {b}
    /\ \A c \in g.open : Mates(h, c) = Mates(g, c) /\ h.active[c] = g.active[c]
    /\ h.active[b] = 1
    /\ Clean(g) => Clean(h)

LEMMA FreshAlone ==
    ASSUME NEW g \in Interface, Sound(g), NEW b \in Buffer \ g.open, NEW h, h = Fresh(g, b)
    PROVE  /\ Sound(h) /\ SameView(g, h) /\ h.open = g.open /\ h.before = g.before
           /\ \A c \in g.open : h.number[c] = g.number[c] /\ h.active[c] = g.active[c] /\ Mates(h, c) = Mates(g, c)
           /\ h.active[b] = 1 /\ h.zoomed[b] = FALSE /\ h.mixed_lines[b] = {} /\ h.lines[b] = "own"
           /\ h.num_displayed[b] = 0
           /\ Clean(g) => Clean(h)
<1>1. h \in Interface /\ SameView(g, h) /\ FreshIn(g, h, b)
  BY FreshIs
<1>a. /\ h.open = g.open /\ h.before = g.before
      /\ h.number[b] = 0 /\ h.active[b] = 1 /\ h.zoomed[b] = FALSE /\ h.mixed_lines[b] = {}
      /\ h.lines[b] = "own" /\ h.num_displayed[b] = 0
  BY <1>1 DEF FreshIn
<1>2. g.open \in SUBSET Buffer
  BY TypeFacts
<1>3. \A c \in g.open :
         /\ h.number[c] = g.number[c] /\ h.active[c] = g.active[c] /\ h.zoomed[c] = g.zoomed[c]
         /\ h.mixed_lines[c] = g.mixed_lines[c] /\ h.lines[c] = g.lines[c]
  BY <1>1, <1>2 DEF FreshIn
<1>4. \A c \in g.open : Mates(h, c) = Mates(g, c)
  BY <1>1, <1>a, <1>3 DEF Mates, Group
<1>5. \A c \in g.open : Merged(h, c) = Merged(g, c) /\ Displays(h, c) = Displays(g, c)
  BY <1>1, <1>a, <1>4 DEF Merged, Others, Displays, SameView
<1>6. Listed(h)
  <2>1. Listed(g)
    BY DEF Sound
  <2>2. LinkedOn(h, h.open)
    BY <2>1, <1>a DEF Listed, LinkedOn
  <2>3. Sorted(h)
    BY <2>1, <1>1, <1>a, <1>3 DEF Listed, LinkedOn, Sorted
  <2>4. Positive(h)
    BY <2>1, <1>1, <1>a, <1>3 DEF Listed, Positive
  <2>5. auto_renumber => Dense(h)
    BY <2>1, <1>1, <1>a, <1>3 DEF Listed, Dense
  <2> QED BY <2>2, <2>3, <2>4, <2>5 DEF Listed
<1>7. Outside(h) /\ One(h)
  BY <1>1, <1>a, <1>3 DEF Sound, Outside, One
<1>8. CountsTrue(h)
  <2> SUFFICES ASSUME NEW c \in Buffer
               PROVE  h.num_displayed[c] =
                         IF c \in h.open /\ (~h.zoomed[c] \/ h.active[c] = 2) THEN Cardinality(Displays(h, c)) ELSE 0
    BY DEF CountsTrue
  <2>1. CASE c = b
    BY <2>1, <1>a
  <2>2. CASE c # b
    BY <2>2, <1>1, <1>a, <1>5 DEF Sound, CountsTrue, FreshIn
  <2> QED BY <2>1, <2>2
<1>9. Clean(g) => Clean(h)
  BY <1>1, <1>a, <1>3, <1>4, <1>5 DEF Clean, Mixed, Marked
<1> QED BY <1>1, <1>a, <1>3, <1>4, <1>6, <1>7, <1>8, <1>9 DEF Sound

LEMMA InsertedAlone ==
    ASSUME NEW g \in Interface, Sound(g), \A w \in DOMAIN g.window : g.window[w] \in g.open,
           NEW b \in Buffer \ g.open, g.active[b] = 1, g.zoomed[b] = FALSE, g.mixed_lines[b] = {},
           g.lines[b] = "own", g.num_displayed[b] = 0,
           NEW n, NEW m, InsertNumber(g, n, m), NEW h, h = Insert(g, {b}, n, m)
    PROVE  AddedTo(g, h, b)
<1>0. g.open \in SUBSET Buffer /\ Listed(g) /\ Outside(g) /\ One(g) /\ CountsTrue(g)
  BY TypeFacts DEF Sound
<1>1. LinkedOn(g, {b}) /\ {b} \in SUBSET (Buffer \ g.open) /\ {b} # {}
  <2>1. g.before[b] = {}
    BY <1>0 DEF Outside
  <2> QED BY <2>1 DEF LinkedOn
<1>2. /\ h \in Interface /\ Listed(h) /\ InsertedIn(g, h, {b})
      /\ SameLook(g, h) /\ SameView(g, h) /\ SameCount(g, h)
  BY <1>0, <1>1, InsertIs
<1>3. /\ h.open = g.open \cup {b}
      /\ \A c, d \in g.open : h.number[c] = h.number[d] <=> g.number[c] = g.number[d]
      /\ \A c \in h.open : h.number[c] = h.number[b] <=> c = b
      /\ \A c \in Buffer \ h.open : h.before[c] = g.before[c]
  BY <1>2 DEF InsertedIn, SameGroups
<1>4. Mates(h, b) = {b}
  BY <1>3 DEF Mates, Group
<1>5. \A c \in g.open : Mates(h, c) = Mates(g, c)
  <2> TAKE c \in g.open
  <2>1. h.number[c] # h.number[b]
    BY <1>3
  <2> QED BY <2>1, <1>3 DEF Mates, Group
<1>6. /\ h.active = g.active /\ h.zoomed = g.zoomed /\ h.mixed_lines = g.mixed_lines
      /\ h.lines = g.lines /\ h.num_displayed = g.num_displayed
  BY <1>2 DEF SameLook, SameCount
<1>7. Outside(h)
  BY <1>0, <1>3 DEF Outside
<1>a. h.active[b] = 1 /\ h.zoomed[b] = FALSE /\ \A c \in g.open : h.active[c] = g.active[c]
  BY <1>6
<1>b. \A c \in h.open : c = b \/ c \in g.open
  BY <1>3
<1>c. \A c \in h.open : h.number[c] = h.number[b] => c = b
  BY <1>3, Zenon
<1>d. \A c \in h.open : h.number[b] = h.number[c] => c = b
  BY <1>c, Zenon
<1>8. One(h)
  <2>1. ASSUME NEW c \in h.open PROVE \E d \in h.open : h.number[d] = h.number[c] /\ h.active[d] # 0
    <3>1. CASE c = b
      BY <3>1, <1>a
    <3>2. CASE c \in g.open
      <4>1. PICK d \in g.open : g.number[d] = g.number[c] /\ g.active[d] # 0
        BY <3>2, <1>0 DEF One
      <4> QED BY <3>2, <4>1, <1>3, <1>a
    <3> QED BY <3>1, <3>2, <1>b
  <2>2. ASSUME NEW c \in h.open, NEW d \in h.open, h.number[d] = h.number[c], h.active[c] # 0, h.active[d] # 0
        PROVE  c = d
    <3>1. CASE c = b \/ d = b
      BY <3>1, <2>2, <1>c, <1>d, Zenon
    <3>2. CASE c \in g.open /\ d \in g.open
      <4>1. g.number[d] = g.number[c] /\ g.active[c] # 0 /\ g.active[d] # 0
        BY <3>2, <2>2, <1>3, <1>a
      <4> QED BY <3>2, <4>1, <1>0 DEF One
    <3> QED BY <3>1, <3>2, <1>b
  <2>3. ASSUME NEW c \in h.open, h.active[c] = 2 PROVE \E d \in h.open : d # c /\ h.number[d] = h.number[c]
    <3>1. c \in g.open /\ g.active[c] = 2
      BY <2>3, <1>a, <1>b
    <3>2. PICK d \in g.open : d # c /\ g.number[d] = g.number[c]
      BY <3>1, <1>0 DEF One
    <3>3. h.number[d] = h.number[c]
      BY <3>1, <3>2, <1>3, Zenon
    <3> QED BY <3>2, <3>3, <1>3
  <2> QED BY <2>1, <2>2, <2>3 DEF One
<1>9. CountsTrue(h)
  <2> SUFFICES ASSUME NEW c \in Buffer
               PROVE  h.num_displayed[c] =
                         IF c \in h.open /\ (~h.zoomed[c] \/ h.active[c] = 2) THEN Cardinality(Displays(h, c)) ELSE 0
    BY DEF CountsTrue
  <2>1. CASE c = b
    <3>1. Displays(h, c) = {}
      BY <2>1, <1>2, <1>4 DEF Displays, SameView
    <3> QED BY <2>1, <3>1, <1>6, FS_EmptySet
  <2>2. CASE c \in g.open
    <3>1. Displays(h, c) = Displays(g, c)
      BY <2>2, <1>2, <1>5 DEF Displays, SameView
    <3>2. g.num_displayed[c] =
             IF c \in g.open /\ (~g.zoomed[c] \/ g.active[c] = 2) THEN Cardinality(Displays(g, c)) ELSE 0
      BY <1>0 DEF CountsTrue
    <3> QED BY <2>2, <3>1, <3>2, <1>3, <1>6
  <2>3. CASE c \notin h.open
    <3>1. c \notin g.open
      BY <2>3, <1>3
    <3>2. g.num_displayed[c] =
             IF c \in g.open /\ (~g.zoomed[c] \/ g.active[c] = 2) THEN Cardinality(Displays(g, c)) ELSE 0
      BY <1>0 DEF CountsTrue
    <3> QED BY <2>3, <3>1, <3>2, <1>6
  <2> QED BY <2>1, <2>2, <2>3, <1>3
<1>10. ASSUME Clean(g) PROVE Clean(h)
  <2>1. \A c \in g.open : Merged(h, c) = Merged(g, c)
    BY <1>5 DEF Merged, Others
  <2>2. ~Merged(h, b)
    BY <1>4 DEF Merged, Others
  <2>3. Mixed(h)
    BY <1>10, <2>1, <2>2, <1>3, <1>5, <1>6 DEF Clean, Mixed
  <2>4. Marked(h)
    <3> SUFFICES ASSUME NEW c \in h.open
                 PROVE  h.zoomed[c] <=> \E d \in h.open : h.number[d] = h.number[c] /\ h.active[d] = 2
      BY DEF Marked
    <3>1. CASE c = b
      <4>1. ~h.zoomed[c]
        BY <3>1, <1>a
      <4>2. \A d \in h.open : h.number[d] = h.number[c] => h.active[d] = 1
        BY <3>1, <1>a, <1>c, Zenon
      <4>3. \A d \in h.open : h.number[d] = h.number[c] => h.active[d] # 2
        BY <4>2
      <4> QED BY <4>1, <4>3
    <3>2. CASE c \in g.open
      <4>1. h.zoomed[c] = g.zoomed[c]
        BY <1>6
      <4>2. g.zoomed[c] <=> \E d \in g.open : g.number[d] = g.number[c] /\ g.active[d] = 2
        BY <3>2, <1>10 DEF Clean, Marked
      <4>3. \A d \in h.open : h.number[d] = h.number[c] /\ h.active[d] = 2 =>
               d \in g.open /\ g.number[d] = g.number[c] /\ g.active[d] = 2
        BY <3>2, <1>3, <1>a, <1>b
      <4>4. \A d \in g.open : g.number[d] = g.number[c] /\ g.active[d] = 2 =>
               d \in h.open /\ h.number[d] = h.number[c] /\ h.active[d] = 2
        BY <3>2, <1>3, <1>a
      <4> QED BY <4>1, <4>2, <4>3, <4>4
    <3> QED BY <3>1, <3>2, <1>3
  <2> QED BY <2>3, <2>4 DEF Clean
<1> QED BY <1>2, <1>3, <1>4, <1>5, <1>6, <1>7, <1>8, <1>9, <1>10 DEF AddedTo, Sound

LEMMA InsertedAtIs ==
    ASSUME NEW g \in Interface, Listed(g), NEW b \in Buffer \ g.open, NEW p \in g.open, NEW number \in Int,
           NumberBefore(g, p) < number, number <= g.number[p]
    PROVE  InsertedAt(g, b, p, number) = Insert(g, {b}, number, number) /\ InsertNumber(g, number, number)
<1> DEFINE front == {c \in g.open : \A d \in g.before[c] \cup {c} : g.number[d] < number}
<1>0. /\ g.open \in SUBSET Buffer /\ \A c \in g.open : g.number[c] \in Int /\ g.number[c] >= 1
      /\ LinkedOn(g, g.open) /\ \A c \in g.open : \A d \in g.before[c] : g.number[d] <= g.number[c]
  BY TypeFacts DEF Listed, Positive, Sorted
<1>1. NumberBefore(g, p) \in Int /\ NumberBefore(g, p) >= 0
      /\ \A c \in g.before[p] : g.number[c] <= NumberBefore(g, p)
  <2>1. CASE g.before[p] = {}
    BY <2>1 DEF NumberBefore
  <2>2. CASE g.before[p] # {}
    <3>1. Prev(g, p) \in g.before[p] /\ \A c \in g.before[p] : c = Prev(g, p) \/ c \in g.before[Prev(g, p)]
      BY <2>2, <1>0, PrevIs
    <3>2. Prev(g, p) \in g.open
      BY <3>1, <1>0 DEF LinkedOn
    <3>3. NumberBefore(g, p) = g.number[Prev(g, p)]
      BY <2>2 DEF NumberBefore
    <3>4. \A c \in g.before[p] : g.number[c] <= g.number[Prev(g, p)]
      BY <3>1, <3>2, <1>0
    <3> QED BY <3>2, <3>3, <3>4, <1>0
  <2> QED BY <2>1, <2>2
<1>2. \A c \in front : c \in g.before[p]
  <2> SUFFICES ASSUME NEW c \in front, c \notin g.before[p] PROVE FALSE
    OBVIOUS
  <2>1. p \in g.before[c] \cup {c}
    BY <1>0 DEF LinkedOn
  <2>2. g.number[p] < number
    BY <2>1
  <2> QED BY <2>2, <1>0
<1>3. \A c \in g.before[p] : c \in front
  <2> SUFFICES ASSUME NEW c \in g.before[p] PROVE c \in front
    OBVIOUS
  <2>1. c \in g.open /\ g.before[c] \subseteq g.before[p]
    BY <1>0 DEF LinkedOn
  <2>2. ASSUME NEW d \in g.before[c] \cup {c} PROVE g.number[d] < number
    <3>1. d \in g.before[p] /\ d \in g.open
      BY <2>1, <1>0 DEF LinkedOn
    <3> QED BY <3>1, <1>0, <1>1
  <2> QED BY <2>1, <2>2
<1>4. front = g.before[p]
  BY <1>2, <1>3
<1>5. p \notin front /\ front # g.open /\ FirstOf(g, g.open \ front) = p
  <2>1. p \notin g.before[p]
    BY <1>0 DEF LinkedOn
  <2>2. g.open \ front \in SUBSET g.open /\ g.open \ front # {} /\ p \in g.open \ front
    BY <2>1, <1>4
  <2> HIDE DEF front
  <2>3. /\ FirstOf(g, g.open \ front) \in g.open \ front
        /\ \A c \in g.open \ front : c = FirstOf(g, g.open \ front) \/ FirstOf(g, g.open \ front) \in g.before[c]
    BY <2>2, <1>0, FirstOfIs
  <2> QED BY <2>1, <2>2, <2>3, <1>4
<1>6. Insert(g, {b}, number, number) =
         IF front # g.open /\ g.number[FirstOf(g, g.open \ front)] = number
         THEN ShiftNumbers(Placed(g, {b}, front, number), FirstOf(g, g.open \ front))
         ELSE Placed(g, {b}, front, number)
  BY DEF Insert
<1> HIDE DEF front
<1>7. Insert(g, {b}, number, number) = InsertedAt(g, b, p, number)
  BY <1>4, <1>5, <1>6 DEF InsertedAt
<1>8. InsertNumber(g, number, number)
  BY <1>0, <1>1 DEF InsertNumber
<1> QED BY <1>7, <1>8

LEMMA InsertedLastIs ==
    ASSUME NEW g \in Interface, Listed(g), g.open # {}, NEW b \in Buffer \ g.open
    PROVE  \E n, m : InsertedLast(g, b) = Insert(g, {b}, n, m) /\ InsertNumber(g, n, m)
<1> DEFINE last == LastNumber(g)
           n == last + 1
           m == IF ~auto_renumber /\ Layout[b] > last THEN Layout[b] ELSE last + 1
           front == {c \in g.open : \A d \in g.before[c] \cup {c} : g.number[d] < n}
<1>0. /\ g.open \in SUBSET Buffer /\ \A c \in g.open : g.number[c] \in Int /\ g.number[c] >= 1
      /\ LinkedOn(g, g.open) /\ Layout[b] \in Nat
  BY TypeFacts, GuiAssumption DEF Listed, Positive
<1>1. /\ last \in Int /\ last >= 1 /\ \A c \in g.open : g.number[c] <= last
      /\ \E c \in g.open : g.number[c] = last
  BY LastNumberIs
<1>2. front = g.open
  <2> SUFFICES ASSUME NEW c \in g.open, NEW d \in g.before[c] \cup {c} PROVE g.number[d] < n
    OBVIOUS
  <2>1. d \in g.open
    BY <1>0 DEF LinkedOn
  <2> QED BY <2>1, <1>0, <1>1
<1>3. Insert(g, {b}, n, m) = Placed(g, {b}, g.open, m)
  <2>1. Insert(g, {b}, n, m) =
         IF front # g.open /\ g.number[FirstOf(g, g.open \ front)] = m
         THEN ShiftNumbers(Placed(g, {b}, front, m), FirstOf(g, g.open \ front))
         ELSE Placed(g, {b}, front, m)
    BY DEF Insert
  <2> HIDE DEF front, m, n
  <2> QED BY <2>1, <1>2
<1>4. InsertedLast(g, b) = Placed(g, {b}, g.open, m)
  BY DEF InsertedLast
<1>5. m \in Int /\ m >= 1 /\ m > last /\ (auto_renumber => m = last + 1) /\ n \in Int /\ n >= 1 /\ n > last
  BY <1>0, <1>1
<1> HIDE DEF last, n, m, front
<1>6. InsertNumber(g, n, m)
  <2>1. ~ \E c \in g.open : g.number[c] >= n
    BY <1>0, <1>1, <1>5
  <2>2. \A c \in g.open : g.number[c] < m
    BY <1>0, <1>1, <1>5
  <2>3. auto_renumber => \E c \in g.open : g.number[c] = m - 1
    BY <1>1, <1>5
  <2> QED BY <1>5, <2>1, <2>2, <2>3 DEF InsertNumber
<1> QED BY <1>3, <1>4, <1>6

LEMMA AddedGoes ==
    ASSUME NEW g \in Interface, Fine(g), NEW b, NEW h, AddedTo(g, h, b)
    PROVE  Goes(g, h) /\ h.open = g.open \cup {b}
BY ViewKept DEF AddedTo

LEMMA AddedMergedGoes ==
    ASSUME NEW g \in Interface, Fine(g), NEW b \in Buffer \ g.open, NEW k, AddedTo(g, k, b),
           NEW x \in k.open, NEW y \in k.open, x # y, b \in {x, y}, NEW h, h = Merge(k, x, y)
    PROVE  Goes(g, h) /\ h.open = g.open \cup {b}
<1>0. /\ Sound(k) /\ SameView(g, k) /\ k.open = g.open \cup {b} /\ Mates(k, b) = {b}
      /\ \A c \in g.open : Mates(k, c) = Mates(g, c) /\ k.active[c] = g.active[c]
      /\ k.active[b] = 1
      /\ Clean(g) => Clean(k)
  BY DEF AddedTo
<1>1. k \in Interface /\ Listed(k) /\ Outside(k) /\ One(k)
  BY <1>0 DEF Sound
<1>2. k.number[x] # k.number[y]
  <2>1. \A c \in k.open : k.number[c] = k.number[b] => c = b
    BY <1>0 DEF Mates, Group
  <2> QED BY <2>1
<1>3. /\ h \in Interface /\ Listed(h) /\ Outside(h) /\ MergedInto(k, h, x, y)
      /\ One(h) /\ CountsTrue(h) /\ SameView(k, h)
      /\ (Mixed(k) /\ Marked(k) /\ \A c \in Mates(k, x) \cup Mates(k, y) : k.active[c] # 2)
            => Mixed(h) /\ Marked(h)
  BY <1>1, <1>2, MergeIs
<1>4. h.open = g.open \cup {b} /\ SameView(g, h)
  BY <1>0, <1>3 DEF MergedInto, SameView
<1>5. ASSUME Clean(g), Untouched(g, h) PROVE Clean(h)
  <2>1. ASSUME NEW c \in Mates(k, x) \cup Mates(k, y) PROVE k.active[c] # 2
    <3>1. CASE c = b
      BY <3>1, <1>0
    <3>2. CASE c # b
      <4>1. c \in g.open
        BY <2>1, <3>2, <1>0 DEF Mates, Group
      <4>2. b \in Mates(h, c)
        <5>1. Mates(h, c) = Mates(k, x) \cup Mates(k, y)
          BY <2>1, <1>3 DEF MergedInto
        <5> QED BY <5>1, <1>0
      <4>3. b \notin Mates(g, c)
        BY DEF Mates, Group
      <4>4. g.active[c] # 2
        BY <4>1, <4>2, <4>3, <1>5 DEF Untouched
      <4> QED BY <4>1, <4>4, <1>0
    <3> QED BY <3>1, <3>2
  <2> QED BY <2>1, <1>0, <1>3, <1>5 DEF Clean
<1>6. Sound(h)
  BY <1>3 DEF Sound
<1> QED BY <1>4, <1>5, <1>6, ViewKept

LEMMA InsertBufferGoes ==
    ASSUME NEW g \in Interface, Fine(g), NEW b \in Buffer \ g.open, NEW h, h = InsertBuffer(g, b)
    PROVE  Goes(g, h) /\ h.open = g.open \cup {b}
<1> DEFINE g1 == Fresh(g, b)
           n == Layout[b]
           like(set) == {c \in set : n > 0 /\ Layout[c] = n}
           found == FindPos(g, b)
           gap == IF found = None /\ n = 0 /\ FirstGap THEN GapPos(g) ELSE None
           p == IF found = None THEN gap ELSE found
           number == IF found = None THEN NumberBefore(g, p) + 1
                     ELSE IF ~auto_renumber /\ n > NumberBefore(g, p) /\ n < g.number[p] THEN n
                     ELSE g.number[p]
           at_end == InsertedLast(g1, b)
           placed == IF p = None THEN at_end ELSE InsertedAt(g1, b, p, number)
<1>0. /\ Sound(g) /\ Alive(g) /\ Core \in g.open /\ Listed(g) /\ LinkedOn(g, g.open)
      /\ g.open \in SUBSET Buffer /\ None \notin Buffer /\ n \in Nat
      /\ \A c \in g.open : g.number[c] \in Int /\ g.number[c] >= 1
      /\ \A c \in g.open : \A d \in g.before[c] : g.number[d] <= g.number[c]
  BY TypeFacts, GuiAssumption DEF Fine, Sound, Listed, Positive, Sorted, None
<1>1. /\ Sound(g1) /\ SameView(g, g1) /\ g1.open = g.open /\ g1.before = g.before
      /\ \A c \in g.open : g1.number[c] = g.number[c] /\ g1.active[c] = g.active[c] /\ Mates(g1, c) = Mates(g, c)
      /\ g1.active[b] = 1 /\ g1.zoomed[b] = FALSE /\ g1.mixed_lines[b] = {} /\ g1.lines[b] = "own"
      /\ g1.num_displayed[b] = 0
      /\ Clean(g) => Clean(g1)
  BY <1>0, FreshAlone
<1> HIDE DEF g1
<1>2. g1 \in Interface /\ Listed(g1) /\ \A w \in DOMAIN g1.window : g1.window[w] \in g1.open
  BY <1>0, <1>1 DEF Sound, Alive, SameView
<1>3. ASSUME NEW m, NEW q, InsertNumber(g1, m, q), NEW k, k = Insert(g1, {b}, m, q)
      PROVE  AddedTo(g, k, b)
  <2>1. AddedTo(g1, k, b)
    BY <1>1, <1>2, <1>3, InsertedAlone
  <2>2. /\ Sound(k) /\ SameView(g1, k) /\ k.open = g1.open \cup {b} /\ Mates(k, b) = {b}
        /\ \A c \in g1.open : Mates(k, c) = Mates(g1, c) /\ k.active[c] = g1.active[c]
        /\ k.active[b] = 1 /\ (Clean(g1) => Clean(k))
    BY <2>1 DEF AddedTo
  <2>3. \A c \in g.open : Mates(k, c) = Mates(g, c) /\ k.active[c] = g.active[c]
    BY <2>2, <1>1
  <2>4. SameView(g, k)
    BY <2>2, <1>1 DEF SameView
  <2> QED BY <2>2, <2>3, <2>4, <1>1 DEF AddedTo
<1>4. AddedTo(g, at_end, b)
  <2>1. g1.open # {} /\ b \in Buffer \ g1.open
    BY <1>0, <1>1
  <2>2. PICK m, q : InsertedLast(g1, b) = Insert(g1, {b}, m, q) /\ InsertNumber(g1, m, q)
    BY <2>1, <1>2, InsertedLastIs
  <2> QED BY <2>2, <1>3
<1>5. \A c \in g.open : /\ NumberBefore(g, c) \in Int /\ NumberBefore(g, c) >= 0 /\ NumberBefore(g, c) <= g.number[c]
                        /\ NumberBefore(g1, c) = NumberBefore(g, c)
  <2> TAKE c \in g.open
  <2>1. CASE g.before[c] = {}
    BY <2>1, <1>0, <1>1 DEF NumberBefore
  <2>2. CASE g.before[c] # {}
    <3>1. Prev(g, c) \in g.before[c]
      BY <2>2, <1>0, PrevIs
    <3>2. Prev(g, c) \in g.open
      BY <3>1, <1>0 DEF LinkedOn
    <3>3. NumberBefore(g, c) = g.number[Prev(g, c)]
      BY <2>2 DEF NumberBefore
    <3>4. Prev(g1, c) = Prev(g, c)
      BY <1>1 DEF Prev, LastOf
    <3>5. NumberBefore(g1, c) = g.number[Prev(g, c)]
      BY <2>2, <3>2, <3>4, <1>1 DEF NumberBefore
    <3> QED BY <3>1, <3>2, <3>3, <3>5, <1>0
  <2> QED BY <2>1, <2>2
<1>6. found # None => found \in g.open /\ NumberBefore(g, found) # g.number[found]
  <2> DEFINE fits == {c \in g.open : /\ Layout[c] < 1 \/ Layout[b] <= Layout[c]
                                     /\ NumberBefore(g, c) # g.number[c]}
  <2>1. fits \in SUBSET g.open /\ (found # None => fits # {} /\ found = FirstOf(g, fits))
    BY DEF FindPos
  <2>2. ASSUME found # None PROVE FirstOf(g, fits) \in fits
    <3>1. fits # {}
      BY <2>1, <2>2
    <3> HIDE DEF fits
    <3> QED BY <2>1, <3>1, <1>0, FirstOfIs
  <2> QED BY <2>1, <2>2
<1>7. gap # None => gap \in g.open /\ g.number[gap] > NumberBefore(g, gap) + 1
  <2> DEFINE gaps == {c \in g.open : g.number[c] > NumberBefore(g, c) + 1}
  <2>1. gaps \in SUBSET g.open /\ (GapPos(g) # None => gaps # {} /\ GapPos(g) = FirstOf(g, gaps))
    BY DEF GapPos
  <2>2. ASSUME GapPos(g) # None PROVE FirstOf(g, gaps) \in gaps
    <3>1. gaps # {}
      BY <2>1, <2>2
    <3> HIDE DEF gaps
    <3> QED BY <2>1, <3>1, <1>0, FirstOfIs
  <2> QED BY <2>1, <2>2
<1> HIDE DEF found, gap
<1>8. p # None => /\ p \in g.open /\ number \in Int
                  /\ NumberBefore(g, p) < number /\ number <= g.number[p]
  <2>1. CASE found = None
    BY <2>1, <1>0, <1>5, <1>7
  <2>2. CASE found # None
    <3>1. p = found /\ p \in g.open
      BY <2>2, <1>6
    <3>2. NumberBefore(g, p) < g.number[p]
      BY <3>1, <1>0, <1>5, <1>6, <2>2
    <3> QED BY <3>1, <3>2, <2>2, <1>0, <1>5
  <2> QED BY <2>1, <2>2
<1> HIDE DEF p, number, at_end
<1>9. AddedTo(g, placed, b)
  <2>1. CASE p = None
    BY <2>1, <1>4
  <2>2. CASE p # None
    <3>1. /\ p \in g1.open /\ b \in Buffer \ g1.open /\ number \in Int
          /\ NumberBefore(g1, p) < number /\ number <= g1.number[p]
      BY <2>2, <1>1, <1>5, <1>8
    <3>2. InsertedAt(g1, b, p, number) = Insert(g1, {b}, number, number) /\ InsertNumber(g1, number, number)
      BY <3>1, <1>2, InsertedAtIs
    <3> QED BY <2>2, <3>2, <1>3
  <2> QED BY <2>1, <2>2
<1> HIDE DEF placed
<1>10. /\ placed \in Interface /\ LinkedOn(placed, placed.open) /\ placed.open = g.open \cup {b}
       /\ placed.open \in SUBSET Buffer
       /\ at_end.open = g.open \cup {b}
  BY <1>4, <1>9, TypeFacts DEF AddedTo, Sound, Listed
<1>11. h = IF p # None /\ like({p}) # {} THEN Merge(at_end, b, p)
           ELSE IF p # None /\ like(Before(g, p)) # {} THEN Merge(at_end, b, Prev(g, p))
           ELSE IF like(Before(placed, b)) # {} THEN Merge(placed, b, Prev(placed, b))
           ELSE IF like(Next1(placed, b)) # {}
           THEN Merge(placed, FirstOf(placed, After(placed, b)), b)
           ELSE placed
  BY DEF InsertBuffer, found, gap, p, number, at_end, placed, g1
<1>12. CASE p # None /\ h = Merge(at_end, b, p)
  BY <1>4, <1>8, <1>10, <1>12, AddedMergedGoes
<1>13. CASE p # None /\ like(Before(g, p)) # {} /\ h = Merge(at_end, b, Prev(g, p))
  <2>1. PICK c \in Before(g, p) : TRUE
    BY <1>13
  <2>2. Prev(g, p) \in g.before[p]
    BY <2>1 DEF Before
  <2>3. Prev(g, p) \in g.open
    BY <2>2, <1>0, <1>8, <1>13 DEF LinkedOn
  <2>4. Prev(g, p) \in at_end.open /\ b \in at_end.open /\ b # Prev(g, p)
    BY <2>3, <1>10
  <2> QED BY <2>4, <1>4, <1>13, AddedMergedGoes
<1>14. CASE like(Before(placed, b)) # {} /\ h = Merge(placed, b, Prev(placed, b))
  <2>1. PICK c \in Before(placed, b) : TRUE
    BY <1>14
  <2>2. Prev(placed, b) \in placed.before[b]
    BY <2>1 DEF Before
  <2>3. Prev(placed, b) \in placed.open /\ b \in placed.open /\ Prev(placed, b) # b
    BY <2>2, <1>10 DEF LinkedOn
  <2> QED BY <2>3, <1>9, <1>14, AddedMergedGoes
<1>15. CASE like(Next1(placed, b)) # {} /\ h = Merge(placed, FirstOf(placed, After(placed, b)), b)
  <2>1. PICK c \in Next1(placed, b) : TRUE
    BY <1>15
  <2>2. FirstOf(placed, After(placed, b)) \in After(placed, b)
    BY <2>1 DEF Next1
  <2>3. /\ FirstOf(placed, After(placed, b)) \in placed.open /\ b \in placed.open
        /\ FirstOf(placed, After(placed, b)) # b
    BY <2>2, <1>10 DEF LinkedOn, After
  <2> QED BY <2>3, <1>9, <1>15, AddedMergedGoes
<1>16. CASE h = placed
  BY <1>9, <1>16, AddedGoes
<1> QED BY <1>11, <1>12, <1>13, <1>14, <1>15, <1>16

-----------------------------------------------------------------------------
(* The user goes to a buffer.                                              *)
Steady(g) ==
    /\ g \in Interface /\ Listed(g) /\ Outside(g) /\ One(g) /\ Alive(g)
    /\ Core \in g.open /\ DOMAIN g.window \subseteq Window

\* h is g once some windows have been switched to buffer b.
Switched(g, h, b) ==
    /\ Fine(h) /\ SameList(g, h) /\ h.active[b] # 0
    /\ h.current = g.current /\ DOMAIN h.window = DOMAIN g.window /\ h.initial_buffer = g.initial_buffer
    /\ \E w \in DOMAIN h.window : h.window[w] = b
    /\ h.hotlist \subseteq g.hotlist /\ g.shown \subseteq h.shown
    /\ \A c \in h.open : Visible(h, c) => c \in h.shown
    /\ Clean(g) => Clean(h) /\ \A c \in g.hotlist \ h.hotlist : c \in h.shown

Shows(g, h, windows, b) ==
    \A w \in DOMAIN g.window : h.window[w] = IF w \in windows THEN b ELSE g.window[w]

LEMMA DisplayedVisible ==
    ASSUME NEW h \in Interface, One(h), Marked(h), NEW b \in h.open, h.active[b] # 0,
           NEW w \in DOMAIN h.window, h.window[w] = b, NEW c \in h.open,
           c = b \/ (h.number[c] = h.number[b] /\ (~h.zoomed[c] \/ h.active[c] = 2))
    PROVE  Visible(h, c)
<1>1. w \in Displays(h, c)
  BY DEF Displays, Mates, Group
<1>2. ASSUME Zoomed(h, h.number[c]) PROVE h.active[c] = 2
  <2>1. PICK d \in h.open : h.number[d] = h.number[c] /\ h.active[d] = 2
    BY <1>2 DEF Zoomed, Group
  <2>2. CASE c = b
    <3>1. d = b
      BY <2>1, <2>2 DEF One
    <3> QED BY <2>1, <2>2, <3>1
  <2>3. CASE c # b
    <3>1. h.zoomed[c]
      BY <2>1 DEF Marked
    <3> QED BY <2>3, <3>1
  <2> QED BY <2>2, <2>3
<1> QED BY <1>1, <1>2 DEF Visible

LEMMA SwitchedIs ==
    ASSUME NEW g \in Interface, Steady(g), NEW windows \in SUBSET DOMAIN g.window, windows # {},
           NEW old \in g.open, NEW b \in g.open, NEW frozen \in BOOLEAN,
           NEW h, h = SwitchWindows(g, windows, old, b, frozen)
    PROVE  Switched(g, h, b) /\ Shows(g, h, windows, b)
<1>0. LinkedOn(g, g.open) /\ VisitOnce(g)
  BY DEF Steady, Listed, Alive
<1>1. /\ h \in Interface /\ SameList(g, h) /\ VisitOnce(h) /\ CountsTrue(h)
      /\ h.zoomed = g.zoomed /\ h.hidden = g.hidden /\ h.mixed_lines = g.mixed_lines
      /\ Activated(g, h, b)
      /\ DOMAIN h.window = DOMAIN g.window /\ h.current = g.current
      /\ \A w \in DOMAIN g.window : h.window[w] = IF w \in windows THEN b ELSE g.window[w]
      /\ \A i \in DOMAIN h.visited :
            h.visited[i] \in {old, b} \/ \E j \in DOMAIN g.visited : h.visited[i] = g.visited[j]
      /\ h.initial_buffer = g.initial_buffer /\ h.last_displayed \in {old, g.last_displayed}
      /\ h.hotlist \subseteq g.hotlist /\ g.shown \subseteq h.shown
      /\ \A c \in g.open : Visible(h, c) => c \in h.shown
      /\ \A c \in g.hotlist \ h.hotlist :
            c = b \/ (h.number[c] = h.number[b] /\ (~h.zoomed[c] \/ h.active[c] = 2))
  <2>1. SwitchedTo(g, h, windows, old, b)
    BY <1>0, SwitchIs
  <2> QED BY <2>1 DEF SwitchedTo
<1>2. One(g) /\ One(h) /\ h.active[b] # 0
  BY <1>1, ActivatedOne DEF Steady
<1>3. Listed(h) /\ Outside(h)
  BY <1>1 DEF Steady, SameList, Listed, LinkedOn, Sorted, Positive, Dense, Outside
<1>4. Alive(h)
  <2>1. \A w \in DOMAIN h.window : h.window[w] \in h.open
    BY <1>1 DEF Steady, Alive, SameList
  <2>2. \A i \in DOMAIN h.visited : h.visited[i] \in h.open
    BY <1>1 DEF Steady, Alive, SameList
  <2>3. /\ h.hotlist \subseteq h.open /\ h.initial_buffer \in h.open \cup {None}
        /\ h.last_displayed \in h.open \cup {None} /\ h.current \in DOMAIN h.window
    BY <1>1 DEF Steady, Alive, SameList
  <2> QED BY <2>1, <2>2, <2>3, <1>1 DEF Alive
<1>5. Fine(h)
  BY <1>1, <1>2, <1>3, <1>4 DEF Fine, Sound, Steady, SameList
<1>6. \E w \in DOMAIN h.window : h.window[w] = b
  BY <1>1
<1>7. ASSUME Clean(g)
      PROVE  Clean(h) /\ \A c \in g.hotlist \ h.hotlist : c \in h.shown
  <2>1. Clean(h)
    BY <1>1, <1>2, <1>7, ActivatedClean DEF Clean
  <2>2. ASSUME NEW c \in g.hotlist \ h.hotlist PROVE c \in h.shown
    <3>1. c \in g.open /\ c \in h.open /\ b \in h.open
      BY <1>1 DEF Steady, Alive, SameList
    <3>2. c = b \/ (h.number[c] = h.number[b] /\ (~h.zoomed[c] \/ h.active[c] = 2))
      BY <1>1
    <3>3. Marked(h)
      BY <2>1 DEF Clean
    <3>4. Visible(h, c)
      BY <1>1, <1>2, <1>6, <3>1, <3>2, <3>3, DisplayedVisible
    <3> QED BY <3>1, <3>4, <1>1
  <2> QED BY <2>1, <2>2
<1>8. Switched(g, h, b)
  <2>1. \A c \in h.open : Visible(h, c) => c \in h.shown
    BY <1>1 DEF SameList
  <2> QED BY <2>1, <1>1, <1>2, <1>5, <1>6, <1>7 DEF Switched
<1> QED BY <1>1, <1>8 DEF Shows

LEMMA SwitchedGoes ==
    ASSUME NEW g \in Interface, NEW k \in Interface, SameList(g, k), g.hotlist = k.hotlist,
           Clean(g) => Clean(k), NEW h, NEW b, Switched(k, h, b)
    PROVE  Goes(g, h)
<1>1. Fine(h) /\ SameList(g, h)
  BY DEF Switched, SameList
<1>2. Kept(g, h)
  BY <1>1 DEF Kept, SameList
<1>3. Clean(g) => Clean(h) /\ Seen(g, h)
  BY DEF Switched, Seen
<1> QED BY <1>1, <1>2, <1>3 DEF Goes

LEMMA FineSteady ==
    ASSUME NEW g \in Interface, Fine(g)
    PROVE  Steady(g)
BY DEF Fine, Sound, Steady

LEMMA SwitchByNumberIs ==
    ASSUME NEW g \in Interface, Steady(g), NEW w \in DOMAIN g.window, NEW number, NEW frozen \in BOOLEAN,
           NEW h, h = SwitchByNumber(g, w, number, frozen)
    PROVE  h = g \/ \E b \in g.open : Switched(g, h, b)
<1> DEFINE actives == {b \in Group(g, number) : g.active[b] # 0}
<1>1. CASE number = g.number[g.window[w]] \/ actives = {}
  BY <1>1 DEF SwitchByNumber
<1>2. CASE ~(number = g.number[g.window[w]] \/ actives = {})
  <2>1. h = SwitchWindows(g, {w}, g.window[w], FirstOf(g, actives), frozen)
    BY <1>2 DEF SwitchByNumber, SwitchToBuffer
  <2>2. actives \in SUBSET g.open /\ actives # {}
    BY <1>2 DEF Group
  <2> HIDE DEF actives
  <2>3. FirstOf(g, actives) \in g.open
    <3>1. LinkedOn(g, g.open) /\ g.open \in SUBSET Buffer
      BY TypeFacts DEF Steady, Listed
    <3>2. FirstOf(g, actives) \in actives
      BY <3>1, <2>2, FirstOfIs
    <3> QED BY <3>2, <2>2
  <2>4. g.window[w] \in g.open /\ {w} \in SUBSET DOMAIN g.window /\ {w} # {}
    BY DEF Steady, Alive
  <2>5. Switched(g, h, FirstOf(g, actives))
    BY <2>1, <2>3, <2>4, SwitchedIs
  <2> QED BY <2>3, <2>5
<1> QED BY <1>1, <1>2

\* The list, the look of the buffers and the windows tell the rest.
LEMMA SameSound ==
    ASSUME NEW g \in Interface, Sound(g), NEW h \in Interface, SameList(g, h),
           h.active = g.active, h.zoomed = g.zoomed, h.mixed_lines = g.mixed_lines, h.lines = g.lines,
           SameCount(g, h), h.window = g.window
    PROVE  /\ Sound(h) /\ (Clean(g) => Clean(h))
           /\ \A c \in g.open : Visible(h, c) = Visible(g, c)
<1>0. Listed(g) /\ Outside(g) /\ One(g) /\ CountsTrue(g)
  BY DEF Sound
<1>1. h.open = g.open /\ h.before = g.before /\ h.number = g.number
  BY DEF SameList
<1>2. /\ h.active = g.active /\ h.zoomed = g.zoomed /\ h.mixed_lines = g.mixed_lines
      /\ h.lines = g.lines
  OBVIOUS
<1>3. Listed(h) /\ Outside(h)
  BY <1>0, <1>1 DEF Listed, LinkedOn, Sorted, Positive, Dense, Outside
<1>4. One(h)
  BY <1>0, <1>1, <1>2 DEF One
<1>5. \A c : Displays(h, c) = Displays(g, c) /\ Mates(h, c) = Mates(g, c)
  BY <1>1 DEF Displays, Mates, Group
<1>6. CountsTrue(h)
  BY <1>0, <1>1, <1>2, <1>5 DEF CountsTrue, SameCount
<1>7. Clean(g) => Clean(h)
  <2>1. \A c : Merged(h, c) = Merged(g, c)
    BY <1>5 DEF Merged, Others
  <2>2. Mixed(g) => Mixed(h)
    BY <2>1, <1>1, <1>2, <1>5 DEF Mixed
  <2>3. Marked(g) => Marked(h)
    BY <1>1, <1>2 DEF Marked
  <2> QED BY <2>2, <2>3 DEF Clean
<1>8. \A c : Visible(h, c) = Visible(g, c)
  <2>1. \A n : Zoomed(h, n) = Zoomed(g, n)
    BY <1>1, <1>2 DEF Zoomed, Group
  <2> QED BY <2>1, <1>1, <1>2, <1>5 DEF Visible
<1> QED BY <1>3, <1>4, <1>6, <1>7, <1>8 DEF Sound

LEMMA HotlistSwitched ==
    ASSUME NEW g \in Interface, NEW b \in g.open, NEW k \in Interface, Switched(g, k, b), Steady(g),
           NEW h, h = HotlistRemove(k, b, FALSE)
    PROVE  Switched(g, h, b)
<1>0. /\ Fine(k) /\ SameList(g, k) /\ k.active[b] # 0
      /\ k.current = g.current /\ DOMAIN k.window = DOMAIN g.window /\ k.initial_buffer = g.initial_buffer
      /\ \E w \in DOMAIN k.window : k.window[w] = b
      /\ k.hotlist \subseteq g.hotlist /\ g.shown \subseteq k.shown
      /\ \A c \in k.open : Visible(k, c) => c \in k.shown
      /\ (Clean(g) => Clean(k) /\ \A c \in g.hotlist \ k.hotlist : c \in k.shown)
  BY DEF Switched
<1>1. b \in Buffer /\ b \in k.open
  BY <1>0, TypeFacts DEF SameList
<1>2. h \in Interface /\ SameList(k, h) /\ SameLook(k, h) /\ SameCount(k, h) /\ HotlistLess(k, h, b, FALSE)
  BY <1>1, HotlistIs
<1>a. /\ h.window = k.window /\ h.current = k.current
      /\ h.visited = k.visited /\ h.visited_index = k.visited_index
      /\ h.initial_buffer = k.initial_buffer
      /\ h.last_displayed = k.last_displayed /\ h.shown = k.shown
      /\ h.hotlist \subseteq k.hotlist
  BY <1>2 DEF HotlistLess
<1>3. Sound(k) /\ Alive(k) /\ Core \in k.open /\ DOMAIN k.window \subseteq Window
  BY <1>0 DEF Fine
<1>4. Sound(h) /\ (Clean(k) => Clean(h)) /\ \A c \in k.open : Visible(h, c) = Visible(k, c)
  BY <1>2, <1>3, <1>a, SameSound DEF SameLook
<1>5. Alive(h)
  BY <1>2, <1>3, <1>a DEF Alive, VisitOnce, SameList
<1>6. Fine(h) /\ SameList(g, h) /\ h.active[b] # 0
  BY <1>0, <1>2, <1>3, <1>4, <1>5, <1>a DEF Fine, SameList, SameLook
<1>7. \A c \in h.open : Visible(h, c) => c \in h.shown
  <2>1. h.open = k.open
    BY <1>2 DEF SameList
  <2> QED BY <2>1, <1>0, <1>4, <1>a
<1>8. ASSUME Clean(g) PROVE Clean(h) /\ \A c \in g.hotlist \ h.hotlist : c \in h.shown
  <2>1. Clean(h)
    BY <1>0, <1>4, <1>8
  <2>2. ASSUME NEW c \in k.hotlist \ h.hotlist PROVE c \in k.shown
    <3>1. c \in k.open
      BY <1>3 DEF Alive
    <3>2. PICK w \in DOMAIN k.window : k.window[w] = b
      BY <1>0
    <3>3. k \in Interface /\ One(k) /\ Marked(k)
      BY <1>0, <1>3, <1>8 DEF Sound, Clean
    <3>4. c = b \/ (k.number[c] = k.number[b] /\ (~k.zoomed[c] \/ k.active[c] = 2))
      BY <1>2 DEF HotlistLess
    <3>5. Visible(k, c)
      BY <1>0, <1>1, <3>1, <3>2, <3>3, <3>4, DisplayedVisible
    <3> QED BY <3>1, <3>5, <1>0
  <2>3. \A c \in g.hotlist \ h.hotlist : c \in h.shown
    BY <2>2, <1>0, <1>8, <1>a
  <2> QED BY <2>1, <2>3
<1> QED BY <1>0, <1>6, <1>7, <1>8, <1>a DEF Switched

\* A buffer gets the active one of its group.
LEMMA SetActiveSteady ==
    ASSUME NEW g \in Interface, Steady(g), NEW b \in g.open, NEW h, h = SetActive(g, b)
    PROVE  /\ Steady(h) /\ SameList(g, h) /\ SameView(g, h) /\ h.active[b] # 0
           /\ Clean(g) => Clean(h)
<1>0. LinkedOn(g, g.open) /\ One(g) /\ Listed(g) /\ Outside(g) /\ Alive(g)
  BY DEF Steady, Listed
<1>1. /\ h \in Interface /\ SameList(g, h) /\ SameView(g, h) /\ SameCount(g, h)
      /\ h.zoomed = g.zoomed /\ h.hidden = g.hidden /\ h.mixed_lines = g.mixed_lines
      /\ Activated(g, h, b)
  BY <1>0, SetActiveIs
<1>2. One(h) /\ h.active[b] # 0
  BY <1>0, <1>1, ActivatedOne
<1>3. Listed(h) /\ Outside(h)
  BY <1>0, <1>1 DEF SameList, Listed, LinkedOn, Sorted, Positive, Dense, Outside
<1>4. Alive(h)
  BY <1>0, <1>1 DEF Alive, VisitOnce, SameList, SameView
<1>5. Steady(h)
  BY <1>1, <1>2, <1>3, <1>4 DEF Steady, SameList, SameView
<1>6. Clean(g) => Clean(h)
  BY <1>0, <1>1, ActivatedClean DEF Clean
<1> QED BY <1>1, <1>2, <1>5, <1>6

SwitchedHere(g, h) == \E b \in g.open : Switched(g, h, b)

LEMMA SwitchToBufferIs ==
    ASSUME NEW g \in Interface, Steady(g), NEW w \in DOMAIN g.window, NEW b \in g.open, NEW frozen \in BOOLEAN,
           NEW h, h = SwitchToBuffer(g, w, b, frozen)
    PROVE  Switched(g, h, b)
<1>1. g.window[w] \in g.open /\ {w} \in SUBSET DOMAIN g.window /\ {w} # {}
  BY DEF Steady, Alive
<1> QED BY <1>1, SwitchedIs DEF SwitchToBuffer

LEMMA SwitchedTwice ==
    ASSUME NEW g \in Interface, NEW k \in Interface, NEW a, Switched(g, k, a), NEW h, NEW b, Switched(k, h, b)
    PROVE  Switched(g, h, b)
<1>1. /\ Fine(h) /\ SameList(g, h) /\ h.active[b] # 0
      /\ h.current = g.current /\ DOMAIN h.window = DOMAIN g.window /\ h.initial_buffer = g.initial_buffer
      /\ \E w \in DOMAIN h.window : h.window[w] = b
      /\ h.hotlist \subseteq g.hotlist /\ g.shown \subseteq h.shown
      /\ \A c \in h.open : Visible(h, c) => c \in h.shown
  BY DEF Switched, SameList
<1>2. ASSUME Clean(g) PROVE Clean(h) /\ \A c \in g.hotlist \ h.hotlist : c \in h.shown
  BY <1>2 DEF Switched
<1> QED BY <1>1, <1>2 DEF Switched

\* Other windows, and other places to go to.
Turned(g, window, current, visited_index, initial_buffer) ==
    [g EXCEPT !.window = window, !.current = current, !.visited_index = visited_index,
              !.initial_buffer = initial_buffer]

TurnedTo(g, h, window, current, visited_index, initial_buffer) ==
    /\ h \in Interface /\ SameList(g, h) /\ SameLook(g, h) /\ SameCount(g, h)
    /\ h.window = window /\ h.current = current /\ h.visited_index = visited_index
    /\ h.initial_buffer = initial_buffer
    /\ h.visited = g.visited /\ h.hotlist = g.hotlist /\ h.last_displayed = g.last_displayed
    /\ h.shown = g.shown

LEMMA TurnedIs ==
    ASSUME NEW g \in Interface, NEW window \in Seq(Buffer), NEW current \in Nat,
           NEW visited_index \in Int, NEW initial_buffer \in Buffer \cup {None},
           NEW h, h = Turned(g, window, current, visited_index, initial_buffer)
    PROVE  TurnedTo(g, h, window, current, visited_index, initial_buffer)
BY DEF Turned, TurnedTo, Interface, SameList, SameLook, SameCount

LEMMA TurnedSteady ==
    ASSUME NEW g \in Interface, Steady(g), NEW window \in Seq(Buffer),
           \A w \in DOMAIN window : window[w] \in g.open, DOMAIN window \subseteq Window,
           NEW current \in DOMAIN window, NEW visited_index \in -1 .. Len(g.visited) - 1,
           NEW initial_buffer \in g.open \cup {None},
           NEW h, h = Turned(g, window, current, visited_index, initial_buffer)
    PROVE  TurnedTo(g, h, window, current, visited_index, initial_buffer) /\ Steady(h) /\ (Clean(g) => Clean(h))
<1>0. Listed(g) /\ Outside(g) /\ One(g) /\ Alive(g) /\ Core \in g.open
  BY DEF Steady
<1>1. TurnedTo(g, h, window, current, visited_index, initial_buffer)
  <2>1. g.open \in SUBSET Buffer /\ g.visited \in Seq(Buffer)
    BY DEF Interface
  <2>2. current \in Nat /\ visited_index \in Int /\ initial_buffer \in Buffer \cup {None}
    BY <2>1
  <2> QED BY <2>2, TurnedIs
<1>2. /\ h \in Interface /\ SameList(g, h) /\ SameLook(g, h)
      /\ h.window = window /\ h.current = current /\ h.visited_index = visited_index
      /\ h.initial_buffer = initial_buffer
      /\ h.visited = g.visited /\ h.hotlist = g.hotlist /\ h.last_displayed = g.last_displayed
  BY <1>1 DEF TurnedTo
<1>3. h.open = g.open /\ h.before = g.before /\ h.number = g.number
  BY <1>2 DEF SameList
<1>4. /\ h.active = g.active /\ h.zoomed = g.zoomed /\ h.mixed_lines = g.mixed_lines
      /\ h.lines = g.lines
  BY <1>2 DEF SameLook
<1>5. Listed(h) /\ Outside(h)
  BY <1>0, <1>3 DEF Listed, LinkedOn, Sorted, Positive, Dense, Outside
<1>6. One(h)
  BY <1>0, <1>3, <1>4 DEF One
<1>7. Alive(h)
  BY <1>0, <1>2, <1>3 DEF Alive, VisitOnce
<1>8. Steady(h)
  BY <1>0, <1>2, <1>3, <1>5, <1>6, <1>7 DEF Steady
<1>9. Clean(g) => Clean(h)
  <2>1. \A c : Mates(h, c) = Mates(g, c)
    BY <1>3 DEF Mates, Group
  <2>2. \A c : Merged(h, c) = Merged(g, c)
    BY <2>1 DEF Merged, Others
  <2> QED BY <2>1, <2>2, <1>3, <1>4 DEF Clean, Mixed, Marked
<1> QED BY <1>1, <1>8, <1>9

LEMMA TurnedGoes ==
    ASSUME NEW g \in Interface, NEW k \in Interface, Goes(g, k), SameList(g, k),
           NEW visited_index \in -1 .. Len(k.visited) - 1, NEW initial_buffer \in k.open \cup {None},
           NEW h, h = Turned(k, k.window, k.current, visited_index, initial_buffer)
    PROVE  Goes(g, h)
<1>0. Fine(k) /\ (Clean(g) /\ Untouched(g, k) => Clean(k) /\ Seen(g, k))
  BY DEF Goes
<1>1. Sound(k) /\ Alive(k) /\ Core \in k.open /\ DOMAIN k.window \subseteq Window
  BY <1>0 DEF Fine
<1>2. /\ k.window \in Seq(Buffer) /\ \A w \in DOMAIN k.window : k.window[w] \in k.open
      /\ k.current \in DOMAIN k.window
  BY <1>1 DEF Alive, Interface
<1>3. /\ TurnedTo(k, h, k.window, k.current, visited_index, initial_buffer) /\ Steady(h)
      /\ Clean(k) => Clean(h)
  <2>1. Steady(k)
    BY <1>0, FineSteady
  <2> DEFINE window == k.window
             current == k.current
  <2>2. window \in Seq(Buffer) /\ current \in DOMAIN window /\ DOMAIN window \subseteq Window
        /\ \A w \in DOMAIN window : window[w] \in k.open
    BY <1>1, <1>2
  <2>3. h = Turned(k, window, current, visited_index, initial_buffer)
    OBVIOUS
  <2> HIDE DEF window, current
  <2>4. TurnedTo(k, h, window, current, visited_index, initial_buffer) /\ Steady(h) /\ (Clean(k) => Clean(h))
    BY <2>1, <2>2, <2>3, TurnedSteady
  <2> QED BY <2>4 DEF window, current
<1>4. /\ h \in Interface /\ SameList(k, h) /\ SameLook(k, h) /\ SameCount(k, h) /\ h.window = k.window
      /\ h.hotlist = k.hotlist /\ h.shown = k.shown
  BY <1>3 DEF TurnedTo
<1>5. Sound(h) /\ \A c \in k.open : Visible(h, c) = Visible(k, c)
  BY <1>1, <1>4, SameSound DEF SameLook
<1>6. Fine(h)
  BY <1>3, <1>5 DEF Fine, Steady
<1>7. SameList(g, h)
  BY <1>4 DEF SameList
<1>8. Untouched(g, k)
  BY DEF Untouched, SameList, Mates, Group
<1>9. Clean(g) => Clean(h) /\ Seen(g, h)
  BY <1>0, <1>3, <1>4, <1>5, <1>8 DEF Seen, SameList
<1> QED BY <1>6, <1>7, <1>9 DEF Goes, Kept, SameList

LEMMA GoesNowhere ==
    ASSUME NEW g \in Interface, Fine(g)
    PROVE  Goes(g, g) /\ SameList(g, g)
BY DEF Goes, Kept, Seen, SameList

LEMMA SwitchGoes ==
    ASSUME NEW g \in Interface, Fine(g), NEW w \in DOMAIN g.window, NEW b \in g.open, NEW frozen \in BOOLEAN,
           NEW h, h = SwitchToBuffer(g, w, b, frozen)
    PROVE  Goes(g, h)
<1>1. Switched(g, h, b)
  BY FineSteady, SwitchToBufferIs
<1>2. SameList(g, g)
  BY DEF SameList
<1> QED BY <1>1, <1>2, SwitchedGoes

LEMMA SwitchByNumberGoes ==
    ASSUME NEW g \in Interface, Fine(g), NEW w \in DOMAIN g.window, NEW number, NEW frozen \in BOOLEAN,
           NEW h, h = SwitchByNumber(g, w, number, frozen)
    PROVE  Goes(g, h)
<1>1. h = g \/ \E b \in g.open : Switched(g, h, b)
  BY FineSteady, SwitchByNumberIs
<1>2. Goes(g, g) /\ SameList(g, g)
  BY GoesNowhere
<1> QED BY <1>1, <1>2, SwitchedGoes

LEMMA JumpVisitedGoes ==
    ASSUME NEW g \in Interface, Fine(g), NEW index \in 0 .. Len(g.visited) - 1, NEW number,
           NEW h, h = SwitchByNumber([g EXCEPT !.visited_index = index], g.current, number, TRUE)
    PROVE  Goes(g, h)
<1> DEFINE k == Turned(g, g.window, g.current, index, g.initial_buffer)
<1>1. k = [g EXCEPT !.visited_index = index]
  BY DEF Turned, Interface
<1>2. Goes(g, g) /\ SameList(g, g) /\ Alive(g) /\ g.visited \in Seq(Buffer)
  BY GoesNowhere DEF Fine, Interface
<1>3. index \in -1 .. Len(g.visited) - 1 /\ g.initial_buffer \in g.open \cup {None}
  BY <1>2 DEF Alive
<1>4. Goes(g, k)
  BY <1>2, <1>3, TurnedGoes
<1>5. TurnedTo(g, k, g.window, g.current, index, g.initial_buffer) /\ (Clean(g) => Clean(k))
  <2>1. \A w \in DOMAIN g.window : g.window[w] \in g.open
    BY <1>2 DEF Alive
  <2>2. g.window \in Seq(Buffer) /\ DOMAIN g.window \subseteq Window /\ g.current \in DOMAIN g.window
    BY <1>2 DEF Fine, Alive, Interface
  <2> DEFINE window == g.window
             current == g.current
  <2>3. k = Turned(g, window, current, index, g.initial_buffer)
    OBVIOUS
  <2>4. window \in Seq(Buffer) /\ DOMAIN window \subseteq Window /\ current \in DOMAIN window
        /\ \A w \in DOMAIN window : window[w] \in g.open
    BY <2>1, <2>2
  <2> HIDE DEF window, current, k
  <2>5. TurnedTo(g, k, window, current, index, g.initial_buffer) /\ (Clean(g) => Clean(k))
    BY <1>3, <2>3, <2>4, FineSteady, TurnedSteady
  <2> QED BY <2>5 DEF window, current
<1> HIDE DEF k
<1>6. k \in Interface /\ SameList(g, k) /\ g.hotlist = k.hotlist /\ k.window = g.window /\ Fine(k)
  BY <1>4, <1>5 DEF TurnedTo, Goes
<1>7. g.current \in DOMAIN k.window
  BY <1>2, <1>6 DEF Alive
<1>8. h = k \/ \E b \in k.open : Switched(k, h, b)
  BY <1>1, <1>6, <1>7, FineSteady, SwitchByNumberIs
<1> QED BY <1>4, <1>5, <1>6, <1>8, SwitchedGoes

LEMMA SmartGoes ==
    ASSUME NEW g \in Interface, Fine(g), NEW b \in g.hotlist, NEW k,
           k = [g EXCEPT !.initial_buffer = IF @ = None THEN g.window[g.current] ELSE @],
           NEW h, h = HotlistRemove(SwitchToBuffer(k, g.current, b, FALSE), b, FALSE)
    PROVE  Goes(g, h)
<1> DEFINE first == IF g.initial_buffer = None THEN g.window[g.current] ELSE g.initial_buffer
           window == g.window
           current == g.current
           index == g.visited_index
           s == SwitchToBuffer(k, current, b, FALSE)
<1>1. k = Turned(g, window, current, index, first)
  BY DEF Turned, Interface
<1>2. Alive(g) /\ DOMAIN g.window \subseteq Window
  BY DEF Fine
<1>3. /\ window \in Seq(Buffer) /\ DOMAIN window \subseteq Window /\ current \in DOMAIN window
      /\ \A w \in DOMAIN window : window[w] \in g.open
      /\ index \in -1 .. Len(g.visited) - 1 /\ first \in g.open \cup {None} /\ b \in g.open
  BY <1>2 DEF Alive, VisitOnce, Interface
<1> HIDE DEF first, window, current, index
<1>4. TurnedTo(g, k, window, current, index, first) /\ Steady(k) /\ (Clean(g) => Clean(k))
  BY <1>1, <1>3, FineSteady, TurnedSteady
<1>5. /\ k \in Interface /\ SameList(g, k) /\ k.hotlist = g.hotlist /\ k.window = window /\ k.open = g.open
      /\ current \in DOMAIN k.window /\ b \in k.open
  BY <1>3, <1>4 DEF TurnedTo, SameList
<1>6. Switched(k, s, b)
  BY <1>4, <1>5, SwitchToBufferIs
<1>7. s \in Interface /\ h = HotlistRemove(s, b, FALSE)
  BY <1>6 DEF Switched, Fine, Sound, current
<1> HIDE DEF s
<1>8. Switched(k, h, b)
  BY <1>4, <1>5, <1>6, <1>7, HotlistSwitched
<1> QED BY <1>4, <1>5, <1>8, SwitchedGoes

LEMMA SmartBackGoes ==
    ASSUME NEW g \in Interface, Fine(g), g.initial_buffer # None,
           NEW h, h = [SwitchToBuffer(g, g.current, g.initial_buffer, FALSE) EXCEPT !.initial_buffer = None]
    PROVE  Goes(g, h)
<1> DEFINE b == g.initial_buffer
           k == SwitchToBuffer(g, g.current, b, FALSE)
<1>1. b \in g.open /\ g.current \in DOMAIN g.window
  BY DEF Fine, Alive
<1>2. Goes(g, k)
  BY <1>1, SwitchGoes
<1>3. Switched(g, k, b)
  BY <1>1, FineSteady, SwitchToBufferIs
<1> HIDE DEF k
<1>4. k \in Interface /\ SameList(g, k) /\ Alive(k)
  BY <1>3 DEF Switched, Fine, Sound
<1>5. h = Turned(k, k.window, k.current, k.visited_index, None)
  <2>1. h = [k EXCEPT !.initial_buffer = None]
    BY DEF k
  <2> QED BY <2>1, <1>4 DEF Turned, Interface
<1>6. k.visited_index \in -1 .. Len(k.visited) - 1
  BY <1>4 DEF Alive, VisitOnce
<1> QED BY <1>2, <1>4, <1>5, <1>6, TurnedGoes

LEMMA SwitchActiveGoes ==
    ASSUME NEW g \in Interface, Fine(g), NEW b \in g.open,
           NEW h, h = SwitchToBuffer(SetActive(g, b), g.current, b, FALSE)
    PROVE  Goes(g, h)
<1> DEFINE k == SetActive(g, b)
<1>1. Steady(k) /\ SameList(g, k) /\ SameView(g, k) /\ (Clean(g) => Clean(k))
  BY FineSteady, SetActiveSteady
<1> HIDE DEF k
<1>2. k \in Interface /\ b \in k.open /\ g.current \in DOMAIN k.window /\ g.hotlist = k.hotlist
  BY <1>1 DEF Steady, SameList, SameView, Alive
<1>3. h = SwitchToBuffer(k, g.current, b, FALSE)
  BY DEF k
<1>4. Switched(k, h, b)
  BY <1>1, <1>2, <1>3, SwitchToBufferIs
<1> QED BY <1>1, <1>2, <1>4, SwitchedGoes

-----------------------------------------------------------------------------
(* Windows.                                                                *)
LEMMA WindowGoes ==
    ASSUME NEW g \in Interface, Fine(g), NEW window \in Seq(Buffer),
           \A w \in DOMAIN window : window[w] \in g.open, DOMAIN window \subseteq Window,
           NEW current \in DOMAIN window, NEW b \in g.open,
           NEW k, k = [g EXCEPT !.window = window, !.current = current],
           NEW h, h = SwitchToBuffer(k, current, b, FALSE)
    PROVE  Goes(g, h)
<1> DEFINE index == g.visited_index
           first == g.initial_buffer
<1>1. k = Turned(g, window, current, index, first)
  BY DEF Turned, Interface
<1>2. index \in -1 .. Len(g.visited) - 1 /\ first \in g.open \cup {None}
  BY DEF Fine, Alive, VisitOnce
<1> HIDE DEF index, first
<1>3. TurnedTo(g, k, window, current, index, first) /\ Steady(k) /\ (Clean(g) => Clean(k))
  BY <1>1, <1>2, FineSteady, TurnedSteady
<1>4. /\ k \in Interface /\ SameList(g, k) /\ k.hotlist = g.hotlist /\ k.open = g.open
      /\ current \in DOMAIN k.window /\ b \in k.open
  BY <1>3 DEF TurnedTo, SameList
<1>5. Switched(k, h, b)
  BY <1>3, <1>4, SwitchToBufferIs
<1> QED BY <1>3, <1>4, <1>5, SwitchedGoes

\* h has the windows given, and the buffers of g.
Arranged(g, h, window) == DOMAIN h.window = DOMAIN window /\ h.open = g.open

LEMMA WindowArranged ==
    ASSUME NEW g \in Interface, Fine(g), NEW window \in Seq(Buffer),
           \A w \in DOMAIN window : window[w] \in g.open, DOMAIN window \subseteq Window,
           NEW current \in DOMAIN window, NEW b \in g.open,
           NEW k, k = [g EXCEPT !.window = window, !.current = current],
           NEW h, h = SwitchToBuffer(k, current, b, FALSE)
    PROVE  Arranged(g, h, window)
<1> DEFINE index == g.visited_index
           first == g.initial_buffer
<1>1. k = Turned(g, window, current, index, first)
  BY DEF Turned, Interface
<1>2. index \in -1 .. Len(g.visited) - 1 /\ first \in g.open \cup {None}
  BY DEF Fine, Alive, VisitOnce
<1> HIDE DEF index, first
<1>3. TurnedTo(g, k, window, current, index, first) /\ Steady(k) /\ (Clean(g) => Clean(k))
  BY <1>1, <1>2, FineSteady, TurnedSteady
<1>4. /\ k \in Interface /\ SameList(g, k) /\ k.hotlist = g.hotlist /\ k.open = g.open
      /\ current \in DOMAIN k.window /\ b \in k.open
  BY <1>3 DEF TurnedTo, SameList
<1>5. Switched(k, h, b)
  BY <1>3, <1>4, SwitchToBufferIs
<1> QED BY <1>3, <1>4, <1>5 DEF Switched, SameList, TurnedTo, Arranged

LEMMA WindowSplitGoes ==
    ASSUME NEW g \in Interface, Fine(g), NEW w, w = Len(g.window) + 1, w \in Window,
           NEW here, here = g.window[g.current],
           NEW h, h = SwitchToBuffer([g EXCEPT !.window = Append(@, here), !.current = w], w, here, FALSE)
    PROVE  Goes(g, h)
<1> DEFINE window == Append(g.window, here)
           k == [g EXCEPT !.window = window, !.current = w]
<1>1. /\ here \in g.open /\ \A v \in DOMAIN g.window : g.window[v] \in g.open
      /\ DOMAIN g.window \subseteq Window
  BY DEF Fine, Alive
<1>2. g.window \in Seq(Buffer) /\ Len(g.window) \in Nat /\ DOMAIN g.window = 1 .. Len(g.window) /\ here \in Buffer
  BY <1>1 DEF Interface
<1>3. /\ window \in Seq(Buffer) /\ DOMAIN window = 1 .. Len(g.window) + 1
      /\ \A v \in DOMAIN window : window[v] = IF v = Len(g.window) + 1 THEN here ELSE g.window[v]
  BY <1>2
<1>4. /\ \A v \in DOMAIN window : window[v] \in g.open
      /\ DOMAIN window \subseteq Window /\ w \in DOMAIN window
  <2>1. \A v \in DOMAIN window : v = w \/ v \in DOMAIN g.window
    BY <1>2, <1>3
  <2> QED BY <2>1, <1>1, <1>2, <1>3
<1>5. k = [g EXCEPT !.window = Append(@, here), !.current = w]
  BY DEF Interface
<1>6. h = SwitchToBuffer(k, w, here, FALSE)
  BY <1>5
<1> HIDE DEF window
<1>7. /\ window \in Seq(Buffer) /\ here \in g.open /\ w \in DOMAIN window /\ DOMAIN window \subseteq Window
      /\ \A v \in DOMAIN window : window[v] \in g.open
  BY <1>1, <1>3, <1>4
<1>8. PICK current \in DOMAIN window : current = w
  BY <1>7
<1>9. h = SwitchToBuffer([g EXCEPT !.window = window, !.current = current], current, here, FALSE)
  BY <1>6, <1>8
<1> QED BY <1>7, <1>9, WindowGoes

LEMMA WindowSwitchGoes ==
    ASSUME NEW g \in Interface, Fine(g), NEW w \in DOMAIN g.window,
           NEW h, h = SwitchToBuffer([g EXCEPT !.current = w], w, g.window[w], FALSE)
    PROVE  Goes(g, h)
<1> DEFINE window == g.window
           k == [g EXCEPT !.window = window, !.current = w]
<1>1. /\ window[w] \in g.open /\ \A v \in DOMAIN window : window[v] \in g.open
      /\ DOMAIN window \subseteq Window /\ w \in DOMAIN window /\ window \in Seq(Buffer)
  BY DEF Fine, Alive, Interface
<1>2. k = [g EXCEPT !.current = w]
  BY DEF Interface
<1>3. h = SwitchToBuffer(k, w, window[w], FALSE)
  BY <1>2
<1> HIDE DEF window
<1> QED BY <1>1, <1>3, WindowGoes

LEMMA WindowMergeGoes ==
    ASSUME NEW g \in Interface, Fine(g), NEW here, here = g.window[g.current],
           NEW h, h = SwitchToBuffer([g EXCEPT !.window = <<here>>, !.current = 1], 1, here, FALSE)
    PROVE  Goes(g, h)
<1> DEFINE window == <<here>>
<1>1. here \in g.open /\ here \in Buffer
  BY TypeFacts DEF Fine, Alive
<1>2. /\ window \in Seq(Buffer) /\ DOMAIN window = {1} /\ \A v \in DOMAIN window : window[v] \in g.open
      /\ DOMAIN window \subseteq Window
  BY <1>1, GuiAssumption
<1> HIDE DEF window
<1>3. PICK one \in DOMAIN window : one = 1
  BY <1>2
<1>4. h = SwitchToBuffer([g EXCEPT !.window = window, !.current = one], one, here, FALSE)
  BY <1>3 DEF window
<1> QED BY <1>1, <1>2, <1>4, WindowGoes

LEMMA WindowSwapGoes ==
    ASSUME NEW g \in Interface, Fine(g), NEW w \in DOMAIN g.window, NEW here, here = g.window[g.current],
           NEW h, h = SwitchToBuffer(SwitchToBuffer(g, g.current, g.window[w], FALSE), w, here, FALSE)
    PROVE  Goes(g, h)
<1> DEFINE b == g.window[w]
           k == SwitchToBuffer(g, g.current, b, FALSE)
<1>1. b \in g.open /\ here \in g.open /\ g.current \in DOMAIN g.window
  BY DEF Fine, Alive
<1>2. Switched(g, k, b)
  BY <1>1, FineSteady, SwitchToBufferIs
<1>3. h = SwitchToBuffer(k, w, here, FALSE)
  OBVIOUS
<1> HIDE DEF k
<1>4. k \in Interface /\ Fine(k) /\ w \in DOMAIN k.window /\ here \in k.open
  BY <1>1, <1>2 DEF Switched, SameList, Fine, Sound
<1>5. Switched(k, h, here)
  BY <1>3, <1>4, FineSteady, SwitchToBufferIs
<1>6. Switched(g, h, here) /\ SameList(g, g)
  BY <1>2, <1>4, <1>5, SwitchedTwice DEF SameList
<1> QED BY <1>6, SwitchedGoes

-----------------------------------------------------------------------------
(* A buffer is hidden or zoomed.                                           *)
LEMMA HideGoes ==
    ASSUME NEW g \in Interface, Fine(g), NEW b \in g.open,
           NEW h, h = [g EXCEPT !.hidden = [@ EXCEPT ![b] = ~g.hidden[b]]]
    PROVE  Goes(g, h)
<1> DEFINE hidden == [g.hidden EXCEPT ![b] = ~g.hidden[b]]
<1>1. hidden \in [Buffer -> BOOLEAN]
  <2>a. g.hidden \in [Buffer -> BOOLEAN]
    BY DEF Interface
  <2>b. (~g.hidden[b]) \in BOOLEAN
    BY Zenon
  <2>1. g.hidden \in [Buffer -> BOOLEAN] /\ (~g.hidden[b]) \in BOOLEAN
    BY <2>a, <2>b
  <2>2. hidden = [g.hidden EXCEPT ![b] = ~g.hidden[b]]
    OBVIOUS
  <2> QED BY <2>1, <2>2, Zenon
<1>2. h = [g EXCEPT !.hidden = hidden]
  BY Zenon
<1> HIDE DEF hidden
<1>3. /\ h \in Interface /\ SameList(g, h) /\ SameCount(g, h) /\ SameView(g, h)
      /\ h.active = g.active /\ h.zoomed = g.zoomed /\ h.mixed_lines = g.mixed_lines /\ h.lines = g.lines
  BY <1>1, <1>2 DEF Interface, SameList, SameCount, SameView
<1>4. Sound(h) /\ (Clean(g) => Clean(h))
  BY <1>3, SameSound DEF Fine, SameView
<1>5. g.open \subseteq h.open
  BY <1>3 DEF SameList
<1> QED BY <1>3, <1>4, <1>5, ViewKept

NewLook(g, active, lines, zoomed) == [g EXCEPT !.active = active, !.lines = lines, !.zoomed = zoomed]

LEMMA NewLookIs ==
    ASSUME NEW g \in Interface, NEW active \in [Buffer -> 0 .. 2], NEW lines \in [Buffer -> {"own", "mixed"}],
           NEW zoomed \in [Buffer -> BOOLEAN], NEW h, h = NewLook(g, active, lines, zoomed)
    PROVE  /\ h \in Interface /\ SameList(g, h) /\ SameView(g, h)
           /\ h.active = active /\ h.lines = lines /\ h.zoomed = zoomed /\ h.mixed_lines = g.mixed_lines
BY DEF NewLook, Interface, SameList, SameView

\* What the user zooms has become the active buffer of its group.
Ready(g, k, b) ==
    /\ k \in Interface /\ Steady(k) /\ SameList(g, k) /\ k.active[b] # 0
    /\ Clean(g) => Clean(k) /\ \A c \in g.hotlist \ k.hotlist : c \in k.shown

\* h is k once a buffer has been zoomed, or is no longer.
ZoomedIn(k, h, b) ==
    /\ h \in Interface /\ SameList(k, h) /\ SameView(k, h) /\ CountsTrue(h) /\ h.mixed_lines = k.mixed_lines
    /\ \E active \in {1, 2} : \A c \in Buffer :
          /\ h.active[c] = IF c = b THEN active ELSE k.active[c]
          /\ h.lines[c] = IF c = b THEN (IF active = 2 THEN "own" ELSE "mixed") ELSE k.lines[c]
          /\ h.zoomed[c] = IF c \in Mates(k, b) THEN active = 2 ELSE k.zoomed[c]

LEMMA ZoomedIs ==
    ASSUME NEW k \in Interface, NEW b \in Buffer, k.active[b] # 0, NEW active, active = 3 - k.active[b],
           NEW h, h = ComputeNumDisplayed(
                         [k EXCEPT !.active = [@ EXCEPT ![b] = active],
                                   !.lines = [@ EXCEPT ![b] = IF active = 2 THEN "own" ELSE "mixed"],
                                   !.zoomed = [c \in Buffer |-> IF c \in Mates(k, b) THEN active = 2 ELSE @[c]]])
    PROVE  ZoomedIn(k, h, b)
<1> DEFINE actives == [k.active EXCEPT ![b] = active]
           lines == [k.lines EXCEPT ![b] = IF active = 2 THEN "own" ELSE "mixed"]
           zoomed == [c \in Buffer |-> IF c \in Mates(k, b) THEN active = 2 ELSE k.zoomed[c]]
           z == NewLook(k, actives, lines, zoomed)
<1>0. /\ k.active \in [Buffer -> 0 .. 2] /\ k.lines \in [Buffer -> {"own", "mixed"}]
      /\ k.zoomed \in [Buffer -> BOOLEAN]
  BY DEF Interface
<1>1. active \in {1, 2}
  <2>1. k.active[b] \in 0 .. 2
    BY <1>0
  <2> QED BY <2>1
<1>2. /\ actives \in [Buffer -> 0 .. 2] /\ lines \in [Buffer -> {"own", "mixed"}]
      /\ zoomed \in [Buffer -> BOOLEAN]
  <2>1. actives \in [Buffer -> 0 .. 2]
    BY <1>0, <1>1
  <2>2. lines \in [Buffer -> {"own", "mixed"}]
    BY <1>0, <1>1
  <2>3. zoomed \in [Buffer -> BOOLEAN]
    <3>1. \A c \in Buffer : (IF c \in Mates(k, b) THEN active = 2 ELSE k.zoomed[c]) \in BOOLEAN
      BY <1>0
    <3> QED BY <3>1
  <2> QED BY <2>1, <2>2, <2>3
<1>3. h = ComputeNumDisplayed(z)
  BY <1>0 DEF NewLook, Interface
<1>4. \A c \in Buffer : /\ actives[c] = IF c = b THEN active ELSE k.active[c]
                        /\ lines[c] = IF c = b THEN (IF active = 2 THEN "own" ELSE "mixed") ELSE k.lines[c]
                        /\ zoomed[c] = IF c \in Mates(k, b) THEN active = 2 ELSE k.zoomed[c]
  BY <1>0, <1>1
<1> HIDE DEF actives, lines, zoomed
<1>5. /\ z \in Interface /\ SameList(k, z) /\ SameView(k, z)
      /\ z.active = actives /\ z.lines = lines /\ z.zoomed = zoomed /\ z.mixed_lines = k.mixed_lines
  BY <1>2, NewLookIs
<1> HIDE DEF z
<1>6. h \in Interface /\ SameList(z, h) /\ SameView(z, h) /\ SameLook(z, h) /\ CountsTrue(h)
  <2>1. IsFiniteSet(DOMAIN z.window)
    BY <1>5, WindowsFinite
  <2> QED BY <1>3, <1>5, <2>1, CountIs, CountsAre
<1>7. SameList(k, h) /\ SameView(k, h)
  BY <1>5, <1>6 DEF SameList, SameView
<1>8. h.active = actives /\ h.lines = lines /\ h.zoomed = zoomed /\ h.mixed_lines = k.mixed_lines
  BY <1>5, <1>6 DEF SameLook
<1>9. \E a \in {1, 2} : \A c \in Buffer :
          /\ actives[c] = IF c = b THEN a ELSE k.active[c]
          /\ lines[c] = IF c = b THEN (IF a = 2 THEN "own" ELSE "mixed") ELSE k.lines[c]
          /\ zoomed[c] = IF c \in Mates(k, b) THEN a = 2 ELSE k.zoomed[c]
  BY <1>1, <1>4, Zenon
<1>10. \E a \in {1, 2} : \A c \in Buffer :
          /\ h.active[c] = IF c = b THEN a ELSE k.active[c]
          /\ h.lines[c] = IF c = b THEN (IF a = 2 THEN "own" ELSE "mixed") ELSE k.lines[c]
          /\ h.zoomed[c] = IF c \in Mates(k, b) THEN a = 2 ELSE k.zoomed[c]
  BY <1>8, <1>9, Zenon
<1> QED BY <1>6, <1>7, <1>8, <1>10 DEF ZoomedIn

LEMMA ZoomGoes ==
    ASSUME NEW g \in Interface, NEW b \in g.open, Merged(g, b), NEW k, Ready(g, k, b),
           NEW h, ZoomedIn(k, h, b)
    PROVE  Goes(g, h)
<1>0. /\ k \in Interface /\ Steady(k) /\ SameList(g, k) /\ k.active[b] # 0
      /\ g.open \in SUBSET Buffer /\ k.open = g.open /\ k.number = g.number
  BY DEF Ready, Interface, SameList
<1>1. b \in Buffer
  BY <1>0
<1>6. h \in Interface /\ CountsTrue(h)
  BY DEF ZoomedIn
<1>7. /\ h.open = g.open /\ h.number = g.number /\ SameList(g, h) /\ SameList(k, h)
      /\ SameView(k, h)
  BY <1>0 DEF ZoomedIn, SameList
<1>8. PICK active \in {1, 2} : \A c \in Buffer :
          /\ h.active[c] = IF c = b THEN active ELSE k.active[c]
          /\ h.lines[c] = IF c = b THEN (IF active = 2 THEN "own" ELSE "mixed") ELSE k.lines[c]
          /\ h.zoomed[c] = IF c \in Mates(k, b) THEN active = 2 ELSE k.zoomed[c]
  BY DEF ZoomedIn
<1>a. h.mixed_lines = k.mixed_lines
  BY DEF ZoomedIn
<1>9. Listed(k) /\ Outside(k) /\ One(k) /\ Alive(k) /\ Core \in k.open /\ DOMAIN k.window \subseteq Window
  BY <1>0 DEF Steady
<1>10. Listed(h) /\ Outside(h)
  BY <1>7, <1>9 DEF SameList, Listed, LinkedOn, Sorted, Positive, Dense, Outside
<1>11. Alive(h)
  BY <1>7, <1>9 DEF Alive, VisitOnce, SameList, SameView
<1>12. \A c \in g.open : h.active[c] # 0 <=> k.active[c] # 0
  BY <1>0, <1>1, <1>8
<1>13. PICK mate \in g.open : mate # b /\ g.number[mate] = g.number[b]
  BY MatesAre
<1>14. One(h)
  <2>1. ASSUME NEW c \in g.open PROVE \E d \in g.open : g.number[d] = g.number[c] /\ h.active[d] # 0
    BY <1>0, <1>9, <1>12 DEF One
  <2>2. ASSUME NEW c \in g.open, NEW d \in g.open, g.number[d] = g.number[c], h.active[c] # 0, h.active[d] # 0
        PROVE  c = d
    BY <2>2, <1>0, <1>9, <1>12 DEF One
  <2>3. ASSUME NEW c \in g.open, h.active[c] = 2 PROVE \E d \in g.open : d # c /\ g.number[d] = g.number[c]
    <3>1. CASE c = b
      BY <3>1, <1>13
    <3>2. CASE c # b
      <4>1. k.active[c] = 2
        BY <2>3, <3>2, <1>0, <1>8
      <4> QED BY <4>1, <1>0, <1>9 DEF One
    <3> QED BY <3>1, <3>2
  <2> QED BY <2>1, <2>2, <2>3, <1>7 DEF One
<1>15. Fine(h)
  BY <1>6, <1>7, <1>9, <1>10, <1>11, <1>14 DEF Fine, Sound, SameList, SameView
<1>16. ASSUME Clean(g) PROVE Clean(h) /\ Seen(g, h)
  <2>1. Mixed(k) /\ Marked(k) /\ \A c \in g.hotlist \ k.hotlist : c \in k.shown
    BY <1>16 DEF Ready, Clean
  <2>2. \A c : Mates(h, c) = Mates(k, c)
    BY <1>0, <1>7 DEF Mates, Group
  <2>3. \A c : Merged(h, c) = Merged(k, c)
    BY <2>2 DEF Merged, Others
  <2>4. Merged(k, b)
    BY <1>0, <1>13, MatesAre
  <2>5. ASSUME NEW c \in g.open
        PROVE  /\ Merged(h, c) => h.mixed_lines[c] = Mates(h, c)
               /\ ~Merged(h, c) => h.mixed_lines[c] = {}
               /\ h.lines[c] = "mixed" <=> Merged(h, c) /\ h.active[c] # 2
    <3>1. /\ Merged(h, c) => h.mixed_lines[c] = Mates(h, c)
          /\ ~Merged(h, c) => h.mixed_lines[c] = {}
      BY <2>1, <2>2, <2>3, <1>0, <1>a DEF Mixed
    <3>2. CASE c = b
      <4>1. h.active[c] = active /\ h.lines[c] = IF active = 2 THEN "own" ELSE "mixed"
        BY <3>2, <1>1, <1>8
      <4>2. Merged(h, c)
        BY <3>2, <2>3, <2>4
      <4>3. CASE active = 2
        BY <3>1, <4>1, <4>2, <4>3
      <4>4. CASE active # 2
        BY <3>1, <4>1, <4>2, <4>4
      <4> QED BY <4>3, <4>4
    <3>3. CASE c # b
      <4>1. h.active[c] = k.active[c] /\ h.lines[c] = k.lines[c]
        BY <3>3, <1>0, <1>8
      <4>2. k.lines[c] = "mixed" <=> Merged(k, c) /\ k.active[c] # 2
        BY <2>1, <1>0 DEF Mixed
      <4> QED BY <3>1, <4>1, <4>2, <2>3
    <3> QED BY <3>2, <3>3
  <2>6. Mixed(h)
    BY <2>5, <1>7 DEF Mixed
  <2>7. ASSUME NEW c \in g.open
        PROVE  h.zoomed[c] <=> \E d \in g.open : g.number[d] = g.number[c] /\ h.active[d] = 2
    <3>1. CASE g.number[c] = g.number[b]
      <4>1. c \in Mates(k, b)
        BY <3>1, <1>0 DEF Mates, Group
      <4>2. h.zoomed[c] <=> active = 2
        BY <4>1, <1>0, <1>8
      <4>3. h.active[b] = active
        BY <1>1, <1>8
      <4>4. ASSUME NEW d \in g.open, g.number[d] = g.number[c], h.active[d] = 2 PROVE d = b
        <5>1. k.active[d] # 0
          BY <4>4, <1>12
        <5> QED BY <4>4, <3>1, <5>1, <1>0, <1>9 DEF One
      <4> QED BY <3>1, <4>2, <4>3, <4>4
    <3>2. CASE g.number[c] # g.number[b]
      <4>1. c \notin Mates(k, b)
        BY <3>2, <1>0 DEF Mates, Group
      <4>2. h.zoomed[c] = k.zoomed[c]
        BY <4>1, <1>0, <1>8
      <4>3. k.zoomed[c] <=> \E d \in g.open : g.number[d] = g.number[c] /\ k.active[d] = 2
        BY <2>1, <1>0 DEF Marked
      <4>4. \A d \in g.open : g.number[d] = g.number[c] => h.active[d] = k.active[d]
        BY <3>2, <1>0, <1>8
      <4> QED BY <4>2, <4>3, <4>4
    <3> QED BY <3>1, <3>2
  <2>8. Marked(h)
    BY <2>7, <1>7 DEF Marked
  <2>9. Seen(g, h)
    BY <2>1, <1>7 DEF Seen, SameView
  <2> QED BY <2>6, <2>8, <2>9 DEF Clean
<1> QED BY <1>7, <1>15, <1>16 DEF Goes, Kept, SameList

LEMMA ZoomReady ==
    ASSUME NEW g \in Interface, Fine(g), NEW b, b = g.window[g.current],
           NEW k, k = IF g.active[b] # 0 THEN g
                      ELSE IF WindowWith(g, b) = None THEN SetActive(g, b)
                      ELSE SwitchToBuffer(SetActive(g, b), WindowWith(g, b), b, FALSE)
    PROVE  Ready(g, k, b)
<1>0. Alive(g) /\ b \in g.open /\ g.current \in DOMAIN g.window /\ Steady(g) /\ SameList(g, g)
  BY FineSteady DEF Fine, Alive, SameList
<1>1. WindowWith(g, b) = g.current
  BY DEF WindowWith
<1>2. CASE g.active[b] # 0
  BY <1>2, <1>0 DEF Ready
<1>3. CASE g.active[b] = 0
  <2> DEFINE s == SetActive(g, b)
  <2>1. Steady(s) /\ SameList(g, s) /\ SameView(g, s) /\ s.active[b] # 0 /\ (Clean(g) => Clean(s))
    BY <1>0, SetActiveSteady
  <2>2. k = s \/ k = SwitchToBuffer(s, g.current, b, FALSE)
    BY <1>1, <1>3
  <2> HIDE DEF s
  <2>3. s \in Interface /\ b \in s.open /\ g.current \in DOMAIN s.window /\ s.hotlist = g.hotlist
    BY <1>0, <2>1 DEF Steady, SameList, SameView, Alive
  <2>4. CASE k = s
    BY <2>1, <2>3, <2>4 DEF Ready
  <2>5. CASE k = SwitchToBuffer(s, g.current, b, FALSE)
    <3>1. Switched(s, k, b)
      BY <2>1, <2>3, <2>5, SwitchToBufferIs
    <3>2. k \in Interface /\ Steady(k) /\ SameList(g, k) /\ k.active[b] # 0
      BY <2>1, <3>1, FineSteady DEF Switched, SameList, Fine, Sound
    <3> QED BY <2>1, <2>3, <3>1, <3>2 DEF Switched, Ready
  <2> QED BY <2>2, <2>4, <2>5
<1> QED BY <1>2, <1>3

-----------------------------------------------------------------------------
(* A buffer is closed.                                                     *)

\* h is g once a buffer has no group.
LeftAlone(g, h, b) ==
    /\ Fine(h) /\ SameView(g, h) /\ h.open = g.open /\ Mates(h, b) = {b}
    /\ Clean(g) /\ (\A c \in Others(g, b) : g.active[b] # 2 /\ g.active[c] # 2) => Clean(h)

LEMMA LeftAloneIs ==
    ASSUME NEW g \in Interface, Fine(g), NEW b \in g.open, NEW h, h = Unmerge(g, b, LastNumber(g) + 1)
    PROVE  LeftAlone(g, h, b)
<1>0. Sound(g) /\ Listed(g) /\ Outside(g) /\ One(g) /\ Alive(g) /\ g.open # {}
  BY DEF Fine, Sound
<1>1. LastNumber(g) \in Int
  BY <1>0, LastNumberIs
<1>2. CASE ~Merged(g, b)
  <2>1. h = g
    BY <1>2 DEF Unmerge
  <2>2. Mates(g, b) = {b}
    BY <1>2, MatesAre
  <2>3. SameView(g, h)
    BY <2>1 DEF SameView
  <2> QED BY <2>1, <2>2, <2>3 DEF LeftAlone
<1>3. CASE Merged(g, b)
  <2> DEFINE number == LastNumber(g) + 1
  <2>1. number \in Int
    BY <1>1
  <2> HIDE DEF number
  <2>2. h = Unmerge(g, b, number)
    BY DEF number
  <2>3. /\ h \in Interface /\ Listed(h) /\ Outside(h) /\ UnmergedIn(g, h, b)
        /\ One(h) /\ CountsTrue(h) /\ SameView(g, h)
        /\ (Mixed(g) /\ Marked(g) /\ \A c \in Mates(g, b) : g.active[c] # 2) => Mixed(h) /\ Marked(h)
    BY <1>0, <1>3, <2>1, <2>2, UnmergeIs
  <2>4. h.open = g.open /\ Mates(h, b) = {b}
    BY <2>3 DEF UnmergedIn
  <2>5. Sound(h)
    BY <2>3 DEF Sound
  <2>6. Alive(h)
    BY <1>0, <2>3, <2>4 DEF Alive, SameView, VisitOnce
  <2>7. Fine(h)
    BY <2>3, <2>4, <2>5, <2>6 DEF Fine, SameView
  <2>8. ASSUME Clean(g), \A c \in Others(g, b) : g.active[b] # 2 /\ g.active[c] # 2 PROVE Clean(h)
    <3>1. \A c \in Mates(g, b) : c = b \/ c \in Others(g, b)
      BY DEF Others
    <3>2. PICK c \in Others(g, b) : TRUE
      BY <1>3 DEF Merged
    <3>3. \A d \in Mates(g, b) : g.active[d] # 2
      BY <2>8, <3>1, <3>2
    <3> QED BY <2>3, <2>8, <3>3 DEF Clean
  <2> QED BY <2>3, <2>4, <2>7, <2>8 DEF LeftAlone
<1> QED BY <1>2, <1>3

\* h is g once no window displays a buffer.
Forsaken(g, h, b) ==
    /\ Fine(h) /\ SameList(g, h) /\ DOMAIN h.window = DOMAIN g.window
    /\ \A w \in DOMAIN g.window : h.window[w] # b /\ (g.window[w] # b => h.window[w] = g.window[w])
    /\ g.shown \subseteq h.shown
    /\ Clean(g) => Clean(h) /\ \A c \in g.hotlist \ h.hotlist : c \in h.shown

LEMMA ForsakenIs ==
    ASSUME NEW g \in Interface, Fine(g), NEW b \in g.open, b # Core,
           NEW back \in (g.open \ {b}) \cup {None}, NEW visited \in (g.open \ {b}) \cup {None},
           NEW h, h = SwitchAway(g, b, back, visited)
    PROVE  Forsaken(g, h, b)
<1> DEFINE windows == {w \in DOMAIN g.window : g.window[w] = b}
           other == IF back # None THEN back
                    ELSE IF visited # None THEN visited
                    ELSE IF g.before[b] # {} THEN Prev(g, b) ELSE LastOf(g, g.open)
<1>0. /\ LinkedOn(g, g.open) /\ Core \in g.open /\ Alive(g) /\ g.open \in SUBSET Buffer
  BY TypeFacts DEF Fine, Sound, Listed
<1>1. CASE windows = {}
  <2>1. h = g
    BY <1>1 DEF SwitchAway
  <2>2. SameList(g, g) /\ \A w \in DOMAIN g.window : g.window[w] # b
    BY <1>1 DEF SameList
  <2> QED BY <2>1, <2>2 DEF Forsaken
<1>2. CASE windows # {}
  <2>1. other \in g.open /\ other # b
    <3>1. CASE back = None /\ visited = None /\ g.before[b] # {}
      <4>1. Prev(g, b) \in g.before[b]
        BY <3>1, <1>0, PrevIs
      <4> QED BY <3>1, <4>1, <1>0 DEF LinkedOn
    <3>2. CASE back = None /\ visited = None /\ g.before[b] = {}
      <4>1. /\ LastOf(g, g.open) \in g.open
            /\ \A c \in g.open : c = LastOf(g, g.open) \/ c \in g.before[LastOf(g, g.open)]
        BY <1>0, LastOfIs
      <4>2. LastOf(g, g.open) # b
        BY <3>2, <4>1, <1>0
      <4> QED BY <3>2, <4>1, <4>2
    <3> QED BY <3>1, <3>2
  <2>2. h = SwitchWindows(g, windows, b, other, FALSE)
    BY <1>2 DEF SwitchAway
  <2>3. windows \in SUBSET DOMAIN g.window
    OBVIOUS
  <2>4. \A w \in DOMAIN g.window : w \in windows <=> g.window[w] = b
    OBVIOUS
  <2> HIDE DEF windows, other
  <2>5. Switched(g, h, other) /\ Shows(g, h, windows, other)
    BY <1>2, <2>1, <2>2, <2>3, FineSteady, SwitchedIs
  <2> QED BY <2>1, <2>4, <2>5 DEF Switched, Shows, Forsaken
<1> QED BY <1>1, <1>2

\* The buffer visited before the current one.
LEMMA VisitedPreviousIs ==
    ASSUME NEW g \in Interface, Alive(g), VisitedPrevious(g) >= 0
    PROVE  VisitedPrevious(g) \in 0 .. Len(g.visited) - 1 /\ g.visited[VisitedPrevious(g) + 1] \in g.open
<1>1. g.visited \in Seq(Buffer) /\ Len(g.visited) \in Nat /\ DOMAIN g.visited = 1 .. Len(g.visited)
  BY DEF Interface
<1>2. g.visited_index \in -1 .. Len(g.visited) - 1 /\ \A i \in DOMAIN g.visited : g.visited[i] \in g.open
  BY DEF Alive, VisitOnce
<1>3. VisitedPrevious(g) \in 0 .. Len(g.visited) - 1
  BY <1>1, <1>2 DEF VisitedPrevious
<1> HIDE DEF VisitedPrevious
<1> QED BY <1>1, <1>2, <1>3

LEMMA VisitedNextIs ==
    ASSUME NEW g \in Interface, Alive(g), VisitedNext(g) >= 0
    PROVE  VisitedNext(g) \in 0 .. Len(g.visited) - 1
<1>1. g.visited \in Seq(Buffer) /\ Len(g.visited) \in Nat
  BY DEF Interface
<1>2. g.visited_index \in -1 .. Len(g.visited) - 1
  BY DEF Alive, VisitOnce
<1> QED BY <1>1, <1>2 DEF VisitedNext

\* h is g once a buffer that is alone is in no list but that of the buffers.
Forgotten(g, h, b) ==
    /\ Sound(h) /\ Alive(h) /\ SameList(g, h) /\ h.window = g.window /\ h.shown = g.shown
    /\ \A c \in g.hotlist \ h.hotlist : c = b
    /\ b \notin h.hotlist /\ \A i \in DOMAIN h.visited : h.visited[i] # b
    /\ Clean(g) => Clean(h)

LEMMA ForgottenIs ==
    ASSUME NEW g \in Interface, Fine(g), NEW b \in g.open, Mates(g, b) = {b},
           NEW h, h = VisitedRemove(HotlistRemove(g, b, TRUE), b)
    PROVE  Forgotten(g, h, b)
<1> DEFINE t == HotlistRemove(g, b, TRUE)
<1>0. Sound(g) /\ Alive(g) /\ b \in Buffer
  BY TypeFacts DEF Fine
<1>1. t \in Interface /\ SameList(g, t) /\ SameLook(g, t) /\ SameCount(g, t) /\ HotlistLess(g, t, b, TRUE)
  <2> DEFINE force == TRUE
  <2>1. force \in BOOLEAN /\ t = HotlistRemove(g, b, force) /\ force
    OBVIOUS
  <2> HIDE DEF force, t
  <2>2. t \in Interface /\ SameList(g, t) /\ SameLook(g, t) /\ SameCount(g, t) /\ HotlistLess(g, t, b, force)
    BY <1>0, <2>1, HotlistIs
  <2> QED BY <2>2 DEF force
<1>2. h = VisitedRemove(t, b)
  OBVIOUS
<1> HIDE DEF t
<1>3. /\ t.window = g.window /\ t.current = g.current
      /\ t.visited = g.visited /\ t.visited_index = g.visited_index
      /\ t.initial_buffer = g.initial_buffer
      /\ t.last_displayed = g.last_displayed /\ t.shown = g.shown
      /\ t.hotlist \subseteq g.hotlist /\ b \notin t.hotlist
  BY <1>1 DEF HotlistLess
<1>4. \A c \in g.hotlist \ t.hotlist : c = b
  <2> TAKE c \in g.hotlist \ t.hotlist
  <2>1. c = b \/ g.number[c] = g.number[b]
    BY <1>1 DEF HotlistLess
  <2>2. c \in g.open
    BY <1>0 DEF Alive
  <2> QED BY <2>1, <2>2 DEF Mates, Group
<1>5. VisitOnce(t)
  BY <1>0, <1>3 DEF Alive, VisitOnce
<1>6. h \in Interface /\ SameButVisited(t, h) /\ VisitOnce(h) /\ NotVisited(t, h, b)
  BY <1>0, <1>1, <1>2, <1>5, VisitedRemoveIs
<1>7. /\ SameList(t, h) /\ SameLook(t, h) /\ SameCount(t, h)
      /\ h.window = t.window /\ h.current = t.current /\ h.hotlist = t.hotlist
      /\ h.initial_buffer = t.initial_buffer /\ h.last_displayed = t.last_displayed /\ h.shown = t.shown
  BY <1>6 DEF SameButVisited
<1>8. SameList(g, h) /\ SameLook(g, h) /\ SameCount(g, h) /\ h.window = g.window
  BY <1>1, <1>3, <1>7 DEF SameList, SameLook, SameCount
<1>9. Sound(h) /\ (Clean(g) => Clean(h))
  BY <1>0, <1>6, <1>8, SameSound DEF SameLook
<1>10. h.open = g.open
  BY <1>8 DEF SameList
<1>11. \A i \in DOMAIN h.visited : h.visited[i] \in h.open
  <2>1. \A j \in DOMAIN t.visited : t.visited[j] \in g.open
    BY <1>0, <1>3 DEF Alive
  <2>2. \A i \in DOMAIN h.visited : \E j \in DOMAIN t.visited : h.visited[i] = t.visited[j]
    BY <1>6 DEF NotVisited
  <2> QED BY <2>1, <2>2, <1>10
<1>12. Alive(h)
  BY <1>0, <1>3, <1>6, <1>7, <1>10, <1>11 DEF Alive
<1>13. \A i \in DOMAIN h.visited : h.visited[i] # b
  BY <1>6 DEF NotVisited
<1> QED BY <1>3, <1>4, <1>6, <1>7, <1>8, <1>9, <1>12, <1>13 DEF Forgotten

\* h is g without a buffer that was alone.
ClosedIn(g, h, b) ==
    /\ Fine(h) /\ h.open = g.open \ {b} /\ h.window = g.window /\ h.hotlist = g.hotlist /\ h.shown = g.shown
    /\ Clean(g) => Clean(h)

\* The list without the buffer.
Unlisted(g, h, b) ==
    /\ h \in Interface /\ h.open = g.open \ {b} /\ Listed(h) /\ Outside(h)
    /\ SameGroups(g, h, h.open) /\ SameView(g, h) /\ CountsTrue(h) /\ One(h)
    /\ Clean(g) => Clean(h)

LEMMA SameListed ==
    ASSUME NEW r, NEW h, Listed(r), h.open = r.open, h.before = r.before,
           \A c \in h.open : h.number[c] = r.number[c]
    PROVE  Listed(h)
<1>0. LinkedOn(r, r.open) /\ Sorted(r) /\ Positive(r) /\ (auto_renumber => Dense(r))
  BY DEF Listed
<1>1. LinkedOn(h, h.open)
  BY <1>0 DEF LinkedOn
<1>2. Sorted(h)
  BY <1>0, <1>1 DEF LinkedOn, Sorted
<1>3. Positive(h)
  BY <1>0 DEF Positive
<1>4. Dense(r) => Dense(h)
  BY DEF Dense
<1> QED BY <1>0, <1>1, <1>2, <1>3, <1>4 DEF Listed

LEMMA UnlistedIs ==
    ASSUME NEW g \in Interface, Sound(g), NEW b \in g.open, Mates(g, b) = {b},
           NEW h, h = Fresh(Removed(ShiftBack(g, After(g, b)), {b}), b)
    PROVE  Unlisted(g, h, b)
<1> DEFINE s == ShiftBack(g, After(g, b))
           r == Removed(s, {b})
<1>0. /\ Listed(g) /\ Outside(g) /\ One(g) /\ CountsTrue(g) /\ b \in Buffer /\ {b} \in SUBSET Buffer
      /\ LinkedOn(g, g.open) /\ g.open \in SUBSET Buffer
  BY TypeFacts DEF Sound, Listed
<1>1. /\ s \in Interface /\ s.open = g.open /\ s.before = g.before
      /\ \A c \in g.open : s.number[c] = IF auto_renumber /\ c \in After(g, b) THEN g.number[c] - 1 ELSE g.number[c]
      /\ SameLook(g, s) /\ SameView(g, s) /\ SameCount(g, s)
  <2>1. CASE auto_renumber
    <3>1. s = Shifted(g, After(g, b), -1)
      BY <2>1 DEF ShiftBack
    <3>2. PICK d \in Int : d = -1
      OBVIOUS
    <3>3. s = Shifted(g, After(g, b), d)
      BY <3>1, <3>2
    <3> HIDE DEF s
    <3>4. /\ s \in Interface /\ s.open = g.open /\ s.before = g.before
          /\ \A c \in Buffer : s.number[c] = IF c \in After(g, b) THEN g.number[c] + d ELSE g.number[c]
          /\ SameLook(g, s) /\ SameView(g, s) /\ SameCount(g, s)
      BY <3>3, ShiftedIs
    <3>5. \A c \in g.open : g.number[c] + d = g.number[c] - 1
      BY <3>2, TypeFacts
    <3> QED BY <2>1, <3>4, <3>5, <1>0
  <2>2. CASE ~auto_renumber
    <3>1. s = g
      BY <2>2 DEF ShiftBack
    <3> HIDE DEF s
    <3> QED BY <2>2, <3>1 DEF SameLook, SameView, SameCount
  <2> QED BY <2>1, <2>2
<1> HIDE DEF s
<1>2. r \in Interface /\ RemovedFrom(s, r, {b}) /\ SameLook(s, r) /\ SameView(s, r) /\ SameCount(s, r)
  BY <1>0, <1>1, RemovedIs
<1> HIDE DEF r
<1>3. r.open = g.open \ {b} /\ r.number = s.number
  BY <1>1, <1>2 DEF RemovedFrom
<1>c. \A c \in Buffer : r.before[c] = IF c \in {b} THEN g.before[c] \cap {b} ELSE g.before[c] \ {b}
  BY <1>1, <1>2 DEF RemovedFrom
<1>a. \A c \in Buffer \ {b} : r.before[c] = g.before[c] \ {b}
  BY <1>c
<1>b. r.before[b] = g.before[b] \cap {b}
  BY <1>0, <1>c
<1>4. TakenFrom(g, r, {b})
  <2>1. \A c \in g.open : r.before[c] = IF c \in {b} THEN g.before[c] \cap {b} ELSE g.before[c] \ {b}
    BY <1>0, <1>c
  <2>2. \A c \in g.open \ {b} :
           r.number[c] = IF auto_renumber /\ g.before[c] \cap {b} # {} THEN g.number[c] - 1 ELSE g.number[c]
    <3> TAKE c \in g.open \ {b}
    <3>1. c \in After(g, b) <=> g.before[c] \cap {b} # {}
      BY DEF After
    <3> QED BY <3>1, <1>1, <1>3
  <2> QED BY <2>1, <2>2, <1>3 DEF TakenFrom
<1>5. Listed(r) /\ SameGroups(g, r, r.open)
  BY <1>0, <1>2, <1>4, GroupTaken
<1>6. h \in Interface /\ SameView(r, h) /\ FreshIn(r, h, b)
  BY <1>0, <1>2, FreshIs DEF r, s
<1>d. /\ h.open = r.open /\ h.before = r.before /\ h.num_displayed[b] = 0
      /\ \A c \in Buffer \ {b} :
              /\ h.number[c] = r.number[c] /\ h.active[c] = r.active[c] /\ h.zoomed[c] = r.zoomed[c]
              /\ h.mixed_lines[c] = r.mixed_lines[c]
              /\ h.lines[c] = r.lines[c] /\ h.num_displayed[c] = r.num_displayed[c]
  BY <1>6 DEF FreshIn
<1>e. /\ s.active = g.active /\ s.zoomed = g.zoomed /\ s.mixed_lines = g.mixed_lines /\ s.lines = g.lines
      /\ s.num_displayed = g.num_displayed
  BY <1>1 DEF SameLook, SameCount
<1>f. /\ r.active = g.active /\ r.zoomed = g.zoomed /\ r.mixed_lines = g.mixed_lines /\ r.lines = g.lines
      /\ r.num_displayed = g.num_displayed
  BY <1>2, <1>e DEF SameLook, SameCount
<1>g. \A c \in h.open : c \in g.open /\ c # b /\ c \in Buffer \ {b}
  BY <1>0, <1>3, <1>d
<1>h. h.open = g.open \ {b} /\ h.before = r.before /\ h.num_displayed[b] = 0
  BY <1>3, <1>d
<1>i. \A c \in h.open : h.number[c] = r.number[c] /\ h.active[c] = g.active[c] /\ h.zoomed[c] = g.zoomed[c]
  BY <1>d, <1>f, <1>g
<1>j. \A c \in h.open : h.mixed_lines[c] = g.mixed_lines[c] /\ h.lines[c] = g.lines[c]
  BY <1>d, <1>f, <1>g
<1>k. \A c \in Buffer : c = b \/ h.num_displayed[c] = g.num_displayed[c]
  BY <1>d, <1>f
<1>7. /\ h.open = g.open \ {b} /\ h.before = r.before /\ h.num_displayed[b] = 0
      /\ \A c \in h.open : /\ h.number[c] = r.number[c] /\ h.active[c] = g.active[c] /\ h.zoomed[c] = g.zoomed[c]
                           /\ h.mixed_lines[c] = g.mixed_lines[c] /\ h.lines[c] = g.lines[c]
      /\ \A c \in Buffer : c = b \/ h.num_displayed[c] = g.num_displayed[c]
  BY <1>h, <1>i, <1>j, <1>k
<1>l. SameView(g, r)
  BY <1>1, <1>2 DEF SameView
<1>m. h \in Interface /\ SameView(r, h)
  BY <1>6
<1>8. SameView(g, h)
  BY <1>m, <1>l DEF SameView
<1>n. r.open = h.open /\ \A c \in h.open : h.number[c] = r.number[c]
  BY <1>3, <1>h, <1>i
<1>9. SameGroups(g, h, h.open)
  BY <1>n, <1>5 DEF SameGroups
<1>10. Listed(h)
  BY <1>5, <1>n, <1>h, SameListed
<1>11. Outside(h)
  <2> SUFFICES ASSUME NEW c \in Buffer \ h.open PROVE h.before[c] = {}
    BY DEF Outside
  <2>1. CASE c = b
    <3>1. b \notin g.before[b]
      BY <1>0 DEF LinkedOn
    <3> QED BY <2>1, <3>1, <1>b, <1>h
  <2>2. CASE c # b
    <3>1. g.before[c] = {}
      BY <2>2, <1>0, <1>7 DEF Outside
    <3> QED BY <2>2, <3>1, <1>a, <1>h
  <2> QED BY <2>1, <2>2
<1>12. \A c \in g.open : g.number[c] = g.number[b] => c = b
  BY DEF Mates, Group
<1>13. \A c, d \in h.open : h.number[c] = h.number[d] <=> g.number[c] = g.number[d]
  BY <1>9 DEF SameGroups
<1>14. \A c \in h.open : Mates(h, c) = Mates(g, c)
  <2> TAKE c \in h.open
  <2>1. c \in g.open /\ c # b
    BY <1>7
  <2>2. \A d \in g.open : g.number[d] = g.number[c] => d \in h.open
    BY <2>1, <1>7, <1>12
  <2>3. \A d \in h.open : d \in g.open /\ (h.number[d] = h.number[c] <=> g.number[d] = g.number[c])
    BY <1>g, <1>13
  <2>4. \A d : d \in Mates(h, c) <=> d \in Mates(g, c)
    BY <2>2, <2>3 DEF Mates, Group
  <2> HIDE DEF Mates
  <2> QED BY <2>4
<1>15. One(h)
  <2>1. ASSUME NEW c \in h.open PROVE \E d \in h.open : h.number[d] = h.number[c] /\ h.active[d] # 0
    <3>1. PICK d \in g.open : g.number[d] = g.number[c] /\ g.active[d] # 0
      BY <1>0, <1>7 DEF One
    <3>2. d \in h.open
      BY <3>1, <1>7, <1>12
    <3> QED BY <3>1, <3>2, <1>7, <1>13
  <2>2. ASSUME NEW c \in h.open, NEW d \in h.open, h.number[d] = h.number[c], h.active[c] # 0, h.active[d] # 0
        PROVE  c = d
    <3>1. c \in g.open /\ d \in g.open /\ g.number[d] = g.number[c] /\ g.active[c] # 0 /\ g.active[d] # 0
      BY <2>2, <1>7, <1>13
    <3> QED BY <3>1, <1>0 DEF One
  <2>3. ASSUME NEW c \in h.open, h.active[c] = 2 PROVE \E d \in h.open : d # c /\ h.number[d] = h.number[c]
    <3>a. c \in g.open /\ g.active[c] = 2
      BY <2>3, <1>g, <1>i
    <3>1. PICK d \in g.open : d # c /\ g.number[d] = g.number[c]
      BY <3>a, <1>0 DEF One
    <3>2. d \in h.open
      BY <3>1, <1>7, <1>12
    <3> QED BY <3>1, <3>2, <1>13
  <2> QED BY <2>1, <2>2, <2>3 DEF One
<1>16. CountsTrue(h)
  <2> SUFFICES ASSUME NEW c \in Buffer
               PROVE  h.num_displayed[c] =
                         IF c \in h.open /\ (~h.zoomed[c] \/ h.active[c] = 2) THEN Cardinality(Displays(h, c)) ELSE 0
    BY DEF CountsTrue
  <2>1. CASE c = b
    BY <2>1, <1>7
  <2>2. CASE c # b
    <3>1. g.num_displayed[c] =
             IF c \in g.open /\ (~g.zoomed[c] \/ g.active[c] = 2) THEN Cardinality(Displays(g, c)) ELSE 0
      BY <1>0 DEF CountsTrue
    <3>2. c \in h.open => Displays(h, c) = Displays(g, c)
      BY <1>8, <1>14 DEF Displays, SameView
    <3> QED BY <2>2, <3>1, <3>2, <1>7
  <2> QED BY <2>1, <2>2
<1>17. ASSUME Clean(g) PROVE Clean(h)
  <2>1. \A c \in h.open : Merged(h, c) = Merged(g, c)
    BY <1>14 DEF Merged, Others
  <2>2. Mixed(h)
    <3>1. Mixed(g)
      BY <1>17 DEF Clean
    <3>2. \A c \in h.open : /\ Merged(g, c) => g.mixed_lines[c] = Mates(g, c)
                            /\ ~Merged(g, c) => g.mixed_lines[c] = {}
      BY <3>1, <1>g DEF Mixed
    <3>3. \A c \in h.open : g.lines[c] = "mixed" <=> Merged(g, c) /\ g.active[c] # 2
      BY <3>1, <1>g DEF Mixed
    <3>4. \A c \in h.open : /\ Merged(h, c) => h.mixed_lines[c] = Mates(h, c)
                            /\ ~Merged(h, c) => h.mixed_lines[c] = {}
      BY <3>2, <2>1, <1>j, <1>14
    <3>5. \A c \in h.open : h.lines[c] = "mixed" <=> Merged(h, c) /\ h.active[c] # 2
      <4> TAKE c \in h.open
      <4>1. h.lines[c] = g.lines[c] /\ h.active[c] = g.active[c]
        BY <1>i, <1>j
      <4>2. Merged(h, c) = Merged(g, c)
        BY <2>1
      <4>3. g.lines[c] = "mixed" <=> Merged(g, c) /\ g.active[c] # 2
        BY <3>3
      <4> HIDE DEF Merged
      <4> QED BY <4>1, <4>2, <4>3, Zenon
    <3> QED BY <3>4, <3>5 DEF Mixed
  <2>3. ASSUME NEW c \in h.open PROVE h.zoomed[c] <=> \E d \in h.open : h.number[d] = h.number[c] /\ h.active[d] = 2
    <3>1. c \in g.open /\ h.zoomed[c] = g.zoomed[c]
      BY <1>7
    <3>2. g.zoomed[c] <=> \E d \in g.open : g.number[d] = g.number[c] /\ g.active[d] = 2
      BY <3>1, <1>17 DEF Clean, Marked
    <3>3. \A d \in g.open : g.number[d] = g.number[c] => d \in h.open
      BY <2>3, <1>7, <1>12
    <3>4. \A d \in h.open : d \in g.open /\ h.active[d] = g.active[d] /\ (h.number[d] = h.number[c] <=> g.number[d] = g.number[c])
      BY <1>7, <1>13
    <3> QED BY <3>1, <3>2, <3>3, <3>4
  <2>4. Marked(h)
    BY <2>3 DEF Marked
  <2> QED BY <2>2, <2>4 DEF Clean
<1> QED BY <1>6, <1>7, <1>8, <1>9, <1>10, <1>11, <1>15, <1>16, <1>17 DEF Unlisted

\* No more a first buffer of a tour of the hotlist, nor a last buffer displayed.
Unpointed(g, initial_buffer, last_displayed) ==
    [g EXCEPT !.initial_buffer = initial_buffer, !.last_displayed = last_displayed]

UnpointedTo(g, h, initial_buffer, last_displayed) ==
    /\ h \in Interface /\ SameList(g, h) /\ SameLook(g, h) /\ SameCount(g, h)
    /\ h.window = g.window /\ h.current = g.current /\ h.visited = g.visited
    /\ h.visited_index = g.visited_index /\ h.hotlist = g.hotlist /\ h.shown = g.shown
    /\ h.initial_buffer = initial_buffer /\ h.last_displayed = last_displayed

LEMMA UnpointedIs ==
    ASSUME NEW g \in Interface, NEW initial_buffer \in Buffer \cup {None}, NEW last_displayed \in Buffer \cup {None},
           NEW h, h = Unpointed(g, initial_buffer, last_displayed)
    PROVE  UnpointedTo(g, h, initial_buffer, last_displayed)
BY DEF Unpointed, UnpointedTo, Interface, SameList, SameLook, SameCount

LEMMA ClosedIs ==
    ASSUME NEW g \in Interface, Sound(g), Alive(g), Core \in g.open, DOMAIN g.window \subseteq Window,
           NEW b \in g.open, b # Core, Mates(g, b) = {b},
           \A w \in DOMAIN g.window : g.window[w] # b, \A i \in DOMAIN g.visited : g.visited[i] # b,
           b \notin g.hotlist, NEW h, h = Closed(g, b)
    PROVE  ClosedIn(g, h, b)
<1> DEFINE u == Fresh(Removed(ShiftBack(g, After(g, b)), {b}), b)
           initial == IF u.initial_buffer = b THEN None ELSE u.initial_buffer
           last == IF u.last_displayed = b THEN None ELSE u.last_displayed
<1>1. Unlisted(g, u, b)
  BY UnlistedIs
<1>2. u \in Interface
  BY <1>1 DEF Unlisted
<1>3. h = Unpointed(u, initial, last)
  BY <1>2 DEF Closed, Unpointed, Interface
<1> HIDE DEF u
<1>4. /\ u.open = g.open \ {b} /\ Listed(u) /\ Outside(u) /\ CountsTrue(u) /\ One(u)
      /\ SameView(g, u) /\ (Clean(g) => Clean(u))
  BY <1>1 DEF Unlisted
<1>5. initial \in Buffer \cup {None} /\ last \in Buffer \cup {None}
  BY <1>2 DEF Interface
<1>6. g.initial_buffer \in g.open \cup {None} /\ g.last_displayed \in g.open \cup {None}
  BY DEF Alive
<1>7. initial \in u.open \cup {None} /\ last \in u.open \cup {None}
  BY <1>4, <1>6 DEF SameView
<1> HIDE DEF initial, last
<1>8. UnpointedTo(u, h, initial, last)
  BY <1>2, <1>3, <1>5, UnpointedIs
<1>9. Sound(u)
  BY <1>2, <1>4 DEF Sound
<1>10. h \in Interface /\ Sound(h) /\ (Clean(u) => Clean(h))
  BY <1>2, <1>8, <1>9, SameSound DEF UnpointedTo, SameLook
<1>11. h.open = g.open \ {b} /\ h.initial_buffer = initial /\ h.last_displayed = last /\ h.open = u.open
  BY <1>4, <1>8 DEF UnpointedTo, SameList
<1>12. /\ h.window = g.window /\ h.current = g.current /\ h.visited = g.visited
       /\ h.visited_index = g.visited_index /\ h.hotlist = g.hotlist /\ h.shown = g.shown
  BY <1>4, <1>8 DEF UnpointedTo, SameView
<1>13. \A w \in DOMAIN h.window : h.window[w] \in h.open
  BY <1>11, <1>12 DEF Alive
<1>14. \A i \in DOMAIN h.visited : h.visited[i] \in h.open
  BY <1>11, <1>12 DEF Alive
<1>15. h.hotlist \subseteq h.open /\ VisitOnce(h) /\ h.current \in DOMAIN h.window
  BY <1>11, <1>12 DEF Alive, VisitOnce
<1>16. Alive(h)
  BY <1>7, <1>11, <1>13, <1>14, <1>15 DEF Alive
<1>17. Fine(h)
  BY <1>10, <1>11, <1>12, <1>16 DEF Fine
<1> QED BY <1>4, <1>10, <1>11, <1>12, <1>17 DEF ClosedIn

LEMMA CloseBufferGoes ==
    ASSUME NEW g \in Interface, Fine(g), NEW b \in g.open, b # Core, NEW h, h = CloseBuffer(g, b)
    PROVE  Goes(g, h)
<1> DEFINE back == IF Merged(g, b) THEN AnyNextActive(g, b) ELSE None
           g2 == Unmerge(g, b, LastNumber(g) + 1)
           k == VisitedPrevious(g2)
           visited == IF g2.window[g2.current] = b /\ k >= 0 /\ g2.visited[k + 1] # b
                      THEN g2.visited[k + 1] ELSE None
           g3 == SwitchAway(g2, b, back, visited)
           g4 == VisitedRemove(HotlistRemove(g3, b, TRUE), b)
<1>1. LeftAlone(g, g2, b)
  BY LeftAloneIs
<1>2. back \in (g.open \ {b}) \cup {None}
  <2>1. Merged(g, b) => AnyNextActive(g, b) \in Others(g, b)
    BY AnyNextIs DEF Fine, Sound
  <2> QED BY <2>1, MatesAre
<1>3. h = Closed(g4, b)
  BY DEF CloseBuffer
<1> HIDE DEF g2, back
<1>4. Fine(g2) /\ SameView(g, g2) /\ g2.open = g.open /\ Mates(g2, b) = {b} /\ g2 \in Interface /\ Alive(g2)
  BY <1>1 DEF LeftAlone, Fine, Sound
<1>5. visited \in (g.open \ {b}) \cup {None}
  <2>1. k >= 0 => g2.visited[k + 1] \in g2.open
    BY <1>4, VisitedPreviousIs
  <2> HIDE DEF k
  <2> QED BY <2>1, <1>4
<1> HIDE DEF visited
<1>6. Forsaken(g2, g3, b)
  BY <1>2, <1>4, <1>5, ForsakenIs
<1> HIDE DEF g3
<1>7. Fine(g3) /\ SameList(g2, g3) /\ g3.open = g.open /\ Sound(g3) /\ g3 \in Interface /\ Core \in g.open
      /\ DOMAIN g3.window \subseteq Window
  BY <1>4, <1>6 DEF Forsaken, SameList, Fine, Sound
<1>8. Mates(g3, b) = {b}
  BY <1>4, <1>7 DEF Mates, Group, SameList
<1>9. Forgotten(g3, g4, b)
  BY <1>7, <1>8, ForgottenIs
<1> HIDE DEF g4
<1>10. /\ Sound(g4) /\ Alive(g4) /\ SameList(g3, g4) /\ g4.window = g3.window /\ g4.shown = g3.shown
       /\ \A c \in g3.hotlist \ g4.hotlist : c = b
       /\ b \notin g4.hotlist /\ \A i \in DOMAIN g4.visited : g4.visited[i] # b
       /\ Clean(g3) => Clean(g4)
  BY <1>9 DEF Forgotten
<1>11. g4 \in Interface /\ g4.open = g.open /\ Mates(g4, b) = {b}
  BY <1>7, <1>8, <1>10 DEF Sound, SameList, Mates, Group
<1>12. /\ DOMAIN g4.window = DOMAIN g.window
       /\ \A w \in DOMAIN g.window : g4.window[w] # b /\ (g.window[w] # b => g4.window[w] = g.window[w])
  BY <1>4, <1>6, <1>10 DEF Forsaken, SameView
<1>13. ClosedIn(g4, h, b)
  BY <1>3, <1>7, <1>10, <1>11, <1>12, ClosedIs
<1>14. /\ Fine(h) /\ h.open = g.open \ {b} /\ h.window = g4.window /\ h.hotlist = g4.hotlist /\ h.shown = g3.shown
       /\ Clean(g4) => Clean(h)
  BY <1>10, <1>11, <1>13 DEF ClosedIn
<1>15. Kept(g, h)
  <2> SUFFICES ASSUME NEW w \in DOMAIN g.window, h.window[w] # g.window[w] PROVE g.window[w] \notin h.open
    BY DEF Kept
  <2> QED BY <1>12, <1>14
<1>16. ASSUME Clean(g), Untouched(g, h) PROVE Clean(h) /\ Seen(g, h)
  <2>1. ASSUME NEW d \in Mates(g, b) PROVE g.active[d] # 2
    <3>1. d \in g.open /\ b \in Mates(g, d)
      BY <2>1 DEF Mates, Group
    <3>2. b \notin Mates(h, d)
      BY <1>14 DEF Mates, Group
    <3> QED BY <3>1, <3>2, <1>16 DEF Untouched
  <2>2. \A c \in Others(g, b) : g.active[b] # 2 /\ g.active[c] # 2
    <3>1. b \in Mates(g, b) /\ \A c \in Others(g, b) : c \in Mates(g, b)
      BY MatesAre
    <3> QED BY <3>1, <2>1
  <2>3. Clean(g2)
    BY <2>2, <1>1, <1>16 DEF LeftAlone
  <2>4. Clean(g3) /\ \A c \in g2.hotlist \ g3.hotlist : c \in g3.shown
    BY <2>3, <1>6 DEF Forsaken
  <2>5. g2.hotlist = g.hotlist
    BY <1>4 DEF SameView
  <2>6. Seen(g, h)
    <3> SUFFICES ASSUME NEW c \in g.hotlist \ h.hotlist PROVE c \notin h.open \/ c \in h.shown
      BY DEF Seen
    <3> QED BY <2>4, <2>5, <1>10, <1>14
  <2> QED BY <2>4, <2>6, <1>10, <1>14
<1> QED BY <1>14, <1>15, <1>16 DEF Goes

-----------------------------------------------------------------------------
(* Buffers are merged and unmerged.                                        *)
LEMMA MergeGoes ==
    ASSUME NEW g \in Interface, Fine(g), NEW b \in g.open, NEW target \in g.open,
           g.number[b] # g.number[target], NEW h, h = Merge(g, b, target)
    PROVE  Goes(g, h)
<1>0. Listed(g) /\ Outside(g) /\ One(g)
  BY DEF Fine, Sound
<1>1. /\ h \in Interface /\ Listed(h) /\ Outside(h) /\ MergedInto(g, h, b, target)
      /\ One(h) /\ CountsTrue(h) /\ SameView(g, h)
      /\ (Mixed(g) /\ Marked(g) /\ \A c \in Mates(g, b) \cup Mates(g, target) : g.active[c] # 2)
            => Mixed(h) /\ Marked(h)
  BY <1>0, MergeIs
<1>2. Sound(h) /\ h.open = g.open
  BY <1>1 DEF Sound, MergedInto
<1>3. b \in Mates(g, b) /\ target \in Mates(g, target) /\ b \notin Mates(g, target) /\ target \notin Mates(g, b)
  BY DEF Mates, Group
<1>4. \A c \in Mates(g, b) : c \in g.open /\ Mates(g, c) = Mates(g, b)
  BY DEF Mates, Group
<1>5. \A c \in Mates(g, target) : c \in g.open /\ Mates(g, c) = Mates(g, target)
  BY DEF Mates, Group
<1>6. \A c \in Mates(g, b) \cup Mates(g, target) : c \in g.open /\ Mates(h, c) # Mates(g, c)
  <2> TAKE c \in Mates(g, b) \cup Mates(g, target)
  <2>1. b \in Mates(h, c) /\ target \in Mates(h, c)
    BY <1>1, <1>3 DEF MergedInto
  <2> QED BY <2>1, <1>3, <1>4, <1>5
<1>7. Clean(g) /\ Untouched(g, h) => Clean(h)
  BY <1>1, <1>6 DEF Clean, Untouched
<1> QED BY <1>1, <1>2, <1>7, ViewKept

LEMMA UnmergeGoes ==
    ASSUME NEW g \in Interface, Fine(g), NEW b \in g.open, Merged(g, b), NEW number \in Int,
           NEW h, h = Unmerge(g, b, number)
    PROVE  Goes(g, h) /\ h.open = g.open
<1>0. Listed(g) /\ Outside(g) /\ One(g)
  BY DEF Fine, Sound
<1>1. /\ h \in Interface /\ Listed(h) /\ Outside(h) /\ UnmergedIn(g, h, b)
      /\ One(h) /\ CountsTrue(h) /\ SameView(g, h)
      /\ (Mixed(g) /\ Marked(g) /\ \A c \in Mates(g, b) : g.active[c] # 2) => Mixed(h) /\ Marked(h)
  BY <1>0, UnmergeIs
<1>2. Sound(h) /\ h.open = g.open
  BY <1>1 DEF Sound, UnmergedIn
<1>3. PICK x \in g.open : g.number[x] = g.number[b] /\ x # b
  BY MatesAre
<1>4. \A c \in Mates(g, b) : c \in g.open /\ Mates(g, c) = Mates(g, b)
  BY DEF Mates, Group
<1>5. b \in Mates(g, b) /\ x \in Mates(g, b)
  BY <1>3 DEF Mates, Group
<1>6. \A c \in Mates(g, b) : Mates(h, c) # Mates(g, c)
  <2> TAKE c \in Mates(g, b)
  <2>1. Mates(g, c) = Mates(g, b) /\ c \in g.open
    BY <1>4
  <2>2. CASE c = b
    BY <2>1, <2>2, <1>1, <1>3, <1>5 DEF UnmergedIn
  <2>3. CASE c # b
    <3>1. b \notin Mates(h, c)
      BY <2>1, <2>3, <1>1 DEF UnmergedIn
    <3> QED BY <3>1, <2>1, <1>5
  <2> QED BY <2>2, <2>3
<1>7. Clean(g) /\ Untouched(g, h) => Clean(h)
  BY <1>1, <1>4, <1>6 DEF Clean, Untouched
<1> QED BY <1>1, <1>2, <1>7, ViewKept

-----------------------------------------------------------------------------
(* The loop of gui_buffer_unmerge_all.                                     *)

\* The buffers of a set keep their order.
SameOrder(g, h, set) == \A c, d \in set : d \in h.before[c] <=> d \in g.before[c]

LEMMA InsertOrder ==
    ASSUME NEW g \in Interface, NEW block \in SUBSET (Buffer \ g.open), NEW n, NEW m \in Int,
           NEW h, h = Insert(g, block, n, m)
    PROVE  SameOrder(g, h, g.open)
<1> DEFINE front == {b \in g.open : \A c \in g.before[b] \cup {b} : g.number[c] < n}
           next == FirstOf(g, g.open \ front)
           g2 == Placed(g, block, front, m)
           set == {b \in After(g2, next) \cup {next} :
                      \A c \in After(g2, next) \cap (g2.before[b] \cup {b}) :
                         ~(g2.number[c] > g2.number[Prev(g2, c)] + 1)}
<1>1. h = g2 \/ h = Shifted(g2, set, 1)
  BY DEF Insert, ShiftNumbers
<1>2. front \in SUBSET Buffer /\ block \in SUBSET Buffer /\ g.open \in SUBSET Buffer
  BY DEF Interface
<1> HIDE DEF front, set
<1>3. g2 \in Interface /\ PlacedIn(g, g2, block, front, m)
  BY <1>2, PlacedIs
<1> HIDE DEF g2
<1>4. h.before = g2.before
  BY <1>1, <1>3, ShiftedIs
<1>5. \A c \in Buffer : g2.before[c] = IF c \in block THEN g.before[c] \cup front
                                       ELSE IF c \in g.open \ front THEN g.before[c] \cup block ELSE g.before[c]
  BY <1>3 DEF PlacedIn
<1>6. ASSUME NEW c \in g.open, NEW d \in g.open PROVE d \in h.before[c] <=> d \in g.before[c]
  <2>1. c \in Buffer /\ c \notin block /\ d \notin block
    BY <1>2
  <2>2. g2.before[c] = IF c \in g.open \ front THEN g.before[c] \cup block ELSE g.before[c]
    BY <2>1, <1>5
  <2> QED BY <2>1, <2>2, <1>4
<1> QED BY <1>6 DEF SameOrder

LEMMA UnmergeOrder ==
    ASSUME NEW g \in Interface, Listed(g), One(g), NEW b \in g.open, Merged(g, b),
           NEW number \in Int, NEW h, h = Unmerge(g, b, number)
    PROVE  SameOrder(g, h, g.open \ {b})
<1> DEFINE s == Separated(g, b)
           r == Removed(s, {b})
           g2 == [r EXCEPT !.active = [@ EXCEPT ![b] = 1]]
           n == IF number < 1 \/ number = g.number[b] THEN g.number[b] + 1
                ELSE IF auto_renumber /\ number > LastNumber(g) + 1 THEN LastNumber(g) + 1
                ELSE number
           i == Insert(g2, {b}, n, n)
<1>0. b \in Buffer /\ {b} \in SUBSET Buffer /\ g.open \in SUBSET Buffer /\ g.number[b] \in Int /\ LastNumber(g) \in Int
  BY TypeFacts, LastNumberIs
<1>1. h = ComputeNumDisplayed(i)
  BY DEF Unmerge
<1>2. s \in Interface /\ SameList(g, s)
  BY SeparatedIs
<1> HIDE DEF s
<1>3. r \in Interface /\ RemovedFrom(s, r, {b})
  BY <1>0, <1>2, RemovedIs
<1> HIDE DEF r
<1>4. g2 \in Interface /\ SameList(r, g2)
  <2> DEFINE active == [r.active EXCEPT ![b] = 1]
  <2>1. active \in [Buffer -> 0 .. 2]
    <3>1. r.active \in [Buffer -> 0 .. 2] /\ 1 \in 0 .. 2
      BY <1>3 DEF Interface
    <3> QED BY <3>1
  <2>2. g2 = NewActive(r, active)
    BY DEF NewActive
  <2> HIDE DEF active, g2
  <2> QED BY <2>1, <2>2, <1>3, NewActiveIs
<1>5. n \in Int
  BY <1>0
<1> HIDE DEF n, g2
<1>6. /\ g2.open = g.open \ {b}
      /\ \A c \in Buffer : g2.before[c] = IF c \in {b} THEN g.before[c] \cap {b} ELSE g.before[c] \ {b}
  BY <1>2, <1>3, <1>4 DEF SameList, RemovedFrom
<1>7. {b} \in SUBSET (Buffer \ g2.open)
  BY <1>0, <1>6
<1>8. SameOrder(g2, i, g2.open)
  BY <1>4, <1>5, <1>7, InsertOrder
<1>9. h.before = i.before
  BY <1>1 DEF ComputeNumDisplayed
<1> HIDE DEF i
<1>10. ASSUME NEW c \in g.open \ {b}, NEW d \in g.open \ {b} PROVE d \in h.before[c] <=> d \in g.before[c]
  <2>1. d \in i.before[c] <=> d \in g2.before[c]
    BY <1>6, <1>8 DEF SameOrder
  <2>2. g2.before[c] = g.before[c] \ {b}
    BY <1>0, <1>6
  <2> QED BY <2>1, <2>2, <1>9
<1> QED BY <1>10 DEF SameOrder

\* A buffer is the first of its group.
Heads(g, b) == \A c \in g.before[b] : g.number[c] # g.number[b]

LEMMA HeadsFirst ==
    ASSUME NEW g \in Interface, Listed(g), g.open # {}
    PROVE  FirstOf(g, g.open) \in g.open /\ Heads(g, FirstOf(g, g.open))
<1> DEFINE f == FirstOf(g, g.open)
<1>1. f \in g.open /\ \A c \in g.open : c \notin g.before[f]
  BY FirstOfIs DEF Listed, Interface
<1>2. \A c \in g.before[f] : c \in g.open
  BY <1>1 DEF Listed, LinkedOn
<1> HIDE DEF f
<1>3. Heads(g, f)
  BY <1>1, <1>2 DEF Heads
<1> QED BY <1>1, <1>3 DEF f

LEMMA UnmergeNextHeads ==
    ASSUME NEW g \in Interface, Fine(g), NEW from \in g.open, Heads(g, from), NEW left,
           left = {c \in After(g, from) \cup {from} : Merged(g, c)}, left # {},
           NEW b, b = FirstOf(g, left), NEW h, h = Unmerge(g, b, -1)
    PROVE  /\ b \in g.open /\ Merged(g, b) /\ Goes(g, h)
           /\ FirstOf(g, After(g, b)) \in h.open /\ Heads(h, FirstOf(g, After(g, b)))
<1>0. /\ Listed(g) /\ Outside(g) /\ One(g) /\ LinkedOn(g, g.open) /\ Sorted(g) /\ g.open \in SUBSET Buffer
      /\ \A c \in g.open : g.number[c] \in Int
  BY TypeFacts DEF Fine, Sound, Listed
<1>1. left \in SUBSET g.open
  BY DEF After
<1>2. b \in left /\ \A c \in left : c = b \/ b \in g.before[c]
  BY <1>0, <1>1, FirstOfIs
<1>3. b \in g.open /\ Merged(g, b) /\ (b = from \/ from \in g.before[b])
  BY <1>1, <1>2 DEF After
<1>4. ASSUME NEW c \in g.open, g.number[c] = g.number[b], c # b PROVE b \in g.before[c]
  <2>1. Merged(g, c)
    BY <1>3, <1>4, MatesAre
  <2>2. c \in After(g, from) \cup {from}
    <3>1. CASE c \in g.before[from]
      <4>1. g.number[c] <= g.number[from]
        BY <3>1, <1>0 DEF Sorted
      <4>2. g.number[from] <= g.number[b]
        BY <1>0, <1>3 DEF Sorted
      <4>3. g.number[c] = g.number[from]
        BY <4>1, <4>2, <1>0, <1>3, <1>4
      <4> QED BY <3>1, <4>3 DEF Heads
    <3>2. CASE c \notin g.before[from]
      BY <3>2, <1>0 DEF LinkedOn, After
    <3> QED BY <3>1, <3>2
  <2> QED BY <2>1, <2>2, <1>2, <1>4
<1>5. PICK x \in g.open : g.number[x] = g.number[b] /\ x # b
  BY <1>3, MatesAre
<1> DEFINE next == FirstOf(g, After(g, b))
<1>6. x \in After(g, b) /\ After(g, b) \in SUBSET g.open
  BY <1>4, <1>5 DEF After
<1>7. next \in After(g, b) /\ \A c \in After(g, b) : c = next \/ next \in g.before[c]
  BY <1>0, <1>6, FirstOfIs
<1> HIDE DEF next
<1>8. next \in g.open /\ b \in g.before[next] /\ next # b
  BY <1>7, <1>0 DEF After, LinkedOn
<1>9. g.number[next] = g.number[b]
  <2>1. g.number[b] <= g.number[next]
    BY <1>0, <1>8 DEF Sorted
  <2>2. g.number[next] <= g.number[x]
    BY <1>0, <1>5, <1>6, <1>7 DEF Sorted
  <2> QED BY <2>1, <2>2, <1>0, <1>3, <1>5, <1>8
<1>10. PICK number \in Int : number = -1
  OBVIOUS
<1>11. h = Unmerge(g, b, number)
  BY <1>10
<1>12. Goes(g, h) /\ h.open = g.open
  BY <1>3, <1>11, UnmergeGoes
<1>13. /\ UnmergedIn(g, h, b) /\ Listed(h)
  BY <1>0, <1>3, <1>11, UnmergeIs
<1>14. SameOrder(g, h, g.open \ {b})
  BY <1>0, <1>3, <1>11, UnmergeOrder
<1>15. ASSUME NEW c \in h.before[next], h.number[c] = h.number[next] PROVE FALSE
  <2>1. c \in g.open /\ c # next
    BY <1>8, <1>12, <1>13 DEF Listed, LinkedOn
  <2>2. c \in Mates(h, next)
    BY <2>1, <1>12, <1>15 DEF Mates, Group
  <2>3. c \in Mates(g, next) \ {b}
    BY <2>2, <1>8, <1>13 DEF UnmergedIn
  <2>4. c # b /\ g.number[c] = g.number[b]
    BY <2>3, <1>9 DEF Mates, Group
  <2>5. c \in After(g, b)
    BY <2>1, <2>4, <1>4 DEF After
  <2>6. next \in g.before[c]
    BY <2>1, <2>5, <1>7
  <2>7. c \in g.before[next]
    BY <2>1, <2>4, <1>8, <1>14, <1>15 DEF SameOrder
  <2> QED BY <2>1, <2>6, <2>7, <1>0, <1>8 DEF LinkedOn
<1>16. Heads(h, next)
  BY <1>15 DEF Heads
<1> QED BY <1>3, <1>8, <1>12, <1>16 DEF next

-----------------------------------------------------------------------------
(* The inductive invariant, and that every step keeps it.                  *)
Held ==
    /\ Fine(gui) /\ gui.shown = {} /\ \A b \in gui.open : gui.number[b] <= MaxNumber
    /\ ~tangled => Clean(gui) /\ unread \subseteq gui.hotlist
    /\ unread \subseteq Buffer /\ auto_renumber \in BOOLEAN /\ tangled \in BOOLEAN /\ ops \in 0 .. MaxOps

\* gui_buffer_unmerge_all is at the first buffer of a group.
Looping == unmerging # None => unmerging \in gui.open /\ Heads(gui, unmerging)

\* The windows that still get a buffer get the one that the layout names, which
\* is open.
Assigning ==
    /\ layout_buffer \in [Window -> Buffer \cup {None}]
    /\ \A w \in DOMAIN assigning : /\ w \in DOMAIN gui.window
                                   /\ assigning[w] \in gui.open /\ assigning[w] = layout_buffer[w]
    /\ DOMAIN assigning # {} => unmerging = None

IInv == Held /\ Looping /\ Assigning

\* What a step does to the windows.
WindowsStep ==
    /\ \A w \in DOMAIN gui.window :
          w \in DOMAIN gui'.window /\ gui'.window[w] # gui.window[w] =>
              \/ gui.window[w] \notin gui'.open
              \/ w \in DOMAIN assigning /\ gui'.window[w] = layout_buffer[w]
              \/ /\ DOMAIN assigning = {}
                 /\ gui'.open = gui.open /\ gui'.before = gui.before /\ gui'.number = gui.number
    /\ gui'.open # gui.open =>
          \A w \in DOMAIN assigning' : layout_buffer[w] \in gui'.open \ gui.open

LEMMA KeptStep ==
    ASSUME Kept(gui, gui'), DOMAIN assigning = {},
           gui'.open # gui.open => \A w \in DOMAIN assigning' : layout_buffer[w] \in gui'.open \ gui.open
    PROVE  WindowsStep
BY DEF Kept, WindowsStep, SameList

\* A step outside the loops of gui-layout.c.
LEMMA NotAssigning ==
    ASSUME Assigning, UNCHANGED layout_vars, DOMAIN assigning = {}
    PROVE  Assigning' /\ DOMAIN assigning' = {}
BY DEF Assigning, layout_vars

\* The interface once an operation has displayed what it does.
Emptied(g) == [g EXCEPT !.shown = {}]

LEMMA EmptiedIs ==
    ASSUME NEW g \in Interface, NEW h, h = Emptied(g)
    PROVE  /\ h \in Interface /\ SameList(g, h) /\ SameLook(g, h) /\ SameCount(g, h) /\ h.shown = {}
           /\ h.window = g.window /\ h.current = g.current
           /\ h.visited = g.visited /\ h.visited_index = g.visited_index
           /\ h.hotlist = g.hotlist /\ h.initial_buffer = g.initial_buffer
           /\ h.last_displayed = g.last_displayed
BY DEF Emptied, Interface, SameList, SameLook, SameCount

LEMMA EmptiedFine ==
    ASSUME NEW g, Fine(g), NEW h, h = Emptied(g)
    PROVE  /\ Fine(h) /\ (Clean(g) => Clean(h)) /\ h.shown = {} /\ h.hotlist = g.hotlist /\ h.window = g.window
           /\ SameList(g, h)
<1>1. g \in Interface /\ Sound(g) /\ Alive(g) /\ Core \in g.open /\ DOMAIN g.window \subseteq Window
  BY DEF Fine, Sound
<1>2. /\ h \in Interface /\ SameList(g, h) /\ SameLook(g, h) /\ SameCount(g, h) /\ h.shown = {}
      /\ h.window = g.window /\ h.current = g.current
      /\ h.visited = g.visited /\ h.visited_index = g.visited_index
      /\ h.hotlist = g.hotlist /\ h.initial_buffer = g.initial_buffer
      /\ h.last_displayed = g.last_displayed
  BY <1>1, EmptiedIs
<1>3. Sound(h) /\ (Clean(g) => Clean(h))
  BY <1>1, <1>2, SameSound DEF SameLook
<1>4. h.open = g.open
  BY <1>2 DEF SameList
<1>5. Alive(h)
  BY <1>1, <1>2, <1>4 DEF Alive, VisitOnce
<1>6. Fine(h)
  BY <1>1, <1>2, <1>3, <1>4, <1>5 DEF Fine
<1> QED BY <1>2, <1>3, <1>6

\* The buffers are renumbered as the option says.
Numbered(h) == auto_renumber' => Dense(h)

LEMMA BecomesHeld ==
    ASSUME Held, NEW h, Goes(gui, h), Becomes(h), auto_renumber' \in BOOLEAN, Numbered(h),
           ops' \in 0 .. MaxOps
    PROVE  Held' /\ Kept(gui, gui') /\ SameList(h, gui') /\ gui'.window = h.window
<1> DEFINE v == Emptied(h)
<1>1. Fine(h) /\ Kept(gui, h)
  BY DEF Goes
<1>2. /\ Fine(v) /\ (Clean(h) => Clean(v)) /\ v.shown = {} /\ v.hotlist = h.hotlist /\ v.window = h.window
      /\ SameList(h, v)
  BY <1>1, EmptiedFine
<1>3. gui' = v
  BY DEF Becomes, Emptied
<1> HIDE DEF v
<1>4. v.open = h.open /\ v.before = h.before /\ v.number = h.number
  BY <1>2 DEF SameList
<1>5. Numbered(v)
  BY <1>4 DEF Numbered, Dense
<1>6. Fine(gui)'
  BY <1>2, <1>3, <1>5 DEF Fine, Sound, Listed, Numbered
<1>7. \A b \in v.open : v.number[b] <= MaxNumber
  BY <1>4 DEF Becomes
<1>8. tangled' \in BOOLEAN /\ (~tangled' => ~tangled /\ Untouched(gui, h))
  <2>1. tangled' = (tangled \/ \E b \in gui.open : gui.active[b] = 2 /\ Mates(h, b) # Mates(gui, b))
    BY DEF Becomes
  <2> QED BY <2>1 DEF Untouched, Held
<1>9. ASSUME ~tangled' PROVE Clean(v) /\ unread' \subseteq v.hotlist
  <2>1. Clean(gui) /\ unread \subseteq gui.hotlist /\ Untouched(gui, h)
    BY <1>8, <1>9 DEF Held
  <2>2. Clean(h) /\ Seen(gui, h)
    BY <2>1 DEF Goes
  <2>3. unread' = {b \in (unread \cap h.open) \ h.shown : ~Visible(h, b)}
    BY DEF Becomes
  <2>4. \A b \in unread' : b \in h.hotlist
    BY <2>1, <2>2, <2>3 DEF Seen
  <2> QED BY <2>2, <2>4, <1>2
<1>10. unread' \subseteq Buffer
  BY DEF Becomes, Held
<1>11. Held'
  BY <1>2, <1>3, <1>6, <1>7, <1>8, <1>9, <1>10 DEF Held
<1>12. Kept(gui, gui') /\ gui'.window = h.window
  BY <1>1, <1>2, <1>3, <1>4 DEF Kept, SameList
<1> QED BY <1>2, <1>3, <1>11, <1>12

\* What the user does.
LEMMA ActStep ==
    ASSUME IInv, NEW h, Goes(gui, h), Act, Becomes(h), auto_renumber' = auto_renumber, unmerging' = unmerging
    PROVE  /\ Held' /\ Looping' /\ Kept(gui, gui') /\ SameList(h, gui') /\ gui'.window = h.window
           /\ DOMAIN assigning = {} /\ unmerging' = None
<1>1. /\ unmerging = None /\ DOMAIN assigning = {} /\ ops' = ops + 1 /\ ops < MaxOps
  BY DEF Act
<1>2. auto_renumber' \in BOOLEAN /\ ops' \in 0 .. MaxOps
  BY <1>1, GuiAssumption DEF IInv, Held
<1>3. Numbered(h)
  BY DEF Goes, Fine, Sound, Listed, Numbered
<1>4. Held' /\ Kept(gui, gui') /\ SameList(h, gui') /\ gui'.window = h.window
  BY <1>1, <1>2, <1>3, BecomesHeld DEF IInv
<1> QED BY <1>1, <1>4 DEF Looping

LEMMA OperationStep ==
    ASSUME IInv, NEW h, Goes(gui, h), Operation(h)
    PROVE  IInv' /\ WindowsStep
<1>1. Act /\ Becomes(h) /\ auto_renumber' = auto_renumber /\ unmerging' = unmerging /\ UNCHANGED layout_vars
  BY DEF Operation
<1>2. Held' /\ Looping' /\ Kept(gui, gui') /\ DOMAIN assigning = {}
  BY <1>1, ActStep
<1>3. Assigning' /\ DOMAIN assigning' = {}
  BY <1>1, <1>2, NotAssigning DEF IInv
<1> QED BY <1>2, <1>3, KeptStep DEF IInv

LEMMA ListStep ==
    ASSUME IInv, List
    PROVE  IInv' /\ WindowsStep
<1>0. /\ Fine(gui) /\ gui \in Interface /\ Listed(gui) /\ Outside(gui) /\ gui.open \in SUBSET Buffer
      /\ Core \in gui.open /\ MaxNumber \in Int /\ auto_renumber \in BOOLEAN
  BY GuiAssumption, TypeFacts DEF IInv, Held, Fine, Sound
<1>1. ASSUME NEW b \in Buffer, BufferNew(b) PROVE IInv' /\ WindowsStep
  <2>1. PICK h : h = InsertBuffer(gui, b)
    OBVIOUS
  <2>2. /\ b \in Buffer \ gui.open /\ Act /\ Becomes(h) /\ assigning' = Assigned(h, b)
        /\ auto_renumber' = auto_renumber /\ unmerging' = unmerging /\ layout_buffer' = layout_buffer
    BY <1>1, <2>1 DEF BufferNew
  <2>3. Goes(gui, h) /\ h.open = gui.open \cup {b}
    BY <1>0, <2>1, <2>2, InsertBufferGoes
  <2>4. /\ Held' /\ Looping' /\ Kept(gui, gui') /\ gui'.open = h.open /\ gui'.window = h.window
        /\ DOMAIN assigning = {} /\ unmerging' = None
    BY <2>2, <2>3, ActStep DEF SameList
  <2>5. /\ DOMAIN assigning' = {w \in DOMAIN gui'.window : layout_buffer[w] = b}
        /\ \A w \in DOMAIN assigning' : assigning'[w] = b
    BY <2>2, <2>4 DEF Assigned
  <2>6. Assigning'
    BY <2>2, <2>3, <2>4, <2>5 DEF IInv, Assigning
  <2>7. WindowsStep
    BY <2>2, <2>3, <2>4, <2>5, KeptStep
  <2> QED BY <2>4, <2>6, <2>7 DEF IInv
<1>2. ASSUME NEW b \in Buffer, BufferClose(b) PROVE IInv' /\ WindowsStep
  <2>1. PICK h : h = CloseBuffer(gui, b)
    OBVIOUS
  <2>2. Goes(gui, h) /\ Operation(h)
    BY <1>0, <1>2, <2>1, CloseBufferGoes DEF BufferClose
  <2> QED BY <2>2, OperationStep
<1>3. ASSUME NEW b \in gui.open, BufferHide(b) PROVE IInv' /\ WindowsStep
  <2>1. PICK h : h = [gui EXCEPT !.hidden = [@ EXCEPT ![b] = ~gui.hidden[b]]]
    OBVIOUS
  <2>2. Goes(gui, h) /\ Operation(h)
    BY <1>0, <1>3, <2>1, HideGoes DEF BufferHide
  <2> QED BY <2>2, OperationStep
<1>4. ASSUME NEW b \in gui.open, NEW number \in 1 .. MaxNumber, BufferMove(b, number) PROVE IInv' /\ WindowsStep
  <2>1. PICK h : h = MoveToNumber(gui, b, number)
    OBVIOUS
  <2>2. number \in Int /\ number >= 1
    BY <1>0
  <2>3. Goes(gui, h) /\ Operation(h)
    BY <1>0, <1>4, <2>1, <2>2, MoveToNumberIs, RearrangedGoes DEF BufferMove
  <2> QED BY <2>3, OperationStep
<1>5. ASSUME NEW b \in gui.open, NEW number \in Int, BufferUnmerge(b, number) PROVE IInv' /\ WindowsStep
  <2>1. PICK h : h = Unmerge(gui, b, number)
    OBVIOUS
  <2>2. Goes(gui, h) /\ Operation(h)
    BY <1>0, <1>5, <2>1, UnmergeGoes DEF BufferUnmerge
  <2> QED BY <2>2, OperationStep
<1>6. ASSUME NEW b \in gui.open, NEW c \in gui.open, BufferSwap(b, c) PROVE IInv' /\ WindowsStep
  <2>1. PICK h : h = Swap(gui, gui.number[b], gui.number[c])
    OBVIOUS
  <2>2. Goes(gui, h) /\ Operation(h)
    BY <1>0, <1>6, <2>1, SwapIs, RearrangedGoes DEF BufferSwap
  <2> QED BY <2>2, OperationStep
<1>7. ASSUME NEW b \in gui.open, NEW c \in gui.open, BufferMerge(b, c) PROVE IInv' /\ WindowsStep
  <2>1. PICK h : h = Merge(gui, b, c)
    OBVIOUS
  <2>2. Goes(gui, h) /\ Operation(h)
    BY <1>0, <1>7, <2>1, MergeGoes DEF BufferMerge
  <2> QED BY <2>2, OperationStep
<1>8. ASSUME BufferUnmergeAll PROVE IInv' /\ WindowsStep
  <2>1. /\ unmerging' = FirstOf(gui, gui.open) /\ ops' = ops + 1 /\ ops < MaxOps
        /\ gui' = gui /\ auto_renumber' = auto_renumber /\ unread' = unread /\ tangled' = tangled
    BY <1>8 DEF BufferUnmergeAll, Act
  <2>7. UNCHANGED layout_vars /\ DOMAIN assigning = {}
    BY <1>8 DEF BufferUnmergeAll, Act
  <2>8. Assigning' /\ DOMAIN assigning' = {}
    BY <2>7, NotAssigning DEF IInv
  <2>2. FirstOf(gui, gui.open) \in gui.open /\ Heads(gui, FirstOf(gui, gui.open))
    BY <1>0, HeadsFirst
  <2>3. ops' \in 0 .. MaxOps
    BY <2>1, GuiAssumption DEF IInv, Held
  <2>4. Held'
    BY <2>1, <2>3 DEF IInv, Held, Fine, Sound, Listed
  <2>5. Looping'
    BY <2>1, <2>2 DEF Looping
  <2>6. WindowsStep
    BY <2>1 DEF WindowsStep
  <2> QED BY <2>4, <2>5, <2>6, <2>8 DEF IInv
<1>9. ASSUME UnmergeNext PROVE IInv' /\ WindowsStep
  <2> DEFINE left == {b \in After(gui, unmerging) \cup {unmerging} : Merged(gui, b)}
             b == FirstOf(gui, left)
  <2>1. unmerging \in gui.open /\ Heads(gui, unmerging) /\ auto_renumber' = auto_renumber /\ ops' = ops
    BY <1>9 DEF UnmergeNext, IInv, Looping
  <2>5. UNCHANGED layout_vars /\ DOMAIN assigning = {}
    BY <1>9 DEF UnmergeNext, IInv, Assigning
  <2>6. Assigning' /\ DOMAIN assigning' = {}
    BY <2>5, NotAssigning DEF IInv
  <2>2. ops' \in 0 .. MaxOps /\ auto_renumber' \in BOOLEAN
    BY <2>1 DEF IInv, Held
  <2>3. CASE left = {}
    <3>1. unmerging' = None /\ gui' = gui /\ unread' = unread /\ tangled' = tangled
      BY <1>9, <2>3 DEF UnmergeNext
    <3>2. Held'
      BY <2>1, <3>1 DEF IInv, Held, Fine, Sound, Listed
    <3>3. Looping' /\ WindowsStep
      BY <3>1 DEF Looping, WindowsStep
    <3> QED BY <3>2, <3>3, <2>6 DEF IInv
  <2>4. CASE left # {}
    <3>1. PICK h : h = Unmerge(gui, b, -1)
      OBVIOUS
    <3>2. unmerging' = FirstOf(gui, After(gui, b)) /\ Becomes(h)
      BY <1>9, <2>4, <3>1 DEF UnmergeNext
    <3>3. /\ Goes(gui, h)
          /\ FirstOf(gui, After(gui, b)) \in h.open /\ Heads(h, FirstOf(gui, After(gui, b)))
      BY <1>0, <2>1, <2>4, <3>1, UnmergeNextHeads
    <3>4. Numbered(h)
      BY <2>1, <3>3 DEF Goes, Fine, Sound, Listed, Numbered
    <3>5. Held' /\ Kept(gui, gui') /\ SameList(h, gui')
      BY <2>2, <3>2, <3>3, <3>4, BecomesHeld DEF IInv
    <3> HIDE DEF b
    <3>6. Looping'
      BY <3>2, <3>3, <3>5 DEF Looping, Heads, SameList
    <3>7. WindowsStep
      BY <2>5, <2>6, <3>5, KeptStep
    <3> QED BY <2>6, <3>5, <3>6, <3>7 DEF IInv
  <2> QED BY <2>3, <2>4
<1>10. ASSUME SetAutoRenumber PROVE IInv' /\ WindowsStep
  <2>1. /\ auto_renumber' = ~auto_renumber /\ ops' = ops + 1 /\ ops < MaxOps /\ unmerging' = None
    BY <1>10 DEF SetAutoRenumber, Act
  <2>7. UNCHANGED layout_vars /\ DOMAIN assigning = {}
    BY <1>10 DEF SetAutoRenumber, Act
  <2>8. Assigning' /\ DOMAIN assigning' = {}
    BY <2>7, NotAssigning DEF IInv
  <2>2. ops' \in 0 .. MaxOps /\ auto_renumber' \in BOOLEAN
    BY <2>1, <1>0, GuiAssumption DEF IInv, Held
  <2>3. PICK h : h = IF auto_renumber THEN gui ELSE Renumber(gui, 1, MaxNumber, 1)
    OBVIOUS
  <2>4. Becomes(h)
    BY <1>10, <2>3 DEF SetAutoRenumber
  <2>5. Goes(gui, h) /\ Numbered(h)
    <3>1. CASE auto_renumber
      BY <1>0, <2>1, <2>3, <3>1, GoesNowhere DEF Numbered
    <3>2. CASE ~auto_renumber
      <4>1. PICK one \in Int : one = 1
        OBVIOUS
      <4>2. h = Renumber(gui, one, MaxNumber, one)
        BY <2>3, <3>2, <4>1
      <4>3. /\ Rearranged(gui, h) /\ LinkedOn(h, h.open) /\ Sorted(h) /\ Positive(h)
            /\ (one = 1 /\ (\A b \in gui.open : gui.number[b] \in one .. MaxNumber)) => Dense(h)
        BY <1>0, <4>2, RenumberIs
      <4>4. \A b \in gui.open : gui.number[b] \in one .. MaxNumber
        <5>1. \A b \in gui.open : gui.number[b] \in Int /\ gui.number[b] >= 1 /\ gui.number[b] <= MaxNumber
          BY <1>0, TypeFacts DEF Listed, Positive, IInv, Held
        <5> QED BY <5>1, <4>1, <1>0
      <4>5. Listed(h) /\ Dense(h)
        BY <3>2, <4>1, <4>3, <4>4 DEF Listed
      <4> QED BY <1>0, <4>3, <4>5, RearrangedGoes DEF Numbered
    <3> QED BY <3>1, <3>2
  <2>6. Held' /\ Kept(gui, gui')
    BY <2>2, <2>4, <2>5, BecomesHeld DEF IInv
  <2>9. WindowsStep
    BY <2>6, <2>7, <2>8, KeptStep
  <2> QED BY <2>1, <2>6, <2>8, <2>9 DEF IInv, Looping
<1>11. ASSUME NEW number1 \in 1 .. MaxNumber, NEW number2 \in 1 .. MaxNumber, NEW start_number \in Int,
              BufferRenumber(number1, number2, start_number)
       PROVE  IInv' /\ WindowsStep
  <2>1. PICK h : h = Renumber(gui, number1, number2, start_number)
    OBVIOUS
  <2>2. ~auto_renumber /\ Operation(h)
    BY <1>11, <2>1 DEF BufferRenumber
  <2>3. Rearranged(gui, h) /\ LinkedOn(h, h.open) /\ Sorted(h) /\ Positive(h)
    BY <1>0, <2>1, RenumberIs
  <2>4. Goes(gui, h)
    BY <1>0, <2>2, <2>3, RearrangedGoes DEF Listed
  <2> QED BY <2>2, <2>4, OperationStep
<1>12. \A n \in 1 .. MaxNumber : n \in Int
  BY <1>0
<1>13. -1 \in Int
  OBVIOUS
<1> QED BY <1>1, <1>2, <1>3, <1>4, <1>5, <1>6, <1>7, <1>8, <1>9, <1>10, <1>11, <1>12, <1>13 DEF List

\* Windows are split or merged.
LEMMA SplitStep ==
    ASSUME IInv, NEW h, Goes(gui, h), Act, Becomes(h), auto_renumber' = auto_renumber, unmerging' = unmerging,
           assigning' = assigning, layout_buffer' \in [Window -> Buffer \cup {None}]
    PROVE  IInv' /\ WindowsStep
<1>1. Held' /\ Looping' /\ Kept(gui, gui') /\ DOMAIN assigning = {}
  BY ActStep
<1>2. Assigning'
  BY <1>1 DEF Assigning
<1>3. WindowsStep
  BY <1>1, KeptStep
<1> QED BY <1>1, <1>2, <1>3 DEF IInv

\* A layout is applied: its windows are made, and those whose buffer is open
\* will get it.
LEMMA LayoutApplyStep ==
    ASSUME IInv, NEW names \in WindowLayouts, LayoutApply(names)
    PROVE  IInv' /\ WindowsStep
<1> DEFINE alone == Len(gui.window) = 1 /\ Len(names) = 1
<1>0. /\ Fine(gui) /\ gui \in Interface /\ gui.window \in Seq(Buffer)
      /\ names \in Seq(Buffer) /\ names # <<>> /\ DOMAIN names \subseteq Window
  BY GuiAssumption DEF IInv, Held, Fine, Sound, Interface
<1>1. PICK here : here = gui.window[gui.current]
  OBVIOUS
<1>a. PICK window : window = [w \in DOMAIN names |-> here]
  OBVIOUS
<1>b. /\ window \in Seq(Buffer) /\ DOMAIN window = DOMAIN names /\ 1 \in DOMAIN window
      /\ here \in gui.open /\ \A w \in DOMAIN window : window[w] \in gui.open
  <2>1. here \in gui.open /\ here \in Buffer
    BY <1>0, <1>1, TypeFacts DEF Fine, Alive
  <2>2. DOMAIN names = 1 .. Len(names) /\ Len(names) \in Nat /\ 1 \in DOMAIN names
    BY <1>0
  <2> QED BY <1>a, <2>1, <2>2
<1>c. PICK g : g = [gui EXCEPT !.window = window, !.current = 1]
  OBVIOUS
<1>2. PICK k : k = SwitchToBuffer(g, 1, here, FALSE)
  OBVIOUS
<1>3. PICK h : h = IF alone THEN gui ELSE k
  OBVIOUS
<1>4. /\ Act /\ Becomes(h) /\ auto_renumber' = auto_renumber /\ unmerging' = unmerging
      /\ layout_buffer' = [w \in Window |-> IF w \in DOMAIN names THEN names[w] ELSE None]
      /\ assigning' = [w \in {v \in DOMAIN names : names[v] \in gui.open} |-> names[w]]
  BY <1>1, <1>a, <1>c, <1>2, <1>3 DEF LayoutApply, Here
<1>5. Goes(gui, h) /\ DOMAIN h.window = DOMAIN names /\ h.open = gui.open
  <2>1. CASE alone
    <3>1. Goes(gui, gui)
      BY <1>0, GoesNowhere
    <3> QED BY <1>0, <1>3, <2>1, <3>1
  <2>2. CASE ~alone
    <3>1. Goes(gui, k) /\ DOMAIN k.window = DOMAIN names /\ k.open = gui.open
      <4>1. PICK one \in DOMAIN window : one = 1
        BY <1>b
      <4>2. g = [gui EXCEPT !.window = window, !.current = one] /\ k = SwitchToBuffer(g, one, here, FALSE)
        BY <1>c, <1>2, <4>1
      <4>3. Goes(gui, k)
        BY <1>0, <1>b, <4>2, WindowGoes
      <4>4. Arranged(gui, k, window)
        BY <1>0, <1>b, <4>2, WindowArranged
      <4> QED BY <1>b, <4>3, <4>4 DEF Arranged
    <3> QED BY <1>3, <2>2, <3>1
  <2> QED BY <2>1, <2>2
<1>6. /\ Held' /\ Looping' /\ Kept(gui, gui') /\ gui'.open = gui.open /\ DOMAIN gui'.window = DOMAIN names
      /\ DOMAIN assigning = {} /\ unmerging' = None
  BY <1>4, <1>5, ActStep DEF SameList
<1>7. Assigning'
  <2>1. \A w \in DOMAIN names : names[w] \in Buffer
    BY <1>0
  <2>2. layout_buffer' \in [Window -> Buffer \cup {None}]
    BY <1>4, <2>1
  <2>3. ASSUME NEW w \in DOMAIN assigning'
        PROVE  /\ w \in DOMAIN gui'.window
               /\ assigning'[w] \in gui'.open /\ assigning'[w] = layout_buffer'[w]
    BY <1>0, <1>4, <1>6, <2>3
  <2> QED BY <1>6, <2>2, <2>3 DEF Assigning
<1>8. WindowsStep
  BY <1>6, KeptStep
<1> QED BY <1>6, <1>7, <1>8 DEF IInv

LEMMA LayoutResetStep ==
    ASSUME IInv, LayoutReset
    PROVE  IInv' /\ WindowsStep
<1>1. /\ DOMAIN assigning = {} /\ ops < MaxOps /\ ops' = ops + 1 /\ unmerging = None
      /\ layout_buffer' = [w \in Window |-> None] /\ gui' = gui /\ auto_renumber' = auto_renumber
      /\ unmerging' = unmerging /\ assigning' = assigning /\ unread' = unread /\ tangled' = tangled
  BY DEF LayoutReset, Act
<1>2. ops' \in 0 .. MaxOps
  BY <1>1, GuiAssumption DEF IInv, Held
<1>3. Held'
  BY <1>1, <1>2 DEF IInv, Held, Fine, Sound, Listed
<1>4. Looping' /\ Assigning'
  BY <1>1 DEF Looping, Assigning
<1>5. WindowsStep
  BY <1>1 DEF WindowsStep
<1> QED BY <1>3, <1>4, <1>5 DEF IInv

\* A window gets the buffer that its layout names.
LEMMA AssignNextStep ==
    ASSUME IInv, AssignNext
    PROVE  IInv' /\ WindowsStep
<1>0. Fine(gui) /\ gui \in Interface /\ Alive(gui)
  BY DEF IInv, Held, Fine, Sound
<1>1. PICK w \in DOMAIN assigning :
          /\ Becomes(SwitchToBuffer(gui, w, assigning[w], FALSE))
          /\ assigning' = [v \in DOMAIN assigning \ {w} |-> assigning[v]]
          /\ UNCHANGED <<auto_renumber, unmerging, layout_buffer, ops>>
  BY DEF AssignNext
<1>2. PICK b : b = assigning[w]
  OBVIOUS
<1>3. PICK h : h = SwitchToBuffer(gui, w, b, FALSE)
  OBVIOUS
<1>4. w \in DOMAIN gui.window /\ b \in gui.open /\ b = layout_buffer[w] /\ unmerging = None
  BY <1>2 DEF IInv, Assigning
<1>5. Becomes(h) /\ auto_renumber' = auto_renumber /\ unmerging' = unmerging /\ ops' = ops
  BY <1>1, <1>2, <1>3
<1>6. Goes(gui, h)
  BY <1>0, <1>3, <1>4, SwitchGoes
<1>7. SameList(gui, h) /\ DOMAIN h.window = DOMAIN gui.window /\ Shows(gui, h, {w}, b)
  <2>1. gui.window[w] \in gui.open /\ {w} \in SUBSET DOMAIN gui.window /\ {w} # {} /\ Steady(gui)
    BY <1>0, <1>4, FineSteady DEF Alive
  <2>2. Switched(gui, h, b) /\ Shows(gui, h, {w}, b)
    BY <1>0, <1>3, <1>4, <2>1, SwitchedIs DEF SwitchToBuffer
  <2> QED BY <2>2 DEF Switched
<1>8. ops' \in 0 .. MaxOps /\ auto_renumber' \in BOOLEAN /\ Numbered(h)
  BY <1>5, <1>6 DEF IInv, Held, Goes, Fine, Sound, Listed, Numbered
<1>9. Held' /\ SameList(h, gui') /\ gui'.window = h.window
  BY <1>5, <1>6, <1>8, BecomesHeld DEF IInv
<1>10. Looping'
  BY <1>4, <1>5 DEF Looping
<1>11. gui'.open = gui.open /\ DOMAIN gui'.window = DOMAIN gui.window
  BY <1>7, <1>9 DEF SameList
<1>12. Assigning'
  <2>1. layout_buffer' = layout_buffer /\ unmerging' = None
    BY <1>1, <1>4
  <2>2. ASSUME NEW v \in DOMAIN assigning' PROVE v \in DOMAIN assigning /\ assigning'[v] = assigning[v]
    BY <1>1
  <2> QED BY <1>11, <2>1, <2>2 DEF IInv, Assigning
<1>13. WindowsStep
  <2>1. \A v \in DOMAIN gui.window : gui'.window[v] = IF v = w THEN b ELSE gui.window[v]
    BY <1>7, <1>9 DEF Shows
  <2> QED BY <1>4, <1>11, <2>1 DEF WindowsStep
<1> QED BY <1>9, <1>10, <1>12, <1>13 DEF IInv

LEMMA MovesStep ==
    ASSUME IInv, Moves
    PROVE  IInv' /\ WindowsStep
<1>0. /\ Fine(gui) /\ gui \in Interface /\ LinkedOn(gui, gui.open) /\ Alive(gui)
      /\ gui.current \in DOMAIN gui.window /\ Here \in gui.open /\ Here = gui.window[gui.current]
      /\ gui.window \in Seq(Buffer) /\ Here \in Buffer
  BY TypeFacts DEF IInv, Held, Fine, Sound, Listed, Alive, Here, Interface
<1>1. ASSUME NEW b \in gui.open, Jump(b) PROVE IInv' /\ WindowsStep
  <2>1. PICK h : h = SwitchToBuffer(gui, gui.current, b, FALSE)
    OBVIOUS
  <2>2. Goes(gui, h) /\ Operation(h)
    BY <1>0, <1>1, <2>1, SwitchGoes DEF Jump
  <2> QED BY <2>2, OperationStep
<1>2. ASSUME NEW n, Operation(SwitchByNumber(gui, gui.current, n, FALSE)) PROVE IInv' /\ WindowsStep
  <2>1. PICK h : h = SwitchByNumber(gui, gui.current, n, FALSE)
    OBVIOUS
  <2>2. Goes(gui, h) /\ Operation(h)
    BY <1>0, <1>2, <2>1, SwitchByNumberGoes
  <2> QED BY <2>2, OperationStep
<1>3. ASSUME NEW b \in gui.open, JumpNumber(b) PROVE IInv' /\ WindowsStep
  BY <1>2, <1>3 DEF JumpNumber
<1>4. ASSUME JumpLastDisplayed PROVE IInv' /\ WindowsStep
  BY <1>2, <1>4 DEF JumpLastDisplayed
<1>5. ASSUME NEW index, JumpVisited(index), index >= 0 => index \in 0 .. Len(gui.visited) - 1
      PROVE  IInv' /\ WindowsStep
  <2>1. PICK number : number = gui.number[gui.visited[index + 1]]
    OBVIOUS
  <2>2. PICK h : h = SwitchByNumber([gui EXCEPT !.visited_index = index], gui.current, number, TRUE)
    OBVIOUS
  <2>3. Operation(h) /\ index \in 0 .. Len(gui.visited) - 1
    BY <1>5, <2>1, <2>2 DEF JumpVisited
  <2>4. Goes(gui, h)
    BY <1>0, <2>2, <2>3, JumpVisitedGoes
  <2> QED BY <2>3, <2>4, OperationStep
<1>6. ASSUME JumpSmart PROVE IInv' /\ WindowsStep
  <2>1. ASSUME NEW b \in gui.hotlist,
               Operation(HotlistRemove(SwitchToBuffer(
                  [gui EXCEPT !.initial_buffer = IF @ = None THEN Here ELSE @], gui.current, b, FALSE), b, FALSE))
        PROVE  IInv' /\ WindowsStep
    <3>1. PICK k : k = [gui EXCEPT !.initial_buffer = IF @ = None THEN gui.window[gui.current] ELSE @]
      OBVIOUS
    <3>2. PICK h : h = HotlistRemove(SwitchToBuffer(k, gui.current, b, FALSE), b, FALSE)
      OBVIOUS
    <3>3. Goes(gui, h) /\ Operation(h)
      BY <1>0, <2>1, <3>1, <3>2, SmartGoes DEF Here
    <3> QED BY <3>3, OperationStep
  <2>2. ASSUME gui.initial_buffer # None,
               Operation([SwitchToBuffer(gui, gui.current, gui.initial_buffer, FALSE) EXCEPT !.initial_buffer = None])
        PROVE  IInv' /\ WindowsStep
    <3>1. PICK h : h = [SwitchToBuffer(gui, gui.current, gui.initial_buffer, FALSE) EXCEPT !.initial_buffer = None]
      OBVIOUS
    <3>2. Goes(gui, h) /\ Operation(h)
      BY <1>0, <2>2, <3>1, SmartBackGoes
    <3> QED BY <3>2, OperationStep
  <2> QED BY <1>6, <2>1, <2>2 DEF JumpSmart
<1>7. ASSUME NEW b, SwitchActive(b), b # None => b \in gui.open PROVE IInv' /\ WindowsStep
  <2>1. PICK h : h = SwitchToBuffer(SetActive(gui, b), gui.current, b, FALSE)
    OBVIOUS
  <2>2. Goes(gui, h) /\ Operation(h)
    BY <1>0, <1>7, <2>1, SwitchActiveGoes DEF SwitchActive
  <2> QED BY <2>2, OperationStep
<1>8. /\ NextActive(gui, Here) # None => NextActive(gui, Here) \in gui.open
      /\ PreviousActive(gui, Here) # None => PreviousActive(gui, Here) \in gui.open
  <2>1. NotHidden(gui, Here) \in SUBSET gui.open
    BY MatesAre DEF NotHidden
  <2>2. CASE NotHidden(gui, Here) = {}
    BY <2>2 DEF NextActive, PreviousActive, Following, Preceding
  <2>3. CASE NotHidden(gui, Here) # {}
    BY <1>0, <2>1, <2>3, FollowingIs DEF NextActive, PreviousActive
  <2> QED BY <2>2, <2>3
<1>9. ASSUME Zoom(Here) PROVE IInv' /\ WindowsStep
  <2> DEFINE b == Here
             k == IF gui.active[b] # 0 THEN gui
                  ELSE IF WindowWith(gui, b) = None THEN SetActive(gui, b)
                  ELSE SwitchToBuffer(SetActive(gui, b), WindowWith(gui, b), b, FALSE)
             active == 3 - k.active[b]
             h == ComputeNumDisplayed(
                        [k EXCEPT !.active = [@ EXCEPT ![b] = active],
                                  !.lines = [@ EXCEPT ![b] = IF active = 2 THEN "own" ELSE "mixed"],
                                  !.zoomed = [c \in Buffer |-> IF c \in Mates(k, b) THEN active = 2 ELSE @[c]]])
  <2>1. Merged(gui, b) /\ Operation(h)
    BY <1>9 DEF Zoom
  <2>2. b \in gui.open /\ b \in Buffer /\ b = gui.window[gui.current]
    BY <1>0
  <2> HIDE DEF b
  <2>3. Ready(gui, k, b)
    BY <1>0, <2>2, ZoomReady
  <2> HIDE DEF k
  <2>4. ZoomedIn(k, h, b)
    <3>1. k \in Interface /\ k.active[b] # 0
      BY <2>3 DEF Ready
    <3> QED BY <2>2, <3>1, ZoomedIs
  <2> HIDE DEF h
  <2>5. Goes(gui, h)
    BY <1>0, <2>2, <2>3, <2>1, <2>4, ZoomGoes
  <2> QED BY <2>1, <2>5, OperationStep
<1>10. ASSUME WindowSplit PROVE IInv' /\ WindowsStep
  <2>1. PICK w : w = Len(gui.window) + 1
    OBVIOUS
  <2>2. PICK here : here = gui.window[gui.current]
    OBVIOUS
  <2>3. PICK h : h = SwitchToBuffer([gui EXCEPT !.window = Append(@, here), !.current = w], w, here, FALSE)
    OBVIOUS
  <2>4. /\ w \in Window /\ Act /\ Becomes(h) /\ layout_buffer' = [layout_buffer EXCEPT ![w] = None]
        /\ auto_renumber' = auto_renumber /\ unmerging' = unmerging /\ assigning' = assigning
    BY <1>10, <2>1, <2>2, <2>3 DEF WindowSplit, Here
  <2>5. Goes(gui, h)
    BY <1>0, <2>1, <2>2, <2>3, <2>4, WindowSplitGoes
  <2>6. layout_buffer' \in [Window -> Buffer \cup {None}]
    BY <2>4 DEF IInv, Assigning
  <2> QED BY <2>4, <2>5, <2>6, SplitStep
<1>11. ASSUME WindowMerge PROVE IInv' /\ WindowsStep
  <2>1. PICK here : here = gui.window[gui.current]
    OBVIOUS
  <2>2. PICK h : h = SwitchToBuffer([gui EXCEPT !.window = <<here>>, !.current = 1], 1, here, FALSE)
    OBVIOUS
  <2>3. /\ Act /\ Becomes(h) /\ auto_renumber' = auto_renumber /\ unmerging' = unmerging /\ assigning' = assigning
        /\ layout_buffer' = [w \in Window |-> IF w = 1 THEN layout_buffer[gui.current] ELSE None]
    BY <1>11, <2>1, <2>2 DEF WindowMerge, Here
  <2>4. Goes(gui, h)
    BY <1>0, <2>1, <2>2, WindowMergeGoes
  <2>5. layout_buffer' \in [Window -> Buffer \cup {None}]
    BY <1>0, <2>3 DEF IInv, Assigning, Fine
  <2> QED BY <2>3, <2>4, <2>5, SplitStep
<1>12. ASSUME NEW w \in DOMAIN gui.window, WindowSwitch(w) PROVE IInv' /\ WindowsStep
  <2>1. PICK h : h = SwitchToBuffer([gui EXCEPT !.current = w], w, gui.window[w], FALSE)
    OBVIOUS
  <2>2. Goes(gui, h) /\ Operation(h)
    BY <1>0, <1>12, <2>1, WindowSwitchGoes DEF WindowSwitch
  <2> QED BY <2>2, OperationStep
<1>13. ASSUME NEW w \in DOMAIN gui.window, WindowSwap(w) PROVE IInv' /\ WindowsStep
  <2>1. PICK here : here = gui.window[gui.current]
    OBVIOUS
  <2>2. PICK h : h = SwitchToBuffer(SwitchToBuffer(gui, gui.current, gui.window[w], FALSE), w, here, FALSE)
    OBVIOUS
  <2>3. Goes(gui, h) /\ Operation(h)
    BY <1>0, <1>13, <2>1, <2>2, WindowSwapGoes DEF WindowSwap, Here
  <2> QED BY <2>3, OperationStep
<1>14. /\ VisitedPrevious(gui) >= 0 => VisitedPrevious(gui) \in 0 .. Len(gui.visited) - 1
       /\ VisitedNext(gui) >= 0 => VisitedNext(gui) \in 0 .. Len(gui.visited) - 1
  BY <1>0, VisitedPreviousIs, VisitedNextIs
<1>15. ASSUME NEW names \in WindowLayouts, LayoutApply(names) PROVE IInv' /\ WindowsStep
  BY <1>15, LayoutApplyStep
<1>16. ASSUME LayoutReset PROVE IInv' /\ WindowsStep
  BY <1>16, LayoutResetStep
<1>17. ASSUME AssignNext PROVE IInv' /\ WindowsStep
  BY <1>17, AssignNextStep
<1> QED BY <1>1, <1>3, <1>4, <1>5, <1>6, <1>7, <1>8, <1>9, <1>10, <1>11, <1>12, <1>13, <1>14,
           <1>15, <1>16, <1>17 DEF Moves

\* A message is printed in a buffer.
LEMMA LineAddStep ==
    ASSUME IInv, NEW b \in gui.open, LineAdd(b)
    PROVE  IInv' /\ WindowsStep
<1> DEFINE h == IF gui.num_displayed[b] = 0 THEN [gui EXCEPT !.hotlist = @ \cup {b}] ELSE gui
<1>0. /\ Fine(gui) /\ gui \in Interface /\ Sound(gui) /\ Alive(gui) /\ One(gui) /\ CountsTrue(gui)
      /\ Core \in gui.open /\ DOMAIN gui.window \subseteq Window /\ b \in Buffer
  BY TypeFacts DEF IInv, Held, Fine, Sound
<1>1. /\ gui' = h /\ unread' = (IF Visible(gui, b) THEN unread ELSE unread \cup {b})
      /\ unmerging' = None /\ ops' = ops + 1 /\ ops < MaxOps
      /\ auto_renumber' = auto_renumber /\ tangled' = tangled
  BY DEF LineAdd, Act
<1>20. UNCHANGED layout_vars /\ DOMAIN assigning = {}
  BY DEF LineAdd, Act
<1>21. Assigning'
  BY <1>20, NotAssigning DEF IInv
<1>2. /\ h \in Interface /\ SameList(gui, h) /\ SameLook(gui, h) /\ SameCount(gui, h)
      /\ h.window = gui.window /\ h.current = gui.current /\ h.shown = gui.shown
      /\ h.visited = gui.visited /\ h.visited_index = gui.visited_index
      /\ h.initial_buffer = gui.initial_buffer /\ h.last_displayed = gui.last_displayed
      /\ gui.hotlist \subseteq h.hotlist /\ h.hotlist \subseteq gui.hotlist \cup {b}
      /\ gui.num_displayed[b] = 0 => b \in h.hotlist
  <2>1. CASE gui.num_displayed[b] = 0
    <3>1. gui.hotlist \cup {b} \in SUBSET Buffer
      BY <1>0 DEF Interface
    <3>2. h = [gui EXCEPT !.hotlist = gui.hotlist \cup {b}]
      BY <2>1
    <3> HIDE DEF h
    <3>3. /\ h \in Interface /\ SameList(gui, h) /\ SameLook(gui, h) /\ SameCount(gui, h)
          /\ h.window = gui.window /\ h.current = gui.current /\ h.shown = gui.shown
          /\ h.visited = gui.visited /\ h.visited_index = gui.visited_index
          /\ h.initial_buffer = gui.initial_buffer /\ h.last_displayed = gui.last_displayed
          /\ h.hotlist = gui.hotlist \cup {b}
      BY <1>0, <3>1, <3>2 DEF Interface, SameList, SameLook, SameCount
    <3> QED BY <3>3
  <2>2. CASE gui.num_displayed[b] # 0
    <3>1. h = gui
      BY <2>2
    <3> HIDE DEF h
    <3> QED BY <1>0, <2>2, <3>1 DEF SameList, SameLook, SameCount
  <2> QED BY <2>1, <2>2
<1> HIDE DEF h
<1>3. Sound(h) /\ (Clean(gui) => Clean(h))
  BY <1>0, <1>2, SameSound DEF SameLook
<1>4. h.open = gui.open /\ h.number = gui.number
  BY <1>2 DEF SameList
<1>5. Alive(h)
  BY <1>0, <1>2, <1>4 DEF Alive, VisitOnce
<1>6. Fine(h)
  BY <1>0, <1>2, <1>3, <1>4, <1>5 DEF Fine
<1>7. Fine(gui)'
  BY <1>1, <1>6 DEF Fine, Sound, Listed
<1>8. ASSUME ~tangled PROVE unread' \subseteq h.hotlist
  <2>1. unread \subseteq gui.hotlist /\ Marked(gui)
    BY <1>8 DEF IInv, Held, Clean
  <2>2. ASSUME ~Visible(gui, b) PROVE gui.num_displayed[b] = 0
    <3>1. gui.num_displayed[b] =
             IF b \in gui.open /\ (~gui.zoomed[b] \/ gui.active[b] = 2) THEN Cardinality(Displays(gui, b)) ELSE 0
      BY <1>0 DEF CountsTrue
    <3>2. gui.zoomed[b] <=> Zoomed(gui, gui.number[b])
      BY <2>1 DEF Marked, Zoomed, Group
    <3>3. CASE Displays(gui, b) = {}
      BY <3>1, <3>3, FS_EmptySet
    <3>4. CASE Displays(gui, b) # {}
      BY <3>1, <3>2, <3>4, <2>2 DEF Visible
    <3> QED BY <3>3, <3>4
  <2> QED BY <2>1, <2>2, <1>1, <1>2
<1>9. ops' \in 0 .. MaxOps
  BY <1>1, GuiAssumption DEF IInv, Held
<1>10. unread' \subseteq Buffer
  BY <1>0, <1>1 DEF IInv, Held
<1>11. Held'
  BY <1>1, <1>2, <1>3, <1>4, <1>7, <1>8, <1>9, <1>10 DEF IInv, Held
<1>12. Looping' /\ WindowsStep
  <2>1. gui'.window = gui.window /\ gui'.open = gui.open
    BY <1>1, <1>2, <1>4
  <2> QED BY <1>1, <2>1 DEF Looping, WindowsStep
<1> QED BY <1>11, <1>12, <1>21 DEF IInv

\* The user clears the hotlist.
LEMMA HotlistClearStep ==
    ASSUME IInv, HotlistClear
    PROVE  IInv' /\ WindowsStep
<1> DEFINE h == [gui EXCEPT !.hotlist = {}, !.initial_buffer = Here]
<1>0. /\ Fine(gui) /\ gui \in Interface /\ Sound(gui) /\ Alive(gui)
      /\ Core \in gui.open /\ DOMAIN gui.window \subseteq Window /\ Here \in gui.open /\ Here \in Buffer
  BY TypeFacts DEF IInv, Held, Fine, Sound, Alive, Here
<1>1. /\ gui' = h /\ unread' = {} /\ unmerging' = None /\ ops' = ops + 1 /\ ops < MaxOps
      /\ auto_renumber' = auto_renumber /\ tangled' = tangled
  BY DEF HotlistClear, Act
<1>20. UNCHANGED layout_vars /\ DOMAIN assigning = {}
  BY DEF HotlistClear, Act
<1>21. Assigning'
  BY <1>20, NotAssigning DEF IInv
<1>a. PICK here : here = Here
  OBVIOUS
<1>b. PICK none \in SUBSET Buffer : none = {}
  OBVIOUS
<1>c. h = [gui EXCEPT !.hotlist = none, !.initial_buffer = here]
  BY <1>a, <1>b
<1>d. here \in Buffer \cup {None} /\ here \in gui.open
  BY <1>0, <1>a
<1> HIDE DEF h
<1>2. /\ h \in Interface /\ SameList(gui, h) /\ SameLook(gui, h) /\ SameCount(gui, h)
      /\ h.window = gui.window /\ h.current = gui.current /\ h.shown = gui.shown
      /\ h.visited = gui.visited /\ h.visited_index = gui.visited_index
      /\ h.initial_buffer = here /\ h.last_displayed = gui.last_displayed
      /\ h.hotlist = none
  BY <1>0, <1>c, <1>d DEF Interface, SameList, SameLook, SameCount
<1>3. Sound(h) /\ (Clean(gui) => Clean(h))
  BY <1>0, <1>2, SameSound DEF SameLook
<1>4. h.open = gui.open /\ h.number = gui.number
  BY <1>2 DEF SameList
<1>5. Alive(h)
  BY <1>0, <1>2, <1>4, <1>b, <1>d DEF Alive, VisitOnce
<1>6. Fine(h)
  BY <1>0, <1>2, <1>3, <1>4, <1>5 DEF Fine
<1>7. Fine(gui)'
  BY <1>1, <1>6 DEF Fine, Sound, Listed
<1>8. ops' \in 0 .. MaxOps
  BY <1>1, GuiAssumption DEF IInv, Held
<1>9. Held'
  BY <1>1, <1>2, <1>3, <1>4, <1>7, <1>8 DEF IInv, Held
<1>10. Looping' /\ WindowsStep
  <2>1. gui'.window = gui.window /\ gui'.open = gui.open
    BY <1>1, <1>2, <1>4
  <2> QED BY <1>1, <2>1 DEF Looping, WindowsStep
<1> QED BY <1>9, <1>10, <1>21 DEF IInv

LEMMA Step ==
    ASSUME IInv, [Next]_vars
    PROVE  IInv' /\ (WindowsStep \/ UNCHANGED vars)
<1>1. CASE List
  BY <1>1, ListStep
<1>2. CASE Moves
  BY <1>2, MovesStep
<1>3. CASE HotlistClear
  BY <1>3, HotlistClearStep
<1>4. ASSUME NEW b \in gui.open, LineAdd(b) PROVE IInv' /\ WindowsStep
  BY <1>4, LineAddStep
<1>5. CASE UNCHANGED vars
  BY <1>5 DEF vars, layout_vars, IInv, Held, Looping, Assigning, Fine, Sound, Listed
<1> QED BY <1>1, <1>2, <1>3, <1>4, <1>5 DEF Next

-----------------------------------------------------------------------------
(* At the start only the core buffer is open.                              *)
Start ==
    [open |-> {Core}, before |-> [b \in Buffer |-> {}],
     number |-> [b \in Buffer |-> IF b = Core THEN 1 ELSE 0], active |-> [b \in Buffer |-> 1],
     zoomed |-> [b \in Buffer |-> FALSE], hidden |-> [b \in Buffer |-> FALSE],
     mixed_lines |-> [b \in Buffer |-> {}], lines |-> [b \in Buffer |-> "own"],
     num_displayed |-> [b \in Buffer |-> 0],
     window |-> <<Core>>, current |-> 1, visited |-> <<Core>>, visited_index |-> -1,
     hotlist |-> {}, initial_buffer |-> None, last_displayed |-> None, shown |-> {}]

LEMMA StartIs == Start \in Interface
<1>1. Core \in Buffer
  BY GuiAssumption
<1>2. /\ {Core} \in SUBSET Buffer /\ [b \in Buffer |-> {}] \in [Buffer -> SUBSET Buffer]
      /\ [b \in Buffer |-> IF b = Core THEN 1 ELSE 0] \in [Buffer -> Int]
      /\ [b \in Buffer |-> 1] \in [Buffer -> 0 .. 2] /\ [b \in Buffer |-> FALSE] \in [Buffer -> BOOLEAN]
      /\ [b \in Buffer |-> "own"] \in [Buffer -> {"own", "mixed"}] /\ [b \in Buffer |-> 0] \in [Buffer -> Nat]
  BY <1>1
<1>3. <<Core>> \in Seq(Buffer) /\ 1 \in Nat /\ -1 \in Int /\ {} \in SUBSET Buffer /\ None \in Buffer \cup {None}
  BY <1>1
<1> QED BY <1>2, <1>3 DEF Start, Interface

LEMMA InitHeld == Init => IInv
<1> SUFFICES ASSUME Init PROVE IInv
  OBVIOUS
<1>1. gui = ComputeNumDisplayed(Start) /\ Start \in Interface
  BY StartIs DEF Init, Start
<1>2. IsFiniteSet(DOMAIN Start.window)
  BY <1>1, WindowsFinite
<1>3. gui \in Interface /\ SameList(Start, gui) /\ SameView(Start, gui) /\ SameLook(Start, gui) /\ CountsTrue(gui)
  BY <1>1, <1>2, CountIs, CountsAre
<1>4. /\ gui.open = {Core} /\ gui.before = [b \in Buffer |-> {}]
      /\ gui.number = [b \in Buffer |-> IF b = Core THEN 1 ELSE 0]
  BY <1>3 DEF SameList, Start
<1>5. /\ gui.active = [b \in Buffer |-> 1] /\ gui.zoomed = [b \in Buffer |-> FALSE]
      /\ gui.mixed_lines = [b \in Buffer |-> {}] /\ gui.lines = [b \in Buffer |-> "own"]
  BY <1>3 DEF SameLook, Start
<1>6. /\ gui.window = <<Core>> /\ gui.current = 1 /\ gui.visited = <<Core>> /\ gui.visited_index = -1
      /\ gui.hotlist = {} /\ gui.initial_buffer = None /\ gui.last_displayed = None /\ gui.shown = {}
  BY <1>3 DEF SameView, Start
<1>7. Core \in Buffer /\ MaxNumber \in Nat \ {0} /\ MaxOps \in Nat /\ 1 \in Window
  BY GuiAssumption
<1>8. \A b \in gui.open : b = Core /\ gui.before[b] = {} /\ gui.number[b] = 1 /\ gui.active[b] = 1
                        /\ gui.zoomed[b] = FALSE /\ gui.mixed_lines[b] = {} /\ gui.lines[b] = "own"
  BY <1>4, <1>5, <1>7
<1>9. Listed(gui)
  <2>1. LinkedOn(gui, gui.open)
    BY <1>4, <1>8 DEF LinkedOn
  <2> QED BY <2>1, <1>8 DEF Listed, Sorted, Positive, Dense
<1>10. Outside(gui)
  BY <1>4 DEF Outside
<1>11. One(gui)
  BY <1>8 DEF One
<1>12. Sound(gui)
  BY <1>3, <1>9, <1>10, <1>11 DEF Sound
<1>13. /\ DOMAIN gui.window = {1} /\ gui.window[1] = Core
       /\ DOMAIN gui.visited = {1} /\ gui.visited[1] = Core /\ Len(gui.visited) = 1
  BY <1>6
<1>14. Alive(gui)
  BY <1>4, <1>6, <1>13 DEF Alive, VisitOnce
<1>15. Fine(gui)
  BY <1>4, <1>7, <1>12, <1>13, <1>14 DEF Fine
<1>16. \A b \in gui.open : ~Merged(gui, b)
  BY <1>8, MatesAre
<1>17. Clean(gui)
  <2>1. Mixed(gui)
    BY <1>8, <1>16 DEF Mixed
  <2>2. Marked(gui)
    BY <1>8 DEF Marked
  <2> QED BY <2>1, <2>2 DEF Clean
<1>18. Held
  <2>1. auto_renumber \in BOOLEAN /\ unread = {} /\ tangled = FALSE /\ ops = 0
    BY DEF Init
  <2>2. \A b \in gui.open : gui.number[b] <= MaxNumber
    BY <1>7, <1>8
  <2>3. gui.shown = {} /\ unread \subseteq gui.hotlist /\ unread \subseteq Buffer /\ ops \in 0 .. MaxOps
    BY <2>1, <1>6, <1>7
  <2> QED BY <2>1, <2>2, <2>3, <1>15, <1>17 DEF Held
<1>19. Looping /\ Assigning
  BY DEF Init, Looping, Assigning
<1> QED BY <1>18, <1>19 DEF IInv

\* The invariant holds in every state: the list, the groups, the counts and
\* the pointers stay consistent through every operation, at every step of
\* gui_buffer_unmerge_all.
THEOREM InterfaceHeld == Spec => []IInv
<1>1. IInv /\ [Next]_vars => IInv'
  BY Step
<1> QED BY InitHeld, <1>1, PTL DEF Spec

-----------------------------------------------------------------------------
(* What the invariant says.                                                *)
LEMMA TypesHold == IInv => TypeOK
<1> SUFFICES ASSUME IInv PROVE TypeOK
  OBVIOUS
<1>1. /\ gui \in Interface /\ Listed(gui) /\ Alive(gui) /\ DOMAIN gui.window \subseteq Window
      /\ \A b \in gui.open : gui.number[b] <= MaxNumber
  BY DEF IInv, Held, Fine, Sound
<1>2. \A b \in gui.open : gui.number[b] \in 1 .. MaxNumber
  BY <1>1, TypeFacts, GuiAssumption DEF Listed, Positive
<1>3. /\ unmerging \in gui.open \cup {None} /\ layout_buffer \in [Window -> Buffer \cup {None}]
      /\ \A w \in DOMAIN assigning : w \in DOMAIN gui.window /\ assigning[w] \in gui.open
  BY DEF IInv, Looping, Assigning
<1> QED BY <1>1, <1>2, <1>3 DEF TypeOK, IInv, Held, Alive

LEMMA ListHolds == IInv => ListLinked
BY DEF IInv, Held, Fine, Sound, Listed, LinkedOn, ListLinked

LEMMA OrderHolds == IInv => NumbersInOrder
<1> SUFFICES ASSUME IInv, NEW b \in gui.open
             PROVE  /\ \A c \in gui.before[b] : gui.number[c] <= gui.number[b]
                    /\ auto_renumber => gui.number[b] <= NumberBefore(gui, b) + 1
  BY DEF NumbersInOrder
<1>1. /\ gui \in Interface /\ LinkedOn(gui, gui.open) /\ Sorted(gui) /\ (auto_renumber => Dense(gui))
      /\ gui.open \in SUBSET Buffer /\ \A c \in gui.open : gui.number[c] \in Int
  BY TypeFacts DEF IInv, Held, Fine, Sound, Listed
<1>2. \A c \in gui.before[b] : c \in gui.open /\ gui.number[c] <= gui.number[b]
  BY <1>1 DEF Sorted, LinkedOn
<1>3. ASSUME auto_renumber PROVE gui.number[b] <= NumberBefore(gui, b) + 1
  <2>1. gui.number[b] <= 1 \/ \E c \in gui.open : gui.number[c] = gui.number[b] - 1
    BY <1>1, <1>3 DEF Dense
  <2>2. CASE gui.before[b] = {}
    <3>1. \A c \in gui.open : gui.number[b] <= gui.number[c]
      BY <2>2, <1>1 DEF LinkedOn, Sorted
    <3>2. gui.number[b] <= 1
      BY <2>1, <3>1, <1>1
    <3>3. NumberBefore(gui, b) = 0
      BY <2>2 DEF NumberBefore
    <3> QED BY <3>2, <3>3
  <2>3. CASE gui.before[b] # {}
    <3> DEFINE p == Prev(gui, b)
    <3>1. p \in gui.before[b] /\ \A c \in gui.before[b] : c = p \/ c \in gui.before[p]
      BY <2>3, <1>1, PrevIs
    <3>2. NumberBefore(gui, b) = gui.number[p]
      BY <2>3 DEF NumberBefore
    <3> HIDE DEF p
    <3>3. p \in gui.open /\ \A c \in gui.before[b] : gui.number[c] <= gui.number[p]
      BY <3>1, <1>1, <1>2 DEF Sorted
    <3>4. ASSUME NEW c \in gui.open, gui.number[c] = gui.number[b] - 1 PROVE c \in gui.before[b]
      <4>1. c # b
        BY <3>4, <1>1
      <4>2. b \notin gui.before[c]
        BY <3>4, <1>1 DEF Sorted
      <4> QED BY <4>1, <4>2, <1>1 DEF LinkedOn
    <3>5. CASE gui.number[b] <= 1
      <4>1. gui.number[p] >= 1
        BY <3>3 DEF IInv, Held, Fine, Sound, Listed, Positive
      <4> QED BY <4>1, <3>2, <3>3, <3>5, <1>1
    <3>6. CASE \E c \in gui.open : gui.number[c] = gui.number[b] - 1
      <4>1. PICK c \in gui.open : gui.number[c] = gui.number[b] - 1
        BY <3>6
      <4>2. gui.number[c] <= gui.number[p]
        BY <4>1, <3>3, <3>4
      <4> QED BY <4>1, <4>2, <3>2, <3>3, <1>1
    <3> QED BY <2>1, <3>5, <3>6
  <2> QED BY <2>2, <2>3
<1> QED BY <1>2, <1>3

LEMMA ActiveHolds == IInv => OneActive
<1> SUFFICES ASSUME IInv, NEW b \in gui.open
             PROVE  /\ \E c \in Mates(gui, b) : \A d \in Mates(gui, b) : gui.active[d] # 0 <=> d = c
                    /\ ~Merged(gui, b) => gui.active[b] = 1
  BY DEF OneActive
<1>1. One(gui) /\ gui \in Interface /\ b \in Buffer
  BY TypeFacts DEF IInv, Held, Fine, Sound
<1>2. PICK c \in gui.open : gui.number[c] = gui.number[b] /\ gui.active[c] # 0
  BY <1>1 DEF One
<1>3. c \in Mates(gui, b)
  BY <1>2, MatesAre
<1>4. ASSUME NEW d \in Mates(gui, b), gui.active[d] # 0 PROVE d = c
  <2>1. d \in gui.open /\ gui.number[d] = gui.number[c]
    BY <1>2, MatesAre
  <2> QED BY <2>1, <1>1, <1>2, <1>4 DEF One
<1>5. \A d \in Mates(gui, b) : d = c => gui.active[d] # 0
  BY <1>2
<1>6. ASSUME ~Merged(gui, b) PROVE gui.active[b] = 1
  <2>1. c = b
    BY <1>2, <1>6, MatesAre
  <2>2. gui.active[b] # 2
    BY <1>1, <1>6, MatesAre DEF One
  <2>3. gui.active[b] \in 0 .. 2
    BY <1>1 DEF Interface
  <2> QED BY <2>1, <2>2, <2>3, <1>2
<1> QED BY <1>3, <1>4, <1>5, <1>6, Zenon

LEMMA LinesHold == IInv => MixedLinesComplete
<1> SUFFICES ASSUME IInv, ~tangled, NEW b \in gui.open
             PROVE  /\ gui.mixed_lines[b] = IF Merged(gui, b) THEN Mates(gui, b) ELSE {}
                    /\ gui.lines[b] = "mixed" <=> Merged(gui, b) /\ gui.active[b] # 2
  BY DEF MixedLinesComplete
<1>1. Mixed(gui)
  BY DEF IInv, Held, Clean
<1> QED BY <1>1 DEF Mixed

LEMMA CountsHold == IInv => NumDisplayed
<1> SUFFICES ASSUME IInv, ~tangled, NEW b \in gui.open
             PROVE  gui.num_displayed[b] = IF Zoomed(gui, gui.number[b]) /\ gui.active[b] # 2 THEN 0
                                           ELSE Cardinality(Displays(gui, b))
  BY DEF NumDisplayed
<1>1. Marked(gui) /\ CountsTrue(gui) /\ b \in Buffer
  BY TypeFacts DEF IInv, Held, Clean, Fine, Sound
<1>2. gui.zoomed[b] <=> Zoomed(gui, gui.number[b])
  BY <1>1 DEF Marked, Zoomed, Group
<1>3. gui.num_displayed[b] =
         IF b \in gui.open /\ (~gui.zoomed[b] \/ gui.active[b] = 2) THEN Cardinality(Displays(gui, b)) ELSE 0
  BY <1>1 DEF CountsTrue
<1> QED BY <1>2, <1>3

-----------------------------------------------------------------------------
(* The theorems.                                                           *)

\* The list of buffers is one list, sorted, numbered without a gap while
\* buffers are renumbered; one buffer of a group is active, and the mixed
\* lines of a group hold those of all its buffers unless a zoomed buffer has
\* been merged or unmerged: after any sequence of opens, moves, merges,
\* unmerges, zooms and closes (gui_buffer_merge, gui_buffer_unmerge,
\* gui_buffer_move_to_number, gui_buffer_close).
THEOREM GroupsStaySound == Spec => []GroupsSound
<1>1. IInv => GroupsSound
  BY TypesHold, ListHolds, OrderHolds, ActiveHolds, LinesHold DEF GroupsSound
<1> QED BY <1>1, InterfaceHeld, PTL

\* A buffer is counted as displayed in the windows that show it, and one with
\* a message the user has not seen is in the hotlist
\* (gui_buffer_compute_num_displayed, gui_hotlist_add).
THEOREM UnseenStaysHot == Spec => []UnseenIsHot
<1>1. IInv => UnreadIsHot
  BY DEF IInv, Held, UnreadIsHot
<1>2. IInv => UnseenIsHot
  BY <1>1, CountsHold DEF UnseenIsHot
<1> QED BY <1>2, InterfaceHeld, PTL

\* No window, visited buffer, hotlist, first buffer of a tour or last buffer
\* displayed is a closed buffer (gui_buffer_close).
THEOREM PointersStaySound == Spec => []PointersSound
<1>1. IInv => NothingClosed
  BY DEF IInv, Held, Fine, Alive, NothingClosed
<1>2. IInv => VisitedOnce
  BY DEF IInv, Held, Fine, Alive, VisitOnce, VisitedOnce
<1>3. IInv => PointersSound
  BY <1>1, <1>2 DEF PointersSound
<1> QED BY <1>3, InterfaceHeld, PTL

\* A window keeps its buffer while buffers are moved, merged, hidden or
\* renumbered, unless its buffer is closed; when one is opened, only the
\* windows whose layout names it display it (gui_buffer_merge, gui_buffer_new,
\* gui_layout_window_assign_buffer, gui_buffer_close).
THEOREM WindowsStayKept == Spec => WindowsKept
<1>1. IInv /\ [Next]_vars => [WindowsStep]_vars
  BY Step
<1>2. [WindowsStep]_vars => [
         /\ \A w \in DOMAIN gui.window :
               w \in DOMAIN gui'.window /\ gui'.window[w] # gui.window[w] =>
                   \/ gui.window[w] \notin gui'.open
                   \/ w \in DOMAIN assigning /\ gui'.window[w] = layout_buffer[w]
                   \/ /\ DOMAIN assigning = {}
                      /\ gui'.open = gui.open /\ gui'.before = gui.before /\ gui'.number = gui.number
         /\ gui'.open # gui.open =>
               \A w \in DOMAIN assigning' : layout_buffer[w] \in gui'.open \ gui.open]_vars
  BY DEF WindowsStep
<1> QED BY <1>1, <1>2, InterfaceHeld, PTL DEF Spec, WindowsKept
=============================================================================
