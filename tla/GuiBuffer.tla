----------------------------- MODULE GuiBuffer -----------------------------
(***************************************************************************)
(* The list of buffers (gui-buffer.c): numbers, merged and zoomed buffers, *)
(* with the windows that display them (gui-window.c), the buffers visited  *)
(* and the hotlist (gui-hotlist.c).  The whole interface is one record,    *)
(* gui, and each C function is a function of it.  The doubly linked list   *)
(* is the set of its buffers with, for each, the set of those before it;   *)
(* a field of the C structure of a buffer is a function on buffers.  A     *)
(* list of lines is the set of the buffers whose lines are in it; shown is *)
(* only used within an operation, for what it displays on its way.         *)
(* The windows may come from a stored layout (gui-layout.c), which names   *)
(* the buffer of each: it is displayed there whenever it is opened.        *)
(***************************************************************************)
EXTENDS Integers, Sequences, FiniteSets

CONSTANTS
    Buffer,        \* buffers that may be open
    Core,          \* the core buffer, never closed
    Layout,        \* layout_number of each buffer, 0 if it is not in the layout
    Window,        \* windows, 1 .. n
    WindowLayouts, \* stored layouts of windows: the buffer each one names
    FirstGap,      \* option buffer_position is first_gap
    RemoveMerged,  \* option hotlist_remove is merged
    MaxVisited,    \* option max_visited_buffers
    MaxNumber,     \* bound: highest number of a buffer
    MaxOps         \* bound: operations of the user in a behaviour

ASSUME GuiAssumption ==
    /\ Core \in Buffer /\ IsFiniteSet(Buffer) /\ 0 \notin Buffer
    /\ Layout \in [Buffer -> Nat] /\ Layout[Core] = 0
    /\ {FirstGap, RemoveMerged} \subseteq BOOLEAN
    /\ {MaxVisited, MaxOps} \subseteq Nat /\ MaxNumber \in Nat \ {0}
    /\ Window \subseteq Nat \ {0} /\ 1 \in Window /\ IsFiniteSet(Window)
    /\ WindowLayouts \subseteq Seq(Buffer)
    /\ \A names \in WindowLayouts : names # <<>> /\ DOMAIN names \subseteq Window

VARIABLES
    gui,             \* the lists of gui-buffer.c, gui-window.c, gui-hotlist.c
    auto_renumber,   \* option buffer_auto_renumber
    unmerging,       \* the next buffer of the loop of gui_buffer_unmerge_all
    layout_buffer,   \* the buffer that the layout names for each window
    assigning,       \* windows that still get a buffer in a loop of gui-layout.c
    unread,          \* history: buffers with a message the user has not seen
    tangled,         \* history: a zoomed buffer has been merged or unmerged
    ops

layout_vars == <<layout_buffer, assigning>>
vars == <<gui, auto_renumber, unmerging, layout_vars, unread, tangled, ops>>

None == 0

-----------------------------------------------------------------------------
(* The list.                                                               *)
Group(g, n) == {b \in g.open : g.number[b] = n}
Mates(g, b) == Group(g, g.number[b])
Others(g, b) == Mates(g, b) \ {b}
Merged(g, b) == Others(g, b) # {}
Zoomed(g, n) == \E b \in Group(g, n) : g.active[b] = 2
FirstOf(g, set) == CHOOSE b \in set : \A c \in set : c \notin g.before[b]
LastOf(g, set) == CHOOSE b \in set : \A c \in set : b \notin g.before[c]
Prev(g, b) == LastOf(g, g.before[b])
After(g, b) == {c \in g.open : b \in g.before[c]}
UpTo(g, set) == set \cup UNION {g.before[b] : b \in set}
LastNumber(g) == g.number[LastOf(g, g.open)]
Displays(g, b) == {w \in DOMAIN g.window : g.window[w] \in Mates(g, b)}
Visible(g, b) ==
    /\ Displays(g, b) # {}
    /\ Zoomed(g, g.number[b]) => g.active[b] = 2

\* a set of buffers leaves the list, and keeps its own order
Removed(g, set) ==
    [g EXCEPT !.open = @ \ set,
              !.before = [b \in Buffer |-> IF b \in set THEN @[b] \cap set ELSE @[b] \ set]]

\* a set of buffers enters the list after those of front, with a number
Placed(g, block, front, number) ==
    [g EXCEPT !.open = @ \cup block,
              !.before = [b \in Buffer |-> IF b \in block THEN @[b] \cup front
                                           ELSE IF b \in g.open \ front THEN @[b] \cup block ELSE @[b]],
              !.number = [b \in Buffer |-> IF b \in block THEN number ELSE @[b]]]

Shifted(g, set, d) ==
    [g EXCEPT !.number = [b \in Buffer |-> IF b \in set THEN @[b] + d ELSE @[b]]]

\* gui_buffer_shift_numbers: from the buffer on, number + 1 until a gap
ShiftNumbers(g, from) ==
    LET gap(b) == g.number[b] > g.number[Prev(g, b)] + 1
        upto(b) == After(g, from) \cap (g.before[b] \cup {b})
    IN  Shifted(g, {b \in After(g, from) \cup {from} : \A c \in upto(b) : ~gap(c)}, 1)

\* number - 1 in a set of buffers, if buffers are renumbered
ShiftBack(g, set) == IF auto_renumber THEN Shifted(g, set, -1) ELSE g

\* merged buffers leave the list, and those after them are renumbered
TakenOut(g, group) ==
    ShiftBack(Removed(g, group), {b \in g.open \ group : g.before[b] \cap group # {}})

\* A block of buffers goes before the first buffer whose number is n or more
\* and gets a number; the next buffers make room for it.
Insert(g, block, n, number) ==
    LET front == {b \in g.open : \A c \in g.before[b] \cup {b} : g.number[c] < n}
        next == FirstOf(g, g.open \ front)
        g2 == Placed(g, block, front, number)
    IN  IF front # g.open /\ g.number[next] = number THEN ShiftNumbers(g2, next) ELSE g2

\* gui_buffer_set_active_buffer
SetActive(g, b) ==
    LET on == {c \in Mates(g, b) : g.active[c] # 0}
        active == IF on = {} THEN 1 ELSE g.active[FirstOf(g, on)]
    IN  [g EXCEPT
            !.active = [c \in Buffer |-> IF c = b THEN active ELSE IF c \in Mates(g, b) THEN 0 ELSE @[c]],
            !.lines = [c \in Buffer |-> IF c = b /\ active = 2 THEN "own"
                                        ELSE IF c \in Others(g, b) /\ g.active[c] = 2 THEN "mixed" ELSE @[c]]]

\* gui_buffer_compute_num_displayed
ComputeNumDisplayed(g) ==
    [g EXCEPT !.num_displayed = [b \in Buffer |->
        IF b \in g.open /\ (~g.zoomed[b] \/ g.active[b] = 2) THEN Cardinality(Displays(g, b)) ELSE 0]]

\* gui_buffer_get_next_active_buffer and gui_buffer_get_previous_active_buffer,
\* among a set of buffers merged with b
Following(g, b, set) ==
    LET after == set \cap After(g, b)
    IN  IF set = {} THEN None ELSE FirstOf(g, IF after # {} THEN after ELSE set)

Preceding(g, b, set) ==
    LET before == set \cap g.before[b]
    IN  IF set = {} THEN None ELSE LastOf(g, IF before # {} THEN before ELSE set)

NotHidden(g, b) == {c \in Others(g, b) : ~g.hidden[c]}
NextActive(g, b) == Following(g, b, NotHidden(g, b))
PreviousActive(g, b) == Preceding(g, b, NotHidden(g, b))
AnyNextActive(g, b) ==
    IF NotHidden(g, b) # {} THEN NextActive(g, b) ELSE Following(g, b, Others(g, b))

-----------------------------------------------------------------------------
(* Buffers merged and unmerged.                                            *)
LinesOf(g, b) == IF g.lines[b] = "own" THEN {b} ELSE g.mixed_lines[b]

MixedTogether(g, b, new_lines) ==
    [g EXCEPT !.mixed_lines = [c \in Buffer |-> IF c \in Mates(g, b) THEN new_lines ELSE @[c]],
              !.lines = [c \in Buffer |-> IF c \in Mates(g, b) THEN "mixed" ELSE @[c]]]

\* Mutant: only the own lines of the buffers are mixed.
MixOwnLines(g, b) == MixedTogether(g, b, {FirstOf(g, Others(g, b)), b})

\* gui_line_mix_buffers: the lines of the buffer and of the first other one
MixBuffers(g, b) ==
    MixedTogether(g, b, LinesOf(g, FirstOf(g, Others(g, b))) \cup LinesOf(g, b))

\* gui_buffer_merge
Merge(g, b, target) ==
    LET moved == Mates(g, b)
        g2 == TakenOut(g, moved)
        g3 == Placed(g2, moved, UpTo(g2, Mates(g2, target)), g2.number[target])
    IN  IF g.number[b] = g.number[target] THEN g
        ELSE ComputeNumDisplayed(SetActive(MixBuffers(g3, b), b))

\* the lines of a buffer that leaves its group
Separated(g, b) ==
    LET group == Mates(g, b)
        g2 == SetActive(g, AnyNextActive(g, b))
        own(set) == [c \in Buffer |-> IF c \in set THEN "own" ELSE g2.lines[c]]
    IN  IF \E c \in group : group = {b, c}
        THEN [g EXCEPT !.active = [c \in Buffer |-> IF c \in group THEN 1 ELSE @[c]],
                       !.mixed_lines = [c \in Buffer |-> IF c \in group THEN {} ELSE @[c]],
                       !.lines = [c \in Buffer |-> IF c \in group THEN "own" ELSE @[c]]]
        ELSE [g2 EXCEPT !.mixed_lines = [c \in Buffer |-> IF c = b THEN {}
                                                          ELSE IF c \in group THEN @[c] \ {b} ELSE @[c]],
                        !.lines = [@ EXCEPT ![b] = "own"]]

\* gui_buffer_unmerge; number is -1 for the next one
Unmerge(g, b, number) ==
    LET n == IF number < 1 \/ number = g.number[b] THEN g.number[b] + 1
             ELSE IF auto_renumber /\ number > LastNumber(g) + 1 THEN LastNumber(g) + 1
             ELSE number
        g2 == [Removed(Separated(g, b), {b}) EXCEPT !.active = [@ EXCEPT ![b] = 1]]
    IN  IF ~Merged(g, b) THEN g ELSE ComputeNumDisplayed(Insert(g2, {b}, n, n))

-----------------------------------------------------------------------------
(* Buffers moved.                                                          *)

\* gui_buffer_move_to_number
MoveToNumber(g, b, number) ==
    LET moved == Mates(g, b)
        g2 == TakenOut(g, moved)
        too_big == \A c \in g2.open : g2.number[c] < number
    IN  IF number = g.number[b] \/ (auto_renumber /\ g2.open = {}) THEN g
        ELSE Insert(g2, moved, number, IF too_big /\ auto_renumber THEN LastNumber(g2) + 1 ELSE number)

\* gui_buffer_swap, of the buffers numbered n1 and those numbered n2
Swapped(g, n1, n2) ==
    LET group1 == Group(g, n1)
        group2 == Group(g, n2)
        between == {b \in g.open \ (group1 \cup group2) :
                       g.before[b] \cap group1 # {} /\ g.before[b] \cap group2 = {}}
    IN  [g EXCEPT
            !.before = [b \in Buffer |-> IF b \in group2 THEN @[b] \ (group1 \cup between)
                                         ELSE IF b \in between THEN (@[b] \ group1) \cup group2
                                         ELSE IF b \in group1 THEN @[b] \cup between \cup group2 ELSE @[b]],
            !.number = [b \in Buffer |-> IF b \in group1 THEN n2 ELSE IF b \in group2 THEN n1 ELSE @[b]]]

Swap(g, n1, n2) ==
    IF n1 < n2 THEN Swapped(g, n1, n2) ELSE IF n1 > n2 THEN Swapped(g, n2, n1) ELSE g

\* gui_buffer_renumber; start_number is -1 to keep the first number
Renumber(g, number1, number2, start_number) ==
    LET range == {b \in g.open : g.number[b] \in number1 .. number2}
        numbers == {g.number[b] : b \in range}
        first == FirstOf(g, range)
        next == After(g, LastOf(g, range))
        start == IF start_number < 1 THEN g.number[first] ELSE start_number
        rank(n) == Cardinality({m \in numbers : m < n})
    IN  IF \/ range = {}
           \/ g.before[first] # {} /\ start <= g.number[Prev(g, first)]
           \/ next # {} /\ start + Cardinality(numbers) > g.number[FirstOf(g, next)]
        THEN g
        ELSE [g EXCEPT !.number = [b \in Buffer |-> IF b \in range THEN start + rank(@[b]) ELSE @[b]]]

-----------------------------------------------------------------------------
(* Buffers visited, hotlist and windows.                                   *)

\* gui_buffer_visited_remove_by_buffer
VisitedRemove(g, b) ==
    LET list == g.visited
        i == CHOOSE j \in DOMAIN list : list[j] = b
    IN  IF \A j \in DOMAIN list : list[j] # b THEN g
        ELSE [g EXCEPT !.visited = [j \in 1 .. Len(@) - 1 |-> IF j < i THEN @[j] ELSE @[j + 1]],
                       !.visited_index = IF @ >= Len(list) - 1 THEN -1 ELSE @]

\* gui_buffer_visited_add
VisitedAdd(g, b) ==
    LET list == VisitedRemove(g, b).visited
        extra == IF Len(list) > MaxVisited THEN Len(list) - MaxVisited ELSE 0
    IN  [g EXCEPT !.visited = Append(SubSeq(list, extra + 1, Len(list)), b), !.visited_index = -1]

\* Mutant: merged buffers hidden by a zoomed one are removed too.
HotlistRemoveHidden(g, b, force_remove_buffer) ==
    [g EXCEPT !.hotlist = {c \in @ : c # b /\ g.number[c] # g.number[b]}]

\* gui_hotlist_remove_buffer
HotlistRemove(g, b, force_remove_buffer) ==
    LET merged == {c \in g.hotlist : /\ g.number[c] = g.number[b]
                                     /\ ~g.zoomed[c] \/ g.active[c] = 2}
    IN  [g EXCEPT !.hotlist = @ \ ((IF force_remove_buffer \/ ~RemoveMerged THEN {b} ELSE {})
                                   \cup (IF RemoveMerged THEN merged ELSE {}))]

\* gui_window_switch_to_buffer, in each of some windows that display old: what
\* it does to the lists, it does at the first of them
SwitchWindows(g, windows, old, b, frozen) ==
    LET moves == g.number[old] # g.number[b]
        g2 == IF moves THEN [g EXCEPT !.last_displayed = old] ELSE g
        g3 == IF moves /\ ~frozen THEN VisitedAdd(VisitedAdd(g2, old), b) ELSE g2
        g4 == [g3 EXCEPT !.window = [w \in DOMAIN @ |-> IF w \in windows THEN b ELSE @[w]]]
        g5 == ComputeNumDisplayed(SetActive(g4, b))
        g6 == [g5 EXCEPT !.shown = @ \cup {c \in g5.open : Visible(g5, c)}]
    IN  IF old # b THEN HotlistRemove(g6, b, FALSE) ELSE g6

SwitchToBuffer(g, w, b, frozen) == SwitchWindows(g, {w}, g.window[w], b, frozen)

\* gui_buffer_switch_by_number
SwitchByNumber(g, w, number, frozen) ==
    LET actives == {b \in Group(g, number) : g.active[b] # 0}
    IN  IF number = g.number[g.window[w]] \/ actives = {} THEN g
        ELSE SwitchToBuffer(g, w, FirstOf(g, actives), frozen)

\* gui_window_search_with_buffer
WindowWith(g, b) ==
    LET shows == {w \in DOMAIN g.window : g.window[w] = b}
    IN  IF g.window[g.current] = b THEN g.current
        ELSE IF shows = {} THEN None ELSE CHOOSE w \in shows : \A v \in shows : w <= v

-----------------------------------------------------------------------------
(* Buffers opened and closed.                                              *)

\* the fields of a buffer that is not open
Fresh(g, b) ==
    [g EXCEPT !.number = [@ EXCEPT ![b] = 0], !.active = [@ EXCEPT ![b] = 1],
              !.zoomed = [@ EXCEPT ![b] = FALSE], !.hidden = [@ EXCEPT ![b] = FALSE],
              !.mixed_lines = [@ EXCEPT ![b] = {}], !.lines = [@ EXCEPT ![b] = "own"],
              !.num_displayed = [@ EXCEPT ![b] = 0]]

\* the number before a buffer in the list
NumberBefore(g, b) == IF g.before[b] = {} THEN 0 ELSE g.number[Prev(g, b)]

\* gui_buffer_find_pos; merge orders of the layout are taken equal
FindPos(g, b) ==
    LET fits == {c \in g.open : /\ Layout[c] < 1 \/ Layout[b] <= Layout[c]
                                /\ NumberBefore(g, c) # g.number[c]}
    IN  IF Layout[b] < 1 \/ fits = {} THEN None ELSE FirstOf(g, fits)

\* the buffer after the first gap, if there is one
GapPos(g) ==
    LET gaps == {b \in g.open : g.number[b] > NumberBefore(g, b) + 1}
    IN  IF gaps = {} THEN None ELSE FirstOf(g, gaps)

\* the list before gui_buffer_insert merges the new buffer: it goes before
\* buffer p, or at the end
InsertedAt(g, b, p, number) ==
    LET g2 == Placed(g, {b}, g.before[p], number)
    IN  IF number = g.number[p] THEN ShiftNumbers(g2, p) ELSE g2

InsertedLast(g, b) ==
    LET last == LastNumber(g)
    IN  Placed(g, {b}, g.open, IF ~auto_renumber /\ Layout[b] > last THEN Layout[b] ELSE last + 1)

\* the buffers next to b in the list
Before(g, b) == {c \in g.before[b] : c = Prev(g, b)}
Next1(g, b) == {c \in After(g, b) : c = FirstOf(g, After(g, b))}

\* gui_buffer_insert
InsertBuffer(g, b) ==
    LET g1 == Fresh(g, b)
        n == Layout[b]
        like(set) == {c \in set : n > 0 /\ Layout[c] = n}
        found == FindPos(g, b)
        gap == IF found = None /\ n = 0 /\ FirstGap THEN GapPos(g) ELSE None
        p == IF found = None THEN gap ELSE found
        number == IF found = None THEN NumberBefore(g, p) + 1
                  ELSE IF ~auto_renumber /\ n > NumberBefore(g, p) /\ n < g.number[p] THEN n
                  ELSE g.number[p]
        at_end == InsertedLast(g1, b)
        placed == IF p = None THEN at_end ELSE InsertedAt(g1, b, p, number)
    IN  IF p # None /\ like({p}) # {} THEN Merge(at_end, b, p)
        ELSE IF p # None /\ like(Before(g, p)) # {} THEN Merge(at_end, b, Prev(g, p))
        ELSE IF like(Before(placed, b)) # {} THEN Merge(placed, b, Prev(placed, b))
        ELSE IF like(Next1(placed, b)) # {}
        THEN Merge(placed, FirstOf(placed, After(placed, b)), b)
        ELSE placed

\* the windows that display a buffer that is closed get another one
SwitchAway(g, b, back, visited) ==
    LET windows == {w \in DOMAIN g.window : g.window[w] = b}
        other == IF back # None THEN back
                 ELSE IF visited # None THEN visited
                 ELSE IF g.before[b] # {} THEN Prev(g, b) ELSE LastOf(g, g.open)
    IN  IF windows = {} THEN g ELSE SwitchWindows(g, windows, b, other, FALSE)

\* gui_buffer_visited_get_index_previous and next
VisitedPrevious(g) ==
    LET n == Len(g.visited)
    IN  IF n < 2 \/ g.visited_index = 0 THEN -1
        ELSE IF g.visited_index < 0 THEN n - 2 ELSE g.visited_index - 1
VisitedNext(g) ==
    LET n == Len(g.visited)
    IN  IF n < 2 \/ g.visited_index >= n - 1 THEN -1 ELSE g.visited_index + 1

\* the end of gui_buffer_close
Closed(g, b) ==
    [Fresh(Removed(ShiftBack(g, After(g, b)), {b}), b) EXCEPT
        !.initial_buffer = IF @ = b THEN None ELSE @,
        !.last_displayed = IF @ = b THEN None ELSE @]

\* Mutant: the buffer is forgotten before the windows leave it.
CloseForgetsFirst(g, b) ==
    LET back == IF Merged(g, b) THEN AnyNextActive(g, b) ELSE None
        g2 == VisitedRemove(Unmerge(g, b, LastNumber(g) + 1), b)
    IN  Closed(HotlistRemove(SwitchAway(g2, b, back, None), b, TRUE), b)

\* gui_buffer_close
CloseBuffer(g, b) ==
    LET back == IF Merged(g, b) THEN AnyNextActive(g, b) ELSE None
        g2 == Unmerge(g, b, LastNumber(g) + 1)
        k == VisitedPrevious(g2)
        visited == IF g2.window[g2.current] = b /\ k >= 0 /\ g2.visited[k + 1] # b
                   THEN g2.visited[k + 1] ELSE None
    IN  Closed(VisitedRemove(HotlistRemove(SwitchAway(g2, b, back, visited), b, TRUE), b), b)

-----------------------------------------------------------------------------
(* The operations.                                                         *)
Here == gui.window[gui.current]

\* the interface becomes g
Becomes(g) ==
    /\ \A b \in g.open : g.number[b] <= MaxNumber
    /\ gui' = [g EXCEPT !.shown = {}]
    /\ unread' = {b \in (unread \cap g.open) \ g.shown : ~Visible(g, b)}
    /\ tangled' = (tangled \/ \E b \in gui.open : gui.active[b] = 2 /\ Mates(g, b) # Mates(gui, b))

\* the user does something, once the loops of what he did before have ended
Act ==
    /\ unmerging = None /\ DOMAIN assigning = {}
    /\ ops < MaxOps /\ ops' = ops + 1

Operation(g) == Act /\ Becomes(g) /\ UNCHANGED <<auto_renumber, unmerging, layout_vars>>

\* Mutant: the name of the buffer is not compared with that of the layout.
AssignUnnamed(g, b) == [w \in {v \in DOMAIN g.window : layout_buffer[v] # None} |-> b]

\* gui_layout_window_assign_buffer: the windows whose layout names the buffer
Assigned(g, b) == [w \in {v \in DOMAIN g.window : layout_buffer[v] = b} |-> b]

\* gui_buffer_new
BufferNew(b) ==
    LET g == InsertBuffer(gui, b)
    IN  /\ b \notin gui.open
        /\ Act /\ Becomes(g) /\ assigning' = Assigned(g, b)
        /\ UNCHANGED <<auto_renumber, unmerging, layout_buffer>>

\* The loops of gui_layout_window_assign_buffer and _assign_all_buffers: one
\* window at each step, in the order of the list; nothing else runs between.
AssignNext ==
    \E w \in DOMAIN assigning :
        /\ \A v \in DOMAIN assigning : w <= v
        /\ Becomes(SwitchToBuffer(gui, w, assigning[w], FALSE))
        /\ assigning' = [v \in DOMAIN assigning \ {w} |-> assigning[v]]
        /\ UNCHANGED <<auto_renumber, unmerging, layout_buffer, ops>>

BufferClose(b) == b \in gui.open \ {Core} /\ Operation(CloseBuffer(gui, b))

BufferMove(b, number) == Operation(MoveToNumber(gui, b, number))
BufferSwap(b, c) == b # c /\ Operation(Swap(gui, gui.number[b], gui.number[c]))
BufferMerge(b, c) == gui.number[b] # gui.number[c] /\ Operation(Merge(gui, b, c))
BufferUnmerge(b, number) == Merged(gui, b) /\ Operation(Unmerge(gui, b, number))
BufferHide(b) == Operation([gui EXCEPT !.hidden = [@ EXCEPT ![b] = ~gui.hidden[b]]])

\* gui_buffer_unmerge_all: the loop on the list, a buffer that leaves its group
\* at each step; nothing else runs between the steps
BufferUnmergeAll ==
    /\ Act
    /\ unmerging' = FirstOf(gui, gui.open)
    /\ UNCHANGED <<gui, auto_renumber, layout_vars, unread, tangled>>

UnmergeNext ==
    LET left == {b \in After(gui, unmerging) \cup {unmerging} : Merged(gui, b)}
        b == FirstOf(gui, left)
    IN  /\ unmerging # None
        /\ IF left = {}
           THEN unmerging' = None /\ UNCHANGED <<gui, unread, tangled>>
           ELSE unmerging' = FirstOf(gui, After(gui, b)) /\ Becomes(Unmerge(gui, b, -1))
        /\ UNCHANGED <<auto_renumber, layout_vars, ops>>

BufferRenumber(number1, number2, start_number) ==
    ~auto_renumber /\ Operation(Renumber(gui, number1, number2, start_number))

\* /set buffer_auto_renumber
SetAutoRenumber ==
    /\ auto_renumber' = ~auto_renumber
    /\ Act /\ Becomes(IF auto_renumber THEN gui ELSE Renumber(gui, 1, MaxNumber, 1))
    /\ UNCHANGED <<unmerging, layout_vars>>

\* the jumps: by name, by number, to the last buffer displayed
Jump(b) == Operation(SwitchToBuffer(gui, gui.current, b, FALSE))
JumpNumber(b) == Operation(SwitchByNumber(gui, gui.current, gui.number[b], FALSE))
JumpLastDisplayed ==
    gui.last_displayed # None
    /\ Operation(SwitchByNumber(gui, gui.current, gui.number[gui.last_displayed], FALSE))

\* previously (or next) visited buffer: the list of those visited is frozen
JumpVisited(index) ==
    index >= 0
    /\ Operation(SwitchByNumber([gui EXCEPT !.visited_index = index], gui.current,
                                gui.number[gui.visited[index + 1]], TRUE))

\* gui_input_jump_smart
JumpSmart ==
    \/ \E b \in gui.hotlist :
          LET g == [gui EXCEPT !.initial_buffer = IF @ = None THEN Here ELSE @]
          IN  Operation(HotlistRemove(SwitchToBuffer(g, gui.current, b, FALSE), b, FALSE))
    \/ /\ gui.hotlist = {} /\ gui.initial_buffer # None
       /\ Operation([SwitchToBuffer(gui, gui.current, gui.initial_buffer, FALSE)
                        EXCEPT !.initial_buffer = None])

\* gui_input_switch_active_buffer and gui_input_switch_active_buffer_previous
SwitchActive(b) ==
    b # None /\ Operation(SwitchToBuffer(SetActive(gui, b), gui.current, b, FALSE))

\* gui_input_zoom_merged_buffer
Zoom(b) ==
    LET w == WindowWith(gui, b)
        g == IF gui.active[b] # 0 THEN gui
             ELSE IF w = None THEN SetActive(gui, b) ELSE SwitchToBuffer(SetActive(gui, b), w, b, FALSE)
        active == 3 - g.active[b]
    IN  /\ Merged(gui, b)
        /\ Operation(ComputeNumDisplayed(
              [g EXCEPT !.active = [@ EXCEPT ![b] = active],
                        !.lines = [@ EXCEPT ![b] = IF active = 2 THEN "own" ELSE "mixed"],
                        !.zoomed = [c \in Buffer |-> IF c \in Mates(g, b) THEN active = 2 ELSE @[c]]]))

\* /window split: the new window displays the same buffer and becomes current
WindowSplit ==
    LET w == Len(gui.window) + 1
    IN  /\ w \in Window
        /\ Act
        /\ Becomes(SwitchToBuffer([gui EXCEPT !.window = Append(@, Here), !.current = w], w, Here, FALSE))
        /\ layout_buffer' = [layout_buffer EXCEPT ![w] = None]
        /\ UNCHANGED <<auto_renumber, unmerging, assigning>>

WindowSwitch(w) ==
    w # gui.current /\ Operation(SwitchToBuffer([gui EXCEPT !.current = w], w, gui.window[w], FALSE))

\* /window merge -all: the current window is left, with its layout
WindowMerge ==
    /\ Len(gui.window) > 1
    /\ Act
    /\ Becomes(SwitchToBuffer([gui EXCEPT !.window = <<Here>>, !.current = 1], 1, Here, FALSE))
    /\ layout_buffer' = [w \in Window |-> IF w = 1 THEN layout_buffer[gui.current] ELSE None]
    /\ UNCHANGED <<auto_renumber, unmerging, assigning>>

WindowSwap(w) ==
    /\ gui.window[w] # Here
    /\ Operation(SwitchToBuffer(SwitchToBuffer(gui, gui.current, gui.window[w], FALSE), w, Here, FALSE))

\* gui_layout_window_apply (at the start, and /layout apply): the windows are
\* merged and split again, all with the current buffer; then each one whose
\* layout names an open buffer gets it
LayoutApply(names) ==
    LET g == [gui EXCEPT !.window = [w \in DOMAIN names |-> Here], !.current = 1]
        alone == Len(gui.window) = 1 /\ Len(names) = 1
    IN  /\ Act
        /\ Becomes(IF alone THEN gui ELSE SwitchToBuffer(g, 1, Here, FALSE))
        /\ layout_buffer' = [w \in Window |-> IF w \in DOMAIN names THEN names[w] ELSE None]
        /\ assigning' = [w \in {v \in DOMAIN names : names[v] \in gui.open} |-> names[w]]
        /\ UNCHANGED <<auto_renumber, unmerging>>

\* gui_layout_window_reset: the current layout is deleted
LayoutReset ==
    /\ Act
    /\ layout_buffer' = [w \in Window |-> None]
    /\ UNCHANGED <<gui, auto_renumber, unmerging, assigning, unread, tangled>>

\* gui_line_add: a message goes to the hotlist if no window displays the buffer
LineAdd(b) ==
    /\ Act
    /\ gui' = IF gui.num_displayed[b] = 0 THEN [gui EXCEPT !.hotlist = @ \cup {b}] ELSE gui
    /\ unread' = IF Visible(gui, b) THEN unread ELSE unread \cup {b}
    /\ UNCHANGED <<auto_renumber, unmerging, layout_vars, tangled>>

\* gui_input_hotlist_clear
HotlistClear ==
    /\ Act
    /\ gui' = [gui EXCEPT !.hotlist = {}, !.initial_buffer = Here]
    /\ unread' = {}
    /\ UNCHANGED <<auto_renumber, unmerging, layout_vars, tangled>>

Init ==
    /\ gui = ComputeNumDisplayed(
          [open |-> {Core}, before |-> [b \in Buffer |-> {}],
           number |-> [b \in Buffer |-> IF b = Core THEN 1 ELSE 0], active |-> [b \in Buffer |-> 1],
           zoomed |-> [b \in Buffer |-> FALSE], hidden |-> [b \in Buffer |-> FALSE],
           mixed_lines |-> [b \in Buffer |-> {}], lines |-> [b \in Buffer |-> "own"],
           num_displayed |-> [b \in Buffer |-> 0],
           window |-> <<Core>>, current |-> 1, visited |-> <<Core>>, visited_index |-> -1,
           hotlist |-> {}, initial_buffer |-> None, last_displayed |-> None, shown |-> {}])
    /\ auto_renumber \in BOOLEAN /\ unmerging = None
    /\ layout_buffer = [w \in Window |-> None] /\ assigning = [w \in {} |-> None]
    /\ unread = {} /\ tangled = FALSE /\ ops = 0

List ==
    \/ \E b \in Buffer : BufferNew(b) \/ BufferClose(b)
    \/ \E b \in gui.open :
          \/ BufferHide(b)
          \/ \E number \in 1 .. MaxNumber : BufferMove(b, number) \/ BufferUnmerge(b, number)
          \/ BufferUnmerge(b, -1)
          \/ \E c \in gui.open : BufferSwap(b, c) \/ BufferMerge(b, c)
    \/ BufferUnmergeAll \/ UnmergeNext \/ SetAutoRenumber
    \/ \E number1, number2, start_number \in 1 .. MaxNumber :
          BufferRenumber(number1, number2, start_number) \/ BufferRenumber(number1, number2, -1)

Moves ==
    \/ \E b \in gui.open : Jump(b) \/ JumpNumber(b)
    \/ JumpLastDisplayed \/ JumpSmart
    \/ JumpVisited(VisitedPrevious(gui)) \/ JumpVisited(VisitedNext(gui))
    \/ SwitchActive(NextActive(gui, Here)) \/ SwitchActive(PreviousActive(gui, Here))
    \/ Zoom(Here)
    \/ WindowSplit \/ WindowMerge
    \/ \E names \in WindowLayouts : LayoutApply(names)
    \/ LayoutReset \/ AssignNext
    \/ \E w \in DOMAIN gui.window : WindowSwitch(w) \/ WindowSwap(w)

Next == List \/ Moves \/ HotlistClear \/ \E b \in gui.open : LineAdd(b)

Spec == Init /\ [][Next]_vars

-----------------------------------------------------------------------------
(* Properties.  The interface is "tangled" once a group of buffers has     *)
(* been merged or unmerged while one of them was zoomed.                   *)

\* what the record of the interface holds, at any time
Interface ==
    [open : SUBSET Buffer, before : [Buffer -> SUBSET Buffer], number : [Buffer -> Int],
     active : [Buffer -> 0 .. 2], zoomed : [Buffer -> BOOLEAN], hidden : [Buffer -> BOOLEAN],
     mixed_lines : [Buffer -> SUBSET Buffer], lines : [Buffer -> {"own", "mixed"}],
     num_displayed : [Buffer -> Nat], window : Seq(Buffer), current : Nat,
     visited : Seq(Buffer), visited_index : Int, hotlist : SUBSET Buffer,
     initial_buffer : Buffer \cup {None}, last_displayed : Buffer \cup {None}, shown : SUBSET Buffer]

\* Every variable, and every field of the interface, has its type.
TypeOK ==
    /\ gui \in Interface
    /\ \A b \in gui.open : gui.number[b] \in 1 .. MaxNumber
    /\ DOMAIN gui.window \subseteq Window /\ gui.current \in DOMAIN gui.window
    /\ {auto_renumber, tangled} \subseteq BOOLEAN
    /\ unmerging \in gui.open \cup {None}
    /\ layout_buffer \in [Window -> Buffer \cup {None}]
    /\ \A w \in DOMAIN assigning : w \in DOMAIN gui.window /\ assigning[w] \in gui.open
    /\ unread \subseteq Buffer /\ ops \in 0 .. MaxOps

\* The list is one list: of two open buffers one is before the other.
ListLinked ==
    \A b \in gui.open :
        /\ gui.before[b] \subseteq gui.open \ {b}
        /\ \A c \in gui.before[b] : b \notin gui.before[c] /\ gui.before[c] \subseteq gui.before[b]
        /\ \A c \in gui.open \ {b} : c \in gui.before[b] \/ b \in gui.before[c]

\* The list is sorted by number, merged buffers side by side, and the numbers
\* are 1, 2, 3... without a gap while buffers are renumbered automatically:
\* every move, merge and search relies on it.
NumbersInOrder ==
    \A b \in gui.open :
        /\ \A c \in gui.before[b] : gui.number[c] <= gui.number[b]
        /\ auto_renumber => gui.number[b] <= NumberBefore(gui, b) + 1

\* Of the buffers with one number exactly one is active, and a buffer alone is
\* active and not zoomed: input, zoom and switches go to the active one.
OneActive ==
    \A b \in gui.open :
        /\ \E c \in Mates(gui, b) : \A d \in Mates(gui, b) : gui.active[d] # 0 <=> d = c
        /\ ~Merged(gui, b) => gui.active[b] = 1

\* Merged buffers share the mixed lines, which hold the lines of all of them,
\* and display them unless one is zoomed; a buffer alone has only its lines.
\* (Lines of a buffer left in a list of others would be freed under it.)
MixedLinesComplete ==
    ~tangled => \A b \in gui.open :
        /\ gui.mixed_lines[b] = IF Merged(gui, b) THEN Mates(gui, b) ELSE {}
        /\ gui.lines[b] = "mixed" <=> Merged(gui, b) /\ gui.active[b] # 2

\* num_displayed is the number of windows that display the buffer: the user
\* is told of messages he cannot see, and only of those.
NumDisplayed ==
    ~tangled => \A b \in gui.open :
        gui.num_displayed[b] = IF Zoomed(gui, gui.number[b]) /\ gui.active[b] # 2 THEN 0
                               ELSE Cardinality(Displays(gui, b))

\* A message printed in a buffer that no window displays is in the hotlist
\* until the user displays the buffer or clears the hotlist.
UnreadIsHot == ~tangled => unread \subseteq gui.hotlist

\* Nothing points to a closed buffer: no window, visited buffer, hotlist,
\* first buffer of a tour of the hotlist or last buffer displayed.
NothingClosed ==
    /\ \A w \in DOMAIN gui.window : gui.window[w] \in gui.open
    /\ \A i \in DOMAIN gui.visited : gui.visited[i] \in gui.open
    /\ gui.hotlist \subseteq gui.open
    /\ {gui.initial_buffer, gui.last_displayed} \subseteq gui.open \cup {None}

\* A buffer is once in the list of those visited, and the index the next jump
\* starts from is in the list.
VisitedOnce ==
    /\ \A i, j \in DOMAIN gui.visited : gui.visited[i] = gui.visited[j] => i = j
    /\ gui.visited_index \in -1 .. Len(gui.visited) - 1

\* A window keeps its buffer unless the buffer is closed or the user asks:
\* moving and merging buffers never change what is shown, and opening one
\* changes only the windows whose layout names the buffer that is opened.
WindowsKept ==
    [][/\ \A w \in DOMAIN gui.window :
             w \in DOMAIN gui'.window /\ gui'.window[w] # gui.window[w] =>
                 \/ gui.window[w] \notin gui'.open
                 \/ w \in DOMAIN assigning /\ gui'.window[w] = layout_buffer[w]
                 \/ /\ DOMAIN assigning = {}
                    /\ gui'.open = gui.open /\ gui'.before = gui.before /\ gui'.number = gui.number
       /\ gui'.open # gui.open =>
             \A w \in DOMAIN assigning' : layout_buffer[w] \in gui'.open \ gui.open]_vars
-----------------------------------------------------------------------------
(* Conjunctions of the properties above, as the runs check them.           *)

\* Numbers, groups and mixed lines stay consistent through any sequence of
\* opens, moves, merges, unmerges, zooms and closes (gui_buffer_merge,
\* gui_buffer_unmerge, gui_buffer_move_to_number, gui_buffer_close).
GroupsSound == TypeOK /\ ListLinked /\ NumbersInOrder /\ OneActive /\ MixedLinesComplete

\* What no window shows is counted as not displayed, so what is printed there
\* is in the hotlist until it is seen or cleared
\* (gui_buffer_compute_num_displayed, gui_hotlist_add, gui_hotlist_remove_buffer).
UnseenIsHot == NumDisplayed /\ UnreadIsHot

\* Everything that points to buffers is corrected when one is closed
\* (gui_buffer_close, gui_buffer_visited_remove).
PointersSound == NothingClosed /\ VisitedOnce
=============================================================================
