---------------------------- MODULE HookDispatch ----------------------------
(***************************************************************************)
(* The hook lists of src/core/doge-hook.c and the loops that run the       *)
(* callbacks of the hooks: everything in the program (timers, sockets,     *)
(* signals, commands, modifiers, infos) goes through them.                 *)
(*                                                                         *)
(* The program has one thread, yet the loops interleave: a callback may    *)
(* hook, unhook (itself included) and start other loops, to any depth,     *)
(* while the loop that called it holds a saved pointer to the next hook.   *)
(* "stack" holds one frame per loop in progress, the innermost last.       *)
(*                                                                         *)
(* A hook is an address: "free" memory may be allocated again by the next  *)
(* hook_xxx(), so a pointer kept over a free() silently becomes a pointer  *)
(* to another hook.  The type, name, priority and plugin of the hook that  *)
(* lives at an address are constants of that address.                      *)
(***************************************************************************)
EXTENDS Naturals, Integers, Sequences, FiniteSets

CONSTANTS
    Hook,       \* addresses of struct t_hook
    NoHook,     \* the NULL pointer
    Plugin,     \* plugins (and the core) that own hooks or run commands
    NoPlugin,   \* no plugin: the event is not a command
    Name,       \* names of commands and events; numbers, in strcasecmp order
    TypeOf,     \* [Hook -> HookType]: hook->type
    NameOf,     \* [Hook -> Name]: the name (or mask) the hook is made for
    Covers,     \* [Hook -> SUBSET Name]: names its mask or prefix matches
    Priority,   \* [Hook -> Nat]: hook->priority
    WithPrefix, \* hooks created as "priority|name" rather than "name"
    PluginOf,   \* [Hook -> Plugin]: hook->plugin
    MaxCalls,   \* HOOK_COMMAND_MAX_CALLS
    Incomplete, \* option dogechat.look.command_incomplete
    MaxDepth    \* bound: loops in progress at the same time

NeverStops     == {"timer", "fd", "print", "config", "completion", "focus"}
StopsOnEat     == {"signal", "hsignal", "command_run", "modifier"}
StopsAtFirst   == {"info", "info_hashtable", "infolist", "hdata"}
DispatchedType == NeverStops \cup StopsOnEat \cup StopsAtFirst
HookType       == DispatchedType \cup {"command"}

ASSUME ConstantsAssumption ==
    /\ NoHook \notin Hook
    /\ NoPlugin \notin Plugin
    /\ Name \subseteq Nat
    /\ TypeOf \in [Hook -> HookType]
    /\ NameOf \in [Hook -> Name]
    /\ Covers \in [Hook -> SUBSET Name]
    /\ Priority \in [Hook -> Nat]
    /\ WithPrefix \subseteq Hook
    /\ PluginOf \in [Hook -> Plugin]
    /\ MaxCalls \in Nat \ {0}
    /\ Incomplete \in BOOLEAN
    /\ MaxDepth \in Nat \ {0}

VARIABLES
    status,     \* [Hook -> {"free", "live", "deleted"}]: allocated, hook->deleted
    precedes,   \* pairs <<a, b>>: a is before b in the list of their type
    running,    \* [Hook -> Int]: hook->running
    recursion,  \* hook_exec_recursion
    pending,    \* real_delete_pending
    stack       \* loops in progress, the innermost last

vars == <<status, precedes, running, recursion, pending, stack>>

(***************************************************************************)
(* A frame is one loop: the type and name it dispatches, the hook whose    *)
(* callback it runs, the saved next_hook, where it is (phase), the data of *)
(* a mouse gesture (focus runs each callback twice), and for a command the *)
(* plugin it is run for and any_plugin.  "due" and "called" are history:   *)
(* the hooks the loop had to run when it started, those it has run.        *)
(***************************************************************************)
Phase == {"scan", "call", "call2", "select", "done"}

Frame == [type : HookType, name : Name, cur : Hook \cup {NoHook},
          next : Hook \cup {NoHook}, phase : Phase, gesture : BOOLEAN,
          plugin : Plugin \cup {NoPlugin}, any : BOOLEAN,
          due : SUBSET Hook, called : SUBSET Hook]

Allocated(h) == status[h] # "free"
Live(h)      == status[h] = "live"
Deleted      == {h \in Hook : status[h] = "deleted"}

Depth      == Len(stack)
Top        == stack[Depth]
InCallback == stack # <<>> /\ Top.phase \in {"call", "call2"}
CodeMayRun == stack = <<>> \/ InCallback

\* The only loop without hook_exec_start/hook_exec_end is hook_command_run_exec.
Guarded(f) == f.type # "command_run"

\* The first hook of a list, and the one after h; NoHook at the end.
HeadOf(t) == {h \in Hook : /\ Allocated(h) /\ TypeOf[h] = t
                           /\ \A x \in Hook : <<x, h>> \notin precedes}
             \cup (IF \E h \in Hook : Allocated(h) /\ TypeOf[h] = t
                     THEN {} ELSE {NoHook})
NextOf(h) == {x \in Hook : /\ <<h, x>> \in precedes
                           /\ \A y \in Hook : ~ (<<h, y>> \in precedes
                                                 /\ <<y, x>> \in precedes)}
             \cup (IF \E x \in Hook : <<h, x>> \in precedes
                     THEN {} ELSE {NoHook})

(***************************************************************************)
(* Hooking.                                                                *)
(***************************************************************************)
\* hook_find_pos: commands by name then priority, the others by priority.
GoesBefore(h, x) ==
    IF TypeOf[h] = "command"
      THEN \/ NameOf[h] < NameOf[x]
           \/ NameOf[h] = NameOf[x] /\ Priority[h] > Priority[x]
      ELSE Priority[h] > Priority[x]

\* Mutant: the comparison of hook_find_pos the other way round.
PositionsReversed(h) == {x \in Hook : Live(x) /\ TypeOf[x] = TypeOf[h] /\ GoesBefore(x, h)}

\* The live hooks that the new hook h may be put in front of.
Positions(h) == {x \in Hook : Live(x) /\ TypeOf[x] = TypeOf[h] /\ GoesBefore(h, x)}

\* hook_add_to_list: in front of the first of Positions(h), or at the end.
Ahead(h) == {x \in Hook : /\ Allocated(x) /\ TypeOf[x] = TypeOf[h]
                          /\ \A p \in Positions(h) : <<x, p>> \in precedes}
Behind(h) == {x \in Hook : /\ Allocated(x) /\ TypeOf[x] = TypeOf[h]
                           /\ x \notin Ahead(h)}
Inserted(h) == precedes \cup {<<x, h>> : x \in Ahead(h)}
                        \cup {<<h, x>> : x \in Behind(h)}

\* hook_search_command as hook_command calls it: with the whole string, so a
\* command given as "priority|name" never equals an existing name.
SameCommand(h) == {x \in Hook : /\ Live(x) /\ TypeOf[x] = "command"
                                /\ PluginOf[x] = PluginOf[h]
                                /\ NameOf[x] = NameOf[h]
                                /\ h \notin WithPrefix}

AddHook(h) ==
    /\ CodeMayRun
    /\ status[h] = "free"
    /\ TypeOf[h] = "command" => SameCommand(h) = {}
    /\ status' = [status EXCEPT ![h] = "live"]
    /\ running' = [running EXCEPT ![h] = 0]
    /\ precedes' = Inserted(h)
    /\ UNCHANGED <<recursion, pending, stack>>

(***************************************************************************)
(* Unhooking.  unhook() frees the hook at once when no loop is counted in  *)
(* hook_exec_recursion, and marks it deleted otherwise.                    *)
(***************************************************************************)
Without(S) == {p \in precedes : p[1] \notin S /\ p[2] \notin S}

\* Mutant: hooks are freed at once, even under a loop.
UnhookSetNow(S) ==
    /\ status' = [h \in Hook |-> IF h \in S THEN "free" ELSE status[h]]
    /\ precedes' = Without(S)
    /\ UNCHANGED <<running, recursion, pending, stack>>

UnhookSet(S) ==
    IF recursion = 0
      THEN /\ status' = [h \in Hook |-> IF h \in S THEN "free" ELSE status[h]]
           /\ precedes' = Without(S)
           /\ UNCHANGED <<running, recursion, pending, stack>>
      ELSE /\ status' = [h \in Hook |-> IF h \in S THEN "deleted" ELSE status[h]]
           /\ pending' = TRUE
           /\ UNCHANGED <<precedes, running, recursion, stack>>

Unhook(h) == CodeMayRun /\ Live(h) /\ UnhookSet({h})

UnhookAllPlugin(p) ==
    /\ CodeMayRun
    /\ \E h \in Hook : Live(h) /\ PluginOf[h] = p
    /\ UnhookSet({h \in Hook : Live(h) /\ PluginOf[h] = p})

(***************************************************************************)
(* Starting a loop.                                                        *)
(***************************************************************************)
Due(t, n) == {h \in Hook : /\ Live(h) /\ TypeOf[h] = t
                           /\ n \in Covers[h] /\ running[h] = 0}

StartLoop(t, n, g, p, any) ==
    /\ CodeMayRun
    /\ Depth < MaxDepth
    /\ \E first \in HeadOf(t) :
         stack' = Append(stack,
                    [type |-> t, name |-> n, cur |-> NoHook, next |-> first,
                     phase |-> "scan", gesture |-> g, plugin |-> p, any |-> any,
                     due |-> Due(t, n), called |-> {}])
    /\ recursion' = IF t = "command_run" THEN recursion ELSE recursion + 1
    /\ UNCHANGED <<status, precedes, running, pending>>

\* hook_signal_send, hook_modifier_exec, hook_timer_exec, hook_info_get, ...
StartDispatch(t, n) ==
    /\ t \in DispatchedType \ {"command_run"}
    /\ \E g \in (IF t = "focus" THEN BOOLEAN ELSE {FALSE}) :
         StartLoop(t, n, g, NoPlugin, FALSE)

\* hook_command_exec begins with hook_command_run_exec.
StartCommand(n, p, any) == StartLoop("command_run", n, FALSE, p, any)

(***************************************************************************)
(* One turn of a loop.                                                     *)
(***************************************************************************)
Scanning == stack # <<>> /\ Top.phase = "scan"

Runnable(h) == Live(h) /\ Top.name \in Covers[h] /\ running[h] = 0

SetTop(f) == stack' = [stack EXCEPT ![Depth] = f]

\* Mutant: a deleted hook ends the loop instead of being stepped over.
SkipStops ==
    /\ Scanning
    /\ Top.next \in Hook
    /\ Allocated(Top.next)
    /\ ~ Runnable(Top.next)
    /\ \E n \in NextOf(Top.next) :
         SetTop([Top EXCEPT !.next = IF Live(Top.next) THEN n ELSE NoHook])
    /\ UNCHANGED <<status, precedes, running, recursion, pending>>

\* The hook is not for this event, is deleted, or runs already: go on.
Skip ==
    /\ Scanning
    /\ Top.next \in Hook
    /\ Allocated(Top.next)
    /\ ~ Runnable(Top.next)
    /\ \E n \in NextOf(Top.next) : SetTop([Top EXCEPT !.next = n])
    /\ UNCHANGED <<status, precedes, running, recursion, pending>>

Call ==
    /\ Scanning
    /\ Top.next \in Hook
    /\ Allocated(Top.next)
    /\ Runnable(Top.next)
    /\ running' = [running EXCEPT ![Top.next] = 1]
    /\ \E n \in NextOf(Top.next) :
         SetTop([Top EXCEPT !.cur = Top.next, !.next = n, !.phase = "call",
                            !.called = @ \cup {Top.next}])
    /\ UNCHANGED <<status, precedes, recursion, pending>>

\* Does the answer "eat" (DOGECHAT_RC_OK_EAT; for a modifier, the empty
\* string) of a callback end the loop?  Infos end at the first match.
Ends(t, eat) == t \in StopsAtFirst \/ (t \in StopsOnEat /\ eat)

\* The callback returns; focus runs it once more for the end of a gesture.
Return(eat) ==
    /\ InCallback
    /\ Top.type # "command"
    /\ ~ (Top.type = "focus" /\ Top.gesture /\ Top.phase = "call")
    /\ running' = [running EXCEPT ![Top.cur] = 0]
    /\ SetTop(IF Ends(Top.type, eat)
                THEN [Top EXCEPT !.phase = "done", !.cur = NoHook]
                ELSE [Top EXCEPT !.phase = "scan", !.cur = NoHook])
    /\ UNCHANGED <<status, precedes, recursion, pending>>

\* hook_focus_get_data reads HOOK_FOCUS(ptr_hook, callback) for the second
\* call without looking at ptr_hook->deleted.
FocusAgain ==
    /\ InCallback
    /\ Top.type = "focus" /\ Top.gesture /\ Top.phase = "call"
    /\ Live(Top.cur)
    /\ SetTop([Top EXCEPT !.phase = "call2"])
    /\ UNCHANGED <<status, precedes, running, recursion, pending>>

(***************************************************************************)
(* The end of a loop: hook_exec_end, and hook_remove_deleted when no other *)
(* loop is counted.  A modifier that drops the message, an info that       *)
(* answers and a signal that is eaten leave through the same exit.         *)
(***************************************************************************)
Exhausted == stack # <<>> /\ \/ Top.phase = "scan" /\ Top.next = NoHook
                             \/ Top.phase = "done"

\* Mutant: the counter is tested before it is decremented.
LeaveTooEarly ==
    /\ stack' = SubSeq(stack, 1, Depth - 1)
    /\ recursion' = recursion - 1
    /\ IF recursion = 0 /\ pending
         THEN /\ status' = [h \in Hook |-> IF h \in Deleted THEN "free" ELSE status[h]]
              /\ precedes' = Without(Deleted)
              /\ pending' = FALSE
         ELSE UNCHANGED <<status, precedes, pending>>

Leave ==
    /\ stack' = SubSeq(stack, 1, Depth - 1)
    /\ recursion' = recursion - 1
    /\ IF recursion = 1 /\ pending
         THEN /\ status' = [h \in Hook |-> IF h \in Deleted THEN "free" ELSE status[h]]
              /\ precedes' = Without(Deleted)
              /\ pending' = FALSE
         ELSE UNCHANGED <<status, precedes, pending>>

Finish ==
    /\ Exhausted
    /\ Guarded(Top)
    /\ Leave
    /\ UNCHANGED running

\* hook_command_run_exec found a callback that eats the command.
CommandEaten ==
    /\ Exhausted
    /\ ~ Guarded(Top)
    /\ Top.phase = "done"
    /\ stack' = SubSeq(stack, 1, Depth - 1)
    /\ UNCHANGED <<status, precedes, running, recursion, pending>>

\* Nobody ate it: hook_command_exec goes on, with hook_exec_start.
CommandGoesOn ==
    /\ Exhausted
    /\ ~ Guarded(Top)
    /\ Top.phase = "scan"
    /\ SetTop([Top EXCEPT !.type = "command", !.phase = "select",
                          !.cur = NoHook, !.due = {}, !.called = {}])
    /\ recursion' = recursion + 1
    /\ UNCHANGED <<status, precedes, running, pending>>

(***************************************************************************)
(* The command that hook_command_exec runs: {} when none or ambiguous.     *)
(***************************************************************************)
Named(n) == {h \in Hook : Live(h) /\ TypeOf[h] = "command" /\ NameOf[h] = n}
Started(n) == {h \in Hook : /\ Incomplete /\ Live(h) /\ TypeOf[h] = "command"
                            /\ NameOf[h] # n /\ n \in Covers[h]}
FirstOf(S) == {h \in S : \A x \in S \ {h} : <<h, x>> \in precedes}

\* Mutant: the command of the caller's plugin always wins.
CommandForMine(n, p, any) ==
    LET mine    == FirstOf({h \in Named(n) : PluginOf[h] = p})
        foreign == IF any THEN {h \in Named(n) : PluginOf[h] # p} ELSE {}
    IN  IF mine # {} THEN mine ELSE FirstOf(foreign)

CommandFor(n, p, any) ==
    LET mine    == FirstOf({h \in Named(n) : PluginOf[h] = p})
        foreign == IF any THEN {h \in Named(n) : PluginOf[h] # p} ELSE {}
        other   == FirstOf(foreign)
        other2  == FirstOf(foreign \ other)
        before(A, B) == \E a \in A, b \in B : Priority[a] > Priority[b]
        level(A, B)  == \E a \in A, b \in B : Priority[a] = Priority[b]
    IN  CASE mine = {} /\ other = {} ->
               IF Cardinality(Started(n)) = 1 THEN Started(n) ELSE {}
          [] mine = {} /\ other # {} -> IF level(other, other2) THEN {} ELSE other
          [] mine # {} -> IF before(other, mine) THEN other ELSE mine

Selecting == stack # <<>> /\ Top.phase = "select"

\* Mutant: one call too many before HOOK_COMMAND_EXEC_RUNNING.
RunCommandOnceMore(h) ==
    /\ Selecting
    /\ h \in CommandFor(Top.name, Top.plugin, Top.any)
    /\ running[h] <= MaxCalls
    /\ running' = [running EXCEPT ![h] = @ + 1]
    /\ SetTop([Top EXCEPT !.phase = "call", !.cur = h])
    /\ UNCHANGED <<status, precedes, recursion, pending>>

RunCommand(h) ==
    /\ Selecting
    /\ h \in CommandFor(Top.name, Top.plugin, Top.any)
    /\ running[h] < MaxCalls
    /\ running' = [running EXCEPT ![h] = @ + 1]
    /\ SetTop([Top EXCEPT !.phase = "call", !.cur = h])
    /\ UNCHANGED <<status, precedes, recursion, pending>>

\* Unknown, ambiguous, or in a loop (HOOK_COMMAND_EXEC_RUNNING).
NoCommand ==
    /\ Selecting
    /\ \A h \in CommandFor(Top.name, Top.plugin, Top.any) : running[h] >= MaxCalls
    /\ Leave
    /\ UNCHANGED running

\* Mutant: hook_command_exec returns without hook_exec_end.
CommandReturnsEarly ==
    /\ InCallback
    /\ Top.type = "command"
    /\ running' = [running EXCEPT ![Top.cur] = @ - 1]
    /\ stack' = SubSeq(stack, 1, Depth - 1)
    /\ UNCHANGED <<status, precedes, recursion, pending>>

CommandReturns ==
    /\ InCallback
    /\ Top.type = "command"
    /\ running' = [running EXCEPT ![Top.cur] = @ - 1]
    /\ Leave

(***************************************************************************)
(* A loop that reads freed memory: hook_command_run_exec when its next     *)
(* hook was freed meanwhile (the hook_data it reads is NULL, or garbage),  *)
(* hook_focus_get_data when the first call unhooked the hook (hook_data is *)
(* NULL).  The process dies and is started again.                          *)
(***************************************************************************)
ReadsFreedMemory ==
    \/ Scanning /\ Top.next \in Hook /\ ~ Allocated(Top.next)
    \/ /\ InCallback /\ Top.type = "focus" /\ Top.gesture /\ Top.phase = "call"
       /\ ~ Live(Top.cur)

Init ==
    /\ status = [h \in Hook |-> "free"]
    /\ precedes = {}
    /\ running = [h \in Hook |-> 0]
    /\ recursion = 0
    /\ pending = FALSE
    /\ stack = <<>>

CrashAndRestart ==
    /\ ReadsFreedMemory
    /\ status' = [h \in Hook |-> "free"]
    /\ precedes' = {}
    /\ running' = [h \in Hook |-> 0]
    /\ recursion' = 0
    /\ pending' = FALSE
    /\ stack' = <<>>

Loop == \/ Skip \/ Call \/ Finish
        \/ CommandEaten \/ CommandGoesOn \/ NoCommand \/ CrashAndRestart
        \/ \E h \in Hook : RunCommand(h)

CallbackReturns == CommandReturns \/ FocusAgain \/ \E eat \in BOOLEAN : Return(eat)

Next ==
    \/ Loop
    \/ CallbackReturns
    \/ \E h \in Hook : AddHook(h) \/ Unhook(h)
    \/ \E p \in Plugin : UnhookAllPlugin(p)
    \/ \E t \in DispatchedType, n \in Name : StartDispatch(t, n)
    \/ \E n \in Name, p \in Plugin, any \in BOOLEAN : StartCommand(n, p, any)

Spec == Init /\ [][Next]_vars

\* The loops are code that runs to its end; a callback is assumed to return.
FairSpec ==
    /\ Spec
    /\ WF_vars(Loop)
    /\ \A d \in 1..MaxDepth : SF_vars(Depth = d /\ (CallbackReturns \/ CrashAndRestart))

-----------------------------------------------------------------------------
(***************************************************************************)
(* What the loops promise.                                                 *)
(***************************************************************************)

\* Every variable has its type.
TypeOK ==
    /\ status \in [Hook -> {"free", "live", "deleted"}]
    /\ precedes \subseteq Hook \X Hook
    /\ running \in [Hook -> Int]
    /\ recursion \in Int
    /\ pending \in BOOLEAN
    /\ stack \in Seq(Frame)

\* A guarded loop is in progress at or below frame i.
Protected(i) == \E j \in 1..i : Guarded(stack[j])

\* Memory safety of the saved pointers: as long as a loop counted by
\* hook_exec_recursion is in progress at or below a loop, the hook it runs and
\* its saved next_hook stay allocated, whatever its callbacks unhook.
PointersValid ==
    \A i \in 1..Depth : Protected(i) =>
        \A h \in {stack[i].cur, stack[i].next} : h \in Hook => Allocated(h)

\* hook_exec_recursion counts the loops in progress: no early return of a loop
\* (eaten, dropped, answered, ambiguous command) forgets hook_exec_end.
RecursionCountsLoops ==
    recursion = Cardinality({i \in 1..Depth : Guarded(stack[i])})

\* A deleted hook still in a list is always known to hook_remove_deleted, and
\* none survives the last loop.
DeletedHooksPending ==
    /\ pending <=> Deleted # {}
    /\ pending => recursion > 0

\* The live hooks of a list stay sorted although hook_find_pos looks past the
\* deleted ones that are still linked in between.
ListsSorted ==
    \A a, b \in Hook : <<a, b>> \in precedes /\ Live(a) /\ Live(b)
                          => ~ GoesBefore(b, a)

\* The list of each type stays a strict total order of its allocated hooks.
ListsLinked ==
    \A a, b \in Hook :
        /\ <<a, b>> \in precedes =>
              /\ Allocated(a) /\ Allocated(b) /\ TypeOf[a] = TypeOf[b] /\ a # b
              /\ \A c \in Hook : <<b, c>> \in precedes => <<a, c>> \in precedes
        /\ (a # b /\ Allocated(a) /\ Allocated(b) /\ TypeOf[a] = TypeOf[b]) =>
              (<<a, b>> \in precedes <=> <<b, a>> \notin precedes)

\* The frames whose callback is the one of hook h.
CallsOf(h) == {i \in 1..Depth : stack[i].phase \in {"call", "call2"}
                                 /\ stack[i].cur = h /\ Protected(i)}

\* A callback is never entered again while it runs, however the loops nest; a
\* command may be, at most HOOK_COMMAND_MAX_CALLS times.
ReentryBounded ==
    \A h \in Hook : Cardinality(CallsOf(h)) <= (IF TypeOf[h] = "command" THEN MaxCalls ELSE 1)

\* What a loop has yet to visit: its saved next hook and those behind it.
Remaining(f) == {h \in Hook : h = f.next \/ <<f.next, h>> \in precedes}

\* No hook is skipped and none is called twice by one event: in a loop that is
\* not over, the hooks that were due when it started and are still live have
\* been called or are still in front of it, and no called one is.
EveryHookCalledOnce ==
    \A i \in 1..Depth :
        LET f == stack[i]
        IN  (Guarded(f) /\ f.phase \in {"scan", "call", "call2"} /\ f.type # "command") =>
              /\ \A h \in f.due \ f.called : Live(h) => h \in Remaining(f)
              /\ f.called \cap Remaining(f) = {}

\* The command that runs is the one with the highest priority among the live
\* hooks of that name the caller may use.
ChosenHasTopPriority ==
    \A n \in Name, p \in Plugin, any \in BOOLEAN :
        \A h \in CommandFor(n, p, any) : \A x \in Named(n) :
            (PluginOf[x] = p \/ any) => Priority[x] <= Priority[h]

\* A hook that was unhooked under a loop is freed in the end.
DeletedAreFreed ==
    \A h \in Hook : status[h] = "deleted" ~> status[h] # "deleted"

\* unhook() says "remove hook from list (if there's no hook exec pending)": no
\* loop in progress ever steps on a freed hook.
NoFreedMemoryRead == ~ ReadsFreedMemory

\* hook_command refuses a second command of the same name for a plugin.
OneCommandPerPlugin ==
    \A a, b \in Hook :
        (a # b /\ Live(a) /\ Live(b) /\ TypeOf[a] = "command" /\ TypeOf[b] = "command")
            => NameOf[a] # NameOf[b] \/ PluginOf[a] # PluginOf[b]
-----------------------------------------------------------------------------
(* Conjunctions of the properties above, as the runs check them.           *)

\* The list of each type stays a strict total order of its allocated hooks,
\* the live ones sorted by priority, whatever callbacks hook and unhook while
\* loops stand on it (hook_find_pos, hook_add_to_list, hook_remove_from_list).
ListsWellFormed == TypeOK /\ ListsLinked /\ ListsSorted

\* hook_exec_recursion and real_delete_pending stay exact through nested
\* loops and every way out of them: the counter is the number of loops that
\* count, and deleted hooks wait for the last one to end.
LoopsAccounted == RecursionCountsLoops /\ DeletedHooksPending
=============================================================================
