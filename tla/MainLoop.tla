------------------------------ MODULE MainLoop ------------------------------
(***************************************************************************)
(* The main loop (gui_main_loop) over the timers and the file descriptors  *)
(* of doge-hook.c, with the system clock, which may be changed under it.   *)
(*                                                                         *)
(* Time goes in seconds.  Dates are kept relative to the system clock: a   *)
(* timer has the time left until its next_exec (negative when it is late), *)
(* so that the clock itself does not have to be bounded.  All the hooks of *)
(* these two types have the same priority: they are added at the end.      *)
(***************************************************************************)
EXTENDS Integers, Sequences, FiniteSets

CONSTANTS
    TimerId,      \* timers that may exist at the same time
    Kind,         \* the timers one may ask for: [interval, align_second, max_calls]
    Fd,           \* descriptor numbers
    Stdin,        \* STDIN_FILENO
    Skew,         \* a clock that moves this far is taken for skewed (10 s)
    MaxSleep,     \* longest sleep in poll() (2 s)
    Align,        \* the second of the clock is kept modulo this
    Jumps,        \* changes of the system clock, in seconds
    MaxJumps,     \* bound: changes of the system clock
    MaxSlow,      \* bound: seconds spent in callbacks
    MaxOps,       \* bound: changes made by one callback
    MaxHooks,     \* bound: fd hooks in the list, with the deleted ones
    Reopens,      \* may the program open a descriptor while it serves others?
    ReallocFails  \* may the array of poll() fail to grow?

ASSUME ConstantsAssumption ==
    /\ Kind \subseteq [interval : Nat \ {0}, align_second : 0 .. Align, max_calls : Nat]
    /\ \A k \in Kind : k.align_second > 0 => Align % k.align_second = 0
    /\ {Skew, MaxSleep, Align} \subseteq Nat \ {0} /\ MaxSleep < Skew
    /\ Jumps \subseteq Int \ {0} /\ {MaxJumps, MaxSlow, MaxOps, MaxHooks} \subseteq Nat
    /\ {Reopens, ReallocFails} \subseteq BOOLEAN
    /\ Fd \subseteq Nat \ {0} /\ Stdin \in Fd
    /\ TimerId \subseteq Nat \ {0} /\ TimerId # {} /\ Fd \cap TimerId = {}

VARIABLES
    pc,         \* where the main loop is
    timers,     \* list of timer hooks
    fds,        \* list of fd hooks
    cursor,     \* index of the hook the loop in progress looks at next; 0: NULL
    running,    \* index of the hook whose callback runs
    late,       \* seconds since hook_timer_exec has read the time
    sleep,      \* seconds left in poll()
    skew,       \* time() - hook_last_system_time
    second,     \* the system clock, modulo Align
    pollfd,     \* descriptors given to poll(), then those with an event
    allocated,  \* hook_fd_pollfd_count
    desc,       \* for each number: is it closed, idle or readable, and is it the
                \* descriptor poll() was called with?
    served,     \* the hook whose callback has just been called
    ops,        \* changes made by the callback that runs
    jumps,
    slow

vars == <<pc, timers, fds, cursor, running, late, sleep, skew, second, pollfd, allocated,
          desc, served, ops, jumps, slow>>
time == <<late, sleep, skew, second, jumps, slow>>

Nobody == 0
Listed(array) == {array[i] : i \in DOMAIN array}
LivesIn(list, i) == i \in 1 .. Len(list) /\ ~list[i].deleted
Alive(list) == {list[i].id : i \in {j \in 1 .. Len(list) : ~list[j].deleted}}
Known(list) == {list[i].id : i \in 1 .. Len(list)}
Ids == TimerId \cup Fd

\* index of the first of some hooks from a cursor on; 0: none
FirstFrom(list, from, hooks) ==
    LET found == {i \in 1 .. Len(list) : from # 0 /\ i >= from /\ ~list[i].deleted /\ list[i] \in hooks}
    IN  IF found = {} THEN 0 ELSE CHOOSE i \in found : \A j \in found : i <= j

\* next_hook, saved before the callback of hook i is called
Following(list, i) == IF i < Len(list) THEN i + 1 ELSE 0

\* the hooks of a list at some indexes, in their order
Nth(indexes, n) == CHOOSE i \in indexes : Cardinality({j \in indexes : j <= i}) = n
Selected(list, indexes) == [n \in 1 .. Cardinality(indexes) |-> list[Nth(indexes, n)]]

\* hook_exec_end: the deleted hooks go
Purged(list) == Selected(list, {i \in 1 .. Len(list) : ~list[i].deleted})

-----------------------------------------------------------------------------
(* Timers.                                                                 *)

\* hook_timer_init: the next call, in seconds from now; an aligned timer
\* counts from a multiple of align_second
FirstCall(kind) ==
    kind.interval - (IF kind.align_second > 0 THEN second % kind.align_second ELSE 0)

NewTimer(id, kind) ==
    [id |-> id, kind |-> kind, due |-> FirstCall(kind), remaining |-> kind.max_calls,
     deleted |-> FALSE]

\* Mutant: only a clock that goes forward is noticed.
ReinitializedForward ==
    IF skew >= Skew
    THEN [i \in DOMAIN timers |->
            IF timers[i].deleted THEN timers[i]
            ELSE [timers[i] EXCEPT !.due = FirstCall(timers[i].kind)]]
    ELSE timers

\* Mutant: the timers are counted anew at every turn.
ReinitializedAlways ==
    [i \in DOMAIN timers |->
        IF timers[i].deleted THEN timers[i]
        ELSE [timers[i] EXCEPT !.due = FirstCall(timers[i].kind)]]

\* hook_timer_check_system_clock
Reinitialized ==
    IF skew <= -Skew \/ skew >= Skew
    THEN [i \in DOMAIN timers |->
            IF timers[i].deleted THEN timers[i]
            ELSE [timers[i] EXCEPT !.due = FirstCall(timers[i].kind)]]
    ELSE timers

\* hook_timer_get_time_to_next; less than a second, which is at least one
\* millisecond, is 0 here
TimeToNext(list) ==
    LET dates == {list[i].due : i \in {j \in DOMAIN list : ~list[j].deleted}}
    IN  IF dates = {} THEN MaxSleep
        ELSE LET next == CHOOSE d \in dates : \A e \in dates : d <= e
             IN  IF next < 0 THEN 0 ELSE IF next > MaxSleep THEN MaxSleep ELSE next

TimerExec ==
    /\ pc = "top"
    /\ timers' = Reinitialized
    /\ skew' = 0
    /\ late' = 0
    /\ cursor' = 1
    /\ pc' = "timers"
    /\ UNCHANGED <<ops, fds, running, sleep, second, pollfd, allocated, desc, jumps, slow, served>>

\* due at the time hook_timer_exec has read, whatever has passed since
DueTimers == {timer \in Listed(timers) : timer.due <= -late}

TimerCall ==
    LET i == FirstFrom(timers, cursor, DueTimers)
    IN  /\ pc = "timers"
        /\ i # 0
        /\ running' = i
        /\ cursor' = Following(timers, i)
        /\ served' = timers[i].id
        /\ pc' = "timer_cb"
        /\ UNCHANGED <<ops, timers, fds, time, pollfd, allocated, desc>>

\* what is left of a timer that was called
Called(timer) ==
    IF timer.deleted THEN timer
    ELSE [timer EXCEPT !.due = @ + timer.kind.interval,
                       !.remaining = IF @ > 0 THEN @ - 1 ELSE @,
                       !.deleted = timer.remaining = 1]

TimerReturns ==
    /\ pc = "timer_cb"
    /\ timers' = [timers EXCEPT ![running] = Called(@)]
    /\ running' = 0
    /\ ops' = 0 /\ served' = Nobody
    /\ pc' = "timers"
    /\ UNCHANGED <<fds, cursor, time, pollfd, allocated, desc>>

\* hook_fd_realloc_pollfd, when the list has n hooks
Realloc(n) ==
    IF n = allocated THEN {n}
    ELSE {n} \cup IF ReallocFails /\ n > 0 THEN {allocated} ELSE {}

\* hook_exec_end at the end of a loop
ExecEnd ==
    /\ timers' = Purged(timers)
    /\ fds' = Purged(fds)
    /\ allocated' \in Realloc(Len(Purged(fds)))
    /\ cursor' = 0

TimerExecEnds ==
    /\ pc = "timers"
    /\ FirstFrom(timers, cursor, DueTimers) = 0
    /\ ExecEnd
    /\ late' = 0
    /\ pc' = "build"
    /\ UNCHANGED <<ops, running, sleep, skew, second, pollfd, desc, served, jumps, slow>>

-----------------------------------------------------------------------------
(* Descriptors.                                                            *)

\* the array given to poll(): closed descriptors are skipped, and the loop
\* stops when more than "allocated" are stored
Polled ==
    LET open == {i \in 1 .. Len(fds) : ~fds[i].deleted /\ desc[fds[i].id].state # "closed"}
        good == Selected(fds, open)
        n == IF Len(good) > allocated + 1 THEN allocated + 1 ELSE Len(good)
    IN  [i \in 1 .. n |-> good[i].id]

Build ==
    /\ pc = "build"
    /\ pollfd' = Polled
    /\ desc' = [fd \in Fd |-> [desc[fd] EXCEPT !.polled = fd \in Listed(Polled)]]
    /\ timers' = Reinitialized
    /\ skew' = 0
    /\ sleep' = TimeToNext(Reinitialized)
    /\ pc' = "poll"
    /\ UNCHANGED <<ops, fds, cursor, running, late, second, allocated, jumps, slow, served>>

Readable == {fd \in Fd : desc[fd].state = "readable" /\ desc[fd].polled}

NotPolled == [fd \in Fd |-> [desc[fd] EXCEPT !.polled = FALSE]]

\* poll() returns: the array keeps its length, entries without event are 0
Wake ==
    /\ pc = "poll"
    /\ sleep = 0 \/ Readable # {}
    /\ sleep' = 0
    /\ IF Readable = {}
       THEN pc' = "top" /\ cursor' = 0 /\ pollfd' = <<>> /\ desc' = NotPolled
       ELSE /\ pc' = "fds" /\ cursor' = 1 /\ UNCHANGED desc
            /\ pollfd' = [i \in DOMAIN pollfd |->
                            IF pollfd[i] \in Readable THEN pollfd[i] ELSE 0]
    /\ UNCHANGED <<ops, timers, fds, running, late, skew, second, allocated, served, jumps, slow>>

ReadyFds == {hook \in Listed(fds) : hook.id \in Listed(pollfd)}

FdCall ==
    LET i == FirstFrom(fds, cursor, ReadyFds)
    IN  /\ pc = "fds"
        /\ i # 0
        /\ running' = i
        /\ cursor' = Following(fds, i)
        /\ served' = fds[i].id
        /\ pc' = "fd_cb"
        /\ UNCHANGED <<ops, timers, fds, time, pollfd, allocated, desc>>

\* the callback has read what was to be read
FdReturns ==
    LET fd == fds[running].id
    IN  /\ pc = "fd_cb"
        /\ desc' = IF desc[fd].state = "readable" THEN [desc EXCEPT ![fd].state = "idle"] ELSE desc
        /\ running' = 0
        /\ ops' = 0 /\ served' = Nobody
        /\ pc' = "fds"
        /\ UNCHANGED <<timers, fds, cursor, time, pollfd, allocated>>

FdExecEnds ==
    /\ pc = "fds"
    /\ FirstFrom(fds, cursor, ReadyFds) = 0
    /\ ExecEnd
    /\ pollfd' = <<>>
    /\ desc' = NotPolled
    /\ pc' = "top"
    /\ UNCHANGED <<ops, running, time, served>>

-----------------------------------------------------------------------------
(* What callbacks do.                                                      *)

InCallback == pc \in {"timer_cb", "fd_cb"}

Changes ==
    /\ InCallback
    /\ ops < MaxOps
    /\ ops' = ops + 1
    /\ UNCHANGED <<pc, cursor, running, time, pollfd, served>>

HookTimer(id, kind) ==
    /\ Changes
    /\ id \notin Known(timers)
    /\ timers' = Append(timers, NewTimer(id, kind))
    /\ UNCHANGED <<fds, allocated, desc>>

UnhookTimer(i) ==
    /\ Changes
    /\ LivesIn(timers, i)
    /\ timers' = [timers EXCEPT ![i].deleted = TRUE]
    /\ UNCHANGED <<fds, allocated, desc>>

\* hook_fd refuses a descriptor that is hooked already; a descriptor that was
\* unhooked in this loop may be hooked again
HookFd(fd) ==
    /\ Changes
    /\ fd \notin Alive(fds)
    /\ desc[fd].state # "closed"
    /\ Len(fds) < MaxHooks
    /\ fds' = Append(fds, [id |-> fd, deleted |-> FALSE])
    /\ allocated' \in Realloc(Len(fds) + 1)
    /\ UNCHANGED <<timers, desc>>

\* Mutant: the hook leaves the list at once.
UnhookFdAtOnce(i) ==
    /\ Changes
    /\ LivesIn(fds, i) /\ i # running
    /\ fds' = SubSeq(fds, 1, i - 1) \o SubSeq(fds, i + 1, Len(fds))
    /\ allocated' \in Realloc(Len(fds) - 1)
    /\ UNCHANGED <<timers, desc>>

UnhookFd(i) ==
    /\ Changes
    /\ LivesIn(fds, i)
    /\ fds' = [fds EXCEPT ![i].deleted = TRUE]
    /\ UNCHANGED <<timers, allocated, desc>>

\* close(), with or without unhook() before
Close(fd) ==
    /\ Changes
    /\ desc[fd].state # "closed"
    /\ desc' = [desc EXCEPT ![fd] = [state |-> "closed", polled |-> FALSE]]
    /\ UNCHANGED <<timers, fds, allocated>>

\* open(), socket(), pipe()...: the system gives a free number
Open(fd) ==
    /\ Changes
    /\ pc = "fd_cb" => Reopens
    /\ desc[fd].state = "closed"
    /\ desc' = [desc EXCEPT ![fd] = [state |-> "idle", polled |-> FALSE]]
    /\ UNCHANGED <<timers, fds, allocated>>

-----------------------------------------------------------------------------
(* Time, the clock and the peers.                                          *)

\* n seconds more on the system clock
Shift(n) ==
    /\ timers' = [i \in DOMAIN timers |-> [timers[i] EXCEPT !.due = @ - n]]
    /\ skew' = skew + n
    /\ second' = (second + n) % Align
    /\ late' = IF pc = "timer_cb" THEN late + n ELSE late
    /\ UNCHANGED <<ops, pc, fds, cursor, running, pollfd, allocated, desc, served>>

Tick ==
    /\ pc = "poll"
    /\ sleep > 0
    /\ Shift(1)
    /\ sleep' = sleep - 1
    /\ UNCHANGED <<jumps, slow>>

\* a callback takes a second
Slow ==
    /\ InCallback
    /\ slow < MaxSlow
    /\ Shift(1)
    /\ slow' = slow + 1
    /\ UNCHANGED <<sleep, jumps>>

\* the system clock is set
Jump(n) ==
    /\ pc \in {"poll", "timer_cb", "fd_cb"}
    /\ jumps < MaxJumps
    /\ Shift(n)
    /\ jumps' = jumps + 1
    /\ UNCHANGED <<sleep, slow>>

Arrives(fd) ==
    /\ pc = "poll"
    /\ desc[fd].state = "idle"
    /\ desc' = [desc EXCEPT ![fd].state = "readable"]
    /\ UNCHANGED <<ops, pc, timers, fds, cursor, running, time, pollfd, allocated, served>>

-----------------------------------------------------------------------------
\* a timer has been hooked before the loop starts, and the keyboard
Init ==
    /\ pc = "top"
    /\ second = 0
    /\ \E kind \in Kind :
          timers = <<[id |-> CHOOSE id \in TimerId : TRUE, kind |-> kind, due |-> kind.interval,
                      remaining |-> kind.max_calls, deleted |-> FALSE]>>
    /\ desc = [fd \in Fd |-> [state |-> "idle", polled |-> FALSE]]
    /\ fds = <<[id |-> Stdin, deleted |-> FALSE]>>
    /\ allocated = 1
    /\ cursor = 0 /\ running = 0 /\ late = 0 /\ sleep = 0 /\ skew = 0
    /\ pollfd = <<>>
    /\ served = Nobody
    /\ jumps = 0 /\ slow = 0 /\ ops = 0

Loop ==
    \/ TimerExec \/ TimerCall \/ TimerReturns \/ TimerExecEnds
    \/ Build \/ Wake \/ FdCall \/ FdReturns \/ FdExecEnds

Callback ==
    \/ \E id \in TimerId, kind \in Kind : HookTimer(id, kind)
    \/ \E i \in 1 .. Len(timers) : UnhookTimer(i)
    \/ \E i \in 1 .. Len(fds) : UnhookFd(i)
    \/ \E fd \in Fd : HookFd(fd) \/ Close(fd) \/ Open(fd)

Environment ==
    \/ Tick \/ Slow
    \/ \E n \in Jumps : Jump(n)
    \/ \E fd \in Fd : Arrives(fd)

Next == Loop \/ Callback \/ Environment

Spec == Init /\ [][Next]_vars

\* the loop is sequential code and callbacks return; time passes, also when
\* poll() is woken again and again
FairSpec == Spec /\ WF_vars(Loop) /\ SF_vars(Tick)

-----------------------------------------------------------------------------
(* Properties.                                                             *)

Place == {"top", "timers", "timer_cb", "build", "poll", "fds", "fd_cb"}

\* Every variable has its type.
TypeOK ==
    /\ pc \in Place
    /\ \A i \in DOMAIN timers :
          timers[i] \in [id : TimerId, kind : Kind, due : Int, remaining : Nat, deleted : BOOLEAN]
    /\ \A i \in DOMAIN fds : fds[i] \in [id : Fd, deleted : BOOLEAN]
    /\ cursor \in 0 .. Len(timers) + Len(fds) + 1
    /\ running \in 0 .. Len(timers) + Len(fds)
    /\ {late, skew} \subseteq Int /\ sleep \in 0 .. MaxSleep /\ second \in 0 .. Align - 1
    /\ Listed(pollfd) \subseteq Fd \cup {0}
    /\ allocated \in Nat
    /\ desc \in [Fd -> [state : {"closed", "idle", "readable"}, polled : BOOLEAN]]
    /\ served \in Ids \cup {Nobody}
    /\ jumps \in 0 .. MaxJumps /\ slow \in 0 .. MaxSlow /\ ops \in 0 .. MaxOps

\* While the clock is not touched and no callback takes long, a timer is
\* called on its date: poll() never sleeps past it, whatever timers were
\* added and removed, and it is not called a second early.
Punctual ==
    jumps = 0 /\ slow = 0 =>
        \A i \in DOMAIN timers : ~timers[i].deleted =>
            /\ timers[i].due >= 0
            /\ pc = "timer_cb" /\ running = i => timers[i].due = 0

\* A change of the system clock puts off a timer by a bounded time: a clock set
\* back is noticed at the next turn of the loop and the timers counted anew,
\* though a timer may be hooked, and the clock set, in the middle of a turn.
NotStalled ==
    jumps <= 1 /\ skew = 0 =>
        \A i \in DOMAIN timers :
            timers[i].due < timers[i].kind.interval + Skew + MaxSleep + slow

\* An aligned timer stays on its multiple of seconds through every call, slow
\* callback and change of the clock.
StaysAligned ==
    \A i \in DOMAIN timers : timers[i].kind.align_second > 0 =>
        (second + timers[i].due) % timers[i].kind.align_second = 0

\* The array of poll() that hook_fd_exec reads after callbacks have added and
\* removed hooks has all its entries.
PolledStaysAllocated == Len(pollfd) <= allocated

\* The callback of a descriptor is called for an event on that descriptor, and
\* not on another one that had its number.
EventOfItsOwn == [][FdCall => desc[served'].polled \/ desc[served'].state = "closed"]_vars

\* A timer is called in the end, or unhooked, although the clock jumps and other
\* callbacks are slow.
TimerRuns ==
    \A id \in TimerId : id \in Alive(timers) ~> id \notin Alive(timers) \/ served = id

\* Data on a hooked descriptor is read in the end.
FdServed ==
    \A fd \in Fd :
        fd \in Alive(fds) /\ desc[fd].state = "readable"
            ~> fd \notin Alive(fds) \/ desc[fd].state # "readable" \/ served = fd
-----------------------------------------------------------------------------
(* Conjunctions of the properties above, as the runs check them.           *)

\* Timers are called on time: to the second without disturbance, with a bounded
\* delay after a change of the clock, aligned ones on their multiple of seconds
\* (hook_timer_check_system_clock, hook_timer_time_to_next, hook_timer_exec).
OnTime == Punctual /\ StaysAligned /\ NotStalled

\* The lists of timers and descriptors and the array of poll() stay consistent
\* while callbacks hook and unhook (hook_fd_realloc_pollfd, hook_fd_exec).
LoopSound == TypeOK /\ PolledStaysAllocated

\* No timer and no descriptor starves the other ones (gui_main_loop).
Served == TimerRuns /\ FdServed
=============================================================================
