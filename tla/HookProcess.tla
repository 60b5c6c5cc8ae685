----------------------------- MODULE HookProcess -----------------------------
(***************************************************************************)
(* One hook_process of src/core/doge-hook.c: a forked child that writes on *)
(* two pipes, the two fd hooks that read them, the timer that polls        *)
(* waitpid() and counts down the timeout, and the callback of the owner.   *)
(*                                                                         *)
(* The child (and whatever it forks, which may keep the pipes open after   *)
(* its death) runs concurrently with the program.  Output is counted in    *)
(* chunks, time in milliseconds by steps of Step.                          *)
(***************************************************************************)
EXTENDS Naturals, Integers, FiniteSets

CONSTANTS
    Timeouts,   \* arguments of hook_process, in ms; 0: no timeout
    Step,       \* granularity of time
    MaxTime,    \* bound: the run is observed until then
    MaxOut,     \* bound: chunks written on stdout
    MaxErr,     \* bound: chunks written on stderr
    PipeSize,   \* chunks a pipe of the system holds; a writer then waits
    BufferSize, \* HOOK_PROCESS_BUFFER_SIZE
    Flush,      \* option buffer_flush
    ReadMax,    \* size of the buffer given to read()
    MaxLoops,   \* iterations of hook_process_child_read_until_eof (1024)
    CallbackUnhooks \* may the callback unhook its own hook?

ASSUME ProcessAssumption ==
    /\ Timeouts \subseteq Nat /\ MaxTime \in Nat /\ {MaxOut, MaxErr} \subseteq Nat
    /\ Step \in Nat \ {0} /\ BufferSize \in Nat \ {0} /\ PipeSize \in Nat \ {0}
    /\ Flush \in 1..BufferSize
    /\ ReadMax \in 1..BufferSize
    /\ MaxLoops \in Nat \ {0}
    /\ CallbackUnhooks \in BOOLEAN

Stream == {"stdout", "stderr"}
Code   == {"none", "running", "exit", "error"}

VARIABLES
    now,        \* time since hook_process
    timeout,    \* the timeout of the hook
    hook,       \* "none", "live", "crashed" (freed data used) or "gone"
    child,      \* "none", "running", "ended" (a zombie) or "reaped"
    endedAt,    \* when the child ended
    normal,     \* the child ended with exit(), not by a signal
    holder,     \* streams whose write end some process still holds
    pipe,       \* chunks in each pipe
    hook_fd,    \* streams whose fd hook is still there
    buffer_size,\* chunks kept for the callback
    next_exec,  \* the timer: next call
    remaining,  \* the timer: remaining_calls
    loops,      \* iteration of the reading until EOF; 0: not reading
    written, writtenAtEnd, delivered, \* history of the output
    code,       \* history: last return code given to the callback
    reports,    \* history: calls of the callback with a final code
    killedAt,   \* history: time of the kill for the timeout; -1: none
    killedPid   \* history: the state of the child at the last kill()

processVars == <<now, timeout, hook, child, endedAt, normal, holder, pipe, hook_fd, buffer_size,
          next_exec, remaining, loops, written, writtenAtEnd, delivered, code,
          reports, killedAt, killedPid>>

childVars  == <<timeout, endedAt, normal, holder, written, writtenAtEnd>>
timerVars  == <<next_exec, remaining>>
reportVars == <<code, reports, delivered, buffer_size>>
killVars   == <<killedAt, killedPid>>

Zero == [s \in Stream |-> 0]
Least(a, b) == IF a <= b THEN a ELSE b

\* hook_process_run: the timer that looks after the child.
Interval(ms) == IF ms \in 1..100 THEN ms ELSE 100

\* Mutant: a long timeout is an endless timer.
TimerMaxCallsEndless(ms) == IF ms \in 1..100 THEN 1 ELSE 0

TimerMaxCalls(ms) ==
    CASE ms = 0      -> 0
      [] ms \in 1..100 -> 1
      [] ms > 100    -> (ms \div 100) + (IF ms % 100 = 0 THEN 1 ELSE 0)

ProcessInit ==
    /\ now = 0 /\ timeout = 0
    /\ hook = "none" /\ child = "none" /\ endedAt = 0 /\ normal = TRUE
    /\ holder = {} /\ pipe = Zero /\ hook_fd = {} /\ buffer_size = Zero
    /\ next_exec = 0 /\ remaining = 0 /\ loops = 0
    /\ written = Zero /\ writtenAtEnd = Zero /\ delivered = Zero
    /\ code = "none" /\ reports = 0 /\ killedAt = -1 /\ killedPid = "none"

(***************************************************************************)
(* hook_process_run.                                                       *)
(***************************************************************************)
Start(ms) ==
    /\ hook = "none"
    /\ timeout' = ms
    /\ \E detached \in BOOLEAN :
         /\ hook_fd' = IF detached THEN {} ELSE Stream
         /\ holder' = hook_fd'
    /\ hook' = "live"
    /\ child' = "running"
    /\ next_exec' = now + Interval(ms)
    /\ remaining' = TimerMaxCalls(ms)
    /\ UNCHANGED <<now, endedAt, normal, pipe, loops, written, writtenAtEnd,
                   reportVars, killVars>>

\* pipe() or fork() failed: the callback is told, and the hook removed.
StartFails ==
    /\ hook = "none"
    /\ hook' = "gone"
    /\ code' = "error"
    /\ reports' = reports + 1
    /\ UNCHANGED <<now, child, childVars, pipe, hook_fd, timerVars, loops,
                   delivered, buffer_size, killVars>>

(***************************************************************************)
(* The child and the processes it leaves behind.                           *)
(***************************************************************************)
Write(s) ==
    /\ s \in holder
    /\ written[s] < IF s = "stdout" THEN MaxOut ELSE MaxErr
    /\ s \in hook_fd => pipe[s] < PipeSize
    /\ written' = [written EXCEPT ![s] = @ + 1]
    /\ pipe' = [pipe EXCEPT ![s] = IF s \in hook_fd THEN @ + 1 ELSE @]
    /\ UNCHANGED <<now, timeout, hook, child, endedAt, normal, holder, writtenAtEnd, hook_fd,
                   timerVars, loops, reportVars, killVars>>

CloseStream(s) ==
    /\ s \in holder
    /\ holder' = holder \ {s}
    /\ UNCHANGED <<now, timeout, hook, child, endedAt, normal, written, writtenAtEnd, pipe,
                   hook_fd, timerVars, loops, reportVars, killVars>>

ChildEnds ==
    /\ child = "running"
    /\ child' = "ended"
    /\ endedAt' = now
    /\ normal' \in BOOLEAN
    /\ writtenAtEnd' = written
    /\ holder' \in SUBSET holder  \* a grandchild may keep a pipe open
    /\ UNCHANGED <<now, timeout, hook, written, pipe, hook_fd, timerVars, loops,
                   reportVars, killVars>>

\* Mutant: the flush empties both buffers but gives only stdout.
SentHalf(d) == [kept |-> Zero, got |-> [d.got EXCEPT !["stdout"] = @ + d.kept["stdout"]],
                calls |-> TRUE]

(***************************************************************************)
(* The buffers.  A record holds what is kept and what the callback got.    *)
(***************************************************************************)
\* hook_process_send_buffers
Sent(d) == [kept |-> Zero, got |-> [s \in Stream |-> d.got[s] + d.kept[s]], calls |-> TRUE]

\* hook_process_add_to_buffer
Added(d, s, n) ==
    LET e == IF d.kept[s] + n > BufferSize THEN Sent(d) ELSE d
    IN  [e EXCEPT !.kept[s] = @ + n]

\* hook_process_child_read, when read() returned n > 0
ReadInto(d, s, n) ==
    LET e == Added(d, s, n)
    IN  IF e.kept[s] >= Flush THEN Sent(e) ELSE e

Buffers == [kept |-> buffer_size, got |-> delivered, calls |-> FALSE]

SetBuffers(d) == buffer_size' = d.kept /\ delivered' = d.got

\* The callback may unhook the process: hook_process_send_buffers then writes
\* into the hook_data that unhook() has freed and set to NULL.
CallbackResult(called) == hook' \in (IF called /\ CallbackUnhooks THEN {"live", "crashed"}
                                                                  ELSE {"live"})

\* Mutant: the child is killed and not waited for.
UnhookedNoWait ==
    /\ hook_fd' = {}
    /\ pipe' = Zero
    /\ child' = IF child = "running" THEN "ended" ELSE child
    /\ killedPid' = child
    /\ loops' = 0

\* unhook() of the process: fds and timer go, SIGKILL, and a blocking waitpid().
Unhooked ==
    /\ hook_fd' = {}
    /\ pipe' = Zero
    /\ child' = "reaped"
    /\ killedPid' = child
    /\ loops' = 0

Idle == hook = "live" /\ loops = 0

\* hook_fd_exec calls hook_process_child_read.
FdReads(s) ==
    /\ Idle
    /\ s \in hook_fd
    /\ pipe[s] > 0
    /\ LET n == Least(pipe[s], ReadMax)
           d == ReadInto(Buffers, s, n)
       IN  /\ pipe' = [pipe EXCEPT ![s] = @ - n]
           /\ SetBuffers(d)
           /\ CallbackResult(d.calls)
           /\ code' = IF d.calls THEN "running" ELSE code
    /\ UNCHANGED <<now, child, childVars, hook_fd, timerVars, loops, reports, killVars>>

FdEof(s) ==
    /\ Idle
    /\ s \in hook_fd \ holder
    /\ pipe[s] = 0
    /\ hook_fd' = hook_fd \ {s}
    /\ UNCHANGED <<now, hook, child, childVars, pipe, timerVars, loops, reportVars, killVars>>

(***************************************************************************)
(* hook_process_timer_cb, called by hook_timer_exec with remaining_calls-1 *)
(* (-1 without timeout).                                                   *)
(***************************************************************************)
TimerDue == Idle /\ now >= next_exec

\* The last call: no waitpid(), no reading of what the pipes still hold.
TimeoutReached ==
    /\ TimerDue
    /\ remaining = 1
    /\ LET d == Sent(Buffers) IN SetBuffers(d)
    /\ code' = "error"
    /\ reports' = reports + 1
    /\ hook' \in {"gone"} \cup (IF CallbackUnhooks THEN {"crashed"} ELSE {})
    /\ killedAt' = now
    /\ Unhooked
    /\ UNCHANGED <<now, childVars, timerVars>>

StillRunning ==
    /\ TimerDue
    /\ remaining # 1
    /\ child = "running"
    /\ next_exec' = next_exec + Interval(timeout)
    /\ remaining' = IF remaining > 0 THEN remaining - 1 ELSE 0
    /\ UNCHANGED <<now, hook, child, childVars, pipe, hook_fd, loops, reportVars, killVars>>

\* Mutant: the pipes are not read again once the child is reaped.
ChildFoundNoRead ==
    /\ TimerDue
    /\ remaining # 1
    /\ child = "ended"
    /\ child' = "reaped"
    /\ loops' = MaxLoops + 1
    /\ UNCHANGED <<now, hook, childVars, pipe, hook_fd, timerVars, reportVars, killVars>>

\* waitpid() reaps the child: now read what it left in the pipes.
ChildFound ==
    /\ TimerDue
    /\ remaining # 1
    /\ child = "ended"
    /\ child' = "reaped"
    /\ loops' = 1
    /\ UNCHANGED <<now, hook, childVars, pipe, hook_fd, timerVars, reportVars, killVars>>

\* One iteration of hook_process_child_read_until_eof: poll(), then one read()
\* per stream that has data; a stream that was only hung up is polled again.
Readable   == {s \in hook_fd : pipe[s] > 0}
PollReady  == Readable \cup (hook_fd \ holder)

DrainLoop ==
    /\ hook = "live"
    /\ loops \in 1..MaxLoops
    /\ PollReady # {}
    /\ LET n(s) == Least(pipe[s], ReadMax)
           a == IF "stdout" \in Readable THEN ReadInto(Buffers, "stdout", n("stdout")) ELSE Buffers
           b == IF "stderr" \in Readable THEN ReadInto(a, "stderr", n("stderr")) ELSE a
       IN  /\ pipe' = [s \in Stream |-> IF s \in Readable THEN pipe[s] - n(s) ELSE pipe[s]]
           /\ SetBuffers(b)
           /\ CallbackResult(b.calls)
           /\ code' = IF b.calls THEN "running" ELSE code
    /\ loops' = loops + 1
    /\ UNCHANGED <<now, child, childVars, hook_fd, timerVars, reports, killVars>>

\* Nothing to read any more, or enough iterations: the final report.
Drained ==
    /\ hook = "live"
    /\ loops > 0
    /\ loops > MaxLoops \/ PollReady = {}
    /\ LET d == Sent(Buffers) IN SetBuffers(d)
    /\ code' = IF normal THEN "exit" ELSE "error"
    /\ reports' = reports + 1
    /\ hook' \in {"gone"} \cup (IF CallbackUnhooks THEN {"crashed"} ELSE {})
    /\ Unhooked
    /\ UNCHANGED <<now, childVars, timerVars, killedAt>>

(***************************************************************************)
(* The owner unhooks the process from somewhere else; time passes.         *)
(***************************************************************************)
OwnerUnhooks ==
    /\ Idle
    /\ hook' = "gone"
    /\ Unhooked
    /\ UNCHANGED <<now, childVars, timerVars, reportVars, killedAt>>

\* The clock; the program may be late to serve the timer.
Tick ==
    /\ hook = "live"
    /\ now + Step <= MaxTime
    /\ now' = now + Step
    /\ UNCHANGED <<hook, child, childVars, pipe, hook_fd, timerVars, loops,
                   reportVars, killVars>>

MainLoop == \/ TimeoutReached \/ StillRunning \/ ChildFound \/ DrainLoop \/ Drained
            \/ \E s \in Stream : FdReads(s) \/ FdEof(s)

ProcessNext == \/ \E ms \in Timeouts : Start(ms)
        \/ StartFails \/ ChildEnds \/ OwnerUnhooks \/ Tick \/ MainLoop
        \/ \E s \in Stream : Write(s) \/ CloseStream(s)

ProcessSpec == ProcessInit /\ [][ProcessNext]_processVars

\* The main loop runs forever and time passes; nothing is asked of the child.
FairProcessSpec == ProcessSpec /\ WF_processVars(MainLoop) /\ WF_processVars(Tick)

-----------------------------------------------------------------------------
\* Every variable has its type.
ProcessTypeOK ==
    /\ timeout \in Timeouts \cup {0}
    /\ now \in Nat /\ endedAt \in Nat /\ normal \in BOOLEAN
    /\ hook \in {"none", "live", "crashed", "gone"}
    /\ child \in {"none", "running", "ended", "reaped"}
    /\ holder \subseteq Stream /\ hook_fd \subseteq Stream
    /\ pipe \in [Stream -> Nat] /\ buffer_size \in [Stream -> Nat]
    /\ next_exec \in Nat /\ remaining \in Nat /\ loops \in Nat
    /\ written \in [Stream -> Nat] /\ writtenAtEnd \in [Stream -> Nat]
    /\ delivered \in [Stream -> Nat]
    /\ code \in {"none", "running", "exit", "error"}
    /\ reports \in Nat /\ killedAt \in Int
    /\ killedPid \in {"none", "running", "ended", "reaped"}

\* hook_process_add_to_buffer never copies past the HOOK_PROCESS_BUFFER_SIZE + 1
\* bytes of a buffer, whatever buffer_flush is and whichever stream is read:
\* neither what is kept nor what the next read will add before it is flushed.
BuffersFit ==
    \A s \in Stream :
        /\ buffer_size[s] <= BufferSize
        /\ Added(Buffers, s, Least(pipe[s], ReadMax)).kept[s] <= BufferSize

\* Every chunk written on an attached stream is in the pipe, in the buffer or
\* in the hands of the callback: the flush of one stream loses nothing of the
\* other one.
NothingLost ==
    hook = "live" => \A s \in Stream :
        pipe[s] + buffer_size[s] + delivered[s] = written[s]

\* All the output of a child whose exit code is reported was delivered before.
AllOutputDelivered ==
    code = "exit" => \A s \in Stream : delivered[s] >= writtenAtEnd[s]

\* The callback gets one final code, when the hook goes and never before; only
\* a hook that its owner unhooks goes without.
OneFinalReport ==
    /\ reports = (IF code \in {"exit", "error"} THEN 1 ELSE 0)
    /\ reports = 1 => hook # "live"

\* A hook that is gone leaves no process behind: the child is reaped, not a zombie.
NoZombie == hook = "gone" => child \in {"none", "reaped"}

\* "after this timeout, child process is killed": not before.
NotKilledEarly == killedAt # -1 => killedAt >= timeout

\* A child that ends before the timeout is reported with its exit code.
TimelyExitReported ==
    (killedAt # -1 /\ killedPid = "ended") => endedAt >= timeout

\* "unhook (and kill process if it is still running)": SIGKILL never goes to a
\* process number that waitpid() has given back to the system.
KillsOnlyOwnChild == killedPid # "reaped"

\* No function uses the data of the hook after its callback has unhooked it.
NoFreedDataUsed == hook # "crashed"

\* With a timeout, the hook goes in the end even if the child never does.
ProcessEnds == (hook = "live" /\ timeout > 0) ~> hook = "gone"
-----------------------------------------------------------------------------
(* Conjunctions of the properties above, as the runs check them.           *)

\* The buffers of a process neither overflow nor lose output, though the flush
\* of one stream comes in the middle of the other one
\* (hook_process_add_to_buffer, hook_process_send_buffers).
BuffersSound == ProcessTypeOK /\ BuffersFit /\ NothingLost

\* The end of a process is told once, and no zombie is left, whichever of the
\* timer, the pipes and the owner of the hook comes first (unhook,
\* hook_process_timer_cb).
EndsClean == OneFinalReport /\ NoZombie

\* What the callback is told is what happened: all the output of an exit code,
\* no timeout before its time and none for a child that ended in time
\* (hook_process_timer_cb, hook_process_child_read_until_eof).
OutcomeTrue == AllOutputDelivered /\ TimelyExitReported /\ NotKilledEarly
=============================================================================
