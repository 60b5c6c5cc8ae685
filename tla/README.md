# A verification project for DogeChat

DogeChat is a chat client in C for the terminal: a core, a curses interface and
plugins (IRC, relay, file transfer, scripting...).  The program has one thread.
Its main loop (`src/gui/curses/gui-curses-main.c`, `gui_main_loop`) runs the timers
that are due, refreshes the screen and serves the sockets that are ready, until
`dogechat_quit` is set.  Everything else is a callback of a *hook*, and a callback may
do anything: add hooks, remove hooks (its own included), send signals that run
other callbacks, run commands, disconnect a server.  The hard behaviours of
DogeChat come from there: functions re-read, or keep, state over a call that
lets the rest of the program run.  Child processes (`hook_process`, `hook_connect`,
file transfers) and the peers of its sockets are what truly runs beside it.

Paths below are relative to the repository (`src/core/...`); the map in
`PROJECT.json` gives the lines of every definition.

## 1. Inventory

| Component | Source | State | Operations | Interacts by | What makes it correct |
|---|---|---|---|---|---|
| hook lists and dispatch | `src/core/doge-hook.c` | 17 linked lists, `running` and `deleted` per hook, `hook_exec_recursion`, `real_delete_pending` | `hook_xxx`, `unhook`, `unhook_all_plugin`, the 14 loops that run callbacks | calls every part of the program back | pointers saved by a loop stay valid; lists stay sorted; a hook due is called once; deleted hooks are freed |
| process hooks | `src/core/doge-hook.c` 1427-2101 | pid, pipes, two buffers, fd hooks, timer | start, read, flush, timer, timeout, unhook | fd and timer hooks; callback of the owner | all output and one exit code delivered; no zombie; killed at the timeout and not before |
| connect hook | `src/core/doge-network.c` | child, socket, TLS session | fork, connect, handshake, report | callback with a status | the callback is called once and the hook goes |
| IRC server connection | `src/plugins/irc/irc-server.c`, `irc-command.c`, `irc-protocol.c` | `hook_connect`, `sock`, `is_connected`, timers, addresses, retries, `reconnect_*` | connect, disconnect, reconnect, switch address, login, timers | connect hook, timers, commands of the user, messages | one connection at a time; a wanted server is never forgotten |
| IRC out queue | `irc-server.c` 1600-2255 | two queues, `last_user_message`, a static buffer | send, queue, timer | signals `irc_out*` and modifiers run callbacks in the middle | order in a queue, delay of the anti-flood, what is announced is sent |
| IRC redirections | `irc-redirect.c` | list per server, pattern, count, `start_time` | create, assign, message, stop, timeout | out queue, signal with the output | the output is the one of the command |
| IRC receive queue | `irc-server.c` 2396-2861 | queue of lines, unterminated rest | add, flush | protocol handlers | nothing read after the connection is lost |
| main loop | `gui-curses-main.c`, `doge-hook.c` 1001-1425 | timers with a date, the array of `poll()` | run timers, sleep, run descriptors | system clock, callbacks | a timer is called on time and in the end; a readable descriptor is read |
| IRC channels, nicks, modes | `irc-channel.c`, `irc-nick.c`, `irc-mode.c`, `irc-protocol.c` | channels with nicks, modes, `cycle`, `part`, `hook_autorejoin` | handlers of JOIN, PART, KICK, NICK, QUIT, MODE, 324, 353; /join, /part, /cycle | the server and its users, timers, the out queue | what the client believes is what the server has; what the user asked last is what he gets |
| IRC notify, ignore, CTCP, SASL, raw, upgrade | `irc-*.c` | lists and text | | redirections, files | |
| relay | `src/plugins/relay` | clients, out queue, sync of buffers | accept, authenticate, send, close | sockets, signals | no message before authentication; queue in order |
| xfer | `src/plugins/xfer` | one record per transfer, a child per file | send, accept, resume, abort | pipe from the child, a connection with the other client | file complete when "done"; both ends agree; no child left |
| configuration | `src/core/doge-config*.c` | files, sections, options | read, reload, write, set, unset | callbacks of options, the file on disk | values in range; the file is whole after a crash; what was saved is read back |
| data structures | `doge-hashtable.c`, `doge-arraylist.c`, `doge-list.c`, `doge-infolist.c`, `doge-hdata.c` | | insert, search, remove | none | search finds what was inserted |
| interface | `src/gui` | buffers, lines, windows, bars, nicklist, hotlist, keys | open, close, move, merge, zoom, hide, switch, split | signals | numbers of buffers in order; one active buffer per number; pointers between windows, buffers and lists valid; unread messages in the hotlist |
| plugins and scripts | `src/plugins/plugin*.c`, languages | list of plugins | load, unload | `unhook_all_plugin` | nothing of a plugin survives its unload |
| exec, fifo, logger, trigger, script, alias, aspell, charset | `src/plugins/*` | small | | hooks | |

`PROJECT.json` lists the components with their status and, under "hazards", each place
of the code where an order of events, a limit or a failure is hard to test.

## 2. The modules

| Module | Models | Instances |
|---|---|---|
| `HookDispatch` | hook lists and loops | `MCHookDispatch`; `HookEvents.cfg`, `HookCommands.cfg` |
| `HookProcess` | one process hook and its child | `Process.cfg` |
| `MainLoop` | timers, descriptors and `poll()` under a clock that changes | `MCMainLoop`; `MainLoop.cfg` |
| `IrcServer` | the connection of one IRC server | `MCIrcServer`; `IrcServer.cfg` |
| `IrcOutqueue` | what a server is sent: anti-flood queues and redirections | `MCIrcOutqueue`; `IrcOutqueue.cfg` |
| `IrcRedirect` | what a server answers: receive queue and redirections | `MCIrcRedirect`; `IrcRedirect.cfg` |
| `IrcChannels` | channels, nicks and modes of the client and of the server | `MCIrcChannels`; `IrcChannels.cfg` |
| `GuiBuffer` | buffers, windows, visited buffers, hotlist | `MCGuiBuffer`; `GuiBuffer.cfg` |
| `FileTransfer` | what a file transfer promises (abstract) | instance of `Xfer` |
| `Xfer` | a DCC file transfer: two clients, two children | `MCXfer`; `Xfer.cfg`, `XferSearch.cfg` |
| `ConfigFile` | options, their file, reload and crash | `MCConfigFile`; `ConfigFile.cfg` |
| `HookProofs` (on `HookDispatch` and `HookProcess`), `CoreProofs` (on `MainLoop` and `ConfigFile`), `IrcServerProofs`, `IrcOutqueueProofs`, `IrcRedirectProofs`, `IrcChannelsProofs`, `GuiBufferProofs`, `XferProofs` | theorems about each of them | TLAPS |

`MainLoop` is what calls the others: its timers and descriptors are the actions "timer" and
"read" of `HookProcess`, `IrcServer`, `IrcOutqueue` and `Xfer`, whose fairness it justifies.
`IrcServer` makes and loses the connections; `IrcOutqueue` and `IrcRedirect` are the two
directions of one of them, and `IrcChannels` composes a client with a server over both.

### HookDispatch

A hook is an *address* (`Hook`): memory that was freed is used again by the next
`hook_xxx`, so a stale pointer silently becomes a pointer to another hook.  What lives
at an address (type, name, priority, plugin) is a constant.  `status` is allocation and
`hook->deleted`; `precedes` is the order of the linked lists (`HeadOf` and `NextOf` read
it as `dogechat_hooks[type]` and `next_hook` do); `recursion` and `pending` are the two
globals.  `stack` has one frame for each loop in progress, with the hook it runs and
the `next_hook` it has saved: callbacks interleave with the loops above them on the
stack, to the depth `MaxDepth`.

The loops of the code are one action set, with three parameters per type: does the
loop count itself (`Guarded`; all but `hook_command_run_exec`), does it stop when a
callback eats the event (`StopsOnEat`) or at the first match (`StopsAtFirst`).
`hook_command_exec` is its own path: it first runs the command_run loop, then chooses
a command (`CommandFor`) and runs it.  A callback is any sequence of `AddHook`, `Unhook`,
`UnhookAllPlugin` and nested loops, and returns either way.  When a loop reads freed
memory the program dies and starts again (`CrashAndRestart`).

### HookProcess

One hook, its child, and the processes the child leaves behind (which may keep the
pipes open).  The timeout is chosen in the set `Timeouts` when the process starts (0: none);
`Interval` and `TimerMaxCalls` are the two numbers `hook_process_run` derives from it.  Output is
counted in chunks, at most `MaxOut` and `MaxErr` on the two pipes, with the sizes of the
buffer, of the option `buffer_flush` and of a `read()` as constants; a pipe holds `PipeSize`
chunks (64 KiB on Linux, of which a `read()` takes an eighth), and who writes more waits.  Time goes
in steps of `Step` ms, and the program may be late for its timer.  `loops` is the iteration of
`hook_process_child_read_until_eof`, so the child's descendants may write between two
iterations.  A detached process has no pipes.  `CallbackUnhooks` lets the
callback unhook its own hook.

### IrcServer

One `t_irc_server` (servers share no state on these paths).  The functions of the code
that do not let another callback run are operators from server to server, or to the
set of servers when they connect (`Connect`, `Disconnect`, `SwitchAddress`,
`ReconnectSchedule`...), composed as the code calls them; the actions are the commands
of the user, the timers, the callback of the connect hook and the messages that
matter.  `ConnectStatus` and `LoginResult` say how each address behaves.  Booleans
turn on the environment a run is about: `ProxyChanges`, `AddressChanges`, `SyncFails`
(`hook_connect` fails before it returns), `Upgrades`.  `failures`, `wanted` and `stopped`
are history.

### IrcOutqueue

What one server sends.  A message is a number, given when `irc_server_send_one_msg`
starts; a redirection has the number of the message it was made for (the document of
`irc_redirect_command` asks that the command is sent "immediately after").  `stack` has a frame
for each function that has called back the program and goes on after: `modify` (the
modifier "irc_out_xxx"), `send` (the signals before a message is sent at once), `queue`
(the same for the head of a queue) and `stop` (the signal of a redirection that ends).
`SendsIn` and `EmptiesIn` say from which of them callbacks send messages, or disconnect and
delete the queues.  `buffer` is the static buffer of `irc_server_send_one_msg`, and
`since` the age of `last_user_message` for the system clock, which may be set back;
`elapsed` is true time since a message of each priority was sent.  `AntiFlood` holds the
two options.  When a redirection stops is a choice here: `IrcRedirect` has the messages that
start and stop it.  A message that is split in several lines is several messages.

### MainLoop

One turn of `gui_main_loop` is a sequence of steps in `pc`: the timers (`TimerExec`,
`TimerCall`, the callback, `TimerReturns`, `TimerExecEnds`), the array of `poll()` (`Build`,
which also notices a clock that was changed and computes the sleep), `Wake`, then the
descriptors in the same way.  A timer keeps the time left until its date, so the clock needs
no bound; `second` is the clock modulo `Align`, for aligned timers, and `skew` how far the
clock and `hook_last_system_time` are apart.  `late` is the time since `hook_timer_exec` has read
the clock, which callbacks use up.  In callbacks, hooks are added and removed, descriptors
closed and (`Reopens`) opened under the same number.

### IrcRedirect

The client redirects commands (`Ask`, with a count and a string) or not (`Type`); they are
sent in order, and the server answers each with one of the sequences of `Answers`, between
which it may say something of its own.  A message travels as two halves, so that reads
(`AddBuffer`, half by half, until `RecvEnds`) cut lines anywhere, and `Flush` handles one message of
`irc_recv_msgq`, after which a handler may disconnect.  `Message`, `Reached`, `One`, `Match` and `Stop` are
`irc_redirect_message` and what it calls.  The list of redirections is a function of the number of
their first command, as a new one is put at its end.  `orderly` and `recounts` are history: every command
was redirected, answered in time and not interrupted; some redirection counts answers that may have
an extra message.

### IrcChannels

A client and a server, with two channels in order that are lost together: `outq` (commands) and
`wire` (messages).  A `Get...` action is one handler of `irc-protocol.c`; `Serve` and the
actions of other users (`OtherJoins`, `Removed`, `Renamed`, `Quits`, `Op`, `Flag`) are the server,
which the repository does not have and which follows the protocol.  `Queued` lets a command
of low priority be overtaken in the out queue.  `timers` counts the autorejoin timers that
exist, also those whose pointer was overwritten.  `intent` is what the user asked last of a
channel ("any" once a race makes both outcomes right).

### GuiBuffer

The record `gui` is the interface: the buffers that are open, for each those *before* it in the list
(the doubly linked list as an order), its `number`, `active` (2: zoomed), `zoomed`, `hidden`, `num_displayed`
and `lines`, the windows with what they display, the current window, the visited buffers with their index,
the hotlist, and the pointers of the jumps.  Buffers with one number are a group (`Mates`).
A C function is a function of this record (`Merge`, `Unmerge`, `MoveToNumber`, `Swap`,
`Renumber`, `CloseBuffer`, `SwitchToBuffer`...), composed as the code calls them, and a
command of the user is one application; only two kinds of loops are several steps, between which nothing
else runs: that of `gui_buffer_unmerge_all` (`UnmergeNext`), and those of `gui-layout.c` that give windows their
buffers (`AssignNext`, a window at each step, with `assigning` for those still to come).  What C does to the list by pointers is said of sets:
buffers leave it (`Removed`), enter it after some others (`Placed`), and those after take their numbers
(`Shifted`).  A list of lines is the set of buffers whose lines it holds.

`layout_buffer` is the buffer that the layout names for each window (`layout_plugin_name` and
`layout_buffer_name`; none for a window that was split by hand).  `LayoutApply` is `gui_layout_window_apply`:
the windows are merged and split again, all with the current buffer (its splits and switches of
windows are one switch to that buffer, as the others find nothing to change), and the loop then gives each
one the buffer named, if it is open.  `BufferNew` goes on, after `gui_buffer_insert`, with
`gui_layout_window_assign_buffer`: the windows whose layout names the new buffer switch to it, which is how
a layout applied at the start finds the buffers of plugins later.  `LayoutReset` forgets the names.

### FileTransfer and Xfer

`FileTransfer` is the promise to the user who receives a file: the copy is a beginning of the
file, and "done" is said of the whole file and is final.  `Xfer` has on each side the record of
the main process (`snd`, `rcv`), its child (`sc`, `rc`), and the pipe between them; between the
clients a connection with blocks and acknowledgements (counters modulo `AckModulo`), which
may break, and the messages RESUME and ACCEPT, which may be lost.  Users offer, accept,
cancel and remove.  `ImplementsTransfer` is the refinement, with `disk` as the copy.

### ConfigFile

`value` holds the options, `file` the lines on disk, and `op` the write, read or reset under
way, one line or option at a time, with the lines of the temporary file.  While a file is
read the callbacks of its options change others; the user edits or removes the file between;
`Crash` is possible in any state and `Start` reads the file again, or writes a first one.  It is a crash of the
process: what was written stays written.  The code does not synchronize the temporary file before
it is renamed, so a loss of power is outside the model and outside `CrashSafe`.
Integers wrap at `IntMax`.

## 3. What is checked

Every property of a passing run is also tried against a mutant of a definition (the
operators commented "Mutant"), which must break it.  Related properties are checked as one
conjunction with a name; its parts keep theirs.

### Runs that pass

| Run | Checks | Bounds |
|---|---|---|
| `hook_events` | `ListsWellFormed`: lists sorted and linked; `PointersValid`: saved pointers allocated; `EveryHookCalledOnce`: one event calls each due hook exactly once; `DeletedAreFreed`: a deleted hook is freed in the end | 3 signal hooks of 2 priorities and a focus hook, 2 loops nested; fairness |
| `hook_commands` | `ReentryBounded`; `ChosenHasTopPriority`: the command chosen; `LoopsAccounted`: the counter counts the loops and deleted hooks are pending, through every exit | 3 commands of one name in 2 plugins, a command_run and an info hook, 2 loops nested |
| `process` | `BuffersSound`: nothing overflows or is lost; `EndsClean`: one final report, no zombie; `OutcomeTrue`: all output before the exit code, killed at the timeout and not before, an exit in time is reported; `ProcessEnds`: with a timeout | no timeout or 200 ms, time to 300 by 100; 3 and 1 chunks, which overfill the buffer; fairness |
| `irc_server` | `OneConnection`: one thing at a time, timers with their socket, a stopped server stays so; `NeverStuck`: a login has a timeout, a wanted server is not forgotten; `RetryPerAddress`; `DelayGrows`; `WantedIsConnected` | 3 addresses, of which one works, 3 commands, SASL, SSL, /upgrade, missing proxies, failures before `hook_connect` returns, changed addresses; fairness |
| `irc_outqueue` | `MessagesKept`: order, nothing lost or sent twice, what is announced is sent; `RedirectsSound`: a redirection serves one command and is allocated while a message waits with it; `Throttled`: the delay of the anti-flood; `QueueDrains` | 3 messages, 2 connections, callbacks that send from `queue` and `stop`, one step back of the clock, delays of 1 and 2 s; fairness |
| `main_loop` | `OnTime`: punctual, aligned, not stalled by the clock; `LoopSound`: the array of `poll()` is long enough; `Served`: each timer and each readable descriptor in the end | 2 timers of 2 kinds, 2 descriptors, one jump of the clock, one slow second; fairness; 412 428 states |
| `gui_buffer` | `GroupsSound`: numbers in order, one active buffer per number, complete mixed lines; `UnseenIsHot`: unread messages in the hotlist; `PointersSound`: nothing points to a closed buffer; `WindowsKept`: windows keep what they show, unless the user asks, the buffer is closed, or their layout names a buffer that is opened | 3 buffers, 2 windows, 2 layouts of windows (of which one names a buffer twice), any 6 operations; 223 330 states |
| `irc_redirect` | `LinesWhole`: whole lines of one connection; `OwnAnswers`: a redirection takes its own answers; `AnswersWhole`: completely, and once | 2 commands, 2 patterns, 2 connections, one message of the server, one timeout; 1 956 744 states |
| `irc_channels` | `ChannelsAreTheServers`: nicks, own nick and modes are the server's once all is read; `UserIsObeyed`: the last wish decides; `ComesBack`: a wanted channel is joined again | 1 channel, 3 nicks, 2 commands, one act of others, one lost connection; fairness; 345 995 states |
| `xfer` | `TransferSound`: an ended transfer leaves nothing behind; `EndsAgree`: both users are told the same; `ImplementsTransfer`: refinement of `FileTransfer`; `TransfersEnd` | files of 0, 3, 5 bytes in blocks of 2, acknowledgements modulo 4, 2 offers, 1 cancel, 2 faults; fairness; 263 087 states |
| `config_file` | `ValuesSound`: values in range, owners told; `CrashSafe`: the file is whole after a crash of the process and a start gives what was saved; `ReloadIsLikeRestart` | 2 options and one of the user, integers of 3 bits, 2 changes, 1 edit, 2 saves, 1 crash; 1 000 141 states |

Three hooks of one list and two nested loops are enough for the hazards of the dispatch:
the hook that runs, the one saved as next, and a third that is put between or removed; a
loop that counts itself below one that does not.  Three commands of one name make a tie
between two plugins and a winner by priority.  The chunks of a process overfill the
buffer and the flush limit on one pipe while the other holds output; 200 ms is a multiple
of the interval (the case with a last, extra call).  Three addresses make the switch to the
next, the return to the first and one in the middle; three commands of the user reach every
combination of a pending and a cancelled reconnection.  Three messages make a head, one
behind it and one a callback sends; the delays differ so that a queue served with the other's
delay is seen.

In the main loop a jump back of 8 s is more than `Skew`, and is noticed; an instance with jumps
of -8 and -2 (779 754 states) passes too.  Six operations on three buffers merge two groups,
zoom, close one and come back.  Two commands are enough for answers to be confused (but see `recounts` below), the noise for one
to be interrupted, two connections for a rest to be glued; three commands without the rest of it
pass too (3 986 215 states).  The transfer's sizes are none, one block and a
rest, and more than acknowledgements can count; it also passed with two cancels (452 740 states).
The integers of `ConfigFile` are few enough that "++" wraps.

### The run that finds a violation

`xfer_search` checks `EndedStaysEnded`: a transfer that has ended does not start again by
itself.  `xfer_search` (`xfer.c` 225) assigns the status it should compare, so a message about
one transfer makes others of the same server and type "connecting" again.  The other
properties of `Xfer` are checked until then (`disturbed`); the quote is in "findings".

### Other divergences

These have no run of their own.  The first table is found by changing one constant, or asking for
the property, in a run above.

| Constants | Property | What happens |
|---|---|---|
| `hook_commands` | `NoFreedMemoryRead` | the command_run loop does not count itself, so it steps on a hook its callback freed; `hook_focus_get_data` calls a hook a second time that its first call may have unhooked |
| two commands of one name in a plugin | `OneCommandPerPlugin` | `hook_command` looks for a duplicate with the whole "priority\|name" (`doge-hook.c` 658) |
| `Timeouts = {250}` | `NotKilledEarly` | a timeout of 250 ms becomes 200 ms |
| `Timeouts = {100}` | `TimelyExitReported` | with one call of the timer, an exit in time is reported as a timeout |
| `CallbackUnhooks = TRUE` | `NoFreedDataUsed` | a callback unhooks its process in the middle of a flush, and the buffers are used after it |
| any of `process` | `KillsOnlyOwnChild` | `unhook` kills a pid that was reaped already (`doge-hook.c` 3664) |
| `Reopens = TRUE` | `EventOfItsOwn` | a callback closes a descriptor and another opens one with its number: the event of the first is given to the second |
| `ReallocFails = TRUE` | `PolledStaysAllocated` | the count is kept when the array cannot grow, and one descriptor too many is let in (`doge-hook.c` 1371) |
| `irc_server` | `SaslTimerWhileAuthenticating` | messages 903 and 907 leave the timer of SASL running |
| `ProxyChanges = TRUE` | `NeverForgotten` without "disturbed" | the next address cannot be connected at once, and the result is ignored (`irc-server.c` 3419) |
| `SyncFails = TRUE` | `HookConnectValid`, `NeverForgotten` without "disturbed" | `hook_connect` returns a freed hook; `/connect` cancels the reconnection its own failure has scheduled |
| `Upgrades = TRUE` | `NeverForgotten`, `LoginHasTimeout` without "disturbed" | `/upgrade` forgets a connection attempt and the timer of the login |
| `AddressChanges = TRUE` | `RetryPerAddress` without "disturbed" | a retry count moves to another address |
| `SendsIn = {"send"}` | `AnnouncedIsSent`, `RedirectUsedOnce` | a callback of "irc_out_xxx" sends a message: the static buffer is overwritten, the inner message is sent twice and the outer one never; both take the same redirection |
| `EmptiesIn = {"queue"}` | `NoFreedMemoryUsed` | the head of a queue that a callback has emptied is read (NULL) |
| `EmptiesIn = {"send"}` or `{"stop"}` | `NoFreedMemoryUsed` | a redirection freed by a disconnection in a callback is used, or freed again |
| `Drops = TRUE`, or `SendsIn = {"modify"}` | `RedirectOfItsCommand` | a message dropped or sent by a modifier leaves, or takes, the redirection of another |
| `irc_channels` | `CyclingIsTrue` | the flag "cycle" outlives a kick or a disconnection, and the next PART keeps the buffer open |
| `gui_buffer` | `NumDisplayed`, `UnreadIsHot` without "tangled" | "zoomed" stays after merge and unmerge, and `num_displayed` is wrong then |

With `SendsIn = {"queue"}`, two messages of *different* priorities may leave in the same
second; `Throttled` therefore speaks of one priority.  A clock set *forward* ends every
delay, as `time()` is all the code looks at: it is not modelled there.

Found while reading, and kept in the models as the code has it:

- Redirections: the comment at `irc-redirect.c` 863 says "if command is numeric", but any message
  is taken after the start; a message of the server between the message that ends an answer
  and its extra message ends the redirection; with a count and an extra message that does not
  come, the first message of the next answer is lost, or taken by the next redirection of the same
  pattern, which then has a message that is not its own.  Three commands are needed for it; the
  properties except it (`recounts`).
- Channels: `/part` does nothing in a channel without nicks, so an autorejoin that waits is not
  cancelled; a second kick replaces `hook_autorejoin` without unhooking the first.
- Transfers: acknowledgements have 32 bits, so without `fast_send` the sender of a file longer
  than they count waits for ever (`Stalls`); after a failed fork the transfer is
  closed and set to "connecting" all the same (`Forks`).
- Configuration: "++" and "--" with a negative number, an overflow, or from null leave the range
  (`strayed`); a long is cut to an int before its range is checked; a reload that cannot open the
  file resets all options; an invalid line keeps the old value at a reload and gives the default
  at a start.
- Buffers: the visited buffers keep one more than `max_visited_buffers`.

Hazards that no property covers, besides those of the table: reading until end of file stops after 1024 iterations
(`doge-hook.c` 1847); a message of `irc_recv_msgq` whose server a callback deletes
(`irc-server.c` 2535); the lag measure restarted before `lag_reconnect` (3102);
`irc_server_timer_cb` saves the next redirection over `irc_redirect_stop` (3132); a redirection
never assigned has no timeout (3138); the message about a bad descriptor is printed outside
`hook_exec_start` (`doge-hook.c` 1362); `/buffer close N-M` saves a buffer over signals
(`doge-command.c` 952); windows scrolled to lines of a group that is merged (`gui-line.c` 1544);
a receiver that has asked to resume waits without a timeout (`xfer-network.c` 753);
`auto_rename` is tested by its pointer (`xfer-file.c` 126); a save from a callback of a reload
clears `config_file->file` (`doge-config-file.c` 2766).

### Fairness

`HookDispatch!FairSpec`: the loops are sequential code, which runs to its end (weak
fairness), and a callback returns, or kills the program: at each depth, strongly fair,
since code it calls may run between.  `HookProcess!FairProcessSpec`: the main loop serves a timer and a
pipe that stay ready, and time passes; nothing is asked of the child, which may hang.
`IrcServer!FairSpec`: the timers run, a connection attempt ends (the connect hook has a
timeout of its own), and a peer that accepts a login answers it; a silent one is left to
the timer of the login.  `IrcOutqueue!FairSpec`: callbacks return, time passes, and the timer
of one second runs; strongly, since between two calls of it the queue may be due, served
by nothing else, and not due again when a message is sent at once.
`MainLoop!FairSpec`: the loop is sequential code and goes on (weak), and time passes, strongly, since
it passes in `poll()` only, to which the loop comes back again and again; nothing is asked of
descriptors and users.  `IrcChannels!Spec`: messages are delivered and served, the client connects
again (`WantedIsConnected` of `IrcServer`), the timers run.  `Xfer!FairSpec`: each process goes
on with what it can do, the timer runs, a connection that breaks is noticed; nothing of the users.
Nothing is asked of the user anywhere.

## 4. What is proved

`HookProofs` proves of `HookDispatch`, for every set of hooks and plugins, any depth of nesting
and any `MaxCalls`:

- `ListsAlwaysWellFormed` (from `TypeCorrect`, `ListsAlwaysLinked`, `ListsAlwaysSorted`): each list is a
  strict total order of its allocated hooks, the live ones sorted;
- `LoopsAlwaysAccounted` (from `RecursionAlwaysCounts`, `DeletedAlwaysPending`): the counter is the
  number of counted loops, deleted hooks exist exactly when `real_delete_pending` is set
  and only under a counted loop;
- `PointersAlwaysValid`: the pointers of a protected loop are allocated.

The assumptions are those on the constants (`ConstantsAssumption`) and `Hook` finite is not
needed: only the stack is counted, and it is a sequence.

`PointersValid` is not inductive: a hook is freed by `unhook` when `recursion = 0`, so one
needs to know that then no loop is protected (`RecursionCountsLoops`), and by the end of a
loop when `recursion = 1`, so one needs that the frames left are unprotected; that `Call`
saves an allocated `next` needs the links to lead to allocated hooks (`ListsLinked`); and
that a command frame holds no hook while it chooses needs `SelectIsCommand`.  The
inductive invariant is therefore `TypeOK /\ ListsInv /\ SafeInv`, with
`SafeInv == RecursionCountsLoops /\ DeletedHooksPending /\ PointersValid /\ SelectIsCommand`,
proved action by action and closed by PTL.  Insertion in a sorted list and the
cardinality of a set of stack positions when a frame is pushed or popped are lemmas of
their own.

On top of it, three more theorems say what the loops do with the hooks:

- `EveryHookAlwaysCalledOnce`: a loop over events still has ahead of it each live hook it owes a
  call, and has called none twice.  The invariant (`EventInv`) describes a frame: its hook, its
  `next_hook` and what it owes are of its type, what it owes is not freed under it, and lies
  at or behind `next_hook`, what it has called before it (`FrameSound`).  It breaks when a hook the
  loop owes a call is running, as `hook->running` makes the loop pass it over, so one needs that
  such a hook is only run by a loop *above* (`IdleUntilCalled`);
- `ReentryAlwaysBounded`: `running` of a hook is the calls in progress, no two for an event, at
  most `MaxCalls` for a command (`CallInv`), also after an address was freed and hooked again;
- `ChosenAlwaysTopPriority`: the first hook found has the highest priority.  That a set of hooks has
  a first one in the list is not a matter of logic in TLA+ (the address space may be infinite): it is
  proved as an invariant (`ListsFounded`), since hooks are put in lists one at a time.

and of `HookProcess`, for every set of timeouts, any sizes of the buffers, of a read and
of `buffer_flush`, any output and any number of iterations of the reading until end of file:

- `BuffersAlwaysSound` (from `ProcessTypeCorrect`, `BuffersAlwaysFit`, `OutputNeverLost`) and
  `AlwaysEndsClean` (from `ReportedOnce`, `NeverZombie`): `BuffersSound` and `EndsClean`;
- `NeverKilledEarly`: `NotKilledEarly`, when every timeout is at most 100 ms or a multiple of
  100 ms (`Exact`); without the assumption it does not hold (section 3, `Timeouts = {250}`).

The lemmas about the buffers (`SentKeeps`, `AddedKeeps`, `ReadIntoKeeps`) say that a flush and
a read keep the sum of what is kept and given, and that what is kept fits.  From them,
`FdReadMoves` and `DrainMoves` show that both ways of reading only move chunks (`Moves`), also
when one iteration reads the two pipes and the first read flushes the second one's buffer.
`NothingLost` is not inductive: it needs that a stream somebody may write on still has its
fd hook (`WritersAreRead`), and that a hook that has not started holds nothing (`Fresh`).
`NotKilledEarly` needs `Countdown`: the next call, and 100 ms for each call after it, reach the
timeout.

- `OutputAlwaysDelivered`: `AllOutputDelivered`, when the iterations of the reading until end of file
  can read what a pipe holds (`ReadsPipe`: `PipeSize <= MaxLoops * ReadMax`.  The code has 1024
  iterations of 8 KiB at most; a pipe of Linux holds 64 KiB).  `Reading` says that what the child had
  written when it ended, and was not read, fits in the iterations that are left;
- `ExitAlwaysInTime`, `OutcomeAlwaysTrue`: `TimelyExitReported` and `OutcomeTrue`, when every timeout is 0 or
  a multiple of 100 ms of more than 100 ms (`Prompt`), and for the second `ReadsPipe` too.  The other
  timeouts do break it (section 3).  `LastCall`: the call that kills comes 100 ms after the
  timeout, so the one before has looked for the child after the timeout.

`IrcServerProofs` proves, for any number of addresses, every value of the options (a maximum
delay that is set, and no shorter than the first one) and of the environment (missing proxies, connections that fail at once, changes of the addresses,
`/upgrade`), and any number of commands:

- `AlwaysOneConnection`: `OneConnection`, from `TypeCorrect`, `AlwaysOneThing`,
  `TimersAlwaysHaveSocket` and `StoppedStaysDisconnected`, which prove its four parts.

The functions of `irc-server.c` come first: each keeps the type of the server and either keeps
its connection (`SameConnection`: `SetIndexType`, `ReconnectScheduleType`, `FailedType`...) or
closes it (`CloseConnectionCloses`, `DisconnectCloses`), so a step is proved by composing them as
the code does.  The inductive invariant is `TypeOK`, `Sound(server)` and
`starting \/ stopped => Quiet(server)`.  `Sound` adds to the properties that an authentication under
way has a socket: `ReceiveSaslFail` asks only that it is under way, and may schedule a
reconnection, which must not happen to a server that is stopped.  `Quiet` is needed of a server that
starts, too: `irc_server_auto_connect` does not cancel a reconnection before it connects.

- `AlwaysMoves`: `NeverStuck`; `RetriesAlwaysCounted`: `RetryPerAddress`; `DelayAlwaysGrows`: `DelayGrows`.

Their invariant (`MoreInv`) has the counts of the failures (`Tally`), the timer of the login
(`Watched`), the address a connect hook is for (`Ready`: without one `hook_connect` is pending on nothing),
and, with autoreconnect, that something will happen to a server the user wants (`Active`).  It needs
`usable \/ disturbed`, as a connection that used a freed hook gives no result.  Each function is proved to
carry the counts (`Counts`) or the counts and the delay (`Carries`), so a step again follows by composing
functions.  `DelayGrows` speaks of autoreconnect: without it the delay is 0 after every disconnection.

`IrcOutqueueProofs` proves, for any number of messages, connections, changes of the clock and frames, any
delays, and whatever callbacks do:

- `TypeCorrect`, and `RedirectsAlwaysAllocated`: no message waits with a redirection that was freed;

and if callbacks send messages only from the signals of a queue and of a redirection that stops, and do
not disconnect (`Calm`: `SendsIn \subseteq {"queue", "stop"} /\ EmptiesIn = {}`):

- `MessagesAlwaysKept`: `MessagesKept`; `RedirectsAlwaysSound`: `RedirectsSound`; `AlwaysThrottled`: `Throttled`.

`Calm` is not a matter of the proof: section 3 has the run of each other choice, in which they fail.  The
invariant says what each function that has called back relies on when it goes on (`FramesHold`): a message
being modified or sent is the newest one and is nowhere else; one being sent is in the static buffer, its
queue is empty, its delay is over and its redirection is in the list and not assigned; a message of a queue
is still the head of it; a redirection that stops is still in the list.  So a callback of a queue may send a
message at once, with another priority only, as its own queue is not empty.  `QueueSorted` and `WireSorted`
give the order, `Accounted` where each message is, `RedirectsOnce` that a redirection that waits is
assigned, not started, and waits with one message.  `Aged` relates the two clocks: `last_user_message` may
look younger than it is, never older, so the delay of the code is at least the true one.  The loop of
`irc_redirect_search_available` finds the first one that is free: `LeastNumber`, from the well-foundedness
of numbers in the form of the library that has no operator parameter.

`CoreProofs` proves of `MainLoop`, for any timers and descriptors, any changes of the clock and any number of
hooks, calls and slow callbacks:

- `TypeCorrect`; and, if `realloc()` does not fail, `LoopAlwaysSound`: `LoopSound`;

and if the interval of an aligned timer is a multiple of its alignment (`Regular`, as for the two
aligned timers of the program; with an interval shorter than its alignment the first date may be past):

- `AlwaysOnTime`: `OnTime`, from `AlwaysPunctual`, `AlwaysAligned` and `NeverStalled` (the last
  without `Regular`).

`Sound` is the invariant the others rest on: a timer that was called was due at the time
`hook_timer_exec` has read, and stays due by that time however long its callback takes; deleted timers are gone
between two loops.  Without disturbance (`Undisturbed`) each timer that the loop has passed is not due,
as it was not or has been called since, those a callback adds included, though the loop
may have ended before it sees them; so all dates are to come when the sleep is computed, and the sleep
ends before the first.  `Clock` bounds what `skew` can be before the clock is set: a sleep and the slow
callbacks, which `hook_timer_check_system_clock` does not notice.  So once it was set (`PutOff`) a timer
is late by less than `Skew` and that, or the change is still to be noticed.  Alignment is arithmetic of
remainders: `second` is kept modulo `Align`, a multiple of each alignment (`RemainderOfMultiple`).
`hook_exec_end` was written with `SelectSeq`, of which the provers know nothing; `Selected` takes the
hooks at some indexes in order, and `NthIsOne` shows that there is one for each number.

and of `ConfigFile`, for every set of options, every range and default, integers of any width,
any numbers in the file and any number of changes, saves, edits and crashes
(`ConfigAssumption`: the default is in the range, the range in the integers, and null, "no line" and
the empty string are different and no numbers):

- `ValuesAlwaysSound`, `AlwaysCrashSafe` and `ReloadAlwaysLikeRestart`: `ValuesSound`, `CrashSafe` and
  `ReloadIsLikeRestart`.

The three say what holds when nothing is under way; the inductive invariant says what each phase has
done so far.  `Disk`: the temporary file has the values of the options already written, so the rename
puts a whole file in place (no option changes meanwhile: the write is one function that calls
nothing of the user).  `Started`: while a start reads, an option of a line still to come is what the
start gave it, and the others have what was saved.  `Reloaded`: while a reload reads, a line still to
come has no flag (`Unread`), and one that was read has its flag and its value (`LineRead`); while
it resets, each option already passed is in its final state (`Reread`).  `OwnersKnow`: the options that
were saved are integers or null where they may be (`Proper`), and those of the user are never null,
without which what is written could be refused when it is read.  `WrapFacts` (a number that fits in an int is
kept by the conversion, and every conversion gives an int) is the only arithmetic.

`XferProofs` proves, for files of any size, any `Block` and `Room`, any `AckModulo`, and any number of
offers, faults and cancelled transfers (`XferAssumption`: they are numbers, `Block`, `Room` and
`AckModulo` not 0), that `Xfer` implements `FileTransfer`:

- `TransferAlwaysImplemented`: `Spec => ImplementsTransfer`, with `copy` mapped to `disk`.

A block written to disk maps to `Extend` only if the disk and the data in the connection are
consecutive parts of the file (`Follows`), which in turn needs that the two children started from
the same position.  That is what the inductive invariant is about: there is at most one RESUME or
ACCEPT of the current offer on its way, no child runs before it arrives, the position in it is
the size of the local file, and in an ACCEPT also the position of the sender (`MessagesSound`); an offer that
waits has no message and the sender is at 0 (`Waiting`); from the fork on no message of the offer is left
(`Receiving`).  `SaidWhenWhole` and `ReceiverQuiet` give that "done" is final: a status in the
pipe excludes a message of the offer, so `xfer_search`, which makes an ended transfer "connecting",
cannot bring back one that is done.

- `TransferAlwaysSound`: `TransferSound`; `EndsAlwaysAgree`: `EndsAgree`.

Their invariant (`EndsInv`) adds what an ended sender keeps (`SenderEnds`) and the positions (`Within`: a
part of a file to be resumed is shorter than the file, or the file is empty, so a child that has nothing
left to send at its start knows it).  `Few` bounds the acknowledgements: a block is sent when the last one
was acknowledged, except the first block after a resume, whose position the receiver acknowledges too, so
two at most are on their way, all of what is on disk.  `SentWhenWhole` and `Agreed` are the two
directions of the agreement: the sender says "done" when the file is on disk; and once the receiver has
said so, the child of the sender has the last acknowledgement or finds it in the connection.

`IrcChannelsProofs` proves, for any channels and nicks, any options and any number of commands, of actions
of other users and of lost connections (`ChannelsAssumption`: `NoNick` is no nick, `Autojoin` are channels):

- `TypeCorrect`, and `ChannelsAlwaysTheServers`: `ChannelsAreTheServers`, from `AlwaysFaithful`;
- `UserAlwaysObeyed`: `UserIsObeyed`, from `AlwaysObedient`.

The property speaks of the moment when all was read; between, the client is behind.  What the messages on
their way will make of its lists would be an induction over them, so the invariant has a witness
instead: a view before and after each message (`Chain`), the first of which is what the client shows
(`ClientEnd`) and the last what the server has (`ServerEnd`).  A view is what a client that kept every
channel open would show, `Seen` what a message makes of it.  Each handler is shown to do to an open channel
what `Seen` does to the view, and takes the first view away (`GetStep`); each step of the server adds views
(`ToldStep`, `AnswerStep`), or none when the client is not in the channel (`UntoldStep`); a lost connection
leaves one.  A closed channel shows nothing, and `irc_protocol_cb_join` for the own nick starts its view
anew, which is why it has to free the nicks.  The modes are part of the views only from their answer on:
`ModesAsked` says that in each view of a channel that the client has or will have, the modes end as the
server has them, or a MODE is in `outq`, or a 366 that will be the first since the JOIN is still to come.
`Registered` says that 001 is the first message of a connection and nothing else is read before it.

`UserIsObeyed` too speaks of the moment when nothing is on its way for the channel, and its invariant
(`Obedient`) too has a witness, for each channel: standings before and after each message, which say
whether the client is on the channel (`Course`).  The first is what the client shows, so a JOIN or PART it reads is
its own or not as it thinks; the last is where the server has the client.  `Obeys` relates them to the last
word of the user.  If that is to be there (`Wanted`), the last command for the channel in `outq` is a JOIN, or
one will follow, as the client is to read its own PART of a /cycle or has a timer for the join, or no command
waits and the client is there, or it will read that it was kicked (`KickEnds`: after the kick no standing is on
the channel, so nothing else happens to it before the client joins again).  If it is to be away (`Unwanted`),
the last command is a PART, or none waits and the client is away, and neither a timer nor the flag
"cycle" will join it again.  What waits for another channel is of no account (`Unasked`, `Ends`), and
a command of low priority may be put before others (`QueuedAt`), never a JOIN or PART behind a
later one.  A closed channel that the client is still on is being left (`Closing`); a lost connection leaves the
channels of which the next one will make what the user wants (`Offline`: open without `part`, or closed).
TLC checked the invariant, its witness computed from the messages, before it was proved.

`IrcRedirectProofs` proves, for any patterns, answers, targets, and any number of commands, messages of
the server, timeouts and connections (`RedirectAssumption`: an answer is not empty, a pattern has a stop,
`None` is no target):

- `LinesAlwaysWhole`: `LinesWhole`, and `EndsOnceAlways`: `EndsOnce`, from `AlwaysSafe`;
- `AnswersAlwaysWhole`: `AnswersWhole`, if the patterns and the answers are `Regular`;
- `AnswersAlwaysOwn`: `OwnAnswers`, if they are also `Distinct`.

The two hypotheses say what a redirection cannot do without, as all it has is the numerics and the order of
the messages.  `Regular`: an answer begins with its start or is its stop, the first stop ends it but for one
extra message, no answer begins with an extra message, and the messages of the server itself are in no
pattern.  `Distinct`: no pattern has numerics of the answers of another, nor any without the argument that
holds the string; patterns of the program that share error numerics (401, 403, 461) are apart only as long as
these do not come.  It is needed for the string only: that a redirection takes answers to its own commands
(`AnswersAreOwn`) and all of them (`AnswersComplete`) needs `Regular`.  TLC evaluates both for the instance
(`PatternsAssumption`).

`Safe` is about bytes and numbers: what is in the queue, in the unterminated message and halved on the wire
(`Carried`), and the numbers of the commands not sent, sent, answered and redirected, one after the other
(`Numbered`).  `Linked` has a witness, like the invariants of `IrcChannels`: a place in the answers
before and after each message that comes (`Chain`); the last is where the server goes on (`ServerEnd`).
Along it each message goes on with the answer or begins the next (`Follows`), so the redirections need to be
known at the first place only.  There, if all goes by order (`Answered`), each has the messages of
its answer up to that place, complete answers before it and nothing else (`Own`), and each command to come
has a redirection that waits for it.  `CommandHandled` is the step: the redirections before the one that
should take the message (`Owner`) take nothing, as the only thing they can do is stop waiting for an extra
message (`BeforeOwner`), the owner takes it (`OwnerTakes`), and those after it do not see it.  With strings
(`Strings`) no order is needed, but that one that is in the middle of an answer (`Middle`), and takes every
message, takes those of an answer of its pattern about its string (`Amid`), and no other
redirection before it takes its end away (`Alone`).  The reading that `recounts` excepts came out of
this invariant, and TLC then showed it with three commands.

`GuiBufferProofs` proves, for any buffers, windows, layout and options, any bound on the visited
buffers and any number of operations (`GuiAssumption`: buffers and windows are finite sets, the core
buffer is in no layout of buffers, and a layout of windows names one buffer for each of the first windows), without further hypotheses:

- `GroupsStaySound`: `GroupsSound`; `UnseenStaysHot`: `UnseenIsHot`; `PointersStaySound`:
  `PointersSound`; all from `InterfaceHeld`;
- `WindowsStayKept`: the action property `WindowsKept`, of each step that `InterfaceHeld` allows: moving,
  merging and closing buffers change no window that shows another buffer, and opening one gives it to the windows
  whose layout names it, and to no other.

The invariant (`IInv`) is stronger than the properties.  `Fine` is what no operation may break: the list is
a linear order of the open buffers, sorted by positive numbers, without a gap if buffers are renumbered
(`Listed`); each group has one active buffer (`One`); `num_displayed` is what
`gui_buffer_compute_num_displayed` would compute (`CountsTrue`), so `gui_line_add` may trust it; all
that points to buffers points to open ones (`Alive`); and the core buffer stays.  `Clean` holds until a
zoomed group is merged or unmerged: the mixed lines of a group are those of all its buffers, shown unless
one is zoomed (`Mixed`), and `zoomed` says so to all of the group (`Marked`).  `Looping` is about the loop of
`gui_buffer_unmerge_all`: it stands at the *first* buffer of a group, without which the next buffer it takes
could be in the middle of the group it has to leave, or none.
`Assigning` is about the loops of `gui-layout.c`: a window that waits exists, and waits for the buffer that its
layout names, which is open.

Each operation is shown to be a step `Goes(g, h)` between two records: `h` is `Fine`, windows keep what they
show unless it is closed (`Kept`), and, if no zoomed group was touched (`Untouched`), `h` is `Clean` and what
has left the hotlist was displayed (`Seen`).  A lemma for each function says what it returns by its
fields (`RemovedFrom`, `PlacedIn`, `Activated`, `SwitchedTo`...), and those of the composed ones
(`MergedInto`, `UnmergedIn`, `Rearranged`, `ClosedIn`) use only that.  That a set of buffers has a first
one in the list is shown from the number of those before it (`FirstOfIs`), that numbers have no gap
from the one just before (`Dense`), and `gui_buffer_renumber` keeps the order because the rank of a number
among others grows with it (`Ranked`).  `gui_buffer_close` was the longest: `gui_buffer_unmerge` makes the
buffer alone (`LeftAlone`), the windows leave it (`Forsaken`), the lists forget it (`Forgotten`), and only then it
goes (`ClosedIn`); in another order one of the four is false.

Only model-checked: every liveness property (`DeletedAreFreed`, `ProcessEnds`, `WantedIsConnected`,
`QueueDrains`, `Served`, `ComesBack`, `TransfersEnd`), as fairness and ENABLED are out of the
prover's reach; and what the theorems assume of their hypotheses (`Calm`, `Regular`, `Distinct`,
`Prompt`, `Exact`), where TLC checks the instance.

## 5. What is not modelled, and the plan

Not modelled: text (parsing, formatting, colours), the screen, system calls below the
connect hook, TLS, the interpreters of the script languages, and generated or
vendored files.  The bindings of the six languages (`*-api.c`, a third of the source) only convert
arguments.  `doge-command.c` and most of `irc-command.c` parse arguments and call functions that are
modelled where they keep state of their own.  Data structures, infolists, strings and evaluation compute
values without interleaving and have unit tests.  The relay (client states, out queue, the
protocol with its synchronisation of buffers) is the largest part with behaviour of its own that is
left.

Next, in this order:

1. `Relay`: client states, authentication, out queue, synchronisation of buffers.
2. The composition of `IrcOutqueue` and `IrcRedirect`: the output of a redirection is the one of the
   command it was sent with, while modifiers drop and callbacks send messages.
3. Scrolling: windows that keep a line of a buffer that is merged or closed.
4. The rest of windows and layouts: zoom of a window, the merge of two windows, storing a layout and
   applying one to the numbers of the open buffers.
5. The measure of the lag, notify lists.
