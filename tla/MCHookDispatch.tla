--------------------------- MODULE MCHookDispatch ---------------------------
(* Small sets of hooks for HookDispatch. *)
EXTENDS HookDispatch, TLC

CONSTANTS h1, h2, h3, h4, h5, core, irc

\* Three signals of one list, the third with a higher priority, and a focus hook.
EventType      == (h1 :> "signal") @@ (h2 :> "signal") @@ (h3 :> "signal") @@ (h4 :> "focus")
EventName      == [h \in Hook |-> 1]
AllCover       == [h \in Hook |-> Name]
EventPriority  == [h \in Hook |-> IF h = h3 THEN 2000 ELSE 1000]
EventPlugin    == [h \in Hook |-> IF h = h1 THEN core ELSE irc]

\* Command 2 in two plugins, and once more with a high priority; a command_run
\* for it and an info.  Name 1 abbreviates 2.
CommandType    == (h1 :> "command") @@ (h2 :> "command") @@ (h3 :> "command")
                  @@ (h4 :> "command_run") @@ (h5 :> "info")
CommandName    == [h \in Hook |-> 2]
CommandCover   == [h \in Hook |-> {1, 2}]
CommandPlugin  == [h \in Hook |-> IF h = h1 THEN core ELSE irc]
CommandPrio    == [h \in Hook |-> IF h = h3 THEN 2000 ELSE 1000]
=============================================================================
