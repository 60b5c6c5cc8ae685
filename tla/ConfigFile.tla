----------------------------- MODULE ConfigFile -----------------------------
(***************************************************************************)
(* A configuration file and its options (doge-config-file.c, commands /set, *)
(* /unset, /save and /reload, plugin-config.c for the options created by    *)
(* the user): options change while the file is written line by line to a    *)
(* temporary file and renamed, or read back line by line with callbacks     *)
(* that change other options; the user edits the file; the program crashes  *)
(* anywhere and starts again.                                               *)
(*                                                                         *)
(* Options are of type integer, with a range; the options of the user are   *)
(* strings, and any value is good.  Integers have IntMax + 1 values on each *)
(* side of zero (2^31 in the code).                                         *)
(***************************************************************************)
EXTENDS Integers, FiniteSets

CONSTANTS
    Option,      \* options of the program
    UserOption,  \* options the user may create, of a section "var"
    NullAllowed, \* subset of Option: null_value_allowed
    Min, Max, Default,
    IntMax,
    Number,      \* numbers written by the user
    Null,        \* the value "null"
    Absent,      \* no such option, no such line
    Empty,       \* the string "", default of the options of the user
    MaxChanges,  \* bound: changes of options
    MaxEdits,    \* bound: edits of the file by the user
    MaxSaves,    \* bound: files written and reloaded
    MaxCrashes   \* bound: crashes

ASSUME ConfigAssumption ==
    /\ Option \cap UserOption = {} /\ NullAllowed \subseteq Option
    /\ IntMax \in Nat /\ {Min, Max, Default} \subseteq (-IntMax - 1)..IntMax
    /\ Min <= Default /\ Default <= Max
    /\ Number \subseteq Int /\ {Null, Absent, Empty} \cap Int = {}
    /\ Null # Absent /\ Empty \notin {Null, Absent}
    /\ {MaxChanges, MaxEdits, MaxSaves, MaxCrashes} \subseteq Nat

All == Option \cup UserOption

VARIABLES
    up,      \* the program runs
    value,   \* [All -> value]; Absent: an option of the user not created
    loaded,  \* options with the flag "loaded"
    op,      \* what is under way: kind, the lines or options left, and the
             \*   lines written to the temporary file
    file,    \* the file: its lines, and whether it is whole
    \* history
    told,    \* [Option -> value]: what callback_change was told last
    strayed, \* options changed by "++" or "--" with a negative number, past the
             \*   integers, or from null when 0 is no good value, and not set since
    saved,   \* the options when the file was last written, Absent for a file
             \*   edited or removed since
    alone,   \* "started" or "reloaded", and nothing changed an option since
             \*   the file was opened; else "no"
    changes, edits, saves, crashes

history == <<told, strayed, saved, alone>>
bounds == <<changes, edits, saves, crashes>>
configVars == <<up, value, loaded, op, file, history, bounds>>

-----------------------------------------------------------------------------
(* Values.                                                                 *)
Int32 == (-IntMax - 1)..IntMax
Wrap(n) == ((n + IntMax + 1) % (2 * IntMax + 2)) - IntMax - 1  \* long to int
InRange(n) == Min <= n /\ n <= Max

\* mutant: the upper end of the range is not checked
SetToAnyHigh(o, v) ==
    IF o \in UserOption THEN IF v = Null THEN value[o] ELSE v
    ELSE IF v = Null THEN IF o \in NullAllowed THEN Null ELSE value[o]
    ELSE IF Min <= Wrap(v) THEN Wrap(v) ELSE value[o]

\* config_file_option_set with a number, or null; the number is an int before
\* its range is checked
SetTo(o, v) ==
    IF o \in UserOption THEN IF v = Null THEN value[o] ELSE v
    ELSE IF v = Null THEN IF o \in NullAllowed THEN Null ELSE value[o]
    ELSE IF InRange(Wrap(v)) THEN Wrap(v) ELSE value[o]

\* ... with "++n" or "--n": one end of the range is checked
Old(o) == IF value[o] = Null THEN 0 ELSE value[o]
Plus(o, n) == IF Wrap(Old(o) + n) <= Max THEN Wrap(Old(o) + n) ELSE value[o]
Minus(o, n) == IF Wrap(Old(o) - n) >= Min THEN Wrap(Old(o) - n) ELSE value[o]

\* config_file_option_reset
Reset(o) == IF o \in UserOption THEN Empty ELSE Default

\* plugin_config_create_option: the default of a new option is Empty
Created(v) == IF v = Null THEN Empty ELSE v

\* The value changes; callback_change is called then, and told the new one.
Assign(o, v) ==
    /\ value' = [value EXCEPT ![o] = v]
    /\ told' = IF o \in Option THEN [told EXCEPT ![o] = v] ELSE told

-----------------------------------------------------------------------------
(* What the file holds.                                                    *)
Lines == [All -> Number \cup Int32 \cup {Null, Absent, Empty}]
NoFile == [lines |-> [o \in All |-> Absent], whole |-> FALSE]
Exists == file.whole

Idle == [kind |-> "idle", left |-> {}, lines |-> NoFile.lines, then |-> "none"]
Writing(then) == [kind |-> "writing", left |-> All, lines |-> NoFile.lines, then |-> then]
Reading(then) == [kind |-> "reading", left |-> All, lines |-> NoFile.lines, then |-> then]
Resetting == [kind |-> "resetting", left |-> All, lines |-> NoFile.lines, then |-> "none"]

-----------------------------------------------------------------------------
(* The user and the scripts, by a command, or by a callback of an option    *)
(* that is read.                                                            *)
Changing ==
    /\ up /\ op.kind # "writing"
    /\ changes < MaxChanges
    /\ changes' = changes + 1
    /\ alone' = "no"
    /\ UNCHANGED <<up, op, file, saved, edits, saves, crashes>>

\* /set, config_file_option_set_null
Set(o, v) ==
    /\ Changing
    /\ value[o] # Absent
    /\ Assign(o, SetTo(o, v))
    /\ strayed' = IF SetTo(o, v) = value[o] THEN strayed ELSE strayed \ {o}
    /\ UNCHANGED loaded

SetRelative(o, n) ==
    /\ Changing
    /\ o \in Option
    /\ \/ Assign(o, Plus(o, n))
       \/ Assign(o, Minus(o, n))
    /\ strayed' = IF n >= 0 /\ InRange(Old(o)) /\ {Old(o) + n, Old(o) - n} \subseteq Int32
                  THEN strayed ELSE strayed \cup {o}
    /\ UNCHANGED loaded

\* /set of an option that does not exist
Create(o, v) ==
    /\ Changing
    /\ o \in UserOption /\ value[o] = Absent
    /\ Assign(o, Created(v))
    /\ loaded' = loaded \cup {o}
    /\ UNCHANGED strayed

\* /unset: an option of the user is deleted
Unset(o) ==
    /\ Changing
    /\ value[o] # Absent
    /\ Assign(o, IF o \in UserOption THEN Absent ELSE Default)
    /\ strayed' = strayed \ {o}
    /\ UNCHANGED loaded

-----------------------------------------------------------------------------
(* config_file_write_internal: the temporary file, which replaces the file  *)
(* when it is complete.                                                     *)
Save ==
    /\ up /\ op.kind = "idle" /\ saves < MaxSaves
    /\ saves' = saves + 1
    /\ op' = Writing("none")
    /\ UNCHANGED <<up, value, loaded, file, history, changes, edits, crashes>>

\* mutant: the lines go to the file itself
WriteLineInPlace(o) ==
    /\ up /\ op.kind = "writing" /\ o \in op.left
    /\ op' = [op EXCEPT !.left = @ \ {o}, !.lines[o] = value[o]]
    /\ file' = [lines |-> op'.lines, whole |-> TRUE]
    /\ UNCHANGED <<up, value, loaded, history, bounds>>

\* config_file_write_option
WriteLine(o) ==
    /\ up /\ op.kind = "writing" /\ o \in op.left
    /\ op' = [op EXCEPT !.left = @ \ {o}, !.lines[o] = value[o]]
    /\ UNCHANGED <<up, value, loaded, file, history, bounds>>

\* the next thing to do with the file (written because it did not exist)
AfterWrite == IF op.then = "none" THEN Idle ELSE Reading(op.then)

Rename ==
    /\ up /\ op.kind = "writing" /\ op.left = {}
    /\ file' = [lines |-> op.lines, whole |-> TRUE]
    /\ saved' = value
    /\ op' = AfterWrite
    /\ UNCHANGED <<up, value, loaded, told, strayed, alone, bounds>>

\* the disk is full, ...: the temporary file is removed
WriteFails ==
    /\ up /\ op.kind = "writing"
    /\ op' = AfterWrite
    /\ UNCHANGED <<up, value, loaded, file, history, bounds>>

-----------------------------------------------------------------------------
(* config_file_read_internal: a file that does not exist is written first.  *)
Opened(then) == IF Exists THEN Reading(then) ELSE Writing(then)

\* the program starts: options with their default values
Start ==
    /\ ~up
    /\ up' = TRUE
    /\ value' = [o \in All |-> IF o \in Option THEN Default ELSE Absent]
    /\ told' = [o \in Option |-> Default]
    /\ loaded' = All
    /\ strayed' = {}
    /\ alone' = "started"
    /\ op' = Opened("started")
    /\ UNCHANGED <<file, saved, bounds>>

\* mutant: the flags of the last time are kept
ReloadKeepsLoaded ==
    /\ up /\ op.kind = "idle" /\ saves < MaxSaves
    /\ saves' = saves + 1
    /\ value' = [o \in All |-> IF o \in Option THEN value[o] ELSE Absent]
    /\ alone' = "reloaded"
    /\ op' = Opened("reloaded")
    /\ UNCHANGED <<up, loaded, file, told, strayed, saved, changes, edits, crashes>>

\* /reload (config_file_reload); plugin_config_reload removes the options of
\* the user first
Reload ==
    /\ up /\ op.kind = "idle" /\ saves < MaxSaves
    /\ saves' = saves + 1
    /\ value' = [o \in All |-> IF o \in Option THEN value[o] ELSE Absent]
    /\ loaded' = {}
    /\ alone' = "reloaded"
    /\ op' = Opened("reloaded")
    /\ UNCHANGED <<up, file, told, strayed, saved, changes, edits, crashes>>

\* a line: an option that is found is set, one of the user is created
ReadLine(o) ==
    /\ up /\ op.kind = "reading" /\ Exists /\ o \in op.left
    /\ op' = [op EXCEPT !.left = @ \ {o}]
    /\ IF file.lines[o] = Absent THEN UNCHANGED <<value, told, loaded, strayed>>
       ELSE /\ Assign(o, IF value[o] = Absent THEN Created(file.lines[o])
                         ELSE SetTo(o, file.lines[o]))
            /\ loaded' = loaded \cup {o}
            /\ strayed' = IF value'[o] = value[o] THEN strayed ELSE strayed \ {o}
    /\ UNCHANGED <<up, file, saved, alone, bounds>>

\* fopen fails, or the file could not be written: no line is read, and a
\* reload resets all options
OpenFails ==
    /\ up /\ op.kind = "reading" /\ op.left = All
    /\ op' = IF op.then = "reloaded" THEN Resetting ELSE Idle
    /\ alone' = "no"
    /\ UNCHANGED <<up, value, loaded, file, told, strayed, saved, bounds>>

EndOfFile ==
    /\ up /\ op.kind = "reading" /\ op.left = {}
    /\ op' = IF op.then = "reloaded" THEN Resetting ELSE Idle
    /\ UNCHANGED <<up, value, loaded, file, history, bounds>>

\* the options without a line (config_file_option_reset)
ResetOption(o) ==
    /\ up /\ op.kind = "resetting" /\ o \in op.left
    /\ op' = [op EXCEPT !.left = @ \ {o}]
    /\ IF value[o] = Absent \/ o \in loaded THEN UNCHANGED <<value, told, strayed>>
       ELSE Assign(o, Reset(o)) /\ strayed' = strayed \ {o}
    /\ UNCHANGED <<up, loaded, file, saved, alone, bounds>>

ReloadEnds ==
    /\ up /\ op.kind = "resetting" /\ op.left = {}
    /\ op' = Idle
    /\ UNCHANGED <<up, value, loaded, file, history, bounds>>

-----------------------------------------------------------------------------
(* Around the program.                                                     *)

\* the user edits a line, or adds or removes one
Edit(o, v) ==
    /\ edits < MaxEdits /\ op.kind = "idle"
    /\ edits' = edits + 1
    /\ Exists
    /\ file' = [file EXCEPT !.lines[o] = v]
    /\ saved' = Absent
    /\ alone' = "no"
    /\ UNCHANGED <<up, value, loaded, op, told, strayed, changes, saves, crashes>>

RemoveFile ==
    /\ edits < MaxEdits /\ op.kind = "idle"
    /\ edits' = edits + 1
    /\ file' = NoFile
    /\ saved' = Absent
    /\ alone' = "no"
    /\ UNCHANGED <<up, value, loaded, op, told, strayed, changes, saves, crashes>>

Crash ==
    /\ up /\ crashes < MaxCrashes
    /\ crashes' = crashes + 1
    /\ up' = FALSE
    /\ op' = Idle
    /\ alone' = "no"
    /\ UNCHANGED <<value, loaded, file, told, strayed, saved, changes, edits, saves>>

-----------------------------------------------------------------------------
ConfigInit ==
    /\ up = FALSE
    /\ value = [o \in All |-> Absent]
    /\ loaded = {}
    /\ op = Idle
    /\ file = NoFile
    /\ told = [o \in Option |-> Absent]
    /\ strayed = {}
    /\ saved = Absent
    /\ alone = "no"
    /\ changes = 0 /\ edits = 0 /\ saves = 0 /\ crashes = 0

User ==
    \/ \E o \in All : Unset(o) \/ \E v \in Number \cup {Null} : Set(o, v) \/ Create(o, v)
    \/ \E o \in Option, n \in Number : SetRelative(o, n)
    \/ Save \/ Reload \/ Start
    \/ \E o \in All, v \in Number \cup {Null, Absent} : Edit(o, v)
    \/ RemoveFile

Program ==
    \/ \E o \in All : WriteLine(o) \/ ReadLine(o) \/ ResetOption(o)
    \/ Rename \/ WriteFails \/ OpenFails \/ EndOfFile \/ ReloadEnds

ConfigNext == User \/ Program \/ Crash

ConfigSpec == ConfigInit /\ [][ConfigNext]_configVars

-----------------------------------------------------------------------------
(* Properties.                                                             *)
ConfigTypeOK ==
    /\ up \in BOOLEAN
    /\ \A o \in All : value[o] \in Int32 \cup {Null, Absent, Empty} \cup Number
    /\ loaded \subseteq All /\ strayed \subseteq Option
    /\ op.kind \in {"idle", "writing", "reading", "resetting"} /\ op.left \subseteq All
    /\ file \in [lines : Lines, whole : BOOLEAN]
    /\ alone \in {"no", "started", "reloaded"}
    /\ up => \A o \in Option : value[o] # Absent

\* The value of an option is in its range, null only where it may be, unless
\* "++" or "--" had a negative number, went past the integers or started from
\* null, taken for 0 (config_file_option_set,
\* config_file_option_reset, config_file_option_set_null).
ValueInRange ==
    up => \A o \in Option \ strayed :
              IF value[o] = Null THEN o \in NullAllowed ELSE InRange(value[o])

\* A crash of the process at any moment (no loss of power: nothing is synchronized
\* before the rename), a disk that is full, a write that starts again: the
\* file on disk is what the user left or the options of a whole write
\* (temporary file and rename of config_file_write_internal).
FileIsWhole ==
    Exists /\ saved # Absent => \A o \in All : file.lines[o] = saved[o]

\* After a start, the options are those saved before (what is written can be
\* read: null, created and deleted options, values equal to the default).
RestartRestores ==
    alone = "started" /\ op.kind = "idle" /\ saved # Absent =>
        \A o \in All : o \in UserOption \/ saved[o] = Null \/ InRange(saved[o])
                           => value[o] = saved[o]

\* After a reload that nothing disturbed, the options are what a start would
\* have read, if the lines of the file are valid (flag "loaded", options
\* without a line reset, those of the user removed first).
Valid(o, v) ==
    \/ o \in UserOption \/ v = Absent
    \/ IF v = Null THEN o \in NullAllowed ELSE InRange(Wrap(v))
ReadAtStart(o, v) ==
    IF o \in UserOption THEN IF v = Absent THEN Absent ELSE Created(v)
    ELSE IF v = Absent THEN Default ELSE IF v = Null THEN Null ELSE Wrap(v)
ReloadIsLikeRestart ==
    alone = "reloaded" /\ op.kind = "idle" =>
        \A o \in All : Valid(o, file.lines[o]) => value[o] = ReadAtStart(o, file.lines[o])

\* The part of the program that uses an option knows its value.
ChangesAreTold == up => \A o \in Option : told[o] = value[o]
-----------------------------------------------------------------------------
(* Conjunctions of the properties above, as the runs check them.           *)

\* Options keep values they may have and their owners know them, through
\* sets, unsets, reloads and the changes their callbacks make
\* (config_file_option_set, config_file_option_reset, config_file_option_unset).
ValuesSound == ConfigTypeOK /\ ValueInRange /\ ChangesAreTold

\* Whenever the program stops, what was saved is what is read at the next start
\* (config_file_write_internal, config_file_read_internal).
CrashSafe == FileIsWhole /\ RestartRestores
=============================================================================
