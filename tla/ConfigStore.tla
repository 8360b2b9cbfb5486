---------------------------- MODULE ConfigStore ----------------------------
(***************************************************************************)
(* The configuration file: Config::load, Config::write_default and         *)
(* Config::save of src/src/config.rs, called at the same time by settings  *)
(* windows, the command line and extractions.  The writers share the named *)
(* mutex of src/src/platform; a load takes no lock.                        *)
(***************************************************************************)
EXTENDS Naturals, FiniteSets

CONSTANTS
    Process,        \* the running calls
    Config,         \* the valid configurations
    Initial,        \* those that may be there at first
    Default,        \* the one that Config::default returns
    Invalid,        \* a form that does not validate
    Torn,           \* the text of a default file that is not completely written
    Cut,            \* the valid configurations such a beginning may read as
    Nothing,        \* no such file
    Free,           \* the mutex is not held
    MaxDisturbances \* bound on faults, crashes and lock timeouts

Call == {"save", "init", "load"}

Phase == {"start", "lock", "temp", "check", "backup", "replace", "restore",
          "drop", "initcheck", "create", "fill", "read",
          "saved", "created", "kept", "loaded", "failed", "crashed"}

Ended == {"saved", "created", "kept", "loaded", "failed", "crashed"}

Text == Config \cup {Torn}

ASSUME ConfigAssumption ==
    /\ Default \in Cut
    /\ Cut \subseteq Config
    /\ Initial \subseteq Config
    /\ Invalid \notin Config
    /\ Torn \notin Config
    /\ Nothing \notin Text
    /\ Free \notin Process
    /\ MaxDisturbances \in Nat

VARIABLES
    call,       \* what each process does
    form,       \* the configuration each save writes
    file,       \* config.toml
    temp,       \* .iroha-zip-config-*.tmp of each save
    backup,     \* .iroha-zip-config-*.bak of each save
    had,        \* had_previous of each save
    lock,       \* who holds the mutex
    result,     \* what each load returned
    pc,         \* where each call stands
    current,    \* history: the configuration that last became the file
    disturbances

vars == <<call, form, file, temp, backup, had, lock, result, pc, current,
          disturbances>>

disk == <<file, temp, backup, current>>

-----------------------------------------------------------------------------
Init ==
    /\ call \in [Process -> Call]
    /\ form \in [Process -> Config \cup {Invalid}]
    /\ \A p \in Process : call[p] # "save" => form[p] = Default
    /\ file \in Initial \cup {Nothing}
    /\ temp = [p \in Process |-> Nothing]
    /\ backup = [p \in Process |-> Nothing]
    /\ had = [p \in Process |-> FALSE]
    /\ lock = Free
    /\ result = [p \in Process |-> Nothing]
    /\ pc = [p \in Process |-> "start"]
    /\ current = file
    /\ disturbances = 0

Goto(p, phase) == pc' = [pc EXCEPT ![p] = phase]

\* A fault: the guard is never dropped on the way out.
ReturnLocked(p, outcome) == Goto(p, outcome) /\ UNCHANGED lock

\* The call ends and drops its save guard.
Return(p, outcome) ==
    /\ Goto(p, outcome)
    /\ lock' = IF lock = p THEN Free ELSE lock

Disturb ==
    /\ disturbances < MaxDisturbances
    /\ disturbances' = disturbances + 1

-----------------------------------------------------------------------------
(* Config::save *)

\* The form is validated and serialized before anything is touched.
Serialize(p) ==
    /\ pc[p] = "start"
    /\ call[p] = "save"
    /\ Goto(p, IF form[p] = Invalid THEN "failed" ELSE "lock")
    /\ UNCHANGED <<call, form, disk, had, lock, result, disturbances>>

\* A fault: the wait is not waited for.
AcquireAnyway(p) ==
    /\ pc[p] = "lock"
    /\ lock' = p
    /\ Goto(p, IF call[p] = "save" THEN "temp" ELSE "initcheck")
    /\ UNCHANGED <<call, form, disk, had, result, disturbances>>

Acquire(p) ==
    /\ pc[p] = "lock"
    /\ lock = Free
    /\ lock' = p
    /\ Goto(p, IF call[p] = "save" THEN "temp" ELSE "initcheck")
    /\ UNCHANGED <<call, form, disk, had, result, disturbances>>

LockTimesOut(p) ==
    /\ pc[p] = "lock"
    /\ lock # Free
    /\ Disturb
    /\ Goto(p, "failed")
    /\ UNCHANGED <<call, form, disk, had, lock, result>>

WriteTemp(p) ==
    /\ pc[p] = "temp"
    /\ temp' = [temp EXCEPT ![p] = form[p]]
    /\ Goto(p, "check")
    /\ UNCHANGED <<call, form, file, backup, had, lock, result, current, disturbances>>

\* It cannot be created, or not be written; then it is removed if possible.
WriteTempFails(p) ==
    /\ pc[p] = "temp"
    /\ Disturb
    /\ \E t \in {Nothing, Torn} : temp' = [temp EXCEPT ![p] = t]
    /\ Return(p, "failed")
    /\ UNCHANGED <<call, form, file, backup, had, result, current>>

CheckPrevious(p) ==
    /\ pc[p] = "check"
    /\ had' = [had EXCEPT ![p] = file # Nothing]
    /\ Goto(p, IF file # Nothing THEN "backup" ELSE "replace")
    /\ UNCHANGED <<call, form, disk, lock, result, disturbances>>

MoveAside(p) ==
    /\ pc[p] = "backup"
    /\ file # Nothing
    /\ backup' = [backup EXCEPT ![p] = file]
    /\ file' = Nothing
    /\ Goto(p, "replace")
    /\ UNCHANGED <<call, form, temp, had, lock, result, current, disturbances>>

MoveAsideFails(p) ==
    /\ pc[p] = "backup"
    /\ Disturb
    /\ temp' = [temp EXCEPT ![p] = Nothing]
    /\ Return(p, "failed")
    /\ UNCHANGED <<call, form, file, backup, had, result, current>>

Replace(p) ==
    /\ pc[p] = "replace"
    /\ file' = temp[p]
    /\ current' = temp[p]
    /\ temp' = [temp EXCEPT ![p] = Nothing]
    /\ IF had[p] THEN Goto(p, "drop") /\ UNCHANGED lock ELSE Return(p, "saved")
    /\ UNCHANGED <<call, form, backup, had, result, disturbances>>

ReplaceFails(p) ==
    /\ pc[p] = "replace"
    /\ Disturb
    /\ IF had[p] THEN Goto(p, "restore") /\ UNCHANGED <<temp, lock>>
                 ELSE Return(p, "failed") /\ temp' = [temp EXCEPT ![p] = Nothing]
    /\ UNCHANGED <<call, form, file, backup, had, result, current>>

Restore(p) ==
    /\ pc[p] = "restore"
    /\ file' = backup[p]
    /\ backup' = [backup EXCEPT ![p] = Nothing]
    /\ temp' = [temp EXCEPT ![p] = Nothing]
    /\ Return(p, "failed")
    /\ UNCHANGED <<call, form, had, result, current, disturbances>>

\* A fault: the recovery backup is cleaned up with the temporary file.
RestoreFailsCleanly(p) ==
    /\ pc[p] = "restore"
    /\ Disturb
    /\ temp' = [temp EXCEPT ![p] = Nothing]
    /\ backup' = [backup EXCEPT ![p] = Nothing]
    /\ Return(p, "failed")
    /\ UNCHANGED <<call, form, file, had, result, current>>

\* The backup stays for the user.
RestoreFails(p) ==
    /\ pc[p] = "restore"
    /\ Disturb
    /\ temp' = [temp EXCEPT ![p] = Nothing]
    /\ Return(p, "failed")
    /\ UNCHANGED <<call, form, file, backup, had, result, current>>

\* Faults: the backup is left behind, and a backup that cannot be removed is
\* reported as a failed save.
KeepBackup(p) ==
    /\ pc[p] = "drop"
    /\ Return(p, "saved")
    /\ UNCHANGED <<call, form, disk, had, result, disturbances>>

DropBackupStrictly(p) ==
    /\ pc[p] = "drop"
    /\ Disturb
    /\ Return(p, "failed")
    /\ UNCHANGED <<call, form, disk, had, result>>

DropBackup(p) ==
    /\ pc[p] = "drop"
    /\ backup' = [backup EXCEPT ![p] = Nothing]
    /\ Return(p, "saved")
    /\ UNCHANGED <<call, form, file, temp, had, result, current, disturbances>>

\* The result of removing the backup is ignored.
DropBackupFails(p) ==
    /\ pc[p] = "drop"
    /\ Disturb
    /\ Return(p, "saved")
    /\ UNCHANGED <<call, form, disk, had, result>>

-----------------------------------------------------------------------------
(* Config::write_default *)

StartInit(p) ==
    /\ pc[p] = "start"
    /\ call[p] = "init"
    /\ Goto(p, "lock")
    /\ UNCHANGED <<call, form, disk, had, lock, result, disturbances>>

InitCheck(p) ==
    /\ pc[p] = "initcheck"
    /\ IF file # Nothing THEN Return(p, "kept") ELSE Goto(p, "create") /\ UNCHANGED lock
    /\ UNCHANGED <<call, form, disk, had, result, disturbances>>

\* create_new: a file that exists by now is an error.
Create(p) ==
    /\ pc[p] = "create"
    /\ IF file = Nothing
       THEN file' = Torn /\ Goto(p, "fill") /\ UNCHANGED lock
       ELSE Return(p, "failed") /\ UNCHANGED file
    /\ UNCHANGED <<call, form, temp, backup, had, result, current, disturbances>>

\* The default is written in place.
Fill(p) ==
    /\ pc[p] = "fill"
    /\ file' = Default
    /\ current' = Default
    /\ Return(p, "created")
    /\ UNCHANGED <<call, form, temp, backup, had, result, disturbances>>

\* A failed write leaves the beginning of the file.
InitFails(p) ==
    /\ pc[p] \in {"create", "fill"}
    /\ Disturb
    /\ Return(p, "failed")
    /\ UNCHANGED <<call, form, disk, had, result>>

-----------------------------------------------------------------------------
(* Config::load *)

Loaded(p, c) ==
    /\ result' = [result EXCEPT ![p] = c]
    /\ Goto(p, "loaded")

LoadCheck(p) ==
    /\ pc[p] = "start"
    /\ call[p] = "load"
    /\ IF file = Nothing THEN Loaded(p, Default) ELSE Goto(p, "read") /\ UNCHANGED result
    /\ UNCHANGED <<call, form, disk, had, lock, disturbances>>

\* The file may be gone again.  A beginning of the default text may not parse or
\* not validate, or it reads as a configuration of its own: a field that is
\* missing gets its default, and of a number that is cut the digits there are
\* the value (serde(default) over timeout_seconds = 3 of 300).
Read(p) ==
    /\ pc[p] = "read"
    /\ \/ file \in Config /\ Loaded(p, file)
       \/ file = Torn /\ \E c \in Cut : Loaded(p, c)
       \/ file \in {Nothing, Torn} /\ Goto(p, "failed") /\ UNCHANGED result
    /\ UNCHANGED <<call, form, disk, had, lock, disturbances>>

-----------------------------------------------------------------------------
\* The process dies; the next one to wait gets the abandoned mutex.
Crash(p) ==
    /\ pc[p] \notin Ended
    /\ Disturb
    /\ Return(p, "crashed")
    /\ UNCHANGED <<call, form, disk, had, result>>

Step(p) ==
    \/ Serialize(p) \/ Acquire(p) \/ WriteTemp(p) \/ CheckPrevious(p)
    \/ MoveAside(p) \/ Replace(p) \/ Restore(p) \/ DropBackup(p)
    \/ StartInit(p) \/ InitCheck(p) \/ Create(p) \/ Fill(p)
    \/ LoadCheck(p) \/ Read(p)

Fault(p) ==
    \/ LockTimesOut(p) \/ WriteTempFails(p) \/ MoveAsideFails(p)
    \/ ReplaceFails(p) \/ RestoreFails(p) \/ DropBackupFails(p)
    \/ InitFails(p) \/ Crash(p)

Next == \E p \in Process : Step(p) \/ Fault(p)

Spec == Init /\ [][Next]_vars

\* Every call is a plain sequential program; the mutex goes to some waiter.
FairSpec == Spec /\ \A p \in Process : WF_vars(Step(p))

-----------------------------------------------------------------------------
TypeOK ==
    /\ call \in [Process -> Call]
    /\ form \in [Process -> Config \cup {Invalid}]
    /\ file \in Text \cup {Nothing}
    /\ temp \in [Process -> Text \cup {Nothing}]
    /\ backup \in [Process -> Text \cup {Nothing}]
    /\ had \in [Process -> BOOLEAN]
    /\ lock \in Process \cup {Free}
    /\ result \in [Process -> Config \cup {Nothing}]
    /\ pc \in [Process -> Phase]
    /\ current \in Config \cup {Nothing}
    /\ disturbances \in Nat

\* Whatever fails or crashes at whatever step, the configuration that was
\* last in force is still on disk: as the file, or in a recovery backup.
NeverLost ==
    current # Nothing =>
        file = current \/ \E p \in Process : backup[p] = current

\* Of a first run that has created the file and may not have filled it.
HalfWritten(c) ==
    /\ c \in Cut
    /\ \E q \in Process : /\ call[q] = "init"
                          /\ pc[q] \in {"fill", "created", "failed", "crashed"}

\* A load returns the defaults, the configuration that was there at first, or
\* one whose save did not fail: no invalid form, no rolled-back one and no part
\* of a save's text is ever used.  (It may be the defaults while a save has the
\* file moved aside.)  The one text that is ever read half-written is the first
\* run's, which write_default fills in place: it may read as any of Cut.
LoadedWasSaved ==
    \A p \in Process : result[p] \in Config \ (Initial \cup {Default}) =>
        \/ HalfWritten(result[p])
        \/ \E q \in Process : /\ call[q] = "save"
                              /\ form[q] = result[p]
                              /\ pc[q] \in {"drop", "saved", "crashed"}

\* Saves, first runs and loads that nothing disturbs leave one complete
\* configuration and neither a temporary file nor a backup.
NoLeftovers ==
    disturbances = 0 /\ (\A p \in Process : pc[p] \in Ended) =>
        /\ \A p \in Process : temp[p] = Nothing /\ backup[p] = Nothing
        /\ file = current

\* Simultaneous first runs, with saves going on, report at most one creator
\* and none of them fails over the others.
FirstRunsAgree ==
    disturbances = 0 =>
        /\ Cardinality({p \in Process : pc[p] = "created"}) <= 1
        /\ \A p \in Process : call[p] = "init" => pc[p] # "failed"

\* Saves queue up behind each other and all of them succeed.
SavesSucceed ==
    [](disturbances = 0) =>
        \A p \in Process : call[p] = "save" /\ form[p] # Invalid => <>(pc[p] = "saved")
=============================================================================
