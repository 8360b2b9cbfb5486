-------------------------- MODULE ConfigStoreProofs --------------------------
(***************************************************************************)
(* The configuration in force is never lost: a proof for any number of     *)
(* concurrent calls, any configurations and any bound on the faults.       *)
(***************************************************************************)
EXTENDS ConfigStore, FiniteSetTheorems, TLAPS

\* The phases in which a call holds the save guard.
Guarded == {"temp", "check", "backup", "replace", "restore", "drop",
            "initcheck", "create", "fill"}

\* Only the call that has the mutex is in one of them.
Exclusion == \A p \in Process : pc[p] \in Guarded => lock = p

\* What the file system looks like in the phases that depend on it.
Transaction ==
    \A p \in Process :
        /\ pc[p] \in {"start", "lock", "temp", "check", "backup"} =>
              backup[p] = Nothing
        /\ pc[p] \in {"lock", "temp", "check", "backup", "replace"}
              /\ call[p] = "save" => form[p] \in Config
        /\ pc[p] \in {"temp", "check", "backup", "replace"} => call[p] = "save"
        /\ pc[p] \in {"check", "backup", "replace"} => temp[p] = form[p]
        /\ pc[p] \in {"replace", "restore"} => file = Nothing
        /\ pc[p] = "drop" => file = current

StoreInv == TypeOK /\ Exclusion /\ Transaction /\ NeverLost

LEMMA StoreInit == Init => StoreInv
BY ConfigAssumption
   DEF Init, StoreInv, TypeOK, Exclusion, Transaction, NeverLost, Guarded, Text,
       Phase, Call

LEMMA StoreStep == StoreInv /\ [Next]_vars => StoreInv'
<1> SUFFICES ASSUME StoreInv, [Next]_vars
             PROVE  StoreInv'
  OBVIOUS
<1> USE ConfigAssumption
    DEF StoreInv, TypeOK, Exclusion, Transaction, NeverLost, Guarded, Phase, Call,
        Goto, Return, Disturb, disk, Text
<1>1. ASSUME NEW p \in Process, Serialize(p) PROVE StoreInv'
  BY <1>1 DEF Serialize
<1>2. ASSUME NEW p \in Process, Acquire(p) PROVE StoreInv'
  BY <1>2 DEF Acquire
<1>3. ASSUME NEW p \in Process, LockTimesOut(p) PROVE StoreInv'
  BY <1>3 DEF LockTimesOut
<1>4. ASSUME NEW p \in Process, WriteTemp(p) PROVE StoreInv'
  BY <1>4 DEF WriteTemp
<1>5. ASSUME NEW p \in Process, WriteTempFails(p) PROVE StoreInv'
  BY <1>5 DEF WriteTempFails
<1>6. ASSUME NEW p \in Process, CheckPrevious(p) PROVE StoreInv'
  BY <1>6 DEF CheckPrevious
<1>7. ASSUME NEW p \in Process, MoveAside(p) PROVE StoreInv'
  BY <1>7 DEF MoveAside
<1>8. ASSUME NEW p \in Process, MoveAsideFails(p) PROVE StoreInv'
  BY <1>8 DEF MoveAsideFails
<1>9. ASSUME NEW p \in Process, Replace(p) PROVE StoreInv'
  BY <1>9 DEF Replace
<1>10. ASSUME NEW p \in Process, ReplaceFails(p) PROVE StoreInv'
  BY <1>10 DEF ReplaceFails
<1>11. ASSUME NEW p \in Process, Restore(p) PROVE StoreInv'
  BY <1>11 DEF Restore
<1>12. ASSUME NEW p \in Process, RestoreFails(p) PROVE StoreInv'
  BY <1>12 DEF RestoreFails
<1>13. ASSUME NEW p \in Process, DropBackup(p) PROVE StoreInv'
  BY <1>13 DEF DropBackup
<1>14. ASSUME NEW p \in Process, DropBackupFails(p) PROVE StoreInv'
  BY <1>14 DEF DropBackupFails
<1>15. ASSUME NEW p \in Process, StartInit(p) PROVE StoreInv'
  BY <1>15 DEF StartInit
<1>16. ASSUME NEW p \in Process, InitCheck(p) PROVE StoreInv'
  BY <1>16 DEF InitCheck
<1>17. ASSUME NEW p \in Process, Create(p) PROVE StoreInv'
  BY <1>17 DEF Create
<1>18. ASSUME NEW p \in Process, Fill(p) PROVE StoreInv'
  BY <1>18 DEF Fill
<1>19. ASSUME NEW p \in Process, InitFails(p) PROVE StoreInv'
  BY <1>19 DEF InitFails
<1>20. ASSUME NEW p \in Process, LoadCheck(p) PROVE StoreInv'
  BY <1>20 DEF LoadCheck, Loaded
<1>21. ASSUME NEW p \in Process, Read(p) PROVE StoreInv'
  BY <1>21 DEF Read, Loaded
<1>22. ASSUME NEW p \in Process, Crash(p) PROVE StoreInv'
  BY <1>22 DEF Crash, Ended
<1>23. CASE UNCHANGED vars
  BY <1>23 DEF vars
<1> QED
  BY <1>1, <1>2, <1>3, <1>4, <1>5, <1>6, <1>7, <1>8, <1>9, <1>10, <1>11, <1>12,
     <1>13, <1>14, <1>15, <1>16, <1>17, <1>18, <1>19, <1>20, <1>21, <1>22, <1>23
     DEF Next, Step, Fault

\* Every reachable state of the configuration store is well formed.
THEOREM StoreTypeCorrect == Spec => []TypeOK
<1>1. StoreInv => TypeOK
  BY DEF StoreInv
<1> QED
  BY <1>1, StoreInit, StoreStep, PTL DEF Spec

\* Config::save and Config::write_default never lose the configuration that is
\* in force, whatever interleaves with them, fails or crashes.
THEOREM ConfigurationSurvives == Spec => []NeverLost
<1>1. StoreInv => NeverLost
  BY DEF StoreInv
<1> QED
  BY <1>1, StoreInit, StoreStep, PTL DEF Spec

-----------------------------------------------------------------------------
(* A load returns nothing but what a save that did not fail has written, or  *)
(* what the beginning of a first run's file reads as.                        *)

\* A save of this configuration has passed its replacement.
Saved(c) == \E q \in Process : /\ call[q] = "save"
                               /\ form[q] = c
                               /\ pc[q] \in {"drop", "saved", "crashed"}

\* A first run may have begun to fill the file.
Begun == \E q \in Process : /\ call[q] = "init"
                            /\ pc[q] \in {"fill", "created", "failed", "crashed"}

\* Whatever complete text is in the file, or was in it and is kept as a backup,
\* comes from such a save, and a torn one from a first run.
Origin(t) ==
    /\ t \in Config \ (Initial \cup {Default}) => Saved(t)
    /\ t = Torn => Begun

\* So does whatever was read from it.
ReadFrom(c) ==
    c \in Config \ (Initial \cup {Default}) => Saved(c) \/ (c \in Cut /\ Begun)

LoadInv ==
    /\ Origin(file)
    /\ \A p \in Process : /\ pc[p] = "lock" => call[p] # "load"
                          /\ pc[p] \in {"initcheck", "create", "fill"} => call[p] = "init"
    /\ \A p \in Process : Origin(backup[p]) /\ ReadFrom(result[p])

LEMMA LoadInit == Init => LoadInv
BY ConfigAssumption DEF Init, LoadInv, Origin, ReadFrom, Text

LEMMA LoadStep == StoreInv /\ LoadInv /\ [Next]_vars => LoadInv'
<1> SUFFICES ASSUME StoreInv, LoadInv, [Next]_vars
             PROVE  LoadInv'
  OBVIOUS
<1> USE ConfigAssumption
    DEF StoreInv, TypeOK, Transaction, LoadInv, Origin, ReadFrom, Saved, Begun, Phase, Call,
        Goto, Return, Disturb, disk, Text
<1>1. ASSUME NEW p \in Process, Serialize(p) PROVE LoadInv'
  BY <1>1 DEF Serialize
<1>2. ASSUME NEW p \in Process, Acquire(p) PROVE LoadInv'
  BY <1>2 DEF Acquire
<1>3. ASSUME NEW p \in Process, LockTimesOut(p) PROVE LoadInv'
  BY <1>3 DEF LockTimesOut
<1>4. ASSUME NEW p \in Process, WriteTemp(p) PROVE LoadInv'
  BY <1>4 DEF WriteTemp
<1>5. ASSUME NEW p \in Process, WriteTempFails(p) PROVE LoadInv'
  BY <1>5 DEF WriteTempFails
<1>6. ASSUME NEW p \in Process, CheckPrevious(p) PROVE LoadInv'
  BY <1>6 DEF CheckPrevious
<1>7. ASSUME NEW p \in Process, MoveAside(p) PROVE LoadInv'
  BY <1>7 DEF MoveAside
<1>8. ASSUME NEW p \in Process, MoveAsideFails(p) PROVE LoadInv'
  BY <1>8 DEF MoveAsideFails
<1>9. ASSUME NEW p \in Process, Replace(p) PROVE LoadInv'
  BY <1>9 DEF Replace
<1>10. ASSUME NEW p \in Process, ReplaceFails(p) PROVE LoadInv'
  BY <1>10 DEF ReplaceFails
<1>11. ASSUME NEW p \in Process, Restore(p) PROVE LoadInv'
  BY <1>11 DEF Restore
<1>12. ASSUME NEW p \in Process, RestoreFails(p) PROVE LoadInv'
  BY <1>12 DEF RestoreFails
<1>13. ASSUME NEW p \in Process, DropBackup(p) PROVE LoadInv'
  BY <1>13 DEF DropBackup
<1>14. ASSUME NEW p \in Process, DropBackupFails(p) PROVE LoadInv'
  BY <1>14 DEF DropBackupFails
<1>15. ASSUME NEW p \in Process, StartInit(p) PROVE LoadInv'
  BY <1>15 DEF StartInit
<1>16. ASSUME NEW p \in Process, InitCheck(p) PROVE LoadInv'
  BY <1>16 DEF InitCheck
<1>17. ASSUME NEW p \in Process, Create(p) PROVE LoadInv'
  BY <1>17 DEF Create
<1>18. ASSUME NEW p \in Process, Fill(p) PROVE LoadInv'
  BY <1>18 DEF Fill
<1>19. ASSUME NEW p \in Process, InitFails(p) PROVE LoadInv'
  BY <1>19 DEF InitFails
<1>20. ASSUME NEW p \in Process, LoadCheck(p) PROVE LoadInv'
  BY <1>20 DEF LoadCheck, Loaded
<1>21. ASSUME NEW p \in Process, Read(p) PROVE LoadInv'
  <2>1. CASE file \in Config /\ Loaded(p, file)
    BY <1>21, <2>1 DEF Read, Loaded
  <2>2. CASE file = Torn /\ \E c \in Cut : Loaded(p, c)
    <3>1. PICK c \in Cut : Loaded(p, c)
      BY <2>2
    <3>2. Begun
      BY <2>2
    <3> QED
      BY <1>21, <2>2, <3>1, <3>2 DEF Read, Loaded
  <2>3. CASE file \in {Nothing, Torn} /\ Goto(p, "failed") /\ UNCHANGED result
    BY <1>21, <2>3 DEF Read
  <2> QED
    BY <1>21, <2>1, <2>2, <2>3 DEF Read
<1>22. ASSUME NEW p \in Process, Crash(p) PROVE LoadInv'
  BY <1>22 DEF Crash, Ended
<1>23. CASE UNCHANGED vars
  BY <1>23 DEF vars
<1> QED
  BY <1>1, <1>2, <1>3, <1>4, <1>5, <1>6, <1>7, <1>8, <1>9, <1>10, <1>11, <1>12,
     <1>13, <1>14, <1>15, <1>16, <1>17, <1>18, <1>19, <1>20, <1>21, <1>22, <1>23
     DEF Next, Step, Fault

\* Whatever saves, first runs, faults and crashes interleave with it, Config::load
\* never returns an invalid form, a rolled-back one or a part of a save's text;
\* only the file a first run fills in place can be read half-written.
THEOREM LoadsAreSaved == Spec => []LoadedWasSaved
<1>1. LoadInv => LoadedWasSaved
  BY DEF LoadInv, ReadFrom, Saved, Begun, LoadedWasSaved, HalfWritten
<1> QED
  BY <1>1, StoreInit, StoreStep, LoadInit, LoadStep, PTL DEF Spec

-----------------------------------------------------------------------------
(* Calls that nothing disturbs: what they leave, and that first runs agree. *)

\* Where a staging file or a backup can be, and what the file is meanwhile.
Tidy ==
    \A p \in Process :
        /\ pc[p] \notin {"restore", "crashed"}
        /\ temp[p] # Nothing => pc[p] \in {"check", "backup", "replace"}
        /\ backup[p] # Nothing => pc[p] \in {"replace", "drop"}
        /\ pc[p] = "backup" => had[p] /\ file # Nothing
        /\ pc[p] = "replace" => (had[p] <=> backup[p] # Nothing)
        /\ pc[p] = "replace" /\ ~had[p] => current = Nothing
        /\ pc[p] = "create" => file = Nothing /\ current = Nothing
        /\ pc[p] = "fill" => current = Nothing
        /\ call[p] = "init" =>
              pc[p] \in {"start", "lock", "initcheck", "create", "fill", "created", "kept"}

\* Between calls, the file is the configuration in force.
InForce ==
    \/ file = current
    \/ \E p \in Process : pc[p] = "replace" \/ pc[p] = "fill"

\* After the first run that created the file, there is always one in force.
OneCreator ==
    \A p, q \in Process : pc[p] = "created" =>
        /\ current # Nothing
        /\ pc[q] = "created" => p = q

CalmInv == disturbances = 0 => Tidy /\ InForce /\ OneCreator

LEMMA CalmInit == Init => CalmInv
BY ConfigAssumption DEF Init, CalmInv, Tidy, InForce, OneCreator, Call

LEMMA CalmStep == StoreInv /\ CalmInv /\ [Next]_vars => CalmInv'
<1> SUFFICES ASSUME StoreInv, CalmInv, [Next]_vars
             PROVE  CalmInv'
  OBVIOUS
<1> USE ConfigAssumption
    DEF StoreInv, TypeOK, Exclusion, Guarded, Transaction, CalmInv, Tidy, InForce,
        OneCreator, Phase, Call, Goto, Return, Disturb, disk, Text
<1>1. ASSUME NEW p \in Process, Serialize(p) PROVE CalmInv'
  BY <1>1 DEF Serialize
<1>2. ASSUME NEW p \in Process, Acquire(p) PROVE CalmInv'
  BY <1>2 DEF Acquire
<1>3. ASSUME NEW p \in Process, LockTimesOut(p) PROVE CalmInv'
  BY <1>3 DEF LockTimesOut
<1>4. ASSUME NEW p \in Process, WriteTemp(p) PROVE CalmInv'
  BY <1>4 DEF WriteTemp
<1>5. ASSUME NEW p \in Process, WriteTempFails(p) PROVE CalmInv'
  BY <1>5 DEF WriteTempFails
<1>6. ASSUME NEW p \in Process, CheckPrevious(p) PROVE CalmInv'
  <2>1. \A q \in Process \ {p} : pc[q] \notin Guarded
    BY <1>6 DEF CheckPrevious
  <2>2. disturbances = 0 /\ file = Nothing => current = Nothing
    BY <1>6, <2>1 DEF CheckPrevious
  <2>3. disturbances = 0 => Tidy'
    BY <1>6, <2>2 DEF CheckPrevious
  <2>4. disturbances = 0 => InForce' /\ OneCreator'
    BY <1>6, <2>1 DEF CheckPrevious
  <2> QED
    BY <1>6, <2>3, <2>4 DEF CheckPrevious
<1>7. ASSUME NEW p \in Process, MoveAside(p) PROVE CalmInv'
  BY <1>7 DEF MoveAside
<1>8. ASSUME NEW p \in Process, MoveAsideFails(p) PROVE CalmInv'
  BY <1>8 DEF MoveAsideFails
<1>9. ASSUME NEW p \in Process, Replace(p) PROVE CalmInv'
  BY <1>9 DEF Replace
<1>10. ASSUME NEW p \in Process, ReplaceFails(p) PROVE CalmInv'
  BY <1>10 DEF ReplaceFails
<1>11. ASSUME NEW p \in Process, Restore(p) PROVE CalmInv'
  BY <1>11 DEF Restore
<1>12. ASSUME NEW p \in Process, RestoreFails(p) PROVE CalmInv'
  BY <1>12 DEF RestoreFails
<1>13. ASSUME NEW p \in Process, DropBackup(p) PROVE CalmInv'
  BY <1>13 DEF DropBackup
<1>14. ASSUME NEW p \in Process, DropBackupFails(p) PROVE CalmInv'
  BY <1>14 DEF DropBackupFails
<1>15. ASSUME NEW p \in Process, StartInit(p) PROVE CalmInv'
  BY <1>15 DEF StartInit
<1>16. ASSUME NEW p \in Process, InitCheck(p) PROVE CalmInv'
  BY <1>16 DEF InitCheck
<1>17. ASSUME NEW p \in Process, Create(p) PROVE CalmInv'
  BY <1>17 DEF Create
<1>18. ASSUME NEW p \in Process, Fill(p) PROVE CalmInv'
  BY <1>18 DEF Fill
<1>19. ASSUME NEW p \in Process, InitFails(p) PROVE CalmInv'
  BY <1>19 DEF InitFails
<1>20. ASSUME NEW p \in Process, LoadCheck(p) PROVE CalmInv'
  BY <1>20 DEF LoadCheck, Loaded
<1>21. ASSUME NEW p \in Process, Read(p) PROVE CalmInv'
  BY <1>21 DEF Read, Loaded
<1>22. ASSUME NEW p \in Process, Crash(p) PROVE CalmInv'
  BY <1>22 DEF Crash, Ended
<1>23. CASE UNCHANGED vars
  BY <1>23 DEF vars
<1> QED
  BY <1>1, <1>2, <1>3, <1>4, <1>5, <1>6, <1>7, <1>8, <1>9, <1>10, <1>11, <1>12,
     <1>13, <1>14, <1>15, <1>16, <1>17, <1>18, <1>19, <1>20, <1>21, <1>22, <1>23
     DEF Next, Step, Fault

\* Saves, first runs and loads that nothing disturbs leave one complete
\* configuration and no file of theirs beside it.
THEOREM CalmLeavesNothing == Spec => []NoLeftovers
<1>1. CalmInv => NoLeftovers
  BY DEF CalmInv, Tidy, InForce, NoLeftovers, Ended
<1> QED
  BY <1>1, StoreInit, StoreStep, CalmInit, CalmStep, PTL DEF Spec

\* Of any number of simultaneous first runs at most one creates the file, and
\* the others find it.
THEOREM OneFirstRun == Spec => []FirstRunsAgree
<1>1. StoreInv /\ CalmInv => FirstRunsAgree
  <2> SUFFICES ASSUME CalmInv, disturbances = 0
               PROVE  /\ Cardinality({p \in Process : pc[p] = "created"}) <= 1
                      /\ \A p \in Process : call[p] = "init" => pc[p] # "failed"
    BY DEF FirstRunsAgree
  <2> DEFINE creators == {p \in Process : pc[p] = "created"}
  <2>1. CASE creators = {}
    BY <2>1, FS_EmptySet DEF CalmInv, Tidy
  <2>2. CASE creators # {}
    <3>1. PICK p \in creators : TRUE
      BY <2>2
    <3>2. creators = {p}
      BY <3>1 DEF CalmInv, OneCreator
    <3> QED
      BY <3>2, FS_Singleton DEF CalmInv, Tidy
  <2> QED
    BY <2>1, <2>2
<1> QED
  BY <1>1, StoreInit, StoreStep, CalmInit, CalmStep, PTL DEF Spec
=============================================================================
