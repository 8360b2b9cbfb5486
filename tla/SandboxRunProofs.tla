-------------------------- MODULE SandboxRunProofs --------------------------
(***************************************************************************)
(* The safety of SandboxRun for any number of runs, any budget and any     *)
(* number of failing calls.  The invariant is split by what it speaks of;  *)
(* each part is kept by every step under the parts it names.               *)
(***************************************************************************)
EXTENDS SandboxRun, TLAPS

\* Before there is a mode; before the child runs; while it runs; after it.
Making == {"new", "storage", "undo_profile", "undo_storage", "fallback"}
Preparing == {"verify", "send", "resume"}
Polling == {"poll", "late", "monitor"}
Over == {"profile", "root", "parent", "drop"} \cup Ended

\* The type invariant, in three parts: the Boolean, the finite, the numbers.
Flags ==
    /\ windows \in BOOLEAN
    /\ allow \in BOOLEAN
    /\ stray \in BOOLEAN
    /\ verified \in BOOLEAN
    /\ elapsed \in BOOLEAN
    /\ failed \in BOOLEAN
    /\ warned \in BOOLEAN

Places ==
    /\ mode \in {"none", "AppContainer", "Unsandboxed"}
    /\ disk \subseteq Object
    /\ child \in {"none", "suspended", "running", "dying", "gone"}
    /\ secret \in {"absent", "held", "sent", "wiped"}
    /\ unremoved \subseteq Object
    /\ pc \in Phase

Counts ==
    /\ secretRun \in 0 .. Runs
    /\ run \in 0 .. Runs
    /\ usage \in Nat
    /\ limit \in Nat
    /\ attempts \in 0 .. Attempts
    /\ disturbances \in Nat

Types == Flags /\ Places /\ Counts

\* The mode and the backend in each phase of the parent.
ChildInv ==
    /\ mode = "none" => child = "none" /\ stray = FALSE
    /\ pc \in Making => mode = "none"
    /\ pc \notin Making \cup Ended => mode # "none"
    /\ pc = "sources" => mode = "AppContainer" /\ child = "none"
    /\ pc = "profile" => mode = "AppContainer"
    /\ pc \in Preparing => mode = "AppContainer" /\ child = "suspended"
    /\ pc \in {"send", "resume"} => verified = TRUE
    /\ mode = "AppContainer" =>
          /\ stray = FALSE
          /\ child = "running" => verified = TRUE /\ pc \in Polling
          /\ child = "suspended" => pc \in Preparing
          /\ child = "dying" => pc \in {"reap"} \cup Over
          /\ pc \in Polling => verified = TRUE
          /\ pc = "final" => child = "gone"

\* A run in progress is one of Runs, and none precedes the mode.
RunInv ==
    /\ pc \in Making \cup {"sources"} => run = 0
    /\ pc \in Preparing \cup Polling \cup {"final"} => run < Runs

\* There is an attempt left whenever the profile is still to be deleted.
AttemptInv ==
    \/ mode = "AppContainer" /\ pc \notin {"root", "parent", "drop"} \cup Ended
    \/ pc \in {"new", "storage", "undo_profile"}
    => attempts < Attempts

\* Nothing that could still write is there once the limits were checked.
LimitInv == mode = "AppContainer" /\ pc = "idle" /\ run > 0 => usage <= limit

\* The secret is still held before the phase that sends it.
SecretInv ==
    /\ pc \in Making \cup {"sources", "idle", "verify", "send"} /\ run < secretRun
          => secret = "held"
    /\ pc \in Polling \cup {"resume", "final"} /\ run + 1 < secretRun => secret = "held"
    /\ pc = "send" => Secretive

\* What can be on the machine in each phase, but for what was not removed.
DiskInv ==
    /\ pc = "new" => disk = {}
    /\ pc \in {"new", "storage", "undo_profile"} => unremoved = {}
    /\ pc = "storage" => disk \subseteq {"profile"}
    /\ pc = "undo_profile" => disk \subseteq {"profile", "storage"}
    /\ pc = "undo_storage" => disk \subseteq {"storage"} \cup unremoved
    /\ pc = "fallback" => disk \subseteq unremoved
    /\ mode = "Unsandboxed" => disk \subseteq {"fallback"} \cup unremoved
    /\ mode = "AppContainer" =>
          disk \subseteq {"profile", "storage", "sources"} \cup unremoved
    /\ pc = "root" /\ mode = "AppContainer" =>
          disk \subseteq {"storage", "sources"} \cup unremoved
    /\ pc = "parent" => disk \subseteq {"sources"} \cup unremoved
    /\ pc \in {"drop", "returned"} => disk \subseteq unremoved

\* What was not removed was reported, by the error or by the warning.
ToldInv ==
    pc \notin {"undo_storage", "crashed"} /\ unremoved # {} => failed = TRUE \/ warned = TRUE

IInv ==
    /\ Types
    /\ ChildInv
    /\ RunInv
    /\ AttemptInv
    /\ LimitInv
    /\ SecretInv
    /\ DiskInv
    /\ ToldInv

-----------------------------------------------------------------------------
\* The initial states satisfy every part of the invariant.
LEMMA InitIInv == Init => IInv
<1> SUFFICES ASSUME Init PROVE IInv
  OBVIOUS
<1>1. Flags
  BY DEF Init, Flags
<1>2. Places
  BY DEF Init, Places, Phase
<1>3. Counts
  BY SandboxAssumption DEF Init, Counts
<1>4. ChildInv
  BY DEF Init, ChildInv, Making, Preparing, Polling, Over, Ended
<1>5. RunInv /\ AttemptInv /\ LimitInv
  BY SandboxAssumption
  DEF Init, RunInv, AttemptInv, LimitInv, Making, Preparing, Polling, Ended
<1>6. SecretInv
  BY SandboxAssumption DEF Init, SecretInv, Making, Polling
<1>7. DiskInv
  BY DEF Init, DiskInv
<1>8. ToldInv
  BY DEF Init, ToldInv
<1> QED
  BY <1>1, <1>2, <1>3, <1>4, <1>5, <1>6, <1>7, <1>8 DEF IInv, Types

\* A flag stays a flag.
LEMMA FlagsStep == Flags /\ [Next]_vars => Flags'
<1> SUFFICES ASSUME Flags, [Next]_vars PROVE Flags'
  OBVIOUS
<1> USE SandboxAssumption DEF Flags,
        Goto, Disturb, Calm, Fail, Abort, Wiped, Terminated, CleanupPhase, GiveUpProfile,
        request, boxVars, childVars
<1>1. CASE NewProfile
  BY <1>1, Zenon DEF NewProfile
<1>2. CASE PrepareStorage
  BY <1>2, Zenon DEF PrepareStorage
<1>3. CASE CreateSources
  BY <1>3, Zenon DEF CreateSources
<1>4. CASE CreateFallback
  BY <1>4, Zenon DEF CreateFallback
<1>5. CASE Launch
  BY <1>5, Zenon DEF Launch
<1>6. CASE Verify
  BY <1>6, Zenon DEF Verify
<1>7. CASE Send
  BY <1>7, Zenon DEF Send
<1>8. CASE Resume
  BY <1>8, Zenon DEF Resume
<1>9. CASE Poll
  BY <1>9, Zenon DEF Poll
<1>10. CASE Late
  BY <1>10, Zenon DEF Late
<1>11. CASE Monitor
  BY <1>11, Zenon DEF Monitor
<1>12. CASE Reap
  BY <1>12, Zenon DEF Reap
<1>13. CASE Final
  BY <1>13, Zenon DEF Final
<1>14. CASE Finish
  BY <1>14, Zenon DEF Finish
<1>15. CASE DeleteProfile
  BY <1>15, Zenon DEF DeleteProfile
<1>16. CASE UndoStorage
  BY <1>16, Zenon DEF UndoStorage, Remove
<1>17. CASE RemoveRoot
  BY <1>17, Zenon DEF RemoveRoot, Remove
<1>18. CASE RemoveSources
  BY <1>18, Zenon DEF RemoveSources, Remove
<1>19. CASE DropAgain
  BY <1>19, Zenon DEF DropAgain, Remove
<1>20. CASE WorkFails
  BY <1>20, Zenon DEF WorkFails
<1>21. CASE Fork
  BY <1>21, Zenon DEF Fork, CanFork
<1>22. CASE Write
  BY <1>22, Zenon DEF Write
<1>23. CASE Exit
  BY <1>23, Zenon DEF Exit
<1>24. CASE Die
  BY <1>24, Zenon DEF Die
<1>25. CASE Tick
  BY <1>25, Zenon DEF Tick
<1>26. CASE Crash
  BY <1>26, Zenon DEF Crash
<1>27. CASE UNCHANGED vars
  BY <1>27, Zenon DEF vars
<1> QED
  BY <1>1, <1>2, <1>3, <1>4, <1>5, <1>6, <1>7, <1>8, <1>9, <1>10, <1>11, <1>12, <1>13, <1>14,
     <1>15, <1>16, <1>17, <1>18, <1>19, <1>20, <1>21, <1>22, <1>23, <1>24, <1>25, <1>26, <1>27
     DEF Next, Parent

\* Modes, phases and objects stay what they are.
LEMMA PlacesStep == Places /\ [Next]_vars => Places'
<1> SUFFICES ASSUME Places, [Next]_vars PROVE Places'
  OBVIOUS
<1> USE SandboxAssumption DEF Places, Phase, Object,
        Goto, Disturb, Calm, Fail, Abort, Wiped, Terminated, CleanupPhase, GiveUpProfile,
        request, boxVars, childVars
<1>1. CASE NewProfile
  BY <1>1 DEF NewProfile
<1>2. CASE PrepareStorage
  BY <1>2 DEF PrepareStorage
<1>3. CASE CreateSources
  BY <1>3 DEF CreateSources
<1>4. CASE CreateFallback
  BY <1>4 DEF CreateFallback
<1>5. CASE Launch
  BY <1>5 DEF Launch
<1>6. CASE Verify
  BY <1>6 DEF Verify
<1>7. CASE Send
  BY <1>7 DEF Send
<1>8. CASE Resume
  BY <1>8 DEF Resume
<1>9. CASE Poll
  BY <1>9 DEF Poll
<1>10. CASE Late
  BY <1>10 DEF Late
<1>11. CASE Monitor
  BY <1>11 DEF Monitor
<1>12. CASE Reap
  BY <1>12 DEF Reap
<1>13. CASE Final
  BY <1>13 DEF Final
<1>14. CASE Finish
  BY <1>14 DEF Finish
<1>15. CASE DeleteProfile
  BY <1>15 DEF DeleteProfile
<1>16. CASE UndoStorage
  BY <1>16 DEF UndoStorage, Remove
<1>17. CASE RemoveRoot
  BY <1>17 DEF RemoveRoot, Remove
<1>18. CASE RemoveSources
  BY <1>18 DEF RemoveSources, Remove
<1>19. CASE DropAgain
  BY <1>19 DEF DropAgain, Remove
<1>20. CASE WorkFails
  BY <1>20 DEF WorkFails
<1>21. CASE Fork
  BY <1>21 DEF Fork, CanFork
<1>22. CASE Write
  BY <1>22 DEF Write
<1>23. CASE Exit
  BY <1>23 DEF Exit
<1>24. CASE Die
  BY <1>24 DEF Die
<1>25. CASE Tick
  BY <1>25 DEF Tick
<1>26. CASE Crash
  BY <1>26 DEF Crash
<1>27. CASE UNCHANGED vars
  BY <1>27 DEF vars
<1> QED
  BY <1>1, <1>2, <1>3, <1>4, <1>5, <1>6, <1>7, <1>8, <1>9, <1>10, <1>11, <1>12, <1>13, <1>14,
     <1>15, <1>16, <1>17, <1>18, <1>19, <1>20, <1>21, <1>22, <1>23, <1>24, <1>25, <1>26, <1>27
     DEF Next, Parent

\* The counters stay within their ranges.
LEMMA CountsStep == Counts /\ ChildInv /\ RunInv /\ AttemptInv /\ [Next]_vars => Counts'
<1> SUFFICES ASSUME Counts, ChildInv, RunInv, AttemptInv, [Next]_vars PROVE Counts'
  OBVIOUS
<1> USE SandboxAssumption DEF Counts, RunInv, AttemptInv, Making, Preparing, Polling, Over, Ended,
        Goto, Disturb, Calm, Fail, Abort, Wiped, Terminated, CleanupPhase, GiveUpProfile,
        request, boxVars, childVars
<1>1. CASE NewProfile
  BY <1>1 DEF NewProfile
<1>2. CASE PrepareStorage
  BY <1>2 DEF PrepareStorage
<1>3. CASE CreateSources
  BY <1>3 DEF CreateSources
<1>4. CASE CreateFallback
  BY <1>4 DEF CreateFallback
<1>5. CASE Launch
  BY <1>5 DEF Launch
<1>6. CASE Verify
  BY <1>6 DEF Verify
<1>7. CASE Send
  BY <1>7 DEF Send
<1>8. CASE Resume
  BY <1>8 DEF Resume
<1>9. CASE Poll
  BY <1>9 DEF Poll
<1>10. CASE Late
  BY <1>10 DEF Late
<1>11. CASE Monitor
  BY <1>11 DEF Monitor
<1>12. CASE Reap
  BY <1>12 DEF Reap
<1>13. CASE Final
  BY <1>13 DEF Final
<1>14. CASE Finish
  BY <1>14 DEF Finish
<1>15. CASE DeleteProfile
  <2>1. attempts < Attempts
    BY <1>15 DEF DeleteProfile, ChildInv
  <2>2. attempts' = attempts \/ attempts' = attempts + 1
    BY <1>15 DEF DeleteProfile
  <2>3. attempts' \in 0 .. Attempts
    BY <2>1, <2>2
  <2>4. disturbances' \in Nat
    BY <1>15 DEF DeleteProfile
  <2> QED
    BY <1>15, <2>3, <2>4 DEF DeleteProfile
<1>16. CASE UndoStorage
  BY <1>16 DEF UndoStorage, Remove
<1>17. CASE RemoveRoot
  BY <1>17 DEF RemoveRoot, Remove
<1>18. CASE RemoveSources
  BY <1>18 DEF RemoveSources, Remove
<1>19. CASE DropAgain
  BY <1>19 DEF DropAgain, Remove
<1>20. CASE WorkFails
  BY <1>20 DEF WorkFails
<1>21. CASE Fork
  BY <1>21 DEF Fork, CanFork
<1>22. CASE Write
  BY <1>22 DEF Write
<1>23. CASE Exit
  BY <1>23 DEF Exit
<1>24. CASE Die
  BY <1>24 DEF Die
<1>25. CASE Tick
  BY <1>25 DEF Tick
<1>26. CASE Crash
  BY <1>26 DEF Crash
<1>27. CASE UNCHANGED vars
  BY <1>27 DEF vars
<1> QED
  BY <1>1, <1>2, <1>3, <1>4, <1>5, <1>6, <1>7, <1>8, <1>9, <1>10, <1>11, <1>12, <1>13, <1>14,
     <1>15, <1>16, <1>17, <1>18, <1>19, <1>20, <1>21, <1>22, <1>23, <1>24, <1>25, <1>26, <1>27
     DEF Next, Parent

\* Parent and backend stay in step.
LEMMA ChildStep == Types /\ ChildInv /\ [Next]_vars => ChildInv'
<1> SUFFICES ASSUME Types, ChildInv, [Next]_vars PROVE ChildInv'
  OBVIOUS
<1> USE SandboxAssumption DEF Types, Flags, Places, ChildInv, Making, Preparing, Polling, Over, Ended,
        Goto, Disturb, Calm, Fail, Abort, Wiped, Terminated, CleanupPhase, GiveUpProfile,
        request, boxVars, childVars
<1>1. CASE NewProfile
  BY <1>1 DEF NewProfile
<1>2. CASE PrepareStorage
  BY <1>2 DEF PrepareStorage
<1>3. CASE CreateSources
  BY <1>3 DEF CreateSources
<1>4. CASE CreateFallback
  BY <1>4 DEF CreateFallback
<1>5. CASE Launch
  BY <1>5 DEF Launch
<1>6. CASE Verify
  BY <1>6 DEF Verify
<1>7. CASE Send
  BY <1>7 DEF Send
<1>8. CASE Resume
  BY <1>8 DEF Resume
<1>9. CASE Poll
  BY <1>9 DEF Poll
<1>10. CASE Late
  BY <1>10 DEF Late
<1>11. CASE Monitor
  BY <1>11 DEF Monitor
<1>12. CASE Reap
  BY <1>12 DEF Reap
<1>13. CASE Final
  BY <1>13 DEF Final
<1>14. CASE Finish
  BY <1>14 DEF Finish
<1>15. CASE DeleteProfile
  BY <1>15 DEF DeleteProfile
<1>16. CASE UndoStorage
  BY <1>16 DEF UndoStorage, Remove
<1>17. CASE RemoveRoot
  BY <1>17 DEF RemoveRoot, Remove
<1>18. CASE RemoveSources
  BY <1>18 DEF RemoveSources, Remove
<1>19. CASE DropAgain
  BY <1>19 DEF DropAgain, Remove
<1>20. CASE WorkFails
  BY <1>20 DEF WorkFails
<1>21. CASE Fork
  BY <1>21 DEF Fork, CanFork
<1>22. CASE Write
  BY <1>22 DEF Write
<1>23. CASE Exit
  BY <1>23 DEF Exit
<1>24. CASE Die
  BY <1>24 DEF Die
<1>25. CASE Tick
  BY <1>25 DEF Tick
<1>26. CASE Crash
  BY <1>26 DEF Crash
<1>27. CASE UNCHANGED vars
  BY <1>27 DEF vars
<1> QED
  BY <1>1, <1>2, <1>3, <1>4, <1>5, <1>6, <1>7, <1>8, <1>9, <1>10, <1>11, <1>12, <1>13, <1>14,
     <1>15, <1>16, <1>17, <1>18, <1>19, <1>20, <1>21, <1>22, <1>23, <1>24, <1>25, <1>26, <1>27
     DEF Next, Parent

\* Only a run that is left is started.
LEMMA RunStep == Types /\ ChildInv /\ RunInv /\ [Next]_vars => RunInv'
<1> SUFFICES ASSUME Types, ChildInv, RunInv, [Next]_vars PROVE RunInv'
  OBVIOUS
<1> USE SandboxAssumption DEF Types, Counts, RunInv, ChildInv, Making, Preparing, Polling, Over, Ended,
        Goto, Disturb, Calm, Fail, Abort, Wiped, Terminated, CleanupPhase, GiveUpProfile,
        request, boxVars, childVars
<1>1. CASE NewProfile
  BY <1>1 DEF NewProfile
<1>2. CASE PrepareStorage
  BY <1>2 DEF PrepareStorage
<1>3. CASE CreateSources
  BY <1>3 DEF CreateSources
<1>4. CASE CreateFallback
  BY <1>4 DEF CreateFallback
<1>5. CASE Launch
  BY <1>5 DEF Launch
<1>6. CASE Verify
  BY <1>6 DEF Verify
<1>7. CASE Send
  BY <1>7 DEF Send
<1>8. CASE Resume
  BY <1>8 DEF Resume
<1>9. CASE Poll
  BY <1>9 DEF Poll
<1>10. CASE Late
  BY <1>10 DEF Late
<1>11. CASE Monitor
  BY <1>11 DEF Monitor
<1>12. CASE Reap
  BY <1>12 DEF Reap
<1>13. CASE Final
  BY <1>13 DEF Final
<1>14. CASE Finish
  BY <1>14 DEF Finish
<1>15. CASE DeleteProfile
  BY <1>15 DEF DeleteProfile
<1>16. CASE UndoStorage
  BY <1>16 DEF UndoStorage, Remove
<1>17. CASE RemoveRoot
  BY <1>17 DEF RemoveRoot, Remove
<1>18. CASE RemoveSources
  BY <1>18 DEF RemoveSources, Remove
<1>19. CASE DropAgain
  BY <1>19 DEF DropAgain, Remove
<1>20. CASE WorkFails
  BY <1>20 DEF WorkFails
<1>21. CASE Fork
  BY <1>21 DEF Fork, CanFork
<1>22. CASE Write
  BY <1>22 DEF Write
<1>23. CASE Exit
  BY <1>23 DEF Exit
<1>24. CASE Die
  BY <1>24 DEF Die
<1>25. CASE Tick
  BY <1>25 DEF Tick
<1>26. CASE Crash
  BY <1>26 DEF Crash
<1>27. CASE UNCHANGED vars
  BY <1>27 DEF vars
<1> QED
  BY <1>1, <1>2, <1>3, <1>4, <1>5, <1>6, <1>7, <1>8, <1>9, <1>10, <1>11, <1>12, <1>13, <1>14,
     <1>15, <1>16, <1>17, <1>18, <1>19, <1>20, <1>21, <1>22, <1>23, <1>24, <1>25, <1>26, <1>27
     DEF Next, Parent

\* The last failing attempt ends the attempts.
LEMMA AttemptStep == Types /\ ChildInv /\ AttemptInv /\ [Next]_vars => AttemptInv'
<1> SUFFICES ASSUME Types, ChildInv, AttemptInv, [Next]_vars PROVE AttemptInv'
  OBVIOUS
<1> USE SandboxAssumption DEF Types, Counts, AttemptInv, ChildInv, Making, Preparing, Polling, Over, Ended,
        Goto, Disturb, Calm, Fail, Abort, Wiped, Terminated, CleanupPhase, GiveUpProfile,
        request, boxVars, childVars
<1>1. CASE NewProfile
  BY <1>1 DEF NewProfile
<1>2. CASE PrepareStorage
  BY <1>2 DEF PrepareStorage
<1>3. CASE CreateSources
  BY <1>3 DEF CreateSources
<1>4. CASE CreateFallback
  BY <1>4 DEF CreateFallback
<1>5. CASE Launch
  BY <1>5 DEF Launch
<1>6. CASE Verify
  BY <1>6 DEF Verify
<1>7. CASE Send
  BY <1>7 DEF Send
<1>8. CASE Resume
  BY <1>8 DEF Resume
<1>9. CASE Poll
  BY <1>9 DEF Poll
<1>10. CASE Late
  BY <1>10 DEF Late
<1>11. CASE Monitor
  BY <1>11 DEF Monitor
<1>12. CASE Reap
  BY <1>12 DEF Reap
<1>13. CASE Final
  BY <1>13 DEF Final
<1>14. CASE Finish
  BY <1>14 DEF Finish
<1>15. CASE DeleteProfile
  BY <1>15 DEF DeleteProfile
<1>16. CASE UndoStorage
  BY <1>16 DEF UndoStorage, Remove
<1>17. CASE RemoveRoot
  BY <1>17 DEF RemoveRoot, Remove
<1>18. CASE RemoveSources
  BY <1>18 DEF RemoveSources, Remove
<1>19. CASE DropAgain
  BY <1>19 DEF DropAgain, Remove
<1>20. CASE WorkFails
  BY <1>20 DEF WorkFails
<1>21. CASE Fork
  BY <1>21 DEF Fork, CanFork
<1>22. CASE Write
  BY <1>22 DEF Write
<1>23. CASE Exit
  BY <1>23 DEF Exit
<1>24. CASE Die
  BY <1>24 DEF Die
<1>25. CASE Tick
  BY <1>25 DEF Tick
<1>26. CASE Crash
  BY <1>26 DEF Crash
<1>27. CASE UNCHANGED vars
  BY <1>27 DEF vars
<1> QED
  BY <1>1, <1>2, <1>3, <1>4, <1>5, <1>6, <1>7, <1>8, <1>9, <1>10, <1>11, <1>12, <1>13, <1>14,
     <1>15, <1>16, <1>17, <1>18, <1>19, <1>20, <1>21, <1>22, <1>23, <1>24, <1>25, <1>26, <1>27
     DEF Next, Parent

\* A successful run is within its limit, and stays so.
LEMMA LimitStep == Types /\ ChildInv /\ RunInv /\ LimitInv /\ [Next]_vars => LimitInv'
<1> SUFFICES ASSUME Types, ChildInv, RunInv, LimitInv, [Next]_vars PROVE LimitInv'
  OBVIOUS
<1> USE SandboxAssumption DEF Types, Flags, Counts, LimitInv, ChildInv, RunInv, Making, Preparing, Polling, Over, Ended,
        Goto, Disturb, Calm, Fail, Abort, Wiped, Terminated, CleanupPhase, GiveUpProfile,
        request, boxVars, childVars
<1>1. CASE NewProfile
  BY <1>1 DEF NewProfile
<1>2. CASE PrepareStorage
  BY <1>2 DEF PrepareStorage
<1>3. CASE CreateSources
  BY <1>3 DEF CreateSources
<1>4. CASE CreateFallback
  BY <1>4 DEF CreateFallback
<1>5. CASE Launch
  BY <1>5 DEF Launch
<1>6. CASE Verify
  BY <1>6 DEF Verify
<1>7. CASE Send
  BY <1>7 DEF Send
<1>8. CASE Resume
  BY <1>8 DEF Resume
<1>9. CASE Poll
  BY <1>9 DEF Poll
<1>10. CASE Late
  BY <1>10 DEF Late
<1>11. CASE Monitor
  BY <1>11 DEF Monitor
<1>12. CASE Reap
  BY <1>12 DEF Reap
<1>13. CASE Final
  BY <1>13 DEF Final
<1>14. CASE Finish
  BY <1>14 DEF Finish
<1>15. CASE DeleteProfile
  BY <1>15 DEF DeleteProfile
<1>16. CASE UndoStorage
  BY <1>16 DEF UndoStorage, Remove
<1>17. CASE RemoveRoot
  BY <1>17 DEF RemoveRoot, Remove
<1>18. CASE RemoveSources
  BY <1>18 DEF RemoveSources, Remove
<1>19. CASE DropAgain
  BY <1>19 DEF DropAgain, Remove
<1>20. CASE WorkFails
  BY <1>20 DEF WorkFails
<1>21. CASE Fork
  BY <1>21 DEF Fork, CanFork
<1>22. CASE Write
  BY <1>22 DEF Write
<1>23. CASE Exit
  BY <1>23 DEF Exit
<1>24. CASE Die
  BY <1>24 DEF Die
<1>25. CASE Tick
  BY <1>25 DEF Tick
<1>26. CASE Crash
  BY <1>26 DEF Crash
<1>27. CASE UNCHANGED vars
  BY <1>27 DEF vars
<1> QED
  BY <1>1, <1>2, <1>3, <1>4, <1>5, <1>6, <1>7, <1>8, <1>9, <1>10, <1>11, <1>12, <1>13, <1>14,
     <1>15, <1>16, <1>17, <1>18, <1>19, <1>20, <1>21, <1>22, <1>23, <1>24, <1>25, <1>26, <1>27
     DEF Next, Parent

\* The secret is kept until its own run.
LEMMA SecretStep == Types /\ SecretInv /\ [Next]_vars => SecretInv'
<1> SUFFICES ASSUME Types, SecretInv, [Next]_vars PROVE SecretInv'
  OBVIOUS
<1> USE SandboxAssumption DEF Types, Places, Counts, Secretive, SecretInv, Making, Preparing, Polling, Over, Ended,
        Goto, Disturb, Calm, Fail, Abort, Wiped, Terminated, CleanupPhase, GiveUpProfile,
        request, boxVars, childVars
<1>1. CASE NewProfile
  BY <1>1 DEF NewProfile
<1>2. CASE PrepareStorage
  BY <1>2 DEF PrepareStorage
<1>3. CASE CreateSources
  BY <1>3 DEF CreateSources
<1>4. CASE CreateFallback
  BY <1>4 DEF CreateFallback
<1>5. CASE Launch
  BY <1>5 DEF Launch
<1>6. CASE Verify
  BY <1>6 DEF Verify
<1>7. CASE Send
  BY <1>7 DEF Send
<1>8. CASE Resume
  BY <1>8 DEF Resume
<1>9. CASE Poll
  BY <1>9 DEF Poll
<1>10. CASE Late
  BY <1>10 DEF Late
<1>11. CASE Monitor
  BY <1>11 DEF Monitor
<1>12. CASE Reap
  BY <1>12 DEF Reap
<1>13. CASE Final
  BY <1>13 DEF Final
<1>14. CASE Finish
  BY <1>14 DEF Finish
<1>15. CASE DeleteProfile
  BY <1>15 DEF DeleteProfile
<1>16. CASE UndoStorage
  BY <1>16 DEF UndoStorage, Remove
<1>17. CASE RemoveRoot
  BY <1>17 DEF RemoveRoot, Remove
<1>18. CASE RemoveSources
  BY <1>18 DEF RemoveSources, Remove
<1>19. CASE DropAgain
  BY <1>19 DEF DropAgain, Remove
<1>20. CASE WorkFails
  BY <1>20 DEF WorkFails
<1>21. CASE Fork
  BY <1>21 DEF Fork, CanFork
<1>22. CASE Write
  BY <1>22 DEF Write
<1>23. CASE Exit
  BY <1>23 DEF Exit
<1>24. CASE Die
  BY <1>24 DEF Die
<1>25. CASE Tick
  BY <1>25 DEF Tick
<1>26. CASE Crash
  BY <1>26 DEF Crash
<1>27. CASE UNCHANGED vars
  BY <1>27 DEF vars
<1> QED
  BY <1>1, <1>2, <1>3, <1>4, <1>5, <1>6, <1>7, <1>8, <1>9, <1>10, <1>11, <1>12, <1>13, <1>14,
     <1>15, <1>16, <1>17, <1>18, <1>19, <1>20, <1>21, <1>22, <1>23, <1>24, <1>25, <1>26, <1>27
     DEF Next, Parent

\* Every object is removed or recorded.
LEMMA DiskStep == Types /\ ChildInv /\ DiskInv /\ [Next]_vars => DiskInv'
<1> SUFFICES ASSUME Types, ChildInv, DiskInv, [Next]_vars PROVE DiskInv'
  OBVIOUS
<1> USE SandboxAssumption DEF Types, Places, DiskInv, ChildInv, Making, Preparing, Polling, Over, Ended,
        Goto, Disturb, Calm, Fail, Abort, Wiped, Terminated, CleanupPhase, GiveUpProfile,
        request, boxVars, childVars
<1>1. CASE NewProfile
  BY <1>1 DEF NewProfile
<1>2. CASE PrepareStorage
  BY <1>2 DEF PrepareStorage
<1>3. CASE CreateSources
  BY <1>3 DEF CreateSources
<1>4. CASE CreateFallback
  BY <1>4 DEF CreateFallback
<1>5. CASE Launch
  BY <1>5 DEF Launch
<1>6. CASE Verify
  BY <1>6 DEF Verify
<1>7. CASE Send
  BY <1>7 DEF Send
<1>8. CASE Resume
  BY <1>8 DEF Resume
<1>9. CASE Poll
  BY <1>9 DEF Poll
<1>10. CASE Late
  BY <1>10 DEF Late
<1>11. CASE Monitor
  BY <1>11 DEF Monitor
<1>12. CASE Reap
  BY <1>12 DEF Reap
<1>13. CASE Final
  BY <1>13 DEF Final
<1>14. CASE Finish
  BY <1>14 DEF Finish
<1>15. CASE DeleteProfile
  BY <1>15 DEF DeleteProfile
<1>16. CASE UndoStorage
  BY <1>16 DEF UndoStorage, Remove
<1>17. CASE RemoveRoot
  <2>1. CASE mode = "AppContainer"
    <3>1. disk' \subseteq {"sources"} \cup unremoved' /\ mode' = mode
      BY <1>17, <2>1 DEF RemoveRoot, Remove
    <3>2. pc' = "parent"
      BY <1>17, <2>1 DEF RemoveRoot
    <3>3. disk' \subseteq {"profile", "storage", "sources"} \cup unremoved'
      BY <3>1
    <3> QED
      BY <2>1, <3>1, <3>2, <3>3
  <2>2. CASE mode = "Unsandboxed"
    <3>1. disk' \subseteq unremoved' /\ mode' = mode
      BY <1>17, <2>2 DEF RemoveRoot, Remove
    <3>2. pc' \in {"drop", "returned"}
      BY <1>17, <2>2 DEF RemoveRoot
    <3> QED
      BY <2>2, <3>1, <3>2
  <2> QED
    BY <1>17, <2>1, <2>2 DEF RemoveRoot
<1>18. CASE RemoveSources
  BY <1>18 DEF RemoveSources, Remove
<1>19. CASE DropAgain
  BY <1>19 DEF DropAgain, Remove
<1>20. CASE WorkFails
  BY <1>20 DEF WorkFails
<1>21. CASE Fork
  BY <1>21 DEF Fork, CanFork
<1>22. CASE Write
  BY <1>22 DEF Write
<1>23. CASE Exit
  BY <1>23 DEF Exit
<1>24. CASE Die
  BY <1>24 DEF Die
<1>25. CASE Tick
  BY <1>25 DEF Tick
<1>26. CASE Crash
  BY <1>26 DEF Crash
<1>27. CASE UNCHANGED vars
  BY <1>27 DEF vars
<1> QED
  BY <1>1, <1>2, <1>3, <1>4, <1>5, <1>6, <1>7, <1>8, <1>9, <1>10, <1>11, <1>12, <1>13, <1>14,
     <1>15, <1>16, <1>17, <1>18, <1>19, <1>20, <1>21, <1>22, <1>23, <1>24, <1>25, <1>26, <1>27
     DEF Next, Parent

\* What is recorded is told.
LEMMA ToldStep == Types /\ DiskInv /\ ToldInv /\ [Next]_vars => ToldInv'
<1> SUFFICES ASSUME Types, DiskInv, ToldInv, [Next]_vars PROVE ToldInv'
  OBVIOUS
<1> USE SandboxAssumption DEF Types, Flags, Places, DiskInv, ToldInv, Making, Preparing, Polling, Over, Ended,
        Goto, Disturb, Calm, Fail, Abort, Wiped, Terminated, CleanupPhase, GiveUpProfile,
        request, boxVars, childVars
<1>1. CASE NewProfile
  BY <1>1 DEF NewProfile
<1>2. CASE PrepareStorage
  BY <1>2 DEF PrepareStorage
<1>3. CASE CreateSources
  BY <1>3 DEF CreateSources
<1>4. CASE CreateFallback
  BY <1>4 DEF CreateFallback
<1>5. CASE Launch
  BY <1>5 DEF Launch
<1>6. CASE Verify
  BY <1>6 DEF Verify
<1>7. CASE Send
  BY <1>7 DEF Send
<1>8. CASE Resume
  BY <1>8 DEF Resume
<1>9. CASE Poll
  BY <1>9 DEF Poll
<1>10. CASE Late
  BY <1>10 DEF Late
<1>11. CASE Monitor
  BY <1>11 DEF Monitor
<1>12. CASE Reap
  BY <1>12 DEF Reap
<1>13. CASE Final
  BY <1>13 DEF Final
<1>14. CASE Finish
  BY <1>14 DEF Finish
<1>15. CASE DeleteProfile
  BY <1>15 DEF DeleteProfile
<1>16. CASE UndoStorage
  BY <1>16 DEF UndoStorage, Remove
<1>17. CASE RemoveRoot
  BY <1>17 DEF RemoveRoot, Remove
<1>18. CASE RemoveSources
  BY <1>18 DEF RemoveSources, Remove
<1>19. CASE DropAgain
  BY <1>19 DEF DropAgain, Remove
<1>20. CASE WorkFails
  BY <1>20 DEF WorkFails
<1>21. CASE Fork
  BY <1>21 DEF Fork, CanFork
<1>22. CASE Write
  BY <1>22 DEF Write
<1>23. CASE Exit
  BY <1>23 DEF Exit
<1>24. CASE Die
  BY <1>24 DEF Die
<1>25. CASE Tick
  BY <1>25 DEF Tick
<1>26. CASE Crash
  BY <1>26 DEF Crash
<1>27. CASE UNCHANGED vars
  BY <1>27 DEF vars
<1> QED
  BY <1>1, <1>2, <1>3, <1>4, <1>5, <1>6, <1>7, <1>8, <1>9, <1>10, <1>11, <1>12, <1>13, <1>14,
     <1>15, <1>16, <1>17, <1>18, <1>19, <1>20, <1>21, <1>22, <1>23, <1>24, <1>25, <1>26, <1>27
     DEF Next, Parent

\* The conjunction is inductive.
LEMMA NextIInv == IInv /\ [Next]_vars => IInv'
  BY FlagsStep, PlacesStep, CountsStep, ChildStep, RunStep, AttemptStep, LimitStep,
     SecretStep, DiskStep, ToldStep
  DEF IInv, Types

\* The invariant holds in every reachable state.
THEOREM Inductive == Spec => []IInv
  BY InitIInv, NextIInv, PTL DEF Spec

-----------------------------------------------------------------------------
\* Every variable keeps its type.
THEOREM SandboxTypeCorrect == Spec => []TypeOK
<1>1. IInv => TypeOK
  BY DEF IInv, Types, Flags, Places, Counts, TypeOK
<1> QED
  BY Inductive, <1>1, PTL

\* In every run a backend in an AppContainer executes only after
\* verify_process_isolation found its own token isolated.
THEOREM IsolationPrecedesExecution == Spec => []RunsOnlyIsolated
<1>1. IInv => RunsOnlyIsolated
  BY DEF IInv, ChildInv, RunsOnlyIsolated
<1> QED
  BY Inductive, <1>1, PTL

\* A successful run leaves the tree within its limits, for any backend.
THEOREM SuccessIsLimited == Spec => []SuccessIsWithinLimits
<1>1. IInv => SuccessIsWithinLimits
  BY DEF IInv, LimitInv, SuccessIsWithinLimits
<1> QED
  BY Inductive, <1>1, PTL

\* No return and no crash leaves a backend executing outside a dying job.
THEOREM OrphanFree == Spec => []NoOrphan
<1>1. IInv => NoOrphan
  BY DEF IInv, ChildInv, NoOrphan, Ended, Preparing, Polling
<1> QED
  BY Inductive, <1>1, PTL

\* Both: the backend of an AppContainer is confined as long as it lives.
THEOREM BackendConfined == Spec => []Confined
<1>1. RunsOnlyIsolated /\ NoOrphan => Confined
  BY DEF Confined
<1> QED
  BY IsolationPrecedesExecution, OrphanFree, <1>1, PTL

\* What an operation leaves is what could not be removed, and is reported.
THEOREM LeftoversReported == Spec => []LeftoversAreReported
<1>1. IInv => LeftoversAreReported
  <2> SUFFICES ASSUME IInv, pc = "returned" PROVE LeftoversAreReported
    BY DEF LeftoversAreReported
  <2>1. disk \subseteq unremoved
    BY DEF IInv, DiskInv
  <2>2. disk # {} => failed \/ warned
    BY <2>1 DEF IInv, ToldInv
  <2> QED
    BY <2>1, <2>2 DEF LeftoversAreReported
<1> QED
  BY Inductive, <1>1, PTL

\* SandboxRun implements OneUseSecret: the password is sent at most once, to a
\* suspended child whose isolation was verified, and is wiped otherwise.
THEOREM SecretRefinement == Spec => SecretIsOneUse
<1>1. Init => S!Init
  BY DEF Init, S!Init
<1>2. IInv /\ [Next]_vars => [S!Next]_(S!vars)
  <2> SUFFICES ASSUME IInv, [Next]_vars PROVE [S!Next]_(S!vars)
    OBVIOUS
  <2> USE DEF S!Next, S!Proceed, S!Wipe, S!Send, S!vars
  <2>1. CASE NewProfile
    BY <2>1 DEF NewProfile, Fail, Abort, Wiped, GiveUpProfile
  <2>2. CASE PrepareStorage
    BY <2>2 DEF PrepareStorage, Fail, Abort, Wiped, GiveUpProfile
  <2>3. CASE CreateSources
    BY <2>3 DEF CreateSources, Fail, Abort, Wiped, GiveUpProfile
  <2>4. CASE CreateFallback
    BY <2>4 DEF CreateFallback, Fail, Abort, Wiped, GiveUpProfile
  <2>5. CASE Launch
    BY <2>5 DEF Launch, Fail, Abort, Wiped, GiveUpProfile
  <2>6. CASE Verify
    BY <2>6 DEF Verify, Fail, Abort, Wiped, GiveUpProfile
  <2>7. CASE Send
    <3>1. CASE secret' = "sent" /\ UNCHANGED child
      <4>1. pc = "send" /\ UNCHANGED verified
        BY <2>7 DEF Send, childVars
      <4>2. secret = "held" /\ child = "suspended" /\ verified
        BY <4>1, SandboxAssumption
        DEF IInv, Types, Counts, ChildInv, SecretInv, Secretive, Preparing
      <4> QED
        BY <3>1, <4>1, <4>2
    <3>2. CASE Abort
      BY <3>2 DEF Abort, Wiped
    <3> QED
      BY <2>7, <3>1, <3>2 DEF Send
  <2>8. CASE Resume
    BY <2>8 DEF Resume, Fail, Abort, Wiped, GiveUpProfile
  <2>9. CASE Poll
    BY <2>9 DEF Poll, Fail, Abort, Wiped, GiveUpProfile
  <2>10. CASE Late
    BY <2>10 DEF Late, Fail, Abort, Wiped, GiveUpProfile
  <2>11. CASE Monitor
    BY <2>11 DEF Monitor, Fail, Abort, Wiped, GiveUpProfile
  <2>12. CASE Reap
    BY <2>12 DEF Reap, Fail, Abort, Wiped, GiveUpProfile
  <2>13. CASE Final
    BY <2>13 DEF Final, Fail, Abort, Wiped, GiveUpProfile
  <2>14. CASE Finish
    BY <2>14 DEF Finish, Fail, Abort, Wiped, GiveUpProfile
  <2>15. CASE DeleteProfile
    BY <2>15 DEF DeleteProfile, Fail, Abort, Wiped, GiveUpProfile
  <2>16. CASE UndoStorage
    BY <2>16 DEF UndoStorage, Fail, Abort, Wiped, GiveUpProfile
  <2>17. CASE RemoveRoot
    BY <2>17 DEF RemoveRoot, Fail, Abort, Wiped, GiveUpProfile
  <2>18. CASE RemoveSources
    BY <2>18 DEF RemoveSources, Fail, Abort, Wiped, GiveUpProfile
  <2>19. CASE DropAgain
    BY <2>19 DEF DropAgain, Fail, Abort, Wiped, GiveUpProfile
  <2>20. CASE WorkFails
    BY <2>20 DEF WorkFails, Fail, Abort, Wiped, GiveUpProfile
  <2>21. CASE Fork
    BY <2>21 DEF Fork, Fail, Abort, Wiped, GiveUpProfile
  <2>22. CASE Write
    BY <2>22 DEF Write, Fail, Abort, Wiped, GiveUpProfile
  <2>23. CASE Exit
    BY <2>23 DEF Exit, Fail, Abort, Wiped, GiveUpProfile
  <2>24. CASE Die
    BY <2>24 DEF Die, Fail, Abort, Wiped, GiveUpProfile
  <2>25. CASE Tick
    BY <2>25 DEF Tick, Fail, Abort, Wiped, GiveUpProfile
  <2>26. CASE Crash
    BY <2>26 DEF Crash, Fail, Abort, Wiped, GiveUpProfile
  <2>27. CASE UNCHANGED vars
    BY <2>27 DEF vars, childVars
  <2> QED
    BY <2>1, <2>2, <2>3, <2>4, <2>5, <2>6, <2>7, <2>8, <2>9, <2>10, <2>11, <2>12, <2>13, <2>14,
       <2>15, <2>16, <2>17, <2>18, <2>19, <2>20, <2>21, <2>22, <2>23, <2>24, <2>25, <2>26, <2>27
       DEF Next, Parent
<1> QED
  BY Inductive, <1>1, <1>2, PTL DEF Spec, SecretIsOneUse, S!Spec
=============================================================================
