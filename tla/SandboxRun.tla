----------------------------- MODULE SandboxRun -----------------------------
(***************************************************************************)
(* One Sandbox from Sandbox::new to its clean-up, with the backend         *)
(* processes it runs: src/src/platform/windows_impl.rs and generic.rs.     *)
(* The parent, the child, the clock and the operating system that ends a   *)
(* terminated process take steps of their own.                             *)
(***************************************************************************)
EXTENDS Naturals

CONSTANTS
    Runs,           \* the backend processes one operation starts
    Budget,         \* what one run may add to the tree (files, bytes, ...)
    MaxUsage,       \* bound on what the backend writes
    Attempts,       \* APP_CONTAINER_PROFILE_DELETE_ATTEMPTS, made small
    MaxDisturbances \* bound on failing calls, slow kernels and crashes

ASSUME SandboxAssumption ==
    /\ Runs \in Nat \ {0}
    /\ Budget \in Nat
    /\ MaxUsage \in Nat
    /\ Attempts \in Nat \ {0}
    /\ MaxDisturbances \in Nat

\* What an operation leaves on the machine until it is removed: the profile,
\* its storage, the directory of the sealed sources, the unsandboxed root.
Object == {"profile", "storage", "sources", "fallback"}

Phase == {"new", "storage", "undo_profile", "undo_storage", "fallback", "sources",
          "idle", "verify", "send", "resume", "poll", "late", "monitor", "final",
          "reap", "profile", "root", "parent", "drop", "returned", "crashed"}

Ended == {"returned", "crashed"}

VARIABLES
    windows,    \* whether this is the Windows build
    allow,      \* --allow-unsandboxed
    secretRun,  \* the run that is given the password; 0 if there is none
    mode,       \* the Mode of the sandbox, kept after it is taken
    disk,       \* the objects that exist
    run,        \* how many runs have succeeded
    child,      \* the backend process
    stray,      \* whether a descendant of it is alive
    verified,   \* whether this child's token was found isolated
    secret,     \* where the password is
    usage,      \* what monitor::check_resource_limits measures
    limit,      \* the limit of this run: the baseline and the budget
    elapsed,    \* whether the timeout of this run has passed
    attempts,   \* failed attempts to delete the profile
    failed,     \* whether the operation, or its clean-up, returns an error
    warned,     \* whether creation errors were only printed
    unremoved,  \* the objects whose removal failed
    pc,
    disturbances

request == <<windows, allow, secretRun>>
boxVars == <<mode, disk, attempts, warned, unremoved>>
childVars == <<child, stray, verified, usage, limit, elapsed>>
vars == <<request, run, boxVars, childVars, secret, failed, pc, disturbances>>

-----------------------------------------------------------------------------
Goto(phase) == pc' = phase

Disturb == disturbances < MaxDisturbances /\ disturbances' = disturbances + 1

Calm == UNCHANGED disturbances

Alive == child \in {"suspended", "running", "dying"} \/ stray

\* Closing or terminating the job ends every process in it.
Terminated == IF child \in {"suspended", "running"} THEN "dying" ELSE child

\* A password that was not sent is zeroized when its owner is dropped.
Wiped == IF secret = "held" THEN "wiped" ELSE secret

\* Where cleanup_inner starts: the profile first, or the only directory.
CleanupPhase == IF mode = "AppContainer" THEN "profile" ELSE "root"

\* fail_after_cleanup: the error is kept, the clean-up begins.
Fail == failed' = TRUE /\ secret' = Wiped /\ Goto(CleanupPhase)

Init ==
    /\ windows \in BOOLEAN
    /\ allow \in BOOLEAN
    /\ secretRun \in 0 .. Runs
    /\ mode = "none"
    /\ disk = {}
    /\ run = 0
    /\ child = "none"
    /\ stray = FALSE
    /\ verified = FALSE
    /\ secret = IF secretRun = 0 THEN "absent" ELSE "held"
    /\ usage = 0
    /\ limit = 0
    /\ elapsed = FALSE
    /\ attempts = 0
    /\ failed = FALSE
    /\ warned = FALSE
    /\ unremoved = {}
    /\ pc = "new"
    /\ disturbances = 0

-----------------------------------------------------------------------------
(* Sandbox::new *)

\* Without a profile the operation falls back to no sandbox, if it may.
GiveUpProfile ==
    IF allow THEN Goto("fallback") /\ UNCHANGED <<failed, secret>>
             ELSE Goto("returned") /\ failed' = TRUE /\ secret' = Wiped

NewProfile ==
    /\ pc = "new"
    /\ \/ /\ windows
          /\ disk' = disk \cup {"profile"}
          /\ Goto("storage")
          /\ Calm
          /\ UNCHANGED <<warned, failed, secret>>
       \/ /\ windows
          /\ GiveUpProfile
          /\ warned' = allow
          /\ Disturb
          /\ UNCHANGED disk
       \/ /\ ~windows
          /\ GiveUpProfile
          /\ Calm
          /\ UNCHANGED <<disk, warned>>
    /\ UNCHANGED <<request, run, mode, attempts, unremoved, childVars>>

\* The storage of the profile; if it cannot be used, the profile is undone.
PrepareStorage ==
    /\ pc = "storage"
    /\ \/ /\ disk' = disk \cup {"storage"}
          /\ mode' = "AppContainer"
          /\ Goto("sources")
          /\ Calm
       \/ /\ disk' \in {disk, disk \cup {"storage"}}
          /\ Goto("undo_profile")
          /\ Disturb
          /\ UNCHANGED mode
    /\ UNCHANGED <<request, run, attempts, warned, unremoved, childVars,
                   secret, failed>>

CreateSources ==
    /\ pc = "sources"
    /\ \/ /\ disk' = disk \cup {"sources"}
          /\ Goto("idle")
          /\ Calm
          /\ UNCHANGED <<failed, secret>>
       \/ /\ disk' \in {disk, disk \cup {"sources"}}
          /\ Fail
          /\ Disturb
    /\ UNCHANGED <<request, run, mode, attempts, warned, unremoved, childVars>>

CreateFallback ==
    /\ pc = "fallback"
    /\ \/ /\ disk' = disk \cup {"fallback"}
          /\ mode' = "Unsandboxed"
          /\ Goto("idle")
          /\ Calm
          /\ UNCHANGED <<failed, secret>>
       \/ /\ failed' = TRUE
          /\ secret' = Wiped
          /\ Goto("returned")
          /\ Disturb
          /\ UNCHANGED <<disk, mode>>
    /\ UNCHANGED <<request, run, attempts, warned, unremoved, childVars>>

-----------------------------------------------------------------------------
(* Sandbox::run *)

\* What the caller does before, between and after its runs can fail.
WorkFails ==
    /\ pc = "idle"
    /\ Fail
    /\ Disturb
    /\ UNCHANGED <<request, run, boxVars, childVars>>

Secretive == secretRun = run + 1

\* A fault: the password is sent before the token is checked.
LaunchSending ==
    /\ pc = "idle"
    /\ run < Runs
    /\ mode # "Unsandboxed" \/ ~Secretive
    /\ child' = IF mode = "AppContainer" THEN "suspended" ELSE "running"
    /\ Goto(IF mode # "AppContainer" THEN "poll" ELSE IF Secretive THEN "send" ELSE "verify")
    /\ verified' = FALSE
    /\ limit' = usage + Budget
    /\ elapsed' = FALSE
    /\ UNCHANGED <<request, run, boxVars, stray, usage, failed, secret,
                   disturbances>>

\* A fault: no CREATE_SUSPENDED.
LaunchRunning ==
    /\ pc = "idle"
    /\ run < Runs
    /\ mode # "Unsandboxed" \/ ~Secretive
    /\ child' = "running"
    /\ Goto(IF mode = "AppContainer" THEN "verify" ELSE "poll")
    /\ verified' = FALSE
    /\ limit' = usage + Budget
    /\ elapsed' = FALSE
    /\ UNCHANGED <<request, run, boxVars, stray, usage, failed, secret,
                   disturbances>>

Launch ==
    /\ pc = "idle"
    /\ run < Runs
    /\ \/ /\ mode = "AppContainer"
          /\ child' = "suspended"
          /\ Goto("verify")
          /\ Calm
          /\ UNCHANGED <<failed, secret>>
       \/ /\ mode = "Unsandboxed"
          /\ ~Secretive
          /\ child' = "running"
          /\ Goto("poll")
          /\ Calm
          /\ UNCHANGED <<failed, secret>>
       \/ /\ mode = "Unsandboxed"
          /\ Secretive
          /\ Fail
          /\ Calm
          /\ UNCHANGED child
       \/ /\ Fail
          /\ Disturb
          /\ UNCHANGED child
    /\ verified' = FALSE
    /\ limit' = usage + Budget
    /\ elapsed' = FALSE
    /\ UNCHANGED <<request, run, boxVars, stray, usage>>

\* TerminateJobObject, and then the wait for the process.
Abort == /\ child' = Terminated
         /\ failed' = TRUE
         /\ secret' = Wiped
         /\ Goto("reap")

Verify ==
    /\ pc = "verify"
    /\ \/ /\ verified' = TRUE
          /\ Goto(IF Secretive THEN "send" ELSE "resume")
          /\ Calm
          /\ UNCHANGED <<child, failed, secret>>
       \/ /\ Abort
          /\ Disturb
          /\ UNCHANGED verified
    /\ UNCHANGED <<request, run, boxVars, stray, usage, limit, elapsed>>

Send ==
    /\ pc = "send"
    /\ \/ /\ secret' = "sent"
          /\ Goto("resume")
          /\ Calm
          /\ UNCHANGED <<child, failed>>
       \/ Abort /\ Disturb
    /\ UNCHANGED <<request, run, boxVars, stray, verified, usage, limit, elapsed>>

Resume ==
    /\ pc = "resume"
    /\ \/ /\ child' = "running"
          /\ Goto("poll")
          /\ Calm
          /\ UNCHANGED <<failed, secret>>
       \/ Abort /\ Disturb
    /\ UNCHANGED <<request, run, boxVars, stray, verified, usage, limit, elapsed>>

\* A fault: an error of the query returns without ending the job.
PollLeaving ==
    /\ pc = "poll"
    /\ \/ /\ Goto(IF child = "gone" THEN "final" ELSE "late")
          /\ Calm
          /\ UNCHANGED <<failed, secret>>
       \/ Fail /\ Disturb
    /\ UNCHANGED <<request, run, boxVars, childVars>>

\* One turn of the loop: has the process ended, has its time passed, is the
\* tree still within its limits?  Asking can fail.
Poll ==
    /\ pc = "poll"
    /\ \/ /\ Goto(IF child = "gone" THEN "final" ELSE "late")
          /\ Calm
          /\ UNCHANGED <<child, failed, secret>>
       \/ /\ Fail
          /\ Disturb
          /\ child' = IF mode = "AppContainer" THEN Terminated ELSE child
    /\ UNCHANGED <<request, run, boxVars, stray, verified, usage, limit, elapsed>>

Late ==
    /\ pc = "late"
    /\ IF elapsed THEN Abort ELSE Goto("monitor") /\ UNCHANGED <<child, failed, secret>>
    /\ UNCHANGED <<request, run, boxVars, stray, verified, usage, limit,
                   elapsed, disturbances>>

Monitor ==
    /\ pc = "monitor"
    /\ IF usage > limit THEN Abort ELSE Goto("poll") /\ UNCHANGED <<child, failed, secret>>
    /\ UNCHANGED <<request, run, boxVars, stray, verified, usage, limit,
                   elapsed, disturbances>>

\* WaitForSingleObject gives the process five seconds; Child::wait waits on.
Reap ==
    /\ pc = "reap"
    /\ \/ child = "gone" /\ Calm
       \/ child # "gone" /\ mode = "AppContainer" /\ Disturb
    /\ Goto(CleanupPhase)
    /\ UNCHANGED <<request, run, boxVars, childVars, secret, failed>>

\* A fault: the limits are not checked after the exit.
FinalUnchecked ==
    /\ pc = "final"
    /\ \/ run' = run + 1 /\ Goto("idle") /\ UNCHANGED <<failed, secret>>
       \/ Fail /\ UNCHANGED run
    /\ UNCHANGED <<request, boxVars, childVars, disturbances>>

\* The process has ended: the last check of the limits, then its exit code.
Final ==
    /\ pc = "final"
    /\ \/ /\ usage <= limit
          /\ run' = run + 1
          /\ Goto("idle")
          /\ UNCHANGED <<failed, secret>>
       \/ Fail /\ UNCHANGED run
    /\ UNCHANGED <<request, boxVars, childVars, disturbances>>

-----------------------------------------------------------------------------
(* Sandbox::cleanup, and the undoing of a profile that could not be used. *)

Finish ==
    /\ pc = "idle"
    /\ run = Runs
    /\ Goto(CleanupPhase)
    /\ UNCHANGED <<request, run, boxVars, childVars, secret, failed, disturbances>>

\* A fault: the first failure ends the clean-up.
DeleteProfileOrReturn ==
    LET next == IF pc = "profile" THEN "root" ELSE "undo_storage" IN
    /\ pc \in {"profile", "undo_profile"}
    /\ \/ disk' = disk \ {"profile"} /\ Goto(next) /\ Calm /\ UNCHANGED <<failed, unremoved>>
       \/ /\ Disturb
          /\ unremoved' = unremoved \cup {"profile"}
          /\ failed' = TRUE
          /\ Goto(IF pc = "profile" THEN "returned" ELSE next)
          /\ UNCHANGED disk
    /\ UNCHANGED <<request, run, mode, attempts, warned, childVars, secret>>

\* An attempt that fails is repeated; the last one is an error.
DeleteProfile ==
    LET next == IF pc = "profile" THEN "root" ELSE "undo_storage" IN
    /\ pc \in {"profile", "undo_profile"}
    /\ \/ /\ disk' = disk \ {"profile"}
          /\ Goto(next)
          /\ Calm
          /\ UNCHANGED <<attempts, failed, unremoved>>
       \/ /\ IF Alive THEN Calm ELSE Disturb
          /\ attempts' = attempts + 1
          /\ IF attempts + 1 < Attempts
             THEN UNCHANGED <<pc, failed, unremoved>>
             ELSE /\ unremoved' = unremoved \cup {"profile"}
                  /\ failed' = (failed \/ pc = "profile")
                  /\ Goto(next)
          /\ UNCHANGED disk
    /\ UNCHANGED <<request, run, mode, warned, childVars, secret>>

\* remove_dir_all of an object and what comes of it.  A live process holds
\* its working directory on Windows, and elsewhere may add to the tree.
InUse(object) == Alive /\ object # "sources"

Remove(object) ==
    \/ /\ ~(windows /\ InUse(object))
       /\ disk' = disk \ {object}
       /\ Calm
       /\ UNCHANGED unremoved
    \/ /\ IF InUse(object) THEN Calm ELSE Disturb
       /\ object \in disk
       /\ unremoved' = unremoved \cup {object}
       /\ UNCHANGED disk

UndoStorage ==
    /\ pc = "undo_storage"
    /\ Remove("storage")
    /\ GiveUpProfile
    /\ warned' = allow
    /\ UNCHANGED <<request, run, mode, attempts, childVars>>

RemoveRoot ==
    /\ pc = "root"
    /\ Remove(IF mode = "AppContainer" THEN "storage" ELSE "fallback")
    /\ failed' = (failed \/ unremoved' # unremoved)
    /\ Goto(IF mode = "AppContainer" THEN "parent"
            ELSE IF windows THEN "returned" ELSE "drop")
    /\ UNCHANGED <<request, run, mode, attempts, warned, childVars, secret>>

RemoveSources ==
    /\ pc = "parent"
    /\ Remove("sources")
    /\ failed' = (failed \/ unremoved' # unremoved)
    /\ Goto("returned")
    /\ UNCHANGED <<request, run, mode, attempts, warned, childVars, secret>>

\* Elsewhere than on Windows, drop removes the directory once more, silently.
DropAgain ==
    /\ pc = "drop"
    /\ Remove("fallback")
    /\ Goto("returned")
    /\ UNCHANGED <<request, run, mode, attempts, warned, childVars, secret, failed>>

-----------------------------------------------------------------------------
(* The backend, the clock and the system. *)

\* A fault: no limit on the processes of the job.
CanForkAlways == TRUE

\* The job allows one process.
CanFork == mode = "Unsandboxed"

Fork ==
    /\ child = "running"
    /\ CanFork
    /\ stray' = TRUE
    /\ UNCHANGED <<request, run, boxVars, child, verified, usage, limit,
                   elapsed, secret, failed, pc, disturbances>>

Write ==
    /\ child \in {"running", "dying"} \/ stray
    /\ usage < MaxUsage
    /\ usage' = usage + 1
    /\ UNCHANGED <<request, run, boxVars, child, stray, verified, limit,
                   elapsed, secret, failed, pc, disturbances>>

Exit ==
    /\ child = "running"
    /\ child' = "gone"
    /\ UNCHANGED <<request, run, boxVars, stray, verified, usage, limit,
                   elapsed, secret, failed, pc, disturbances>>

\* The end of a terminated process.
Die ==
    /\ child = "dying"
    /\ child' = "gone"
    /\ UNCHANGED <<request, run, boxVars, stray, verified, usage, limit,
                   elapsed, secret, failed, pc, disturbances>>

Tick ==
    /\ pc \in {"poll", "late", "monitor"}
    /\ ~elapsed
    /\ elapsed' = TRUE
    /\ UNCHANGED <<request, run, boxVars, child, stray, verified, usage,
                   limit, secret, failed, pc, disturbances>>

\* The parent is killed: its memory and its handles, the job's too, are gone.
Crash ==
    /\ pc \notin Ended
    /\ Disturb
    /\ child' = IF mode = "AppContainer" THEN Terminated ELSE child
    /\ secret' = Wiped
    /\ Goto("crashed")
    /\ UNCHANGED <<request, run, boxVars, stray, verified, usage, limit,
                   elapsed, failed>>

-----------------------------------------------------------------------------
Parent ==
    \/ NewProfile \/ PrepareStorage \/ CreateSources \/ CreateFallback
    \/ Launch \/ Verify \/ Send \/ Resume \/ Poll \/ Late \/ Monitor \/ Reap \/ Final
    \/ Finish \/ DeleteProfile \/ UndoStorage \/ RemoveRoot \/ RemoveSources \/ DropAgain

Next == Parent \/ WorkFails \/ Fork \/ Write \/ Exit \/ Die \/ Tick \/ Crash

Spec == Init /\ [][Next]_vars

\* The parent is a sequential call, time passes, and a terminated process ends.
\* Nothing is assumed of the backend.
FairSpec == Spec /\ WF_vars(Parent) /\ WF_vars(Tick) /\ WF_vars(Die)

-----------------------------------------------------------------------------
TypeOK ==
    /\ windows \in BOOLEAN
    /\ allow \in BOOLEAN
    /\ secretRun \in 0 .. Runs
    /\ mode \in {"none", "AppContainer", "Unsandboxed"}
    /\ disk \subseteq Object
    /\ run \in 0 .. Runs
    /\ child \in {"none", "suspended", "running", "dying", "gone"}
    /\ stray \in BOOLEAN
    /\ verified \in BOOLEAN
    /\ secret \in {"absent", "held", "sent", "wiped"}
    /\ usage \in Nat
    /\ limit \in Nat
    /\ elapsed \in BOOLEAN
    /\ attempts \in 0 .. Attempts
    /\ failed \in BOOLEAN
    /\ warned \in BOOLEAN
    /\ unremoved \subseteq Object
    /\ pc \in Phase
    /\ disturbances \in Nat

\* The backend executes nothing in an AppContainer before its own token was
\* found isolated, in the second run as in the first (verify_process_isolation
\* between CREATE_SUSPENDED and ResumeThread).
RunsOnlyIsolated ==
    mode = "AppContainer" /\ child = "running" => verified

\* After a run that succeeded the tree is within that run's limits, although
\* it is measured every 200 ms only: nothing is left that could still write.
SuccessIsWithinLimits ==
    mode = "AppContainer" /\ pc = "idle" /\ run > 0 => usage <= limit

\* However the operation ends, killed or by an error of a query, no backend
\* process is left executing outside a terminated job.
NoOrphan ==
    mode = "AppContainer" /\ pc \in Ended =>
        child \notin {"suspended", "running"} /\ ~stray

\* A backend is confined as long as it lives: it executes nothing before the
\* isolation check and nothing after the operation.
Confined == RunsOnlyIsolated /\ NoOrphan

\* When an operation returns, what is left on the machine are exactly objects
\* whose own removal failed (one failure does not skip the other removals),
\* and nothing is left behind a success that printed no warning.
LeftoversAreReported ==
    pc = "returned" =>
        /\ disk \subseteq unremoved
        /\ disk # {} => failed \/ warned

\* Every operation ends, also one whose backend never exits, and no process of
\* a sandboxed operation outlives it for good.
EverythingEnds ==
    /\ <>(pc \in Ended)
    /\ []((mode = "AppContainer" /\ pc \in Ended) => <>(child \in {"none", "gone"}))

-----------------------------------------------------------------------------
(* SandboxRun implements OneUseSecret. *)

S == INSTANCE OneUseSecret WITH
        child <- CASE child = "none" -> "none"
                   [] child = "suspended" /\ verified -> "checked"
                   [] OTHER -> "other"

SecretIsOneUse == S!Spec
=============================================================================
