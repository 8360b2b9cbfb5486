----------------------------- MODULE Extraction -----------------------------
(***************************************************************************)
(* One extraction, from the archive to the published tree: extract of      *)
(* src/src/extract.rs around stage_archive of src/src/staging.rs.  Two     *)
(* backend processes read the archive: the first lists it, the second      *)
(* extracts it.  A hostile archive may take over either of them.           *)
(* SandboxRun models what starts and ends the two processes, CommitTree    *)
(* how commit_tree publishes; here it is an action of Publication.         *)
(***************************************************************************)
EXTENDS Naturals

CONSTANTS
    Self,           \* this extraction
    Target,         \* its destination
    Archive,        \* the contents an archive file may have
    Hostile,        \* those that may take over a process that reads them
    Listable,       \* those whose listing passes validate_archive_listing
    Tree,           \* the trees a directory may hold
    EmptyTree,      \* the directory with no entry
    Clean,          \* those that pass audit_tree
    Yields,         \* the tree an archive is extracted to
    Selection,      \* the part of a tree that the selectors name
    Other,          \* whoever else creates a directory at the destination
    Nothing,        \* no file, no tree
    MaxDisturbances \* bound on failing steps, crashes and rewritten inputs

ASSUME ExtractionAssumption ==
    /\ Hostile \subseteq Archive
    /\ Listable \subseteq Archive
    /\ Nothing \notin Archive \cup Tree
    /\ EmptyTree \in Tree
    /\ Clean \subseteq Tree
    /\ Yields \in [Archive -> Tree \cup {Nothing}]
    /\ Selection \in [Tree -> Tree \cup {Nothing}]
    /\ Nothing \notin [by : {Self, Other}, tree : Tree]
    /\ Self # Other
    /\ MaxDisturbances \in Nat

\* The phases in which the parent works, in order, and those it ends in.
Reading == {"listing", "listed", "fresh", "extracting"}
Staged == {"extracted", "select", "commit", "publish"}
Staging == {"open", "guard", "sandbox", "backend", "input"} \cup Reading \cup Staged

Ended == {"returned", "crashed"}

Phase == Staging \cup {"finish", "show", "cleanup"} \cup Ended

Pass == {"listing", "extracting"}

VARIABLES
    input,       \* what the user's archive file holds
    selective,   \* whether entries were selected
    snapshot,    \* what it held when it was opened and hashed
    sandboxed,   \* whether the sandbox is an AppContainer
    backend,     \* backend/ in the sandbox: missing, pinned or altered
    archive,     \* input/archive.bin in the sandbox
    output,      \* output/ in the sandbox
    selected,    \* selected/ in the sandbox
    compromised, \* the passes whose process was taken over
    failed,      \* whether an error is returned
    pc,
    disturbances,
    dest, payload, outcome  \* see Publication

request == <<input, selective, snapshot, sandboxed>>
workspace == <<backend, archive, output, selected, compromised>>
publication == <<dest, payload, outcome>>
vars == <<request, workspace, publication, failed, pc, disturbances>>

P == INSTANCE Publication WITH Publisher <- {Self}, Destination <- {Target}

-----------------------------------------------------------------------------
Init ==
    /\ input \in Archive
    /\ selective \in BOOLEAN
    /\ snapshot = Nothing
    /\ sandboxed \in BOOLEAN
    /\ backend = "missing"
    /\ archive = Nothing
    /\ output = Nothing
    /\ selected = Nothing
    /\ compromised = {}
    /\ failed = FALSE
    /\ pc = "open"
    /\ disturbances = 0
    /\ P!Init

Goto(phase) == pc' = phase

Disturb == disturbances < MaxDisturbances /\ disturbances' = disturbances + 1

\* The error is kept and the sandbox removed; nothing has been published.
Fail == failed' = TRUE /\ Goto("cleanup") /\ P!Stop(Self, "failed")

\* Go on if the condition holds, and fail if not.
Require(condition, phase) ==
    \/ condition /\ Goto(phase) /\ UNCHANGED <<failed, publication>>
    \/ ~condition /\ Fail

-----------------------------------------------------------------------------
Open ==
    /\ pc = "open"
    /\ snapshot' = input
    /\ Goto("guard")
    /\ UNCHANGED <<input, selective, sandboxed, workspace, publication, failed, disturbances>>

Guard ==
    /\ pc = "guard"
    /\ Require(dest[Target] = Nothing, "sandbox")
    /\ UNCHANGED <<request, workspace, disturbances>>

\* Whether it falls back to no sandbox was decided at the start: see SandboxRun.
NewSandbox ==
    /\ pc = "sandbox"
    /\ Goto("backend")
    /\ UNCHANGED <<request, workspace, publication, failed, disturbances>>

\* copy_verified_to, which hashes every copied file, and the seal.
CopyBackend ==
    /\ pc = "backend"
    /\ backend' = "pinned"
    /\ Goto("input")
    /\ UNCHANGED <<request, archive, output, selected, compromised, publication, failed,
                   disturbances>>

\* A fault: output/ is made together with input/.
CopyArchiveEarly ==
    /\ pc = "input"
    /\ Require(input = snapshot, "listing")
    /\ archive' = IF input = snapshot THEN snapshot ELSE archive
    /\ output' = EmptyTree
    /\ UNCHANGED <<request, backend, selected, compromised, disturbances>>

\* The copy has the length and the hash of the snapshot, and is sealed.
CopyArchive ==
    /\ pc = "input"
    /\ Require(input = snapshot, "listing")
    /\ archive' = IF input = snapshot THEN snapshot ELSE archive
    /\ UNCHANGED <<request, backend, output, selected, compromised, disturbances>>

\* The first process.  One that was taken over may print any listing.
List ==
    /\ pc = "listing"
    /\ \/ "listing" \in compromised /\ \E valid \in BOOLEAN : Require(valid, "listed")
       \/ "listing" \notin compromised /\ Require(archive \in Listable, "listed")
    /\ UNCHANGED <<request, workspace, disturbances>>

\* require_sandbox_archive_unchanged, between the two passes.
CheckListed ==
    /\ pc = "listed"
    /\ Require(archive = snapshot, "fresh")
    /\ UNCHANGED <<request, workspace, disturbances>>

\* A fault: create_dir_all, which accepts a directory that is there.
CreateOutputOrReuse ==
    /\ pc = "fresh"
    /\ output' = IF output = Nothing THEN EmptyTree ELSE output
    /\ Goto("extracting")
    /\ UNCHANGED <<request, backend, archive, selected, compromised, publication, failed,
                   disturbances>>

CreateOutput ==
    /\ pc = "fresh"
    /\ Require(output = Nothing, "extracting")
    /\ output' = IF output = Nothing THEN EmptyTree ELSE output
    /\ UNCHANGED <<request, backend, archive, selected, compromised, disturbances>>

\* The second process; -k keeps what is in the output already.
Extracted == IF output = EmptyTree THEN Yields[archive] ELSE output

Extract ==
    /\ pc = "extracting"
    /\ \/ /\ "extracting" \in compromised \/ backend = "altered"
          /\ \E succeeds \in BOOLEAN : Require(succeeds, "extracted")
          /\ UNCHANGED output
       \/ /\ "extracting" \notin compromised
          /\ backend = "pinned"
          /\ output # Nothing
          /\ Require(Extracted # Nothing, "extracted")
          /\ output' = IF Extracted # Nothing THEN Extracted ELSE output
    /\ UNCHANGED <<request, backend, archive, selected, compromised, disturbances>>

\* require_sandbox_archive_unchanged once more, then audit_tree.
AuditOutput ==
    /\ pc = "extracted"
    /\ Require(archive = snapshot /\ output \in Clean, IF selective THEN "select" ELSE "commit")
    /\ UNCHANGED <<request, workspace, disturbances>>

\* materialize_selection, into a directory that must not exist.
Chosen == IF output \in Tree THEN Selection[output] ELSE Nothing

Select ==
    LET possible == selected = Nothing /\ Chosen # Nothing IN
    /\ pc = "select"
    /\ Require(possible, "commit")
    /\ selected' = IF possible THEN Chosen ELSE selected
    /\ UNCHANGED <<request, backend, archive, output, compromised, disturbances>>

\* A fault: the copy is not audited.
CommitUnaudited ==
    LET source == IF selective THEN selected ELSE output IN
    /\ pc = "commit"
    /\ \/ P!Decide(Self, source) /\ source \in Tree /\ Goto("publish") /\ UNCHANGED failed
       \/ source = Nothing /\ Fail
    /\ UNCHANGED <<request, workspace, disturbances>>

\* copy_audited_tree and build_tree_audit of commit_tree decide the payload.
Commit ==
    LET source == IF selective THEN selected ELSE output IN
    /\ pc = "commit"
    /\ \/ /\ source \in Clean
          /\ P!Decide(Self, source)
          /\ Goto("publish")
          /\ UNCHANGED failed
       \/ (source \notin Clean \/ dest[Target] # Nothing) /\ Fail
    /\ UNCHANGED <<request, workspace, disturbances>>

Publish ==
    /\ pc = "publish"
    /\ \/ P!Publish(Self, Target) /\ Goto("finish") /\ UNCHANGED failed
       \/ dest[Target] # Nothing /\ Fail
    /\ UNCHANGED <<request, workspace, disturbances>>

\* staged.finish()? and open_folder: their failure is an error as well.
Finish ==
    /\ pc = "finish"
    /\ \/ Goto("show") /\ UNCHANGED <<failed, disturbances>>
       \/ Goto("returned") /\ failed' = TRUE /\ Disturb
    /\ UNCHANGED <<request, workspace, publication>>

Show ==
    /\ pc = "show"
    /\ Goto("returned")
    /\ \/ UNCHANGED <<failed, disturbances>>
       \/ failed' = TRUE /\ Disturb
    /\ UNCHANGED <<request, workspace, publication>>

Cleanup ==
    /\ pc = "cleanup"
    /\ Goto("returned")
    /\ UNCHANGED <<request, workspace, publication, failed, disturbances>>

\* Any call of the parent may fail, and either process may run out of time.
StepFails ==
    /\ pc \in Staging
    /\ Disturb
    /\ Fail
    /\ UNCHANGED <<request, workspace>>

-----------------------------------------------------------------------------
(* The processes in the sandbox, and everybody else. *)

\* A process of an AppContainer job ends with its run; without a sandbox it,
\* or another one it started, stays.
Active(pass) ==
    IF pc = pass THEN archive \in Hostile \/ backend = "altered"
                 ELSE ~sandboxed /\ pass \in compromised

\* seal_sandbox_tree makes backend/ and input/ read-only for an AppContainer.
Sealed == sandboxed

Misbehave ==
    /\ pc \in Staging
    /\ \E pass \in Pass : Active(pass) /\ compromised' = compromised \cup {pass}
    /\ \/ output' \in Tree /\ UNCHANGED <<backend, archive, selected>>
       \/ selected' \in Tree /\ UNCHANGED <<backend, archive, output>>
       \/ ~Sealed /\ archive' \in Archive /\ UNCHANGED <<backend, output, selected>>
       \/ ~Sealed /\ backend' = "altered" /\ UNCHANGED <<archive, output, selected>>
    /\ UNCHANGED <<request, publication, failed, pc, disturbances>>

UserRewrites ==
    /\ pc \in Staging
    /\ Disturb
    /\ input' \in Archive
    /\ UNCHANGED <<selective, snapshot, sandboxed, workspace, publication, failed, pc>>

SomeoneElseCreates ==
    /\ \E t \in Tree : P!SomeoneElseCreates(Target, t)
    /\ UNCHANGED <<request, workspace, failed, pc, disturbances>>

Crash ==
    /\ pc \in Staging
    /\ Disturb
    /\ Goto("crashed")
    /\ P!Stop(Self, "crashed")
    /\ UNCHANGED <<request, workspace, failed>>

-----------------------------------------------------------------------------
Step ==
    \/ Open \/ Guard \/ NewSandbox \/ CopyBackend \/ CopyArchive \/ List
    \/ CheckListed \/ CreateOutput \/ Extract \/ AuditOutput \/ Select
    \/ Commit \/ Publish \/ Finish \/ Show \/ Cleanup

Next == Step \/ StepFails \/ Misbehave \/ UserRewrites \/ SomeoneElseCreates \/ Crash

Spec == Init /\ [][Next]_vars

\* extract is one call, and either process ends (EverythingEnds of SandboxRun).
FairSpec == Spec /\ WF_vars(Step)

-----------------------------------------------------------------------------
TypeOK ==
    /\ input \in Archive
    /\ selective \in BOOLEAN
    /\ snapshot \in Archive \cup {Nothing}
    /\ sandboxed \in BOOLEAN
    /\ backend \in {"missing", "pinned", "altered"}
    /\ archive \in Archive \cup {Nothing}
    /\ output \in Tree \cup {Nothing}
    /\ selected \in Tree \cup {Nothing}
    /\ compromised \subseteq Pass
    /\ failed \in BOOLEAN
    /\ pc \in Phase
    /\ disturbances \in Nat
    /\ dest \in [{Target} -> [by : {Self, Other}, tree : Tree] \cup {Nothing}]
    /\ payload \in [{Self} -> Tree \cup {Nothing}]
    /\ outcome \in [{Self} -> {"running", "published", "failed", "crashed"}]
    /\ pc \in Staging \ {"open"} => snapshot # Nothing
    /\ pc \in Reading \cup Staged => archive # Nothing
    /\ pc \in {"extracting"} \cup Staged => output # Nothing
    /\ pc = "commit" /\ selective => selected # Nothing

\* Whatever the processes do, sandboxed or not, also after they were audited:
\* what this extraction publishes has passed an audit (audit_tree of
\* stage_archive sees the sandbox, commit_tree audits its own copy).
PublishedIsClean ==
    outcome[Self] = "published" =>
        /\ dest[Target] = [by |-> Self, tree |-> payload[Self]]
        /\ payload[Self] \in Clean

\* The tree that a request for this snapshot has to publish.
Promised == IF selective THEN Selection[Yields[snapshot]] ELSE Yields[snapshot]

\* A listing process that was taken over hands nothing to the extraction: if
\* the extracting process is itself untouched, the published tree is the one
\* the opened archive holds (README.md:131: the listing process can leave no
\* exchanged archive, no altered backend and nothing in the output directory).
ListingCannotSteer ==
    /\ payload[Self] # Nothing
    /\ compromised # {} => sandboxed /\ compromised = {"listing"}
    => Yields[snapshot] # Nothing /\ payload[Self] = Promised

\* An error means that the destination was not published: RELEASE_NOTES.md:44
\* says it of every failure, a failing clean-up included.  It is not so.
ErrorPublishesNothing ==
    pc = "returned" /\ failed => outcome[Self] # "published"

\* A request that nothing disturbs, for an archive that is no one's weapon.
Undisturbed ==
    /\ disturbances = 0
    /\ dest[Target] # Nothing => dest[Target].by = Self
    /\ input \in Listable \ Hostile
    /\ Yields[input] \in Clean
    /\ selective => Selection[Yields[input]] \in Clean

\* Every extraction ends, and no check of the two passes stands in the way of
\* a good archive.
GoodArchivesExtract ==
    <>(pc \in Ended /\ (Undisturbed => ~failed /\ outcome[Self] = "published"))
=============================================================================
