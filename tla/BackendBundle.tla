--------------------------- MODULE BackendBundle ---------------------------
(***************************************************************************)
(* The backend directory: imports replace it (scripts/install-backend.ps1) *)
(* while operations verify it, with its evidence, and copy it into their   *)
(* sandboxes (BackendBundle::verify and copy_verified_to of backend.rs,    *)
(* BackendEvidence::verify of backend_evidence.rs).  Nothing locks the     *)
(* directory.                                                              *)
(***************************************************************************)
EXTENDS Naturals, Sequences

CONSTANTS
    Importer,       \* the running imports
    Reader,         \* the operations that use the backend
    File,           \* the names in a bundle
    Content,        \* what a file can contain, as its SHA-256 tells it
    Absent,         \* no such file
    NoDirectory,    \* no such directory
    NoEvidence,     \* a directory without .iroha-zip-evidence
    Damaged,        \* evidence that its own documents contradict
    Bundle,         \* the trees a source can have while it is copied
    MaxDisturbances \* bound on faults, crashes and outside changes

Tree == [File -> Content \cup {Absent}]

Present(tree) == {f \in File : tree[f] # Absent}

ASSUME BackendAssumption ==
    /\ Absent \notin Content
    /\ {NoEvidence, Damaged} \cap Bundle = {}
    /\ Bundle \subseteq Tree
    /\ \A t \in Bundle : Present(t) # {}
    /\ MaxDisturbances \in Nat

\* A directory: its manifest, its files, the bundle that its evidence describes,
\* and whether there is something else in it.
Evidence == Bundle \cup {NoEvidence, Damaged}
Directory == [manifest : Bundle, files : Tree, evidence : Evidence, nested : BOOLEAN]

ASSUME NoDirectoryAssumption == NoDirectory \notin Directory

Import == {"idle", "validate", "test", "aside", "in", "drop", "restore", "back",
           "cleanup", "installed", "failed", "crashed"}

Use == {"idle", "collect", "hash", "evidence", "provenance", "spdx", "inventory",
        "copy", "copied", "refused"}

VARIABLES
    installed,  \* DestinationDirectory
    stage,      \* .iroha-zip-backend-stage-* of each import
    aside,      \* .iroha-zip-backend-backup-* of each import
    had,        \* whether an import found a backend to move aside
    import,     \* where each import stands
    use,        \* where each reader stands
    pinned,     \* the manifest each reader has parsed
    todo,       \* the files it has still to hash, or to copy
    read,       \* the documents of the evidence it has read
    copy,       \* its copy in the sandbox
    before,     \* history: what was installed when an import moved in
    overlapped, \* history: two imports replaced at the same time
    stranded,   \* history: the imports whose backup was not removed, or not put back
    tampered,   \* history: a file of the directory was changed or removed
    disturbances

importVars == <<installed, stage, aside, had, import, before, overlapped, stranded>>
useVars == <<use, pinned, todo, read, copy>>
vars == <<importVars, useVars, tampered, disturbances>>

-----------------------------------------------------------------------------
\* A directory as an import leaves it.
Complete(tree) ==
    [manifest |-> tree, files |-> tree, evidence |-> tree, nested |-> FALSE]

Nowhere == [f \in File |-> Absent]

Init ==
    /\ \/ installed = NoDirectory
       \/ \E t \in Bundle : \/ installed = Complete(t)
                            \/ installed = [Complete(t) EXCEPT !.evidence = NoEvidence]
    /\ stage = [i \in Importer |-> NoDirectory]
    /\ aside = [i \in Importer |-> NoDirectory]
    /\ had = [i \in Importer |-> FALSE]
    /\ import = [i \in Importer |-> "idle"]
    /\ use = [r \in Reader |-> "idle"]
    /\ pinned = [r \in Reader |-> Nowhere]
    /\ todo = [r \in Reader |-> {}]
    /\ read = [r \in Reader |-> <<>>]
    /\ copy = [r \in Reader |-> Nowhere]
    /\ before = [i \in Importer |-> NoDirectory]
    /\ overlapped = FALSE
    /\ stranded = {}
    /\ tampered = FALSE
    /\ disturbances = 0

Goto(i, phase) == import' = [import EXCEPT ![i] = phase]

Disturb == disturbances < MaxDisturbances /\ disturbances' = disturbances + 1

Replacing(i) == import[i] \in {"aside", "in", "drop", "restore", "back"}

-----------------------------------------------------------------------------
(* install-backend.ps1 *)

\* The files are copied to a new directory and hashed there: the manifest is
\* of the copy, whatever the source does meanwhile.
Stage(i) ==
    /\ import[i] = "idle"
    /\ \E t \in Bundle : stage' = [stage EXCEPT ![i] = Complete(t)]
    /\ Goto(i, "validate")
    /\ UNCHANGED <<installed, aside, had, before, overlapped, stranded, useVars,
                   tampered, disturbances>>

\* The evidence, and iroha-zip verify-backend-evidence.
Validate(i) ==
    /\ import[i] = "validate"
    /\ \/ Goto(i, "test") /\ UNCHANGED disturbances
       \/ Goto(i, "cleanup") /\ Disturb
    /\ UNCHANGED <<installed, stage, aside, had, before, overlapped, stranded,
                   useVars, tampered>>

\* Test-Path: is there something to move aside?
TestPath(i) ==
    /\ import[i] = "test"
    /\ had' = [had EXCEPT ![i] = installed # NoDirectory]
    /\ before' = [before EXCEPT ![i] = installed]
    /\ Goto(i, IF installed # NoDirectory THEN "aside" ELSE "in")
    /\ overlapped' = (overlapped \/ \E j \in Importer \ {i} : Replacing(j))
    /\ UNCHANGED <<installed, stage, aside, stranded, useVars, tampered, disturbances>>

\* A fault: the backend is removed to make room.
RemoveAside(i) ==
    /\ import[i] = "aside"
    /\ installed' = NoDirectory
    /\ Goto(i, "in")
    /\ UNCHANGED <<stage, aside, had, before, overlapped, stranded, useVars, tampered,
                   disturbances>>

\* The first Move-Item.  An error here is outside of the inner try.
MoveAside(i) ==
    /\ import[i] = "aside"
    /\ \/ /\ installed # NoDirectory
          /\ aside' = [aside EXCEPT ![i] = installed]
          /\ installed' = NoDirectory
          /\ Goto(i, "in")
          /\ UNCHANGED disturbances
       \/ /\ installed = NoDirectory
          /\ Goto(i, "cleanup")
          /\ UNCHANGED <<installed, aside, disturbances>>
       \/ /\ Goto(i, "cleanup")
          /\ Disturb
          /\ UNCHANGED <<installed, aside>>
    /\ UNCHANGED <<stage, had, before, overlapped, stranded, useVars, tampered>>

\* The second one.  Where a directory is by now, the stage goes into it.
MoveIn(i) ==
    /\ import[i] = "in"
    /\ installed' = IF installed = NoDirectory THEN stage[i]
                    ELSE [installed EXCEPT !.nested = TRUE]
    /\ stage' = [stage EXCEPT ![i] = NoDirectory]
    /\ Goto(i, IF had[i] THEN "drop" ELSE "installed")
    /\ UNCHANGED <<aside, had, before, overlapped, stranded, useVars, tampered,
                   disturbances>>

MoveInFails(i) ==
    /\ import[i] = "in"
    /\ Disturb
    /\ Goto(i, "restore")
    /\ UNCHANGED <<installed, stage, aside, had, before, overlapped, stranded,
                   useVars, tampered>>

DropBackup(i) ==
    /\ import[i] = "drop"
    /\ aside' = [aside EXCEPT ![i] = NoDirectory]
    /\ Goto(i, "installed")
    /\ UNCHANGED <<installed, stage, had, before, overlapped, stranded, useVars,
                   tampered, disturbances>>

\* Remove-Item stops at a file in use, with some of the others gone.
DropBackupFails(i) ==
    /\ import[i] = "drop"
    /\ Disturb
    /\ aside[i] # NoDirectory
    /\ \E kept \in SUBSET Present(aside[i].files) :
          aside' = [aside EXCEPT ![i].files =
                       [f \in File |-> IF f \in kept THEN @[f] ELSE Absent]]
    /\ stranded' = stranded \cup {i}
    /\ Goto(i, "restore")
    /\ UNCHANGED <<installed, stage, had, before, overlapped, useVars, tampered>>

\* catch: the backup is put back where Test-Path finds nothing in its place.
TestRestore(i) ==
    /\ import[i] = "restore"
    /\ Goto(i, IF had[i] /\ installed = NoDirectory THEN "back" ELSE "cleanup")
    /\ UNCHANGED <<installed, stage, aside, had, before, overlapped, stranded, useVars,
                   tampered, disturbances>>

\* A fault: the backup is not put back.
RestoreNothing(i) ==
    /\ import[i] = "back"
    /\ Goto(i, "cleanup")
    /\ UNCHANGED <<installed, stage, aside, had, before, overlapped, stranded,
                   useVars, tampered, disturbances>>

\* The move, which goes into a directory that is there by now.
Restore(i) ==
    /\ import[i] = "back"
    /\ installed' = IF installed = NoDirectory THEN aside[i]
                    ELSE [installed EXCEPT !.nested = TRUE]
    /\ aside' = [aside EXCEPT ![i] = NoDirectory]
    /\ Goto(i, "cleanup")
    /\ UNCHANGED <<stage, had, before, overlapped, stranded, useVars, tampered,
                   disturbances>>

RestoreFails(i) ==
    /\ import[i] = "back"
    /\ stranded' = stranded \cup {i}
    /\ Goto(i, "cleanup")
    /\ UNCHANGED <<installed, stage, aside, had, before, overlapped, useVars, tampered,
                   disturbances>>

\* finally: the stage is removed where it still is.
Cleanup(i) ==
    /\ import[i] = "cleanup"
    /\ \/ stage' = [stage EXCEPT ![i] = NoDirectory] /\ UNCHANGED disturbances
       \/ Disturb /\ UNCHANGED stage
    /\ Goto(i, "failed")
    /\ UNCHANGED <<installed, aside, had, before, overlapped, stranded, useVars,
                   tampered>>

\* PowerShell is ended; nothing is cleaned up.
Crash(i) ==
    /\ import[i] \notin {"idle", "installed", "failed", "crashed"}
    /\ Disturb
    /\ Goto(i, "crashed")
    /\ UNCHANGED <<installed, stage, aside, had, before, overlapped, stranded,
                   useVars, tampered>>

-----------------------------------------------------------------------------
(* BackendBundle::verify *)

Refuse(r) == use' = [use EXCEPT ![r] = "refused"]

\* What the manifest of a directory lists: each file once, with its hash.
Parsed(directory) == directory.manifest

ReadManifest(r) ==
    /\ use[r] = "idle"
    /\ IF installed = NoDirectory
       THEN Refuse(r) /\ UNCHANGED pinned
       ELSE /\ pinned' = [pinned EXCEPT ![r] = Parsed(installed)]
            /\ use' = [use EXCEPT ![r] = "collect"]
    /\ UNCHANGED <<importVars, todo, read, copy, tampered, disturbances>>

\* A fault: the evidence counts as files that no manifest lists.
ListsEvidence(manifest, directory) ==
    /\ ~directory.nested /\ directory.evidence = NoEvidence
    /\ Present(directory.files) = Present(manifest)

\* The files that are there, whatever depth they are at, are those of the
\* manifest.
Lists(manifest, directory) ==
    ~directory.nested /\ Present(directory.files) = Present(manifest)

Collect(r) ==
    /\ use[r] = "collect"
    /\ IF installed # NoDirectory /\ Lists(pinned[r], installed)
       THEN /\ use' = [use EXCEPT ![r] = "hash"]
            /\ todo' = [todo EXCEPT ![r] = Present(pinned[r])]
       ELSE Refuse(r) /\ UNCHANGED todo
    /\ UNCHANGED <<importVars, pinned, read, copy, tampered, disturbances>>

Holds(r, f) == installed # NoDirectory /\ installed.files[f] = pinned[r][f]

\* One turn of the loop over the manifest, and what follows the last one.
Hash(r) ==
    /\ use[r] = "hash"
    /\ \E f \in todo[r] :
          IF Holds(r, f)
          THEN IF todo[r] = {f}
               THEN /\ use' = [use EXCEPT ![r] = "evidence"]
                    /\ todo' = [todo EXCEPT ![r] = Present(pinned[r])]
               ELSE todo' = [todo EXCEPT ![r] = @ \ {f}] /\ UNCHANGED use
          ELSE Refuse(r) /\ UNCHANGED todo
    /\ UNCHANGED <<importVars, pinned, read, copy, tampered, disturbances>>

-----------------------------------------------------------------------------
(* BackendEvidence::verify, where the directory has evidence when it is asked *)

\* The root is a directory of plain files, and each document parses.
Readable == installed # NoDirectory /\ installed.evidence \in Bundle

\* What each of the documents says, read one after the other.  Two imports of
\* one bundle differ in their timestamp only, which is left out here: the model
\* accepts more than the code.
ReadEvidence(r) ==
    /\ use[r] = "evidence"
    /\ IF read[r] = <<>> /\ (installed = NoDirectory \/ installed.evidence = NoEvidence)
       THEN use' = [use EXCEPT ![r] = "copy"] /\ UNCHANGED read
       ELSE IF ~Readable
       THEN Refuse(r) /\ UNCHANGED read
       ELSE /\ read' = [read EXCEPT ![r] = Append(@, installed.evidence)]
            /\ use' = [use EXCEPT ![r] = IF Len(read[r]) = 2 THEN "provenance" ELSE @]
    /\ UNCHANGED <<importVars, pinned, todo, copy, tampered, disturbances>>

\* A check of what was read against the directory as it is now.
Check(r, phase, holds, next) ==
    /\ use[r] = phase
    /\ IF installed # NoDirectory /\ holds THEN use' = [use EXCEPT ![r] = next]
       ELSE Refuse(r)
    /\ UNCHANGED <<importVars, pinned, todo, read, copy, tampered, disturbances>>

\* A fault: they are compared with the manifest as it is now.
ListsCurrent(r, document) == document = installed.manifest

\* The files and hashes that a document lists are those of the manifest that
\* verify has parsed.
ListsPayload(r, document) == document = pinned[r]

\* The hash of the manifest file, and the payload.
CheckProvenance(r) ==
    Check(r, "provenance",
          installed.manifest = read[r][1] /\ ListsPayload(r, read[r][1]), "spdx")

\* The SHA-1 codes of the packages are of the files as they are now.
CodesHold(document) ==
    \A f \in Present(document) : installed.files[f] = document[f]

\* The name of the SPDX document holds the hashes of the manifest and of the
\* provenance file.
CheckSpdx(r) ==
    LET sbom == read[r][2] IN
    Check(r, "spdx",
          /\ installed.manifest = sbom /\ installed.evidence = sbom
          /\ CodesHold(sbom) /\ ListsPayload(r, sbom), "inventory")

\* The notice and the licences as they are now, and the payload.
CheckInventory(r) ==
    LET inventory == read[r][3] IN
    Check(r, "inventory",
          installed.evidence = inventory /\ ListsPayload(r, inventory), "copy")

-----------------------------------------------------------------------------
(* BackendBundle::copy_verified_to *)

\* A fault: the copy is not hashed, the file having been verified before.
CopyUnhashed(r) ==
    /\ use[r] = "copy"
    /\ \E f \in todo[r] :
          IF installed # NoDirectory /\ installed.files[f] # Absent
          THEN /\ copy' = [copy EXCEPT ![r][f] = installed.files[f]]
               /\ todo' = [todo EXCEPT ![r] = @ \ {f}]
               /\ use' = [use EXCEPT ![r] = IF todo[r] = {f} THEN "copied" ELSE @]
          ELSE Refuse(r) /\ UNCHANGED <<todo, copy>>
    /\ UNCHANGED <<importVars, pinned, read, tampered, disturbances>>

\* A file is copied, and the copy is hashed.
Copy(r) ==
    /\ use[r] = "copy"
    /\ \E f \in todo[r] :
          \/ /\ Holds(r, f)
             /\ copy' = [copy EXCEPT ![r][f] = pinned[r][f]]
             /\ todo' = [todo EXCEPT ![r] = @ \ {f}]
             /\ use' = [use EXCEPT ![r] = IF todo[r] = {f} THEN "copied" ELSE @]
          \/ /\ ~Holds(r, f)
             /\ Refuse(r)
             /\ copy' = IF installed = NoDirectory THEN copy
                        ELSE [copy EXCEPT ![r][f] = installed.files[f]]
             /\ UNCHANGED todo
    /\ UNCHANGED <<importVars, pinned, read, tampered, disturbances>>

-----------------------------------------------------------------------------
\* Another program changes or removes a file of the installed backend.
Tamper ==
    /\ installed # NoDirectory
    /\ Disturb
    /\ \/ \E f \in File, c \in Content \cup {Absent} :
             /\ c # installed.files[f]
             /\ installed' = [installed EXCEPT !.files[f] = c]
       \/ /\ installed.evidence \notin {NoEvidence, Damaged}
          /\ installed' = [installed EXCEPT !.evidence = Damaged]
    /\ tampered' = TRUE
    /\ UNCHANGED <<stage, aside, had, import, before, overlapped, stranded, useVars>>

Importing(i) ==
    \/ Stage(i) \/ Validate(i) \/ TestPath(i) \/ MoveAside(i) \/ MoveIn(i)
    \/ DropBackup(i) \/ TestRestore(i) \/ Restore(i) \/ Cleanup(i)

ImportFault(i) ==
    MoveInFails(i) \/ DropBackupFails(i) \/ RestoreFails(i) \/ Crash(i)

Using(r) ==
    \/ ReadManifest(r) \/ Collect(r) \/ Hash(r)
    \/ ReadEvidence(r) \/ CheckProvenance(r) \/ CheckSpdx(r) \/ CheckInventory(r)
    \/ Copy(r)

Next ==
    \/ \E i \in Importer : Importing(i) \/ ImportFault(i)
    \/ \E r \in Reader : Using(r)
    \/ Tamper

Spec == Init /\ [][Next]_vars

\* Readers and imports are sequential programs; an import need not be begun.
FairSpec ==
    /\ Spec
    /\ \A r \in Reader : WF_vars(Using(r))
    /\ \A i \in Importer : WF_vars(Importing(i) /\ import[i] # "idle")

-----------------------------------------------------------------------------
TypeOK ==
    /\ installed \in Directory \cup {NoDirectory}
    /\ stage \in [Importer -> Directory \cup {NoDirectory}]
    /\ aside \in [Importer -> Directory \cup {NoDirectory}]
    /\ had \in [Importer -> BOOLEAN]
    /\ import \in [Importer -> Import]
    /\ use \in [Reader -> Use]
    /\ pinned \in [Reader -> Tree]
    /\ todo \in [Reader -> SUBSET File]
    /\ read \in [Reader -> Seq(Bundle)]
    /\ copy \in [Reader -> Tree]
    /\ before \in [Importer -> Directory \cup {NoDirectory}]
    /\ overlapped \in BOOLEAN
    /\ stranded \subseteq Importer
    /\ tampered \in BOOLEAN
    /\ disturbances \in Nat

\* What an operation takes into its sandbox is one whole bundle as an import
\* hashed it, never files of two of them or a file changed since, however
\* often the directory is replaced between and within verify and copy.
CopiedIsOneBundle == \A r \in Reader : use[r] = "copied" => copy[r] \in Bundle

\* Where evidence was accepted, it is of the bundle that is then copied, and
\* not of one that was in the directory for a moment of the verification.
EvidenceIsOfTheCopy ==
    \A r \in Reader : use[r] = "copied" =>
        \A n \in DOMAIN read[r] : read[r][n] = copy[r]

Whole(d) == d # NoDirectory /\ d.files = d.manifest

\* At every moment of every import, a crash between the two moves included,
\* a whole bundle is in the directory or in a backup beside it, once one was
\* there and unless two imports replaced it at the same time.
BackendSurvives ==
    ~overlapped /\ ~tampered =>
        \A i \in Importer : before[i] # NoDirectory =>
            Whole(installed) \/ \E j \in Importer : Whole(aside[j])

\* An import that fails once the backend was moved aside puts it back as it
\* was: "still restores that exact tree" (install-backend.ps1:254).  It does
\* not where what failed is the removal of the backup, or the restoring move.
FailureRestores ==
    [][\A i \in Importer :
          /\ Replacing(i) /\ import'[i] = "cleanup"
          /\ i \notin stranded'
          /\ ~overlapped /\ ~tampered
          => installed' = before[i]]_vars

\* After imports that did not overlap and that nothing disturbed, an operation
\* that starts is not refused by any of the checks: what imports write is what
\* verify accepts.
ImportedIsUsable ==
    [](disturbances = 0 /\ ~overlapped) =>
        \A r \in Reader :
            (/\ \A i \in Importer : import[i] = "installed"
             /\ use[r] = "idle") ~> use[r] = "copied"
=============================================================================
