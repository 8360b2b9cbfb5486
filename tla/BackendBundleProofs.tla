------------------------- MODULE BackendBundleProofs -------------------------
(***************************************************************************)
(* What an operation takes into its sandbox is one bundle, and its         *)
(* evidence is of that bundle, however often the directory is replaced and *)
(* whatever is changed in it meanwhile.                                    *)
(***************************************************************************)
EXTENDS BackendBundle, TLAPS

\* The directories are as imports write them, up to the files and the evidence.
Directories ==
    /\ installed \in Directory \cup {NoDirectory}
    /\ stage \in [Importer -> Directory \cup {NoDirectory}]
    /\ aside \in [Importer -> Directory \cup {NoDirectory}]

\* The variables of the readers are functions with these values.
Readers ==
    /\ use \in [Reader -> Use]
    /\ pinned \in [Reader -> Tree]
    /\ todo \in [Reader -> SUBSET File]
    /\ read \in [Reader -> Seq(Bundle)]
    /\ copy \in [Reader -> Tree]

\* What one reader has parsed, compared and copied, by the phase it is in.
Progress(r) ==
    /\ use[r] \notin {"idle", "refused"} => pinned[r] \in Bundle
    /\ use[r] \notin {"copy", "copied", "refused"} => copy[r] = Nowhere
    /\ use[r] \in {"idle", "collect", "hash"} => read[r] = <<>>
    /\ use[r] = "evidence" => Len(read[r]) <= 2
    /\ use[r] \in {"provenance", "spdx", "inventory"} => Len(read[r]) = 3
    /\ use[r] \in {"spdx", "inventory"} => read[r][1] = pinned[r]
    /\ use[r] = "inventory" => read[r][2] = pinned[r]
    /\ use[r] \in {"copy", "copied"} => \A n \in DOMAIN read[r] : read[r][n] = pinned[r]
    /\ use[r] \in {"evidence", "provenance", "spdx", "inventory"} =>
          todo[r] = Present(pinned[r])
    /\ use[r] = "copy" => todo[r] \subseteq Present(pinned[r])
    /\ use[r] \in {"copy", "copied"} =>
          \A f \in File : copy[r][f] = IF f \in todo[r] THEN Absent ELSE pinned[r][f]
    /\ use[r] = "copied" => todo[r] = {}

IInv ==
    /\ Directories
    /\ Readers
    /\ \A r \in Reader : Progress(r)

-----------------------------------------------------------------------------
\* A tree of a bundle written as an import leaves it is a directory.
LEMMA CompleteIsDirectory ==
    ASSUME NEW t \in Bundle
    PROVE  Complete(t) \in Directory
BY BackendAssumption DEF Complete, Directory, Evidence

LEMMA InitIInv == Init => IInv
<1> SUFFICES ASSUME Init PROVE IInv
    OBVIOUS
<1>1. Directories
    BY CompleteIsDirectory, BackendAssumption
    DEF Init, Directories, Complete, Directory, Evidence
<1>2. Nowhere \in Tree
    BY DEF Nowhere, Tree
<1>3. Readers
    BY <1>2 DEF Init, Readers, Use
<1>4. ASSUME NEW r \in Reader PROVE Progress(r)
    BY DEF Init, Progress
<1> QED BY <1>1, <1>3, <1>4 DEF IInv

\* Imports, faults and other programs leave the directories well formed.
LEMMA DirectoriesStep == Directories /\ [Next]_vars => Directories'
<1> SUFFICES ASSUME Directories, [Next]_vars PROVE Directories'
    OBVIOUS
<1> USE DEF Directories
<1>1. ASSUME NEW i \in Importer, Stage(i) PROVE Directories'
    BY <1>1, CompleteIsDirectory DEF Stage
<1>2. ASSUME NEW i \in Importer, Validate(i) PROVE Directories'
    BY <1>2 DEF Validate
<1>3. ASSUME NEW i \in Importer, TestPath(i) PROVE Directories'
    BY <1>3 DEF TestPath
<1>4. ASSUME NEW i \in Importer, MoveAside(i) PROVE Directories'
    BY <1>4 DEF MoveAside
<1>5. ASSUME NEW i \in Importer, MoveIn(i) PROVE Directories'
    BY <1>5 DEF MoveIn, Directory
<1>6. ASSUME NEW i \in Importer, DropBackup(i) PROVE Directories'
    BY <1>6 DEF DropBackup
<1>7. ASSUME NEW i \in Importer, DropBackupFails(i) PROVE Directories'
    <2>1. PICK kept \in SUBSET Present(aside[i].files) :
             aside' = [aside EXCEPT ![i].files =
                          [f \in File |-> IF f \in kept THEN aside[i].files[f] ELSE Absent]]
        BY <1>7 DEF DropBackupFails
    <2> DEFINE rest == [f \in File |-> IF f \in kept THEN aside[i].files[f] ELSE Absent]
    <2>2. aside[i] \in Directory
        BY <1>7 DEF DropBackupFails
    <2>3. rest \in Tree
        BY <2>2 DEF Directory, Tree
    <2>4. [aside[i] EXCEPT !.files = rest] \in Directory
        BY <2>2, <2>3 DEF Directory
    <2>5. aside' = [aside EXCEPT ![i] = [aside[i] EXCEPT !.files = rest]]
        BY <2>1
    <2>6. UNCHANGED <<installed, stage>>
        BY <1>7 DEF DropBackupFails
    <2> HIDE DEF rest
    <2> QED BY <2>4, <2>5, <2>6
<1>8. ASSUME NEW i \in Importer, Restore(i) PROVE Directories'
    BY <1>8 DEF Restore, Directory
<1>9. ASSUME NEW i \in Importer, TestRestore(i) \/ RestoreFails(i) \/ MoveInFails(i)
      PROVE  Directories'
    BY <1>9 DEF TestRestore, RestoreFails, MoveInFails
<1>10. ASSUME NEW i \in Importer, Cleanup(i) \/ Crash(i) PROVE Directories'
    BY <1>10 DEF Cleanup, Crash
<1>11. ASSUME NEW r \in Reader, Using(r) PROVE Directories'
    BY <1>11 DEF Using, ReadManifest, Collect, Hash, ReadEvidence, CheckProvenance,
                 CheckSpdx, CheckInventory, Check, Copy, importVars
<1>12. ASSUME Tamper PROVE Directories'
    <2>1. CASE \E f \in File, c \in Content \cup {Absent} :
                  installed' = [installed EXCEPT !.files[f] = c]
        <3>1. PICK f \in File, c \in Content \cup {Absent} :
                 installed' = [installed EXCEPT !.files[f] = c]
            BY <2>1
        <3>2. installed \in Directory
            BY <1>12 DEF Tamper
        <3>3. [installed.files EXCEPT ![f] = c] \in Tree
            BY <3>2 DEF Directory, Tree
        <3>4. installed' = [installed EXCEPT !.files = [installed.files EXCEPT ![f] = c]]
            BY <3>1
        <3>5. installed' \in Directory
            BY <3>2, <3>3, <3>4 DEF Directory
        <3> QED BY <1>12, <3>5 DEF Tamper
    <2>2. CASE installed' = [installed EXCEPT !.evidence = Damaged]
        <3>1. installed' \in Directory
            BY <1>12, <2>2 DEF Tamper, Directory, Evidence
        <3> QED BY <1>12, <3>1 DEF Tamper
    <2> QED BY <1>12, <2>1, <2>2 DEF Tamper
<1>13. CASE UNCHANGED vars
    BY <1>13 DEF vars, importVars
<1> QED BY <1>1, <1>2, <1>3, <1>4, <1>5, <1>6, <1>7, <1>8, <1>9, <1>10, <1>11, <1>12,
           <1>13 DEF Next, Importing, ImportFault

\* A step that is no reader's leaves the readers alone.
LEMMA OthersLeaveReaders ==
    ASSUME [Next]_vars, ~\E r \in Reader : Using(r)
    PROVE  UNCHANGED useVars
BY DEF Next, Importing, ImportFault, Stage, Validate, TestPath, MoveAside, MoveIn,
       MoveInFails, DropBackup, DropBackupFails, TestRestore, Restore, RestoreFails, Cleanup,
       Crash,
       Tamper, vars

\* A step of one reader keeps the types of all, and is of that reader alone.
LEMMA ReaderStep ==
    ASSUME Directories, Readers, NEW r \in Reader, Using(r)
    PROVE  /\ Readers'
           /\ \A s \in Reader \ {r} :
                 /\ use'[s] = use[s] /\ pinned'[s] = pinned[s] /\ todo'[s] = todo[s]
                 /\ read'[s] = read[s] /\ copy'[s] = copy[s]
<1> USE DEF Readers, Use, Refuse
<1>1. CASE ReadManifest(r)
    BY <1>1, BackendAssumption
    DEF ReadManifest, Parsed, Directories, Directory
<1>2. CASE Collect(r)
    BY <1>2 DEF Collect, Present
<1>3. CASE Hash(r)
    BY <1>3 DEF Hash, Present
<1>4. CASE ReadEvidence(r)
    <2>1. UNCHANGED <<pinned, todo, copy>>
        BY <1>4 DEF ReadEvidence
    <2>2. /\ use' \in [Reader -> Use]
          /\ \A s \in Reader \ {r} : use'[s] = use[s]
        BY <1>4 DEF ReadEvidence
    <2>3. CASE UNCHANGED read
        BY <2>1, <2>2, <2>3
    <2>4. CASE ~UNCHANGED read
        <3>1. /\ installed.evidence \in Bundle
              /\ read' = [read EXCEPT ![r] = Append(read[r], installed.evidence)]
            BY <1>4, <2>4 DEF ReadEvidence, Readable
        <3>2. Append(read[r], installed.evidence) \in Seq(Bundle)
            BY <3>1
        <3>3. /\ read' \in [Reader -> Seq(Bundle)]
              /\ \A s \in Reader \ {r} : read'[s] = read[s]
            BY <3>1, <3>2
        <3> QED BY <2>1, <2>2, <3>3
    <2> QED BY <2>3, <2>4
<1>5. CASE CheckProvenance(r) \/ CheckSpdx(r) \/ CheckInventory(r)
    BY <1>5 DEF CheckProvenance, CheckSpdx, CheckInventory, Check
<1>6. CASE Copy(r)
    <2>1. PICK f \in todo[r], c \in Content \cup {Absent} :
             copy' \in {copy, [copy EXCEPT ![r] = [copy[r] EXCEPT ![f] = c]]}
        <3>1. PICK f \in todo[r] :
                 \/ copy' = [copy EXCEPT ![r] = [copy[r] EXCEPT ![f] = pinned[r][f]]]
                 \/ copy' = copy
                 \/ /\ installed # NoDirectory
                    /\ copy' = [copy EXCEPT
                                   ![r] = [copy[r] EXCEPT ![f] = installed.files[f]]]
            BY <1>6 DEF Copy
        <3>2. f \in File /\ pinned[r][f] \in Content \cup {Absent}
            BY DEF Tree
        <3>3. installed # NoDirectory => installed.files[f] \in Content \cup {Absent}
            BY <3>2 DEF Directories, Directory, Tree
        <3> QED BY <3>1, <3>2, <3>3
    <2>2. [copy[r] EXCEPT ![f] = c] \in Tree
        BY DEF Tree
    <2>3. /\ copy' \in [Reader -> Tree]
          /\ \A s \in Reader \ {r} : copy'[s] = copy[s]
        BY <2>1, <2>2
    <2>4. /\ use' \in [Reader -> Use] /\ todo' \in [Reader -> SUBSET File]
          /\ \A s \in Reader \ {r} : use'[s] = use[s] /\ todo'[s] = todo[s]
        BY <1>6 DEF Copy
    <2> QED BY <1>6, <2>3, <2>4 DEF Copy
<1> QED BY <1>1, <1>2, <1>3, <1>4, <1>5, <1>6 DEF Using

LEMMA RoomForOne == ASSUME NEW n \in Nat, n <= 2, n # 2 PROVE n + 1 <= 2
OBVIOUS

\* The reader that takes a step is where its phase says.
LEMMA ProgressStep ==
    ASSUME Directories, Readers, Readers', NEW r \in Reader, Using(r), Progress(r)
    PROVE  Progress(r)'
<1> USE DEF Readers, Use, Refuse, Progress
<1>1. CASE ReadManifest(r)
    BY <1>1 DEF ReadManifest, Parsed, Directories, Directory
<1>2. CASE Collect(r)
    BY <1>2 DEF Collect
<1>3. CASE Hash(r)
    BY <1>3 DEF Hash
<1>4. CASE ReadEvidence(r)
    <2>1. UNCHANGED <<pinned, todo, copy>> /\ use[r] = "evidence"
        BY <1>4 DEF ReadEvidence
    <2>2. CASE read[r] = <<>> /\ use'[r] = "copy" /\ UNCHANGED read
        BY <2>1, <2>2 DEF Nowhere, Present, Tree
    <2>3. CASE use'[r] = "refused"
        BY <2>1, <2>3
    <2>4. CASE /\ use'[r] = IF Len(read[r]) = 2 THEN "provenance" ELSE "evidence"
               /\ read'[r] = Append(read[r], installed.evidence)
        <3>1. Len(read'[r]) = Len(read[r]) + 1 /\ Len(read[r]) \in Nat
            BY <2>4
        <3>2. Len(read[r]) <= 2 /\ pinned[r] \in Bundle /\ copy[r] = Nowhere
              /\ todo[r] = Present(pinned[r])
            BY <2>1
        <3>3. CASE Len(read[r]) = 2
            <4>1. use'[r] = "provenance" /\ Len(read'[r]) = 3
                BY <2>4, <3>1, <3>3
            <4> QED BY <2>1, <3>2, <4>1 DEF Present
        <3>4. CASE Len(read[r]) # 2
            <4>0. read'[r] = Append(read[r], installed.evidence) /\ use'[r] = "evidence"
                BY <2>4, <3>4
            <4>1. Len(read'[r]) <= 2
                BY <3>1, <3>2, <3>4, RoomForOne
            <4> QED BY <2>1, <3>2, <4>0, <4>1 DEF Present
        <3> QED BY <3>3, <3>4
    <2>5. \/ read[r] = <<>> /\ use'[r] = "copy" /\ UNCHANGED read
          \/ use'[r] = "refused"
          \/ /\ use'[r] = IF Len(read[r]) = 2 THEN "provenance" ELSE "evidence"
             /\ read'[r] = Append(read[r], installed.evidence)
        BY <1>4, <2>1 DEF ReadEvidence
    <2> QED BY <2>2, <2>3, <2>4, <2>5
<1>5. CASE CheckProvenance(r)
    BY <1>5 DEF CheckProvenance, Check, ListsPayload
<1>6. CASE CheckSpdx(r)
    BY <1>6 DEF CheckSpdx, Check, ListsPayload
<1>7. CASE CheckInventory(r)
    BY <1>7 DEF CheckInventory, Check, ListsPayload, Nowhere, Present, Tree
<1>8. CASE Copy(r)
    BY <1>8 DEF Copy, Holds, Present, Tree
<1> QED BY <1>1, <1>2, <1>3, <1>4, <1>5, <1>6, <1>7, <1>8 DEF Using

LEMMA Invariance == IInv /\ [Next]_vars => IInv'
<1> SUFFICES ASSUME IInv, [Next]_vars PROVE IInv'
    OBVIOUS
<1>1. Directories'
    BY DirectoriesStep DEF IInv
<1>2. CASE ~\E r \in Reader : Using(r)
    <2>1. UNCHANGED useVars
        BY <1>2, OthersLeaveReaders
    <2>2. Readers' /\ \A r \in Reader : Progress(r)'
        BY <2>1 DEF IInv, Readers, Progress, useVars
    <2> QED BY <1>1, <2>2 DEF IInv
<1>3. ASSUME NEW r \in Reader, Using(r) PROVE IInv'
    <2>1. /\ Readers'
          /\ \A s \in Reader \ {r} :
                /\ use'[s] = use[s] /\ pinned'[s] = pinned[s] /\ todo'[s] = todo[s]
                /\ read'[s] = read[s] /\ copy'[s] = copy[s]
        BY <1>3, ReaderStep DEF IInv
    <2>2. Progress(r)'
        BY <1>3, <2>1, ProgressStep DEF IInv
    <2>3. \A s \in Reader \ {r} : Progress(s)'
        BY <2>1 DEF IInv, Progress
    <2> QED BY <1>1, <2>1, <2>2, <2>3 DEF IInv
<1> QED BY <1>2, <1>3

LEMMA AlwaysIInv == Spec => []IInv
BY InitIInv, Invariance, PTL DEF Spec

-----------------------------------------------------------------------------
\* The rest of the type invariant.
Bookkeeping ==
    /\ had \in [Importer -> BOOLEAN]
    /\ import \in [Importer -> Import]
    /\ before \in [Importer -> Directory \cup {NoDirectory}]
    /\ overlapped \in BOOLEAN
    /\ stranded \subseteq Importer
    /\ tampered \in BOOLEAN
    /\ disturbances \in Nat

LEMMA BookkeepingInit == Init => Bookkeeping
<1> SUFFICES ASSUME Init PROVE Bookkeeping
    OBVIOUS
<1>1. had \in [Importer -> BOOLEAN]
    BY Zenon DEF Init
<1> QED BY <1>1 DEF Init, Bookkeeping, Import

LEMMA BookkeepingStep == Directories /\ Bookkeeping /\ [Next]_vars => Bookkeeping'
<1> SUFFICES ASSUME Directories, Bookkeeping, [Next]_vars PROVE Bookkeeping'
    OBVIOUS
<1> USE DEF Bookkeeping, Import, Goto
<1>1. ASSUME NEW i \in Importer, TestPath(i) PROVE Bookkeeping'
    <2>1. overlapped' \in BOOLEAN
        BY <1>1, Zenon DEF TestPath
    <2>2. had' \in [Importer -> BOOLEAN]
        <3> DEFINE found == installed # NoDirectory
        <3>1. had' = [had EXCEPT ![i] = found] /\ found \in BOOLEAN
            BY <1>1 DEF TestPath
        <3> HIDE DEF found
        <3> QED BY <3>1, Zenon
    <2>3. /\ import' \in [Importer -> Import]
          /\ before' \in [Importer -> Directory \cup {NoDirectory}]
        BY <1>1 DEF TestPath, Directories
    <2> QED BY <1>1, <2>1, <2>2, <2>3 DEF TestPath
<1>2. ASSUME NEW i \in Importer, Importing(i) \/ ImportFault(i), ~TestPath(i)
      PROVE  Bookkeeping'
    <2> USE DEF Disturb
    <2>1. CASE Stage(i) \/ Validate(i)
        BY <2>1 DEF Stage, Validate
    <2>2. CASE MoveAside(i)
        BY <2>2 DEF MoveAside
    <2>3. CASE MoveIn(i) \/ MoveInFails(i)
        BY <2>3 DEF MoveIn, MoveInFails
    <2>4. CASE DropBackup(i) \/ DropBackupFails(i)
        BY <2>4 DEF DropBackup, DropBackupFails
    <2>5. CASE TestRestore(i) \/ Restore(i) \/ RestoreFails(i)
        BY <2>5 DEF TestRestore, Restore, RestoreFails
    <2>6. CASE Cleanup(i) \/ Crash(i)
        BY <2>6 DEF Cleanup, Crash
    <2> QED BY <1>2, <2>1, <2>2, <2>3, <2>4, <2>5, <2>6 DEF Importing, ImportFault
<1>3. ASSUME NEW r \in Reader, Using(r) PROVE Bookkeeping'
    BY <1>3 DEF Using, ReadManifest, Collect, Hash, ReadEvidence, CheckProvenance,
                CheckSpdx, CheckInventory, Check, Copy, importVars
<1>4. CASE Tamper
    BY <1>4 DEF Tamper, Disturb
<1>5. CASE UNCHANGED vars
    BY <1>5 DEF vars, importVars
<1> QED BY <1>1, <1>2, <1>3, <1>4, <1>5 DEF Next

\* Every reachable state of the module is well formed.
THEOREM BackendTypeCorrect == Spec => []TypeOK
<1>1. Init => Bookkeeping
    BY BookkeepingInit
<1>2. IInv /\ Bookkeeping /\ [Next]_vars => Bookkeeping'
    BY BookkeepingStep DEF IInv
<1>3. IInv /\ Bookkeeping => TypeOK
    BY DEF IInv, Bookkeeping, Directories, Readers, TypeOK
<1> QED BY <1>1, <1>2, <1>3, AlwaysIInv, PTL DEF Spec

\* The copy that an operation runs is one of the bundles that were imported, as
\* it was hashed then (copy_verified_to), for any number of imports, crashes and
\* outside changes.
THEOREM CopyIsOneBundle == Spec => []CopiedIsOneBundle
<1>1. IInv => CopiedIsOneBundle
    <2> SUFFICES ASSUME IInv, NEW r \in Reader, use[r] = "copied"
                 PROVE  copy[r] \in Bundle
        BY DEF CopiedIsOneBundle
    <2>1. Progress(r) /\ copy[r] \in Tree /\ pinned[r] \in Tree
        BY DEF IInv, Readers
    <2>2. copy[r] = pinned[r]
        BY <2>1 DEF Progress, Tree
    <2> QED BY <2>1, <2>2 DEF Progress
<1> QED BY <1>1, AlwaysIInv, PTL

\* The evidence that verify has accepted describes the bundle that is then
\* copied, document by document (BackendEvidence::verify).
THEOREM EvidenceMatchesTheCopy == Spec => []EvidenceIsOfTheCopy
<1>1. IInv => EvidenceIsOfTheCopy
    <2> SUFFICES ASSUME IInv, NEW r \in Reader, use[r] = "copied"
                 PROVE  \A n \in DOMAIN read[r] : read[r][n] = copy[r]
        BY DEF EvidenceIsOfTheCopy
    <2>1. Progress(r) /\ copy[r] \in Tree /\ pinned[r] \in Tree
        BY DEF IInv, Readers
    <2>2. copy[r] = pinned[r]
        BY <2>1 DEF Progress, Tree
    <2> QED BY <2>1, <2>2 DEF Progress
<1> QED BY <1>1, AlwaysIInv, PTL

-----------------------------------------------------------------------------
(* A whole bundle stays in the directory or in a backup, and an import that *)
(* fails puts back what it has moved aside.                                 *)

\* Two imports replace the directory one after the other.
Alternating == \A i, j \in Importer : Replacing(i) /\ Replacing(j) => i = j

\* What an import is about to move in is whole, and so is what is installed.
Prepared ==
    /\ \A i \in Importer :
          import[i] \in {"validate", "test", "aside", "in"} => Whole(stage[i])
    /\ installed # NoDirectory => Whole(installed)

\* The import has emptied the directory, or has found it empty; it has moved in,
\* and may have failed to remove its backup.
Between(i) == import[i] \in {"in", "back"} \/ (import[i] = "restore" /\ i \notin stranded)
MovedIn(i) == import[i] = "drop" \/ (import[i] = "restore" /\ i \in stranded)

\* Where the backend is that an import found, by the phase it is in.
Position(i) ==
    /\ before[i] # NoDirectory => Whole(before[i])
    /\ import[i] \in {"idle", "validate", "test"} => before[i] = NoDirectory
    /\ import[i] \in {"idle", "validate", "test", "aside", "in", "drop", "back"} =>
          i \notin stranded
    /\ import[i] = "aside" => had[i] /\ installed = before[i] /\ installed # NoDirectory
    /\ Between(i) => /\ installed = NoDirectory
                     /\ IF had[i] THEN aside[i] = before[i] ELSE before[i] = NoDirectory
    /\ MovedIn(i) => installed # NoDirectory
    /\ import[i] = "back" => had[i]

\* Once a bundle was there, one is.
Survivor ==
    (\E i \in Importer : before[i] # NoDirectory) =>
        Whole(installed) \/ \E j \in Importer : Whole(aside[j])

SurvivalInv ==
    ~overlapped /\ ~tampered =>
        Alternating /\ Prepared /\ (\A i \in Importer : Position(i)) /\ Survivor

\* What the history variables have excluded stays excluded.
LEMMA HistoryGrows ==
    ASSUME [Next]_vars, ~overlapped', ~tampered'
    PROVE  ~overlapped /\ ~tampered
<1> USE DEF importVars, useVars
<1>1. ASSUME NEW i \in Importer, Importing(i) \/ ImportFault(i)
      PROVE  ~overlapped /\ ~tampered
    <2>1. CASE TestPath(i)
        BY <2>1, Zenon DEF TestPath
    <2>2. CASE Stage(i) \/ Validate(i) \/ MoveAside(i) \/ MoveIn(i) \/ MoveInFails(i)
        BY <2>2 DEF Stage, Validate, MoveAside, MoveIn, MoveInFails
    <2>3. CASE \/ DropBackup(i) \/ DropBackupFails(i)
               \/ TestRestore(i) \/ Restore(i) \/ RestoreFails(i)
        BY <2>3 DEF DropBackup, DropBackupFails, TestRestore, Restore, RestoreFails
    <2>4. CASE Cleanup(i) \/ Crash(i)
        BY <2>4 DEF Cleanup, Crash
    <2> QED BY <1>1, <2>1, <2>2, <2>3, <2>4 DEF Importing, ImportFault
<1>2. ASSUME NEW r \in Reader, Using(r) PROVE ~overlapped /\ ~tampered
    BY <1>2 DEF Using, ReadManifest, Collect, Hash, ReadEvidence, CheckProvenance,
                CheckSpdx, CheckInventory, Check, Copy
<1>3. ~Tamper
    BY DEF Tamper
<1>4. CASE UNCHANGED vars
    BY <1>4 DEF vars
<1> QED BY <1>1, <1>2, <1>3, <1>4 DEF Next

LEMMA SurvivalInit == Init => SurvivalInv
<1> SUFFICES ASSUME Init PROVE SurvivalInv
    OBVIOUS
<1>1. Alternating /\ Survivor
    BY DEF Init, Alternating, Survivor, Replacing
<1>2. Prepared
    <2>1. installed # NoDirectory => installed.files = installed.manifest
        <3>1. ASSUME NEW t \in Bundle
              PROVE  LET d == [Complete(t) EXCEPT !.evidence = NoEvidence]
                     IN  d.files = d.manifest
            BY DEF Complete
        <3>2. ASSUME NEW t \in Bundle PROVE Complete(t).files = Complete(t).manifest
            BY DEF Complete
        <3> QED BY <3>1, <3>2 DEF Init
    <2> QED BY <2>1 DEF Init, Prepared, Whole
<1>3. ASSUME NEW i \in Importer PROVE Position(i)
    BY DEF Init, Position, Between, MovedIn
<1> QED BY <1>1, <1>2, <1>3 DEF SurvivalInv

LEMMA SurvivalStep ==
    Directories /\ Bookkeeping /\ SurvivalInv /\ [Next]_vars => SurvivalInv'
<1> SUFFICES ASSUME Directories, Bookkeeping, SurvivalInv, [Next]_vars,
                    ~overlapped', ~tampered'
             PROVE  /\ Alternating' /\ Prepared'
                    /\ (\A i \in Importer : Position(i))' /\ Survivor'
    BY DEF SurvivalInv
<1> DEFINE Kept == /\ Alternating' /\ Prepared'
                   /\ (\A i \in Importer : Position(i))' /\ Survivor'
<1>0. /\ Alternating /\ Prepared /\ (\A i \in Importer : Position(i)) /\ Survivor
      /\ ~overlapped /\ ~tampered
    BY HistoryGrows DEF SurvivalInv
<1> USE <1>0 DEF Directories, Bookkeeping, Alternating, Prepared, Position, Survivor,
                 Between, MovedIn, Replacing, Import, Goto, Disturb
<1>1. ASSUME NEW i \in Importer, Stage(i) PROVE Kept
    <2>1. PICK t \in Bundle : stage' = [stage EXCEPT ![i] = Complete(t)]
        BY <1>1 DEF Stage
    <2>2. Whole(stage'[i])
        BY <2>1, CompleteIsDirectory, NoDirectoryAssumption DEF Whole, Complete
    <2> QED BY <1>1, <2>1, <2>2 DEF Stage
<1>2. ASSUME NEW i \in Importer, Validate(i) PROVE Kept
    BY <1>2 DEF Validate
<1>3. ASSUME NEW i \in Importer, TestPath(i) PROVE Kept
    <2>1. had'[i] <=> installed # NoDirectory
        <3> DEFINE found == installed # NoDirectory
        <3>1. had' = [had EXCEPT ![i] = found]
            BY <1>3 DEF TestPath
        <3> HIDE DEF found
        <3>2. had'[i] = found
            BY <3>1
        <3> QED BY <3>2 DEF found
    <2>2. \A j \in Importer \ {i} : had'[j] = had[j]
        BY <1>3 DEF TestPath
    <2>3. \A j \in Importer \ {i} : ~Replacing(j)
        BY <1>3 DEF TestPath
    <2> QED BY <1>3, <2>1, <2>2, <2>3 DEF TestPath
<1>4. ASSUME NEW i \in Importer, MoveAside(i) PROVE Kept
    BY <1>4 DEF MoveAside
<1>5. ASSUME NEW i \in Importer, MoveIn(i) PROVE Kept
    BY <1>5 DEF MoveIn, Whole
<1>6. ASSUME NEW i \in Importer, MoveInFails(i) PROVE Kept
    BY <1>6 DEF MoveInFails
<1>7. ASSUME NEW i \in Importer, DropBackup(i) PROVE Kept
    BY <1>7 DEF DropBackup
<1>8. ASSUME NEW i \in Importer, DropBackupFails(i) PROVE Kept
    <2>1. Whole(installed) /\ UNCHANGED <<installed, stage, before, had>>
        BY <1>8 DEF DropBackupFails
    <2>2. import' = [import EXCEPT ![i] = "restore"] /\ stranded' = stranded \cup {i}
        BY <1>8 DEF DropBackupFails
    <2>3. \A j \in Importer \ {i} : aside'[j] = aside[j]
        BY <1>8 DEF DropBackupFails
    <2>4. import[i] = "drop"
        BY <1>8 DEF DropBackupFails
    <2> QED BY <2>1, <2>2, <2>3, <2>4
<1>9. ASSUME NEW i \in Importer, Restore(i) PROVE Kept
    BY <1>9 DEF Restore, Whole
<1>10. ASSUME NEW i \in Importer, TestRestore(i) \/ RestoreFails(i) PROVE Kept
    BY <1>10 DEF TestRestore, RestoreFails
<1>11. ASSUME NEW i \in Importer, Cleanup(i) PROVE Kept
    BY <1>11 DEF Cleanup
<1>12. ASSUME NEW i \in Importer, Crash(i) PROVE Kept
    BY <1>12 DEF Crash
<1>13. ASSUME NEW r \in Reader, Using(r) PROVE Kept
    <2>1. UNCHANGED <<importVars, disturbances>>
        BY <1>13 DEF Using, ReadManifest, Collect, Hash, ReadEvidence, CheckProvenance,
                     CheckSpdx, CheckInventory, Check, Copy
    <2> QED BY <2>1 DEF importVars
<1>14. ~Tamper
    BY DEF Tamper
<1>15. CASE UNCHANGED vars
    BY <1>15 DEF vars, importVars
<1> QED BY <1>1, <1>2, <1>3, <1>4, <1>5, <1>6, <1>7, <1>8, <1>9, <1>10, <1>11, <1>12,
           <1>13, <1>14, <1>15 DEF Next, Importing, ImportFault

\* All of it together, for the two theorems below.
AllInv == IInv /\ Bookkeeping /\ SurvivalInv

LEMMA AlwaysAll == Spec => []AllInv
<1>1. Init => AllInv
    BY InitIInv, BookkeepingInit, SurvivalInit DEF AllInv
<1>2. AllInv /\ [Next]_vars => AllInv'
    BY Invariance, BookkeepingStep, SurvivalStep DEF AllInv, IInv
<1> QED BY <1>1, <1>2, PTL DEF Spec

\* Whatever import fails or crashes at whatever step, a whole bundle is in the
\* directory or in a backup beside it, unless imports overlapped.
THEOREM BundleSurvives == Spec => []BackendSurvives
<1>1. AllInv => BackendSurvives
    BY DEF AllInv, SurvivalInv, Survivor, BackendSurvives
<1> QED BY <1>1, AlwaysAll, PTL

\* install-backend.ps1 puts back exactly the directory that it moved aside.
THEOREM FailedImportRestores == Spec => FailureRestores
<1> DEFINE Restored ==
       \A i \in Importer :
          /\ Replacing(i) /\ import'[i] = "cleanup"
          /\ i \notin stranded'
          /\ ~overlapped /\ ~tampered
          => installed' = before[i]
<1>1. AllInv /\ [Next]_vars => [Restored]_vars
    <2> SUFFICES ASSUME AllInv, Next, NEW i \in Importer,
                        Replacing(i), import'[i] = "cleanup",
                        i \notin stranded', ~overlapped, ~tampered
                 PROVE  installed' = before[i]
        OBVIOUS
    <2> USE DEF Bookkeeping, Import, Goto, Disturb, Replacing
    <2>1. Position(i) /\ Bookkeeping
        BY DEF AllInv, SurvivalInv
    <2>2. MoveAside(i) \/ TestRestore(i) \/ Restore(i)
        <3>1. ASSUME NEW j \in Importer, Importing(j) \/ ImportFault(j)
              PROVE  j = i /\ (MoveAside(i) \/ TestRestore(i) \/ Restore(i))
            BY <2>1, <3>1 DEF Importing, ImportFault, Stage, Validate, TestPath, MoveAside,
                   MoveIn, MoveInFails, DropBackup, DropBackupFails, TestRestore, Restore,
                   RestoreFails,
                   Cleanup, Crash
        <3>2. ASSUME NEW r \in Reader, Using(r) PROVE FALSE
            BY <3>2 DEF Using, ReadManifest, Collect, Hash, ReadEvidence, CheckProvenance,
                        CheckSpdx, CheckInventory, Check, Copy, importVars
        <3>3. ~Tamper
            BY DEF Tamper
        <3> QED BY <3>1, <3>2, <3>3 DEF Next
    <2>3. CASE MoveAside(i)
        BY <2>1, <2>3 DEF MoveAside, Position
    <2>4. CASE Restore(i)
        BY <2>1, <2>4 DEF Restore, Position, Between
    <2>5. CASE TestRestore(i)
        BY <2>1, <2>5 DEF TestRestore, Position, Between
    <2> QED BY <2>2, <2>3, <2>4, <2>5
<1>2. FailureRestores <=> [][Restored]_vars
    BY DEF FailureRestores
<1> QED BY <1>1, <1>2, AlwaysAll, PTL DEF Spec
=============================================================================
