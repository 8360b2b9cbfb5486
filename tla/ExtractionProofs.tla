-------------------------- MODULE ExtractionProofs --------------------------
(***************************************************************************)
(* The safety of Extraction for all archives, trees and hostile processes. *)
(***************************************************************************)
EXTENDS Extraction, TLAPS

\* Publication, seen from the phases: the payload is decided by the commit,
\* clean, and at the destination once the outcome is "published".
Published ==
    /\ pc \in Staging => outcome[Self] = "running"
    /\ payload[Self] # Nothing => payload[Self] \in Clean
    /\ pc \in Staging \ {"publish"} => payload[Self] = Nothing
    /\ outcome[Self] = "published" =>
          payload[Self] # Nothing /\ dest[Target] = [by |-> Self, tree |-> payload[Self]]

\* The extracting process was not touched, nor anything it reads.
Untouched == compromised # {} => sandboxed /\ compromised = {"listing"}

\* What the sandbox then holds in each phase.
Faithful ==
    Untouched =>
        /\ pc \in {"input"} \cup Reading \cup Staged => backend = "pinned"
        /\ pc \in Reading \cup Staged => archive = snapshot
        /\ pc = "extracting" => output = EmptyTree
        /\ pc \in Staged => output = Yields[snapshot]
        /\ pc \in Staged /\ selective /\ pc \notin {"extracted", "select"} =>
              selected = Selection[Yields[snapshot]]
        /\ payload[Self] # Nothing => Yields[snapshot] # Nothing /\ payload[Self] = Promised

IInv == TypeOK /\ Published /\ Faithful

-----------------------------------------------------------------------------
\* The initial states satisfy the invariant.
LEMMA InitIInv == Init => IInv
<1> SUFFICES ASSUME Init PROVE IInv
  OBVIOUS
<1> USE DEF Init, P!Init
<1>1. dest \in [{Target} -> [by : {Self, Other}, tree : Tree] \cup {Nothing}]
  <2>1. [by : {Other}, tree : Tree] \subseteq [by : {Self, Other}, tree : Tree]
    OBVIOUS
  <2> QED
    BY <2>1
<1>2. pc = "open" /\ payload[Self] = Nothing /\ outcome[Self] = "running" /\ compromised = {}
  OBVIOUS
<1>3. TypeOK
  BY <1>1, ExtractionAssumption DEF TypeOK, Phase, Staging, Reading, Staged, Ended, Pass
<1>4. Published
  BY <1>2 DEF Published, Staging, Reading, Staged
<1>5. Faithful
  BY <1>2 DEF Faithful, Reading, Staged
<1> QED
  BY <1>3, <1>4, <1>5 DEF IInv

\* Every step keeps the types.
LEMMA TypeStep == TypeOK /\ Published /\ [Next]_vars => TypeOK'
<1> SUFFICES ASSUME TypeOK, Published, [Next]_vars PROVE TypeOK'
  OBVIOUS
<1> USE ExtractionAssumption DEF TypeOK, Published, Phase, Staging, Reading, Staged, Ended,
        Pass, Goto, Fail, Require, Disturb, P!Stop
<1>1. CASE Open
  BY <1>1 DEF Open, workspace, publication
<1>2. CASE Guard
  BY <1>2 DEF Guard, request, workspace, publication
<1>3. CASE NewSandbox
  BY <1>3 DEF NewSandbox, request, workspace, publication
<1>4. CASE CopyBackend
  BY <1>4 DEF CopyBackend, request, publication
<1>5. CASE CopyArchive
  BY <1>5 DEF CopyArchive, request, publication
<1>6. CASE List
  BY <1>6 DEF List, request, workspace, publication
<1>7. CASE CheckListed
  BY <1>7 DEF CheckListed, request, workspace, publication
<1>8. CASE CreateOutput
  BY <1>8 DEF CreateOutput, request, publication
<1>9. CASE Extract
  BY <1>9 DEF Extract, Extracted, request, publication
<1>10. CASE AuditOutput
  BY <1>10 DEF AuditOutput, request, workspace, publication
<1>11. CASE Select
  BY <1>11 DEF Select, Chosen, request, publication
<1>12. CASE Commit
  BY <1>12 DEF Commit, P!Decide, request, workspace
<1>13. CASE Publish
  <2>1. CASE P!Publish(Self, Target) /\ Goto("finish") /\ UNCHANGED failed
    <3>1. [by |-> Self, tree |-> payload[Self]] \in [by : {Self, Other}, tree : Tree]
      BY <2>1 DEF P!Publish
    <3>2. dest' \in [{Target} -> [by : {Self, Other}, tree : Tree] \cup {Nothing}]
      BY <2>1, <3>1 DEF P!Publish
    <3> QED
      BY <1>13, <2>1, <3>2 DEF Publish, P!Publish, request, workspace
  <2>2. CASE dest[Target] # Nothing /\ Fail
    BY <1>13, <2>2 DEF Publish, request, workspace
  <2> QED
    BY <1>13, <2>1, <2>2 DEF Publish
<1>14. CASE Finish
  <2>1. \/ failed' = failed /\ disturbances' = disturbances
        \/ failed' = TRUE /\ disturbances' = disturbances + 1
    BY <1>14, Zenon DEF Finish
  <2>2. failed' \in BOOLEAN
    BY <2>1, Zenon
  <2>3. disturbances' = disturbances \/ disturbances' = disturbances + 1
    BY <2>1, Zenon
  <2>4. disturbances' \in Nat
    BY <2>3
  <2> QED
    BY <1>14, <2>2, <2>4 DEF Finish, request, workspace, publication
<1>15. CASE Show
  <2>1. \/ failed' = failed /\ disturbances' = disturbances
        \/ failed' = TRUE /\ disturbances' = disturbances + 1
    BY <1>15, Zenon DEF Show
  <2>2. failed' \in BOOLEAN
    BY <2>1, Zenon
  <2>3. disturbances' = disturbances \/ disturbances' = disturbances + 1
    BY <2>1, Zenon
  <2>4. disturbances' \in Nat
    BY <2>3
  <2> QED
    BY <1>15, <2>2, <2>4 DEF Show, request, workspace, publication
<1>16. CASE Cleanup
  BY <1>16 DEF Cleanup, request, workspace, publication
<1>17. CASE StepFails
  BY <1>17 DEF StepFails, request, workspace
<1>18. CASE Crash
  BY <1>18 DEF Crash, request, workspace
<1>19. CASE Misbehave
  BY <1>19 DEF Misbehave, Active, Sealed, request, publication
<1>20. CASE UserRewrites
  BY <1>20 DEF UserRewrites, workspace, publication
<1>21. CASE SomeoneElseCreates
  BY <1>21 DEF SomeoneElseCreates, P!SomeoneElseCreates, request, workspace
<1>22. CASE UNCHANGED vars
  BY <1>22 DEF vars, request, workspace, publication
<1> QED
  BY <1>1, <1>2, <1>3, <1>4, <1>5, <1>6, <1>7, <1>8, <1>9, <1>10, <1>11, <1>12, <1>13,
     <1>14, <1>15, <1>16, <1>17, <1>18, <1>19, <1>20, <1>21, <1>22 DEF Next, Step
\* Every step keeps what is known of the publication.
LEMMA PublishedStep == TypeOK /\ Published /\ [Next]_vars => Published'
<1> SUFFICES ASSUME TypeOK, Published, [Next]_vars PROVE Published'
  OBVIOUS
<1> USE ExtractionAssumption DEF TypeOK, Published, Staging, Reading, Staged, Ended,
        Goto, Fail, Require, P!Stop, request, workspace, publication
<1>1. CASE Open
  BY <1>1 DEF Open
<1>2. CASE Guard
  BY <1>2 DEF Guard
<1>3. CASE NewSandbox
  BY <1>3 DEF NewSandbox
<1>4. CASE CopyBackend
  BY <1>4 DEF CopyBackend
<1>5. CASE CopyArchive
  BY <1>5 DEF CopyArchive
<1>6. CASE List
  BY <1>6 DEF List
<1>7. CASE CheckListed
  BY <1>7 DEF CheckListed
<1>8. CASE CreateOutput
  BY <1>8 DEF CreateOutput
<1>9. CASE Extract
  BY <1>9 DEF Extract, Extracted
<1>10. CASE AuditOutput
  BY <1>10 DEF AuditOutput
<1>11. CASE Select
  BY <1>11 DEF Select, Chosen
<1>12. CASE Commit
  BY <1>12 DEF Commit, P!Decide
<1>13. CASE Publish
  BY <1>13 DEF Publish, P!Publish, P!Replaceable
<1>14. CASE Finish
  BY <1>14 DEF Finish
<1>15. CASE Show
  BY <1>15 DEF Show
<1>16. CASE Cleanup
  BY <1>16 DEF Cleanup
<1>17. CASE StepFails
  BY <1>17 DEF StepFails
<1>18. CASE Crash
  BY <1>18 DEF Crash
<1>19. CASE Misbehave
  BY <1>19 DEF Misbehave, Active, Sealed
<1>20. CASE UserRewrites
  BY <1>20 DEF UserRewrites
<1>21. CASE SomeoneElseCreates
  BY <1>21 DEF SomeoneElseCreates, P!SomeoneElseCreates
<1>22. CASE UNCHANGED vars
  BY <1>22 DEF vars
<1> QED
  BY <1>1, <1>2, <1>3, <1>4, <1>5, <1>6, <1>7, <1>8, <1>9, <1>10, <1>11, <1>12, <1>13,
     <1>14, <1>15, <1>16, <1>17, <1>18, <1>19, <1>20, <1>21, <1>22 DEF Next, Step

\* Every step keeps the sandbox of an untouched extraction faithful.
LEMMA FaithfulStep == TypeOK /\ Published /\ Faithful /\ [Next]_vars => Faithful'
<1> SUFFICES ASSUME TypeOK, Published, Faithful, [Next]_vars PROVE Faithful'
  OBVIOUS
<1> USE ExtractionAssumption DEF TypeOK, Published, Faithful, Untouched, Promised, Staging,
        Reading, Staged, Ended, Pass, Goto, Fail, Require, P!Stop, request, workspace,
        publication
<1>1. CASE Open
  BY <1>1 DEF Open
<1>2. CASE Guard
  BY <1>2 DEF Guard
<1>3. CASE NewSandbox
  BY <1>3 DEF NewSandbox
<1>4. CASE CopyBackend
  BY <1>4 DEF CopyBackend
<1>5. CASE CopyArchive
  BY <1>5 DEF CopyArchive
<1>6. CASE List
  BY <1>6 DEF List
<1>7. CASE CheckListed
  BY <1>7 DEF CheckListed
<1>8. CASE CreateOutput
  BY <1>8 DEF CreateOutput
<1>9. CASE Extract
  BY <1>9 DEF Extract, Extracted
<1>10. CASE AuditOutput
  BY <1>10 DEF AuditOutput
<1>11. CASE Select
  BY <1>11 DEF Select, Chosen
<1>12. CASE Commit
  BY <1>12 DEF Commit, P!Decide
<1>13. CASE Publish
  BY <1>13 DEF Publish, P!Publish, P!Replaceable
<1>14. CASE Finish
  BY <1>14 DEF Finish
<1>15. CASE Show
  BY <1>15 DEF Show
<1>16. CASE Cleanup
  BY <1>16 DEF Cleanup
<1>17. CASE StepFails
  BY <1>17 DEF StepFails
<1>18. CASE Crash
  BY <1>18 DEF Crash
<1>19. CASE Misbehave
  BY <1>19 DEF Misbehave, Active, Sealed
<1>20. CASE UserRewrites
  BY <1>20 DEF UserRewrites
<1>21. CASE SomeoneElseCreates
  BY <1>21 DEF SomeoneElseCreates, P!SomeoneElseCreates
<1>22. CASE UNCHANGED vars
  BY <1>22 DEF vars
<1> QED
  BY <1>1, <1>2, <1>3, <1>4, <1>5, <1>6, <1>7, <1>8, <1>9, <1>10, <1>11, <1>12, <1>13,
     <1>14, <1>15, <1>16, <1>17, <1>18, <1>19, <1>20, <1>21, <1>22 DEF Next, Step

-----------------------------------------------------------------------------
\* The inductive invariant.
LEMMA Invariance == Spec => []IInv
<1>1. IInv /\ [Next]_vars => IInv'
  BY TypeStep, PublishedStep, FaithfulStep DEF IInv
<1> QED
  BY InitIInv, <1>1, PTL DEF Spec

\* Every reachable state of an extraction is well formed: each phase finds the
\* snapshot, the archive and the trees that it reads.
THEOREM ExtractionTypeCorrect == Spec => []TypeOK
<1>1. IInv => TypeOK
  BY DEF IInv
<1> QED
  BY Invariance, <1>1, PTL

\* Only audited trees are published, for any archive and any hostile process.
THEOREM PublicationIsClean == Spec => []PublishedIsClean
<1>1. IInv => PublishedIsClean
  BY DEF IInv, Published, PublishedIsClean
<1> QED
  BY Invariance, <1>1, PTL

\* A listing process that was taken over cannot change what is published.
THEOREM PassesAreSeparate == Spec => []ListingCannotSteer
<1>1. IInv => ListingCannotSteer
  BY DEF IInv, Faithful, Untouched, ListingCannotSteer
<1> QED
  BY Invariance, <1>1, PTL
=============================================================================
