------------------------ MODULE ArchiveCreationProofs ------------------------
(***************************************************************************)
(* What create_archive publishes reproduces its source: a proof for any    *)
(* number of creations, outputs, trees and archives, any backend and any   *)
(* bound on the disturbances.                                              *)
(***************************************************************************)
EXTENDS ArchiveCreation, TLAPS

\* The phases after the comparison of the extracted tree with the source.
Compared == {"recheck", "reopen", "create", "write", "readback"}

\* The archive that was compared is the one that may be published.
Comparison(c) ==
    /\ pc[c] \in {"pack", "run", "check", "verify"} \cup Compared =>
          expected[c] = source[c]
    /\ pc[c] \in {"check", "verify"} => archive[c] \in Archive
    /\ pc[c] \in Compared =>
          verified[c] \in Archive /\ Yields[verified[c].bytes] = source[c]

\* The types that the argument needs.
Shapes ==
    /\ output \in [Creator -> Output]
    /\ source \in [Creator -> Tree]
    /\ staged \in [Creator -> Tree \cup {Nothing}]
    /\ expected \in [Creator -> Tree \cup {Nothing}]
    /\ pax \in [Creator -> Tree \cup {Nothing}]
    /\ archive \in [Creator -> Archive \cup {Nothing}]
    /\ verified \in [Creator -> Archive \cup {Nothing}]
    /\ file \in [Output -> File \cup {Nothing}]
    /\ pc \in [Creator -> Phase]
    /\ disturbances \in 0..MaxDisturbances

CreationInv ==
    /\ Shapes
    /\ \A c \in Creator : Comparison(c)
    /\ PublishedReproducesSource

LEMMA CreationInit == Init => CreationInv
BY CreationAssumption
   DEF Init, CreationInv, Shapes, Comparison, Compared, PublishedReproducesSource,
       Mine, Phase

\* Steps that write no archive under a final name: they remove one, or begin
\* one, or close its handle.
NoNewArchive ==
    \A o \in Output : file'[o] # Nothing /\ file'[o].bytes # Torn =>
        /\ file[o] # Nothing
        /\ file'[o].by = file[o].by
        /\ file'[o].bytes = file[o].bytes

LEMMA Preserved ==
    ASSUME output \in [Creator -> Output], PublishedReproducesSource,
           UNCHANGED <<output, source>>, NoNewArchive
    PROVE  PublishedReproducesSource'
BY DEF PublishedReproducesSource, Mine, NoNewArchive

LEMMA Closing == \A f \in File : [f EXCEPT !.open = FALSE] \in File
BY DEF File

LEMMA CreationStep == CreationInv /\ [Next]_vars => CreationInv'
<1> SUFFICES ASSUME CreationInv, [Next]_vars
             PROVE  CreationInv'
  OBVIOUS
<1> USE CreationAssumption
    DEF CreationInv, Shapes, Comparison, Compared, PublishedReproducesSource, Mine,
        Phase, Goto, Disturb, sandbox
<1>1. ASSUME NEW c \in Creator, Begin(c) PROVE CreationInv'
  BY <1>1 DEF Begin
<1>2. ASSUME NEW c \in Creator, CopySource(c) PROVE CreationInv'
  BY <1>2 DEF CopySource
<1>3. ASSUME NEW c \in Creator, WritePax(c) PROVE CreationInv'
  BY <1>3 DEF WritePax
<1>4. ASSUME NEW c \in Creator, RunBackend(c) PROVE CreationInv'
  BY <1>4 DEF RunBackend, Archive
<1>5. ASSUME NEW c \in Creator, BackendMisbehaves(c) PROVE CreationInv'
  BY <1>5 DEF BackendMisbehaves, Archive
<1>6. ASSUME NEW c \in Creator, CheckInputs(c) PROVE CreationInv'
  BY <1>6 DEF CheckInputs
<1>7. ASSUME NEW c \in Creator, Verify(c) PROVE CreationInv'
  BY <1>7 DEF Verify
<1>8. ASSUME NEW c \in Creator, Recheck(c) PROVE CreationInv'
  BY <1>8 DEF Recheck
<1>9. ASSUME NEW c \in Creator, Reopen(c) PROVE CreationInv'
  BY <1>9 DEF Reopen
<1>10. ASSUME NEW c \in Creator, CreateTarget(c) PROVE CreationInv'
  <2> DEFINE f == [by |-> c, bytes |-> Torn, open |-> TRUE]
  <2>1. f \in File /\ f.bytes = Torn /\ output[c] \in Output
    BY DEF File
  <2>2. UNCHANGED <<sandbox, disturbances>> /\ pc[c] = "create"
    BY <1>10 DEF CreateTarget
  <2>3. file' = file \/ file' = [file EXCEPT ![output[c]] = f]
    BY <1>10 DEF CreateTarget
  <2>4. file' \in [Output -> File \cup {Nothing}] /\ NoNewArchive
    <3> HIDE DEF f
    <3>1. file' \in [Output -> File \cup {Nothing}]
      BY <2>1, <2>3
    <3>2. \A o \in Output : file'[o] = file[o] \/ file'[o] = f
      BY <2>1, <2>3
    <3> QED
      BY <2>1, <3>1, <3>2 DEF NoNewArchive
  <2>5. pc' = [pc EXCEPT ![c] = "write"] \/ pc' = [pc EXCEPT ![c] = "remove"]
    BY <1>10 DEF CreateTarget
  <2>6. PublishedReproducesSource'
    BY <2>2, <2>4, Preserved
  <2>7. Shapes'
    BY <2>2, <2>4, <2>5
  <2>8. ASSUME NEW d \in Creator PROVE Comparison(d)'
    BY <2>2, <2>5
  <2> QED
    BY <2>6, <2>7, <2>8
<1>11. ASSUME NEW c \in Creator, WriteTarget(c) PROVE CreationInv'
  BY <1>11 DEF WriteTarget, File, Archive
<1>12. ASSUME NEW c \in Creator, ReadBack(c) PROVE CreationInv'
  <2>1. UNCHANGED <<sandbox, disturbances>> /\ pc[c] = "readback"
    BY <1>12 DEF ReadBack
  <2>2. \/ file' = file
        \/ /\ file[output[c]] \in File
           /\ file' = [file EXCEPT ![output[c]] = [file[output[c]] EXCEPT !.open = FALSE]]
    BY <1>12 DEF ReadBack
  <2>3. file' \in [Output -> File \cup {Nothing}]
    BY <2>2, Closing
  <2>4. NoNewArchive
    BY <2>2 DEF NoNewArchive, File
  <2>5. pc' = [pc EXCEPT ![c] = "finish"] \/ pc' = [pc EXCEPT ![c] = "remove"]
    BY <1>12 DEF ReadBack
  <2>6. PublishedReproducesSource'
    BY <2>1, <2>4, Preserved
  <2>7. Shapes'
    BY <2>1, <2>3, <2>5
  <2>8. ASSUME NEW d \in Creator PROVE Comparison(d)'
    BY <2>1, <2>5
  <2> QED
    BY <2>6, <2>7, <2>8
<1>13. ASSUME NEW c \in Creator, CopyFails(c) PROVE CreationInv'
  BY <1>13 DEF CopyFails
<1>14. ASSUME NEW c \in Creator, RemoveTarget(c) PROVE CreationInv'
  <2>1. /\ UNCHANGED <<sandbox, disturbances>>
        /\ pc[c] = "remove"
        /\ pc' = [pc EXCEPT ![c] = "cleanup"]
    BY <1>14 DEF RemoveTarget
  <2>2. \/ file' = [file EXCEPT ![output[c]] = Nothing]
        \/ file' = [file EXCEPT ![output[c]] = file[output[c]]]
        \/ /\ file[output[c]] \in File
           /\ file' = [file EXCEPT ![output[c]] = [file[output[c]] EXCEPT !.open = FALSE]]
    BY <1>14 DEF RemoveTarget
  <2>3. file' \in [Output -> File \cup {Nothing}]
    BY <2>2, Closing
  <2>4. NoNewArchive
    BY <2>2 DEF NoNewArchive, File
  <2>5. PublishedReproducesSource'
    BY <2>1, <2>4, Preserved
  <2>6. Shapes'
    BY <2>1, <2>3
  <2>7. ASSUME NEW d \in Creator PROVE Comparison(d)'
    BY <2>1
  <2> QED
    BY <2>5, <2>6, <2>7
<1>15. ASSUME NEW c \in Creator, Finish(c) \/ FinishFails(c) \/ Cleanup(c) PROVE CreationInv'
  BY <1>15 DEF Finish, FinishFails, Cleanup
<1>16. ASSUME NEW c \in Creator, StepFails(c) PROVE CreationInv'
  BY <1>16 DEF StepFails
<1>17. ASSUME NEW c \in Creator, Crash(c) PROVE CreationInv'
  <2>1. /\ UNCHANGED sandbox
        /\ disturbances' \in 0..MaxDisturbances
        /\ pc' = [pc EXCEPT ![c] = "crashed"]
    BY <1>17 DEF Crash
  <2>2. \/ file' = [file EXCEPT ![output[c]] = file[output[c]]]
        \/ /\ file[output[c]] \in File
           /\ file' = [file EXCEPT ![output[c]] = [file[output[c]] EXCEPT !.open = FALSE]]
    BY <1>17 DEF Crash
  <2>3. file' \in [Output -> File \cup {Nothing}]
    BY <2>2, Closing
  <2>4. NoNewArchive
    BY <2>2 DEF NoNewArchive, File
  <2>5. PublishedReproducesSource'
    BY <2>1, <2>4, Preserved
  <2>6. Shapes'
    BY <2>1, <2>3
  <2>7. ASSUME NEW d \in Creator PROVE Comparison(d)'
    BY <2>1
  <2> QED
    BY <2>5, <2>6, <2>7
<1>18. ASSUME NEW c \in Creator, TamperSandbox(c) PROVE CreationInv'
  <2>1. /\ UNCHANGED <<output, source, expected, pax, packed, verified, file, pc>>
        /\ disturbances' \in 0..MaxDisturbances
    BY <1>18 DEF TamperSandbox
  <2>2. /\ archive' \in [Creator -> Archive \cup {Nothing}]
        /\ staged' \in [Creator -> Tree \cup {Nothing}]
        /\ \A d \in Creator : archive[d] \in Archive => archive'[d] \in Archive
    <3>1. CASE /\ \E b \in Bytes : archive' = [archive EXCEPT ![c] =
                                      [bytes |-> b, at |-> disturbances']]
               /\ UNCHANGED staged
      BY <2>1, <3>1 DEF Archive
    <3>2. CASE /\ \E t \in Tree : staged' = [staged EXCEPT ![c] = t]
               /\ UNCHANGED archive
      BY <3>2
    <3> QED
      BY <1>18, <3>1, <3>2 DEF TamperSandbox
  <2>3. Shapes'
    BY <2>1, <2>2
  <2> QED
    BY <2>1, <2>2, <2>3
<1>19. ASSUME NEW o \in Output, SomeoneElseCreates(o) PROVE CreationInv'
  BY <1>19 DEF SomeoneElseCreates, File
<1>20. CASE UNCHANGED vars
  BY <1>20 DEF vars
<1> QED
  BY <1>1, <1>2, <1>3, <1>4, <1>5, <1>6, <1>7, <1>8, <1>9, <1>10, <1>11, <1>12,
     <1>13, <1>14, <1>15, <1>16, <1>17, <1>18, <1>19, <1>20 DEF Next, Step, Fault

\* Every complete archive that create_archive leaves at an output extracts to
\* the tree that was copied from the source.
THEOREM CreationSafe == Spec => []PublishedReproducesSource
<1>1. CreationInv => PublishedReproducesSource
  BY DEF CreationInv
<1> QED
  BY <1>1, CreationInit, CreationStep, PTL DEF Spec

-----------------------------------------------------------------------------
(* What a creation has at its output, by its phase. *)

\* A handle is open, and an archive is torn, only while the copy is made or
\* undone; but a crash, and a removal that may fail, leave a torn one.
Handles(c) ==
    Mine(c) =>
        /\ file[output[c]].open => pc[c] \in {"write", "readback", "remove"}
        /\ ~RemovalMayFail /\ file[output[c]].bytes = Torn =>
              pc[c] \in {"write", "remove", "crashed"}

HandlesInv == \A c \in Creator : Handles(c)

\* A step of one creation leaves the files of the others as they are.
LEMMA OwnFile ==
    ASSUME Shapes, HandlesInv, NEW c \in Creator, UNCHANGED output,
           \A d \in Creator \ {c} : pc'[d] = pc[d],
           \A o \in Output : \/ file'[o] = file[o]
                             \/ file'[o] = Nothing
                             \/ file'[o].by = c,
           Handles(c)'
    PROVE  HandlesInv'
<1>1. ASSUME NEW d \in Creator, d # c PROVE Handles(d)'
  <2>1. output[d] \in Output /\ output'[d] = output[d] /\ pc'[d] = pc[d]
    BY <1>1 DEF Shapes
  <2>2. Mine(d)' => file'[output[d]] = file[output[d]]
    BY <1>1, <2>1 DEF Mine
  <2> QED
    BY <2>1, <2>2 DEF HandlesInv, Handles, Mine
<1> QED
  BY <1>1 DEF HandlesInv

\* A step that touches no file and leads to a phase that allows what the last
\* one allowed.
LEMMA SameFile ==
    ASSUME Shapes, HandlesInv, NEW c \in Creator, UNCHANGED <<output, file>>,
           NEW phase \in Phase, pc' = [pc EXCEPT ![c] = phase],
           \/ pc[c] \notin {"write", "readback", "remove", "crashed"}
           \/ phase = "remove"
    PROVE  HandlesInv'
<1>1. pc'[c] = phase /\ \A d \in Creator \ {c} : pc'[d] = pc[d]
  BY DEF Shapes
<1>2. Handles(c)'
  BY <1>1 DEF HandlesInv, Handles, Mine
<1> QED
  BY <1>1, <1>2, OwnFile

LEMMA HandlesInit == Init => HandlesInv
BY DEF Init, HandlesInv, Handles, Mine

LEMMA HandlesStep == CreationInv /\ HandlesInv /\ [Next]_vars => HandlesInv'
<1> SUFFICES ASSUME CreationInv, HandlesInv, [Next]_vars
             PROVE  HandlesInv'
  OBVIOUS
<1> USE CreationAssumption DEF sandbox
<1>0. Shapes
  BY DEF CreationInv
<1>1. ASSUME NEW c \in Creator,
             \/ Begin(c) \/ CheckInputs(c) \/ Recheck(c) \/ Reopen(c) \/ Finish(c)
             \/ Cleanup(c) \/ FinishFails(c) \/ StepFails(c)
      PROVE  HandlesInv'
  <2>1. /\ UNCHANGED <<output, file>>
        /\ pc[c] \notin {"write", "readback", "remove", "crashed"}
        /\ \E phase \in Phase : pc' = [pc EXCEPT ![c] = phase]
    BY <1>1 DEF Begin, CheckInputs, Recheck, Reopen, Finish, Cleanup, FinishFails, StepFails,
                Goto, Phase
  <2> QED
    BY <1>0, <2>1, SameFile
<1>2. ASSUME NEW c \in Creator,
             \/ CopySource(c) \/ WritePax(c) \/ RunBackend(c) \/ BackendMisbehaves(c)
             \/ Verify(c)
      PROVE  HandlesInv'
  <2>1. /\ UNCHANGED <<output, file>>
        /\ pc[c] \notin {"write", "readback", "remove", "crashed"}
        /\ \E phase \in Phase : pc' = [pc EXCEPT ![c] = phase]
    BY <1>2 DEF CopySource, WritePax, RunBackend, BackendMisbehaves, Verify, Goto, Phase
  <2> QED
    BY <1>0, <2>1, SameFile
<1>3. ASSUME NEW c \in Creator, CopyFails(c) PROVE HandlesInv'
  BY <1>0, <1>3, SameFile DEF CopyFails, Goto, Phase
<1>4. ASSUME NEW c \in Creator, CreateTarget(c) PROVE HandlesInv'
  <2> DEFINE f == [by |-> c, bytes |-> Torn, open |-> TRUE]
  <2>1. UNCHANGED output /\ output[c] \in Output /\ f.by = c
    BY <1>0, <1>4 DEF CreateTarget, Shapes
  <2>2. CASE /\ file' = [file EXCEPT ![output[c]] = f]
             /\ pc' = [pc EXCEPT ![c] = "write"]
    <3> HIDE DEF f
    <3>1. /\ pc'[c] = "write"
          /\ \A d \in Creator \ {c} : pc'[d] = pc[d]
          /\ \A o \in Output : file'[o] = file[o] \/ file'[o] = f
      BY <1>0, <2>2 DEF Shapes
    <3>2. Handles(c)'
      BY <3>1 DEF Handles
    <3> QED
      BY <1>0, <2>1, <3>1, <3>2, OwnFile
  <2>3. CASE UNCHANGED file /\ pc' = [pc EXCEPT ![c] = "remove"]
    BY <1>0, <2>1, <2>3, SameFile DEF Phase
  <2> QED
    BY <1>4, <2>2, <2>3 DEF CreateTarget, Goto
<1>5. ASSUME NEW c \in Creator, WriteTarget(c) PROVE HandlesInv'
  <2>1. UNCHANGED output /\ output[c] \in Output /\ pc[c] = "write"
    BY <1>0, <1>5 DEF WriteTarget, Shapes
  <2>2. CASE UNCHANGED file /\ pc' = [pc EXCEPT ![c] = "remove"]
    BY <1>0, <2>1, <2>2, SameFile DEF Phase
  <2>3. CASE pc' = [pc EXCEPT ![c] = "readback"] /\ archive[c] = verified[c]
    <3>1. /\ pc'[c] = "readback"
          /\ \A d \in Creator \ {c} : pc'[d] = pc[d]
      BY <1>0, <2>3 DEF Shapes
    <3>2. archive[c].bytes \in Bytes /\ archive[c].bytes # Torn
      BY <2>1, <2>3 DEF CreationInv, Comparison, Compared, Archive
    <3>3. CASE Mine(c)
      <4>1. file[output[c]] \in File
        BY <1>0, <2>1, <3>3 DEF Shapes, Mine
      <4>2. file' = [file EXCEPT ![output[c]] =
                        [file[output[c]] EXCEPT !.bytes = archive[c].bytes]]
        BY <1>5, <2>3, <3>3 DEF WriteTarget, Goto
      <4>3. /\ \A o \in Output : file'[o] = file[o] \/ file'[o].by = c
            /\ file'[output[c]].bytes = archive[c].bytes
        BY <1>0, <2>1, <3>3, <4>1, <4>2 DEF Shapes, Mine, File
      <4>4. Handles(c)'
        BY <2>1, <3>1, <3>2, <4>3 DEF Handles
      <4> QED
        BY <1>0, <2>1, <3>1, <4>3, <4>4, OwnFile
    <3>4. CASE ~Mine(c)
      <4>1. UNCHANGED file
        BY <1>5, <2>3, <3>4 DEF WriteTarget
      <4>2. Handles(c)'
        BY <2>1, <3>4, <4>1 DEF Handles, Mine
      <4> QED
        BY <1>0, <2>1, <3>1, <4>1, <4>2, OwnFile
    <3> QED
      BY <3>3, <3>4
  <2> QED
    BY <1>5, <2>2, <2>3 DEF WriteTarget, Goto
<1>6. ASSUME NEW c \in Creator, ReadBack(c) PROVE HandlesInv'
  <2>1. UNCHANGED output /\ output[c] \in Output /\ pc[c] = "readback"
    BY <1>0, <1>6 DEF ReadBack, Shapes
  <2>2. CASE UNCHANGED file /\ pc' = [pc EXCEPT ![c] = "remove"]
    BY <1>0, <2>1, <2>2, SameFile DEF Phase
  <2>3. CASE /\ Mine(c)
             /\ file' = [file EXCEPT ![output[c]].open = FALSE]
             /\ pc' = [pc EXCEPT ![c] = "finish"]
    <3>1. /\ pc'[c] = "finish"
          /\ \A d \in Creator \ {c} : pc'[d] = pc[d]
      BY <1>0, <2>3 DEF Shapes
    <3>2. file[output[c]] \in File
      BY <1>0, <2>1, <2>3 DEF Shapes, Mine
    <3>3. /\ \A o \in Output : file'[o] = file[o] \/ file'[o].by = c
          /\ file'[output[c]].bytes = file[output[c]].bytes
          /\ file'[output[c]].open = FALSE
      BY <1>0, <2>1, <2>3, <3>2 DEF Shapes, Mine, File
    <3>4. Handles(c)'
      BY <2>1, <2>3, <3>1, <3>3 DEF HandlesInv, Handles, Mine
    <3> QED
      BY <1>0, <2>1, <3>1, <3>3, <3>4, OwnFile
  <2> QED
    BY <1>6, <2>2, <2>3 DEF ReadBack, Goto
<1>7. ASSUME NEW c \in Creator, RemoveTarget(c) PROVE HandlesInv'
  <2>1. /\ UNCHANGED output
        /\ output[c] \in Output
        /\ pc' = [pc EXCEPT ![c] = "cleanup"]
    BY <1>0, <1>7 DEF RemoveTarget, Goto, Shapes
  <2>2. pc'[c] = "cleanup" /\ \A d \in Creator \ {c} : pc'[d] = pc[d]
    BY <1>0, <2>1 DEF Shapes
  <2>3. CASE file' = [file EXCEPT ![output[c]] = Nothing]
    <3>1. /\ \A o \in Output : file'[o] = file[o] \/ file'[o] = Nothing
          /\ file'[output[c]] = Nothing
      BY <1>0, <2>1, <2>3 DEF Shapes
    <3>2. Handles(c)'
      BY <2>1, <3>1 DEF Handles, Mine
    <3> QED
      BY <1>0, <2>1, <2>2, <3>1, <3>2, OwnFile
  <2>4. CASE Mine(c) /\ RemovalMayFail /\ file' = [file EXCEPT ![output[c]].open = FALSE]
    <3>1. file[output[c]] \in File
      BY <1>0, <2>1, <2>4 DEF Shapes, Mine
    <3>2. /\ \A o \in Output : file'[o] = file[o] \/ file'[o].by = c
          /\ file'[output[c]].open = FALSE
      BY <1>0, <2>1, <2>4, <3>1 DEF Shapes, Mine, File
    <3>3. Handles(c)'
      BY <2>1, <2>4, <3>2 DEF Handles
    <3> QED
      BY <1>0, <2>1, <2>2, <3>2, <3>3, OwnFile
  <2>5. CASE ~Mine(c) /\ file' = [file EXCEPT ![output[c]] = @]
    <3>1. \A o \in Output : file'[o] = file[o]
      BY <1>0, <2>5 DEF Shapes
    <3>2. Handles(c)'
      BY <2>1, <2>5, <3>1 DEF Handles, Mine
    <3> QED
      BY <1>0, <2>1, <2>2, <3>1, <3>2, OwnFile
  <2>6. CASE (Removable(c) => RemovalMayFail) /\ ~Mine(c)
             /\ file' = [file EXCEPT ![output[c]] = IF Mine(c) THEN [@ EXCEPT !.open = FALSE] ELSE @]
    BY <2>5, <2>6
  <2> QED
    BY <1>7, <2>3, <2>4, <2>6 DEF RemoveTarget, Removable, Mine
<1>8. ASSUME NEW c \in Creator, Crash(c) PROVE HandlesInv'
  <2>1. /\ UNCHANGED output
        /\ output[c] \in Output
        /\ pc' = [pc EXCEPT ![c] = "crashed"]
    BY <1>0, <1>8 DEF Crash, Goto, Shapes
  <2>2. pc'[c] = "crashed" /\ \A d \in Creator \ {c} : pc'[d] = pc[d]
    BY <1>0, <2>1 DEF Shapes
  <2>3. CASE Mine(c)
    <3>1. file[output[c]] \in File
      BY <1>0, <2>1, <2>3 DEF Shapes, Mine
    <3>2. file' = [file EXCEPT ![output[c]] = [file[output[c]] EXCEPT !.open = FALSE]]
      BY <1>8, <2>3 DEF Crash
    <3>3. /\ \A o \in Output : file'[o] = file[o] \/ file'[o].by = c
          /\ file'[output[c]].open = FALSE
      BY <1>0, <2>1, <2>3, <3>1, <3>2 DEF Shapes, Mine, File
    <3>4. Handles(c)'
      BY <2>1, <2>2, <3>3 DEF Handles
    <3> QED
      BY <1>0, <2>1, <2>2, <3>3, <3>4, OwnFile
  <2>4. CASE ~Mine(c)
    <3>1. \A o \in Output : file'[o] = file[o]
      BY <1>0, <1>8, <2>4 DEF Shapes, Crash
    <3>2. Handles(c)'
      BY <2>1, <2>4, <3>1 DEF Handles, Mine
    <3> QED
      BY <1>0, <2>1, <2>2, <3>1, <3>2, OwnFile
  <2> QED
    BY <2>3, <2>4
<1>9. ASSUME NEW c \in Creator, TamperSandbox(c) PROVE HandlesInv'
  BY <1>9 DEF TamperSandbox, HandlesInv, Handles, Mine
<1>10. ASSUME NEW o \in Output, SomeoneElseCreates(o) PROVE HandlesInv'
  <2>1. UNCHANGED <<output, pc>>
    BY <1>10 DEF SomeoneElseCreates
  <2>2. ASSUME NEW p \in Output PROVE file'[p] = file[p] \/ file'[p].by = Other
    BY <1>0, <1>10 DEF SomeoneElseCreates, Shapes
  <2>3. ASSUME NEW c \in Creator PROVE Handles(c)'
    BY <1>0, <2>1, <2>2 DEF HandlesInv, Handles, Mine, Shapes
  <2> QED
    BY <2>3 DEF HandlesInv
<1>11. CASE UNCHANGED vars
  BY <1>11 DEF vars, HandlesInv, Handles, Mine
<1> QED
  BY <1>1, <1>2, <1>3, <1>4, <1>5, <1>6, <1>7, <1>8, <1>9, <1>10, <1>11
     DEF Next, Step, Fault

\* A creation that returns has not left the beginning of an archive under the
\* final name, if what it removes goes away.
THEOREM NothingTorn ==
    ASSUME ~RemovalMayFail
    PROVE  Spec => []NoTornArchive
<1>1. HandlesInv => NoTornArchive
  BY DEF HandlesInv, Handles, NoTornArchive
<1> QED
  BY <1>1, CreationInit, CreationStep, HandlesInit, HandlesStep, PTL DEF Spec

\* Every variable keeps its type; an open handle belongs to a copy in progress.
THEOREM CreationTypeCorrect == Spec => []TypeOK
<1> DEFINE Packed == packed \in [Creator -> Tree \cup {Nothing}]
<1>1. Init => Packed
  BY DEF Init
<1>2. CreationInv /\ Packed /\ [Next]_vars => Packed'
  BY DEF CreationInv, Shapes, Next, Step, Fault, vars, sandbox, Begin, CopySource, WritePax,
         RunBackend, CheckInputs, Verify, Recheck, Reopen, CreateTarget, WriteTarget, ReadBack,
         RemoveTarget, Finish, Cleanup, BackendMisbehaves, CopyFails, FinishFails, StepFails,
         Crash, TamperSandbox, SomeoneElseCreates
<1>3. CreationInv /\ HandlesInv /\ Packed => TypeOK
  BY DEF CreationInv, Shapes, HandlesInv, Handles, TypeOK
<1> QED
  BY <1>1, <1>2, <1>3, CreationInit, CreationStep, HandlesInit, HandlesStep, PTL DEF Spec
=============================================================================
