-------------------------- MODULE ArchiveCreation --------------------------
(***************************************************************************)
(* create_archive of src/src/create.rs with the snapshots of               *)
(* src/src/snapshot.rs: copy the source, let an untrusted backend pack it, *)
(* extract the result again to verify it, and copy the verified archive to *)
(* the output.  Several creations may run, also to the same output.        *)
(***************************************************************************)
EXTENDS Naturals

CONSTANTS
    Creator,         \* the running creations
    Output,          \* the names they write to
    Tree,            \* the contents a source directory may have
    Bytes,           \* the contents an archive may have
    Yields,          \* what the backend extracts from an archive
    NoTree,          \* ... when it fails to extract it
    Torn,            \* the beginning of an archive
    Nothing,         \* no file, no tree
    Other,           \* whoever else creates a file at an output
    SharesDelete,    \* whether an open file can be deleted (not on Windows)
    RemovalMayFail,  \* whether remove_file of a failed output may fail
    MaxDisturbances  \* bound on faults, crashes, interference, bad backends

Phase == {"begin", "copy", "pack", "run", "check", "verify", "recheck",
          "reopen", "create", "write", "readback", "remove", "cleanup",
          "finish", "done", "failed", "crashed"}

Ended == {"done", "failed", "crashed"}

\* An archive in the sandbox: its bytes, and when they were last written.
Archive == [bytes : Bytes, at : 0..MaxDisturbances]

File == [by : Creator \cup {Other}, bytes : Bytes \cup {Torn}, open : BOOLEAN]

ASSUME CreationAssumption ==
    /\ Yields \in [Bytes -> Tree \cup {NoTree}]
    /\ NoTree \notin Tree
    /\ Torn \notin Bytes
    /\ Nothing \notin Tree \cup Archive \cup File
    /\ Other \notin Creator
    /\ SharesDelete \in BOOLEAN
    /\ RemovalMayFail \in BOOLEAN
    /\ MaxDisturbances \in Nat

VARIABLES
    output,     \* where each creation writes to
    source,     \* the source directory
    staged,     \* the copy of it in the sandbox
    expected,   \* the fingerprint that the copy returned
    pax,        \* the tree that source.pax.tar encodes
    packed,     \* ... and the one it encoded when it was written
    archive,    \* output/archive.bin in the sandbox
    verified,   \* the archive whose extraction was compared
    file,       \* what each output holds
    pc,         \* where each creation stands
    disturbances

vars == <<output, source, staged, expected, pax, packed, archive, verified,
          file, pc, disturbances>>

sandbox == <<output, source, staged, expected, pax, packed, archive, verified>>

-----------------------------------------------------------------------------
Init ==
    /\ output \in [Creator -> Output]
    /\ source \in [Creator -> Tree]
    /\ staged = [c \in Creator |-> Nothing]
    /\ expected = [c \in Creator |-> Nothing]
    /\ pax = [c \in Creator |-> Nothing]
    /\ packed = [c \in Creator |-> Nothing]
    /\ archive = [c \in Creator |-> Nothing]
    /\ verified = [c \in Creator |-> Nothing]
    /\ file = [o \in Output |-> Nothing]
    /\ pc = [c \in Creator |-> "begin"]
    /\ disturbances = 0

Goto(c, phase) == pc' = [pc EXCEPT ![c] = phase]

Disturb ==
    /\ disturbances < MaxDisturbances
    /\ disturbances' = disturbances + 1

\* An output that exists is refused before there is a sandbox.
Begin(c) ==
    /\ pc[c] = "begin"
    /\ Goto(c, IF file[output[c]] = Nothing THEN "copy" ELSE "failed")
    /\ UNCHANGED <<sandbox, file, disturbances>>

CopySource(c) ==
    /\ pc[c] = "copy"
    /\ staged' = [staged EXCEPT ![c] = source[c]]
    /\ expected' = [expected EXCEPT ![c] = source[c]]
    /\ Goto(c, "pack")
    /\ UNCHANGED <<output, source, pax, packed, archive, verified, file, disturbances>>

\* The PAX stream is what the backend gets to read.
WritePax(c) ==
    /\ pc[c] = "pack"
    /\ pax' = [pax EXCEPT ![c] = staged[c]]
    /\ packed' = [packed EXCEPT ![c] = staged[c]]
    /\ Goto(c, "run")
    /\ UNCHANGED <<output, source, staged, expected, archive, verified, file,
                   disturbances>>

RunBackend(c) ==
    /\ pc[c] = "run"
    /\ \E b \in Bytes :
          /\ Yields[b] = pax[c]
          /\ archive' = [archive EXCEPT ![c] = [bytes |-> b, at |-> disturbances]]
    /\ Goto(c, "check")
    /\ UNCHANGED <<output, source, staged, expected, pax, packed, verified, file,
                   disturbances>>

\* A backend that misbehaves leaves anything in what it can write to.
BackendMisbehaves(c) ==
    /\ pc[c] = "run"
    /\ Disturb
    /\ \E b \in Bytes, s, t \in Tree :
          /\ archive' = [archive EXCEPT ![c] = [bytes |-> b, at |-> disturbances]]
          /\ staged' = [staged EXCEPT ![c] = s]
          /\ pax' = [pax EXCEPT ![c] = t]
    /\ Goto(c, "check")
    /\ UNCHANGED <<output, source, expected, packed, verified, file>>

\* Both inputs of the backend must be what they were.
CheckInputs(c) ==
    /\ pc[c] = "check"
    /\ IF staged[c] = expected[c] /\ pax[c] = packed[c]
       THEN Goto(c, "verify") ELSE Goto(c, "cleanup")
    /\ UNCHANGED <<sandbox, file, disturbances>>

\* verify_created_archive: a second sandbox extracts a snapshot of the archive
\* and must reproduce the tree that was copied.
Verify(c) ==
    /\ pc[c] = "verify"
    /\ verified' = [verified EXCEPT ![c] = archive[c]]
    /\ Goto(c, IF Yields[archive[c].bytes] = expected[c] THEN "recheck" ELSE "cleanup")
    /\ UNCHANGED <<output, source, staged, expected, pax, packed, archive, file,
                   disturbances>>

Recheck(c) ==
    /\ pc[c] = "recheck"
    /\ Goto(c, IF staged[c] = expected[c] THEN "reopen" ELSE "cleanup")
    /\ UNCHANGED <<sandbox, file, disturbances>>

\* A fault: the archive is published by name, whatever it is by now.
ReopenUnchecked(c) ==
    /\ pc[c] = "reopen"
    /\ verified' = [verified EXCEPT ![c] = archive[c]]
    /\ Goto(c, "create")
    /\ UNCHANGED <<output, source, staged, expected, pax, packed, archive, file,
                   disturbances>>

\* Identity, times and content must be those of the verified archive.
Reopen(c) ==
    /\ pc[c] = "reopen"
    /\ Goto(c, IF archive[c] = verified[c] THEN "create" ELSE "cleanup")
    /\ UNCHANGED <<sandbox, file, disturbances>>

-----------------------------------------------------------------------------
(* AuditedFile::copy_to_new(output) *)

Mine(c) == file[output[c]] # Nothing /\ file[output[c]].by = c

\* create_new: anything that exists by now is an error, and like every error of
\* the copy it leads to the removal.
CreateTarget(c) ==
    /\ pc[c] = "create"
    /\ IF file[output[c]] = Nothing
       THEN /\ file' = [file EXCEPT ![output[c]] =
                           [by |-> c, bytes |-> Torn, open |-> TRUE]]
            /\ Goto(c, "write")
       ELSE Goto(c, "remove") /\ UNCHANGED file
    /\ UNCHANGED <<sandbox, disturbances>>

\* The bytes are hashed on the way; a name that is gone hides the written file.
WriteTarget(c) ==
    /\ pc[c] = "write"
    /\ IF archive[c] = verified[c]
       THEN /\ Goto(c, "readback")
            /\ IF Mine(c) THEN file' = [file EXCEPT ![output[c]].bytes = archive[c].bytes]
                          ELSE UNCHANGED file
       ELSE Goto(c, "remove") /\ UNCHANGED file
    /\ UNCHANGED <<sandbox, disturbances>>

\* Identity, length and hash of what is at the name; the handle is closed.
ReadBack(c) ==
    /\ pc[c] = "readback"
    /\ IF Mine(c) /\ file[output[c]].bytes = verified[c].bytes
       THEN /\ file' = [file EXCEPT ![output[c]].open = FALSE]
            /\ Goto(c, "finish")
       ELSE Goto(c, "remove") /\ UNCHANGED file
    /\ UNCHANGED <<sandbox, disturbances>>

CopyFails(c) ==
    /\ pc[c] \in {"create", "write", "readback"}
    /\ Disturb
    /\ Goto(c, "remove")
    /\ UNCHANGED <<sandbox, file>>

\* Faults: any file can be deleted, and a failed copy stays.
RemovableAlways(c) == file[output[c]] # Nothing

KeepTarget(c) ==
    /\ pc[c] = "remove"
    /\ file' = [file EXCEPT ![output[c]] =
                   IF Mine(c) THEN [@ EXCEPT !.open = FALSE] ELSE @]
    /\ Goto(c, "cleanup")
    /\ UNCHANGED <<sandbox, disturbances>>

\* The failed copy has closed its own handle, the copy of another may be open.
Removable(c) ==
    /\ file[output[c]] # Nothing
    /\ Mine(c) \/ ~file[output[c]].open \/ SharesDelete

\* remove_file(target) whatever the error was and whoever owns the target.
RemoveTarget(c) ==
    /\ pc[c] = "remove"
    /\ \/ /\ Removable(c)
          /\ file' = [file EXCEPT ![output[c]] = Nothing]
       \/ /\ Removable(c) => RemovalMayFail
          /\ file' = [file EXCEPT ![output[c]] =
                         IF Mine(c) THEN [@ EXCEPT !.open = FALSE] ELSE @]
    /\ Goto(c, "cleanup")
    /\ UNCHANGED <<sandbox, disturbances>>

-----------------------------------------------------------------------------
\* The sandbox is removed, on success and on failure.
Finish(c) ==
    /\ pc[c] = "finish"
    /\ Goto(c, "done")
    /\ UNCHANGED <<sandbox, file, disturbances>>

Cleanup(c) ==
    /\ pc[c] = "cleanup"
    /\ Goto(c, "failed")
    /\ UNCHANGED <<sandbox, file, disturbances>>

\* If that fails the creation is reported as failed, also with its archive
\* published.
FinishFails(c) ==
    /\ pc[c] = "finish"
    /\ Disturb
    /\ Goto(c, "failed")
    /\ UNCHANGED <<sandbox, file>>

StepFails(c) ==
    /\ pc[c] \in {"begin", "copy", "pack", "run", "check", "verify", "recheck", "reopen"}
    /\ Disturb
    /\ Goto(c, "cleanup")
    /\ UNCHANGED <<sandbox, file>>

Crash(c) ==
    /\ pc[c] \notin Ended
    /\ Disturb
    /\ Goto(c, "crashed")
    /\ file' = [file EXCEPT ![output[c]] =
                   IF Mine(c) THEN [@ EXCEPT !.open = FALSE] ELSE @]
    /\ UNCHANGED sandbox

\* Something that outlived the backend rewrites the archive or the staged copy.
TamperSandbox(c) ==
    /\ archive[c] # Nothing
    /\ pc[c] \notin Ended
    /\ Disturb
    /\ \/ /\ \E b \in Bytes :
                archive' = [archive EXCEPT ![c] = [bytes |-> b, at |-> disturbances']]
          /\ UNCHANGED staged
       \/ /\ \E t \in Tree : staged' = [staged EXCEPT ![c] = t]
          /\ UNCHANGED archive
    /\ UNCHANGED <<output, source, expected, pax, packed, verified, file, pc>>

SomeoneElseCreates(o) ==
    /\ file[o] = Nothing
    /\ Disturb
    /\ \E b \in Bytes :
          file' = [file EXCEPT ![o] = [by |-> Other, bytes |-> b, open |-> FALSE]]
    /\ UNCHANGED <<sandbox, pc>>

-----------------------------------------------------------------------------
Step(c) ==
    \/ Begin(c) \/ CopySource(c) \/ WritePax(c) \/ RunBackend(c) \/ CheckInputs(c)
    \/ Verify(c) \/ Recheck(c) \/ Reopen(c) \/ CreateTarget(c) \/ WriteTarget(c)
    \/ ReadBack(c) \/ RemoveTarget(c) \/ Finish(c) \/ Cleanup(c)

Fault(c) ==
    \/ BackendMisbehaves(c) \/ CopyFails(c) \/ FinishFails(c) \/ StepFails(c)
    \/ Crash(c) \/ TamperSandbox(c)

Next ==
    \/ \E c \in Creator : Step(c) \/ Fault(c)
    \/ \E o \in Output : SomeoneElseCreates(o)

Spec == Init /\ [][Next]_vars

\* A creation is a sequential call, and its backend is under a timeout.
FairSpec == Spec /\ \A c \in Creator : WF_vars(Step(c))

-----------------------------------------------------------------------------
TypeOK ==
    /\ output \in [Creator -> Output]
    /\ source \in [Creator -> Tree]
    /\ staged \in [Creator -> Tree \cup {Nothing}]
    /\ expected \in [Creator -> Tree \cup {Nothing}]
    /\ pax \in [Creator -> Tree \cup {Nothing}]
    /\ packed \in [Creator -> Tree \cup {Nothing}]
    /\ archive \in [Creator -> Archive \cup {Nothing}]
    /\ verified \in [Creator -> Archive \cup {Nothing}]
    /\ file \in [Output -> File \cup {Nothing}]
    /\ \A c \in Creator : Mine(c) /\ file[output[c]].open =>
                             pc[c] \in {"write", "readback", "remove"}
    /\ pc \in [Creator -> Phase]
    /\ disturbances \in 0..MaxDisturbances

\* Whatever the backend wrote and whatever happened to its archive afterwards,
\* a complete archive at an output extracts to exactly the tree that was
\* copied from the source of its creation.
PublishedReproducesSource ==
    \A c \in Creator : Mine(c) /\ file[output[c]].bytes # Torn =>
        Yields[file[output[c]].bytes] = source[c]

\* A creation that returns, with success or with an error of any kind, has not
\* left the beginning of an archive under the final name.
NoTornArchive ==
    \A c \in Creator : pc[c] \in {"done", "failed"} =>
        ~(Mine(c) /\ file[output[c]].bytes = Torn)

\* README.md:328, "overwriting an existing archive is refused": a file of
\* someone else, or the archive of a creation that succeeded, stays.
ExistingIsKept ==
    [][\A o \in Output : file[o] # Nothing =>
          \/ file'[o] = file[o]
          \/ file[o].by \in Creator /\ pc[file[o].by] \notin Ended]_file

\* Of undisturbed creations to one output at least one succeeds, although the
\* losers try to remove what is there.
SomeoneSucceeds ==
    [](disturbances = 0) => <>(\E c \in Creator : pc[c] = "done")
=============================================================================
