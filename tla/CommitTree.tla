----------------------------- MODULE CommitTree -----------------------------
(***************************************************************************)
(* The publication of an extracted tree: commit_tree and what it calls in  *)
(* src/src/transfer.rs.  Several commits run at once, each from a source   *)
(* tree of its own, possibly to the same destination; other programs       *)
(* create destinations, rewrite a source while it is copied, or (a virus   *)
(* scanner the handoff wakes up) change the partial directory.             *)
(***************************************************************************)
EXTENDS Naturals

CONSTANTS
    Publisher,      \* the running commits
    Destination,    \* the final names they publish to
    Path,           \* the relative paths a tree may hold
    Data,           \* the possible contents of a regular file
    Dir,            \* the content of a path that is a directory
    None,           \* the content of a path where nothing is
    Other,          \* whoever else creates a directory at a destination
    Nothing,        \* what is at a free name; no tree
    Jobs,           \* the possible arguments of commit_tree
    SourceTrees,    \* the trees the sandbox may hand over
    TamperPhases,   \* the phases in which the partial directory is touched
    RemovalMayFail, \* whether remove_dir_all of the partial may fail
    MaxDisturbances \* bound on faults, crashes and outside interference

Policy == {"disabled", "best_effort", "required"}

\* A path of a tree: what is there, whether it still is the object that the
\* owner of the tree created there, and whether Zone.Identifier is on it.
Entry == [content : Data \cup {Dir, None}, original : BOOLEAN, marked : BOOLEAN]

Tree == [Path -> Entry]

NoEntry == [content |-> None, original |-> TRUE, marked |-> FALSE]

EmptyTree == [x \in Path |-> NoEntry]

Phase == {"begin", "audit", "create", "copy", "verify", "expect", "mark",
          "handoff", "reaudit", "check", "rename", "cleanup",
          "published", "failed", "crashed"}

Ended == {"published", "failed", "crashed"}

ASSUME CommitAssumption ==
    /\ Dir \notin Data
    /\ None \notin Data \cup {Dir}
    /\ Other \notin Publisher
    /\ Nothing \notin Tree
    /\ Nothing \notin [by : Publisher \cup {Other}, tree : Tree]
    /\ Jobs \subseteq [dest : Destination, policy : Policy, motw : BOOLEAN]
    /\ SourceTrees \subseteq Tree
    /\ TamperPhases \subseteq Phase \ Ended
    /\ RemovalMayFail \in BOOLEAN
    /\ MaxDisturbances \in Nat

\* Nor is the absence of a tree the contents of one.
ASSUME ContentsAssumption == Nothing \notin [Path -> Data \cup {Dir, None}]

VARIABLES
    job,        \* the arguments of each commit
    src,        \* source_root as it is on disk
    audit,      \* the audit of source_root
    partial,    \* the .iroha-zip-partial-* directory as it is on disk
    expected,   \* the audit of the finished partial directory
    todo,       \* paths still to be copied, then files still to be handed off
    done,       \* paths copied, then files handed off
    report,     \* the AttachmentHandoffOutcome
    pc,         \* where each commit stands
    dest,       \* what each destination holds
    disturbances

vars == <<job, src, audit, partial, expected, todo, done, report, pc, dest,
          disturbances>>

-----------------------------------------------------------------------------
Present(t) == {x \in Path : t[x].content # None}

FilesOf(t) == {x \in Path : t[x].content \in Data}

\* The tree fingerprint: paths, types and contents, not identities or streams.
Fingerprint(t) == [x \in Path |-> t[x].content]

Enabled(p) == job[p].policy # "disabled"

Goto(p, phase) == pc' = [pc EXCEPT ![p] = phase]

-----------------------------------------------------------------------------
Init ==
    /\ job \in [Publisher -> Jobs]
    /\ src \in [Publisher -> SourceTrees]
    /\ audit = [p \in Publisher |-> Nothing]
    /\ partial = [p \in Publisher |-> Nothing]
    /\ expected = [p \in Publisher |-> Nothing]
    /\ todo = [p \in Publisher |-> {}]
    /\ done = [p \in Publisher |-> {}]
    /\ report = [p \in Publisher |-> "none"]
    /\ pc = [p \in Publisher |-> "begin"]
    /\ dest = [d \in Destination |-> Nothing]
    /\ disturbances = 0

\* The checks before anything is created; a taken destination is refused.
Begin(p) ==
    /\ pc[p] = "begin"
    /\ IF dest[job[p].dest] = Nothing THEN Goto(p, "audit") ELSE Goto(p, "failed")
    /\ UNCHANGED <<job, src, audit, partial, expected, todo, done, report, dest,
                   disturbances>>

AuditSource(p) ==
    /\ pc[p] = "audit"
    /\ audit' = [audit EXCEPT ![p] = src[p]]
    /\ Goto(p, "create")
    /\ UNCHANGED <<job, src, partial, expected, todo, done, report, dest,
                   disturbances>>

\* A fault that the properties must exclude: the destination is reserved
\* before there is anything to put there.
CreatePartialReserving(p) ==
    /\ pc[p] = "create"
    /\ partial' = [partial EXCEPT ![p] = EmptyTree]
    /\ dest' = [dest EXCEPT ![job[p].dest] = [by |-> p, tree |-> EmptyTree]]
    /\ todo' = [todo EXCEPT ![p] = Present(src[p])]
    /\ Goto(p, "copy")
    /\ UNCHANGED <<job, src, audit, expected, done, report, disturbances>>

\* create_dir of the partial, then the enumeration that drives the copy.
CreatePartial(p) ==
    /\ pc[p] = "create"
    /\ partial' = [partial EXCEPT ![p] = EmptyTree]
    /\ todo' = [todo EXCEPT ![p] = Present(src[p])]
    /\ Goto(p, "copy")
    /\ UNCHANGED <<job, src, audit, expected, done, report, dest, disturbances>>

\* An entry is copied only if it is the one the audit saw; the bytes that are
\* written are hashed on the way and the target must be new.
CopyEntry(p, x) ==
    /\ pc[p] = "copy"
    /\ x \in todo[p]
    /\ \/ /\ src[p][x] = audit[p][x]
          /\ src[p][x].content # None
          /\ partial[p][x].content = None
          /\ partial' = [partial EXCEPT ![p][x] = [content |-> src[p][x].content,
                                                   original |-> TRUE,
                                                   marked |-> FALSE]]
          /\ todo' = [todo EXCEPT ![p] = @ \ {x}]
          /\ done' = [done EXCEPT ![p] = @ \cup {x}]
          /\ UNCHANGED pc
       \/ /\ \/ src[p][x] # audit[p][x]
             \/ src[p][x].content = None
             \/ partial[p][x].content # None
          /\ Goto(p, "cleanup")
          /\ UNCHANGED <<partial, todo, done>>
    /\ UNCHANGED <<job, src, audit, expected, report, dest, disturbances>>

\* Entries the audit saw and the enumeration did not are missing.
FinishCopy(p) ==
    /\ pc[p] = "copy"
    /\ todo[p] = {}
    /\ IF done[p] = Present(audit[p]) THEN Goto(p, "verify") ELSE Goto(p, "cleanup")
    /\ UNCHANGED <<job, src, audit, partial, expected, todo, done, report, dest,
                   disturbances>>

VerifyCopy(p) ==
    /\ pc[p] = "verify"
    /\ IF Fingerprint(partial[p]) = Fingerprint(audit[p])
       THEN Goto(p, "expect") ELSE Goto(p, "cleanup")
    /\ UNCHANGED <<job, src, audit, partial, expected, todo, done, report, dest,
                   disturbances>>

\* commit_tree drops the fingerprint that the copy returned and audits the
\* partial again; what it finds now is what the re-audit will ask for.
RecordExpected(p) ==
    /\ pc[p] = "expect"
    /\ expected' = [expected EXCEPT ![p] = partial[p]]
    /\ Goto(p, "mark")
    /\ UNCHANGED <<job, src, audit, partial, todo, done, report, dest, disturbances>>

Marked(t) == [x \in Path |-> IF t[x].content \in Data
                             THEN [t[x] EXCEPT !.marked = TRUE] ELSE t[x]]

\* Mark-of-the-Web on every file, then the handoff, if there is one.
ApplyMotw(p) ==
    /\ pc[p] = "mark"
    /\ partial' = [partial EXCEPT ![p] = IF job[p].motw THEN Marked(@) ELSE @]
    /\ done' = [done EXCEPT ![p] = {}]
    /\ IF Enabled(p)
       THEN /\ todo' = [todo EXCEPT ![p] = FilesOf(expected[p])]
            /\ Goto(p, "handoff")
            /\ UNCHANGED report
       ELSE /\ report' = [report EXCEPT ![p] = "disabled"]
            /\ Goto(p, "check")
            /\ UNCHANGED todo
    /\ UNCHANGED <<job, src, audit, expected, dest, disturbances>>

\* A file that is gone when its turn comes fails the commit under any policy.
HandoffFile(p, x) ==
    /\ pc[p] = "handoff"
    /\ x \in todo[p]
    /\ IF partial[p][x].content = None
       THEN Goto(p, "cleanup") /\ UNCHANGED <<todo, done>>
       ELSE /\ todo' = [todo EXCEPT ![p] = @ \ {x}]
            /\ done' = [done EXCEPT ![p] = @ \cup {x}]
            /\ UNCHANGED pc
    /\ UNCHANGED <<job, src, audit, partial, expected, report, dest, disturbances>>

\* A fault: required is treated as best effort.
ServiceFailsLeniently(p) ==
    /\ pc[p] = "handoff"
    /\ todo[p] # {}
    /\ disturbances < MaxDisturbances
    /\ disturbances' = disturbances + 1
    /\ Goto(p, "reaudit")
    /\ report' = [report EXCEPT ![p] = "incomplete"]
    /\ UNCHANGED <<job, src, audit, partial, expected, todo, done, dest>>

\* No session, or the service refuses a file: the policy decides.
ServiceFails(p) ==
    /\ pc[p] = "handoff"
    /\ todo[p] # {}
    /\ disturbances < MaxDisturbances
    /\ disturbances' = disturbances + 1
    /\ IF job[p].policy = "required"
       THEN Goto(p, "cleanup") /\ UNCHANGED report
       ELSE Goto(p, "reaudit") /\ report' = [report EXCEPT ![p] = "incomplete"]
    /\ UNCHANGED <<job, src, audit, partial, expected, todo, done, dest>>

FinishHandoff(p) ==
    /\ pc[p] = "handoff"
    /\ todo[p] = {}
    /\ report' = [report EXCEPT ![p] = "completed"]
    /\ Goto(p, "reaudit")
    /\ UNCHANGED <<job, src, audit, partial, expected, todo, done, dest, disturbances>>

\* A fault: a re-audit that forgets the contents.
IntactPaths(p) ==
    /\ Present(partial[p]) = Present(expected[p])
    /\ \A x \in FilesOf(expected[p]) : partial[p][x].original = expected[p][x].original
    /\ job[p].motw => \A x \in FilesOf(expected[p]) : partial[p][x].marked

Intact(p) ==
    /\ Fingerprint(partial[p]) = Fingerprint(expected[p])
    /\ \A x \in FilesOf(expected[p]) : partial[p][x].original = expected[p][x].original
    /\ job[p].motw => \A x \in FilesOf(expected[p]) : partial[p][x].marked

Reaudit(p) ==
    /\ pc[p] = "reaudit"
    /\ IF Intact(p) THEN Goto(p, "check") ELSE Goto(p, "cleanup")
    /\ UNCHANGED <<job, src, audit, partial, expected, todo, done, report, dest,
                   disturbances>>

\* A fault: another commit's partial directory counts as a taken name.
CheckFreeOfRivals(p) ==
    /\ pc[p] = "check"
    /\ IF /\ dest[job[p].dest] = Nothing
          /\ \A q \in Publisher \ {p} : partial[q] = Nothing
       THEN Goto(p, "rename") ELSE Goto(p, "cleanup")
    /\ UNCHANGED <<job, src, audit, partial, expected, todo, done, report, dest,
                   disturbances>>

CheckFree(p) ==
    /\ pc[p] = "check"
    /\ IF dest[job[p].dest] = Nothing THEN Goto(p, "rename") ELSE Goto(p, "cleanup")
    /\ UNCHANGED <<job, src, audit, partial, expected, todo, done, report, dest,
                   disturbances>>

\* rename replaces an empty directory (Unix, recent Windows) or refuses it
\* (older Windows); it refuses everything else that exists.
Replaceable(d) == dest[d] # Nothing => dest[d].tree = EmptyTree

\* Faults: a rename that replaces whatever is there, and one that moves the
\* partial away first.
RenameOver(p) ==
    /\ pc[p] = "rename"
    /\ dest' = [dest EXCEPT ![job[p].dest] = [by |-> p, tree |-> partial[p]]]
    /\ partial' = [partial EXCEPT ![p] = Nothing]
    /\ Goto(p, "published")
    /\ UNCHANGED <<job, src, audit, expected, todo, done, report, disturbances>>

Rename(p) ==
    LET d == job[p].dest IN
    /\ pc[p] = "rename"
    /\ \/ /\ Replaceable(d)
          /\ dest' = [dest EXCEPT ![d] = [by |-> p, tree |-> partial[p]]]
          /\ partial' = [partial EXCEPT ![p] = Nothing]
          /\ Goto(p, "published")
       \/ /\ dest[d] # Nothing
          /\ Goto(p, "cleanup")
          /\ UNCHANGED <<dest, partial>>
    /\ UNCHANGED <<job, src, audit, expected, todo, done, report, disturbances>>

\* A fault: an error returns without removing the partial.
CleanupSkipped(p) ==
    /\ pc[p] = "cleanup"
    /\ Goto(p, "failed")
    /\ UNCHANGED <<job, src, audit, partial, expected, todo, done, report, dest,
                   disturbances>>

\* remove_dir_all, its own failure ignored.
Cleanup(p) ==
    /\ pc[p] = "cleanup"
    /\ \/ partial' = [partial EXCEPT ![p] = Nothing]
       \/ RemovalMayFail /\ UNCHANGED partial
    /\ Goto(p, "failed")
    /\ UNCHANGED <<job, src, audit, expected, todo, done, report, dest, disturbances>>

\* Any call that ends in `?` may fail.
StepFails(p) ==
    /\ pc[p] \notin Ended \cup {"cleanup"}
    /\ disturbances < MaxDisturbances
    /\ disturbances' = disturbances + 1
    /\ Goto(p, "cleanup")
    /\ UNCHANGED <<job, src, audit, partial, expected, todo, done, report, dest>>

-----------------------------------------------------------------------------
(* The environment. *)

Crash(p) ==
    /\ pc[p] \notin Ended
    /\ disturbances < MaxDisturbances
    /\ disturbances' = disturbances + 1
    /\ Goto(p, "crashed")
    /\ UNCHANGED <<job, src, audit, partial, expected, todo, done, report, dest>>

\* Another process rewrites a path of the source: its identity or times change.
MutateSource(p, x) ==
    /\ pc[p] \in {"audit", "create", "copy"}
    /\ disturbances < MaxDisturbances
    /\ disturbances' = disturbances + 1
    /\ \E c \in Data \cup {Dir, None} :
          src' = [src EXCEPT ![p][x] = [content |-> c, original |-> FALSE,
                                        marked |-> FALSE]]
    /\ UNCHANGED <<job, audit, partial, expected, todo, done, report, pc, dest>>

\* Something changes, replaces, adds, deletes or unmarks an entry of a partial.
TamperPartial(p, x) ==
    /\ pc[p] \in TamperPhases
    /\ partial[p] # Nothing
    /\ disturbances < MaxDisturbances
    /\ disturbances' = disturbances + 1
    /\ \E e \in Entry : partial' = [partial EXCEPT ![p][x] = e]
    /\ UNCHANGED <<job, src, audit, expected, todo, done, report, pc, dest>>

SomeoneElseCreates(d, t) ==
    /\ dest[d] = Nothing
    /\ disturbances < MaxDisturbances
    /\ disturbances' = disturbances + 1
    /\ dest' = [dest EXCEPT ![d] = [by |-> Other, tree |-> t]]
    /\ UNCHANGED <<job, src, audit, partial, expected, todo, done, report, pc>>

-----------------------------------------------------------------------------
\* What commit_tree itself does next.
Step(p) ==
    \/ Begin(p) \/ AuditSource(p) \/ CreatePartial(p)
    \/ \E x \in Path : CopyEntry(p, x)
    \/ FinishCopy(p) \/ VerifyCopy(p) \/ RecordExpected(p) \/ ApplyMotw(p)
    \/ \E x \in Path : HandoffFile(p, x)
    \/ FinishHandoff(p) \/ Reaudit(p) \/ CheckFree(p) \/ Rename(p) \/ Cleanup(p)

Environment(p) ==
    \/ ServiceFails(p) \/ StepFails(p) \/ Crash(p)
    \/ \E x \in Path : MutateSource(p, x) \/ TamperPartial(p, x)

Next ==
    \/ \E p \in Publisher : Step(p) \/ Environment(p)
    \/ \E d \in Destination, t \in SourceTrees : SomeoneElseCreates(d, t)

Spec == Init /\ [][Next]_vars

\* A commit is a plain sequential call: it keeps taking its next step.
FairSpec == Spec /\ \A p \in Publisher : WF_vars(Step(p))

-----------------------------------------------------------------------------
TypeOK ==
    /\ job \in [Publisher -> Jobs]
    /\ src \in [Publisher -> Tree]
    /\ audit \in [Publisher -> Tree \cup {Nothing}]
    /\ partial \in [Publisher -> Tree \cup {Nothing}]
    /\ expected \in [Publisher -> Tree \cup {Nothing}]
    /\ todo \in [Publisher -> SUBSET Path]
    /\ done \in [Publisher -> SUBSET Path]
    /\ report \in [Publisher -> {"none", "disabled", "completed", "incomplete"}]
    /\ pc \in [Publisher -> Phase]
    /\ dest \in [Destination -> [by : Publisher \cup {Other}, tree : Tree]
                                \cup {Nothing}]
    /\ disturbances \in Nat

\* What a reader of a tree sees: paths, types and contents.
ContentsOf(t) == [x \in Path |-> t[x].content]

\* What p left at its destination, if it is still there.
Holds(p) == /\ dest[job[p].dest] # Nothing
            /\ dest[job[p].dest].by = p

Published(p) == dest[job[p].dest].tree

\* Whatever the other commits, outside programs, faults and crashes do, a tree
\* at a destination is the complete, unmodified tree that its commit audited:
\* no half-copied, mixed or scanner-modified tree is ever visible there.
PublishedIsAudited ==
    \A p \in Publisher :
        Holds(p) => ContentsOf(Published(p)) = ContentsOf(audit[p])

\* Once a commit has published a tree with any entry in it, that tree stays:
\* no other commit to the same name, late in its own check-then-rename, can
\* replace it, so two commits cannot both win the name.
WinnerKeepsDestination ==
    \A p \in Publisher :
        pc[p] = "published" /\ Present(audit[p]) # {} => Holds(p)

\* What the job asks for has been done to each file of a published tree, also
\* when a scanner undoes it in between: with a zone, it carries the
\* Mark-of-the-Web; under the required policy, or if the commit reports
\* completion, the service accepted it.
HandoffIsHonest ==
    \A p \in Publisher : Holds(p) =>
        \A x \in FilesOf(Published(p)) :
            /\ job[p].motw => Published(p)[x].marked
            /\ job[p].policy = "required" \/ report[p] = "completed" => x \in done[p]

\* A commit that returns an error leaves neither a partial directory nor
\* anything of its own at the destination.
FailureLeavesNothing ==
    \A p \in Publisher :
        pc[p] = "failed" => ~Holds(p) /\ partial[p] = Nothing

\* README.md:298, "existing outputs are not overwritten": whatever exists at a
\* destination stays as it is.
NeverReplaces ==
    [][\A d \in Destination : dest[d] # Nothing => dest'[d] = dest[d]]_dest

\* docs/THREAT_MODEL.md:81 puts a re-audit of content and tree between the
\* zone marking and the rename: what is published is what the audit of the
\* finished partial directory recorded.
PublishedIsReaudited ==
    \A p \in Publisher :
        Holds(p) => ContentsOf(Published(p)) = ContentsOf(expected[p])

\* Every commit ends, and racing commits never make each other all fail: if
\* nothing disturbs them, one of them publishes.
SomeoneWins ==
    /\ \A p \in Publisher : <>(pc[p] \in Ended)
    /\ [](disturbances = 0) => <>(\E p \in Publisher : pc[p] = "published")

-----------------------------------------------------------------------------
(* CommitTree implements Publication. *)

Payload(t) == IF t = Nothing THEN Nothing ELSE ContentsOf(t)

P == INSTANCE Publication WITH
        Tree <- [Path -> Data \cup {Dir, None}],
        EmptyTree <- ContentsOf(EmptyTree),
        dest <- [d \in Destination |->
                    IF dest[d] = Nothing THEN Nothing
                    ELSE [by |-> dest[d].by, tree |-> ContentsOf(dest[d].tree)]],
        payload <- [p \in Publisher |-> Payload(audit[p])],
        outcome <- [p \in Publisher |->
                       IF pc[p] \in Ended THEN pc[p] ELSE "running"]

AbstractSpec == P!Spec
=============================================================================
