--------------------------- MODULE MC_CommitTree ---------------------------
(* Small instances of CommitTree. *)
EXTENDS CommitTree

CONSTANTS p1, p2, d1, a, b, x1, x2

File(c) == [content |-> c, original |-> TRUE, marked |-> FALSE]

Folder == [content |-> Dir, original |-> TRUE, marked |-> FALSE]

\* The empty archive, one file, and two files or a file beside a directory.
RaceTrees == {EmptyTree, [x \in Path |-> File(a)]}

TamperTrees == {[x \in Path |-> IF x = x1 THEN File(a) ELSE Folder],
                [x \in Path |-> File(a)],
                [x \in Path |-> IF x = x1 THEN File(b) ELSE NoEntry]}

JobsOf(policies, motws) ==
    [dest : Destination, policy : policies, motw : motws]

RaceJobs == JobsOf({"disabled", "best_effort"}, {FALSE})

TamperJobs == JobsOf({"best_effort", "required"}, BOOLEAN)

DisabledJobs == JobsOf({"disabled"}, BOOLEAN)

NoPhases == {}

MarkPhase == {"mark"}

\* The phases whose damage the later audits of an enabled handoff detect.
AuditedPhases == {"copy", "verify", "mark", "handoff", "reaudit"}
=============================================================================
