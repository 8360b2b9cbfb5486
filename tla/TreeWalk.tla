------------------------------ MODULE TreeWalk ------------------------------
(***************************************************************************)
(* Everything that reads a tree entry by entry while the tree may change:  *)
(*   audit      policy::audit_tree                                         *)
(*   monitor    monitor::check_resource_limits                             *)
(*   serialise  pax::write_tree_archive                                    *)
(*   preview    preview::inventory_tree, between two fingerprints          *)
(*   select     selection::materialize_selection, between two fingerprints *)
(* A fingerprint is itself two readings: the names, then each entry.       *)
(*                                                                         *)
(* An entry is inspected in one step; what is read of one entry by several *)
(* calls is not torn here.  A selected directory is copied in one step:    *)
(* CommitTree has the steps of copy_audited_tree.                          *)
(***************************************************************************)
EXTENDS Naturals, Sequences, FiniteSets, FiniteSetsExt

CONSTANTS
    Path,              \* the paths that can exist: sequences of names
    Trees,             \* what can be at the root at the start
    Forms,             \* Path -> the entries another program puts there
    Absent,            \* no entry
    Selections,        \* the sets of paths that can be asked for
    BadName,           \* the names that validate_component rejects
    NameBytes,         \* name -> its bytes in UTF-8
    Linked,            \* the files that have a name outside the tree as well
    MaxFiles, MaxDirectories, MaxTotalBytes, MaxSingleFileBytes, MaxDepth, MaxPathBytes,
    MaxChanges         \* bound on the changes of other programs

Jobs == {"audit", "monitor", "serialise", "preview", "select"}

\* The readings that each job consists of.
Stages == [audit |-> <<"audit">>,
           monitor |-> <<"monitor">>,
           serialise |-> <<"enumerate", "write">>,
           preview |-> <<"list", "hash", "inventory", "list", "hash">>,
           select |-> <<"list", "hash", "copy", "list", "hash">>]

Walks == {"audit", "monitor", "enumerate", "list", "inventory"}
Root == <<>>
Parent(p) == SubSeq(p, 1, Len(p) - 1)
Above(p) == {SubSeq(p, 1, n) : n \in 1..(Len(p) - 1)}
Under(p) == {q \in Path : p \in Above(q)}

\* What the constants must be.  At the start, whatever exists is below directories.
TreeConstants ==
    /\ Path \subseteq Seq(UNION {{p[n] : n \in 1..Len(p)} : p \in Path})
    /\ \A p \in Path : p # Root /\ Above(p) \subseteq Path
    /\ \A t \in Trees : /\ DOMAIN t = Path
                        /\ \A p \in Path : t[p].kind # "none" =>
                              \A q \in Above(p) : t[q].kind = "dir"
    /\ Absent.kind = "none"
    /\ \A p \in Path : \A e \in Forms[p] : e.kind \in {"file", "dir", "link", "none"}
    /\ Selections \subseteq SUBSET Path
    /\ \A p \in Path : \A n \in 1..Len(p) : NameBytes[p[n]] \in Nat
    /\ {MaxFiles, MaxDirectories, MaxTotalBytes, MaxSingleFileBytes, MaxDepth, MaxPathBytes,
        MaxChanges} \subseteq Nat

\* Trees are finite, and files have sizes.
FiniteTrees ==
    \A t \in Trees : /\ IsFiniteSet({p \in Path : t[p].kind # "none"})
                     /\ \A p \in Path : t[p].kind = "file" => t[p].size \in Nat

VARIABLES
    tree,       \* the directory
    job,
    selection,  \* the selectors of a selection
    stage,      \* which of the job's readings
    stack,      \* directories still to be opened, as they were when pushed
    current,    \* the directory whose names are inspected
    pending,    \* its names that are not inspected yet
    counted,    \* the counters, and the file identities seen
    found,      \* the entries of the walk
    todo,       \* the paths of it that are read again
    read,       \* what that found
    kept,       \* the first fingerprint
    result,     \* what the job delivers: the entries of a preview or a copy
    status,
    versions,   \* history: all the trees there have been since the start
    changes

walkVars == <<stack, current, pending, counted, found>>
vars == <<tree, job, selection, stage, walkVars, todo, read, kept, result, status,
          versions, changes>>

-----------------------------------------------------------------------------
NoTree == [p \in {} |-> Absent]
Zero == [files |-> 0, directories |-> 0, bytes |-> 0, ids |-> {}]

With(f, p, e) == [q \in DOMAIN f \cup {p} |-> IF q = p THEN e ELSE f[q]]

At(p) == IF p = Root THEN [kind |-> "dir", size |-> 0, id |-> "root", data |-> "none"]
         ELSE tree[p]
Exists(p) == At(p).kind # "none"
IsDir(p) == At(p).kind = "dir"
NamesIn(d) == {p \in Path : Parent(p) = d /\ Exists(p)}

\* validate_relative_path, of what comes after the first n names of a path: every
\* component, the depth, and the bytes with one separator each.
ValidBelow(n, p) ==
    LET rest == (n + 1)..Len(p)
    IN  /\ \A i \in rest : p[i] \notin BadName
        /\ Len(p) - n <= MaxDepth
        /\ MapThenSumSet(LAMBDA i : NameBytes[p[i]] + 1, rest) <= MaxPathBytes
ValidPath(p) == ValidBelow(0, p)

\* The counters after one more entry; an identity counts for audit_tree alone.
Counted(c, e) ==
    IF e.kind = "dir" THEN [c EXCEPT !.directories = @ + 1]
    ELSE [c EXCEPT !.files = @ + 1, !.bytes = @ + e.size, !.ids = @ \cup {e.id}]

\* A fault: the limit itself is refused.
BelowLimits(c, e) ==
    LET n == Counted(c, e)
    IN  IF e.kind = "dir" THEN n.directories < MaxDirectories
        ELSE n.files <= MaxFiles /\ e.size <= MaxSingleFileBytes /\ n.bytes <= MaxTotalBytes

WithinLimits(c, e) ==
    LET n == Counted(c, e)
    IN  IF e.kind = "dir" THEN n.directories <= MaxDirectories
        ELSE n.files <= MaxFiles /\ e.size <= MaxSingleFileBytes /\ n.bytes <= MaxTotalBytes

\* validate_extracted_entry_security: a directory, or a file with one name.
OneName(t, p) ==
    /\ t[p].id \notin Linked
    /\ \A q \in Path : t[q].kind = "file" /\ t[q].id = t[p].id => q = p
Regular(p) == tree[p].kind = "dir" \/ (tree[p].kind = "file" /\ OneName(tree, p))

\* What each walk accepts of the entry e at p.
AuditAccepts(p, e) ==
    /\ ValidPath(p) /\ Regular(p) /\ WithinLimits(counted, e)
    /\ e.kind = "file" => e.id \notin counted.ids
MonitorAccepts(p, e) == Regular(p) /\ WithinLimits(counted, e)
EnumerateAccepts(p, e) == ValidPath(p) /\ Regular(p) /\ WithinLimits(counted, e)
ListAccepts(p) == ValidPath(p) /\ Regular(p)
InventoryAccepts(p) == ValidPath(p) /\ Regular(p)

Accepts(walk, p, e) ==
    CASE walk = "audit" -> AuditAccepts(p, e)
      [] walk = "monitor" -> MonitorAccepts(p, e)
      [] walk = "enumerate" -> EnumerateAccepts(p, e)
      [] walk = "list" -> ListAccepts(p)
      [] walk = "inventory" -> InventoryAccepts(p)

Doing == Stages[job][stage]

Reject ==
    /\ status' = "rejected"
    /\ result' = NoTree
    /\ UNCHANGED <<tree, job, selection, stage, walkVars, todo, read, kept, versions, changes>>

-----------------------------------------------------------------------------
Init ==
    /\ tree \in Trees
    /\ job \in Jobs
    /\ selection \in (IF job = "select" THEN Selections ELSE {{}})
    /\ stage = 1
    /\ stack = <<[path |-> Root, id |-> "root"]>>
    /\ current = Root /\ pending = {} /\ counted = Zero /\ found = NoTree
    /\ todo = {} /\ read = NoTree /\ kept = NoTree /\ result = NoTree
    /\ status = "running"
    /\ versions = {tree}
    /\ changes = 0

Walking == status = "running" /\ Doing \in Walks

\* check_resource_limits goes on when something has disappeared.
Tolerates(e) == Doing = "monitor" /\ e.kind = "none"

\* The same directory, for those who hold a snapshot of it; the others open
\* what is at its path, and inventory_tree rejects a link there.
SameDirectory(d) ==
    /\ IsDir(d.path)
    /\ Doing \in {"monitor", "inventory"} \/ At(d.path).id = d.id

\* entries(max_entries) of a snapshot.
Crowded(d) == /\ Doing \notin {"monitor", "inventory"}
              /\ Cardinality(NamesIn(d.path)) > MaxFiles + MaxDirectories

OpenDirectory ==
    /\ Walking /\ pending = {} /\ stack # <<>>
    /\ LET d == Head(stack)
       IN  \/ /\ SameDirectory(d) /\ ~Crowded(d)
              /\ current' = d.path
              /\ pending' = NamesIn(d.path)
              /\ stack' = Tail(stack)
              /\ UNCHANGED <<tree, job, selection, stage, counted, found, todo, read, kept,
                             result, status, versions, changes>>
           \/ \* also if a link has replaced it whose target is empty
              /\ \/ Tolerates(At(d.path))
                 \/ Doing = "monitor" /\ At(d.path).kind = "link"
              /\ stack' = Tail(stack)
              /\ UNCHANGED <<tree, job, selection, stage, current, pending, counted, found,
                             todo, read, kept, result, status, versions, changes>>
           \/ /\ ~SameDirectory(d) \/ Crowded(d)
              /\ ~Tolerates(At(d.path))
              /\ Reject

\* A fault: the directories that wait are forgotten.
PushOnly(p, e) == IF e.kind = "dir" THEN <<[path |-> p, id |-> e.id]>> ELSE stack

Push(p, e) ==
    IF e.kind = "dir" THEN <<[path |-> p, id |-> e.id]>> \o stack ELSE stack

Inspect ==
    /\ Walking
    /\ \E p \in pending :
          LET e == tree[p]
          IN  \/ /\ Accepts(Doing, p, e)
                 /\ pending' = pending \ {p}
                 /\ stack' = Push(p, e)
                 /\ counted' = IF Doing \in {"list", "inventory"} THEN counted
                               ELSE Counted(counted, e)
                 /\ found' = With(found, p, e)
                 /\ UNCHANGED <<tree, job, selection, stage, current, todo, read, kept,
                                result, status, versions, changes>>
              \/ /\ Tolerates(e)
                 /\ pending' = pending \ {p}
                 /\ UNCHANGED <<tree, job, selection, stage, stack, current, counted, found,
                                todo, read, kept, result, status, versions, changes>>
              \/ /\ ~Accepts(Doing, p, e)
                 /\ ~Tolerates(e)
                 /\ Reject

-----------------------------------------------------------------------------
\* The readings of one entry after the other, in an order that is fixed.
Next1 == CHOOSE p \in todo : TRUE

Reading(what) == status = "running" /\ Doing = what /\ todo # {}

Record(p, e, c) ==
    /\ read' = With(read, p, e)
    /\ todo' = todo \ {p}
    /\ counted' = c
    /\ UNCHANGED <<tree, job, selection, stage, stack, current, pending, found, kept,
                   result, status, versions, changes>>

\* build_tree_audit_with: a directory must be the one that was listed.
Hash ==
    /\ Reading("hash")
    /\ LET e == tree[Next1]
           sound == /\ Regular(Next1)
                    /\ e.kind = "dir" => found[Next1].kind = "dir" /\ found[Next1].id = e.id
                    /\ WithinLimits(counted, e)
       IN  IF sound THEN Record(Next1, e, Counted(counted, e)) ELSE Reject

\* write_tree_archive_inner: only the kind must still be the same.
Write ==
    /\ Reading("write")
    /\ LET e == tree[Next1]
           sound == /\ Regular(Next1) /\ e.kind = found[Next1].kind
                    /\ e.kind = "file" => e.size <= MaxSingleFileBytes
       IN  IF sound THEN Record(Next1, e, counted) ELSE Reject

\* copy_selector: a file, or a directory with all that is in it, whose paths are
\* now those below the directory.
Copy ==
    /\ Reading("copy")
    /\ LET e == tree[Next1]
           all == {q \in Under(Next1) : Exists(q)}
           sound == /\ Regular(Next1)
                    /\ e.kind = "file" => e.size <= MaxSingleFileBytes
                    /\ \A q \in all : Regular(q) /\ ValidBelow(Len(Next1), q)
       IN  IF ~sound THEN Reject
           ELSE /\ result' = [q \in DOMAIN result \cup {Next1} \cup all |->
                                IF q \in DOMAIN result THEN result[q] ELSE tree[q]]
                /\ todo' = todo \ {Next1}
                /\ UNCHANGED <<tree, job, selection, stage, walkVars, read, kept, status,
                               versions, changes>>

-----------------------------------------------------------------------------
\* What a fingerprint compares: the paths, the kinds, the contents.
Fingerprint(f) == [p \in DOMAIN f |-> <<f[p].kind, f[p].size, f[p].data>>]

\* A fault: the second fingerprint is only compared in its summary.
SameCount(first, second) == Cardinality(DOMAIN first) = Cardinality(DOMAIN second)

Same(first, second) == first = Fingerprint(second)

\* A finished reading hands on to the next; the last one decides.
EndStage ==
    /\ status = "running"
    /\ todo = {}
    /\ Doing \in Walks => stack = <<>> /\ pending = {}
    /\ IF stage = Len(Stages[job]) /\ job \in {"preview", "select"} /\ ~Same(kept, read)
       THEN Reject
       ELSE /\ IF stage = Len(Stages[job])
               THEN status' = "accepted" /\ UNCHANGED <<stage, stack, todo>>
               ELSE /\ stage' = stage + 1
                    /\ stack' = IF Stages[job][stage + 1] \in Walks
                                THEN <<[path |-> Root, id |-> "root"]>> ELSE <<>>
                    /\ todo' = CASE Stages[job][stage + 1] \in {"hash", "write"} -> DOMAIN found
                                 [] Stages[job][stage + 1] = "copy" -> selection
                                 [] OTHER -> {}
                    /\ UNCHANGED status
            /\ kept' = IF stage = 2 /\ Doing = "hash" THEN Fingerprint(read) ELSE kept
            /\ result' = CASE Doing \in {"audit", "monitor", "inventory"} -> found
                           [] Doing = "write" -> read
                           [] OTHER -> result
            /\ found' = IF Doing = "list" \/ Doing = "enumerate" THEN found ELSE NoTree
            /\ read' = NoTree
            /\ counted' = Zero
            /\ UNCHANGED <<tree, job, selection, current, pending, versions, changes>>

\* Another program changes one path; what was under a directory goes with it.
Change ==
    /\ status = "running"
    /\ changes < MaxChanges /\ changes' = changes + 1
    /\ \E p \in Path : \E e \in Forms[p] \ {tree[p]} :
          /\ IsDir(Parent(p))
          /\ tree' = [q \in Path |-> IF q = p THEN e
                                     ELSE IF q \in Under(p) THEN Absent ELSE tree[q]]
    /\ versions' = versions \cup {tree'}
    /\ UNCHANGED <<job, selection, stage, walkVars, todo, read, kept, result, status>>

Next == OpenDirectory \/ Inspect \/ Hash \/ Write \/ Copy \/ EndStage \/ Change

Spec == Init /\ [][Next]_vars

-----------------------------------------------------------------------------
TypeOK ==
    /\ DOMAIN tree = Path
    /\ job \in Jobs /\ stage \in 1..Len(Stages[job])
    /\ pending \subseteq Path /\ todo \subseteq Path
    /\ DOMAIN found \subseteq Path /\ DOMAIN read \subseteq Path
    /\ DOMAIN result \subseteq Path
    /\ status \in {"running", "accepted", "rejected"}

\* What a tree must be for a job, without any walk.
Present(t) == {p \in Path : t[p].kind # "none"}
FilesOf(t) == {p \in Path : t[p].kind = "file"}
Acceptable(t) ==
    /\ Present(t) = FilesOf(t) \cup {p \in Path : t[p].kind = "dir"}
    /\ job # "monitor" => \A p \in Present(t) : ValidPath(p)
    /\ Cardinality(FilesOf(t)) <= MaxFiles
    /\ Cardinality(Present(t) \ FilesOf(t)) <= MaxDirectories
    /\ \A p \in FilesOf(t) : t[p].size <= MaxSingleFileBytes
    /\ MapThenSumSet(LAMBDA p : t[p].size, FilesOf(t)) <= MaxTotalBytes
    /\ \A p \in FilesOf(t) : OneName(t, p)
    /\ selection \subseteq Present(t)

\* A tree that nobody touches is accepted exactly if it is within every limit of
\* the job, and what is delivered of it is all that was asked for.
QuietTreesAreJudgedExactly ==
    status # "running" /\ changes = 0 =>
        /\ (status = "accepted") <=> Acceptable(tree)
        /\ status = "accepted" =>
              result = [p \in IF job = "select"
                              THEN selection \cup UNION {Under(s) \cap Present(tree) :
                                                             s \in selection}
                              ELSE Present(tree) |-> tree[p]]

\* Whatever changes meanwhile: nothing is delivered that was never there, and no
\* entry is missed that was there, below the same directories, all the time.
Stable(p) == \A t \in versions : t[p] = tree[p] /\ \A q \in Above(p) : t[q] = tree[q]
Wanted(p) == job = "select" => p \in selection \/ Above(p) \cap selection # {}
StableEntriesAreSeen ==
    status = "accepted" =>
        /\ \A p \in Path : Stable(p) /\ tree[p].kind # "none" /\ Wanted(p) =>
                p \in DOMAIN result /\ result[p] = tree[p]
        /\ \A p \in DOMAIN result : result[p] \in {t[p] : t \in versions}

\* A preview or a selection that was accepted although something changed in the
\* middle shows what both fingerprints have seen: its summary and its entries are
\* of one tree.  (The fingerprints are of contents: a second change that undoes the
\* first between them is not noticed, and is exempt.)
DeliveredIsFingerprinted ==
    status = "accepted" /\ job \in {"preview", "select"} /\ changes <= 1 =>
        Fingerprint(result) = [p \in {q \in DOMAIN kept : Wanted(q)} |-> kept[p]]
=============================================================================
