-------------------------- MODULE CommitTreeProofs --------------------------
(***************************************************************************)
(* Theorems about CommitTree, for any number of commits, destinations,     *)
(* paths and contents and any bound on the disturbances.                   *)
(***************************************************************************)
EXTENDS CommitTree, TLAPS

\* Which trees exist in which phase.
Shaped(p) ==
    /\ pc[p] \in {"create", "copy", "verify", "expect", "mark", "handoff",
                  "reaudit", "check", "rename"} => audit[p] \in Tree
    /\ pc[p] \in {"copy", "verify", "expect", "mark", "handoff", "reaudit",
                  "check", "rename"} => partial[p] \in Tree
    /\ pc[p] \in {"mark", "handoff", "reaudit", "check", "rename"}
          => expected[p] \in Tree

TypeInv == TypeOK /\ \A p \in Publisher : Shaped(p)

LEMMA EmptyTreeType == EmptyTree \in Tree
BY DEF EmptyTree, NoEntry, Tree, Entry

LEMMA MarkedType == \A t \in Tree : Marked(t) \in Tree
BY DEF Marked, Tree, Entry

LEMMA Update == \A f \in [Publisher -> SUBSET Path], p \in Publisher, S \in SUBSET Path :
                  [f EXCEPT ![p] = S] \in [Publisher -> SUBSET Path]
OBVIOUS

LEMMA TypeInit == Init => TypeInv
BY CommitAssumption DEF Init, TypeInv, TypeOK, Shaped, Phase

LEMMA TypeStep == TypeInv /\ [Next]_vars => TypeInv'
<1> SUFFICES ASSUME TypeInv, [Next]_vars
             PROVE  TypeInv'
  OBVIOUS
<1> USE CommitAssumption
<1>1. ASSUME NEW p \in Publisher, Begin(p) PROVE TypeInv'
  <2>1. \/ pc' = [pc EXCEPT ![p] = "audit"]
        \/ pc' = [pc EXCEPT ![p] = "failed"]
    BY <1>1 DEF Begin, Goto
  <2> QED
    BY <1>1, <2>1 DEF TypeInv, TypeOK, Shaped, Begin, Phase
<1>2. ASSUME NEW p \in Publisher, AuditSource(p) PROVE TypeInv'
  BY <1>2 DEF TypeInv, TypeOK, Shaped, AuditSource, Goto, Phase
<1>3. ASSUME NEW p \in Publisher, CreatePartial(p) PROVE TypeInv'
  BY <1>3, EmptyTreeType DEF TypeInv, TypeOK, Shaped, CreatePartial, Goto, Phase, Present
<1>4. ASSUME NEW p \in Publisher, NEW x \in Path, CopyEntry(p, x) PROVE TypeInv'
  <2>1. src[p] \in Tree /\ partial[p] \in Tree /\ audit[p] \in Tree
    BY <1>4 DEF TypeInv, TypeOK, Shaped, CopyEntry
  <2>2. CASE /\ pc' = pc
             /\ partial' = [partial EXCEPT ![p][x] = [content |-> src[p][x].content,
                                                      original |-> TRUE,
                                                      marked |-> FALSE]]
             /\ todo' = [todo EXCEPT ![p] = @ \ {x}]
             /\ done' = [done EXCEPT ![p] = @ \cup {x}]
    <3> DEFINE e == [content |-> src[p][x].content, original |-> TRUE, marked |-> FALSE]
    <3>1. partial' = [partial EXCEPT ![p] = [partial[p] EXCEPT ![x] = e]]
      BY <2>2
    <3>2. [partial[p] EXCEPT ![x] = e] \in Tree
      BY <2>1 DEF Tree, Entry
    <3>3. partial' \in [Publisher -> Tree \cup {Nothing}] /\ partial'[p] \in Tree
          /\ \A q \in Publisher \ {p} : partial'[q] = partial[q]
      BY <3>1, <3>2 DEF TypeInv, TypeOK
    <3>4. TypeOK'
      BY <1>4, <2>2, <3>3 DEF TypeInv, TypeOK, CopyEntry
    <3>5. ASSUME NEW q \in Publisher PROVE Shaped(q)'
      BY <1>4, <2>2, <3>3 DEF TypeInv, Shaped, CopyEntry
    <3> QED
      BY <3>4, <3>5 DEF TypeInv
  <2>3. CASE pc' = [pc EXCEPT ![p] = "cleanup"] /\ UNCHANGED <<partial, todo, done>>
    BY <1>4, <2>3 DEF TypeInv, TypeOK, Shaped, CopyEntry, Phase
  <2> QED
    BY <1>4, <2>2, <2>3, Zenon DEF CopyEntry, Goto
<1>5. ASSUME NEW p \in Publisher, FinishCopy(p) PROVE TypeInv'
  BY <1>5 DEF TypeInv, TypeOK, Shaped, FinishCopy, Goto, Phase
<1>6. ASSUME NEW p \in Publisher, VerifyCopy(p) PROVE TypeInv'
  BY <1>6 DEF TypeInv, TypeOK, Shaped, VerifyCopy, Goto, Phase
<1>7. ASSUME NEW p \in Publisher, RecordExpected(p) PROVE TypeInv'
  BY <1>7 DEF TypeInv, TypeOK, Shaped, RecordExpected, Goto, Phase
<1>8. ASSUME NEW p \in Publisher, ApplyMotw(p) PROVE TypeInv'
  <2>1. partial[p] \in Tree /\ expected[p] \in Tree
    BY <1>8 DEF TypeInv, TypeOK, Shaped, ApplyMotw
  <2>2. partial' \in [Publisher -> Tree \cup {Nothing}] /\ partial'[p] \in Tree
        /\ \A q \in Publisher \ {p} : partial'[q] = partial[q]
    BY <1>8, <2>1, MarkedType DEF ApplyMotw, TypeInv, TypeOK
  <2>3. todo' \in [Publisher -> SUBSET Path] /\ done' \in [Publisher -> SUBSET Path]
    BY <1>8 DEF ApplyMotw, TypeInv, TypeOK, FilesOf
  <2>4. \/ pc' = [pc EXCEPT ![p] = "handoff"] /\ report' = report
        \/ pc' = [pc EXCEPT ![p] = "check"]
              /\ report' = [report EXCEPT ![p] = "disabled"]
    BY <1>8 DEF ApplyMotw, Goto
  <2>5. UNCHANGED <<job, src, audit, expected, dest, disturbances>>
    BY <1>8 DEF ApplyMotw
  <2>6. TypeOK'
    <3>1. pc' \in [Publisher -> Phase]
      BY <2>4 DEF TypeInv, TypeOK, Phase
    <3>2. report' \in [Publisher -> {"none", "disabled", "completed", "incomplete"}]
      BY <2>4 DEF TypeInv, TypeOK
    <3> QED
      BY <2>2, <2>3, <2>5, <3>1, <3>2 DEF TypeInv, TypeOK
  <2>7. ASSUME NEW q \in Publisher PROVE Shaped(q)'
    <3>1. CASE q = p
      BY <2>1, <2>2, <2>5, <3>1, <1>8 DEF TypeInv, Shaped, ApplyMotw
    <3>2. CASE q # p
      <4>1. pc'[q] = pc[q]
        BY <2>4, <3>2 DEF TypeInv, TypeOK
      <4> QED
        BY <2>2, <2>5, <3>2, <4>1 DEF TypeInv, Shaped
    <3> QED
      BY <3>1, <3>2
  <2> QED
    BY <2>6, <2>7 DEF TypeInv
<1>9. ASSUME NEW p \in Publisher, NEW x \in Path, HandoffFile(p, x) PROVE TypeInv'
  <2>1. \/ pc' = [pc EXCEPT ![p] = "cleanup"] /\ UNCHANGED <<todo, done>>
        \/ /\ pc' = pc
           /\ todo' = [todo EXCEPT ![p] = @ \ {x}]
           /\ done' = [done EXCEPT ![p] = @ \cup {x}]
    BY <1>9 DEF HandoffFile, Goto
  <2>2. UNCHANGED <<job, src, audit, partial, expected, report, dest, disturbances>>
    BY <1>9 DEF HandoffFile
  <2>4. TypeOK'
    <3>1. pc' \in [Publisher -> Phase]
      BY <2>1 DEF TypeInv, TypeOK, Phase
    <3>2. /\ todo' = todo \/ todo' = [todo EXCEPT ![p] = todo[p] \ {x}]
          /\ done' = done \/ done' = [done EXCEPT ![p] = done[p] \cup {x}]
      BY <2>1
    <3>3. /\ todo \in [Publisher -> SUBSET Path] /\ todo[p] \ {x} \in SUBSET Path
          /\ done \in [Publisher -> SUBSET Path] /\ done[p] \cup {x} \in SUBSET Path
      BY DEF TypeInv, TypeOK
    <3>4. /\ [todo EXCEPT ![p] = todo[p] \ {x}] \in [Publisher -> SUBSET Path]
          /\ [done EXCEPT ![p] = done[p] \cup {x}] \in [Publisher -> SUBSET Path]
      BY <3>3, Update
    <3>5. todo' \in [Publisher -> SUBSET Path] /\ done' \in [Publisher -> SUBSET Path]
      BY <3>2, <3>3, <3>4, Zenon
    <3> QED
      BY <2>2, <3>1, <3>5 DEF TypeInv, TypeOK
  <2>3. ASSUME NEW q \in Publisher PROVE Shaped(q)'
    BY <1>9, <2>1 DEF TypeInv, TypeOK, Shaped, HandoffFile
  <2> QED
    BY <2>4, <2>3 DEF TypeInv
<1>10. ASSUME NEW p \in Publisher, FinishHandoff(p) PROVE TypeInv'
  BY <1>10 DEF TypeInv, TypeOK, Shaped, FinishHandoff, Goto, Phase
<1>11. ASSUME NEW p \in Publisher, Reaudit(p) PROVE TypeInv'
  BY <1>11 DEF TypeInv, TypeOK, Shaped, Reaudit, Goto, Phase
<1>12. ASSUME NEW p \in Publisher, CheckFree(p) PROVE TypeInv'
  BY <1>12 DEF TypeInv, TypeOK, Shaped, CheckFree, Goto, Phase
<1>13. ASSUME NEW p \in Publisher, Rename(p) PROVE TypeInv'
  <2>1. job[p].dest \in Destination /\ partial[p] \in Tree
    BY <1>13 DEF TypeInv, TypeOK, Shaped, Rename
  <2>2. CASE pc' = [pc EXCEPT ![p] = "cleanup"] /\ UNCHANGED <<dest, partial>>
    BY <1>13, <2>2 DEF TypeInv, TypeOK, Shaped, Rename, Phase
  <2>3. CASE /\ dest' = [dest EXCEPT ![job[p].dest] = [by |-> p, tree |-> partial[p]]]
             /\ partial' = [partial EXCEPT ![p] = Nothing]
             /\ pc' = [pc EXCEPT ![p] = "published"]
    BY <1>13, <2>1, <2>3 DEF TypeInv, TypeOK, Shaped, Rename, Phase
  <2> QED
    BY <1>13, <2>2, <2>3 DEF Rename, Goto
<1>14. ASSUME NEW p \in Publisher, Cleanup(p) PROVE TypeInv'
  BY <1>14 DEF TypeInv, TypeOK, Shaped, Cleanup, Goto, Phase
<1>15. ASSUME NEW p \in Publisher, ServiceFails(p) PROVE TypeInv'
  <2>1. \/ pc' = [pc EXCEPT ![p] = "cleanup"] /\ report' = report
        \/ /\ pc' = [pc EXCEPT ![p] = "reaudit"]
           /\ report' = [report EXCEPT ![p] = "incomplete"]
    BY <1>15 DEF ServiceFails, Goto
  <2>2. /\ disturbances' = disturbances + 1
        /\ UNCHANGED <<job, src, audit, partial, expected, todo, done, dest>>
    BY <1>15 DEF ServiceFails
  <2>4. TypeOK'
    <3>1. pc' \in [Publisher -> Phase]
      BY <2>1 DEF TypeInv, TypeOK, Phase
    <3>2. /\ report' \in [Publisher -> {"none", "disabled", "completed", "incomplete"}]
          /\ todo' \in [Publisher -> SUBSET Path]
          /\ done' \in [Publisher -> SUBSET Path]
      BY <2>1, <2>2 DEF TypeInv, TypeOK
    <3> QED
      BY <2>2, <3>1, <3>2 DEF TypeInv, TypeOK
  <2>3. ASSUME NEW q \in Publisher PROVE Shaped(q)'
    BY <1>15, <2>1 DEF TypeInv, TypeOK, Shaped, ServiceFails
  <2> QED
    BY <2>4, <2>3 DEF TypeInv
<1>16. ASSUME NEW p \in Publisher, StepFails(p) \/ Crash(p) PROVE TypeInv'
  BY <1>16 DEF TypeInv, TypeOK, Shaped, StepFails, Crash, Goto, Phase
<1>17. ASSUME NEW p \in Publisher, NEW x \in Path, MutateSource(p, x) PROVE TypeInv'
  BY <1>17 DEF TypeInv, TypeOK, Shaped, MutateSource, Tree, Entry
<1>18. ASSUME NEW p \in Publisher, NEW x \in Path, TamperPartial(p, x) PROVE TypeInv'
  BY <1>18 DEF TypeInv, TypeOK, Shaped, TamperPartial, Tree
<1>19. ASSUME NEW d \in Destination, NEW t \in SourceTrees, SomeoneElseCreates(d, t)
       PROVE TypeInv'
  BY <1>19 DEF TypeInv, TypeOK, Shaped, SomeoneElseCreates
<1>20. CASE UNCHANGED vars
  BY <1>20 DEF TypeInv, TypeOK, Shaped, vars
<1> QED
  BY <1>1, <1>2, <1>3, <1>4, <1>5, <1>6, <1>7, <1>8, <1>9, <1>10, <1>11, <1>12,
     <1>13, <1>14, <1>15, <1>16, <1>17, <1>18, <1>19, <1>20
     DEF Next, Step, Environment

\* Type correctness: every reachable state of every instance is well formed.
THEOREM TypeCorrect == Spec => []TypeOK
<1>1. TypeInv => TypeOK
  BY DEF TypeInv
<1> QED
  BY <1>1, TypeInit, TypeStep, PTL DEF Spec

-----------------------------------------------------------------------------
(* Safety of what is published. *)

\* The interference that the audits of commit_tree see: nothing touches the
\* partial directory after the audit that comes last, which for a commit
\* without a handoff is the one before the zone is applied.
Detectable ==
    /\ TamperPhases \cap {"expect", "check", "rename"} = {}
    /\ "mark" \in TamperPhases => \A j \in Jobs : j.policy # "disabled"

\* What the audits passed so far are worth.
Chain(p) ==
    /\ pc[p] = "expect" => ContentsOf(partial[p]) = ContentsOf(audit[p])
    /\ pc[p] \in {"mark", "handoff", "reaudit", "check", "rename"} =>
          ContentsOf(expected[p]) = ContentsOf(audit[p])
    /\ pc[p] \in {"check", "rename"} =>
          ContentsOf(partial[p]) = ContentsOf(audit[p])
    /\ pc[p] = "mark" /\ ~Enabled(p) =>
          ContentsOf(partial[p]) = ContentsOf(audit[p])

\* Only a commit that has returned success owns what is at its destination.
Owner(p) ==
    Holds(p) => /\ pc[p] = "published"
                /\ ContentsOf(Published(p)) = ContentsOf(audit[p])

\* A commit that has published something owns its destination for good.
Winner(p) == pc[p] = "published" /\ Present(audit[p]) # {} => Holds(p)

SafeInv == \A p \in Publisher : Chain(p) /\ Owner(p) /\ Winner(p)

LEMMA MarkedContents == \A t \in Tree : ContentsOf(Marked(t)) = ContentsOf(t)
BY DEF Marked, ContentsOf, Tree, Entry

\* A step of one commit that leaves the destinations alone.
LEMMA LocalStep ==
    ASSUME SafeInv, NEW p \in Publisher, pc[p] # "published", pc'[p] # "published",
           UNCHANGED <<job, dest>>, Chain(p)',
           \A q \in Publisher \ {p} :
               /\ audit'[q] = audit[q]
               /\ partial'[q] = partial[q]
               /\ expected'[q] = expected[q]
               /\ pc'[q] = pc[q]
    PROVE  SafeInv'
<1>1. ASSUME NEW q \in Publisher, q # p PROVE Chain(q)' /\ Owner(q)' /\ Winner(q)'
  BY <1>1 DEF SafeInv, Chain, Owner, Winner, Holds, Published, Enabled
<1>2. Owner(p)' /\ Winner(p)'
  BY DEF SafeInv, Owner, Winner, Holds
<1> QED
  BY <1>1, <1>2 DEF SafeInv

\* Most steps only move on, to a phase that the audits so far entitle to.
LEMMA MoveOn ==
    ASSUME TypeInv, SafeInv, NEW p \in Publisher, NEW phase \in Phase,
           pc[p] # "published", phase # "published",
           pc' = [pc EXCEPT ![p] = phase],
           UNCHANGED <<job, dest, audit, partial, expected>>,
           Chain(p)'
    PROVE  SafeInv'
BY LocalStep DEF TypeInv, TypeOK

\* The phases that say nothing yet about the partial directory.
LEMMA Unaudited ==
    ASSUME NEW p \in Publisher,
           pc'[p] \notin {"expect", "mark", "handoff", "reaudit", "check", "rename"}
    PROVE  Chain(p)'
BY DEF Chain

LEMMA SafeInit == Init => SafeInv
<1> SUFFICES ASSUME Init, NEW p \in Publisher
             PROVE  Chain(p) /\ Owner(p) /\ Winner(p)
  BY DEF SafeInv
<1>1. pc[p] = "begin"
  BY DEF Init
<1>2. job[p].dest \in Destination
  BY TypeInit, CommitAssumption DEF TypeInv, TypeOK
<1>3. ~Holds(p)
  BY <1>2 DEF Init, Holds
<1> QED
  BY <1>1, <1>3 DEF Chain, Owner, Winner

LEMMA SafeStep == Detectable /\ TypeInv /\ SafeInv /\ [Next]_vars => SafeInv'
<1> SUFFICES ASSUME Detectable, TypeInv, SafeInv, [Next]_vars
             PROVE  SafeInv'
  OBVIOUS
<1> USE CommitAssumption
<1>1. ASSUME NEW p \in Publisher, Begin(p) PROVE SafeInv'
  <2>1. PICK phase \in {"audit", "failed"} : pc' = [pc EXCEPT ![p] = phase]
    BY <1>1 DEF Begin, Goto
  <2>2. pc'[p] = phase
    BY <2>1 DEF TypeInv, TypeOK
  <2> QED
    BY <1>1, <2>1, <2>2, Unaudited, MoveOn DEF Begin, Phase
<1>2. ASSUME NEW p \in Publisher, AuditSource(p) PROVE SafeInv'
  <2>1. pc'[p] = "create"
    BY <1>2 DEF AuditSource, Goto, TypeInv, TypeOK
  <2> QED
    BY <1>2, <2>1, Unaudited, LocalStep DEF AuditSource, Goto, TypeInv, TypeOK
<1>3. ASSUME NEW p \in Publisher, CreatePartial(p) PROVE SafeInv'
  <2>1. pc'[p] = "copy"
    BY <1>3 DEF CreatePartial, Goto, TypeInv, TypeOK
  <2> QED
    BY <1>3, <2>1, Unaudited, LocalStep DEF CreatePartial, Goto, TypeInv, TypeOK
<1>4. ASSUME NEW p \in Publisher, NEW x \in Path, CopyEntry(p, x) PROVE SafeInv'
  <2>1. /\ pc[p] = "copy"
        /\ UNCHANGED <<job, dest, audit, expected>>
    BY <1>4 DEF CopyEntry
  <2>2. \/ pc' = pc
        \/ pc' = [pc EXCEPT ![p] = "cleanup"]
    BY <1>4 DEF CopyEntry, Goto
  <2>3. \A q \in Publisher \ {p} : partial'[q] = partial[q]
    BY <1>4, Zenon DEF CopyEntry, TypeInv, TypeOK
  <2>4. pc'[p] \in {"copy", "cleanup"} /\ \A q \in Publisher \ {p} : pc'[q] = pc[q]
    BY <2>1, <2>2 DEF TypeInv, TypeOK
  <2> QED
    BY <2>1, <2>3, <2>4, Unaudited, LocalStep
<1>5. ASSUME NEW p \in Publisher, FinishCopy(p) PROVE SafeInv'
  <2>1. PICK phase \in {"verify", "cleanup"} : pc' = [pc EXCEPT ![p] = phase]
    BY <1>5 DEF FinishCopy, Goto
  <2>2. pc'[p] = phase
    BY <2>1 DEF TypeInv, TypeOK
  <2> QED
    BY <1>5, <2>1, <2>2, Unaudited, MoveOn DEF FinishCopy, Phase
<1>6. ASSUME NEW p \in Publisher, VerifyCopy(p) PROVE SafeInv'
  <2>1. PICK phase \in {"expect", "cleanup"} :
           /\ pc' = [pc EXCEPT ![p] = phase]
           /\ phase = "expect" => ContentsOf(partial[p]) = ContentsOf(audit[p])
    BY <1>6 DEF VerifyCopy, Goto, Fingerprint, ContentsOf
  <2>2. pc'[p] = phase
    BY <2>1 DEF TypeInv, TypeOK
  <2>3. Chain(p)'
    BY <1>6, <2>1, <2>2 DEF Chain, VerifyCopy
  <2> QED
    BY <1>6, <2>1, <2>3, MoveOn DEF VerifyCopy, Phase
<1>7. ASSUME NEW p \in Publisher, RecordExpected(p) PROVE SafeInv'
  <2>1. /\ pc'[p] = "mark"
        /\ expected'[p] = partial[p]
        /\ ContentsOf(partial[p]) = ContentsOf(audit[p])
    BY <1>7 DEF RecordExpected, Goto, TypeInv, TypeOK, SafeInv, Chain
  <2>2. Chain(p)'
    BY <1>7, <2>1 DEF Chain, RecordExpected
  <2> QED
    BY <1>7, <2>1, <2>2, LocalStep DEF RecordExpected, Goto, TypeInv, TypeOK
<1>8. ASSUME NEW p \in Publisher, ApplyMotw(p) PROVE SafeInv'
  <2>1. partial[p] \in Tree
    BY <1>8 DEF TypeInv, Shaped, ApplyMotw
  <2>2. ContentsOf(partial'[p]) = ContentsOf(partial[p])
    BY <1>8, <2>1, MarkedContents DEF ApplyMotw, TypeInv, TypeOK
  <2>3. /\ pc[p] = "mark"
        /\ UNCHANGED <<job, dest, audit, expected>>
        /\ \A q \in Publisher \ {p} : partial'[q] = partial[q]
    BY <1>8 DEF ApplyMotw, TypeInv, TypeOK
  <2>4. \/ pc' = [pc EXCEPT ![p] = "handoff"]
        \/ pc' = [pc EXCEPT ![p] = "check"] /\ ~Enabled(p)
    BY <1>8 DEF ApplyMotw, Goto
  <2>5. /\ \/ pc'[p] = "handoff"
           \/ pc'[p] = "check" /\ ~Enabled(p)
        /\ \A q \in Publisher \ {p} : pc'[q] = pc[q]
    BY <2>4 DEF TypeInv, TypeOK
  <2>6. Chain(p)'
    BY <2>2, <2>3, <2>5 DEF Chain, SafeInv
  <2> QED
    BY <2>3, <2>5, <2>6, LocalStep
<1>9. ASSUME NEW p \in Publisher, NEW x \in Path, HandoffFile(p, x) PROVE SafeInv'
  <2>1. /\ pc[p] = "handoff"
        /\ UNCHANGED <<job, dest, audit, partial, expected>>
    BY <1>9 DEF HandoffFile
  <2>2. pc' = pc \/ pc' = [pc EXCEPT ![p] = "cleanup"]
    BY <1>9 DEF HandoffFile, Goto
  <2>3. pc'[p] \in {"handoff", "cleanup"} /\ \A q \in Publisher \ {p} : pc'[q] = pc[q]
    BY <2>1, <2>2 DEF TypeInv, TypeOK
  <2>4. Chain(p)'
    BY <2>1, <2>3 DEF Chain, SafeInv
  <2> QED
    BY <2>1, <2>3, <2>4, LocalStep
<1>10. ASSUME NEW p \in Publisher, FinishHandoff(p) PROVE SafeInv'
  <2>1. pc'[p] = "reaudit"
    BY <1>10 DEF FinishHandoff, Goto, TypeInv, TypeOK
  <2>2. Chain(p)'
    BY <1>10, <2>1 DEF Chain, SafeInv, FinishHandoff
  <2> QED
    BY <1>10, <2>2, MoveOn DEF FinishHandoff, Goto, Phase
<1>11. ASSUME NEW p \in Publisher, Reaudit(p) PROVE SafeInv'
  <2>1. PICK phase \in {"check", "cleanup"} :
           /\ pc' = [pc EXCEPT ![p] = phase]
           /\ phase = "check" => ContentsOf(partial[p]) = ContentsOf(expected[p])
    BY <1>11 DEF Reaudit, Intact, Goto, Fingerprint, ContentsOf
  <2>2. pc'[p] = phase
    BY <2>1 DEF TypeInv, TypeOK
  <2>3. Chain(p)'
    BY <1>11, <2>1, <2>2 DEF Chain, Reaudit, SafeInv
  <2> QED
    BY <1>11, <2>1, <2>3, MoveOn DEF Reaudit, Phase
<1>12. ASSUME NEW p \in Publisher, CheckFree(p) PROVE SafeInv'
  <2>1. PICK phase \in {"rename", "cleanup"} : pc' = [pc EXCEPT ![p] = phase]
    BY <1>12 DEF CheckFree, Goto
  <2>2. pc'[p] = phase
    BY <2>1 DEF TypeInv, TypeOK
  <2>3. Chain(p)'
    BY <1>12, <2>1, <2>2 DEF Chain, CheckFree, SafeInv
  <2> QED
    BY <1>12, <2>1, <2>3, MoveOn DEF CheckFree, Phase
<1>13. ASSUME NEW p \in Publisher, Rename(p) PROVE SafeInv'
  <2> DEFINE d == job[p].dest
  <2>1. d \in Destination /\ partial[p] \in Tree /\ audit[p] \in Tree /\ pc[p] = "rename"
    BY <1>13 DEF TypeInv, TypeOK, Shaped, Rename
  <2>2. CASE pc' = [pc EXCEPT ![p] = "cleanup"] /\ UNCHANGED <<dest, partial>>
    <3>1. Chain(p)'
      BY <2>2, Unaudited DEF TypeInv, TypeOK
    <3> QED
      BY <1>13, <2>1, <2>2, <3>1, MoveOn DEF Rename, Phase
  <2>3. CASE /\ Replaceable(d)
             /\ dest' = [dest EXCEPT ![d] = [by |-> p, tree |-> partial[p]]]
             /\ partial' = [partial EXCEPT ![p] = Nothing]
             /\ pc' = [pc EXCEPT ![p] = "published"]
    <3>1. /\ pc'[p] = "published"
          /\ dest'[d] = [by |-> p, tree |-> partial[p]]
          /\ dest'[d] # Nothing
          /\ UNCHANGED <<job, audit, expected>>
      BY <1>13, <2>1, <2>3 DEF TypeInv, TypeOK, Rename
    <3>2. ContentsOf(partial[p]) = ContentsOf(audit[p])
      BY <2>1 DEF SafeInv, Chain
    <3>3. Chain(p)' /\ Owner(p)' /\ Winner(p)'
      BY <3>1, <3>2 DEF Chain, Owner, Winner, Holds, Published
    <3>4. ASSUME NEW q \in Publisher, q # p PROVE Chain(q)' /\ Owner(q)' /\ Winner(q)'
      <4>1. pc'[q] = pc[q] /\ partial'[q] = partial[q]
        BY <2>3, <3>4 DEF TypeInv, TypeOK
      <4>2. Chain(q)'
        BY <3>1, <4>1 DEF SafeInv, Chain, Enabled
      <4>3. CASE job[q].dest # d
        <5>1. job[q].dest \in Destination
          BY DEF TypeInv, TypeOK
        <5>2. dest'[job[q].dest] = dest[job[q].dest]
          BY <2>3, <4>3, <5>1 DEF TypeInv, TypeOK
        <5> QED
          BY <3>1, <4>1, <4>2, <5>2 DEF SafeInv, Owner, Winner, Holds, Published
      <4>4. CASE job[q].dest = d
        <5>1. ~Holds(q)'
          BY <3>1, <3>4, <4>4 DEF Holds
        <5>2. Holds(q) => ContentsOf(audit[q]) = ContentsOf(EmptyTree)
          BY <2>3, <4>4 DEF Replaceable, Holds, SafeInv, Owner, Published
        <5>3. ContentsOf(audit[q]) = ContentsOf(EmptyTree) => Present(audit[q]) = {}
          BY DEF ContentsOf, Present, EmptyTree, NoEntry
        <5>4. Winner(q)'
          BY <3>1, <4>1, <5>2, <5>3 DEF SafeInv, Winner, Present
        <5> QED
          BY <4>2, <5>1, <5>4 DEF Owner
      <4> QED
        BY <4>3, <4>4
    <3> QED
      BY <3>3, <3>4 DEF SafeInv
  <2> QED
    BY <1>13, <2>2, <2>3 DEF Rename, Goto
<1>14. ASSUME NEW p \in Publisher, Cleanup(p) PROVE SafeInv'
  <2>1. pc'[p] = "failed" /\ \A q \in Publisher \ {p} : pc'[q] = pc[q]
    BY <1>14 DEF Cleanup, Goto, TypeInv, TypeOK
  <2>2. /\ pc[p] = "cleanup"
        /\ UNCHANGED <<job, dest, audit, expected>>
        /\ \A q \in Publisher \ {p} : partial'[q] = partial[q]
    BY <1>14 DEF Cleanup, TypeInv, TypeOK
  <2> QED
    BY <2>1, <2>2, Unaudited, LocalStep
<1>15. ASSUME NEW p \in Publisher, ServiceFails(p) PROVE SafeInv'
  <2>1. PICK phase \in {"cleanup", "reaudit"} : pc' = [pc EXCEPT ![p] = phase]
    BY <1>15 DEF ServiceFails, Goto
  <2>2. pc'[p] = phase
    BY <2>1 DEF TypeInv, TypeOK
  <2>3. /\ pc[p] = "handoff"
        /\ UNCHANGED <<job, dest, audit, partial, expected>>
    BY <1>15 DEF ServiceFails
  <2>4. Chain(p)'
    BY <2>2, <2>3 DEF Chain, SafeInv
  <2> QED
    BY <2>1, <2>3, <2>4, MoveOn DEF Phase
<1>16. ASSUME NEW p \in Publisher, StepFails(p) \/ Crash(p) PROVE SafeInv'
  <2>1. PICK phase \in {"cleanup", "crashed"} : pc' = [pc EXCEPT ![p] = phase]
    BY <1>16 DEF StepFails, Crash, Goto
  <2>2. pc'[p] = phase
    BY <2>1 DEF TypeInv, TypeOK
  <2>3. /\ pc[p] # "published"
        /\ UNCHANGED <<job, dest, audit, partial, expected>>
    BY <1>16 DEF StepFails, Crash, Ended
  <2> QED
    BY <2>1, <2>2, <2>3, Unaudited, MoveOn DEF Phase
<1>17. ASSUME NEW p \in Publisher, NEW x \in Path, MutateSource(p, x) PROVE SafeInv'
  BY <1>17 DEF MutateSource, SafeInv, Chain, Owner, Winner, Holds, Published, Enabled
<1>18. ASSUME NEW p \in Publisher, NEW x \in Path, TamperPartial(p, x) PROVE SafeInv'
  <2>1. /\ pc[p] \in TamperPhases
        /\ UNCHANGED <<job, dest, audit, expected, pc>>
        /\ \A q \in Publisher \ {p} : partial'[q] = partial[q]
    BY <1>18 DEF TamperPartial, TypeInv, TypeOK
  <2>2. pc[p] \notin {"expect", "check", "rename", "published"}
    BY <2>1 DEF Detectable, Ended
  <2>3. pc[p] = "mark" => Enabled(p)
    BY <2>1 DEF Detectable, Enabled, TypeInv, TypeOK
  <2>4. Chain(p)'
    BY <2>1, <2>2, <2>3 DEF Chain, SafeInv, Enabled
  <2> QED
    BY <2>1, <2>2, <2>4, LocalStep
<1>19. ASSUME NEW d \in Destination, NEW t \in SourceTrees, SomeoneElseCreates(d, t)
       PROVE SafeInv'
  <2>1. UNCHANGED <<job, audit, partial, expected, pc>>
    BY <1>19 DEF SomeoneElseCreates
  <2>2. ASSUME NEW q \in Publisher
        PROVE  /\ job[q].dest = d => ~Holds(q)' /\ ~Holds(q)
               /\ job[q].dest # d => dest'[job[q].dest] = dest[job[q].dest]
    BY <1>19, <2>1 DEF SomeoneElseCreates, Holds, TypeInv, TypeOK
  <2> QED
    BY <2>1, <2>2 DEF SafeInv, Chain, Owner, Winner, Holds, Published, Enabled
<1>20. CASE UNCHANGED vars
  BY <1>20 DEF vars, SafeInv, Chain, Owner, Winner, Holds, Published, Enabled
<1> QED
  BY <1>1, <1>2, <1>3, <1>4, <1>5, <1>6, <1>7, <1>8, <1>9, <1>10, <1>11, <1>12,
     <1>13, <1>14, <1>15, <1>16, <1>17, <1>18, <1>19, <1>20
     DEF Next, Step, Environment

\* commit_tree publishes what it audited: for any number of commits, paths and
\* contents, and any interference its audits can see, a tree at a destination
\* has exactly the contents that its commit found in its source.
THEOREM PublicationSafe ==
    ASSUME Detectable
    PROVE  Spec => []PublishedIsAudited
<1>1. SafeInv => PublishedIsAudited
  BY DEF SafeInv, Owner, PublishedIsAudited
<1>2. TypeInv /\ SafeInv /\ [Next]_vars => SafeInv'
  BY SafeStep
<1> QED
  BY <1>1, <1>2, TypeInit, TypeStep, SafeInit, PTL DEF Spec

\* Two commits never both win a name: a published tree with an entry in it is
\* not replaced by any commit or outside program that only creates directories.
THEOREM WinnerIsSafe ==
    ASSUME Detectable
    PROVE  Spec => []WinnerKeepsDestination
<1>1. SafeInv => WinnerKeepsDestination
  BY DEF SafeInv, Winner, WinnerKeepsDestination
<1>2. TypeInv /\ SafeInv /\ [Next]_vars => SafeInv'
  BY SafeStep
<1> QED
  BY <1>1, <1>2, TypeInit, TypeStep, SafeInit, PTL DEF Spec

-----------------------------------------------------------------------------
(* What a commit leaves behind. *)

\* There is a partial directory only from its creation to its removal, and only
\* a commit that has returned success holds a destination.
Clean(p) ==
    /\ pc[p] \in {"begin", "audit", "create"} => partial[p] = Nothing
    /\ pc[p] = "failed" /\ ~RemovalMayFail => partial[p] = Nothing
    /\ Holds(p) => pc[p] = "published"

CleanInv == \A p \in Publisher : Clean(p)

LEMMA CleanInit == Init => CleanInv
<1> SUFFICES ASSUME Init, NEW p \in Publisher PROVE Clean(p)
  BY DEF CleanInv
<1>1. job[p].dest \in Destination
  BY TypeInit, CommitAssumption DEF TypeInv, TypeOK
<1> QED
  BY <1>1 DEF Init, Clean, Holds

\* A step of one commit that leaves the destinations alone.
LEMMA LocalClean ==
    ASSUME CleanInv, NEW p \in Publisher, pc[p] # "published", UNCHANGED <<job, dest>>,
           pc'[p] \in {"begin", "audit", "create"} => partial'[p] = Nothing,
           pc'[p] = "failed" /\ ~RemovalMayFail => partial'[p] = Nothing,
           \A q \in Publisher \ {p} : partial'[q] = partial[q] /\ pc'[q] = pc[q]
    PROVE  CleanInv'
BY DEF CleanInv, Clean, Holds

LEMMA CleanStep == TypeInv /\ CleanInv /\ [Next]_vars => CleanInv'
<1> SUFFICES ASSUME TypeInv, CleanInv, [Next]_vars
             PROVE  CleanInv'
  OBVIOUS
<1> USE CommitAssumption
<1>0. TypeOK
  BY DEF TypeInv
<1>1. ASSUME NEW p \in Publisher, Begin(p) \/ AuditSource(p) PROVE CleanInv'
  <2>1. /\ pc[p] \in {"begin", "audit"}
        /\ UNCHANGED <<job, dest, partial>>
        /\ \E phase \in Phase : pc' = [pc EXCEPT ![p] = phase]
    BY <1>1 DEF Begin, AuditSource, Goto, Phase
  <2>2. partial[p] = Nothing
    BY <2>1 DEF CleanInv, Clean
  <2>3. \A q \in Publisher \ {p} : pc'[q] = pc[q]
    BY <1>0, <2>1 DEF TypeOK
  <2> QED
    BY <2>1, <2>2, <2>3, LocalClean
<1>2. ASSUME NEW p \in Publisher, CreatePartial(p) PROVE CleanInv'
  BY <1>0, <1>2, LocalClean DEF CreatePartial, Goto, TypeOK
<1>3. ASSUME NEW p \in Publisher, NEW x \in Path, CopyEntry(p, x) PROVE CleanInv'
  <2>1. pc[p] = "copy" /\ UNCHANGED <<job, dest>>
    BY <1>3 DEF CopyEntry
  <2>2. pc' = pc \/ pc' = [pc EXCEPT ![p] = "cleanup"]
    BY <1>3 DEF CopyEntry, Goto
  <2>3. pc'[p] \in {"copy", "cleanup"} /\ \A q \in Publisher \ {p} : pc'[q] = pc[q]
    BY <1>0, <2>1, <2>2 DEF TypeOK
  <2>4. \A q \in Publisher \ {p} : partial'[q] = partial[q]
    BY <1>3, Zenon DEF CopyEntry, TypeInv, TypeOK
  <2> QED
    BY <2>1, <2>3, <2>4, LocalClean
<1>4. ASSUME NEW p \in Publisher,
             \/ FinishCopy(p) \/ VerifyCopy(p) \/ RecordExpected(p) \/ FinishHandoff(p)
             \/ Reaudit(p) \/ CheckFree(p)
      PROVE  CleanInv'
  <2>1. /\ pc[p] # "published"
        /\ UNCHANGED <<job, dest, partial>>
        /\ \E phase \in {"verify", "expect", "mark", "reaudit", "check", "rename", "cleanup"} :
              pc' = [pc EXCEPT ![p] = phase]
    BY <1>4 DEF FinishCopy, VerifyCopy, RecordExpected, FinishHandoff, Reaudit, CheckFree, Goto
  <2>2. /\ pc'[p] \notin {"begin", "audit", "create", "failed"}
        /\ \A q \in Publisher \ {p} : pc'[q] = pc[q]
    BY <1>0, <2>1 DEF TypeOK
  <2> QED
    BY <2>1, <2>2, LocalClean
<1>5. ASSUME NEW p \in Publisher, ApplyMotw(p) PROVE CleanInv'
  <2>1. /\ pc[p] = "mark"
        /\ UNCHANGED <<job, dest>>
        /\ \A q \in Publisher \ {p} : partial'[q] = partial[q]
        /\ \E phase \in {"handoff", "check"} : pc' = [pc EXCEPT ![p] = phase]
    BY <1>0, <1>5 DEF ApplyMotw, Goto, TypeOK
  <2>2. /\ pc'[p] \in {"handoff", "check"}
        /\ \A q \in Publisher \ {p} : pc'[q] = pc[q]
    BY <1>0, <2>1 DEF TypeOK
  <2> QED
    BY <2>1, <2>2, LocalClean
<1>6. ASSUME NEW p \in Publisher, NEW x \in Path, HandoffFile(p, x) PROVE CleanInv'
  <2>1. pc[p] = "handoff" /\ UNCHANGED <<job, dest, partial>>
    BY <1>6 DEF HandoffFile
  <2>2. pc' = pc \/ pc' = [pc EXCEPT ![p] = "cleanup"]
    BY <1>6 DEF HandoffFile, Goto
  <2>3. pc'[p] \in {"handoff", "cleanup"} /\ \A q \in Publisher \ {p} : pc'[q] = pc[q]
    BY <1>0, <2>1, <2>2 DEF TypeOK
  <2> QED
    BY <2>1, <2>3, LocalClean
<1>7. ASSUME NEW p \in Publisher, Rename(p) PROVE CleanInv'
  <2> DEFINE d == job[p].dest
  <2>1. d \in Destination /\ pc[p] = "rename" /\ UNCHANGED job
    BY <1>0, <1>7 DEF TypeOK, Rename
  <2>2. CASE pc' = [pc EXCEPT ![p] = "cleanup"] /\ UNCHANGED <<dest, partial>>
    BY <1>0, <2>1, <2>2, LocalClean DEF TypeOK
  <2>3. CASE /\ dest' = [dest EXCEPT ![d] = [by |-> p, tree |-> partial[p]]]
             /\ partial' = [partial EXCEPT ![p] = Nothing]
             /\ pc' = [pc EXCEPT ![p] = "published"]
    <3>1. pc'[p] = "published" /\ dest'[d].by = p
      BY <1>0, <2>1, <2>3 DEF TypeOK
    <3>2. ASSUME NEW q \in Publisher, q # p PROVE Clean(q)'
      <4>1. /\ pc'[q] = pc[q]
            /\ partial'[q] = partial[q]
            /\ job[q].dest \in Destination
            /\ job[q].dest # d => dest'[job[q].dest] = dest[job[q].dest]
        BY <1>0, <2>1, <2>3, <3>2 DEF TypeOK
      <4>2. Holds(q)' => Holds(q)
        BY <2>1, <3>1, <3>2, <4>1 DEF Holds
      <4> QED
        BY <4>1, <4>2 DEF CleanInv, Clean
    <3>3. Clean(p)'
      BY <3>1 DEF Clean
    <3> QED
      BY <3>2, <3>3 DEF CleanInv
  <2> QED
    BY <1>7, <2>2, <2>3 DEF Rename, Goto
<1>8. ASSUME NEW p \in Publisher, Cleanup(p) PROVE CleanInv'
  BY <1>0, <1>8, LocalClean DEF Cleanup, Goto, TypeOK
<1>9. ASSUME NEW p \in Publisher, ServiceFails(p) \/ StepFails(p) \/ Crash(p) PROVE CleanInv'
  <2>1. /\ pc[p] # "published"
        /\ UNCHANGED <<job, dest, partial>>
        /\ \E phase \in {"cleanup", "reaudit", "crashed"} : pc' = [pc EXCEPT ![p] = phase]
    BY <1>9 DEF ServiceFails, StepFails, Crash, Goto, Ended
  <2>2. /\ pc'[p] \in {"cleanup", "reaudit", "crashed"}
        /\ \A q \in Publisher \ {p} : pc'[q] = pc[q]
    BY <1>0, <2>1 DEF TypeOK
  <2> QED
    BY <2>1, <2>2, LocalClean
<1>10. ASSUME NEW p \in Publisher, NEW x \in Path, MutateSource(p, x) PROVE CleanInv'
  BY <1>10 DEF MutateSource, CleanInv, Clean, Holds
<1>11. ASSUME NEW p \in Publisher, NEW x \in Path, TamperPartial(p, x) PROVE CleanInv'
  <2>1. /\ pc[p] \notin Ended
        /\ partial[p] # Nothing
        /\ UNCHANGED <<job, dest, pc>>
        /\ \A q \in Publisher \ {p} : partial'[q] = partial[q]
    BY <1>0, <1>11 DEF TamperPartial, TypeOK
  <2>2. pc[p] \notin {"begin", "audit", "create"}
    BY <2>1 DEF CleanInv, Clean
  <2> QED
    BY <2>1, <2>2, LocalClean DEF Ended
<1>12. ASSUME NEW d \in Destination, NEW t \in SourceTrees, SomeoneElseCreates(d, t)
       PROVE  CleanInv'
  <2>1. UNCHANGED <<job, partial, pc>>
    BY <1>12 DEF SomeoneElseCreates
  <2>2. ASSUME NEW q \in Publisher PROVE Holds(q)' => Holds(q)
    BY <1>0, <1>12, <2>1 DEF SomeoneElseCreates, Holds, TypeOK
  <2> QED
    BY <2>1, <2>2 DEF CleanInv, Clean
<1>13. CASE UNCHANGED vars
  BY <1>13 DEF vars, CleanInv, Clean, Holds
<1> QED
  BY <1>1, <1>2, <1>3, <1>4, <1>5, <1>6, <1>7, <1>8, <1>9, <1>10, <1>11, <1>12, <1>13
     DEF Next, Step, Environment

\* A commit that returns an error leaves neither a partial directory nor anything
\* of its own at the destination, if remove_dir_all does not fail, whatever else
\* does and whatever interferes.
THEOREM FailureIsClean ==
    ASSUME ~RemovalMayFail
    PROVE  Spec => []FailureLeavesNothing
<1>1. CleanInv => FailureLeavesNothing
  BY DEF CleanInv, Clean, FailureLeavesNothing
<1> QED
  BY <1>1, TypeInit, TypeStep, CleanInit, CleanStep, PTL DEF Spec

-----------------------------------------------------------------------------
(* What has been done to the files of a published tree. *)

\* The zone and the service, as the job and the report of p have it.
Serviced(p, files, marked) ==
    /\ job[p].motw => \A x \in files : x \in marked
    /\ job[p].policy = "required" \/ report[p] = "completed" => files \subseteq done[p]

MarkedIn(t) == {x \in Path : t[x].marked}

\* How far that has come, by the phase.
Progress(p) ==
    /\ pc[p] \in {"begin", "audit", "create", "copy", "verify", "expect", "mark", "handoff"} =>
          report[p] = "none"
    /\ pc[p] = "handoff" => FilesOf(expected[p]) \subseteq todo[p] \cup done[p]
    /\ pc[p] = "reaudit" => Serviced(p, FilesOf(expected[p]), Path)
    /\ pc[p] \in {"check", "rename"} =>
          Serviced(p, FilesOf(partial[p]), MarkedIn(partial[p]))

Kept(p) ==
    Holds(p) => /\ pc[p] = "published"
                /\ Serviced(p, FilesOf(Published(p)), MarkedIn(Published(p)))

HonestInv == \A p \in Publisher : Progress(p) /\ Kept(p)

\* What one commit leaves to the others.
Others(p) ==
    \A q \in Publisher \ {p} :
        /\ partial'[q] = partial[q] /\ expected'[q] = expected[q]
        /\ todo'[q] = todo[q] /\ done'[q] = done[q]
        /\ report'[q] = report[q] /\ pc'[q] = pc[q]

LEMMA HonestInit == Init => HonestInv
<1> SUFFICES ASSUME Init, NEW p \in Publisher PROVE Progress(p) /\ Kept(p)
  BY DEF HonestInv
<1>1. job[p].dest \in Destination
  BY TypeInit, CommitAssumption DEF TypeInv, TypeOK
<1> QED
  BY <1>1 DEF Init, Progress, Kept, Holds

\* A step of one commit that leaves the destinations alone.
LEMMA LocalHonest ==
    ASSUME HonestInv, NEW p \in Publisher, pc[p] # "published", UNCHANGED <<job, dest>>,
           Others(p), Progress(p)'
    PROVE  HonestInv'
<1>1. ASSUME NEW q \in Publisher, q # p PROVE Progress(q)' /\ Kept(q)'
  BY <1>1 DEF HonestInv, Progress, Kept, Holds, Published, Serviced, Others
<1>2. Kept(p)'
  BY DEF HonestInv, Kept, Holds
<1> QED
  BY <1>1, <1>2 DEF HonestInv

\* An intact partial directory has the files of the tree it is compared with.
LEMMA IntactFiles ==
    ASSUME NEW p \in Publisher, Intact(p)
    PROVE  /\ FilesOf(partial[p]) = FilesOf(expected[p])
           /\ job[p].motw => FilesOf(partial[p]) \subseteq MarkedIn(partial[p])
<1>1. \A x \in Path : partial[p][x].content = expected[p][x].content
  BY DEF Intact, Fingerprint
<1> QED
  BY <1>1 DEF Intact, FilesOf, MarkedIn

LEMMA MarkedFiles == \A t \in Tree : FilesOf(Marked(t)) \subseteq MarkedIn(Marked(t))
BY DEF Marked, FilesOf, MarkedIn, Tree, Entry

LEMMA HonestStep == Detectable /\ TypeInv /\ HonestInv /\ [Next]_vars => HonestInv'
<1> SUFFICES ASSUME Detectable, TypeInv, HonestInv, [Next]_vars
             PROVE  HonestInv'
  OBVIOUS
<1> USE CommitAssumption
<1>0. TypeOK
  BY DEF TypeInv
<1>1. ASSUME NEW p \in Publisher,
             \/ Begin(p) \/ AuditSource(p) \/ CreatePartial(p) \/ FinishCopy(p) \/ VerifyCopy(p)
             \/ RecordExpected(p)
      PROVE  HonestInv'
  <2>1. /\ pc[p] \in {"begin", "audit", "create", "copy", "verify", "expect"}
        /\ UNCHANGED <<job, dest, done, report>>
        /\ \E phase \in {"audit", "failed", "create", "copy", "verify", "cleanup", "expect",
                         "mark"} : pc' = [pc EXCEPT ![p] = phase]
        /\ \A q \in Publisher \ {p} :
              partial'[q] = partial[q] /\ expected'[q] = expected[q] /\ todo'[q] = todo[q]
    BY <1>0, <1>1 DEF Begin, AuditSource, CreatePartial, FinishCopy, VerifyCopy,
       RecordExpected, Goto, TypeOK
  <2>2. /\ pc'[p] \in {"audit", "failed", "create", "copy", "verify", "cleanup", "expect", "mark"}
        /\ \A q \in Publisher \ {p} : pc'[q] = pc[q]
    BY <1>0, <2>1 DEF TypeOK
  <2>3. Progress(p)'
    BY <2>1, <2>2 DEF HonestInv, Progress
  <2> QED
    BY <2>1, <2>2, <2>3, LocalHonest DEF Others
<1>2. ASSUME NEW p \in Publisher, NEW x \in Path, CopyEntry(p, x) PROVE HonestInv'
  <2>1. pc[p] = "copy" /\ UNCHANGED <<job, dest, expected, report>>
    BY <1>2 DEF CopyEntry
  <2>2. pc' = pc \/ pc' = [pc EXCEPT ![p] = "cleanup"]
    BY <1>2 DEF CopyEntry, Goto
  <2>3. pc'[p] \in {"copy", "cleanup"} /\ \A q \in Publisher \ {p} : pc'[q] = pc[q]
    BY <1>0, <2>1, <2>2 DEF TypeOK
  <2>4. \A q \in Publisher \ {p} :
           partial'[q] = partial[q] /\ todo'[q] = todo[q] /\ done'[q] = done[q]
    BY <1>2, Zenon DEF CopyEntry, TypeInv, TypeOK
  <2>5. Progress(p)'
    BY <2>1, <2>3 DEF HonestInv, Progress
  <2> QED
    BY <2>1, <2>3, <2>4, <2>5, LocalHonest DEF Others
<1>3. ASSUME NEW p \in Publisher, ApplyMotw(p) PROVE HonestInv'
  <2>1. /\ pc[p] = "mark" /\ report[p] = "none"
        /\ UNCHANGED <<job, dest, expected>>
        /\ partial[p] \in Tree
    BY <1>3 DEF ApplyMotw, HonestInv, Progress, TypeInv, Shaped
  <2>2. /\ partial'[p] = IF job[p].motw THEN Marked(partial[p]) ELSE partial[p]
        /\ \A q \in Publisher \ {p} :
              partial'[q] = partial[q] /\ done'[q] = done[q] /\ todo'[q] = todo[q]
              /\ report'[q] = report[q]
    BY <1>0, <1>3 DEF ApplyMotw, TypeOK
  <2>3. CASE Enabled(p)
    <3>1. /\ pc'[p] = "handoff" /\ report'[p] = "none" /\ todo'[p] = FilesOf(expected[p])
          /\ \A q \in Publisher \ {p} : pc'[q] = pc[q]
      BY <1>0, <1>3, <2>1, <2>3 DEF ApplyMotw, Goto, TypeOK
    <3>2. Progress(p)'
      BY <2>1, <3>1 DEF Progress
    <3> QED
      BY <2>1, <2>2, <3>1, <3>2, LocalHonest DEF Others
  <2>4. CASE ~Enabled(p)
    <3>1. /\ pc'[p] = "check" /\ report'[p] = "disabled"
          /\ \A q \in Publisher \ {p} : pc'[q] = pc[q]
      BY <1>0, <1>3, <2>4 DEF ApplyMotw, Goto, TypeOK
    <3>2. job[p].motw => FilesOf(partial'[p]) \subseteq MarkedIn(partial'[p])
      BY <2>1, <2>2, MarkedFiles
    <3>3. Progress(p)'
      BY <2>1, <2>4, <3>1, <3>2 DEF Progress, Serviced, Enabled
    <3> QED
      BY <2>1, <2>2, <3>1, <3>3, LocalHonest DEF Others
  <2> QED
    BY <2>3, <2>4
<1>4. ASSUME NEW p \in Publisher, NEW x \in Path, HandoffFile(p, x) PROVE HonestInv'
  <2>1. pc[p] = "handoff" /\ UNCHANGED <<job, dest, partial, expected, report>>
    BY <1>4 DEF HandoffFile
  <2>2. CASE pc' = [pc EXCEPT ![p] = "cleanup"] /\ UNCHANGED <<todo, done>>
    <3>1. pc'[p] = "cleanup" /\ \A q \in Publisher \ {p} : pc'[q] = pc[q]
      BY <1>0, <2>2 DEF TypeOK
    <3>2. Progress(p)'
      BY <3>1 DEF Progress
    <3> QED
      BY <2>1, <2>2, <3>1, <3>2, LocalHonest DEF Others
  <2>3. CASE /\ UNCHANGED pc
             /\ todo' = [todo EXCEPT ![p] = @ \ {x}]
             /\ done' = [done EXCEPT ![p] = @ \cup {x}]
    <3>1. /\ todo'[p] = todo[p] \ {x} /\ done'[p] = done[p] \cup {x}
          /\ \A q \in Publisher \ {p} : todo'[q] = todo[q] /\ done'[q] = done[q]
      BY <1>0, <2>3 DEF TypeOK
    <3>2. Progress(p)'
      BY <2>1, <2>3, <3>1 DEF HonestInv, Progress
    <3> QED
      BY <2>1, <2>3, <3>1, <3>2, LocalHonest DEF Others
  <2> QED
    BY <1>4, <2>2, <2>3 DEF HandoffFile, Goto
<1>5. ASSUME NEW p \in Publisher, FinishHandoff(p) PROVE HonestInv'
  <2>1. /\ pc[p] = "handoff" /\ todo[p] = {} /\ pc'[p] = "reaudit"
        /\ UNCHANGED <<job, dest, partial, expected, todo, done>>
        /\ \A q \in Publisher \ {p} : report'[q] = report[q] /\ pc'[q] = pc[q]
    BY <1>0, <1>5 DEF FinishHandoff, Goto, TypeOK
  <2>2. FilesOf(expected[p]) \subseteq done[p]
    BY <2>1 DEF HonestInv, Progress
  <2>3. Progress(p)'
    BY <2>1, <2>2 DEF Progress, Serviced, FilesOf
  <2> QED
    BY <2>1, <2>3, LocalHonest DEF Others
<1>6. ASSUME NEW p \in Publisher, ServiceFails(p) PROVE HonestInv'
  <2>1. /\ pc[p] = "handoff" /\ report[p] = "none"
        /\ UNCHANGED <<job, dest, partial, expected, todo, done>>
    BY <1>6 DEF ServiceFails, HonestInv, Progress
  <2>2. CASE pc' = [pc EXCEPT ![p] = "cleanup"] /\ UNCHANGED report
    <3>1. pc'[p] = "cleanup" /\ \A q \in Publisher \ {p} : pc'[q] = pc[q]
      BY <1>0, <2>2 DEF TypeOK
    <3>2. Progress(p)'
      BY <3>1 DEF Progress
    <3> QED
      BY <2>1, <2>2, <3>1, <3>2, LocalHonest DEF Others
  <2>3. CASE /\ job[p].policy # "required"
             /\ pc' = [pc EXCEPT ![p] = "reaudit"]
             /\ report' = [report EXCEPT ![p] = "incomplete"]
    <3>1. /\ pc'[p] = "reaudit" /\ report'[p] = "incomplete"
          /\ \A q \in Publisher \ {p} : report'[q] = report[q] /\ pc'[q] = pc[q]
      BY <1>0, <2>3 DEF TypeOK
    <3>2. Progress(p)'
      BY <2>1, <2>3, <3>1 DEF Progress, Serviced, FilesOf
    <3> QED
      BY <2>1, <3>1, <3>2, LocalHonest DEF Others
  <2> QED
    BY <1>6, <2>2, <2>3 DEF ServiceFails, Goto
<1>7. ASSUME NEW p \in Publisher, Reaudit(p) PROVE HonestInv'
  <2>1. /\ pc[p] = "reaudit"
        /\ UNCHANGED <<job, dest, partial, expected, todo, done, report>>
    BY <1>7 DEF Reaudit
  <2>2. PICK phase \in {"check", "cleanup"} :
           pc' = [pc EXCEPT ![p] = phase] /\ (phase = "check" => Intact(p))
    BY <1>7 DEF Reaudit, Goto
  <2>3. pc'[p] = phase /\ \A q \in Publisher \ {p} : pc'[q] = pc[q]
    BY <1>0, <2>2 DEF TypeOK
  <2>4. phase = "check" => Serviced(p, FilesOf(partial[p]), MarkedIn(partial[p]))
    BY <2>1, <2>2, IntactFiles DEF HonestInv, Progress, Serviced
  <2>5. Progress(p)'
    BY <2>1, <2>3, <2>4 DEF Progress, Serviced
  <2> QED
    BY <2>1, <2>3, <2>5, LocalHonest DEF Others
<1>8. ASSUME NEW p \in Publisher, CheckFree(p) \/ StepFails(p) \/ Crash(p) \/ Cleanup(p)
      PROVE  HonestInv'
  <2>1. /\ pc[p] # "published"
        /\ UNCHANGED <<job, dest, expected, todo, done, report>>
        /\ \A q \in Publisher \ {p} : partial'[q] = partial[q]
    BY <1>0, <1>8 DEF CheckFree, StepFails, Crash, Cleanup, Ended, TypeOK
  <2>2. PICK phase \in {"rename", "cleanup", "crashed", "failed"} :
           /\ pc' = [pc EXCEPT ![p] = phase]
           /\ phase = "rename" => pc[p] = "check" /\ UNCHANGED partial
    BY <1>8 DEF CheckFree, StepFails, Crash, Cleanup, Goto
  <2>3. pc'[p] = phase /\ \A q \in Publisher \ {p} : pc'[q] = pc[q]
    BY <1>0, <2>2 DEF TypeOK
  <2>4. Progress(p)'
    BY <2>1, <2>2, <2>3 DEF HonestInv, Progress, Serviced
  <2> QED
    BY <2>1, <2>3, <2>4, LocalHonest DEF Others
<1>9. ASSUME NEW p \in Publisher, Rename(p) PROVE HonestInv'
  <2> DEFINE d == job[p].dest
  <2>1. /\ d \in Destination /\ pc[p] = "rename"
        /\ UNCHANGED <<job, expected, todo, done, report>>
    BY <1>0, <1>9 DEF TypeOK, Rename
  <2>2. CASE pc' = [pc EXCEPT ![p] = "cleanup"] /\ UNCHANGED <<dest, partial>>
    <3>1. pc'[p] = "cleanup" /\ \A q \in Publisher \ {p} : pc'[q] = pc[q]
      BY <1>0, <2>2 DEF TypeOK
    <3>2. Progress(p)'
      BY <3>1 DEF Progress
    <3> QED
      BY <2>1, <2>2, <3>1, <3>2, LocalHonest DEF Others
  <2>3. CASE /\ dest' = [dest EXCEPT ![d] = [by |-> p, tree |-> partial[p]]]
             /\ partial' = [partial EXCEPT ![p] = Nothing]
             /\ pc' = [pc EXCEPT ![p] = "published"]
    <3>1. pc'[p] = "published" /\ dest'[d] = [by |-> p, tree |-> partial[p]]
      BY <1>0, <2>1, <2>3 DEF TypeOK
    <3>2. Serviced(p, FilesOf(partial[p]), MarkedIn(partial[p]))
      BY <2>1 DEF HonestInv, Progress
    <3>3. Progress(p)' /\ Kept(p)'
      BY <2>1, <3>1, <3>2 DEF Progress, Kept, Published, Serviced
    <3>4. ASSUME NEW q \in Publisher, q # p PROVE Progress(q)' /\ Kept(q)'
      <4>1. /\ pc'[q] = pc[q] /\ partial'[q] = partial[q]
            /\ job[q].dest \in Destination
            /\ job[q].dest # d => dest'[job[q].dest] = dest[job[q].dest]
        BY <1>0, <2>1, <2>3, <3>4 DEF TypeOK
      <4>2. Progress(q)'
        BY <2>1, <4>1 DEF HonestInv, Progress, Serviced
      <4>3. CASE job[q].dest = d
        BY <2>1, <3>1, <3>4, <4>2, <4>3 DEF Kept, Holds
      <4>4. CASE job[q].dest # d
        BY <2>1, <4>1, <4>2, <4>4 DEF HonestInv, Kept, Holds, Published, Serviced
      <4> QED
        BY <4>2, <4>3, <4>4
    <3> QED
      BY <3>3, <3>4 DEF HonestInv
  <2> QED
    BY <1>9, <2>2, <2>3 DEF Rename, Goto
<1>10. ASSUME NEW p \in Publisher, NEW x \in Path, MutateSource(p, x) PROVE HonestInv'
  BY <1>10 DEF MutateSource, HonestInv, Progress, Kept, Holds, Published, Serviced
<1>11. ASSUME NEW p \in Publisher, NEW x \in Path, TamperPartial(p, x) PROVE HonestInv'
  <2>1. /\ pc[p] \notin Ended \cup {"check", "rename"}
        /\ UNCHANGED <<job, dest, expected, todo, done, report, pc>>
        /\ \A q \in Publisher \ {p} : partial'[q] = partial[q]
    BY <1>0, <1>11 DEF TamperPartial, TypeOK, Detectable
  <2>2. Progress(p)'
    BY <2>1 DEF HonestInv, Progress, Serviced
  <2> QED
    BY <2>1, <2>2, LocalHonest DEF Ended, Others
<1>12. ASSUME NEW d \in Destination, NEW t \in SourceTrees, SomeoneElseCreates(d, t)
       PROVE  HonestInv'
  <2>1. UNCHANGED <<job, partial, expected, todo, done, report, pc>>
    BY <1>12 DEF SomeoneElseCreates
  <2>2. ASSUME NEW q \in Publisher
        PROVE  Holds(q)' => dest'[job[q].dest] = dest[job[q].dest]
    BY <1>0, <1>12, <2>1 DEF SomeoneElseCreates, Holds, TypeOK
  <2> QED
    BY <2>1, <2>2 DEF HonestInv, Progress, Kept, Holds, Published, Serviced
<1>13. CASE UNCHANGED vars
  BY <1>13 DEF vars, HonestInv, Progress, Kept, Holds, Published, Serviced
<1> QED
  BY <1>1, <1>2, <1>3, <1>4, <1>5, <1>6, <1>7, <1>8, <1>9, <1>10, <1>11, <1>12, <1>13
     DEF Next, Step, Environment

\* Each file of a published tree is marked, if the job has a zone, and accepted by
\* the service, if the policy requires it or the report says so, for any
\* interference that the audits can see.
THEOREM HandoffSafe ==
    ASSUME Detectable
    PROVE  Spec => []HandoffIsHonest
<1>1. HonestInv => HandoffIsHonest
  BY DEF HonestInv, Kept, Serviced, MarkedIn, FilesOf, HandoffIsHonest
<1>2. TypeInv /\ HonestInv /\ [Next]_vars => HonestInv'
  BY HonestStep
<1> QED
  BY <1>1, <1>2, TypeInit, TypeStep, HonestInit, PTL DEF Spec

-----------------------------------------------------------------------------
(* CommitTree implements Publication. *)

\* A payload is decided once.
Undecided(p) == pc[p] \in {"begin", "audit"} => audit[p] = Nothing

UndecidedInv == \A p \in Publisher : Undecided(p)

LEMMA UndecidedInit == Init => UndecidedInv
BY DEF Init, UndecidedInv, Undecided

\* A step of one commit.
LEMMA LocalUndecided ==
    ASSUME UndecidedInv, NEW p \in Publisher, Undecided(p)',
           \A q \in Publisher \ {p} : audit'[q] = audit[q] /\ pc'[q] = pc[q]
    PROVE  UndecidedInv'
BY DEF UndecidedInv, Undecided

LEMMA UndecidedStep == TypeInv /\ UndecidedInv /\ [Next]_vars => UndecidedInv'
<1> SUFFICES ASSUME TypeInv, UndecidedInv, [Next]_vars
             PROVE  UndecidedInv'
  OBVIOUS
<1>0. TypeOK
  BY DEF TypeInv
<1>1. ASSUME NEW p \in Publisher, Begin(p) PROVE UndecidedInv'
  BY <1>0, <1>1 DEF Begin, Goto, UndecidedInv, Undecided, TypeOK
<1>2. ASSUME NEW p \in Publisher, AuditSource(p) PROVE UndecidedInv'
  BY <1>0, <1>2, LocalUndecided DEF AuditSource, Goto, Undecided, TypeOK
<1>3. ASSUME NEW p \in Publisher, Step(p) \/ Environment(p), ~Begin(p), ~AuditSource(p)
      PROVE  UndecidedInv'
  <2>1. /\ UNCHANGED audit
        /\ \/ UNCHANGED pc
           \/ \E phase \in Phase \ {"begin", "audit"} : pc' = [pc EXCEPT ![p] = phase]
    BY <1>3 DEF Step, Environment, CreatePartial, CopyEntry, FinishCopy, VerifyCopy,
       RecordExpected, ApplyMotw, HandoffFile, FinishHandoff, Reaudit, CheckFree, Rename,
       Cleanup, ServiceFails, StepFails, Crash, MutateSource, TamperPartial, Goto, Phase
  <2>2. CASE UNCHANGED pc
    BY <2>1, <2>2 DEF UndecidedInv, Undecided
  <2>3. CASE \E phase \in Phase \ {"begin", "audit"} : pc' = [pc EXCEPT ![p] = phase]
    BY <1>0, <2>1, <2>3, LocalUndecided DEF Undecided, TypeOK
  <2> QED
    BY <2>1, <2>2, <2>3
<1>4. ASSUME NEW d \in Destination, NEW t \in SourceTrees, SomeoneElseCreates(d, t)
      PROVE  UndecidedInv'
  BY <1>4 DEF SomeoneElseCreates, UndecidedInv, Undecided
<1>5. CASE UNCHANGED vars
  BY <1>5 DEF vars, UndecidedInv, Undecided
<1> QED
  BY <1>1, <1>2, <1>3, <1>4, <1>5 DEF Next

\* What Publication sees of a destination and of a phase.
Shown(o) == IF o = Nothing THEN Nothing ELSE [by |-> o.by, tree |-> ContentsOf(o.tree)]

Outcome(phase) == IF phase \in Ended THEN phase ELSE "running"

\* It does not see a commit that is at work.
LEMMA Unseen ==
    ASSUME NEW p \in Publisher, UNCHANGED <<dest, audit>>,
           \A q \in Publisher : Outcome(pc'[q]) = Outcome(pc[q])
    PROVE  UNCHANGED P!vars
BY DEF P!vars, Outcome

\* It sees a commit that ends without success.
LEMMA Stopped ==
    ASSUME TypeOK, NEW p \in Publisher, NEW how \in {"failed", "crashed"},
           UNCHANGED <<dest, audit>>, pc[p] \notin Ended, pc' = [pc EXCEPT ![p] = how]
    PROVE  P!Stop(p, how)
<1>1. [q \in Publisher |-> IF pc'[q] \in Ended THEN pc'[q] ELSE "running"] =
      [[q \in Publisher |-> IF pc[q] \in Ended THEN pc[q] ELSE "running"] EXCEPT ![p] = how]
  BY DEF TypeOK, Ended
<1> QED
  BY <1>1 DEF P!Stop

LEMMA StepImplements ==
    Detectable /\ TypeInv /\ SafeInv /\ UndecidedInv /\ [Next]_vars => [P!Next]_(P!vars)
<1> SUFFICES ASSUME Detectable, TypeInv, SafeInv, UndecidedInv, [Next]_vars
             PROVE  P!Next \/ UNCHANGED P!vars
  OBVIOUS
<1> USE CommitAssumption, ContentsAssumption
<1>0. TypeOK
  BY DEF TypeInv
<1>1. ASSUME NEW p \in Publisher, Begin(p) PROVE P!Next \/ UNCHANGED P!vars
  <2>1. pc[p] = "begin" /\ UNCHANGED <<dest, audit>>
    BY <1>1 DEF Begin
  <2>2. CASE pc' = [pc EXCEPT ![p] = "audit"]
    BY <1>0, <2>1, <2>2, Unseen DEF TypeOK, Outcome, Ended
  <2>3. CASE pc' = [pc EXCEPT ![p] = "failed"]
    BY <1>0, <2>1, <2>3, Stopped DEF P!Next, Ended
  <2> QED
    BY <1>1, <2>2, <2>3 DEF Begin, Goto
<1>2. ASSUME NEW p \in Publisher, AuditSource(p) PROVE P!Next \/ UNCHANGED P!vars
  <2>1. /\ pc[p] = "audit" /\ pc' = [pc EXCEPT ![p] = "create"]
        /\ audit' = [audit EXCEPT ![p] = src[p]]
        /\ UNCHANGED dest
    BY <1>2 DEF AuditSource, Goto
  <2>2. src[p] \in Tree /\ src[p] # Nothing /\ audit[p] = Nothing
    BY <1>0, <2>1 DEF TypeOK, UndecidedInv, Undecided
  <2>3. ContentsOf(src[p]) \in [Path -> Data \cup {Dir, None}]
    BY <2>2 DEF ContentsOf, Tree, Entry
  <2>4. [q \in Publisher |-> Payload(audit'[q])] =
        [[q \in Publisher |-> Payload(audit[q])] EXCEPT ![p] = ContentsOf(src[p])]
    BY <1>0, <2>1, <2>2 DEF TypeOK, Payload
  <2>5. [q \in Publisher |-> IF pc'[q] \in Ended THEN pc'[q] ELSE "running"] =
        [q \in Publisher |-> IF pc[q] \in Ended THEN pc[q] ELSE "running"]
    BY <1>0, <2>1 DEF TypeOK, Ended
  <2>6. P!Decide(p, ContentsOf(src[p]))
    BY <2>1, <2>2, <2>4, <2>5 DEF P!Decide, Payload, Ended
  <2> QED
    BY <2>3, <2>6 DEF P!Next
<1>3. ASSUME NEW p \in Publisher,
             \/ CreatePartial(p) \/ FinishCopy(p) \/ VerifyCopy(p) \/ RecordExpected(p)
             \/ ApplyMotw(p) \/ FinishHandoff(p) \/ Reaudit(p) \/ CheckFree(p)
             \/ ServiceFails(p) \/ StepFails(p)
      PROVE  P!Next \/ UNCHANGED P!vars
  <2>1. /\ pc[p] \notin Ended
        /\ UNCHANGED <<dest, audit>>
        /\ \E phase \in Phase \ Ended : pc' = [pc EXCEPT ![p] = phase]
    BY <1>3 DEF CreatePartial, FinishCopy, VerifyCopy, RecordExpected, ApplyMotw,
       FinishHandoff, Reaudit, CheckFree, ServiceFails, StepFails, Goto, Phase, Ended
  <2> QED
    BY <1>0, <2>1, Unseen DEF TypeOK, Outcome
<1>4. ASSUME NEW p \in Publisher, NEW x \in Path, CopyEntry(p, x) \/ HandoffFile(p, x)
      PROVE  P!Next \/ UNCHANGED P!vars
  <2>1. /\ pc[p] \notin Ended
        /\ UNCHANGED <<dest, audit>>
        /\ UNCHANGED pc \/ pc' = [pc EXCEPT ![p] = "cleanup"]
    BY <1>4 DEF CopyEntry, HandoffFile, Goto, Ended
  <2> QED
    BY <1>0, <2>1, Unseen DEF TypeOK, Outcome, Ended
<1>5. ASSUME NEW p \in Publisher, Cleanup(p) \/ Crash(p) PROVE P!Next \/ UNCHANGED P!vars
  <2>1. /\ pc[p] \notin Ended
        /\ UNCHANGED <<dest, audit>>
        /\ \E how \in {"failed", "crashed"} : pc' = [pc EXCEPT ![p] = how]
    BY <1>5 DEF Cleanup, Crash, Goto, Ended
  <2> QED
    BY <1>0, <2>1, Stopped DEF P!Next
<1>6. ASSUME NEW p \in Publisher, Rename(p) PROVE P!Next \/ UNCHANGED P!vars
  <2> DEFINE d == job[p].dest
  <2>1. d \in Destination /\ pc[p] = "rename" /\ UNCHANGED audit
    BY <1>0, <1>6 DEF TypeOK, Rename
  <2>2. CASE pc' = [pc EXCEPT ![p] = "cleanup"] /\ UNCHANGED dest
    BY <1>0, <2>1, <2>2, Unseen DEF TypeOK, Outcome, Ended
  <2>3. CASE /\ Replaceable(d)
             /\ dest' = [dest EXCEPT ![d] = [by |-> p, tree |-> partial[p]]]
             /\ pc' = [pc EXCEPT ![p] = "published"]
    <3>1. /\ partial[p] \in Tree /\ audit[p] \in Tree
          /\ ContentsOf(partial[p]) = ContentsOf(audit[p])
      BY <2>1 DEF TypeInv, Shaped, SafeInv, Chain
    <3>2. ContentsOf(audit[p]) # Nothing /\ audit[p] # Nothing
      BY <3>1 DEF ContentsOf, Tree, Entry
    <3>3. Shown(dest'[d]) = [by |-> p, tree |-> Payload(audit[p])]
      <4>1. dest'[d] = [by |-> p, tree |-> partial[p]]
        BY <1>0, <2>1, <2>3 DEF TypeOK
      <4>2. [by |-> p, tree |-> partial[p]] # Nothing
        BY <3>1
      <4> QED
        BY <3>1, <3>2, <4>1, <4>2 DEF Shown, Payload
    <3>4. [e \in Destination |-> Shown(dest'[e])] =
          [[e \in Destination |-> Shown(dest[e])] EXCEPT ![d] =
              [by |-> p, tree |-> Payload(audit[p])]]
      <4> DEFINE m == [by |-> p, tree |-> Payload(audit[p])]
      <4>1. Shown(dest'[d]) = m
        BY <3>3
      <4>2. \A e \in Destination \ {d} : dest'[e] = dest[e]
        BY <1>0, <2>1, <2>3 DEF TypeOK
      <4> HIDE DEF m, d
      <4>3. [e \in Destination |-> Shown(dest'[e])] =
            [[e \in Destination |-> Shown(dest[e])] EXCEPT ![d] = m]
        BY <2>1, <4>1, <4>2
      <4> QED
        BY <4>3 DEF m, d
    <3>5. [q \in Publisher |-> IF pc'[q] \in Ended THEN pc'[q] ELSE "running"] =
          [[q \in Publisher |-> IF pc[q] \in Ended THEN pc[q] ELSE "running"] EXCEPT
              ![p] = "published"]
      BY <1>0, <2>1, <2>3 DEF TypeOK, Ended
    <3>6. P!Replaceable(d)
      BY <2>1, <2>3 DEF P!Replaceable, Replaceable
    <3>7. ASSUME NEW e \in Destination, e = d PROVE P!Publish(p, e)
      BY <2>1, <3>2, <3>4, <3>5, <3>6, <3>7 DEF P!Publish, Shown, Payload, Ended
    <3>8. PICK e \in Destination : e = d
      BY <2>1
    <3>9. P!Publish(p, e)
      BY <3>7, <3>8
    <3> QED
      BY <3>9 DEF P!Next
  <2> QED
    BY <1>6, <2>2, <2>3 DEF Rename, Goto
<1>7. ASSUME NEW p \in Publisher, NEW x \in Path, MutateSource(p, x) \/ TamperPartial(p, x)
      PROVE  P!Next \/ UNCHANGED P!vars
  BY <1>7, Unseen DEF MutateSource, TamperPartial
<1>8. ASSUME NEW d \in Destination, NEW t \in SourceTrees, SomeoneElseCreates(d, t)
      PROVE  P!Next \/ UNCHANGED P!vars
  <2> DEFINE m == [by |-> Other, tree |-> ContentsOf(t)]
  <2>1. /\ dest[d] = Nothing
        /\ dest' = [dest EXCEPT ![d] = [by |-> Other, tree |-> t]]
        /\ UNCHANGED <<audit, pc>>
    BY <1>8 DEF SomeoneElseCreates
  <2>2. t \in Tree /\ [by |-> Other, tree |-> t] # Nothing
    OBVIOUS
  <2>3. Shown(dest'[d]) = m /\ \A e \in Destination \ {d} : dest'[e] = dest[e]
    BY <1>0, <2>1, <2>2 DEF TypeOK, Shown
  <2>4. ContentsOf(t) \in [Path -> Data \cup {Dir, None}]
    BY <2>2 DEF ContentsOf, Tree, Entry
  <2>5. [e \in Destination |-> Shown(dest'[e])] =
        [[e \in Destination |-> Shown(dest[e])] EXCEPT ![d] = m]
    <3> HIDE DEF m
    <3> QED
      BY <2>3
  <2>6. P!SomeoneElseCreates(d, ContentsOf(t))
    BY <2>1, <2>5 DEF P!SomeoneElseCreates, Shown
  <2> QED
    BY <2>4, <2>6 DEF P!Next
<1>9. CASE UNCHANGED vars
  BY <1>9 DEF vars, P!vars
<1> QED
  BY <1>1, <1>2, <1>3, <1>4, <1>5, <1>6, <1>7, <1>8, <1>9 DEF Next, Step, Environment

\* commit_tree is a publication: whatever is copied, audited, marked and handed
\* off on the way, each commit decides on one tree and then publishes all of it in
\* one step, over nothing or an empty directory, or leaves the destination alone.
THEOREM CommitIsPublication ==
    ASSUME Detectable
    PROVE  Spec => AbstractSpec
<1>1. Init => P!Init
  BY DEF Init, P!Init, Payload, Ended
<1>2. TypeInv /\ SafeInv /\ [Next]_vars => SafeInv'
  BY SafeStep
<1>3. TypeInv /\ SafeInv /\ UndecidedInv /\ [Next]_vars => [P!Next]_(P!vars)
  BY StepImplements
<1> QED
  BY <1>1, <1>2, <1>3, TypeInit, TypeStep, SafeInit, UndecidedInit, UndecidedStep, PTL
     DEF Spec, AbstractSpec, P!Spec
=============================================================================
