---------------------------- MODULE Publication ----------------------------
(***************************************************************************)
(* What the publication of an extracted tree promises, with no mention of  *)
(* partial directories, audits or handoffs.  A commit fixes its payload    *)
(* once; the whole payload then appears at the destination in one step,    *)
(* over nothing or over an empty directory, or the commit ends without     *)
(* having touched the destination.  CommitTree implements this module.     *)
(***************************************************************************)
CONSTANTS Publisher,    \* the running commits
          Destination,  \* the names they may publish to
          Tree,         \* the trees a commit may publish
          EmptyTree,    \* the directory with no entry
          Other,        \* whoever else creates a directory at a destination
          Nothing       \* what is at a free name, and an undecided payload

VARIABLES dest,         \* what each destination holds
          payload,      \* the tree each commit has decided to publish
          outcome       \* how each commit stands

vars == <<dest, payload, outcome>>

Occupant == [by : Publisher \cup {Other}, tree : Tree]

Init == /\ dest \in [Destination -> [by : {Other}, tree : Tree] \cup {Nothing}]
        /\ payload = [p \in Publisher |-> Nothing]
        /\ outcome = [p \in Publisher |-> "running"]

Decide(p, t) == /\ outcome[p] = "running"
                /\ payload[p] = Nothing
                /\ payload' = [payload EXCEPT ![p] = t]
                /\ UNCHANGED <<dest, outcome>>

\* A directory may be renamed over a free name or over an empty directory.
Replaceable(d) == dest[d] # Nothing => dest[d].tree = EmptyTree

Publish(p, d) ==
    /\ outcome[p] = "running"
    /\ payload[p] # Nothing
    /\ Replaceable(d)
    /\ dest' = [dest EXCEPT ![d] = [by |-> p, tree |-> payload[p]]]
    /\ outcome' = [outcome EXCEPT ![p] = "published"]
    /\ UNCHANGED payload

Stop(p, how) == /\ outcome[p] = "running"
                /\ outcome' = [outcome EXCEPT ![p] = how]
                /\ UNCHANGED <<dest, payload>>

SomeoneElseCreates(d, t) ==
    /\ dest[d] = Nothing
    /\ dest' = [dest EXCEPT ![d] = [by |-> Other, tree |-> t]]
    /\ UNCHANGED <<payload, outcome>>

Next == \/ \E p \in Publisher, t \in Tree : Decide(p, t)
        \/ \E p \in Publisher, d \in Destination : Publish(p, d)
        \/ \E p \in Publisher, how \in {"failed", "crashed"} : Stop(p, how)
        \/ \E d \in Destination, t \in Tree : SomeoneElseCreates(d, t)

Spec == Init /\ [][Next]_vars
=============================================================================
