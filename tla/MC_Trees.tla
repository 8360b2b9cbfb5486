------------------------------ MODULE MC_Trees ------------------------------
\* The trees and their changes that TreeWalk is checked with.
EXTENDS Naturals, Sequences, FiniteSets, TLC

AFile(size, id, data) == [kind |-> "file", size |-> size, id |-> id, data |-> data]
ADir(id) == [kind |-> "dir", size |-> 0, id |-> id, data |-> "none"]
NoEntry == [kind |-> "none", size |-> 0, id |-> "none", data |-> "none"]
ALink == [kind |-> "link", size |-> 0, id |-> "link", data |-> "none"]

d == <<"d">>
e == <<"e">>
f == <<"f">>
bad == <<"bad:">>
long == <<"long">>
g == <<"d", "g">>
h == <<"d", "g", "h">>
Paths == {d, e, f, bad, long, g, h}
\* Of the six bytes that are allowed e has all, long has one more.
TreeBytes == ("d" :> 1) @@ ("e" :> 5) @@ ("f" :> 1) @@ ("g" :> 1) @@ ("h" :> 1)
             @@ ("bad:" :> 3) @@ ("long" :> 6)

Start == (d :> {NoEntry, ADir("d1")}) @@ (e :> {NoEntry, ADir("e1"), AFile(1, "e2", "x")})
         @@ (f :> {NoEntry, AFile(1, "f1", "x"), AFile(2, "f2", "y"), AFile(3, "f3", "z"),
                   AFile(1, "linked", "x"), ALink})
         @@ (bad :> {NoEntry, AFile(1, "b1", "x")})
         @@ (long :> {NoEntry, AFile(1, "l1", "x")})
         @@ (g :> {NoEntry, ADir("g1"), AFile(1, "f1", "x"), AFile(2, "g2", "y")})
         @@ (h :> {NoEntry, AFile(1, "h1", "x")})

Change2 == (d :> {NoEntry, ADir("d2"), ALink}) @@ (e :> {})
           @@ (f :> {NoEntry, AFile(1, "f4", "y")})
           @@ (bad :> {}) @@ (long :> {})
           @@ (g :> {ADir("g2")}) @@ (h :> {NoEntry})

\* The entries that some job rejects, whatever else is there: at most one, with d and g.
\* A file with a second name, in the tree or outside, is one.
OddEntries(t) == {p \in Paths : \/ t[p].kind = "link" \/ t[p].size > 2
                                \/ t[p].id = "linked"
                                \/ p = f /\ t[f] # NoEntry /\ t[f].id = t[g].id
                                \/ p \in {bad, long, h} /\ t[p].kind # "none"}

StartTrees ==
    {t \in {(d :> i) @@ (e :> j) @@ (f :> k) @@ (bad :> l) @@ (long :> o)
          @@ (g :> m) @@ (h :> n) :
                i \in Start[d], j \in Start[e], k \in Start[f],
                l \in Start[bad], o \in Start[long], m \in Start[g], n \in Start[h]} :
        /\ \A p \in Paths : t[p].kind # "none" =>
              \A q \in 1..(Len(p) - 1) : t[SubSeq(p, 1, q)].kind = "dir"
        /\ OddEntries(t) # {} => Cardinality(OddEntries(t)) = 1 /\ t[e].kind = "none"}

SomeSelections == {{d}, {f}, {g, f}}
=============================================================================
