----------------------------- MODULE MC_Evidence -----------------------------
\* Evidence directories for EvidenceDocuments: as the import writes them, and with
\* one or two edits.
EXTENDS Naturals, Sequences, FiniteSets, SequencesExt, TLC, EvidenceWriting

Docs == {<<"provenance">>, <<"spdx">>, <<"inventory">>, <<"notices">>}
PayloadOf == ("f1" :> "c1") @@ ("f2" :> "c2") @@ ("f3" :> "c1")
Package(id, origin) == [id |-> id, about |-> <<"about", id>>, origin |-> origin]
LocalPackage == [Package("local", "none") EXCEPT !.about = <<"about", "local">>]
Record(p, id) == [path |-> p, hash |-> PayloadOf[p], package |-> id]
Supported == [supported |-> TRUE, verification |-> "verified", created |-> "t", manifest |-> "m",
              packages |-> <<Package("p1", "complete"), Package("p2", "complete")>>,
              files |-> <<Record("f1", "p1"), Record("f2", "p2"), Record("f3", "p1")>>]
Unverified == [Supported EXCEPT !.supported = FALSE, !.verification = "accepted by the user",
                  !.packages = <<LocalPackage>>,
                  !.files = <<Record("f1", "local"), Record("f2", "local"), Record("f3", "local")>>]

License(id) == [path |-> <<"licenses", id, "LICENSE">>, hash |-> <<"text", id>>]
InventoryFor(v) ==
    InventoryOf(v, "notices", [i \in 1..Len(v.packages) |-> <<License(v.packages[i].id)>>])
FilesFor(v) == (<<"provenance">> :> "p") @@ (<<"spdx">> :> "s") @@ (<<"inventory">> :> "i")
               @@ (<<"notices">> :> "notices")
               @@ [p \in {License(v.packages[i].id).path : i \in 1..Len(v.packages)} |-> <<"text", p[2]>>]

ListEdits(s) == {RemoveAt(s, i) : i \in 1..Len(s)} \cup {Append(s, s[1]), Reverse(s)}
ProvenanceEdits(v) ==
    {[v EXCEPT !.packages = p] : p \in ListEdits(v.packages) \cup {Append(v.packages, Package("p3", v.packages[1].origin))}}
    \cup {[v EXCEPT !.files = f] : f \in ListEdits(v.files)}
    \cup {[v EXCEPT !.manifest = "m2"], [v EXCEPT !.verification = "unknown"],
          [v EXCEPT !.packages[1].origin = "partial"], [v EXCEPT !.files[1].package = "p2"],
          [v EXCEPT !.files[1].hash = "c2"], [v EXCEPT !.created = "t2"]}
SpdxEdits(s) ==
    {[s EXCEPT !.packages = p] : p \in ListEdits(s.packages)} \cup {[s EXCEPT !.files = f] : f \in ListEdits(s.files)}
    \cup {[s EXCEPT !.relations = r] : r \in ListEdits(s.relations)}
    \cup {[s EXCEPT !.namespace[1] = "m2"], [s EXCEPT !.files[1].hash = "c2"]}
InventoryEdits(n) ==
    {[n EXCEPT !.packages = p] : p \in ListEdits(n.packages)} \cup {[n EXCEPT !.files = f] : f \in ListEdits(n.files)}
    \cup {[n EXCEPT !.packages[1].licenses = l] : l \in {<<>>, <<License("p1"), License("p1")>>, <<License("p2")>>}}
    \cup {[n EXCEPT !.notices = "other"], [n EXCEPT !.files[2].package = "p1"]}

Written(v) == [payload |-> PayloadOf, manifest |-> "m", provenance |-> v, spdx |-> SpdxOf(v),
            inventory |-> InventoryFor(v), files |-> FilesFor(v), directories |-> FoldersOf(DOMAIN FilesFor(v)),
            links |-> FALSE]
TreeEdits(v) ==
    {[Written(v) EXCEPT !.files = f] :
        f \in {FilesFor(v) @@ (<<"extra">> :> "x"),
               (<<"licenses", v.packages[1].id, "LICENSE">> :> <<"text", "other">>) @@ FilesFor(v),
               [p \in DOMAIN FilesFor(v) \ {<<"notices">>} |-> FilesFor(v)[p]]}}
    \cup {[Written(v) EXCEPT !.directories = @ \cup {<<"empty">>}],
          [Written(v) EXCEPT !.links = TRUE]}

\* Up to two of the documents are edited, or are the ones of an edited provenance.
Edited(v) ==
    LET base == Written(v)
        ps == ProvenanceEdits(v)
    IN  {[base EXCEPT !.provenance = p, !.spdx = s, !.inventory = InventoryFor(w)] :
            p \in ps, w \in {v}, s \in {SpdxOf(v)} \cup SpdxEdits(SpdxOf(v))}
        \cup UNION {{[base EXCEPT !.provenance = p, !.spdx = SpdxOf(p), !.inventory = n] :
            n \in {InventoryFor(p)} \cup InventoryEdits(InventoryFor(v))} : p \in ps}
        \cup {[base EXCEPT !.spdx = s, !.inventory = n] :
            s \in {SpdxOf(v)} \cup SpdxEdits(SpdxOf(v)), n \in {InventoryFor(v)} \cup InventoryEdits(InventoryFor(v))}
AllDirectories == UNION {{Written(v)} \cup TreeEdits(v) \cup Edited(v) : v \in {Supported, Unverified}}
BeforeOf == ("p1" :> {"local"}) @@ ("p2" :> {"p1", "local"}) @@ ("p3" :> {"p1", "p2", "local"}) @@ ("local" :> {})
=============================================================================
