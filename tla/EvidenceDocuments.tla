------------------------- MODULE EvidenceDocuments -------------------------
(***************************************************************************)
(* The three documents beside a backend and what BackendEvidence::verify   *)
(* accepts of them: the provenance names packages and the package of each  *)
(* file, the SPDX document repeats both as numbered elements and           *)
(* relationships, and the license inventory repeats them once more and     *)
(* names every other file of the evidence directory.  BackendBundle has    *)
(* the reading of the documents while the backend is replaced; here they   *)
(* are read from a directory at rest.                                      *)
(*                                                                         *)
(* Hashes are contents.  What a document says of a package besides its     *)
(* name (version, licenses, architecture) is one value, and so are the     *)
(* fields that must be constants (a format, NOASSERTION).                  *)
(***************************************************************************)
EXTENDS Naturals, Sequences, FiniteSets, SequencesExt, FiniteSetsExt, EvidenceWriting

CONSTANTS
    Directories,      \* what the directory of a backend can hold
    MaxPackages,      \* MAX_PACKAGES
    MaxEvidenceFiles, \* MAX_EVIDENCE_FILES
    Local,            \* the package of an unverified local bundle
    Before,           \* Before[i]: the package ids that sort before i
    Documents         \* the four files that are always there

VARIABLES directory, verdict

evidenceVars == <<directory, verdict>>

\* A directory d: its three documents, d.payload with the content of each installed file
\* as the manifest lists it, and the files and directories of the evidence.
-----------------------------------------------------------------------------
\* payload_records: a list of files as two maps, or refused.
RecordsOK(records, ids) ==
    /\ \A i \in 1..Len(records) : records[i].package \in ids
    /\ \A i, j \in 1..Len(records) : records[i].path = records[j].path => i = j
Listed(records) == {<<records[i].path, records[i].hash>> : i \in 1..Len(records)}
Owners(records) == {<<records[i].path, records[i].package>> : i \in 1..Len(records)}
Payload(d) == {<<p, d.payload[p]>> : p \in DOMAIN d.payload}

Ids(d) == {d.provenance.packages[i].id : i \in 1..Len(d.provenance.packages)}
Owned(d, id) == {r \in Range(d.provenance.files) : r.package = id}

\* validate_package: a supported source has all of a package's origin, another none.
PackageOK(package, supported) == package.origin = IF supported THEN "complete" ELSE "none"

Sorted(packages) == \A i \in 2..Len(packages) : packages[i - 1].id \in Before[packages[i].id]

\* validate_provenance
ProvenanceOK(d) ==
    LET v == d.provenance
    IN  /\ v.verification = IF v.supported THEN "verified" ELSE "accepted by the user"
        /\ v.manifest = d.manifest
        /\ Len(v.packages) \in 1..MaxPackages
        /\ \A i \in 1..Len(v.packages) : PackageOK(v.packages[i], v.supported)
        /\ Sorted(v.packages)
        /\ ~v.supported => Ids(d) = {Local.id} /\ v.packages[1].about = Local.about
        /\ RecordsOK(v.files, Ids(d))
        /\ Listed(v.files) = Payload(d)
        /\ \A id \in Ids(d) : Owned(d, id) # {}

\* package_verification_code: the contents of its files, in any order.
Code(d, id) == LET held == {d.payload[r.path] : r \in Owned(d, id)}
               IN  [c \in held |-> Cardinality({r \in Owned(d, id) : d.payload[r.path] = c})]

\* A fault: the lists are compared as far as the shorter one goes.
AnyLength(s, t) == TRUE

SameLength(s, t) == Len(s) = Len(t)
Pairs(s, t) == 1..Min({Len(s), Len(t)})

\* validate_spdx.  The files are numbered in the order of the provenance.
SpdxOK(d) ==
    LET packages == d.provenance.packages
        files == d.provenance.files
        spdx == d.spdx
        contained == {c \in (1..Len(packages)) \X (1..Len(files)) :
                         files[c[2]].package = packages[c[1]].id}
    IN  /\ spdx.namespace = <<d.manifest, d.provenance>>
        /\ spdx.created = d.provenance.created
        /\ SameLength(packages, spdx.packages) /\ SameLength(files, spdx.files)
        /\ \A i \in Pairs(packages, spdx.packages) :
              spdx.packages[i] = [number |-> i, id |-> packages[i].id,
                                  about |-> packages[i].about, code |-> Code(d, packages[i].id)]
        /\ \A j \in Pairs(files, spdx.files) :
              spdx.files[j] = [number |-> j, path |-> files[j].path, hash |-> d.payload[files[j].path]]
        /\ IsInjective(spdx.relations)
        /\ Range(spdx.relations) =
              {<<0, i>> : i \in 1..Len(packages)} \cup {<<c[1], Len(packages) + c[2]>> : c \in contained}

\* validate_inventory: a license lies below licenses/<package>/.
Licenses(d) ==
    UNION {Range(d.inventory.packages[i].licenses) : i \in 1..Len(d.inventory.packages)}
LicensesOK(package, files) ==
    /\ IsInjective(package.licenses)
    /\ \A l \in Range(package.licenses) :
          /\ Len(l.path) >= 3 /\ SubSeq(l.path, 1, 2) = <<"licenses", package.id>>
          /\ l.path \in DOMAIN files
          /\ files[l.path] = l.hash

InventoryOK(d) ==
    LET packages == d.provenance.packages
        inventory == d.inventory
    IN  /\ <<"notices">> \in DOMAIN d.files
        /\ inventory.notices = d.files[<<"notices">>]
        /\ SameLength(packages, inventory.packages)
        /\ \A i \in Pairs(packages, inventory.packages) :
              /\ inventory.packages[i].id = packages[i].id
              /\ inventory.packages[i].about = packages[i].about
              /\ LicensesOK(inventory.packages[i], d.files)
        /\ RecordsOK(inventory.files, Ids(d))
        /\ Listed(inventory.files) = Payload(d)
        /\ Owners(inventory.files) = Owners(d.provenance.files)

\* collect_evidence_tree and validate_evidence_tree.
CollectOK(d) == Cardinality(DOMAIN d.files) <= MaxEvidenceFiles /\ ~d.links
Expected(d) == Documents \cup {l.path : l \in Licenses(d)}
TreeOK(d) ==
    /\ DOMAIN d.files = Expected(d)
    /\ d.directories = UNION {{SubSeq(p, 1, n) : n \in 1..(Len(p) - 1)} : p \in Expected(d)}

-----------------------------------------------------------------------------
\* The other side, New-IrohaZipBackendEvidence: what an import leaves that got packages
\* sorted by their id, each with a file of its own, and as many licenses as fit.
Imported(d) ==
    LET v == d.provenance
        licenses == [i \in 1..Len(v.packages) |-> d.inventory.packages[i].licenses]
        written == Documents \cup {l.path : l \in Licenses(d)}
    IN  /\ Len(v.packages) \in 1..MaxPackages /\ Sorted(v.packages)
        /\ v.manifest = d.manifest
        /\ IF v.supported
           THEN /\ v.verification = "verified"
                /\ \A i \in 1..Len(v.packages) : v.packages[i].origin = "complete"
           ELSE /\ v.verification = "accepted by the user" /\ Len(v.packages) = 1
                /\ v.packages[1].id = Local.id /\ v.packages[1].about = Local.about
                /\ v.packages[1].origin = "none"
        /\ \A j, k \in 1..Len(v.files) : v.files[j].path = v.files[k].path => j = k
        /\ {v.files[j].path : j \in 1..Len(v.files)} = DOMAIN d.payload
        /\ \A j \in 1..Len(v.files) : v.files[j].hash = d.payload[v.files[j].path]
        /\ {v.files[j].package : j \in 1..Len(v.files)} = Ids(d)
        /\ d.spdx = SpdxOf(v)
        /\ DOMAIN d.files = written /\ Cardinality(written) <= MaxEvidenceFiles
        /\ Len(d.inventory.packages) = Len(v.packages)
        /\ d.inventory = InventoryOf(v, d.files[<<"notices">>], licenses)
        /\ \A i \in 1..Len(v.packages) :
              /\ IsInjective(licenses[i])
              /\ \A l \in Range(licenses[i]) :
                    Len(l.path) > 2 /\ SubSeq(l.path, 1, 2) = <<"licenses", v.packages[i].id>>
        /\ \A l \in Licenses(d) : l.hash = d.files[l.path]
        /\ d.directories = FoldersOf(written)
        /\ ~d.links

-----------------------------------------------------------------------------
Init == directory \in Directories /\ verdict = "collect"

\* BackendEvidence::verify: the checks in their order.
CheckStep(stage, sound, next) ==
    /\ verdict = stage
    /\ verdict' = IF sound THEN next ELSE "refused"
    /\ UNCHANGED directory

Collect == CheckStep("collect", CollectOK(directory), "provenance")
CheckProvenance == CheckStep("provenance", ProvenanceOK(directory), "spdx")
CheckSpdx == CheckStep("spdx", SpdxOK(directory), "inventory")
CheckInventory == CheckStep("inventory", InventoryOK(directory), "tree")
CheckTree == CheckStep("tree", TreeOK(directory), "accepted")

Next == Collect \/ CheckProvenance \/ CheckSpdx \/ CheckInventory \/ CheckTree

Spec == Init /\ [][Next]_evidenceVars

-----------------------------------------------------------------------------
\* What the constants must be: the order of the ids is one, and a directory has the
\* documents as they are parsed, lists of records.
List(s) == s \in Seq(Range(s))
Parsed(d) ==
    /\ List(d.provenance.packages) /\ List(d.provenance.files)
    /\ List(d.spdx.packages) /\ List(d.spdx.files) /\ List(d.spdx.relations)
    /\ List(d.inventory.packages) /\ List(d.inventory.files)
    /\ \A package \in Range(d.provenance.packages) : package.id \in DOMAIN Before
    /\ \A package \in Range(d.inventory.packages) : List(package.licenses)
    /\ \A package \in Range(d.inventory.packages) : \A l \in Range(package.licenses) :
          l = [path |-> l.path, hash |-> l.hash] /\ List(l.path)
EvidenceConstants ==
    /\ MaxPackages \in Nat /\ MaxEvidenceFiles \in Nat
    /\ \A i \in DOMAIN Before :
          i \notin Before[i] /\ \A j \in Before[i] : j \in DOMAIN Before /\ Before[j] \subseteq Before[i]
    /\ <<"notices">> \in Documents
    /\ \A d \in Directories : Parsed(d)

-----------------------------------------------------------------------------
\* What was accepted tells one story: each file of the backend has one package, the
\* same one in all three documents, and no document knows a file or a package that
\* the others do not; each package has a file; whatever else is in the evidence
\* directory is the license of one package, as it was listed.  And what an import has
\* written is not refused.
OwnersIn(d, p) ==
    [provenance |-> {r.package : r \in {q \in Range(d.provenance.files) : q.path = p}},
     inventory |-> {r.package : r \in {q \in Range(d.inventory.files) : q.path = p}},
     spdx |-> {d.spdx.packages[r[1]].id :
                  r \in {q \in Range(d.spdx.relations) :
                            /\ q[1] > 0
                            /\ d.spdx.files[q[2] - Len(d.spdx.packages)].path = p}}]
Paths(files) == [i \in 1..Len(files) |-> files[i].path]
PackageIds(packages) == [i \in 1..Len(packages) |-> packages[i].id]
OneStory(d) ==
    /\ \A paths \in {Paths(d.provenance.files), Paths(d.inventory.files), Paths(d.spdx.files)} :
          Range(paths) = DOMAIN d.payload /\ IsInjective(paths)
    /\ \A ids \in {PackageIds(d.provenance.packages), PackageIds(d.inventory.packages),
                   PackageIds(d.spdx.packages)} :
          Range(ids) = Ids(d) /\ IsInjective(ids)
    /\ Len(d.spdx.relations) = Cardinality(Ids(d)) + Cardinality(DOMAIN d.payload)
    /\ \A p \in DOMAIN d.payload :
          \E id \in Ids(d) : OwnersIn(d, p) = [provenance |-> {id}, inventory |-> {id}, spdx |-> {id}]
    /\ \A id \in Ids(d) : \E p \in DOMAIN d.payload : OwnersIn(d, p).spdx = {id}
    /\ \A p \in DOMAIN d.files \ Documents :
          Cardinality({i \in 1..Len(d.inventory.packages) :
              [path |-> p, hash |-> d.files[p]] \in Range(d.inventory.packages[i].licenses)}) = 1
EvidenceIsExact ==
    /\ verdict = "accepted" => OneStory(directory)
    /\ verdict = "refused" => ~Imported(directory)
=============================================================================
