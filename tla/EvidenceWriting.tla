-------------------------- MODULE EvidenceWriting --------------------------
(***************************************************************************)
(* The documents that an import writes beside a backend                    *)
(* (New-IrohaZipBackendEvidence in backend-evidence.ps1): from the         *)
(* provenance v, which holds the sorted packages and the sorted files with *)
(* their owners, the SPDX document and the license inventory.  Hashes are  *)
(* contents, as in EvidenceDocuments, which has the reading side.          *)
(***************************************************************************)
EXTENDS Naturals, Sequences, FiniteSets, SequencesExt

\* Get-SpdxPackageVerificationCode: the contents of the package's files, in any order.
CodeOf(files, id) ==
    LET owned == {r \in Range(files) : r.package = id}
    IN  [c \in {r.hash : r \in owned} |-> Cardinality({r \in owned : r.hash = c})]

\* The relationships: each package of the document, then the owner of each file, 0 for
\* an owner that is missing.
OwnerOf(v, j) ==
    LET owners == {i \in 1..Len(v.packages) : v.packages[i].id = v.files[j].package}
    IN  IF owners = {} THEN 0 ELSE CHOOSE i \in owners : TRUE
RelationsOf(v) ==
    [i \in 1..Len(v.packages) |-> <<0, i>>]
    \o [j \in 1..Len(v.files) |-> <<OwnerOf(v, j), Len(v.packages) + j>>]

SpdxOf(v) ==
    [namespace |-> <<v.manifest, v>>, created |-> v.created,
     packages |-> [i \in 1..Len(v.packages) |->
        [number |-> i, id |-> v.packages[i].id, about |-> v.packages[i].about,
         code |-> CodeOf(v.files, v.packages[i].id)]],
     files |-> [j \in 1..Len(v.files) |->
        [number |-> j, path |-> v.files[j].path, hash |-> v.files[j].hash]],
     relations |-> RelationsOf(v)]

\* With the licenses that were copied for each package.
InventoryOf(v, notices, licenses) ==
    [notices |-> notices,
     packages |-> [i \in 1..Len(v.packages) |->
        [id |-> v.packages[i].id, about |-> v.packages[i].about, licenses |-> licenses[i]]],
     files |-> v.files]

\* The directories that hold some files.
FoldersOf(paths) == UNION {{SubSeq(p, 1, n) : n \in 1..(Len(p) - 1)} : p \in paths}
=============================================================================
