------------------------ MODULE MC_ArchiveCreation ------------------------
(* Small instances of ArchiveCreation. *)
EXTENDS ArchiveCreation

CONSTANTS c1, c2, o1, t1, t2, b1, b2, b3

\* Two archives, and one that cannot be extracted.
Extracts == [b \in Bytes |-> CASE b = b1 -> t1 [] b = b2 -> t2 [] b = b3 -> NoTree]
=============================================================================
