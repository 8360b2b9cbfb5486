---------------------------- MODULE MC_Extraction ----------------------------
(* A good archive, one that cannot be extracted, one with a forbidden name,   *)
(* one that exceeds a limit only when it is extracted, and a hostile one.     *)
EXTENDS Extraction

CONSTANTS good, broken, badname, bomb, hostile, empty, tree, part, foul

Extracts == [a \in Archive |-> CASE a \in {good, hostile} -> tree
                                 [] a = broken -> Nothing
                                 [] OTHER -> foul]

Selects == [t \in Tree |-> CASE t = tree -> part [] t = foul -> foul [] OTHER -> Nothing]
=============================================================================
