--------------------------- MODULE MC_ConfigStore ---------------------------
(* Small instances of ConfigStore. *)
EXTENDS ConfigStore

CONSTANTS p1, p2, p3, c1, c2,
          short  \* what a beginning of the default text reads as, and no other text
=============================================================================
