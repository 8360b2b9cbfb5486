-------------------------- MODULE MC_BackendBundle --------------------------
EXTENDS BackendBundle

CONSTANTS exe, dll, v1, v2

\* Two bundles with a file in common.
Whole1 == [f \in File |-> v1]
Mixed == [f \in File |-> IF f = exe THEN v2 ELSE v1]

Bundles == {Whole1, Mixed}
=============================================================================
