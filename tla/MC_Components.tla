--------------------------- MODULE MC_Components ---------------------------
(***************************************************************************)
(* The components of Components with the inputs of their MC modules.       *)
(***************************************************************************)
EXTENDS Components, MC_Windows, MC_Trees, MC_Archives, MC_FormatInputs, MC_Evidence

ASSUME /\ Form!SettingsConstants /\ View!LayoutConstants /\ Walk!TreeConstants /\ Walk!FiniteTrees
       /\ R!ReaderConstants /\ Format!FormatConstants /\ Evidence!EvidenceConstants
       /\ \A v \in {Supported, Unverified} : Evidence!Imported(Written(v))

\* Any two windows are alike, and so are any two fields.
Symmetric == Permutations(Window) \cup Permutations(Field)
=============================================================================
