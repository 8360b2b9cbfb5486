---------------------------- MODULE OneUseSecret ----------------------------
(***************************************************************************)
(* What the password channel promises: the secret leaves the parent at     *)
(* most once, into the pipe of a child that was proved isolated and has    *)
(* not run an instruction yet; otherwise it is wiped where it is.          *)
(***************************************************************************)
VARIABLES
    secret,     \* "absent", "held" by the parent, "sent", or "wiped"
    child       \* "none", "checked" (suspended, isolation proved), or "other"

vars == <<secret, child>>

Init == secret \in {"absent", "held"} /\ child = "none"

Send == secret = "held" /\ child = "checked" /\ secret' = "sent" /\ UNCHANGED child

Wipe == secret = "held" /\ secret' = "wiped" /\ child' \in {"none", "checked", "other"}

Proceed == child' \in {"none", "checked", "other"} /\ UNCHANGED secret

Next == Send \/ Wipe \/ Proceed

Spec == Init /\ [][Next]_vars
=============================================================================
