---------------------------- MODULE MC_SandboxRun ----------------------------
(* Two runs of one operation, as stage_archive makes them (listing, then      *)
(* extraction), under every combination of the fallback flag and a password.  *)
EXTENDS SandboxRun
=============================================================================
