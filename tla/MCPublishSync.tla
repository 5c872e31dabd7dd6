----------------------------- MODULE MCPublishSync -----------------------------
(***************************************************************************)
(* Small instances of PublishSync.                                         *)
(***************************************************************************)
EXTENDS PublishSync, TLC

CONSTANTS v1, v2

Permutable == Permutations({v1, v2})
=============================================================================
