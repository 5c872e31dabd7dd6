----------------------------- MODULE MCServerApi -----------------------------
(***************************************************************************)
(* Small instances of ServerApi for TLC.  The workloads put on one shared  *)
(* registry the requests that conflict with each other.                    *)
(***************************************************************************)
EXTENDS ServerApi, TLC

CONSTANTS i1, i2, c1, c2, r1, r2

Req(kind, repo) == [kind |-> kind, repo |-> repo]
Pair(a, b) == c1 :> a @@ c2 :> b

\* Two batches, or a batch and the folder picker.
WorkSafety == {Pair(Req("batch", r1), Req("batch", r1)),
               Pair(Req("batch", r1), Req("dialog", r1))}

\* Two changes of the configuration that overwrite each other when they
\* interleave, a batch on the repository the other request deletes, and the
\* folder picker next to a change.
WorkRegistry == {Pair(Req("add", r2), Req("delete", r1)),
                 Pair(Req("delete", r1), Req("batch", r1)),
                 Pair(Req("add", r1), Req("dialog", r1))}

\* The workloads do not depend on the instance.
Symmetry == Permutations(Instances)
=============================================================================
