----------------------------- MODULE MCWebTasks -----------------------------
(***************************************************************************)
(* Small instances of WebTasks: two repositories and two task ids.         *)
(***************************************************************************)
EXTENDS WebTasks, TLC

CONSTANTS rA, rB, t1, t2

\* Both ids belong to the first repository; the second stays empty.
HomeOfTasks == t1 :> rA @@ t2 :> rA

\* The first task is not published.  The second can be created or be a teammate's,
\* or is there, so that every load has two pages and there is one act less.
SmallStarts ==
  {[server |-> t1 :> Created @@ t2 :> Absent, dirty |-> {t1}, acts |-> 0],
   [server |-> t1 :> Created @@ t2 :> "done", dirty |-> {t1}, acts |-> 1]}
=============================================================================
