------------------------------- MODULE MCTaskDb -------------------------------
(***************************************************************************)
(* Small instances of TaskDb: two processes, two or three ids, batches of  *)
(* up to two commands that meet on one task, and two pairs that do not.    *)
(***************************************************************************)
EXTENDS TaskDb, TLC

CONSTANTS p1, p2, t1, t2, t3

MCStatuses == {"todo", "done", "lost"}

\* The bundled workflow restricts nothing; this repository's own forbids to
\* leave "done"; neither defines "lost".
MCBundled == [known |-> {"todo", "done"}, to |-> [s \in MCStatuses |-> {}]]
MCCustom == [known |-> {"todo", "done"},
             to |-> [s \in MCStatuses |-> IF s = "done" THEN {"done"} ELSE {}]]

Do(cmd, id) == [cmd |-> cmd, task |-> id, title |-> "ok", status |-> "todo"]
Move(id, s) == [Do("move", id) EXCEPT !.status = s]
Retitle(id, t) == [Do("title", id) EXCEPT !.title = t]
Create(t) == [Do("create", t1) EXCEPT !.title = t]
Both(a, b) == p1 :> a @@ p2 :> b

MCScripts ==
  {Both(<<Move(t1, "done"), Do("comment", t1)>>, <<Move(t1, "todo"), Do("body", t1)>>),
   Both(<<Create("ok"), Do("assignee", t1)>>, <<Do("list", t1), Create("ok")>>),
   Both(<<Retitle(t1, ""), Do("list", t1)>>, <<Do("comment", t1), Do("malformed", t1)>>),
   Both(<<Create(""), Do("list", t1)>>, <<Move(t1, "done"), Move(t1, "lost")>>),
   Both(<<Create("ok"), Move(t2, "done")>>, <<Do("comment", t1), Do("list", t1)>>),
   Both(<<Retitle(t1, ""), Do("comment", t1)>>, <<Do("body", t2), Create("ok")>>)}
=============================================================================
