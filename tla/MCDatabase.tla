----------------------------- MODULE MCDatabase -----------------------------
(***************************************************************************)
(* Three processes on two paths: every pair of jobs that meet in the       *)
(* tables, under either setting or none, with one kill or power failure.   *)
(***************************************************************************)
EXTENDS Database

Job(op, path, refs) == [op |-> op, path |-> path, refs |-> refs]

Import(q) == Job("import", q, {})

ImportRef(q, refs) == Job("import", q, refs)

Remove(q) == Job("remove", q, {})

Query(q) == Job("query", q, {})

(* Two imports of one path and one of another; a reference to a path that  *)
(* is being removed; a query of what is removed and imported again.        *)
Todos ==
    {<< <<Import("a")>>, <<Import("a")>>, <<Import("b")>> >>,
     << <<Import("a")>>, <<ImportRef("b", {"a", "b"})>>, <<Remove("a")>> >>,
     << <<Import("a"), ImportRef("b", {"a"}), Remove("b"), Import("b")>>, <<Query("b")>>, <<>> >>,
     << <<Import("a"), Remove("a")>>, <<Import("a")>>, <<>> >>}

MCScenarios ==
    [todo : {[p \in Procs |-> t[CASE p = "p" -> 1 [] p = "q" -> 2 [] p = "r" -> 3]] : t \in Todos},
     settings : [fsyncStorePaths : BOOLEAN, syncBeforeRegistering : BOOLEAN]
                \ {[fsyncStorePaths |-> TRUE, syncBeforeRegistering |-> TRUE]}]
=============================================================================
