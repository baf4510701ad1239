--------------------------- MODULE MCSourceAccess ---------------------------
(***************************************************************************)
(* Two threads on a chain of directories that all have the same name, so   *)
(* that a descriptor cached under the wrong key or used after it was       *)
(* closed is found.                                                        *)
(***************************************************************************)
EXTENDS SourceAccess

Dir(entries) == [type |-> "dir", entries |-> entries, size |-> 0, to |-> None]

Leaf_(type, size) == [type |-> type, entries |-> <<>>, size |-> size, to |-> "O"]

MCTree ==
    [top |-> Dir([r |-> "R", l |-> "L", g |-> "F", p |-> "P"]),
     R |-> Dir([a |-> "A"]),
     A |-> Dir([a |-> "B", f |-> "F"]),
     B |-> Dir([a |-> "C"]),
     C |-> Dir([a |-> "D"]),
     D |-> Dir([f |-> "F"]),
     F |-> Leaf_("file", 2),
     P |-> Leaf_("fifo", 0),
     L |-> Leaf_("link", 0),
     S |-> Dir([a |-> "C"]),
     O |-> Dir([a |-> "O", f |-> "X"]),
     X |-> Leaf_("file", 1)]

MCOutside == {"O", "X"}

Targets == {<<>>, <<"a">>, <<"a", "f">>, <<"a", "a", "a", "a", "f">>}

Make_(name) == [op |-> "make", name |-> name, path |-> <<>>]

Call_(op, path) == [op |-> op, name |-> "", path |-> path]

Near == <<"a", "f">>

Far == <<"a", "a", "a", "a", "f">>

(* One thread makes every call on every kind of root, and on the directory *)
(* it has descended into, while the tree changes once ...                  *)
Alone(requests, n) == [todo |-> [t \in Threads |-> IF t = "t1" THEN requests ELSE <<>>], edits |-> n]

EveryCall ==
    {Alone(<<Make_(r), Call_(op, p)>>, 1) : r \in {"r", "l", "g", "p"}, op \in Ops, p \in Targets}
    \cup {Alone(<<Make_("r"), Call_("descend", <<"a">>), Call_(op, p)>>, 1) :
              op \in {"lstat", "readFile", "descend"}, p \in {<<>>, <<"f">>, <<"a", "a", "a", "f">>}}

(* ... comes back to what it has cached ... *)
Again ==
    {Alone(<<Make_("r"), Call_("lstat", p), Call_("lstat", q), Call_("readFile", p)>>, n) :
        p, q \in {Near, Far}, n \in {0, 1}}

(* ... and two threads evict each other's caches. *)
Contending ==
    {[todo |-> [t \in Threads |->
        <<Make_("r"), Call_("lstat", IF t = "t1" THEN p ELSE Far), Call_("readFile", Near)>>],
      edits |-> 0] : p \in {Near, Far}}

(* A thread fills the caches of two accessors; another's has come and gone. *)
Nested ==
    {[todo |-> [t \in Threads |->
        IF t = "t1" THEN <<Make_("r")>>
        ELSE <<Make_("r"), Call_("lstat", Far), Make_("r"), Call_("lstat", Far), Call_("lstat", Near)>>],
      edits |-> 0]}

MCScenarios == EveryCall \cup Again \cup Contending \cup Nested

(* The root's and another directory's "a" become a symlink to the outside, *)
(* another directory or nothing; the file shrinks or grows.                *)
MCTrees ==
    {MCTree}
    \cup {[MCTree EXCEPT ![d].entries["a"] = i] : d \in {"R", "B"}, i \in {"L", "S"}}
    \cup {[MCTree EXCEPT !["F"].size = n] : n \in {1, 3}}
    \cup {[MCTree EXCEPT !["top"].entries = [r |-> "L", l |-> "R", g |-> "F", p |-> "P"]]}
    \cup {[MCTree EXCEPT !["R"].entries = <<>>]}

MCInodes == DOMAIN MCTree
=============================================================================
