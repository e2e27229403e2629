----------------------------- MODULE MCDirCache -----------------------------
(* Model values and bounds for the runs of DirCache. *)
EXTENDS DirCache, TLC

CONSTANTS p1, p2, w1, w2, a, b, i1, i2, i3

(* AddOfflineTask with any save path. *)
Making == {r \in AllRequests : r.op = "add"}

(* Every operation, on paths chosen to meet: one account makes a/b, lists  *)
(* and renames a and moves it into b; in the other a is made, and a and a/b*)
(* are removed.                                                            *)
Rearranging ==
    {[op |-> "mkdir", profile |-> p1, path |-> <<a, b>>],
     [op |-> "list", profile |-> p1, path |-> <<a>>],
     [op |-> "rename", profile |-> p1, path |-> <<a>>, name |-> b],
     [op |-> "move", profile |-> p1, path |-> <<a>>, dst |-> <<b>>],
     [op |-> "mkdir", profile |-> p2, path |-> <<a>>],
     [op |-> "remove", profile |-> p2, path |-> <<a>>],
     [op |-> "remove", profile |-> p2, path |-> <<a, b>>]}

Symmetry == Permutations(Workers) \cup Permutations(DirIds)
=============================================================================
