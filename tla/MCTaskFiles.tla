---------------------------- MODULE MCTaskFiles ----------------------------
(***************************************************************************)
(* Model values and scenarios for the run of TaskFiles.                    *)
(***************************************************************************)
EXTENDS TaskFiles

CONSTANTS w1, d, t, s, f, g, x, y

(* The directory d has the entry t; t has the directory s, which has g, and*)
(* the file f is where the account says.                                   *)
Account(where, names) ==
    [e \in Ids |-> [parent |-> CASE e = d -> RootId [] e = t -> d [] e = s -> t
                                 [] e = g -> s [] e = f -> where,
                    name |-> names[e]]]

(* Distinct names, and names that collide: f is called like t, s like d.   *)
Plain == [e \in Ids |-> IF e = t THEN y ELSE x]
Alike == [e \in Ids |-> IF e \in {t, f} THEN y ELSE x]

(* What the provider tells of the task: ids of the file, the directory,    *)
(* both or neither, a name or none; with d itself the task's entry the     *)
(* limit cuts g off.                                                       *)
Situations ==
    {[account |-> Account(t, Plain), task |-> [file |-> t, dir |-> d, name |-> y], save |-> <<x>>],
     [account |-> Account(d, Alike), task |-> [file |-> NoId, dir |-> d, name |-> y], save |-> <<x>>],
     [account |-> Account(d, Alike), task |-> [file |-> t, dir |-> NoId, name |-> y], save |-> <<>>],
     [account |-> Account(t, Alike), task |-> [file |-> NoId, dir |-> NoId, name |-> y], save |-> <<x>>],
     [account |-> Account(RootId, Plain), task |-> [file |-> d, dir |-> RootId, name |-> NoName], save |-> <<y>>]}
=============================================================================
