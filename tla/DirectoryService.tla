-------------------------- MODULE DirectoryService --------------------------
(***************************************************************************)
(* What the directory operations of the 115 driver promise while nobody    *)
(* moves or removes directories, with no cache in sight: directories       *)
(* appear one at a time below existing ones, each with an id of its own,   *)
(* and who asks for a path is told the id that is there at that moment.    *)
(***************************************************************************)
EXTENDS Naturals, Sequences

CONSTANTS
    Profiles,    \* profile ids, each an account of its own
    Workers,     \* who asks
    Paths,       \* sequences of names, with all their prefixes
    DirIds,      \* directory ids but the root's
    RootId,
    NoDir        \* no directory, no answer

VARIABLES
    tree,        \* profile -> path -> directory id or NoDir
    answer       \* worker -> profile, path and id it was told, or NoDir

serviceVars == <<tree, answer>>

Init ==
    /\ tree = [p \in Profiles |-> [q \in Paths |-> IF q = <<>> THEN RootId ELSE NoDir]]
    /\ answer = [w \in Workers |-> NoDir]

Unused(id) == \A p \in Profiles, q \in Paths : tree[p][q] # id

Create(p, q, id) ==
    /\ q # <<>>
    /\ tree[p][q] = NoDir
    /\ tree[p][SubSeq(q, 1, Len(q) - 1)] # NoDir
    /\ Unused(id)
    /\ tree' = [tree EXCEPT ![p][q] = id]
    /\ UNCHANGED answer

Tell(w, p, q) ==
    /\ answer[w] = NoDir
    /\ tree[p][q] # NoDir
    /\ answer' = [answer EXCEPT ![w] = <<p, q, tree[p][q]>>]
    /\ UNCHANGED tree

\* Some of those who were told go away, all of them at a restart.
Forget(gone) ==
    /\ answer' = [w \in Workers |-> IF w \in gone THEN NoDir ELSE answer[w]]
    /\ UNCHANGED tree

Next ==
    \/ \E p \in Profiles, q \in Paths :
          \/ \E id \in DirIds : Create(p, q, id)
          \/ \E w \in Workers : Tell(w, p, q)
    \/ \E gone \in SUBSET Workers : Forget(gone)

Spec == Init /\ [][Next]_serviceVars
=============================================================================
