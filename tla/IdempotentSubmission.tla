------------------------ MODULE IdempotentSubmission ------------------------
(***************************************************************************)
(* What AddOfflineTask promises to a client that names its request with a  *)
(* client task id: until the first answer a retry may submit again, after  *)
(* it nothing is submitted any more, and the answer is one of the tasks    *)
(* that were submitted under the key and stays the same.                   *)
(***************************************************************************)
EXTENDS Naturals

CONSTANTS
    Keys,    \* profile and client task id
    Tasks

VARIABLES
    issued,      \* key -> task -> submissions the provider accepted, up to 2
    answered     \* key -> tasks the client was answered with

promiseVars == <<issued, answered>>

Init ==
    /\ issued = [k \in Keys |-> [t \in Tasks |-> 0]]
    /\ answered = [k \in Keys |-> {}]

Submit(k, t) ==
    /\ answered[k] = {}
    /\ issued' = [issued EXCEPT ![k][t] = IF @ < 2 THEN @ + 1 ELSE 2]
    /\ UNCHANGED answered

Answer(k, t) ==
    /\ issued[k][t] > 0
    /\ answered[k] \subseteq {t}
    /\ answered' = [answered EXCEPT ![k] = {t}]
    /\ UNCHANGED issued

Next == \E k \in Keys, t \in Tasks : Submit(k, t) \/ Answer(k, t)

Spec == Init /\ [][Next]_promiseVars
=============================================================================
