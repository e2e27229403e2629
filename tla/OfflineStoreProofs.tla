------------------------- MODULE OfflineStoreProofs -------------------------
(***************************************************************************)
(* The record store keeps its index sound, for any sets of profiles,       *)
(* clients and tasks, under any sequence of calls.                         *)
(***************************************************************************)
EXTENDS OfflineStore, TLAPS

StoreInv == StoreTypeOK /\ IndexSound /\ IndexComplete

(* A client key is an index key exactly when the record has a client id.   *)
LEMMA KeyFacts ==
    ASSUME NEW r \in Records
    PROVE  /\ clientKey(r) = <<r.profile, r.client>>
           /\ r.profile \in Profiles
           /\ r.task \in Tasks
           /\ r # NoRecord
           /\ clientKey(r) \in Keys <=> r.client \in Clients
  BY NoRecordAssumption DEF Records, clientKey, Keys

(* removeIndexesLocked followed by putLocked, as Put and save do it.       *)
LEMMA ReplaceKeepsInv ==
    ASSUME StoreInv, NEW r \in Records,
           Backend # "memory" => ~KeyTaken(r),
           putLocked(removeIndexesLocked(byClient, r.task), r)
    PROVE  StoreInv'
<1> DEFINE k == clientKey(r)
<1>1. /\ byTask' = [byTask EXCEPT ![r.task] = r]
      /\ byClient' = [j \in Keys |-> IF j = k THEN r.task
                                     ELSE removeIndexesLocked(byClient, r.task)[j]]
  BY DEF putLocked
<1>2. \A j \in Keys : byClient'[j] = IF j = k THEN r.task
                                     ELSE IF byClient[j] = r.task THEN NoTask ELSE byClient[j]
  BY <1>1 DEF removeIndexesLocked
<1>3. \A t \in Tasks : byTask'[t] = IF t = r.task THEN r ELSE byTask[t]
  BY <1>1 DEF StoreInv, StoreTypeOK
<1>4. StoreTypeOK'
  <2>1. byTask' \in [Tasks -> Records \cup {NoRecord}]
    BY <1>1, KeyFacts DEF StoreInv, StoreTypeOK
  <2>2. byClient' \in [Keys -> Tasks \cup {NoTask}]
    <3>1. \A j \in Keys : byClient'[j] \in Tasks \cup {NoTask}
      BY <1>2, KeyFacts DEF StoreInv, StoreTypeOK
    <3> QED BY <1>1, <3>1
  <2>3. \A t \in Tasks : byTask'[t] # NoRecord => byTask'[t].task = t
    BY <1>3 DEF StoreInv, StoreTypeOK
  <2> QED BY <2>1, <2>2, <2>3 DEF StoreTypeOK
<1>5. IndexSound'
  <2> SUFFICES ASSUME NEW j \in Keys, byClient'[j] # NoTask
               PROVE  /\ byTask'[byClient'[j]] # NoRecord
                      /\ clientKey(byTask'[byClient'[j]]) = j
    BY DEF IndexSound, clientKey
  <2>1. CASE j = k
    BY <2>1, <1>2, <1>3, KeyFacts
  <2>2. CASE j # k
    <3>1. byClient'[j] = byClient[j] /\ byClient[j] # r.task /\ byClient[j] # NoTask
      BY <2>2, <1>2
    <3>2. byClient[j] \in Tasks
      BY <3>1 DEF StoreInv, StoreTypeOK
    <3> QED BY <3>1, <3>2, <1>3 DEF StoreInv, IndexSound
  <2> QED BY <2>1, <2>2
<1>6. IndexComplete'
  <2> SUFFICES ASSUME Backend # "memory", NEW t \in Tasks, byTask'[t] # NoRecord,
                      clientKey(byTask'[t]) \in Keys
               PROVE  byClient'[clientKey(byTask'[t])] = t
    BY DEF IndexComplete, clientKey
  <2>1. CASE t = r.task
    BY <2>1, <1>2, <1>3
  <2>2. CASE t # r.task
    <3>1. byTask'[t] = byTask[t] /\ byClient[clientKey(byTask[t])] = t
      BY <2>2, <1>3 DEF StoreInv, IndexComplete
    <3>2. clientKey(byTask[t]) # k
      <4> SUFFICES ASSUME clientKey(byTask[t]) = k PROVE FALSE
        OBVIOUS
      <4>1. k \in Keys /\ byClient[k] = t
        BY <3>1
      <4>2. t # NoTask
        BY NullsAssumption
      <4> QED BY <4>1, <4>2, <2>2 DEF KeyTaken
    <3> QED BY <3>1, <3>2, <2>2, <1>2
  <2> QED BY <2>1, <2>2
<1> QED BY <1>4, <1>5, <1>6 DEF StoreInv

(* Calls that leave both maps alone.                                       *)
LEMMA UnchangedKeepsInv ==
    ASSUME StoreInv, UNCHANGED storeVars
    PROVE  StoreInv'
  BY DEF StoreInv, StoreTypeOK, IndexSound, IndexComplete, storeVars, clientKey

(* The SQL statement either takes effect as a whole or is refused, for its *)
(* key is another row's or is one that PostgreSQL cannot hold.            *)
LEMMA SaveKeepsInv ==
    ASSUME StoreInv, NEW r \in Records, save(r)
    PROVE  StoreInv'
<1>1. CASE KeyTaken(r) \/ KeyRefused(clientKey(r))
  BY <1>1, UnchangedKeepsInv DEF save
<1>2. CASE ~(KeyTaken(r) \/ KeyRefused(clientKey(r)))
  BY <1>2, ReplaceKeepsInv DEF save, Upsert
<1> QED BY <1>1, <1>2

LEMMA PutKeepsInv ==
    ASSUME StoreInv, NEW r \in Records, Put(r)
    PROVE  StoreInv'
<1>1. CASE Backend = "memory" /\ putLocked(removeIndexesLocked(byClient, r.task), r)
  BY <1>1, ReplaceKeepsInv
<1>2. CASE Backend # "memory" /\ save(r)
  BY <1>2, SaveKeepsInv
<1> QED BY <1>1, <1>2 DEF Put

(* Where the task has no record, no index entry points to it: removing     *)
(* those entries first, as Update does not in that case, changes nothing.  *)
LEMMA UpdateKeepsInv ==
    ASSUME StoreInv, NEW r \in Records, Update(r)
    PROVE  StoreInv'
<1>1. CASE Backend = "memory" /\ byTask[r.task] # NoRecord
  BY <1>1, ReplaceKeepsInv DEF Update
<1>2. CASE Backend = "memory" /\ byTask[r.task] = NoRecord
  <2>1. removeIndexesLocked(byClient, r.task) = byClient
    <3>1. \A j \in Keys : byClient[j] # r.task
      BY <1>2, KeyFacts, NullsAssumption DEF StoreInv, IndexSound
    <3> QED BY <3>1 DEF StoreInv, StoreTypeOK, removeIndexesLocked
  <2>2. putLocked(byClient, r)
    BY <1>2 DEF Update
  <2> QED BY <2>1, <2>2, <1>2, ReplaceKeepsInv
<1>3. CASE Backend # "memory" /\ save(r)
  BY <1>3, SaveKeepsInv
<1> QED BY <1>1, <1>2, <1>3 DEF Update

LEMMA EmptyStoreInv ==
    ASSUME StoreInit
    PROVE  StoreInv
  BY NullsAssumption
  DEF StoreInit, StoreInv, StoreTypeOK, IndexSound, IndexComplete

LEMMA RestartKeepsInv ==
    ASSUME StoreInv, StoreRestart
    PROVE  StoreInv'
<1>1. CASE Backend = "memory"
  BY <1>1
  DEF StoreRestart, EmptyStore, StoreInv, StoreTypeOK, IndexSound, IndexComplete
<1>2. CASE Backend # "memory"
  BY <1>2, UnchangedKeepsInv DEF StoreRestart, migrate
<1> QED BY <1>1, <1>2

(* Under any calls, the maps keep their types, an index entry always leads *)
(* to a record of its own client key, and a SQL store finds every keyed row*)
(* through the index (internal/offline, Put, Update and a restart).        *)
THEOREM StoreSafety == StoreSpec => [](StoreTypeOK /\ IndexSound /\ IndexComplete)
<1>1. StoreInit => StoreInv
  BY EmptyStoreInv
<1>2. StoreInv /\ [StoreNext]_storeVars => StoreInv'
  <2> SUFFICES ASSUME StoreInv, [StoreNext]_storeVars PROVE StoreInv'
    OBVIOUS
  <2>1. CASE \E r \in Records : Put(r) \/ Update(r)
    BY <2>1, PutKeepsInv, UpdateKeepsInv
  <2>2. CASE StoreRestart
    BY <2>2, RestartKeepsInv
  <2>3. CASE UNCHANGED storeVars
    BY <2>3, UnchangedKeepsInv
  <2> QED BY <2>1, <2>2, <2>3 DEF StoreNext
<1>3. StoreInv => StoreTypeOK /\ IndexSound /\ IndexComplete
  BY DEF StoreInv
<1> QED BY <1>1, <1>2, <1>3, PTL DEF StoreSpec
=============================================================================
