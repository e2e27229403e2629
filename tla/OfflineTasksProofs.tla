------------------------- MODULE OfflineTasksProofs -------------------------
(***************************************************************************)
(* Type correctness, index soundness and ownership of answers for the      *)
(* offline-task handlers, for every value of the constants: any number of  *)
(* handlers, any requests, either backend, with or without faults.         *)
(***************************************************************************)
EXTENDS OfflineTasks, OfflineStoreProofs

(* What a handler's program counter says of its request and its record.    *)
ReqShape(h) ==
    /\ pc[h] \in {"lock", "lookup", "refresh", "refreshSave"}
          => req[h] \in AddRequests /\ req[h].client \in Clients
    /\ pc[h] \in {"submit", "put"} => req[h] \in AddRequests
    /\ pc[h] \in {"query", "fallback", "delete", "cancelGet", "cancelSave"}
          => req[h] \in IdRequests
    /\ pc[h] = "list" => req[h] \in ListRequests
    /\ pc[h] \in {"storedGet", "storedSave"}
          => req[h] \in IdRequests \cup ListRequests
    /\ pc[h] \in {"refresh", "refreshSave", "storedSave", "cancelSave"}
          => rec[h] \in Records
    /\ pc[h] \in {"refresh", "refreshSave"}
          => clientKey(rec[h]) = KeyOfRequest(req[h])

TypeInv ==
    /\ TypeOK
    /\ StoreInv
    /\ \A h \in Handlers : ReqShape(h)

LEMMA WithStatusFacts ==
    ASSUME NEW r \in Records, NEW s \in Statuses
    PROVE  /\ WithStatus(r, s) \in Records
           /\ clientKey(WithStatus(r, s)) = clientKey(r)
           /\ WithStatus(r, s).task = r.task
  BY DEF WithStatus, Records, clientKey

LEMMA MapStatusType ==
    ASSUME NEW raw \in RawCodes
    PROVE  /\ mapOfflineStatus(raw) \in Statuses
           /\ mapOfflineStatus(raw) \in {mapOfflineStatus(r) : r \in RawCodes}
  BY DEF mapOfflineStatus, RawCodes, Statuses

LEMMA NewRecordFacts ==
    ASSUME NEW r \in AddRequests
    PROVE  /\ NewRecord(r) \in Records
           /\ clientKey(NewRecord(r)) = KeyOfRequest(r)
           /\ NewRecord(r).task = r.task
  BY DEF NewRecord, AddRequests, Records, Statuses, clientKey, KeyOfRequest

(* A request's key is an index key exactly when it has a client task id.   *)
LEMMA RequestKeyFacts ==
    ASSUME NEW r \in AddRequests
    PROVE  HasClient(r) <=> KeyOfRequest(r) \in Keys
  BY NullsAssumption DEF AddRequests, HasClient, KeyOfRequest, Keys

(* A store write or its logged failure.                                    *)
LEMMA TryUpdateKeepsInv ==
    ASSUME StoreInv, NEW r \in Records, TryUpdate(r)
    PROVE  StoreInv'
  BY UpdateKeepsInv, UnchangedKeepsInv DEF TryUpdate

LEMMA TryPutKeepsInv ==
    ASSUME StoreInv, NEW r \in Records, TryPut(r)
    PROVE  StoreInv'
  BY PutKeepsInv, UnchangedKeepsInv DEF TryPut

LEMMA StoredRecord ==
    ASSUME StoreInv, NEW t \in Tasks, byTask[t] # NoRecord
    PROVE  byTask[t] \in Records /\ byTask[t].task = t
  BY DEF StoreInv, StoreTypeOK

LEMMA IndexedRecord ==
    ASSUME StoreInv, NEW k \in Keys, GetByClientTask(k) # NoRecord
    PROVE  /\ GetByClientTask(k) \in Records
           /\ clientKey(GetByClientTask(k)) = k
  BY NullsAssumption DEF StoreInv, StoreTypeOK, IndexSound, GetByClientTask

-----------------------------------------------------------------------------
(* Steps that only one handler's local state, the provider and histories   *)
(* take part in.                                                           *)

LEMMA ReturnKeepsTypes ==
    ASSUME TypeInv, NEW h \in Handlers, Return(h), StoreInv',
           cloud' \in [Profiles -> [Tasks -> RawCodes \cup {"absent"}]],
           issued' \in [Keys -> [Tasks -> 0..2]],
           answered' \in [Keys -> SUBSET Tasks],
           crashes' \in 0..MaxCrashes
    PROVE  TypeInv'
<1>1. TypeOK'
  BY DEF TypeInv, TypeOK, Return, PcValues, StoreInv
<1>2. \A g \in Handlers : ReqShape(g)'
  BY DEF TypeInv, TypeOK, Return, ReqShape, KeyOfRequest, clientKey
<1> QED BY <1>1, <1>2 DEF TypeInv

LEMMA ArriveKeepsTypes ==
    ASSUME TypeInv, NEW h \in Handlers, Arrive(h)
    PROVE  TypeInv'
<1>1. ASSUME NEW r \in Requests, NEW first \in PcValues, Accept(h, r, first),
             first \in {"lock", "submit"} => r \in AddRequests,
             first = "lock" => r.client \in Clients,
             first \in {"query", "delete"} => r \in IdRequests,
             first = "list" => r \in ListRequests,
             first \in {"lock", "submit", "query", "delete", "list"}
      PROVE  TypeInv'
  <2>1. StoreInv'
    BY <1>1, UnchangedKeepsInv DEF Accept, TypeInv
  <2>2. TypeOK'
    BY <1>1, <2>1 DEF Accept, Goto, TypeInv, TypeOK, StoreInv, historyVars
  <2>3. \A g \in Handlers : ReqShape(g)'
    BY <1>1 DEF Accept, Goto, TypeInv, TypeOK, ReqShape, KeyOfRequest, clientKey
  <2> QED BY <2>1, <2>2, <2>3 DEF TypeInv
<1>2. CASE AcceptAdd(h)
  <2> PICK order \in Orders :
        LET r == [op |-> "add", profile |-> order[1], client |-> order[2], task |-> order[3]]
        IN  Accept(h, r, IF HasClient(r) THEN "lock" ELSE "submit")
    BY <1>2 DEF AcceptAdd
  <2> DEFINE r == [op |-> "add", profile |-> order[1], client |-> order[2], task |-> order[3]]
  <2>1. r \in AddRequests
    BY OrdersAssumption DEF AddRequests
  <2>2. HasClient(r) => r.client \in Clients
    BY <2>1 DEF HasClient, AddRequests
  <2> QED BY <1>1, <2>1, <2>2 DEF Requests, PcValues
<1>3. CASE AcceptGet(h)
  BY <1>1, <1>3 DEF AcceptGet, IdRequests, Requests, PcValues
<1>4. CASE AcceptRemove(h)
  BY <1>1, <1>4 DEF AcceptRemove, IdRequests, Requests, PcValues
<1>5. CASE AcceptList(h)
  BY <1>1, <1>5 DEF AcceptList, ListRequests, Requests, PcValues
<1> QED BY <1>2, <1>3, <1>4, <1>5 DEF Arrive

(* A handler moves on to its next call; the store stays sound.             *)
LEMMA GotoKeepsTypes ==
    ASSUME TypeInv, NEW h \in Handlers, NEW from \in PcValues, NEW to \in PcValues,
           Goto(h, from, to), StoreInv', UNCHANGED req,
           cloud' \in [Profiles -> [Tasks -> RawCodes \cup {"absent"}]],
           mutex' \in Handlers \cup {NoHandler},
           rec' \in [Handlers -> Records \cup {NoRecord}],
           todo' \in [Handlers -> SUBSET Reported],
           issued' \in [Keys -> [Tasks -> 0..2]],
           answered' \in [Keys -> SUBSET Tasks],
           crashes' \in 0..MaxCrashes,
           \A g \in Handlers : g # h => rec'[g] = rec[g],
           ReqShape(h)'
    PROVE  TypeInv'
<1>1. TypeOK'
  BY DEF TypeInv, TypeOK, Goto, StoreInv
<1>2. \A g \in Handlers : ReqShape(g)'
  BY DEF TypeInv, TypeOK, Goto, ReqShape, KeyOfRequest, clientKey
<1> QED BY <1>1, <1>2 DEF TypeInv

LEMMA CloudAddTypes ==
    ASSUME TypeInv, NEW r \in AddRequests, CloudAdd(r)
    PROVE  /\ cloud' \in [Profiles -> [Tasks -> RawCodes \cup {"absent"}]]
           /\ issued' \in [Keys -> [Tasks -> 0..2]]
<1>1. r.profile \in Profiles /\ r.task \in Tasks
  BY DEF AddRequests
<1>2. cloud' \in [Profiles -> [Tasks -> RawCodes \cup {"absent"}]]
  BY <1>1 DEF CloudAdd, TypeInv, TypeOK, RawCodes
<1>3. issued' \in [Keys -> [Tasks -> 0..2]]
  BY <1>1, RequestKeyFacts DEF CloudAdd, TypeInv, TypeOK
<1> QED BY <1>2, <1>3

LEMMA AnswerTypes ==
    ASSUME TypeInv, NEW r \in AddRequests, NEW t \in Tasks, AnswerAdd(r, t)
    PROVE  answered' \in [Keys -> SUBSET Tasks]
  BY RequestKeyFacts DEF AnswerAdd, TypeInv, TypeOK

LEMMA LockKeepsTypes ==
    ASSUME TypeInv, NEW h \in Handlers, Lock(h)
    PROVE  TypeInv'
<1>1. StoreInv'
  BY UnchangedKeepsInv DEF Lock, TypeInv
<1>2. ReqShape(h)'
  BY DEF Lock, Goto, TypeInv, TypeOK, ReqShape
<1> QED BY <1>1, <1>2, GotoKeepsTypes DEF Lock, TypeInv, TypeOK, PcValues, historyVars

LEMMA AddKeepsTypes ==
    ASSUME TypeInv, NEW h \in Handlers, AddStep(h)
    PROVE  TypeInv'
<1> USE DEF historyVars
<1>0. ASSUME UNCHANGED storeVars PROVE StoreInv'
  BY <1>0, UnchangedKeepsInv DEF TypeInv
<1>1. CASE LookupHit(h)
  <2>1. /\ req[h] \in AddRequests /\ req[h].client \in Clients
        /\ KeyOfRequest(req[h]) \in Keys
    BY <1>1 DEF LookupHit, TypeInv, ReqShape, AddRequests, Keys, KeyOfRequest
  <2>2. /\ GetByClientTask(KeyOfRequest(req[h])) \in Records
        /\ clientKey(GetByClientTask(KeyOfRequest(req[h]))) = KeyOfRequest(req[h])
    BY <1>1, <2>1, IndexedRecord DEF LookupHit, TypeInv
  <2>3. ReqShape(h)'
    BY <1>1, <2>1, <2>2 DEF LookupHit, Goto, TypeInv, TypeOK, ReqShape, KeyOfRequest, clientKey
  <2> QED BY <1>0, <1>1, <2>2, <2>3, GotoKeepsTypes DEF LookupHit, TypeInv, TypeOK, PcValues
<1>2. CASE LookupMiss(h)
  <2>1. ReqShape(h)'
    BY <1>2 DEF LookupMiss, Goto, TypeInv, TypeOK, ReqShape
  <2> QED BY <1>0, <1>2, <2>1, GotoKeepsTypes DEF LookupMiss, TypeInv, TypeOK, PcValues
<1>3. CASE Refresh(h)
  <2>1. /\ rec[h] \in Records /\ rec[h].task \in Tasks /\ req[h].profile \in Profiles
        /\ req[h] \in AddRequests
    BY <1>3 DEF Refresh, TypeInv, ReqShape, Records, AddRequests
  <2>2. cloud[req[h].profile][rec[h].task] \in RawCodes
    BY <1>3, <2>1 DEF Refresh, TypeInv, TypeOK
  <2> DEFINE s == mapOfflineStatus(cloud[req[h].profile][rec[h].task])
  <2>3. /\ WithStatus(rec[h], s) \in Records
        /\ clientKey(WithStatus(rec[h], s)) = clientKey(rec[h])
    BY <2>1, <2>2, MapStatusType, WithStatusFacts
  <2>4. rec' = [rec EXCEPT ![h] = WithStatus(rec[h], s)]
    BY <1>3 DEF Refresh
  <2> HIDE DEF s
  <2>5. ReqShape(h)'
    BY <1>3, <2>3, <2>4 DEF Refresh, Goto, TypeInv, TypeOK, ReqShape, KeyOfRequest, clientKey
  <2>6. rec' \in [Handlers -> Records \cup {NoRecord}]
    BY <2>3, <2>4 DEF TypeInv, TypeOK
  <2>7. \A g \in Handlers : g # h => rec'[g] = rec[g]
    BY <2>4 DEF TypeInv, TypeOK
  <2> QED BY <1>0, <1>3, <2>5, <2>6, <2>7, GotoKeepsTypes
          DEF Refresh, TypeInv, TypeOK, PcValues
<1>4. CASE RefreshFailed(h)
  <2>1. req[h] \in AddRequests /\ rec[h].task \in Tasks
    BY <1>4 DEF RefreshFailed, TypeInv, ReqShape, Records
  <2> QED BY <1>0, <1>4, <2>1, AnswerTypes, ReturnKeepsTypes DEF RefreshFailed, TypeInv, TypeOK
<1>5. CASE RefreshSave(h)
  <2>1. req[h] \in AddRequests /\ rec[h] \in Records /\ rec[h].task \in Tasks
    BY <1>5 DEF RefreshSave, TypeInv, ReqShape, Records
  <2>2. StoreInv'
    BY <1>5, <2>1, TryUpdateKeepsInv DEF RefreshSave, TypeInv
  <2> QED BY <1>5, <2>1, <2>2, AnswerTypes, ReturnKeepsTypes DEF RefreshSave, TypeInv, TypeOK
<1>6. CASE Submit(h)
  <2>1. req[h] \in AddRequests
    BY <1>6 DEF Submit, Goto, TypeInv, ReqShape
  <2>2. ReqShape(h)'
    BY <1>6 DEF Submit, Goto, TypeInv, TypeOK, ReqShape
  <2> QED BY <1>0, <1>6, <2>1, <2>2, CloudAddTypes, GotoKeepsTypes
          DEF Submit, TypeInv, TypeOK, PcValues
<1>7. CASE SubmitFailed(h)
  BY <1>0, <1>7, ReturnKeepsTypes DEF SubmitFailed, TypeInv, TypeOK
<1>8. CASE SubmitLost(h)
  <2>1. req[h] \in AddRequests
    BY <1>8 DEF SubmitLost, TypeInv, ReqShape
  <2> QED BY <1>0, <1>8, <2>1, CloudAddTypes, ReturnKeepsTypes DEF SubmitLost, TypeInv, TypeOK
<1>9. CASE PutTask(h)
  <2>1. req[h] \in AddRequests /\ req[h].task \in Tasks
    BY <1>9 DEF PutTask, TypeInv, ReqShape, AddRequests
  <2>2. StoreInv'
    BY <1>9, <2>1, NewRecordFacts, TryPutKeepsInv DEF PutTask, TypeInv
  <2> QED BY <1>9, <2>1, <2>2, AnswerTypes, ReturnKeepsTypes DEF PutTask, TypeInv, TypeOK
<1> QED BY <1>1, <1>2, <1>3, <1>4, <1>5, <1>6, <1>7, <1>8, <1>9 DEF AddStep

LEMMA ReadKeepsTypes ==
    ASSUME TypeInv, NEW h \in Handlers, ReadStep(h)
    PROVE  TypeInv'
<1> USE DEF historyVars
<1>0. ASSUME UNCHANGED storeVars PROVE StoreInv'
  BY <1>0, UnchangedKeepsInv DEF TypeInv
<1>1. CASE Query(h)
  <2>1. req[h] \in IdRequests /\ req[h].profile \in Profiles /\ req[h].task \in Tasks
    BY <1>1 DEF Query, TypeInv, ReqShape, IdRequests
  <2>2. cloud[req[h].profile][req[h].task] \in RawCodes
    BY <1>1, <2>1 DEF Query, TypeInv, TypeOK
  <2>3. {<<req[h].task, mapOfflineStatus(cloud[req[h].profile][req[h].task])>>} \in SUBSET Reported
    BY <2>1, <2>2, MapStatusType DEF Reported
  <2>4. ReqShape(h)'
    BY <1>1, <2>1 DEF Query, Goto, TypeInv, TypeOK, ReqShape
  <2>5. todo' \in [Handlers -> SUBSET Reported]
    BY <1>1, <2>3 DEF Query, TypeInv, TypeOK
  <2> QED BY <1>0, <1>1, <2>4, <2>5, GotoKeepsTypes DEF Query, TypeInv, TypeOK, PcValues
<1>2. CASE QueryFailed(h)
  <2>1. ReqShape(h)'
    BY <1>2 DEF QueryFailed, Goto, TypeInv, TypeOK, ReqShape
  <2> QED BY <1>0, <1>2, <2>1, GotoKeepsTypes DEF QueryFailed, TypeInv, TypeOK, PcValues
<1>3. CASE Fallback(h)
  BY <1>0, <1>3, ReturnKeepsTypes DEF Fallback, TypeInv, TypeOK
<1>4. CASE ListPage(h)
  <2>1. req[h] \in ListRequests /\ req[h].profile \in Profiles
    BY <1>4 DEF ListPage, TypeInv, ReqShape, ListRequests
  <2>2. todo' \in [Handlers -> SUBSET Reported]
    <3>1. PICK page \in SUBSET {t \in Tasks : cloud[req[h].profile][t] # "absent"} :
              todo' = [todo EXCEPT ![h] =
                  {<<t, mapOfflineStatus(cloud[req[h].profile][t])>> : t \in page}]
      BY <1>4 DEF ListPage
    <3>2. \A t \in page : t \in Tasks /\ cloud[req[h].profile][t] \in RawCodes
      BY <2>1 DEF TypeInv, TypeOK
    <3>3. {<<t, mapOfflineStatus(cloud[req[h].profile][t])>> : t \in page} \in SUBSET Reported
      BY <3>2, MapStatusType DEF Reported
    <3> QED BY <3>1, <3>3 DEF TypeInv, TypeOK
  <2>3. ReqShape(h)'
    BY <1>4, <2>1 DEF ListPage, Goto, TypeInv, TypeOK, ReqShape
  <2> QED BY <1>0, <1>4, <2>2, <2>3, GotoKeepsTypes DEF ListPage, TypeInv, TypeOK, PcValues
<1>5. CASE ListNothing(h)
  BY <1>0, <1>5, ReturnKeepsTypes DEF ListNothing, TypeInv, TypeOK
<1>6. CASE StoredGet(h)
  <2>1. PICK x \in todo[h] :
          /\ Get(x[1]) # NoRecord
          /\ rec' = [rec EXCEPT ![h] = WithStatus(Get(x[1]), x[2])]
          /\ todo' = [todo EXCEPT ![h] = @ \ {x}]
    BY <1>6 DEF StoredGet
  <2>2. x[1] \in Tasks /\ x[2] \in Statuses
    BY MapStatusType DEF TypeInv, TypeOK, Reported
  <2>3. WithStatus(Get(x[1]), x[2]) \in Records
    BY <2>1, <2>2, StoredRecord, WithStatusFacts DEF Get, TypeInv
  <2>4. ReqShape(h)'
    BY <1>6, <2>1, <2>3 DEF StoredGet, Goto, TypeInv, TypeOK, ReqShape
  <2>5. todo' \in [Handlers -> SUBSET Reported] /\ rec' \in [Handlers -> Records \cup {NoRecord}]
    BY <2>1, <2>3 DEF TypeInv, TypeOK
  <2> QED BY <1>0, <1>6, <2>1, <2>4, <2>5, GotoKeepsTypes
          DEF StoredGet, TypeInv, TypeOK, PcValues
<1>7. CASE StoredSkip(h)
  <2>1. todo' \in [Handlers -> SUBSET Reported]
    BY <1>7 DEF StoredSkip, TypeInv, TypeOK
  <2>2. TypeOK'
    BY <1>0, <1>7, <2>1 DEF StoredSkip, TypeInv, TypeOK, StoreInv
  <2>3. \A g \in Handlers : ReqShape(g)'
    BY <1>7 DEF StoredSkip, TypeInv, ReqShape, clientKey, KeyOfRequest
  <2> QED BY <1>0, <1>7, <2>2, <2>3 DEF StoredSkip, TypeInv
<1>8. CASE StoredSave(h)
  <2>1. rec[h] \in Records
    BY <1>8 DEF StoredSave, Goto, TypeInv, ReqShape
  <2>2. StoreInv'
    BY <1>8, <2>1, TryUpdateKeepsInv DEF StoredSave, TypeInv
  <2>3. ReqShape(h)'
    BY <1>8 DEF StoredSave, Goto, TypeInv, TypeOK, ReqShape
  <2> QED BY <1>8, <2>2, <2>3, GotoKeepsTypes DEF StoredSave, TypeInv, TypeOK, PcValues
<1>9. CASE StoredDone(h)
  BY <1>0, <1>9, ReturnKeepsTypes DEF StoredDone, TypeInv, TypeOK
<1> QED BY <1>1, <1>2, <1>3, <1>4, <1>5, <1>6, <1>7, <1>8, <1>9 DEF ReadStep

LEMMA RemoveKeepsTypes ==
    ASSUME TypeInv, NEW h \in Handlers, RemoveStep(h)
    PROVE  TypeInv'
<1> USE DEF historyVars
<1>0. ASSUME UNCHANGED storeVars PROVE StoreInv'
  BY <1>0, UnchangedKeepsInv DEF TypeInv
<1>1. CASE Delete(h)
  <2>1. req[h] \in IdRequests /\ req[h].profile \in Profiles /\ req[h].task \in Tasks
    BY <1>1 DEF Delete, Goto, TypeInv, ReqShape, IdRequests
  <2>2. cloud' \in [Profiles -> [Tasks -> RawCodes \cup {"absent"}]]
    BY <1>1, <2>1 DEF Delete, TypeInv, TypeOK
  <2>3. ReqShape(h)'
    BY <1>1, <2>1 DEF Delete, Goto, TypeInv, TypeOK, ReqShape
  <2> QED BY <1>0, <1>1, <2>2, <2>3, GotoKeepsTypes DEF Delete, TypeInv, TypeOK, PcValues
<1>2. CASE DeleteFailed(h)
  <2>1. req[h].profile \in Profiles /\ req[h].task \in Tasks
    BY <1>2 DEF DeleteFailed, TypeInv, ReqShape, IdRequests
  <2>2. cloud' \in [Profiles -> [Tasks -> RawCodes \cup {"absent"}]]
    <3>1. CASE UNCHANGED cloud
      BY <3>1 DEF TypeInv, TypeOK
    <3>2. CASE cloud' = [cloud EXCEPT ![req[h].profile][req[h].task] = "absent"]
      BY <2>1, <3>2 DEF TypeInv, TypeOK
    <3> QED BY <1>2, <3>1, <3>2 DEF DeleteFailed
  <2> QED BY <1>0, <1>2, <2>2, ReturnKeepsTypes DEF DeleteFailed, TypeInv, TypeOK
<1>3. CASE CancelGet(h)
  <2>1. req[h] \in IdRequests /\ req[h].task \in Tasks
    BY <1>3 DEF CancelGet, TypeInv, ReqShape, IdRequests
  <2>2. WithStatus(Get(req[h].task), "canceled") \in Records
    BY <1>3, <2>1, StoredRecord, WithStatusFacts DEF CancelGet, Get, TypeInv, Statuses
  <2>3. /\ rec' = [rec EXCEPT ![h] = WithStatus(Get(req[h].task), "canceled")]
        /\ rec' \in [Handlers -> Records \cup {NoRecord}]
    BY <1>3, <2>2 DEF CancelGet, TypeInv, TypeOK
  <2>4. ReqShape(h)'
    BY <1>3, <2>1, <2>2, <2>3 DEF CancelGet, Goto, TypeInv, TypeOK, ReqShape
  <2>5. \A g \in Handlers : g # h => rec'[g] = rec[g]
    BY <2>3 DEF TypeInv, TypeOK
  <2> QED BY <1>0, <1>3, <2>3, <2>4, <2>5, GotoKeepsTypes
          DEF CancelGet, TypeInv, TypeOK, PcValues
<1>4. CASE CancelSkip(h)
  BY <1>0, <1>4, ReturnKeepsTypes DEF CancelSkip, TypeInv, TypeOK
<1>5. CASE CancelSave(h)
  <2>1. rec[h] \in Records
    BY <1>5 DEF CancelSave, TypeInv, ReqShape
  <2>2. StoreInv'
    BY <1>5, <2>1, TryUpdateKeepsInv DEF CancelSave, TypeInv
  <2> QED BY <1>5, <2>2, ReturnKeepsTypes DEF CancelSave, TypeInv, TypeOK
<1> QED BY <1>1, <1>2, <1>3, <1>4, <1>5 DEF RemoveStep

LEMMA EnvironmentKeepsTypes ==
    ASSUME TypeInv, CloudMoves \/ Crash
    PROVE  TypeInv'
<1> USE DEF historyVars
<1>1. CASE CloudMoves
  <2>1. StoreInv'
    BY <1>1, UnchangedKeepsInv DEF CloudMoves, TypeInv
  <2>2. cloud' \in [Profiles -> [Tasks -> RawCodes \cup {"absent"}]]
    <3>1. PICK p \in Profiles, t \in Tasks, step \in CloudSteps :
              cloud' = [cloud EXCEPT ![p][t] = step[2]]
      BY <1>1 DEF CloudMoves
    <3>2. step[2] \in RawCodes
      BY CloudAssumption
    <3>3. [cloud[p] EXCEPT ![t] = step[2]] \in [Tasks -> RawCodes \cup {"absent"}]
      BY <3>2 DEF TypeInv, TypeOK
    <3> QED BY <3>1, <3>3 DEF TypeInv, TypeOK
  <2>3. TypeOK'
    BY <1>1, <2>1, <2>2 DEF CloudMoves, TypeInv, TypeOK, StoreInv
  <2>4. \A g \in Handlers : ReqShape(g)'
    BY <1>1 DEF CloudMoves, TypeInv, ReqShape, clientKey, KeyOfRequest
  <2> QED BY <2>1, <2>3, <2>4 DEF TypeInv
<1>2. CASE Crash
  <2>1. StoreInv'
    BY <1>2, RestartKeepsInv DEF Crash, TypeInv
  <2>2. TypeOK'
    BY <1>2, <2>1, FaultsAssumption DEF Crash, TypeInv, TypeOK, StoreInv, PcValues
  <2>3. \A g \in Handlers : ReqShape(g)'
    BY <1>2 DEF Crash, ReqShape
  <2> QED BY <2>1, <2>2, <2>3 DEF TypeInv
<1> QED BY <1>1, <1>2

LEMMA InitTypes == Init => TypeInv
<1> SUFFICES ASSUME Init PROVE TypeInv
  OBVIOUS
<1>1. StoreInv
  BY EmptyStoreInv DEF Init
<1>2. TypeOK
  BY <1>1, FaultsAssumption DEF Init, TypeOK, StoreInv, PcValues
<1>3. \A h \in Handlers : ReqShape(h)
  BY DEF Init, ReqShape
<1> QED BY <1>1, <1>2, <1>3 DEF TypeInv

LEMMA StutterTypes == TypeInv /\ UNCHANGED vars => TypeInv'
<1> SUFFICES ASSUME TypeInv, UNCHANGED vars PROVE TypeInv'
  OBVIOUS
<1>1. StoreInv'
  BY UnchangedKeepsInv DEF TypeInv, vars, storeVars
<1>2. TypeOK'
  BY <1>1 DEF vars, TypeInv, TypeOK, StoreInv
<1>3. \A h \in Handlers : ReqShape(h)'
  BY DEF vars, TypeInv, ReqShape, clientKey, KeyOfRequest
<1> QED BY <1>1, <1>2, <1>3 DEF TypeInv

(* The handlers' variables keep their types, and whatever they do together *)
(* the record store stays sound: for all interleavings of AddOfflineTask,  *)
(* GetOfflineTask, RemoveOfflineTask and ListOfflineTasks, with faults and *)
(* restarts.                                                               *)
THEOREM TaskTyping == Spec => []TypeInv
<1>1. TypeInv /\ [Next]_vars => TypeInv'
  BY ArriveKeepsTypes, LockKeepsTypes, AddKeepsTypes, ReadKeepsTypes, RemoveKeepsTypes,
     EnvironmentKeepsTypes, StutterTypes DEF Next, Step
<1> QED BY InitTypes, <1>1, PTL DEF Spec

(* Type correctness on its own.                                            *)
THEOREM TypeCorrect == Spec => []TypeOK
<1>1. TypeInv => TypeOK
  BY DEF TypeInv
<1> QED BY TaskTyping, <1>1, PTL

(* An index entry that the handlers follow leads to a record of its key.   *)
THEOREM IndexStaysSound == Spec => []IndexSound
<1>1. TypeInv => IndexSound
  BY DEF TypeInv, StoreInv
<1> QED BY TaskTyping, <1>1, PTL

-----------------------------------------------------------------------------
(* Who holds idempotencyMu                                                 *)

MutexInv == TypeInv /\ MutexHeldByAdd

LEMMA ReturnKeepsMutex ==
    ASSUME MutexInv, NEW h \in Handlers, Return(h)
    PROVE  MutexHeldByAdd'
  BY HandlersAssumption
     DEF MutexInv, TypeInv, TypeOK, MutexHeldByAdd, Return, Critical, HasClient

(* A step in or out of the critical section goes with the mutex.           *)
LEMMA GotoKeepsMutex ==
    ASSUME MutexInv, NEW h \in Handlers, UNCHANGED <<mutex, req>>,
           NEW from, NEW to, Goto(h, from, to),
           \/ {from, to} \subseteq {"lookup", "refresh", "refreshSave"}
           \/ from = "lookup" /\ to = "submit" /\ HasClient(req[h])
           \/ from = "submit" /\ to = "put"
           \/ from \notin {"lookup", "refresh", "refreshSave", "submit", "put"}
              /\ to \notin {"lookup", "refresh", "refreshSave", "submit", "put"}
    PROVE  MutexHeldByAdd'
<1>1. \A g \in Handlers \ {h} : Critical(g)' <=> Critical(g)
  BY DEF Goto, Critical, HasClient, MutexInv, TypeInv, TypeOK
<1>2. pc[h] = from /\ pc'[h] = to /\ req'[h] = req[h]
  BY DEF Goto, MutexInv, TypeInv, TypeOK
<1>3. Critical(h)' <=> Critical(h)
  BY <1>2 DEF Critical, HasClient
<1> QED BY <1>1, <1>3 DEF MutexInv, MutexHeldByAdd

LEMMA ArriveKeepsMutex ==
    ASSUME MutexInv, NEW h \in Handlers, Arrive(h)
    PROVE  MutexHeldByAdd'
<1>1. PICK r, first :
          /\ Accept(h, r, first)
          /\ first \in {"lock", "query", "delete", "list"} \/ (first = "submit" /\ ~HasClient(r))
  BY DEF Arrive, AcceptAdd, AcceptGet, AcceptRemove, AcceptList
<1>2. /\ pc[h] = "idle" /\ pc'[h] = first /\ req'[h] = r /\ mutex' = mutex
      /\ \A g \in Handlers \ {h} : pc'[g] = pc[g] /\ req'[g] = req[g]
  BY <1>1 DEF Accept, Goto, MutexInv, TypeInv, TypeOK
<1>3. \A g \in Handlers \ {h} : Critical(g)' <=> Critical(g)
  BY <1>2 DEF Critical, HasClient
<1>4. ~Critical(h) /\ ~Critical(h)'
  BY <1>1, <1>2 DEF Critical, HasClient
<1> QED BY <1>2, <1>3, <1>4 DEF MutexInv, MutexHeldByAdd

LEMMA LockKeepsMutex ==
    ASSUME MutexInv, NEW h \in Handlers, Lock(h)
    PROVE  MutexHeldByAdd'
<1>1. /\ mutex = NoHandler /\ mutex' = h /\ pc'[h] = "lookup"
      /\ \A g \in Handlers \ {h} : pc'[g] = pc[g] /\ req'[g] = req[g]
  BY DEF Lock, Goto, MutexInv, TypeInv, TypeOK
<1>2. \A g \in Handlers : ~Critical(g)
  BY <1>1, HandlersAssumption DEF MutexInv, MutexHeldByAdd
<1>3. Critical(h)' /\ \A g \in Handlers \ {h} : ~Critical(g)'
  BY <1>1, <1>2 DEF Critical, HasClient
<1> QED BY <1>1, <1>3 DEF MutexHeldByAdd

LEMMA AddKeepsMutex ==
    ASSUME MutexInv, NEW h \in Handlers, AddStep(h)
    PROVE  MutexHeldByAdd'
<1>1. CASE Return(h)
  BY <1>1, ReturnKeepsMutex
<1>2. CASE LookupHit(h)
  BY <1>2, GotoKeepsMutex DEF LookupHit
<1>3. CASE LookupMiss(h)
  <2>1. HasClient(req[h])
    BY <1>3, NullsAssumption DEF LookupMiss, MutexInv, TypeInv, ReqShape, HasClient
  <2> QED BY <1>3, <2>1, GotoKeepsMutex DEF LookupMiss
<1>4. CASE Refresh(h)
  BY <1>4, GotoKeepsMutex DEF Refresh
<1>5. CASE Submit(h)
  BY <1>5, GotoKeepsMutex DEF Submit
<1> QED BY <1>1, <1>2, <1>3, <1>4, <1>5
        DEF AddStep, RefreshFailed, RefreshSave, SubmitFailed, SubmitLost, PutTask

LEMMA OthersKeepMutex ==
    ASSUME MutexInv, NEW h \in Handlers, ReadStep(h) \/ RemoveStep(h)
    PROVE  MutexHeldByAdd'
<1>1. CASE Return(h)
  BY <1>1, ReturnKeepsMutex
<1>2. CASE Query(h) \/ QueryFailed(h) \/ ListPage(h)
  BY <1>2, GotoKeepsMutex DEF Query, QueryFailed, ListPage
<1>3. CASE StoredGet(h) \/ StoredSave(h)
  BY <1>3, GotoKeepsMutex DEF StoredGet, StoredSave
<1>4. CASE Delete(h) \/ CancelGet(h)
  BY <1>4, GotoKeepsMutex DEF Delete, CancelGet
<1>5. CASE StoredSkip(h)
  BY <1>5 DEF StoredSkip, MutexInv, MutexHeldByAdd, Critical, HasClient
<1> QED BY <1>1, <1>2, <1>3, <1>4, <1>5
        DEF ReadStep, RemoveStep, Fallback, ListNothing, StoredDone, DeleteFailed, CancelSkip,
            CancelSave

(* Mutual exclusion, and that no return path, no failure and no restart    *)
(* leaves idempotencyMu behind, for any number of handlers and both        *)
(* backends: a waiting Add waits for one that is under way.                *)
THEOREM MutexGivenBack == Spec => []MutexHeldByAdd
<1>1. Init => MutexHeldByAdd
  BY HandlersAssumption DEF Init, MutexHeldByAdd, Critical
<1>2. TypeInv /\ MutexHeldByAdd /\ [Next]_vars => MutexHeldByAdd'
  <2> SUFFICES ASSUME MutexInv, [Next]_vars PROVE MutexHeldByAdd'
    BY DEF MutexInv
  <2>1. CASE Crash
    BY <2>1, HandlersAssumption DEF Crash, MutexHeldByAdd, Critical
  <2>2. CASE CloudMoves \/ UNCHANGED vars
    BY <2>2 DEF CloudMoves, vars, MutexInv, MutexHeldByAdd, Critical, HasClient
  <2> QED BY <2>1, <2>2, ArriveKeepsMutex, LockKeepsMutex, AddKeepsMutex, OthersKeepMutex
          DEF Next, Step
<1> QED BY TaskTyping, <1>1, <1>2, PTL DEF Spec

-----------------------------------------------------------------------------
(* Ownership: a record's key has submitted the record's task.              *)

Owned(r) == clientKey(r) \in Keys => issued[clientKey(r)][r.task] > 0

OwnStore == \A t \in Tasks : byTask[t] # NoRecord => Owned(byTask[t])

OwnLocal(h) ==
    /\ pc[h] \in {"refresh", "refreshSave", "storedSave", "cancelSave"} => Owned(rec[h])
    /\ pc[h] = "put" /\ HasClient(req[h])
          => issued[KeyOfRequest(req[h])][req[h].task] > 0

OwnInv ==
    /\ TypeInv
    /\ OwnStore
    /\ \A h \in Handlers : OwnLocal(h)
    /\ AnsweredOwn

(* Submissions are only ever counted up.                                   *)
IssuedKept == \A k \in Keys, t \in Tasks : issued[k][t] > 0 => issued'[k][t] > 0

LEMMA CloudAddIssues ==
    ASSUME TypeInv, NEW r \in AddRequests, CloudAdd(r)
    PROVE  /\ IssuedKept
           /\ HasClient(r) => issued'[KeyOfRequest(r)][r.task] > 0
<1>1. r.task \in Tasks /\ issued \in [Keys -> [Tasks -> 0..2]]
  BY DEF AddRequests, TypeInv, TypeOK
<1>2. CASE HasClient(r)
  <2> DEFINE k == KeyOfRequest(r)
  <2>1. k \in Keys
    BY <1>2, RequestKeyFacts
  <2>2. issued' = [issued EXCEPT ![k][r.task] = IF @ < 2 THEN @ + 1 ELSE 2]
    BY <1>2 DEF CloudAdd
  <2> HIDE DEF k
  <2>3. issued[k][r.task] \in 0..2
    BY <1>1, <2>1
  <2>4. issued'[k][r.task] = IF issued[k][r.task] < 2 THEN issued[k][r.task] + 1 ELSE 2
    BY <1>1, <2>1, <2>2
  <2>5. \A j \in Keys, t \in Tasks : j # k \/ t # r.task => issued'[j][t] = issued[j][t]
    BY <1>1, <2>1, <2>2
  <2> QED BY <2>1, <2>3, <2>4, <2>5 DEF IssuedKept, k
<1>3. CASE ~HasClient(r)
  BY <1>3 DEF CloudAdd, IssuedKept
<1> QED BY <1>2, <1>3

LEMMA SameIssuedKept == UNCHANGED issued => IssuedKept
  BY DEF IssuedKept

(* What a store call leaves under each task: the old record or the new one.*)
LEMMA WriteFacts ==
    ASSUME TypeInv, NEW r \in Records, TryPut(r) \/ TryUpdate(r), NEW t \in Tasks
    PROVE  byTask'[t] = byTask[t] \/ (t = r.task /\ byTask'[t] = r)
  BY KeyFacts
  DEF TryPut, TryUpdate, Put, Update, save, Upsert, migrate, EmptyStore, putLocked, storeVars,
      TypeInv, StoreInv, StoreTypeOK

LEMMA WriteKeepsOwnStore ==
    ASSUME TypeInv, OwnStore, IssuedKept, NEW r \in Records, Owned(r),
           TryPut(r) \/ TryUpdate(r)
    PROVE  OwnStore'
<1> SUFFICES ASSUME NEW t \in Tasks, byTask'[t] # NoRecord PROVE Owned(byTask[t])'
  BY DEF OwnStore
<1>1. CASE byTask'[t] = byTask[t]
  <2>1. byTask[t] \in Records /\ Owned(byTask[t])
    BY <1>1 DEF OwnStore, TypeInv, StoreInv, StoreTypeOK
  <2>2. (byTask[t])' = byTask[t]
    BY <1>1
  <2> QED BY <2>1, <2>2 DEF IssuedKept, Owned, clientKey, Records
<1>2. CASE byTask'[t] = r
  BY <1>2 DEF IssuedKept, Owned, clientKey, Records
<1> QED BY <1>1, <1>2, WriteFacts

LEMMA QuietKeepsOwnStore ==
    ASSUME TypeInv, OwnStore, IssuedKept, UNCHANGED storeVars
    PROVE  OwnStore'
  BY DEF OwnStore, IssuedKept, Owned, clientKey, Records, storeVars,
         TypeInv, StoreInv, StoreTypeOK

(* Handlers other than the one that steps keep what they hold.             *)
LEMMA OthersOwnLocal ==
    ASSUME TypeInv, IssuedKept, NEW g \in Handlers, OwnLocal(g),
           pc'[g] = pc[g], req'[g] = req[g], rec'[g] = rec[g]
    PROVE  OwnLocal(g)'
<1>1. CASE pc[g] \in {"refresh", "refreshSave", "storedSave", "cancelSave"}
  <2>1. rec[g] \in Records
    BY <1>1 DEF TypeInv, ReqShape
  <2> QED BY <1>1, <2>1 DEF OwnLocal, IssuedKept, Owned, clientKey, Records
<1>2. CASE pc[g] = "put"
  <2>1. req[g] \in AddRequests
    BY <1>2 DEF TypeInv, ReqShape
  <2>2. HasClient(req[g]) => KeyOfRequest(req[g]) \in Keys /\ req[g].task \in Tasks
    BY <2>1, RequestKeyFacts DEF AddRequests
  <2> QED BY <1>2, <2>2 DEF OwnLocal, IssuedKept, HasClient, KeyOfRequest
<1>3. CASE pc[g] \notin {"refresh", "refreshSave", "storedSave", "cancelSave", "put"}
  BY <1>3 DEF OwnLocal
<1> QED BY <1>1, <1>2, <1>3

LEMMA SameAnswersOwn ==
    ASSUME TypeInv, AnsweredOwn, IssuedKept, UNCHANGED answered
    PROVE  AnsweredOwn'
  BY DEF AnsweredOwn, IssuedKept, TypeInv, TypeOK

LEMMA NewAnswerOwn ==
    ASSUME TypeInv, AnsweredOwn, UNCHANGED issued, NEW r \in AddRequests, NEW t \in Tasks,
           AnswerAdd(r, t), HasClient(r) => issued[KeyOfRequest(r)][t] > 0
    PROVE  AnsweredOwn'
  BY RequestKeyFacts DEF AnsweredOwn, AnswerAdd, TypeInv, TypeOK

(* The step of one handler: its own part is shown by the caller.           *)
LEMMA HandlerKeepsOwn ==
    ASSUME OwnInv, IssuedKept, NEW h \in Handlers, TypeInv', OwnStore', OwnLocal(h)',
           AnsweredOwn',
           \A g \in Handlers \ {h} :
               pc'[g] = pc[g] /\ req'[g] = req[g] /\ rec'[g] = rec[g]
    PROVE  OwnInv'
<1>1. \A g \in Handlers \ {h} : OwnLocal(g)'
  BY OthersOwnLocal DEF OwnInv
<1> QED BY <1>1 DEF OwnInv

LEMMA ReturnKeepsOwn ==
    ASSUME OwnInv, IssuedKept, NEW h \in Handlers, TypeInv', OwnStore', AnsweredOwn',
           Return(h)
    PROVE  OwnInv'
<1>1. OwnLocal(h)'
  BY DEF Return, OwnLocal, OwnInv, TypeInv, TypeOK
<1>2. \A g \in Handlers \ {h} :
          pc'[g] = pc[g] /\ req'[g] = req[g] /\ rec'[g] = rec[g]
  BY DEF Return, OwnInv, TypeInv, TypeOK
<1> QED BY <1>1, <1>2, HandlerKeepsOwn

(* A handler moves on without reading a record.                            *)
LEMMA GotoKeepsOwn ==
    ASSUME OwnInv, IssuedKept, NEW h \in Handlers, TypeInv', UNCHANGED <<storeVars, answered>>,
           NEW from, NEW to,
           Goto(h, from, to), OwnLocal(h)',
           \A g \in Handlers \ {h} : req'[g] = req[g] /\ rec'[g] = rec[g]
    PROVE  OwnInv'
<1>1. OwnStore' /\ AnsweredOwn'
  BY QuietKeepsOwnStore, SameAnswersOwn DEF OwnInv
<1>2. \A g \in Handlers \ {h} : pc'[g] = pc[g]
  BY DEF Goto, OwnInv, TypeInv, TypeOK
<1> QED BY <1>1, <1>2, HandlerKeepsOwn

LEMMA ArriveKeepsOwn ==
    ASSUME OwnInv, NEW h \in Handlers, Arrive(h)
    PROVE  OwnInv'
<1>1. TypeInv'
  BY ArriveKeepsTypes DEF OwnInv
<1>2. ASSUME NEW r, NEW first, Accept(h, r, first),
             first \in {"lock", "submit", "query", "delete", "list"}
      PROVE  OwnInv'
  <2>1. OwnLocal(h)'
    BY <1>2 DEF Accept, Goto, OwnLocal, OwnInv, TypeInv, TypeOK
  <2>2. IssuedKept
    BY <1>2, SameIssuedKept DEF Accept, historyVars
  <2>3. \A g \in Handlers \ {h} : req'[g] = req[g] /\ rec'[g] = rec[g]
    BY <1>2 DEF Accept, OwnInv, TypeInv, TypeOK
  <2> QED BY <1>1, <1>2, <2>1, <2>2, <2>3, GotoKeepsOwn DEF Accept, historyVars
<1> QED BY <1>2 DEF Arrive, AcceptAdd, AcceptGet, AcceptRemove, AcceptList

LEMMA AddKeepsOwn ==
    ASSUME OwnInv, NEW h \in Handlers, Lock(h) \/ AddStep(h)
    PROVE  OwnInv'
<1> USE DEF historyVars
<1>0. TypeInv /\ TypeInv'
  BY AddKeepsTypes, LockKeepsTypes DEF OwnInv
<1>1. CASE Lock(h)
  <2>1. OwnLocal(h)'
    BY <1>0, <1>1 DEF Lock, Goto, OwnLocal, TypeInv, TypeOK
  <2> QED BY <1>0, <1>1, <2>1, GotoKeepsOwn, SameIssuedKept DEF Lock
<1>2. CASE LookupHit(h)
  <2> DEFINE found == GetByClientTask(KeyOfRequest(req[h]))
  <2>1. /\ found # NoRecord
        /\ rec' = [rec EXCEPT ![h] = found]
        /\ Goto(h, "lookup", "refresh")
        /\ UNCHANGED <<storeVars, issued, answered, req>>
    BY <1>2 DEF LookupHit
  <2>2. KeyOfRequest(req[h]) \in Keys
    BY <1>0, <2>1, RequestKeyFacts DEF Goto, TypeInv, ReqShape, AddRequests, Keys, KeyOfRequest
  <2>3. \E t \in Tasks : byTask[t] # NoRecord /\ found = byTask[t]
    BY <1>0, <2>1, <2>2 DEF GetByClientTask, TypeInv, StoreInv, StoreTypeOK
  <2>4. Owned(found)
    BY <2>3 DEF OwnInv, OwnStore
  <2> HIDE DEF found
  <2>5. rec'[h] = found /\ pc'[h] = "refresh"
    BY <1>0, <2>1 DEF Goto, TypeInv, TypeOK
  <2>6. OwnLocal(h)'
    BY <2>1, <2>4, <2>5 DEF OwnLocal, Owned, clientKey
  <2>7. \A g \in Handlers \ {h} : req'[g] = req[g] /\ rec'[g] = rec[g]
    BY <1>0, <2>1 DEF TypeInv, TypeOK
  <2> QED BY <1>0, <2>1, <2>6, <2>7, GotoKeepsOwn, SameIssuedKept
<1>3. CASE LookupMiss(h)
  <2>1. OwnLocal(h)'
    BY <1>0, <1>3 DEF LookupMiss, Goto, OwnLocal, TypeInv, TypeOK
  <2> QED BY <1>0, <1>3, <2>1, GotoKeepsOwn, SameIssuedKept DEF LookupMiss
<1>4. CASE Refresh(h)
  <2> DEFINE s == mapOfflineStatus(cloud[req[h].profile][rec[h].task])
  <2>1. /\ pc[h] = "refresh"
        /\ rec' = [rec EXCEPT ![h] = WithStatus(rec[h], s)]
        /\ Goto(h, "refresh", "refreshSave")
        /\ UNCHANGED <<storeVars, issued, answered, req>>
    BY <1>4 DEF Refresh
  <2> HIDE DEF s
  <2>2. rec[h] \in Records /\ Owned(rec[h])
    BY <1>0, <2>1 DEF TypeInv, ReqShape, OwnInv, OwnLocal
  <2>3. rec'[h] = WithStatus(rec[h], s) /\ pc'[h] = "refreshSave"
    BY <1>0, <2>1 DEF Goto, TypeInv, TypeOK
  <2>4. OwnLocal(h)'
    BY <2>1, <2>2, <2>3 DEF OwnLocal, Owned, clientKey, WithStatus, Records
  <2>5. \A g \in Handlers \ {h} : req'[g] = req[g] /\ rec'[g] = rec[g]
    BY <1>0, <2>1 DEF TypeInv, TypeOK
  <2> QED BY <1>0, <2>1, <2>4, <2>5, GotoKeepsOwn, SameIssuedKept
<1>5. ASSUME pc[h] \in {"refresh", "refreshSave"}
      PROVE  /\ req[h] \in AddRequests
             /\ rec[h] \in Records /\ rec[h].task \in Tasks
             /\ Owned(rec[h])
             /\ HasClient(req[h]) => issued[KeyOfRequest(req[h])][rec[h].task] > 0
  <2>1. /\ req[h] \in AddRequests /\ rec[h] \in Records /\ Owned(rec[h])
        /\ clientKey(rec[h]) = KeyOfRequest(req[h])
    BY <1>0, <1>5 DEF TypeInv, ReqShape, OwnInv, OwnLocal
  <2> QED BY <2>1, RequestKeyFacts, KeyFacts DEF Owned
<1>6. CASE RefreshFailed(h)
  BY <1>0, <1>5, <1>6, NewAnswerOwn, QuietKeepsOwnStore, SameIssuedKept, ReturnKeepsOwn
  DEF RefreshFailed, OwnInv
<1>7. CASE RefreshSave(h)
  BY <1>0, <1>5, <1>7, NewAnswerOwn, WriteKeepsOwnStore, SameIssuedKept, ReturnKeepsOwn
  DEF RefreshSave, OwnInv
<1>8. CASE Submit(h)
  <2>1. /\ req[h] \in AddRequests
        /\ IssuedKept
        /\ HasClient(req[h]) => issued'[KeyOfRequest(req[h])][req[h].task] > 0
    BY <1>0, <1>8, CloudAddIssues DEF Submit, Goto, TypeInv, ReqShape
  <2>2. OwnLocal(h)'
    BY <1>0, <1>8, <2>1
    DEF Submit, Goto, OwnLocal, HasClient, KeyOfRequest, TypeInv, TypeOK
  <2> QED BY <1>0, <1>8, <2>1, <2>2, GotoKeepsOwn DEF Submit
<1>9. CASE SubmitFailed(h)
  BY <1>0, <1>9, SameAnswersOwn, QuietKeepsOwnStore, SameIssuedKept, ReturnKeepsOwn
  DEF SubmitFailed, OwnInv
<1>10. CASE SubmitLost(h)
  <2>1. IssuedKept
    BY <1>0, <1>10, CloudAddIssues DEF SubmitLost, TypeInv, ReqShape
  <2> QED BY <1>0, <1>10, <2>1, SameAnswersOwn, QuietKeepsOwnStore, ReturnKeepsOwn
          DEF SubmitLost, OwnInv
<1>11. CASE PutTask(h)
  <2>1. /\ req[h] \in AddRequests /\ req[h].task \in Tasks
        /\ HasClient(req[h]) => issued[KeyOfRequest(req[h])][req[h].task] > 0
    BY <1>0, <1>11 DEF PutTask, TypeInv, ReqShape, OwnInv, OwnLocal, AddRequests
  <2>2. NewRecord(req[h]) \in Records /\ Owned(NewRecord(req[h]))
    BY <2>1, NewRecordFacts, RequestKeyFacts DEF Owned
  <2> QED BY <1>0, <1>11, <2>1, <2>2, NewAnswerOwn, WriteKeepsOwnStore, SameIssuedKept,
             ReturnKeepsOwn DEF PutTask, OwnInv
<1> QED BY <1>1, <1>2, <1>3, <1>4, <1>6, <1>7, <1>8, <1>9, <1>10, <1>11 DEF AddStep

(* A record read by task id and given another status keeps its owner.      *)
LEMMA StoredRecordOwned ==
    ASSUME OwnInv, NEW t \in Tasks, NEW s \in Statuses, Get(t) # NoRecord
    PROVE  Owned(WithStatus(Get(t), s))
<1>1. Get(t) \in Records /\ Owned(Get(t))
  BY StoredRecord DEF Get, OwnInv, OwnStore, TypeInv
<1> QED BY <1>1, WithStatusFacts DEF Owned

LEMMA ReadKeepsOwn ==
    ASSUME OwnInv, NEW h \in Handlers, ReadStep(h)
    PROVE  OwnInv'
<1> USE DEF historyVars
<1>0. TypeInv /\ TypeInv' /\ (UNCHANGED issued => IssuedKept)
  BY ReadKeepsTypes, SameIssuedKept DEF OwnInv
<1>1. CASE Query(h)
  <2>1. OwnLocal(h)'
    BY <1>0, <1>1 DEF Query, Goto, OwnLocal, TypeInv, TypeOK
  <2> QED BY <1>0, <1>1, <2>1, GotoKeepsOwn DEF Query
<1>2. CASE QueryFailed(h)
  <2>1. OwnLocal(h)'
    BY <1>0, <1>2 DEF QueryFailed, Goto, OwnLocal, TypeInv, TypeOK
  <2> QED BY <1>0, <1>2, <2>1, GotoKeepsOwn DEF QueryFailed
<1>3. CASE Fallback(h)
  BY <1>0, <1>3, SameAnswersOwn, QuietKeepsOwnStore, ReturnKeepsOwn DEF Fallback, OwnInv
<1>4. CASE ListPage(h)
  <2>1. OwnLocal(h)'
    BY <1>0, <1>4 DEF ListPage, Goto, OwnLocal, TypeInv, TypeOK
  <2> QED BY <1>0, <1>4, <2>1, GotoKeepsOwn DEF ListPage
<1>5. CASE ListNothing(h)
  BY <1>0, <1>5, SameAnswersOwn, QuietKeepsOwnStore, ReturnKeepsOwn DEF ListNothing, OwnInv
<1>6. CASE StoredGet(h)
  <2>1. PICK x \in todo[h] :
          /\ Get(x[1]) # NoRecord
          /\ rec' = [rec EXCEPT ![h] = WithStatus(Get(x[1]), x[2])]
    BY <1>6 DEF StoredGet
  <2>2. x[1] \in Tasks /\ x[2] \in Statuses
    BY <1>0, MapStatusType DEF TypeInv, TypeOK, Reported
  <2>3. Owned(WithStatus(Get(x[1]), x[2]))
    BY <2>1, <2>2, StoredRecordOwned
  <2>4. /\ rec'[h] = WithStatus(Get(x[1]), x[2])
        /\ \A g \in Handlers \ {h} : rec'[g] = rec[g]
    BY <1>0, <2>1 DEF TypeInv, TypeOK
  <2>5. pc'[h] = "storedSave" /\ UNCHANGED <<issued, req>>
    BY <1>0, <1>6 DEF StoredGet, Goto, TypeInv, TypeOK
  <2>6. OwnLocal(h)'
    BY <2>3, <2>4, <2>5 DEF OwnLocal, Owned, clientKey
  <2> QED BY <1>0, <1>6, <2>4, <2>6, GotoKeepsOwn DEF StoredGet
<1>7. CASE StoredSkip(h)
  <2>1. OwnLocal(h)'
    BY <1>0, <1>7 DEF StoredSkip, OwnLocal, TypeInv, TypeOK
  <2> QED BY <1>0, <1>7, <2>1, QuietKeepsOwnStore, SameAnswersOwn, HandlerKeepsOwn
          DEF StoredSkip, OwnInv
<1>8. CASE StoredSave(h)
  <2>1. rec[h] \in Records /\ Owned(rec[h])
    BY <1>0, <1>8 DEF StoredSave, Goto, TypeInv, ReqShape, OwnInv, OwnLocal
  <2>2. OwnStore' /\ AnsweredOwn'
    BY <1>0, <1>8, <2>1, WriteKeepsOwnStore, SameAnswersOwn DEF StoredSave, OwnInv
  <2>3. OwnLocal(h)'
    BY <1>0, <1>8 DEF StoredSave, Goto, OwnLocal, TypeInv, TypeOK
  <2>4. \A g \in Handlers \ {h} : pc'[g] = pc[g] /\ req'[g] = req[g] /\ rec'[g] = rec[g]
    BY <1>0, <1>8 DEF StoredSave, Goto, TypeInv, TypeOK
  <2> QED BY <1>0, <1>8, <2>2, <2>3, <2>4, HandlerKeepsOwn DEF StoredSave
<1>9. CASE StoredDone(h)
  BY <1>0, <1>9, SameAnswersOwn, QuietKeepsOwnStore, ReturnKeepsOwn DEF StoredDone, OwnInv
<1> QED BY <1>1, <1>2, <1>3, <1>4, <1>5, <1>6, <1>7, <1>8, <1>9 DEF ReadStep

LEMMA RemoveKeepsOwn ==
    ASSUME OwnInv, NEW h \in Handlers, RemoveStep(h)
    PROVE  OwnInv'
<1> USE DEF historyVars
<1>0. TypeInv /\ TypeInv' /\ (UNCHANGED issued => IssuedKept)
  BY RemoveKeepsTypes, SameIssuedKept DEF OwnInv
<1>1. CASE Delete(h)
  <2>1. OwnLocal(h)'
    BY <1>0, <1>1 DEF Delete, Goto, OwnLocal, TypeInv, TypeOK
  <2> QED BY <1>0, <1>1, <2>1, GotoKeepsOwn DEF Delete
<1>2. CASE DeleteFailed(h)
  BY <1>0, <1>2, SameAnswersOwn, QuietKeepsOwnStore, ReturnKeepsOwn DEF DeleteFailed, OwnInv
<1>3. CASE CancelGet(h)
  <2> DEFINE r == WithStatus(Get(req[h].task), "canceled")
  <2>1. /\ req[h].task \in Tasks
        /\ Get(req[h].task) # NoRecord
        /\ rec' = [rec EXCEPT ![h] = r]
    BY <1>0, <1>3 DEF CancelGet, TypeInv, ReqShape, IdRequests
  <2>2. Owned(r)
    BY <2>1, StoredRecordOwned DEF Statuses
  <2> HIDE DEF r
  <2>3. rec'[h] = r /\ \A g \in Handlers \ {h} : rec'[g] = rec[g]
    BY <1>0, <2>1 DEF TypeInv, TypeOK
  <2>4. pc'[h] = "cancelSave" /\ UNCHANGED <<issued, req>>
    BY <1>0, <1>3 DEF CancelGet, Goto, TypeInv, TypeOK
  <2>5. OwnLocal(h)'
    BY <2>2, <2>3, <2>4 DEF OwnLocal, Owned, clientKey
  <2> QED BY <1>0, <1>3, <2>3, <2>5, GotoKeepsOwn DEF CancelGet
<1>4. CASE CancelSkip(h)
  BY <1>0, <1>4, SameAnswersOwn, QuietKeepsOwnStore, ReturnKeepsOwn DEF CancelSkip, OwnInv
<1>5. CASE CancelSave(h)
  <2>1. rec[h] \in Records /\ Owned(rec[h])
    BY <1>0, <1>5 DEF CancelSave, TypeInv, ReqShape, OwnInv, OwnLocal
  <2> QED BY <1>0, <1>5, <2>1, SameAnswersOwn, WriteKeepsOwnStore, ReturnKeepsOwn
          DEF CancelSave, OwnInv
<1> QED BY <1>1, <1>2, <1>3, <1>4, <1>5 DEF RemoveStep

LEMMA EnvironmentKeepsOwn ==
    ASSUME OwnInv, CloudMoves \/ Crash
    PROVE  OwnInv'
<1> USE DEF historyVars
<1>0. TypeInv /\ TypeInv' /\ IssuedKept
  BY EnvironmentKeepsTypes, SameIssuedKept DEF OwnInv, CloudMoves, Crash
<1>1. CASE CloudMoves
  <2>1. OwnStore' /\ AnsweredOwn'
    BY <1>0, <1>1, QuietKeepsOwnStore, SameAnswersOwn DEF OwnInv, CloudMoves
  <2>2. \A g \in Handlers : OwnLocal(g)'
    BY <1>0, <1>1, OthersOwnLocal DEF OwnInv, CloudMoves
  <2> QED BY <1>0, <2>1, <2>2 DEF OwnInv
<1>2. CASE Crash
  <2>1. OwnStore'
    <3>1. CASE UNCHANGED storeVars
      BY <1>0, <3>1, QuietKeepsOwnStore DEF OwnInv
    <3>2. CASE byTask' = [t \in Tasks |-> NoRecord]
      BY <3>2 DEF OwnStore
    <3> QED BY <1>2, <3>1, <3>2 DEF Crash, StoreRestart, migrate, EmptyStore
  <2>2. AnsweredOwn'
    BY <1>0, <1>2, SameAnswersOwn DEF OwnInv, Crash
  <2>3. \A g \in Handlers : OwnLocal(g)'
    BY <1>2 DEF Crash, OwnLocal
  <2> QED BY <1>0, <2>1, <2>2, <2>3 DEF OwnInv
<1> QED BY <1>1, <1>2

LEMMA InitOwn == Init => OwnInv
<1> SUFFICES ASSUME Init PROVE OwnInv
  OBVIOUS
<1>1. TypeInv
  BY InitTypes
<1>2. OwnStore
  BY DEF Init, StoreInit, OwnStore
<1>3. \A h \in Handlers : OwnLocal(h)
  BY DEF Init, OwnLocal
<1>4. AnsweredOwn
  BY DEF Init, AnsweredOwn
<1> QED BY <1>1, <1>2, <1>3, <1>4 DEF OwnInv

LEMMA StutterOwn == OwnInv /\ UNCHANGED vars => OwnInv'
<1> SUFFICES ASSUME OwnInv, UNCHANGED vars PROVE OwnInv'
  OBVIOUS
<1>1. TypeInv /\ TypeInv' /\ IssuedKept
  BY StutterTypes, SameIssuedKept DEF OwnInv, vars
<1>2. OwnStore' /\ AnsweredOwn'
  BY <1>1, QuietKeepsOwnStore, SameAnswersOwn DEF OwnInv, vars, storeVars
<1>3. \A g \in Handlers : OwnLocal(g)'
  BY <1>1, OthersOwnLocal DEF OwnInv, vars
<1> QED BY <1>1, <1>2, <1>3 DEF OwnInv

(* Whatever handlers, store and provider do together, and with whatever    *)
(* failures, an Add request that carries a client task id is answered only *)
(* with a task that its own profile and client task id submitted           *)
(* (AddOfflineTask, refreshOfflineTask).                                   *)
THEOREM AnswersAreOwn == Spec => []AnsweredOwn
<1>1. OwnInv /\ [Next]_vars => OwnInv'
  BY ArriveKeepsOwn, AddKeepsOwn, ReadKeepsOwn, RemoveKeepsOwn, EnvironmentKeepsOwn,
     StutterOwn DEF Next, Step
<1>2. OwnInv => AnsweredOwn
  BY DEF OwnInv
<1> QED BY InitOwn, <1>1, <1>2, PTL DEF Spec
-----------------------------------------------------------------------------
(***************************************************************************)
(* The handlers keep the idempotency promise as long as the store does not *)
(* fail, the records outlive a restart, and no task is ordered twice under *)
(* different client ids, profiles, or with and without a client id.  (With *)
(* shared tasks the later record displaces the earlier one: there the      *)
(* promise is broken.)                                                     *)
(***************************************************************************)

(* Every task is ordered in one way only.                                  *)
ExclusiveTasks == \A a, b \in Orders : a[3] = b[3] => a = b

(* No statement on the store fails: none at random, and none because it    *)
(* binds a client key, as every such statement does on PostgreSQL.         *)
StoreWorks == ~StoreFaults /\ Backend # "postgres"

(* Restarts do not lose records.                                           *)
RecordsOutlive == Backend = "sqlite" \/ MaxCrashes = 0

Ordered(r) == <<r.profile, r.client, r.task>> \in Orders

ReadsRecord(h) == pc[h] \in {"refresh", "refreshSave", "storedSave", "cancelSave"}

(* Every keyed record is reached through the index, whatever the backend.  *)
IndexTotal ==
    \A t \in Tasks :
        byTask[t] # NoRecord /\ clientKey(byTask[t]) \in Keys
            => byClient[clientKey(byTask[t])] = t

UniqueLocal(h) ==
    /\ pc[h] \in {"lock", "lookup", "submit", "put"} => Ordered(req[h])
    /\ ReadsRecord(h) => Ordered(rec[h]) /\ byTask[rec[h].task] # NoRecord
    /\ Critical(h) => mutex = h
    /\ pc[h] \in {"submit", "put"} /\ HasClient(req[h])
          => byClient[KeyOfRequest(req[h])] = NoTask

UniqueInv ==
    /\ OwnInv
    /\ \A t \in Tasks : byTask[t] # NoRecord => Ordered(byTask[t])
    /\ IndexTotal
    /\ \A h \in Handlers : UniqueLocal(h)
    /\ \A k \in Keys : \A t \in answered[k] : byClient[k] = t

(* Two records of one task belong to one order.                            *)
LEMMA SameOrder ==
    ASSUME ExclusiveTasks, NEW r, NEW s, Ordered(r), Ordered(s), r.task = s.task
    PROVE  r.profile = s.profile /\ r.client = s.client /\ clientKey(r) = clientKey(s)
<1>1. <<r.profile, r.client, r.task>> = <<s.profile, s.client, s.task>>
  BY DEF ExclusiveTasks, Ordered
<1> QED BY <1>1 DEF clientKey

(* Writing back a record of a task that is stored leaves the index and the *)
(* set of stored tasks as they are.                                        *)
LEMMA UpdateKeepsIndex ==
    ASSUME ExclusiveTasks, StoreWorks, UniqueInv, NEW r \in Records, Ordered(r),
           byTask[r.task] # NoRecord, TryUpdate(r)
    PROVE  /\ byClient' = byClient
           /\ byTask' = [byTask EXCEPT ![r.task] = r]
<1>1. /\ StoreTypeOK /\ IndexSound /\ r.task \in Tasks
      /\ byTask[r.task] \in Records /\ byTask[r.task].task = r.task
      /\ Ordered(byTask[r.task])
  BY KeyFacts DEF UniqueInv, OwnInv, TypeInv, StoreInv, StoreTypeOK
<1>2. clientKey(byTask[r.task]) = clientKey(r)
  BY <1>1, SameOrder
<1>3. clientKey(r) \in Keys => byClient[clientKey(r)] = r.task
  BY <1>1, <1>2 DEF UniqueInv, IndexTotal
<1>4. ~KeyTaken(r)
  BY <1>3 DEF KeyTaken
<1>5. putLocked(removeIndexesLocked(byClient, r.task), r)
  BY <1>4 DEF TryUpdate, Update, save, Upsert, KeyRefused, StoreWorks
<1>6. \A j \in Keys : byClient[j] = r.task => j = clientKey(r)
  BY <1>1, <1>2, NullsAssumption DEF IndexSound
<1>7. \A j \in Keys : (IF j = clientKey(r) THEN r.task
                       ELSE removeIndexesLocked(byClient, r.task)[j]) = byClient[j]
  BY <1>3, <1>6 DEF removeIndexesLocked
<1>8. byClient' = byClient
  BY <1>1, <1>5, <1>7 DEF putLocked, StoreTypeOK
<1> QED BY <1>5, <1>8 DEF putLocked

(* Storing the record of a task just submitted: nothing is displaced, and  *)
(* the key of the request, if it has one, now leads to the task.           *)
LEMMA PutExtendsIndex ==
    ASSUME ExclusiveTasks, StoreWorks, UniqueInv, NEW h \in Handlers,
           pc[h] = "put", TryPut(NewRecord(req[h]))
    PROVE  /\ byTask' = [byTask EXCEPT ![req[h].task] = NewRecord(req[h])]
           /\ byClient' = [k \in Keys |-> IF k = KeyOfRequest(req[h])
                                          THEN req[h].task ELSE byClient[k]]
<1> DEFINE r == NewRecord(req[h])
<1>1. /\ StoreTypeOK /\ IndexSound /\ IndexTotal
      /\ req[h] \in AddRequests /\ Ordered(req[h])
      /\ HasClient(req[h]) => byClient[KeyOfRequest(req[h])] = NoTask
  BY DEF UniqueInv, OwnInv, TypeInv, StoreInv, ReqShape, UniqueLocal
<1>2. /\ r \in Records /\ clientKey(r) = KeyOfRequest(req[h]) /\ r.task = req[h].task
      /\ Ordered(r) /\ r.task \in Tasks
      /\ clientKey(r) \in Keys => byClient[clientKey(r)] = NoTask
  BY <1>1, NewRecordFacts, RequestKeyFacts DEF Ordered, NewRecord, AddRequests
<1> HIDE DEF r
<1>3. \A j \in Keys : byClient[j] # r.task
  <2> SUFFICES ASSUME NEW j \in Keys, byClient[j] = r.task PROVE FALSE
    OBVIOUS
  <2>1. /\ byTask[r.task] # NoRecord /\ clientKey(byTask[r.task]) = j
        /\ Ordered(byTask[r.task]) /\ byTask[r.task].task = r.task
    BY <1>1, <1>2, NullsAssumption DEF IndexSound, StoreTypeOK, UniqueInv
  <2>2. clientKey(r) = j
    BY <1>2, <2>1, SameOrder
  <2> QED BY <1>2, <2>2, NullsAssumption
<1>4. ~KeyTaken(r)
  BY <1>2 DEF KeyTaken
<1>5. putLocked(removeIndexesLocked(byClient, r.task), r)
  BY <1>4 DEF TryPut, Put, save, Upsert, KeyRefused, StoreWorks, r
<1>6. removeIndexesLocked(byClient, r.task) = byClient
  BY <1>1, <1>3 DEF removeIndexesLocked, StoreTypeOK
<1> QED BY <1>2, <1>5, <1>6 DEF putLocked, r

-----------------------------------------------------------------------------
(* The inductive invariant, step by step.                                  *)

OthersStay(h) ==
    \A g \in Handlers \ {h} :
        pc'[g] = pc[g] /\ req'[g] = req[g] /\ rec'[g] = rec[g]

(* idempotencyMu is left alone, released by its holder or taken when free. *)
MutexMove(h) == mutex' = mutex \/ mutex \in {h, NoHandler}

(* The answers given so far, with the index as it is.                      *)
AnswersIndexed == \A k \in Keys : \A t \in answered'[k] : byClient[k] = t

LEMMA OthersUnique ==
    ASSUME UniqueInv, NEW h \in Handlers, OthersStay(h), MutexMove(h),
           UNCHANGED byClient,
           \A t \in Tasks : byTask[t] # NoRecord => byTask'[t] # NoRecord,
           NEW g \in Handlers \ {h}
    PROVE  UniqueLocal(g)'
<1>1. UniqueLocal(g) /\ TypeInv /\ g # NoHandler
  BY HandlersAssumption DEF UniqueInv, OwnInv
<1>2. Critical(g)' <=> Critical(g)
  BY DEF Critical, OthersStay, HasClient
<1>3. Critical(g) => mutex' = g
  BY <1>1 DEF UniqueLocal, MutexMove
<1>4. ReadsRecord(g) => rec[g].task \in Tasks
  BY <1>1 DEF ReadsRecord, TypeInv, ReqShape, Records
<1>5. ReadsRecord(g)' <=> ReadsRecord(g)
  BY DEF ReadsRecord, OthersStay
<1>6. ReadsRecord(g)' => Ordered(rec[g])' /\ byTask'[rec'[g].task] # NoRecord
  BY <1>1, <1>4, <1>5 DEF UniqueLocal, OthersStay, Ordered
<1>7. pc'[g] \in {"lock", "lookup", "submit", "put"} => Ordered(req[g])'
  BY <1>1 DEF UniqueLocal, OthersStay, Ordered
<1>8. pc'[g] \in {"submit", "put"} /\ HasClient(req'[g])
          => byClient'[KeyOfRequest(req'[g])] = NoTask
  BY <1>1 DEF UniqueLocal, OthersStay
<1> QED BY <1>2, <1>3, <1>6, <1>7, <1>8 DEF UniqueLocal, HasClient, KeyOfRequest

LEMMA QuietKeepsUnique ==
    ASSUME UniqueInv, OwnInv', NEW h \in Handlers, UNCHANGED storeVars, AnswersIndexed,
           OthersStay(h), MutexMove(h), UniqueLocal(h)'
    PROVE  UniqueInv'
<1>1. \A g \in Handlers : UniqueLocal(g)'
  BY OthersUnique DEF storeVars
<1>2. IndexTotal'
  BY DEF UniqueInv, IndexTotal, storeVars, clientKey
<1>3. \A t \in Tasks : byTask'[t] # NoRecord => Ordered(byTask[t])'
  BY DEF UniqueInv, storeVars, Ordered
<1> QED BY <1>1, <1>2, <1>3 DEF UniqueInv, AnswersIndexed, storeVars

(* A record that was read is written back.                                 *)
LEMMA WriteBackKeepsUnique ==
    ASSUME ExclusiveTasks, StoreWorks, UniqueInv, OwnInv', NEW h \in Handlers,
           ReadsRecord(h), TryUpdate(rec[h]), AnswersIndexed,
           OthersStay(h), MutexMove(h), pc'[h] \in {"idle", "storedGet"}
    PROVE  UniqueInv'
<1>1. rec[h] \in Records /\ Ordered(rec[h]) /\ byTask[rec[h].task] # NoRecord
  BY DEF ReadsRecord, UniqueInv, UniqueLocal, OwnInv, TypeInv, ReqShape
<1>2. /\ byClient' = byClient
      /\ byTask' = [byTask EXCEPT ![rec[h].task] = rec[h]]
  BY <1>1, UpdateKeepsIndex
<1>3. \A t \in Tasks : byTask'[t] = IF t = rec[h].task THEN rec[h] ELSE byTask[t]
  BY <1>2 DEF UniqueInv, OwnInv, TypeInv, StoreInv, StoreTypeOK
<1>4. \A t \in Tasks : byTask'[t] # NoRecord <=> byTask[t] # NoRecord
  BY <1>1, <1>3, KeyFacts
<1>5. \A g \in Handlers \ {h} : UniqueLocal(g)'
  BY <1>2, <1>4, OthersUnique
<1>6. UniqueLocal(h)'
  BY DEF UniqueLocal, Critical, ReadsRecord
<1>7. \A t \in Tasks : byTask'[t] # NoRecord => Ordered(byTask'[t])
  BY <1>1, <1>3 DEF UniqueInv
<1>8. IndexTotal'
  <2> SUFFICES ASSUME NEW t \in Tasks, byTask'[t] # NoRecord,
                      clientKey(byTask'[t]) \in Keys
               PROVE  byClient[clientKey(byTask'[t])] = t
    BY <1>2 DEF IndexTotal, clientKey
  <2>1. byTask[t] # NoRecord /\ Ordered(byTask[t]) /\ byTask[t].task = t
    BY <1>4 DEF UniqueInv, OwnInv, TypeInv, StoreInv, StoreTypeOK
  <2>2. Ordered(byTask'[t]) /\ byTask'[t].task = t
    BY <1>3, <1>7, <2>1
  <2>3. clientKey(byTask'[t]) = clientKey(byTask[t])
    BY <2>1, <2>2, SameOrder
  <2> QED BY <2>1, <2>3 DEF UniqueInv, IndexTotal
<1> QED BY <1>2, <1>5, <1>6, <1>7, <1>8 DEF UniqueInv, AnswersIndexed, Ordered

LEMMA ReturnMoves ==
    ASSUME UniqueInv, NEW h \in Handlers, Return(h)
    PROVE  OthersStay(h) /\ MutexMove(h) /\ pc'[h] = "idle" /\ UniqueLocal(h)'
  BY DEF Return, OthersStay, MutexMove, UniqueLocal, Critical, ReadsRecord,
         UniqueInv, OwnInv, TypeInv, TypeOK

LEMMA SameAnswersIndexed ==
    ASSUME UniqueInv, UNCHANGED answered
    PROVE  AnswersIndexed
  BY DEF UniqueInv, AnswersIndexed

(* The record a handler read under its key is the one the index leads to.  *)
LEMMA ReadKey ==
    ASSUME ExclusiveTasks, UniqueInv, NEW h \in Handlers,
           pc[h] \in {"refresh", "refreshSave"}
    PROVE  /\ req[h] \in AddRequests /\ HasClient(req[h])
           /\ KeyOfRequest(req[h]) \in Keys
           /\ rec[h].task \in Tasks
           /\ byClient[KeyOfRequest(req[h])] = rec[h].task
           /\ issued[KeyOfRequest(req[h])][rec[h].task] > 0
<1>1. /\ req[h] \in AddRequests /\ req[h].client \in Clients
      /\ rec[h] \in Records /\ clientKey(rec[h]) = KeyOfRequest(req[h])
      /\ Owned(rec[h])
  BY DEF UniqueInv, OwnInv, OwnLocal, TypeInv, ReqShape
<1>2. HasClient(req[h]) /\ KeyOfRequest(req[h]) \in Keys
  BY <1>1, RequestKeyFacts, NullsAssumption DEF HasClient
<1>3. rec[h].task \in Tasks /\ byTask[rec[h].task] # NoRecord /\ Ordered(rec[h])
  BY <1>1, KeyFacts DEF UniqueInv, UniqueLocal, ReadsRecord
<1>4. Ordered(byTask[rec[h].task]) /\ byTask[rec[h].task].task = rec[h].task
  BY <1>3 DEF UniqueInv, OwnInv, TypeInv, StoreInv, StoreTypeOK
<1>5. clientKey(byTask[rec[h].task]) = KeyOfRequest(req[h])
  BY <1>1, <1>3, <1>4, SameOrder
<1>6. byClient[KeyOfRequest(req[h])] = rec[h].task
  BY <1>2, <1>3, <1>5 DEF UniqueInv, IndexTotal
<1>7. issued[KeyOfRequest(req[h])][rec[h].task] > 0
  BY <1>1, <1>2 DEF Owned
<1> QED BY <1>1, <1>2, <1>3, <1>6, <1>7

(* An answer under a key: the histories move as the promise allows.        *)
LEMMA AnswerStep ==
    ASSUME UniqueInv, NEW r \in AddRequests, NEW t \in Tasks, UNCHANGED issued,
           AnswerAdd(r, t),
           HasClient(r) => /\ issued[KeyOfRequest(r)][t] > 0
                           /\ answered[KeyOfRequest(r)] \subseteq {t}
    PROVE  [Promise!Next]_(Promise!promiseVars)
<1>1. CASE HasClient(r)
  <2> DEFINE k == KeyOfRequest(r)
  <2>1. k \in Keys /\ answered' = [answered EXCEPT ![k] = @ \cup {t}]
    BY <1>1, RequestKeyFacts DEF AnswerAdd
  <2>2. answered[k] \cup {t} = {t} /\ issued[k][t] > 0 /\ answered[k] \subseteq {t}
    BY <1>1
  <2> HIDE DEF k
  <2>3. answered' = [answered EXCEPT ![k] = {t}]
    BY <2>1, <2>2 DEF UniqueInv, OwnInv, TypeInv, TypeOK
  <2>4. Promise!Answer(k, t)
    BY <2>2, <2>3 DEF Promise!Answer
  <2> QED BY <2>1, <2>4 DEF Promise!Next
<1>2. CASE ~HasClient(r)
  BY <1>2 DEF AnswerAdd, Promise!promiseVars
<1> QED BY <1>1, <1>2

(* A submission under a key that has not been answered yet.                *)
LEMMA SubmitStep ==
    ASSUME UniqueInv, NEW h \in Handlers, pc[h] = "submit", CloudAdd(req[h]),
           UNCHANGED answered
    PROVE  [Promise!Next]_(Promise!promiseVars)
<1>1. req[h] \in AddRequests /\ req[h].task \in Tasks
  BY DEF UniqueInv, OwnInv, TypeInv, ReqShape, AddRequests
<1>2. CASE HasClient(req[h])
  <2> DEFINE k == KeyOfRequest(req[h])
             t == req[h].task
  <2>1. k \in Keys /\ byClient[k] = NoTask
    BY <1>1, <1>2, RequestKeyFacts DEF UniqueInv, UniqueLocal
  <2>2. answered[k] = {}
    BY <2>1, NullsAssumption DEF UniqueInv, OwnInv, TypeInv, TypeOK
  <2>3. Promise!Submit(k, t)
    BY <1>2, <2>2 DEF CloudAdd, Promise!Submit
  <2> QED BY <1>1, <2>1, <2>3 DEF Promise!Next
<1>3. CASE ~HasClient(req[h])
  BY <1>3 DEF CloudAdd, Promise!promiseVars
<1> QED BY <1>2, <1>3

LEMMA QuietStep == UNCHANGED <<issued, answered>> => [Promise!Next]_(Promise!promiseVars)
  BY DEF Promise!promiseVars

(* Both facts of the induction for the steps of AddOfflineTask.            *)
LEMMA AddKeepsUnique ==
    ASSUME ExclusiveTasks, StoreWorks, UniqueInv, OwnInv', NEW h \in Handlers,
           Lock(h) \/ AddStep(h)
    PROVE  UniqueInv' /\ [Promise!Next]_(Promise!promiseVars)
<1> USE DEF historyVars
<1>0. TypeInv /\ TypeOK /\ UniqueLocal(h) /\ h # NoHandler
  BY HandlersAssumption DEF UniqueInv, OwnInv, TypeInv
<1>1. CASE Lock(h)
  <2>1. OthersStay(h) /\ MutexMove(h)
    BY <1>0, <1>1 DEF Lock, Goto, TypeOK, OthersStay, MutexMove
  <2>2. UniqueLocal(h)'
    BY <1>0, <1>1 DEF Lock, Goto, TypeOK, UniqueLocal, Ordered, Critical, ReadsRecord
  <2> QED BY <1>1, <2>1, <2>2, QuietKeepsUnique, QuietStep, SameAnswersIndexed DEF Lock
<1>2. CASE LookupHit(h)
  <2> DEFINE found == GetByClientTask(KeyOfRequest(req[h]))
  <2>1. /\ found # NoRecord
        /\ rec' = [rec EXCEPT ![h] = found]
        /\ Goto(h, "lookup", "refresh")
        /\ UNCHANGED <<storeVars, issued, answered, req, mutex>>
    BY <1>2 DEF LookupHit
  <2>2. KeyOfRequest(req[h]) \in Keys
    BY <1>0, <2>1, RequestKeyFacts DEF Goto, TypeInv, ReqShape, AddRequests, Keys, KeyOfRequest
  <2>3. \E t \in Tasks : byTask[t] # NoRecord /\ found = byTask[t] /\ byTask[t].task = t
    BY <1>0, <2>1, <2>2 DEF GetByClientTask, TypeInv, StoreInv, StoreTypeOK
  <2>4. Ordered(found) /\ byTask[found.task] # NoRecord
    BY <2>3 DEF UniqueInv
  <2> HIDE DEF found
  <2>5. /\ rec'[h] = found /\ pc'[h] = "refresh" /\ pc[h] = "lookup" /\ mutex' = mutex
        /\ byTask' = byTask
    BY <1>0, <2>1 DEF Goto, TypeOK, storeVars
  <2>6. OthersStay(h) /\ MutexMove(h)
    BY <1>0, <2>1 DEF Goto, TypeOK, OthersStay, MutexMove
  <2>7. UniqueLocal(h)'
    BY <1>0, <2>4, <2>5 DEF UniqueLocal, Ordered, Critical, ReadsRecord
  <2> QED BY <2>1, <2>6, <2>7, QuietKeepsUnique, QuietStep, SameAnswersIndexed
<1>3. CASE LookupMiss(h)
  <2>1. OthersStay(h) /\ MutexMove(h)
    BY <1>0, <1>3 DEF LookupMiss, Goto, TypeOK, OthersStay, MutexMove
  <2>2. KeyOfRequest(req[h]) \in Keys
    BY <1>0, <1>3, RequestKeyFacts DEF LookupMiss, TypeInv, ReqShape, AddRequests, Keys, KeyOfRequest
  <2>3. byClient[KeyOfRequest(req[h])] = NoTask
    BY <1>0, <1>3, <2>2
    DEF LookupMiss, GetByClientTask, KeyRefused, StoreWorks, TypeInv, StoreInv, IndexSound
  <2>4. UniqueLocal(h)'
    BY <1>0, <1>3, <2>3
    DEF LookupMiss, Goto, TypeOK, UniqueLocal, Ordered, Critical, ReadsRecord, storeVars,
        KeyOfRequest
  <2> QED BY <1>3, <2>1, <2>4, QuietKeepsUnique, QuietStep, SameAnswersIndexed DEF LookupMiss
<1>4. CASE Refresh(h)
  <2> DEFINE s == mapOfflineStatus(cloud[req[h].profile][rec[h].task])
  <2>1. /\ rec' = [rec EXCEPT ![h] = WithStatus(rec[h], s)]
        /\ Goto(h, "refresh", "refreshSave")
        /\ UNCHANGED <<storeVars, issued, answered, req, mutex>>
    BY <1>4 DEF Refresh
  <2> HIDE DEF s
  <2>2. /\ rec[h] \in Records /\ Ordered(rec[h]) /\ byTask[rec[h].task] # NoRecord
        /\ mutex = h
    BY <1>0, <2>1 DEF Goto, TypeInv, ReqShape, UniqueLocal, ReadsRecord, Critical
  <2>3. /\ rec'[h] = WithStatus(rec[h], s) /\ pc'[h] = "refreshSave" /\ mutex' = h
        /\ byTask' = byTask
    BY <1>0, <2>1, <2>2 DEF Goto, TypeOK, storeVars
  <2>4. /\ WithStatus(rec[h], s).profile = rec[h].profile
        /\ WithStatus(rec[h], s).client = rec[h].client
        /\ WithStatus(rec[h], s).task = rec[h].task
    BY <2>2 DEF WithStatus, Records
  <2>5. UniqueLocal(h)'
    BY <2>2, <2>3, <2>4 DEF UniqueLocal, Ordered, Critical, ReadsRecord
  <2>6. OthersStay(h) /\ MutexMove(h)
    BY <1>0, <2>1 DEF Goto, TypeOK, OthersStay, MutexMove
  <2> QED BY <2>1, <2>5, <2>6, QuietKeepsUnique, QuietStep, SameAnswersIndexed
<1>5. ASSUME pc[h] \in {"refresh", "refreshSave"}, AnswerAdd(req[h], rec[h].task),
             UNCHANGED issued
      PROVE  AnswersIndexed /\ [Promise!Next]_(Promise!promiseVars)
  <2>1. /\ req[h] \in AddRequests /\ HasClient(req[h]) /\ KeyOfRequest(req[h]) \in Keys
        /\ rec[h].task \in Tasks /\ byClient[KeyOfRequest(req[h])] = rec[h].task
        /\ issued[KeyOfRequest(req[h])][rec[h].task] > 0
    BY <1>5, ReadKey
  <2>2. answered[KeyOfRequest(req[h])] \subseteq {rec[h].task}
    BY <2>1 DEF UniqueInv
  <2>3. AnswersIndexed
    BY <1>0, <1>5, <2>1 DEF AnswerAdd, AnswersIndexed, UniqueInv, TypeOK
  <2> QED BY <1>5, <2>1, <2>2, <2>3, AnswerStep
<1>6. CASE RefreshFailed(h)
  <2>1. AnswersIndexed /\ [Promise!Next]_(Promise!promiseVars)
    BY <1>5, <1>6 DEF RefreshFailed
  <2> QED BY <1>6, <2>1, ReturnMoves, QuietKeepsUnique DEF RefreshFailed
<1>7. CASE RefreshSave(h)
  <2>1. AnswersIndexed /\ [Promise!Next]_(Promise!promiseVars)
    BY <1>5, <1>7 DEF RefreshSave
  <2> QED BY <1>7, <2>1, ReturnMoves, WriteBackKeepsUnique DEF RefreshSave, ReadsRecord
<1>8. CASE Submit(h)
  <2>1. OthersStay(h) /\ MutexMove(h)
    BY <1>0, <1>8 DEF Submit, Goto, TypeOK, OthersStay, MutexMove
  <2>2. UniqueLocal(h)'
    BY <1>0, <1>8
    DEF Submit, Goto, TypeOK, UniqueLocal, Ordered, Critical, ReadsRecord, storeVars,
        HasClient, KeyOfRequest
  <2> QED BY <1>8, <2>1, <2>2, QuietKeepsUnique, SubmitStep, SameAnswersIndexed
          DEF Submit, Goto
<1>9. CASE SubmitFailed(h)
  BY <1>9, ReturnMoves, QuietKeepsUnique, QuietStep, SameAnswersIndexed DEF SubmitFailed
<1>10. CASE SubmitLost(h)
  BY <1>10, ReturnMoves, QuietKeepsUnique, SubmitStep, SameAnswersIndexed DEF SubmitLost
<1>11. CASE PutTask(h)
  <2> DEFINE r == NewRecord(req[h])
             k == KeyOfRequest(req[h])
  <2>1. /\ req[h] \in AddRequests /\ req[h].task \in Tasks /\ Ordered(req[h])
        /\ r \in Records /\ clientKey(r) = k /\ r.task = req[h].task /\ Ordered(r)
        /\ pc[h] = "put"
    BY <1>0, <1>11, NewRecordFacts
    DEF PutTask, TypeInv, ReqShape, AddRequests, UniqueLocal, Ordered, NewRecord
  <2>2. /\ byTask' = [byTask EXCEPT ![req[h].task] = r]
        /\ byClient' = [j \in Keys |-> IF j = k THEN req[h].task ELSE byClient[j]]
    BY <1>11, PutExtendsIndex DEF PutTask
  <2>3. HasClient(req[h]) => /\ k \in Keys /\ byClient[k] = NoTask /\ mutex = h
                             /\ issued[k][req[h].task] > 0 /\ answered[k] = {}
    <3>1. HasClient(req[h]) => k \in Keys /\ byClient[k] = NoTask /\ mutex = h
      BY <1>0, <2>1, RequestKeyFacts DEF UniqueLocal, Critical
    <3>2. HasClient(req[h]) => issued[k][req[h].task] > 0
      BY <2>1 DEF UniqueInv, OwnInv, OwnLocal
    <3> QED BY <1>0, <3>1, <3>2, NullsAssumption DEF UniqueInv, TypeOK
  <2>4. ~HasClient(req[h]) => k \notin Keys /\ byClient' = byClient
    <3>1. ~HasClient(req[h]) => k \notin Keys
      BY <2>1, RequestKeyFacts
    <3> QED BY <2>2, <3>1, <1>0 DEF TypeInv, StoreInv, StoreTypeOK
  <2>5. [Promise!Next]_(Promise!promiseVars)
    BY <1>11, <2>1, <2>3, AnswerStep DEF PutTask
  <2> HIDE DEF r, k
  <2>6. \A t \in Tasks : byTask'[t] = IF t = req[h].task THEN r ELSE byTask[t]
    BY <1>0, <2>2 DEF TypeInv, StoreInv, StoreTypeOK
  <2>7. \A j \in Keys : byClient'[j] = IF j = k THEN req[h].task ELSE byClient[j]
    BY <2>2
  <2>8. OthersStay(h) /\ MutexMove(h) /\ pc'[h] = "idle" /\ UniqueLocal(h)'
    BY <1>11, ReturnMoves DEF PutTask
  <2>9. \A g \in Handlers \ {h} : UniqueLocal(g)'
    <3> SUFFICES ASSUME NEW g \in Handlers \ {h} PROVE UniqueLocal(g)'
      OBVIOUS
    <3>1. UniqueLocal(g) /\ OthersStay(h)
      BY <2>8 DEF UniqueInv
    <3>2. CASE HasClient(req[h])
      <4>1. ~Critical(g)
        BY <2>3, <3>1, <3>2 DEF UniqueLocal
      <4>2. ReadsRecord(g) => rec[g].task \in Tasks
        BY <1>0 DEF ReadsRecord, TypeInv, ReqShape, Records
      <4>3. ReadsRecord(g)' => Ordered(rec[g])' /\ byTask'[rec'[g].task] # NoRecord
        BY <2>1, <2>6, <3>1, <4>2, KeyFacts DEF OthersStay, UniqueLocal, Ordered, ReadsRecord
      <4> QED BY <3>1, <4>1, <4>3
              DEF OthersStay, UniqueLocal, Ordered, Critical, HasClient
    <3>3. CASE ~HasClient(req[h])
      <4>1. \A t \in Tasks : byTask[t] # NoRecord => byTask'[t] # NoRecord
        BY <2>1, <2>6, KeyFacts
      <4> QED BY <2>4, <2>8, <3>3, <4>1, OthersUnique
    <3> QED BY <3>2, <3>3
  <2>10. \A t \in Tasks : byTask'[t] # NoRecord => Ordered(byTask'[t])
    BY <2>1, <2>6 DEF UniqueInv
  <2>11. IndexTotal'
    <3> SUFFICES ASSUME NEW t \in Tasks, byTask'[t] # NoRecord,
                        clientKey(byTask'[t]) \in Keys
                 PROVE  byClient'[clientKey(byTask'[t])] = t
      BY DEF IndexTotal, clientKey
    <3>1. CASE t = req[h].task
      BY <2>1, <2>6, <2>7, <3>1
    <3>2. CASE t # req[h].task
      <4>1. byTask'[t] = byTask[t] /\ byClient[clientKey(byTask[t])] = t
        BY <2>6, <3>2 DEF UniqueInv, IndexTotal
      <4>2. clientKey(byTask[t]) # k
        BY <2>3, <2>4, <4>1, NullsAssumption
      <4> QED BY <2>7, <4>1, <4>2
    <3> QED BY <3>1, <3>2
  <2>12. \A j \in Keys : \A t \in answered'[j] : byClient'[j] = t
    <3>1. AnswerAdd(req[h], req[h].task)
      BY <1>11 DEF PutTask
    <3>2. CASE HasClient(req[h])
      <4>1. answered' = [answered EXCEPT ![k] = @ \cup {req[h].task}]
        BY <3>1, <3>2 DEF AnswerAdd, k
      <4> QED BY <1>0, <2>3, <2>7, <3>2, <4>1 DEF UniqueInv, TypeOK
    <3>3. CASE ~HasClient(req[h])
      BY <2>4, <3>1, <3>3 DEF AnswerAdd, UniqueInv
    <3> QED BY <3>2, <3>3
  <2>13. UniqueInv'
    BY <2>8, <2>9, <2>10, <2>11, <2>12 DEF UniqueInv, Ordered
  <2> QED BY <2>5, <2>13
<1> QED BY <1>1, <1>2, <1>3, <1>4, <1>6, <1>7, <1>8, <1>9, <1>10, <1>11 DEF AddStep

LEMMA ArriveKeepsUnique ==
    ASSUME UniqueInv, OwnInv', NEW h \in Handlers, Arrive(h)
    PROVE  UniqueInv' /\ [Promise!Next]_(Promise!promiseVars)
<1> USE DEF historyVars
<1>0. TypeOK
  BY DEF UniqueInv, OwnInv, TypeInv
<1>1. ASSUME NEW r, NEW first, Accept(h, r, first),
             first \in {"lock", "submit"} => Ordered(r),
             first = "submit" => ~HasClient(r),
             first \in {"lock", "submit", "query", "delete", "list"}
      PROVE  UniqueInv' /\ [Promise!Next]_(Promise!promiseVars)
  <2>1. OthersStay(h) /\ MutexMove(h)
    BY <1>0, <1>1 DEF Accept, Goto, TypeOK, OthersStay, MutexMove
  <2>2. pc'[h] = first /\ req'[h] = r
    BY <1>0, <1>1 DEF Accept, Goto, TypeOK
  <2>3. UniqueLocal(h)'
    BY <1>1, <2>2 DEF UniqueLocal, Ordered, Critical, ReadsRecord, HasClient
  <2> QED BY <1>1, <2>1, <2>3, QuietKeepsUnique, QuietStep, SameAnswersIndexed DEF Accept
<1>2. CASE AcceptAdd(h)
  <2> PICK order \in Orders :
        LET r == [op |-> "add", profile |-> order[1], client |-> order[2], task |-> order[3]]
        IN  Accept(h, r, IF HasClient(r) THEN "lock" ELSE "submit")
    BY <1>2 DEF AcceptAdd
  <2> DEFINE r == [op |-> "add", profile |-> order[1], client |-> order[2], task |-> order[3]]
  <2>1. Ordered(r)
    BY OrdersAssumption DEF Ordered
  <2> QED BY <1>1, <2>1
<1>3. CASE AcceptGet(h)
  BY <1>1, <1>3 DEF AcceptGet
<1>4. CASE AcceptRemove(h)
  BY <1>1, <1>4 DEF AcceptRemove
<1>5. CASE AcceptList(h)
  BY <1>1, <1>5 DEF AcceptList
<1> QED BY <1>2, <1>3, <1>4, <1>5 DEF Arrive

(* A record read by task id and given another status is still its order's. *)
LEMMA StoredRecordOrdered ==
    ASSUME UniqueInv, NEW t \in Tasks, NEW s \in Statuses, Get(t) # NoRecord
    PROVE  /\ Ordered(WithStatus(Get(t), s))
           /\ byTask[WithStatus(Get(t), s).task] # NoRecord
<1>1. Get(t) \in Records /\ Get(t).task = t /\ Ordered(Get(t))
  BY StoredRecord DEF Get, UniqueInv, OwnInv, TypeInv
<1> QED BY <1>1 DEF WithStatus, Records, Ordered, Get

LEMMA ReadKeepsUnique ==
    ASSUME ExclusiveTasks, StoreWorks, UniqueInv, OwnInv', NEW h \in Handlers,
           ReadStep(h)
    PROVE  UniqueInv' /\ [Promise!Next]_(Promise!promiseVars)
<1> USE DEF historyVars
<1>0. TypeOK /\ TypeInv /\ UniqueLocal(h)
  BY DEF UniqueInv, OwnInv, TypeInv
<1>1. [Promise!Next]_(Promise!promiseVars)
  BY QuietStep DEF ReadStep, Query, QueryFailed, Fallback, ListPage, ListNothing,
                   StoredGet, StoredSkip, StoredSave, StoredDone
<1>2. AnswersIndexed
  BY SameAnswersIndexed DEF ReadStep, Query, QueryFailed, Fallback, ListPage, ListNothing,
                            StoredGet, StoredSkip, StoredSave, StoredDone
<1>3. CASE Query(h) \/ QueryFailed(h) \/ ListPage(h) \/ StoredSkip(h)
  <2>1. OthersStay(h) /\ MutexMove(h) /\ UNCHANGED storeVars
    BY <1>0, <1>3 DEF Query, QueryFailed, ListPage, StoredSkip, Goto, TypeOK,
                      OthersStay, MutexMove
  <2>2. pc'[h] \in {"storedGet", "fallback"}
    BY <1>0, <1>3 DEF Query, QueryFailed, ListPage, StoredSkip, Goto, TypeOK
  <2>3. UniqueLocal(h)'
    BY <2>2 DEF UniqueLocal, Critical, ReadsRecord
  <2> QED BY <1>1, <1>2, <2>1, <2>3, QuietKeepsUnique
<1>4. CASE Fallback(h) \/ ListNothing(h) \/ StoredDone(h)
  <2>1. Return(h) /\ UNCHANGED storeVars
    BY <1>4 DEF Fallback, ListNothing, StoredDone
  <2> QED BY <1>1, <1>2, <2>1, ReturnMoves, QuietKeepsUnique
<1>5. CASE StoredGet(h)
  <2>1. PICK x \in todo[h] :
          /\ Get(x[1]) # NoRecord
          /\ rec' = [rec EXCEPT ![h] = WithStatus(Get(x[1]), x[2])]
    BY <1>5 DEF StoredGet
  <2> DEFINE r == WithStatus(Get(x[1]), x[2])
  <2>2. x[1] \in Tasks /\ x[2] \in Statuses
    BY <1>0, MapStatusType DEF TypeOK, Reported
  <2>3. Ordered(r) /\ byTask[r.task] # NoRecord
    BY <2>1, <2>2, StoredRecordOrdered
  <2>4. rec' = [rec EXCEPT ![h] = r]
    BY <2>1
  <2> HIDE DEF r
  <2>5. /\ rec'[h] = r /\ pc'[h] = "storedSave" /\ byTask' = byTask
        /\ OthersStay(h) /\ MutexMove(h)
    BY <1>0, <1>5, <2>4 DEF StoredGet, Goto, TypeOK, OthersStay, MutexMove, storeVars
  <2>6. UniqueLocal(h)'
    BY <2>3, <2>5 DEF UniqueLocal, Ordered, Critical, ReadsRecord
  <2> QED BY <1>1, <1>2, <1>5, <2>5, <2>6, QuietKeepsUnique DEF StoredGet
<1>6. CASE StoredSave(h)
  <2>1. OthersStay(h) /\ MutexMove(h) /\ pc'[h] = "storedGet" /\ ReadsRecord(h)
    BY <1>0, <1>6 DEF StoredSave, Goto, TypeOK, OthersStay, MutexMove, ReadsRecord
  <2> QED BY <1>1, <1>2, <1>6, <2>1, WriteBackKeepsUnique DEF StoredSave
<1> QED BY <1>3, <1>4, <1>5, <1>6 DEF ReadStep

LEMMA RemoveKeepsUnique ==
    ASSUME ExclusiveTasks, StoreWorks, UniqueInv, OwnInv', NEW h \in Handlers,
           RemoveStep(h)
    PROVE  UniqueInv' /\ [Promise!Next]_(Promise!promiseVars)
<1> USE DEF historyVars
<1>0. TypeOK /\ TypeInv /\ UniqueLocal(h)
  BY DEF UniqueInv, OwnInv, TypeInv
<1>1. [Promise!Next]_(Promise!promiseVars)
  BY QuietStep DEF RemoveStep, Delete, DeleteFailed, CancelGet, CancelSkip, CancelSave
<1>2. AnswersIndexed
  BY SameAnswersIndexed
  DEF RemoveStep, Delete, DeleteFailed, CancelGet, CancelSkip, CancelSave
<1>3. CASE Delete(h)
  <2>1. OthersStay(h) /\ MutexMove(h) /\ pc'[h] = "cancelGet"
    BY <1>0, <1>3 DEF Delete, Goto, TypeOK, OthersStay, MutexMove
  <2>2. UniqueLocal(h)'
    BY <2>1 DEF UniqueLocal, Critical, ReadsRecord
  <2> QED BY <1>1, <1>2, <1>3, <2>1, <2>2, QuietKeepsUnique DEF Delete
<1>4. CASE DeleteFailed(h) \/ CancelSkip(h)
  <2>1. Return(h) /\ UNCHANGED storeVars
    BY <1>4 DEF DeleteFailed, CancelSkip
  <2> QED BY <1>1, <1>2, <2>1, ReturnMoves, QuietKeepsUnique
<1>5. CASE CancelGet(h)
  <2> DEFINE r == WithStatus(Get(req[h].task), "canceled")
  <2>1. req[h].task \in Tasks /\ Get(req[h].task) # NoRecord
    BY <1>0, <1>5 DEF CancelGet, TypeInv, ReqShape, IdRequests
  <2>2. Ordered(r) /\ byTask[r.task] # NoRecord
    BY <2>1, StoredRecordOrdered DEF Statuses
  <2>3. rec' = [rec EXCEPT ![h] = r]
    BY <1>5 DEF CancelGet
  <2> HIDE DEF r
  <2>4. /\ rec'[h] = r /\ pc'[h] = "cancelSave" /\ byTask' = byTask
        /\ OthersStay(h) /\ MutexMove(h)
    BY <1>0, <1>5, <2>3 DEF CancelGet, Goto, TypeOK, OthersStay, MutexMove, storeVars
  <2>5. UniqueLocal(h)'
    BY <2>2, <2>4 DEF UniqueLocal, Ordered, Critical, ReadsRecord
  <2> QED BY <1>1, <1>2, <1>5, <2>4, <2>5, QuietKeepsUnique DEF CancelGet
<1>6. CASE CancelSave(h)
  BY <1>1, <1>2, <1>6, ReturnMoves, WriteBackKeepsUnique DEF CancelSave, ReadsRecord
<1> QED BY <1>3, <1>4, <1>5, <1>6 DEF RemoveStep

LEMMA EnvironmentKeepsUnique ==
    ASSUME RecordsOutlive, UniqueInv, OwnInv', CloudMoves \/ Crash \/ UNCHANGED vars
    PROVE  UniqueInv' /\ [Promise!Next]_(Promise!promiseVars)
<1> USE DEF historyVars
<1>1. CASE CloudMoves \/ UNCHANGED vars
  <2>1. UNCHANGED <<storeVars, mutex, pc, req, rec, issued, answered>>
    BY <1>1 DEF CloudMoves, vars, storeVars
  <2>2. \A g \in Handlers : UniqueLocal(g)'
    BY <2>1 DEF UniqueInv, UniqueLocal, Ordered, Critical, ReadsRecord, HasClient,
                KeyOfRequest, storeVars
  <2>3. IndexTotal'
    BY <2>1 DEF UniqueInv, IndexTotal, storeVars, clientKey
  <2> QED BY <2>1, <2>2, <2>3, QuietStep DEF UniqueInv, storeVars, Ordered
<1>2. CASE Crash
  <2>1. Backend # "memory"
    BY <1>2, FaultsAssumption DEF Crash, RecordsOutlive, UniqueInv, OwnInv, TypeInv, TypeOK
  <2>2. UNCHANGED <<storeVars, issued, answered>>
    BY <1>2, <2>1 DEF Crash, StoreRestart, migrate
  <2>3. \A g \in Handlers : UniqueLocal(g)'
    BY <1>2 DEF Crash, UniqueLocal, Critical, ReadsRecord
  <2>4. IndexTotal'
    BY <2>2 DEF UniqueInv, IndexTotal, storeVars, clientKey
  <2> QED BY <2>2, <2>3, <2>4, QuietStep DEF UniqueInv, storeVars, Ordered
<1> QED BY <1>1, <1>2

LEMMA InitUnique == Init => UniqueInv /\ Promise!Init
<1> SUFFICES ASSUME Init PROVE UniqueInv /\ Promise!Init
  OBVIOUS
<1>1. OwnInv
  BY InitOwn
<1>2. /\ IndexTotal
      /\ \A t \in Tasks : byTask[t] # NoRecord => Ordered(byTask[t])
      /\ \A k \in Keys : \A t \in answered[k] : byClient[k] = t
  BY DEF Init, StoreInit, IndexTotal
<1>3. \A h \in Handlers : UniqueLocal(h)
  BY DEF Init, UniqueLocal, Critical, ReadsRecord
<1> QED BY <1>1, <1>2, <1>3 DEF UniqueInv, Init, Promise!Init

LEMMA OwnInductive == OwnInv /\ [Next]_vars => OwnInv'
  BY ArriveKeepsOwn, AddKeepsOwn, ReadKeepsOwn, RemoveKeepsOwn, EnvironmentKeepsOwn,
     StutterOwn DEF Next, Step

LEMMA UniqueInductive ==
    ASSUME ExclusiveTasks, StoreWorks, RecordsOutlive
    PROVE  UniqueInv /\ [Next]_vars => UniqueInv' /\ [Promise!Next]_(Promise!promiseVars)
<1> SUFFICES ASSUME UniqueInv, [Next]_vars
             PROVE  UniqueInv' /\ [Promise!Next]_(Promise!promiseVars)
  OBVIOUS
<1>1. OwnInv'
  BY OwnInductive DEF UniqueInv
<1> QED BY <1>1, ArriveKeepsUnique, AddKeepsUnique, ReadKeepsUnique, RemoveKeepsUnique,
           EnvironmentKeepsUnique DEF Next, Step

(* AddOfflineTask implements the idempotency promise for any number of     *)
(* handlers, keys and tasks, with lost provider answers and restarts, if   *)
(* store calls do not fail, restarts keep the records and every task is    *)
(* ordered in one way only.                                                *)
THEOREM PromiseKept ==
    ASSUME ExclusiveTasks, StoreWorks, RecordsOutlive
    PROVE  Spec => IdempotencyPromise
<1>1. Init => UniqueInv /\ Promise!Init
  BY InitUnique
<1>2. UniqueInv /\ [Next]_vars => UniqueInv' /\ [Promise!Next]_(Promise!promiseVars)
  BY UniqueInductive
<1> QED BY <1>1, <1>2, PTL DEF Spec, IdempotencyPromise, Promise!Spec

-----------------------------------------------------------------------------
(* Without lost answers and restarts the provider sees a key only once.    *)

Putting(h, k, t) ==
    /\ pc[h] = "put"
    /\ HasClient(req[h])
    /\ KeyOfRequest(req[h]) = k
    /\ req[h].task = t

Accounted(k, t) == byClient[k] = t \/ \E h \in Handlers : Putting(h, k, t)

OnceInv ==
    /\ UniqueInv
    /\ \A k \in Keys, t \in Tasks :
          issued[k][t] <= 1 /\ (issued[k][t] > 0 => Accounted(k, t))

LEMMA OnceImplies == OnceInv => SubmittedOnce
<1> SUFFICES ASSUME OnceInv, NEW k \in Keys, NEW t \in Tasks, NEW u \in Tasks,
                    issued[k][t] > 0, issued[k][u] > 0
             PROVE  t = u
  BY DEF SubmittedOnce, OnceInv
<1>1. Accounted(k, t) /\ Accounted(k, u)
  BY DEF OnceInv
<1>2. ASSUME NEW h \in Handlers, NEW v, Putting(h, k, v)
      PROVE  mutex = h /\ byClient[k] = NoTask
  BY <1>2 DEF Putting, OnceInv, UniqueInv, UniqueLocal, Critical
<1> QED BY <1>1, <1>2, NullsAssumption DEF Accounted, Putting

(* Steps that neither submit nor store a new task.                         *)
LEMMA CarryOnce ==
    ASSUME OnceInv, UniqueInv', UNCHANGED <<issued, byClient>>,
           \A g \in Handlers : pc[g] = "put" => pc'[g] = "put" /\ req'[g] = req[g]
    PROVE  OnceInv'
  BY DEF OnceInv, Accounted, Putting, HasClient, KeyOfRequest

LEMMA SubmitKeepsOnce ==
    ASSUME OnceInv, UniqueInv', NEW h \in Handlers, Submit(h)
    PROVE  OnceInv'
<1>0. TypeOK /\ UniqueLocal(h) /\ TypeInv
  BY DEF OnceInv, UniqueInv, OwnInv, TypeInv
<1>1. /\ req[h] \in AddRequests /\ req[h].task \in Tasks /\ pc[h] = "submit"
      /\ byClient' = byClient
  BY <1>0 DEF Submit, Goto, TypeInv, ReqShape, AddRequests, storeVars
<1>2. \A g \in Handlers : \A k, t : Putting(g, k, t) => Putting(g, k, t)'
  BY <1>0, <1>1 DEF Submit, Goto, TypeOK, Putting, HasClient, KeyOfRequest
<1>3. CASE ~HasClient(req[h])
  BY <1>1, <1>2, <1>3 DEF Submit, CloudAdd, OnceInv, Accounted
<1>4. CASE HasClient(req[h])
  <2> DEFINE k == KeyOfRequest(req[h])
             t == req[h].task
  <2>1. k \in Keys /\ byClient[k] = NoTask /\ mutex = h
    BY <1>0, <1>1, <1>4, RequestKeyFacts DEF UniqueLocal, Critical
  <2>2. \A u \in Tasks : ~Accounted(k, u)
    <3> SUFFICES ASSUME NEW u \in Tasks, Accounted(k, u) PROVE FALSE
      OBVIOUS
    <3>1. PICK g \in Handlers : Putting(g, k, u)
      BY <2>1, NullsAssumption DEF Accounted
    <3>2. mutex = g /\ pc[g] = "put"
      BY <3>1 DEF Putting, OnceInv, UniqueInv, UniqueLocal, Critical
    <3> QED BY <1>1, <2>1, <3>2
  <2>3. issued' = [issued EXCEPT ![k][t] = IF @ < 2 THEN @ + 1 ELSE 2]
    BY <1>4 DEF Submit, CloudAdd
  <2>4. \A j, u : j = k /\ u = t => Putting(h, j, u)'
    BY <1>0, <1>1, <1>4 DEF Submit, Goto, TypeOK, Putting, HasClient, KeyOfRequest
  <2> HIDE DEF k, t
  <2>5. \A u \in Tasks : issued[k][u] = 0
    BY <1>0, <2>1, <2>2 DEF OnceInv, TypeOK
  <2>6. t \in Tasks
    BY <1>1 DEF t
  <2>7. \A j \in Keys, u \in Tasks :
            issued'[j][u] = IF j = k /\ u = t THEN 1 ELSE issued[j][u]
    BY <1>0, <2>1, <2>3, <2>5, <2>6 DEF TypeOK
  <2>8. \A j, u : j = k /\ u = t => Accounted(j, u)'
    BY <2>4 DEF Accounted
  <2>9. \A j \in Keys, u \in Tasks : Accounted(j, u) => Accounted(j, u)'
    BY <1>1, <1>2 DEF Accounted
  <2>10. \A j \in Keys, u \in Tasks :
            issued'[j][u] <= 1 /\ (issued'[j][u] > 0 => Accounted(j, u)')
    <3> SUFFICES ASSUME NEW j \in Keys, NEW u \in Tasks
                 PROVE  issued'[j][u] <= 1 /\ (issued'[j][u] > 0 => Accounted(j, u)')
      OBVIOUS
    <3>1. CASE j = k /\ u = t
      <4>1. issued'[j][u] = 1
        BY <2>7, <3>1
      <4> QED BY <4>1, <2>8, <3>1
    <3>2. CASE ~(j = k /\ u = t)
      <4>1. issued'[j][u] = issued[j][u]
        BY <2>7, <3>2
      <4>2. issued[j][u] <= 1 /\ (issued[j][u] > 0 => Accounted(j, u))
        BY DEF OnceInv
      <4> QED BY <4>1, <4>2, <2>9
    <3> QED BY <3>1, <3>2
  <2> QED BY <2>10 DEF OnceInv
<1> QED BY <1>3, <1>4

LEMMA PutKeepsOnce ==
    ASSUME ExclusiveTasks, StoreWorks, OnceInv, UniqueInv', NEW h \in Handlers,
           PutTask(h)
    PROVE  OnceInv'
<1>0. TypeOK /\ UniqueLocal(h) /\ TypeInv /\ UniqueInv
  BY DEF OnceInv, UniqueInv, OwnInv, TypeInv
<1>1. /\ byClient' = [k \in Keys |-> IF k = KeyOfRequest(req[h])
                                     THEN req[h].task ELSE byClient[k]]
      /\ UNCHANGED issued
  BY <1>0, PutExtendsIndex DEF PutTask
<1>2. \A g \in Handlers \ {h} : pc'[g] = pc[g] /\ req'[g] = req[g]
  BY <1>0 DEF PutTask, Return, TypeOK
<1>3. HasClient(req[h]) => byClient[KeyOfRequest(req[h])] = NoTask
  BY <1>0 DEF PutTask, UniqueLocal
<1>4. \A k \in Keys, t \in Tasks : Accounted(k, t) => Accounted(k, t)'
  <2> SUFFICES ASSUME NEW k \in Keys, NEW t \in Tasks, Accounted(k, t)
               PROVE  Accounted(k, t)'
    OBVIOUS
  <2>1. CASE byClient[k] = t
    <3>1. k = KeyOfRequest(req[h]) => HasClient(req[h])
      BY <1>0, RequestKeyFacts DEF PutTask, TypeInv, ReqShape
    <3> QED BY <1>1, <1>3, <2>1, <3>1, NullsAssumption DEF Accounted
  <2>2. CASE Putting(h, k, t)
    BY <1>1, <2>2 DEF Putting, Accounted
  <2>3. ASSUME NEW g \in Handlers \ {h}, Putting(g, k, t) PROVE Accounted(k, t)'
    BY <1>2, <2>3 DEF Putting, Accounted, HasClient, KeyOfRequest
  <2> QED BY <2>1, <2>2, <2>3 DEF Accounted
<1> QED BY <1>1, <1>4 DEF OnceInv

(* The index is left alone by every handler step that stores no new task.  *)
LEMMA IndexStays ==
    ASSUME ExclusiveTasks, StoreWorks, UniqueInv, NEW h \in Handlers,
           ReadsRecord(h), TryUpdate(rec[h])
    PROVE  byClient' = byClient
  BY UpdateKeepsIndex
  DEF ReadsRecord, UniqueInv, UniqueLocal, OwnInv, TypeInv, ReqShape

LEMMA StepKeepsOnce ==
    ASSUME ExclusiveTasks, StoreWorks, ~LostAnswers, OnceInv, UniqueInv',
           NEW h \in Handlers, Arrive(h) \/ Step(h)
    PROVE  OnceInv'
<1>0. TypeOK /\ UniqueInv
  BY DEF OnceInv, UniqueInv, OwnInv, TypeInv
<1>1. CASE Submit(h)
  BY <1>1, SubmitKeepsOnce
<1>2. CASE PutTask(h)
  BY <1>2, PutKeepsOnce
<1>3. CASE RefreshSave(h) \/ StoredSave(h) \/ CancelSave(h)
  <2>1. byClient' = byClient
    BY <1>0, <1>3, IndexStays DEF RefreshSave, StoredSave, CancelSave, Goto, ReadsRecord
  <2>2. UNCHANGED issued
    BY <1>3 DEF RefreshSave, StoredSave, CancelSave, historyVars
  <2>3. \A g \in Handlers : pc[g] = "put" => pc'[g] = "put" /\ req'[g] = req[g]
    BY <1>0, <1>3 DEF RefreshSave, StoredSave, CancelSave, Goto, Return, TypeOK
  <2> QED BY <2>1, <2>2, <2>3, CarryOnce
<1>4. CASE \/ Lock(h) \/ LookupHit(h) \/ LookupMiss(h) \/ Refresh(h)
           \/ Query(h) \/ QueryFailed(h) \/ ListPage(h) \/ StoredGet(h) \/ StoredSkip(h)
           \/ Delete(h) \/ CancelGet(h)
  <2> USE DEF Lock, LookupHit, LookupMiss, Refresh, Query, QueryFailed, ListPage,
              StoredGet, StoredSkip, Delete, CancelGet
  <2>1. UNCHANGED <<issued, byClient>>
    BY <1>4 DEF historyVars, storeVars
  <2>2. \A g \in Handlers : pc[g] = "put" => pc'[g] = "put" /\ req'[g] = req[g]
    BY <1>0, <1>4 DEF Goto, TypeOK
  <2> QED BY <2>1, <2>2, CarryOnce
<1>5. CASE \/ RefreshFailed(h) \/ SubmitFailed(h) \/ Fallback(h) \/ ListNothing(h)
           \/ StoredDone(h) \/ DeleteFailed(h) \/ CancelSkip(h)
  <2> USE DEF RefreshFailed, SubmitFailed, Fallback, ListNothing, StoredDone,
              DeleteFailed, CancelSkip
  <2>1. UNCHANGED <<issued, byClient>>
    BY <1>5 DEF historyVars, storeVars
  <2>2. \A g \in Handlers : pc[g] = "put" => pc'[g] = "put" /\ req'[g] = req[g]
    BY <1>0, <1>5 DEF Return, TypeOK
  <2> QED BY <2>1, <2>2, CarryOnce
<1>6. CASE Arrive(h)
  <2>1. \E r, first : Accept(h, r, first)
    BY <1>6 DEF Arrive, AcceptAdd, AcceptGet, AcceptRemove, AcceptList
  <2>2. UNCHANGED <<issued, byClient>>
    BY <2>1 DEF Accept, historyVars, storeVars
  <2>3. \A g \in Handlers : pc[g] = "put" => pc'[g] = "put" /\ req'[g] = req[g]
    BY <1>0, <2>1 DEF Accept, Goto, TypeOK
  <2> QED BY <2>2, <2>3, CarryOnce
<1> QED BY <1>1, <1>2, <1>3, <1>4, <1>5, <1>6
        DEF Step, AddStep, ReadStep, RemoveStep, SubmitLost

(* At most one submission per client key reaches the provider, for any     *)
(* number of concurrent and repeated Add requests, as long as store calls  *)
(* do not fail, no provider answer is lost, the process is not restarted   *)
(* and every task is ordered in one way only.                              *)
THEOREM AtMostOnce ==
    ASSUME ExclusiveTasks, StoreWorks, ~LostAnswers, MaxCrashes = 0
    PROVE  Spec => []SubmittedOnce
<1>1. Init => OnceInv
  BY InitUnique DEF OnceInv, Init
<1>2. OnceInv /\ [Next]_vars => OnceInv'
  <2> SUFFICES ASSUME OnceInv, [Next]_vars PROVE OnceInv'
    OBVIOUS
  <2>1. UniqueInv'
    BY UniqueInductive DEF RecordsOutlive, OnceInv
  <2>2. CASE CloudMoves \/ UNCHANGED vars
    BY <2>1, <2>2, CarryOnce DEF CloudMoves, vars, historyVars, storeVars
  <2>3. CASE Crash
    BY <2>3 DEF Crash, OnceInv, UniqueInv, OwnInv, TypeInv, TypeOK
  <2>4. CASE \E h \in Handlers : Arrive(h) \/ Step(h)
    BY <2>1, <2>4, StepKeepsOnce
  <2> QED BY <2>2, <2>3, <2>4 DEF Next
<1> QED BY <1>1, <1>2, OnceImplies, PTL DEF Spec
=============================================================================
