---------------------------- MODULE OfflineTasks ----------------------------
(***************************************************************************)
(* The offline-task handlers (internal/modules/driver/handler.go) running  *)
(* concurrently over the record store and the provider's task list.        *)
(*                                                                         *)
(* A handler is a goroutine that serves one request at a time.  Every call *)
(* it makes to the provider or to the store is one step, so requests       *)
(* interleave between any two calls.  Add requests that carry a client task*)
(* id hold idempotencyMu from the lookup to the return; the others take no *)
(* lock at all.                                                            *)
(*                                                                         *)
(* The provider is external: the driver (drivers/pan115) forwards to it    *)
(* and maps its status codes.  A provider call may fail at any time (no    *)
(* login, network, a task that is not on page 1 of the listing).           *)
(***************************************************************************)
EXTENDS OfflineStore, Naturals

CONSTANTS
    Handlers,      \* goroutines serving requests
    NoHandler,     \* idempotencyMu is free
    NoRequest,     \* a handler with nothing to do
    Orders,        \* the Add requests clients may send: <<profile, client, task>>
    CloudSteps,    \* how the provider may move a task: <<raw code, raw code>>
    StoreFaults,   \* may store calls fail?
    LostAnswers,   \* may the provider accept a task and its answer be lost?
    LegacyIds,     \* may requests name a task by the bare provider id?
    MaxCrashes     \* bound on process restarts

RawCodes == {"todo", "running", "done", "failed", "other"}

ASSUME HandlersAssumption == NoHandler \notin Handlers
ASSUME OrdersAssumption == Orders \subseteq Profiles \X (Clients \cup {NoClient}) \X Tasks
ASSUME CloudAssumption == CloudSteps \subseteq RawCodes \X RawCodes
ASSUME FaultsAssumption ==
    /\ StoreFaults \in BOOLEAN
    /\ LostAnswers \in BOOLEAN
    /\ LegacyIds \in BOOLEAN
    /\ MaxCrashes \in Nat

VARIABLES
    cloud,      \* profile -> task -> raw code, or "absent"
    mutex,      \* holder of idempotencyMu
    pc,         \* handler -> the call it makes next
    req,        \* handler -> the request it serves
    rec,        \* handler -> the record it read and is about to write back
    todo,       \* handler -> tasks the provider reported and still to be stored
    issued,     \* history: key -> task -> provider submissions, counted up to 2
    answered,   \* history: key -> tasks that Add requests were answered with
    crashes     \* process restarts so far

vars == <<byTask, byClient, cloud, mutex, pc, req, rec, todo, issued, answered, crashes>>

historyVars == <<issued, answered>>

(* A path parameter :id is a task id or, as ProviderTaskID also accepts,   *)
(* the bare provider id; the store knows the former only.                  *)
IdForms == IF LegacyIds THEN {"unified", "legacy"} ELSE {"unified"}

AddRequests == [op : {"add"}, profile : Profiles, client : Clients \cup {NoClient},
                task : Tasks]
IdRequests == [op : {"get", "remove"}, profile : Profiles, task : Tasks,
               id : IdForms]
ListRequests == [op : {"list"}, profile : Profiles]
Requests == AddRequests \cup IdRequests \cup ListRequests

HasClient(r) == r.client # NoClient
KeyOfRequest(r) == <<r.profile, r.client>>

(* mapOfflineStatus *)
mapOfflineStatus(raw) ==
    CASE raw = "todo"    -> "pending"
      [] raw = "running" -> "running"
      [] raw = "done"    -> "completed"
      [] raw = "failed"  -> "failed"
      [] OTHER           -> "unknown"

Reported == Tasks \X {mapOfflineStatus(raw) : raw \in RawCodes}

PcValues == {"idle", "lock", "lookup", "refresh", "refreshSave", "submit", "put",
             "query", "fallback", "storedGet", "storedSave",
             "delete", "cancelGet", "cancelSave", "list"}

Init ==
    /\ StoreInit
    /\ cloud = [p \in Profiles |-> [t \in Tasks |-> "absent"]]
    /\ mutex = NoHandler
    /\ pc = [h \in Handlers |-> "idle"]
    /\ req = [h \in Handlers |-> NoRequest]
    /\ rec = [h \in Handlers |-> NoRecord]
    /\ todo = [h \in Handlers |-> {}]
    /\ issued = [k \in Keys |-> [t \in Tasks |-> 0]]
    /\ answered = [k \in Keys |-> {}]
    /\ crashes = 0

-----------------------------------------------------------------------------
(* Helpers of the handlers' steps.                                         *)

Goto(h, from, to) ==
    /\ pc[h] = from
    /\ pc' = [pc EXCEPT ![h] = to]

(* Slip: Unlock is not deferred and the return path forgets it.            *)
ReturnLocked(h) ==
    /\ pc' = [pc EXCEPT ![h] = "idle"]
    /\ req' = [req EXCEPT ![h] = NoRequest]
    /\ rec' = [rec EXCEPT ![h] = NoRecord]
    /\ todo' = [todo EXCEPT ![h] = {}]
    /\ UNCHANGED mutex

(* The handler returns; the deferred Unlock runs if it holds the mutex.    *)
Return(h) ==
    /\ pc' = [pc EXCEPT ![h] = "idle"]
    /\ req' = [req EXCEPT ![h] = NoRequest]
    /\ rec' = [rec EXCEPT ![h] = NoRecord]
    /\ todo' = [todo EXCEPT ![h] = {}]
    /\ mutex' = IF mutex = h THEN NoHandler ELSE mutex

(* An Add request that carries a client task id is answered with a task.   *)
AnswerAdd(r, t) ==
    IF HasClient(r)
    THEN answered' = [answered EXCEPT ![KeyOfRequest(r)] = @ \cup {t}]
    ELSE UNCHANGED answered

(* The provider accepts the task; one it has already keeps its state.      *)
CloudAdd(r) ==
    /\ cloud' = [cloud EXCEPT ![r.profile][r.task] = IF @ = "absent" THEN "todo" ELSE @]
    /\ IF HasClient(r)
       THEN issued' = [issued EXCEPT ![KeyOfRequest(r)][r.task] = IF @ < 2 THEN @ + 1 ELSE 2]
       ELSE UNCHANGED issued

(* What the handler hands to the store after it read a record r: the whole *)
(* record with the task replaced.                                          *)
WithStatus(r, status) == [r EXCEPT !.status = status]

(* A store write, or its failure, which every handler only logs.           *)
TryPut(r) == Put(r) \/ (StoreFaults /\ UNCHANGED storeVars)
TryUpdate(r) == Update(r) \/ (StoreFaults /\ UNCHANGED storeVars)

-----------------------------------------------------------------------------
(* A request arrives.                                                      *)

Accept(h, r, first) ==
    /\ Goto(h, "idle", first)
    /\ req' = [req EXCEPT ![h] = r]
    /\ UNCHANGED <<storeVars, cloud, mutex, rec, todo, historyVars, crashes>>

AcceptAdd(h) ==
    \E order \in Orders :
        LET r == [op |-> "add", profile |-> order[1], client |-> order[2], task |-> order[3]]
        IN  Accept(h, r, IF HasClient(r) THEN "lock" ELSE "submit")

AcceptGet(h) ==
    \E p \in Profiles, t \in Tasks, id \in IdForms :
        Accept(h, [op |-> "get", profile |-> p, task |-> t, id |-> id], "query")

AcceptRemove(h) ==
    \E p \in Profiles, t \in Tasks, id \in IdForms :
        Accept(h, [op |-> "remove", profile |-> p, task |-> t, id |-> id], "delete")

AcceptList(h) ==
    \E p \in Profiles : Accept(h, [op |-> "list", profile |-> p], "list")

-----------------------------------------------------------------------------
(* AddOfflineTask                                                          *)

(* Slip: the lookup is made without idempotencyMu.                         *)
LockSkipped(h) ==
    /\ Goto(h, "lock", "lookup")
    /\ UNCHANGED <<storeVars, cloud, mutex, req, rec, todo, historyVars, crashes>>

Lock(h) ==
    /\ mutex = NoHandler
    /\ Goto(h, "lock", "lookup")
    /\ mutex' = h
    /\ UNCHANGED <<storeVars, cloud, req, rec, todo, historyVars, crashes>>

LookupHit(h) ==
    LET found == GetByClientTask(KeyOfRequest(req[h]))
    IN  /\ pc[h] = "lookup"
        /\ found # NoRecord
        /\ Goto(h, "lookup", "refresh")
        /\ rec' = [rec EXCEPT ![h] = found]
        /\ UNCHANGED <<storeVars, cloud, mutex, req, todo, historyVars, crashes>>

(* A failed SELECT reads as "no such record".                              *)
LookupMiss(h) ==
    /\ pc[h] = "lookup"
    /\ GetByClientTask(KeyOfRequest(req[h])) = NoRecord \/ StoreFaults
    /\ Goto(h, "lookup", "submit")
    /\ UNCHANGED <<storeVars, cloud, mutex, req, rec, todo, historyVars, crashes>>

(* refreshOfflineTask: the provider knows the task.                        *)
Refresh(h) ==
    LET raw == cloud[req[h].profile][rec[h].task]
    IN  /\ pc[h] = "refresh"
        /\ raw # "absent"
        /\ Goto(h, "refresh", "refreshSave")
        /\ rec' = [rec EXCEPT ![h] = WithStatus(@, mapOfflineStatus(raw))]
        /\ UNCHANGED <<storeVars, cloud, mutex, req, todo, historyVars, crashes>>

(* refreshOfflineTask: the query failed, the stored task is the answer.    *)
RefreshFailed(h) ==
    /\ pc[h] = "refresh"
    /\ AnswerAdd(req[h], rec[h].task)
    /\ Return(h)
    /\ UNCHANGED <<storeVars, cloud, issued, crashes>>

RefreshSave(h) ==
    /\ pc[h] = "refreshSave"
    /\ TryUpdate(rec[h])
    /\ AnswerAdd(req[h], rec[h].task)
    /\ Return(h)
    /\ UNCHANGED <<cloud, issued, crashes>>

Submit(h) ==
    /\ Goto(h, "submit", "put")
    /\ CloudAdd(req[h])
    /\ UNCHANGED <<storeVars, mutex, req, rec, todo, answered, crashes>>

(* The driver returns an error and the provider has no new task.           *)
SubmitFailed(h) ==
    /\ pc[h] = "submit"
    /\ Return(h)
    /\ UNCHANGED <<storeVars, cloud, historyVars, crashes>>

(* The provider accepted the task but its answer did not arrive.           *)
SubmitLost(h) ==
    /\ LostAnswers
    /\ pc[h] = "submit"
    /\ CloudAdd(req[h])
    /\ Return(h)
    /\ UNCHANGED <<storeVars, answered, crashes>>

(* Slip: the record keeps the provider's code instead of the status.       *)
NewRecordRaw(r) ==
    [profile |-> r.profile, client |-> r.client, task |-> r.task, status |-> "todo"]

(* putOfflineTask                                                          *)
NewRecord(r) ==
    [profile |-> r.profile, client |-> r.client, task |-> r.task, status |-> "pending"]

PutTask(h) ==
    /\ pc[h] = "put"
    /\ TryPut(NewRecord(req[h]))
    /\ AnswerAdd(req[h], req[h].task)
    /\ Return(h)
    /\ UNCHANGED <<cloud, issued, crashes>>

-----------------------------------------------------------------------------
(* GetOfflineTask and ListOfflineTasks                                     *)

Query(h) ==
    LET r == req[h]
        raw == cloud[r.profile][r.task]
    IN  /\ pc[h] = "query"
        /\ raw # "absent"
        /\ Goto(h, "query", "storedGet")
        /\ todo' = [todo EXCEPT ![h] = {<<r.task, mapOfflineStatus(raw)>>}]
        /\ UNCHANGED <<storeVars, cloud, mutex, req, rec, historyVars, crashes>>

QueryFailed(h) ==
    /\ Goto(h, "query", "fallback")
    /\ UNCHANGED <<storeVars, cloud, mutex, req, rec, todo, historyVars, crashes>>

(* getStoredOfflineTask: only reads, whatever it finds is the answer.      *)
Fallback(h) ==
    /\ pc[h] = "fallback"
    /\ Return(h)
    /\ UNCHANGED <<storeVars, cloud, historyVars, crashes>>

(* Page 1 of the profile's list, which need not hold every task.           *)
ListPage(h) ==
    LET p == req[h].profile
    IN  /\ pc[h] = "list"
        /\ \E page \in SUBSET {t \in Tasks : cloud[p][t] # "absent"} :
              /\ page # {}
              /\ todo' = [todo EXCEPT ![h] = {<<t, mapOfflineStatus(cloud[p][t])>> : t \in page}]
        /\ Goto(h, "list", "storedGet")
        /\ UNCHANGED <<storeVars, cloud, mutex, req, rec, historyVars, crashes>>

(* The provider call failed, or the page is empty.                         *)
ListNothing(h) ==
    /\ pc[h] = "list"
    /\ Return(h)
    /\ UNCHANGED <<storeVars, cloud, historyVars, crashes>>

(* updateStoredOfflineTask, first half: the record of one reported task is *)
(* read, checked against the profile and given the reported status.        *)
StoredGet(h) ==
    /\ pc[h] = "storedGet"
    /\ \E x \in todo[h] :
          LET found == Get(x[1])
          IN  /\ found # NoRecord
              /\ found.profile = req[h].profile
              /\ rec' = [rec EXCEPT ![h] = WithStatus(found, x[2])]
              /\ todo' = [todo EXCEPT ![h] = @ \ {x}]
    /\ Goto(h, "storedGet", "storedSave")
    /\ UNCHANGED <<storeVars, cloud, mutex, req, historyVars, crashes>>

(* No record, one of another profile, or a failed SELECT: nothing to store.*)
StoredSkip(h) ==
    /\ pc[h] = "storedGet"
    /\ \E x \in todo[h] :
          /\ \/ Get(x[1]) = NoRecord
             \/ Get(x[1]) # NoRecord /\ Get(x[1]).profile # req[h].profile
             \/ StoreFaults
          /\ todo' = [todo EXCEPT ![h] = @ \ {x}]
    /\ UNCHANGED <<storeVars, cloud, mutex, pc, req, rec, historyVars, crashes>>

(* updateStoredOfflineTask, second half: the record read before is written.*)
StoredSave(h) ==
    /\ Goto(h, "storedSave", "storedGet")
    /\ TryUpdate(rec[h])
    /\ rec' = [rec EXCEPT ![h] = NoRecord]
    /\ UNCHANGED <<cloud, mutex, req, todo, historyVars, crashes>>

(* Every reported task has been looked at; the request is answered.        *)
StoredDone(h) ==
    /\ pc[h] = "storedGet"
    /\ todo[h] = {}
    /\ Return(h)
    /\ UNCHANGED <<storeVars, cloud, historyVars, crashes>>

-----------------------------------------------------------------------------
(* RemoveOfflineTask                                                       *)

Delete(h) ==
    LET r == req[h]
    IN  /\ Goto(h, "delete", "cancelGet")
        /\ cloud' = [cloud EXCEPT ![r.profile][r.task] = "absent"]
        /\ UNCHANGED <<storeVars, mutex, req, rec, todo, historyVars, crashes>>

(* The driver returns an error, with or without effect at the provider.    *)
DeleteFailed(h) ==
    LET r == req[h]
    IN  /\ pc[h] = "delete"
        /\ \/ UNCHANGED cloud
           \/ LostAnswers /\ cloud' = [cloud EXCEPT ![r.profile][r.task] = "absent"]
        /\ Return(h)
        /\ UNCHANGED <<storeVars, historyVars, crashes>>

(* markStoredOfflineTaskCanceled: the id is looked up as the request wrote *)
(* it, so a legacy id never finds the record.                              *)
CancelGet(h) ==
    LET found == Get(req[h].task)
    IN  /\ pc[h] = "cancelGet"
        /\ req[h].id = "unified"
        /\ found # NoRecord
        /\ found.profile = req[h].profile
        /\ rec' = [rec EXCEPT ![h] = WithStatus(found, "canceled")]
        /\ Goto(h, "cancelGet", "cancelSave")
        /\ UNCHANGED <<storeVars, cloud, mutex, req, todo, historyVars, crashes>>

CancelSkip(h) ==
    LET found == Get(req[h].task)
    IN  /\ pc[h] = "cancelGet"
        /\ \/ req[h].id = "legacy"
           \/ found = NoRecord
           \/ found # NoRecord /\ found.profile # req[h].profile
           \/ StoreFaults
        /\ Return(h)
        /\ UNCHANGED <<storeVars, cloud, historyVars, crashes>>

CancelSave(h) ==
    /\ pc[h] = "cancelSave"
    /\ TryUpdate(rec[h])
    /\ Return(h)
    /\ UNCHANGED <<cloud, historyVars, crashes>>

-----------------------------------------------------------------------------
(* The environment                                                         *)

(* The provider works on a task.                                           *)
CloudMoves ==
    /\ \E p \in Profiles, t \in Tasks, step \in CloudSteps :
          /\ cloud[p][t] = step[1]
          /\ cloud' = [cloud EXCEPT ![p][t] = step[2]]
    /\ UNCHANGED <<storeVars, mutex, pc, req, rec, todo, historyVars, crashes>>

(* The process dies and is started again: requests in progress get no      *)
(* answer.                                                                 *)
Crash ==
    /\ crashes < MaxCrashes
    /\ crashes' = crashes + 1
    /\ StoreRestart
    /\ mutex' = NoHandler
    /\ pc' = [h \in Handlers |-> "idle"]
    /\ req' = [h \in Handlers |-> NoRequest]
    /\ rec' = [h \in Handlers |-> NoRecord]
    /\ todo' = [h \in Handlers |-> {}]
    /\ UNCHANGED <<cloud, historyVars>>

Arrive(h) == AcceptAdd(h) \/ AcceptGet(h) \/ AcceptRemove(h) \/ AcceptList(h)

AddStep(h) ==
    \/ LookupHit(h) \/ LookupMiss(h)
    \/ Refresh(h) \/ RefreshFailed(h) \/ RefreshSave(h)
    \/ Submit(h) \/ SubmitFailed(h) \/ SubmitLost(h) \/ PutTask(h)

ReadStep(h) ==
    \/ Query(h) \/ QueryFailed(h) \/ Fallback(h)
    \/ ListPage(h) \/ ListNothing(h)
    \/ StoredGet(h) \/ StoredSkip(h) \/ StoredSave(h) \/ StoredDone(h)

RemoveStep(h) ==
    \/ Delete(h) \/ DeleteFailed(h)
    \/ CancelGet(h) \/ CancelSkip(h) \/ CancelSave(h)

Step(h) == Lock(h) \/ AddStep(h) \/ ReadStep(h) \/ RemoveStep(h)

Next ==
    \/ \E h \in Handlers : Arrive(h) \/ Step(h)
    \/ CloudMoves
    \/ Crash

Spec == Init /\ [][Next]_vars

(* Every call returns (a provider call with an answer or an error), and a  *)
(* goroutine that waits for a sync.Mutex that is released again and again  *)
(* gets it (the runtime's starvation mode hands it over after 1 ms).       *)
Fairness == \A h \in Handlers : WF_vars(Step(h)) /\ SF_vars(Lock(h))

FairSpec == Spec /\ Fairness
-----------------------------------------------------------------------------
(* Every variable has its type.                                            *)
TypeOK ==
    /\ StoreTypeOK
    /\ cloud \in [Profiles -> [Tasks -> RawCodes \cup {"absent"}]]
    /\ mutex \in Handlers \cup {NoHandler}
    /\ pc \in [Handlers -> PcValues]
    /\ req \in [Handlers -> Requests \cup {NoRequest}]
    /\ rec \in [Handlers -> Records \cup {NoRecord}]
    /\ todo \in [Handlers -> SUBSET Reported]
    /\ issued \in [Keys -> [Tasks -> 0..2]]
    /\ answered \in [Keys -> SUBSET Tasks]
    /\ crashes \in 0..MaxCrashes

(* A client is only ever answered with a task that the provider accepted   *)
(* under that client's own profile and client task id - whatever races,    *)
(* store failures, displaced records, lost answers and restarts came first.*)
AnsweredOwn ==
    \A k \in Keys : \A t \in answered[k] : issued[k][t] > 0

\* No order of another client names a task that an order under k names.
Exclusive(k) ==
    \A o, u \in Orders : <<o[1], o[2]>> = k /\ u[3] = o[3] => <<u[1], u[2]>> = k

(* Idempotency (AddOfflineTask under idempotencyMu): of all Add requests   *)
(* under a client key whose tasks nobody else orders, at most one reaches  *)
(* the provider, once, whatever becomes of the other clients' records.     *)
SubmittedOnce ==
    \A k \in Keys : Exclusive(k) =>
        \A t, u \in Tasks :
            /\ issued[k][t] <= 1
            /\ issued[k][t] > 0 /\ issued[k][u] > 0 => t = u

\* Add requests between the Lock of idempotencyMu and its deferred Unlock.
Critical(h) ==
    \/ pc[h] \in {"lookup", "refresh", "refreshSave"}
    \/ pc[h] \in {"submit", "put"} /\ HasClient(req[h])

(* idempotencyMu is held by the one Add in its critical section and never  *)
(* by a request that was answered, whichever way it returned, nor across a *)
(* restart: who waits for it waits for a request that waits for no lock.   *)
MutexHeldByAdd == \A h \in Handlers : mutex = h <=> Critical(h)

Final == {"completed", "failed", "canceled"}

(* A task that has ended does not go on: until it is submitted and stored  *)
(* anew, its record keeps saying completed, failed or canceled, and unknown*)
(* does not cover that (the transitions end there, and updateStoredOffline-*)
(* Task is to store what the provider says).                               *)
FinalStatusKept ==
    [][\A t \in Tasks :
        (byTask[t] # NoRecord /\ byTask[t].status \in Final)
            => \/ byTask'[t].status \in Final
               \/ \E h \in Handlers : pc[h] = "put" /\ req[h].task = t]_vars

(* Every request is answered: the mutex is always released, on every return*)
(* path of AddOfflineTask, and a list of any length is worked off.         *)
EveryRequestAnswered ==
    \A h \in Handlers : pc[h] # "idle" ~> pc[h] = "idle"

(* What clients that name their requests are promised, with this module's  *)
(* histories as its state: after the first answer under a client key no    *)
(* request of that key reaches the provider any more and every answer is   *)
(* the same (AddOfflineTask, idempotencyMu, the records that outlive a     *)
(* restart).                                                               *)
Promise == INSTANCE IdempotentSubmission
           WITH Keys <- Keys, Tasks <- Tasks, issued <- issued, answered <- answered

IdempotencyPromise == Promise!Spec
=============================================================================
