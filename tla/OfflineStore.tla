---------------------------- MODULE OfflineStore ----------------------------
(***************************************************************************)
(* The repository of offline task records (internal/offline): one record   *)
(* per task id and one index from client keys to task ids.                 *)
(*                                                                         *)
(* MemoryStore keeps both as Go maps under one RWMutex; SQLiteStore and    *)
(* PostgresStore keep one table whose column client_key carries a unique   *)
(* index.  Every call of the interface is one atomic action here: the      *)
(* memory store holds its mutex for the whole call, and of a SQL store's   *)
(* calls only the single INSERT .. ON CONFLICT statement changes state (the*)
(* SELECT that Update makes first only feeds created_at, which that        *)
(* statement leaves alone on conflict).                                    *)
(*                                                                         *)
(* The parts of a client key are joined with a NUL byte.  SQLite keeps it; *)
(* PostgreSQL has no NUL in a TEXT value and refuses every statement that  *)
(* binds a client key, so there the column client_key is only ever null.   *)
(*                                                                         *)
(* Abstracted: the platform (one platform is registered, so it is part of  *)
(* every key and never differs), urls, paths, metadata, file lists and     *)
(* times.  A task id stands for "115:" plus the provider's hash.           *)
(***************************************************************************)

CONSTANTS
    Backend,     \* which implementation app.go opened; "postgres" by default
    Profiles,    \* profile ids
    Clients,     \* non-empty client task ids, after TrimSpace
    NoClient,    \* the empty client task id
    Tasks,       \* task ids
    NoTask,      \* an index entry that is absent
    NoRecord     \* a record that is absent

ASSUME BackendAssumption == Backend \in {"memory", "sqlite", "postgres"}
ASSUME NullsAssumption ==
    /\ NoClient \notin Clients
    /\ NoTask \notin Tasks

VARIABLES
    byTask,      \* task id -> record or NoRecord
    byClient     \* client key -> task id or NoTask

storeVars == <<byTask, byClient>>

Statuses == {"pending", "running", "completed", "failed", "canceled", "unknown"}

Records == [profile : Profiles, client : Clients \cup {NoClient},
            task : Tasks, status : Statuses]

ASSUME NoRecordAssumption == NoRecord \notin Records

Keys == Profiles \X Clients

(* clientKey: the index key of a record; a record without a client task id *)
(* has the empty key, which is never indexed.  In Keys, the pair stands for*)
(* its parts with a NUL byte in between.                                   *)
clientKey(rec) == <<rec.profile, rec.client>>

StoreInit ==
    /\ byTask = [t \in Tasks |-> NoRecord]
    /\ byClient = [k \in Keys |-> NoTask]

(* Slip: the entries of the record's earlier client key are left behind.   *)
removeNothing(index, t) == index

(* removeIndexesLocked: drop every index entry that points to the task.    *)
removeIndexesLocked(index, t) ==
    [k \in Keys |-> IF index[k] = t THEN NoTask ELSE index[k]]

(* putLocked: the record replaces the task's record and claims its key.    *)
putLocked(index, rec) ==
    /\ byTask' = [byTask EXCEPT ![rec.task] = rec]
    /\ byClient' = [k \in Keys |-> IF k = clientKey(rec) THEN rec.task ELSE index[k]]

(* Slip: the migration creates a plain index instead of a unique one.      *)
KeyNeverTaken(rec) == FALSE

(* The row that already owns the record's client key, if it is another     *)
(* task's: the unique index idx_offline_tasks_client_key refuses the write.*)
KeyTaken(rec) ==
    /\ clientKey(rec) \in Keys
    /\ byClient[clientKey(rec)] \notin {NoTask, rec.task}

(* Slip: client_key is missing among the columns that DO UPDATE sets.      *)
UpsertKeepsKey(rec) ==
    IF byTask[rec.task] = NoRecord THEN putLocked(byClient, rec)
    ELSE byTask' = [byTask EXCEPT ![rec.task] = rec] /\ UNCHANGED byClient

(* The statement INSERT .. ON CONFLICT(task_id) DO UPDATE rewrites every   *)
(* column but created_at, client_key included.                             *)
Upsert(rec) == putLocked(removeIndexesLocked(byClient, rec.task), rec)

(* The key that a statement binds has a byte that PostgreSQL's TEXT cannot *)
(* hold: the server refuses the statement.                                 *)
KeyRefused(k) == Backend = "postgres" /\ k \in Keys

(* save: on an error the statement leaves the table alone.                 *)
save(rec) ==
    IF KeyTaken(rec) \/ KeyRefused(clientKey(rec)) THEN UNCHANGED storeVars ELSE Upsert(rec)

Put(rec) ==
    IF Backend = "memory"
    THEN putLocked(removeIndexesLocked(byClient, rec.task), rec)
    ELSE save(rec)

(* Update inserts the record when the task has none.                       *)
Update(rec) ==
    IF Backend = "memory"
    THEN IF byTask[rec.task] # NoRecord
         THEN putLocked(removeIndexesLocked(byClient, rec.task), rec)
         ELSE putLocked(byClient, rec)
    ELSE save(rec)

Get(t) == byTask[t]

(* Slip: the profile is missing from the client key of the lookup.         *)
GetByClientOfAnyProfile(k) ==
    LET hits == {p \in Profiles : byClient[<<p, k[2]>>] # NoTask}
    IN  IF hits = {} THEN NoRecord ELSE byTask[byClient[<<CHOOSE p \in hits : TRUE, k[2]>>]]

(* A refused SELECT reads as "no such record", like an empty result.       *)
GetByClientTask(k) ==
    IF KeyRefused(k) \/ byClient[k] = NoTask THEN NoRecord ELSE byTask[byClient[k]]

(* No table, no map.                                                       *)
EmptyStore ==
    /\ byTask' = [t \in Tasks |-> NoRecord]
    /\ byClient' = [k \in Keys |-> NoTask]

(* Slip: the migration drops the table before it creates it.               *)
migrateAnew == EmptyStore

(* CREATE TABLE IF NOT EXISTS: the table that is there stays.              *)
migrate == UNCHANGED storeVars

(* The process stops and starts again: the maps of the memory store are    *)
(* gone, the table is still there.                                         *)
StoreRestart == IF Backend = "memory" THEN EmptyStore ELSE migrate

-----------------------------------------------------------------------------
(* The store under any calls whatever, in any order.                       *)

StoreNext ==
    \/ \E rec \in Records : Put(rec) \/ Update(rec)
    \/ StoreRestart

StoreSpec == StoreInit /\ [][StoreNext]_storeVars

-----------------------------------------------------------------------------
(* The two maps hold records under their own task id and keys of tasks.    *)
StoreTypeOK ==
    /\ byTask \in [Tasks -> Records \cup {NoRecord}]
    /\ \A t \in Tasks : byTask[t] # NoRecord => byTask[t].task = t
    /\ byClient \in [Keys -> Tasks \cup {NoTask}]

(* An index entry never dangles and never points to a record that belongs  *)
(* to another client key: a client asking with its own key can never be    *)
(* handed the task of another key or another profile (GetByClientTask).    *)
IndexSound ==
    \A k \in Keys :
        byClient[k] # NoTask =>
            /\ byTask[byClient[k]] # NoRecord
            /\ clientKey(byTask[byClient[k]]) = k

(* In a SQL store the converse holds as well: every row that has a client  *)
(* key is found through it, so no two rows share a key (the unique index). *)
(* The memory store promises less: a later record may take the key over.   *)
(* (PostgreSQL keeps the promise with no such row at all.)                 *)
IndexComplete ==
    Backend # "memory" =>
        \A t \in Tasks :
            byTask[t] # NoRecord /\ clientKey(byTask[t]) \in Keys
                => byClient[clientKey(byTask[t])] = t
=============================================================================
