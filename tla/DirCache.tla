------------------------------ MODULE DirCache ------------------------------
(***************************************************************************)
(* Paths, directory ids and the cache between them in the 115 driver       *)
(* (internal/drivers/pan115/driver.go), used by concurrent requests.       *)
(*                                                                         *)
(* The provider knows directories by id only.  The driver remembers the id *)
(* of every path it resolved, in a map under mu and, when a DSN is         *)
(* configured, in a table shared by restarts; nothing ever drops an entry. *)
(* Each cache access and each provider call is one step of a request.      *)
(*                                                                         *)
(* External: the tree of each profile's account.  A provider call may fail,*)
(* with or without effect.  Files are left out: a request that names a file*)
(* resolves its parent like any other and leaves the directories alone.    *)
(***************************************************************************)
EXTENDS Naturals, Sequences

CONSTANTS
    Profiles,     \* profile ids, each an account of its own
    Workers,      \* goroutines serving requests
    Names,        \* names of directories
    MaxDepth,     \* bound on the length of a path
    DirIds,       \* directory ids the provider can still give out
    RootId,       \* "0", the id of every account's root
    NoDir,        \* no directory, no cache entry
    NoRequest,    \* a worker with nothing to do
    Requests,     \* the requests that may arrive
    Persistent,   \* is the cache table configured?
    TableFails,   \* may statements on the table fail?
    MaxCrashes    \* bound on process restarts

ASSUME IdsAssumption ==
    /\ RootId \notin DirIds
    /\ NoDir \notin DirIds \cup {RootId}
ASSUME BoundsAssumption == MaxDepth \in Nat \ {0} /\ MaxCrashes \in Nat
ASSUME SwitchesAssumption == Persistent \in BOOLEAN /\ TableFails \in BOOLEAN

VARIABLES
    tree,         \* profile -> path -> directory id or NoDir
    used,         \* profile -> ids its account ever gave out
    memory,       \* dirIDCache: profile -> path -> directory id or NoDir
    table,        \* pan115_dir_id_cache, likewise
    pc,           \* worker -> the access or call it makes next
    req,          \* worker -> its request
    frame,        \* worker -> the local variables of its call
    crashes       \* process restarts so far

vars == <<tree, used, memory, table, pc, req, frame, crashes>>

Paths == UNION {[1..n -> Names] : n \in 0..MaxDepth}
Named == Paths \ {<<>>}

Under(q, r) == Len(r) <= Len(q) /\ SubSeq(q, 1, Len(r)) = r
Parent(q) == SubSeq(q, 1, Len(q) - 1)

Ids == DirIds \cup {RootId}

PathRequests == [op : {"mkdir", "add", "list", "remove"}, profile : Profiles, path : Named]
MoveRequests == [op : {"move"}, profile : Profiles, path : Named, dst : Paths]
RenameRequests == [op : {"rename"}, profile : Profiles, path : Named, name : Names]
AllRequests == PathRequests \cup MoveRequests \cup RenameRequests

ASSUME RequestsAssumption == Requests \subseteq AllRequests

(* The locals: why a path is being resolved, the path, the id found so far,*)
(* how many names the fallback walk has found, and parentID or fileID.     *)
Stages == {"whole", "prefix", "exists", "made", "target", "parent", "dest"}
Frames == [stage : Stages, goal : Paths, at : Ids, walked : 0..MaxDepth, held : Ids]
Blank == [stage |-> "whole", goal |-> <<>>, at |-> RootId, walked |-> 0, held |-> RootId]

Pcs == {"idle", "memory", "table", "fill", "lookup", "walk", "saveMemory", "saveTable",
        "mkdir", "listParent", "act", "done"}

EmptyCache == [p \in Profiles |-> [q \in Paths |-> NoDir]]

Init ==
    /\ tree = [p \in Profiles |-> [q \in Paths |-> IF q = <<>> THEN RootId ELSE NoDir]]
    /\ used = [p \in Profiles |-> {}]
    /\ memory = EmptyCache
    /\ table = EmptyCache
    /\ pc = [w \in Workers |-> "idle"]
    /\ req = [w \in Workers |-> NoRequest]
    /\ frame = [w \in Workers |-> Blank]
    /\ crashes = 0

-----------------------------------------------------------------------------
(* The provider                                                            *)

Exists(p, id) == \E q \in Paths : tree[p][q] = id
PathOf(p, id) == CHOOSE q \in Paths : tree[p][q] = id
Fresh == DirIds \ UNION {used[p] : p \in Profiles}

CloudMkdir(p, parent, name, id) ==
    LET q == Append(PathOf(p, parent), name)
    IN  /\ q \in Paths
        /\ tree[p][q] = NoDir
        /\ tree' = [tree EXCEPT ![p][q] = id]
        /\ used' = [used EXCEPT ![p] = @ \cup {id}]

CloudDelete(p, id) ==
    /\ tree' = [tree EXCEPT ![p] =
                   [q \in Paths |-> IF Exists(p, id) /\ Under(q, PathOf(p, id))
                                    THEN NoDir ELSE tree[p][q]]]
    /\ UNCHANGED used

\* The directory and all below it get paths under q instead.
CloudRelocate(p, id, q) ==
    LET from == PathOf(p, id)
        Old(r) == from \o SubSeq(r, Len(q) + 1, Len(r))
    IN  /\ Exists(p, id)
        /\ q \in Paths
        /\ tree[p][q] = NoDir
        /\ tree[p][Parent(q)] # NoDir
        /\ ~Under(q, from)
        /\ \A r \in Paths : Under(r, from) /\ tree[p][r] # NoDir
                                => Len(r) + Len(q) <= MaxDepth + Len(from)
        /\ tree' = [tree EXCEPT ![p] =
               [r \in Paths |->
                   IF Under(r, q) THEN IF Old(r) \in Paths THEN tree[p][Old(r)] ELSE NoDir
                   ELSE IF Under(r, from) THEN NoDir
                   ELSE tree[p][r]]]
        /\ UNCHANGED used

\* The account's owner creates directories by other means.
OwnerMkdir ==
    /\ \E p \in Profiles, q \in Named, id \in Fresh :
          /\ tree[p][Parent(q)] # NoDir
          /\ CloudMkdir(p, tree[p][Parent(q)], q[Len(q)], id)
    /\ UNCHANGED <<memory, table, pc, req, frame, crashes>>

-----------------------------------------------------------------------------
(* Control                                                                 *)

\* The rest of the request goes on at pc with these locals.
To(w, next, f) ==
    /\ pc' = [pc EXCEPT ![w] = next]
    /\ frame' = [frame EXCEPT ![w] = f]

Resolve(w, why, path, held) ==
    To(w, "memory", [Blank EXCEPT !.stage = why, !.goal = path, !.held = held])

\* The request is answered, with an error or otherwise.
Leave(w) ==
    /\ pc' = [pc EXCEPT ![w] = "idle"]
    /\ frame' = [frame EXCEPT ![w] = Blank]
    /\ req' = [req EXCEPT ![w] = NoRequest]

Stay(w) == UNCHANGED req

Upto(q, n) == SubSeq(q, 1, n)

\* Slip: the loop resolves the same prefix again.
EnsureAgain(w, id) ==
    LET f == frame[w]
        path == req[w].path
    IN  IF f.goal = path
        THEN To(w, IF req[w].op = "add" THEN "act" ELSE "done", [f EXCEPT !.at = id])
        ELSE Resolve(w, "prefix", f.goal, id)

\* ensureDir has the id of one more prefix; Mkdir answers with the last.
EnsureNext(w, id) ==
    LET f == frame[w]
        path == req[w].path
    IN  IF f.goal = path
        THEN To(w, IF req[w].op = "add" THEN "act" ELSE "done", [f EXCEPT !.at = id])
        ELSE Resolve(w, "prefix", Upto(path, Len(f.goal) + 1), id)

\* resolvePath is done with the request's path; Move resolves dst as well.
TargetFound(w, id) ==
    IF req[w].op = "move"
    THEN IF req[w].dst = <<>>
         THEN To(w, "act", [frame[w] EXCEPT !.held = id, !.at = RootId])
         ELSE Resolve(w, "dest", req[w].dst, id)
    ELSE To(w, "act", [frame[w] EXCEPT !.held = id])

\* Slip: ensureDir goes on with the root instead of the parent it found.
FoundButForgotten(w, id) ==
    CASE frame[w].stage \in {"prefix", "exists", "made"} -> EnsureNext(w, RootId)
      [] frame[w].stage = "whole" ->
            To(w, IF req[w].op = "add" THEN "act" ELSE "done", [frame[w] EXCEPT !.at = id])
      [] frame[w].stage = "target" -> TargetFound(w, id)
      [] frame[w].stage = "parent" -> To(w, "listParent", [frame[w] EXCEPT !.held = id])
      [] frame[w].stage = "dest" -> To(w, "act", [frame[w] EXCEPT !.at = id])

\* resolveDirID returns an id.
Found(w, id) ==
    CASE frame[w].stage = "whole" ->
            To(w, IF req[w].op = "add" THEN "act" ELSE "done", [frame[w] EXCEPT !.at = id])
      [] frame[w].stage \in {"prefix", "exists", "made"} -> EnsureNext(w, id)
      [] frame[w].stage = "target" -> TargetFound(w, id)
      [] frame[w].stage = "parent" -> To(w, "listParent", [frame[w] EXCEPT !.held = id])
      [] frame[w].stage = "dest" -> To(w, "act", [frame[w] EXCEPT !.at = id])

\* resolveDirID returns an error.
NotFound(w) ==
    LET path == req[w].path
    IN  CASE frame[w].stage = "whole" /\ req[w].op # "list" ->
                Resolve(w, "prefix", Upto(path, 1), RootId) /\ Stay(w)
          [] frame[w].stage = "prefix" -> To(w, "mkdir", frame[w]) /\ Stay(w)
          [] frame[w].stage = "target" /\ Len(path) = 1 ->
                To(w, "listParent", [frame[w] EXCEPT !.held = RootId]) /\ Stay(w)
          [] frame[w].stage = "target" /\ Len(path) > 1 ->
                Resolve(w, "parent", Parent(path), RootId) /\ Stay(w)
          [] OTHER -> Leave(w)

-----------------------------------------------------------------------------
(* Requests                                                                *)

\* Mkdir, AddOfflineTask and List begin with the whole path, the others
\* with resolvePath.
Accept(w) ==
    /\ pc[w] = "idle"
    /\ \E r \in Requests :
          /\ req' = [req EXCEPT ![w] = r]
          /\ Resolve(w, IF r.op \in {"mkdir", "add", "list"} THEN "whole" ELSE "target",
                     r.path, RootId)
    /\ UNCHANGED <<tree, used, memory, table, crashes>>

\* getCachedDirID: the map.
ReadMemory(w) ==
    LET id == memory[req[w].profile][frame[w].goal]
    IN  /\ pc[w] = "memory"
        /\ IF id # NoDir THEN Found(w, id)
           ELSE To(w, IF Persistent THEN "table" ELSE "lookup", frame[w])
        /\ UNCHANGED <<tree, used, memory, table, req, crashes>>

\* getCachedDirID: the table; a failed SELECT is a miss.
ReadTable(w) ==
    LET id == table[req[w].profile][frame[w].goal]
    IN  /\ pc[w] = "table"
        /\ \/ id # NoDir /\ To(w, "fill", [frame[w] EXCEPT !.at = id])
           \/ (id = NoDir \/ TableFails) /\ To(w, "lookup", frame[w])
        /\ UNCHANGED <<tree, used, memory, table, req, crashes>>

\* Slip: path and id are swapped in the call.
RememberSwapped(w, id) ==
    memory' = [memory EXCEPT ![req[w].profile][frame[w].goal] = frame[w].goal]

\* Slip: dirIDCacheKey leaves the profile out.
RememberForAll(w, id) ==
    memory' = [p \in Profiles |-> [memory[p] EXCEPT ![frame[w].goal] = id]]

\* setCachedDirIDMemory
Remember(w, id) ==
    memory' = [memory EXCEPT ![req[w].profile][frame[w].goal] = id]

FillMemory(w) ==
    /\ pc[w] = "fill"
    /\ Remember(w, frame[w].at)
    /\ Found(w, frame[w].at)
    /\ UNCHANGED <<tree, used, table, req, crashes>>

\* DirName2CID; "0" and an error both lead to the walk from the root.
Lookup(w) ==
    LET id == tree[req[w].profile][frame[w].goal]
    IN  /\ pc[w] = "lookup"
        /\ \/ id # NoDir /\ To(w, "saveMemory", [frame[w] EXCEPT !.at = id])
           \/ To(w, "walk", [frame[w] EXCEPT !.at = RootId, !.walked = 0])
        /\ UNCHANGED <<tree, used, memory, table, req, crashes>>

\* The id of the directory of that name in a listing of the parent, if any.
Listed(p, parent, name) ==
    LET q == Append(PathOf(p, parent), name)
    IN  IF Exists(p, parent) /\ q \in Paths THEN tree[p][q] ELSE NoDir

\* Slip: the walk looks at the listing of the root only.
WalkRoot(w) ==
    LET f == frame[w]
        id == Listed(req[w].profile, RootId, f.goal[f.walked + 1])
    IN  /\ pc[w] = "walk"
        /\ \/ /\ id # NoDir
              /\ To(w, IF f.walked + 1 = Len(f.goal) THEN "saveMemory" ELSE "walk",
                    [f EXCEPT !.at = id, !.walked = @ + 1])
              /\ Stay(w)
           \/ NotFound(w)
        /\ UNCHANGED <<tree, used, memory, table, crashes>>

\* resolveDirIDByList: one listing per name.
Walk(w) ==
    LET f == frame[w]
        id == Listed(req[w].profile, f.at, f.goal[f.walked + 1])
    IN  /\ pc[w] = "walk"
        /\ \/ /\ id # NoDir
              /\ To(w, IF f.walked + 1 = Len(f.goal) THEN "saveMemory" ELSE "walk",
                    [f EXCEPT !.at = id, !.walked = @ + 1])
              /\ Stay(w)
           \/ NotFound(w)
        /\ UNCHANGED <<tree, used, memory, table, crashes>>

\* setCachedDirID: the map, then the table, not atomically.
SaveMemory(w) ==
    /\ pc[w] = "saveMemory"
    /\ Remember(w, frame[w].at)
    /\ IF Persistent THEN To(w, "saveTable", frame[w]) ELSE Found(w, frame[w].at)
    /\ UNCHANGED <<tree, used, table, req, crashes>>

\* A failed upsert is only logged.
SaveTable(w) ==
    /\ pc[w] = "saveTable"
    /\ \/ table' = [table EXCEPT ![req[w].profile][frame[w].goal] = frame[w].at]
       \/ TableFails /\ UNCHANGED table
    /\ Found(w, frame[w].at)
    /\ UNCHANGED <<tree, used, memory, req, crashes>>

\* ensureDir creates the missing directory under parentID.
Mkdir(w) ==
    LET f == frame[w]
    IN  /\ pc[w] = "mkdir"
        /\ Exists(req[w].profile, f.held)
        /\ \E id \in Fresh :
              /\ CloudMkdir(req[w].profile, f.held, f.goal[Len(f.goal)], id)
              /\ \/ To(w, "saveMemory", [f EXCEPT !.stage = "made", !.at = id]) /\ Stay(w)
                 \/ Leave(w)
        /\ UNCHANGED <<memory, table, crashes>>

\* ErrExist: somebody else was faster; the id is resolved once more.
MkdirExists(w) ==
    LET f == frame[w]
    IN  /\ pc[w] = "mkdir"
        /\ Listed(req[w].profile, f.held, f.goal[Len(f.goal)]) # NoDir
        /\ Resolve(w, "exists", f.goal, f.held)
        /\ UNCHANGED <<tree, used, memory, table, req, crashes>>

MkdirFailed(w) ==
    /\ pc[w] = "mkdir"
    /\ Leave(w)
    /\ UNCHANGED <<tree, used, memory, table, crashes>>

\* resolveFile looks the name up in the listing of the parent.
ListParent(w) ==
    LET path == req[w].path
        id == Listed(req[w].profile, frame[w].held, path[Len(path)])
    IN  /\ pc[w] = "listParent"
        /\ \/ id # NoDir /\ TargetFound(w, id) /\ Stay(w)
           \/ Leave(w)
        /\ UNCHANGED <<tree, used, memory, table, crashes>>

\* client.Delete, Rename or Move with the id that was resolved; the answer
\* may be lost after the effect.
Act(w) ==
    LET r == req[w]
        f == frame[w]
    IN  /\ pc[w] = "act"
        /\ \/ r.op = "remove" /\ CloudDelete(r.profile, f.held)
           \/ /\ r.op = "rename"
              /\ Exists(r.profile, f.held)
              /\ CloudRelocate(r.profile, f.held,
                               Append(Parent(PathOf(r.profile, f.held)), r.name))
           \/ /\ r.op = "move"
              /\ Exists(r.profile, f.held)
              /\ Exists(r.profile, f.at)
              /\ LET from == PathOf(r.profile, f.held)
                 IN  CloudRelocate(r.profile, f.held,
                                   Append(PathOf(r.profile, f.at), from[Len(from)]))
           \/ r.op = "add" /\ UNCHANGED <<tree, used>>
        /\ Leave(w)
        /\ UNCHANGED <<memory, table, crashes>>

ActFailed(w) ==
    /\ pc[w] = "act"
    /\ Leave(w)
    /\ UNCHANGED <<tree, used, memory, table, crashes>>

\* Mkdir and List answer with what they found.
Answer(w) ==
    /\ pc[w] = "done"
    /\ Leave(w)
    /\ UNCHANGED <<tree, used, memory, table, crashes>>

\* The process dies and is started again; the map is gone, the table is not.
Crash ==
    /\ crashes < MaxCrashes
    /\ crashes' = crashes + 1
    /\ memory' = EmptyCache
    /\ pc' = [w \in Workers |-> "idle"]
    /\ req' = [w \in Workers |-> NoRequest]
    /\ frame' = [w \in Workers |-> Blank]
    /\ UNCHANGED <<tree, used, table>>

Step(w) ==
    \/ ReadMemory(w) \/ ReadTable(w) \/ FillMemory(w) \/ Lookup(w) \/ Walk(w)
    \/ SaveMemory(w) \/ SaveTable(w)
    \/ Mkdir(w) \/ MkdirExists(w) \/ MkdirFailed(w)
    \/ ListParent(w) \/ Act(w) \/ ActFailed(w) \/ Answer(w)

Next ==
    \/ \E w \in Workers : Accept(w) \/ Step(w)
    \/ OwnerMkdir
    \/ Crash

Spec == Init /\ [][Next]_vars

-----------------------------------------------------------------------------
(* Every variable has its type.                                            *)
TypeOK ==
    /\ tree \in [Profiles -> [Paths -> Ids \cup {NoDir}]]
    /\ used \in [Profiles -> SUBSET DirIds]
    /\ memory \in [Profiles -> [Paths -> Ids \cup {NoDir}]]
    /\ table \in [Profiles -> [Paths -> Ids \cup {NoDir}]]
    /\ pc \in [Workers -> Pcs]
    /\ req \in [Workers -> Requests \cup {NoRequest}]
    /\ frame \in [Workers -> Frames]
    /\ crashes \in 0..MaxCrashes

(* A cached id belongs to the account of the profile it is cached for,     *)
(* however directories are moved, removed and created again meanwhile.     *)
CacheOfOwnAccount ==
    \A p \in Profiles, q \in Paths :
        {memory[p][q], table[p][q]} \subseteq used[p] \cup {NoDir}

(* While nobody moves or removes directories, every entry of the map and of*)
(* the table is the id of the directory at that path: concurrent creations,*)
(* failed calls, lost answers and restarts never leave a wrong entry.      *)
CacheAccurate ==
    \A p \in Profiles, q \in Paths :
        {memory[p][q], table[p][q]} \subseteq {tree[p][q], NoDir}

(* While nobody moves or removes directories, Mkdir answers with the id of *)
(* the directory at the path asked for, and an offline task is submitted   *)
(* with the id of the directory at its save path (ensureDir).              *)
EnsuredDirExists ==
    \A w \in Workers :
        /\ pc[w] \in {"act", "done"}
        /\ req[w].op \in {"mkdir", "add"}
        => tree[req[w].profile][req[w].path] = frame[w].at

(* No request moves or renames anything in the account of p.               *)
OnlyMadeAndRemoved(p) == \A r \in Requests : r.profile = p => r.op \notin {"move", "rename"}

(* Removing drops no cache entry, so ids go stale, and a later Remove calls*)
(* Delete with an id that it, another request or a restart before resolved.*)
(* While an account's directories are only made and removed that harms     *)
(* nobody: what vanishes there is at or below the path of a Remove that    *)
(* ends with this step.                                                    *)
RemovesOnlyRequested ==
    [][\A p \in Profiles : OnlyMadeAndRemoved(p) =>
          \A q \in Paths : tree[p][q] # NoDir /\ tree'[p][q] # tree[p][q] =>
              \E w \in Workers : /\ pc[w] = "act" /\ pc'[w] = "idle"
                                 /\ req[w].profile = p /\ req[w].op = "remove"
                                 /\ Under(q, req[w].path)]_vars

(* A request creates directories on the path it was asked for only: nothing*)
(* appears at a path that no Mkdir or AddOfflineTask in progress names.    *)
CreatesOnlyRequested ==
    [][\A w \in Workers : Mkdir(w) =>
          \A p \in Profiles, q \in Paths :
              tree[p][q] # tree'[p][q] => p = req[w].profile /\ Under(req[w].path, q)]_vars

(* What ensureDir tells its caller, as the service's answer.               *)
Told(w) ==
    IF pc[w] \in {"act", "done"} /\ req[w].op \in {"mkdir", "add"}
    THEN <<req[w].profile, req[w].path, frame[w].at>>
    ELSE NoDir

Service == INSTANCE DirectoryService
           WITH Profiles <- Profiles, Workers <- Workers, Paths <- Paths, DirIds <- DirIds,
                RootId <- RootId, NoDir <- NoDir,
                tree <- tree, answer <- [w \in Workers |-> Told(w)]

(* While nobody moves or removes directories, ensureDir with its two caches*)
(* implements a service without any: an id is never told that is not the   *)
(* path's at that very step, nor one given out again, and no directory     *)
(* appears without a parent, whatever calls fail or are cut off.           *)
CachingInvisible == Service!Spec

\* How often a request may yet resolve a path: ensureDir resolves each
\* prefix below the goal once or, if somebody is faster, twice.
ResolutionsLeft(r, f) ==
    LET below == Len(r.path) - Len(f.goal)
    IN  CASE f.stage = "whole" -> IF r.op = "list" THEN 0 ELSE 2 * Len(r.path) + 1
          [] f.stage = "prefix" -> 2 * below + 1
          [] f.stage \in {"exists", "made"} -> 2 * below
          [] f.stage = "target" -> 2
          [] f.stage = "parent" -> 1
          [] f.stage = "dest" -> 0

\* How many steps are left of this resolution and what follows it.
StepsLeft(p, f) ==
    CASE p = "memory" -> MaxDepth + 8
      [] p = "table" -> MaxDepth + 7
      [] p = "lookup" -> MaxDepth + 6
      [] p = "walk" -> Len(f.goal) - f.walked + 5
      [] p \in {"fill", "saveMemory"} -> 4
      [] p \in {"saveTable", "mkdir"} -> 3
      [] p = "listParent" -> 2
      [] p \in {"act", "done"} -> 1
      [] p = "idle" -> 0

(* ensureDir's loop, the walk and the second tries end, whatever others    *)
(* create, move and remove meanwhile: where a request has got to changes   *)
(* only if it is answered, spared a resolution or nearer to this one's end.*)
RequestsRunOut ==
    [][\A w \in Workers : pc[w] # "idle" /\ pc'[w] # "idle" =>
          LET before == ResolutionsLeft(req[w], frame[w])
              after == ResolutionsLeft(req'[w], frame'[w])
          IN  \/ UNCHANGED <<pc[w], req[w], frame[w]>>
              \/ after < before
              \/ after = before /\ StepsLeft(pc'[w], frame'[w]) < StepsLeft(pc[w], frame[w])]_vars
=============================================================================
