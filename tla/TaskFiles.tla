----------------------------- MODULE TaskFiles -----------------------------
(***************************************************************************)
(* The files of an offline task: how a query finds them at the provider    *)
(* (toOfflineTask in internal/drivers/pan115/driver.go) and how the record *)
(* keeps them (normalizeStoredOfflineTask in the handlers).                *)
(*                                                                         *)
(* A query looks the task up, its directory, and, once it is completed,    *)
(* its files: by its file id, else by the listing of its directory, else by*)
(* a search, and below every entry found by one listing per directory, in  *)
(* depth-first order.  Each provider call is a step, may fail, and may see *)
(* what the account's owner did since the call before.                     *)
(*                                                                         *)
(* One task with a record; the path it was saved to never changes, so that *)
(* reading the record and writing it back is one step here (OfflineTasks   *)
(* has the two apart).  Paths are sequences of names, without the spelling *)
(* of case and separators; an empty path is the root's or none.            *)
(***************************************************************************)
EXTENDS Naturals, Sequences, FiniteSets, SequencesExt

CONSTANTS
    Workers,      \* goroutines serving requests
    Ids,          \* ids of files and directories
    Dirs,         \* those that are directories
    Names,        \* names of files and directories
    RootId,       \* "0", the account's root
    Gone,         \* where deleted entries are
    NoId,         \* an empty id
    NoDir,        \* save_dir is null
    NoName,       \* a blank name
    MaxExpand,    \* maxOfflineTaskExpandDepth
    MaxChanges,   \* bound on what the account's owner does
    Scenarios     \* accounts and tasks to begin with

ASSUME IdsAssumption ==
    /\ Dirs \subseteq Ids
    /\ IsFiniteSet(Ids)
    /\ RootId \notin Ids /\ Gone \notin Ids \cup {RootId} /\ NoId \notin Ids \cup {RootId}
    /\ NoName \notin Names
ASSUME BoundsAssumption == MaxExpand \in Nat /\ MaxChanges \in Nat

\* Only directories have entries.
Entries == [parent : Dirs \cup {RootId, Gone}, name : Names]

(* A task of the provider: its file and directory id and its name, if the  *)
(* answer has them; save is the path the client asked for, or <<>>.        *)
CloudTasks == [file : Ids \cup {NoId}, dir : Dirs \cup {RootId, NoId}, name : Names \cup {NoName}]

ASSUME ScenariosAssumption ==
    Scenarios \subseteq [account : [Ids -> Entries], task : CloudTasks, save : Seq(Names)]

VARIABLES
    account,      \* id -> parent and name
    changes,      \* how often the account's owner changed something
    task,         \* the task as the provider knows it
    completed,    \* is it completed?
    stored,       \* the record's copy of the task
    save,         \* the record's save path
    pc,           \* worker -> the call it makes next
    walk,         \* worker -> the locals of its request
    flawed        \* history: a call of the request for files failed, or the account changed

vars == <<account, changes, task, completed, stored, save, pc, walk, flawed>>
cloudVars == <<account, changes, task, completed>>

(* FileInfo, of which the id and the two paths are kept.                   *)
Infos == [id : Ids, path : Seq(Names), relative : Seq(Names)]
SaveDirs == [id : Ids \cup {RootId, NoId}, path : Seq(Names)] \cup {NoDir}

(* The directory in the record of an Add: the one that was at the save path*)
(* then, wherever it is by now.                                            *)
AddedTo(path) ==
    IF path = <<>> THEN {[id |-> RootId, path |-> <<>>]} ELSE {[id |-> e, path |-> path] : e \in Dirs}

(* A stored or answered task.                                              *)
NoFiles == [completed |-> FALSE, saveDir |-> NoDir, files |-> {}, warned |-> FALSE]

Blank == [completed |-> FALSE, saveDir |-> NoDir, route |-> "file", pending |-> {}, found |-> {}]

Routes == {"file", "dir", "search"}
Pcs == {"idle", "query", "stat", "getDir", "expand", "store"} \cup Routes

Init ==
    /\ \E s \in Scenarios :
          /\ account = s.account /\ task = s.task /\ save = s.save
          /\ \E dir \in AddedTo(s.save) : stored = [NoFiles EXCEPT !.saveDir = dir]
    /\ changes = 0
    /\ completed = FALSE
    /\ pc = [w \in Workers |-> "idle"]
    /\ walk = [w \in Workers |-> Blank]
    /\ flawed = [w \in Workers |-> FALSE]

-----------------------------------------------------------------------------
(* The provider                                                            *)

Up(e) == IF e \in Ids THEN account[e].parent ELSE e

\* The n-th directory above e, and e's path from there, that name included.
Above(e) == LET up[n \in Nat] == IF n = 0 THEN e ELSE Up(up[n - 1]) IN up
Trail(e) ==
    LET trail[n \in Nat] == IF n = 0 THEN <<account[e].name>>
                            ELSE <<account[Above(e)[n]].name>> \o trail[n - 1]
    IN  trail

Heights == 0..Cardinality(Ids)

Exists(e) == \E n \in Heights : Above(e)[n] = RootId
FullPath(e) == Trail(e)[CHOOSE n \in Heights : Above(e)[n] # RootId /\ Above(e)[n + 1] = RootId]

Children(d) == {e \in Ids : account[e].parent = d}
Listable(d) == d = RootId \/ (d \in Dirs /\ Exists(d))

TaskCompletes ==
    /\ ~completed
    /\ completed' = TRUE
    /\ UNCHANGED <<account, changes, task, stored, save, pc, walk, flawed>>

\* The account's owner moves, renames or deletes something.
OwnerChanges ==
    /\ changes < MaxChanges
    /\ changes' = changes + 1
    /\ \E e \in Ids, d \in Dirs \cup {RootId, Gone}, name \in Names :
          /\ Exists(e)
          /\ d = Gone \/ Listable(d)
          /\ \A n \in Heights : Above(d)[n] # e
          /\ account' = [account EXCEPT ![e] = [parent |-> d, name |-> name]]
    /\ flawed' = [w \in Workers |-> TRUE]
    /\ UNCHANGED <<task, completed, stored, save, pc, walk>>

-----------------------------------------------------------------------------
(* Control                                                                 *)

\* The request goes on at pc with these locals; ok: the call told all it
\* could of the task's files.
Go(w, to, locals, ok) ==
    /\ pc' = [pc EXCEPT ![w] = to]
    /\ walk' = [walk EXCEPT ![w] = locals]
    /\ flawed' = [flawed EXCEPT ![w] = @ \/ ~ok]
    /\ UNCHANGED <<cloudVars, stored, save>>

Try(w, route, locals, ok) == Go(w, route, [locals EXCEPT !.route = route], ok)

Later(route) == IF route = "file" /\ task.dir # NoId THEN "dir" ELSE "search"

\* toOfflineTask: files are looked for once the task is completed.
Locate(w, locals, ok) ==
    IF locals.completed
    THEN Try(w, IF task.file # NoId THEN "file" ELSE Later("file"), locals, ok)
    ELSE Go(w, "store", locals, ok)

\* This way of looking yielded nothing.
NextRoute(w, ok) ==
    IF walk[w].route = "search"
    THEN Go(w, "store", walk[w], ok)
    ELSE Try(w, Later(walk[w].route), walk[w], ok)

\* Slip: the recursion goes one level deeper.
ExpandDeeper(w, new, rest, ok) ==
    LET dirs == {x \in new : x[1] \in Dirs /\ Len(x[2]) <= MaxExpand + 1}
        pending == rest \cup dirs
        found == walk[w].found \cup {x \in new : x[1] \notin Dirs}
    IN  IF pending = {} /\ found = {} THEN NextRoute(w, ok)
        ELSE Go(w, IF pending = {} THEN "store" ELSE "expand",
                [walk[w] EXCEPT !.pending = pending, !.found = found], ok)

\* expandOfflineTaskEntry of new entries (id and path): a file is found, a
\* directory will be listed unless it is too deep; rest still waits.
Expand(w, new, rest, ok) ==
    LET dirs == {x \in new : x[1] \in Dirs /\ Len(x[2]) <= MaxExpand}
        pending == rest \cup dirs
        found == walk[w].found \cup {x \in new : x[1] \notin Dirs}
    IN  IF pending = {} /\ found = {} THEN NextRoute(w, ok)
        ELSE Go(w, IF pending = {} THEN "store" ELSE "expand",
                [walk[w] EXCEPT !.pending = pending, !.found = found], ok)

\* Slip: the name alone, without the path above it.
AtName(e, path) == <<e, <<account[e].name>>>>

At(e, path) == <<e, Append(path, account[e].name)>>

\* matchesOfflineTaskFile
Matches(e) == e = task.file \/ account[e].name = task.name

-----------------------------------------------------------------------------
(* A request                                                               *)

Ask(w) ==
    /\ pc[w] = "idle"
    /\ pc' = [pc EXCEPT ![w] = "query"]
    /\ walk' = [walk EXCEPT ![w] = Blank]
    /\ flawed' = [flawed EXCEPT ![w] = FALSE]
    /\ UNCHANGED <<cloudVars, stored, save>>

\* The task is in the provider's list; an empty directory id leaves save_dir
\* out, and the root's needs no call.
Query(w) ==
    LET locals == [walk[w] EXCEPT !.completed = completed]
    IN  /\ pc[w] = "query"
        /\ CASE task.dir = NoId -> Locate(w, locals, TRUE)
             [] task.dir = RootId ->
                    Locate(w, [locals EXCEPT !.saveDir = [id |-> RootId, path |-> <<>>]], TRUE)
             [] OTHER -> Go(w, "stat", locals, TRUE)

QueryFailed(w) == pc[w] = "query" /\ Go(w, "idle", Blank, FALSE)

\* dirInfoByID: the directory with its whole path ...
Stat(w) ==
    /\ pc[w] = "stat"
    /\ Exists(task.dir)
    /\ Locate(w, [walk[w] EXCEPT !.saveDir = [id |-> task.dir, path |-> FullPath(task.dir)]], TRUE)

StatFailed(w) == pc[w] = "stat" /\ Go(w, "getDir", walk[w], TRUE)

\* ... or with its name alone ...
GetDir(w) ==
    /\ pc[w] = "getDir"
    /\ Exists(task.dir)
    /\ Locate(w, [walk[w] EXCEPT !.saveDir = [id |-> task.dir, path |-> <<account[task.dir].name>>]],
              TRUE)

\* ... or as the root, for want of a path.
GetDirFailed(w) ==
    /\ pc[w] = "getDir"
    /\ Locate(w, [walk[w] EXCEPT !.saveDir = [id |-> RootId, path |-> <<>>]], TRUE)

\* locateOfflineTaskFiles: the entry with the file id ...
GetFile(w) ==
    /\ pc[w] = "file"
    /\ Exists(task.file)
    /\ Expand(w, {At(task.file, <<>>)}, {}, TRUE)

\* ... the matching entries of the directory ...
ListDir(w) ==
    /\ pc[w] = "dir"
    /\ Listable(task.dir)
    /\ Expand(w, {At(e, <<>>) : e \in {e \in Children(task.dir) : Matches(e)}}, {}, TRUE)

RouteFailed(w) == pc[w] \in {"file", "dir"} /\ NextRoute(w, FALSE)

\* ... or what matches of at most 100 results of a search, for the name or,
\* for want of one, for the info hash, which may find anything or nothing.
Search(w) ==
    LET matching == {e \in Ids : Exists(e) /\ Matches(e)}
    IN  /\ pc[w] = "search"
        /\ \E hits \in SUBSET matching :
              Expand(w, {At(e, <<>>) : e \in hits}, {}, hits = matching)

SearchFailed(w) == pc[w] = "search" /\ NextRoute(w, FALSE)

\* The directory listed next: one of the deepest that wait.
Current(w) ==
    {x \in walk[w].pending : \A y \in walk[w].pending : Len(y[2]) <= Len(x[2])}

ExpandDir(w) ==
    /\ pc[w] = "expand"
    /\ \E x \in Current(w) :
          /\ Exists(x[1])
          /\ Expand(w, {At(e, x[2]) : e \in Children(x[1])}, walk[w].pending \ {x}, TRUE)

\* Slip: a listing that failed is tried again.
ExpandRetried(w) ==
    /\ pc[w] = "expand"
    /\ \E x \in Current(w) : Expand(w, {}, walk[w].pending, FALSE)

\* A failed listing counts as an empty one.
ExpandDirFailed(w) ==
    /\ pc[w] = "expand"
    /\ \E x \in Current(w) : Expand(w, {}, walk[w].pending \ {x}, FALSE)

\* Slip: the path stays relative to the task's directory.
PathUnprefixed(path) == path

\* prefixOfflineFilePath
PathUnderSave(path) == IF IsPrefix(save, path) THEN path ELSE save \o path

\* Slip: the path is kept in place of the directory.
SaveDirUnset(dir) == save

\* normalizeStoredOfflineTask: what the answer says of the directory, else
\* the record, else the save path alone; a save path overrides the path.
SaveDirKept(dir) ==
    LET known == IF dir # NoDir THEN dir ELSE stored.saveDir
    IN  IF save = <<>> THEN known
        ELSE [id |-> IF known = NoDir THEN NoId ELSE known.id, path |-> save]

normalizeStored(locals) ==
    [completed |-> locals.completed,
     saveDir |-> SaveDirKept(locals.saveDir),
     files |-> {[id |-> x[1], relative |-> x[2], path |-> PathUnderSave(x[2])] : x \in locals.found},
     warned |-> locals.completed /\ locals.found = {}]

\* updateStoredOfflineTask and the answer; a failed statement is only logged.
Store(w) ==
    /\ pc[w] = "store"
    /\ stored' \in {normalizeStored(walk[w]), stored}
    /\ pc' = [pc EXCEPT ![w] = "idle"]
    /\ walk' = [walk EXCEPT ![w] = Blank]
    /\ UNCHANGED <<cloudVars, save, flawed>>

Step(w) ==
    \/ Query(w) \/ QueryFailed(w) \/ Stat(w) \/ StatFailed(w) \/ GetDir(w) \/ GetDirFailed(w)
    \/ GetFile(w) \/ ListDir(w) \/ RouteFailed(w) \/ Search(w) \/ SearchFailed(w)
    \/ ExpandDir(w) \/ ExpandDirFailed(w) \/ Store(w)

Next ==
    \/ \E w \in Workers : Ask(w) \/ Step(w)
    \/ TaskCompletes
    \/ OwnerChanges

Spec == Init /\ [][Next]_vars

(* Every provider call returns; nothing is assumed of their success.       *)
FairSpec == Spec /\ \A w \in Workers : WF_vars(Step(w))

-----------------------------------------------------------------------------
(* Every variable has its type.                                            *)
TypeOK ==
    /\ account \in [Ids -> Entries]
    /\ changes \in 0..MaxChanges
    /\ task \in CloudTasks
    /\ completed \in BOOLEAN
    /\ stored \in [completed : BOOLEAN, saveDir : SaveDirs, files : SUBSET Infos, warned : BOOLEAN]
    /\ save \in Seq(Names)
    /\ pc \in [Workers -> Pcs]
    /\ walk \in [Workers -> [completed : BOOLEAN, saveDir : SaveDirs, route : Routes,
                              pending : SUBSET (Dirs \X Seq(Names)),
                              found : SUBSET (Ids \X Seq(Names))]]
    /\ flawed \in [Workers -> BOOLEAN]

\* The files at most MaxExpand levels below one of tops, each with its path
\* from there, by climbing from the file instead of listing directories.
Leaves(tops) ==
    UNION {{<<e, Trail(e)[n]>> : n \in {n \in 0..MaxExpand : Above(e)[n] \in tops}} : e \in Ids \ Dirs}

Hits == {e \in Ids : Exists(e) /\ Matches(e)}

\* What a task's list should be: the first of the three that is not empty.
FilesOfTask ==
    LET byFile == IF task.file = NoId THEN {} ELSE Leaves({task.file})
        byDir == Leaves({e \in Hits : account[e].parent = task.dir})
    IN  IF byFile # {} THEN byFile ELSE IF byDir # {} THEN byDir ELSE Leaves(Hits)

(* If no call of a request that looks for files failed and nobody changed  *)
(* the account meanwhile, its list has exactly the files of the task, to   *)
(* the depth of the limit, each with its path, whatever became of the calls*)
(* for the directory (locateOfflineTaskFiles, expandOfflineTaskEntry).     *)
ListComplete ==
    \A w \in Workers :
        pc[w] = "store" /\ walk[w].completed /\ ~flawed[w] => walk[w].found = FilesOfTask

(* Whatever calls fail: in an account that nobody changes, everything that *)
(* is listed or still waits to be is an entry below one that matches the   *)
(* task, under its path from there.                                        *)
NothingForeign ==
    changes = 0 =>
        \A w \in Workers : \A x \in walk[w].found \cup walk[w].pending :
            \E n \in 0..MaxExpand :
                /\ Above(x[1])[n] \in Hits
                /\ x[2] = Trail(x[1])[n]

(* The record says where its files are: if the task was saved to the path  *)
(* asked for, only entries of that directory match the task, and none has  *)
(* the name the save path begins with, then the paths kept in the record   *)
(* are the files' paths in the account, after any failures.                *)
PathsAreTrue ==
    /\ changes = 0
    /\ task.dir \in Ids
    /\ save = FullPath(task.dir)
    /\ \A e \in Hits : account[e].parent = task.dir /\ account[e].name # Head(save)
    => \A f \in stored.files : f.path = FullPath(f.id)

\* The directories that wait to be listed at one depth.
WaitingAt(w, depth) == {x \in walk[w].pending : Len(x[2]) = depth}

(* The recursion ends, even if the owner moves a directory that was listed *)
(* below one that was not: a listing, failed or not, leaves fewer that wait*)
(* at its depth, none other at any depth above, and none beyond the limit. *)
ListingsRunOut ==
    [][\A w \in Workers : (ExpandDir(w) \/ ExpandDirFailed(w)) /\ pc'[w] = "expand" =>
          \E depth \in 0..MaxExpand :
              /\ WaitingAt(w, depth)' \subseteq WaitingAt(w, depth)
              /\ WaitingAt(w, depth)' # WaitingAt(w, depth)
              /\ \A above \in 0..(depth - 1) : WaitingAt(w, above)' = WaitingAt(w, above)]_vars

(* Every request is answered: no way of looking is tried twice, and the    *)
(* recursion of each one ends.                                             *)
EveryQueryAnswered ==
    \A w \in Workers : pc[w] # "idle" ~> pc[w] = "idle"
=============================================================================
