# drission-cloud-driver: specifications, model checking and proofs

drission-cloud-driver is an HTTP service (Go, gin) that lets clients work on
cloud-drive accounts (the platform `115`).  It reads an account's cookies from a
browser profile kept by CloakBrowser-Manager, logs in with them, and offers
directory operations and offline downloads over `/api/v1`.  This directory holds
TLA+ models of the parts that keep state, TLC configurations that check them on
small instances, and TLAPS proofs of what matters most.

## 1. Inventory

| component | state | operations | modules |
|---|---|---|---|
| offline record store (`internal/offline`) | `byTask`, `byClient` (memory); one table with a unique index (SQLite, PostgreSQL) | `Put`, `Update`, `Get`, `GetByClientTask`, reopen | `OfflineStore` |
| offline task handlers (`internal/modules/driver/handler.go`) | `idempotencyMu`; locals of each request | Add, Get, List, Remove | `OfflineTasks`, `IdempotentSubmission` |
| browser sessions (`internal/browser`) | `profileLocks`; the browsers, at CloakBrowser-Manager | `GetCookieStringFor`, `StartProfile`, `StopProfile` | `BrowserSessions` |
| 115 clients (`drivers/pan115/driver.go`) | `clients` under the driver's `mu` | `getClient` | `DriverClients` |
| 115 directories (same file) | `dirIDCache` under `mu`, table `pan115_dir_id_cache`; the tree, at 115 | `ensureDir`, `resolveDirID`, `resolvePath`, Mkdir, Remove, Move, Rename, List | `DirCache` |
| driver registry, start and stop (`drivers/registry.go`, `internal/app`, `framework/lifecycle.go`) | `drivers` map, open handles, the server's phase | `Get`, `Close`, `Run`, `Stop`, `ShutdownModules`, cleanup | `AppLifecycle` |
| file lists of completed tasks (`driver.go`, `handler.go`) | the list in the task's record; the account, at 115 | `toOfflineTask`, locate, expand, normalise, store | `TaskFiles` |
| error codes and responses (`pkg/errcode`, `pkg/response`) | none | error -> code -> status | `HttpService` |
| middleware and router | token bucket of the rate limiter | CORS, limit, recovery, `getDriver`, one request each | `HttpService` |
| framework registries, configuration, logging, `main` | filled at start | - | no |

How they interact.  A request is a goroutine: it takes the driver from the
registry, asks the driver for the profile's client (first use: a browser session),
calls 115, and for offline tasks reads and writes the store.  Everything shared is a
Go map or a table; the locks are `MemoryStore.mu`, `idempotencyMu` (one for all
clients), `Driver.mu` (clients and directory cache), and one mutex per browser profile.  The
registry's maps have none.  On a signal the main goroutine drains the server, then runs
the modules' shutdown hooks, then the deferred cleanup closes the store.

What is hard here, and where it is modelled:

- *interleavings*: every provider and store call is a step of its own, and only Add with a
  `client_task_id` holds a lock across them (`OfflineTasks`); the directory cache is read and
  written between provider calls (`DirCache`); users start and stop the browsers that
  sessions use (`BrowserSessions`); the registry is a data race (`AppLifecycle`).
- *lost answers and retries*: a submission, a launch or a mkdir may take effect while
  its answer is lost; clients retry with the same `client_task_id`.
- *crashes*: goroutines, clients and the maps vanish, tables and the outside world stay.
- *partial failure*: store writes are logged and forgotten; `setCachedDirID` writes a map
  and then a table; a file list is put together from many listings, each of which may fail
  (`TaskFiles`); a driver call may fail after its effect and still has to be answered (`HttpService`);
  `ShutdownModules` stops at the first error.
- *waiting*: three mutexes are held across network calls.

`PROJECT.json` lists each hazard at its line with the properties that cover it.

What makes each part correct, in a sentence: the store finds for a client key the row
that key owns and nothing else; a client key reaches the provider once, is answered with
its own task only and with the same one for ever; a session stops the browser it
launched and no other; a driver logs in once per profile; a cached directory id is the
id of that path, and nobody can tell that there is a cache; the list of a completed task holds its
files, all of them, where they are; an answer that blames the client changed nothing; nothing the provider
accepted goes unrecorded because the process stops; and every request is answered.

## 2. Modules

Helpers `MC*` only give the constants values.  Operators marked *Slip* are plausible
mistakes, kept beside the definition they distort, to show that each property can fail;
no specification uses them.

### OfflineStore
The three implementations in one module, chosen by `Backend`.  `byTask` is the map or the
table, `byClient` the second map of the memory store; for SQL the index is a function of the
rows.  `Put` in memory removes the indexes of the record it replaces
(`removeIndexesLocked`) and may take another row's key over; in SQL the unique index makes such a
statement fail (`KeyTaken`).  `Update` changes known rows only, through the same upsert (`Upsert`);
`migrate` creates what is not there and leaves the rows alone, so that a restart keeps them.
SQLite and PostgreSQL run the same statements up to placeholders; `PROJECT.json` maps them to either.  They
differ in what they take for a key: `clientKey` joins its parts with a NUL byte, SQLite stores it, a
PostgreSQL `TEXT` does not hold it.  `KeyRefused` makes every statement that binds a key fail there: a write
leaves the table alone, a lookup by key finds nothing.  A record is its key, its task and its
status; time stamps and the other copied fields decide nothing.  `StoreSpec` lets the environment
make any call of the `Store` interface at any time and restart the process; only the proofs use it.

### OfflineTasks
EXTENDS `OfflineStore` and replaces that environment by the handlers.  `pc[h]` is the call the
goroutine `h` makes next: `lock, lookup, refresh, refreshSave, submit, put` are
`AddOfflineTask`; `query, storedGet, storedSave, fallback` are `GetOfflineTask`; `list` and the
set `todo` are `ListOfflineTasks`; `delete, cancelGet, cancelSave` are `RemoveOfflineTask`.  A
function that reads the store, changes the record and writes it back
(`updateStoredOfflineTask`, `markStoredOfflineTaskCanceled`) is two steps with the record it
read in `rec[h]`, as in the code, where nothing is locked in between.  `idempotencyMu` is
`mutex`; `Return` runs the deferred unlock.  The provider (`cloud`) is external: a
task has a raw code which `mapOfflineStatus` translates, and `CloudSteps` says how it may move.
A url names a task: the provider derives the id from the url, so the id is chosen by the
order the client sends.  `issued` and `answered` are histories.

### IdempotentSubmission
What a client that names its requests is promised, for `OfflineTasks` to implement: once a key has been
answered, it is never submitted again and always answered the same.  Submissions before the first
answer may repeat (a lost answer cannot be told from a lost request).

### BrowserSessions and DriverClients
`BrowserSessions` is `GetCookieStringFor`: lock the profile, look at its status, launch
it, wait for the endpoint, connect, read cookies, wake the page and read again, close, stop what was
launched, unlock.  `started` is `startedByCall`; `launcher` is a history of who really launched the
running browser.  `UserStarts` and `UserStops` are the API's requests, which take no
profile lock.  The connection cache of `GetConnection` is left out: no request reaches it.
`DriverClients` EXTENDS it with `getClient`: the check under the read lock, the write lock, the
second check, the session, the login check.  A read lock held for one map access is one step.  There
may be two driver instances (`AppLifecycle` shows how), each with its own `mu`.

### DirCache
A path is a sequence of names; `tree` is 115's view, `memory` and `table` are the two levels of the
cache.  A request walks through `pc`: cache (`memory`, `table`, `fill`), provider (`lookup`, and on failure the
`walk` by listings), save (`saveMemory`, `saveTable`).  `frame.stage` says which caller in the code waits for
the id: the whole path, a prefix in `ensureDir`'s loop, the retry after `ErrExist`,
`resolvePath`'s target or its parent, Move's destination.  `Act` is the final provider call, and
like every provider call it may fail before or after its effect.  `OwnerMkdir` is the account's
owner at work elsewhere.  Nothing drops an entry of the caches, so with Remove, Rename or Move they go stale.
What holds then is `RemovesOnlyRequested`: in an account where nothing is renamed or moved, what
vanishes lay at or below the path of the Remove that ends with that very step.

### DirectoryService
What `DirCache` promises while nobody moves or removes directories: a directory service without a
cache.  Directories appear one at a time, each with a new id, and who asks for a path is told the id
that is there at that moment.  `DirCache` maps its tree to the service's tree and the id a request
goes on with to the answer; the maps, the table, the walk and the restarts are not to be seen.

### TaskFiles
A task query from the call that looks the task up to the record.  `Lookup`, `DirInfo` (`dirInfoByID`),
then for a completed task `Locate...` in the order of the code - the file id, the listing of
the task's directory, the search - each tried only if the one before found nothing, and `Expand`, one
listing per directory, until nothing waits (`walk[w].pending`).  `Store` normalises the paths
(`normalizeStoredOfflineTask`) and writes the record.  Every call may fail; the
owner may move, rename and delete in between.  Paths are sequences of names.  The record begins with the
directory that Add found or made at the save path (`AddedTo`), wherever that directory has gone meanwhile.  A task may have no name
(`NoName`); the search then looks for its info hash, which names no entry.  `flawed` marks a request one of
whose calls for files failed; the calls for the task's directory (`Stat`, `GetDir`) do not count, since the files
do not depend on them.

### HttpService
EXTENDS `AppLifecycle`: each action is one step of a request there together with what it means to the
client.  `admitted` are the requests past the middleware, `tokens` is the bucket, `effect` how far a request
got (registry asked, driver called, provider changed), `reply` the answer.  An error is the sequence of codes
wrapped into each other; `Wrap` is what the handlers put around it, `CodeOf` what `errors.As` finds, and
`httpStatusFromCode` the status.  `DoneAt` says how far an operation has got when the driver reports success: a
Mkdir need not have changed anything, since `ensureDir` returns early for a path that resolves, be it from a stale entry.

### AppLifecycle
`phase` is the main goroutine (serving, draining, the two shutdown hooks, the cleanup, exited);
each handler goes through `Registry.Get` - miss, create, write - and then submits and
records.  Go leaves unsynchronised map accesses undefined: a `get` that overlaps a write
sees the old or the new entry, or the runtime ends the process (`MapFatal`).  `timedOut` and
`closeError` are the errors `Stop` meets.  The process may end, so deadlock is not an error here.

## 3. Runs

| run | instance | shows |
|---|---|---|
| `tasks_distinct` | memory store, 2 handlers, 2 clients, 3 tasks, some ordered by one client and some by two, bare provider ids | `SubmittedOnce`: a key whose urls are its own reaches the provider once, whichever Adds race and whatever Get, List and Remove do; `IndexSound`: a key finds its own record or none, also after another client took it over |
| `tasks_faulty` | SQLite store whose statements fail, 2 profiles submitting one url, lost answers | `AnsweredOwn`: a client is never answered with a task that was not submitted under its own key; `IndexComplete`: every row that owns a key is found by it |
| `tasks_promise` | SQLite store, one key with two urls, lost answers, 1 restart | `IdempotencyPromise` (refinement of `IdempotentSubmission`), `EveryRequestAnswered`; `MutexHeldByAdd`: `idempotencyMu` is held by the one Add in its critical section, and by no request that was answered |
| `clients_once` | 3 callers, 2 driver instances, 2 profiles, all failures, 1 restart | `ClientCreatedOnce`, `OneSessionPerDriver`, `ConnectedBrowserRuns`, `StopsOnlyItsOwn`; `WaitsEnd`: nobody waits in a circle, or for a call that has returned |
| `clients_live` | 2 callers, 2 driver instances, 1 profile, users interfering | `EveryCallReturns`; `NothingLeftRunning`: what a session launched is stopped when it is over |
| `dirs_growing` | 2 workers, 2 names, depth 2, 2 ids; Add with any path and the owner creating directories, failing statements, 1 restart | `CacheAccurate`, `EnsuredDirExists`, `CreatesOnlyRequested`; `CachingInvisible` (refinement of `DirectoryService`) |
| `dirs_moving` | 2 workers, 2 accounts with the table, 1 restart; mkdir, rename, move and list in one, mkdir and remove in the other | `CacheOfOwnAccount`; `RequestsRunOut`: each step of a request answers it, spares it a resolution or brings the present one nearer to its end; `RemovesOnlyRequested`: however stale the entry it follows, a Remove deletes nothing but what it was asked for |
| `http_stop` | 2 handlers, 3 operations (one each that submits, queries and changes directories), a bucket of 1, closing may fail | `RecordedUnlessGivenUp`, `ServedByOpenDriver`, `OnlyLosersStayOpen`, `ExitsOnceAsked` of the process; `ClientErrorsChangeNothing` of its answers |
| `files` | 1 worker, 5 entries in 5 situations, depth limit 2, 1 change by the owner, every call may fail | `ListComplete`, `NothingForeign`, `PathsAreTrue`; `ListingsRunOut`: a listing leaves fewer directories at its depth, none other above and none beyond the limit; `EveryQueryAnswered` |
| `tasks_postgres` | PostgreSQL store, 2 handlers, 1 task, no fault | finds that `SubmittedOnce` fails |
| `tasks_final` | 2 handlers, 1 task | finds that `FinalStatusKept` fails |
| `errors_masked` | 1 handler | finds that `LoginStateTold` fails |

Type invariants are checked in the run of each module that has one, the store's as a part of `OfflineTasks!TypeOK`.  The proofs of section 4 do not fix
`Backend`; where one of them leaves a backend out, its hypotheses say so.

### What the failing runs show
- `tasks_postgres`: an Add is submitted, its record cannot be written because the key has a byte that PostgreSQL refuses
  (`internal/offline/store.go:143`), the error is only logged (`handler.go:209`) and the client is answered; its retry
  finds nothing and is submitted again.  No fault, race or restart is needed, and PostgreSQL is the default
  (`internal/app/app.go:138`).  docs/api.md:312 promises the task of the first submission.
- `tasks_final`: Get queries the provider and reads the record; Remove deletes the task and stores
  `canceled`; Get writes its copy back and the record is open again, for good, because
  the provider no longer lists the task.  One request is enough to lose another final status: a
  query that answers with a code `mapOfflineStatus` does not know stores `unknown` over `completed`.  The design document
  (docs/drission-cloud-driver-offline-plan.md:312-323) has no transition out of a final status.
- `errors_masked`: the driver reports a profile that is not logged in (40110); the handler wraps that
  into 50012 (40412 for a task query), and `errors.As` finds the outer code.  docs/api.md:52 lists 40110 among
  the codes clients get.

### Further divergences met while modelling
These follow from one action of a model and have no run of their own.
- Client 2 submits the url of client 1: `Put` moves the record to client 2's key, and client 1's retry finds
  nothing and is submitted again, against docs/drission-cloud-driver-offline-plan.md:543.  `SubmittedOnce`
  is therefore claimed for keys none of whose urls another order names, and the promise for instances without shared urls.
- A launch whose answer is lost leaves the browser running (`LaunchFailed` with `LostAnswers`).
- A user who starts a profile between a session's status read and its launch, or
  during the session, loses the browser to the session's cleanup (`StopsOnlyItsOwn` is checked without users).
- Nothing drops cache entries, so after a Remove a Mkdir of that path is answered "created" with nothing there, and an
  Add saves to an id that is gone (`EnsuredDirExists` and `CacheAccurate` are checked while directories are only created);
  docs/plans/离线下载实施计划.md:204 says that Add creates missing directories.
- After a move or rename the stale entry makes Remove delete the directory at its new place (`RemovesOnlyRequested`
  leaves accounts with such requests out).
- Move treats `dst` as a directory, while docs/api.md:488 shows a full target path.
- Two first requests may both create a driver; `Registry.Close` never sees the one whose entry was
  overwritten (`OnlyLosersStayOpen` says that only such a loser stays open).
- A listing that fails counts as an empty directory, and the shorter list replaces a complete one in the record.
- `prefixOfflineFilePath` takes a path that begins with the save path's first name for one that has the prefix
  already; if the task's own top entry has that name, the stored path lacks the prefix (`PathsAreTrue` leaves the case out).
- The search that is tried last may find other entries of the same name, and lists them with short paths.
- If neither call of `dirInfoByID` succeeds, a task in a subdirectory is answered with the root's path.
- A missing search keyword is answered 40000, where docs/api.md shows 40020.
- `/health` and `/ready` pass the rate limiter like everything else and can be refused.

### Bounds
Two handlers (workers, callers) suffice for every conflict in which one request's read and write
straddle another's; a third, where affordable, adds a waiter behind a lock that changes hands. Two
client keys and three tasks allow a key to be displaced and to return.  Two names to depth two give a parent, a
child, a sibling and a destination for Move.  One restart shows what persists: a second
starts from a state the first can leave.  `tasks_faulty` has none, and no bare ids, to keep the failing statements of two handlers
affordable: restarts are in `tasks_promise`, bare ids in `tasks_distinct`, and the theorem `AnswersAreOwn` covers all of them together.  `issued` and `created` count to 2 and stay there, enough to tell
once from more often.  `MaxInstances` equals the number of handlers, so it never blocks a `Create`.  `DirIds` bounds how many directories an account ever
gets; when they are used up a Mkdir can only fail.
The five situations of `files` are the ways the provider names a task - file id, directory id, both, neither, the root - with
names that are all different or that collide; the limit of 2 instead of 20 is reached and passed by the deepest entry.  One
worker suffices there, since requests share only the record and `Store` replaces its list whole.  A bucket of one is
empty while the second request arrives; `Refill` gives a token at any time, because nothing is known of the clock.
`MaxChanges` lets the owner act once, before or between any two calls.
Symmetry is used for handlers, callers, workers, profiles and ids, and only in runs
without liveness properties.

### Fairness
- Handlers, workers, callers: weak fairness of each goroutine's steps, since every
  call to the network or a table returns with an answer or an error (the HTTP clients and the endpoint wait
  have timeouts; for 115's own client this is an assumption), and Go schedules runnable goroutines.  It does not
  assume that calls succeed, that clients send anything, or that users act.
- Locks: strong fairness of taking a mutex that is released again and again
  (`sync.Mutex` hands over after 1 ms; `RWMutex` lets a waiting writer block new readers and readers in after a writer).
- `AppLifecycle`, `HttpService`: weak fairness of the main goroutine only.  Requests may hang for ever, which is what
  the drain's deadline is for.

## 4. Proofs

Checked by `tlapm` for every value of the constants that satisfies the modules' named assumptions.

| theorem | says | argument |
|---|---|---|
| `StoreSafety` (`OfflineStoreProofs`) | `StoreSpec => [](StoreTypeOK /\ IndexSound /\ ...)`, for the three backends | inductive as it stands once type, soundness and completeness are taken together: a write changes one row, and `removeIndexesLocked` clears exactly the entry the replaced row owned |
| `TypeCorrect` (`OfflineTasksProofs`) | type correctness of the handlers | `TaskTyping` strengthens `TypeOK` with what each `pc` value says of the request and the record held (a handler at `put` serves an Add, one at `storedSave` holds a record, ...) |
| `MutexGivenBack` (same module) | `MutexHeldByAdd`, under every fault of the model | inductive together with `TypeInv`: a step enters the critical section by `Lock`, leaves it by `Return`, or stays on its side; that a request at `lookup` names its client (`ReqShape`) keeps the miss inside |
| `AnswersAreOwn` | `AnsweredOwn`, under every fault of the model | the invariant adds: the row found under a key was submitted under that key, and so was the record a handler holds while it refreshes; `IndexStaysSound` carries the store's soundness over to the handlers |
| `AtMostOnce` (same module) | `SubmittedOnce`, if no task is shared between orders, `StoreWorks` (no statement fails, and the backend is not PostgreSQL), no answer is lost and the process does not restart | the invariant says that while the mutex is free, a key was submitted exactly if its row exists; the holder of the mutex is the only one that may be in between |
| `PromiseKept` | `Spec` implements `IdempotentSubmission` under those assumptions on orders and store, with lost answers, and with restarts when the rows survive them | the step from "answered" to "row present" is kept by every action, so each Add of an answered key hits the row |
| `LaunchedIsStopped`, `OnlyOwnIsStopped`, `BrowserStaysUp` (`BrowserSessionsProofs`) | `NothingLeftRunning` whatever users do, if launch answers arrive, stops succeed and the process lives; `StopsOnlyItsOwn` and `ConnectedBrowserRuns` under every fault, if users stay away | `LocksHeld` (a profile's lock and its holder's `pc` and `profile` agree) is what makes the two specific invariants inductive: `OwesStop` (a session whose browser runs is still before its `stop`) and `BrowserKept` (only stopped browsers are launched, and nobody else touches them) |
| `LoggedInOnce`, `SessionsApart`, `ClientsTyped` (`DriverClientsProofs`) | `ClientCreatedOnce`, `OneSessionPerDriver`, `TypeOK` | `CallsLocked`: `mu` is held from the second check to the return, and at `session` there is no client yet |
| `NobodyWaitsInVain` | `WaitsEnd`, under every fault and with users at work | `MuHeld` (who holds `mu` is in the part of `getClient` that locks it) and `LocksHeld`: who holds a profile's lock is past `lockProfile` and waits for nobody; if it held `mu` of the same instance, two calls of one instance would be inside (`CallsLocked`) |
| `SessionsRefined` | `DriverClients!Spec => SessionSpec` | each step is a session step or leaves the sessions alone, given a call's profile is known (`CallsLocked`) |
| `StoreOutlivesRequests`, `DriverOutlivesRequests`, `LosersOnly` (`AppLifecycleProofs`) | `RecordedUnlessGivenUp`, `ServedByOpenDriver`, `OnlyLosersStayOpen` | unless the drain timed out, nobody is served after it (`QuietAfterDrain`), what a handler holds or the next `Get` finds is open (`HeldIsOpen`), and the first instance is the registry's or on its way there (`FirstIsKept`) |
| `LifecycleTyped` (same module) | `AppLifecycle!TypeOK` | inductive as it stands |
| `ClientErrors` (`HttpServiceProofs`) | `ClientErrorsChangeNothing`, for any number of requests and any load | `HttpAlways`: what `effect` may be at each `pc` and for each operation, and what was promised at the answer; it is a statement about one handler (`Local`), and a step touches one handler |
| `HttpTyped` (same module) | `HttpTypeOK` | `TypedInv` is inductive once every step is seen to begin a request, carry it on, or answer it with a code and the status of that code (`StepShape`) |
| `LifecycleRefined` | `HttpSpec => AppLifecycle!Spec` | each action is a step of a request there or a stutter, so the theorems above hold behind the middleware, with errors and panics |
| `CachedIsOwn`, `DirTyped` (`DirCacheProofs`) | `CacheOfOwnAccount`, `TypeOK`, for every mix of requests, moving and removing ones included | `AccountInv`: the ids in an account's tree, in its requests' frames and in its caches were given out by that account |
| `RemovedAreRequested` | `RemovesOnlyRequested`, for every mix of requests; other accounts may be moved about in | `PlacesInv`: where directories are only made and removed, an id is at the path it was given out for or nowhere (`Sits`), and the ids in the caches and in the requests' frames are of the paths the code takes them for, stale or not (`Placed`, `Knows`).  Every step leaves such an account with entries that stayed, vanished or are new ids (`Steady`), which keeps that true |
| `RequestsEnd` | `RequestsRunOut`, for every mix of requests, whatever becomes of tree and caches meanwhile | from `AccountInv`, which knows of a goal that it is a prefix of the request's path, of a walk that a name is left, and of a listed parent that the request has a target; `ensureDir` goes on with a longer prefix (`FoundRunsOut`), what follows a fruitless walk is nearer to the end (`NotFoundRunsOut`) |
| `CacheIsAccurate`, `EnsuredExists`, `CreatedAreRequested` | `CacheAccurate`, `EnsuredDirExists`, `CreatesOnlyRequested`, assuming `Growing` (requests only create and list) | `GrowingInv`: an id is in one place (`TreeSound`); a request's goal is a prefix of its path whose parent it holds (`GoalFits`), and an id it found is the one at that path (`IdFits`).  As no id ever moves, what the others know stays true when one of them creates a directory (`LocalKept`) |
| `CacheIsInvisible` | `Spec => CachingInvisible`, assuming `Growing` | a step that reaches `act` or `done` answers with the id at the path asked for, `Mkdir` and `OwnerMkdir` are the service's creation, every other step is a stutter |
| `ListsAreOwn`, `ListsAreComplete` (`TaskFilesProofs`) | `NothingForeign`, `ListComplete`, for any account, depth limit and number of workers, whichever calls fail | `Inv`: each worker's `pc`, locals and failures fit together (`Fit`).  While nobody changes the account, what is found or waits is at or below an entry of the task (`Sound`), and while nothing failed, what was found and what the waiting directories lead to is what the task's entries lead to (`Whole`); a listing keeps that equation (`ExpandReaches`) |
| `PathsTrue` | `PathsAreTrue` | a path from the task's entries, put below the directory's own whole path, climbs through the same parents as the entry's whole path (`AboveSteps`, `TrailSteps`), so the two are equal; with the stated names `prefixOfflineFilePath` adds the prefix exactly where it is missing |
| `RecursionEnds` | `ListingsRunOut`, with an owner who moves directories meanwhile | what `Expand` adds is one level deeper than what it took, or past the limit and dropped (`ListingDeeper`) |
| `FilesTyped` | `TaskFiles!TypeOK` | part of `Inv`; that the climb to the root has a value of the right type is shown by recursion on the number of steps |

The resubmission described in section 3 shows why the assumption on shared tasks is needed, and the run `tasks_postgres`
why the one on the backend is.

Every invariant, action property and refinement that a passing run checks is stated by one of these theorems, for every value
of the constants under the hypotheses in the table.  Model-checked alone are the
liveness properties (`EveryRequestAnswered`, `EveryQueryAnswered`, `EveryCallReturns`, `ExitsOnceAsked`: fairness and ENABLED are
out of the prover's reach).  Of the first three the half that is safety is proved: the locks that are waited for are held by
somebody under way (`MutexHeldByAdd`, `WaitsEnd`), and the recursion runs out (`ListingsRunOut`); what TLC adds is that every
step that is left is taken.  `ExitsOnceAsked` has no loop and waits for no lock.  That directory requests end is stated by
`RequestsRunOut` alone: no lock of the model is waited for there.

`TaskFiles` needs induction: how deep an entry lies is not bounded by the model.  The library's induction rules take
an operator, which the installed provers cannot instantiate, so `TaskFilesProofs` derives from well-foundedness what it needs
about sets and functions instead - the least number of a set, induction for a set of numbers, and that a function defined
by steps exists (`Least`, `Induction`, `Recursion`).  No module declares a recursive operator.

## 5. Not modelled

- Framework registries, configuration, logging, time zone and request ids: filled or read once
  at the start, no state that a property could be about.  `initialize` may fail before the process serves anything.
- The contents of search results, download urls and listings, which are passed through; their calls are
  operations of `HttpService`.
- `IPRateLimit`, which no router installs, and `GetConnection` with its cache, which no request reaches.
- The time at which tokens come back, the length of timeouts and delays.
- The session of a 115 account may expire; the code never drops a client, so such a profile fails until a restart -
  there is no promise to check.  Browsers that die by themselves are covered only as calls that fail.

## 6. Plan

1. *Core* (done): `OfflineStore`, `OfflineTasks`, `IdempotentSubmission`, `BrowserSessions`, `DriverClients`,
   `DirCache`, `AppLifecycle` with their runs and proofs.
2. *More of the system* (done): `TaskFiles`; `HttpService` over `AppLifecycle`; `DirectoryService` as the abstract
   specification of `DirCache`.
3. *Proofs* (done): a theorem for every safety property of the runs; and the safety half of
   what the liveness properties say.
4. *Compositions*: the stop of the process in the middle of `OfflineTasks`' real Add instead of the abstract one, and
   a start that fails half way and has to give back what it opened.

## 7. Running

    tlc -workers 2 -config OfflineTasks_promise.cfg MCOfflineTasks
    tlapm OfflineTasksProofs.tla

`PROJECT.json` names the module and configuration of every run.  The longest take about two minutes on two cores.
