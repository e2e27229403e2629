---------------------------- MODULE AppLifecycle ----------------------------
(***************************************************************************)
(* The process from serving to exit (internal/app/run.go, lifecycle.go),   *)
(* with the driver registry whose instances live in between                *)
(* (internal/drivers/registry.go).                                         *)
(*                                                                         *)
(* Requests are goroutines of the HTTP server.  Each asks the registry for *)
(* the driver, which the first one creates; submits a task; and stores its *)
(* record.  The registry's maps are unsynchronised: a map access that      *)
(* overlaps a write by another goroutine sees the old map, the new one, or *)
(* makes the Go runtime abort the process.                                 *)
(*                                                                         *)
(* Stop drains the server until a timeout, runs the modules' shutdown hooks*)
(* (in reverse order of their names: driver, then browser) and returns;    *)
(* the deferred cleanup closes the store.  One platform is registered.     *)
(***************************************************************************)
EXTENDS Naturals

CONSTANTS
    Handlers,       \* goroutines that serve requests
    NoDriver,       \* no driver instance
    MaxInstances,   \* bound on the factory's calls
    CloseFails      \* may closing a driver fail?

ASSUME InstancesAssumption == MaxInstances \in Nat
ASSUME SwitchAssumption == CloseFails \in BOOLEAN
ASSUME NoDriverAssumption == NoDriver \notin Nat

VARIABLES
    phase,          \* what the main goroutine does
    timedOut,       \* the drain was given up
    closeError,     \* Registry.Close reported an error
    storeOpen,      \* the offline store has not been closed
    drivers,        \* the registry's entry for the platform
    writing,        \* handlers in the middle of the map assignment
    made,           \* driver instances created so far
    open,           \* instances whose database handle is open
    pc,             \* handler -> what it does next
    driver,         \* handler -> the instance it got
    unrecorded      \* history: a submitted task met a closed store

vars == <<phase, timedOut, closeError, storeOpen, drivers, writing, made, open, pc, driver, unrecorded>>
mainVars == <<phase, timedOut, closeError, storeOpen>>
registryVars == <<drivers, writing, made, open>>

Instances == 1..MaxInstances
Phases == {"serving", "draining", "closeDriver", "closeBrowser", "closeStore",
           "leaving", "exited"}
Pcs == {"idle", "get", "create", "write", "writing", "submit", "record"}

Init ==
    /\ phase = "serving"
    /\ timedOut = FALSE
    /\ closeError = FALSE
    /\ storeOpen = TRUE
    /\ drivers = NoDriver
    /\ writing = {}
    /\ made = 0
    /\ open = {}
    /\ pc = [h \in Handlers |-> "idle"]
    /\ driver = [h \in Handlers |-> NoDriver]
    /\ unrecorded = FALSE

Goto(h, from, to) ==
    /\ phase # "exited"
    /\ pc[h] = from
    /\ pc' = [pc EXCEPT ![h] = to]

-----------------------------------------------------------------------------
(* A request                                                               *)

Arrive(h) ==
    /\ phase = "serving"
    /\ Goto(h, "idle", "get")
    /\ UNCHANGED <<mainVars, registryVars, driver, unrecorded>>

\* Get: the entry is there, possibly because a write is half done.
GetHit(h) ==
    /\ Goto(h, "get", "submit")
    /\ \E d \in ({drivers} \cup {driver[g] : g \in writing}) \ {NoDriver} :
          driver' = [driver EXCEPT ![h] = d]
    /\ UNCHANGED <<mainVars, registryVars, unrecorded>>

GetMiss(h) ==
    /\ drivers = NoDriver
    /\ Goto(h, "get", "create")
    /\ UNCHANGED <<mainVars, registryVars, driver, unrecorded>>

\* Slip: the handle is kept under the number of the instance before.
CreateMiscounted(h) ==
    /\ made < MaxInstances
    /\ Goto(h, "create", "write")
    /\ made' = made + 1
    /\ open' = open \cup {made}
    /\ driver' = [driver EXCEPT ![h] = made + 1]
    /\ UNCHANGED <<mainVars, drivers, writing, unrecorded>>

\* The factory opens a database handle of its own.
Create(h) ==
    /\ made < MaxInstances
    /\ Goto(h, "create", "write")
    /\ made' = made + 1
    /\ open' = open \cup {made + 1}
    /\ driver' = [driver EXCEPT ![h] = made + 1]
    /\ UNCHANGED <<mainVars, drivers, writing, unrecorded>>

Fails(h, from) ==
    /\ Goto(h, from, "idle")
    /\ driver' = [driver EXCEPT ![h] = NoDriver]
    /\ UNCHANGED <<mainVars, registryVars, unrecorded>>

CreateFailed(h) == Fails(h, "create")

\* The request is refused before it asks, or asks for an unknown platform.
Refused(h) == Fails(h, "get")

WriteBegins(h) ==
    /\ Goto(h, "write", "writing")
    /\ writing' = writing \cup {h}
    /\ UNCHANGED <<mainVars, drivers, made, open, driver, unrecorded>>

\* Slip: the instance is used but not kept.
WriteForgotten(h) ==
    /\ Goto(h, "writing", "submit")
    /\ writing' = writing \ {h}
    /\ UNCHANGED <<mainVars, drivers, made, open, driver, unrecorded>>

WriteEnds(h) ==
    /\ Goto(h, "writing", "submit")
    /\ writing' = writing \ {h}
    /\ drivers' = driver[h]
    /\ UNCHANGED <<mainVars, made, open, driver, unrecorded>>

\* "fatal error: concurrent map read and map write", or two writes.
MapFatal ==
    /\ phase # "exited"
    /\ writing # {}
    /\ \/ \E h \in Handlers : pc[h] = "get"
       \/ \E h \in Handlers \ writing : pc[h] = "write"
       \/ phase = "closeDriver"
    /\ phase' = "exited"
    /\ UNCHANGED <<timedOut, closeError, storeOpen, registryVars, pc, driver, unrecorded>>

\* A closed cache handle of the driver does not keep it from submitting.
Submit(h) ==
    /\ Goto(h, "submit", "record")
    /\ UNCHANGED <<mainVars, registryVars, driver, unrecorded>>

SubmitFailed(h) == Fails(h, "submit")

\* Put; its error is only logged.
Record(h) ==
    /\ Goto(h, "record", "idle")
    /\ driver' = [driver EXCEPT ![h] = NoDriver]
    /\ unrecorded' = (unrecorded \/ ~storeOpen)
    /\ UNCHANGED <<mainVars, registryVars>>

-----------------------------------------------------------------------------
(* Run and Stop                                                            *)

Idle == \A h \in Handlers : pc[h] = "idle"

Then(from, to) ==
    /\ phase = from
    /\ phase' = to

\* A signal arrives, or ListenAndServe returns an error.
BeginStop ==
    /\ Then("serving", "draining")
    /\ UNCHANGED <<timedOut, closeError, storeOpen, registryVars, pc, driver, unrecorded>>

\* Slip: Close instead of Shutdown, which does not wait for requests.
NotDrained ==
    /\ Then("draining", "closeDriver")
    /\ UNCHANGED <<timedOut, closeError, storeOpen, registryVars, pc, driver, unrecorded>>

\* HTTPServer.Shutdown returns when no request is in progress.
Drained ==
    /\ Then("draining", "closeDriver")
    /\ Idle
    /\ UNCHANGED <<timedOut, closeError, storeOpen, registryVars, pc, driver, unrecorded>>

\* Slip: a context without a deadline.
NoDeadline ==
    /\ Then("draining", "closeDriver")
    /\ timedOut
    /\ UNCHANGED <<timedOut, closeError, storeOpen, registryVars, pc, driver, unrecorded>>

\* ... or with the context's error after ShutdownTimeout.
DrainTimesOut ==
    /\ Then("draining", "closeDriver")
    /\ ~Idle
    /\ timedOut' = TRUE
    /\ UNCHANGED <<closeError, storeOpen, registryVars, pc, driver, unrecorded>>

\* Registry.Close closes the instance in the map; ShutdownModules returns at
\* the first error and leaves the browser manager as it is.
CloseDriver ==
    /\ phase = "closeDriver"
    /\ \/ /\ open' = open \ {drivers}
          /\ phase' = "closeBrowser"
          /\ UNCHANGED closeError
       \/ /\ CloseFails
          /\ drivers # NoDriver
          /\ phase' = "closeStore"
          /\ closeError' = TRUE
          /\ UNCHANGED open
    /\ UNCHANGED <<timedOut, storeOpen, drivers, writing, made, pc, driver, unrecorded>>

CloseBrowser ==
    /\ Then("closeBrowser", "closeStore")
    /\ UNCHANGED <<timedOut, closeError, storeOpen, registryVars, pc, driver, unrecorded>>

\* The deferred cleanup; requests that outlived the drain still run.
CloseStore ==
    /\ Then("closeStore", "leaving")
    /\ storeOpen' = FALSE
    /\ UNCHANGED <<timedOut, closeError, registryVars, pc, driver, unrecorded>>

Exit ==
    /\ Then("leaving", "exited")
    /\ UNCHANGED <<timedOut, closeError, storeOpen, registryVars, pc, driver, unrecorded>>

Serve(h) ==
    \/ Arrive(h) \/ Refused(h) \/ GetHit(h) \/ GetMiss(h) \/ Create(h) \/ CreateFailed(h)
    \/ WriteBegins(h) \/ WriteEnds(h) \/ Submit(h) \/ SubmitFailed(h) \/ Record(h)

Stop == Drained \/ DrainTimesOut \/ CloseDriver \/ CloseBrowser \/ CloseStore \/ Exit

Next ==
    \/ \E h \in Handlers : Serve(h)
    \/ BeginStop
    \/ Stop
    \/ MapFatal

Spec == Init /\ [][Next]_vars

(* The main goroutine is scheduled and the drain's timer fires; nothing is *)
(* assumed of the requests, which may hang in a provider call for good.    *)
FairSpec == Spec /\ WF_vars(Stop)

-----------------------------------------------------------------------------
(* Every variable has its type.                                            *)
TypeOK ==
    /\ phase \in Phases
    /\ timedOut \in BOOLEAN
    /\ closeError \in BOOLEAN
    /\ storeOpen \in BOOLEAN
    /\ drivers \in Instances \cup {NoDriver}
    /\ writing \subseteq Handlers
    /\ made \in 0..MaxInstances
    /\ open \subseteq 1..made
    /\ pc \in [Handlers -> Pcs]
    /\ driver \in [Handlers -> Instances \cup {NoDriver}]
    /\ unrecorded \in BOOLEAN

(* Unless the drain was given up, no request comes to store the task that  *)
(* the provider accepted and finds the store closed: it is closed after the*)
(* last request.  (A task whose answer is lost, whose handler panics or    *)
(* dies with the process by a map error stays unrecorded all the same.)    *)
RecordedUnlessGivenUp == unrecorded => timedOut

(* A request works with a driver whose handle is open, unless the drain was*)
(* given up: an instance is closed only when nobody can be using it.       *)
ServedByOpenDriver ==
    \A h \in Handlers :
        pc[h] \in {"submit", "record"} => driver[h] \in open \/ timedOut

(* Only an instance that lost the race for the registry's entry can still  *)
(* be open after a shutdown without errors.                                *)
OnlyLosersStayOpen ==
    phase \in {"leaving", "exited"} /\ ~storeOpen /\ ~timedOut /\ ~closeError
        => drivers \notin open /\ (made <= 1 => open = {})

(* Once asked to stop the process exits, whatever its requests are doing.  *)
ExitsOnceAsked == phase = "draining" ~> phase = "exited"
=============================================================================
