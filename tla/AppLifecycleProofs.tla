------------------------- MODULE AppLifecycleProofs -------------------------
(***************************************************************************)
(* The safety properties of AppLifecycle, for any number of requests and   *)
(* of driver instances.                                                    *)
(***************************************************************************)
EXTENDS AppLifecycle, TLAPS

(* The phases after the drain in which the main goroutine still runs.      *)
Stopping == {"closeDriver", "closeBrowser", "closeStore", "leaving"}

(* A handler past Create has an instance.                                  *)
Holding == {"write", "writing", "submit", "record"}

(* Instances that the registry or a handler knows have been created, and   *)
(* only handlers in the middle of the assignment write to the map.         *)
RegistryTyping ==
    /\ drivers \in 1..made \cup {NoDriver}
    /\ \A h \in Handlers : pc[h] \in Holding => driver[h] \in 1..made
    /\ \A h \in writing : pc[h] = "writing"

(* Unless the drain was given up nobody is served after it.                *)
QuietAfterDrain == phase \in Stopping /\ ~timedOut => Idle

(* The store is closed by the last step before the process leaves, and a   *)
(* process that got there had nobody to serve.                             *)
StoreClosedLast ==
    ~storeOpen => /\ phase \in {"leaving", "exited"}
                  /\ timedOut \/ Idle

(* What a handler holds, and what the next Get finds, is open.             *)
HeldIsOpen ==
    \/ timedOut
    \/ /\ \A h \in Handlers : pc[h] \in Holding => driver[h] \in open
       /\ phase \in {"serving", "draining", "closeDriver"} /\ drivers # NoDriver
             => drivers \in open

(* The only instance there is is the registry's, or on its way there.      *)
FirstIsKept ==
    made <= 1 => \A i \in open : \/ i = drivers
                                 \/ \E h \in Handlers : /\ pc[h] \in {"write", "writing"}
                                                        /\ driver[h] = i

(* Close has closed the registry's instance.                               *)
ClosedAfterClose ==
    /\ \/ phase \in {"closeBrowser", "closeStore", "leaving"}
       \/ phase = "exited" /\ ~storeOpen
    /\ ~timedOut
    /\ ~closeError
    => drivers \notin open /\ (made <= 1 => open = {})

Inv ==
    /\ TypeOK
    /\ RegistryTyping
    /\ QuietAfterDrain
    /\ StoreClosedLast
    /\ HeldIsOpen
    /\ FirstIsKept
    /\ ClosedAfterClose
    /\ RecordedUnlessGivenUp

-----------------------------------------------------------------------------
(* The process starts with an empty registry and an open store.            *)
LEMMA InitInv == Init => Inv
<1> SUFFICES ASSUME Init PROVE Inv
  OBVIOUS
<1> USE DEF Init
<1>1. TypeOK
  <2>1. pc \in [Handlers -> Pcs] /\ driver \in [Handlers -> Instances \cup {NoDriver}]
    BY DEF Pcs
  <2>2. made \in 0..MaxInstances /\ writing \subseteq Handlers /\ open \subseteq 1..made
    BY InstancesAssumption
  <2>3. phase \in Phases /\ drivers \in Instances \cup {NoDriver}
    BY DEF Phases
  <2> QED BY <2>1, <2>2, <2>3 DEF TypeOK
<1>2. RegistryTyping
  BY DEF RegistryTyping, Holding
<1>3. QuietAfterDrain /\ StoreClosedLast /\ ClosedAfterClose /\ RecordedUnlessGivenUp
  BY DEF QuietAfterDrain, StoreClosedLast, ClosedAfterClose, RecordedUnlessGivenUp, Stopping
<1>4. HeldIsOpen /\ FirstIsKept
  BY DEF HeldIsOpen, FirstIsKept, Holding
<1> QED BY <1>1, <1>2, <1>3, <1>4 DEF Inv

(* A step of a request keeps the invariant.                                *)
LEMMA ServeKeepsInv ==
    ASSUME Inv, NEW h \in Handlers, Serve(h)
    PROVE  Inv'
<1> USE InstancesAssumption, NoDriverAssumption
    DEF Inv, TypeOK, RegistryTyping, QuietAfterDrain, StoreClosedLast, HeldIsOpen, FirstIsKept,
        ClosedAfterClose, RecordedUnlessGivenUp, Phases, Pcs, Instances, Holding, Stopping,
        Idle, Goto, mainVars, registryVars
<1>1. CASE Arrive(h)
  BY <1>1 DEF Arrive
<1>2. CASE GetHit(h)
  BY <1>2 DEF GetHit
<1>3. CASE GetMiss(h)
  BY <1>3 DEF GetMiss
<1>4. CASE Create(h)
  BY <1>4 DEF Create
<1>5. CASE CreateFailed(h)
  BY <1>5 DEF CreateFailed, Fails
<1>6. CASE WriteBegins(h)
  BY <1>6 DEF WriteBegins
<1>7. CASE WriteEnds(h)
  BY <1>7 DEF WriteEnds
<1>8. CASE Submit(h)
  BY <1>8 DEF Submit
<1>9. CASE SubmitFailed(h)
  BY <1>9 DEF SubmitFailed, Fails
<1>10. CASE Record(h)
  BY <1>10 DEF Record
<1>11. CASE Refused(h)
  BY <1>11 DEF Refused, Fails
<1> QED
  BY <1>1, <1>2, <1>3, <1>4, <1>5, <1>6, <1>7, <1>8, <1>9, <1>10, <1>11 DEF Serve

(* A step of the main goroutine, and the end by a map error, keep it.      *)
LEMMA MainKeepsInv ==
    ASSUME Inv, BeginStop \/ Stop \/ MapFatal
    PROVE  Inv'
<1> USE InstancesAssumption, NoDriverAssumption
    DEF Inv, TypeOK, RegistryTyping, QuietAfterDrain, StoreClosedLast, HeldIsOpen, FirstIsKept,
        ClosedAfterClose, RecordedUnlessGivenUp, Phases, Pcs, Instances, Holding, Stopping,
        Idle, Then, registryVars
<1>1. CASE BeginStop
  BY <1>1 DEF BeginStop
<1>2. CASE Drained
  BY <1>2 DEF Drained
<1>3. CASE DrainTimesOut
  BY <1>3 DEF DrainTimesOut
<1>4. CASE CloseDriver
  BY <1>4 DEF CloseDriver
<1>5. CASE CloseBrowser
  BY <1>5 DEF CloseBrowser
<1>6. CASE CloseStore
  BY <1>6 DEF CloseStore
<1>7. CASE Exit
  BY <1>7 DEF Exit
<1>8. CASE MapFatal
  BY <1>8 DEF MapFatal
<1> QED
  BY <1>1, <1>2, <1>3, <1>4, <1>5, <1>6, <1>7, <1>8 DEF Stop

(* Inv is an invariant of the process.                                     *)
THEOREM LifecycleInvariant == Spec => []Inv
<1>1. Inv /\ [Next]_vars => Inv'
  <2> SUFFICES ASSUME Inv, [Next]_vars PROVE Inv'
    OBVIOUS
  <2>1. CASE Next
    BY <2>1, ServeKeepsInv, MainKeepsInv DEF Next
  <2>2. CASE UNCHANGED vars
    BY <2>2 DEF vars, Inv, TypeOK, RegistryTyping, QuietAfterDrain, StoreClosedLast, HeldIsOpen,
                FirstIsKept, ClosedAfterClose, RecordedUnlessGivenUp, Idle
  <2> QED BY <2>1, <2>2
<1> QED BY InitInv, <1>1, PTL DEF Spec

(* No request and no step of the shutdown leaves a variable's type: handles*)
(* are only opened for instances that were created.                        *)
THEOREM LifecycleTyped == Spec => []TypeOK
<1>1. Inv => TypeOK
  BY DEF Inv
<1> QED BY LifecycleInvariant, <1>1, PTL

(* Stop closes the store after the last request has recorded its task,     *)
(* unless the drain is given up.                                           *)
THEOREM StoreOutlivesRequests == Spec => []RecordedUnlessGivenUp
<1>1. Inv => RecordedUnlessGivenUp
  BY DEF Inv
<1> QED BY LifecycleInvariant, <1>1, PTL

(* Registry.Close closes no instance that a request is using, unless the   *)
(* drain is given up.                                                      *)
THEOREM DriverOutlivesRequests == Spec => []ServedByOpenDriver
<1>1. Inv => ServedByOpenDriver
  BY DEF Inv, HeldIsOpen, ServedByOpenDriver, Holding
<1> QED BY LifecycleInvariant, <1>1, PTL

(* After a shutdown without errors the registry's instance is closed, and  *)
(* every instance if only one was created: what Get's race leaves open is  *)
(* the loser's handle.                                                     *)
THEOREM LosersOnly == Spec => []OnlyLosersStayOpen
<1>1. Inv => OnlyLosersStayOpen
  BY DEF Inv, ClosedAfterClose, OnlyLosersStayOpen
<1> QED BY LifecycleInvariant, <1>1, PTL
=============================================================================
