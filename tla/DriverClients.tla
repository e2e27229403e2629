---------------------------- MODULE DriverClients ----------------------------
(***************************************************************************)
(* getClient of the 115 driver (internal/drivers/pan115/driver.go): one    *)
(* logged-in client per profile, created on first use through a browser    *)
(* session.  The driver's RWMutex mu is held for writing during the whole  *)
(* session and the login check, so every other profile's callers wait.     *)
(*                                                                         *)
(* Drivers is the set of driver instances: one is intended, but            *)
(* Registry.Get may hand out two when first requests race.                 *)
(***************************************************************************)
EXTENDS BrowserSessions

CONSTANTS
    Drivers,      \* driver instances
    NoCall        \* a caller that is not in getClient

ASSUME NoCallAssumption == NoCall \notin Drivers \X Profiles

VARIABLES
    clients,      \* driver -> profiles with a client
    mu,           \* driver -> the caller that holds mu for writing
    step,         \* caller -> where it is in getClient
    want,         \* caller -> <<driver, profile>> of its call
    created       \* history: driver -> profile -> clients made, counted up to 2

clientVars == <<clients, mu, step, want, created>>
vars == <<sessionVars, clientVars>>

Steps == {"idle", "check", "lock", "recheck", "session"}

Init ==
    /\ SessionInit
    /\ clients = [d \in Drivers |-> {}]
    /\ mu = [d \in Drivers |-> NoCaller]
    /\ step = [h \in Callers |-> "idle"]
    /\ want = [h \in Callers |-> NoCall]
    /\ created = [d \in Drivers |-> [p \in Profiles |-> 0]]

Driver(h) == want[h][1]
Profile(h) == want[h][2]
Cached(h) == Profile(h) \in clients[Driver(h)]

Move(h, from, to) ==
    /\ step[h] = from
    /\ step' = [step EXCEPT ![h] = to]

Call(h) ==
    /\ Move(h, "idle", "check")
    /\ \E d \in Drivers, p \in Profiles : want' = [want EXCEPT ![h] = <<d, p>>]
    /\ UNCHANGED <<sessionVars, clients, mu, created>>

\* The read lock, held for one map access, is free unless a writer has it.
Check(h) ==
    /\ step[h] = "check"
    /\ mu[Driver(h)] = NoCaller
    /\ Move(h, "check", IF Cached(h) THEN "idle" ELSE "lock")
    /\ want' = [want EXCEPT ![h] = IF Cached(h) THEN NoCall ELSE @]
    /\ UNCHANGED <<sessionVars, clients, mu, created>>

\* Slip: the session runs without the driver's lock.
LockNoDriver(h) ==
    /\ Move(h, "lock", "recheck")
    /\ UNCHANGED <<sessionVars, clients, mu, want, created>>

LockDriver(h) ==
    /\ step[h] = "lock"
    /\ mu[Driver(h)] = NoCaller
    /\ Move(h, "lock", "recheck")
    /\ mu' = [mu EXCEPT ![Driver(h)] = h]
    /\ UNCHANGED <<sessionVars, clients, want, created>>

\* Return runs the deferred Unlock.
Return(h) ==
    /\ step' = [step EXCEPT ![h] = "idle"]
    /\ want' = [want EXCEPT ![h] = NoCall]
    /\ mu' = [mu EXCEPT ![Driver(h)] = NoCaller]

RecheckHit(h) ==
    /\ step[h] = "recheck"
    /\ Cached(h)
    /\ Return(h)
    /\ UNCHANGED <<sessionVars, clients, created>>

\* Slip: the double check is left out.
RecheckSkipped(h) ==
    /\ step[h] = "recheck"
    /\ Move(h, "recheck", "session")
    /\ Begin(h, Profile(h))
    /\ UNCHANGED <<clients, mu, want, created>>

RecheckMiss(h) ==
    /\ step[h] = "recheck"
    /\ ~Cached(h)
    /\ Move(h, "recheck", "session")
    /\ Begin(h, Profile(h))
    /\ UNCHANGED <<clients, mu, want, created>>

Session(h) ==
    /\ SessionStep(h)
    /\ UNCHANGED clientVars

\* No cookie, an error of the session, or a login check that fails.
NoClientMade(h) ==
    /\ step[h] = "session"
    /\ Collect(h)
    /\ Return(h)
    /\ UNCHANGED <<clients, created>>

\* Slip: the client is kept under a key of driver and profile.
ClientMadeForPair(h) ==
    /\ step[h] = "session"
    /\ result[h] = "cookie"
    /\ Collect(h)
    /\ clients' = [clients EXCEPT ![Driver(h)] = @ \cup {want[h]}]
    /\ created' = [created EXCEPT ![Driver(h)][Profile(h)] = IF @ < 2 THEN @ + 1 ELSE 2]
    /\ Return(h)

ClientMade(h) ==
    /\ step[h] = "session"
    /\ result[h] = "cookie"
    /\ Collect(h)
    /\ clients' = [clients EXCEPT ![Driver(h)] = @ \cup {Profile(h)}]
    /\ created' = [created EXCEPT ![Driver(h)][Profile(h)] = IF @ < 2 THEN @ + 1 ELSE 2]
    /\ Return(h)

\* Clients live in memory only.
Crash ==
    /\ SessionsCrash
    /\ clients' = [d \in Drivers |-> {}]
    /\ mu' = [d \in Drivers |-> NoCaller]
    /\ step' = [h \in Callers |-> "idle"]
    /\ created' = [d \in Drivers |-> [p \in Profiles |-> 0]]
    /\ want' = [h \in Callers |-> NoCall]

CallStep(h) ==
    \/ Check(h) \/ LockDriver(h) \/ RecheckHit(h) \/ RecheckMiss(h)
    \/ Session(h) \/ NoClientMade(h) \/ ClientMade(h)

Next ==
    \/ \E h \in Callers : Call(h) \/ CallStep(h)
    \/ Users /\ UNCHANGED clientVars
    \/ Crash

Spec == Init /\ [][Next]_vars

(* Every call of a session returns, the endpoint wait after 30 s at the    *)
(* latest; Go's mutexes are not starved by others that come and go.        *)
Fairness ==
    \A h \in Callers :
        /\ WF_vars(CallStep(h))
        /\ SF_vars(Check(h))
        /\ SF_vars(LockDriver(h))
        /\ SF_vars(LockProfile(h) /\ UNCHANGED clientVars)

FairSpec == Spec /\ Fairness

-----------------------------------------------------------------------------
(* Every variable has its type.                                            *)
TypeOK ==
    /\ SessionTypeOK
    /\ clients \in [Drivers -> SUBSET Profiles]
    /\ mu \in [Drivers -> Callers \cup {NoCaller}]
    /\ step \in [Callers -> Steps]
    /\ want \in [Callers -> (Drivers \X Profiles) \cup {NoCall}]
    /\ created \in [Drivers -> [Profiles -> 0..2]]

(* However many first requests race, a driver opens a browser and logs in  *)
(* at most once per profile, and it has a client exactly for the profiles  *)
(* it logged in to (the double check after Lock).                          *)
ClientCreatedOnce ==
    \A d \in Drivers, p \in Profiles :
        created[d][p] = IF p \in clients[d] THEN 1 ELSE 0

(* The driver's lock alone keeps its sessions apart: two callers that are  *)
(* in a session at the same time use different driver instances, and so a  *)
(* profile's lock is only ever contended between driver instances.         *)
OneSessionPerDriver ==
    \A g, h \in Callers :
        g # h /\ pc[g] # "idle" /\ pc[h] # "idle" => Driver(g) # Driver(h)

\* The caller that holds what h waits for: mu, later its profile's lock.
Awaits(h) ==
    IF step[h] \in {"check", "lock"} THEN mu[Driver(h)]
    ELSE IF pc[h] = "lockProfile" THEN profileLock[profile[h]]
    ELSE NoCaller

(* No two locks are waited for in a circle, and none is held by a call that*)
(* has returned: who waits, waits for a call that is under way, and that   *)
(* one for nobody, or, with mu in hand, for a session of another driver    *)
(* instance that waits for nobody.                                         *)
WaitsEnd ==
    \A h \in Callers : Awaits(h) # NoCaller =>
        LET g == Awaits(h)
            f == Awaits(g)
        IN  /\ step[g] # "idle"
            /\ f # NoCaller => step[f] = "session" /\ Awaits(f) = NoCaller /\ Driver(f) # Driver(g)

(* Every call of getClient returns: nobody waits for ever, and every path, *)
(* the failed ones too, gives back both locks.                             *)
EveryCallReturns ==
    \A h \in Callers : step[h] # "idle" ~> step[h] = "idle"
=============================================================================
