------------------------ MODULE DriverClientsProofs ------------------------
(***************************************************************************)
(* getClient logs in once, for any number of callers, profiles and driver  *)
(* instances; and what BrowserSessionsProofs shows of the sessions holds of*)
(* the sessions that getClient opens.                                      *)
(***************************************************************************)
EXTENDS DriverClients, BrowserSessionsProofs

Locked == {"recheck", "session"}

(* mu is held from the second check to the return, a call in progress has a*)
(* driver and a profile, and only a call at "session" is in a session.     *)
CallsLocked ==
    /\ \A h \in Callers : step[h] # "idle" => want[h] \in Drivers \X Profiles
    /\ \A h \in Callers : step[h] \in Locked => mu[Driver(h)] = h
    /\ \A h \in Callers : pc[h] # "idle" \/ result[h] # "none" => step[h] = "session"
    /\ \A h \in Callers : step[h] = "session" => ~Cached(h)

ClientInv == SessionInv /\ TypeOK /\ CallsLocked /\ ClientCreatedOnce

LEMMA InitClients == Init => ClientInv
<1> SUFFICES ASSUME Init PROVE ClientInv
  OBVIOUS
<1>1. SessionInv
  BY InitSession DEF Init
<1>2. TypeOK
  BY <1>1 DEF Init, TypeOK, Steps, SessionInv
<1>3. CallsLocked
  BY DEF Init, SessionInit, CallsLocked, Locked
<1>4. ClientCreatedOnce
  BY DEF Init, ClientCreatedOnce
<1> QED BY <1>1, <1>2, <1>3, <1>4 DEF ClientInv

(* A step of a session only moves a caller that is in one.                 *)
LEMMA SessionStepIsLocal ==
    ASSUME SessionTypeOK, NEW h \in Callers, SessionStep(h)
    PROVE  /\ pc[h] # "idle"
           /\ \A g \in Callers \ {h} : pc'[g] = pc[g] /\ result'[g] = result[g]
<1> USE DEF SessionTypeOK, Goto, Ends
<1>1. CASE LockProfile(h) \/ GetProfile(h) \/ GetProfileFailed(h) \/ LaunchProfile(h)
  BY <1>1 DEF LockProfile, GetProfile, GetProfileFailed, LaunchProfile
<1>2. CASE LaunchFailed(h) \/ EndpointReady(h) \/ OpenFailed(h) \/ NewConnection(h)
  BY <1>2 DEF LaunchFailed, EndpointReady, OpenFailed, NewConnection
<1>3. CASE ReadCookies(h) \/ NoCookies(h) \/ Navigate(h) \/ ReadCookiesAgain(h)
  BY <1>3 DEF ReadCookies, NoCookies, Navigate, ReadCookiesAgain
<1>4. CASE CloseConnection(h) \/ StopProfile(h) \/ UnlockProfile(h)
  BY <1>4 DEF CloseConnection, StopProfile, UnlockProfile
<1> QED BY <1>1, <1>2, <1>3, <1>4 DEF SessionStep

-----------------------------------------------------------------------------
(* Every step of getClient is a step of the sessions or leaves them alone. *)
LEMMA ClientsStepSessions ==
    ASSUME ClientInv, [Next]_vars
    PROVE  [SessionNext]_sessionVars
<1> SUFFICES ASSUME Next PROVE [SessionNext]_sessionVars
  BY DEF vars, sessionVars
<1>1. ASSUME NEW h \in Callers, Call(h) PROVE UNCHANGED sessionVars
  BY <1>1 DEF Call
<1>2. ASSUME NEW h \in Callers, Check(h) \/ LockDriver(h) \/ RecheckHit(h)
      PROVE  UNCHANGED sessionVars
  BY <1>2 DEF Check, LockDriver, RecheckHit
<1>3. ASSUME NEW h \in Callers, RecheckMiss(h) PROVE \E p \in Profiles : Begin(h, p)
  BY <1>3 DEF RecheckMiss, ClientInv, CallsLocked, Profile
<1>4. ASSUME NEW h \in Callers, Session(h) PROVE SessionStep(h)
  BY <1>4 DEF Session
<1>5. ASSUME NEW h \in Callers, NoClientMade(h) \/ ClientMade(h) PROVE Collect(h)
  BY <1>5 DEF NoClientMade, ClientMade
<1> QED BY <1>1, <1>2, <1>3, <1>4, <1>5 DEF Next, CallStep, Crash, SessionNext

-----------------------------------------------------------------------------
(* The steps before the session keep the invariant.                        *)
LEMMA EnteringKeepsClients ==
    ASSUME ClientInv, NEW h \in Callers, SessionInv',
           Call(h) \/ Check(h) \/ LockDriver(h) \/ RecheckHit(h) \/ RecheckMiss(h)
    PROVE  ClientInv'
<1> USE NoCallAssumption, CallersAssumption
    DEF ClientInv, SessionInv, SessionTypeOK, TypeOK, CallsLocked, Locked, Steps, Driver, Profile,
        Cached, ClientCreatedOnce, Move, Return
<1>1. CASE Call(h)
  BY <1>1 DEF Call, sessionVars
<1>2. CASE Check(h)
  BY <1>2 DEF Check, sessionVars
<1>3. CASE LockDriver(h)
  BY <1>3 DEF LockDriver, sessionVars
<1>4. CASE RecheckHit(h)
  BY <1>4 DEF RecheckHit, sessionVars
<1>5. CASE RecheckMiss(h)
  BY <1>5 DEF RecheckMiss, Begin, Goto
<1> QED BY <1>1, <1>2, <1>3, <1>4, <1>5

(* A login adds the client that was missing, and gives the lock back.      *)
LEMMA ClientMadeKeepsClients ==
    ASSUME ClientInv, SessionInv', NEW h \in Callers, ClientMade(h)
    PROVE  ClientInv'
<1> DEFINE d == Driver(h)
           p == Profile(h)
<1>1. /\ step' = [step EXCEPT ![h] = "idle"] /\ want' = [want EXCEPT ![h] = NoCall]
      /\ mu' = [mu EXCEPT ![d] = NoCaller]
  BY DEF ClientMade, Return
<1>2. /\ clients' = [clients EXCEPT ![d] = @ \cup {p}]
      /\ created' = [created EXCEPT ![d][p] = IF @ < 2 THEN @ + 1 ELSE 2]
      /\ step[h] = "session"
  BY DEF ClientMade
<1>3. /\ TypeOK /\ CallsLocked /\ ClientCreatedOnce
      /\ pc[h] = "idle" \/ result[h] # "none"
  BY DEF ClientInv, ClientMade, Collect
<1>4. d \in Drivers /\ p \in Profiles /\ p \notin clients[d]
  BY <1>2, <1>3 DEF CallsLocked, Cached, Driver, Profile
<1>5. /\ clients \in [Drivers -> SUBSET Profiles] /\ mu \in [Drivers -> Callers \cup {NoCaller}]
      /\ step \in [Callers -> Steps] /\ want \in [Callers -> (Drivers \X Profiles) \cup {NoCall}]
      /\ created \in [Drivers -> [Profiles -> 0..2]]
  BY <1>3 DEF TypeOK
<1>6. created[d][p] = 0
  BY <1>3, <1>4 DEF ClientCreatedOnce
<1> DEFINE counts == [created[d] EXCEPT ![p] = 1]
<1>7. created' = [created EXCEPT ![d] = counts] /\ counts \in [Profiles -> 0..2]
  BY <1>2, <1>4, <1>5, <1>6
<1>8. TypeOK'
  <2>1. clients' \in [Drivers -> SUBSET Profiles]
    BY <1>2, <1>4, <1>5
  <2>2. mu' \in [Drivers -> Callers \cup {NoCaller}] /\ step' \in [Callers -> Steps]
    BY <1>1, <1>5 DEF Steps
  <2>3. want' \in [Callers -> (Drivers \X Profiles) \cup {NoCall}]
    BY <1>1, <1>5
  <2>4. created' \in [Drivers -> [Profiles -> 0..2]]
    BY <1>5, <1>7
  <2>5. SessionTypeOK'
    BY DEF SessionInv
  <2> QED BY <2>1, <2>2, <2>3, <2>4, <2>5 DEF TypeOK
<1>9. CallsLocked'
  <2>1. /\ \A g \in Callers \ {h} : /\ step'[g] = step[g] /\ want'[g] = want[g]
                                   /\ pc'[g] = pc[g] /\ result'[g] = result[g]
        /\ step'[h] = "idle" /\ pc'[h] = "idle" /\ result'[h] = "none"
    BY <1>1, <1>3, <1>5 DEF ClientMade, Collect, TypeOK, SessionTypeOK
  <2>2. \A g \in Callers \ {h} : step[g] \in Locked => Driver(g) # d /\ Driver(g) \in Drivers
    <3>1. mu[d] = h
      BY <1>2, <1>3 DEF CallsLocked, Locked
    <3> QED BY <1>3, <3>1 DEF CallsLocked, Locked, Driver
  <2> QED BY <1>1, <1>2, <1>3, <1>5, <2>1, <2>2 DEF CallsLocked, Locked, Driver, Profile, Cached
<1>10. ClientCreatedOnce'
  BY <1>2, <1>3, <1>4, <1>5, <1>6, <1>7 DEF ClientCreatedOnce
<1> QED BY <1>8, <1>9, <1>10 DEF ClientInv

(* So do the session, its outcome, the users and a restart.                *)
LEMMA LeavingKeepsClients ==
    ASSUME ClientInv, SessionInv',
           \/ \E h \in Callers : Session(h) \/ NoClientMade(h) \/ ClientMade(h)
           \/ Users /\ UNCHANGED clientVars
           \/ Crash
    PROVE  ClientInv'
<1> USE NoCallAssumption, CallersAssumption
    DEF ClientInv, SessionInv, SessionTypeOK, TypeOK, CallsLocked, Locked, Steps, Driver, Profile,
        Cached, ClientCreatedOnce, Return
<1>1. ASSUME NEW h \in Callers, Session(h) PROVE ClientInv'
  BY <1>1, SessionStepIsLocal DEF Session, clientVars
<1>2. ASSUME NEW h \in Callers, NoClientMade(h) PROVE ClientInv'
  BY <1>2 DEF NoClientMade, Collect
<1>3. ASSUME NEW h \in Callers, ClientMade(h) PROVE ClientInv'
  BY <1>3, ClientMadeKeepsClients
<1>4. CASE Users /\ UNCHANGED clientVars
  BY <1>4 DEF Users, UserStarts, UserStops, clientVars, callerVars
<1>5. CASE Crash
  BY <1>5 DEF Crash, SessionsCrash
<1> QED BY <1>1, <1>2, <1>3, <1>4, <1>5

LEMMA ClientsInductive == ClientInv /\ [Next]_vars => ClientInv'
<1> SUFFICES ASSUME ClientInv, [Next]_vars PROVE ClientInv'
  OBVIOUS
<1>1. SessionInv'
  BY ClientsStepSessions, SessionInductive DEF ClientInv
<1>2. CASE UNCHANGED vars
  BY <1>1, <1>2 DEF vars, sessionVars, clientVars, ClientInv, SessionInv, TypeOK, CallsLocked,
                    Driver, Profile, Cached, ClientCreatedOnce
<1>3. CASE Next
  BY <1>1, <1>3, EnteringKeepsClients, LeavingKeepsClients DEF Next, CallStep
<1> QED BY <1>2, <1>3

(* Typing, the driver's lock and the count of logins, together.            *)
THEOREM ClientInvariant == Spec => []ClientInv
BY InitClients, ClientsInductive, PTL DEF Spec

(* getClient's second check after Lock: a driver has a client for a profile*)
(* exactly if it logged in to it, once.                                    *)
THEOREM LoggedInOnce == Spec => []ClientCreatedOnce
<1>1. ClientInv => ClientCreatedOnce
  BY DEF ClientInv
<1> QED BY ClientInvariant, <1>1, PTL

(* Clients, the lock mu and the calls of getClient keep their types.       *)
THEOREM ClientsTyped == Spec => []TypeOK
<1>1. ClientInv => TypeOK
  BY DEF ClientInv
<1> QED BY ClientInvariant, <1>1, PTL

(* mu is held for the whole session, so a driver is in one at a time.      *)
THEOREM SessionsApart == Spec => []OneSessionPerDriver
<1>1. ClientInv => OneSessionPerDriver
  BY DEF ClientInv, CallsLocked, OneSessionPerDriver, Locked
<1> QED BY ClientInvariant, <1>1, PTL

-----------------------------------------------------------------------------
(* Who holds mu is in the part of getClient that locks it.                 *)
MuHeld ==
    \A d \in Drivers : mu[d] # NoCaller =>
        step[mu[d]] \in Locked /\ Driver(mu[d]) = d

LEMMA MuHeldInductive == ClientInv /\ MuHeld /\ [Next]_vars => MuHeld'
<1> SUFFICES ASSUME ClientInv, MuHeld, [Next]_vars PROVE MuHeld'
  OBVIOUS
<1> USE NoCallAssumption, CallersAssumption
    DEF ClientInv, TypeOK, CallsLocked, Locked, Steps, Driver, Profile, MuHeld, Move, Return
<1>1. ASSUME NEW h \in Callers, Call(h) \/ Check(h) PROVE MuHeld'
  BY <1>1 DEF Call, Check
<1>2. ASSUME NEW h \in Callers, LockDriver(h) PROVE MuHeld'
  BY <1>2 DEF LockDriver
<1>3. ASSUME NEW h \in Callers, RecheckHit(h) \/ NoClientMade(h) \/ ClientMade(h) PROVE MuHeld'
  BY <1>3 DEF RecheckHit, NoClientMade, ClientMade
<1>4. ASSUME NEW h \in Callers, RecheckMiss(h) PROVE MuHeld'
  BY <1>4 DEF RecheckMiss
<1>5. ASSUME NEW h \in Callers, Session(h) PROVE MuHeld'
  BY <1>5 DEF Session, clientVars
<1>6. CASE (Users /\ UNCHANGED clientVars) \/ UNCHANGED vars
  BY <1>6 DEF clientVars, vars
<1>7. CASE Crash
  BY <1>7 DEF Crash
<1> QED BY <1>1, <1>2, <1>3, <1>4, <1>5, <1>6, <1>7 DEF Next, CallStep

(* What stands in the way of EveryCallReturns cannot happen: nobody waits  *)
(* for a call that has returned, or in a circle, for any number of callers,*)
(* profiles and driver instances.                                          *)
THEOREM NobodyWaitsInVain == Spec => []WaitsEnd
<1>1. Init => MuHeld
  BY DEF Init, MuHeld
<1>2. ClientInv /\ MuHeld => WaitsEnd
  <2> SUFFICES ASSUME ClientInv, MuHeld, NEW h \in Callers, Awaits(h) # NoCaller
               PROVE  /\ step[Awaits(h)] # "idle"
                      /\ Awaits(Awaits(h)) # NoCaller =>
                            /\ step[Awaits(Awaits(h))] = "session"
                            /\ Awaits(Awaits(Awaits(h))) = NoCaller
                            /\ Driver(Awaits(Awaits(h))) # Driver(Awaits(h))
    BY DEF WaitsEnd
  <2>1. ASSUME NEW c \in Callers, step[c] \in Locked, Awaits(c) # NoCaller
        PROVE  /\ Awaits(c) \in Callers /\ step[Awaits(c)] = "session"
               /\ Awaits(Awaits(c)) = NoCaller /\ Driver(Awaits(c)) # Driver(c)
    <3> DEFINE g == profileLock[profile[c]]
    <3>1. pc[c] = "lockProfile" /\ Awaits(c) = g /\ profile[c] \in Profiles
      BY <2>1 DEF Awaits, Locked, ClientInv, SessionInv, LocksHeld
    <3>2. g \in Callers
      BY <2>1, <3>1 DEF ClientInv, SessionInv, SessionTypeOK
    <3>3. pc[g] \in InSession /\ g # c
      BY <3>1, <3>2 DEF ClientInv, SessionInv, LocksHeld, InSession
    <3>4. step[g] = "session" /\ step[c] = "session"
      BY <3>1, <3>2, <3>3 DEF ClientInv, CallsLocked, InSession
    <3>5. Awaits(g) = NoCaller
      BY <3>3, <3>4 DEF Awaits, InSession
    <3>6. Driver(g) # Driver(c)
      BY <3>2, <3>3, <3>4 DEF ClientInv, CallsLocked, Locked
    <3> QED BY <3>1, <3>2, <3>4, <3>5, <3>6
  <2>2. CASE step[h] \in {"check", "lock"}
    <3>1. Awaits(h) = mu[Driver(h)] /\ Driver(h) \in Drivers
      BY <2>2 DEF Awaits, ClientInv, CallsLocked, Driver
    <3>2. Awaits(h) \in Callers /\ step[Awaits(h)] \in Locked
      BY <3>1 DEF MuHeld, ClientInv, TypeOK
    <3> QED BY <2>1, <3>2 DEF Locked
  <2>3. CASE step[h] \notin {"check", "lock"}
    <3>1. pc[h] = "lockProfile"
      BY <2>3 DEF Awaits
    <3>2. step[h] = "session"
      BY <3>1 DEF ClientInv, CallsLocked
    <3> QED BY <2>1, <3>2 DEF Locked
  <2> QED BY <2>2, <2>3
<1> QED BY ClientInvariant, <1>1, <1>2, MuHeldInductive, PTL DEF Spec

(* getClient uses the sessions as BrowserSessions describes them, so its   *)
(* theorems hold of getClient.                                             *)
THEOREM SessionsRefined == Spec => SessionSpec
<1>1. Init => SessionInit
  BY DEF Init
<1>2. ClientInv /\ [Next]_vars => [SessionNext]_sessionVars
  BY ClientsStepSessions
<1> QED BY ClientInvariant, <1>1, <1>2, PTL DEF Spec, SessionSpec
=============================================================================
