----------------------- MODULE BrowserSessionsProofs -----------------------
(***************************************************************************)
(* What the profile locks and the cleanup of a session guarantee, for any  *)
(* number of callers and profiles.                                         *)
(***************************************************************************)
EXTENDS BrowserSessions, TLAPS

InSession == SessionPcs \ {"idle", "lockProfile"}

(* The holder of a profile's lock is the caller that is in a session on it.*)
LocksHeld ==
    /\ \A h \in Callers : pc[h] # "idle" => profile[h] \in Profiles
    /\ \A h \in Callers : pc[h] \in InSession => profileLock[profile[h]] = h
    /\ \A p \in Profiles : profileLock[p] \in Callers =>
          /\ pc[profileLock[p]] \in InSession
          /\ profile[profileLock[p]] = p

(* startedByCall is set by the launch, and only then is there a stop.      *)
StartedSince ==
    \A h \in Callers :
        /\ started[h] => pc[h] \in InSession \ {"getProfile", "launch"}
        /\ pc[h] = "stop" => started[h]

SessionInv == SessionTypeOK /\ LocksHeld /\ StartedSince

LEMMA InitSession == SessionInit => SessionInv
<1> SUFFICES ASSUME SessionInit PROVE SessionInv
  OBVIOUS
<1> USE DEF SessionInit
<1>1. SessionTypeOK
  <2>1. browser \in [Profiles -> {"stopped", "running"}]
    OBVIOUS
  <2>2. launcher \in [Profiles -> Callers \cup {"user", NoCaller}]
    OBVIOUS
  <2>3. profileLock \in [Profiles -> Callers \cup {NoCaller}]
    OBVIOUS
  <2>4. /\ pc \in [Callers -> SessionPcs]
        /\ profile \in [Callers -> Profiles \cup {NoProfile}]
        /\ started \in [Callers -> BOOLEAN]
        /\ result \in [Callers -> Results]
    BY DEF SessionPcs, Results
  <2>5. crashes \in 0..MaxCrashes
    BY SwitchesAssumption
  <2> QED BY <2>1, <2>2, <2>3, <2>4, <2>5 DEF SessionTypeOK
<1>2. LocksHeld /\ StartedSince
  BY CallersAssumption DEF LocksHeld, StartedSince, InSession
<1> QED BY <1>1, <1>2 DEF SessionInv

(* A caller's steps up to the connection keep types, locks and startedByCall. *)
LEMMA OpeningKeepsSession ==
    ASSUME SessionInv, NEW h \in Callers,
           \/ LockProfile(h) \/ GetProfile(h) \/ GetProfileFailed(h)
           \/ LaunchProfile(h) \/ LaunchFailed(h)
           \/ EndpointReady(h) \/ OpenFailed(h) \/ NewConnection(h)
    PROVE  SessionInv'
<1> USE CallersAssumption
    DEF SessionInv, SessionTypeOK, LocksHeld, StartedSince, InSession, SessionPcs, Results,
        Goto, Ends
<1>1. CASE LockProfile(h)
  BY <1>1 DEF LockProfile
<1>2. CASE GetProfile(h)
  BY <1>2 DEF GetProfile
<1>3. CASE GetProfileFailed(h)
  BY <1>3 DEF GetProfileFailed
<1>4. CASE LaunchProfile(h)
  BY <1>4 DEF LaunchProfile, Launched
<1>5. CASE LaunchFailed(h)
  BY <1>5 DEF LaunchFailed, Launched
<1>6. CASE EndpointReady(h)
  BY <1>6 DEF EndpointReady
<1>7. CASE OpenFailed(h)
  BY <1>7 DEF OpenFailed
<1>8. CASE NewConnection(h)
  BY <1>8 DEF NewConnection
<1> QED BY <1>1, <1>2, <1>3, <1>4, <1>5, <1>6, <1>7, <1>8

(* So do the reads and the cleanup.                                        *)
LEMMA ClosingKeepsSession ==
    ASSUME SessionInv, NEW h \in Callers,
           \/ ReadCookies(h) \/ NoCookies(h) \/ Navigate(h) \/ ReadCookiesAgain(h)
           \/ CloseConnection(h) \/ StopProfile(h) \/ UnlockProfile(h)
    PROVE  SessionInv'
<1> USE CallersAssumption
    DEF SessionInv, SessionTypeOK, LocksHeld, StartedSince, InSession, SessionPcs, Results,
        Goto, Ends
<1>1. CASE ReadCookies(h)
  BY <1>1 DEF ReadCookies
<1>2. CASE NoCookies(h)
  BY <1>2 DEF NoCookies
<1>3. CASE Navigate(h)
  BY <1>3 DEF Navigate
<1>4. CASE ReadCookiesAgain(h)
  BY <1>4 DEF ReadCookiesAgain
<1>5. CASE CloseConnection(h)
  BY <1>5 DEF CloseConnection
<1>6. CASE StopProfile(h)
  BY <1>6 DEF StopProfile, Stopped
<1>7. CASE UnlockProfile(h)
  BY <1>7 DEF UnlockProfile
<1> QED BY <1>1, <1>2, <1>3, <1>4, <1>5, <1>6, <1>7

(* So do the arrival and the end of a call, the users and a restart.       *)
LEMMA RestKeepsSession ==
    ASSUME SessionInv,
           \/ \E h \in Callers : Collect(h) \/ \E p \in Profiles : Begin(h, p)
           \/ Users
           \/ SessionsCrash
    PROVE  SessionInv'
<1> USE CallersAssumption
    DEF SessionInv, SessionTypeOK, LocksHeld, StartedSince, InSession, SessionPcs, Results
<1>1. ASSUME NEW h \in Callers, Collect(h) PROVE SessionInv'
  BY <1>1 DEF Collect
<1>2. ASSUME NEW h \in Callers, NEW p \in Profiles, Begin(h, p) PROVE SessionInv'
  BY <1>2 DEF Begin, Goto
<1>3. CASE Users
  BY <1>3 DEF Users, UserStarts, UserStops, Launched, Stopped, callerVars
<1>4. CASE SessionsCrash
  BY <1>4, SwitchesAssumption DEF SessionsCrash
<1> QED BY <1>1, <1>2, <1>3, <1>4

LEMMA SessionInductive == SessionInv /\ [SessionNext]_sessionVars => SessionInv'
<1> SUFFICES ASSUME SessionInv, [SessionNext]_sessionVars PROVE SessionInv'
  OBVIOUS
<1>1. CASE SessionNext
  BY <1>1, OpeningKeepsSession, ClosingKeepsSession, RestKeepsSession
     DEF SessionNext, SessionStep
<1>2. CASE UNCHANGED sessionVars
  BY <1>2 DEF sessionVars, SessionInv, SessionTypeOK, LocksHeld, StartedSince
<1> QED BY <1>1, <1>2

(* Types, locks and startedByCall, together.                               *)
THEOREM SessionInvariant == SessionSpec => []SessionInv
BY InitSession, SessionInductive, PTL DEF SessionSpec

-----------------------------------------------------------------------------
(* A browser that a session launched and that runs is still that session's *)
(* to stop.                                                                *)
OwesStop ==
    \A p \in Profiles : launcher[p] \in Callers =>
        LET h == launcher[p]
        IN  /\ profile[h] = p
            /\ started[h]
            /\ pc[h] # "unlock"

(* Every launch is followed by a stop while answers arrive, stops succeed  *)
(* and the process lives - whatever users do to the browser meanwhile.     *)
LEMMA OwesStopInductive ==
    ASSUME ~LostAnswers, ~StopFails, MaxCrashes = 0,
           SessionInv, OwesStop, [SessionNext]_sessionVars
    PROVE  OwesStop'
<1> USE CallersAssumption
    DEF SessionInv, SessionTypeOK, LocksHeld, StartedSince, InSession, SessionPcs, OwesStop,
        Goto, Ends
<1>1. ASSUME NEW h \in Callers, SessionStep(h) PROVE OwesStop'
  <2>1. CASE LockProfile(h)
    BY <2>1 DEF LockProfile
  <2>2. CASE GetProfile(h)
    BY <2>2 DEF GetProfile
  <2>3. CASE GetProfileFailed(h)
    BY <2>3 DEF GetProfileFailed
  <2>4. CASE LaunchProfile(h)
    BY <2>4 DEF LaunchProfile, Launched
  <2>5. CASE LaunchFailed(h)
    BY <2>5 DEF LaunchFailed
  <2>6. CASE EndpointReady(h) \/ NewConnection(h)
    BY <2>6 DEF EndpointReady, NewConnection
  <2>7. CASE OpenFailed(h)
    BY <2>7 DEF OpenFailed
  <2>8. CASE ReadCookies(h) \/ NoCookies(h)
    BY <2>8 DEF ReadCookies, NoCookies
  <2>9. CASE Navigate(h) \/ ReadCookiesAgain(h)
    BY <2>9 DEF Navigate, ReadCookiesAgain
  <2>10. CASE CloseConnection(h)
    BY <2>10 DEF CloseConnection
  <2>11. CASE StopProfile(h)
    BY <2>11 DEF StopProfile, Stopped
  <2>12. CASE UnlockProfile(h)
    BY <2>12 DEF UnlockProfile
  <2> QED BY <1>1, <2>1, <2>2, <2>3, <2>4, <2>5, <2>6, <2>7, <2>8, <2>9, <2>10, <2>11, <2>12
             DEF SessionStep
<1>2. ASSUME NEW h \in Callers, Collect(h) PROVE OwesStop'
  BY <1>2 DEF Collect
<1>3. ASSUME NEW h \in Callers, NEW p \in Profiles, Begin(h, p) PROVE OwesStop'
  BY <1>3 DEF Begin
<1>4. CASE Users
  BY <1>4 DEF Users, UserStarts, UserStops, Launched, Stopped, callerVars
<1>5. CASE SessionsCrash
  BY <1>5 DEF SessionsCrash
<1>6. CASE UNCHANGED sessionVars
  BY <1>6 DEF sessionVars
<1> QED BY <1>1, <1>2, <1>3, <1>4, <1>5, <1>6 DEF SessionNext

(* A browser that GetCookieStringFor launched is stopped by the time the   *)
(* session gives the profile's lock back.                                  *)
THEOREM LaunchedIsStopped ==
    ASSUME ~LostAnswers, ~StopFails, MaxCrashes = 0
    PROVE  SessionSpec => []NothingLeftRunning
<1>1. SessionInit => OwesStop
  BY CallersAssumption DEF SessionInit, OwesStop
<1>2. SessionInv /\ OwesStop /\ [SessionNext]_sessionVars => OwesStop'
  BY OwesStopInductive
<1>3. SessionInv /\ OwesStop => NothingLeftRunning
  BY CallersAssumption
     DEF SessionInv, SessionTypeOK, LocksHeld, StartedSince, InSession, OwesStop, NothingLeftRunning
<1> QED BY SessionInvariant, <1>1, <1>2, <1>3, PTL DEF SessionSpec

-----------------------------------------------------------------------------
Connected == {"wait", "connect", "cookies", "wake", "cookiesAgain", "close"}

(* While users stay away a stopped browser has no launcher, a session      *)
(* launches stopped browsers only, and its browser runs until it stops it. *)
BrowserKept ==
    /\ \A p \in Profiles : browser[p] = "stopped" => launcher[p] = NoCaller
    /\ \A h \in Callers :
          /\ pc[h] = "launch" => browser[profile[h]] = "stopped"
          /\ pc[h] \in Connected => browser[profile[h]] = "running"
          /\ started[h] => launcher[profile[h]] \in {h, NoCaller}

(* The lock keeps other sessions away from the browser; lost answers,      *)
(* failing stops and restarts do no harm.                                  *)
LEMMA BrowserKeptInductive ==
    ASSUME ~UserActs, SessionInv, BrowserKept, [SessionNext]_sessionVars
    PROVE  BrowserKept'
<1> USE CallersAssumption
    DEF SessionInv, SessionTypeOK, LocksHeld, StartedSince, InSession, SessionPcs, BrowserKept,
        Connected, Goto, Ends
<1>1. ASSUME NEW h \in Callers, SessionStep(h) PROVE BrowserKept'
  <2>1. CASE LockProfile(h)
    BY <2>1 DEF LockProfile
  <2>2. CASE GetProfile(h)
    BY <2>2 DEF GetProfile
  <2>3. CASE GetProfileFailed(h)
    BY <2>3 DEF GetProfileFailed
  <2>4. CASE LaunchProfile(h)
    BY <2>4 DEF LaunchProfile, Launched
  <2>5. CASE LaunchFailed(h)
    BY <2>5 DEF LaunchFailed, Launched
  <2>6. CASE EndpointReady(h) \/ NewConnection(h)
    BY <2>6 DEF EndpointReady, NewConnection
  <2>7. CASE OpenFailed(h)
    BY <2>7 DEF OpenFailed
  <2>8. CASE ReadCookies(h) \/ NoCookies(h)
    BY <2>8 DEF ReadCookies, NoCookies
  <2>9. CASE Navigate(h) \/ ReadCookiesAgain(h)
    BY <2>9 DEF Navigate, ReadCookiesAgain
  <2>10. CASE CloseConnection(h)
    BY <2>10 DEF CloseConnection
  <2>11. CASE StopProfile(h)
    BY <2>11 DEF StopProfile, Stopped
  <2>12. CASE UnlockProfile(h)
    BY <2>12 DEF UnlockProfile
  <2> QED BY <1>1, <2>1, <2>2, <2>3, <2>4, <2>5, <2>6, <2>7, <2>8, <2>9, <2>10, <2>11, <2>12
             DEF SessionStep
<1>2. ASSUME NEW h \in Callers, Collect(h) PROVE BrowserKept'
  BY <1>2 DEF Collect
<1>3. ASSUME NEW h \in Callers, NEW p \in Profiles, Begin(h, p) PROVE BrowserKept'
  BY <1>3 DEF Begin
<1>4. CASE Users
  BY <1>4 DEF Users, UserStarts, UserStops
<1>5. CASE SessionsCrash
  BY <1>5 DEF SessionsCrash
<1>6. CASE UNCHANGED sessionVars
  BY <1>6 DEF sessionVars
<1> QED BY <1>1, <1>2, <1>3, <1>4, <1>5, <1>6 DEF SessionNext

LEMMA InitKept == SessionInit => BrowserKept
BY DEF SessionInit, BrowserKept, Connected

(* The cleanup of a session stops no browser that a user or another session*)
(* launched, as long as users do not act on the profiles meanwhile.        *)
THEOREM OnlyOwnIsStopped ==
    ASSUME ~UserActs
    PROVE  SessionSpec => StopsOnlyItsOwn
<1>1. SessionInv /\ BrowserKept /\ [SessionNext]_sessionVars => BrowserKept'
  BY BrowserKeptInductive
<1>2. SessionInv /\ BrowserKept
        => \A h \in Callers : StopProfile(h) => launcher[profile[h]] \in {h, NoCaller}
  BY DEF SessionInv, StartedSince, BrowserKept, StopProfile, Goto
<1> QED BY SessionInvariant, InitKept, <1>1, <1>2, PTL DEF SessionSpec, StopsOnlyItsOwn

(* The browser runs for as long as a session is connected to it.           *)
THEOREM BrowserStaysUp ==
    ASSUME ~UserActs
    PROVE  SessionSpec => []ConnectedBrowserRuns
<1>1. SessionInv /\ BrowserKept /\ [SessionNext]_sessionVars => BrowserKept'
  BY BrowserKeptInductive
<1>2. BrowserKept => ConnectedBrowserRuns
  BY DEF BrowserKept, ConnectedBrowserRuns, Connected
<1> QED BY SessionInvariant, InitKept, <1>1, <1>2, PTL DEF SessionSpec
=============================================================================
