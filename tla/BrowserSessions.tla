--------------------------- MODULE BrowserSessions ---------------------------
(***************************************************************************)
(* Reading cookies through a short-lived browser session                   *)
(* (internal/browser/manager.go, GetCookieStringFor) while users start and *)
(* stop the same profiles through the HTTP API.                            *)
(*                                                                         *)
(* A session holds the profile's lock from before it looks at the profile  *)
(* until its deferred cleanup has run; the users' requests take no lock.   *)
(* Each call to CloakBrowser-Manager is one step and may fail; its browsers*)
(* are external.  Connections cached by GetConnection are not modelled: no *)
(* request reaches it, so CloseConnection finds nothing and Shutdown closes*)
(* nothing.                                                                *)
(***************************************************************************)
EXTENDS Naturals

CONSTANTS
    Callers,      \* goroutines that read cookies
    NoCaller,     \* a lock nobody holds
    Profiles,     \* profile ids
    NoProfile,    \* a caller without a session
    UserActs,     \* do users start and stop profiles meanwhile?
    LostAnswers,  \* may a launch succeed while its answer is lost?
    StopFails,    \* may stopping a profile fail?
    MaxCrashes    \* bound on process restarts

ASSUME CallersAssumption == NoCaller \notin Callers \cup {"user"} /\ "user" \notin Callers
ASSUME ProfilesAssumption == NoProfile \notin Profiles
ASSUME SwitchesAssumption ==
    /\ UserActs \in BOOLEAN
    /\ LostAnswers \in BOOLEAN
    /\ StopFails \in BOOLEAN
    /\ MaxCrashes \in Nat

VARIABLES
    browser,      \* profile -> the status CloakBrowser-Manager reports
    launcher,     \* history: profile -> who launched the browser that runs
    profileLock,  \* profile -> holder of its entry in profileLocks
    pc,           \* caller -> the call it makes next
    profile,      \* caller -> the profile it reads cookies from
    started,      \* caller -> startedByCall
    result,       \* caller -> how its last session ended
    crashes       \* process restarts so far

sessionVars == <<browser, launcher, profileLock, pc, profile, started, result, crashes>>

\* Everything but the browsers: what a caller's own step may change.
callerVars == <<profileLock, pc, profile, started, result>>

Results == {"none", "cookie", "empty", "error"}

SessionPcs == {"idle", "lockProfile", "getProfile", "launch", "wait", "connect",
               "cookies", "wake", "cookiesAgain", "close", "stop", "unlock"}

SessionInit ==
    /\ browser \in [Profiles -> {"stopped", "running"}]
    /\ launcher = [p \in Profiles |-> IF browser[p] = "running" THEN "user" ELSE NoCaller]
    /\ profileLock = [p \in Profiles |-> NoCaller]
    /\ pc = [h \in Callers |-> "idle"]
    /\ profile = [h \in Callers |-> NoProfile]
    /\ started = [h \in Callers |-> FALSE]
    /\ result = [h \in Callers |-> "none"]
    /\ crashes = 0

-----------------------------------------------------------------------------
(* CloakBrowser-Manager                                                    *)

\* Launching a profile that runs already has no effect.
Launched(p, who) ==
    /\ browser' = [browser EXCEPT ![p] = "running"]
    /\ launcher' = [launcher EXCEPT ![p] = IF browser[p] = "running" THEN @ ELSE who]

Stopped(p) ==
    /\ browser' = [browser EXCEPT ![p] = "stopped"]
    /\ launcher' = [launcher EXCEPT ![p] = NoCaller]

\* StartProfile and StopProfile of the HTTP API.
UserStarts(p) ==
    /\ UserActs
    /\ Launched(p, "user")
    /\ UNCHANGED <<callerVars, crashes>>

UserStops(p) ==
    /\ UserActs
    /\ Stopped(p)
    /\ UNCHANGED <<callerVars, crashes>>

-----------------------------------------------------------------------------
(* GetCookieStringFor                                                      *)

Goto(h, from, to) ==
    /\ pc[h] = from
    /\ pc' = [pc EXCEPT ![h] = to]

\* The session has an outcome; what is left is the cleanup.
Ends(h, to, outcome) ==
    /\ pc' = [pc EXCEPT ![h] = to]
    /\ result' = [result EXCEPT ![h] = outcome]

Begin(h, p) ==
    /\ result[h] = "none"
    /\ Goto(h, "idle", "lockProfile")
    /\ profile' = [profile EXCEPT ![h] = p]
    /\ UNCHANGED <<browser, launcher, profileLock, started, result, crashes>>

\* GetCookieStringFor has returned: its caller takes the result.
Collect(h) ==
    /\ pc[h] = "idle"
    /\ result[h] # "none"
    /\ result' = [result EXCEPT ![h] = "none"]
    /\ UNCHANGED <<browser, launcher, profileLock, pc, profile, started, crashes>>

\* Slip: the profile's lock is created but not locked.
LockNothing(h) ==
    /\ Goto(h, "lockProfile", "getProfile")
    /\ UNCHANGED <<browser, launcher, profileLock, profile, started, result, crashes>>

LockProfile(h) ==
    /\ Goto(h, "lockProfile", "getProfile")
    /\ profileLock[profile[h]] = NoCaller
    /\ profileLock' = [profileLock EXCEPT ![profile[h]] = h]
    /\ UNCHANGED <<browser, launcher, profile, started, result, crashes>>

\* Slip: the status is not looked at.
AlwaysLaunch(h) ==
    /\ Goto(h, "getProfile", "launch")
    /\ UNCHANGED <<browser, launcher, profileLock, profile, started, result, crashes>>

\* openTransientConnection asks for the profile's status.
GetProfile(h) ==
    /\ Goto(h, "getProfile", IF browser[profile[h]] = "running" THEN "wait" ELSE "launch")
    /\ UNCHANGED <<browser, launcher, profileLock, profile, started, result, crashes>>

GetProfileFailed(h) ==
    /\ pc[h] = "getProfile"
    /\ Ends(h, "unlock", "error")
    /\ UNCHANGED <<browser, launcher, profileLock, profile, started, crashes>>

LaunchProfile(h) ==
    /\ Goto(h, "launch", "wait")
    /\ Launched(profile[h], h)
    /\ started' = [started EXCEPT ![h] = TRUE]
    /\ UNCHANGED <<profileLock, profile, result, crashes>>

\* An error answer; with LostAnswers the browser may run all the same.
LaunchFailed(h) ==
    /\ pc[h] = "launch"
    /\ Ends(h, "unlock", "error")
    /\ \/ UNCHANGED <<browser, launcher>>
       \/ LostAnswers /\ Launched(profile[h], h)
    /\ UNCHANGED <<profileLock, profile, started, crashes>>

\* waitForCDPEndpoint: an endpoint is reported before the timeout.
EndpointReady(h) ==
    /\ Goto(h, "wait", "connect")
    /\ browser[profile[h]] = "running"
    /\ UNCHANGED <<browser, launcher, profileLock, profile, started, result, crashes>>

\* Slip: a failed wait returns without stopping the browser.
OpenFailedLeaks(h) ==
    /\ pc[h] \in {"wait", "connect"}
    /\ Ends(h, "unlock", "error")
    /\ UNCHANGED <<browser, launcher, profileLock, profile, started, crashes>>

\* The wait timed out or the connection was refused: a browser that this
\* call launched is stopped again.
OpenFailed(h) ==
    /\ pc[h] \in {"wait", "connect"}
    /\ Ends(h, IF started[h] THEN "stop" ELSE "unlock", "error")
    /\ UNCHANGED <<browser, launcher, profileLock, profile, started, crashes>>

NewConnection(h) ==
    /\ Goto(h, "connect", "cookies")
    /\ browser[profile[h]] = "running"
    /\ UNCHANGED <<browser, launcher, profileLock, profile, started, result, crashes>>

\* The first read finds cookies, or fails: both end the session.
ReadCookies(h) ==
    /\ pc[h] = "cookies"
    /\ \/ browser[profile[h]] = "running" /\ Ends(h, "close", "cookie")
       \/ Ends(h, "close", "error")
    /\ UNCHANGED <<browser, launcher, profileLock, profile, started, crashes>>

\* The first read is empty: the platform's page is opened before the next.
NoCookies(h) ==
    /\ Goto(h, "cookies", "wake")
    /\ browser[profile[h]] = "running"
    /\ UNCHANGED <<browser, launcher, profileLock, profile, started, result, crashes>>

Navigate(h) ==
    /\ pc[h] = "wake"
    /\ \/ /\ browser[profile[h]] = "running"
          /\ Goto(h, "wake", "cookiesAgain")
          /\ UNCHANGED result
       \/ Ends(h, "close", "error")
    /\ UNCHANGED <<browser, launcher, profileLock, profile, started, crashes>>

ReadCookiesAgain(h) ==
    /\ pc[h] = "cookiesAgain"
    /\ \/ /\ browser[profile[h]] = "running"
          /\ \E outcome \in {"cookie", "empty"} : Ends(h, "close", outcome)
       \/ Ends(h, "close", "error")
    /\ UNCHANGED <<browser, launcher, profileLock, profile, started, crashes>>

\* cleanup, first half: an error of conn.Close does not skip the second.
CloseConnection(h) ==
    /\ Goto(h, "close", IF started[h] THEN "stop" ELSE "unlock")
    /\ UNCHANGED <<browser, launcher, profileLock, profile, started, result, crashes>>

\* stopProfileWithBackgroundContext; its error is only logged.
StopProfile(h) ==
    /\ Goto(h, "stop", "unlock")
    /\ \/ Stopped(profile[h])
       \/ StopFails /\ UNCHANGED <<browser, launcher>>
    /\ UNCHANGED <<profileLock, profile, started, result, crashes>>

\* Slip: the unlock function is called by the success path only.
UnlockOnSuccess(h) ==
    /\ Goto(h, "unlock", "idle")
    /\ profileLock' = [profileLock EXCEPT ![profile[h]] =
                           IF result[h] = "error" THEN @ ELSE NoCaller]
    /\ profile' = [profile EXCEPT ![h] = NoProfile]
    /\ started' = [started EXCEPT ![h] = FALSE]
    /\ UNCHANGED <<browser, launcher, result, crashes>>

\* The deferred unlock runs last, after the cleanup.
UnlockProfile(h) ==
    /\ Goto(h, "unlock", "idle")
    /\ profileLock' = [profileLock EXCEPT ![profile[h]] = NoCaller]
    /\ profile' = [profile EXCEPT ![h] = NoProfile]
    /\ started' = [started EXCEPT ![h] = FALSE]
    /\ UNCHANGED <<browser, launcher, result, crashes>>

SessionStep(h) ==
    \/ LockProfile(h) \/ GetProfile(h) \/ GetProfileFailed(h)
    \/ LaunchProfile(h) \/ LaunchFailed(h)
    \/ EndpointReady(h) \/ OpenFailed(h) \/ NewConnection(h)
    \/ ReadCookies(h) \/ NoCookies(h) \/ Navigate(h) \/ ReadCookiesAgain(h)
    \/ CloseConnection(h) \/ StopProfile(h) \/ UnlockProfile(h)

Users == \E p \in Profiles : UserStarts(p) \/ UserStops(p)

\* The process dies: its sessions are gone, the browsers are not.
SessionsCrash ==
    /\ crashes < MaxCrashes
    /\ crashes' = crashes + 1
    /\ profileLock' = [p \in Profiles |-> NoCaller]
    /\ pc' = [h \in Callers |-> "idle"]
    /\ started' = [h \in Callers |-> FALSE]
    /\ result' = [h \in Callers |-> "none"]
    /\ profile' = [h \in Callers |-> NoProfile]
    /\ UNCHANGED <<browser, launcher>>

SessionNext ==
    \/ \E h \in Callers : SessionStep(h) \/ Collect(h) \/ \E p \in Profiles : Begin(h, p)
    \/ Users
    \/ SessionsCrash

SessionSpec == SessionInit /\ [][SessionNext]_sessionVars

-----------------------------------------------------------------------------
(* Every variable has its type.                                            *)
SessionTypeOK ==
    /\ browser \in [Profiles -> {"stopped", "running"}]
    /\ launcher \in [Profiles -> Callers \cup {"user", NoCaller}]
    /\ profileLock \in [Profiles -> Callers \cup {NoCaller}]
    /\ pc \in [Callers -> SessionPcs]
    /\ profile \in [Callers -> Profiles \cup {NoProfile}]
    /\ started \in [Callers -> BOOLEAN]
    /\ result \in [Callers -> Results]
    /\ crashes \in 0..MaxCrashes

(* No browser that a session launched runs on after the profile's last     *)
(* session is over (GetCookieString "releases browser resources if this    *)
(* call launched the profile").                                            *)
NothingLeftRunning ==
    \A p \in Profiles :
        profileLock[p] = NoCaller => launcher[p] \notin Callers

(* A session stops no browser that somebody else launched: neither a user's*)
(* nor the one another session is reading cookies from.                    *)
StopsOnlyItsOwn ==
    [][\A h \in Callers : StopProfile(h) => launcher[profile[h]] \in {h, NoCaller}]_sessionVars

(* Unless users interfere, the browser runs for as long as a session is    *)
(* connected to it: the per-profile lock keeps the other sessions' cleanup *)
(* away from it.  (Browsers that die by themselves are not modelled.)      *)
ConnectedBrowserRuns ==
    \A h \in Callers :
        pc[h] \in {"connect", "cookies", "wake", "cookiesAgain", "close"}
            => browser[profile[h]] = "running"
=============================================================================
