---------------------------- MODULE HttpService ----------------------------
(***************************************************************************)
(* The HTTP side of a request over the process of AppLifecycle: the        *)
(* middleware in its order (recovery, CORS, rate limit), the checks of the *)
(* handlers, the driver's errors, and the code and status of the answer    *)
(* (internal/middleware, modules/driver/handler.go, pkg/response).         *)
(*                                                                         *)
(* Each action is one step of AppLifecycle with what it means for the      *)
(* request.  An error of a Go call is the sequence of the codes wrapped    *)
(* into each other, outermost first; a plain error is empty.  External: the*)
(* token bucket, which fills up again at any time, and panics, which may   *)
(* happen in any call of the driver.                                       *)
(***************************************************************************)
EXTENDS AppLifecycle, Sequences

CONSTANTS
    Operations,   \* the operations that clients request
    Burst,        \* size of the token bucket
    NoOperation,  \* a handler with nothing to do
    NoReply,      \* nothing answered yet
    NoCode        \* an answer without a body, or no error

ASSUME BurstAssumption == Burst \in Nat

\* internal/pkg/errcode
OK == 0
BadRequest == 40000
Internal == 50000
Validation == 42200
TooManyReq == 42900
ErrDriverNotFound == 40410
ErrProfileNotLoggedIn == 40110
ErrCDPConnection == 50010
ErrOperationFailed == 50012
ErrTaskNotFound == 40412
ErrPlatformState == 50013

Codes == {OK, BadRequest, Internal, Validation, TooManyReq, ErrDriverNotFound,
          ErrProfileNotLoggedIn, ErrCDPConnection, ErrOperationFailed, ErrTaskNotFound,
          ErrPlatformState}

AllOperations == {"capabilities", "add", "getTask", "removeTask", "listTasks", "mkdir", "remove",
                  "move", "rename", "list", "search", "dirname2cid", "url"}

ASSUME OperationsAssumption == Operations \subseteq AllOperations /\ NoOperation \notin AllOperations

\* The operations that change something at the provider.
Changing == {"add", "removeTask", "mkdir", "remove", "move", "rename"}

VARIABLES
    tokens,       \* in the rate limiter's bucket
    admitted,     \* handlers whose request has passed the middleware
    op,           \* handler -> the operation it serves
    effect,       \* handler -> how far its request got
    reply         \* handler -> its last answer

httpVars == <<tokens, admitted, op, effect, reply>>
allVars == <<vars, tokens, admitted, op, effect, reply>>

(* Nothing, asked the registry, called the driver, changed something.      *)
Effects == 0..3

HttpInit ==
    /\ Init
    /\ tokens = Burst
    /\ admitted = {}
    /\ op = [h \in Handlers |-> NoOperation]
    /\ effect = [h \in Handlers |-> 0]
    /\ reply = [h \in Handlers |-> NoReply]

-----------------------------------------------------------------------------
(* Errors and answers                                                      *)

\* Why the handlers turn a request away once they have a driver.
Objections(o) ==
    {code \in {Validation, BadRequest} :
        \/ code = Validation /\ o \in {"add", "mkdir", "remove", "move", "rename"}
        \/ code = BadRequest /\ o \in {"mkdir", "search", "dirname2cid", "url"}}

TaskOperations == {"add", "getTask", "removeTask", "listTasks"}

\* The errors of the driver's methods, of which getClient's are common.
Errors(o) ==
    {<<ErrCDPConnection>>, <<ErrProfileNotLoggedIn>>}
        \cup (IF o \in TaskOperations THEN {<<ErrOperationFailed>>} ELSE {<<>>})
        \cup (IF o = "add" THEN {<<>>, <<ErrPlatformState>>} ELSE {})
        \cup (IF o = "getTask" THEN {<<ErrTaskNotFound>>} ELSE {})

\* Slip: every failing call of the driver is taken for a missing object.
WrapNotFound(o, err) == <<ErrTaskNotFound>> \o err

\* errcode.Wrap by the handlers, whatever is inside.
Wrap(o, err) == <<IF o = "getTask" THEN ErrTaskNotFound ELSE ErrOperationFailed>> \o err

\* Handle: the outermost code (errors.As), or an internal error.
CodeOf(err) == IF err = <<>> THEN Internal ELSE Head(err)

\* The ranges of a hundred codes that have a status of their own.
Ranges == {400, 401, 403, 404, 409, 422, 429}

httpStatusFromCode(code) ==
    IF code \div 100 \in Ranges THEN code \div 100 ELSE 500

\* The request of h is answered; cause is the code the error began with.
Answer(h, status, code, cause, reached) ==
    /\ reply' = [reply EXCEPT ![h] = [op |-> op[h], status |-> status, code |-> code,
                                      cause |-> cause, effect |-> reached]]
    /\ admitted' = admitted \ {h}
    /\ op' = [op EXCEPT ![h] = NoOperation]
    /\ effect' = [effect EXCEPT ![h] = 0]
    /\ UNCHANGED tokens

\* AppErr.
AnswerError(h, err, cause, reached) ==
    Answer(h, httpStatusFromCode(CodeOf(err)), CodeOf(err), cause, reached)

Reach(h, e) ==
    /\ effect' = [effect EXCEPT ![h] = e]
    /\ UNCHANGED <<tokens, admitted, op, reply>>

-----------------------------------------------------------------------------
(* Middleware                                                              *)

Receive(h) ==
    /\ Arrive(h)
    /\ \E o \in Operations : op' = [op EXCEPT ![h] = o]
    /\ reply' = [reply EXCEPT ![h] = NoReply]
    /\ UNCHANGED <<tokens, admitted, effect>>

\* Slip: the middleware answers but does not abort the chain.
CrossOriginGoesOn(h) ==
    /\ h \notin admitted
    /\ pc[h] = "get"
    /\ \E status \in {403, 204} : Answer(h, status, NoCode, NoCode, 0)
    /\ UNCHANGED vars

\* CORS: the origin is not allowed, or the request is a preflight.
CrossOrigin(h) ==
    /\ h \notin admitted
    /\ Refused(h)
    /\ \E status \in {403, 204} : Answer(h, status, NoCode, NoCode, 0)

\* RateLimit answers itself, with a status of its own choice.
Limited(h) ==
    /\ h \notin admitted
    /\ tokens = 0
    /\ Refused(h)
    /\ Answer(h, 429, TooManyReq, TooManyReq, 0)

Admit(h) ==
    /\ pc[h] = "get"
    /\ h \notin admitted
    /\ tokens > 0
    /\ tokens' = tokens - 1
    /\ admitted' = admitted \cup {h}
    /\ UNCHANGED <<vars, op, effect, reply>>

Refill ==
    /\ tokens < Burst
    /\ tokens' = tokens + 1
    /\ UNCHANGED <<vars, admitted, op, effect, reply>>

-----------------------------------------------------------------------------
(* Handlers                                                                *)

\* getDriver: no profile id, which GetCapabilities does without.
NoProfile(h) ==
    /\ h \in admitted
    /\ op[h] # "capabilities"
    /\ Refused(h)
    /\ AnswerError(h, <<BadRequest>>, BadRequest, 0)

\* getDriver: Registry.Get does not know the platform, whatever driver it has
\* for the one that is registered ...
NoDriverFound(h) ==
    /\ h \in admitted
    /\ Refused(h)
    /\ AnswerError(h, <<ErrDriverNotFound>>, NoCode, 1)

\* ... or its factory fails.
FactoryFails(h) ==
    /\ CreateFailed(h)
    /\ AnswerError(h, <<ErrDriverNotFound>>, NoCode, 1)

DriverFound(h) ==
    /\ h \in admitted
    /\ GetHit(h) \/ GetMiss(h) \/ Create(h) \/ WriteBegins(h) \/ WriteEnds(h)
    /\ Reach(h, 1)

\* The body or a parameter does not do.
Objected(h) ==
    /\ effect[h] = 1
    /\ Fails(h, "submit")
    /\ \E code \in Objections(op[h]) : AnswerError(h, <<code>>, code, 1)

\* The driver's method is called; the handler waits for its answer.
Call(h) ==
    /\ pc[h] = "submit"
    /\ effect[h] = 1
    /\ op[h] # "capabilities"
    /\ \E e \in {2} \cup (IF op[h] \in Changing THEN {3} ELSE {}) : Reach(h, e)
    /\ UNCHANGED vars

\* It returns an error, before or after its effect; a stored task stands in
\* for one that cannot be queried.
CallFailed(h) ==
    /\ effect[h] >= 2
    /\ Fails(h, "submit")
    /\ \E err \in Errors(op[h]) :
          \/ AnswerError(h, Wrap(op[h], err), IF err = <<>> THEN NoCode ELSE Head(err), effect[h])
          \/ op[h] = "getTask" /\ Answer(h, 200, OK, NoCode, effect[h])

\* Recovery.
Panics(h) ==
    /\ effect[h] >= 2
    /\ Fails(h, "submit")
    /\ Answer(h, 500, Internal, NoCode, effect[h])

\* It returns a result; a task that was added is stored first.
Added(h) ==
    /\ op[h] = "add"
    /\ effect[h] = 3
    /\ Submit(h)
    /\ UNCHANGED httpVars

Stored(h) == Record(h) /\ Answer(h, 200, OK, NoCode, effect[h])

\* How far a request can have got when its driver call returns no error.
\* Mkdir of a path that resolves, be it from the cache, changes nothing.
DoneAt(o) ==
    CASE o = "capabilities" -> {1}
      [] o = "mkdir" -> {2, 3}
      [] o \in Changing \ {"mkdir"} -> {3}
      [] OTHER -> {2}

Succeeded(h) ==
    /\ op[h] # "add"
    /\ effect[h] \in DoneAt(op[h])
    /\ Fails(h, "submit")
    /\ Answer(h, 200, OK, NoCode, effect[h])

\* An Add whose client key has a record already: nothing is submitted.
Replayed(h) ==
    /\ op[h] = "add"
    /\ effect[h] = 1
    /\ Fails(h, "submit")
    /\ Answer(h, 200, OK, NoCode, 2)

-----------------------------------------------------------------------------
HandlerStep(h) ==
    \/ Receive(h) \/ CrossOrigin(h) \/ Limited(h) \/ Admit(h)
    \/ NoProfile(h) \/ NoDriverFound(h) \/ FactoryFails(h) \/ DriverFound(h)
    \/ Objected(h) \/ Call(h) \/ CallFailed(h) \/ Panics(h)
    \/ Added(h) \/ Stored(h) \/ Succeeded(h) \/ Replayed(h)

MainStep == (BeginStop \/ Stop \/ MapFatal) /\ UNCHANGED httpVars

HttpNext == (\E h \in Handlers : HandlerStep(h)) \/ MainStep \/ Refill

HttpSpec == HttpInit /\ [][HttpNext]_allVars

(* As in AppLifecycle: nothing is assumed of the requests.                 *)
FairHttpSpec == HttpSpec /\ WF_allVars(Stop /\ UNCHANGED httpVars)

-----------------------------------------------------------------------------
Replies == [op : Operations, status : {200, 204, 400, 401, 403, 404, 422, 429, 500},
            code : Codes \cup {NoCode}, cause : Codes \cup {NoCode}, effect : Effects]

(* Every variable has its type, and a handler has an operation exactly     *)
(* while it serves a request.                                              *)
HttpTypeOK ==
    /\ tokens \in 0..Burst
    /\ admitted \subseteq {h \in Handlers : pc[h] # "idle"}
    /\ op \in [Handlers -> Operations \cup {NoOperation}]
    /\ \A h \in Handlers : op[h] = NoOperation <=> pc[h] = "idle"
    /\ effect \in [Handlers -> Effects]
    /\ reply \in [Handlers -> Replies \cup {NoReply}]

(* A client error changed nothing: whoever is answered 4xx can send the    *)
(* request again, and those turned away by the middleware did not even make*)
(* the registry create a driver.                                           *)
ClientErrorsChangeNothing ==
    \A h \in Handlers : reply[h] # NoReply =>
        /\ reply[h].status \in 400..499 => reply[h].effect < 3
        /\ reply[h].status \in {403, 429} => reply[h].effect = 0

(* A profile that is not logged in is reported with the code that the      *)
(* documents give for it (40110).                                          *)
LoginStateTold ==
    \A h \in Handlers :
        reply[h] # NoReply /\ reply[h].cause = ErrProfileNotLoggedIn
            => reply[h].code = ErrProfileNotLoggedIn
=============================================================================
