------------------------- MODULE HttpServiceProofs -------------------------
(***************************************************************************)
(* The HTTP side is the process of AppLifecycle, and no client error hides *)
(* an effect, for any number of requests and any operations.               *)
(***************************************************************************)
EXTENDS HttpService, TLAPS

\* What is promised of one answer.
Harmless(r) ==
    /\ r.status \in 400..499 => r.effect < 3
    /\ r.status \in {403, 429} => r.effect = 0

(* Of one handler: how far its request got agrees with what it asks for and*)
(* with where it is, and its last answer keeps the promise.                *)
Local(p, o, e, r) ==
    /\ e = 3 => o \in Changing
    /\ p = "idle" => e = 0
    /\ p = "record" => o = "add" /\ e = 3
    /\ r # NoReply => Harmless(r)

HttpTypes ==
    /\ pc \in [Handlers -> Pcs]
    /\ op \in [Handlers -> Operations \cup {NoOperation}]
    /\ effect \in [Handlers -> Effects]
    /\ DOMAIN reply = Handlers

HttpInv == HttpTypes /\ \A h \in Handlers : Local(pc[h], op[h], effect[h], reply[h])

(* The statuses of the codes that answers carry.                           *)
LEMMA Statuses ==
    /\ httpStatusFromCode(BadRequest) = 400
    /\ httpStatusFromCode(Validation) = 422
    /\ httpStatusFromCode(ErrDriverNotFound) = 404
    /\ httpStatusFromCode(ErrTaskNotFound) = 404
    /\ httpStatusFromCode(ErrOperationFailed) = 500
  BY DEF httpStatusFromCode, Ranges, BadRequest, Validation, TooManyReq, ErrDriverNotFound,
         ErrTaskNotFound, ErrOperationFailed

(* The handlers always wrap what the driver says.                          *)
LEMMA OutermostCode ==
    ASSUME NEW o, NEW err \in Seq(Nat)
    PROVE  CodeOf(Wrap(o, err)) = IF o = "getTask" THEN ErrTaskNotFound ELSE ErrOperationFailed
<1> DEFINE c == IF o = "getTask" THEN ErrTaskNotFound ELSE ErrOperationFailed
<1>1. c \in Nat
  BY DEF ErrTaskNotFound, ErrOperationFailed
<1>2. Wrap(o, err) = <<c>> \o err
  BY DEF Wrap
<1>3. <<c>> \o err # <<>> /\ Head(<<c>> \o err) = c
  BY <1>1
<1> QED BY <1>2, <1>3 DEF CodeOf

(* The driver's errors are sequences of codes.                             *)
LEMMA ErrorsTyped ==
    ASSUME NEW o, NEW err \in Errors(o)
    PROVE  err \in Seq(Nat)
<1>1. \/ err = <<>> \/ err = <<ErrCDPConnection>> \/ err = <<ErrProfileNotLoggedIn>>
      \/ err = <<ErrOperationFailed>> \/ err = <<ErrPlatformState>> \/ err = <<ErrTaskNotFound>>
  BY Zenon DEF Errors
<1>2. \A n \in Nat : <<n>> \in Seq(Nat)
  OBVIOUS
<1>3. {ErrCDPConnection, ErrProfileNotLoggedIn, ErrOperationFailed, ErrPlatformState,
       ErrTaskNotFound} \subseteq Nat
  BY DEF ErrCDPConnection, ErrProfileNotLoggedIn, ErrOperationFailed, ErrPlatformState,
         ErrTaskNotFound
<1>4. <<>> \in Seq(Nat)
  OBVIOUS
<1> QED BY <1>1, <1>2, <1>3, <1>4

(* An error of the handlers' own has one code.                             *)
LEMMA SingleCodes == \A n \in Nat : CodeOf(<<n>>) = n
<1>1. \A n \in Nat : <<n>> # <<>> /\ Head(<<n>>) = n
  OBVIOUS
<1> QED BY <1>1 DEF CodeOf

LEMMA ErrorStatuses ==
    /\ httpStatusFromCode(CodeOf(<<BadRequest>>)) = 400
    /\ httpStatusFromCode(CodeOf(<<Validation>>)) = 422
    /\ httpStatusFromCode(CodeOf(<<ErrDriverNotFound>>)) = 404
<1>1. {BadRequest, Validation, ErrDriverNotFound} \subseteq Nat
  BY DEF BadRequest, Validation, ErrDriverNotFound
<1> QED BY <1>1, Statuses, SingleCodes

LEMMA InitHttpInv == HttpInit => HttpInv
  BY DEF HttpInit, Init, HttpInv, HttpTypes, Local, Effects, Pcs

LEMMA NextHttpInv == HttpInv /\ [HttpNext]_allVars => HttpInv'
<1> SUFFICES ASSUME HttpInv, [HttpNext]_allVars PROVE HttpInv'
  OBVIOUS
<1>u. CASE UNCHANGED <<pc, op, effect, reply>>
  BY <1>u DEF HttpInv, HttpTypes, Local, Harmless
<1>m. CASE MainStep
  <2>1. UNCHANGED <<pc, op, effect, reply>>
    BY <1>m DEF MainStep, httpVars, BeginStop, Stop, MapFatal, Drained, DrainTimesOut, CloseDriver,
                CloseBrowser, CloseStore, Exit
  <2> QED BY <2>1, <1>u
<1>r. CASE Refill
  BY <1>r, <1>u DEF Refill, vars
<1>h. CASE \E h \in Handlers : HandlerStep(h)
  <2> PICK h \in Handlers : HandlerStep(h)
    BY <1>h
  <2> DEFINE Others == \A g \in Handlers \ {h} : /\ pc'[g] = pc[g] /\ op'[g] = op[g]
                                                 /\ effect'[g] = effect[g] /\ reply'[g] = reply[g]
             Here == Local(pc'[h], op'[h], effect'[h], reply'[h])
  <2>0. /\ HttpTypes
        /\ effect[h] \in Effects /\ op[h] \in Operations \cup {NoOperation}
        /\ Local(pc[h], op[h], effect[h], reply[h])
    BY DEF HttpInv, HttpTypes
  <2> SUFFICES HttpTypes' /\ Others /\ Here
    BY DEF HttpInv
  <2>1. CASE Receive(h)
    <3>1. PICK o \in Operations : op' = [op EXCEPT ![h] = o]
      BY <2>1 DEF Receive
    <3>2. /\ pc[h] = "idle" /\ pc' = [pc EXCEPT ![h] = "get"]
          /\ reply' = [reply EXCEPT ![h] = NoReply] /\ UNCHANGED effect
      BY <2>1 DEF Receive, Arrive, Goto
    <3>3. HttpTypes' /\ Others
      BY <2>0, <3>1, <3>2 DEF HttpTypes, Pcs
    <3>4. pc'[h] = "get" /\ reply'[h] = NoReply /\ effect'[h] = 0
      BY <2>0, <3>2 DEF HttpTypes, Local
    <3> QED BY <3>3, <3>4 DEF Local
  <2>2. CASE CrossOrigin(h)
    <3>2. HttpTypes' /\ Others
      BY <2>0, <2>2 DEF CrossOrigin, Refused, Fails, HttpTypes, Pcs, Effects, Goto, Answer
    <3>3. /\ pc'[h] = "idle" /\ op'[h] = NoOperation /\ effect'[h] = 0
          /\ reply'[h].op = op[h] /\ reply'[h].status \in {204, 403} /\ reply'[h].effect = 0
      BY <2>0, <2>2 DEF CrossOrigin, Refused, Fails, HttpTypes, Goto, Answer
    <3> QED BY <2>0, <3>2, <3>3 DEF Local, Harmless, Effects
  <2>3. CASE Limited(h)
    <3>1. Fails(h, "get") /\ Answer(h, 429, TooManyReq, TooManyReq, 0)
      BY <2>3 DEF Limited, Refused
    <3>2. HttpTypes' /\ Others
      BY <2>0, <3>1 DEF Fails, HttpTypes, Pcs, Effects, Goto, Answer
    <3>3. /\ pc'[h] = "idle" /\ op'[h] = NoOperation /\ effect'[h] = 0
          /\ reply'[h].status = 429 /\ reply'[h].effect = 0
      BY <2>0, <3>1 DEF Fails, HttpTypes, Goto, Answer
    <3> QED BY <3>2, <3>3 DEF Local, Harmless, Effects
  <2>4. CASE Admit(h)
    BY <2>0, <2>4 DEF Admit, vars, HttpTypes, Local, Harmless
  <2>5. CASE NoProfile(h)
    <3>1. /\ Fails(h, "get")
          /\ Answer(h, 400, CodeOf(<<BadRequest>>), BadRequest, 0)
      BY <2>5, ErrorStatuses DEF NoProfile, Refused, AnswerError
    <3>2. HttpTypes' /\ Others
      BY <2>0, <3>1 DEF Fails, HttpTypes, Pcs, Effects, Goto, Answer
    <3>3. /\ pc'[h] = "idle" /\ op'[h] = NoOperation /\ effect'[h] = 0
          /\ reply'[h].status = 400 /\ reply'[h].effect = 0
      BY <2>0, <3>1 DEF Fails, HttpTypes, Goto, Answer
    <3> QED BY <3>2, <3>3 DEF Local, Harmless, Effects
  <2>6. CASE NoDriverFound(h)
    <3>1. /\ Fails(h, "get")
          /\ Answer(h, 404, CodeOf(<<ErrDriverNotFound>>), NoCode, 1)
      BY <2>6, ErrorStatuses DEF NoDriverFound, Refused, AnswerError
    <3>2. HttpTypes' /\ Others
      BY <2>0, <3>1 DEF Fails, HttpTypes, Pcs, Effects, Goto, Answer
    <3>3. /\ pc'[h] = "idle" /\ op'[h] = NoOperation /\ effect'[h] = 0
          /\ reply'[h].status = 404 /\ reply'[h].effect = 1
      BY <2>0, <3>1 DEF Fails, HttpTypes, Goto, Answer
    <3> QED BY <3>2, <3>3 DEF Local, Harmless, Effects
  <2>7. CASE FactoryFails(h)
    <3>1. /\ Fails(h, "create")
          /\ Answer(h, 404, CodeOf(<<ErrDriverNotFound>>), NoCode, 1)
      BY <2>7, ErrorStatuses DEF FactoryFails, CreateFailed, AnswerError
    <3>2. HttpTypes' /\ Others
      BY <2>0, <3>1 DEF Fails, HttpTypes, Pcs, Effects, Goto, Answer
    <3>3. /\ pc'[h] = "idle" /\ op'[h] = NoOperation /\ effect'[h] = 0
          /\ reply'[h].status = 404 /\ reply'[h].effect = 1
      BY <2>0, <3>1 DEF Fails, HttpTypes, Goto, Answer
    <3> QED BY <3>2, <3>3 DEF Local, Harmless, Effects
  <2>8. CASE DriverFound(h)
    <3>1. PICK to \in {"submit", "create", "write", "writing"} : pc' = [pc EXCEPT ![h] = to]
      BY <2>8 DEF DriverFound, GetHit, GetMiss, Create, WriteBegins, WriteEnds, Goto
    <3>2. effect' = [effect EXCEPT ![h] = 1] /\ UNCHANGED <<op, reply>>
      BY <2>8 DEF DriverFound, Reach
    <3>3. HttpTypes' /\ Others
      BY <2>0, <3>1, <3>2 DEF HttpTypes, Pcs, Effects
    <3>4. pc'[h] = to /\ effect'[h] = 1 /\ op'[h] = op[h] /\ reply'[h] = reply[h]
      BY <2>0, <3>1, <3>2 DEF HttpTypes
    <3> QED BY <2>0, <3>3, <3>4 DEF Local
  <2>9. CASE Objected(h)
    <3>1. PICK code \in {Validation, BadRequest} : AnswerError(h, <<code>>, code, 1)
      BY <2>9 DEF Objected, Objections
    <3>2. PICK status \in {400, 422} : Answer(h, status, CodeOf(<<code>>), code, 1)
      <4>1. CASE code = Validation
        BY <3>1, <4>1, ErrorStatuses DEF AnswerError
      <4>2. CASE code = BadRequest
        BY <3>1, <4>2, ErrorStatuses DEF AnswerError
      <4> QED BY <4>1, <4>2
    <3>3. HttpTypes' /\ Others
      BY <2>0, <2>9, <3>2 DEF Objected, Fails, HttpTypes, Pcs, Effects, Goto, Answer
    <3>4. /\ pc'[h] = "idle" /\ op'[h] = NoOperation /\ effect'[h] = 0
          /\ reply'[h].status = status /\ reply'[h].effect = 1
      BY <2>0, <2>9, <3>2 DEF Objected, Fails, HttpTypes, Goto, Answer
    <3> QED BY <3>3, <3>4 DEF Local, Harmless, Effects
  <2>10. CASE Call(h)
    <3>1. PICK e \in {2} \cup (IF op[h] \in Changing THEN {3} ELSE {}) : effect' = [effect EXCEPT ![h] = e]
      BY <2>10 DEF Call, Reach
    <3>2. pc[h] = "submit" /\ UNCHANGED <<pc, op, reply>>
      BY <2>10 DEF Call, Reach, vars
    <3>3. HttpTypes' /\ Others
      BY <2>0, <3>1, <3>2 DEF HttpTypes, Effects
    <3>4. effect'[h] = e /\ (e = 3 => op[h] \in Changing)
      BY <2>0, <3>1 DEF HttpTypes
    <3> QED BY <2>0, <3>2, <3>3, <3>4 DEF Local
  <2>11. CASE CallFailed(h)
    <3>1. Fails(h, "submit")
      BY <2>11 DEF CallFailed
    <3>2. CASE op[h] = "getTask" /\ Answer(h, 200, OK, NoCode, effect[h])
      <4>1. HttpTypes' /\ Others
        BY <2>0, <3>1, <3>2 DEF Fails, Goto, Answer, HttpTypes, Pcs, Effects
      <4>2. /\ pc'[h] = "idle" /\ effect'[h] = 0
            /\ reply'[h].op \notin Changing /\ reply'[h].status = 200
        BY <2>0, <3>1, <3>2 DEF Fails, Goto, Answer, HttpTypes, Changing
      <4> QED BY <4>1, <4>2 DEF Local, Harmless
    <3>3. ASSUME NEW err \in Errors(op[h]),
                 AnswerError(h, Wrap(op[h], err), IF err = <<>> THEN NoCode ELSE Head(err), effect[h])
          PROVE  HttpTypes' /\ Others /\ Here
      <4> DEFINE status == httpStatusFromCode(CodeOf(Wrap(op[h], err)))
      <4>1. status = 500 \/ (status = 404 /\ op[h] = "getTask")
        <5>1. err \in Seq(Nat)
          BY ErrorsTyped
        <5>2. CodeOf(Wrap(op[h], err)) = IF op[h] = "getTask" THEN ErrTaskNotFound ELSE ErrOperationFailed
          BY <5>1, OutermostCode
        <5> QED BY <5>2, Statuses
      <4>2. HttpTypes' /\ Others
        BY <2>0, <3>1, <3>3 DEF AnswerError, Fails, Goto, Answer, HttpTypes, Pcs, Effects
      <4>3. /\ pc'[h] = "idle" /\ effect'[h] = 0
            /\ reply'[h].op = op[h] /\ reply'[h].status = status /\ reply'[h].effect = effect[h]
        BY <2>0, <3>1, <3>3 DEF AnswerError, Fails, Goto, Answer, HttpTypes
      <4> HIDE DEF status
      <4>4. reply'[h].status = 404 => effect[h] < 3
        BY <2>0, <4>1, <4>3 DEF Local, Changing, Effects
      <4> QED BY <4>1, <4>2, <4>3, <4>4 DEF Local, Harmless
    <3> QED BY <2>11, <3>2, <3>3 DEF CallFailed
  <2>12. CASE Panics(h)
    <3>2. HttpTypes' /\ Others
      BY <2>0, <2>12 DEF Panics, Fails, HttpTypes, Pcs, Effects, Goto, Answer
    <3>3. /\ pc'[h] = "idle" /\ op'[h] = NoOperation /\ effect'[h] = 0
          /\ reply'[h].op = op[h] /\ reply'[h].status = 500 /\ reply'[h].effect = effect[h]
      BY <2>0, <2>12 DEF Panics, Fails, HttpTypes, Goto, Answer
    <3> QED BY <2>0, <3>2, <3>3 DEF Local, Harmless, Effects
  <2>13. CASE Added(h)
    <3>1. /\ pc' = [pc EXCEPT ![h] = "record"] /\ op[h] = "add" /\ effect[h] = 3
          /\ UNCHANGED <<op, reply, effect>>
      BY <2>13 DEF Added, Submit, Goto, httpVars
    <3>2. HttpTypes' /\ Others
      BY <2>0, <3>1 DEF HttpTypes, Pcs
    <3>3. pc'[h] = "record"
      BY <2>0, <3>1 DEF HttpTypes
    <3> QED BY <2>0, <3>1, <3>2, <3>3 DEF Local, Changing
  <2>14. CASE Stored(h)
    <3>1. pc[h] = "record"
      BY <2>14 DEF Stored, Record, Goto
    <3>2. HttpTypes' /\ Others
      BY <2>0, <2>14 DEF Stored, Record, HttpTypes, Pcs, Effects, Goto, Answer
    <3>3. /\ pc'[h] = "idle" /\ op'[h] = NoOperation /\ effect'[h] = 0
          /\ reply'[h].status = 200 /\ reply'[h].effect = effect[h]
      BY <2>0, <2>14 DEF Stored, Record, HttpTypes, Goto, Answer
    <3> QED BY <2>0, <3>1, <3>2, <3>3 DEF Local, Harmless
  <2>15. CASE Succeeded(h)
    <3>2. HttpTypes' /\ Others
      BY <2>0, <2>15 DEF Succeeded, Fails, HttpTypes, Pcs, Effects, Goto, Answer
    <3>3. /\ pc'[h] = "idle" /\ op'[h] = NoOperation /\ effect'[h] = 0
          /\ reply'[h].op = op[h] /\ reply'[h].status = 200 /\ reply'[h].effect = effect[h]
      BY <2>0, <2>15 DEF Succeeded, Fails, HttpTypes, Goto, Answer
    <3> QED BY <3>2, <3>3 DEF Local, Harmless
  <2>16. CASE Replayed(h)
    <3>2. HttpTypes' /\ Others
      BY <2>0, <2>16 DEF Replayed, Fails, HttpTypes, Pcs, Effects, Goto, Answer
    <3>3. /\ pc'[h] = "idle" /\ op'[h] = NoOperation /\ effect'[h] = 0
          /\ reply'[h].op = "add" /\ reply'[h].status = 200 /\ reply'[h].effect = 2
      BY <2>0, <2>16 DEF Replayed, Fails, HttpTypes, Goto, Answer
    <3> QED BY <3>2, <3>3 DEF Local, Harmless
  <2> QED
    BY <2>1, <2>2, <2>3, <2>4, <2>5, <2>6, <2>7, <2>8, <2>9, <2>10, <2>11, <2>12, <2>13, <2>14,
       <2>15, <2>16 DEF HandlerStep
<1> QED BY <1>u, <1>m, <1>r, <1>h DEF HttpNext, allVars, vars

THEOREM HttpAlways == HttpSpec => []HttpInv
BY InitHttpInv, NextHttpInv, PTL DEF HttpSpec

(* A client error changed nothing: ClientErrorsChangeNothing, for any      *)
(* number of requests (the answers of response.go after the handlers).     *)
THEOREM ClientErrors == HttpSpec => []ClientErrorsChangeNothing
<1>1. HttpInv => ClientErrorsChangeNothing
  BY DEF HttpInv, Local, Harmless, ClientErrorsChangeNothing
<1> QED BY <1>1, HttpAlways, PTL

-----------------------------------------------------------------------------
(* Types and codes                                                         *)

\* An answer with a status and codes that there are.
Fitting(status, code, cause) ==
    /\ status \in {200, 204, 400, 401, 403, 404, 422, 429, 500}
    /\ {code, cause} \subseteq Codes \cup {NoCode}

(* What a step is for the request: it begins, goes on, or is answered.     *)
Begins(h) ==
    /\ pc' = [pc EXCEPT ![h] = "get"]
    /\ \E o \in Operations : op' = [op EXCEPT ![h] = o]
    /\ reply' = [reply EXCEPT ![h] = NoReply]
    /\ UNCHANGED <<tokens, admitted, effect>>

GoesOn(h) ==
    /\ pc[h] # "idle"
    /\ \E p \in Pcs \ {"idle"} : pc' = [pc EXCEPT ![h] = p]
    /\ \E e \in Effects : effect' = [effect EXCEPT ![h] = e]
    /\ admitted' \in {admitted, admitted \cup {h}}
    /\ tokens' \in 0..Burst
    /\ UNCHANGED <<op, reply>>

Ends(h) ==
    /\ pc[h] # "idle"
    /\ pc' = [pc EXCEPT ![h] = "idle"]
    /\ \E status, code, cause : \E reached \in Effects :
          Fitting(status, code, cause) /\ Answer(h, status, code, cause, reached)

TypedInv == HttpTypeOK /\ pc \in [Handlers -> Pcs]

LEMMA CodesFit ==
    /\ Fitting(429, TooManyReq, TooManyReq)
    /\ Fitting(400, CodeOf(<<BadRequest>>), BadRequest)
    /\ Fitting(404, CodeOf(<<ErrDriverNotFound>>), NoCode)
    /\ \A code \in {Validation, BadRequest} :
           Fitting(httpStatusFromCode(CodeOf(<<code>>)), CodeOf(<<code>>), code)
<1>1. {BadRequest, Validation, ErrDriverNotFound} \subseteq Nat
  BY DEF BadRequest, Validation, ErrDriverNotFound
<1>2. \A n \in {BadRequest, Validation, ErrDriverNotFound} : CodeOf(<<n>>) = n
  BY <1>1, SingleCodes
<1> QED
  BY <1>2, Statuses
  DEF Fitting, Codes, BadRequest, Validation, TooManyReq, ErrDriverNotFound

(* The handlers wrap every error of a driver's call in a code of theirs.   *)
LEMMA WrappedFits ==
    ASSUME NEW o, NEW err \in Errors(o)
    PROVE  Fitting(httpStatusFromCode(CodeOf(Wrap(o, err))), CodeOf(Wrap(o, err)),
                   IF err = <<>> THEN NoCode ELSE Head(err))
<1>1. CodeOf(Wrap(o, err)) \in {ErrTaskNotFound, ErrOperationFailed}
  BY ErrorsTyped, OutermostCode
<1>3. (IF err = <<>> THEN NoCode ELSE Head(err)) \in Codes \cup {NoCode}
  <2>1. \/ err = <<>> \/ err = <<ErrCDPConnection>> \/ err = <<ErrProfileNotLoggedIn>>
        \/ err = <<ErrOperationFailed>> \/ err = <<ErrPlatformState>> \/ err = <<ErrTaskNotFound>>
    BY Zenon DEF Errors
  <2>2. \A n : Head(<<n>>) = n
    OBVIOUS
  <2> QED BY <2>1, <2>2 DEF Codes
<1> HIDE DEF Codes
<1>4. {ErrTaskNotFound, ErrOperationFailed} \subseteq Codes
  BY DEF Codes
<1>5. \A code \in {ErrTaskNotFound, ErrOperationFailed} :
          httpStatusFromCode(code) \in {404, 500}
  BY Statuses
<1> QED BY <1>1, <1>3, <1>4, <1>5 DEF Fitting

LEMMA StepShape ==
    ASSUME TypedInv, NEW h \in Handlers, HandlerStep(h)
    PROVE  (pc[h] = "idle" /\ Begins(h)) \/ GoesOn(h) \/ Ends(h)
<1>0. /\ effect \in [Handlers -> Effects] /\ pc \in [Handlers -> Pcs]
      /\ effect[h] \in Effects /\ pc[h] \in Pcs
      /\ tokens \in 0..Burst /\ Burst \in Nat
      /\ h \in admitted => pc[h] # "idle"
  BY BurstAssumption DEF TypedInv, HttpTypeOK
<1>1. CASE Receive(h)
  BY <1>1 DEF Receive, Arrive, Goto, Begins
<1>2. CASE CrossOrigin(h)
  <2>1. PICK status \in {403, 204} : Answer(h, status, NoCode, NoCode, 0)
    BY <1>2 DEF CrossOrigin
  <2>2. Fitting(status, NoCode, NoCode)
    BY DEF Fitting
  <2> QED BY <1>2, <2>1, <2>2 DEF CrossOrigin, Refused, Fails, Goto, Ends, Effects
<1>3. CASE Limited(h)
  <2>1. Fails(h, "get") /\ Answer(h, 429, TooManyReq, TooManyReq, 0)
    BY <1>3 DEF Limited, Refused
  <2> QED BY <2>1, CodesFit DEF Fails, Goto, Ends, Effects
<1>4. CASE Admit(h)
  <2>1. tokens' \in 0..Burst
    BY <1>0, <1>4 DEF Admit
  <2>2. pc[h] = "get" /\ UNCHANGED <<pc, op, effect, reply>> /\ admitted' = admitted \cup {h}
    BY <1>4 DEF Admit, vars
  <2>3. pc' = [pc EXCEPT ![h] = "get"] /\ effect' = [effect EXCEPT ![h] = effect[h]]
    BY <1>0, <2>2
  <2> QED BY <1>0, <2>1, <2>2, <2>3 DEF GoesOn, Pcs
<1>5. CASE NoProfile(h)
  <2>1. Fails(h, "get") /\ Answer(h, 400, CodeOf(<<BadRequest>>), BadRequest, 0)
    BY <1>5, ErrorStatuses DEF NoProfile, Refused, AnswerError
  <2> QED BY <2>1, CodesFit DEF Fails, Goto, Ends, Effects
<1>6. CASE NoDriverFound(h)
  <2>1. Fails(h, "get") /\ Answer(h, 404, CodeOf(<<ErrDriverNotFound>>), NoCode, 1)
    BY <1>6, ErrorStatuses DEF NoDriverFound, Refused, AnswerError
  <2> QED BY <2>1, CodesFit DEF Fails, Goto, Ends, Effects
<1>7. CASE FactoryFails(h)
  <2>1. Fails(h, "create") /\ Answer(h, 404, CodeOf(<<ErrDriverNotFound>>), NoCode, 1)
    BY <1>7, ErrorStatuses DEF FactoryFails, CreateFailed, AnswerError
  <2> QED BY <2>1, CodesFit DEF Fails, Goto, Ends, Effects
<1>8. CASE DriverFound(h)
  <2>1. PICK to \in {"submit", "create", "write", "writing"} : pc' = [pc EXCEPT ![h] = to]
    BY <1>8 DEF DriverFound, GetHit, GetMiss, Create, WriteBegins, WriteEnds, Goto
  <2>2. effect' = [effect EXCEPT ![h] = 1] /\ UNCHANGED <<tokens, admitted, op, reply>>
    BY <1>8 DEF DriverFound, Reach
  <2>3. pc[h] # "idle" /\ to \in Pcs \ {"idle"} /\ 1 \in Effects /\ tokens' \in 0..Burst
    BY <1>0, <1>8, <2>2 DEF DriverFound, Pcs, Effects
  <2> QED BY <2>1, <2>2, <2>3 DEF GoesOn
<1>9. CASE Objected(h)
  <2>1. PICK code \in {Validation, BadRequest} : AnswerError(h, <<code>>, code, 1)
    BY <1>9 DEF Objected, Objections
  <2>2. Answer(h, httpStatusFromCode(CodeOf(<<code>>)), CodeOf(<<code>>), code, 1)
    BY <2>1 DEF AnswerError
  <2>3. Fails(h, "submit")
    BY <1>9 DEF Objected
  <2> QED BY <2>2, <2>3, CodesFit DEF Fails, Goto, Ends, Effects
<1>10. CASE Call(h)
  <2>1. PICK e \in {2, 3} : effect' = [effect EXCEPT ![h] = e]
    BY <1>10 DEF Call, Reach
  <2>2. pc[h] = "submit" /\ UNCHANGED <<pc, tokens, admitted, op, reply>>
    BY <1>10 DEF Call, Reach, vars
  <2>3. pc' = [pc EXCEPT ![h] = "submit"] /\ "submit" \in Pcs \ {"idle"}
    BY <1>0, <2>2 DEF Pcs
  <2>4. e \in Effects /\ tokens' \in 0..Burst /\ pc[h] # "idle"
    BY <1>0, <2>2 DEF Effects
  <2> QED BY <2>1, <2>2, <2>3, <2>4 DEF GoesOn
<1>11. CASE CallFailed(h)
  <2>1. Fails(h, "submit")
    BY <1>11 DEF CallFailed
  <2>2. CASE Answer(h, 200, OK, NoCode, effect[h])
    <3>1. Fitting(200, OK, NoCode)
      BY DEF Fitting, Codes
    <3> QED BY <1>0, <2>1, <2>2, <3>1 DEF Fails, Goto, Ends
  <2>3. ASSUME NEW err \in Errors(op[h]),
               AnswerError(h, Wrap(op[h], err), IF err = <<>> THEN NoCode ELSE Head(err), effect[h])
        PROVE  Ends(h)
    <3>1. Answer(h, httpStatusFromCode(CodeOf(Wrap(op[h], err))), CodeOf(Wrap(op[h], err)),
                 IF err = <<>> THEN NoCode ELSE Head(err), effect[h])
      BY <2>3 DEF AnswerError
    <3> QED BY <1>0, <2>1, <3>1, WrappedFits DEF Fails, Goto, Ends
  <2> QED BY <1>11, <2>2, <2>3 DEF CallFailed
<1>12. CASE Panics(h)
  <2>1. Fails(h, "submit") /\ Answer(h, 500, Internal, NoCode, effect[h])
    BY <1>12 DEF Panics
  <2>2. Fitting(500, Internal, NoCode)
    BY DEF Fitting, Codes, Internal
  <2> QED BY <1>0, <2>1, <2>2 DEF Fails, Goto, Ends
<1>13. CASE Added(h)
  <2>1. /\ pc[h] = "submit" /\ pc' = [pc EXCEPT ![h] = "record"]
        /\ UNCHANGED <<tokens, admitted, op, reply, effect>>
    BY <1>13 DEF Added, Submit, Goto, httpVars
  <2>2. effect' = [effect EXCEPT ![h] = effect[h]]
    BY <1>0, <2>1
  <2> QED BY <1>0, <2>1, <2>2 DEF GoesOn, Pcs
<1>14. CASE Stored(h) \/ Succeeded(h) \/ Replayed(h)
  <2>1. PICK reached \in Effects : Answer(h, 200, OK, NoCode, reached)
    BY <1>0, <1>14 DEF Stored, Succeeded, Replayed, Effects
  <2>2. Fitting(200, OK, NoCode)
    BY DEF Fitting, Codes
  <2>3. pc[h] # "idle" /\ pc' = [pc EXCEPT ![h] = "idle"]
    BY <1>14 DEF Stored, Succeeded, Replayed, Record, Fails, Goto
  <2> QED BY <2>1, <2>2, <2>3 DEF Ends
<1> QED
  BY <1>1, <1>2, <1>3, <1>4, <1>5, <1>6, <1>7, <1>8, <1>9, <1>10, <1>11, <1>12, <1>13, <1>14
  DEF HandlerStep

LEMMA NextTypedInv == TypedInv /\ [HttpNext]_allVars => TypedInv'
<1> SUFFICES ASSUME TypedInv, [HttpNext]_allVars PROVE TypedInv'
  OBVIOUS
<1>u. CASE UNCHANGED <<pc, op, effect, reply, admitted>> /\ tokens' \in 0..Burst
  BY <1>u DEF TypedInv, HttpTypeOK
<1>t. tokens \in 0..Burst /\ Burst \in Nat
  BY BurstAssumption DEF TypedInv, HttpTypeOK
<1>m. CASE MainStep
  <2>1. UNCHANGED <<pc, op, effect, reply, admitted, tokens>>
    BY <1>m DEF MainStep, httpVars, BeginStop, Stop, MapFatal, Drained, DrainTimesOut, CloseDriver,
                CloseBrowser, CloseStore, Exit
  <2> QED BY <1>t, <1>u, <2>1
<1>r. CASE Refill
  <2>1. UNCHANGED <<pc, op, effect, reply, admitted>> /\ tokens' \in 0..Burst
    BY <1>r, <1>t DEF Refill, vars
  <2> QED BY <1>u, <2>1
<1>h. CASE \E h \in Handlers : HandlerStep(h)
  <2> PICK h \in Handlers : HandlerStep(h)
    BY <1>h
  <2>o. NoOperation \notin Operations
    BY OperationsAssumption
  <2>1. CASE pc[h] = "idle" /\ Begins(h)
    BY <2>1, <2>o DEF Begins, TypedInv, HttpTypeOK, Pcs
  <2>2. CASE GoesOn(h)
    BY <2>2 DEF GoesOn, TypedInv, HttpTypeOK
  <2>3. CASE Ends(h)
    <3>1. PICK status, code, cause, reached :
              /\ reached \in Effects
              /\ Fitting(status, code, cause)
              /\ Answer(h, status, code, cause, reached)
      BY <2>3 DEF Ends
    <3> DEFINE r == [op |-> op[h], status |-> status, code |-> code,
                     cause |-> cause, effect |-> reached]
    <3>2. op[h] \in Operations
      BY <2>3 DEF Ends, TypedInv, HttpTypeOK
    <3>3. r \in Replies /\ r.code = code /\ r.status = status
      BY <3>1, <3>2 DEF Replies, Fitting
    <3>4. /\ reply' = [reply EXCEPT ![h] = r]
          /\ pc' = [pc EXCEPT ![h] = "idle"] /\ op' = [op EXCEPT ![h] = NoOperation]
          /\ effect' = [effect EXCEPT ![h] = 0] /\ admitted' = admitted \ {h} /\ UNCHANGED tokens
      BY <2>3, <3>1 DEF Ends, Answer
    <3> HIDE DEF r
    <3> QED BY <3>3, <3>4 DEF TypedInv, HttpTypeOK, Pcs, Effects
  <2> QED BY <2>1, <2>2, <2>3, StepShape
<1> QED BY <1>u, <1>t, <1>m, <1>r, <1>h DEF HttpNext, allVars, vars

LEMMA InitTypedInv == HttpInit => TypedInv
<1> SUFFICES ASSUME HttpInit PROVE TypedInv
  OBVIOUS
<1>1. pc = [h \in Handlers |-> "idle"]
  BY DEF HttpInit, Init
<1>2. tokens \in 0..Burst
  BY BurstAssumption DEF HttpInit
<1> QED BY <1>1, <1>2 DEF HttpInit, TypedInv, HttpTypeOK, Effects, Pcs

(* The handlers, their requests and answers keep their types: HttpTypeOK.  *)
THEOREM HttpTyped == HttpSpec => []HttpTypeOK
<1>1. TypedInv => HttpTypeOK
  BY DEF TypedInv
<1> QED BY <1>1, InitTypedInv, NextTypedInv, PTL DEF HttpSpec

-----------------------------------------------------------------------------
(* The HTTP side is the process of AppLifecycle: each of its steps is one  *)
(* of the process, or leaves the process alone.                            *)
LEMMA StepRefines == [HttpNext]_allVars => [Next]_vars
<1> SUFFICES ASSUME [HttpNext]_allVars PROVE [Next]_vars
  OBVIOUS
<1>1. CASE \E h \in Handlers : HandlerStep(h)
  <2> PICK h \in Handlers : HandlerStep(h)
    BY <1>1
  <2>1. CASE Receive(h)
    BY <2>1 DEF Receive, Next, Serve
  <2>2. CASE CrossOrigin(h) \/ Limited(h) \/ NoProfile(h) \/ NoDriverFound(h)
    BY <2>2 DEF CrossOrigin, Limited, NoProfile, NoDriverFound, Next, Serve
  <2>3. CASE FactoryFails(h)
    BY <2>3 DEF FactoryFails, Next, Serve
  <2>4. CASE DriverFound(h)
    BY <2>4 DEF DriverFound, Next, Serve
  <2>5. CASE Objected(h) \/ CallFailed(h) \/ Panics(h) \/ Succeeded(h) \/ Replayed(h)
    <3>1. SubmitFailed(h)
      BY <2>5 DEF Objected, CallFailed, Panics, Succeeded, Replayed, SubmitFailed
    <3> QED BY <3>1 DEF Next, Serve
  <2>6. CASE Added(h) \/ Stored(h)
    BY <2>6 DEF Added, Stored, Next, Serve
  <2>7. CASE Admit(h) \/ Call(h)
    BY <2>7 DEF Admit, Call
  <2> QED BY <2>1, <2>2, <2>3, <2>4, <2>5, <2>6, <2>7 DEF HandlerStep
<1>2. CASE MainStep
  BY <1>2 DEF MainStep, Next
<1>3. CASE Refill
  BY <1>3 DEF Refill
<1>4. CASE UNCHANGED allVars
  BY <1>4 DEF allVars
<1> QED BY <1>1, <1>2, <1>3, <1>4 DEF HttpNext

(* So what is proved of the process holds under any load of requests.      *)
THEOREM LifecycleRefined == HttpSpec => Spec
<1>1. HttpInit => Init
  BY DEF HttpInit
<1> QED BY <1>1, StepRefines, PTL DEF HttpSpec, Spec
=============================================================================
