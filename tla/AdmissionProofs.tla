-------------------------- MODULE AdmissionProofs --------------------------
(***************************************************************************)
(* The middleware's safety for every set of configurations, credentials    *)
(* and requests, every width of the integers and every value of the        *)
(* bounds.  To the validator the middleware is a caller like any other, so *)
(* what TokenValidatorProofs establishes holds here as it stands.          *)
(***************************************************************************)
EXTENDS Admission, TokenValidatorProofs

Places == {"none", "middleware", "validating", "answered"}

Requests == [place : Places, credential : Credentials \cup {[header |-> "absent"]}]

AdmissionTypeOK ==
  /\ phase \in {"starting", "serving", "refused"}
  /\ request \in [Calls -> Requests]
  /\ response = [c \in Calls |-> response[c]]

\* What the validator said of a token while it could still be said.
Sound(c) ==
  /\ call[c].result \in {"claims", "errTokenRejected", "errValidationUnavailable"}
  /\ call[c].result = "claims" => call[c].token \notin Foreign

\* Only a process whose configuration is valid takes requests.
ServesValidated ==
  /\ phase = "serving" => validate(config)
  /\ \A c \in Calls : request[c].place # "none" =>
       phase = "serving" /\ request[c].credential \in Credentials

\* The validator works for a request while the request waits for it and only
\* then; a result that waits to be judged is still good at this instant.
ValidatorServes(c) ==
  LET t == request[c].credential IN
  /\ request[c].place # "validating" => call[c].pc = "idle"
  /\ request[c].place = "validating" =>
       /\ Branch(t) = "google" /\ call[c].token = t.token
       /\ call[c].pc # "idle" => call[c].result = "none"
       /\ call[c].pc = "idle" =>
            Sound(c) /\ (call[c].result = "claims" => Timely(t))

\* An answer is the judgement of the request's credential: at some instant of
\* the past, or on the validator's result, which is still there.
AnswerOfTheRequest(c) ==
  LET t == request[c].credential IN
  IF request[c].place # "answered" THEN response[c] = NoResponse
  ELSE IF Branch(t) = "google"
    THEN /\ Sound(c) /\ call[c].token = t.token
         /\ response[c] = judgeToken(config, call[c].result, t.token)
  ELSE \E instant \in Start .. now : response[c] = Locally(t, config, instant)

AdmissionInv ==
  /\ AdmissionTypeOK
  /\ ServesValidated
  /\ \A c \in Calls : ValidatorServes(c) /\ AnswerOfTheRequest(c)

-----------------------------------------------------------------------------
(* The times of an assertion *)

LEMMA Numbers ==
  /\ maxLifetime \in Nat /\ clockSkew \in Nat /\ UnixToInternal \in Nat
  /\ Limit \in Nat /\ Limit > 0
<1>1. Limit \in Nat \ {0}
  BY Zenon, AdmissionAssumption
<1>2. {maxLifetime, clockSkew, UnixToInternal} \subseteq Nat
  BY Zenon, AdmissionAssumption
<1> QED
  BY <1>1, <1>2

\* Below the range nothing wraps; beyond it an instant reads as an earlier one.
LEMMA WrapLemma ==
  ASSUME NEW n \in Int, -Limit <= n
  PROVE  /\ Wrap(n) \in Int
         /\ Wrap(n) <= n
         /\ n < Limit => Wrap(n) = n
BY Numbers DEF Wrap

\* time.Unix never reads a time as later than it is, and in range it reads it.
LEMMA AfterLemma ==
  ASSUME NEW sec \in -Limit .. Limit - 1, NEW instant \in Nat
  PROVE  /\ After(sec, instant) => instant < sec
         /\ sec + UnixToInternal < Limit => (After(sec, instant) <=> instant < sec)
         /\ \A later \in Nat : instant <= later /\ After(sec, later) => After(sec, instant)
<1>1. /\ UnixToInternal \in Nat /\ Limit \in Nat
      /\ sec + UnixToInternal \in Int /\ -Limit <= sec + UnixToInternal
  BY Numbers
<1>2. /\ Unix(sec) \in Int
      /\ Unix(sec) <= sec + UnixToInternal
      /\ sec + UnixToInternal < Limit => Unix(sec) = sec + UnixToInternal
  BY <1>1, WrapLemma DEF Unix
<1> QED
  BY <1>1, <1>2 DEF After

\* An assertion that verifies has every part of it in order, and its times too.
LEMMA VerifyLemma ==
  ASSUME NEW t, NEW c, NEW instant \in Nat, {t.iat, t.exp} \subseteq -Limit .. Limit - 1,
         verify(t, c, instant) = "ok"
  PROVE  /\ t.signed /\ t.ours /\ t.aud = c.gatewayAudience /\ t.subject # Empty
         /\ instant < t.exp
         /\ IssuedInRange(t) => t.iat <= instant + clockSkew /\ t.exp - t.iat <= maxLifetime
<1>1. /\ t.signed /\ t.ours /\ t.aud = c.gatewayAudience /\ t.subject # Empty
      /\ ~(t.iat <= 0) /\ ~(Wrap(t.exp - t.iat) > maxLifetime)
      /\ ~After(t.iat, instant + clockSkew) /\ After(t.exp, instant)
  BY DEF verify
<1>2. /\ t.iat \in -Limit .. Limit - 1 /\ t.exp \in -Limit .. Limit - 1
      /\ clockSkew \in Nat /\ maxLifetime \in Nat /\ Limit \in Nat /\ instant + clockSkew \in Nat
  BY Numbers
<1>3. instant < t.exp
  BY <1>1, <1>2, AfterLemma
<1>4. ASSUME IssuedInRange(t)
      PROVE  t.iat <= instant + clockSkew /\ t.exp - t.iat <= maxLifetime
  <2> DEFINE iat == t.iat
             exp == t.exp
  <2>1. /\ iat \in -Limit .. Limit - 1 /\ exp \in -Limit .. Limit - 1
        /\ ~(iat <= 0) /\ instant < exp /\ iat + UnixToInternal < Limit
        /\ ~(Wrap(exp - iat) > maxLifetime) /\ ~After(iat, instant + clockSkew)
    BY <1>1, <1>2, <1>3, <1>4 DEF IssuedInRange
  <2> HIDE DEF iat, exp
  <2>2. iat <= instant + clockSkew
    <3>1. ~(instant + clockSkew < iat)
      BY <1>2, <2>1, AfterLemma
    <3> QED
      BY <1>2, <2>1, <3>1
  <2>3. exp - iat \in Int /\ -Limit <= exp - iat /\ exp - iat < Limit
    BY <1>2, <2>1
  <2>4. Wrap(exp - iat) = exp - iat
    BY <2>3, WrapLemma
  <2>5. exp - iat <= maxLifetime
    BY <1>2, <2>1, <2>3, <2>4
  <2> QED
    BY <2>2, <2>5 DEF iat, exp
<1> QED
  BY <1>1, <1>3, <1>4

\* An assertion that is refused stays refused, unless it is dated in the future.
LEMMA RefusalLasts ==
  ASSUME NEW t, NEW c, NEW instant \in Nat, NEW later \in Nat, instant <= later,
         {t.iat, t.exp} \subseteq -Limit .. Limit - 1, ~(t.iat > instant + clockSkew),
         verify(t, c, later) = "ok"
  PROVE  verify(t, c, instant) = "ok"
<1>1. /\ t.iat \in -Limit .. Limit - 1 /\ t.exp \in -Limit .. Limit - 1
      /\ clockSkew \in Nat /\ instant + clockSkew \in Nat
  BY Numbers
<1>2. After(t.exp, instant)
  BY <1>1, AfterLemma DEF verify
<1>3. ~After(t.iat, instant + clockSkew)
  <2>1. ~(instant + clockSkew < t.iat)
    BY <1>1
  <2> QED
    BY <1>1, <2>1, AfterLemma
<1> QED
  BY <1>2, <1>3 DEF verify

-----------------------------------------------------------------------------
(* The judgements *)

\* Whoever is behind a good credential is admitted or told why not.
LEMMA JudgeLemma ==
  ASSUME NEW caller, NEW c
  PROVE  LET r == judge(caller, c)
             address == caller.email.address
         IN /\ r.status = 200 => caller.verified /\ address \in Allowlist(c)
            /\ r.status # 200 => r.status = 403
            /\ r.class = "identity_not_allowlisted" <=> address \notin Allowlist(c) \cup {Blank}
            /\ r.class = "email_unverified" => address \in Allowlist(c) /\ ~caller.verified
BY DEF judge, admit, forbidden, Response, normaliseEmail, Allowlist

\* Every credential goes one of five ways.
LEMMA BranchLemma ==
  ASSUME NEW t
  PROVE  Branch(t) \in {"header", "sealed", "unreadable", "gateway", "google"}
BY DEF Branch

\* A 401, and a 403, whatever the class.
LEMMA StatusLemma ==
  ASSUME NEW class
  PROVE  /\ unauthorized(class).status = 401
         /\ forbidden(class).status = 403
         /\ forbidden(class).class = class
BY DEF unauthorized, forbidden, Response

\* A 401 is challenged when its class is one of the credential's own faults.
LEMMA ChallengeLemma ==
  ASSUME NEW class
  PROVE  /\ class \in CredentialFaults => unauthorized(class).challenged = TRUE
         /\ class \notin CredentialFaults => unauthorized(class).challenged = FALSE
<1>1. class \in CredentialFaults => (class \in CredentialFaults) = TRUE
  BY Zenon
<1>2. class \notin CredentialFaults => (class \in CredentialFaults) = FALSE
  BY SMT
<1>3. unauthorized(class).challenged = (class \in CredentialFaults)
  BY DEF unauthorized, Response, challengesTheCredential
<1> QED
  BY Zenon, <1>1, <1>2, <1>3

\* What the middleware admits at once rests on a credential that is good now.
LEMMA LocallyGrounded ==
  ASSUME NEW t \in Credentials, NEW c, validate(c), now \in Nat,
         Branch(t) # "google", Locally(t, c, now).status = 200
  PROVE  Vouched(t, c) /\ Timely(t)
<1>1. CASE Branch(t) = "sealed"
  <2>1. judgeSealed(t, c, now).status = 200
    BY <1>1 DEF Locally
  <2>2. /\ t.opens = "access" /\ ~(t.expiresAt <= now)
        /\ judge(t, c).status = 200
    BY <2>1, StatusLemma DEF judgeSealed
  <2>3. t.expiresAt \in Int
    BY <1>1, CredentialsAssumption
  <2> QED
    BY <1>1, <2>2, <2>3, JudgeLemma DEF Vouched, Timely
<1>2. CASE Branch(t) = "gateway"
  <2>1. judgeAssertion(t, c, now).status = 200
    BY <1>2 DEF Locally
  <2>2. c.gatewayKey # Empty /\ verify(t, c, now) = "ok"
    <3>1. c.gatewayKey # Empty
      <4>1. c.gatewayKey = Empty => judgeAssertion(t, c, now) = unauthorized("no_gateway_trust")
        BY DEF judgeAssertion
      <4> QED
        BY <2>1, <4>1, StatusLemma
    <3>2. verify(t, c, now) # "ok" => judgeAssertion(t, c, now) = unauthorized(verify(t, c, now))
      BY <3>1 DEF judgeAssertion
    <3> QED
      BY <2>1, <3>1, <3>2, StatusLemma
  <2>3. c.gatewayAudience # Empty
    BY <2>2 DEF validate, validateGatewayTrust
  <2>4. {t.iat, t.exp} \subseteq -Limit .. Limit - 1
    BY <1>2, CredentialsAssumption
  <2> QED
    BY <1>2, <2>2, <2>3, <2>4, VerifyLemma DEF Vouched, Timely
<1>3. CASE Branch(t) \in {"header", "unreadable"}
  BY <1>3, StatusLemma DEF Locally
<1> QED
  BY <1>1, <1>2, <1>3, BranchLemma

\* Every class of an assertion that does not verify is one of the credential's.
LEMMA VerifyClasses ==
  ASSUME NEW t, NEW c, NEW instant, verify(t, c, instant) # "ok"
  PROVE  verify(t, c, instant) \in CredentialFaults
BY DEF verify, CredentialFaults

\* What the middleware refuses at once with a 401 it challenges, and refuses
\* ever after; only an assertion while no gateway is trusted is not challenged.
LEMMA LocallyFinal ==
  ASSUME NEW t \in Credentials, NEW c, NEW instant \in Nat,
         Branch(t) # "google", Locally(t, c, instant).status = 401
  PROVE  /\ \E class : /\ Locally(t, c, instant) = unauthorized(class)
                       /\ class \in CredentialFaults <=>
                            ~(Branch(t) = "gateway" /\ c.gatewayKey = Empty)
         /\ \A later \in Nat : instant <= later /\ ~DatedAhead(t, instant) =>
              Locally(t, c, later).status # 200
<1>1. CASE Branch(t) = "header"
  <2>1. HeaderFault[t.header] \in CredentialFaults
    BY <1>1 DEF Branch, HeaderFault, CredentialFaults
  <2>2. \A later : Locally(t, c, later) = unauthorized(HeaderFault[t.header])
    BY <1>1 DEF Locally
  <2>3. \A later : Locally(t, c, later).status = 401
    BY <2>2, StatusLemma
  <2> QED
    BY <1>1, <2>1, <2>2, <2>3
<1>2. CASE Branch(t) = "unreadable"
  <2>1. "assertion_rejected" \in CredentialFaults
    BY DEF CredentialFaults
  <2>2. \A later : Locally(t, c, later) = unauthorized("assertion_rejected")
    BY <1>2 DEF Locally
  <2>3. \A later : Locally(t, c, later).status = 401
    BY <2>2, StatusLemma
  <2> QED
    BY <1>2, <2>1, <2>2, <2>3
<1>3. CASE Branch(t) = "sealed"
  <2>1. /\ Locally(t, c, instant) = judgeSealed(t, c, instant)
        /\ \A later : Locally(t, c, later) = judgeSealed(t, c, later)
    BY <1>3 DEF Locally
  <2>2. {"sealed_wrong_purpose", "sealed_corrupt", "sealed_expired"} \subseteq CredentialFaults
    BY DEF CredentialFaults
  <2>3. judgeSealed(t, c, instant).status # 401 \/ t.opens # "access" \/ t.expiresAt <= instant
    BY JudgeLemma, StatusLemma DEF judgeSealed
  <2>4. \E class \in CredentialFaults : judgeSealed(t, c, instant) = unauthorized(class)
    BY <2>1, <2>2, <2>3 DEF judgeSealed
  <2>5. ASSUME NEW later \in Nat, instant <= later
        PROVE  judgeSealed(t, c, later).status = 401
    <3>1. t.expiresAt \in Int
      BY <1>3, CredentialsAssumption
    <3>2. t.opens # "access" \/ t.expiresAt <= later
      BY <2>1, <2>3, <2>5, <3>1
    <3> QED
      BY <3>2, StatusLemma DEF judgeSealed
  <2> QED
    BY <1>3, <2>1, <2>4, <2>5
<1>4. CASE Branch(t) = "gateway" /\ c.gatewayKey = Empty
  <2>1. \A later : Locally(t, c, later) = unauthorized("no_gateway_trust")
    BY <1>4 DEF Locally, judgeAssertion
  <2>2. "no_gateway_trust" \notin CredentialFaults
    BY DEF CredentialFaults
  <2>3. \A later : Locally(t, c, later).status = 401
    BY <2>1, StatusLemma
  <2> QED
    BY <1>4, <2>1, <2>2, <2>3
<1>5. CASE Branch(t) = "gateway" /\ c.gatewayKey # Empty
  <2>1. ASSUME NEW later, verify(t, c, later) # "ok"
        PROVE  Locally(t, c, later) = unauthorized(verify(t, c, later))
    BY <1>5, <2>1 DEF Locally, judgeAssertion
  <2>2. verify(t, c, instant) # "ok"
    BY <1>5 DEF Locally, judgeAssertion, Response
  <2>3. \E class \in CredentialFaults : Locally(t, c, instant) = unauthorized(class)
    BY <2>1, <2>2, VerifyClasses
  <2>4. ASSUME NEW later \in Nat, instant <= later, ~DatedAhead(t, instant)
        PROVE  Locally(t, c, later).status # 200
    <3>1. verify(t, c, later) # "ok"
      BY <1>5, <2>2, <2>4, CredentialsAssumption, RefusalLasts DEF DatedAhead
    <3> QED
      BY <2>1, <3>1, StatusLemma
  <2> QED
    BY <1>5, <2>3, <2>4
<1> QED
  BY <1>1, <1>2, <1>3, <1>4, <1>5, BranchLemma

\* A 403 names the remedy of the caller that the sealed credential carries.
LEMMA SealedRemedy ==
  ASSUME NEW t, NEW c, NEW instant, judgeSealed(t, c, instant).status = 403
  PROVE  LET class == judgeSealed(t, c, instant).class
             address == t.email.address
         IN /\ (class = "identity_not_allowlisted") <=>
                 (t.subject # Empty /\ address \notin Allowlist(c) \cup {Blank})
            /\ class = "email_unverified" => address \in Allowlist(c) /\ ~t.verified
<1>1. CASE t.subject = Empty
  <2>1. judgeSealed(t, c, instant) = forbidden("no_email_in_token")
    BY <1>1, StatusLemma DEF judgeSealed
  <2> QED
    BY <1>1, <2>1 DEF forbidden, Response
<1>2. CASE t.subject # Empty
  <2>1. judgeSealed(t, c, instant) = judge(t, c)
    BY <1>2, StatusLemma DEF judgeSealed
  <2> QED
    BY <1>2, <2>1, JudgeLemma
<1> QED
  BY <1>1, <1>2

\* Without Google only a sealed credential is answered with a 403.
LEMMA LocallyForbidden ==
  ASSUME NEW t, NEW c, NEW instant,
         Branch(t) # "google", Locally(t, c, instant).status = 403
  PROVE  Branch(t) = "sealed" /\ Locally(t, c, instant) = judgeSealed(t, c, instant)
BY BranchLemma, StatusLemma DEF Locally, judgeAssertion, Response

-----------------------------------------------------------------------------
(* The validator behind the middleware *)

IInv == Bookkeeping /\ Freshness /\ AdmissionInv

ValidatorResults == {"claims", "errTokenRejected", "errValidationUnavailable"}

\* A call that returns is done and has a result.
LEMMA ReturnLemma ==
  ASSUME call \in [Calls -> CallStates], NEW c \in Calls,
         NEW result \in ValidatorResults, NEW b, Return(c, result, b)
  PROVE  /\ \A d \in Calls : d # c => call'[d] = call[d]
         /\ call'[c].token = call[c].token
         /\ call'[c].pc = "idle" /\ call'[c].result = result
<1>1. call[c].token \in Tokens /\ result \in Results
  BY DEF CallStates, ValidatorResults, Results
<1>2. call' = [call EXCEPT ![c] = Decided(call[c].token, result)]
  BY DEF Return
<1>3. call'[c] = Decided(call[c].token, result)
  BY <1>2, Zenon
<1>4. \A d \in Calls : d # c => call'[d] = call[d]
  BY <1>2, Zenon
<1> QED
  BY <1>1, <1>3, <1>4, DecidedType

\* A call in progress keeps its token and has no result until it is done.
LEMMA ValidatorStep ==
  ASSUME call \in [Calls -> CallStates], NEW c \in Calls,
         Validate(c) \/ GoogleAnswers(c)
  PROVE  /\ call[c].pc # "idle"
         /\ \A d \in Calls : d # c => call'[d] = call[d]
         /\ call'[c].token = call[c].token
         /\ \/ call'[c].pc # "idle" /\ call'[c].result = call[c].result
            \/ call'[c].pc = "idle" /\ call'[c].result \in ValidatorResults
<1> DEFINE Goal ==
      /\ \A d \in Calls : d # c => call'[d] = call[d]
      /\ call'[c].token = call[c].token
      /\ \/ call'[c].pc # "idle" /\ call'[c].result = call[c].result
         \/ call'[c].pc = "idle" /\ call'[c].result \in ValidatorResults
<1>1. ASSUME NEW result \in ValidatorResults, NEW b, Return(c, result, b)
      PROVE  Goal
  BY <1>1, ReturnLemma
<1>2. ASSUME NEW pc, pc # "idle", Goto(c, pc)
      PROVE  Goal
  BY <1>2 DEF Goto, CallStates
<1> HIDE DEF Goal
<1>3. FirstLookup(c) => call[c].pc # "idle" /\ Goal
  BY <1>1, <1>2 DEF FirstLookup, ValidatorResults
<1>4. TakeSlot(c) => call[c].pc # "idle" /\ Goal
  BY <1>1, <1>2 DEF TakeSlot, ValidatorResults
<1>5. ASSUME SecondLookup(c) PROVE call[c].pc # "idle" /\ Goal
  <2>1. CASE call' = [call EXCEPT ![c] =
                       [@ EXCEPT !.pc = "asked", !.by = now + validationTimeout]]
    <3>1. Goal
      BY <2>1 DEF Goal, CallStates
    <3> QED
      BY <1>5, <3>1 DEF SecondLookup
  <2> QED
    BY <1>1, <1>5, <2>1 DEF SecondLookup, ValidatorResults
<1>6. RequestFails(c) => call[c].pc # "idle" /\ Goal
  BY <1>1 DEF RequestFails, ValidatorResults
<1>7. ASSUME Receive(c) PROVE call[c].pc # "idle" /\ Goal
  <2> DEFINE left == remainingLifetime(call[c].answer.exp, now)
  <2>1. ASSUME call' = [call EXCEPT ![c] =
                 [@ EXCEPT !.pc = "storing", !.left = left, !.by = now + Pause]]
        PROVE  Goal
    <3> HIDE DEF left
    <3> QED
      BY <2>1 DEF Goal, CallStates
  <2> QED
    BY <1>1, <1>7, <2>1 DEF Receive, ValidatorResults
<1>8. Store(c) => call[c].pc # "idle" /\ Goal
  BY <1>1 DEF Store, ValidatorResults
<1>9. ASSUME GoogleAnswers(c) PROVE call[c].pc # "idle" /\ Goal
  <2>1. PICK a : call' = [call EXCEPT ![c] = [@ EXCEPT !.pc = "answered", !.answer = a]]
    BY <1>9 DEF GoogleAnswers
  <2>2. Goal
    BY <2>1 DEF Goal, CallStates
  <2> QED
    BY <1>9, <2>2 DEF GoogleAnswers
<1> QED
  BY <1>3, <1>4, <1>5, <1>6, <1>7, <1>8, <1>9 DEF Validate, Goal

\* Whatever the middleware does, the validator takes a step of its own or none.
LEMMA StepsOfTheValidator == AdmissionInv /\ [AdmissionNext]_allVars => [Next]_vars
<1> SUFFICES ASSUME AdmissionInv, [AdmissionNext]_allVars PROVE [Next]_vars
  OBVIOUS
<1>1. ASSUME NEW c \in Calls, Decide(c) PROVE [Next]_vars
  <2>1. CASE Branch(request[c].credential) # "google"
    BY <1>1, <2>1 DEF Decide
  <2>2. CASE Branch(request[c].credential) = "google"
    <3>1. request[c].place = "middleware"
      BY <1>1 DEF Decide
    <3>2. request[c].credential \in Credentials
      BY <3>1 DEF AdmissionInv, ServesValidated
    <3>3. request[c].credential.token \in Tokens
      BY <2>2, <3>2, CredentialsAssumption
    <3>4. Present(c, request[c].credential.token)
      BY <1>1, <2>2 DEF Decide
    <3> QED
      BY <3>3, <3>4 DEF Next
  <2> QED
    BY <2>1, <2>2
<1>2. ASSUME NEW c \in Calls, Receives(c) \/ Judge(c) PROVE [Next]_vars
  BY <1>2 DEF Receives, Judge
<1>3. CASE Load \/ Refused
  BY <1>3 DEF Load, Refused, allVars, vars
<1>4. CASE UNCHANGED allVars
  BY <1>4 DEF allVars
<1> QED
  BY <1>1, <1>2, <1>3, <1>4 DEF AdmissionNext, Next

-----------------------------------------------------------------------------
(* The requests *)

LEMMA InitInv == AdmissionInit => IInv
<1> SUFFICES ASSUME AdmissionInit PROVE IInv
  OBVIOUS
<1>1. Bookkeeping /\ Freshness
  BY InitBookkeeping, InitFresh DEF AdmissionInit
<1>2. /\ request = [c \in Calls |-> Nothing] /\ response = [c \in Calls |-> NoResponse]
      /\ phase = "starting" /\ call = [c \in Calls |-> NoCall]
  BY DEF AdmissionInit, Init
<1>3. Nothing \in Requests /\ Nothing.place = "none"
  BY DEF Nothing, Requests, Places
<1>4. AdmissionTypeOK /\ ServesValidated
  BY <1>2, <1>3 DEF AdmissionTypeOK, ServesValidated
<1>5. \A c \in Calls : ValidatorServes(c) /\ AnswerOfTheRequest(c)
  BY <1>2, <1>3, NoCallType DEF ValidatorServes, AnswerOfTheRequest
<1> QED
  BY <1>1, <1>4, <1>5 DEF IInv, AdmissionInv

\* A request that a step leaves alone keeps its place in the invariant, if a
\* result that waits to be judged stays good.
LEMMA UntouchedRequest ==
  ASSUME IInv, NEW c \in Calls,
         request'[c] = request[c], response'[c] = response[c], call'[c] = call[c],
         config' = config, now' \in Nat, now <= now',
         \A t \in Credentials : Branch(t) = "google" /\ Timely(t) =>
           Timely(t)' \/ request[c].place # "validating" \/ call[c].pc # "idle"
  PROVE  ValidatorServes(c)' /\ AnswerOfTheRequest(c)'
<1> DEFINE t == request[c].credential
<1>1. ValidatorServes(c) /\ AnswerOfTheRequest(c)
  BY DEF IInv, AdmissionInv
<1>2. request[c].place = "validating" => t \in Credentials
  BY DEF IInv, AdmissionInv, ServesValidated
<1>3. Sound(c) => Sound(c)'
  BY DEF Sound
<1>4. ValidatorServes(c)'
  BY <1>1, <1>2, <1>3 DEF ValidatorServes
<1>5. AnswerOfTheRequest(c)'
  <2>1. now \in Nat /\ Start \in Nat /\ now \in Start .. MaxTime
    BY FreshTypes, ClockAssumption DEF IInv, Bookkeeping, TypeOK
  <2>2. Start .. now \subseteq Start .. now'
    BY <2>1
  <2> QED
    BY <1>1, <1>3, <2>2 DEF AnswerOfTheRequest
<1> QED
  BY <1>4, <1>5

\* What the clock and Google's own steps do not change stays good.
LEMMA TimelyStays ==
  ASSUME now' = now, validUntil' = validUntil, revokedAt' = revokedAt, NEW t, Timely(t)
  PROVE  Timely(t)'
BY DEF Timely

\* A step of one request: the others are untouched, and the invariant's parts
\* of its own are given.
LEMMA RequestStep ==
  ASSUME IInv, [AdmissionNext]_allVars, NEW c \in Calls,
         config' = config, phase' = phase,
         now' = now, validUntil' = validUntil, revokedAt' = revokedAt,
         \A d \in Calls : d # c => call'[d] = call[d],
         NEW q \in Requests, request' = [request EXCEPT ![c] = q],
         q.place # "none" => phase = "serving" /\ q.credential \in Credentials,
         NEW r, response' = [response EXCEPT ![c] = r],
         ValidatorServes(c)', AnswerOfTheRequest(c)'
  PROVE  IInv'
<1>1. /\ request \in [Calls -> Requests] /\ response = [d \in Calls |-> response[d]]
      /\ phase \in {"starting", "serving", "refused"} /\ now \in Nat
  BY FreshTypes DEF IInv, AdmissionInv, AdmissionTypeOK
<1>2. /\ request'[c] = q
      /\ \A d \in Calls : d # c => request'[d] = request[d] /\ response'[d] = response[d]
  BY <1>1
<1>3. AdmissionTypeOK'
  <2>1. request' \in [Calls -> Requests]
    BY <1>1
  <2>2. response' = [d \in Calls |-> response'[d]]
    BY <1>1
  <2> QED
    BY <1>1, <2>1, <2>2 DEF AdmissionTypeOK
<1>4. ServesValidated'
  BY <1>2 DEF IInv, AdmissionInv, ServesValidated, validate, validateGatewayTrust, Allowlist
<1>5. ASSUME NEW d \in Calls PROVE ValidatorServes(d)' /\ AnswerOfTheRequest(d)'
  BY <1>1, <1>2, TimelyStays, UntouchedRequest
<1>6. Bookkeeping' /\ Freshness'
  BY StepsOfTheValidator, NextBookkeeping, NextFresh DEF IInv
<1> QED
  BY <1>3, <1>4, <1>5, <1>6 DEF IInv, AdmissionInv

\* A request arrives at a process that serves.
LEMMA ReceivesInv ==
  ASSUME IInv, [AdmissionNext]_allVars, NEW c \in Calls, Receives(c)
  PROVE  IInv'
<1>1. PICK t \in Credentials :
        request' = [request EXCEPT ![c] = [place |-> "middleware", credential |-> t]]
  BY DEF Receives
<1> DEFINE q == [place |-> "middleware", credential |-> t]
<1>2. /\ phase = "serving" /\ request[c].place # "validating"
      /\ response' = [response EXCEPT ![c] = NoResponse]
      /\ config' = config /\ phase' = phase
      /\ now' = now /\ validUntil' = validUntil /\ revokedAt' = revokedAt /\ call' = call
  BY DEF Receives, vars
<1>3. /\ request \in [Calls -> Requests] /\ response = [d \in Calls |-> response[d]]
      /\ call[c].pc = "idle"
  BY <1>2 DEF IInv, AdmissionInv, AdmissionTypeOK, ValidatorServes
<1>4. q \in Requests /\ q.place = "middleware" /\ q.credential = t
  BY DEF Requests, Places
<1> HIDE DEF q
<1>5. request'[c] = q /\ response'[c] = NoResponse
  BY <1>1, <1>2, <1>3 DEF q
<1>6. ValidatorServes(c)' /\ AnswerOfTheRequest(c)'
  BY <1>2, <1>3, <1>4, <1>5 DEF ValidatorServes, AnswerOfTheRequest
<1> QED
  BY <1>1, <1>2, <1>4, <1>6, RequestStep DEF q

\* The middleware decides at once, or hands the token to the validator.
LEMMA DecideInv ==
  ASSUME IInv, [AdmissionNext]_allVars, NEW c \in Calls, Decide(c)
  PROVE  IInv'
<1> DEFINE t == request[c].credential
<1>1. /\ request \in [Calls -> Requests] /\ response = [d \in Calls |-> response[d]]
      /\ call \in [Calls -> CallStates] /\ request[c].place = "middleware"
      /\ config' = config /\ phase' = phase /\ call[c].pc = "idle"
  BY FreshTypes DEF IInv, AdmissionInv, AdmissionTypeOK, ValidatorServes, Decide
<1>2. phase = "serving" /\ t \in Credentials
  BY <1>1 DEF IInv, AdmissionInv, ServesValidated
<1>3. request[c] = [place |-> "middleware", credential |-> t]
  BY <1>1 DEF Requests
<1>4. CASE Branch(t) # "google"
  <2> DEFINE q == [place |-> "answered", credential |-> t]
             r == Locally(t, config, now)
  <2>1. /\ request' = [request EXCEPT ![c] = q] /\ response' = [response EXCEPT ![c] = r]
        /\ UNCHANGED vars
    BY <1>1, <1>3, <1>4 DEF Decide, Respond
  <2>2. q \in Requests /\ q.place = "answered" /\ q.credential = t
    BY <1>2 DEF Requests, Places
  <2>3. now' = now /\ validUntil' = validUntil /\ revokedAt' = revokedAt /\ call' = call
    BY <2>1 DEF vars
  <2>4. now \in Start .. now
    BY ClockAssumption DEF IInv, Bookkeeping, TypeOK
  <2> HIDE DEF q, r
  <2>5. request'[c] = q /\ response'[c] = r
    BY <1>1, <2>1
  <2>6. ValidatorServes(c)'
    BY <1>1, <2>2, <2>3, <2>5 DEF ValidatorServes
  <2>7. AnswerOfTheRequest(c)'
    BY <1>1, <1>4, <2>2, <2>3, <2>4, <2>5 DEF AnswerOfTheRequest, r
  <2> QED
    BY <1>1, <1>2, <2>1, <2>2, <2>3, <2>6, <2>7, RequestStep
<1>5. CASE Branch(t) = "google"
  <2> DEFINE q == [place |-> "validating", credential |-> t]
             k == [NoCall EXCEPT !.pc = "lookup", !.token = t.token]
  <2>1. /\ request' = [request EXCEPT ![c] = q] /\ Present(c, t.token)
        /\ response' = response
    BY <1>1, <1>3, <1>5 DEF Decide
  <2>2. q \in Requests /\ q.place = "validating" /\ q.credential = t
    BY <1>2 DEF Requests, Places
  <2>3. k.pc = "lookup" /\ k.token = t.token /\ k.result = "none"
    BY DEF NoCall
  <2>4. /\ now' = now /\ validUntil' = validUntil /\ revokedAt' = revokedAt
        /\ call' = [call EXCEPT ![c] = k]
    BY <2>1 DEF Present, WorldUnchanged
  <2> HIDE DEF q, k
  <2>5. /\ request'[c] = q /\ call'[c] = k /\ \A d \in Calls : d # c => call'[d] = call[d]
        /\ response' = [response EXCEPT ![c] = response[c]]
    BY <1>1, <2>1, <2>4
  <2>6. ValidatorServes(c)'
    BY <1>5, <2>2, <2>3, <2>5 DEF ValidatorServes
  <2>7. response[c] = NoResponse
    BY <1>1 DEF IInv, AdmissionInv, AnswerOfTheRequest
  <2>8. AnswerOfTheRequest(c)'
    BY <2>1, <2>2, <2>5, <2>7 DEF AnswerOfTheRequest
  <2> QED
    BY <1>1, <1>2, <2>1, <2>2, <2>4, <2>5, <2>6, <2>8, RequestStep
<1> QED
  BY <1>4, <1>5

\* The middleware judges what the validator said of the request's token.
LEMMA JudgeInv ==
  ASSUME IInv, [AdmissionNext]_allVars, NEW c \in Calls, Judge(c)
  PROVE  IInv'
<1> DEFINE t == request[c].credential
           q == [place |-> "answered", credential |-> t]
           r == judgeToken(config, call[c].result, call[c].token)
<1>1. /\ request \in [Calls -> Requests] /\ response = [d \in Calls |-> response[d]]
      /\ request[c].place = "validating" /\ call[c].pc = "idle"
      /\ config' = config /\ phase' = phase /\ UNCHANGED vars
  BY DEF IInv, AdmissionInv, AdmissionTypeOK, Judge
<1>2. phase = "serving" /\ t \in Credentials
  BY <1>1 DEF IInv, AdmissionInv, ServesValidated
<1>3. request[c] = [place |-> "validating", credential |-> t]
  BY <1>1 DEF Requests
<1>4. request' = [request EXCEPT ![c] = q] /\ response' = [response EXCEPT ![c] = r]
  <2>1. Respond(c, r)
    BY DEF Judge
  <2> HIDE DEF r
  <2>2. response' = [response EXCEPT ![c] = r] /\ request' = [request EXCEPT ![c].place = "answered"]
    BY <2>1 DEF Respond
  <2>3. [request EXCEPT ![c].place = "answered"] = [request EXCEPT ![c] = q]
    <3>1. [request[c] EXCEPT !.place = "answered"] = q
      BY <1>3
    <3> QED
      BY <3>1, Zenon
  <2> QED
    BY <2>2, <2>3, Zenon
<1>5. q \in Requests /\ q.place = "answered" /\ q.credential = t
  BY <1>2 DEF Requests, Places
<1>6. now' = now /\ validUntil' = validUntil /\ revokedAt' = revokedAt /\ call' = call
  BY <1>1 DEF vars
<1>7. Branch(t) = "google" /\ call[c].token = t.token /\ Sound(c)
  BY <1>1 DEF IInv, AdmissionInv, ValidatorServes
<1> HIDE DEF q
<1>8. request'[c] = q /\ response'[c] = r
  BY <1>1, <1>4
<1>9. ValidatorServes(c)'
  BY <1>1, <1>5, <1>6, <1>8 DEF ValidatorServes
<1>10. AnswerOfTheRequest(c)'
  BY <1>1, <1>5, <1>6, <1>7, <1>8 DEF AnswerOfTheRequest, Sound
<1> HIDE DEF r
<1> QED
  BY <1>1, <1>2, <1>4, <1>5, <1>6, <1>9, <1>10, RequestStep

\* The validator works on a request: when it says claims, the token is ours and
\* neither revoked nor expired for longer than an answer may be in flight.
LEMMA ValidateInv ==
  ASSUME IInv, [AdmissionNext]_allVars, NEW c \in Calls,
         Validate(c) \/ GoogleAnswers(c), UNCHANGED admissionVars
  PROVE  IInv'
<1> DEFINE t == request[c].credential
<1>1. /\ request \in [Calls -> Requests] /\ response = [d \in Calls |-> response[d]]
      /\ call \in [Calls -> CallStates]
      /\ request' = request /\ response' = response /\ config' = config /\ phase' = phase
  BY FreshTypes DEF IInv, AdmissionInv, AdmissionTypeOK, admissionVars
<1>2. now' = now /\ validUntil' = validUntil /\ revokedAt' = revokedAt
  BY CallsLeaveTheWorld
<1>3. /\ call[c].pc # "idle"
      /\ \A d \in Calls : d # c => call'[d] = call[d]
      /\ call'[c].token = call[c].token
      /\ \/ call'[c].pc # "idle" /\ call'[c].result = call[c].result
         \/ call'[c].pc = "idle" /\ call'[c].result \in ValidatorResults
  BY <1>1, ValidatorStep
<1>4. /\ request[c].place = "validating" /\ Branch(t) = "google"
      /\ call[c].token = t.token /\ call[c].result = "none"
  BY <1>3 DEF IInv, AdmissionInv, ValidatorServes
<1>5. ASSUME call'[c].pc = "idle", call'[c].result = "claims"
      PROVE  t.token \notin Foreign /\ Timely(t)
  <2>1. Accepts(c)
    BY <1>4, <1>5 DEF Accepts
  <2>2. Next
    BY DEF Next
  <2>3. /\ call[c].token \notin Foreign
        /\ now < revokedAt[call[c].token] + validationTimeout + Pause + cacheMaxTTL
        /\ now < validUntil[call[c].token] + validationTimeout + Pause
    BY <2>1, <2>2, AcceptLemma DEF IInv
  <2> QED
    BY <1>4, <2>3 DEF Timely
<1>6. ValidatorServes(c)'
  <2>1. call'[c].pc = "idle" => Sound(c)' /\ (call'[c].result = "claims" => Timely(t)')
    BY <1>1, <1>2, <1>3, <1>4, <1>5, TimelyStays DEF Sound, ValidatorResults
  <2> QED
    BY <1>1, <1>3, <1>4, <2>1 DEF ValidatorServes
<1>7. AnswerOfTheRequest(c)'
  BY <1>1, <1>4 DEF IInv, AdmissionInv, AnswerOfTheRequest
<1>8. /\ request[c] \in Requests /\ request' = [request EXCEPT ![c] = request[c]]
      /\ response' = [response EXCEPT ![c] = response[c]]
  BY <1>1
<1>9. phase = "serving" /\ t \in Credentials
  BY <1>4 DEF IInv, AdmissionInv, ServesValidated
<1> QED
  BY <1>1, <1>2, <1>3, <1>6, <1>7, <1>8, <1>9, RequestStep

\* Time passes and grants are revoked: no result waits while the clock moves,
\* and a grant that is revoked now has its tail before it.
LEMMA WorldInv ==
  ASSUME IInv, [AdmissionNext]_allVars,
         (Prompt /\ Tick) \/ \E u \in Tokens : Revoke(u), UNCHANGED admissionVars
  PROVE  IInv'
<1>1. /\ request' = request /\ response' = response /\ config' = config /\ phase' = phase
      /\ call' = call
  BY DEF admissionVars, Tick, Revoke
<1>2. /\ now \in Nat /\ now' \in Nat /\ now <= now'
  BY FreshTypes DEF IInv, Tick, Revoke
<1>3. ASSUME NEW c \in Calls, NEW t \in Credentials, Branch(t) = "google", Timely(t),
             request[c].place = "validating", call[c].pc = "idle"
      PROVE  Timely(t)'
  <2>1. PICK u \in Tokens : Revoke(u)
    BY <1>3 DEF Prompt
  <2>2. /\ t.token \in Tokens /\ revokedAt \in [Tokens -> Start .. Never]
        /\ validationTimeout \in Nat /\ Pause \in Nat /\ cacheMaxTTL \in Nat /\ cacheMaxTTL > 0
    BY <1>3, FreshTypes, CredentialsAssumption DEF IInv, Bookkeeping, TypeOK
  <2>3. /\ now' = now /\ validUntil' = validUntil
        /\ revokedAt'[t.token] = revokedAt[t.token] \/ revokedAt'[t.token] = now
    BY <2>1, <2>2 DEF Revoke
  <2>4. /\ now < revokedAt[t.token] + validationTimeout + Pause + cacheMaxTTL
        /\ now < validUntil[t.token] + validationTimeout + Pause
    BY <1>3 DEF Timely
  <2>5. now < now + validationTimeout + Pause + cacheMaxTTL
    BY <1>2, <2>2
  <2>6. now < revokedAt'[t.token] + validationTimeout + Pause + cacheMaxTTL
    BY <2>3, <2>4, <2>5
  <2> QED
    BY <1>3, <2>3, <2>4, <2>6 DEF Timely
<1>4. \A c \in Calls : ValidatorServes(c)' /\ AnswerOfTheRequest(c)'
  BY <1>1, <1>2, <1>3, UntouchedRequest
<1>5. AdmissionTypeOK' /\ ServesValidated'
  BY <1>1 DEF IInv, AdmissionInv, AdmissionTypeOK, ServesValidated, validate,
              validateGatewayTrust, Allowlist
<1>6. Bookkeeping' /\ Freshness'
  BY StepsOfTheValidator, NextBookkeeping, NextFresh DEF IInv
<1> QED
  BY <1>4, <1>5, <1>6 DEF IInv, AdmissionInv

\* The process loads its configuration, and serves if it is valid.
LEMMA LoadInv ==
  ASSUME IInv, [AdmissionNext]_allVars, Load
  PROVE  IInv'
<1>1. /\ request' = request /\ response' = response /\ config' = config
      /\ phase = "starting" /\ phase' = IF validate(config) THEN "serving" ELSE "refused"
      /\ UNCHANGED vars
  BY DEF Load
<1>2. call' = call /\ now' = now /\ validUntil' = validUntil /\ revokedAt' = revokedAt
  BY <1>1 DEF vars
<1>3. now \in Nat
  BY FreshTypes DEF IInv
<1>4. \A c \in Calls : ValidatorServes(c)' /\ AnswerOfTheRequest(c)'
  BY <1>1, <1>2, <1>3, TimelyStays, UntouchedRequest
<1>5. validate(config)' = validate(config)
  BY <1>1 DEF validate, validateGatewayTrust, Allowlist
<1>6. AdmissionTypeOK' /\ ServesValidated'
  BY <1>1, <1>5 DEF IInv, AdmissionInv, AdmissionTypeOK, ServesValidated
<1>7. Bookkeeping' /\ Freshness'
  BY StepsOfTheValidator, NextBookkeeping, NextFresh DEF IInv
<1> QED
  BY <1>4, <1>6, <1>7 DEF IInv, AdmissionInv

LEMMA NextInv == IInv /\ [AdmissionNext]_allVars => IInv'
<1> SUFFICES ASSUME IInv, [AdmissionNext]_allVars PROVE IInv'
  OBVIOUS
<1>1. CASE Load
  BY <1>1, LoadInv
<1>2. ASSUME NEW c \in Calls, Receives(c) PROVE IInv'
  BY <1>2, ReceivesInv
<1>3. ASSUME NEW c \in Calls, Decide(c) PROVE IInv'
  BY <1>3, DecideInv
<1>4. ASSUME NEW c \in Calls, Judge(c) PROVE IInv'
  BY <1>4, JudgeInv
<1>5. ASSUME NEW c \in Calls, Validate(c) \/ GoogleAnswers(c), UNCHANGED admissionVars
      PROVE  IInv'
  BY <1>5, ValidateInv
<1>6. CASE ((Prompt /\ Tick) \/ \E u \in Tokens : Revoke(u)) /\ UNCHANGED admissionVars
  BY <1>6, WorldInv
<1>7. CASE Refused \/ UNCHANGED allVars
  <2>1. UNCHANGED allVars
    BY <1>7 DEF Refused
  <2> QED
    BY <2>1 DEF allVars, vars, IInv, Bookkeeping, TypeOK, SlotsAccounted, Holders,
      IndexMatchesList, Freshness, CallFresh, EntryFresh, AdmissionInv, AdmissionTypeOK,
      ServesValidated, ValidatorServes, AnswerOfTheRequest, Sound, Timely, validate,
      validateGatewayTrust, Allowlist
<1> QED
  BY <1>1, <1>2, <1>3, <1>4, <1>5, <1>6, <1>7 DEF AdmissionNext

-----------------------------------------------------------------------------
(* What the middleware promises *)

\* To the validator the middleware is a caller like any other: every behaviour
\* of the two is one that TokenValidator's specification allows
\* (middleware.go:219, v.validate).
THEOREM ValidatorIsUnchanged == AdmissionSpec => Spec
<1>1. AdmissionInit => Init
  BY DEF AdmissionInit
<1>2. IInv => AdmissionInv
  BY DEF IInv
<1> QED
  BY <1>1, <1>2, InitInv, NextInv, StepsOfTheValidator, PTL DEF AdmissionSpec, Spec

\* Whoever reaches a tool does so on a credential that somebody vouched for and
\* that has not ended, over all three branches of the middleware
\* (middleware.go:126-268, assertion.go:127-170).
LEMMA AdmitsGrounded ==
  ASSUME IInv, [AdmissionNext]_allVars, NEW c \in Calls, Admits(c)
  PROVE  LET t == request[c].credential IN Vouched(t, config) /\ Timely(t)
<1> DEFINE t == request[c].credential
<1>1. /\ response = [d \in Calls |-> response[d]] /\ response'[c] # response[c]
      /\ response'[c].status = 200
  BY DEF Admits, IInv, AdmissionInv, AdmissionTypeOK
<1>2. ~(UNCHANGED allVars) /\ ~Load /\ ~Refused /\ ~(UNCHANGED admissionVars)
  BY <1>1 DEF allVars, admissionVars, Load, Refused
<1>3. PICK d \in Calls : Receives(d) \/ Decide(d) \/ Judge(d)
  BY <1>2 DEF AdmissionNext
<1>4. ~Receives(d)
  BY <1>1 DEF Receives, NoResponse, Response
<1>5. PICK r : response' = [response EXCEPT ![d] = r]
  BY <1>1, <1>3, <1>4 DEF Decide, Judge, Respond
<1>6. d = c
  BY <1>1, <1>5
<1>7. CASE Decide(c)
  <2>1. request[c].place = "middleware" /\ Branch(t) # "google" /\ Respond(c, Locally(t, config, now))
    BY <1>1, <1>7 DEF Decide
  <2>2. t \in Credentials /\ validate(config)
    BY <2>1 DEF IInv, AdmissionInv, ServesValidated
  <2>3. now \in Nat
    BY FreshTypes DEF IInv
  <2>4. Locally(t, config, now).status = 200
    BY <1>1, <2>1 DEF Respond
  <2> QED
    BY <2>1, <2>2, <2>3, <2>4, LocallyGrounded
<1>8. CASE Judge(c)
  <2>1. /\ request[c].place = "validating" /\ call[c].pc = "idle"
        /\ Respond(c, judgeToken(config, call[c].result, call[c].token))
    BY <1>8 DEF Judge
  <2>2. /\ Branch(t) = "google" /\ call[c].token = t.token /\ Sound(c)
        /\ call[c].result = "claims" => Timely(t)
    BY <2>1 DEF IInv, AdmissionInv, ValidatorServes
  <2>3. judgeToken(config, call[c].result, t.token).status = 200
    BY <1>1, <2>1, <2>2 DEF Respond
  <2>4. call[c].result = "claims" /\ judge(Claims[t.token], config).status = 200
    BY <2>2, <2>3, StatusLemma DEF judgeToken, Sound
  <2> QED
    BY <2>2, <2>4, JudgeLemma DEF Vouched, Sound
<1> QED
  BY <1>3, <1>4, <1>6, <1>7, <1>8

\* Whoever reaches a tool does so on a credential that somebody vouched for and
\* that has not ended (middleware.go:126-268, assertion.go:127-170).
THEOREM AdmissionsAreGrounded == AdmissionSpec => AdmissionIsGrounded
<1>1. IInv /\ [AdmissionNext]_allVars =>
        [\A c \in Calls : Admits(c) =>
           LET t == request[c].credential IN Vouched(t, config) /\ Timely(t)]_allVars
  BY AdmitsGrounded
<1> QED
  BY <1>1, InitInv, NextInv, PTL DEF AdmissionSpec, AdmissionIsGrounded

\* A step that answers a request with a 401 challenges it exactly when it is
\* final, or refuses an assertion whose iat is ahead of that very instant.
LEMMA RefusesFinally ==
  ASSUME IInv, [AdmissionNext]_allVars, NEW c \in Calls, Refuses(c)
  PROVE  response'[c].challenged <=>
           \/ Final(c)
           \/ DatedAhead(request[c].credential, now) /\ config.gatewayKey # Empty
<1> DEFINE t == request[c].credential
<1>1. /\ response = [d \in Calls |-> response[d]] /\ response'[c] # response[c]
      /\ response'[c].status = 401
  BY DEF Refuses, IInv, AdmissionInv, AdmissionTypeOK
<1>2. ~(UNCHANGED allVars) /\ ~Load /\ ~Refused /\ ~(UNCHANGED admissionVars)
  BY <1>1 DEF allVars, admissionVars, Load, Refused
<1>3. PICK d \in Calls : Receives(d) \/ Decide(d) \/ Judge(d)
  BY <1>2 DEF AdmissionNext
<1>4. ~Receives(d)
  BY <1>1 DEF Receives, NoResponse, Response
<1>5. PICK r : response' = [response EXCEPT ![d] = r]
  BY <1>1, <1>3, <1>4 DEF Decide, Judge, Respond
<1>6. d = c
  BY <1>1, <1>5
<1>7. CASE Decide(c)
  <2>1. /\ request[c].place = "middleware" /\ Branch(t) # "google"
        /\ response'[c] = Locally(t, config, now)
    BY <1>1, <1>7 DEF Decide, Respond
  <2>2. t \in Credentials
    BY <2>1 DEF IInv, AdmissionInv, ServesValidated
  <2>3. now \in Nat /\ MaxTime \in Nat
    BY FreshTypes, ClockAssumption DEF IInv
  <2>4. PICK class : /\ Locally(t, config, now) = unauthorized(class)
                     /\ class \in CredentialFaults <=>
                          ~(Branch(t) = "gateway" /\ config.gatewayKey = Empty)
    BY <1>1, <2>1, <2>2, <2>3, LocallyFinal
  <2>5. ~DatedAhead(t, now) =>
          \A later \in now .. MaxTime + maxLifetime : Locally(t, config, later).status # 200
    BY <1>1, <2>1, <2>2, <2>3, LocallyFinal, Numbers
  <2>6. CASE Branch(t) = "gateway" /\ config.gatewayKey = Empty
    BY <2>1, <2>4, <2>6, ChallengeLemma DEF Final
  <2>7. CASE ~(Branch(t) = "gateway" /\ config.gatewayKey = Empty)
    <3>1. response'[c].challenged = TRUE
      BY <2>1, <2>4, <2>7, ChallengeLemma
    <3>2. Final(c) \/ DatedAhead(t, now)
      BY <2>1, <2>5, <2>7 DEF Final
    <3>3. DatedAhead(t, now) => config.gatewayKey # Empty
      BY <2>7 DEF DatedAhead
    <3> QED
      BY <3>1, <3>2, <3>3
  <2> QED
    BY <2>6, <2>7
<1>8. CASE Judge(c)
  <2>1. /\ request[c].place = "validating" /\ call[c].pc = "idle"
        /\ response'[c] = judgeToken(config, call[c].result, call[c].token)
    BY <1>1, <1>8 DEF Judge, Respond
  <2>2. Branch(t) = "google" /\ Sound(c)
    BY <2>1 DEF IInv, AdmissionInv, ValidatorServes
  <2>3. (Final(c) <=> call[c].result = "errTokenRejected") /\ ~DatedAhead(t, now)
    BY <2>2 DEF Final, DatedAhead
  <2>4. CASE call[c].result = "errTokenRejected"
    <3>1. response'[c] = unauthorized("token_rejected") /\ "token_rejected" \in CredentialFaults
      BY <2>1, <2>4 DEF judgeToken, CredentialFaults
    <3> QED
      BY <2>3, <2>4, <3>1, ChallengeLemma
  <2>5. CASE call[c].result = "errValidationUnavailable"
    <3>1. /\ response'[c] = unauthorized("validation_unavailable")
          /\ "validation_unavailable" \notin CredentialFaults
      BY <2>1, <2>5 DEF judgeToken, CredentialFaults
    <3> QED
      BY <2>3, <2>5, <3>1, ChallengeLemma
  <2>6. call[c].result # "claims"
    BY <1>1, <2>1, JudgeLemma DEF judgeToken
  <2> QED
    BY <2>2, <2>4, <2>5, <2>6 DEF Sound
<1> QED
  BY <1>3, <1>4, <1>6, <1>7, <1>8

\* A 401 is challenged exactly when no later instant and no recovery of Google
\* would admit the same credential, an assertion of a trusted gateway that is
\* dated ahead of the instant of its refusal apart (middleware.go:342-363,
\* challengesTheCredential).
THEOREM ChallengesAreFinal == AdmissionSpec => ChallengeIsFinal
<1>1. IInv /\ [AdmissionNext]_allVars =>
        [\A c \in Calls :
           Refuses(c) =>
             (response'[c].challenged <=>
                \/ Final(c)
                \/ DatedAhead(request[c].credential, now) /\ config.gatewayKey # Empty)]_allVars
  BY RefusesFinally
<1> QED
  BY <1>1, InitInv, NextInv, PTL DEF AdmissionSpec, ChallengeIsFinal

\* The class of a 403 tells the operator what to do about the caller: add the
\* address, have it verified, or neither (middleware.go:233-254, refusalMessage).
THEOREM RefusalsNameTheRemedy == AdmissionSpec => []RefusalNamesTheRemedy
<1>1. ASSUME IInv, NEW c \in Calls, response[c].status = 403
      PROVE  LET t == request[c].credential
                 caller == IF t.header = "sealed" THEN t ELSE Claims[t.token]
                 address == caller.email.address
                 class == response[c].class
             IN /\ (class = "identity_not_allowlisted") <=>
                     (caller.subject # Empty /\ address \notin Allowlist(config) \cup {Blank})
                /\ class = "email_unverified" => address \in Allowlist(config) /\ ~caller.verified
  <2> DEFINE t == request[c].credential
  <2>1. request[c].place = "answered" /\ t \in Credentials /\ AnswerOfTheRequest(c)
    BY <1>1 DEF IInv, AdmissionInv, AnswerOfTheRequest, NoResponse, Response, ServesValidated
  <2>2. CASE Branch(t) = "google"
    <3>1. /\ Sound(c) /\ call[c].token = t.token
          /\ response[c] = judgeToken(config, call[c].result, t.token)
      BY <2>1, <2>2 DEF AnswerOfTheRequest
    <3>2. call[c].result = "claims" /\ response[c] = judge(Claims[t.token], config)
      BY <1>1, <3>1, StatusLemma DEF judgeToken, Sound
    <3>3. t.token \in Tokens \ Foreign
      BY <2>1, <2>2, <3>1, <3>2, CredentialsAssumption DEF Sound
    <3>4. Claims[t.token].subject # Empty /\ t.header # "sealed"
      BY <2>2, <3>3, ClaimsAssumption DEF Branch
    <3> QED
      BY <3>2, <3>4, JudgeLemma
  <2>3. CASE Branch(t) # "google"
    <3>1. PICK instant \in Start .. now : response[c] = Locally(t, config, instant)
      BY <2>1, <2>3 DEF AnswerOfTheRequest
    <3>2. Branch(t) = "sealed" /\ response[c] = judgeSealed(t, config, instant)
      BY <1>1, <2>3, <3>1, LocallyForbidden
    <3>3. t.header = "sealed"
      BY <3>2 DEF Branch
    <3> QED
      BY <1>1, <3>2, <3>3, SealedRemedy
  <2> QED
    BY <2>2, <2>3
<1>2. IInv => RefusalNamesTheRemedy
  BY <1>1 DEF RefusalNamesTheRemedy
<1> QED
  BY <1>2, InitInv, NextInv, PTL DEF AdmissionSpec

=============================================================================
