------------------------------ MODULE Admission ------------------------------
(* The admission middleware (internal/auth/middleware.go, assertion.go,         *)
(* identity.go, config.go) in front of the token validator. A request carries   *)
(* one credential: a sealed one of this server, an assertion of the gateway, or *)
(* a token that only Google can judge. A process that could not validate its    *)
(* configuration never serves.                                                  *)
EXTENDS TokenValidator

CONSTANTS
  Configs,      \* the configurations a process may be started with
  Credentials,  \* the Authorization headers a client may send
  Claims,       \* [Tokens -> claims]: what Google says of each token
  Blank,        \* the address that is empty once trimmed
  Malformed,    \* addresses that isAddress refuses
  maxLifetime, clockSkew, \* of an assertion
  Limit,        \* the first integer an int64 does not hold, scaled down
  UnixToInternal \* the offset that time.Unix adds to its seconds, in 64 bits

ASSUME AdmissionAssumption ==
  /\ {maxLifetime, clockSkew, UnixToInternal} \subseteq Nat
  /\ Limit \in Nat \ {0}

VARIABLES
  config,   \* the configuration of the process
  phase,    \* starting, serving, or refused to start
  request,  \* [Calls -> the request: where it is and its credential]
  response  \* [Calls -> what it was answered]

admissionVars == <<config, phase, request, response>>
allVars == <<vars, config, phase, request, response>>

\* A configuration variable that is not set, a claim that is not there.
Empty == ""

NoIdentity == [subject |-> Empty, email |-> Empty]
Nothing == [place |-> "none", credential |-> [header |-> "absent"]]
Response(status, class, challenged, identity) ==
  [status |-> status, class |-> class, challenged |-> challenged, identity |-> identity]
NoResponse == Response(0, "none", FALSE, NoIdentity)

-----------------------------------------------------------------------------
(* Configuration. An address is its trimmed lower-case form and how it was      *)
(* written; two spellings of one address match.                                 *)
normaliseEmail(e) == e.address
Allowlist(c) == {normaliseEmail(e) : e \in c.allowedEmails} \ {Blank}
isAddress(a) == a \notin Malformed
validateGatewayTrust(c) ==
  \/ c.gatewayKey = Empty /\ c.gatewayAudience = Empty
  \/ c.gatewayKey = "key" /\ c.gatewayAudience \notin {Empty, "spaced"}
validate(c) ==
  /\ c.clientID \notin {Empty, "spaced"}
  /\ Allowlist(c) # {}
  /\ \A a \in Allowlist(c) : isAddress(a)
  /\ c.sealingSecret = "secret"
  /\ validateGatewayTrust(c)

-----------------------------------------------------------------------------
(* Assertions. A token is split at its dots; header is how its first segment    *)
(* decodes: not to an object (opaque), to an object that does not parse         *)
(* (broken), to one only after "=" is trimmed (padded), or to an object.        *)
isUnreadableAssertion(t) ==
  /\ t.segments = 3 /\ t.header # "opaque"
  /\ t.header = "broken" \/ t.typ = "notstring"

isGatewayAssertion(t) == t.header \in {"padded", "object"} /\ t.typ \in {"exact", "family"}

\* Integers from -Limit up to Limit.
Wrap(n) == ((n + Limit) % (2 * Limit)) - Limit
Unix(sec) == Wrap(sec + UnixToInternal)
After(sec, instant) == Unix(sec) > instant + UnixToInternal

\* Mutant: the lifetime is not looked at.
verifyAnyLifetime(t, c, instant) ==
  IF t.segments # 3 \/ t.header # "object" \/ t.typ # "exact" \/ ~t.keyed \/ ~t.signed \/ ~t.claims \/ ~t.ours THEN "assertion_rejected"
  ELSE IF t.aud # c.gatewayAudience THEN "assertion_wrong_audience"
  ELSE IF t.subject = Empty \/ t.email = Empty \/ t.iat <= 0 \/ After(t.iat, instant + clockSkew) THEN "assertion_rejected"
  ELSE IF ~After(t.exp, instant) THEN "assertion_expired"
  ELSE "ok"

\* assertionVerifier.verify: keyed: alg and kid; ours: the issuer.
verify(t, c, instant) ==
  IF t.segments # 3 \/ t.header # "object" \/ t.typ # "exact" THEN "assertion_rejected"
  ELSE IF ~t.keyed \/ ~t.signed \/ ~t.claims \/ ~t.ours THEN "assertion_rejected"
  ELSE IF t.aud # c.gatewayAudience THEN "assertion_wrong_audience"
  ELSE IF t.subject = Empty \/ t.email = Empty THEN "assertion_rejected"
  ELSE IF t.iat <= 0 \/ Wrap(t.exp - t.iat) > maxLifetime THEN "assertion_rejected"
  ELSE IF After(t.iat, instant + clockSkew) THEN "assertion_rejected"
  ELSE IF ~After(t.exp, instant) THEN "assertion_expired"
  ELSE "ok"

-----------------------------------------------------------------------------
(* The decision.                                                                *)
CredentialFaults ==
  {"absent_header", "repeated_header", "malformed_header", "token_rejected",
   "sealed_expired", "sealed_corrupt", "sealed_wrong_purpose",
   "assertion_rejected", "assertion_wrong_audience", "assertion_expired"}
\* Mutant: a validation that could not be made is challenged too.
challengesEvery401(class) == class \in CredentialFaults \cup {"validation_unavailable"}
challengesTheCredential(class) == class \in CredentialFaults

unauthorized(class) == Response(401, class, challengesTheCredential(class), NoIdentity)
forbidden(class) == Response(403, class, FALSE, NoIdentity)
admit(caller) == Response(200, "none", FALSE, [subject |-> caller.subject, email |-> caller.email.address])

\* Mutant: verification is asked before membership.
judgeVerifiedFirst(caller, c) ==
  IF normaliseEmail(caller.email) = Blank THEN forbidden("no_email_in_token")
  ELSE IF ~caller.verified THEN forbidden("email_unverified")
  ELSE IF normaliseEmail(caller.email) \notin Allowlist(c) THEN forbidden("identity_not_allowlisted")
  ELSE admit(caller)

\* Who is behind a credential that is good: an address, on the list, verified.
judge(caller, c) ==
  IF normaliseEmail(caller.email) = Blank THEN forbidden("no_email_in_token")
  ELSE IF normaliseEmail(caller.email) \notin Allowlist(c) THEN forbidden("identity_not_allowlisted")
  ELSE IF ~caller.verified THEN forbidden("email_unverified")
  ELSE admit(caller)

\* A sealed credential opens only under its secret (corrupt) and for its purpose.
judgeSealed(s, c, instant) ==
  IF s.opens = "purpose" THEN unauthorized("sealed_wrong_purpose")
  ELSE IF s.opens # "access" THEN unauthorized("sealed_corrupt")
  ELSE IF s.expiresAt <= instant THEN unauthorized("sealed_expired")
  ELSE IF s.subject = Empty THEN forbidden("no_email_in_token")
  ELSE judge(s, c)

judgeAssertion(t, c, instant) ==
  IF c.gatewayKey = Empty THEN unauthorized("no_gateway_trust")
  ELSE LET class == verify(t, c, instant)
       IN IF class = "ok" THEN Response(200, "none", FALSE, [subject |-> t.subject, email |-> t.email]) ELSE unauthorized(class)

\* bearerToken, and which branch decides; "google" leaves it to the validator.
HeaderFault ==
  [absent |-> "absent_header", repeated |-> "repeated_header", malformed |-> "malformed_header"]

Branch(t) ==
  IF t.header \in DOMAIN HeaderFault THEN "header"
  ELSE IF t.header = "sealed" THEN "sealed"
  ELSE IF isUnreadableAssertion(t) THEN "unreadable"
  ELSE IF isGatewayAssertion(t) THEN "gateway"
  ELSE "google"

(* A sealed credential carries an instant, an assertion two int64, and a token that *)
(* only Google can judge is one of Tokens.                                      *)
ASSUME CredentialsAssumption ==
  \A t \in Credentials :
    /\ Branch(t) = "sealed" => t.expiresAt \in Int
    /\ Branch(t) = "gateway" => {t.iat, t.exp} \subseteq -Limit .. Limit - 1
    /\ Branch(t) = "google" => t.token \in Tokens

\* Google issues no token of this client to nobody.
ASSUME ClaimsAssumption == \A t \in Tokens \ Foreign : Claims[t].subject # Empty

Locally(t, c, instant) ==
  IF Branch(t) = "header" THEN unauthorized(HeaderFault[t.header])
  ELSE IF Branch(t) = "sealed" THEN judgeSealed(t, c, instant)
  ELSE IF Branch(t) = "gateway" THEN judgeAssertion(t, c, instant)
  ELSE unauthorized("assertion_rejected")

judgeToken(c, result, token) ==
  IF result = "claims" THEN judge(Claims[token], c)
  ELSE IF result = "errTokenRejected" THEN unauthorized("token_rejected")
  ELSE unauthorized("validation_unavailable")

-----------------------------------------------------------------------------
AdmissionInit ==
  /\ Init
  /\ config \in Configs
  /\ phase = "starting"
  /\ request = [c \in Calls |-> Nothing]
  /\ response = [c \in Calls |-> NoResponse]

\* NewMiddleware, at start.
Load ==
  /\ phase = "starting"
  /\ phase' = IF validate(config) THEN "serving" ELSE "refused"
  /\ UNCHANGED <<vars, config, request, response>>

Receives(c) ==
  /\ phase = "serving" /\ request[c].place \in {"none", "answered"}
  /\ \E t \in Credentials : request' = [request EXCEPT ![c] = [place |-> "middleware", credential |-> t]]
  /\ response' = [response EXCEPT ![c] = NoResponse]
  /\ UNCHANGED <<vars, config, phase>>

Respond(c, r) ==
  /\ request' = [request EXCEPT ![c].place = "answered"]
  /\ response' = [response EXCEPT ![c] = r]

\* The handler up to v.validate.
Decide(c) ==
  /\ request[c].place = "middleware"
  /\ LET t == request[c].credential
     IN IF Branch(t) # "google"
        THEN /\ Respond(c, Locally(t, config, now))
             /\ UNCHANGED vars
        ELSE /\ request' = [request EXCEPT ![c].place = "validating"]
             /\ Present(c, t.token)
             /\ UNCHANGED response
  /\ UNCHANGED <<config, phase>>

\* The handler after v.validate has returned.
Judge(c) ==
  /\ request[c].place = "validating" /\ call[c].pc = "idle"
  /\ Respond(c, judgeToken(config, call[c].result, call[c].token))
  /\ UNCHANGED <<vars, config, phase>>

\* The clock waits for a handler that has the validator's result in its hands.
Prompt == \A c \in Calls : request[c].place = "validating" => call[c].pc # "idle"

\* A process that did not start has ended.
Refused == phase = "refused" /\ UNCHANGED allVars

AdmissionNext ==
  \/ Load \/ Refused
  \/ \E c \in Calls : Receives(c) \/ Decide(c) \/ Judge(c)
  \/ /\ \/ \E c \in Calls : Validate(c) \/ GoogleAnswers(c)
        \/ phase = "serving" /\ ((Prompt /\ Tick) \/ \E t \in Tokens : Revoke(t))
     /\ UNCHANGED admissionVars

AdmissionSpec == AdmissionInit /\ [][AdmissionNext]_allVars

-----------------------------------------------------------------------------
(* The step in which the middleware passes a request on to a tool.              *)
Admits(c) == response[c].status # 200 /\ response'[c].status = 200

\* An assertion issued so late that time.Unix wraps reads as one issued in the
\* past: the checks of iat and of the lifetime then hold of any expiry.
IssuedInRange(t) == t.iat + UnixToInternal < Limit

\* What an admission may rest on: this server's or Google's word for a verified
\* address of the list, or the gateway's word alone if the gateway is trusted.
Vouched(t, c) ==
  IF Branch(t) = "sealed"
    THEN t.opens = "access" /\ t.verified /\ t.email.address \in Allowlist(c)
  ELSE IF Branch(t) = "gateway"
    THEN t.signed /\ t.ours /\ c.gatewayAudience # Empty /\ t.aud = c.gatewayAudience /\ t.subject # Empty
  ELSE Claims[t.token].verified /\ Claims[t.token].email.address \in Allowlist(c) /\ t.token \notin Foreign

\* Until when it may: strictly before the credential's own end, or at the latest
\* one cached answer after Google's revocation or expiry of a token.
Timely(t) ==
  IF Branch(t) = "sealed" THEN now < t.expiresAt
  ELSE IF Branch(t) = "gateway"
    THEN /\ now < t.exp
         /\ IssuedInRange(t) => t.iat <= now + clockSkew /\ t.exp - t.iat <= maxLifetime
  ELSE /\ now < revokedAt[t.token] + validationTimeout + Pause + cacheMaxTTL
       /\ now < validUntil[t.token] + validationTimeout + Pause

(* Whoever reaches a tool does so on a credential that somebody vouched for and *)
(* that has not ended, over all three branches, the cache of the validator and  *)
(* the wrapping arithmetic of an assertion's times included (middleware.go:126- *)
(* 268, assertion.go:127-170).                                                  *)
AdmissionIsGrounded ==
  [][\A c \in Calls : Admits(c) => LET t == request[c].credential IN Vouched(t, config) /\ Timely(t)]_allVars

(* A 401 is challenged exactly when, at the instant it is judged, it is final:  *)
(* no later instant and no recovery of Google would admit the same credential   *)
(* under this configuration. The one exception the code makes is an assertion   *)
(* of a trusted gateway whose iat is still ahead of the clock by more than the  *)
(* skew: it is challenged although it will be good. A challenge on anything     *)
(* else would make every client log in again (middleware.go:342-363,            *)
(* challengesTheCredential). Of a token the verdict of the validator is taken:  *)
(* what that says of Google's answer is EveryCallIsDecided and Freshness.       *)
Refuses(c) == response[c].status # 401 /\ response'[c].status = 401
Final(c) ==
  LET t == request[c].credential
  IN IF Branch(t) = "google" THEN call[c].result = "errTokenRejected"
     ELSE /\ \A instant \in now .. MaxTime + maxLifetime : Locally(t, config, instant).status # 200
          /\ Branch(t) = "gateway" => config.gatewayKey # Empty
DatedAhead(t, instant) == Branch(t) = "gateway" /\ t.iat > instant + clockSkew
ChallengeIsFinal ==
  [][\A c \in Calls :
       Refuses(c) =>
         (response'[c].challenged <=>
            \/ Final(c)
            \/ DatedAhead(request[c].credential, now) /\ config.gatewayKey # Empty)]_allVars

(* The class of a 403 tells the operator what to do: an address that is said to *)
(* be missing from the list is one, and is missing; only a listed address is    *)
(* called unverified; and a caller with no subject or no address is never told  *)
(* to be added (middleware.go:233-254, refusalMessage).                         *)
RefusalNamesTheRemedy ==
  \A c \in Calls :
    response[c].status = 403 =>
      LET t == request[c].credential
          caller == IF t.header = "sealed" THEN t ELSE Claims[t.token]
          address == caller.email.address
          class == response[c].class
      IN /\ (class = "identity_not_allowlisted") <=> (caller.subject # Empty /\ address \notin Allowlist(config) \cup {Blank})
         /\ class = "email_unverified" => address \in Allowlist(config) /\ ~caller.verified
=============================================================================
