------------------------------ MODULE AuthFlow ------------------------------
(***************************************************************************)
(* internal/authflow (exchange.go, token.go, flow.go) with the sealing of  *)
(* internal/auth: the authorization server in front of Google.  A flow is  *)
(* one accepted request to /authorize: it stands for the state parameter   *)
(* sealed for it, for the server's PKCE verifier inside that state, and    *)
(* for the client's own verifier, which only that client holds.            *)
(*                                                                         *)
(* The server stores nothing: what it issued is in its clients' hands, any *)
(* of it may be presented at any endpoint any number of times, and only    *)
(* the sealing secret and the deployment's configuration decide what it is *)
(* worth.  Handlers run concurrently and wait twice on Google.             *)
(***************************************************************************)
EXTENDS Integers, FiniteSets

CONSTANTS
  Flows,      \* requests to /authorize
  Users,      \* Google accounts, each with the address of the same name
  URIs,       \* client redirect URIs
  Configs,    \* the deployment's possible configurations
  Requests,   \* handlers that may run at the same time
  NoFlow,     \* a callback that carries no Google code
  NoUser,     \* nobody has consented
  codeLifetime,
  accessLifetime,
  exchangeTimeout,
  MaxRotations,  \* bound: how often Google replaces one refresh token
  MaxSecret,     \* bound: how often the operator replaces the sealing secret
  MaxTime        \* bound: the last instant of the clock

ASSUME NamesAssumption == Flows # {} /\ NoFlow \notin Flows /\ NoUser \notin Users
ASSUME ConfigsAssumption ==
  Configs \subseteq [allowed : SUBSET Users, registry : SUBSET URIs]
ASSUME NumbersAssumption ==
  /\ codeLifetime \in Nat /\ accessLifetime \in Nat /\ exchangeTimeout \in Nat
  /\ MaxRotations \in Nat /\ MaxSecret \in Nat /\ MaxTime \in Nat

VARIABLES
  now,        \* the clock
  config,     \* the allowlist and the client registry of the running process
  secret,     \* its sealing secret
  state,      \* the state parameter sealed for each flow
  codes,      \* the authorization codes this server has sealed
  refreshes,  \* the refresh credentials it has sealed
  accesses,   \* the access credentials it has sealed
  req,        \* the handlers
  google,     \* Google's record of each flow: the code and the refresh token
  lostAt,     \* when each account was revoked or its address lost verification
  stranded    \* grants whose current refresh token was lost, and how

server == <<config, secret>>
sealed == <<codes, refreshes, accesses>>
vars == <<now, config, secret, state, codes, refreshes, accesses, req, google,
          lostAt, stranded>>

Never == MaxTime + 1

\* How the only copy of a grant's refresh token can be lost: Google's answer to
\* the exchange or to a renewal never arrived, the identity could not be learned
\* once it had, the user was refused, or the process ended.
Losses == {"answer lost", "identity failed", "refused", "stopped"}

\* What Google knows of a flow: who consented, whether the authorization code
\* was redeemed, and which refresh token of the grant is the live one.
Grants == [user : Users \cup {NoUser}, spent : BOOLEAN, serial : Nat]
Upstreams == [grant : Flows, serial : Nat]

\* The sealed values: the fields of the Go structs, the secret they are sealed
\* under, and two facts of their history: when Google vouched for the identity,
\* and whose PKCE verifier obtained the session.
States == [uri : URIs, key : Nat, started : BOOLEAN]
Codes == [key : Nat, upstream : Upstreams, user : Users, verified : BOOLEAN,
          challenge : Flows, expiresAt : Nat, vouched : Nat]
RefreshCredentials == [key : Nat, upstream : Upstreams, holder : Flows]
AccessCredentials ==
  [key : Nat, user : Users, verified : BOOLEAN, expiresAt : Nat,
   vouched : Nat, holder : Flows, by : {"authorization_code", "refresh_token"}]

PCs == {"idle", "exchanging", "renewing", "identifying", "identified"}
Answers == {"none", "redirected", "issued", "invalid response", "exchange failed",
            "identity failed", "forbidden", "invalid_grant", "unavailable"}

\* A handler: where it is, until when the call to Google may take, the flow of
\* the opened state or of the renewed session, Google's refresh token, the one
\* it presented, the identity Google returned, and the last answer.
Handlers ==
  [pc : PCs, renewal : BOOLEAN, until : Nat, flow : Flows,
   upstream : Upstreams, presented : Upstreams, verified : BOOLEAN,
   vouched : Nat, answer : Answers]

AnyFlow == CHOOSE f \in Flows : TRUE
NoUpstream == [grant |-> AnyFlow, serial |-> 0]
NoHandler ==
  [pc |-> "idle", renewal |-> FALSE, until |-> 0, flow |-> AnyFlow,
   upstream |-> NoUpstream, presented |-> NoUpstream, verified |-> FALSE,
   vouched |-> 0, answer |-> "none"]

Waiting(r) == req[r].pc # "idle"

-----------------------------------------------------------------------------
Init ==
  /\ now = 0
  /\ config \in Configs
  /\ secret = 0
  /\ state \in [Flows -> {[uri |-> u, key |-> 0, started |-> FALSE] : u \in URIs}]
  /\ codes = {} /\ refreshes = {} /\ accesses = {}
  /\ req = [r \in Requests |-> NoHandler]
  /\ google = [f \in Flows |-> [user |-> NoUser, spent |-> FALSE, serial |-> 0]]
  /\ lostAt = [u \in Users |-> Never]
  /\ stranded = {}

\* The handler writes its answer and is gone.
Reply(r, a) == req' = [req EXCEPT ![r] = [NoHandler EXCEPT !.answer = a]]

allows(user) == user \in config.allowed

\* accepts: the exact match against the client registry.
accepts(uri) == uri \in config.registry

-----------------------------------------------------------------------------
(* /authorize: the redirect to Google carries a freshly sealed state *)

Authorize(f) ==
  /\ ~state[f].started
  /\ accepts(state[f].uri)
  /\ state' = [state EXCEPT ![f] = [@ EXCEPT !.key = secret, !.started = TRUE]]
  /\ UNCHANGED <<now, server, sealed, req, google, lostAt, stranded>>

-----------------------------------------------------------------------------
(* The callback *)

OpensAnySecret(f) == state[f].started

\* unsealState: only a state this deployment sealed opens.
unsealState(f) == state[f].started /\ state[f].key = secret

AcceptsAnyRedirect(f) == TRUE

\* validState: the registry may have shrunk since /authorize.
validState(f) == accepts(state[f].uri)

\* A browser returns with the state of flow f and Google's code for flow g: the
\* same flow, or two tabs crossed, or a denial that carries no code.
Callback(r, f, g) ==
  /\ req[r].pc = "idle"
  /\ state[f].started
  /\ g # NoFlow => google[g].user # NoUser
  /\ IF unsealState(f) /\ validState(f) /\ g # NoFlow
       THEN req' = [req EXCEPT ![r] =
              [NoHandler EXCEPT !.pc = "exchanging", !.flow = f,
                 !.upstream = [grant |-> g, serial |-> 0],
                 !.until = now + exchangeTimeout]]
       ELSE Reply(r, "invalid response")
  /\ UNCHANGED <<now, server, state, sealed, google, lostAt, stranded>>

\* The request for the identity goes out with the access token in hand.
AskIdentity(r, upstream) ==
  req' = [req EXCEPT ![r] = [@ EXCEPT !.pc = "identifying", !.upstream = upstream,
                                      !.until = now + exchangeTimeout]]

\* Google redeems its code once, for the verifier whose challenge came with it.
Redeems(g, f) ==
  /\ ~google[g].spent
  /\ g = f
  /\ lostAt[google[g].user] = Never

\* exchange succeeds: both tokens are in the answer.
Exchange(r) ==
  /\ req[r].pc = "exchanging"
  /\ LET g == req[r].upstream.grant IN
       /\ Redeems(g, req[r].flow)
       /\ google' = [google EXCEPT ![g] = [@ EXCEPT !.spent = TRUE]]
       /\ AskIdentity(r, req[r].upstream)
  /\ UNCHANGED <<now, server, state, sealed, lostAt, stranded>>

\* Google refuses the code, or the call fails; the code may have been redeemed
\* before the answer was lost or turned out to lack a token.
ExchangeFails(r) ==
  /\ req[r].pc = "exchanging"
  /\ Reply(r, "exchange failed")
  /\ LET g == req[r].upstream.grant IN
       \/ UNCHANGED <<google, stranded>>
       \/ /\ Redeems(g, req[r].flow)
          /\ google' = [google EXCEPT ![g] = [@ EXCEPT !.spent = TRUE]]
          /\ stranded' = stranded \cup {<<g, "answer lost">>}
  /\ UNCHANGED <<now, server, state, sealed, lostAt>>

-----------------------------------------------------------------------------
(* The refresh grant at /token *)

\* UnsealRefresh: of what a client may present, only a refresh credential under
\* the running secret opens; a credential of another purpose does not.
OpensAsRefresh(c) == c \in refreshes /\ c.key = secret

Renew(r, c) ==
  /\ req[r].pc = "idle"
  /\ c \in refreshes \cup codes \cup accesses
  /\ IF OpensAsRefresh(c)
       THEN req' = [req EXCEPT ![r] =
              [NoHandler EXCEPT !.pc = "renewing", !.renewal = TRUE,
                 !.flow = c.holder, !.upstream = c.upstream,
                 !.presented = c.upstream, !.until = now + exchangeTimeout]]
       ELSE Reply(r, "invalid_grant")
  /\ UNCHANGED <<now, server, state, sealed, google, lostAt, stranded>>

\* The refresh token is the grant's current one and the grant stands.
Renewable(u) ==
  /\ google[u.grant].serial = u.serial
  /\ lostAt[google[u.grant].user] = Never

\* Google answers a renewal, and may replace the refresh token as it does.
RotatesTo(u, v) ==
  /\ \/ v = u
     \/ u.serial < MaxRotations /\ v = [u EXCEPT !.serial = u.serial + 1]
  /\ google' = [google EXCEPT ![u.grant] = [@ EXCEPT !.serial = v.serial]]

RenewalAnswered(r) ==
  LET u == req[r].upstream IN
  /\ req[r].pc = "renewing"
  /\ Renewable(u)
  /\ \E serial \in {u.serial, u.serial + 1} :
       /\ RotatesTo(u, [u EXCEPT !.serial = serial])
       /\ AskIdentity(r, [u EXCEPT !.serial = serial])
  /\ UNCHANGED <<now, server, state, sealed, lostAt, stranded>>

\* A 4xx, whatever its reason: Google is done with this refresh token, or it is
\* throttling, timing out, or refusing this server's own client credentials.
RenewalRefused(r) ==
  /\ req[r].pc = "renewing"
  /\ Reply(r, "invalid_grant")
  /\ UNCHANGED <<now, server, state, sealed, google, lostAt, stranded>>

\* A 3xx, a 5xx, an unreadable answer, a broken connection or the timeout;
\* Google may have replaced the refresh token before its answer was lost.
RenewalUnavailable(r) ==
  LET u == req[r].upstream IN
  /\ req[r].pc = "renewing"
  /\ Reply(r, "unavailable")
  /\ \/ UNCHANGED <<google, stranded>>
     \/ /\ Renewable(u)
        /\ u.serial < MaxRotations
        /\ RotatesTo(u, [u EXCEPT !.serial = u.serial + 1])
        /\ stranded' = stranded \cup {<<u.grant, "answer lost">>}
  /\ UNCHANGED <<now, server, state, sealed, lostAt>>

-----------------------------------------------------------------------------
(* Tokeninfo, and what both handlers do with the identity *)

\* The refresh token a handler holds that no credential carries.
Unsealed(r) ==
  IF req[r].pc \in {"identifying", "identified"} /\ req[r].upstream # req[r].presented
    THEN {req[r].upstream.grant}
  ELSE IF req[r].pc \in {"identifying", "identified"} /\ ~req[r].renewal
    THEN {req[r].upstream.grant}
  ELSE {}

Loses(r, why) == {<<g, why>> : g \in Unsealed(r)}

\* Google says whose access token this is; it vouches for no revoked grant.
GoogleVouches(r) ==
  LET u == google[req[r].upstream.grant].user IN
  /\ req[r].pc = "identifying"
  /\ \E verified \in BOOLEAN :
       /\ verified => lostAt[u] = Never
       /\ req' = [req EXCEPT ![r] =
             [@ EXCEPT !.pc = "identified", !.verified = verified, !.vouched = now]]
  /\ UNCHANGED <<now, server, state, sealed, google, lostAt, stranded>>

IdentityFailsOnAnAnswer(r) ==
  /\ req[r].pc = "identified"
  /\ Reply(r, IF req[r].renewal THEN "unavailable" ELSE "identity failed")
  /\ stranded' = stranded \cup Loses(r, "identity failed")
  /\ UNCHANGED <<now, server, state, sealed, google, lostAt>>

\* identity fails: any status but a 2xx, an unreadable body, no subject, the
\* timeout.  The refresh token in the handler's hands goes with it.
IdentityFails(r) ==
  /\ req[r].pc \in {"identifying", "identified"}
  /\ Reply(r, IF req[r].renewal THEN "unavailable" ELSE "identity failed")
  /\ stranded' = stranded \cup Loses(r, "identity failed")
  /\ UNCHANGED <<now, server, state, sealed, google, lostAt>>

\* The account is not verified, or not on the running allowlist.
IdentityRefused(r) ==
  /\ req[r].pc = "identified"
  /\ ~req[r].verified \/ ~allows(google[req[r].upstream.grant].user)
  /\ Reply(r, "forbidden")
  /\ stranded' = stranded \cup Loses(r, "refused")
  /\ UNCHANGED <<now, server, state, sealed, google, lostAt>>

Admissible(r) == req[r].verified /\ allows(google[req[r].upstream.grant].user)

SealAuthorizationCode(r) ==
  [key |-> secret, upstream |-> req[r].upstream,
   user |-> google[req[r].upstream.grant].user, verified |-> req[r].verified,
   challenge |-> req[r].flow, expiresAt |-> now + codeLifetime,
   vouched |-> req[r].vouched]

SealRefresh(upstream, holder) ==
  [key |-> secret, upstream |-> upstream, holder |-> holder]

mintBackwards(user, verified, vouched, holder, by) ==
  [key |-> secret, user |-> user, verified |-> verified,
   expiresAt |-> now - accessLifetime, vouched |-> vouched, holder |-> holder,
   by |-> by]

\* mint: the access credential expires accessLifetime from now.
mint(user, verified, vouched, holder, by) ==
  [key |-> secret, user |-> user, verified |-> verified,
   expiresAt |-> now + accessLifetime, vouched |-> vouched, holder |-> holder,
   by |-> by]

\* The rest of finish: the code is sealed and the client redirected to it.
Redirect(r) ==
  /\ req[r].pc = "identified" /\ ~req[r].renewal
  /\ Admissible(r)
  /\ codes' = codes \cup {SealAuthorizationCode(r)}
  /\ Reply(r, "redirected")
  /\ UNCHANGED <<now, server, state, refreshes, accesses, google, lostAt, stranded>>

RenewalReturnsPresented(r) ==
  /\ req[r].pc = "identified" /\ req[r].renewal
  /\ Admissible(r)
  /\ UNCHANGED refreshes
  /\ accesses' = accesses \cup
       {mint(google[req[r].upstream.grant].user, req[r].verified, req[r].vouched,
             req[r].flow, "refresh_token")}
  /\ Reply(r, "issued")
  /\ UNCHANGED <<now, server, state, codes, google, lostAt, stranded>>

\* The rest of issueFromRenewal: the presented credential goes back as it came,
\* unless Google replaced the refresh token, which is then sealed anew.
IssueFromRenewal(r) ==
  /\ req[r].pc = "identified" /\ req[r].renewal
  /\ Admissible(r)
  /\ refreshes' = IF req[r].upstream = req[r].presented THEN refreshes
                  ELSE refreshes \cup {SealRefresh(req[r].upstream, req[r].flow)}
  /\ accesses' = accesses \cup
       {mint(google[req[r].upstream.grant].user, req[r].verified, req[r].vouched,
             req[r].flow, "refresh_token")}
  /\ Reply(r, "issued")
  /\ UNCHANGED <<now, server, state, codes, google, lostAt, stranded>>

-----------------------------------------------------------------------------
(* The authorization-code grant at /token: nothing waits, nothing is stored *)

\* UnsealAuthorizationCode.
OpensAsCode(c) == c \in codes /\ c.key = secret

ExchangeableByAnyVerifier(c, v) == OpensAsCode(c) /\ now < c.expiresAt
ExchangeableForever(c, v) == OpensAsCode(c) /\ c.challenge = v

\* Opened, not yet expired, and presented with the verifier of the flow whose
\* challenge it carries.
Exchangeable(c, v) == OpensAsCode(c) /\ now < c.expiresAt /\ c.challenge = v

CodeAdmissibleOffTheList(c) == c.verified
CodeAdmissible(c) == c.verified /\ allows(c.user)

IssueFromCode(r, c, v, uri) ==
  /\ req[r].pc = "idle"
  /\ c \in codes \cup refreshes \cup accesses
  /\ state[v].started
  /\ IF ~accepts(uri) \/ ~Exchangeable(c, v)
       THEN Reply(r, "invalid_grant") /\ UNCHANGED sealed
     ELSE IF ~CodeAdmissible(c)
       THEN Reply(r, "forbidden") /\ UNCHANGED sealed
     ELSE /\ refreshes' = refreshes \cup {SealRefresh(c.upstream, v)}
          /\ accesses' = accesses \cup
               {mint(c.user, c.verified, c.vouched, v, "authorization_code")}
          /\ Reply(r, "issued")
          /\ UNCHANGED codes
  /\ UNCHANGED <<now, server, state, google, lostAt, stranded>>

-----------------------------------------------------------------------------
(* The process, Google's users and time *)

\* The process is restarted, with the same secret or a new one and with the
\* configuration as the operator left it; the handlers in progress are cut off.
Restart(cfg, key) ==
  /\ config' = cfg
  /\ secret' = key
  /\ req' = [r \in Requests |-> NoHandler]
  /\ stranded' = stranded \cup UNION {Loses(r, "stopped") : r \in Requests}
  /\ UNCHANGED <<now, state, sealed, google, lostAt>>

\* A user signs in at the consent screen the flow's redirect led to.
Consent(f, u) ==
  /\ state[f].started
  /\ google[f].user = NoUser
  /\ lostAt[u] = Never
  /\ google' = [google EXCEPT ![f] = [@ EXCEPT !.user = u]]
  /\ UNCHANGED <<now, server, state, sealed, req, lostAt, stranded>>

\* The user revokes the grant, or the account or its address is no longer theirs.
Revoke(u) ==
  /\ lostAt[u] = Never
  /\ lostAt' = [lostAt EXCEPT ![u] = now]
  /\ UNCHANGED <<now, server, state, sealed, req, google, stranded>>

\* The clock waits for a call to Google at its timeout.
Tick ==
  /\ now < MaxTime
  /\ \A r \in Requests : Waiting(r) => now < req[r].until
  /\ now' = now + 1
  /\ UNCHANGED <<server, state, sealed, req, google, lostAt, stranded>>

-----------------------------------------------------------------------------
\* What a handler that waits on Google does next.
Resume(r) ==
  \/ ExchangeFails(r)
  \/ RenewalRefused(r) \/ RenewalUnavailable(r)
  \/ IdentityFails(r) \/ IdentityRefused(r)
  \/ Redirect(r) \/ IssueFromRenewal(r)

Next ==
  \/ \E f \in Flows : Authorize(f)
  \/ \E r \in Requests :
       \/ \E f \in Flows, g \in Flows \cup {NoFlow} : Callback(r, f, g)
       \/ \E c \in refreshes \cup codes \cup accesses : Renew(r, c)
       \/ \E c \in refreshes \cup codes \cup accesses, v \in Flows, uri \in URIs :
            IssueFromCode(r, c, v, uri)
       \/ Exchange(r)
       \/ RenewalAnswered(r)
       \/ GoogleVouches(r)
       \/ Resume(r)
  \/ \E cfg \in Configs, key \in {secret, secret + 1} :
       key <= MaxSecret /\ Restart(cfg, key)
  \/ \E f \in Flows, u \in Users : Consent(f, u)
  \/ \E u \in Users : Revoke(u)
  \/ Tick

Spec == Init /\ [][Next]_vars

\* Every handler is scheduled, and the HTTP client's timeout ends a call that
\* Google never answers.  Nothing is owed by Google, the clients or the clock.
FairSpec == Spec /\ \A r \in Requests : WF_vars(Resume(r))

-----------------------------------------------------------------------------
(* Properties *)

\* The middleware's sealed-credential branch (internal/auth/middleware.go): the
\* credential opens, is not expired, and names a verified, allowlisted address.
AdmitsSealed(c) ==
  c \in accesses /\ c.key = secret /\ now < c.expiresAt /\ allows(c.user) /\ c.verified

\* Every variable keeps its type.
TypeOK ==
  /\ now \in 0 .. MaxTime
  /\ config \in Configs
  /\ secret \in 0 .. MaxSecret
  /\ state \in [Flows -> States]
  /\ codes \in SUBSET Codes
  /\ refreshes \in SUBSET RefreshCredentials
  /\ accesses \in SUBSET AccessCredentials
  /\ req \in [Requests -> Handlers]
  /\ google \in [Flows -> Grants]
  /\ lostAt \in [Users -> 0 .. Never]
  /\ stranded \in SUBSET (Flows \X Losses)

\* Two sign-ins never cross, however states, codes and verifiers are mixed at
\* the endpoints: the session a client obtains with its verifier is the one of
\* the account that consented in that client's own flow, and so are the grant
\* its renewals spend and the identity its requests are admitted as.
SessionOfItsFlow ==
  /\ \A c \in codes :
       c.upstream.grant = c.challenge /\ c.user = google[c.challenge].user
  /\ \A c \in refreshes : c.upstream.grant = c.holder
  /\ \A c \in accesses : c.user = google[c.holder].user

\* Replacing the sealing secret ends everything begun before it: whatever opens
\* under the running secret goes back to a flow started under that secret.
SecretEndsSessions ==
  /\ \A c \in codes : c.key = state[c.challenge].key
  /\ \A c \in refreshes \cup accesses : c.key = state[c.holder].key

\* Revocation reaches every session, although the server keeps no list of them:
\* after a grant is revoked, or its address loses verification, no credential
\* obtained by renewal is admitted once one access lifetime and one call to
\* Google have passed, and none obtained with a code after a code lifetime
\* more, whatever was in flight and however often codes are replayed.
RevocationTail ==
  \A c \in accesses : AdmitsSealed(c) =>
    now < lostAt[c.user] + exchangeTimeout + accessLifetime
            + (IF c.by = "authorization_code" THEN codeLifetime ELSE 0)

\* The configuration of the running process decides, also for what began under
\* an earlier one: no client is redirected to a URI that has left the registry,
\* and no credential is sealed for an address that has left the allowlist.
RunningConfigDecides ==
  [][/\ \A c \in codes' \ codes :
          state[c.challenge].uri \in config.registry /\ c.user \in config.allowed
     /\ \A c \in accesses' \ accesses : c.user \in config.allowed]_vars

Lost(g) == \E why \in Losses : <<g, why>> \in stranded

\* Google's current refresh token of a redeemed grant is in a credential, or in
\* the hands of a handler that will seal it, however renewals race and rotate.
\* It is lost in four ways and no fifth, each of them by the one handler that
\* held it: Google's answer did not arrive, the identity call after it failed,
\* this server refused the user with a 403, or the process ended.
GrantReachable ==
  \A g \in Flows : google[g].spent /\ ~Lost(g) =>
    \/ \E c \in codes \cup refreshes :
         c.upstream = [grant |-> g, serial |-> google[g].serial]
    \/ \E r \in Requests :
         /\ g \in Unsealed(r)
         /\ req[r].upstream.serial = google[g].serial

\* The step in which a renewal under way is told to start over at /authorize.
Evicts(r) == req[r].pc = "renewing" /\ req'[r].answer = "invalid_grant"

\* flow.go:362: "an upstream hiccup must not evict every connected client".
\* A client whose account stands is not told to start over because an identity
\* call failed, in this renewal or in the one before it: the refresh token that
\* Google has since replaced was not dropped with such a failure.
HiccupNeverEvicts ==
  [][\A r \in Requests :
       LET g == req[r].upstream.grant IN
       Evicts(r) /\ lostAt[google[g].user] = Never
                 /\ google[g].serial # req[r].upstream.serial
         => <<g, "identity failed">> \notin stranded]_vars

\* Every handler that waits on Google answers its client: the calls are timed.
EveryHandlerAnswers ==
  \A r \in Requests : Waiting(r) ~> req[r].pc = "idle"
=============================================================================
