--------------------------- MODULE AuthFlowProofs ---------------------------
(***************************************************************************)
(* Theorems about AuthFlow, for every value of its constants.  The sealed  *)
(* credentials are the server's only memory, so the invariant is a         *)
(* statement about each of them and about each handler that may seal one:  *)
(* it goes back to a flow that was begun, consented to and redeemed, it    *)
(* speaks of that flow's own grant, and Google vouched for its identity    *)
(* before the account was lost.  What it goes back to only moves onward,   *)
(* so a credential stays good in its holder's hands whatever others do.    *)
(***************************************************************************)
EXTENDS AuthFlow, TLAPS

-----------------------------------------------------------------------------
(* The inductive invariant *)

\* A handler at work has not answered, its call to Google has not timed out,
\* and it belongs to a flow begun under the running secret; from Google's
\* answer on it works on that flow's own grant, and what Google vouched for
\* was so at that moment.
HandlerInv(k) ==
  k.pc # "idle" =>
    /\ k.answer = "none"
    /\ state[k.flow].started /\ state[k.flow].key = secret
    /\ google[k.upstream.grant].user # NoUser
    /\ k.upstream.serial <= MaxRotations
    /\ now <= k.until
    /\ ~k.renewal => accepts(state[k.flow].uri)
    /\ k.pc = "exchanging" => ~k.renewal /\ k.upstream.serial = 0
    /\ k.pc = "renewing" => k.renewal /\ k.presented = k.upstream
    /\ k.pc # "exchanging" => k.upstream.grant = k.flow /\ google[k.flow].spent
    /\ k.pc = "identifying" => k.until <= now + exchangeTimeout
    /\ k.pc = "identified" =>
         /\ k.vouched <= now
         /\ k.until <= k.vouched + exchangeTimeout
         /\ k.verified => k.vouched <= lostAt[google[k.flow].user]

\* The flow a credential goes back to: it is begun, consented to and redeemed.
OfFlow(f, key) ==
  /\ state[f].started /\ state[f].key = key
  /\ google[f].user # NoUser /\ google[f].spent

\* Google vouched for a verified address before it was lost.
VouchedFor(c) == c.vouched <= now /\ (c.verified => c.vouched <= lostAt[c.user])

CodeInv(c) ==
  /\ OfFlow(c.challenge, c.key)
  /\ c.upstream.grant = c.challenge /\ c.upstream.serial <= MaxRotations
  /\ c.user = google[c.challenge].user
  /\ c.expiresAt <= c.vouched + exchangeTimeout + codeLifetime
  /\ VouchedFor(c)

RefreshInv(c) ==
  /\ OfFlow(c.holder, c.key)
  /\ c.upstream.grant = c.holder /\ c.upstream.serial <= MaxRotations

AccessInv(c) ==
  /\ OfFlow(c.holder, c.key)
  /\ c.user = google[c.holder].user
  /\ c.expiresAt <= c.vouched + exchangeTimeout + accessLifetime
                      + (IF c.by = "authorization_code" THEN codeLifetime ELSE 0)
  /\ VouchedFor(c)

\* Google replaces the refresh tokens of a grant that was redeemed.
GrantInv(g) == g.serial <= MaxRotations /\ (~g.spent => g.serial = 0)

HandlersInv == \A r \in Requests : HandlerInv(req[r])
GrantsInv == \A f \in Flows : GrantInv(google[f])
SealedInv ==
  /\ \A c \in codes : CodeInv(c)
  /\ \A c \in refreshes : RefreshInv(c)
  /\ \A c \in accesses : AccessInv(c)

IInv == TypeOK /\ HandlersInv /\ SealedInv /\ GrantsInv

-----------------------------------------------------------------------------
(* What the invariant speaks of only moves onward *)

\* A flow that was begun keeps its state, consent and redemption are for good,
\* an account is lost at the present moment, and the clock runs forward.
StatesOnward ==
  /\ state' \in [Flows -> States]
  /\ \A f \in Flows : state[f].started => state'[f] = state[f]

GoogleOnward ==
  /\ google' \in [Flows -> Grants]
  /\ \A f \in Flows :
       /\ google[f].user # NoUser => google'[f].user = google[f].user
       /\ google[f].spent => google'[f].spent
  /\ GrantsInv'

LossesOnward ==
  /\ lostAt' \in [Users -> 0 .. Never]
  /\ \A u \in Users : lostAt'[u] = lostAt[u] \/ lostAt'[u] = now

ClockOnward == now' \in 0 .. MaxTime /\ now <= now'

Onward == StatesOnward /\ GoogleOnward /\ LossesOnward /\ ClockOnward

\* A flow a credential goes back to stays one.
LEMMA OfFlowLemma ==
  ASSUME Onward, NEW f \in Flows, NEW key, OfFlow(f, key)
  PROVE  OfFlow(f, key)' /\ google'[f].user = google[f].user
BY DEF OfFlow, Onward, StatesOnward, GoogleOnward

\* What Google vouched for, it vouched for before any loss still to come.
LEMMA VouchedLemma ==
  ASSUME TypeOK, Onward, NEW user \in Users, NEW vouched \in Nat,
         vouched <= now, NEW verified, verified => vouched <= lostAt[user]
  PROVE  vouched <= now' /\ (verified => vouched <= lostAt'[user])
<1>1. now \in Nat /\ now' \in Nat /\ now <= now'
  BY NumbersAssumption DEF TypeOK, Onward, ClockOnward
<1>2. lostAt'[user] = lostAt[user] \/ lostAt'[user] = now
  BY DEF Onward, LossesOnward
<1> QED
  BY <1>1, <1>2

\* The credentials in the clients' hands stay good.
LEMMA SealedLemma ==
  ASSUME TypeOK, SealedInv, Onward
  PROVE  /\ \A c \in codes : CodeInv(c)'
         /\ \A c \in refreshes : RefreshInv(c)'
         /\ \A c \in accesses : AccessInv(c)'
<1>1. ASSUME NEW c \in codes PROVE CodeInv(c)'
  <2>1. c \in Codes /\ CodeInv(c)
    BY DEF TypeOK, SealedInv
  <2>2. c.challenge \in Flows /\ c.user \in Users /\ c.vouched \in Nat
    BY <2>1 DEF Codes
  <2>3. OfFlow(c.challenge, c.key)' /\ google'[c.challenge].user = google[c.challenge].user
    BY <2>1, <2>2, OfFlowLemma DEF CodeInv
  <2>4. c.vouched <= now' /\ (c.verified => c.vouched <= lostAt'[c.user])
    BY <2>1, <2>2, VouchedLemma DEF CodeInv, VouchedFor
  <2> QED
    BY <2>1, <2>3, <2>4 DEF CodeInv, VouchedFor
<1>2. ASSUME NEW c \in refreshes PROVE RefreshInv(c)'
  <2>1. c \in RefreshCredentials /\ RefreshInv(c)
    BY DEF TypeOK, SealedInv
  <2>2. c.holder \in Flows
    BY <2>1 DEF RefreshCredentials
  <2>3. OfFlow(c.holder, c.key)'
    BY <2>1, <2>2, OfFlowLemma DEF RefreshInv
  <2> QED
    BY <2>1, <2>3 DEF RefreshInv
<1>3. ASSUME NEW c \in accesses PROVE AccessInv(c)'
  <2>1. c \in AccessCredentials /\ AccessInv(c)
    BY DEF TypeOK, SealedInv
  <2>2. c.holder \in Flows /\ c.user \in Users /\ c.vouched \in Nat
    BY <2>1 DEF AccessCredentials
  <2>3. OfFlow(c.holder, c.key)' /\ google'[c.holder].user = google[c.holder].user
    BY <2>1, <2>2, OfFlowLemma DEF AccessInv
  <2>4. c.vouched <= now' /\ (c.verified => c.vouched <= lostAt'[c.user])
    BY <2>1, <2>2, VouchedLemma DEF AccessInv, VouchedFor
  <2> QED
    BY <2>1, <2>3, <2>4 DEF AccessInv, VouchedFor
<1> QED
  BY <1>1, <1>2, <1>3

\* A handler that waits while others move, no longer than its call may take.
LEMMA WaitingLemma ==
  ASSUME TypeOK, HandlersInv, Onward, UNCHANGED server,
         NEW r \in Requests, req'[r] = req[r], Waiting(r) => now' <= req[r].until
  PROVE  HandlerInv(req[r])'
<1>1. /\ req[r] \in Handlers /\ HandlerInv(req[r])
      /\ config' = config /\ secret' = secret
  BY DEF TypeOK, HandlersInv, server
<1>2. /\ req[r].flow \in Flows /\ req[r].upstream.grant \in Flows
      /\ req[r].until \in Nat /\ req[r].vouched \in Nat
      /\ now \in Nat /\ now' \in Nat /\ now <= now'
  BY <1>1, NumbersAssumption DEF Handlers, Upstreams, TypeOK, Onward, ClockOnward
<1> SUFFICES ASSUME req[r].pc # "idle" PROVE HandlerInv(req[r])'
  BY <1>1 DEF HandlerInv
<1>3. /\ state'[req[r].flow] = state[req[r].flow]
      /\ google'[req[r].upstream.grant].user = google[req[r].upstream.grant].user
      /\ google[req[r].flow].spent => google'[req[r].flow].spent
  BY <1>1, <1>2 DEF HandlerInv, Onward, StatesOnward, GoogleOnward
<1>4. req[r].pc = "identified" =>
        /\ req[r].vouched <= now'
        /\ req[r].verified => req[r].vouched <= lostAt'[google'[req[r].flow].user]
  <2>1. SUFFICES ASSUME req[r].pc = "identified"
                 PROVE  /\ req[r].vouched <= now'
                        /\ req[r].verified => req[r].vouched <= lostAt'[google'[req[r].flow].user]
    OBVIOUS
  <2>2. /\ google[req[r].flow].user \in Users
        /\ google'[req[r].flow].user = google[req[r].flow].user
    BY <1>1, <1>2, <1>3, <2>1 DEF HandlerInv, TypeOK, Grants
  <2>3. /\ req[r].vouched <= now
        /\ req[r].verified => req[r].vouched <= lostAt[google[req[r].flow].user]
    BY <1>1, <2>1 DEF HandlerInv
  <2> QED
    BY <1>2, <2>2, <2>3, VouchedLemma
<1>5. accepts(state[req[r].flow].uri)' <=> accepts(state[req[r].flow].uri)
  BY <1>1, <1>3 DEF accepts
<1>6. now' <= req[r].until
  BY DEF Waiting
<1> QED
  BY <1>1, <1>2, <1>3, <1>4, <1>5, <1>6, NumbersAssumption DEF HandlerInv

\* A step of one handler, which may seal credentials and have Google act.
LEMMA StepLemma ==
  ASSUME IInv, Onward, UNCHANGED <<now, server>>, NEW r \in Requests,
         req' \in [Requests -> Handlers],
         \A q \in Requests : q # r => req'[q] = req[q],
         HandlerInv(req[r])', stranded' \in SUBSET (Flows \X Losses),
         \A c \in codes' : c \in codes \/ (c \in Codes /\ CodeInv(c)'),
         \A c \in refreshes' :
           c \in refreshes \/ (c \in RefreshCredentials /\ RefreshInv(c)'),
         \A c \in accesses' :
           c \in accesses \/ (c \in AccessCredentials /\ AccessInv(c)')
  PROVE  IInv'
<1>1. TypeOK'
  BY DEF IInv, TypeOK, Onward, StatesOnward, GoogleOnward, LossesOnward, server
<1>2. SealedInv'
  BY SealedLemma DEF IInv, SealedInv
<1>3. ASSUME NEW q \in Requests, q # r PROVE HandlerInv(req[q])'
  <2>1. Waiting(q) => now' <= req[q].until
    BY DEF IInv, HandlersInv, HandlerInv, Waiting
  <2> QED
    BY <1>3, <2>1, WaitingLemma DEF IInv
<1>4. HandlersInv'
  BY <1>3 DEF HandlersInv
<1> QED
  BY <1>1, <1>2, <1>4 DEF IInv, Onward, GoogleOnward

-----------------------------------------------------------------------------
(* What Google does *)

\* Nothing.
LEMMA StaysLemma ==
  ASSUME IInv, UNCHANGED <<now, state, google, lostAt>>
  PROVE  Onward
BY NumbersAssumption
   DEF IInv, TypeOK, GrantsInv, Onward, StatesOnward, GoogleOnward, LossesOnward, ClockOnward

\* It redeems a code, or replaces the refresh token of a grant.
LEMMA GoogleLemma ==
  ASSUME IInv, UNCHANGED <<now, state, lostAt>>, NEW g \in Flows, NEW e \in Grants,
         google' = [google EXCEPT ![g] = e],
         google[g].user # NoUser => e.user = google[g].user,
         google[g].spent => e.spent, GrantInv(e)
  PROVE  Onward
<1>1. google \in [Flows -> Grants]
  BY DEF IInv, TypeOK
<1>2. /\ google' \in [Flows -> Grants] /\ google'[g] = e
      /\ \A f \in Flows : f # g => google'[f] = google[f]
  BY <1>1
<1>3. \A f \in Flows : GrantInv(google'[f])
  BY <1>2 DEF IInv, GrantsInv, GrantInv
<1>4. GoogleOnward
  BY <1>2, <1>3 DEF GoogleOnward, GrantsInv, GrantInv
<1> QED
  BY <1>4, NumbersAssumption
  DEF IInv, TypeOK, Onward, StatesOnward, LossesOnward, ClockOnward

-----------------------------------------------------------------------------
(* Handlers *)

LEMMA NumbersLemma ==
  ASSUME TypeOK
  PROVE  /\ now \in Nat /\ secret \in Nat /\ Never \in Nat /\ now < Never
         /\ codeLifetime \in Nat /\ accessLifetime \in Nat /\ exchangeTimeout \in Nat
BY NumbersAssumption DEF TypeOK, Never

LEMMA NoHandlerLemma ==
  /\ AnyFlow \in Flows /\ NoUpstream \in Upstreams
  /\ \A a \in Answers :
       /\ [NoHandler EXCEPT !.answer = a] \in Handlers
       /\ [NoHandler EXCEPT !.answer = a].pc = "idle"
       /\ [NoHandler EXCEPT !.answer = a].answer = a
  /\ NoHandler \in Handlers /\ NoHandler.pc = "idle" /\ NoHandler.answer = "none"
<1>1. AnyFlow \in Flows
  BY NamesAssumption DEF AnyFlow
<1> QED
  BY <1>1 DEF NoHandler, NoUpstream, Handlers, PCs, Upstreams, Answers

\* One handler moves.
LEMMA MovesLemma ==
  ASSUME TypeOK, NEW r \in Requests, NEW k \in Handlers, req' = [req EXCEPT ![r] = k]
  PROVE  /\ req' \in [Requests -> Handlers]
         /\ req'[r] = k
         /\ \A q \in Requests : q # r => req'[q] = req[q]
BY DEF TypeOK

\* One handler answers and is gone.
LEMMA ReplyLemma ==
  ASSUME TypeOK, NEW r \in Requests, NEW a \in Answers, Reply(r, a)
  PROVE  /\ req' \in [Requests -> Handlers]
         /\ req'[r].pc = "idle" /\ req'[r].answer = a
         /\ \A q \in Requests : q # r => req'[q] = req[q]
         /\ HandlerInv(req[r])'
<1> DEFINE k == [NoHandler EXCEPT !.answer = a]
<1>1. k \in Handlers /\ k.pc = "idle" /\ k.answer = a
  BY NoHandlerLemma
<1>2. req' = [req EXCEPT ![r] = k]
  BY DEF Reply
<1> HIDE DEF k
<1>3. /\ req' \in [Requests -> Handlers]
      /\ req'[r] = k
      /\ \A q \in Requests : q # r => req'[q] = req[q]
  BY <1>1, <1>2, MovesLemma
<1> QED
  BY <1>1, <1>3 DEF HandlerInv

\* It answers and nothing is sealed.
LEMMA AnswerLemma ==
  ASSUME IInv, Onward, UNCHANGED <<now, server, sealed>>, NEW r \in Requests,
         NEW a \in Answers, Reply(r, a), stranded' \in SUBSET (Flows \X Losses)
  PROVE  IInv'
<1>1. /\ req' \in [Requests -> Handlers]
      /\ \A q \in Requests : q # r => req'[q] = req[q]
      /\ HandlerInv(req[r])'
  BY ReplyLemma DEF IInv
<1>2. codes' = codes /\ refreshes' = refreshes /\ accesses' = accesses
  BY DEF sealed
<1> QED
  BY <1>1, <1>2, StepLemma

\* The fields of a handler at work, and the account of its grant.
LEMMA WorkLemma ==
  ASSUME IInv, NEW r \in Requests, req[r].pc # "idle"
  PROVE  /\ req[r] \in Handlers /\ HandlerInv(req[r])
         /\ req[r].flow \in Flows /\ req[r].upstream \in Upstreams
         /\ req[r].presented \in Upstreams
         /\ req[r].upstream.grant \in Flows /\ req[r].upstream.serial \in Nat
         /\ req[r].until \in Nat /\ req[r].vouched \in Nat
         /\ req[r].renewal \in BOOLEAN /\ req[r].verified \in BOOLEAN
         /\ google[req[r].upstream.grant] \in Grants
         /\ GrantInv(google[req[r].upstream.grant])
         /\ google[req[r].upstream.grant].user \in Users
<1>1. req[r] \in Handlers /\ HandlerInv(req[r])
  BY DEF IInv, TypeOK, HandlersInv
<1>2. /\ req[r].flow \in Flows /\ req[r].upstream \in Upstreams
      /\ req[r].presented \in Upstreams
      /\ req[r].until \in Nat /\ req[r].vouched \in Nat
      /\ req[r].renewal \in BOOLEAN /\ req[r].verified \in BOOLEAN
  BY <1>1 DEF Handlers
<1>3. req[r].upstream.grant \in Flows /\ req[r].upstream.serial \in Nat
  BY <1>2 DEF Upstreams
<1>4. /\ google[req[r].upstream.grant] \in Grants
      /\ GrantInv(google[req[r].upstream.grant])
  BY <1>3 DEF IInv, TypeOK, GrantsInv
<1>5. google[req[r].upstream.grant].user \in Users
  BY <1>1, <1>4 DEF HandlerInv, Grants
<1> QED
  BY <1>1, <1>2, <1>3, <1>4, <1>5

-----------------------------------------------------------------------------
(* The steps that seal nothing *)

\* The callback: a handler starts on a state of the running secret, or answers.
LEMMA CallbackLemma ==
  ASSUME IInv, NEW r \in Requests, NEW f \in Flows, NEW g \in Flows \cup {NoFlow},
         Callback(r, f, g)
  PROVE  IInv'
<1>1. Onward /\ UNCHANGED <<now, server, sealed>> /\ stranded' \in SUBSET (Flows \X Losses)
  BY StaysLemma DEF Callback, IInv, TypeOK
<1>2. CASE ~(unsealState(f) /\ validState(f) /\ g # NoFlow)
  <2>1. Reply(r, "invalid response") /\ "invalid response" \in Answers
    BY <1>2 DEF Callback, Answers
  <2> QED
    BY <1>1, <2>1, AnswerLemma
<1>3. CASE unsealState(f) /\ validState(f) /\ g # NoFlow
  <2> DEFINE u == [grant |-> g, serial |-> 0]
  <2> DEFINE k == [NoHandler EXCEPT !.pc = "exchanging", !.flow = f,
                     !.upstream = u, !.until = now + exchangeTimeout]
  <2>1. /\ g \in Flows /\ google[g].user # NoUser
        /\ now + exchangeTimeout \in Nat
        /\ u \in Upstreams /\ u.grant = g /\ u.serial = 0
    BY <1>3, NumbersLemma DEF Callback, IInv, Upstreams
  <2>2. /\ k \in Handlers
        /\ k.pc = "exchanging" /\ k.answer = "none" /\ k.flow = f
        /\ k.upstream.grant = g /\ k.upstream.serial = 0
        /\ k.until = now + exchangeTimeout /\ k.renewal = FALSE
    <3> HIDE DEF u
    <3>1. NoHandler \in Handlers
      BY NoHandlerLemma
    <3>2. k \in Handlers
      BY <2>1, <3>1 DEF Handlers, PCs
    <3>3. /\ k.pc = "exchanging" /\ k.answer = "none" /\ k.flow = f
          /\ k.upstream = u /\ k.until = now + exchangeTimeout /\ k.renewal = FALSE
      BY DEF NoHandler
    <3> QED
      BY <2>1, <3>2, <3>3
  <2>3. req' = [req EXCEPT ![r] = k]
    BY <1>3 DEF Callback
  <2> HIDE DEF k
  <2>4. /\ req' \in [Requests -> Handlers] /\ req'[r] = k
        /\ \A q \in Requests : q # r => req'[q] = req[q]
    BY <2>2, <2>3, MovesLemma DEF IInv
  <2>5. /\ now' = now /\ secret' = secret /\ config' = config
        /\ state' = state /\ google' = google
    BY DEF Callback, server
  <2>6. /\ state[f].started /\ state[f].key = secret /\ accepts(state[f].uri)
        /\ now <= k.until /\ 0 <= MaxRotations
    BY <1>3, <2>2, NumbersLemma, NumbersAssumption
    DEF unsealState, validState, IInv
  <2>7. HandlerInv(req[r])'
    BY <2>1, <2>2, <2>4, <2>5, <2>6 DEF HandlerInv, accepts
  <2>8. codes' = codes /\ refreshes' = refreshes /\ accesses' = accesses
    BY <1>1 DEF sealed
  <2> QED
    BY <1>1, <2>4, <2>7, <2>8, StepLemma
<1> QED
  BY <1>2, <1>3

\* A renewal: a handler starts with a refresh credential of the running secret.
LEMMA RenewLemma ==
  ASSUME IInv, NEW r \in Requests, NEW c \in refreshes \cup codes \cup accesses,
         Renew(r, c)
  PROVE  IInv'
<1>1. Onward /\ UNCHANGED <<now, server, sealed>> /\ stranded' \in SUBSET (Flows \X Losses)
  BY StaysLemma DEF Renew, IInv, TypeOK
<1>2. CASE ~OpensAsRefresh(c)
  <2>1. Reply(r, "invalid_grant") /\ "invalid_grant" \in Answers
    BY <1>2 DEF Renew, Answers
  <2> QED
    BY <1>1, <2>1, AnswerLemma
<1>3. CASE OpensAsRefresh(c)
  <2> DEFINE k == [NoHandler EXCEPT !.pc = "renewing", !.renewal = TRUE,
                     !.flow = c.holder, !.upstream = c.upstream,
                     !.presented = c.upstream, !.until = now + exchangeTimeout]
  <2>1. /\ c \in RefreshCredentials /\ RefreshInv(c) /\ c.key = secret
    BY <1>3 DEF OpensAsRefresh, IInv, TypeOK, SealedInv
  <2>2. /\ c.holder \in Flows /\ c.upstream \in Upstreams
        /\ now + exchangeTimeout \in Nat
    BY <2>1, NumbersLemma DEF RefreshCredentials, IInv
  <2>3. /\ k \in Handlers
        /\ k.pc = "renewing" /\ k.answer = "none" /\ k.flow = c.holder
        /\ k.upstream = c.upstream /\ k.presented = c.upstream
        /\ k.until = now + exchangeTimeout /\ k.renewal = TRUE
    BY <2>2, NoHandlerLemma DEF NoHandler, Handlers, PCs, Answers
  <2>4. req' = [req EXCEPT ![r] = k]
    BY <1>3 DEF Renew
  <2> HIDE DEF k
  <2>5. /\ req' \in [Requests -> Handlers] /\ req'[r] = k
        /\ \A q \in Requests : q # r => req'[q] = req[q]
    BY <2>3, <2>4, MovesLemma DEF IInv
  <2>6. /\ now' = now /\ secret' = secret /\ state' = state /\ google' = google
    BY DEF Renew, server
  <2>7. now <= k.until
    BY <2>3, NumbersLemma DEF IInv
  <2>8. HandlerInv(req[r])'
    BY <2>1, <2>3, <2>5, <2>6, <2>7 DEF HandlerInv, RefreshInv, OfFlow
  <2>9. codes' = codes /\ refreshes' = refreshes /\ accesses' = accesses
    BY <1>1 DEF sealed
  <2> QED
    BY <1>1, <2>5, <2>8, <2>9, StepLemma
<1> QED
  BY <1>2, <1>3

\* The request for the identity is one of the handler's own flow.
LEMMA AskLemma ==
  ASSUME IInv, Onward, UNCHANGED <<now, server, state, sealed, stranded>>,
         NEW r \in Requests, req[r].pc # "idle",
         NEW u \in Upstreams, u.grant = req[r].flow, u.serial <= MaxRotations,
         req[r].upstream.grant = req[r].flow, google'[req[r].flow].spent,
         AskIdentity(r, u)
  PROVE  /\ IInv'
         /\ req'[r].pc = "identifying" /\ req'[r].upstream = u
         /\ req'[r].renewal = req[r].renewal /\ req'[r].presented = req[r].presented
         /\ req'[r].answer = "none"
         /\ \A q \in Requests : q # r => req'[q] = req[q]
<1> DEFINE k == [req[r] EXCEPT !.pc = "identifying", !.upstream = u,
                               !.until = now + exchangeTimeout]
<1>1. /\ req[r] \in Handlers /\ HandlerInv(req[r]) /\ req[r].flow \in Flows
      /\ now + exchangeTimeout \in Nat
  BY WorkLemma, NumbersLemma DEF IInv
<1>2. /\ k \in Handlers
      /\ k.pc = "identifying" /\ k.answer = req[r].answer /\ k.flow = req[r].flow
      /\ k.upstream = u /\ k.presented = req[r].presented
      /\ k.until = now + exchangeTimeout /\ k.renewal = req[r].renewal
  BY <1>1 DEF Handlers, PCs
<1>3. req' = [req EXCEPT ![r] = k]
  BY DEF AskIdentity
<1> HIDE DEF k
<1>4. /\ req' \in [Requests -> Handlers] /\ req'[r] = k
      /\ \A q \in Requests : q # r => req'[q] = req[q]
  BY <1>2, <1>3, MovesLemma DEF IInv
<1>5. /\ now' = now /\ secret' = secret /\ config' = config /\ state' = state
      /\ codes' = codes /\ refreshes' = refreshes /\ accesses' = accesses
  BY DEF server, sealed
<1>6. now <= k.until /\ k.until <= now + exchangeTimeout
  BY <1>2, NumbersLemma DEF IInv
<1>7. google'[req[r].flow].user # NoUser
  BY <1>1, NamesAssumption DEF HandlerInv, Onward, GoogleOnward
<1>8. HandlerInv(req[r])'
  BY <1>1, <1>2, <1>4, <1>5, <1>6, <1>7 DEF HandlerInv, accepts
<1>9. IInv'
  BY <1>4, <1>5, <1>8, StepLemma DEF IInv, TypeOK
<1> QED
  BY <1>1, <1>2, <1>4, <1>9 DEF HandlerInv

\* Google redeems the code of a flow.
LEMMA RedeemsLemma ==
  ASSUME IInv, UNCHANGED <<now, state, lostAt>>, NEW g \in Flows,
         google' = [google EXCEPT ![g] = [@ EXCEPT !.spent = TRUE]]
  PROVE  /\ Onward /\ google'[g].spent /\ google'[g].serial = google[g].serial
         /\ google'[g].user = google[g].user
         /\ \A h \in Flows : h # g => google'[h] = google[h]
<1> DEFINE e == [google[g] EXCEPT !.spent = TRUE]
<1>1. google[g] \in Grants /\ GrantInv(google[g]) /\ google \in [Flows -> Grants]
  BY DEF IInv, TypeOK, GrantsInv
<1>2. /\ e \in Grants /\ e.spent = TRUE /\ e.serial = google[g].serial
      /\ e.user = google[g].user
  BY <1>1 DEF Grants
<1>3. google' = [google EXCEPT ![g] = e]
  BY Zenon
<1> HIDE DEF e
<1>4. google'[g] = e /\ \A h \in Flows : h # g => google'[h] = google[h]
  BY <1>1, <1>3
<1>5. Onward
  BY <1>1, <1>2, <1>3, GoogleLemma DEF GrantInv
<1> QED
  BY <1>2, <1>4, <1>5

\* Google answers a renewal, and may replace the grant's refresh token.
LEMMA RotatesLemma ==
  ASSUME IInv, UNCHANGED <<now, state, lostAt>>, NEW u \in Upstreams, NEW v \in Upstreams,
         google[u.grant].spent, google[u.grant].serial = u.serial, RotatesTo(u, v)
  PROVE  /\ Onward
         /\ v.grant = u.grant /\ v.serial <= MaxRotations
         /\ google'[u.grant].spent /\ google'[u.grant].serial = v.serial
         /\ \A h \in Flows : h # u.grant => google'[h] = google[h]
<1> DEFINE g == u.grant
           e == [google[g] EXCEPT !.serial = v.serial]
<1>1. /\ g \in Flows /\ u.serial \in Nat /\ v.serial \in Nat
      /\ MaxRotations \in Nat
  BY NumbersAssumption DEF Upstreams
<1>2. google[g] \in Grants /\ GrantInv(google[g]) /\ google \in [Flows -> Grants]
  BY <1>1 DEF IInv, TypeOK, GrantsInv
<1>3. v.grant = u.grant /\ v.serial <= MaxRotations
  BY <1>1, <1>2 DEF RotatesTo, GrantInv, Upstreams
<1>4. /\ e \in Grants /\ e.spent = google[g].spent /\ e.serial = v.serial
      /\ e.user = google[g].user
  BY <1>1, <1>2 DEF Grants
<1>5. google' = [google EXCEPT ![g] = e]
  BY Zenon DEF RotatesTo
<1> HIDE DEF e
<1>6. google'[g] = e /\ \A h \in Flows : h # g => google'[h] = google[h]
  BY <1>1, <1>2, <1>5
<1>7. Onward
  BY <1>1, <1>2, <1>3, <1>4, <1>5, GoogleLemma DEF GrantInv
<1> QED
  BY <1>3, <1>4, <1>6, <1>7

\* exchange succeeds.
LEMMA ExchangeLemma ==
  ASSUME IInv, NEW r \in Requests, Exchange(r)
  PROVE  IInv'
<1>1. req[r].pc = "exchanging" /\ req[r].pc # "idle"
  BY DEF Exchange
<1>2. /\ req[r].flow \in Flows /\ req[r].upstream \in Upstreams
      /\ HandlerInv(req[r])
  BY <1>1, WorkLemma
<1>3. req[r].upstream.grant = req[r].flow
  BY DEF Exchange, Redeems
<1>4. Onward /\ google'[req[r].flow].spent
  BY <1>2, <1>3, RedeemsLemma DEF Exchange
<1>5. /\ req[r].upstream.serial <= MaxRotations
      /\ UNCHANGED <<now, server, state, sealed, stranded>>
      /\ AskIdentity(r, req[r].upstream)
  BY <1>1, <1>2 DEF HandlerInv, Exchange
<1> QED
  BY <1>1, <1>2, <1>3, <1>4, <1>5, AskLemma

\* exchange fails, before or after Google redeemed the code.
\* Google's answer is lost, and with it the refresh token of one grant.
LEMMA LossLemma ==
  ASSUME IInv, NEW g \in Flows,
         \/ stranded' = stranded
         \/ stranded' = stranded \cup {<<g, "answer lost">>}
  PROVE  stranded' \in SUBSET (Flows \X Losses)
<1>1. stranded \subseteq Flows \X Losses
  BY DEF IInv, TypeOK
<1>2. "answer lost" \in Losses
  BY DEF Losses
<1>3. <<g, "answer lost">> \in Flows \X Losses
  BY <1>2
<1> QED
  BY <1>1, <1>3

LEMMA ExchangeFailsLemma ==
  ASSUME IInv, NEW r \in Requests, ExchangeFails(r)
  PROVE  IInv'
<1>1. req[r].upstream.grant \in Flows
  BY WorkLemma DEF ExchangeFails
<1>2. /\ UNCHANGED <<now, server, state, sealed, lostAt>>
      /\ Reply(r, "exchange failed") /\ "exchange failed" \in Answers
  BY DEF ExchangeFails, Answers
<1>3. Onward
  BY <1>1, <1>2, StaysLemma, RedeemsLemma DEF ExchangeFails
<1>4. stranded' \in SUBSET (Flows \X Losses)
  BY <1>1, LossLemma DEF ExchangeFails
<1> QED
  BY <1>2, <1>3, <1>4, AnswerLemma

\* A handler in a renewal holds the grant's refresh token as it presented it.
LEMMA RenewingLemma ==
  ASSUME IInv, NEW r \in Requests, req[r].pc = "renewing"
  PROVE  /\ req[r].upstream \in Upstreams /\ req[r].upstream.grant = req[r].flow
         /\ req[r].flow \in Flows /\ google[req[r].flow].spent
         /\ req[r].renewal /\ req[r].presented = req[r].upstream
         /\ req[r].upstream.serial <= MaxRotations
         /\ req[r].upstream.serial \in Nat /\ req[r].answer = "none"
BY WorkLemma DEF HandlerInv

\* renewAccessToken succeeds.
LEMMA RenewalAnsweredLemma ==
  ASSUME IInv, NEW r \in Requests, RenewalAnswered(r)
  PROVE  IInv'
<1> DEFINE u == req[r].upstream
<1>1. req[r].pc = "renewing"
  BY DEF RenewalAnswered
<1>2. /\ u \in Upstreams /\ u.grant = req[r].flow /\ req[r].flow \in Flows
      /\ google[req[r].flow].spent /\ u.serial \in Nat
  BY <1>1, RenewingLemma
<1>3. /\ UNCHANGED <<now, server, state, sealed, lostAt, stranded>>
      /\ google[u.grant].serial = u.serial
  BY DEF RenewalAnswered, Renewable
<1>4. PICK serial \in {u.serial, u.serial + 1} :
        /\ RotatesTo(u, [u EXCEPT !.serial = serial])
        /\ AskIdentity(r, [u EXCEPT !.serial = serial])
  BY DEF RenewalAnswered
<1> DEFINE v == [u EXCEPT !.serial = serial]
<1>5. v \in Upstreams
  BY <1>2 DEF Upstreams
<1>6. RotatesTo(u, v) /\ AskIdentity(r, v)
  BY <1>4
<1> HIDE DEF u, v
<1>7. /\ Onward /\ v.grant = req[r].flow /\ v.serial <= MaxRotations
      /\ google'[req[r].flow].spent
  BY <1>2, <1>3, <1>5, <1>6, RotatesLemma
<1>8. u = req[r].upstream
  BY DEF u
<1> QED
  BY <1>1, <1>2, <1>3, <1>5, <1>6, <1>7, <1>8, AskLemma

\* Google refuses the renewal.
LEMMA RenewalRefusedLemma ==
  ASSUME IInv, NEW r \in Requests, RenewalRefused(r)
  PROVE  IInv'
<1>1. /\ UNCHANGED <<now, server, state, sealed, google, lostAt, stranded>>
      /\ Reply(r, "invalid_grant") /\ "invalid_grant" \in Answers
  BY DEF RenewalRefused, Answers
<1> QED
  BY <1>1, StaysLemma, AnswerLemma DEF IInv, TypeOK

\* The renewal is not answered, before or after Google replaced the token.
LEMMA RenewalUnavailableLemma ==
  ASSUME IInv, NEW r \in Requests, RenewalUnavailable(r)
  PROVE  IInv'
<1> DEFINE u == req[r].upstream
           v == [u EXCEPT !.serial = u.serial + 1]
<1>1. /\ UNCHANGED <<now, server, state, sealed, lostAt>>
      /\ Reply(r, "unavailable") /\ "unavailable" \in Answers
  BY DEF RenewalUnavailable, Answers
<1>2. /\ u \in Upstreams /\ u.grant \in Flows /\ google[u.grant].spent
      /\ u.serial \in Nat
  BY RenewingLemma DEF RenewalUnavailable
<1>3. v \in Upstreams
  BY <1>2 DEF Upstreams
<1>4. \/ UNCHANGED <<google, stranded>>
      \/ /\ google[u.grant].serial = u.serial
         /\ RotatesTo(u, v)
         /\ stranded' = stranded \cup {<<u.grant, "answer lost">>}
  BY DEF RenewalUnavailable, Renewable
<1> HIDE DEF u, v
<1>5. Onward
  BY <1>1, <1>2, <1>3, <1>4, StaysLemma, RotatesLemma
<1>6. stranded' \in SUBSET (Flows \X Losses)
  BY <1>2, <1>4, LossLemma
<1> QED
  BY <1>1, <1>5, <1>6, AnswerLemma

\* Google says whose access token this is.
LEMMA GoogleVouchesLemma ==
  ASSUME IInv, NEW r \in Requests, GoogleVouches(r)
  PROVE  /\ IInv'
         /\ req'[r].pc = "identified" /\ req'[r].answer = "none"
         /\ req'[r].upstream = req[r].upstream /\ req'[r].renewal = req[r].renewal
         /\ req'[r].presented = req[r].presented
         /\ \A q \in Requests : q # r => req'[q] = req[q]
<1> DEFINE u == google[req[r].upstream.grant].user
<1>1. PICK verified \in BOOLEAN :
        /\ verified => lostAt[u] = Never
        /\ req' = [req EXCEPT ![r] =
             [@ EXCEPT !.pc = "identified", !.verified = verified, !.vouched = now]]
  BY DEF GoogleVouches
<1> DEFINE k == [req[r] EXCEPT !.pc = "identified", !.verified = verified, !.vouched = now]
<1>2. req[r].pc = "identifying"
  BY DEF GoogleVouches
<1>3. /\ req[r] \in Handlers /\ HandlerInv(req[r]) /\ req[r].flow \in Flows
      /\ now \in Nat /\ Never \in Nat /\ now < Never /\ exchangeTimeout \in Nat
      /\ u \in Users
  BY <1>2, WorkLemma, NumbersLemma DEF IInv
<1>4. /\ k \in Handlers /\ k.pc = "identified" /\ k.verified = verified
      /\ k.vouched = now /\ k.answer = req[r].answer /\ k.flow = req[r].flow
      /\ k.upstream = req[r].upstream /\ k.presented = req[r].presented
      /\ k.until = req[r].until /\ k.renewal = req[r].renewal
  BY <1>3 DEF Handlers, PCs
<1>5. req' = [req EXCEPT ![r] = k]
  BY <1>1, Zenon
<1> HIDE DEF k
<1>6. /\ req' \in [Requests -> Handlers] /\ req'[r] = k
      /\ \A q \in Requests : q # r => req'[q] = req[q]
  BY <1>4, <1>5, MovesLemma DEF IInv
<1>7. /\ now' = now /\ secret' = secret /\ config' = config /\ state' = state
      /\ google' = google /\ lostAt' = lostAt /\ stranded' = stranded
      /\ codes' = codes /\ refreshes' = refreshes /\ accesses' = accesses
  BY DEF GoogleVouches, server, sealed
<1>8. req[r].upstream.grant = req[r].flow
  BY <1>2, <1>3 DEF HandlerInv
<1>9. /\ now <= lostAt[u] \/ ~verified
      /\ now <= req[r].until /\ req[r].until <= now + exchangeTimeout
  BY <1>1, <1>2, <1>3 DEF HandlerInv
<1>10. HandlerInv(req[r])'
  BY <1>2, <1>3, <1>4, <1>6, <1>7, <1>8, <1>9 DEF HandlerInv, accepts
<1>11. IInv'
  BY <1>6, <1>7, <1>10, StaysLemma, StepLemma DEF IInv, TypeOK, server
<1> QED
  BY <1>2, <1>3, <1>4, <1>6, <1>11 DEF HandlerInv

-----------------------------------------------------------------------------
(* The steps that end a handler's work on an identity *)

\* What is known of a handler that has an identity in its hands.
LEMMA IdentifiedLemma ==
  ASSUME IInv, NEW r \in Requests, req[r].pc = "identified"
  PROVE  /\ req[r].flow \in Flows /\ req[r].upstream \in Upstreams
         /\ req[r].upstream.grant = req[r].flow
         /\ req[r].upstream.serial <= MaxRotations
         /\ OfFlow(req[r].flow, secret)
         /\ google[req[r].flow].user \in Users
         /\ req[r].vouched \in Nat /\ req[r].verified \in BOOLEAN
         /\ req[r].vouched <= now /\ now <= req[r].vouched + exchangeTimeout
         /\ req[r].verified => req[r].vouched <= lostAt[google[req[r].flow].user]
         /\ ~req[r].renewal => accepts(state[req[r].flow].uri)
<1>1. /\ HandlerInv(req[r]) /\ req[r].flow \in Flows /\ req[r].upstream \in Upstreams
      /\ req[r].until \in Nat /\ req[r].vouched \in Nat /\ req[r].verified \in BOOLEAN
      /\ google[req[r].upstream.grant].user \in Users
      /\ now \in Nat /\ exchangeTimeout \in Nat
  BY WorkLemma, NumbersLemma DEF IInv
<1>2. /\ now <= req[r].until /\ req[r].until <= req[r].vouched + exchangeTimeout
      /\ req[r].upstream.grant = req[r].flow
  BY <1>1 DEF HandlerInv
<1> QED
  BY <1>1, <1>2 DEF HandlerInv, OfFlow

LEMMA UnsealedLemma ==
  ASSUME IInv, NEW r \in Requests
  PROVE  Unsealed(r) \in SUBSET Flows
BY DEF IInv, TypeOK, Handlers, Upstreams, Unsealed

LEMMA LosesLemma ==
  ASSUME IInv, NEW r \in Requests, NEW why \in Losses
  PROVE  Loses(r, why) \subseteq Flows \X Losses
BY UnsealedLemma DEF Loses

LEMMA IdentityFailsLemma ==
  ASSUME IInv, NEW r \in Requests, IdentityFails(r)
  PROVE  IInv'
<1>1. /\ UNCHANGED <<now, server, state, sealed, google, lostAt>>
      /\ Reply(r, IF req[r].renewal THEN "unavailable" ELSE "identity failed")
      /\ (IF req[r].renewal THEN "unavailable" ELSE "identity failed") \in Answers
      /\ stranded' = stranded \cup Loses(r, "identity failed")
  BY DEF IdentityFails, Answers
<1>2. Onward /\ stranded' \in SUBSET (Flows \X Losses)
  BY <1>1, StaysLemma, LosesLemma DEF IInv, TypeOK, Losses
<1> QED
  BY <1>1, <1>2, AnswerLemma

LEMMA IdentityRefusedLemma ==
  ASSUME IInv, NEW r \in Requests, IdentityRefused(r)
  PROVE  IInv'
<1>1. /\ UNCHANGED <<now, server, state, sealed, google, lostAt>>
      /\ Reply(r, "forbidden") /\ "forbidden" \in Answers
      /\ stranded' = stranded \cup Loses(r, "refused")
  BY DEF IdentityRefused, Answers
<1>2. Onward /\ stranded' \in SUBSET (Flows \X Losses)
  BY <1>1, StaysLemma, LosesLemma DEF IInv, TypeOK, Losses
<1> QED
  BY <1>1, <1>2, AnswerLemma

\* The code sealed for an identity speaks of the flow of the opened state.
LEMMA RedirectLemma ==
  ASSUME IInv, NEW r \in Requests, Redirect(r)
  PROVE  IInv'
<1> DEFINE d == SealAuthorizationCode(r)
<1>1. req[r].pc = "identified"
  BY DEF Redirect
<1>2. /\ UNCHANGED <<now, server, state, refreshes, accesses, google, lostAt, stranded>>
      /\ codes' = codes \cup {d}
      /\ Reply(r, "redirected") /\ "redirected" \in Answers
  BY DEF Redirect, Answers
<1>3. Onward /\ stranded' \in SUBSET (Flows \X Losses)
  BY <1>2, StaysLemma DEF IInv, TypeOK
<1>4. /\ now \in Nat /\ secret \in Nat /\ codeLifetime \in Nat /\ exchangeTimeout \in Nat
  BY NumbersLemma DEF IInv
<1>5. /\ d.challenge = req[r].flow /\ d.key = secret /\ d.upstream = req[r].upstream
      /\ d.user = google[req[r].upstream.grant].user /\ d.verified = req[r].verified
      /\ d.expiresAt = now + codeLifetime /\ d.vouched = req[r].vouched
  BY DEF SealAuthorizationCode
<1>6. /\ now + codeLifetime \in Nat /\ google[req[r].upstream.grant].user \in Users
      /\ req[r].upstream \in Upstreams /\ req[r].flow \in Flows
      /\ req[r].vouched \in Nat /\ req[r].verified \in BOOLEAN
  BY <1>1, <1>4, IdentifiedLemma
<1>7. d \in Codes
  BY <1>4, <1>6 DEF SealAuthorizationCode, Codes
<1> HIDE DEF d
<1>8. ASSUME NEW c \in codes', c \notin codes PROVE c \in Codes /\ CodeInv(c)'
  <2>1. c = d
    BY <1>2, <1>8
  <2>2. OfFlow(c.challenge, c.key)'
    BY <1>1, <1>2, <1>5, <2>1, IdentifiedLemma DEF OfFlow
  <2>3. /\ c.upstream.grant = c.challenge /\ c.upstream.serial <= MaxRotations
        /\ c.user = google[c.challenge].user
        /\ c.verified => c.vouched <= lostAt[c.user]
        /\ c.vouched <= now
    BY <1>1, <1>5, <2>1, IdentifiedLemma
  <2>4. c.expiresAt <= c.vouched + exchangeTimeout + codeLifetime
    BY <1>1, <1>4, <1>5, <2>1, IdentifiedLemma
  <2> QED
    BY <1>2, <1>7, <2>1, <2>2, <2>3, <2>4 DEF CodeInv, VouchedFor
<1>9. /\ req' \in [Requests -> Handlers]
      /\ \A q \in Requests : q # r => req'[q] = req[q]
      /\ HandlerInv(req[r])'
  BY <1>2, ReplyLemma DEF IInv
<1> QED
  BY <1>2, <1>3, <1>8, <1>9, StepLemma

\* The access credential that mint seals for an account Google vouched for.
LEMMA MintLemma ==
  ASSUME IInv, Onward, UNCHANGED <<now, state, google, lostAt>>,
         NEW f \in Flows, OfFlow(f, secret), NEW user \in Users, user = google[f].user,
         NEW vouched \in Nat, NEW verified \in BOOLEAN, vouched <= now,
         verified => vouched <= lostAt[user],
         NEW by \in {"authorization_code", "refresh_token"},
         now <= vouched + exchangeTimeout
                  + (IF by = "authorization_code" THEN codeLifetime ELSE 0),
         NEW c, c = mint(user, verified, vouched, f, by)
  PROVE  c \in AccessCredentials /\ AccessInv(c)'
<1>1. /\ now \in Nat /\ secret \in Nat /\ accessLifetime \in Nat
      /\ exchangeTimeout \in Nat /\ codeLifetime \in Nat
  BY NumbersLemma DEF IInv
<1>2. /\ c.holder = f /\ c.key = secret /\ c.user = user /\ c.verified = verified
      /\ c.expiresAt = now + accessLifetime /\ c.vouched = vouched /\ c.by = by
  BY DEF mint
<1>3. c \in AccessCredentials
  BY <1>1 DEF mint, AccessCredentials
<1>4. OfFlow(c.holder, c.key)'
  BY <1>2 DEF OfFlow
<1>5. c.expiresAt <= c.vouched + exchangeTimeout + accessLifetime
                       + (IF c.by = "authorization_code" THEN codeLifetime ELSE 0)
  BY <1>1, <1>2
<1> QED
  BY <1>2, <1>3, <1>4, <1>5 DEF AccessInv, VouchedFor

\* The refresh credential that is sealed for a flow's own grant.
LEMMA SealRefreshLemma ==
  ASSUME IInv, UNCHANGED <<state, google>>, NEW f \in Flows, OfFlow(f, secret),
         NEW u \in Upstreams, u.grant = f, u.serial <= MaxRotations,
         NEW c, c = SealRefresh(u, f)
  PROVE  c \in RefreshCredentials /\ RefreshInv(c)'
<1>1. c.holder = f /\ c.key = secret /\ c.upstream = u
  BY DEF SealRefresh
<1>2. secret \in Nat
  BY NumbersLemma DEF IInv
<1>3. c \in RefreshCredentials
  BY <1>2 DEF SealRefresh, RefreshCredentials
<1>4. OfFlow(c.holder, c.key)'
  BY <1>1 DEF OfFlow
<1> QED
  BY <1>1, <1>3, <1>4 DEF RefreshInv

\* A renewal is answered with credentials of the session it renews.
LEMMA IssueFromRenewalLemma ==
  ASSUME IInv, NEW r \in Requests, IssueFromRenewal(r)
  PROVE  IInv'
<1> DEFINE f == req[r].flow
           u == req[r].upstream
           user == google[req[r].upstream.grant].user
<1>1. req[r].pc = "identified"
  BY DEF IssueFromRenewal
<1>2. /\ UNCHANGED <<now, server, state, codes, google, lostAt, stranded>>
      /\ refreshes' = refreshes \/ refreshes' = refreshes \cup {SealRefresh(u, f)}
      /\ accesses' = accesses \cup
           {mint(user, req[r].verified, req[r].vouched, f, "refresh_token")}
      /\ Reply(r, "issued") /\ "issued" \in Answers
  BY DEF IssueFromRenewal, Answers
<1>3. Onward /\ stranded' \in SUBSET (Flows \X Losses)
  BY <1>2, StaysLemma DEF IInv, TypeOK
<1>4. /\ f \in Flows /\ u \in Upstreams /\ u.grant = f /\ u.serial <= MaxRotations
      /\ OfFlow(f, secret) /\ user \in Users /\ user = google[f].user
      /\ req[r].vouched \in Nat /\ req[r].verified \in BOOLEAN
      /\ req[r].vouched <= now /\ now <= req[r].vouched + exchangeTimeout
      /\ req[r].verified => req[r].vouched <= lostAt[user]
  BY <1>1, IdentifiedLemma
<1>5. now <= req[r].vouched + exchangeTimeout
               + (IF "refresh_token" = "authorization_code" THEN codeLifetime ELSE 0)
  BY <1>4, NumbersLemma DEF IInv
<1>6. /\ req' \in [Requests -> Handlers]
      /\ \A q \in Requests : q # r => req'[q] = req[q]
      /\ HandlerInv(req[r])'
  BY <1>2, ReplyLemma DEF IInv
<1> HIDE DEF f, u, user
<1>7. ASSUME NEW c \in accesses', c \notin accesses
      PROVE  c \in AccessCredentials /\ AccessInv(c)'
  <2>1. c = mint(user, req[r].verified, req[r].vouched, f, "refresh_token")
    BY <1>2, <1>7
  <2> QED
    BY <1>2, <1>3, <1>4, <1>5, <2>1, MintLemma
<1>8. ASSUME NEW c \in refreshes', c \notin refreshes
      PROVE  c \in RefreshCredentials /\ RefreshInv(c)'
  <2>1. c = SealRefresh(u, f)
    BY <1>2, <1>8
  <2> QED
    BY <1>2, <1>4, <2>1, SealRefreshLemma
<1> QED
  BY <1>2, <1>3, <1>6, <1>7, <1>8, StepLemma

\* A code is exchanged for the credentials of the session of its flow.
LEMMA IssueFromCodeLemma ==
  ASSUME IInv, NEW r \in Requests, NEW c \in refreshes \cup codes \cup accesses,
         NEW v \in Flows, NEW uri, IssueFromCode(r, c, v, uri)
  PROVE  IInv'
<1>1. /\ UNCHANGED <<now, server, state, google, lostAt, stranded>>
  BY DEF IssueFromCode
<1>2. Onward /\ stranded' \in SUBSET (Flows \X Losses)
  BY <1>1, StaysLemma DEF IInv, TypeOK
<1>3. CASE ~accepts(uri) \/ ~Exchangeable(c, v)
  <2>1. Reply(r, "invalid_grant") /\ "invalid_grant" \in Answers /\ UNCHANGED sealed
    BY <1>3 DEF IssueFromCode, Answers
  <2> QED
    BY <1>1, <1>2, <2>1, AnswerLemma
<1>4. CASE accepts(uri) /\ Exchangeable(c, v) /\ ~CodeAdmissible(c)
  <2>1. Reply(r, "forbidden") /\ "forbidden" \in Answers /\ UNCHANGED sealed
    BY <1>4 DEF IssueFromCode, Answers
  <2> QED
    BY <1>1, <1>2, <2>1, AnswerLemma
<1>5. CASE accepts(uri) /\ Exchangeable(c, v) /\ CodeAdmissible(c)
  <2>1. /\ refreshes' = refreshes \cup {SealRefresh(c.upstream, v)}
        /\ accesses' = accesses \cup
             {mint(c.user, c.verified, c.vouched, v, "authorization_code")}
        /\ Reply(r, "issued") /\ "issued" \in Answers
        /\ codes' = codes
    BY <1>5 DEF IssueFromCode, Answers
  <2>2. /\ c \in Codes /\ CodeInv(c) /\ c.key = secret /\ c.challenge = v
        /\ now < c.expiresAt
    BY <1>5 DEF Exchangeable, OpensAsCode, IInv, TypeOK, SealedInv
  <2>3. /\ c.user \in Users /\ c.vouched \in Nat /\ c.verified \in BOOLEAN
        /\ c.upstream \in Upstreams /\ c.expiresAt \in Nat
    BY <2>2 DEF Codes
  <2>4. /\ OfFlow(v, secret) /\ c.user = google[v].user
        /\ c.vouched <= now /\ (c.verified => c.vouched <= lostAt[c.user])
        /\ c.upstream.grant = v /\ c.upstream.serial <= MaxRotations
        /\ c.expiresAt <= c.vouched + exchangeTimeout + codeLifetime
    BY <2>2 DEF CodeInv, VouchedFor
  <2>5. now <= c.vouched + exchangeTimeout
          + (IF "authorization_code" = "authorization_code" THEN codeLifetime ELSE 0)
    BY <2>2, <2>3, <2>4, NumbersLemma DEF IInv
  <2>6. /\ req' \in [Requests -> Handlers]
        /\ \A q \in Requests : q # r => req'[q] = req[q]
        /\ HandlerInv(req[r])'
    BY <2>1, ReplyLemma DEF IInv
  <2>7. ASSUME NEW a \in accesses', a \notin accesses
        PROVE  a \in AccessCredentials /\ AccessInv(a)'
    <3>1. a = mint(c.user, c.verified, c.vouched, v, "authorization_code")
      BY <2>1, <2>7
    <3> QED
      BY <1>1, <1>2, <2>3, <2>4, <2>5, <3>1, MintLemma
  <2>8. ASSUME NEW a \in refreshes', a \notin refreshes
        PROVE  a \in RefreshCredentials /\ RefreshInv(a)'
    <3>1. a = SealRefresh(c.upstream, v)
      BY <2>1, <2>8
    <3> QED
      BY <1>1, <2>3, <2>4, <3>1, SealRefreshLemma
  <2> QED
    BY <1>1, <1>2, <2>1, <2>6, <2>7, <2>8, StepLemma
<1> QED
  BY <1>3, <1>4, <1>5

-----------------------------------------------------------------------------
(* The steps of no handler, and the theorem *)

\* Everybody waits: the invariant stays with what moves onward.
LEMMA OnwardLemma ==
  ASSUME IInv, Onward, UNCHANGED <<server, sealed, req, stranded>>,
         \A r \in Requests : Waiting(r) => now' <= req[r].until
  PROVE  IInv'
<1>1. /\ config' = config /\ secret' = secret /\ req' = req /\ stranded' = stranded
      /\ codes' = codes /\ refreshes' = refreshes /\ accesses' = accesses
  BY DEF server, sealed
<1>2. TypeOK'
  BY <1>1 DEF IInv, TypeOK, Onward, StatesOnward, GoogleOnward, LossesOnward, ClockOnward
<1>3. SealedInv'
  BY <1>1, SealedLemma DEF IInv, SealedInv
<1>4. ASSUME NEW r \in Requests PROVE HandlerInv(req[r])'
  BY <1>1, WaitingLemma DEF IInv, server
<1>5. HandlersInv'
  BY <1>4 DEF HandlersInv
<1> QED
  BY <1>2, <1>3, <1>5 DEF IInv, Onward, GoogleOnward

LEMMA InTimeLemma ==
  ASSUME IInv, now' = now
  PROVE  \A r \in Requests : Waiting(r) => now' <= req[r].until
BY DEF IInv, HandlersInv, HandlerInv, Waiting

\* /authorize begins a flow that had not begun.
LEMMA AuthorizeLemma ==
  ASSUME IInv, NEW f \in Flows, Authorize(f)
  PROVE  IInv'
<1> DEFINE e == [state[f] EXCEPT !.key = secret, !.started = TRUE]
<1>1. state \in [Flows -> States] /\ state[f] \in States /\ secret \in Nat
  BY NumbersLemma DEF IInv, TypeOK
<1>2. e \in States
  BY <1>1 DEF States
<1>3. state' = [state EXCEPT ![f] = e]
  BY Zenon DEF Authorize
<1> HIDE DEF e
<1>4. ~state[f].started
  BY DEF Authorize
<1>5. StatesOnward
  BY <1>1, <1>2, <1>3, <1>4 DEF StatesOnward
<1>6. UNCHANGED <<now, server, sealed, req, google, lostAt, stranded>>
  BY DEF Authorize
<1>7. Onward
  BY <1>5, <1>6, NumbersAssumption
  DEF IInv, TypeOK, GrantsInv, Onward, GoogleOnward, LossesOnward, ClockOnward
<1> QED
  BY <1>6, <1>7, InTimeLemma, OnwardLemma

\* A user consents in a flow nobody has consented in.
LEMMA ConsentLemma ==
  ASSUME IInv, NEW f \in Flows, NEW u \in Users, Consent(f, u)
  PROVE  IInv'
<1> DEFINE e == [google[f] EXCEPT !.user = u]
<1>1. google[f] \in Grants /\ GrantInv(google[f]) /\ google[f].user = NoUser
  BY DEF IInv, TypeOK, GrantsInv, Consent
<1>2. e \in Grants /\ e.spent = google[f].spent /\ e.serial = google[f].serial
  BY <1>1 DEF Grants
<1>3. google' = [google EXCEPT ![f] = e]
  BY Zenon DEF Consent
<1>4. UNCHANGED <<now, server, state, sealed, req, lostAt, stranded>>
  BY DEF Consent
<1> HIDE DEF e
<1>5. Onward
  BY <1>1, <1>2, <1>3, <1>4, GoogleLemma DEF GrantInv
<1> QED
  BY <1>4, <1>5, InTimeLemma, OnwardLemma

\* An account is lost.
LEMMA RevokeLemma ==
  ASSUME IInv, NEW u \in Users, Revoke(u)
  PROVE  IInv'
<1>1. /\ UNCHANGED <<now, server, state, sealed, req, google, stranded>>
      /\ lostAt' = [lostAt EXCEPT ![u] = now]
  BY DEF Revoke
<1>2. now \in 0 .. Never /\ lostAt \in [Users -> 0 .. Never]
  BY NumbersAssumption DEF IInv, TypeOK, Never
<1>3. LossesOnward
  BY <1>1, <1>2 DEF LossesOnward
<1>4. Onward
  BY <1>1, <1>3, NumbersAssumption
  DEF IInv, TypeOK, GrantsInv, Onward, StatesOnward, GoogleOnward, ClockOnward
<1> QED
  BY <1>1, <1>4, InTimeLemma, OnwardLemma

\* The clock does not pass the timeout of a call to Google.
LEMMA TickLemma ==
  ASSUME IInv, Tick
  PROVE  IInv'
<1>1. /\ UNCHANGED <<server, state, sealed, req, google, lostAt, stranded>>
      /\ now' = now + 1 /\ now < MaxTime
      /\ \A r \in Requests : Waiting(r) => now < req[r].until
  BY DEF Tick
<1>2. now \in Nat /\ MaxTime \in Nat /\ now' \in 0 .. MaxTime
  BY <1>1, NumbersAssumption DEF IInv, TypeOK
<1>3. Onward
  BY <1>1, <1>2
  DEF IInv, TypeOK, GrantsInv, Onward, StatesOnward, GoogleOnward, LossesOnward, ClockOnward
<1>4. ASSUME NEW r \in Requests, Waiting(r) PROVE now' <= req[r].until
  BY <1>1, <1>2, <1>4 DEF IInv, TypeOK, Handlers
<1> QED
  BY <1>1, <1>3, <1>4, OnwardLemma

\* A restart ends every handler; the credentials stay with their holders.
LEMMA RestartLemma ==
  ASSUME IInv, NEW cfg \in Configs, NEW key \in {secret, secret + 1},
         key <= MaxSecret, Restart(cfg, key)
  PROVE  IInv'
<1>1. /\ UNCHANGED <<now, state, google, lostAt>>
      /\ codes' = codes /\ refreshes' = refreshes /\ accesses' = accesses
      /\ config' = cfg /\ secret' = key
      /\ req' = [r \in Requests |-> NoHandler]
  BY DEF Restart, sealed
<1>2. Onward
  BY <1>1, StaysLemma
<1>3. secret' \in 0 .. MaxSecret
  BY <1>1, NumbersAssumption DEF IInv, TypeOK
<1>4. stranded' \in SUBSET (Flows \X Losses)
  <2>1. \A r \in Requests : Loses(r, "stopped") \subseteq Flows \X Losses
    BY LosesLemma DEF Losses
  <2>2. UNION {Loses(r, "stopped") : r \in Requests} \subseteq Flows \X Losses
    BY <2>1
  <2> QED
    BY <2>2 DEF Restart, IInv, TypeOK
<1>5. req' \in [Requests -> Handlers] /\ HandlersInv'
  BY <1>1, NoHandlerLemma DEF HandlersInv, HandlerInv
<1>6. TypeOK'
  BY <1>1, <1>3, <1>4, <1>5 DEF IInv, TypeOK
<1>7. SealedInv'
  BY <1>1, <1>2, SealedLemma DEF IInv, SealedInv
<1> QED
  BY <1>2, <1>5, <1>6, <1>7 DEF IInv, Onward, GoogleOnward

LEMMA InitLemma == Init => IInv
<1> SUFFICES ASSUME Init PROVE IInv
  OBVIOUS
<1>1. now \in 0 .. MaxTime /\ secret \in 0 .. MaxSecret /\ lostAt \in [Users -> 0 .. Never]
  BY NumbersAssumption DEF Init, Never
<1>2. state \in [Flows -> States]
  <2>1. \A u \in URIs : [uri |-> u, key |-> 0, started |-> FALSE] \in States
    BY DEF States
  <2> QED
    BY <2>1 DEF Init
<1>3. google \in [Flows -> Grants] /\ GrantsInv
  BY NumbersAssumption DEF Init, Grants, GrantsInv, GrantInv
<1>4. req \in [Requests -> Handlers] /\ HandlersInv
  BY NoHandlerLemma DEF Init, HandlersInv, HandlerInv
<1>5. TypeOK
  BY <1>1, <1>2, <1>3, <1>4 DEF Init, TypeOK
<1> QED
  BY <1>3, <1>4, <1>5 DEF Init, IInv, SealedInv

LEMMA StutterLemma ==
  ASSUME IInv, UNCHANGED vars
  PROVE  IInv'
BY StaysLemma, InTimeLemma, OnwardLemma DEF vars, server, sealed

LEMMA NextLemma == IInv /\ [Next]_vars => IInv'
<1> SUFFICES ASSUME IInv, [Next]_vars PROVE IInv'
  OBVIOUS
<1>1. ASSUME NEW f \in Flows, Authorize(f) PROVE IInv'
  BY <1>1, AuthorizeLemma
<1>2. ASSUME NEW r \in Requests, NEW f \in Flows, NEW g \in Flows \cup {NoFlow},
             Callback(r, f, g)
      PROVE  IInv'
  BY <1>2, CallbackLemma
<1>3. ASSUME NEW r \in Requests, NEW c \in refreshes \cup codes \cup accesses, Renew(r, c)
      PROVE  IInv'
  BY <1>3, RenewLemma
<1>4. ASSUME NEW r \in Requests, NEW c \in refreshes \cup codes \cup accesses,
             NEW v \in Flows, NEW uri \in URIs, IssueFromCode(r, c, v, uri)
      PROVE  IInv'
  BY <1>4, IssueFromCodeLemma
<1>5. ASSUME NEW r \in Requests, Exchange(r) PROVE IInv'
  BY <1>5, ExchangeLemma
<1>6. ASSUME NEW r \in Requests, RenewalAnswered(r) PROVE IInv'
  BY <1>6, RenewalAnsweredLemma
<1>7. ASSUME NEW r \in Requests, GoogleVouches(r) PROVE IInv'
  BY <1>7, GoogleVouchesLemma
<1>8. ASSUME NEW r \in Requests, Resume(r) PROVE IInv'
  BY <1>8, ExchangeFailsLemma, RenewalRefusedLemma, RenewalUnavailableLemma,
     IdentityFailsLemma, IdentityRefusedLemma, RedirectLemma, IssueFromRenewalLemma
  DEF Resume
<1>9. ASSUME NEW cfg \in Configs, NEW key \in {secret, secret + 1},
             key <= MaxSecret, Restart(cfg, key)
      PROVE  IInv'
  BY <1>9, RestartLemma
<1>10. ASSUME NEW f \in Flows, NEW u \in Users, Consent(f, u) PROVE IInv'
  BY <1>10, ConsentLemma
<1>11. ASSUME NEW u \in Users, Revoke(u) PROVE IInv'
  BY <1>11, RevokeLemma
<1>12. CASE Tick
  BY <1>12, TickLemma
<1>13. CASE UNCHANGED vars
  BY <1>13, StutterLemma
<1> QED
  BY <1>1, <1>2, <1>3, <1>4, <1>5, <1>6, <1>7, <1>8, <1>9, <1>10, <1>11, <1>12, <1>13
  DEF Next

\* The credentials and the handlers always go back to flows that were begun,
\* consented to and redeemed: what authflow seals, and what it may yet seal,
\* is bound to one grant and to what Google vouched for.
THEOREM Invariance == Spec => []IInv
<1>1. Init => IInv
  BY InitLemma
<1>2. IInv /\ [Next]_vars => IInv'
  BY NextLemma
<1> QED
  BY <1>1, <1>2, PTL DEF Spec

\* Every variable keeps its type.
THEOREM TypeCorrect == Spec => []TypeOK
<1>1. IInv => TypeOK
  BY DEF IInv
<1> QED
  BY <1>1, Invariance, PTL

-----------------------------------------------------------------------------
(* Safety *)

\* Two sign-ins never cross (finish and exchangeCode bind a session to the
\* challenge inside the sealed state): whatever is sealed speaks of the account
\* and of the grant of the flow whose verifier obtains it.
THEOREM SessionsNeverCross == Spec => []SessionOfItsFlow
<1>1. IInv => SessionOfItsFlow
  BY DEF IInv, SealedInv, SessionOfItsFlow, CodeInv, RefreshInv, AccessInv
<1> QED
  BY <1>1, Invariance, PTL

\* A new sealing secret ends every session (internal/auth's sealed values open
\* under the secret they were sealed with): a credential carries the key under
\* which its flow was begun at /authorize.
THEOREM SecretEndsThemAll == Spec => []SecretEndsSessions
<1>1. IInv => SecretEndsSessions
  BY DEF IInv, SealedInv, SecretEndsSessions, CodeInv, RefreshInv, AccessInv, OfFlow
<1> QED
  BY <1>1, Invariance, PTL

\* Revocation reaches every session within the lifetimes and one call to
\* Google, although authflow keeps no list of sessions.
THEOREM RevocationReaches == Spec => []RevocationTail
<1>1. IInv => RevocationTail
  <2> SUFFICES ASSUME IInv, NEW c \in accesses, AdmitsSealed(c)
               PROVE  now < lostAt[c.user] + exchangeTimeout + accessLifetime
                        + (IF c.by = "authorization_code" THEN codeLifetime ELSE 0)
    BY DEF RevocationTail
  <2>1. /\ c \in AccessCredentials /\ AccessInv(c) /\ now < c.expiresAt /\ c.verified
    BY DEF IInv, TypeOK, SealedInv, AdmitsSealed
  <2>2. /\ c.user \in Users /\ c.expiresAt \in Nat /\ c.vouched \in Nat
    BY <2>1 DEF AccessCredentials
  <2>3. lostAt[c.user] \in Nat
    BY <2>2, NumbersAssumption DEF IInv, TypeOK, Never
  <2>4. /\ c.vouched <= lostAt[c.user]
        /\ c.expiresAt <= c.vouched + exchangeTimeout + accessLifetime
             + (IF c.by = "authorization_code" THEN codeLifetime ELSE 0)
    BY <2>1 DEF AccessInv, VouchedFor
  <2> QED
    BY <2>1, <2>2, <2>3, <2>4, NumbersLemma DEF IInv
<1> QED
  BY <1>1, Invariance, PTL

-----------------------------------------------------------------------------
(* No refresh token is lost *)

\* What one handler's step must leave behind: the grants Google moved are lost
\* or in the handler's hands, and what the handler held is still in its hands,
\* or lost, or sealed.
LEMMA ReachableLemma ==
  ASSUME GrantReachable, NEW r \in Requests,
         \A q \in Requests : q # r => req'[q] = req[q],
         stranded \subseteq stranded', codes \subseteq codes', refreshes \subseteq refreshes',
         \A g \in Flows :
           \/ google'[g].spent = google[g].spent /\ google'[g].serial = google[g].serial
           \/ Lost(g)'
           \/ g \in Unsealed(r)' /\ req'[r].upstream.serial = google'[g].serial,
         \A g \in Unsealed(r) :
           \/ Lost(g)'
           \/ \E c \in codes' \cup refreshes' : c.upstream = req[r].upstream
           \/ g \in Unsealed(r)' /\ req'[r].upstream = req[r].upstream,
         Unsealed(r) # {} => req[r].upstream \in Upstreams
  PROVE  GrantReachable'
<1> SUFFICES ASSUME NEW g \in Flows, google'[g].spent, ~Lost(g)'
             PROVE  \/ \E c \in codes' \cup refreshes' :
                         c.upstream = [grant |-> g, serial |-> google'[g].serial]
                    \/ \E q \in Requests :
                         /\ g \in Unsealed(q)'
                         /\ req'[q].upstream.serial = google'[g].serial
  BY DEF GrantReachable
<1>0. ~Lost(g)
  BY DEF Lost
<1>1. CASE ~(google'[g].spent = google[g].spent /\ google'[g].serial = google[g].serial)
  BY <1>1
<1>2. CASE google'[g].spent = google[g].spent /\ google'[g].serial = google[g].serial
  <2>1. \/ \E c \in codes \cup refreshes :
             c.upstream = [grant |-> g, serial |-> google[g].serial]
        \/ \E q \in Requests :
             /\ g \in Unsealed(q)
             /\ req[q].upstream.serial = google[g].serial
    BY <1>0, <1>2 DEF GrantReachable
  <2>2. CASE \E c \in codes \cup refreshes :
               c.upstream = [grant |-> g, serial |-> google[g].serial]
    BY <1>2, <2>2
  <2>3. ASSUME NEW q \in Requests, g \in Unsealed(q),
               req[q].upstream.serial = google[g].serial, q # r
        PROVE  g \in Unsealed(q)' /\ req'[q].upstream.serial = google'[g].serial
    BY <1>2, <2>3 DEF Unsealed
  <2>4. CASE g \in Unsealed(r) /\ req[r].upstream.serial = google[g].serial
    <3>1. req[r].upstream = [grant |-> g, serial |-> google[g].serial]
      BY <2>4 DEF Unsealed, Upstreams
    <3> QED
      BY <1>2, <2>4, <3>1
  <2> QED
    BY <2>1, <2>2, <2>3, <2>4
<1> QED
  BY <1>1, <1>2

\* Handlers that hold nothing: before Google's answer, and after their own.
LEMMA EmptyHandedLemma ==
  ASSUME NEW r \in Requests, req[r].pc \notin {"identifying", "identified"}
  PROVE  Unsealed(r) = {}
BY DEF Unsealed

LEMMA UpstreamLemma ==
  ASSUME IInv, NEW r \in Requests, Unsealed(r) # {}
  PROVE  req[r].upstream \in Upstreams
BY DEF IInv, TypeOK, Handlers, Unsealed

\* A handler that holds nothing leaves everything as it is.
LEMMA NothingHeldLemma ==
  ASSUME IInv, GrantReachable, NEW r \in Requests,
         req[r].pc \notin {"identifying", "identified"},
         \A q \in Requests : q # r => req'[q] = req[q],
         stranded' = stranded, google' = google,
         codes \subseteq codes', refreshes \subseteq refreshes'
  PROVE  GrantReachable'
BY EmptyHandedLemma, ReachableLemma

\* Whoever answers moves alone.
LEMMA AloneLemma ==
  ASSUME IInv, NEW r \in Requests, NEW a, Reply(r, a)
  PROVE  \A q \in Requests : q # r => req'[q] = req[q]
BY DEF Reply, IInv, TypeOK

LEMMA StartsReachable ==
  ASSUME IInv, GrantReachable, NEW r \in Requests,
         \/ \E f \in Flows, g \in Flows \cup {NoFlow} : Callback(r, f, g)
         \/ \E c \in refreshes \cup codes \cup accesses : Renew(r, c)
         \/ \E c \in refreshes \cup codes \cup accesses, v \in Flows, uri \in URIs :
              IssueFromCode(r, c, v, uri)
         \/ RenewalRefused(r)
  PROVE  GrantReachable'
<1>1. \A q \in Requests : q # r => req'[q] = req[q]
  BY DEF Callback, Renew, IssueFromCode, RenewalRefused, Reply, IInv, TypeOK
<1>2. /\ req[r].pc \notin {"identifying", "identified"}
      /\ stranded' = stranded /\ google' = google
      /\ codes \subseteq codes' /\ refreshes \subseteq refreshes'
  BY DEF Callback, Renew, IssueFromCode, RenewalRefused, sealed
<1> QED
  BY <1>1, <1>2, NothingHeldLemma

\* The token of the code that was redeemed is in the handler's hands.
LEMMA ExchangeReachable ==
  ASSUME IInv, GrantReachable, NEW r \in Requests, Exchange(r)
  PROVE  GrantReachable'
<1>1. req[r].pc = "exchanging" /\ req[r].pc # "idle"
  BY DEF Exchange
<1>2. /\ req[r].flow \in Flows /\ req[r].upstream \in Upstreams
      /\ HandlerInv(req[r]) /\ GrantInv(google[req[r].upstream.grant])
  BY <1>1, WorkLemma
<1>3. /\ req[r].upstream.grant = req[r].flow
      /\ ~google[req[r].flow].spent
      /\ UNCHANGED <<now, server, state, sealed, lostAt, stranded>>
      /\ AskIdentity(r, req[r].upstream)
  BY DEF Exchange, Redeems
<1>4. /\ Onward /\ google'[req[r].flow].spent
      /\ google'[req[r].flow].serial = google[req[r].flow].serial
      /\ \A h \in Flows : h # req[r].flow => google'[h] = google[h]
  BY <1>2, <1>3, RedeemsLemma DEF Exchange
<1>5. ~req[r].renewal /\ req[r].upstream.serial = 0 /\ req[r].upstream.serial <= MaxRotations
  BY <1>1, <1>2 DEF HandlerInv
<1>6. /\ req'[r].pc = "identifying" /\ req'[r].upstream = req[r].upstream
      /\ req'[r].renewal = req[r].renewal
      /\ \A q \in Requests : q # r => req'[q] = req[q]
  BY <1>1, <1>2, <1>3, <1>4, <1>5, AskLemma
<1>7. Unsealed(r) = {} /\ req[r].flow \in Unsealed(r)'
  BY <1>1, <1>3, <1>5, <1>6 DEF Unsealed
<1>8. req'[r].upstream.serial = google'[req[r].flow].serial
  BY <1>2, <1>3, <1>4, <1>5, <1>6 DEF GrantInv
<1> QED
  BY <1>3, <1>4, <1>6, <1>7, <1>8, ReachableLemma DEF sealed

LEMMA ExchangeFailsReachable ==
  ASSUME IInv, GrantReachable, NEW r \in Requests, ExchangeFails(r)
  PROVE  GrantReachable'
<1> DEFINE f == req[r].upstream.grant
<1>1. f \in Flows
  BY WorkLemma DEF ExchangeFails
<1>2. /\ UNCHANGED <<now, server, state, sealed, lostAt>> /\ Reply(r, "exchange failed")
      /\ req[r].pc = "exchanging"
  BY DEF ExchangeFails
<1>3. \/ UNCHANGED <<google, stranded>>
      \/ /\ google' = [google EXCEPT ![f] = [@ EXCEPT !.spent = TRUE]]
         /\ stranded' = stranded \cup {<<f, "answer lost">>}
  BY DEF ExchangeFails
<1> HIDE DEF f
<1>4. \A g \in Flows : google'[g] = google[g] \/ Lost(g)'
  BY <1>1, <1>2, <1>3, RedeemsLemma DEF Lost, Losses
<1> QED
  BY <1>2, <1>3, <1>4, AloneLemma, EmptyHandedLemma, ReachableLemma DEF sealed

\* The token that replaces another is in the handler's hands.
LEMMA RenewalAnsweredReachable ==
  ASSUME IInv, GrantReachable, NEW r \in Requests, RenewalAnswered(r)
  PROVE  GrantReachable'
<1> DEFINE u == req[r].upstream
<1>1. req[r].pc = "renewing"
  BY DEF RenewalAnswered
<1>2. /\ u \in Upstreams /\ u.grant = req[r].flow /\ req[r].flow \in Flows
      /\ google[req[r].flow].spent /\ u.serial \in Nat
      /\ req[r].presented = u
  BY <1>1, RenewingLemma
<1>3. /\ UNCHANGED <<now, server, state, sealed, lostAt, stranded>>
      /\ google[u.grant].serial = u.serial
  BY DEF RenewalAnswered, Renewable
<1>4. PICK serial \in {u.serial, u.serial + 1} :
        /\ RotatesTo(u, [u EXCEPT !.serial = serial])
        /\ AskIdentity(r, [u EXCEPT !.serial = serial])
  BY DEF RenewalAnswered
<1> DEFINE v == [u EXCEPT !.serial = serial]
<1>5. v \in Upstreams /\ v.grant = u.grant /\ v.serial = serial
  BY <1>2 DEF Upstreams
<1>6. RotatesTo(u, v) /\ AskIdentity(r, v)
  BY <1>4
<1> HIDE DEF u, v
<1>7. /\ Onward /\ v.serial <= MaxRotations
      /\ google'[req[r].flow].spent /\ google'[req[r].flow].serial = v.serial
      /\ \A h \in Flows : h # req[r].flow => google'[h] = google[h]
  BY <1>2, <1>3, <1>5, <1>6, RotatesLemma
<1>8. u = req[r].upstream
  BY DEF u
<1>9. /\ req'[r].pc = "identifying" /\ req'[r].upstream = v
      /\ req'[r].presented = req[r].presented
      /\ \A q \in Requests : q # r => req'[q] = req[q]
  BY <1>1, <1>2, <1>3, <1>5, <1>6, <1>7, <1>8, AskLemma
<1>10. Unsealed(r) = {}
  BY <1>1, EmptyHandedLemma
<1>11. CASE serial = u.serial
  <2>1. google'[req[r].flow].spent \in BOOLEAN /\ google[req[r].flow].spent \in BOOLEAN
    BY <1>2, <1>7 DEF Onward, GoogleOnward, IInv, TypeOK, Grants
  <2>2. google'[req[r].flow].spent = google[req[r].flow].spent
    BY <1>2, <1>7, <2>1
  <2>3. google'[req[r].flow].serial = google[req[r].flow].serial
    BY <1>2, <1>3, <1>5, <1>7, <1>11
  <2> QED
    BY <1>3, <1>7, <1>9, <1>10, <2>2, <2>3, ReachableLemma DEF sealed
<1>12. CASE serial # u.serial
  <2>1. v # u
    BY <1>5, <1>12
  <2>2. req[r].flow \in Unsealed(r)'
    BY <1>2, <1>5, <1>9, <2>1 DEF Unsealed
  <2> QED
    BY <1>3, <1>7, <1>9, <1>10, <2>2, ReachableLemma DEF sealed
<1> QED
  BY <1>11, <1>12

LEMMA RenewalUnavailableReachable ==
  ASSUME IInv, GrantReachable, NEW r \in Requests, RenewalUnavailable(r)
  PROVE  GrantReachable'
<1> DEFINE u == req[r].upstream
           v == [u EXCEPT !.serial = u.serial + 1]
<1>1. /\ UNCHANGED <<now, server, state, sealed, lostAt>> /\ Reply(r, "unavailable")
      /\ req[r].pc = "renewing"
  BY DEF RenewalUnavailable
<1>2. /\ u \in Upstreams /\ u.grant \in Flows /\ google[u.grant].spent
      /\ u.serial \in Nat
  BY <1>1, RenewingLemma
<1>3. v \in Upstreams
  BY <1>2 DEF Upstreams
<1>4. \/ UNCHANGED <<google, stranded>>
      \/ /\ google[u.grant].serial = u.serial
         /\ RotatesTo(u, v)
         /\ stranded' = stranded \cup {<<u.grant, "answer lost">>}
  BY DEF RenewalUnavailable, Renewable
<1> HIDE DEF u, v
<1>5. \A g \in Flows : google'[g] = google[g] \/ Lost(g)'
  BY <1>1, <1>2, <1>3, <1>4, RotatesLemma DEF Lost, Losses
<1> QED
  BY <1>1, <1>4, <1>5, AloneLemma, EmptyHandedLemma, ReachableLemma DEF sealed

LEMMA GoogleVouchesReachable ==
  ASSUME IInv, GrantReachable, NEW r \in Requests, GoogleVouches(r)
  PROVE  GrantReachable'
<1>1. /\ req'[r].pc = "identified" /\ req'[r].upstream = req[r].upstream
      /\ req'[r].renewal = req[r].renewal /\ req'[r].presented = req[r].presented
      /\ \A q \in Requests : q # r => req'[q] = req[q]
      /\ req[r].pc = "identifying"
  BY GoogleVouchesLemma DEF GoogleVouches
<1>2. Unsealed(r)' = Unsealed(r)
  BY <1>1 DEF Unsealed
<1>3. UNCHANGED <<sealed, google, stranded>>
  BY DEF GoogleVouches
<1> QED
  BY <1>1, <1>2, <1>3, UpstreamLemma, ReachableLemma DEF sealed

\* A handler that gives up, or turns its user away, loses what it held.
LEMMA GivesUpReachable ==
  ASSUME IInv, GrantReachable, NEW r \in Requests, IdentityFails(r) \/ IdentityRefused(r)
  PROVE  GrantReachable'
<1>1. PICK a \in Answers : Reply(r, a)
  BY DEF IdentityFails, IdentityRefused, Answers
<1>2. PICK why \in Losses :
        UNCHANGED <<sealed, google>> /\ stranded' = stranded \cup Loses(r, why)
  BY DEF IdentityFails, IdentityRefused, Losses
<1>3. \A g \in Unsealed(r) : Lost(g)'
  BY <1>2 DEF Loses, Lost
<1> QED
  BY <1>1, <1>2, <1>3, AloneLemma, UpstreamLemma, ReachableLemma DEF sealed

\* The code carries the token the handler held.
LEMMA RedirectReachable ==
  ASSUME IInv, GrantReachable, NEW r \in Requests, Redirect(r)
  PROVE  GrantReachable'
<1>1. /\ codes' = codes \cup {SealAuthorizationCode(r)}
      /\ Reply(r, "redirected")
      /\ refreshes' = refreshes /\ google' = google /\ stranded' = stranded
  BY DEF Redirect
<1>2. SealAuthorizationCode(r).upstream = req[r].upstream
  BY DEF SealAuthorizationCode
<1>3. \E c \in codes' \cup refreshes' : c.upstream = req[r].upstream
  BY <1>1, <1>2
<1> QED
  BY <1>1, <1>3, AloneLemma, UpstreamLemma, ReachableLemma

\* The new refresh credential carries it, or the presented one already does.
LEMMA IssueFromRenewalReachable ==
  ASSUME IInv, GrantReachable, NEW r \in Requests, IssueFromRenewal(r)
  PROVE  GrantReachable'
<1>1. /\ refreshes' = IF req[r].upstream = req[r].presented THEN refreshes
                      ELSE refreshes \cup {SealRefresh(req[r].upstream, req[r].flow)}
      /\ Reply(r, "issued") /\ req[r].renewal
      /\ codes' = codes /\ google' = google /\ stranded' = stranded
  BY DEF IssueFromRenewal
<1>2. CASE req[r].upstream = req[r].presented
  <2>1. Unsealed(r) = {}
    BY <1>1, <1>2 DEF Unsealed
  <2> QED
    BY <1>1, <2>1, AloneLemma, ReachableLemma
<1>3. CASE req[r].upstream # req[r].presented
  <2>1. SealRefresh(req[r].upstream, req[r].flow).upstream = req[r].upstream
    BY DEF SealRefresh
  <2>2. \E c \in codes' \cup refreshes' : c.upstream = req[r].upstream
    BY <1>1, <1>3, <2>1
  <2> QED
    BY <1>1, <2>2, AloneLemma, UpstreamLemma, ReachableLemma
<1> QED
  BY <1>2, <1>3

\* A restart loses what the handlers held.
LEMMA RestartReachable ==
  ASSUME IInv, GrantReachable, NEW cfg, NEW key, Restart(cfg, key)
  PROVE  GrantReachable'
<1>1. /\ UNCHANGED <<sealed, google>>
      /\ stranded' = stranded \cup UNION {Loses(r, "stopped") : r \in Requests}
  BY DEF Restart
<1>2. \A r \in Requests : \A g \in Unsealed(r) : Lost(g)'
  <2>1. SUFFICES ASSUME NEW r \in Requests, NEW g \in Unsealed(r) PROVE Lost(g)'
    OBVIOUS
  <2>2. <<g, "stopped">> \in Loses(r, "stopped")
    BY DEF Loses
  <2>3. <<g, "stopped">> \in stranded'
    BY <1>1, <2>2
  <2> QED
    BY <2>3 DEF Lost, Losses
<1>3. \A g \in Flows : Lost(g) => Lost(g)'
  BY <1>1 DEF Lost
<1> QED
  BY <1>1, <1>2, <1>3 DEF GrantReachable, sealed

LEMMA ElsewhereReachable ==
  ASSUME IInv, GrantReachable,
         \/ \E f \in Flows : Authorize(f)
         \/ \E f \in Flows, u \in Users : Consent(f, u)
         \/ \E u \in Users : Revoke(u)
         \/ Tick
         \/ UNCHANGED vars
  PROVE  GrantReachable'
<1>1. /\ req' = req /\ stranded' = stranded /\ codes' = codes /\ refreshes' = refreshes
  BY DEF Authorize, Consent, Revoke, Tick, vars, sealed
<1>2. \A g \in Flows : google'[g].spent = google[g].spent
                       /\ google'[g].serial = google[g].serial
  <2>1. ASSUME NEW f \in Flows, NEW u \in Users, Consent(f, u), NEW g \in Flows
        PROVE  google'[g].spent = google[g].spent /\ google'[g].serial = google[g].serial
    <3>1. google[f] \in Grants /\ google \in [Flows -> Grants]
      BY DEF IInv, TypeOK
    <3> DEFINE e == [google[f] EXCEPT !.user = u]
    <3>2. e.spent = google[f].spent /\ e.serial = google[f].serial
      BY <3>1 DEF Grants
    <3>3. google' = [google EXCEPT ![f] = e]
      BY <2>1, Zenon DEF Consent
    <3> HIDE DEF e
    <3> QED
      BY <3>1, <3>2, <3>3
  <2> QED
    BY <2>1 DEF Authorize, Revoke, Tick, vars
<1>3. \A r \in Requests : Unsealed(r)' = Unsealed(r)
  BY <1>1 DEF Unsealed
<1> QED
  BY <1>1, <1>2, <1>3 DEF GrantReachable, Lost

\* The refresh token Google would renew with is always in a credential or in a
\* handler's hands (finish, issueFromRenewal, token.go), unless it was lost in
\* one of four ways while one handler was its only holder: a call to Google
\* whose answer never came, a failed identity call, the 403 this server answers
\* a user it refuses, or the end of the process.
THEOREM TokensReachable == Spec => []GrantReachable
<1>1. Init => GrantReachable
  BY DEF Init, GrantReachable
<1>2. IInv /\ GrantReachable /\ [Next]_vars => GrantReachable'
  <2> SUFFICES ASSUME IInv, GrantReachable, [Next]_vars PROVE GrantReachable'
    OBVIOUS
  <2>1. ASSUME NEW r \in Requests,
               \/ \E f \in Flows, g \in Flows \cup {NoFlow} : Callback(r, f, g)
               \/ \E c \in refreshes \cup codes \cup accesses : Renew(r, c)
               \/ \E c \in refreshes \cup codes \cup accesses, v \in Flows, uri \in URIs :
                    IssueFromCode(r, c, v, uri)
               \/ RenewalRefused(r)
        PROVE  GrantReachable'
    BY <2>1, StartsReachable
  <2>2. ASSUME NEW r \in Requests,
               \/ Exchange(r) \/ RenewalAnswered(r) \/ GoogleVouches(r)
               \/ ExchangeFails(r) \/ RenewalUnavailable(r)
               \/ IdentityFails(r) \/ IdentityRefused(r)
               \/ Redirect(r) \/ IssueFromRenewal(r)
        PROVE  GrantReachable'
    BY <2>2, ExchangeReachable, RenewalAnsweredReachable, GoogleVouchesReachable,
       ExchangeFailsReachable, RenewalUnavailableReachable, GivesUpReachable,
       RedirectReachable, IssueFromRenewalReachable
  <2>3. ASSUME NEW cfg \in Configs, NEW key \in {secret, secret + 1}, Restart(cfg, key)
        PROVE  GrantReachable'
    BY <2>3, RestartReachable
  <2> QED
    BY <2>1, <2>2, <2>3, ElsewhereReachable DEF Next, Resume
<1> QED
  BY <1>1, <1>2, Invariance, PTL DEF Spec

-----------------------------------------------------------------------------
(* Steps *)

\* What is sealed in a step was allowed by the configuration of that moment:
\* validState and finish re-check what /authorize once accepted, and the token
\* endpoint re-checks what the code once carried.
THEOREM TheRunningConfigDecides == Spec => RunningConfigDecides
<1>1. IInv /\ [Next]_vars =>
        [/\ \A c \in codes' \ codes :
              state[c.challenge].uri \in config.registry /\ c.user \in config.allowed
         /\ \A c \in accesses' \ accesses : c.user \in config.allowed]_vars
  <2> SUFFICES ASSUME IInv, [Next]_vars
               PROVE  /\ \A c \in codes' \ codes :
                           state[c.challenge].uri \in config.registry /\ c.user \in config.allowed
                      /\ \A c \in accesses' \ accesses : c.user \in config.allowed
    OBVIOUS
  <2>1. ASSUME NEW r \in Requests, Redirect(r), NEW c \in codes' \ codes
        PROVE  state[c.challenge].uri \in config.registry /\ c.user \in config.allowed
    <3>1. c = SealAuthorizationCode(r) /\ ~req[r].renewal /\ req[r].pc = "identified"
      BY <2>1 DEF Redirect
    <3>2. c.challenge = req[r].flow /\ c.user = google[req[r].upstream.grant].user
      BY <3>1 DEF SealAuthorizationCode
    <3>3. accepts(state[req[r].flow].uri)
      BY <3>1, IdentifiedLemma
    <3> QED
      BY <2>1, <3>2, <3>3 DEF Redirect, Admissible, allows, accepts
  <2>2. ASSUME NEW r \in Requests, IssueFromRenewal(r), NEW c \in accesses' \ accesses
        PROVE  c.user \in config.allowed
    BY <2>2 DEF IssueFromRenewal, Admissible, allows, mint
  <2>3. ASSUME NEW r \in Requests, NEW d \in refreshes \cup codes \cup accesses,
               NEW v \in Flows, NEW uri \in URIs, IssueFromCode(r, d, v, uri),
               NEW c \in accesses' \ accesses
        PROVE  c.user \in config.allowed
    BY <2>3 DEF IssueFromCode, CodeAdmissible, allows, mint, sealed
  <2>4. \/ codes' = codes
        \/ \E r \in Requests : Redirect(r)
    <3>1. ASSUME NEW r, NEW d, NEW v, NEW uri, IssueFromCode(r, d, v, uri)
          PROVE  codes' = codes
      BY <3>1 DEF IssueFromCode, sealed
    <3>2. ASSUME NEW r, Resume(r) PROVE codes' = codes \/ Redirect(r)
      BY <3>2 DEF Resume, sealed, ExchangeFails, RenewalRefused, RenewalUnavailable,
             IdentityFails, IdentityRefused, IssueFromRenewal
    <3> QED
      BY <3>1, <3>2 DEF Next, vars, sealed, Authorize, Callback, Renew, Exchange,
             RenewalAnswered, GoogleVouches, Restart, Consent, Revoke, Tick
  <2>5. \/ accesses' = accesses
        \/ \E r \in Requests : IssueFromRenewal(r)
        \/ \E r \in Requests, d \in refreshes \cup codes \cup accesses,
              v \in Flows, uri \in URIs : IssueFromCode(r, d, v, uri)
    BY DEF Next, vars, sealed, Resume, Authorize, Callback, Renew, Exchange,
           RenewalAnswered, GoogleVouches, ExchangeFails, RenewalRefused,
           RenewalUnavailable, IdentityFails, IdentityRefused, Redirect,
           Restart, Consent, Revoke, Tick
  <2> QED
    BY <2>1, <2>2, <2>3, <2>4, <2>5
<1> QED
  BY <1>1, Invariance, PTL DEF Spec, RunningConfigDecides

=============================================================================
