--------------------------- MODULE TokenValidator ---------------------------
(***************************************************************************)
(* internal/auth/tokeninfo.go: the validator that turns a Google bearer    *)
(* token into claims.  Every inbound request is a goroutine that calls     *)
(* validate; the calls share the concurrency slots and the LRU cache of    *)
(* accepted tokens, and each may wait on Google's Tokeninfo endpoint.      *)
(*                                                                         *)
(* A token stands for its SHA-256 (the cache key) and for the claims that  *)
(* Google attaches to it.  Time is a clock in ticks; the request to Google *)
(* takes at most Timeout of them and a goroutine may be descheduled for at *)
(* most Pause of them between its two reads of the clock.                  *)
(***************************************************************************)
EXTENDS Integers, FiniteSets, Sequences

CONSTANTS
  Calls,      \* concurrent invocations of validate
  Tokens,     \* bearer tokens presented to the server
  Foreign,    \* the tokens Google issued to another client or with no subject
  maxConcurrentValidations,
  cacheCapacity,
  cacheMaxTTL,
  validationTimeout,
  remainingSecondsCeiling,
  absoluteEpochFloor,
  Pause,      \* bound: ticks a goroutine may lose between two statements
  Start,      \* the instant the process starts
  MaxTime,    \* bound: the last instant of the clock
  Expiries    \* the instants a token may expire at

ASSUME CallsAssumption == IsFiniteSet(Calls) /\ Tokens # {} /\ Foreign \subseteq Tokens
ASSUME BoundsAssumption ==
  /\ maxConcurrentValidations \in Nat \ {0}
  /\ cacheCapacity \in Nat \ {0}
  /\ cacheMaxTTL \in Nat \ {0}
  /\ validationTimeout \in Nat
  /\ Pause \in Nat
ASSUME ExpReadingsDisjoint ==
  /\ remainingSecondsCeiling \in Nat
  /\ absoluteEpochFloor \in Nat
  /\ remainingSecondsCeiling + 1 < absoluteEpochFloor
ASSUME ClockAssumption ==
  /\ Start \in Nat /\ MaxTime \in Nat
  /\ absoluteEpochFloor <= Start
  /\ Start <= MaxTime
  /\ Expiries \subseteq {e \in Nat : absoluteEpochFloor <= e}

VARIABLES
  now,         \* the process's clock
  validUntil,  \* Google: when each token expires
  revokedAt,   \* Google: when each token's grant was revoked
  slots,       \* how many of the slots channel's places are taken
  cache,       \* the list, most recently used first
  entries,     \* the keys of the index over the list
  call         \* the goroutines

vars == <<now, validUntil, revokedAt, slots, cache, entries, call>>

\* A grant that has not been revoked: later than any instant of the clock.
Never == MaxTime + 1

\* The HTTP statuses validate tells apart, and a 200 whose body is too large
\* or is not the JSON object it should be.
Statuses == {"ok", "garbage", "timeout_or_throttled", "client_error", "other"}

\* What Google put on the wire: the status and, in a usable 200, the exp field
\* (0 stands for absent, zero or negative: remainingLifetime treats them alike).
Answers == [status : Statuses, exp : Nat]
NoAnswer == [status |-> "other", exp |-> 0]

PCs == {"idle", "lookup", "admission", "recheck", "asked", "answered",
        "storing"}
Results == {"none", "claims", "errTokenRejected", "errValidationUnavailable"}

\* The call's place in validate, the token it was given, the instant by which
\* it takes its next step, Google's answer, the lifetime read from it, and what
\* the last call returned.
CallStates ==
  [pc : PCs, token : Tokens, by : Nat, answer : Answers, left : Nat,
   result : Results]

NoCall ==
  [pc |-> "idle", token |-> CHOOSE t \in Tokens : TRUE, by |-> 0,
   answer |-> NoAnswer, left |-> 0, result |-> "none"]

Entries == [key : Tokens, expiresAt : Nat]

-----------------------------------------------------------------------------
(* container/list and the index map over it *)

Remove(list, i) ==
  [j \in 1 .. Len(list) - 1 |-> IF j < i THEN list[j] ELSE list[j + 1]]

PushFront(list, e) ==
  [j \in 1 .. Len(list) + 1 |-> IF j = 1 THEN e ELSE list[j - 1]]

MoveToFront(list, i, e) == PushFront(Remove(list, i), e)

\* The list element the index points at for key k.
ElementOf(list, k) == CHOOSE i \in 1 .. Len(list) : list[i].key = k

Min2(a, b) == IF a <= b THEN a ELSE b

-----------------------------------------------------------------------------
Init ==
  /\ now = Start
  /\ validUntil \in [Tokens -> Expiries]
  /\ revokedAt = [t \in Tokens |-> Never]
  /\ slots = 0
  /\ cache = <<>>
  /\ entries = {}
  /\ call = [c \in Calls |-> NoCall]

\* remainingLifetime: how long the token has left according to exp, or 0 when
\* the field has no reading the validator accepts.
remainingLifetime(exp, instant) ==
  IF exp >= absoluteEpochFloor
    THEN IF exp - instant <= 0 THEN 0 ELSE exp - instant
  ELSE IF exp > 0 /\ exp <= remainingSecondsCeiling
    THEN exp
  ELSE 0

Goto(c, pc) == call' = [call EXCEPT ![c].pc = pc]

Decided(t, result) == [NoCall EXCEPT !.token = t, !.result = result]

ReturnAlwaysReceives(c, result, holdsSlot) ==
  /\ call' = [call EXCEPT ![c] = Decided(call[c].token, result)]
  /\ slots' = slots - 1

ReturnLeaksSlot(c, result, holdsSlot) ==
  /\ call' = [call EXCEPT ![c] = Decided(call[c].token, result)]
  /\ UNCHANGED slots

\* The call returns result; the deferred receive gives its slot back, if it
\* holds one.
Return(c, result, holdsSlot) ==
  /\ call' = [call EXCEPT ![c] = Decided(call[c].token, result)]
  /\ slots' = IF holdsSlot THEN slots - 1 ELSE slots

CacheUnchanged == UNCHANGED <<cache, entries>>
WorldUnchanged == UNCHANGED <<now, validUntil, revokedAt>>

\* v.cached(key) in three outcomes: present and fresh, present and aged out
\* (evicted), absent.
CacheHit(k) ==
  /\ k \in entries
  /\ LET i == ElementOf(cache, k) IN
       /\ now < cache[i].expiresAt
       /\ cache' = MoveToFront(cache, i, cache[i])
       /\ UNCHANGED entries

CacheAgedOut(k) ==
  /\ k \in entries
  /\ LET i == ElementOf(cache, k) IN
       /\ ~(now < cache[i].expiresAt)
       /\ cache' = Remove(cache, i)
       /\ entries' = entries \ {k}

CacheMiss(k) == k \notin entries /\ CacheUnchanged

StoreKeepsEvictedKey(k, expiresAt) ==
  LET pushed == PushFront(cache, [key |-> k, expiresAt |-> expiresAt])
  IN /\ entries' = entries \cup {k}
     /\ cache' = IF Len(pushed) > cacheCapacity THEN Remove(pushed, Len(pushed))
                 ELSE pushed

StoreAlwaysPushes(k, expiresAt) ==
  LET pushed == PushFront(cache, [key |-> k, expiresAt |-> expiresAt])
      full == Len(pushed) > cacheCapacity
  IN /\ entries' = (entries \cup {k}) \ (IF full THEN {pushed[Len(pushed)].key} ELSE {})
     /\ cache' = IF full THEN Remove(pushed, Len(pushed)) ELSE pushed

\* v.store(key, accepted, expiresAt): refresh the entry in place, or push a new
\* one and drop the least recently used beyond the capacity.
CacheStore(k, expiresAt) ==
  LET e == [key |-> k, expiresAt |-> expiresAt]
      pushed == PushFront(cache, e)
  IN IF k \in entries
       THEN /\ cache' = MoveToFront(cache, ElementOf(cache, k), e)
            /\ UNCHANGED entries
     ELSE IF Len(pushed) > cacheCapacity
       THEN /\ entries' = (entries \cup {k}) \ {pushed[Len(pushed)].key}
            /\ cache' = Remove(pushed, Len(pushed))
     ELSE /\ entries' = entries \cup {k}
          /\ cache' = pushed

-----------------------------------------------------------------------------
(* validate, one action per stretch between two points where another         *)
(* goroutine, Google or the clock can intervene                              *)

Present(c, t) ==
  /\ call[c].pc = "idle"
  /\ call' = [call EXCEPT ![c] = [NoCall EXCEPT !.pc = "lookup", !.token = t]]
  /\ UNCHANGED slots /\ CacheUnchanged /\ WorldUnchanged

FirstLookup(c) ==
  /\ call[c].pc = "lookup"
  /\ \/ CacheHit(call[c].token) /\ Return(c, "claims", FALSE)
     \/ /\ CacheAgedOut(call[c].token) \/ CacheMiss(call[c].token)
        /\ Goto(c, "admission")
        /\ UNCHANGED slots
  /\ WorldUnchanged

TakeSlotBlocking(c) ==
  /\ call[c].pc = "admission"
  /\ slots < maxConcurrentValidations
  /\ slots' = slots + 1 /\ Goto(c, "recheck")
  /\ CacheUnchanged /\ WorldUnchanged

\* The non-blocking send on the slots channel.
TakeSlot(c) ==
  /\ call[c].pc = "admission"
  /\ IF slots < maxConcurrentValidations
       THEN slots' = slots + 1 /\ Goto(c, "recheck")
       ELSE Return(c, "errValidationUnavailable", FALSE)
  /\ CacheUnchanged /\ WorldUnchanged

SecondLookup(c) ==
  /\ call[c].pc = "recheck"
  /\ \/ CacheHit(call[c].token) /\ Return(c, "claims", TRUE)
     \/ /\ CacheAgedOut(call[c].token) \/ CacheMiss(call[c].token)
        /\ call' = [call EXCEPT ![c] =
                       [@ EXCEPT !.pc = "asked", !.by = now + validationTimeout]]
        /\ UNCHANGED slots
  /\ WorldUnchanged

\* client.Do fails, or the body cannot be read: the timeout, the caller's
\* cancelled context, a refused redirect, a broken connection.
RequestFails(c) ==
  /\ call[c].pc \in {"asked", "answered"}
  /\ Return(c, "errValidationUnavailable", TRUE)
  /\ CacheUnchanged /\ WorldUnchanged

RejectsByStatusAndExpiry(a, t, left) == a.status = "client_error" \/ left = 0

\* Google's verdict against the token: a 4xx, or a 200 for another audience,
\* without a subject, or without a lifetime that can be read.
Rejects(a, t, left) == a.status = "client_error" \/ t \in Foreign \/ left = 0

\* The response is read: the switch on the status, the body, the audience and
\* the subject, and the first reading of the clock for the expiry.
Receive(c) ==
  LET a == call[c].answer
      left == remainingLifetime(a.exp, now)
  IN
  /\ call[c].pc = "answered"
  /\ IF a.status \in {"timeout_or_throttled", "other", "garbage"}
       THEN Return(c, "errValidationUnavailable", TRUE)
     ELSE IF Rejects(a, call[c].token, left)
       THEN Return(c, "errTokenRejected", TRUE)
     ELSE /\ call' = [call EXCEPT ![c] =
                       [@ EXCEPT !.pc = "storing", !.left = left, !.by = now + Pause]]
          /\ UNCHANGED slots
  /\ CacheUnchanged /\ WorldUnchanged

ExpiresWithToken(left) == now + left
ExpiresAfterTTL(left) == now + cacheMaxTTL

\* Until when a positive answer is remembered: the second reading of the clock.
ExpiresAt(left) == now + Min2(left, cacheMaxTTL)

\* The second reading of the clock, the store and the return.
Store(c) ==
  /\ call[c].pc = "storing"
  /\ CacheStore(call[c].token, ExpiresAt(call[c].left))
  /\ Return(c, "claims", TRUE)
  /\ WorldUnchanged

-----------------------------------------------------------------------------
(* Google and time (external) *)

Live(t) == now < validUntil[t] /\ now < revokedAt[t]

\* exp as Google has been seen to render it: the absolute instant, the seconds
\* left, absent, or a value between the two readings.
ExpForms(t) ==
  {0, remainingSecondsCeiling + 1, validUntil[t]}
    \cup (IF now < validUntil[t] THEN {validUntil[t] - now} ELSE {})

\* Google answers 200 only for a token that is live at that instant; it may
\* refuse, throttle or fail for any.
GoogleAnswers(c) ==
  /\ call[c].pc = "asked"
  /\ \E s \in Statuses, exp \in ExpForms(call[c].token) :
       /\ s = "ok" => Live(call[c].token)
       /\ s # "ok" => exp = 0
       /\ call' = [call EXCEPT ![c] =
                      [@ EXCEPT !.pc = "answered",
                                !.answer = [status |-> s, exp |-> exp]]]
  /\ UNCHANGED slots /\ CacheUnchanged /\ WorldUnchanged

Revoke(t) ==
  /\ revokedAt[t] = Never
  /\ revokedAt' = [revokedAt EXCEPT ![t] = now]
  /\ UNCHANGED <<now, validUntil, slots, cache, entries, call>>

\* The clock waits for a request at its timeout and for a goroutine at the end
\* of its pause.
Tick ==
  /\ now < MaxTime
  /\ \A c \in Calls :
       call[c].pc \in {"asked", "answered", "storing"} => now < call[c].by
  /\ now' = now + 1
  /\ UNCHANGED <<validUntil, revokedAt, slots, cache, entries, call>>

-----------------------------------------------------------------------------
Validate(c) ==
  \/ FirstLookup(c)
  \/ TakeSlot(c)
  \/ SecondLookup(c)
  \/ RequestFails(c)
  \/ Receive(c)
  \/ Store(c)

Next ==
  \/ \E c \in Calls : Validate(c) \/ GoogleAnswers(c)
  \/ \E c \in Calls, t \in Tokens : Present(c, t)
  \/ \E t \in Tokens : Revoke(t)
  \/ Tick

Spec == Init /\ [][Next]_vars

\* Every goroutine is scheduled, and the client's timeout ends a request that
\* Google never answers.  Google, the callers and the clock owe nothing.
FairSpec == Spec /\ \A c \in Calls : WF_vars(Validate(c))
-----------------------------------------------------------------------------
(* Properties *)

\* Every variable keeps its type: the slot count never goes below zero.
TypeOK ==
  /\ now \in Start .. MaxTime
  /\ validUntil \in [Tokens -> Expiries]
  /\ revokedAt \in [Tokens -> Start .. Never]
  /\ slots \in Nat
  /\ cache \in Seq(Entries)
  /\ entries \in SUBSET Tokens
  /\ call \in [Calls -> CallStates]

\* The calls between the send on the slots channel and the deferred receive.
Holders == {c \in Calls : call[c].pc \in {"recheck", "asked", "answered", "storing"}}

\* Every return path of validate gives back exactly the slot its call took, so
\* the channel holds one place per call waiting on Google and no call is
\* refused for a slot nobody holds; at most maxConcurrentValidations wait.
SlotsAccounted ==
  /\ slots = Cardinality(Holders)
  /\ slots <= maxConcurrentValidations

\* keys are the keys of the list's elements, one element per key.
Indexes(keys, list) ==
  /\ \A k \in keys : \E i \in 1 .. Len(list) : list[i].key = k
  /\ \A i \in 1 .. Len(list) : list[i].key \in keys
  /\ \A i, j \in 1 .. Len(list) : list[i].key = list[j].key => i = j

\* The index and the list of the cache describe the same entries, one per key,
\* and stay within the capacity, whatever order calls evict, refresh and push
\* in: an entry in only one of the two would leak or be unreachable.
IndexMatchesList == Indexes(entries, cache) /\ Len(cache) <= cacheCapacity

\* Why the two tails below hold, as an inductive invariant: a call that holds a
\* positive answer got it while the grant was alive, so its deadline is tied to
\* the revocation and to the expiry; and so is the end of every cache entry.
CallFresh(c) ==
  LET t == call[c].token IN
  /\ call[c].pc \in {"asked", "answered"} =>
       now <= call[c].by /\ call[c].by <= now + validationTimeout
  /\ call[c].pc = "answered" /\ call[c].answer.status = "ok" =>
       /\ call[c].by <= revokedAt[t] + validationTimeout
       /\ \/ call[c].answer.exp \in {0, remainingSecondsCeiling + 1, validUntil[t]}
          \/ call[c].by + call[c].answer.exp <= validUntil[t] + validationTimeout
  /\ call[c].pc = "storing" =>
       /\ now <= call[c].by /\ call[c].by <= now + Pause
       /\ t \notin Foreign
       /\ call[c].left > 0
       /\ call[c].by <= revokedAt[t] + validationTimeout + Pause
       /\ call[c].by + call[c].left <= validUntil[t] + validationTimeout + Pause

EntryFresh(e) ==
  /\ e.key \notin Foreign
  /\ e.expiresAt <= now + cacheMaxTTL
  /\ e.expiresAt <= revokedAt[e.key] + validationTimeout + Pause + cacheMaxTTL
  /\ e.expiresAt <= validUntil[e.key] + validationTimeout + Pause

\* Every positive answer in flight and every remembered one is bounded by the
\* token's revocation and expiry at Google, in every order of answers, stores
\* and revocations.
Freshness ==
  /\ \A c \in Calls : CallFresh(c)
  /\ \A i \in 1 .. Len(cache) : EntryFresh(cache[i])

\* The step in which call c hands out claims.
Accepts(c) == call[c].result # "claims" /\ call'[c].result = "claims"

\* A revoked grant stops working: no call accepts a token later than the cache
\* TTL plus the time one answer can be in flight after the revocation, even
\* when a positive answer is stored after the revocation, or after another
\* call was told that the token is no good.
RevocationTail ==
  [][\A c \in Calls : Accepts(c) =>
       now < revokedAt[call[c].token] + validationTimeout + Pause + cacheMaxTTL]_vars

\* An expired token stops working: no call accepts a token later than the time
\* one answer can be in flight after the token's expiry, in either reading of
\* the exp field and from the cache as well as from Google.
ExpiryTail ==
  [][\A c \in Calls : Accepts(c) =>
       now < validUntil[call[c].token] + validationTimeout + Pause]_vars

\* A token minted for another application, or one with no subject, is never
\* accepted, neither by the call that asks Google nor from the cache.
OnlyOursAccepted ==
  [][\A c \in Calls : Accepts(c) => call[c].token \notin Foreign]_vars

\* Admission control refuses instead of queueing: every call that enters
\* validate is decided, whatever the other calls and Google do.
EveryCallIsDecided ==
  \A c \in Calls : call[c].pc = "lookup" ~> call[c].pc = "idle"
=============================================================================
