---------------------------- MODULE ServerProofs ----------------------------
(***************************************************************************)
(* The tool calls' safety, through reloads, timeouts, shutdown and exit,   *)
(* for every set of calls, tools, statements and overlays and every value  *)
(* of the limits of Server.                                                *)
(***************************************************************************)
EXTENDS Server, FiniteSetTheorems, TLAPS

Unheard == {"refused", "noAlias"}

\* A handler that has got past the gate and has not been cut off.
Passed(k) ==
  /\ k.pc \in {"begin", "query", "rollback", "naming", "answer", "done"}
  /\ k.result \notin Unheard

\* The first n statements of a handler's plan are in a set.
Covers(S, k, n) == \A i \in 1 .. n : Plan[k.tool][i] \in S

Typed(k, s, cl, tr) ==
  /\ k \in Handlers
  /\ s \in SUBSET Statements /\ cl \in SUBSET Statements
  /\ tr \in Seq(Events)

\* What an event says of the statements a call has sent and been allowed.
Tells(e, k, s, cl) ==
  /\ e.outcome = "allowed" =>
       /\ Covers(s, k, Len(Plan[k.tool]))
       /\ \A x \in s : \E i \in 1 .. Len(Plan[k.tool]) : x = Plan[k.tool][i]
  /\ e.outcome = "refused" \/ e.verdict = "" => s = {}
  /\ e.outcome = "failed" /\ e.verdict = "allow" => Covers(cl, k, Len(Plan[k.tool]))

\* The gate's side of a handler: what it has been allowed where it is.
Gated(k, s, cl) ==
  /\ k.step <= Len(Plan[k.tool])
  /\ s \subseteq cl
  /\ k.result \in Unheard => s = {} /\ k.pc \in {"answer", "done", "cut"}
  /\ k.pc \in {"idle", "gate"} =>
       s = {} /\ k.lookups = 0 /\ k.result = "none" /\ Covers(cl, k, k.step - 1)
  /\ k.pc = "idle" => k.step = 1
  /\ Passed(k) => Covers(cl, k, Len(Plan[k.tool]))
  /\ k.lookups > 0 => similarNames \in cl

\* The database's side: what it has sent where it is.
Ran(k, s) ==
  /\ k.lookups = 0 => \A x \in s : \E i \in 1 .. Len(Plan[k.tool]) : x = Plan[k.tool][i]
  /\ k.pc = "begin" /\ k.lookups = 0 => Covers(s, k, k.step - 1)
  /\ k.pc \in {"query", "rollback"} /\ k.lookups = 0 => Covers(s, k, k.step)
  /\ k.result = "rows" => k.lookups = 0
  /\ k.result = "rows" /\ k.pc \in {"answer", "done"} => Covers(s, k, Len(Plan[k.tool]))
  /\ k.pc = "naming" => k.result = "missing"

Recorded(k, s, cl, tr) ==
  /\ Len(tr) = IF k.pc = "done" THEN 1 ELSE 0
  /\ k.pc = "done" => Tells(tr[1], k, s, cl)

Good(k, s, cl, tr) ==
  Typed(k, s, cl, tr) /\ Gated(k, s, cl) /\ Ran(k, s) /\ Recorded(k, s, cl, tr)

Held(k) == k.pc \in {"query", "rollback"}
Holders == {c \in Calls : Held(call[c])}

Shapes ==
  /\ call \in [Calls -> Handlers]
  /\ sent \in [Calls -> SUBSET Statements]
  /\ cleared \in [Calls -> SUBSET Statements]
  /\ trail \in [Calls -> Seq(Events)]

\* The inductive invariant of the calls.
CallsInv ==
  /\ Shapes
  /\ \A c \in Calls : Good(call[c], sent[c], cleared[c], trail[c])
  /\ inUse = Cardinality(Holders) /\ inUse <= MaxConns

-----------------------------------------------------------------------------
LEMMA SameLemma ==
  ASSUME NEW S, NEW T, NEW f \in [S -> T], NEW x \in S
  PROVE  f = [f EXCEPT ![x] = f[x]]
OBVIOUS

LEMMA HoldersFinite == IsFiniteSet(Holders) /\ Cardinality(Holders) \in Nat
<1>1. IsFiniteSet(Holders)
  BY ToolsAssumption, FS_Subset DEF Holders
<1> QED
  BY <1>1, FS_CardinalityType

\* What a step of one handler does to the number of borrowed connections.
Accounts(c, k) ==
  \/ (Held(k) <=> Held(call[c])) /\ inUse' = inUse
  \/ Held(k) /\ ~Held(call[c]) /\ inUse < MaxConns /\ inUse' = inUse + 1
  \/ ~Held(k) /\ Held(call[c]) /\ inUse' = inUse - 1

\* A step of one handler that leaves it in a good state, and the pool's count
\* right, keeps the invariant of them all.
LEMMA OneCallLemma ==
  ASSUME CallsInv, NEW c \in Calls, NEW k, NEW s, NEW cl, NEW tr,
         call' = [call EXCEPT ![c] = k],
         sent' = [sent EXCEPT ![c] = s],
         cleared' = [cleared EXCEPT ![c] = cl],
         trail' = [trail EXCEPT ![c] = tr],
         Good(k, s, cl, tr),
         Accounts(c, k)
  PROVE  CallsInv'
<1>1. Shapes'
  <2>1. k \in Handlers /\ s \in SUBSET Statements /\ cl \in SUBSET Statements /\ tr \in Seq(Events)
    BY DEF Good, Typed
  <2> QED
    BY <2>1 DEF CallsInv, Shapes
<1>2. \A d \in Calls : Good(call'[d], sent'[d], cleared'[d], trail'[d])
  <2> SUFFICES ASSUME NEW d \in Calls
               PROVE  Good(call'[d], sent'[d], cleared'[d], trail'[d])
    OBVIOUS
  <2>1. CASE d = c
    <3>1. call'[d] = k /\ sent'[d] = s /\ cleared'[d] = cl /\ trail'[d] = tr
      BY <2>1 DEF CallsInv, Shapes
    <3> QED
      BY <3>1
  <2>2. CASE d # c
    <3>1. call'[d] = call[d] /\ sent'[d] = sent[d] /\ cleared'[d] = cleared[d] /\ trail'[d] = trail[d]
      BY <2>2 DEF CallsInv, Shapes
    <3> QED
      BY <3>1 DEF CallsInv
  <2> QED
    BY <2>1, <2>2
<1>3. inUse' = Cardinality(Holders') /\ inUse' <= MaxConns
  <2>1. inUse = Cardinality(Holders) /\ inUse \in Nat /\ inUse <= MaxConns /\ MaxConns \in Nat
    BY HoldersFinite, LimitsAssumption DEF CallsInv
  <2>2. \A d \in Calls : call'[d] = IF d = c THEN k ELSE call[d]
    BY DEF CallsInv, Shapes
  <2>3. Holders' = {d \in Calls : Held(call'[d])}
    BY DEF Holders, Held
  <2>4. CASE (Held(k) <=> Held(call[c])) /\ inUse' = inUse
    <3>1. Holders' = Holders
      BY <2>2, <2>3, <2>4 DEF Holders, Held
    <3> QED
      BY <2>1, <2>4, <3>1
  <2>5. CASE Held(k) /\ ~Held(call[c]) /\ inUse < MaxConns /\ inUse' = inUse + 1
    <3>1. Holders' = Holders \cup {c} /\ c \notin Holders
      BY <2>2, <2>3, <2>5 DEF Holders
    <3>2. Cardinality(Holders') = Cardinality(Holders) + 1
      BY <3>1, HoldersFinite, FS_AddElement
    <3> QED
      BY <2>1, <2>5, <3>2
  <2>6. CASE ~Held(k) /\ Held(call[c]) /\ inUse' = inUse - 1
    <3>1. Holders' = Holders \ {c} /\ c \in Holders
      BY <2>2, <2>3, <2>6 DEF Holders
    <3>2. Cardinality(Holders') = Cardinality(Holders) - 1
      BY <3>1, HoldersFinite, FS_RemoveElement
    <3> QED
      BY <2>1, <2>6, <3>2
  <2> QED
    BY <2>4, <2>5, <2>6 DEF Accounts
<1> QED
  BY <1>1, <1>2, <1>3 DEF CallsInv

-----------------------------------------------------------------------------
(* One lemma per action of the handlers. *)

LEMMA UnchangedLemma ==
  ASSUME CallsInv, NEW c \in Calls
  PROVE  /\ sent = [sent EXCEPT ![c] = sent[c]]
         /\ cleared = [cleared EXCEPT ![c] = cleared[c]]
         /\ trail = [trail EXCEPT ![c] = trail[c]]
         /\ call[c] \in Handlers
         /\ Good(call[c], sent[c], cleared[c], trail[c])
         /\ call[c].pc # "done" => Len(trail[c]) = 0
BY SMT DEF CallsInv, Shapes, Good, Recorded

\* A step that writes no event and takes the handler to a state that is right
\* for what has been sent and allowed.
LEMMA MoveLemma ==
  ASSUME CallsInv, NEW c \in Calls, NEW k, NEW s, NEW cl,
         call' = [call EXCEPT ![c] = k],
         sent' = [sent EXCEPT ![c] = s],
         cleared' = [cleared EXCEPT ![c] = cl],
         trail' = trail,
         call[c].pc # "done", k.pc # "done",
         k \in Handlers, s \in SUBSET Statements, cl \in SUBSET Statements,
         Gated(k, s, cl), Ran(k, s), Accounts(c, k)
  PROVE  CallsInv'
<1>1. Len(trail[c]) = 0 /\ trail[c] \in Seq(Events) /\ trail = [trail EXCEPT ![c] = trail[c]]
  BY UnchangedLemma DEF Good, Typed
<1>2. Good(k, s, cl, trail[c])
  BY <1>1 DEF Good, Typed, Recorded
<1> QED
  BY <1>1, <1>2, OneCallLemma

LEMMA ArriveLemma ==
  ASSUME CallsInv, NEW c \in Calls, NEW t \in Tools, Arrive(c, t)
  PROVE  CallsInv'
<1> DEFINE k == call[c]
           toGate == [k EXCEPT !.pc = "gate", !.tool = t]
           strange == [k EXCEPT !.pc = "answer", !.tool = t, !.result = "noAlias"]
<1>1. /\ k \in Handlers /\ k.pc = "idle"
      /\ Good(k, sent[c], cleared[c], trail[c])
  BY UnchangedLemma DEF Arrive
<1>2. k.step = 1 /\ k.lookups = 0 /\ k.result = "none" /\ sent[c] = {} /\ Len(trail[c]) = 0
  BY <1>1 DEF Good, Gated, Recorded
<1>3. /\ toGate \in Handlers /\ toGate.pc = "gate" /\ toGate.tool = t
      /\ toGate.step = 1 /\ toGate.lookups = 0 /\ toGate.result = "none"
  BY <1>1, <1>2 DEF Handlers, PCs
<1>4. /\ strange \in Handlers /\ strange.pc = "answer" /\ strange.tool = t
      /\ strange.step = 1 /\ strange.lookups = 0 /\ strange.result = "noAlias"
  BY <1>1, <1>2 DEF Handlers, PCs, Results
<1>5. call' = [call EXCEPT ![c] = toGate] \/ call' = [call EXCEPT ![c] = strange]
  BY DEF Arrive
<1>6. UNCHANGED <<sent, cleared, trail, inUse>>
  BY DEF Arrive
<1>7. Len(Plan[t]) \in Nat /\ Len(Plan[t]) > 0
  BY ToolsAssumption
<1>8. sent[c] \in SUBSET Statements /\ cleared[c] \in SUBSET Statements
  BY <1>1 DEF Good, Typed
<1>9. /\ sent' = [sent EXCEPT ![c] = sent[c]] /\ cleared' = [cleared EXCEPT ![c] = cleared[c]]
  BY <1>6, UnchangedLemma
<1> HIDE DEF toGate, strange
<1>10. Gated(toGate, sent[c], cleared[c]) /\ Gated(strange, sent[c], cleared[c])
  BY <1>2, <1>3, <1>4, <1>7 DEF Gated, Passed, Covers, Unheard
<1>11. Ran(toGate, sent[c]) /\ Ran(strange, sent[c])
  BY <1>2, <1>3, <1>4 DEF Ran
<1>12. Accounts(c, toGate) /\ Accounts(c, strange)
  BY <1>1, <1>3, <1>4, <1>6 DEF Accounts, Held
<1>13. CASE call' = [call EXCEPT ![c] = toGate]
  BY <1>1, <1>3, <1>6, <1>8, <1>9, <1>10, <1>11, <1>12, <1>13, MoveLemma
<1>14. CASE call' = [call EXCEPT ![c] = strange]
  BY <1>1, <1>4, <1>6, <1>8, <1>9, <1>10, <1>11, <1>12, <1>14, MoveLemma
<1> QED
  BY <1>5, <1>13, <1>14

\* The statement of the plan a handler is at.
LEMMA PlanLemma ==
  ASSUME CallsInv, NEW c \in Calls
  PROVE  /\ Len(Plan[call[c].tool]) \in Nat /\ Len(Plan[call[c].tool]) > 0
         /\ call[c].step \in 1 .. Len(Plan[call[c].tool])
         /\ Current(c) \in Statements
         /\ call[c].lookups = 0 => Current(c) = Plan[call[c].tool][call[c].step]
         /\ call[c].lookups # 0 => Current(c) = similarNames
<1>1. call[c] \in Handlers /\ call[c].step <= Len(Plan[call[c].tool])
  BY UnchangedLemma DEF Good, Gated
<1>2. call[c].tool \in Tools /\ call[c].step \in Nat \ {0} /\ call[c].lookups \in 0 .. 2
  BY <1>1 DEF Handlers
<1>3. Plan[call[c].tool] \in Seq(Statements) /\ Len(Plan[call[c].tool]) > 0
  BY <1>2, ToolsAssumption
<1>4. call[c].step \in 1 .. Len(Plan[call[c].tool])
  BY <1>1, <1>2, <1>3
<1>5. Plan[call[c].tool][call[c].step] \in Statements
  BY <1>3, <1>4
<1> QED
  BY <1>2, <1>3, <1>4, <1>5, ToolsAssumption DEF Current

LEMMA ValidateLemma ==
  ASSUME CallsInv, NEW c \in Calls, Validate(c)
  PROVE  CallsInv'
<1> DEFINE k == call[c]
           cl == cleared[c] \cup {Current(c)}
           next == [k EXCEPT !.step = k.step + 1]
           start == [k EXCEPT !.pc = "begin", !.step = 1, !.deadline = statementDeadline]
           bad == [k EXCEPT !.pc = "answer", !.deadline = 0, !.result = "failed"]
           refused == [k EXCEPT !.pc = "answer", !.deadline = 0, !.result = "refused"]
<1>1. /\ k \in Handlers /\ k.pc = "gate"
      /\ Good(k, sent[c], cleared[c], trail[c])
  BY UnchangedLemma DEF Validate
<1>2. /\ k.lookups = 0 /\ k.result = "none" /\ sent[c] = {} /\ Covers(cleared[c], k, k.step - 1)
      /\ sent[c] \in SUBSET Statements /\ cleared[c] \in SUBSET Statements
  BY <1>1 DEF Good, Gated, Typed
<1>3. /\ k.step \in 1 .. Len(Plan[k.tool]) /\ Len(Plan[k.tool]) \in Nat /\ Len(Plan[k.tool]) > 0
      /\ Current(c) = Plan[k.tool][k.step] /\ Current(c) \in Statements
  BY <1>2, PlanLemma
<1>4. /\ next \in Handlers /\ next.pc = "gate" /\ next.tool = k.tool
      /\ next.step = k.step + 1 /\ next.lookups = 0 /\ next.result = "none"
  BY <1>1, <1>2 DEF Handlers
<1>5. /\ start \in Handlers /\ start.pc = "begin" /\ start.tool = k.tool
      /\ start.step = 1 /\ start.lookups = 0 /\ start.result = "none"
  <2>1. statementDeadline \in 0 .. statementDeadline /\ 1 \in Nat \ {0}
    BY LimitsAssumption
  <2>2. start \in Handlers
    BY <1>1, <2>1, Zenon DEF Handlers, PCs
  <2>3. start.pc = "begin" /\ start.tool = k.tool /\ start.step = 1
    BY <1>1 DEF Handlers
  <2>4. start.lookups = k.lookups /\ start.result = k.result
    BY <1>1 DEF Handlers
  <2> QED
    BY <1>2, <2>2, <2>3, <2>4
<1>6. /\ bad \in Handlers /\ bad.pc = "answer" /\ bad.tool = k.tool
      /\ bad.step = k.step /\ bad.lookups = 0 /\ bad.result = "failed"
  <2>1. 0 \in 0 .. statementDeadline
    BY LimitsAssumption
  <2> QED
    BY <1>1, <1>2, <2>1 DEF Handlers, PCs, Results
<1>7. /\ refused \in Handlers /\ refused.pc = "answer" /\ refused.tool = k.tool
      /\ refused.step = k.step /\ refused.lookups = 0 /\ refused.result = "refused"
  <2>1. 0 \in 0 .. statementDeadline
    BY LimitsAssumption
  <2> QED
    BY <1>1, <1>2, <2>1 DEF Handlers, PCs, Results
<1>8. /\ sent' = [sent EXCEPT ![c] = sent[c]] /\ trail' = trail /\ inUse' = inUse
      /\ cleared = [cleared EXCEPT ![c] = cleared[c]]
  BY UnchangedLemma DEF Validate
<1>9. cl \in SUBSET Statements
  BY <1>2, <1>3
<1>10. \/ /\ cleared' = [cleared EXCEPT ![c] = cl]
          /\ \/ k.step < Len(Plan[k.tool]) /\ call' = [call EXCEPT ![c] = next]
             \/ k.step = Len(Plan[k.tool]) /\ call' = [call EXCEPT ![c] = start]
             \/ k.step = Len(Plan[k.tool]) /\ call' = [call EXCEPT ![c] = bad]
       \/ cleared' = cleared /\ call' = [call EXCEPT ![c] = refused]
  <2>1. LastStep(c) <=> k.step = Len(Plan[k.tool])
    BY <1>3 DEF LastStep
  <2>2. ~LastStep(c) <=> k.step < Len(Plan[k.tool])
    BY <1>3 DEF LastStep
  <2>3. CASE Current(c) \in ruleset
    <3>1. /\ cleared' = [cleared EXCEPT ![c] = cl]
          /\ \/ ~LastStep(c) /\ call' = [call EXCEPT ![c] = next]
             \/ LastStep(c) /\ call' = [call EXCEPT ![c] = start]
             \/ LastStep(c) /\ call' = [call EXCEPT ![c] = bad]
      <4>1. /\ cleared' = [cleared EXCEPT ![c] = cl]
            /\ \/ ~LastStep(c) /\ call' = [call EXCEPT ![c] = next]
               \/ LastStep(c) /\ Start(c)
               \/ LastStep(c) /\ Ends(c, "failed")
        BY <2>3 DEF Validate
      <4>2. Start(c) => call' = [call EXCEPT ![c] = start]
        BY DEF Start
      <4>3. Ends(c, "failed") => call' = [call EXCEPT ![c] = bad]
        BY DEF Ends
      <4> HIDE DEF cl, next, start, bad
      <4> QED
        BY <4>1, <4>2, <4>3, Zenon
    <3> QED
      BY <2>1, <2>2, <3>1
  <2>4. CASE Current(c) \notin ruleset
    BY <2>4 DEF Validate, Ends
  <2> QED
    BY <2>3, <2>4
<1> HIDE DEF next, start, bad, refused
<1>11. Covers(cl, k, k.step) /\ sent[c] \subseteq cl
  BY <1>2, <1>3 DEF Covers
<1> HIDE DEF cl
<1>12. CASE /\ cleared' = [cleared EXCEPT ![c] = cl]
            /\ k.step < Len(Plan[k.tool]) /\ call' = [call EXCEPT ![c] = next]
  <2>1. Gated(next, sent[c], cl)
    BY <1>2, <1>3, <1>4, <1>11, <1>12 DEF Gated, Passed, Covers, Unheard
  <2>2. Ran(next, sent[c]) /\ Accounts(c, next)
    BY <1>1, <1>2, <1>4, <1>8 DEF Ran, Accounts, Held
  <2> QED
    BY <1>1, <1>2, <1>4, <1>8, <1>9, <1>12, <2>1, <2>2, MoveLemma
<1>13. CASE /\ cleared' = [cleared EXCEPT ![c] = cl]
            /\ k.step = Len(Plan[k.tool]) /\ call' = [call EXCEPT ![c] = start]
  <2>1. Gated(start, sent[c], cl)
    BY <1>2, <1>3, <1>5, <1>11, <1>13 DEF Gated, Passed, Covers, Unheard
  <2>2. Ran(start, sent[c]) /\ Accounts(c, start)
    BY <1>1, <1>2, <1>5, <1>8 DEF Ran, Accounts, Held, Covers
  <2> QED
    BY <1>1, <1>2, <1>5, <1>8, <1>9, <1>13, <2>1, <2>2, MoveLemma
<1>14. CASE /\ cleared' = [cleared EXCEPT ![c] = cl]
            /\ k.step = Len(Plan[k.tool]) /\ call' = [call EXCEPT ![c] = bad]
  <2>1. Gated(bad, sent[c], cl)
    BY <1>2, <1>3, <1>6, <1>11, <1>14 DEF Gated, Passed, Covers, Unheard
  <2>2. Ran(bad, sent[c]) /\ Accounts(c, bad)
    BY <1>1, <1>2, <1>6, <1>8 DEF Ran, Accounts, Held
  <2> QED
    BY <1>1, <1>2, <1>6, <1>8, <1>9, <1>14, <2>1, <2>2, MoveLemma
<1>15. CASE cleared' = cleared /\ call' = [call EXCEPT ![c] = refused]
  <2>1. Gated(refused, sent[c], cleared[c])
    BY <1>2, <1>3, <1>7 DEF Gated, Passed, Unheard
  <2>2. Ran(refused, sent[c]) /\ Accounts(c, refused)
    BY <1>1, <1>2, <1>7, <1>8 DEF Ran, Accounts, Held
  <2> QED
    BY <1>1, <1>2, <1>7, <1>8, <1>15, <2>1, <2>2, MoveLemma
<1> QED
  BY <1>10, <1>12, <1>13, <1>14, <1>15

LEMMA BeginLemma ==
  ASSUME CallsInv, NEW c \in Calls, Begin(c)
  PROVE  CallsInv'
<1> DEFINE k == call[c]
           r == [k EXCEPT !.pc = "query"]
           s == sent[c] \cup {Current(c)}
<1>1. /\ k \in Handlers /\ k.pc = "begin"
      /\ Good(k, sent[c], cleared[c], trail[c])
  BY UnchangedLemma DEF Begin
<1>2. /\ Gated(k, sent[c], cleared[c]) /\ Ran(k, sent[c])
      /\ sent[c] \in SUBSET Statements /\ cleared[c] \in SUBSET Statements
      /\ k.lookups \in 0 .. 2 /\ k.result \in Results
  BY <1>1 DEF Good, Typed, Handlers
<1>3. /\ k.step \in 1 .. Len(Plan[k.tool]) /\ Len(Plan[k.tool]) \in Nat /\ Len(Plan[k.tool]) > 0
      /\ Current(c) \in Statements
      /\ k.lookups = 0 => Current(c) = Plan[k.tool][k.step]
      /\ k.lookups # 0 => Current(c) = similarNames
  BY PlanLemma
<1>4. k.result \notin Unheard /\ Covers(cleared[c], k, Len(Plan[k.tool]))
  BY <1>1, <1>2 DEF Gated, Passed
<1>5. Current(c) \in cleared[c]
  BY <1>2, <1>3, <1>4 DEF Gated, Covers
<1>6. /\ r \in Handlers /\ r.pc = "query" /\ r.tool = k.tool
      /\ r.step = k.step /\ r.lookups = k.lookups /\ r.result = k.result
  BY <1>1 DEF Handlers, PCs
<1>7. /\ call' = [call EXCEPT ![c] = r]
      /\ inUse < MaxConns /\ inUse' = inUse + 1 /\ trail' = trail
      /\ sent' = [sent EXCEPT ![c] = s]
      /\ cleared' = [cleared EXCEPT ![c] = cleared[c]]
  BY UnchangedLemma DEF Begin, Goto
<1> HIDE DEF r
<1>8. s \in SUBSET Statements
  BY <1>2, <1>3
<1>9. Gated(r, s, cleared[c])
  BY <1>2, <1>3, <1>4, <1>5, <1>6 DEF Gated, Passed, Covers, Unheard
<1>10. Ran(r, s)
  <2>1. ASSUME k.lookups = 0
        PROVE  /\ \A x \in s : \E i \in 1 .. Len(Plan[k.tool]) : x = Plan[k.tool][i]
               /\ Covers(s, k, k.step)
    BY <1>1, <1>2, <1>3, <2>1 DEF Ran, Covers
  <2>2. k.result = "rows" => k.lookups = 0
    BY <1>2 DEF Ran
  <2> HIDE DEF s
  <2> QED
    BY <1>6, <2>1, <2>2 DEF Ran, Covers
<1>11. Accounts(c, r)
  BY <1>1, <1>6, <1>7 DEF Accounts, Held
<1> QED
  BY <1>1, <1>2, <1>6, <1>7, <1>8, <1>9, <1>10, <1>11, MoveLemma

\* A step that only moves the handler on, where being gated says no more than
\* before: it has got past the gate, or it has been stopped at no statement.
LEMMA PassedOnLemma ==
  ASSUME CallsInv, NEW c \in Calls, NEW r,
         call' = [call EXCEPT ![c] = r],
         UNCHANGED <<sent, cleared, trail>>,
         call[c].pc \in {"begin", "query", "rollback", "naming", "answer"},
         r \in Handlers, r.pc \in {"begin", "query", "rollback", "naming", "answer"},
         call[c].result \notin Unheard, r.result \notin Unheard,
         r.tool = call[c].tool, r.step <= Len(Plan[r.tool]),
         r.lookups = call[c].lookups,
         Ran(r, sent[c]), Accounts(c, r)
  PROVE  CallsInv'
<1> DEFINE k == call[c]
<1>1. Good(k, sent[c], cleared[c], trail[c])
  BY UnchangedLemma
<1>2. /\ sent[c] \in SUBSET Statements /\ cleared[c] \in SUBSET Statements
      /\ Gated(k, sent[c], cleared[c])
  BY <1>1 DEF Good, Typed
<1>3. sent[c] \subseteq cleared[c] /\ Covers(cleared[c], k, Len(Plan[k.tool]))
  BY <1>2 DEF Gated, Passed
<1>4. k.lookups > 0 => similarNames \in cleared[c]
  BY <1>2 DEF Gated
<1>5. Gated(r, sent[c], cleared[c])
  BY <1>3, <1>4 DEF Gated, Covers
<1>6. /\ sent' = [sent EXCEPT ![c] = sent[c]]
      /\ cleared' = [cleared EXCEPT ![c] = cleared[c]]
      /\ trail' = trail
  BY UnchangedLemma
<1>7. k.pc # "done" /\ r.pc # "done"
  OBVIOUS
<1> QED
  BY <1>2, <1>5, <1>6, <1>7, MoveLemma

\* Only a handler that answers has been refused.
LEMMA HeardLemma ==
  ASSUME CallsInv, NEW c \in Calls,
         call[c].pc \in {"begin", "query", "rollback", "naming"}
  PROVE  call[c].result \notin Unheard
BY UnchangedLemma DEF Good, Gated

\* A handler that fails without a connection, and one that gives its
\* connection back with a result.
LEMMA EndsLemma ==
  ASSUME CallsInv, NEW c \in Calls, call[c].pc = "begin",
         Ends(c, "failed"), UNCHANGED <<inUse, sent, cleared, trail>>
  PROVE  CallsInv'
<1> DEFINE k == call[c]
           r == [k EXCEPT !.pc = "answer", !.deadline = 0, !.result = "failed"]
<1>1. k \in Handlers /\ k.result \notin Unheard
  BY UnchangedLemma, HeardLemma
<1>2. /\ r \in Handlers /\ r.pc = "answer" /\ r.tool = k.tool
      /\ r.step = k.step /\ r.lookups = k.lookups /\ r.result = "failed"
  <2>1. 0 \in 0 .. statementDeadline
    BY LimitsAssumption
  <2> QED
    BY <1>1, <2>1 DEF Handlers, PCs, Results
<1>3. call' = [call EXCEPT ![c] = r]
  BY DEF Ends
<1>4. r.step <= Len(Plan[r.tool])
  BY <1>2, PlanLemma
<1> HIDE DEF r
<1>5. Ran(r, sent[c])
  <2>1. Ran(k, sent[c])
    BY UnchangedLemma DEF Good
  <2> QED
    BY <1>2, <2>1 DEF Ran
<1>6. Accounts(c, r) /\ r.result \notin Unheard
  BY <1>2 DEF Accounts, Held, Unheard
<1> QED
  BY <1>1, <1>2, <1>3, <1>4, <1>5, <1>6, PassedOnLemma

LEMMA RollsBackLemma ==
  ASSUME CallsInv, NEW c \in Calls, NEW result \in {"rows", "failed", "missing"},
         call[c].pc = "query", result = "rows" => call[c].lookups = 0,
         RollsBack(c, result), UNCHANGED <<inUse, sent, cleared, trail>>
  PROVE  CallsInv'
<1> DEFINE k == call[c]
           r == [k EXCEPT !.pc = "rollback", !.result = result, !.rollbackBy = RollbackTime]
<1>1. k \in Handlers /\ k.result \notin Unheard
  BY UnchangedLemma, HeardLemma
<1>2. /\ r \in Handlers /\ r.pc = "rollback" /\ r.tool = k.tool
      /\ r.step = k.step /\ r.lookups = k.lookups /\ r.result = result
  <2>1. RollbackTime \in 0 .. rollbackTimeout /\ result \in Results
    BY LimitsAssumption DEF Results, RollbackTime
  <2>2. r \in Handlers
    BY <1>1, <2>1, Zenon DEF Handlers, PCs
  <2>3. r.pc = "rollback" /\ r.result = result
    BY <1>1 DEF Handlers
  <2>4. r.tool = k.tool /\ r.step = k.step /\ r.lookups = k.lookups
    BY <1>1 DEF Handlers
  <2> QED
    BY <2>2, <2>3, <2>4
<1>3. call' = [call EXCEPT ![c] = r]
  BY DEF RollsBack
<1>4. r.step <= Len(Plan[r.tool])
  BY <1>2, PlanLemma
<1> HIDE DEF r
<1>5. Ran(r, sent[c])
  <2>1. Ran(k, sent[c])
    BY UnchangedLemma DEF Good
  <2> QED
    BY <1>2, <2>1 DEF Ran, Covers
<1>6. Accounts(c, r) /\ r.result \notin Unheard
  BY <1>2 DEF Accounts, Held, Unheard
<1> QED
  BY <1>1, <1>2, <1>3, <1>4, <1>5, <1>6, PassedOnLemma

LEMMA WaitsLemma ==
  ASSUME CallsInv, NEW c \in Calls, NoSession(c) \/ QueryReturns(c) \/ TimesOut(c)
  PROVE  CallsInv'
<1>1. CASE NoSession(c)
  BY <1>1, EndsLemma DEF NoSession
<1>2. CASE QueryReturns(c)
  BY <1>2, RollsBackLemma DEF QueryReturns
<1>3. CASE TimesOut(c)
  BY <1>3, EndsLemma, RollsBackLemma DEF TimesOut
<1> QED
  BY <1>1, <1>2, <1>3

LEMMA RollbackLemma ==
  ASSUME CallsInv, NEW c \in Calls, Rollback(c)
  PROVE  CallsInv'
<1> DEFINE k == call[c]
           free == [k EXCEPT !.rollbackBy = 0]
           next == [free EXCEPT !.pc = "begin", !.step = k.step + 1]
           lost == [free EXCEPT !.pc = "naming", !.deadline = 0]
           over == [free EXCEPT !.pc = "answer", !.deadline = 0]
<1>1. k \in Handlers /\ k.result \notin Unheard /\ k.pc = "rollback"
  BY UnchangedLemma, HeardLemma DEF Rollback
<1>2. 0 \in 0 .. statementDeadline /\ 0 \in 0 .. rollbackTimeout
  BY LimitsAssumption
<1>3. /\ k.step \in 1 .. Len(Plan[k.tool]) /\ Len(Plan[k.tool]) \in Nat
      /\ LastStep(c) <=> k.step = Len(Plan[k.tool])
  BY PlanLemma DEF LastStep
<1>4. /\ free \in Handlers /\ free.tool = k.tool /\ free.step = k.step
      /\ free.lookups = k.lookups /\ free.result = k.result
  BY <1>1, <1>2 DEF Handlers
<1>5. \/ k.result = "rows" /\ k.step < Len(Plan[k.tool]) /\ call' = [call EXCEPT ![c] = next]
      \/ k.result = "missing" /\ call' = [call EXCEPT ![c] = lost]
      \/ /\ k.result # "missing" /\ (k.result = "rows" => k.step = Len(Plan[k.tool]))
         /\ call' = [call EXCEPT ![c] = over]
  <2>1. CASE k.result = "rows" /\ ~LastStep(c)
    <3>1. call' = [call EXCEPT ![c] = next]
      BY <1>4, <2>1 DEF Rollback
    <3> HIDE DEF next
    <3> QED
      BY <1>3, <2>1, <3>1
  <2>2. CASE k.result = "missing"
    <3>1. call' = [call EXCEPT ![c] = lost]
      BY <1>4, <2>2 DEF Rollback
    <3> QED
      BY <2>2, <3>1
  <2>3. CASE k.result # "missing" /\ ~(k.result = "rows" /\ ~LastStep(c))
    <3>1. call' = [call EXCEPT ![c] = over]
      BY <1>4, <2>3 DEF Rollback
    <3> HIDE DEF over
    <3> QED
      BY <1>3, <2>3, <3>1
  <2> QED
    BY <2>1, <2>2, <2>3
<1> HIDE DEF free
<1>6. /\ next \in Handlers /\ next.pc = "begin" /\ next.tool = k.tool
      /\ next.step = k.step + 1 /\ next.lookups = k.lookups /\ next.result = k.result
  <2>1. k.step + 1 \in Nat \ {0}
    BY <1>3
  <2>2. next \in Handlers
    BY <1>4, <2>1, Zenon DEF Handlers, PCs
  <2>3. next.pc = "begin" /\ next.tool = k.tool /\ next.step = k.step + 1
    BY <1>4 DEF Handlers
  <2>4. next.lookups = k.lookups /\ next.result = k.result
    BY <1>4 DEF Handlers
  <2> QED
    BY <2>2, <2>3, <2>4
<1>7. /\ lost \in Handlers /\ lost.pc = "naming" /\ lost.tool = k.tool
      /\ lost.step = k.step /\ lost.lookups = k.lookups /\ lost.result = k.result
  BY <1>2, <1>4 DEF Handlers, PCs
<1>8. /\ over \in Handlers /\ over.pc = "answer" /\ over.tool = k.tool
      /\ over.step = k.step /\ over.lookups = k.lookups /\ over.result = k.result
  BY <1>2, <1>4 DEF Handlers, PCs
<1>9. Ran(k, sent[c])
  BY UnchangedLemma DEF Good
<1>10. UNCHANGED <<sent, cleared, trail>> /\ inUse' = inUse - 1
  BY DEF Rollback
<1> HIDE DEF next, lost, over
<1>11. CASE k.result = "rows" /\ k.step < Len(Plan[k.tool]) /\ call' = [call EXCEPT ![c] = next]
  <2>1. Ran(next, sent[c])
    BY <1>1, <1>3, <1>6, <1>9, <1>11 DEF Ran, Covers
  <2>2. Accounts(c, next) /\ next.step <= Len(Plan[next.tool])
    BY <1>1, <1>3, <1>6, <1>10, <1>11 DEF Accounts, Held
  <2> QED
    BY <1>1, <1>6, <1>10, <1>11, <2>1, <2>2, PassedOnLemma
<1>12. CASE k.result = "missing" /\ call' = [call EXCEPT ![c] = lost]
  <2>1. Ran(lost, sent[c])
    BY <1>7, <1>9, <1>12 DEF Ran
  <2>2. Accounts(c, lost) /\ lost.step <= Len(Plan[lost.tool])
    BY <1>1, <1>3, <1>7, <1>10 DEF Accounts, Held
  <2> QED
    BY <1>1, <1>7, <1>10, <1>12, <2>1, <2>2, PassedOnLemma
<1>13. CASE /\ k.result # "missing" /\ (k.result = "rows" => k.step = Len(Plan[k.tool]))
            /\ call' = [call EXCEPT ![c] = over]
  <2>1. Ran(over, sent[c])
    BY <1>1, <1>3, <1>8, <1>9, <1>13 DEF Ran, Covers
  <2>2. Accounts(c, over) /\ over.step <= Len(Plan[over.tool])
    BY <1>1, <1>3, <1>8, <1>10 DEF Accounts, Held
  <2> QED
    BY <1>1, <1>8, <1>10, <1>13, <2>1, <2>2, PassedOnLemma
<1> QED
  BY <1>5, <1>11, <1>12, <1>13

LEMMA UnbuildableLemma ==
  ASSUME CallsInv, NEW c \in Calls, Unbuildable(c)
  PROVE  CallsInv'
<1> DEFINE k == call[c]
           r == [k EXCEPT !.result = "failed"]
<1>1. k \in Handlers /\ k.pc = "answer" /\ k.result = "rows"
  BY UnchangedLemma DEF Unbuildable
<1>2. /\ r \in Handlers /\ r.pc = "answer" /\ r.tool = k.tool
      /\ r.step = k.step /\ r.lookups = k.lookups /\ r.result = "failed"
  BY <1>1 DEF Handlers, Results
<1>3. /\ call' = [call EXCEPT ![c] = r]
      /\ UNCHANGED <<inUse, sent, cleared, trail>>
  BY DEF Unbuildable
<1>4. r.step <= Len(Plan[r.tool])
  BY <1>2, PlanLemma
<1> HIDE DEF r
<1>5. Ran(r, sent[c])
  <2>1. Ran(k, sent[c])
    BY UnchangedLemma DEF Good
  <2> QED
    BY <1>2, <2>1 DEF Ran
<1>6. Accounts(c, r) /\ k.result \notin Unheard /\ r.result \notin Unheard
  BY <1>1, <1>2, <1>3 DEF Accounts, Held, Unheard
<1> QED
  BY <1>1, <1>2, <1>3, <1>4, <1>5, <1>6, PassedOnLemma

LEMMA NamingLemma ==
  ASSUME CallsInv, NEW c \in Calls, Naming(c)
  PROVE  CallsInv'
<1> DEFINE k == call[c]
           over == [k EXCEPT !.pc = "answer"]
           look == [k EXCEPT !.pc = "begin", !.lookups = k.lookups + 1,
                             !.deadline = statementDeadline]
           cl == cleared[c] \cup {similarNames}
<1>1. /\ k \in Handlers /\ k.result \notin Unheard /\ k.pc = "naming"
      /\ Good(k, sent[c], cleared[c], trail[c])
  BY UnchangedLemma, HeardLemma DEF Naming
<1>2. /\ Gated(k, sent[c], cleared[c]) /\ Ran(k, sent[c])
      /\ sent[c] \in SUBSET Statements /\ cleared[c] \in SUBSET Statements
      /\ k.lookups \in 0 .. 2 /\ k.result = "missing"
  BY <1>1 DEF Good, Typed, Handlers, Ran
<1>3. k.step \in 1 .. Len(Plan[k.tool]) /\ Len(Plan[k.tool]) \in Nat
  BY PlanLemma
<1>4. /\ over \in Handlers /\ over.pc = "answer" /\ over.tool = k.tool
      /\ over.step = k.step /\ over.lookups = k.lookups /\ over.result = k.result
  BY <1>1 DEF Handlers, PCs
<1>5. ASSUME k.lookups < 2
      PROVE  /\ look \in Handlers /\ look.pc = "begin" /\ look.tool = k.tool
             /\ look.step = k.step /\ look.lookups = k.lookups + 1 /\ look.result = k.result
  <2>1. k.lookups + 1 \in 0 .. 2 /\ statementDeadline \in 0 .. statementDeadline
    BY <1>2, <1>5, LimitsAssumption
  <2>2. look \in Handlers
    BY <1>1, <2>1, Zenon DEF Handlers, PCs
  <2>3. look.pc = "begin" /\ look.lookups = k.lookups + 1
    BY <1>1 DEF Handlers
  <2>4. look.tool = k.tool /\ look.step = k.step /\ look.result = k.result
    BY <1>1 DEF Handlers
  <2> QED
    BY <2>2, <2>3, <2>4
<1>6. UNCHANGED <<inUse, sent, trail>>
  BY DEF Naming
<1>7. \/ call' = [call EXCEPT ![c] = over] /\ cleared' = cleared
      \/ /\ k.lookups < 2 /\ call' = [call EXCEPT ![c] = look]
         /\ cleared' = [cleared EXCEPT ![c] = cl]
  <2>1. CASE Goto(c, "answer") /\ UNCHANGED cleared
    BY <2>1 DEF Goto
  <2>2. CASE /\ k.lookups < 2
             /\ call' = [call EXCEPT ![c] = look]
             /\ cleared' = [cleared EXCEPT ![c] = cl]
    BY <2>2
  <2> QED
    BY <2>1, <2>2 DEF Naming
<1> HIDE DEF over, look
<1>8. CASE call' = [call EXCEPT ![c] = over] /\ cleared' = cleared
  <2>1. Ran(over, sent[c]) /\ Accounts(c, over) /\ over.step <= Len(Plan[over.tool])
    BY <1>1, <1>2, <1>3, <1>4, <1>6 DEF Ran, Accounts, Held
  <2> QED
    BY <1>1, <1>4, <1>6, <1>8, <2>1, PassedOnLemma
<1>9. CASE /\ k.lookups < 2 /\ call' = [call EXCEPT ![c] = look]
           /\ cleared' = [cleared EXCEPT ![c] = cl]
  <2>1. cl \in SUBSET Statements
    BY <1>2, ToolsAssumption
  <2>2. sent[c] \subseteq cleared[c] /\ Covers(cleared[c], k, Len(Plan[k.tool]))
    BY <1>1, <1>2 DEF Gated, Passed
  <2>3. Gated(look, sent[c], cl)
    BY <1>1, <1>2, <1>3, <1>5, <1>9, <2>2 DEF Gated, Covers
  <2>4. Ran(look, sent[c]) /\ Accounts(c, look)
    BY <1>1, <1>2, <1>5, <1>6, <1>9 DEF Ran, Accounts, Held
  <2>5. sent' = [sent EXCEPT ![c] = sent[c]] /\ trail' = trail
    BY <1>6, UnchangedLemma
  <2> QED
    BY <1>1, <1>2, <1>5, <1>9, <2>1, <2>3, <2>4, <2>5, MoveLemma
<1> QED
  BY <1>7, <1>8, <1>9

\* The event tells the truth about what the call has sent and been allowed.
LEMMA EventLemma ==
  ASSUME CallsInv, NEW c \in Calls, call[c].pc = "answer"
  PROVE  Event(c) \in Events /\ Tells(Event(c), call[c], sent[c], cleared[c])
<1> DEFINE k == call[c]
<1>1. k.pc = "answer" /\ Gated(k, sent[c], cleared[c]) /\ Ran(k, sent[c])
  BY UnchangedLemma DEF Good
<1>2. /\ k.result \in Unheard => sent[c] = {}
      /\ k.result \notin Unheard => Covers(cleared[c], k, Len(Plan[k.tool]))
      /\ k.result = "rows" =>
           /\ Covers(sent[c], k, Len(Plan[k.tool]))
           /\ \A x \in sent[c] : \E i \in 1 .. Len(Plan[k.tool]) : x = Plan[k.tool][i]
  BY <1>1 DEF Gated, Passed, Ran
<1>3. /\ Event(c).outcome = IF k.result = "rows" THEN "allowed"
                            ELSE IF k.result = "refused" THEN "refused" ELSE "failed"
      /\ k.result = "refused" => Event(c).verdict = "refused"
      /\ k.result = "noAlias" => Event(c).verdict = ""
      /\ k.result \notin Unheard => Event(c).verdict \in {"allow", "refused"}
      /\ DOMAIN Event(c) = {"outcome", "verdict"}
  BY DEF Event, VerdictNow, Unheard
<1>4. Event(c) \in Events
  BY DEF Event, Events, Verdicts, VerdictNow
<1>5. Tells(Event(c), k, sent[c], cleared[c])
  <2>1. CASE k.result = "rows"
    BY <1>2, <1>3, <2>1 DEF Tells, Unheard
  <2>2. CASE k.result \in Unheard
    BY <1>2, <1>3, <2>2 DEF Tells, Unheard
  <2>3. CASE k.result # "rows" /\ k.result \notin Unheard
    BY <1>2, <1>3, <2>3 DEF Tells, Unheard
  <2> QED
    BY <2>1, <2>2, <2>3
<1> QED
  BY <1>4, <1>5

LEMMA AnswerLemma ==
  ASSUME CallsInv, NEW c \in Calls, Answer(c)
  PROVE  CallsInv'
<1> DEFINE k == call[c]
           r == [k EXCEPT !.pc = "done"]
           e == Event(c)
           tr == Append(trail[c], e)
<1>1. /\ k \in Handlers /\ k.pc = "answer"
      /\ Gated(k, sent[c], cleared[c]) /\ Ran(k, sent[c])
      /\ Typed(k, sent[c], cleared[c], trail[c]) /\ Len(trail[c]) = 0
  BY UnchangedLemma DEF Answer, Good
<1>2. e \in Events /\ Tells(e, k, sent[c], cleared[c])
  BY <1>1, EventLemma
<1>3. /\ r \in Handlers /\ r.pc = "done" /\ r.tool = k.tool
      /\ r.step = k.step /\ r.lookups = k.lookups /\ r.result = k.result
  BY <1>1 DEF Handlers, PCs
<1>4. /\ call' = [call EXCEPT ![c] = r]
      /\ trail' = [trail EXCEPT ![c] = tr]
      /\ sent' = [sent EXCEPT ![c] = sent[c]]
      /\ cleared' = [cleared EXCEPT ![c] = cleared[c]]
      /\ inUse' = inUse
  BY UnchangedLemma DEF Answer, Goto
<1> HIDE DEF r, e
<1>5. tr \in Seq(Events) /\ Len(tr) = 1 /\ tr[1] = e
  BY <1>1, <1>2 DEF Typed
<1> HIDE DEF tr
<1>6. Gated(r, sent[c], cleared[c])
  BY <1>1, <1>3 DEF Gated, Passed, Covers, Unheard
<1>7. Ran(r, sent[c])
  BY <1>1, <1>3 DEF Ran, Covers
<1>8. Recorded(r, sent[c], cleared[c], tr)
  BY <1>2, <1>3, <1>5 DEF Recorded, Tells, Covers
<1>9. Typed(r, sent[c], cleared[c], tr)
  BY <1>1, <1>3, <1>5 DEF Typed
<1>10. Accounts(c, r)
  BY <1>1, <1>3, <1>4 DEF Accounts, Held
<1> QED
  BY <1>4, <1>6, <1>7, <1>8, <1>9, <1>10, OneCallLemma DEF Good

-----------------------------------------------------------------------------
(* What the process does to all handlers at once. *)

\* Steps of Run, of the operator and of the overlay leave the handlers alone.
LEMMA StillLemma ==
  ASSUME CallsInv, UNCHANGED callVars
  PROVE  CallsInv'
<1>1. inUse' = inUse /\ call' = call /\ sent' = sent /\ cleared' = cleared /\ trail' = trail
  BY DEF callVars
<1>2. Shapes'
  BY <1>1 DEF CallsInv, Shapes
<1>3. \A c \in Calls : Good(call'[c], sent'[c], cleared'[c], trail'[c])
  BY <1>1 DEF CallsInv
<1>4. Holders' = Holders
  BY <1>1 DEF Holders, Held
<1> QED
  BY <1>1, <1>2, <1>3, <1>4 DEF CallsInv

\* Time only runs off the timers.
LEMMA TickLemma ==
  ASSUME CallsInv, Tick
  PROVE  CallsInv'
<1> DEFINE Less(t) == IF t > 0 THEN t - 1 ELSE 0
           late(c) == [call[c] EXCEPT !.deadline = Less(call[c].deadline),
                                      !.rollbackBy = Less(call[c].rollbackBy)]
<1>1. /\ call' = [c \in Calls |-> late(c)]
      /\ UNCHANGED <<inUse, sent, cleared, trail>>
  BY DEF Tick, Elapse
<1>2. ASSUME NEW c \in Calls
      PROVE  /\ late(c) \in Handlers /\ late(c).pc = call[c].pc /\ late(c).tool = call[c].tool
             /\ late(c).step = call[c].step /\ late(c).lookups = call[c].lookups
             /\ late(c).result = call[c].result
  <2>1. call[c] \in Handlers
    BY UnchangedLemma
  <2>2. /\ Less(call[c].deadline) \in 0 .. statementDeadline
        /\ Less(call[c].rollbackBy) \in 0 .. rollbackTimeout
    BY <2>1, LimitsAssumption DEF Handlers
  <2> HIDE DEF Less
  <2>3. late(c) \in Handlers
    BY <2>1, <2>2, Zenon DEF Handlers
  <2>4. late(c).pc = call[c].pc /\ late(c).tool = call[c].tool /\ late(c).step = call[c].step
    BY <2>1 DEF Handlers
  <2>5. late(c).lookups = call[c].lookups /\ late(c).result = call[c].result
    BY <2>1 DEF Handlers
  <2> QED
    BY <2>3, <2>4, <2>5
<1> HIDE DEF late
<1>3. \A c \in Calls : call'[c] = late(c)
  BY <1>1
<1>4. Shapes'
  BY <1>1, <1>2 DEF CallsInv, Shapes
<1>5. ASSUME NEW c \in Calls
      PROVE  Good(call'[c], sent'[c], cleared'[c], trail'[c])
  <2>1. Good(call[c], sent[c], cleared[c], trail[c])
    BY UnchangedLemma
  <2>2. Typed(late(c), sent[c], cleared[c], trail[c])
    BY <1>2, <2>1 DEF Good, Typed
  <2>3. Gated(late(c), sent[c], cleared[c])
    BY <1>2, <2>1 DEF Good, Gated, Passed, Covers
  <2>4. Ran(late(c), sent[c])
    BY <1>2, <2>1 DEF Good, Ran, Covers
  <2>5. Recorded(late(c), sent[c], cleared[c], trail[c])
    BY <1>2, <2>1 DEF Good, Recorded, Tells, Covers
  <2> QED
    BY <1>1, <1>3, <2>2, <2>3, <2>4, <2>5 DEF Good
<1>6. Holders' = Holders
  BY <1>2, <1>3 DEF Holders, Held
<1> QED
  BY <1>1, <1>4, <1>5, <1>6 DEF CallsInv

\* The end of the process cuts off what was at work.
LEMMA ExitLemma ==
  ASSUME CallsInv, Exit
  PROVE  CallsInv'
<1> DEFINE last(c) == IF Active(c) THEN [call[c] EXCEPT !.pc = "cut"] ELSE call[c]
<1>1. /\ call' = [c \in Calls |-> last(c)] /\ inUse' = 0
      /\ UNCHANGED <<sent, cleared, trail>>
  BY DEF Exit
<1>2. ASSUME NEW c \in Calls
      PROVE  /\ last(c) \in Handlers /\ last(c).tool = call[c].tool
             /\ last(c).step = call[c].step /\ last(c).lookups = call[c].lookups
             /\ last(c).result = call[c].result
             /\ (last(c).pc = "cut" /\ call[c].pc # "done") \/ last(c).pc = call[c].pc
             /\ last(c).pc \in {"idle", "done", "cut"}
  <2>1. call[c] \in Handlers
    BY UnchangedLemma
  <2>2. CASE Active(c)
    <3>1. [call[c] EXCEPT !.pc = "cut"] \in Handlers
      BY <2>1 DEF Handlers, PCs
    <3> QED
      BY <2>1, <2>2, <3>1 DEF Handlers, Active
  <2>3. CASE ~Active(c)
    BY <2>1, <2>3 DEF Active
  <2> QED
    BY <2>2, <2>3
<1> HIDE DEF last
<1>3. \A c \in Calls : call'[c] = last(c)
  BY <1>1
<1>4. Shapes'
  BY <1>1, <1>2 DEF CallsInv, Shapes
<1>5. ASSUME NEW c \in Calls
      PROVE  Good(call'[c], sent'[c], cleared'[c], trail'[c])
  <2>1. Good(call[c], sent[c], cleared[c], trail[c])
    BY UnchangedLemma
  <2>2. Typed(last(c), sent[c], cleared[c], trail[c])
    BY <1>2, <2>1 DEF Good, Typed
  <2>3. Gated(last(c), sent[c], cleared[c])
    BY <1>2, <2>1 DEF Good, Gated, Passed, Covers
  <2>4. Ran(last(c), sent[c])
    BY <1>2, <2>1 DEF Good, Ran, Covers
  <2>5. Recorded(last(c), sent[c], cleared[c], trail[c])
    <3>1. last(c).pc = "done" <=> call[c].pc = "done"
      BY <1>2
    <3>2. Recorded(call[c], sent[c], cleared[c], trail[c]) /\ last(c).tool = call[c].tool
      BY <1>2, <2>1 DEF Good
    <3> QED
      BY <3>1, <3>2 DEF Recorded, Tells, Covers
  <2> QED
    BY <1>1, <1>3, <2>2, <2>3, <2>4, <2>5 DEF Good
<1>6. Holders' = {}
  BY <1>2, <1>3 DEF Holders, Held
<1>7. Cardinality(Holders') = 0 /\ 0 <= MaxConns
  BY <1>6, FS_EmptySet, LimitsAssumption
<1> QED
  BY <1>1, <1>4, <1>5, <1>7 DEF CallsInv

LEMMA CallStepsLemma ==
  ASSUME CallsInv, CallSteps
  PROVE  CallsInv'
<1>1. PICK c \in Calls : (\E t \in Tools : Arrive(c, t)) \/ Serve(c) \/ Awaits(c)
  BY DEF CallSteps
<1>2. CASE \E t \in Tools : Arrive(c, t)
  BY <1>2, ArriveLemma
<1>3. CASE Serve(c)
  BY <1>3, ValidateLemma, WaitsLemma, RollbackLemma, NamingLemma, UnbuildableLemma, AnswerLemma
     DEF Serve
<1>4. CASE Awaits(c)
  BY <1>4, BeginLemma, WaitsLemma, RollbackLemma DEF Awaits
<1> QED
  BY <1>1, <1>2, <1>3, <1>4

LEMMA InitLemma ==
  ASSUME Init
  PROVE  CallsInv
<1>1. /\ inUse = 0
      /\ call = [c \in Calls |-> NoHandler]
      /\ sent = [c \in Calls |-> {}] /\ cleared = [c \in Calls |-> {}]
      /\ trail = [c \in Calls |-> <<>>]
  BY DEF Init, InitCalls
<1>2. /\ NoHandler \in Handlers /\ NoHandler.pc = "idle" /\ NoHandler.step = 1
      /\ NoHandler.lookups = 0 /\ NoHandler.result = "none" /\ NoHandler.tool \in Tools
  <2> DEFINE someTool == CHOOSE t \in Tools : TRUE
  <2>1. /\ 0 \in 0 .. statementDeadline /\ 0 \in 0 .. rollbackTimeout
        /\ 1 \in Nat \ {0} /\ 0 \in 0 .. 2
    BY LimitsAssumption
  <2>2. someTool \in Tools
    BY ToolsAssumption, Zenon
  <2>3. NoHandler = [pc |-> "idle", tool |-> someTool, step |-> 1, deadline |-> 0,
                     rollbackBy |-> 0, lookups |-> 0, result |-> "none"]
    BY DEF NoHandler
  <2> HIDE DEF someTool
  <2>4. NoHandler \in Handlers
    <3>1. "idle" \in PCs /\ "none" \in Results
      BY DEF PCs, Results
    <3> QED
      BY <2>1, <2>2, <2>3, <3>1, Zenon DEF Handlers
  <2>5. NoHandler.pc = "idle" /\ NoHandler.step = 1 /\ NoHandler.tool = someTool
    BY <2>3
  <2>6. NoHandler.lookups = 0 /\ NoHandler.result = "none"
    BY <2>3
  <2> QED
    BY <2>2, <2>4, <2>5, <2>6
<1>3. Shapes
  BY <1>1, <1>2 DEF Shapes
<1>4. ASSUME NEW c \in Calls
      PROVE  Good(call[c], sent[c], cleared[c], trail[c])
  <2>1. call[c] = NoHandler /\ sent[c] = {} /\ cleared[c] = {} /\ trail[c] = <<>>
    BY <1>1
  <2>2. Typed(NoHandler, {}, {}, <<>>)
    BY <1>2 DEF Typed
  <2>3. Len(Plan[NoHandler.tool]) \in Nat /\ Len(Plan[NoHandler.tool]) > 0
    BY <1>2, ToolsAssumption
  <2>4. Gated(NoHandler, {}, {})
    BY <1>2, <2>3 DEF Gated, Passed, Covers, Unheard
  <2>5. Ran(NoHandler, {}) /\ Recorded(NoHandler, {}, {}, <<>>)
    BY <1>2 DEF Ran, Recorded
  <2> QED
    BY <2>1, <2>2, <2>4, <2>5 DEF Good
<1>5. Holders = {}
  BY <1>1, <1>2 DEF Holders, Held
<1>6. Cardinality(Holders) = 0 /\ 0 <= MaxConns
  BY <1>5, FS_EmptySet, LimitsAssumption
<1> QED
  BY <1>1, <1>3, <1>4, <1>6 DEF CallsInv

LEMMA NextLemma ==
  ASSUME CallsInv, [Next]_vars
  PROVE  CallsInv'
<1>1. CASE CallSteps
  BY <1>1, CallStepsLemma
<1>2. CASE Tick
  BY <1>2, TickLemma
<1>3. CASE Exit
  BY <1>3, ExitLemma
<1>4. CASE \/ StartReload \/ FinishReload \/ BeginShutdown \/ Drained \/ DrainExpires
           \/ ServeFails \/ EditOverlay \/ Hangup \/ Term \/ Done \/ UNCHANGED vars
  <2>1. UNCHANGED callVars
    BY <1>4, Zenon DEF StartReload, FinishReload, BeginShutdown, Drained, DrainExpires,
       ServeFails, EditOverlay, Hangup, Term, Done, vars
  <2> QED
    BY <2>1, StillLemma
<1> QED
  BY <1>1, <1>2, <1>3, <1>4 DEF Next, RunSteps

THEOREM CallsInvariant == Spec => []CallsInv
<1>1. Init => CallsInv
  BY InitLemma
<1>2. CallsInv /\ [Next]_vars => CallsInv'
  BY NextLemma
<1> QED
  BY <1>1, <1>2, PTL DEF Spec

-----------------------------------------------------------------------------
(* What follows from it. *)

\* No statement of any tool goes out before the gate has allowed it to that very
\* call, and a refused call has sent none: the order of Validate and Begin in
\* every handler of tools.go and in the lookups of missing.go.
THEOREM GateFirst == Spec => []GateBeforeSocket
<1>1. CallsInv => GateBeforeSocket
  BY DEF CallsInv, Good, Gated, GateBeforeSocket, Unheard
<1> QED
  BY <1>1, CallsInvariant, PTL

\* The pool counts exactly the open transactions, and never has more of them
\* than connections: withTx and its deferred rollback, through timeouts, a pool
\* closed under them and the end of the process.
THEOREM PoolIsAccounted == Spec => []PoolAccounted
<1>1. CallsInv => PoolAccounted
  <2> SUFFICES ASSUME CallsInv
               PROVE  PoolAccounted
    OBVIOUS
  <2>1. {c \in Calls : Borrows(c)} = Holders
    BY DEF Borrows, Holders, Held
  <2> QED
    BY <2>1 DEF CallsInv, PoolAccounted
<1> QED
  BY <1>1, CallsInvariant, PTL

\* Every answered call has one event, and the event is true of what the call
\* sent and of what the gate allowed it: audit.go and the deferred or explicit
\* record of every handler.
THEOREM AuditIsTrue == Spec => []AuditMatches
<1>1. CallsInv => AuditMatches
  <2> SUFFICES ASSUME CallsInv, NEW c \in Calls
               PROVE  /\ Len(trail[c]) = IF call[c].pc = "done" THEN 1 ELSE 0
                      /\ \A i \in 1 .. Len(trail[c]) :
                           /\ trail[c][i].outcome = "allowed" => sent[c] = PlanOf(c)
                           /\ trail[c][i].outcome = "refused" \/ trail[c][i].verdict = "" =>
                                sent[c] = {}
                           /\ trail[c][i].outcome = "failed" /\ trail[c][i].verdict = "allow" =>
                                PlanOf(c) \subseteq cleared[c]
    BY DEF AuditMatches
  <2> DEFINE k == call[c]
  <2>1. Recorded(k, sent[c], cleared[c], trail[c])
    BY UnchangedLemma DEF Good
  <2>2. Len(trail[c]) = IF k.pc = "done" THEN 1 ELSE 0
    BY <2>1 DEF Recorded
  <2>3. ASSUME NEW S, Covers(S, k, Len(Plan[k.tool]))
        PROVE  PlanOf(c) \subseteq S
    BY <2>3 DEF Covers, PlanOf
  <2>4. ASSUME NEW S, \A x \in S : \E i \in 1 .. Len(Plan[k.tool]) : x = Plan[k.tool][i]
        PROVE  S \subseteq PlanOf(c)
    BY <2>4 DEF PlanOf
  <2>5. ASSUME NEW i \in 1 .. Len(trail[c])
        PROVE  Tells(trail[c][i], k, sent[c], cleared[c])
    <3>1. i = 1 /\ k.pc = "done"
      BY <2>2, <2>5
    <3> QED
      BY <2>1, <3>1 DEF Recorded
  <2> QED
    BY <2>2, <2>3, <2>4, <2>5 DEF Tells
<1> QED
  BY <1>1, CallsInvariant, PTL

-----------------------------------------------------------------------------
(* The process: its reloads and its end. *)

Flags ==
  /\ accepting \in BOOLEAN /\ poolOpen \in BOOLEAN
  /\ term \in BOOLEAN /\ hangup \in BOOLEAN /\ signalled \in BOOLEAN

Values ==
  /\ ruleset \in Overlays
  /\ phase \in {"serving", "draining", "closing", "exited"}
  /\ why \in {"", "drained", "expired", "stopped"}
  /\ drainFor \in 0 .. ShutdownTimeout
  /\ loading \in Overlays \cup {Rejected, Unread}
  /\ overlay \in Overlays \cup {Rejected}
  /\ edits \in 0 .. MaxEdits
  /\ spent \in SUBSET Calls

RunTyped == Flags /\ Values

\* The listener and the pool are open exactly in their phases.
Gates ==
  /\ accepting <=> phase = "serving"
  /\ poolOpen <=> phase \in {"serving", "draining"}
  /\ spent # {} => why \in {"expired", "stopped"}
  /\ why = "drained" => phase \in {"closing", "exited"}

\* A signal sent since the last edit waits in the channel, or the reload in
\* progress has read the file as it is, or the file has been taken.
Reloads ==
  signalled /\ ~hangup /\ phase = "serving" =>
    /\ loading # Unread => loading = overlay
    /\ loading = Unread /\ overlay # Rejected => ruleset = overlay

\* Only the end of the process cuts a call, and a drain leaves none at work.
Leftovers ==
  /\ phase # "exited" => \A c \in Calls : call[c].pc # "cut"
  /\ why = "drained" => \A c \in Calls : call[c].pc \in {"idle", "done"}

RunInv == RunTyped /\ Gates /\ Reloads /\ Leftovers

\* The steps of the handlers leave the process alone, cut no call, and need a
\* call at work or an open listener.
LEMMA HandlersLemma ==
  ASSUME CallsInv, CallSteps
  PROVE  /\ UNCHANGED <<surroundings, life, signals, disk>> /\ phase # "exited"
         /\ (\E c \in Calls : Active(c)) \/ accepting
         /\ (\A c \in Calls : call[c].pc # "cut") => \A c \in Calls : call'[c].pc # "cut"
<1>1. PICK c \in Calls : (\E t \in Tools : Arrive(c, t)) \/ Serve(c) \/ Awaits(c)
  BY DEF CallSteps
<1>2. UNCHANGED <<life, signals, disk>> /\ phase # "exited"
  BY DEF CallSteps
<1>3. UNCHANGED surroundings
  BY <1>1, Zenon DEF Serve, Awaits, Arrive, Validate, TimesOut, Rollback, Naming, Unbuildable,
     Answer, Begin, NoSession, QueryReturns
<1>4. Active(c) \/ accepting
  BY <1>1 DEF Serve, Awaits, Arrive, Validate, TimesOut, Rollback, Naming, Unbuildable,
     Answer, Begin, NoSession, QueryReturns, Active
<1>5. ASSUME \A d \in Calls : call[d].pc # "cut"
      PROVE  \A d \in Calls : call'[d].pc # "cut"
  <2>1. call[c] \in Handlers /\ call[c].pc # "cut" /\ call \in [Calls -> Handlers]
    BY <1>5, UnchangedLemma DEF CallsInv, Shapes
  <2>2. ASSUME NEW r, call' = [call EXCEPT ![c] = r], r.pc # "cut"
        PROVE  \A d \in Calls : call'[d].pc # "cut"
    BY <1>5, <2>1, <2>2
  <2>3. ASSUME NEW q, q # "cut", Goto(c, q)
        PROVE  \A d \in Calls : call'[d].pc # "cut"
    <3> DEFINE r == [call[c] EXCEPT !.pc = q]
    <3>1. r.pc = q /\ call' = [call EXCEPT ![c] = r]
      BY <2>1, <2>3 DEF Goto, Handlers
    <3> HIDE DEF r
    <3> QED
      BY <2>2, <2>3, <3>1
  <2>4. ASSUME NEW q, Ends(c, q)
        PROVE  \A d \in Calls : call'[d].pc # "cut"
    <3> DEFINE r == [call[c] EXCEPT !.pc = "answer", !.deadline = 0, !.result = q]
    <3>1. r.pc = "answer" /\ call' = [call EXCEPT ![c] = r]
      BY <2>1, <2>4 DEF Ends, Handlers
    <3> HIDE DEF r
    <3> QED
      BY <2>2, <3>1
  <2>5. ASSUME NEW q, RollsBack(c, q)
        PROVE  \A d \in Calls : call'[d].pc # "cut"
    <3> DEFINE r == [call[c] EXCEPT !.pc = "rollback", !.result = q,
                                    !.rollbackBy = RollbackTime]
    <3>1. r.pc = "rollback"
      BY <2>1 DEF Handlers
    <3>2. call' = [call EXCEPT ![c] = r]
      BY <2>5 DEF RollsBack
    <3> HIDE DEF r
    <3> QED
      BY <2>2, <3>1, <3>2
  <2>6. ASSUME Start(c)
        PROVE  \A d \in Calls : call'[d].pc # "cut"
    <3> DEFINE r == [call[c] EXCEPT !.pc = "begin", !.step = 1, !.deadline = statementDeadline]
    <3>1. r.pc = "begin"
      BY <2>1 DEF Handlers
    <3>2. call' = [call EXCEPT ![c] = r]
      BY <2>6 DEF Start
    <3> HIDE DEF r
    <3> QED
      BY <2>2, <3>1, <3>2
  <2>7. CASE \E t \in Tools : Arrive(c, t)
    <3>1. PICK t \in Tools : Arrive(c, t)
      BY <2>7
    <3> DEFINE gate == [call[c] EXCEPT !.pc = "gate", !.tool = t]
               strange == [call[c] EXCEPT !.pc = "answer", !.tool = t, !.result = "noAlias"]
    <3>2. gate.pc = "gate" /\ strange.pc = "answer"
      BY <2>1 DEF Handlers
    <3>3. call' = [call EXCEPT ![c] = gate] \/ call' = [call EXCEPT ![c] = strange]
      BY <3>1 DEF Arrive
    <3> HIDE DEF gate, strange
    <3> QED
      BY <2>2, <3>2, <3>3
  <2>8. CASE Validate(c)
    <3> DEFINE r == [call[c] EXCEPT !.step = call[c].step + 1]
    <3>1. r.pc = call[c].pc
      BY <2>1 DEF Handlers
    <3>2. call' = [call EXCEPT ![c] = r] \/ Start(c) \/ Ends(c, "failed") \/ Ends(c, "refused")
      BY <2>8, Zenon DEF Validate
    <3> HIDE DEF r
    <3> QED
      BY <2>1, <2>2, <2>4, <2>6, <3>1, <3>2
  <2>9. CASE TimesOut(c)
    BY <2>4, <2>5, <2>9 DEF TimesOut
  <2>10. CASE Rollback(c)
    <3> DEFINE r == [call[c] EXCEPT !.rollbackBy = 0]
               next == [r EXCEPT !.pc = "begin", !.step = r.step + 1]
               lost == [r EXCEPT !.pc = "naming", !.deadline = 0]
               over == [r EXCEPT !.pc = "answer", !.deadline = 0]
    <3>1. next.pc = "begin" /\ lost.pc = "naming" /\ over.pc = "answer"
      BY <2>1 DEF Handlers
    <3>2. \/ call' = [call EXCEPT ![c] = next] \/ call' = [call EXCEPT ![c] = lost]
          \/ call' = [call EXCEPT ![c] = over]
      BY <2>10 DEF Rollback
    <3> HIDE DEF r, next, lost, over
    <3> QED
      BY <2>2, <3>1, <3>2
  <2>11. CASE Naming(c)
    <3> DEFINE r == [call[c] EXCEPT !.pc = "begin", !.lookups = call[c].lookups + 1,
                                    !.deadline = statementDeadline]
    <3>1. r.pc = "begin"
      BY <2>1 DEF Handlers
    <3>2. Goto(c, "answer") \/ call' = [call EXCEPT ![c] = r]
      BY <2>11, Zenon DEF Naming
    <3> HIDE DEF r
    <3> QED
      BY <2>2, <2>3, <3>1, <3>2
  <2>12. CASE Unbuildable(c)
    <3> DEFINE r == [call[c] EXCEPT !.result = "failed"]
    <3>1. r.pc = call[c].pc
      BY <2>1 DEF Handlers
    <3>2. call' = [call EXCEPT ![c] = r]
      BY <2>12 DEF Unbuildable
    <3> HIDE DEF r
    <3> QED
      BY <2>1, <2>2, <3>1, <3>2
  <2>13. CASE Answer(c)
    BY <2>3, <2>13 DEF Answer, PCs
  <2>14. CASE Begin(c)
    BY <2>3, <2>14 DEF Begin, PCs
  <2>15. CASE NoSession(c)
    BY <2>4, <2>15 DEF NoSession
  <2>16. CASE QueryReturns(c)
    BY <2>5, <2>16 DEF QueryReturns
  <2> QED
    BY <1>1, <2>7, <2>8, <2>9, <2>10, <2>11, <2>12, <2>13, <2>14, <2>15, <2>16 DEF Serve, Awaits
<1> QED
  BY <1>2, <1>3, <1>4, <1>5

LEMMA RunInitLemma ==
  ASSUME Init
  PROVE  RunInv
<1>1. RunTyped
  <2>1. Flags
    BY Zenon DEF Init, Flags
  <2>2. Values
    <3>1. drainFor \in 0 .. ShutdownTimeout /\ edits \in 0 .. MaxEdits
      <4>1. drainFor = 0 /\ edits = 0
        BY Zenon DEF Init
      <4> QED
        BY <4>1, ServerAssumption
    <3> QED
      BY <3>1, Zenon DEF Init, Values
  <2> QED
    BY <2>1, <2>2 DEF RunTyped
<1>2. Gates
  BY DEF Init, Gates
<1>3. Reloads
  BY DEF Init, Reloads
<1>4. Leftovers
  BY DEF Init, InitCalls, NoHandler, Leftovers
<1> QED
  BY <1>1, <1>2, <1>3, <1>4 DEF RunInv

LEMMA RunNextLemma ==
  ASSUME CallsInv, RunInv, [Next]_vars
  PROVE  RunInv'
<1> USE DEF life, signals, disk, surroundings, callVars
<1>1. CASE CallSteps
  <2>1. /\ UNCHANGED <<surroundings, life, signals, disk>> /\ phase # "exited"
        /\ (\E c \in Calls : Active(c)) \/ accepting
        /\ (\A c \in Calls : call[c].pc # "cut") => \A c \in Calls : call'[c].pc # "cut"
    BY <1>1, HandlersLemma
  <2>2. RunTyped' /\ Gates' /\ Reloads'
    BY <2>1 DEF RunInv, RunTyped, Flags, Values, Gates, Reloads
  <2>3. why # "drained"
    BY <2>1 DEF RunInv, Gates, Leftovers, Active
  <2>4. Leftovers'
    BY <2>1, <2>3 DEF RunInv, Leftovers
  <2> QED
    BY <2>2, <2>4 DEF RunInv
<1>2. CASE Tick
  <2>1. RunTyped'
    <3>1. Flags'
      BY <1>2 DEF RunInv, RunTyped, Flags, Tick
    <3>2. drainFor' \in 0 .. ShutdownTimeout
      <4>1. drainFor \in 0 .. ShutdownTimeout
        BY DEF RunInv, RunTyped, Values
      <4>2. drainFor' = IF drainFor > 0 THEN drainFor - 1 ELSE 0
        BY <1>2, Zenon DEF Tick
      <4> QED
        BY <4>1, <4>2, ServerAssumption
    <3>3. Values'
      BY <1>2, <3>2 DEF RunInv, RunTyped, Values, Tick
    <3> QED
      BY <3>1, <3>3 DEF RunTyped
  <2>2. Gates' /\ Reloads'
    BY <1>2 DEF RunInv, Gates, Reloads, Tick
  <2>3. \A c \in Calls : call'[c].pc = call[c].pc
    BY <1>2, UnchangedLemma DEF Tick, Elapse, Handlers
  <2>4. Leftovers'
    BY <1>2, <2>3 DEF RunInv, Leftovers, Tick
  <2> QED
    BY <2>1, <2>2, <2>4 DEF RunInv
<1>3. CASE Exit
  <2>1. RunTyped' /\ Gates' /\ Reloads'
    BY <1>3 DEF RunInv, RunTyped, Flags, Values, Gates, Reloads, Exit
  <2>2. why = "drained" => \A c \in Calls : call'[c] = call[c]
    BY <1>3 DEF RunInv, Leftovers, Exit, Active
  <2>3. Leftovers'
    BY <1>3, <2>2 DEF RunInv, Leftovers, Exit
  <2> QED
    BY <2>1, <2>3 DEF RunInv
<1>4. CASE EditOverlay \/ Hangup \/ Term \/ StartReload \/ FinishReload
  <2>1. RunTyped'
    <3>1. Flags'
      BY <1>4 DEF RunInv, RunTyped, Flags, EditOverlay, Hangup, Term, StartReload, FinishReload
    <3>2. edits' \in 0 .. MaxEdits
      <4>1. edits \in 0 .. MaxEdits
        BY DEF RunInv, RunTyped, Values
      <4>2. edits' = edits \/ (edits < MaxEdits /\ edits' = edits + 1)
        BY <1>4 DEF EditOverlay, Hangup, Term, StartReload, FinishReload
      <4> QED
        BY <4>1, <4>2, ServerAssumption
    <3>3. Values'
      BY <1>4, <3>2
         DEF RunInv, RunTyped, Values, EditOverlay, Hangup, Term, StartReload, FinishReload
    <3> QED
      BY <3>1, <3>3 DEF RunTyped
  <2>2. Gates'
    BY <1>4 DEF RunInv, Gates, EditOverlay, Hangup, Term, StartReload, FinishReload
  <2>3. Reloads'
    <3>1. CASE EditOverlay
      BY <3>1 DEF Reloads, EditOverlay
    <3>2. CASE Hangup
      BY <3>2 DEF Reloads, Hangup
    <3>3. CASE Term
      BY <3>3 DEF RunInv, Reloads, Term
    <3>4. CASE StartReload
      BY <3>4, OverlaysAssumption DEF RunInv, RunTyped, Values, Reloads, StartReload
    <3>5. CASE FinishReload
      BY <3>5 DEF RunInv, Reloads, FinishReload
    <3> QED
      BY <1>4, <3>1, <3>2, <3>3, <3>4, <3>5
  <2>4. Leftovers'
    BY <1>4 DEF RunInv, Leftovers, EditOverlay, Hangup, Term, StartReload, FinishReload
  <2> QED
    BY <2>1, <2>2, <2>3, <2>4 DEF RunInv
<1>5. CASE BeginShutdown \/ Drained \/ DrainExpires \/ ServeFails
  <2>1. RunTyped'
    <3>1. Flags'
      BY <1>5 DEF RunInv, RunTyped, Flags, BeginShutdown, Drained, DrainExpires, ServeFails, Leaves
    <3>2. drainFor' \in 0 .. ShutdownTimeout
      BY <1>5, ServerAssumption DEF BeginShutdown, Drained, DrainExpires, ServeFails, Leaves
    <3>3. Values'
      BY <1>5, <3>2
         DEF RunInv, RunTyped, Values, BeginShutdown, Drained, DrainExpires, ServeFails, Leaves
    <3> QED
      BY <3>1, <3>3 DEF RunTyped
  <2>2. Gates'
    BY <1>5 DEF RunInv, RunTyped, Gates, BeginShutdown, Drained, DrainExpires, ServeFails, Leaves,
       Listening
  <2>3. Reloads'
    BY <1>5 DEF Reloads, BeginShutdown, Drained, DrainExpires, ServeFails, Leaves
  <2>4. Leftovers'
    BY <1>5 DEF RunInv, Leftovers, Gates, BeginShutdown, Drained, DrainExpires, ServeFails, Leaves,
       Listening, Active
  <2> QED
    BY <2>1, <2>2, <2>3, <2>4 DEF RunInv
<1>6. CASE Done \/ UNCHANGED vars
  <2>1. UNCHANGED vars
    BY <1>6 DEF Done
  <2> QED
    BY <2>1 DEF vars, RunInv, RunTyped, Flags, Values, Gates, Reloads, Leftovers
<1> QED
  BY <1>1, <1>2, <1>3, <1>4, <1>5, <1>6 DEF Next, RunSteps

THEOREM RunInvariant == Spec => [](CallsInv /\ RunInv)
<1>1. Init => CallsInv /\ RunInv
  BY InitLemma, RunInitLemma
<1>2. CallsInv /\ RunInv /\ [Next]_vars => (CallsInv /\ RunInv)'
  BY NextLemma, RunNextLemma
<1> QED
  BY <1>1, <1>2, PTL DEF Spec

\* Every variable keeps its type.
THEOREM TypeCorrect == Spec => []TypeOK
<1>1. CallsInv /\ RunInv => TypeOK
  BY HoldersFinite DEF CallsInv, Shapes, RunInv, RunTyped, Flags, Values, TypeOK, CallsTypeOK
<1> QED
  BY <1>1, RunInvariant, PTL

\* A SIGHUP sent after the last edit of the overlay is never lost: the channel
\* that holds one signal, Run's loop that takes one at a time, and the reload
\* that reads the file only after the signal has been taken.
THEOREM ReloadIsNotLost == Spec => []ReloadNotLost
<1>1. RunInv => ReloadNotLost
  BY DEF RunInv, Reloads, ReloadNotLost
<1> QED
  BY <1>1, RunInvariant, PTL

\* The pools are closed only behind a closed listener, and under a call only
\* when the bound of the drain expired or the listener failed.
THEOREM DrainComesFirst == Spec => []DrainBeforeClose
<1>1. RunInv => DrainBeforeClose
  BY DEF RunInv, Gates, Leftovers, DrainBeforeClose
<1> QED
  BY <1>1, RunInvariant, PTL

-----------------------------------------------------------------------------
(* Whom a drain can cut off: the timers of the calls against what is left of    *)
(* the drain. All of them run off together, so a drain that is longer than one  *)
(* deadline and one rollback outlasts every call that keeps to one deadline.    *)

\* How long the drain has lasted.
Elapsed == ShutdownTimeout - drainFor

\* A call that looks for no similar names is in time: the gate takes none of the
\* drain, its statements share one deadline, and a rollback comes on top of it.
InTime(k) ==
  /\ Elapsed <= statementDeadline + rollbackTimeout
  /\ k.pc = "gate" => Elapsed = 0
  /\ k.pc = "query" \/ k.deadline > 0 => k.deadline + Elapsed <= statementDeadline
  /\ k.pc = "rollback" => k.rollbackBy + Elapsed <= statementDeadline + rollbackTimeout

\* The state of a call's timers as the drain goes on, and of the calls it cut off.
DrainInv ==
  BoundsRollback =>
  /\ phase = "draining" =>
       \A c \in Calls : Active(c) /\ call[c].lookups = 0 => InTime(call[c])
  /\ why = "expired" /\ ShutdownTimeout > statementDeadline + rollbackTimeout =>
       \A c \in spent : call[c].lookups > 0

\* A step of one handler that keeps it in time, or makes it look for names.
Keeps(c, k) ==
  /\ call' = [call EXCEPT ![c] = k]
  /\ k.lookups \in Nat /\ k.lookups >= call[c].lookups
  /\ Active(c) /\ call[c].lookups = 0 /\ InTime(call[c]) => k.lookups > 0 \/ InTime(k)

LEMMA TimesLemma ==
  ASSUME RunInv
  PROVE  /\ drainFor \in Nat /\ ShutdownTimeout \in Nat /\ Elapsed \in Nat
         /\ statementDeadline \in Nat /\ rollbackTimeout \in Nat
<1>1. ShutdownTimeout \in Nat /\ drainFor \in 0 .. ShutdownTimeout
  BY ServerAssumption DEF RunInv, RunTyped, Values
<1> QED
  BY <1>1, LimitsAssumption DEF Elapsed

LEMMA FieldsLemma ==
  ASSUME CallsInv, NEW c \in Calls
  PROVE  /\ call[c] \in Handlers
         /\ call[c].deadline \in 0 .. statementDeadline
         /\ call[c].rollbackBy \in 0 .. rollbackTimeout
         /\ call[c].lookups \in Nat /\ call[c].step \in Nat
BY DEF CallsInv, Shapes, Handlers

\* A handler that has left the executor, or begins the statement after another,
\* has at most the time it had.
LEMMA LessTimeLemma ==
  ASSUME CallsInv, RunInv, NEW c \in Calls, NEW k,
         call' = [call EXCEPT ![c] = k], k.lookups = call[c].lookups,
         k.pc \in {"begin", "naming", "answer", "done"},
         k.deadline = 0 \/ k.deadline = call[c].deadline
  PROVE  Keeps(c, k)
<1>1. k.lookups \in Nat /\ call[c].deadline \in Nat
  BY FieldsLemma
<1> QED
  BY <1>1, TimesLemma DEF Keeps, InTime

LEMMA GateInTime ==
  ASSUME CallsInv, RunInv, NEW c \in Calls, Validate(c)
  PROVE  \E k : Keeps(c, k)
<1> DEFINE next == [call[c] EXCEPT !.step = call[c].step + 1]
           start == [call[c] EXCEPT !.pc = "begin", !.step = 1, !.deadline = statementDeadline]
           failed == [call[c] EXCEPT !.pc = "answer", !.deadline = 0, !.result = "failed"]
           refused == [call[c] EXCEPT !.pc = "answer", !.deadline = 0, !.result = "refused"]
<1>1. call[c] \in Handlers /\ call[c].step \in Nat /\ call[c].lookups \in Nat
  BY FieldsLemma
<1>2. call[c].pc = "gate"
  BY DEF Validate
<1>3. /\ next.pc = "gate" /\ next.lookups = call[c].lookups
      /\ next.deadline = call[c].deadline
  BY <1>1, <1>2 DEF Handlers
<1>4. /\ start.pc = "begin" /\ start.lookups = call[c].lookups
      /\ start.deadline = statementDeadline
  BY <1>1 DEF Handlers
<1>5. /\ failed.pc = "answer" /\ failed.lookups = call[c].lookups
      /\ failed.deadline = 0
  BY <1>1 DEF Handlers
<1>6. /\ refused.pc = "answer" /\ refused.lookups = call[c].lookups
      /\ refused.deadline = 0
  BY <1>1 DEF Handlers
<1>7. \/ call' = [call EXCEPT ![c] = next] \/ call' = [call EXCEPT ![c] = start]
      \/ call' = [call EXCEPT ![c] = failed] \/ call' = [call EXCEPT ![c] = refused]
  BY Zenon DEF Validate, Start, Ends
<1> HIDE DEF next, start, failed, refused
<1>8. CASE call' = [call EXCEPT ![c] = next]
  <2>1. Keeps(c, next)
    BY <1>1, <1>2, <1>3, <1>8 DEF Keeps, InTime
  <2> QED
    BY <2>1
<1>9. CASE call' = [call EXCEPT ![c] = start]
  <2>1. InTime(call[c]) => InTime(start)
    BY <1>2, <1>4, TimesLemma DEF InTime
  <2>2. Keeps(c, start)
    BY <1>1, <1>4, <1>9, <2>1 DEF Keeps
  <2> QED
    BY <2>2
<1>10. CASE call' = [call EXCEPT ![c] = failed]
  BY <1>5, <1>10, LessTimeLemma
<1>11. CASE call' = [call EXCEPT ![c] = refused]
  BY <1>6, <1>11, LessTimeLemma
<1> QED
  BY <1>7, <1>8, <1>9, <1>10, <1>11

\* The statement goes out while there is time left.
LEMMA BeginInTime ==
  ASSUME CallsInv, RunInv, NEW c \in Calls, Begin(c)
  PROVE  \E k : Keeps(c, k)
<1> DEFINE k == [call[c] EXCEPT !.pc = "query"]
<1>1. call[c] \in Handlers /\ call[c].lookups \in Nat
  BY FieldsLemma
<1>2. /\ k.pc = "query" /\ k.lookups = call[c].lookups /\ k.deadline = call[c].deadline
  BY <1>1 DEF Handlers
<1>3. call' = [call EXCEPT ![c] = k] /\ call[c].deadline > 0
  BY Zenon DEF Begin, Goto
<1> HIDE DEF k
<1>4. Keeps(c, k)
  BY <1>1, <1>2, <1>3 DEF Keeps, InTime
<1> QED
  BY <1>4

\* The driver returns within the deadline, and the rollback has its own time.
LEMMA RollsBackInTime ==
  ASSUME CallsInv, RunInv, NEW c \in Calls, NEW result,
         call[c].pc = "query", RollsBack(c, result)
  PROVE  \E k : Keeps(c, k)
<1> DEFINE k == [call[c] EXCEPT !.pc = "rollback", !.result = result,
                                !.rollbackBy = RollbackTime]
<1>1. /\ call[c] \in Handlers /\ call[c].lookups \in Nat
      /\ call[c].deadline \in Nat
  BY FieldsLemma
<1>2. /\ k.pc = "rollback" /\ k.lookups = call[c].lookups
      /\ k.deadline = call[c].deadline /\ k.rollbackBy = RollbackTime /\ RollbackTime <= rollbackTimeout
      /\ RollbackTime \in Nat
  BY <1>1, LimitsAssumption DEF Handlers, RollbackTime
<1>3. call' = [call EXCEPT ![c] = k]
  BY Zenon DEF RollsBack
<1> HIDE DEF k
<1>4. InTime(call[c]) => InTime(k)
  BY <1>1, <1>2, TimesLemma DEF InTime
<1>5. Keeps(c, k)
  BY <1>1, <1>2, <1>3, <1>4 DEF Keeps
<1> QED
  BY <1>5

LEMMA EndsInTime ==
  ASSUME CallsInv, RunInv, NEW c \in Calls, Ends(c, "failed")
  PROVE  \E k : Keeps(c, k)
<1> DEFINE k == [call[c] EXCEPT !.pc = "answer", !.deadline = 0, !.result = "failed"]
<1>1. call[c] \in Handlers
  BY FieldsLemma
<1>2. /\ k.pc = "answer" /\ k.lookups = call[c].lookups /\ k.deadline = 0
  BY <1>1 DEF Handlers
<1>3. call' = [call EXCEPT ![c] = k]
  BY Zenon DEF Ends
<1> HIDE DEF k
<1> QED
  BY <1>2, <1>3, LessTimeLemma

LEMMA RollbackInTime ==
  ASSUME CallsInv, RunInv, NEW c \in Calls, Rollback(c)
  PROVE  \E k : Keeps(c, k)
<1> DEFINE r == [call[c] EXCEPT !.rollbackBy = 0]
           next == [r EXCEPT !.pc = "begin", !.step = r.step + 1]
           lost == [r EXCEPT !.pc = "naming", !.deadline = 0]
           over == [r EXCEPT !.pc = "answer", !.deadline = 0]
<1>1. call[c] \in Handlers /\ call[c].step \in Nat
  BY FieldsLemma
<1>2. /\ r \in Handlers /\ r.lookups = call[c].lookups /\ r.deadline = call[c].deadline
      /\ r.step = call[c].step
  BY <1>1, LimitsAssumption DEF Handlers
<1>3. \/ call' = [call EXCEPT ![c] = next] \/ call' = [call EXCEPT ![c] = lost]
      \/ call' = [call EXCEPT ![c] = over]
  BY DEF Rollback
<1> HIDE DEF r
<1>4. /\ next.pc = "begin" /\ next.lookups = call[c].lookups
      /\ next.deadline = call[c].deadline
  BY <1>1, <1>2 DEF Handlers
<1>5. /\ lost.pc = "naming" /\ lost.lookups = call[c].lookups
      /\ lost.deadline = 0
  BY <1>2 DEF Handlers
<1>6. /\ over.pc = "answer" /\ over.lookups = call[c].lookups
      /\ over.deadline = 0
  BY <1>2 DEF Handlers
<1> HIDE DEF next, lost, over
<1> QED
  BY <1>3, <1>4, <1>5, <1>6, LessTimeLemma

LEMMA NamingInTime ==
  ASSUME CallsInv, RunInv, NEW c \in Calls, Naming(c)
  PROVE  \E k : Keeps(c, k)
<1> DEFINE over == [call[c] EXCEPT !.pc = "answer"]
           again == [call[c] EXCEPT !.pc = "begin", !.lookups = call[c].lookups + 1,
                                    !.deadline = statementDeadline]
<1>1. call[c] \in Handlers /\ call[c].lookups \in Nat
  BY FieldsLemma
<1>2. /\ over.pc = "answer" /\ over.lookups = call[c].lookups
      /\ over.deadline = call[c].deadline
  BY <1>1 DEF Handlers
<1>3. again.lookups = call[c].lookups + 1
  BY <1>1 DEF Handlers
<1>4. call' = [call EXCEPT ![c] = over] \/ call' = [call EXCEPT ![c] = again]
  BY Zenon DEF Naming, Goto
<1> HIDE DEF over, again
<1>5. call' = [call EXCEPT ![c] = again] => Keeps(c, again)
  BY <1>1, <1>3 DEF Keeps
<1> QED
  BY <1>2, <1>4, <1>5, LessTimeLemma

LEMMA AnswersInTime ==
  ASSUME CallsInv, RunInv, NEW c \in Calls, Unbuildable(c) \/ Answer(c)
  PROVE  \E k : Keeps(c, k)
<1> DEFINE failed == [call[c] EXCEPT !.result = "failed"]
           done == [call[c] EXCEPT !.pc = "done"]
<1>1. call[c] \in Handlers /\ call[c].pc = "answer"
  BY FieldsLemma DEF Unbuildable, Answer
<1>2. /\ failed.pc = "answer" /\ failed.lookups = call[c].lookups
      /\ failed.deadline = call[c].deadline
  BY <1>1 DEF Handlers
<1>3. /\ done.pc = "done" /\ done.lookups = call[c].lookups
      /\ done.deadline = call[c].deadline
  BY <1>1 DEF Handlers
<1>4. call' = [call EXCEPT ![c] = failed] \/ call' = [call EXCEPT ![c] = done]
  BY Zenon DEF Unbuildable, Answer, Goto
<1> HIDE DEF failed, done
<1> QED
  BY <1>2, <1>3, <1>4, LessTimeLemma

\* Whatever a call at work does, it stays in time.
LEMMA WorksInTime ==
  ASSUME CallsInv, RunInv, NEW c \in Calls, Serve(c) \/ Awaits(c)
  PROVE  \E k : Keeps(c, k)
BY GateInTime, BeginInTime, RollsBackInTime, EndsInTime, RollbackInTime, NamingInTime,
   AnswersInTime
DEF Serve, Awaits, TimesOut, NoSession, QueryReturns

LEMMA DrainCallSteps ==
  ASSUME CallsInv, RunInv, DrainInv, CallSteps
  PROVE  DrainInv'
<1>1. PICK c \in Calls : (\E t \in Tools : Arrive(c, t)) \/ Serve(c) \/ Awaits(c)
  BY DEF CallSteps
<1>2. phase' = phase /\ why' = why /\ drainFor' = drainFor /\ spent' = spent
  BY DEF CallSteps, life
<1>3. call \in [Calls -> Handlers] /\ spent \subseteq Calls
  BY DEF CallsInv, Shapes, RunInv, RunTyped, Values
<1>4. CASE \E t \in Tools : Arrive(c, t)
  <2>1. phase = "serving"
    BY <1>4 DEF Arrive, RunInv, Gates
  <2>2. PICK t \in Tools : Arrive(c, t)
    BY <1>4
  <2> DEFINE gate == [call[c] EXCEPT !.pc = "gate", !.tool = t]
             strange == [call[c] EXCEPT !.pc = "answer", !.tool = t, !.result = "noAlias"]
  <2>3. gate.lookups = call[c].lookups /\ strange.lookups = call[c].lookups
    BY <1>3 DEF Handlers
  <2>4. call' = [call EXCEPT ![c] = gate] \/ call' = [call EXCEPT ![c] = strange]
    BY <2>2 DEF Arrive
  <2> HIDE DEF gate, strange
  <2>5. \A d \in Calls : call'[d].lookups = call[d].lookups
    BY <1>3, <2>3, <2>4
  <2> QED
    BY <1>2, <1>3, <2>1, <2>5 DEF DrainInv
<1>5. CASE Serve(c) \/ Awaits(c)
  <2>1. PICK k : Keeps(c, k)
    BY <1>5, WorksInTime
  <2>2. Active(c)
    BY <1>5 DEF Serve, Awaits, Validate, TimesOut, Rollback, Naming, Unbuildable, Answer,
       Begin, NoSession, QueryReturns, Active
  <2>3. /\ call'[c] = k /\ \A d \in Calls : d # c => call'[d] = call[d]
    BY <1>3, <2>1 DEF Keeps
  <2>4. call[c].lookups \in Nat /\ k.lookups \in Nat /\ k.lookups >= call[c].lookups
    BY <2>1, FieldsLemma DEF Keeps
  <2>5. \A d \in spent : call[d].lookups > 0 => call'[d].lookups > 0
    BY <1>3, <2>3, <2>4
  <2>6. ASSUME BoundsRollback, phase = "draining", NEW d \in Calls, Active(d)', call'[d].lookups = 0
        PROVE  InTime(call[d])'
    <3>1. CASE d = c
      <4>1. call[c].lookups = 0
        BY <2>3, <2>4, <2>6, <3>1
      <4>2. InTime(k)
        BY <2>1, <2>2, <2>3, <2>6, <3>1, <4>1 DEF DrainInv, Keeps
      <4> QED
        BY <1>2, <2>3, <3>1, <4>2 DEF InTime, Elapsed
    <3>2. CASE d # c
      <4>1. call'[d] = call[d]
        BY <2>3, <3>2
      <4>2. InTime(call[d])
        BY <2>6, <4>1 DEF DrainInv, Active
      <4> QED
        BY <1>2, <4>1, <4>2 DEF InTime, Elapsed
    <3> QED
      BY <3>1, <3>2
  <2> QED
    BY <1>2, <2>5, <2>6 DEF DrainInv
<1> QED
  BY <1>1, <1>4, <1>5

\* Every timer runs off with the drain.
LEMMA DrainTick ==
  ASSUME CallsInv, RunInv, DrainInv, Tick
  PROVE  DrainInv'
<1> DEFINE Less(t) == IF t > 0 THEN t - 1 ELSE 0
           late(c) == [call[c] EXCEPT !.deadline = Less(call[c].deadline),
                                      !.rollbackBy = Less(call[c].rollbackBy)]
<1>1. /\ phase' = phase /\ why' = why /\ spent' = spent
      /\ call' = [c \in Calls |-> late(c)]
  BY DEF Tick, Elapse
<1>2. ASSUME NEW c \in Calls
      PROVE  /\ call'[c].pc = call[c].pc /\ call'[c].lookups = call[c].lookups
             /\ call'[c].deadline = Less(call[c].deadline)
             /\ call'[c].rollbackBy = Less(call[c].rollbackBy)
  <2>1. late(c).pc = call[c].pc /\ late(c).lookups = call[c].lookups
        /\ late(c).deadline = Less(call[c].deadline)
        /\ late(c).rollbackBy = Less(call[c].rollbackBy)
    BY FieldsLemma DEF Handlers
  <2> HIDE DEF late
  <2> QED
    BY <1>1, <2>1
<1>3. spent \subseteq Calls
  BY DEF RunInv, RunTyped, Values
<1>4. ASSUME BoundsRollback, phase = "draining", NEW c \in Calls, Active(c)', call'[c].lookups = 0
      PROVE  InTime(call[c])'
  <2>1. drainFor > 0 /\ drainFor' = drainFor - 1
    BY <1>4 DEF Tick
  <2>2. Elapsed' = Elapsed + 1 /\ Elapsed \in Nat
    BY <2>1, TimesLemma DEF Elapsed
  <2>3. InTime(call[c]) /\ Active(c)
    BY <1>2, <1>4 DEF DrainInv, Active
  <2>4. /\ call[c].pc \notin {"gate", "naming", "answer"}
        /\ call[c].pc \in {"begin", "query"} => call[c].deadline > 0
        /\ call[c].pc = "rollback" => call[c].rollbackBy > 0
    BY <1>4 DEF Tick, Patient
  <2>5. call[c].pc \in {"begin", "query", "rollback"}
    BY <2>3, <2>4, FieldsLemma DEF Active, Handlers, PCs
  <2>6. call[c].deadline \in Nat /\ call[c].rollbackBy \in Nat
    BY FieldsLemma
  <2>7. /\ call'[c].pc = call[c].pc
        /\ call'[c].deadline = IF call[c].deadline > 0 THEN call[c].deadline - 1 ELSE 0
        /\ call'[c].rollbackBy = IF call[c].rollbackBy > 0 THEN call[c].rollbackBy - 1 ELSE 0
    BY <1>2
  <2>8. Elapsed' <= statementDeadline + rollbackTimeout
    BY <2>2, <2>3, <2>4, <2>5, <2>6, TimesLemma DEF InTime
  <2>9. call'[c].pc = "query" \/ call'[c].deadline > 0 =>
          call'[c].deadline + Elapsed' <= statementDeadline
    BY <2>2, <2>3, <2>4, <2>6, <2>7, TimesLemma DEF InTime
  <2>10. call'[c].pc = "rollback" =>
           call'[c].rollbackBy + Elapsed' <= statementDeadline + rollbackTimeout
    BY <2>2, <2>3, <2>4, <2>6, <2>7, TimesLemma DEF InTime
  <2> QED
    BY <2>4, <2>7, <2>8, <2>9, <2>10 DEF InTime
<1> QED
  BY <1>1, <1>2, <1>3, <1>4 DEF DrainInv

\* A drain begins with nothing elapsed, when every timer is within its bound.
LEMMA DrainBegins ==
  ASSUME CallsInv, RunInv, DrainInv, BeginShutdown
  PROVE  DrainInv'
<1>1. /\ call' = call /\ why' = why /\ spent' = spent /\ drainFor' = ShutdownTimeout
  BY DEF BeginShutdown, callVars
<1>2. Elapsed' = 0
  BY <1>1, ServerAssumption DEF Elapsed
<1>3. ASSUME NEW c \in Calls PROVE InTime(call[c])'
  BY <1>1, <1>2, FieldsLemma, LimitsAssumption DEF InTime
<1> QED
  BY <1>1, <1>3 DEF DrainInv

\* When it expires, as much has elapsed as it may last.
LEMMA DrainEnds ==
  ASSUME CallsInv, RunInv, DrainInv, DrainExpires
  PROVE  DrainInv'
<1>1. /\ call' = call /\ phase' = "closing" /\ spent' = {c \in Calls : Active(c)}
      /\ phase = "draining" /\ Elapsed = ShutdownTimeout
  BY ServerAssumption DEF DrainExpires, Leaves, callVars, Elapsed
<1>2. ASSUME BoundsRollback, ShutdownTimeout > statementDeadline + rollbackTimeout, NEW c \in spent'
      PROVE  call'[c].lookups > 0
  <2>1. c \in Calls /\ Active(c)
    BY <1>1
  <2>2. call[c].lookups # 0
    BY <1>1, <1>2, <2>1, TimesLemma DEF DrainInv, InTime
  <2> QED
    BY <1>1, <2>1, <2>2, FieldsLemma
<1> QED
  BY <1>1, <1>2 DEF DrainInv

\* The process ends, and what it cuts keeps its count of lookups.
LEMMA DrainExit ==
  ASSUME CallsInv, RunInv, DrainInv, Exit
  PROVE  DrainInv'
<1> DEFINE last(c) == IF Active(c) THEN [call[c] EXCEPT !.pc = "cut"] ELSE call[c]
<1>1. /\ phase' = "exited" /\ why' = why /\ spent' = spent
      /\ call' = [c \in Calls |-> last(c)]
  BY DEF Exit
<1>2. ASSUME NEW c \in Calls PROVE call'[c].lookups = call[c].lookups
  <2>1. last(c).lookups = call[c].lookups
    BY FieldsLemma DEF Handlers
  <2> HIDE DEF last
  <2> QED
    BY <1>1, <2>1
<1>3. spent \subseteq Calls
  BY DEF RunInv, RunTyped, Values
<1> QED
  BY <1>1, <1>2, <1>3 DEF DrainInv

\* Nothing else is a matter of time.
LEMMA DrainElse ==
  ASSUME DrainInv, call' = call,
         \/ UNCHANGED life
         \/ phase' = "closing" /\ why' \in {"drained", "stopped"}
  PROVE  DrainInv'
BY DEF DrainInv, life, Active, InTime, Elapsed

LEMMA DrainNext ==
  ASSUME CallsInv, RunInv, DrainInv, [Next]_vars
  PROVE  DrainInv'
<1>1. CASE CallSteps
  BY <1>1, DrainCallSteps
<1>2. CASE StartReload \/ FinishReload \/ Drained \/ ServeFails \/ EditOverlay \/ Hangup
           \/ Term \/ UNCHANGED vars
  BY <1>2, DrainElse DEF StartReload, FinishReload, Drained, ServeFails, EditOverlay, Hangup,
     Term, vars, Leaves, callVars, life
<1> QED
  BY <1>1, <1>2, DrainBegins, DrainEnds, DrainExit, DrainTick DEF Next, RunSteps, Done

\* mcpserve/config.go:50-52: "an ordinary in-flight call finishes rather than
\* being cut off by our own shutdown".  With PostgreSQL, whose rollback is bounded
\* (postgres.go:294), a drain longer than a deadline and a rollback cuts off no
\* call but those that look for similar names (nameMissingObject), each lookup of
\* which has a deadline and a rollback of its own.  MySQL and SQL Server, whose
\* rollback is not (execute.go:109), have no such bound, and no claim here.
THEOREM DrainCovers == Spec => []DrainCoversOneStatement
<1>1. Init => DrainInv
  BY DEF Init, DrainInv
<1>2. CallsInv /\ RunInv /\ DrainInv /\ [Next]_vars => DrainInv'
  BY DrainNext
<1>3. DrainInv => DrainCoversOneStatement
  BY DEF DrainInv, DrainCoversOneStatement
<1> QED
  BY <1>1, <1>2, <1>3, RunInvariant, PTL DEF Spec
=============================================================================
