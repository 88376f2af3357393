---------------------------- MODULE AuditedProofs ----------------------------
(***************************************************************************)
(* The handlers, the pool, the reloads and the shutdown of Server          *)
(* implement AuditedCalls, for every value of the constants: each of their *)
(* steps is one of its steps or changes nothing it speaks of.              *)
(***************************************************************************)
EXTENDS ServerProofs

\* Stage as a function of the handler.
StageOf(k) ==
  CASE k.pc = "idle" -> "new"
    [] k.pc = "done" -> "recorded"
    [] k.pc = "cut" -> "lost"
    [] OTHER -> "open"

Stages == [c \in Calls |-> Stage(c)]
Denials == [c \in Calls |-> call[c].result = "refused"]

\* The gate has allowed nothing to a call that has not come to it.
Unasked == \A c \in Calls : call[c].pc = "idle" \/ call[c].result = "noAlias" => cleared[c] = {}

\* The places of a call that is open.
AtWork == {"gate", "begin", "query", "rollback", "naming", "answer"}

\* A step of one handler moves the stage and the denial of its call alone.
LEMMA ImageLemma ==
  ASSUME CallsInv, NEW c \in Calls, NEW k, call' = [call EXCEPT ![c] = k]
  PROVE  /\ Stages' = [Stages EXCEPT ![c] = StageOf(k)]
         /\ Denials' = [Denials EXCEPT ![c] = k.result = "refused"]
         /\ Stages[c] = StageOf(call[c])
         /\ Denials[c] <=> call[c].result = "refused"
<1>1. /\ call'[c] = k
      /\ \A d \in Calls : d # c => call'[d] = call[d]
  BY DEF CallsInv, Shapes
<1>2. \A d \in Calls : Stage(d) = StageOf(call[d])
  BY DEF Stage, StageOf
<1>3. \A d \in Calls : Stage(d)' = StageOf(call'[d])
  BY DEF Stage, StageOf
<1>4. Stages' = [Stages EXCEPT ![c] = StageOf(k)]
  BY <1>1, <1>2, <1>3, Zenon DEF Stages
<1>5. Denials' = [Denials EXCEPT ![c] = k.result = "refused"]
  BY <1>1, Zenon DEF Denials
<1> QED
  BY <1>2, <1>4, <1>5 DEF Stages, Denials

\* A step in which a call stays open and is not denied.
LEMMA OpenLemma ==
  ASSUME CallsInv, NEW c \in Calls, NEW k, call' = [call EXCEPT ![c] = k],
         call[c].pc \in AtWork, k.pc \in AtWork,
         call[c].result # "refused", k.result # "refused"
  PROVE  Stages' = Stages /\ Denials' = Denials /\ Stages[c] = "open" /\ ~Denials[c]
<1>1. StageOf(k) = "open" /\ StageOf(call[c]) = "open"
  BY DEF StageOf, AtWork
<1>2. /\ Stages' = [Stages EXCEPT ![c] = StageOf(k)]
      /\ Denials' = [Denials EXCEPT ![c] = k.result = "refused"]
      /\ Stages[c] = StageOf(call[c])
      /\ Denials[c] <=> call[c].result = "refused"
  BY ImageLemma, Zenon
<1>3. /\ Stages' = [Stages EXCEPT ![c] = Stages[c]]
      /\ Stages[c] = "open" /\ ~Denials[c]
  BY <1>1, <1>2, Zenon
<1>4. (k.result = "refused") = Denials[c]
  BY <1>3, Zenon DEF Denials
<1>5. Denials' = [Denials EXCEPT ![c] = Denials[c]]
  BY <1>2, <1>4, Zenon
<1>6. Stages' = Stages
  BY <1>3, Zenon DEF Stages
<1>7. Denials' = Denials
  BY <1>5, Zenon DEF Denials
<1> QED
  BY <1>3, <1>6, <1>7, Zenon

\* A step of one handler after which the gate has allowed no call of an unknown
\* alias anything.
LEMMA UnaskedLemma ==
  ASSUME CallsInv, Unasked, NEW c \in Calls, NEW k, call' = [call EXCEPT ![c] = k],
         k.pc # "idle", k.result = "noAlias" => cleared'[c] = {},
         \A d \in Calls : d # c => cleared'[d] = cleared[d]
  PROVE  Unasked'
<1>1. /\ call'[c] = k
      /\ \A d \in Calls : d # c => call'[d] = call[d]
  BY DEF CallsInv, Shapes
<1> QED
  BY <1>1, Zenon DEF Unasked

\* Such a step that sends nothing and is allowed nothing is a stutter.
LEMMA QuietLemma ==
  ASSUME CallsInv, Unasked, NEW c \in Calls, NEW k, call' = [call EXCEPT ![c] = k],
         call[c].pc \in AtWork, k.pc \in AtWork,
         call[c].result \notin Unheard, k.result \notin Unheard,
         UNCHANGED <<ruleset, phase, sent, cleared, trail>>
  PROVE  UNCHANGED Audited!vars /\ Unasked'
<1>1. /\ call[c].result # "refused" /\ k.result # "refused"
      /\ k.result # "noAlias" /\ k.pc # "idle"
  BY DEF Unheard, AtWork
<1>2. UNCHANGED Audited!vars
  BY <1>1, OpenLemma, Zenon DEF Audited!vars, Stages, Denials
<1>3. Unasked'
  BY <1>1, UnaskedLemma
<1> QED
  BY <1>2, <1>3

\* One in which the gate allows the call a statement is Permit.
LEMMA PermitLemma ==
  ASSUME CallsInv, Unasked, NEW c \in Calls, NEW k, call' = [call EXCEPT ![c] = k],
         call[c].pc \in AtWork, k.pc \in AtWork,
         call[c].result \notin Unheard, k.result \notin Unheard,
         NEW s \in Statements, s \in ruleset, phase # "exited",
         cleared' = [cleared EXCEPT ![c] = cleared[c] \cup {s}],
         UNCHANGED <<ruleset, phase, sent, trail>>
  PROVE  Audited!Next /\ Unasked'
<1>1. /\ call[c].result # "refused" /\ k.result # "refused"
      /\ k.result # "noAlias" /\ k.pc # "idle"
  BY DEF Unheard, AtWork
<1>2. Stages' = Stages /\ Denials' = Denials /\ Stages[c] = "open" /\ ~Denials[c]
  BY <1>1, OpenLemma, Zenon
<1>3. Audited!Permit(c, s)
  BY <1>2, Zenon DEF Audited!Permit, Stages, Denials
<1>4. Audited!Next
  BY <1>3, Zenon DEF Audited!Next
<1>5. Unasked'
  BY <1>1, UnaskedLemma DEF CallsInv, Shapes
<1> QED
  BY <1>4, <1>5

-----------------------------------------------------------------------------
(* One lemma per action of a handler. *)

\* A request that reaches a tool, of a known alias or not, is Open.
LEMMA ArriveImage ==
  ASSUME CallsInv, Unasked, NEW c \in Calls, NEW t \in Tools, Arrive(c, t),
         phase # "exited", phase' = phase
  PROVE  Audited!Next /\ Unasked'
<1> DEFINE toGate == [call[c] EXCEPT !.pc = "gate", !.tool = t]
           strange == [call[c] EXCEPT !.pc = "answer", !.tool = t, !.result = "noAlias"]
<1>1. call[c] \in Handlers /\ call[c].pc = "idle" /\ call[c].result = "none"
  BY UnchangedLemma DEF Arrive, Good, Gated
<1>2. \E k : /\ call' = [call EXCEPT ![c] = k]
             /\ k.pc \in {"gate", "answer"} /\ k.result # "refused"
  <2>1. toGate.pc = "gate" /\ toGate.result = "none"
    BY <1>1 DEF Handlers
  <2>2. strange.pc = "answer" /\ strange.result = "noAlias"
    BY <1>1 DEF Handlers
  <2>3. call' = [call EXCEPT ![c] = toGate] \/ call' = [call EXCEPT ![c] = strange]
    BY Zenon DEF Arrive
  <2> HIDE DEF toGate, strange
  <2> QED
    BY <2>1, <2>2, <2>3
<1>3. PICK k : /\ call' = [call EXCEPT ![c] = k]
               /\ k.pc \in {"gate", "answer"} /\ k.result # "refused"
  BY <1>2
<1>4. /\ StageOf(k) = "open" /\ StageOf(call[c]) = "new"
      /\ (k.result = "refused") = FALSE /\ (call[c].result = "refused") = FALSE
  BY <1>1, <1>3 DEF StageOf
<1>5. /\ Stages' = [Stages EXCEPT ![c] = StageOf(k)]
      /\ Denials' = [Denials EXCEPT ![c] = k.result = "refused"]
      /\ Stages[c] = StageOf(call[c])
      /\ Denials[c] <=> call[c].result = "refused"
  BY <1>3, ImageLemma, Zenon
<1>6. Denials' = [Denials EXCEPT ![c] = Denials[c]]
  BY <1>4, <1>5, Zenon DEF Denials
<1>7. Denials' = Denials
  BY <1>6, Zenon DEF Denials
<1>8. UNCHANGED <<ruleset, sent, cleared, trail>>
  BY DEF Arrive, surroundings
<1>9. Audited!Open(c)
  BY <1>4, <1>5, <1>7, <1>8, Zenon DEF Audited!Open, Stages, Denials
<1>10. cleared[c] = {} /\ cleared' = cleared /\ k.pc # "idle"
  BY <1>1, <1>3, <1>8 DEF Unasked
<1>11. Unasked'
  BY <1>3, <1>10, UnaskedLemma
<1> QED
  BY <1>9, <1>11, Zenon DEF Audited!Next

\* An answer of the gate is Permit or Deny.
LEMMA ValidateImage ==
  ASSUME CallsInv, Unasked, NEW c \in Calls, Validate(c),
         phase # "exited", phase' = phase
  PROVE  Audited!Next /\ Unasked'
<1>1. /\ call[c] \in Handlers /\ call[c].pc = "gate" /\ call[c].result = "none"
      /\ sent[c] = {} /\ Current(c) \in Statements
  BY UnchangedLemma, PlanLemma DEF Validate, Good, Gated
<1>2. UNCHANGED <<ruleset, sent, trail>>
  BY DEF Validate, surroundings
<1>3. CASE Current(c) \in ruleset
  <2> DEFINE next == [call[c] EXCEPT !.step = call[c].step + 1]
             start == [call[c] EXCEPT !.pc = "begin", !.step = 1, !.deadline = statementDeadline]
             wrong == [call[c] EXCEPT !.pc = "answer", !.deadline = 0, !.result = "failed"]
  <2>1. /\ cleared' = [cleared EXCEPT ![c] = cleared[c] \cup {Current(c)}]
        /\ \/ call' = [call EXCEPT ![c] = next]
           \/ call' = [call EXCEPT ![c] = start]
           \/ call' = [call EXCEPT ![c] = wrong]
    BY <1>3, Zenon DEF Validate, Start, Ends
  <2>2. next.pc = "gate" /\ next.result = "none"
    BY <1>1 DEF Handlers
  <2>3. start.pc = "begin" /\ start.result = "none"
    BY <1>1 DEF Handlers
  <2>4. wrong.pc = "answer" /\ wrong.result = "failed"
    BY <1>1 DEF Handlers
  <2> HIDE DEF next, start, wrong
  <2>5. PICK k : call' = [call EXCEPT ![c] = k] /\ k.pc \in AtWork /\ k.result \notin Unheard
    BY <2>1, <2>2, <2>3, <2>4 DEF AtWork, Unheard
  <2>6. call[c].pc \in AtWork /\ call[c].result \notin Unheard
    BY <1>1 DEF AtWork, Unheard
  <2> QED
    BY <1>1, <1>2, <1>3, <2>1, <2>5, <2>6, PermitLemma
<1>4. CASE Current(c) \notin ruleset
  <2> DEFINE k == [call[c] EXCEPT !.pc = "answer", !.deadline = 0, !.result = "refused"]
  <2>1. call' = [call EXCEPT ![c] = k] /\ cleared' = cleared
    BY <1>4, Zenon DEF Validate, Ends
  <2>2. k.pc = "answer" /\ k.result = "refused"
    BY <1>1 DEF Handlers
  <2> HIDE DEF k
  <2>3. StageOf(k) = "open" /\ StageOf(call[c]) = "open" /\ (k.result = "refused") = TRUE
    BY <1>1, <2>2 DEF StageOf
  <2>4. /\ Stages' = [Stages EXCEPT ![c] = StageOf(k)]
        /\ Denials' = [Denials EXCEPT ![c] = k.result = "refused"]
        /\ Stages[c] = StageOf(call[c])
    BY <2>1, ImageLemma, Zenon
  <2>5. Denials' = [Denials EXCEPT ![c] = TRUE]
    BY <2>3, <2>4, Zenon
  <2>6. Stages' = [Stages EXCEPT ![c] = Stages[c]] /\ Stages[c] = "open"
    BY <2>3, <2>4, Zenon
  <2>7. Stages' = Stages
    BY <2>6, Zenon DEF Stages
  <2>8. Statements \ ruleset # {}
    BY <1>1, <1>4
  <2>9. Audited!Deny(c)
    BY <1>1, <1>2, <2>1, <2>5, <2>6, <2>7, <2>8, Zenon DEF Audited!Deny, Stages, Denials
  <2>10. Unasked'
    BY <2>1, <2>2, UnaskedLemma
  <2> QED
    BY <2>9, <2>10, Zenon DEF Audited!Next
<1> QED
  BY <1>3, <1>4

\* A statement that goes out is Send: the plan or the lookup was allowed before.
LEMMA BeginImage ==
  ASSUME CallsInv, Unasked, NEW c \in Calls, Begin(c),
         phase # "exited", phase' = phase
  PROVE  Audited!Next /\ Unasked'
<1> DEFINE k == [call[c] EXCEPT !.pc = "query"]
<1>1. call[c] \in Handlers /\ call[c].pc = "begin" /\ call[c].result \notin Unheard
  BY UnchangedLemma, HeardLemma DEF Begin
<1>2. k.pc = "query" /\ k.result = call[c].result
  BY <1>1 DEF Handlers
<1>3. /\ call' = [call EXCEPT ![c] = k]
      /\ sent' = [sent EXCEPT ![c] = sent[c] \cup {Current(c)}]
      /\ UNCHANGED <<ruleset, cleared, trail>>
  BY Zenon DEF Begin, Goto, surroundings
<1>4. Current(c) \in Statements /\ Current(c) \in cleared[c]
  <2>1. Gated(call[c], sent[c], cleared[c])
    BY UnchangedLemma DEF Good
  <2>2. call[c].lookups \in 0 .. 2
    BY <1>1 DEF Handlers
  <2>3. CASE call[c].lookups = 0
    BY <1>1, <2>1, <2>3, PlanLemma DEF Gated, Passed, Covers
  <2>4. CASE call[c].lookups # 0
    BY <2>1, <2>2, <2>4, PlanLemma DEF Gated
  <2> QED
    BY <2>3, <2>4, PlanLemma
<1> HIDE DEF k
<1>5. /\ call[c].pc \in AtWork /\ k.pc \in AtWork /\ k.pc # "idle"
      /\ call[c].result # "refused" /\ k.result # "refused" /\ k.result # "noAlias"
  BY <1>1, <1>2 DEF AtWork, Unheard
<1>6. Stages' = Stages /\ Denials' = Denials /\ Stages[c] = "open" /\ ~Denials[c]
  BY <1>3, <1>5, OpenLemma, Zenon
<1>7. Audited!Send(c, Current(c))
  BY <1>3, <1>4, <1>6, Zenon DEF Audited!Send, Stages, Denials
<1>8. Unasked'
  BY <1>3, <1>5, UnaskedLemma
<1> QED
  BY <1>4, <1>7, <1>8, Zenon DEF Audited!Next

\* The steps that end or go on without the gate, the database or the audit stream.
LEMMA WaitsImage ==
  ASSUME CallsInv, Unasked, NEW c \in Calls,
         NoSession(c) \/ QueryReturns(c) \/ TimesOut(c) \/ Unbuildable(c),
         phase' = phase
  PROVE  UNCHANGED Audited!vars /\ Unasked'
<1> DEFINE over == [call[c] EXCEPT !.pc = "answer", !.deadline = 0, !.result = "failed"]
           back(result) ==
             [call[c] EXCEPT !.pc = "rollback", !.result = result, !.rollbackBy = RollbackTime]
           bad == [call[c] EXCEPT !.result = "failed"]
<1>1. call[c] \in Handlers
  BY UnchangedLemma
<1>2. call[c].pc \in AtWork /\ call[c].result \notin Unheard
  BY HeardLemma DEF NoSession, QueryReturns, TimesOut, Unbuildable, AtWork, Unheard
<1>3. UNCHANGED <<ruleset, sent, cleared, trail>>
  BY Zenon DEF NoSession, QueryReturns, TimesOut, Unbuildable, surroundings
<1>4. over.pc = "answer" /\ over.result = "failed"
  BY <1>1 DEF Handlers
<1>5. \A result \in {"rows", "failed", "missing"} :
        back(result).pc = "rollback" /\ back(result).result = result
  BY <1>1 DEF Handlers
<1>6. Unbuildable(c) => bad.pc = "answer" /\ bad.result = "failed"
  BY <1>1 DEF Handlers, Unbuildable
<1>7. \/ call' = [call EXCEPT ![c] = over]
      \/ \E result \in {"rows", "failed", "missing"} : call' = [call EXCEPT ![c] = back(result)]
      \/ Unbuildable(c) /\ call' = [call EXCEPT ![c] = bad]
  BY Zenon DEF NoSession, QueryReturns, TimesOut, Unbuildable, Ends, RollsBack
<1> HIDE DEF over, back, bad
<1>8. PICK k : call' = [call EXCEPT ![c] = k] /\ k.pc \in AtWork /\ k.result \notin Unheard
  BY <1>4, <1>5, <1>6, <1>7 DEF AtWork, Unheard
<1> QED
  BY <1>2, <1>3, <1>8, QuietLemma

\* Rolling back and going on to what is next is invisible.
LEMMA RollbackImage ==
  ASSUME CallsInv, Unasked, NEW c \in Calls, Rollback(c), phase' = phase
  PROVE  UNCHANGED Audited!vars /\ Unasked'
<1> DEFINE free == [call[c] EXCEPT !.rollbackBy = 0]
           next == [free EXCEPT !.pc = "begin", !.step = free.step + 1]
           lost == [free EXCEPT !.pc = "naming", !.deadline = 0]
           over == [free EXCEPT !.pc = "answer", !.deadline = 0]
<1>1. call[c] \in Handlers /\ call[c].pc = "rollback" /\ call[c].result \notin Unheard
  BY UnchangedLemma, HeardLemma DEF Rollback
<1>2. UNCHANGED <<ruleset, sent, cleared, trail>>
  BY Zenon DEF Rollback, surroundings
<1>3. /\ next.pc = "begin" /\ next.result = call[c].result
      /\ lost.pc = "naming" /\ lost.result = call[c].result
      /\ over.pc = "answer" /\ over.result = call[c].result
  BY <1>1 DEF Handlers
<1>4. \/ call' = [call EXCEPT ![c] = next]
      \/ call' = [call EXCEPT ![c] = lost]
      \/ call' = [call EXCEPT ![c] = over]
  BY DEF Rollback
<1> HIDE DEF free, next, lost, over
<1>5. PICK k : call' = [call EXCEPT ![c] = k] /\ k.pc \in AtWork /\ k.result \notin Unheard
  BY <1>1, <1>3, <1>4 DEF AtWork
<1>6. call[c].pc \in AtWork
  BY <1>1 DEF AtWork
<1> QED
  BY <1>1, <1>2, <1>5, <1>6, QuietLemma

\* A lookup of similar names is allowed like any statement.
LEMMA NamingImage ==
  ASSUME CallsInv, Unasked, NEW c \in Calls, Naming(c),
         phase # "exited", phase' = phase
  PROVE  [Audited!Next]_(Audited!vars) /\ Unasked'
<1> DEFINE over == [call[c] EXCEPT !.pc = "answer"]
           look == [call[c] EXCEPT !.pc = "begin", !.lookups = call[c].lookups + 1,
                                   !.deadline = statementDeadline]
<1>1. call[c] \in Handlers /\ call[c].pc = "naming" /\ call[c].result \notin Unheard
  BY UnchangedLemma, HeardLemma DEF Naming
<1>2. UNCHANGED <<ruleset, sent, trail>>
  BY Zenon DEF Naming, surroundings
<1>3. /\ over.pc = "answer" /\ over.result = call[c].result
      /\ look.pc = "begin" /\ look.result = call[c].result
  BY <1>1 DEF Handlers
<1>4. \/ call' = [call EXCEPT ![c] = over] /\ cleared' = cleared
      \/ /\ call' = [call EXCEPT ![c] = look]
         /\ similarNames \in ruleset
         /\ cleared' = [cleared EXCEPT ![c] = cleared[c] \cup {similarNames}]
  BY Zenon DEF Naming, Goto
<1> HIDE DEF over, look
<1>5. /\ call[c].pc \in AtWork /\ over.pc \in AtWork /\ look.pc \in AtWork
      /\ over.result \notin Unheard /\ look.result \notin Unheard
  BY <1>1, <1>3 DEF AtWork
<1>6. CASE call' = [call EXCEPT ![c] = over] /\ cleared' = cleared
  BY <1>1, <1>2, <1>5, <1>6, QuietLemma
<1>7. CASE /\ call' = [call EXCEPT ![c] = look]
           /\ similarNames \in ruleset
           /\ cleared' = [cleared EXCEPT ![c] = cleared[c] \cup {similarNames}]
  BY <1>1, <1>2, <1>5, <1>7, PermitLemma, ToolsAssumption
<1> QED
  BY <1>4, <1>6, <1>7

\* What is recorded of a call is true of it: EventLemma says it of what was sent,
\* the gate's side of the handler says it of the verdict.
LEMMA TruthLemma ==
  ASSUME CallsInv, Unasked, NEW c \in Calls, call[c].pc = "answer"
  PROVE  Event(c) \in Events /\ Audited!Truthful(c, Event(c))
<1> DEFINE k == call[c]
           p == Plan[k.tool]
<1>1. /\ k.pc = "answer" /\ Gated(k, sent[c], cleared[c]) /\ Ran(k, sent[c])
      /\ k \in Handlers
  BY UnchangedLemma DEF Good
<1>2. Len(p) > 0 /\ Len(p) \in Nat /\ p \in Seq(Statements)
  BY <1>1, PlanLemma, ToolsAssumption DEF Handlers
<1>3. /\ k.result \notin Unheard => p[1] \in cleared[c]
      /\ k.result = "rows" => p[1] \in sent[c]
      /\ k.result = "noAlias" => cleared[c] = {}
      /\ p[1] \in Statements
  BY <1>1, <1>2 DEF Gated, Passed, Ran, Covers, Unasked
<1>4. /\ Event(c).outcome = IF k.result = "rows" THEN "allowed"
                            ELSE IF k.result = "refused" THEN "refused" ELSE "failed"
      /\ k.result = "refused" => Event(c).verdict = "refused"
      /\ k.result = "noAlias" => Event(c).verdict = ""
      /\ k.result \notin Unheard =>
           \/ Event(c).verdict = "allow"
           \/ k.result = "rows" /\ p[1] \notin ruleset /\ Event(c).verdict = "refused"
  BY DEF Event, VerdictNow, Unheard
<1>5. Denials[c] <=> k.result = "refused"
  BY DEF Denials
<1>6. Event(c) \in Events
  BY <1>1, EventLemma
<1> HIDE DEF p
<1>7. /\ Event(c).outcome = "refused" <=> Denials[c]
      /\ Event(c).outcome = "allowed" => sent[c] # {}
      /\ Event(c).verdict = "" => cleared[c] = {}
      /\ Event(c).verdict = "allow" => cleared[c] # {}
      /\ Event(c).verdict = "refused" =>
           Denials[c] \/ (Event(c).outcome = "allowed" /\ Statements \ ruleset # {})
  <2>1. CASE k.result = "refused"
    BY <1>4, <1>5, <2>1
  <2>2. CASE k.result = "noAlias"
    BY <1>3, <1>4, <1>5, <2>2
  <2>3. CASE k.result = "rows"
    BY <1>3, <1>4, <1>5, <2>3 DEF Unheard
  <2>4. CASE k.result \notin {"refused", "noAlias", "rows"}
    BY <1>3, <1>4, <1>5, <2>4 DEF Unheard
  <2> QED
    BY <2>1, <2>2, <2>3, <2>4
<1> QED
  BY <1>6, <1>7, Zenon DEF Audited!Truthful, Denials

\* An answer is Record, also of a refusal.
LEMMA AnswerImage ==
  ASSUME CallsInv, Unasked, NEW c \in Calls, Answer(c),
         phase # "exited", phase' = phase
  PROVE  Audited!Next /\ Unasked'
<1> DEFINE k == [call[c] EXCEPT !.pc = "done"]
<1>1. call[c] \in Handlers /\ call[c].pc = "answer"
  BY UnchangedLemma DEF Answer
<1>2. k.pc = "done" /\ k.result = call[c].result
  BY <1>1 DEF Handlers
<1>3. /\ call' = [call EXCEPT ![c] = k]
      /\ trail' = [trail EXCEPT ![c] = Append(trail[c], Event(c))]
      /\ UNCHANGED <<ruleset, sent, cleared>>
  BY Zenon DEF Answer, Goto, surroundings
<1> HIDE DEF k
<1>4. StageOf(k) = "recorded" /\ StageOf(call[c]) = "open"
  BY <1>1, <1>2 DEF StageOf
<1>5. /\ Stages' = [Stages EXCEPT ![c] = StageOf(k)]
      /\ Denials' = [Denials EXCEPT ![c] = k.result = "refused"]
      /\ Stages[c] = StageOf(call[c])
  BY <1>3, ImageLemma, Zenon
<1>6. (k.result = "refused") = Denials[c]
  BY <1>2, Zenon DEF Denials
<1>7. Denials' = Denials
  BY <1>5, <1>6, Zenon DEF Denials
<1>8. Event(c) \in Audited!Events /\ Audited!Truthful(c, Event(c))
  BY <1>1, TruthLemma DEF Events, Verdicts, Audited!Events
<1>9. Audited!Record(c, Event(c))
  BY <1>3, <1>4, <1>5, <1>7, <1>8, Zenon DEF Audited!Record, Stages, Denials
<1>10. k.pc # "idle" /\ (k.result = "noAlias" => cleared'[c] = {}) /\ cleared' = cleared
  BY <1>2, <1>3 DEF Unasked
<1>11. Unasked'
  BY <1>3, <1>10, UnaskedLemma
<1> QED
  BY <1>8, <1>9, <1>11, Zenon DEF Audited!Next

-----------------------------------------------------------------------------
(* What is not a step of one handler. *)

\* A step of a handler is a step of its call or none.
LEMMA HandlerImage ==
  ASSUME CallsInv, Unasked, CallSteps
  PROVE  [Audited!Next]_(Audited!vars) /\ Unasked'
<1>1. PICK c \in Calls : (\E t \in Tools : Arrive(c, t)) \/ Serve(c) \/ Awaits(c)
  BY DEF CallSteps
<1>2. phase # "exited" /\ phase' = phase
  BY DEF CallSteps, life
<1>3. CASE \E t \in Tools : Arrive(c, t)
  BY <1>2, <1>3, ArriveImage
<1>4. CASE Validate(c)
  BY <1>2, <1>4, ValidateImage
<1>5. CASE Begin(c)
  BY <1>2, <1>5, BeginImage
<1>6. CASE NoSession(c) \/ QueryReturns(c) \/ TimesOut(c) \/ Unbuildable(c)
  BY <1>2, <1>6, WaitsImage
<1>7. CASE Rollback(c)
  BY <1>2, <1>7, RollbackImage
<1>8. CASE Naming(c)
  BY <1>2, <1>8, NamingImage
<1>9. CASE Answer(c)
  BY <1>2, <1>9, AnswerImage
<1> QED
  BY <1>1, <1>3, <1>4, <1>5, <1>6, <1>7, <1>8, <1>9 DEF Serve, Awaits

\* Steps that change nothing of any handler and do not end the process.
LEMMA AsideLemma ==
  ASSUME Unasked, UNCHANGED <<call, sent, cleared, trail>>,
         phase # "exited" <=> phase' # "exited"
  PROVE  /\ Unasked'
         /\ ruleset' = ruleset => UNCHANGED Audited!vars
         /\ ruleset' \in SUBSET Statements => Audited!ChangePolicy
<1>1. Unasked'
  BY Zenon DEF Unasked
<1>2. Stages' = Stages /\ Denials' = Denials
  BY Zenon DEF Stages, Denials, Stage
<1>3. (phase' # "exited") = (phase # "exited")
  BY Zenon
<1>4. ruleset' = ruleset => UNCHANGED Audited!vars
  BY <1>2, <1>3, Zenon DEF Audited!vars, Stages, Denials
<1>5. ruleset' \in SUBSET Statements => Audited!ChangePolicy
  BY <1>2, <1>3, Zenon DEF Audited!ChangePolicy, Stages, Denials
<1> QED
  BY <1>1, <1>4, <1>5

\* The timers are invisible.
LEMMA TickImage ==
  ASSUME CallsInv, Unasked, Tick
  PROVE  UNCHANGED Audited!vars /\ Unasked'
<1> DEFINE Less(t) == IF t > 0 THEN t - 1 ELSE 0
           late(c) == [call[c] EXCEPT !.deadline = Less(call[c].deadline),
                                      !.rollbackBy = Less(call[c].rollbackBy)]
<1>1. /\ call' = [c \in Calls |-> late(c)]
      /\ UNCHANGED <<ruleset, phase, sent, cleared, trail>>
  BY DEF Tick, Elapse, surroundings
<1>2. \A c \in Calls : call'[c].pc = call[c].pc /\ call'[c].result = call[c].result
  BY <1>1 DEF CallsInv, Shapes, Handlers
<1>3. Stages' = Stages /\ Denials' = Denials
  BY <1>2, Zenon DEF Stages, Denials, Stage
<1>4. Unasked'
  BY <1>1, <1>2 DEF Unasked
<1> QED
  BY <1>1, <1>3, <1>4, Zenon DEF Audited!vars, Stages, Denials

\* The end of the process is Stop: it loses exactly the open calls.
LEMMA ExitImage ==
  ASSUME CallsInv, Unasked, Exit
  PROVE  Audited!Stop /\ Unasked'
<1> DEFINE last(c) == IF Active(c) THEN [call[c] EXCEPT !.pc = "cut"] ELSE call[c]
<1>1. /\ call' = [c \in Calls |-> last(c)]
      /\ UNCHANGED <<ruleset, sent, cleared, trail>>
      /\ phase # "exited" /\ phase' = "exited"
  BY DEF Exit, surroundings
<1>2. \A c \in Calls :
        /\ call'[c].pc = IF Active(c) THEN "cut" ELSE call[c].pc
        /\ call'[c].result = call[c].result
  BY <1>1 DEF CallsInv, Shapes, Handlers
<1>3. \A c \in Calls : StageOf(call'[c]) = IF StageOf(call[c]) = "open" THEN "lost" ELSE StageOf(call[c])
  BY <1>2 DEF StageOf, Active
<1>4. /\ \A c \in Calls : Stage(c)' = StageOf(call'[c])
      /\ \A c \in Calls : Stage(c) = StageOf(call[c])
  BY DEF Stage, StageOf
<1>5. Stages' = [c \in Calls |-> IF Stages[c] = "open" THEN "lost" ELSE Stages[c]]
  BY <1>3, <1>4, Zenon DEF Stages
<1>6. Denials' = Denials
  BY <1>2, Zenon DEF Denials
<1>7. Unasked'
  BY <1>1, <1>2 DEF Unasked, Active
<1> QED
  BY <1>1, <1>5, <1>6, <1>7, Zenon DEF Audited!Stop, Stages, Denials

\* A server that has started has new calls only.
LEMMA InitImage ==
  ASSUME Init
  PROVE  Audited!Init /\ Unasked
<1>1. /\ call = [c \in Calls |-> NoHandler]
      /\ sent = [c \in Calls |-> {}] /\ cleared = [c \in Calls |-> {}]
      /\ trail = [c \in Calls |-> <<>>]
      /\ ruleset \in SUBSET Statements /\ phase = "serving"
  BY OverlaysAssumption DEF Init, InitCalls
<1>2. \A c \in Calls : call[c].pc = "idle" /\ call[c].result = "none"
  BY <1>1 DEF NoHandler
<1>3. Stages = [c \in Calls |-> "new"]
  BY <1>2 DEF Stages, Stage
<1>4. Denials = [c \in Calls |-> FALSE]
  <2>1. \A c \in Calls : (call[c].result = "refused") = FALSE
    BY <1>2
  <2> QED
    BY <2>1, Zenon DEF Denials
<1>5. (phase # "exited") = TRUE
  BY <1>1
<1>6. Audited!Init
  BY <1>1, <1>3, <1>4, <1>5, Zenon DEF Audited!Init, Stages, Denials
<1> QED
  BY <1>1, <1>6 DEF Unasked

\* Every step of the server is one of AuditedCalls or none.
LEMMA StepImage ==
  ASSUME CallsInv, RunInv, Unasked, [Next]_vars
  PROVE  [Audited!Next]_(Audited!vars) /\ Unasked'
<1> USE DEF surroundings, callVars, life, signals, disk
<1>1. CASE CallSteps
  BY <1>1, HandlerImage
<1>2. CASE Tick
  BY <1>2, TickImage
<1>3. CASE Exit
  BY <1>3, ExitImage, Zenon DEF Audited!Next
<1>4. CASE FinishReload
  <2>1. ruleset' \in SUBSET Statements
    BY <1>4, OverlaysAssumption DEF FinishReload, RunInv, RunTyped, Values
  <2>2. UNCHANGED <<call, sent, cleared, trail, phase>>
    BY <1>4 DEF FinishReload
  <2> QED
    BY <2>1, <2>2, AsideLemma, Zenon DEF Audited!Next
<1>5. CASE StartReload \/ BeginShutdown \/ Drained \/ DrainExpires \/ ServeFails
           \/ EditOverlay \/ Hangup \/ Term \/ Done \/ UNCHANGED vars
  <2>1. /\ UNCHANGED <<call, sent, cleared, trail, ruleset>>
        /\ phase # "exited" <=> phase' # "exited"
    BY <1>5 DEF StartReload, BeginShutdown, Drained, DrainExpires, ServeFails, EditOverlay,
                Hangup, Term, Done, vars, Leaves, Listening
  <2> QED
    BY <2>1, AsideLemma, Zenon
<1> QED
  BY <1>1, <1>2, <1>3, <1>4, <1>5 DEF Next, RunSteps

\* Server implements AuditedCalls, whatever the calls, tools, statements, overlays
\* and limits: nothing of db.go, tools.go or server.go's Run sends, denies or
\* records but as the promise says.
THEOREM CallsAreAuditedTheorem == Spec => CallsAreAudited
<1>1. Init => Audited!Init /\ Unasked
  BY InitImage
<1>2. CallsInv /\ RunInv /\ Unasked /\ [Next]_vars => [Audited!Next]_(Audited!vars) /\ Unasked'
  BY StepImage
<1> QED
  BY <1>1, <1>2, RunInvariant, PTL DEF Spec, CallsAreAudited, Audited!Spec
=============================================================================
