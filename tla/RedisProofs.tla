---------------------------- MODULE RedisProofs ----------------------------
(***************************************************************************)
(* Proofs about RedisCalls: one call of a Redis tool, for every keyspace,  *)
(* every argv, all limits and any number of writes of other clients.       *)
(*                                                                         *)
(* RecordsAreTrue holds whatever the gate decides and whatever boundReply  *)
(* keeps of a reply. RepliesAreKept and TextsStayText are about what it    *)
(* keeps, and ScansMissNothing rests on them: an agent that takes a page   *)
(* that was cut for a whole one would miss keys.                           *)
(* InspectionsAreOfOneKey takes of the gate only that it lets inspect_key  *)
(* through.                                                                *)
(*                                                                         *)
(* VisitsAreBounded and AdmissionsAreBounded are about the gate itself: a  *)
(* slot that the loop over the options fills holds a value that was        *)
(* checked, a check that allows checked every token that Redis reads, and  *)
(* one lemma per family of commands bounds what Redis then visits.         *)
(***************************************************************************)
EXTENDS RedisCalls, Induction, FiniteSetTheorems, SequenceTheorems, TLAPS

-----------------------------------------------------------------------------
(* The inductive invariant *)

\* A sequence, of whatever elements.
IsSeq(s) == s \in Seq(Range(s))

Tools == {"none", "execute_command", "inspect_key", "scan_keys"}
Places == {"idle", "execute", "sent", "replied", "failed", "classifying", "answered"}
Causes == {"cancelled", "deadline", "network", "noauth", "noperm", "wrongtype"}

\* The fields that the arguments below read have their types; the others, which
\* the gate and boundReply make, are whatever they are.
HandlerOK(c) ==
  /\ c \in [tool : Tools, key : {c.key}, alias : BOOLEAN, place : Places, argv : {c.argv}, gone : BOOLEAN,
            early : BOOLEAN, late : BOOLEAN, raw : {c.raw}, cause : Causes \cup {None}, kind : {c.kind},
            truncation : {c.truncation}, reply : {c.reply}, got : {c.got}, touched : BOOLEAN]
  /\ IsSeq(c.got)
AgentOK(a) ==
  a \in [state : {"none", "scanning", "done", "stuck"}, cursor : {a.cursor}, count : {a.count},
         seen : {a.seen}, stable : SUBSET Keys]
CallTypeOK ==
  /\ HandlerOK(call) /\ AgentOK(agent)
  /\ IsSeq(events) /\ IsSeq(sent) /\ asked \in Nat
  /\ DOMAIN keyspace = Keys /\ \A k \in Keys : keyspace[k] \in Contents[k]

\* Between Execute and the end of the command an argv is sent and not recorded.
Unrecorded == IF call.place \in {"sent", "replied", "failed", "classifying"} THEN 1 ELSE 0
Admissions(es) == {i \in DOMAIN es : es[i].verdict = "bounded_read"}

RecordInv ==
  /\ asked = Len(events) + Unrecorded
  /\ Len(sent) = Cardinality(Admissions(events)) + Unrecorded
  /\ \A i \in DOMAIN sent : Allows(sent[i])

\* What a cause says is true from the moment that Do fails, and a failed call that
\* classify has not answered at once was not given up before.
KindInv ==
  /\ call.place # "answered" => call.kind = None
  /\ call.place \notin {"failed", "classifying", "answered"} => call.cause = None
  /\ call.place \in {"failed", "classifying"} => call.cause \in Causes
  /\ call.cause = "cancelled" => call.gone
  /\ call.cause = "deadline" => call.late
  /\ call.place = "failed" /\ call.early => call.gone
  /\ call.place = "classifying" => call.cause \in {"deadline", "network"} /\ ~call.early
  /\ KindIsTrue

\* The keys of the buckets that the agent's cursor has passed.
At(cursor) == Numeral[cursor]
Passed == {k \in agent.stable : Bucket[k] < At(agent.cursor)}

\* A page on its way: it holds the stable keys of all the buckets up to the
\* next cursor. A later write may remove a key from stable, never add one.
PageInv(raw) ==
  \E last \in At(agent.cursor) .. LastBucket :
    /\ Len(raw.items) = 2 /\ raw.items[1].word = CursorAfter(last)
    /\ \A k \in agent.stable :
         Bucket[k] \in At(agent.cursor) .. last =>
           \E i \in DOMAIN raw.items[2].items : raw.items[2].items[i].word = k

ScanInv ==
  /\ (agent.state = "none") <=> (call.tool # "scan_keys")
  /\ agent.cursor \in DOMAIN Numeral /\ At(agent.cursor) \in 0 .. LastBucket
  /\ \A k \in agent.stable : keyspace[k] # Absent
  /\ agent.state \in {"scanning", "stuck"} => Passed \subseteq agent.seen
  /\ call.tool = "scan_keys" /\ call.place # "answered" =>
       agent.state = "scanning" /\ call.argv = ScanArgv(agent.cursor, agent.count)
  /\ call.tool = "scan_keys" /\ call.place = "replied" => PageInv(call.raw)
  /\ ScanMissesNothing

\* What the commands of inspectKey reply with for a key that holds c.
TimeToLive(c) == IF c.ttl = "none" THEN -1 ELSE 1
FieldOf(c, n) ==
  IF n \in {1, 3} THEN R!String(1, c.type) ELSE IF n = 2 THEN R!Number(TimeToLive(c)) ELSE R!Number(c.len)

\* The fields read so far are of the key as it is, and it exists.
Gathered(c, got) ==
  /\ Len(got) \in 0 .. 4
  /\ Len(got) > 0 => c # Absent /\ got[1].word = c.type
  /\ Len(got) > 1 => got[2].n = TimeToLive(c)
  /\ Len(got) = 4 => c.type # "module"

InspectInv ==
  call.tool = "inspect_key" =>
    /\ call.key \in Keys /\ call.place # "idle" /\ agent.state = "none"
    /\ ~call.touched /\ call.place # "answered" =>
         /\ call.argv = InspectArgv(call.key, call.got)
         /\ Gathered(keyspace[call.key], call.got)
         /\ call.cause # "wrongtype"
    /\ ~call.touched /\ call.place = "replied" => call.raw = FieldOf(keyspace[call.key], Len(call.got) + 1)
    /\ InspectIsOfOneKey

RInv == CallTypeOK /\ RecordInv /\ KindInv

-----------------------------------------------------------------------------
(* Lemmas about the operators of the model *)

\* Append keeps what is there and puts the new element last.
LEMMA AppendLemma ==
  ASSUME NEW s, IsSeq(s), NEW e
  PROVE  /\ IsSeq(Append(s, e)) /\ Len(s) \in Nat /\ DOMAIN s = 1 .. Len(s)
         /\ Len(Append(s, e)) = Len(s) + 1 /\ DOMAIN Append(s, e) = 1 .. Len(s) + 1
         /\ \A i \in DOMAIN s : Append(s, e)[i] = s[i]
         /\ Append(s, e)[Len(s) + 1] = e
<1> DEFINE S == Range(s) \cup {e}
<1>1. s \in Seq(Range(s))
  BY DEF IsSeq
<1>2. s \in Seq(S)
  BY <1>1, SeqMonotonic, Range(s) \subseteq S
<1>3. /\ Append(s, e) \in Seq(S) /\ Len(s) \in Nat /\ DOMAIN s = 1 .. Len(s)
      /\ Len(Append(s, e)) = Len(s) + 1 /\ DOMAIN Append(s, e) = 1 .. Len(s) + 1
      /\ \A i \in 1 .. Len(s) : Append(s, e)[i] = s[i]
      /\ Append(s, e)[Len(s) + 1] = e
  <2> HIDE DEF S
  <2> QED
    BY <1>2, e \in S DEF S
<1>4. \A i \in DOMAIN Append(s, e) : Append(s, e)[i] \in Range(Append(s, e))
  BY DEF Range
<1>5. Append(s, e) \in Seq(Range(Append(s, e)))
  BY <1>3, <1>4, IsASeq
<1> QED
  BY <1>3, <1>5 DEF IsSeq

\* The empty sequence is one, of length 0.
LEMMA EmptyLemma == IsSeq(<<>>) /\ Len(<<>>) = 0 /\ DOMAIN <<>> = {}
BY DEF IsSeq

\* An event of one more admitted argv is counted once; any other is not.
LEMMA AdmissionsLemma ==
  ASSUME NEW es, IsSeq(es), NEW e
  PROVE  /\ Cardinality(Admissions(es)) \in Nat
         /\ Cardinality(Admissions(Append(es, e))) =
              Cardinality(Admissions(es)) + (IF e.verdict = "bounded_read" THEN 1 ELSE 0)
<1>1. /\ Len(es) \in Nat /\ DOMAIN es = 1 .. Len(es) /\ DOMAIN Append(es, e) = 1 .. Len(es) + 1
      /\ \A i \in DOMAIN es : Append(es, e)[i] = es[i]
      /\ Append(es, e)[Len(es) + 1] = e
  BY AppendLemma
<1>2. IsFiniteSet(1 .. Len(es)) /\ Admissions(es) \subseteq 1 .. Len(es)
  BY <1>1, FS_Interval DEF Admissions
<1>3. IsFiniteSet(Admissions(es)) /\ Cardinality(Admissions(es)) \in Nat
  BY <1>2, FS_Subset, FS_CardinalityType
<1>4. CASE e.verdict = "bounded_read"
  <2>1. Admissions(Append(es, e)) = Admissions(es) \cup {Len(es) + 1}
    BY <1>1, <1>4 DEF Admissions
  <2>2. Len(es) + 1 \notin Admissions(es)
    BY <1>1 DEF Admissions
  <2> QED
    BY <1>3, <1>4, <2>1, <2>2, FS_AddElement
<1>5. CASE e.verdict # "bounded_read"
  <2>1. Admissions(Append(es, e)) = Admissions(es)
    BY <1>1, <1>5 DEF Admissions
  <2> QED
    BY <1>3, <1>5, <2>1
<1> QED
  BY <1>4, <1>5

\* The element of a singleton.
LEMMA TheLemma == ASSUME NEW e PROVE The({e}) = e
BY DEF The

-----------------------------------------------------------------------------
(* The audit record and the kind of an error *)

\* The initial states.
LEMMA InitRecord == Init => RInv
<1> SUFFICES ASSUME Init PROVE RInv
  OBVIOUS
<1>1. CallTypeOK
  <2>1. call = Handler /\ events = <<>> /\ sent = <<>> /\ asked = 0 /\ agent = NoScan
    BY DEF Init
  <2>2. DOMAIN keyspace = Keys /\ \A k \in Keys : keyspace[k] \in Contents[k]
    BY KeyspacesAssumption DEF Init, KeyspacesAssumption, PossibleKeyspaces
  <2>3. AgentOK(agent)
    BY <2>1 DEF NoScan, AgentOK
  <2>4. HandlerOK(call)
    BY <2>1, EmptyLemma DEF Handler, Tools, Places, HandlerOK
  <2> QED
    BY <2>1, <2>2, <2>3, <2>4, EmptyLemma DEF CallTypeOK
<1>2. RecordInv
  <2>1. events = <<>> /\ sent = <<>> /\ asked = 0 /\ call.place = "idle"
    BY DEF Init, Handler
  <2>2. Admissions(<<>>) = {}
    BY EmptyLemma DEF Admissions
  <2> QED
    BY <2>1, <2>2, EmptyLemma, FS_EmptySet DEF RecordInv, Unrecorded
<1>3. KindInv
  <2>1. call.place = "idle" /\ call.cause = None /\ call.kind = None
    BY DEF Init, Handler
  <2>2. None # "cancelled" /\ None # "deadline"
    BY Zenon DEF None
  <2> QED
    BY <2>1, <2>2 DEF KindInv, KindIsTrue
<1> QED
  BY <1>1, <1>2, <1>3 DEF RInv

\* The literals that None is compared with.
LEMMA NoneLemma == None \notin Causes /\ None # "bounded_read" /\ None # "internal" /\ None # "refused"
<1>1. None # "cancelled" /\ None # "deadline" /\ None # "network"
  BY Zenon DEF None
<1>2. None # "noauth" /\ None # "noperm" /\ None # "wrongtype"
  BY Zenon DEF None
<1>3. None # "bounded_read" /\ None # "internal" /\ None # "refused"
  BY Zenon DEF None
<1> QED
  BY <1>1, <1>2, <1>3 DEF Causes

\* A call begins: nothing is asked, sent or recorded yet.
LEMMA BeginRecord ==
  ASSUME CallTypeOK, NEW h, HandlerOK(h), h.got = <<>>, h.cause = None, h.kind = None, Begin(h),
         UNCHANGED keyspace, AgentOK(agent')
  PROVE  RInv'
<1>1. /\ call' = [h EXCEPT !.place = "execute"]
      /\ events' = <<>> /\ sent' = <<>> /\ asked' = 0
  BY DEF Begin
<1>2. HandlerOK(call') /\ call'.place = "execute" /\ call'.cause = None /\ call'.kind = None
  BY <1>1 DEF HandlerOK, Places
<1>3. CallTypeOK'
  BY <1>1, <1>2, EmptyLemma DEF CallTypeOK
<1>4. RecordInv'
  <2>1. Admissions(<<>>) = {}
    BY EmptyLemma DEF Admissions
  <2> QED
    BY <1>1, <1>2, <2>1, EmptyLemma, FS_EmptySet DEF RecordInv, Unrecorded
<1>5. KindInv'
  BY <1>2, NoneLemma DEF KindInv, KindIsTrue, Causes
<1> QED
  BY <1>3, <1>4, <1>5 DEF RInv

\* execute_command
LEMMA ExecuteCommandRecord == ASSUME RInv, ExecuteCommand PROVE RInv'
<1>1. PICK argv \in Argvs, known \in BOOLEAN :
        Begin([Handler EXCEPT !.tool = "execute_command", !.argv = argv, !.alias = known])
  BY DEF ExecuteCommand
<1> DEFINE h == [Handler EXCEPT !.tool = "execute_command", !.argv = argv, !.alias = known]
<1>2. HandlerOK(h) /\ h.got = <<>> /\ h.cause = None /\ h.kind = None
  BY EmptyLemma DEF Handler, HandlerOK, Tools, Places
<1>3. CallTypeOK /\ AgentOK(agent') /\ UNCHANGED keyspace
  BY DEF RInv, CallTypeOK, ExecuteCommand
<1> HIDE DEF h
<1> QED
  BY <1>1, <1>2, <1>3, BeginRecord DEF h

\* inspect_key
LEMMA InspectKeyRecord == ASSUME RInv, InspectKey PROVE RInv'
<1>1. PICK k \in Keys : Begin([Handler EXCEPT !.tool = "inspect_key", !.key = k, !.argv = InspectArgv(k, <<>>)])
  BY DEF InspectKey
<1> DEFINE h == [Handler EXCEPT !.tool = "inspect_key", !.key = k, !.argv = InspectArgv(k, <<>>)]
<1>2. HandlerOK(h) /\ h.got = <<>> /\ h.cause = None /\ h.kind = None
  BY EmptyLemma DEF Handler, HandlerOK, Tools, Places
<1>3. CallTypeOK /\ AgentOK(agent') /\ UNCHANGED keyspace
  BY DEF RInv, CallTypeOK, InspectKey
<1> HIDE DEF h
<1> QED
  BY <1>1, <1>2, <1>3, BeginRecord DEF h

\* scan_keys
LEMMA ScanKeysRecord == ASSUME RInv, ScanKeys PROVE RInv'
<1> DEFINE h == [Handler EXCEPT !.tool = "scan_keys", !.argv = ScanArgv(agent'.cursor, agent'.count)]
<1>1. Begin(h) /\ UNCHANGED keyspace
  BY DEF ScanKeys
<1>2. HandlerOK(h) /\ h.got = <<>> /\ h.cause = None /\ h.kind = None
  BY EmptyLemma DEF Handler, HandlerOK, Tools, Places
<1>3. AgentOK(agent')
  <2>1. \/ agent' = [NoScan EXCEPT !.state = "scanning", !.stable = {k \in Keys : keyspace[k] # Absent}]
        \/ agent' = agent
    BY DEF ScanKeys
  <2>2. AgentOK(NoScan)
    BY DEF AgentOK, NoScan
  <2>3. CASE agent' = agent
    BY <2>3 DEF RInv, CallTypeOK
  <2>4. CASE agent' = [NoScan EXCEPT !.state = "scanning", !.stable = {k \in Keys : keyspace[k] # Absent}]
    BY <2>2, <2>4 DEF AgentOK
  <2> QED
    BY <2>1, <2>3, <2>4
<1> HIDE DEF h
<1> QED
  BY <1>1, <1>2, <1>3, BeginRecord DEF h, RInv

\* Execute returns with an event and an error, or hands the argv to the client.
LEMMA ExecuteRecord == ASSUME RInv, Execute PROVE RInv'
<1>1. /\ HandlerOK(call) /\ AgentOK(agent) /\ IsSeq(events) /\ IsSeq(sent) /\ asked \in Nat
      /\ call.place = "execute" /\ asked' = asked + 1 /\ UNCHANGED <<keyspace, agent>>
  BY DEF RInv, CallTypeOK, Execute
<1>2. /\ asked = Len(events) /\ Len(sent) = Cardinality(Admissions(events))
      /\ \A i \in DOMAIN sent : Allows(sent[i])
      /\ Len(events) \in Nat /\ Len(sent) \in Nat /\ Cardinality(Admissions(events)) \in Nat
  BY <1>1, AppendLemma, AdmissionsLemma DEF RInv, RecordInv, Unrecorded
<1>3. call.cause = None /\ call.kind = None
  BY <1>1 DEF RInv, KindInv
<1>4. ASSUME NEW reason, NEW kind, reason # "bounded_read",
             events' = Append(events, Event("failed", reason, kind, FALSE))
               \/ events' = Append(events, Event("refused", reason, kind, FALSE)),
             FailWith(kind), UNCHANGED sent
      PROVE  RInv'
  <2>1. /\ HandlerOK(call') /\ call'.place = "answered" /\ call'.cause = None
        /\ Unrecorded' = 0
    BY <1>1, <1>3, <1>4 DEF FailWith, HandlerOK, Places, Unrecorded
  <2>2. PICK e : events' = Append(events, e) /\ e.verdict = reason
    BY <1>4 DEF Event
  <2>3. CallTypeOK'
    BY <1>1, <1>4, <2>1, <2>2, AppendLemma DEF CallTypeOK, RInv
  <2>4. Cardinality(Admissions(events')) = Cardinality(Admissions(events))
    BY <1>1, <1>2, <1>4, <2>2, AdmissionsLemma
  <2>5. RecordInv'
    BY <1>1, <1>2, <1>4, <2>1, <2>2, <2>4, AppendLemma DEF RecordInv
  <2>6. KindInv'
    BY <2>1, NoneLemma DEF KindInv, KindIsTrue, Causes
  <2> QED
    BY <2>3, <2>5, <2>6 DEF RInv
<1>5. ASSUME Allows(call.argv), sent' = Append(sent, call.argv),
             call' = [call EXCEPT !.place = "sent", !.late = FALSE], UNCHANGED events
      PROVE  RInv'
  <2>1. /\ HandlerOK(call') /\ call'.place = "sent" /\ call'.cause = None /\ call'.kind = None
        /\ Unrecorded' = 1
    BY <1>1, <1>3, <1>5 DEF HandlerOK, Places, Unrecorded
  <2>2. CallTypeOK'
    BY <1>1, <1>5, <2>1, AppendLemma DEF CallTypeOK, RInv
  <2>3. RecordInv'
    <3>1. Len(sent') = Len(sent) + 1 /\ \A i \in DOMAIN sent' : Allows(sent'[i])
      BY <1>1, <1>2, <1>5, AppendLemma
    <3> QED
      BY <1>1, <1>2, <1>5, <2>1, <3>1 DEF RecordInv
  <2>4. KindInv'
    BY <2>1, NoneLemma DEF KindInv, KindIsTrue, Causes
  <2> QED
    BY <2>2, <2>3, <2>4 DEF RInv
<1>6. Decide(call.argv) # "bounded_read" \/ Allows(call.argv)
  BY DEF Allows
<1> QED
  BY <1>4, <1>5, <1>6, NoneLemma DEF Execute

\* Redis replies, or refuses the type of the key.
LEMMA RedisRepliesRecord == ASSUME RInv, RedisReplies PROVE RInv'
<1>1. HandlerOK(call) /\ call.place = "sent" /\ UNCHANGED <<keyspace, writes, events, asked, sent, agent>>
  BY DEF RedisReplies, RInv, CallTypeOK
<1>2. ASSUME NEW raw, call' = [call EXCEPT !.place = "replied", !.raw = raw]
      PROVE  RInv'
  <2>1. HandlerOK(call') /\ call'.place = "replied" /\ call'.cause = call.cause /\ call'.kind = call.kind
    BY <1>1, <1>2 DEF HandlerOK, Places
  <2>2. call'.cause = None /\ call'.kind = None
    BY <1>1, <2>1 DEF RInv, KindInv
  <2>3. CallTypeOK' /\ RecordInv'
    BY <1>1, <2>1 DEF RInv, CallTypeOK, RecordInv, Unrecorded, Admissions
  <2>4. KindInv'
    BY <2>1, <2>2, NoneLemma DEF KindInv, KindIsTrue, Causes
  <2> QED
    BY <2>3, <2>4 DEF RInv
<1>3. ASSUME call' = [call EXCEPT !.place = "failed", !.cause = "wrongtype", !.early = call.gone]
      PROVE  RInv'
  <2>1. /\ HandlerOK(call') /\ call'.place = "failed" /\ call'.cause = "wrongtype" /\ call'.kind = call.kind
        /\ call'.early = call.gone /\ call'.gone = call.gone
    BY <1>1, <1>3 DEF HandlerOK, Places, Causes
  <2>2. CallTypeOK' /\ RecordInv'
    BY <1>1, <2>1 DEF RInv, CallTypeOK, RecordInv, Unrecorded, Admissions
  <2>3. KindInv'
    BY <1>1, <2>1 DEF RInv, KindInv, KindIsTrue, Causes
  <2> QED
    BY <2>2, <2>3 DEF RInv
<1> QED
  BY <1>2, <1>3 DEF RedisReplies

\* Do fails, for a reason that is true at that moment.
LEMMA DoFailsRecord == ASSUME RInv, DoFails PROVE RInv'
<1>1. HandlerOK(call) /\ call.place \in {"sent", "replied"} /\ UNCHANGED <<keyspace, writes, events, asked, sent, agent>>
  BY DEF DoFails, RInv, CallTypeOK
<1>2. PICK cause \in {"cancelled", "deadline", "network", "noauth", "noperm"} :
        /\ cause = "cancelled" => call.gone
        /\ cause = "deadline" => call.late
        /\ call' = [call EXCEPT !.place = "failed", !.cause = cause, !.early = call.gone]
  BY DEF DoFails
<1>3. /\ call'.early = call.gone /\ HandlerOK(call') /\ call'.place = "failed" /\ call'.cause = cause
      /\ call'.gone = call.gone /\ call'.late = call.late /\ call'.kind = call.kind
  BY <1>1, <1>2 DEF HandlerOK, Places, Causes
<1>4. CallTypeOK' /\ RecordInv'
  BY <1>1, <1>3 DEF RInv, CallTypeOK, RecordInv, Unrecorded, Admissions
<1>5. KindInv'
  BY <1>1, <1>2, <1>3 DEF RInv, KindInv, KindIsTrue, Causes
<1> QED
  BY <1>4, <1>5 DEF RInv

\* A failed command is recorded, under the kind that the tool returns.
LEMMA FailsRecord ==
  ASSUME RInv, call.place \in {"failed", "classifying"}, NEW kind, Fails(kind),
         UNCHANGED <<keyspace, writes, asked, sent, agent>>,
         kind = "cancelled" => call.gone,
         kind = "deadline" => call.late \/ call.gone,
         kind = "redis_error" => call.cause \in {"noperm", "wrongtype"},
         kind = "connection" => call.cause \in {"network", "noauth"},
         call.early /\ call.cause \notin {"noauth", "noperm", "wrongtype"} => kind = "cancelled"
  PROVE  RInv'
<1>1. HandlerOK(call) /\ AgentOK(agent) /\ IsSeq(events)
  BY DEF RInv, CallTypeOK
<1>2. PICK e : events' = Append(events, e) /\ e.verdict = "bounded_read"
  BY DEF Fails, Event
<1>3. /\ HandlerOK(call') /\ call'.place = "answered" /\ call'.kind = kind /\ call'.early = call.early
      /\ call'.cause = call.cause /\ call'.gone = call.gone /\ call'.late = call.late
  BY <1>1 DEF Fails, FailWith, HandlerOK, Places
<1>4. CallTypeOK'
  BY <1>1, <1>2, <1>3, AppendLemma DEF RInv, CallTypeOK
<1>5. RecordInv'
  <2>1. Len(events') = Len(events) + 1 /\ Len(events) \in Nat
    BY <1>1, <1>2, AppendLemma
  <2>2. /\ Cardinality(Admissions(events)) \in Nat
        /\ Cardinality(Admissions(events')) = Cardinality(Admissions(events)) + 1
    BY <1>1, <1>2, AdmissionsLemma
  <2>3. Unrecorded = 1 /\ Unrecorded' = 0
    BY <1>3 DEF Unrecorded
  <2> QED
    BY <1>1, <2>1, <2>2, <2>3 DEF RInv, RecordInv
<1>6. KindInv'
  <2>1. /\ call.cause \in Causes
        /\ call.cause = "cancelled" => call.gone
        /\ call.cause = "deadline" => call.late
    BY DEF RInv, KindInv
  <2> QED
    BY <1>3, <2>1 DEF KindInv, KindIsTrue
<1> QED
  BY <1>4, <1>5, <1>6 DEF RInv

\* classify goes on to the command's context only if the caller was still there.
LEMMA FailedRecord == ASSUME RInv, Failed PROVE RInv'
<1>1. /\ HandlerOK(call) /\ call.place = "failed" /\ call.cause \in Causes
      /\ UNCHANGED <<keyspace, writes, asked, sent, agent>>
      /\ call.cause = "cancelled" => call.gone
      /\ call.early => call.gone
  BY DEF RInv, CallTypeOK, KindInv, Failed
<1>2. CASE Fails(classify(call)) /\ classify(call) # None
  <2>1. /\ classify(call) = "cancelled" => call.gone
        /\ classify(call) # "deadline"
        /\ classify(call) = "redis_error" => call.cause \in {"noperm", "wrongtype"}
        /\ classify(call) = "connection" => call.cause = "noauth"
        /\ call.gone /\ call.cause \notin {"noauth", "noperm", "wrongtype"} => classify(call) = "cancelled"
    <3>1. None # "deadline" /\ None # "cancelled" /\ None # "redis_error" /\ None # "connection"
      BY Zenon DEF None
    <3> QED
      BY <3>1 DEF classify
  <2> QED
    BY <1>1, <1>2, <2>1, FailsRecord
<1>3. CASE classify(call) = None /\ call' = [call EXCEPT !.place = "classifying"] /\ UNCHANGED events
  <2>1. call.cause \notin {"noauth", "noperm", "wrongtype"} /\ ~call.gone
    <3>1. None # "connection" /\ None # "redis_error" /\ None # "cancelled"
      BY Zenon DEF None
    <3> QED
      BY <1>3, <3>1 DEF classify
  <2>2. /\ HandlerOK(call') /\ call'.place = "classifying" /\ call'.cause = call.cause /\ call'.kind = call.kind
        /\ call'.gone = call.gone /\ call'.late = call.late /\ call'.early = call.early
    BY <1>1, <1>3 DEF HandlerOK, Places
  <2>3. CallTypeOK' /\ RecordInv'
    BY <1>1, <1>3, <2>2 DEF RInv, CallTypeOK, RecordInv, Unrecorded, Admissions
  <2>4. KindInv'
    BY <1>1, <2>1, <2>2 DEF RInv, KindInv, KindIsTrue, Causes
  <2> QED
    BY <2>3, <2>4 DEF RInv
<1> QED
  BY <1>2, <1>3 DEF Failed

\* The caller may have hung up since, and the deadline may have passed.
LEMMA FailedSinceRecord == ASSUME RInv, FailedSince PROVE RInv'
<1>1. /\ call.place = "classifying" /\ UNCHANGED <<keyspace, writes, asked, sent, agent>>
      /\ call.cause \in {"deadline", "network"} /\ ~call.early
      /\ call.cause = "deadline" => call.late
  BY DEF RInv, KindInv, FailedSince
<1>2. CASE commandDone(call)
  <2>1. Fails("deadline") /\ (call.late \/ call.gone)
    BY <1>2 DEF FailedSince, commandDone
  <2> QED
    BY <1>1, <2>1, FailsRecord
<1>3. CASE ~commandDone(call)
  <2>1. Fails("connection") /\ ~call.late
    BY <1>3 DEF FailedSince, commandDone
  <2> QED
    BY <1>1, <2>1, FailsRecord
<1> QED
  BY <1>2, <1>3

\* A reply that arrives is recorded as allowed. The call then waits for its next
\* command or is answered, and nothing has failed.
LEMMA ReceiveRecord ==
  ASSUME RInv, NEW tool, NEW bounded, Receive(tool, bounded),
         HandlerOK(call'), call'.place \in {"execute", "answered"}, call'.cause = call.cause,
         call'.place = "execute" => call'.kind = call.kind, AgentOK(agent')
  PROVE  RInv'
<1>1. IsSeq(events) /\ call.place = "replied" /\ UNCHANGED <<keyspace, writes, asked, sent>>
  BY DEF RInv, CallTypeOK, Receive
<1>2. PICK e : events' = Append(events, e) /\ e.verdict = "bounded_read"
  BY DEF Receive, Event
<1>3. CallTypeOK'
  BY <1>1, <1>2, AppendLemma DEF RInv, CallTypeOK
<1>4. RecordInv'
  <2>1. Len(events') = Len(events) + 1 /\ Len(events) \in Nat
    BY <1>1, <1>2, AppendLemma
  <2>2. /\ Cardinality(Admissions(events)) \in Nat
        /\ Cardinality(Admissions(events')) = Cardinality(Admissions(events)) + 1
    BY <1>1, <1>2, AdmissionsLemma
  <2>3. Unrecorded = 1 /\ Unrecorded' = 0
    BY <1>1 DEF Unrecorded
  <2> QED
    BY <1>1, <2>1, <2>2, <2>3 DEF RInv, RecordInv
<1>5. KindInv'
  <2>1. call'.cause = None /\ (call'.place = "execute" => call'.kind = None)
    BY <1>1 DEF RInv, KindInv
  <2> QED
    BY <2>1, NoneLemma DEF KindInv, KindIsTrue, Causes
<1> QED
  BY <1>3, <1>4, <1>5 DEF RInv

\* The answers made of a reply.
LEMMA AnswerLemma ==
  ASSUME HandlerOK(call), NEW bounded
  PROVE  /\ HandlerOK(Answer(bounded)) /\ HandlerOK(Unreadable(bounded))
         /\ Answer(bounded).place = "answered" /\ Unreadable(bounded).place = "answered"
         /\ Answer(bounded).cause = call.cause /\ Unreadable(bounded).cause = call.cause
BY DEF HandlerOK, Answer, Unreadable, Places

LEMMA ReceiveReplyRecord == ASSUME RInv, ReceiveReply PROVE RInv'
<1>1. HandlerOK(call) /\ AgentOK(agent)
  BY DEF RInv, CallTypeOK
<1>2. PICK bounded : Receive("execute_command", bounded) /\ call' = Answer(bounded) /\ UNCHANGED agent
  BY DEF ReceiveReply
<1> QED
  BY <1>1, <1>2, AnswerLemma, ReceiveRecord

\* The agent goes on to a next page, asks for the same one again, or stops.
LEMMA FollowUpRecord ==
  ASSUME AgentOK(agent), NEW page, NEW truncation
  PROVE  AgentOK(FollowUp(page, truncation))
BY DEF AgentOK, FollowUp

LEMMA ReceivePageRecord == ASSUME RInv, ReceivePage PROVE RInv'
<1>1. HandlerOK(call) /\ AgentOK(agent)
  BY DEF RInv, CallTypeOK
<1>2. PICK bounded :
        /\ Receive("scan_keys", bounded)
        /\ \/ call' = Answer(bounded) /\ agent' = FollowUp(bounded.reply.items, bounded.truncation)
           \/ call' = Unreadable(bounded) /\ UNCHANGED agent
  BY DEF ReceivePage
<1>3. HandlerOK(call') /\ call'.place = "answered" /\ call'.cause = call.cause
  BY <1>1, <1>2, AnswerLemma
<1>4. AgentOK(agent')
  BY <1>1, <1>2, FollowUpRecord
<1> QED
  BY <1>2, <1>3, <1>4, ReceiveRecord

LEMMA ReceiveFieldRecord == ASSUME RInv, ReceiveField PROVE RInv'
<1>1. HandlerOK(call) /\ AgentOK(agent) /\ IsSeq(call.got)
  BY DEF RInv, CallTypeOK, HandlerOK
<1>2. PICK bounded, got :
        /\ Receive("inspect_key", bounded) /\ got = Append(call.got, bounded.reply) /\ UNCHANGED agent
        /\ \/ call' = Unreadable(bounded)
           \/ call' = [Answer(bounded) EXCEPT !.got = got]
           \/ call' = [call EXCEPT !.place = "execute", !.got = got, !.argv = InspectArgv(call.key, got)]
  BY DEF ReceiveField
<1>3. IsSeq(got)
  BY <1>1, <1>2, AppendLemma
<1>4. HandlerOK(Answer(bounded)) /\ Answer(bounded).place = "answered" /\ Answer(bounded).cause = call.cause
  BY <1>1, AnswerLemma
<1>5. CASE call' = Unreadable(bounded)
  BY <1>1, <1>2, <1>5, AnswerLemma, ReceiveRecord
<1>6. CASE call' = [Answer(bounded) EXCEPT !.got = got]
  <2>1. HandlerOK(call') /\ call'.place = "answered" /\ call'.cause = call.cause
    BY <1>3, <1>4, <1>6 DEF HandlerOK
  <2> QED
    BY <1>1, <1>2, <2>1, ReceiveRecord
<1>7. CASE call' = [call EXCEPT !.place = "execute", !.got = got, !.argv = InspectArgv(call.key, got)]
  <2>1. HandlerOK(call') /\ call'.place = "execute" /\ call'.cause = call.cause /\ call'.kind = call.kind
    BY <1>1, <1>3, <1>7 DEF HandlerOK, Places
  <2> QED
    BY <1>1, <1>2, <2>1, ReceiveRecord
<1> QED
  BY <1>2, <1>5, <1>6, <1>7

\* The caller hangs up, the timer fires, or another client writes: a call that is
\* answered keeps what it was told, and nothing is recorded.
LEMMA SurroundingsRecord == ASSUME RInv, HangUp \/ DeadlinePasses \/ Write PROVE RInv'
<1>1. HandlerOK(call) /\ AgentOK(agent) /\ UNCHANGED <<events, asked, sent>>
  BY DEF RInv, CallTypeOK, HangUp, DeadlinePasses, Write
<1>2. ASSUME HandlerOK(call'), call'.place = call.place, call'.cause = call.cause, call'.kind = call.kind,
             call'.early = call.early, call.gone => call'.gone, call.late => call'.late,
             call.place = "answered" => call'.gone = call.gone /\ call'.late = call.late,
             AgentOK(agent'), DOMAIN keyspace' = Keys, \A k \in Keys : keyspace'[k] \in Contents[k]
      PROVE  RInv'
  <2>1. CallTypeOK' /\ RecordInv'
    BY <1>1, <1>2 DEF RInv, CallTypeOK, RecordInv, Unrecorded, Admissions
  <2>2. KindInv'
    BY <1>2 DEF RInv, KindInv, KindIsTrue
  <2> QED
    BY <2>1, <2>2 DEF RInv
<1>3. DOMAIN keyspace = Keys /\ \A k \in Keys : keyspace[k] \in Contents[k]
  BY DEF RInv, CallTypeOK
<1>4. CASE HangUp
  <2>1. HandlerOK(call')
    BY <1>1, <1>4 DEF HangUp, HandlerOK
  <2> QED
    BY <1>1, <1>2, <1>3, <1>4, <2>1 DEF HangUp, HandlerOK
<1>5. CASE DeadlinePasses
  <2>1. HandlerOK(call')
    BY <1>1, <1>5 DEF DeadlinePasses, HandlerOK
  <2> QED
    BY <1>1, <1>2, <1>3, <1>5, <2>1 DEF DeadlinePasses, HandlerOK
<1>6. CASE Write
  <2>1. PICK k \in Keys : \E c \in Contents[k] :
          /\ keyspace' = [keyspace EXCEPT ![k] = c]
          /\ call' = [call EXCEPT !.touched = @ \/ k = call.key]
          /\ agent' = [agent EXCEPT !.stable = IF c = Absent THEN @ \ {k} ELSE @]
    BY <1>6 DEF Write
  <2> PICK c \in Contents[k] :
          /\ keyspace' = [keyspace EXCEPT ![k] = c]
          /\ call' = [call EXCEPT !.touched = @ \/ k = call.key]
          /\ agent' = [agent EXCEPT !.stable = IF c = Absent THEN @ \ {k} ELSE @]
    BY <2>1
  <2>2. (call.touched \/ k = call.key) \in BOOLEAN
    BY Zenon
  <2>3. /\ HandlerOK(call') /\ call'.place = call.place /\ call'.cause = call.cause /\ call'.kind = call.kind
        /\ call'.gone = call.gone /\ call'.late = call.late /\ call'.early = call.early
    BY <1>1, <2>2 DEF HandlerOK
  <2>4. AgentOK(agent')
    BY <1>1 DEF AgentOK
  <2>5. DOMAIN keyspace' = Keys /\ \A key \in Keys : keyspace'[key] \in Contents[key]
    BY <1>3
  <2> QED
    BY <1>2, <2>3, <2>4, <2>5
<1> QED
  BY <1>4, <1>5, <1>6

\* RInv, which says nothing of replies, is inductive.
LEMMA NextRecord == RInv /\ [Next]_vars => RInv'
<1> SUFFICES ASSUME RInv, [Next]_vars PROVE RInv'
  OBVIOUS
<1>1. CASE UNCHANGED vars \/ Finished
  BY <1>1 DEF vars, Finished, RInv, CallTypeOK, RecordInv, Unrecorded, Admissions, KindInv, KindIsTrue
<1>2. CASE ExecuteCommand \/ InspectKey \/ ScanKeys \/ Execute \/ Failed \/ FailedSince
  BY <1>2, ExecuteCommandRecord, InspectKeyRecord, ScanKeysRecord, ExecuteRecord, FailedRecord, FailedSinceRecord
<1>3. CASE ReceiveReply \/ ReceivePage \/ ReceiveField
  BY <1>3, ReceiveReplyRecord, ReceivePageRecord, ReceiveFieldRecord
<1>4. CASE RedisReplies \/ DoFails \/ HangUp \/ DeadlinePasses \/ Write
  BY <1>4, RedisRepliesRecord, DoFailsRecord, SurroundingsRecord
<1> QED
  BY <1>1, <1>2, <1>3, <1>4 DEF Next

\* One event for each argv given to the executor, allow for those that were sent
\* and no others, and an error kind that its cause bears out, for every gate and
\* every reply (audit.go, executionError and classify of errors.go).
THEOREM RecordsAreTrue == Spec => []RecordIsTrue
<1>1. RInv => RecordIsTrue
  <2> SUFFICES ASSUME RInv PROVE RecordIsTrue
    OBVIOUS
  <2>1. Len(events) \in Nat /\ Cardinality(Admissions(events)) \in Nat
    BY AppendLemma, AdmissionsLemma DEF RInv, CallTypeOK
  <2>2. OneEventPerCommand
    BY <2>1 DEF RInv, RecordInv, OneEventPerCommand, Admissions, Unrecorded
  <2> QED
    BY <2>2 DEF RInv, KindInv, RecordIsTrue
<1> QED
  BY <1>1, InitRecord, NextRecord, PTL DEF Spec

-----------------------------------------------------------------------------
(* The reply that is kept: sums and concatenations of leaves *)

Leafs == Seq(R!Leaf)
Total(s) == R!BytesUpTo(s, Len(s))

\* BytesUpTo is the sum it says.
LEMMA BytesLemma ==
  ASSUME NEW s \in Leafs
  PROVE  /\ R!BytesUpTo(s, 0) = 0
         /\ \A k \in 1 .. Len(s) : R!BytesUpTo(s, k) = R!BytesUpTo(s, k - 1) + R!Size(s[k])
<1> DEFINE Sums(n, f) == [k \in 0 .. n |-> IF k = 0 THEN 0 ELSE f[k - 1] + R!Size(s[k])]
           Lengths == {n \in Nat : \E f : f = Sums(n, f)}
<1>1. 0 \in Lengths
  <2>1. [k \in 0 .. 0 |-> 0] = Sums(0, [k \in 0 .. 0 |-> 0])
    OBVIOUS
  <2> QED
    BY <2>1
<1>2. ASSUME NEW n \in Nat, n \in Lengths PROVE n + 1 \in Lengths
  <2>1. PICK f : f = Sums(n, f)
    BY <1>2
  <2> DEFINE g == [k \in 0 .. n + 1 |-> IF k = n + 1 THEN f[n] + R!Size(s[k]) ELSE f[k]]
  <2>2. ASSUME NEW k \in 0 .. n + 1
        PROVE  g[k] = IF k = 0 THEN 0 ELSE g[k - 1] + R!Size(s[k])
    <3>1. CASE k = 0
      BY <3>1, <2>1
    <3>2. CASE k \in 1 .. n
      <4>1. f[k] = f[k - 1] + R!Size(s[k])
        BY <2>1, <3>2
      <4>2. g[k] = f[k] /\ g[k - 1] = f[k - 1]
        BY <3>2
      <4> QED
        BY <4>1, <4>2, <3>2
    <3>3. CASE k = n + 1
      BY <3>3
    <3> QED
      BY <3>1, <3>2, <3>3
  <2>3. g = Sums(n + 1, g)
    <3> HIDE DEF g
    <3>1. g = [k \in 0 .. n + 1 |-> g[k]]
      BY DEF g
    <3> QED
      BY <3>1, <2>2
  <2> QED
    <3> HIDE DEF g
    <3> QED BY <2>3
<1>3. Len(s) \in Lengths
  <2> HIDE DEF Lengths
  <2>1. Len(s) \in Nat
    BY DEF Leafs
  <2> QED
    BY <1>1, <1>2, <2>1, SetInduction
<1> DEFINE sums == CHOOSE f : f = Sums(Len(s), f)
<1>4. sums = Sums(Len(s), sums)
  BY <1>3
<1>5. \A k : R!BytesUpTo(s, k) = sums[k]
  BY DEF R!BytesUpTo
<1> HIDE DEF sums
<1>6. Len(s) \in Nat
  BY DEF Leafs
<1>7. \A k \in 0 .. Len(s) : sums[k] = IF k = 0 THEN 0 ELSE sums[k - 1] + R!Size(s[k])
  BY <1>4
<1> QED
  BY <1>5, <1>6, <1>7

LEMMA SizeLemma == ASSUME NEW v \in R!Leaf PROVE R!Size(v) \in Nat
BY DEF R!Leaf, R!Size

\* The sums never go down.
LEMMA BytesTypes ==
  ASSUME NEW s \in Leafs
  PROVE  /\ \A k \in 0 .. Len(s) : R!BytesUpTo(s, k) \in Nat
         /\ Total(s) \in Nat
         /\ \A k \in 1 .. Len(s) : R!BytesUpTo(s, k - 1) <= R!BytesUpTo(s, k)
<1> DEFINE K == {k \in Nat : k <= Len(s) => R!BytesUpTo(s, k) \in Nat}
<1>0. Len(s) \in Nat /\ \A k \in 1 .. Len(s) : s[k] \in R!Leaf
  BY DEF Leafs
<1>1. 0 \in K
  BY BytesLemma
<1>2. ASSUME NEW k \in Nat, k \in K PROVE k + 1 \in K
  <2> SUFFICES ASSUME k + 1 <= Len(s) PROVE R!BytesUpTo(s, k + 1) \in Nat
    OBVIOUS
  <2>1. k + 1 \in 1 .. Len(s) /\ (k + 1) - 1 = k
    BY <1>0
  <2>2. R!BytesUpTo(s, k + 1) = R!BytesUpTo(s, k) + R!Size(s[k + 1])
    BY <2>1, BytesLemma
  <2>3. R!BytesUpTo(s, k) \in Nat
    BY <1>0, <1>2
  <2>4. R!Size(s[k + 1]) \in Nat
    BY <1>0, <2>1, SizeLemma
  <2> QED
    BY <2>2, <2>3, <2>4
<1>3. Nat \subseteq K
  <2> HIDE DEF K
  <2> QED BY <1>1, <1>2, SetInduction
<1>4. \A k \in 0 .. Len(s) : R!BytesUpTo(s, k) \in Nat
  BY <1>0, <1>3
<1>5. ASSUME NEW k \in 1 .. Len(s) PROVE R!BytesUpTo(s, k - 1) <= R!BytesUpTo(s, k)
  <2>1. R!BytesUpTo(s, k) = R!BytesUpTo(s, k - 1) + R!Size(s[k])
    BY BytesLemma
  <2>2. R!Size(s[k]) \in Nat
    BY <1>0, SizeLemma
  <2>3. R!BytesUpTo(s, k - 1) \in Nat
    BY <1>0, <1>4
  <2> QED
    BY <2>1, <2>2, <2>3
<1> QED
  BY <1>0, <1>4, <1>5 DEF Total

\* The sums of a concatenation.
LEMMA ConcatLemma ==
  ASSUME NEW s \in Leafs, NEW t \in Leafs
  PROVE  /\ s \o t \in Leafs /\ Len(s \o t) = Len(s) + Len(t)
         /\ \A i \in 1 .. Len(s) : (s \o t)[i] = s[i]
         /\ \A i \in 1 .. Len(t) : (s \o t)[Len(s) + i] = t[i]
         /\ \A k \in 0 .. Len(s) : R!BytesUpTo(s \o t, k) = R!BytesUpTo(s, k)
         /\ \A k \in 0 .. Len(t) : R!BytesUpTo(s \o t, Len(s) + k) = Total(s) + R!BytesUpTo(t, k)
         /\ Total(s \o t) = Total(s) + Total(t)
<1> DEFINE u == s \o t
<1>0. Len(s) \in Nat /\ Len(t) \in Nat
  BY DEF Leafs
<1>1. /\ u \in Leafs /\ Len(u) = Len(s) + Len(t)
      /\ \A i \in 1 .. Len(s) + Len(t) : u[i] = IF i <= Len(s) THEN s[i] ELSE t[i - Len(s)]
  BY ConcatProperties DEF Leafs
<1> HIDE DEF u
<1>2. \A i \in 1 .. Len(s) : u[i] = s[i]
  BY <1>0, <1>1
<1>3. ASSUME NEW i \in 1 .. Len(t) PROVE u[Len(s) + i] = t[i]
  <2>1. Len(s) + i \in 1 .. Len(s) + Len(t) /\ ~(Len(s) + i <= Len(s)) /\ (Len(s) + i) - Len(s) = i
    BY <1>0
  <2> QED
    BY <1>1, <2>1
<1> DEFINE K == {k \in Nat : k <= Len(s) => R!BytesUpTo(u, k) = R!BytesUpTo(s, k)}
           L == {k \in Nat : k <= Len(t) => R!BytesUpTo(u, Len(s) + k) = Total(s) + R!BytesUpTo(t, k)}
<1>4. Nat \subseteq K
  <2>1. 0 \in K
    BY <1>1, BytesLemma
  <2>2. ASSUME NEW k \in Nat, k \in K PROVE k + 1 \in K
    <3> SUFFICES ASSUME k + 1 <= Len(s) PROVE R!BytesUpTo(u, k + 1) = R!BytesUpTo(s, k + 1)
      OBVIOUS
    <3>1. k + 1 \in 1 .. Len(s) /\ k + 1 \in 1 .. Len(u) /\ (k + 1) - 1 = k
      BY <1>0, <1>1
    <3>2. R!BytesUpTo(s, k + 1) = R!BytesUpTo(s, k) + R!Size(s[k + 1])
      BY <3>1, BytesLemma
    <3>3. R!BytesUpTo(u, k + 1) = R!BytesUpTo(u, k) + R!Size(u[k + 1])
      BY <1>1, <3>1, BytesLemma
    <3>4. R!BytesUpTo(u, k) = R!BytesUpTo(s, k)
      BY <1>0, <2>2
    <3> QED
      BY <1>2, <3>1, <3>2, <3>3, <3>4
  <2> HIDE DEF K
  <2> QED
    BY <2>1, <2>2, SetInduction
<1>5. \A k \in 0 .. Len(s) : R!BytesUpTo(u, k) = R!BytesUpTo(s, k)
  BY <1>0, <1>4
<1>6. Nat \subseteq L
  <2>1. 0 \in L
    <3>1. R!BytesUpTo(u, Len(s)) = R!BytesUpTo(s, Len(s))
      BY <1>0, <1>5
    <3>2. R!BytesUpTo(t, 0) = 0 /\ Total(s) \in Nat
      BY BytesLemma, BytesTypes
    <3> QED
      BY <1>0, <3>1, <3>2 DEF Total
  <2>2. ASSUME NEW k \in Nat, k \in L PROVE k + 1 \in L
    <3> SUFFICES ASSUME k + 1 <= Len(t)
                 PROVE  R!BytesUpTo(u, Len(s) + (k + 1)) = Total(s) + R!BytesUpTo(t, k + 1)
      OBVIOUS
    <3>1. /\ k + 1 \in 1 .. Len(t) /\ (k + 1) - 1 = k
          /\ Len(s) + (k + 1) \in 1 .. Len(u) /\ (Len(s) + (k + 1)) - 1 = Len(s) + k
      BY <1>0, <1>1
    <3>2. R!BytesUpTo(t, k + 1) = R!BytesUpTo(t, k) + R!Size(t[k + 1])
      BY <3>1, BytesLemma
    <3>3. R!BytesUpTo(u, Len(s) + (k + 1)) = R!BytesUpTo(u, Len(s) + k) + R!Size(u[Len(s) + (k + 1)])
      BY <1>1, <3>1, BytesLemma
    <3>4. R!BytesUpTo(u, Len(s) + k) = Total(s) + R!BytesUpTo(t, k)
      BY <1>0, <2>2
    <3>5. u[Len(s) + (k + 1)] = t[k + 1] /\ R!Size(t[k + 1]) \in Nat
      BY <1>3, <3>1, SizeLemma DEF Leafs
    <3>6. Total(s) \in Nat /\ R!BytesUpTo(t, k) \in Nat
      <4>1. k \in 0 .. Len(t)
        BY <1>0
      <4> QED
        BY <4>1, BytesTypes
    <3> QED
      BY <3>2, <3>3, <3>4, <3>5, <3>6
  <2> HIDE DEF L
  <2> QED
    BY <2>1, <2>2, SetInduction
<1>7. \A k \in 0 .. Len(t) : R!BytesUpTo(u, Len(s) + k) = Total(s) + R!BytesUpTo(t, k)
  BY <1>0, <1>6
<1>8. Total(u) = Total(s) + Total(t)
  BY <1>0, <1>1, <1>7 DEF Total
<1> QED
  BY <1>1, <1>2, <1>3, <1>5, <1>7, <1>8 DEF u

\* What R!FlattenSeq of a sequence s computes, as the last of its partial results.
Partial(s, f) ==
  f = [i \in 1 .. Len(s) |-> IF i = 1 THEN s[i] ELSE f[i - 1] \o s[i]]

LEMMA PartialIsUnique ==
  ASSUME NEW s, Len(s) \in Nat, NEW f, Partial(s, f), NEW g, Partial(s, g)
  PROVE  f = g
<1> DEFINE K == {k \in Nat : k \in 1 .. Len(s) => f[k] = g[k]}
<1>0. /\ \A i \in 1 .. Len(s) : f[i] = IF i = 1 THEN s[i] ELSE f[i - 1] \o s[i]
      /\ \A i \in 1 .. Len(s) : g[i] = IF i = 1 THEN s[i] ELSE g[i - 1] \o s[i]
  BY DEF Partial
<1>1. 0 \in K
  OBVIOUS
<1>2. ASSUME NEW k \in Nat, k \in K PROVE k + 1 \in K
  <2> SUFFICES ASSUME k + 1 \in 1 .. Len(s) PROVE f[k + 1] = g[k + 1]
    OBVIOUS
  <2>1. CASE k = 0
    BY <1>0, <2>1
  <2>2. CASE k # 0
    <3>1. (k + 1) - 1 = k /\ k \in 1 .. Len(s) /\ k + 1 # 1
      BY <2>2
    <3>2. f[k] = g[k]
      BY <1>2, <3>1
    <3> QED
      BY <1>0, <3>1, <3>2
  <2> QED
    BY <2>1, <2>2
<1>3. Nat \subseteq K
  <2> HIDE DEF K
  <2> QED BY <1>1, <1>2, SetInduction
<1>4. \A k \in 1 .. Len(s) : f[k] = g[k]
  BY <1>3
<1>5. f = [k \in 1 .. Len(s) |-> f[k]] /\ g = [k \in 1 .. Len(s) |-> g[k]]
  BY DEF Partial
<1> QED
  BY <1>4, <1>5

\* One part more at the end.
LEMMA PartialOfMore ==
  ASSUME NEW S, NEW s \in Seq(S), NEW x \in S, NEW f, Partial(s, f)
  PROVE  LET g == [i \in 1 .. Len(s) + 1 |-> IF i = Len(s) + 1 THEN (IF Len(s) = 0 THEN x ELSE f[Len(s)] \o x) ELSE f[i]]
         IN Partial(Append(s, x), g)
<1> DEFINE n == Len(s)
           t == Append(s, x)
           g == [i \in 1 .. n + 1 |-> IF i = n + 1 THEN (IF n = 0 THEN x ELSE f[n] \o x) ELSE f[i]]
<1>1. n \in Nat /\ Len(t) = n + 1 /\ t[n + 1] = x /\ \A i \in 1 .. n : t[i] = s[i]
  BY AppendProperties
<1>2. ASSUME NEW i \in 1 .. n + 1 PROVE g[i] = IF i = 1 THEN t[i] ELSE g[i - 1] \o t[i]
  <2>1. CASE i \in 1 .. n
    <3>1. f[i] = IF i = 1 THEN s[i] ELSE f[i - 1] \o s[i]
      BY <2>1 DEF Partial
    <3>2. g[i] = f[i] /\ (i # 1 => g[i - 1] = f[i - 1])
      BY <1>1, <2>1
    <3> QED
      BY <1>1, <2>1, <3>1, <3>2
  <2>2. CASE i = n + 1
    BY <1>1, <2>2
  <2> QED
    BY <1>1, <2>1, <2>2
<1>3. g = [i \in 1 .. n + 1 |-> g[i]]
  OBVIOUS
<1>4. g = [i \in 1 .. n + 1 |-> IF i = 1 THEN t[i] ELSE g[i - 1] \o t[i]]
  <2> HIDE DEF g, t
  <2> QED BY <1>2, <1>3
<1> QED
  BY <1>1, <1>4 DEF Partial

LEMMA PartialExists == ASSUME NEW S, NEW s \in Seq(S) PROVE \E f : Partial(s, f)
<1> DEFINE K == {k \in Nat : \A t \in Seq(S) : Len(t) = k => \E f : Partial(t, f)}
<1>1. 0 \in K
  <2> SUFFICES ASSUME NEW t \in Seq(S), Len(t) = 0 PROVE \E f : Partial(t, f)
    OBVIOUS
  <2>1. Partial(t, [i \in {} |-> 0])
    BY DEF Partial
  <2> QED
    BY <2>1
<1>2. ASSUME NEW k \in Nat, k \in K PROVE k + 1 \in K
  <2> SUFFICES ASSUME NEW t \in Seq(S), Len(t) = k + 1 PROVE \E f : Partial(t, f)
    OBVIOUS
  <2> DEFINE u == SubSeq(t, 1, k)
  <2>1. u \in Seq(S) /\ Len(u) = k /\ t[k + 1] \in S /\ t = Append(u, t[k + 1])
    <3>1. u \in Seq(S) /\ Len(u) = k /\ (\A i \in 1 .. k : u[i] = t[i]) /\ t[k + 1] \in S
      OBVIOUS
    <3> HIDE DEF u
    <3>2. Append(u, t[k + 1]) = t
      BY <3>1, SMTT(30)
    <3> QED
      BY <3>1, <3>2
  <2>2. PICK f : Partial(u, f)
    BY <1>2, <2>1
  <2> HIDE DEF u
  <2> QED
    BY <2>1, <2>2, PartialOfMore
<1>3. Len(s) \in K
  <2> HIDE DEF K
  <2>1. Len(s) \in Nat
    OBVIOUS
  <2> QED
    BY <1>1, <1>2, <2>1, SetInduction
<1> QED
  BY <1>3

\* Flattening, part by part.
LEMMA FlattenNone == R!FlattenSeq(<<>>) = <<>>
BY DEF R!FlattenSeq

LEMMA FlattenAppend ==
  ASSUME NEW S, NEW s \in Seq(Seq(S)), NEW x \in Seq(S)
  PROVE  R!FlattenSeq(Append(s, x)) = R!FlattenSeq(s) \o x
<1> DEFINE n == Len(s)
           t == Append(s, x)
<1>1. PICK f : Partial(s, f)
  BY PartialExists
<1> DEFINE g == [i \in 1 .. n + 1 |-> IF i = n + 1 THEN (IF n = 0 THEN x ELSE f[n] \o x) ELSE f[i]]
<1>2. Partial(t, g)
  BY <1>1, PartialOfMore
<1>3. n \in Nat /\ Len(t) = n + 1 /\ t \in Seq(Seq(S))
  BY AppendProperties
<1>4. R!FlattenSeq(t) = g[n + 1]
  <2> DEFINE h == CHOOSE h : Partial(t, h)
  <2>1. Partial(t, h)
    BY <1>2
  <2>2. h = g
    <3> HIDE DEF h, g, t
    <3> QED BY <1>2, <1>3, <2>1, PartialIsUnique
  <2>3. R!FlattenSeq(t) = h[Len(t)]
    <3> HIDE DEF t
    <3> QED BY <1>3 DEF R!FlattenSeq, Partial
  <2> HIDE DEF h, g, t
  <2> QED
    BY <1>3, <2>2, <2>3
<1>5. CASE n = 0
  <2>1. s = <<>> /\ R!FlattenSeq(s) = <<>>
    BY FlattenNone, <1>5
  <2>2. <<>> \o x = x
    OBVIOUS
  <2> QED
    BY <1>3, <1>4, <1>5, <2>1, <2>2
<1>6. CASE n # 0
  <2> DEFINE h == CHOOSE h : Partial(s, h)
  <2>1. h = f
    <3>1. Partial(s, h)
      BY <1>1
    <3> HIDE DEF h
    <3> QED BY <1>1, <1>3, <3>1, PartialIsUnique
  <2>2. R!FlattenSeq(s) = h[n]
    BY <1>6 DEF R!FlattenSeq, Partial
  <2>3. g[n + 1] = f[n] \o x
    BY <1>3, <1>6
  <2> HIDE DEF g, h, t
  <2> QED
    BY <1>3, <1>4, <2>1, <2>2, <2>3 DEF t
<1> QED
  BY <1>5, <1>6

-----------------------------------------------------------------------------
(* Replies, level by level, and the two recursions over them *)

Above(S) == R!Over(R!Leaf, S)

LEMMA AboveLemma ==
  ASSUME NEW L \in SUBSET R!Leaf, NEW S, NEW v \in R!Over(L, S)
  PROVE  /\ v.type = "array" => v = R!Array(v.items) /\ v.items \in Seq(S)
         /\ v.type # "array" => v \in L /\ v.items = <<>>
         /\ Len(v.items) \in Nat /\ R!Fitting(v.items) \in 0 .. Len(v.items)
         /\ \A i \in 1 .. Len(v.items) : v.items[i] \in S
<1>1. CASE v \in L
  <2>1. v.type # "array" /\ v.items = <<>>
    BY <1>1 DEF R!Leaf
  <2> QED
    BY <1>1, <2>1, LimitsPositive DEF R!Fitting, LimitsPositive
<1>2. CASE v \notin L
  <2>1. v \in [type : {"array"}, n : {0}, word : {R!Unnamed}, items : Seq(S)]
    BY <1>2 DEF R!Over
  <2>2. v.type = "array" /\ v.items \in Seq(S) /\ v = R!Array(v.items)
    BY <2>1 DEF R!Array, R!Value
  <2> QED
    BY <2>2, LimitsPositive DEF R!Fitting, LimitsPositive
<1> QED
  BY <1>1, <1>2

LEMMA ItemsLemma ==
  ASSUME NEW S, NEW v \in Above(S)
  PROVE  /\ \A i \in 1 .. Len(v.items) : v.items[i] \in S
         /\ \A i \in 1 .. R!Fitting(v.items) : v.items[i] \in S
<1>1. v \in R!Over(R!Leaf, S) /\ R!Leaf \in SUBSET R!Leaf
  BY DEF Above
<1>2. /\ Len(v.items) \in Nat /\ R!Fitting(v.items) \in 0 .. Len(v.items)
      /\ \A i \in 1 .. Len(v.items) : v.items[i] \in S
  BY <1>1, AboveLemma
<1> QED
  BY <1>2

LEMMA AboveGrows ==
  ASSUME NEW L, NEW M, L \subseteq M, NEW S, NEW T, S \subseteq T
  PROVE  R!Over(L, S) \subseteq R!Over(M, T)
<1>1. Seq(S) \subseteq Seq(T)
  OBVIOUS
<1> QED
  BY <1>1 DEF R!Over

\* reply.go's array: what f has it make of v, from what f makes of its items.
KeptBy(f, v) ==
  [i \in 1 .. R!Fitting(v.items) |->
     IF v.items[i].type = "array" THEN f[v.items[i]] ELSE [b \in R!Bounds |-> R!leaf(v.items[i], b)]]
BoundedBy(kept, v) == [b \in R!Bounds |-> R!The({R!bounded(v, all) : all \in {R!items(kept, b)}})]
Bounding(S, f) == f = [v \in S |-> BoundedBy(KeptBy(f, v), v)]

\* The leaves that f lists of v, from those that f lists of its items.
ListedBy(capped, f, v) ==
  [i \in 1 .. (IF capped THEN R!Fitting(v.items) ELSE Len(v.items)) |-> f[v.items[i]]]
Listing(capped, S, f) == f = [v \in S |-> IF v.type # "array" THEN <<v>> ELSE R!FlattenSeq(ListedBy(capped, f, v))]

LEMMA BoundingAbove ==
  ASSUME NEW S, S \subseteq Above(S), NEW f, Bounding(S, f)
  PROVE  \E g : Bounding(Above(S), g)
<1> DEFINE g == [v \in Above(S) |-> BoundedBy(KeptBy(f, v), v)]
<1>1. ASSUME NEW w \in S PROVE g[w] = f[w]
  BY <1>1 DEF Bounding
<1>2. ASSUME NEW v \in Above(S) PROVE KeptBy(g, v) = KeptBy(f, v)
  <2>1. ASSUME NEW i \in 1 .. R!Fitting(v.items) PROVE v.items[i] \in S
    BY ItemsLemma
  <2> HIDE DEF g
  <2>2. ASSUME NEW i \in 1 .. R!Fitting(v.items) PROVE g[v.items[i]] = f[v.items[i]]
    BY <1>1, <2>1
  <2> QED
    BY <2>2 DEF KeptBy
<1>3. g = [v \in Above(S) |-> BoundedBy(KeptBy(g, v), v)]
  <2>1. g = [v \in Above(S) |-> BoundedBy(KeptBy(f, v), v)]
    OBVIOUS
  <2> HIDE DEF g
  <2> QED BY <1>2, <2>1
<1> QED
  <2> HIDE DEF g
  <2> QED BY <1>3 DEF Bounding

LEMMA ListingAbove ==
  ASSUME NEW capped, NEW S, S \subseteq Above(S), NEW f, Listing(capped, S, f)
  PROVE  \E g : Listing(capped, Above(S), g)
<1> DEFINE g == [v \in Above(S) |-> IF v.type # "array" THEN <<v>> ELSE R!FlattenSeq(ListedBy(capped, f, v))]
<1>1. ASSUME NEW w \in S PROVE g[w] = f[w]
  BY <1>1 DEF Listing
<1>2. ASSUME NEW v \in Above(S) PROVE ListedBy(capped, g, v) = ListedBy(capped, f, v)
  <2>1. ASSUME NEW i \in 1 .. (IF capped THEN R!Fitting(v.items) ELSE Len(v.items)) PROVE v.items[i] \in S
    BY ItemsLemma
  <2> HIDE DEF g
  <2>2. ASSUME NEW i \in 1 .. (IF capped THEN R!Fitting(v.items) ELSE Len(v.items))
        PROVE  g[v.items[i]] = f[v.items[i]]
    BY <1>1, <2>1
  <2> QED
    BY <2>2 DEF ListedBy
<1>3. g = [v \in Above(S) |-> IF v.type # "array" THEN <<v>> ELSE R!FlattenSeq(ListedBy(capped, g, v))]
  <2>1. g = [v \in Above(S) |-> IF v.type # "array" THEN <<v>> ELSE R!FlattenSeq(ListedBy(capped, f, v))]
    OBVIOUS
  <2> HIDE DEF g
  <2> QED BY <1>2, <2>1
<1> QED
  <2> HIDE DEF g
  <2> QED BY <1>3 DEF Listing

\* Four levels, each of them within the next.
LEMMA LevelsLemma ==
  /\ R!Replies = Above(Above(Above(Above({}))))
  /\ {} \subseteq Above({}) /\ Above({}) \subseteq Above(Above({}))
  /\ Above(Above({})) \subseteq Above(Above(Above({})))
  /\ Above(Above(Above({}))) \subseteq R!Replies
<1>1. R!Replies = Above(Above(Above(Above({}))))
  BY DEF R!Replies, R!Nested, Above
<1>2. \A S, T : S \subseteq T => Above(S) \subseteq Above(T)
  BY AboveGrows DEF Above
<1> QED
  BY <1>1, <1>2

LEMMA BoundingLemma == Bounding(R!Replies, R!array)
<1>1. Bounding({}, [v \in {} |-> 0])
  BY DEF Bounding
<1>2. \E f : Bounding(Above({}), f)
  BY <1>1, BoundingAbove, LevelsLemma
<1>3. \E f : Bounding(Above(Above({})), f)
  BY <1>2, BoundingAbove, LevelsLemma
<1>4. \E f : Bounding(Above(Above(Above({}))), f)
  BY <1>3, BoundingAbove, LevelsLemma
<1>5. \E f : Bounding(R!Replies, f)
  BY <1>4, BoundingAbove, LevelsLemma
<1>6. R!array = CHOOSE f : Bounding(R!Replies, f)
  BY DEF R!array, Bounding, BoundedBy, KeptBy
<1> QED
  BY <1>5, <1>6

LEMMA ListingLemma == ASSUME NEW capped PROVE Listing(capped, R!Replies, R!Leaves(capped))
<1>1. Listing(capped, {}, [v \in {} |-> 0])
  BY DEF Listing
<1>2. \E f : Listing(capped, Above({}), f)
  BY <1>1, ListingAbove, LevelsLemma
<1>3. \E f : Listing(capped, Above(Above({})), f)
  BY <1>2, ListingAbove, LevelsLemma
<1>4. \E f : Listing(capped, Above(Above(Above({}))), f)
  BY <1>3, ListingAbove, LevelsLemma
<1>5. \E f : Listing(capped, R!Replies, f)
  BY <1>4, ListingAbove, LevelsLemma
<1>6. R!Leaves(capped) = CHOOSE f : Listing(capped, R!Replies, f)
  BY DEF R!Leaves, Listing, ListedBy
<1> QED
  BY <1>5, <1>6

-----------------------------------------------------------------------------
(* What is kept of a reply *)

\* kept is the longest beginning of all whose bytes do not exceed r, when all of
\* them would: its last leaf is cut so that it fills r.
Ends(all, kept, r) ==
  /\ Len(kept) \in 1 .. Len(all) /\ Total(kept) = r
  /\ R!BytesUpTo(all, Len(kept)) > r /\ R!BytesUpTo(all, Len(kept) - 1) <= r
  /\ \A i \in 1 .. Len(kept) - 1 : kept[i] = all[i]

\* The bounds b become c when kept is what is left of all.
Keeps(all, kept, b, c) ==
  \/ /\ Total(all) <= b.remaining /\ kept = all
     /\ ~c.exhausted /\ c.remaining = b.remaining - Total(all)
  \/ Ends(all, kept, b.remaining) /\ c.exhausted /\ c.remaining = 0

\* More leaves, as long as the budget lasts.
LEMMA KeepsMore ==
  ASSUME NEW a \in Leafs, NEW x \in Leafs, NEW o \in Leafs, NEW y \in Leafs,
         NEW b \in R!Bounds, NEW c \in R!Bounds, NEW d \in R!Bounds,
         Keeps(a, o, b, c), ~c.exhausted, Keeps(x, y, c, d)
  PROVE  Keeps(a \o x, o \o y, b, d)
<1>1. Total(a) <= b.remaining /\ o = a /\ c.remaining = b.remaining - Total(a)
  BY DEF Keeps
<1>2. /\ Total(a) \in Nat /\ Total(x) \in Nat /\ Total(y) \in Nat /\ Len(a) \in Nat /\ Len(x) \in Nat /\ Len(y) \in Nat
      /\ b.remaining \in Nat /\ c.remaining \in Nat
  BY BytesTypes DEF Leafs, R!Bounds
<1>3. /\ Total(a \o x) = Total(a) + Total(x) /\ Total(a \o y) = Total(a) + Total(y)
      /\ Len(a \o x) = Len(a) + Len(x) /\ Len(a \o y) = Len(a) + Len(y)
  BY ConcatLemma
<1>4. CASE Total(x) <= c.remaining /\ y = x /\ ~d.exhausted /\ d.remaining = c.remaining - Total(x)
  <2>1. Total(a \o x) <= b.remaining /\ d.remaining = b.remaining - Total(a \o x)
    BY <1>1, <1>2, <1>3, <1>4
  <2> QED
    BY <1>1, <1>4, <2>1 DEF Keeps
<1>5. CASE Ends(x, y, c.remaining) /\ d.exhausted /\ d.remaining = 0
  <2> DEFINE n == Len(a) + Len(y)
  <2>1. Len(y) \in 1 .. Len(x) /\ Len(y) - 1 \in 0 .. Len(x) /\ Len(y) \in 0 .. Len(x)
    BY <1>2, <1>5 DEF Ends
  <2>2. /\ R!BytesUpTo(a \o x, n) = Total(a) + R!BytesUpTo(x, Len(y))
        /\ R!BytesUpTo(a \o x, Len(a) + (Len(y) - 1)) = Total(a) + R!BytesUpTo(x, Len(y) - 1)
    BY <2>1, ConcatLemma
  <2>3. n - 1 = Len(a) + (Len(y) - 1)
    BY <1>2
  <2>4. R!BytesUpTo(x, Len(y)) \in Nat /\ R!BytesUpTo(x, Len(y) - 1) \in Nat
    BY <2>1, BytesTypes
  <2>5. R!BytesUpTo(a \o x, n) > b.remaining /\ R!BytesUpTo(a \o x, n - 1) <= b.remaining
    BY <1>1, <1>2, <1>5, <2>2, <2>3, <2>4 DEF Ends
  <2>6. Total(a \o y) = b.remaining /\ n \in 1 .. Len(a \o x)
    BY <1>1, <1>2, <1>3, <1>5, <2>1 DEF Ends
  <2>7. ASSUME NEW i \in 1 .. n - 1 PROVE (a \o y)[i] = (a \o x)[i]
    <3>1. CASE i \in 1 .. Len(a)
      BY <3>1, ConcatLemma
    <3>2. CASE i \notin 1 .. Len(a)
      <4> DEFINE j == i - Len(a)
      <4>1. j \in 1 .. Len(y) - 1 /\ j \in 1 .. Len(y) /\ j \in 1 .. Len(x) /\ i = Len(a) + j
        BY <1>2, <2>1, <3>2
      <4> HIDE DEF j
      <4>2. (a \o y)[Len(a) + j] = y[j] /\ (a \o x)[Len(a) + j] = x[j]
        <5>1. \A k \in 1 .. Len(y) : (a \o y)[Len(a) + k] = y[k]
          BY ConcatLemma
        <5>2. \A k \in 1 .. Len(x) : (a \o x)[Len(a) + k] = x[k]
          BY ConcatLemma
        <5> QED
          BY <4>1, <5>1, <5>2
      <4>3. y[j] = x[j]
        BY <1>5, <4>1 DEF Ends
      <4> QED
        BY <4>1, <4>2, <4>3
    <3> QED
      BY <3>1, <3>2
  <2> HIDE DEF n
  <2>8. Len(a \o y) = n
    BY <1>3 DEF n
  <2>9. Ends(a \o x, a \o y, b.remaining)
    BY <2>5, <2>6, <2>7, <2>8 DEF Ends
  <2> QED
    BY <1>1, <1>5, <2>9 DEF Keeps
<1> QED
  BY <1>4, <1>5 DEF Keeps

\* Once it is used up, what follows is left out.
LEMMA KeepsNoMore ==
  ASSUME NEW a \in Leafs, NEW x \in Leafs, NEW o \in Leafs,
         NEW b \in R!Bounds, NEW c \in R!Bounds, Keeps(a, o, b, c), c.exhausted
  PROVE  Keeps(a \o x, o, b, c)
<1>1. Ends(a, o, b.remaining) /\ c.exhausted /\ c.remaining = 0
  BY DEF Keeps
<1>2. Len(a) \in Nat /\ Len(x) \in Nat /\ Len(o) \in Nat
  BY DEF Leafs
<1>3. Len(a \o x) = Len(a) + Len(x)
  BY ConcatLemma
<1>4. Len(o) \in 1 .. Len(a) /\ Len(o) \in 0 .. Len(a) /\ Len(o) - 1 \in 0 .. Len(a) /\ Len(o) \in 1 .. Len(a \o x)
  BY <1>1, <1>2, <1>3 DEF Ends
<1>5. /\ R!BytesUpTo(a \o x, Len(o)) = R!BytesUpTo(a, Len(o))
      /\ R!BytesUpTo(a \o x, Len(o) - 1) = R!BytesUpTo(a, Len(o) - 1)
  BY <1>4, ConcatLemma
<1>6. \A i \in 1 .. Len(o) - 1 : (a \o x)[i] = a[i]
  <2>1. \A i \in 1 .. Len(o) - 1 : i \in 1 .. Len(a)
    BY <1>2, <1>4
  <2> QED
    BY <2>1, ConcatLemma
<1>7. Ends(a \o x, o, b.remaining)
  BY <1>1, <1>4, <1>5, <1>6 DEF Ends
<1> QED
  BY <1>1, <1>7 DEF Keeps

\* One leaf.
LEMMA SingleLemma ==
  ASSUME NEW x \in R!Leaf
  PROVE  /\ <<x>> \in Leafs /\ Total(<<x>>) = R!Size(x)
         /\ R!BytesUpTo(<<x>>, 1) = R!Size(x) /\ R!BytesUpTo(<<x>>, 0) = 0
<1>1. <<x>> \in Leafs /\ Len(<<x>>) = 1 /\ <<x>>[1] = x
  BY DEF Leafs
<1>2. R!BytesUpTo(<<x>>, 0) = 0 /\ R!BytesUpTo(<<x>>, 1) = R!BytesUpTo(<<x>>, 0) + R!Size(x)
  <2>1. 1 \in 1 .. Len(<<x>>) /\ 1 - 1 = 0
    BY <1>1
  <2> QED
    BY <1>1, <2>1, BytesLemma
<1> QED
  BY <1>1, <1>2, SizeLemma DEF Total

\* How items goes on from what it has made of the first items.
Onward(kept, i, w) ==
  IF w.b.exhausted THEN w ELSE [out |-> Append(w.out, kept[i][w.b].value), b |-> kept[i][w.b].b]

LEMMA TheOne == ASSUME NEW e PROVE R!The({e}) = e
BY DEF R!The

Going(kept, i, w) ==
  IF w.b.exhausted THEN w
  ELSE R!The({[out |-> Append(w.out, item.value), b |-> item.b] : item \in {kept[i][w.b]}})

LEMMA GoingLemma == ASSUME NEW kept, NEW i, NEW w PROVE Going(kept, i, w) = Onward(kept, i, w)
<1> DEFINE item == kept[i][w.b]
<1>1. {[out |-> Append(w.out, x.value), b |-> x.b] : x \in {item}} = {[out |-> Append(w.out, item.value), b |-> item.b]}
  <2> HIDE DEF item
  <2> QED OBVIOUS
<1>2. R!The({[out |-> Append(w.out, x.value), b |-> x.b] : x \in {item}}) = [out |-> Append(w.out, item.value), b |-> item.b]
  BY <1>1, TheOne, Zenon
<1> QED
  BY <1>2, Zenon DEF Going, Onward

LEMMA WalkLemma ==
  ASSUME NEW kept, Len(kept) \in Nat, NEW b
  PROVE  \E f : /\ R!items(kept, b) = f[Len(kept)]
                /\ f[0] = [out |-> <<>>, b |-> b]
                /\ \A i \in 1 .. Len(kept) : f[i] = Onward(kept, i, f[i - 1])
<1> DEFINE Walk(n, f) == [i \in 0 .. n |->
             IF i = 0 THEN [out |-> <<>>, b |-> b] ELSE Going(kept, i, f[i - 1])]
           Lengths == {n \in Nat : \E f : f = Walk(n, f)}
<1>1. 0 \in Lengths
  <2>1. [i \in 0 .. 0 |-> [out |-> <<>>, b |-> b]] = Walk(0, [i \in 0 .. 0 |-> [out |-> <<>>, b |-> b]])
    OBVIOUS
  <2> QED
    BY <2>1
<1>2. ASSUME NEW n \in Nat, n \in Lengths PROVE n + 1 \in Lengths
  <2>1. PICK f : f = Walk(n, f)
    BY <1>2
  <2> DEFINE w == f[n]
             next == Going(kept, n + 1, w)
             g == [i \in 0 .. n + 1 |-> IF i = n + 1 THEN next ELSE f[i]]
  <2>2. ASSUME NEW i \in 0 .. n + 1 PROVE g[i] = Walk(n + 1, g)[i]
    <3>1. CASE i = 0
      BY <3>1, <2>1
    <3>2. CASE i \in 1 .. n
      <4>1. f[i] = Walk(n, f)[i]
        BY <2>1
      <4>2. g[i] = f[i] /\ g[i - 1] = f[i - 1]
        BY <3>2
      <4> HIDE DEF g
      <4> QED
        BY <4>1, <4>2, <3>2
    <3>3. CASE i = n + 1
      <4>1. g[i] = next /\ g[i - 1] = w
        BY <3>3
      <4> HIDE DEF g
      <4> QED
        BY <4>1, <3>3
    <3> QED
      BY <3>1, <3>2, <3>3
  <2>3. g = Walk(n + 1, g)
    <3>1. g = [i \in 0 .. n + 1 |-> g[i]]
      OBVIOUS
    <3> HIDE DEF g
    <3>2. Walk(n + 1, g) = [i \in 0 .. n + 1 |-> Walk(n + 1, g)[i]]
      OBVIOUS
    <3> HIDE DEF Walk
    <3> QED
      BY <2>2, <3>1, <3>2
  <2> HIDE DEF g, Walk
  <2> QED
    BY <2>3
<1>3. Len(kept) \in Lengths
  <2> HIDE DEF Lengths
  <2> QED
    BY <1>1, <1>2, SetInduction
<1> DEFINE f == CHOOSE f : f = Walk(Len(kept), f)
<1>4. f = Walk(Len(kept), f)
  <2> HIDE DEF Walk
  <2> QED BY <1>3
<1>5. R!items(kept, b) = f[Len(kept)]
  BY DEF R!items, Going
<1> HIDE DEF f
<1>6. \A i \in 0 .. Len(kept) : f[i] = Walk(Len(kept), f)[i]
  BY <1>4, Zenon
<1>7. f[0] = [out |-> <<>>, b |-> b]
  BY <1>6
<1>8. ASSUME NEW i \in 1 .. Len(kept) PROVE f[i] = Onward(kept, i, f[i - 1])
  <2>1. f[i] = Going(kept, i, f[i - 1])
    BY <1>6
  <2> QED
    BY <2>1, GoingLemma
<1> QED
  BY <1>5, <1>7, <1>8

\* The lists of the first n items of s, joined.
Together(g, s, n) == R!FlattenSeq([j \in 1 .. n |-> g[s[j]]])

LEMMA TogetherLemma ==
  ASSUME NEW X, NEW g, NEW s, NEW n \in Nat, \A j \in 1 .. n + 1 : g[s[j]] \in Seq(X)
  PROVE  Together(g, s, n + 1) = Together(g, s, n) \o g[s[n + 1]]
<1> DEFINE t == [j \in 1 .. n |-> g[s[j]]]
<1>1. t \in Seq(Seq(X)) /\ Len(t) = n /\ g[s[n + 1]] \in Seq(X)
  OBVIOUS
<1>2. [j \in 1 .. n + 1 |-> g[s[j]]] = Append(t, g[s[n + 1]])
  <2> DEFINE u == [j \in 1 .. n + 1 |-> g[s[j]]]
  <2>1. u \in Seq(Seq(X)) /\ Len(u) = n + 1 /\ u[n + 1] = g[s[n + 1]] /\ \A j \in 1 .. n : u[j] = t[j]
    OBVIOUS
  <2> DEFINE Lists == Seq(X)
             x == g[s[n + 1]]
  <2>2. u \in Seq(Lists) /\ t \in Seq(Lists) /\ x \in Lists
    BY <1>1, <2>1
  <2> HIDE DEF u, t, x, Lists
  <2>3. /\ Append(t, x) \in Seq(Lists) /\ Len(Append(t, x)) = n + 1
        /\ Append(t, x)[n + 1] = x /\ \A j \in 1 .. n : Append(t, x)[j] = t[j]
    BY <1>1, <2>2, AppendProperties
  <2>4. \A j \in 1 .. n + 1 : u[j] = Append(t, x)[j]
    BY <2>1, <2>3 DEF x
  <2>5. u = Append(t, x)
    BY <2>1, <2>2, <2>3, <2>4, SeqEqual
  <2> QED
    BY <2>5 DEF u, x
<1> HIDE DEF t
<1>3. R!FlattenSeq(Append(t, g[s[n + 1]])) = R!FlattenSeq(t) \o g[s[n + 1]]
  BY <1>1, FlattenAppend
<1> QED
  BY <1>2, <1>3 DEF Together, t

LEMMA TogetherNone == ASSUME NEW g, NEW s PROVE Together(g, s, 0) = <<>>
<1>1. [j \in 1 .. 0 |-> g[s[j]]] = <<>>
  OBVIOUS
<1> QED
  BY <1>1, FlattenNone DEF Together

LEMMA TogetherSame ==
  ASSUME NEW g, NEW s, NEW t, NEW n \in Nat, \A j \in 1 .. n : s[j] = t[j]
  PROVE  Together(g, s, n) = Together(g, t, n)
<1>1. [j \in 1 .. n |-> g[s[j]]] = [j \in 1 .. n |-> g[t[j]]]
  OBVIOUS
<1> QED
  BY <1>1 DEF Together

\* The leaves of a reply are those of its items.
LEMMA LeavesLemma ==
  ASSUME NEW v \in R!Replies
  PROVE  /\ v.type # "array" => R!CappedLeaves[v] = <<v>> /\ R!leaves[v] = <<v>>
         /\ v.type = "array" => /\ R!CappedLeaves[v] = Together(R!CappedLeaves, v.items, R!Fitting(v.items))
                                /\ R!leaves[v] = Together(R!leaves, v.items, Len(v.items))
<1>1. /\ R!CappedLeaves[v] = IF v.type # "array" THEN <<v>> ELSE R!FlattenSeq(ListedBy(TRUE, R!CappedLeaves, v))
      /\ R!leaves[v] = IF v.type # "array" THEN <<v>> ELSE R!FlattenSeq(ListedBy(FALSE, R!leaves, v))
  BY ListingLemma DEF Listing, R!CappedLeaves, R!leaves
<1>2. /\ ListedBy(TRUE, R!CappedLeaves, v) = [i \in 1 .. R!Fitting(v.items) |-> R!CappedLeaves[v.items[i]]]
      /\ ListedBy(FALSE, R!leaves, v) = [i \in 1 .. Len(v.items) |-> R!leaves[v.items[i]]]
  BY DEF ListedBy
<1> QED
  BY <1>1, <1>2 DEF Together

\* What becomes of v under bounds b that are not used up: r holds what is kept of
\* it, a member of T, and the bounds that are left.
Outcome(v, b, r, T) ==
  /\ r.value \in T /\ r.b \in R!Bounds
  /\ R!CappedLeaves[v] \in Seq(R!WholeLeaf) /\ R!leaves[r.value] \in Leafs
  /\ Keeps(R!CappedLeaves[v], R!leaves[r.value], b, r.b)
  /\ r.b.exhausted => r.b.truncation # "none"
  /\ r.b.truncation = "none" <=> b.truncation = "none" /\ r.value = v

Fair(S, T) == \A v \in S : \A b \in R!Bounds : ~b.exhausted => Outcome(v, b, R!value(v, b), T)

\* The replies as RedisReply knows them: strings whole, and arrays no deeper.
WholeReplies == R!Nested(R!WholeLeaf)

LEMMA CutLemma ==
  ASSUME NEW c \in R!Bounds, NEW reason \in {"element_cap", "byte_budget"}
  PROVE  LET d == R!cut(c, reason)
         IN /\ d \in R!Bounds /\ d.truncation # "none"
            /\ d.remaining = c.remaining /\ d.exhausted = c.exhausted
BY DEF R!cut, R!Bounds

LEMMA LeafLemma ==
  ASSUME NEW T, R!Leaf \subseteq T, NEW v \in R!WholeLeaf, NEW b \in R!Bounds, ~b.exhausted
  PROVE  Outcome(v, b, R!leaf(v, b), T) /\ v.type # "array"
<1> DEFINE r == R!leaf(v, b)
<1>0. v \in R!Leaf /\ v.type # "array" /\ R!Leaf \subseteq R!Replies
  BY DEF R!WholeLeaf, R!Leaf, R!Replies, R!Nested, R!Over
<1>1. b.remaining \in Nat /\ ByteBudget \in Nat
  BY RedisAssumption DEF RedisAssumption, R!Bounds
<1>2. \A x \in R!Leaf : R!CappedLeaves[x] = <<x>> /\ R!leaves[x] = <<x>>
  <2>1. \A x \in R!Leaf : x \in R!Replies /\ x.type # "array"
    BY <1>0 DEF R!Leaf
  <2> QED
    BY <2>1, LeavesLemma
<1>3. <<v>> \in Seq(R!WholeLeaf)
  OBVIOUS
<1>4. CASE v.type # "string" \/ v.n <= b.remaining
  <2>1. /\ r.value = v /\ r.b.truncation = b.truncation /\ ~r.b.exhausted
        /\ r.b.remaining = b.remaining - R!Size(v) /\ R!Size(v) <= b.remaining /\ r.b \in R!Bounds
    <3>1. CASE v.type # "string"
      BY <1>1, <3>1 DEF R!leaf, R!Size
    <3>2. CASE v.type = "string"
      <4>1. v.n \in Nat /\ v.n <= b.remaining
        BY <1>0, <1>4, <3>2 DEF R!Leaf
      <4>2. r = [value |-> v, b |-> [b EXCEPT !.remaining = b.remaining - v.n]]
        BY <1>4, <3>2 DEF R!leaf, R!text
      <4> HIDE DEF r
      <4> QED
        BY <1>1, <3>2, <4>1, <4>2 DEF R!Size, R!Bounds
    <3> QED
      BY <3>1, <3>2
  <2> HIDE DEF r
  <2>2. Keeps(<<v>>, <<v>>, b, r.b)
    BY <1>0, <2>1, SingleLemma DEF Keeps
  <2> QED
    BY <1>0, <1>2, <1>3, <2>1, <2>2, SingleLemma DEF Outcome, r
<1>5. CASE v.type = "string" /\ v.n > b.remaining
  <2> DEFINE w == [v EXCEPT !.n = b.remaining, !.word = IF @ \in {"wide", "binary"} THEN @ ELSE "prefix"]
  <2>1. /\ v \in [type : {"string"}, n : Nat, word : Words, items : {<<>>}]
        /\ w \in [type : {"string"}, n : Nat, word : Words, items : {<<>>}]
        /\ w.n = b.remaining
    <3>1. v \in [type : {"string"}, n : Nat, word : Words, items : {<<>>}]
      BY <1>0, <1>5 DEF R!Leaf
    <3> DEFINE word == IF v.word \in {"wide", "binary"} THEN v.word ELSE "prefix"
    <3>2. word \in Words
      <4>1. v.word \in Words
        BY <3>1
      <4>2. "prefix" \in Words
        BY Zenon DEF Words
      <4> QED
        BY <4>1, <4>2, Zenon
    <3> HIDE DEF word
    <3>3. w = [v EXCEPT !.n = b.remaining, !.word = word]
      BY DEF word
    <3> HIDE DEF w
    <3> QED
      BY <1>1, <3>1, <3>2, <3>3
  <2> HIDE DEF w
  <2>2. w \in R!Leaf /\ R!Size(w) = b.remaining /\ R!Size(v) = v.n /\ v.n \in Nat /\ w # v
    BY <1>1, <1>5, <2>1 DEF R!Leaf, R!Size
  <2>3. /\ r.value = w /\ r.b \in R!Bounds /\ r.b.exhausted /\ r.b.remaining = 0 /\ r.b.truncation # "none"
    <3>1. ~(v.n <= b.remaining)
      BY <1>1, <1>5, <2>2
    <3>2. r = [value |-> w, b |-> R!cut([b EXCEPT !.remaining = 0, !.exhausted = TRUE], "byte_budget")]
      BY <1>5, <3>1 DEF R!leaf, R!text, w
    <3> HIDE DEF r
    <3> DEFINE c == [b EXCEPT !.remaining = 0, !.exhausted = TRUE]
    <3>3. r.value = w /\ r.b = R!cut(c, "byte_budget")
      BY <3>2
    <3>4. c = [remaining |-> 0, truncation |-> b.truncation, exhausted |-> TRUE]
      <4>1. b = [remaining |-> b.remaining, truncation |-> b.truncation, exhausted |-> b.exhausted]
        BY DEF R!Bounds
      <4>2. /\ DOMAIN c = {"remaining", "truncation", "exhausted"} /\ c = [i \in DOMAIN c |-> c[i]]
            /\ c.remaining = 0 /\ c.truncation = b.truncation /\ c.exhausted = TRUE
        BY <4>1
      <4> HIDE DEF c
      <4> QED
        BY <4>2
    <3>5. c \in R!Bounds /\ c.remaining = 0 /\ c.exhausted
      <4> HIDE DEF c
      <4> QED BY <1>1, <3>4 DEF R!Bounds
    <3> HIDE DEF c
    <3> QED
      BY <3>3, <3>5, CutLemma
  <2> HIDE DEF r
  <2>4. Len(<<w>>) = 1 /\ Len(<<v>>) = 1
    OBVIOUS
  <2>5. Ends(<<v>>, <<w>>, b.remaining)
    BY <1>0, <1>1, <1>5, <2>2, <2>4, SingleLemma DEF Ends
  <2>6. Keeps(<<v>>, <<w>>, b, r.b)
    BY <2>3, <2>5 DEF Keeps
  <2> QED
    BY <1>0, <1>2, <1>3, <2>2, <2>3, <2>6, SingleLemma DEF Outcome, r
<1>6. v.type = "string" => v.n \in Nat
  BY <1>0 DEF R!Leaf
<1> QED
  BY <1>0, <1>1, <1>4, <1>5, <1>6

\* After the first i items of v, whose outcomes T holds.
Sofar(v, b, T, i, w) ==
  /\ w.b \in R!Bounds /\ w.out \in Seq(T) /\ Len(w.out) <= i /\ (~w.b.exhausted => Len(w.out) = i)
  /\ Together(R!CappedLeaves, v.items, i) \in Seq(R!WholeLeaf)
  /\ Together(R!leaves, w.out, Len(w.out)) \in Leafs
  /\ Keeps(Together(R!CappedLeaves, v.items, i), Together(R!leaves, w.out, Len(w.out)), b, w.b)
  /\ w.b.exhausted => w.b.truncation # "none"
  /\ w.b.truncation = "none" <=>
       b.truncation = "none" /\ Len(w.out) = i /\ \A j \in 1 .. i : w.out[j] = v.items[j]

LEMMA NothingLemma == <<>> \in Leafs /\ <<>> \in Seq(R!WholeLeaf) /\ Len(<<>>) = 0 /\ Total(<<>>) = 0
<1>1. <<>> \in Leafs /\ <<>> \in Seq(R!WholeLeaf) /\ Len(<<>>) = 0
  BY DEF Leafs
<1> QED
  BY <1>1, BytesLemma DEF Total

LEMMA SofarNone ==
  ASSUME NEW T, NEW v, NEW b \in R!Bounds, ~b.exhausted
  PROVE  Sofar(v, b, T, 0, [out |-> <<>>, b |-> b])
<1> DEFINE w == [out |-> <<>>, b |-> b]
<1>1. w.b = b /\ w.out = <<>> /\ Len(w.out) = 0 /\ w.out \in Seq(T)
  OBVIOUS
<1> HIDE DEF w
<1>2. Together(R!CappedLeaves, v.items, 0) = <<>> /\ Together(R!leaves, w.out, 0) = <<>>
  BY TogetherNone
<1>3. Keeps(<<>>, <<>>, b, b)
  BY NothingLemma DEF Keeps, R!Bounds
<1>4. w.b.truncation = "none" <=>
        b.truncation = "none" /\ Len(w.out) = 0 /\ \A j \in 1 .. 0 : w.out[j] = v.items[j]
  BY <1>1
<1>5. Len(w.out) <= 0 /\ ~w.b.exhausted /\ w.b \in R!Bounds
  BY <1>1
<1>6. Together(R!leaves, w.out, Len(w.out)) = <<>>
  BY <1>1, <1>2
<1>7. Keeps(Together(R!CappedLeaves, v.items, 0), Together(R!leaves, w.out, Len(w.out)), b, w.b)
  BY <1>1, <1>2, <1>3, <1>6
<1>8. Sofar(v, b, T, 0, w)
  BY <1>1, <1>2, <1>4, <1>5, <1>6, <1>7, NothingLemma, Zenon DEF Sofar
<1> QED
  BY <1>8 DEF w

\* The leaves of a value that was appended.
LEMMA AppendedLemma ==
  ASSUME NEW T, NEW out \in Seq(T), NEW x \in T, NEW g, NEW X, \A y \in T : g[y] \in Seq(X)
  PROVE  Together(g, Append(out, x), Len(out) + 1) = Together(g, out, Len(out)) \o g[x]
<1> DEFINE all == Append(out, x)
           n == Len(out)
<1>1. n \in Nat /\ all[n + 1] = x /\ (\A j \in 1 .. n : all[j] = out[j]) /\ \A j \in 1 .. n : out[j] \in T
  BY AppendProperties
<1> HIDE DEF all, n
<1>2. \A j \in 1 .. n + 1 : g[all[j]] \in Seq(X)
  <2> SUFFICES ASSUME NEW j \in 1 .. n + 1 PROVE all[j] \in T
    OBVIOUS
  <2>1. j \in 1 .. n \/ j = n + 1
    BY <1>1
  <2> QED
    BY <1>1, <2>1
<1>3. Together(g, all, n + 1) = Together(g, all, n) \o g[all[n + 1]]
  <2>1. n \in Nat
    BY <1>1
  <2> QED
    BY <1>2, <2>1, TogetherLemma
<1>4. Together(g, all, n) = Together(g, out, n)
  BY <1>1, TogetherSame
<1> QED
  BY <1>1, <1>3, <1>4 DEF all, n

\* Every value that may be kept has leaves.
Listed(T) == T \subseteq R!Replies /\ \A y \in T : R!leaves[y] \in Leafs

\* One item more: it is left out, or kept as IH says.
LEMMA SofarMore ==
  ASSUME NEW S, NEW T, Fair(S, T), Listed(T),
         NEW v, NEW b \in R!Bounds, NEW i \in Nat, NEW w, Sofar(v, b, T, i, w),
         \A j \in 1 .. i + 1 : v.items[j] \in S, \A j \in 1 .. i + 1 : R!CappedLeaves[v.items[j]] \in Seq(R!WholeLeaf),
         NEW kept, kept[i + 1] = [c \in R!Bounds |-> R!value(v.items[i + 1], c)]
  PROVE  Sofar(v, b, T, i + 1, Onward(kept, i + 1, w))
<1> DEFINE x == v.items[i + 1]
           a == Together(R!CappedLeaves, v.items, i)
           o == Together(R!leaves, w.out, Len(w.out))
           more == R!CappedLeaves[x]
<1>1. /\ a \in Seq(R!WholeLeaf) /\ o \in Leafs /\ more \in Seq(R!WholeLeaf) /\ x \in S
      /\ w.b \in R!Bounds /\ w.out \in Seq(T) /\ Len(w.out) \in Nat /\ Keeps(a, o, b, w.b)
  BY DEF Sofar
<1>2. Together(R!CappedLeaves, v.items, i + 1) = a \o more
  <2> DEFINE g == R!CappedLeaves
             s == v.items
             X == R!WholeLeaf
  <2>1. \A j \in 1 .. i + 1 : g[s[j]] \in Seq(X)
    OBVIOUS
  <2> HIDE DEF g, s, X
  <2>2. Together(g, s, i + 1) = Together(g, s, i) \o g[s[i + 1]]
    BY <2>1, TogetherLemma
  <2> QED
    BY <2>2 DEF g, s
<1>3. \A s : s \in Seq(R!WholeLeaf) => s \in Leafs
  BY DEF R!WholeLeaf, Leafs
<1>4. a \o more \in Seq(R!WholeLeaf) /\ a \in Leafs /\ more \in Leafs
  BY <1>1, <1>3
<1> HIDE DEF x, a, o, more
<1>5. CASE w.b.exhausted
  <2>1. Onward(kept, i + 1, w) = w
    BY <1>5 DEF Onward
  <2>2. Keeps(a \o more, o, b, w.b)
    BY <1>1, <1>4, <1>5, KeepsNoMore
  <2>3. w.b.truncation # "none" /\ Len(w.out) <= i + 1
    BY <1>1, <1>5 DEF Sofar
  <2>4. ~(b.truncation = "none" /\ Len(w.out) = i + 1 /\ \A j \in 1 .. i + 1 : w.out[j] = v.items[j])
    BY <1>1 DEF Sofar
  <2> QED
    BY <1>1, <1>2, <1>4, <1>5, <2>1, <2>2, <2>3, <2>4 DEF Sofar, o
<1>6. CASE ~w.b.exhausted
  <2> DEFINE r == R!value(x, w.b)
             next == [out |-> Append(w.out, r.value), b |-> r.b]
  <2>1. Onward(kept, i + 1, w) = next
    BY <1>1, <1>6 DEF Onward, x
  <2>2. Outcome(x, w.b, r, T)
    BY <1>1, <1>6 DEF Fair
  <2> HIDE DEF r
  <2>3. /\ r.value \in T /\ r.b \in R!Bounds /\ R!leaves[r.value] \in Leafs
        /\ Keeps(more, R!leaves[r.value], w.b, r.b) /\ (r.b.exhausted => r.b.truncation # "none")
        /\ (r.b.truncation = "none" <=> w.b.truncation = "none" /\ r.value = x)
    BY <2>2 DEF Outcome, more
  <2>4. Len(w.out) = i
    BY <1>6 DEF Sofar
  <2>5. /\ next.b = r.b /\ next.out = Append(w.out, r.value) /\ next.out \in Seq(T) /\ Len(next.out) = i + 1
        /\ next.out[i + 1] = r.value /\ \A j \in 1 .. i : next.out[j] = w.out[j]
    BY <1>1, <2>3, <2>4, AppendProperties
  <2> HIDE DEF next
  <2>6. Together(R!leaves, next.out, i + 1) = o \o R!leaves[r.value]
    <3>1. Together(R!leaves, Append(w.out, r.value), Len(w.out) + 1) = o \o R!leaves[r.value]
      <4> DEFINE g == R!leaves
                 X == R!Leaf
                 out == w.out
                 y == r.value
      <4>1. \A z \in T : g[z] \in Seq(X)
        BY DEF Listed, Leafs
      <4>2. out \in Seq(T) /\ y \in T
        BY <1>1, <2>3
      <4> HIDE DEF g, X, out, y
      <4>3. Together(g, Append(out, y), Len(out) + 1) = Together(g, out, Len(out)) \o g[y]
        BY <4>1, <4>2, AppendedLemma
      <4> QED
        BY <4>3 DEF g, out, y, o
    <3> QED
      BY <2>4, <2>5, <3>1
  <2>7. Keeps(a \o more, o \o R!leaves[r.value], b, r.b) /\ o \o R!leaves[r.value] \in Leafs
    BY <1>1, <1>4, <1>6, <2>3, KeepsMore, ConcatLemma
  <2>8. r.b.truncation = "none" <=>
          b.truncation = "none" /\ Len(next.out) = i + 1 /\ \A j \in 1 .. i + 1 : next.out[j] = v.items[j]
    <3>1. w.b.truncation = "none" <=> b.truncation = "none" /\ \A j \in 1 .. i : w.out[j] = v.items[j]
      BY <2>4 DEF Sofar
    <3>2. (\A j \in 1 .. i + 1 : next.out[j] = v.items[j])
            <=> r.value = x /\ \A j \in 1 .. i : w.out[j] = v.items[j]
      <4>1. \A j : j \in 1 .. i + 1 <=> j \in 1 .. i \/ j = i + 1
        OBVIOUS
      <4> QED
        BY <2>5, <4>1 DEF x
    <3> QED
      BY <2>3, <2>5, <3>1, <3>2
  <2>9. next.b \in R!Bounds /\ Len(next.out) <= i + 1 /\ (next.b.exhausted => next.b.truncation # "none")
    BY <2>3, <2>5
  <2>10. /\ Together(R!leaves, next.out, Len(next.out)) \in Leafs
         /\ Keeps(Together(R!CappedLeaves, v.items, i + 1), Together(R!leaves, next.out, Len(next.out)), b, next.b)
    BY <1>2, <2>5, <2>6, <2>7
  <2>11. Sofar(v, b, T, i + 1, next)
    BY <1>2, <1>4, <2>5, <2>8, <2>9, <2>10, Zenon DEF Sofar
  <2> QED
    BY <2>1, <2>11
<1> QED
  BY <1>5, <1>6

LEMMA TogetherTyped ==
  ASSUME NEW X, NEW g, NEW s, NEW n \in Nat, \A j \in 1 .. n : g[s[j]] \in Seq(X)
  PROVE  Together(g, s, n) \in Seq(X)
<1> DEFINE K == {k \in Nat : k <= n => Together(g, s, k) \in Seq(X)}
<1>1. 0 \in K
  <2>1. Together(g, s, 0) = <<>>
    BY TogetherNone
  <2>2. <<>> \in Seq(X)
    OBVIOUS
  <2>3. Together(g, s, 0) \in Seq(X)
    BY <2>1, <2>2, Zenon
  <2> QED
    BY <2>3
<1>2. ASSUME NEW k \in Nat, k \in K PROVE k + 1 \in K
  <2> SUFFICES ASSUME k + 1 <= n PROVE Together(g, s, k + 1) \in Seq(X)
    OBVIOUS
  <2>1. \A j \in 1 .. k + 1 : g[s[j]] \in Seq(X)
    OBVIOUS
  <2>2. Together(g, s, k + 1) = Together(g, s, k) \o g[s[k + 1]]
    BY <2>1, TogetherLemma
  <2>3. Together(g, s, k) \in Seq(X) /\ g[s[k + 1]] \in Seq(X)
    BY <1>2, <2>1
  <2>4. Together(g, s, k) \o g[s[k + 1]] \in Seq(X)
    BY <2>3, ConcatProperties
  <2> QED
    BY <2>2, <2>4, Zenon
<1>3. Nat \subseteq K
  <2> HIDE DEF K
  <2> QED BY <1>1, <1>2, SetInduction
<1> QED
  BY <1>3

\* Every value of one level has leaves if those of the level below have.
Whole(S) == S \subseteq R!Replies /\ \A x \in S : R!CappedLeaves[x] \in Seq(R!WholeLeaf)

LEMMA ListedAbove ==
  ASSUME NEW T, Listed(T), Above(T) \subseteq R!Replies
  PROVE  Listed(Above(T))
<1> SUFFICES ASSUME NEW v \in Above(T) PROVE R!leaves[v] \in Leafs
  BY DEF Listed
<1>1. v \in R!Over(R!Leaf, T) /\ R!Leaf \in SUBSET R!Leaf /\ v \in R!Replies
  BY DEF Above
<1>2. CASE v.type # "array"
  <2>1. v \in R!Leaf /\ R!leaves[v] = <<v>>
    BY <1>1, <1>2, AboveLemma, LeavesLemma
  <2> QED
    BY <2>1 DEF Leafs
<1>3. CASE v.type = "array"
  <2> DEFINE g == R!leaves
             s == v.items
             X == R!Leaf
  <2>1. Len(s) \in Nat /\ \A j \in 1 .. Len(s) : g[s[j]] \in Seq(X)
    BY <1>1, AboveLemma DEF Listed, Leafs
  <2>2. g[v] = Together(g, s, Len(s))
    BY <1>1, <1>3, LeavesLemma
  <2> HIDE DEF g, s, X
  <2>3. Together(g, s, Len(s)) \in Seq(X)
    BY <2>1, TogetherTyped
  <2> QED
    BY <2>2, <2>3 DEF g, X, Leafs
<1> QED
  BY <1>2, <1>3

LEMMA WholeAbove ==
  ASSUME NEW S, Whole(S), R!Over(R!WholeLeaf, S) \subseteq R!Replies
  PROVE  Whole(R!Over(R!WholeLeaf, S))
<1> SUFFICES ASSUME NEW v \in R!Over(R!WholeLeaf, S) PROVE R!CappedLeaves[v] \in Seq(R!WholeLeaf)
  BY DEF Whole
<1>1. R!WholeLeaf \in SUBSET R!Leaf /\ v \in R!Replies
  BY DEF R!WholeLeaf
<1>2. CASE v.type # "array"
  <2>1. v \in R!WholeLeaf /\ R!CappedLeaves[v] = <<v>>
    BY <1>1, <1>2, AboveLemma, LeavesLemma
  <2> QED
    BY <2>1
<1>3. CASE v.type = "array"
  <2> DEFINE g == R!CappedLeaves
             s == v.items
             X == R!WholeLeaf
             n == R!Fitting(s)
  <2>1. Len(s) \in Nat /\ n \in 0 .. Len(s) /\ \A j \in 1 .. Len(s) : s[j] \in S
    BY <1>1, AboveLemma
  <2>2. n \in Nat /\ \A j \in 1 .. n : g[s[j]] \in Seq(X)
    <3> HIDE DEF n, s
    <3> QED BY <2>1 DEF Whole
  <2>3. g[v] = Together(g, s, n)
    BY <1>1, <1>3, LeavesLemma
  <2> HIDE DEF g, s, X, n
  <2>4. Together(g, s, n) \in Seq(X)
    BY <2>2, TogetherTyped
  <2> QED
    BY <2>3, <2>4 DEF g, X
<1> QED
  BY <1>2, <1>3

\* What array makes of v, from what value makes of its items.
LEMMA ArrayLemma ==
  ASSUME NEW v \in R!Replies, v.type = "array", NEW b \in R!Bounds,
         R!Fitting(v.items) \in Nat, \A i \in 1 .. R!Fitting(v.items) : v.items[i] \in R!Replies
  PROVE  LET kept == KeptBy(R!array, v)
         IN /\ Len(kept) = R!Fitting(v.items)
            /\ \A i \in 1 .. Len(kept) : kept[i] = [c \in R!Bounds |-> R!value(v.items[i], c)]
            /\ R!value(v, b) = R!bounded(v, R!items(kept, b))
<1> DEFINE kept == KeptBy(R!array, v)
<1>1. \A x \in R!Replies : R!array[x] = BoundedBy(KeptBy(R!array, x), x)
  BY BoundingLemma DEF Bounding
<1>2. Len(kept) = R!Fitting(v.items)
  BY DEF KeptBy
<1>3. ASSUME NEW i \in 1 .. R!Fitting(v.items)
      PROVE  kept[i] = [c \in R!Bounds |-> R!value(v.items[i], c)]
  <2> DEFINE x == v.items[i]
  <2>1. x \in R!Replies /\ kept[i] = IF x.type = "array" THEN R!array[x] ELSE [c \in R!Bounds |-> R!leaf(x, c)]
    BY DEF KeptBy
  <2> HIDE DEF x, kept
  <2>2. R!array[x] = [c \in R!Bounds |-> R!array[x][c]]
    BY <1>1, <2>1 DEF BoundedBy
  <2>3. kept[i] = [c \in R!Bounds |-> R!value(x, c)]
    <3>1. CASE x.type = "array"
      BY <2>1, <2>2, <3>1 DEF R!value
    <3>2. CASE x.type # "array"
      BY <2>1, <3>2 DEF R!value
    <3> QED
      BY <3>1, <3>2
  <2> QED
    BY <2>3 DEF x
<1> HIDE DEF kept
<1>4. R!value(v, b) = R!The({R!bounded(v, all) : all \in {R!items(kept, b)}})
  BY <1>1 DEF R!value, BoundedBy, kept
<1>5. {R!bounded(v, all) : all \in {R!items(kept, b)}} = {R!bounded(v, R!items(kept, b))}
  OBVIOUS
<1>6. R!value(v, b) = R!bounded(v, R!items(kept, b))
  BY <1>4, <1>5, TheOne, Zenon
<1> QED
  BY <1>2, <1>3, <1>6 DEF kept

\* The walk over the items of v that array makes.
LEMMA ItemsKept ==
  ASSUME NEW S, NEW T, Fair(S, T), Listed(T), Whole(S), NEW v \in R!Over(R!WholeLeaf, S), v \in R!Replies,
         v.type = "array", NEW b \in R!Bounds, ~b.exhausted
  PROVE  \E w : R!value(v, b) = R!bounded(v, w) /\ Sofar(v, b, T, R!Fitting(v.items), w)
<1> DEFINE n == R!Fitting(v.items)
           kept == KeptBy(R!array, v)
<1>0. /\ n \in Nat /\ \A i \in 1 .. n : v.items[i] \in S
      /\ \A i \in 1 .. n : v.items[i] \in R!Replies
      /\ \A i \in 1 .. n : R!CappedLeaves[v.items[i]] \in Seq(R!WholeLeaf)
  <2>1. R!WholeLeaf \in SUBSET R!Leaf
    BY DEF R!WholeLeaf
  <2>2. Len(v.items) \in Nat /\ n \in 0 .. Len(v.items) /\ \A i \in 1 .. Len(v.items) : v.items[i] \in S
    BY <2>1, AboveLemma
  <2> HIDE DEF n
  <2>3. n \in Nat /\ \A i \in 1 .. n : v.items[i] \in S
    BY <2>2
  <2> QED
    BY <2>3 DEF Whole
<1>1. /\ Len(kept) = n /\ \A i \in 1 .. n : kept[i] = [c \in R!Bounds |-> R!value(v.items[i], c)]
      /\ R!value(v, b) = R!bounded(v, R!items(kept, b))
  BY <1>0, ArrayLemma
<1> HIDE DEF kept, n
<1>2. PICK f : /\ R!items(kept, b) = f[n] /\ f[0] = [out |-> <<>>, b |-> b]
               /\ \A i \in 1 .. n : f[i] = Onward(kept, i, f[i - 1])
  BY <1>0, <1>1, WalkLemma
<1> DEFINE K == {i \in Nat : i <= n => Sofar(v, b, T, i, f[i])}
<1>3. 0 \in K
  BY <1>2, SofarNone
<1>4. ASSUME NEW i \in Nat, i \in K PROVE i + 1 \in K
  <2> SUFFICES ASSUME i + 1 <= n PROVE Sofar(v, b, T, i + 1, f[i + 1])
    OBVIOUS
  <2>1. Sofar(v, b, T, i, f[i]) /\ i + 1 \in 1 .. n /\ (i + 1) - 1 = i
    BY <1>0, <1>4
  <2>2. f[i + 1] = Onward(kept, i + 1, f[i])
    BY <1>2, <2>1
  <2>3. /\ \A j \in 1 .. i + 1 : v.items[j] \in S
        /\ \A j \in 1 .. i + 1 : R!CappedLeaves[v.items[j]] \in Seq(R!WholeLeaf)
    <3>1. \A j : j \in 1 .. i + 1 => j \in 1 .. n
      BY <1>0, <2>1
    <3> QED
      BY <1>0, <3>1
  <2>4. kept[i + 1] = [c \in R!Bounds |-> R!value(v.items[i + 1], c)]
    BY <1>1, <2>1
  <2>5. Sofar(v, b, T, i + 1, Onward(kept, i + 1, f[i]))
    BY <2>1, <2>3, <2>4, SofarMore
  <2> QED
    BY <2>2, <2>5
<1>5. Nat \subseteq K
  <2> HIDE DEF K
  <2> QED BY <1>3, <1>4, SetInduction
<1>6. Sofar(v, b, T, n, f[n])
  BY <1>0, <1>5
<1> QED
  BY <1>1, <1>2, <1>6 DEF n

\* An array is cut to the element cap and, one item after another, to the bytes.
LEMMA ArrayOutcome ==
  ASSUME NEW S, NEW T, Fair(S, T), Listed(T), Whole(S), NEW v \in R!Over(R!WholeLeaf, S), v \in R!Replies,
         Above(T) \subseteq R!Replies, v.type = "array", NEW b \in R!Bounds, ~b.exhausted
  PROVE  Outcome(v, b, R!value(v, b), Above(T))
<1> DEFINE n == R!Fitting(v.items)
           r == R!value(v, b)
<1>1. PICK w : r = R!bounded(v, w) /\ Sofar(v, b, T, n, w)
  BY ItemsKept
<1>2. /\ v = R!Array(v.items) /\ Len(v.items) \in Nat /\ n \in Nat /\ n <= Len(v.items) /\ v.items \in Seq(S)
      /\ n = IF Len(v.items) < MaxElements THEN Len(v.items) ELSE MaxElements
  <2>1. R!WholeLeaf \in SUBSET R!Leaf
    BY DEF R!WholeLeaf
  <2>2. v = R!Array(v.items) /\ Len(v.items) \in Nat /\ n \in 0 .. Len(v.items) /\ v.items \in Seq(S)
    BY <2>1, AboveLemma
  <2>3. n = IF Len(v.items) < MaxElements THEN Len(v.items) ELSE MaxElements
    BY DEF R!Fitting
  <2> HIDE DEF n
  <2> QED
    BY <2>2, <2>3
<1>3. /\ w.b \in R!Bounds /\ w.out \in Seq(T) /\ Len(w.out) <= n /\ (~w.b.exhausted => Len(w.out) = n)
      /\ Together(R!CappedLeaves, v.items, n) \in Seq(R!WholeLeaf)
      /\ Together(R!leaves, w.out, Len(w.out)) \in Leafs
      /\ Keeps(Together(R!CappedLeaves, v.items, n), Together(R!leaves, w.out, Len(w.out)), b, w.b)
      /\ (w.b.exhausted => w.b.truncation # "none")
      /\ (w.b.truncation = "none" <=>
           b.truncation = "none" /\ Len(w.out) = n /\ \A j \in 1 .. n : w.out[j] = v.items[j])
  BY <1>1 DEF Sofar
<1> DEFINE cap == ~w.b.exhausted /\ Len(v.items) > MaxElements
<1>4. r.value = [v EXCEPT !.items = w.out] /\ r.b = IF cap THEN R!cut(w.b, "element_cap") ELSE w.b
  BY <1>1 DEF R!bounded
<1> HIDE DEF r, n
<1>5. r.value = R!Array(w.out)
  BY <1>2, <1>4 DEF R!Array, R!Value
<1>6. /\ r.value \in Above(T) /\ r.value \in R!Replies /\ r.value.type = "array" /\ r.value.items = w.out
  <2>1. r.value \in Above(T)
    BY <1>3, <1>5 DEF R!Array, R!Value, Above, R!Over
  <2>2. r.value.type = "array" /\ r.value.items = w.out
    BY <1>5 DEF R!Array, R!Value
  <2> QED
    BY <2>1, <2>2
<1>7. /\ R!leaves[r.value] = Together(R!leaves, w.out, Len(w.out))
      /\ R!CappedLeaves[v] = Together(R!CappedLeaves, v.items, n)
  BY <1>6, LeavesLemma DEF n
<1>8. /\ r.b \in R!Bounds /\ r.b.remaining = w.b.remaining /\ r.b.exhausted = w.b.exhausted
      /\ (cap => r.b.truncation # "none") /\ (~cap => r.b.truncation = w.b.truncation)
  BY <1>3, <1>4, CutLemma
<1>9. Keeps(R!CappedLeaves[v], R!leaves[r.value], b, r.b)
  BY <1>3, <1>7, <1>8, Zenon DEF Keeps
<1>10. r.b.exhausted => r.b.truncation # "none"
  BY <1>3, <1>8
<1>11. r.value = v <=> w.out = v.items
  BY <1>2, <1>5, <1>6
<1>12. r.b.truncation = "none" <=> b.truncation = "none" /\ r.value = v
  <2>1. ASSUME cap PROVE w.out # v.items /\ r.b.truncation # "none"
    <3>1. Len(w.out) = MaxElements /\ MaxElements \in Nat
      BY <1>2, <1>3, <2>1, LimitsPositive DEF LimitsPositive
    <3>2. Len(w.out) # Len(v.items)
      BY <1>2, <2>1, <3>1
    <3> QED
      BY <1>8, <2>1, <3>2
  <2>2. ASSUME ~cap, w.b.exhausted PROVE w.b.truncation # "none" /\ (b.truncation = "none" => w.out # v.items)
    <3> SUFFICES ASSUME b.truncation = "none", w.out = v.items PROVE FALSE
      BY <1>3, <2>2
    <3>1. Len(w.out) = n
      BY <1>2, <1>3
    <3> QED
      BY <1>3, <2>2, <3>1
  <2>3. ASSUME ~cap, ~w.b.exhausted
        PROVE  (\A j \in 1 .. n : w.out[j] = v.items[j]) <=> w.out = v.items
    <3>1. n = Len(v.items) /\ Len(w.out) = n
      BY <1>2, <1>3, <2>3, LimitsPositive DEF LimitsPositive
    <3>2. w.out \in Seq(T \cup S) /\ v.items \in Seq(T \cup S)
      BY <1>2, <1>3
    <3> QED
      BY <3>1, <3>2, SeqEqual
  <2>4. CASE cap
    BY <1>11, <2>1, <2>4
  <2>5. CASE ~cap /\ w.b.exhausted
    BY <1>8, <1>11, <2>2, <2>5
  <2>6. CASE ~cap /\ ~w.b.exhausted
    BY <1>3, <1>8, <1>11, <2>3, <2>6
  <2> QED
    BY <2>4, <2>5, <2>6
<1> QED
  BY <1>3, <1>6, <1>7, <1>8, <1>9, <1>10, <1>12 DEF Outcome, r

LEMMA FairAbove ==
  ASSUME NEW S, NEW T, Fair(S, T), Listed(T), Whole(S),
         R!Over(R!WholeLeaf, S) \subseteq R!Replies, Above(T) \subseteq R!Replies
  PROVE  Fair(R!Over(R!WholeLeaf, S), Above(T))
<1> SUFFICES ASSUME NEW v \in R!Over(R!WholeLeaf, S), NEW b \in R!Bounds, ~b.exhausted
             PROVE  Outcome(v, b, R!value(v, b), Above(T))
  BY DEF Fair
<1>1. v.type # "array" => v \in R!WholeLeaf
  <2>1. R!WholeLeaf \in SUBSET R!Leaf
    BY DEF R!WholeLeaf
  <2> QED
    BY <2>1, AboveLemma
<1>2. CASE v.type = "array"
  BY <1>2, ArrayOutcome
<1>3. CASE v.type # "array"
  <2>1. R!Leaf \subseteq Above(T)
    BY DEF Above, R!Over
  <2>2. Outcome(v, b, R!leaf(v, b), Above(T))
    BY <1>1, <1>3, <2>1, LeafLemma
  <2> QED
    BY <1>3, <2>2 DEF R!value
<1> QED
  BY <1>2, <1>3

\* So it is for every reply whose strings are whole.
LEMMA FairLemma == Fair(WholeReplies, R!Replies)
<1> DEFINE L(S) == R!Over(R!WholeLeaf, S)
<1>1. R!Replies = Above(Above(Above(Above({})))) /\ WholeReplies = L(L(L(L({}))))
  BY DEF R!Replies, WholeReplies, R!Nested, Above
<1>2. \A S, T : S \subseteq T => L(S) \subseteq Above(T) /\ Above(S) \subseteq Above(T)
  <2>1. R!WholeLeaf \subseteq R!Leaf
    BY DEF R!WholeLeaf
  <2> QED
    BY <2>1, AboveGrows DEF Above
<1>3. /\ {} \subseteq R!Replies /\ Above({}) \subseteq R!Replies /\ Above(Above({})) \subseteq R!Replies
      /\ Above(Above(Above({}))) \subseteq R!Replies /\ Above(Above(Above(Above({})))) \subseteq R!Replies
  BY LevelsLemma
<1>4. /\ L({}) \subseteq Above({}) /\ L(L({})) \subseteq Above(Above({}))
      /\ L(L(L({}))) \subseteq Above(Above(Above({}))) /\ L(L(L(L({})))) \subseteq Above(Above(Above(Above({}))))
  <2> HIDE DEF L
  <2> QED BY <1>2
<1> DEFINE Level(S, T) == Fair(S, T) /\ Listed(T) /\ Whole(S)
<1>5. Level({}, {})
  BY DEF Fair, Listed, Whole
<1>6. ASSUME NEW S, NEW T, Level(S, T), L(S) \subseteq R!Replies, Above(T) \subseteq R!Replies
      PROVE  Level(L(S), Above(T))
  <2>1. Fair(L(S), Above(T))
    BY <1>6, FairAbove
  <2>2. Listed(Above(T)) /\ Whole(L(S))
    BY <1>6, ListedAbove, WholeAbove
  <2> QED
    BY <2>1, <2>2
<1> HIDE DEF L, Level
<1>7. Level(L({}), Above({}))
  BY <1>3, <1>4, <1>5, <1>6
<1>8. Level(L(L({})), Above(Above({})))
  BY <1>3, <1>4, <1>6, <1>7
<1>9. Level(L(L(L({}))), Above(Above(Above({}))))
  BY <1>3, <1>4, <1>6, <1>8
<1>10. Level(L(L(L(L({})))), Above(Above(Above(Above({})))))
  BY <1>3, <1>4, <1>6, <1>9
<1> QED
  BY <1>1, <1>10 DEF Level

\* The leaves of a whole reply are whole, and boundReply keeps their longest prefix.
Kept(raw, reply, truncation) ==
  LET all == R!CappedLeaves[raw]
      kept == R!leaves[reply]
      n == Len(kept)
  IN /\ n <= Len(all)
     /\ \A i \in 1 .. n - 1 : kept[i] = all[i]
     /\ R!BytesUpTo(kept, n) = Least(R!BytesUpTo(all, n), ByteBudget)
     /\ n < Len(all) => R!BytesUpTo(all, n) > ByteBudget
     /\ n > 0 => R!BytesUpTo(all, n - 1) <= ByteBudget
     /\ truncation = "none" <=> reply = raw
Readably(raw, reply, truncation) ==
  LET all == R!CappedLeaves[raw]
      kept == R!leaves[reply]
      shown == R!encodeReply(reply, truncation)
  IN \A i \in DOMAIN kept :
       kept[i].type = "string" /\ kept[i].word # "binary" =>
         shown[i] = "text" \/ (truncation = "element_cap" /\ i = Len(kept) /\ kept[i] # all[i])

LEMMA LeastLemma ==
  ASSUME NEW a \in Nat, NEW c \in Nat
  PROVE  /\ a <= c => Least(a, c) = a
         /\ a > c => Least(a, c) = c
<1>1. Least(a, c) \in {a, c} /\ Least(a, c) <= a /\ Least(a, c) <= c
  <2>1. \E m \in {a, c} : m <= a /\ m <= c
    BY SMT
  <2> QED
    BY <2>1 DEF Least
<1> QED
  BY <1>1

LEMMA BoundReplyLemma ==
  ASSUME NEW raw \in WholeReplies
  PROVE  LET bounded == R!boundReply(raw)
         IN Kept(raw, bounded.reply, bounded.truncation) /\ Readably(raw, bounded.reply, bounded.truncation)
<1> DEFINE r == R!value(raw, R!NoBounds)
           all == R!CappedLeaves[raw]
           kept == R!leaves[r.value]
           n == Len(kept)
<1>1. /\ R!NoBounds \in R!Bounds /\ ~R!NoBounds.exhausted /\ R!NoBounds.remaining = ByteBudget
      /\ R!NoBounds.truncation = "none" /\ ByteBudget \in Nat
  BY RedisAssumption DEF R!NoBounds, R!Bounds, RedisAssumption
<1>2. Outcome(raw, R!NoBounds, r, R!Replies)
  BY <1>1, FairLemma DEF Fair
<1>3. R!boundReply(raw) = [reply |-> r.value, truncation |-> r.b.truncation]
  <2> HIDE DEF r
  <2>1. {[reply |-> x.value, truncation |-> x.b.truncation] : x \in {r}} = {[reply |-> r.value, truncation |-> r.b.truncation]}
    OBVIOUS
  <2> QED
    BY <2>1, TheOne, Zenon DEF R!boundReply, r
<1> HIDE DEF r
<1>4. /\ all \in Seq(R!WholeLeaf) /\ kept \in Leafs /\ Keeps(all, kept, R!NoBounds, r.b)
      /\ (r.b.truncation = "none" <=> r.value = raw)
      /\ r.b.truncation \in {"none", "element_cap", "byte_budget"} /\ (r.b.exhausted => r.b.truncation # "none")
  BY <1>1, <1>2 DEF Outcome, R!Bounds
<1> HIDE DEF all, kept
<1>5. all \in Leafs /\ Len(all) \in Nat /\ Len(kept) \in Nat
  BY <1>4 DEF R!WholeLeaf, Leafs
<1>6. \/ kept = all /\ Total(all) <= ByteBudget
      \/ Ends(all, kept, ByteBudget)
  BY <1>1, <1>4 DEF Keeps
<1>7. /\ n <= Len(all)
      /\ \A i \in 1 .. n - 1 : kept[i] = all[i]
      /\ R!BytesUpTo(kept, n) = Least(R!BytesUpTo(all, n), ByteBudget)
      /\ n < Len(all) => R!BytesUpTo(all, n) > ByteBudget
      /\ n > 0 => R!BytesUpTo(all, n - 1) <= ByteBudget
  <2>1. CASE kept = all /\ Total(all) <= ByteBudget
    <3>1. R!BytesUpTo(all, n) \in Nat /\ R!BytesUpTo(all, n) <= ByteBudget
      BY <1>5, <2>1, BytesTypes DEF Total
    <3>2. n > 0 => R!BytesUpTo(all, n - 1) \in Nat /\ R!BytesUpTo(all, n - 1) <= R!BytesUpTo(all, n)
      BY <1>5, <2>1, BytesTypes
    <3>3. Least(R!BytesUpTo(all, n), ByteBudget) = R!BytesUpTo(all, n)
      BY <1>1, <3>1, LeastLemma
    <3> QED
      BY <1>1, <1>5, <2>1, <3>1, <3>2, <3>3
  <2>2. CASE Ends(all, kept, ByteBudget)
    <3>1. /\ n \in 1 .. Len(all) /\ R!BytesUpTo(kept, n) = ByteBudget
          /\ \A i \in 1 .. n - 1 : kept[i] = all[i]
          /\ R!BytesUpTo(all, n) > ByteBudget /\ R!BytesUpTo(all, n - 1) <= ByteBudget
      BY <2>2 DEF Ends, Total
    <3>2. R!BytesUpTo(all, n) \in Nat
      BY <1>5, <3>1, BytesTypes
    <3>3. Least(R!BytesUpTo(all, n), ByteBudget) = ByteBudget
      BY <1>1, <3>1, <3>2, LeastLemma
    <3> QED
      BY <1>5, <3>1, <3>3
  <2> QED
    BY <1>6, <2>1, <2>2
<1>8. ASSUME NEW i \in DOMAIN kept, kept[i].type = "string", kept[i].word # "binary"
      PROVE  \/ R!encodeReply(r.value, r.b.truncation)[i] = "text"
             \/ r.b.truncation = "element_cap" /\ i = Len(kept) /\ kept[i] # all[i]
  <2>1. DOMAIN kept = 1 .. n /\ i \in 1 .. n
    BY <1>4 DEF Leafs
  <2>2. R!encodeReply(r.value, r.b.truncation)[i] = R!rendered(kept[i], r.b.truncation = "byte_budget" /\ i = Len(kept))
    <3>1. R!encodeReply(r.value, r.b.truncation) =
            [j \in DOMAIN kept |-> R!rendered(kept[j], r.b.truncation = "byte_budget" /\ j = Len(kept))]
      BY DEF R!encodeReply, kept
    <3> QED
      BY <3>1
  <2>3. ASSUME kept[i] = all[i] PROVE R!Utf8(kept[i])
    <3>1. i \in 1 .. Len(all)
      BY <1>5, <1>7, <2>1
    <3>2. all[i] \in R!WholeLeaf
      BY <1>4, <3>1
    <3> QED
      BY <1>8, <2>3, <3>2 DEF R!WholeLeaf, R!Utf8
  <2>4. ASSUME kept[i] # all[i] PROVE i = Len(kept) /\ r.b.truncation \in {"element_cap", "byte_budget"}
    <3>1. r.b.exhausted
      BY <1>4, <2>4 DEF Keeps
    <3>2. i \notin 1 .. n - 1
      BY <1>7, <2>4
    <3> QED
      BY <1>4, <1>5, <2>1, <3>1, <3>2
  <2>5. CASE R!Utf8(kept[i])
    BY <1>8, <2>2, <2>5 DEF R!rendered
  <2>6. CASE ~R!Utf8(kept[i])
    <3>1. kept[i].word = "wide"
      BY <1>8, <2>6 DEF R!Utf8
    <3> QED
      BY <1>8, <2>2, <2>3, <2>4, <2>6, <3>1 DEF R!rendered
  <2> QED
    BY <2>5, <2>6
<1>9. Kept(raw, r.value, r.b.truncation)
  BY <1>4, <1>7 DEF Kept, all, kept
<1>10. Readably(raw, r.value, r.b.truncation)
  BY <1>8 DEF Readably, all, kept
<1>11. R!boundReply(raw).reply = r.value /\ R!boundReply(raw).truncation = r.b.truncation
  BY <1>3
<1> QED
  BY <1>9, <1>10, <1>11

-----------------------------------------------------------------------------
(* The scan of an agent *)

\* The assumptions on the slots, the sizes and the contents.
LEMMA SlotsLemma ==
  /\ LastBucket \in Nat /\ IsFiniteSet(Keys)
  /\ \A k \in Keys : Bucket[k] \in 0 .. LastBucket
  /\ \A b \in 0 .. LastBucket : \E s \in DOMAIN Numeral : Numeral[s] = b
BY RedisAssumption DEF RedisAssumption

LEMMA ZeroLemma == "zero" \in DOMAIN Numeral /\ At("zero") = 0
BY DEF Numeral, At

\* The cursor after a bucket: the next bucket, or zero behind the last one.
LEMMA CursorAfterLemma ==
  ASSUME NEW last \in 0 .. LastBucket
  PROVE  /\ CursorAfter(last) \in DOMAIN Numeral
         /\ CursorAfter(last) = "zero" <=> last = LastBucket
         /\ last # LastBucket => At(CursorAfter(last)) = last + 1
<1>1. CASE last = LastBucket
  BY <1>1, ZeroLemma DEF CursorAfter
<1>2. CASE last # LastBucket
  <2>1. LastBucket \in Nat /\ last + 1 \in 0 .. LastBucket /\ last + 1 # 0
    BY <1>2, SlotsLemma
  <2>2. \E s \in DOMAIN Numeral : Numeral[s] = last + 1
    BY <2>1, SlotsLemma
  <2>3. Token(last + 1) \in DOMAIN Numeral /\ Numeral[Token(last + 1)] = last + 1
    BY <2>2, Zenon DEF Token
  <2>4. CursorAfter(last) = Token(last + 1)
    BY <1>2 DEF CursorAfter
  <2>5. Token(last + 1) # "zero"
    BY <2>1, <2>3, ZeroLemma DEF At
  <2> QED
    BY <1>2, <2>3, <2>4, <2>5 DEF At
<1> QED
  BY <1>1, <1>2

\* The command of a page, and where Redis starts to read.
LEMMA ScanArgvLemma ==
  ASSUME NEW cursor \in DOMAIN Numeral, At(cursor) \in 0 .. LastBucket, NEW count
  PROVE  LET argv == ScanArgv(cursor, count)
         IN Command(argv) = "scan" /\ Cursor(argv) = At(cursor)
<1> DEFINE argv == ScanArgv(cursor, count)
           token == Token(count)
<1>1. argv = <<"scan", cursor, "count", token>>
  BY DEF ScanArgv
<1> HIDE DEF argv, token
<1>2. /\ argv \in Seq({"scan", cursor, "count", token}) /\ Len(argv) = 4
      /\ argv[1] = "scan" /\ argv[2] = cursor
  BY <1>1
<1>3. argv[1] \notin DOMAIN Containers
  BY <1>2 DEF Containers
<1>4. Args(argv) = SubSeq(argv, 2, 4)
  BY <1>2, <1>3 DEF Args, Rest
<1>5. Args(argv)[1] = cursor
  BY <1>2, <1>4, SubSeqProperties
<1>6. Command(argv) = "scan"
  BY <1>2, <1>3 DEF Command
<1>7. Cursor(argv) = At(cursor)
  <2>1. parseInt(cursor) /\ Int64(cursor) <= LastBucket
    BY SlotsLemma DEF parseInt, Int64, At
  <2> QED
    BY <1>5, <2>1 DEF Cursor, Int64, At
<1> QED
  BY <1>6, <1>7 DEF argv

\* The names of a page are the keys of its buckets, all of them.
LEMMA NamesAreKeys ==
  ASSUME NEW S, IsFiniteSet(S)
  PROVE  Cardinality(S) \in Nat /\ SetToSeq(S) \in [1 .. Cardinality(S) -> S] /\ IsInjective(SetToSeq(S))
<1> DEFINE I == 1 .. Cardinality(S)
<1>1. Cardinality(S) \in Nat
  BY FS_CardinalityType
<1>2. ExistsBijection(I, S)
  BY FS_CardinalityType
<1>3. PICK f : f \in Bijection(I, S)
  BY <1>2 DEF ExistsBijection
<1>4. f \in [I -> S] /\ IsInjective(f)
  BY <1>3 DEF Bijection, Injection, IsInjective
<1>5. SetToSeq(S) \in [I -> S] /\ IsInjective(SetToSeq(S))
  BY <1>4, Zenon DEF SetToSeq
<1> QED
  BY <1>1, <1>5

LEMMA NamesLemma ==
  ASSUME NEW S, IsFiniteSet(S), NEW k \in S
  PROVE  \E i \in DOMAIN SetToSeq(S) : SetToSeq(S)[i] = k
<1> DEFINE I == 1 .. Cardinality(S)
           names == SetToSeq(S)
<1>1. Cardinality(S) \in Nat /\ names \in [I -> S] /\ IsInjective(names)
  BY NamesAreKeys
<1>2. names \in Injection(I, S)
  BY <1>1 DEF Injection, IsInjective
<1>3. IsFiniteSet(I) /\ Cardinality(I) = Cardinality(S)
  BY <1>1, FS_Interval
<1>4. names \in Surjection(I, S)
  BY <1>2, <1>3, FS_Injection
<1>5. DOMAIN names = I
  BY <1>1
<1> QED
  BY <1>4, <1>5 DEF Surjection

\* What Redis replies to the request for a page: the cursor after some bucket,
\* and every key of the buckets up to it.
LEMMA PageLemma ==
  ASSUME NEW cursor \in DOMAIN Numeral, At(cursor) \in 0 .. LastBucket, NEW count,
         NEW raw \in RepliesTo(ScanArgv(cursor, count), keyspace)
  PROVE  \E last \in At(cursor) .. LastBucket :
           /\ Len(raw.items) = 2 /\ raw.items[1].word = CursorAfter(last)
           /\ \A k \in Seen(keyspace, At(cursor), last) :
                \E i \in DOMAIN raw.items[2].items : raw.items[2].items[i].word = k
<1>1. PICK last \in At(cursor) .. LastBucket : raw = ScanReply(keyspace, At(cursor), last)
  BY ScanArgvLemma DEF RepliesTo, Stops
<1> DEFINE names == SetToSeq(Seen(keyspace, At(cursor), last))
           page == [i \in DOMAIN names |-> R!String(NameSize[names[i]], names[i])]
<1>2. raw = R!Array(<<R!String(1, CursorAfter(last)), R!Array(page)>>)
  BY <1>1 DEF ScanReply
<1>3. \A i \in DOMAIN names : page[i].word = names[i]
  BY DEF R!String, R!Value
<1>4. DOMAIN page = DOMAIN names
  OBVIOUS
<1> HIDE DEF names, page
<1>5. Len(raw.items) = 2 /\ raw.items[1].word = CursorAfter(last) /\ raw.items[2].items = page
  BY <1>2 DEF R!Array, R!String, R!Value
<1>6. ASSUME NEW k \in Seen(keyspace, At(cursor), last)
      PROVE  \E i \in DOMAIN page : page[i].word = k
  <2>1. IsFiniteSet(Seen(keyspace, At(cursor), last))
    BY SlotsLemma, FS_Subset DEF Seen
  <2>2. PICK i \in DOMAIN names : names[i] = k
    BY <2>1, NamesLemma DEF names
  <2> QED
    BY <1>3, <1>4, <2>2
<1> QED
  BY <1>5, <1>6

\* A step that leaves the agent, the keyspace and the request alone, and brings
\* no page that was not there.
LEMMA ScanFrame ==
  ASSUME ScanInv, UNCHANGED <<agent, keyspace>>, call'.tool = call.tool,
         call.tool = "scan_keys" /\ call'.place # "answered" => call.place # "answered" /\ call'.argv = call.argv,
         call.tool = "scan_keys" /\ call'.place = "replied" => call.place = "replied" /\ call'.raw = call.raw
  PROVE  ScanInv'
BY DEF ScanInv, Passed, PageInv, ScanMissesNothing

\* The initial states.
LEMMA InitScan == Init => ScanInv
<1> SUFFICES ASSUME Init PROVE ScanInv
  OBVIOUS
<1>1. call.tool = "none" /\ agent.state = "none" /\ agent.cursor = "zero" /\ agent.stable = {}
  BY DEF Init, Handler, NoScan
<1>2. 0 \in 0 .. LastBucket
  BY SlotsLemma
<1> QED
  BY <1>1, <1>2, ZeroLemma DEF ScanInv, ScanMissesNothing

\* A call of another tool begins only when no scan is under way.
LEMMA OthersScan == ASSUME RInv, ScanInv, ExecuteCommand \/ InspectKey PROVE ScanInv'
<1>1. agent.state = "none" /\ UNCHANGED <<agent, keyspace>>
  BY DEF ExecuteCommand, InspectKey
<1>2. call'.tool \in {"execute_command", "inspect_key"}
  BY DEF ExecuteCommand, InspectKey, Begin, Handler
<1> QED
  BY <1>1, <1>2 DEF ScanInv, Passed, ScanMissesNothing

\* A scan begins with the keys there are, and asks for its next page.
LEMMA ScanKeysScan == ASSUME RInv, ScanInv, ScanKeys PROVE ScanInv'
<1>1. /\ call'.tool = "scan_keys" /\ call'.place = "execute"
      /\ call'.argv = ScanArgv(agent'.cursor, agent'.count)
      /\ UNCHANGED keyspace
  BY DEF ScanKeys, Begin, Handler
<1>2. CASE agent' = [NoScan EXCEPT !.state = "scanning", !.stable = {k \in Keys : keyspace[k] # Absent}]
  <2>1. /\ agent'.state = "scanning" /\ agent'.cursor = "zero"
        /\ agent'.stable = {k \in Keys : keyspace[k] # Absent}
    BY <1>2 DEF NoScan
  <2>2. Passed' = {}
    BY <2>1, SlotsLemma, ZeroLemma DEF Passed, At
  <2>3. 0 \in 0 .. LastBucket
    BY SlotsLemma
  <2> QED
    BY <1>1, <2>1, <2>2, <2>3, ZeroLemma DEF ScanInv, ScanMissesNothing, At
<1>3. CASE agent' = agent /\ agent.state = "scanning"
  BY <1>1, <1>3 DEF ScanInv, Passed, ScanMissesNothing
<1> QED
  BY <1>2, <1>3 DEF ScanKeys

\* A page is of the keyspace as it is when Redis reads it.
LEMMA RedisRepliesScan == ASSUME RInv, ScanInv, RedisReplies PROVE ScanInv'
<1>1. HandlerOK(call) /\ call.place = "sent" /\ UNCHANGED <<keyspace, agent>>
  BY DEF RInv, CallTypeOK, RedisReplies
<1>2. CASE call' = [call EXCEPT !.place = "failed", !.cause = "wrongtype", !.early = call.gone]
  <2>1. call'.place = "failed" /\ call'.tool = call.tool /\ call'.argv = call.argv
    BY <1>1, <1>2 DEF HandlerOK
  <2> QED
    BY <1>1, <2>1, ScanFrame
<1>3. ASSUME NEW raw \in RepliesTo(call.argv, keyspace), call' = [call EXCEPT !.place = "replied", !.raw = raw]
      PROVE  ScanInv'
  <2>1. call'.place = "replied" /\ call'.tool = call.tool /\ call'.argv = call.argv /\ call'.raw = raw
    BY <1>1, <1>3 DEF HandlerOK
  <2>2. CASE call.tool # "scan_keys"
    BY <1>1, <2>1, <2>2, ScanFrame
  <2>3. CASE call.tool = "scan_keys"
    <3>1. /\ call.argv = ScanArgv(agent.cursor, agent.count)
          /\ agent.cursor \in DOMAIN Numeral /\ At(agent.cursor) \in 0 .. LastBucket
      BY <1>1, <2>3 DEF ScanInv
    <3>2. PICK last \in At(agent.cursor) .. LastBucket :
            /\ Len(raw.items) = 2 /\ raw.items[1].word = CursorAfter(last)
            /\ \A k \in Seen(keyspace, At(agent.cursor), last) :
                 \E i \in DOMAIN raw.items[2].items : raw.items[2].items[i].word = k
      BY <1>3, <3>1, PageLemma
    <3>3. \A k \in agent.stable : Bucket[k] \in At(agent.cursor) .. last => k \in Seen(keyspace, At(agent.cursor), last)
      <4>1. agent.stable \subseteq Keys /\ \A k \in agent.stable : keyspace[k] # Absent
        BY DEF RInv, CallTypeOK, AgentOK, ScanInv
      <4> QED
        BY <4>1 DEF Seen
    <3>4. PageInv(raw)
      BY <3>2, <3>3 DEF PageInv
    <3> QED
      BY <1>1, <2>1, <2>3, <3>4 DEF ScanInv, Passed, PageInv, ScanMissesNothing
  <2> QED
    BY <2>2, <2>3
<1> QED
  BY <1>2, <1>3 DEF RedisReplies

\* Another client's write: a key that goes is stable no more, nor need it be in a
\* page that is on its way; a key that comes is not stable.
LEMMA WriteScan == ASSUME RInv, ScanInv, Write PROVE ScanInv'
<1>1. PICK k \in Keys : \E c \in Contents[k] :
        /\ keyspace' = [keyspace EXCEPT ![k] = c]
        /\ call' = [call EXCEPT !.touched = @ \/ k = call.key]
        /\ agent' = [agent EXCEPT !.stable = IF c = Absent THEN @ \ {k} ELSE @]
  BY DEF Write
<1> PICK c \in Contents[k] :
        /\ keyspace' = [keyspace EXCEPT ![k] = c]
        /\ call' = [call EXCEPT !.touched = @ \/ k = call.key]
        /\ agent' = [agent EXCEPT !.stable = IF c = Absent THEN @ \ {k} ELSE @]
  BY <1>1
<1>2. HandlerOK(call) /\ AgentOK(agent) /\ DOMAIN keyspace = Keys
  BY DEF RInv, CallTypeOK
<1>3. /\ call'.tool = call.tool /\ call'.place = call.place /\ call'.argv = call.argv /\ call'.raw = call.raw
  BY <1>2 DEF HandlerOK
<1>4. /\ agent'.state = agent.state /\ agent'.cursor = agent.cursor /\ agent'.count = agent.count
      /\ agent'.seen = agent.seen /\ agent'.stable \subseteq agent.stable /\ agent.stable \subseteq Keys
      /\ c = Absent => k \notin agent'.stable
  BY <1>2 DEF AgentOK
<1>5. \A key \in agent'.stable : keyspace'[key] # Absent
  BY <1>2, <1>4 DEF ScanInv
<1>6. Passed' \subseteq Passed
  BY <1>4 DEF Passed
<1>7. ASSUME PageInv(call.raw) PROVE PageInv(call.raw)'
  BY <1>3, <1>4, <1>7 DEF PageInv
<1> QED
  BY <1>3, <1>4, <1>5, <1>6, <1>7 DEF ScanInv, ScanMissesNothing

\* What KeptIsLongestPrefix says of a reply that is not called truncated.
WholeIsWhole ==
  call.place = "answered" /\ call.kind \in {None, "internal"} /\ call.truncation = "none" => call.reply = call.raw

\* The agent takes a whole page and goes on behind its buckets, or, when a page
\* was cut, asks for the same buckets again.
LEMMA ReceivePageScan == ASSUME RInv, ScanInv, ReceivePage, WholeIsWhole' PROVE ScanInv'
<1>1. /\ HandlerOK(call) /\ AgentOK(agent) /\ call.place = "replied" /\ call.tool = "scan_keys"
      /\ UNCHANGED keyspace
  BY DEF RInv, CallTypeOK, ReceivePage, Receive
<1>2. /\ PageInv(call.raw) /\ agent.state = "scanning"
      /\ agent.cursor \in DOMAIN Numeral /\ At(agent.cursor) \in 0 .. LastBucket
      /\ \A k \in agent.stable : keyspace[k] # Absent
      /\ Passed \subseteq agent.seen
  BY <1>1 DEF ScanInv
<1>3. PICK bounded :
        \/ call' = Answer(bounded) /\ agent' = FollowUp(bounded.reply.items, bounded.truncation)
        \/ call' = Unreadable(bounded) /\ UNCHANGED agent
  BY DEF ReceivePage
<1>4. call'.place = "answered" /\ call'.tool = "scan_keys"
  BY <1>1, <1>3 DEF Answer, Unreadable, HandlerOK
<1>5. CASE UNCHANGED agent
  BY <1>1, <1>4, <1>5, ScanFrame
<1>6. CASE call' = Answer(bounded) /\ agent' = FollowUp(bounded.reply.items, bounded.truncation)
  <2> DEFINE page == bounded.reply.items
  <2>1. /\ call'.reply = bounded.reply /\ call'.truncation = bounded.truncation
        /\ call'.raw = call.raw /\ call'.kind = call.kind
    BY <1>1, <1>6 DEF Answer, HandlerOK
  <2>2. CASE Truncated(bounded.truncation)
    <3>1. /\ agent'.state \in {"scanning", "stuck"} /\ agent'.cursor = agent.cursor
          /\ agent'.seen = agent.seen /\ agent'.stable = agent.stable
      BY <1>1, <1>6, <2>2 DEF FollowUp, AgentOK
    <3> QED
      BY <1>1, <1>2, <1>4, <3>1 DEF ScanInv, Passed, ScanMissesNothing
  <2>3. CASE ~Truncated(bounded.truncation)
    <3>1. call.kind = None
      BY <1>1 DEF RInv, KindInv
    <3>2. bounded.reply = call.raw
      BY <1>4, <2>1, <2>3, <3>1 DEF WholeIsWhole, Truncated
    <3>3. PICK last \in At(agent.cursor) .. LastBucket :
            /\ page[1].word = CursorAfter(last)
            /\ \A k \in agent.stable :
                 Bucket[k] \in At(agent.cursor) .. last =>
                   \E i \in DOMAIN page[2].items : page[2].items[i].word = k
      BY <1>2, <3>2 DEF PageInv
    <3>4. /\ agent'.state = IF page[1].word = "zero" THEN "done" ELSE "scanning"
          /\ agent'.cursor = page[1].word /\ agent'.stable = agent.stable
          /\ agent'.seen = agent.seen \cup {page[2].items[i].word : i \in DOMAIN page[2].items}
      BY <1>1, <1>6, <2>3 DEF FollowUp, AgentOK
    <3>5. last \in 0 .. LastBucket
      BY <1>2, SlotsLemma
    <3>6. agent'.cursor \in DOMAIN Numeral /\ (agent'.state = "done" <=> last = LastBucket)
          /\ (last # LastBucket => At(agent'.cursor) = last + 1)
          /\ (last = LastBucket => agent'.cursor = "zero")
      BY <3>3, <3>4, <3>5, CursorAfterLemma
    <3>7. \A k \in agent.stable : Bucket[k] <= last => k \in agent'.seen
      <4> SUFFICES ASSUME NEW k \in agent.stable, Bucket[k] <= last PROVE k \in agent'.seen
        OBVIOUS
      <4>1. k \in Keys /\ Bucket[k] \in 0 .. LastBucket
        BY <1>1, SlotsLemma DEF AgentOK
      <4>2. CASE Bucket[k] < At(agent.cursor)
        BY <1>2, <3>4, <4>2 DEF Passed
      <4>3. CASE Bucket[k] \in At(agent.cursor) .. last
        BY <3>3, <3>4, <4>3
      <4> QED
        BY <1>2, <3>5, <4>1, <4>2, <4>3, SlotsLemma
    <3>8. CASE last = LastBucket
      <4>1. agent'.stable \subseteq agent'.seen
        BY <1>1, <3>4, <3>7, <3>8, SlotsLemma DEF AgentOK
      <4>2. 0 \in 0 .. LastBucket
        BY SlotsLemma
      <4> QED
        BY <1>1, <1>2, <1>4, <3>4, <3>6, <3>8, <4>1, <4>2, ZeroLemma DEF ScanInv, ScanMissesNothing
    <3>9. CASE last # LastBucket
      <4>1. agent'.state = "scanning" /\ At(agent'.cursor) = last + 1 /\ last + 1 \in 0 .. LastBucket
        BY <3>4, <3>5, <3>6, <3>9, SlotsLemma
      <4>2. Passed' \subseteq agent'.seen
        <5>1. ASSUME NEW k \in agent.stable, Bucket[k] < last + 1 PROVE k \in agent'.seen
          <6>1. Bucket[k] \in Int /\ last \in Int
            BY <1>1, <3>5, SlotsLemma DEF AgentOK
          <6> QED
            BY <3>7, <5>1, <6>1
        <5> QED
          BY <3>4, <4>1, <5>1 DEF Passed, At
      <4> QED
        BY <1>1, <1>2, <1>4, <3>4, <3>6, <4>1, <4>2 DEF ScanInv, ScanMissesNothing, At
    <3> QED
      BY <3>8, <3>9
  <2> QED
    BY <2>2, <2>3
<1> QED
  BY <1>3, <1>5, <1>6

\* Every other step leaves the agent and its page alone.
LEMMA RestScan ==
  ASSUME RInv, ScanInv,
         Execute \/ Failed \/ FailedSince \/ ReceiveReply \/ ReceiveField \/ DoFails \/ HangUp \/ DeadlinePasses
  PROVE  ScanInv'
<1>1. HandlerOK(call) /\ UNCHANGED <<agent, keyspace>>
  BY DEF RInv, CallTypeOK, Execute, Failed, FailedSince, ReceiveReply, ReceiveField, DoFails, HangUp, DeadlinePasses, Receive
<1>2. CASE Execute
  <2>1. /\ call'.tool = call.tool /\ call.place = "execute" /\ call'.place \in {"answered", "sent"}
        /\ call'.argv = call.argv
    BY <1>1, <1>2 DEF Execute, FailWith, HandlerOK
  <2> QED
    BY <1>1, <2>1, ScanFrame
<1>3. CASE Failed \/ FailedSince
  <2>1. /\ call'.tool = call.tool /\ call'.argv = call.argv
        /\ call.place \in {"failed", "classifying"} /\ call'.place \in {"answered", "classifying"}
    BY <1>1, <1>3 DEF Failed, FailedSince, Fails, FailWith, HandlerOK
  <2> QED
    BY <1>1, <2>1, ScanFrame
<1>4. CASE ReceiveReply \/ ReceiveField
  <2>1. call.tool # "scan_keys"
    BY <1>4 DEF ReceiveReply, ReceiveField, Receive
  <2>2. call'.tool = call.tool
    BY <1>1, <1>4 DEF ReceiveReply, ReceiveField, Answer, Unreadable, HandlerOK
  <2> QED
    BY <1>1, <2>1, <2>2, ScanFrame
<1>5. CASE DoFails
  <2>1. call'.tool = call.tool /\ call'.place = "failed" /\ call'.argv = call.argv /\ call.place # "answered"
    BY <1>1, <1>5 DEF DoFails, HandlerOK
  <2> QED
    BY <1>1, <2>1, ScanFrame
<1>6. CASE HangUp \/ DeadlinePasses
  <2>1. /\ call'.tool = call.tool /\ call'.place = call.place /\ call'.argv = call.argv /\ call'.raw = call.raw
    BY <1>1, <1>6 DEF HangUp, DeadlinePasses, HandlerOK
  <2> QED
    BY <1>1, <2>1, ScanFrame
<1> QED
  BY <1>2, <1>3, <1>4, <1>5, <1>6

LEMMA NextScan == RInv /\ ScanInv /\ WholeIsWhole' /\ [Next]_vars => ScanInv'
<1> SUFFICES ASSUME RInv, ScanInv, WholeIsWhole', [Next]_vars PROVE ScanInv'
  OBVIOUS
<1>1. CASE UNCHANGED vars \/ Finished
  BY <1>1, ScanFrame DEF vars, Finished
<1>2. CASE ExecuteCommand \/ InspectKey \/ ScanKeys \/ ReceivePage
  BY <1>2, OthersScan, ScanKeysScan, ReceivePageScan
<1>3. CASE RedisReplies \/ Write
  BY <1>3, RedisRepliesScan, WriteScan
<1>4. CASE Execute \/ Failed \/ FailedSince \/ ReceiveReply \/ ReceiveField \/ DoFails \/ HangUp \/ DeadlinePasses
  BY <1>4, RestScan
<1> QED
  BY <1>1, <1>2, <1>3, <1>4 DEF Next

-----------------------------------------------------------------------------
(* The gate: what an argv that it allows lets Redis visit *)

\* A numeral is a number of int64.
LEMMA NumeralLemma == \A s : parseInt(s) => Int64(s) \in Int
<1>1. 2^(Word - 1) \in Int
  BY LimitsPositive DEF LimitsPositive
<1>2. \A s \in DOMAIN Numeral : Numeral[s] \in Int
  BY <1>1, SMTT(30) DEF Numeral, MinInt, MaxInt
<1> QED
  BY <1>2 DEF parseInt, Int64

\* The first check that refuses decides.
LEMMA FirstLemma == \A f, g : (f ?? g) = IF f # "ok" THEN f ELSE g
<1> SUFFICES ASSUME NEW f, NEW g PROVE (f ?? g) = IF f # "ok" THEN f ELSE g
  OBVIOUS
<1> DEFINE E(x) == IF x # "ok" THEN x ELSE g
<1>1. {E(x) : x \in {f}} = {E(f)}
  <2> HIDE DEF E
  <2> QED OBVIOUS
<1>2. (f ?? g) = The({E(x) : x \in {f}})
  BY DEF ??
<1>3. (f ?? g) = E(f)
  <2> HIDE DEF E
  <2> QED BY <1>1, <1>2, TheLemma
<1> QED
  BY <1>3

\* So two checks pass if both do, and refuse with the reason of one of them.
LEMMA ChainLemma ==
  \A f, g : /\ (f ?? g) = "ok" <=> f = "ok" /\ g = "ok"
            /\ (f ?? g) \in {f, g}
BY FirstLemma

\* What each check of a value says of the number it lets through.
LEMMA CountOptionLemma ==
  ASSUME NEW s, countOption(s) = "ok"
  PROVE  parseInt(s) /\ Int64(s) \in 1 .. MaxCount
<1>1. intArg(s) = "ok" /\ Refuse(Int64(s) < 1, "invalid_argument") = "ok" /\ Refuse(Int64(s) > MaxCount, "count_too_large") = "ok"
  BY ChainLemma DEF countOption
<1>2. parseInt(s) /\ ~(Int64(s) < 1) /\ ~(Int64(s) > MaxCount)
  BY <1>1 DEF intArg, Refuse
<1> QED
  BY <1>2, NumeralLemma, LimitsPositive DEF LimitsPositive

LEMMA LimitOptionLemma ==
  ASSUME NEW offset, NEW count, limitOption(offset, count) = "ok"
  PROVE  Int64(offset) \in Nat /\ Int64(count) \in 0 .. MaxElements /\ Int64(offset) + Int64(count) <= MaxElements
<1>1. /\ intArg(offset) = "ok" /\ Refuse(Int64(offset) < 0, "invalid_argument") = "ok"
      /\ intArg(count) = "ok"
      /\ Refuse(Int64(count) < 0 \/ Int64(count) > MaxElements, "too_many_elements") = "ok"
      /\ Refuse(Int64(offset) > MaxElements - Int64(count), "traversal_too_deep") = "ok"
  BY ChainLemma DEF limitOption
<1>2. /\ parseInt(offset) /\ ~(Int64(offset) < 0) /\ parseInt(count) /\ ~(Int64(count) < 0)
      /\ ~(Int64(count) > MaxElements) /\ ~(Int64(offset) > MaxElements - Int64(count))
  BY <1>1 DEF intArg, Refuse
<1> QED
  BY <1>2, NumeralLemma, LimitsPositive DEF LimitsPositive

LEMMA SampledLemma ==
  ASSUME NEW s, Sampled(s) = "ok"
  PROVE  parseInt(s) /\ Int64(s) \in 1 .. MaxElements
<1>1. /\ intArg(s) = "ok" /\ Refuse(Int64(s) < 0, "invalid_argument") = "ok"
      /\ Refuse(Int64(s) = 0 \/ Int64(s) > MaxElements, "too_many_elements") = "ok"
  BY ChainLemma DEF Sampled
<1>2. parseInt(s) /\ ~(Int64(s) < 0) /\ Int64(s) # 0 /\ ~(Int64(s) > MaxElements)
  BY <1>1 DEF intArg, Refuse
<1> QED
  BY <1>2, NumeralLemma, LimitsPositive DEF LimitsPositive

LEMMA WindowLemma ==
  ASSUME NEW start, NEW stop, window(start, stop) = "ok"
  PROVE  Int64(start) \in Nat /\ Int64(stop) \in Nat /\ Int64(stop) - Int64(start) < MaxElements
<1>1. /\ intArg(start) = "ok" /\ intArg(stop) = "ok"
      /\ Refuse(Int64(start) < 0 \/ Int64(stop) < 0, "unbounded_window") = "ok"
      /\ Refuse(Int64(stop) >= Int64(start) /\ Int64(stop) - Int64(start) >= MaxElements, "window_too_large") = "ok"
  BY ChainLemma DEF window
<1>2. /\ parseInt(start) /\ parseInt(stop) /\ ~(Int64(start) < 0) /\ ~(Int64(stop) < 0)
      /\ ~(Int64(stop) >= Int64(start) /\ Int64(stop) - Int64(start) >= MaxElements)
  BY <1>1 DEF intArg, Refuse
<1>3. Int64(start) \in Nat /\ Int64(stop) \in Nat
  BY <1>2, NumeralLemma
<1> QED
  BY <1>2, <1>3, LimitsPositive DEF LimitsPositive

-----------------------------------------------------------------------------
(* The option loops *)

\* What is refused of the option at i, and the position after it.
OptionRefusal(options, args, i, at) ==
  LET o == options[args[i]]
  IN Refuse(at[o.slot] # 0, Repeated(o.slot))
     ?? Refuse(i + o.values > Len(args), "wrong_arity")
     ?? ValueRefusal(o.kind, args, i)
NextOption(options, args, i) == i + 1 + Taken(options[args[i]], args, i)
Fills(options) == [Slots(options) -> Nat]

\* One turn of the loop.
Turn(options, args, from, i, at) ==
  IF i > Len(args) THEN [refusal |-> "ok", at |-> at]
  ELSE IF args[i] \notin DOMAIN options THEN [refusal |-> "unknown_argument", at |-> at]
  ELSE IF OptionRefusal(options, args, i, at) # "ok" THEN [refusal |-> OptionRefusal(options, args, i, at), at |-> at]
  ELSE from[NextOption(options, args, i)][[at EXCEPT ![options[args[i]].slot] = i]]
\* The loop as Options has it.
Loop(options, args, from) ==
  [i \in Nat |-> [at \in Fills(options) |->
     IF i > Len(args) THEN [refusal |-> "ok", at |-> at]
     ELSE IF args[i] \notin DOMAIN options
       THEN [refusal |-> "unknown_argument", at |-> at]
     ELSE
       LET o == options[args[i]]
       IN The({IF refusal # "ok" THEN [refusal |-> refusal, at |-> at]
               ELSE from[i + 1 + Taken(o, args, i)][[at EXCEPT ![o.slot] = i]] :
               refusal \in {Refuse(at[o.slot] # 0, Repeated(o.slot))
                            ?? Refuse(i + o.values > Len(args), "wrong_arity")
                            ?? ValueRefusal(o.kind, args, i)}})]]
IsLoop(options, args, from) ==
  \A i \in Nat, at \in Fills(options) : from[i][at] = Turn(options, args, from, i, at)

\* That it binds a refusal before it reads it makes no difference.
LEMMA TurnLemma ==
  ASSUME NEW options, NEW args, NEW from
  PROVE  Loop(options, args, from) = [i \in Nat |-> [at \in Fills(options) |-> Turn(options, args, from, i, at)]]
<1> SUFFICES ASSUME NEW i \in Nat, NEW at \in Fills(options)
             PROVE  Loop(options, args, from)[i][at] = Turn(options, args, from, i, at)
  BY DEF Loop
<1> DEFINE o == options[args[i]]
           Ref == Refuse(at[o.slot] # 0, Repeated(o.slot)) ?? Refuse(i + o.values > Len(args), "wrong_arity")
                  ?? ValueRefusal(o.kind, args, i)
           E(r) == IF r # "ok" THEN [refusal |-> r, at |-> at]
                   ELSE from[i + 1 + Taken(o, args, i)][[at EXCEPT ![o.slot] = i]]
<1>1. The({E(r) : r \in {Ref}}) = E(Ref)
  <2> HIDE DEF E, Ref
  <2>1. {E(r) : r \in {Ref}} = {E(Ref)}
    OBVIOUS
  <2> QED BY <2>1, TheLemma
<1>2. Loop(options, args, from)[i][at] =
        IF i > Len(args) THEN [refusal |-> "ok", at |-> at]
        ELSE IF args[i] \notin DOMAIN options THEN [refusal |-> "unknown_argument", at |-> at]
        ELSE The({E(r) : r \in {Ref}})
  BY DEF Loop
<1>3. Ref = OptionRefusal(options, args, i, at)
  BY DEF OptionRefusal
<1>4. E(Ref) = IF OptionRefusal(options, args, i, at) # "ok" THEN [refusal |-> OptionRefusal(options, args, i, at), at |-> at]
             ELSE from[NextOption(options, args, i)][[at EXCEPT ![options[args[i]].slot] = i]]
  <2> HIDE DEF Ref
  <2> QED BY <1>3 DEF NextOption
<1> HIDE DEF E, Ref
<1> QED
  BY <1>1, <1>2, <1>4 DEF Turn

\* The tables give each option a number of values and a kind.
Kinds == {"any", "count", "countany", "limit", "maxlen", "poscount", "rank", "radius", "box"}
IsTable(options) == \A w \in DOMAIN options : options[w].values \in Nat /\ options[w].kind \in Kinds

\* The loop has a value: it ends, because each turn moves on, and where a turn is
\* the last but n it has been settled by n steps.
SettledFrom(options, args, from, n) ==
  \A i \in Nat, at \in Fills(options) : i + n > Len(args) => from[i][at] = Turn(options, args, from, i, at)
Settling(options, args, n) == \E from : SettledFrom(options, args, from, n)

\* A turn moves on, and what it fills is a slot.
LEMMA NextOptionLemma ==
  ASSUME NEW options, IsTable(options), NEW args, NEW i \in Nat, args[i] \in DOMAIN options
  PROVE  /\ NextOption(options, args, i) \in Nat /\ NextOption(options, args, i) > i
         /\ \A at \in Fills(options) : [at EXCEPT ![options[args[i]].slot] = i] \in Fills(options)
<1>1. options[args[i]].values \in Nat
  BY DEF IsTable
<1>2. Taken(options[args[i]], args, i) \in Nat
  BY <1>1 DEF Taken
<1>3. NextOption(options, args, i) = i + 1 + Taken(options[args[i]], args, i)
  BY DEF NextOption
<1> DEFINE slot == options[args[i]].slot
<1> HIDE DEF slot
<1>4. \A at \in Fills(options) : [at EXCEPT ![slot] = i] \in Fills(options)
  BY DEF Fills
<1> QED
  BY <1>2, <1>3, <1>4 DEF slot

\* However many turns are left.
LEMMA SettlingLemma ==
  ASSUME NEW options, IsTable(options), NEW args, Len(args) \in Nat, NEW n \in Nat
  PROVE  Settling(options, args, n)
<1> DEFINE Steps == {m \in Nat : Settling(options, args, m)}
<1>1. 0 \in Steps
  <2> DEFINE f == [i \in Nat |-> [at \in Fills(options) |-> [refusal |-> "ok", at |-> at]]]
  <2>1. SettledFrom(options, args, f, 0)
    BY DEF SettledFrom, Turn
  <2> HIDE DEF f
  <2> QED BY <2>1 DEF Settling
<1>2. ASSUME NEW m \in Nat, m \in Steps PROVE m + 1 \in Steps
  <2>1. PICK f : SettledFrom(options, args, f, m)
    BY <1>2 DEF Settling
  <2> DEFINE T(i, at) == Turn(options, args, f, i, at)
             g == [i \in Nat |-> [at \in Fills(options) |-> IF i + m > Len(args) THEN f[i][at] ELSE T(i, at)]]
  <2>2. ASSUME NEW i \in Nat, NEW at \in Fills(options), i + (m + 1) > Len(args)
        PROVE  g[i][at] = Turn(options, args, g, i, at)
    <3>1. g[i][at] = T(i, at)
      <4>1. g[i][at] = IF i + m > Len(args) THEN f[i][at] ELSE T(i, at)
        <5> HIDE DEF T
        <5> QED OBVIOUS
      <4> QED BY <4>1, <2>1 DEF SettledFrom
    <3>2. ASSUME args[i] \in DOMAIN options
          PROVE  g[NextOption(options, args, i)][[at EXCEPT ![options[args[i]].slot] = i]]
                 = f[NextOption(options, args, i)][[at EXCEPT ![options[args[i]].slot] = i]]
      <4> DEFINE j == NextOption(options, args, i)
                 next == [at EXCEPT ![options[args[i]].slot] = i]
      <4>1. j \in Nat /\ j > i /\ next \in Fills(options)
        BY <3>2, NextOptionLemma
      <4> HIDE DEF j, next, T
      <4>2. j + m > Len(args)
        BY <4>1, <2>2
      <4>3. g[j][next] = f[j][next]
        BY <4>1, <4>2
      <4> QED BY <4>3 DEF j, next
    <3> HIDE DEF g
    <3>3. Turn(options, args, g, i, at) = T(i, at)
      BY <3>2 DEF Turn
    <3> QED BY <3>1, <3>3
  <2> HIDE DEF g
  <2>3. SettledFrom(options, args, g, m + 1)
    BY <2>2 DEF SettledFrom
  <2> QED BY <2>3 DEF Settling
<1>3. n \in Steps
  <2> HIDE DEF Steps
  <2> QED BY <1>1, <1>2, SetInduction
<1> QED BY <1>3

\* Options is the loop from its first position, with no slot filled.
OptionsAre(options, args, from, first) ==
  Options(options, args, first) = from[first][[s \in Slots(options) |-> 0]]

\* So there is a loop, and Options is what it comes to.
LEMMA LoopLemma ==
  ASSUME NEW options, IsTable(options), NEW args, Len(args) \in Nat, NEW first
  PROVE  \E from : IsLoop(options, args, from) /\ OptionsAre(options, args, from, first)
<1> DEFINE F(f) == Loop(options, args, f)
           G(f) == [i \in Nat |-> [at \in Fills(options) |-> Turn(options, args, f, i, at)]]
           from == CHOOSE f : f = F(f)
<1>1. PICK h : SettledFrom(options, args, h, Len(args) + 1)
  BY SettlingLemma DEF Settling
<1> DEFINE g == [i \in Nat |-> [at \in Fills(options) |-> h[i][at]]]
<1>2. ASSUME NEW i \in Nat, NEW at \in Fills(options) PROVE g[i][at] = Turn(options, args, g, i, at)
  <2>1. g[i][at] = h[i][at]
    OBVIOUS
  <2>2. h[i][at] = Turn(options, args, h, i, at)
    BY <1>1 DEF SettledFrom
  <2>3. ASSUME args[i] \in DOMAIN options
        PROVE  g[NextOption(options, args, i)][[at EXCEPT ![options[args[i]].slot] = i]]
               = h[NextOption(options, args, i)][[at EXCEPT ![options[args[i]].slot] = i]]
    <3> DEFINE j == NextOption(options, args, i)
               next == [at EXCEPT ![options[args[i]].slot] = i]
    <3>1. j \in Nat /\ next \in Fills(options)
      BY <2>3, NextOptionLemma
    <3> HIDE DEF j, next
    <3>2. g[j][next] = h[j][next]
      BY <3>1
    <3> QED BY <3>2 DEF j, next
  <2> HIDE DEF g
  <2>4. Turn(options, args, g, i, at) = Turn(options, args, h, i, at)
    BY <2>3 DEF Turn
  <2> QED BY <2>1, <2>2, <2>4
<1>3. g = G(g)
  BY <1>2
<1>4. \A f : F(f) = G(f)
  BY TurnLemma
<1>5. from = F(from)
  <2> HIDE DEF F, G, g
  <2>1. g = F(g)
    BY <1>3, <1>4
  <2> QED BY <2>1
<1>6. from = G(from)
  <2> HIDE DEF F, G, from
  <2> QED BY <1>4, <1>5
<1>7. Options(options, args, first) = from[first][[s \in Slots(options) |-> 0]]
  BY Zenon DEF Options, Loop, Fills
<1> HIDE DEF from
<1>8. IsLoop(options, args, from)
  BY <1>6 DEF IsLoop
<1> QED BY <1>7, <1>8 DEF OptionsAre

\* A slot that is filled holds the position of an option of its own, the value of
\* which has been checked.
Filled(options, args, at) ==
  \A slot \in Slots(options) : at[slot] # 0 =>
    /\ args[at[slot]] \in DOMAIN options
    /\ options[args[at[slot]]].slot = slot
    /\ ValueRefusal(options[args[at[slot]]].kind, args, at[slot]) = "ok"
Fillings(options, args) == {at \in Fills(options) : Filled(options, args, at)}
Allow == "bounded_read"

\* No check of a value says what an allowed command is allowed for.
LEMMA ValueRefusalLemma ==
  ASSUME NEW kind \in Kinds, NEW args, NEW i
  PROVE  /\ ValueRefusal(kind, args, i) # Allow
         /\ kind \in {"count", "countany"} => ValueRefusal(kind, args, i) = countOption(args[i + 1])
         /\ kind = "limit" => ValueRefusal(kind, args, i) = limitOption(args[i + 1], args[i + 2])
         /\ kind = "maxlen" => ValueRefusal(kind, args, i) = Sampled(args[i + 1])
<1>1. \A f, g : f # Allow /\ g # Allow => (f ?? g) # Allow
  BY ChainLemma
<1>2. \A s : intArg(s) # Allow
  BY DEF intArg, Refuse, Allow
<1>3. \A s : countOption(s) # Allow
  BY <1>1, <1>2 DEF countOption, Refuse, Allow
<1>4. \A s, t : limitOption(s, t) # Allow
  BY <1>1, <1>2 DEF limitOption, Refuse, Allow
<1>5. \A s : Sampled(s) # Allow /\ PosCount(s) # Allow /\ PosRank(s) # Allow
  BY <1>1, <1>2 DEF Sampled, PosCount, PosRank, Refuse, Allow
<1>6. \A s : geoUnit(s) # Allow
  BY DEF geoUnit, Refuse, Allow
<1>7. "ok" # Allow
  BY DEF Allow
<1>8. CASE kind \in {"count", "countany"}
  BY <1>3, <1>8 DEF ValueRefusal
<1>9. CASE kind = "limit"
  BY <1>4, <1>9 DEF ValueRefusal
<1>10. CASE kind = "maxlen"
  BY <1>5, <1>10 DEF ValueRefusal
<1>11. CASE kind \in {"any", "poscount", "rank", "radius", "box"}
  BY <1>5, <1>6, <1>7, <1>11 DEF ValueRefusal
<1> QED
  BY <1>8, <1>9, <1>10, <1>11 DEF Kinds

\* One turn leaves the slots filled as they should be.
LEMMA TurnFills ==
  ASSUME NEW options, IsTable(options), NEW args, NEW i \in Nat, NEW at \in Fillings(options, args),
         args[i] \in DOMAIN options
  PROVE  /\ OptionRefusal(options, args, i, at) # Allow
         /\ OptionRefusal(options, args, i, at) = "ok" =>
              [at EXCEPT ![options[args[i]].slot] = i] \in Fillings(options, args)
<1> DEFINE o == options[args[i]]
           slot == o.slot
           A == Refuse(at[o.slot] # 0, Repeated(o.slot))
           B == Refuse(i + o.values > Len(args), "wrong_arity")
           C == ValueRefusal(o.kind, args, i)
           next == [at EXCEPT ![slot] = i]
<1>1. OptionRefusal(options, args, i, at) = ((A ?? B) ?? C)
  BY DEF OptionRefusal
<1>2. A # Allow /\ B # Allow
  BY DEF Refuse, Repeated, Allow
<1>3. C # Allow
  <2>1. o.kind \in Kinds
    BY DEF IsTable
  <2> QED BY <2>1, ValueRefusalLemma
<1>4. ((A ?? B) ?? C) # Allow
  <2> HIDE DEF A, B, C
  <2> QED BY <1>2, <1>3, ChainLemma
<1>5. ASSUME ((A ?? B) ?? C) = "ok" PROVE C = "ok"
  <2> HIDE DEF A, B, C
  <2> QED BY <1>5, ChainLemma
<1>6. ASSUME C = "ok" PROVE next \in Fillings(options, args)
  <2>1. at \in [Slots(options) -> Nat] /\ Filled(options, args, at)
    BY DEF Fillings, Fills
  <2>2. slot \in Slots(options)
    BY DEF Slots
  <2>3. options[args[i]].slot = slot /\ ValueRefusal(options[args[i]].kind, args, i) = "ok"
    BY <1>6
  <2> HIDE DEF slot, o, C
  <2>4. next \in [Slots(options) -> Nat]
    BY <2>1
  <2>5. ASSUME NEW s \in Slots(options), next[s] # 0
        PROVE  /\ args[next[s]] \in DOMAIN options /\ options[args[next[s]]].slot = s
               /\ ValueRefusal(options[args[next[s]]].kind, args, next[s]) = "ok"
    <3>1. CASE s = slot
      <4>1. next[s] = i
        BY <2>1, <3>1
      <4> QED BY <2>3, <3>1, <4>1
    <3>2. CASE s # slot
      <4>1. next[s] = at[s]
        BY <2>1, <3>2
      <4> HIDE DEF next
      <4> QED BY <2>1, <2>5, <4>1 DEF Filled
    <3> QED BY <3>1, <3>2
  <2> HIDE DEF next
  <2> QED BY <2>4, <2>5 DEF Fillings, Fills, Filled
<1> HIDE DEF A, B, C
<1> QED
  BY <1>1, <1>4, <1>5, <1>6

\* And so does the loop.
WellFilled(options, args, r) == r.at \in Fillings(options, args) /\ r.refusal # Allow

LEMMA OptionsLemma ==
  ASSUME NEW options, IsTable(options), NEW args, Len(args) \in Nat, NEW first \in Nat
  PROVE  WellFilled(options, args, Options(options, args, first))
<1>1. PICK from : IsLoop(options, args, from) /\ OptionsAre(options, args, from, first)
  BY LoopLemma
<1> DEFINE S == Fillings(options, args)
           Steps == {n \in Nat : \A i \in Nat, at \in S : i + n > Len(args) => WellFilled(options, args, from[i][at])}
<1>2. ASSUME NEW i \in Nat, NEW at \in S,
             \A next \in S : /\ args[i] \in DOMAIN options
                             /\ i <= Len(args)
                             => WellFilled(options, args, from[NextOption(options, args, i)][next])
      PROVE  WellFilled(options, args, from[i][at])
  <2>1. at \in Fills(options) /\ from[i][at] = Turn(options, args, from, i, at)
    BY <1>1 DEF IsLoop, Fillings
  <2>2. CASE i > Len(args)
    BY <2>1, <2>2 DEF Turn, WellFilled, Allow
  <2>3. CASE i <= Len(args) /\ args[i] \notin DOMAIN options
    BY <2>1, <2>3 DEF Turn, WellFilled, Allow
  <2>4. CASE i <= Len(args) /\ args[i] \in DOMAIN options /\ OptionRefusal(options, args, i, at) # "ok"
    <3>1. OptionRefusal(options, args, i, at) # Allow
      BY <2>4, TurnFills
    <3> QED BY <2>1, <2>4, <3>1 DEF Turn, WellFilled
  <2>5. CASE i <= Len(args) /\ args[i] \in DOMAIN options /\ OptionRefusal(options, args, i, at) = "ok"
    <3> DEFINE next == [at EXCEPT ![options[args[i]].slot] = i]
    <3>1. next \in S
      BY <2>5, TurnFills
    <3>2. Turn(options, args, from, i, at) = from[NextOption(options, args, i)][next]
      BY <2>5 DEF Turn
    <3> HIDE DEF next
    <3> QED BY <1>2, <2>1, <2>5, <3>1, <3>2
  <2> QED BY <2>2, <2>3, <2>4, <2>5
<1>3. 0 \in Steps
  BY <1>2
<1>4. ASSUME NEW n \in Nat, n \in Steps PROVE n + 1 \in Steps
  <2>1. ASSUME NEW i \in Nat, NEW at \in S, i + (n + 1) > Len(args) PROVE WellFilled(options, args, from[i][at])
    <3>1. ASSUME NEW next \in S, args[i] \in DOMAIN options, i <= Len(args)
          PROVE  WellFilled(options, args, from[NextOption(options, args, i)][next])
      <4>1. NextOption(options, args, i) \in Nat /\ NextOption(options, args, i) + n > Len(args)
        BY <2>1, <3>1, NextOptionLemma
      <4> QED BY <1>4, <4>1
    <3> QED BY <1>2, <3>1
  <2> QED BY <2>1
<1>5. Len(args) + 1 \in Steps
  <2> HIDE DEF Steps
  <2> QED BY <1>3, <1>4, SetInduction
<1>6. [s \in Slots(options) |-> 0] \in S
  BY DEF Fillings, Fills, Filled
<1>7. WellFilled(options, args, from[first][[s \in Slots(options) |-> 0]])
  BY <1>5, <1>6
<1> QED
  BY <1>1, <1>7 DEF OptionsAre

-----------------------------------------------------------------------------
(* The tables of options *)

\* A table of which a slot has values of certain kinds only.
OfKind(options, slot, kinds) ==
  IsTable(options) /\ slot \in Slots(options) /\ \A w \in DOMAIN options : options[w].slot = slot => options[w].kind \in kinds

\* In these tables the slot that bounds the work has values of one kind.
LEMMA ScanTables ==
  \A extra \in {"none", "type", "novalues"} : OfKind(ScanTable[extra], "count", {"count", "countany"})
<1>1. OfKind(ScanTable["none"], "count", {"count", "countany"})
  BY DEF OfKind, IsTable, Kinds, Slots, ScanTable, Match, Count, Option
<1>2. OfKind(ScanTable["type"], "count", {"count", "countany"})
  BY DEF OfKind, IsTable, Kinds, Slots, ScanTable, Match, Count, Option
<1>3. OfKind(ScanTable["novalues"], "count", {"count", "countany"})
  BY DEF OfKind, IsTable, Kinds, Slots, ScanTable, Match, Count, Option, Slot
<1> QED
  BY <1>1, <1>2, <1>3

LEMMA OtherTables ==
  /\ OfKind(PosOptions, "maxlen", {"maxlen"})
  /\ OfKind(ZRangeOptions, "limit", {"limit"}) /\ Slots(ZRangeOptions) = {"byscore", "bylex", "rev", "withscores", "limit"}
  /\ OfKind(LimitOnly, "limit", {"limit"}) /\ OfKind(LimitOrScores, "limit", {"limit"})
  /\ OfKind(CountOnly, "count", {"count", "countany"})
  /\ OfKind(GeoOptions, "count", {"count", "countany"})
<1>1. OfKind(PosOptions, "maxlen", {"maxlen"})
  BY DEF OfKind, IsTable, Kinds, Slots, PosOptions, Option
<1>2. OfKind(ZRangeOptions, "limit", {"limit"})
  BY DEF OfKind, IsTable, Kinds, Slots, ZRangeOptions, Limit, Option, Slot
<1>3. Slots(ZRangeOptions) = {"byscore", "bylex", "rev", "withscores", "limit"}
  BY DEF Slots, ZRangeOptions, Limit, Option, Slot
<1>4. OfKind(LimitOnly, "limit", {"limit"})
  BY DEF OfKind, IsTable, Kinds, Slots, LimitOnly, Limit, Option
<1>5. OfKind(LimitOrScores, "limit", {"limit"})
  BY DEF OfKind, IsTable, Kinds, Slots, LimitOrScores, Limit, Option, Slot
<1>6. OfKind(CountOnly, "count", {"count", "countany"})
  BY DEF OfKind, IsTable, Kinds, Slots, CountOnly, Count, Option
<1>7. OfKind(GeoOptions, "count", {"count", "countany"})
  BY DEF OfKind, IsTable, Kinds, Slots, GeoOptions, Option, Slot
<1> QED
  BY <1>1, <1>2, <1>3, <1>4, <1>5, <1>6, <1>7

-----------------------------------------------------------------------------
(* What is checked of a slot is what Redis reads of it *)

\* Such a slot, once filled, holds the value that Redis reads of it.
LEMMA HeldLemma ==
  ASSUME NEW options, NEW slot, NEW kinds, OfKind(options, slot, kinds), NEW args, Len(args) \in Nat, NEW first \in Nat,
         Options(options, args, first).at[slot] # 0
  PROVE  LET at == Options(options, args, first).at[slot]
         IN /\ at \in Nat /\ Value(args, options, first, slot) = args[at + 1]
            /\ \E kind \in kinds : ValueRefusal(kind, args, at) = "ok" /\ kind \in Kinds
<1> DEFINE at == Options(options, args, first).at
<1>1. at \in Fills(options) /\ Filled(options, args, at)
  BY OptionsLemma DEF WellFilled, Fillings, OfKind
<1>2. slot \in Slots(options) /\ at[slot] # 0
  BY DEF OfKind
<1> DEFINE E(p) == IF p = 0 THEN "" ELSE args[p + 1]
<1>3. Value(args, options, first, slot) = The({E(p) : p \in {at[slot]}})
  BY DEF Value
<1> HIDE DEF at
<1>4. {E(p) : p \in {at[slot]}} = {E(at[slot])}
  <2> HIDE DEF E
  <2> QED OBVIOUS
<1>5. Value(args, options, first, slot) = args[at[slot] + 1]
  <2>1. Value(args, options, first, slot) = E(at[slot])
    <3> HIDE DEF E
    <3> QED BY <1>3, <1>4, TheLemma
  <2> QED BY <1>2, <2>1
<1>6. at[slot] \in Nat
  BY <1>1, <1>2 DEF Fills
<1>7. PICK o \in {options[args[at[slot]]]} : o.slot = slot /\ ValueRefusal(o.kind, args, at[slot]) = "ok" /\ args[at[slot]] \in DOMAIN options
  BY <1>1, <1>2 DEF Filled
<1>8. o.kind \in kinds /\ o.kind \in Kinds
  BY <1>7 DEF OfKind, IsTable
<1> QED
  BY <1>5, <1>6, <1>7, <1>8 DEF at

\* A count is within the limits, and so is a maximal length.
LEMMA CountedLemma ==
  ASSUME NEW options, OfKind(options, "count", {"count", "countany"}), NEW args, Len(args) \in Nat, NEW first \in Nat,
         Options(options, args, first).at["count"] # 0
  PROVE  /\ parseInt(Value(args, options, first, "count")) 
         /\ Int64(Value(args, options, first, "count")) \in 1 .. MaxCount
<1> DEFINE at == Options(options, args, first).at["count"]
<1>1. PICK kind \in {"count", "countany"} : ValueRefusal(kind, args, at) = "ok"
  BY HeldLemma
<1>2. Value(args, options, first, "count") = args[at + 1]
  BY HeldLemma
<1>3. countOption(args[at + 1]) = "ok"
  BY <1>1, ValueRefusalLemma DEF Kinds
<1> QED
  BY <1>2, <1>3, CountOptionLemma

LEMMA MaxlenLemma ==
  ASSUME NEW options, OfKind(options, "maxlen", {"maxlen"}), NEW args, Len(args) \in Nat, NEW first \in Nat,
         Options(options, args, first).at["maxlen"] # 0
  PROVE  /\ parseInt(Value(args, options, first, "maxlen")) 
         /\ Int64(Value(args, options, first, "maxlen")) \in 1 .. MaxElements
<1> DEFINE at == Options(options, args, first).at["maxlen"]
<1>1. ValueRefusal("maxlen", args, at) = "ok"
  BY HeldLemma
<1>2. Value(args, options, first, "maxlen") = args[at + 1]
  BY HeldLemma
<1>3. Sampled(args[at + 1]) = "ok"
  BY <1>1, ValueRefusalLemma DEF Kinds
<1> QED
  BY <1>2, <1>3, SampledLemma

\* A positive numeral is the number that Redis reads, not the default.
LEMMA NumberedLemma ==
  ASSUME NEW s, parseInt(s), Int64(s) \in Nat \ {0}, NEW default
  PROVE  Numbered(s, default) = Int64(s)
<1> DEFINE E(t) == IF t = "" THEN default ELSE IF Int64(t) <= 0 THEN default ELSE Int64(t)
<1>1. {E(t) : t \in {s}} = {E(s)}
  <2> HIDE DEF E
  <2> QED OBVIOUS
<1>2. Numbered(s, default) = E(s)
  <2>1. Numbered(s, default) = The({E(t) : t \in {s}})
    BY DEF Numbered
  <2> HIDE DEF E
  <2> QED BY <1>1, <2>1, TheLemma
<1>3. s # ""
  <2>1. "" \notin DOMAIN Numeral
    BY DEF Numeral
  <2> QED BY <2>1 DEF parseInt
<1>4. Int64(s) \in Int /\ ~(Int64(s) <= 0)
  OBVIOUS
<1>5. E(s) = Int64(s)
  BY <1>3, <1>4
<1> QED
  BY <1>2, <1>5

\* The least of two numbers.
LEMMA LeastOfLemma ==
  ASSUME NEW a \in Int, NEW b \in Int
  PROVE  Least(a, b) \in {a, b} /\ Least(a, b) <= a /\ Least(a, b) <= b
BY DEF Least

\* A limit that was checked ends the walk inside the cap.
LEMMA LimitedLemma ==
  ASSUME NEW options, OfKind(options, "limit", {"limit"}), NEW args, Len(args) \in Nat,
         Options(options, args, 4).at["limit"] # 0, NEW n \in Nat
  PROVE  Limited(n, args, options) \in 0 .. MaxElements
<1> DEFINE at == Options(options, args, 4).at["limit"]
           E(p) == IF p = 0 THEN n
                   ELSE Least(n, Int64(args[p + 1]) + (IF Int64(args[p + 2]) < 0 THEN n ELSE Int64(args[p + 2])))
<1>1. at \in Nat /\ at # 0 /\ ValueRefusal("limit", args, at) = "ok"
  BY HeldLemma
<1>2. limitOption(args[at + 1], args[at + 2]) = "ok"
  BY <1>1, ValueRefusalLemma DEF Kinds
<1>3. Limited(n, args, options) = The({E(p) : p \in {at}})
  BY DEF Limited
<1> HIDE DEF at
<1>4. Limited(n, args, options) = E(at)
  <2>1. {E(p) : p \in {at}} = {E(at)}
    <3> HIDE DEF E
    <3> QED OBVIOUS
  <2> HIDE DEF E
  <2> QED BY <1>3, <2>1, TheLemma
<1> DEFINE offset == Int64(args[at + 1])
           count == Int64(args[at + 2])
<1>5. offset \in Nat /\ count \in 0 .. MaxElements /\ offset + count <= MaxElements
  BY <1>2, LimitOptionLemma
<1>6. E(at) = Least(n, offset + count)
  BY <1>1, <1>5
<1> HIDE DEF offset, count, E
<1>7. MaxElements \in Nat /\ offset + count \in Nat
  BY <1>5, LimitsPositive DEF LimitsPositive
<1> DEFINE last == offset + count
<1>8. Least(n, last) \in {n, last} /\ Least(n, last) <= last
  BY <1>7, LeastOfLemma
<1>9. Limited(n, args, options) = Least(n, last)
  BY <1>4, <1>6
<1>10. last \in 0 .. MaxElements
  BY <1>5, <1>7
<1> HIDE DEF last
<1>11. Least(n, last) \in 0 .. MaxElements
  BY <1>7, <1>8, <1>10
<1> QED
  BY <1>9, <1>11

-----------------------------------------------------------------------------
(* What each check lets through *)

\* An option list with a slot that must be filled.
LEMMA RequiredLemma ==
  ASSUME NEW options, IsTable(options), NEW args, Len(args) \in Nat, NEW first \in Nat, NEW slot, NEW reason
  PROVE  /\ Required(options, args, first, slot, reason) = "ok" /\ reason # "ok" => Options(options, args, first).at[slot] # 0
         /\ reason # Allow => Required(options, args, first, slot, reason) # Allow
<1> DEFINE o == Options(options, args, first)
           E(x) == x.refusal ?? Refuse(x.at[slot] = 0, reason)
<1>1. Required(options, args, first, slot, reason) = E(o)
  <2>1. Required(options, args, first, slot, reason) = The({E(x) : x \in {o}})
    BY DEF Required
  <2> HIDE DEF E, o
  <2>2. {E(x) : x \in {o}} = {E(o)}
    OBVIOUS
  <2> QED BY <2>1, <2>2, TheLemma
<1>2. o.refusal # Allow
  BY OptionsLemma DEF WellFilled
<1> HIDE DEF o
<1>3. E(o) = "ok" <=> o.refusal = "ok" /\ Refuse(o.at[slot] = 0, reason) = "ok"
  BY ChainLemma
<1>4. E(o) \in {o.refusal, Refuse(o.at[slot] = 0, reason)}
  BY ChainLemma
<1> HIDE DEF E
<1>5. Required(options, args, first, slot, reason) = "ok" /\ reason # "ok" => o.at[slot] # 0
  BY <1>1, <1>3 DEF Refuse
<1>6. reason # Allow => Required(options, args, first, slot, reason) # Allow
  BY <1>1, <1>2, <1>4 DEF Refuse, Allow
<1> QED
  BY <1>5, <1>6 DEF o

LEMMA ScanOptionsLemma ==
  ASSUME NEW args, Len(args) \in Nat, NEW offset \in Nat, NEW extra \in {"none", "type", "novalues"},
         scanOptions(args, offset, extra) = "ok"
  PROVE  /\ parseInt(Value(args, ScanTable[extra], offset + 1, "count"))
         /\ Int64(Value(args, ScanTable[extra], offset + 1, "count")) \in 1 .. MaxCount
<1> DEFINE table == ScanTable[extra]
<1>1. OfKind(table, "count", {"count", "countany"}) /\ IsTable(table)
  BY ScanTables DEF OfKind
<1>2. Required(table, args, offset + 1, "count", "missing_count") = "ok"
  BY DEF scanOptions
<1> HIDE DEF table
<1>3. Options(table, args, offset + 1).at["count"] # 0
  BY <1>1, <1>2, RequiredLemma
<1> QED
  BY <1>1, <1>3, CountedLemma DEF table

\* One lemma per family of commands.
LEMMA KeyScanLemma ==
  ASSUME NEW args, Len(args) \in Nat, NEW extra \in {"none", "novalues"}, checkKeyScan(args, extra) = "ok", NEW n \in Nat
  PROVE  LET page == Page(n, args, ScanTable[extra], 3)
         IN page \in Nat /\ page <= Larger(MaxCount + Chain - 1, Compact)
<1> DEFINE s == Value(args, ScanTable[extra], 3, "count")
<1>1. scanOptions(args, 2, extra) = "ok"
  BY ChainLemma DEF checkKeyScan
<1>2. parseInt(s) /\ Int64(s) \in 1 .. MaxCount
  <2>1. 2 \in Nat /\ 2 + 1 = 3
    OBVIOUS
  <2> QED BY <1>1, <2>1, ScanOptionsLemma
<1>3. Page(n, args, ScanTable[extra], 3) = IF n <= Compact THEN n ELSE Least(n, Numbered(s, n) + Chain - 1)
  BY DEF Page
<1> HIDE DEF s
<1>4. MaxCount \in Nat /\ Compact \in Nat /\ Chain \in Nat /\ Chain >= 1
  BY LimitsPositive, RedisAssumption DEF LimitsPositive, RedisAssumption
<1>5. Numbered(s, n) = Int64(s)
  BY <1>2, <1>4, NumberedLemma
<1> DEFINE m == Int64(s) + Chain - 1
<1>6. m \in Nat /\ m <= MaxCount + Chain - 1
  BY <1>2, <1>4
<1>7. Page(n, args, ScanTable[extra], 3) = IF n <= Compact THEN n ELSE Least(n, m)
  BY <1>3, <1>5
<1> HIDE DEF m
<1>8. Least(n, m) \in Nat /\ Least(n, m) <= MaxCount + Chain - 1
  BY <1>4, <1>6, LeastOfLemma
<1> QED
  BY <1>4, <1>7, <1>8 DEF Larger

LEMMA UsageLemma ==
  ASSUME NEW args, Len(args) \in Nat, checkMemoryUsage(args) = "ok"
  PROVE  Len(args) = 1 \/ Int64(args[3]) \in 1 .. MaxElements
<1> DEFINE rest == Refuse(args[2] # "samples", "unknown_argument") ?? AtLeast(args, 3) ?? Sampled(args[3])
<1>1. (IF Len(args) = 1 THEN "ok" ELSE rest) = "ok"
  BY ChainLemma DEF checkMemoryUsage
<1>2. CASE Len(args) # 1
  <2>1. Sampled(args[3]) = "ok"
    BY <1>1, <1>2, ChainLemma
  <2> QED BY <2>1, SampledLemma
<1> QED
  BY <1>2

LEMMA RandomLemma ==
  ASSUME NEW args, Len(args) \in Nat, NEW flag, checkRandom(args, flag) = "ok"
  PROVE  Len(args) = 1 \/ Int64(args[2]) \in -MaxElements .. MaxElements
<1> DEFINE many == Refuse(Int64(args[2]) > MaxElements \/ Int64(args[2]) < -MaxElements, "too_many_elements")
           most == IF flag = "" THEN 2 ELSE 3
           flagged == May(args, 3, Refuse(args[3] # flag, "unknown_argument"))
<1>1. arityRange(args, 1, most) = "ok" /\ May(args, 2, intArg(args[2]) ?? many) = "ok"
  <2>1. checkRandom(args, flag) = (arityRange(args, 1, most) ?? May(args, 2, intArg(args[2]) ?? many) ?? flagged)
    BY DEF checkRandom
  <2> HIDE DEF many, most, flagged
  <2> QED BY <2>1, ChainLemma
<1>2. Len(args) >= 1
  <2>1. most \in Nat
    OBVIOUS
  <2> HIDE DEF most
  <2> QED BY <1>1, <2>1 DEF arityRange, Refuse
<1>3. CASE Len(args) # 1
  <2>1. intArg(args[2]) = "ok" /\ many = "ok"
    <3>0. \A n \in Nat : n >= 1 /\ n # 1 => n >= 2
      OBVIOUS
    <3>1. Len(args) >= 2
      BY <1>2, <1>3, <3>0
    <3> HIDE DEF many
    <3>2. (intArg(args[2]) ?? many) = "ok"
      BY <1>1, <3>1 DEF May
    <3> QED BY <3>2, ChainLemma
  <2>2. Int64(args[2]) \in Int
    BY <2>1, NumeralLemma DEF intArg, Refuse
  <2> QED BY <2>1, <2>2, LimitsPositive DEF Refuse, LimitsPositive
<1> QED
  BY <1>3

LEMMA LIndexLemma ==
  ASSUME NEW args, checkLIndex(args) = "ok"
  PROVE  Int64(args[2]) \in Int /\ Int64(args[2]) < MaxElements /\ Int64(args[2]) >= -MaxElements
<1>1. intArg(args[2]) = "ok" /\ Refuse(Int64(args[2]) >= MaxElements \/ Int64(args[2]) < -MaxElements, "traversal_too_deep") = "ok"
  BY ChainLemma DEF checkLIndex
<1>2. Int64(args[2]) \in Int
  BY <1>1, NumeralLemma DEF intArg, Refuse
<1> QED
  BY <1>1, <1>2, LimitsPositive DEF Refuse, LimitsPositive

LEMMA LRangeLemma ==
  ASSUME NEW args, checkLRange(args) = "ok"
  PROVE  Int64(args[3]) \in Nat /\ Int64(args[3]) < MaxElements
<1>1. window(args[2], args[3]) = "ok" /\ Refuse(Int64(args[3]) >= MaxElements, "traversal_too_deep") = "ok"
  BY ChainLemma DEF checkLRange
<1>2. Int64(args[3]) \in Nat
  BY <1>1, WindowLemma
<1> QED
  BY <1>1, <1>2, LimitsPositive DEF Refuse, LimitsPositive

LEMMA LPosLemma ==
  ASSUME NEW args, Len(args) \in Nat, checkLPos(args) = "ok"
  PROVE  /\ parseInt(Value(args, PosOptions, 3, "maxlen"))
         /\ Int64(Value(args, PosOptions, 3, "maxlen")) \in 1 .. MaxElements
<1>1. Required(PosOptions, args, 3, "maxlen", "missing_maxlen") = "ok"
  BY ChainLemma DEF checkLPos
<1>2. OfKind(PosOptions, "maxlen", {"maxlen"}) /\ IsTable(PosOptions)
  BY OtherTables DEF OfKind
<1>3. Options(PosOptions, args, 3).at["maxlen"] # 0
  BY <1>1, <1>2, RequiredLemma
<1> QED
  BY <1>2, <1>3, MaxlenLemma

LEMMA ZRangeByLemma ==
  ASSUME NEW args, Len(args) \in Nat, NEW scores \in BOOLEAN, checkZRangeBy(args, scores) = "ok", NEW n \in Nat
  PROVE  Limited(n, args, IF scores THEN LimitOrScores ELSE LimitOnly) \in 0 .. MaxElements
<1> DEFINE table == IF scores THEN LimitOrScores ELSE LimitOnly
<1>1. checkZRangeBy(args, scores) = (AtLeast(args, 3) ?? Required(table, args, 4, "limit", "missing_limit"))
  BY DEF checkZRangeBy
<1>2. OfKind(table, "limit", {"limit"}) /\ IsTable(table)
  BY OtherTables DEF OfKind
<1> HIDE DEF table
<1>3. Options(table, args, 4).at["limit"] # 0
  BY <1>1, <1>2, RequiredLemma, ChainLemma
<1> QED
  BY <1>2, <1>3, LimitedLemma DEF table

LEMMA XRangeLemma ==
  ASSUME NEW args, Len(args) \in Nat, checkXRange(args) = "ok"
  PROVE  /\ parseInt(Value(args, CountOnly, 4, "count"))
         /\ Int64(Value(args, CountOnly, 4, "count")) \in 1 .. MaxCount
<1>1. Required(CountOnly, args, 4, "count", "missing_count") = "ok"
  BY ChainLemma DEF checkXRange
<1>2. OfKind(CountOnly, "count", {"count", "countany"}) /\ IsTable(CountOnly)
  BY OtherTables DEF OfKind
<1>3. Options(CountOnly, args, 4).at["count"] # 0
  BY <1>1, <1>2, RequiredLemma
<1> QED
  BY <1>2, <1>3, CountedLemma

LEMMA StreamLemma ==
  ASSUME NEW args, Len(args) \in Nat, checkXInfoStream(args) = "ok"
  PROVE  Len(args) = 1 \/ (parseInt(args[4]) /\ Int64(args[4]) \in 1 .. MaxCount)
<1> DEFINE full == Refuse(args[2] # "full", "unknown_argument")
                   ?? Refuse(Len(args) = 2, "missing_count")
                   ?? Refuse(args[3] # "count", "unknown_argument")
                   ?? AtLeast(args, 4)
                   ?? countOption(args[4])
                   ?? Refuse(Len(args) > 4, "unknown_argument")
<1>1. AtLeast(args, 1) = "ok" /\ May(args, 2, full) = "ok"
  <2>1. checkXInfoStream(args) = (AtLeast(args, 1) ?? May(args, 2, full))
    BY DEF checkXInfoStream
  <2> HIDE DEF full
  <2> QED BY <2>1, ChainLemma
<1>2. Len(args) >= 1
  BY <1>1 DEF AtLeast, Refuse
<1>3. CASE Len(args) # 1
  <2>1. full = "ok"
    <3>0. \A n \in Nat : n >= 1 /\ n # 1 => n >= 2
      OBVIOUS
    <3>1. Len(args) >= 2
      BY <1>2, <1>3, <3>0
    <3> HIDE DEF full
    <3> QED BY <1>1, <3>1 DEF May
  <2>2. countOption(args[4]) = "ok"
    BY <2>1, ChainLemma
  <2> QED BY <2>2, CountOptionLemma
<1> QED
  BY <1>3

LEMMA XPendingLemma ==
  ASSUME NEW args, Len(args) \in Nat, checkXPending(args) = "ok"
  PROVE  Len(args) = 2 \/ (parseInt(args[5]) /\ Int64(args[5]) \in 1 .. MaxCount)
<1> DEFINE some == Refuse(args[3] = "idle", "traversal_too_deep")
                   ?? Refuse(Len(args) = 3, "wrong_arity")
                   ?? Refuse(Len(args) = 4, "missing_count")
                   ?? Refuse(Len(args) > 6, "unknown_argument")
                   ?? countOption(args[5])
<1>1. AtLeast(args, 2) = "ok" /\ May(args, 3, some) = "ok"
  <2>1. checkXPending(args) = (AtLeast(args, 2) ?? May(args, 3, some))
    BY DEF checkXPending
  <2> HIDE DEF some
  <2> QED BY <2>1, ChainLemma
<1>2. Len(args) >= 2
  BY <1>1 DEF AtLeast, Refuse
<1>3. CASE Len(args) # 2
  <2>1. some = "ok"
    <3>0. \A n \in Nat : n >= 2 /\ n # 2 => n >= 3
      OBVIOUS
    <3>1. Len(args) >= 3
      BY <1>2, <1>3, <3>0
    <3> HIDE DEF some
    <3> QED BY <1>1, <3>1 DEF May
  <2>2. countOption(args[5]) = "ok"
    BY <2>1, ChainLemma
  <2> QED BY <2>2, CountOptionLemma
<1> QED
  BY <1>3

LEMMA VariadicLemma ==
  ASSUME NEW args, Len(args) \in Nat, NEW prefix \in Nat, NEW least \in Nat, variadic(args, prefix, least) = "ok"
  PROVE  Len(args) - prefix \in 0 .. MaxElements
<1>1. AtLeast(args, prefix + least) = "ok" /\ Refuse(Len(args) - prefix > MaxElements, "too_many_elements") = "ok"
  BY ChainLemma DEF variadic
<1> QED
  BY <1>1, LimitsPositive DEF AtLeast, Refuse, LimitsPositive

\* The slots that an option list fills: a score or a prefix needs a limit, and a
\* rank a window.
LEMMA ZRangeLemma ==
  ASSUME NEW args, Len(args) \in Nat
  PROVE  LET at == Options(ZRangeOptions, args, 4).at
         IN /\ checkZRange(args) = "ok" =>
                 IF at["byscore"] # 0 \/ at["bylex"] # 0 THEN at["limit"] # 0 ELSE window(args[2], args[3]) = "ok"
            /\ checkZRange(args) # Allow
<1> DEFINE o == Options(ZRangeOptions, args, 4)
           given == {slot \in DOMAIN o.at : o.at[slot] # 0}
           E(x) == x.refusal ?? ZRangeMode({slot \in DOMAIN x.at : x.at[slot] # 0}, args)
           mode == ZRangeMode(given, args)
           ranked == Refuse("limit" \in given, "invalid_argument") ?? window(args[2], args[3])
           scored == Refuse("limit" \notin given, "missing_limit")
           mixed == Refuse("bylex" \in given /\ {"byscore", "withscores"} \cap given # {}, "invalid_argument")
<1>1. o.at \in Fills(ZRangeOptions) /\ o.refusal # Allow
  BY OtherTables, OptionsLemma DEF WellFilled, Fillings, OfKind
<1>2. checkZRange(args) = (AtLeast(args, 3) ?? E(o))
  <2>1. checkZRange(args) = (AtLeast(args, 3) ?? The({E(x) : x \in {o}}))
    BY Zenon DEF checkZRange
  <2> HIDE DEF E, o
  <2>2. {E(x) : x \in {o}} = {E(o)}
    OBVIOUS
  <2> QED BY <2>1, <2>2, TheLemma
<1>3. E(o) = (o.refusal ?? mode)
  OBVIOUS
<1>4. mode = (mixed ?? IF {"byscore", "bylex"} \cap given # {} THEN scored ELSE ranked)
  BY DEF ZRangeMode
<1>5. window(args[2], args[3]) # Allow
  BY ChainLemma DEF window, intArg, Refuse, Allow
<1>6. mixed # Allow /\ scored # Allow /\ ranked # Allow /\ AtLeast(args, 3) # Allow
  BY <1>5, ChainLemma DEF Refuse, AtLeast, Allow
<1>7. DOMAIN o.at = {"byscore", "bylex", "rev", "withscores", "limit"}
  BY <1>1, OtherTables DEF Fills
<1> HIDE DEF E, o, mode, mixed
<1>8. ASSUME checkZRange(args) = "ok"
      PROVE  IF o.at["byscore"] # 0 \/ o.at["bylex"] # 0 THEN o.at["limit"] # 0 ELSE window(args[2], args[3]) = "ok"
  <2>1. mode = "ok"
    BY <1>2, <1>3, <1>8, ChainLemma
  <2>2. (IF {"byscore", "bylex"} \cap given # {} THEN scored ELSE ranked) = "ok"
    <3> HIDE DEF scored, ranked, given
    <3> QED BY <1>4, <2>1, ChainLemma
  <2>3. CASE {"byscore", "bylex"} \cap given # {}
    <3>1. scored = "ok"
      <4> HIDE DEF scored, ranked, given
      <4> QED BY <2>2, <2>3
    <3>2. "limit" \in given
      <4> HIDE DEF given
      <4> QED BY <3>1 DEF Refuse
    <3>3. "byscore" \in given \/ "bylex" \in given
      BY <2>3
    <3> QED BY <3>2, <3>3
  <2>4. CASE {"byscore", "bylex"} \cap given = {}
    <3>1. ranked = "ok"
      <4> HIDE DEF scored, ranked, given
      <4> QED BY <2>2, <2>4
    <3>2. window(args[2], args[3]) = "ok"
      BY <3>1, ChainLemma
    <3>3. "byscore" \notin given /\ "bylex" \notin given
      BY <2>4
    <3> QED BY <1>7, <3>2, <3>3
  <2> QED BY <2>3, <2>4
<1>9. checkZRange(args) # Allow
  <2> HIDE DEF scored, ranked, given
  <2>1. mode # Allow
    BY <1>4, <1>6, ChainLemma
  <2> QED BY <1>1, <1>2, <1>3, <1>6, <2>1, ChainLemma
<1> QED
  BY <1>8, <1>9 DEF o

LEMMA GeoSearchLemma ==
  ASSUME NEW args, Len(args) \in Nat
  PROVE  /\ checkGeoSearch(args) = "ok" =>
              /\ parseInt(Value(args, GeoOptions, 2, "count"))
              /\ Int64(Value(args, GeoOptions, 2, "count")) \in 1 .. MaxCount
         /\ checkGeoSearch(args) # Allow
<1> DEFINE o == Options(GeoOptions, args, 2)
           E(x) == x.refusal
                   ?? Refuse(x.at["from"] = 0 \/ x.at["by"] = 0, "invalid_argument")
                   ?? Refuse(x.at["count"] = 0, "missing_count")
<1>1. o.refusal # Allow
  BY OtherTables, OptionsLemma DEF WellFilled, OfKind
<1>2. checkGeoSearch(args) = (AtLeast(args, 1) ?? E(o))
  <2>1. checkGeoSearch(args) = (AtLeast(args, 1) ?? The({E(x) : x \in {o}}))
    BY Zenon DEF checkGeoSearch
  <2> HIDE DEF E, o
  <2>2. {E(x) : x \in {o}} = {E(o)}
    OBVIOUS
  <2> QED BY <2>1, <2>2, TheLemma
<1> HIDE DEF o
<1>3. checkGeoSearch(args) # Allow
  BY <1>1, <1>2, ChainLemma DEF Refuse, AtLeast, Allow
<1>4. checkGeoSearch(args) = "ok" => o.at["count"] # 0
  BY <1>2, ChainLemma DEF Refuse
<1>5. o.at["count"] # 0 => /\ parseInt(Value(args, GeoOptions, 2, "count"))
                           /\ Int64(Value(args, GeoOptions, 2, "count")) \in 1 .. MaxCount
  BY OtherTables, CountedLemma DEF o
<1> QED
  BY <1>3, <1>4, <1>5

LEMMA ZRevRangeLemma ==
  ASSUME NEW args, checkZRevRange(args) = "ok"
  PROVE  window(args[2], args[3]) = "ok"
BY ChainLemma DEF checkZRevRange

\* A window that was checked is no wider than the cap.
LEMMA SpanLemma ==
  ASSUME NEW n \in Nat, NEW start \in Nat, NEW stop \in Nat, stop - start < MaxElements
  PROVE  Span(n, start, stop) \in 0 .. MaxElements
<1> DEFINE to == Least(stop, n - 1)
<1>1. to \in Int /\ to <= stop
  BY LeastOfLemma
<1>2. Span(n, start, stop) = IF to < start THEN 0 ELSE to - start + 1
  BY DEF Span
<1> HIDE DEF to
<1>3. MaxElements \in Nat
  BY LimitsPositive DEF LimitsPositive
<1> QED
  BY <1>1, <1>2, <1>3

-----------------------------------------------------------------------------
(* No check says what an allowed command is allowed for *)

LEMMA NeitherLemma == \A f, g : f # Allow /\ g # Allow => (f ?? g) # Allow
BY ChainLemma

\* No simple check does; nor does any other, family by family.
LEMMA SimpleChecks ==
  /\ \A c, reason : reason # Allow => Refuse(c, reason) # Allow
  /\ \A s : intArg(s) # Allow /\ countOption(s) # Allow /\ Sampled(s) # Allow /\ geoUnit(s) # Allow /\ bitUnit(s) # Allow
  /\ \A args, lo, hi : arityRange(args, lo, hi) # Allow
  /\ \A args, n : AtLeast(args, n) # Allow /\ fixed(args, n) # Allow
  /\ \A args, i, check : check # Allow => May(args, i, check) # Allow
  /\ \A start, stop : window(start, stop) # Allow
<1>1. \A c, reason : reason # Allow => Refuse(c, reason) # Allow
  BY DEF Refuse, Allow
<1>2. \A s : intArg(s) # Allow /\ geoUnit(s) # Allow /\ bitUnit(s) # Allow
  BY DEF intArg, geoUnit, bitUnit, Refuse, Allow
<1>3. \A s : countOption(s) # Allow /\ Sampled(s) # Allow
  BY <1>2, NeitherLemma DEF countOption, Sampled, Refuse, Allow
<1>4. \A args, lo, hi : arityRange(args, lo, hi) # Allow
  BY DEF arityRange, Refuse, Allow
<1>5. \A args, n : AtLeast(args, n) # Allow /\ fixed(args, n) # Allow
  BY <1>4 DEF AtLeast, fixed, Refuse, Allow
<1>6. \A args, i, check : check # Allow => May(args, i, check) # Allow
  BY DEF May, Allow
<1>7. \A start, stop : window(start, stop) # Allow
  BY <1>2, NeitherLemma DEF window, Refuse, Allow
<1> QED
  BY <1>1, <1>2, <1>3, <1>4, <1>5, <1>6, <1>7

LEMMA PlainChecks ==
  ASSUME NEW args
  PROVE  /\ \A prefix, least : variadic(args, prefix, least) # Allow
         /\ checkMemoryUsage(args) # Allow /\ checkGetRange(args) # Allow /\ checkGetBit(args) # Allow
         /\ checkBitCount(args) # Allow /\ checkBitPos(args) # Allow
         /\ \A flag : checkRandom(args, flag) # Allow
         /\ checkLIndex(args) # Allow /\ checkLRange(args) # Allow /\ checkZRank(args) # Allow
         /\ checkZRevRange(args) # Allow /\ checkXInfoStream(args) # Allow /\ checkXPending(args) # Allow
         /\ checkGeoDist(args) # Allow
<1>1. \A prefix, least : variadic(args, prefix, least) # Allow
  BY NeitherLemma, SimpleChecks DEF variadic, Refuse, Allow
<1>2. checkMemoryUsage(args) # Allow
  <2>1. (Refuse(args[2] # "samples", "unknown_argument") ?? AtLeast(args, 3) ?? Sampled(args[3])) # Allow
    BY NeitherLemma, SimpleChecks DEF Refuse, Allow
  <2> QED BY <2>1, NeitherLemma, SimpleChecks DEF checkMemoryUsage, Allow
<1>3. checkGetRange(args) # Allow /\ checkGetBit(args) # Allow
  BY NeitherLemma, SimpleChecks DEF checkGetRange, checkGetBit, Refuse, Allow
<1>4. checkBitCount(args) # Allow
  BY NeitherLemma, SimpleChecks DEF checkBitCount, Refuse, Allow
<1>5. checkBitPos(args) # Allow
  BY NeitherLemma, SimpleChecks DEF checkBitPos, Refuse, Allow
<1>6. \A flag : checkRandom(args, flag) # Allow
  <2> TAKE flag
  <2> DEFINE many == Refuse(Int64(args[2]) > MaxElements \/ Int64(args[2]) < -MaxElements, "too_many_elements")
             most == IF flag = "" THEN 2 ELSE 3
             flagged == Refuse(args[3] # flag, "unknown_argument")
  <2>1. checkRandom(args, flag) = (arityRange(args, 1, most) ?? May(args, 2, intArg(args[2]) ?? many) ?? May(args, 3, flagged))
    BY DEF checkRandom
  <2>2. many # Allow /\ flagged # Allow
    BY DEF Refuse, Allow
  <2> HIDE DEF many, most, flagged
  <2> QED BY <2>1, <2>2, NeitherLemma, SimpleChecks
<1>7. checkLIndex(args) # Allow /\ checkLRange(args) # Allow
  BY NeitherLemma, SimpleChecks DEF checkLIndex, checkLRange, Refuse, Allow
<1>8. checkZRank(args) # Allow /\ checkZRevRange(args) # Allow /\ checkGeoDist(args) # Allow
  BY NeitherLemma, SimpleChecks DEF checkZRank, checkZRevRange, checkGeoDist, Refuse, Allow
<1>9. checkXInfoStream(args) # Allow
  <2> DEFINE full == Refuse(args[2] # "full", "unknown_argument")
                     ?? Refuse(Len(args) = 2, "missing_count")
                     ?? Refuse(args[3] # "count", "unknown_argument")
                     ?? AtLeast(args, 4)
                     ?? countOption(args[4])
                     ?? Refuse(Len(args) > 4, "unknown_argument")
  <2>1. full # Allow
    BY NeitherLemma, SimpleChecks DEF Refuse, Allow
  <2>2. checkXInfoStream(args) = (AtLeast(args, 1) ?? May(args, 2, full))
    BY DEF checkXInfoStream
  <2> HIDE DEF full
  <2> QED BY <2>1, <2>2, NeitherLemma, SimpleChecks
<1>10. checkXPending(args) # Allow
  <2> DEFINE some == Refuse(args[3] = "idle", "traversal_too_deep")
                     ?? Refuse(Len(args) = 3, "wrong_arity")
                     ?? Refuse(Len(args) = 4, "missing_count")
                     ?? Refuse(Len(args) > 6, "unknown_argument")
                     ?? countOption(args[5])
  <2>1. some # Allow
    BY NeitherLemma, SimpleChecks DEF Refuse, Allow
  <2>2. checkXPending(args) = (AtLeast(args, 2) ?? May(args, 3, some))
    BY DEF checkXPending
  <2> HIDE DEF some
  <2> QED BY <2>1, <2>2, NeitherLemma, SimpleChecks
<1> QED
  BY <1>1, <1>2, <1>3, <1>4, <1>5, <1>6, <1>7, <1>8, <1>9, <1>10

LEMMA OptionChecks ==
  ASSUME NEW args, Len(args) \in Nat
  PROVE  /\ checkScan(args) # Allow
         /\ \A extra \in {"none", "novalues"} : checkKeyScan(args, extra) # Allow
         /\ checkLPos(args) # Allow /\ checkXRange(args) # Allow
         /\ \A scores \in BOOLEAN : checkZRangeBy(args, scores) # Allow
<1>1. \A options, slot, kinds, reason : \A first \in Nat : OfKind(options, slot, kinds) /\ reason # Allow =>
        Required(options, args, first, slot, reason) # Allow
  BY RequiredLemma DEF OfKind
<1>2. "missing_count" # Allow /\ "missing_limit" # Allow /\ "missing_maxlen" # Allow
  BY DEF Allow
<1>3. \A offset \in Nat, extra \in {"none", "type", "novalues"} : scanOptions(args, offset, extra) # Allow
  <2> TAKE offset \in Nat, extra \in {"none", "type", "novalues"}
  <2>1. OfKind(ScanTable[extra], "count", {"count", "countany"}) /\ offset + 1 \in Nat
    BY ScanTables
  <2> QED BY <1>1, <1>2, <2>1 DEF scanOptions
<1>4. checkScan(args) # Allow
  BY <1>3, NeitherLemma, SimpleChecks DEF checkScan, Refuse, Allow
<1>5. \A extra \in {"none", "novalues"} : checkKeyScan(args, extra) # Allow
  BY <1>3, NeitherLemma, SimpleChecks DEF checkKeyScan, Refuse, Allow
<1>6. checkLPos(args) # Allow
  BY <1>1, <1>2, OtherTables, NeitherLemma, SimpleChecks DEF checkLPos
<1>7. checkXRange(args) # Allow
  BY <1>1, <1>2, OtherTables, NeitherLemma, SimpleChecks DEF checkXRange
<1>8. \A scores \in BOOLEAN : checkZRangeBy(args, scores) # Allow
  <2> TAKE scores \in BOOLEAN
  <2> DEFINE table == IF scores THEN LimitOrScores ELSE LimitOnly
  <2>1. OfKind(table, "limit", {"limit"})
    BY OtherTables
  <2>2. checkZRangeBy(args, scores) = (AtLeast(args, 3) ?? Required(table, args, 4, "limit", "missing_limit"))
    BY DEF checkZRangeBy
  <2> HIDE DEF table
  <2> QED BY <1>1, <1>2, <2>1, <2>2, NeitherLemma, SimpleChecks
<1> QED
  BY <1>4, <1>5, <1>6, <1>7, <1>8

\* The commands of the allowlist.
Names == Commands \cup {"encoding", "groups", "usage", "stream"}

LEMMA CheckLemma ==
  ASSUME NEW name \in Names, NEW args, Len(args) \in Nat
  PROVE  Check(name, args) # Allow
<1>1. CASE name \in {"get", "type", "pttl", "strlen", "hlen", "llen", "scard", "zcard", "xlen", "encoding", "groups"}
  BY <1>1, SimpleChecks DEF Check
<1>2. CASE name \in {"dbsize", "hget", "zcount"}
  BY <1>2, SimpleChecks DEF Check
<1>3. CASE name \in {"mget", "hmget", "geopos"}
  BY <1>3, PlainChecks DEF Check
<1>4. CASE name = "usage"
  BY <1>4, PlainChecks DEF Check
<1>5. CASE name = "scan"
  BY <1>5, OptionChecks DEF Check
<1>6. CASE name = "hscan"
  BY <1>6, OptionChecks DEF Check
<1>7. CASE name = "zscan"
  BY <1>7, OptionChecks DEF Check
<1>8. CASE name \in {"getrange", "getbit", "bitcount", "bitpos"}
  BY <1>8, PlainChecks DEF Check
<1>9. CASE name \in {"hrandfield", "srandmember"}
  BY <1>9, PlainChecks DEF Check
<1>10. CASE name \in {"lindex", "lrange", "zrank", "zrevrange", "stream", "xpending", "geodist"}
  BY <1>10, PlainChecks DEF Check
<1>11. CASE name = "lpos"
  BY <1>11, OptionChecks DEF Check
<1>12. CASE name = "xrange"
  BY <1>12, OptionChecks DEF Check
<1>13. CASE name = "zrange"
  BY <1>13, ZRangeLemma DEF Check
<1>14. CASE name = "zrangebyscore"
  BY <1>14, OptionChecks DEF Check
<1>15. CASE name = "zrangebylex"
  BY <1>15, OptionChecks DEF Check
<1>16. CASE name = "geosearch"
  BY <1>16, GeoSearchLemma DEF Check
<1> QED
  BY <1>1, <1>2, <1>3, <1>4, <1>5, <1>6, <1>7, <1>8, <1>9, <1>10, <1>11, <1>12, <1>13, <1>14, <1>15, <1>16
     DEF Names, Commands

\* An argv that the gate allows is of a command whose check it passes.
LEMMA AllowsLemma ==
  ASSUME NEW argv, IsSeq(argv), Allows(argv)
  PROVE  Command(argv) \in Names /\ Len(Args(argv)) \in Nat /\ Check(Command(argv), Args(argv)) = "ok"
<1> DEFINE contained == Refuse(Len(argv) < 2, "missing_subcommand")
                        ?? Refuse(argv[2] \notin Containers[argv[1]], "unknown_subcommand")
                        ?? Check(argv[2], Rest(argv, 2))
           listed == CASE argv[1] \in DOMAIN Containers ->
                            Refuse(Len(argv) < 2, "missing_subcommand")
                            ?? Refuse(argv[2] \notin Containers[argv[1]], "unknown_subcommand")
                            ?? Check(argv[2], Rest(argv, 2))
                       [] argv[1] \in Commands -> Check(argv[1], Rest(argv, 1))
                       [] argv[1] \in UnboundedCommands -> "unbounded_command"
                       [] argv[1] \in ForbiddenCommands -> "forbidden_command"
                       [] OTHER -> "unknown_command"
           empty == Refuse(argv = <<>>, "empty_command")
           long == Refuse(Len(argv) > MaxArgs, "too_many_arguments")
           big == Refuse(TotalSize(argv) > MaxBytes, "command_too_large")
<1>1. (empty ?? long ?? big ?? listed ?? "bounded_read") = Allow
  BY DEF Allows, Decide, Allow
<1>2. empty # Allow /\ long # Allow /\ big # Allow
  BY SimpleChecks DEF Allow, Refuse
<1>3. listed \in {"ok", Allow} /\ empty = "ok"
  <2> HIDE DEF listed, empty, long, big
  <2>1. (empty ?? long ?? big ?? listed) \in {"ok", Allow}
    BY <1>1, FirstLemma DEF Allow
  <2>3. (empty ?? long) # Allow /\ (empty ?? long ?? big) # Allow
    BY <1>2, FirstLemma
  <2>4. (empty ?? long ?? big) = "ok" /\ listed \in {"ok", Allow}
    BY <2>1, <2>3, FirstLemma
  <2> QED BY <2>4, ChainLemma
<1>4. argv \in Seq(Range(argv)) /\ Len(argv) \in Nat /\ argv # <<>> /\ Len(argv) >= 1
  <2>1. argv # <<>>
    BY <1>3 DEF Refuse
  <2> QED BY <2>1 DEF IsSeq
<1>5. Commands \subseteq Names /\ \A c \in DOMAIN Containers : Containers[c] \subseteq Names
  BY DEF Names, Containers
<1>6. CASE argv[1] \in DOMAIN Containers
  <2>1. listed = contained
    <3> HIDE DEF contained
    <3>1. listed = CASE argv[1] \in DOMAIN Containers -> contained
                     [] argv[1] \in Commands -> Check(argv[1], Rest(argv, 1))
                     [] argv[1] \in UnboundedCommands -> "unbounded_command"
                     [] argv[1] \in ForbiddenCommands -> "forbidden_command"
                     [] OTHER -> "unknown_command"
      BY DEF contained
    <3>2. argv[1] \notin Commands /\ argv[1] \notin UnboundedCommands /\ argv[1] \notin ForbiddenCommands
      BY <1>6 DEF Containers, Commands, UnboundedCommands, ForbiddenCommands
    <3> QED BY <1>6, <3>1, <3>2
  <2>2. Command(argv) = argv[2] /\ Args(argv) = Rest(argv, 2)
    BY <1>6 DEF Command, Args
  <2>3. Refuse(Len(argv) < 2, "missing_subcommand") # Allow /\ Refuse(argv[2] \notin Containers[argv[1]], "unknown_subcommand") # Allow
    BY DEF Refuse, Allow
  <2> DEFINE a == Refuse(Len(argv) < 2, "missing_subcommand")
             b == Refuse(argv[2] \notin Containers[argv[1]], "unknown_subcommand")
             c == Check(argv[2], Rest(argv, 2))
  <2>4. a = "ok" /\ b = "ok" /\ c \in {"ok", Allow}
    <3>1. ((a ?? b) ?? c) \in {"ok", Allow}
      BY <1>3, <2>1
    <3> HIDE DEF a, b, c, listed, contained
    <3>2. a # Allow /\ b # Allow
      BY <2>3 DEF a, b
    <3>3. (a ?? b) # Allow
      BY <3>2, FirstLemma
    <3>4. (a ?? b) = "ok" /\ c \in {"ok", Allow}
      BY <3>1, <3>3, FirstLemma
    <3> QED BY <3>4, ChainLemma
  <2>5. Len(argv) >= 2 /\ argv[2] \in Names
    BY <1>4, <1>5, <1>6, <2>4 DEF Refuse
  <2>6. Len(Rest(argv, 2)) \in Nat
    BY <1>4, <2>5, SubSeqProperties DEF Rest
  <2> QED
    BY <2>2, <2>4, <2>5, <2>6, CheckLemma
<1>7. CASE argv[1] \in Commands
  <2>1. argv[1] \notin DOMAIN Containers /\ argv[1] \notin UnboundedCommands /\ argv[1] \notin ForbiddenCommands
    BY <1>7 DEF Containers, Commands, UnboundedCommands, ForbiddenCommands
  <2>2. listed = Check(argv[1], Rest(argv, 1))
    <3> HIDE DEF contained
    <3> QED BY <1>7, <2>1
  <2>3. Command(argv) = argv[1] /\ Args(argv) = Rest(argv, 1)
    BY <2>1 DEF Command, Args
  <2>4. Len(Rest(argv, 1)) \in Nat
    BY <1>4, SubSeqProperties DEF Rest
  <2> QED
    BY <1>3, <1>5, <1>7, <2>2, <2>3, <2>4, CheckLemma
<1>8. CASE argv[1] \notin DOMAIN Containers /\ argv[1] \notin Commands
  <2>1. listed \in {"unbounded_command", "forbidden_command", "unknown_command"}
    BY <1>8
  <2> QED BY <1>3, <2>1 DEF Allow
<1> QED
  BY <1>6, <1>7, <1>8

\* The most elements that a reply is let have, and a page.
Bound == Larger(Cap, Compact)
Wider == Larger(Cap + Chain - 1, Compact)

LEMMA BoundLemma ==
  /\ Bound \in Nat /\ MaxElements \in Nat /\ MaxCount \in Nat /\ Compact \in Nat
  /\ 1 <= Bound /\ MaxElements <= Bound /\ MaxCount <= Bound /\ Compact <= Bound
  /\ Cap \in Nat /\ Cap <= Bound /\ MaxElements <= Cap /\ MaxCount <= Cap
  /\ Bound <= Wider /\ Larger(MaxCount + Chain - 1, Compact) <= Wider /\ Wider \in Nat
BY LimitsPositive, RedisAssumption DEF LimitsPositive, RedisAssumption, Bound, Wider, Cap, Larger

\* At most as many as a limit, when the value holds n.
LEMMA UpToLemma ==
  ASSUME NEW n \in Nat, NEW m \in Nat, m <= Bound
  PROVE  Least(n, m) \in 0 .. Bound
<1>1. Bound \in Nat
  BY BoundLemma
<1> QED
  BY <1>1, LeastOfLemma

\* Whatever a value holds, Redis replies with no more of it than the limits say to
\* any argv that the gate allows.
LEMMA RepliedLemma ==
  ASSUME NEW argv, IsSeq(argv), Allows(argv), NEW n \in Nat
  PROVE  Replied(argv, n) \in 0 .. (IF Command(argv) \in {"hscan", "zscan"} THEN Wider ELSE Bound)
<1> DEFINE a == Args(argv)
           name == Command(argv)
           V == Replied(argv, n)
<1>1. name \in Names /\ Len(a) \in Nat /\ Check(name, a) = "ok"
  BY AllowsLemma
<1>2. 1 \in 0 .. Bound /\ 0 .. MaxElements \subseteq 0 .. Bound /\ Bound \in Nat
  BY BoundLemma
<1>3. \A m \in 1 .. MaxElements : Least(n, m) \in 0 .. Bound
  <2> TAKE m \in 1 .. MaxElements
  <2>1. m \in Nat /\ m <= Bound
    BY BoundLemma
  <2> QED BY <2>1, UpToLemma
<1>4. \A m \in 1 .. MaxCount : Least(n, m) \in 0 .. Bound
  <2> TAKE m \in 1 .. MaxCount
  <2>1. m \in Nat /\ m <= Bound
    BY BoundLemma
  <2> QED BY <2>1, UpToLemma
<1>5. \A s : parseInt(s) /\ Int64(s) \in 1 .. MaxCount => Least(n, Numbered(s, n)) \in 0 .. Bound
  BY <1>4, NumberedLemma
<1>6. \A s : parseInt(s) /\ Int64(s) \in 1 .. MaxElements => Least(n, Numbered(s, n)) \in 0 .. Bound
  BY <1>3, NumberedLemma
<1>7. ASSUME name = "mget" PROVE V \in 0 .. Bound
  <2>1. V = Len(a) /\ variadic(a, 0, 1) = "ok"
    BY <1>1, <1>7 DEF Replied, Check
  <2>2. Len(a) - 0 \in 0 .. MaxElements
    BY <1>1, <2>1, VariadicLemma
  <2> QED BY <1>1, <1>2, <2>1, <2>2
<1>8. ASSUME name \in {"hmget", "geopos"} PROVE V \in 0 .. Bound
  <2>1. V = Len(a) - 1 /\ \E least \in Nat : variadic(a, 1, least) = "ok"
    BY <1>1, <1>8 DEF Replied, Check
  <2>2. Len(a) - 1 \in 0 .. MaxElements
    BY <1>1, <2>1, VariadicLemma
  <2> QED BY <1>2, <2>1, <2>2
<1>10. ASSUME name \in {"hscan", "zscan"} PROVE V \in 0 .. Wider
  <2>1. PICK extra \in {"none", "novalues"} : V = Page(n, a, ScanTable[extra], 3) /\ checkKeyScan(a, extra) = "ok"
    BY <1>1, <1>10 DEF Replied, Check
  <2> DEFINE page == Page(n, a, ScanTable[extra], 3)
  <2>2. page \in Nat /\ page <= Larger(MaxCount + Chain - 1, Compact)
    BY <1>1, <2>1, KeyScanLemma
  <2>3. V = page
    BY <2>1
  <2>4. Larger(MaxCount + Chain - 1, Compact) \in Int
    BY LimitsPositive, RedisAssumption DEF LimitsPositive, RedisAssumption, Larger
  <2> HIDE DEF page, V
  <2> QED BY <2>2, <2>3, <2>4, BoundLemma
<1>11. ASSUME name \in {"hrandfield", "srandmember"} PROVE V \in 0 .. Bound
  <2>1. \E flag : checkRandom(a, flag) = "ok"
    BY <1>1, <1>11 DEF Check
  <2>2. V = IF Len(a) = 1 THEN Least(n, 1)
            ELSE IF Int64(a[2]) < 0 THEN (IF n = 0 THEN 0 ELSE Absolute(Int64(a[2]))) ELSE Least(n, Int64(a[2]))
    BY <1>11 DEF Replied
  <2>3. Len(a) = 1 \/ Int64(a[2]) \in -MaxElements .. MaxElements
    BY <1>1, <2>1, RandomLemma
  <2> DEFINE m == Int64(a[2])
  <2> HIDE DEF a
  <2>4. CASE Len(a) = 1
    BY BoundLemma, UpToLemma, <2>2, <2>4
  <2>5. CASE Len(a) # 1
    <3>1. m \in Int /\ -MaxElements <= m /\ m <= MaxElements
      BY BoundLemma, <2>3, <2>5
    <3> HIDE DEF m
    <3>2. m < 0 => Absolute(m) \in 0 .. Bound
      BY <3>1, BoundLemma DEF Absolute
    <3>3. ~(m < 0) => Least(n, m) \in 0 .. Bound
      <4>1. ~(m < 0) => m \in Nat /\ m <= Bound
        BY <3>1, BoundLemma
      <4> QED BY <4>1, UpToLemma
    <3>4. V = IF m < 0 THEN (IF n = 0 THEN 0 ELSE Absolute(m)) ELSE Least(n, m)
      BY <2>2, <2>5 DEF m
    <3>5. 0 \in 0 .. Bound
      BY BoundLemma
    <3> QED BY <3>2, <3>3, <3>4, <3>5
  <2> QED BY <2>4, <2>5
<1>13. ASSUME name = "lrange" PROVE V \in 0 .. Bound
  <2> DEFINE m == Int64(a[3])
  <2>1. m \in Nat /\ m < MaxElements
    BY <1>1, <1>13, LRangeLemma DEF Check
  <2>2. V = IF m < 0 THEN n ELSE Least(n, m + 1)
    BY <1>13 DEF Replied
  <2> HIDE DEF a, m
  <2>3. m + 1 \in Nat /\ m + 1 <= Bound /\ ~(m < 0)
    BY <2>1, BoundLemma
  <2> QED BY <2>2, <2>3, UpToLemma
<1>14. ASSUME name = "lpos" PROVE V \in 0 .. Bound
  <2>1. V = Least(n, Numbered(Value(a, PosOptions, 3, "maxlen"), n)) /\ checkLPos(a) = "ok"
    BY <1>1, <1>14 DEF Replied, Check
  <2>2. parseInt(Value(a, PosOptions, 3, "maxlen")) /\ Int64(Value(a, PosOptions, 3, "maxlen")) \in 1 .. MaxElements
    BY <1>1, <2>1, LPosLemma
  <2> HIDE DEF a
  <2> QED BY <1>6, <2>1, <2>2
<1>15. ASSUME name = "zrange" PROVE V \in 0 .. Bound
  <2> DEFINE at == Options(ZRangeOptions, a, 4).at
  <2>1. checkZRange(a) = "ok"
    BY <1>1, <1>15 DEF Check
  <2>2. V = IF \E s \in {at} : s["byscore"] # 0 \/ s["bylex"] # 0
            THEN Limited(n, a, ZRangeOptions) ELSE Span(n, Int64(a[2]), Int64(a[3]))
    BY <1>15, Zenon DEF Replied
  <2>3. V = IF at["byscore"] # 0 \/ at["bylex"] # 0
            THEN Limited(n, a, ZRangeOptions) ELSE Span(n, Int64(a[2]), Int64(a[3]))
    <3> HIDE DEF at, a
    <3> QED BY <2>2
  <2>4. IF at["byscore"] # 0 \/ at["bylex"] # 0 THEN at["limit"] # 0 ELSE window(a[2], a[3]) = "ok"
    BY <1>1, <2>1, ZRangeLemma
  <2>5. CASE at["byscore"] # 0 \/ at["bylex"] # 0
    <3>1. at["limit"] # 0
      <4> HIDE DEF at, a
      <4> QED BY <2>4, <2>5
    <3>2. Limited(n, a, ZRangeOptions) \in 0 .. MaxElements
      BY <1>1, <3>1, OtherTables, LimitedLemma
    <3> HIDE DEF at, a
    <3> QED BY <1>2, <2>3, <2>5, <3>2
  <2>6. CASE at["byscore"] = 0 /\ at["bylex"] = 0 /\ window(a[2], a[3]) = "ok"
    <3> HIDE DEF at, a
    <3>1. Span(n, Int64(a[2]), Int64(a[3])) \in 0 .. MaxElements
      BY <2>6, WindowLemma, SpanLemma
    <3> QED BY <1>2, <2>3, <2>6, <3>1
  <2> QED
    <3> HIDE DEF at, a
    <3> QED BY <2>4, <2>5, <2>6
<1>16. ASSUME name = "zrangebyscore" PROVE V \in 0 .. Bound
  <2>1. V = Limited(n, a, LimitOrScores) /\ checkZRangeBy(a, TRUE) = "ok"
    BY <1>1, <1>16 DEF Replied, Check
  <2>2. Limited(n, a, IF TRUE THEN LimitOrScores ELSE LimitOnly) \in 0 .. MaxElements
    BY <1>1, <2>1, ZRangeByLemma
  <2> HIDE DEF a
  <2> QED BY <1>2, <2>1, <2>2
<1>17. ASSUME name = "zrangebylex" PROVE V \in 0 .. Bound
  <2>1. V = Limited(n, a, LimitOnly) /\ checkZRangeBy(a, FALSE) = "ok"
    BY <1>1, <1>17 DEF Replied, Check
  <2>2. Limited(n, a, IF FALSE THEN LimitOrScores ELSE LimitOnly) \in 0 .. MaxElements
    BY <1>1, <2>1, ZRangeByLemma
  <2> HIDE DEF a
  <2> QED BY <1>2, <2>1, <2>2
<1>18. ASSUME name = "zrevrange" PROVE V \in 0 .. Bound
  <2>1. V = Span(n, Int64(a[2]), Int64(a[3])) /\ checkZRevRange(a) = "ok"
    BY <1>1, <1>18 DEF Replied, Check
  <2> HIDE DEF a
  <2>2. Span(n, Int64(a[2]), Int64(a[3])) \in 0 .. MaxElements
    BY <2>1, ZRevRangeLemma, WindowLemma, SpanLemma
  <2> QED BY <1>2, <2>1, <2>2
<1>19. ASSUME name = "xrange" PROVE V \in 0 .. Bound
  <2>1. V = Least(n, Numbered(Value(a, CountOnly, 4, "count"), n)) /\ checkXRange(a) = "ok"
    BY <1>1, <1>19 DEF Replied, Check
  <2>2. parseInt(Value(a, CountOnly, 4, "count")) /\ Int64(Value(a, CountOnly, 4, "count")) \in 1 .. MaxCount
    BY <1>1, <2>1, XRangeLemma
  <2> HIDE DEF a
  <2> QED BY <1>5, <2>1, <2>2
<1>20. ASSUME name = "stream" PROVE V \in 0 .. Bound
  <2>1. V = (IF Len(a) = 1 THEN 1 ELSE Least(n, Numbered(a[4], n))) /\ checkXInfoStream(a) = "ok"
    BY <1>1, <1>20 DEF Replied, Check
  <2>2. Len(a) = 1 \/ (parseInt(a[4]) /\ Int64(a[4]) \in 1 .. MaxCount)
    BY <1>1, <2>1, StreamLemma
  <2> HIDE DEF a
  <2> QED BY <1>2, <1>5, <2>1, <2>2
<1>21. ASSUME name = "xpending" PROVE V \in 0 .. Bound
  <2>1. V = (IF Len(a) = 2 THEN 1 ELSE Least(n, Numbered(a[5], n))) /\ checkXPending(a) = "ok"
    BY <1>1, <1>21 DEF Replied, Check
  <2>2. Len(a) = 2 \/ (parseInt(a[5]) /\ Int64(a[5]) \in 1 .. MaxCount)
    BY <1>1, <2>1, XPendingLemma
  <2> HIDE DEF a
  <2> QED BY <1>2, <1>5, <2>1, <2>2
<1>22. ASSUME name = "geosearch" PROVE V \in 0 .. Bound
  <2>1. V = Least(n, Numbered(Value(a, GeoOptions, 2, "count"), n)) /\ checkGeoSearch(a) = "ok"
    BY <1>1, <1>22 DEF Replied, Check
  <2>2. parseInt(Value(a, GeoOptions, 2, "count")) /\ Int64(Value(a, GeoOptions, 2, "count")) \in 1 .. MaxCount
    BY <1>1, <2>1, GeoSearchLemma
  <2> HIDE DEF a
  <2> QED BY <1>5, <2>1, <2>2
<1>23. ASSUME name \notin {"mget", "hmget", "geopos", "hscan", "zscan", "hrandfield", "srandmember", "lrange",
                         "lpos", "zrange", "zrangebyscore", "zrangebylex", "zrevrange", "xrange", "stream", "xpending", "geosearch"}
       PROVE  V \in 0 .. Bound
  <2>1. V = 1
    BY <1>23 DEF Replied
  <2> QED BY <1>2, <2>1
<1> HIDE DEF a, name
<1>24. name \notin {"hscan", "zscan"} => V \in 0 .. Bound
  BY <1>7, <1>8, <1>11, <1>13, <1>14, <1>15, <1>16, <1>17, <1>18, <1>19, <1>20, <1>21, <1>22, <1>23
<1> QED
  BY <1>10, <1>24 DEF V, name

\* And it walks no more, three times as much for a random sample, unless it looks
\* for what is in an area.
LEMMA WalkedLemma ==
  ASSUME NEW argv, IsSeq(argv), Allows(argv), NEW n \in Nat, Command(argv) # "geosearch"
  PROVE  Walked(argv, n) <= Larger(WalkLimit(argv), Compact)
<1> DEFINE a == Args(argv)
           name == Command(argv)
           W == Walked(argv, n)
           most == Larger(WalkLimit(argv), Compact)
           page == IF name \in {"hscan", "zscan"} THEN Wider ELSE Bound
<1>1. name \in Names /\ Len(a) \in Nat /\ Check(name, a) = "ok"
  BY AllowsLemma
<1>2. Replied(argv, n) \in 0 .. page
  BY RepliedLemma
<1>3. /\ page \in Nat /\ most \in Nat /\ page <= most /\ Compact <= most /\ Compact \in Nat
      /\ name \in {"hrandfield", "srandmember"} => 3 * Cap <= most
      /\ name = "usage" => Cap <= most /\ DefaultSamples <= most
  <2>1. /\ Cap \in Nat /\ Chain \in Nat /\ Chain >= 1 /\ Compact \in Nat /\ DefaultSamples = 5
    BY BoundLemma, RedisAssumption DEF RedisAssumption, DefaultSamples
  <2> HIDE DEF name
  <2>2. WalkLimit(argv) = IF name \in {"hrandfield", "srandmember"} THEN 3 * Cap
                          ELSE IF name = "usage" THEN Larger(Cap, DefaultSamples)
                          ELSE IF name \in {"hscan", "zscan"} THEN Cap + Chain - 1 ELSE Cap
    BY DEF WalkLimit, PageLimit, name
  <2>3. CASE name \in {"hrandfield", "srandmember"}
    BY <2>1, <2>2, <2>3 DEF Larger, Bound, Wider
  <2>4. CASE name = "usage"
    BY <2>1, <2>2, <2>4 DEF Larger, Bound, Wider
  <2>5. CASE name \notin {"hrandfield", "srandmember", "usage"}
    BY <2>1, <2>2, <2>5 DEF Larger, Bound, Wider
  <2> QED
    BY <2>3, <2>4, <2>5
<1> HIDE DEF page, most
<1>4. CASE n <= Compact
  <2>1. W = Larger(n, Replied(argv, n))
    BY <1>4 DEF Walked
  <2> HIDE DEF W
  <2> QED BY <1>2, <1>3, <1>4, <2>1 DEF Larger, most, W
<1>5. CASE ~(n <= Compact) /\ name = "usage"
  <2> DEFINE m == IF Len(a) = 1 THEN DefaultSamples ELSE IF Int64(a[3]) = 0 THEN n ELSE Int64(a[3])
  <2>1. Len(a) = 1 \/ Int64(a[3]) \in 1 .. MaxElements
    <3>1. checkMemoryUsage(a) = "ok"
      BY <1>1, <1>5 DEF Check
    <3> QED BY <1>1, <3>1, UsageLemma
  <2>2. W = Least(n, m)
    BY <1>5 DEF Walked
  <2> HIDE DEF W, name, a
  <2>3. m \in Nat /\ m <= most
    BY <1>3, <1>5, <2>1, BoundLemma DEF DefaultSamples
  <2> HIDE DEF m
  <2>4. W \in Int /\ W <= m
    BY <2>2, <2>3, LeastOfLemma
  <2>5. W <= most
    BY <1>3, <2>3, <2>4
  <2> QED BY <2>5 DEF most, W
<1>6. CASE ~(n <= Compact) /\ name = "lindex"
  <2> DEFINE m == Int64(a[2])
             d == IF m < 0 THEN Absolute(m) ELSE m + 1
  <2>1. m \in Int /\ m < MaxElements /\ m >= -MaxElements
    BY <1>1, <1>6, LIndexLemma DEF Check
  <2>2. W = Least(n, d)
    BY <1>6 DEF Walked
  <2>3. page = Bound
    BY <1>6 DEF page
  <2> HIDE DEF a, m, W
  <2>4. d \in Nat /\ d <= most
    BY <1>3, <2>1, <2>3, BoundLemma DEF Absolute
  <2> HIDE DEF d
  <2>5. W \in Int /\ W <= d
    BY <2>2, <2>4, LeastOfLemma
  <2>6. W <= most
    BY <1>3, <2>4, <2>5
  <2> QED BY <2>6 DEF most, W
<1>7. CASE ~(n <= Compact) /\ name \in {"hrandfield", "srandmember"} /\ Len(a) = 2 /\ Int64(a[2]) > 0
  <2> DEFINE m == Int64(a[2])
  <2>1. m \in -MaxElements .. MaxElements
    <3>1. \E flag : checkRandom(a, flag) = "ok"
      BY <1>1, <1>7 DEF Check
    <3> QED BY <1>1, <1>7, <3>1, RandomLemma
  <2>2. W = Least(n, 3 * m)
    BY <1>7 DEF Walked
  <2>3. m > 0
    BY <1>7
  <2> HIDE DEF m, W
  <2>4. 3 * m \in Nat /\ 3 * m <= most
    BY <1>3, <1>7, <2>1, <2>3, BoundLemma
  <2>5. W \in Int /\ W <= 3 * m
    BY <2>2, <2>4, LeastOfLemma
  <2>6. W <= most
    BY <1>3, <2>4, <2>5
  <2> QED BY <2>6 DEF most, W
<1>8. CASE /\ ~(n <= Compact) /\ name \notin {"usage", "lindex"}
           /\ ~(name \in {"hrandfield", "srandmember"} /\ Len(a) = 2 /\ Int64(a[2]) > 0)
  <2>1. W = Replied(argv, n)
    BY <1>8, Zenon DEF Walked
  <2>2. W <= most
    BY <1>2, <1>3, <2>1
  <2> QED BY <2>2 DEF most, W
<1> QED
  BY <1>4, <1>5, <1>6, <1>7, <1>8

\* What groups and consumers add is a line and MaxCount entries for each of them.
LEMMA AttachedLemma ==
  ASSUME NEW argv, IsSeq(argv), Allows(argv), NEW g \in Nat
  PROVE  Attached(argv, g) \in 0 .. g * (1 + MaxCount)
<1> DEFINE a == Args(argv)
           name == Command(argv)
           A == Attached(argv, g)
<1>1. name \in Names /\ Len(a) \in Nat /\ Check(name, a) = "ok"
  BY AllowsLemma
<1>2. MaxCount \in Nat
  BY BoundLemma
<1>3. \A m \in 0 .. MaxCount : g * (1 + m) \in 0 .. g * (1 + MaxCount)
  <2> TAKE m \in 0 .. MaxCount
  <2>1. PICK d \in Nat : MaxCount = m + d
    <3>1. MaxCount - m \in Nat /\ MaxCount = m + (MaxCount - m)
      BY <1>2
    <3> QED BY <3>1
  <2>2. g * (1 + MaxCount) = g * (1 + m) + g * d
    BY <2>1
  <2>3. g * d \in Nat /\ g * (1 + m) \in Nat
    BY <2>1
  <2> QED BY <2>2, <2>3
<1>4. g \in 0 .. g * (1 + MaxCount) /\ 0 \in 0 .. g * (1 + MaxCount)
  <2>1. g * (1 + 0) = g /\ 0 \in 0 .. MaxCount
    BY <1>2
  <2>2. g \in 0 .. g * (1 + MaxCount)
    BY <1>3, <2>1
  <2>3. g * (1 + MaxCount) \in Nat
    BY <1>2
  <2> QED BY <2>2, <2>3
<1>5. CASE name = "stream" /\ Len(a) > 1
  <2>1. checkXInfoStream(a) = "ok"
    BY <1>1, <1>5 DEF Check
  <2>2. Int64(a[4]) \in 0 .. MaxCount
    <3>1. Len(a) = 1 \/ Int64(a[4]) \in 1 .. MaxCount
      BY <1>1, <2>1, StreamLemma
    <3> HIDE DEF a, name
    <3>2. Len(a) # 1
      <4>1. \A m \in Nat : m > 1 => m # 1
        OBVIOUS
      <4> QED BY <1>1, <1>5, <4>1, Zenon
    <3>3. Int64(a[4]) \in 1 .. MaxCount
      BY <3>1, <3>2
    <3> QED BY <1>2, <3>3
  <2>3. A = g * (1 + Int64(a[4]))
    BY <1>5 DEF Attached
  <2> HIDE DEF A, a
  <2> QED BY <1>3, <2>2, <2>3 DEF A
<1>6. CASE ~(name = "stream" /\ Len(a) > 1)
  <2>1. A = g \/ A = 0
    BY <1>6 DEF Attached
  <2> HIDE DEF A
  <2> QED BY <1>4, <2>1 DEF A
<1> QED
  BY <1>5, <1>6

\* SCAN starts at a slot.
LEMMA CursorLemma ==
  ASSUME NEW argv, IsSeq(argv), Allows(argv), Command(argv) = "scan"
  PROVE  Cursor(argv) \in 0 .. LastBucket
<1> DEFINE s == Args(argv)[1]
<1>1. checkScan(Args(argv)) = "ok"
  BY AllowsLemma DEF Check
<1>2. validCursor(s)
  BY <1>1, ChainLemma DEF checkScan, Refuse
<1>3. LastBucket \in Nat
  BY RedisAssumption DEF RedisAssumption
<1>4. parseInt(s) => Int64(s) \in Nat
  <2>1. \A t \in {"padded", "huge"} : ~parseInt(t)
    BY DEF parseInt, Numeral
  <2> HIDE DEF s
  <2> QED BY <1>2, <2>1, NumeralLemma DEF validCursor
<1> QED
  BY <1>3, <1>4 DEF Cursor

-----------------------------------------------------------------------------
(* What Redis replies with *)

\* The strings, numbers and nil of a reply.
LEMMA WordsLemma ==
  /\ \A n \in Int : R!Number(n) \in R!WholeLeaf
  /\ R!Nil \in R!WholeLeaf
  /\ \A n \in Nat : \A w \in Words : (w = "wide" => n % 2 = 0) => R!String(n, w) \in R!WholeLeaf
<1>1. ASSUME NEW type \in {"integer", "nil"}, NEW n \in Int PROVE R!Value(type, n, R!Unnamed, <<>>) \in R!WholeLeaf
  <2> DEFINE leaf == R!Value(type, n, R!Unnamed, <<>>)
  <2>1. leaf \in R!Leaf
    BY DEF R!Value, R!Leaf
  <2>2. leaf.word = R!Unnamed /\ R!Unnamed # "wide"
    BY DEF R!Value, R!Unnamed
  <2> QED
    BY <2>1, <2>2 DEF R!WholeLeaf
<1>2. R!Nil \in R!WholeLeaf /\ \A n \in Int : R!Number(n) \in R!WholeLeaf
  BY <1>1 DEF R!Nil, R!Number
<1>3. ASSUME NEW n \in Nat, NEW w \in Words, w = "wide" => n % 2 = 0 PROVE R!String(n, w) \in R!WholeLeaf
  BY <1>3 DEF R!String, R!Value, R!WholeLeaf, R!Leaf
<1> QED
  BY <1>2, <1>3

\* The one-byte words: a cursor, a type, "none" of a key that is absent.
LEMMA TokensLemma ==
  ASSUME NEW w \in {"none"} \cup AnyType \cup DOMAIN Numeral
  PROVE  R!String(1, w) \in R!WholeLeaf
<1>1. w # "wide" /\ w \in Words
  BY DEF AnyType, Numeral, Words
<1> QED
  BY <1>1, WordsLemma

LEMMA ArraysLemma ==
  ASSUME NEW S, NEW s \in Seq(S)
  PROVE  R!Array(s) \in R!Over(R!WholeLeaf, S)
BY DEF R!Array, R!Value, R!Over, R!Unnamed

\* The values of three levels and of two; WholeReplies has one level more.
Three == R!Over(R!WholeLeaf, R!Over(R!WholeLeaf, R!Over(R!WholeLeaf, {})))
Two == R!Over(R!WholeLeaf, R!Over(R!WholeLeaf, {}))

LEMMA NestedLemma ==
  /\ WholeReplies = R!Over(R!WholeLeaf, Three)
  /\ R!WholeLeaf \subseteq WholeReplies /\ R!WholeLeaf \subseteq Three /\ R!WholeLeaf \subseteq Two
  /\ \A s \in Seq(Three) : R!Array(s) \in WholeReplies
  /\ \A s \in Seq(Two) : R!Array(s) \in Three
  /\ \A s \in Seq(R!WholeLeaf) : R!Array(s) \in Two /\ R!Array(s) \in Three
<1> DEFINE L == R!WholeLeaf
           One == R!Over(L, {})
<1>1. \A S : L \subseteq R!Over(L, S)
  BY DEF R!Over
<1>2. WholeReplies = R!Over(L, Three) /\ Three = R!Over(L, Two) /\ Two = R!Over(L, One)
  BY DEF WholeReplies, R!Nested, Three, Two
<1>3. \A s \in Seq(L) : s \in Seq(One) /\ s \in Seq(Two)
  BY <1>1, <1>2, SeqMonotonic
<1>4. \A s \in Seq(Three) : R!Array(s) \in WholeReplies
  BY <1>2, ArraysLemma
<1>5. \A s \in Seq(Two) : R!Array(s) \in Three
  BY <1>2, ArraysLemma
<1>6. \A s \in Seq(One) : R!Array(s) \in Two
  BY <1>2, ArraysLemma
<1> QED
  BY <1>1, <1>2, <1>3, <1>4, <1>5, <1>6

\* One entry of an aggregate, and all of them.
LEMMA EntryLemma ==
  ASSUME NEW argv, NEW e, NEW w, R!String(e, w) \in R!WholeLeaf
  PROVE  /\ Entry(argv, e, w) \in Seq(Three)
         /\ Command(argv) \in {"hscan", "zscan"} => Entry(argv, e, w) \in Seq(R!WholeLeaf)
<1> DEFINE s == R!String(e, w)
<1>1. R!Number(1) \in R!WholeLeaf /\ R!Nil \in R!WholeLeaf
  BY WordsLemma
<1>2. /\ <<s>> \in Seq(R!WholeLeaf) /\ <<s, s>> \in Seq(R!WholeLeaf) /\ <<s, R!Number(1)>> \in Seq(R!WholeLeaf)
      /\ <<s, s, s, s>> \in Seq(R!WholeLeaf)
  BY <1>1
<1> DEFINE pair == R!Array(<<s, s>>)
           fields == R!Array(<<s, s, s, s>>)
<1>3. pair \in Two /\ pair \in Three /\ fields \in Two /\ R!Array(<<s, R!Number(1)>>) \in Three
  BY <1>2, NestedLemma
<1>4. s \in Two /\ s \in Three /\ R!Nil \in Three
  BY <1>1, NestedLemma
<1> HIDE DEF s, pair, fields
<1>5. <<s, pair>> \in Seq(Two) /\ <<s, fields>> \in Seq(Two)
  BY <1>3, <1>4
<1>6. R!Array(<<s, pair>>) \in Three /\ R!Array(<<s, fields>>) \in Three
  BY <1>5, NestedLemma
<1>7. /\ <<s>> \in Seq(Three) /\ <<s, s>> \in Seq(Three) /\ <<R!Array(<<s, pair>>)>> \in Seq(Three)
      /\ <<R!Array(<<s, fields>>)>> \in Seq(Three)
      /\ <<R!Nil, pair>> \in Seq(Three) /\ <<R!Array(<<s, R!Number(1)>>)>> \in Seq(Three)
  BY <1>3, <1>4, <1>6
<1>8. \/ Entry(argv, e, w) = <<s, s>> \/ Entry(argv, e, w) = <<R!Array(<<s, pair>>)>>
      \/ Entry(argv, e, w) = <<R!Nil, pair>> \/ Entry(argv, e, w) = <<R!Array(<<s, R!Number(1)>>)>>
      \/ Entry(argv, e, w) = <<R!Array(<<s, fields>>)>> \/ Entry(argv, e, w) = <<s>>
  BY Zenon DEF Entry, s, pair, fields
<1>9. ASSUME Command(argv) \in {"hscan", "zscan"} PROVE Entry(argv, e, w) = <<s, s>> \/ Entry(argv, e, w) = <<s>>
  <2>1. Command(argv) \notin {"xrange", "geosearch", "geopos", "xpending"}
    BY <1>9
  <2> QED
    BY <2>1, Zenon DEF Entry, s
<1> QED
  BY <1>2, <1>7, <1>8, <1>9

LEMMA EntriesLemma ==
  ASSUME NEW argv, NEW v \in Nat, NEW e, NEW w, R!String(e, w) \in R!WholeLeaf
  PROVE  /\ Entries(argv, v, e, w) \in Seq(Three)
         /\ Command(argv) \in {"hscan", "zscan"} => Entries(argv, v, e, w) \in Seq(R!WholeLeaf)
<1> DEFINE t == Entry(argv, e, w)
           g == [x \in {1} |-> t]
           s == [j \in 1 .. v |-> 1]
           L == R!WholeLeaf
<1>1. t \in Seq(Three) /\ (Command(argv) \in {"hscan", "zscan"} => t \in Seq(L))
  BY EntryLemma
<1> HIDE DEF t, L
<1>2. Together(g, s, v) = Entries(argv, v, e, w)
  <2>1. [j \in 1 .. v |-> g[s[j]]] = [j \in 1 .. v |-> t]
    OBVIOUS
  <2> QED
    BY <2>1 DEF Together, Entries, t
<1>3. \A j \in 1 .. v : g[s[j]] = t
  OBVIOUS
<1> HIDE DEF g, s
<1>4. Together(g, s, v) \in Seq(Three)
  BY <1>1, <1>3, TogetherTyped
<1>5. t \in Seq(L) => Together(g, s, v) \in Seq(L)
  BY <1>3, TogetherTyped
<1> QED
  BY <1>1, <1>2, <1>4, <1>5 DEF L

\* What a key of a keyspace may hold.
LEMMA PossibleLemma ==
  ASSUME NEW ks \in PossibleKeyspaces, NEW argv
  PROVE  LET c == ContentOf(argv, ks)
         IN c = Absent \/ c \in [type : AnyType, len : Nat, ttl : {"none", "some"}]
<1>1. CASE NamesKey(argv)
  <2>1. Args(argv)[1] \in Keys /\ ks[Args(argv)[1]] \in Contents[Args(argv)[1]]
    BY <1>1 DEF NamesKey, PossibleKeyspaces
  <2> QED
    BY <1>1, <2>1, RedisAssumption DEF ContentOf, RedisAssumption
<1>2. CASE ~NamesKey(argv)
  BY <1>2 DEF ContentOf
<1> QED
  BY <1>1, <1>2

LEMMA ReplyLemma ==
  ASSUME NEW ks \in PossibleKeyspaces, NEW argv, Replied(argv, ContentOf(argv, ks).len) \in Nat,
         NEW groups, Attached(argv, groups) \in Nat, NEW e \in Elements
  PROVE  Reply(argv, ks, groups, e.n, e.word) \in WholeReplies
<1> DEFINE c == ContentOf(argv, ks)
           v == Replied(argv, c.len)
           g == Attached(argv, groups)
           name == Command(argv)
<1>1. c = Absent \/ c \in [type : AnyType, len : Nat, ttl : {"none", "some"}]
  BY PossibleLemma
<1>2. Reply(argv, ks, groups, e.n, e.word) = ReplyOf(argv, c, v, g, e.n, e.word)
  BY TheLemma DEF Reply
<1>3. e.n \in Nat /\ e.word \in Words /\ (e.word = "wide" => e.n % 2 = 0)
  BY RedisAssumption DEF RedisAssumption, Words
<1>4. R!String(e.n, e.word) \in R!WholeLeaf
  BY <1>3, WordsLemma
<1>5. v \in Nat /\ g \in Nat
  OBVIOUS
<1> HIDE DEF c, v, g
<1>6. c.len \in Nat /\ c.type \in {"none"} \cup AnyType
  BY <1>1 DEF Absent, Content
<1>7. R!String(1, c.type) \in R!WholeLeaf /\ R!String(1, "zero") \in R!WholeLeaf
  BY <1>6, TokensLemma, ZeroLemma
<1>8. /\ R!Number(c.len) \in R!WholeLeaf /\ R!Number(-1) \in R!WholeLeaf /\ R!Number(-2) \in R!WholeLeaf
      /\ R!Number(0) \in R!WholeLeaf /\ R!Number(1) \in R!WholeLeaf /\ R!Nil \in R!WholeLeaf
  BY <1>6, WordsLemma
<1> DEFINE all(m) == Entries(argv, m, e.n, e.word)
<1>9. \A m \in Nat : all(m) \in Seq(Three) /\ (name \in {"hscan", "zscan"} => all(m) \in Seq(R!WholeLeaf))
  BY <1>4, EntriesLemma
<1> HIDE DEF all, name
<1>10. R!Array(all(v)) \in WholeReplies /\ R!Array(all(g)) \in WholeReplies /\ R!Array(all(v + g)) \in WholeReplies
  <2>1. v + g \in Nat
    BY <1>5
  <2> QED
    BY <1>5, <1>9, <2>1, NestedLemma
<1>11. ASSUME name \in {"hscan", "zscan"} PROVE R!Array(<<R!String(1, "zero"), R!Array(all(v))>>) \in WholeReplies
  <2>1. R!Array(all(v)) \in Three /\ R!String(1, "zero") \in Three
    BY <1>5, <1>7, <1>9, <1>11, NestedLemma
  <2>2. <<R!String(1, "zero"), R!Array(all(v))>> \in Seq(Three)
    BY <2>1
  <2> QED
    BY <2>2, NestedLemma
<1>12. \/ ReplyOf(argv, c, v, g, e.n, e.word) \in R!WholeLeaf
       \/ \E m \in {v, g, v + g} : ReplyOf(argv, c, v, g, e.n, e.word) = R!Array(all(m))
       \/ /\ name \in {"hscan", "zscan"}
          /\ ReplyOf(argv, c, v, g, e.n, e.word) = R!Array(<<R!String(1, "zero"), R!Array(all(v))>>)
  BY <1>4, <1>7, <1>8, SMT DEF ReplyOf, all, name
<1> QED
  BY <1>2, <1>10, <1>11, <1>12, NestedLemma

LEMMA ScanReplyLemma ==
  ASSUME NEW ks, NEW from \in 0 .. LastBucket, NEW last \in from .. LastBucket
  PROVE  ScanReply(ks, from, last) \in WholeReplies
<1> DEFINE S == Seen(ks, from, last)
           names == SetToSeq(S)
           page == [i \in DOMAIN names |-> R!String(NameSize[names[i]], names[i])]
<1>1. IsFiniteSet(S) /\ S \subseteq Keys
  BY SlotsLemma, FS_Subset DEF Seen
<1>2. names \in [1 .. Cardinality(S) -> S] /\ Cardinality(S) \in Nat
  BY <1>1, NamesAreKeys
<1>3. \A k \in Keys : R!String(NameSize[k], k) \in R!WholeLeaf
  <2>1. \A k \in Keys : NameSize[k] \in Nat /\ k \in Words /\ k # "wide"
    BY RedisAssumption DEF RedisAssumption, Words
  <2> QED
    BY <2>1, WordsLemma
<1> HIDE DEF S, names
<1>4. page \in Seq(R!WholeLeaf)
  <2>1. DOMAIN names = 1 .. Cardinality(S) /\ \A i \in 1 .. Cardinality(S) : names[i] \in Keys
    BY <1>1, <1>2
  <2>2. page \in [1 .. Cardinality(S) -> R!WholeLeaf]
    BY <1>3, <2>1
  <2> QED
    BY <1>2, <2>2, SeqDef
<1>5. last \in 0 .. LastBucket
  BY SlotsLemma
<1>6. CursorAfter(last) \in DOMAIN Numeral
  BY <1>5, CursorAfterLemma
<1>7. R!String(1, CursorAfter(last)) \in Three /\ R!Array(page) \in Three
  BY <1>4, <1>6, TokensLemma, NestedLemma
<1>8. ScanReply(ks, from, last) = R!Array(<<R!String(1, CursorAfter(last)), R!Array(page)>>)
  BY DEF ScanReply, page, names, S
<1> HIDE DEF page
<1>9. <<R!String(1, CursorAfter(last)), R!Array(page)>> \in Seq(Three)
  BY <1>7
<1> QED
  BY <1>8, <1>9, NestedLemma

\* Whatever Redis replies to an argv that the gate admits.
LEMMA RepliesLemma ==
  ASSUME NEW ks \in PossibleKeyspaces, NEW argv, IsSeq(argv), Allows(argv)
  PROVE  RepliesTo(argv, ks) \subseteq WholeReplies
<1>1. CASE Command(argv) = "scan"
  <2>1. Cursor(argv) \in 0 .. LastBucket
    BY <1>1, CursorLemma
  <2>2. ASSUME NEW raw \in RepliesTo(argv, ks) PROVE raw \in WholeReplies
    <3>1. PICK last \in Cursor(argv) .. LastBucket : raw = ScanReply(ks, Cursor(argv), last)
      BY <1>1, <2>2 DEF RepliesTo, Stops
    <3> QED
      BY <2>1, <3>1, ScanReplyLemma
  <2> QED
    BY <2>2
<1>2. CASE Command(argv) # "scan"
  <2>1. Replied(argv, ContentOf(argv, ks).len) \in Nat
    <3>1. ContentOf(argv, ks).len \in Nat
      BY PossibleLemma DEF Absent, Content
    <3> QED BY <3>1, RepliedLemma, BoundLemma
  <2>2. \A groups \in Groups : Attached(argv, groups) \in Nat
    <3>1. Groups \subseteq Nat
      BY RedisAssumption DEF RedisAssumption
    <3> QED BY <3>1, AttachedLemma
  <2>3. RepliesTo(argv, ks) = {Reply(argv, ks, groups, e.n, e.word) : groups \in Groups, e \in Elements}
    BY <1>2 DEF RepliesTo
  <2> QED
    BY <2>1, <2>2, <2>3, ReplyLemma
<1> QED
  BY <1>1, <1>2

-----------------------------------------------------------------------------
(* What an agent is shown of a reply *)

\* The argvs of the other two tools.
Others == Argvs \cup UNION {InspectArgvs(k) : k \in Keys}

\* An argv is a sequence, whichever tool made it.
LEMMA SequenceLemma == \A S : \A s \in Seq(S) : IsSeq(s)
<1> SUFFICES ASSUME NEW S, NEW s \in Seq(S) PROVE IsSeq(s)
  OBVIOUS
<1>1. Len(s) \in Nat /\ DOMAIN s = 1 .. Len(s) /\ \A i \in 1 .. Len(s) : s[i] \in Range(s)
  BY DEF Range
<1> QED
  BY <1>1, SeqDef DEF IsSeq

LEMMA OthersLemma == \A argv \in Others : IsSeq(argv)
<1>1. \A argv \in Argvs : IsSeq(argv)
  BY ArgvsAssumption DEF ArgvsAssumption, IsSeq
<1>2. ASSUME NEW k \in Keys, NEW argv \in InspectArgvs(k) PROVE IsSeq(argv)
  <2> DEFINE S == {"type", "pttl", "object", "encoding", "memory", "usage", "samples", "one", k}
                  \cup {lengthCommands[t] : t \in DOMAIN lengthCommands}
  <2>1. /\ \A a, b \in S : <<a, b>> \in Seq(S)
        /\ \A a, b, c \in S : <<a, b, c>> \in Seq(S)
        /\ \A a, b, c, d, e \in S : <<a, b, c, d, e>> \in Seq(S)
    <3> HIDE DEF S
    <3> QED OBVIOUS
  <2>2. {"type", "pttl", "object", "encoding", "memory", "usage", "samples", "one", k} \subseteq S
    OBVIOUS
  <2>3. \A t \in DOMAIN lengthCommands : lengthCommands[t] \in S
    OBVIOUS
  <2> HIDE DEF S
  <2>4. \/ argv = <<"type", k>> \/ argv = <<"pttl", k>> \/ argv = <<"object", "encoding", k>>
        \/ argv = <<"memory", "usage", k, "samples", "one">>
        \/ \E t \in DOMAIN lengthCommands : argv = <<lengthCommands[t], k>>
    BY <1>2, Zenon DEF InspectArgvs
  <2>5. \A w \in {"type", "pttl", "object", "encoding", "memory", "usage", "samples", "one", k} : w \in S
    BY <2>2
  <2>6. <<"type", k>> \in Seq(S) /\ <<"pttl", k>> \in Seq(S) /\ <<"object", "encoding", k>> \in Seq(S)
        /\ <<"memory", "usage", k, "samples", "one">> \in Seq(S)
    BY <2>1, <2>5
  <2>7. \A t \in DOMAIN lengthCommands : <<lengthCommands[t], k>> \in Seq(S)
    BY <2>1, <2>3, <2>5
  <2>8. argv \in Seq(S)
    BY <2>4, <2>6, <2>7, Zenon
  <2> QED BY <2>8, SequenceLemma
<1> QED
  BY <1>1, <1>2 DEF Others

KeptInv ==
  /\ keyspace \in PossibleKeyspaces
  /\ call.place \in {"execute", "sent"} /\ call.tool # "scan_keys" => call.argv \in Others
  /\ call.place = "sent" => Allows(call.argv)
  /\ call.tool = "inspect_key" /\ call.place # "answered" => call.key \in Keys /\ Len(call.got) \in 0 .. 4
  /\ call.place = "replied" => call.raw \in WholeReplies
  /\ call.place # "answered" => call.truncation = "none"
  /\ KeptIsLongestPrefix /\ TextStaysText

\* The initial states, and the steps by which a call begins.
LEMMA BeginKept ==
  ASSUME NEW h, HandlerOK(h), h.truncation = "none", Begin(h), keyspace' \in PossibleKeyspaces,
         h.tool # "scan_keys" => h.argv \in Others, h.tool = "inspect_key" => h.key \in Keys /\ h.got = <<>>
  PROVE  KeptInv'
<1>1. /\ call'.place = "execute" /\ call'.truncation = "none" /\ call'.tool = h.tool /\ call'.argv = h.argv
      /\ call'.key = h.key /\ call'.got = h.got
  BY DEF Begin, HandlerOK
<1> QED
  BY <1>1, EmptyLemma DEF KeptInv, KeptIsLongestPrefix, TextStaysText

LEMMA InitKept == Init => KeptInv
<1> SUFFICES ASSUME Init PROVE KeptInv
  OBVIOUS
<1>1. call.place = "idle" /\ call.truncation = "none" /\ call.tool = "none"
  BY DEF Init, Handler
<1>2. keyspace \in PossibleKeyspaces
  BY KeyspacesAssumption DEF Init, KeyspacesAssumption
<1> QED
  BY <1>1, <1>2 DEF KeptInv, KeptIsLongestPrefix, TextStaysText

LEMMA CallsKept == ASSUME KeptInv, ExecuteCommand \/ InspectKey \/ ScanKeys PROVE KeptInv'
<1>1. keyspace' \in PossibleKeyspaces
  BY DEF KeptInv, ExecuteCommand, InspectKey, ScanKeys
<1>2. CASE ExecuteCommand
  <2>1. PICK argv \in Argvs, known \in BOOLEAN :
          Begin([Handler EXCEPT !.tool = "execute_command", !.argv = argv, !.alias = known])
    BY <1>2 DEF ExecuteCommand
  <2> DEFINE h == [Handler EXCEPT !.tool = "execute_command", !.argv = argv, !.alias = known]
  <2>2. HandlerOK(h) /\ h.truncation = "none" /\ h.tool = "execute_command" /\ h.argv \in Others
    BY EmptyLemma DEF Handler, HandlerOK, Tools, Places, Others
  <2> HIDE DEF h
  <2> QED
    BY <1>1, <2>1, <2>2, BeginKept DEF h
<1>3. CASE InspectKey
  <2>1. PICK k \in Keys : Begin([Handler EXCEPT !.tool = "inspect_key", !.key = k, !.argv = InspectArgv(k, <<>>)])
    BY <1>3 DEF InspectKey
  <2> DEFINE h == [Handler EXCEPT !.tool = "inspect_key", !.key = k, !.argv = InspectArgv(k, <<>>)]
  <2>2. InspectArgv(k, <<>>) \in InspectArgvs(k)
    BY EmptyLemma DEF InspectArgv, InspectArgvs
  <2>3. InspectArgv(k, <<>>) \in Others
    BY <2>2 DEF Others
  <2>4. /\ HandlerOK(h) /\ h.truncation = "none" /\ h.tool = "inspect_key" /\ h.argv \in Others
        /\ h.key = k /\ h.got = <<>>
    BY <2>3, EmptyLemma DEF Handler, HandlerOK, Tools, Places
  <2> HIDE DEF h
  <2> QED
    BY <1>1, <2>1, <2>4, BeginKept DEF h
<1>4. CASE ScanKeys
  <2> DEFINE h == [Handler EXCEPT !.tool = "scan_keys", !.argv = ScanArgv(agent'.cursor, agent'.count)]
  <2>1. Begin(h)
    BY <1>4 DEF ScanKeys
  <2>2. HandlerOK(h) /\ h.truncation = "none" /\ h.tool = "scan_keys"
    BY EmptyLemma DEF Handler, HandlerOK, Tools, Places
  <2> HIDE DEF h
  <2> QED
    BY <1>1, <2>1, <2>2, BeginKept
<1> QED
  BY <1>2, <1>3, <1>4

\* A step that shows the agent nothing.
LEMMA KeptFrame ==
  ASSUME KeptInv, keyspace' \in PossibleKeyspaces,
         call'.tool = call.tool, call'.key = call.key, call'.got = call.got, call'.truncation = call.truncation,
         call'.place \in {"execute", "sent"} => call.place \in {"execute", "sent"} /\ call'.argv = call.argv,
         call'.place = "sent" => Allows(call.argv),
         call'.place = "replied" => call'.raw \in WholeReplies,
         \/ call.place # "answered" /\ call'.place # "answered"
         \/ call.place # "answered" /\ call'.place = "answered" /\ call'.kind \notin {None, "internal"}
         \/ /\ call.place = "answered" /\ call'.place = "answered" /\ call'.kind = call.kind
            /\ call'.raw = call.raw /\ call'.reply = call.reply
  PROVE  KeptInv'
<1>1. CASE call.place # "answered"
  BY <1>1 DEF KeptInv, KeptIsLongestPrefix, TextStaysText
<1>2. CASE call.place = "answered" /\ call'.place = "answered"
  BY <1>2 DEF KeptInv, KeptIsLongestPrefix, TextStaysText
<1> QED
  BY <1>1, <1>2

\* An error is none of the kinds of an answer.
LEMMA FailuresKept == ASSUME RInv, KeptInv, Execute \/ Failed \/ FailedSince \/ DoFails PROVE KeptInv'
<1>1. HandlerOK(call) /\ UNCHANGED keyspace /\ keyspace' \in PossibleKeyspaces
  BY DEF RInv, CallTypeOK, Execute, Failed, FailedSince, DoFails, KeptInv
<1>2. "unknown_alias" # None /\ "refused" # None /\ "connection" # None /\ "redis_error" # None
  BY Zenon DEF None
<1>3. "deadline" # None /\ "cancelled" # None
  BY Zenon DEF None
<1>4. CASE Execute
  <2>1. ASSUME NEW kind \in {"unknown_alias", "refused"}, FailWith(kind) PROVE KeptInv'
    <3>1. /\ call'.tool = call.tool /\ call'.key = call.key /\ call'.got = call.got
          /\ call'.truncation = call.truncation /\ call'.place = "answered" /\ call'.kind = kind
      BY <1>1, <2>1 DEF HandlerOK, FailWith
    <3> QED
      BY <1>1, <1>2, <1>4, <3>1, KeptFrame DEF Execute
  <2>2. ASSUME Allows(call.argv), call' = [call EXCEPT !.place = "sent", !.late = FALSE] PROVE KeptInv'
    <3>1. /\ call'.tool = call.tool /\ call'.key = call.key /\ call'.got = call.got
          /\ call'.truncation = call.truncation /\ call'.place = "sent" /\ call'.argv = call.argv
      BY <1>1, <2>2 DEF HandlerOK
    <3> QED
      BY <1>1, <1>4, <2>2, <3>1, KeptFrame DEF Execute
  <2> QED
    BY <1>4, <2>1, <2>2 DEF Execute
<1>5. ASSUME NEW kind, kind \notin {None, "internal"}, Fails(kind), call.place \in {"failed", "classifying"} PROVE KeptInv'
  <2>1. /\ call'.tool = call.tool /\ call'.key = call.key /\ call'.got = call.got
        /\ call'.truncation = call.truncation /\ call'.place = "answered" /\ call'.kind = kind
    BY <1>1, <1>5 DEF HandlerOK, Fails, FailWith
  <2> QED
    BY <1>1, <1>5, <2>1, KeptFrame
<1>6. ASSUME call.place = "failed", call' = [call EXCEPT !.place = "classifying"] PROVE KeptInv'
  <2>1. /\ call'.tool = call.tool /\ call'.key = call.key /\ call'.got = call.got
        /\ call'.truncation = call.truncation /\ call'.place = "classifying"
    BY <1>1, <1>6 DEF HandlerOK
  <2> QED
    BY <1>1, <1>6, <2>1, KeptFrame
<1>7. CASE Failed
  <2>1. classify(call) # "internal"
    BY <1>2 DEF classify, None
  <2> QED
    BY <1>5, <1>6, <1>7, <2>1 DEF Failed
<1>8. CASE FailedSince
  BY <1>2, <1>3, <1>5, <1>8 DEF FailedSince
<1>9. CASE DoFails
  <2>1. /\ call'.tool = call.tool /\ call'.key = call.key /\ call'.got = call.got
        /\ call'.truncation = call.truncation /\ call'.place = "failed" /\ call.place # "answered"
    BY <1>1, <1>9 DEF HandlerOK, DoFails
  <2> QED
    BY <1>1, <2>1, KeptFrame
<1> QED
  BY <1>4, <1>7, <1>8, <1>9

\* A page, or the reply to an argv of another tool, is as Redis gives it.
LEMMA RedisRepliesKept == ASSUME RInv, ScanInv, KeptInv, RedisReplies PROVE KeptInv'
<1>1. HandlerOK(call) /\ call.place = "sent" /\ UNCHANGED keyspace /\ keyspace \in PossibleKeyspaces
  BY DEF RInv, CallTypeOK, RedisReplies, KeptInv
<1>2. CASE call' = [call EXCEPT !.place = "failed", !.cause = "wrongtype", !.early = call.gone]
  <2>1. /\ call'.tool = call.tool /\ call'.key = call.key /\ call'.got = call.got
        /\ call'.truncation = call.truncation /\ call'.place = "failed"
    BY <1>1, <1>2 DEF HandlerOK
  <2> QED
    BY <1>1, <2>1, KeptFrame
<1>3. ASSUME ~WrongType(call.argv, keyspace), NEW raw \in RepliesTo(call.argv, keyspace),
             call' = [call EXCEPT !.place = "replied", !.raw = raw]
      PROVE  KeptInv'
  <2>1. /\ call'.tool = call.tool /\ call'.key = call.key /\ call'.got = call.got
        /\ call'.truncation = call.truncation /\ call'.place = "replied" /\ call'.raw = raw
    BY <1>1, <1>3 DEF HandlerOK
  <2>2. CASE call.tool = "scan_keys"
    <3>1. /\ call.argv = ScanArgv(agent.cursor, agent.count)
          /\ agent.cursor \in DOMAIN Numeral /\ At(agent.cursor) \in 0 .. LastBucket
      BY <1>1, <2>2 DEF ScanInv
    <3>2. Command(call.argv) = "scan" /\ Cursor(call.argv) = At(agent.cursor)
      BY <3>1, ScanArgvLemma
    <3>3. PICK last \in At(agent.cursor) .. LastBucket : raw = ScanReply(keyspace, At(agent.cursor), last)
      BY <1>3, <3>2 DEF RepliesTo, Stops
    <3>4. raw \in WholeReplies
      BY <3>1, <3>3, ScanReplyLemma
    <3> QED
      BY <1>1, <2>1, <3>4, KeptFrame
  <2>3. CASE call.tool # "scan_keys"
    <3>1. call.argv \in Others /\ Allows(call.argv)
      BY <1>1, <2>3 DEF KeptInv
    <3>2. raw \in WholeReplies
      BY <1>1, <1>3, <3>1, OthersLemma, RepliesLemma
    <3> QED
      BY <1>1, <2>1, <3>2, KeptFrame
  <2> QED
    BY <2>2, <2>3
<1> QED
  BY <1>2, <1>3 DEF RedisReplies

\* A tool that answers shows what boundReply has kept.
LEMMA AnsweredKept ==
  ASSUME KeptInv, UNCHANGED keyspace, call.raw \in WholeReplies, NEW bounded, bounded = R!boundReply(call.raw),
         call'.place = "answered", call'.raw = call.raw,
         call'.reply = bounded.reply, call'.truncation = bounded.truncation
  PROVE  KeptInv'
<1>1. Kept(call.raw, bounded.reply, bounded.truncation) /\ Readably(call.raw, bounded.reply, bounded.truncation)
  BY BoundReplyLemma
<1>2. KeptIsLongestPrefix' /\ TextStaysText'
  BY <1>1 DEF KeptIsLongestPrefix, TextStaysText, Kept, Readably
<1> QED
  BY <1>2 DEF KeptInv

LEMMA ReceiveKept == ASSUME RInv, KeptInv, ReceiveReply \/ ReceivePage \/ ReceiveField PROVE KeptInv'
<1>1. PICK bounded : \/ ReceiveReply /\ bounded = R!boundReply(call.raw) /\ call' = Answer(bounded)
                     \/ /\ ReceivePage /\ bounded = R!boundReply(call.raw)
                        /\ (call' = Answer(bounded) \/ call' = Unreadable(bounded))
                     \/ /\ ReceiveField /\ bounded = R!boundReply(call.raw)
                        /\ \E got : /\ got = Append(call.got, bounded.reply)
                                    /\ \/ call' = Unreadable(bounded)
                                       \/ call' = [Answer(bounded) EXCEPT !.got = got]
                                       \/ /\ ~Described(got)
                                          /\ call' = [call EXCEPT !.place = "execute", !.got = got,
                                                                  !.argv = InspectArgv(call.key, got)]
  BY DEF ReceiveReply, ReceivePage, ReceiveField
<1>2. /\ HandlerOK(call) /\ call.place = "replied" /\ UNCHANGED keyspace /\ call.raw \in WholeReplies
      /\ (ReceiveField => call.tool = "inspect_key")
  BY DEF RInv, CallTypeOK, ReceiveReply, ReceivePage, ReceiveField, Receive, KeptInv
<1>3. bounded = R!boundReply(call.raw)
  BY <1>1
<1>4. ASSUME \/ call' = Answer(bounded) \/ call' = Unreadable(bounded)
             \/ \E got : call' = [Answer(bounded) EXCEPT !.got = got]
      PROVE  KeptInv'
  <2>1. /\ call'.place = "answered" /\ call'.raw = call.raw
        /\ call'.reply = bounded.reply /\ call'.truncation = bounded.truncation
    BY <1>2, <1>4 DEF HandlerOK, Answer, Unreadable
  <2> QED
    BY <1>2, <1>3, <2>1, AnsweredKept
<1>5. ASSUME ReceiveField, NEW got, got = Append(call.got, bounded.reply), ~Described(got),
             call' = [call EXCEPT !.place = "execute", !.got = got, !.argv = InspectArgv(call.key, got)]
      PROVE  KeptInv'
  <2>1. /\ call'.place = "execute" /\ call'.tool = "inspect_key" /\ call'.key = call.key /\ call'.got = got
        /\ call'.argv = InspectArgv(call.key, got) /\ call'.truncation = call.truncation
    BY <1>2, <1>5 DEF HandlerOK
  <2>2. call.key \in Keys /\ Len(call.got) \in 0 .. 4 /\ Len(got) = Len(call.got) + 1 /\ call.truncation = "none"
    BY <1>2, <1>5, AppendLemma DEF KeptInv, HandlerOK
  <2>3. Len(got) \in 1 .. 4 /\ (Len(got) = 4 => got[1].word \in DOMAIN lengthCommands)
    <3>1. ~Described(got)
      BY <1>5
    <3>2. Len(got) # 5 /\ (Len(got) = 4 => got[1].word \in DOMAIN lengthCommands)
      BY <3>1, Zenon DEF Described
    <3>3. Len(got) \in 1 .. 4
      <4>1. \A n \in 0 .. 4 : n + 1 \in 1 .. 5
        OBVIOUS
      <4>2. Len(call.got) + 1 \in 1 .. 5
        BY <2>2, <4>1, Zenon
      <4>3. Len(got) \in 1 .. 5
        BY <2>2, <4>2, Zenon
      <4>4. \A n \in 1 .. 5 : n # 5 => n \in 1 .. 4
        OBVIOUS
      <4> QED
        BY <3>2, <4>3, <4>4, Zenon
    <3> QED
      BY <3>2, <3>3, Zenon
  <2>4. InspectArgv(call.key, got) \in InspectArgvs(call.key)
    <3>1. CASE Len(got) = 1
      BY <3>1 DEF InspectArgv, InspectArgvs
    <3>2. CASE Len(got) = 2
      BY <3>2 DEF InspectArgv, InspectArgvs
    <3>3. CASE Len(got) = 3
      BY <3>3 DEF InspectArgv, InspectArgvs
    <3>4. CASE Len(got) = 4
      <4>1. InspectArgv(call.key, got) = <<lengthCommands[got[1].word], call.key>>
        BY <3>4 DEF InspectArgv
      <4> QED
        BY <2>3, <3>4, <4>1, Zenon DEF InspectArgvs
    <3> QED
      BY <2>3, <3>1, <3>2, <3>3, <3>4
  <2>5. call'.argv \in Others
    BY <2>1, <2>2, <2>4 DEF Others
  <2>6. Len(got) \in 0 .. 4
    BY <2>3
  <2> QED
    BY <1>2, <2>1, <2>2, <2>5, <2>6 DEF KeptInv, KeptIsLongestPrefix, TextStaysText
<1> QED
  BY <1>1, <1>4, <1>5

\* The caller, the timer and the other clients change nothing of it.
LEMMA SurroundingsKept == ASSUME RInv, KeptInv, HangUp \/ DeadlinePasses \/ Write PROVE KeptInv'
<1>1. HandlerOK(call) /\ CallTypeOK
  BY DEF RInv, CallTypeOK
<1>2. /\ call'.tool = call.tool /\ call'.key = call.key /\ call'.got = call.got
      /\ call'.truncation = call.truncation /\ call'.place = call.place /\ call'.argv = call.argv
      /\ call'.raw = call.raw /\ call'.reply = call.reply /\ call'.kind = call.kind
  BY <1>1 DEF HangUp, DeadlinePasses, Write, HandlerOK
<1>3. keyspace' \in PossibleKeyspaces
  <2>1. CASE HangUp \/ DeadlinePasses
    BY <2>1 DEF HangUp, DeadlinePasses, KeptInv
  <2>2. CASE Write
    <3>1. PICK k \in Keys : \E c \in Contents[k] : keyspace' = [keyspace EXCEPT ![k] = c]
      BY <2>2 DEF Write
    <3>2. PICK c \in Contents[k] : keyspace' = [keyspace EXCEPT ![k] = c]
      BY <3>1
    <3>3. keyspace \in [Keys -> UNION {Contents[j] : j \in Keys}] /\ \A j \in Keys : keyspace[j] \in Contents[j]
      BY DEF KeptInv, PossibleKeyspaces
    <3>4. c \in UNION {Contents[j] : j \in Keys}
      OBVIOUS
    <3> DEFINE U == UNION {Contents[j] : j \in Keys}
    <3> HIDE DEF U
    <3>5. keyspace' \in [Keys -> U] /\ \A j \in Keys : keyspace'[j] \in Contents[j]
      BY <3>2, <3>3, <3>4 DEF U
    <3> QED
      BY <3>5 DEF PossibleKeyspaces, U
  <2> QED
    BY <2>1, <2>2
<1> QED
  BY <1>2, <1>3, KeptFrame DEF KeptInv

LEMMA NextKept == RInv /\ ScanInv /\ KeptInv /\ [Next]_vars => KeptInv'
<1> SUFFICES ASSUME RInv, ScanInv, KeptInv, [Next]_vars PROVE KeptInv'
  OBVIOUS
<1>1. CASE UNCHANGED vars \/ Finished
  BY <1>1 DEF vars, Finished, KeptInv, KeptIsLongestPrefix, TextStaysText
<1>2. CASE ExecuteCommand \/ InspectKey \/ ScanKeys
  BY <1>2, CallsKept
<1>3. CASE Execute \/ Failed \/ FailedSince \/ DoFails
  BY <1>3, FailuresKept
<1>4. CASE RedisReplies
  BY <1>4, RedisRepliesKept
<1>5. CASE ReceiveReply \/ ReceivePage \/ ReceiveField
  BY <1>5, ReceiveKept
<1>6. CASE HangUp \/ DeadlinePasses \/ Write
  BY <1>6, SurroundingsKept
<1> QED
  BY <1>1, <1>2, <1>3, <1>4, <1>5, <1>6 DEF Next

\* The three invariants hold together: a page that is called whole is whole.
LEMMA NextTogether == RInv /\ ScanInv /\ KeptInv /\ [Next]_vars => RInv' /\ ScanInv' /\ KeptInv'
<1> SUFFICES ASSUME RInv, ScanInv, KeptInv, [Next]_vars PROVE RInv' /\ ScanInv' /\ KeptInv'
  OBVIOUS
<1>1. RInv' /\ KeptInv'
  BY NextRecord, NextKept
<1>2. KeptIsLongestPrefix' => WholeIsWhole'
  BY DEF KeptIsLongestPrefix, WholeIsWhole
<1> QED
  BY <1>1, <1>2, NextScan DEF KeptInv

\* The gate bounds what Redis does for an argv, not what the agent asks for: of a
\* value of any length, it replies with no more elements to an argv that the gate
\* allows than MaxElements or MaxCount, or than a compact value or the last step of
\* a cursor holds, and walks no more, three times over for a random sample, unless
\* it searches an area; and of each group and consumer it shows no more than
\* MaxCount entries (rules.go).
THEOREM VisitsAreBounded ==
  ASSUME NEW argv, IsSeq(argv), Allows(argv), NEW n \in Nat, NEW g \in Nat
  PROVE  /\ Replied(argv, n) <= Larger(PageLimit(argv), Compact)
         /\ Command(argv) # "geosearch" => Walked(argv, n) <= Larger(WalkLimit(argv), Compact)
         /\ Attached(argv, g) <= g * (1 + MaxCount)
<1>1. Replied(argv, n) <= Larger(PageLimit(argv), Compact)
  <2>1. Replied(argv, n) \in 0 .. (IF Command(argv) \in {"hscan", "zscan"} THEN Wider ELSE Bound)
    BY RepliedLemma
  <2> QED
    BY <2>1, BoundLemma DEF PageLimit, Bound, Wider
<1>2. Attached(argv, g) \in 0 .. g * (1 + MaxCount)
  BY AttachedLemma
<1>3. Attached(argv, g) <= g * (1 + MaxCount)
  BY <1>2
<1> QED
  BY <1>1, <1>3, WalkedLemma

\* The argv of a page, which scan_keys makes, counts as one element.
LEMMA ScanVisits ==
  ASSUME NEW argv, Command(argv) = "scan", NEW n \in Nat, NEW g \in Nat
  PROVE  /\ Replied(argv, n) <= Larger(PageLimit(argv), Compact)
         /\ Walked(argv, n) <= Larger(WalkLimit(argv), Compact)
         /\ Attached(argv, g) <= g * (1 + MaxCount)
<1>1. Replied(argv, n) = 1 /\ Attached(argv, g) = 0 /\ PageLimit(argv) = Cap /\ WalkLimit(argv) = Cap
  BY DEF Replied, Attached, PageLimit, WalkLimit
<1>2. Walked(argv, n) = IF n <= Compact THEN Larger(n, 1) ELSE 1
  BY <1>1 DEF Walked
<1>3. Cap \in Nat /\ Cap >= 1 /\ Compact \in Nat /\ MaxCount \in Nat
  BY BoundLemma, LimitsPositive DEF LimitsPositive
<1>4. 0 <= g * (1 + MaxCount)
  BY <1>3
<1>5. Walked(argv, n) <= Larger(Cap, Compact) /\ 1 <= Larger(Cap, Compact)
  BY <1>2, <1>3 DEF Larger
<1> QED
  BY <1>1, <1>4, <1>5

\* Whichever tool sent it, the command that is on its way is bounded, however much
\* the value that it is for holds (rules.go, Gate.Validate before Do).
THEOREM AdmissionsAreBounded == Spec => []AdmittedIsBounded
<1>1. RInv /\ ScanInv /\ KeptInv => AdmittedIsBounded
  <2> SUFFICES ASSUME RInv, ScanInv, KeptInv, call.place = "sent", NEW n \in Nat, NEW g \in Nat
               PROVE  /\ Replied(call.argv, n) <= Larger(PageLimit(call.argv), Compact)
                      /\ Command(call.argv) # "geosearch" => Walked(call.argv, n) <= Larger(WalkLimit(call.argv), Compact)
                      /\ Attached(call.argv, g) <= g * (1 + MaxCount)
    <3>1. Groups \subseteq Nat /\ 0 .. 3 * Cap + DefaultSamples + Chain \subseteq Nat /\ 0 \in Nat
      BY RedisAssumption DEF RedisAssumption
    <3> QED BY <3>1 DEF AdmittedIsBounded
  <2>1. CASE call.tool = "scan_keys"
    <3>1. call.argv = ScanArgv(agent.cursor, agent.count)
          /\ agent.cursor \in DOMAIN Numeral /\ At(agent.cursor) \in 0 .. LastBucket
      BY <2>1 DEF ScanInv
    <3> QED BY <3>1, ScanArgvLemma, ScanVisits
  <2>2. CASE call.tool # "scan_keys"
    <3>1. call.argv \in Others /\ Allows(call.argv)
      BY <2>2 DEF KeptInv
    <3> QED BY <3>1, OthersLemma, VisitsAreBounded
  <2> QED BY <2>1, <2>2
<1> QED
  BY <1>1, InitRecord, InitScan, InitKept, NextTogether, PTL DEF Spec

\* What an agent is shown of a reply is as much of it, from its beginning, as the
\* element cap and the byte budget allow, however deep the arrays nest, and it is
\* called whole exactly when it is (reply.go:72-103).
THEOREM RepliesAreKept == Spec => []KeptIsLongestPrefix
<1>1. KeptInv => KeptIsLongestPrefix
  BY DEF KeptInv
<1> QED
  BY <1>1, InitRecord, InitScan, InitKept, NextTogether, PTL DEF Spec

\* No cut makes base64 of a text, but one of the byte budget after one of the
\* element cap: half a rune stands only at the end of the last leaf, and encodeReply
\* drops it there if the reply is reported as cut by the byte budget (encode.go).
THEOREM TextsStayText == Spec => []TextStaysText
<1>1. KeptInv => TextStaysText
  BY DEF KeptInv
<1> QED
  BY <1>1, InitRecord, InitScan, InitKept, NextTogether, PTL DEF Spec

\* An agent that has followed scan_keys to the end has every key that existed all
\* along, for every keyspace, every page size, every budget and every order of
\* other clients' writes (tools.go:172-210).
THEOREM ScansMissNothing == Spec => []ScanMissesNothing
<1>1. ScanInv => ScanMissesNothing
  BY DEF ScanInv
<1> QED
  BY <1>1, InitRecord, InitScan, InitKept, NextTogether, PTL DEF Spec

-----------------------------------------------------------------------------
(* inspect_key *)

\* What a key may hold: nothing, or a value of one of Redis's types.
LEMMA ContentsLemma ==
  ASSUME CallTypeOK, NEW k \in Keys
  PROVE  LET c == keyspace[k]
         IN /\ c = Absent \/ c \in [type : AnyType, len : Nat, ttl : {"none", "some"}]
            /\ c.type = "none" <=> c = Absent
<1>1. keyspace[k] \in Contents[k]
  BY DEF CallTypeOK
<1>2. keyspace[k] = Absent \/ keyspace[k] \in [type : AnyType, len : Nat, ttl : {"none", "some"}]
  BY <1>1, RedisAssumption DEF RedisAssumption
<1> QED
  BY <1>2 DEF Absent, Content, AnyType

\* Every command of inspectKey names the key, and is none of the containers'.
LEMMA InspectArgvLemma ==
  ASSUME NEW k, NEW argv \in InspectArgvs(k)
  PROVE  /\ Args(argv) # <<>> /\ Args(argv)[1] = k
         /\ argv = <<"type", k>> => Command(argv) = "type"
         /\ argv = <<"pttl", k>> => Command(argv) = "pttl"
         /\ argv = <<"object", "encoding", k>> => Command(argv) = "encoding"
         /\ argv = <<"memory", "usage", k, "samples", "one">> => Command(argv) = "usage"
         /\ \A t \in DOMAIN lengthCommands : argv = <<lengthCommands[t], k>> => Command(argv) = lengthCommands[t]
<1>1. \A t \in DOMAIN lengthCommands : lengthCommands[t] \in {"strlen", "hlen", "llen", "scard", "zcard", "xlen"}
  BY DEF lengthCommands
<1>2. ASSUME NEW name \in {"type", "pttl", "strlen", "hlen", "llen", "scard", "zcard", "xlen"}, argv = <<name, k>>
      PROVE  Command(argv) = name /\ Args(argv) # <<>> /\ Args(argv)[1] = k
  <2>1. argv \in Seq({name, k}) /\ Len(argv) = 2 /\ argv[1] = name /\ argv[2] = k
    BY <1>2
  <2>2. argv[1] \notin DOMAIN Containers
    BY <1>2, <2>1 DEF Containers
  <2>3. Args(argv) = SubSeq(argv, 2, 2)
    BY <2>1, <2>2 DEF Args, Rest
  <2>4. Len(Args(argv)) = 1 /\ Args(argv)[1] = k
    BY <2>1, <2>3, SubSeqProperties
  <2> QED
    BY <2>1, <2>2, <2>4 DEF Command
<1>3. ASSUME argv = <<"object", "encoding", k>>
      PROVE  Command(argv) = "encoding" /\ Args(argv) # <<>> /\ Args(argv)[1] = k
  <2>1. argv \in Seq({"object", "encoding", k}) /\ Len(argv) = 3 /\ argv[1] = "object" /\ argv[2] = "encoding" /\ argv[3] = k
    BY <1>3
  <2>2. argv[1] \in DOMAIN Containers
    BY <2>1 DEF Containers
  <2>3. Args(argv) = SubSeq(argv, 3, 3)
    BY <2>1, <2>2 DEF Args, Rest
  <2>4. Len(Args(argv)) = 1 /\ Args(argv)[1] = k
    BY <2>1, <2>3, SubSeqProperties
  <2> QED
    BY <2>1, <2>2, <2>4 DEF Command
<1>4. ASSUME argv = <<"memory", "usage", k, "samples", "one">>
      PROVE  Command(argv) = "usage" /\ Args(argv) # <<>> /\ Args(argv)[1] = k
  <2>1. /\ argv \in Seq({"memory", "usage", k, "samples", "one"}) /\ Len(argv) = 5
        /\ argv[1] = "memory" /\ argv[2] = "usage" /\ argv[3] = k
    BY <1>4
  <2>2. argv[1] \in DOMAIN Containers
    BY <2>1 DEF Containers
  <2>3. Args(argv) = SubSeq(argv, 3, 5)
    BY <2>1, <2>2 DEF Args, Rest
  <2>4. Len(Args(argv)) = 3 /\ Args(argv)[1] = k
    BY <2>1, <2>3, SubSeqProperties
  <2> QED
    BY <2>1, <2>2, <2>4 DEF Command
<1>5. \/ argv = <<"type", k>> \/ argv = <<"pttl", k>> \/ argv = <<"object", "encoding", k>>
      \/ argv = <<"memory", "usage", k, "samples", "one">>
      \/ \E t \in DOMAIN lengthCommands : argv = <<lengthCommands[t], k>>
  BY Zenon DEF InspectArgvs
<1>6. Args(argv) # <<>> /\ Args(argv)[1] = k
  BY <1>1, <1>2, <1>3, <1>4, <1>5
<1> QED
  BY <1>1, <1>2, <1>3, <1>4, <1>6

\* The command that inspectKey sends next is one of them.
LEMMA NextCommandLemma ==
  ASSUME CallTypeOK, NEW k \in Keys, NEW got, Gathered(keyspace[k], got)
  PROVE  LET argv == InspectArgv(k, got)
         IN /\ argv \in InspectArgvs(k)
            /\ Len(got) = 0 => argv = <<"type", k>>
            /\ Len(got) = 1 => argv = <<"pttl", k>>
            /\ Len(got) = 2 => argv = <<"object", "encoding", k>>
            /\ Len(got) = 3 => argv = <<"memory", "usage", k, "samples", "one">>
            /\ Len(got) = 4 => /\ keyspace[k].type \in DOMAIN lengthCommands
                               /\ argv = <<lengthCommands[keyspace[k].type], k>>
<1>1. Len(got) = 4 => keyspace[k].type \in DOMAIN lengthCommands /\ got[1].word = keyspace[k].type
  BY ContentsLemma DEF Gathered, lengthCommands, AnyType
<1>2. Len(got) \in 0 .. 4
  BY DEF Gathered
<1>3. /\ Len(got) = 0 => InspectArgv(k, got) = <<"type", k>>
      /\ Len(got) = 1 => InspectArgv(k, got) = <<"pttl", k>>
      /\ Len(got) = 2 => InspectArgv(k, got) = <<"object", "encoding", k>>
      /\ Len(got) = 3 => InspectArgv(k, got) = <<"memory", "usage", k, "samples", "one">>
      /\ Len(got) = 4 => InspectArgv(k, got) = <<lengthCommands[keyspace[k].type], k>>
  <2>1. Len(got) = 0 => InspectArgv(k, got) = <<"type", k>>
    BY DEF InspectArgv
  <2>2. Len(got) = 1 => InspectArgv(k, got) = <<"pttl", k>>
    BY DEF InspectArgv
  <2>3. Len(got) = 2 => InspectArgv(k, got) = <<"object", "encoding", k>>
    BY DEF InspectArgv
  <2>4. Len(got) = 3 => InspectArgv(k, got) = <<"memory", "usage", k, "samples", "one">>
    BY DEF InspectArgv
  <2>5. Len(got) = 4 => InspectArgv(k, got) = <<lengthCommands[got[1].word], k>>
    BY DEF InspectArgv
  <2> QED
    BY <1>1, <2>1, <2>2, <2>3, <2>4, <2>5
<1>4. Len(got) = 0 \/ Len(got) = 1 \/ Len(got) = 2 \/ Len(got) = 3 \/ Len(got) = 4
  BY <1>2
<1>5. InspectArgv(k, got) \in InspectArgvs(k)
  BY <1>1, <1>3, <1>4, Zenon DEF InspectArgvs
<1> QED
  BY <1>1, <1>3, <1>5

\* Redis's reply to it is the field of the content that the key has, and never
\* the error of a wrong type.
LEMMA FieldLemma ==
  ASSUME CallTypeOK, NEW k \in Keys, NEW got, Gathered(keyspace[k], got)
  PROVE  /\ \A raw \in RepliesTo(InspectArgv(k, got), keyspace) : raw = FieldOf(keyspace[k], Len(got) + 1)
         /\ ~WrongType(InspectArgv(k, got), keyspace)
<1> DEFINE argv == InspectArgv(k, got)
           c == keyspace[k]
<1>1. argv \in InspectArgvs(k)
  BY NextCommandLemma
<1>2. NamesKey(argv) /\ ContentOf(argv, keyspace) = c
  BY <1>1, InspectArgvLemma DEF NamesKey, ContentOf
<1>3. \A g, e, w : Reply(argv, keyspace, g, e, w) = ReplyOf(argv, c, Replied(argv, c.len), Attached(argv, g), e, w)
  BY <1>2, TheLemma DEF Reply
<1>4. WrongType(argv, keyspace) <=> c # Absent /\ c.type \notin TypesOf(Command(argv))
  BY <1>1, <1>2, InspectArgvLemma DEF WrongType
<1>5. c = Absent \/ c \in [type : AnyType, len : Nat, ttl : {"none", "some"}]
  BY ContentsLemma
<1>6. Len(got) \in 0 .. 4 /\ (Len(got) > 0 => c # Absent)
  BY DEF Gathered
<1>7. ASSUME Command(argv) # "scan", c # Absent => c.type \in TypesOf(Command(argv)),
             \A v, g, e, w : ReplyOf(argv, c, v, g, e, w) = FieldOf(c, Len(got) + 1)
      PROVE  /\ \A raw \in RepliesTo(argv, keyspace) : raw = FieldOf(c, Len(got) + 1)
             /\ ~WrongType(argv, keyspace)
  <2> HIDE DEF argv, c
  <2> QED
    BY <1>3, <1>4, <1>7 DEF RepliesTo
<1>8. CASE Len(got) = 0
  <2>1. Command(argv) = "type"
    BY <1>1, <1>8, NextCommandLemma, InspectArgvLemma
  <2> HIDE DEF argv, c
  <2>2. \A v, g, e, w : ReplyOf(argv, c, v, g, e, w) = FieldOf(c, Len(got) + 1)
    BY <1>8, <2>1 DEF ReplyOf, FieldOf
  <2>3. TypesOf("type") = AnyType
    BY DEF TypesOf
  <2> QED
    BY <1>5, <1>7, <2>1, <2>2, <2>3 DEF argv, c
<1>9. CASE Len(got) = 1
  <2>1. Command(argv) = "pttl"
    BY <1>1, <1>9, NextCommandLemma, InspectArgvLemma
  <2> HIDE DEF argv, c
  <2>2. c.ttl # "gone"
    BY <1>5, <1>6, <1>9
  <2>3. \A v, g, e, w : ReplyOf(argv, c, v, g, e, w) = FieldOf(c, Len(got) + 1)
    BY <1>9, <2>1, <2>2 DEF ReplyOf, FieldOf, TimeToLive
  <2>4. TypesOf("pttl") = AnyType
    BY DEF TypesOf
  <2> QED
    BY <1>5, <1>7, <2>1, <2>3, <2>4 DEF argv, c
<1>10. CASE Len(got) = 2
  <2>1. Command(argv) = "encoding"
    BY <1>1, <1>10, NextCommandLemma, InspectArgvLemma
  <2> HIDE DEF argv, c
  <2>2. \A v, g, e, w : ReplyOf(argv, c, v, g, e, w) = FieldOf(c, Len(got) + 1)
    BY <1>6, <1>10, <2>1 DEF ReplyOf, FieldOf
  <2>3. TypesOf("encoding") = AnyType
    BY DEF TypesOf
  <2> QED
    BY <1>5, <1>7, <2>1, <2>2, <2>3 DEF argv, c
<1>11. CASE Len(got) = 3
  <2>1. Command(argv) = "usage"
    BY <1>1, <1>11, NextCommandLemma, InspectArgvLemma
  <2> HIDE DEF argv, c
  <2>2. \A v, g, e, w : ReplyOf(argv, c, v, g, e, w) = FieldOf(c, Len(got) + 1)
    BY <1>6, <1>11, <2>1 DEF ReplyOf, FieldOf
  <2>3. TypesOf("usage") = AnyType
    BY DEF TypesOf
  <2> QED
    BY <1>5, <1>7, <2>1, <2>2, <2>3 DEF argv, c
<1>12. CASE Len(got) = 4
  <2>1. c.type \in DOMAIN lengthCommands /\ Command(argv) = lengthCommands[c.type]
    BY <1>1, <1>12, NextCommandLemma, InspectArgvLemma
  <2> HIDE DEF argv, c
  <2>2. /\ lengthCommands[c.type] \in {"strlen", "hlen", "llen", "scard", "zcard", "xlen"}
        /\ c.type \in TypesOf(lengthCommands[c.type])
    BY <2>1 DEF lengthCommands, TypesOf
  <2>3. \A v, g, e, w : ReplyOf(argv, c, v, g, e, w) = FieldOf(c, Len(got) + 1)
    BY <1>12, <2>1, <2>2 DEF ReplyOf, FieldOf
  <2>4. Command(argv) # "scan"
    BY <2>1, <2>2
  <2> QED
    BY <1>7, <2>1, <2>2, <2>3, <2>4 DEF argv, c
<1> QED
  BY <1>6, <1>8, <1>9, <1>10, <1>11, <1>12

\* A field fits every budget: boundReply keeps it whole.
LEMMA FieldKeptLemma ==
  ASSUME NEW c, NEW n
  PROVE  R!boundReply(FieldOf(c, n)) = [reply |-> FieldOf(c, n), truncation |-> "none"]
<1> DEFINE v == FieldOf(c, n)
<1>1. \/ v.type = "string" /\ v.n = 1
      \/ v.type \notin {"string", "array"}
  BY DEF FieldOf, R!String, R!Number, R!Value
<1> HIDE DEF v
<1>2. R!NoBounds = [remaining |-> ByteBudget, truncation |-> "none", exhausted |-> FALSE]
  BY DEF R!NoBounds
<1>3. ByteBudget >= 1
  BY RedisAssumption DEF RedisAssumption
<1>4. R!value(v, R!NoBounds).value = v /\ R!value(v, R!NoBounds).b.truncation = "none"
  BY <1>1, <1>2, <1>3 DEF R!value, R!leaf, R!text
<1> HIDE DEF v
<1>5. R!The({[reply |-> bounded.value, truncation |-> bounded.b.truncation] : bounded \in {R!value(v, R!NoBounds)}})
        = [reply |-> v, truncation |-> "none"]
  BY <1>4 DEF R!The
<1>6. R!boundReply(v) = [reply |-> v, truncation |-> "none"]
  BY <1>5 DEF R!boundReply
<1> QED
  BY <1>6 DEF v

\* A step that is not of this call's key: it keeps what has been read and asked.
LEMMA InspectFrame ==
  ASSUME CallTypeOK, InspectInv, call'.tool = call.tool, call'.key = call.key, agent'.state = agent.state,
         call.touched => call'.touched, ~call'.touched => keyspace'[call.key] = keyspace[call.key],
         call'.place # "idle", call'.argv = call.argv, call'.got = call.got,
         call'.kind = call.kind, call'.cause = call.cause,
         call'.place # call.place => call'.place \notin {"replied", "answered"},
         call.place = "answered" => call'.place = "answered",
         call'.raw = call.raw
  PROVE  InspectInv'
<1> SUFFICES ASSUME call.tool = "inspect_key" PROVE InspectInv'
  BY DEF InspectInv
<1>1. call.key \in Keys /\ call.place # "idle" /\ agent.state = "none"
  BY DEF InspectInv
<1>2. CASE call'.touched
  BY <1>1, <1>2 DEF InspectInv, InspectIsOfOneKey
<1>3. CASE ~call'.touched
  BY <1>1, <1>3 DEF InspectInv, InspectIsOfOneKey
<1> QED
  BY <1>2, <1>3

\* The initial states, and the calls of the other tools.
LEMMA InitInspect == Init => InspectInv
BY DEF Init, Handler, InspectInv

LEMMA OthersInspect == ASSUME InspectInv, ExecuteCommand \/ ScanKeys PROVE InspectInv'
<1>1. call'.tool \in {"execute_command", "scan_keys"}
  BY DEF ExecuteCommand, ScanKeys, Begin, Handler
<1> QED
  BY <1>1 DEF InspectInv

\* An inspection begins with nothing read.
LEMMA InspectKeyInspect == ASSUME InspectKey PROVE InspectInv'
<1>1. PICK k \in Keys : Begin([Handler EXCEPT !.tool = "inspect_key", !.key = k, !.argv = InspectArgv(k, <<>>)])
  BY DEF InspectKey
<1>2. /\ call'.key = k /\ call'.place = "execute" /\ call'.got = <<>> /\ call'.argv = InspectArgv(k, <<>>)
      /\ call'.cause = None
  BY <1>1 DEF Begin, Handler
<1>3. agent'.state = "none"
  BY DEF InspectKey
<1>4. Gathered(keyspace'[k], <<>>)
  BY EmptyLemma DEF Gathered
<1>5. None # "wrongtype"
  BY NoneLemma DEF Causes
<1> QED
  BY <1>2, <1>3, <1>4, <1>5 DEF InspectInv, InspectIsOfOneKey

\* The gate lets every command of an untouched inspection through.
LEMMA ExecuteInspect == ASSUME InspectionAdmitted, RInv, InspectInv, Execute PROVE InspectInv'
<1> SUFFICES ASSUME call.tool = "inspect_key" PROVE InspectInv'
  BY DEF Execute, FailWith, RInv, CallTypeOK, HandlerOK, InspectInv
<1>1. /\ HandlerOK(call) /\ CallTypeOK /\ call.place = "execute" /\ UNCHANGED <<keyspace, agent>>
      /\ call.key \in Keys /\ agent.state = "none"
  BY DEF RInv, CallTypeOK, Execute, InspectInv
<1>2. ASSUME call' = [call EXCEPT !.place = "sent", !.late = FALSE] PROVE InspectInv'
  <2>1. /\ call'.tool = call.tool /\ call'.key = call.key /\ call'.touched = call.touched /\ call'.place = "sent"
        /\ call'.argv = call.argv /\ call'.got = call.got /\ call'.kind = call.kind /\ call'.cause = call.cause
        /\ call'.raw = call.raw
    BY <1>1, <1>2 DEF HandlerOK
  <2> QED
    BY <1>1, <2>1, InspectFrame
<1>3. ASSUME NEW kind \in {"unknown_alias", "refused"}, FailWith(kind), kind = "refused" => ~Allows(call.argv)
      PROVE  InspectInv'
  <2>1. /\ call'.tool = call.tool /\ call'.key = call.key /\ call'.touched = call.touched
        /\ call'.place = "answered" /\ call'.kind = kind /\ call'.cause = call.cause
    BY <1>1, <1>3 DEF HandlerOK, FailWith
  <2>2. ASSUME ~call.touched PROVE kind = "unknown_alias" /\ call.cause # "wrongtype"
    <3>1. call.argv = InspectArgv(call.key, call.got) /\ Gathered(keyspace[call.key], call.got)
      BY <1>1, <2>2 DEF InspectInv
    <3>2. Allows(call.argv)
      BY <1>1, <3>1, NextCommandLemma DEF InspectionAdmitted
    <3> QED
      BY <1>1, <1>3, <2>2, <3>2 DEF InspectInv
  <2>3. "unknown_alias" # None
    BY Zenon DEF None
  <2> QED
    BY <1>1, <2>1, <2>2, <2>3 DEF InspectInv, InspectIsOfOneKey
<1>4. Decide(call.argv) # "bounded_read" => ~Allows(call.argv)
  BY DEF Allows
<1> QED
  BY <1>2, <1>3, <1>4 DEF Execute

\* Redis replies with the next field, and not with the error of a wrong type.
LEMMA RedisRepliesInspect == ASSUME RInv, InspectInv, RedisReplies PROVE InspectInv'
<1>1. /\ HandlerOK(call) /\ CallTypeOK /\ call.place = "sent" /\ UNCHANGED <<keyspace, agent>>
  BY DEF RInv, CallTypeOK, RedisReplies
<1>2. CASE WrongType(call.argv, keyspace) /\ call' = [call EXCEPT !.place = "failed", !.cause = "wrongtype", !.early = call.gone]
  <2>1. /\ call'.tool = call.tool /\ call'.key = call.key /\ call'.touched = call.touched /\ call'.place = "failed"
    BY <1>1, <1>2 DEF HandlerOK
  <2>2. ASSUME call.tool = "inspect_key" PROVE call.touched
    <3> SUFFICES ASSUME ~call.touched PROVE FALSE
      OBVIOUS
    <3>1. /\ call.key \in Keys /\ call.argv = InspectArgv(call.key, call.got)
          /\ Gathered(keyspace[call.key], call.got)
      BY <1>1, <2>2 DEF InspectInv
    <3> QED
      BY <1>1, <1>2, <3>1, FieldLemma
  <2> QED
    BY <1>1, <2>1, <2>2 DEF InspectInv, InspectIsOfOneKey
<1>3. ASSUME NEW raw \in RepliesTo(call.argv, keyspace), call' = [call EXCEPT !.place = "replied", !.raw = raw]
      PROVE  InspectInv'
  <2>1. /\ call'.tool = call.tool /\ call'.key = call.key /\ call'.touched = call.touched /\ call'.place = "replied"
        /\ call'.argv = call.argv /\ call'.got = call.got /\ call'.cause = call.cause /\ call'.raw = raw
    BY <1>1, <1>3 DEF HandlerOK
  <2>2. ASSUME call.tool = "inspect_key", ~call.touched
        PROVE  raw = FieldOf(keyspace[call.key], Len(call.got) + 1)
    <3>1. /\ call.key \in Keys /\ call.argv = InspectArgv(call.key, call.got)
          /\ Gathered(keyspace[call.key], call.got)
      BY <1>1, <2>2 DEF InspectInv
    <3> QED
      BY <1>1, <1>3, <3>1, FieldLemma
  <2> QED
    BY <1>1, <2>1, <2>2 DEF InspectInv, InspectIsOfOneKey
<1> QED
  BY <1>2, <1>3 DEF RedisReplies

\* Do fails, but not with the error of a wrong type; the tool returns the error.
LEMMA FailuresInspect == ASSUME RInv, InspectInv, DoFails \/ Failed \/ FailedSince PROVE InspectInv'
<1>1. HandlerOK(call) /\ CallTypeOK /\ UNCHANGED <<keyspace, agent>>
  BY DEF RInv, CallTypeOK, DoFails, Failed, FailedSince
<1>2. CASE DoFails
  <2>1. PICK cause \in {"cancelled", "deadline", "network", "noauth", "noperm"} :
          call.place \in {"sent", "replied"} /\ call' = [call EXCEPT !.place = "failed", !.cause = cause, !.early = call.gone]
    BY <1>2 DEF DoFails
  <2>2. /\ call'.tool = call.tool /\ call'.key = call.key /\ call'.touched = call.touched /\ call'.place = "failed"
        /\ call'.argv = call.argv /\ call'.got = call.got /\ call'.cause = cause
    BY <1>1, <2>1 DEF HandlerOK
  <2> QED
    BY <1>1, <2>1, <2>2 DEF InspectInv, InspectIsOfOneKey
<1>3. ASSUME NEW kind, kind \notin {None, "internal", "refused"}, Fails(kind), call.place \in {"failed", "classifying"}
      PROVE  InspectInv'
  <2>1. /\ call'.tool = call.tool /\ call'.key = call.key /\ call'.touched = call.touched
        /\ call'.place = "answered" /\ call'.kind = kind /\ call'.cause = call.cause
    BY <1>1, <1>3 DEF Fails, FailWith, HandlerOK
  <2> QED
    BY <1>1, <1>3, <2>1 DEF InspectInv, InspectIsOfOneKey
<1>4. ASSUME call.place = "failed", call' = [call EXCEPT !.place = "classifying"] PROVE InspectInv'
  <2>1. /\ call'.tool = call.tool /\ call'.key = call.key /\ call'.touched = call.touched /\ call'.place = "classifying"
        /\ call'.argv = call.argv /\ call'.got = call.got /\ call'.cause = call.cause
    BY <1>1, <1>4 DEF HandlerOK
  <2> QED
    BY <1>1, <1>4, <2>1 DEF InspectInv, InspectIsOfOneKey
<1>5. "deadline" # None /\ "connection" # None
  BY Zenon DEF None
<1>6. CASE Failed
  <2>1. classify(call) \notin {"internal", "refused"}
    BY DEF classify, None
  <2> QED
    BY <1>3, <1>4, <1>6, <2>1 DEF Failed
<1>7. CASE FailedSince
  BY <1>3, <1>5, <1>7 DEF FailedSince
<1> QED
  BY <1>2, <1>6, <1>7

\* A field of an untouched key can be read, and takes the inspection one further
\* or, when the key is absent or its last field is read, to its end.
LEMMA FieldReadLemma ==
  ASSUME CallTypeOK, NEW k \in Keys, NEW got, IsSeq(got), Gathered(keyspace[k], got)
  PROVE  LET c == keyspace[k]
             next == Append(got, FieldOf(c, Len(got) + 1))
         IN /\ Len(next) = Len(got) + 1 /\ Readable(Len(next), FieldOf(c, Len(got) + 1))
            /\ ~Described(next) => Gathered(c, next)
            /\ Described(next) =>
                 /\ Len(next) = 1 <=> c = Absent
                 /\ next[1].word = c.type
                 /\ c # Absent => /\ next[2].n = TimeToLive(c)
                                  /\ Len(next) = 5 => next[5].n = c.len
                                  /\ Len(next) = 5 <=> c.type # "module"
<1> DEFINE c == keyspace[k]
           f == FieldOf(c, Len(got) + 1)
           next == Append(got, f)
<1>1. c = Absent \/ c \in [type : AnyType, len : Nat, ttl : {"none", "some"}]
  BY ContentsLemma
<1>2. c.type = "none" <=> c = Absent
  BY ContentsLemma
<1>3. /\ Len(got) \in 0 .. 4
      /\ Len(got) > 0 => c # Absent /\ got[1].word = c.type
      /\ Len(got) > 1 => got[2].n = TimeToLive(c)
      /\ Len(got) = 4 => c.type # "module"
  BY DEF Gathered
<1>4. /\ Len(next) = Len(got) + 1 /\ DOMAIN got = 1 .. Len(got)
      /\ \A i \in DOMAIN got : next[i] = got[i]
      /\ next[Len(got) + 1] = f
  BY AppendLemma
<1>5. /\ Len(got) + 1 \in {1, 3} => f.type = "string" /\ f.word = c.type
      /\ Len(got) + 1 = 2 => f.type = "integer" /\ f.n = TimeToLive(c)
      /\ Len(got) + 1 \in {4, 5} => f.type = "integer" /\ f.n = c.len
  BY DEF FieldOf, R!String, R!Number, R!Value
<1>6. DOMAIN lengthCommands = AnyType \ {"module"}
  BY DEF lengthCommands, AnyType
<1> HIDE DEF c, f, next
<1>7. Readable(Len(next), f)
  BY <1>3, <1>4, <1>5 DEF Readable
<1>8. /\ next[1].word = c.type
      /\ Len(next) > 1 => next[2].n = TimeToLive(c)
      /\ Len(next) = 5 => next[5].n = c.len
  BY <1>3, <1>4, <1>5
<1>9. Described(next) <=> \/ Len(next) = 1 /\ c = Absent
                          \/ Len(next) = 4 /\ c.type \notin DOMAIN lengthCommands
                          \/ Len(next) = 5
  BY <1>2, <1>8 DEF Described
<1>10. c # Absent /\ c.type \notin DOMAIN lengthCommands => c.type = "module"
  BY <1>1, <1>6 DEF AnyType
<1>11. c.type = "module" => c.type \notin DOMAIN lengthCommands
  BY <1>6
<1>12. ASSUME ~Described(next) PROVE Gathered(c, next)
  <2>1. Len(next) \in 1 .. 4
    BY <1>3, <1>4, <1>9, <1>12
  <2>2. c # Absent
    <3>1. CASE Len(got) = 0
      BY <3>1, <1>4, <1>9, <1>12
    <3>2. CASE Len(got) > 0
      BY <3>2, <1>3
    <3> QED
      BY <3>1, <3>2, <1>3
  <2>3. Len(next) = 4 => c.type # "module"
    BY <1>9, <1>11, <1>12
  <2> QED
    BY <2>1, <2>2, <2>3, <1>8 DEF Gathered
<1>13. ASSUME Described(next)
       PROVE  /\ Len(next) = 1 <=> c = Absent
              /\ c # Absent => Len(next) > 1 /\ (Len(next) = 5 <=> c.type # "module")
  BY <1>3, <1>4, <1>9, <1>10, <1>11, <1>13
<1> QED
  BY <1>4, <1>7, <1>8, <1>12, <1>13 DEF c, f, next

LEMMA ReceiveFieldInspect == ASSUME RInv, InspectInv, ReceiveField PROVE InspectInv'
<1>1. /\ HandlerOK(call) /\ CallTypeOK /\ IsSeq(call.got) /\ call.place = "replied" /\ call.tool = "inspect_key"
      /\ UNCHANGED <<keyspace, agent>>
  BY DEF RInv, CallTypeOK, HandlerOK, ReceiveField, Receive
<1>2. call.key \in Keys /\ agent.state = "none"
  BY <1>1 DEF InspectInv
<1> DEFINE bounded == R!boundReply(call.raw)
           got == Append(call.got, bounded.reply)
<1>3. call' = IF ~Readable(Len(got), bounded.reply) THEN Unreadable(bounded)
              ELSE IF Described(got) THEN [Answer(bounded) EXCEPT !.got = got]
              ELSE [call EXCEPT !.place = "execute", !.got = got, !.argv = InspectArgv(call.key, got)]
  BY DEF ReceiveField
<1>4. /\ call'.tool = "inspect_key" /\ call'.key = call.key /\ call'.touched = call.touched
      /\ call'.place \in {"execute", "answered"}
  BY <1>1, <1>3 DEF HandlerOK, Answer, Unreadable
<1>5. CASE call.touched
  BY <1>1, <1>2, <1>4, <1>5 DEF InspectInv, InspectIsOfOneKey
<1>6. CASE ~call.touched
  <2> DEFINE c == keyspace[call.key]
  <2>1. call.raw = FieldOf(c, Len(call.got) + 1) /\ Gathered(c, call.got) /\ call.cause # "wrongtype"
    BY <1>1, <1>6 DEF InspectInv
  <2>2. bounded.reply = FieldOf(c, Len(call.got) + 1) /\ bounded.truncation = "none"
    BY <2>1, FieldKeptLemma
  <2>3. got = Append(call.got, FieldOf(c, Len(call.got) + 1))
    BY <2>2
  <2>4. /\ Readable(Len(got), bounded.reply)
        /\ ~Described(got) => Gathered(c, got)
        /\ Described(got) =>
             /\ Len(got) = 1 <=> c = Absent
             /\ got[1].word = c.type
             /\ c # Absent => /\ got[2].n = TimeToLive(c)
                              /\ Len(got) = 5 => got[5].n = c.len
                              /\ Len(got) = 5 <=> c.type # "module"
    BY <1>1, <1>2, <2>1, <2>2, <2>3, FieldReadLemma
  <2>5. call.kind = None
    BY <1>1 DEF RInv, KindInv
  <2> HIDE DEF bounded, got, c
  <2>6. CASE Described(got)
    <3>1. call' = [Answer(bounded) EXCEPT !.got = got]
      BY <1>3, <2>4, <2>6
    <3>2. call'.place = "answered" /\ call'.got = got /\ call'.kind = None /\ call'.cause = call.cause
      BY <1>1, <2>5, <3>1 DEF Answer, HandlerOK
    <3>3. InspectIsOfOneKey'
      BY <1>1, <1>4, <2>1, <2>4, <2>6, <3>2, NoneLemma DEF InspectIsOfOneKey, TimeToLive, c
    <3> QED
      BY <1>1, <1>2, <1>4, <3>2, <3>3 DEF InspectInv
  <2>7. CASE ~Described(got)
    <3>1. call' = [call EXCEPT !.place = "execute", !.got = got, !.argv = InspectArgv(call.key, got)]
      BY <1>3, <2>4, <2>7
    <3>2. /\ call'.place = "execute" /\ call'.got = got /\ call'.argv = InspectArgv(call.key, got)
          /\ call'.cause = call.cause
      BY <1>1, <3>1 DEF HandlerOK
    <3> QED
      BY <1>1, <1>2, <1>4, <2>1, <2>4, <2>7, <3>2 DEF InspectInv, InspectIsOfOneKey, c
  <2> QED
    BY <2>6, <2>7
<1> QED
  BY <1>5, <1>6

\* The answers of the other tools.
LEMMA RepliesInspect == ASSUME RInv, InspectInv, ReceiveReply \/ ReceivePage PROVE InspectInv'
<1>1. HandlerOK(call) /\ call.tool # "inspect_key"
  BY DEF RInv, CallTypeOK, ReceiveReply, ReceivePage, Receive
<1>2. call'.tool = call.tool
  BY <1>1 DEF ReceiveReply, ReceivePage, Answer, Unreadable, HandlerOK
<1> QED
  BY <1>1, <1>2 DEF InspectInv

\* A hang-up or the timer changes nothing that is read, a write to another key
\* neither; a write to the key marks the call.
LEMMA SurroundingsInspect == ASSUME RInv, InspectInv, HangUp \/ DeadlinePasses \/ Write PROVE InspectInv'
<1>1. HandlerOK(call) /\ AgentOK(agent) /\ CallTypeOK
  BY DEF RInv, CallTypeOK
<1> SUFFICES ASSUME call.tool = "inspect_key" PROVE InspectInv'
  <2>1. call'.tool = call.tool
    BY <1>1 DEF HangUp, DeadlinePasses, Write, HandlerOK
  <2> QED
    BY <2>1 DEF InspectInv
<1>2. call.place # "idle" /\ call.key \in Keys
  BY DEF InspectInv
<1>3. CASE HangUp \/ DeadlinePasses
  <2>1. /\ call'.tool = call.tool /\ call'.key = call.key /\ call'.touched = call.touched /\ call'.place = call.place
        /\ call'.argv = call.argv /\ call'.got = call.got /\ call'.kind = call.kind /\ call'.cause = call.cause
        /\ call'.raw = call.raw /\ UNCHANGED <<keyspace, agent>>
    BY <1>1, <1>3 DEF HangUp, DeadlinePasses, HandlerOK
  <2> QED
    BY <1>1, <1>2, <2>1, InspectFrame
<1>4. CASE Write
  <2>1. PICK k \in Keys : \E c \in Contents[k] :
          /\ keyspace' = [keyspace EXCEPT ![k] = c]
          /\ call' = [call EXCEPT !.touched = @ \/ k = call.key]
          /\ agent' = [agent EXCEPT !.stable = IF c = Absent THEN @ \ {k} ELSE @]
    BY <1>4 DEF Write
  <2> PICK c \in Contents[k] :
          /\ keyspace' = [keyspace EXCEPT ![k] = c]
          /\ call' = [call EXCEPT !.touched = @ \/ k = call.key]
          /\ agent' = [agent EXCEPT !.stable = IF c = Absent THEN @ \ {k} ELSE @]
    BY <2>1
  <2>2. /\ call'.tool = call.tool /\ call'.key = call.key /\ call'.place = call.place
        /\ call'.argv = call.argv /\ call'.got = call.got /\ call'.kind = call.kind /\ call'.cause = call.cause
        /\ call'.raw = call.raw /\ agent'.state = agent.state
    BY <1>1 DEF HandlerOK, AgentOK
  <2>3. call'.touched <=> call.touched \/ k = call.key
    BY <1>1 DEF HandlerOK
  <2>4. k # call.key => keyspace'[call.key] = keyspace[call.key]
    BY <1>2
  <2> QED
    BY <1>1, <1>2, <2>2, <2>3, <2>4, InspectFrame
<1> QED
  BY <1>3, <1>4

LEMMA NextInspect == InspectionAdmitted /\ RInv /\ InspectInv /\ [Next]_vars => InspectInv'
<1> SUFFICES ASSUME InspectionAdmitted, RInv, InspectInv, [Next]_vars PROVE InspectInv'
  OBVIOUS
<1>1. CASE UNCHANGED vars \/ Finished
  BY <1>1 DEF vars, Finished, InspectInv, InspectIsOfOneKey
<1>2. CASE ExecuteCommand \/ ScanKeys \/ InspectKey \/ Execute
  BY <1>2, OthersInspect, InspectKeyInspect, ExecuteInspect
<1>3. CASE RedisReplies \/ DoFails \/ Failed \/ FailedSince
  BY <1>3, RedisRepliesInspect, FailuresInspect
<1>4. CASE ReceiveField \/ ReceiveReply \/ ReceivePage
  BY <1>4, ReceiveFieldInspect, RepliesInspect
<1>5. CASE HangUp \/ DeadlinePasses \/ Write
  BY <1>5, SurroundingsInspect
<1> QED
  BY <1>1, <1>2, <1>3, <1>4, <1>5 DEF Next

\* Unless somebody wrote to the key between two of its commands, inspect_key
\* answers with the key as it is and fails on no shape and no type of a reply, for
\* every keyspace, under limits that let its commands through (tools.go:212-245).
THEOREM InspectionsAreOfOneKey ==
  ASSUME InspectionAdmitted
  PROVE  Spec => []InspectIsOfOneKey
<1>1. InspectInv => InspectIsOfOneKey
  BY DEF InspectInv, InspectIsOfOneKey
<1>2. RInv /\ InspectInv /\ [Next]_vars => InspectInv'
  BY NextInspect
<1> QED
  BY <1>1, <1>2, InitRecord, NextRecord, InitInspect, PTL DEF Spec

=============================================================================
