----------------------------- MODULE RedisCalls -----------------------------
(* One call of a tool of internal/redismcp, through internal/redisdb, on one    *)
(* Redis database that other clients write to. execute_command sends one        *)
(* command, scan_keys one SCAN, inspect_key up to five commands one after       *)
(* another. A handler keeps nothing between calls, so a behaviour is one call,  *)
(* or the calls of one agent that follows scan_keys page by page.               *)
EXTENDS RedisServer

CONSTANTS
  Argvs,        \* the argvs an agent sends to execute_command
  Initially,    \* the keyspaces a behaviour may start in
  MaxWrites     \* bound: writes of other clients

PossibleKeyspaces == {ks \in [Keys -> UNION {Contents[k] : k \in Keys}] : \A k \in Keys : ks[k] \in Contents[k]}
KeyspacesAssumption == Initially \subseteq PossibleKeyspaces
ASSUME KeyspacesAssumption

\* The length of a value, by its type.
lengthCommands == [string |-> "strlen", hash |-> "hlen", list |-> "llen", set |-> "scard",
                   zset |-> "zcard", stream |-> "xlen"]
\* Every argv of inspectKey for a key. The limits may be set so low that the gate
\* refuses one; then inspect_key works for no key.
InspectArgvs(key) ==
  {<<"type", key>>, <<"pttl", key>>, <<"object", "encoding", key>>, <<"memory", "usage", key, "samples", "one">>}
  \cup {<<lengthCommands[t], key>> : t \in DOMAIN lengthCommands}
InspectionAdmitted == \A k \in Keys : \A argv \in InspectArgvs(k) : Allows(argv)

\* Whatever an agent sends, it is a sequence of tokens.
ArgvsAssumption == \A argv \in Argvs : argv \in Seq(Range(argv))
ASSUME ArgvsAssumption

VARIABLES
  keyspace, \* [Keys -> contents]
  writes,   \* how many writes others have made
  call,     \* the handler
  events,   \* the audit events of the call
  asked,    \* how many argvs the handler has given to the executor
  sent,     \* those of them that were handed to the client
  agent     \* the scan an agent is making

vars == <<keyspace, writes, call, events, asked, sent, agent>>

None == ""

(* place: where the handler is: about to execute; in Do (sent); its reply on    *)
(* the way (replied); back with an error (failed), and with one that is neither  *)
(* of Redis nor of the caller (classifying); answered. gone: the caller has     *)
(* hung up; early (history): before Do returned. late: the command's deadline   *)
(* has passed. cause: what made Do fail. kind: the error the tool returned, None *)
(* if it did not. got: the replies of the commands of inspectKey. touched        *)
(* (history): another client wrote to the key.                                  *)
Handler == [tool |-> "none", key |-> None, alias |-> TRUE, place |-> "idle", argv |-> <<>>,
            gone |-> FALSE, early |-> FALSE, late |-> FALSE, raw |-> R!Nil, cause |-> None, kind |-> None,
            truncation |-> "none", reply |-> R!Nil, got |-> <<>>, touched |-> FALSE]

(* The agent's scan: the page it asks for next, the names it has collected; the *)
(* history variable stable holds the keys that have existed since it began.     *)
NoScan == [state |-> "none", cursor |-> "zero", count |-> MaxCount, seen |-> {}, stable |-> {}]

Init ==
  /\ keyspace \in Initially
  /\ writes = 0
  /\ call = Handler
  /\ events = <<>> /\ asked = 0 /\ sent = <<>>
  /\ agent = NoScan

Begin(handler) ==
  /\ call' = [handler EXCEPT !.place = "execute"]
  /\ events' = <<>> /\ asked' = 0 /\ sent' = <<>>

\* scanKeys: the argv of a page; Count omitted is MaxCount.
ScanArgv(cursor, count) == <<"scan", cursor, "count", Token(count)>>

\* The commands of inspectKey in their order; the last depends on the type read.
\* Mutant: the encoding is asked for before the time to live.
InspectArgvSwapped(key, got) ==
  IF Len(got) = 0 THEN <<"type", key>>
  ELSE IF Len(got) = 1 THEN <<"object", "encoding", key>>
  ELSE IF Len(got) = 2 THEN <<"pttl", key>>
  ELSE IF Len(got) = 3 THEN <<"memory", "usage", key, "samples", "one">>
  ELSE <<lengthCommands[got[1].word], key>>
InspectArgv(key, got) ==
  IF Len(got) = 0 THEN <<"type", key>>
  ELSE IF Len(got) = 1 THEN <<"pttl", key>>
  ELSE IF Len(got) = 2 THEN <<"object", "encoding", key>>
  ELSE IF Len(got) = 3 THEN <<"memory", "usage", key, "samples", "one">>
  ELSE <<lengthCommands[got[1].word], key>>
Described(got) ==
  \/ Len(got) = 1 /\ got[1].word = "none"
  \/ Len(got) = 4 /\ got[1].word \notin DOMAIN lengthCommands
  \/ Len(got) = 5

ExecuteCommand ==
  /\ call.place = "idle" /\ agent.state = "none"
  /\ \E argv \in Argvs, known \in BOOLEAN :
       Begin([Handler EXCEPT !.tool = "execute_command", !.argv = argv, !.alias = known])
  /\ UNCHANGED <<keyspace, writes, agent>>

InspectKey ==
  /\ call.place = "idle" /\ agent.state = "none"
  /\ \E k \in Keys : Begin([Handler EXCEPT !.tool = "inspect_key", !.key = k, !.argv = InspectArgv(k, <<>>)])
  /\ UNCHANGED <<keyspace, writes, agent>>

\* The agent asks for a page: the first of a scan, or the one its last answer calls for.
ScanKeys ==
  /\ \/ /\ call.place = "idle" /\ agent.state = "none"
        /\ agent' = [NoScan EXCEPT !.state = "scanning", !.stable = {k \in Keys : keyspace[k] # Absent}]
     \/ /\ call.place = "answered" /\ agent.state = "scanning"
        /\ UNCHANGED agent
  /\ Begin([Handler EXCEPT !.tool = "scan_keys", !.argv = ScanArgv(agent'.cursor, agent'.count)])
  /\ UNCHANGED <<keyspace, writes>>

Event(outcome, verdict, kind, truncated) ==
  [outcome |-> outcome, verdict |-> verdict, kind |-> kind, truncated |-> truncated]

\* The tool returns an error of this kind to the agent.
FailWith(kind) == call' = [call EXCEPT !.place = "answered", !.kind = kind]

\* Executor.Execute up to Do: the alias, the gate, the deadline.
Execute ==
  /\ call.place = "execute"
  /\ asked' = asked + 1
  /\ \/ /\ ~call.alias
        /\ events' = Append(events, Event("failed", None, "unknown_alias", FALSE))
        /\ FailWith("unknown_alias")
        /\ UNCHANGED sent
     \/ /\ call.alias
        /\ \E reason \in {Decide(call.argv)} :
             /\ reason # "bounded_read"
             /\ events' = Append(events, Event("refused", reason, "refused", FALSE))
        /\ FailWith("refused")
        /\ UNCHANGED sent
     \/ /\ call.alias /\ Allows(call.argv)
        /\ sent' = Append(sent, call.argv)
        /\ call' = [call EXCEPT !.place = "sent", !.late = FALSE]
        /\ UNCHANGED events
  /\ UNCHANGED <<keyspace, writes, agent>>

\* Redis runs the command at once, on the keyspace of that moment.
RedisReplies ==
  /\ call.place = "sent"
  /\ IF WrongType(call.argv, keyspace)
     THEN call' = [call EXCEPT !.place = "failed", !.cause = "wrongtype", !.early = call.gone]
     ELSE \E raw \in RepliesTo(call.argv, keyspace) : call' = [call EXCEPT !.place = "replied", !.raw = raw]
  /\ UNCHANGED <<keyspace, writes, events, asked, sent, agent>>

\* Do fails: the caller's context, the deadline, the network, or Redis refusing
\* the login (NOAUTH, WRONGPASS) or the command (NOPERM). Redis may have replied.
DoFails ==
  /\ call.place \in {"sent", "replied"}
  /\ \E cause \in {"cancelled", "deadline", "network", "noauth", "noperm"} :
       /\ cause = "cancelled" => call.gone
       /\ cause = "deadline" => call.late
       /\ cause \in {"noauth", "noperm"} => call.place = "sent"
       /\ call' = [call EXCEPT !.place = "failed", !.cause = cause, !.early = call.gone]
  /\ UNCHANGED <<keyspace, writes, events, asked, sent, agent>>

\* Mutant: the command's context is asked before the caller's.
classifyDeadlineFirst(c) ==
  IF c.cause = "noauth" THEN "connection"
  ELSE IF c.cause \in {"noperm", "wrongtype"} THEN "redis_error"
  ELSE IF c.late \/ c.gone THEN "deadline" ELSE None
\* classify reads the error and the caller's context, and None stands for going
\* on to the next context,
classify(c) ==
  IF c.cause = "noauth" THEN "connection"
  ELSE IF c.cause \in {"noperm", "wrongtype"} THEN "redis_error"
  ELSE IF c.gone THEN "cancelled" ELSE None
\* which is the command's: it is done when its deadline has passed, and also when
\* the caller hangs up after its own context was read.
commandDone(c) == c.late \/ c.gone

Fails(kind) ==
  /\ events' = Append(events, Event("failed", "bounded_read", kind, FALSE))
  /\ FailWith(kind)

\* Mutant: nothing is recorded for a caller who has gone.
FailedUnheard ==
  /\ call.place = "failed"
  /\ \/ classify(call) = None /\ call' = [call EXCEPT !.place = "classifying"] /\ UNCHANGED events
     \/ /\ classify(call) # None
        /\ events' = IF call.gone THEN events ELSE Append(events, Event("failed", "bounded_read", classify(call), FALSE))
        /\ FailWith(classify(call))
  /\ UNCHANGED <<keyspace, writes, asked, sent, agent>>
Failed ==
  /\ call.place = "failed"
  /\ \/ classify(call) # None /\ Fails(classify(call))
     \/ classify(call) = None /\ call' = [call EXCEPT !.place = "classifying"] /\ UNCHANGED events
  /\ UNCHANGED <<keyspace, writes, asked, sent, agent>>

\* The rest of classify: the command's context and the clock.
FailedSince ==
  /\ call.place = "classifying"
  /\ Fails(IF commandDone(call) THEN "deadline" ELSE "connection")
  /\ UNCHANGED <<keyspace, writes, asked, sent, agent>>

\* A reply arrives: it is bounded and its event is written before the tool reads it.
Receive(tool, bounded) ==
  /\ call.place = "replied" /\ call.tool = tool
  /\ bounded = R!boundReply(call.raw)
  /\ events' = Append(events, Event("allowed", "bounded_read", None, bounded.truncation # "none"))
  /\ UNCHANGED <<keyspace, writes, asked, sent>>

Answer(bounded) == [call EXCEPT !.place = "answered", !.reply = bounded.reply, !.truncation = bounded.truncation]
Unreadable(bounded) == [Answer(bounded) EXCEPT !.kind = "internal"]

ReceiveReply ==
  \E bounded \in {R!boundReply(call.raw)} :
    /\ Receive("execute_command", bounded)
    /\ call' = Answer(bounded)
    /\ UNCHANGED agent

\* Mutant: only a page cut by the byte budget is said to be truncated.
TruncatedByBytes(truncation) == truncation = "byte_budget"
\* ScanKeysResult.Truncated, and what its description tells the agent to do.
Truncated(truncation) == truncation # "none"
FollowUp(page, truncation) ==
  IF Truncated(truncation)
  THEN [agent EXCEPT !.state = IF agent.count > 1 THEN "scanning" ELSE "stuck",
                     !.count = IF @ > 1 THEN @ - 1 ELSE @]
  ELSE [agent EXCEPT !.state = IF page[1].word = "zero" THEN "done" ELSE "scanning",
                     !.cursor = page[1].word,
                     !.count = MaxCount,
                     !.seen = @ \cup {page[2].items[i].word : i \in DOMAIN page[2].items}]

\* scanKeys reads an array of a cursor and a page.
ReceivePage ==
  \E bounded \in {R!boundReply(call.raw)} :
    /\ Receive("scan_keys", bounded)
    /\ IF Len(bounded.reply.items) = 2
       THEN /\ call' = Answer(bounded)
            /\ agent' = FollowUp(bounded.reply.items, bounded.truncation)
       ELSE /\ call' = Unreadable(bounded)
            /\ UNCHANGED agent

\* textReply for the type and the encoding, integerReply for the other fields.
Readable(field, v) == IF field \in {1, 3} THEN v.type = "string" ELSE v.type \in {"nil", "integer"}

\* inspectKey reads one field, and answers or goes on to its next command.
ReceiveField ==
  \E bounded \in {R!boundReply(call.raw)} :
    /\ Receive("inspect_key", bounded)
    /\ LET got == Append(call.got, bounded.reply)
       IN call' = IF ~Readable(Len(got), bounded.reply) THEN Unreadable(bounded)
                  ELSE IF Described(got) THEN [Answer(bounded) EXCEPT !.got = got]
                  ELSE [call EXCEPT !.place = "execute", !.got = got, !.argv = InspectArgv(call.key, got)]
    /\ UNCHANGED agent

\* The tool has answered, and an agent that scans has no page left to ask for.
Finished ==
  /\ call.place = "answered" /\ agent.state # "scanning"
  /\ UNCHANGED vars

-----------------------------------------------------------------------------
(* The caller, the timer and the other clients.                                 *)
HangUp ==
  /\ call.place \notin {"idle", "answered"} /\ ~call.gone
  /\ call' = [call EXCEPT !.gone = TRUE]
  /\ UNCHANGED <<keyspace, writes, events, asked, sent, agent>>

\* Mutant: the deadline covers the reading of a reply only.
DeadlineOfReading ==
  /\ call.place \in {"replied", "failed", "classifying"} /\ ~call.late
  /\ call' = [call EXCEPT !.late = TRUE]
  /\ UNCHANGED <<keyspace, writes, events, asked, sent, agent>>
DeadlinePasses ==
  /\ call.place \in {"sent", "replied", "failed", "classifying"} /\ ~call.late
  /\ call' = [call EXCEPT !.late = TRUE]
  /\ UNCHANGED <<keyspace, writes, events, asked, sent, agent>>

\* Another client sets, replaces or deletes a key, or it expires. A call of one
\* command reads one state of the keyspace, so only the others need writes.
Write ==
  /\ writes < MaxWrites
  /\ agent.state = "scanning" \/ (call.tool = "inspect_key" /\ call.place # "answered")
  /\ \E k \in Keys : \E c \in Contents[k] \ {keyspace[k]} :
       /\ keyspace' = [keyspace EXCEPT ![k] = c]
       /\ call' = [call EXCEPT !.touched = @ \/ k = call.key]
       /\ agent' = [agent EXCEPT !.stable = IF c = Absent THEN @ \ {k} ELSE @]
  /\ writes' = writes + 1
  /\ UNCHANGED <<events, asked, sent>>

Next ==
  \/ ExecuteCommand \/ InspectKey \/ ScanKeys
  \/ Execute \/ Failed \/ FailedSince \/ ReceiveReply \/ ReceivePage \/ ReceiveField \/ Finished
  \/ RedisReplies \/ DoFails \/ HangUp \/ DeadlinePasses \/ Write

Spec == Init /\ [][Next]_vars

(* The handler runs when it can, its timer fires, and Do returns once the       *)
(* deadline of its context has passed, whatever the network does.               *)
FairSpec ==
  /\ Spec
  /\ WF_vars(Execute) /\ WF_vars(Failed) /\ WF_vars(FailedSince) /\ WF_vars(DeadlinePasses)
  /\ WF_vars(call.late /\ DoFails)

-----------------------------------------------------------------------------
\* The most elements a reply may have, and the most Redis may walk for it.
Cap == Larger(MaxElements, MaxCount)
PageLimit(argv) == IF Command(argv) \in {"hscan", "zscan"} THEN Cap + Chain - 1 ELSE Cap
WalkLimit(argv) ==
  IF Command(argv) \in {"hrandfield", "srandmember"} THEN 3 * Cap
  ELSE IF Command(argv) = "usage" THEN Larger(Cap, DefaultSamples) ELSE PageLimit(argv)

(* What the gate admits is bounded whatever the value holds: Redis replies with *)
(* no more elements than MaxElements or MaxCount, or than a compact value holds *)
(* or the last step of a cursor adds (the "slightly more" of tools.go:126), and *)
(* it walks no more than that, three times over for a random sample (and the    *)
(* samples it takes of itself for MEMORY USAGE), even when the command's own    *)
(* options are read by Redis's rules (redisgate/rules.go, the bounds of each    *)
(* option parser). Not bounded by the gate, and so excepted, are the area of a  *)
(* GEOSEARCH and the groups of a stream: of each of those, and of each of their *)
(* consumers, no more than MaxCount entries are shown.                          *)
AdmittedIsBounded ==
  call.place = "sent" =>
    /\ \A n \in 0 .. 3 * Cap + DefaultSamples + Chain :
         /\ Replied(call.argv, n) <= Larger(PageLimit(call.argv), Compact)
         /\ Command(call.argv) # "geosearch" => Walked(call.argv, n) <= Larger(WalkLimit(call.argv), Compact)
    /\ \A g \in Groups : Attached(call.argv, g) <= g * (1 + MaxCount)

(* boundReply keeps the longest prefix of the leaves that the byte budget lets  *)
(* through after every array is capped, and calls a reply whole exactly when it *)
(* is: a budget that is used up to the last byte is no cut (reply.go:72-103).   *)
KeptIsLongestPrefix ==
  call.place = "answered" /\ call.kind \in {None, "internal"} =>
    LET all == R!CappedLeaves[call.raw]
        kept == R!leaves[call.reply]
        n == Len(kept)
    IN /\ n <= Len(all)
       /\ \A i \in 1 .. n - 1 : kept[i] = all[i]
       /\ R!BytesUpTo(kept, n) = Least(R!BytesUpTo(all, n), ByteBudget)
       /\ n < Len(all) => R!BytesUpTo(all, n) > ByteBudget
       /\ n > 0 => R!BytesUpTo(all, n - 1) <= ByteBudget
       /\ call.truncation = "none" <=> call.reply = call.raw

(* A text that is kept reaches the agent as text, not as base64, also when the  *)
(* byte budget cuts it inside a rune (encode.go: the last leaf,                 *)
(* withoutIncompleteTrail). Not so if an array before it was cut to the element *)
(* cap: then the reply is reported as element_cap and its half rune stays.      *)
TextStaysText ==
  call.place = "answered" /\ call.kind \in {None, "internal"} =>
    LET all == R!CappedLeaves[call.raw]
        kept == R!leaves[call.reply]
        shown == R!encodeReply(call.reply, call.truncation)
    IN \A i \in DOMAIN kept :
         kept[i].type = "string" /\ kept[i].word # "binary" =>
           shown[i] = "text" \/ (call.truncation = "element_cap" /\ i = Len(kept) /\ kept[i] # all[i])

(* Every argv given to the executor leaves exactly one event by the time the    *)
(* next one is given, or the tool answers; an event that carries the verdict    *)
(* allow stands for an argv that was sent, and no other was (audit.go, execute).*)
OneEventPerCommand ==
  call.place \in {"execute", "answered"} =>
    /\ Len(events) = asked
    /\ Len(sent) = Cardinality({i \in DOMAIN events : events[i].verdict = "bounded_read"})
    /\ \A i \in DOMAIN sent : Allows(sent[i])

(* The kind of a failed call is about what happened: cancelled only if the      *)
(* caller has gone, deadline only if it has passed or the caller has gone, an   *)
(* error of Redis only if Redis replied with one, and a caller who hung up      *)
(* before the command ended is never told that the server, the deadline or the  *)
(* connection was at fault, unless Redis said so (redisdb/errors.go, classify). *)
KindIsTrue ==
  call.place = "answered" /\ call.cause # None =>
    /\ call.kind = "cancelled" => call.gone
    /\ call.kind = "deadline" => call.late \/ call.gone
    /\ call.kind = "redis_error" => call.cause \in {"noperm", "wrongtype"}
    /\ call.kind = "connection" => call.cause \in {"network", "noauth"}
    /\ call.early /\ call.cause \notin {"noauth", "noperm", "wrongtype"} => call.kind = "cancelled"

(* What the audit stream and the caller are told of a command is what happened  *)
(* to it: one event for each argv, under a kind that its cause bears out        *)
(* (audit.go and errors.go of redismcp and redisdb).                            *)
RecordIsTrue == OneEventPerCommand /\ KindIsTrue

(* inspect_key sends its commands one by one. If nobody wrote to the key in     *)
(* between, the answer is the key: its absence, or its type, time to live,      *)
(* encoding, size and length; and the call fails on the shape of a reply, or on *)
(* a wrong type, only if somebody did (tools.go:212-245).                       *)
InspectIsOfOneKey ==
  call.tool = "inspect_key" /\ call.place = "answered" /\ ~call.touched =>
    LET c == keyspace[call.key]
    IN /\ call.kind \notin {"internal", "refused"} /\ call.cause # "wrongtype"
       /\ call.kind = None =>
            /\ Len(call.got) = 1 <=> c = Absent
            /\ call.got[1].word = c.type
            /\ c # Absent => /\ call.got[2].n = (IF c.ttl = "none" THEN -1 ELSE 1)
                             /\ Len(call.got) = 5 => call.got[5].n = c.len
                             /\ Len(call.got) = 5 <=> c.type # "module"

(* An agent that repeats a truncated page with a smaller count, as scan_keys    *)
(* tells it to, has at the end collected every key that existed all along, for  *)
(* every order of other clients' writes (tools.go:172-210, reply.go:93-103).    *)
ScanMissesNothing == agent.state = "done" => agent.stable \subseteq agent.seen

(* Every call is answered, also when Redis never replies: the deadline that     *)
(* each command gets for itself ends it (redisdb.go, Execute).                  *)
EveryCallIsAnswered == call.place = "execute" ~> call.place = "answered"
=============================================================================
