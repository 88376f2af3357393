----------------------------- MODULE ToolCalls -----------------------------
(***************************************************************************)
(* The tool handlers of internal/mcp (tools.go) over the executor of       *)
(* internal/db (db.go, missing.go, execute.go): a call asks the gate about *)
(* its statements, borrows a connection for each of them, rolls back, and  *)
(* is written to the audit stream before it is answered.  Calls run at the *)
(* same time; they share the pool, and the ruleset may be replaced and the *)
(* pool closed under them (module Server, whose variables ruleset,         *)
(* accepting and poolOpen are).                                            *)
(*                                                                         *)
(* Timers hold the time they have left.  What the process computes by      *)
(* itself takes no time on their scale, which is that of seconds.          *)
(***************************************************************************)
EXTENDS Integers, FiniteSets, Sequences

CONSTANTS
  Calls,       \* tool calls, each made once
  Tools,       \* the kinds of call
  Plan,        \* the statements each kind runs, in order
  Explains,    \* the kinds whose missing names are looked up: execute_query
  Describes,   \* the kinds that ask the gate once more: describe_table
  Checks,      \* the kinds with arguments to check: search_schema, describe_table
  Statements,
  similarNames,       \* the lookup statement of missing.go
  Engine,             \* the database behind the pool
  MaxConns,
  statementDeadline,
  rollbackTimeout

ASSUME ToolsAssumption ==
  /\ IsFiniteSet(Calls)
  /\ Tools # {}
  /\ Plan \in [Tools -> Seq(Statements)]
  /\ \A t \in Tools : Len(Plan[t]) > 0
  /\ similarNames \in Statements
ASSUME EngineAssumption == Engine \in {"postgres", "mysql", "sqlserver"}
ASSUME LimitsAssumption ==
  /\ MaxConns \in Nat \ {0}
  /\ statementDeadline \in Nat \ {0} /\ rollbackTimeout \in Nat \ {0}

VARIABLES
  ruleset,    \* the statements the ruleset in force allows
  accepting,  \* the listener is open
  poolOpen,   \* the pool is open
  inUse,      \* how many of its connections are borrowed
  call,       \* the handlers
  sent,       \* the statements each call has sent to the database
  cleared,    \* the statements the gate has allowed each call
  trail       \* the audit events of each call

callVars == <<inUse, call, sent, cleared, trail>>
surroundings == <<ruleset, accepting, poolOpen>>

PCs == {"idle", "gate", "begin", "query", "rollback", "naming", "answer", "done", "cut"}
Results == {"none", "rows", "missing", "failed", "refused", "noAlias"}

\* A handler: where it is, the statement of its plan it is at, what its context
\* and its rollback have left, its lookups of similar names, its result so far.
Handlers ==
  [pc : PCs, tool : Tools, step : Nat \ {0}, deadline : 0 .. statementDeadline,
   rollbackBy : 0 .. rollbackTimeout, lookups : 0 .. 2, result : Results]

NoHandler ==
  [pc |-> "idle", tool |-> CHOOSE t \in Tools : TRUE, step |-> 1, deadline |-> 0,
   rollbackBy |-> 0, lookups |-> 0, result |-> "none"]

Verdicts == {"allow", "refused", ""}
Events == [outcome : {"allowed", "refused", "failed"}, verdict : Verdicts]

Active(c) == call[c].pc \notin {"idle", "done", "cut"}
Borrows(c) == call[c].pc \in {"query", "rollback"}

LastStep(c) == call[c].step >= Len(Plan[call[c].tool])

\* The statement a call is at: its plan's, or the lookup of similar names.
Current(c) ==
  IF call[c].lookups > 0 THEN similarNames ELSE Plan[call[c].tool][call[c].step]

PlanOf(c) == {Plan[call[c].tool][i] : i \in 1 .. Len(Plan[call[c].tool])}

-----------------------------------------------------------------------------
InitCalls ==
  /\ inUse = 0
  /\ call = [c \in Calls |-> NoHandler]
  /\ sent = [c \in Calls |-> {}]
  /\ cleared = [c \in Calls |-> {}]
  /\ trail = [c \in Calls |-> <<>>]

Goto(c, pc) == call' = [call EXCEPT ![c] = [@ EXCEPT !.pc = pc]]

\* The handler has its result; leaving the executor cancels the context.
Ends(c, result) ==
  call' = [call EXCEPT ![c] =
              [@ EXCEPT !.pc = "answer", !.deadline = 0, !.result = result]]

\* A request reaches a tool; an alias that is not configured never reaches the
\* gate.
Arrive(c, t) ==
  /\ accepting
  /\ call[c].pc = "idle"
  /\ \/ call' = [call EXCEPT ![c] = [@ EXCEPT !.pc = "gate", !.tool = t]]
     \/ call' = [call EXCEPT ![c] =
                    [@ EXCEPT !.pc = "answer", !.tool = t, !.result = "noAlias"]]
  /\ UNCHANGED <<surroundings, inUse, sent, cleared, trail>>

\* The statements' context starts: everything up to here cost no connection.
Start(c) ==
  call' = [call EXCEPT ![c] =
              [@ EXCEPT !.pc = "begin", !.step = 1, !.deadline = statementDeadline]]

ValidateFirstOnly(c) ==
  /\ call[c].pc = "gate"
  /\ IF Current(c) \in ruleset
       THEN Start(c) /\ cleared' = [cleared EXCEPT ![c] = @ \cup {Current(c)}]
       ELSE Ends(c, "refused") /\ UNCHANGED cleared
  /\ UNCHANGED <<surroundings, inUse, sent, trail>>

\* gate.Validate of the next statement of the plan, against the ruleset in force
\* at that instant; after the last one the arguments are checked, or the first
\* statement runs.
Validate(c) ==
  /\ call[c].pc = "gate"
  /\ IF Current(c) \in ruleset
       THEN /\ cleared' = [cleared EXCEPT ![c] = @ \cup {Current(c)}]
            /\ \/ ~LastStep(c) /\ call' = [call EXCEPT ![c] = [@ EXCEPT !.step = call[c].step + 1]]
               \/ LastStep(c) /\ Start(c)
               \/ LastStep(c) /\ call[c].tool \in Checks /\ Ends(c, "failed")
       ELSE Ends(c, "refused") /\ UNCHANGED cleared
  /\ UNCHANGED <<surroundings, inUse, sent, trail>>

BeginBeyondPool(c) ==
  /\ call[c].pc = "begin"
  /\ poolOpen /\ call[c].deadline > 0
  /\ inUse' = inUse + 1
  /\ sent' = [sent EXCEPT ![c] = @ \cup {Current(c)}]
  /\ Goto(c, "query")
  /\ UNCHANGED <<surroundings, cleared, trail>>

\* withTx: a connection is borrowed, the transaction begins, the statement goes
\* out.
Begin(c) ==
  /\ call[c].pc = "begin"
  /\ poolOpen /\ inUse < MaxConns /\ call[c].deadline > 0
  /\ inUse' = inUse + 1
  /\ sent' = [sent EXCEPT ![c] = @ \cup {Current(c)}]
  /\ Goto(c, "query")
  /\ UNCHANGED <<surroundings, cleared, trail>>

\* No session: the pool is closed, the dial fails, the client has hung up.  When
\* it was to be a lookup, the failure it was to explain stands as it is.
NoSession(c) ==
  /\ call[c].pc = "begin"
  /\ Ends(c, "failed")
  /\ UNCHANGED <<surroundings, inUse, sent, cleared, trail>>

\* The deferred rollback has a context of its own with PostgreSQL (withTx) and
\* none with the two engines of database/sql (runSQLTx): there it takes as long
\* as the driver does.
BoundsRollback == Engine = "postgres"
RollbackTime == IF BoundsRollback THEN rollbackTimeout ELSE 0

RollsBack(c, result) ==
  call' = [call EXCEPT ![c] =
     [@ EXCEPT !.pc = "rollback", !.result = result, !.rollbackBy = RollbackTime]]

\* The driver returns: rows, an error, or an error that says that a name in the
\* agent's statement does not exist.  A lookup that found nothing leaves it
\* "missing"; one that found names or failed settles the failure.
QueryReturns(c) ==
  /\ call[c].pc = "query"
  /\ \E result \in {"rows", "failed", "missing"} :
       /\ result = "missing" => call[c].tool \in Explains
       /\ result = "rows" => call[c].lookups = 0
       /\ RollsBack(c, result)
  /\ UNCHANGED <<surroundings, inUse, sent, cleared, trail>>

TimeoutKeepsConnection(c) ==
  /\ call[c].deadline = 0
  /\ call[c].pc \in {"begin", "query"} /\ Ends(c, "failed")
  /\ UNCHANGED <<surroundings, inUse, sent, cleared, trail>>

TimesOutInDatabase(c) ==
  /\ call[c].deadline = 0
  /\ call[c].pc = "query" /\ RollsBack(c, "failed")
  /\ UNCHANGED <<surroundings, inUse, sent, cleared, trail>>

\* The context ends while the call waits for a connection or for the database.
TimesOut(c) ==
  /\ call[c].deadline = 0
  /\ \/ call[c].pc = "begin" /\ Ends(c, "failed")
     \/ call[c].pc = "query" /\ RollsBack(c, "failed")
  /\ UNCHANGED <<surroundings, inUse, sent, cleared, trail>>

\* The rollback, on every way out of the transaction, returns at last and gives
\* the connection back; then comes the next statement of the plan, the lookup of the
\* missing name, or the answer, which describe_table may still fail to build.
Rollback(c) ==
  /\ call[c].pc = "rollback"
  /\ inUse' = inUse - 1
  /\ LET r == [call[c] EXCEPT !.rollbackBy = 0] IN
     call' = [call EXCEPT ![c] =
       CASE r.result = "rows" /\ ~LastStep(c) -> [r EXCEPT !.pc = "begin", !.step = @ + 1]
         [] r.result = "missing" -> [r EXCEPT !.pc = "naming", !.deadline = 0]
         [] OTHER -> [r EXCEPT !.pc = "answer", !.deadline = 0]]
  /\ UNCHANGED <<surroundings, sent, cleared, trail>>

\* The primary key or the indexes were cut by the row cap, or do not fit the
\* columns.
Unbuildable(c) ==
  /\ call[c].pc = "answer"
  /\ call[c].result = "rows" /\ call[c].tool \in Describes
  /\ call' = [call EXCEPT ![c] = [@ EXCEPT !.result = "failed"]]
  /\ UNCHANGED <<surroundings, inUse, sent, cleared, trail>>

NamingAgain(c) ==
  /\ call[c].pc = "naming"
  /\ \/ Goto(c, "answer") /\ UNCHANGED cleared
     \/ /\ similarNames \in ruleset
        /\ cleared' = [cleared EXCEPT ![c] = @ \cup {similarNames}]
        /\ call' = [call EXCEPT ![c] =
              [@ EXCEPT !.pc = "begin", !.lookups = call[c].lookups + 1, !.deadline = statementDeadline]]
  /\ UNCHANGED <<surroundings, inUse, sent, trail>>

\* nameMissingObject: at most two lookups of similar names, each asked of the
\* gate and each under a context of its own; or none, when the name cannot be
\* placed in the statement or the gate refuses.
Naming(c) ==
  /\ call[c].pc = "naming"
  /\ \/ Goto(c, "answer") /\ UNCHANGED cleared
     \/ /\ call[c].lookups < 2
        /\ similarNames \in ruleset
        /\ cleared' = [cleared EXCEPT ![c] = @ \cup {similarNames}]
        /\ call' = [call EXCEPT ![c] =
              [@ EXCEPT !.pc = "begin", !.lookups = call[c].lookups + 1, !.deadline = statementDeadline]]
  /\ UNCHANGED <<surroundings, inUse, sent, trail>>

VerdictNow(s) == IF s \in ruleset THEN "allow" ELSE "refused"

\* The audit event.  The verdict of a success is that of the decision that let
\* the statement through, except that describe_table asks the gate again; a
\* failure that is neither a refusal nor an unknown alias was allowed.
Event(c) ==
  LET result == call[c].result IN
  [outcome |-> CASE result = "rows" -> "allowed"
                 [] result = "refused" -> "refused"
                 [] OTHER -> "failed",
   verdict |-> CASE result = "refused" -> "refused"
                 [] result = "noAlias" -> ""
                 [] result = "rows" /\ call[c].tool \in Describes ->
                      VerdictNow(Plan[call[c].tool][1])
                 [] OTHER -> "allow"]

AnswerUnrecorded(c) ==
  /\ call[c].pc = "answer"
  /\ trail' = IF call[c].result = "refused" THEN trail
              ELSE [trail EXCEPT ![c] = Append(@, Event(c))]
  /\ Goto(c, "done")
  /\ UNCHANGED <<surroundings, inUse, sent, cleared>>

\* The event is recorded, then the handler returns.
Answer(c) ==
  /\ call[c].pc = "answer"
  /\ trail' = [trail EXCEPT ![c] = Append(@, Event(c))]
  /\ Goto(c, "done")
  /\ UNCHANGED <<surroundings, inUse, sent, cleared>>

\* What the process does by itself once the call has arrived.
Serve(c) ==
  \/ Validate(c) \/ TimesOut(c) \/ Naming(c) \/ Unbuildable(c) \/ Answer(c)
  \/ BoundsRollback /\ Rollback(c)

\* Steps that depend on the database, the network or the client.
Awaits(c) ==
  \/ Begin(c) \/ NoSession(c) \/ QueryReturns(c)
  \/ ~BoundsRollback /\ Rollback(c)

\* Time passes only while nobody has something to do at once, ...
Patient ==
  \A c \in Calls :
    /\ call[c].pc \notin {"gate", "naming", "answer"}
    /\ call[c].pc \in {"begin", "query"} => call[c].deadline > 0
    /\ call[c].pc = "rollback" /\ BoundsRollback => call[c].rollbackBy > 0

\* ... and it runs off every timer.
Elapse ==
  LET Less(t) == IF t > 0 THEN t - 1 ELSE 0 IN
  call' = [c \in Calls |->
            [call[c] EXCEPT !.deadline = Less(@), !.rollbackBy = Less(@)]]

Timed == \E c \in Calls : call[c].pc \in {"begin", "query", "rollback"}

-----------------------------------------------------------------------------
(* Properties *)

CallsTypeOK ==
  /\ inUse \in Nat
  /\ call \in [Calls -> Handlers]
  /\ sent \in [Calls -> SUBSET Statements]
  /\ cleared \in [Calls -> SUBSET Statements]
  /\ trail \in [Calls -> Seq(Events)]

\* The gate comes before the socket on every path, the statements of
\* describe_table and the lookups behind a failed query included: what a call
\* sends, the gate has allowed this very call, and a call the gate refused has
\* sent nothing.
GateBeforeSocket ==
  \A c \in Calls :
    /\ sent[c] \subseteq cleared[c]
    /\ call[c].result = "refused" => sent[c] = {}

\* Every connection comes back, whichever way its transaction ends: the pool
\* counts exactly the open transactions, and never more than it has.
PoolAccounted ==
  inUse = Cardinality({c \in Calls : Borrows(c)}) /\ inUse <= MaxConns

\* The audit stream against what happened: an answered call has exactly one
\* event and an unanswered one none; "allowed" ran every statement of the tool;
\* "refused" and an absent verdict mean that nothing was sent; "failed" with the
\* verdict allow means that the gate had allowed them all.
AuditMatches ==
  \A c \in Calls :
    /\ Len(trail[c]) = IF call[c].pc = "done" THEN 1 ELSE 0
    /\ \A i \in 1 .. Len(trail[c]) :
         LET e == trail[c][i] IN
         /\ e.outcome = "allowed" => sent[c] = PlanOf(c)
         /\ e.outcome = "refused" \/ e.verdict = "" => sent[c] = {}
         /\ e.outcome = "failed" /\ e.verdict = "allow" => PlanOf(c) \subseteq cleared[c]

\* internal/mcp/audit.go: "Verdict, Reason, RuleID and Pending are the gate's
\* own, copied from the decision that produced the outcome."
VerdictProducedOutcome ==
  \A c \in Calls : \A i \in 1 .. Len(trail[c]) :
    trail[c][i].outcome = "allowed" => trail[c][i].verdict = "allow"

\* A call that has arrived is answered, or the process is gone, whatever the
\* database does and however many calls compete for the pool: one that waits for
\* a connection is failed at its deadline (db.go:215, 203-240). The exception is
\* a call whose own rollback hangs where nothing bounds it (execute.go:109); it
\* takes no other call with it.
Hangs(c) == call[c].pc = "rollback" /\ ~BoundsRollback
EveryCallEnds == \A c \in Calls : Active(c) ~> ~Active(c) \/ Hangs(c)
=============================================================================
