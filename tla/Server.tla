------------------------------- MODULE Server -------------------------------
(***************************************************************************)
(* The process around the tool calls: mcpserve.Server.Run serves, reloads  *)
(* the gate's ruleset on SIGHUP and shuts down on SIGTERM -- stop          *)
(* accepting, drain within a bound, close the pools -- while the handlers  *)
(* of module ToolCalls go on.  One goroutine does all of this, one signal  *)
(* at a time, and signals wait for it in a channel that holds one.         *)
(***************************************************************************)
EXTENDS ToolCalls

CONSTANTS
  Overlays,         \* what each content of the overlay file makes of the baseline
  Rejected,         \* a content that does not load
  Unread,           \* no reload is going on
  ShutdownTimeout,
  MaxEdits          \* bound: how often the operator edits the overlay

ASSUME OverlaysAssumption ==
  /\ Overlays \subseteq SUBSET Statements /\ Overlays # {}
  /\ Rejected \notin Overlays /\ Unread \notin Overlays \cup {Rejected}
ASSUME ServerAssumption ==
  ShutdownTimeout \in Nat \ {0} /\ MaxEdits \in Nat

VARIABLES
  phase,      \* what Run is doing
  why,        \* how the serving ended
  drainFor,   \* what is left of the drain
  term,       \* SIGTERM has arrived
  hangup,     \* a SIGHUP waits in the channel
  loading,    \* what the reload in progress has read
  overlay,    \* the overlay file
  edits,
  signalled,  \* a SIGHUP was sent after the last edit
  spent       \* calls still at work when the pool closed

life == <<phase, why, drainFor, spent>>
signals == <<term, hangup, loading>>
disk == <<overlay, edits, signalled>>
vars == <<surroundings, callVars, life, signals, disk>>

Init ==
  /\ InitCalls
  /\ overlay \in Overlays /\ ruleset = overlay
  /\ accepting = TRUE /\ poolOpen = TRUE
  /\ phase = "serving" /\ why = "" /\ drainFor = 0 /\ spent = {}
  /\ term = FALSE /\ hangup = FALSE /\ loading = Unread
  /\ edits = 0 /\ signalled = TRUE

-----------------------------------------------------------------------------
\* From the shutdown on nobody reads the overlay.
EditOverlay ==
  /\ edits < MaxEdits
  /\ phase = "serving"
  /\ overlay' \in (Overlays \cup {Rejected}) \ {overlay}
  /\ edits' = edits + 1
  /\ signalled' = FALSE
  /\ UNCHANGED <<surroundings, callVars, life, signals>>

\* A SIGHUP that finds the channel full is dropped.
Hangup ==
  /\ phase = "serving"
  /\ ~signalled
  /\ hangup' = TRUE
  /\ signalled' = TRUE
  /\ UNCHANGED <<surroundings, callVars, life, term, loading, overlay, edits>>

Term ==
  /\ ~term
  /\ phase # "exited"
  /\ term' = TRUE
  /\ UNCHANGED <<surroundings, callVars, life, hangup, loading, disk>>

\* The loop of Run takes a signal only between two reloads.
Listening == phase = "serving" /\ loading = Unread

StartReload ==
  /\ Listening
  /\ hangup
  /\ hangup' = FALSE
  /\ loading' = overlay
  /\ UNCHANGED <<surroundings, callVars, life, term, disk>>

FinishReloadDrains ==
  /\ loading # Unread
  /\ ruleset' = IF loading = Rejected THEN ruleset ELSE loading
  /\ loading' = Unread
  /\ hangup' = FALSE
  /\ UNCHANGED <<accepting, poolOpen, callVars, life, term, disk>>

\* A content that loads replaces the whole ruleset; one that does not leaves the
\* previous one in force.
FinishReload ==
  /\ loading # Unread
  /\ ruleset' = IF loading = Rejected THEN ruleset ELSE loading
  /\ loading' = Unread
  /\ UNCHANGED <<accepting, poolOpen, callVars, life, term, hangup, disk>>

BeginShutdownOnCancelled ==
  /\ Listening
  /\ term
  /\ accepting' = FALSE
  /\ phase' = "draining" /\ drainFor' = 0
  /\ UNCHANGED <<ruleset, poolOpen, callVars, why, spent, signals, disk>>

\* httpServer.Shutdown closes the listener and waits, on a context of its own.
BeginShutdown ==
  /\ Listening
  /\ term
  /\ accepting' = FALSE
  /\ phase' = "draining" /\ drainFor' = ShutdownTimeout
  /\ UNCHANGED <<ruleset, poolOpen, callVars, why, spent, signals, disk>>

\* What the deferred Close does to the calls that are still at work.
Leaves(reason) ==
  /\ why' = reason
  /\ drainFor' = 0
  /\ phase' = "closing"
  /\ poolOpen' = FALSE
  /\ spent' = {c \in Calls : Active(c)}

DrainedAtOnce ==
  /\ phase = "draining"
  /\ Leaves("drained")
  /\ UNCHANGED <<ruleset, accepting, callVars, signals, disk>>

\* Every call has been answered.
Drained ==
  /\ phase = "draining"
  /\ \A c \in Calls : ~Active(c)
  /\ Leaves("drained")
  /\ UNCHANGED <<ruleset, accepting, callVars, signals, disk>>

\* The bound expires; the pools are closed anyway.
DrainExpires ==
  /\ phase = "draining"
  /\ drainFor = 0
  /\ Leaves("expired")
  /\ UNCHANGED <<ruleset, accepting, callVars, signals, disk>>

\* Serve stops on its own: Run returns at once.
ServeFails ==
  /\ Listening
  /\ Leaves("stopped")
  /\ accepting' = FALSE
  /\ UNCHANGED <<ruleset, callVars, signals, disk>>

\* pgxpool.Close waits for the connections that are borrowed, sql.DB.Close does
\* not.
CloseWaits == Engine = "postgres"

\* Close returns and the process ends; what was still at work ends with it.
Exit ==
  /\ phase = "closing"
  /\ CloseWaits => inUse = 0
  /\ phase' = "exited"
  /\ inUse' = 0
  /\ call' = [c \in Calls |-> IF Active(c) THEN [call[c] EXCEPT !.pc = "cut"] ELSE call[c]]
  /\ UNCHANGED <<surroundings, sent, cleared, trail, why, drainFor, spent, signals, disk>>

\* Time passes while somebody waits for it and Run has nothing to do at once.
Tick ==
  /\ Patient
  /\ Timed \/ phase = "draining"
  /\ phase = "draining" => drainFor > 0 /\ \E c \in Calls : Active(c)
  /\ Elapse
  /\ drainFor' = IF drainFor > 0 THEN drainFor - 1 ELSE 0
  /\ UNCHANGED <<surroundings, inUse, sent, cleared, trail, phase, why, spent, signals, disk>>

\* The goroutine of Run.
RunSteps == StartReload \/ FinishReload \/ BeginShutdown \/ Drained \/ DrainExpires \/ Exit

CallSteps ==
  /\ phase # "exited"
  /\ \E c \in Calls : (\E t \in Tools : Arrive(c, t)) \/ Serve(c) \/ Awaits(c)
  /\ UNCHANGED <<life, signals, disk>>

Done == phase = "exited" /\ UNCHANGED vars

Next ==
  \/ CallSteps \/ RunSteps \/ ServeFails \/ Tick
  \/ EditOverlay \/ Hangup \/ Term \/ Done

Spec == Init /\ [][Next]_vars

ServeStep(c) == phase # "exited" /\ Serve(c) /\ UNCHANGED <<life, signals, disk>>

\* Goroutines are scheduled, and the clock runs; that the database answers, that
\* the operator acts and that Serve fails is not assumed.
Fairness ==
  /\ \A c \in Calls : WF_vars(ServeStep(c))
  /\ WF_vars(FinishReload) /\ SF_vars(BeginShutdown)
  /\ WF_vars(Drained) /\ WF_vars(DrainExpires) /\ WF_vars(Exit)
  /\ WF_vars(Tick)

FairSpec == Spec /\ Fairness

-----------------------------------------------------------------------------
(* Properties *)

TypeOK ==
  /\ CallsTypeOK
  /\ ruleset \in Overlays
  /\ accepting \in BOOLEAN /\ poolOpen \in BOOLEAN
  /\ phase \in {"serving", "draining", "closing", "exited"}
  /\ why \in {"", "drained", "expired", "stopped"}
  /\ drainFor \in 0 .. ShutdownTimeout
  /\ term \in BOOLEAN /\ hangup \in BOOLEAN
  /\ loading \in Overlays \cup {Rejected, Unread}
  /\ overlay \in Overlays \cup {Rejected}
  /\ edits \in 0 .. MaxEdits
  /\ signalled \in BOOLEAN
  /\ spent \in SUBSET Calls

\* A SIGHUP sent after the last edit is never lost, not even one that arrives
\* while another reload is reading the file or that finds the channel full: once
\* nothing is waiting or loading, a file that loads is the ruleset in force.
ReloadNotLost ==
  /\ signalled /\ ~hangup /\ loading = Unread
  /\ phase = "serving" /\ overlay # Rejected
  => ruleset = overlay

\* internal/mcp/server.go, Run: "stop accepting, drain within a bound, then close
\* the pools".  The pools are closed under a call only when the bound expired or
\* the listener failed; a drain that ended in time leaves every call answered.
DrainBeforeClose ==
  /\ ~poolOpen => ~accepting
  /\ spent # {} => why \in {"expired", "stopped"}
  /\ why = "drained" => \A c \in Calls : call[c].pc \in {"idle", "done"}

\* With PostgreSQL a drain longer than a statement's deadline and its rollback
\* cuts off no call but one that is looking for similar names (config.go:47-53 of
\* mcpserve, db.go:215, postgres.go:294). With the other engines no drain is long
\* enough for a call that rolls back.
DrainCoversOneStatement ==
  BoundsRollback /\ why = "expired" /\ ShutdownTimeout > statementDeadline + rollbackTimeout
  => \A c \in spent : call[c].lookups > 0

\* After SIGTERM the process ends, whatever its clients and the database do.
ShutdownEnds == term ~> phase = "exited"

-----------------------------------------------------------------------------
(* Refinement *)

\* Where a call of this module is in AuditedCalls.
Stage(c) ==
  CASE call[c].pc = "idle" -> "new"
    [] call[c].pc = "done" -> "recorded"
    [] call[c].pc = "cut" -> "lost"
    [] OTHER -> "open"

Audited == INSTANCE AuditedCalls WITH
  policy <- ruleset,
  running <- phase # "exited",
  stage <- [c \in Calls |-> Stage(c)],
  permitted <- cleared,
  denied <- [c \in Calls |-> call[c].result = "refused"],
  events <- trail

\* The handlers, the pool, the reloads and the shutdown implement AuditedCalls
\* (tools.go and db.go through withTx; server.go, Run): each step of theirs is one
\* of its steps or none, so that nothing goes out or is recorded but as it says, and
\* only the end of the process leaves a call that has sent something unrecorded.
CallsAreAudited == Audited!Spec
=============================================================================
