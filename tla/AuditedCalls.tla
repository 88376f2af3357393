---------------------------- MODULE AuditedCalls ----------------------------
(***************************************************************************)
(* What the tool layer promises of its calls, whatever handlers, pools,    *)
(* timeouts, reloads and shutdowns it is made of: a statement goes out for *)
(* a call only after the policy then in force permitted it to that call, a *)
(* call that is denied has sent nothing and sends nothing, and every call  *)
(* is recorded once, in the terms of what happened to it, unless the       *)
(* process stops under it.  Module Server implements it.                   *)
(***************************************************************************)
EXTENDS Sequences

CONSTANTS Calls, Statements

VARIABLES
  policy,     \* the statements that are permitted now; it may change at any time
  running,
  stage,      \* of each call: new, open, recorded, or lost with the process
  permitted,  \* the statements the call was permitted
  sent,       \* the statements the call has sent
  denied,     \* a statement of the call was refused
  events      \* what was recorded of the call

vars == <<policy, running, stage, permitted, sent, denied, events>>

Init ==
  /\ policy \in SUBSET Statements
  /\ running = TRUE
  /\ stage = [c \in Calls |-> "new"]
  /\ permitted = [c \in Calls |-> {}]
  /\ sent = [c \in Calls |-> {}]
  /\ denied = [c \in Calls |-> FALSE]
  /\ events = [c \in Calls |-> <<>>]

Open(c) ==
  /\ running /\ stage[c] = "new"
  /\ stage' = [stage EXCEPT ![c] = "open"]
  /\ UNCHANGED <<policy, running, permitted, sent, denied, events>>

Permit(c, s) ==
  /\ running /\ stage[c] = "open" /\ ~denied[c]
  /\ s \in policy
  /\ permitted' = [permitted EXCEPT ![c] = @ \cup {s}]
  /\ UNCHANGED <<policy, running, stage, sent, denied, events>>

Deny(c) ==
  /\ running /\ stage[c] = "open"
  /\ sent[c] = {}
  /\ Statements \ policy # {}
  /\ denied' = [denied EXCEPT ![c] = TRUE]
  /\ UNCHANGED <<policy, running, stage, permitted, sent, events>>

Send(c, s) ==
  /\ running /\ stage[c] = "open" /\ ~denied[c]
  /\ s \in permitted[c]
  /\ sent' = [sent EXCEPT ![c] = @ \cup {s}]
  /\ UNCHANGED <<policy, running, stage, permitted, denied, events>>

\* What may be recorded: a refusal of a call that was denied and of no other; a
\* success of one that has sent statements; no verdict of one that had none.  The
\* verdict of a success is an allowance, except that a policy which no longer
\* permits everything may put a refusal in its place.
Truthful(c, e) ==
  /\ e.outcome = "refused" <=> denied[c]
  /\ e.outcome = "allowed" => sent[c] # {}
  /\ e.verdict = "" => permitted[c] = {}
  /\ e.verdict = "allow" => permitted[c] # {}
  /\ e.verdict = "refused" => denied[c] \/ (e.outcome = "allowed" /\ Statements \ policy # {})

Record(c, e) ==
  /\ running /\ stage[c] = "open"
  /\ Truthful(c, e)
  /\ events' = [events EXCEPT ![c] = Append(@, e)]
  /\ stage' = [stage EXCEPT ![c] = "recorded"]
  /\ UNCHANGED <<policy, running, permitted, sent, denied>>

ChangePolicy ==
  /\ policy' \in SUBSET Statements
  /\ UNCHANGED <<running, stage, permitted, sent, denied, events>>

\* Only the end of the process leaves a call without a record.
Stop ==
  /\ running
  /\ running' = FALSE
  /\ stage' = [c \in Calls |-> IF stage[c] = "open" THEN "lost" ELSE stage[c]]
  /\ UNCHANGED <<policy, permitted, sent, denied, events>>

Events == [outcome : {"allowed", "refused", "failed"}, verdict : {"allow", "refused", ""}]

Next ==
  \/ \E c \in Calls :
       \/ Open(c) \/ Deny(c)
       \/ \E s \in Statements : Permit(c, s) \/ Send(c, s)
       \/ \E e \in Events : Record(c, e)
  \/ ChangePolicy \/ Stop

Spec == Init /\ [][Next]_vars
=============================================================================
