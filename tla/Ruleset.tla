------------------------------ MODULE Ruleset ------------------------------
(* internal/gate/ruleset.go: the rules of the statement gate as data, the       *)
(* overlay merged into the baseline, the validation of the result and its       *)
(* compiled form; Exemptions of gate.go and the diff of mcp/overlay.go, which   *)
(* the server logs at every load.                                               *)
(*                                                                              *)
(* A name is the sequence of its dotted parts, a match the sequence of the      *)
(* names between its spaces: "execute as" is <<<<"execute">>, <<"as">>>> and    *)
(* dbo.f is <<<<"dbo", "f">>>>. A set of engines is what a rule lists: {} means *)
(* every engine. Texts (identity, reason, argument) are opaque, "" is blank.    *)
EXTENDS Integers, Sequences, FiniteSets, SequencesExt

CONSTANTS
  Engines,          \* the supported engines
  UpperWords,       \* words that are not in lower case
  rulesetVersion,
  minStatementBytes

Rule(id, match, engines, reason) ==
  [id |-> id, match |-> match, engines |-> engines, reason |-> reason, prefix |-> FALSE, safeAs |-> ""]
Allowance(engines, names) == [engines |-> engines, names |-> names]

declaresSafeAsFunction(r) == r.safeAs # ""
enginesOverlap(a, b) == a = {} \/ b = {} \/ a \cap b # {}
ruleApplies(r, e) == r.engines = {} \/ e \in r.engines

Groups(rs) == <<rs.read, rs.forbidden, rs.forbidFunc>>
Rules(rs) == rs.read \o rs.forbidden \o rs.forbidFunc
Ids(rs) == {r.id : r \in ToSet(Rules(rs))}
SafeNames(rs) == UNION {a.names : a \in ToSet(rs.safe)}

Lower(name) == name # <<>> /\ \A k \in DOMAIN name : name[k] \notin UpperWords
ValidRule(r) ==
  /\ r.id # ""
  /\ r.match # <<>> /\ \A k \in DOMAIN r.match : Lower(r.match[k])
  /\ r.reason # ""
  /\ r.engines \subseteq Engines

\* The engines of a safe function, as validate adds them up over the allowances
\* that name it; {} stands for an allowance on every engine.
safeEngines(rs, name) ==
  FoldLeft(LAMBDA engines, a : IF a.engines = {} THEN {} ELSE engines \cup a.engines, {},
           SelectSeq(rs.safe, LAMBDA a : name \in a.names))
\* What the same allowances allow.
AllowedOn(rs, name) ==
  {e \in Engines : \E a \in ToSet(rs.safe) : name \in a.names /\ (a.engines = {} \/ e \in a.engines)}

\* A forbidden keyword and the safe function of the same name.
Collides(rs, r) == \E name \in SafeNames(rs) : r.match = <<name>>
Name(r) == r.match[1]

Loosens(rs, r) ==
  Collides(rs, r) /\ ~declaresSafeAsFunction(r) /\ enginesOverlap(safeEngines(rs, Name(r)), r.engines)

validate(rs) ==
  /\ rs.version = rulesetVersion
  /\ rs.maxBytes >= minStatementBytes
  /\ rs.read # <<>> /\ rs.forbidden # <<>>
  /\ \A r \in ToSet(Rules(rs)) : ValidRule(r)
  /\ \A i, j \in DOMAIN Rules(rs) : Rules(rs)[i].id = Rules(rs)[j].id => i = j
  /\ \A r \in ToSet(rs.read) : Len(r.match) = 1 /\ Len(Name(r)) = 1
  /\ \A r \in ToSet(rs.forbidFunc) : Len(r.match) = 1
  /\ \A r \in ToSet(rs.forbidden \o rs.forbidFunc) : ~r.prefix
  /\ \A r \in ToSet(rs.read \o rs.forbidFunc) : r.safeAs = ""
  /\ \A r \in ToSet(rs.read), f \in ToSet(rs.forbidden) :
       r.match = f.match => ~enginesOverlap(r.engines, f.engines)
  /\ \A a \in ToSet(rs.safe) : a.engines \subseteq Engines /\ \A name \in a.names : Lower(name)
  /\ \A r \in ToSet(rs.forbidFunc) : ~Collides(rs, r)
  /\ \A r \in ToSet(rs.forbidden) : ~Loosens(rs, r)
  /\ \A k \in rs.nonFunc : Lower(<<k>>)

\* Each entry of remove_rules and of remove_safe_functions must remove something:
\* a second mention of the same one finds nothing.
Removes(entries, present) == IsInjective(entries) /\ ToSet(entries) \subseteq present

\* The rules without those removed, in their order.
Without(rules, ids) ==
  LET kept[n \in 0 .. Len(rules)] ==
        IF n = 0 THEN <<>>
        ELSE IF rules[n].id \in ToSet(ids) THEN kept[n - 1] ELSE Append(kept[n - 1], rules[n])
  IN kept[Len(rules)]
Trimmed(allowances, names) ==
  [i \in DOMAIN allowances |-> [allowances[i] EXCEPT !.names = @ \ ToSet(names)]]

\* The overlay on top of the baseline, and whether it is merged at all.
Merged(base, ov) ==
  [version |-> base.version,
   maxBytes |-> IF ov.maxBytes = {} THEN base.maxBytes ELSE CHOOSE n \in ov.maxBytes : TRUE,
   read |-> Without(base.read, ov.removeRules) \o ov.read,
   forbidden |-> Without(base.forbidden, ov.removeRules) \o ov.forbidden,
   forbidFunc |-> Without(base.forbidFunc, ov.removeRules) \o ov.forbidFunc,
   safe |-> Trimmed(base.safe, ov.removeSafe) \o ov.safe,
   nonFunc |-> base.nonFunc \cup ov.nonFunc]
mergeable(base, ov) ==
  /\ ov.version = rulesetVersion
  /\ Removes(ov.removeRules, Ids(base))
  /\ Removes(ov.removeSafe, SafeNames(base))
  /\ validate(Merged(base, ov))

\* Of two rules of one group with the same match on an engine the later one counts.
LastOf(rules, e) ==
  LET on == {k \in DOMAIN rules : ruleApplies(rules[k], e)}
  IN [name \in {Name(rules[k]) : k \in on} |->
        rules[CHOOSE k \in on : Name(rules[k]) = name /\ \A l \in on : Name(rules[l]) = name => l <= k]]

compile(rs) ==
  [source |-> rs,
   read |-> [e \in Engines |-> LastOf(rs.read, e)],
   forbidden |-> rs.forbidden,
   forbidFunc |-> [e \in Engines |-> LastOf(rs.forbidFunc, e)],
   safeFunc |-> [e \in Engines |-> {name \in SafeNames(rs) : e \in AllowedOn(rs, name)}],
   nonFunc |-> rs.nonFunc]

\* Exemptions: every safe_as_function declaration, dangling or live.
Exemptions(c) ==
  {[rule |-> r.id, keyword |-> r.match,
    dangling |-> ~\E e \in Engines : ruleApplies(r, e) /\ \E name \in c.safeFunc[e] : r.match = <<name>>] :
     r \in {f \in ToSet(c.source.forbidden) : declaresSafeAsFunction(f)}}

-----------------------------------------------------------------------------
\* DiffAgainstBaseline
kinded(rs) ==
  [id \in Ids(rs) |->
     LET of(k) == {r \in ToSet(Groups(rs)[k]) : r.id = id}
     IN CHOOSE kr \in UNION {{[kind |-> k, rule |-> r] : r \in of(k)} : k \in 1 .. 3} : TRUE]

\* Mutant: rules of one identity are compared by their match alone.
DiffAgainstBaselineByMatch(base, rs) ==
  LET was == kinded(base)
      now == kinded(rs)
      safeOn(r, e) == {name \in SafeNames(r) : e \in AllowedOn(r, name)}
  IN [added |-> DOMAIN now \ DOMAIN was,
      removed |-> DOMAIN was \ DOMAIN now,
      replaced |-> {id \in DOMAIN was \cap DOMAIN now : was[id].rule.match # now[id].rule.match},
      safeAdded |-> [e \in Engines |-> safeOn(rs, e) \ safeOn(base, e)],
      safeRemoved |-> [e \in Engines |-> safeOn(base, e) \ safeOn(rs, e)],
      keywordsAdded |-> rs.nonFunc \ base.nonFunc,
      bytes |-> IF rs.maxBytes = base.maxBytes THEN "same" ELSE "changed"]
DiffAgainstBaseline(base, rs) ==
  LET was == kinded(base)
      now == kinded(rs)
      safeOn(r, e) == {name \in SafeNames(r) : e \in AllowedOn(r, name)}
  IN [added |-> DOMAIN now \ DOMAIN was,
      removed |-> DOMAIN was \ DOMAIN now,
      replaced |-> {id \in DOMAIN was \cap DOMAIN now : was[id] # now[id]},
      safeAdded |-> [e \in Engines |-> safeOn(rs, e) \ safeOn(base, e)],
      safeRemoved |-> [e \in Engines |-> safeOn(base, e) \ safeOn(rs, e)],
      keywordsAdded |-> rs.nonFunc \ base.nonFunc,
      bytes |-> IF rs.maxBytes = base.maxBytes THEN "same" ELSE "changed"]
=============================================================================
