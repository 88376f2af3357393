------------------------------ MODULE MCServer ------------------------------
(* Server with three kinds of tool: execute_query, whose one statement is the *)
(* agent's; search_schema, with one of its own; describe_table, with three.   *)
EXTENDS Server, TLC

CONSTANTS query, search, columns, keys, indexes, names

AllStatements == {query, search, columns, keys, indexes, names}

Plans == [execute_query |-> <<query>>, search_schema |-> <<search>>,
          describe_table |-> <<columns, keys, indexes>>]
AllPlans == [t \in Tools |-> Plans[t]]
ShortPlans == [t \in Tools |-> IF Len(Plans[t]) = 1 THEN Plans[t] ELSE SubSeq(Plans[t], 1, 2)]

\* The baseline, and two overlays that each take something away.
TwoRulesets == {AllStatements, AllStatements \ {columns, query}}
OneRuleset == {AllStatements}

Alike == Permutations(Calls)
=============================================================================
