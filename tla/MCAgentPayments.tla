-------------------------- MODULE MCAgentPayments --------------------------
EXTENDS AgentPayments, TLC

CONSTANTS t1, t2, r1, s1, s2

\* t1 pays the shop and a deposit address, t2 the shop alone.
MCPays == (t1 :> ("shop" :> 3 @@ r1 :> 2)) @@ (t2 :> ("shop" :> 2 @@ r1 :> 0))

Body(t, case, price, cost) == [name |-> <<t, case>>, price |-> price, cost |-> cost]
\* The two settle calls are alike.
Alike == Permutations({s1, s2})

MCBodies == {Body(t1, "upper", 1, 1), Body(t2, "lower", 2, 1)}
MCAsks == {[name |-> <<t1, "upper">>, price |-> 2]}
=============================================================================
