---------------------------- MODULE MCDynamicGraph ----------------------------
(* Small plans for TLC: two parallel calls and a fan-out over the second, a poll, an HTTP call. *)
EXTENDS DynamicGraph
Fast(needs) == [http |-> FALSE, kind |-> "call", needs |-> needs]
Http == [http |-> TRUE, kind |-> "call", needs |-> {}]
Wait(needs) == [http |-> FALSE, kind |-> "wait", needs |-> needs]
Fan(needs) == [http |-> FALSE, kind |-> "fan", needs |-> needs]

Tour == <<Fast({}), Fast({}), Fan({2})>>
SomePlans == {Tour, <<Wait({})>>}
SomeDrafts == {<<Http>>}
\* The second step reads the first, the third reads nothing.
Straddling == {<<Fast({}), Fast({1}), Fast({})>>}
===============================================================================
