------------------------------ MODULE MCPlanSearch ------------------------------
(* Every problem over a few facts and operations, for TLC. *)
EXTENDS PlanSearch
SomeFacts == {"a", "b", "c"}
Catalogue == {op \in [pre : SUBSET SomeFacts, eff : SUBSET SomeFacts] :
                /\ op.eff # {} /\ op.pre \cap op.eff = {}
                /\ Cardinality(op.pre) <= 1 /\ Cardinality(op.eff) <= 2}
SomeProblems ==
  [actions : [1..4 -> Catalogue], world : {{}}, goal : {{"c"}, {"b", "c"}, {"a", "b", "c"}}]
=================================================================================
