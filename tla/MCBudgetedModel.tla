---- MODULE MCBudgetedModel ----
\* Small instances of BudgetedModel.
EXTENDS BudgetedModel, TLC

CONSTANTS c1, c2, c3

ThreeEach == [s \in Side |-> 3]
TwoEach == [s \in Side |-> 2]
OneToolCall == [r \in Resource |-> IF r = "tool" THEN 1 ELSE 0]
OneSnapshotRead == [r \in Resource |-> IF r \in {"tool", "snapshot"} THEN 1 ELSE 0]
Alike == Permutations(Calls)
====
