--------------------------- MODULE MCBudgetLedger ---------------------------
(***************************************************************************)
(* A run with a tight budget, one agent-loop scope below it with a limit   *)
(* of its own, and attempts in both.                                       *)
(***************************************************************************)
EXTENDS BudgetLedgerProperties

MCScopes == {"run", "loop"}
MCAncestors == [run |-> {"run"}, loop |-> {"loop", "run"}]
MCThreads == 1..3
MCScopeOf == <<"loop", "loop", "run">>

\* Two attempts share a caller's id.
MCSharedOps == <<"a", "a", "c">>

L(c, i, o, t) == [calls |-> c, input |-> i, output |-> o, total |-> t]
MCLimit == [run |-> L(3, Unbounded, 4, 6), loop |-> L(2, Unbounded, Unbounded, 4)]
MCEstimates == {Amount(1, 1, 2), Amount(1, 3, 1)}
MCUsages == {Amount(1, 1, 1), Amount(1, 2, 2)}
=============================================================================
