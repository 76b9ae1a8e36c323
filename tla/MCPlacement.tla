---------------------------- MODULE MCPlacement ----------------------------
(* One account with every kind of limit set: the router, the simulator and  *)
(* the report on every ledger state they can read.                          *)
EXTENDS Placement

CONSTANT p1

Always(n) == [p \in Provider |-> n]
MCMargin == Always(1)
MCMonthlyLimit == Always(3)
MCPriority == Always(1)
MCCost == Always(0)
MCIdOrder == Always(1)
MCQuotaMargin == Always(1)
MCMinFree == Always(1)
MCMaxObjectSize == Always(2)
=============================================================================
