------------------------------ MODULE MCUpload ------------------------------
(* Two uploads that do not fit together on the first of two accounts.       *)
EXTENDS Upload

CONSTANTS p1, p2, u1, u2

Always(n) == [p \in Provider |-> n]
MCReservationID == Upload \X Provider
MCSizeOf == [u \in Upload |-> IF u = u1 THEN 2 ELSE 1]
MCMargin == Always(0)
MCMonthlyLimit == Always(2)
MCPriority == Always(1)
MCCost == Always(0)
MCIdOrder == [p \in Provider |-> IF p = p1 THEN 1 ELSE 2]
MCMaxObjectSize == Always(0)
=============================================================================
