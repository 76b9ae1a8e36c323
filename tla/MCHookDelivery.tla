--------------------------- MODULE MCHookDelivery ---------------------------
(* Two instances and up to two object events.                               *)
EXTENDS HookDelivery

CONSTANTS w1, w2, d1, d2
=============================================================================
