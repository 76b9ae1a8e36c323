--------------------------- MODULE MCMaintenance ---------------------------
(* An account with a foreign body, one to copy to, and a worker.             *)
EXTENDS Maintenance

CONSTANTS src, dst, w1
=============================================================================
