----------------------------- MODULE MCGateway -----------------------------
(* Three keys, two of them in a folder; a reader, a writer of one key and a *)
(* credential that is switched off.                                         *)
EXTENDS Gateway

Reader == [role |-> "read-only", permissions |-> {}, bucket |-> TRUE, keys |-> {1, 2, 3}]
Writer == [role |-> "read-write", permissions |-> {}, bucket |-> TRUE, keys |-> {2, 3}]
Elsewhere == [role |-> "read-write", permissions |-> {}, bucket |-> FALSE, keys |-> {1, 2, 3}]
Root == [role |-> "admin", permissions |-> {}, bucket |-> TRUE, keys |-> {1, 2, 3}]
MCInputs == {[grant |-> Root, enabled |-> TRUE, expires |-> Never],
             [grant |-> Reader, enabled |-> TRUE, expires |-> Never],
             [grant |-> Writer, enabled |-> TRUE, expires |-> 1],
             [grant |-> Elsewhere, enabled |-> FALSE, expires |-> Never]}
MCFolderOf == [k \in Key |-> IF k = 1 THEN NoFolder ELSE "f"]
MCSelection == {{1, 2, 3}}
=============================================================================
