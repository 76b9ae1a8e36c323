------------------------- MODULE MCObjectProtection -------------------------
(* Two requests on one key, two accounts, a few lock headers.               *)
EXTENDS ObjectProtection, TLC

MCLocks == {[mode |-> "", days |-> 0, hold |-> FALSE],
            [mode |-> "COMPLIANCE", days |-> 1, hold |-> FALSE]}

MCSymmetry == Permutations(Account) \cup Permutations(Request)
=============================================================================
