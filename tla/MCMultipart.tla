----------------------------- MODULE MCMultipart -----------------------------
(* Two parts, and completions that name them, misorder or repeat them.       *)
EXTENDS Multipart, TLC

CONSTANTS r1, r2, r3

MCPartList == {<<>>, <<1>>, <<1, 2>>, <<2, 1>>, <<1, 1>>}
MCSymmetry == Permutations(Request)
=============================================================================
