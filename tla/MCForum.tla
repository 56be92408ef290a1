------------------------------ MODULE MCForum ------------------------------
(* Forum with two identities and texts of one and of two chunks.           *)
EXTENDS Forum, TLC

MCTexts  == {"short", "long"}
MCChunks == [t \in MCTexts |-> IF t = "long" THEN 2 ELSE 1]
Symmetry == Permutations(Tokens)
=============================================================================
