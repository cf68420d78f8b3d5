------------------------- MODULE MCEvidenceAuthority -------------------------
(* Model values for TLC: interchangeable commands.                         *)
EXTENDS EvidenceAuthority, TLC

WorkSymmetry == Permutations(Works)
=============================================================================
