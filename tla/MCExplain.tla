------------------------------- MODULE MCExplain -------------------------------
(* Instances of Explanations for TLC. *)
EXTENDS Explanations

CONSTANTS k1, k2, k3, r1, r2, s1, s2

TwoOnFront == <<k1, k2>>
=============================================================================
