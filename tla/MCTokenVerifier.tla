-------------------------- MODULE MCTokenVerifier --------------------------
(* Small instances of TokenVerifier for TLC. *)
EXTENDS TokenVerifier, TLC

CONSTANTS a, b

\* Verifications are interchangeable, and so are the tokens a and b.
VerifierSymmetry == Permutations(Slots) \cup Permutations({a, b})
=============================================================================
