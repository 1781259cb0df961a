--------------------------- MODULE MCExactPayload ---------------------------
(* Exact payloads on a small instance: see README.md for its bounds.         *)
EXTENDS ExactPayload, TLC

PayloadSymmetry == Permutations(Tasks) \union Permutations(Texts) \union Permutations(Calls)
=============================================================================
