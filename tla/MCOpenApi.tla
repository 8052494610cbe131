----------------------------- MODULE MCOpenApi -----------------------------
(* Instances of OpenApi for TLC.                                           *)
EXTENDS OpenApi, TLC

Symmetry == Permutations(Keys) \cup Permutations(Requests) \cup Permutations(Nonces)
=============================================================================
