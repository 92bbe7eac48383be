----------------------------- MODULE MCBasicAuth -----------------------------
(* Small instances of BasicAuth for TLC. *)
EXTENDS BasicAuth, TLC

Symmetry == Permutations(Requests) \cup Permutations(Seeds)
=============================================================================
