---------------------------- MODULE MCResetFlow ----------------------------
(* Small instances of ResetFlow for TLC. *)
EXTENDS ResetFlow, TLC

Symmetry == Permutations(Requests) \cup Permutations(Users)
                \cup Permutations(Tokens) \cup Permutations(Passwords)
=============================================================================
