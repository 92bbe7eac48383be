---------------------------- MODULE MCTokenStore ----------------------------
(* Small instances of TokenStore for TLC. *)
EXTENDS TokenStore, TLC

\* Requests, tokens, pads and users are interchangeable.
Symmetry == Permutations(Requests) \cup Permutations(Tokens)
                \cup Permutations(Pads) \cup Permutations(Users)
=============================================================================
