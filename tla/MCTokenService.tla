--------------------------- MODULE MCTokenService ---------------------------
(***************************************************************************)
(* Instances of TokenService for TLC.                                      *)
(***************************************************************************)
EXTENDS TokenService, TLC

(* Handlers, users and tokens are interchangeable.                         *)
Symmetry == Permutations(Handlers) \cup Permutations(Users) \cup Permutations(Tokens)
=============================================================================
