------------------------ MODULE MCEmailVerification ------------------------
(* Email verification on small sets of interchangeable model values.        *)
EXTENDS EmailVerification, TLC

Symmetry == Permutations(Users) \cup Permutations(Tokens) \cup Permutations(Handlers)
=============================================================================
