----------------------------- MODULE MCSeeding -----------------------------
(* The fixture of the end-to-end tests, filled by two commands that may be *)
(* started three times in all.                                             *)
EXTENDS Seeding

Symmetry == Permutations(Commands)
=============================================================================
