---------------------------- MODULE MCWebSession ----------------------------
(* A browser with a few interchangeable tabs. *)
EXTENDS WebSession, TLC

Symmetry == Permutations(Tabs)
=============================================================================
