----------------------------- MODULE MCUploads -----------------------------
(* Uploads on small sets of model values; ids, requests and workers are     *)
(* interchangeable.                                                         *)
EXTENDS Uploads, TLC

Symmetry == Permutations(Uploads) \cup Permutations(Handlers) \cup Permutations(Cleaners)
=============================================================================
