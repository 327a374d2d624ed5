---------------------------- MODULE MCInstallation ----------------------------
(* Installation on a small directory; commands are alike, and so are kinds. *)
EXTENDS Installation, TLC

Symmetry == Permutations(Commands) \cup Permutations(Kinds)
===============================================================================
