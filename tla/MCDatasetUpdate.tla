-------------------------- MODULE MCDatasetUpdate ---------------------------
(***************************************************************************)
(* Instances of DatasetUpdate for TLC: everybody wants the same name.      *)
(***************************************************************************)
EXTENDS DatasetUpdate, TLC

TheName == {<<>>}

Symmetry == Permutations(Updates) \cup Permutations(Imports)
=============================================================================
