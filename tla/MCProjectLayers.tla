-------------------------- MODULE MCProjectLayers ---------------------------
(***************************************************************************)
(* Instances of ProjectLayers for TLC.  Requests and layers are            *)
(* interchangeable, and the properties checked claim nothing once a        *)
(* request has overtaken another, so states beyond that are not explored.  *)
(***************************************************************************)
EXTENDS ProjectLayers

Symmetry == Permutations(Requests) \cup Permutations(Layers)

Claimed == ~overtaken
=============================================================================
