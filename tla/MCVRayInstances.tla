--------------------------- MODULE MCVRayInstances ---------------------------
(* Two modules, three addresses and a table of two slots: it can be full. *)
EXTENDS VRayInstances, TLC

Symmetry == Permutations(Renderers)
=============================================================================
