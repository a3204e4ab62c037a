----------------------------- MODULE MCImdisplay -----------------------------
(* Bounds for ImdisplaySystem: see the .cfg files. *)
EXTENDS ImdisplaySystem
=============================================================================
