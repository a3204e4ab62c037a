-------------------------------- MODULE MCIpr --------------------------------
(* Bounds for IprSession: see the .cfg files. *)
EXTENDS IprSession
=============================================================================
