--------------------------------- MODULE MCRt ---------------------------------
(* Bounds for RtSession: see the .cfg files. *)
EXTENDS RtSession
=============================================================================
