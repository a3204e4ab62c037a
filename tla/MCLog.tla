-------------------------------- MODULE MCLog ---------------------------------
(* Bounds for LogThread: see the .cfg files. *)
EXTENDS LogThread
=============================================================================
