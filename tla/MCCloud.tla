------------------------------- MODULE MCCloud --------------------------------
(* Bounds for CloudUpload: see the .cfg files. *)
EXTENDS CloudUpload
=============================================================================
