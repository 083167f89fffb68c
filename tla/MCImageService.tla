--------------------------- MODULE MCImageService ---------------------------
(* Model-checking instance of ImageService. *)
EXTENDS ImageService
=============================================================================
