---------------------------- MODULE MCFileServer -----------------------------
(* Model-checking instances of FileServer. *)
EXTENDS FileServer

(* A missing file, an empty one, and one of two buffers. *)
SomeLens == {-1, 0, 2}
Found    == {1}

=============================================================================
