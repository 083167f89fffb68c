---------------------------- MODULE MCShmChannel -----------------------------
(* Model-checking instances of ShmChannel: the lengths a file may have.     *)
EXTENDS ShmChannel

(* A miss, an empty file, and files of up to three chunks, full and partial. *)
AllLens   == -1 .. 5
FoundLens == {3}

=============================================================================
