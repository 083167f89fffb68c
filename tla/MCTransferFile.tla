--------------------------- MODULE MCTransferFile ----------------------------
(* Model-checking instance of TransferFile. *)
EXTENDS TransferFile

(* Two clients: a file that fits a socket of two buffers, so that its       *)
(* client may be back before it is accepted, and a longer one.              *)
Two  == 1 .. 2
Lens == <<2, 3>>

=============================================================================
