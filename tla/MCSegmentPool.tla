---------------------------- MODULE MCSegmentPool ----------------------------
(* Model-checking instance of SegmentPool. *)
EXTENDS SegmentPool

=============================================================================
