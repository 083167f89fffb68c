---------------------------- MODULE FileTransfer -----------------------------
(***************************************************************************)
(* What a client of the cached proxy is promised for one request,          *)
(* whatever happens between the proxy and the cache: at most one header,   *)
(* FILE_NOT_FOUND only for a file the cache lacks, else OK with the true   *)
(* length; after OK the bytes of the file, each once and in order; the     *)
(* request counts as complete only when all of them were sent.  It may be  *)
(* broken off, and (see ShmChannel) it may hang: nothing here is fair.     *)
(***************************************************************************)
EXTENDS Integers, Sequences

CONSTANT FileLens   (* lengths the file may have; -1: no such file          *)

VARIABLES fileLen, header, out, status

vars == <<fileLen, header, out, status>>

NoHeader == [status |-> "none", length |-> 0]
NotFound == [status |-> "FILE_NOT_FOUND", length |-> 0]
Ok(n)    == [status |-> "OK", length |-> n]

(* The bytes of a file from one position to another. *)
Bytes(from, to) == [i \in 1 .. (to - from + 1) |-> from + i - 1]

Init ==
  /\ fileLen \in FileLens
  /\ header = NoHeader
  /\ out = << >>
  /\ status = "open"

SendHeader ==
  /\ status = "open" /\ header = NoHeader /\ fileLen >= 0
  /\ header' = Ok(fileLen)
  /\ UNCHANGED <<fileLen, out, status>>

SendNotFound ==
  /\ status = "open" /\ header = NoHeader /\ fileLen < 0
  /\ header' = NotFound
  /\ status' = "complete"
  /\ UNCHANGED <<fileLen, out>>

(* The next n bytes; none, if the connection breaks at once. *)
Deliver(n) ==
  /\ header = Ok(fileLen)
  /\ out' = out \o Bytes(Len(out) + 1, Len(out) + n)

Send ==
  /\ status = "open"
  /\ \E n \in 1 .. (fileLen - Len(out)) : Deliver(n)
  /\ UNCHANGED <<fileLen, header, status>>

Complete ==
  /\ status = "open" /\ header = Ok(fileLen) /\ Len(out) = fileLen
  /\ status' = "complete"
  /\ UNCHANGED <<fileLen, header, out>>

Abort ==
  /\ status = "open"
  /\ \E n \in 0 .. (fileLen - Len(out)) : Deliver(n)
  /\ status' = "aborted"
  /\ UNCHANGED <<fileLen, header>>

Next == SendHeader \/ SendNotFound \/ Send \/ Complete \/ Abort

Spec == Init /\ [][Next]_vars

=============================================================================
