------------------------------ MODULE MCGetFile ------------------------------
(* Model-checking instance of GetFile. *)
EXTENDS GetFile

OneProgram == {1}
TwoEach == <<2>>
(* Three files; asked for are one of them and a path it is a front of.      *)
SomePaths == {<<1>>, <<1, 2>>}
SomeFiles == <<[key |-> <<0>>, len |-> 0], [key |-> <<1>>, len |-> 2], [key |-> <<3>>, len |-> 1]>>

(* The binary search against what it is for. *)
Keys == {<<>>, <<0>>, <<0, 1>>, <<1>>, <<1, 0>>, <<2>>}
ASSUME ContentGetFinds ==
  \A key \in Keys :
    LET i == content_get(key) IN
    IF \E j \in 1 .. Len(content) : content[j].key = key
    THEN i \in 1 .. Len(content) /\ content[i].key = key ELSE i = 0

=============================================================================
