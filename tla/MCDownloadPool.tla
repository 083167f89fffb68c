--------------------------- MODULE MCDownloadPool ---------------------------
(* Model-checking instance of DownloadPool, with the operations of Steque   *)
(* compared to those of sequences.                                          *)
EXTENDS DownloadPool

TwoPaths == <<"/a", "/b">>

Fresh(s) == CHOOSE n \in 1 .. s.N + 1 : n \notin DOMAIN s.node
(* Lists that up to five operations make, with their sequences of items.    *)
Lists[n \in 0 .. 5] ==
  IF n = 0 THEN {<<steque_init, <<>>>>}
  ELSE UNION {
    {<<steque_enqueue(l[1], Fresh(l[1]), n), Append(l[2], n)>>,
     <<steque_push(l[1], Fresh(l[1]), n), <<n>> \o l[2]>>}
    \cup (IF l[2] = <<>> THEN {<<steque_cycle(l[1]), l[2]>>}
          ELSE {<<steque_pop(l[1]), Tail(l[2])>>,
                <<steque_cycle(l[1]), Append(Tail(l[2]), Head(l[2]))>>})
    : l \in Lists[n - 1]}

Nodes(s) == [k \in 1 .. s.N |-> CHOOSE m \in DOMAIN s.node :
  \E at \in [1 .. s.N -> DOMAIN s.node] :
    at[1] = s.front /\ at[k] = m /\ \A j \in 1 .. s.N - 1 : at[j + 1] = s.node[at[j]].next]

ASSUME StequeIsSequence ==
  \A n \in 0 .. 5 : \A l \in Lists[n] :
    /\ Holds(l[1], Nodes(l[1])) /\ Items(l[1], Nodes(l[1])) = l[2]
    /\ steque_isempty(l[1]) = (l[2] = <<>>)
    /\ l[2] # <<>> => steque_front(l[1]) = Head(l[2])

=============================================================================
