------------------------------- MODULE Steque -------------------------------
(* The linked list of steque.c: a record of its fields and of the allocated *)
(* nodes.  An operation that calls malloc is given the node it returns; one *)
(* that exits on an empty list is used where front is not NULL.             *)
EXTENDS Integers, Sequences

NULL == 0

steque_init == [front |-> NULL, back |-> NULL, N |-> 0, node |-> [n \in {} |-> NULL]]

steque_enqueue(s, n, item) ==
  [front |-> IF s.back = NULL THEN n ELSE s.front,
   back |-> n,
   N |-> s.N + 1,
   node |-> [m \in DOMAIN s.node \cup {n} |->
              IF m = n THEN [item |-> item, next |-> NULL]
              ELSE IF m = s.back THEN [item |-> s.node[m].item, next |-> n]
              ELSE s.node[m]]]

steque_push(s, n, item) ==
  [front |-> n,
   back |-> IF s.back = NULL THEN n ELSE s.back,
   N |-> s.N + 1,
   node |-> [m \in DOMAIN s.node \cup {n} |->
              IF m = n THEN [item |-> item, next |-> s.front] ELSE s.node[m]]]

steque_isempty(s) == s.N = 0

steque_front(s) == s.node[s.front].item

steque_pop(s) ==
  LET next == s.node[s.front].next IN
  [front |-> next,
   back |-> IF next = NULL THEN NULL ELSE s.back,
   N |-> s.N - 1,
   node |-> [m \in DOMAIN s.node \ {s.front} |-> s.node[m]]]

(* The front node becomes the last one.  The link from the back is set      *)
(* first: it is also where a single node finds its new front.               *)
steque_cycle(s) ==
  IF s.back = NULL THEN s
  ELSE LET next(m) == IF m = s.back THEN s.front ELSE s.node[m].next IN
       [front |-> next(s.front),
        back |-> s.front,
        N |-> s.N,
        node |-> [m \in DOMAIN s.node |->
                   [item |-> s.node[m].item,
                    next |-> IF m = s.front THEN NULL ELSE next(m)]]]

-----------------------------------------------------------------------------
(* What the list stands for: its nodes in order, and the items in them.     *)
Holds(s, nodes) ==
  /\ nodes \in Seq(DOMAIN s.node)
  /\ \A m \in DOMAIN s.node : \E k \in 1 .. Len(nodes) : nodes[k] = m
  /\ \A j, k \in 1 .. Len(nodes) : nodes[j] = nodes[k] => j = k
  /\ NULL \notin DOMAIN s.node
  /\ s.N = Len(nodes)
  /\ s.front = IF nodes = <<>> THEN NULL ELSE nodes[1]
  /\ s.back = IF nodes = <<>> THEN NULL ELSE nodes[Len(nodes)]
  /\ \A k \in 1 .. Len(nodes) :
       s.node[nodes[k]].next = IF k = Len(nodes) THEN NULL ELSE nodes[k + 1]

Items(s, nodes) == [k \in 1 .. Len(nodes) |-> s.node[nodes[k]].item]

=============================================================================
