------------------------- MODULE DownloadPoolProofs --------------------------
(* Proofs about DownloadPool for any number of threads, of requests and of  *)
(* paths, on the linked list itself.                                        *)
EXTENDS DownloadPool, SequenceTheorems, FiniteSetTheorems, TLAPS

-----------------------------------------------------------------------------
(* The linked list of steque.c is a sequence: whatever list of nodes a      *)
(* steque holds, each operation leaves the list that the operation on       *)
(* sequences gives, with the same items.                                    *)

(* steque_init makes the empty list. *)
THEOREM InitHolds == Holds(steque_init, <<>>) /\ Items(steque_init, <<>>) = <<>>
BY DEF Holds, Items, steque_init

(* steque_isempty and steque_front are emptiness and head. *)
THEOREM FrontHolds ==
  ASSUME NEW s, NEW nodes, Holds(s, nodes)
  PROVE  /\ steque_isempty(s) <=> nodes = <<>>
         /\ nodes # <<>> => s.front # NULL /\ steque_front(s) = Head(Items(s, nodes))
<1>1. nodes \in Seq(DOMAIN s.node) /\ s.N = Len(nodes) /\ NULL \notin DOMAIN s.node
  BY DEF Holds
<1>2. steque_isempty(s) <=> nodes = <<>>
  BY <1>1 DEF steque_isempty
<1>3. ASSUME nodes # <<>>
      PROVE  s.front # NULL /\ steque_front(s) = Head(Items(s, nodes))
  <2>1. s.front = nodes[1] /\ 1 \in 1 .. Len(nodes)
    BY <1>1, <1>3 DEF Holds
  <2>2. nodes[1] \in DOMAIN s.node
    BY <1>1, <2>1
  <2>3. Head(Items(s, nodes)) = s.node[nodes[1]].item
    BY <1>1, <2>1 DEF Items
  <2> QED BY <1>1, <2>1, <2>2, <2>3 DEF steque_front
<1> QED BY <1>2, <1>3

(* steque_enqueue, given a node that is not in use, appends. *)
THEOREM EnqueueHolds ==
  ASSUME NEW s, NEW nodes, NEW n, NEW item,
         Holds(s, nodes), n # NULL, n \notin DOMAIN s.node
  PROVE  /\ Holds(steque_enqueue(s, n, item), Append(nodes, n))
         /\ Items(steque_enqueue(s, n, item), Append(nodes, n)) = Append(Items(s, nodes), item)
<1> DEFINE t == steque_enqueue(s, n, item)
           l == Append(nodes, n)
           L == Len(nodes)
<1>1. /\ nodes \in Seq(DOMAIN s.node) /\ L \in Nat
      /\ \A k \in 1 .. L : nodes[k] \in DOMAIN s.node /\ nodes[k] # n /\ nodes[k] # NULL
  BY DEF Holds
<1>2. /\ t.N = s.N + 1 /\ t.back = n
      /\ t.front = IF s.back = NULL THEN n ELSE s.front
      /\ DOMAIN t.node = DOMAIN s.node \cup {n}
      /\ t.node[n].item = item /\ t.node[n].next = NULL
      /\ \A m \in DOMAIN s.node : /\ t.node[m].item = s.node[m].item
                                  /\ t.node[m].next = IF m = s.back THEN n ELSE s.node[m].next
  BY DEF steque_enqueue
<1>3. /\ l \in Seq(DOMAIN t.node) /\ Len(l) = L + 1 /\ l[L + 1] = n /\ l # <<>>
      /\ \A k \in 1 .. L : l[k] = nodes[k]
  BY <1>1, <1>2
<1> HIDE DEF t, l
<1>4. \A m \in DOMAIN t.node : \E k \in 1 .. Len(l) : l[k] = m
  <2> SUFFICES ASSUME NEW m \in DOMAIN t.node PROVE \E k \in 1 .. L + 1 : l[k] = m
    BY <1>3
  <2>1. CASE m = n BY <2>1, <1>1, <1>3
  <2>2. CASE m # n
    <3>1. PICK k \in 1 .. L : nodes[k] = m BY <2>2, <1>2 DEF Holds
    <3> QED BY <3>1, <1>1, <1>3
  <2> QED BY <2>1, <2>2
<1>5. \A j, k \in 1 .. Len(l) : l[j] = l[k] => j = k
  <2> SUFFICES ASSUME NEW j \in 1 .. L + 1, NEW k \in 1 .. L + 1, l[j] = l[k] PROVE j = k
    BY <1>3
  <2>1. CASE j \in 1 .. L /\ k \in 1 .. L BY <2>1, <1>3 DEF Holds
  <2>2. CASE j = L + 1 /\ k \in 1 .. L BY <2>2, <1>1, <1>3
  <2>3. CASE k = L + 1 /\ j \in 1 .. L BY <2>3, <1>1, <1>3
  <2> QED BY <2>1, <2>2, <2>3, <1>1
<1>6. t.front = l[1]
  <2>1. CASE nodes = <<>>
    <3>1. s.back = NULL /\ L = 0 BY <2>1 DEF Holds
    <3> QED BY <3>1, <1>2, <1>3
  <2>2. CASE nodes # <<>>
    <3>1. L \in 1 .. L /\ 1 \in 1 .. L BY <2>2, <1>1
    <3>2. s.back = nodes[L] /\ s.front = nodes[1] BY <2>2 DEF Holds
    <3> QED BY <3>1, <3>2, <1>1, <1>2, <1>3
  <2> QED BY <2>1, <2>2
<1>7. \A k \in 1 .. Len(l) : t.node[l[k]].next = IF k = Len(l) THEN NULL ELSE l[k + 1]
  <2> SUFFICES ASSUME NEW k \in 1 .. L + 1
               PROVE  t.node[l[k]].next = IF k = L + 1 THEN NULL ELSE l[k + 1]
    BY <1>3
  <2>1. CASE k = L + 1 BY <2>1, <1>1, <1>2, <1>3
  <2>2. CASE k = L /\ k # 0
    <3>1. nodes # <<>> /\ L \in 1 .. L BY <2>2, <1>1
    <3>2. s.back = nodes[L] BY <3>1 DEF Holds
    <3> QED BY <3>1, <3>2, <2>2, <1>1, <1>2, <1>3
  <2>3. CASE k \in 1 .. L - 1
    <3>1. k \in 1 .. L /\ k + 1 \in 1 .. L /\ L \in 1 .. L /\ nodes # <<>> /\ k # L
      BY <2>3, <1>1
    <3>2. nodes[k] # s.back /\ s.node[nodes[k]].next = nodes[k + 1]
      <4>1. s.back = nodes[L] BY <3>1 DEF Holds
      <4>2. nodes[k] = nodes[L] => k = L BY <3>1 DEF Holds
      <4>3. s.node[nodes[k]].next = IF k = L THEN NULL ELSE nodes[k + 1] BY <3>1 DEF Holds
      <4> QED BY <3>1, <4>1, <4>2, <4>3
    <3>3. l[k] = nodes[k] /\ l[k + 1] = nodes[k + 1] /\ nodes[k] \in DOMAIN s.node
      BY <1>1, <1>3, <3>1
    <3>4. t.node[nodes[k]].next = nodes[k + 1] BY <1>2, <3>2, <3>3
    <3>5. k # L + 1 BY <1>1, <2>3
    <3> QED BY <3>3, <3>4, <3>5
  <2> QED BY <2>1, <2>2, <2>3, <1>1
<1>8. Holds(t, l)
  <2>1. s.N = L /\ NULL \notin DOMAIN s.node BY DEF Holds
  <2>2. t.N = Len(l) /\ NULL \notin DOMAIN t.node /\ t.back = l[Len(l)]
    BY <2>1, <1>2, <1>3
  <2> QED BY <2>2, <1>3, <1>4, <1>5, <1>6, <1>7 DEF Holds
<1>9. Items(t, l) = Append(Items(s, nodes), item)
  <2>1. \A k \in 1 .. L + 1 :
          t.node[l[k]].item = IF k = L + 1 THEN item ELSE s.node[nodes[k]].item
    BY <1>1, <1>2, <1>3
  <2>2. Items(t, l) = [k \in 1 .. L + 1 |-> IF k = L + 1 THEN item ELSE s.node[nodes[k]].item]
    BY <2>1, <1>3 DEF Items
  <2>3. Append(Items(s, nodes), item)
          = [k \in 1 .. L + 1 |-> IF k = L + 1 THEN item ELSE s.node[nodes[k]].item]
    BY <1>1 DEF Items
  <2> QED BY <2>2, <2>3
<1> QED BY <1>8, <1>9 DEF t, l

(* steque_push, given a node that is not in use, puts it in front. *)
THEOREM PushHolds ==
  ASSUME NEW s, NEW nodes, NEW n, NEW item,
         Holds(s, nodes), n # NULL, n \notin DOMAIN s.node
  PROVE  /\ Holds(steque_push(s, n, item), <<n>> \o nodes)
         /\ Items(steque_push(s, n, item), <<n>> \o nodes) = <<item>> \o Items(s, nodes)
<1> DEFINE t == steque_push(s, n, item)
           l == <<n>> \o nodes
           L == Len(nodes)
<1>1. /\ nodes \in Seq(DOMAIN s.node) /\ L \in Nat
      /\ \A k \in 1 .. L : nodes[k] \in DOMAIN s.node /\ nodes[k] # n /\ nodes[k] # NULL
  BY DEF Holds
<1>2. /\ t.N = s.N + 1 /\ t.front = n
      /\ t.back = IF s.back = NULL THEN n ELSE s.back
      /\ DOMAIN t.node = DOMAIN s.node \cup {n}
      /\ t.node[n].item = item /\ t.node[n].next = s.front
      /\ \A m \in DOMAIN s.node : t.node[m] = s.node[m]
  BY DEF steque_push
<1>3. /\ l \in Seq(DOMAIN t.node) /\ Len(l) = L + 1 /\ l[1] = n /\ l # <<>>
      /\ \A k \in 1 .. L : l[k + 1] = nodes[k]
      /\ \A k \in 2 .. L + 1 : k - 1 \in 1 .. L /\ l[k] = nodes[k - 1]
  BY <1>1, <1>2
<1> HIDE DEF t, l
<1>4. \A m \in DOMAIN t.node : \E k \in 1 .. Len(l) : l[k] = m
  <2> SUFFICES ASSUME NEW m \in DOMAIN t.node PROVE \E k \in 1 .. L + 1 : l[k] = m
    BY <1>3
  <2>1. CASE m = n BY <2>1, <1>1, <1>3
  <2>2. CASE m # n
    <3>1. PICK k \in 1 .. L : nodes[k] = m BY <2>2, <1>2 DEF Holds
    <3>2. k + 1 \in 1 .. L + 1 /\ l[k + 1] = m BY <3>1, <1>1, <1>3
    <3> QED BY <3>2
  <2> QED BY <2>1, <2>2
<1>5. \A j, k \in 1 .. Len(l) : l[j] = l[k] => j = k
  <2> SUFFICES ASSUME NEW j \in 1 .. L + 1, NEW k \in 1 .. L + 1, l[j] = l[k] PROVE j = k
    BY <1>3
  <2>1. CASE j \in 2 .. L + 1 /\ k \in 2 .. L + 1
    <3>1. j - 1 \in 1 .. L /\ k - 1 \in 1 .. L /\ nodes[j - 1] = nodes[k - 1] BY <2>1, <1>3
    <3>2. \A a, b \in 1 .. L : nodes[a] = nodes[b] => a = b BY DEF Holds
    <3>3. j - 1 = k - 1 BY <3>1, <3>2, SMTT(30)
    <3> QED BY <3>3, <1>1
  <2>2. CASE j = 1 /\ k \in 2 .. L + 1 BY <2>2, <1>1, <1>3
  <2>3. CASE k = 1 /\ j \in 2 .. L + 1 BY <2>3, <1>1, <1>3
  <2> QED BY <2>1, <2>2, <2>3, <1>1
<1>6. t.back = l[Len(l)]
  <2>1. CASE nodes = <<>>
    <3>1. s.back = NULL /\ L = 0 BY <2>1 DEF Holds
    <3> QED BY <3>1, <1>2, <1>3
  <2>2. CASE nodes # <<>>
    <3>1. L \in 1 .. L /\ L + 1 \in 2 .. L + 1 BY <2>2, <1>1
    <3>2. s.back = nodes[L] BY <2>2 DEF Holds
    <3> QED BY <3>1, <3>2, <1>1, <1>2, <1>3
  <2> QED BY <2>1, <2>2
<1>7. \A k \in 1 .. Len(l) : t.node[l[k]].next = IF k = Len(l) THEN NULL ELSE l[k + 1]
  <2> SUFFICES ASSUME NEW k \in 1 .. L + 1
               PROVE  t.node[l[k]].next = IF k = L + 1 THEN NULL ELSE l[k + 1]
    BY <1>3
  <2>1. CASE k = 1
    <3>1. s.front = IF L = 0 THEN NULL ELSE nodes[1] BY <1>1 DEF Holds
    <3> QED BY <2>1, <3>1, <1>1, <1>2, <1>3
  <2>2. CASE k \in 2 .. L + 1
    <3>1. /\ k - 1 \in 1 .. L /\ l[k] = nodes[k - 1]
          /\ t.node[l[k]].next = s.node[nodes[k - 1]].next
      BY <2>2, <1>1, <1>2, <1>3
    <3>2. s.node[nodes[k - 1]].next = IF k - 1 = L THEN NULL ELSE nodes[(k - 1) + 1]
      BY <3>1 DEF Holds
    <3>3. k # L + 1 => k \in 1 .. L /\ l[k + 1] = nodes[k] BY <2>2, <1>1, <1>3
    <3> QED BY <3>1, <3>2, <3>3, <1>1
  <2> QED BY <2>1, <2>2, <1>1
<1>8. Holds(t, l)
  <2>1. s.N = L /\ NULL \notin DOMAIN s.node BY DEF Holds
  <2>2. t.N = Len(l) /\ NULL \notin DOMAIN t.node /\ t.front = l[1]
    BY <2>1, <1>2, <1>3
  <2> QED BY <2>2, <1>3, <1>4, <1>5, <1>6, <1>7 DEF Holds
<1>9. Items(t, l) = <<item>> \o Items(s, nodes)
  <2>1. \A k \in 1 .. L + 1 :
          t.node[l[k]].item = IF k = 1 THEN item ELSE s.node[nodes[k - 1]].item
    BY <1>1, <1>2, <1>3
  <2>2. Items(t, l) = [k \in 1 .. L + 1 |-> IF k = 1 THEN item ELSE s.node[nodes[k - 1]].item]
    BY <2>1, <1>3 DEF Items
  <2>3. /\ Items(s, nodes) = [k \in 1 .. L |-> s.node[nodes[k]].item]
        /\ Len(Items(s, nodes)) = L
    BY <1>1 DEF Items
  <2>4. <<item>> \o Items(s, nodes)
          = [k \in 1 .. L + 1 |-> IF k = 1 THEN item ELSE s.node[nodes[k - 1]].item]
    BY <2>3, <1>1
  <2> QED BY <2>2, <2>4
<1> QED BY <1>8, <1>9 DEF t, l

LEMMA OneOrMore == ASSUME NEW x \in Nat, x >= 1 PROVE x = 1 \/ x > 1
OBVIOUS

(* steque_pop takes the first node away. *)
THEOREM PopHolds ==
  ASSUME NEW s, NEW nodes, Holds(s, nodes), nodes # <<>>
  PROVE  /\ Holds(steque_pop(s), Tail(nodes))
         /\ Items(steque_pop(s), Tail(nodes)) = Tail(Items(s, nodes))
<1> DEFINE t == steque_pop(s)
           l == Tail(nodes)
           L == Len(nodes)
<1>0. L \in Nat /\ L >= 1
  BY DEF Holds
<1>1. /\ nodes \in Seq(DOMAIN s.node) /\ L \in Nat \ {0} /\ s.front = nodes[1]
      /\ s.back = nodes[L] /\ s.N = L /\ NULL \notin DOMAIN s.node
      /\ \A k \in 1 .. L : nodes[k] \in DOMAIN s.node /\ nodes[k] # NULL
      /\ \A k \in 2 .. L : nodes[k] # nodes[1]
  <2>1. nodes \in Seq(DOMAIN s.node) /\ s.N = L /\ NULL \notin DOMAIN s.node
    BY DEF Holds
  <2>2. s.front = nodes[1] /\ s.back = nodes[L]
    BY DEF Holds
  <2>3. \A k \in 1 .. L : nodes[k] \in DOMAIN s.node /\ nodes[k] # NULL
    BY <2>1
  <2>4. \A k \in 2 .. L : nodes[k] # nodes[1]
    <3> SUFFICES ASSUME NEW k \in 2 .. L, nodes[k] = nodes[1] PROVE FALSE
      OBVIOUS
    <3>1. k \in 1 .. L /\ 1 \in 1 .. L /\ k # 1 BY <1>0
    <3> QED BY <3>1 DEF Holds
  <2> QED BY <1>0, <2>1, <2>2, <2>3, <2>4
<1>2. \A k \in 1 .. L : s.node[nodes[k]].next = IF k = L THEN NULL ELSE nodes[k + 1]
  BY <1>1 DEF Holds
<1>3. /\ t.N = s.N - 1 /\ t.front = s.node[s.front].next
      /\ t.back = IF t.front = NULL THEN NULL ELSE s.back
      /\ DOMAIN t.node = DOMAIN s.node \ {nodes[1]}
      /\ \A m \in DOMAIN t.node : t.node[m] = s.node[m]
  BY <1>1 DEF steque_pop
<1>4. /\ Len(l) = L - 1 /\ DOMAIN l = 1 .. L - 1
      /\ \A k \in 1 .. L - 1 : k + 1 \in 2 .. L /\ l[k] = nodes[k + 1]
      /\ l \in Seq(DOMAIN s.node)
  BY <1>1
<1> HIDE DEF t, l
<1>5. l \in Seq(DOMAIN t.node)
  <2>1. \A k \in 1 .. L - 1 : l[k] \in DOMAIN t.node BY <1>1, <1>3, <1>4
  <2> QED BY <2>1, <1>1, <1>4
<1>6. \A m \in DOMAIN t.node : \E k \in 1 .. Len(l) : l[k] = m
  <2> SUFFICES ASSUME NEW m \in DOMAIN t.node PROVE \E k \in 1 .. L - 1 : l[k] = m
    BY <1>4
  <2>1. PICK k \in 1 .. L : nodes[k] = m BY <1>3 DEF Holds
  <2>2. k # 1 BY <2>1, <1>3
  <2>3. k - 1 \in 1 .. L - 1 /\ l[k - 1] = m BY <2>1, <2>2, <1>1, <1>4
  <2> QED BY <2>3
<1>7. \A j, k \in 1 .. Len(l) : l[j] = l[k] => j = k
  <2> SUFFICES ASSUME NEW j \in 1 .. L - 1, NEW k \in 1 .. L - 1, l[j] = l[k] PROVE j = k
    BY <1>4
  <2>1. j + 1 \in 1 .. L /\ k + 1 \in 1 .. L /\ nodes[j + 1] = nodes[k + 1] BY <1>1, <1>4
  <2>2. j + 1 = k + 1 BY <2>1 DEF Holds
  <2> QED BY <2>2
<1>8. t.front = (IF l = <<>> THEN NULL ELSE l[1]) /\ t.back = (IF l = <<>> THEN NULL ELSE l[Len(l)])
  <2>1. CASE L = 1
    <3>1. t.front = NULL /\ t.back = NULL BY <2>1, <1>1, <1>2, <1>3
    <3>2. l = <<>> BY <2>1, <1>4
    <3> QED BY <3>1, <3>2
  <2>2. CASE L > 1
    <3>1. 1 \in 1 .. L /\ 2 \in 1 .. L /\ L - 1 \in 1 .. L - 1 /\ 1 \in 1 .. L - 1
      BY <2>2, <1>0
    <3>2. s.node[nodes[1]].next = nodes[2] BY <2>2, <3>1, <1>2
    <3>3. t.front = nodes[2] /\ t.front # NULL BY <3>1, <3>2, <1>1, <1>3
    <3>4. t.back = nodes[L] BY <3>3, <1>1, <1>3
    <3>5. l # <<>> /\ l[1] = nodes[2] /\ l[Len(l)] = nodes[L] BY <3>1, <1>1, <1>4
    <3> QED BY <3>3, <3>4, <3>5
  <2> QED BY <2>1, <2>2, <1>0, OneOrMore
<1>9. \A k \in 1 .. Len(l) : t.node[l[k]].next = IF k = Len(l) THEN NULL ELSE l[k + 1]
  <2> SUFFICES ASSUME NEW k \in 1 .. L - 1
               PROVE  t.node[l[k]].next = IF k = L - 1 THEN NULL ELSE l[k + 1]
    BY <1>4
  <2>1. t.node[l[k]].next = s.node[nodes[k + 1]].next BY <1>1, <1>3, <1>4
  <2>2. s.node[nodes[k + 1]].next = IF k + 1 = L THEN NULL ELSE nodes[(k + 1) + 1]
    BY <1>1, <1>2, <1>4
  <2>3. k # L - 1 => k + 1 \in 1 .. L - 1 /\ l[k + 1] = nodes[(k + 1) + 1] BY <1>1, <1>4
  <2> QED BY <2>1, <2>2, <2>3, <1>1
<1>10. Holds(t, l)
  <2>1. t.N = Len(l) /\ NULL \notin DOMAIN t.node BY <1>1, <1>3, <1>4
  <2> QED BY <2>1, <1>5, <1>6, <1>7, <1>8, <1>9 DEF Holds
<1>11. Items(t, l) = Tail(Items(s, nodes))
  <2>1. \A k \in 1 .. L - 1 : t.node[l[k]].item = s.node[nodes[k + 1]].item
    BY <1>1, <1>3, <1>4
  <2>2. Items(t, l) = [k \in 1 .. L - 1 |-> s.node[nodes[k + 1]].item]
    BY <2>1, <1>4 DEF Items
  <2>3. Tail(Items(s, nodes)) = [k \in 1 .. L - 1 |-> s.node[nodes[k + 1]].item]
    BY <1>1 DEF Items
  <2> QED BY <2>2, <2>3
<1> QED BY <1>10, <1>11 DEF t, l

(* A sequence is the function from its indices to its elements. *)
LEMMA SeqIsFunction ==
  ASSUME NEW S, NEW r \in Seq(S)
  PROVE  r = [k \in 1 .. Len(r) |-> r[k]]
BY LenProperties

(* A sequence with its head moved to the end. *)
LEMMA Rotate ==
  ASSUME NEW S, NEW q \in Seq(S), q # <<>>
  PROVE  Append(Tail(q), Head(q))
           = [k \in 1 .. Len(q) |-> q[IF k = Len(q) THEN 1 ELSE k + 1]]
<1> DEFINE t == Tail(q)
           h == Head(q)
           n == Len(q)
<1>1. n \in Nat \ {0} /\ t \in Seq(S) /\ Len(t) = n - 1 /\ h \in S
  OBVIOUS
<1>2. h = q[1] /\ \A k \in 1 .. n - 1 : t[k] = q[k + 1]
  BY <1>1
<1> HIDE DEF t, h, n
<1>3. Append(t, h) = [k \in 1 .. n |-> IF k = n THEN h ELSE t[k]]
  <2>1. /\ Append(t, h) \in Seq(S) /\ Len(Append(t, h)) = n
        /\ \A k \in 1 .. n : Append(t, h)[k] = IF k = n THEN h ELSE t[k]
    BY <1>1, AppendProperties
  <2> DEFINE r == Append(t, h)
  <2> HIDE DEF r
  <2>2. r = [k \in 1 .. n |-> r[k]]
    <3>1. r \in Seq(S) /\ Len(r) = n BY <2>1 DEF r
    <3> QED BY <3>1, SeqIsFunction
  <2> QED BY <2>1, <2>2 DEF r
<1>4. \A k \in 1 .. n : (IF k = n THEN h ELSE t[k]) = q[IF k = n THEN 1 ELSE k + 1]
  BY <1>1, <1>2
<1>5. Append(t, h) = [k \in 1 .. n |-> q[IF k = n THEN 1 ELSE k + 1]]
  BY <1>3, <1>4
<1> QED BY <1>5 DEF t, h, n

(* steque_cycle moves the first node to the end; also a single one. *)
THEOREM CycleHolds ==
  ASSUME NEW s, NEW nodes, Holds(s, nodes), nodes # <<>>
  PROVE  /\ Holds(steque_cycle(s), Append(Tail(nodes), Head(nodes)))
         /\ Items(steque_cycle(s), Append(Tail(nodes), Head(nodes)))
              = Append(Tail(Items(s, nodes)), Head(Items(s, nodes)))
<1> DEFINE t == steque_cycle(s)
           l == Append(Tail(nodes), Head(nodes))
           L == Len(nodes)
           At(k) == IF k = L THEN 1 ELSE k + 1
<1>1. /\ nodes \in Seq(DOMAIN s.node) /\ L \in Nat \ {0} /\ s.front = nodes[1]
      /\ s.back = nodes[L] /\ s.N = L /\ NULL \notin DOMAIN s.node
      /\ \A k \in 1 .. L : nodes[k] \in DOMAIN s.node /\ nodes[k] # NULL
  <2>1. nodes \in Seq(DOMAIN s.node) /\ s.N = L /\ NULL \notin DOMAIN s.node
    BY DEF Holds
  <2>2. s.front = nodes[1] /\ s.back = nodes[L]
    BY DEF Holds
  <2>3. L \in Nat \ {0} /\ \A k \in 1 .. L : nodes[k] \in DOMAIN s.node /\ nodes[k] # NULL
    BY <2>1
  <2> QED BY <2>1, <2>2, <2>3
<1>2. \A j, k \in 1 .. L : nodes[j] = nodes[k] => j = k
  BY DEF Holds
<1>3. \A k \in 1 .. L : s.node[nodes[k]].next = IF k = L THEN NULL ELSE nodes[k + 1]
  BY <1>1 DEF Holds
<1>4. 1 \in 1 .. L /\ L \in 1 .. L /\ s.back # NULL
  BY <1>1
<1>5. /\ t.N = s.N /\ t.back = nodes[1]
      /\ t.front = IF nodes[1] = nodes[L] THEN nodes[1] ELSE s.node[nodes[1]].next
      /\ DOMAIN t.node = DOMAIN s.node
      /\ \A m \in DOMAIN s.node :
           /\ t.node[m].item = s.node[m].item
           /\ t.node[m].next = IF m = nodes[1] THEN NULL
                               ELSE IF m = nodes[L] THEN nodes[1] ELSE s.node[m].next
  BY <1>1, <1>4 DEF steque_cycle
<1>6. /\ l \in Seq(DOMAIN s.node) /\ Len(l) = L /\ l # <<>>
      /\ \A k \in 1 .. L : At(k) \in 1 .. L /\ l[k] = nodes[At(k)]
  BY <1>1, <1>4
<1> HIDE DEF t, l
<1>7. \A m \in DOMAIN t.node : \E k \in 1 .. Len(l) : l[k] = m
  <2> SUFFICES ASSUME NEW m \in DOMAIN t.node PROVE \E k \in 1 .. L : l[k] = m
    BY <1>6
  <2>1. PICK k \in 1 .. L : nodes[k] = m BY <1>5 DEF Holds
  <2>2. CASE k = 1 BY <2>1, <2>2, <1>4, <1>6
  <2>3. CASE k # 1
    <3>1. k - 1 \in 1 .. L /\ At(k - 1) = k BY <2>3, <1>1
    <3> QED BY <2>1, <3>1, <1>6
  <2> QED BY <2>2, <2>3
<1>8. \A j, k \in 1 .. Len(l) : l[j] = l[k] => j = k
  <2> SUFFICES ASSUME NEW j \in 1 .. L, NEW k \in 1 .. L, l[j] = l[k] PROVE j = k
    BY <1>6
  <2>1. At(j) = At(k) BY <1>2, <1>6
  <2> QED BY <2>1, <1>1
<1>9. t.front = l[1] /\ t.back = l[Len(l)]
  <2>1. l[L] = nodes[1] BY <1>4, <1>6
  <2>2. CASE L = 1 BY <2>1, <2>2, <1>1, <1>4, <1>5, <1>6
  <2>3. CASE L # 1
    <3>1. nodes[1] # nodes[L] BY <2>3, <1>2, <1>4
    <3>2. s.node[nodes[1]].next = nodes[2] BY <2>3, <1>3, <1>4
    <3>3. l[1] = nodes[2] BY <2>3, <1>4, <1>6
    <3> QED BY <2>1, <3>1, <3>2, <3>3, <1>5, <1>6
  <2> QED BY <2>2, <2>3
<1>10. \A k \in 1 .. Len(l) : t.node[l[k]].next = IF k = Len(l) THEN NULL ELSE l[k + 1]
  <2> SUFFICES ASSUME NEW k \in 1 .. L
               PROVE  t.node[l[k]].next = IF k = L THEN NULL ELSE l[k + 1]
    BY <1>6
  <2>1. CASE k = L BY <2>1, <1>1, <1>4, <1>5, <1>6
  <2>2. CASE k # L
    <3>1. k + 1 \in 1 .. L /\ l[k] = nodes[k + 1] /\ k + 1 # 1 /\ l[k + 1] = nodes[At(k + 1)]
      BY <2>2, <1>1, <1>6
    <3>2. nodes[k + 1] # nodes[1] /\ nodes[k + 1] \in DOMAIN s.node BY <3>1, <1>1, <1>2, <1>4
    <3>3. nodes[k + 1] = nodes[L] <=> k + 1 = L BY <3>1, <1>2, <1>4
    <3>4. s.node[nodes[k + 1]].next = IF k + 1 = L THEN NULL ELSE nodes[(k + 1) + 1]
      BY <3>1, <1>3
    <3>5. t.node[nodes[k + 1]].next = IF k + 1 = L THEN nodes[1] ELSE nodes[(k + 1) + 1]
      BY <3>2, <3>3, <3>4, <1>5
    <3> QED BY <2>2, <3>1, <3>5
  <2> QED BY <2>1, <2>2
<1>11. Holds(t, l)
  BY <1>1, <1>5, <1>6, <1>7, <1>8, <1>9, <1>10 DEF Holds
<1>12. Items(t, l) = Append(Tail(Items(s, nodes)), Head(Items(s, nodes)))
  <2>1. \A k \in 1 .. L : t.node[l[k]].item = s.node[nodes[At(k)]].item
    BY <1>1, <1>5, <1>6
  <2>2. Items(t, l) = [k \in 1 .. L |-> s.node[nodes[At(k)]].item]
    BY <2>1, <1>6 DEF Items
  <2>3. /\ Items(s, nodes) \in Seq({s.node[m].item : m \in DOMAIN s.node})
        /\ Len(Items(s, nodes)) = L /\ Items(s, nodes) # <<>>
        /\ \A k \in 1 .. L : Items(s, nodes)[k] = s.node[nodes[k]].item
    BY <1>1, <1>4 DEF Items
  <2>4. Append(Tail(Items(s, nodes)), Head(Items(s, nodes)))
          = [k \in 1 .. L |-> Items(s, nodes)[At(k)]]
    BY <2>3, Rotate
  <2> QED BY <2>2, <2>3, <2>4, <1>6
<1> QED BY <1>11, <1>12 DEF t, l


-----------------------------------------------------------------------------
(* The pool's queue: the numbers of the requests not yet taken. *)
Counters == counter \in Nat /\ numbered \in Nat /\ numbered <= counter

QueueInv == Counters /\ QueueExact

LEMMA LeftIsSeq ==
  ASSUME Counters
  PROVE  /\ Left \in Seq(Nat) /\ Len(Left) = counter - numbered
         /\ Left = <<>> <=> numbered = counter
         /\ \A k \in 1 .. Len(Left) : Left[k] = numbered + k
BY DEF Counters, Left

(* workload_get_path's number makes a new node. *)
LEMMA Appended ==
  ASSUME QueueInv, counter' = counter + 1, numbered' = numbered,
         workq' = steque_enqueue(workq, counter', PathOf(counter'))
  PROVE  QueueInv'
<1>1. Counters' BY DEF QueueInv, Counters
<1>2. counter' # NULL /\ counter' \notin DOMAIN workq.node
  <2> SUFFICES ASSUME counter' \in DOMAIN workq.node PROVE FALSE
    BY DEF QueueInv, Counters, NULL
  <2>1. PICK k \in 1 .. Len(Left) : Left[k] = counter'
    BY DEF QueueInv, QueueExact, Holds
  <2> QED BY <2>1, LeftIsSeq DEF QueueInv, Counters
<1>3. Left' = Append(Left, counter')
  <2> DEFINE n == counter - numbered
             m == numbered
  <2>1. n \in Nat /\ m \in Nat /\ counter' = m + n + 1 /\ counter' - numbered' = n + 1
    BY DEF QueueInv, Counters
  <2>2. Left = [k \in 1 .. n |-> m + k] /\ Left' = [k \in 1 .. counter' - numbered' |-> m + k]
    BY DEF Left
  <2> HIDE DEF n, m
  <2>3. Append([k \in 1 .. n |-> m + k], m + n + 1)
          = [k \in 1 .. n + 1 |-> IF k = n + 1 THEN m + n + 1 ELSE m + k]
    BY <2>1
  <2>4. \A k \in 1 .. n + 1 : (IF k = n + 1 THEN m + n + 1 ELSE m + k) = m + k
    BY <2>1
  <2> QED BY <2>1, <2>2, <2>3, <2>4
<1>4. /\ Holds(workq', Left')
      /\ Items(workq', Left') = Append(Items(workq, Left), PathOf(counter'))
  BY <1>2, <1>3, EnqueueHolds DEF QueueInv, QueueExact
<1>5. Append(Items(workq, Left), PathOf(counter')) = [k \in 1 .. Len(Left') |-> PathOf(Left'[k])]
  <2> DEFINE n == counter - numbered
  <2>1. n \in Nat /\ n + 1 = counter + 1 - numbered /\ numbered + (n + 1) = counter + 1
    BY DEF QueueInv, Counters
  <2>2. Items(workq, Left) = [k \in 1 .. n |-> PathOf(numbered + k)]
    BY LeftIsSeq DEF QueueInv, QueueExact
  <2>3. Len(Left') = n + 1 /\ \A k \in 1 .. n + 1 : Left'[k] = numbered + k
    BY <1>1, <2>1, LeftIsSeq DEF Left, Counters
  <2> HIDE DEF n
  <2>4. Append([k \in 1 .. n |-> PathOf(numbered + k)], PathOf(counter'))
          = [k \in 1 .. n + 1 |-> IF k = n + 1 THEN PathOf(counter') ELSE PathOf(numbered + k)]
    BY <2>1
  <2> QED BY <2>1, <2>2, <2>3, <2>4
<1> QED BY <1>1, <1>4, <1>5 DEF QueueInv, QueueExact

(* A worker that finds the queue not empty gets the first path. *)
LEMMA Popped ==
  ASSUME QueueInv, ~steque_isempty(workq), counter' = counter, numbered' = numbered + 1,
         workq' = steque_pop(workq)
  PROVE  /\ QueueInv'
         /\ numbered < counter
         /\ steque_front(workq) = PathOf(numbered + 1)
<1>1. Left # <<>> BY FrontHolds DEF QueueInv, QueueExact
<1>2. Counters' /\ numbered < counter BY <1>1, LeftIsSeq DEF QueueInv, Counters
<1> DEFINE n == counter - numbered
<1>3. n \in Nat \ {0} /\ n - 1 = counter - (numbered + 1)
  BY <1>2 DEF QueueInv, Counters
<1>4. Items(workq, Left) = [k \in 1 .. n |-> PathOf(numbered + k)]
  BY LeftIsSeq DEF QueueInv, QueueExact
<1>5. steque_front(workq) = PathOf(numbered + 1)
  <2>1. steque_front(workq) = Head(Items(workq, Left))
    BY <1>1, FrontHolds DEF QueueInv, QueueExact
  <2> QED BY <1>3, <1>4, <2>1
<1>6. /\ Holds(workq', Tail(Left)) /\ Items(workq', Tail(Left)) = Tail(Items(workq, Left))
  BY <1>1, PopHolds DEF QueueInv, QueueExact
<1>7. Left' = Tail(Left)
  <2>1. Left' = [k \in 1 .. n - 1 |-> numbered + 1 + k] BY <1>3 DEF Left
  <2>2. Left = [k \in 1 .. n |-> numbered + k] BY DEF Left
  <2>3. numbered \in Nat BY DEF QueueInv, Counters
  <2> HIDE DEF n
  <2>4. Tail([k \in 1 .. n |-> numbered + k]) = [k \in 1 .. n - 1 |-> numbered + (k + 1)]
    BY <1>3, <2>3
  <2> QED BY <2>1, <2>2, <2>3, <2>4, <1>3
<1>8. Tail(Items(workq, Left)) = [k \in 1 .. Len(Left') |-> PathOf(Left'[k])]
  <2>1. Len(Left') = n - 1 /\ \A k \in 1 .. n - 1 : Left'[k] = numbered + 1 + k
    BY <1>2, <1>3, LeftIsSeq DEF Left, Counters
  <2>2. numbered \in Nat BY DEF QueueInv, Counters
  <2> HIDE DEF n
  <2>3. Tail([k \in 1 .. n |-> PathOf(numbered + k)])
          = [k \in 1 .. n - 1 |-> PathOf(numbered + (k + 1))]
    <3> DEFINE P(k) == PathOf(numbered + k)
    <3> HIDE DEF P
    <3>1. Tail([k \in 1 .. n |-> P(k)]) = [k \in 1 .. n - 1 |-> P(k + 1)]
      BY <1>3
    <3> QED BY <3>1 DEF P
  <2>4. \A k \in 1 .. n - 1 : numbered + (k + 1) = numbered + 1 + k BY <1>3, <2>2
  <2> QED BY <2>1, <2>3, <2>4, <1>4
<1> QED BY <1>2, <1>5, <1>6, <1>7, <1>8 DEF QueueInv, QueueExact

LEMMA StepQueue == ASSUME QueueInv, [Next]_vars PROVE QueueInv'
<1>1. CASE Fill
  <2>1. CASE workq.N < Total BY <1>1, <2>1, Appended DEF Fill
  <2>2. CASE ~(workq.N < Total)
    BY <1>1, <2>2 DEF Fill, QueueInv, Counters, QueueExact, Left
  <2> QED BY <2>1, <2>2
<1>2. ASSUME NEW w \in Workers, Take(w) PROVE QueueInv'
  <2>1. CASE More(w) BY <1>2, <2>1, Popped DEF Take, More
  <2>2. CASE ~More(w) BY <1>2, <2>2 DEF Take, QueueInv, Counters, QueueExact, Left
  <2> QED BY <2>1, <2>2
<1>3. ASSUME NEW w \in Workers, OpenFails(w) PROVE QueueInv'
  BY <1>3, Popped DEF OpenFails, More
<1>4. ASSUME UNCHANGED <<counter, workq, numbered>> PROVE QueueInv'
  BY <1>4 DEF QueueInv, Counters, QueueExact, Left
<1> QED
  BY <1>1, <1>2, <1>3, <1>4
  DEF Next, Worker, Create, CreateFails, Join, Perform, Unlink, Status, vars

LEMMA QueueInvariance == Spec => []QueueInv
<1>1. Init => QueueInv
  <2> SUFFICES ASSUME Init PROVE QueueInv
    OBVIOUS
  <2>0. counter = 0 /\ numbered = 0 BY DEF Init
  <2>1. Counters /\ workq = steque_init 
    <3>1. workq = steque_init BY Zenon DEF Init
    <3> QED BY <2>0, <3>1 DEF Counters
  <2>2. Left = <<>> BY <2>0, <2>1, LeftIsSeq
  <2>3. Holds(workq, Left) /\ Items(workq, Left) = <<>> BY <2>1, <2>2, InitHolds
  <2>4. [k \in 1 .. Len(Left) |-> PathOf(Left[k])] = <<>> BY <2>2
  <2> QED BY <2>1, <2>3, <2>4 DEF QueueInv, QueueExact
<1> QED BY <1>1, StepQueue, PTL DEF Spec

(* The linked list is the queue of the paths not taken yet, for any number  *)
(* of threads, requests and paths, through all interleavings.               *)
THEOREM ListIsQueue == Spec => []QueueExact
  BY QueueInvariance, PTL DEF QueueInv

-----------------------------------------------------------------------------
Active == {"perform", "unlink", "status"}

(* No thread runs while main fills the queue, and one that is at a request  *)
(* has not made its last one.                                               *)
Control ==
  /\ boss = "fill" => numbered = 0 /\ \A w \in Workers : pc[w] = "none"
  /\ \A w \in Workers : pc[w] \in Active => i[w] < nrequests

TypeInv == TypeOK /\ Control

LEMMA TotalIsNat == Total \in Nat
  BY DownloadPoolAssumption DEF Total

LEMMA PathOfType == \A n \in Nat : PathOf(n) \in Paths
<1> SUFFICES ASSUME NEW n \in Nat PROVE PathOf(n) \in Paths
  OBVIOUS
<1> DEFINE L == Len(workload)
<1>1. L \in Nat /\ L > 0 BY DownloadPoolAssumption
<1>2. (n % L) + 1 \in 1 .. L
  <2> HIDE DEF L
  <2> QED BY <1>1
<1> QED BY <1>2 DEF PathOf, Paths

(* The taking of a path, by a worker that goes on or ends the process.      *)
LEMMA TakenTypes ==
  ASSUME TypeInv, QueueInv, ~steque_isempty(workq),
         counter' = counter, numbered' = numbered + 1, workq' = steque_pop(workq)
  PROVE  /\ steque_front(workq) \in Paths
         /\ numbered \in 0 .. Total /\ numbered' \in 0 .. Total
<1>1. numbered < counter /\ steque_front(workq) = PathOf(numbered + 1)
  BY Popped
<1>2. counter \in 0 .. Total /\ numbered \in Nat /\ Total \in Nat
  <2>1. counter \in 0 .. Total /\ numbered \in 0 .. Total BY DEF TypeInv, TypeOK
  <2> QED BY <2>1, TotalIsNat
<1>3. PathOf(numbered + 1) \in Paths
  BY <1>2, PathOfType
<1> QED BY <1>1, <1>2, <1>3

LEMMA StepTypes == ASSUME TypeInv, QueueInv, [Next]_vars PROVE TypeInv'
<1> USE DownloadPoolAssumption, TotalIsNat
<1>1. CASE Fill
  <2>1. CASE workq.N < Total
    <3>1. workq.N = counter - numbered /\ numbered = 0 /\ counter \in Nat
      BY <1>1, LeftIsSeq DEF Fill, QueueInv, QueueExact, Counters, Holds, TypeInv, Control
    <3>2. counter' = counter + 1 /\ counter' \in 0 .. Total BY <1>1, <2>1, <3>1 DEF Fill
    <3>3. UNCHANGED <<boss, created, numbered, pc, i, req, result, disk, good>>
      BY <1>1, <2>1 DEF Fill, worker
    <3> QED BY <3>2, <3>3 DEF TypeInv, TypeOK, Control
  <2>2. CASE ~(workq.N < Total)
    <3>1. boss' = "create" BY <1>1, <2>2 DEF Fill
    <3>2. UNCHANGED <<created, counter, numbered, pc, i, req, result, disk, good>>
      BY <1>1, <2>2 DEF Fill, worker
    <3> QED BY <3>1, <3>2 DEF TypeInv, TypeOK, Control
  <2> QED BY <2>1, <2>2
<1>2. CASE Create
  <2>1. /\ boss = "create" /\ boss' = boss /\ created' = created + 1
        /\ pc' = [pc EXCEPT ![created + 1] = "loop"]
        /\ UNCHANGED <<counter, workq, numbered, i, req, result, disk, good>>
    BY <1>2 DEF Create
  <2>2. created' \in 0 .. nthreads 
    <3>1. created < nthreads BY <1>2 DEF Create
    <3>2. created \in 0 .. nthreads BY DEF TypeInv, TypeOK
    <3> QED BY <2>1, <3>1, <3>2
  <2>3. /\ pc' \in [Workers -> {"none", "loop", "perform", "unlink", "status", "end"}]
        /\ \A v \in Workers : pc'[v] \in Active => pc[v] \in Active
    BY <2>1 DEF TypeInv, TypeOK, Active
  <2> QED BY <2>1, <2>2, <2>3 DEF TypeInv, TypeOK, Control
<1>3. CASE CreateFails
  BY <1>3 DEF CreateFails, worker, TypeInv, TypeOK, Control
<1>4. CASE Join
  BY <1>4 DEF Join, worker, TypeInv, TypeOK, Control
<1>5. ASSUME NEW w \in Workers, Take(w) PROVE TypeInv'
  <2>1. boss # "fill" BY <1>5 DEF Take, TypeInv, Control
  <2>2. CASE More(w)
    <3> DEFINE r == [path |-> steque_front(workq), number |-> LocalNumber(w)]
    <3>1. /\ steque_front(workq) \in Paths
          /\ numbered \in 0 .. Total /\ numbered' \in 0 .. Total
      BY <1>5, <2>2, TakenTypes DEF Take, More
    <3>2. r \in [path : Paths \cup {""}, number : 0 .. Total] /\ Local(r) \in Paths \X (0 .. Total)
      BY <3>1 DEF Local, LocalNumber
    <3>3. req' = [req EXCEPT ![w] = r] /\ DOMAIN disk' = DOMAIN disk \cup {Local(r)}
      BY <1>5, <2>2 DEF Take
    <3> HIDE DEF r
    <3>4. /\ req' \in [Workers -> [path : Paths \cup {""}, number : 0 .. Total]]
          /\ DOMAIN disk' \subseteq Paths \X (0 .. Total)
      BY <3>2, <3>3 DEF TypeInv, TypeOK
    <3>5. /\ pc' = [pc EXCEPT ![w] = "perform"] /\ i[w] < nrequests
          /\ UNCHANGED <<boss, created, counter, i, result, good>>
      BY <1>5, <2>2 DEF Take, More, Goto, TypeInv, TypeOK
    <3>6. /\ pc' \in [Workers -> {"none", "loop", "perform", "unlink", "status", "end"}]
          /\ \A v \in Workers : pc'[v] \in Active => i[v] < nrequests
      BY <3>5 DEF TypeInv, TypeOK, Control
    <3> QED BY <2>1, <3>1, <3>4, <3>5, <3>6 DEF TypeInv, TypeOK, Control
  <2>3. CASE ~More(w)
    <3>1. /\ pc' = [pc EXCEPT ![w] = "end"]
          /\ UNCHANGED <<boss, created, counter, numbered, i, req, result, disk, good>>
      BY <1>5, <2>3 DEF Take, Goto
    <3> QED BY <2>1, <3>1 DEF TypeInv, TypeOK, Control, Active
  <2> QED BY <2>2, <2>3
<1>6. ASSUME NEW w \in Workers, OpenFails(w) PROVE TypeInv'
  <2>1. numbered' \in 0 .. Total BY <1>6, TakenTypes DEF OpenFails, More
  <2>2. /\ boss' = "exit" /\ pc' = [v \in Workers |-> "end"]
        /\ UNCHANGED <<created, counter, i, req, result, disk, good>>
    BY <1>6 DEF OpenFails
  <2> QED BY <2>1, <2>2 DEF TypeInv, TypeOK, Control, Active
<1>7. ASSUME NEW w \in Workers, Perform(w) PROVE TypeInv'
  <2>1. PICK ret \in {-1, 0}, ok \in BOOLEAN :
          /\ result' = [result EXCEPT ![w] = [ret |-> ret, ok |-> ok]]
          /\ pc' = [pc EXCEPT ![w] = IF ret = -1 THEN "unlink" ELSE "status"]
          /\ DOMAIN disk' = DOMAIN disk
          /\ good' = good \/ good' = good \cup {req[w].number}
    BY <1>7 DEF Perform, Goto
  <2>2. pc[w] = "perform" /\ UNCHANGED <<boss, created, counter, workq, numbered, i, req>>
    BY <1>7 DEF Perform
  <2>3. result' \in [Workers -> [ret : {-1, 0}, ok : BOOLEAN]] /\ good' \subseteq 0 .. Total
    BY <2>1 DEF TypeInv, TypeOK
  <2>4. /\ pc' \in [Workers -> {"none", "loop", "perform", "unlink", "status", "end"}]
        /\ \A v \in Workers : pc'[v] \in Active => i[v] < nrequests
    BY <2>1, <2>2 DEF TypeInv, TypeOK, Control, Active
  <2>5. boss # "fill" BY <2>2 DEF TypeInv, Control
  <2> QED BY <2>1, <2>2, <2>3, <2>4, <2>5 DEF TypeInv, TypeOK, Control
<1>8. ASSUME NEW w \in Workers, Unlink(w) PROVE TypeInv'
  <2>1. /\ pc[w] = "unlink" /\ pc' = [pc EXCEPT ![w] = "status"]
        /\ DOMAIN disk' \subseteq DOMAIN disk
        /\ UNCHANGED <<boss, created, counter, numbered, i, req, result, good>>
    BY <1>8 DEF Unlink, Goto, unlink
  <2> QED BY <2>1 DEF TypeInv, TypeOK, Control, Active
<1>9. ASSUME NEW w \in Workers, Status(w) PROVE TypeInv'
  <2>1. /\ pc[w] = "status" /\ pc' = [pc EXCEPT ![w] = "loop"] /\ i' = [i EXCEPT ![w] = @ + 1]
        /\ DOMAIN disk' \subseteq DOMAIN disk
        /\ UNCHANGED <<boss, created, counter, numbered, req, result, good>>
    BY <1>9 DEF Status, Goto, unlink
  <2>2. i' \in [Workers -> 0 .. nrequests] /\ \A v \in Workers : v # w => i'[v] = i[v]
    <3>1. i \in [Workers -> 0 .. nrequests] /\ i[w] < nrequests
      BY <2>1 DEF TypeInv, TypeOK, Control, Active
    <3>2. i[w] + 1 \in 0 .. nrequests BY <3>1
    <3> QED BY <2>1, <3>1, <3>2
  <2>3. /\ pc' \in [Workers -> {"none", "loop", "perform", "unlink", "status", "end"}]
        /\ \A v \in Workers : pc'[v] \in Active => v # w /\ pc[v] \in Active
        /\ boss # "fill"
    BY <2>1 DEF TypeInv, TypeOK, Control, Active
  <2> QED BY <2>1, <2>2, <2>3 DEF TypeInv, TypeOK, Control
<1>10. CASE UNCHANGED vars
  BY <1>10 DEF vars, worker, TypeInv, TypeOK, Control
<1> QED
  BY <1>1, <1>2, <1>3, <1>4, <1>5, <1>6, <1>7, <1>8, <1>9, <1>10 DEF Next, Worker

LEMMA TypeInvariance == Spec => [](QueueInv /\ TypeInv)
<1>1. Init => TypeInv
  <2> SUFFICES ASSUME Init PROVE TypeInv
    OBVIOUS
  <2>1. 0 \in 0 .. Total /\ 0 \in 0 .. nthreads /\ 0 \in 0 .. nrequests
    BY TotalIsNat, DownloadPoolAssumption
  <2>2. [path |-> "", number |-> 0] \in [path : Paths \cup {""}, number : 0 .. Total]
    BY <2>1
  <2> QED BY <2>1, <2>2 DEF Init, TypeInv, TypeOK, Control, Active
<1>2. (QueueInv /\ TypeInv) /\ [Next]_vars => TypeInv'
  BY StepTypes
<1> QED BY <1>1, <1>2, QueueInvariance, PTL DEF Spec

(* Counters, numbers and paths stay within what the options allow: no more  *)
(* than nrequests * nthreads paths are queued, no thread makes more than    *)
(* nrequests, and each file is named by a path of the workload.             *)
THEOREM TypeCorrect == Spec => []TypeOK
  BY TypeInvariance, PTL DEF TypeInv

-----------------------------------------------------------------------------
(* What a running client knows of its files.  Requests under way have       *)
(* numbers of their own, which no answered one has but one whose thread     *)
(* still has its status to look at; a request is good exactly if its        *)
(* gfc_perform said so.                                                     *)
Numbered ==
  /\ \A w \in Workers : pc[w] \in Active =>
       req[w].number < numbered /\ req[w].path = PathOf(req[w].number + 1)
  /\ \A v, w \in Workers : pc[v] \in Active /\ pc[w] \in Active /\ v # w =>
       req[v].number # req[w].number
  /\ \A n \in good : n < numbered

Well(w) == pc[w] = "status" /\ result[w].ret = 0 /\ result[w].ok

Results ==
  /\ \A w \in Workers : pc[w] \in Active => (req[w].number \in good <=> Well(w))
  /\ \A w \in Workers : pc[w] = "unlink" => result[w].ret = -1

FileInv == boss # "exit" => Numbered /\ Results /\ DiskExact

(* Two names are equal only for the same number. *)
LEMMA NamesDiffer ==
  ASSUME Numbered
  PROVE  /\ \A w \in Workers : pc[w] \in Active => Local(req[w]) = Kept(req[w].number)
         /\ \A m, n : Kept(m) = Kept(n) => m = n
BY DEF Numbered, Local, Kept

LEMMA NumberTypes ==
  ASSUME TypeInv
  PROVE  /\ \A w \in Workers : req[w].number \in Nat
         /\ \A n \in good : n \in Nat
<1>1. /\ req \in [Workers -> [path : Paths \cup {""}, number : 0 .. Total]]
      /\ good \subseteq 0 .. Total
  BY DEF TypeInv, TypeOK
<1>2. \A w \in Workers : req[w].number \in 0 .. Total BY <1>1
<1>3. \A n \in 0 .. Total : n \in Nat BY TotalIsNat
<1> QED BY <1>1, <1>2, <1>3

(* A worker takes a path: the number is new. *)
LEMMA TakeFiles ==
  ASSUME TypeInv, QueueInv, FileInv, boss # "exit", NEW w \in Workers, Take(w)
  PROVE  FileInv'
<1>0. Numbered /\ Results /\ DiskExact BY DEF FileInv
<1>1. CASE ~More(w)
  <2>1. /\ pc[w] = "loop" /\ pc' = [pc EXCEPT ![w] = "end"]
        /\ UNCHANGED <<boss, numbered, req, result, disk, good>>
    BY <1>1 DEF Take, Goto
  <2>2. /\ \A v \in Workers : v # w => pc'[v] = pc[v]
        /\ pc'[w] = "end"
    BY <2>1 DEF TypeInv, TypeOK
  <2>3. \A v \in Workers : /\ pc'[v] \in Active <=> pc[v] \in Active
                           /\ pc'[v] = "unlink" <=> pc[v] = "unlink"
                           /\ Well(v)' <=> Well(v)
                           /\ Busy(v)' <=> Busy(v)
    BY <2>1, <2>2 DEF Active, Well, Busy
  <2>4. Numbered' BY <1>0, <2>1, <2>3 DEF Numbered, PathOf
  <2>5. Results' BY <1>0, <2>1, <2>3 DEF Results
  <2>6. {v \in Workers : Busy(v)}' = {v \in Workers : Busy(v)} BY <2>3
  <2>7. DiskExact' BY <1>0, <2>1, <2>6 DEF DiskExact, Kept, Local, PathOf
  <2> QED BY <2>4, <2>5, <2>7 DEF FileInv
<1>2. CASE More(w)
  <2> DEFINE r == [path |-> PathOf(numbered + 1), number |-> numbered]
  <2>1. /\ numbered' = numbered + 1 /\ numbered \in Nat
        /\ steque_front(workq) = PathOf(numbered + 1)
    BY <1>2, Popped DEF Take, More, QueueInv, Counters
  <2>2. /\ pc[w] = "loop" /\ pc' = [pc EXCEPT ![w] = "perform"]
        /\ req' = [req EXCEPT ![w] = r]
        /\ disk' = [name \in DOMAIN disk \cup {Local(r)} |->
                     IF name = Local(r) THEN "part" ELSE disk[name]]
        /\ UNCHANGED <<boss, result, good>>
    BY <1>2, <2>1 DEF Take, Goto, LocalNumber
  <2>3. /\ \A v \in Workers : v # w => pc'[v] = pc[v] /\ req'[v] = req[v]
        /\ pc'[w] = "perform" /\ req'[w] = r
    BY <2>2 DEF TypeInv, TypeOK
  <2>4. r.number = numbered /\ r.path = PathOf(r.number + 1) /\ Local(r) = Kept(numbered)
    BY DEF Local, Kept
  <2> HIDE DEF r
  <2>5. \A v \in Workers : v # w => /\ Well(v)' <=> Well(v)
                                    /\ Busy(v)' <=> Busy(v)
    BY <2>2, <2>3 DEF Well, Busy
  <2>6. Busy(w)' /\ ~Busy(w) /\ ~Well(w)' /\ pc'[w] \in Active
    BY <2>2, <2>3 DEF Busy, Well, Active
  <2>7. numbered \notin good BY <1>0, <2>1 DEF Numbered
  <2>8. \A v \in Workers : pc[v] \in Active => req[v].number \in Nat
    BY NumberTypes
  <2>9. \A n \in good : n \in Nat BY NumberTypes
  <2>10. Numbered'
    <3>1. \A v \in Workers : pc'[v] \in Active =>
            req'[v].number < numbered' /\ req'[v].path = PathOf(req'[v].number + 1)
      BY <1>0, <2>1, <2>3, <2>4, <2>8 DEF Numbered
    <3>2. \A v \in Workers : pc'[v] \in Active /\ v # w => req'[v].number # numbered
      BY <1>0, <2>1, <2>3, <2>8 DEF Numbered
    <3>3. \A u, v \in Workers : pc'[u] \in Active /\ pc'[v] \in Active /\ u # v =>
            req'[u].number # req'[v].number
      BY <1>0, <2>3, <2>4, <3>2 DEF Numbered
    <3>4. \A n \in good' : n < numbered' BY <1>0, <2>1, <2>2, <2>9 DEF Numbered
    <3> QED BY <3>1, <3>3, <3>4 DEF Numbered, PathOf
  <2>11. Results'
    BY <1>0, <2>2, <2>3, <2>4, <2>5, <2>6, <2>7 DEF Results
  <2>12. DiskExact'
    <3>1. \A n \in good : Kept(n) # Local(r)
      BY <1>0, <2>4, <2>7, NamesDiffer
    <3>2. \A n \in good : disk'[Kept(n)] = "whole"
      BY <1>0, <2>2, <3>1 DEF DiskExact
    <3>3. {Local(req'[v]) : v \in {u \in Workers : Busy(u)'}}
            = {Local(req[v]) : v \in {u \in Workers : Busy(u)}} \cup {Local(r)}
      BY <2>3, <2>5, <2>6
    <3>4. DOMAIN disk' = {Kept(n) : n \in good'} \cup
                         {Local(req'[v]) : v \in {u \in Workers : Busy(u)'}}
      BY <1>0, <2>2, <3>3 DEF DiskExact
    <3> QED BY <2>2, <3>2, <3>4 DEF DiskExact, Kept, Local, PathOf
  <2> QED BY <2>10, <2>11, <2>12 DEF FileInv
<1> QED BY <1>1, <1>2

(* The answer comes: a good one makes the file whole.                       *)
LEMMA PerformFiles ==
  ASSUME TypeInv, FileInv, boss # "exit", NEW w \in Workers, Perform(w)
  PROVE  FileInv'
<1>0. Numbered /\ Results /\ DiskExact BY DEF FileInv
<1> DEFINE n0 == req[w].number
<1>1. PICK ret \in {-1, 0}, ok \in BOOLEAN :
        /\ result' = [result EXCEPT ![w] = [ret |-> ret, ok |-> ok]]
        /\ IF ret = 0 /\ ok
           THEN /\ disk' = [name \in DOMAIN disk |->
                             IF name = Local(req[w]) THEN "whole" ELSE disk[name]]
                /\ good' = good \cup {n0}
           ELSE UNCHANGED <<disk, good>>
        /\ pc' = [pc EXCEPT ![w] = IF ret = -1 THEN "unlink" ELSE "status"]
  BY <1>0 DEF Perform, Goto
<1>2. pc[w] = "perform" /\ UNCHANGED <<boss, numbered, req>>
  BY DEF Perform
<1>3. /\ \A v \in Workers : v # w => pc'[v] = pc[v] /\ result'[v] = result[v]
      /\ pc'[w] = IF ret = -1 THEN "unlink" ELSE "status"
      /\ result'[w] = [ret |-> ret, ok |-> ok]
  BY <1>1 DEF TypeInv, TypeOK
<1>4. \A v \in Workers : /\ pc'[v] \in Active <=> pc[v] \in Active
                         /\ Busy(v)' <=> Busy(v)
                         /\ v # w => (Well(v)' <=> Well(v))
  BY <1>2, <1>3 DEF Active, Busy, Well
<1>5. pc[w] \in Active /\ Busy(w) /\ ~Well(w) /\ (Well(w)' <=> ret = 0 /\ ok)
  BY <1>2, <1>3 DEF Active, Busy, Well
<1>6. n0 < numbered /\ n0 \notin good /\ Local(req[w]) = Kept(n0)
  BY <1>0, <1>5, NamesDiffer DEF Numbered, Results
<1>7. /\ good' = IF ret = 0 /\ ok THEN good \cup {n0} ELSE good
      /\ DOMAIN disk' = DOMAIN disk
  BY <1>1
<1>8. \A n \in good' : n < numbered'
  BY <1>0, <1>2, <1>6, <1>7 DEF Numbered
<1>9. Numbered'
  BY <1>0, <1>2, <1>4, <1>8 DEF Numbered, PathOf
<1>10. Results'
  <2>1. \A v \in Workers : pc[v] \in Active /\ v # w => req[v].number # n0
    BY <1>0, <1>5 DEF Numbered
  <2>2. \A v \in Workers : pc'[v] \in Active => (req[v].number \in good' <=> Well(v)')
    BY <1>0, <1>4, <1>5, <1>6, <1>7, <2>1 DEF Results
  <2>3. \A v \in Workers : pc'[v] = "unlink" => result'[v].ret = -1
    BY <1>0, <1>3 DEF Results
  <2> QED BY <1>2, <2>2, <2>3 DEF Results
<1>11. DiskExact'
  <2>1. Local(req[w]) \in DOMAIN disk BY <1>0, <1>5 DEF DiskExact
  <2>2. \A n \in good' : disk'[Kept(n)] = "whole"
    <3>1. CASE ret = 0 /\ ok
      <4>1. \A n \in good : Kept(n) \in DOMAIN disk BY <1>0 DEF DiskExact
      <4> QED BY <1>0, <1>1, <1>6, <2>1, <3>1, <4>1 DEF DiskExact
    <3>2. CASE ~(ret = 0 /\ ok) BY <1>0, <1>1, <3>2 DEF DiskExact
    <3> QED BY <3>1, <3>2
  <2>3. {Local(req[v]) : v \in {u \in Workers : Busy(u)'}}
          = {Local(req[v]) : v \in {u \in Workers : Busy(u)}}
    BY <1>4
  <2>4. Kept(n0) \in {Local(req[v]) : v \in {u \in Workers : Busy(u)}}
    BY <1>5, <1>6
  <2>5. {Kept(n) : n \in good'} \cup {Local(req[v]) : v \in {u \in Workers : Busy(u)}}
          = {Kept(n) : n \in good} \cup {Local(req[v]) : v \in {u \in Workers : Busy(u)}}
    BY <1>7, <2>4
  <2>6. DOMAIN disk' = {Kept(n) : n \in good'} \cup
                       {Local(req[v]) : v \in {u \in Workers : Busy(u)'}}
    BY <1>0, <1>7, <2>3, <2>5 DEF DiskExact
  <2> QED BY <1>2, <2>2, <2>6 DEF DiskExact, Kept, Local, PathOf
<1> QED BY <1>9, <1>10, <1>11 DEF FileInv

(* A worker unlinks its file, or leaves it because it was answered well,    *)
(* and no other worker's and no good one is meant by the name.              *)
LEMMA RemoveFiles ==
  ASSUME TypeInv, FileInv, boss # "exit", NEW w \in Workers, Unlink(w) \/ Status(w)
  PROVE  FileInv'
<1>0. Numbered /\ Results /\ DiskExact BY DEF FileInv
<1> DEFINE name == Local(req[w])
<1>1. /\ pc[w] \in {"unlink", "status"}
      /\ pc' = [pc EXCEPT ![w] = IF pc[w] = "unlink" THEN "status" ELSE "loop"]
      /\ disk' = IF pc[w] = "status" /\ result[w].ok THEN disk
                 ELSE [other \in DOMAIN disk \ {name} |-> disk[other]]
      /\ UNCHANGED <<boss, numbered, req, result, good>>
  BY DEF Unlink, Status, Goto, unlink
<1>2. /\ \A v \in Workers : v # w => pc'[v] = pc[v]
      /\ pc'[w] = IF pc[w] = "unlink" THEN "status" ELSE "loop"
  BY <1>1 DEF TypeInv, TypeOK
<1>3. \A v \in Workers : /\ pc'[v] \in Active => pc[v] \in Active
                         /\ v # w => (Busy(v)' <=> Busy(v)) /\ (Well(v)' <=> Well(v))
  BY <1>1, <1>2 DEF Active, Busy, Well
<1>4. pc[w] \in Active /\ ~Busy(w)' /\ name = Kept(req[w].number)
  <2>1. pc[w] \in Active BY <1>1 DEF Active
  <2>2. ~Busy(w)' BY <1>0, <1>1, <1>2 DEF Busy, Results
  <2> QED BY <1>0, <2>1, <2>2, NamesDiffer
<1>5. Numbered'
  BY <1>0, <1>1, <1>3 DEF Numbered, PathOf
<1>6. Results'
  <2>1. pc'[w] \in Active => pc[w] = "unlink" /\ result[w].ret = -1 /\ pc'[w] = "status"
    BY <1>0, <1>1, <1>2 DEF Active, Results
  <2>2. pc'[w] \in Active => ~Well(w) /\ ~Well(w)'
    BY <1>1, <2>1 DEF Well
  <2>3. \A v \in Workers : pc'[v] \in Active => (req[v].number \in good <=> Well(v)')
    BY <1>0, <1>3, <1>4, <2>2 DEF Results
  <2>4. \A v \in Workers : pc'[v] = "unlink" => pc[v] = "unlink"
    BY <1>2
  <2> QED BY <1>0, <1>1, <2>3, <2>4 DEF Results
<1>7. DiskExact'
  <2> DEFINE busy == {Local(req[v]) : v \in {u \in Workers : Busy(u)}}
             left == {Local(req[v]) : v \in {u \in Workers : Busy(u)'}}
             kept == {Kept(n) : n \in good}
  <2>1. left = {Local(req[v]) : v \in {u \in Workers \ {w} : Busy(u)}}
    BY <1>3, <1>4
  <2>2. name \notin left
    <3>1. \A v \in Workers \ {w} : Busy(v) => pc[v] \in Active /\ req[v].number # req[w].number
      BY <1>0, <1>4 DEF Numbered, Busy, Active
    <3>2. \A v \in Workers \ {w} : Busy(v) => Local(req[v]) # name
      BY <1>0, <1>4, <3>1, NamesDiffer
    <3> QED BY <2>1, <3>2
  <2>3. busy \ {name} = left /\ (~Busy(w) => busy = left) /\ busy \subseteq left \cup {name}
    BY <2>1, <2>2
  <2>4. DOMAIN disk = kept \cup busy BY <1>0 DEF DiskExact
  <2>5. CASE pc[w] = "status" /\ result[w].ok
    <3>1. disk' = disk BY <1>1, <2>5
    <3>2. Busy(w) => name \in kept
      <4>1. Busy(w) => Well(w) BY <2>5 DEF Busy, Well
      <4> QED BY <1>0, <1>4, <4>1 DEF Results
    <3>3. kept \cup busy = kept \cup left BY <2>3, <3>2
    <3>4. DOMAIN disk' = kept \cup left BY <2>4, <3>1, <3>3
    <3>5. \A n \in good' : disk'[Kept(n)] = "whole" BY <1>0, <1>1, <3>1 DEF DiskExact
    <3> QED BY <1>1, <3>4, <3>5 DEF DiskExact, Kept, Local, PathOf
  <2>6. CASE ~(pc[w] = "status" /\ result[w].ok)
    <3>1. disk' = [other \in DOMAIN disk \ {name} |-> disk[other]] BY <1>1, <2>6
    <3>2. name \notin kept
      <4>1. ~Well(w) BY <2>6 DEF Well
      <4>2. req[w].number \notin good BY <1>0, <1>4, <4>1 DEF Results
      <4> QED BY <1>0, <1>4, <4>2, NamesDiffer
    <3>3. (kept \cup busy) \ {name} = kept \cup left BY <2>3, <3>2
    <3>4. DOMAIN disk' = kept \cup left BY <2>4, <3>1, <3>3
    <3>5. \A n \in good' : disk'[Kept(n)] = "whole"
      BY <1>0, <1>1, <2>4, <3>1, <3>2 DEF DiskExact
    <3> QED BY <1>1, <3>4, <3>5 DEF DiskExact, Kept, Local, PathOf
  <2> QED BY <2>5, <2>6
<1> QED BY <1>5, <1>6, <1>7 DEF FileInv

(* What does not touch a file, a request or an active worker.               *)
LEMMA OtherFiles ==
  ASSUME FileInv, boss # "exit", UNCHANGED <<numbered, req, result, disk, good>>,
         \A w \in Workers : pc'[w] = pc[w] \/ (pc[w] \notin Active /\ pc'[w] \notin Active)
  PROVE  FileInv'
<1>1. \A w \in Workers : /\ pc'[w] \in Active <=> pc[w] \in Active
                         /\ pc'[w] = "unlink" => pc[w] = "unlink"
                         /\ (Busy(w)' <=> Busy(w)) /\ (Well(w)' <=> Well(w))
  BY DEF Active, Busy, Well
<1>2. Numbered /\ Results /\ DiskExact BY DEF FileInv
<1>3. Numbered' BY <1>1, <1>2 DEF Numbered, PathOf
<1>4. Results' BY <1>1, <1>2 DEF Results
<1>5. {v \in Workers : Busy(v)}' = {v \in Workers : Busy(v)} BY <1>1
<1>6. DiskExact' BY <1>2, <1>5 DEF DiskExact, Kept, Local, PathOf
<1> QED BY <1>3, <1>4, <1>6 DEF FileInv

(* A thread that was not created does nothing. *)
Unstarted == boss # "exit" => \A w \in Workers : w > created => pc[w] = "none"

LEMMA StepUnstarted == ASSUME TypeInv, Unstarted, [Next]_vars PROVE Unstarted'
<1>1. CASE boss = "exit"
  <2>1. boss' = "exit"
    BY <1>1 DEF Next, Worker, Fill, Create, CreateFails, Join, Take, OpenFails, Perform, Unlink,
                Status, vars
  <2> QED BY <2>1 DEF Unstarted
<1>2. CASE boss # "exit"
  <2>1. ASSUME Fill \/ CreateFails \/ Join \/ UNCHANGED vars PROVE Unstarted'
    BY <1>2, <2>1 DEF Fill, CreateFails, Join, worker, vars, Unstarted
  <2>2. CASE Create
    <3>1. created' = created + 1 /\ pc' = [pc EXCEPT ![created + 1] = "loop"] /\ boss' = boss
      BY <2>2 DEF Create
    <3>2. created \in 0 .. nthreads BY DEF TypeInv, TypeOK
    <3>3. \A w \in Workers : w \in Int /\ (w > created + 1 => w > created /\ w # created + 1)
      BY <3>2 DEF Workers
    <3>4. \A w \in Workers : w # created + 1 => pc'[w] = pc[w] BY <3>1 DEF TypeInv, TypeOK
    <3> QED BY <1>2, <3>1, <3>3, <3>4 DEF Unstarted
  <2>3. ASSUME NEW w \in Workers, OpenFails(w) PROVE Unstarted'
    BY <2>3 DEF OpenFails, Unstarted
  <2>4. ASSUME NEW w \in Workers, Worker(w), ~OpenFails(w) PROVE Unstarted'
    <3>1. pc[w] # "none" /\ UNCHANGED <<boss, created>>
      BY <2>4 DEF Worker, Take, Perform, Unlink, Status
    <3>2. \A v \in Workers : v # w => pc'[v] = pc[v]
      BY <2>4 DEF Worker, Take, Perform, Unlink, Status, Goto, TypeInv, TypeOK
    <3> QED BY <1>2, <3>1, <3>2 DEF Unstarted
  <2> QED BY <2>1, <2>2, <2>3, <2>4 DEF Next, Worker
<1> QED BY <1>1, <1>2

LEMMA StepFiles == ASSUME QueueInv, TypeInv, Unstarted, FileInv, [Next]_vars PROVE FileInv'
<1>1. CASE boss = "exit"
  <2>1. boss' = "exit"
    BY <1>1 DEF Next, Worker, Fill, Create, CreateFails, Join, Take, OpenFails, Perform, Unlink,
                Status, vars
  <2> QED BY <2>1 DEF FileInv
<1>2. CASE boss # "exit"
  <2>1. ASSUME Fill \/ CreateFails \/ Join \/ UNCHANGED vars PROVE FileInv'
    BY <1>2, <2>1, OtherFiles DEF Fill, CreateFails, Join, worker, vars
  <2>2. CASE Create
    <3>1. boss = "create" /\ pc' = [pc EXCEPT ![created + 1] = "loop"]
          /\ UNCHANGED <<numbered, req, result, disk, good>>
      BY <2>2 DEF Create
    <3>2. created + 1 \in Workers /\ created + 1 > created
      <4>1. created < nthreads BY <2>2 DEF Create
      <4>2. created \in 0 .. nthreads BY DEF TypeInv, TypeOK
      <4> QED BY <4>1, <4>2, DownloadPoolAssumption DEF Workers
    <3>3. pc[created + 1] = "none" BY <1>2, <3>2 DEF Unstarted
    <3>4. \A w \in Workers : pc'[w] = pc[w] \/ (pc[w] = "none" /\ pc'[w] = "loop")
      BY <3>1, <3>3 DEF TypeInv, TypeOK
    <3> QED BY <1>2, <3>1, <3>4, OtherFiles DEF Active
  <2>3. ASSUME NEW w \in Workers, OpenFails(w) PROVE FileInv'
    BY <2>3 DEF OpenFails, FileInv
  <2>4. ASSUME NEW w \in Workers, Worker(w), ~OpenFails(w) PROVE FileInv'
    BY <1>2, <2>4, TakeFiles, PerformFiles, RemoveFiles DEF Worker
  <2> QED BY <2>1, <2>2, <2>3, <2>4 DEF Next, Worker
<1> QED BY <1>1, <1>2

(* While the client runs, its files are the whole ones of the good answers  *)
(* and those of the requests under way, under numbers that no two requests  *)
(* share: the part of FilesExact that several threads could break.          *)
THEOREM FilesNeverMixed == Spec => [](boss # "exit" => DiskExact)
<1>1. Init => Unstarted /\ FileInv
  <2> SUFFICES ASSUME Init PROVE Unstarted /\ FileInv
    OBVIOUS
  <2>1. good = {} /\ DOMAIN disk = {} /\ \A w \in Workers : pc[w] = "none"
    BY DEF Init
  <2>2. \A w \in Workers : pc[w] \notin Active /\ ~Busy(w)
    BY <2>1 DEF Active, Busy
  <2>3. Numbered /\ Results BY <2>1, <2>2 DEF Numbered, Results
  <2>4. DiskExact BY <2>1, <2>2 DEF DiskExact
  <2> QED BY <2>1, <2>3, <2>4 DEF Unstarted, FileInv
<1>2. (QueueInv /\ TypeInv) /\ (Unstarted /\ FileInv) /\ [Next]_vars => (Unstarted /\ FileInv)'
  BY StepUnstarted, StepFiles
<1>3. FileInv => (boss # "exit" => DiskExact)
  BY DEF FileInv
<1> QED BY <1>1, <1>2, <1>3, TypeInvariance, PTL DEF Spec

-----------------------------------------------------------------------------
(* The share of every thread.  The numbers given out are counted by the     *)
(* requests made and under way, one pair of a thread and its counter each.  *)
Slots == Workers \X (0 .. nrequests - 1)
Taken == {s \in Slots : s[2] < i[s[1]] \/ (s[2] = i[s[1]] /\ pc[s[1]] \in Active)}

Shares ==
  /\ numbered = Cardinality(Taken)
  /\ boss # "fill" => counter = Total
  /\ \A w \in Workers : /\ pc[w] = "none" => i[w] = 0
                        /\ pc[w] = "end" => i[w] = nrequests
  /\ boss = "end" => \A w \in Workers : w <= created => pc[w] = "end"

ShareInv == boss # "exit" => Shares

LEMMA SlotsCount == IsFiniteSet(Slots) /\ Cardinality(Slots) = Total
<1>1. IsFiniteSet(Workers) /\ Cardinality(Workers) = nthreads
  BY DownloadPoolAssumption, FS_Interval DEF Workers
<1>2. IsFiniteSet(0 .. nrequests - 1) /\ Cardinality(0 .. nrequests - 1) = nrequests
  <2>1. 0 \in Int /\ nrequests - 1 \in Int /\ nrequests - 1 - 0 + 1 = nrequests
        /\ (0 > nrequests - 1 => nrequests = 0)
    BY DownloadPoolAssumption
  <2> QED BY <2>1, FS_Interval
<1>3. IsFiniteSet(Slots) /\ Cardinality(Slots) = nthreads * nrequests
  BY <1>1, <1>2, FS_Product DEF Slots
<1> QED BY <1>3, DownloadPoolAssumption DEF Total

(* As long as one thread may take another path, not all are taken. *)
LEMMA NotAllTaken ==
  ASSUME TypeInv, NEW w \in Workers, i[w] < nrequests, pc[w] \notin Active
  PROVE  Cardinality(Taken) # Total
<1> DEFINE s == <<w, i[w]>>
<1>1. s \in Slots
  <2>1. i[w] \in 0 .. nrequests BY DEF TypeInv, TypeOK
  <2> QED BY <2>1, DownloadPoolAssumption DEF Slots
<1>2. s \notin Taken
  <2>1. i[w] \in 0 .. nrequests BY DEF TypeInv, TypeOK
  <2> QED BY <2>1 DEF Taken
<1>3. Taken \in SUBSET Slots BY DEF Taken
<1> QED BY <1>1, <1>2, <1>3, SlotsCount, FS_Subset

(* A thread that takes a path, or finds none, or all of its own taken. *)
LEMMA TakeShares ==
  ASSUME TypeInv, QueueInv, Shares, boss # "exit", NEW w \in Workers, Take(w)
  PROVE  Shares'
<1>1. pc[w] = "loop" /\ UNCHANGED <<boss, created, counter, i>> BY DEF Take
<1>2. boss \notin {"fill", "end"} \/ (boss = "end" /\ ~(w <= created))
  BY <1>1 DEF Shares, TypeInv, Control
<1>3. i[w] \in 0 .. nrequests BY DEF TypeInv, TypeOK
<1>4. CASE More(w)
  <2>1. pc' = [pc EXCEPT ![w] = "perform"] /\ numbered' = numbered + 1 /\ i[w] < nrequests
    BY <1>4 DEF Take, More, Goto
  <2>2. pc'[w] = "perform" /\ \A v \in Workers : v # w => pc'[v] = pc[v]
    BY <2>1 DEF TypeInv, TypeOK
  <2> DEFINE s == <<w, i[w]>>
  <2>3. s \in Slots /\ s \notin Taken
    BY <1>1, <1>3, <2>1, DownloadPoolAssumption DEF Slots, Taken, Active
  <2>4. Taken' = Taken \cup {s}
    BY <1>1, <1>3, <2>2, <2>3 DEF Taken, Slots, Active
  <2>5. IsFiniteSet(Taken) BY SlotsCount, FS_Subset DEF Taken
  <2>6. numbered' = Cardinality(Taken)'
    BY <2>1, <2>3, <2>4, <2>5, FS_AddElement DEF Shares
  <2> QED BY <1>1, <2>2, <2>6 DEF Shares, Workers, Total
<1>5. CASE ~More(w)
  <2>1. pc' = [pc EXCEPT ![w] = "end"] /\ numbered' = numbered
    BY <1>5 DEF Take, Goto
  <2>2. pc'[w] = "end" /\ \A v \in Workers : v # w => pc'[v] = pc[v]
    BY <2>1 DEF TypeInv, TypeOK
  <2>3. i[w] = nrequests
    <3> SUFFICES ASSUME i[w] # nrequests PROVE FALSE
      OBVIOUS
    <3>1. i[w] < nrequests BY <1>3, DownloadPoolAssumption
    <3>2. steque_isempty(workq) BY <1>5, <3>1 DEF More
    <3>3. numbered = counter
      <4>1. Left = <<>> BY <3>2, FrontHolds DEF QueueInv, QueueExact
      <4> QED BY <4>1, LeftIsSeq DEF QueueInv
    <3>4. boss # "fill" BY <1>1 DEF TypeInv, Control
    <3>5. Cardinality(Taken) = Total BY <3>3, <3>4 DEF Shares
    <3>6. pc[w] \notin Active BY <1>1 DEF Active
    <3> QED BY <3>1, <3>5, <3>6, NotAllTaken
  <2>4. Taken' = Taken BY <1>1, <2>2 DEF Taken, Slots, Active
  <2> QED BY <1>1, <2>1, <2>2, <2>3, <2>4 DEF Shares, Workers, Total
<1> QED BY <1>4, <1>5

(* A thread on its way through a request keeps its place until the request  *)
(* is made, and then has made it.                                           *)
LEMMA RequestShares ==
  ASSUME TypeInv, Shares, NEW w \in Workers, Perform(w) \/ Unlink(w) \/ Status(w)
  PROVE  Shares'
<1>1. UNCHANGED <<boss, created, counter, numbered>> BY DEF Perform, Unlink, Status
<1>2. i[w] \in 0 .. nrequests BY DEF TypeInv, TypeOK
<1>3. pc[w] \in Active
  BY DEF Perform, Unlink, Status, Active
<1>4. /\ \A v \in Workers : v # w => pc'[v] = pc[v] /\ i'[v] = i[v]
      /\ \/ pc'[w] \in Active /\ i'[w] = i[w]
         \/ pc'[w] = "loop" /\ i'[w] = i[w] + 1
  <2>1. CASE Perform(w)
    <3>1. PICK l \in {"unlink", "status"} : pc' = [pc EXCEPT ![w] = l]
      BY <2>1 DEF Perform, Goto
    <3> QED BY <2>1, <3>1 DEF Perform, TypeInv, TypeOK, Active
  <2>2. CASE Unlink(w) BY <2>2 DEF Unlink, Goto, TypeInv, TypeOK, Active
  <2>3. CASE Status(w) BY <2>3 DEF Status, Goto, TypeInv, TypeOK
  <2> QED BY <2>1, <2>2, <2>3
<1>5. Taken' = Taken
  <2> SUFFICES ASSUME NEW s \in Slots
               PROVE  (s[2] < i'[s[1]] \/ (s[2] = i'[s[1]] /\ pc'[s[1]] \in Active))
                        <=> (s[2] < i[s[1]] \/ (s[2] = i[s[1]] /\ pc[s[1]] \in Active))
    BY DEF Taken, Slots
  <2>1. s[1] \in Workers /\ s[2] \in 0 .. nrequests - 1 BY DEF Slots
  <2>2. CASE s[1] # w BY <1>4, <2>1, <2>2
  <2>3. CASE s[1] = w
    <3>1. s[2] < i[w] + 1 <=> s[2] < i[w] \/ s[2] = i[w] BY <1>2, <2>1
    <3>2. CASE pc'[w] \in Active /\ i'[w] = i[w] BY <1>3, <2>3, <3>2
    <3>3. CASE pc'[w] = "loop" /\ i'[w] = i[w] + 1
      BY <1>3, <2>3, <3>1, <3>3 DEF Active
    <3> QED BY <1>4, <3>2, <3>3
  <2> QED BY <2>2, <2>3
<1>6. ASSUME NEW v \in Workers
      PROVE  /\ pc'[v] = "none" => i'[v] = 0
             /\ pc'[v] = "end" => i'[v] = nrequests
             /\ boss' = "end" /\ v <= created' => pc'[v] = "end"
  <2>1. CASE v = w BY <1>1, <1>3, <1>4, <2>1 DEF Shares, Active
  <2>2. CASE v # w BY <1>1, <1>4, <2>2 DEF Shares
  <2> QED BY <2>1, <2>2
<1> QED BY <1>1, <1>5, <1>6 DEF Shares, Workers, Total

LEMMA StepShares ==
  ASSUME QueueInv, TypeInv, Unstarted, ShareInv, [Next]_vars
  PROVE  ShareInv'
<1>1. CASE boss = "exit"
  <2>1. boss' = "exit"
    BY <1>1 DEF Next, Worker, Fill, Create, CreateFails, Join, Take, OpenFails, Perform, Unlink,
                Status, vars
  <2> QED BY <2>1 DEF ShareInv
<1>2. CASE boss # "exit"
  <2> Shares BY <1>2 DEF ShareInv
  <2>1. CASE Fill
    <3>1. UNCHANGED <<created, numbered, pc, i>> /\ boss = "fill" BY <2>1 DEF Fill, worker
    <3>2. Taken' = Taken BY <3>1 DEF Taken, Slots, Workers
    <3>3. boss' = "fill" \/ (boss' = "create" /\ counter' = counter /\ ~(workq.N < Total))
      BY <2>1, <3>1 DEF Fill
    <3>4. boss' # "fill" => counter' = Total
      <4>1. workq.N = counter - numbered /\ numbered = 0
        BY <3>1, LeftIsSeq DEF QueueInv, QueueExact, Counters, Holds, TypeInv, Control
      <4>2. counter \in 0 .. Total BY DEF TypeInv, TypeOK
      <4> QED BY <3>3, <4>1, <4>2, TotalIsNat
    <3> QED BY <3>1, <3>2, <3>3, <3>4 DEF ShareInv, Shares, Workers, Total
  <2>2. CASE Create
    <3>1. boss = "create" /\ boss' = boss /\ pc' = [pc EXCEPT ![created + 1] = "loop"]
          /\ UNCHANGED <<counter, numbered, i>>
      BY <2>2 DEF Create
    <3>2. created + 1 \in Workers /\ created + 1 > created
      <4>1. created < nthreads BY <2>2 DEF Create
      <4>2. created \in 0 .. nthreads BY DEF TypeInv, TypeOK
      <4> QED BY <4>1, <4>2, DownloadPoolAssumption DEF Workers
    <3>3. pc[created + 1] = "none" BY <1>2, <3>2 DEF Unstarted
    <3>4. \A w \in Workers : pc'[w] = pc[w] \/ (pc[w] = "none" /\ pc'[w] = "loop")
      BY <3>1, <3>3 DEF TypeInv, TypeOK
    <3>5. Taken' = Taken BY <3>1, <3>4 DEF Taken, Slots, Workers, Active
    <3> QED BY <3>1, <3>4, <3>5 DEF ShareInv, Shares, Workers, Total
  <2>3. CASE Join
    <3>1. UNCHANGED <<created, counter, numbered, pc, i>> /\ boss # "fill"
          /\ \A w \in 1 .. created : pc[w] = "end"
      BY <2>3 DEF Join, worker
    <3>2. Taken' = Taken BY <3>1 DEF Taken, Slots, Workers
    <3>3. \A w \in Workers : w <= created => w \in 1 .. created
      <4>1. created \in 0 .. nthreads BY DEF TypeInv, TypeOK
      <4> QED BY <4>1 DEF Workers
    <3> QED BY <3>1, <3>2, <3>3 DEF ShareInv, Shares, Workers, Total
  <2>4. CASE CreateFails
    <3>1. UNCHANGED <<created, counter, numbered, pc, i>> /\ boss # "fill" /\ boss' = "join"
      BY <2>4 DEF CreateFails, worker
    <3>2. Taken' = Taken BY <3>1 DEF Taken, Slots, Workers
    <3> QED BY <3>1, <3>2 DEF ShareInv, Shares, Workers, Total
  <2>5. ASSUME NEW w \in Workers, OpenFails(w) PROVE ShareInv'
    BY <2>5 DEF OpenFails, ShareInv
  <2>6. ASSUME NEW w \in Workers, Worker(w), ~OpenFails(w) PROVE ShareInv'
    BY <1>2, <2>6, TakeShares, RequestShares DEF Worker, ShareInv
  <2>7. CASE UNCHANGED vars
    <3>1. Taken' = Taken BY <2>7 DEF vars, worker, Taken, Slots, Workers
    <3> QED BY <2>7, <3>1 DEF vars, worker, ShareInv, Shares, Workers, Total
  <2> QED BY <2>1, <2>2, <2>3, <2>4, <2>5, <2>6, <2>7 DEF Next, Worker
<1> QED BY <1>1, <1>2

(* A client that main ends itself has made every request of every thread it *)
(* could create, and none of the others'; its files are those of the good   *)
(* answers, whole, and of the requests under way.                           *)
THEOREM FilesAreExact == Spec => []FilesExact
<1>1. Init => Unstarted /\ ShareInv
  <2> SUFFICES ASSUME Init PROVE Unstarted /\ ShareInv
    OBVIOUS
  <2>1. /\ boss = "fill" /\ numbered = 0
        /\ \A w \in Workers : pc[w] = "none" /\ i[w] = 0
    BY DEF Init
  <2>2. Taken = {}
    BY <2>1 DEF Taken, Slots, Active
  <2>3. Cardinality(Taken) = 0 BY <2>2, FS_EmptySet
  <2> QED BY <2>1, <2>3 DEF Unstarted, ShareInv, Shares
<1>2. /\ QueueInv /\ TypeInv
      /\ Unstarted /\ ShareInv
      /\ [Next]_vars
      => (Unstarted /\ ShareInv)'
  BY StepUnstarted, StepShares
<1>3. TypeInv /\ Unstarted /\ ShareInv /\ (boss # "exit" => DiskExact) => FilesExact
  <2> SUFFICES ASSUME TypeInv, Unstarted, Shares, boss # "exit", boss = "end", NEW w \in Workers
               PROVE  i[w] = IF w <= created THEN nrequests ELSE 0
    BY DEF FilesExact, ShareInv
  <2>1. w <= created \/ w > created
    <3>1. created \in 0 .. nthreads BY DEF TypeInv, TypeOK
    <3> QED BY <3>1 DEF Workers
  <2> QED BY <2>1 DEF Shares, Unstarted
<1> QED BY <1>1, <1>2, <1>3, TypeInvariance, FilesNeverMixed, PTL DEF Spec

=============================================================================
