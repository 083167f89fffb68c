------------------------- MODULE ImageServiceProofs --------------------------
(* Proofs about ImageService for any number of threads and requests.        *)
EXTENDS ImageService, SequenceTheorems, TLAPS

Called == {"call", "wait", "open", "write"}
Holding == {"read"} \cup Called
Served(k) == kind[k] \in {"good", "larger"}

(* Until a result overruns its buffer, a worker's buffer holds the bytes of *)
(* its own request, and so does every output; after it, the buffer may only *)
(* be corrupt.                                                              *)
Buffers ==
  /\ \A w \in Workers : pc[w] \in Called =>
       data[w] \in {request[w], Corrupt} /\ (~overrun => data[w] = request[w])
  /\ ~overrun => \A k \in Reqs : out[k] \in {None, Empty, Part, k}

(* The server works on a call that is waited for, and replies to images; a  *)
(* thread that was not created does nothing.                                *)
Replies ==
  main # "exit" =>
    /\ \A w \in Workers : server = w => pc[w] = "wait" /\ ~reply[w]
    /\ \A w \in Workers :
         pc[w] \in {"open", "write"} \/ (pc[w] = "wait" /\ reply[w]) => Served(request[w])
    /\ \A w \in Workers : w > started => pc[w] = "none"

(* A request that is neither queued nor with a worker is served.            *)
Queued(k) == \E j \in 1 .. Len(queue) : queue[j] = k
Held(k) == \E w \in Workers : pc[w] \in Holding /\ request[w] = k
Done(k) == Served(k) /\ (k \in lost \/ out[k] \notin {None, Empty, Part})

Accounted ==
  main # "exit" =>
    /\ \A k \in Reqs : Queued(k) \/ Held(k) \/ Done(k)
    /\ \A w \in Workers : pc[w] = "end" => queue = <<>>
    /\ main = "end" => \A w \in Workers : pc[w] = "end"

Inv == TypeOK /\ Buffers /\ Replies /\ Accounted

-----------------------------------------------------------------------------
LEMMA InitInv == Init => Inv
<1> SUFFICES ASSUME Init PROVE Inv
  OBVIOUS
<1> USE ImageServiceAssumption
<1>1. queue \in Seq(Reqs) /\ Len(queue) = N /\ \A k \in Reqs : queue[k] = k
  BY DEF Init, Reqs
<1>2. TypeOK
  <2>1. 0 \in 0 .. nthreads /\ 0 \in 0 .. N OBVIOUS
  <2>2. /\ request \in [Workers -> 0 .. N] /\ data \in [Workers -> {Corrupt} \cup 0 .. N]
        /\ out \in [Reqs -> {Corrupt, Empty, Part} \cup 0 .. N]
    BY <2>1 DEF Init, None
  <2>3. /\ kind \in [Reqs -> {"missing", "bad", "good", "larger"}]
        /\ main \in {"create", "end", "exit"} /\ started \in 0 .. nthreads
        /\ pc \in [Workers -> Stage] /\ \A w \in Workers : pc[w] = "none"
        /\ cl \in [Workers -> {"NULL", "open"}] /\ reply \in [Workers -> BOOLEAN]
        /\ server \in {Down, None} \cup Workers
        /\ lost \subseteq Reqs /\ overrun \in BOOLEAN
    BY <2>1 DEF Init, Stage
  <2> QED BY <1>1, <2>2, <2>3 DEF TypeOK
<1>3. Buffers
  BY DEF Init, Buffers, Called, None, Empty
<1>4. Replies
  BY DEF Init, Replies, Workers, None
<1>5. Accounted
  BY <1>1 DEF Init, Accounted, Queued, Reqs
<1> QED BY <1>2, <1>3, <1>4, <1>5 DEF Inv

LEMMA StepTypes == ASSUME TypeOK, [Next]_vars PROVE TypeOK'
<1> USE ImageServiceAssumption DEF history, client, Goto
<1>0. ASSUME Exit PROVE TypeOK'
  BY <1>0 DEF Exit, TypeOK, Stage
<1>1. CASE Create
  <2>1. started < nthreads /\ started \in 0 .. nthreads BY <1>1 DEF Create, TypeOK
  <2>2. started' \in 0 .. nthreads BY <1>1, <2>1 DEF Create
  <2>3. /\ pc' \in [Workers -> Stage] /\ cl' \in [Workers -> {"NULL", "open"}]
        /\ \A w \in Workers : pc'[w] = pc[w] \/ pc'[w] = "take"
    BY <1>1 DEF Create, TypeOK, Stage
  <2> QED BY <1>1, <2>2, <2>3 DEF Create, TypeOK
<1>2. CASE Join
  BY <1>2 DEF Join, TypeOK
<1>3. ASSUME NEW w \in Workers, Take(w) PROVE TypeOK'
  <2>1. CASE queue = <<>> BY <1>3, <2>1 DEF Take, TypeOK, Stage
  <2>2. CASE queue # <<>>
    <3>1. Head(queue) \in Reqs /\ Tail(queue) \in Seq(Reqs) BY <2>2 DEF TypeOK
    <3>2. Head(queue) \in 0 .. N /\ Head(queue) # None BY <3>1 DEF Reqs, None
    <3>3. request' \in [Workers -> 0 .. N] /\ request'[w] # None
          /\ \A v \in Workers : v # w => request'[v] = request[v]
      BY <1>3, <2>2, <3>2 DEF Take, TypeOK
    <3>4. pc' \in [Workers -> Stage] /\ \A v \in Workers : v # w => pc'[v] = pc[v]
      BY <1>3, <2>2 DEF Take, TypeOK, Stage
    <3> QED BY <1>3, <2>2, <3>1, <3>3, <3>4 DEF Take, TypeOK
  <2> QED BY <2>1, <2>2
<1>4. ASSUME NEW w \in Workers, Read(w) PROVE TypeOK'
  BY <1>4 DEF Read, TypeOK, Stage
<1>5. ASSUME NEW w \in Workers, Call(w) PROVE TypeOK'
  BY <1>5 DEF Call, TypeOK, Stage
<1>6. ASSUME NEW w \in Workers, Return(w) PROVE TypeOK'
  BY <1>6 DEF Return, TypeOK, Stage
<1>7. ASSUME NEW w \in Workers, Overrun(w) PROVE TypeOK'
  BY <1>7 DEF Overrun, TypeOK, Stage
<1>8. ASSUME NEW w \in Workers, Open(w) PROVE TypeOK'
  BY <1>8 DEF Open, TypeOK, Stage
<1>9. ASSUME NEW w \in Workers, OpenFails(w) PROVE TypeOK'
  <2>1. request[w] \in 0 .. N /\ request[w] # 0 BY <1>9 DEF OpenFails, TypeOK, None
  <2>2. request[w] \in Reqs BY <2>1 DEF Reqs
  <2>3. lost' \subseteq Reqs BY <1>9, <2>2 DEF OpenFails, TypeOK
  <2> QED BY <1>9, <2>3 DEF OpenFails, TypeOK, Stage
<1>10. ASSUME NEW w \in Workers, Write(w) PROVE TypeOK'
  BY <1>10 DEF Write, TypeOK, Stage
<1>11. ASSUME NEW w \in Workers, WriteFails(w) PROVE TypeOK'
  <2>1. request[w] \in 0 .. N /\ request[w] # 0 BY <1>11 DEF WriteFails, TypeOK, None
  <2>2. request[w] \in Reqs BY <2>1 DEF Reqs
  <2>3. lost' \subseteq Reqs BY <1>11, <2>2 DEF WriteFails, TypeOK
  <2>4. out' \in [Reqs -> {Corrupt, Empty, Part} \cup 0 .. N] BY <1>11 DEF WriteFails, TypeOK
  <2> QED BY <1>11, <2>3, <2>4 DEF WriteFails, TypeOK, Stage
<1>12. CASE Dispatch \/ Reply \/ BadImage \/ Killed
  BY <1>12 DEF Dispatch, Reply, BadImage, Killed, ServerEnds, TypeOK
<1>13. CASE UNCHANGED vars
  BY <1>13 DEF vars, TypeOK
<1> QED
  BY <1>0, <1>1, <1>2, <1>3, <1>4, <1>5, <1>6, <1>7, <1>8, <1>9, <1>10, <1>11, <1>12,
     <1>13
  DEF Next, Main, JoinNull, Worker, ReadFails, CallNull, CallFails, Crash

LEMMA StepBuffers == ASSUME TypeOK, Buffers, [Next]_vars PROVE Buffers'
<1> USE DEF Buffers, Called, history, client, Goto
<1>0. ASSUME Exit PROVE Buffers'
  BY <1>0 DEF Exit
<1>1. CASE Create
  BY <1>1 DEF Create, TypeOK
<1>2. CASE Join \/ Dispatch \/ Reply \/ BadImage \/ Killed \/ UNCHANGED vars
  BY <1>2 DEF Join, Dispatch, Reply, BadImage, Killed, ServerEnds, vars
<1>3. ASSUME NEW w \in Workers, Take(w) PROVE Buffers'
  BY <1>3 DEF Take, TypeOK
<1>4. ASSUME NEW w \in Workers, Read(w) PROVE Buffers'
  BY <1>4 DEF Read, TypeOK
<1>5. ASSUME NEW w \in Workers, Call(w) \/ Return(w) \/ OpenFails(w) PROVE Buffers'
  BY <1>5 DEF Call, Return, OpenFails, TypeOK
<1>6. ASSUME NEW w \in Workers, Overrun(w) PROVE Buffers'
  BY <1>6 DEF Overrun, TypeOK
<1>7. ASSUME NEW w \in Workers, Open(w) PROVE Buffers'
  BY <1>7 DEF Open, TypeOK
<1>8. ASSUME NEW w \in Workers, Write(w) \/ WriteFails(w) PROVE Buffers'
  BY <1>8 DEF Write, WriteFails, TypeOK
<1> QED
  BY <1>0, <1>1, <1>2, <1>3, <1>4, <1>5, <1>6, <1>7, <1>8
  DEF Next, Main, JoinNull, Worker, ReadFails, CallNull, CallFails, Crash

LEMMA StepReplies == ASSUME TypeOK, Buffers, Replies, [Next]_vars PROVE Replies'
<1> USE DEF Replies, Served, history, client, Goto
<1>0. ASSUME Exit PROVE Replies'
  BY <1>0 DEF Exit
<1>1. CASE Create
  <2>1. /\ started < nthreads /\ started' = started + 1 /\ main' = main
        /\ pc' = [pc EXCEPT ![started + 1] = "take"]
        /\ UNCHANGED <<kind, request, reply, server>>
    BY <1>1 DEF Create
  <2>2. started \in 0 .. nthreads BY DEF TypeOK
  <2>3. started + 1 \in Workers /\ started + 1 > started
        /\ \A w \in Workers : w > started + 1 => w > started /\ w # started + 1
    BY <2>1, <2>2, ImageServiceAssumption DEF Workers
  <2>4. \A w \in Workers : pc'[w] = IF w = started + 1 THEN "take" ELSE pc[w]
    BY <2>1, <2>3 DEF TypeOK
  <2> QED BY <1>1, <2>1, <2>3, <2>4
<1>2. CASE Join \/ UNCHANGED vars
  BY <1>2 DEF Join, vars
<1>3. ASSUME NEW w \in Workers, Take(w) PROVE Replies'
  <2>1. /\ pc[w] = "take" /\ UNCHANGED <<kind, main, started, reply, server>>
        /\ \A v \in Workers : v # w => pc'[v] = pc[v] /\ request'[v] = request[v]
        /\ pc'[w] \in {"read", "end"}
    BY <1>3 DEF Take, TypeOK
  <2>2. main # "exit" => server # w /\ ~(w > started) BY <2>1, SMTT(30)
  <2> QED BY <2>1, <2>2, SMTT(30)
<1>4. ASSUME NEW w \in Workers, Read(w) \/ Call(w) PROVE Replies'
  <2>1. CASE Read(w)
    BY <2>1 DEF Read, TypeOK
  <2>2. CASE Call(w)
    BY <2>2 DEF Call, TypeOK
  <2> QED BY <1>4, <2>1, <2>2
<1>5. ASSUME NEW w \in Workers, Return(w) \/ Overrun(w) PROVE Replies'
  BY <1>5 DEF Return, Overrun, TypeOK
<1>6. ASSUME NEW w \in Workers, Open(w) \/ OpenFails(w) \/ Write(w) \/ WriteFails(w)
      PROVE  Replies'
  BY <1>6 DEF Open, OpenFails, Write, WriteFails, TypeOK
<1>7. CASE Dispatch
  BY <1>7 DEF Dispatch
<1>8. CASE Reply
  <2>1. CASE main = "exit" BY <1>8, <2>1 DEF Reply
  <2>2. CASE main # "exit"
    <3>1. /\ server \in Workers /\ server' = None /\ reply' = [reply EXCEPT ![server] = TRUE]
          /\ UNCHANGED <<kind, main, pc, request>>
      BY <1>8, <2>2 DEF Reply
    <3>2. pc[server] = "wait" BY <2>2, <3>1
    <3>3. data[server] = request[server]
      BY <1>8, <3>1, <3>2 DEF Reply, Image, Buffers, Called, Reqs, Corrupt
    <3>4. Served(request[server]) BY <1>8, <3>3 DEF Reply, Image
    <3>5. \A w \in Workers : server' # w BY <3>1 DEF Workers, None
    <3>6. \A w \in Workers : w # server => reply'[w] = reply[w] BY <3>1 DEF TypeOK
    <3>7. \A w \in Workers :
            pc[w] \in {"open", "write"} \/ (pc[w] = "wait" /\ reply'[w]) => Served(request[w])
      BY <2>2, <3>2, <3>4, <3>6
    <3>8. started' = started BY <1>8 DEF Reply
    <3>9. \A w \in Workers : w > started => pc[w] = "none" BY <2>2
    <3> QED BY <3>1, <3>5, <3>7, <3>8, <3>9
  <2> QED BY <2>1, <2>2
<1>9. CASE BadImage \/ Killed
  BY <1>9 DEF BadImage, Killed, ServerEnds, Workers, Down
<1> QED
  BY <1>0, <1>1, <1>2, <1>3, <1>4, <1>5, <1>6, <1>7, <1>8, <1>9
  DEF Next, Main, JoinNull, Worker, ReadFails, CallNull, CallFails, Crash

(* A request leaves the queue to a worker, and the worker with its output   *)
(* written whole, or counted as lost.                                       *)
LEMMA StepAccounted == ASSUME TypeOK, Buffers, Replies, Accounted, [Next]_vars PROVE Accounted'
<1> USE DEF Accounted, Queued, Held, Done, Served, Holding, Called, history, client, Goto
<1>0. ASSUME Exit PROVE Accounted'
  BY <1>0 DEF Exit
<1>1. CASE Create
  <2>1. /\ pc' = [pc EXCEPT ![started + 1] = "take"] /\ main = "create" /\ main' = main
        /\ UNCHANGED <<kind, queue, request, out, lost>> /\ started < nthreads
    BY <1>1 DEF Create
  <2>2. started \in 0 .. nthreads BY DEF TypeOK
  <2>3. started + 1 \in Workers /\ started + 1 > started
    BY <2>1, <2>2, ImageServiceAssumption DEF Workers
  <2>4. pc[started + 1] = "none" BY <2>1, <2>3 DEF Replies
  <2>5. \A w \in Workers : pc'[w] = IF w = started + 1 THEN "take" ELSE pc[w]
    BY <2>1, <2>3 DEF TypeOK
  <2> QED BY <2>1, <2>4, <2>5
<1>2. CASE Join
  BY <1>2 DEF Join
<1>3. CASE Dispatch \/ Reply \/ BadImage \/ Killed \/ UNCHANGED vars
  BY <1>3 DEF Dispatch, Reply, BadImage, Killed, ServerEnds, vars
<1>4. ASSUME NEW w \in Workers, Take(w) PROVE Accounted'
  <2>1. CASE queue = <<>>
    BY <1>4, <2>1 DEF Take, TypeOK
  <2>2. CASE queue # <<>>
    <3> DEFINE q == Tail(queue)
    <3>0. PICK h : h = Head(queue) OBVIOUS
    <3>1. /\ pc[w] = "take" /\ pc' = [pc EXCEPT ![w] = "read"] /\ queue' = q
          /\ request' = [request EXCEPT ![w] = h]
          /\ UNCHANGED <<kind, main, out, lost>>
      BY <1>4, <2>2, <3>0 DEF Take
    <3>2. /\ \A v \in Workers : v # w => pc'[v] = pc[v] /\ request'[v] = request[v]
          /\ pc'[w] = "read" /\ request'[w] = h
      BY <3>1 DEF TypeOK
    <3>3. \A j \in 1 .. Len(queue) : j = 1 \/ (j - 1 \in 1 .. Len(q) /\ q[j - 1] = queue[j])
      <4>1. queue \in Seq(Reqs) BY DEF TypeOK
      <4> QED BY <2>2, <4>1
    <3> HIDE DEF q
    <3>4. \A k : Queued(k) => k = h \/ Queued(k)'
      <4> SUFFICES ASSUME NEW k, NEW j \in 1 .. Len(queue), queue[j] = k, k # h
                   PROVE  \E l \in 1 .. Len(queue') : queue'[l] = k
        BY <3>1 DEF Queued
      <4>1. queue[1] = h BY <2>2, <3>0 DEF TypeOK
      <4>2. j - 1 \in 1 .. Len(q) /\ q[j - 1] = k BY <3>3, <4>1
      <4> QED BY <3>1, <4>2
    <3>5. \A k : Held(k) => Held(k)' BY <3>1, <3>2
    <3>6. Held(h)' BY <3>2
    <3>7. \A k : Done(k) <=> Done(k)' BY <3>1
    <3>8. main # "exit" => \A v \in Workers : pc'[v] # "end"
      BY <2>2, <3>1, <3>2
    <3>9. main # "end" BY <3>1
    <3>10. main' # "exit" => \A k \in Reqs : Queued(k)' \/ Held(k)' \/ Done(k)'
      BY <3>1, <3>4, <3>5, <3>6, <3>7
    <3> QED BY <3>1, <3>8, <3>9, <3>10
  <2> QED BY <2>1, <2>2
<1>5. ASSUME NEW w \in Workers, Read(w) \/ Call(w) \/ Return(w) \/ Overrun(w) PROVE Accounted'
  <2>1. /\ pc[w] \in Holding /\ \E l \in Holding : pc' = [pc EXCEPT ![w] = l]
        /\ UNCHANGED <<kind, main, queue, request, out, lost>>
    BY <1>5 DEF Read, Call, Return, Overrun
  <2>2. \A v \in Workers : pc'[v] \in Holding <=> pc[v] \in Holding
    BY <2>1 DEF TypeOK
  <2>3. \A v \in Workers : pc'[v] = "end" <=> pc[v] = "end"
    BY <2>1 DEF TypeOK
  <2> QED BY <2>1, <2>2, <2>3
<1>6. ASSUME NEW w \in Workers, Open(w) PROVE Accounted'
  <2>1. /\ pc[w] = "open" /\ pc' = [pc EXCEPT ![w] = "write"]
        /\ out' = [out EXCEPT ![request[w]] = Empty]
        /\ UNCHANGED <<kind, main, queue, request, lost>>
    BY <1>6 DEF Open
  <2>2. /\ \A v \in Workers : v # w => pc'[v] = pc[v]
        /\ pc'[w] = "write"
    BY <2>1 DEF TypeOK
  <2>3. \A k \in Reqs : Held(k) <=> Held(k)' BY <2>1, <2>2
  <2>4. \A k \in Reqs : k # request[w] => (Done(k) => Done(k)') BY <2>1 DEF TypeOK
  <2>5. Held(request[w])' BY <2>1, <2>2
  <2>6. \A k \in Reqs : Queued(k) => Queued(k)' BY <2>1
  <2>7. \A v \in Workers : pc'[v] = "end" => pc[v] = "end" BY <2>2
  <2>8. main = "end" => FALSE BY <2>1, <1>6
  <2>9. main' # "exit" => \A k \in Reqs : Queued(k)' \/ Held(k)' \/ Done(k)'
    BY <2>1, <2>3, <2>4, <2>5, <2>6
  <2> QED BY <2>1, <2>7, <2>8, <2>9
<1>7. ASSUME NEW w \in Workers, OpenFails(w) \/ Write(w) \/ WriteFails(w)
      PROVE  Accounted'
  <2>1. /\ pc[w] \in {"open", "write"} /\ pc' = [pc EXCEPT ![w] = "take"]
        /\ UNCHANGED <<kind, main, queue, request>>
        /\ \/ out' = [out EXCEPT ![request[w]] = data[w]] /\ lost' = lost
           \/ /\ out' = out \/ out' = [out EXCEPT ![request[w]] = Part]
              /\ lost' = lost \cup {request[w]}
    BY <1>7 DEF OpenFails, Write, WriteFails
  <2>2. /\ \A v \in Workers : v # w => pc'[v] = pc[v]
        /\ pc'[w] = "take"
    BY <2>1 DEF TypeOK
  <2>3. request[w] \in Reqs
    <3>1. request[w] \in 0 .. N /\ request[w] # 0 BY <2>1 DEF TypeOK, None
    <3> QED BY <3>1, ImageServiceAssumption DEF Reqs
  <2>4. data[w] \notin {None, Empty, Part}
    <3>1. data[w] \in {request[w], Corrupt} BY <2>1 DEF Buffers
    <3> QED BY <2>3, <3>1, ImageServiceAssumption DEF Reqs, None, Empty, Corrupt, Part
  <2>5. main # "exit" => Served(request[w]) BY <2>1 DEF Replies
  <2>6. main # "exit" => Done(request[w])' BY <2>1, <2>3, <2>4, <2>5 DEF TypeOK
  <2>7. \A k \in Reqs : k # request[w] => (Done(k) => Done(k)') BY <2>1 DEF TypeOK
  <2>8. \A k \in Reqs : k # request[w] => (Held(k) => Held(k)') BY <2>1, <2>2
  <2>9. \A k \in Reqs : Queued(k) => Queued(k)' BY <2>1
  <2>10. \A v \in Workers : pc'[v] = "end" => pc[v] = "end" BY <2>2
  <2>11. main = "end" => FALSE BY <2>1
  <2>12. main' # "exit" => \A k \in Reqs : Queued(k)' \/ Held(k)' \/ Done(k)'
    BY <2>1, <2>6, <2>7, <2>8, <2>9
  <2> QED BY <2>1, <2>10, <2>11, <2>12
<1> QED
  BY <1>0, <1>1, <1>2, <1>3, <1>4, <1>5, <1>6, <1>7
  DEF Next, Main, JoinNull, Worker, ReadFails, CallNull, CallFails, Crash

LEMMA Invariance == Spec => []Inv
<1>1. Inv /\ [Next]_vars => Inv'
  BY StepTypes, StepBuffers, StepReplies, StepAccounted DEF Inv
<1> QED BY <1>1, InitInv, PTL DEF Spec

-----------------------------------------------------------------------------
(* Every worker's request, buffer and the outputs stay what they can be,    *)
(* for any number of threads and requests.                                  *)
THEOREM TypeCorrect == Spec => []TypeOK
  BY Invariance, PTL DEF Inv

(* No output holds another request's image, and a client that ends itself   *)
(* has served every request, whatever the timeouts and the server did.      *)
THEOREM Outputs == Spec => []OutputsExact
<1>1. Inv => OutputsExact
  <2> SUFFICES ASSUME Inv PROVE OutputsExact
    OBVIOUS
  <2>1. ~overrun => \A k \in Reqs : out[k] \in {None, Empty, Part, k} BY DEF Inv, Buffers
  <2>2. ASSUME main = "end", nthreads > 0, NEW k \in Reqs
        PROVE  kind[k] \in {"good", "larger"} /\ (out[k] \in {None, Empty, Part} => k \in lost)
    <3>1. 1 \in Workers BY <2>2, ImageServiceAssumption DEF Workers
    <3>2. queue = <<>> /\ \A w \in Workers : pc[w] = "end"
      BY <2>2, <3>1 DEF Inv, Accounted
    <3>3. ~Queued(k) /\ ~Held(k) BY <3>2 DEF Queued, Held, Holding, Called
    <3>4. Done(k) BY <2>2, <3>3 DEF Inv, Accounted
    <3> QED BY <3>4 DEF Done, Served
  <2> QED BY <2>1, <2>2 DEF OutputsExact
<1> QED BY <1>1, Invariance, PTL

=============================================================================
