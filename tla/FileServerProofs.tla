-------------------------- MODULE FileServerProofs --------------------------
(***************************************************************************)
(* What is proved of the multithreaded getfile server, for any number of   *)
(* worker threads, clients, descriptors and file lengths.                  *)
(***************************************************************************)
EXTENDS FileServer, SequenceTheorems, FiniteSetTheorems, TLAPS

Statuses     == {"none", "OK", "FILE_NOT_FOUND", "ERROR"}
BossLabels   == {"accept", "lock", "enqueue", "unlock", "broadcast"}
WorkerLabels == {"lock", "check", "wait", "pop", "ended", "freed"} \cup Serving

(* Where each thread can be, and what it knows there: a serving worker has  *)
(* a job, and it sends the header of a file only when there is one.         *)
Control ==
  /\ pc["boss"] \in BossLabels
  /\ pc["boss"] \in {"lock", "enqueue"} => Len(want) > 0
  /\ \A w \in Workers :
       /\ pc[w] \in WorkerLabels
       /\ pc[w] \in Serving => job[w] \in Clients
       /\ pc[w] = "header" => want[job[w]] >= 0

TypeInv == TypeOK /\ Control

LEMMA Lengths == \A n \in FileLens : n \in Int /\ (n >= 0 => n \in Nat)
<1> TAKE n \in FileLens
<1>1. n \in Nat \cup {-1} BY ServerAssumption
<1> QED BY <1>1

(* The four variables a client adds an entry to. *)
LEMMA AppendEntry ==
  ASSUME NEW n \in Nat, NEW S, NEW f \in [1 .. n -> S], NEW e \in S
  PROVE  /\ Append(f, e) \in [1 .. n + 1 -> S]
         /\ Append(f, e)[n + 1] = e
         /\ \A i \in 1 .. n : Append(f, e)[i] = f[i]
<1>1. f \in Seq(S) /\ Len(f) = n
  OBVIOUS
<1>2. Append(f, e) \in Seq(S) /\ Len(Append(f, e)) = n + 1
  BY <1>1, AppendProperties
<1>3. Append(f, e) \in [1 .. n + 1 -> S]
  BY <1>2, LenProperties
<1>4. Append(f, e)[n + 1] = e /\ \A i \in 1 .. n : Append(f, e)[i] = f[i]
  BY <1>1, AppendProperties
<1> QED BY <1>3, <1>4

(* A step of worker w leaves the others, and what they know, alone. *)
LEMMA WorkerControl ==
  ASSUME TypeInv, NEW w \in Workers, NEW l \in WorkerLabels, pc' = [pc EXCEPT ![w] = l],
         want' = want, \A v \in Workers \ {w} : job'[v] = job[v],
         l \in Serving => job'[w] \in Clients,
         l = "header" => want[job'[w]] >= 0
  PROVE  pc' \in [Procs -> Labels] /\ Control'
<1>1. w # "boss" /\ w \in Procs /\ "boss" \in Procs
  BY ServerAssumption DEF Procs
<1>2. pc'["boss"] = pc["boss"] /\ pc'[w] = l /\ \A v \in Workers \ {w} : pc'[v] = pc[v]
  BY <1>1 DEF TypeInv, TypeOK, Procs
<1>3. pc' \in [Procs -> Labels]
  BY <1>1 DEF TypeInv, TypeOK, WorkerLabels, Labels
<1>4. \A v \in Workers : /\ pc'[v] \in WorkerLabels
                         /\ pc'[v] \in Serving => job'[v] \in Clients
                         /\ pc'[v] = "header" => want[job'[v]] >= 0
  BY <1>2 DEF TypeInv, Control
<1> QED BY <1>2, <1>3, <1>4 DEF TypeInv, Control, Clients

(* What Write does to the client behind the descriptor of w. *)
LEMMA WriteTypes ==
  ASSUME TypeOK, NEW w \in Workers, job[w] \in Clients, NEW h \in Statuses,
         NEW n \in 0 .. 1, Write(w, h, n)
  PROVE  /\ header' \in [Clients -> Statuses] /\ got' \in [Clients -> Nat]
         /\ victims' \subseteq Clients /\ victims \subseteq victims'
         /\ \A c \in Clients : header[c] # "none" => header'[c] # "none"
<1>1. Peer(w) \in Clients \cup {0}
  BY DEF TypeOK, Peer, Fd
<1>2. CASE Peer(w) # 0 /\ Peer(w) \notin closed
  <2>1. Deliver(w, h, n) BY <1>2 DEF Write
  <2>2. Peer(w) \in Clients BY <1>1, <1>2
  <2>3. header' \in [Clients -> Statuses] /\ \A c \in Clients : header[c] # "none" => header'[c] # "none"
    BY <2>1, <2>2 DEF Deliver, TypeOK, Statuses
  <2>4. got' \in [Clients -> Nat]
    BY <2>1, <2>2 DEF Deliver, TypeOK
  <2>5. victims' \subseteq Clients /\ victims \subseteq victims'
    BY <2>1, <2>2 DEF Deliver, TypeOK
  <2> QED BY <2>3, <2>4, <2>5
<1>3. CASE ~(Peer(w) # 0 /\ Peer(w) \notin closed)
  BY <1>3 DEF Write, TypeOK, Statuses
<1> QED BY <1>2, <1>3

(* What closing the descriptor of w does. *)
LEMMA CloseTypes ==
  ASSUME TypeOK, NEW w \in Workers, job[w] \in Clients, CloseFd(w)
  PROVE  /\ conn' \in [Fds -> Clients \cup {0}]
         /\ victims' \subseteq Clients /\ victims \subseteq victims'
<1>1. Peer(w) \in Clients \cup {0}
  BY DEF TypeOK, Peer, Fd
<1> QED BY <1>1 DEF CloseFd, TypeOK

LEMMA InitTypes == Init => TypeInv
  BY ServerAssumption
  DEF Init, TypeInv, TypeOK, Control, BossLabels, WorkerLabels, Labels, Serving, Clients, Procs, Fds

(* The offset stays a number of buffers or -1. *)
LEMMA AddTypes ==
  ASSUME NEW w \in Workers, bytes_transferred \in [Workers -> Nat \cup {-1}],
         NEW n \in {-1, 0}, Add(w, n)
  PROVE  bytes_transferred' \in [Workers -> Nat \cup {-1}]
<1>1. PICK b : b = IF bytes_transferred[w] < 0 THEN bytes_transferred[w]
                                               ELSE bytes_transferred[w] + n
  OBVIOUS
<1>2. bytes_transferred[w] \in Nat \cup {-1} OBVIOUS
<1>3. b \in Nat \cup {-1} BY <1>1, <1>2
<1>4. bytes_transferred' = [bytes_transferred EXCEPT ![w] = b] BY <1>1 DEF Add
<1> QED BY <1>3, <1>4

LEMMA StepTypes == TypeInv /\ [Next]_vars => TypeInv'
<1> SUFFICES ASSUME TypeInv, [Next]_vars PROVE TypeInv'
  OBVIOUS
<1> USE ServerAssumption
<1>1. ASSUME NEW p \in Procs, Lock(p) PROVE TypeInv'
  BY <1>1 DEF Lock, TypeInv, TypeOK, Control, BossLabels, WorkerLabels, Labels, Serving,
     net, client, locals, Clients, Procs
<1>2. ASSUME NEW p \in Procs, Unlock(p) PROVE TypeInv'
  BY <1>2 DEF Unlock, Goto, TypeInv, TypeOK, Control, BossLabels, WorkerLabels, Labels, Serving,
     net, client, locals, Clients, Procs
<1>3. ASSUME Accept PROVE TypeInv'
  <2> DEFINE n == Len(want)
  <2>1. n \in Nat /\ want \in Seq(FileLens) /\ want \in [1 .. n -> FileLens]
    BY DEF TypeInv, TypeOK
  <2>2. PICK f \in Fds : conn' = [conn EXCEPT ![f] = n + 1] /\ fdOf' = Append(fdOf, f)
    BY <1>3 DEF Accept
  <2>3. PICK l \in FileLens : want' = Append(want, l)
    BY <1>3 DEF Accept
  <2>4. Clients' = 1 .. n + 1 /\ want' \in Seq(FileLens) /\ Len(want') = n + 1
    BY <2>1, <2>3 DEF Clients
  <2>5. \A c \in Clients : want'[c] = want[c]
    BY <2>1, <2>3 DEF Clients
  <2>6. fdOf' \in [1 .. n + 1 -> Fds]
    BY <2>1, <2>2, AppendEntry DEF TypeInv, TypeOK, Clients
  <2>7. header' \in [1 .. n + 1 -> Statuses]
    BY <2>1, <1>3, AppendEntry DEF Accept, TypeInv, TypeOK, Clients, Statuses
  <2>8. got' \in [1 .. n + 1 -> Nat]
    BY <2>1, <1>3, AppendEntry DEF Accept, TypeInv, TypeOK, Clients
  <2>9. conn' \in [Fds -> (1 .. n + 1) \cup {0}]
    BY <2>1, <2>2 DEF TypeInv, TypeOK, Clients
  <2>10. Clients \subseteq 1 .. n + 1
    BY <2>1 DEF Clients
  <2>11. workq' \in Seq(1 .. n + 1)
    <3>1. workq \in Seq(Clients) /\ workq' = workq
      BY <1>3 DEF Accept, TypeInv, TypeOK
    <3> QED BY <2>10, <3>1, SeqMonotonic
  <2>12. TypeOK'
    BY <1>3, <2>4, <2>6, <2>7, <2>8, <2>9, <2>10, <2>11
    DEF Accept, Goto, TypeInv, TypeOK, Labels, Serving, sync, locals, Procs, Statuses
  <2>13. pc'["boss"] = "lock" /\ \A w \in Workers : pc'[w] = pc[w] /\ job'[w] = job[w]
    BY <1>3 DEF Accept, Goto, TypeInv, TypeOK, Procs
  <2>14. ASSUME NEW w \in Workers
         PROVE  /\ pc'[w] \in WorkerLabels /\ (pc'[w] \in Serving => job'[w] \in Clients')
                /\ pc'[w] = "header" => want'[job'[w]] >= 0
    <3>1. pc[w] = "header" => pc[w] \in Serving
      BY DEF Serving
    <3> QED BY <2>4, <2>5, <2>10, <2>13, <3>1 DEF TypeInv, Control
  <2>15. Control'
    BY <2>1, <2>4, <2>13, <2>14 DEF Control, BossLabels
  <2> QED BY <2>12, <2>15 DEF TypeInv
<1>4. ASSUME Enqueue PROVE TypeInv'
  <2>1. Len(want) \in Clients
    BY <1>4 DEF Enqueue, Goto, TypeInv, TypeOK, Control, Clients
  <2>2. workq' \in Seq(Clients)
    BY <1>4, <2>1 DEF Enqueue, TypeInv, TypeOK
  <2> QED
    BY <1>4, <2>2 DEF Enqueue, Goto, TypeInv, TypeOK, Control, BossLabels, WorkerLabels, Labels,
       Serving, net, client, sync, locals, Clients, Procs
<1>5. ASSUME Broadcast PROVE TypeInv'
  BY <1>5 DEF Broadcast, Goto, TypeInv, TypeOK, Control, BossLabels, WorkerLabels, Labels,
     Serving, net, client, locals, Clients, Procs
<1>6. ASSUME NEW w \in Workers, Worker(w) PROVE TypeInv'
  <2> USE DEF Worker
  <2>0. pc[w] \in WorkerLabels /\ (pc[w] \in Serving => job[w] \in Clients)
    BY DEF TypeInv, Control
  <2>1. CASE Check(w)
    <3>1. PICK l \in {"wait", "pop"} : pc' = [pc EXCEPT ![w] = l]
      BY <2>1 DEF Check
    <3>2. pc' \in [Procs -> Labels] /\ Control'
      BY <2>1, <3>1, WorkerControl DEF Check, WorkerLabels, Serving, net, client
    <3> QED
      BY <2>1, <3>2 DEF Check, TypeInv, TypeOK, net, client, sync, locals, Clients, Procs
  <2>2. CASE Pop(w)
    <3>1. Head(workq) \in Clients /\ workq' \in Seq(Clients)
      BY <2>2 DEF Pop, TypeInv, TypeOK
    <3>2. pc' \in [Procs -> Labels] /\ Control'
      BY <2>2, <3>1, WorkerControl DEF Pop, Goto, TypeInv, TypeOK, WorkerLabels, Serving, net, client
    <3> QED
      BY <2>2, <3>1, <3>2 DEF Pop, TypeInv, TypeOK, net, client, sync, locals, Clients
  <2>3. CASE Unlock(w) BY <2>3, <1>2 DEF Procs
  <2>4. CASE GetFile(w)
    <3>1. job[w] \in Clients /\ want[job[w]] \in FileLens
      BY <2>0, <2>4 DEF GetFile, Goto, TypeInv, TypeOK, Serving, Clients
    <3>2. want[job[w]] \in Int
      BY <3>1, Lengths
    <3>3. PICK l \in {"not_found", "header"} :
             pc' = [pc EXCEPT ![w] = l] /\ (l = "header" => want[job[w]] >= 0)
      <4>1. CASE want[job[w]] < 0 BY <2>4, <4>1 DEF GetFile, Goto
      <4>2. CASE ~(want[job[w]] < 0)
        <5>1. pc' = [pc EXCEPT ![w] = "header"] BY <2>4, <4>2 DEF GetFile, Goto
        <5>2. want[job[w]] >= 0 BY <3>2, <4>2
        <5> QED BY <5>1, <5>2
      <4> QED BY <4>1, <4>2
    <3>4. pc' \in [Procs -> Labels] /\ Control'
      BY <2>4, <3>1, <3>3, WorkerControl DEF GetFile, WorkerLabels, Serving, net, client
    <3> QED
      BY <2>4, <3>4 DEF GetFile, TypeInv, TypeOK, net, client, sync, locals, Clients
  <2>5. CASE NotFound(w)
    <3>1. job[w] \in Clients
      BY <2>0, <2>5 DEF NotFound, Goto, Serving
    <3>2. header' \in [Clients -> Statuses] /\ got' \in [Clients -> Nat] /\ victims' \subseteq Clients
      BY <2>5, <3>1, WriteTypes DEF NotFound, TypeInv, Statuses
    <3>3. pc' \in [Procs -> Labels] /\ Control'
      BY <2>5, WorkerControl DEF NotFound, Goto, WorkerLabels, Serving
    <3> QED
      BY <2>5, <3>2, <3>3 DEF NotFound, TypeInv, TypeOK, sync, locals, Clients, Statuses
  <2>6. CASE SendHeader(w)
    <3>1. job[w] \in Clients
      BY <2>0, <2>6 DEF SendHeader, Serving
    <3>2. want[job[w]] \in FileLens /\ want[job[w]] >= 0
      BY <2>6, <3>1 DEF SendHeader, TypeInv, TypeOK, Control, Clients
    <3>3. want[job[w]] \in Nat
      BY <3>2, Lengths
    <3>4. header' \in [Clients -> Statuses] /\ got' \in [Clients -> Nat] /\ victims' \subseteq Clients
      BY <2>6, <3>1, WriteTypes DEF SendHeader, TypeInv, Statuses
    <3>5. /\ file_len' \in [Workers -> Nat] /\ bytes_transferred' \in [Workers -> Nat \cup {-1}]
          /\ errored' \in [Workers -> BOOLEAN]
      BY <2>6, <3>3 DEF SendHeader, TypeInv, TypeOK
    <3>6. PICK l \in {"read", "lock"} : pc' = [pc EXCEPT ![w] = l]
      BY <2>6 DEF SendHeader
    <3>7. pc' \in [Procs -> Labels] /\ Control'
      BY <2>6, <3>1, <3>6, WorkerControl DEF SendHeader, WorkerLabels, Serving
    <3> QED
      BY <2>6, <3>4, <3>5, <3>7 DEF SendHeader, TypeInv, TypeOK, sync, Clients, Statuses
  <2>7. CASE Read(w)
    <3>1. job[w] \in Clients
      BY <2>0, <2>7 DEF Read, Serving
    <3>2. read_len' \in [Workers -> -1 .. 1]
      BY <2>7 DEF Read, TypeInv, TypeOK
    <3>3. PICK l \in {"err_header", "send"} : pc' = [pc EXCEPT ![w] = l]
      BY <2>7 DEF Read
    <3>4. pc' \in [Procs -> Labels] /\ Control'
      BY <2>7, <3>1, <3>3, WorkerControl DEF Read, WorkerLabels, Serving, net, client
    <3> QED
      BY <2>7, <3>2, <3>4 DEF Read, TypeInv, TypeOK, net, client, sync, Clients
  <2>8. CASE Send(w)
    <3>1. job[w] \in Clients
      BY <2>0, <2>8 DEF Send, Serving
    <3>2. header' \in [Clients -> Statuses] /\ got' \in [Clients -> Nat] /\ victims' \subseteq Clients
      BY <2>8, <3>1, WriteTypes DEF Send, TypeInv, Statuses
    <3>3. bytes_transferred' \in [Workers -> Nat \cup {-1}]
      <4>1. bytes_transferred' = [bytes_transferred EXCEPT ![w] = bytes_transferred[w] + 1] BY <2>8 DEF Send
      <4>2. bytes_transferred \in [Workers -> Nat \cup {-1}] BY DEF TypeInv, TypeOK
      <4>3. bytes_transferred[w] + 1 \in Nat \cup {-1} BY <4>2
      <4> QED BY <4>1, <4>2, <4>3
    <3>4. PICK l \in {"drain", "read"} : pc' = [pc EXCEPT ![w] = l]
      BY <2>8 DEF Send
    <3>5. pc' \in [Procs -> Labels] /\ Control'
      BY <2>8, <3>1, <3>4, WorkerControl DEF Send, WorkerLabels, Serving
    <3> QED
      BY <2>8, <3>2, <3>3, <3>5 DEF Send, TypeInv, TypeOK, sync, Clients, Statuses
  <2>9. CASE SendFails(w) \/ Drain(w)
    <3>1. job[w] \in Clients
      BY <2>0, <2>9 DEF SendFails, Drain, Goto, Serving
    <3>2. PICK l \in {"err_header", "close"} : pc' = [pc EXCEPT ![w] = l]
      BY <2>9 DEF SendFails, Drain, Goto
    <3>3. pc' \in [Procs -> Labels] /\ Control'
      BY <2>9, <3>1, <3>2, WorkerControl DEF SendFails, Drain, WorkerLabels, Serving, net, client
    <3> QED
      BY <2>9, <3>3 DEF SendFails, Drain, TypeInv, TypeOK, net, client, sync, locals, Clients
  <2>13. CASE SendNothing(w)
    <3>1. job[w] \in Clients BY <2>0, <2>13 DEF SendNothing, Goto, Serving
    <3>2. /\ read_len \in [Workers -> -1 .. 1] /\ read_len[w] # 1
          /\ bytes_transferred \in [Workers -> Nat \cup {-1}]
      BY <2>13 DEF SendNothing, TypeInv, TypeOK
    <3>3. bytes_transferred' \in [Workers -> Nat \cup {-1}]
      BY <2>13, <3>2, AddTypes DEF SendNothing
    <3>4. pc' \in [Procs -> Labels] /\ Control'
      BY <2>13, <3>1, WorkerControl DEF SendNothing, Goto, WorkerLabels, Serving, net, client
    <3> QED BY <2>13, <3>3, <3>4 DEF SendNothing, TypeInv, TypeOK, net, client, sync, Clients
  <2>10. CASE Close(w)
    <3>1. job[w] \in Clients
      BY <2>0, <2>10 DEF Close, Goto, Serving
    <3>2. conn' \in [Fds -> Clients \cup {0}] /\ victims' \subseteq Clients
      BY <2>10, <3>1, CloseTypes DEF Close, TypeInv
    <3>3. PICK l \in {"freed", "lock"} : pc' = [pc EXCEPT ![w] = l]
      BY <2>10 DEF Close, Goto
    <3>4. pc' \in [Procs -> Labels] /\ Control'
      BY <2>10, <3>3, WorkerControl DEF Close, WorkerLabels, Serving, client
    <3> QED
      BY <2>10, <3>2, <3>4 DEF Close, TypeInv, TypeOK, client, sync, locals, Clients
  <2>11. CASE ErrorHeader(w)
    <3>1. job[w] \in Clients
      BY <2>0, <2>11 DEF ErrorHeader, Goto, Serving
    <3>2. header' \in [Clients -> Statuses] /\ got' \in [Clients -> Nat] /\ victims' \subseteq Clients
      BY <2>11, <3>1, WriteTypes DEF ErrorHeader, TypeInv, Statuses
    <3>3. pc' \in [Procs -> Labels] /\ Control'
      BY <2>11, <3>1, WorkerControl DEF ErrorHeader, Goto, WorkerLabels, Serving
    <3> QED
      BY <2>11, <3>2, <3>3 DEF ErrorHeader, TypeInv, TypeOK, sync, Clients, Statuses
  <2>12. CASE Abort(w)
    <3>1. job[w] \in Clients
      BY <2>0, <2>12 DEF Abort, Goto, Serving
    <3>2. conn' \in [Fds -> Clients \cup {0}] /\ victims' \subseteq Clients
      BY <2>12, <3>1, CloseTypes DEF Abort, TypeInv
    <3>3. bytes_transferred' \in [Workers -> Nat \cup {-1}]
      <4>1. /\ read_len \in [Workers -> -1 .. 1]
            /\ bytes_transferred \in [Workers -> Nat \cup {-1}]
        BY DEF TypeInv, TypeOK
      <4>2. CASE read_len[w] = 1 BY <2>12, <4>1, <4>2, AddTypes DEF Abort
      <4>3. CASE read_len[w] # 1 BY <2>12, <4>1, <4>3 DEF Abort
      <4> QED BY <4>2, <4>3
    <3>5. PICK l \in {"read", "send"} : pc' = [pc EXCEPT ![w] = l] BY <2>12 DEF Abort, Goto
    <3>4. pc' \in [Procs -> Labels] /\ Control'
      BY <2>12, <3>1, <3>5, WorkerControl DEF Abort, Goto, WorkerLabels, Serving, client
    <3> QED
      BY <2>12, <3>2, <3>3, <3>4 DEF Abort, TypeInv, TypeOK, client, sync, Clients
  <2> QED BY <1>6, <2>1, <2>2, <2>3, <2>4, <2>5, <2>6, <2>7, <2>8, <2>9, <2>10, <2>11, <2>12,
           <2>13
<1>7. ASSUME NEW w \in Workers, BrokenPipe(w) \/ SpuriousWakeup(w) PROVE TypeInv'
  BY <1>7 DEF BrokenPipe, SpuriousWakeup, TypeInv, TypeOK, Control, net, client, sync, locals, Clients
<1>8. ASSUME NEW c \in Clients, ClientCloses(c) \/ ClientQuits(c) \/ Truncate(c) PROVE TypeInv'
  BY <1>8 DEF ClientCloses, ClientQuits, Truncate, TypeInv, TypeOK, Control, sync, locals, Clients
<1>9. CASE UNCHANGED vars
  BY <1>9 DEF vars, TypeInv, TypeOK, Control, net, client, sync, locals, Clients
<1> QED BY <1>1, <1>2, <1>3, <1>4, <1>5, <1>6, <1>7, <1>8, <1>9 DEF Next, Boss, Procs

LEMMA TypeInvariance == Spec => []TypeInv
  BY InitTypes, StepTypes, PTL DEF Spec

(* Every variable of the server keeps its type, and a worker past gfs_send  *)
(* never reads or writes for a client that does not exist.                  *)
THEOREM TypeCorrect == Spec => []TypeOK
  BY TypeInvariance, PTL DEF TypeInv

-----------------------------------------------------------------------------
(* What a step of worker w leaves alone. *)
LEMMA WorkerMoves ==
  ASSUME TypeInv, NEW w \in Workers, Worker(w)
  PROVE  /\ pc'["boss"] = pc["boss"] /\ \A v \in Workers \ {w} : pc'[v] = pc[v] /\ job'[v] = job[v]
         /\ up' = up /\ want' = want /\ fdOf' = fdOf /\ closed' = closed /\ truncated' = truncated
         /\ pc'[w] \in Serving => pc[w] \in Serving \cup {"pop"}
         /\ pc[w] # "pop" => job' = job /\ workq' = workq
         /\ pc[w] # "check" => newrq_cond' = newrq_cond
<1>1. w # "boss" /\ w \in Procs /\ "boss" \in Procs /\ pc \in [Procs -> Labels] /\ job \in [Workers -> Clients \cup {0}]
  BY ServerAssumption DEF TypeInv, TypeOK, Procs
<1>2. \E l : pc' = [pc EXCEPT ![w] = l]
  BY DEF Worker, Check, Pop, Unlock, GetFile, NotFound, SendHeader, Read, Send, SendFails, SendNothing, Drain,
         Close, ErrorHeader, Abort, Goto
<1>3. pc'["boss"] = pc["boss"] /\ \A v \in Workers \ {w} : pc'[v] = pc[v]
  BY <1>1, <1>2 DEF Procs
<1>4. up' = up /\ want' = want /\ fdOf' = fdOf /\ closed' = closed /\ truncated' = truncated
  BY DEF Worker, Check, Pop, Unlock, GetFile, NotFound, SendHeader, Read, Send, SendFails, SendNothing, Drain,
         Close, ErrorHeader, Abort, Goto, net, client
<1>5. CASE Check(w)
  <2>1. pc'[w] \in {"wait", "pop"} BY <1>1, <1>5 DEF Check
  <2>2. pc'[w] \notin Serving BY <2>1 DEF Serving
  <2> QED BY <1>3, <1>4, <1>5, <2>2 DEF Check
<1>6. CASE Pop(w)
  BY <1>1, <1>3, <1>4, <1>6 DEF Pop, Goto, sync
<1>7. CASE ~Check(w) /\ ~Pop(w)
  <2>1. pc[w] \in Serving
    BY <1>7 DEF Worker, Unlock, GetFile, NotFound, SendHeader, Read, Send, SendFails, SendNothing, Drain,
           Close, ErrorHeader, Abort, Goto, Serving
  <2>2. job' = job /\ workq' = workq /\ newrq_cond' = newrq_cond
    BY <1>7 DEF Worker, Unlock, GetFile, NotFound, SendHeader, Read, Send, SendFails, SendNothing, Drain,
           Close, ErrorHeader, Abort, Goto, sync
  <2> QED BY <1>3, <1>4, <2>1, <2>2
<1> QED BY <1>5, <1>6, <1>7

(* No worker sleeps beside a queued request unless the broadcast of         *)
(* handler_get is still coming.                                             *)
THEOREM LostWakeup == Spec => []NoLostWakeup
<1>1. Init => NoLostWakeup
  BY DEF Init, NoLostWakeup
<1>2. TypeInv /\ NoLostWakeup /\ [Next]_vars => NoLostWakeup'
  <2> SUFFICES ASSUME TypeInv, NoLostWakeup, [Next]_vars PROVE NoLostWakeup'
    OBVIOUS
  <2>1. /\ pc \in [Procs -> Labels] /\ "boss" \in Procs /\ "boss" \notin Workers
        /\ pc["boss"] \in BossLabels
    BY ServerAssumption DEF TypeInv, TypeOK, Control, Procs
  <2>2. CASE Accept
    BY <2>1, <2>2 DEF Accept, Goto, NoLostWakeup, sync
  <2>3. CASE Enqueue
    BY <2>1, <2>3 DEF Enqueue, Goto, NoLostWakeup
  <2>4. CASE Broadcast
    BY <2>4 DEF Broadcast, NoLostWakeup
  <2>5. ASSUME NEW p \in Procs, Lock(p) PROVE NoLostWakeup'
    BY <2>1, <2>5 DEF Lock, NoLostWakeup
  <2>6. CASE Unlock("boss")
    BY <2>1, <2>6 DEF Unlock, Goto, NoLostWakeup
  <2>7. ASSUME NEW w \in Workers, Worker(w) PROVE NoLostWakeup'
    <3>1. CASE pc[w] = "check"
      BY <2>1, <2>7, <3>1, WorkerMoves
      DEF Worker, Check, Pop, Unlock, GetFile, NotFound, SendHeader, Read, Send, SendFails, SendNothing, Drain,
          Close, ErrorHeader, Abort, Goto, NoLostWakeup, sync
    <3>2. CASE pc[w] = "pop"
      <4>1. workq # << >> /\ newrq_cond' = newrq_cond /\ pc'["boss"] = pc["boss"]
        BY <2>7, <3>2, WorkerMoves
        DEF Worker, Check, Pop, Unlock, GetFile, NotFound, SendHeader, Read, Send, SendFails, SendNothing, Drain,
            Close, ErrorHeader, Abort, Goto
      <4> QED BY <4>1 DEF NoLostWakeup
    <3>3. CASE pc[w] \notin {"check", "pop"}
      BY <2>7, <3>3, WorkerMoves DEF NoLostWakeup
    <3> QED BY <3>1, <3>2, <3>3
  <2>8. ASSUME NEW w \in Workers, BrokenPipe(w) \/ SpuriousWakeup(w) PROVE NoLostWakeup'
    BY <2>8 DEF BrokenPipe, SpuriousWakeup, NoLostWakeup, sync
  <2>9. ASSUME NEW c \in Clients, ClientCloses(c) \/ ClientQuits(c) \/ Truncate(c) PROVE NoLostWakeup'
    BY <2>9 DEF ClientCloses, ClientQuits, Truncate, NoLostWakeup, sync
  <2>10. CASE UNCHANGED vars
    BY <2>10 DEF vars, sync, NoLostWakeup
  <2> QED BY <2>2, <2>3, <2>4, <2>5, <2>6, <2>7, <2>8, <2>9, <2>10 DEF Next, Boss
<1> QED BY <1>1, <1>2, TypeInvariance, PTL DEF Spec

-----------------------------------------------------------------------------
(* A request is in one place: twice neither in the queue nor with workers,  *)
(* and at most one of the queue, the workers and the boss has it.           *)
Unique ==
  /\ \A i, j \in 1 .. Len(workq) : workq[i] = workq[j] => i = j
  /\ \A v, w \in Workers : pc[v] \in Serving /\ pc[w] \in Serving /\ job[v] = job[w] => v = w
  /\ \A w \in Workers : pc[w] \in Serving => \A i \in 1 .. Len(workq) : workq[i] # job[w]
  /\ pc["boss"] \in {"lock", "enqueue"} =>
       /\ \A i \in 1 .. Len(workq) : workq[i] # Len(want)
       /\ \A w \in Workers : pc[w] \in Serving => job[w] # Len(want)

LEMMA StepUnique == TypeInv /\ Unique /\ [Next]_vars => Unique'
<1> SUFFICES ASSUME TypeInv, Unique, [Next]_vars PROVE Unique'
  OBVIOUS
<1>1. /\ pc \in [Procs -> Labels] /\ "boss" \in Procs /\ "boss" \notin Workers /\ Workers \subseteq Procs
      /\ Len(want) \in Nat /\ Len(workq) \in Nat /\ workq \in Seq(Clients)
      /\ \A i \in 1 .. Len(workq) : workq[i] \in 1 .. Len(want)
      /\ \A w \in Workers : pc[w] \in Serving => job[w] \in 1 .. Len(want)
  BY ServerAssumption, LenProperties DEF TypeInv, TypeOK, Control, Procs, Clients
<1>2. CASE Accept
  <2>1. /\ workq' = workq /\ job' = job /\ Len(want') = Len(want) + 1
        /\ pc'["boss"] = "lock" /\ \A w \in Workers : pc'[w] = pc[w]
    BY <1>1, <1>2 DEF Accept, Goto, TypeInv, TypeOK
  <2> QED BY <1>1, <2>1 DEF Unique
<1>3. CASE Enqueue
  <2>1. /\ job' = job /\ pc["boss"] = "enqueue" /\ pc'["boss"] = "unlock"
        /\ \A w \in Workers : pc'[w] = pc[w]
    BY <1>1, <1>3 DEF Enqueue, Goto
  <2>2. /\ Len(workq') = Len(workq) + 1 /\ workq'[Len(workq) + 1] = Len(want)
        /\ \A i \in 1 .. Len(workq) : workq'[i] = workq[i]
    <3>1. workq' = Append(workq, Len(want)) BY <1>3 DEF Enqueue
    <3> QED BY <1>1, <3>1, SMTT(30)
  <2> QED BY <1>1, <2>1, <2>2, SMTT(30) DEF Unique
<1>4. ASSUME NEW p \in Procs, Lock(p) PROVE Unique'
  <2>1. /\ workq' = workq /\ job' = job /\ want' = want
        /\ pc'["boss"] \in {"lock", "enqueue"} => pc["boss"] \in {"lock", "enqueue", "wait"}
        /\ \A w \in Workers : pc'[w] \in Serving => pc'[w] = pc[w]
    BY <1>1, <1>4 DEF Lock, net, client, Procs, Serving
  <2> QED BY <1>1, <2>1 DEF Unique, TypeInv, Control, BossLabels
<1>5. CASE Broadcast \/ Unlock("boss")
  <2>1. /\ workq' = workq /\ job' = job /\ want' = want /\ pc'["boss"] \notin {"lock", "enqueue"}
        /\ \A w \in Workers : pc'[w] = pc[w]
    BY <1>1, <1>5 DEF Broadcast, Unlock, Goto, net, client
  <2> QED BY <2>1 DEF Unique
<1>6. ASSUME NEW w \in Workers, Worker(w) PROVE Unique'
  <2>1. CASE pc[w] = "pop"
    <3>1. /\ Pop(w) /\ workq # << >> /\ job' = [job EXCEPT ![w] = Head(workq)] /\ workq' = Tail(workq)
      BY <1>6, <2>1
      DEF Worker, Check, Pop, Unlock, GetFile, NotFound, SendHeader, Read, Send, SendFails, SendNothing, Drain,
          Close, ErrorHeader, Abort, Goto
    <3>2. /\ Len(workq') = Len(workq) - 1 /\ Len(workq) >= 1
          /\ \A i \in 1 .. Len(workq') : i + 1 \in 1 .. Len(workq) /\ workq'[i] = workq[i + 1]
          /\ job'[w] = workq[1]
      BY <1>1, <3>1 DEF TypeInv, TypeOK
    <3>3. pc[w] \notin Serving BY <2>1 DEF Serving
    <3>4. /\ want' = want /\ pc'["boss"] = pc["boss"]
          /\ \A v \in Workers \ {w} : pc'[v] = pc[v] /\ job'[v] = job[v]
      BY <1>6, WorkerMoves
    <3>5. \A i, j \in 1 .. Len(workq') : workq'[i] = workq'[j] => i = j
      BY <1>1, <3>2 DEF Unique
    <3>6. \A u, v \in Workers : pc'[u] \in Serving /\ pc'[v] \in Serving /\ job'[u] = job'[v] => u = v
      BY <1>1, <3>2, <3>4 DEF Unique
    <3>7. \A v \in Workers : pc'[v] \in Serving => \A i \in 1 .. Len(workq') : workq'[i] # job'[v]
      BY <1>1, <3>2, <3>4 DEF Unique
    <3>8. ASSUME pc["boss"] \in {"lock", "enqueue"}
          PROVE  /\ \A i \in 1 .. Len(workq') : workq'[i] # Len(want)
                 /\ \A v \in Workers : pc'[v] \in Serving => job'[v] # Len(want)
      <4>1. \A i \in 1 .. Len(workq) : workq[i] # Len(want) BY <3>8 DEF Unique
      <4>2. 1 \in 1 .. Len(workq) BY <1>1, <3>2
      <4>3. workq[1] # Len(want) BY <4>1, <4>2
      <4> QED BY <3>2, <3>4, <3>8, <4>1, <4>3 DEF Unique
    <3> QED BY <3>4, <3>5, <3>6, <3>7, <3>8 DEF Unique
  <2>2. CASE pc[w] # "pop"
    <3>1. /\ workq' = workq /\ job' = job /\ want' = want /\ pc'["boss"] = pc["boss"]
          /\ \A v \in Workers : pc'[v] \in Serving => pc[v] \in Serving
      BY <1>6, <2>2, WorkerMoves
    <3> QED BY <3>1 DEF Unique
  <2> QED BY <2>1, <2>2
<1>7. ASSUME NEW w \in Workers, BrokenPipe(w) \/ SpuriousWakeup(w) PROVE Unique'
  BY <1>7 DEF BrokenPipe, SpuriousWakeup, Unique, net, client
<1>8. ASSUME NEW c \in Clients, ClientCloses(c) \/ ClientQuits(c) \/ Truncate(c) PROVE Unique'
  BY <1>8 DEF ClientCloses, ClientQuits, Truncate, Unique
<1>9. CASE UNCHANGED vars
  BY <1>9 DEF vars, net, client, Unique
<1> QED BY <1>2, <1>3, <1>4, <1>5, <1>6, <1>7, <1>8, <1>9 DEF Next, Boss

(* Where a request can be, without sets: it is Fresh until a worker has     *)
(* written its header.                                                      *)
InQueue(c) == \E i \in 1 .. Len(workq) : workq[i] = c
Pend(c)    == AtBoss(c) \/ InQueue(c) \/ \E w \in Workers : pc[w] \in Serving /\ job[w] = c
Early      == {"unlock", "get", "not_found", "header"}
Fresh(c)   == AtBoss(c) \/ InQueue(c) \/ \E w \in Workers : pc[w] \in Early /\ job[w] = c

LEMMA PendIsPending == ASSUME TypeInv, NEW c PROVE Pend(c) <=> Pending(c)
<1>1. DOMAIN workq = 1 .. Len(workq)
  BY LenProperties DEF TypeInv, TypeOK
<1> QED BY <1>1 DEF Pend, Pending, InQueue, Queued, ServedBy

(* What the boss, the clients and the end of the process do to a request    *)
(* already accepted.                                                        *)
Other ==
  \/ Boss
  \/ \E p \in Procs : Lock(p)
  \/ \E w \in Workers : BrokenPipe(w) \/ SpuriousWakeup(w)
  \/ \E c \in Clients : ClientCloses(c) \/ ClientQuits(c) \/ Truncate(c)
  \/ UNCHANGED vars

LEMMA OtherSteps ==
  ASSUME TypeInv, Other
  PROVE  /\ UNCHANGED <<want, fdOf, header, got, conn, victims, job, locals>>
         /\ closed \subseteq closed' /\ truncated \subseteq truncated'
         /\ \A w \in Workers : pc'[w] = pc[w] \/ pc'[w] = "check"
         /\ \A w \in Workers : pc[w] \in Serving => pc'[w] = pc[w]
         /\ \A c \in Clients : (Pend(c)' <=> Pend(c)) /\ (Fresh(c)' <=> Fresh(c))
<1>1. /\ pc \in [Procs -> Labels] /\ "boss" \in Procs /\ "boss" \notin Workers /\ Workers \subseteq Procs
      /\ Len(workq) \in Nat /\ workq \in Seq(Clients) /\ Len(want) \in Nat
      /\ pc["boss"] \in BossLabels
      /\ Early \subseteq Serving /\ "check" \notin Serving /\ "lock" \notin Serving /\ "wait" \notin Serving
  BY ServerAssumption, LenProperties DEF TypeInv, TypeOK, Control, Procs, Clients, Early, Serving
<1>2. CASE Enqueue
  <2>1. workq' = Append(workq, Len(want)) /\ want' = want /\ job' = job /\ pc["boss"] = "enqueue"
        /\ pc'["boss"] = "unlock" /\ \A w \in Workers : pc'[w] = pc[w]
    BY <1>1, <1>2 DEF Enqueue, Goto, net, client
  <2>2. /\ Len(workq') = Len(workq) + 1 /\ workq'[Len(workq) + 1] = Len(want)
        /\ \A i \in 1 .. Len(workq) : workq'[i] = workq[i]
    BY <1>1, <2>1
  <2>3. ASSUME NEW c \in Clients PROVE InQueue(c)' <=> InQueue(c) \/ c = Len(want)
    BY <1>1, <2>2 DEF InQueue
  <2>4. ASSUME NEW c \in Clients PROVE AtBoss(c) <=> c = Len(want)
    BY <2>1 DEF AtBoss
  <2>5. ASSUME NEW c \in Clients PROVE ~AtBoss(c)'
    BY <2>1 DEF AtBoss
  <2> QED BY <1>2, <2>1, <2>3, <2>4, <2>5 DEF Enqueue, Pend, Fresh, net, client
<1>3. CASE Broadcast \/ Unlock("boss")
  <2>1. /\ UNCHANGED <<net, job, locals, workq>> /\ \A w \in Workers : pc'[w] = pc[w]
        /\ pc["boss"] \notin {"lock", "enqueue"} /\ pc'["boss"] \notin {"lock", "enqueue"}
    BY <1>1, <1>3 DEF Broadcast, Unlock, Goto
  <2> QED BY <2>1 DEF Pend, Fresh, AtBoss, InQueue, net, client
<1>4. ASSUME NEW p \in Procs, Lock(p)
      PROVE  /\ UNCHANGED <<net, job, locals, workq>>
             /\ pc'["boss"] \in {"lock", "enqueue"} <=> pc["boss"] \in {"lock", "enqueue"}
             /\ \A w \in Workers : pc'[w] = pc[w] \/ (pc[w] \in {"lock", "wait"} /\ pc'[w] = "check")
  BY <1>1, <1>4 DEF Lock, BossLabels, Procs
<1>5. ASSUME NEW p \in Procs, Lock(p)
      PROVE \A c \in Clients : (Pend(c)' <=> Pend(c)) /\ (Fresh(c)' <=> Fresh(c))
  <2>1. \A w \in Workers : /\ pc'[w] \in Serving <=> pc[w] \in Serving
                           /\ pc'[w] \in Early <=> pc[w] \in Early
    BY <1>1, <1>4, <1>5
  <2>2. UNCHANGED <<want, workq, job>> BY <1>4, <1>5 DEF net, client
  <2>3. (pc'["boss"] \in {"lock", "enqueue"}) = (pc["boss"] \in {"lock", "enqueue"}) BY <1>4, <1>5
  <2>4. ASSUME NEW c \in Clients PROVE AtBoss(c)' <=> AtBoss(c) BY <2>2, <2>3 DEF AtBoss
  <2>5. ASSUME NEW c \in Clients PROVE InQueue(c)' <=> InQueue(c) BY <2>2 DEF InQueue
  <2>6. job' = job BY <2>2
  <2>7. ASSUME NEW c \in Clients PROVE Pend(c)' <=> Pend(c)
    <3>1. (\E w \in Workers : pc'[w] \in Serving /\ job'[w] = c)
            <=> (\E w \in Workers : pc[w] \in Serving /\ job[w] = c)
      BY <2>1, <2>6
    <3> QED BY <2>4, <2>5, <3>1 DEF Pend
  <2>8. ASSUME NEW c \in Clients PROVE Fresh(c)' <=> Fresh(c)
    <3>1. (\E w \in Workers : pc'[w] \in Early /\ job'[w] = c)
            <=> (\E w \in Workers : pc[w] \in Early /\ job[w] = c)
      BY <2>1, <2>6
    <3> QED BY <2>4, <2>5, <3>1 DEF Fresh
  <2> QED BY <2>7, <2>8
<1>6. ASSUME NEW w \in Workers, BrokenPipe(w) \/ SpuriousWakeup(w)
      PROVE  UNCHANGED <<net, job, locals, workq, pc>>
  BY <1>6 DEF BrokenPipe, SpuriousWakeup
<1>7. ASSUME NEW c \in Clients, ClientCloses(c) \/ ClientQuits(c) \/ Truncate(c)
      PROVE  /\ UNCHANGED <<want, fdOf, header, got, conn, victims, job, locals, workq, pc>>
             /\ closed \subseteq closed' /\ truncated \subseteq truncated'
  BY <1>7 DEF ClientCloses, ClientQuits, Truncate
<1>8. CASE UNCHANGED <<want, fdOf, header, got, conn, victims, job, locals, workq, pc>>
           /\ closed \subseteq closed' /\ truncated \subseteq truncated'
  BY <1>8 DEF Pend, Fresh, AtBoss, InQueue
<1>9. ASSUME NEW p \in Procs, Lock(p)
      PROVE  /\ UNCHANGED <<want, fdOf, header, got, conn, victims, job, locals>>
             /\ closed \subseteq closed' /\ truncated \subseteq truncated'
             /\ \A w \in Workers : pc'[w] = pc[w] \/ pc'[w] = "check"
             /\ \A w \in Workers : pc[w] \in Serving => pc'[w] = pc[w]
  BY <1>1, <1>4, <1>9 DEF net, client
<1>10. CASE \E p \in Procs : Lock(p)
  BY <1>5, <1>9, <1>10
<1>11. CASE \E w \in Workers : BrokenPipe(w) \/ SpuriousWakeup(w)
  BY <1>6, <1>8, <1>11 DEF net, client
<1>12. CASE \E c \in Clients : ClientCloses(c) \/ ClientQuits(c) \/ Truncate(c)
  BY <1>7, <1>8, <1>12
<1>3a. CASE UNCHANGED vars
  BY <1>8, <1>3a DEF vars, net, client
<1> QED BY <1>2, <1>3, <1>10, <1>11, <1>12, <1>3a DEF Other, Boss

LEMMA NextCases == [Next]_vars => Accept \/ Other \/ \E w \in Workers : Worker(w)
  BY DEF Next, Other

(* What a worker does to a request: it takes it from the queue, writes its  *)
(* header, and in the end lets go of it.                                    *)
LEMMA WorkerSteps ==
  ASSUME TypeInv, Unique, NEW w \in Workers, Worker(w), NEW c \in Clients
  PROVE  /\ pc[w] \notin Serving \/ pc'[w] \in Serving => (Pend(c)' <=> Pend(c))
         /\ pc[w] \in Serving /\ pc'[w] \notin Serving => (Pend(c)' <=> Pend(c) /\ c # job[w])
         /\ Fresh(c)' => Fresh(c)
         /\ Fresh(c) => Fresh(c)' \/ (pc[w] \in {"not_found", "header"} /\ c = job[w])
<1>1. /\ w \in Procs /\ pc \in [Procs -> Labels] /\ job \in [Workers -> Clients \cup {0}]
      /\ Len(workq) \in Nat /\ workq \in Seq(Clients)
      /\ Early \subseteq Serving /\ {"pop", "check", "wait"} \cap Serving = {}
  BY LenProperties DEF TypeInv, TypeOK, Procs, Early, Serving
<1>2. /\ pc'["boss"] = pc["boss"] /\ want' = want
      /\ \A v \in Workers \ {w} : pc'[v] = pc[v] /\ job'[v] = job[v]
      /\ pc'[w] \in Serving => pc[w] \in Serving \cup {"pop"}
      /\ pc[w] # "pop" => job' = job /\ workq' = workq
  BY WorkerMoves
<1>3. AtBoss(c)' <=> AtBoss(c)
  BY <1>2 DEF AtBoss
<1>4. CASE pc[w] = "pop"
  <2>1. /\ workq # << >> /\ job' = [job EXCEPT ![w] = Head(workq)] /\ workq' = Tail(workq)
        /\ pc' = [pc EXCEPT ![w] = "unlock"]
    BY <1>4
    DEF Worker, Check, Pop, Unlock, GetFile, NotFound, SendHeader, Read, Send, SendFails, SendNothing, Drain,
        Close, ErrorHeader, Abort, Goto
  <2>2. /\ Len(workq') = Len(workq) - 1 /\ Len(workq) >= 1
        /\ \A i \in 1 .. Len(workq') : i + 1 \in 1 .. Len(workq) /\ workq'[i] = workq[i + 1]
        /\ job'[w] = workq[1] /\ pc'[w] = "unlock"
    BY <1>1, <2>1
  <2>3. InQueue(c) <=> InQueue(c)' \/ c = workq[1]
    <3>1. ASSUME InQueue(c), c # workq[1] PROVE InQueue(c)'
      <4>1. PICK i \in 1 .. Len(workq) : workq[i] = c BY <3>1 DEF InQueue
      <4>2. i - 1 \in 1 .. Len(workq') /\ i = (i - 1) + 1 BY <1>1, <2>2, <3>1, <4>1
      <4>3. workq'[i - 1] = c BY <2>2, <4>1, <4>2
      <4> QED BY <4>2, <4>3 DEF InQueue
    <3>2. ASSUME InQueue(c)' PROVE InQueue(c)
      BY <2>2, <3>2 DEF InQueue
    <3>3. ASSUME c = workq[1] PROVE InQueue(c)
      <4>1. 1 \in 1 .. Len(workq) BY <1>1, <2>2
      <4> QED BY <3>3, <4>1 DEF InQueue
    <3> QED BY <3>1, <3>2, <3>3
  <2>4. "unlock" \in Early /\ "unlock" \in Serving BY DEF Early, Serving
  <2>5. (\E v \in Workers : pc'[v] \in Serving /\ job'[v] = c)
          <=> (\E v \in Workers : pc[v] \in Serving /\ job[v] = c) \/ c = workq[1]
    BY <1>1, <1>2, <1>4, <2>2, <2>4
  <2>6. (\E v \in Workers : pc'[v] \in Early /\ job'[v] = c)
          <=> (\E v \in Workers : pc[v] \in Early /\ job[v] = c) \/ c = workq[1]
    BY <1>1, <1>2, <1>4, <2>2, <2>4
  <2> QED BY <1>1, <1>3, <1>4, <2>3, <2>5, <2>6 DEF Pend, Fresh
<1>5. CASE pc[w] # "pop"
  <2>1. InQueue(c)' <=> InQueue(c) BY <1>2, <1>5 DEF InQueue
  <2>2. pc'[w] \in Early => pc[w] \in Early
    BY <1>1, <1>5
    DEF Worker, Check, Pop, Unlock, GetFile, NotFound, SendHeader, Read, Send, SendFails, SendNothing, Drain,
        Close, ErrorHeader, Abort, Goto, Early
  <2>3. pc[w] \in Early => pc'[w] \in Early \/ pc[w] \in {"not_found", "header"}
    <3>1. CASE pc[w] = "unlock"
      <4>1. Unlock(w)
        BY <3>1 DEF Worker, Check, Pop, GetFile, NotFound, SendHeader, Read, Send, SendFails, SendNothing, Drain,
               Close, ErrorHeader, Abort, Goto
      <4>2. pc'[w] = "get" BY <1>1, <4>1, ServerAssumption DEF Unlock, Goto
      <4> QED BY <4>2 DEF Early
    <3>2. CASE pc[w] = "get"
      <4>1. GetFile(w)
        BY <3>2 DEF Worker, Check, Pop, Unlock, NotFound, SendHeader, Read, Send, SendFails, SendNothing, Drain,
               Close, ErrorHeader, Abort, Goto
      <4>2. pc'[w] \in {"not_found", "header"} BY <1>1, <4>1 DEF GetFile, Goto
      <4> QED BY <4>2 DEF Early
    <3> QED BY <3>1, <3>2 DEF Early
  <2>4. Fresh(c)' => Fresh(c)
    BY <1>2, <1>3, <1>5, <2>1, <2>2 DEF Fresh
  <2>5. Fresh(c) => Fresh(c)' \/ (pc[w] \in {"not_found", "header"} /\ c = job[w])
    BY <1>2, <1>3, <1>5, <2>1, <2>3 DEF Fresh
  <2>6. ASSUME pc[w] \notin Serving \/ pc'[w] \in Serving PROVE Pend(c)' <=> Pend(c)
    <3>1. \A v \in Workers : (pc'[v] \in Serving <=> pc[v] \in Serving) /\ job'[v] = job[v]
      BY <1>2, <1>5, <2>6
    <3> QED BY <1>3, <2>1, <3>1 DEF Pend
  <2>7. ASSUME pc[w] \in Serving, pc'[w] \notin Serving PROVE Pend(c)' <=> Pend(c) /\ c # job[w]
    <3>1. \A v \in Workers : /\ pc'[v] \in Serving <=> pc[v] \in Serving /\ v # w
                             /\ job'[v] = job[v]
      BY <1>2, <1>5, <2>7
    <3>2. ~AtBoss(job[w]) /\ ~InQueue(job[w])
      BY <2>7 DEF Unique, AtBoss, InQueue
    <3>3. (\E v \in Workers : pc'[v] \in Serving /\ job'[v] = c)
            <=> (\E v \in Workers : pc[v] \in Serving /\ job[v] = c) /\ c # job[w]
      BY <2>7, <3>1 DEF Unique
    <3> QED BY <1>3, <2>1, <3>2, <3>3 DEF Pend
  <2> QED BY <2>4, <2>5, <2>6, <2>7
<1> QED BY <1>4, <1>5

-----------------------------------------------------------------------------
(* Until a worker touches another's connection: the connection of a request *)
(* without a header is open, and a client without a header has a request    *)
(* that waits for it, or has closed.                                        *)
Answered ==
  victims = {} =>
    \A c \in Clients :
      /\ Fresh(c) => conn[fdOf[c]] = c
      /\ Fresh(c) \/ header[c] # "none" \/ c \in closed

(* What a worker does to the connections. *)
LEMMA WorkerConnections ==
  ASSUME TypeInv, NEW w \in Workers, Worker(w)
  PROVE  /\ victims \subseteq victims'
         /\ \A c \in Clients : header[c] # "none" => header'[c] # "none"
         /\ conn' = conn \/ (pc[w] \in {"close", "err_abort"} /\ CloseFd(w))
<1>1. pc[w] \in Serving => job[w] \in Clients
  BY DEF TypeInv, Control
<1>2. CASE pc[w] \in {"not_found", "header", "send", "err_header"}
  <2>1. job[w] \in Clients BY <1>1, <1>2 DEF Serving
  <2>2. conn' = conn
    BY <1>2 DEF Worker, Check, Pop, Unlock, GetFile, NotFound, SendHeader, Read, Send, SendFails, SendNothing, Drain,
           Close, ErrorHeader, Abort, Goto, net
  <2>3. SendFails(w) \/ SendNothing(w) \/ \E h \in Statuses, n \in 0 .. 1 : Write(w, h, n)
    BY <1>2 DEF Worker, Check, Pop, Unlock, GetFile, NotFound, SendHeader, Read, Send, Drain,
           Close, ErrorHeader, Abort, Goto, Statuses
  <2>4. CASE SendFails(w) \/ SendNothing(w)
    BY <2>4 DEF SendFails, SendNothing, net, client
  <2>5. CASE \E h \in Statuses, n \in 0 .. 1 : Write(w, h, n)
    BY <2>1, <2>2, <2>5, WriteTypes DEF TypeInv
  <2> QED BY <2>3, <2>4, <2>5
<1>3. CASE pc[w] \in {"close", "err_abort"}
  <2>1. job[w] \in Clients BY <1>1, <1>3 DEF Serving
  <2>2. CloseFd(w) /\ header' = header
    BY <1>3 DEF Worker, Check, Pop, Unlock, GetFile, NotFound, SendHeader, Read, Send, SendFails, SendNothing, Drain,
           Close, ErrorHeader, Abort, Goto, client
  <2> QED BY <1>3, <2>1, <2>2, CloseTypes DEF TypeInv
<1>4. CASE pc[w] \notin {"not_found", "header", "send", "err_header", "close", "err_abort"}
  BY <1>4 DEF Worker, Check, Pop, Unlock, GetFile, NotFound, SendHeader, Read, Send, SendFails, SendNothing, Drain,
         Close, ErrorHeader, Abort, Goto, net, client
<1> QED BY <1>2, <1>3, <1>4

(* A worker that writes the header of a request whose connection is open    *)
(* reaches its client, unless the client has closed.                        *)
LEMMA HeaderReaches ==
  ASSUME TypeInv, NEW w \in Workers, Worker(w), pc[w] \in {"not_found", "header"},
         conn[fdOf[job[w]]] = job[w], job[w] \notin closed
  PROVE  header'[job[w]] # "none"
<1>1. job[w] \in Clients /\ job[w] # 0
  BY DEF TypeInv, Control, Serving, Clients
<1>2. Peer(w) = job[w]
  BY DEF Peer, Fd
<1>3. \E h \in {"FILE_NOT_FOUND", "OK"} : Write(w, h, 0)
  BY DEF Worker, Check, Pop, Unlock, GetFile, NotFound, SendHeader, Read, Send, SendFails, SendNothing, Drain,
         Close, ErrorHeader, Abort, Goto
<1>4. PICK h \in {"FILE_NOT_FOUND", "OK"} : header' = [header EXCEPT ![job[w]] = h]
  BY <1>1, <1>2, <1>3 DEF Write, Deliver
<1> QED BY <1>1, <1>4 DEF TypeInv, TypeOK

(* What accepting a connection does. *)
LEMMA AcceptStep ==
  ASSUME TypeInv, Accept
  PROVE  /\ Clients' = Clients \cup {Len(want) + 1} /\ Len(want) + 1 \notin Clients
         /\ header'[Len(want) + 1] = "none" /\ got'[Len(want) + 1] = 0
         /\ conn'[fdOf'[Len(want) + 1]] = Len(want) + 1
         /\ Len(want') = Len(want) + 1 /\ pc'["boss"] = "lock"
         /\ UNCHANGED <<closed, truncated, victims, workq, sync, job, locals>>
         /\ \A w \in Workers : pc'[w] = pc[w]
         /\ \A c \in Clients :
              /\ header'[c] = header[c] /\ got'[c] = got[c] /\ want'[c] = want[c] /\ fdOf'[c] = fdOf[c]
              /\ conn'[fdOf'[c]] = c <=> conn[fdOf[c]] = c
              /\ ~AtBoss(c) /\ ~AtBoss(c)'
<1> DEFINE n == Len(want)
<1>1. /\ n \in Nat /\ want \in Seq(FileLens) /\ fdOf \in [1 .. n -> Fds] /\ header \in [1 .. n -> Statuses]
      /\ got \in [1 .. n -> Nat] /\ conn \in [Fds -> (1 .. n) \cup {0}]
  BY DEF TypeInv, TypeOK, Clients, Statuses
<1>2. PICK f \in Fds : conn[f] = 0 /\ conn' = [conn EXCEPT ![f] = n + 1] /\ fdOf' = Append(fdOf, f)
  BY DEF Accept
<1>3. PICK l \in FileLens : want' = Append(want, l)
  BY DEF Accept
<1>4. Len(want') = n + 1 /\ \A c \in 1 .. n : want'[c] = want[c]
  BY <1>1, <1>3
<1>5. Clients = 1 .. n /\ Clients' = 1 .. n + 1
  BY <1>4 DEF Clients
<1>6. fdOf'[n + 1] = f /\ \A c \in 1 .. n : fdOf'[c] = fdOf[c]
  BY <1>1, <1>2, AppendEntry
<1>7. header'[n + 1] = "none" /\ \A c \in 1 .. n : header'[c] = header[c]
  <2>1. header' = Append(header, "none") /\ "none" \in Statuses BY DEF Accept, Statuses
  <2> QED BY <1>1, <2>1, AppendEntry
<1>8. got'[n + 1] = 0 /\ \A c \in 1 .. n : got'[c] = got[c]
  <2>1. got' = Append(got, 0) BY DEF Accept
  <2> QED BY <1>1, <2>1, AppendEntry
<1>9. conn'[f] = n + 1 /\ \A c \in 1 .. n : conn'[fdOf[c]] = c <=> conn[fdOf[c]] = c
  BY <1>1, <1>2
<1>10. pc["boss"] = "accept" /\ pc'["boss"] = "lock" /\ \A w \in Workers : pc'[w] = pc[w]
  BY ServerAssumption DEF Accept, Goto, TypeInv, TypeOK, Procs
<1>11. \A c \in 1 .. n : ~AtBoss(c) /\ ~AtBoss(c)'
  BY <1>1, <1>4, <1>10 DEF AtBoss
<1>12. UNCHANGED <<closed, truncated, victims, workq, sync, job, locals>>
  BY DEF Accept
<1> QED BY <1>1, <1>4, <1>5, <1>6, <1>7, <1>8, <1>9, <1>10, <1>11, <1>12

LEMMA StepAnswered == TypeInv /\ Unique /\ Answered /\ [Next]_vars => Answered'
<1> SUFFICES ASSUME TypeInv, Unique, Answered, [Next]_vars, victims' = {}
             PROVE  \A c \in Clients' : /\ Fresh(c)' => conn'[fdOf'[c]] = c
                                        /\ Fresh(c)' \/ header'[c] # "none" \/ c \in closed'
  BY DEF Answered
<1>1. CASE Accept
  <2> TAKE c \in Clients'
  <2>1. CASE c = Len(want) + 1
    BY <1>1, <2>1, AcceptStep DEF Fresh, AtBoss
  <2>2. CASE c # Len(want) + 1
    <3>1. c \in Clients /\ victims = {} BY <1>1, <2>2, AcceptStep
    <3>2. Fresh(c)' <=> Fresh(c)
      BY <1>1, <3>1, AcceptStep DEF Fresh, InQueue
    <3> QED BY <1>1, <3>1, <3>2, AcceptStep DEF Answered
  <2> QED BY <2>1, <2>2
<1>2. CASE Other
  <2>1. victims = {} /\ Clients' = Clients BY <1>2, OtherSteps DEF Clients
  <2> QED BY <1>2, <2>1, OtherSteps DEF Answered
<1>3. ASSUME NEW w \in Workers, Worker(w), NEW c \in Clients'
      PROVE  /\ Fresh(c)' => conn'[fdOf'[c]] = c
             /\ Fresh(c)' \/ header'[c] # "none" \/ c \in closed'
  <2>1. want' = want /\ fdOf' = fdOf /\ closed' = closed BY <1>3, WorkerMoves
  <2>2. victims = {} /\ c \in Clients BY <1>3, <2>1, WorkerConnections DEF Clients
  <2>3. ASSUME Fresh(c)' PROVE conn'[fdOf'[c]] = c
    <3>1. Fresh(c) /\ conn[fdOf[c]] = c
      BY <1>3, <2>2, <2>3, WorkerSteps DEF Answered
    <3>2. CASE conn' = conn BY <2>1, <3>1, <3>2
    <3>3. CASE pc[w] \in {"close", "err_abort"} /\ CloseFd(w)
      <4>1. job[w] # c
        <5>1. pc[w] \in Serving /\ pc[w] \notin Early /\ Early \subseteq Serving BY <3>3 DEF Serving, Early
        <5> QED BY <3>1, <5>1 DEF Fresh, Unique, AtBoss, InQueue
      <4>2. CASE Fd(w) = fdOf[c]
        <5>1. Peer(w) = c /\ c # 0 BY <2>2, <3>1, <4>2 DEF Peer, Clients
        <5>2. c \in victims' BY <3>3, <4>1, <5>1 DEF CloseFd
        <5> QED BY <5>2
      <4>3. CASE Fd(w) # fdOf[c]
        BY <2>1, <3>1, <3>3, <4>3 DEF CloseFd, TypeInv, TypeOK
      <4> QED BY <4>2, <4>3
    <3> QED BY <1>3, <3>2, <3>3, WorkerConnections
  <2>4. Fresh(c)' \/ header'[c] # "none" \/ c \in closed'
    <3>1. CASE ~Fresh(c)
      BY <1>3, <2>1, <2>2, <3>1, WorkerConnections DEF Answered
    <3>2. CASE Fresh(c) /\ ~Fresh(c)'
      <4>1. pc[w] \in {"not_found", "header"} /\ c = job[w] /\ conn[fdOf[c]] = c
        BY <1>3, <2>2, <3>2, WorkerSteps DEF Answered
      <4> QED BY <1>3, <2>1, <4>1, HeaderReaches
    <3> QED BY <3>1, <3>2
  <2> QED BY <2>3, <2>4
<1> QED BY <1>1, <1>2, <1>3, NextCases

-----------------------------------------------------------------------------
(* What a worker knows of its file as long as no file is cut.               *)
Progress(w) ==
  /\ pc[w] = "not_found" => want[job[w]] < 0
  /\ pc[w] \in {"read", "send"} =>
       /\ file_len[w] = want[job[w]] /\ 0 <= bytes_transferred[w]
       /\ bytes_transferred[w] < file_len[w] /\ got[job[w]] <= bytes_transferred[w]
  /\ pc[w] = "send" => read_len[w] = 1
  /\ pc[w] \in {"drain", "close"} => want[job[w]] > 0

Clean ==
  /\ victims = {}
  /\ \A w \in Workers :
       /\ pc[w] \notin {"err_header", "err_abort", "freed"} /\ errored[w] = FALSE
       /\ Progress(w)
  /\ \A c \in Clients :
       /\ conn[fdOf[c]] = c <=> Pend(c) \/ want[c] <= 0
       /\ Fresh(c) => got[c] = 0
       /\ got[c] = 0 \/ got[c] <= want[c]

UncutClean == truncated = {} => Clean

(* A write on its own request's connection. *)
LEMMA WriteOwn ==
  ASSUME TypeInv, NEW w \in Workers, job[w] \in Clients, Peer(w) = job[w],
         NEW h, NEW n \in 0 .. 1, Write(w, h, n)
  PROVE  /\ victims' = victims
         /\ \A c \in Clients \ {job[w]} : got'[c] = got[c]
         /\ got'[job[w]] = got[job[w]] \/ got'[job[w]] = got[job[w]] + n
  BY DEF Write, Deliver, TypeInv, TypeOK

(* The effects of one step of a worker on a server where no file was cut.   *)
LEMMA CleanEffects ==
  ASSUME TypeInv, Unique, Clean, truncated = {}, NEW w \in Workers, Worker(w)
  PROVE  /\ pc[w] \in Serving => job[w] \in Clients /\ Peer(w) = job[w]
         /\ victims' = {}
         /\ conn' = conn \/ (pc[w] = "close" /\ conn' = [conn EXCEPT ![Fd(w)] = 0])
         /\ \A c \in Clients : got'[c] = got[c] \/ (pc[w] = "send" /\ c = job[w] /\ got'[c] = got[c] + 1)
         /\ pc'[w] \notin {"err_header", "err_abort", "freed"} /\ \A v \in Workers : errored'[v] = FALSE
         /\ \A v \in Workers \ {w} :
              /\ file_len'[v] = file_len[v] /\ bytes_transferred'[v] = bytes_transferred[v]
              /\ read_len'[v] = read_len[v]
         /\ read_len' = read_len \/ (pc[w] = "read" /\ read_len'[w] = 1)
<1>1. /\ w \in Procs /\ pc \in [Procs -> Labels] /\ job \in [Workers -> Clients \cup {0}]
      /\ got \in [Clients -> Nat] /\ pc[w] \notin {"err_header", "err_abort", "freed"}
      /\ errored \in [Workers -> BOOLEAN] /\ bytes_transferred \in [Workers -> Nat \cup {-1}]
      /\ file_len \in [Workers -> Nat] /\ read_len \in [Workers -> -1 .. 1]
  BY DEF TypeInv, TypeOK, Procs, Clean
<1>2. ASSUME pc[w] \in Serving PROVE job[w] \in Clients /\ Peer(w) = job[w] /\ job[w] # 0
  <2>1. job[w] \in Clients BY <1>2 DEF TypeInv, Control
  <2>2. Pend(job[w]) BY <1>2 DEF Pend
  <2> QED BY <2>1, <2>2 DEF Clean, Peer, Fd, Clients
<1>3. CASE Check(w) \/ Pop(w) \/ Unlock(w) \/ GetFile(w) \/ Drain(w)
  <2>1. UNCHANGED <<net, locals>>
    BY <1>3 DEF Check, Pop, Unlock, GetFile, Drain
  <2>2. pc'[w] \notin {"err_header", "err_abort", "freed"}
    BY <1>1, <1>3 DEF Check, Pop, Unlock, GetFile, Drain, Goto
  <2> QED BY <1>2, <2>1, <2>2 DEF Clean, net, client, locals
<1>4. CASE NotFound(w)
  <2>1. pc[w] \in Serving /\ Write(w, "FILE_NOT_FOUND", 0) BY <1>4 DEF NotFound, Goto, Serving
  <2>2. conn' = conn /\ pc'[w] = "ended" /\ UNCHANGED locals BY <1>1, <1>4 DEF NotFound, Goto
  <2> QED BY <1>1, <1>2, <2>1, <2>2, WriteOwn DEF Clean, locals
<1>5. CASE SendHeader(w)
  <2>1. pc[w] \in Serving /\ Write(w, "OK", 0) BY <1>5 DEF SendHeader, Serving
  <2>2. /\ conn' = conn /\ pc'[w] \in {"read", "lock"} /\ \A v \in Workers : errored'[v] = FALSE
        /\ \A v \in Workers \ {w} : file_len'[v] = file_len[v] /\ bytes_transferred'[v] = bytes_transferred[v]
        /\ read_len' = read_len
    BY <1>1, <1>5 DEF SendHeader, Clean
  <2> QED BY <1>1, <1>2, <2>1, <2>2, WriteOwn DEF Clean
<1>6. CASE Read(w)
  <2>1. pc[w] = "read" /\ 0 <= bytes_transferred[w] /\ bytes_transferred[w] \in Int
    BY <1>1, <1>6 DEF Read, Clean, Progress
  <2>2. read_len'[w] = 1
    BY <1>6, <2>1 DEF Read, TypeInv, TypeOK
  <2>3. pc'[w] = "send" BY <1>1, <1>6, <2>2 DEF Read
  <2>4. /\ UNCHANGED <<net, errored, file_len, bytes_transferred>>
        /\ \A v \in Workers \ {w} : read_len'[v] = read_len[v]
    BY <1>1, <1>6 DEF Read
  <2> QED BY <1>2, <2>1, <2>2, <2>3, <2>4 DEF Clean, net, client
<1>7. CASE Send(w)
  <2>1. pc[w] \in Serving /\ pc[w] = "send" /\ Write(w, "none", 1) BY <1>7 DEF Send, Serving
  <2>2. /\ conn' = conn /\ pc'[w] \in {"read", "drain"} /\ errored' = errored /\ file_len' = file_len
        /\ \A v \in Workers \ {w} : bytes_transferred'[v] = bytes_transferred[v]
        /\ read_len' = read_len
    BY <1>1, <1>7 DEF Send
  <2> QED BY <1>1, <1>2, <2>1, <2>2, WriteOwn DEF Clean
<1>8. CASE SendFails(w) \/ SendNothing(w)
  <2>1. pc[w] = "send" /\ pc[w] \in Serving BY <1>8 DEF SendFails, SendNothing, Goto, Serving
  <2>2. read_len[w] = 1 BY <2>1 DEF Clean, Progress
  <2> QED BY <1>2, <1>8, <2>1, <2>2 DEF SendFails, SendNothing
<1>9. CASE Close(w)
  <2>1. pc[w] \in Serving /\ pc[w] = "close" /\ CloseFd(w) /\ UNCHANGED <<client, locals>>
    BY <1>9 DEF Close, Goto, Serving
  <2>2. pc'[w] = "lock" BY <1>1, <1>9 DEF Close, Goto, Clean
  <2> QED BY <1>2, <2>1, <2>2 DEF Clean, CloseFd, client, locals
<1>10. CASE ErrorHeader(w) \/ Abort(w)
  BY <1>1, <1>10 DEF ErrorHeader, Abort, Goto
<1> QED BY <1>3, <1>4, <1>5, <1>6, <1>7, <1>8, <1>9, <1>10 DEF Worker

LEMMA WorkerClean ==
  ASSUME TypeInv, Unique, Clean, truncated = {}, NEW w \in Workers, Worker(w)
  PROVE  Clean'
<1>1. /\ want' = want /\ fdOf' = fdOf /\ Clients' = Clients
      /\ \A v \in Workers \ {w} : pc'[v] = pc[v] /\ job'[v] = job[v]
      /\ pc[w] # "pop" => job' = job
  BY WorkerMoves DEF Clients
<1>2. /\ w \in Procs /\ pc \in [Procs -> Labels] /\ want \in Seq(FileLens)
      /\ got \in [Clients -> Nat] /\ bytes_transferred \in [Workers -> Nat \cup {-1}]
      /\ file_len \in [Workers -> Nat] /\ fdOf \in [Clients -> Fds] /\ conn \in [Fds -> Clients \cup {0}]
  BY DEF TypeInv, TypeOK, Procs
<1>3. \A c \in Clients : want[c] \in Int
  BY <1>2, Lengths, ElementOfSeq DEF Clients
<1>3a. bytes_transferred[w] \in Int /\ \A c \in Clients : got[c] \in Int
  BY <1>2
<1>4. ASSUME NEW c \in Clients PROVE got'[c] = got[c] \/ (pc[w] = "send" /\ c = job[w] /\ got'[c] = got[c] + 1)
  BY CleanEffects
<1>5. \A v \in Workers \ {w} : Progress(v)'
  <2> TAKE v \in Workers \ {w}
  <2>1. /\ pc'[v] = pc[v] /\ job'[v] = job[v] /\ file_len'[v] = file_len[v]
        /\ bytes_transferred'[v] = bytes_transferred[v] /\ read_len'[v] = read_len[v]
        /\ Progress(v)
    BY <1>1, CleanEffects DEF Clean
  <2>2. ASSUME pc[v] \in Serving PROVE got'[job[v]] = got[job[v]]
    <3>1. job[v] \in Clients BY <2>2 DEF TypeInv, Control
    <3>2. pc[w] \in Serving => job[v] # job[w] BY <2>2 DEF Unique
    <3>3. pc[w] = "send" => pc[w] \in Serving BY DEF Serving
    <3> QED BY <1>4, <3>1, <3>2, <3>3
  <2>3. pc[v] \in {"read", "send"} => pc[v] \in Serving BY DEF Serving
  <2> QED BY <1>1, <2>1, <2>2, <2>3 DEF Progress
<1>6. Progress(w)'
  <2>1. CASE GetFile(w)
    <3>1. job' = job /\ pc'[w] = IF want[job[w]] < 0 THEN "not_found" ELSE "header"
      BY <1>2, <2>1 DEF GetFile, Goto
    <3> QED BY <1>1, <3>1 DEF Progress
  <2>2. CASE SendHeader(w)
    <3>1. job[w] \in Clients /\ pc[w] = "header" /\ job' = job BY <2>2 DEF SendHeader, TypeInv, Control, Serving
    <3>2. Fresh(job[w]) BY <3>1 DEF Fresh, Early
    <3>3. got[job[w]] = 0 /\ got'[job[w]] = 0 BY <1>4, <3>1, <3>2 DEF Clean
    <3>4. file_len'[w] = want[job[w]] /\ bytes_transferred'[w] = 0 BY <1>2, <2>2 DEF SendHeader
    <3>5. pc'[w] = IF want[job[w]] > 0 THEN "read" ELSE "lock" BY <1>2, <2>2, <3>4 DEF SendHeader
    <3> QED BY <1>1, <1>3, <3>1, <3>3, <3>4, <3>5 DEF Progress
  <2>3. CASE Read(w)
    <3>1. /\ pc[w] = "read" /\ job' = job /\ got' = got /\ file_len' = file_len
          /\ bytes_transferred' = bytes_transferred /\ Progress(w)
      BY <2>3 DEF Read, net, client, Clean
    <3>2. pc'[w] \in {"err_header", "send"} BY <1>2, <2>3 DEF Read
    <3>3. pc'[w] = "send" BY <3>2, CleanEffects
    <3>4. read_len'[w] = 1
      <4>1. read_len'[w] \in -1 .. 1 /\ (read_len'[w] # 1 => pc'[w] = "err_header")
        BY <1>2, <2>3 DEF Read, TypeInv, TypeOK
      <4> QED BY <3>3, <4>1
    <3> QED BY <1>1, <3>1, <3>3, <3>4 DEF Progress
  <2>4. CASE Send(w)
    <3>1. /\ pc[w] = "send" /\ job' = job /\ job[w] \in Clients /\ file_len' = file_len
          /\ bytes_transferred'[w] = bytes_transferred[w] + 1 /\ Progress(w)
      BY <1>2, <2>4 DEF Send, TypeInv, Control, Serving, Clean
    <3>2. got'[job[w]] <= bytes_transferred'[w] /\ want[job[w]] > 0 /\ bytes_transferred'[w] >= 0
      BY <1>3, <1>4, <1>3a, <3>1 DEF Progress
    <3>3. pc'[w] = IF bytes_transferred'[w] >= file_len[w] THEN "drain" ELSE "read"
      BY <1>2, <2>4 DEF Send, Clean
    <3> QED BY <1>1, <1>2, <1>3, <3>1, <3>2, <3>3 DEF Progress
  <2>5. CASE Drain(w)
    BY <1>1, <1>2, <2>5 DEF Drain, Goto, Progress, Clean
  <2>7. CASE SendNothing(w)
    <3>1. pc[w] = "send" /\ read_len[w] # 1 BY <2>7 DEF SendNothing, Goto
    <3> QED BY <3>1 DEF Clean, Progress
  <2>6. CASE Check(w) \/ Pop(w) \/ Unlock(w) \/ NotFound(w) \/ SendFails(w) \/ Close(w) \/ ErrorHeader(w) \/ Abort(w)
    <3>1. w # "boss" BY ServerAssumption
    <3>2. pc'[w] \in {"wait", "pop", "unlock", "get", "ended", "err_header", "freed", "lock", "err_abort"} \/ pc[w] = "err_abort"
      BY <1>2, <2>6, <3>1 DEF Check, Pop, Unlock, NotFound, SendFails, Close, ErrorHeader, Abort, Goto
    <3>3. pc[w] # "err_abort" BY DEF Clean
    <3> QED BY <3>2, <3>3 DEF Progress
  <2> QED BY <2>1, <2>2, <2>3, <2>4, <2>5, <2>6, <2>7 DEF Worker
<1>7. ASSUME NEW c \in Clients PROVE conn'[fdOf[c]] = c <=> Pend(c)' \/ want[c] <= 0
  <2>1. CASE pc[w] \notin Serving \/ pc'[w] \in Serving
    <3>1. Pend(c)' <=> Pend(c) BY <2>1, WorkerSteps
    <3>2. pc[w] # "close"
      BY <1>2, <2>1 DEF Worker, Check, Pop, Unlock, GetFile, NotFound, SendHeader, Read, Send, SendFails, SendNothing,
         Drain, Close, ErrorHeader, Abort, Goto, Serving
    <3>3. conn' = conn BY <3>2, CleanEffects
    <3> QED BY <3>1, <3>3 DEF Clean
  <2>2. CASE pc[w] \in Serving /\ pc'[w] \notin Serving
    <3>1. Pend(c)' <=> Pend(c) /\ c # job[w] BY <2>2, WorkerSteps
    <3>2. job[w] \in Clients /\ conn[fdOf[job[w]]] = job[w]
      BY <2>2, CleanEffects DEF Peer, Fd
    <3>3. CASE Close(w)
      <4>1. pc[w] = "close" /\ want[job[w]] > 0 /\ CloseFd(w) BY <3>3 DEF Close, Goto, Clean, Progress
      <4>2. conn' = [conn EXCEPT ![fdOf[job[w]]] = 0] BY <4>1 DEF CloseFd, Fd
      <4>3. CASE c = job[w]
        <5>1. conn'[fdOf[c]] = 0 BY <1>2, <4>2, <4>3
        <5> QED BY <1>3, <3>1, <4>1, <4>3, <5>1 DEF Clients
      <4>4. CASE c # job[w]
        <5>1. conn'[fdOf[c]] = c <=> conn[fdOf[c]] = c
          BY <1>2, <3>2, <4>2, <4>4 DEF Clients
        <5> QED BY <3>1, <4>4, <5>1 DEF Clean
      <4> QED BY <4>3, <4>4
    <3>4. CASE NotFound(w) \/ SendHeader(w)
      <4>1. want[job[w]] <= 0
        <5>1. CASE NotFound(w)
          <6>1. want[job[w]] < 0 BY <5>1 DEF NotFound, Goto, Clean, Progress
          <6> QED BY <1>3, <3>2, <6>1
        <5>2. CASE SendHeader(w)
          <6>1. pc'[w] = IF want[job[w]] > 0 THEN "read" ELSE "lock"
            BY <1>2, <5>2 DEF SendHeader, TypeInv, TypeOK
          <6>2. "read" \in Serving BY DEF Serving
          <6> QED BY <1>3, <2>2, <3>2, <6>1, <6>2
        <5> QED BY <3>4, <5>1, <5>2
      <4>2. conn' = conn BY <3>4 DEF NotFound, SendHeader
      <4> QED BY <3>1, <4>1, <4>2 DEF Clean
    <3>5. Close(w) \/ NotFound(w) \/ SendHeader(w)
      <4>1. w # "boss" BY ServerAssumption
      <4> QED
        BY <1>2, <2>2, <4>1 DEF Worker, Check, Pop, Unlock, GetFile, Read, Send, SendFails, SendNothing,
           Drain, ErrorHeader, Abort, Goto, Serving
    <3> QED BY <3>3, <3>4, <3>5
  <2> QED BY <2>1, <2>2
<1>8. ASSUME NEW c \in Clients, Fresh(c)' PROVE got'[c] = 0
  <2>1. Fresh(c) /\ got[c] = 0 BY <1>8, WorkerSteps DEF Clean
  <2>2. ASSUME pc[w] = "send" PROVE c # job[w]
    <3>1. pc[w] \in Serving /\ pc[w] \notin Early /\ Early \subseteq Serving BY <2>2 DEF Serving, Early
    <3> QED BY <2>1, <3>1 DEF Fresh, Unique, AtBoss, InQueue
  <2> QED BY <1>4, <2>1, <2>2
<1>9. ASSUME NEW c \in Clients PROVE got'[c] = 0 \/ got'[c] <= want[c]
  <2>1. CASE got'[c] = got[c] BY <2>1 DEF Clean
  <2>2. CASE pc[w] = "send" /\ c = job[w] /\ got'[c] = got[c] + 1
    <3>1. Progress(w) BY DEF Clean
    <3> QED BY <1>3, <1>3a, <2>2, <3>1 DEF Progress
  <2> QED BY <1>4, <2>1, <2>2
<1>10. \A v \in Workers : pc'[v] \notin {"err_header", "err_abort", "freed"} /\ errored'[v] = FALSE
  BY <1>1, CleanEffects DEF Clean
<1>11. victims' = {} BY CleanEffects
<1>12. \A c \in Clients' : /\ conn'[fdOf'[c]] = c <=> Pend(c)' \/ want'[c] <= 0
                           /\ Fresh(c)' => got'[c] = 0
                           /\ got'[c] = 0 \/ got'[c] <= want'[c]
  BY <1>1, <1>7, <1>8, <1>9
<1> QED BY <1>5, <1>6, <1>10, <1>11, <1>12 DEF Clean

LEMMA StepClean == TypeInv /\ Unique /\ UncutClean /\ [Next]_vars => UncutClean'
<1> SUFFICES ASSUME TypeInv, Unique, UncutClean, [Next]_vars, truncated' = {} PROVE Clean'
  BY DEF UncutClean
<1>1. CASE Accept
  <2>1. truncated = {} /\ Clean BY <1>1, AcceptStep DEF UncutClean
  <2>2. ASSUME NEW c \in Clients
        PROVE  /\ Pend(c)' <=> Pend(c)
               /\ Fresh(c)' <=> Fresh(c)
    BY <1>1, AcceptStep DEF Pend, Fresh, InQueue
  <2>3. ASSUME NEW c \in Clients
        PROVE  /\ conn'[fdOf'[c]] = c <=> Pend(c)' \/ want'[c] <= 0
               /\ Fresh(c)' => got'[c] = 0
               /\ got'[c] = 0 \/ got'[c] <= want'[c]
    BY <1>1, <2>1, <2>2, AcceptStep DEF Clean
  <2>4. ASSUME NEW c \in Clients', c \notin Clients
        PROVE  /\ conn'[fdOf'[c]] = c <=> Pend(c)' \/ want'[c] <= 0
               /\ Fresh(c)' => got'[c] = 0
               /\ got'[c] = 0 \/ got'[c] <= want'[c]
    <3>1. c = Len(want) + 1 BY <1>1, <2>4, AcceptStep
    <3>2. Pend(c)' BY <1>1, <3>1, AcceptStep DEF Pend, AtBoss
    <3> QED BY <1>1, <3>1, <3>2, AcceptStep
  <2>5. \A w \in Workers : Progress(w)'
    <3> TAKE w \in Workers
    <3>1. Progress(w) /\ pc'[w] = pc[w] /\ UNCHANGED <<job, file_len, read_len, bytes_transferred>>
      BY <1>1, <2>1, AcceptStep DEF Clean, locals
    <3>2. pc[w] \in Serving => want'[job[w]] = want[job[w]] /\ got'[job[w]] = got[job[w]]
      BY <1>1, AcceptStep DEF TypeInv, Control
    <3>3. pc[w] \in {"not_found", "read", "send", "drain", "close"} => pc[w] \in Serving BY DEF Serving
    <3> QED BY <3>1, <3>2, <3>3 DEF Progress
  <2>6. /\ victims' = {}
        /\ \A w \in Workers : pc'[w] \notin {"err_header", "err_abort", "freed"} /\ errored'[w] = FALSE
    BY <1>1, <2>1, AcceptStep DEF Clean, locals
  <2> QED BY <2>3, <2>4, <2>5, <2>6 DEF Clean
<1>2. CASE Other
  <2>1. truncated = {} /\ Clean /\ Clients' = Clients BY <1>2, OtherSteps DEF UncutClean, Clients
  <2>2. \A w \in Workers : Progress(w)'
    BY <1>2, <2>1, OtherSteps DEF Clean, Progress, locals
  <2>3. \A c \in Clients' :
          /\ conn'[fdOf'[c]] = c <=> Pend(c)' \/ want'[c] <= 0
          /\ Fresh(c)' => got'[c] = 0
          /\ got'[c] = 0 \/ got'[c] <= want'[c]
    BY <1>2, <2>1, OtherSteps DEF Clean
  <2>4. /\ victims' = {}
        /\ \A w \in Workers : pc'[w] \notin {"err_header", "err_abort", "freed"} /\ errored'[w] = FALSE
    BY <1>2, <2>1, OtherSteps DEF Clean, locals
  <2> QED BY <2>2, <2>3, <2>4 DEF Clean
<1>3. ASSUME NEW w \in Workers, Worker(w) PROVE Clean'
  <2>1. truncated = {} BY <1>3, WorkerMoves
  <2> QED BY <1>3, <2>1, WorkerClean DEF UncutClean
<1> QED BY <1>1, <1>2, <1>3, NextCases

ServerInv == TypeInv /\ Unique /\ Answered /\ UncutClean

LEMMA Invariance == Spec => []ServerInv
<1>1. Init => ServerInv
  <2> SUFFICES ASSUME Init PROVE ServerInv
    OBVIOUS
  <2>1. /\ Clients = {} /\ workq = << >> /\ victims = {}
        /\ pc["boss"] = "accept" /\ \A w \in Workers : pc[w] = "lock" /\ errored[w] = FALSE
    BY ServerAssumption DEF Init, Clients, Procs
  <2>2. Unique BY <2>1 DEF Unique, Serving
  <2>3. Answered BY <2>1 DEF Answered
  <2>4. \A w \in Workers : Progress(w) BY <2>1 DEF Progress
  <2>5. UncutClean BY <2>1, <2>4 DEF UncutClean, Clean
  <2> QED BY InitTypes, <2>2, <2>3, <2>5 DEF ServerInv
<1>2. ServerInv /\ [Next]_vars => ServerInv'
  BY StepTypes, StepUnique, StepAnswered, StepClean DEF ServerInv
<1> QED BY <1>1, <1>2, PTL DEF Spec

LEMMA AtMostOne ==
  ASSUME NEW S, \A x, y \in S : x = y
  PROVE  Cardinality(S) \in {0, 1} /\ (S = {} => Cardinality(S) = 0)
<1>1. CASE S = {} BY <1>1, FS_EmptySet
<1>2. CASE S # {}
  <2>1. PICK x : S = {x} BY <1>2
  <2> QED BY <1>2, <2>1, FS_Singleton
<1> QED BY <1>1, <1>2

(* A request is never in two places, and a client that is not answered has  *)
(* one that waits, through all interleavings of the boss and the workers.   *)
THEOREM Handled == Spec => []HandledOnce
<1>1. ServerInv => HandledOnce
  <2> SUFFICES ASSUME ServerInv, NEW c \in Clients
               PROVE  /\ Cardinality(Queued(c)) + Cardinality(ServedBy(c)) + (IF AtBoss(c) THEN 1 ELSE 0) <= 1
                      /\ header[c] = "none" /\ c \notin closed /\ victims = {} => Pending(c)
    BY DEF HandledOnce
  <2>1. DOMAIN workq = 1 .. Len(workq)
    BY LenProperties DEF ServerInv, TypeInv, TypeOK
  <2>2. Cardinality(Queued(c)) \in {0, 1} /\ (Queued(c) = {} => Cardinality(Queued(c)) = 0)
    <3>1. \A i, j \in Queued(c) : i = j BY <2>1 DEF Queued, ServerInv, Unique
    <3> QED BY <3>1, AtMostOne
  <2>3. Cardinality(ServedBy(c)) \in {0, 1} /\ (ServedBy(c) = {} => Cardinality(ServedBy(c)) = 0)
    <3>1. \A v, w \in ServedBy(c) : v = w BY DEF ServedBy, ServerInv, Unique
    <3> QED BY <3>1, AtMostOne
  <2>4. /\ Queued(c) = {} \/ ServedBy(c) = {}
        /\ AtBoss(c) => Queued(c) = {} /\ ServedBy(c) = {}
    BY <2>1 DEF Queued, ServedBy, AtBoss, ServerInv, Unique
  <2>5. Fresh(c) => Pend(c)
    <3>1. Early \subseteq Serving BY DEF Early, Serving
    <3> QED BY <3>1 DEF Fresh, Pend
  <2>6. header[c] = "none" /\ c \notin closed /\ victims = {} => Pending(c)
    BY <2>5, PendIsPending DEF ServerInv, Answered
  <2>7. Cardinality(Queued(c)) + Cardinality(ServedBy(c)) + (IF AtBoss(c) THEN 1 ELSE 0) <= 1
    BY <2>2, <2>3, <2>4
  <2> QED BY <2>6, <2>7
<1> QED BY <1>1, Invariance, PTL

(* As long as no file is cut, the descriptor of a request is open while it  *)
(* is pending, and stays open for ever when there was nothing to send.      *)
THEOREM Descriptors == Spec => []DescriptorsExact
<1>1. ServerInv => DescriptorsExact
  BY PendIsPending DEF ServerInv, UncutClean, Clean, DescriptorsExact
<1> QED BY <1>1, Invariance, PTL

(* As long as no file is cut, no worker writes to or closes the connection  *)
(* of another's client, nor sends more than the file holds.                 *)
THEOREM Own == Spec => []OwnConnection
<1>1. ServerInv => OwnConnection
  BY DEF ServerInv, UncutClean, Clean, OwnConnection
<1> QED BY <1>1, Invariance, PTL

=============================================================================
