-------------------------- MODULE CacheQueueProofs ---------------------------
(* Proofs about CacheQueue for any number of threads and any capacities.    *)
EXTENDS CacheQueue, SequenceTheorems, FiniteSetTheorems, TLAPS

MainLabels == {"receive", "copy_path", "copy_fldes", "lock", "check", "wait", "enqueue",
               "unlock", "notify"}
WorkerLabels == {"lock", "check", "wait", "pop", "unlock", "notify", "get", "open", "serve"}
Critical == {"check", "enqueue", "pop", "unlock"}

(* Main and the workers keep to their own labels, main has a message and a  *)
(* worker a segment when it uses one; the counter is the queue's length,    *)
(* and a thread that has not closed the message queue has not sent.         *)
Control ==
  /\ pc["main"] \in MainLabels
  /\ \A w \in Workers : pc[w] \in WorkerLabels
  /\ pc["main"] # "receive" => msg # 0
  /\ \A w \in Workers : pc[w] = "serve" => opened[w] # 0
  /\ steq_size = Len(mq_data_queue)
  /\ \A r \in Requests : mqd[r] # "closed" => order[r] = 0

TypeInv == TypeOK /\ Control

(* The mutex is owned by the process whose label says so. *)
Owner == \A p \in Procs : pc[p] \in Critical <=> msgq_mutex = p

QueueInv == TypeInv /\ Owner /\ QueueExact /\ NoLostWakeup

-----------------------------------------------------------------------------
(* The counter tells whether the queue is empty. *)
LEMMA EmptyQueue ==
  ASSUME TypeInv
  PROVE  steq_size = 0 <=> mq_data_queue = <<>>
<1>1. mq_data_queue \in Seq(Requests) /\ steq_size = Len(mq_data_queue)
  BY DEF TypeInv, TypeOK, Control
<1> QED BY <1>1

(* One process moves to another of its labels. *)
LEMMA MovePc ==
  ASSUME TypeInv, NEW p \in Procs, NEW l, pc' = [pc EXCEPT ![p] = l], l # "serve",
         p = "main" => l \in MainLabels, p \in Workers => l \in WorkerLabels
  PROVE  /\ pc' \in [Procs -> Labels] /\ pc'["main"] \in MainLabels
         /\ p # "main" => pc'["main"] = pc["main"]
         /\ \A w \in Workers : pc'[w] \in WorkerLabels /\ (pc'[w] = "serve" => pc[w] = "serve")
<1>1. /\ pc \in [Procs -> Labels] /\ "main" \in Procs
      /\ Workers \subseteq Procs /\ "main" \notin Workers
      /\ pc["main"] \in MainLabels /\ \A w \in Workers : pc[w] \in WorkerLabels
  BY QueueAssumption DEF TypeInv, TypeOK, Control, Procs
<1>2. l \in Labels
  BY DEF Procs, Labels, MainLabels, WorkerLabels
<1> QED BY <1>1, <1>2

LEMMA InitTypes == Init => TypeInv
  BY QueueAssumption
  DEF Init, TypeInv, TypeOK, Control, Requests, Procs, Labels, MainLabels, WorkerLabels,
      EmptySlot, StartPc, Unset, NoFile

(* A new request leaves the old ones requests. *)
LEMMA IssueTypes ==
  ASSUME TypeInv, NEW t \in Threads, NEW s \in Segments, Issue(t, s)
  PROVE  TypeInv'
<1> DEFINE n == Len(segOf)
<1>1. n \in Nat /\ Requests = 1 .. n BY DEF TypeInv, TypeOK, Requests
<1>2. segOf' \in Seq(Segments) /\ Len(segOf') = n + 1
  BY DEF TypeInv, TypeOK, Issue
<1>3. Requests' = 1 .. n + 1 BY <1>2 DEF Requests
<1>4. Requests \subseteq Requests' /\ n + 1 \in Requests' BY <1>1, <1>3
<1>10. mqd' \in Seq({"none", "open", "old", "closed"}) /\ Len(mqd') = n + 1
  BY DEF TypeInv, TypeOK, Issue
<1>11. \A r \in Requests' : mqd'[r] # "closed" => order'[r] = 0
  <2>1. \A r \in 1 .. n : mqd'[r] = mqd[r] /\ order'[r] = order[r]
    BY DEF TypeInv, TypeOK, Issue
  <2>2. order'[n + 1] = 0 BY DEF TypeInv, TypeOK, Issue
  <2> QED BY <1>1, <1>3, <2>1, <2>2 DEF TypeInv, Control
<1>5. /\ order' \in Seq(Nat) /\ Len(order') = n + 1
      /\ answer' \in Seq(Nat \cup {Unanswered}) /\ Len(answer') = n + 1
  BY DEF TypeInv, TypeOK, Issue, Unanswered
<1>6. mq \in Seq(Requests') /\ mq_data_queue \in Seq(Requests')
  BY <1>4 DEF TypeInv, TypeOK
<1>7. UNCHANGED <<mq, slot, queue, sync, pc, locals, restarts>>
  BY DEF Issue
<1>8. request' \in [Threads -> Requests' \cup {0}]
  BY <1>1, <1>4 DEF TypeInv, TypeOK, Issue
<1>9. /\ data \in [path : Requests' \cup {0}, fldes : Requests' \cup {0}]
      /\ msg \in Requests' \cup {0}
      /\ ticket \in [Workers -> Requests' \cup {0}]
      /\ path \in [Workers -> Requests' \cup {0}]
      /\ opened \in [Workers -> Requests' \cup {0}]
  BY <1>4 DEF TypeInv, TypeOK
<1> HIDE DEF n
<1> QED
  BY <1>2, <1>5, <1>6, <1>7, <1>8, <1>9, <1>10, <1>11
  DEF TypeInv, TypeOK, Control, slot, queue, sync, locals

(* Every other step leaves the set of requests as it is. *)
LEMMA StepTypes ==
  ASSUME TypeInv, [Next]_vars
  PROVE  TypeInv'
<1> USE QueueAssumption DEF proxy, slot, queue, sync, locals, Goto
<1>1. ASSUME NEW t \in Threads, NEW s \in Segments, Issue(t, s) PROVE TypeInv'
  BY <1>1, IssueTypes
<1>2. ASSUME NEW t \in Threads, Send(t) PROVE TypeInv'
  <2>1. request[t] \in Requests BY <1>2 DEF Send, TypeInv, TypeOK
  <2>2. mq' \in Seq(Requests) /\ Len(mq') <= mq_maxmsg
    BY <1>2, <2>1 DEF Send, TypeInv, TypeOK
  <2> DEFINE sent == {r \in Requests : order[r] # 0}
             place == Cardinality(sent) + 1
  <2>3. place \in Nat
    <3>1. IsFiniteSet(Requests)
      <4>1. Len(segOf) \in Int /\ 1 \in Int BY DEF TypeInv, TypeOK
      <4> QED BY <4>1, FS_Interval DEF Requests
    <3>2. sent \in SUBSET Requests OBVIOUS
    <3>3. Cardinality(sent) \in Nat BY <3>1, <3>2, FS_Subset, FS_CardinalityType
    <3> QED BY <3>3
  <2>4. order' \in Seq(Nat) /\ Len(order') = Len(segOf)
    <3> DEFINE r == request[t]
    <3>1. order' = [order EXCEPT ![r] = place] BY <1>2 DEF Send
    <3>2. order \in Seq(Nat) /\ Len(order) = Len(segOf) BY DEF TypeInv, TypeOK
    <3>3. r \in 1 .. Len(order) BY <2>1, <3>2 DEF Requests
    <3> HIDE DEF place, r
    <3> QED BY <2>3, <3>1, <3>2, <3>3, ExceptSeq
  <2>5. /\ mqd' \in Seq({"none", "open", "old", "closed"}) /\ Len(mqd') = Len(segOf)
        /\ \A r \in Requests : mqd'[r] # "closed" => order'[r] = 0
    <3>1. mqd' = [mqd EXCEPT ![request[t]] = "closed"] BY <1>2 DEF Send
    <3>2. order' = [order EXCEPT ![request[t]] = place] BY <1>2 DEF Send
    <3> HIDE DEF place
    <3> QED BY <2>1, <3>1, <3>2 DEF TypeInv, TypeOK, Control, Requests
  <2> QED BY <1>2, <2>2, <2>4, <2>5 DEF Send, TypeInv, TypeOK, Control, Requests
<1>21. ASSUME NEW t \in Threads, OpenQueue(t) \/ SendLost(t) PROVE TypeInv'
  <2>1. PICK m \in {"open", "closed"} : mqd' = [mqd EXCEPT ![request[t]] = m]
    BY <1>21 DEF OpenQueue, SendLost
  <2>2. mqd[request[t]] # "closed" /\ request[t] \in Requests
    BY <1>21 DEF OpenQueue, SendLost, TypeInv, TypeOK
  <2>3. /\ mqd' \in Seq({"none", "open", "old", "closed"}) /\ Len(mqd') = Len(segOf)
        /\ \A r \in Requests : mqd'[r] # "closed" => mqd[r] # "closed"
    BY <2>1, <2>2 DEF TypeInv, TypeOK, Requests
  <2>4. UNCHANGED <<segOf, request, order, answer, mq, slot, queue, sync, pc, locals, restarts>>
    BY <1>21 DEF OpenQueue, SendLost
  <2> QED BY <2>3, <2>4 DEF TypeInv, TypeOK, Control, Requests
<1>3. ASSUME NEW t \in Threads, Complete(t) PROVE TypeInv'
  BY <1>3 DEF Complete, TypeInv, TypeOK, Control, Requests
<1>4. ASSUME NEW p \in Procs, Lock(p) PROVE TypeInv'
  BY <1>4 DEF Lock, TypeInv, TypeOK, Control, Requests, Procs, Labels, MainLabels, WorkerLabels
<1>5. ASSUME NEW p \in Procs, Unlock(p) PROVE TypeInv'
  BY <1>5 DEF Unlock, TypeInv, TypeOK, Control, Requests, Procs, Labels, MainLabels, WorkerLabels
<1>6. ASSUME NEW p \in Procs, SpuriousWakeup(p) PROVE TypeInv'
  BY <1>6 DEF SpuriousWakeup, TypeInv, TypeOK, Control, Requests
<1>7. CASE Receive
  <2>1. Head(mq) \in Requests /\ Tail(mq) \in Seq(Requests) /\ Len(Tail(mq)) <= mq_maxmsg
    BY <1>7 DEF Receive, TypeInv, TypeOK
  <2>2. msg' \in Requests \cup {0} /\ msg' # 0 /\ mq' \in Seq(Requests) /\ Len(mq') <= mq_maxmsg
    BY <1>7, <2>1 DEF Receive, Requests
  <2>3. data' \in [path : Requests \cup {0}, fldes : Requests \cup {0}]
    BY <1>7 DEF Receive, TypeInv, TypeOK, NoFile
  <2>4. /\ pc' \in [Procs -> Labels] /\ pc'["main"] \in MainLabels
        /\ \A w \in Workers : pc'[w] = pc[w]
    BY <1>7 DEF Receive, TypeInv, TypeOK, Control, Procs, Labels, MainLabels
  <2>5. /\ UNCHANGED <<segOf, request, mqd, order, answer, mq_data_queue, steq_size, msgq_mutex>>
        /\ UNCHANGED <<write_cond, read_cond, ticket, path, opened, restarts>>
    BY <1>7 DEF Receive
  <2> QED BY <2>2, <2>3, <2>4, <2>5 DEF TypeInv, TypeOK, Control, Requests, Procs
<1>8. CASE CopyPath
  BY <1>8 DEF CopyPath, TypeInv, TypeOK, Control, Requests, Procs, Labels, MainLabels, WorkerLabels
<1>9. CASE CopyFldes
  BY <1>9 DEF CopyFldes, TypeInv, TypeOK, Control, Requests, Procs, Labels, MainLabels, WorkerLabels
<1>10. CASE MainCheck
  <2>1. PICK l \in {"wait", "enqueue"} : pc' = [pc EXCEPT !["main"] = l]
    BY <1>10 DEF MainCheck
  <2>2. "main" \in Procs /\ "main" \notin Workers BY DEF Procs
  <2>3. /\ pc' \in [Procs -> Labels] /\ pc'["main"] \in MainLabels
        /\ \A w \in Workers : pc'[w] \in WorkerLabels /\ (pc'[w] = "serve" => pc[w] = "serve")
    BY <2>1, <2>2, MovePc DEF MainLabels
  <2>4. pc["main"] = "check" /\ msg # 0 BY <1>10 DEF MainCheck, TypeInv, Control
  <2>5. read_cond' \subseteq {"main"} /\ msgq_mutex' \in Procs \cup {"free"}
    BY <1>10 DEF MainCheck, TypeInv, TypeOK
  <2>6. UNCHANGED <<proxy, answer, mq, slot, queue, write_cond, locals, restarts>>
    BY <1>10 DEF MainCheck
  <2> QED BY <2>3, <2>4, <2>5, <2>6 DEF TypeInv, TypeOK, Control, Requests
<1>11. CASE Enqueue
  <2>1. msg \in Requests BY <1>11 DEF Enqueue, TypeInv, TypeOK, Control
  <2>2. /\ mq_data_queue' \in Seq(Requests) /\ steq_size' \in Nat
        /\ steq_size' = Len(mq_data_queue')
    BY <1>11, <2>1 DEF Enqueue, TypeInv, TypeOK, Control
  <2> QED BY <1>11, <2>2 DEF Enqueue, TypeInv, TypeOK, Control, Requests, Procs, Labels,
                             MainLabels, WorkerLabels
<1>12. CASE MainBroadcast
  BY <1>12 DEF MainBroadcast, TypeInv, TypeOK, Control, Requests, Procs, Labels, MainLabels,
               WorkerLabels
<1>13. ASSUME NEW w \in Workers, WorkerCheck(w) PROVE TypeInv'
  <2>1. PICK l \in {"wait", "pop"} : pc' = [pc EXCEPT ![w] = l]
    BY <1>13 DEF WorkerCheck
  <2>2. w \in Procs /\ w # "main" BY DEF Procs
  <2>3. /\ pc' \in [Procs -> Labels] /\ pc'["main"] = pc["main"]
        /\ \A v \in Workers : pc'[v] \in WorkerLabels /\ (pc'[v] = "serve" => pc[v] = "serve")
    BY <2>1, <2>2, MovePc DEF WorkerLabels
  <2>4. write_cond' \subseteq Workers /\ msgq_mutex' \in Procs \cup {"free"}
    BY <1>13 DEF WorkerCheck, TypeInv, TypeOK
  <2>5. UNCHANGED <<proxy, answer, mq, slot, queue, read_cond, locals, restarts>>
    BY <1>13 DEF WorkerCheck
  <2> QED BY <2>3, <2>4, <2>5 DEF TypeInv, TypeOK, Control, Requests
<1>14. ASSUME NEW w \in Workers, Pop(w) PROVE TypeInv'
  <2>1. /\ Head(mq_data_queue) \in Requests /\ Tail(mq_data_queue) \in Seq(Requests)
        /\ Len(Tail(mq_data_queue)) = steq_size - 1 /\ steq_size - 1 \in Nat
    BY <1>14 DEF Pop, TypeInv, TypeOK, Control
  <2> QED BY <1>14, <2>1 DEF Pop, TypeInv, TypeOK, Control, Requests, Procs, Labels,
                             MainLabels, WorkerLabels
<1>15. ASSUME NEW w \in Workers, WorkerSignal(w) PROVE TypeInv'
  BY <1>15 DEF WorkerSignal, TypeInv, TypeOK, Control, Requests, Procs, Labels, MainLabels,
               WorkerLabels
<1>16. ASSUME NEW w \in Workers, GetFile(w) PROVE TypeInv'
  BY <1>16 DEF GetFile, TypeInv, TypeOK, Control, Requests, Procs, Labels, MainLabels,
               WorkerLabels
<1>17. ASSUME NEW w \in Workers, OpenSegment(w) PROVE TypeInv'
  <2>1. PICK c : c \in Current(segOf[data.fldes]) BY <1>17 DEF OpenSegment
  <2> DEFINE o == CHOOSE r \in Current(segOf[data.fldes]) : TRUE
  <2>2. o \in Requests /\ o # 0 BY <2>1 DEF Current, Requests
  <2> HIDE DEF o
  <2>3. opened' = [opened EXCEPT ![w] = o] BY <1>17 DEF OpenSegment, o
  <2>4. opened' \in [Workers -> Requests \cup {0}] /\ opened'[w] # 0
        /\ \A v \in Workers \ {w} : opened'[v] = opened[v]
    BY <2>2, <2>3 DEF TypeInv, TypeOK
  <2>5. /\ pc' \in [Procs -> Labels] /\ pc'["main"] = pc["main"]
        /\ \A v \in Workers : pc'[v] \in WorkerLabels
        /\ \A v \in Workers \ {w} : pc'[v] = pc[v]
    BY <1>17 DEF OpenSegment, TypeInv, TypeOK, Control, Procs, Labels, WorkerLabels
  <2>6. UNCHANGED <<proxy, answer, mq, slot, queue, sync, ticket, path, restarts>>
    BY <1>17 DEF OpenSegment
  <2> QED BY <2>4, <2>5, <2>6 DEF TypeInv, TypeOK, Control, Requests
<1>18. ASSUME NEW w \in Workers, Serve(w) PROVE TypeInv'
  <2>1. path[w] \in Nat BY <1>18 DEF TypeInv, TypeOK, Requests
  <2>2. answer' \in Seq(Nat \cup {Unanswered}) /\ Len(answer') = Len(segOf)
    <3> DEFINE o == opened[w]
    <3>1. answer' = answer \/ answer' = [answer EXCEPT ![o] = path[w]] BY <1>18 DEF Serve
    <3>2. answer \in Seq(Nat \cup {Unanswered}) /\ Len(answer) = Len(segOf)
      BY DEF TypeInv, TypeOK
    <3>3. o \in 1 .. Len(answer)
      BY <1>18, <3>2 DEF Serve, TypeInv, TypeOK, Control, Requests, Goto
    <3> HIDE DEF o
    <3>4. path[w] \in Nat \cup {Unanswered} BY <2>1
    <3> QED BY <3>1, <3>2, <3>3, <3>4, ExceptSeq
  <2> QED BY <1>18, <2>2 DEF Serve, TypeInv, TypeOK, Control, Requests, Procs, Labels,
                             MainLabels, WorkerLabels
<1>19. CASE Restart
  <2>1. mqd' = [r \in 1 .. Len(segOf) |-> IF mqd[r] = "open" THEN "old" ELSE mqd[r]]
    BY <1>19 DEF Restart, Requests
  <2>2. /\ Len(segOf) \in Nat
        /\ \A r \in 1 .. Len(segOf) : mqd[r] \in {"none", "open", "old", "closed"}
    BY DEF TypeInv, TypeOK
  <2>3. /\ mqd' \in Seq({"none", "open", "old", "closed"}) /\ Len(mqd') = Len(segOf)
        /\ \A r \in 1 .. Len(segOf) : mqd'[r] # "closed" => mqd[r] # "closed"
    BY <2>1, <2>2
  <2> QED BY <1>19, <2>3 DEF Restart, TypeInv, TypeOK, Control, Requests, Procs, Labels, MainLabels,
                             WorkerLabels, EmptySlot, StartPc, Unset, NoFile
<1>20. CASE UNCHANGED vars
  BY <1>20 DEF vars, TypeInv, TypeOK, Control, Requests
<1> QED
  BY <1>1, <1>2, <1>3, <1>4, <1>5, <1>6, <1>7, <1>8, <1>9, <1>10, <1>11, <1>12, <1>13, <1>14,
     <1>15, <1>16, <1>17, <1>18, <1>19, <1>20, <1>21
  DEF Next, Main, Worker, Proxy

(* A process changes between its labels under the mutex, or leaves it.      *)
LEMMA StepOwner ==
  ASSUME TypeInv, Owner, [Next]_vars
  PROVE  Owner'
<1> USE QueueAssumption DEF TypeInv, TypeOK, Control, Owner, Procs, Critical, Goto, sync, queue,
                            MainLabels, WorkerLabels
<1>1. ASSUME NEW t \in Threads, NEW s \in Segments, Issue(t, s) PROVE Owner'
  BY <1>1 DEF Issue
<1>2. ASSUME NEW t \in Threads, Proxy(t) PROVE Owner'
  BY <1>2 DEF Proxy, OpenQueue, Send, SendLost, Complete
<1>3. ASSUME NEW p \in Procs, Lock(p) PROVE Owner'
  BY <1>3 DEF Lock
<1>4. ASSUME NEW p \in Procs, Unlock(p) PROVE Owner'
  BY <1>4 DEF Unlock
<1>5. ASSUME NEW p \in Procs, SpuriousWakeup(p) PROVE Owner'
  BY <1>5 DEF SpuriousWakeup
<1>6. CASE Receive \/ CopyPath \/ CopyFldes \/ Enqueue \/ MainBroadcast
  BY <1>6 DEF Receive, CopyPath, CopyFldes, Enqueue, MainBroadcast
<1>7. CASE MainCheck
  BY <1>7 DEF MainCheck
<1>8. ASSUME NEW w \in Workers, WorkerCheck(w) PROVE Owner'
  <2>1. pc[w] = "check" /\ msgq_mutex = w /\ w \in Procs BY <1>8 DEF WorkerCheck
  <2>2. CASE steq_size = 0
    <3>1. msgq_mutex' = "free" /\ pc' = [pc EXCEPT ![w] = "wait"]
      BY <1>8, <2>2 DEF WorkerCheck
    <3> QED BY <2>1, <3>1
  <2>3. CASE steq_size # 0
    <3>1. msgq_mutex' = msgq_mutex /\ pc' = [pc EXCEPT ![w] = "pop"]
      BY <1>8, <2>3 DEF WorkerCheck
    <3> QED BY <2>1, <3>1
  <2> QED BY <2>2, <2>3
<1>9. ASSUME NEW w \in Workers, Pop(w) \/ WorkerSignal(w) PROVE Owner'
  BY <1>9 DEF Pop, WorkerSignal
<1>10. ASSUME NEW w \in Workers, GetFile(w) \/ OpenSegment(w) \/ Serve(w) PROVE Owner'
  BY <1>10 DEF GetFile, OpenSegment, Serve
<1>11. CASE Restart
  BY <1>11 DEF Restart, StartPc
<1>12. CASE UNCHANGED vars
  BY <1>12 DEF vars
<1> QED
  BY <1>1, <1>2, <1>3, <1>4, <1>5, <1>6, <1>7, <1>8, <1>9, <1>10, <1>11, <1>12
  DEF Next, Main, Worker, Proxy

(* The answer of a check holds until the pop or the enqueue: whoever could  *)
(* change the queue in between does not own the mutex.                      *)
LEMMA StepQueue ==
  ASSUME TypeInv, Owner, QueueExact, [Next]_vars, TypeInv'
  PROVE  QueueExact'
<1> USE QueueAssumption DEF TypeInv, TypeOK, Control, Owner, QueueExact, Procs, Critical, Goto,
                            queue, MainLabels, WorkerLabels
<1>1. ASSUME NEW t \in Threads, NEW s \in Segments, Issue(t, s) PROVE QueueExact'
  BY <1>1 DEF Issue
<1>2. ASSUME NEW t \in Threads, Proxy(t) PROVE QueueExact'
  <2>1. UNCHANGED <<mq_data_queue, steq_size, pc>>
    BY <1>2 DEF Proxy, OpenQueue, Send, SendLost, Complete
  <2> QED BY <2>1
<1>3. ASSUME NEW p \in Procs, Lock(p) \/ Unlock(p) \/ SpuriousWakeup(p) PROVE QueueExact'
  <2>1. CASE Lock(p)
    BY <2>1 DEF Lock
  <2>2. CASE Unlock(p)
    BY <2>2 DEF Unlock
  <2>3. CASE SpuriousWakeup(p)
    BY <2>3 DEF SpuriousWakeup
  <2> QED BY <1>3, <2>1, <2>2, <2>3
<1>4. CASE Receive \/ CopyPath \/ CopyFldes \/ MainBroadcast
  BY <1>4 DEF Receive, CopyPath, CopyFldes, MainBroadcast
<1>5. CASE MainCheck
  BY <1>5 DEF MainCheck
<1>6. CASE Enqueue
  <2>1. \A w \in Workers : pc[w] # "pop" /\ pc'[w] # "pop" BY <1>6 DEF Enqueue
  <2>2. steq_size' <= MAX_CACHE_REQUEST_LEN /\ pc'["main"] = "unlock" BY <1>6 DEF Enqueue
  <2> QED BY <2>1, <2>2
<1>7. ASSUME NEW w \in Workers, WorkerCheck(w) PROVE QueueExact'
  <2>1. pc'["main"] = pc["main"] /\ UNCHANGED queue
    BY <1>7 DEF WorkerCheck
  <2>2. \A v \in Workers : pc'[v] = "pop" => pc[v] = "pop" \/ steq_size # 0
    BY <1>7 DEF WorkerCheck
  <2> QED BY <2>1, <2>2, EmptyQueue
<1>8. ASSUME NEW w \in Workers, Pop(w) PROVE QueueExact'
  <2>1. \A v \in Workers : pc'[v] # "pop" BY <1>8 DEF Pop
  <2>2. steq_size' <= MAX_CACHE_REQUEST_LEN /\ pc'["main"] # "enqueue" BY <1>8 DEF Pop
  <2> QED BY <2>1, <2>2
<1>9. ASSUME NEW w \in Workers, WorkerSignal(w) \/ GetFile(w) \/ OpenSegment(w) \/ Serve(w)
      PROVE  QueueExact'
  BY <1>9 DEF WorkerSignal, GetFile, OpenSegment, Serve
<1>10. CASE Restart
  BY <1>10 DEF Restart, StartPc
<1>11. CASE UNCHANGED vars
  BY <1>11 DEF vars
<1> QED
  BY <1>1, <1>2, <1>3, <1>4, <1>5, <1>6, <1>7, <1>8, <1>9, <1>10, <1>11
  DEF Next, Main, Worker, Proxy

(* Whoever fills the queue, or makes room, broadcasts after it.             *)
LEMMA StepWakeup ==
  ASSUME TypeInv, Owner, QueueExact, NoLostWakeup, [Next]_vars, TypeInv'
  PROVE  NoLostWakeup'
<1> USE QueueAssumption DEF TypeInv, TypeOK, Control, QueueExact, NoLostWakeup, Procs, Goto, sync,
                            queue, MainLabels, WorkerLabels
<1>1. ASSUME NEW t \in Threads, NEW s \in Segments, Issue(t, s) PROVE NoLostWakeup'
  BY <1>1 DEF Issue
<1>2. ASSUME NEW t \in Threads, Proxy(t) PROVE NoLostWakeup'
  BY <1>2 DEF Proxy, OpenQueue, Send, SendLost, Complete
<1>3. ASSUME NEW p \in Procs, Lock(p) PROVE NoLostWakeup'
  BY <1>3 DEF Lock
<1>4. ASSUME NEW p \in Procs, Unlock(p) PROVE NoLostWakeup'
  BY <1>4 DEF Unlock
<1>5. ASSUME NEW p \in Procs, SpuriousWakeup(p) PROVE NoLostWakeup'
  BY <1>5 DEF SpuriousWakeup
<1>6. CASE Receive \/ CopyPath \/ CopyFldes \/ MainBroadcast
  BY <1>6 DEF Receive, CopyPath, CopyFldes, MainBroadcast
<1>7. CASE MainCheck
  BY <1>7 DEF MainCheck
<1>8. CASE Enqueue
  BY <1>8 DEF Enqueue
<1>9. ASSUME NEW w \in Workers, WorkerCheck(w) PROVE NoLostWakeup'
  <2>1. CASE steq_size = 0
    <3>1. mq_data_queue = <<>> BY <2>1, EmptyQueue
    <3>2. /\ UNCHANGED <<queue, read_cond>> /\ pc' = [pc EXCEPT ![w] = "wait"] /\ pc[w] = "check"
      BY <1>9, <2>1 DEF WorkerCheck
    <3> QED BY <3>1, <3>2
  <2>2. CASE steq_size # 0
    BY <1>9, <2>2 DEF WorkerCheck
  <2> QED BY <2>1, <2>2
<1>10. ASSUME NEW w \in Workers, Pop(w) PROVE NoLostWakeup'
  <2>1. pc'[w] = "unlock" /\ pc'["main"] = pc["main"] BY <1>10 DEF Pop
  <2>2. mq_data_queue # <<>> /\ UNCHANGED <<write_cond, read_cond>> BY <1>10 DEF Pop
  <2> QED BY <2>1, <2>2
<1>11. ASSUME NEW w \in Workers, WorkerSignal(w) PROVE NoLostWakeup'
  BY <1>11 DEF WorkerSignal
<1>12. ASSUME NEW w \in Workers, GetFile(w) \/ OpenSegment(w) \/ Serve(w) PROVE NoLostWakeup'
  BY <1>12 DEF GetFile, OpenSegment, Serve
<1>13. CASE Restart
  BY <1>13 DEF Restart
<1>14. CASE UNCHANGED vars
  BY <1>14 DEF vars
<1> QED
  BY <1>1, <1>2, <1>3, <1>4, <1>5, <1>6, <1>7, <1>8, <1>9, <1>10, <1>11, <1>12, <1>13, <1>14
  DEF Next, Main, Worker, Proxy

LEMMA Invariance == Spec => []QueueInv
<1>1. Init => QueueInv
  <2>1. Init => Owner /\ QueueExact /\ NoLostWakeup
    BY QueueAssumption
    DEF Init, Owner, QueueExact, NoLostWakeup, Procs, Critical, StartPc
  <2> QED BY <2>1, InitTypes DEF QueueInv
<1>2. QueueInv /\ [Next]_vars => QueueInv'
  BY StepTypes, StepOwner, StepQueue, StepWakeup DEF QueueInv
<1> QED BY <1>1, <1>2, PTL DEF Spec

-----------------------------------------------------------------------------
(* The daemon's variables keep their types, across restarts too: messages   *)
(* and queue entries are always those of requests made, and steq_size never *)
(* goes below 0.                                                            *)
THEOREM TypeCorrect == Spec => []TypeOK
  BY Invariance, PTL DEF QueueInv, TypeInv

(* steq_size is the length of mq_data_queue, within its limit, and a worker *)
(* past its check never pops an empty queue.                                *)
THEOREM QueueIsExact == Spec => []QueueExact
  BY Invariance, PTL DEF QueueInv

(* No thread of the daemon sleeps beside work or room unless the broadcast  *)
(* or signal after the unlock is still coming.                              *)
THEOREM LostWakeup == Spec => []NoLostWakeup
  BY Invariance, PTL DEF QueueInv

-----------------------------------------------------------------------------
(* The shared variable runs ahead.  Requests are numbered in the order they *)
(* are sent, and that order is kept: on the message queue, then in msg,     *)
(* then in data, then in the entries and the workers that were woken.       *)
Sent == {r \in Requests : order[r] # 0}
Later(r, q) == r \in Sent /\ q \in Sent /\ order[r] >= order[q]
LaterFile(f, q) == f = NoFile \/ Later(f, q)
Ahead(q) == Later(data.fldes, q) /\ LaterFile(data.path, q)
Woken == {"unlock", "notify", "get", "open", "serve"}

Numbered == \A r \in Sent : order[r] <= Cardinality(Sent)
Full == {"lock", "check", "wait", "enqueue"}

Ordered ==
  /\ \A i, j \in DOMAIN mq : i <= j => Later(mq[j], mq[i])
  /\ msg # 0 => msg \in Sent /\ \A i \in DOMAIN mq : Later(mq[i], msg)
  /\ data.fldes # 0 => Later(msg, data.fldes)
  /\ pc["main"] = "copy_fldes" => data.path = msg
  /\ pc["main"] \in Full => data = [path |-> msg, fldes |-> msg]
  /\ \A i \in DOMAIN mq_data_queue : Ahead(mq_data_queue[i])
  /\ \A w \in Workers :
       /\ pc[w] \in Woken => Ahead(ticket[w])
       /\ pc[w] \in {"open", "serve"} => LaterFile(path[w], ticket[w])

LEMMA SentFinite ==
  ASSUME TypeInv
  PROVE  IsFiniteSet(Sent) /\ Cardinality(Sent) \in Nat
<1>1. IsFiniteSet(Requests)
  <2>1. Len(segOf) \in Int /\ 1 \in Int BY DEF TypeInv, TypeOK
  <2> QED BY <2>1, FS_Interval DEF Requests
<1> QED BY <1>1, FS_Subset, FS_CardinalityType DEF Sent

(* A request that is sent gets the next number; nothing else changes one.   *)
LEMMA SendNumbers ==
  ASSUME TypeInv, NEW t \in Threads, Send(t)
  PROVE  LET r == request[t] IN
         /\ r \in Requests \ Sent /\ Sent' = Sent \cup {r}
         /\ \A x \in Sent : order'[x] = order[x]
         /\ order'[r] = Cardinality(Sent) + 1 /\ mq' = Append(mq, r)
<1> DEFINE r == request[t]
<1>1. r \in Requests \ Sent BY DEF Send, Sent, TypeInv, TypeOK, Control
<1>2. Requests' = Requests BY DEF Send, Requests
<1>3. order \in Seq(Nat) /\ DOMAIN order = Requests BY DEF TypeInv, TypeOK, Requests
<1>4. order' = [order EXCEPT ![r] = Cardinality(Sent) + 1] /\ mq' = Append(mq, r)
  BY DEF Send, Sent
<1>5. Cardinality(Sent) \in Nat BY SentFinite
<1>6. /\ order'[r] = Cardinality(Sent) + 1 /\ order'[r] # 0
      /\ \A x \in Requests \ {r} : order'[x] = order[x]
  BY <1>1, <1>3, <1>4, <1>5
<1>7. Sent' = {x \in Requests : order'[x] # 0} BY <1>2 DEF Sent
<1>8. Sent' = Sent \cup {r} BY <1>1, <1>6, <1>7 DEF Sent
<1> QED BY <1>1, <1>4, <1>6, <1>8 DEF Sent

LEMMA IssueNumbers ==
  ASSUME TypeInv, NEW t \in Threads, NEW s \in Segments, Issue(t, s)
  PROVE  Sent' = Sent /\ \A x \in Sent : order'[x] = order[x]
<1> DEFINE n == Len(segOf)
<1>1. n \in Nat /\ Requests = 1 .. n /\ order \in Seq(Nat) /\ Len(order) = n
  BY DEF TypeInv, TypeOK, Requests
<1>2. Requests' = 1 .. n + 1
  <2>1. Len(segOf') = n + 1 BY DEF Issue, TypeInv, TypeOK
  <2> QED BY <2>1 DEF Requests
<1>3. order' = Append(order, 0) BY DEF Issue
<1> HIDE DEF n
<1>4. order'[n + 1] = 0 /\ \A x \in 1 .. n : order'[x] = order[x] BY <1>1, <1>3
<1>5. Sent' = {x \in 1 .. n + 1 : order'[x] # 0} BY <1>2 DEF Sent
<1>6. Sent = {x \in 1 .. n : order[x] # 0} BY <1>1 DEF Sent
<1> QED BY <1>1, <1>4, <1>5, <1>6

LEMMA OtherNumbers ==
  ASSUME [Next]_vars
  PROVE  \/ \E t \in Threads : Send(t)
         \/ \E t \in Threads, s \in Segments : Issue(t, s)
         \/ UNCHANGED <<segOf, order>>
<1>1. ASSUME NEW t \in Threads, OpenQueue(t) \/ SendLost(t) \/ Complete(t)
      PROVE  UNCHANGED <<segOf, order>>
  BY <1>1 DEF OpenQueue, SendLost, Complete
<1>2. ASSUME NEW p \in Procs, Lock(p) \/ Unlock(p) \/ SpuriousWakeup(p)
      PROVE  UNCHANGED <<segOf, order>>
  BY <1>2 DEF Lock, Unlock, SpuriousWakeup, proxy
<1>3. ASSUME Main \/ Restart PROVE UNCHANGED <<segOf, order>>
  BY <1>3 DEF Main, Restart, Receive, CopyPath, CopyFldes, MainCheck, Enqueue, MainBroadcast, proxy
<1>4. ASSUME NEW w \in Workers, Worker(w) \/ Serve(w) PROVE UNCHANGED <<segOf, order>>
  BY <1>4 DEF Worker, WorkerCheck, Pop, WorkerSignal, GetFile, OpenSegment, Serve, proxy
<1> QED BY <1>1, <1>2, <1>3, <1>4 DEF Next, Proxy, vars, proxy

LEMMA SameNumbers == ASSUME UNCHANGED <<segOf, order>> PROVE Sent' = Sent
  BY DEF Sent, Requests

(* Whatever happens to one request, the order of two is kept.               *)
LEMMA LaterStays ==
  ASSUME TypeInv, [Next]_vars, NEW r, NEW q, Later(r, q)
  PROVE  Later(r, q)'
<1>1. ASSUME NEW t \in Threads, Send(t) PROVE Later(r, q)'
  BY <1>1, SendNumbers DEF Later
<1>2. ASSUME NEW t \in Threads, NEW s \in Segments, Issue(t, s) PROVE Later(r, q)'
  BY <1>2, IssueNumbers DEF Later
<1>3. CASE UNCHANGED <<segOf, order>>
  BY <1>3, SameNumbers DEF Later
<1> QED BY <1>1, <1>2, <1>3, OtherNumbers

LEMMA SentStays == ASSUME TypeInv, [Next]_vars PROVE Sent \subseteq Sent'
<1>1. ASSUME NEW t \in Threads, Send(t) PROVE Sent \subseteq Sent' BY <1>1, SendNumbers
<1>2. ASSUME NEW t \in Threads, NEW s \in Segments, Issue(t, s) PROVE Sent \subseteq Sent'
  BY <1>2, IssueNumbers
<1> QED BY <1>1, <1>2, SameNumbers, OtherNumbers

LEMMA NumberedStays ==
  ASSUME TypeInv, Numbered, [Next]_vars
  PROVE  Numbered'
<1>1. ASSUME NEW t \in Threads, Send(t) PROVE Numbered'
  <2> DEFINE r == request[t]
             n == Cardinality(Sent)
  <2>1. /\ r \notin Sent /\ Sent' = Sent \cup {r} /\ order'[r] = n + 1
        /\ \A x \in Sent : order'[x] = order[x]
    BY <1>1, SendNumbers
  <2>2. n \in Nat /\ Cardinality(Sent') = n + 1
    BY <2>1, SentFinite, FS_AddElement
  <2>3. \A x \in Sent : order[x] \in Nat /\ order[x] <= n
    BY DEF Numbered, Sent, TypeInv, TypeOK, Requests
  <2>4. \A x \in Sent' : order'[x] <= n + 1
    <3> HIDE DEF n, r
    <3> QED BY <2>1, <2>2, <2>3
  <2> QED BY <2>2, <2>4 DEF Numbered
<1>2. ASSUME NEW t \in Threads, NEW s \in Segments, Issue(t, s) PROVE Numbered'
  <2>1. Sent' = Sent /\ \A x \in Sent : order'[x] = order[x] BY <1>2, IssueNumbers
  <2> QED BY <2>1 DEF Numbered
<1>3. CASE UNCHANGED <<segOf, order>>
  BY <1>3, SameNumbers DEF Numbered
<1> QED BY <1>1, <1>2, <1>3, OtherNumbers

(* A step that moves no message: every label that makes a demand had made   *)
(* it before.                                                               *)
LEMMA Quiet ==
  ASSUME TypeInv, Ordered, [Next]_vars,
         UNCHANGED <<mq, slot, mq_data_queue, ticket, path>>,
         pc'["main"] = "copy_fldes" => pc["main"] = "copy_fldes",
         pc'["main"] \in Full => pc["main"] \in Full,
         \A w \in Workers : /\ pc'[w] \in Woken => pc[w] \in Woken
                            /\ pc'[w] \in {"open", "serve"} => pc[w] \in {"open", "serve"}
  PROVE  Ordered'
<1> USE DEF Later
<1>1. \A r, q : Later(r, q) => Later(r, q)' BY LaterStays
<1>2. UNCHANGED <<msg, data>> BY DEF slot
<1>3. /\ \A i, j \in DOMAIN mq' : i <= j => Later(mq[j], mq[i])'
      /\ msg' # 0 => msg' \in Sent' /\ \A i \in DOMAIN mq' : Later(mq[i], msg)'
      /\ data'.fldes # 0 => Later(msg, data.fldes)'
  <2>1. msg \in Sent => msg \in Sent' BY SentStays
  <2> QED BY <1>1, <1>2, <2>1 DEF Ordered
<1>4. /\ \A i \in DOMAIN mq_data_queue' : Ahead(mq_data_queue[i])'
      /\ \A w \in Workers :
           /\ pc'[w] \in Woken => Ahead(ticket[w])'
           /\ pc'[w] \in {"open", "serve"} => LaterFile(path[w], ticket[w])'
  BY <1>1, <1>2 DEF Ordered, Ahead, LaterFile, NoFile
<1> QED BY <1>2, <1>3, <1>4 DEF Ordered

LEMMA SendOrdered ==
  ASSUME TypeInv, Ordered, Numbered, NEW t \in Threads, Send(t), [Next]_vars
  PROVE  Ordered'
<1> USE DEF Later
<1> DEFINE r == request[t]
           n == Cardinality(Sent)
<1>1. \A x, q : Later(x, q) => Later(x, q)' BY LaterStays
<1>2. /\ r \notin Sent /\ Sent' = Sent \cup {r} /\ order'[r] = n + 1 /\ mq' = Append(mq, r)
      /\ \A x \in Sent : order'[x] = order[x]
  BY SendNumbers
<1>3. UNCHANGED <<slot, mq_data_queue, ticket, path, pc>> BY DEF Send, queue, locals
<1>4. UNCHANGED <<msg, data>> BY <1>3 DEF slot
<1>5. n \in Nat /\ \A x \in Sent : order[x] \in Nat /\ order[x] <= n
  <2>1. n \in Nat BY SentFinite
  <2>2. \A x \in Sent : order[x] \in Nat BY DEF Sent, TypeInv, TypeOK, Requests
  <2> QED BY <2>1, <2>2 DEF Numbered
<1> HIDE DEF r, n
<1>6. r \in Sent' /\ \A x \in Sent' : order'[r] >= order'[x]
  <2>1. order'[r] >= order'[r] BY <1>2, <1>5
  <2>2. ASSUME NEW x \in Sent PROVE order'[r] >= order'[x] BY <1>2, <1>5
  <2> QED BY <1>2, <2>1, <2>2
<1>7. /\ Len(mq) \in Nat /\ DOMAIN mq = 1 .. Len(mq) /\ DOMAIN mq' = 1 .. Len(mq) + 1
      /\ mq'[Len(mq) + 1] = r /\ \A i \in DOMAIN mq : mq'[i] = mq[i]
  <2>1. mq \in Seq(Requests) BY DEF TypeInv, TypeOK
  <2> QED BY <1>2, <2>1
<1>8. \A i \in DOMAIN mq' : i \in DOMAIN mq \/ (i = Len(mq) + 1 /\ mq'[i] = r)
  BY <1>7
<1>9. \A i \in DOMAIN mq : mq[i] \in Sent /\ mq'[i] = mq[i] /\ i < Len(mq) + 1
  <2>1. \A i \in DOMAIN mq : mq[i] \in Sent
    <3> SUFFICES ASSUME NEW i \in DOMAIN mq PROVE mq[i] \in Sent
      OBVIOUS
    <3>1. i <= i BY <1>7
    <3> QED BY <3>1 DEF Ordered
  <2> QED BY <1>7, <2>1
<1>10. ASSUME NEW i \in DOMAIN mq', NEW j \in DOMAIN mq', i <= j PROVE Later(mq[j], mq[i])'
  <2>1. CASE j \in DOMAIN mq
    <3>1. i \in DOMAIN mq BY <1>7, <1>10, <2>1
    <3>2. Later(mq[j], mq[i]) BY <1>10, <2>1, <3>1 DEF Ordered
    <3> QED BY <1>1, <1>9, <2>1, <3>1, <3>2
  <2>2. CASE mq'[j] = r
    <3>1. mq'[i] \in Sent' BY <1>2, <1>8, <1>9
    <3> QED BY <1>6, <2>2, <3>1
  <2> QED BY <1>8, <2>1, <2>2
<1>11. ASSUME msg # 0 PROVE msg' \in Sent' /\ \A i \in DOMAIN mq' : Later(mq[i], msg)'
  <2>1. msg \in Sent /\ \A i \in DOMAIN mq : Later(mq[i], msg) BY <1>11 DEF Ordered
  <2>2. msg' = msg /\ msg \in Sent' BY <1>2, <1>4, <2>1
  <2>3. ASSUME NEW i \in DOMAIN mq' PROVE Later(mq[i], msg)'
    <3>1. CASE i \in DOMAIN mq BY <1>1, <1>9, <2>1, <2>2, <3>1
    <3>2. CASE mq'[i] = r BY <1>6, <2>2, <3>2
    <3> QED BY <1>8, <3>1, <3>2
  <2> QED BY <2>2, <2>3
<1>12. /\ \A i \in DOMAIN mq_data_queue' : Ahead(mq_data_queue[i])'
       /\ \A w \in Workers :
            /\ pc'[w] \in Woken => Ahead(ticket[w])'
            /\ pc'[w] \in {"open", "serve"} => LaterFile(path[w], ticket[w])'
       /\ data'.fldes # 0 => Later(msg, data.fldes)'
  BY <1>1, <1>3, <1>4 DEF Ordered, Ahead, LaterFile, NoFile
<1> QED BY <1>3, <1>4, <1>10, <1>11, <1>12 DEF Ordered

LEMMA RestartOrdered ==
  ASSUME TypeInv, Ordered, Restart
  PROVE  Ordered'
<1>1. /\ mq' = << >> /\ msg' = 0 /\ data' = EmptySlot /\ mq_data_queue' = << >> /\ pc' = StartPc
  BY DEF Restart
<1>2. /\ "main" \in Procs /\ pc'["main"] = "receive" /\ \A w \in Workers : pc'[w] = "lock"
      /\ DOMAIN mq' = {} /\ DOMAIN mq_data_queue' = {} /\ data'.fldes = 0
  BY <1>1, QueueAssumption DEF StartPc, Procs, EmptySlot
<1> QED BY <1>1, <1>2 DEF Ordered, Full, Woken

(* The message taken from the message queue comes after everything that     *)
(* was taken before, and before everything that is still there.             *)
LEMMA ReceiveOrdered ==
  ASSUME TypeInv, Ordered, Receive
  PROVE  Ordered'
<1> USE DEF Later
<1>1. UNCHANGED <<segOf, order, mq_data_queue, ticket, path>>
  BY DEF Receive, proxy, queue, locals
<1>2. UNCHANGED Sent BY <1>1, SameNumbers
<1>3. /\ mq # << >> /\ msg' = Head(mq) /\ mq' = Tail(mq) /\ data' = [data EXCEPT !.path = NoFile]
      /\ pc["main"] = "receive" /\ pc' = [pc EXCEPT !["main"] = "copy_path"]
  BY DEF Receive, Goto
<1>4. /\ data'.path = 0 /\ data'.fldes = data.fldes
  BY <1>3 DEF TypeInv, TypeOK, NoFile
<1>5. pc'["main"] = "copy_path" /\ \A w \in Workers : pc'[w] = pc[w]
  BY <1>3, QueueAssumption DEF TypeInv, TypeOK, Procs
<1>6. /\ 1 \in DOMAIN mq /\ msg' = mq[1]
      /\ \A i \in DOMAIN mq' : i \in Nat /\ i + 1 \in DOMAIN mq /\ mq'[i] = mq[i + 1]
  <2>1. mq \in Seq(Requests) BY DEF TypeInv, TypeOK
  <2> QED BY <1>3, <2>1
<1>7. \A i, j \in DOMAIN mq' : i <= j => Later(mq[j], mq[i])'
  <2> SUFFICES ASSUME NEW i \in DOMAIN mq', NEW j \in DOMAIN mq', i <= j
               PROVE  Later(mq[j], mq[i])'
    OBVIOUS
  <2>1. i + 1 <= j + 1 /\ i + 1 \in DOMAIN mq /\ j + 1 \in DOMAIN mq BY <1>6
  <2>2. Later(mq[j + 1], mq[i + 1]) BY <2>1 DEF Ordered
  <2> QED BY <1>1, <1>2, <1>6, <2>2
<1>8. msg' \in Sent' /\ \A i \in DOMAIN mq' : Later(mq[i], msg)'
  <2>1. Later(mq[1], mq[1])
    <3>1. 1 <= 1 OBVIOUS
    <3> QED BY <1>6, <3>1 DEF Ordered
  <2>2. ASSUME NEW i \in DOMAIN mq' PROVE Later(mq[i], msg)'
    <3>1. i + 1 \in DOMAIN mq /\ 1 <= i + 1 /\ mq'[i] = mq[i + 1] BY <1>6
    <3>2. Later(mq[i + 1], mq[1]) BY <1>6, <3>1 DEF Ordered
    <3> QED BY <1>1, <1>2, <1>6, <3>1, <3>2
  <2> QED BY <1>2, <1>6, <2>1, <2>2
<1>9. data'.fldes # 0 => Later(msg, data.fldes)'
  <2> SUFFICES ASSUME data.fldes # 0 PROVE Later(msg, data.fldes)'
    BY <1>4
  <2>1. Later(msg, data.fldes) BY DEF Ordered
  <2>2. msg # 0 BY <2>1 DEF Sent, Requests, TypeInv, TypeOK
  <2>3. Later(mq[1], msg) BY <1>6, <2>2 DEF Ordered
  <2>4. order[mq[1]] >= order[data.fldes]
    <3>1. \A r \in Sent : order[r] \in Nat BY DEF Sent, TypeInv, TypeOK, Requests
    <3> QED BY <2>1, <2>3, <3>1
  <2> QED BY <1>1, <1>2, <1>4, <1>6, <2>1, <2>3, <2>4
<1>10. /\ \A i \in DOMAIN mq_data_queue' : Ahead(mq_data_queue[i])'
       /\ \A w \in Workers :
            /\ pc'[w] \in Woken => Ahead(ticket[w])'
            /\ pc'[w] \in {"open", "serve"} => LaterFile(path[w], ticket[w])'
  BY <1>1, <1>2, <1>4, <1>5 DEF Ordered, Ahead, LaterFile, NoFile
<1> QED BY <1>5, <1>7, <1>8, <1>9, <1>10 DEF Ordered, Full

(* The fields that are overwritten get a later request than they held. *)
LEMMA CopyOrdered ==
  ASSUME TypeInv, Ordered, CopyPath \/ CopyFldes
  PROVE  Ordered'
<1> USE DEF Later
<1>1. UNCHANGED <<segOf, order, mq, msg, mq_data_queue, ticket, path>>
  BY DEF CopyPath, CopyFldes, proxy, queue, locals
<1>2. UNCHANGED Sent BY <1>1, SameNumbers
<1>3. msg \in Sent /\ msg # 0 /\ (data.fldes # 0 => Later(msg, data.fldes))
  BY DEF Ordered, CopyPath, CopyFldes, Goto, TypeInv, Control
<1>4. \A r \in Sent : order[r] \in Nat BY DEF Sent, TypeInv, TypeOK, Requests
<1>5. /\ data'.path \in {data.path, msg} /\ data'.fldes \in {data.fldes, msg}
      /\ pc'["main"] = "copy_fldes" => data'.path = msg
      /\ pc'["main"] \in Full => data' = [path |-> msg, fldes |-> msg]
      /\ \A w \in Workers : pc'[w] = pc[w]
  <2>1. data \in [path : Requests \cup {0}, fldes : Requests \cup {0}] /\ "main" \in Procs
        /\ pc \in [Procs -> Labels]
    BY DEF TypeInv, TypeOK, Procs
  <2>2. CASE CopyPath
    <3>1. pc'["main"] = "copy_fldes" /\ \A w \in Workers : pc'[w] = pc[w]
      BY <2>1, <2>2, QueueAssumption DEF CopyPath, Goto, Procs
    <3> QED BY <2>1, <2>2, <3>1 DEF CopyPath, Full
  <2>3. CASE CopyFldes
    <3>1. pc["main"] = "copy_fldes" /\ pc'["main"] = "lock" /\ \A w \in Workers : pc'[w] = pc[w]
      BY <2>1, <2>3, QueueAssumption DEF CopyFldes, Goto, Procs
    <3>2. data.path = msg BY <3>1 DEF Ordered
    <3> QED BY <2>1, <2>3, <3>1, <3>2 DEF CopyFldes
  <2> QED BY <2>2, <2>3
<1>6. ASSUME NEW q, Ahead(q) PROVE Ahead(q)'
  <2>1. Later(data.fldes, q) /\ LaterFile(data.path, q) BY <1>6 DEF Ahead
  <2>2. data.fldes # 0 BY <2>1 DEF Sent, Requests, TypeInv, TypeOK
  <2>3. Later(msg, q)
    <3>1. order[msg] \in Nat /\ order[data.fldes] \in Nat /\ order[q] \in Nat
      BY <1>3, <1>4, <2>1
    <3> QED BY <1>3, <2>1, <2>2, <3>1
  <2>4. Later(data'.fldes, q) /\ LaterFile(data'.path, q)
    BY <1>5, <2>1, <2>3 DEF LaterFile
  <2> QED BY <1>1, <1>2, <2>4 DEF Ahead, LaterFile
<1>7. /\ \A i \in DOMAIN mq_data_queue' : Ahead(mq_data_queue[i])'
      /\ \A w \in Workers :
           /\ pc'[w] \in Woken => Ahead(ticket[w])'
           /\ pc'[w] \in {"open", "serve"} => LaterFile(path[w], ticket[w])'
  BY <1>1, <1>2, <1>5, <1>6 DEF Ordered, Ahead, LaterFile
<1>8. data'.fldes # 0 => Later(msg, data.fldes)'
  <2>1. order[msg] >= order[msg] BY <1>3, <1>4
  <2> QED BY <1>1, <1>2, <1>3, <1>5, <2>1
<1> QED BY <1>1, <1>2, <1>5, <1>7, <1>8 DEF Ordered

LEMMA EnqueueOrdered ==
  ASSUME TypeInv, Ordered, Enqueue
  PROVE  Ordered'
<1> USE DEF Later
<1>1. UNCHANGED <<segOf, order, mq, msg, data, ticket, path>>
  BY DEF Enqueue, proxy, slot, locals
<1>2. UNCHANGED Sent BY <1>1, SameNumbers
<1>3. /\ pc["main"] = "enqueue" /\ mq_data_queue' = Append(mq_data_queue, msg)
      /\ pc' = [pc EXCEPT !["main"] = "unlock"]
  BY DEF Enqueue, Goto
<1>4. pc'["main"] = "unlock" /\ \A w \in Workers : pc'[w] = pc[w]
  BY <1>3, QueueAssumption DEF TypeInv, TypeOK, Procs
<1>5. Ahead(msg)
  <2>1. data.fldes = msg /\ data.path = msg BY <1>3 DEF Ordered, Full
  <2>2. msg \in Sent BY <1>3 DEF Ordered, TypeInv, Control
  <2>3. order[msg] \in Nat BY <2>2 DEF Sent, TypeInv, TypeOK, Requests
  <2> QED BY <2>1, <2>2, <2>3 DEF Ahead, LaterFile
<1>6. \A i \in DOMAIN mq_data_queue' :
        \/ mq_data_queue'[i] = msg
        \/ i \in DOMAIN mq_data_queue /\ mq_data_queue'[i] = mq_data_queue[i]
  <2>1. mq_data_queue \in Seq(Requests) BY DEF TypeInv, TypeOK
  <2> QED BY <1>3, <2>1
<1>7. \A i \in DOMAIN mq_data_queue' : Ahead(mq_data_queue[i])'
  BY <1>1, <1>2, <1>5, <1>6 DEF Ordered, Ahead, LaterFile
<1> QED BY <1>1, <1>2, <1>4, <1>7 DEF Ordered, Ahead, LaterFile, Full

LEMMA PopOrdered ==
  ASSUME TypeInv, Ordered, NEW w \in Workers, Pop(w)
  PROVE  Ordered'
<1> USE DEF Later
<1>1. UNCHANGED <<segOf, order, mq, msg, data, path>>
  BY DEF Pop, proxy, slot
<1>2. UNCHANGED Sent BY <1>1, SameNumbers
<1>3. /\ mq_data_queue # << >> /\ mq_data_queue' = Tail(mq_data_queue)
      /\ ticket' = [ticket EXCEPT ![w] = Head(mq_data_queue)]
      /\ pc' = [pc EXCEPT ![w] = "unlock"]
  BY DEF Pop, Goto
<1>4. /\ pc'["main"] = pc["main"] /\ ticket'[w] = mq_data_queue[1] /\ pc'[w] = "unlock"
      /\ \A v \in Workers \ {w} : pc'[v] = pc[v] /\ ticket'[v] = ticket[v]
  BY <1>3, QueueAssumption DEF TypeInv, TypeOK, Procs
<1>5. /\ 1 \in DOMAIN mq_data_queue
      /\ \A i \in DOMAIN mq_data_queue' : i + 1 \in DOMAIN mq_data_queue
                                        /\ mq_data_queue'[i] = mq_data_queue[i + 1]
  <2>1. mq_data_queue \in Seq(Requests) BY DEF TypeInv, TypeOK
  <2> QED BY <1>3, <2>1
<1>6. \A i \in DOMAIN mq_data_queue' : Ahead(mq_data_queue[i])'
  BY <1>1, <1>2, <1>5 DEF Ordered, Ahead, LaterFile
<1>7. ASSUME NEW v \in Workers
      PROVE  /\ pc'[v] \in Woken => Ahead(ticket[v])'
             /\ pc'[v] \in {"open", "serve"} => LaterFile(path[v], ticket[v])'
  <2>1. CASE v = w BY <1>1, <1>2, <1>4, <1>5, <2>1 DEF Ordered, Ahead, LaterFile
  <2>2. CASE v # w BY <1>1, <1>2, <1>4, <2>2 DEF Ordered, Ahead, LaterFile
  <2> QED BY <2>1, <2>2
<1> QED BY <1>1, <1>2, <1>4, <1>6, <1>7 DEF Ordered

LEMMA GetOrdered ==
  ASSUME TypeInv, Ordered, NEW w \in Workers, GetFile(w)
  PROVE  Ordered'
<1> USE DEF Later
<1>1. UNCHANGED <<segOf, order, mq, msg, data, mq_data_queue, ticket>>
  BY DEF GetFile, proxy, slot, queue
<1>2. UNCHANGED Sent BY <1>1, SameNumbers
<1>3. /\ pc[w] = "get" /\ pc' = [pc EXCEPT ![w] = "open"]
      /\ path' = [path EXCEPT ![w] = data.path]
  BY DEF GetFile, Goto
<1>4. /\ pc'["main"] = pc["main"] /\ path'[w] = data.path
      /\ \A v \in Workers \ {w} : pc'[v] = pc[v] /\ path'[v] = path[v]
  BY <1>3, QueueAssumption DEF TypeInv, TypeOK, Procs
<1>5. ASSUME NEW v \in Workers
      PROVE  /\ pc'[v] \in Woken => Ahead(ticket[v])'
             /\ pc'[v] \in {"open", "serve"} => LaterFile(path[v], ticket[v])'
  <2>1. CASE v = w
    <3>1. Ahead(ticket[w]) BY <1>3 DEF Ordered, Woken
    <3> QED BY <1>1, <1>2, <1>4, <2>1, <3>1 DEF Ahead, LaterFile
  <2>2. CASE v # w BY <1>1, <1>2, <1>4, <2>2 DEF Ordered, Ahead, LaterFile
  <2> QED BY <2>1, <2>2
<1> QED BY <1>1, <1>2, <1>4, <1>5 DEF Ordered, Ahead, LaterFile

(* The other steps. *)
LEMMA StepOrdered ==
  ASSUME TypeInv, Ordered, Numbered, [Next]_vars
  PROVE  Ordered'
<1> USE DEF slot, queue, locals
<1>0. /\ pc \in [Procs -> Labels] /\ "main" \in Procs /\ Workers \subseteq Procs
      /\ "main" \notin Workers
  BY QueueAssumption DEF TypeInv, TypeOK, Procs
<1>1. ASSUME NEW p \in Procs, NEW l,
             pc' = [pc EXCEPT ![p] = l], UNCHANGED <<mq, slot, mq_data_queue, ticket, path>>,
             p = "main" => l # "copy_fldes" /\ (l \in Full => pc["main"] \in Full),
             p # "main" => /\ l \in Woken => pc[p] \in Woken
                           /\ l \in {"open", "serve"} => pc[p] \in {"open", "serve"}
      PROVE  Ordered'
  <2>1. /\ pc'["main"] = "copy_fldes" => pc["main"] = "copy_fldes"
        /\ pc'["main"] \in Full => pc["main"] \in Full
        /\ \A w \in Workers : /\ pc'[w] \in Woken => pc[w] \in Woken
                              /\ pc'[w] \in {"open", "serve"} => pc[w] \in {"open", "serve"}
    BY <1>0, <1>1
  <2> QED BY <1>1, <2>1, Quiet
<1>2. ASSUME NEW p \in Procs, Lock(p) PROVE Ordered'
  BY <1>1, <1>2 DEF Lock, Full, Woken
<1>3. ASSUME NEW p \in Procs, Unlock(p) PROVE Ordered'
  BY <1>1, <1>3 DEF Unlock, Goto, Full, Woken
<1>4. CASE MainCheck
  <2>1. PICK l \in {"wait", "enqueue"} : pc' = [pc EXCEPT !["main"] = l]
    BY <1>4 DEF MainCheck
  <2> QED BY <1>0, <1>1, <1>4, <2>1 DEF MainCheck, Full
<1>5. CASE MainBroadcast
  BY <1>0, <1>1, <1>5 DEF MainBroadcast, Goto, Full
<1>6. ASSUME NEW w \in Workers, WorkerCheck(w) PROVE Ordered'
  <2>1. PICK l \in {"wait", "pop"} : pc' = [pc EXCEPT ![w] = l]
    BY <1>6 DEF WorkerCheck
  <2> QED BY <1>0, <1>1, <1>6, <2>1 DEF WorkerCheck, Woken
<1>7. ASSUME NEW w \in Workers, WorkerSignal(w) \/ OpenSegment(w) \/ Serve(w) PROVE Ordered'
  BY <1>0, <1>1, <1>7 DEF WorkerSignal, OpenSegment, Serve, Goto, Woken
<1>8. ASSUME UNCHANGED <<mq, slot, mq_data_queue, ticket, path, pc>> PROVE Ordered'
  BY <1>8, Quiet
<1>9. ASSUME NEW t \in Threads, OpenQueue(t) \/ SendLost(t) \/ Complete(t) PROVE Ordered'
  BY <1>8, <1>9 DEF OpenQueue, SendLost, Complete
<1>10. ASSUME NEW t \in Threads, NEW s \in Segments, Issue(t, s) PROVE Ordered'
  BY <1>8, <1>10 DEF Issue
<1>11. ASSUME NEW p \in Procs, SpuriousWakeup(p) PROVE Ordered'
  BY <1>8, <1>11 DEF SpuriousWakeup
<1>12. CASE UNCHANGED vars BY <1>8, <1>12 DEF vars
<1> QED
  BY <1>2, <1>3, <1>4, <1>5, <1>6, <1>7, <1>9, <1>10, <1>11, <1>12, SendOrdered, ReceiveOrdered,
     CopyOrdered, EnqueueOrdered, PopOrdered, GetOrdered, RestartOrdered
  DEF Next, Main, Worker, Proxy

LEMMA Order == Spec => [](TypeInv /\ Numbered /\ Ordered)
<1>1. Init => TypeInv /\ Numbered /\ Ordered
  <2> SUFFICES ASSUME Init PROVE Numbered /\ Ordered
    BY InitTypes
  <2>1. Sent = {} BY DEF Init, Sent, Requests
  <2>2. pc["main"] = "receive" /\ \A w \in Workers : pc[w] = "lock"
    BY QueueAssumption DEF Init, StartPc, Procs
  <2> QED BY <2>1, <2>2 DEF Init, Numbered, Ordered, Full, Woken, EmptySlot
<1>2. TypeInv /\ Numbered /\ Ordered /\ [Next]_vars => (TypeInv /\ Numbered /\ Ordered)'
  BY StepTypes, NumberedStays, StepOrdered
<1> QED BY <1>1, <1>2, PTL DEF Spec

(* The variable that main overwrites while workers read it runs ahead of    *)
(* them, never behind: a worker reads the path and the segment name of the  *)
(* request it was woken for or of one sent later (simplecached.c: every     *)
(* entry of mq_data_queue is the address of main's data).                   *)
THEOREM NeverBehind == Spec => []NeverStale
<1>1. Ordered => NeverStale
  <2> SUFFICES ASSUME Ordered PROVE NeverStale
    OBVIOUS
  <2>1. \A r, q : Later(r, q) => NotBefore(r, q) BY DEF Later, Sent, NotBefore
  <2>2. ASSUME NEW w \in Workers
        PROVE  /\ pc[w] = "get" => data.path = NoFile \/ NotBefore(data.path, ticket[w])
               /\ pc[w] \in {"open", "serve"} =>
                    /\ path[w] = NoFile \/ NotBefore(path[w], ticket[w])
                    /\ NotBefore(data.fldes, ticket[w])
    BY <2>1 DEF Ordered, Ahead, LaterFile, Woken
  <2>3. \A i \in DOMAIN mq_data_queue : NotBefore(data.fldes, mq_data_queue[i])
    BY <2>1 DEF Ordered, Ahead
  <2> QED BY <2>2, <2>3 DEF NeverStale
<1> QED BY <1>1, Order, PTL

-----------------------------------------------------------------------------
(* One request at a time: with one segment, or one thread of the proxy, no  *)
(* thread sends before the other's request was answered.                    *)
OneAtATime ==
  \/ \A s1, s2 \in Segments : s1 = s2
  \/ \A t1, t2 \in Threads : t1 = t2

Open(r) == \E t \in Threads : request[t] = r
Pending(r) == r \in Sent /\ Open(r) /\ answer[r] = Unanswered
MainBusy == pc["main"] \in {"copy_path", "copy_fldes"} \cup Full
NoneWoken == \A w \in Workers : pc[w] \notin Woken

(* The request is in one place: on the message queue, in msg, in the        *)
(* daemon's queue or with a worker; nobody received another one meanwhile.  *)
OneOpen == \A t, u \in Threads : request[t] # 0 /\ request[u] # 0 => t = u

Unsent == \A r \in Requests \ Sent : answer[r] = Unanswered

InQueue ==
  mq # << >> =>
    mq = <<mq[1]>> /\ Pending(mq[1]) /\ ~MainBusy /\ mq_data_queue = << >> /\ NoneWoken

InMain == MainBusy => Pending(msg) /\ mq_data_queue = << >> /\ NoneWoken

Entered ==
  mq_data_queue # << >> =>
    LET r == mq_data_queue[1] IN
    mq_data_queue = <<r>> /\ Pending(r) /\ data = [path |-> r, fldes |-> r] /\ NoneWoken

With(w) ==
  pc[w] \in Woken =>
    LET r == ticket[w] IN
    /\ Pending(r) /\ data = [path |-> r, fldes |-> r]
    /\ pc[w] \in {"open", "serve"} => path[w] = r
    /\ pc[w] = "serve" => opened[w] = r
    /\ \A v \in Workers : pc[v] \in Woken => v = w

InDaemon == InMain /\ Entered /\ \A w \in Workers : With(w)
Alone == OneOpen /\ AnswersMatch /\ Unsent /\ InQueue /\ InDaemon

(* Steps that move no message. *)
LEMMA QuietDaemon ==
  ASSUME InDaemon, UNCHANGED <<slot, mq_data_queue, locals>>,
         \A r : Pending(r) => Pending(r)',
         MainBusy' => MainBusy,
         \A w \in Workers : /\ pc'[w] \in Woken => pc[w] \in Woken
                            /\ pc'[w] \in {"open", "serve"} => pc[w] \in {"open", "serve"}
                            /\ pc'[w] = "serve" => pc[w] = "serve"
  PROVE  InDaemon' /\ (NoneWoken => NoneWoken')
<1>1. UNCHANGED <<msg, data, ticket, path, opened>> BY DEF slot, locals
<1>2. NoneWoken => NoneWoken' BY DEF NoneWoken
<1>3. ASSUME NEW w \in Workers PROVE With(w)'
  BY <1>1 DEF InDaemon, With, Pending, Open
<1>4. InMain' BY <1>1, <1>2 DEF InDaemon, InMain, Pending, Open
<1>5. Entered' BY <1>1, <1>2 DEF InDaemon, Entered, Pending, Open
<1> QED BY <1>2, <1>3, <1>4, <1>5 DEF InDaemon

LEMMA QuietAlone ==
  ASSUME Alone, UNCHANGED <<segOf, order, request, answer, mq, slot, mq_data_queue, locals>>,
         MainBusy' => MainBusy,
         \A w \in Workers : /\ pc'[w] \in Woken => pc[w] \in Woken
                            /\ pc'[w] \in {"open", "serve"} => pc[w] \in {"open", "serve"}
                            /\ pc'[w] = "serve" => pc[w] = "serve"
  PROVE  Alone'
<1>1. Sent' = Sent /\ Requests' = Requests BY SameNumbers DEF Requests
<1>2. \A r : Pending(r) => Pending(r)' BY <1>1 DEF Pending, Open
<1>3. InDaemon' /\ (NoneWoken => NoneWoken') BY <1>2, QuietDaemon DEF Alone
<1>4. InQueue' BY <1>1, <1>3 DEF Alone, InQueue, Pending, Open
<1>5. OneOpen' /\ AnswersMatch' /\ Unsent' BY <1>1 DEF Alone, OneOpen, AnswersMatch, Unsent
<1> QED BY <1>3, <1>4, <1>5 DEF Alone

(* A pending request stays pending unless it is answered. *)
LEMMA PendingStays ==
  ASSUME TypeInv, [Next]_vars, NEW r, Pending(r), answer'[r] = answer[r]
  PROVE  Pending(r)'
<1>1. r \in Sent' BY SentStays DEF Pending
<1>2. PICK t \in Threads : request[t] = r BY DEF Pending, Open
<1>3. r # 0 /\ answer[r] = Unanswered BY DEF Pending, Sent, Requests, TypeInv, TypeOK
<1>4. ASSUME NEW u \in Threads, Complete(u) PROVE request'[t] = r
  BY <1>2, <1>3, <1>4 DEF Complete
<1>5. ASSUME NEW u \in Threads, NEW s \in Segments, Issue(u, s) PROVE request'[t] = r
  BY <1>2, <1>3, <1>5 DEF Issue
<1>6. ASSUME NEW u \in Threads, OpenQueue(u) \/ Send(u) \/ SendLost(u) PROVE request' = request
  BY <1>6 DEF OpenQueue, Send, SendLost
<1>7. ASSUME NEW p \in Procs, Lock(p) \/ Unlock(p) \/ SpuriousWakeup(p) PROVE request' = request
  BY <1>7 DEF Lock, Unlock, SpuriousWakeup, proxy
<1>8. ASSUME Main \/ Restart PROVE request' = request
  BY <1>8 DEF Main, Restart, Receive, CopyPath, CopyFldes, MainCheck, Enqueue, MainBroadcast, proxy
<1>9. ASSUME NEW w \in Workers, Worker(w) \/ Serve(w) PROVE request' = request
  BY <1>9 DEF Worker, WorkerCheck, Pop, WorkerSignal, GetFile, OpenSegment, Serve, proxy
<1>10. request'[t] = r
  BY <1>2, <1>4, <1>5, <1>6, <1>7, <1>8, <1>9 DEF Next, Proxy, vars, proxy
<1> QED BY <1>1, <1>3, <1>10 DEF Pending, Open

(* The steps of the proxy.  A new request is made only when no other is     *)
(* open.                                                                    *)
LEMMA IssueAlone ==
  ASSUME OneAtATime, TypeInv, Alone, [Next]_vars,
         NEW t \in Threads, NEW s \in Segments, Issue(t, s)
  PROVE  Alone'
<1>1. /\ UNCHANGED <<mq, slot, mq_data_queue, pc, locals>> /\ request[t] = 0 /\ Current(s) = {}
      /\ segOf' = Append(segOf, s) /\ answer' = Append(answer, Unanswered)
      /\ request' = [request EXCEPT ![t] = Len(segOf) + 1]
  BY DEF Issue, queue
<1>2. /\ Len(segOf) \in Nat /\ Requests = 1 .. Len(segOf) /\ Requests' = 1 .. Len(segOf) + 1
      /\ answer'[Len(segOf) + 1] = Unanswered /\ \A r \in Requests : answer'[r] = answer[r]
  <2>1. segOf \in Seq(Segments) /\ answer \in Seq(Nat \cup {Unanswered}) /\ Len(answer) = Len(segOf)
    BY DEF TypeInv, TypeOK
  <2>2. Len(segOf') = Len(segOf) + 1 BY <1>1, <2>1
  <2> QED BY <1>1, <2>1, <2>2 DEF Requests
<1>3. \A r : Pending(r) => Pending(r)'
  BY <1>2, PendingStays DEF Pending, Sent
<1>4. \A u \in Threads : request[u] = 0
  <2> SUFFICES ASSUME NEW u \in Threads, request[u] # 0 PROVE FALSE
    OBVIOUS
  <2>1. request[u] \in Requests BY DEF TypeInv, TypeOK
  <2>2. CASE \A s1, s2 \in Segments : s1 = s2
    <3>1. segOf[request[u]] \in Segments BY <2>1 DEF TypeInv, TypeOK, Requests
    <3>2. segOf[request[u]] = s BY <2>2, <3>1
    <3> QED BY <1>1, <2>1, <3>2 DEF Current
  <2>3. CASE \A t1, t2 \in Threads : t1 = t2 BY <1>1, <2>3
  <2> QED BY <2>2, <2>3 DEF OneAtATime
<1>5. OneOpen' BY <1>1, <1>4 DEF OneOpen, TypeInv, TypeOK
<1>6. AnswersMatch' /\ Unsent'
  <2>1. Sent' = Sent BY IssueNumbers
  <2> QED BY <1>2, <2>1 DEF Alone, AnswersMatch, Unsent
<1>7. MainBusy' = MainBusy BY <1>1 DEF MainBusy
<1>8. InDaemon' /\ (NoneWoken => NoneWoken') BY <1>1, <1>3, <1>7, QuietDaemon DEF Alone
<1>9. InQueue' BY <1>1, <1>3, <1>7, <1>8 DEF Alone, InQueue, Pending, Open
<1> QED BY <1>5, <1>6, <1>8, <1>9 DEF Alone

(* Nothing is on its way when a request is sent: it would be the open one,  *)
(* which was not sent.                                                      *)
LEMMA SendAlone ==
  ASSUME TypeInv, Alone, NEW t \in Threads, Send(t), [Next]_vars
  PROVE  Alone'
<1> DEFINE r == request[t]
<1>1. /\ UNCHANGED <<segOf, request, answer, slot, mq_data_queue, pc, locals>>
      /\ r # 0 /\ r \notin Sent /\ r \in Requests /\ mq' = Append(mq, r) /\ Sent' = Sent \cup {r}
  BY SendNumbers DEF Send, queue, Requests, TypeInv, TypeOK
<1>2. \A x : ~Pending(x)
  <2> SUFFICES ASSUME NEW x, Pending(x) PROVE FALSE
    OBVIOUS
  <2>1. x \in Sent /\ \E u \in Threads : request[u] = x BY DEF Pending, Open
  <2>2. x # 0 BY <2>1 DEF Sent, Requests, TypeInv, TypeOK
  <2> QED BY <1>1, <2>1, <2>2 DEF Alone, OneOpen
<1>3. mq = << >> /\ ~MainBusy /\ mq_data_queue = << >> /\ NoneWoken
  BY <1>2 DEF Alone, InDaemon, InQueue, InMain, Entered, With, NoneWoken
<1>4. answer[r] = Unanswered BY <1>1 DEF Alone, Unsent
<1>5. UNCHANGED <<MainBusy, NoneWoken, Requests>> BY <1>1 DEF MainBusy, NoneWoken, Requests
<1>6. InQueue'
  <2>1. PICK q : q = r OBVIOUS
  <2>2. mq' = <<q>> /\ mq'[1] = q BY <1>1, <1>3, <2>1
  <2>3. Pending(q)' BY <1>1, <1>4, <2>1 DEF Pending, Open
  <2> HIDE DEF r
  <2> QED BY <1>1, <1>3, <1>5, <2>2, <2>3 DEF InQueue, queue, Pending, Open
<1>7. InDaemon'
  <2>1. \A x : Pending(x) => Pending(x)' BY <1>2
  <2>2. mq_data_queue' = mq_data_queue BY <1>1
  <2> HIDE DEF r
  <2> QED BY <1>1, <1>5, <2>1, QuietDaemon DEF Alone
<1>8. OneOpen' /\ AnswersMatch' /\ Unsent'
  BY <1>1, <1>5 DEF Alone, OneOpen, AnswersMatch, Unsent
<1> QED BY <1>6, <1>7, <1>8 DEF Alone

LEMMA CompleteAlone ==
  ASSUME TypeInv, Alone, [Next]_vars, NEW t \in Threads, Complete(t)
  PROVE  Alone'
<1>1. /\ UNCHANGED <<segOf, order, answer, mq, slot, mq_data_queue, pc, locals>>
      /\ answer[request[t]] # Unanswered /\ request' = [request EXCEPT ![t] = 0]
  BY DEF Complete, queue
<1>2. UNCHANGED <<MainBusy, NoneWoken, Requests, Sent>>
  BY <1>1, SameNumbers DEF MainBusy, NoneWoken, Requests
<1>3. \A r : Pending(r) => Pending(r)' BY <1>1, PendingStays
<1>4. InDaemon' BY <1>1, <1>2, <1>3, QuietDaemon DEF Alone
<1>5. InQueue' BY <1>1, <1>2, <1>3 DEF Alone, InQueue, Pending, Open
<1>6. OneOpen' BY <1>1 DEF Alone, OneOpen, TypeInv, TypeOK
<1>7. AnswersMatch' /\ Unsent' BY <1>1, <1>2 DEF Alone, AnswersMatch, Unsent
<1> QED BY <1>4, <1>5, <1>6, <1>7 DEF Alone

-----------------------------------------------------------------------------
(* The steps of the daemon that move the message. *)
LEMMA DaemonKeeps ==
  ASSUME Alone, UNCHANGED <<segOf, request, order, answer>>
  PROVE  OneOpen' /\ AnswersMatch' /\ Unsent' /\ \A r : Pending(r) => Pending(r)'
<1>1. Sent' = Sent /\ Requests' = Requests BY SameNumbers DEF Requests
<1> QED BY <1>1 DEF Alone, OneOpen, AnswersMatch, Unsent, Pending, Open

LEMMA ReceiveAlone ==
  ASSUME TypeInv, Alone, Receive
  PROVE  Alone'
<1>1. /\ mq # << >> /\ msg' = Head(mq) /\ mq' = Tail(mq)
      /\ UNCHANGED <<proxy, answer, mq_data_queue, locals>>
      /\ pc' = [pc EXCEPT !["main"] = "copy_path"]
  BY DEF Receive, Goto, queue
<1>2. mq = <<mq[1]>> /\ Pending(mq[1]) /\ mq_data_queue = << >> /\ NoneWoken
  BY <1>1 DEF Alone, InQueue
<1>3. mq' = << >> /\ msg' = mq[1]
  <2>1. PICK q : mq = <<q>> BY <1>2
  <2> QED BY <1>1, <2>1
<1>4. OneOpen' /\ AnswersMatch' /\ Unsent' /\ \A r : Pending(r) => Pending(r)'
  BY <1>1, DaemonKeeps DEF proxy
<1>5. \A w \in Workers : pc'[w] = pc[w] BY <1>1, QueueAssumption DEF TypeInv, TypeOK, Procs
<1>6. NoneWoken' BY <1>2, <1>5 DEF NoneWoken
<1>7. InMain' BY <1>1, <1>2, <1>3, <1>4, <1>6 DEF InMain, Pending, Open
<1>8. InDaemon' BY <1>1, <1>2, <1>6, <1>7 DEF InDaemon, Entered, With, NoneWoken
<1> QED BY <1>3, <1>4, <1>8 DEF Alone, InQueue

LEMMA CopyAlone ==
  ASSUME TypeInv, Alone, CopyPath \/ CopyFldes
  PROVE  Alone'
<1>1. /\ pc["main"] \in {"copy_path", "copy_fldes"}
      /\ UNCHANGED <<proxy, answer, mq, msg, mq_data_queue, locals>>
      /\ \A w \in Workers : pc'[w] = pc[w]
  <2>1. PICK l : pc' = [pc EXCEPT !["main"] = l] BY DEF CopyPath, CopyFldes, Goto
  <2>2. \A w \in Workers : pc'[w] = pc[w] BY <2>1, QueueAssumption DEF TypeInv, TypeOK, Procs
  <2> QED BY <2>2 DEF CopyPath, CopyFldes, Goto, queue
<1>2. MainBusy BY <1>1 DEF MainBusy
<1>3. mq = << >> /\ Pending(msg) /\ mq_data_queue = << >> /\ NoneWoken
  BY <1>2 DEF Alone, InQueue, InDaemon, InMain
<1>4. OneOpen' /\ AnswersMatch' /\ Unsent' /\ \A r : Pending(r) => Pending(r)'
  BY <1>1, DaemonKeeps DEF proxy
<1>5. NoneWoken' BY <1>1, <1>3 DEF NoneWoken
<1>6. InMain' BY <1>1, <1>3, <1>4, <1>5 DEF InMain, Pending, Open
<1>7. InDaemon' BY <1>1, <1>3, <1>5, <1>6 DEF InDaemon, Entered, With, NoneWoken
<1> QED BY <1>1, <1>3, <1>4, <1>7 DEF Alone, InQueue

(* By now the shared variable holds the whole request. *)
LEMMA EnqueueAlone ==
  ASSUME TypeInv, Ordered, Alone, Enqueue
  PROVE  Alone'
<1>1. /\ pc["main"] = "enqueue" /\ mq_data_queue' = Append(mq_data_queue, msg)
      /\ pc' = [pc EXCEPT !["main"] = "unlock"]
      /\ UNCHANGED <<proxy, answer, mq, msg, data, locals>>
  BY DEF Enqueue, Goto, slot
<1>2. MainBusy /\ pc["main"] \in Full BY <1>1 DEF MainBusy, Full
<1>3. mq = << >> /\ Pending(msg) /\ mq_data_queue = << >> /\ NoneWoken
  BY <1>2 DEF Alone, InQueue, InDaemon, InMain
<1>4. data = [path |-> msg, fldes |-> msg]
  <2>1. data.path = msg /\ data.fldes = msg BY <1>2 DEF Ordered
  <2> QED BY <2>1 DEF TypeInv, TypeOK
<1>5. OneOpen' /\ AnswersMatch' /\ Unsent' /\ \A r : Pending(r) => Pending(r)'
  BY <1>1, DaemonKeeps DEF proxy
<1>6. pc'["main"] = "unlock" /\ \A w \in Workers : pc'[w] = pc[w]
  BY <1>1, QueueAssumption DEF TypeInv, TypeOK, Procs
<1>7. NoneWoken' /\ ~MainBusy' BY <1>3, <1>6 DEF NoneWoken, MainBusy, Full
<1>8. mq_data_queue' = <<msg>> /\ mq_data_queue'[1] = msg BY <1>1, <1>3
<1>9. Entered'
  <2>1. Pending(msg)' BY <1>1, <1>3, <1>5 DEF Pending, Open
  <2> QED BY <1>1, <1>4, <1>7, <1>8, <2>1 DEF Entered, Pending, Open
<1>10. InDaemon' BY <1>7, <1>9 DEF InDaemon, InMain, With, NoneWoken
<1> QED BY <1>1, <1>3, <1>5, <1>10 DEF Alone, InQueue

LEMMA PopAlone ==
  ASSUME TypeInv, Alone, NEW w \in Workers, Pop(w)
  PROVE  Alone'
<1>1. /\ mq_data_queue # << >> /\ mq_data_queue' = Tail(mq_data_queue)
      /\ ticket' = [ticket EXCEPT ![w] = Head(mq_data_queue)]
      /\ pc' = [pc EXCEPT ![w] = "unlock"]
      /\ UNCHANGED <<proxy, answer, mq, msg, data, path, opened>>
  BY DEF Pop, Goto, slot
<1>2. PICK r : /\ mq_data_queue = <<r>> /\ Pending(r) /\ data = [path |-> r, fldes |-> r]
               /\ NoneWoken
  BY <1>1 DEF Alone, InDaemon, Entered
<1>3. mq = << >> /\ ~MainBusy
  BY <1>1 DEF Alone, InQueue, InDaemon, InMain
<1>4. OneOpen' /\ AnswersMatch' /\ Unsent' /\ \A x : Pending(x) => Pending(x)'
  BY <1>1, DaemonKeeps DEF proxy
<1>5. /\ pc'["main"] = pc["main"] /\ pc'[w] = "unlock" /\ \A v \in Workers \ {w} : pc'[v] = pc[v]
      /\ ticket'[w] = r
  <2>1. Head(mq_data_queue) = r BY <1>2
  <2> QED BY <1>1, <2>1, QueueAssumption DEF TypeInv, TypeOK, Procs
<1>6. mq_data_queue' = << >> BY <1>1, <1>2
<1>7. ~MainBusy' BY <1>3, <1>5 DEF MainBusy, Full
<1>8. \A v \in Workers \ {w} : pc'[v] \notin Woken BY <1>2, <1>5 DEF NoneWoken
<1>9. ASSUME NEW v \in Workers PROVE With(v)'
  <2>1. CASE v = w
    <3>1. Pending(r)' BY <1>2, <1>4
    <3> QED BY <1>1, <1>2, <1>5, <1>8, <2>1, <3>1 DEF With, Pending, Open
  <2>2. CASE v # w BY <1>8, <2>2 DEF With
  <2> QED BY <2>1, <2>2
<1>10. InDaemon' BY <1>6, <1>7, <1>9 DEF InDaemon, InMain, Entered
<1> QED BY <1>1, <1>3, <1>4, <1>10 DEF Alone, InQueue

(* The worker that has the request: nobody else has another. *)
LEMMA WithAlone ==
  ASSUME Alone, NEW w \in Workers, pc[w] \in Woken
  PROVE  /\ mq = << >> /\ mq_data_queue = << >> /\ ~MainBusy
         /\ Pending(ticket[w]) /\ data = [path |-> ticket[w], fldes |-> ticket[w]]
         /\ pc[w] \in {"open", "serve"} => path[w] = ticket[w]
         /\ pc[w] = "serve" => opened[w] = ticket[w]
         /\ \A v \in Workers : pc[v] \in Woken => v = w
<1>1. ~NoneWoken BY DEF NoneWoken
<1>2. With(w) BY DEF Alone, InDaemon
<1> QED BY <1>1, <1>2 DEF Alone, InQueue, InDaemon, InMain, Entered, With

(* It reads the path, and the segment name, through the shared variable:    *)
(* the open request of that segment is its own.                             *)
LEMMA ReadAlone ==
  ASSUME TypeInv, Alone, NEW w \in Workers, GetFile(w) \/ OpenSegment(w)
  PROVE  Alone'
<1> DEFINE r == ticket[w]
<1>1. /\ UNCHANGED <<proxy, answer, mq, msg, data, mq_data_queue, ticket>>
      /\ pc[w] \in Woken
  BY DEF GetFile, OpenSegment, Goto, slot, queue, Woken
<1>2. /\ mq = << >> /\ mq_data_queue = << >> /\ ~MainBusy /\ Pending(r)
      /\ data = [path |-> r, fldes |-> r] /\ \A v \in Workers : pc[v] \in Woken => v = w
      /\ pc[w] \in {"open", "serve"} => path[w] = r
  BY <1>1, WithAlone
<1>3. OneOpen' /\ AnswersMatch' /\ Unsent' /\ \A x : Pending(x) => Pending(x)'
  BY <1>1, DaemonKeeps DEF proxy
<1>4. /\ pc'["main"] = pc["main"] /\ \A v \in Workers \ {w} : pc'[v] = pc[v]
      /\ pc'[w] \in {"open", "serve"} /\ path'[w] = r /\ (pc'[w] = "serve" => opened'[w] = r)
  <2>1. CASE GetFile(w)
    <3>1. /\ pc' = [pc EXCEPT ![w] = "open"] /\ path' = [path EXCEPT ![w] = data.path]
      BY <2>1 DEF GetFile, Goto
    <3> QED BY <1>2, <3>1, QueueAssumption DEF TypeInv, TypeOK, Procs
  <2>2. CASE OpenSegment(w)
    <3>1. PICK q \in Current(segOf[r]) :
            opened' = [opened EXCEPT ![w] = q] /\ q = CHOOSE x \in Current(segOf[r]) : TRUE
      <4>1. data.fldes = r BY <1>2
      <4> QED BY <2>2, <4>1 DEF OpenSegment
    <3>2. q = r
      <4>1. PICK t \in Threads : request[t] = q BY DEF Current
      <4>2. PICK u \in Threads : request[u] = r BY <1>2 DEF Pending, Open
      <4>3. q # 0 /\ r # 0 BY <1>2 DEF Current, Requests, Pending, Sent, TypeInv, TypeOK
      <4> QED BY <4>1, <4>2, <4>3 DEF Alone, OneOpen
    <3>3. pc[w] = "open" /\ pc' = [pc EXCEPT ![w] = "serve"] /\ path' = path
      BY <2>2 DEF OpenSegment, Goto
    <3>4. opened'[w] = r BY <3>1, <3>2 DEF TypeInv, TypeOK
    <3> QED BY <1>2, <3>3, <3>4, QueueAssumption DEF TypeInv, TypeOK, Procs
  <2> QED BY <2>1, <2>2
<1>5. \A v \in Workers \ {w} : pc'[v] \notin Woken BY <1>2, <1>4
<1>6. ASSUME NEW v \in Workers PROVE With(v)'
  <2>1. CASE v = w
    <3>1. PICK q : q = r OBVIOUS
    <3>2. Pending(q)' /\ ticket'[w] = q /\ data' = [path |-> q, fldes |-> q]
      BY <1>1, <1>2, <1>3, <3>1
    <3> QED BY <1>4, <1>5, <2>1, <3>1, <3>2 DEF With, Pending, Open
  <2>2. CASE v # w BY <1>5, <2>2 DEF With
  <2> QED BY <2>1, <2>2
<1>7. ~MainBusy' BY <1>2, <1>4 DEF MainBusy, Full
<1>8. InDaemon' BY <1>1, <1>2, <1>6, <1>7 DEF InDaemon, InMain, Entered
<1> QED BY <1>1, <1>2, <1>3, <1>8 DEF Alone, InQueue

(* The answer is that of the request; nothing is left of it in the daemon. *)
LEMMA ServeAlone ==
  ASSUME TypeInv, Alone, NEW w \in Workers, Serve(w)
  PROVE  Alone'
<1> DEFINE r == ticket[w]
<1>1. /\ UNCHANGED <<segOf, request, order, mq, slot, mq_data_queue, locals>>
      /\ pc[w] = "serve" /\ pc' = [pc EXCEPT ![w] = "lock"]
      /\ answer' = IF answer[opened[w]] = Unanswered
                   THEN [answer EXCEPT ![opened[w]] = path[w]] ELSE answer
  BY DEF Serve, Goto, proxy, queue
<1>2. /\ mq = << >> /\ mq_data_queue = << >> /\ ~MainBusy /\ Pending(r)
      /\ opened[w] = r /\ path[w] = r /\ \A v \in Workers : pc[v] \in Woken => v = w
  BY <1>1, WithAlone DEF Woken
<1>3. /\ pc'["main"] = pc["main"] /\ pc'[w] = "lock" /\ \A v \in Workers \ {w} : pc'[v] = pc[v]
  BY <1>1, QueueAssumption DEF TypeInv, TypeOK, Procs
<1>4. NoneWoken' /\ ~MainBusy' BY <1>2, <1>3 DEF NoneWoken, MainBusy, Full, Woken
<1>5. InDaemon' BY <1>1, <1>2, <1>4 DEF InDaemon, InMain, Entered, With, NoneWoken
<1>6. Sent' = Sent /\ Requests' = Requests BY <1>1, SameNumbers DEF Requests
<1>7. \A x \in Requests : answer'[x] = IF x = r THEN r ELSE answer[x]
  <2>1. answer' = [answer EXCEPT ![r] = r] BY <1>1, <1>2 DEF Pending
  <2>2. DOMAIN answer = Requests BY DEF TypeInv, TypeOK, Requests
  <2> QED BY <2>1, <2>2
<1>8. AnswersMatch' /\ Unsent'
  <2>1. r \in Sent BY <1>2 DEF Pending
  <2> QED BY <1>6, <1>7, <2>1 DEF Alone, AnswersMatch, Unsent
<1>9. OneOpen' BY <1>1 DEF Alone, OneOpen
<1> QED BY <1>1, <1>2, <1>5, <1>8, <1>9 DEF Alone, InQueue

LEMMA RestartAlone ==
  ASSUME Alone, Restart
  PROVE  Alone'
<1>1. /\ UNCHANGED <<segOf, request, order, answer>>
      /\ mq' = << >> /\ mq_data_queue' = << >> /\ pc' = StartPc
  BY DEF Restart
<1>2. pc'["main"] = "receive" /\ \A w \in Workers : pc'[w] = "lock"
  BY <1>1, QueueAssumption DEF StartPc, Procs
<1>3. InDaemon' BY <1>1, <1>2 DEF InDaemon, InMain, Entered, With, MainBusy, Full, Woken
<1> QED BY <1>1, <1>3, DaemonKeeps DEF Alone, InQueue

(* One process moves to a label that means no more than its old one. *)
LEMMA MoveAlone ==
  ASSUME TypeInv, Alone, NEW p \in Procs, NEW l, pc' = [pc EXCEPT ![p] = l],
         UNCHANGED <<segOf, order, request, answer, mq, slot, mq_data_queue, locals>>,
         p = "main" => (l \in {"copy_path", "copy_fldes"} \cup Full => MainBusy),
         p # "main" => (l \in Woken => pc[p] \in Woken) /\ l \notin {"open", "serve"}
  PROVE  Alone'
<1>1. /\ pc \in [Procs -> Labels] /\ "main" \in Procs
      /\ Workers \subseteq Procs /\ "main" \notin Workers
  BY QueueAssumption DEF TypeInv, TypeOK, Procs
<1>2. MainBusy' => MainBusy BY <1>1 DEF MainBusy
<1>3. \A w \in Workers : /\ pc'[w] \in Woken => pc[w] \in Woken
                         /\ pc'[w] \in {"open", "serve"} => pc[w] \in {"open", "serve"}
                         /\ pc'[w] = "serve" => pc[w] = "serve"
  BY <1>1
<1> QED BY <1>2, <1>3, QuietAlone

LEMMA StepAlone ==
  ASSUME OneAtATime, TypeInv, Ordered, Alone, [Next]_vars
  PROVE  Alone'
<1> USE DEF slot, queue, locals, proxy
<1>1. "main" \in Procs /\ Workers \subseteq Procs /\ "main" \notin Workers
  BY QueueAssumption DEF Procs
<1>2. ASSUME NEW p \in Procs, Lock(p) PROVE Alone'
  <2>1. p = "main" => MainBusy BY <1>2 DEF Lock, MainBusy, Full
  <2> QED BY MoveAlone, <1>2, <2>1 DEF Lock, Woken
<1>3. ASSUME NEW p \in Procs, Unlock(p) PROVE Alone'
  BY MoveAlone, <1>3 DEF Unlock, Goto, Full, Woken
<1>4. CASE MainCheck
  <2>1. PICK l \in {"wait", "enqueue"} : pc' = [pc EXCEPT !["main"] = l]
    BY <1>4 DEF MainCheck
  <2>2. MainBusy BY <1>4 DEF MainCheck, MainBusy, Full
  <2> QED BY MoveAlone, <1>1, <1>4, <2>1, <2>2 DEF MainCheck
<1>5. CASE MainBroadcast
  BY MoveAlone, <1>1, <1>5 DEF MainBroadcast, Goto, Full
<1>6. ASSUME NEW w \in Workers, WorkerCheck(w) PROVE Alone'
  <2>1. PICK l \in {"wait", "pop"} : pc' = [pc EXCEPT ![w] = l]
    BY <1>6 DEF WorkerCheck
  <2> QED BY MoveAlone, <1>1, <1>6, <2>1 DEF WorkerCheck, Woken
<1>7. ASSUME NEW w \in Workers, WorkerSignal(w) PROVE Alone'
  BY MoveAlone, <1>1, <1>7 DEF WorkerSignal, Goto, Woken
<1>8. ASSUME UNCHANGED <<segOf, order, request, answer, mq, slot, mq_data_queue, locals, pc>>
      PROVE  Alone'
  BY <1>8, QuietAlone DEF MainBusy
<1>9. ASSUME NEW p \in Procs, SpuriousWakeup(p) PROVE Alone'
  BY <1>8, <1>9 DEF SpuriousWakeup
<1>10. CASE UNCHANGED vars BY <1>8, <1>10 DEF vars
<1>11. ASSUME NEW t \in Threads, OpenQueue(t) \/ SendLost(t) PROVE Alone'
  BY <1>8, <1>11 DEF OpenQueue, SendLost
<1> QED
  BY <1>2, <1>3, <1>4, <1>5, <1>6, <1>7, <1>9, <1>10, <1>11, IssueAlone, SendAlone, CompleteAlone,
     ReceiveAlone, CopyAlone, EnqueueAlone, PopAlone, ReadAlone, ServeAlone, RestartAlone
  DEF Next, Main, Worker, Proxy

(* A proxy that has one request outstanding at a time (one segment, or one  *)
(* thread) is answered with the file it asked for, whatever the capacities, *)
(* the workers, the wakeups and the restarts of the daemon: the shared      *)
(* variable of simplecached.c is harmless there, and only there (with two   *)
(* requests outstanding AnswersMatch fails).                                *)
THEOREM AnswersMatchAlone ==
  ASSUME OneAtATime
  PROVE  Spec => []AnswersMatch
<1>1. Init => Alone
  <2> SUFFICES ASSUME Init PROVE Alone
    OBVIOUS
  <2>1. Requests = {} BY DEF Init, Requests
  <2>2. pc["main"] = "receive" /\ \A w \in Workers : pc[w] = "lock"
    BY QueueAssumption DEF Init, StartPc, Procs
  <2>3. OneOpen /\ AnswersMatch /\ Unsent BY <2>1 DEF Init, OneOpen, AnswersMatch, Unsent
  <2>4. InDaemon BY <2>2 DEF Init, InDaemon, InMain, Entered, With, MainBusy, Full, Woken
  <2> QED BY <2>3, <2>4 DEF Init, Alone, InQueue
<1>2. TypeInv /\ Ordered /\ Alone /\ [Next]_vars => Alone'
  BY StepAlone
<1>3. Alone => AnswersMatch BY DEF Alone
<1> QED BY <1>1, <1>2, <1>3, Order, PTL DEF Spec

=============================================================================
