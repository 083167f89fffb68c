----------------------------- MODULE CacheQueue ------------------------------
(***************************************************************************)
(* How requests travel from the proxy's worker threads to those of the     *)
(* cache daemon (proj3/simplecached.c): a POSIX message queue, the main    *)
(* thread that receives each message into ITS local variable "data" and    *)
(* enqueues the address of that variable, and the workers that pop the     *)
(* address and read the path and the segment name through it.  Every entry *)
(* of the queue is the same pointer, so a worker reads whatever the main   *)
(* thread received last.                                                   *)
(*                                                                         *)
(* A request is a number; request r asks for a file of its own, and        *)
(* segOf[r] is the segment its thread took from the pool (SegmentPool      *)
(* gives a segment to one thread at a time).                               *)
(***************************************************************************)
EXTENDS Integers, Sequences, FiniteSets

CONSTANTS
  Threads,      (* worker threads of the proxy                              *)
  Segments,     (* segment names                                            *)
  Workers,      (* worker threads of the cache                              *)
  mq_maxmsg,    (* capacity of the message queue (10 in the code)           *)
  MAX_CACHE_REQUEST_LEN,   (* capacity of mq_data_queue (256 in the code)   *)
  MaxRequests,  (* bound of the model: requests issued                      *)
  MaxRestarts   (* bound of the model: restarts of the daemon               *)

ASSUME QueueAssumption ==
  /\ "main" \notin Workers /\ "free" \notin Workers
  /\ mq_maxmsg \in Nat \ {0} /\ MAX_CACHE_REQUEST_LEN \in Nat \ {0}
  /\ MaxRequests \in Nat /\ MaxRestarts \in Nat

VARIABLES
  segOf,          (* segOf[r]: the segment of request r                     *)
  request,        (* request[t]: the request thread t has open, or 0        *)
  mqd,            (* mqd[r]: how far handle_with_cache is with the message  *)
                  (* queue for request r: "none", "open", "old" (open, but  *)
                  (* unlinked by a restart since) or "closed"               *)
  order,          (* order[r]: r was the n-th request sent; 0: not sent yet *)
  answer,         (* answer[r]: the request whose file was put into the     *)
                  (* segment of r, NoFile, or Unanswered                    *)
  mq,             (* the POSIX message queue                                *)
  msg,            (* the message mq_receive is copying                      *)
  data,           (* main's variable: whose path and whose fldes it holds   *)
  mq_data_queue,  (* one entry per enqueued &data: the request it was for   *)
  steq_size,
  msgq_mutex, write_cond, read_cond,
  pc,             (* control of the workers and of "main"                   *)
  ticket,         (* ticket[w]: the request the entry w popped was for      *)
  path,           (* path[w]: the request whose file w looked up            *)
  opened,         (* opened[w]: the request whose segment w opened          *)
  restarts

proxy  == <<segOf, request, mqd, order>>
slot   == <<msg, data>>
queue  == <<mq_data_queue, steq_size>>
sync   == <<msgq_mutex, write_cond, read_cond>>
locals == <<ticket, path, opened>>
vars   == <<proxy, answer, mq, slot, queue, sync, pc, locals, restarts>>

Unanswered == -1
NoFile     == 0     (* also: a path half overwritten, which names no file   *)
Requests   == 1 .. Len(segOf)
Procs      == Workers \cup {"main"}

(* The open request that uses segment s: its shared-memory object exists.   *)
Current(s) == {r \in Requests : segOf[r] = s /\ \E t \in Threads : request[t] = r}

(* The daemon's state when it starts. *)
EmptySlot == [path |-> NoFile, fldes |-> 0]
StartPc   == [p \in Procs |-> IF p = "main" THEN "receive" ELSE "lock"]
Unset     == [w \in Workers |-> 0]

Init ==
  /\ segOf = << >> /\ mqd = << >> /\ order = << >> /\ answer = << >>
  /\ request = [t \in Threads |-> 0]
  /\ mq = << >> /\ msg = 0 /\ data = EmptySlot
  /\ mq_data_queue = << >> /\ steq_size = 0
  /\ msgq_mutex = "free" /\ write_cond = {} /\ read_cond = {}
  /\ pc = StartPc
  /\ ticket = Unset /\ path = Unset /\ opened = Unset
  /\ restarts = 0

-----------------------------------------------------------------------------
(* The proxy, as handle_with_cache uses the queue. *)

(* A thread takes a free segment and creates its object. *)
Issue(t, s) ==
  /\ request[t] = 0 /\ Current(s) = {}
  /\ Len(segOf) < MaxRequests
  /\ segOf' = Append(segOf, s)
  /\ request' = [request EXCEPT ![t] = Len(segOf) + 1]
  /\ mqd' = Append(mqd, "none") /\ order' = Append(order, 0)
  /\ answer' = Append(answer, Unanswered)
  /\ UNCHANGED <<mq, slot, queue, sync, pc, locals, restarts>>

(* mq_open, repeated until it works. *)
OpenQueue(t) ==
  /\ request[t] # 0 /\ mqd[request[t]] = "none"
  /\ mqd' = [mqd EXCEPT ![request[t]] = "open"]
  /\ UNCHANGED <<segOf, request, order, answer, mq, slot, queue, sync, pc, locals, restarts>>

(* mq_send, which blocks while the message queue is full, and mq_close. *)
Send(t) ==
  /\ request[t] # 0 /\ mqd[request[t]] = "open" /\ Len(mq) < mq_maxmsg
  /\ mq' = Append(mq, request[t])
  /\ mqd' = [mqd EXCEPT ![request[t]] = "closed"]
  /\ order' = [order EXCEPT ![request[t]] = Cardinality({r \in Requests : order[r] # 0}) + 1]
  /\ UNCHANGED <<segOf, request, answer, slot, queue, sync, pc, locals, restarts>>

(* The message goes to a queue nobody receives from any more, or mq_send    *)
(* fails, which is only logged: the thread waits for an answer all the same. *)
SendLost(t) ==
  /\ request[t] # 0 /\ mqd[request[t]] \in {"open", "old"}
  /\ mqd' = [mqd EXCEPT ![request[t]] = "closed"]
  /\ UNCHANGED <<segOf, request, order, answer, mq, slot, queue, sync, pc, locals, restarts>>

(* Mutant: the thread gives up before it is answered. *)
Mutant_GivesUp(t) ==
  /\ request[t] # 0 /\ order[request[t]] # 0
  /\ request' = [request EXCEPT ![t] = 0]
  /\ UNCHANGED <<segOf, mqd, order, answer, mq, slot, queue, sync, pc, locals, restarts>>

(* The conversation over the segment (ShmChannel) ended: the object is      *)
(* unlinked and its name free again.                                        *)
Complete(t) ==
  /\ request[t] # 0 /\ mqd[request[t]] = "closed" /\ answer[request[t]] # Unanswered
  /\ request' = [request EXCEPT ![t] = 0]
  /\ UNCHANGED <<segOf, mqd, order, answer, mq, slot, queue, sync, pc, locals, restarts>>

-----------------------------------------------------------------------------
(* Steps of a thread of the daemon. *)

Goto(p, from, to) ==
  /\ pc[p] = from
  /\ pc' = [pc EXCEPT ![p] = to]

(* Mutant: the waits sit in an if, not in a while. *)
Mutant_NoRecheck(p) ==
  /\ pc[p] \in {"lock", "wait"} /\ p \notin write_cond \cup read_cond
  /\ msgq_mutex = "free"
  /\ msgq_mutex' = p
  /\ pc' = [pc EXCEPT ![p] = IF pc[p] = "lock" THEN "check"
                             ELSE IF p = "main" THEN "enqueue" ELSE "pop"]
  /\ UNCHANGED <<proxy, answer, mq, slot, queue, write_cond, read_cond, locals, restarts>>

(* pthread_mutex_lock, and the return from pthread_cond_wait. *)
Lock(p) ==
  /\ pc[p] \in {"lock", "wait"} /\ p \notin write_cond \cup read_cond
  /\ msgq_mutex = "free"
  /\ msgq_mutex' = p
  /\ pc' = [pc EXCEPT ![p] = "check"]
  /\ UNCHANGED <<proxy, answer, mq, slot, queue, write_cond, read_cond, locals, restarts>>

Unlock(p) ==
  /\ Goto(p, "unlock", "notify")
  /\ msgq_mutex' = "free"
  /\ UNCHANGED <<proxy, answer, mq, slot, queue, write_cond, read_cond, locals, restarts>>

(* main: mq_receive writes into data before main takes the mutex, field     *)
(* after field.  While the path is being written it names no file.          *)
Receive ==
  /\ mq # << >>
  /\ Goto("main", "receive", "copy_path")
  /\ msg' = Head(mq) /\ mq' = Tail(mq)
  /\ data' = [data EXCEPT !.path = NoFile]
  /\ UNCHANGED <<proxy, answer, queue, sync, locals, restarts>>

CopyPath ==
  /\ Goto("main", "copy_path", "copy_fldes")
  /\ data' = [data EXCEPT !.path = msg]
  /\ UNCHANGED <<proxy, answer, mq, msg, queue, sync, locals, restarts>>

(* Mutant: the segment name is not copied. *)
Mutant_NoFldes ==
  /\ Goto("main", "copy_fldes", "lock")
  /\ data' = [data EXCEPT !.fldes = @]
  /\ UNCHANGED <<proxy, answer, mq, msg, queue, sync, locals, restarts>>

CopyFldes ==
  /\ Goto("main", "copy_fldes", "lock")
  /\ data' = [data EXCEPT !.fldes = msg]
  /\ UNCHANGED <<proxy, answer, mq, msg, queue, sync, locals, restarts>>

(* Mutant: main waits on the workers' condition variable. *)
Mutant_WrongWait ==
  /\ pc["main"] = "check"
  /\ IF steq_size = MAX_CACHE_REQUEST_LEN
       THEN /\ pc' = [pc EXCEPT !["main"] = "wait"]
            /\ write_cond' = write_cond \cup {"main"}
            /\ msgq_mutex' = "free"
       ELSE /\ pc' = [pc EXCEPT !["main"] = "enqueue"]
            /\ UNCHANGED <<write_cond, msgq_mutex>>
  /\ UNCHANGED <<proxy, answer, mq, slot, queue, read_cond, locals, restarts>>

MainCheck ==
  /\ pc["main"] = "check"
  /\ IF steq_size = MAX_CACHE_REQUEST_LEN
       THEN /\ pc' = [pc EXCEPT !["main"] = "wait"]
            /\ read_cond' = read_cond \cup {"main"}
            /\ msgq_mutex' = "free"
       ELSE /\ pc' = [pc EXCEPT !["main"] = "enqueue"]
            /\ UNCHANGED <<read_cond, msgq_mutex>>
  /\ UNCHANGED <<proxy, answer, mq, slot, queue, write_cond, locals, restarts>>

Enqueue ==
  /\ Goto("main", "enqueue", "unlock")
  /\ mq_data_queue' = Append(mq_data_queue, msg)
  /\ steq_size' = steq_size + 1
  /\ UNCHANGED <<proxy, answer, mq, slot, sync, locals, restarts>>

(* Mutant: main broadcasts its own condition variable. *)
Mutant_WrongBroadcast ==
  /\ Goto("main", "notify", "receive")
  /\ read_cond' = {}
  /\ UNCHANGED <<proxy, answer, mq, slot, queue, msgq_mutex, write_cond, locals, restarts>>

MainBroadcast ==
  /\ Goto("main", "notify", "receive")
  /\ write_cond' = {}
  /\ UNCHANGED <<proxy, answer, mq, slot, queue, msgq_mutex, read_cond, locals, restarts>>

(* cache_worker. *)
WorkerCheck(w) ==
  /\ pc[w] = "check"
  /\ IF steq_size = 0
       THEN /\ pc' = [pc EXCEPT ![w] = "wait"]
            /\ write_cond' = write_cond \cup {w}
            /\ msgq_mutex' = "free"
       ELSE /\ pc' = [pc EXCEPT ![w] = "pop"]
            /\ UNCHANGED <<write_cond, msgq_mutex>>
  /\ UNCHANGED <<proxy, answer, mq, slot, queue, read_cond, locals, restarts>>

(* steque_pop ends the process if the queue is empty (QueueExact: it is not). *)
Pop(w) ==
  /\ mq_data_queue # << >>
  /\ Goto(w, "pop", "unlock")
  /\ ticket' = [ticket EXCEPT ![w] = Head(mq_data_queue)]
  /\ mq_data_queue' = Tail(mq_data_queue)
  /\ steq_size' = steq_size - 1
  /\ UNCHANGED <<proxy, answer, mq, slot, sync, path, opened, restarts>>

WorkerSignal(w) ==
  /\ Goto(w, "notify", "get")
  /\ read_cond' = {}
  /\ UNCHANGED <<proxy, answer, mq, slot, queue, msgq_mutex, write_cond, locals, restarts>>

(* simplecache_get(msg->path). *)
GetFile(w) ==
  /\ Goto(w, "get", "open")
  /\ path' = [path EXCEPT ![w] = data.path]
  /\ UNCHANGED <<proxy, answer, mq, slot, queue, sync, ticket, opened, restarts>>

(* shm_open(msg->fldes), retried (and msg->fldes read again) until it works. *)
OpenSegment(w) ==
  /\ data.fldes # 0 /\ Current(segOf[data.fldes]) # {}
  /\ Goto(w, "open", "serve")
  /\ opened' = [opened EXCEPT ![w] = CHOOSE r \in Current(segOf[data.fldes]) : TRUE]
  /\ UNCHANGED <<proxy, answer, mq, slot, queue, sync, ticket, path, restarts>>

(* The file, or -1, goes into the segment the worker opened.  The first     *)
(* worker to do so is the one the proxy hears.  The transfer is ShmChannel: *)
(* it may never end, which no fairness here excludes.                       *)
Serve(w) ==
  /\ Goto(w, "serve", "lock")
  /\ answer' = IF answer[opened[w]] = Unanswered
               THEN [answer EXCEPT ![opened[w]] = path[w]] ELSE answer
  /\ UNCHANGED <<proxy, mq, slot, queue, sync, locals, restarts>>

SpuriousWakeup(p) ==
  /\ p \in write_cond \cup read_cond
  /\ write_cond' = write_cond \ {p} /\ read_cond' = read_cond \ {p}
  /\ UNCHANGED <<proxy, answer, mq, slot, queue, msgq_mutex, pc, locals, restarts>>

(* The daemon is stopped by a signal (the message queue is unlinked) and    *)
(* started again with a new one: what it had received and what it had not   *)
(* is gone, and who has the old queue open sends to nobody.                 *)
Restart ==
  /\ restarts < MaxRestarts
  /\ restarts' = restarts + 1
  /\ mq' = << >> /\ msg' = 0 /\ data' = EmptySlot
  /\ mq_data_queue' = << >> /\ steq_size' = 0
  /\ msgq_mutex' = "free" /\ write_cond' = {} /\ read_cond' = {}
  /\ pc' = StartPc
  /\ ticket' = Unset /\ path' = Unset /\ opened' = Unset
  /\ mqd' = [r \in Requests |-> IF mqd[r] = "open" THEN "old" ELSE mqd[r]]
  /\ UNCHANGED <<segOf, request, order, answer>>

-----------------------------------------------------------------------------
Main == Receive \/ CopyPath \/ CopyFldes \/ MainCheck \/ Enqueue \/ MainBroadcast

Worker(w) ==
  \/ WorkerCheck(w) \/ Pop(w) \/ WorkerSignal(w)
  \/ GetFile(w) \/ OpenSegment(w)

Proxy(t) == OpenQueue(t) \/ Send(t) \/ SendLost(t) \/ Complete(t)

Next ==
  \/ Main \/ \E w \in Workers : Worker(w) \/ Serve(w)
  \/ \E p \in Procs : Lock(p) \/ Unlock(p) \/ SpuriousWakeup(p)
  \/ \E t \in Threads : Proxy(t) \/ \E s \in Segments : Issue(t, s)
  \/ Restart

Spec == Init /\ [][Next]_vars

(* All threads run, and get the mutex if it is free again and again; mq_open *)
(* succeeds, mq_send unblocks when there is room.  Requests need not come,  *)
(* nor restarts; and nothing says that a transfer ends (Serve).             *)
FairSpec ==
  /\ Spec
  /\ WF_vars(Main) /\ \A w \in Workers : WF_vars(Worker(w))
  /\ \A p \in Procs : SF_vars(Lock(p)) /\ WF_vars(Unlock(p))
  /\ \A t \in Threads : WF_vars(OpenQueue(t) \/ Complete(t)) /\ SF_vars(Send(t))

-----------------------------------------------------------------------------
Labels == {"receive", "copy_path", "copy_fldes", "lock", "check", "wait", "enqueue",
           "pop", "unlock", "notify", "get", "open", "serve"}

TypeOK ==
  /\ segOf \in Seq(Segments)
  /\ request \in [Threads -> Requests \cup {0}]
  /\ mqd \in Seq({"none", "open", "old", "closed"}) /\ Len(mqd) = Len(segOf)
  /\ order \in Seq(Nat) /\ Len(order) = Len(segOf)
  /\ answer \in Seq(Nat \cup {Unanswered}) /\ Len(answer) = Len(segOf)
  /\ mq \in Seq(Requests) /\ Len(mq) <= mq_maxmsg
  /\ msg \in Requests \cup {0}
  /\ data \in [path : Requests \cup {0}, fldes : Requests \cup {0}]
  /\ mq_data_queue \in Seq(Requests) /\ steq_size \in Nat
  /\ msgq_mutex \in Procs \cup {"free"}
  /\ write_cond \subseteq Workers /\ read_cond \subseteq {"main"}
  /\ pc \in [Procs -> Labels]
  /\ ticket \in [Workers -> Requests \cup {0}]
  /\ path \in [Workers -> Requests \cup {0}]
  /\ opened \in [Workers -> Requests \cup {0}]
  /\ restarts \in Nat

(* The counter follows the queue within its limits, and the answer a thread *)
(* got from its check still holds when it pops or enqueues: steque_pop never *)
(* meets an empty queue.                                                    *)
QueueExact ==
  /\ steq_size = Len(mq_data_queue) /\ steq_size <= MAX_CACHE_REQUEST_LEN
  /\ pc["main"] = "enqueue" => steq_size < MAX_CACHE_REQUEST_LEN
  /\ \A w \in Workers : pc[w] = "pop" => mq_data_queue # << >>

(* No lost wakeup, although both notifications come after the unlock and a  *)
(* worker only signals: a worker asleep beside a filled queue, or main      *)
(* asleep beside one with room, has a notification still coming.            *)
NoLostWakeup ==
  /\ write_cond # {} /\ mq_data_queue # << >> => pc["main"] \in {"unlock", "notify"}
  /\ read_cond # {} /\ steq_size < MAX_CACHE_REQUEST_LEN =>
       \E w \in Workers : pc[w] \in {"unlock", "notify"}

(* The shared variable only runs ahead: a worker may read the path or the   *)
(* segment of a request sent later than the one it was woken for, never of  *)
(* an earlier one, and no entry is behind what data holds.                  *)
NotBefore(r, q) == r \in Requests /\ order[r] >= order[q]

NeverStale ==
  /\ \A w \in Workers :
       /\ pc[w] = "get" => data.path = NoFile \/ NotBefore(data.path, ticket[w])
       /\ pc[w] \in {"open", "serve"} =>
            /\ path[w] = NoFile \/ NotBefore(path[w], ticket[w])
            /\ NotBefore(data.fldes, ticket[w])
  /\ \A i \in DOMAIN mq_data_queue : NotBefore(data.fldes, mq_data_queue[i])

(* No request is answered with the file of another, or with "not found" for *)
(* a file the cache has.  "Cache receives the message ... and puts the      *)
(* message queue data to its own stack" (proj3readme.pdf, flow 3).          *)
AnswersMatch == \A r \in Requests : answer[r] \in {Unanswered, r}

(* Every request whose message was delivered comes, with its own file and   *)
(* its own segment, to a worker that then transfers it ("start over for the *)
(* next incoming request", proj3readme.pdf, flow 7), or was answered.  No   *)
(* thread of the proxy or of the daemon sleeps for ever before that; that   *)
(* the transfer itself ends is not said (channel_found shows it may not).   *)
AtWork(r)  == \E w \in Workers : pc[w] = "serve" /\ opened[w] = r /\ path[w] = r
Unheard(r) == mqd[r] = "closed" /\ order[r] = 0

AllServed ==
  \A r \in 1 .. MaxRequests :
    r \in Requests ~>
      r \in Requests /\ (AtWork(r) \/ Unheard(r) \/ answer[r] # Unanswered)

=============================================================================
