----------------------------- MODULE SegmentPool -----------------------------
(***************************************************************************)
(* The pool of shared-memory segment names of the web proxy                *)
(* (proj3/handle_with_cache.c) and its life cycle (proj3/webproxy.c).      *)
(* A proxy worker thread that handles a request takes a name from          *)
(* fldes_queue, creates the shared-memory object of that name, talks to    *)
(* the cache over it (module ShmChannel), unlinks it and puts the name     *)
(* back.  The pool is a bounded queue guarded by fldes_mutex with two      *)
(* condition variables: read_cond (a name is available) and write_cond     *)
(* (there is room for a name).                                             *)
(*                                                                         *)
(* A condition variable is the set of threads blocked on it and not yet    *)
(* signalled; a signalled or spuriously woken thread stays at its wait     *)
(* label until it owns the mutex again.                                    *)
(***************************************************************************)
EXTENDS Integers, Sequences, FiniteSets

CONSTANTS
  Threads,    (* the worker threads of the proxy (option -t)                *)
  NoThread,   (* "the mutex is free"                                        *)
  segments    (* number of segments (option -n)                             *)

ASSUME PoolAssumption ==
  /\ Threads # {} /\ NoThread \notin Threads
  /\ segments \in Nat

(* The names "/sharedmpath0", "/sharedmpath1", ... by their number. *)
Segments == 0 .. (segments - 1)

(* A local variable fldes that has not been assigned yet. *)
NoSegment == -1

max_fldes_queue_size == segments

VARIABLES
  fldes_mutex,       (* owner of the mutex                                  *)
  read_cond,         (* threads blocked on read_cond                        *)
  write_cond,        (* threads blocked on write_cond                       *)
  fldes_queue,       (* names of the free segments                          *)
  fldes_queue_size,  (* the counter kept beside the queue                   *)
  fldes,             (* fldes[t]: the name thread t took                    *)
  pc,
  shm,               (* names of the existing shared-memory objects         *)
  lost,              (* names whose thread returned without giving them back *)
  size               (* local of the signal handler; -1 while it is not running *)

sync  == <<fldes_mutex, read_cond, write_cond>>
queue == <<fldes_queue, fldes_queue_size>>
vars  == <<sync, queue, fldes, pc, shm, lost, size>>

(* Labels at which a thread owns fldes_mutex. *)
Critical == {"acq_check", "acq_pop", "acq_unlock",
             "rel_check", "rel_enqueue", "rel_unlock"}

(* Labels at which a thread holds a segment name of its own, and those of   *)
(* them at which the object of that name exists.                            *)
Serving == {"serve", "unlink"}
Holding == {"acq_unlock", "acq_bcast", "create", "rel_lock", "rel_check",
            "rel_wait", "rel_enqueue"} \cup Serving

Labels == Critical \cup Holding \cup
          {"idle", "acq_lock", "acq_wait", "rel_bcast", "down"}

Elements(q) == {q[i] : i \in DOMAIN q}
Distinct(q) == \A i, j \in DOMAIN q : i # j => q[i] # q[j]

Held == {fldes[t] : t \in {u \in Threads : pc[u] \in Holding}}

Stopping == size >= 0

Goto(t, from, to) ==
  /\ pc[t] = from
  /\ pc' = [pc EXCEPT ![t] = to]

-----------------------------------------------------------------------------
(* init_proxy: every name is unlinked and enqueued, in order. *)
Init ==
  /\ fldes_mutex = NoThread
  /\ read_cond = {} /\ write_cond = {}
  /\ fldes_queue = [i \in 1 .. segments |-> i - 1]
  /\ fldes_queue_size = segments
  /\ fldes = [t \in Threads |-> NoSegment]
  /\ pc = [t \in Threads |-> "idle"]
  /\ shm = {}
  /\ lost = {}
  /\ size = -1

(* The process is gone: its threads are, and the names it had unlinked.     *)
ProcessExit(unlinked) ==
  /\ pc' = [t \in Threads |-> "down"]
  /\ shm' = shm \ unlinked
  /\ size' = -1
  /\ UNCHANGED <<sync, queue, fldes, lost>>

-----------------------------------------------------------------------------
(* handle_with_cache: taking a name from the pool. *)

(* The request server hands a request to an idle worker thread. *)
Request(t) ==
  /\ Goto(t, "idle", "acq_lock")
  /\ UNCHANGED <<sync, queue, fldes, shm, lost, size>>

(* pthread_mutex_lock, or the return from pthread_cond_wait of a thread that *)
(* is no longer blocked: the thread waits until it owns the mutex.          *)
Lock(t, from, to) ==
  /\ t \notin read_cond \cup write_cond
  /\ fldes_mutex = NoThread
  /\ fldes_mutex' = t
  /\ pc[t] \in from
  /\ pc' = [pc EXCEPT ![t] = to]
  /\ UNCHANGED <<read_cond, write_cond, queue, fldes, shm, lost, size>>

(* Mutant: the wait sits in an if, not in a while. *)
Mutant_NoRecheck(t) ==
  Lock(t, {"acq_lock"}, "acq_check") \/ Lock(t, {"acq_wait"}, "acq_pop")

AcqLock(t) == Lock(t, {"acq_lock", "acq_wait"}, "acq_check")

AcqWait(t) ==
  /\ fldes_queue_size = 0
  /\ Goto(t, "acq_check", "acq_wait")
  /\ read_cond' = read_cond \cup {t}
  /\ fldes_mutex' = NoThread
  /\ UNCHANGED <<write_cond, queue, fldes, shm, lost, size>>

AcqAvailable(t) ==
  /\ fldes_queue_size # 0
  /\ Goto(t, "acq_check", "acq_pop")
  /\ UNCHANGED <<sync, queue, fldes, shm, lost, size>>

(* Mutant: the front of the queue is read but not removed. *)
Mutant_Peek(t) ==
  /\ fldes_queue # << >>
  /\ Goto(t, "acq_pop", "acq_unlock")
  /\ fldes' = [fldes EXCEPT ![t] = Head(fldes_queue)]
  /\ fldes_queue_size' = fldes_queue_size - 1
  /\ UNCHANGED <<sync, fldes_queue, shm, lost, size>>

(* Mutant: the popped name is not assigned. *)
Mutant_PopDiscards(t) ==
  /\ fldes_queue # << >>
  /\ Goto(t, "acq_pop", "acq_unlock")
  /\ fldes_queue' = Tail(fldes_queue)
  /\ fldes_queue_size' = fldes_queue_size - 1
  /\ UNCHANGED <<sync, fldes, shm, lost, size>>

AcqPop(t) ==
  /\ fldes_queue # << >>
  /\ Goto(t, "acq_pop", "acq_unlock")
  /\ fldes' = [fldes EXCEPT ![t] = Head(fldes_queue)]
  /\ fldes_queue' = Tail(fldes_queue)
  /\ fldes_queue_size' = fldes_queue_size - 1
  /\ UNCHANGED <<sync, shm, lost, size>>

(* steque_pop of an empty queue ends the process. *)
AcqUnderflow(t) ==
  /\ fldes_queue = << >>
  /\ pc[t] = "acq_pop"
  /\ ProcessExit({})

Unlock(t, from, to) ==
  /\ fldes_mutex' = NoThread
  /\ Goto(t, from, to)
  /\ UNCHANGED <<read_cond, write_cond, queue, fldes, shm, lost, size>>

AcqUnlock(t) == Unlock(t, "acq_unlock", "acq_bcast")

AcqBroadcast(t) ==
  /\ Goto(t, "acq_bcast", "create")
  /\ write_cond' = {}
  /\ UNCHANGED <<fldes_mutex, read_cond, queue, fldes, shm, lost, size>>

-----------------------------------------------------------------------------
(* The life of the shared-memory object. *)

(* create_shm_channel: shm_unlink, then shm_open with O_CREAT | O_EXCL. *)
Create(t) ==
  /\ Goto(t, "create", "serve")
  /\ shm' = (shm \ {fldes[t]}) \cup {fldes[t]}
  /\ UNCHANGED <<sync, queue, fldes, lost, size>>

(* Mutant: one return path forgets destroy_shm_seg. *)
Mutant_NoDestroy(t) ==
  /\ Goto(t, "serve", "idle")
  /\ UNCHANGED <<sync, queue, fldes, shm, lost, size>>

(* The conversation with the cache and the client ends (ShmChannel). *)
Served(t) ==
  /\ Goto(t, "serve", "unlink")
  /\ UNCHANGED <<sync, queue, fldes, shm, lost, size>>

(* gfs_send comes back short: the handler returns without destroy_shm_seg.  *)
SendFails(t) ==
  /\ Goto(t, "serve", "idle")
  /\ lost' = lost \cup {fldes[t]}
  /\ UNCHANGED <<sync, queue, fldes, shm, size>>

-----------------------------------------------------------------------------
(* destroy_shm_seg: unlinking the object and giving the name back. *)

(* Mutant: the object is left in place. *)
Mutant_NoUnlink(t) ==
  /\ Goto(t, "unlink", "rel_lock")
  /\ UNCHANGED <<sync, queue, fldes, shm, lost, size>>

Unlink(t) ==
  /\ Goto(t, "unlink", "rel_lock")
  /\ shm' = shm \ {fldes[t]}
  /\ UNCHANGED <<sync, queue, fldes, lost, size>>

RelLock(t) == Lock(t, {"rel_lock", "rel_wait"}, "rel_check")

(* The while loop around the wait on write_cond. *)
RelCheck(t) ==
  /\ pc[t] = "rel_check"
  /\ IF fldes_queue_size = max_fldes_queue_size
       THEN /\ pc' = [pc EXCEPT ![t] = "rel_wait"]
            /\ write_cond' = write_cond \cup {t}
            /\ fldes_mutex' = NoThread
       ELSE /\ pc' = [pc EXCEPT ![t] = "rel_enqueue"]
            /\ UNCHANGED <<write_cond, fldes_mutex>>
  /\ UNCHANGED <<read_cond, queue, fldes, shm, lost, size>>

RelEnqueue(t) ==
  /\ Goto(t, "rel_enqueue", "rel_unlock")
  /\ fldes_queue' = Append(fldes_queue, fldes[t])
  /\ fldes_queue_size' = fldes_queue_size + 1
  /\ UNCHANGED <<sync, fldes, shm, lost, size>>

RelUnlock(t) == Unlock(t, "rel_unlock", "rel_bcast")

(* Mutant: the other condition variable is broadcast. *)
Mutant_WrongCond(t) ==
  /\ Goto(t, "rel_bcast", "idle")
  /\ write_cond' = {}
  /\ UNCHANGED <<fldes_mutex, read_cond, queue, fldes, shm, lost, size>>

RelBroadcast(t) ==
  /\ Goto(t, "rel_bcast", "idle")
  /\ read_cond' = {}
  /\ UNCHANGED <<fldes_mutex, write_cond, queue, fldes, shm, lost, size>>

-----------------------------------------------------------------------------
(* pthread_cond_wait may return without a signal. *)
SpuriousWakeup(t) ==
  /\ t \in read_cond \cup write_cond
  /\ read_cond' = read_cond \ {t}
  /\ write_cond' = write_cond \ {t}
  /\ UNCHANGED <<fldes_mutex, queue, fldes, pc, shm, lost, size>>

(* _proxy_sig_handler: reads the queue's own size, then pops and unlinks    *)
(* one name after the other.  It takes no lock and leaves fldes_queue_size  *)
(* alone, while the worker threads go on.                                   *)
SigStart ==
  /\ ~Stopping
  /\ \A t \in Threads : pc[t] # "down"
  /\ size' = Len(fldes_queue)
  /\ UNCHANGED <<sync, queue, fldes, pc, shm, lost>>

SigPop ==
  /\ size > 0 /\ fldes_queue # << >>
  /\ size' = size - 1
  /\ shm' = shm \ {Head(fldes_queue)}
  /\ fldes_queue' = Tail(fldes_queue)
  /\ UNCHANGED <<sync, fldes_queue_size, fldes, pc, lost>>

(* The handler's pop and that of a worker in its critical section may both  *)
(* read the same front node: the worker is handed the name as well.         *)
SigPopRace(t) ==
  /\ size > 0 /\ fldes_queue # << >>
  /\ Goto(t, "acq_pop", "acq_unlock")
  /\ size' = size - 1
  /\ shm' = shm \ {Head(fldes_queue)}
  /\ fldes' = [fldes EXCEPT ![t] = Head(fldes_queue)]
  /\ fldes_queue' = Tail(fldes_queue)
  /\ fldes_queue_size' = fldes_queue_size - 1
  /\ UNCHANGED <<sync, lost>>

(* The handler exits after its loop, or in steque_pop if workers emptied    *)
(* the queue under it.                                                      *)
SigExit ==
  /\ Stopping
  /\ size = 0 \/ fldes_queue = << >>
  /\ ProcessExit({})

(* The proxy is started again: main calls init_proxy. *)
Restart ==
  /\ \A t \in Threads : pc[t] = "down"
  /\ fldes_mutex' = NoThread
  /\ read_cond' = {} /\ write_cond' = {}
  /\ fldes_queue' = [i \in 1 .. segments |-> i - 1]
  /\ fldes_queue_size' = segments
  /\ fldes' = [t \in Threads |-> NoSegment]
  /\ pc' = [t \in Threads |-> "idle"]
  /\ shm' = shm \ Segments
  /\ lost' = {}
  /\ size' = -1

-----------------------------------------------------------------------------
(* The steps of a thread that runs by itself, without the outside's doing. *)
Run(t) ==
  \/ AcqAvailable(t) \/ AcqWait(t) \/ AcqPop(t) \/ AcqUnderflow(t)
  \/ AcqUnlock(t) \/ AcqBroadcast(t)
  \/ Create(t) \/ Served(t) \/ Unlink(t)
  \/ RelCheck(t) \/ RelEnqueue(t)
  \/ RelUnlock(t) \/ RelBroadcast(t)

GetMutex(t) == AcqLock(t) \/ RelLock(t)

Step(t) ==
  \/ Run(t) \/ GetMutex(t)
  \/ Request(t) \/ SendFails(t) \/ SpuriousWakeup(t) \/ SigPopRace(t)

Next ==
  \/ \E t \in Threads : Step(t)
  \/ SigStart \/ SigPop \/ SigExit \/ Restart

Spec == Init /\ [][Next]_vars

(* Threads run and every conversation over a segment ends (Served; when it  *)
(* may not, ShmChannel shows); a thread that asks for the mutex again and again while it   *)
(* is repeatedly free gets it.  Nothing makes a request arrive, a send      *)
(* fail, a wakeup be spurious, or a signal or restart happen.               *)
Fairness ==
  /\ \A t \in Threads : WF_vars(Run(t)) /\ SF_vars(GetMutex(t))
  /\ WF_vars(SigPop) /\ WF_vars(SigExit)

FairSpec == Spec /\ Fairness

-----------------------------------------------------------------------------
TypeOK ==
  /\ fldes_mutex \in Threads \cup {NoThread}
  /\ read_cond \in SUBSET Threads
  /\ write_cond \in SUBSET Threads
  /\ fldes_queue \in Seq(Segments)
  /\ fldes_queue_size \in Int
  /\ fldes \in [Threads -> Segments \cup {NoSegment}]
  /\ pc \in [Threads -> Labels]
  /\ shm \in SUBSET Segments
  /\ lost \in SUBSET Segments
  /\ size \in Nat \cup {-1}

Up == ~Stopping /\ \A t \in Threads : pc[t] # "down"

(* No two worker threads ever have the same segment name, and no free or    *)
(* lost name is in use: the cause proj3readme.pdf suspects for its unstable *)
(* test 3 ("multiple proxy worker threads get same memory segment ID") is   *)
(* not in the pool.  Only the unlocked signal handler breaks it.            *)
SegmentExclusive ==
  Up =>
  /\ \A t, u \in Threads :
       t # u /\ pc[t] \in Holding /\ pc[u] \in Holding => fldes[t] # fldes[u]
  /\ Distinct(fldes_queue)
  /\ Held \cap Elements(fldes_queue) = {}
  /\ lost \cap (Held \cup Elements(fldes_queue)) = {}

(* Every name is free, held by a thread or lost by a failed send: no path   *)
(* through acquire and release drops one.                                   *)
SegmentsConserved ==
  Up => Segments = Elements(fldes_queue) \cup Held \cup lost

(* The check of fldes_queue_size, made before the pop, is enough: while the *)
(* proxy is up steque_pop never meets an empty queue (it would end the      *)
(* process), although the counter is not the queue's own size.              *)
NoUnderflow ==
  Up => \A t \in Threads : pc[t] = "acq_pop" => fldes_queue # << >>

(* A thread that gives a name back always finds room: the wait on           *)
(* write_cond in destroy_shm_seg is never taken while the proxy is up.      *)
ReleaseNeverWaits == Up => write_cond = {}

(* So the counter, kept beside the queue, is right at both of its ends. *)
CounterSafe == NoUnderflow /\ ReleaseNeverWaits

(* No lost wakeup: if threads sleep on read_cond although a name is free,   *)
(* then a thread is between its enqueue and its broadcast (which comes      *)
(* after the unlock).                                                       *)
NoLostWakeup ==
  Up /\ read_cond # {} /\ fldes_queue # << >> =>
    \E t \in Threads : pc[t] \in {"rel_unlock", "rel_bcast"}

(* The object a thread serves from exists, and no object outlives its       *)
(* request except those of failed sends: the order of unlink and enqueue    *)
(* in destroy_shm_seg never lets one request unlink another's object.       *)
ObjectsExact ==
  Up => shm = lost \cup {fldes[t] : t \in {u \in Threads : pc[u] \in Serving}}

(* A thread asleep on read_cond is eventually woken, unless every segment   *)
(* was lost or the proxy stops.                                             *)
WaiterWakes ==
  \A t \in Threads :
    t \in read_cond /\ Up ~> t \notin read_cond \/ lost = Segments \/ ~Up

=============================================================================
