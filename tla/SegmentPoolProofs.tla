-------------------------- MODULE SegmentPoolProofs --------------------------
(***************************************************************************)
(* Proofs about SegmentPool for any number of threads and segments.        *)
(***************************************************************************)
EXTENDS SegmentPool, SequenceTheorems, FiniteSetTheorems, TLAPS

(* A thread between acquire and release holds the name of a segment.        *)
HoldsName == \A t \in Threads : pc[t] \in Holding => fldes[t] \in Segments

TypeInv == TypeOK /\ HoldsName

LEMMA TypeInvariant == Spec => []TypeInv
<1>1. Init => TypeInv
  BY PoolAssumption DEF Init, TypeInv, TypeOK, HoldsName, Segments, NoSegment, Labels,
     Holding, Serving
<1>2. TypeInv /\ [Next]_vars => TypeInv'
  <2> SUFFICES ASSUME TypeInv, [Next]_vars PROVE TypeInv'
    OBVIOUS
  <2> USE PoolAssumption DEF TypeInv, TypeOK, HoldsName, Labels, Critical, Holding, Serving, sync, queue
  <2>1. ASSUME NEW t \in Threads, Request(t) PROVE TypeInv'
    BY <2>1 DEF Request, Goto
  <2>2. ASSUME NEW t \in Threads, AcqLock(t) PROVE TypeInv'
    BY <2>2 DEF AcqLock, Lock
  <2>3. ASSUME NEW t \in Threads, AcqWait(t) PROVE TypeInv'
    BY <2>3 DEF AcqWait, Goto
  <2>4. ASSUME NEW t \in Threads, AcqAvailable(t) PROVE TypeInv'
    BY <2>4 DEF AcqAvailable, Goto
  <2>5. ASSUME NEW t \in Threads, AcqPop(t) PROVE TypeInv'
    BY <2>5 DEF AcqPop, Goto
  <2>6. ASSUME NEW t \in Threads, AcqUnderflow(t) PROVE TypeInv'
    BY <2>6 DEF AcqUnderflow, ProcessExit
  <2>7. ASSUME NEW t \in Threads, AcqUnlock(t) PROVE TypeInv'
    BY <2>7 DEF AcqUnlock, Unlock, Goto
  <2>8. ASSUME NEW t \in Threads, AcqBroadcast(t) PROVE TypeInv'
    BY <2>8 DEF AcqBroadcast, Goto
  <2>9. ASSUME NEW t \in Threads, Create(t) PROVE TypeInv'
    BY <2>9 DEF Create, Goto
  <2>10. ASSUME NEW t \in Threads, Served(t) PROVE TypeInv'
    BY <2>10 DEF Served, Goto
  <2>11. ASSUME NEW t \in Threads, SendFails(t) PROVE TypeInv'
    BY <2>11 DEF SendFails, Goto
  <2>12. ASSUME NEW t \in Threads, Unlink(t) PROVE TypeInv'
    BY <2>12 DEF Unlink, Goto
  <2>13. ASSUME NEW t \in Threads, RelLock(t) PROVE TypeInv'
    BY <2>13 DEF RelLock, Lock
  <2>14. ASSUME NEW t \in Threads, RelCheck(t) PROVE TypeInv'
    BY <2>14 DEF RelCheck
  <2>15. ASSUME NEW t \in Threads, RelEnqueue(t) PROVE TypeInv'
    BY <2>15 DEF RelEnqueue, Goto
  <2>16. ASSUME NEW t \in Threads, RelUnlock(t) PROVE TypeInv'
    BY <2>16 DEF RelUnlock, Unlock, Goto
  <2>17. ASSUME NEW t \in Threads, RelBroadcast(t) PROVE TypeInv'
    BY <2>17 DEF RelBroadcast, Goto
  <2>18. ASSUME NEW t \in Threads, SpuriousWakeup(t) PROVE TypeInv'
    BY <2>18 DEF SpuriousWakeup
  <2>19. ASSUME NEW t \in Threads, SigPopRace(t) PROVE TypeInv'
    BY <2>19 DEF SigPopRace, Goto
  <2>20. CASE SigStart
    BY <2>20 DEF SigStart, Stopping
  <2>21. CASE SigPop
    BY <2>21 DEF SigPop
  <2>22. CASE SigExit
    BY <2>22 DEF SigExit, ProcessExit, Stopping
  <2>23. CASE Restart
    BY <2>23 DEF Restart, Segments
  <2>24. CASE UNCHANGED vars
    BY <2>24 DEF vars, sync, queue
  <2> QED
    BY <2>1, <2>2, <2>3, <2>4, <2>5, <2>6, <2>7, <2>8, <2>9, <2>10, <2>11, <2>12, <2>13, <2>14, <2>15, <2>16, <2>17, <2>18, <2>19, <2>20, <2>21, <2>22, <2>23, <2>24 DEF Next, Step, Run, GetMutex
<1> QED BY <1>1, <1>2, PTL DEF Spec

(* Every variable keeps its type: in particular only segment names are ever *)
(* in the queue, unlinked or lost.                                          *)
THEOREM TypeCorrect == Spec => []TypeOK
<1>1. TypeInv => TypeOK
  BY DEF TypeInv
<1> QED BY <1>1, TypeInvariant, PTL

-----------------------------------------------------------------------------
(* The queue of names as a set. *)

LEMMA ElementsOfTail ==
  ASSUME NEW S, NEW q \in Seq(S), q # << >>, Distinct(q)
  PROVE  /\ Head(q) \in Elements(q) /\ Head(q) \in S
         /\ Tail(q) \in Seq(S) /\ Len(Tail(q)) = Len(q) - 1
         /\ Elements(Tail(q)) = Elements(q) \ {Head(q)}
         /\ Distinct(Tail(q))
<1>1. /\ Head(q) = q[1] /\ Head(q) \in S /\ Tail(q) \in Seq(S)
      /\ Len(Tail(q)) = Len(q) - 1 /\ Len(q) \in Nat \ {0}
      /\ \A i \in 1 .. Len(q) - 1 : Tail(q)[i] = q[i + 1]
  BY HeadTailProperties
<1>2. DOMAIN q = 1 .. Len(q) /\ DOMAIN Tail(q) = 1 .. Len(q) - 1
  BY <1>1
<1>3. Head(q) \in Elements(q)
  BY <1>1, <1>2 DEF Elements
<1>4. Distinct(Tail(q))
  BY <1>1, <1>2 DEF Distinct
<1>5. Elements(Tail(q)) \subseteq Elements(q) \ {Head(q)}
  BY <1>1, <1>2 DEF Elements, Distinct
<1>6. ASSUME NEW x \in Elements(q), x # Head(q) PROVE x \in Elements(Tail(q))
  <2>1. PICK i \in 1 .. Len(q) : x = q[i]
    BY <1>2 DEF Elements
  <2>2. i - 1 \in 1 .. Len(q) - 1 /\ Tail(q)[i - 1] = q[i]
    BY <1>1, <1>6, <2>1
  <2> QED BY <1>2, <2>1, <2>2 DEF Elements
<1> QED BY <1>1, <1>3, <1>4, <1>5, <1>6

LEMMA ElementsOfAppend ==
  ASSUME NEW S, NEW q \in Seq(S), NEW x \in S, x \notin Elements(q), Distinct(q)
  PROVE  /\ Append(q, x) \in Seq(S) /\ Len(Append(q, x)) = Len(q) + 1
         /\ Elements(Append(q, x)) = Elements(q) \cup {x}
         /\ Distinct(Append(q, x))
<1>1. /\ Append(q, x) \in Seq(S) /\ Len(Append(q, x)) = Len(q) + 1
      /\ \A i \in 1 .. Len(q) : Append(q, x)[i] = q[i]
      /\ Append(q, x)[Len(q) + 1] = x
  BY AppendProperties
<1>2. /\ Len(q) \in Nat /\ DOMAIN q = 1 .. Len(q)
      /\ DOMAIN Append(q, x) = 1 .. Len(q) + 1
  BY <1>1
<1>3. Elements(Append(q, x)) = Elements(q) \cup {x}
  BY <1>1, <1>2 DEF Elements
<1>4. Distinct(Append(q, x))
  BY <1>1, <1>2 DEF Distinct, Elements
<1> QED BY <1>1, <1>3, <1>4

(* The queue init_proxy builds holds every name once. *)
LEMMA InitialQueue ==
  LET q == [i \in 1 .. segments |-> i - 1]
  IN  /\ q \in Seq(Segments) /\ Len(q) = segments
      /\ Elements(q) = Segments /\ Distinct(q)
<1> DEFINE q == [i \in 1 .. segments |-> i - 1]
<1>1. q \in Seq(Segments) /\ Len(q) = segments /\ DOMAIN q = 1 .. segments
  BY PoolAssumption DEF Segments
<1>2. Distinct(q)
  BY PoolAssumption DEF Distinct
<1>3. Elements(q) \subseteq Segments
  BY PoolAssumption DEF Elements, Segments
<1>4. ASSUME NEW s \in Segments PROVE s \in Elements(q)
  <2>1. s + 1 \in 1 .. segments /\ q[s + 1] = s
    BY PoolAssumption DEF Segments
  <2> QED BY <1>1, <2>1 DEF Elements
<1> QED BY <1>1, <1>2, <1>3, <1>4

(* Pigeonhole: a queue of distinct names that lacks one has room.           *)
LEMMA LackingOneHasRoom ==
  ASSUME NEW q \in Seq(Segments), Distinct(q), NEW s \in Segments, s \notin Elements(q)
  PROVE  Len(q) # segments
<1> SUFFICES ASSUME Len(q) = segments PROVE FALSE
  OBVIOUS
<1> DEFINE T == Segments \ {s}
<1>1. /\ IsFiniteSet(1 .. segments) /\ Cardinality(1 .. segments) = segments
      /\ IsFiniteSet(Segments) /\ Cardinality(Segments) = segments
  <2>1. segments \in Nat /\ segments > 0
    BY PoolAssumption DEF Segments
  <2> QED BY <2>1, FS_Interval DEF Segments
<1>2. IsFiniteSet(T) /\ Cardinality(T) < Cardinality(1 .. segments)
  <2>1. IsFiniteSet(T) /\ Cardinality(T) = Cardinality(Segments) - 1
    BY <1>1, FS_RemoveElement
  <2> QED BY <1>1, <2>1, PoolAssumption
<1>3. q \in [1 .. segments -> T]
  <2>1. q \in [1 .. segments -> Segments]
    BY PoolAssumption
  <2>2. \A i \in 1 .. segments : q[i] \in T
    BY <2>1 DEF Elements
  <2> QED BY <2>1, <2>2
<1>4. \E i, j \in 1 .. segments : i # j /\ q[i] = q[j]
  <2> HIDE DEF T
  <2> QED BY <1>1, <1>2, <1>3, FS_PigeonHole
<1> QED BY <1>4 DEF Distinct

-----------------------------------------------------------------------------
(***************************************************************************)
(* The inductive invariant.  SegmentExclusive alone is not inductive: that *)
(* a name just popped is nobody else's needs the queue to be without       *)
(* repetition, that the pop finds one needs the counter to be the queue's  *)
(* length and the mutex to have an owner, and that the name given back is  *)
(* new to the queue needs it to be disjoint from the names held.           *)
(***************************************************************************)
Owner == \A t \in Threads : pc[t] \in Critical => fldes_mutex = t

Counter ==
  /\ fldes_queue_size = Len(fldes_queue)
  /\ \A t \in Threads : pc[t] = "acq_pop" => fldes_queue # << >>

Exclusive ==
  /\ Distinct(fldes_queue)
  /\ lost \cap Elements(fldes_queue) = {}
  /\ \A t \in Threads : pc[t] \in Holding => fldes[t] \notin Elements(fldes_queue) \cup lost
  /\ \A t, u \in Threads :
       t # u /\ pc[t] \in Holding /\ pc[u] \in Holding => fldes[t] # fldes[u]

Conserved == \A s \in Segments :
  \/ s \in Elements(fldes_queue) \/ s \in lost
  \/ \E t \in Threads : pc[t] \in Holding /\ fldes[t] = s

Objects == \A s \in Segments :
  s \in shm <=> s \in lost \/ \E t \in Threads : pc[t] \in Serving /\ fldes[t] = s

PoolInv ==
  /\ Owner
  /\ Up => Counter /\ Exclusive /\ Conserved /\ Objects /\ write_cond = {}

LEMMA PoolInvInit == Init => PoolInv
<1> SUFFICES ASSUME Init PROVE PoolInv
  OBVIOUS
<1>1. Owner
  BY DEF Init, Owner, Critical
<1>2. Counter
  BY InitialQueue DEF Init, Counter
<1>3. Exclusive /\ Conserved /\ Objects
  BY InitialQueue DEF Init, Exclusive, Conserved, Objects, Holding, Serving
<1> QED BY <1>1, <1>2, <1>3 DEF Init, PoolInv

LEMMA PoolInvStep == TypeInv /\ TypeInv' /\ PoolInv /\ [Next]_vars => PoolInv'
<1> SUFFICES ASSUME TypeInv, TypeInv', PoolInv, [Next]_vars PROVE PoolInv'
  OBVIOUS
<1> USE PoolAssumption DEF TypeInv, TypeOK, HoldsName, Labels, Critical, Holding, Serving,
     sync, queue, PoolInv, Owner, Up, Stopping, Counter, Exclusive, Conserved, Objects
<1>1. ASSUME NEW t \in Threads, Request(t) PROVE PoolInv'
  BY <1>1 DEF Request, Goto
<1>2. ASSUME NEW t \in Threads, AcqLock(t) PROVE PoolInv'
  BY <1>2 DEF AcqLock, Lock
<1>3. ASSUME NEW t \in Threads, AcqWait(t) PROVE PoolInv'
  BY <1>3 DEF AcqWait, Goto
<1>4. ASSUME NEW t \in Threads, AcqAvailable(t) PROVE PoolInv'
  BY <1>4 DEF AcqAvailable, Goto
<1>5. ASSUME NEW t \in Threads, AcqPop(t) PROVE PoolInv'
  <2> SUFFICES ASSUME Up PROVE PoolInv'
    BY <1>5 DEF AcqPop, Goto
  <2>1. /\ Head(fldes_queue) \in Elements(fldes_queue)
        /\ Elements(fldes_queue') = Elements(fldes_queue) \ {Head(fldes_queue)}
        /\ Distinct(fldes_queue') /\ Len(fldes_queue') = Len(fldes_queue) - 1
        /\ fldes'[t] = Head(fldes_queue)
    BY <1>5, ElementsOfTail DEF AcqPop
  <2>2. /\ pc[t] = "acq_pop" /\ pc' = [pc EXCEPT ![t] = "acq_unlock"]
        /\ fldes' = [fldes EXCEPT ![t] = Head(fldes_queue)]
        /\ fldes_queue_size' = fldes_queue_size - 1
        /\ UNCHANGED <<fldes_mutex, write_cond, shm, lost>>
    BY <1>5 DEF AcqPop, Goto
  <2>3. Owner' /\ write_cond' = {}
    BY <2>2
  <2>4. Counter'
    <3>1. \A u \in Threads : pc'[u] # "acq_pop"
      BY <2>2
    <3> QED BY <2>1, <2>2, <3>1
  <2>5. Exclusive'
    <3>1. Head(fldes_queue) \notin lost
      BY <2>1
    <3>2. \A u \in Threads \ {t} : pc[u] \in Holding => fldes[u] # Head(fldes_queue)
      BY <2>1
    <3>3. \A u \in Threads \ {t} : pc'[u] = pc[u] /\ fldes'[u] = fldes[u]
      BY <2>2
    <3> QED BY <2>1, <2>2, <3>1, <3>2, <3>3
  <2>6. Conserved' /\ Objects'
    BY <2>1, <2>2
  <2> QED BY <2>3, <2>4, <2>5, <2>6
<1>6. ASSUME NEW t \in Threads, AcqUnderflow(t) PROVE PoolInv'
  BY <1>6 DEF AcqUnderflow, ProcessExit
<1>7. ASSUME NEW t \in Threads, AcqUnlock(t) PROVE PoolInv'
  BY <1>7 DEF AcqUnlock, Unlock, Goto
<1>8. ASSUME NEW t \in Threads, AcqBroadcast(t) PROVE PoolInv'
  BY <1>8 DEF AcqBroadcast, Goto
<1>9. ASSUME NEW t \in Threads, Create(t) PROVE PoolInv'
  BY <1>9 DEF Create, Goto
<1>10. ASSUME NEW t \in Threads, Served(t) PROVE PoolInv'
  BY <1>10 DEF Served, Goto
<1>11. ASSUME NEW t \in Threads, SendFails(t) PROVE PoolInv'
  BY <1>11 DEF SendFails, Goto
<1>12. ASSUME NEW t \in Threads, Unlink(t) PROVE PoolInv'
  BY <1>12 DEF Unlink, Goto
<1>13. ASSUME NEW t \in Threads, RelLock(t) PROVE PoolInv'
  BY <1>13 DEF RelLock, Lock
<1>14. ASSUME NEW t \in Threads, RelCheck(t) PROVE PoolInv'
  <2>1. Up => fldes_queue_size # max_fldes_queue_size
    BY <1>14, LackingOneHasRoom DEF RelCheck, max_fldes_queue_size
  <2>2. CASE Up
    BY <1>14, <2>1, <2>2 DEF RelCheck
  <2>3. CASE ~Up
    BY <1>14, <2>3 DEF RelCheck
  <2> QED BY <2>2, <2>3
<1>15. ASSUME NEW t \in Threads, RelEnqueue(t) PROVE PoolInv'
  <2> SUFFICES ASSUME Up PROVE PoolInv'
    BY <1>15 DEF RelEnqueue, Goto
  <2>1. /\ Elements(fldes_queue') = Elements(fldes_queue) \cup {fldes[t]}
        /\ Distinct(fldes_queue') /\ Len(fldes_queue') = Len(fldes_queue) + 1
    BY <1>15, ElementsOfAppend DEF RelEnqueue, Goto
  <2>2. Owner' /\ Counter'
    BY <1>15, <2>1 DEF RelEnqueue, Goto
  <2>3. Exclusive'
    BY <1>15, <2>1 DEF RelEnqueue, Goto
  <2>4. Conserved' /\ Objects' /\ write_cond' = {}
    BY <1>15, <2>1 DEF RelEnqueue, Goto
  <2> QED BY <2>2, <2>3, <2>4
<1>16. ASSUME NEW t \in Threads, RelUnlock(t) PROVE PoolInv'
  BY <1>16 DEF RelUnlock, Unlock, Goto
<1>17. ASSUME NEW t \in Threads, RelBroadcast(t) PROVE PoolInv'
  BY <1>17 DEF RelBroadcast, Goto
<1>18. ASSUME NEW t \in Threads, SpuriousWakeup(t) PROVE PoolInv'
  BY <1>18 DEF SpuriousWakeup
<1>19. ASSUME NEW t \in Threads, SigPopRace(t) PROVE PoolInv'
  BY <1>19 DEF SigPopRace, Goto
<1>20. CASE SigStart
  BY <1>20 DEF SigStart, Stopping
<1>21. CASE SigPop
  BY <1>21 DEF SigPop
<1>22. CASE SigExit
  BY <1>22 DEF SigExit, ProcessExit, Stopping
<1>23. CASE Restart
  <2>1. /\ Len(fldes_queue') = segments /\ Elements(fldes_queue') = Segments
        /\ Distinct(fldes_queue')
    BY <1>23, InitialQueue DEF Restart
  <2>2. Owner' /\ Counter' /\ write_cond' = {}
    BY <1>23, <2>1 DEF Restart
  <2>3. Exclusive' /\ Conserved' /\ Objects'
    BY <1>23, <2>1 DEF Restart
  <2> QED BY <2>2, <2>3
<1>24. CASE UNCHANGED vars
  BY <1>24 DEF vars, sync, queue
<1> QED
  BY <1>1, <1>2, <1>3, <1>4, <1>5, <1>6, <1>7, <1>8, <1>9, <1>10, <1>11, <1>12, <1>13, <1>14, <1>15, <1>16, <1>17, <1>18, <1>19, <1>20, <1>21, <1>22, <1>23, <1>24 DEF Next, Step, Run, GetMutex

LEMMA PoolInvariant == Spec => []PoolInv
<1>1. TypeInv /\ TypeInv' /\ PoolInv /\ [Next]_vars => PoolInv'
  BY PoolInvStep
<1> QED BY <1>1, PoolInvInit, TypeInvariant, PTL DEF Spec

(* No segment is ever with two threads, or with one and in the queue, or    *)
(* lost and either: handle_with_cache's pop and destroy_shm_seg's enqueue   *)
(* under fldes_mutex hand every name to one thread at a time.               *)
THEOREM Exclusion == Spec => []SegmentExclusive
<1>1. PoolInv => SegmentExclusive
  <2> SUFFICES ASSUME PoolInv, Up PROVE SegmentExclusive
    BY DEF SegmentExclusive
  <2>1. Held \cap Elements(fldes_queue) = {} /\ lost \cap Held = {}
    BY DEF PoolInv, Exclusive, Held
  <2> QED BY <2>1 DEF PoolInv, Exclusive, SegmentExclusive
<1> QED BY <1>1, PoolInvariant, PTL

(* No name is dropped: it is free, held, or lost by a failed send. *)
THEOREM Conservation == Spec => []SegmentsConserved
<1>1. PoolInv /\ TypeInv => SegmentsConserved
  <2> SUFFICES ASSUME PoolInv, TypeInv, Up PROVE SegmentsConserved
    BY DEF SegmentsConserved
  <2>1. Segments \subseteq Elements(fldes_queue) \cup Held \cup lost
    BY DEF PoolInv, Conserved, Held
  <2>2. Elements(fldes_queue) \subseteq Segments /\ Held \subseteq Segments /\ lost \subseteq Segments
    BY DEF TypeInv, TypeOK, HoldsName, Held, Elements
  <2> QED BY <2>1, <2>2 DEF SegmentsConserved
<1> QED BY <1>1, PoolInvariant, TypeInvariant, PTL

(* steque_pop never meets an empty queue while the proxy is up. *)
THEOREM Underflow == Spec => []NoUnderflow
<1>1. PoolInv => NoUnderflow
  BY DEF PoolInv, Counter, NoUnderflow
<1> QED BY <1>1, PoolInvariant, PTL

(* The wait on write_cond in destroy_shm_seg is never taken. *)
THEOREM ReleaseRoom == Spec => []ReleaseNeverWaits
<1>1. PoolInv => ReleaseNeverWaits
  BY DEF PoolInv, ReleaseNeverWaits
<1> QED BY <1>1, PoolInvariant, PTL

(* The counter kept beside the queue is right at both of its ends. *)
THEOREM CounterSafety == Spec => []CounterSafe
BY Underflow, ReleaseRoom, PTL DEF CounterSafe

(* An object exists exactly while it is served from, or was lost. *)
THEOREM ObjectsAreExact == Spec => []ObjectsExact
<1>1. PoolInv /\ TypeInv => ObjectsExact
  <2> SUFFICES ASSUME PoolInv, TypeInv, Up PROVE ObjectsExact
    BY DEF ObjectsExact
  <2> DEFINE Served_ == {fldes[t] : t \in {u \in Threads : pc[u] \in Serving}}
  <2>1. Served_ \subseteq Segments /\ lost \subseteq Segments /\ shm \subseteq Segments
    BY DEF TypeInv, TypeOK, HoldsName, Holding
  <2>2. \A s \in Segments : s \in shm <=> s \in lost \cup Served_
    BY DEF PoolInv, Objects
  <2> QED BY <2>1, <2>2 DEF ObjectsExact
<1> QED BY <1>1, PoolInvariant, TypeInvariant, PTL

LEMMA NoLostWakeupStep == TypeInv /\ PoolInv /\ NoLostWakeup /\ [Next]_vars => NoLostWakeup'
<1> SUFFICES ASSUME TypeInv, PoolInv, NoLostWakeup, [Next]_vars PROVE NoLostWakeup'
  OBVIOUS
<1> USE PoolAssumption DEF TypeInv, TypeOK, Labels, Critical, Holding, Serving,
     sync, queue, PoolInv, Up, Stopping, Counter, NoLostWakeup
<1>1. ASSUME NEW t \in Threads, Request(t) PROVE NoLostWakeup'
  BY <1>1 DEF Request, Goto
<1>2. ASSUME NEW t \in Threads, AcqLock(t) PROVE NoLostWakeup'
  BY <1>2 DEF AcqLock, Lock
<1>3. ASSUME NEW t \in Threads, AcqWait(t) PROVE NoLostWakeup'
  BY <1>3 DEF AcqWait, Goto
<1>4. ASSUME NEW t \in Threads, AcqAvailable(t) PROVE NoLostWakeup'
  BY <1>4 DEF AcqAvailable, Goto
<1>5. ASSUME NEW t \in Threads, AcqPop(t) PROVE NoLostWakeup'
  BY <1>5 DEF AcqPop, Goto
<1>6. ASSUME NEW t \in Threads, AcqUnderflow(t) PROVE NoLostWakeup'
  BY <1>6 DEF AcqUnderflow, ProcessExit
<1>7. ASSUME NEW t \in Threads, AcqUnlock(t) PROVE NoLostWakeup'
  BY <1>7 DEF AcqUnlock, Unlock, Goto
<1>8. ASSUME NEW t \in Threads, AcqBroadcast(t) PROVE NoLostWakeup'
  BY <1>8 DEF AcqBroadcast, Goto
<1>9. ASSUME NEW t \in Threads, Create(t) PROVE NoLostWakeup'
  BY <1>9 DEF Create, Goto
<1>10. ASSUME NEW t \in Threads, Served(t) PROVE NoLostWakeup'
  BY <1>10 DEF Served, Goto
<1>11. ASSUME NEW t \in Threads, SendFails(t) PROVE NoLostWakeup'
  BY <1>11 DEF SendFails, Goto
<1>12. ASSUME NEW t \in Threads, Unlink(t) PROVE NoLostWakeup'
  BY <1>12 DEF Unlink, Goto
<1>13. ASSUME NEW t \in Threads, RelLock(t) PROVE NoLostWakeup'
  BY <1>13 DEF RelLock, Lock
<1>14. ASSUME NEW t \in Threads, RelCheck(t) PROVE NoLostWakeup'
  BY <1>14 DEF RelCheck
<1>15. ASSUME NEW t \in Threads, RelEnqueue(t) PROVE NoLostWakeup'
  BY <1>15 DEF RelEnqueue, Goto
<1>16. ASSUME NEW t \in Threads, RelUnlock(t) PROVE NoLostWakeup'
  BY <1>16 DEF RelUnlock, Unlock, Goto
<1>17. ASSUME NEW t \in Threads, RelBroadcast(t) PROVE NoLostWakeup'
  BY <1>17 DEF RelBroadcast, Goto
<1>18. ASSUME NEW t \in Threads, SpuriousWakeup(t) PROVE NoLostWakeup'
  BY <1>18 DEF SpuriousWakeup
<1>19. ASSUME NEW t \in Threads, SigPopRace(t) PROVE NoLostWakeup'
  BY <1>19 DEF SigPopRace, Goto
<1>20. CASE SigStart
  BY <1>20 DEF SigStart, Stopping
<1>21. CASE SigPop
  BY <1>21 DEF SigPop
<1>22. CASE SigExit
  BY <1>22 DEF SigExit, ProcessExit, Stopping
<1>23. CASE Restart
  BY <1>23 DEF Restart, Segments
<1>24. CASE UNCHANGED vars
  BY <1>24 DEF vars, sync, queue
<1> QED
  BY <1>1, <1>2, <1>3, <1>4, <1>5, <1>6, <1>7, <1>8, <1>9, <1>10, <1>11, <1>12, <1>13, <1>14, <1>15, <1>16, <1>17, <1>18, <1>19, <1>20, <1>21, <1>22, <1>23, <1>24 DEF Next, Step, Run, GetMutex

(* Broadcasting after the unlock loses no wakeup: beside a free name nobody *)
(* sleeps unless a broadcast is on its way.                                 *)
THEOREM LostWakeup == Spec => []NoLostWakeup
<1>1. Init => NoLostWakeup
  BY DEF Init, NoLostWakeup
<1>2. TypeInv /\ PoolInv /\ NoLostWakeup /\ [Next]_vars => NoLostWakeup'
  BY NoLostWakeupStep
<1> QED BY <1>1, <1>2, TypeInvariant, PoolInvariant, PTL DEF Spec
=============================================================================
