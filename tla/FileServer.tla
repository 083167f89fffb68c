----------------------------- MODULE FileServer ------------------------------
(***************************************************************************)
(* The multithreaded getfile server (proj1/multithreadgetfile): the thread *)
(* in gfserver_serve accepts a connection and hands the request to         *)
(* handler_get, which enqueues it for the workers of handler.c.            *)
(*                                                                         *)
(* The getfile library of this directory comes as an object file without   *)
(* source; what it does with a connection is modelled as in its sibling    *)
(* getfile/gfserver.c where the two agree (gfs_abort closes the descriptor *)
(* and nothing else), and otherwise as its machine code does: a header is  *)
(* sent and closes nothing, gfs_send closes the connection once it has sent *)
(* as much as the last header announced, and a failed accept is tried again *)
(* after a second.  A connection is known to the server by its descriptor, *)
(* the lowest free number.                                                 *)
(***************************************************************************)
EXTENDS Integers, Sequences, FiniteSets

CONSTANTS
  Workers,     (* the worker threads (option -t)                            *)
  MaxClients,  (* bound of the model: connections accepted                  *)
  MaxFds,      (* descriptors the process may have open for connections     *)
  FileLens     (* lengths of files in buffers of BUFFER_SIZE; -1: no file   *)

ASSUME ServerAssumption ==
  /\ "boss" \notin Workers /\ "free" \notin Workers
  /\ MaxClients \in Nat /\ MaxFds \in Nat
  /\ FileLens \subseteq Nat \cup {-1}

VARIABLES
  up,          (* the process is alive                                      *)
  want,        (* want[c]: length of the file the c-th client asks for      *)
  fdOf,        (* fdOf[c]: ctx->sockfd, the descriptor c was accepted on    *)
  conn,        (* conn[f]: the client behind descriptor f, 0 if f is free   *)
  header,      (* header[c]: the status c received                          *)
  got,         (* got[c]: buffers of its file c received                    *)
  closed,      (* clients that closed their end                             *)
  truncated,   (* requests whose file was cut to nothing on disk            *)
  victims,     (* clients to whose connection a worker wrote, or whose      *)
               (* connection it closed, for the request of another          *)
  workq,       (* accepted requests, by client                              *)
  workqlock,
  newrq_cond,  (* workers blocked on the condition variable                 *)
  pc,          (* control of the workers and of "boss"                      *)
  job,         (* job[w]: the client w serves                               *)
  file_len, bytes_transferred, read_len,   (* locals of worker_main         *)
  errored      (* errored[w]: w sent GF_ERROR, so ctx->file_len is 0        *)

client == <<want, fdOf, header, got, closed, truncated>>
net    == <<client, conn, victims>>
sync   == <<workqlock, newrq_cond>>
locals == <<file_len, bytes_transferred, read_len, errored>>
vars   == <<up, net, workq, sync, pc, job, locals>>

Fds     == 1 .. MaxFds
Clients == 1 .. Len(want)
Procs   == Workers \cup {"boss"}

Init ==
  /\ up = TRUE
  /\ want = << >> /\ fdOf = << >> /\ header = << >> /\ got = << >>
  /\ conn = [f \in Fds |-> 0]
  /\ closed = {} /\ truncated = {} /\ victims = {}
  /\ workq = << >> /\ workqlock = "free" /\ newrq_cond = {}
  /\ pc = [p \in Procs |-> IF p = "boss" THEN "accept" ELSE "lock"]
  /\ job = [w \in Workers |-> 0]
  /\ file_len = [w \in Workers |-> 0] /\ bytes_transferred = file_len
  /\ read_len = file_len
  /\ errored = [w \in Workers |-> FALSE]

Goto(p, from, to) ==
  /\ up /\ pc[p] = from
  /\ pc' = [pc EXCEPT ![p] = to]

(* pthread_mutex_lock, and the return from pthread_cond_wait. *)
Lock(p) ==
  /\ up /\ p \notin newrq_cond /\ workqlock = "free"
  /\ pc[p] \in {"lock", "wait"}
  /\ workqlock' = p
  /\ pc' = [pc EXCEPT ![p] = IF p = "boss" THEN "enqueue" ELSE "check"]
  /\ UNCHANGED <<up, net, workq, newrq_cond, job, locals>>

Unlock(p) ==
  /\ Goto(p, "unlock", IF p = "boss" THEN "broadcast" ELSE "get")
  /\ workqlock' = "free"
  /\ UNCHANGED <<up, net, workq, newrq_cond, job, locals>>

-----------------------------------------------------------------------------
(* gfserver_serve and handler_get. *)

(* A client connects and sends its request.  While no descriptor is free,   *)
(* accept fails and is called again.                                        *)
Accept ==
  /\ Goto("boss", "accept", "lock")
  /\ Len(want) < MaxClients
  /\ \E f \in Fds :
       /\ conn[f] = 0 /\ \A g \in Fds : g < f => conn[g] # 0
       /\ conn' = [conn EXCEPT ![f] = Len(want) + 1]
       /\ fdOf' = Append(fdOf, f)
  /\ \E n \in FileLens : want' = Append(want, n)
  /\ header' = Append(header, "none") /\ got' = Append(got, 0)
  /\ UNCHANGED <<up, closed, truncated, victims, workq, sync, job, locals>>

Enqueue ==
  /\ Goto("boss", "enqueue", "unlock")
  /\ workq' = Append(workq, Len(want))
  /\ UNCHANGED <<up, net, sync, job, locals>>

(* Mutant: the broadcast is forgotten. *)
Mutant_NoBroadcast ==
  /\ Goto("boss", "broadcast", "accept")
  /\ UNCHANGED <<up, net, workq, sync, job, locals>>

Broadcast ==
  /\ Goto("boss", "broadcast", "accept")
  /\ newrq_cond' = {}
  /\ UNCHANGED <<up, net, workq, workqlock, job, locals>>

-----------------------------------------------------------------------------
(* worker_main: taking a request. *)

Check(w) ==
  /\ up /\ pc[w] = "check"
  /\ IF workq = << >>
       THEN /\ pc' = [pc EXCEPT ![w] = "wait"]
            /\ newrq_cond' = newrq_cond \cup {w} /\ workqlock' = "free"
       ELSE /\ pc' = [pc EXCEPT ![w] = "pop"]
            /\ UNCHANGED sync
  /\ UNCHANGED <<up, net, workq, job, locals>>

(* Mutant: the front of the queue is not removed. *)
Mutant_Peek(w) ==
  /\ Goto(w, "pop", "unlock")
  /\ job' = [job EXCEPT ![w] = Head(workq)]
  /\ UNCHANGED <<up, net, workq, sync, locals>>

(* Mutant: the worker takes its task from the global t, the newest request. *)
Mutant_GlobalTask(w) ==
  /\ workq # << >>
  /\ Goto(w, "pop", "unlock")
  /\ job' = [job EXCEPT ![w] = workq[Len(workq)]]
  /\ workq' = Tail(workq)
  /\ UNCHANGED <<up, net, sync, locals>>

Pop(w) ==
  /\ workq # << >>
  /\ Goto(w, "pop", "unlock")
  /\ job' = [job EXCEPT ![w] = Head(workq)]
  /\ workq' = Tail(workq)
  /\ UNCHANGED <<up, net, sync, locals>>

-----------------------------------------------------------------------------
(* The connection of the request w serves, by its descriptor. *)
Fd(w)   == fdOf[job[w]]
Peer(w) == conn[Fd(w)]

(* A write that reaches the client behind the descriptor: h is a header to  *)
(* note, n the buffers of w's file.                                         *)
Deliver(w, h, n) ==
  /\ header' = [header EXCEPT ![Peer(w)] = IF h = "none" THEN @ ELSE h]
  /\ got' = [got EXCEPT ![Peer(w)] = IF Peer(w) = job[w] THEN @ + n ELSE @]
  /\ victims' = IF Peer(w) = job[w] THEN victims ELSE victims \cup {Peer(w)}

(* A write on the descriptor: it arrives, it is still accepted although the *)
(* client has closed, or the descriptor is closed (EBADF).                  *)
Write(w, h, n) ==
  IF Peer(w) # 0 /\ Peer(w) \notin closed
  THEN Deliver(w, h, n)
  ELSE UNCHANGED <<header, got, victims>>

(* A write to a client that closed its end: SIGPIPE ends the process, at    *)
(* once or, after ECONNRESET, at the write of the GF_ERROR header.  Only    *)
(* SIGINT and SIGTERM are caught.                                           *)
BrokenPipe(w) ==
  /\ up /\ pc[w] \in {"not_found", "header", "send", "err_header"}
  /\ pc[w] = "send" => read_len[w] = 1
  /\ Peer(w) \in closed
  /\ up' = FALSE
  /\ UNCHANGED <<net, workq, sync, pc, job, locals>>

(* content_get. *)
GetFile(w) ==
  /\ Goto(w, "get", IF want[job[w]] < 0 THEN "not_found" ELSE "header")
  /\ UNCHANGED <<up, net, workq, sync, job, locals>>

(* The worker returns with the header sent: the thread ends, and the        *)
(* connection stays open.                                                   *)
NotFound(w) ==
  /\ Goto(w, "not_found", "ended")
  /\ Write(w, "FILE_NOT_FOUND", 0)
  /\ UNCHANGED <<up, want, fdOf, closed, truncated, conn, workq, sync, job, locals>>

(* lseek to the end and the GF_OK header. *)
SendHeader(w) ==
  /\ up /\ pc[w] = "header"
  /\ file_len' = [file_len EXCEPT ![w] = want[job[w]]]
  /\ bytes_transferred' = [bytes_transferred EXCEPT ![w] = 0]
  /\ errored' = [errored EXCEPT ![w] = FALSE]
  /\ pc' = [pc EXCEPT ![w] = IF file_len'[w] > 0 THEN "read" ELSE "lock"]
  /\ Write(w, "OK", 0)
  /\ UNCHANGED <<up, want, fdOf, closed, truncated, conn, workq, sync, job, read_len>>

(* Mutant: pread asks for more than the buffer holds. *)
Mutant_LongRead(w) ==
  /\ Goto(w, "read", "send")
  /\ read_len' = [read_len EXCEPT ![w] = 2]
  /\ UNCHANGED <<up, net, workq, sync, job, file_len, bytes_transferred, errored>>

(* pread: a buffer; nothing, at the end of a cut file; or it fails, at the  *)
(* negative offset after failed sends.                                      *)
Read(w) ==
  /\ up /\ pc[w] = "read"
  /\ read_len' = [read_len EXCEPT ![w] = IF bytes_transferred[w] < 0 THEN -1
                                        ELSE IF job[w] \in truncated THEN 0 ELSE 1]
  /\ pc' = [pc EXCEPT ![w] = IF read_len'[w] = 1 THEN "send" ELSE "err_header"]
  /\ UNCHANGED <<up, net, workq, sync, job, file_len, bytes_transferred, errored>>

(* Mutant: the loop ends one buffer early. *)
Mutant_StopsShort(w) ==
  /\ up /\ pc[w] = "send" /\ read_len[w] = 1 /\ Peer(w) # 0
  /\ bytes_transferred' = [bytes_transferred EXCEPT ![w] = @ + 1]
  /\ pc' = [pc EXCEPT ![w] = IF bytes_transferred'[w] + 1 >= file_len[w] THEN "lock" ELSE "read"]
  /\ Write(w, "none", 1)
  /\ UNCHANGED <<up, want, fdOf, closed, truncated, conn, workq, sync, job, file_len,
                 read_len, errored>>

(* gfs_send, and the end of the loop: the library closes the connection     *)
(* when the length announced in the last header was sent.                   *)
Send(w) ==
  /\ up /\ pc[w] = "send" /\ read_len[w] = 1 /\ Peer(w) # 0
  /\ bytes_transferred' = [bytes_transferred EXCEPT ![w] = @ + 1]
  /\ pc' = [pc EXCEPT ![w] =
       IF errored[w] \/ bytes_transferred'[w] >= file_len[w] THEN "drain" ELSE "read"]
  /\ Write(w, "none", 1)
  /\ UNCHANGED <<up, want, fdOf, closed, truncated, conn, workq, sync, job, file_len,
                 read_len, errored>>

SendFails(w) ==
  /\ Goto(w, "send", "err_header")
  /\ read_len[w] = 1 /\ Peer(w) = 0
  /\ UNCHANGED <<up, net, workq, sync, job, locals>>

(* The length is added, 0, or -1 for a failure; the offset is not counted   *)
(* below -1.                                                                *)
Add(w, n) ==
  bytes_transferred' = [bytes_transferred EXCEPT ![w] = IF @ < 0 THEN @ ELSE @ + n]

(* After a failed read gfs_send is called all the same, with its result for *)
(* a length: of 0 bytes nothing is sent, and a write of -1, as a size, is   *)
(* refused.  Either way the result is that length, and no second error.     *)
SendNothing(w) ==
  /\ Goto(w, "send", "read")
  /\ read_len[w] # 1
  /\ Add(w, read_len[w])
  /\ UNCHANGED <<up, net, workq, sync, job, file_len, read_len, errored>>

(* _close of the library: it waits for the client to close, then closes the *)
(* descriptor and frees the context.  A worker that sent GF_ERROR before    *)
(* goes on with the freed context; what it does then is left out.           *)
Drain(w) ==
  /\ Goto(w, "drain", "close")
  /\ Peer(w) = 0 \/ Peer(w) \in closed
  /\ UNCHANGED <<up, net, workq, sync, job, locals>>

CloseFd(w) ==
  /\ conn' = [conn EXCEPT ![Fd(w)] = 0]
  /\ victims' = IF Peer(w) \in {0, job[w]} THEN victims ELSE victims \cup {Peer(w)}

Close(w) ==
  /\ Goto(w, "close", IF errored[w] THEN "freed" ELSE "lock")
  /\ CloseFd(w)
  /\ UNCHANGED <<up, client, workq, sync, job, locals>>

(* The error paths: gfs_sendheader(GF_ERROR), gfs_abort, and on in the loop  *)
(* (the return is commented out): to the send, or after a failed send to    *)
(* the next read, its -1 added.                                             *)
ErrorHeader(w) ==
  /\ Goto(w, "err_header", "err_abort")
  /\ errored' = [errored EXCEPT ![w] = TRUE]
  /\ Write(w, "ERROR", 0)
  /\ UNCHANGED <<up, want, fdOf, closed, truncated, conn, workq, sync, job, file_len,
                 bytes_transferred, read_len>>

Abort(w) ==
  /\ Goto(w, "err_abort", IF read_len[w] = 1 THEN "read" ELSE "send")
  /\ CloseFd(w)
  /\ IF read_len[w] = 1 THEN Add(w, -1) ELSE UNCHANGED bytes_transferred
  /\ UNCHANGED <<up, client, workq, sync, job, file_len, read_len, errored>>

-----------------------------------------------------------------------------
(* The world outside. *)

(* A client that has its file or another status, or whose connection is     *)
(* gone, closes its end.                                                    *)
Satisfied(c) ==
  \/ header[c] \in {"FILE_NOT_FOUND", "ERROR"}
  \/ header[c] = "OK" /\ got[c] = want[c]
  \/ conn[fdOf[c]] # c

ClientCloses(c) ==
  /\ c \notin closed /\ Satisfied(c)
  /\ closed' = closed \cup {c}
  /\ UNCHANGED <<up, want, fdOf, header, got, truncated, conn, victims, workq, sync,
                 pc, job, locals>>

ClientQuits(c) ==
  /\ up /\ c \notin closed /\ ~Satisfied(c)
  /\ closed' = closed \cup {c}
  /\ UNCHANGED <<up, want, fdOf, header, got, truncated, conn, victims, workq, sync,
                 pc, job, locals>>

(* The file of a request is cut on disk after its length was taken (before, *)
(* it would be an empty file).                                              *)
Truncate(c) ==
  /\ up /\ c \notin truncated /\ header[c] = "OK" /\ got[c] < want[c]
  /\ truncated' = truncated \cup {c}
  /\ UNCHANGED <<up, want, fdOf, header, got, closed, conn, victims, workq, sync,
                 pc, job, locals>>

SpuriousWakeup(w) ==
  /\ up /\ w \in newrq_cond
  /\ newrq_cond' = newrq_cond \ {w}
  /\ UNCHANGED <<up, net, workq, workqlock, pc, job, locals>>

-----------------------------------------------------------------------------
Boss == Enqueue \/ Broadcast \/ Unlock("boss")

Worker(w) ==
  \/ Check(w) \/ Pop(w) \/ Unlock(w) \/ GetFile(w) \/ NotFound(w) \/ SendHeader(w)
  \/ Read(w) \/ Send(w) \/ SendFails(w) \/ SendNothing(w) \/ Drain(w) \/ Close(w)
  \/ ErrorHeader(w) \/ Abort(w)

Next ==
  \/ Accept \/ Boss
  \/ \E w \in Workers : Worker(w) \/ BrokenPipe(w) \/ SpuriousWakeup(w)
  \/ \E p \in Procs : Lock(p)
  \/ \E c \in Clients : ClientCloses(c) \/ ClientQuits(c) \/ Truncate(c)

Spec == Init /\ [][Next]_vars

(* Threads run and get the mutex; a client closes once it has an answer.    *)
FairSpec ==
  /\ Spec
  /\ WF_vars(Boss) /\ \A w \in Workers : WF_vars(Worker(w))
  /\ \A p \in Procs : SF_vars(Lock(p))
  /\ \A c \in 1 .. MaxClients : WF_vars(c \in Clients /\ ClientCloses(c))

-----------------------------------------------------------------------------
Serving == {"unlock", "get", "not_found", "header", "read", "send", "drain", "close",
            "err_header", "err_abort"}
Labels  == {"accept", "lock", "enqueue", "broadcast", "check", "wait", "pop", "ended",
            "freed"} \cup Serving

TypeOK ==
  /\ up \in BOOLEAN
  /\ want \in Seq(FileLens) /\ fdOf \in [Clients -> Fds]
  /\ header \in [Clients -> {"none", "OK", "FILE_NOT_FOUND", "ERROR"}]
  /\ got \in [Clients -> Nat]
  /\ conn \in [Fds -> Clients \cup {0}]
  /\ closed \subseteq Clients /\ truncated \subseteq Clients /\ victims \subseteq Clients
  /\ workq \in Seq(Clients)
  /\ workqlock \in Procs \cup {"free"} /\ newrq_cond \subseteq Workers
  /\ pc \in [Procs -> Labels]
  /\ job \in [Workers -> Clients \cup {0}]
  /\ file_len \in [Workers -> Nat] /\ read_len \in [Workers -> -1 .. 1]
  /\ bytes_transferred \in [Workers -> Nat \cup {-1}]
  /\ errored \in [Workers -> BOOLEAN]

(* No lost wakeup, although handler_get broadcasts after its unlock: while  *)
(* a worker sleeps beside a queued request the broadcast is still coming.   *)
NoLostWakeup ==
  newrq_cond # {} /\ workq # << >> => pc["boss"] \in {"unlock", "broadcast"}

(* Where the request of client c can be: with the boss, queued, at a worker. *)
AtBoss(c)   == c = Len(want) /\ pc["boss"] \in {"lock", "enqueue"}
Queued(c)   == {i \in DOMAIN workq : workq[i] = c}
ServedBy(c) == {w \in Workers : pc[w] \in Serving /\ job[w] = c}
Pending(c)  == AtBoss(c) \/ Queued(c) # {} \/ ServedBy(c) # {}

(* A request is handled by one worker, once: it is never in two places, and *)
(* one that was not answered is somewhere.                                  *)
HandledOnce ==
  \A c \in Clients :
    /\ Cardinality(Queued(c)) + Cardinality(ServedBy(c)) + (IF AtBoss(c) THEN 1 ELSE 0) <= 1
    /\ header[c] = "none" /\ c \notin closed /\ victims = {} => Pending(c)

(* The descriptor of a request is open while it is pending, closed when its *)
(* file was sent, and stays open for ever when there was nothing to send (a *)
(* missing or empty file), as long as no file is cut under a worker.        *)
DescriptorsExact ==
  truncated = {} =>
    \A c \in Clients : conn[fdOf[c]] = c <=> Pending(c) \/ want[c] <= 0

(* A worker writes to and closes only the connection of the request it      *)
(* serves, and sends no more of a file than there is, as long as no file is *)
(* cut under it: a descriptor that was closed and reused is not touched.    *)
OwnConnection ==
  truncated = {} => victims = {} /\ \A c \in Clients : got[c] <= want[c] \/ got[c] = 0

(* Every client gets its answer or another reason to close, unless a client *)
(* that quit took the process with it or no worker is left: each missing    *)
(* file ends one, and each cut file keeps one in its loop.                  *)
NoWorkerLeft == \A w \in Workers : errored[w] \/ pc[w] = "ended"

ClientReleased ==
  \A c \in 1 .. MaxClients : c \in Clients ~> c \in closed \/ ~up \/ NoWorkerLeft

(* "Aborts the connection to the client associated with the input           *)
(* gfcontext_t" (gfserver.h:79): it aborts no other connection.             *)
AbortOwn ==
  [][\A w \in Workers : pc[w] = "err_abort" /\ pc'[w] # pc[w] => victims' = victims]_vars

=============================================================================
