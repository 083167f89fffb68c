---------------------------- MODULE ImageService ----------------------------
(* The image service (src/proj4): a client program whose workers drain a    *)
(* queue of requests, each with an RPC handle of its own (minifyjpeg_main.c,*)
(* minify_via_rpc.c), and the server that works off the calls one by one    *)
(* (minifyjpeg_svc.c, minifyjpeg.c, magickminify.c).                        *)
EXTENDS Integers, Sequences

CONSTANTS nthreads,
          N  \* requests of the workload, each with an output of its own

ASSUME ImageServiceAssumption == nthreads \in Nat /\ N \in Nat

VARIABLES
  kind,     \* of each input: missing, not an image (bad), an image whose
            \* minified form is smaller (good) or larger than the input
  main,     \* where the client's main is; "exit" if the process ended early
  started,  \* threads created
  queue,
  pc, request,
  cl,       \* per worker: is its handle NULL or open
  data,     \* the request whose bytes its buffer holds
  reply,    \* is the reply to its call there
  server,   \* the worker it serves, None or Down
  out,      \* what each output file holds
  lost,     \* history: requests whose output could not be opened or written whole
  overrun   \* history: a result did not fit its buffer

client == <<main, started, queue, pc, request, cl, data>>
history == <<lost, overrun>>
vars == <<kind, client, reply, server, out, history>>

Workers == 1 .. nthreads
Reqs == 1 .. N
None == 0
Empty == -1
Down == -1
Corrupt == -2
Part == -3

(* load_requests: the requests in the order of the workload. *)
Init ==
  /\ kind \in [Reqs -> {"missing", "bad", "good", "larger"}]
  /\ main = "create" /\ started = 0
  /\ queue = [k \in Reqs |-> k]
  /\ pc = [w \in Workers |-> "none"]
  /\ request = [w \in Workers |-> None]
  /\ cl = [w \in Workers |-> "NULL"]
  /\ data = [w \in Workers |-> None]
  /\ reply = [w \in Workers |-> FALSE]
  /\ server = None
  /\ out = [k \in Reqs |-> None]
  /\ lost = {} /\ overrun = FALSE

Goto(w, l) == pc' = [pc EXCEPT ![w] = l]

(* exit(1) or a signal in any worker ends the program. *)
Exit ==
  /\ main' = "exit"
  /\ pc' = [w \in Workers |-> "end"]
  /\ UNCHANGED <<kind, started, queue, request, cl, data, reply, server, out, history>>

(* Mutant: one thread more than there is room for. *)
Mutant_OneMore ==
  /\ main = "create" /\ started <= nthreads
  /\ started' = started + 1
  /\ UNCHANGED <<kind, main, pc, cl, queue, request, data, reply, server, out, history>>

(* The result of get_minify_client is not looked at. *)
Create ==
  /\ main = "create" /\ started < nthreads
  /\ started' = started + 1
  /\ cl' = [cl EXCEPT ![started + 1] = IF server = Down THEN "NULL" ELSE "open"]
  /\ Goto(started + 1, "take")
  /\ UNCHANGED <<kind, main, queue, request, data, reply, server, out, history>>

(* main joins the threads in order, and destroys the handle of each.        *)
Join ==
  /\ main = "create" /\ started = nthreads
  /\ \A w \in Workers : pc[w] = "end" /\ cl[w] = "open"
  /\ main' = "end"
  /\ UNCHANGED <<kind, started, queue, pc, request, cl, data, reply, server, out, history>>

(* clnt_destroy of a NULL handle crashes, whatever the later threads are at.*)
JoinNull ==
  /\ main = "create" /\ started = nthreads
  /\ \E w \in Workers : cl[w] = "NULL" /\ \A v \in 1 .. w : pc[v] = "end"
  /\ Exit

(* From lock to unlock. *)
Take(w) ==
  /\ pc[w] = "take"
  /\ IF queue = <<>>
     THEN Goto(w, "end") /\ UNCHANGED <<queue, request>>
     ELSE /\ queue' = Tail(queue)
          /\ request' = [request EXCEPT ![w] = Head(queue)]
          /\ Goto(w, "read")
  /\ UNCHANGED <<kind, main, started, cl, data, reply, server, out, history>>

(* Mutant: one buffer for all threads. *)
Mutant_OneBuffer(w) ==
  /\ pc[w] = "read" /\ kind[request[w]] # "missing"
  /\ data' = [v \in Workers |-> request[w]]
  /\ Goto(w, "call")
  /\ UNCHANGED <<kind, main, started, queue, request, cl, reply, server, out, history>>

Read(w) ==
  /\ pc[w] = "read" /\ kind[request[w]] # "missing"
  /\ data' = [data EXCEPT ![w] = request[w]]
  /\ Goto(w, "call")
  /\ UNCHANGED <<kind, main, started, queue, request, cl, reply, server, out, history>>

ReadFails(w) == pc[w] = "read" /\ kind[request[w]] = "missing" /\ Exit

(* clnt_call: the request is sent; through a NULL handle it crashes. *)
Call(w) ==
  /\ pc[w] = "call" /\ cl[w] = "open"
  /\ Goto(w, "wait")
  /\ reply' = [reply EXCEPT ![w] = FALSE]
  /\ UNCHANGED <<kind, main, started, queue, request, cl, data, server, out, history>>

CallNull(w) == pc[w] = "call" /\ cl[w] = "NULL" /\ Exit

(* Mutant: only the end of the connection ends a call. *)
Mutant_NoTimeout(w) == pc[w] = "wait" /\ ~reply[w] /\ server = Down /\ Exit

(* No reply within TIMEOUT, or never, the server being gone: exit(1). *)
CallFails(w) == pc[w] = "wait" /\ ~reply[w] /\ Exit

Return(w) ==
  /\ pc[w] = "wait" /\ reply[w] /\ kind[request[w]] # "larger"
  /\ Goto(w, "open")
  /\ UNCHANGED <<kind, main, started, queue, request, cl, data, reply, server, out, history>>

(* xdr_bytes decodes into the buffer of the request's size, whatever the    *)
(* result's: past its end may lie the other workers' buffers.               *)
Overrun(w) ==
  /\ pc[w] = "wait" /\ reply[w] /\ kind[request[w]] = "larger"
  /\ \E V \in SUBSET {v \in Workers \ {w} : pc[v] \in {"call", "open", "write"}} :
       data' = [v \in Workers |-> IF v \in V THEN Corrupt ELSE data[v]]
  /\ overrun' = TRUE
  /\ Goto(w, "open")
  /\ UNCHANGED <<kind, main, started, queue, request, cl, reply, server, out, lost>>

(* The heap being corrupt, a crash can come then or later. *)
Crash == overrun /\ main = "create" /\ Exit

(* write_to_file: fopen empties the file; its failure is returned to a      *)
(* caller that does not look.                                               *)
Open(w) ==
  /\ pc[w] = "open"
  /\ out' = [out EXCEPT ![request[w]] = Empty]
  /\ Goto(w, "write")
  /\ UNCHANGED <<kind, main, started, queue, request, cl, data, reply, server, history>>

OpenFails(w) ==
  /\ pc[w] = "open"
  /\ lost' = lost \cup {request[w]}
  /\ Goto(w, "take")
  /\ UNCHANGED <<kind, main, started, queue, request, cl, data, reply, server, out, overrun>>

Write(w) ==
  /\ pc[w] = "write"
  /\ out' = [out EXCEPT ![request[w]] = data[w]]
  /\ Goto(w, "take")
  /\ UNCHANGED <<kind, main, started, queue, request, cl, data, reply, server, history>>

(* fwrite or fclose writes a part or nothing, and nothing is said of it.    *)
WriteFails(w) ==
  /\ pc[w] = "write"
  /\ out' = [out EXCEPT ![request[w]] = Part]
  /\ lost' = lost \cup {request[w]}
  /\ Goto(w, "take")
  /\ UNCHANGED <<kind, main, started, queue, request, cl, data, reply, server, overrun>>

-----------------------------------------------------------------------------
(* svc_run takes a call that came in, in any order. *)
Dispatch ==
  /\ server = None
  /\ \E w \in Workers : pc[w] = "wait" /\ ~reply[w] /\ server' = w
  /\ UNCHANGED <<kind, client, reply, out, history>>

ServerEnds == server' = Down /\ UNCHANGED <<kind, client, reply, out, history>>

(* What the client's end leaves of the call is worked off all the same.    *)
Image == data[server] \in Reqs /\ kind[data[server]] \in {"good", "larger"}

(* The reply is lost if the caller has gone. *)
Reply ==
  /\ server \in Workers /\ Image
  /\ reply' = IF main = "exit" THEN reply ELSE [reply EXCEPT ![server] = TRUE]
  /\ server' = None
  /\ UNCHANGED <<kind, client, out, history>>

(* magickminify exits on what is no image. *)
BadImage == server \in Workers /\ ~Image /\ ServerEnds

(* The signal of a reply to a client that has gone, or any other end. *)
Killed == server # Down /\ ServerEnds

-----------------------------------------------------------------------------
Worker(w) ==
  \/ Take(w) \/ Read(w) \/ ReadFails(w) \/ Call(w) \/ CallNull(w) \/ CallFails(w)
  \/ Return(w) \/ Overrun(w) \/ Open(w) \/ OpenFails(w) \/ Write(w)
  \/ WriteFails(w)

Main == Create \/ Join \/ JoinNull

Next ==
  \/ Main \/ (\E w \in Workers : Worker(w)) \/ Crash
  \/ Dispatch \/ Reply \/ BadImage \/ Killed

Spec == Init /\ [][Next]_vars

(* The client's threads run, and the RPC library's clock: a call that stays *)
(* without a reply fails.  The clock covers the wait for the reply only: a  *)
(* connect and a send are taken to return.  Nothing is asked of the server. *)
FairSpec == Spec /\ WF_vars(Main) /\ \A w \in Workers : WF_vars(Worker(w))

-----------------------------------------------------------------------------
Stage == {"none", "take", "read", "call", "wait", "open", "write", "end"}
TypeOK ==
  /\ kind \in [Reqs -> {"missing", "bad", "good", "larger"}]
  /\ main \in {"create", "end", "exit"}
  /\ started \in 0 .. nthreads
  /\ queue \in Seq(Reqs)
  /\ pc \in [Workers -> Stage]
  /\ request \in [Workers -> 0 .. N]
  /\ \A w \in Workers : pc[w] \notin {"none", "take", "end"} => request[w] # None
  /\ cl \in [Workers -> {"NULL", "open"}]
  /\ data \in [Workers -> {Corrupt} \cup 0 .. N]
  /\ reply \in [Workers -> BOOLEAN]
  /\ server \in {Down, None} \cup Workers
  /\ out \in [Reqs -> {Corrupt, Empty, Part} \cup 0 .. N]
  /\ lost \subseteq Reqs /\ overrun \in BOOLEAN

(* Until a result overruns its buffer, no output file holds anything but    *)
(* its own request's image or a part of it; and a program that ends itself, *)
(* with status 0, has served all requests: each output is written whole, or *)
(* could not be opened or written, of which nothing is said.                *)
OutputsExact ==
  /\ ~overrun => \A k \in Reqs : out[k] \in {None, Empty, Part, k}
  /\ main = "end" /\ nthreads > 0 =>
       \A k \in Reqs : /\ kind[k] \in {"good", "larger"}
                       /\ out[k] \in {None, Empty, Part} => k \in lost

(* The client ends, whatever becomes of the server. *)
ProgramEnds == <>(main \in {"end", "exit"})

=============================================================================
