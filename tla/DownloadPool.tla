---------------------------- MODULE DownloadPool ----------------------------
(* The multithreaded download client (multithreadgetfile/                   *)
(* gfclient_download.c): main fills workq, each of nthreads workers takes   *)
(* up to nrequests paths from it and downloads them to numbered files.      *)
(* All uses of workq and of localPath's counter are in one section under    *)
(* workqlock, which is therefore one step.                                  *)
EXTENDS Steque

CONSTANTS nthreads, nrequests,
          workload  \* the paths of the workload file, in order

ASSUME DownloadPoolAssumption ==
  /\ nthreads \in Nat /\ nrequests \in Nat
  /\ workload \in Seq(STRING) /\ workload # <<>>

VARIABLES
  boss,      \* where main is; "exit" when the process has ended early
  created,   \* threads created
  counter,   \* of workload_get_path
  workq,
  numbered,  \* localPath's counter
  pc, i,     \* per worker: where it is, requests it has made
  req,       \* its path and local_path's number
  result,    \* of its gfc_perform: the return value, is the status GF_OK
  disk,      \* from local file to what it holds
  good       \* history: numbers of the requests that were answered well

worker == <<pc, i, req, result>>
vars == <<boss, created, counter, workq, numbered, worker, disk, good>>

Workers == 1 .. nthreads
Total == nrequests * nthreads
PathOf(n) == workload[(n % Len(workload)) + 1]  \* of workload_get_path's n-th call
Local(r) == <<r.path, r.number>>

Init ==
  /\ boss = "fill" /\ created = 0 /\ counter = 0
  /\ workq = steque_init
  /\ numbered = 0
  /\ pc = [w \in Workers |-> "none"]
  /\ i = [w \in Workers |-> 0]
  /\ req = [w \in Workers |-> [path |-> "", number |-> 0]]
  /\ result = [w \in Workers |-> [ret |-> 0, ok |-> FALSE]]
  /\ disk = [name \in {} |-> ""]
  /\ good = {}

(* Mutant: the paths are pushed to the front. *)
Mutant_Pushes ==
  /\ boss = "fill" /\ workq.N < Total
  /\ counter' = counter + 1
  /\ workq' = steque_push(workq, counter', PathOf(counter'))
  /\ UNCHANGED <<boss, created, numbered, worker, disk, good>>

(* workload_get_path advances its counter before it reads. *)
Fill ==
  /\ boss = "fill"
  /\ IF workq.N < Total
     THEN /\ counter' = counter + 1
          /\ workq' = steque_enqueue(workq, counter', PathOf(counter'))
          /\ UNCHANGED boss
     ELSE boss' = "create" /\ UNCHANGED <<counter, workq>>
  /\ UNCHANGED <<created, numbered, worker, disk, good>>

Create ==
  /\ boss = "create" /\ created < nthreads
  /\ created' = created + 1
  /\ pc' = [pc EXCEPT ![created + 1] = "loop"]
  /\ UNCHANGED <<boss, counter, workq, numbered, i, req, result, disk, good>>

(* pthread_create fails: main goes on with the threads it has. *)
CreateFails ==
  /\ boss = "create" /\ created < nthreads
  /\ boss' = "join"
  /\ UNCHANGED <<created, counter, workq, numbered, worker, disk, good>>

Join ==
  /\ boss = "join" \/ (boss = "create" /\ created = nthreads)
  /\ \A w \in 1 .. created : pc[w] = "end"
  /\ boss' = "end"
  /\ UNCHANGED <<created, counter, workq, numbered, worker, disk, good>>

Goto(w, l) == pc' = [pc EXCEPT ![w] = l]
(* Mutant: the loop runs once more. *)
Mutant_OneMore(w) == i[w] <= nrequests /\ ~steque_isempty(workq)

More(w) == i[w] < nrequests /\ ~steque_isempty(workq)

(* Mutant: the thread's own counter numbers the file. *)
Mutant_OwnNumber(w) == i[w]

LocalNumber(w) == numbered

(* The loop's test, and the section: the path, its number and its file,     *)
(* which fopen makes empty.                                                 *)
Take(w) ==
  /\ pc[w] = "loop"
  /\ LET r == [path |-> steque_front(workq), number |-> LocalNumber(w)] IN
     IF More(w)
     THEN /\ workq' = steque_pop(workq)
          /\ numbered' = numbered + 1
          /\ req' = [req EXCEPT ![w] = r]
          /\ disk' = [name \in DOMAIN disk \cup {Local(r)} |->
                       IF name = Local(r) THEN "part" ELSE disk[name]]
          /\ Goto(w, "perform")
     ELSE Goto(w, "end") /\ UNCHANGED <<workq, numbered, req, disk>>
  /\ UNCHANGED <<boss, created, counter, i, result, good>>

(* mkdir or fopen fails: exit, whatever the other threads are at. *)
OpenFails(w) ==
  /\ pc[w] = "loop" /\ More(w)
  /\ boss' = "exit"
  /\ pc' = [v \in Workers |-> "end"]
  /\ workq' = steque_pop(workq)
  /\ numbered' = numbered + 1
  /\ UNCHANGED <<created, counter, i, req, result, disk, good>>

(* gfc_perform writes to the open file and returns, with an error also when *)
(* the connection ends after an OK header; the file is closed.              *)
Perform(w) ==
  /\ pc[w] = "perform"
  /\ \E ret \in {-1, 0}, ok \in BOOLEAN :
       /\ result' = [result EXCEPT ![w] = [ret |-> ret, ok |-> ok]]
       /\ IF ret = 0 /\ ok
          THEN /\ disk' = [name \in DOMAIN disk |->
                            IF name = Local(req[w]) THEN "whole" ELSE disk[name]]
               /\ good' = good \cup {req[w].number}
          ELSE UNCHANGED <<disk, good>>
       /\ Goto(w, IF ret = -1 THEN "unlink" ELSE "status")
  /\ UNCHANGED <<boss, created, counter, workq, numbered, i, req>>

unlink(name) == disk' = [other \in DOMAIN disk \ {name} |-> disk[other]]

Unlink(w) ==
  /\ pc[w] = "unlink"
  /\ unlink(Local(req[w]))
  /\ Goto(w, "status")
  /\ UNCHANGED <<boss, created, counter, workq, numbered, i, req, result, good>>

(* The second unlink may come after a first one, then fails.  gfc_cleanup   *)
(* (gfclient.o) frees the request's two strings, free then the request.     *)
Status(w) ==
  /\ pc[w] = "status"
  /\ IF result[w].ok THEN UNCHANGED disk ELSE unlink(Local(req[w]))
  /\ i' = [i EXCEPT ![w] = @ + 1]
  /\ Goto(w, "loop")
  /\ UNCHANGED <<boss, created, counter, workq, numbered, req, result, good>>

Worker(w) == Take(w) \/ OpenFails(w) \/ Perform(w) \/ Unlink(w) \/ Status(w)
Next == Fill \/ Create \/ CreateFails \/ Join \/ \E w \in Workers : Worker(w)
Spec == Init /\ [][Next]_vars

-----------------------------------------------------------------------------
Paths == {workload[n] : n \in 1 .. Len(workload)}
TypeOK ==
  /\ boss \in {"fill", "create", "join", "end", "exit"}
  /\ created \in 0 .. nthreads
  /\ counter \in 0 .. Total /\ numbered \in 0 .. Total
  /\ pc \in [Workers -> {"none", "loop", "perform", "unlink", "status", "end"}]
  /\ i \in [Workers -> 0 .. nrequests]
  /\ req \in [Workers -> [path : Paths \cup {""}, number : 0 .. Total]]
  /\ result \in [Workers -> [ret : {-1, 0}, ok : BOOLEAN]]
  /\ DOMAIN disk \subseteq Paths \X (0 .. Total)
  /\ good \subseteq 0 .. Total

(* The linked list is at every moment the queue of the paths not taken yet, *)
(* in the order workload_get_path gave them: pointers, count and nodes.     *)
Left == [k \in 1 .. counter - numbered |-> numbered + k]

QueueExact ==
  /\ Holds(workq, Left)
  /\ Items(workq, Left) = [k \in 1 .. Len(Left) |-> PathOf(Left[k])]

Kept(n) == <<PathOf(n + 1), n>>
Busy(w) == pc[w] \in {"perform", "unlink"} \/ (pc[w] = "status" /\ result[w].ret = 0)

DiskExact ==
  /\ \A n \in good : disk[Kept(n)] = "whole"
  /\ DOMAIN disk = {Kept(n) : n \in good} \cup {Local(req[w]) : w \in {v \in Workers : Busy(v)}}

(* The files of a running client are those of the requests answered well,   *)
(* whole, and of the requests under way, each numbered in the order of the  *)
(* requests.  A client that main ends itself leaves only the former, and    *)
(* every thread has made its nrequests: without a thread, and only then,    *)
(* its share stays in the queue.                                            *)
FilesExact ==
  boss # "exit" =>
    /\ DiskExact
    /\ boss = "end" => \A w \in Workers : i[w] = IF w <= created THEN nrequests ELSE 0

=============================================================================
