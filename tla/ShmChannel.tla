----------------------------- MODULE ShmChannel ------------------------------
(***************************************************************************)
(* One request over one shared-memory segment: the conversation between a  *)
(* proxy worker thread (proj3/handle_with_cache.c) and a cache worker      *)
(* thread (proj3/simplecached.c).  The cache tells the length of the file  *)
(* (-1 if it has none), then hands it over chunk by chunk through one      *)
(* buffer; bytes_written says how many bytes of the buffer are full.       *)
(*                                                                         *)
(* The two programs declare the segment's header, struct shm_data_t, each  *)
(* for itself, with data_mutex and file_len_mutex in different orders:     *)
(* the mutex of one name is not the same mutex in both.  Every access to   *)
(* the segment is therefore a step of its own, as in the unoptimised build *)
(* (-g, no -O).                                                            *)
(***************************************************************************)
EXTENDS Integers, Sequences, FiniteSets

CONSTANTS
  ChunkSize,  (* segment_size - sizeof(shm_data) - 1, the size of a chunk   *)
  FileLens    (* lengths the requested file may have; -1: not in the cache  *)

ASSUME ChannelAssumption ==
  /\ ChunkSize \in Nat \ {0}
  /\ FileLens \subseteq Nat \cup {-1}

VARIABLES
  pc,            (* control of "proxy" and of "cache"                       *)
  requested,     (* the request is in the cache's message queue             *)
  mutex,         (* owner of the mutex in slot 1 and 2 of the segment       *)
  waiting,       (* processes blocked: "proxy" on proxy_cond, "cache" on    *)
                 (* cache_cond (neither ever waits on the other's)          *)
  file_length,   (* the segment's fields                                    *)
  bytes_written,
  buffer,        (* buffer[i]: which byte of the file is there, 0 for none  *)
  fileLen,       (* what the cache finds: the file's length, or -1          *)
  c_read_len,    (* locals of the cache: read_len and bytes_written         *)
  c_bytes,
  file_len,      (* locals of the proxy                                     *)
  read_len,
  bytes_transferred,
  header,        (* what the client got: the header, the bytes of the file  *)
  out,
  failed         (* the handler returned from a short gfs_send              *)

cells  == <<file_length, bytes_written, buffer>>
cacheLocals == <<fileLen, c_read_len, c_bytes>>
proxyLocals == <<file_len, read_len, bytes_transferred>>
client == <<header, out, failed>>
sync   == <<mutex, waiting>>
data   == <<requested, cells, cacheLocals, proxyLocals, client>>
vars   == <<pc, sync, data>>

Processes == {"proxy", "cache"}

(* Where each program's struct shm_data_t has its two mutexes. *)
Slot == [proxy |-> [data_mutex |-> 1, file_len_mutex |-> 2],
         cache |-> [file_len_mutex |-> 1, data_mutex |-> 2]]

NoHeader == [status |-> "none", length |-> 0]

LenLabels  == {"len_lock", "len_check", "len_wait", "len_blocked"}
DataLabels == {"data_lock", "data_check", "data_wait", "data_blocked", "data_unlock"}

ProxyLabels == LenLabels \cup DataLabels \cup
  {"create", "mq_send", "len_read", "len_unlock", "len_bcast", "header",
   "data_read", "data_send", "data_reset", "data_bcast", "destroy", "reply", "done"}

CacheLabels == LenLabels \cup DataLabels \cup
  {"recv", "zero_len", "assert_zero", "set_len", "clear_bytes", "len_unlock",
   "len_bcast", "pread", "set_bytes", "signal", "done", "exit"}

Goto(p, from, to) ==
  /\ pc[p] = from
  /\ pc' = [pc EXCEPT ![p] = to]

(* A step of p alone that touches no mutex or condition variable. *)
Step(p, from, to) == Goto(p, from, to) /\ UNCHANGED sync

(* pthread_mutex_lock, and the return from pthread_cond_wait. *)
Lock(p, m, from, to) ==
  /\ pc[p] \in from /\ p \notin waiting
  /\ mutex[Slot[p][m]] = "free"
  /\ mutex' = [mutex EXCEPT ![Slot[p][m]] = p]
  /\ pc' = [pc EXCEPT ![p] = to]
  /\ UNCHANGED <<waiting, data>>

Unlock(p, m, from, to) ==
  /\ Goto(p, from, to)
  /\ mutex' = [mutex EXCEPT ![Slot[p][m]] = "free"]
  /\ UNCHANGED waiting

(* pthread_cond_wait releases the mutex and blocks in one step. *)
Block(p, m, from, to) ==
  /\ Goto(p, from, to)
  /\ mutex' = [mutex EXCEPT ![Slot[p][m]] = "free"]
  /\ waiting' = waiting \cup {p}
  /\ UNCHANGED data

(* Signal or broadcast of the condition variable q waits on. *)
Notify(p, q, from, to) ==
  /\ Goto(p, from, to)
  /\ waiting' = waiting \ {q}
  /\ UNCHANGED mutex

Init ==
  /\ pc = [proxy |-> "create", cache |-> "recv"]
  /\ requested = FALSE
  /\ mutex = [s \in 1 .. 2 |-> "free"]
  /\ waiting = {}
  /\ file_length = 0 /\ bytes_written = 0
  /\ buffer = [i \in 1 .. ChunkSize |-> 0]
  /\ fileLen \in FileLens
  /\ c_read_len = 0 /\ c_bytes = 0
  /\ file_len = 0 /\ read_len = 0 /\ bytes_transferred = 0
  /\ header = NoHeader
  /\ out = << >>
  /\ failed = FALSE

-----------------------------------------------------------------------------
(* handle_with_cache: the proxy's side. *)

(* create_shm_channel: a new object, zeroed, its mutexes and condition      *)
(* variables initialised; nobody else knows of it yet.                      *)
Create ==
  /\ Goto("proxy", "create", "mq_send")
  /\ mutex' = [s \in 1 .. 2 |-> "free"]
  /\ waiting' = {}
  /\ file_length' = 0 /\ bytes_written' = 0
  /\ UNCHANGED <<requested, buffer, cacheLocals, proxyLocals, client>>

MqSend ==
  /\ Step("proxy", "mq_send", "len_lock")
  /\ requested' = TRUE
  /\ UNCHANGED <<cells, cacheLocals, proxyLocals, client>>

ProxyLenLock ==
  Lock("proxy", "file_len_mutex", {"len_lock", "len_blocked"}, "len_check")

ProxyLenCheck ==
  /\ Step("proxy", "len_check", IF file_length = 0 THEN "len_wait" ELSE "len_read")
  /\ UNCHANGED data

ProxyLenWait == Block("proxy", "file_len_mutex", "len_wait", "len_blocked")

ProxyLenRead ==
  /\ Step("proxy", "len_read", "len_unlock")
  /\ file_len' = file_length
  /\ UNCHANGED <<requested, cells, cacheLocals, read_len, bytes_transferred, client>>

(* Mutant: the unlock is forgotten. *)
Mutant_KeepsMutex ==
  /\ Step("proxy", "len_unlock", "len_bcast")
  /\ UNCHANGED data

ProxyLenUnlock ==
  /\ Unlock("proxy", "file_len_mutex", "len_unlock", "len_bcast")
  /\ UNCHANGED data

ProxyLenBroadcast ==
  /\ Notify("proxy", "cache", "len_bcast", IF file_len < 0 THEN "destroy" ELSE "header")
  /\ UNCHANGED data

SendHeader ==
  /\ Step("proxy", "header", "data_lock")
  /\ header' = [status |-> "OK", length |-> file_len]
  /\ UNCHANGED <<requested, cells, cacheLocals, proxyLocals, out, failed>>

ProxyDataLock ==
  Lock("proxy", "data_mutex", {"data_lock", "data_blocked"}, "data_check")

ProxyDataCheck ==
  /\ Step("proxy", "data_check", IF bytes_written = 0 THEN "data_wait" ELSE "data_read")
  /\ UNCHANGED data

ProxyDataWait == Block("proxy", "data_mutex", "data_wait", "data_blocked")

ProxyDataRead ==
  /\ Step("proxy", "data_read", "data_send")
  /\ read_len' = bytes_written
  /\ UNCHANGED <<requested, cells, cacheLocals, file_len, bytes_transferred, client>>

Send ==
  /\ Step("proxy", "data_send", "data_reset")
  /\ out' = out \o SubSeq(buffer, 1, read_len)
  /\ UNCHANGED <<requested, cells, cacheLocals, proxyLocals, header, failed>>

(* gfs_send comes back short after n bytes: the handler returns, with       *)
(* data_mutex held, bytes_written not reset and the segment not returned.   *)
SendFails ==
  /\ Step("proxy", "data_send", "done")
  /\ \E n \in 0 .. (read_len - 1) : out' = out \o SubSeq(buffer, 1, n)
  /\ failed' = TRUE
  /\ UNCHANGED <<requested, cells, cacheLocals, proxyLocals, header>>

(* Mutant: bytes_written is not reset after the send. *)
Mutant_NoReset ==
  /\ Step("proxy", "data_reset", "data_unlock")
  /\ UNCHANGED data

ResetBytes ==
  /\ Step("proxy", "data_reset", "data_unlock")
  /\ bytes_written' = 0
  /\ UNCHANGED <<requested, file_length, buffer, cacheLocals, proxyLocals, client>>

ProxyDataUnlock ==
  /\ Unlock("proxy", "data_mutex", "data_unlock", "data_bcast")
  /\ UNCHANGED data

(* Mutant: the proxy stops one byte early. *)
Mutant_StopsEarly ==
  /\ bytes_transferred' = bytes_transferred + read_len
  /\ Notify("proxy", "cache", "data_bcast",
            IF bytes_transferred' + 1 < file_len THEN "data_lock" ELSE "destroy")
  /\ UNCHANGED <<requested, cells, cacheLocals, file_len, read_len, client>>

ProxyDataBroadcast ==
  /\ bytes_transferred' = bytes_transferred + read_len
  /\ Notify("proxy", "cache", "data_bcast",
            IF bytes_transferred' < file_len THEN "data_lock" ELSE "destroy")
  /\ UNCHANGED <<requested, cells, cacheLocals, file_len, read_len, client>>

(* destroy_shm_seg up to the unlink: destroys data_mutex and the condition  *)
(* variables, clears the fields.  (CacheGoneOnDestroy: the cache reads them *)
(* no more, so that the two writes are one step.)                           *)
Destroy ==
  /\ Step("proxy", "destroy", IF file_len < 0 THEN "reply" ELSE "done")
  /\ file_length' = 0 /\ bytes_written' = 0
  /\ UNCHANGED <<requested, buffer, cacheLocals, proxyLocals, client>>

SendNotFound ==
  /\ Step("proxy", "reply", "done")
  /\ header' = [status |-> "FILE_NOT_FOUND", length |-> 0]
  /\ UNCHANGED <<requested, cells, cacheLocals, proxyLocals, out, failed>>

Proxy ==
  \/ Create \/ MqSend
  \/ ProxyLenLock \/ ProxyLenCheck \/ ProxyLenWait \/ ProxyLenRead
  \/ ProxyLenUnlock \/ ProxyLenBroadcast \/ SendHeader
  \/ ProxyDataLock \/ ProxyDataCheck \/ ProxyDataWait \/ ProxyDataRead
  \/ Send \/ ResetBytes \/ ProxyDataUnlock \/ ProxyDataBroadcast
  \/ Destroy \/ SendNotFound

-----------------------------------------------------------------------------
(* cache_worker: the cache's side. *)

(* The worker has the message, has looked the file up and opened and mapped *)
(* the segment.                                                             *)
Receive ==
  /\ requested
  /\ Step("cache", "recv", "zero_len")
  /\ UNCHANGED data

ZeroLength ==
  /\ Step("cache", "zero_len", "assert_zero")
  /\ file_length' = 0
  /\ UNCHANGED <<requested, bytes_written, buffer, cacheLocals, proxyLocals, client>>

(* "Memory segment should have been set zero.", or the process exits. *)
AssertZero ==
  /\ Step("cache", "assert_zero", IF file_length # 0 THEN "exit" ELSE "len_lock")
  /\ UNCHANGED data

CacheLenLock ==
  Lock("cache", "file_len_mutex", {"len_lock", "len_blocked"}, "len_check")

CacheLenCheck ==
  /\ Step("cache", "len_check", IF file_length # 0 THEN "len_wait" ELSE "set_len")
  /\ UNCHANGED data

SetLength ==
  /\ Step("cache", "set_len", "clear_bytes")
  /\ file_length' = fileLen
  /\ UNCHANGED <<requested, bytes_written, buffer, cacheLocals, proxyLocals, client>>

ClearBytes ==
  /\ Step("cache", "clear_bytes", "len_unlock")
  /\ bytes_written' = 0
  /\ UNCHANGED <<requested, file_length, buffer, cacheLocals, proxyLocals, client>>

CacheLenUnlock ==
  /\ Unlock("cache", "file_len_mutex", "len_unlock", "len_bcast")
  /\ UNCHANGED data

(* On a miss, and for an empty file, the worker is done with the segment. *)
CacheLenBroadcast ==
  /\ Notify("cache", "proxy", "len_bcast", IF fileLen > 0 THEN "data_lock" ELSE "done")
  /\ UNCHANGED data

CacheDataLock ==
  Lock("cache", "data_mutex", {"data_lock", "data_blocked"}, "data_check")

(* Mutant: the cache does not wait for the buffer to be empty. *)
Mutant_NoWaitForEmpty ==
  /\ Step("cache", "data_check", "pread")
  /\ UNCHANGED data

CacheDataCheck ==
  /\ Step("cache", "data_check", IF bytes_written # 0 THEN "data_wait" ELSE "pread")
  /\ UNCHANGED data

(* Both waits of the worker: for file_length = 0 and for bytes_written = 0. *)
CacheWait ==
  \E phase \in {<<"file_len_mutex", "len_wait", "len_blocked">>,
                <<"data_mutex", "data_wait", "data_blocked">>} :
    Block("cache", phase[1], phase[2], phase[3])

(* Mutant: a chunk may be a byte longer than the buffer. *)
Mutant_LongChunk ==
  /\ Step("cache", "pread", "set_bytes")
  /\ c_read_len' = IF fileLen - c_bytes <= ChunkSize THEN fileLen - c_bytes ELSE ChunkSize + 1
  /\ buffer' = [i \in 1 .. ChunkSize |->
                  IF i <= c_read_len' THEN c_bytes + i ELSE buffer[i]]
  /\ UNCHANGED <<requested, file_length, bytes_written, fileLen, c_bytes, proxyLocals, client>>

(* Mutant: every chunk is read from the start of the file. *)
Mutant_FromStart ==
  /\ Step("cache", "pread", "set_bytes")
  /\ c_read_len' = IF fileLen - c_bytes < ChunkSize THEN fileLen - c_bytes ELSE ChunkSize
  /\ buffer' = [i \in 1 .. ChunkSize |-> IF i <= c_read_len' THEN i ELSE buffer[i]]
  /\ UNCHANGED <<requested, file_length, bytes_written, fileLen, c_bytes, proxyLocals, client>>

(* The next chunk of the file goes to the front of the buffer. *)
Pread ==
  /\ Step("cache", "pread", "set_bytes")
  /\ c_read_len' = IF fileLen - c_bytes < ChunkSize THEN fileLen - c_bytes ELSE ChunkSize
  /\ buffer' = [i \in 1 .. ChunkSize |->
                  IF i <= c_read_len' THEN c_bytes + i ELSE buffer[i]]
  /\ UNCHANGED <<requested, file_length, bytes_written, fileLen, c_bytes, proxyLocals, client>>

SetBytes ==
  /\ Step("cache", "set_bytes", "signal")
  /\ bytes_written' = c_read_len
  /\ UNCHANGED <<requested, file_length, buffer, cacheLocals, proxyLocals, client>>

CacheSignal ==
  /\ Notify("cache", "proxy", "signal", "data_unlock")
  /\ UNCHANGED data

(* Mutant: the cache's loop runs once too often. *)
Mutant_OnceMore ==
  /\ c_bytes' = c_bytes + c_read_len
  /\ Unlock("cache", "data_mutex", "data_unlock",
            IF c_bytes' <= fileLen THEN "data_lock" ELSE "done")
  /\ UNCHANGED <<requested, cells, fileLen, c_read_len, proxyLocals, client>>

CacheDataUnlock ==
  /\ c_bytes' = c_bytes + c_read_len
  /\ Unlock("cache", "data_mutex", "data_unlock",
            IF c_bytes' < fileLen THEN "data_lock" ELSE "done")
  /\ UNCHANGED <<requested, cells, fileLen, c_read_len, proxyLocals, client>>

Cache ==
  \/ Receive \/ ZeroLength \/ AssertZero
  \/ CacheLenLock \/ CacheLenCheck \/ SetLength \/ ClearBytes
  \/ CacheLenUnlock \/ CacheLenBroadcast
  \/ CacheDataLock \/ CacheDataCheck \/ CacheWait \/ Pread \/ SetBytes
  \/ CacheSignal \/ CacheDataUnlock

-----------------------------------------------------------------------------
(* pthread_cond_wait may return without a signal. *)
SpuriousWakeup ==
  /\ \E p \in waiting : waiting' = waiting \ {p}
  /\ UNCHANGED <<pc, mutex, data>>

Next == Proxy \/ Cache \/ SendFails \/ SpuriousWakeup

Spec == Init /\ [][Next]_vars

(* Both threads run.  The one lock step that needs more is the proxy's on   *)
(* slot 2: a cache worker that waits for an empty buffer may be woken       *)
(* spuriously, and take and release that mutex, any number of times.        *)
FairSpec == Spec /\ WF_vars(Proxy) /\ WF_vars(Cache) /\ SF_vars(ProxyLenLock)

-----------------------------------------------------------------------------
TypeOK ==
  /\ pc \in [Processes -> ProxyLabels \cup CacheLabels]
  /\ pc["proxy"] \in ProxyLabels /\ pc["cache"] \in CacheLabels
  /\ requested \in BOOLEAN
  /\ mutex \in [1 .. 2 -> Processes \cup {"free"}]
  /\ waiting \in SUBSET Processes
  /\ file_length \in FileLens \cup {0}
  /\ bytes_written \in 0 .. ChunkSize
  /\ buffer \in [1 .. ChunkSize -> Nat]
  /\ fileLen \in FileLens
  /\ c_read_len \in 0 .. ChunkSize /\ c_bytes \in Nat
  /\ file_len \in FileLens \cup {0}
  /\ read_len \in 0 .. ChunkSize /\ bytes_transferred \in Nat
  /\ header \in [status : {"none", "OK", "FILE_NOT_FOUND"}, length : Nat]
  /\ out \in Seq(Nat)
  /\ failed \in BOOLEAN

(* The cache never fills the buffer (and publishes its length) while the    *)
(* proxy sends from it, although the two hold different mutexes meanwhile:  *)
(* the flag bytes_written alone keeps them apart.                           *)
BufferExclusive ==
  ~ (/\ pc["cache"] \in {"pread", "set_bytes"}
     /\ pc["proxy"] \in {"data_read", "data_send", "data_reset"})

(* What the client has got is a prefix of the file: no byte twice, none     *)
(* missing, none out of order, over any number of chunks.                   *)
DeliveredPrefix ==
  /\ \A i \in 1 .. Len(out) : out[i] = i
  /\ out # << >> => Len(out) <= fileLen

(* When the proxy destroys the mutex and the condition variables and clears *)
(* the fields, the cache worker neither waits on them nor looks at a field  *)
(* or takes a lock of this segment again.                                   *)
CacheGoneOnDestroy ==
  pc["proxy"] \in {"destroy", "reply"} \/ (pc["proxy"] = "done" /\ ~failed) =>
    /\ "cache" \notin waiting
    /\ pc["cache"] \in {"clear_bytes", "len_unlock", "len_bcast", "signal",
                       "data_unlock", "done"}
    /\ pc["cache"] = "data_unlock" => c_bytes + c_read_len >= fileLen
    /\ pc["cache"] = "len_bcast" => fileLen <= 0

(* The proxy's side of the conversation, seen by the client, keeps the      *)
(* promise of FileTransfer.                                                 *)
Transfer == INSTANCE FileTransfer WITH
  status <- IF pc["proxy"] # "done" THEN "open"
            ELSE IF failed THEN "aborted" ELSE "complete"

ImplementsTransfer == Transfer!Spec

(* A cache worker that starts on a missing or empty file gets free again,   *)
(* whatever the proxy does, and so does one whose proxy has sent it all.    *)
CacheFreed ==
  fileLen <= 0 \/ (pc["proxy"] = "done" /\ ~failed) ~> pc["cache"] = "done"

(* The four ways a request can get stuck.  An empty file's length looks     *)
(* like no length at all; the broadcast of a miss falls between the proxy's *)
(* check and its wait; the cache's signal of a full buffer falls there, or  *)
(* the proxy's broadcast of an empty one falls between the cache's check    *)
(* and its wait, and then both sides wait for the other.                    *)
EmptyUnnoticed == fileLen = 0 /\ pc["proxy"] \in LenLabels
MissUnnoticed ==
  /\ fileLen < 0 /\ pc["cache"] = "done"
  /\ pc["proxy"] = "len_blocked" /\ "proxy" \in waiting
FullUnnoticed ==
  /\ bytes_written # 0 /\ pc["cache"] # "signal"
  /\ pc["proxy"] = "data_blocked" /\ "proxy" \in waiting
EmptiedUnnoticed ==
  /\ bytes_written = 0 /\ pc["proxy"] \in DataLabels \ {"data_unlock"}
  /\ pc["cache"] = "data_blocked" /\ "cache" \in waiting

(* Every request ends for its client, or in one of these four: the proxy    *)
(* gets past every mutex and every other wait.  The length of a non-empty   *)
(* file in particular arrives: the proxy may miss its broadcast, but then   *)
(* the cache's data_mutex, which is the proxy's file_len_mutex, makes the   *)
(* first chunk's signal wait for it.                                        *)
RequestSettles ==
  requested ~> \/ pc["proxy"] = "done" \/ EmptyUnnoticed \/ MissUnnoticed
               \/ FullUnnoticed \/ EmptiedUnnoticed

(* "if the file length is > -1, it will send the shared memory data to      *)
(* client" (proj3readme.pdf, flow 6): a file that is not empty is sent to   *)
(* its end, unless the client is gone.                                      *)
FoundSent == fileLen > 0 ~> Len(out) = fileLen \/ failed

=============================================================================
