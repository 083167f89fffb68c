# TLA+ models of the CS8803 course projects

The repository holds four C projects: socket exercises (`src/proj1`), the
getfile protocol with single- and multithreaded clients and servers
(`src/proj1/getfile`, `src/proj1/multithreadgetfile`), a web proxy with a
shared-memory cache (`src/proj3`) and an image service over RPC (`src/proj4`).
This directory models them in TLA+, checks the models with TLC on small
instances, and proves their central safety properties with TLAPS for every
value of the constants.

Run everything inside this directory: `tlc -workers 2 -config X.cfg MCX.tla`,
`tlapm XProofs.tla`. `PROJECT.json` maps every definition to the source lines
it stands for.

## The system: components, state, operations

### Web proxy with cache (`src/proj3`)

| component | state | operations |
|---|---|---|
| proxy segment pool (`handle_with_cache.c`, `webproxy.c`) | `fldes_queue`, `fldes_queue_size`, `fldes_mutex`, two condition variables, the shared-memory objects | `init_proxy`; take a name; `create_shm_channel`; `destroy_shm_seg`; the signal handler |
| shared-memory conversation (`handle_with_cache.c`, `simplecached.c`) | the segment's header `shm_data` (two mutexes, two condition variables, `file_length`, `bytes_written`) and its buffer | the proxy reads the length and empties the buffer; the cache writes the length and fills the buffer |
| cache daemon's queue (`simplecached.c`) | a POSIX message queue, main's variable `data`, `mq_data_queue`, `steq_size`, one mutex, two condition variables | main receives and enqueues; workers pop, look the path up, open the segment, serve it |
| curl handler (`handle_with_curl.c`) | none between requests | one libcurl call, header, body |
| `gfserver`, `simplecache` | no source | call the handlers, `gfs_send`, `simplecache_get` |

A proxy worker takes a segment name from the pool, creates the object, and
sends path and name over the message queue. The daemon's main thread receives
it and enqueues it for a cache worker, which maps the segment. The two then
talk over the segment; the proxy unlinks it and gives the name back.

Hard behaviour: waits and wakeups on condition variables that come after the
unlock; a struct whose two mutexes are declared in different orders by the two
programs; one variable shared by all queue entries; early returns; a signal
handler that takes from the queue without its lock; restarts of either program.
Correct means: no two threads ever share a segment, no segment gets lost, what
the client gets is the file it asked for, each wait ends.

### getfile and transferfile (`src/proj1`)

| component | state | operations |
|---|---|---|
| getfile protocol (`getfile/gfclient.c`, `gfserver.c`, `handler.c`, `gfclient_download.c`) | the request structure, the reused receive buffer, the open descriptors, the local file | `gfc_perform`, `gfserver_serve`, `gfs_send*`, `gfs_abort`, `handler_get` |
| multithreaded getfile server (`multithreadgetfile/handler.c`, `gfserver_main.c`) | `workq`, `workqlock`, `newrq_cond`, the open descriptors | accept, `handler_get`, `worker_main` with its two error paths, `gfs_abort` |
| multithreaded download client (`multithreadgetfile/gfclient_download.c`) | `workq` as a linked list, the counters of paths and of local files, the files | main fills the queue, creates and joins threads; workers take a path, open a numbered file, download, unlink |
| file exchange (`transferfile/*.c`) | the sockets, the two files | client: connect, upload, close, connect, download; server: accept, receive, accept, send |
| content table (`content.c`), workload (`workload.c`), `steque.c` | a sorted array; a counter; a linked list with front, back and count | `content_get`; `workload_get_path`; queue operations |
| echo client and server | none | one message each way |

Hard behaviour: a byte stream read in pieces; a receive buffer that keeps the
last request; sizes kept in unsigned variables; a request read after it was
freed; worker wakeup; descriptors that are closed while a worker goes on using
their number, or never closed; clients that disappear; files that change under
a reader; files named by a counter that all threads share; two connections of
one client accepted among those of others.

### Image service (`src/proj4`)

| component | state | operations |
|---|---|---|
| client (`minifyjpeg_main.c`, `minify_via_rpc.c`) | the queue of requests under one mutex; per worker an RPC handle, the input and output buffer | read the input, call with a timeout, write the output; exit on the first failure |
| server (`minifyjpeg_svc.c`, `minifyjpeg.c`, `magickminify.c`) | the call it serves | one call at a time; exit on an image it cannot decode |

Hard behaviour: the timeout against the late answer, one failed call that ends
all, a result that is larger than the buffer it is decoded into.

## Modules

    Steque
        │ is the queue of
    DownloadPool ──── DownloadPoolProofs (also what a list operation of Steque does)
    GetFile ───────── GetFileProofs      (its download is one step of DownloadPool)
    SegmentPool ───── SegmentPoolProofs
        │ gives one segment to one thread
    ShmChannel ────── ShmChannelProofs
        │ implements
    FileTransfer
    CacheQueue ────── CacheQueueProofs   (its transfer is ShmChannel in one step)
    FileServer ────── FileServerProofs
    TransferFile ──── TransferFileProofs
    ImageService ──── ImageServiceProofs

Conventions in all modules. A mutex is its owner; where nothing else can be
seen from outside, a critical section is one step. A condition variable is the
set of threads blocked on it and not yet signalled; `pthread_cond_wait` is two
steps (block and release; own the mutex again), and any blocked thread may wake
spuriously. `pc` holds the line a thread is at, one label per step another
thread can see. Definitions called `Mutant_...` are plausible bugs of the
definition that follows them; nothing in the models uses them, they show
that each property can fail.

**Steque** is `steque.c` with its nodes and pointers: a record of `front`,
`back`, `N` and the allocated nodes. `Holds(s, nodes)` says that the pointers
form the list `nodes`, and nothing else is allocated. DownloadPool runs on the
linked list itself; the other modules use a sequence for a steque, which
the first part of DownloadPoolProofs justifies.

**DownloadPool** is the download client. `Fill`, `Create`, `CreateFails`, `Join`
are main, `Take` is the section under `workqlock` in which a worker takes a
path, numbers the local file and creates it, `Perform` is one `gfc_perform` with
any result, `Unlink` and `Status` are the two tests after it. `OpenFails` is the
`exit` of `openFile`. `Status` ends with `gfc_cleanup` and `free` of the request:
the `gfc_cleanup` of this directory's `gfclient.o`, which is what the program is
linked with, frees the two strings of the request and not the request (unlike the
sibling in `getfile/gfclient.c`), so the request is freed once.

**GetFile** is the protocol with both of its programs: clients that make one
request after the other, a server that serves one connection after the other,
and between them a stream that delivers any front of what was written. The
units of a response are its scheme, its status, the digits of the length, the
line ends and the bytes of the file, so a response may be cut everywhere the
code can tell the difference; a request may be cut before, behind or inside the
name (`RequestWords`, `RequestNoName`, `RequestCut`, `RequestNoEnd`).
`readData` is what the last request left in the buffer that the server neither
clears nor terminates; `RequestOverflows` is its `strcpy` past the end of the
copy. `HeaderCut` is a header whose end is missing: the client's copy of it has no
end either, so the length loses digits, or is read on into what the heap holds
behind them and becomes a longer one. `HeaderOnly`, `Eof`, `Reset`, `Refused`
leave the request as the code does, with uninitialised fields (`headerfunc` among
them) and reads of freed memory as a free choice of results, a crash included.
`Exit` is the end of the program, regular or by such a read.
`content_get` is the binary search as a recursive function on pairs of bounds;
`Digits` is the number of digits the length is printed with, `Front` what is
left of it without its last ones.

**SegmentPool** is `handle_with_cache` from the pool's side. `AcqLock ...
AcqBroadcast` are lines 167-175, `Create` line 180, `Served` the conversation
as one step, `SendFails` the early return at 237-241 (the name is `lost`),
`Unlink` and `RelLock ... RelBroadcast` are `destroy_shm_seg`. `SigStart`,
`SigPop`, `SigExit` are the signal handler of `webproxy.c`, which runs without
the mutex while the workers go on; `SigPopRace` is a thread whose pop races
with it; `AcqUnderflow` is `steque_pop`'s exit on an empty queue. `Restart`
starts the proxy again on the objects it left.

**ShmChannel** is one request over one segment, one access to the segment per
step (the Makefile builds without optimisation). `Slot` is where each program's
struct has its two mutexes: the proxy's `data_mutex` is the cache's
`file_len_mutex` and the other way round. Files are numbered bytes, `ChunkSize`
is `segment_size - sizeof(shm_data) - 1`. `SendFails` is a short `gfs_send`.

**FileTransfer** is the abstract specification: what a client is promised for
one request. ShmChannel implements it (`ImplementsTransfer`) by the mapping
`status <- IF pc["proxy"] # "done" THEN "open" ELSE ...`; the client's bytes and
header are the same variables.

**CacheQueue** is the way of requests from proxy threads to cache workers.
`Receive`, `CopyPath`, `CopyFldes` are the parts of one `mq_receive` into
main's `data`; `Enqueue` puts `&data` into the queue, so an entry carries only
the (ghost) request it was meant for, and `GetFile` and `OpenSegment` read
whatever `data` holds then. A path read between the two halves of a copy names
no file. A request opens the message queue and sends to it in two steps
(`OpenQueue`, `Send`): a thread that had the old queue open when the daemon was
restarted sends to nobody, and a send that fails is only logged (`SendLost`);
either way the thread waits for its answer. `Restart` is a stop and start of the
daemon. `Serve` is a whole transfer.

**FileServer** is the accepting thread with `handler_get`, and `worker_main`.
A client is a number, a descriptor the lowest free one, `conn` what is behind
it. The library of this directory is an object file without source: what it
does is modelled as its header and its sibling `getfile/gfserver.c` say, and,
where they differ, as the machine code of `gfserver.o` does (`objdump -dr`). It
closes a connection once the announced length was sent and the client has closed;
`gfs_sendheader` closes nothing, whatever the status; a failed `accept` is tried
again after a second, which changes no state; a `gfs_send` of no bytes returns 0,
and one of -1 bytes, a size the kernel refuses, -1. So after a failed read the
worker sends the error header, aborts, calls `gfs_send` all the same
(`SendNothing`), finds the result equal to the length it asked for, and reads
again. The definitions that rest on the object file alone are marked external. A
file may be cut on disk after its length was read; a client may quit, which may
end the process (SIGPIPE) at the next write.

**TransferFile** is both programs of `transferfile`, with the listen queue and
sockets of bounded capacity, and every way out of the two loops. What a program
does because of the other one's end (`ClientSendFails`, `ClientRecvFails`,
`ServerSendFails`, `Refused`) is kept apart from what can befall it at any time
(`ClientMishap`, `ServerMishap`): a file that cannot be opened after the
connection was made, a read, write or `recv` that fails, an `accept` that fails, a
signal. A failed `fread` or `recv` is taken for the end of the file by the code;
the other failures end the program. `broken` remembers the connections on which a
program broke off like this, because the other side cannot tell.

**ImageService** is the RPC client with its worker threads and the server. An
input is missing, no image, or an image whose result is smaller or larger than
itself. `CallFails` is a call that has no reply, because the time is over or the
server is gone; the server answers whether or not anyone still waits. `WriteFails`
is a short write, which nobody looks at, like a failed `fopen` (`OpenFails`): both
leave the request in `lost`. `JoinNull` is main's `clnt_destroy` of a handle that
was never made, when its thread has ended and whatever the later ones do.
`Overrun` decodes a result into a buffer of the input's size: what lies behind
it may be the bytes of other workers.

## Runs

| run | instance | what it asks |
|---|---|---|
| `segment_pool` | 3 threads, 2 segments, fair | Are names handed out to one thread at a time and never dropped? Does the counter always cover the pop, does a release never wait, does nobody sleep beside a free name, is every sleeper woken, does an object exist exactly while it is used? |
| `channel` | chunks of 2 bytes, files of -1 to 5 bytes, fair | Is the client's data right as far as it gets; is the promise of FileTransfer kept; is the cache worker free afterwards; is every request over or stuck in one of four named ways? |
| `channel_found` | a file of two chunks | violation: a lost signal stops the transfer |
| `cache_queue` | 2 proxy threads, 2 segments, 2 workers, 3 requests, 1 restart, both queues of capacity 1 | Are the daemon's counter, limits and wakeups right? In which direction can the shared variable be off? |
| `cache_queue_one` | the same with 1 segment, no restart, fair | With one request outstanding, does each whose message was delivered come to a worker with its own file and segment; is an answer its own? |
| `cache_queue_mixed` | 2 segments | violation: a request gets another one's file |
| `file_server` | 2 workers, 2 clients, 2 descriptors; missing, empty, two-buffer files, fair | Is every request handled once, no wakeup lost, every descriptor closed when it should be and no other touched, every client released? |
| `file_server_abort` | files that exist | violation: a worker aborts another client's connection |
| `transfer_file` | 2 clients with files of 2 and 3 buffers, a server's file of 3, sockets of 2, listen queue of 2, fair; anything may fail | Are whole files saved and received on connections nobody broke off; does what goes wrong otherwise begin with crossed connections? |
| `getfile` | 1 program with 2 requests for a file of 2 bytes and a missing name that begins with the file's; sockets of 6 units, 2 descriptors, misread lengths up to 5, fair | Is a finished request told the truth unless its own request or header was cut? Which descriptors leak? Does every request end? |
| `download_pool` | 3 threads, 2 requests each, 2 paths | Is the linked list always the queue it stands for? Are the files on disk exactly those they should be, each under its own number? |
| `image_service` | 3 threads, 3 requests of any kind, fair | Does every output hold its own image, has a client that ends itself served all but what it could not open or write, does the client always end? |

Two assumptions are checked with the runs: `ContentGetFinds` in MCGetFile
(`content_get` finds exactly the keys of the table, over a table of three keys
with common beginnings) and `StequeIsSequence` in MCDownloadPool (all sequences
of up to five list operations against the operations on sequences).

Bounds. Three threads and two segments make one thread wait while another
releases and a third takes. Five bytes in chunks of two give full and partial
chunks, three rounds of the loop and a buffer refilled twice. Queues of capacity
one make both ends of the daemon's queue and of the message queue wait; three
requests let the shared variable be overwritten by one that reuses a segment.
Two clients and two descriptors are the smallest with a descriptor that is
closed and reused; the safety properties are proved for any number. In
`transfer_file` one client's file and the server's do not fit a socket and the
other client's does, so both the wait for room and the close with data in the
socket happen; two clients are enough to cross connections, and either of them
can fail at any point while the other goes on. In `getfile`, a name that begins
with another lets an old buffer complete a cut request to a path nobody asked
for; a socket of six units holds the whole header of the file and not all of the
file, so the server waits for room; length 2 has two digits in base 2, so a cut
header reads as a shorter length, and with up to MaxStale = 2 digits more as any
length up to MaxLength = 5, among them ones that are never reached; two
descriptors and two requests let the server run out of them. In `download_pool`
the workload is shorter than the queue, so equal paths get different numbers. In
`image_service`, three calls compete for one server. MaxClients, MaxFds,
MaxRequests, MaxRestarts, MaxLength, MaxStale, Requests, SockBuf, N, nthreads,
nrequests and, in FileServer, the offset that is not counted below -1 are bounds
of the models; the other constants are the programs' options or their limits
made small.

`CHECK_DEADLOCK FALSE` is used where the modelled program may come to rest: its
requests are over. The pool never stops, and deadlock is checked there.

## Fairness

Threads are preemptive, so a thread that can take a step takes it: weak fairness
per thread. A mutex is only weakly fair as such: a thread that asks for one that
is free again and again is assumed to get it at last (strong fairness of the
lock steps), which holds for the futex-based mutexes of Linux with several
processors in practice, and no liveness property holds without it. In ShmChannel
this is needed for a single step. Nothing outside is fair: no request has to
come, no send has to fail, no wakeup has to be spurious, no signal, restart,
failing call or quitting client has to happen. In SegmentPool the conversation
(`Served`) is assumed to end; ShmChannel shows when it may not. CacheQueue
assumes no such thing: `Serve` has no fairness, since a transfer may stop for
ever even with one segment (`channel_found`). There `mq_open` is repeated until
it succeeds, and `mq_send` gets a place in the queue if there is one again and
again (strong fairness, as for a mutex). In FileServer a client that has its
answer closes its connection, as `gfc_perform` does. In GetFile what was written
arrives, though cut anywhere. In ImageService nothing is asked of the server:
the client's threads and the clock of the RPC library are enough. That clock
covers the wait for a reply; that `clnt_create` and the sending of a call return
is an assumption of its own (a call larger than the socket's buffer, to a server
that is stopped but not dead, could block in the send).

## What the checks show

The pool is right. Its counter, kept beside the queue, never misleads a thread,
although checks and pops are made in different critical sections of several
threads; the late broadcasts lose no wakeup; no two threads ever have the same
segment. The one exception is the signal handler, which pops without the lock
while the process ends (all properties say "while the proxy is up"). Failed
sends are a leak: after as many as there are segments every request waits for
ever, which is why `WaiterWakes` has the case `lost = Segments`.

The conversation's data is right, its waits are not. Although the two programs
lock different mutexes under the same names, `bytes_written` alone keeps buffer
and chunks in order. But signals can fall between a check and a wait made under
different mutexes. `RequestSettles` is the complete list of what can happen: a
request ends, or the file is empty (a length of 0 cannot be told from one not
yet written), or the broadcast of a miss, the signal of a full buffer or the
broadcast of an empty buffer was missed. `CacheFreed` says when the daemon gets
its worker back: always for a missing or empty file, and after a transfer that
the proxy sent whole.

The daemon's queue is right, its content is not: every entry is the same
pointer. With one request outstanding this is harmless; with two, requests are
answered with each other's files. `NeverStale` says how: only with data of
later requests. `AllServed` says, for one segment, that no thread of either
program sleeps for ever on the way: a request whose message was delivered comes to
a worker, with its own file and its own segment. What it does not say is that the
transfer then ends; the conversation has its own ways to stop.

This explains the tests listed in `src/proj3/proj3readme.pdf` (page 2). With one
segment, or one proxy thread, requests are not mixed up (`cache_queue_one`),
though a transfer can still stop by a lost signal (`channel_found`). The
test with N threads and N segments is called unstable, "a possible cause could be
when multiple proxy worker threads get same memory segment ID". That is
`SegmentExclusive`, which holds (and is proved). The causes are the shared
variable of the daemon and the lost signals.

The getfile protocol is honest as long as a header and a request come in one
piece, which is all that its loopback tests ever see. `OutcomeHonest` holds for
every request whose own bytes were not cut, whatever happened to the requests
before it: a kept file is whole and the one asked for. A cut header is read as a
shorter or a longer length and writes memory behind the buffer into the file, or
crashes; a cut request is completed with what the one before it left in the
server's buffer, and the file of another name is sent. After a miss, which is
told from the freed request, the local file may stay, with nothing in it.
`DescriptorsExact` shows the leak: precisely the connections whose file was sent
to its end stay open, and when the descriptors are used up `gfserver_serve`,
which "does not return" (`gfserver.h:72`), returns. `RequestEnds` names the ways
in which a request hangs: the server blocks on a client that gave up its
response without closing (`ServerBlocked`), or the client counts to a length it
misread (`Miscounted`): a shorter one it has already passed, or a longer one
that never comes, while the server keeps the connection open.

The download client keeps its files apart. `FilesExact` holds through every
interleaving of workers, failed downloads and unlinks, because path, number and
creation of the file are one section under the lock; without a thread that could
not be created exactly its share of the queue stays undone, and no error is
reported.

The getfile server's queue is right as well (`NoLostWakeup`, `HandledOnce`).
Its descriptors are closed as they should be except for missing and empty
files, whose connections stay open for ever (`DescriptorsExact` states exactly
that). Its errors are not handled: a worker that cannot read or send stays in
its loop and aborts the same descriptor number for ever, whoever has it by
then. `OwnConnection` shows that without a cut file no other connection is
touched. A missing file ends a worker, and a client that quits ends the server:
`ClientReleased` holds only up to these.

The transfer programs are right for one client at a time whose calls succeed. The
end of a connection is all that tells the end of a file, so a client killed while
it uploads, a `recv` or `fread` that fails and a server that ends leave a part
that is taken for the whole; `FilesExact` says that nothing else does, and that
what happens on one connection spoils no other's file. With several clients, the
server may take one client's upload for another one's download: because their
connections arrive that way, or because a client failed before its second one.
Both sides then wait to receive, or the server dies sending to a closed
connection. `FailsOnlyCrossed` and `ServedUnlessCrossed` say that until then a
client fails, or is not served, only for a failure of its own exchange or the end
of the server, and a send ends the server only if the client it goes to broke off
its own download.

The image client always ends, because every call ends by its timeout, and when
it ends by itself every request was served; an output that could not be opened,
or was not written whole, is the loss that nobody is told of (`OutputsExact`). It
ends early for little: one missing file, one bad image (which ends the server
too), one slow call or one handle that could not be made. No output ever holds another request's image until a result larger than
its input overruns its buffer.

### Disagreements between code and documents

- The transfer of a found file can stop (`channel_found`); the document says
  the cache sends the content chunk by chunk to the end (page 2, flow 6).
- The daemon enqueues the address of its variable, not the message
  (`cache_queue_mixed`), against "puts the message queue data to its own stack"
  (page 2, flow 3).
- `gfs_abort` "aborts the connection to the client associated with the input
  gfcontext_t" (`gfserver.h:79`); called again after the descriptor was reused,
  it aborts another client's (`file_server_abort`).

## Proofs

`SegmentPoolProofs` proves, for any non-empty set of threads and any number of
segments (`PoolAssumption`), the invariants of `segment_pool` as theorems
of `Spec`. `TypeInv` adds to the type invariant that a thread between acquire
and release has a name. `PoolInv` is the inductive invariant of the rest:

- the label of a thread tells whether it owns the mutex (`Owner`), so a step in
  a critical section is alone there;
- the counter equals the queue's length, and the queue is not empty when a
  thread is about to pop (`Counter`);
- names are exclusive and conserved (`Exclusive`, `Conserved`), stated per name
  so that each step moves one name from one place to another;
- the objects are those of the serving threads and of lost names (`Objects`).

That a release never waits is a pigeonhole argument: the releasing thread holds
a name that is not queued, the queued ones are distinct, so there are
fewer than `segments` of them (`LackingOneHasRoom`, with FiniteSetTheorems).
`NoLostWakeup` is inductive once these are known, and has its own step lemma.

`ShmChannelProofs` proves, for any chunk size above 0 and any set of lengths
(`ChannelAssumption`), the invariants of `channel` and the refinement of
FileTransfer. `ChannelInv` relates labels, flags and data: what the cache has
published is what the client has plus what lies in the buffer (`ChunkInv`);
`file_length` is written once and read after (`LengthInv`); header and labels
agree (`HeaderInv`). No conjunct names a mutex, so the protocol's safety does
not rest on the locks at all. The refinement maps each step to a step of
FileTransfer or to stuttering (`Implementation`); the bytes appended are
handled by `SentBytes` and `FrontBytes`.

`DownloadPoolProofs` first proves, for a list of any length, that each operation
of `steque.c` takes a steque that holds a list of nodes to one that holds the list
the operation on sequences gives, with the same items. The argument is pointwise:
where each position of the new list lies in the old one, and what its `next` is.
The items are arbitrary values, so the theorems hold for all uses of the queue.

Its second part rests on these theorems. `QueueInv` says that the list holds
the nodes `numbered + 1 .. counter`; `Appended` and `Popped` are what an enqueue
and a pop do to it. With it every thread's path and number keep their types
(`TypeCorrect`, for any number of threads, requests and paths), and the files are
never mixed (`FilesNeverMixed`): numbers under way are distinct and below the
counter (`Numbered`), and a number is good exactly if its thread's `gfc_perform`
said so (`Results`), so a file that is created, completed or unlinked is no
other request's. That every thread has made its `nrequests` at the end, and none
stopped early on an empty queue, is a count over the threads (`FilesAreExact`):
`Taken` has one pair of a thread and its counter for each request made or under
way, `Shares` says that `numbered` is the number of these pairs, and a thread
that may still take a path is a pair that is missing (`NotAllTaken`).

`CacheQueueProofs` proves type correctness, `QueueExact` and `NoLostWakeup` of the
daemon for any number of threads and any capacities, across restarts. `Owner` is
the key again: between a worker's check and its pop nobody else has the mutex.

What the shared variable does to the requests is proved in two more parts.
`Ordered` orders everything on its way by the time it was sent: the message
queue, `msg`, `data`, the entries of the daemon's queue and what each worker
holds. It gives `NeverStale` with no further assumption. `AnswersMatch` is false in
general (`cache_queue_mixed`), so `AnswersMatchAlone` states the condition under
which it is true: `OneAtATime`, one segment or one proxy thread, which is
what `cache_queue_one` checks and the tests of `proj3readme.pdf` start with. Its
invariant `Alone` says that the one pending request is in exactly one of
the message queue, main's hands, the daemon's queue and a worker, and that
`data` is its own wherever a worker can read it.

`TransferFileProofs` proves the three safety invariants of `transfer_file` for
any number of clients, any lengths of the files and any capacities. `Places` says
that a connection is not made, or in the listen queue once, or the current one,
or closed; `Upload` and `Download` balance buffers sent, on their way and
received; `Crossing` ties the server's label to the kind of the connection it
has, up to the first crossing. The balance is what makes a `recv` of 0 mean
"everything came" on a connection nobody broke off, and so gives `FilesExact`;
`Crossing` gives `FailsOnlyCrossed`. All failing calls and kills are steps of the
specification the theorems are about.

`GetFileProofs` proves the three safety invariants of `getfile` for any table,
any names, any number of programs and requests, any buffers and any cuts of the
streams. Its first theorem is that `content_get` finds what it should in every
sorted table (`ContentGetFinds`): the definition of a recursive function is a
`CHOOSE`, so the proof gives a function that satisfies the equation
(`IndexTurn`) and shows that no other does (`TurnUnique`), at the narrowest bounds
on which two could differ; the library's well-founded order on numbers stands in for the
induction. Strictness of `Smaller` is what makes the table's keys comparable.
`Inv` is inductive as a whole: `Serving` says what the server holds while it
serves and that of all other connections exactly those sent whole are still open
on its side, which is `DescriptorsExact`; `Bounded` that a
response is never longer than header and file; `Answers` that a connection which
was not cut carries its client's own request and then the answer to it, although
the request buffer is reused; `Works` that until the end of the file what the
client has written is the part of the file it has read, and its count agrees;
`Honest` is `OutcomeHonest` for one client. `Answers` is needed for the other
clients' steps, `Works` for the step that ends a request, and neither is
inductive without `Bounded`. The invariant was first checked by TLC on the
run's instance and on one with two programs.

`FileServerProofs` proves the safety invariants of `file_server` for any number of
workers, clients, descriptors and file lengths. `Unique` says that a request is
with the boss, in the queue or with one worker; `Answered` that the connection of
a request without a header is open, so its header reaches the client; and
`UncutClean` what holds until a file is cut on disk: every worker's progress
through its file (`Progress`) and that a connection is open exactly while its
request is pending or when there was nothing to send. Each is inductive with the
ones before it: a worker's write reaches its own client because the connection is
open while the request is pending, and it closes no other's because no other
request can have the descriptor.

`ImageServiceProofs` proves type correctness and `OutputsExact` for any number
of threads and requests. `Accounted` says that a request is queued, with a
worker, or done; `Buffers` and `Replies` that a reply is always to the call that
waits for it, and the buffer the worker's own until an overrun.

Every safety invariant that a passing run checks is the statement of a theorem
(`AnswersMatch` under `OneAtATime`, the others without any condition but the
module's assumption on its constants).

Only model-checked: all liveness properties (`WaiterWakes`, `CacheFreed`,
`RequestSettles`, `AllServed`, `ClientReleased`, `ServedUnlessCrossed`,
`RequestEnds`, `ProgramEnds`), because they use fairness, and ENABLED is out of
the prover's reach; and the counterexamples of the violation runs. Induction over
data is out of reach too (the theorems of the library that take an operator
cannot be instantiated); the two places that need it, the list of `steque.c` and
the search of `content_get`, are proved pointwise and by a least counterexample.
`Digits` and `Front` are cardinalities and not recursions for the same
reason. No module has a RECURSIVE operator.

## What is left out, and why

- The content of messages and files, names beyond what their comparison needs,
  sizes in bytes where no property tells them apart, logging, option parsing,
  name lookup.
- The setup that reads a list of files or paths (`content_init`, the reading of
  the workload file): the tables they build are constants, sorted where the code
  sorts them. `steque_destroy`, which ends no program's work.
- In GetFile, two programs at a time: the server serves one connection after
  the other, and a second program only adds connections that wait. Responses
  that this server never sends (another scheme or status).
- What a worker of FileServer does with a context the library has freed (after
  an error it may go on with it): undefined, the worker rests at "freed".
- Each client of FileServer asks for a file of its own; workers that serve the
  same file share its descriptor, but read with `pread`, which has no position.
- The second of two cache workers on one segment (possible after a mixed-up
  request): CacheQueue stops at the mix-up.
- In TransferFile the setup before the first connection (a failing `socket`,
  `bind` or `listen` ends the program with nothing done). In GetFile the second
  header and `close` that the library sends to a descriptor it has just closed:
  with one thread nothing can have taken the number, so they do nothing.
- In ImageService a `pthread_create` that fails, and what generated code does
  before the first call (registration, encoding). ImageMagick is external.
- The echo programs and the curl handler keep no state and are sequential.
- Libraries without source, except where their calls are used.
- A segment size (`-z`) not above the size of its header: `ChannelAssumption`.

## Plan

Done: all modules above, and proofs of every safety invariant their passing
runs check.

Next, in this order:

1. A composition of pool and daemon queue, to show that the pool's exclusion is
   what CacheQueue assumes (`Current(s) = {}` in `Issue`).
2. CacheQueue's `Serve` against ShmChannel: that a transfer is one step of it as
   far as the daemon's queue can tell.
