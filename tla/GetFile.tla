------------------------------- MODULE GetFile -------------------------------
(* The single-threaded getfile programs (src/proj1/getfile): clients that   *)
(* run gfc_perform for one path after the other, gfserver_serve with its    *)
(* handler_get and content_get, and the byte stream between them, which     *)
(* delivers any front of what was written.                                  *)
EXTENDS Integers, Sequences, FiniteSets

CONSTANTS Clients,      \* download programs
          Requests,     \* how many requests each of them makes
          Names,        \* paths asked for: sequences of characters
          content,      \* items: records [key, len], sorted by key
          Base,         \* of the length's digits in a header
          MaxLength,    \* bound: lengths a client takes from a cut header
          MaxStale,     \* bound: characters it finds behind a cut header
          BUFFER_SIZE,  \* most bytes of one pread and gfs_send
          SockBuf,      \* bytes a connection holds that were not read
          MaxFds        \* connections the server's descriptor table holds

Smaller(a, b) ==
  \E i \in 1 .. Len(b) :
    /\ i > Len(a) \/ (i <= Len(a) /\ a[i] < b[i])
    /\ \A j \in 1 .. i - 1 : a[j] = b[j]

ASSUME GetFileAssumption ==
  /\ Names \subseteq Seq(Nat) /\ <<>> \notin Names
  /\ content \in Seq([key : Seq(Nat), len : Nat])
  /\ \A i, j \in 1 .. Len(content) : i < j => Smaller(content[i].key, content[j].key)
  /\ Base \in Nat \ {0, 1} /\ BUFFER_SIZE \in Nat \ {0}
  /\ Requests \in [Clients -> Nat]
  /\ SockBuf \in Nat /\ MaxFds \in Nat /\ MaxLength \in Nat /\ MaxStale \in Nat

VARIABLES
  conns,     \* connections in the order they were made
  srv,       \* where gfserver_serve is
  cur,       \* the connection it serves, 0 if none
  readData,  \* the name the last request left in the receive buffer
  pc, todo,  \* per client: where it is, requests still to make
  asked,     \* the path of its last request
  sock,      \* its connection
  filelength, bytesTotalOfFile,
  file,      \* what writecb has written to the local file
  outcome,   \* of its last request: gfc_perform's result, is the file kept
  cut        \* history: connections whose request or header came in pieces

server == <<srv, cur, readData>>
locals == <<filelength, bytesTotalOfFile, file>>
client == <<pc, todo, asked, sock, locals, outcome>>
vars == <<conns, server, client, cut>>

Limit(n, m) == IF n < m THEN n ELSE m

(* How many digits n has, and what is left of it without its last d.        *)
Digits(n) == 1 + Cardinality({d \in 1 .. n : Base ^ d <= n})
Front(n, d) == Cardinality({q \in 1 .. n : q * Base ^ d <= n})

(* A response in the units the stream is cut in: scheme, status, the digits *)
(* of the length, the line ends, then the file's bytes.                     *)
FileLen(f) == content[f].len
HeaderLen(f) == 2 + Digits(FileLen(f)) + 1
Bytes(f, from, to) == [i \in 1 .. to - from |-> <<f, from + i - HeaderLen(f)>>]
WholeFile(f) == Bytes(f, HeaderLen(f), HeaderLen(f) + FileLen(f))
Corrupt == <<<<0, 0>>>>  \* with memory past what the receive buffer holds

(* writecb: what follows does not make a corrupt file good. *)
Write(c, bytes) ==
  file' = [file EXCEPT ![c] = IF Corrupt \in {@, bytes} THEN Corrupt ELSE @ \o bytes]

Conns == 1 .. Len(conns)
Mine(c) == conns[sock[c]]
Unread(i) == conns[i].written - conns[i].read
Cur == conns[cur]
Sent == Cur.written - HeaderLen(Cur.f)  \* bytes_transferred

Init ==
  /\ conns = << >>
  /\ srv = "accept" /\ cur = 0 /\ readData = <<>>
  /\ pc = [c \in Clients |-> "idle"]
  /\ todo = Requests
  /\ asked = [c \in Clients |-> <<>>]
  /\ sock = [c \in Clients |-> 0]
  /\ filelength = [c \in Clients |-> 0]
  /\ bytesTotalOfFile = [c \in Clients |-> 0]
  /\ file = [c \in Clients |-> <<>>]
  /\ outcome = [c \in Clients |-> [ret |-> 0, kept |-> FALSE]]
  /\ cut = {}

-----------------------------------------------------------------------------
(* The client program. *)

(* gfc_perform frees the request and returns r; main then reads the status  *)
(* in it and unlinks the local file unless that is GF_OK.                   *)
Finish(c, r, k) ==
  /\ pc' = [pc EXCEPT ![c] = "idle"]
  /\ todo' = [todo EXCEPT ![c] = @ - 1]
  /\ outcome' = [outcome EXCEPT ![c] = [ret |-> r, kept |-> k]]

(* A request starts (name) or the process has ended. *)
Start(c, name, i) ==
  /\ asked' = [asked EXCEPT ![c] = name]
  /\ sock' = [sock EXCEPT ![c] = i]
  /\ filelength' = [filelength EXCEPT ![c] = 0]
  /\ bytesTotalOfFile' = [bytesTotalOfFile EXCEPT ![c] = 0]
  /\ file' = [file EXCEPT ![c] = <<>>]
  /\ outcome' = [outcome EXCEPT ![c] = [ret |-> 0, kept |-> FALSE]]
  /\ cut' = cut \ {sock[c]}

Crash(c) ==
  /\ pc' = [pc EXCEPT ![c] = "ended"]
  /\ conns' = [i \in Conns |-> IF conns[i].client = c
                              THEN [conns[i] EXCEPT !.near = "closed"] ELSE conns[i]]
  /\ Start(c, <<>>, 0)
  /\ UNCHANGED <<server, todo>>

(* The end of main, or a crash on the freed request it reads: either matters *)
(* to connections that were left open only.                                 *)
Exit(c) ==
  /\ pc[c] = "idle"
  /\ \E i \in Conns : conns[i].client = c /\ conns[i].near = "open"
  /\ Crash(c)

Connect(c, name) ==
  /\ pc[c] = "idle" /\ todo[c] > 0 /\ srv # "down"
  /\ conns' = Append(conns, [client |-> c, request |-> name, f |-> 0, written |-> 0, read |-> 0,
                             near |-> "open", far |-> "pending"])
  /\ Start(c, name, Len(conns'))
  /\ pc' = [pc EXCEPT ![c] = "header"]
  /\ UNCHANGED <<server, todo>>

(* connect fails: the status main reads was never set, which may crash it. *)
Refused(c) ==
  /\ pc[c] = "idle" /\ todo[c] > 0 /\ srv = "down"
  /\ \/ Crash(c)
     \/ /\ Finish(c, -1, FALSE)
        /\ sock' = [sock EXCEPT ![c] = 0]
        /\ UNCHANGED <<conns, server, asked, locals, cut>>

(* One recv of n units.  A client that gives up leaves its socket open; one *)
(* that has counted filelength bytes closes it.                             *)
Recv(c, n, close, split) ==
  /\ conns' = [conns EXCEPT ![sock[c]].read = @ + n,
                            ![sock[c]].near = IF close THEN "closed" ELSE @]
  /\ cut' = IF split THEN cut \cup {sock[c]} ELSE cut

Count(c, total, length) ==
  /\ bytesTotalOfFile' = [bytesTotalOfFile EXCEPT ![c] = total]
  /\ filelength' = [filelength EXCEPT ![c] = length]
  /\ IF total = length
     THEN \E k \in BOOLEAN : Finish(c, 0, k)  \* the status is read after free
     ELSE pc' = [pc EXCEPT ![c] = "body"] /\ UNCHANGED <<todo, outcome>>

(* Not even the status is whole (INVALID), or it is FILE_NOT_FOUND, which   *)
(* what follows in memory may also make of the front of it.  headerfunc was *)
(* never set: it may be called, and crash.                                  *)
HeaderOnly(c) ==
  /\ pc[c] = "header" /\ Unread(sock[c]) > 0
  /\ \/ Crash(c)
     \/ /\ \E n \in 1 .. Limit(2, Unread(sock[c])), r \in {-1, 0}, k \in BOOLEAN :
             /\ r = -1 => n = 1 /\ ~k
             /\ r = 0 => Mine(c).f = 0  \* the status is read after free
             /\ Recv(c, n, FALSE, n = 1)
             /\ Finish(c, r, k)
        /\ UNCHANGED <<server, asked, sock, locals>>

HeaderOk(c) ==
  /\ pc[c] = "header" /\ Mine(c).f # 0
  /\ LET H == HeaderLen(Mine(c).f) IN
     \E n \in H .. Unread(sock[c]) :
       /\ Recv(c, n, n - H = FileLen(Mine(c).f), FALSE)
       /\ Write(c, Bytes(Mine(c).f, H, n))
       /\ Count(c, n - H, FileLen(Mine(c).f))
  /\ UNCHANGED <<server, asked, sock>>

(* OK, but the header's end is missing, and the copy of it has none: the    *)
(* length loses its last digits, and is read on into what follows in memory,*)
(* of which it takes up to MaxStale characters, digits at first.  What the  *)
(* content's length becomes wraps around: writecb is handed memory past the *)
(* buffer, which may crash.                                                 *)
HeaderCut(c) ==
  /\ pc[c] = "header" /\ Mine(c).f # 0 /\ Unread(sock[c]) > 1
  /\ \/ Crash(c)
     \/ /\ \E n \in 2 .. Limit(HeaderLen(Mine(c).f) - 1, Unread(sock[c])),
              length \in 0 .. MaxLength, s \in 0 .. MaxStale :
             /\ \E e \in 0 .. s :
                  Front(length, e) = Front(FileLen(Mine(c).f), HeaderLen(Mine(c).f) - 1 - n)
             /\ Recv(c, n, FALSE, TRUE)
             /\ Write(c, Corrupt)
             /\ Count(c, -1 - s, length)
        /\ UNCHANGED <<server, asked, sock>>

(* Mutant: more is taken than the connection holds. *)
Mutant_ReadsPast(c) ==
  /\ pc[c] = "body"
  /\ Recv(c, Unread(sock[c]) + 1, FALSE, FALSE)
  /\ UNCHANGED <<server, client>>

(* Mutant: a piece of the body overwrites the pieces before. *)
Mutant_Overwrites(c) ==
  /\ pc[c] = "body"
  /\ \E n \in 1 .. Unread(sock[c]) :
       LET total == bytesTotalOfFile[c] + n IN
       /\ Recv(c, n, total = filelength[c], FALSE)
       /\ file' = [file EXCEPT ![c] = Bytes(Mine(c).f, Mine(c).read, Mine(c).read + n)]
       /\ Count(c, total, filelength[c])
  /\ UNCHANGED <<server, asked, sock>>

(* Mutant: the count is no longer compared with the length. *)
Mutant_NoCompare(c) ==
  /\ pc[c] = "body"
  /\ \E n \in 1 .. Unread(sock[c]) :
       /\ Recv(c, n, FALSE, FALSE)
       /\ Write(c, Bytes(Mine(c).f, Mine(c).read, Mine(c).read + n))
       /\ bytesTotalOfFile' = [bytesTotalOfFile EXCEPT ![c] = @ + n]
  /\ UNCHANGED <<server, pc, todo, outcome, asked, sock, filelength>>

Body(c) ==
  /\ pc[c] = "body"
  /\ \E n \in 1 .. Unread(sock[c]) :
       LET total == bytesTotalOfFile[c] + n IN
       /\ Recv(c, n, total = filelength[c], FALSE)
       /\ Write(c, Bytes(Mine(c).f, Mine(c).read, Mine(c).read + n))
       /\ Count(c, total, filelength[c])
  /\ UNCHANGED <<server, asked, sock>>

(* recv gives 0.  Before any header, filelength and status are whatever the *)
(* memory holds: any result, file kept or not, or a crash.  A total that    *)
(* wrapped around is no less than filelength.                               *)
Eof(c) ==
  /\ pc[c] \in {"header", "body"} /\ Unread(sock[c]) = 0 /\ Mine(c).far = "closed"
  /\ \/ pc[c] = "header" /\ Crash(c)
     \/ /\ Recv(c, 0, TRUE, FALSE)
        /\ \E r \in {-1, 0}, k \in BOOLEAN :
             /\ r = -1 => ~k
             /\ pc[c] = "body" =>
                  (r = -1) = (bytesTotalOfFile[c] \in 0 .. filelength[c] - 1)
             /\ Finish(c, r, k)
        /\ UNCHANGED <<server, asked, sock, locals>>

(* recv fails: its -1 is taken for a huge size.  Copying as much crashes;   *)
(* writing as much may, and the next recv then finds the end.               *)
Reset(c) ==
  /\ pc[c] \in {"header", "body"} /\ Unread(sock[c]) = 0 /\ Mine(c).far = "reset"
  /\ \/ Crash(c)
     \/ /\ pc[c] = "body"
        /\ conns' = [conns EXCEPT ![sock[c]].far = "closed"]
        /\ Write(c, Corrupt)
        /\ Count(c, bytesTotalOfFile[c] - 1, filelength[c])
        /\ UNCHANGED <<server, asked, sock, cut>>

-----------------------------------------------------------------------------
(* The server. *)

(* The binary search: the item's index for the descriptor, 0 for -1. *)
content_get(key) ==
  LET search[r \in (1 .. Len(content) + 1) \X (0 .. Len(content))] ==
        LET lo == r[1]
            hi == r[2]
            mid == lo + (hi - lo) \div 2 IN
        IF lo > hi THEN 0
        ELSE IF Smaller(key, content[mid].key) THEN search[<<lo, mid - 1>>]
        ELSE IF Smaller(content[mid].key, key) THEN search[<<mid + 1, hi>>]
        ELSE mid
  IN search[<<1, Len(content)>>]

OpenFds == {i \in Conns : conns[i].far = "open"}

(* A connection closed while part of the request is unread is reset. *)
Closed(conn) == [conn EXCEPT !.far = IF conn.request # <<>> THEN "reset" ELSE "closed"]

(* The process ends: its connections with it, those not accepted too. *)
Down ==
  /\ srv' = "down"
  /\ conns' = [i \in Conns |-> IF conns[i].far \in {"open", "pending"} THEN Closed(conns[i])
                                                                      ELSE conns[i]]
  /\ cur' = 0 /\ readData' = <<>>
  /\ UNCHANGED <<client, cut>>

Accept ==
  /\ srv = "accept" /\ Cardinality(OpenFds) < MaxFds
  /\ \E i \in Conns :
       /\ conns[i].far = "pending" /\ \A j \in 1 .. i - 1 : conns[j].far # "pending"
       /\ conns' = [conns EXCEPT ![i].far = "open"]
       /\ cur' = i
  /\ srv' = "recv"
  /\ UNCHANGED <<readData, client, cut>>

(* No descriptor is left: gfserver_serve returns, and main. *)
AcceptFails == srv = "accept" /\ Cardinality(OpenFds) >= MaxFds /\ Down

(* handler_get up to its first pread, for the name read from the request, of *)
(* which nothing or something (rest) has not arrived.                       *)
Handle(name, rest) ==
  LET f == content_get(name)
      conn == [Cur EXCEPT !.f = f, !.request = IF rest THEN @ ELSE <<>>,
                          !.written = IF f = 0 THEN 2 ELSE HeaderLen(f)] IN
  /\ conns' = [conns EXCEPT ![cur] = IF f = 0 THEN Closed(conn) ELSE conn]
  /\ srv' = IF f = 0 THEN "accept" ELSE "send"
  /\ cur' = IF f = 0 THEN 0 ELSE cur
  /\ UNCHANGED client

RequestWhole ==
  /\ srv = "recv"
  /\ readData' = Cur.request
  /\ Handle(Cur.request, FALSE)
  /\ UNCHANGED cut

(* Only a front of the request arrives with the first recv. *)
Split == srv = "recv" /\ cut' = cut \cup {cur}

(* The name read when its first k characters came, without the line end:    *)
(* what an earlier request left in the buffer follows them.                 *)
Stale(k) == SubSeq(Cur.request, 1, k) \o SubSeq(readData, k + 1, Len(readData))

RequestCut ==
  Split /\ \E k \in 1 .. Len(Cur.request) : readData' = Stale(k) /\ Handle(Stale(k), TRUE)

(* Cut behind "GETFILE GET ": the earlier request's name is taken, if there *)
(* is one; otherwise recv is called again, and may still not get it all.    *)
RequestNoName ==
  /\ Split
  /\ IF readData # <<>>
     THEN Handle(readData, TRUE) /\ UNCHANGED readData
     ELSE srv' = "recv2" /\ UNCHANGED <<conns, cur, readData, client>>

RequestRest ==
  /\ srv = "recv2"
  /\ Handle(Cur.request, FALSE) \/ Handle(<<>>, TRUE)
  /\ UNCHANGED <<readData, cut>>

(* Cut in the line ends: the name is whole; the rest may be fetched. *)
RequestNoEnd ==
  Split /\ readData' = Cur.request /\ \E rest \in BOOLEAN : Handle(Cur.request, rest)

(* The received request has no end either: with what an earlier one left    *)
(* behind it, strcpy writes past the copy's end, which may crash.           *)
RequestOverflows == srv = "recv" /\ readData # <<>> /\ Down

(* Cut in the words before the name: FILE_NOT_FOUND, or the handler gets a  *)
(* null pointer and the process crashes.                                    *)
RequestWords ==
  \/ Split /\ Handle(<<>>, TRUE) /\ UNCHANGED readData
  \/ srv = "recv" /\ Down

(* gfs_send waits for room.  To a client that is gone it is lost, or its    *)
(* signal ends the process.                                                 *)
Send ==
  /\ srv = "send" /\ Sent < FileLen(Cur.f)
  /\ LET n == Limit(BUFFER_SIZE, FileLen(Cur.f) - Sent) IN
     \/ /\ Cur.near = "closed" \/ Unread(cur) + n <= SockBuf
        /\ conns' = [conns EXCEPT ![cur].written = @ + n]
        /\ UNCHANGED <<server, client, cut>>
     \/ Cur.near = "closed" /\ Down

(* Mutant: the handler returns without gfs_abort. *)
Mutant_NoAbort ==
  /\ srv = "send" /\ Sent < FileLen(Cur.f)
  /\ srv' = "accept" /\ cur' = 0
  /\ UNCHANGED <<conns, readData, client, cut>>

(* pread fails: gfs_abort closes the connection, and the header the library *)
(* sends for the negative result finds the descriptor closed.               *)
ReadFails ==
  /\ srv = "send" /\ Sent < FileLen(Cur.f)
  /\ conns' = [conns EXCEPT ![cur] = Closed(Cur)]
  /\ srv' = "accept" /\ cur' = 0
  /\ UNCHANGED <<readData, client, cut>>

(* The file is sent; the connection stays open. *)
Transferred ==
  /\ srv = "send" /\ Sent = FileLen(Cur.f)
  /\ srv' = "accept" /\ cur' = 0
  /\ UNCHANGED <<conns, readData, client, cut>>

Killed == srv # "down" /\ Down

-----------------------------------------------------------------------------
Client(c) == HeaderOnly(c) \/ HeaderOk(c) \/ HeaderCut(c) \/ Body(c) \/ Eof(c) \/ Reset(c)

Server ==
  \/ Accept \/ AcceptFails \/ Send \/ Transferred
  \/ RequestWhole \/ RequestCut \/ RequestNoName \/ RequestRest \/ RequestNoEnd \/ RequestWords
  \/ RequestOverflows

Next ==
  \/ \E c \in Clients : Client(c) \/ Exit(c) \/ Refused(c) \/ \E name \in Names : Connect(c, name)
  \/ Server \/ ReadFails \/ Killed

Spec == Init /\ [][Next]_vars

(* Both programs run; nothing makes a program ask, a file be cut or a       *)
(* process be killed.                                                       *)
FairSpec == Spec /\ WF_vars(Server) /\ \A c \in Clients : WF_vars(Client(c))

-----------------------------------------------------------------------------
Ends == {"open", "closed"}
TypeOK ==
  /\ conns \in Seq([client : Clients, request : Names \cup {<<>>}, f : 0 .. Len(content),
                    written : Nat, read : Nat, near : Ends, far : Ends \cup {"pending", "reset"}])
  /\ \A i \in Conns : conns[i].read <= conns[i].written
  /\ srv \in {"accept", "recv", "recv2", "send", "down"}
  /\ cur \in 0 .. Len(conns) /\ (srv \in {"recv", "recv2", "send"} => cur # 0)
  /\ readData \in Seq(Nat)
  /\ pc \in [Clients -> {"idle", "header", "body", "ended"}]
  /\ todo \in [Clients -> Nat]
  /\ asked \in [Clients -> Names \cup {<<>>}]
  /\ sock \in [Clients -> 0 .. Len(conns)]
  /\ \A c \in Clients : pc[c] \in {"header", "body"} => sock[c] # 0
  /\ filelength \in [Clients -> Nat]
  /\ bytesTotalOfFile \in [Clients -> Int]
  /\ file \in [Clients -> Seq(Nat \X Int)]
  /\ outcome \in [Clients -> [ret : {-1, 0}, kept : BOOLEAN]]
  /\ cut \subseteq Conns

(* What a finished request leaves, if it was answered and the stream cut    *)
(* neither the request nor the header: a file that stays on disk is the one *)
(* asked for, whole, or has nothing in it; FILE_NOT_FOUND is said of no     *)
(* file there is, and leaves nothing; and gfc_perform gives an error only   *)
(* if the server left before it had sent everything.                        *)
OutcomeHonest ==
  \A c \in Clients :
    pc[c] = "idle" /\ sock[c] \notin cut \cup {0} /\ Mine(c).read > 0 =>
      /\ Mine(c).f # 0 /\ outcome[c].kept =>
           \E f \in 1 .. Len(content) : content[f].key = asked[c] /\ file[c] = WholeFile(f)
      /\ Mine(c).f = 0 =>
           file[c] = <<>> /\ \A f \in 1 .. Len(content) : content[f].key # asked[c]
      /\ outcome[c].ret = -1 =>
           /\ Mine(c).far \in {"closed", "reset"}
           /\ Mine(c).written < HeaderLen(Mine(c).f) + FileLen(Mine(c).f)

(* The descriptors that gfserver_serve holds between two requests are       *)
(* exactly those of the files it has sent to their end: that path alone     *)
(* leaks, and every failure closes once.                                    *)
DescriptorsExact ==
  srv = "accept" =>
    \A i \in Conns : (conns[i].far = "open") =
      (conns[i].f # 0 /\ conns[i].written = HeaderLen(conns[i].f) + FileLen(conns[i].f))

(* A client that gave up a cut header without closing, on which the server  *)
(* now blocks; and one that counts from a cut header to a length its count  *)
(* has passed or will not reach, on a connection the server leaves open.    *)
ServerBlocked ==
  /\ srv = "send" /\ Cur.near = "open"
  /\ sock[Cur.client] # cur \/ pc[Cur.client] = "idle"

ToCome(c) == HeaderLen(Mine(c).f) + FileLen(Mine(c).f) - Mine(c).read
Miscounted(c) ==
  /\ pc[c] = "body" /\ sock[c] \in cut /\ Mine(c).far = "open"
  /\ filelength[c] \notin bytesTotalOfFile[c] + 1 .. bytesTotalOfFile[c] + ToCome(c)

(* Every request ends, or hangs in one of these ways. *)
RequestEnds ==
  \A c \in Clients :
    pc[c] \in {"header", "body"} ~>
      pc[c] \in {"idle", "ended"} \/ ServerBlocked \/ Miscounted(c)

=============================================================================
