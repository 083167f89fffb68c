---------------------------- MODULE TransferFile -----------------------------
(***************************************************************************)
(* The file exchange of proj1/transferfile.  A client connects, uploads    *)
(* its file, closes, connects AGAIN and downloads the server's file; the   *)
(* server accepts one connection to read from and then another one to      *)
(* write to, and takes for granted that both are of the same client.       *)
(*                                                                         *)
(* Connection <<c, 1>> is the one client c uploads on, <<c, 2>> the one it *)
(* downloads on.  A file is a number of buffers (BUFSIZE bytes); a socket  *)
(* holds at most SockBuf of them in each direction.                        *)
(*                                                                         *)
(* Calls on files and sockets may fail, and either program may be killed:  *)
(* a program that exits closes its connections, and fread or recv failing  *)
(* is taken for the end of the file.                                       *)
(***************************************************************************)
EXTENDS Integers, Sequences

CONSTANTS
  Clients,
  UploadLen,    (* UploadLen[c]: length of the file of client c             *)
  ServerLen,    (* length of the server's file                              *)
  SockBuf,      (* capacity of a socket                                     *)
  maxnpending   (* capacity of the listen queue (5 in the code)             *)

ASSUME TransferAssumption ==
  /\ UploadLen \in [Clients -> Nat] /\ ServerLen \in Nat
  /\ SockBuf \in Nat \ {0} /\ maxnpending \in Nat \ {0}

VARIABLES
  backlog,   (* connections made and not yet accepted                       *)
  toServer,  (* buffers on their way, by connection                         *)
  toClient,
  closedC,   (* connections the client has closed                           *)
  closedS,   (* connections the server has closed                           *)
  cpc,       (* control of each client                                      *)
  left,      (* buffers a client has still to upload                        *)
  got,       (* buffers of the server's file a client has                   *)
  spc,       (* control of the server                                       *)
  cur,       (* the connection the server accepted last                     *)
  saved,     (* length of receivedfromclient.txt                            *)
  sleft,     (* buffers the server has still to send                        *)
  crossed,   (* the server sent to another client than it had read from     *)
  broken     (* history: connections on which a program broke off because a *)
             (* call of its own failed or it was killed                     *)

net    == <<backlog, toServer, toClient, closedC, closedS>>
client == <<cpc, left, got>>
server == <<spc, cur, saved, sleft, crossed>>
vars   == <<net, client, server, broken>>

Conns == Clients \X {1, 2}

Init ==
  /\ backlog = << >>
  /\ toServer = [x \in Conns |-> 0] /\ toClient = toServer
  /\ closedC = {} /\ closedS = {}
  /\ cpc = [c \in Clients |-> "start"]
  /\ left = UploadLen
  /\ got = [c \in Clients |-> 0]
  /\ spc = "accept_up" /\ cur = << >> /\ saved = 0 /\ sleft = 0
  /\ crossed = FALSE /\ broken = {}

(* The server has ended: a send of its own failed, or anything else did.    *)
Stopped == spc \in {"dead", "exited"}

-----------------------------------------------------------------------------
(* The client. *)

Goto(c, from, to) ==
  /\ cpc[c] = from
  /\ cpc' = [cpc EXCEPT ![c] = to]

(* connect succeeds once the connection is in the listen queue. *)
Connect(c, k, from, to) ==
  /\ Goto(c, from, to)
  /\ ~Stopped /\ Len(backlog) < maxnpending
  /\ backlog' = Append(backlog, <<c, k>>)
  /\ UNCHANGED <<toServer, toClient, closedC, closedS, left, got, server, broken>>

ConnectUp(c)   == Connect(c, 1, "start", "send")
ConnectDown(c) == Connect(c, 2, "reconnect", "recv")

Refused(c) ==
  /\ Stopped /\ cpc[c] \in {"start", "reconnect"}
  /\ cpc' = [cpc EXCEPT ![c] = "failed"]
  /\ UNCHANGED <<net, left, got, server, broken>>

(* A buffer sent to a server that has closed is accepted and lost, ...      *)
ClientSend(c) ==
  /\ cpc[c] = "send" /\ left[c] > 0
  /\ <<c, 1>> \in closedS \/ toServer[<<c, 1>>] < SockBuf
  /\ left' = [left EXCEPT ![c] = @ - 1]
  /\ toServer' = IF <<c, 1>> \in closedS THEN toServer
                 ELSE [toServer EXCEPT ![<<c, 1>>] = @ + 1]
  /\ UNCHANGED <<backlog, toClient, closedC, closedS, cpc, got, server, broken>>

(* ... or refused: send returns -1, or SIGPIPE ends the client. *)
ClientSendFails(c) ==
  /\ left[c] > 0 /\ <<c, 1>> \in closedS
  /\ Goto(c, "send", "failed")
  /\ closedC' = closedC \cup {<<c, 1>>}
  /\ UNCHANGED <<backlog, toServer, toClient, closedS, left, got, server, broken>>

ClientClose(c) ==
  /\ left[c] = 0
  /\ Goto(c, "send", "reconnect")
  /\ closedC' = closedC \cup {<<c, 1>>}
  /\ UNCHANGED <<backlog, toServer, toClient, closedS, left, got, server, broken>>

ClientRecv(c) ==
  /\ cpc[c] = "recv" /\ toClient[<<c, 2>>] > 0
  /\ toClient' = [toClient EXCEPT ![<<c, 2>>] = @ - 1]
  /\ got' = [got EXCEPT ![c] = @ + 1]
  /\ UNCHANGED <<backlog, toServer, closedC, closedS, cpc, left, server, broken>>

Accepted(x) == \A i \in DOMAIN backlog : backlog[i] # x

(* recv returns 0: the client takes what it has for the file. *)
ClientEof(c) ==
  /\ toClient[<<c, 2>>] = 0 /\ <<c, 2>> \in closedS /\ Accepted(<<c, 2>>)
  /\ Goto(c, "recv", "done")
  /\ closedC' = closedC \cup {<<c, 2>>}
  /\ UNCHANGED <<backlog, toServer, toClient, closedS, left, got, server, broken>>

(* A server that died resets the connections it had not accepted. *)
ClientRecvFails(c) ==
  /\ Stopped /\ ~Accepted(<<c, 2>>)
  /\ Goto(c, "recv", "failed")
  /\ closedC' = closedC \cup {<<c, 2>>}
  /\ UNCHANGED <<backlog, toServer, toClient, closedS, left, got, server, broken>>

(* The client breaks off: what it had sent is read to the end all the same. *)
Breaks(c, k, from, to) ==
  /\ Goto(c, from, to)
  /\ closedC' = closedC \cup {<<c, k>>}
  /\ broken' = broken \cup {<<c, k>>}
  /\ UNCHANGED <<backlog, toServer, toClient, closedS, left, got, server>>

(* The file cannot be opened, after the connection was made.                *)
ClientOpenUpFails(c) == left[c] = UploadLen[c] /\ Breaks(c, 1, "send", "failed")

(* fread fails, which nobody asks: the client goes on as after a whole file. *)
ClientReadFails(c) == left[c] > 0 /\ Breaks(c, 1, "send", "reconnect")

ClientOpenDownFails(c) == got[c] = 0 /\ Breaks(c, 2, "recv", "failed")
ClientWriteFails(c) == toClient[<<c, 2>>] > 0 /\ Breaks(c, 2, "recv", "failed")

(* A signal; for a client about to reconnect also no socket.                *)
ClientKilled(c) ==
  \/ Breaks(c, 1, "send", "failed")
  \/ \E from \in {"reconnect", "recv"} : Breaks(c, 2, from, "failed")

-----------------------------------------------------------------------------
(* The server. *)

(* Mutant: receivedfromclient.txt is appended to instead of emptied. *)
Mutant_Appends ==
  /\ spc = "accept_up" /\ backlog # << >>
  /\ cur' = Head(backlog) /\ backlog' = Tail(backlog)
  /\ spc' = "recv"
  /\ UNCHANGED <<toServer, toClient, closedC, closedS, client, saved, sleft, crossed, broken>>

AcceptUp ==
  /\ spc = "accept_up" /\ backlog # << >>
  /\ cur' = Head(backlog) /\ backlog' = Tail(backlog)
  /\ spc' = "recv" /\ saved' = 0
  /\ UNCHANGED <<toServer, toClient, closedC, closedS, client, sleft, crossed, broken>>

ServerRecv ==
  /\ spc = "recv" /\ toServer[cur] > 0
  /\ toServer' = [toServer EXCEPT ![cur] = @ - 1]
  /\ saved' = saved + 1
  /\ UNCHANGED <<backlog, toClient, closedC, closedS, client, spc, cur, sleft, crossed, broken>>

ServerEof ==
  /\ spc = "recv" /\ toServer[cur] = 0 /\ cur \in closedC
  /\ closedS' = closedS \cup {cur}
  /\ spc' = "accept_down"
  /\ UNCHANGED <<backlog, toServer, toClient, closedC, client, cur, saved, sleft, crossed, broken>>

(* recv fails: "recv() failed", and on as at the end of the file.           *)
ServerRecvFails ==
  /\ spc = "recv"
  /\ closedS' = closedS \cup {cur} /\ broken' = broken \cup {cur}
  /\ spc' = "accept_down"
  /\ UNCHANGED <<backlog, toServer, toClient, closedC, client, cur, saved, sleft, crossed>>

(* Mutant: the server sends on to the connection it has read from. *)
Mutant_SameConnection ==
  /\ spc = "accept_down" /\ backlog # << >>
  /\ spc' = "send" /\ sleft' = ServerLen
  /\ UNCHANGED <<net, client, cur, saved, crossed, broken>>

AcceptDown ==
  /\ spc = "accept_down" /\ backlog # << >>
  /\ cur' = Head(backlog) /\ backlog' = Tail(backlog)
  /\ spc' = "send" /\ sleft' = ServerLen
  /\ crossed' = (crossed \/ cur' # <<cur[1], 2>>)
  /\ UNCHANGED <<toServer, toClient, closedC, closedS, client, saved, broken>>

ServerSend ==
  /\ spc = "send" /\ sleft > 0
  /\ cur \in closedC \/ toClient[cur] < SockBuf
  /\ sleft' = sleft - 1
  /\ toClient' = IF cur \in closedC THEN toClient ELSE [toClient EXCEPT ![cur] = @ + 1]
  /\ UNCHANGED <<backlog, toServer, closedC, closedS, client, spc, cur, saved, crossed, broken>>

(* A send to a client that has closed: exit(1), or SIGPIPE.  Every          *)
(* connection is closed by the system.                                      *)
ServerSendFails ==
  /\ spc = "send" /\ sleft > 0 /\ cur \in closedC
  /\ spc' = "dead"
  /\ closedS' = Conns
  /\ UNCHANGED <<backlog, toServer, toClient, closedC, client, cur, saved, sleft, crossed, broken>>

(* Mutant: the loop ends one buffer early. *)
Mutant_ShortDownload ==
  /\ spc = "send" /\ sleft = 1
  /\ closedS' = closedS \cup {cur}
  /\ spc' = "accept_up"
  /\ UNCHANGED <<backlog, toServer, toClient, closedC, client, cur, saved, sleft, crossed, broken>>

(* Mutant: the socket is left open. *)
Mutant_KeepsOpen ==
  /\ spc = "send" /\ sleft = 0
  /\ spc' = "accept_up"
  /\ UNCHANGED <<net, client, cur, saved, sleft, crossed, broken>>

ServerClose ==
  /\ spc = "send" /\ sleft = 0
  /\ closedS' = closedS \cup {cur}
  /\ spc' = "accept_up"
  /\ UNCHANGED <<backlog, toServer, toClient, closedC, client, cur, saved, sleft, crossed, broken>>

(* fread fails: taken for the end of the file.                              *)
ServerReadFails ==
  /\ spc = "send" /\ sleft > 0
  /\ closedS' = closedS \cup {cur} /\ broken' = broken \cup {cur}
  /\ spc' = "accept_up"
  /\ UNCHANGED <<backlog, toServer, toClient, closedC, client, cur, saved, sleft, crossed>>

(* exit(1) or a signal, wherever the server is.                             *)
Exit ==
  /\ spc' = "exited"
  /\ closedS' = Conns
  /\ UNCHANGED <<toServer, toClient, closedC, client, saved, sleft, broken>>

AcceptFails ==
  /\ spc \in {"accept_up", "accept_down"}
  /\ Exit /\ UNCHANGED <<backlog, cur, crossed>>

(* gethostbyaddr, whose null result is read, or fopen fails after accept.   *)
ServerOpenFails ==
  /\ spc \in {"accept_up", "accept_down"} /\ backlog # << >>
  /\ cur' = Head(backlog) /\ backlog' = Tail(backlog)
  /\ crossed' = (crossed \/ (spc = "accept_down" /\ cur' # <<cur[1], 2>>))
  /\ Exit

ServerWriteFails ==
  /\ spc = "recv" /\ toServer[cur] > 0
  /\ Exit /\ UNCHANGED <<backlog, cur, crossed>>

ServerKilled == ~Stopped /\ Exit /\ UNCHANGED <<backlog, cur, crossed>>

-----------------------------------------------------------------------------
Client(c) ==
  \/ ConnectDown(c) \/ Refused(c) \/ ClientSend(c) \/ ClientSendFails(c)
  \/ ClientClose(c) \/ ClientRecv(c) \/ ClientEof(c)
  \/ ClientRecvFails(c)

Server ==
  \/ AcceptUp \/ ServerRecv \/ ServerEof
  \/ AcceptDown \/ ServerSend \/ ServerSendFails \/ ServerClose

ClientMishap(c) ==
  \/ ClientOpenUpFails(c) \/ ClientReadFails(c) \/ ClientOpenDownFails(c)
  \/ ClientWriteFails(c) \/ ClientKilled(c)

ServerMishap ==
  \/ ServerRecvFails \/ ServerReadFails \/ AcceptFails \/ ServerOpenFails
  \/ ServerWriteFails \/ ServerKilled

Next ==
  \/ Server \/ ServerMishap
  \/ \E c \in Clients : ConnectUp(c) \/ Client(c) \/ ClientMishap(c)

Spec == Init /\ [][Next]_vars

(* The server and every client that has started run; nothing need fail.     *)
FairSpec == Spec /\ WF_vars(Server) /\ \A c \in Clients : WF_vars(Client(c))

-----------------------------------------------------------------------------
TypeOK ==
  /\ backlog \in Seq(Conns) /\ Len(backlog) <= maxnpending
  /\ toServer \in [Conns -> 0 .. SockBuf] /\ toClient \in [Conns -> 0 .. SockBuf]
  /\ closedC \subseteq Conns /\ closedS \subseteq Conns
  /\ cpc \in [Clients -> {"start", "send", "reconnect", "recv", "done", "failed"}]
  /\ \A c \in Clients : left[c] \in 0 .. UploadLen[c]
  /\ got \in [Clients -> 0 .. ServerLen]
  /\ spc \in {"accept_up", "recv", "accept_down", "send", "dead", "exited"}
  /\ cur \in Conns \cup {<< >>}
  /\ saved \in Nat /\ (spc = "recv" => saved <= UploadLen[cur[1]])
  /\ sleft \in 0 .. ServerLen
  /\ crossed \in BOOLEAN /\ broken \subseteq Conns

(* What the server takes for a client's file is the whole file, even after  *)
(* connections were crossed, unless one of the two broke off on that        *)
(* connection: the end of the connection is all either of them sees.  A     *)
(* client that reports success has the server's whole file, likewise, or    *)
(* the server has ended meanwhile: then it takes a part for the whole.      *)
FilesExact ==
  /\ spc = "accept_down" /\ cur[2] = 1 /\ cur \notin broken => saved = UploadLen[cur[1]]
  /\ \A c \in Clients :
       cpc[c] = "done" /\ <<c, 2>> \notin broken /\ ~Stopped => got[c] = ServerLen

BrokeOff(c) == <<c, 1>> \in broken \/ <<c, 2>> \in broken

(* As long as the two connections of every client are accepted one after    *)
(* the other, the only send that ends the server is one to a client that    *)
(* broke off its download; and a client fails only if it or the server      *)
(* broke off its exchange or the server has ended, not for what another     *)
(* client did.                                                              *)
FailsOnlyCrossed ==
  /\ spc = "dead" => crossed \/ cur \in broken
  /\ \A c \in Clients : cpc[c] = "failed" => crossed \/ BrokeOff(c) \/ Stopped

(* A client that starts is served, unless its exchange was broken off, the  *)
(* server has ended, or connections were crossed (then both sides may wait  *)
(* to receive, for ever).                                                   *)
ServedUnlessCrossed ==
  \A c \in Clients :
    cpc[c] = "send" ~> cpc[c] = "done" \/ crossed \/ BrokeOff(c) \/ Stopped

=============================================================================
