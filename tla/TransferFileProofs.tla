-------------------------- MODULE TransferFileProofs --------------------------
(* Proofs about TransferFile for any number of clients, any files and any   *)
(* capacities of the sockets and of the listen queue.                       *)
EXTENDS TransferFile, SequenceTheorems, TLAPS

Up(c)   == <<c, 1>>
Down(c) == <<c, 2>>

(* The client has connected this connection, or will never do so. *)
Made(x) == IF x[2] = 1 THEN cpc[x[1]] # "start"
           ELSE cpc[x[1]] \in {"recv", "done", "failed"}

Types == TypeOK /\ left \in [Clients -> Nat]

(* Where a connection is: not made, in the listen queue once, accepted and  *)
(* open (then it is cur), or closed by the server; never in two places.     *)
Places ==
  /\ \A i, j \in DOMAIN backlog : backlog[i] = backlog[j] => i = j
  /\ \A x \in Conns :
       /\ ~Accepted(x) => x # cur /\ (x \notin closedS \/ Stopped)
       /\ ~Accepted(x) \/ x = cur \/ (x \in closedS /\ ~Stopped) => Made(x)
  /\ Stopped => closedS = Conns
  /\ spc \in {"recv", "send"} => cur \in Conns \ closedS

(* Of an upload not closed by the server every buffer is with the client,   *)
(* on its way or saved; nothing comes in on a download's connection.        *)
Saved(x) == IF spc = "recv" /\ cur = x THEN saved ELSE 0

Upload(c) ==
  /\ Up(c) \notin closedS => left[c] + toServer[Up(c)] + Saved(Up(c)) = UploadLen[c]
  /\ Up(c) \in closedC => left[c] = 0 \/ Up(c) \in closedS \/ Up(c) \in broken
  /\ toServer[Down(c)] = 0 /\ Saved(Down(c)) = 0

Uploads == \A c \in Clients : Upload(c)

(* What left the server for a download is with the client or on its way;    *)
(* the client does not close before the server, unless it breaks off.       *)
Given(c) == IF Down(c) \in closedS THEN ServerLen
            ELSE IF spc = "send" /\ cur = Down(c) THEN ServerLen - sleft ELSE 0

Download(c) ==
  /\ got[c] + toClient[Down(c)] <= ServerLen
  /\ Down(c) \notin broken /\ ~Stopped => got[c] + toClient[Down(c)] = Given(c)
  /\ Down(c) \in closedC => Down(c) \in closedS \/ Down(c) \in broken
  /\ Down(c) \in broken => Down(c) \in closedC \/ Down(c) \in closedS
  /\ cpc[c] = "done" => Down(c) \in closedS /\ toClient[Down(c)] = 0

Downloads == \A c \in Clients : Download(c)

(* Unless one of the two broke off, the server finishes to read uploads     *)
(* only; it closes before the upload's end, or sends on an upload's         *)
(* connection, only after a crossing.                                       *)
Crossing ==
  /\ spc = "accept_down" =>
       cur \in Conns /\ (cur \notin broken => cur[2] = 1 /\ saved = UploadLen[cur[1]])
  /\ ~crossed =>
       /\ spc = "send" => cur[2] = 2
       /\ \A c \in Clients :
            Up(c) \in closedS => left[c] = 0 \/ Up(c) \in broken \/ Stopped

Inv == Types /\ Places /\ Uploads /\ Downloads /\ Crossing /\ FailsOnlyCrossed

-------------------------------------------------------------------------------
(* Connections. *)

LEMMA ConnFacts ==
  /\ \A c \in Clients : Up(c) \in Conns /\ Down(c) \in Conns
  /\ \A c, d : Up(c) # Down(d) /\ (Up(c) = Up(d) => c = d) /\ (Down(c) = Down(d) => c = d)
  /\ \A c : Up(c)[1] = c /\ Up(c)[2] = 1 /\ Down(c)[1] = c /\ Down(c)[2] = 2
  /\ \A x \in Conns : x[1] \in Clients /\ x[2] \in {1, 2}
  /\ \A x \in Conns : x[2] = 1 => x = Up(x[1])
  /\ \A x \in Conns : x[2] = 2 => x = Down(x[1])
  /\ << >> \notin Conns
BY DEF Conns, Up, Down

LEMMA InitInv == Init => Inv
<1> SUFFICES ASSUME Init PROVE Inv
  OBVIOUS
<1>1. /\ \A x \in Conns : toServer[x] = 0 /\ toClient[x] = 0
      /\ toServer \in [Conns -> {0}] /\ toClient \in [Conns -> {0}]
      /\ \A c \in Clients : left[c] = UploadLen[c] /\ got[c] = 0 /\ cpc[c] = "start"
      /\ closedC = {} /\ closedS = {} /\ spc = "accept_up" /\ backlog = << >> /\ crossed = FALSE
      /\ cur \notin Conns /\ broken = {} /\ ~Stopped
  BY ConnFacts DEF Init, Stopped
<1>2. Types
  <2>1. backlog \in Seq(Conns) /\ Len(backlog) <= maxnpending
    BY TransferAssumption DEF Init
  <2>2. left \in [Clients -> Nat] /\ \A c \in Clients : left[c] \in 0 .. UploadLen[c]
    BY TransferAssumption DEF Init
  <2>3. got \in [Clients -> 0 .. ServerLen] /\ sleft \in 0 .. ServerLen
    BY TransferAssumption DEF Init
  <2>4. toServer \in [Conns -> 0 .. SockBuf] /\ toClient \in [Conns -> 0 .. SockBuf]
    <3>1. {0} \subseteq 0 .. SockBuf BY TransferAssumption
    <3> QED BY <1>1, <3>1
  <2> QED BY <2>1, <2>2, <2>3, <2>4 DEF Init, Types, TypeOK
<1>3. Places BY <1>1 DEF Places, Accepted
<1>4. Uploads
  <2> SUFFICES ASSUME NEW c \in Clients
               PROVE  /\ left[c] + toServer[Up(c)] + Saved(Up(c)) = UploadLen[c]
                      /\ toServer[Down(c)] = 0 /\ Saved(Down(c)) = 0
    BY <1>1 DEF Uploads, Upload
  <2>1. UploadLen[c] \in Nat BY TransferAssumption
  <2> QED BY <1>1, <2>1, ConnFacts DEF Saved
<1>5. Downloads
  <2>1. ASSUME NEW c \in Clients PROVE got[c] + toClient[Down(c)] = 0 /\ Given(c) = 0
    <3>1. Down(c) \in Conns BY ConnFacts
    <3> QED BY <1>1, <3>1 DEF Given
  <2>2. 0 <= ServerLen BY TransferAssumption
  <2>3. \A c \in Clients : cpc[c] # "done" /\ Down(c) \notin closedC /\ Down(c) \notin broken
    BY <1>1
  <2> QED BY <2>1, <2>2, <2>3 DEF Downloads, Download
<1>6. Crossing /\ FailsOnlyCrossed BY <1>1 DEF Crossing, FailsOnlyCrossed
<1> QED BY <1>2, <1>3, <1>4, <1>5, <1>6 DEF Inv

(* Accepting takes the first connection of the listen queue. *)
LEMMA Taken ==
  ASSUME Types, backlog # << >>
  PROVE  /\ Head(backlog) \in Conns /\ Head(backlog) = backlog[1] /\ 1 \in DOMAIN backlog
         /\ Tail(backlog) \in Seq(Conns) /\ Len(Tail(backlog)) = Len(backlog) - 1
         /\ \A i \in DOMAIN Tail(backlog) :
              i + 1 \in DOMAIN backlog /\ Tail(backlog)[i] = backlog[i + 1] /\ i + 1 # 1
<1>1. backlog \in Seq(Conns) BY DEF Types, TypeOK
<1> QED BY <1>1

(* What a mishap does. *)
LEMMA ClientBreaks ==
  ASSUME NEW d \in Clients, ClientMishap(d)
  PROVE  /\ \/ \E l \in {"reconnect", "failed"} :
                /\ cpc[d] = "send" /\ cpc' = [cpc EXCEPT ![d] = l]
                /\ closedC' = closedC \cup {Up(d)} /\ broken' = broken \cup {Up(d)}
            \/ /\ cpc[d] \in {"reconnect", "recv"} /\ cpc' = [cpc EXCEPT ![d] = "failed"]
               /\ closedC' = closedC \cup {Down(d)} /\ broken' = broken \cup {Down(d)}
         /\ UNCHANGED <<backlog, toServer, toClient, closedS, left, got>>
         /\ UNCHANGED <<spc, cur, saved, sleft, crossed>>
BY DEF ClientMishap, ClientOpenUpFails, ClientReadFails, ClientOpenDownFails, ClientWriteFails,
       ClientKilled, Breaks, Goto, server, Up, Down

LEMMA ServerBreaks ==
  ASSUME ServerMishap
  PROVE  /\ \/ /\ spc \in {"recv", "send"} /\ spc' \in {"accept_up", "accept_down"}
               /\ spc' = "accept_down" => spc = "recv"
               /\ closedS' = closedS \cup {cur} /\ broken' = broken \cup {cur}
               /\ UNCHANGED <<backlog, cur, crossed>>
            \/ /\ ~Stopped /\ spc' = "exited" /\ Stopped' /\ closedS' = Conns /\ UNCHANGED broken
               /\ \/ UNCHANGED <<backlog, cur, crossed>>
                  \/ /\ backlog # << >> /\ cur' = Head(backlog) /\ backlog' = Tail(backlog)
                     /\ crossed' \in BOOLEAN /\ (crossed => crossed')
         /\ UNCHANGED <<toServer, toClient, closedC, cpc, left, got, saved, sleft>>
<1>1. CASE ServerRecvFails \/ ServerReadFails
  BY <1>1 DEF ServerRecvFails, ServerReadFails, client
<1>2. CASE ServerOpenFails
  <2>1. crossed' \in BOOLEAN /\ (crossed => crossed') BY <1>2 DEF ServerOpenFails
  <2> QED BY <1>2, <2>1 DEF ServerOpenFails, Exit, Stopped, client
<1>3. CASE AcceptFails \/ ServerWriteFails \/ ServerKilled
  BY <1>3 DEF AcceptFails, ServerWriteFails, ServerKilled, Exit, Stopped, client
<1> QED BY <1>1, <1>2, <1>3 DEF ServerMishap

LEMMA TypesPreserved ==
  ASSUME Inv, [Next]_vars
  PROVE  Types'
<1>0. Types BY DEF Inv
<1>1. ASSUME NEW c \in Clients, ConnectUp(c) \/ ConnectDown(c) PROVE Types'
  <2>1. PICK x \in Conns : backlog' = Append(backlog, x)
    BY <1>1 DEF ConnectUp, ConnectDown, Connect, Conns
  <2>2. backlog' \in Seq(Conns) /\ Len(backlog') <= maxnpending
    BY <1>0, <1>1, <2>1, TransferAssumption DEF ConnectUp, ConnectDown, Connect, Types, TypeOK
  <2> QED BY <1>0, <1>1, <2>2 DEF ConnectUp, ConnectDown, Connect, Goto, server, Types, TypeOK
<1>2. ASSUME NEW c \in Clients, Refused(c) PROVE Types'
  BY <1>0, <1>2 DEF Refused, server, net, Types, TypeOK
<1>3. ASSUME NEW c \in Clients, ClientSend(c) PROVE Types'
  <2>1. Up(c) \in Conns BY ConnFacts
  <2>2. toServer' \in [Conns -> 0 .. SockBuf]
    <3>1. toServer[Up(c)] \in 0 .. SockBuf BY <1>0, <2>1 DEF Types, TypeOK
    <3> QED BY <1>0, <1>3, <2>1, <3>1, TransferAssumption DEF ClientSend, Up, Types, TypeOK
  <2>3. left' \in [Clients -> Nat] /\ \A d \in Clients : left'[d] \in 0 .. UploadLen[d]
    <3>1. left' = [left EXCEPT ![c] = left[c] - 1] /\ left[c] - 1 \in Nat
      BY <1>0, <1>3 DEF ClientSend, Types
    <3>2. \A d \in Clients : UploadLen[d] \in Nat /\ left[d] \in Nat /\ left[d] <= UploadLen[d]
      BY <1>0, TransferAssumption DEF Types, TypeOK
    <3> QED BY <1>0, <3>1, <3>2 DEF Types
  <2> QED BY <1>0, <1>3, <2>2, <2>3 DEF ClientSend, server, Types, TypeOK
<1>4. ASSUME NEW c \in Clients, ClientSendFails(c) \/ ClientClose(c) PROVE Types'
  <2>1. Up(c) \in Conns BY ConnFacts
  <2> QED BY <1>0, <1>4, <2>1 DEF ClientSendFails, ClientClose, Goto, server, Up, Types, TypeOK
<1>5. ASSUME NEW c \in Clients, ClientRecv(c) PROVE Types'
  <2>1. Down(c) \in Conns BY ConnFacts
  <2>2. got[c] + toClient[Down(c)] <= ServerLen BY DEF Inv, Downloads, Download
  <2>3. got[c] + 1 \in 0 .. ServerLen /\ toClient[Down(c)] - 1 \in 0 .. SockBuf
    BY <1>0, <1>5, <2>1, <2>2, TransferAssumption DEF ClientRecv, Down, Types, TypeOK
  <2> QED BY <1>0, <1>5, <2>1, <2>3 DEF ClientRecv, server, Down, Types, TypeOK
<1>6. ASSUME NEW c \in Clients, ClientEof(c) \/ ClientRecvFails(c) PROVE Types'
  <2>1. Down(c) \in Conns BY ConnFacts
  <2>2. closedC' \subseteq Conns
    BY <1>0, <1>6, <2>1 DEF ClientEof, ClientRecvFails, Down, Types, TypeOK
  <2>3. cpc' \in [Clients -> {"start", "send", "reconnect", "recv", "done", "failed"}]
    BY <1>0, <1>6 DEF ClientEof, ClientRecvFails, Goto, Types, TypeOK
  <2> QED BY <1>0, <1>6, <2>2, <2>3 DEF ClientEof, ClientRecvFails, server, Types, TypeOK
<1>7. ASSUME AcceptUp \/ AcceptDown PROVE Types'
  <2>1. backlog' = Tail(backlog) /\ cur' = Head(backlog) /\ backlog # << >>
    BY <1>7 DEF AcceptUp, AcceptDown
  <2>2. backlog' \in Seq(Conns) /\ Len(backlog') <= maxnpending /\ cur' \in Conns
    BY <1>0, <2>1, Taken, TransferAssumption DEF Types, TypeOK
  <2>3. saved' \in Nat /\ (spc' = "recv" => saved' <= UploadLen[cur'[1]])
    <3>1. UploadLen[cur'[1]] \in Nat BY <2>2, ConnFacts, TransferAssumption
    <3> QED BY <1>0, <1>7, <3>1 DEF AcceptUp, AcceptDown, Types, TypeOK
  <2>4. crossed' \in BOOLEAN BY <1>0, <1>7 DEF AcceptUp, AcceptDown, Types, TypeOK
  <2>5. sleft' \in 0 .. ServerLen
    BY <1>0, <1>7, TransferAssumption DEF AcceptUp, AcceptDown, Types, TypeOK
  <2>6. /\ spc' \in {"recv", "send"}
        /\ UNCHANGED <<toServer, toClient, closedC, closedS, client, broken>>
    BY <1>7 DEF AcceptUp, AcceptDown
  <2> QED BY <1>0, <2>2, <2>3, <2>4, <2>5, <2>6 DEF client, Types, TypeOK
<1>8. CASE ServerRecv
  <2>1. cur \in Conns /\ toServer[cur] \in 1 .. SockBuf /\ cur \notin closedS
    BY <1>0, <1>8 DEF ServerRecv, Inv, Places, Types, TypeOK
  <2>2. saved' \in Nat /\ (spc' = "recv" => saved' <= UploadLen[cur'[1]])
    <3>0. PICK c \in Clients : c = cur[1] BY <2>1, ConnFacts
    <3>1. UploadLen[c] \in Nat /\ left[c] \in Nat /\ saved \in Nat
      BY <1>0, TransferAssumption DEF Types, TypeOK
    <3>2. CASE cur = Up(c)
      <4>1. left[c] + toServer[cur] + saved = UploadLen[c]
        BY <1>8, <2>1, <3>2 DEF Inv, Uploads, Upload, Saved, ServerRecv
      <4>2. saved + 1 <= UploadLen[c] BY <2>1, <3>1, <4>1
      <4> QED BY <1>8, <3>0, <3>1, <4>2 DEF ServerRecv
    <3>3. CASE cur = Down(c)
      <4>1. toServer[cur] = 0 BY <3>3 DEF Inv, Uploads, Upload
      <4> QED BY <2>1, <4>1
    <3> QED BY <2>1, <3>0, <3>2, <3>3, ConnFacts
  <2>3. toServer' \in [Conns -> 0 .. SockBuf]
    <3>1. toServer[cur] - 1 \in 0 .. SockBuf BY <2>1, TransferAssumption
    <3>2. toServer' = [toServer EXCEPT ![cur] = toServer[cur] - 1] BY <1>8 DEF ServerRecv
    <3>3. toServer \in [Conns -> 0 .. SockBuf] BY <1>0 DEF Types, TypeOK
    <3> QED BY <3>1, <3>2, <3>3
  <2> QED BY <1>0, <1>8, <2>2, <2>3 DEF ServerRecv, client, Types, TypeOK
<1>9. CASE ServerEof \/ ServerClose
  <2>1. cur \in Conns BY <1>9 DEF ServerEof, ServerClose, Inv, Places
  <2> QED BY <1>0, <1>9, <2>1 DEF ServerEof, ServerClose, client, Types, TypeOK
<1>10. CASE ServerSendFails
  BY <1>0, <1>10 DEF ServerSendFails, client, Types, TypeOK
<1>11. CASE ServerSend
  <2>1. cur \in Conns BY <1>11 DEF ServerSend, Inv, Places
  <2>2. toClient' \in [Conns -> 0 .. SockBuf]
    BY <1>0, <1>11, <2>1, TransferAssumption DEF ServerSend, Types, TypeOK
  <2>3. sleft' \in 0 .. ServerLen BY <1>0, <1>11, TransferAssumption DEF ServerSend, Types, TypeOK
  <2> QED BY <1>0, <1>11, <2>2, <2>3 DEF ServerSend, client, Types, TypeOK
<1>12. CASE UNCHANGED vars
  BY <1>0, <1>12 DEF vars, net, client, server, Types, TypeOK
<1>13. ASSUME NEW c \in Clients, ClientMishap(c) PROVE Types'
  <2>1. Up(c) \in Conns /\ Down(c) \in Conns BY ConnFacts
  <2>2. /\ closedC' \subseteq Conns /\ broken' \subseteq Conns
        /\ cpc' \in [Clients -> {"start", "send", "reconnect", "recv", "done", "failed"}]
    BY <1>0, <1>13, <2>1, ClientBreaks DEF Types, TypeOK
  <2>3. /\ UNCHANGED <<backlog, toServer, toClient, closedS, left, got>>
        /\ UNCHANGED <<spc, cur, saved, sleft, crossed>>
    BY <1>13, ClientBreaks
  <2> QED BY <1>0, <2>2, <2>3 DEF Types, TypeOK
<1>14. CASE ServerMishap
  <2>1. spc \in {"recv", "send"} => cur \in Conns BY DEF Inv, Places
  <2>2. closedS' \subseteq Conns /\ broken' \subseteq Conns
    BY <1>0, <1>14, <2>1, ServerBreaks DEF Types, TypeOK
  <2>3. backlog' \in Seq(Conns) /\ Len(backlog') <= maxnpending
    <3>1. CASE backlog' = backlog BY <1>0, <3>1 DEF Types, TypeOK
    <3>2. CASE backlog # << >> /\ backlog' = Tail(backlog)
      BY <1>0, <3>2, Taken, TransferAssumption DEF Types, TypeOK
    <3> QED BY <1>14, <3>1, <3>2, ServerBreaks
  <2>4. cur' \in Conns \cup {<< >>} /\ crossed' \in BOOLEAN
    BY <1>0, <1>14, Taken, ServerBreaks DEF Types, TypeOK
  <2>5. spc' \in {"accept_up", "accept_down", "exited"} BY <1>14, ServerBreaks
  <2>6. UNCHANGED <<toServer, toClient, closedC, cpc, left, got, saved, sleft>>
    BY <1>14, ServerBreaks
  <2> QED BY <1>0, <2>2, <2>3, <2>4, <2>5, <2>6 DEF Types, TypeOK
<1> QED
  BY <1>1, <1>2, <1>3, <1>4, <1>5, <1>6, <1>7, <1>8, <1>9, <1>10, <1>11, <1>12, <1>13, <1>14
  DEF Next, Client, Server

-------------------------------------------------------------------------------
(* Each of the other parts is preserved. *)

LEMMA Moves ==
  ASSUME [Next]_vars
  PROVE  \/ UNCHANGED cpc
         \/ \E c \in Clients : ConnectUp(c)
         \/ \E c \in Clients : ConnectDown(c)
         \/ \E c \in Clients, l \in {"reconnect", "done", "failed"} :
              /\ cpc' = [cpc EXCEPT ![c] = l]
              /\ l = "reconnect" => cpc[c] = "send"
              /\ l = "done" => cpc[c] = "recv"
<1>1. ASSUME NEW c \in Clients, Refused(c) \/ ClientSendFails(c) \/ ClientRecvFails(c)
      PROVE  cpc' = [cpc EXCEPT ![c] = "failed"]
  BY <1>1 DEF Refused, ClientSendFails, ClientRecvFails, Goto
<1>2. ASSUME NEW c \in Clients, ClientClose(c)
      PROVE  cpc[c] = "send" /\ cpc' = [cpc EXCEPT ![c] = "reconnect"]
  BY <1>2 DEF ClientClose, Goto
<1>3. ASSUME NEW c \in Clients, ClientEof(c)
      PROVE  cpc[c] = "recv" /\ cpc' = [cpc EXCEPT ![c] = "done"]
  BY <1>3 DEF ClientEof, Goto
<1>4. ASSUME NEW c \in Clients, ClientSend(c) \/ ClientRecv(c) PROVE UNCHANGED cpc
  BY <1>4 DEF ClientSend, ClientRecv
<1>6. ASSUME ServerMishap PROVE UNCHANGED cpc BY <1>6, ServerBreaks
<1>7. ASSUME NEW c \in Clients, ClientMishap(c)
      PROVE  \E l \in {"reconnect", "failed"} :
               cpc' = [cpc EXCEPT ![c] = l] /\ (l = "reconnect" => cpc[c] = "send")
  BY <1>7, ClientBreaks
<1>5. ASSUME Server \/ UNCHANGED vars PROVE UNCHANGED cpc
  BY <1>5 DEF Server, AcceptUp, ServerRecv, ServerEof, AcceptDown, ServerSend, ServerSendFails,
              ServerClose, vars, client
<1> QED BY <1>1, <1>2, <1>3, <1>4, <1>5, <1>6, <1>7 DEF Next, Client

LEMMA MadeStays ==
  ASSUME Types, [Next]_vars, NEW x \in Conns, Made(x)
  PROVE  Made(x)'
<1>0. cpc \in [Clients -> {"start", "send", "reconnect", "recv", "done", "failed"}]
  BY DEF Types, TypeOK
<1>1. x[1] \in Clients BY ConnFacts
<1>2. ASSUME NEW c \in Clients, ConnectUp(c) PROVE Made(x)'
  BY <1>0, <1>1, <1>2 DEF Made, ConnectUp, Connect, Goto
<1>3. ASSUME NEW c \in Clients, ConnectDown(c) PROVE Made(x)'
  BY <1>0, <1>1, <1>3 DEF Made, ConnectDown, Connect, Goto
<1>4. ASSUME NEW c \in Clients, NEW l \in {"reconnect", "done", "failed"},
             cpc' = [cpc EXCEPT ![c] = l], l = "reconnect" => cpc[c] = "send"
      PROVE  Made(x)'
  BY <1>0, <1>1, <1>4 DEF Made
<1>5. CASE UNCHANGED cpc BY <1>5 DEF Made
<1> QED BY <1>2, <1>3, <1>4, <1>5, Moves

(* A connection is new when a client connects. *)
LEMMA Connected ==
  ASSUME Types, NEW c \in Clients, ConnectUp(c) \/ ConnectDown(c)
  PROVE  \E x \in Conns : backlog' = Append(backlog, x) /\ ~Made(x) /\ Made(x)'
<1>0. cpc \in [Clients -> {"start", "send", "reconnect", "recv", "done", "failed"}]
  BY DEF Types, TypeOK
<1>1. CASE ConnectUp(c)
  <2>1. backlog' = Append(backlog, Up(c)) /\ cpc[c] = "start" /\ cpc'[c] = "send"
    BY <1>0, <1>1 DEF ConnectUp, Connect, Goto, Up
  <2>2. ~Made(Up(c)) /\ Made(Up(c))' BY <2>1 DEF Made, Up
  <2> QED BY <2>1, <2>2, ConnFacts
<1>2. CASE ConnectDown(c)
  <2>1. backlog' = Append(backlog, Down(c)) /\ cpc[c] = "reconnect" /\ cpc'[c] = "recv"
    BY <1>0, <1>2 DEF ConnectDown, Connect, Goto, Down
  <2>2. ~Made(Down(c)) /\ Made(Down(c))' BY <2>1 DEF Made, Down
  <2> QED BY <2>1, <2>2, ConnFacts
<1> QED BY <1>1, <1>2

LEMMA PlacesPreserved ==
  ASSUME Inv, [Next]_vars
  PROVE  Places'
<1>0. Types /\ Places BY DEF Inv
<1>1. backlog \in Seq(Conns) /\ closedS \subseteq Conns BY <1>0 DEF Types, TypeOK
<1>2. ASSUME NEW c \in Clients, ConnectUp(c) \/ ConnectDown(c) PROVE Places'
  <2>1. PICK x \in Conns : backlog' = Append(backlog, x) /\ ~Made(x) /\ Made(x)'
    BY <1>0, <1>2, Connected
  <2>2. ~Stopped /\ ~Stopped' /\ UNCHANGED <<closedS, spc, cur>>
    BY <1>2 DEF ConnectUp, ConnectDown, Connect, server, Stopped
  <2>3. x # cur /\ x \notin closedS /\ Accepted(x)
    BY <1>0, <2>1, <2>2 DEF Places
  <2>4. ASSUME NEW i \in DOMAIN backlog'
        PROVE  \/ i = Len(backlog) + 1 /\ backlog'[i] = x
               \/ i \in DOMAIN backlog /\ backlog'[i] = backlog[i]
    BY <1>1, <2>1
  <2>5. \A i, j \in DOMAIN backlog' : backlog'[i] = backlog'[j] => i = j
    BY <1>0, <2>3, <2>4 DEF Places, Accepted
  <2>6. ASSUME NEW y \in Conns, ~Accepted(y)' PROVE y = x \/ ~Accepted(y)
    BY <2>4, <2>6 DEF Accepted
  <2> QED BY <1>0, <2>1, <2>2, <2>3, <2>5, <2>6, MadeStays DEF Places
<1>3. ASSUME backlog # << >>, backlog' = Tail(backlog), cur' = Head(backlog), ~Stopped,
             (closedS' = closedS /\ ~Stopped') \/ (closedS' = Conns /\ spc' = "exited" /\ Stopped')
      PROVE  Places'
  <2>1. /\ backlog # << >> /\ backlog' = Tail(backlog) /\ cur' = Head(backlog)
        /\ (closedS' = closedS /\ ~Stopped') \/ (closedS' = Conns /\ spc' = "exited" /\ Stopped')
    BY <1>3
  <2>2. cur' \in Conns /\ ~Accepted(cur') /\ cur' = backlog[1] /\ 1 \in DOMAIN backlog
    BY <1>0, <2>1, Taken DEF Accepted
  <2>3. \A i \in DOMAIN backlog' : i + 1 \in DOMAIN backlog /\ backlog'[i] = backlog[i + 1]
                                  /\ i + 1 # 1 /\ i \in Nat
    BY <1>0, <1>1, <2>1, Taken
  <2>4. \A i, j \in DOMAIN backlog' : backlog'[i] = backlog'[j] => i = j
    BY <1>0, <2>3 DEF Places
  <2>5. ASSUME NEW y \in Conns, ~Accepted(y)' PROVE ~Accepted(y) /\ y # cur'
    BY <1>0, <2>2, <2>3, <2>5 DEF Accepted, Places
  <2>6. \A y \in Conns : Made(y) => Made(y)' BY <1>0, MadeStays
  <2>7. cur' \notin closedS BY <1>0, <1>3, <2>2 DEF Places
  <2>8. \A y \in Conns : ~Accepted(y)' => y # cur' /\ (y \notin closedS' \/ Stopped')
    BY <1>0, <1>3, <2>5 DEF Places
  <2>9. \A y \in Conns : ~Accepted(y)' \/ y = cur' \/ (y \in closedS' /\ ~Stopped') => Made(y)'
    BY <1>0, <1>3, <2>2, <2>5, <2>6 DEF Places
  <2> QED BY <2>1, <2>2, <2>4, <2>7, <2>8, <2>9 DEF Places, Stopped
<1>4. ASSUME UNCHANGED <<backlog, cur>>,
             \/ UNCHANGED <<spc, closedS>>
             \/ spc' \in {"dead", "exited"} /\ closedS' = Conns
      PROVE  Places'
  <2>1. \A y \in Conns : Accepted(y)' = Accepted(y) BY <1>4 DEF Accepted
  <2> QED BY <1>0, <1>4, <2>1, MadeStays DEF Places, Stopped
<1>5. CASE ServerRecv \/ ServerSend
  BY <1>0, <1>5 DEF Places, Accepted, Made, ServerRecv, ServerSend, Stopped, client
<1>6. ASSUME spc \in {"recv", "send"}, closedS' = closedS \cup {cur},
             spc' \in {"accept_up", "accept_down"}, UNCHANGED <<backlog, cur, cpc>>
      PROVE  Places'
  <2>1. /\ cur \in Conns /\ ~Stopped /\ ~Stopped' /\ backlog' = backlog /\ cur' = cur
        /\ spc' \notin {"recv", "send"}
    BY <1>0, <1>6 DEF Places, Stopped
  <2>2. \A y \in Conns : Accepted(y)' = Accepted(y) /\ Made(y)' = Made(y)
    BY <1>6 DEF Accepted, Made
  <2>3. \A y \in Conns : y \in closedS' => y \in closedS \/ y = cur BY <1>6
  <2> QED BY <1>0, <2>1, <2>2, <2>3 DEF Places
<1>10. CASE ServerEof \/ ServerClose
  BY <1>6, <1>10 DEF ServerEof, ServerClose, client
<1>11. CASE AcceptUp \/ AcceptDown
  <2>1. backlog # << >> /\ cur' = Head(backlog) /\ backlog' = Tail(backlog) /\ closedS' = closedS
    BY <1>11 DEF AcceptUp, AcceptDown
  <2>2. ~Stopped /\ ~Stopped' BY <1>11 DEF AcceptUp, AcceptDown, Stopped
  <2> QED BY <1>3, <2>1, <2>2
<1>12. CASE ServerMishap
  <2>1. CASE spc \in {"recv", "send"} /\ spc' \in {"accept_up", "accept_down"}
    BY <1>6, <1>12, <2>1, ServerBreaks
  <2>2. CASE ~Stopped /\ spc' = "exited" /\ Stopped' /\ closedS' = Conns
    BY <1>3, <1>4, <1>12, <2>2, ServerBreaks
  <2> QED BY <1>12, <2>1, <2>2, ServerBreaks
<1>13. ASSUME NEW c \in Clients, ClientMishap(c) PROVE Places'
  BY <1>4, <1>13, ClientBreaks
<1>7. ASSUME NEW c \in Clients,
             \/ Refused(c) \/ ClientSend(c) \/ ClientSendFails(c) \/ ClientClose(c)
             \/ ClientRecv(c) \/ ClientEof(c) \/ ClientRecvFails(c)
      PROVE  UNCHANGED <<backlog, cur, spc, closedS>>
  BY <1>7 DEF Refused, ClientSend, ClientSendFails, ClientClose, ClientRecv, ClientEof,
              ClientRecvFails, net, server
<1>8. CASE UNCHANGED vars BY <1>4, <1>8 DEF vars, net, server
<1>9. CASE ServerSendFails BY <1>4, <1>9 DEF ServerSendFails
<1> QED
  BY <1>2, <1>4, <1>5, <1>7, <1>8, <1>9, <1>10, <1>11, <1>12, <1>13 DEF Next, Client, Server

(* What changes a client's upload; c is the client looked at, d the one     *)
(* that takes the step.                                                     *)
LEMMA UploadsPreserved ==
  ASSUME Inv, [Next]_vars
  PROVE  Uploads'
<1>0. Types /\ Places /\ Uploads BY DEF Inv
<1>1. /\ toServer \in [Conns -> 0 .. SockBuf] /\ left \in [Clients -> Nat] /\ saved \in Nat
      /\ closedS \subseteq Conns
  BY <1>0 DEF Types, TypeOK
<1> SUFFICES ASSUME NEW c \in Clients PROVE Upload(c)'
  BY DEF Uploads
<1>2. Upload(c) BY <1>0 DEF Uploads
<1>3. Up(c) \in Conns /\ Down(c) \in Conns BY ConnFacts
<1>4. ASSUME NEW d \in Clients, ClientSend(d) PROVE Upload(c)'
  <2>1. Up(d) \in Conns BY ConnFacts
  <2>2. /\ left[d] \in Nat \ {0} /\ left' = [left EXCEPT ![d] = left[d] - 1]
        /\ toServer' = IF Up(d) \in closedS THEN toServer
                       ELSE [toServer EXCEPT ![Up(d)] = toServer[Up(d)] + 1]
        /\ UNCHANGED <<closedC, closedS, spc, cur, saved, broken>>
    BY <1>1, <1>4 DEF ClientSend, Up, server
  <2>3. Saved(Up(c))' = Saved(Up(c)) /\ Saved(Down(c))' = Saved(Down(c)) /\ Saved(Up(c)) \in Nat
    BY <1>1, <2>2 DEF Saved
  <2>4. CASE c = d
    <3>1. left'[c] = left[c] - 1 /\ left[c] \in Nat BY <1>1, <2>2, <2>4
    <3>2. /\ Up(c) \notin closedS => toServer'[Up(c)] = toServer[Up(c)] + 1
          /\ toServer'[Down(c)] = toServer[Down(c)] /\ toServer[Up(c)] \in Nat
      BY <1>1, <1>3, <2>1, <2>2, <2>4, ConnFacts
    <3> QED BY <1>2, <2>2, <2>3, <3>1, <3>2 DEF Upload
  <2>5. CASE c # d
    <3>1. left'[c] = left[c] BY <1>1, <2>2, <2>5
    <3>2. toServer'[Up(c)] = toServer[Up(c)] /\ toServer'[Down(c)] = toServer[Down(c)]
      BY <1>1, <1>3, <2>1, <2>2, <2>5, ConnFacts
    <3> QED BY <1>2, <2>2, <2>3, <3>1, <3>2 DEF Upload
  <2> QED BY <2>4, <2>5
<1>5. ASSUME NEW d \in Clients, ClientSendFails(d) \/ ClientClose(d) PROVE Upload(c)'
  <2>1. /\ UNCHANGED <<left, toServer, closedS, spc, cur, saved, broken>>
        /\ closedC' = closedC \cup {Up(d)}
        /\ left[d] = 0 \/ Up(d) \in closedS
    BY <1>5 DEF ClientSendFails, ClientClose, Up, server
  <2>2. /\ Saved(Up(c))' = Saved(Up(c)) /\ Saved(Down(c))' = Saved(Down(c))
        /\ Up(c) \in closedC' => Up(c) \in closedC \/ c = d
    BY <2>1, ConnFacts DEF Saved
  <2> QED BY <1>2, <2>1, <2>2 DEF Upload
<1>6. ASSUME NEW d \in Clients, ClientEof(d) \/ ClientRecvFails(d) PROVE Upload(c)'
  <2>1. /\ UNCHANGED <<left, toServer, closedS, spc, cur, saved, broken>>
        /\ closedC' = closedC \cup {Down(d)}
    BY <1>6 DEF ClientEof, ClientRecvFails, Down, server
  <2> QED BY <1>2, <2>1, ConnFacts DEF Saved, Upload
<1>7. CASE AcceptUp
  <2>1. /\ backlog # << >> /\ cur' = Head(backlog) /\ saved' = 0 /\ spc # "recv"
        /\ UNCHANGED <<left, toServer, closedC, closedS, broken>>
    BY <1>7 DEF AcceptUp, client
  <2> QED BY <1>2, <2>1 DEF Saved, Upload
<1>8. CASE ServerRecv
  <2>1. /\ cur \in Conns /\ cur' = cur /\ spc = "recv" /\ spc' = "recv" /\ saved' = saved + 1
        /\ toServer' = [toServer EXCEPT ![cur] = toServer[cur] - 1] /\ toServer[cur] > 0
        /\ UNCHANGED <<left, closedC, closedS, broken>>
    BY <1>0, <1>8 DEF ServerRecv, client, Places
  <2>2. cur # Down(c) BY <1>2, <2>1 DEF Upload
  <2>3. toServer'[Down(c)] = 0 /\ Saved(Down(c))' = 0
    BY <1>1, <1>2, <1>3, <2>1, <2>2 DEF Saved, Upload
  <2>4. toServer'[Up(c)] + Saved(Up(c))' = toServer[Up(c)] + Saved(Up(c))
    <3>1. toServer[Up(c)] \in Nat BY <1>1, <1>3
    <3> QED BY <1>1, <1>3, <2>1, <3>1 DEF Saved
  <2>5. /\ toServer[Up(c)] \in Int /\ toServer'[Up(c)] \in Int /\ left[c] \in Nat
        /\ Saved(Up(c)) \in Int /\ Saved(Up(c))' \in Int
    BY <1>1, <1>3, <2>1 DEF Saved
  <2>6. /\ Up(c) \notin closedS => left[c] + toServer[Up(c)] + Saved(Up(c)) = UploadLen[c]
        /\ Up(c) \in closedC => left[c] = 0 \/ Up(c) \in closedS \/ Up(c) \in broken
    BY <1>2 DEF Upload
  <2>7. Up(c) \notin closedS => left[c] + toServer'[Up(c)] + Saved(Up(c))' = UploadLen[c]
    BY <2>4, <2>5, <2>6
  <2> QED BY <2>1, <2>3, <2>6, <2>7 DEF Upload
<1>9. CASE ServerEof \/ ServerClose
  <2>1. /\ closedS' = closedS \cup {cur} /\ cur \in Conns /\ spc' \notin {"recv"}
        /\ spc \in {"recv", "send"}
        /\ UNCHANGED <<left, toServer, closedC, cur, saved, broken>>
    BY <1>0, <1>9 DEF ServerEof, ServerClose, Places, client
  <2> QED BY <1>2, <2>1 DEF Saved, Upload
<1>10. CASE AcceptDown \/ ServerSend
  <2>1. spc' # "recv" /\ spc # "recv" /\ UNCHANGED <<left, toServer, closedC, closedS, broken>>
    BY <1>10 DEF AcceptDown, ServerSend, client
  <2> QED BY <1>2, <2>1 DEF Saved, Upload
<1>11. CASE ServerSendFails
  <2>1. /\ spc' # "recv" /\ spc # "recv" /\ closedS' = Conns
        /\ UNCHANGED <<left, toServer, closedC, broken>>
    BY <1>11 DEF ServerSendFails, client
  <2> QED BY <1>2, <1>3, <2>1 DEF Saved, Upload
<1>12. ASSUME NEW d \in Clients, ConnectUp(d) \/ ConnectDown(d) \/ Refused(d) \/ ClientRecv(d)
       PROVE  UNCHANGED <<left, toServer, closedC, closedS, spc, cur, saved, broken>>
  BY <1>12 DEF ConnectUp, ConnectDown, Connect, Refused, ClientRecv, net, server
<1>13. CASE UNCHANGED <<left, toServer, closedC, closedS, spc, cur, saved, broken>>
  BY <1>2, <1>13 DEF Saved, Upload
<1>14. CASE UNCHANGED vars BY <1>13, <1>14 DEF vars, net, client, server
<1>15. ASSUME NEW d \in Clients, ClientMishap(d) PROVE Upload(c)'
  <2>1. /\ UNCHANGED <<left, toServer, closedS, spc, cur, saved>>
        /\ broken \subseteq broken'
        /\ Up(c) \in closedC' => Up(c) \in closedC \/ Up(c) \in broken'
    BY <1>15, ClientBreaks, ConnFacts
  <2> QED BY <1>2, <2>1 DEF Saved, Upload
<1>16. CASE ServerMishap
  <2>1. /\ UNCHANGED <<left, toServer, closedC, saved>> /\ broken \subseteq broken'
        /\ spc' # "recv" /\ closedS \subseteq closedS'
        /\ Up(c) \notin closedS' => ~(spc = "recv" /\ cur = Up(c))
    BY <1>1, <1>3, <1>16, ServerBreaks
  <2> QED BY <1>2, <2>1 DEF Saved, Upload
<1> QED
  BY <1>4, <1>5, <1>6, <1>7, <1>8, <1>9, <1>10, <1>11, <1>12, <1>13, <1>14, <1>15, <1>16
  DEF Next, Client, Server

LEMMA DownloadsPreserved ==
  ASSUME Inv, [Next]_vars
  PROVE  Downloads'
<1>0. Types /\ Places /\ Downloads BY DEF Inv
<1>1. /\ toClient \in [Conns -> 0 .. SockBuf] /\ got \in [Clients -> 0 .. ServerLen]
      /\ sleft \in 0 .. ServerLen /\ ServerLen \in Nat /\ closedS \subseteq Conns
      /\ cpc \in [Clients -> {"start", "send", "reconnect", "recv", "done", "failed"}]
  BY <1>0, TransferAssumption DEF Types, TypeOK
<1> SUFFICES ASSUME NEW c \in Clients PROVE Download(c)'
  BY DEF Downloads
<1>2. Download(c) BY <1>0 DEF Downloads
<1>3. Down(c) \in Conns /\ got[c] \in Nat /\ toClient[Down(c)] \in Nat BY <1>1, ConnFacts
<1>4. ASSUME NEW d \in Clients, ClientRecv(d) PROVE Download(c)'
  <2>1. /\ cpc[d] = "recv" /\ toClient[Down(d)] > 0 /\ Down(d) \in Conns
        /\ toClient' = [toClient EXCEPT ![Down(d)] = toClient[Down(d)] - 1]
        /\ got' = [got EXCEPT ![d] = got[d] + 1]
        /\ UNCHANGED <<closedC, closedS, cpc, spc, cur, sleft, broken>>
    BY <1>4, ConnFacts DEF ClientRecv, Down, server
  <2>2. Given(c)' = Given(c) /\ Stopped' = Stopped BY <2>1 DEF Given, Stopped
  <2>3. CASE c = d
    <3>1. got'[c] = got[c] + 1 /\ toClient'[Down(c)] = toClient[Down(c)] - 1
      BY <1>1, <1>3, <2>1, <2>3
    <3> QED BY <1>2, <1>3, <2>1, <2>2, <2>3, <3>1 DEF Download
  <2>4. CASE c # d
    <3>1. got'[c] = got[c] /\ toClient'[Down(c)] = toClient[Down(c)]
      BY <1>1, <1>3, <2>1, <2>4, ConnFacts
    <3> QED BY <1>2, <2>1, <2>2, <3>1 DEF Download
  <2> QED BY <2>3, <2>4
<1>5. ASSUME NEW d \in Clients, ClientEof(d) PROVE Download(c)'
  <2>1. /\ toClient[Down(d)] = 0 /\ Down(d) \in closedS /\ closedC' = closedC \cup {Down(d)}
        /\ cpc' = [cpc EXCEPT ![d] = "done"]
        /\ UNCHANGED <<toClient, got, closedS, spc, cur, sleft, broken>>
    BY <1>5 DEF ClientEof, Goto, Down, server
  <2>2. Given(c)' = Given(c) /\ Stopped' = Stopped BY <2>1 DEF Given, Stopped
  <2> QED BY <1>1, <1>2, <2>1, <2>2, ConnFacts DEF Download
<1>6. ASSUME NEW d \in Clients, ClientRecvFails(d) PROVE Download(c)'
  <2>1. /\ Stopped /\ Stopped' /\ closedS = Conns /\ closedC' = closedC \cup {Down(d)}
        /\ cpc' = [cpc EXCEPT ![d] = "failed"]
        /\ UNCHANGED <<toClient, got, closedS, broken>>
    BY <1>0, <1>6 DEF ClientRecvFails, Goto, Down, server, Places, Stopped
  <2> QED BY <1>1, <1>2, <1>3, <2>1 DEF Download
<1>7. ASSUME NEW d \in Clients, ClientSendFails(d) \/ ClientClose(d) PROVE Download(c)'
  <2>1. /\ closedC' = closedC \cup {Up(d)}
        /\ \E l \in {"reconnect", "failed"} : cpc' = [cpc EXCEPT ![d] = l]
        /\ UNCHANGED <<toClient, got, closedS, spc, cur, sleft, broken>>
    BY <1>7 DEF ClientSendFails, ClientClose, Goto, Up, server
  <2>2. Given(c)' = Given(c) /\ Stopped' = Stopped BY <2>1 DEF Given, Stopped
  <2> QED BY <1>1, <1>2, <2>1, <2>2, ConnFacts DEF Download
<1>8. ASSUME NEW d \in Clients, ConnectUp(d) \/ ConnectDown(d) \/ Refused(d) PROVE Download(c)'
  <2>1. /\ \E l \in {"send", "recv", "failed"} : cpc' = [cpc EXCEPT ![d] = l]
        /\ UNCHANGED <<toClient, got, closedC, closedS, spc, cur, sleft, broken>>
    BY <1>8 DEF ConnectUp, ConnectDown, Connect, Refused, Goto, net, server
  <2>2. Given(c)' = Given(c) /\ Stopped' = Stopped BY <2>1 DEF Given, Stopped
  <2> QED BY <1>1, <1>2, <2>1, <2>2 DEF Download
<1>9. CASE AcceptUp \/ AcceptDown
  <2>1. /\ backlog # << >> /\ cur' = Head(backlog) /\ spc # "send" /\ ~Stopped /\ ~Stopped'
        /\ spc' = "send" => sleft' = ServerLen
        /\ UNCHANGED <<toClient, got, closedC, closedS, cpc, broken>>
    BY <1>9 DEF AcceptUp, AcceptDown, client, Stopped
  <2>2. Given(c)' = Given(c) BY <1>1, <2>1 DEF Given
  <2> QED BY <1>2, <2>1, <2>2 DEF Download
<1>10. CASE ServerSend
  <2>1. /\ spc = "send" /\ spc' = "send" /\ cur \in Conns \ closedS
        /\ sleft > 0 /\ sleft' = sleft - 1
        /\ toClient' = IF cur \in closedC THEN toClient
                       ELSE [toClient EXCEPT ![cur] = toClient[cur] + 1]
        /\ UNCHANGED <<got, closedC, closedS, cpc, cur, broken>> /\ ~Stopped /\ ~Stopped'
    BY <1>0, <1>10 DEF ServerSend, Places, client, Stopped
  <2>4. CASE cur = Down(c) /\ cur \in closedC
    <3>1. cur \in broken /\ toClient' = toClient /\ cpc[c] # "done"
      BY <1>2, <2>1, <2>4 DEF Download
    <3> QED BY <1>2, <2>1, <2>4, <3>1 DEF Download
  <2>2. CASE cur = Down(c) /\ cur \notin closedC
    <3>1. cur \notin broken /\ cpc[c] # "done" /\ got[c] + toClient[cur] = ServerLen - sleft
      BY <1>2, <2>1, <2>2 DEF Given, Download
    <3>2. toClient'[Down(c)] = toClient[Down(c)] + 1 BY <1>1, <2>1, <2>2, <3>1
    <3>3. Given(c)' = ServerLen - sleft' BY <2>1, <2>2 DEF Given
    <3> QED BY <1>1, <1>2, <1>3, <2>1, <2>2, <3>1, <3>2, <3>3 DEF Download
  <2>3. CASE cur # Down(c)
    <3>1. toClient'[Down(c)] = toClient[Down(c)] BY <1>1, <1>3, <2>1, <2>3
    <3>2. Given(c)' = Given(c) BY <2>1, <2>3 DEF Given
    <3> QED BY <1>2, <2>1, <3>1, <3>2 DEF Download
  <2> QED BY <2>2, <2>3, <2>4
<1>11. CASE ServerEof
  <2>1. /\ spc = "recv" /\ cur \in closedC /\ cur \in Conns \ closedS /\ spc' = "accept_down"
        /\ closedS' = closedS \cup {cur}
        /\ UNCHANGED <<toClient, got, closedC, cpc, cur, sleft, broken>> /\ ~Stopped /\ ~Stopped'
    BY <1>0, <1>11 DEF ServerEof, Places, client, Stopped
  <2>2. Down(c) \notin broken => cur # Down(c) BY <1>2, <2>1 DEF Download
  <2>3. Down(c) \notin broken => Given(c)' = Given(c) BY <2>1, <2>2 DEF Given
  <2> QED BY <1>2, <2>1, <2>3 DEF Download
<1>12. CASE ServerClose
  <2>1. /\ spc = "send" /\ sleft = 0 /\ cur \in Conns \ closedS /\ spc' = "accept_up"
        /\ closedS' = closedS \cup {cur}
        /\ UNCHANGED <<toClient, got, closedC, cpc, cur, sleft, broken>> /\ ~Stopped /\ ~Stopped'
    BY <1>0, <1>12 DEF ServerClose, Places, client, Stopped
  <2>2. Given(c)' = Given(c) BY <1>1, <2>1 DEF Given
  <2> QED BY <1>2, <2>1, <2>2 DEF Download
<1>13. CASE ServerSendFails
  BY <1>2, <1>3, <1>13 DEF ServerSendFails, client, Download, Stopped
<1>14. CASE ServerRecv
  <2>1. /\ spc = "recv" /\ spc' = "recv"
        /\ UNCHANGED <<toClient, got, closedC, closedS, cpc, cur, sleft, broken>>
    BY <1>14 DEF ServerRecv, client
  <2> QED BY <1>2, <2>1 DEF Given, Download, Stopped
<1>15. ASSUME NEW d \in Clients, ClientSend(d) PROVE Download(c)'
  <2>1. UNCHANGED <<toClient, got, closedC, closedS, cpc, spc, cur, sleft, broken>>
    BY <1>15 DEF ClientSend, server
  <2> QED BY <1>2, <2>1 DEF Given, Download, Stopped
<1>16. CASE UNCHANGED vars
  BY <1>2, <1>16 DEF vars, net, client, server, Given, Download, Stopped
<1>17. ASSUME NEW d \in Clients, ClientMishap(d) PROVE Download(c)'
  <2>1. /\ UNCHANGED <<toClient, got, closedS, spc, cur, sleft>>
        /\ broken \subseteq broken' /\ closedC \subseteq closedC'
        /\ Down(c) \in closedC' => Down(c) \in closedC \/ Down(c) \in broken'
        /\ Down(c) \in broken' => Down(c) \in broken \/ Down(c) \in closedC'
        /\ \E l \in {"reconnect", "failed"} : cpc' = [cpc EXCEPT ![d] = l]
    BY <1>17, ClientBreaks, ConnFacts
  <2>2. Given(c)' = Given(c) /\ Stopped' = Stopped BY <2>1 DEF Given, Stopped
  <2>3. cpc'[c] = "done" => cpc[c] = "done" BY <1>1, <2>1
  <2> QED BY <1>2, <2>1, <2>2, <2>3 DEF Download
<1>18. CASE ServerMishap
  <2>1. UNCHANGED <<toClient, closedC, cpc, got, sleft>> BY <1>18, ServerBreaks
  <2>2. closedS \subseteq closedS' /\ broken \subseteq broken' BY <1>1, <1>18, ServerBreaks
  <2>3. Down(c) \in broken' => Down(c) \in broken \/ Down(c) \in closedS'
    BY <1>18, ServerBreaks
  <2>4. Down(c) \notin broken' /\ ~Stopped' => ~Stopped /\ Given(c)' = Given(c)
    BY <1>18, ServerBreaks DEF Given, Stopped
  <2> QED BY <1>2, <2>1, <2>2, <2>3, <2>4 DEF Download
<1> QED
  BY <1>4, <1>5, <1>6, <1>7, <1>8, <1>9, <1>10, <1>11, <1>12, <1>13, <1>14, <1>15, <1>16, <1>17,
     <1>18
  DEF Next, Client, Server

LEMMA CrossingPreserved ==
  ASSUME Inv, [Next]_vars
  PROVE  Crossing' /\ FailsOnlyCrossed'
<1>0. Types /\ Places /\ Uploads /\ Downloads /\ Crossing /\ FailsOnlyCrossed BY DEF Inv
<1>1. /\ left \in [Clients -> Nat] /\ toServer \in [Conns -> 0 .. SockBuf] /\ saved \in Nat
      /\ closedS \subseteq Conns /\ crossed \in BOOLEAN
      /\ cpc \in [Clients -> {"start", "send", "reconnect", "recv", "done", "failed"}]
  BY <1>0 DEF Types, TypeOK
<1>2. ASSUME NEW d \in Clients, ConnectUp(d) \/ ConnectDown(d) PROVE Crossing' /\ FailsOnlyCrossed'
  <2>1. /\ \E l \in {"send", "recv"} : cpc' = [cpc EXCEPT ![d] = l]
        /\ UNCHANGED <<left, closedS, spc, cur, saved, crossed, broken>>
    BY <1>2 DEF ConnectUp, ConnectDown, Connect, Goto, server
  <2>2. \A c \in Clients : cpc'[c] = "failed" => cpc[c] = "failed" BY <1>1, <2>1
  <2> QED BY <1>0, <2>1, <2>2 DEF Crossing, FailsOnlyCrossed, BrokeOff, Stopped
<1>3. ASSUME NEW d \in Clients, Refused(d) \/ ClientRecvFails(d)
      PROVE  Crossing' /\ FailsOnlyCrossed'
  <2>1. Stopped /\ UNCHANGED <<left, closedS, spc, cur, saved, crossed, broken>>
    BY <1>3 DEF Refused, ClientRecvFails, net, server
  <2> QED BY <1>0, <2>1 DEF Crossing, FailsOnlyCrossed, Stopped
<1>4. ASSUME NEW d \in Clients, ClientSend(d) PROVE Crossing' /\ FailsOnlyCrossed'
  <2>1. /\ left[d] > 0 /\ left' = [left EXCEPT ![d] = left[d] - 1]
        /\ UNCHANGED <<closedS, spc, cur, saved, crossed, cpc, broken>>
    BY <1>4 DEF ClientSend, server
  <2>2. \A c \in Clients : left[c] = 0 /\ d # c => left'[c] = 0 BY <1>1, <2>1
  <2>3. \A c \in Clients : left[c] = 0 => left'[c] = 0 BY <1>1, <2>1, <2>2
  <2> QED BY <1>0, <2>1, <2>3 DEF Crossing, FailsOnlyCrossed, BrokeOff, Stopped
<1>5. ASSUME NEW d \in Clients, ClientSendFails(d) PROVE Crossing' /\ FailsOnlyCrossed'
  <2>1. /\ left[d] > 0 /\ Up(d) \in closedS /\ cpc' = [cpc EXCEPT ![d] = "failed"]
        /\ UNCHANGED <<left, closedS, spc, cur, saved, crossed, broken>>
    BY <1>5 DEF ClientSendFails, Goto, Up, server
  <2>2. crossed \/ BrokeOff(d) \/ Stopped BY <1>0, <2>1 DEF Crossing, BrokeOff, Up
  <2>3. \A c \in Clients : cpc'[c] = "failed" => cpc[c] = "failed" \/ c = d BY <1>1, <2>1
  <2> QED BY <1>0, <2>1, <2>2, <2>3 DEF Crossing, FailsOnlyCrossed, BrokeOff, Stopped
<1>6. ASSUME NEW d \in Clients, ClientClose(d) \/ ClientEof(d) PROVE Crossing' /\ FailsOnlyCrossed'
  <2>1. /\ \E l \in {"reconnect", "done"} : cpc' = [cpc EXCEPT ![d] = l]
        /\ UNCHANGED <<left, closedS, spc, cur, saved, crossed, broken>>
    BY <1>6 DEF ClientClose, ClientEof, Goto, server
  <2>2. \A c \in Clients : cpc'[c] = "failed" => cpc[c] = "failed" BY <1>1, <2>1
  <2> QED BY <1>0, <2>1, <2>2 DEF Crossing, FailsOnlyCrossed, BrokeOff, Stopped
<1>7. CASE AcceptUp \/ ServerRecv \/ ServerSend
  <2>1. /\ UNCHANGED <<left, closedS, crossed, cpc, broken>> /\ ~Stopped /\ ~Stopped'
        /\ spc' # "dead" /\ spc' # "accept_down"
        /\ spc' = "send" => spc = "send" /\ cur' = cur
    BY <1>7 DEF AcceptUp, ServerRecv, ServerSend, client, Stopped
  <2> QED BY <1>0, <2>1 DEF Crossing, FailsOnlyCrossed, BrokeOff
<1>8. CASE ServerEof
  <2>1. /\ spc = "recv" /\ spc' = "accept_down" /\ toServer[cur] = 0 /\ cur \in closedC
        /\ cur \in Conns \ closedS /\ closedS' = closedS \cup {cur} /\ ~Stopped /\ ~Stopped'
        /\ UNCHANGED <<left, cur, saved, crossed, cpc, broken>>
    BY <1>0, <1>8 DEF ServerEof, Places, client, Stopped
  <2>2. CASE cur \in broken
    <3>1. \A d \in Clients : Up(d) \in closedS' => Up(d) \in closedS \/ Up(d) \in broken'
      BY <2>1, <2>2
    <3> QED BY <1>0, <2>1, <2>2, <3>1 DEF Crossing, FailsOnlyCrossed, BrokeOff
  <2>3. CASE cur \notin broken
    <3>1. PICK c \in Clients : cur = Up(c) \/ cur = Down(c) BY <2>1, ConnFacts
    <3>2. cur = Up(c) BY <1>0, <2>1, <2>3, <3>1 DEF Downloads, Download
    <3>3. left[c] = 0 /\ left[c] + toServer[Up(c)] + Saved(Up(c)) = UploadLen[c]
      BY <1>0, <2>1, <2>3, <3>2 DEF Uploads, Upload
    <3>4. saved = UploadLen[c] BY <1>1, <2>1, <3>2, <3>3 DEF Saved
    <3>5. cur[1] = c /\ cur[2] = 1 BY <3>2 DEF Up
    <3>6. \A d \in Clients : Up(d) \in closedS' => Up(d) \in closedS \/ d = c
      BY <2>1, <3>2, ConnFacts
    <3> QED BY <1>0, <2>1, <3>3, <3>4, <3>5, <3>6 DEF Crossing, FailsOnlyCrossed, BrokeOff
  <2> QED BY <2>2, <2>3
<1>9. CASE AcceptDown
  <2>1. /\ backlog # << >> /\ cur' = Head(backlog) /\ spc' = "send"
        /\ ~crossed' => ~crossed /\ cur' = Down(cur[1])
        /\ ~Stopped /\ ~Stopped' /\ UNCHANGED <<left, closedS, cpc, broken>>
    BY <1>1, <1>9 DEF AcceptDown, client, Down, Stopped
  <2>2. ~crossed' => cur'[2] = 2 BY <2>1 DEF Down
  <2> QED BY <1>0, <2>1, <2>2 DEF Crossing, FailsOnlyCrossed, BrokeOff
<1>10. CASE ServerSendFails
  <2>1. /\ spc = "send" /\ cur \in closedC /\ cur \in Conns \ closedS /\ spc' = "dead"
        /\ Stopped' /\ UNCHANGED <<crossed, cur, broken>>
    BY <1>0, <1>10 DEF ServerSendFails, Places, Stopped
  <2>2. PICK c \in Clients : cur = Up(c) \/ cur = Down(c) BY <2>1, ConnFacts
  <2>3. CASE cur = Up(c)
    <3>1. cur[2] = 1 BY <2>3 DEF Up
    <3>2. crossed BY <1>0, <2>1, <3>1 DEF Crossing
    <3> QED BY <2>1, <3>2 DEF Crossing, FailsOnlyCrossed
  <2>4. CASE cur = Down(c)
    <3>1. cur \in broken BY <1>0, <2>1, <2>4 DEF Downloads, Download
    <3> QED BY <2>1, <3>1 DEF Crossing, FailsOnlyCrossed
  <2> QED BY <2>2, <2>3, <2>4
<1>11. CASE ServerClose
  <2>1. /\ spc = "send" /\ cur \in Conns /\ closedS' = closedS \cup {cur} /\ spc' = "accept_up"
        /\ UNCHANGED <<left, crossed, cpc, broken>> /\ ~Stopped /\ ~Stopped'
    BY <1>0, <1>11 DEF ServerClose, Places, client, Stopped
  <2>2. ~crossed => \A d \in Clients : Up(d) # cur
    BY <1>0, <2>1, ConnFacts DEF Crossing
  <2> QED BY <1>0, <2>1, <2>2 DEF Crossing, FailsOnlyCrossed, BrokeOff, Stopped
<1>12. ASSUME NEW d \in Clients, ClientRecv(d)
       PROVE  UNCHANGED <<left, closedS, spc, cur, saved, crossed, cpc, broken>>
  BY <1>12 DEF ClientRecv, server
<1>13. CASE UNCHANGED <<left, closedS, spc, cur, saved, crossed, cpc, broken>>
  BY <1>0, <1>13 DEF Crossing, FailsOnlyCrossed, BrokeOff, Stopped
<1>14. CASE UNCHANGED vars BY <1>13, <1>14 DEF vars, net, client, server
<1>15. ASSUME NEW d \in Clients, ClientMishap(d) PROVE Crossing' /\ FailsOnlyCrossed'
  <2>1. UNCHANGED <<left, closedS, spc, cur, saved, crossed>> /\ broken \subseteq broken'
    BY <1>15, ClientBreaks
  <2>2. Up(d) \in broken' \/ Down(d) \in broken' BY <1>15, ClientBreaks
  <2>3. BrokeOff(d)' BY <2>2 DEF BrokeOff, Up, Down
  <2>4. \A c \in Clients : cpc'[c] = "failed" => cpc[c] = "failed" \/ c = d
    BY <1>1, <1>15, ClientBreaks
  <2> QED BY <1>0, <2>1, <2>3, <2>4 DEF Crossing, FailsOnlyCrossed, BrokeOff, Stopped
<1>16. CASE ServerMishap
  <2>1. /\ UNCHANGED <<cpc, left>> /\ broken \subseteq broken' /\ spc' # "dead"
        /\ spc' # "send"
    BY <1>16, ServerBreaks
  <2>2. spc' = "accept_down" => cur' \in Conns /\ cur' \in broken'
    BY <1>0, <1>16, ServerBreaks DEF Places
  <2>3. crossed => crossed' BY <1>16, ServerBreaks
  <2>4. \A c \in Clients : Up(c) \in closedS' => Up(c) \in closedS \/ Up(c) \in broken' \/ Stopped'
    BY <1>16, ServerBreaks
  <2>5. Stopped => Stopped' BY <1>16, ServerBreaks DEF Stopped
  <2>6. Crossing'
    <3>1. ~crossed' => \A c \in Clients : Up(c) \in closedS' =>
                         left'[c] = 0 \/ Up(c) \in broken' \/ Stopped'
      BY <1>0, <2>1, <2>3, <2>4, <2>5 DEF Crossing
    <3> QED BY <2>1, <2>2, <3>1 DEF Crossing
  <2> QED BY <1>0, <2>1, <2>3, <2>5, <2>6 DEF FailsOnlyCrossed, BrokeOff
<1> QED
  BY <1>2, <1>3, <1>4, <1>5, <1>6, <1>7, <1>8, <1>9, <1>10, <1>11, <1>12, <1>13, <1>14, <1>15, <1>16
  DEF Next, Client, Server

-------------------------------------------------------------------------------
LEMMA Invariance == Spec => []Inv
<1>1. Inv /\ [Next]_vars => Inv'
  BY TypesPreserved, PlacesPreserved, UploadsPreserved, DownloadsPreserved, CrossingPreserved
  DEF Inv
<1> QED BY InitInv, <1>1, PTL DEF Spec

(* No socket and no listen queue holds more than it can, and no file grows  *)
(* past its length, however the connections are crossed.                    *)
THEOREM TypeCorrect == Spec => []TypeOK
<1>1. Inv => TypeOK BY DEF Inv, Types
<1> QED BY <1>1, Invariance, PTL

(* What the server takes for the file of one client is the whole file, also *)
(* after connections were crossed, unless one of the two broke off on that  *)
(* connection, and a client that reports success has the server's whole     *)
(* file, unless one of the two broke off or the server has ended.           *)
THEOREM FilesAreExact == Spec => []FilesExact
<1>1. Inv => FilesExact
  <2> SUFFICES ASSUME Inv PROVE FilesExact
    OBVIOUS
  <2>1. spc = "accept_down" /\ cur \notin broken => saved = UploadLen[cur[1]]
    BY DEF Inv, Crossing
  <2>2. ASSUME NEW c \in Clients, cpc[c] = "done", <<c, 2>> \notin broken, ~Stopped
        PROVE  got[c] = ServerLen
    <3>1. Down(c) \in closedS /\ toClient[Down(c)] = 0 /\ got[c] + toClient[Down(c)] = Given(c)
      BY <2>2 DEF Inv, Downloads, Download, Down
    <3>2. got[c] + 0 = ServerLen BY <3>1 DEF Given
    <3>3. got[c] \in Nat BY DEF Inv, Types, TypeOK
    <3> QED BY <3>2, <3>3
  <2> QED BY <2>1, <2>2 DEF FilesExact
<1> QED BY <1>1, Invariance, PTL

(* As long as the two connections of every client are accepted one after    *)
(* the other, a send ends the server only if its client broke off, and a    *)
(* client fails only if it or the server broke off its exchange or the      *)
(* server has ended.                                                        *)
THEOREM OnlyCrossedFails == Spec => []FailsOnlyCrossed
<1>1. Inv => FailsOnlyCrossed BY DEF Inv
<1> QED BY <1>1, Invariance, PTL

===============================================================================
