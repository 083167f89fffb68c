--------------------------- MODULE ShmChannelProofs --------------------------
(***************************************************************************)
(* Proofs about ShmChannel for any chunk size and any file lengths.  No    *)
(* part of the invariant mentions the mutexes: the protocol's safety rests *)
(* on file_length and bytes_written alone.                                 *)
(***************************************************************************)
EXTENDS ShmChannel, SequenceTheorems, TLAPS

(* Labels of the cache before it has written file_length, and before it     *)
(* enters the loop over the chunks.                                         *)
BeforeSet  == {"recv", "zero_len", "assert_zero", "len_lock", "len_check", "set_len"}
BeforeLoop == BeforeSet \cup {"clear_bytes", "len_unlock", "len_bcast"}

(* Labels of the cache in the loop: no chunk in hand, or one.               *)
AskingRoom == {"data_lock", "data_check", "data_wait", "data_blocked", "pread"}
WithChunk  == {"set_bytes", "signal", "data_unlock"}

(* Labels of the proxy up to reading the length, and in its loop before and *)
(* after gfs_send.                                                          *)
LengthUnknown == {"create", "mq_send", "len_read"} \cup LenLabels
BeforeSend == {"data_lock", "data_check", "data_wait", "data_blocked", "data_read", "data_send"}
AfterSend  == {"data_reset", "data_unlock", "data_bcast"}

(* Bytes of the file the cache has made visible through bytes_written. *)
Published == c_bytes + IF pc["cache"] \in {"signal", "data_unlock"} THEN c_read_len ELSE 0

CacheInv ==
  /\ pc["cache"] \notin {"exit", "len_wait", "len_blocked"}
  /\ "cache" \in waiting => pc["cache"] = "data_blocked"
  /\ ~requested => pc["cache"] = "recv"
  /\ pc["cache"] \in BeforeSet => file_length = 0
  /\ pc["cache"] \in BeforeLoop => bytes_written = 0 /\ c_bytes = 0 /\ c_read_len = 0
  /\ pc["cache"] \in AskingRoom \cup WithChunk => c_bytes < fileLen
  /\ pc["cache"] \in WithChunk => c_read_len > 0 /\ c_bytes + c_read_len <= fileLen
  /\ pc["cache"] = "done" => c_bytes = IF fileLen > 0 THEN fileLen ELSE 0
  /\ pc["cache"] \in {"pread", "set_bytes"} => bytes_written = 0

LengthInv ==
  /\ pc["proxy"] \in {"create", "mq_send"} => ~requested
  /\ pc["cache"] \notin BeforeSet /\ pc["proxy"] \notin {"reply", "done"} => file_length = fileLen
  /\ pc["proxy"] = "len_read" => file_length # 0
  /\ pc["proxy"] \notin LengthUnknown =>
       file_len = fileLen /\ fileLen # 0 /\ pc["cache"] \notin BeforeSet
  /\ pc["proxy"] \in {"header"} \cup BeforeSend \cup AfterSend => fileLen > 0
  /\ pc["proxy"] = "reply" => fileLen < 0

HeaderInv ==
  /\ pc["proxy"] \in LengthUnknown \cup {"len_unlock", "len_bcast", "header", "reply"} =>
       header = NoHeader /\ out = << >>
  /\ pc["proxy"] \in BeforeSend \cup AfterSend \cup {"destroy", "done"} /\ fileLen > 0 =>
       header = [status |-> "OK", length |-> fileLen]
  /\ pc["proxy"] = "destroy" /\ fileLen < 0 => header = NoHeader
  /\ out # << >> => fileLen > 0
  /\ failed => pc["proxy"] = "done" /\ fileLen > 0

(* The chunk in the buffer is the next one the client needs. *)
ChunkInv ==
  /\ bytes_written # 0 => fileLen > 0 /\ c_read_len = bytes_written
  /\ bytes_written # 0 =>
       \A i \in 1 .. bytes_written : buffer[i] = Published - bytes_written + i
  /\ pc["cache"] = "set_bytes" => \A i \in 1 .. c_read_len : buffer[i] = c_bytes + i
  /\ pc["proxy"] \in {"data_read", "data_send", "data_reset"} => bytes_written # 0
  /\ pc["proxy"] \in {"data_send", "data_reset"} => read_len = bytes_written
  /\ ~failed => Len(out) + (IF pc["proxy"] = "data_reset" THEN 0 ELSE bytes_written) = Published
  /\ pc["proxy"] \in LengthUnknown \cup {"len_unlock", "len_bcast", "header"} => bytes_transferred = 0
  /\ pc["proxy"] \in BeforeSend => bytes_transferred = Len(out) /\ bytes_transferred < fileLen
  /\ pc["proxy"] \in AfterSend => bytes_transferred + read_len = Len(out)
  /\ pc["proxy"] = "destroy" \/ (pc["proxy"] = "done" /\ ~failed) =>
       Len(out) = IF fileLen > 0 THEN fileLen ELSE 0

ChannelInv == TypeOK /\ CacheInv /\ LengthInv /\ HeaderInv /\ ChunkInv /\ DeliveredPrefix

(* The client's bytes after n more from the front of the buffer. *)
LEMMA SentBytes ==
  ASSUME NEW o \in Seq(Nat), NEW b \in [1 .. ChunkSize -> Nat], NEW n \in 0 .. ChunkSize,
         \A i \in 1 .. Len(o) : o[i] = i,
         \A i \in 1 .. n : b[i] = Len(o) + i
  PROVE  LET r == o \o SubSeq(b, 1, n)
         IN  /\ r \in Seq(Nat) /\ Len(r) = Len(o) + n
             /\ \A i \in 1 .. Len(r) : r[i] = i
<1> DEFINE c == SubSeq(b, 1, n)
<1>1. c \in Seq(Nat) /\ Len(c) = n /\ \A i \in 1 .. n : c[i] = b[i]
  <2>1. \A i \in 1 .. n : b[i] \in Nat
    BY ChannelAssumption
  <2> QED BY <2>1, SubSeqProperties
<1> HIDE DEF c
<1>2. /\ o \o c \in Seq(Nat) /\ Len(o \o c) = Len(o) + n
      /\ \A i \in 1 .. Len(o) + n : (o \o c)[i] = i
  <2>1. /\ o \o c \in Seq(Nat) /\ Len(o \o c) = Len(o) + n /\ Len(o) \in Nat
        /\ \A i \in 1 .. Len(o) + n :
             (o \o c)[i] = IF i <= Len(o) THEN o[i] ELSE c[i - Len(o)]
    <3>1. c \in Seq(Nat) /\ Len(c) = n /\ Len(o) \in Nat
      BY <1>1
    <3>2. /\ o \o c \in Seq(Nat) /\ Len(o \o c) = Len(o) + Len(c)
          /\ \A i \in 1 .. Len(o) + Len(c) :
               (o \o c)[i] = IF i <= Len(o) THEN o[i] ELSE c[i - Len(o)]
      BY <3>1, ConcatProperties
    <3> QED BY <3>1, <3>2
  <2>2. \A i \in 1 .. n : c[i] = Len(o) + i
    BY <1>1
  <2>3. ASSUME NEW i \in 1 .. Len(o) + n PROVE (o \o c)[i] = i
    <3>1. CASE i <= Len(o)
      BY <2>1, <3>1
    <3>2. CASE i > Len(o)
      <4>1. i - Len(o) \in 1 .. n
        BY <2>1, <3>2
      <4> QED BY <2>1, <2>2, <3>2, <4>1
    <3> QED BY <2>1, <3>1, <3>2
  <2> QED BY <2>1, <2>3
<1> QED BY <1>2 DEF c

LEMMA ChannelInvInit == Init => ChannelInv
<1> SUFFICES ASSUME Init PROVE ChannelInv
  OBVIOUS
<1> USE ChannelAssumption DEF Init, Processes, LenLabels, DataLabels, BeforeSet, BeforeLoop,
     AskingRoom, WithChunk, LengthUnknown, BeforeSend, AfterSend, NoHeader, Published
<1>1. TypeOK
  <2>1. pc \in [Processes -> ProxyLabels \cup CacheLabels]
    BY DEF ProxyLabels, CacheLabels
  <2>2. pc["proxy"] \in ProxyLabels /\ pc["cache"] \in CacheLabels
    BY DEF ProxyLabels, CacheLabels
  <2>3. out \in Seq(Nat) /\ buffer \in [1 .. ChunkSize -> Nat]
    OBVIOUS
  <2>4. header \in [status : {"none", "OK", "FILE_NOT_FOUND"}, length : Nat]
    OBVIOUS
  <2>5. /\ requested \in BOOLEAN /\ failed \in BOOLEAN
        /\ waiting \in SUBSET Processes
    OBVIOUS
  <2>7. /\ file_length \in FileLens \cup {0} /\ bytes_written \in 0 .. ChunkSize
        /\ fileLen \in FileLens /\ c_read_len \in 0 .. ChunkSize /\ c_bytes \in Nat
        /\ file_len \in FileLens \cup {0} /\ read_len \in 0 .. ChunkSize
        /\ bytes_transferred \in Nat
    OBVIOUS
  <2>6. mutex \in [1 .. 2 -> Processes \cup {"free"}]
    OBVIOUS
  <2> HIDE DEF Init
  <2> QED BY <2>1, <2>2, <2>3, <2>4, <2>5, <2>6, <2>7 DEF TypeOK
<1>2. CacheInv /\ LengthInv /\ HeaderInv /\ ChunkInv /\ DeliveredPrefix
  BY DEF CacheInv, LengthInv, HeaderInv, ChunkInv, DeliveredPrefix
<1> QED BY <1>1, <1>2 DEF ChannelInv

LEMMA ChannelInvStep == ChannelInv /\ [Next]_vars => ChannelInv'
<1> SUFFICES ASSUME ChannelInv, [Next]_vars PROVE ChannelInv'
  OBVIOUS
<1> USE ChannelAssumption DEF ChannelInv, TypeOK, CacheInv, LengthInv, HeaderInv, ChunkInv,
     DeliveredPrefix, Processes, ProxyLabels, CacheLabels, LenLabels, DataLabels, BeforeSet,
     BeforeLoop, AskingRoom, WithChunk, LengthUnknown, BeforeSend, AfterSend, NoHeader,
     Published, Slot, cells, cacheLocals, proxyLocals, client, sync, data
<1>1. CASE Create
  BY <1>1 DEF Create, Goto
<1>2. CASE MqSend
  BY <1>2 DEF MqSend, Step, Goto
<1>3. CASE ProxyLenLock
  BY <1>3 DEF ProxyLenLock, Lock
<1>4. CASE ProxyLenCheck
  BY <1>4 DEF ProxyLenCheck, Step, Goto
<1>5. CASE ProxyLenWait
  BY <1>5 DEF ProxyLenWait, Block, Goto
<1>6. CASE ProxyLenRead
  BY <1>6 DEF ProxyLenRead, Step, Goto
<1>7. CASE ProxyLenUnlock
  BY <1>7 DEF ProxyLenUnlock, Unlock, Goto
<1>8. CASE ProxyLenBroadcast
  BY <1>8 DEF ProxyLenBroadcast, Notify, Goto
<1>9. CASE SendHeader
  BY <1>9 DEF SendHeader, Step, Goto
<1>10. CASE ProxyDataLock
  BY <1>10 DEF ProxyDataLock, Lock
<1>11. CASE ProxyDataCheck
  BY <1>11 DEF ProxyDataCheck, Step, Goto
<1>12. CASE ProxyDataWait
  BY <1>12 DEF ProxyDataWait, Block, Goto
<1>13. CASE ProxyDataRead
  BY <1>13 DEF ProxyDataRead, Step, Goto
<1>14. CASE Send
  <2>1. /\ pc["proxy"] = "data_send" /\ pc' = [pc EXCEPT !["proxy"] = "data_reset"]
        /\ read_len = bytes_written /\ read_len \in 1 .. ChunkSize
        /\ out' = out \o SubSeq(buffer, 1, read_len)
        /\ UNCHANGED <<sync, requested, cells, cacheLocals, proxyLocals, header, failed>>
    BY <1>14 DEF Send, Step, Goto
  <2>2. \A i \in 1 .. read_len : buffer[i] = Len(out) + i
    <3>1. Len(out) + bytes_written = Published /\ Len(out) \in Nat /\ Published \in Int
      BY <2>1
    <3>2. \A i \in 1 .. bytes_written : buffer[i] = Published - bytes_written + i
      BY <2>1
    <3> HIDE DEF Published
    <3> QED BY <2>1, <3>1, <3>2
  <2>3. /\ out' \in Seq(Nat) /\ Len(out') = Len(out) + read_len
        /\ \A i \in 1 .. Len(out') : out'[i] = i
    BY <2>1, <2>2, SentBytes
  <2>4. Len(out) + read_len = Published /\ Published <= fileLen
    BY <2>1
  <2>5. TypeOK' /\ CacheInv' /\ LengthInv'
    BY <2>1, <2>3
  <2>6. HeaderInv' /\ DeliveredPrefix'
    BY <2>1, <2>3, <2>4
  <2>7. ChunkInv'
    <3>1. Published' = Published /\ pc'["cache"] = pc["cache"] /\ bytes_written # 0
      BY <2>1
    <3>2. Len(out') = Published
      BY <2>3, <2>4
    <3>3. bytes_transferred' + read_len' = Len(out')
      BY <2>1, <2>3
    <3>4. \A i \in 1 .. bytes_written' : buffer'[i] = Published' - bytes_written' + i
      BY <2>1, <3>1
    <3>5. pc'["cache"] = "set_bytes" => \A i \in 1 .. c_read_len' : buffer'[i] = c_bytes' + i
      BY <2>1, <3>1
    <3> HIDE DEF Published
    <3> QED BY <2>1, <3>1, <3>2, <3>3, <3>4, <3>5
  <2> QED BY <2>5, <2>6, <2>7
<1>15. CASE ResetBytes
  BY <1>15 DEF ResetBytes, Step, Goto
<1>16. CASE ProxyDataUnlock
  BY <1>16 DEF ProxyDataUnlock, Unlock, Goto
<1>17. CASE ProxyDataBroadcast
  BY <1>17 DEF ProxyDataBroadcast, Notify, Goto
<1>18. CASE Destroy
  BY <1>18 DEF Destroy, Step, Goto
<1>19. CASE SendNotFound
  BY <1>19 DEF SendNotFound, Step, Goto
<1>20. CASE Receive
  BY <1>20 DEF Receive, Step, Goto
<1>21. CASE ZeroLength
  BY <1>21 DEF ZeroLength, Step, Goto
<1>22. CASE AssertZero
  BY <1>22 DEF AssertZero, Step, Goto
<1>23. CASE CacheLenLock
  BY <1>23 DEF CacheLenLock, Lock
<1>24. CASE CacheLenCheck
  BY <1>24 DEF CacheLenCheck, Step, Goto
<1>25. CASE SetLength
  BY <1>25 DEF SetLength, Step, Goto
<1>26. CASE ClearBytes
  BY <1>26 DEF ClearBytes, Step, Goto
<1>27. CASE CacheLenUnlock
  BY <1>27 DEF CacheLenUnlock, Unlock, Goto
<1>28. CASE CacheLenBroadcast
  BY <1>28 DEF CacheLenBroadcast, Notify, Goto
<1>29. CASE CacheDataLock
  <2>1. /\ pc["cache"] \in {"data_lock", "data_blocked"}
        /\ pc' = [pc EXCEPT !["cache"] = "data_check"]
        /\ mutex' = [mutex EXCEPT ![2] = "cache"]
        /\ "cache" \notin waiting /\ UNCHANGED <<waiting, data>>
    BY <1>29 DEF CacheDataLock, Lock
  <2> QED BY <2>1, SMTT(30)
<1>30. CASE CacheDataCheck
  BY <1>30 DEF CacheDataCheck, Step, Goto
<1>31. CASE CacheWait
  <2>1. PICK phase \in {<<"file_len_mutex", "len_wait", "len_blocked">>,
                        <<"data_mutex", "data_wait", "data_blocked">>} :
            Block("cache", phase[1], phase[2], phase[3])
    BY <1>31 DEF CacheWait
  <2>2. phase = <<"data_mutex", "data_wait", "data_blocked">>
    <3>1. pc["cache"] # "len_wait"
      OBVIOUS
    <3>2. pc["cache"] = phase[2]
      BY <2>1 DEF Block, Goto
    <3> QED BY <2>1, <3>1, <3>2
  <2>3. Block("cache", "data_mutex", "data_wait", "data_blocked")
    BY <2>1, <2>2
  <2> QED BY <2>3 DEF Block, Goto
<1>32. CASE Pread
  BY <1>32, SMTT(60) DEF Pread, Step, Goto
<1>33. CASE SetBytes
  <2>1. /\ pc["cache"] = "set_bytes" /\ pc' = [pc EXCEPT !["cache"] = "signal"]
        /\ bytes_written = 0 /\ bytes_written' = c_read_len
        /\ UNCHANGED <<sync, requested, file_length, buffer, cacheLocals, proxyLocals, client>>
    BY <1>33 DEF SetBytes, Step, Goto
  <2>2. /\ Published' = c_bytes + c_read_len /\ Published = c_bytes
        /\ \A i \in 1 .. c_read_len : buffer[i] = c_bytes + i
        /\ pc'["proxy"] = pc["proxy"]
        /\ pc["proxy"] \notin {"data_read", "data_send", "data_reset"}
    BY <2>1
  <2>3. TypeOK' /\ CacheInv' /\ LengthInv' /\ HeaderInv' /\ DeliveredPrefix'
    BY <2>1
  <2>4. ChunkInv'
    <3>1. ~failed => Len(out) = c_bytes
      BY <2>1, <2>2
    <3>2. c_read_len > 0 /\ fileLen > 0
      BY <2>1
    <3>3. \A i \in 1 .. c_read_len : buffer[i] = (Published' - c_read_len) + i
      BY <2>2
    <3>4. pc'["cache"] # "set_bytes" /\ Published' = c_bytes + c_read_len
      BY <2>1, <2>2
    <3> HIDE DEF Published
    <3> QED BY <2>1, <2>2, <3>1, <3>2, <3>3, <3>4
  <2> QED BY <2>3, <2>4
<1>34. CASE CacheSignal
  BY <1>34 DEF CacheSignal, Notify, Goto
<1>35. CASE CacheDataUnlock
  BY <1>35 DEF CacheDataUnlock, Unlock, Goto
<1>36. CASE SendFails
  <2>1. /\ pc["proxy"] = "data_send" /\ pc' = [pc EXCEPT !["proxy"] = "done"]
        /\ read_len = bytes_written /\ read_len \in 1 .. ChunkSize /\ failed'
        /\ UNCHANGED <<sync, requested, cells, cacheLocals, proxyLocals, header>>
    BY <1>36 DEF SendFails, Step, Goto
  <2>2. PICK n \in 0 .. (read_len - 1) : out' = out \o SubSeq(buffer, 1, n)
    BY <1>36 DEF SendFails
  <2>3. \A i \in 1 .. n : buffer[i] = Len(out) + i
    <3>1. Len(out) + bytes_written = Published /\ Len(out) \in Nat /\ Published \in Int
      BY <2>1
    <3>2. \A i \in 1 .. bytes_written : buffer[i] = Published - bytes_written + i
      BY <2>1
    <3>3. n \in 0 .. bytes_written - 1 /\ bytes_written \in Nat
      BY <2>1, <2>2
    <3>4. \A i \in 1 .. n : i \in 1 .. bytes_written
      BY <3>3
    <3>5. Published - bytes_written = Len(out)
      BY <3>1, <3>3
    <3> HIDE DEF Published
    <3> QED BY <3>2, <3>4, <3>5
  <2>4. /\ out' \in Seq(Nat) /\ Len(out') = Len(out) + n
        /\ \A i \in 1 .. Len(out') : out'[i] = i
    BY <2>1, <2>2, <2>3, SentBytes, SMTT(60)
  <2>5. Len(out) + read_len = Published /\ Published <= fileLen /\ fileLen > 0
    BY <2>1
  <2>6. TypeOK' /\ CacheInv' /\ LengthInv'
    BY <2>1, <2>4
  <2>7. HeaderInv' /\ DeliveredPrefix'
    BY <2>1, <2>4, <2>5
  <2>8. ChunkInv'
    BY <2>1, <2>4, <2>5
  <2> QED BY <2>6, <2>7, <2>8
<1>37. CASE SpuriousWakeup
  BY <1>37 DEF SpuriousWakeup
<1>38. CASE UNCHANGED vars
  BY <1>38 DEF vars
<1> QED
  BY <1>1, <1>2, <1>3, <1>4, <1>5, <1>6, <1>7, <1>8, <1>9, <1>10, <1>11, <1>12, <1>13, <1>14, <1>15, <1>16, <1>17, <1>18, <1>19, <1>20, <1>21, <1>22, <1>23, <1>24, <1>25, <1>26, <1>27, <1>28, <1>29, <1>30, <1>31, <1>32, <1>33, <1>34, <1>35, <1>36, <1>37, <1>38
  DEF Next, Proxy, Cache

LEMMA ChannelInvariant == Spec => []ChannelInv
<1>1. ChannelInv /\ [Next]_vars => ChannelInv'
  BY ChannelInvStep
<1> QED BY <1>1, ChannelInvInit, PTL DEF Spec

-----------------------------------------------------------------------------
(* Every field and local keeps its type: read_len never exceeds the buffer, *)
(* no chunk is read past the end of the file.                               *)
THEOREM TypeCorrect == Spec => []TypeOK
<1>1. ChannelInv => TypeOK
  BY DEF ChannelInv
<1> QED BY <1>1, ChannelInvariant, PTL

(* The cache never refills the buffer while the proxy sends from it, though *)
(* the mutexes of the two do not exclude each other.                        *)
THEOREM BufferExclusion == Spec => []BufferExclusive
<1>1. ChannelInv => BufferExclusive
  BY DEF ChannelInv, CacheInv, ChunkInv, BufferExclusive
<1> QED BY <1>1, ChannelInvariant, PTL

(* The client's bytes are always a prefix of the file. *)
THEOREM Delivery == Spec => []DeliveredPrefix
<1>1. ChannelInv => DeliveredPrefix
  BY DEF ChannelInv
<1> QED BY <1>1, ChannelInvariant, PTL

(* destroy_shm_seg runs only when the cache worker is past its last wait,   *)
(* lock and read of the segment's fields.                                   *)
THEOREM CacheGone == Spec => []CacheGoneOnDestroy
<1>1. ChannelInv => CacheGoneOnDestroy
  <2> SUFFICES ASSUME ChannelInv,
                      pc["proxy"] \in {"destroy", "reply"} \/ (pc["proxy"] = "done" /\ ~failed)
               PROVE  /\ "cache" \notin waiting
                      /\ pc["cache"] \in {"clear_bytes", "len_unlock", "len_bcast", "signal",
                                         "data_unlock", "done"}
                      /\ pc["cache"] = "data_unlock" => c_bytes + c_read_len >= fileLen
                      /\ pc["cache"] = "len_bcast" => fileLen <= 0
    BY DEF CacheGoneOnDestroy
  <2> USE ChannelAssumption DEF ChannelInv, TypeOK, CacheInv, LengthInv, ChunkInv, BeforeSet,
       BeforeLoop, AskingRoom, WithChunk, LengthUnknown, LenLabels, DataLabels, CacheLabels, Published
  <2>1. pc["proxy"] \notin LengthUnknown /\ pc["cache"] \notin BeforeSet /\ fileLen # 0
    OBVIOUS
  <2>2. CASE fileLen < 0
    BY <2>1, <2>2
  <2>3. CASE fileLen > 0
    <3>1. Published >= fileLen
      <4>1. ~failed /\ Len(out) = fileLen
        BY <2>3 DEF HeaderInv
      <4> QED BY <4>1
    <3>2. pc["cache"] \notin AskingRoom \cup {"set_bytes"} \cup BeforeLoop
      BY <2>3, <3>1
    <3> QED BY <2>1, <2>3, <3>1, <3>2
  <2> QED BY <2>1, <2>2, <2>3
<1> QED BY <1>1, ChannelInvariant, PTL

(* The front of a buffer that holds consecutive bytes, as FileTransfer      *)
(* writes them.                                                             *)
LEMMA FrontBytes ==
  ASSUME NEW b \in [1 .. ChunkSize -> Nat], NEW n \in 0 .. ChunkSize, NEW k \in Nat,
         \A i \in 1 .. n : b[i] = k + i
  PROVE  SubSeq(b, 1, n) = Transfer!Bytes(k + 1, k + n)
<1>1. \A i \in 1 .. n : b[i] \in Nat
  BY ChannelAssumption
<1>2. /\ SubSeq(b, 1, n) \in Seq(Nat) /\ Len(SubSeq(b, 1, n)) = n
      /\ \A i \in 1 .. n : SubSeq(b, 1, n)[i] = b[i]
  BY <1>1, SubSeqProperties
<1>3. SubSeq(b, 1, n) = [i \in 1 .. n |-> k + i]
  BY <1>2
<1>4. /\ (k + n) - (k + 1) + 1 = n
      /\ \A i \in 1 .. n : (k + 1) + i - 1 = k + i
  OBVIOUS
<1>5. Transfer!Bytes(k + 1, k + n) = [i \in 1 .. n |-> (k + 1) + i - 1]
  BY <1>4, Zenon DEF Transfer!Bytes
<1>6. [i \in 1 .. n |-> (k + 1) + i - 1] = [i \in 1 .. n |-> k + i]
  BY <1>4, Zenon
<1> QED BY <1>3, <1>5, <1>6, Zenon

(* The types the sending of a chunk relies on. *)
LEMMA BufferTypes ==
  ChannelInv => buffer \in [1 .. ChunkSize -> Nat] /\ Len(out) \in Nat /\ read_len \in 0 .. ChunkSize
<1>1. TypeOK => buffer \in [1 .. ChunkSize -> Nat] /\ out \in Seq(Nat) /\ read_len \in 0 .. ChunkSize
  BY Zenon DEF TypeOK
<1>2. out \in Seq(Nat) => Len(out) \in Nat
  OBVIOUS
<1> QED BY <1>1, <1>2, Zenon DEF ChannelInv

(* The conversation implements the promise to the client: at most one       *)
(* header, the right one, then the file's bytes in order, and "complete"    *)
(* only when all were sent.                                                 *)
THEOREM Implementation == Spec => ImplementsTransfer
<1>1. Init => Transfer!Init
  BY DEF Init, Transfer!Init, NoHeader, Transfer!NoHeader
<1>2. ChannelInv /\ ChannelInv' /\ [Next]_vars => [Transfer!Next]_(Transfer!vars)
  <2> SUFFICES ASSUME ChannelInv, ChannelInv', [Next]_vars
               PROVE  Transfer!Next \/ UNCHANGED Transfer!vars
    OBVIOUS
  <2> DEFINE quiet == UNCHANGED <<fileLen, header, out, failed>>
  <2> USE ChannelAssumption DEF ChannelInv, TypeOK, Processes, data, cells, cacheLocals,
       proxyLocals, client, Transfer!vars, ProxyLabels, CacheLabels, LenLabels, DataLabels
  <2>1. ASSUME quiet, pc["proxy"] = "done" <=> pc'["proxy"] = "done" PROVE UNCHANGED Transfer!vars
    BY <2>1
  <2>2. CASE Cache
    <3>1. quiet /\ pc'["proxy"] = pc["proxy"]
      BY <2>2, SMTT(60) DEF Cache, Receive, ZeroLength, AssertZero, CacheLenLock, CacheLenCheck, SetLength,
         ClearBytes, CacheLenUnlock, CacheLenBroadcast, CacheDataLock, CacheDataCheck, CacheWait,
         Pread, SetBytes, CacheSignal, CacheDataUnlock, Step, Goto, Lock, Unlock, Block, Notify
    <3> QED BY <2>1, <3>1
  <2>3. CASE \/ Create \/ MqSend \/ ProxyLenLock \/ ProxyLenCheck \/ ProxyLenWait \/ ProxyLenRead
             \/ ProxyLenUnlock \/ ProxyLenBroadcast \/ ProxyDataLock \/ ProxyDataCheck
             \/ ProxyDataWait \/ ProxyDataRead \/ ResetBytes \/ ProxyDataUnlock \/ ProxyDataBroadcast
    <3>1. quiet /\ pc["proxy"] # "done" /\ pc'["proxy"] # "done"
      <4>1. CASE Create \/ MqSend \/ ProxyLenLock \/ ProxyLenCheck \/ ProxyLenWait
        BY <4>1 DEF Create, MqSend, ProxyLenLock, ProxyLenCheck, ProxyLenWait, Step, Goto, Lock, Block
      <4>2. CASE ProxyLenRead \/ ProxyLenUnlock \/ ProxyLenBroadcast \/ ProxyDataLock \/ ProxyDataCheck
        BY <4>2 DEF ProxyLenRead, ProxyLenUnlock, ProxyLenBroadcast, ProxyDataLock, ProxyDataCheck,
           Step, Goto, Lock, Unlock, Notify
      <4>3. CASE ProxyDataWait \/ ProxyDataRead \/ ResetBytes \/ ProxyDataUnlock \/ ProxyDataBroadcast
        BY <4>3 DEF ProxyDataWait, ProxyDataRead, ResetBytes, ProxyDataUnlock, ProxyDataBroadcast,
           Step, Goto, Unlock, Block, Notify
      <4> QED BY <2>3, <4>1, <4>2, <4>3
    <3> QED BY <2>1, <3>1
  <2>4. CASE SendHeader
    <3>1. /\ pc["proxy"] = "header" /\ pc'["proxy"] = "data_lock" /\ UNCHANGED <<fileLen, out, failed>>
          /\ header' = [status |-> "OK", length |-> file_len]
      BY <2>4 DEF SendHeader, Step, Goto
    <3>2. header = NoHeader /\ file_len = fileLen /\ fileLen > 0
      BY <3>1 DEF HeaderInv, LengthInv, LengthUnknown
    <3> QED BY <3>1, <3>2 DEF Transfer!Next, Transfer!SendHeader, Transfer!Ok, NoHeader, Transfer!NoHeader
  <2>5. CASE SendNotFound
    <3>1. /\ pc["proxy"] = "reply" /\ pc'["proxy"] = "done" /\ UNCHANGED <<fileLen, out, failed>>
          /\ header' = [status |-> "FILE_NOT_FOUND", length |-> 0]
      BY <2>5 DEF SendNotFound, Step, Goto
    <3>2. header = NoHeader /\ fileLen < 0 /\ ~failed
      BY <3>1 DEF HeaderInv, LengthInv
    <3> QED BY <3>1, <3>2 DEF Transfer!Next, Transfer!SendNotFound, Transfer!NotFound, NoHeader, Transfer!NoHeader
  <2>6. CASE Destroy
    <3>1. /\ pc["proxy"] = "destroy" /\ UNCHANGED <<fileLen, header, out, failed>>
          /\ pc'["proxy"] = IF file_len < 0 THEN "reply" ELSE "done"
      BY <2>6 DEF Destroy, Step, Goto
    <3>2. file_len = fileLen /\ fileLen # 0 /\ ~failed
      BY <3>1 DEF HeaderInv, LengthInv, LengthUnknown
    <3>3. CASE fileLen < 0
      BY <2>1, <3>1, <3>2, <3>3
    <3>4. CASE fileLen > 0
      <4>1. header = [status |-> "OK", length |-> fileLen] /\ Len(out) = fileLen
        BY <3>1, <3>4 DEF HeaderInv, ChunkInv
      <4> QED BY <3>1, <3>2, <3>4, <4>1 DEF Transfer!Next, Transfer!Complete, Transfer!Ok
    <3> QED BY <3>2, <3>3, <3>4
  <2>7. ASSUME pc["proxy"] = "data_send"
        PROVE  /\ header = Transfer!Ok(fileLen) /\ ~failed /\ read_len \in 1 .. ChunkSize
               /\ read_len <= fileLen - Len(out)
               /\ \A i \in 1 .. read_len : buffer[i] = Len(out) + i
    <3>1. /\ header = Transfer!Ok(fileLen) /\ ~failed /\ read_len = bytes_written /\ bytes_written # 0
      BY <2>7, SMTT(30) DEF HeaderInv, ChunkInv, LengthInv, BeforeSend, Transfer!Ok
    <3>2. Len(out) + bytes_written = Published /\ Len(out) \in Nat /\ Published \in Int
      BY <2>7, <3>1, SMTT(30) DEF ChunkInv, Published
    <3>3. Published <= fileLen
      BY <3>1, SMTT(30) DEF CacheInv, ChunkInv, Published, AskingRoom, WithChunk, BeforeSet, BeforeLoop
    <3>4. \A i \in 1 .. bytes_written : buffer[i] = Published - bytes_written + i
      BY <3>1, SMTT(30) DEF ChunkInv
    <3>5. Published - bytes_written = Len(out) /\ read_len \in 1 .. ChunkSize
      BY <3>1, <3>2, SMTT(30)
    <3>6. read_len <= fileLen - Len(out)
      BY <3>1, <3>2, <3>3, SMTT(30)
    <3> HIDE DEF Published
    <3> QED BY <3>1, <3>4, <3>5, <3>6
  <2>8. CASE Send
    <3>1. /\ pc["proxy"] = "data_send" /\ pc'["proxy"] = "data_reset"
          /\ out' = out \o SubSeq(buffer, 1, read_len)
          /\ UNCHANGED <<fileLen, header, failed>>
      BY <2>8 DEF Send, Step, Goto
    <3>2. SubSeq(buffer, 1, read_len) = Transfer!Bytes(Len(out) + 1, Len(out) + read_len)
      <4>1. buffer \in [1 .. ChunkSize -> Nat] /\ Len(out) \in Nat /\ read_len \in 0 .. ChunkSize
        BY BufferTypes, Zenon
      <4>2. \A i \in 1 .. read_len : buffer[i] = Len(out) + i
        BY <2>7, <3>1, SMTT(30)
      <4> QED BY <4>1, <4>2, FrontBytes, Zenon
    <3>3. read_len \in 1 .. (fileLen - Len(out))
      BY <2>7, <3>1, SMTT(30)
    <3>4. Transfer!Deliver(read_len)
      <4> HIDE DEF TypeOK
      <4> QED BY <2>7, <3>1, <3>2, SMTT(30) DEF Transfer!Deliver
    <3> QED BY <3>1, <3>3, <3>4, SMTT(30) DEF Transfer!Next, Transfer!Send
  <2>9. CASE SendFails
    <3>1. /\ pc["proxy"] = "data_send" /\ pc'["proxy"] = "done" /\ failed'
          /\ UNCHANGED <<fileLen, header>>
      BY <2>9 DEF SendFails, Step, Goto
    <3>2. PICK n \in 0 .. (read_len - 1) : out' = out \o SubSeq(buffer, 1, n)
      BY <2>9 DEF SendFails
    <3>3. n \in 0 .. ChunkSize /\ \A i \in 1 .. n : buffer[i] = Len(out) + i
      <4> HIDE DEF TypeOK, ChannelInv
      <4> QED BY <2>7, <3>1, <3>2, SMTT(30)
    <3>4. SubSeq(buffer, 1, n) = Transfer!Bytes(Len(out) + 1, Len(out) + n)
      <4>1. buffer \in [1 .. ChunkSize -> Nat] /\ Len(out) \in Nat
        BY BufferTypes, Zenon
      <4> QED BY <3>3, <4>1, FrontBytes, Zenon
    <3>5. n \in 0 .. (fileLen - Len(out))
      <4>1. fileLen \in Int /\ Len(out) \in Nat OBVIOUS
      <4> HIDE DEF TypeOK, ChannelInv
      <4> QED BY <2>7, <3>1, <3>2, <4>1, SMTT(30)
    <3>6. Transfer!Deliver(n)
      <4> HIDE DEF TypeOK
      <4> QED BY <2>7, <3>1, <3>2, <3>4 DEF Transfer!Deliver
    <3> QED BY <3>1, <3>5, <3>6, SMTT(30) DEF Transfer!Next, Transfer!Abort
  <2>10. CASE SpuriousWakeup
    BY <2>1, <2>10 DEF SpuriousWakeup
  <2>11. CASE UNCHANGED vars
    BY <2>1, <2>11 DEF vars
  <2> QED
    BY <2>2, <2>3, <2>4, <2>5, <2>6, <2>8, <2>9, <2>10, <2>11 DEF Next, Proxy
<1> QED BY <1>1, <1>2, ChannelInvariant, PTL DEF Spec, Transfer!Spec, ImplementsTransfer
=============================================================================
