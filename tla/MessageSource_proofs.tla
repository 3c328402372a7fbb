------------------------ MODULE MessageSource_proofs ------------------------
(***************************************************************************)
(* That a request survives the way through Kafka, although a field that    *)
(* has its default value is not sent; and what every action of a source    *)
(* preserves, whatever surrounds the source.                               *)
(***************************************************************************)
EXTENDS MessageSource, TLAPS

-----------------------------------------------------------------------------
(* Requests *)

(* A payload has exactly the fields of the request that are not defaults. *)
LEMMA EncodeFields ==
    ASSUME NEW r \in Request
    PROVE  /\ "cmd" \in DOMAIN Encode(r) <=> r.cmd # "GET"
           /\ "key" \in DOMAIN Encode(r) <=> r.key # 0
           /\ "sink" \in DOMAIN Encode(r)
           /\ \A f \in DOMAIN Encode(r) : Encode(r)[f] = r[f]
  <1>1. r["cmd"] = r.cmd /\ r["key"] = r.key /\ r["sink"] = r.sink
    OBVIOUS
  <1>2. /\ Default["cmd"] = "GET"
        /\ Default["key"] = 0
        /\ Default["sink"] = NoSink
    BY DEF Default
  <1>3. r.sink # NoSink
    BY RequestMessageAssumption DEF Request
  <1> QED
    BY <1>1, <1>2, <1>3 DEF Encode

(* Whatever is asked, the source is asked what the sink asked. *)
THEOREM RequestSurvives == \A r \in Request : Decode(Encode(r)) = r
  <1> SUFFICES ASSUME NEW r \in Request PROVE Decode(Encode(r)) = r
    OBVIOUS
  <1>1. /\ Default.cmd = "GET"
        /\ Default.key = 0
        /\ Default.sink = NoSink
    BY DEF Default
  <1>2. "cmd" \in DOMAIN Encode(r) => Encode(r).cmd = r.cmd
    BY EncodeFields
  <1>3. "key" \in DOMAIN Encode(r) => Encode(r).key = r.key
    BY EncodeFields
  <1>4. "sink" \in DOMAIN Encode(r) /\ Encode(r).sink = r.sink
    BY EncodeFields
  <1>5. Decode(Encode(r)) = [cmd |-> r.cmd, key |-> r.key, sink |-> r.sink]
    BY <1>1, <1>2, <1>3, <1>4, EncodeFields DEF Decode
  <1> QED
    BY <1>5 DEF Request

(* The payloads are what Encode makes of requests ... *)
LEMMA EncodeType ==
    ASSUME NEW r \in Request
    PROVE  Encode(r) \in Payload
  <1> DEFINE p == Encode(r)
  <1>1. p = [f \in DOMAIN p |-> p[f]]
    BY DEF Encode
  <1>2. DOMAIN p \subseteq {"cmd", "key", "sink"}
    BY DEF Encode
  <1>3. /\ "sink" \in DOMAIN p /\ p["sink"] \in Sinks
        /\ "key" \in DOMAIN p => p["key"] \in Nat \ {0}
        /\ "cmd" \in DOMAIN p => p["cmd"] \in {"DEL", "RECOVER"}
    BY EncodeFields DEF Request
  <1> HIDE DEF p
  <1>4. CASE "key" \notin DOMAIN p /\ "cmd" \notin DOMAIN p
    <2>1. DOMAIN p = {"sink"}
      BY <1>2, <1>3, <1>4
    <2>2. p \in [sink : Sinks]
      BY <1>1, <1>3, <2>1
    <2> QED  BY <2>2 DEF Payload, p
  <1>5. CASE "key" \in DOMAIN p /\ "cmd" \notin DOMAIN p
    <2>1. DOMAIN p = {"key", "sink"}
      BY <1>2, <1>3, <1>5
    <2>2. p \in [key : Nat \ {0}, sink : Sinks]
      BY <1>1, <1>3, <2>1
    <2> QED  BY <2>2 DEF Payload, p
  <1>6. CASE "key" \notin DOMAIN p /\ "cmd" \in DOMAIN p
    <2>1. DOMAIN p = {"cmd", "sink"}
      BY <1>2, <1>3, <1>6
    <2>2. p \in [cmd : {"DEL", "RECOVER"}, sink : Sinks]
      BY <1>1, <1>3, <2>1
    <2> QED  BY <2>2 DEF Payload, p
  <1>7. CASE "key" \in DOMAIN p /\ "cmd" \in DOMAIN p
    <2>1. DOMAIN p = {"cmd", "key", "sink"}
      BY <1>2, <1>3, <1>7
    <2>2. p \in [cmd : {"DEL", "RECOVER"}, key : Nat \ {0}, sink : Sinks]
      BY <1>1, <1>3, <2>1
    <2> QED  BY <2>2 DEF Payload, p
  <1> QED
    BY <1>4, <1>5, <1>6, <1>7

(* ... and Decode makes requests of them. *)
LEMMA DecodeType ==
    ASSUME NEW p \in Payload
    PROVE  Decode(p) \in Request
  <1>1. Default.cmd = "GET" /\ Default.key = 0
    BY DEF Default
  <1>2. /\ "sink" \in DOMAIN p /\ p.sink \in Sinks
        /\ "key" \in DOMAIN p => p.key \in Nat
        /\ "cmd" \in DOMAIN p => p.cmd \in {"DEL", "RECOVER"}
    BY DEF Payload
  <1> QED
    BY <1>1, <1>2 DEF Decode, Request

-----------------------------------------------------------------------------
(* Sequences *)

(* The elements of a sequence that grew by one. *)
LEMMA ToSetAppend ==
    ASSUME NEW S, NEW q \in Seq(S), NEW m \in S
    PROVE  /\ Append(q, m) \in Seq(S)
           /\ ToSet(Append(q, m)) = ToSet(q) \cup {m}
  <1>1. /\ Append(q, m) \in Seq(S)
        /\ DOMAIN Append(q, m) = 1 .. Len(q) + 1
        /\ DOMAIN q = 1 .. Len(q)
        /\ Len(q) \in Nat
        /\ Append(q, m)[Len(q) + 1] = m
        /\ \A i \in 1 .. Len(q) : Append(q, m)[i] = q[i]
    OBVIOUS
  <1>2. ASSUME NEW x \in ToSet(q) PROVE x \in ToSet(Append(q, m))
    BY <1>1, <1>2 DEF ToSet
  <1>3. m \in ToSet(Append(q, m))
    BY <1>1 DEF ToSet
  <1>4. ASSUME NEW x \in ToSet(Append(q, m)), x # m PROVE x \in ToSet(q)
    <2>1. PICK i \in 1 .. Len(q) + 1 : x = Append(q, m)[i]
      BY <1>1, <1>4 DEF ToSet
    <2>2. i \in 1 .. Len(q)
      BY <1>1, <1>4, <2>1
    <2> QED
      BY <1>1, <2>1, <2>2 DEF ToSet
  <1> QED
    BY <1>1, <1>2, <1>3, <1>4

(* Head and tail make up a sequence that is not empty. *)
LEMMA ToSetTail ==
    ASSUME NEW S, NEW q \in Seq(S), q # <<>>
    PROVE  /\ Head(q) \in S
           /\ Tail(q) \in Seq(S)
           /\ ToSet(q) = {Head(q)} \cup ToSet(Tail(q))
  <1>1. /\ Head(q) \in S
        /\ Tail(q) \in Seq(S)
        /\ DOMAIN q = 1 .. Len(q)
        /\ Len(q) \in Nat \ {0}
        /\ DOMAIN Tail(q) = 1 .. Len(q) - 1
        /\ Head(q) = q[1]
        /\ \A i \in 1 .. Len(q) - 1 : Tail(q)[i] = q[i + 1]
    OBVIOUS
  <1>2. ASSUME NEW x \in ToSet(Tail(q)) PROVE x \in ToSet(q)
    <2>1. PICK i \in 1 .. Len(q) - 1 : x = Tail(q)[i]
      BY <1>1, <1>2 DEF ToSet
    <2>2. x = q[i + 1] /\ i + 1 \in 1 .. Len(q)
      BY <1>1, <2>1
    <2> QED
      BY <1>1, <2>2 DEF ToSet
  <1>3. Head(q) \in ToSet(q)
    BY <1>1 DEF ToSet
  <1>4. ASSUME NEW x \in ToSet(q), x # Head(q) PROVE x \in ToSet(Tail(q))
    <2>1. PICK i \in 1 .. Len(q) : x = q[i]
      BY <1>1, <1>4 DEF ToSet
    <2>2. i - 1 \in 1 .. Len(q) - 1 /\ x = Tail(q)[i - 1]
      BY <1>1, <1>4, <2>1
    <2> QED
      BY <1>1, <2>2 DEF ToSet
  <1> QED
    BY <1>1, <1>2, <1>3, <1>4

(* A drained queue holds nothing. *)
LEMMA ToSetEmpty == ToSet(<<>>) = {} /\ IsInjective(<<>>)
  BY DEF ToSet, IsInjective

(* Enqueueing something new keeps a queue free of repetitions. *)
LEMMA InjectiveAppend ==
    ASSUME NEW S, NEW q \in Seq(S), NEW m \in S \ ToSet(q), IsInjective(q)
    PROVE  IsInjective(Append(q, m))
  BY DEF ToSet, IsInjective

(* A sequence without repetitions loses its head for good. *)
LEMMA InjectiveTail ==
    ASSUME NEW S, NEW q \in Seq(S), q # <<>>, IsInjective(q)
    PROVE  IsInjective(Tail(q)) /\ Head(q) \notin ToSet(Tail(q))
  BY DEF ToSet, IsInjective

(* Taking a request from anywhere in a topic leaves a sequence of them. *)
LEMMA RemoveAtType ==
    ASSUME NEW S, NEW q \in Seq(S), NEW i \in DOMAIN q
    PROVE  RemoveAt(q, i) \in Seq(S)
  <1>1. i \in 1 .. Len(q)
    OBVIOUS
  <1>2. SubSeq(q, 1, i - 1) \in Seq(S)
    BY <1>1
  <1>3. SubSeq(q, i + 1, Len(q)) \in Seq(S)
    BY <1>1
  <1> QED
    BY <1>2, <1>3 DEF RemoveAt

(* What a lingering socket still delivers is a sequence of messages. *)
LEMMA PrefixType ==
    ASSUME NEW S, NEW q \in Seq(S), NEW n \in 0 .. Len(q)
    PROVE  SubSeq(q, 1, n) \in Seq(S)
  OBVIOUS

-----------------------------------------------------------------------------
(* Types *)

(* What a sink or the environment puts into the topic is a request. *)
LEMMA RequestTypes ==
    ASSUME NEW k \in Sinks, NEW key \in Nat
    PROVE  {Get(k), Recover(k), Del(k, key)} \subseteq Request
  BY DEF Get, Recover, Del, Default, Request

(* produce() appends requests to every subscribed topic queue. *)
LEMMA ProduceType ==
    ASSUME ChannelsTypeOK, NEW r \in Request, Produce(r)
    PROVE  kafka' \in [Sources -> Seq(Payload)]
  <1>1. PICK n \in Copies :
            kafka' = [s \in Sources |-> IF s \in subscribed
                                          THEN kafka[s] \o [i \in 1..n |-> Encode(r)]
                                          ELSE kafka[s]]
    BY DEF Produce
  <1>2. n \in Nat
    BY DEF Copies
  <1>3. [i \in 1..n |-> Encode(r)] \in Seq(Payload)
    BY <1>2, EncodeType
  <1>4. ASSUME NEW s \in Sources
        PROVE  kafka[s] \o [i \in 1..n |-> Encode(r)] \in Seq(Payload)
    BY <1>3 DEF ChannelsTypeOK
  <1> QED
    BY <1>1, <1>4 DEF ChannelsTypeOK

(* consume() keeps the type of the topic. *)
LEMMA ConsumeType ==
    ASSUME ChannelsTypeOK, NEW s \in Sources, NEW i, Consume(s, i)
    PROVE  /\ kafka' \in [Sources -> Seq(Payload)]
           /\ Decode(kafka[s][i]) \in Request
  <1>1. i \in DOMAIN kafka[s] /\ kafka[s] \in Seq(Payload)
    BY DEF Consume, Consumable, ChannelsTypeOK
  <1>2. RemoveAt(kafka[s], i) \in Seq(Payload)
    BY <1>1, RemoveAtType
  <1>3. Decode(kafka[s][i]) \in Request
    BY <1>1, DecodeType
  <1> QED
    BY <1>2, <1>3 DEF Consume, ChannelsTypeOK

(* zmq_send keeps the type of the pipes. *)
LEMMA ZmqSendType ==
    ASSUME ChannelsTypeOK, NEW s \in Sources, NEW k \in Sinks, NEW m \in Msgs,
           ZmqSend(s, k, m)
    PROVE  pipe' \in [Sources -> [Sinks -> Seq(Msgs)]]
  <1>1. pipe[s][k] \in Seq(Msgs)
    BY DEF ChannelsTypeOK
  <1>2. Append(pipe[s][k], m) \in Seq(Msgs)
    BY <1>1, ToSetAppend
  <1>3. CASE pipe' = [pipe EXCEPT ![s][k] = Append(@, m)]
    BY <1>2, <1>3 DEF ChannelsTypeOK
  <1>4. CASE UNCHANGED pipe
    BY <1>4 DEF ChannelsTypeOK
  <1> QED
    BY <1>3, <1>4 DEF ZmqSend

(* The end of a linger period keeps the type of the pipes. *)
LEMMA ZmqLingerType ==
    ASSUME ChannelsTypeOK, NEW s \in Sources, NEW k \in Sinks, ZmqLinger(s, k)
    PROVE  pipe' \in [Sources -> [Sinks -> Seq(Msgs)]]
  <1>1. PICK n \in 0 .. Len(pipe[s][k]) - 1 :
            pipe' = [pipe EXCEPT ![s][k] = SubSeq(@, 1, n)]
    BY DEF ZmqLinger
  <1>2. pipe[s][k] \in Seq(Msgs) /\ n \in 0 .. Len(pipe[s][k])
    BY <1>1 DEF ChannelsTypeOK
  <1>3. SubSeq(pipe[s][k], 1, n) \in Seq(Msgs)
    BY <1>2, PrefixType
  <1> QED
    BY <1>1, <1>3 DEF ChannelsTypeOK

(* wait_dequeue_timed on request_queues_ returns a request. *)
LEMMA TakeRequestType ==
    ASSUME SourceTypeOK, NEW s \in Sources, NEW cmd, TakeRequest(s, cmd)
    PROVE  /\ requests' \in [Sources -> Seq(Request)]
           /\ Head(requests[s]).sink \in Sinks
  <1>1. requests[s] \in Seq(Request) /\ requests[s] # <<>>
    BY DEF TakeRequest, SourceTypeOK
  <1>2. Head(requests[s]) \in Request /\ Tail(requests[s]) \in Seq(Request)
    BY <1>1, ToSetTail
  <1>3. Head(requests[s]).sink \in Sinks
    BY <1>2 DEF Request
  <1> QED
    BY <1>2, <1>3 DEF TakeRequest, SourceTypeOK

(* The thread that serves a request has a sink to serve, and a message     *)
(* while it sends one: what the types of client and msg leave open.        *)
ServingOK ==
    \A s \in Sources :
        /\ taskPc[s] \in {"get", "test", "send", "store", "recover"}
              => client[s] \in Sinks
        /\ taskPc[s] \in {"send", "store"} => msg[s] \in Msgs

TypeInv == SourceTypeOK /\ ChannelsTypeOK /\ ServingOK

(* The initial state has the types. *)
LEMMA TypeInit == SourceInit /\ ChannelsInit => TypeInv
  BY DEF SourceInit, ChannelsInit, TypeInv, SourceTypeOK, ChannelsTypeOK,
         ServingOK

(* No action of a source leaves the types. *)
LEMMA TypeStep ==
    ASSUME TypeInv, NEW s \in Sources, SourceNext(s)
    PROVE  TypeInv'
  <1> USE DEF TypeInv, ServingOK
  <1> SourceTypeOK /\ ChannelsTypeOK
    OBVIOUS
  <1>1. ASSUME NEW m \in Msgs, Send(s, m) PROVE TypeInv'
    BY <1>1 DEF Send, SourceTypeOK, ChannelsTypeOK, channels
  <1>2. CASE Start(s)
    BY <1>2 DEF Start, SourceTypeOK, ChannelsTypeOK, channels
  <1>3. CASE Stop(s)
    BY <1>3 DEF Stop, SourceTypeOK, ChannelsTypeOK, channels
  <1>4. CASE JoinRecv(s)
    BY <1>4 DEF JoinRecv, SourceTypeOK, ChannelsTypeOK, channels
  <1>5. CASE JoinTask(s)
    BY <1>5 DEF JoinTask, SourceTypeOK, ChannelsTypeOK, channels
  <1>6. CASE Destroy(s)
    <2>1. ToSet(ready[s]) \subseteq Msgs
      BY DEF SourceTypeOK, ToSet
    <2> QED
      BY <1>6, <2>1 DEF Destroy, SourceTypeOK, ChannelsTypeOK, channels
  <1>7. CASE Subscribe(s)
    BY <1>7 DEF Subscribe, SourceTypeOK, ChannelsTypeOK
  <1>8. CASE RecvRequest(s)
    <2>1. PICK i \in DOMAIN kafka[s] :
              /\ Consume(s, i)
              /\ \/ requests' = [requests EXCEPT
                                    ![s] = Append(@, Decode(kafka[s][i]))]
                 \/ UNCHANGED requests
      BY <1>8 DEF RecvRequest
    <2>2. /\ kafka' \in [Sources -> Seq(Payload)]
          /\ Decode(kafka[s][i]) \in Request
      BY <2>1, ConsumeType
    <2>3. requests' \in [Sources -> Seq(Request)]
      <3>1. Append(requests[s], Decode(kafka[s][i])) \in Seq(Request)
        BY <2>2, ToSetAppend DEF SourceTypeOK
      <3> QED
        BY <2>1, <3>1 DEF SourceTypeOK
    <2> QED
      BY <1>8, <2>2, <2>3 DEF RecvRequest, SourceTypeOK, ChannelsTypeOK
  <1>9. CASE RecvExit(s)
    BY <1>9 DEF RecvExit, SourceTypeOK, ChannelsTypeOK, channels
  <1>10. CASE TakeGet(s)
    <2>1. /\ requests' \in [Sources -> Seq(Request)]
          /\ Head(requests[s]).sink \in Sinks
      BY <1>10, TakeRequestType DEF TakeGet
    <2> DEFINE k == Head(requests[s]).sink
    <2>2. Kept(s, k) \in SUBSET Msgs
      BY <2>1 DEF Kept, SourceTypeOK
    <2>3. /\ sents' = [sents EXCEPT ![s][k] = Kept(s, k)]
          /\ sockets' = [sockets EXCEPT ![s] = @ \cup {k}]
          /\ client' = [client EXCEPT ![s] = k]
      BY <1>10 DEF TakeGet
    <2>4. /\ sents' \in [Sources -> [Sinks -> SUBSET Msgs]]
          /\ sockets' \in [Sources -> SUBSET Sinks]
          /\ client' \in [Sources -> Sinks \cup {NoSink}]
          /\ client'[s] \in Sinks
          /\ \A r \in Sources \ {s} : client'[r] = client[r]
      BY <2>1, <2>2, <2>3 DEF SourceTypeOK
    <2> QED
      BY <1>10, <2>1, <2>4 DEF TakeGet, SourceTypeOK, ChannelsTypeOK, channels
  <1>11. CASE GetReady(s)
    <2>1. Head(ready[s]) \in Msgs /\ Tail(ready[s]) \in Seq(Msgs)
      BY <1>11, ToSetTail DEF GetReady, SourceTypeOK
    <2> QED
      BY <1>11, <2>1 DEF GetReady, SourceTypeOK, ChannelsTypeOK, channels
  <1>12. CASE GetTimeout(s)
    BY <1>12 DEF GetTimeout, SourceTypeOK, ChannelsTypeOK, channels
  <1>13. CASE GetTest(s)
    BY <1>13 DEF GetTest, SourceTypeOK, ChannelsTypeOK, channels
  <1>14. CASE SendData(s)
    <2>1. pipe' \in [Sources -> [Sinks -> Seq(Msgs)]]
      BY <1>14, ZmqSendType DEF SendData
    <2> QED
      BY <1>14, <2>1 DEF SendData, SourceTypeOK, ChannelsTypeOK
  <1>15. CASE StoreData(s)
    BY <1>15 DEF StoreData, After, SourceTypeOK, ChannelsTypeOK, channels
  <1>16. CASE TakeDel(s)
    <2>1. /\ requests' \in [Sources -> Seq(Request)]
          /\ Head(requests[s]).sink \in Sinks
      BY <1>16, TakeRequestType DEF TakeDel
    <2> DEFINE r == Head(requests[s])
    <2>2. Found(s, r) \in SUBSET Msgs
      BY <2>1 DEF Found, SourceTypeOK
    <2>3. /\ sents' = [sents EXCEPT ![s][r.sink] = @ \ Found(s, r)]
          /\ freed' = freed \cup Found(s, r)
      BY <1>16 DEF TakeDel
    <2>4. /\ sents' \in [Sources -> [Sinks -> SUBSET Msgs]]
          /\ freed' \subseteq Msgs
      BY <2>1, <2>2, <2>3 DEF SourceTypeOK
    <2> QED
      BY <1>16, <2>1, <2>4
         DEF TakeDel, After, SourceTypeOK, ChannelsTypeOK, channels
  <1>17. CASE TakeRecover(s)
    <2>1. /\ requests' \in [Sources -> Seq(Request)]
          /\ Head(requests[s]).sink \in Sinks
      BY <1>17, TakeRequestType DEF TakeRecover
    <2> DEFINE k == Head(requests[s]).sink
    <2>2. Kept(s, k) \in SUBSET Msgs
      BY <2>1 DEF Kept, SourceTypeOK
    <2>3. /\ todo' = [todo EXCEPT ![s] = Kept(s, k)]
          /\ client' = [client EXCEPT ![s] = k]
      BY <1>17 DEF TakeRecover
    <2>4. /\ todo' \in [Sources -> SUBSET Msgs]
          /\ client' \in [Sources -> Sinks \cup {NoSink}]
          /\ client'[s] \in Sinks
          /\ \A r \in Sources \ {s} : client'[r] = client[r]
      BY <2>1, <2>2, <2>3 DEF SourceTypeOK
    <2>5. /\ taskPc' \in [Sources -> {"off", "wait", "get", "test", "send",
                             "store", "recover", "exit", "done", "crashed"}]
          /\ taskPc'[s] \notin {"get", "test", "send", "store"}
          /\ \A r \in Sources \ {s} : taskPc'[r] = taskPc[r]
      BY <1>17 DEF TakeRecover, After, SourceTypeOK
    <2> QED
      BY <1>17, <2>1, <2>4, <2>5
         DEF TakeRecover, SourceTypeOK, ChannelsTypeOK, channels
  <1>18. CASE RecoverNext(s)
    <2>1. PICK m \in todo[s] :
              /\ ZmqSend(s, client[s], m)
              /\ todo' = [todo EXCEPT ![s] = @ \ {m}]
              /\ taskPc' = [taskPc EXCEPT ![s] =
                              IF todo[s] = {m} THEN After(s) ELSE "recover"]
      BY <1>18 DEF RecoverNext
    <2>2. pipe' \in [Sources -> [Sinks -> Seq(Msgs)]]
      BY <1>18, <2>1, ZmqSendType DEF RecoverNext, SourceTypeOK
    <2> QED
      BY <1>18, <2>1, <2>2 DEF RecoverNext, After, SourceTypeOK, ChannelsTypeOK
  <1>19. CASE TaskExit(s)
    BY <1>19 DEF TaskExit, Stored, SourceTypeOK, ChannelsTypeOK, channels
  <1>20. ASSUME NEW k \in Sinks, LingerExpire(s, k) PROVE TypeInv'
    <2>1. pipe' \in [Sources -> [Sinks -> Seq(Msgs)]]
      BY <1>20, ZmqLingerType DEF LingerExpire
    <2> QED
      BY <1>20, <2>1 DEF LingerExpire, SourceTypeOK, ChannelsTypeOK, source
  <1> QED
    BY <1>1, <1>2, <1>3, <1>4, <1>5, <1>6, <1>7, <1>8, <1>9, <1>10, <1>11,
       <1>12, <1>13, <1>14, <1>15, <1>16, <1>17, <1>18, <1>19, <1>20
       DEF SourceNext, MainThread, RecvThread, TaskThread

-----------------------------------------------------------------------------
(* Ownership: where each message is, and who may delete it *)

(* Where the three threads of s can be at one time. *)
Phases(s) ==
    /\ main[s] = "init" => recvPc[s] = "off" /\ taskPc[s] = "off"
    /\ main[s] = "up" =>
          /\ recvPc[s] \in {"subscribe", "consume"}
          /\ taskPc[s] \in {"wait", "get", "test", "send", "store", "recover"}
    /\ main[s] = "joinTask" => recvPc[s] = "done"
    /\ main[s] \in {"stopped", "destroyed"} =>
          recvPc[s] \in {"off", "done"} /\ taskPc[s] \in {"off", "done"}
    /\ main[s] = "destroyed" => ready[s] = <<>>

(* Without the thread its maps are gone, and only a sink with a socket has *)
(* messages kept.                                                          *)
Maps(s) ==
    /\ taskPc[s] \in {"off", "done"} => sockets[s] = {}
    /\ \A k \in Sinks : k \notin sockets[s] => sents[s][k] = {}

(* A GET has given its sink a socket. *)
Serving(s) ==
    taskPc[s] \in {"get", "test", "send", "store"} => client[s] \in sockets[s]

(* A RECOVER sends what is kept for its sink. *)
Recovering(s) ==
    IF taskPc[s] = "recover" THEN todo[s] \subseteq sents[s][client[s]]
                             ELSE todo[s] = {}

(* What waits, waits once, and is in no other place; msg was taken from    *)
(* readys_ at some time.                                                   *)
Queued(s) ==
    /\ IsInjective(ready[s])
    /\ Waiting(s) \cap Stored(s) = {}
    /\ msg[s] \in Msgs => msg[s] \in Given(s) \ Waiting(s)

(* Until the thread sends what it was not given, which it does in its last *)
(* iteration only, a message is kept for the sink whose GET took it.       *)
Kind(s) ==
    /\ Running(s) \/ taskPc[s] \in {"wait", "get", "test", "recover"}
          => \A k \in Sinks : \A m \in sents[s][k] : dest[m] = k
    /\ Running(s) /\ taskPc[s] \in {"send", "store"}
          => dest[msg[s]] = client[s] /\ msg[s] \notin Stored(s)

Tracked(s) ==
    Alive(s) => Given(s) = Waiting(s) \cup Hand(s) \cup Stored(s) \cup Deleted(s)

Live(s) ==
    Alive(s) => (Waiting(s) \cup Hand(s) \cup Stored(s)) \cap freed = {}

OwnershipOf(s) ==
    /\ Phases(s) /\ Maps(s) /\ Serving(s) /\ Recovering(s)
    /\ Queued(s) /\ Kind(s)
    /\ Tracked(s) /\ Live(s)

Ownership == \A s \in Sources : OwnershipOf(s)

(* In the initial state no message is owned. *)
LEMMA OwnershipInit == SourceInit => Ownership
  BY ToSetEmpty, ChannelsAssumption
     DEF SourceInit, Ownership, OwnershipOf, Phases, Maps, Serving,
         Recovering, Queued, Kind, Tracked, Live, Alive, Running, Waiting, Hand, Stored, Given,
         Deleted

(* The state of one source, apart from the histories. *)
Slice(s) == <<main[s], recvPc[s], taskPc[s], ready[s], client[s], msg[s],
              todo[s], sockets[s], sents[s]>>

(* What happens to the messages of others does not concern a source. *)
LEMMA OwnershipFrame ==
    ASSUME TypeInv, NEW s \in Sources, OwnershipOf(s), Slice(s)' = Slice(s),
           \A m \in Msgs : Origin[m] = s => /\ m \in offered' <=> m \in offered
                                            /\ m \in freed' <=> m \in freed
                                            /\ dest'[m] = dest[m],
           offered' \subseteq Msgs, freed' \subseteq Msgs
    PROVE  OwnershipOf(s)'
  <1>1. /\ main'[s] = main[s] /\ recvPc'[s] = recvPc[s]
        /\ taskPc'[s] = taskPc[s] /\ ready'[s] = ready[s]
        /\ client'[s] = client[s] /\ msg'[s] = msg[s] /\ todo'[s] = todo[s]
        /\ sockets'[s] = sockets[s] /\ sents'[s] = sents[s]
    BY DEF Slice
  <1>2. /\ Waiting(s)' = Waiting(s) /\ Hand(s)' = Hand(s)
        /\ Stored(s)' = Stored(s)
        /\ Alive(s)' = Alive(s) /\ Running(s)' = Running(s)
    BY <1>1 DEF Waiting, Hand, Stored, Alive, Running
  <1>3. Given(s)' = Given(s) /\ Deleted(s)' = Deleted(s)
    <2>1. offered \subseteq Msgs /\ freed \subseteq Msgs
      BY DEF TypeInv, SourceTypeOK
    <2>2. \A m : m \in offered' /\ Origin[m] = s <=> m \in offered /\ Origin[m] = s
      BY <2>1
    <2>3. \A m : m \in freed' /\ Origin[m] = s <=> m \in freed /\ Origin[m] = s
      BY <2>1
    <2> QED
      BY <2>2, <2>3 DEF Given, Deleted
  <1>4. Phases(s)' /\ Maps(s)' /\ Serving(s)' /\ Recovering(s)'
    BY <1>1 DEF OwnershipOf, Phases, Maps, Serving, Recovering
  <1>5. Queued(s)'
    BY <1>1, <1>2, <1>3 DEF OwnershipOf, Queued
  <1>6. Tracked(s)'
    BY <1>2, <1>3 DEF OwnershipOf, Tracked
  <1>7. Live(s)'
    <2>1. SUFFICES ASSUME Alive(s),
                          NEW m \in Waiting(s) \cup Hand(s) \cup Stored(s)
                   PROVE  m \notin freed'
      BY <1>2 DEF Live
    <2>2. m \in Given(s)
      BY <2>1 DEF OwnershipOf, Tracked
    <2>3. m \in Msgs /\ Origin[m] = s
      BY <2>2 DEF Given, TypeInv, SourceTypeOK
    <2> QED
      BY <2>1, <2>3 DEF OwnershipOf, Live
  <1>8. Kind(s)'
    <2>1. CASE ~(Running(s) \/ taskPc[s] \in {"wait", "get", "test", "recover"})
      BY <1>1, <1>2, <2>1 DEF Kind
    <2>2. CASE Running(s) \/ taskPc[s] \in {"wait", "get", "test", "recover"}
      <3>1. Alive(s)
        BY <2>2 DEF OwnershipOf, Phases, Running, Alive
      <3>2. ASSUME NEW k \in Sinks, NEW m \in sents[s][k]
            PROVE  m \in Msgs /\ Origin[m] = s
        <4>1. m \in Stored(s)
          BY <3>2 DEF Stored
        <4>2. m \in Given(s)
          BY <3>1, <4>1 DEF OwnershipOf, Tracked
        <4> QED
          BY <4>2 DEF Given, TypeInv, SourceTypeOK
      <3>3. taskPc[s] \in {"send", "store"} => msg[s] \in Msgs /\ Origin[msg[s]] = s
        BY DEF OwnershipOf, Queued, Given, TypeInv, ServingOK
      <3> QED
        BY <1>1, <1>2, <3>2, <3>3 DEF OwnershipOf, Kind
    <2> QED
      BY <2>1, <2>2
  <1> QED
    BY <1>4, <1>5, <1>6, <1>7, <1>8 DEF OwnershipOf

(* Enough to show of a step of s: its own part, and that it leaves alone   *)
(* the state of the other sources and the history of their messages.       *)
LEMMA OwnershipOthers ==
    ASSUME TypeInv, TypeInv', Ownership, NEW s \in Sources, OwnershipOf(s)',
           \A r \in Sources \ {s} : Slice(r)' = Slice(r),
           \A m \in Msgs : Origin[m] # s => /\ m \in offered' <=> m \in offered
                                            /\ m \in freed' <=> m \in freed
                                            /\ dest'[m] = dest[m]
    PROVE  Ownership'
  <1>1. offered' \subseteq Msgs /\ freed' \subseteq Msgs
    BY DEF TypeInv, SourceTypeOK
  <1>2. ASSUME NEW r \in Sources \ {s} PROVE OwnershipOf(r)'
    BY <1>1, <1>2, OwnershipFrame DEF Ownership
  <1> QED
    BY <1>2 DEF Ownership

(* A step that moves the threads of s, but no message and no pointer. *)
LEMMA OwnershipPc ==
    ASSUME TypeInv, TypeInv', Ownership, NEW s \in Sources,
           UNCHANGED <<ready, client, msg, todo, sockets, sents, offered, dest,
                       freed>>,
           \A r \in Sources \ {s} : /\ main'[r] = main[r]
                                    /\ recvPc'[r] = recvPc[r]
                                    /\ taskPc'[r] = taskPc[r],
           Phases(s)', Maps(s)', Serving(s)', Recovering(s)',
           Alive(s)' => Alive(s) /\ Hand(s)' \subseteq Given(s) \ (Waiting(s) \cup freed)
                                 /\ Hand(s) \subseteq Hand(s)',
           Running(s)' \/ taskPc'[s] \in {"wait", "get", "test", "recover"}
               => Running(s) \/ taskPc[s] \in {"wait", "get", "test", "recover"},
           Running(s)' /\ taskPc'[s] \in {"send", "store"}
               => Running(s) /\ taskPc[s] \in {"send", "store"}
    PROVE  Ownership'
  <1>1. /\ Waiting(s)' = Waiting(s) /\ Stored(s)' = Stored(s)
        /\ Given(s)' = Given(s) /\ Deleted(s)' = Deleted(s)
    BY DEF Waiting, Stored, Given, Deleted
  <1>2. OwnershipOf(s)
    BY DEF Ownership
  <1>3. Queued(s)'
    BY <1>1, <1>2 DEF OwnershipOf, Queued
  <1>4. Kind(s)'
    BY <1>1, <1>2 DEF OwnershipOf, Kind
  <1>5. Tracked(s)'
    BY <1>1, <1>2 DEF OwnershipOf, Tracked
  <1>6. Live(s)'
    BY <1>1, <1>2 DEF OwnershipOf, Live
  <1>7. OwnershipOf(s)'
    BY <1>3, <1>4, <1>5, <1>6 DEF OwnershipOf
  <1>8. \A r \in Sources \ {s} : Slice(r)' = Slice(r)
    BY DEF Slice
  <1> QED
    BY <1>7, <1>8, OwnershipOthers

(* start(), stop(), its joins and the destructor keep Ownership. *)
LEMMA MainSteps ==
    ASSUME TypeInv, TypeInv', Ownership, NEW s \in Sources,
           Stop(s) \/ JoinRecv(s) \/ JoinTask(s)
    PROVE  Ownership'
  <1> USE DEF TypeInv, SourceTypeOK
  <1>1. UNCHANGED <<recvPc, taskPc, ready, client, msg, todo, sockets, sents,
                    offered, dest, freed>>
    BY DEF Stop, JoinRecv, JoinTask
  <1>2. main[s] \in {"up", "joinRecv", "joinTask"} /\ OwnershipOf(s)
    BY DEF Stop, JoinRecv, JoinTask, Ownership
  <1>3. /\ main'[s] \in {"joinRecv", "joinTask", "stopped"}
        /\ \A r \in Sources \ {s} : main'[r] = main[r]
        /\ main'[s] = "joinTask" => recvPc[s] = "done"
        /\ main'[s] = "stopped" => recvPc[s] = "done" /\ taskPc[s] = "done"
    BY <1>2 DEF Stop, JoinRecv, JoinTask, OwnershipOf, Phases
  <1>4. Phases(s)' /\ Maps(s)' /\ Serving(s)' /\ Recovering(s)' /\ ~Running(s)'
    BY <1>1, <1>2, <1>3
       DEF OwnershipOf, Phases, Maps, Serving, Recovering, Running
  <1>5. Alive(s)' = Alive(s) /\ Hand(s)' = Hand(s)
    BY <1>1 DEF Alive, Hand
  <1>6. Alive(s) => Hand(s) \subseteq Given(s) \ (Waiting(s) \cup freed)
    BY <1>2 DEF OwnershipOf, Queued, Live, Hand, ServingOK
  <1> QED
    BY <1>1, <1>3, <1>4, <1>5, <1>6, OwnershipPc

(* The recv_request thread does not touch messages. *)
LEMMA RecvSteps ==
    ASSUME TypeInv, TypeInv', Ownership, NEW s \in Sources, RecvThread(s)
    PROVE  Ownership'
  <1> USE DEF TypeInv, SourceTypeOK
  <1>1. UNCHANGED <<main, taskPc, ready, client, msg, todo, sockets, sents,
                    offered, dest, freed>>
    BY DEF RecvThread, Subscribe, RecvRequest, RecvExit
  <1>2. OwnershipOf(s)
    BY DEF Ownership
  <1>3. /\ recvPc[s] \in {"subscribe", "consume", "close"}
        /\ recvPc'[s] \in {"consume", "close", "done"}
        /\ Running(s) => recvPc'[s] = "consume"
        /\ \A r \in Sources \ {s} : recvPc'[r] = recvPc[r]
    BY DEF RecvThread, Subscribe, RecvRequest, RecvExit
  <1>4. /\ Phases(s)' /\ Maps(s)' /\ Serving(s)' /\ Recovering(s)'
        /\ Running(s)' = Running(s)
    BY <1>1, <1>2, <1>3
       DEF OwnershipOf, Phases, Maps, Serving, Recovering, Running
  <1>5. Alive(s)' = Alive(s) /\ Hand(s)' = Hand(s)
    BY <1>1 DEF Alive, Hand
  <1>6. Alive(s) => Hand(s) \subseteq Given(s) \ (Waiting(s) \cup freed)
    BY <1>2 DEF OwnershipOf, Queued, Live, Hand, ServingOK
  <1> QED
    BY <1>1, <1>3, <1>4, <1>5, <1>6, OwnershipPc

(* Waiting for a message, and sending one: no pointer changes hands,       *)
(* except that the last iteration may pick up an old one.                  *)
LEMMA WaitSteps ==
    ASSUME TypeInv, TypeInv', Ownership, NEW s \in Sources,
           GetTimeout(s) \/ GetTest(s) \/ SendData(s)
    PROVE  Ownership'
  <1> USE DEF TypeInv, SourceTypeOK
  <1>1. UNCHANGED <<main, recvPc, ready, client, msg, todo, sockets, sents,
                    offered, dest, freed>>
    BY DEF GetTimeout, GetTest, SendData
  <1>2. OwnershipOf(s)
    BY DEF Ownership
  <1>3. /\ taskPc[s] \in {"get", "test", "send"}
        /\ \A r \in Sources \ {s} : taskPc'[r] = taskPc[r]
        /\ \/ taskPc[s] \in {"get", "test"} /\ taskPc'[s] \in {"get", "test"}
           \/ /\ taskPc[s] = "test" /\ taskPc'[s] = "send"
              /\ ~Running(s) /\ msg[s] \in Msgs \ freed
           \/ taskPc[s] = "test" /\ taskPc'[s] = "crashed" /\ ~Running(s)
           \/ taskPc[s] = "send" /\ taskPc'[s] = "store"
    BY DEF GetTimeout, GetTest, SendData
  <1>4. Running(s)' = Running(s) /\ Alive(s)
    BY <1>1, <1>3 DEF Running, Alive
  <1>5. Phases(s)'
    BY <1>1, <1>2, <1>3 DEF OwnershipOf, Phases, Running
  <1>6. Maps(s)' /\ Serving(s)' /\ Recovering(s)'
    BY <1>1, <1>2, <1>3 DEF OwnershipOf, Maps, Serving, Recovering
  <1>7. Hand(s) \subseteq Given(s) \ (Waiting(s) \cup freed)
    BY <1>2, <1>4 DEF OwnershipOf, Queued, Live, Hand, ServingOK
  <1>8. Alive(s)' => /\ Hand(s)' \subseteq Given(s) \ (Waiting(s) \cup freed)
                     /\ Hand(s) \subseteq Hand(s)'
    BY <1>1, <1>2, <1>3, <1>7 DEF OwnershipOf, Queued, Hand, Alive
  <1> QED
    BY <1>1, <1>3, <1>4, <1>5, <1>6, <1>8, OwnershipPc

(* send() makes the queue the owner of its message. *)
LEMMA SendStep ==
    ASSUME TypeInv, TypeInv', Ownership, NEW s \in Sources, NEW m \in Msgs,
           Send(s, m)
    PROVE  Ownership'
  <1> USE DEF TypeInv, SourceTypeOK
  <1>1. /\ UNCHANGED <<main, recvPc, taskPc, client, msg, todo, sockets, sents,
                       dest, freed>>
        /\ ready'[s] = Append(ready[s], m)
        /\ \A r \in Sources \ {s} : ready'[r] = ready[r]
        /\ offered' = offered \cup {m}
        /\ Alive(s) /\ m \notin offered /\ Origin[m] = s
        /\ main[s] # "destroyed"
    BY DEF Send
  <1>2. OwnershipOf(s)
    BY DEF Ownership
  <1>3. /\ Given(s)' = Given(s) \cup {m} /\ m \notin Given(s)
        /\ Waiting(s)' = Waiting(s) \cup {m}
        /\ Hand(s)' = Hand(s) /\ Stored(s)' = Stored(s)
        /\ Deleted(s)' = Deleted(s)
        /\ Running(s)' = Running(s) /\ Alive(s)' = Alive(s)
    BY <1>1, ToSetAppend
       DEF Given, Waiting, Hand, Stored, Deleted, Running, Alive
  <1>4. m \notin Waiting(s) \cup Hand(s) \cup Stored(s) \cup Deleted(s)
    BY <1>1, <1>2, <1>3 DEF OwnershipOf, Tracked
  <1>5. Phases(s)' /\ Maps(s)' /\ Serving(s)' /\ Recovering(s)'
    BY <1>1, <1>2 DEF OwnershipOf, Phases, Maps, Serving, Recovering
  <1>6. Queued(s)'
    <2>1. IsInjective(ready'[s])
      BY <1>1, <1>2, <1>4, InjectiveAppend DEF OwnershipOf, Queued, Waiting
    <2> QED
      BY <1>1, <1>2, <1>3, <1>4, <2>1 DEF OwnershipOf, Queued
  <1>7. Kind(s)'
    BY <1>1, <1>2, <1>3 DEF OwnershipOf, Kind
  <1>8. Tracked(s)'
    BY <1>1, <1>2, <1>3 DEF OwnershipOf, Tracked
  <1>9. Live(s)'
    BY <1>1, <1>2, <1>3, <1>4 DEF OwnershipOf, Live, Deleted
  <1>10. OwnershipOf(s)'
    BY <1>5, <1>6, <1>7, <1>8, <1>9 DEF OwnershipOf
  <1>11. \A r \in Sources \ {s} : Slice(r)' = Slice(r)
    BY <1>1 DEF Slice
  <1> QED
    BY <1>1, <1>10, <1>11, OwnershipOthers

(* start(): the new threads own nothing yet, and msg is fresh. *)
LEMMA StartStep ==
    ASSUME TypeInv, TypeInv', Ownership, NEW s \in Sources, Start(s)
    PROVE  Ownership'
  <1> USE DEF TypeInv, SourceTypeOK
  <1>1. /\ UNCHANGED <<ready, client, todo, sockets, sents, offered, dest, freed>>
        /\ main'[s] = "up" /\ recvPc'[s] = "subscribe"
        /\ taskPc'[s] = "wait" /\ msg'[s] = NoMsg
        /\ \A r \in Sources \ {s} :
              /\ main'[r] = main[r] /\ recvPc'[r] = recvPc[r]
              /\ taskPc'[r] = taskPc[r] /\ msg'[r] = msg[r]
        /\ main[s] \in {"init", "stopped"}
    BY DEF Start
  <1>2. OwnershipOf(s)
    BY DEF Ownership
  <1>3. taskPc[s] \in {"off", "done"}
    BY <1>1, <1>2 DEF OwnershipOf, Phases
  <1>4. /\ sockets[s] = {} /\ todo[s] = {}
        /\ \A k \in Sinks : sents[s][k] = {}
    BY <1>2, <1>3 DEF OwnershipOf, Maps, Recovering
  <1>5. /\ Given(s)' = Given(s) /\ Waiting(s)' = Waiting(s)
        /\ Stored(s)' = Stored(s) /\ Deleted(s)' = Deleted(s)
        /\ Hand(s) = {} /\ Hand(s)' = {}
        /\ Alive(s)
    BY <1>1, <1>3 DEF Given, Waiting, Stored, Deleted, Hand, Alive
  <1>6. Phases(s)' /\ Maps(s)' /\ Serving(s)' /\ Recovering(s)'
    BY <1>1, <1>4 DEF Phases, Maps, Serving, Recovering
  <1>7. Queued(s)'
    BY <1>1, <1>2, <1>5, ChannelsAssumption DEF OwnershipOf, Queued
  <1>8. Kind(s)'
    BY <1>1, <1>4 DEF Kind
  <1>9. Tracked(s)' /\ Live(s)'
    BY <1>1, <1>2, <1>5 DEF OwnershipOf, Tracked, Live
  <1>10. OwnershipOf(s)'
    BY <1>6, <1>7, <1>8, <1>9 DEF OwnershipOf
  <1>11. \A r \in Sources \ {s} : Slice(r)' = Slice(r)
    BY <1>1 DEF Slice
  <1> QED
    BY <1>1, <1>10, <1>11, OwnershipOthers

(* The destructor deletes what readys_ owned. *)
LEMMA DestroyStep ==
    ASSUME TypeInv, TypeInv', Ownership, NEW s \in Sources, Destroy(s)
    PROVE  Ownership'
  <1> USE DEF TypeInv, SourceTypeOK
  <1>1. /\ UNCHANGED <<recvPc, taskPc, client, msg, todo, sockets, sents,
                       offered, dest>>
        /\ main'[s] = "destroyed" /\ ready'[s] = <<>>
        /\ \A r \in Sources \ {s} : main'[r] = main[r] /\ ready'[r] = ready[r]
        /\ freed' = freed \cup Waiting(s)
        /\ main[s] \in {"init", "stopped"}
    BY DEF Destroy, Waiting
  <1>2. OwnershipOf(s)
    BY DEF Ownership
  <1>3. taskPc[s] \in {"off", "done"} /\ recvPc[s] \in {"off", "done"}
    BY <1>1, <1>2 DEF OwnershipOf, Phases
  <1>4. /\ Stored(s) = {} /\ Stored(s)' = {}
        /\ Hand(s) = {} /\ Hand(s)' = {}
        /\ Alive(s) /\ Alive(s)' /\ ~Running(s)'
        /\ Waiting(s)' = {} /\ Given(s)' = Given(s)
    <2>1. \A k \in Sinks : sents[s][k] = {} /\ sents'[s][k] = {}
      BY <1>1, <1>2, <1>3 DEF OwnershipOf, Maps
    <2>2. Stored(s) = {} /\ Stored(s)' = {}
      BY <2>1 DEF Stored
    <2>3. /\ Hand(s) = {} /\ Hand(s)' = {}
          /\ Alive(s) /\ Alive(s)' /\ ~Running(s)'
          /\ Given(s)' = Given(s)
      BY <1>1, <1>3 DEF Hand, Alive, Running, Given
    <2>4. Waiting(s)' = {}
      BY <1>1, ToSetEmpty DEF Waiting
    <2> QED
      BY <2>2, <2>3, <2>4
  <1>5. Given(s) = Waiting(s) \cup Deleted(s)
    BY <1>2, <1>4 DEF OwnershipOf, Tracked
  <1>6. \A m \in Waiting(s) : m \in Msgs /\ Origin[m] = s
    BY <1>5 DEF Given
  <1>7. Deleted(s)' = Deleted(s) \cup Waiting(s)
    BY <1>1, <1>6 DEF Deleted
  <1>8. Phases(s)' /\ Maps(s)' /\ Serving(s)' /\ Recovering(s)'
    BY <1>1, <1>2, <1>3 DEF OwnershipOf, Phases, Maps, Serving, Recovering
  <1>9. Queued(s)'
    BY <1>1, <1>2, <1>4, ToSetEmpty DEF OwnershipOf, Queued
  <1>10. Kind(s)' /\ Tracked(s)' /\ Live(s)'
    BY <1>1, <1>3, <1>4, <1>5, <1>7 DEF Kind, Tracked, Live
  <1>11. OwnershipOf(s)'
    BY <1>8, <1>9, <1>10 DEF OwnershipOf
  <1>12. \A r \in Sources \ {s} : Slice(r)' = Slice(r)
    BY <1>1 DEF Slice
  <1> QED
    BY <1>1, <1>6, <1>11, <1>12, OwnershipOthers

(* A GET gives no message an owner; a first GET opens an empty map. *)
LEMMA TakeGetStep ==
    ASSUME TypeInv, TypeInv', Ownership, NEW s \in Sources, TakeGet(s)
    PROVE  Ownership'
  <1> USE DEF TypeInv, SourceTypeOK
  <1> DEFINE k == Head(requests[s]).sink
  <1>1. k \in Sinks /\ OwnershipOf(s)
    BY TakeRequestType DEF TakeGet, Ownership
  <1>2. /\ sents' = [sents EXCEPT ![s][k] = Kept(s, k)]
        /\ sockets' = [sockets EXCEPT ![s] = @ \cup {k}]
        /\ client'[s] = k /\ \A r \in Sources \ {s} : client'[r] = client[r]
        /\ taskPc[s] = "wait" /\ taskPc'[s] = "get"
        /\ \A r \in Sources \ {s} : taskPc'[r] = taskPc[r]
        /\ UNCHANGED <<main, recvPc, ready, msg, todo, offered, dest, freed>>
    BY <1>1 DEF TakeGet, TakeRequest
  <1>3. Kept(s, k) = sents[s][k]
    BY <1>1 DEF OwnershipOf, Maps, Kept
  <1>4. UNCHANGED sents
    <2>1. sents'[s] = sents[s]
      BY <1>1, <1>2, <1>3
    <2> QED
      BY <1>2, <2>1
  <1>5. Phases(s)' /\ Maps(s)' /\ Serving(s)' /\ Recovering(s)'
    BY <1>1, <1>2, <1>4 DEF OwnershipOf, Phases, Maps, Serving, Recovering
  <1>6. /\ Given(s)' = Given(s) /\ Waiting(s)' = Waiting(s)
        /\ Stored(s)' = Stored(s) /\ Deleted(s)' = Deleted(s)
        /\ Hand(s)' = Hand(s) /\ Alive(s)' = Alive(s)
    BY <1>2, <1>4 DEF Given, Waiting, Stored, Deleted, Hand, Alive
  <1>7. Queued(s)' /\ Tracked(s)' /\ Live(s)' /\ Kind(s)'
    BY <1>1, <1>2, <1>4, <1>6 DEF OwnershipOf, Queued, Tracked, Live, Kind
  <1>8. OwnershipOf(s)'
    BY <1>5, <1>7 DEF OwnershipOf
  <1>9. \A r \in Sources \ {s} : Slice(r)' = Slice(r)
    BY <1>2, <1>4 DEF Slice
  <1> QED
    BY <1>2, <1>8, <1>9, OwnershipOthers

(* GET moves the head of readys_ into the hands of task_thread. *)
LEMMA GetReadyStep ==
    ASSUME TypeInv, TypeInv', Ownership, NEW s \in Sources, GetReady(s)
    PROVE  Ownership'
  <1> USE DEF TypeInv, SourceTypeOK
  <1> DEFINE m == Head(ready[s])
  <1>1. /\ taskPc[s] = "get" /\ taskPc'[s] = "send"
        /\ ready[s] # <<>> /\ ready[s] \in Seq(Msgs)
        /\ msg'[s] = m /\ ready'[s] = Tail(ready[s])
        /\ dest' = [dest EXCEPT ![m] = client[s]]
        /\ \A r \in Sources \ {s} : /\ taskPc'[r] = taskPc[r]
                                    /\ msg'[r] = msg[r] /\ ready'[r] = ready[r]
        /\ UNCHANGED <<main, recvPc, client, todo, sockets, sents, offered, freed>>
    BY DEF GetReady
  <1>2. OwnershipOf(s) /\ Alive(s)
    BY <1>1 DEF Ownership, Alive
  <1>3. m \in Msgs /\ Waiting(s) = {m} \cup Waiting(s)'
    BY <1>1, ToSetTail DEF Waiting
  <1>4. IsInjective(ready'[s]) /\ m \notin Waiting(s)'
    BY <1>1, <1>2, InjectiveTail DEF OwnershipOf, Queued, Waiting
  <1>5. /\ Given(s)' = Given(s) /\ Stored(s)' = Stored(s)
        /\ Deleted(s)' = Deleted(s)
        /\ Hand(s) = {} /\ Hand(s)' = {m}
        /\ Alive(s)' /\ Running(s)' = Running(s)
    BY <1>1 DEF Given, Stored, Deleted, Hand, Alive, Running
  <1>6. m \in Given(s) /\ Origin[m] = s /\ m \notin Stored(s) /\ m \notin freed
    BY <1>2, <1>3 DEF OwnershipOf, Tracked, Queued, Live, Given
  <1>7. Phases(s)' /\ Maps(s)' /\ Serving(s)' /\ Recovering(s)'
    BY <1>1, <1>2 DEF OwnershipOf, Phases, Maps, Serving, Recovering
  <1>8. Queued(s)'
    BY <1>1, <1>2, <1>3, <1>4, <1>5, <1>6 DEF OwnershipOf, Queued
  <1>9. Kind(s)'
    <2>1. \A k \in Sinks : \A n \in sents[s][k] : dest[n] = k
      BY <1>1, <1>2 DEF OwnershipOf, Kind
    <2>2. \A k \in Sinks : m \notin sents[s][k]
      BY <1>6 DEF Stored
    <2>3. \A k \in Sinks : \A n \in sents'[s][k] : dest'[n] = k
      BY <1>1, <2>1, <2>2
    <2>4. dest'[msg'[s]] = client'[s] /\ msg'[s] \notin Stored(s)'
      BY <1>1, <1>3, <1>5, <1>6
    <2> QED
      BY <2>3, <2>4 DEF Kind
  <1>10. Tracked(s)'
    BY <1>2, <1>3, <1>5 DEF OwnershipOf, Tracked
  <1>11. Live(s)'
    BY <1>1, <1>2, <1>3, <1>5, <1>6 DEF OwnershipOf, Live
  <1>12. OwnershipOf(s)'
    BY <1>7, <1>8, <1>9, <1>10, <1>11 DEF OwnershipOf
  <1>13. \A r \in Sources \ {s} : Slice(r)' = Slice(r)
    BY <1>1 DEF Slice
  <1>14. \A n \in Msgs : Origin[n] # s => dest'[n] = dest[n]
    BY <1>1, <1>6
  <1> QED
    BY <1>1, <1>12, <1>13, <1>14, OwnershipOthers

(* store_msg moves the message in hand to the map of its sink. *)
LEMMA StoreDataStep ==
    ASSUME TypeInv, TypeInv', Ownership, KeysDistinct, NEW s \in Sources,
           StoreData(s)
    PROVE  Ownership'
  <1> USE DEF TypeInv, SourceTypeOK
  <1> DEFINE k == client[s]
             m == msg[s]
  <1>1. /\ taskPc[s] = "store" /\ k \in Sinks /\ m \in Msgs
        /\ taskPc'[s] = IF Running(s) THEN "wait" ELSE "exit"
        /\ sents' = [sents EXCEPT ![s][k] = {n \in @ : KeyOf[n] # KeyOf[m]} \cup {m}]
        /\ \A r \in Sources \ {s} : taskPc'[r] = taskPc[r] /\ sents'[r] = sents[r]
        /\ UNCHANGED <<main, recvPc, ready, client, msg, todo, sockets, offered,
                       dest, freed>>
    BY DEF StoreData, After, ServingOK
  <1>2. OwnershipOf(s) /\ Alive(s)
    BY <1>1 DEF Ownership, Alive
  <1>3. /\ Hand(s) = {m} /\ Hand(s)' = {} /\ Alive(s)'
        /\ Given(s)' = Given(s) /\ Waiting(s)' = Waiting(s)
        /\ Deleted(s)' = Deleted(s) /\ Running(s)' = Running(s)
    BY <1>1 DEF Hand, Alive, Given, Waiting, Deleted, Running
  <1>4. ASSUME NEW n \in sents[s][k], KeyOf[n] = KeyOf[m] PROVE n = m
    <2>1. n \in Given(s) /\ m \in Given(s)
      BY <1>1, <1>2, <1>3, <1>4 DEF OwnershipOf, Tracked, Stored
    <2> QED
      BY <1>1, <1>4, <2>1 DEF KeysDistinct, Given
  <1>5. sents'[s][k] = sents[s][k] \cup {m}
    BY <1>1, <1>4
  <1>6. \A j \in Sinks \ {k} : sents'[s][j] = sents[s][j]
    BY <1>1
  <1>7. Stored(s)' = Stored(s) \cup {m}
    BY <1>1, <1>5, <1>6 DEF Stored
  <1>8. k \in sockets[s]
    BY <1>1, <1>2 DEF OwnershipOf, Serving
  <1>9. Phases(s)' /\ Maps(s)' /\ Serving(s)' /\ Recovering(s)'
    BY <1>1, <1>2, <1>6, <1>8
       DEF OwnershipOf, Phases, Maps, Serving, Recovering, Running
  <1>10. Queued(s)'
    BY <1>1, <1>2, <1>3, <1>7 DEF OwnershipOf, Queued
  <1>11. Kind(s)'
    BY <1>1, <1>2, <1>3, <1>5, <1>6 DEF OwnershipOf, Kind
  <1>12. Tracked(s)' /\ Live(s)'
    BY <1>1, <1>2, <1>3, <1>7 DEF OwnershipOf, Tracked, Live
  <1>13. OwnershipOf(s)'
    BY <1>9, <1>10, <1>11, <1>12 DEF OwnershipOf
  <1>14. \A r \in Sources \ {s} : Slice(r)' = Slice(r)
    BY <1>1 DEF Slice
  <1> QED
    BY <1>1, <1>13, <1>14, OwnershipOthers

(* delete_msg frees what the map owned, and the map forgets it. *)
LEMMA TakeDelStep ==
    ASSUME TypeInv, TypeInv', Ownership, NEW s \in Sources, TakeDel(s)
    PROVE  Ownership'
  <1> USE DEF TypeInv, SourceTypeOK
  <1> DEFINE k == Head(requests[s]).sink
             F == Found(s, Head(requests[s]))
  <1>1. k \in Sinks /\ OwnershipOf(s)
    BY TakeRequestType DEF TakeDel, Ownership
  <1>2. /\ taskPc[s] = "wait"
        /\ taskPc'[s] = IF Running(s) THEN "wait" ELSE "exit"
        /\ sents' = [sents EXCEPT ![s][k] = @ \ F]
        /\ freed' = freed \cup F
        /\ \A r \in Sources \ {s} : taskPc'[r] = taskPc[r] /\ sents'[r] = sents[r]
        /\ UNCHANGED <<main, recvPc, ready, client, msg, todo, sockets, offered,
                       dest>>
    BY <1>1 DEF TakeDel, TakeRequest, After
  <1>3. F \subseteq sents[s][k]
    BY DEF Found
  <1>4. /\ sents'[s][k] = sents[s][k] \ F
        /\ \A j \in Sinks \ {k} : sents'[s][j] = sents[s][j]
    BY <1>1, <1>2
  <1>5. /\ Hand(s) = {} /\ Hand(s)' = {} /\ Alive(s) /\ Alive(s)'
        /\ Given(s)' = Given(s) /\ Waiting(s)' = Waiting(s)
        /\ Running(s)' = Running(s)
    BY <1>2 DEF Hand, Alive, Given, Waiting, Running
  <1>6. F \subseteq Stored(s)
    BY <1>1, <1>3 DEF Stored
  <1>7. F \subseteq Given(s)
    BY <1>1, <1>5, <1>6 DEF OwnershipOf, Tracked
  <1>8. \A m \in F : m \in Msgs /\ Origin[m] = s
    BY <1>7 DEF Given
  <1>9. Deleted(s)' = Deleted(s) \cup F
    BY <1>2, <1>8 DEF Deleted
  <1>10. \A j \in Sinks \ {k} : sents[s][j] \cap F = {}
    BY <1>1, <1>2, <1>3 DEF OwnershipOf, Kind
  <1>11. Stored(s)' = Stored(s) \ F
    <2>1. ASSUME NEW x \in Stored(s) \ F PROVE x \in Stored(s)'
      <3>1. PICK j \in Sinks : x \in sents[s][j]
        BY <2>1 DEF Stored
      <3>2. x \in sents'[s][j]
        BY <1>4, <2>1, <3>1
      <3> QED
        BY <3>2 DEF Stored
    <2>2. ASSUME NEW x \in Stored(s)' PROVE x \in Stored(s) \ F
      <3>1. PICK j \in Sinks : x \in sents'[s][j]
        BY <2>2 DEF Stored
      <3>2. x \in sents[s][j] /\ x \notin F
        BY <1>4, <1>10, <3>1
      <3> QED
        BY <3>2 DEF Stored
    <2> QED
      BY <2>1, <2>2
  <1>12. Phases(s)' /\ Maps(s)' /\ Serving(s)' /\ Recovering(s)'
    BY <1>1, <1>2, <1>4
       DEF OwnershipOf, Phases, Maps, Serving, Recovering, Running
  <1>13. Queued(s)'
    BY <1>1, <1>2, <1>5, <1>11 DEF OwnershipOf, Queued
  <1>14. Kind(s)'
    BY <1>1, <1>2, <1>4, <1>5 DEF OwnershipOf, Kind
  <1>15. Tracked(s)'
    BY <1>1, <1>5, <1>6, <1>9, <1>11 DEF OwnershipOf, Tracked
  <1>16. Live(s)'
    BY <1>1, <1>2, <1>5, <1>6, <1>11 DEF OwnershipOf, Live, Queued
  <1>17. OwnershipOf(s)'
    BY <1>12, <1>13, <1>14, <1>15, <1>16 DEF OwnershipOf
  <1>18. \A r \in Sources \ {s} : Slice(r)' = Slice(r)
    BY <1>2 DEF Slice
  <1>19. \A m \in Msgs : Origin[m] # s => (m \in freed' <=> m \in freed)
    BY <1>2, <1>8
  <1> QED
    BY <1>2, <1>17, <1>18, <1>19, OwnershipOthers

(* RECOVER reads the map and changes no owner. *)
LEMMA RecoverSteps ==
    ASSUME TypeInv, TypeInv', Ownership, NEW s \in Sources,
           TakeRecover(s) \/ RecoverNext(s)
    PROVE  Ownership'
  <1> USE DEF TypeInv, SourceTypeOK
  <1>1. OwnershipOf(s)
    BY DEF Ownership
  <1>2. /\ UNCHANGED <<main, recvPc, ready, msg, sockets, sents, offered, dest,
                       freed>>
        /\ taskPc[s] \in {"wait", "recover"}
        /\ taskPc'[s] \in {"recover", IF Running(s) THEN "wait" ELSE "exit"}
        /\ \A r \in Sources \ {s} :
              /\ taskPc'[r] = taskPc[r]
              /\ client'[r] = client[r] /\ todo'[r] = todo[r]
    BY DEF TakeRecover, RecoverNext, TakeRequest, After
  <1>3. Recovering(s)'
    <2>1. CASE TakeRecover(s)
      <3> DEFINE k == Head(requests[s]).sink
      <3>1. /\ k \in Sinks
            /\ client'[s] = k /\ todo'[s] = Kept(s, k)
            /\ taskPc'[s] = IF Kept(s, k) = {} THEN After(s) ELSE "recover"
            /\ UNCHANGED sents
        BY <2>1, TakeRequestType DEF TakeRecover
      <3>2. Kept(s, k) \subseteq sents[s][k]
        BY DEF Kept
      <3> QED
        BY <3>1, <3>2 DEF Recovering, After
    <2>2. CASE RecoverNext(s)
      <3>1. PICK m \in todo[s] :
                /\ todo' = [todo EXCEPT ![s] = @ \ {m}]
                /\ taskPc' = [taskPc EXCEPT ![s] =
                                IF todo[s] = {m} THEN After(s) ELSE "recover"]
        BY <2>2 DEF RecoverNext
      <3>2. todo[s] \subseteq sents[s][client[s]] /\ UNCHANGED <<client, sents>>
        BY <1>1, <2>2 DEF RecoverNext, Recovering, OwnershipOf
      <3>3. /\ todo'[s] = todo[s] \ {m}
            /\ taskPc'[s] = IF todo[s] = {m} THEN After(s) ELSE "recover"
        BY <3>1
      <3> QED
        BY <3>2, <3>3 DEF Recovering, After
    <2> QED
      BY <2>1, <2>2
  <1>4. Phases(s)' /\ Maps(s)' /\ Serving(s)'
    BY <1>1, <1>2 DEF OwnershipOf, Phases, Maps, Serving, Running
  <1>5. /\ Given(s)' = Given(s) /\ Waiting(s)' = Waiting(s)
        /\ Stored(s)' = Stored(s) /\ Deleted(s)' = Deleted(s)
        /\ Hand(s)' = Hand(s)
        /\ Alive(s)' = Alive(s) /\ Running(s)' = Running(s)
    BY <1>2 DEF Given, Waiting, Stored, Deleted, Hand, Alive, Running
  <1>6. Queued(s)' /\ Tracked(s)' /\ Live(s)'
    BY <1>1, <1>2, <1>5 DEF OwnershipOf, Queued, Tracked, Live
  <1>7. Kind(s)'
    BY <1>1, <1>2, <1>5 DEF OwnershipOf, Kind
  <1>8. OwnershipOf(s)'
    BY <1>3, <1>4, <1>6, <1>7 DEF OwnershipOf
  <1>9. \A r \in Sources \ {s} : Slice(r)' = Slice(r)
    BY <1>2 DEF Slice
  <1> QED
    BY <1>2, <1>8, <1>9, OwnershipOthers

(* The end of task_thread frees what the maps owned, each message once. *)
LEMMA TaskExitStep ==
    ASSUME TypeInv, TypeInv', Ownership, NEW s \in Sources, TaskExit(s)
    PROVE  Ownership'
  <1> USE DEF TypeInv, SourceTypeOK
  <1>1. /\ taskPc[s] \in {"wait", "exit"} /\ ~Running(s)
        /\ taskPc'[s] \in {"crashed", "done"}
        /\ sockets'[s] = {} /\ \A k \in Sinks : sents'[s][k] = {}
        /\ freed' = freed \cup Stored(s)
        /\ \A r \in Sources \ {s} :
              /\ taskPc'[r] = taskPc[r]
              /\ sockets'[r] = sockets[r] /\ sents'[r] = sents[r]
        /\ UNCHANGED <<main, recvPc, ready, client, msg, todo, offered, dest>>
    BY DEF TaskExit
  <1>2. OwnershipOf(s)
    BY DEF Ownership
  <1>3. Stored(s)' = {}
    BY <1>1 DEF Stored
  <1>4. /\ Hand(s) = {} /\ Hand(s)' = {} /\ Alive(s)
        /\ Given(s)' = Given(s) /\ Waiting(s)' = Waiting(s)
        /\ ~Running(s)'
    BY <1>1 DEF Hand, Alive, Given, Waiting, Running
  <1>5. Stored(s) \subseteq Given(s)
    BY <1>2, <1>4 DEF OwnershipOf, Tracked
  <1>6. \A m \in Stored(s) : m \in Msgs /\ Origin[m] = s
    BY <1>5 DEF Given
  <1>7. Deleted(s)' = Deleted(s) \cup Stored(s)
    BY <1>1, <1>6 DEF Deleted
  <1>8. Phases(s)' /\ Maps(s)' /\ Serving(s)' /\ Recovering(s)'
    BY <1>1, <1>2 DEF OwnershipOf, Phases, Maps, Serving, Recovering, Running
  <1>9. Queued(s)' /\ Kind(s)'
    BY <1>1, <1>2, <1>3, <1>4 DEF OwnershipOf, Queued, Kind
  <1>10. Tracked(s)'
    BY <1>2, <1>3, <1>4, <1>7 DEF OwnershipOf, Tracked
  <1>11. Live(s)'
    BY <1>1, <1>2, <1>3, <1>4 DEF OwnershipOf, Live, Queued
  <1>12. OwnershipOf(s)'
    BY <1>8, <1>9, <1>10, <1>11 DEF OwnershipOf
  <1>13. \A r \in Sources \ {s} : Slice(r)' = Slice(r)
    BY <1>1 DEF Slice
  <1> QED
    BY <1>1, <1>6, <1>12, <1>13, OwnershipOthers

(* Steps of the environment, and the end of a linger period. *)
LEMMA OwnershipElsewhere ==
    ASSUME TypeInv, TypeInv', Ownership,
           UNCHANGED <<main, recvPc, taskPc, ready, client, msg, todo, sockets,
                       sents, offered, dest, freed>>
    PROVE  Ownership'
  <1>1. offered' \subseteq Msgs /\ freed' \subseteq Msgs
    BY DEF TypeInv, SourceTypeOK
  <1>2. ASSUME NEW s \in Sources PROVE OwnershipOf(s)'
    BY <1>1, OwnershipFrame DEF Ownership, Slice
  <1> QED
    BY <1>2 DEF Ownership

(* No action of a source takes a message out of its one place. *)
LEMMA OwnershipStep ==
    ASSUME TypeInv, Ownership, KeysDistinct, NEW s \in Sources, SourceNext(s)
    PROVE  Ownership'
  <1>1. TypeInv'
    BY TypeStep
  <1>2. ASSUME NEW k \in Sinks, LingerExpire(s, k) PROVE Ownership'
    BY <1>1, <1>2, OwnershipElsewhere DEF LingerExpire, source
  <1> QED
    BY <1>1, <1>2, MainSteps, RecvSteps, WaitSteps, SendStep, StartStep,
       DestroyStep, TakeGetStep, GetReadyStep, StoreDataStep, TakeDelStep,
       RecoverSteps, TaskExitStep
       DEF SourceNext, MainThread, TaskThread
-----------------------------------------------------------------------------
(* What the source promises follows. *)
LEMMA OwnershipImplies ==
    ASSUME TypeInv, Ownership
    PROVE  NoLeak /\ NoUseAfterFree /\ OneOwner /\ StopLeavesNothing
  <1> USE DEF TypeInv, SourceTypeOK
  <1>1. \A s \in Sources : OwnershipOf(s)
    BY DEF Ownership
  <1>2. NoLeak
    BY <1>1 DEF NoLeak, OwnershipOf, Tracked
  <1>3. NoUseAfterFree
    <2>1. ASSUME NEW s \in Sources PROVE todo[s] \subseteq Stored(s)
      <3>1. Recovering(s)
        BY <1>1 DEF OwnershipOf
      <3>2. CASE taskPc[s] = "recover"
        BY <3>1, <3>2 DEF Recovering, Stored, ServingOK
      <3>3. CASE taskPc[s] # "recover"
        BY <3>1, <3>3 DEF Recovering
      <3> QED
        BY <3>2, <3>3
    <2> QED
      BY <1>1, <2>1 DEF NoUseAfterFree, OwnershipOf, Live
  <1>4. OneOwner
    <2>1. SUFFICES ASSUME NEW s \in Sources, Running(s)
                   PROVE  /\ IsInjective(ready[s])
                          /\ Waiting(s) \cap (Hand(s) \cup Stored(s)) = {}
                          /\ Hand(s) \cap Stored(s) = {}
                          /\ \A k \in Sinks : \A m \in sents[s][k] : dest[m] = k
      BY DEF OneOwner
    <2> QED
      BY <1>1, <2>1 DEF OwnershipOf, Queued, Kind, Hand, ServingOK
  <1>5. StopLeavesNothing
    <2>1. SUFFICES ASSUME NEW s \in Sources, Alive(s),
                          main[s] \in {"stopped", "destroyed"}
                   PROVE  /\ recvPc[s] \in {"off", "done"}
                          /\ taskPc[s] \in {"off", "done"}
                          /\ sockets[s] = {} /\ Stored(s) = {}
                          /\ main[s] = "destroyed" => Given(s) \subseteq freed
      BY DEF StopLeavesNothing
    <2>2. recvPc[s] \in {"off", "done"} /\ taskPc[s] \in {"off", "done"}
      BY <1>1, <2>1 DEF OwnershipOf, Phases
    <2>3. sockets[s] = {} /\ Stored(s) = {} /\ Hand(s) = {}
      <3>1. Maps(s)
        BY <1>1 DEF OwnershipOf
      <3>2. sockets[s] = {} /\ \A k \in Sinks : sents[s][k] = {}
        BY <2>2, <3>1 DEF Maps
      <3> QED
        BY <2>2, <3>2 DEF Stored, Hand
    <2>4. main[s] = "destroyed" => Waiting(s) = {}
      BY <1>1, ToSetEmpty DEF OwnershipOf, Phases, Waiting
    <2>5. Given(s) = Waiting(s) \cup Hand(s) \cup Stored(s) \cup Deleted(s)
      BY <1>1, <2>1 DEF OwnershipOf, Tracked
    <2> QED
      BY <2>2, <2>3, <2>4, <2>5 DEF Deleted
  <1> QED
    BY <1>2, <1>3, <1>4, <1>5
=============================================================================
