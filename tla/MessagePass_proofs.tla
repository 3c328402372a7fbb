-------------------------- MODULE MessagePass_proofs --------------------------
(***************************************************************************)
(* Theorems about sources, sinks and channels together.                    *)
(***************************************************************************)
EXTENDS MessagePass, MessageSource_proofs

-----------------------------------------------------------------------------
(* Sequences *)

(* A part of a sequence has no other elements. *)
LEMMA SubSeqPart ==
    ASSUME NEW S, NEW q \in Seq(S), NEW a \in Nat \ {0}, NEW b \in 0 .. Len(q)
    PROVE  /\ SubSeq(q, a, b) \in Seq(S)
           /\ ToSet(SubSeq(q, a, b)) \subseteq ToSet(q)
  <1>1. SubSeq(q, a, b) \in Seq(S)
    OBVIOUS
  <1>2. ASSUME NEW x \in ToSet(SubSeq(q, a, b)) PROVE x \in ToSet(q)
    <2>1. PICK i \in DOMAIN SubSeq(q, a, b) : x = SubSeq(q, a, b)[i]
      BY <1>2 DEF ToSet
    <2>2. i \in 1 .. Len(SubSeq(q, a, b))
      BY <1>1, <2>1
    <2>3. x = q[a + i - 1] /\ a + i - 1 \in 1 .. Len(q)
      BY <2>1, <2>2
    <2> QED
      BY <2>3 DEF ToSet
  <1> QED
    BY <1>1, <1>2

(* The elements of two sequences put together. *)
LEMMA ToSetConcat ==
    ASSUME NEW S, NEW q \in Seq(S), NEW r \in Seq(S)
    PROVE  q \o r \in Seq(S) /\ ToSet(q \o r) \subseteq ToSet(q) \cup ToSet(r)
  <1>1. /\ q \o r \in Seq(S)
        /\ DOMAIN (q \o r) = 1 .. Len(q) + Len(r)
        /\ DOMAIN q = 1 .. Len(q)
        /\ DOMAIN r = 1 .. Len(r)
        /\ \A i \in 1 .. Len(q) + Len(r) :
              (q \o r)[i] = IF i <= Len(q) THEN q[i] ELSE r[i - Len(q)]
        /\ Len(q) \in Nat /\ Len(r) \in Nat
    OBVIOUS
  <1>2. ASSUME NEW x \in ToSet(q \o r) PROVE x \in ToSet(q) \cup ToSet(r)
    <2>1. PICK i \in 1 .. Len(q) + Len(r) : x = (q \o r)[i]
      BY <1>1, <1>2 DEF ToSet
    <2>2. CASE i <= Len(q)
      BY <1>1, <2>1, <2>2 DEF ToSet
    <2>3. CASE ~(i <= Len(q))
      <3>1. i - Len(q) \in 1 .. Len(r) /\ x = r[i - Len(q)]
        BY <1>1, <2>1, <2>3
      <3> QED
        BY <1>1, <3>1 DEF ToSet
    <2> QED
      BY <2>2, <2>3
  <1> QED
    BY <1>1, <1>2

(* Taking a request out of a topic adds none. *)
LEMMA RemoveAtPart ==
    ASSUME NEW S, NEW q \in Seq(S), NEW i \in DOMAIN q
    PROVE  ToSet(RemoveAt(q, i)) \subseteq ToSet(q)
  <1> DEFINE before == SubSeq(q, 1, i - 1)
             behind == SubSeq(q, i + 1, Len(q))
  <1>1. i \in 1 .. Len(q)
    OBVIOUS
  <1>2. before \in Seq(S) /\ ToSet(before) \subseteq ToSet(q)
    <2>1. i - 1 \in 0 .. Len(q)
      BY <1>1
    <2> QED
      BY <2>1, SubSeqPart
  <1>3. behind \in Seq(S) /\ ToSet(behind) \subseteq ToSet(q)
    <2>1. i + 1 \in Nat \ {0} /\ Len(q) \in 0 .. Len(q)
      BY <1>1
    <2> QED
      BY <2>1, SubSeqPart
  <1>4. RemoveAt(q, i) = before \o behind
    BY DEF RemoveAt
  <1> HIDE DEF before, behind
  <1>5. ToSet(before \o behind) \subseteq ToSet(before) \cup ToSet(behind)
    BY <1>2, <1>3, ToSetConcat
  <1> QED
    BY <1>2, <1>3, <1>4, <1>5

-----------------------------------------------------------------------------
(* Types *)

PassTypeInv == TypeInv /\ SinkTypeOK

(* When a ROUTER socket goes away what is left in the pipes is messages. *)
LEMMA ZmqUnbindType ==
    ASSUME ChannelsTypeOK, NEW k \in Sinks, ZmqUnbind(k)
    PROVE  /\ pipe' \in [Sources -> [Sinks -> Seq(Msgs)]]
           /\ \A s \in Sources, j \in Sinks :
                 ToSet(pipe'[s][j]) \subseteq ToSet(pipe[s][j])
  <1>1. PICK gone \in [Sources -> 0 .. Hwm] :
            /\ \A s \in Sources : gone[s] <= Len(pipe[s][k])
            /\ pipe' = [s \in Sources |->
                   [pipe[s] EXCEPT ![k] = SubSeq(@, gone[s] + 1, Len(@))]]
    BY DEF ZmqUnbind
  <1>2. ASSUME NEW s \in Sources
        PROVE  LET rest == SubSeq(pipe[s][k], gone[s] + 1, Len(pipe[s][k]))
               IN  rest \in Seq(Msgs) /\ ToSet(rest) \subseteq ToSet(pipe[s][k])
    <2>1. pipe[s][k] \in Seq(Msgs) /\ gone[s] + 1 \in Nat \ {0}
      BY ChannelsAssumption DEF ChannelsTypeOK
    <2> QED
      BY <2>1, SubSeqPart
  <1>3. ASSUME NEW s \in Sources, NEW j \in Sinks
        PROVE  pipe'[s][j] \in Seq(Msgs) /\ ToSet(pipe'[s][j]) \subseteq ToSet(pipe[s][j])
    BY <1>1, <1>2 DEF ChannelsTypeOK
  <1>4. pipe' \in [Sources -> [Sinks -> Seq(Msgs)]]
    BY <1>1, <1>2 DEF ChannelsTypeOK
  <1> QED
    BY <1>3, <1>4

(* The queue of the producer holds requests, and so does what is lost. *)
LEMMA TypeProducer ==
    ASSUME PassTypeInv, NEW k \in Sinks, SinkNext(k)
    PROVE  outq' \in [Sinks -> Seq(Request)] /\ lost' \subseteq Request
  <1> USE DEF PassTypeInv, SinkTypeOK
  <1>1. ASSUME NEW r \in Request, Enqueue(k, r)
        PROVE  outq' \in [Sinks -> Seq(Request)] /\ lost' \subseteq Request
    <2>1. Append(outq[k], r) \in Seq(Request)
      BY ToSetAppend
    <2> QED
      BY <1>1, <2>1 DEF Enqueue, Deletions
  <1>2. ASSUME ProcessEnds(k)
        PROVE  outq' \in [Sinks -> Seq(Request)] /\ lost' \subseteq Request
    <2>1. ToSet(outq[k]) \subseteq Request
      BY DEF ToSet
    <2>2. <<>> \in Seq(Request)
      OBVIOUS
    <2> QED
      BY <1>2, <2>1, <2>2 DEF ProcessEnds, Deletions
  <1>3. CASE Transmit(k)
    <2>1. Head(outq[k]) \in Request /\ Tail(outq[k]) \in Seq(Request)
      BY <1>3, ToSetTail DEF Transmit
    <2> QED
      BY <1>3, <2>1 DEF Transmit, Deletions
  <1>4. CASE SinkStart(k) \/ SinkRestart(k) \/ SendGet(k) \/ SendRecover(k)
    BY <1>1, <1>4, RequestTypes
       DEF SinkStart, SinkRestart, SendGet, SendRecover, SendRequest
  <1>5. ASSUME NEW m \in Msgs, SendDel(k, m)
        PROVE  outq' \in [Sinks -> Seq(Request)] /\ lost' \subseteq Request
    <2>1. Del(k, KeyOf[m]) \in Request
      BY RequestTypes, ChannelsAssumption
    <2> QED
      BY <1>1, <1>5, <2>1 DEF SendDel, SendRequest
  <1>6. CASE UNCHANGED producer
    BY <1>6 DEF producer
  <1> QED
    BY <1>2, <1>3, <1>4, <1>5, <1>6
       DEF SinkNext, RecvMessageThread, GetMsg, GetMsgRace, SinkStop, JoinSink,
           SinkDestroy, Crash, CopyQueues, BindSocket, BindFails, Receive,
           ReceiveNull, RecvMsgExit

(* No action of a sink leaves the types. *)
LEMMA TypeSink ==
    ASSUME PassTypeInv, NEW k \in Sinks, SinkNext(k), UNCHANGED source
    PROVE  PassTypeInv'
  <1> USE DEF PassTypeInv
  <1> SourceTypeOK /\ ChannelsTypeOK /\ ServingOK /\ SinkTypeOK
    BY DEF TypeInv
  <1>1. SourceTypeOK' /\ ServingOK'
    BY DEF source, SourceTypeOK, ServingOK
  <1>2. SUFFICES ChannelsTypeOK' /\ SinkTypeOK'
    BY <1>1 DEF TypeInv
  <1>3. outq' \in [Sinks -> Seq(Request)] /\ lost' \subseteq Request
    BY TypeProducer
  <1>4. Absent \in [Sources -> {"absent", "null", "queue"}]
        /\ Absent \in [Sources -> {"absent", "null", "queue", "private"}]
        /\ Empty \in [Sources -> Seq(Msgs)]
    BY DEF Absent, Empty
  <1>5. ASSUME ProcessEnds(k)
        PROVE  /\ recvMsgPc' \in [Sinks -> {"off", "bind", "copy", "loop",
                                            "close", "done"}]
               /\ recvs' \in [Sinks -> [Sources -> {"absent", "null", "queue"}]]
               /\ local' \in [Sinks -> [Sources -> {"absent", "null", "queue",
                                                    "private"}]]
               /\ queue' \in [Sinks -> [Sources -> Seq(Msgs)]]
               /\ orphan' \in [Sinks -> SUBSET Msgs]
               /\ got' \in [Sinks -> SUBSET Msgs]
    BY <1>4, <1>5 DEF ProcessEnds, SinkTypeOK
  <1>6. CASE SinkStart(k)
    <2>1. PreparedQueues(k) \in [Sources -> {"absent", "null", "queue"}]
      BY DEF PreparedQueues
    <2> QED
      BY <1>3, <1>6, <2>1 DEF SinkStart, SinkTypeOK, ChannelsTypeOK, channels
  <1>7. CASE SinkRestart(k)
    BY <1>3, <1>7 DEF SinkRestart, SinkTypeOK, ChannelsTypeOK, channels
  <1>8. ASSUME NEW r \in Request, SendRequest(k, r),
               asked' = asked \/ \E m \in Msgs : asked' = asked \cup {<<k, m>>}
        PROVE  ChannelsTypeOK' /\ SinkTypeOK'
    <2>1. r.cmd \in {"GET", "DEL", "RECOVER"}
      BY DEF Request
    <2>2. issued' \in [Sinks -> [{"GET", "DEL", "RECOVER"} -> Nat]]
      BY <1>8, <2>1 DEF SendRequest, SinkTypeOK
    <2>3. asked' \subseteq Sinks \X Msgs
      BY <1>8 DEF SinkTypeOK
    <2>4. ChannelsTypeOK'
      BY <1>8 DEF SendRequest, ChannelsTypeOK, channels
    <2>5. UNCHANGED <<sinkPc, recvMsgPc, recvs, local, queue, orphan, got, starts>>
      BY <1>8 DEF SendRequest
    <2> QED
      BY <1>3, <2>2, <2>3, <2>4, <2>5 DEF SinkTypeOK
  <1>9. CASE SendGet(k) \/ SendRecover(k)
    BY <1>8, <1>9, RequestTypes DEF SendGet, SendRecover
  <1>10. ASSUME NEW m \in Msgs, SendDel(k, m)
         PROVE  ChannelsTypeOK' /\ SinkTypeOK'
    <2>1. Del(k, KeyOf[m]) \in Request
      BY RequestTypes, ChannelsAssumption
    <2> QED
      BY <1>8, <1>10, <2>1 DEF SendDel
  <1>11. ASSUME NEW s \in Sources, GetMsg(k, s)
         PROVE  ChannelsTypeOK' /\ SinkTypeOK'
    <2>1. queue[k][s] # <<>> =>
              Head(queue[k][s]) \in Msgs /\ Tail(queue[k][s]) \in Seq(Msgs)
      BY ToSetTail DEF SinkTypeOK
    <2>2. CASE recvs' = [recvs EXCEPT ![k][s] = "null"] /\ UNCHANGED <<queue, got>>
      <3>1. recvs' \in [Sinks -> [Sources -> {"absent", "null", "queue"}]]
        BY <2>2 DEF SinkTypeOK
      <3> QED
        BY <1>3, <1>11, <2>2, <3>1 DEF GetMsg, SinkTypeOK, ChannelsTypeOK, channels
    <2>3. CASE /\ queue[k][s] # <<>>
               /\ got' = [got EXCEPT ![k] = @ \cup {Head(queue[k][s])}]
               /\ queue' = [queue EXCEPT ![k][s] = Tail(@)]
               /\ UNCHANGED recvs
      <3>1. got' \in [Sinks -> SUBSET Msgs]
        BY <2>1, <2>3 DEF SinkTypeOK
      <3>2. queue' \in [Sinks -> [Sources -> Seq(Msgs)]]
        BY <2>1, <2>3 DEF SinkTypeOK
      <3> QED
        BY <1>3, <1>11, <2>3, <3>1, <3>2
           DEF GetMsg, SinkTypeOK, ChannelsTypeOK, channels
    <2> QED
      BY <1>11, <2>2, <2>3 DEF GetMsg
  <1>12. ASSUME NEW s \in Sources, GetMsgRace(k, s)
         PROVE  ChannelsTypeOK' /\ SinkTypeOK'
    BY <1>3, <1>5, <1>12 DEF GetMsgRace, SinkTypeOK, ChannelsTypeOK, channels
  <1>13. CASE SinkStop(k) \/ JoinSink(k)
    <2>1. CASE SinkStop(k)
      BY <1>3, <2>1 DEF SinkStop, SinkTypeOK, ChannelsTypeOK, channels
    <2>2. CASE JoinSink(k)
      BY <1>3, <1>4, <2>2 DEF JoinSink, SinkTypeOK, ChannelsTypeOK, channels
    <2> QED
      BY <1>13, <2>1, <2>2
  <1>14. CASE SinkDestroy(k)
    BY <1>3, <1>5, <1>14 DEF SinkDestroy, SinkTypeOK, ChannelsTypeOK, channels
  <1>15. CASE Crash(k)
    BY <1>3, <1>5, <1>15, ZmqUnbindType DEF Crash, SinkTypeOK, ChannelsTypeOK
  <1>16. CASE CopyQueues(k) \/ BindSocket(k)
    <2>1. ASSUME local' = [local EXCEPT ![k] = recvs[k]]
          PROVE  local' \in [Sinks -> [Sources -> {"absent", "null", "queue",
                                                  "private"}]]
      <3>1. recvs[k] \in [Sources -> {"absent", "null", "queue", "private"}]
        BY DEF SinkTypeOK
      <3> QED
        BY <2>1, <3>1 DEF SinkTypeOK
    <2>2. CASE CopyQueues(k)
      BY <1>3, <2>1, <2>2 DEF CopyQueues, SinkTypeOK, ChannelsTypeOK, channels
    <2>3. CASE BindSocket(k)
      <3>1. recvMsgPc' \in [Sinks -> {"off", "bind", "copy", "loop", "close",
                                     "done"}]
        BY <2>3 DEF BindSocket, Again, SinkTypeOK
      <3> QED
        BY <1>3, <2>1, <2>3, <3>1 DEF BindSocket, SinkTypeOK, ChannelsTypeOK, channels
    <2> QED
      BY <1>16, <2>2, <2>3
  <1>17. ASSUME NEW s \in Sources, Receive(k, s)
         PROVE  ChannelsTypeOK' /\ SinkTypeOK'
    <2> DEFINE m    == Head(pipe[s][k])
               slot == CASE local[k][s] # "absent" -> local[k][s]
                         [] Fixed                  -> "null"
                         [] OTHER                  -> "private"
    <2>1. m \in Msgs /\ Tail(pipe[s][k]) \in Seq(Msgs)
      BY <1>17, ToSetTail DEF Receive, ChannelsTypeOK
    <2>2. slot \in {"absent", "null", "queue", "private"}
      BY ChannelsAssumption DEF SinkTypeOK
    <2>3. Append(queue[k][s], m) \in Seq(Msgs)
      BY <2>1, ToSetAppend DEF SinkTypeOK
    <2>4. ChannelsTypeOK'
      BY <1>17, <2>1 DEF Receive, ZmqRecv, ChannelsTypeOK
    <2>5. /\ local' = [local EXCEPT ![k][s] = slot]
          /\ queue' = IF slot = "queue"
                        THEN [queue EXCEPT ![k][s] = Append(@, m)] ELSE queue
          /\ orphan' = IF slot = "private"
                         THEN [orphan EXCEPT ![k] = @ \cup {m}] ELSE orphan
      BY <1>17 DEF Receive
    <2> HIDE DEF m, slot
    <2>6. /\ local' \in [Sinks -> [Sources -> {"absent", "null", "queue",
                                               "private"}]]
          /\ queue' \in [Sinks -> [Sources -> Seq(Msgs)]]
          /\ orphan' \in [Sinks -> SUBSET Msgs]
      BY <2>1, <2>2, <2>3, <2>5 DEF SinkTypeOK
    <2> QED
      BY <1>3, <1>17, <2>4, <2>6 DEF Receive, Again, SinkTypeOK
  <1>18. ASSUME NEW s \in Sources, ReceiveNull(k, s)
         PROVE  ChannelsTypeOK' /\ SinkTypeOK'
    BY <1>3, <1>5, <1>18, ZmqUnbindType DEF ReceiveNull, SinkTypeOK, ChannelsTypeOK
  <1>19. CASE RecvMsgExit(k)
    BY <1>3, <1>19, ZmqUnbindType DEF RecvMsgExit, SinkTypeOK, ChannelsTypeOK
  <1>20. CASE Transmit(k)
    <2>1. Head(outq[k]) \in Request
      BY <1>20, ToSetTail DEF Transmit, SinkTypeOK
    <2>2. ChannelsTypeOK'
      BY <1>20, <2>1, ProduceType DEF Transmit, ChannelsTypeOK
    <2> QED
      BY <1>3, <1>20, <2>2 DEF Transmit, SinkTypeOK
  <1>21. CASE BindFails(k)
    BY <1>3, <1>5, <1>21 DEF BindFails, SinkTypeOK, ChannelsTypeOK, channels
  <1> QED
    BY <1>6, <1>7, <1>9, <1>10, <1>11, <1>12, <1>13, <1>14, <1>15, <1>16,
       <1>17, <1>18, <1>19, <1>20, <1>21 DEF SinkNext, RecvMessageThread

(* The types hold in every reachable state. *)
LEMMA PassTypeInvariant == SafetySpec => []PassTypeInv
  <1>1. Init => PassTypeInv
    BY TypeInit DEF Init, PassTypeInv, SinkInit, SinkTypeOK, Absent, Empty
  <1>2. PassTypeInv /\ [Next]_vars => PassTypeInv'
    <2> SUFFICES ASSUME PassTypeInv, [Next]_vars PROVE PassTypeInv'
      OBVIOUS
    <2>1. ASSUME NEW s \in Sources, SourceStep(s) PROVE PassTypeInv'
      BY <2>1, TypeStep DEF SourceStep, PassTypeInv, sink, producer, SinkTypeOK
    <2>2. ASSUME NEW k \in Sinks, SinkStep(k) PROVE PassTypeInv'
      BY <2>2, TypeSink DEF SinkStep
    <2>3. CASE UNCHANGED vars
      BY <2>3 DEF vars, source, sink, producer, channels, PassTypeInv, TypeInv, ServingOK,
                  SourceTypeOK, SinkTypeOK, ChannelsTypeOK
    <2> QED
      BY <2>1, <2>2, <2>3 DEF Next
  <1> QED
    BY <1>1, <1>2, PTL DEF SafetySpec

(* Every variable of both ends and of the channels keeps its type, for any *)
(* number of sources, sinks and messages and any faults of Kafka.          *)
THEOREM PassTyped == SafetySpec => []TypeOK
  <1>1. PassTypeInv => TypeOK
    BY DEF PassTypeInv, TypeInv, TypeOK
  <1> QED
    BY <1>1, PassTypeInvariant, PTL

-----------------------------------------------------------------------------
(* What is on its way *)

(* What the request being served may yet put into the pipe of its sink. *)
Outgoing(s) ==
    CASE taskPc[s] = "send"    -> {msg[s]}
      [] taskPc[s] = "recover" -> todo[s]
      [] OTHER                 -> {}

(* A step of a source adds nothing but that to a pipe. *)
LEMMA SourceToPipe ==
    ASSUME TypeInv, NEW s \in Sources, SourceNext(s),
           NEW r \in Sources, NEW k \in Sinks, NEW m \in ToSet(pipe'[r][k])
    PROVE  \/ m \in ToSet(pipe[r][k])
           \/ r = s /\ k = client[s] /\ m \in Outgoing(s)
  <1> USE DEF TypeInv
  <1>1. CASE UNCHANGED pipe
    BY <1>1
  <1>2. ASSUME NEW j \in Sinks, NEW n \in Msgs, j = client[s], n \in Outgoing(s),
               ZmqSend(s, j, n)
        PROVE  \/ m \in ToSet(pipe[r][k])
               \/ r = s /\ k = client[s] /\ m \in Outgoing(s)
    <2>1. pipe[s][j] \in Seq(Msgs)
      BY DEF ChannelsTypeOK
    <2>2. ToSet(Append(pipe[s][j], n)) = ToSet(pipe[s][j]) \cup {n}
      BY <2>1, ToSetAppend
    <2>3. CASE pipe' = [pipe EXCEPT ![s][j] = Append(@, n)]
      <3>1. CASE r = s /\ k = j
        <4>1. pipe'[r][k] = Append(pipe[s][j], n)
          BY <2>3, <3>1 DEF ChannelsTypeOK
        <4> QED
          BY <1>2, <2>2, <3>1, <4>1
      <3>2. CASE ~(r = s /\ k = j)
        BY <2>3, <3>2 DEF ChannelsTypeOK
      <3> QED
        BY <3>1, <3>2
    <2> QED
      BY <1>1, <1>2, <2>3 DEF ZmqSend
  <1>3. CASE SendData(s)
    BY <1>2, <1>3 DEF SendData, ServingOK, Outgoing
  <1>4. CASE RecoverNext(s)
    <2>1. PICK n \in todo[s] : ZmqSend(s, client[s], n)
      BY <1>4 DEF RecoverNext
    <2>2. n \in Msgs /\ client[s] \in Sinks /\ n \in Outgoing(s)
      BY <1>4, <2>1 DEF RecoverNext, SourceTypeOK, ServingOK, Outgoing
    <2> QED
      BY <1>2, <2>1, <2>2
  <1>5. ASSUME NEW j \in Sinks, LingerExpire(s, j) PROVE m \in ToSet(pipe[r][k])
    <2>1. PICK n \in 0 .. Len(pipe[s][j]) - 1 :
              pipe' = [pipe EXCEPT ![s][j] = SubSeq(@, 1, n)]
      BY <1>5 DEF LingerExpire, ZmqLinger
    <2>2. pipe[s][j] \in Seq(Msgs) /\ n \in 0 .. Len(pipe[s][j])
      BY <2>1 DEF ChannelsTypeOK
    <2>3. ToSet(SubSeq(pipe[s][j], 1, n)) \subseteq ToSet(pipe[s][j])
      BY <2>2, SubSeqPart
    <2>4. CASE r = s /\ k = j
      BY <2>1, <2>3, <2>4 DEF ChannelsTypeOK
    <2>5. CASE ~(r = s /\ k = j)
      BY <2>1, <2>5 DEF ChannelsTypeOK
    <2> QED
      BY <2>4, <2>5
  <1> QED
    BY <1>1, <1>3, <1>4, <1>5
       DEF SourceNext, MainThread, RecvThread, TaskThread, Send, Start, Stop,
           JoinRecv, JoinTask, Destroy, Subscribe, RecvRequest, RecvExit,
           TakeGet, GetReady, GetTimeout, GetTest, StoreData, TakeDel,
           TakeRecover, TaskExit, channels

(* A step of a sink adds nothing to any pipe. *)
LEMMA SinkToPipe ==
    ASSUME PassTypeInv, NEW k \in Sinks, SinkNext(k),
           NEW r \in Sources, NEW j \in Sinks
    PROVE  ToSet(pipe'[r][j]) \subseteq ToSet(pipe[r][j])
  <1> USE DEF PassTypeInv, TypeInv
  <1>1. CASE UNCHANGED pipe
    BY <1>1
  <1>2. CASE ZmqUnbind(k)
    BY <1>2, ZmqUnbindType
  <1>3. ASSUME NEW s \in Sources, Receive(k, s)
        PROVE  ToSet(pipe'[r][j]) \subseteq ToSet(pipe[r][j])
    <2>1. pipe[s][k] \in Seq(Msgs) /\ pipe[s][k] # <<>>
      BY <1>3 DEF Receive, ChannelsTypeOK
    <2>2. ToSet(Tail(pipe[s][k])) \subseteq ToSet(pipe[s][k])
      BY <2>1, ToSetTail
    <2>3. pipe' = [pipe EXCEPT ![s][k] = Tail(@)]
      BY <1>3 DEF Receive, ZmqRecv
    <2>4. CASE r = s /\ j = k
      BY <2>2, <2>3, <2>4 DEF ChannelsTypeOK
    <2>5. CASE ~(r = s /\ j = k)
      BY <2>3, <2>5 DEF ChannelsTypeOK
    <2> QED
      BY <2>4, <2>5
  <1> QED
    BY <1>1, <1>2, <1>3
       DEF SinkNext, RecvMessageThread, SinkStart, SinkRestart, SendGet,
           SendRecover, SendDel, SendRequest, GetMsg, GetMsgRace, SinkStop,
           JoinSink, SinkDestroy, Crash, CopyQueues, BindSocket, BindFails,
           ReceiveNull, RecvMsgExit, Transmit, channels

(* A source sends what it was given, and to a sink whose GET took it or    *)
(* whose RECOVER asks for it again.                                        *)
LEMMA OutgoingOwned ==
    ASSUME TypeInv, Ownership, NEW s \in Sources, NEW m \in Outgoing(s)
    PROVE  /\ m \in Msgs /\ Origin[m] = s
           /\ Running(s) => dest[m] = client[s]
  <1> USE DEF TypeInv
  <1>1. OwnershipOf(s)
    BY DEF Ownership
  <1>2. CASE taskPc[s] = "send"
    <2>1. m = msg[s] /\ m \in Msgs
      BY <1>2 DEF Outgoing, ServingOK
    <2>2. m \in Given(s)
      BY <1>1, <2>1 DEF OwnershipOf, Queued
    <2>3. Running(s) => dest[m] = client[s]
      BY <1>1, <1>2, <2>1 DEF OwnershipOf, Kind
    <2> QED
      BY <2>1, <2>2, <2>3 DEF Given
  <1>3. CASE taskPc[s] = "recover"
    <2>1. client[s] \in Sinks /\ m \in sents[s][client[s]]
      BY <1>1, <1>3 DEF Outgoing, ServingOK, OwnershipOf, Recovering
    <2>2. m \in Given(s)
      <3>1. m \in Stored(s) /\ Alive(s)
        BY <1>3, <2>1 DEF Stored, Alive
      <3> QED
        BY <1>1, <3>1 DEF OwnershipOf, Tracked
    <2>3. dest[m] = client[s]
      BY <1>1, <1>3, <2>1 DEF OwnershipOf, Kind
    <2> QED
      BY <2>2, <2>3 DEF Given, SourceTypeOK
  <1> QED
    BY <1>2, <1>3 DEF Outgoing

-----------------------------------------------------------------------------
(* A source that is prepared is heard *)

(* A pipe carries messages of its source only. *)
Origins ==
    \A s \in Sources, k \in Sinks : \A m \in ToSet(pipe[s][k]) : Origin[m] = s

(* Between prepare_sources and the end of the process the map of a sink,   *)
(* and from BindSocket on the thread's copy, has the queues of the sources *)
(* that are prepared.                                                      *)
SinkMaps(k) ==
    /\ sinkPc[k] \in {"off", "crashed", "stopped"} => recvMsgPc[k] = "off"
    /\ sinkPc[k] \in {"up", "joining", "stopped"} =>
          \A s \in Prepared[k] : recvs[k][s] = "queue"
    /\ recvMsgPc[k] \notin {"off", "bind"} =>
          \A s \in Prepared[k] : local[k][s] = "queue"

Heard == PreparedIsReachable /\ \A k \in Sinks : SinkMaps(k)

(* One sink's step, as the others see it. *)
LEMMA HeardOthers ==
    ASSUME PassTypeInv, Heard, NEW k \in Sinks, SinkNext(k),
           NEW j \in Sinks, j # k
    PROVE  /\ sinkPc'[j] = sinkPc[j] /\ recvMsgPc'[j] = recvMsgPc[j]
           /\ recvs'[j] = recvs[j] /\ local'[j] = local[j]
           /\ orphan'[j] = orphan[j] /\ got'[j] = got[j]
           /\ \A s \in Sources : queue'[j][s] = queue[j][s]
  <1> USE DEF PassTypeInv, SinkTypeOK
  <1>1. ASSUME ProcessEnds(k)
        PROVE  /\ recvMsgPc'[j] = recvMsgPc[j]
               /\ recvs'[j] = recvs[j] /\ local'[j] = local[j]
               /\ orphan'[j] = orphan[j] /\ got'[j] = got[j]
               /\ \A s \in Sources : queue'[j][s] = queue[j][s]
    BY <1>1 DEF ProcessEnds
  <1>2. CASE \E s \in Sources : GetMsg(k, s)
    BY <1>2 DEF GetMsg
  <1>3. CASE \E s \in Sources : Receive(k, s)
    BY <1>3 DEF Receive
  <1>4. CASE CopyQueues(k) \/ BindSocket(k) \/ RecvMsgExit(k)
    BY <1>4 DEF CopyQueues, BindSocket, RecvMsgExit
  <1>5. CASE SinkStart(k) \/ SinkRestart(k) \/ SinkStop(k) \/ JoinSink(k)
    BY <1>5 DEF SinkStart, SinkRestart, SinkStop, JoinSink
  <1>6. CASE SendGet(k) \/ SendRecover(k) \/ \E m \in Msgs : SendDel(k, m)
    BY <1>6 DEF SendGet, SendRecover, SendDel, SendRequest
  <1>7. CASE \/ SinkDestroy(k) \/ Crash(k) \/ BindFails(k)
             \/ \E s \in Sources : GetMsgRace(k, s) \/ ReceiveNull(k, s)
    BY <1>1, <1>7 DEF SinkDestroy, Crash, BindFails, GetMsgRace, ReceiveNull
  <1>8. CASE Transmit(k)
    BY <1>8 DEF Transmit
  <1> QED
    BY <1>2, <1>3, <1>4, <1>5, <1>6, <1>7, <1>8 DEF SinkNext, RecvMessageThread

(* No step of a sink loses the queue of a source that is prepared. *)
LEMMA HeardStep ==
    ASSUME PassTypeInv, Origins, Heard, NEW k \in Sinks, SinkNext(k)
    PROVE  Heard'
  <1> USE DEF PassTypeInv, SinkTypeOK
  <1> DEFINE Mine == /\ SinkMaps(k)
                     /\ \A m \in orphan[k] : Origin[m] \notin Prepared[k]
                     /\ Prepared[k] = Sources => sinkPc[k] # "crashed"
  <1>1. Prepared[k] \subseteq Sources
    BY MessageSinkAssumption
  <1>2. Mine
    BY DEF Heard, PreparedIsReachable
  <1>3. SUFFICES Mine'
    <2>1. ASSUME Mine', NEW j \in Sinks
          PROVE  /\ SinkMaps(j)'
                 /\ \A m \in orphan'[j] : Origin[m] \notin Prepared[j]
                 /\ Prepared[j] = Sources => sinkPc'[j] # "crashed"
      <3>1. CASE j = k
        BY <2>1, <3>1
      <3>2. CASE j # k
        <4>1. /\ sinkPc'[j] = sinkPc[j] /\ recvMsgPc'[j] = recvMsgPc[j]
              /\ recvs'[j] = recvs[j] /\ local'[j] = local[j]
              /\ orphan'[j] = orphan[j]
          BY <3>2, HeardOthers
        <4>2. /\ SinkMaps(j)
              /\ \A m \in orphan[j] : Origin[m] \notin Prepared[j]
              /\ Prepared[j] = Sources => sinkPc[j] # "crashed"
          BY DEF Heard, PreparedIsReachable
        <4> QED
          BY <4>1, <4>2 DEF SinkMaps
      <3> QED
        BY <3>1, <3>2
    <2> HIDE DEF Mine
    <2> QED
      BY <2>1 DEF Heard, PreparedIsReachable
  <1>4. ASSUME ProcessEnds(k), sinkPc'[k] \in {"off", "crashed"},
               Prepared[k] = Sources => sinkPc'[k] # "crashed"
        PROVE  Mine'
    BY <1>4 DEF ProcessEnds, SinkMaps
  <1>5. CASE SinkStart(k)
    BY <1>1, <1>2, <1>5 DEF SinkStart, PreparedQueues, SinkMaps
  <1>6. CASE SinkRestart(k) \/ SinkStop(k) \/ JoinSink(k)
    <2>1. CASE SinkRestart(k)
      BY <1>2, <2>1 DEF SinkRestart, SinkMaps
    <2>2. CASE SinkStop(k)
      BY <1>2, <2>2 DEF SinkStop, SinkRunning, SinkMaps
    <2>3. CASE JoinSink(k)
      BY <1>2, <2>3 DEF JoinSink, SinkMaps
    <2> QED
      BY <1>6, <2>1, <2>2, <2>3
  <1>7. CASE SendGet(k) \/ SendRecover(k) \/ \E m \in Msgs : SendDel(k, m)
    BY <1>2, <1>7 DEF SendGet, SendRecover, SendDel, SendRequest, SinkMaps
  <1>8. ASSUME NEW s \in Sources, GetMsg(k, s) PROVE Mine'
    <2>1. Callable(k) /\ (recvs[k][s] = "absent" => s \notin Prepared[k])
      BY <1>2, <1>8 DEF GetMsg, Callable, SinkMaps
    <2>2. UNCHANGED <<sinkPc, recvMsgPc, local, orphan>>
      BY <1>8 DEF GetMsg
    <2>3. \A r \in Prepared[k] : recvs'[k][r] = recvs[k][r]
      BY <1>1, <1>8, <2>1 DEF GetMsg
    <2> QED
      BY <1>2, <2>2, <2>3 DEF SinkMaps
  <1>9. ASSUME NEW s \in Sources, GetMsgRace(k, s) PROVE Mine'
    <2>1. s \notin Prepared[k]
      BY <1>2, <1>9 DEF GetMsgRace, SinkRunning, SinkMaps
    <2> QED
      BY <1>4, <1>9, <2>1 DEF GetMsgRace
  <1>10. CASE SinkDestroy(k)
    <2>1. Prepared[k] = Sources => \A s \in Sources : recvs[k][s] # "null"
      BY <1>2, <1>10 DEF SinkDestroy, SinkMaps
    <2> QED
      BY <1>4, <1>10, <2>1 DEF SinkDestroy
  <1>11. CASE Crash(k) \/ BindFails(k)
    BY <1>4, <1>11 DEF Crash, BindFails
  <1>12. CASE CopyQueues(k) \/ BindSocket(k) \/ RecvMsgExit(k)
    BY <1>1, <1>2, <1>12 DEF CopyQueues, BindSocket, RecvMsgExit, SinkRunning,
                             Again, SinkMaps
  <1>13. ASSUME NEW s \in Sources, Receive(k, s) PROVE Mine'
    <2> DEFINE m    == Head(pipe[s][k])
               slot == CASE local[k][s] # "absent" -> local[k][s]
                         [] Fixed                  -> "null"
                         [] OTHER                  -> "private"
    <2>1. Origin[m] = s
      <3>1. pipe[s][k] \in Seq(Msgs) /\ pipe[s][k] # <<>>
        BY <1>13 DEF Receive, TypeInv, ChannelsTypeOK
      <3>2. m \in ToSet(pipe[s][k])
        BY <3>1, ToSetTail
      <3> QED
        BY <3>2 DEF Origins
    <2>2. s \in Prepared[k] => slot = "queue"
      BY <1>2, <1>13 DEF Receive, SinkMaps
    <2>3. /\ recvMsgPc[k] = "loop"
          /\ recvMsgPc' = [recvMsgPc EXCEPT ![k] = Again(k)]
          /\ local' = [local EXCEPT ![k][s] = slot]
          /\ orphan' = IF slot = "private"
                         THEN [orphan EXCEPT ![k] = @ \cup {m}] ELSE orphan
          /\ UNCHANGED <<sinkPc, recvs>>
      BY <1>13 DEF Receive
    <2> HIDE DEF m, slot
    <2>4. SinkMaps(k)'
      BY <1>1, <1>2, <2>2, <2>3 DEF SinkMaps, Again
    <2>5. \A n \in orphan'[k] : Origin[n] \notin Prepared[k]
      BY <1>2, <2>1, <2>2, <2>3
    <2> QED
      BY <1>2, <2>3, <2>4, <2>5
  <1>14. ASSUME NEW s \in Sources, ReceiveNull(k, s) PROVE Mine'
    <2>1. s \notin Prepared[k]
      BY <1>2, <1>14 DEF ReceiveNull, SinkMaps
    <2> QED
      BY <1>4, <1>14, <2>1 DEF ReceiveNull
  <1>15. CASE Transmit(k)
    BY <1>2, <1>15 DEF Transmit, SinkMaps
  <1> QED
    BY <1>5, <1>6, <1>7, <1>8, <1>9, <1>10, <1>11, <1>12, <1>13, <1>14, <1>15
       DEF SinkNext, RecvMessageThread

(* Types and ownership, what the pipes carry and what the sinks have made  *)
(* of prepare_sources are inductive together.                              *)
PassInv == PassTypeInv /\ Ownership /\ Origins /\ Heard

(* Every step of the message pass preserves them. *)
LEMMA PassInvStep ==
    ASSUME KeysDistinct, PassInv, PassTypeInv', [Next]_vars
    PROVE  PassInv'
  <1> USE DEF PassInv
  <1>1. TypeInv /\ TypeInv'
    BY DEF PassTypeInv
  <1>2. ASSUME NEW s \in Sources, SourceStep(s) PROVE PassInv'
    <2>1. Ownership'
      BY <1>1, <1>2, OwnershipStep DEF SourceStep
    <2>2. Origins'
      BY <1>1, <1>2, SourceToPipe, OutgoingOwned DEF SourceStep, Origins
    <2>3. Heard'
      BY <1>2 DEF SourceStep, sink, Heard, SinkMaps, PreparedIsReachable
    <2> QED
      BY <2>1, <2>2, <2>3
  <1>3. ASSUME NEW k \in Sinks, SinkStep(k) PROVE PassInv'
    <2>1. Ownership'
      BY <1>1, <1>3, OwnershipElsewhere DEF SinkStep, source
    <2>2. Origins'
      BY <1>3, SinkToPipe DEF SinkStep, Origins
    <2>3. Heard'
      BY <1>3, HeardStep DEF SinkStep
    <2> QED
      BY <2>1, <2>2, <2>3
  <1>4. CASE UNCHANGED vars
    <2>1. Ownership'
      BY <1>1, <1>4, OwnershipElsewhere DEF vars, source
    <2>2. Origins' /\ Heard'
      BY <1>4 DEF vars, sink, channels, Origins, Heard, SinkMaps,
                  PreparedIsReachable
    <2> QED
      BY <2>1, <2>2
  <1> QED
    BY <1>2, <1>3, <1>4 DEF Next

(* They hold in every reachable state. *)
LEMMA PassInvariant ==
    ASSUME KeysDistinct
    PROVE  SafetySpec => []PassInv
  <1>1. Init /\ PassTypeInv => PassInv
    <2>1. Init => Ownership
      BY OwnershipInit DEF Init
    <2>2. Init => Origins
      BY ToSetEmpty DEF Init, ChannelsInit, Origins
    <2>3. Init => Heard
      BY DEF Init, SinkInit, Heard, SinkMaps, PreparedIsReachable
    <2> QED
      BY <2>1, <2>2, <2>3 DEF PassInv
  <1>2. PassInv /\ PassTypeInv' /\ [Next]_vars => PassInv'
    BY PassInvStep
  <1> QED
    BY <1>1, <1>2, PassTypeInvariant, PTL DEF SafetySpec

(* Whatever the threads of a sink do and however often it is started,      *)
(* what a prepared source sends reaches a queue of get_msg, and a sink     *)
(* that has prepared all sources meets no null pointer and no race.        *)
THEOREM PassPreparedIsReachable ==
    ASSUME KeysDistinct
    PROVE  SafetySpec => []PreparedIsReachable
  <1>1. PassInv => PreparedIsReachable
    BY DEF PassInv, Heard
  <1> QED
    BY <1>1, PassInvariant, PTL

-----------------------------------------------------------------------------
(* To its sink and no other *)

(* No source leaves the state it is in while it runs. *)
Unstopped == \A s \in Sources : main[s] \in {"init", "up"}

(* A sink has been found for a message only after it left readys_. *)
Untaken ==
    \A m \in Msgs :
        dest[m] # NoSink => m \in offered /\ m \notin ToSet(ready[Origin[m]])

(* What is on its way to a sink or with it. *)
Beyond(k) ==
    {m \in Msgs : \/ \E s \in Sources : m \in ToSet(pipe[s][k]) \cup ToSet(queue[k][s])
                  \/ m \in orphan[k] \cup got[k]}

Routed == \A k \in Sinks : \A m \in Beyond(k) : dest[m] = k

(* A source whose application never calls stop() runs on. *)
LEMMA UnstoppedStep ==
    ASSUME NeverStopped, TypeInv, Unstopped, NEW s \in Sources, SourceNext(s)
    PROVE  Unstopped'
  <1> USE DEF Unstopped, NeverStopped, TypeInv, SourceTypeOK
  <1>1. CASE Start(s)
    BY <1>1 DEF Start
  <1>2. CASE Stop(s) \/ JoinRecv(s) \/ JoinTask(s) \/ Destroy(s)
    BY <1>2 DEF Stop, JoinRecv, JoinTask, Destroy
  <1>3. CASE UNCHANGED main
    BY <1>3
  <1> QED
    BY <1>1, <1>2, <1>3
       DEF SourceNext, MainThread, RecvThread, TaskThread, Send, Subscribe,
           RecvRequest, RecvExit, TakeGet, GetReady, GetTimeout, GetTest,
           SendData, StoreData, TakeDel, TakeRecover, RecoverNext, TaskExit,
           LingerExpire, source

(* Then a request is served by a source that runs. *)
LEMMA ServedRunning ==
    ASSUME Unstopped, Ownership, NEW s \in Sources, taskPc[s] # "off"
    PROVE  Running(s)
  BY DEF Unstopped, Ownership, OwnershipOf, Phases, Running

(* The sink a GET found for a message stays the message's sink. *)
LEMMA DestStep ==
    ASSUME TypeInv, Ownership, Untaken, NEW s \in Sources, SourceNext(s)
    PROVE  /\ Untaken'
           /\ \A m \in Msgs : dest[m] # NoSink => dest'[m] = dest[m]
  <1> USE DEF TypeInv, SourceTypeOK
  <1>1. OwnershipOf(s)
    BY DEF Ownership
  <1>2. ASSUME NEW n \in Msgs, Send(s, n)
        PROVE  Untaken' /\ UNCHANGED dest
    <2>1. ready[s] \in Seq(Msgs)
      OBVIOUS
    <2>2. ToSet(Append(ready[s], n)) = ToSet(ready[s]) \cup {n}
      BY <2>1, ToSetAppend
    <2>3. dest[n] = NoSink
      BY <1>2 DEF Send, Untaken
    <2>4. ASSUME NEW m \in Msgs, dest[m] # NoSink
          PROVE  m \in offered' /\ m \notin ToSet(ready'[Origin[m]])
      <3>1. m # n /\ m \in offered /\ m \notin ToSet(ready[Origin[m]])
        BY <2>3, <2>4 DEF Untaken
      <3>2. offered' = offered \cup {n} /\ ready' = [ready EXCEPT ![s] = Append(@, n)]
        BY <1>2 DEF Send
      <3>3. CASE Origin[m] = s
        BY <2>2, <3>1, <3>2, <3>3
      <3>4. CASE Origin[m] # s
        BY <3>1, <3>2, <3>4, ChannelsAssumption
      <3> QED
        BY <3>3, <3>4
    <2>5. UNCHANGED dest
      BY <1>2 DEF Send
    <2> QED
      BY <2>4, <2>5 DEF Untaken
  <1>3. CASE GetReady(s)
    <2> DEFINE n == Head(ready[s])
    <2>1. /\ ready' = [ready EXCEPT ![s] = Tail(@)]
          /\ dest' = [dest EXCEPT ![n] = client[s]]
          /\ ready[s] \in Seq(Msgs) /\ ready[s] # <<>>
          /\ UNCHANGED offered
      BY <1>3 DEF GetReady
    <2>2. /\ n \in Msgs
          /\ ToSet(ready[s]) = {n} \cup ToSet(Tail(ready[s]))
      BY <2>1, ToSetTail
    <2>3. n \notin ToSet(Tail(ready[s]))
      BY <1>1, <2>1, InjectiveTail DEF OwnershipOf, Queued
    <2>4. n \in offered /\ Origin[n] = s
      <3>1. Alive(s) /\ n \in Waiting(s)
        BY <1>3, <2>2 DEF GetReady, Alive, Waiting
      <3>2. n \in Given(s)
        BY <1>1, <3>1 DEF OwnershipOf, Tracked
      <3> QED
        BY <3>2 DEF Given
    <2> HIDE DEF n
    <2>5. dest[n] = NoSink
      BY <2>2, <2>4 DEF Untaken
    <2>6. ASSUME NEW m \in Msgs, dest'[m] # NoSink
          PROVE  m \in offered' /\ m \notin ToSet(ready'[Origin[m]])
      <3>1. CASE m = n
        BY <2>1, <2>3, <2>4, <3>1
      <3>2. CASE m # n
        <4>1. m \in offered /\ m \notin ToSet(ready[Origin[m]])
          BY <2>1, <2>6, <3>2 DEF Untaken
        <4>2. CASE Origin[m] = s
          BY <2>1, <2>2, <4>1, <4>2
        <4>3. CASE Origin[m] # s
          BY <2>1, <4>1, <4>3, ChannelsAssumption
        <4> QED
          BY <4>2, <4>3
      <3> QED
        BY <3>1, <3>2
    <2> QED
      BY <2>1, <2>5, <2>6 DEF Untaken
  <1>4. CASE Destroy(s)
    <2>1. /\ ready' = [ready EXCEPT ![s] = <<>>]
          /\ UNCHANGED <<offered, dest>>
      BY <1>4 DEF Destroy
    <2>2. \A r \in Sources : ToSet(ready'[r]) \subseteq ToSet(ready[r])
      BY <2>1, ToSetEmpty
    <2> QED
      BY <2>1, <2>2, ChannelsAssumption DEF Untaken
  <1>5. CASE UNCHANGED <<ready, offered, dest>>
    BY <1>5 DEF Untaken
  <1> QED
    BY <1>2, <1>3, <1>4, <1>5
       DEF SourceNext, MainThread, RecvThread, TaskThread, Start, Stop,
           JoinRecv, JoinTask, Subscribe, RecvRequest, RecvExit, TakeGet,
           GetTimeout, GetTest, SendData, StoreData, TakeDel, TakeRecover,
           RecoverNext, TaskExit, LingerExpire, source

(* A source sends to a sink only what is for it. *)
LEMMA RoutedSource ==
    ASSUME PassTypeInv, Ownership, Unstopped, Untaken, Routed,
           NEW s \in Sources, SourceStep(s)
    PROVE  Routed'
  <1> USE DEF PassTypeInv
  <1>1. \A m \in Msgs : dest[m] # NoSink => dest'[m] = dest[m]
    BY DestStep DEF SourceStep
  <1>2. SUFFICES ASSUME NEW k \in Sinks, NEW m \in Msgs, m \in Beyond(k)'
                 PROVE  dest[m] = k
    BY <1>1, RequestMessageAssumption DEF Routed, Beyond
  <1>3. CASE m \in Beyond(k)
    BY <1>3 DEF Routed
  <1>4. ASSUME NEW r \in Sources, m \in ToSet(pipe'[r][k]), m \notin Beyond(k)
        PROVE  dest[m] = k
    <2>1. m \notin ToSet(pipe[r][k])
      BY <1>4 DEF Beyond
    <2>2. k = client[s] /\ m \in Outgoing(s)
      BY <1>4, <2>1, SourceToPipe DEF SourceStep
    <2>3. Running(s)
      BY <2>2, ServedRunning DEF Outgoing
    <2> QED
      BY <2>2, <2>3, OutgoingOwned
  <1> QED
    BY <1>2, <1>3, <1>4 DEF SourceStep, sink, Beyond

(* Whatever a sink does with its pipes and queues, nothing new gets there. *)
LEMMA BeyondSink ==
    ASSUME PassTypeInv, NEW k \in Sinks, SinkNext(k), NEW j \in Sinks
    PROVE  Beyond(j)' \subseteq Beyond(j)
  <1> USE DEF PassTypeInv, TypeInv, SinkTypeOK
  <1>0. \A s \in Sources : ToSet(pipe'[s][j]) \subseteq ToSet(pipe[s][j])
    BY SinkToPipe
  <1>1. CASE UNCHANGED <<queue, orphan, got>>
    BY <1>0, <1>1 DEF Beyond
  <1>2. CASE ProcessEnds(k)
    <2>1. \A s \in Sources : ToSet(queue'[j][s]) \subseteq ToSet(queue[j][s])
      BY <1>2, ToSetEmpty DEF ProcessEnds, Empty
    <2>2. orphan'[j] \subseteq orphan[j] /\ got'[j] \subseteq got[j]
      BY <1>2 DEF ProcessEnds
    <2> QED
      BY <1>0, <2>1, <2>2 DEF Beyond
  <1>3. CASE JoinSink(k)
    <2>1. UNCHANGED <<queue, got>> /\ orphan'[j] \subseteq orphan[j]
      BY <1>3 DEF JoinSink
    <2> QED
      BY <1>0, <2>1 DEF Beyond
  <1>4. ASSUME NEW s \in Sources, GetMsg(k, s)
        PROVE  Beyond(j)' \subseteq Beyond(j)
    <2>1. CASE UNCHANGED <<queue, got>>
      BY <1>0, <1>4, <2>1 DEF GetMsg, Beyond
    <2>2. CASE /\ queue[k][s] # <<>>
               /\ got' = [got EXCEPT ![k] = @ \cup {Head(queue[k][s])}]
               /\ queue' = [queue EXCEPT ![k][s] = Tail(@)]
      <3>1. /\ Head(queue[k][s]) \in ToSet(queue[k][s])
            /\ ToSet(Tail(queue[k][s])) \subseteq ToSet(queue[k][s])
        BY <2>2, ToSetTail
      <3>2. \A r \in Sources : ToSet(queue'[j][r]) \subseteq ToSet(queue[j][r])
        BY <2>2, <3>1
      <3>3. got'[j] \subseteq got[j] \cup (IF j = k THEN ToSet(queue[k][s]) ELSE {})
        BY <2>2, <3>1
      <3> QED
        BY <1>0, <1>4, <3>2, <3>3 DEF GetMsg, Beyond
    <2> QED
      BY <1>4, <2>1, <2>2 DEF GetMsg
  <1>5. ASSUME NEW s \in Sources, Receive(k, s)
        PROVE  Beyond(j)' \subseteq Beyond(j)
    <2> DEFINE m == Head(pipe[s][k])
    <2>1. m \in ToSet(pipe[s][k]) /\ m \in Msgs
      <3>1. pipe[s][k] \in Seq(Msgs) /\ pipe[s][k] # <<>>
        BY <1>5 DEF Receive, ChannelsTypeOK
      <3> QED
        BY <3>1, ToSetTail
    <2>2. /\ \/ queue' = [queue EXCEPT ![k][s] = Append(@, m)]
             \/ queue' = queue
          /\ orphan' = [orphan EXCEPT ![k] = @ \cup {m}] \/ orphan' = orphan
          /\ got' = got
      BY <1>5 DEF Receive
    <2>3. ToSet(Append(queue[k][s], m)) = ToSet(queue[k][s]) \cup {m}
      <3>1. queue[k][s] \in Seq(Msgs)
        OBVIOUS
      <3> QED
        BY <2>1, <3>1, ToSetAppend
    <2> HIDE DEF m
    <2>4. ASSUME NEW r \in Sources, NEW n \in ToSet(queue'[j][r])
          PROVE  n \in ToSet(queue[j][r]) \/ (j = k /\ n = m)
      <3>1. CASE queue' = [queue EXCEPT ![k][s] = Append(@, m)]
        <4>1. CASE j = k /\ r = s
          <5>1. queue'[j][r] = Append(queue[k][s], m)
            BY <3>1, <4>1
          <5> QED
            BY <2>3, <2>4, <4>1, <5>1
        <4>2. CASE ~(j = k /\ r = s)
          <5>1. queue'[j][r] = queue[j][r]
            BY <3>1, <4>2
          <5> QED
            BY <2>4, <5>1
        <4> QED
          BY <4>1, <4>2
      <3>2. CASE queue' = queue
        BY <2>4, <3>2
      <3> QED
        BY <2>2, <3>1, <3>2
    <2>5. ASSUME NEW n \in orphan'[j]
          PROVE  n \in orphan[j] \/ (j = k /\ n = m)
      BY <2>2, <2>5
    <2> QED
      BY <1>0, <2>1, <2>2, <2>4, <2>5 DEF Beyond
  <1> QED
    BY <1>1, <1>2, <1>3, <1>4, <1>5
       DEF SinkNext, RecvMessageThread, SinkStart, SinkRestart, SendGet,
           SendRecover, SendDel, SendRequest, GetMsgRace, SinkStop,
           SinkDestroy, Crash, CopyQueues, BindSocket, BindFails, ReceiveNull,
           RecvMsgExit, Transmit

-----------------------------------------------------------------------------
(* Deleted on request *)

(* The requests s has yet to serve. *)
Unserved(s) == {Decode(p) : p \in ToSet(kafka[s])} \cup ToSet(requests[s])

(* A DEL is for a message its sink was given. *)
AskedFor(r) ==
    r.cmd = "DEL" => \E m \in Msgs : KeyOf[m] = r.key /\ <<r.sink, m>> \in asked

(* So is every DEL, from the queue of the producer to that of the source. *)
Requested ==
    /\ \A s \in Sources : \A r \in Unserved(s) : AskedFor(r)
    /\ \A k \in Sinks : \A r \in ToSet(outq[k]) : AskedFor(r)

(* A source serves requests, and makes none. *)
LEMMA UnservedSource ==
    ASSUME TypeInv, NEW s \in Sources, SourceNext(s), NEW t \in Sources
    PROVE  Unserved(t)' \subseteq Unserved(t)
  <1> USE DEF TypeInv, SourceTypeOK, ChannelsTypeOK
  <1>1. CASE RecvRequest(s)
    <2>1. PICK i \in DOMAIN kafka[s] :
              /\ Consume(s, i)
              /\ \/ requests' = [requests EXCEPT
                                    ![s] = Append(@, Decode(kafka[s][i]))]
                 \/ UNCHANGED requests
      BY <1>1 DEF RecvRequest
    <2> DEFINE p == kafka[s][i]
    <2>2. p \in ToSet(kafka[s])
      BY DEF ToSet
    <2>3. ToSet(RemoveAt(kafka[s], i)) \subseteq ToSet(kafka[s])
      BY RemoveAtPart
    <2>4. Decode(p) \in Request
      BY <2>1, ConsumeType
    <2>5. ToSet(Append(requests[s], Decode(p))) = ToSet(requests[s]) \cup {Decode(p)}
      <3>1. requests[s] \in Seq(Request)
        OBVIOUS
      <3> QED
        BY <2>4, <3>1, ToSetAppend
    <2>6. kafka' = [kafka EXCEPT ![s] = RemoveAt(@, i)]
      BY <2>1 DEF Consume
    <2> HIDE DEF p
    <2>7. ToSet(kafka'[t]) \subseteq ToSet(kafka[t])
      BY <2>3, <2>6
    <2>8. CASE requests' = requests
      BY <2>7, <2>8 DEF Unserved
    <2>9. CASE requests' = [requests EXCEPT ![s] = Append(@, Decode(p))]
      <3>1. CASE t = s
        <4>1. ToSet(requests'[t]) = ToSet(requests[t]) \cup {Decode(p)}
          BY <2>5, <2>9, <3>1
        <4> QED
          BY <2>2, <2>7, <3>1, <4>1 DEF Unserved
      <3>2. CASE t # s
        <4>1. requests'[t] = requests[t]
          BY <2>9, <3>2
        <4> QED
          BY <2>7, <4>1 DEF Unserved
      <3> QED
        BY <3>1, <3>2
    <2> QED
      BY <2>1, <2>8, <2>9 DEF p
  <1>2. ASSUME NEW cmd, TakeRequest(s, cmd), UNCHANGED kafka
        PROVE  Unserved(t)' \subseteq Unserved(t)
    <2>1. ToSet(Tail(requests[s])) \subseteq ToSet(requests[s])
      <3>1. requests[s] \in Seq(Request) /\ requests[s] # <<>>
        BY <1>2 DEF TakeRequest
      <3> QED
        BY <3>1, ToSetTail
    <2>2. requests' = [requests EXCEPT ![s] = Tail(@)]
      BY <1>2 DEF TakeRequest
    <2>3. ToSet(requests'[t]) \subseteq ToSet(requests[t])
      BY <2>1, <2>2
    <2> QED
      BY <1>2, <2>3 DEF Unserved
  <1>3. CASE TakeGet(s) \/ TakeDel(s) \/ TakeRecover(s)
    BY <1>2, <1>3 DEF TakeGet, TakeDel, TakeRecover, channels
  <1>4. CASE Destroy(s)
    <2>1. ToSet(requests'[t]) \subseteq ToSet(requests[t])
      BY <1>4, ToSetEmpty DEF Destroy
    <2> QED
      BY <1>4, <2>1 DEF Destroy, channels, Unserved
  <1>5. CASE UNCHANGED <<kafka, requests>>
    BY <1>5 DEF Unserved
  <1> QED
    BY <1>1, <1>3, <1>4, <1>5
       DEF SourceNext, MainThread, RecvThread, TaskThread, Send, Start, Stop,
           JoinRecv, JoinTask, Subscribe, RecvExit, GetReady, GetTimeout,
           GetTest, SendData, StoreData, RecoverNext, TaskExit, LingerExpire,
           source, channels

(* What enters the topics comes out as it was. *)
LEMMA UnservedProduce ==
    ASSUME TypeInv, NEW r \in Request, Produce(r), UNCHANGED requests,
           NEW t \in Sources
    PROVE  Unserved(t)' \subseteq Unserved(t) \cup {r}
  <1>1. PICK n \in Copies :
            kafka' = [s \in Sources |-> IF s \in subscribed
                                          THEN kafka[s] \o [i \in 1..n |-> Encode(r)]
                                          ELSE kafka[s]]
    BY DEF Produce
  <1> DEFINE copies == [i \in 1..n |-> Encode(r)]
  <1>2. n \in Nat
    BY DEF Copies
  <1>3. copies \in Seq(Payload) /\ ToSet(copies) \subseteq {Encode(r)}
    BY <1>2, EncodeType DEF ToSet
  <1>4. kafka[t] \in Seq(Payload)
    BY DEF TypeInv, ChannelsTypeOK
  <1>5. kafka'[t] \in {kafka[t] \o copies, kafka[t]}
    BY <1>1
  <1> HIDE DEF copies
  <1>6. ToSet(kafka'[t]) \subseteq ToSet(kafka[t]) \cup {Encode(r)}
    BY <1>3, <1>4, <1>5, ToSetConcat
  <1>7. Decode(Encode(r)) = r
    BY RequestSurvives
  <1> QED
    BY <1>6, <1>7 DEF Unserved

(* A sink sends a DEL only for what its application was given. *)
LEMMA RequestedSink ==
    ASSUME PassTypeInv, Requested, NEW k \in Sinks, SinkStep(k)
    PROVE  Requested' /\ asked \subseteq asked'
  <1> USE DEF PassTypeInv
  <1>1. UNCHANGED requests
    BY DEF SinkStep, source
  <1>2. outq \in [Sinks -> Seq(Request)]
    BY DEF SinkTypeOK
  <1>3. ASSUME asked \subseteq asked', UNCHANGED kafka,
               \A j \in Sinks : \A r \in ToSet(outq'[j]) :
                   r \in ToSet(outq[j]) \/ AskedFor(r)'
        PROVE  Requested'
    <2>1. \A t \in Sources : Unserved(t)' = Unserved(t)
      BY <1>1, <1>3 DEF Unserved
    <2>2. \A r : AskedFor(r) => AskedFor(r)'
      BY <1>3 DEF AskedFor
    <2>3. \A t \in Sources : \A r \in Unserved(t)' : AskedFor(r)'
      BY <2>1, <2>2 DEF Requested
    <2>4. \A j \in Sinks : \A r \in ToSet(outq'[j]) : AskedFor(r)'
      BY <1>3, <2>2 DEF Requested
    <2> QED
      BY <2>3, <2>4 DEF Requested
  <1>4. ASSUME NEW r \in Request, Enqueue(k, r), AskedFor(r)',
               asked \subseteq asked', UNCHANGED kafka
        PROVE  Requested'
    <2>1. ToSet(Append(outq[k], r)) = ToSet(outq[k]) \cup {r}
      BY <1>2, ToSetAppend
    <2>2. \A j \in Sinks : \A x \in ToSet(outq'[j]) : x \in ToSet(outq[j]) \/ x = r
      BY <1>2, <1>4, <2>1 DEF Enqueue
    <2>3. \A j \in Sinks : \A x \in ToSet(outq'[j]) :
              x \in ToSet(outq[j]) \/ AskedFor(x)'
      BY <1>4, <2>2
    <2> QED
      BY <1>3, <1>4, <2>3
  <1>5. ASSUME NEW r \in {Get(k), Recover(k)} PROVE r \in Request /\ AskedFor(r)'
    <2>1. r \in Request
      BY <1>5, RequestTypes
    <2>2. r.cmd # "DEL"
      BY <1>5 DEF Get, Recover
    <2> QED
      BY <2>1, <2>2 DEF AskedFor
  <1>6. CASE SinkStart(k) \/ SinkRestart(k) \/ SendGet(k) \/ SendRecover(k)
    BY <1>4, <1>5, <1>6
       DEF SinkStart, SinkRestart, SendGet, SendRecover, SendRequest, channels
  <1>7. ASSUME NEW m \in Msgs, SendDel(k, m)
        PROVE  Requested' /\ asked \subseteq asked'
    <2>1. Del(k, KeyOf[m]) \in Request
      BY RequestTypes, ChannelsAssumption
    <2>2. AskedFor(Del(k, KeyOf[m]))'
      BY <1>7 DEF SendDel, AskedFor, Del
    <2> QED
      BY <1>4, <1>7, <2>1, <2>2 DEF SendDel, SendRequest, channels
  <1>8. CASE Transmit(k)
    <2> DEFINE r == Head(outq[k])
    <2>1. r \in Request /\ ToSet(outq[k]) = {r} \cup ToSet(Tail(outq[k]))
      BY <1>2, <1>8, ToSetTail DEF Transmit
    <2>2. UNCHANGED asked /\ outq' = [outq EXCEPT ![k] = Tail(@)]
      BY <1>8 DEF Transmit
    <2>3. \A j \in Sinks : ToSet(outq'[j]) \subseteq ToSet(outq[j])
      BY <1>2, <2>1, <2>2
    <2>4. \A t \in Sources : Unserved(t)' \subseteq Unserved(t) \cup {r}
      <3>1. CASE Produce(r)
        BY <1>1, <2>1, <3>1, UnservedProduce
      <3>2. CASE UNCHANGED kafka
        BY <1>1, <3>2 DEF Unserved
      <3> QED
        BY <1>8, <3>1, <3>2 DEF Transmit
    <2>5. AskedFor(r)
      BY <2>1 DEF Requested
    <2> HIDE DEF r
    <2> QED
      BY <2>2, <2>3, <2>4, <2>5 DEF Requested, AskedFor
  <1>9. CASE ProcessEnds(k) /\ UNCHANGED <<kafka, asked>>
    <2>1. \A j \in Sinks : ToSet(outq'[j]) \subseteq ToSet(outq[j])
      BY <1>2, <1>9, ToSetEmpty DEF ProcessEnds
    <2> QED
      BY <1>3, <1>9, <2>1
  <1>10. CASE UNCHANGED <<kafka, asked, producer>>
    BY <1>1, <1>10 DEF producer, Requested, Unserved, AskedFor
  <1> QED
    BY <1>6, <1>7, <1>8, <1>9, <1>10
       DEF SinkStep, SinkNext, RecvMessageThread, GetMsg, GetMsgRace, SinkStop,
           JoinSink, SinkDestroy, Crash, CopyQueues, BindSocket, BindFails,
           Receive, ReceiveNull, RecvMsgExit, channels

(* What delete_msg finds is the one message the sink asked to be deleted. *)
LEMMA FoundAsked ==
    ASSUME AllKeysDistinct, TypeInv, Ownership, Requested,
           NEW s \in Sources, TakeDel(s),
           NEW m \in Found(s, Head(requests[s]))
    PROVE  /\ <<dest[m], m>> \in asked
           /\ m \in Stored(s)
           /\ Found(s, Head(requests[s])) = {m}
  <1> DEFINE r == Head(requests[s])
  <1> USE DEF TypeInv, SourceTypeOK
  <1>1. r \in ToSet(requests[s]) /\ r \in Request /\ r.cmd = "DEL"
    <2>1. requests[s] \in Seq(Request) /\ requests[s] # <<>>
      BY DEF TakeDel, TakeRequest
    <2> QED
      BY <2>1, ToSetTail DEF TakeDel, TakeRequest
  <1>2. r.sink \in Sinks
    BY <1>1 DEF Request
  <1>3. PICK n \in Msgs : KeyOf[n] = r.key /\ <<r.sink, n>> \in asked
    BY <1>1 DEF Requested, Unserved, AskedFor
  <1>4. m \in sents[s][r.sink] /\ m \in Msgs
    BY <1>2 DEF Found
  <1>5. \A x \in Found(s, r) : x = n
    BY <1>2, <1>3 DEF Found, AllKeysDistinct
  <1>6. dest[m] = r.sink
    BY <1>2, <1>4 DEF Ownership, OwnershipOf, Kind, TakeDel, TakeRequest
  <1> QED
    BY <1>2, <1>3, <1>4, <1>5, <1>6 DEF Stored

(* delete_msg is the only deletion in a source that is not stopped. *)
LEMMA DeletedSource ==
    ASSUME NeverStopped, AllKeysDistinct, PassTypeInv, Ownership, Unstopped,
           Untaken, Requested, DeletedOnRequest, asked \subseteq Sinks \X Msgs,
           NEW s \in Sources, SourceStep(s)
    PROVE  DeletedOnRequest'
  <1>1. TypeInv /\ SourceNext(s) /\ UNCHANGED asked /\ freed \subseteq Msgs
    BY DEF PassTypeInv, TypeInv, SourceTypeOK, SourceStep, sink
  <1>2. \A m \in Msgs : dest[m] # NoSink => dest'[m] = dest[m]
    BY <1>1, DestStep
  <1>3. CASE UNCHANGED freed
    BY <1>1, <1>2, <1>3 DEF DeletedOnRequest
  <1>4. CASE TakeDel(s)
    <2>1. /\ freed' = freed \cup Found(s, Head(requests[s]))
          /\ UNCHANGED dest
      BY <1>4 DEF TakeDel
    <2>2. ASSUME NEW m \in Found(s, Head(requests[s]))
          PROVE  <<dest[m], m>> \in asked /\ dest[m] # NoSink
      <3>1. <<dest[m], m>> \in asked
        BY <1>1, <1>4, FoundAsked
      <3> QED
        BY <3>1, RequestMessageAssumption
    <2> QED
      BY <1>1, <2>1, <2>2 DEF DeletedOnRequest
  <1>5. CASE Destroy(s)
    BY <1>5 DEF Destroy, NeverStopped
  <1>6. CASE TaskExit(s)
    <2>1. Running(s)
      BY <1>6, ServedRunning DEF TaskExit
    <2> QED
      BY <1>6, <2>1 DEF TaskExit
  <1> QED
    BY <1>1, <1>3, <1>4, <1>5, <1>6
       DEF SourceNext, MainThread, RecvThread, TaskThread, Send, Start, Stop,
           JoinRecv, JoinTask, Subscribe, RecvRequest, RecvExit, TakeGet,
           GetReady, GetTimeout, GetTest, SendData, StoreData, TakeRecover,
           RecoverNext, LingerExpire, source

(* The invariant of a message pass whose sources are not stopped. *)
DaqInv == PassInv /\ Unstopped /\ Untaken /\ Routed /\ Requested /\ DeletedOnRequest

(* Every step of the message pass preserves it. *)
LEMMA DaqInvStep ==
    ASSUME NeverStopped, AllKeysDistinct, DaqInv, PassInv', [Next]_vars
    PROVE  DaqInv'
  <1> USE DEF DaqInv
  <1>1. PassTypeInv /\ TypeInv /\ Ownership /\ asked \subseteq Sinks \X Msgs
    BY DEF PassInv, PassTypeInv, SinkTypeOK
  <1>2. ASSUME NEW s \in Sources, SourceStep(s) PROVE DaqInv'
    <2>1. Unstopped' /\ Untaken'
      BY <1>1, <1>2, UnstoppedStep, DestStep DEF SourceStep
    <2>2. Routed'
      BY <1>1, <1>2, RoutedSource
    <2>3. Requested'
      BY <1>1, <1>2, UnservedSource
         DEF SourceStep, sink, producer, Requested, AskedFor
    <2>4. DeletedOnRequest'
      BY <1>1, <1>2, DeletedSource
    <2> QED
      BY <2>1, <2>2, <2>3, <2>4
  <1>3. ASSUME NEW k \in Sinks, SinkStep(k) PROVE DaqInv'
    <2>1. UNCHANGED <<main, ready, offered, dest, freed>>
      BY <1>3 DEF SinkStep, source
    <2>2. Unstopped' /\ Untaken'
      BY <2>1 DEF Unstopped, Untaken
    <2>3. Routed'
      BY <1>1, <1>3, <2>1, BeyondSink DEF SinkStep, Routed
    <2>4. Requested' /\ asked \subseteq asked'
      BY <1>1, <1>3, RequestedSink
    <2>5. DeletedOnRequest'
      BY <2>1, <2>4 DEF DeletedOnRequest
    <2> QED
      BY <2>2, <2>3, <2>4, <2>5
  <1>4. CASE UNCHANGED vars
    BY <1>4 DEF vars, source, sink, producer, channels, Unstopped, Untaken, Routed, Beyond,
                Requested, Unserved, AskedFor, DeletedOnRequest
  <1> QED
    BY <1>2, <1>3, <1>4 DEF Next

(* It holds in every reachable state. *)
LEMMA DaqInvariant ==
    ASSUME NeverStopped, AllKeysDistinct
    PROVE  SafetySpec => []DaqInv
  <1>1. Init /\ PassInv => DaqInv
    <2>1. Init => Unstopped /\ Untaken
      BY DEF Init, SourceInit, Unstopped, Untaken
    <2>2. Init => Routed
      BY ToSetEmpty
         DEF Init, ChannelsInit, SinkInit, Empty, Routed, Beyond
    <2>3. Init => Requested
      BY ToSetEmpty
         DEF Init, ChannelsInit, SourceInit, SinkInit, Requested, Unserved
    <2>4. Init => DeletedOnRequest
      BY DEF Init, SourceInit, DeletedOnRequest
    <2> QED
      BY <2>1, <2>2, <2>3, <2>4 DEF DaqInv
  <1>2. DaqInv /\ PassInv' /\ [Next]_vars => DaqInv'
    BY DaqInvStep
  <1>3. KeysDistinct
    BY DEF AllKeysDistinct, KeysDistinct
  <1>4. SafetySpec => []PassInv
    BY <1>3, PassInvariant
  <1> QED
    BY <1>1, <1>2, <1>4, PTL DEF SafetySpec

(* However requests are lost, duplicated and reordered, and however often  *)
(* sinks crash and start again: no source deletes a message that its sink, *)
(* having been given it, has not asked to be deleted.                      *)
THEOREM PassDeletedOnRequest ==
    ASSUME NeverStopped, AllKeysDistinct
    PROVE  SafetySpec => []DeletedOnRequest
  <1>1. DaqInv => DeletedOnRequest
    BY DEF DaqInv
  <1> QED
    BY <1>1, DaqInvariant, PTL

(* And no message is on its way to a sink, or with one, whose GET it did   *)
(* not answer.                                                             *)
THEOREM PassForItsSink ==
    ASSUME NeverStopped, AllKeysDistinct
    PROVE  SafetySpec => []ForItsSink
  <1>1. DaqInv => ForItsSink
    <2>1. SUFFICES ASSUME Routed, NEW m \in Msgs, NEW k \in Sinks,
                          \/ m \in ToSet(pipe[Origin[m]][k])
                          \/ m \in ToSet(queue[k][Origin[m]])
                          \/ m \in orphan[k] \/ m \in got[k]
                   PROVE  dest[m] = k
      BY DEF DaqInv, ForItsSink
    <2>2. Origin[m] \in Sources
      BY ChannelsAssumption
    <2>3. m \in Beyond(k)
      BY <2>1, <2>2 DEF Beyond
    <2> QED
      BY <2>1, <2>3 DEF Routed
  <1> QED
    BY <1>1, DaqInvariant, PTL

-----------------------------------------------------------------------------
(* The message pass is a DaqTransfer *)

(* How far each message has come: the mapping of TransferSpec. *)
Progress == [m \in Msgs |-> Status(m)]

(* The histories are those of messages; what is queued or kept is offered, *)
(* and is not deleted.                                                     *)
LEMMA StatusFacts ==
    ASSUME TypeInv, Ownership, NEW s \in Sources, Alive(s), NEW m \in Msgs,
           m \in Waiting(s) \cup Stored(s)
    PROVE  m \in offered /\ Origin[m] = s /\ m \notin freed
  <1>1. OwnershipOf(s)
    BY DEF Ownership
  <1>2. m \in Given(s) /\ m \notin freed
    BY <1>1 DEF OwnershipOf, Tracked, Live
  <1> QED
    BY <1>2 DEF Given

(* What is deleted was offered. *)
LEMMA FreedOffered ==
    ASSUME TypeInv, Ownership, Unstopped, NEW m \in freed
    PROVE  m \in offered
  <1>1. m \in Msgs /\ Origin[m] \in Sources
    BY ChannelsAssumption DEF TypeInv, SourceTypeOK
  <1>2. OwnershipOf(Origin[m]) /\ Alive(Origin[m])
    BY <1>1 DEF Ownership, OwnershipOf, Phases, Unstopped, Alive
  <1>3. m \in Given(Origin[m])
    BY <1>1, <1>2 DEF OwnershipOf, Tracked, Deleted
  <1> QED
    BY <1>3 DEF Given

(* A step after which everything is where it was is no step of the         *)
(* abstract specification.                                                 *)
LEMMA ProgressFrame ==
    ASSUME UNCHANGED <<ready, offered, freed>>
    PROVE  Progress' = Progress
  BY DEF Progress, Status, Waiting

(* send() offers a message. *)
LEMMA SendOffers ==
    ASSUME TypeInv, Ownership, Unstopped,
           NEW s \in Sources, NEW n \in Msgs, Send(s, n)
    PROVE  /\ Progress[n] = "unsent"
           /\ Progress' = [Progress EXCEPT ![n] = "waiting"]
  <1>1. /\ Origin[n] = s /\ n \notin offered
        /\ offered' = offered \cup {n}
        /\ ready' = [ready EXCEPT ![s] = Append(@, n)]
        /\ UNCHANGED freed
    BY DEF Send
  <1>2. n \notin freed
    BY <1>1, FreedOffered
  <1>3. ready[s] \in Seq(Msgs) /\ ready \in [Sources -> Seq(Msgs)]
    BY DEF TypeInv, SourceTypeOK
  <1>4. ToSet(Append(ready[s], n)) = ToSet(ready[s]) \cup {n}
    BY <1>3, ToSetAppend
  <1>5. Waiting(s)' = Waiting(s) \cup {n}
    BY <1>1, <1>3, <1>4 DEF Waiting
  <1>6. \A r \in Sources \ {s} : Waiting(r)' = Waiting(r)
    BY <1>1, <1>3 DEF Waiting
  <1>7. Status(n)' = "waiting" /\ Status(n) = "unsent"
    <2>1. n \in offered' /\ n \notin freed' /\ n \in Waiting(Origin[n])'
      BY <1>1, <1>2, <1>5
    <2>2. n \notin Waiting(Origin[n])
      BY <1>1, StatusFacts DEF Send
    <2> QED
      BY <1>1, <1>2, <2>1, <2>2 DEF Status
  <1>8. ASSUME NEW m \in Msgs, m # n PROVE Status(m)' = Status(m)
    <2>1. Origin[m] \in Sources
      BY ChannelsAssumption
    <2>2. m \in Waiting(Origin[m])' <=> m \in Waiting(Origin[m])
      BY <1>5, <1>6, <1>8, <2>1
    <2>3. /\ m \in offered' <=> m \in offered
          /\ m \in freed' <=> m \in freed
      BY <1>1, <1>8
    <2> QED
      BY <2>2, <2>3 DEF Status
  <1> QED
    BY <1>7, <1>8 DEF Progress

(* The GET of a sink takes the first message that waits. *)
LEMMA GetTakes ==
    ASSUME TypeInv, Ownership, NEW s \in Sources, GetReady(s)
    PROVE  LET n == Head(ready[s])
           IN  /\ n \in Msgs /\ client[s] \in Sinks
               /\ Progress[n] = "waiting"
               /\ Progress' = [Progress EXCEPT ![n] = "kept"]
               /\ dest' = [dest EXCEPT ![n] = client[s]]
  <1> USE DEF TypeInv, SourceTypeOK
  <1>1. /\ ready[s] \in Seq(Msgs) /\ ready[s] # <<>>
        /\ ready' = [ready EXCEPT ![s] = Tail(@)]
        /\ UNCHANGED <<offered, freed>>
        /\ Alive(s) /\ client[s] \in Sinks
    BY DEF GetReady, ServingOK, Alive
  <1>2. PICK n \in Msgs : n = Head(ready[s])
    BY <1>1, ToSetTail
  <1>3. ToSet(ready[s]) = {n} \cup ToSet(Tail(ready[s]))
    BY <1>1, <1>2, ToSetTail
  <1>4. n \notin ToSet(Tail(ready[s]))
    BY <1>1, <1>2, InjectiveTail DEF Ownership, OwnershipOf, Queued
  <1>5. n \in offered /\ Origin[n] = s /\ n \notin freed /\ n \in Waiting(s)
    BY <1>1, <1>3, StatusFacts DEF Waiting
  <1>6. dest' = [dest EXCEPT ![n] = client[s]]
    BY <1>2 DEF GetReady
  <1>7. Waiting(s)' = Waiting(s) \ {n}
    BY <1>1, <1>3, <1>4 DEF Waiting
  <1>8. \A r \in Sources \ {s} : Waiting(r)' = Waiting(r)
    BY <1>1 DEF Waiting
  <1>9. Status(n) = "waiting" /\ Status(n)' = "kept"
    <2>1. n \in Waiting(Origin[n]) /\ n \notin Waiting(Origin[n])'
      BY <1>5, <1>7
    <2> QED
      BY <1>1, <1>5, <2>1 DEF Status
  <1>10. ASSUME NEW m \in Msgs, m # n PROVE Status(m)' = Status(m)
    <2>1. Origin[m] \in Sources
      BY ChannelsAssumption
    <2>2. m \in Waiting(Origin[m])' <=> m \in Waiting(Origin[m])
      BY <1>7, <1>8, <1>10, <2>1
    <2> QED
      BY <1>1, <2>2 DEF Status
  <1>11. /\ Progress[n] = "waiting"
         /\ Progress' = [Progress EXCEPT ![n] = "kept"]
    BY <1>9, <1>10 DEF Progress
  <1> QED
    BY <1>1, <1>2, <1>6, <1>11

(* A DEL that finds its message deletes it and nothing else. *)
LEMMA DelDeletes ==
    ASSUME AllKeysDistinct, TypeInv, Ownership, Requested,
           NEW s \in Sources, TakeDel(s),
           NEW n \in Found(s, Head(requests[s]))
    PROVE  /\ n \in Msgs /\ <<dest[n], n>> \in asked
           /\ Progress[n] = "kept"
           /\ Progress' = [Progress EXCEPT ![n] = "deleted"]
  <1>1. /\ <<dest[n], n>> \in asked
        /\ n \in Stored(s)
        /\ Found(s, Head(requests[s])) = {n}
    BY FoundAsked
  <1>2. n \in Msgs
    BY <1>1 DEF Stored, TypeInv, SourceTypeOK
  <1>3. /\ freed' = freed \cup {n}
        /\ UNCHANGED <<ready, offered>>
        /\ Alive(s)
    BY <1>1 DEF TakeDel, TakeRequest, Alive
  <1>4. n \in offered /\ Origin[n] = s /\ n \notin freed
    BY <1>1, <1>2, <1>3, StatusFacts
  <1>5. n \notin Waiting(s)
    BY <1>1 DEF Ownership, OwnershipOf, Queued
  <1>6. Status(n) = "kept" /\ Status(n)' = "deleted"
    BY <1>3, <1>4, <1>5 DEF Status, Waiting
  <1>7. ASSUME NEW m \in Msgs, m # n PROVE Status(m)' = Status(m)
    BY <1>3, <1>7 DEF Status, Waiting
  <1> QED
    BY <1>1, <1>2, <1>6, <1>7 DEF Progress

(* A step of a source is a step of the abstract specification or none. *)
LEMMA SourceTransfers ==
    ASSUME NeverStopped, AllKeysDistinct, DaqInv, NEW s \in Sources,
           SourceStep(s)
    PROVE  Transfer!Next \/ UNCHANGED <<Progress, dest, got, asked>>
  <1>1. /\ TypeInv /\ Ownership /\ Unstopped /\ Requested
        /\ SourceNext(s) /\ UNCHANGED <<got, asked>>
    BY DEF DaqInv, PassInv, PassTypeInv, SourceStep, sink
  <1>2. ASSUME NEW n \in Msgs, Send(s, n) PROVE Transfer!Offer(n)
    BY <1>1, <1>2, SendOffers DEF Transfer!Offer, Progress, Send
  <1>3. CASE GetReady(s)
    <2>1. Transfer!Take(client[s], Head(ready[s]))
      BY <1>1, <1>3, GetTakes DEF Transfer!Take, Progress
    <2> QED
      BY <1>1, <1>3, <2>1, GetTakes DEF Transfer!Next
  <1>4. CASE TakeDel(s)
    <2>1. CASE Found(s, Head(requests[s])) = {}
      <3>1. UNCHANGED <<ready, offered, freed, dest>>
        BY <1>4, <2>1 DEF TakeDel
      <3> QED
        BY <1>1, <3>1, ProgressFrame
    <2>2. ASSUME NEW n \in Found(s, Head(requests[s]))
          PROVE  n \in Msgs /\ Transfer!Delete(n)
      <3>1. UNCHANGED dest
        BY <1>4 DEF TakeDel
      <3> QED
        BY <1>1, <1>4, <3>1, DelDeletes DEF Transfer!Delete, Progress
    <2> QED
      BY <2>1, <2>2 DEF Transfer!Next
  <1>5. ~Destroy(s)
    BY DEF Destroy, NeverStopped
  <1>6. ~TaskExit(s)
    BY <1>1, ServedRunning DEF TaskExit
  <1>7. CASE UNCHANGED <<ready, offered, freed, dest>>
    BY <1>1, <1>7, ProgressFrame
  <1>8. CASE \E n \in Msgs : Send(s, n)
    BY <1>2, <1>8 DEF Transfer!Next
  <1> QED
    BY <1>1, <1>3, <1>4, <1>5, <1>6, <1>7, <1>8
       DEF SourceNext, MainThread, RecvThread, TaskThread, Start, Stop,
           JoinRecv, JoinTask, Subscribe, RecvRequest, RecvExit, TakeGet,
           GetTimeout, GetTest, SendData, StoreData, TakeRecover, RecoverNext,
           LingerExpire, source

(* So is a step of a sink. *)
LEMMA SinkTransfers ==
    ASSUME DaqInv, NEW k \in Sinks, SinkStep(k)
    PROVE  Transfer!Next \/ UNCHANGED <<Progress, dest, got, asked>>
  <1>1. PassTypeInv /\ Routed /\ SinkNext(k)
    BY DEF DaqInv, PassInv, SinkStep
  <1>2. Progress' = Progress /\ dest' = dest
    <2>1. UNCHANGED <<ready, offered, freed, dest>>
      BY DEF SinkStep, source
    <2> QED
      BY <2>1, ProgressFrame
  <1>3. ASSUME NEW m \in Msgs, SendDel(k, m) PROVE Transfer!Next
    <2>1. Transfer!Ask(k, m)
      BY <1>2, <1>3
         DEF SendDel, SendRequest, Transfer!Ask, Progress
    <2> QED
      BY <2>1 DEF Transfer!Next
  <1>4. ASSUME NEW s \in Sources, GetMsg(k, s)
        PROVE  Transfer!Next \/ UNCHANGED <<got, asked>>
    <2> DEFINE m == Head(queue[k][s])
    <2>1. UNCHANGED asked
      BY <1>4 DEF GetMsg
    <2>2. CASE /\ queue[k][s] # <<>>
               /\ got' = [got EXCEPT ![k] = @ \cup {m}]
      <3>1. queue[k][s] \in Seq(Msgs)
        BY <1>1 DEF PassTypeInv, SinkTypeOK
      <3>2. m \in ToSet(queue[k][s]) /\ m \in Msgs
        BY <2>2, <3>1, ToSetTail
      <3>3. dest[m] = k
        BY <1>1, <3>2 DEF Routed, Beyond
      <3>4. Transfer!Give(k, m)
        BY <1>2, <2>1, <2>2, <3>3 DEF Transfer!Give, Progress
      <3> QED
        BY <3>2, <3>4 DEF Transfer!Next
    <2> QED
      BY <1>4, <2>1, <2>2 DEF GetMsg
  <1>5. CASE ProcessEnds(k) /\ UNCHANGED asked
    <2>1. Transfer!Forget(k)
      BY <1>2, <1>5 DEF ProcessEnds, Transfer!Forget, Progress
    <2> QED
      BY <2>1 DEF Transfer!Next
  <1>6. CASE UNCHANGED <<got, asked>>
    BY <1>2, <1>6
  <1> QED
    BY <1>1, <1>2, <1>3, <1>4, <1>5, <1>6
       DEF SinkNext, RecvMessageThread, SinkStart, SinkRestart, SendGet,
           SendRecover, SendRequest, GetMsgRace, SinkStop, JoinSink,
           SinkDestroy, Crash, CopyQueues, BindSocket, BindFails, Receive,
           ReceiveNull, RecvMsgExit, Transmit

(* As long as no source is stopped and no two keys are equal, the message  *)
(* pass implements what the README promises of it: a message waits, is     *)
(* taken by one sink, given to that sink any number of times, and deleted  *)
(* after that sink has asked for it.                                       *)
THEOREM PassImplementsTransfer ==
    ASSUME NeverStopped, AllKeysDistinct
    PROVE  SafetySpec => TransferSpec
  <1>1. Init => Transfer!Init
    <2> SUFFICES ASSUME Init PROVE Transfer!Init
      OBVIOUS
    <2>1. \A m \in Msgs : Status(m) = "unsent"
      BY ToSetEmpty, ChannelsAssumption DEF Init, SourceInit, Status, Waiting
    <2>2. [m \in Msgs |-> Status(m)] = [m \in Msgs |-> "unsent"]
      BY <2>1
    <2> QED
      BY <2>2 DEF Init, SourceInit, SinkInit, Transfer!Init
  <1>2. DaqInv /\ [Next]_vars => [Transfer!Next]_(Transfer!transfer)
    <2> SUFFICES ASSUME DaqInv, [Next]_vars
                 PROVE  Transfer!Next \/ UNCHANGED <<Progress, dest, got, asked>>
      BY DEF Transfer!transfer, Progress
    <2>1. CASE UNCHANGED vars
      <3>1. UNCHANGED <<ready, offered, freed, dest, got, asked>>
        BY <2>1 DEF vars, source, sink
      <3> QED
        BY <3>1, ProgressFrame
    <2> QED
      BY <2>1, SourceTransfers, SinkTransfers DEF Next
  <1> QED
    BY <1>1, <1>2, DaqInvariant, PTL DEF SafetySpec, TransferSpec, Transfer!Spec
=============================================================================
