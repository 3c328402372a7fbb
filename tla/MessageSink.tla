----------------------------- MODULE MessageSink -----------------------------
(***************************************************************************)
(* MessageSink<T> (message_sink/message_sink.h): the application requests  *)
(* messages through Kafka; one thread per topic receives what the sources  *)
(* send and files it in a queue per source, from which get_msg() takes.    *)
(* The module describes every sink of one topic.  A sink is a process that *)
(* may crash and be started again at the same address.                     *)
(***************************************************************************)
EXTENDS Channels

CONSTANTS Prepared,      \* Prepared[k]: the sources k names to prepare_sources
          QueueMax,      \* requests the producer's queue holds
          MaxIssued,     \* requests of each command a sink issues at most
          MaxRequests,   \* requests a sink issues at most altogether
          MaxStarts      \* MaxStarts[k]: how often k is started at most

ASSUME MessageSinkAssumption ==
    /\ Prepared \in [Sinks -> SUBSET Sources]
    /\ QueueMax \in Nat \ {0}
    /\ MaxIssued \in [{"GET", "DEL", "RECOVER"} -> Nat]
    /\ MaxRequests \in Nat
    /\ MaxStarts \in [Sinks -> Nat]

VARIABLES sinkPc,        \* the sink: no process, running_, in stop(), after it,
                         \* crashed
          recvMsgPc,     \* where the recv_message thread is
          recvs,         \* recvs_[topic]: what the map has for a source
          local,         \* recv_queues, the copy the thread made of it
          queue,         \* the queues of prepare_sources
          orphan,        \* messages in queues only recv_queues knows
          got,           \* messages get_msg has returned to the application
          asked,         \* history: <<sink, message>> a DEL was sent for
          issued,        \* requests issued so far
          starts,        \* times started so far
          outq,          \* requests in the producer's queue, not yet sent
          lost           \* history: the DELs that no broker ever got

producer == <<outq, lost>>

sink == <<sinkPc, recvMsgPc, recvs, local, queue, orphan, got, asked, issued,
          starts, producer>>

SinkTypeOK ==
    /\ sinkPc \in [Sinks -> {"off", "up", "joining", "stopped", "crashed"}]
    /\ recvMsgPc \in [Sinks -> {"off", "bind", "copy", "loop", "close", "done"}]
    /\ recvs \in [Sinks -> [Sources -> {"absent", "null", "queue"}]]
    /\ local \in [Sinks -> [Sources -> {"absent", "null", "queue", "private"}]]
    /\ queue \in [Sinks -> [Sources -> Seq(Msgs)]]
    /\ orphan \in [Sinks -> SUBSET Msgs]
    /\ got \in [Sinks -> SUBSET Msgs]
    /\ asked \subseteq Sinks \X Msgs
    /\ issued \in [Sinks -> [{"GET", "DEL", "RECOVER"} -> Nat]]
    /\ starts \in [Sinks -> Nat]
    /\ outq \in [Sinks -> Seq(Request)]
    /\ lost \subseteq Request

Absent == [s \in Sources |-> "absent"]
Empty  == [s \in Sources |-> <<>>]

SinkInit ==
    /\ sinkPc = [k \in Sinks |-> "off"]
    /\ recvMsgPc = [k \in Sinks |-> "off"]
    /\ recvs = [k \in Sinks |-> Absent]
    /\ local = [k \in Sinks |-> Absent]
    /\ queue = [k \in Sinks |-> Empty]
    /\ orphan = [k \in Sinks |-> {}]
    /\ got = [k \in Sinks |-> {}]
    /\ asked = {}
    /\ issued = [k \in Sinks |-> [c \in {"GET", "DEL", "RECOVER"} |-> 0]]
    /\ starts = [k \in Sinks |-> 0]
    /\ outq = [k \in Sinks |-> <<>>]
    /\ lost = {}

SinkRunning(k) == sinkPc[k] = "up"

(* The application's thread is in no call. *)
Callable(k) == sinkPc[k] \in {"up", "stopped"}

Deletions(rs) == {r \in rs : r.cmd = "DEL"}

(* The process ends and its memory with it, the requests that librdkafka *)
(* has not sent included.                                                *)
ProcessEnds(k) ==
    /\ outq' = [outq EXCEPT ![k] = <<>>]
    /\ lost' = lost \cup Deletions(ToSet(outq[k]))
    /\ recvMsgPc' = [recvMsgPc EXCEPT ![k] = "off"]
    /\ recvs' = [recvs EXCEPT ![k] = Absent]
    /\ local' = [local EXCEPT ![k] = Absent]
    /\ queue' = [queue EXCEPT ![k] = Empty]
    /\ orphan' = [orphan EXCEPT ![k] = {}]
    /\ got' = [got EXCEPT ![k] = {}]
-----------------------------------------------------------------------------
(* The Kafka producer *)

(* produce() puts a request into the queue of the producer; while that is  *)
(* full the caller waits.  Any other error is logged, the request dropped. *)
Enqueue(k, r) ==
    \/ /\ Len(outq[k]) < QueueMax
       /\ outq' = [outq EXCEPT ![k] = Append(@, r)]
       /\ UNCHANGED lost
    \/ /\ "lose" \in KafkaFaults
       /\ lost' = lost \cup Deletions({r})
       /\ UNCHANGED outq

(* A thread of librdkafka sends what is in the queue.  A request it cannot *)
(* deliver is dropped, and dr_cb logs it.                                  *)
Transmit(k) ==
    /\ outq[k] # <<>>
    /\ outq' = [outq EXCEPT ![k] = Tail(@)]
    /\ \/ /\ Produce(Head(outq[k]))
          /\ UNCHANGED lost
       \/ /\ "lose" \in KafkaFaults
          /\ lost' = lost \cup Deletions({Head(outq[k])})
          /\ UNCHANGED kafka
    /\ UNCHANGED <<sinkPc, recvMsgPc, recvs, local, queue, orphan, got, asked,
                   issued, starts, subscribed, pipe>>
-----------------------------------------------------------------------------
(* The application *)

(* prepare_sources.  Mutant: called too late to have an effect. *)
PreparedLate(k) == Absent

PreparedQueues(k) ==
    [s \in Sources |-> IF s \in Prepared[k] THEN "queue" ELSE "absent"]

(* Constructor, prepare_sources, start(): the thread and then a RECOVER. *)
SinkStart(k) ==
    /\ sinkPc[k] \in {"off", "crashed"}
    /\ starts[k] < MaxStarts[k]
    /\ starts' = [starts EXCEPT ![k] = @ + 1]
    /\ sinkPc' = [sinkPc EXCEPT ![k] = "up"]
    /\ recvMsgPc' = [recvMsgPc EXCEPT ![k] = "bind"]
    /\ recvs' = [recvs EXCEPT ![k] = PreparedQueues(k)]
    /\ Enqueue(k, Recover(k))
    /\ UNCHANGED <<local, queue, orphan, got, asked, issued, channels>>

(* start() after stop(): the queues are those of the object. *)
SinkRestart(k) ==
    /\ sinkPc[k] = "stopped"
    /\ starts[k] < MaxStarts[k]
    /\ starts' = [starts EXCEPT ![k] = @ + 1]
    /\ sinkPc' = [sinkPc EXCEPT ![k] = "up"]
    /\ recvMsgPc' = [recvMsgPc EXCEPT ![k] = "bind"]
    /\ Enqueue(k, Recover(k))
    /\ UNCHANGED <<recvs, local, queue, orphan, got, asked, issued, channels>>

(* send_request *)
SendRequest(k, r) ==
    /\ Callable(k)
    /\ issued[k][r.cmd] < MaxIssued[r.cmd]
    /\ issued[k].GET + issued[k].DEL + issued[k].RECOVER < MaxRequests
    /\ issued' = [issued EXCEPT ![k][r.cmd] = @ + 1]
    /\ Enqueue(k, r)
    /\ UNCHANGED <<sinkPc, recvMsgPc, recvs, local, queue, orphan, got, starts,
                   channels>>

SendGet(k)     == SendRequest(k, Get(k)) /\ UNCHANGED asked
SendRecover(k) == SendRequest(k, Recover(k)) /\ UNCHANGED asked

(* Only messages the application was given are to be deleted. *)
SendDel(k, m) ==
    /\ m \in got[k]
    /\ SendRequest(k, Del(k, KeyOf[m]))
    /\ asked' = asked \cup {<<k, m>>}

(* get_msg with a source: operator[] enters a null pointer for a source *)
(* the map does not have, and get_msg returns false.                    *)
GetMsg(k, s) ==
    /\ Callable(k)
    /\ \/ /\ recvs[k][s] = "absent"
          /\ recvs' = [recvs EXCEPT ![k][s] = "null"]
          /\ UNCHANGED <<queue, got>>
       \/ /\ recvs[k][s] = "queue"
          /\ queue[k][s] # <<>>
          /\ got' = [got EXCEPT ![k] = @ \cup {Head(queue[k][s])}]
          /\ queue' = [queue EXCEPT ![k][s] = Tail(@)]
          /\ UNCHANGED recvs
    /\ UNCHANGED <<sinkPc, recvMsgPc, local, orphan, asked, issued, starts,
                   producer, channels>>

(* The thread copies the map while get_msg enters something: whatever is   *)
(* wrong with the tree then, it may end the process.                       *)
GetMsgRace(k, s) ==
    /\ SinkRunning(k)
    /\ recvs[k][s] = "absent"
    /\ recvMsgPc[k] = "copy"
    /\ sinkPc' = [sinkPc EXCEPT ![k] = "crashed"]
    /\ ProcessEnds(k)
    /\ UNCHANGED <<asked, issued, starts, channels>>

(* stop() waits until the producer has sent its requests, and no longer    *)
(* where Kafka fails to take them; then it clears running_ and joins the   *)
(* thread.                                                                 *)
SinkStop(k) ==
    /\ SinkRunning(k)
    /\ starts[k] < MaxStarts[k]
    /\ outq[k] = <<>> \/ "lose" \in KafkaFaults
    /\ sinkPc' = [sinkPc EXCEPT ![k] = "joining"]
    /\ UNCHANGED <<recvMsgPc, recvs, local, queue, orphan, got, asked, issued,
                   starts, producer, channels>>

(* The thread is gone, and with it the copy and the queues only it knew. *)
JoinSink(k) ==
    /\ sinkPc[k] = "joining"
    /\ recvMsgPc[k] = "done"
    /\ sinkPc' = [sinkPc EXCEPT ![k] = "stopped"]
    /\ recvMsgPc' = [recvMsgPc EXCEPT ![k] = "off"]
    /\ local' = [local EXCEPT ![k] = Absent]
    /\ orphan' = [orphan EXCEPT ![k] = {}]
    /\ UNCHANGED <<recvs, queue, got, asked, issued, starts, producer, channels>>

(* The destructor drains the queues, and dereferences the null pointers    *)
(* that get_msg has entered among them.  Then the application ends.        *)
SinkDestroy(k) ==
    /\ sinkPc[k] = "stopped"
    /\ sinkPc' = [sinkPc EXCEPT ![k] =
                    IF \E s \in Sources : recvs[k][s] = "null"
                      THEN "crashed" ELSE "off"]
    /\ ProcessEnds(k)
    /\ UNCHANGED <<asked, issued, starts, channels>>

(* The fault the tests inject: exit() in the middle of anything.  A sink   *)
(* stops or crashes only where the bound lets it be started again.         *)
Crash(k) ==
    /\ SinkRunning(k)
    /\ starts[k] < MaxStarts[k]
    /\ sinkPc' = [sinkPc EXCEPT ![k] = "off"]
    /\ ProcessEnds(k)
    /\ ZmqUnbind(k)
    /\ UNCHANGED <<asked, issued, starts, kafka, subscribed>>
-----------------------------------------------------------------------------
(* recv_message *)

(* The loop test. *)
Again(k) == IF SinkRunning(k) THEN "loop" ELSE "close"

(* The thread copies the map, and with it the pointers to the queues.  What *)
(* get_msg enters meanwhile is in the copy or not.                          *)
CopyQueues(k) ==
    /\ recvMsgPc[k] = "bind"
    /\ recvMsgPc' = [recvMsgPc EXCEPT ![k] = "copy"]
    /\ local' = [local EXCEPT ![k] = recvs[k]]
    /\ UNCHANGED <<sinkPc, recvs, queue, orphan, got, asked, issued, starts,
                   producer, channels>>

(* zmq_bind succeeds ... *)
BindSocket(k) ==
    /\ recvMsgPc[k] = "copy"
    /\ recvMsgPc' = [recvMsgPc EXCEPT ![k] = Again(k)]
    /\ \/ UNCHANGED local
       \/ local' = [local EXCEPT ![k] = recvs[k]]
    /\ UNCHANGED <<sinkPc, recvs, queue, orphan, got, asked, issued, starts,
                   producer, channels>>

(* ... or not, for example because the socket of the thread before this    *)
(* one, which zmq_close only hands to ZeroMQ to close, still has the       *)
(* address: then assert() aborts the process.  Bounded as Crash is: the    *)
(* last start does bind.                                                   *)
BindFails(k) ==
    /\ recvMsgPc[k] = "copy"
    /\ starts[k] < MaxStarts[k]
    /\ sinkPc' = [sinkPc EXCEPT ![k] = "off"]
    /\ ProcessEnds(k)
    /\ UNCHANGED <<asked, issued, starts, channels>>

(* All frames of a message.  A source that is not in the copy gets a queue *)
(* there, or a null pointer in fixed-size mode.                            *)
Receive(k, s) ==
    LET m    == Head(pipe[s][k])
        slot == CASE local[k][s] # "absent" -> local[k][s]
                  [] Fixed                  -> "null"
                  [] OTHER                  -> "private" IN
    /\ recvMsgPc[k] = "loop"
    /\ pipe[s][k] # <<>>
    /\ slot # "null"
    /\ ZmqRecv(s, k)
    /\ recvMsgPc' = [recvMsgPc EXCEPT ![k] = Again(k)]
    /\ local' = [local EXCEPT ![k][s] = slot]
    /\ queue' = IF slot = "queue" THEN [queue EXCEPT ![k][s] = Append(@, m)]
                                  ELSE queue
    /\ orphan' = IF slot = "private" THEN [orphan EXCEPT ![k] = @ \cup {m}]
                                     ELSE orphan
    /\ UNCHANGED <<sinkPc, recvs, got, asked, issued, starts, producer, kafka,
                   subscribed>>

(* enqueue through a null pointer ends the process. *)
ReceiveNull(k, s) ==
    /\ recvMsgPc[k] = "loop"
    /\ pipe[s][k] # <<>>
    /\ \/ local[k][s] = "null"
       \/ local[k][s] = "absent" /\ Fixed
    /\ sinkPc' = [sinkPc EXCEPT ![k] = "crashed"]
    /\ ProcessEnds(k)
    /\ ZmqUnbind(k)
    /\ UNCHANGED <<asked, issued, starts, kafka, subscribed>>

RecvMsgExit(k) ==
    /\ recvMsgPc[k] \in {"loop", "close"}
    /\ ~SinkRunning(k)
    /\ recvMsgPc' = [recvMsgPc EXCEPT ![k] = "done"]
    /\ ZmqUnbind(k)
    /\ UNCHANGED <<sinkPc, recvs, local, queue, orphan, got, asked, issued,
                   starts, producer, kafka, subscribed>>
-----------------------------------------------------------------------------
RecvMessageThread(k) ==
    \/ CopyQueues(k) \/ BindSocket(k) \/ BindFails(k) \/ RecvMsgExit(k)
    \/ \E s \in Sources : Receive(k, s) \/ ReceiveNull(k, s)

SinkNext(k) ==
    \/ SinkStart(k) \/ SinkRestart(k) \/ SendGet(k) \/ SendRecover(k) \/ Transmit(k)
    \/ \E m \in Msgs : SendDel(k, m)
    \/ \E s \in Sources : GetMsg(k, s) \/ GetMsgRace(k, s)
    \/ SinkStop(k) \/ JoinSink(k) \/ SinkDestroy(k) \/ Crash(k)
    \/ RecvMessageThread(k)
-----------------------------------------------------------------------------
(* A source that was prepared is heard: what it sends never goes to a queue *)
(* get_msg cannot reach, however get_msg and the thread's copy of the map   *)
(* interleave; and where all are prepared no null pointer is met, neither   *)
(* by the thread nor by the destructor, and no map changes under the copy.  *)
PreparedIsReachable ==
    \A k \in Sinks :
        /\ \A m \in orphan[k] : Origin[m] \notin Prepared[k]
        /\ Prepared[k] = Sources => sinkPc[k] # "crashed"
=============================================================================
