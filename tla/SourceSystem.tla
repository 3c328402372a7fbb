---------------------------- MODULE SourceSystem ----------------------------
(***************************************************************************)
(* The sources of a topic under any requests at all: whatever a sink, an   *)
(* operator's tool or a faulty Kafka may put into the topic, in any order. *)
(***************************************************************************)
EXTENDS MessageSource

CONSTANTS MaxBacklog     \* requests the environment keeps pending per source

ASSUME SourceSystemAssumption ==
    /\ MaxBacklog \in Nat
    /\ KeysDistinct

vars == <<source, channels>>

Pending(s) == Len(kafka[s]) + Len(requests[s])

EnvRequest(r) ==
    /\ \A s \in Sources : Pending(s) < MaxBacklog
    /\ Produce(r)
    /\ UNCHANGED <<source, subscribed, pipe>>

(* The sink k takes a message, or it is lost with the sink. *)
EnvReceive(s, k) == ZmqRecv(s, k) /\ UNCHANGED <<source, kafka, subscribed>>

EnvRequests == {Get(k) : k \in Sinks} \cup {Recover(k) : k \in Sinks}
                   \cup {Del(k, KeyOf[m]) : k \in Sinks, m \in Msgs}

SystemNext ==
    \/ \E s \in Sources : SourceNext(s)
    \/ \E r \in EnvRequests : EnvRequest(r)
    \/ \E s \in Sources, k \in Sinks : EnvReceive(s, k)

SystemInit == SourceInit /\ ChannelsInit
SafetySpec == SystemInit /\ [][SystemNext]_vars

(* The threads run as long as they can; nothing is assumed of the callers *)
(* of send(), start() and stop(), nor of the sinks.                       *)
ThreadFairness ==
    \A s \in Sources : /\ WF_vars(MainThread(s))
                       /\ WF_vars(RecvThread(s))
                       /\ WF_vars(TaskThread(s))

SourceSpec == SafetySpec /\ ThreadFairness

(* Every queue, map and program counter of the sources and the channels    *)
(* has its type: task_thread never meets a pointer that is no message.     *)
SystemTypeOK == SourceTypeOK /\ ChannelsTypeOK

(* stop() returns: no thread waits for ever on a queue, and the join of    *)
(* each ends ("use timed to prevent hanging").  A crash ends it as well.   *)
StopReturns ==
    \A s \in Sources :
        main[s] = "joinRecv" ~> (main[s] \notin {"joinRecv", "joinTask"} \/ ~Alive(s))

(* stop() is an ordinary way to end a source (MessageSourceTest.cpp calls  *)
(* it and then returns 0): no thread goes wrong in it.                     *)
StopWithoutCrash == \A s \in Sources : Alive(s)
=============================================================================
