------------------------------ MODULE Channels ------------------------------
(***************************************************************************)
(* What lies between the sinks and the sources of one topic, as the code   *)
(* uses it: Kafka carries the requests, ZeroMQ carries the messages.       *)
(*                                                                         *)
(* The producer of a sink, which MessageSink describes with the sink, puts *)
(* every request into the log of the topic; every source consumes the      *)
(* topic in a consumer group of its own (group.id is host name and pid),   *)
(* so every subscribed source gets every request.  One pipe per source and *)
(* sink stands for a DEALER socket, its TCP connection and the receiving   *)
(* side of the ROUTER socket.                                              *)
(***************************************************************************)
EXTENDS RequestMessage, Sequences, FiniteSets, SequencesExt

CONSTANTS Sources,       \* the MessageSource objects, one process each
          Msgs,          \* the messages the applications hand to sources
          Origin,        \* Origin[m]: the source m is handed to
          KeyOf,         \* KeyOf[m]: what key() of m returns
          NoMsg,         \* no message
          Fixed,         \* fixed-size mode, set at both ends
          Hwm,           \* messages a pipe holds (the high-water mark)
          KafkaFaults    \* the faults of Kafka to consider

ASSUME ChannelsAssumption ==
    /\ NoMsg \notin Msgs
    /\ Origin \in [Msgs -> Sources]
    /\ KeyOf \in [Msgs -> Nat]
    /\ Fixed \in BOOLEAN
    /\ Hwm \in Nat \ {0}
    /\ KafkaFaults \subseteq {"lose", "duplicate", "reorder"}

(* The keys of one source's messages differ.  Nothing in the code asks for *)
(* it or enforces it; the applications in the tests number their messages  *)
(* and key() reads the number off the data.                                *)
KeysDistinct ==
    \A m, n \in Msgs : Origin[m] = Origin[n] /\ KeyOf[m] = KeyOf[n] => m = n

VARIABLES kafka,         \* kafka[s]: the payloads source s has yet to consume
          subscribed,    \* the sources whose consumer has subscribed
          pipe           \* pipe[s][k]: messages on their way from s to k

channels == <<kafka, subscribed, pipe>>

ChannelsTypeOK ==
    /\ kafka \in [Sources -> Seq(Payload)]
    /\ subscribed \subseteq Sources
    /\ pipe \in [Sources -> [Sinks -> Seq(Msgs)]]

ChannelsInit ==
    /\ kafka = [s \in Sources |-> <<>>]
    /\ subscribed = {}
    /\ pipe = [s \in Sources |-> [k \in Sinks |-> <<>>]]

-----------------------------------------------------------------------------
(* Kafka *)

(* How often a request that the producer sends enters the log: without     *)
(* idempotence one that is sent again can be written twice.                *)
Copies == {1} \cup (IF "duplicate" \in KafkaFaults THEN {2} ELSE {})

(* A request enters the log.  A group that subscribes later starts at the *)
(* end of it.                                                              *)
Produce(r) ==
    \E n \in Copies :
        kafka' = [s \in Sources |-> IF s \in subscribed
                                      THEN kafka[s] \o [i \in 1..n |-> Encode(r)]
                                      ELSE kafka[s]]

(* The requests s may get next: with more than one partition, any of them. *)
Consumable(s) == IF "reorder" \in KafkaFaults
                   THEN DOMAIN kafka[s]
                   ELSE {i \in DOMAIN kafka[s] : i = 1}

Consume(s, i) ==
    /\ i \in Consumable(s)
    /\ kafka' = [kafka EXCEPT ![s] = RemoveAt(@, i)]

-----------------------------------------------------------------------------
(* ZeroMQ *)

(* With fixed-size messages the one frame is sent with DONTWAIT and dropped *)
(* at the high-water mark.  Otherwise the size frame is sent without it and *)
(* waits for room, which the data frame then has.                           *)
ZmqSend(s, k, m) ==
    \/ /\ Len(pipe[s][k]) < Hwm
       /\ pipe' = [pipe EXCEPT ![s][k] = Append(@, m)]
    \/ /\ Len(pipe[s][k]) >= Hwm
       /\ Fixed
       /\ UNCHANGED pipe

ZmqRecv(s, k) ==
    /\ pipe[s][k] # <<>>
    /\ pipe' = [pipe EXCEPT ![s][k] = Tail(@)]

(* A closed DEALER socket delivers what it can while it lingers (500 ms), *)
(* the rest of the pipe is dropped.                                       *)
ZmqLinger(s, k) ==
    \E n \in 0 .. Len(pipe[s][k]) - 1 :
        pipe' = [pipe EXCEPT ![s][k] = SubSeq(@, 1, n)]

(* When the ROUTER socket of k goes away what had left the senders is lost. *)
ZmqUnbind(k) ==
    \E gone \in [Sources -> 0 .. Hwm] :
        /\ \A s \in Sources : gone[s] <= Len(pipe[s][k])
        /\ pipe' = [s \in Sources |->
                      [pipe[s] EXCEPT ![k] = SubSeq(@, gone[s] + 1, Len(@))]]
=============================================================================
