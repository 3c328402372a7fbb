---------------------------- MODULE MessageSource ----------------------------
(***************************************************************************)
(* MessageSource<T> (message_source/message_source.h): the application     *)
(* hands messages to send(); one thread per topic consumes requests from   *)
(* Kafka, another serves them.  GET sends the next message to the sink     *)
(* that asked and keeps it, DEL frees a kept message, RECOVER sends again  *)
(* everything kept for the sink.  The module describes every source of one *)
(* topic; topics share nothing but running_ and the stop() that joins.     *)
(*                                                                         *)
(* running_ is true exactly in main[s] = "up".                             *)
(***************************************************************************)
EXTENDS Channels

CONSTANTS Stoppable      \* the sources whose application calls stop()

ASSUME MessageSourceAssumption == Stoppable \subseteq Sources

VARIABLES main,          \* where the thread that owns the object is
          recvPc,        \* where the recv_request thread is
          taskPc,        \* where the task_thread is
          ready,         \* readys_: messages no sink has asked for yet
          requests,      \* request_queues_
          client,        \* remote_req->sink() of the request being served
          msg,           \* the local variable msg of task_thread
          todo,          \* what recover_msg has yet to send
          sockets,       \* the keys of thread_local_sockets
          sents,         \* thread_local_sents_: sents[s][k] kept for sink k
          offered,       \* history: the messages given to send()
          dest,          \* history: the sink whose GET took the message
          freed          \* history: the messages deleted (C++ delete)

source == <<main, recvPc, taskPc, ready, requests, client, msg, todo,
            sockets, sents, offered, dest, freed>>

SourceTypeOK ==
    /\ main \in [Sources -> {"init", "up", "joinRecv", "joinTask", "stopped",
                             "destroyed"}]
    /\ recvPc \in [Sources -> {"off", "subscribe", "consume", "close", "done"}]
    /\ taskPc \in [Sources -> {"off", "wait", "get", "test", "send", "store",
                               "recover", "exit", "done", "crashed"}]
    /\ ready \in [Sources -> Seq(Msgs)]
    /\ requests \in [Sources -> Seq(Request)]
    /\ client \in [Sources -> Sinks \cup {NoSink}]
    /\ msg \in [Sources -> Msgs \cup {NoMsg}]
    /\ todo \in [Sources -> SUBSET Msgs]
    /\ sockets \in [Sources -> SUBSET Sinks]
    /\ sents \in [Sources -> [Sinks -> SUBSET Msgs]]
    /\ offered \subseteq Msgs
    /\ dest \in [Msgs -> Sinks \cup {NoSink}]
    /\ freed \subseteq Msgs

(* The object after its constructor, its queues empty. *)
SourceInit ==
    /\ main = [s \in Sources |-> "init"]
    /\ recvPc = [s \in Sources |-> "off"]
    /\ taskPc = [s \in Sources |-> "off"]
    /\ ready = [s \in Sources |-> <<>>]
    /\ requests = [s \in Sources |-> <<>>]
    /\ client = [s \in Sources |-> NoSink]
    /\ msg = [s \in Sources |-> NoMsg]
    /\ todo = [s \in Sources |-> {}]
    /\ sockets = [s \in Sources |-> {}]
    /\ sents = [s \in Sources |-> [k \in Sinks |-> {}]]
    /\ offered = {}
    /\ dest = [m \in Msgs |-> NoSink]
    /\ freed = {}

Running(s) == main[s] = "up"
Alive(s)   == taskPc[s] # "crashed"
Stored(s)  == UNION {sents[s][k] : k \in Sinks}

(* thread_local_sents_[k]: a sink without a socket has no messages kept.   *)
(* Mutants: a new map at every GET; one map for all sinks.                 *)
KeptNever(s, k) == {}
KeptForAll(s, k) == Stored(s)

Kept(s, k) == IF k \in sockets[s] THEN sents[s][k] ELSE {}

(* What delete_msg finds for a DEL.  Mutants: it looks the key up for      *)
(* every sink; it clears the sink's map; it clears all maps.               *)
FoundAnySink(s, r) == {m \in Stored(s) : KeyOf[m] = r.key}
FoundAnyKey(s, r)  == sents[s][r.sink]
FoundAll(s, r)     == Stored(s)

Found(s, r) == {m \in sents[s][r.sink] : KeyOf[m] = r.key}

(* The loop test of task_thread once a request is done with. *)
After(s) == IF Running(s) THEN "wait" ELSE "exit"
-----------------------------------------------------------------------------
(* The application *)

Send(s, m) ==
    /\ Alive(s)
    /\ main[s] # "destroyed"
    /\ Origin[m] = s
    /\ m \notin offered
    /\ ready' = [ready EXCEPT ![s] = Append(@, m)]
    /\ offered' = offered \cup {m}
    /\ UNCHANGED <<main, recvPc, taskPc, requests, client, msg, todo, sockets,
                   sents, dest, freed, channels>>

(* start() may be called again after stop(): the threads are new ones, and *)
(* with them the thread_local maps; the two queues are the object's.       *)
Start(s) ==
    /\ Alive(s)
    /\ main[s] \in {"init", "stopped"}
    /\ main' = [main EXCEPT ![s] = "up"]
    /\ recvPc' = [recvPc EXCEPT ![s] = "subscribe"]
    /\ taskPc' = [taskPc EXCEPT ![s] = "wait"]
    /\ msg' = [msg EXCEPT ![s] = NoMsg]
    /\ UNCHANGED <<ready, requests, client, todo, sockets, sents, offered,
                   dest, freed, channels>>

Stop(s) ==
    /\ Alive(s)
    /\ s \in Stoppable
    /\ main[s] = "up"
    /\ main' = [main EXCEPT ![s] = "joinRecv"]
    /\ UNCHANGED <<recvPc, taskPc, ready, requests, client, msg, todo, sockets,
                   sents, offered, dest, freed, channels>>

JoinRecv(s) ==
    /\ Alive(s)
    /\ main[s] = "joinRecv"
    /\ recvPc[s] = "done"
    /\ main' = [main EXCEPT ![s] = "joinTask"]
    /\ UNCHANGED <<recvPc, taskPc, ready, requests, client, msg, todo, sockets,
                   sents, offered, dest, freed, channels>>

(* Mutant: task_threads_ is not joined. *)
JoinNoTask(s) ==
    /\ main[s] = "joinTask"
    /\ main' = [main EXCEPT ![s] = "stopped"]
    /\ UNCHANGED <<recvPc, taskPc, ready, requests, client, msg, todo, sockets,
                   sents, offered, dest, freed, channels>>

JoinTask(s) ==
    /\ main[s] = "joinTask"
    /\ taskPc[s] = "done"
    /\ main' = [main EXCEPT ![s] = "stopped"]
    /\ UNCHANGED <<recvPc, taskPc, ready, requests, client, msg, todo, sockets,
                   sents, offered, dest, freed, channels>>

(* The destructor drains both queues. *)
Destroy(s) ==
    /\ s \in Stoppable
    /\ Alive(s)
    /\ main[s] \in {"init", "stopped"}
    /\ main' = [main EXCEPT ![s] = "destroyed"]
    /\ freed' = freed \cup ToSet(ready[s])
    /\ ready' = [ready EXCEPT ![s] = <<>>]
    /\ requests' = [requests EXCEPT ![s] = <<>>]
    /\ UNCHANGED <<recvPc, taskPc, client, msg, todo, sockets, sents, offered,
                   dest, channels>>
-----------------------------------------------------------------------------
(* recv_request *)

Subscribe(s) ==
    /\ Alive(s)
    /\ recvPc[s] = "subscribe"
    /\ subscribed' = subscribed \cup {s}
    /\ recvPc' = [recvPc EXCEPT ![s] = IF Running(s) THEN "consume" ELSE "close"]
    /\ UNCHANGED <<main, taskPc, ready, requests, client, msg, todo, sockets,
                   sents, offered, dest, freed, kafka, pipe>>

(* consume() returned a request.  It is enqueued, or dropped where its     *)
(* payload does not parse; the offset has been committed already.          *)
RecvRequest(s) ==
    /\ Alive(s)
    /\ recvPc[s] = "consume"
    /\ \E i \in DOMAIN kafka[s] :
          /\ Consume(s, i)
          /\ \/ requests' = [requests EXCEPT ![s] = Append(@, Decode(kafka[s][i]))]
             \/ "lose" \in KafkaFaults /\ UNCHANGED requests
    /\ recvPc' = [recvPc EXCEPT ![s] = IF Running(s) THEN "consume" ELSE "close"]
    /\ UNCHANGED <<main, taskPc, ready, client, msg, todo, sockets, sents,
                   offered, dest, freed, subscribed, pipe>>

(* consume() timed out, or the loop test failed. *)
RecvExit(s) ==
    /\ Alive(s)
    /\ recvPc[s] \in {"consume", "close"}
    /\ ~Running(s)
    /\ recvPc' = [recvPc EXCEPT ![s] = "done"]
    /\ UNCHANGED <<main, taskPc, ready, requests, client, msg, todo, sockets,
                   sents, offered, dest, freed, channels>>
-----------------------------------------------------------------------------
(* task_thread *)

(* wait_dequeue_timed returns the next request. *)
TakeRequest(s, cmd) ==
    /\ taskPc[s] = "wait"
    /\ requests[s] # <<>>
    /\ Head(requests[s]).cmd = cmd
    /\ requests' = [requests EXCEPT ![s] = Tail(@)]

(* GET: a sink that asks for the first time gets a socket and a new map. *)
TakeGet(s) ==
    LET k == Head(requests[s]).sink IN
    /\ TakeRequest(s, "GET")
    /\ client' = [client EXCEPT ![s] = k]
    /\ sockets' = [sockets EXCEPT ![s] = @ \cup {k}]
    /\ sents' = [sents EXCEPT ![s][k] = Kept(s, k)]
    /\ taskPc' = [taskPc EXCEPT ![s] = "get"]
    /\ UNCHANGED <<main, recvPc, ready, msg, todo, offered, dest, freed,
                   channels>>

(* Mutant: the message is looked at, and stays where it is. *)
GetPeek(s) ==
    /\ taskPc[s] = "get"
    /\ ready[s] # <<>>
    /\ msg' = [msg EXCEPT ![s] = Head(ready[s])]
    /\ dest' = [dest EXCEPT ![Head(ready[s])] = client[s]]
    /\ taskPc' = [taskPc EXCEPT ![s] = "send"]
    /\ UNCHANGED <<main, recvPc, ready, requests, client, todo, sockets, sents,
                   offered, freed, channels>>

(* The inner loop of GET waits for a message, 50 ms at a time ... *)
GetReady(s) ==
    /\ taskPc[s] = "get"
    /\ ready[s] # <<>>
    /\ msg' = [msg EXCEPT ![s] = Head(ready[s])]
    /\ ready' = [ready EXCEPT ![s] = Tail(@)]
    /\ dest' = [dest EXCEPT ![Head(ready[s])] = client[s]]
    /\ taskPc' = [taskPc EXCEPT ![s] = "send"]
    /\ UNCHANGED <<main, recvPc, requests, client, todo, sockets, sents,
                   offered, freed, channels>>

GetTimeout(s) ==
    /\ taskPc[s] = "get"
    /\ ready[s] = <<>>
    /\ taskPc' = [taskPc EXCEPT ![s] = "test"]
    /\ UNCHANGED <<main, recvPc, ready, requests, client, msg, todo, sockets,
                   sents, offered, dest, freed, channels>>

(* Mutants: the loop waits once only, or for ever. *)
GetTestOnce(s) ==
    /\ taskPc[s] = "test"
    /\ msg[s] \in Msgs \ freed
    /\ taskPc' = [taskPc EXCEPT ![s] = "send"]
    /\ UNCHANGED <<main, recvPc, ready, requests, client, msg, todo, sockets,
                   sents, offered, dest, freed, channels>>

GetTestForever(s) ==
    /\ taskPc[s] = "test"
    /\ taskPc' = [taskPc EXCEPT ![s] = "get"]
    /\ UNCHANGED <<main, recvPc, ready, requests, client, msg, todo, sockets,
                   sents, offered, dest, freed, channels>>

(* ... for as long as running_ is set.  When it is not, msg is sent though *)
(* nothing was assigned to it: its slot holds the pointer of an earlier    *)
(* iteration, which works while that message lives, or something that is   *)
(* no pointer to a message.                                                *)
GetTest(s) ==
    /\ taskPc[s] = "test"
    /\ \/ Running(s) /\ taskPc' = [taskPc EXCEPT ![s] = "get"]
       \/ /\ ~Running(s)
          /\ msg[s] \in Msgs \ freed
          /\ taskPc' = [taskPc EXCEPT ![s] = "send"]
       \/ ~Running(s) /\ taskPc' = [taskPc EXCEPT ![s] = "crashed"]
    /\ UNCHANGED <<main, recvPc, ready, requests, client, msg, todo, sockets,
                   sents, offered, dest, freed, channels>>

(* send_msg *)
SendData(s) ==
    /\ taskPc[s] = "send"
    /\ ZmqSend(s, client[s], msg[s])
    /\ taskPc' = [taskPc EXCEPT ![s] = "store"]
    /\ UNCHANGED <<main, recvPc, ready, requests, client, msg, todo, sockets,
                   sents, offered, dest, freed, kafka, subscribed>>

(* store_msg: an entry with the same sink and key is overwritten. *)
StoreData(s) ==
    /\ taskPc[s] = "store"
    /\ sents' = [sents EXCEPT ![s][client[s]] =
                   {m \in @ : KeyOf[m] # KeyOf[msg[s]]} \cup {msg[s]}]
    /\ taskPc' = [taskPc EXCEPT ![s] = After(s)]
    /\ UNCHANGED <<main, recvPc, ready, requests, client, msg, todo, sockets,
                   offered, dest, freed, channels>>

(* DEL: delete_msg *)
TakeDel(s) ==
    LET r == Head(requests[s]) IN
    /\ TakeRequest(s, "DEL")
    /\ sents' = [sents EXCEPT ![s][r.sink] = @ \ Found(s, r)]
    /\ freed' = freed \cup Found(s, r)
    /\ taskPc' = [taskPc EXCEPT ![s] = After(s)]
    /\ UNCHANGED <<main, recvPc, ready, client, msg, todo, sockets, offered,
                   dest, channels>>

(* RECOVER: recover_msg returns at once for a sink without a socket or *)
(* without kept messages ...                                           *)
TakeRecover(s) ==
    LET k == Head(requests[s]).sink IN
    /\ TakeRequest(s, "RECOVER")
    /\ client' = [client EXCEPT ![s] = k]
    /\ todo' = [todo EXCEPT ![s] = Kept(s, k)]
    /\ taskPc' = [taskPc EXCEPT ![s] =
                    IF Kept(s, k) = {} THEN After(s) ELSE "recover"]
    /\ UNCHANGED <<main, recvPc, ready, msg, sockets, sents, offered, dest,
                   freed, channels>>

(* ... and sends the others in the order of the map, that of the keys. *)
RecoverNext(s) ==
    /\ taskPc[s] = "recover"
    /\ \E m \in todo[s] :
          /\ \A n \in todo[s] : KeyOf[m] <= KeyOf[n]
          /\ ZmqSend(s, client[s], m)
          /\ todo' = [todo EXCEPT ![s] = @ \ {m}]
          /\ taskPc' = [taskPc EXCEPT ![s] =
                          IF todo[s] = {m} THEN After(s) ELSE "recover"]
    /\ UNCHANGED <<main, recvPc, ready, requests, client, msg, sockets, sents,
                   offered, dest, freed, kafka, subscribed>>

(* The loop ends: sockets are closed and everything kept is deleted, twice *)
(* where two entries point to one message.                                 *)
TaskExit(s) ==
    /\ taskPc[s] \in {"wait", "exit"}
    /\ ~Running(s)
    /\ sockets' = [sockets EXCEPT ![s] = {}]
    /\ sents' = [sents EXCEPT ![s] = [k \in Sinks |-> {}]]
    /\ freed' = freed \cup Stored(s)
    /\ taskPc' = [taskPc EXCEPT ![s] =
                    IF \E j, k \in Sinks : j # k /\ sents[s][j] \cap sents[s][k] # {}
                      THEN "crashed" ELSE "done"]
    /\ UNCHANGED <<main, recvPc, ready, requests, client, msg, todo, offered,
                   dest, channels>>

(* The linger period of a closed socket ends. *)
LingerExpire(s, k) ==
    /\ k \notin sockets[s]
    /\ ZmqLinger(s, k)
    /\ UNCHANGED <<source, kafka, subscribed>>
-----------------------------------------------------------------------------
RecvThread(s) == Subscribe(s) \/ RecvRequest(s) \/ RecvExit(s)

TaskThread(s) ==
    \/ TakeGet(s) \/ GetReady(s) \/ GetTimeout(s) \/ GetTest(s)
    \/ SendData(s) \/ StoreData(s) \/ TakeDel(s)
    \/ TakeRecover(s) \/ RecoverNext(s) \/ TaskExit(s)

MainThread(s) == JoinRecv(s) \/ JoinTask(s)

SourceNext(s) ==
    \/ \E m \in Msgs : Send(s, m)
    \/ Start(s) \/ Stop(s) \/ MainThread(s) \/ Destroy(s)
    \/ RecvThread(s) \/ TaskThread(s)
    \/ \E k \in Sinks : LingerExpire(s, k)

-----------------------------------------------------------------------------
(* What the source promises, whatever it is asked. *)

Hand(s)    == IF taskPc[s] \in {"send", "store"} THEN {msg[s]} ELSE {}
Waiting(s) == ToSet(ready[s])
Given(s)   == {m \in offered : Origin[m] = s}
Deleted(s) == {m \in freed : Origin[m] = s}

(* No message is lost track of: each one send() was given is waiting, in   *)
(* the hands of task_thread, kept for a sink, or deleted.  Overwriting an  *)
(* entry in store_msg or emptying the map of a sink that has one would     *)
(* leak what was kept there.                                               *)
NoLeak ==
    \A s \in Sources : Alive(s) =>
        Given(s) = Waiting(s) \cup Hand(s) \cup Stored(s) \cup Deleted(s)

(* Nothing that is deleted is still referred to: not by readys_, not by    *)
(* the request being served, not by the maps, not by a RECOVER under way.  *)
NoUseAfterFree ==
    \A s \in Sources : Alive(s) =>
        (Waiting(s) \cup Hand(s) \cup Stored(s) \cup todo[s]) \cap freed = {}

(* While the source runs each message is in one place only and kept for no *)
(* sink but the one whose GET took it, so that no two deletions can meet.  *)
OneOwner ==
    \A s \in Sources : Running(s) =>
        /\ IsInjective(ready[s])
        /\ Waiting(s) \cap (Hand(s) \cup Stored(s)) = {}
        /\ Hand(s) \cap Stored(s) = {}
        /\ \A k \in Sinks : \A m \in sents[s][k] : dest[m] = k

(* stop() leaves no thread, socket or kept message behind, so start() and  *)
(* the destructor find a quiet object, and the destructor leaves nothing   *)
(* that send() was given before it.                                        *)
StopLeavesNothing ==
    \A s \in Sources : Alive(s) =>
        /\ main[s] \in {"stopped", "destroyed"} =>
              /\ recvPc[s] \in {"off", "done"}
              /\ taskPc[s] \in {"off", "done"}
              /\ sockets[s] = {}
              /\ Stored(s) = {}
        /\ main[s] = "destroyed" => Given(s) \subseteq freed
=============================================================================
