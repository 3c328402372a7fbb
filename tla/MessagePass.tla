----------------------------- MODULE MessagePass -----------------------------
(***************************************************************************)
(* The whole message pass for one topic: the sources of MessageSource, the *)
(* sinks of MessageSink, and the channels between them.                    *)
(***************************************************************************)
EXTENDS MessageSource, MessageSink

vars == <<source, sink, channels>>

Init == SourceInit /\ SinkInit /\ ChannelsInit

SourceStep(s) == SourceNext(s) /\ UNCHANGED sink
SinkStep(k)   == SinkNext(k) /\ UNCHANGED source

Next == (\E s \in Sources : SourceStep(s)) \/ (\E k \in Sinks : SinkStep(k))

SafetySpec == Init /\ [][Next]_vars

(* What the promises below take from the applications: no source is        *)
(* stopped, and no two messages of the whole system have the same key.     *)
NeverStopped    == Stoppable = {}
AllKeysDistinct == \A m, n \in Msgs : KeyOf[m] = KeyOf[n] => m = n

(* Every queue, map and program counter of both ends has its type. *)
TypeOK == SourceTypeOK /\ SinkTypeOK /\ ChannelsTypeOK
-----------------------------------------------------------------------------
(* The source's half of what DaqTransfer promises, read off its state. *)
Status(m) ==
    LET s == Origin[m] IN
    CASE m \notin offered    -> "unsent"
      [] m \in freed         -> "deleted"
      [] m \in Waiting(s)    -> "waiting"
      [] OTHER               -> "kept"

Transfer == INSTANCE DaqTransfer WITH
    status <- [m \in Msgs |-> Status(m)],
    owner  <- dest,
    given  <- got

(* The message pass is a DaqTransfer, if NeverStopped and AllKeysDistinct. *)
TransferSpec == Transfer!Spec

(* A message is deleted only once the sink it went to has asked for it: a  *)
(* DEL reaches every source, and names no source.                          *)
DeletedOnRequest ==
    \A m \in freed : dest[m] # NoSink /\ <<dest[m], m>> \in asked

(* Wherever a message is beyond the source, it is on its way to or with    *)
(* the sink whose GET took it: no sink sees the messages of another.       *)
ForItsSink ==
    \A m \in Msgs, k \in Sinks :
        (\/ m \in ToSet(pipe[Origin[m]][k])
         \/ m \in ToSet(queue[k][Origin[m]])
         \/ m \in orphan[k] \/ m \in got[k]) => dest[m] = k
-----------------------------------------------------------------------------
(* Fairness: the threads run; the applications hand over the messages they *)
(* have, start a sink that is down, and poll get_msg for each source.      *)
Fairness ==
    /\ \A s \in Sources :
          /\ WF_vars((MainThread(s) \/ Start(s)) /\ UNCHANGED sink)
          /\ WF_vars(RecvThread(s) /\ UNCHANGED sink)
          /\ WF_vars(TaskThread(s) /\ UNCHANGED sink)
          /\ WF_vars((\E m \in Msgs : Send(s, m)) /\ UNCHANGED sink)
    /\ \A k \in Sinks :
          /\ WF_vars((SinkStart(k) \/ SinkRestart(k) \/ JoinSink(k))
                        /\ UNCHANGED source)
          /\ WF_vars(Transmit(k) /\ UNCHANGED source)
          /\ \A s \in Sources : WF_vars(GetMsg(k, s) /\ UNCHANGED source)
          /\ WF_vars((CopyQueues(k) \/ BindSocket(k) \/ RecvMsgExit(k))
                        /\ UNCHANGED source)
          /\ \A s \in Sources :
                WF_vars((Receive(k, s) \/ ReceiveNull(k, s)) /\ UNCHANGED source)

Spec == SafetySpec /\ Fairness

(* High availability: what is kept for a sink and was not asked to be      *)
(* deleted is given to its application, though it may crash or stop with   *)
(* the message anywhere between the two.                                   *)
Recovered ==
    \A k \in Sinks, m \in Msgs :
        m \in sents[Origin[m]][k] ~> m \in got[k] \/ <<k, m>> \in asked

(* A deletion that was asked for happens, unless its request was still in  *)
(* the sink's process when that ended.                                     *)
DeletionHappens ==
    \A k \in Sinks, m \in Msgs :
        <<k, m>> \in asked ~> m \in freed \/ Del(k, KeyOf[m]) \in lost
=============================================================================
