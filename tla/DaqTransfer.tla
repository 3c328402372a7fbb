---------------------------- MODULE DaqTransfer ----------------------------
(***************************************************************************)
(* What the message pass promises (README.md): a message offered by a      *)
(* source waits until some sink's request takes it, is then kept for that  *)
(* sink, who may be given it any number of times, and is deleted only when *)
(* that sink has asked for it after being given it.  A sink that goes down *)
(* forgets what it was given.                                              *)
(***************************************************************************)
CONSTANTS Msgs, Sinks, NoSink

VARIABLES status,        \* status[m]: how far the message has come
          owner,         \* owner[m]: the sink whose request took it
          given,         \* given[k]: what the application of k was given
          asked          \* <<sink, message>>: a deletion was asked for

transfer == <<status, owner, given, asked>>

Init == /\ status = [m \in Msgs |-> "unsent"]
        /\ owner = [m \in Msgs |-> NoSink]
        /\ given = [k \in Sinks |-> {}]
        /\ asked = {}

Offer(m) == /\ status[m] = "unsent"
            /\ status' = [status EXCEPT ![m] = "waiting"]
            /\ UNCHANGED <<owner, given, asked>>

Take(k, m) == /\ status[m] = "waiting"
              /\ status' = [status EXCEPT ![m] = "kept"]
              /\ owner' = [owner EXCEPT ![m] = k]
              /\ UNCHANGED <<given, asked>>

Give(k, m) == /\ owner[m] = k
              /\ given' = [given EXCEPT ![k] = @ \cup {m}]
              /\ UNCHANGED <<status, owner, asked>>

Ask(k, m) == /\ m \in given[k]
             /\ asked' = asked \cup {<<k, m>>}
             /\ UNCHANGED <<status, owner, given>>

Delete(m) == /\ status[m] = "kept"
             /\ <<owner[m], m>> \in asked
             /\ status' = [status EXCEPT ![m] = "deleted"]
             /\ UNCHANGED <<owner, given, asked>>

Forget(k) == /\ given' = [given EXCEPT ![k] = {}]
             /\ UNCHANGED <<status, owner, asked>>

Next == \/ \E k \in Sinks : Forget(k)
        \/ \E m \in Msgs : Offer(m) \/ Delete(m)
        \/ \E k \in Sinks, m \in Msgs : Take(k, m) \/ Give(k, m) \/ Ask(k, m)

Spec == Init /\ [][Next]_transfer
=============================================================================
