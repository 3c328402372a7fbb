--------------------------- MODULE RequestMessage ---------------------------
(***************************************************************************)
(* RequestMessage (proto/request_message.proto and the class generated     *)
(* from it): what a sink asks of the sources, and what of it travels       *)
(* through Kafka.  A payload is the fields it has and their values.        *)
(***************************************************************************)
EXTENDS Naturals

CONSTANTS Sinks,         \* the addresses of the sinks, never empty strings
          NoSink         \* the empty string

ASSUME RequestMessageAssumption == NoSink \notin Sinks

Request == [cmd : {"GET", "DEL", "RECOVER"}, key : Nat, sink : Sinks]

(* The constructor.  proto3 has no unset fields, only default values. *)
Default == [cmd |-> "GET", key |-> 0, sink |-> NoSink]

(* Mutant: a DEL whose key is not set. *)
DelNoKey(k, key) == [cmd |-> "DEL", key |-> Default.key, sink |-> k]

Get(k)      == [cmd |-> "GET",     key |-> Default.key, sink |-> k]
Recover(k)  == [cmd |-> "RECOVER", key |-> Default.key, sink |-> k]
Del(k, key) == [cmd |-> "DEL",     key |-> key,         sink |-> k]
-----------------------------------------------------------------------------
(* SerializeToString: a field that has its default is not written, so that *)
(* a GET is nothing but its sink and a DEL of key 0 has no key.            *)
Encode(r) ==
    LET written == {f \in {"cmd", "key", "sink"} : r[f] # Default[f]}
    IN  [f \in written |-> r[f]]

(* What Encode makes of a request. *)
Payload ==
    LET Command == {"DEL", "RECOVER"}
        Key     == Nat \ {0}
    IN  [sink : Sinks] \cup [key : Key, sink : Sinks]
            \cup [cmd : Command, sink : Sinks]
            \cup [cmd : Command, key : Key, sink : Sinks]

(* ParseFromString: a new message, in which the fields that were written   *)
(* are set.  Mutant: the fields that were not are left out.                *)
DecodeBare(p) == p

Decode(p) ==
    [cmd  |-> IF "cmd"  \in DOMAIN p THEN p.cmd  ELSE Default.cmd,
     key  |-> IF "key"  \in DOMAIN p THEN p.key  ELSE Default.key,
     sink |-> IF "sink" \in DOMAIN p THEN p.sink ELSE Default.sink]
=============================================================================
