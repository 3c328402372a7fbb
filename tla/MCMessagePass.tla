---------------------------- MODULE MCMessagePass ----------------------------
EXTENDS MessagePass

CONSTANTS s1, s2, k1, k2, m1, m2,
          Gets, Dels, Recovers, Starts1, Starts2

(* One source with two messages, or two sources with one each. *)
OneSource  == [m \in {m1, m2} |-> s1]
TwoSources == (m1 :> s1) @@ (m2 :> s2)

DistinctKeys == (m1 :> 0) @@ (m2 :> 1)
EqualKeys    == [m \in {m1, m2} |-> 0]

AllPrepared == [k \in Sinks |-> Sources]
OnlyS1      == [k \in Sinks |-> {s1}]
OnlyK1      == [k \in Sinks |-> IF k = k1 THEN Sources ELSE {}]

Issued == ("GET" :> Gets) @@ ("DEL" :> Dels) @@ ("RECOVER" :> Recovers)
Started == [k \in Sinks |-> IF k = k1 THEN Starts1 ELSE Starts2]
=============================================================================
