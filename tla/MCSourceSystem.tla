--------------------------- MODULE MCSourceSystem ---------------------------
EXTENDS SourceSystem

CONSTANTS s1, k1, k2, m1, m2

MCOrigin == [m \in {m1, m2} |-> s1]
MCKeyOf  == (m1 :> 0) @@ (m2 :> 1)

(* No action and no property tells one sink from another. *)
SinkSymmetry == Permutations({k1, k2})
=============================================================================
