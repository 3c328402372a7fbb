---------------------------- MODULE BoundedQueue ----------------------------
(***************************************************************************)
(* What a circular buffer promises: a TimedQueue of a fixed capacity,      *)
(* which refuses an element only at a moment at which it is full.          *)
(***************************************************************************)
EXTENDS TimedQueue, Naturals

VARIABLES capacity,      \* the elements it may hold
          accepted       \* whether the last element offered was taken

BoundedInit == Init /\ capacity \in Nat /\ accepted = TRUE

Put(e) == /\ Len(queue) < capacity
          /\ Enqueue(e)
          /\ accepted' = TRUE
          /\ UNCHANGED capacity

Refuse == /\ Len(queue) = capacity
          /\ accepted' = FALSE
          /\ UNCHANGED <<queue, answer, capacity>>

BoundedNext == \/ (\E e \in Elements : Put(e)) \/ Refuse
               \/ (Dequeue \/ TimeOut) /\ UNCHANGED <<capacity, accepted>>

BoundedSpec ==
    BoundedInit /\ [][BoundedNext]_<<queue, answer, capacity, accepted>>
=============================================================================
