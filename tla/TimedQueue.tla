----------------------------- MODULE TimedQueue -----------------------------
(***************************************************************************)
(* What the source and the sink expect of a BlockingReaderWriterQueue: a   *)
(* queue whose consumer gets the elements in their order, and times out    *)
(* only at a moment at which there is none.                                *)
(***************************************************************************)
EXTENDS Sequences

CONSTANTS Elements, Nothing

VARIABLES queue,         \* the elements in the queue
          answer         \* what the last dequeue returned

Init == queue = <<>> /\ answer = Nothing

Enqueue(e) == queue' = Append(queue, e) /\ UNCHANGED answer

Dequeue == /\ queue # <<>>
           /\ answer' = Head(queue)
           /\ queue' = Tail(queue)

TimeOut == /\ queue = <<>>
           /\ answer' = Nothing
           /\ UNCHANGED queue

Next == (\E e \in Elements : Enqueue(e)) \/ Dequeue \/ TimeOut

Spec == Init /\ [][Next]_<<queue, answer>>
=============================================================================
