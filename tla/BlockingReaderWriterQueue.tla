---------------------- MODULE BlockingReaderWriterQueue ----------------------
(***************************************************************************)
(* BlockingReaderWriterQueue<T> (queue/readerwriterqueue.h), the queue of  *)
(* the sources and the sinks: a ReaderWriterQueue whose producer signals a *)
(* semaphore after each element, and whose consumer waits for it before    *)
(* each.                                                                   *)
(***************************************************************************)
EXTENDS ReaderWriterQueue, LightweightSemaphore, SequencesExt

VARIABLE answer          \* what the last call of the consumer returned, or 0

vars == <<rwq, sema, answer>>

BlockingInit == RingInit /\ SemaInit(0) /\ answer = 0
-----------------------------------------------------------------------------
(* enqueue and try_enqueue *)

EnqueueCall(alloc) ==
    /\ sigPc = "idle"
    /\ EnqRoom(alloc)
    /\ UNCHANGED <<sema, answer>>

EnqueueStep == Enqueuing /\ UNCHANGED <<sema, answer>>

EnqueueReturn ==
    /\ EnqReturn
    /\ IF enqPc = "enqueued" THEN Signal ELSE UNCHANGED sema
    /\ UNCHANGED answer

EnqueuePost == Post /\ UNCHANGED <<rwq, answer>>
-----------------------------------------------------------------------------
(* try_dequeue, pop, wait_dequeue and wait_dequeue_timed *)

TryDequeue ==
    /\ deqPc = "idle"
    /\ \/ TryWait /\ UNCHANGED answer
       \/ /\ waitPc = "idle"
          /\ count <= 0
          /\ answer' = 0
          /\ UNCHANGED sema
    /\ UNCHANGED rwq

WaitDequeue(t) ==
    /\ deqPc = "idle"
    /\ WaitCall(t)
    /\ UNCHANGED <<rwq, answer>>

WaitStep ==
    /\ Waiting
    /\ answer' = IF waitPc' = "timedout" THEN 0 ELSE answer
    /\ UNCHANGED rwq

DequeueCall ==
    /\ waitPc = "acquired"
    /\ DeqLook(FALSE)
    /\ UNCHANGED <<sema, answer>>

DequeueStep ==
    /\ Dequeuing
    /\ answer' = IF deqPc' = "free" THEN got' ELSE answer
    /\ UNCHANGED sema

DequeueReturn ==
    /\ Return
    /\ IF waitPc = "acquired" THEN DeqReturn ELSE UNCHANGED rwq
    /\ UNCHANGED answer

(* peek does not ask the semaphore. *)
PeekCall ==
    /\ waitPc = "idle"
    /\ DeqLook(TRUE)
    /\ UNCHANGED <<sema, answer>>

PeekReturn ==
    /\ waitPc = "idle"
    /\ DeqReturn
    /\ UNCHANGED <<sema, answer>>

(* size_approx does: it is what was signalled and not yet taken. *)
size_approx == availableApprox
-----------------------------------------------------------------------------
Producer == EnqueueStep \/ EnqueueReturn \/ EnqueuePost

Dequeue == TryDequeue \/ \E t \in BOOLEAN : WaitDequeue(t)

Consumer ==
    \/ WaitStep \/ DequeueCall \/ DequeueStep \/ DequeueReturn \/ PeekReturn

BlockingNext ==
    (\E alloc \in BOOLEAN : EnqueueCall(alloc)) \/ Producer
    \/ Dequeue \/ PeekCall \/ Consumer

BlockingSafety == BlockingInit /\ [][BlockingNext]_vars

(* Both end what they began; the consumer, the loop of a thread, dequeues  *)
(* again and again, however often it peeks in between.                     *)
BlockingSpec ==
    /\ BlockingSafety
    /\ WF_vars(Producer)
    /\ WF_vars(Consumer)
    /\ SF_vars(Dequeue)
-----------------------------------------------------------------------------
(* The assertion after each wait: where the semaphore lets the consumer    *)
(* through there is an element, although the two are not updated together. *)
(* size_approx, which asks the semaphore, never promises one too many.     *)
SuccessAsserted ==
    /\ deqPc = "empty" => peeking
    /\ size_approx <= Len(Contents)

(* An element is in the queue from its signal on. *)
Timed == INSTANCE TimedQueue WITH
    Elements <- 1 .. MaxItems, Nothing <- 0,
    queue <- IF enqPc = "enqueued" THEN Front(Contents) ELSE Contents

(* What the sources and the sinks rely on: elements in their order, and a  *)
(* false return only at a moment at which the queue is empty, however a    *)
(* timeout meets the signal of the next element.                           *)
TimedSpec == Timed!Spec

(* No wake-up is lost: each element is dequeued, though the consumer wait  *)
(* without a limit, or time out again and again.                           *)
Delivered == \A i \in 1 .. MaxItems : sent >= i ~> got >= i
=============================================================================
