------------------- MODULE BlockingReaderWriterQueue_proofs -------------------
(***************************************************************************)
(* That the semaphore of a blocking queue neither loses nor invents a      *)
(* signal, that a dequeue it lets through finds an element, and that the   *)
(* two together are a queue with timeouts: for queues of any size and      *)
(* calls in any number and order.                                          *)
(***************************************************************************)
EXTENDS BlockingReaderWriterQueue, ReaderWriterQueue_proofs,
        LightweightSemaphore_proofs

(* A step of the blocking queue is a step of its semaphore, or none.       *)
LEMMA QueueStepIsSemaStep == BlockingNext => [SemaNext]_sema
<1> SUFFICES ASSUME BlockingNext PROVE [SemaNext]_sema
  OBVIOUS
<1>1. CASE \E alloc \in BOOLEAN : EnqueueCall(alloc)
  BY <1>1 DEF EnqueueCall
<1>2. CASE EnqueueStep
  BY <1>2 DEF EnqueueStep
<1>3. CASE EnqueueReturn
  BY <1>3 DEF EnqueueReturn, SemaNext
<1>4. CASE EnqueuePost
  BY <1>4 DEF EnqueuePost, SemaNext
<1>5. CASE TryDequeue
  BY <1>5 DEF TryDequeue, SemaNext
<1>6. CASE \E t \in BOOLEAN : WaitDequeue(t)
  BY <1>6 DEF WaitDequeue, SemaNext
<1>7. CASE WaitStep
  BY <1>7 DEF WaitStep, SemaNext
<1>8. CASE DequeueCall
  BY <1>8 DEF DequeueCall
<1>9. CASE DequeueStep
  BY <1>9 DEF DequeueStep
<1>10. CASE DequeueReturn
  BY <1>10 DEF DequeueReturn, SemaNext
<1>11. CASE PeekCall \/ PeekReturn
  BY <1>11 DEF PeekCall, PeekReturn
<1> QED
  BY <1>1, <1>2, <1>3, <1>4, <1>5, <1>6, <1>7, <1>8, <1>9, <1>10, <1>11
  DEF BlockingNext, Producer, Dequeue, Consumer

(* Whatever the sizes and the number of the elements, the counter and the  *)
(* kernel semaphore of a blocking queue account for every signal.          *)
THEOREM QueueBalanced == BlockingSafety => [](SemaTypeOK /\ Balanced)
<1>1. BlockingInit => SemaInv
  BY SemaStartsBalanced DEF BlockingInit
<1>2. SemaInv /\ [BlockingNext]_vars => SemaInv'
  <2> SUFFICES ASSUME SemaInv, [BlockingNext]_vars PROVE SemaInv'
    OBVIOUS
  <2>1. [SemaNext]_sema
    BY QueueStepIsSemaStep DEF vars
  <2> QED  BY <2>1, SemaKeepsBalance
<1> QED  BY <1>1, <1>2, PTL DEF BlockingSafety, SemaInv

(* The counter is a number, the kernel semaphore never below zero, and     *)
(* each of the two threads at one of its places.                           *)
THEOREM QueueSemaTyped == BlockingSafety => []SemaTypeOK
  BY QueueBalanced, PTL
-----------------------------------------------------------------------------
(* A step of the blocking queue is a step of its queue, or none.           *)
LEMMA QueueStepIsRingStep == [BlockingNext]_vars => [RingNext]_rwq
<1> SUFFICES ASSUME BlockingNext PROVE [RingNext]_rwq
  BY DEF vars
<1>1. CASE \E alloc \in BOOLEAN : EnqueueCall(alloc)
  BY <1>1 DEF EnqueueCall, RingNext
<1>2. CASE EnqueueStep \/ EnqueueReturn \/ EnqueuePost
  BY <1>2 DEF EnqueueStep, EnqueueReturn, EnqueuePost, RingNext
<1>3. CASE TryDequeue \/ (\E t \in BOOLEAN : WaitDequeue(t)) \/ WaitStep
  BY <1>3 DEF TryDequeue, WaitDequeue, WaitStep
<1>4. CASE DequeueCall \/ PeekCall
  BY <1>4 DEF DequeueCall, PeekCall, RingNext
<1>5. CASE DequeueStep \/ DequeueReturn \/ PeekReturn
  BY <1>5 DEF DequeueStep, DequeueReturn, PeekReturn, RingNext
<1> QED
  BY <1>1, <1>2, <1>3, <1>4, <1>5 DEF BlockingNext, Producer, Dequeue, Consumer

(* What the semaphore counts and what the ring holds: an element is        *)
(* signalled once it is there, and the consumer has acquired one more than *)
(* it took while it is on its way to take it.  It is in a dequeue only     *)
(* when it has, and then the queue was not empty when it looked.           *)
Accounts ==
    /\ sent = signals + (IF enqPc = "enqueued" THEN 1 ELSE 0)
    /\ acquired = got + (IF waitPc = "acquired" /\ deqPc \notin {"free", "dequeued"}
                           THEN 1 ELSE 0)
    /\ deqPc # "idle" => waitPc = IF peeking THEN "idle" ELSE "acquired"
    /\ deqPc \in {"free", "dequeued"} => ~peeking
    /\ deqPc = "shown" => peeking
    /\ deqPc # "idle" /\ ~peeking => ~wasEmpty
    /\ sent <= MaxItems

BlockingInv == RingInv /\ EnqBusy /\ SemaInv /\ Accounts

(* What the invariant says of the numbers.                                 *)
LEMMA BlockingNumbers ==
    ASSUME BlockingInv
    PROVE  /\ got \in Nat /\ sent \in Nat /\ signals \in Nat /\ acquired \in Nat
           /\ count \in Int
           /\ got <= acquired /\ acquired <= signals /\ signals <= sent
           /\ count <= signals - acquired
           /\ waitPc = "restore" /\ count < 0 => acquired = signals
           /\ waitPc = "idle" /\ count <= 0 => acquired = signals
           /\ Contents = Nums(got, sent)
<1>1. got \in Nat /\ sent \in Nat /\ Contents = Nums(got, sent)
  BY GotSent DEF BlockingInv
<1>2. /\ signals \in Nat /\ acquired \in Nat /\ count \in Int
      /\ count = signals - acquired - (IF Owing THEN 1 ELSE 0)
      /\ count >= IF Owing THEN -1 ELSE 0
  BY DEF BlockingInv, SemaInv, SemaTypeOK, Balanced
<1>3. got <= acquired /\ signals <= sent
  BY <1>1, <1>2 DEF BlockingInv, Accounts
<1>4. acquired <= signals /\ count <= signals - acquired
  BY <1>2
<1>5. waitPc = "restore" /\ count < 0 => acquired = signals
  BY <1>2 DEF Owing
<1>6. waitPc = "idle" /\ count <= 0 => acquired = signals
  BY <1>2 DEF Owing
<1> QED  BY <1>1, <1>2, <1>3, <1>4, <1>5, <1>6

(* The constructor.                                                        *)
LEMMA BlockingStarts ==
    ASSUME 0 \notin Sizes, BlockingInit
    PROVE  BlockingInv
<1>1. RingInv
  BY InitEstablishes, ReaderWriterQueueAssumption
  DEF BlockingInit, ReaderWriterQueueAssumption
<1>2. EnqBusy
  BY DEF BlockingInit, RingInit, EnqBusy
<1>3. SemaInv
  BY SemaStartsBalanced DEF BlockingInit
<1>4. Accounts
  BY ReaderWriterQueueAssumption
  DEF BlockingInit, RingInit, SemaInit, Accounts, ReaderWriterQueueAssumption
<1> QED  BY <1>1, <1>2, <1>3, <1>4 DEF BlockingInv

(* The step of the ring in which an element is published, and the one in   *)
(* which one is taken, are those at which the counts move.                 *)
LEMMA EnqueuingCounts ==
    ASSUME Enqueuing
    PROVE  /\ enqPc \notin {"idle", "enqueued", "failed"}
           /\ enqPc' # "idle"
           /\ got' = got /\ deqPc' = deqPc /\ peeking' = peeking
           /\ wasEmpty' = wasEmpty
           /\ IF enqPc' = "enqueued" THEN sent' = sent + 1 ELSE sent' = sent
  BY DEF Enqueuing, EnqWrite, EnqPublish, EnqFull, EnqNext, EnqFill, EnqBump,
         EnqGrow, EnqLink, EnqAdvance, consumer

(* And the consumer's steps with its own.                                  *)
LEMMA DequeuingCounts ==
    ASSUME Dequeuing
    PROVE  /\ deqPc \notin {"idle", "dequeued", "shown", "empty"}
           /\ deqPc' # "idle"
           /\ deqPc = "free" => deqPc' = "dequeued"
           /\ deqPc' = "dequeued" => deqPc = "free"
           /\ deqPc' = "free" => deqPc = "take" /\ ~peeking
           /\ deqPc' = "shown" => peeking
           /\ deqPc' # "free" => got' = got
           /\ peeking' = peeking /\ wasEmpty' = wasEmpty
           /\ enqPc' = enqPc /\ sent' = sent
  BY DEF Dequeuing, DeqLast, DeqAgain, DeqAhead, DeqPeek, DeqMove, DeqTake,
         DeqFree, DeqShow, producer

(* Each step keeps the account between the two.                            *)
LEMMA AccountsKept ==
    ASSUME BlockingInv, BlockingNext, RingInv', EnqBusy', Moves
    PROVE  Accounts'
<1> USE DEF Accounts
<1>1. /\ Accounts /\ SemaInv /\ got \in Nat /\ sent \in Nat
      /\ signals \in Nat /\ acquired \in Nat /\ MaxItems \in Nat
  BY BlockingNumbers, ReaderWriterQueueAssumption
  DEF BlockingInv, ReaderWriterQueueAssumption
<1>2. CASE \E alloc \in BOOLEAN : EnqueueCall(alloc)
  BY <1>1, <1>2 DEF EnqueueCall, EnqRoom, consumer, sema
<1>3. CASE EnqueueStep
  <2>1. UNCHANGED <<signals, acquired, waitPc>>
    BY <1>3 DEF EnqueueStep, sema
  <2>2. sent < MaxItems
    BY <1>3, EnqueuingCounts DEF EnqueueStep, BlockingInv, EnqBusy
  <2> QED  BY <1>1, <1>3, <2>1, <2>2, EnqueuingCounts DEF EnqueueStep
<1>4. CASE EnqueueReturn
  <2>1. /\ enqPc \in {"enqueued", "failed"} /\ enqPc' = "idle"
        /\ UNCHANGED <<sent, got, deqPc, peeking, wasEmpty>>
        /\ acquired' = acquired /\ waitPc' = waitPc
        /\ signals' = IF enqPc = "enqueued" THEN signals + 1 ELSE signals
    BY <1>4 DEF EnqueueReturn, EnqReturn, Signal, sema, consumer
  <2> QED  BY <1>1, <2>1
<1>5. CASE EnqueuePost
  BY <1>1, <1>5 DEF EnqueuePost, Post, rwq, producer, consumer
<1>6. CASE TryDequeue
  BY <1>1, <1>6 DEF TryDequeue, TryWait, rwq, producer, consumer, sema
<1>7. CASE \E t \in BOOLEAN : WaitDequeue(t)
  BY <1>1, <1>7 DEF WaitDequeue, WaitCall, rwq, producer, consumer
<1>8. CASE WaitStep
  <2>1. UNCHANGED <<sent, got, enqPc, deqPc, peeking, wasEmpty>>
    BY <1>8 DEF WaitStep, rwq, producer, consumer
  <2>2. /\ waitPc \notin {"idle", "acquired", "timedout"}
        /\ acquired' = acquired + (IF waitPc' = "acquired" THEN 1 ELSE 0)
        /\ signals' = signals
    BY <1>1, <1>8, WaitingCounts DEF WaitStep
  <2>3. deqPc = "idle" /\ deqPc' = "idle"
    BY <1>1, <2>1, <2>2
  <2> QED  BY <1>1, <2>1, <2>2, <2>3
(* The consumer looks after a signal that no dequeue has answered: there   *)
(* is an element.                                                          *)
<1>9. CASE DequeueCall
  <2>1. /\ waitPc = "acquired" /\ deqPc = "idle" /\ peeking' = FALSE
        /\ wasEmpty' = (Contents = <<>>) /\ got' = got /\ sent' = sent
        /\ enqPc' = enqPc /\ deqPc' \in {"take", "last"}
        /\ UNCHANGED <<signals, acquired, waitPc>>
    BY <1>9 DEF DequeueCall, DeqLook, producer, sema
  <2>2. got < sent
    <3>1. acquired = got + 1
      BY <1>1, <2>1
    <3> QED  BY <1>1, <3>1, BlockingNumbers
  <2>3. Contents # <<>>
    <3>1. Nums(got, sent) # <<>>
      BY <1>1, <2>2, NumsStep
    <3> QED  BY <3>1, BlockingNumbers
  <2> QED  BY <1>1, <2>1, <2>3
<1>10. CASE PeekCall
  BY <1>1, <1>10 DEF PeekCall, DeqLook, producer, sema
<1>11. CASE DequeueStep
  <2>1. UNCHANGED <<signals, acquired, waitPc>> /\ Dequeuing
    BY <1>11 DEF DequeueStep, sema
  <2>2. IF deqPc' = "free" THEN got' = got + 1 ELSE got' = got
    BY <2>1, DequeuingCounts DEF Moves
  <2>3. CASE deqPc' = "free"
    BY <1>1, <2>1, <2>2, <2>3, DequeuingCounts
  <2>4. CASE deqPc' # "free"
    BY <1>1, <2>1, <2>2, <2>4, DequeuingCounts
  <2> QED  BY <2>3, <2>4
<1>12. CASE DequeueReturn
  <2>1. /\ waitPc \in {"acquired", "timedout"} /\ waitPc' = "idle"
        /\ UNCHANGED <<signals, acquired>>
    BY <1>12 DEF DequeueReturn, Return
  <2>2. CASE waitPc = "acquired"
    <3>1. /\ deqPc \in {"dequeued", "shown", "empty"} /\ deqPc' = "idle"
          /\ wasEmpty' = FALSE /\ UNCHANGED <<sent, got, enqPc>>
      BY <1>12, <2>2 DEF DequeueReturn, DeqReturn, producer
    <3>2. deqPc = "dequeued"
      <4>1. deqPc = "empty" => wasEmpty
        BY InvIsFalseOnlyIfEmpty DEF BlockingInv, FalseOnlyIfEmpty
      <4> QED  BY <1>1, <2>2, <3>1, <4>1
    <3> QED  BY <1>1, <2>1, <2>2, <3>1, <3>2
  <2>3. CASE waitPc = "timedout"
    <3>1. UNCHANGED <<sent, got, enqPc, deqPc, peeking, wasEmpty>>
      BY <1>12, <2>3 DEF DequeueReturn, rwq, producer, consumer
    <3>2. deqPc = "idle"
      BY <1>1, <2>3
    <3> QED  BY <1>1, <2>1, <2>3, <3>1, <3>2
  <2> QED  BY <2>1, <2>2, <2>3
<1>13. CASE PeekReturn
  <2>1. /\ waitPc = "idle" /\ deqPc' = "idle" /\ UNCHANGED <<sent, got, enqPc>>
        /\ UNCHANGED <<signals, acquired, waitPc>>
    BY <1>13 DEF PeekReturn, DeqReturn, producer, sema
  <2> QED  BY <1>1, <2>1
<1> QED
  BY <1>2, <1>3, <1>4, <1>5, <1>6, <1>7, <1>8, <1>9, <1>10, <1>11, <1>12, <1>13
  DEF BlockingNext, Producer, Dequeue, Consumer

(* Together: the invariant is inductive.                                   *)
LEMMA BlockingKept ==
    ASSUME BlockingInv, [BlockingNext]_vars
    PROVE  BlockingInv' /\ Moves
<1>1. RingInv' /\ Moves
  BY QueueStepIsRingStep, StepKeeps, ReaderWriterQueueAssumption DEF BlockingInv
<1>2. EnqBusy'
  BY QueueStepIsRingStep, StepKeepsBusy DEF BlockingInv
<1>3. SemaInv'
  <2>1. [SemaNext]_sema
    BY QueueStepIsSemaStep DEF vars
  <2> QED  BY <2>1, SemaKeepsBalance DEF BlockingInv
<1>4. Accounts'
  <2>1. CASE BlockingNext
    BY <1>1, <1>2, <2>1, AccountsKept
  <2>2. CASE UNCHANGED vars
    BY <2>2 DEF vars, rwq, producer, consumer, sema, BlockingInv, Accounts
  <2> QED  BY <2>1, <2>2
<1> QED  BY <1>1, <1>2, <1>3, <1>4 DEF BlockingInv

(* The invariant holds throughout.                                         *)
THEOREM BlockingHolds ==
    ASSUME 0 \notin Sizes
    PROVE  BlockingSafety => []BlockingInv
<1>1. BlockingInit => BlockingInv
  BY BlockingStarts
<1>2. BlockingInv /\ [BlockingNext]_vars => BlockingInv'
  BY BlockingKept
<1> QED  BY <1>1, <1>2, PTL DEF BlockingSafety

(* A dequeue that the semaphore lets through finds an element, and         *)
(* size_approx promises none that is not there.                            *)
THEOREM BlockingSuccess ==
    ASSUME 0 \notin Sizes
    PROVE  BlockingSafety => []SuccessAsserted
<1>1. BlockingInv => SuccessAsserted
  <2> SUFFICES ASSUME BlockingInv PROVE SuccessAsserted
    OBVIOUS
  <2>1. deqPc = "empty" => peeking
    <3>1. deqPc = "empty" => wasEmpty
      BY InvIsFalseOnlyIfEmpty DEF BlockingInv, FalseOnlyIfEmpty
    <3> QED  BY <3>1 DEF BlockingInv, Accounts
  <2>2. Len(Contents) = sent - got
    <3>1. got \in Nat /\ sent \in Nat /\ got <= sent /\ Contents = Nums(got, sent)
      BY BlockingNumbers
    <3>2. Len(Nums(got, sent)) = sent - got
      BY <3>1, NumsEmpty
    <3> QED  BY <3>1, <3>2
  <2>3. size_approx <= sent - got
    BY BlockingNumbers DEF size_approx, availableApprox
  <2> QED  BY <2>1, <2>2, <2>3 DEF SuccessAsserted
<1> QED  BY <1>1, BlockingHolds, PTL
-----------------------------------------------------------------------------
(* The queue as its clients see it: what was signalled and not dequeued.   *)
LEMMA SignalledIs ==
    ASSUME BlockingInv
    PROVE  (IF enqPc = "enqueued" THEN Front(Contents) ELSE Contents)
              = Nums(got, signals)
<1>1. /\ got \in Nat /\ sent \in Nat /\ signals \in Nat /\ got <= signals
      /\ Contents = Nums(got, sent)
  BY BlockingNumbers
<1>2. sent = signals + (IF enqPc = "enqueued" THEN 1 ELSE 0)
  BY DEF BlockingInv, Accounts
<1>3. CASE enqPc = "enqueued"
  <2> DEFINE s == Nums(got, sent)
             n == signals - got
  <2>1. /\ n \in Nat /\ s = [i \in 1 .. n + 1 |-> got + i]
        /\ Nums(got, signals) = [i \in 1 .. n |-> got + i]
    BY <1>1, <1>2, <1>3 DEF Nums
  <2> HIDE DEF s, n
  <2>2. s \in Seq(Nat) /\ Len(s) = n + 1
    BY <1>1, <2>1
  <2>3. Front(s) = SubSeq(s, 1, n)
    BY <2>1, <2>2 DEF Front
  <2>4. SubSeq(s, 1, n) = [i \in 1 .. n |-> got + i]
    BY <1>1, <2>1, <2>2
  <2> QED  BY <1>1, <1>3, <2>1, <2>3, <2>4 DEF s
<1>4. CASE enqPc # "enqueued"
  BY <1>1, <1>2, <1>4
<1> QED  BY <1>3, <1>4

(* Each step enqueues, dequeues, times out on an empty queue, or changes   *)
(* nothing that a client can see.                                          *)
LEMMA StepIsTimed ==
    ASSUME BlockingInv, [BlockingNext]_vars, NEW q, NEW qNew,
           q = Nums(got, signals), qNew = Nums(got', signals')
    PROVE  \/ /\ \E e \in 1 .. MaxItems : qNew = Append(q, e)
              /\ answer' = answer
           \/ q # <<>> /\ answer' = Head(q) /\ qNew = Tail(q)
           \/ q = <<>> /\ answer' = 0 /\ qNew = q
           \/ qNew = q /\ answer' = answer
<1>1. /\ Accounts /\ SemaInv /\ got \in Nat /\ signals \in Nat
      /\ got <= signals /\ got <= acquired /\ acquired <= signals
      /\ acquired \in Nat /\ sent \in Nat /\ MaxItems \in Nat
  BY BlockingNumbers, ReaderWriterQueueAssumption
  DEF BlockingInv, ReaderWriterQueueAssumption
<1>2. got = signals => q = <<>>
  BY <1>1, NumsEmpty
<1>3. CASE UNCHANGED <<got, signals, answer>>
  BY <1>3
<1>4. CASE (\E alloc \in BOOLEAN : EnqueueCall(alloc)) \/ EnqueueStep
  <2>1. got' = got
    BY <1>4, EnqueuingCounts DEF EnqueueCall, EnqRoom, EnqueueStep, consumer
  <2> QED  BY <1>3, <1>4, <2>1 DEF EnqueueCall, EnqueueStep, sema
<1>5. CASE EnqueueReturn
  <2>1. got' = got /\ answer' = answer
    BY <1>5 DEF EnqueueReturn, EnqReturn, consumer
  <2>2. CASE enqPc = "enqueued"
    <3>1. signals' = signals + 1
      BY <1>5, <2>2 DEF EnqueueReturn, Signal
    <3>2. signals + 1 \in 1 .. MaxItems
      BY <1>1, <2>2 DEF Accounts
    <3>3. qNew = Append(q, signals + 1)
      BY <1>1, <2>1, <3>1, NumsStep
    <3> QED  BY <2>1, <3>2, <3>3
  <2>3. CASE enqPc # "enqueued"
    BY <1>3, <1>5, <2>1, <2>3 DEF EnqueueReturn, sema
  <2> QED  BY <2>2, <2>3
<1>6. CASE EnqueuePost
  BY <1>3, <1>6 DEF EnqueuePost, Post, rwq, consumer
<1>7. CASE TryDequeue
  <2>1. got' = got /\ deqPc = "idle" /\ signals' = signals
    BY <1>7 DEF TryDequeue, TryWait, rwq, consumer, sema
  <2>2. CASE answer' = answer
    BY <1>3, <2>1, <2>2
  <2>3. CASE waitPc = "idle" /\ count <= 0 /\ answer' = 0
    <3>1. acquired = signals
      BY <2>3, BlockingNumbers
    <3>2. got = signals
      BY <1>1, <2>1, <2>3, <3>1 DEF Accounts
    <3> QED  BY <1>2, <2>1, <2>3, <3>2
  <2> QED  BY <1>7, <2>2, <2>3 DEF TryDequeue
<1>8. CASE \E t \in BOOLEAN : WaitDequeue(t)
  BY <1>3, <1>8 DEF WaitDequeue, WaitCall, rwq, consumer
<1>9. CASE WaitStep
  <2>1. got' = got /\ Waiting
    BY <1>9 DEF WaitStep, rwq, consumer
  <2>2. signals' = signals /\ waitPc \notin {"idle", "acquired"}
    BY <1>1, <2>1, WaitingCounts
  <2>3. CASE waitPc' = "timedout"
    <3>1. waitPc = "restore" /\ count < 0
      BY <2>1, <2>3 DEF Waiting, TakeSignal, Spin, SpinAgain, SpinEnd, Woken,
                        TimeOut, Restore, Retry, TryKernel
    <3>2. acquired = signals
      BY <3>1, BlockingNumbers
    <3>3. got = signals
      BY <1>1, <2>2, <3>2 DEF Accounts
    <3> QED  BY <1>2, <1>9, <2>1, <2>2, <2>3, <3>3 DEF WaitStep
  <2>4. CASE waitPc' # "timedout"
    BY <1>3, <1>9, <2>1, <2>2, <2>4 DEF WaitStep
  <2> QED  BY <2>3, <2>4
<1>10. CASE DequeueCall \/ PeekCall
  BY <1>3, <1>10 DEF DequeueCall, PeekCall, DeqLook, sema
<1>11. CASE DequeueStep
  <2>1. signals' = signals /\ Dequeuing
    BY <1>11 DEF DequeueStep, sema
  <2>2. CASE deqPc' = "free"
    <3>1. deqPc = "take" /\ ~peeking /\ got' = got + 1
      BY <2>1, <2>2, BlockingKept, DequeuingCounts DEF Moves
    <3>2. acquired = got + 1
      BY <1>1, <3>1 DEF Accounts
    <3>3. got < signals
      BY <1>1, <3>2
    <3>4. q # <<>> /\ Head(q) = got + 1 /\ Tail(q) = Nums(got + 1, signals)
      BY <1>1, <3>3, NumsStep
    <3>5. answer' = got'
      BY <1>11, <2>2 DEF DequeueStep
    <3> QED  BY <2>1, <3>1, <3>4, <3>5
  <2>3. CASE deqPc' # "free"
    BY <1>3, <1>11, <2>1, <2>3, DequeuingCounts DEF DequeueStep
  <2> QED  BY <2>2, <2>3
<1>12. CASE DequeueReturn
  BY <1>3, <1>12 DEF DequeueReturn, DeqReturn, Return, rwq, consumer
<1>13. CASE PeekReturn
  BY <1>3, <1>13 DEF PeekReturn, DeqReturn, sema
<1>14. CASE UNCHANGED vars
  BY <1>3, <1>14 DEF vars, rwq, consumer, sema
<1> QED
  BY <1>4, <1>5, <1>6, <1>7, <1>8, <1>9, <1>10, <1>11, <1>12, <1>13, <1>14
  DEF BlockingNext, Producer, Dequeue, Consumer

(* The sources and the sinks have the queue they rely on, however a        *)
(* timeout meets the signal of the next element.                           *)
THEOREM BlockingIsTimed ==
    ASSUME 0 \notin Sizes
    PROVE  BlockingSafety => TimedSpec
<1> DEFINE q == IF enqPc = "enqueued" THEN Front(Contents) ELSE Contents
<1>1. BlockingInit => BlockingInv
  BY BlockingStarts
<1>2. BlockingInv /\ [BlockingNext]_vars => BlockingInv'
  BY BlockingKept
<1>3. BlockingInv => q = Nums(got, signals)
  BY SignalledIs
<1>4. BlockingInv' => (q = Nums(got, signals))'
  BY <1>3, PTL
<1>5. BlockingInit => Timed!Init
  <2> SUFFICES ASSUME BlockingInit PROVE q = <<>> /\ answer = 0
    BY DEF Timed!Init
  <2>1. got = 0 /\ signals = 0 /\ answer = 0
    BY DEF BlockingInit, RingInit, SemaInit
  <2>2. Nums(0, 0) = <<>>
    BY NumsEmpty
  <2>3. q = Nums(got, signals)
    BY <1>1, <1>3
  <2> QED  BY <2>1, <2>2, <2>3
<1>6. BlockingInv /\ BlockingInv' /\ [BlockingNext]_vars
         => [Timed!Next]_<<q, answer>>
  <2> SUFFICES ASSUME BlockingInv, BlockingInv', [BlockingNext]_vars
               PROVE  [Timed!Next]_<<q, answer>>
    OBVIOUS
  <2>1. q = Nums(got, signals) /\ q' = Nums(got', signals')
    BY <1>3, <1>4
  <2> HIDE DEF q
  <2>2. \/ /\ \E e \in 1 .. MaxItems : q' = Append(q, e)
           /\ answer' = answer
        \/ q # <<>> /\ answer' = Head(q) /\ q' = Tail(q)
        \/ q = <<>> /\ answer' = 0 /\ q' = q
        \/ q' = q /\ answer' = answer
    BY <2>1, StepIsTimed
  <2> QED  BY <2>2 DEF Timed!Next, Timed!Enqueue, Timed!Dequeue, Timed!TimeOut, q
<1> QED  BY <1>1, <1>2, <1>5, <1>6, PTL DEF BlockingSafety, TimedSpec, Timed!Spec
=============================================================================
