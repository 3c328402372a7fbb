--------------------------- MODULE CircularBuffer ---------------------------
(***************************************************************************)
(* BlockingReaderWriterCircularBuffer<T>                                   *)
(* (queue/readerwritercircularbuffer.h): a buffer of a fixed number of     *)
(* slots for one producer and one consumer, who share nothing but the      *)
(* slots and two semaphores.  The producer waits for one that counts the   *)
(* free slots and signals one that counts the elements; the consumer the   *)
(* other way round.                                                        *)
(*                                                                         *)
(* The i-th element to be enqueued is the number i; 0 is a free slot.      *)
(***************************************************************************)
EXTENDS Integers, Sequences, PowersOfTwo

CONSTANTS Capacities,    \* what may be given to the constructor
          Wrap,          \* where nextSlot and nextItem start again (2^64)
          MaxItems       \* elements that are enqueued

ASSUME CircularBufferAssumption ==
    /\ Capacities \subseteq Nat \ {0}
    /\ Wrap \in Nat
    /\ \E w \in 1 .. Wrap : Wrap = pow2[w]
    /\ \A n \in Capacities : n < Wrap
    /\ MaxItems \in Nat

VARIABLES maxcap,        \* the capacity
          data,          \* the slots
          nextSlot,      \* index of the next slot to enqueue into
          nextItem,      \* index of the next element to dequeue
          putPc,         \* the producer, in inner_enqueue
          sent,          \* history: elements stored so far
          accepted,      \* what the last call of the producer returned
          takePc,        \* the consumer, in inner_dequeue
          got,           \* the element last moved out of its slot
          answer,        \* what the last call of the consumer returned, or 0
          slotCount, slotPosts, slotSig, slotWait, slotTimed, slotSignals,
          slotAcquired,  \* slots: the free slots, for which the producer waits
          itemCount, itemPosts, itemSig, itemWait, itemTimed, itemSignals,
          itemAcquired   \* items: the elements, for which the consumer waits

slots == <<slotCount, slotPosts, slotSig, slotWait, slotTimed, slotSignals,
           slotAcquired>>
items == <<itemCount, itemPosts, itemSig, itemWait, itemTimed, itemSignals,
           itemAcquired>>

Slots == INSTANCE LightweightSemaphore WITH
    count <- slotCount, posts <- slotPosts, sigPc <- slotSig, waitPc <- slotWait,
    timed <- slotTimed, signals <- slotSignals, acquired <- slotAcquired
Items == INSTANCE LightweightSemaphore WITH
    count <- itemCount, posts <- itemPosts, sigPc <- itemSig, waitPc <- itemWait,
    timed <- itemTimed, signals <- itemSignals, acquired <- itemAcquired

buffer   == <<maxcap, data, nextSlot, nextItem>>
producer == <<putPc, sent, accepted>>
consumer == <<takePc, got, answer>>
vars     == <<buffer, producer, consumer, slots, items>>
-----------------------------------------------------------------------------
(* The constructor rounds the number of slots up to a power of two, so that *)
(* an index can be masked and may wrap around.  Mutant: it does not.        *)

MaskExact(n) == n - 1

Mask(n) == CeilToPow2(n) - 1

Slot(i) == i % (Mask(maxcap) + 1)

BufferInit ==
    /\ maxcap \in Capacities
    /\ data = [i \in 0 .. Mask(maxcap) |-> 0]
    /\ nextSlot = 0
    /\ nextItem = 0
    /\ putPc = "idle"
    /\ sent = 0
    /\ accepted = TRUE
    /\ takePc = "idle"
    /\ got = 0
    /\ answer = 0
    /\ Slots!SemaInit(maxcap)
    /\ Items!SemaInit(0)
-----------------------------------------------------------------------------
(* try_enqueue, wait_enqueue and wait_enqueue_timed *)

EnqueueCall ==
    /\ putPc = "idle"
    /\ sent < MaxItems
    /\ UNCHANGED <<buffer, putPc, sent, consumer, items>>

try_enqueue ==
    /\ EnqueueCall
    /\ \/ Slots!TryWait /\ UNCHANGED accepted
       \/ /\ slotWait = "idle"
          /\ slotCount <= 0
          /\ accepted' = FALSE
          /\ UNCHANGED slots

wait_enqueue(t) == EnqueueCall /\ Slots!WaitCall(t) /\ UNCHANGED accepted

WaitForSlot ==
    /\ Slots!Waiting
    /\ accepted' = IF slotWait' = "timedout" THEN FALSE ELSE accepted
    /\ UNCHANGED <<buffer, putPc, sent, consumer, items>>

(* inner_enqueue *)
Store ==
    /\ putPc = "idle"
    /\ slotWait = "acquired"
    /\ nextSlot' = (nextSlot + 1) % Wrap
    /\ data' = [data EXCEPT ![Slot(nextSlot)] = sent + 1]
    /\ sent' = sent + 1
    /\ putPc' = "signal"
    /\ UNCHANGED <<maxcap, nextItem, accepted, consumer, slots, items>>

SignalItem ==
    /\ putPc = "signal"
    /\ Items!Signal
    /\ accepted' = TRUE
    /\ putPc' = "return"
    /\ UNCHANGED <<buffer, sent, consumer, slots>>

PostItem == Items!Post /\ UNCHANGED <<buffer, producer, consumer, slots>>

EnqueueReturn ==
    /\ \/ putPc = "return" /\ itemSig = "idle"
       \/ slotWait = "timedout"
    /\ Slots!Return
    /\ putPc' = "idle"
    /\ UNCHANGED <<buffer, sent, accepted, consumer, items>>
-----------------------------------------------------------------------------
(* try_dequeue, wait_dequeue and wait_dequeue_timed *)

try_dequeue ==
    /\ takePc = "idle"
    /\ \/ Items!TryWait /\ UNCHANGED answer
       \/ /\ itemWait = "idle"
          /\ itemCount <= 0
          /\ answer' = 0
          /\ UNCHANGED items
    /\ UNCHANGED <<buffer, producer, takePc, got, slots>>

wait_dequeue(t) ==
    /\ takePc = "idle"
    /\ Items!WaitCall(t)
    /\ UNCHANGED <<buffer, producer, consumer, slots>>

WaitForItem ==
    /\ Items!Waiting
    /\ answer' = IF itemWait' = "timedout" THEN 0 ELSE answer
    /\ UNCHANGED <<buffer, producer, takePc, got, slots>>

(* inner_dequeue.  Mutant: the slot is offered before it is free. *)
Take ==
    /\ takePc = "idle"
    /\ itemWait = "acquired"
    /\ nextItem' = (nextItem + 1) % Wrap
    /\ got' = data[Slot(nextItem)]
    /\ takePc' = "destroy"
    /\ UNCHANGED <<maxcap, data, nextSlot, producer, answer, slots, items>>

DestroyLate ==
    /\ takePc = "destroy"
    /\ takePc' = "signal"
    /\ UNCHANGED <<buffer, producer, got, answer, slots, items>>

Destroy ==
    /\ takePc = "destroy"
    /\ data' = [data EXCEPT ![Slot(nextItem + Wrap - 1)] = 0]
    /\ takePc' = "signal"
    /\ UNCHANGED <<maxcap, nextSlot, nextItem, producer, got, answer, slots,
                   items>>

(* Mutant: nobody is told of the slot. *)
SignalNoSlot ==
    /\ takePc = "signal"
    /\ answer' = got
    /\ takePc' = "return"
    /\ UNCHANGED <<buffer, producer, got, slots, items>>

SignalSlot ==
    /\ takePc = "signal"
    /\ Slots!Signal
    /\ answer' = got
    /\ takePc' = "return"
    /\ UNCHANGED <<buffer, producer, got, items>>

PostSlot == Slots!Post /\ UNCHANGED <<buffer, producer, consumer, items>>

DequeueReturn ==
    /\ \/ takePc = "return" /\ slotSig = "idle"
       \/ itemWait = "timedout"
    /\ Items!Return
    /\ takePc' = "idle"
    /\ UNCHANGED <<buffer, producer, got, answer, slots>>
-----------------------------------------------------------------------------
Producer == WaitForSlot \/ Store \/ SignalItem \/ PostItem \/ EnqueueReturn

Consumer ==
    \/ try_dequeue \/ (\E t \in BOOLEAN : wait_dequeue(t)) \/ WaitForItem
    \/ Take \/ Destroy \/ SignalSlot \/ PostSlot \/ DequeueReturn

BufferNext ==
    \/ try_enqueue \/ (\E t \in BOOLEAN : wait_enqueue(t)) \/ Producer
    \/ Consumer

BufferSafety == BufferInit /\ [][BufferNext]_vars

(* The producer ends what it began; the consumer, the loop of a thread,    *)
(* calls again and again.                                                  *)
BufferSpec == BufferSafety /\ WF_vars(Producer) /\ WF_vars(Consumer)
-----------------------------------------------------------------------------
(* The elements from the signal that announces each to the one that frees  *)
(* its slot.                                                               *)
Contents ==
    LET stored  == (nextSlot + Wrap - nextItem) % Wrap
        visible == stored - (IF putPc = "signal" THEN 1 ELSE 0)
    IN  (IF takePc \in {"destroy", "signal"} THEN <<got>> ELSE <<>>)
           \o [i \in 1 .. visible |-> data[Slot(nextItem + i - 1)]]

(* The destructor: the slots of as many elements as items has counted.     *)
(* Mutant: as many as the producer has put and the consumer has taken.     *)
DestroyedByIndex == {Slot(nextItem + i) : i \in 0 .. nextSlot - nextItem - 1}

Destroyed == {Slot(nextItem + i) : i \in 0 .. Items!availableApprox - 1}

(* The two never meet in a slot: the producer constructs only where the    *)
(* consumer has destroyed, the consumer moves only from where the producer *)
(* has constructed, though neither looks at the index of the other, and    *)
(* both indices wrap around.                                               *)
SlotsApart ==
    /\ putPc = "idle" /\ slotWait = "acquired" => data[Slot(nextSlot)] = 0
    /\ takePc = "idle" /\ itemWait = "acquired" =>
          data[Slot(nextItem)] # 0

(* Both semaphores account for every signal, and together for every slot:  *)
(* it is free, holds an element that is announced, or is in the hands of   *)
(* the one or the other.                                                   *)
Conserved ==
    /\ Slots!Balanced /\ Items!Balanced
    /\ maxcap = (slotSignals - slotAcquired) + (itemSignals - itemAcquired)
                  + (IF slotWait = "acquired" /\ putPc # "return" THEN 1 ELSE 0)
                  + (IF itemWait = "acquired" /\ takePc # "return" THEN 1 ELSE 0)

(* "The queue should not be accessed concurrently while it's being         *)
(* deleted": then the destructor destroys every element that is left, and  *)
(* nothing else.                                                           *)
DestroysWhatIsLeft ==
    slotWait = "idle" /\ itemWait = "idle" =>
        Destroyed = {i \in DOMAIN data : data[i] # 0}

Bounded == INSTANCE BoundedQueue WITH
    Elements <- 1 .. MaxItems, Nothing <- 0, queue <- Contents,
    capacity <- maxcap

(* A queue of at most maxcap elements in their order; "fails if not enough *)
(* room", "returns false if the buffer is empty", and only then, however a *)
(* timeout meets the signal of the other side.                             *)
BoundedSpec == Bounded!BoundedSpec

(* No wake-up is lost on either side: each element is dequeued, and a      *)
(* producer that waits for room, with a timeout or without, returns.       *)
ItemsDelivered == \A i \in 1 .. MaxItems : sent >= i ~> got >= i
RoomIsMade     == slotWait # "idle" ~> slotWait = "idle"
=============================================================================
