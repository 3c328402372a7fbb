------------------------- MODULE CircularBuffer_proofs -------------------------
(***************************************************************************)
(* That the two semaphores of a circular buffer account for each of its    *)
(* slots, that its threads never meet in one though both indices wrap      *)
(* around, and that it is a bounded queue: for any capacity and any number *)
(* of elements, calls and timeouts.                                        *)
(***************************************************************************)
EXTENDS CircularBuffer, QueueLemmas

SlotsProved == INSTANCE LightweightSemaphore_proofs WITH
    count <- slotCount, posts <- slotPosts, sigPc <- slotSig, waitPc <- slotWait,
    timed <- slotTimed, signals <- slotSignals, acquired <- slotAcquired
ItemsProved == INSTANCE LightweightSemaphore_proofs WITH
    count <- itemCount, posts <- itemPosts, sigPc <- itemSig, waitPc <- itemWait,
    timed <- itemTimed, signals <- itemSignals, acquired <- itemAcquired

SlotsInv == Slots!SemaTypeOK /\ Slots!Balanced
ItemsInv == Items!SemaTypeOK /\ Items!Balanced

(* A slot the producer has in hand, from the wait that gave it to the      *)
(* signal that announces its element; and the consumer's likewise.         *)
InHand(waitPc, pc) == IF waitPc = "acquired" /\ pc # "return" THEN 1 ELSE 0

Account ==
    maxcap = (slotSignals - slotAcquired) + (itemSignals - itemAcquired)
                + InHand(slotWait, putPc) + InHand(itemWait, takePc)

(* A thread is in inner_enqueue or inner_dequeue only once its wait has    *)
(* succeeded.                                                              *)
Inside ==
    /\ putPc \in {"idle", "signal", "return"}
    /\ takePc \in {"idle", "destroy", "signal", "return"}
    /\ putPc # "idle" => slotWait = "acquired"
    /\ takePc # "idle" => itemWait = "acquired"

BufferInv ==
    /\ maxcap \in Nat
    /\ SlotsInv /\ ItemsInv /\ Account /\ Inside

(* What the semaphores promise, of the one and of the other.               *)
LEMMA SlotsKeepBalance ==
    ASSUME SlotsInv, [Slots!SemaNext]_slots
    PROVE  SlotsInv'
<1>1. SlotsProved!SemaInv
  BY DEF SlotsInv, SlotsProved!SemaInv, SlotsProved!SemaTypeOK, Slots!SemaTypeOK,
         SlotsProved!Balanced, Slots!Balanced, SlotsProved!Owing, Slots!Owing
<1>2. [SlotsProved!SemaNext]_SlotsProved!sema
  BY DEF slots, Slots!SemaNext, SlotsProved!SemaNext, Slots!Signal,
         SlotsProved!Signal, Slots!Post, SlotsProved!Post, Slots!TryWait,
         SlotsProved!TryWait, Slots!WaitCall, SlotsProved!WaitCall,
         Slots!Waiting, SlotsProved!Waiting, Slots!TakeSignal,
         SlotsProved!TakeSignal, Slots!Spin, SlotsProved!Spin,
         Slots!SpinAgain, SlotsProved!SpinAgain, Slots!SpinEnd,
         SlotsProved!SpinEnd, Slots!Woken, SlotsProved!Woken, Slots!TimeOut,
         SlotsProved!TimeOut, Slots!Restore, SlotsProved!Restore,
         Slots!Retry, SlotsProved!Retry, Slots!TryKernel,
         SlotsProved!TryKernel, Slots!Return, SlotsProved!Return, Slots!sema,
         SlotsProved!sema
<1>3. SlotsProved!SemaInv'
  BY <1>1, <1>2, SlotsProved!SemaKeepsBalance
<1> QED
  BY <1>3
  DEF SlotsInv, SlotsProved!SemaInv, SlotsProved!SemaTypeOK, Slots!SemaTypeOK,
      SlotsProved!Balanced, Slots!Balanced, SlotsProved!Owing, Slots!Owing

(* The same of the semaphore that counts the elements.                     *)
LEMMA ItemsKeepBalance ==
    ASSUME ItemsInv, [Items!SemaNext]_items
    PROVE  ItemsInv'
<1>1. ItemsProved!SemaInv
  BY DEF ItemsInv, ItemsProved!SemaInv, ItemsProved!SemaTypeOK, Items!SemaTypeOK,
         ItemsProved!Balanced, Items!Balanced, ItemsProved!Owing, Items!Owing
<1>2. [ItemsProved!SemaNext]_ItemsProved!sema
  BY DEF items, Items!SemaNext, ItemsProved!SemaNext, Items!Signal,
         ItemsProved!Signal, Items!Post, ItemsProved!Post, Items!TryWait,
         ItemsProved!TryWait, Items!WaitCall, ItemsProved!WaitCall,
         Items!Waiting, ItemsProved!Waiting, Items!TakeSignal,
         ItemsProved!TakeSignal, Items!Spin, ItemsProved!Spin,
         Items!SpinAgain, ItemsProved!SpinAgain, Items!SpinEnd,
         ItemsProved!SpinEnd, Items!Woken, ItemsProved!Woken, Items!TimeOut,
         ItemsProved!TimeOut, Items!Restore, ItemsProved!Restore,
         Items!Retry, ItemsProved!Retry, Items!TryKernel,
         ItemsProved!TryKernel, Items!Return, ItemsProved!Return, Items!sema,
         ItemsProved!sema
<1>3. ItemsProved!SemaInv'
  BY <1>1, <1>2, ItemsProved!SemaKeepsBalance
<1> QED
  BY <1>3
  DEF ItemsInv, ItemsProved!SemaInv, ItemsProved!SemaTypeOK, Items!SemaTypeOK,
      ItemsProved!Balanced, Items!Balanced, ItemsProved!Owing, Items!Owing

(* The step of a wait that acquires a slot is the one that is counted.     *)
LEMMA SlotsWaitingCounts ==
    ASSUME SlotsInv, Slots!Waiting
    PROVE  /\ slotWait \notin {"idle", "acquired", "timedout"}
           /\ slotWait' # "idle"
           /\ slotAcquired' = slotAcquired
                                 + (IF slotWait' = "acquired" THEN 1 ELSE 0)
           /\ slotSignals' = slotSignals
  BY DEF SlotsInv, Slots!SemaTypeOK, Slots!Waiting, Slots!TakeSignal, Slots!Spin,
         Slots!SpinAgain, Slots!SpinEnd, Slots!Woken, Slots!TimeOut,
         Slots!Restore, Slots!Retry, Slots!TryKernel

(* And the step of a wait that acquires an element.                        *)
LEMMA ItemsWaitingCounts ==
    ASSUME ItemsInv, Items!Waiting
    PROVE  /\ itemWait \notin {"idle", "acquired", "timedout"}
           /\ itemWait' # "idle"
           /\ itemAcquired' = itemAcquired
                                 + (IF itemWait' = "acquired" THEN 1 ELSE 0)
           /\ itemSignals' = itemSignals
  BY DEF ItemsInv, Items!SemaTypeOK, Items!Waiting, Items!TakeSignal, Items!Spin,
         Items!SpinAgain, Items!SpinEnd, Items!Woken, Items!TimeOut,
         Items!Restore, Items!Retry, Items!TryKernel

-----------------------------------------------------------------------------
(* Each step of the buffer is a step of each semaphore, or none.           *)
LEMMA BufferStepIsSemaStep ==
    BufferNext => [Slots!SemaNext]_slots /\ [Items!SemaNext]_items
<1> SUFFICES ASSUME BufferNext
             PROVE  [Slots!SemaNext]_slots /\ [Items!SemaNext]_items
  OBVIOUS
<1>1. CASE try_enqueue
  BY <1>1 DEF try_enqueue, EnqueueCall, Slots!SemaNext
<1>2. CASE \E t \in BOOLEAN : wait_enqueue(t)
  BY <1>2 DEF wait_enqueue, EnqueueCall, Slots!SemaNext
<1>3. CASE WaitForSlot
  BY <1>3 DEF WaitForSlot, Slots!SemaNext
<1>4. CASE Store
  BY <1>4 DEF Store
<1>5. CASE SignalItem
  BY <1>5 DEF SignalItem, Items!SemaNext
<1>6. CASE PostItem
  BY <1>6 DEF PostItem, Items!SemaNext
<1>7. CASE EnqueueReturn
  BY <1>7 DEF EnqueueReturn, Slots!SemaNext
<1>8. CASE try_dequeue
  BY <1>8 DEF try_dequeue, Items!SemaNext
<1>9. CASE \E t \in BOOLEAN : wait_dequeue(t)
  BY <1>9 DEF wait_dequeue, Items!SemaNext
<1>10. CASE WaitForItem
  BY <1>10 DEF WaitForItem, Items!SemaNext
<1>11. CASE Take \/ Destroy
  BY <1>11 DEF Take, Destroy
<1>12. CASE SignalSlot
  BY <1>12 DEF SignalSlot, Slots!SemaNext
<1>13. CASE PostSlot
  BY <1>13 DEF PostSlot, Slots!SemaNext
<1>14. CASE DequeueReturn
  BY <1>14 DEF DequeueReturn, Items!SemaNext
<1> QED
  BY <1>1, <1>2, <1>3, <1>4, <1>5, <1>6, <1>7, <1>8, <1>9, <1>10, <1>11,
     <1>12, <1>13, <1>14 DEF BufferNext, Producer, Consumer

(* The constructor: every slot is free, and the producer may have it.      *)
LEMMA BufferInitInv == BufferInit => BufferInv
<1> SUFFICES ASSUME BufferInit PROVE BufferInv
  OBVIOUS
<1>1. maxcap \in Nat
  BY CircularBufferAssumption DEF BufferInit
<1>2. SlotsInv
  <2>1. SlotsProved!SemaInit(maxcap)
    BY DEF BufferInit, Slots!SemaInit, SlotsProved!SemaInit
  <2>2. SlotsProved!SemaInv
    BY <1>1, <2>1, SlotsProved!SemaStartsBalanced
  <2> QED
    BY <2>2
    DEF SlotsInv, SlotsProved!SemaInv, SlotsProved!SemaTypeOK, Slots!SemaTypeOK,
        SlotsProved!Balanced, Slots!Balanced, SlotsProved!Owing, Slots!Owing
<1>3. ItemsInv
  <2>1. ItemsProved!SemaInit(0)
    BY DEF BufferInit, Items!SemaInit, ItemsProved!SemaInit
  <2>2. ItemsProved!SemaInv
    BY <2>1, ItemsProved!SemaStartsBalanced
  <2> QED
    BY <2>2
    DEF ItemsInv, ItemsProved!SemaInv, ItemsProved!SemaTypeOK, Items!SemaTypeOK,
        ItemsProved!Balanced, Items!Balanced, ItemsProved!Owing, Items!Owing
<1>4. Inside
  BY DEF Inside, BufferInit
<1>5. Account
  <2>1. slotWait = "idle" /\ itemWait = "idle"
    BY DEF BufferInit, Slots!SemaInit, Items!SemaInit
  <2>2. /\ slotSignals = maxcap /\ slotAcquired = 0
        /\ itemSignals = 0 /\ itemAcquired = 0
    BY DEF BufferInit, Slots!SemaInit, Items!SemaInit
  <2> QED  BY <1>1, <2>1, <2>2 DEF Account, InHand
<1> QED  BY <1>1, <1>2, <1>3, <1>4, <1>5 DEF BufferInv

(* Each step passes a slot on: from the free ones to the producer, from    *)
(* there to the elements, to the consumer, and back.                       *)
LEMMA BufferNextInv == BufferInv /\ [BufferNext]_vars => BufferInv'
<1> SUFFICES ASSUME BufferInv, [BufferNext]_vars
             PROVE  BufferInv'
  OBVIOUS
<1> USE DEF BufferInv
<1>1. SlotsInv' /\ ItemsInv'
  <2>1. [Slots!SemaNext]_slots /\ [Items!SemaNext]_items
    BY BufferStepIsSemaStep DEF vars
  <2> QED  BY <2>1, SlotsKeepBalance, ItemsKeepBalance
<1>2. maxcap' = maxcap
  BY DEF BufferNext, Producer, Consumer, vars, buffer, try_enqueue, EnqueueCall,
         wait_enqueue, WaitForSlot, Store, SignalItem, PostItem, EnqueueReturn,
         try_dequeue, wait_dequeue, WaitForItem, Take, Destroy, SignalSlot,
         PostSlot, DequeueReturn
<1>3. /\ slotSignals \in Nat /\ slotAcquired \in Nat
      /\ itemSignals \in Nat /\ itemAcquired \in Nat
  BY DEF SlotsInv, ItemsInv, Slots!SemaTypeOK, Items!SemaTypeOK
<1>4. Inside' /\ Account'
  <2>1. CASE try_enqueue
    BY <2>1, <1>2, <1>3
    DEF try_enqueue, EnqueueCall, Slots!TryWait, Inside, Account, InHand,
        buffer, consumer, slots, items
  <2>2. CASE \E t \in BOOLEAN : wait_enqueue(t)
    BY <2>2, <1>2, <1>3
    DEF wait_enqueue, EnqueueCall, Slots!WaitCall, Inside, Account, InHand,
        buffer, consumer, items
  <2>3. CASE WaitForSlot
    BY <2>3, <1>2, <1>3, SlotsWaitingCounts
    DEF WaitForSlot, Inside, Account, InHand, buffer, consumer, items
  <2>4. CASE Store
    BY <2>4, <1>2, <1>3
    DEF Store, Inside, Account, InHand, consumer, slots, items
  <2>5. CASE SignalItem
    BY <2>5, <1>2, <1>3
    DEF SignalItem, Items!Signal, Inside, Account, InHand, buffer, consumer,
        slots
  <2>6. CASE PostItem
    BY <2>6, <1>2, <1>3
    DEF PostItem, Items!Post, Inside, Account, InHand, buffer, producer,
        consumer, slots
  <2>7. CASE EnqueueReturn
    BY <2>7, <1>2, <1>3
    DEF EnqueueReturn, Slots!Return, Inside, Account, InHand, buffer, consumer,
        items
  <2>8. CASE try_dequeue
    BY <2>8, <1>2, <1>3
    DEF try_dequeue, Items!TryWait, Inside, Account, InHand, buffer, producer,
        slots, items
  <2>9. CASE \E t \in BOOLEAN : wait_dequeue(t)
    BY <2>9, <1>2, <1>3
    DEF wait_dequeue, Items!WaitCall, Inside, Account, InHand, buffer, producer,
        consumer, slots
  <2>10. CASE WaitForItem
    BY <2>10, <1>2, <1>3, ItemsWaitingCounts
    DEF WaitForItem, Inside, Account, InHand, buffer, producer, slots
  <2>11. CASE Take
    BY <2>11, <1>2, <1>3
    DEF Take, Inside, Account, InHand, producer, slots, items
  <2>12. CASE Destroy
    BY <2>12, <1>2, <1>3
    DEF Destroy, Inside, Account, InHand, producer, slots, items
  <2>13. CASE SignalSlot
    BY <2>13, <1>2, <1>3
    DEF SignalSlot, Slots!Signal, Inside, Account, InHand, buffer, producer,
        items
  <2>14. CASE PostSlot
    BY <2>14, <1>2, <1>3
    DEF PostSlot, Slots!Post, Inside, Account, InHand, buffer, producer,
        consumer, items
  <2>15. CASE DequeueReturn
    BY <2>15, <1>2, <1>3
    DEF DequeueReturn, Items!Return, Inside, Account, InHand, buffer, producer,
        slots
  <2>16. CASE UNCHANGED vars
    BY <2>16, <1>2, <1>3
    DEF vars, buffer, producer, consumer, slots, items, Inside, Account, InHand
  <2> QED
    BY <2>1, <2>2, <2>3, <2>4, <2>5, <2>6, <2>7, <2>8, <2>9, <2>10, <2>11,
       <2>12, <2>13, <2>14, <2>15, <2>16 DEF BufferNext, Producer, Consumer
<1> QED  BY <1>1, <1>2, <1>4

(* For any capacities and any number of elements, calls and timeouts, each *)
(* slot is free, holds an announced element or is in one thread's hands,   *)
(* and no signal of either semaphore is lost, taken twice or left over.    *)
THEOREM BufferConserved == BufferSafety => []Conserved
<1>1. BufferInv => Conserved
  BY DEF BufferInv, SlotsInv, ItemsInv, Account, InHand, Conserved
<1> QED  BY <1>1, BufferInitInv, BufferNextInv, PTL DEF BufferSafety

(***************************************************************************)
(* The slots.                                                              *)
(***************************************************************************)
(* Of n slots, those of the elements above lo, up to hi, hold them, and    *)
(* the others are free.                                                    *)
HoldsRun(f, n, lo, hi) ==
    /\ f \in [0 .. n - 1 -> Nat]
    /\ \A k \in lo .. hi - 1 : f[k % n] = k + 1
    /\ \A j \in 0 .. n - 1 : f[j] # 0 => \E k \in lo .. hi - 1 : j = k % n

(* Constructing the next element, if there is room.                        *)
LEMMA RunGrows ==
    ASSUME NEW n \in Nat \ {0}, NEW lo \in Nat, NEW hi \in Nat, NEW f,
           HoldsRun(f, n, lo, hi), lo <= hi, hi - lo < n
    PROVE  /\ HoldsRun([f EXCEPT ![hi % n] = hi + 1], n, lo, hi + 1)
           /\ f[hi % n] = 0
<1> DEFINE g == [f EXCEPT ![hi % n] = hi + 1]
<1>1. hi % n \in 0 .. n - 1
  OBVIOUS
<1>2. \A k \in lo .. hi - 1 : k % n # hi % n
  <2> SUFFICES ASSUME NEW k \in lo .. hi - 1 PROVE k % n # hi % n
    OBVIOUS
  <2>1. k \in Nat /\ hi - k \in 1 .. n - 1 /\ k + (hi - k) = hi
    OBVIOUS
  <2>2. (k + (hi - k)) % n # k % n
    BY <2>1, ModApart
  <2> QED  BY <2>1, <2>2
<1>3. f[hi % n] = 0
  BY <1>1, <1>2 DEF HoldsRun
<1>4. g \in [0 .. n - 1 -> Nat]
  BY DEF HoldsRun
<1>5. ASSUME NEW k \in lo .. hi PROVE g[k % n] = k + 1
  <2>1. k % n \in 0 .. n - 1
    OBVIOUS
  <2>2. CASE k = hi
    BY <1>1, <2>2 DEF HoldsRun
  <2>3. CASE k # hi
    <3>1. k \in lo .. hi - 1
      BY <2>3
    <3> QED  BY <3>1, <2>1, <1>1, <1>2 DEF HoldsRun
  <2> QED  BY <2>2, <2>3
<1>6. ASSUME NEW j \in 0 .. n - 1, g[j] # 0
      PROVE  \E k \in lo .. hi : j = k % n
  <2>1. CASE j = hi % n
    BY <2>1
  <2>2. CASE j # hi % n
    <3>1. f[j] # 0
      BY <1>6, <2>2 DEF HoldsRun
    <3>2. PICK k \in lo .. hi - 1 : j = k % n
      BY <3>1 DEF HoldsRun
    <3> QED  BY <3>2
  <2> QED  BY <2>1, <2>2
<1>7. hi + 1 - 1 = hi
  OBVIOUS
<1> QED  BY <1>3, <1>4, <1>5, <1>6, <1>7 DEF HoldsRun

(* Destroying the first.                                                   *)
LEMMA RunShrinks ==
    ASSUME NEW n \in Nat \ {0}, NEW lo \in Nat, NEW hi \in Nat, NEW f,
           HoldsRun(f, n, lo, hi), lo < hi, hi - lo <= n
    PROVE  HoldsRun([f EXCEPT ![lo % n] = 0], n, lo + 1, hi)
<1> DEFINE g == [f EXCEPT ![lo % n] = 0]
<1>1. lo % n \in 0 .. n - 1
  OBVIOUS
<1>2. g \in [0 .. n - 1 -> Nat]
  BY DEF HoldsRun
<1>3. ASSUME NEW k \in lo + 1 .. hi - 1 PROVE g[k % n] = k + 1
  <2>1. k \in Nat /\ k - lo \in 1 .. n - 1 /\ lo + (k - lo) = k
    OBVIOUS
  <2>2. (lo + (k - lo)) % n # lo % n
    BY <2>1, ModApart
  <2>3. k % n \in 0 .. n - 1 /\ k \in lo .. hi - 1
    BY <2>1
  <2>4. k % n # lo % n
    BY <2>1, <2>2
  <2> QED  BY <2>3, <2>4 DEF HoldsRun
<1>4. ASSUME NEW j \in 0 .. n - 1, g[j] # 0
      PROVE  \E k \in lo + 1 .. hi - 1 : j = k % n
  <2>1. j # lo % n /\ f[j] # 0
    BY <1>1, <1>4 DEF HoldsRun
  <2>2. PICK k \in lo .. hi - 1 : j = k % n
    BY <2>1 DEF HoldsRun
  <2>3. k \in lo + 1 .. hi - 1
    BY <2>1, <2>2
  <2> QED  BY <2>2, <2>3
<1> QED  BY <1>2, <1>3, <1>4 DEF HoldsRun
-----------------------------------------------------------------------------
Size == Mask(maxcap) + 1

(* The elements whose slots are free again.                                *)
gone == got - (IF takePc = "destroy" THEN 1 ELSE 0)

(* The indices and both semaphores follow the elements that went in and    *)
(* out; and the slots hold those in between.                               *)
Counted ==
    /\ sent \in Nat /\ got \in Nat /\ sent <= MaxItems
    /\ takePc \in {"destroy", "signal"} => got > 0
    /\ slotWait # "idle" /\ putPc = "idle" => sent < MaxItems
    /\ nextSlot = sent % Wrap /\ nextItem = got % Wrap
    /\ slotAcquired =
          sent + (IF slotWait = "acquired" /\ putPc = "idle" THEN 1 ELSE 0)
    /\ itemSignals = sent - (IF putPc = "signal" THEN 1 ELSE 0)
    /\ itemAcquired =
          got + (IF itemWait = "acquired" /\ takePc = "idle" THEN 1 ELSE 0)
    /\ slotSignals =
          maxcap + got - (IF takePc \in {"destroy", "signal"} THEN 1 ELSE 0)

Filled == HoldsRun(data, Size, gone, sent)

CircularInv == BufferInv /\ maxcap \in Capacities /\ Counted /\ Filled

(* The slots are no fewer than the capacity, and an index starts again at  *)
(* a multiple of their number.                                             *)
LEMMA SizeFacts ==
    ASSUME maxcap \in Capacities
    PROVE  /\ maxcap \in Nat \ {0} /\ maxcap < Wrap /\ Wrap \in Nat \ {0}
           /\ Size \in Nat \ {0} /\ maxcap <= Size /\ Mask(maxcap) = Size - 1
           /\ \E m \in Nat \ {0} : Wrap = Size * m
<1>1. maxcap \in Nat \ {0} /\ maxcap < Wrap /\ Wrap \in Nat
  BY CircularBufferAssumption DEF CircularBufferAssumption
<1>2. CeilToPow2(maxcap) \in Nat /\ CeilToPow2(maxcap) >= maxcap
  BY <1>1, CeilRoundsUp
<1>3. Size = CeilToPow2(maxcap) /\ Mask(maxcap) = Size - 1
  BY <1>2 DEF Size, Mask
<1>4. PICK w \in 1 .. Wrap : Wrap = pow2[w]
  BY CircularBufferAssumption DEF CircularBufferAssumption
<1>5. \E m \in Nat \ {0} : Wrap = CeilToPow2(maxcap) * m
  BY <1>1, <1>4, CeilDivides
<1> QED  BY <1>1, <1>2, <1>3, <1>5

(* So the slot at an index is that of the element, wherever the index has  *)
(* wrapped around; and the one before it, also at index 0.                 *)
LEMMA SlotIs ==
    ASSUME maxcap \in Capacities, NEW x \in Nat, NEW k \in Nat
    PROVE  /\ Slot((x % Wrap) + k) = (x + k) % Size
           /\ Slot(x % Wrap) = x % Size
           /\ x > 0 => Slot((x % Wrap) + Wrap - 1) = (x - 1) % Size
           /\ x % Size \in 0 .. Mask(maxcap)
           /\ ((x % Wrap) + 1) % Wrap = (x + 1) % Wrap
<1>1. /\ Wrap \in Nat \ {0} /\ Size \in Nat \ {0} /\ Mask(maxcap) = Size - 1
  BY SizeFacts
<1>2. PICK m \in Nat \ {0} : Wrap = Size * m
  BY SizeFacts
<1> HIDE DEF Size
<1> DEFINE Same(n, w, y, j) == ((y % w) + j) % n = (y + j) % n
<1>3. \A n \in Nat \ {0}, l \in Nat \ {0}, w \in Nat \ {0}, y \in Nat, j \in Nat :
         w = n * l => Same(n, w, y, j)
  BY ModWraps
<1>4. \A y \in Nat, j \in Nat : Same(Size, Wrap, y, j) /\ Same(Wrap, Wrap, y, j)
  <2>1. Wrap = Wrap * 1 /\ 1 \in Nat \ {0}
    BY <1>1
  <2> HIDE DEF Same
  <2> QED  BY <1>1, <1>2, <1>3, <2>1
<1>5. /\ Slot((x % Wrap) + k) = (x + k) % Size
      /\ Slot(x % Wrap) = x % Size
      /\ ((x % Wrap) + 1) % Wrap = (x + 1) % Wrap
  <2>1. Same(Size, Wrap, x, k) /\ Same(Size, Wrap, x, 0) /\ Same(Wrap, Wrap, x, 1)
    <3> HIDE DEF Same
    <3> QED  BY <1>4
  <2>2. (x % Wrap) + 0 = x % Wrap /\ x + 0 = x
    BY <1>1
  <2> QED  BY <2>1, <2>2 DEF Slot, Size
<1>6. ASSUME x > 0 PROVE Slot((x % Wrap) + Wrap - 1) = (x - 1) % Size
  <2>1. Wrap - 1 \in Nat /\ x - 1 \in Nat /\ x % Wrap \in Nat
    BY <1>1, <1>6
  <2>2. Same(Size, Wrap, x, Wrap - 1)
    <3> HIDE DEF Same
    <3> QED  BY <1>4, <2>1
  <2>3. x + (Wrap - 1) = (x - 1) + Size * m
    BY <1>1, <1>2
  <2>4. ((x - 1) + Size * m) % Size = (x - 1) % Size
    BY <1>1, <2>1, ModPlus
  <2>5. (x % Wrap) + Wrap - 1 = (x % Wrap) + (Wrap - 1)
    BY <1>1, <2>1
  <2> QED  BY <2>2, <2>3, <2>4, <2>5 DEF Slot, Size
<1>7. x % Size \in 0 .. Mask(maxcap)
  BY <1>1
<1> QED  BY <1>5, <1>6, <1>7

(* What the semaphores leave room for.                                     *)
LEMMA RoomIs ==
    ASSUME CircularInv
    PROVE  /\ sent \in Nat /\ got \in Nat /\ gone \in Nat /\ maxcap \in Nat
           /\ gone <= got /\ got <= sent /\ sent - gone <= maxcap
           /\ slotWait = "acquired" /\ putPc = "idle" => sent - gone < maxcap
           /\ itemWait = "acquired" /\ takePc = "idle" => got < sent
           /\ takePc = "destroy" => got > 0
           /\ slotAcquired <= slotSignals /\ itemAcquired <= itemSignals
           /\ slotCount <= 0 /\ ~Slots!Owing => slotSignals = slotAcquired
           /\ itemCount <= 0 /\ ~Items!Owing => itemSignals = itemAcquired
           /\ slotCount < 0 => slotSignals = slotAcquired
           /\ itemCount < 0 => itemSignals = itemAcquired
<1>1. /\ sent \in Nat /\ got \in Nat /\ maxcap \in Nat /\ Counted
  BY DEF CircularInv, Counted, BufferInv
<1>2. /\ slotSignals \in Nat /\ slotAcquired \in Nat /\ slotCount \in Int
      /\ itemSignals \in Nat /\ itemAcquired \in Nat /\ itemCount \in Int
  BY DEF CircularInv, BufferInv, SlotsInv, ItemsInv, Slots!SemaTypeOK,
         Items!SemaTypeOK
<1>3. /\ slotCount = slotSignals - slotAcquired - (IF Slots!Owing THEN 1 ELSE 0)
      /\ itemCount = itemSignals - itemAcquired - (IF Items!Owing THEN 1 ELSE 0)
      /\ slotCount >= IF Slots!Owing THEN -1 ELSE 0
      /\ itemCount >= IF Items!Owing THEN -1 ELSE 0
  BY <1>2
  DEF CircularInv, BufferInv, SlotsInv, ItemsInv, Slots!Balanced, Items!Balanced
<1>4. /\ slotAcquired <= slotSignals /\ itemAcquired <= itemSignals
      /\ slotCount <= 0 /\ ~Slots!Owing => slotSignals = slotAcquired
      /\ itemCount <= 0 /\ ~Items!Owing => itemSignals = itemAcquired
      /\ slotCount < 0 => slotSignals = slotAcquired
      /\ itemCount < 0 => itemSignals = itemAcquired
  BY <1>2, <1>3
<1>5. gone \in Nat /\ gone <= got /\ (takePc = "destroy" => got > 0)
  BY <1>1 DEF gone, Counted
<1>6. got <= sent /\ sent - gone <= maxcap
  BY <1>1, <1>2, <1>4 DEF gone, Counted
<1>7. slotWait = "acquired" /\ putPc = "idle" => sent - gone < maxcap
  BY <1>1, <1>2, <1>4 DEF gone, Counted
<1>8. itemWait = "acquired" /\ takePc = "idle" => got < sent
  BY <1>1, <1>2, <1>4 DEF Counted
<1> QED  BY <1>1, <1>4, <1>5, <1>6, <1>7, <1>8

(* The constructor: no slot holds an element.                              *)
LEMMA CircularStarts == BufferInit => CircularInv
<1> SUFFICES ASSUME BufferInit PROVE CircularInv
  OBVIOUS
<1>1. maxcap \in Capacities /\ BufferInv /\ MaxItems \in Nat
  BY BufferInitInv, CircularBufferAssumption
  DEF BufferInit, CircularBufferAssumption
<1>2. /\ Wrap \in Nat \ {0} /\ Size \in Nat \ {0} /\ Mask(maxcap) = Size - 1
      /\ maxcap \in Nat
  BY <1>1, SizeFacts
<1>3. /\ slotSignals = maxcap /\ slotAcquired = 0 /\ slotWait = "idle"
      /\ itemSignals = 0 /\ itemAcquired = 0 /\ itemWait = "idle"
      /\ sent = 0 /\ got = 0 /\ putPc = "idle" /\ takePc = "idle"
      /\ nextSlot = 0 /\ nextItem = 0
  BY DEF BufferInit, Slots!SemaInit, Items!SemaInit
<1>4. 0 % Wrap = 0
  BY <1>2
<1>5. Counted
  BY <1>1, <1>2, <1>3, <1>4 DEF Counted
<1>6. Filled
  <2>1. data = [i \in 0 .. Size - 1 |-> 0] /\ gone = 0
    BY <1>2, <1>3 DEF BufferInit, gone
  <2> HIDE DEF Size
  <2> QED  BY <1>2, <1>3, <2>1 DEF Filled, HoldsRun
<1> QED  BY <1>1, <1>5, <1>6 DEF CircularInv

(* A step that neither constructs nor destroys leaves the slots as they    *)
(* are.                                                                    *)
LEMMA FilledKept ==
    ASSUME CircularInv, UNCHANGED <<maxcap, data, gone, sent>>
    PROVE  Filled'
<1>1. Size' = Size
  BY DEF Size, Mask
<1> QED  BY <1>1 DEF CircularInv, Filled, HoldsRun

(* The producer constructs where the consumer has destroyed.               *)
LEMMA StoreKeeps ==
    ASSUME CircularInv, Store
    PROVE  Counted' /\ Filled'
<1>1. /\ sent \in Nat /\ got \in Nat /\ gone \in Nat /\ gone <= sent
      /\ sent - gone < maxcap /\ maxcap \in Nat
  BY RoomIs DEF Store
<1>2. /\ Slot(nextSlot) = sent % Size
      /\ (nextSlot + 1) % Wrap = (sent + 1) % Wrap
  BY <1>1, SlotIs DEF CircularInv, Counted
<1>3. Size \in Nat \ {0} /\ maxcap <= Size
  BY SizeFacts DEF CircularInv
<1>4. Size' = Size /\ gone' = gone /\ sent' = sent + 1
  BY DEF Size, Mask, gone, Store, consumer
<1>5. data' = [data EXCEPT ![sent % Size] = sent + 1]
  BY <1>2 DEF Store
<1>6. Filled'
  <2>1. HoldsRun(data, Size, gone, sent)
    BY DEF CircularInv, Filled
  <2>2. sent - gone < Size
    BY <1>1, <1>3
  <2> HIDE DEF Size, gone
  <2>3. HoldsRun(data', Size, gone, sent + 1)
    BY <1>1, <1>3, <1>5, <2>1, <2>2, RunGrows
  <2>4. HoldsRun(data', Size', gone', sent')
    BY <1>4, <2>3
  <2> QED  BY <2>4 DEF Filled, HoldsRun
<1>7. Counted'
  <2>1. Counted /\ MaxItems \in Nat
    BY CircularBufferAssumption DEF CircularInv, CircularBufferAssumption
  <2> QED  BY <1>1, <1>2, <2>1
           DEF Counted, Store, consumer, slots, items
<1> QED  BY <1>6, <1>7

(* The consumer moves out of its slot the element that is next.            *)
LEMMA TakesNext ==
    ASSUME CircularInv, Take
    PROVE  got' = got + 1 /\ got < sent
<1>1. /\ sent \in Nat /\ got \in Nat /\ got < sent
  BY RoomIs DEF Take
<1>2. gone = got
  BY <1>1 DEF gone, Take
<1>3. Slot(nextItem) = got % Size
  BY <1>1, SlotIs DEF CircularInv, Counted
<1>4. data[got % Size] = got + 1
  BY <1>1, <1>2 DEF CircularInv, Filled, HoldsRun
<1> QED  BY <1>1, <1>3, <1>4 DEF Take

(* That leaves the slot as it is ...                                       *)
LEMMA TakeKeeps ==
    ASSUME CircularInv, Take
    PROVE  Counted' /\ Filled'
<1>1. got' = got + 1 /\ got < sent /\ sent \in Nat /\ got \in Nat /\ maxcap \in Nat
  BY TakesNext, RoomIs
<1>2. (nextItem + 1) % Wrap = (got + 1) % Wrap
  BY <1>1, SlotIs DEF CircularInv, Counted
<1>3. Filled'
  <2>1. gone' = gone
    BY <1>1 DEF gone, Take
  <2> QED  BY <2>1, FilledKept DEF Take, producer
<1>4. Counted'
  <2>1. Counted
    BY DEF CircularInv
  <2> QED  BY <1>1, <1>2, <2>1 DEF Counted, Take, producer, slots, items
<1> QED  BY <1>3, <1>4

(* ... until it is destroyed there.                                        *)
LEMMA DestroyKeeps ==
    ASSUME CircularInv, Destroy
    PROVE  Counted' /\ Filled'
<1>1. /\ sent \in Nat /\ got \in Nat /\ gone \in Nat /\ got <= sent
      /\ sent - gone <= maxcap /\ maxcap \in Nat /\ got > 0
  BY RoomIs DEF Destroy
<1>2. gone = got - 1 /\ gone' = gone + 1 /\ gone < sent
  BY <1>1 DEF gone, Destroy
<1>3. Slot(nextItem + Wrap - 1) = gone % Size
  <2> HIDE DEF gone
  <2> QED  BY <1>1, <1>2, SlotIs DEF CircularInv, Counted
<1>4. Size \in Nat \ {0} /\ maxcap <= Size
  BY SizeFacts DEF CircularInv
<1>5. Size' = Size /\ sent' = sent
  BY DEF Size, Mask, Destroy, producer
<1>6. data' = [data EXCEPT ![gone % Size] = 0]
  BY <1>3 DEF Destroy
<1>7. Filled'
  <2>1. HoldsRun(data, Size, gone, sent)
    BY DEF CircularInv, Filled
  <2>2. sent - gone <= Size
    BY <1>1, <1>4
  <2> HIDE DEF Size, gone
  <2>3. HoldsRun(data', Size, gone + 1, sent)
    BY <1>1, <1>2, <1>4, <1>6, <2>1, <2>2, RunShrinks
  <2>4. HoldsRun(data', Size', gone', sent')
    BY <1>2, <1>5, <2>3
  <2> QED  BY <2>4 DEF Filled, HoldsRun
<1>8. Counted'
  <2>1. Counted
    BY DEF CircularInv
  <2> QED  BY <1>1, <2>1 DEF Counted, Destroy, producer, slots, items
<1> QED  BY <1>7, <1>8

(* The other steps move a thread or a semaphore, and no element.           *)
LEMMA OthersKeep ==
    ASSUME CircularInv, [BufferNext]_vars, ~Store, ~Take, ~Destroy
    PROVE  Counted' /\ Filled'
<1>1. /\ Counted /\ sent \in Nat /\ got \in Nat /\ maxcap \in Nat
      /\ MaxItems \in Nat /\ SlotsInv /\ ItemsInv /\ Inside
      /\ slotSignals \in Nat /\ slotAcquired \in Nat
      /\ itemSignals \in Nat /\ itemAcquired \in Nat
  BY CircularBufferAssumption
  DEF CircularInv, BufferInv, Counted, SlotsInv, ItemsInv, Slots!SemaTypeOK,
      Items!SemaTypeOK, CircularBufferAssumption
<1>2. /\ UNCHANGED <<maxcap, data, nextSlot, nextItem, sent, got>>
      /\ takePc = "destroy" <=> takePc' = "destroy"
      /\ Counted'
  <2>1. CASE try_enqueue
    BY <1>1, <2>1
    DEF try_enqueue, EnqueueCall, Slots!TryWait, Counted, Inside, buffer,
        consumer, slots, items
  <2>2. CASE \E t \in BOOLEAN : wait_enqueue(t)
    BY <1>1, <2>2
    DEF wait_enqueue, EnqueueCall, Slots!WaitCall, Counted, Inside, buffer,
        consumer, items
  <2>3. CASE WaitForSlot
    <3>1. putPc = "idle"
      BY <1>1, <2>3, SlotsWaitingCounts DEF WaitForSlot, Inside
    <3> QED
      BY <1>1, <2>3, <3>1, SlotsWaitingCounts
      DEF WaitForSlot, Counted, buffer, consumer, items
  <2>4. CASE SignalItem
    BY <1>1, <2>4
    DEF SignalItem, Items!Signal, Counted, buffer, consumer, slots
  <2>5. CASE PostItem
    BY <1>1, <2>5
    DEF PostItem, Items!Post, Counted, buffer, producer, consumer, slots
  <2>6. CASE EnqueueReturn
    BY <1>1, <2>6
    DEF EnqueueReturn, Slots!Return, Counted, Inside, buffer, consumer, items
  <2>7. CASE try_dequeue
    BY <1>1, <2>7
    DEF try_dequeue, Items!TryWait, Counted, Inside, buffer, producer, slots,
        items
  <2>8. CASE \E t \in BOOLEAN : wait_dequeue(t)
    BY <1>1, <2>8
    DEF wait_dequeue, Items!WaitCall, Counted, Inside, buffer, producer,
        consumer, slots
  <2>9. CASE WaitForItem
    <3>1. takePc = "idle"
      BY <1>1, <2>9, ItemsWaitingCounts DEF WaitForItem, Inside
    <3> QED
      BY <1>1, <2>9, <3>1, ItemsWaitingCounts
      DEF WaitForItem, Counted, buffer, producer, slots
  <2>10. CASE SignalSlot
    BY <1>1, <2>10
    DEF SignalSlot, Slots!Signal, Counted, buffer, producer, items
  <2>11. CASE PostSlot
    BY <1>1, <2>11
    DEF PostSlot, Slots!Post, Counted, buffer, producer, consumer, items
  <2>12. CASE DequeueReturn
    BY <1>1, <2>12
    DEF DequeueReturn, Items!Return, Counted, Inside, buffer, producer, slots
  <2>13. CASE UNCHANGED vars
    BY <1>1, <2>13
    DEF vars, buffer, producer, consumer, slots, items, Counted
  <2> QED
    BY <2>1, <2>2, <2>3, <2>4, <2>5, <2>6, <2>7, <2>8, <2>9, <2>10, <2>11,
       <2>12, <2>13 DEF BufferNext, Producer, Consumer
<1>3. Filled'
  <2>1. gone' = gone
    BY <1>2 DEF gone
  <2> QED  BY <1>2, <2>1, FilledKept
<1> QED  BY <1>2, <1>3

(* Together: the invariant is inductive.                                   *)
LEMMA CircularKept ==
    ASSUME CircularInv, [BufferNext]_vars
    PROVE  CircularInv'
<1>1. BufferInv'
  BY BufferNextInv DEF CircularInv
<1>2. maxcap' = maxcap
  BY DEF BufferNext, Producer, Consumer, vars, buffer, try_enqueue, EnqueueCall,
         wait_enqueue, WaitForSlot, Store, SignalItem, PostItem, EnqueueReturn,
         try_dequeue, wait_dequeue, WaitForItem, Take, Destroy, SignalSlot,
         PostSlot, DequeueReturn
<1>3. Counted' /\ Filled'
  BY StoreKeeps, TakeKeeps, DestroyKeeps, OthersKeep
<1> QED  BY <1>1, <1>2, <1>3 DEF CircularInv

(* The invariant holds throughout.                                         *)
THEOREM CircularHolds == BufferSafety => []CircularInv
<1>1. BufferInit => CircularInv
  BY CircularStarts
<1>2. CircularInv /\ [BufferNext]_vars => CircularInv'
  BY CircularKept
<1> QED  BY <1>1, <1>2, PTL DEF BufferSafety

(* Neither thread looks at the index of the other, and both indices wrap   *)
(* around: yet the slot the producer constructs in is free, and the one    *)
(* the consumer moves from is not.                                         *)
THEOREM BufferSlotsApart == BufferSafety => []SlotsApart
<1>1. CircularInv => SlotsApart
  <2> SUFFICES ASSUME CircularInv PROVE SlotsApart
    OBVIOUS
  <2>1. /\ sent \in Nat /\ got \in Nat /\ gone \in Nat /\ gone <= got
        /\ got <= sent /\ maxcap \in Nat
    BY RoomIs
  <2>2. Slot(nextSlot) = sent % Size /\ Slot(nextItem) = got % Size
    BY <2>1, SlotIs DEF CircularInv, Counted
  <2>3. HoldsRun(data, Size, gone, sent) /\ Size \in Nat \ {0} /\ maxcap <= Size
    BY SizeFacts DEF CircularInv, Filled
  <2>4. ASSUME putPc = "idle", slotWait = "acquired"
        PROVE  data[Slot(nextSlot)] = 0
    <3>1. sent - gone < Size /\ gone <= sent
      BY <2>1, <2>3, <2>4, RoomIs
    <3> HIDE DEF Size, gone
    <3> QED  BY <2>1, <2>2, <2>3, <3>1, RunGrows
  <2>5. ASSUME takePc = "idle", itemWait = "acquired"
        PROVE  data[Slot(nextItem)] # 0
    <3>1. got < sent /\ gone = got
      BY <2>1, <2>5, RoomIs DEF gone
    <3> HIDE DEF Size, gone
    <3>2. got \in gone .. sent - 1
      BY <2>1, <3>1
    <3>3. data[got % Size] = got + 1
      BY <2>3, <3>2 DEF HoldsRun
    <3> QED  BY <2>1, <2>2, <3>3
  <2> QED  BY <2>4, <2>5 DEF SlotsApart
<1> QED  BY <1>1, CircularHolds, PTL

(* The destructor goes by what the semaphore has counted, and that is what *)
(* is left.                                                                *)
THEOREM BufferDestroysWhatIsLeft == BufferSafety => []DestroysWhatIsLeft
<1>1. CircularInv => DestroysWhatIsLeft
  <2> SUFFICES ASSUME CircularInv, slotWait = "idle", itemWait = "idle"
               PROVE  Destroyed = {i \in DOMAIN data : data[i] # 0}
    BY DEF DestroysWhatIsLeft
  <2>1. /\ sent \in Nat /\ got \in Nat /\ got <= sent /\ maxcap \in Nat
        /\ Counted /\ Inside
    BY RoomIs DEF CircularInv, BufferInv
  <2>2. putPc = "idle" /\ takePc = "idle" /\ gone = got
    BY <2>1 DEF Inside, gone
  <2>3. Items!availableApprox = sent - got
    <3>1. itemCount = itemSignals - itemAcquired
      BY DEF CircularInv, BufferInv, ItemsInv, Items!Balanced, Items!Owing,
             Items!SemaTypeOK
    <3>2. itemCount = sent - got
      BY <2>1, <2>2, <3>1 DEF Counted
    <3> QED  BY <2>1, <3>2 DEF Items!availableApprox
  <2>4. \A i \in Nat : Slot(nextItem + i) = (got + i) % Size
    BY <2>1, SlotIs DEF CircularInv, Counted
  <2>5. Destroyed = {(got + i) % Size : i \in 0 .. sent - got - 1}
    <3> DEFINE I == 0 .. sent - got - 1
               slot(i) == Slot(nextItem + i)
               at(i) == (got + i) % Size
    <3>1. Destroyed = {slot(i) : i \in I}
      BY <2>3 DEF Destroyed
    <3>2. \A i \in I : i \in Nat
      BY <2>1
    <3>3. \A i \in I : slot(i) = at(i)
      BY <2>4, <3>2
    <3> HIDE DEF I, slot, at
    <3>4. {slot(i) : i \in I} = {at(i) : i \in I}
      BY <3>3
    <3> QED  BY <3>1, <3>4 DEF I, at
  <2>6. HoldsRun(data, Size, got, sent) /\ Size \in Nat \ {0}
    BY <2>2, SizeFacts DEF CircularInv, Filled
  <2> HIDE DEF Size
  <2>7. ASSUME NEW i \in 0 .. sent - got - 1
        PROVE  /\ (got + i) % Size \in DOMAIN data
               /\ data[(got + i) % Size] # 0
    <3>1. got + i \in got .. sent - 1 /\ (got + i) % Size \in 0 .. Size - 1
      BY <2>1, <2>6
    <3>2. data[(got + i) % Size] = (got + i) + 1
      BY <2>6, <3>1 DEF HoldsRun
    <3>3. DOMAIN data = 0 .. Size - 1
      BY <2>6 DEF HoldsRun
    <3> QED  BY <2>1, <3>1, <3>2, <3>3
  <2>8. ASSUME NEW j \in DOMAIN data, data[j] # 0
        PROVE  \E i \in 0 .. sent - got - 1 : j = (got + i) % Size
    <3>1. PICK k \in got .. sent - 1 : j = k % Size
      BY <2>6, <2>8 DEF HoldsRun
    <3>2. k - got \in 0 .. sent - got - 1 /\ k = got + (k - got)
      BY <2>1
    <3> QED  BY <3>1, <3>2
  <2> QED  BY <2>5, <2>7, <2>8
<1> QED  BY <1>1, CircularHolds, PTL
-----------------------------------------------------------------------------
(* The buffer as its clients see it: the elements that were announced and  *)
(* whose slots were not offered again.                                     *)
LEMMA ContentsIs ==
    ASSUME CircularInv
    PROVE  /\ slotSignals - maxcap \in Nat /\ itemSignals \in Nat
           /\ slotSignals - maxcap <= itemSignals
           /\ Contents = Nums(slotSignals - maxcap, itemSignals)
<1> DEFINE seen == itemSignals - got
           rest == [i \in 1 .. seen |-> data[Slot(nextItem + i - 1)]]
<1>1. /\ sent \in Nat /\ got \in Nat /\ gone \in Nat /\ gone <= got
      /\ got <= sent /\ sent - gone <= maxcap /\ maxcap \in Nat /\ Counted
      /\ itemSignals \in Nat /\ itemSignals <= sent /\ got <= itemSignals
  <2>1. /\ Counted /\ itemSignals \in Nat /\ itemAcquired \in Nat
        /\ sent \in Nat /\ got \in Nat
    BY DEF CircularInv, Counted, BufferInv, ItemsInv, Items!SemaTypeOK
  <2>2. itemSignals <= sent /\ got <= itemAcquired
    BY <2>1 DEF Counted
  <2> QED  BY <2>1, <2>2, RoomIs
<1>2. /\ Size \in Nat \ {0} /\ maxcap < Wrap /\ Wrap \in Nat \ {0}
  BY SizeFacts DEF CircularInv
<1>3. ((sent % Wrap) + Wrap - (got % Wrap)) % Wrap = sent - got
  <2>1. sent - got \in 0 .. Wrap - 1 /\ got + (sent - got) = sent
    BY <1>1, <1>2
  <2>2. (((got + (sent - got)) % Wrap) + Wrap - (got % Wrap)) % Wrap = sent - got
    BY <1>1, <1>2, <2>1, ModDifference
  <2> QED  BY <2>1, <2>2
<1>4. ((nextSlot + Wrap - nextItem) % Wrap) - (IF putPc = "signal" THEN 1 ELSE 0)
         = seen
  BY <1>1, <1>2, <1>3 DEF Counted
<1>5. rest = Nums(got, itemSignals)
  <2>1. ASSUME NEW i \in 1 .. seen
        PROVE  data[Slot(nextItem + i - 1)] = got + i
    <3>1. i - 1 \in Nat /\ got + (i - 1) \in gone .. sent - 1
      <4> HIDE DEF gone
      <4> QED  BY <1>1
    <3>2. Slot(nextItem + (i - 1)) = (got + (i - 1)) % Size
      BY <1>1, <3>1, SlotIs DEF CircularInv, Counted
    <3>3. data[(got + (i - 1)) % Size] = (got + (i - 1)) + 1
      <4> HIDE DEF gone
      <4> QED  BY <3>1 DEF CircularInv, Filled, HoldsRun
    <3>4. nextItem + i - 1 = nextItem + (i - 1)
      BY <1>1, <1>2 DEF Counted
    <3> QED  BY <1>1, <3>2, <3>3, <3>4
  <2> QED  BY <2>1 DEF Nums
<1>6. Contents = (IF takePc \in {"destroy", "signal"} THEN <<got>> ELSE <<>>)
                    \o rest
  BY <1>4 DEF Contents
<1>7. /\ slotSignals - maxcap
            = got - (IF takePc \in {"destroy", "signal"} THEN 1 ELSE 0)
      /\ takePc \in {"destroy", "signal"} => got > 0
  BY <1>1 DEF Counted
<1> HIDE DEF rest
<1>8. CASE takePc \in {"destroy", "signal"}
  <2>1. slotSignals - maxcap = got - 1 /\ got - 1 \in Nat /\ got - 1 <= itemSignals
    BY <1>1, <1>7, <1>8
  <2>2. Nums(got - 1, got) = <<got>>
    BY <1>1, <2>1 DEF Nums
  <2>3. Nums(got - 1, got) \o Nums(got, itemSignals) = Nums(got - 1, itemSignals)
    <3>1. got - 1 <= got /\ got \in Nat /\ itemSignals \in Nat /\ got <= itemSignals
      BY <1>1
    <3> QED  BY <2>1, <3>1, NumsJoin, Zenon
  <2> QED  BY <1>1, <1>5, <1>6, <1>8, <2>1, <2>2, <2>3
<1>9. CASE takePc \notin {"destroy", "signal"}
  <2>1. slotSignals - maxcap = got
    BY <1>1, <1>7, <1>9
  <2>2. <<>> \o Nums(got, itemSignals) = Nums(got, itemSignals)
    BY <1>1, NumsEmpty
  <2> QED  BY <1>1, <1>5, <1>6, <1>9, <2>1, <2>2
<1> QED  BY <1>8, <1>9

(* A client sees an element put, one refused by a full buffer, one         *)
(* dequeued, a timeout on an empty buffer, or nothing.                     *)
ClientSees(q, qNew) ==
    /\ maxcap' = maxcap
    /\ \/ /\ Len(q) < maxcap
          /\ \E e \in 1 .. MaxItems : qNew = Append(q, e)
          /\ answer' = answer /\ accepted' = TRUE
       \/ /\ Len(q) = maxcap /\ accepted' = FALSE
          /\ qNew = q /\ answer' = answer
       \/ /\ q # <<>> /\ answer' = Head(q) /\ qNew = Tail(q)
          /\ accepted' = accepted
       \/ /\ q = <<>> /\ answer' = 0 /\ qNew = q
          /\ accepted' = accepted
       \/ qNew = q /\ answer' = answer /\ accepted' = accepted

(* Each step is one of those.                                              *)
LEMMA StepIsBounded ==
    ASSUME CircularInv, [BufferNext]_vars, NEW q, NEW qNew,
           q = Nums(slotSignals - maxcap, itemSignals),
           qNew = Nums(slotSignals' - maxcap', itemSignals')
    PROVE  ClientSees(q, qNew)
<1> USE DEF ClientSees
<1> DEFINE lo == slotSignals - maxcap
           hi == itemSignals
<1>1. /\ Counted /\ Inside /\ sent \in Nat /\ got \in Nat /\ maxcap \in Nat
      /\ got <= sent /\ MaxItems \in Nat
      /\ slotAcquired <= slotSignals /\ itemAcquired <= itemSignals
      /\ slotSignals \in Nat /\ slotAcquired \in Nat
      /\ itemSignals \in Nat /\ itemAcquired \in Nat
      /\ SlotsInv /\ ItemsInv
  BY RoomIs, CircularBufferAssumption
  DEF CircularInv, BufferInv, SlotsInv, ItemsInv, Slots!SemaTypeOK,
      Items!SemaTypeOK, CircularBufferAssumption
<1>2. /\ lo \in Nat /\ hi \in Nat /\ lo <= hi
      /\ q = Nums(lo, hi) /\ Len(q) = hi - lo /\ Nums(lo, lo) = <<>>
  BY ContentsIs, NumsEmpty
<1>3. maxcap' = maxcap
  BY DEF BufferNext, Producer, Consumer, vars, buffer, try_enqueue, EnqueueCall,
         wait_enqueue, WaitForSlot, Store, SignalItem, PostItem, EnqueueReturn,
         try_dequeue, wait_dequeue, WaitForItem, Take, Destroy, SignalSlot,
         PostSlot, DequeueReturn
<1>4. CASE UNCHANGED <<slotSignals, itemSignals, answer, accepted>>
  BY <1>3, <1>4
<1>5. CASE SignalItem
  <2>1. /\ hi' = hi + 1 /\ slotSignals' = slotSignals
        /\ accepted' = TRUE /\ answer' = answer /\ putPc = "signal"
    BY <1>5 DEF SignalItem, Items!Signal, consumer, slots
  <2>2. hi + 1 = sent /\ sent <= MaxItems /\ slotAcquired = sent
    BY <1>1, <2>1 DEF Counted
  <2>3. hi - lo < maxcap /\ hi + 1 \in 1 .. MaxItems
    BY <1>1, <2>2
  <2>4. qNew = Append(q, hi + 1)
    <3>1. qNew = Nums(lo, hi + 1)
      BY <1>3, <2>1
    <3> HIDE DEF lo, hi
    <3>2. Append(Nums(lo, hi), hi + 1) = Nums(lo, hi + 1)
      BY <1>2, NumsStep
    <3> QED  BY <1>2, <3>1, <3>2
  <2> QED  BY <1>2, <1>3, <2>1, <2>3, <2>4
<1>6. CASE SignalSlot
  <2>1. /\ slotSignals' = slotSignals + 1 /\ itemSignals' = itemSignals
        /\ accepted' = accepted /\ answer' = got /\ takePc = "signal"
    BY <1>6 DEF SignalSlot, Slots!Signal, producer, items
  <2>2. lo + 1 = got /\ got <= itemAcquired
    BY <1>1, <2>1 DEF Counted
  <2>3. lo < hi
    BY <1>1, <1>2, <2>2
  <2>4. q # <<>> /\ Head(q) = lo + 1 /\ Tail(q) = Nums(lo + 1, hi)
    <3> HIDE DEF lo, hi
    <3>1. lo \in Nat /\ hi \in Nat /\ lo < hi
      BY <1>2, <2>3
    <3>2. /\ Nums(lo, hi) # <<>> /\ Head(Nums(lo, hi)) = lo + 1
          /\ Tail(Nums(lo, hi)) = Nums(lo + 1, hi)
      BY <3>1, NumsStep
    <3>3. q = Nums(lo, hi)
      BY <1>2
    <3> QED  BY <3>2, <3>3
  <2>5. qNew = Nums(lo + 1, hi)
    <3>1. slotSignals' - maxcap' = lo + 1
      BY <1>1, <1>3, <2>1
    <3> QED  BY <2>1, <3>1
  <2> QED  BY <1>3, <2>1, <2>2, <2>4, <2>5
(* The producer is refused when every slot was acquired.                   *)
<1>7. ASSUME slotSignals = slotAcquired, putPc = "idle", slotWait # "acquired"
      PROVE  Len(q) = maxcap
  <2>1. slotSignals = sent /\ itemSignals = sent
    BY <1>1, <1>7 DEF Counted
  <2> QED  BY <1>1, <1>2, <2>1
(* And the consumer when every element was.                                *)
<1>8. ASSUME itemSignals = itemAcquired, takePc = "idle", itemWait # "acquired"
      PROVE  q = <<>>
  <2>1. slotSignals = maxcap + got /\ itemSignals = got
    BY <1>1, <1>8 DEF Counted
  <2> QED  BY <1>1, <1>2, <2>1
<1>9. CASE try_enqueue
  <2>1. UNCHANGED <<slotSignals, itemSignals, answer>> /\ putPc = "idle"
    BY <1>9 DEF try_enqueue, EnqueueCall, Slots!TryWait, consumer, slots, items
  <2>2. CASE accepted' = accepted
    BY <1>4, <2>1, <2>2
  <2>3. CASE slotWait = "idle" /\ slotCount <= 0 /\ accepted' = FALSE
    <3>1. slotSignals = slotAcquired
      BY <2>3, RoomIs DEF Slots!Owing
    <3> QED  BY <1>3, <1>7, <2>1, <2>3, <3>1
  <2> QED  BY <1>9, <2>2, <2>3 DEF try_enqueue
<1>10. CASE WaitForSlot
  <2>1. UNCHANGED <<itemSignals, answer>> /\ Slots!Waiting
    BY <1>10 DEF WaitForSlot, consumer, items
  <2>2. slotSignals' = slotSignals /\ slotWait \notin {"idle", "acquired"}
    BY <1>1, <2>1, SlotsWaitingCounts
  <2>3. CASE slotWait' = "timedout"
    <3>1. slotWait = "restore" /\ slotCount < 0
      BY <2>1, <2>3
      DEF Slots!Waiting, Slots!TakeSignal, Slots!Spin, Slots!SpinAgain,
          Slots!SpinEnd, Slots!Woken, Slots!TimeOut, Slots!Restore,
          Slots!Retry, Slots!TryKernel
    <3>2. slotSignals = slotAcquired /\ putPc = "idle"
      BY <1>1, <2>2, <3>1, RoomIs DEF Inside
    <3>3. Len(q) = maxcap
      BY <1>7, <2>2, <3>2
    <3> QED  BY <1>3, <1>10, <2>1, <2>2, <2>3, <3>3 DEF WaitForSlot
  <2>4. CASE slotWait' # "timedout"
    BY <1>4, <1>10, <2>1, <2>2, <2>4 DEF WaitForSlot
  <2> QED  BY <2>3, <2>4
<1>11. CASE try_dequeue
  <2>1. UNCHANGED <<slotSignals, itemSignals, accepted>> /\ takePc = "idle"
    BY <1>11 DEF try_dequeue, Items!TryWait, producer, slots, items
  <2>2. CASE answer' = answer
    BY <1>4, <2>1, <2>2
  <2>3. CASE itemWait = "idle" /\ itemCount <= 0 /\ answer' = 0
    <3>1. itemSignals = itemAcquired
      BY <2>3, RoomIs DEF Items!Owing
    <3> QED  BY <1>3, <1>8, <2>1, <2>3, <3>1
  <2> QED  BY <1>11, <2>2, <2>3 DEF try_dequeue
<1>12. CASE WaitForItem
  <2>1. UNCHANGED <<slotSignals, accepted>> /\ Items!Waiting
    BY <1>12 DEF WaitForItem, producer, slots
  <2>2. itemSignals' = itemSignals /\ itemWait \notin {"idle", "acquired"}
    BY <1>1, <2>1, ItemsWaitingCounts
  <2>3. CASE itemWait' = "timedout"
    <3>1. itemWait = "restore" /\ itemCount < 0
      BY <2>1, <2>3
      DEF Items!Waiting, Items!TakeSignal, Items!Spin, Items!SpinAgain,
          Items!SpinEnd, Items!Woken, Items!TimeOut, Items!Restore,
          Items!Retry, Items!TryKernel
    <3>2. itemSignals = itemAcquired /\ takePc = "idle"
      BY <1>1, <2>2, <3>1, RoomIs DEF Inside
    <3>3. q = <<>>
      BY <1>8, <2>2, <3>2
    <3> QED  BY <1>3, <1>12, <2>1, <2>2, <2>3, <3>3 DEF WaitForItem
  <2>4. CASE itemWait' # "timedout"
    BY <1>4, <1>12, <2>1, <2>2, <2>4 DEF WaitForItem
  <2> QED  BY <2>3, <2>4
<1>13. CASE \E t \in BOOLEAN : wait_enqueue(t)
  BY <1>4, <1>13 DEF wait_enqueue, EnqueueCall, Slots!WaitCall, consumer, items
<1>14. CASE \E t \in BOOLEAN : wait_dequeue(t)
  BY <1>4, <1>14 DEF wait_dequeue, Items!WaitCall, producer, consumer, slots
<1>15. CASE Store \/ PostItem \/ EnqueueReturn
  BY <1>4, <1>15
  DEF Store, PostItem, EnqueueReturn, Items!Post, Slots!Return, producer,
      consumer, slots, items
<1>16. CASE Take \/ Destroy \/ PostSlot \/ DequeueReturn
  BY <1>4, <1>16
  DEF Take, Destroy, PostSlot, DequeueReturn, Slots!Post, Items!Return,
      producer, consumer, slots, items
<1>17. CASE UNCHANGED vars
  BY <1>4, <1>17 DEF vars, producer, consumer, slots, items
<1> QED
  BY <1>5, <1>6, <1>9, <1>10, <1>11, <1>12, <1>13, <1>14, <1>15, <1>16, <1>17
  DEF BufferNext, Producer, Consumer

(* The buffer is a queue of at most maxcap elements in their order; it     *)
(* refuses one only when it is full and comes back without one only when   *)
(* it is empty, however a timeout meets the signal of the other side.      *)
THEOREM BufferIsBounded == BufferSafety => BoundedSpec
<1> DEFINE lo == slotSignals - maxcap
<1>1. BufferInit => CircularInv
  BY CircularStarts
<1>2. CircularInv /\ [BufferNext]_vars => CircularInv'
  BY CircularKept
<1>3. CircularInv => Contents = Nums(slotSignals - maxcap, itemSignals)
  BY ContentsIs
<1>4. CircularInv' => (Contents = Nums(slotSignals - maxcap, itemSignals))'
  BY <1>3, PTL
<1>5. BufferInit => Bounded!BoundedInit
  <2> SUFFICES ASSUME BufferInit
               PROVE  Contents = <<>> /\ answer = 0 /\ maxcap \in Nat /\ accepted = TRUE
    BY DEF Bounded!BoundedInit, Bounded!Init
  <2>1. /\ slotSignals = maxcap /\ itemSignals = 0 /\ answer = 0
        /\ accepted = TRUE
    BY DEF BufferInit, Slots!SemaInit, Items!SemaInit
  <2>2. maxcap \in Nat /\ maxcap - maxcap = 0
    BY <1>1 DEF CircularInv, BufferInv
  <2>3. Nums(0, 0) = <<>>
    BY NumsEmpty
  <2>4. Contents = Nums(slotSignals - maxcap, itemSignals)
    BY <1>1, <1>3
  <2> QED  BY <2>1, <2>2, <2>3, <2>4
<1>6. CircularInv /\ CircularInv' /\ [BufferNext]_vars
         => [Bounded!BoundedNext]_<<Contents, answer, maxcap, accepted>>
  <2> SUFFICES ASSUME CircularInv, CircularInv', [BufferNext]_vars
               PROVE  [Bounded!BoundedNext]_<<Contents, answer, maxcap, accepted>>
    OBVIOUS
  <2> DEFINE q == Contents
  <2>1. /\ q = Nums(slotSignals - maxcap, itemSignals)
        /\ q' = Nums(slotSignals' - maxcap', itemSignals')
    BY <1>3, <1>4
  <2> HIDE DEF q
  <2>2. ClientSees(q, q')
    BY <2>1, StepIsBounded
  <2> QED  BY <2>2 DEF ClientSees, Bounded!BoundedNext, Bounded!Put,
                       Bounded!Refuse, Bounded!Enqueue, Bounded!Dequeue, Bounded!TimeOut, q
<1> QED
  BY <1>1, <1>2, <1>5, <1>6, PTL DEF BufferSafety, BoundedSpec, Bounded!BoundedSpec
=============================================================================
