----------------------- MODULE ReaderWriterQueue_proofs -----------------------
(***************************************************************************)
(* That a queue of one producer and one consumer hands over every element  *)
(* once and in order, has the room it was asked for, and knows how much is *)
(* in it: for queues of any size, blocks of any number and capacity, and   *)
(* calls of any number and in any interleaving.                            *)
(***************************************************************************)
EXTENDS ReaderWriterQueue, QueueLemmas

(***************************************************************************)
(* One block.                                                              *)
(***************************************************************************)
Blocks == UNION {[cap : {n}, next : Nat, front : Nat, localTail : Nat,
                  tail : Nat, localFront : Nat, data : [0 .. n - 1 -> Nat]] :
                 n \in Nat}

(* How far it is in a ring of n slots from slot i to slot j.               *)
Dist(n, i, j) == IF i <= j THEN j - i ELSE j + n - i

Count(c) == Dist(c.cap, c.front, c.tail)

(* The four indices follow each other around the slots: what a thread      *)
(* remembers of the index of the other is never ahead of that index.       *)
BlockOK(c) ==
    /\ c \in Blocks
    /\ c.cap >= 2
    /\ c.localFront < c.cap /\ c.front < c.cap
    /\ c.localTail < c.cap /\ c.tail < c.cap
    /\ Dist(c.cap, c.localFront, c.front) + Dist(c.cap, c.front, c.localTail)
         + Dist(c.cap, c.localTail, c.tail) < c.cap

(* From front to tail a block holds the numbers that follow lo, but for    *)
(* the first, which may have been taken; the slot at the tail holds extra, *)
(* and all others are empty.                                               *)
Holds(c, lo, taken, extra) ==
    \A j \in 0 .. c.cap - 1 :
        c.data[j] = LET n == Dist(c.cap, c.front, j) IN
                    IF n < taken THEN 0
                    ELSE IF n < Count(c) THEN lo + 1 + n
                    ELSE IF j = c.tail THEN extra ELSE 0

(* The fields of a block have their types.                                 *)
LEMMA BlockFields ==
    ASSUME NEW c \in Blocks
    PROVE  /\ c.cap \in Nat /\ c.next \in Nat
           /\ c.front \in Nat /\ c.localTail \in Nat
           /\ c.tail \in Nat /\ c.localFront \in Nat
           /\ c.data \in [0 .. c.cap - 1 -> Nat]
<1>1. PICK n \in Nat :
        c \in [cap : {n}, next : Nat, front : Nat, localTail : Nat,
               tail : Nat, localFront : Nat, data : [0 .. n - 1 -> Nat]]
  BY DEF Blocks
<1> QED  BY <1>1

(* A field may be assigned any number ...                                  *)
LEMMA SetField ==
    ASSUME NEW c \in Blocks, NEW v \in Nat
    PROVE  /\ [c EXCEPT !.next = v] \in Blocks
           /\ [c EXCEPT !.front = v] \in Blocks
           /\ [c EXCEPT !.localTail = v] \in Blocks
           /\ [c EXCEPT !.tail = v] \in Blocks
           /\ [c EXCEPT !.localFront = v] \in Blocks
<1>1. PICK n \in Nat :
        c \in [cap : {n}, next : Nat, front : Nat, localTail : Nat,
               tail : Nat, localFront : Nat, data : [0 .. n - 1 -> Nat]]
  BY DEF Blocks
<1> DEFINE R == [cap : {n}, next : Nat, front : Nat, localTail : Nat,
                 tail : Nat, localFront : Nat, data : [0 .. n - 1 -> Nat]]
<1>2. /\ [c EXCEPT !.next = v] \in R
      /\ [c EXCEPT !.front = v] \in R
      /\ [c EXCEPT !.localTail = v] \in R
      /\ [c EXCEPT !.tail = v] \in R
      /\ [c EXCEPT !.localFront = v] \in R
  BY <1>1
<1> QED  BY <1>2 DEF Blocks

(* ... and a slot any number.                                              *)
LEMMA SetSlot ==
    ASSUME NEW c \in Blocks, NEW i \in 0 .. c.cap - 1, NEW v \in Nat,
           NEW d, d = [c EXCEPT !.data[i] = v]
    PROVE  /\ d \in Blocks
           /\ d.cap = c.cap /\ d.next = c.next /\ d.front = c.front
           /\ d.localTail = c.localTail /\ d.tail = c.tail
           /\ d.localFront = c.localFront
           /\ \A j \in 0 .. c.cap - 1 :
                 d.data[j] = IF j = i THEN v ELSE c.data[j]
<1>1. PICK n \in Nat :
        c \in [cap : {n}, next : Nat, front : Nat, localTail : Nat,
               tail : Nat, localFront : Nat, data : [0 .. n - 1 -> Nat]]
  BY DEF Blocks
<1> DEFINE R == [cap : {n}, next : Nat, front : Nat, localTail : Nat,
                 tail : Nat, localFront : Nat, data : [0 .. n - 1 -> Nat]]
           s == [c.data EXCEPT ![i] = v]
           e == [c EXCEPT !.data = s]
<1>2. s \in [0 .. n - 1 -> Nat] /\ c.cap = n
  BY <1>1
<1>3. \A j \in 0 .. c.cap - 1 : s[j] = IF j = i THEN v ELSE c.data[j]
  BY <1>1, <1>2
<1>4. d = e
  OBVIOUS
<1> HIDE DEF s
<1>5. /\ e \in R /\ e.data = s
      /\ e.cap = c.cap /\ e.next = c.next /\ e.front = c.front
      /\ e.localTail = c.localTail /\ e.tail = c.tail
      /\ e.localFront = c.localFront
  BY <1>1, <1>2
<1>6. e \in Blocks
  BY <1>5 DEF Blocks
<1> HIDE DEF e
<1> QED  BY <1>3, <1>4, <1>5, <1>6

(* The slot after slot i of n.                                             *)
LEMMA NextSlot ==
    ASSUME NEW n \in Nat, NEW i \in Nat, i < n
    PROVE  (i + 1) % n = IF i + 1 = n THEN 0 ELSE i + 1
  OBVIOUS
(* There are fewer elements than slots.                                    *)
LEMMA CountBounds ==
    ASSUME NEW c, BlockOK(c)
    PROVE  /\ Count(c) \in Nat /\ Count(c) < c.cap
           /\ Count(c) = 0 <=> c.front = c.tail
<1>1. /\ c.cap \in Nat /\ c.front \in Nat /\ c.tail \in Nat
      /\ c.front < c.cap /\ c.tail < c.cap
  BY BlockFields DEF BlockOK
<1>2. /\ Dist(c.cap, c.front, c.tail) \in Nat
      /\ Dist(c.cap, c.front, c.tail) < c.cap
      /\ Dist(c.cap, c.front, c.tail) = 0 <=> c.front = c.tail
  BY <1>1 DEF Dist
<1> QED  BY <1>2 DEF Count

(* The producer stores an element at the tail, which is empty ...          *)
LEMMA BlockFilled ==
    ASSUME NEW c, BlockOK(c), NEW lo \in Nat, NEW taken \in {0, 1},
           taken <= Count(c), NEW v \in Nat, Holds(c, lo, taken, 0), NEW d,
           d = [c EXCEPT !.data[c.tail] = v]
    PROVE  /\ BlockOK(d) /\ Count(d) = Count(c)
           /\ c.data[c.tail] = 0
           /\ Holds(d, lo, taken, v)
           /\ d.cap = c.cap /\ d.next = c.next /\ d.front = c.front
           /\ d.localTail = c.localTail /\ d.tail = c.tail
           /\ d.localFront = c.localFront
<1>1. /\ c \in Blocks /\ c.tail \in 0 .. c.cap - 1
      /\ c.cap \in Nat /\ c.front \in Nat /\ c.tail \in Nat
      /\ c.front < c.cap /\ c.tail < c.cap
  BY BlockFields DEF BlockOK
<1>2. /\ d \in Blocks
      /\ d.cap = c.cap /\ d.next = c.next /\ d.front = c.front
      /\ d.localTail = c.localTail /\ d.tail = c.tail
      /\ d.localFront = c.localFront
      /\ \A j \in 0 .. c.cap - 1 :
            d.data[j] = IF j = c.tail THEN v ELSE c.data[j]
  BY <1>1, SetSlot
<1>3. BlockOK(d) /\ Count(d) = Count(c)
  BY <1>2 DEF BlockOK, Count
<1>4. /\ Count(c) \in Nat
      /\ \A j \in 0 .. c.cap - 1 :
            Dist(c.cap, c.front, j) = Count(c) <=> j = c.tail
  BY <1>1 DEF Count, Dist
<1>5. c.data[c.tail] = 0
  BY <1>1, <1>4 DEF Holds
<1>6. Holds(d, lo, taken, v)
  <2> SUFFICES ASSUME NEW j \in 0 .. c.cap - 1
               PROVE  d.data[j] = LET n == Dist(c.cap, c.front, j) IN
                         IF n < taken THEN 0
                         ELSE IF n < Count(c) THEN lo + 1 + n
                         ELSE IF j = c.tail THEN v ELSE 0
    BY <1>2, <1>3 DEF Holds
  <2>1. c.data[j] = LET n == Dist(c.cap, c.front, j) IN
                    IF n < taken THEN 0
                    ELSE IF n < Count(c) THEN lo + 1 + n
                    ELSE IF j = c.tail THEN 0 ELSE 0
    BY DEF Holds
  <2>2. d.data[j] = IF j = c.tail THEN v ELSE c.data[j]
    BY <1>2
  <2>3. Dist(c.cap, c.front, j) = Count(c) <=> j = c.tail
    BY <1>4
  <2> QED  BY <1>4, <2>1, <2>2, <2>3
<1> QED  BY <1>2, <1>3, <1>5, <1>6

(* ... and publishes it, when there is room behind what it remembers of    *)
(* the front.                                                              *)
LEMMA BlockPublished ==
    ASSUME NEW c, BlockOK(c), NEW lo \in Nat, NEW taken \in {0, 1},
           taken <= Count(c),
           Dist(c.cap, c.localFront, c.tail) < c.cap - 1,
           Holds(c, lo, taken, lo + Count(c) + 1), NEW d,
           d = [c EXCEPT !.tail = (c.tail + 1) % c.cap]
    PROVE  /\ BlockOK(d) /\ Count(d) = Count(c) + 1
           /\ Holds(d, lo, taken, 0)
           /\ d.cap = c.cap /\ d.next = c.next /\ d.front = c.front
           /\ d.localTail = c.localTail /\ d.localFront = c.localFront
<1>1. /\ c \in Blocks
      /\ c.cap \in Nat /\ c.front \in Nat /\ c.tail \in Nat
      /\ c.localFront \in Nat /\ c.localTail \in Nat
  BY BlockFields DEF BlockOK
<1>2. /\ c.cap >= 2 /\ c.front < c.cap /\ c.tail < c.cap
      /\ c.localFront < c.cap /\ c.localTail < c.cap
      /\ Dist(c.cap, c.localFront, c.front) + Dist(c.cap, c.front, c.localTail)
           + Dist(c.cap, c.localTail, c.tail) < c.cap
  BY DEF BlockOK
<1> DEFINE v == (c.tail + 1) % c.cap
<1>3. v = IF c.tail + 1 = c.cap THEN 0 ELSE c.tail + 1
  BY <1>1, <1>2, NextSlot
<1>4. v \in Nat /\ v < c.cap
  BY <1>1, <1>2, <1>3
<1>5. d = [c EXCEPT !.tail = v]
  OBVIOUS
<1> HIDE DEF v
<1>6. d \in Blocks
  BY <1>1, <1>4, <1>5, SetField
<1>7. /\ d.cap = c.cap /\ d.next = c.next /\ d.front = c.front
      /\ d.localTail = c.localTail /\ d.tail = v
      /\ d.localFront = c.localFront /\ d.data = c.data
  <2>1. PICK n \in Nat :
          c \in [cap : {n}, next : Nat, front : Nat, localTail : Nat,
                 tail : Nat, localFront : Nat, data : [0 .. n - 1 -> Nat]]
    BY <1>1 DEF Blocks
  <2> QED  BY <1>5, <2>1
<1>7a. /\ Dist(c.cap, c.front, v) = Dist(c.cap, c.front, c.tail) + 1
       /\ Dist(c.cap, c.localFront, c.front) + Dist(c.cap, c.front, c.localTail)
            + Dist(c.cap, c.localTail, v) < c.cap
  <2> DEFINE n == c.cap
             l == c.localFront
             f == c.front
             i == c.localTail
             t == c.tail
  <2>1. /\ n \in Nat /\ l \in Nat /\ f \in Nat /\ i \in Nat /\ t \in Nat
        /\ l < n /\ f < n /\ i < n /\ t < n
        /\ Dist(n, l, f) + Dist(n, f, i) + Dist(n, i, t) < n
        /\ Dist(n, l, t) < n - 1
        /\ v = IF t + 1 = n THEN 0 ELSE t + 1
    BY <1>1, <1>2, <1>3
  <2> HIDE DEF n, l, f, i, t
  <2>2. /\ Dist(n, f, v) = Dist(n, f, t) + 1
        /\ Dist(n, l, f) + Dist(n, f, i) + Dist(n, i, v) < n
    BY <1>4, <2>1 DEF Dist
  <2> QED  BY <2>2 DEF n, l, f, i, t
<1>8. BlockOK(d)
  BY <1>2, <1>4, <1>6, <1>7, <1>7a DEF BlockOK
<1>9. Count(d) = Count(c) + 1
  BY <1>7, <1>7a DEF Count
<1>10. Holds(d, lo, taken, 0)
  <2> SUFFICES ASSUME NEW j \in 0 .. c.cap - 1
               PROVE  c.data[j] = LET n == Dist(c.cap, c.front, j) IN
                         IF n < taken THEN 0
                         ELSE IF n < Count(d) THEN lo + 1 + n
                         ELSE IF j = v THEN 0 ELSE 0
    BY <1>7 DEF Holds
  <2>1. c.data[j] = LET n == Dist(c.cap, c.front, j) IN
                    IF n < taken THEN 0
                    ELSE IF n < Count(c) THEN lo + 1 + n
                    ELSE IF j = c.tail THEN lo + Count(c) + 1 ELSE 0
    BY DEF Holds
  <2>2. Dist(c.cap, c.front, j) = Count(c) <=> j = c.tail
    BY <1>1, <1>2 DEF Count, Dist
  <2>3. Dist(c.cap, c.front, j) \in Nat /\ Count(c) \in Nat
    BY <1>1, <1>2 DEF Count, Dist
  <2> QED  BY <1>9, <2>1, <2>2, <2>3
<1> QED  BY <1>7, <1>8, <1>9, <1>10

(* Only the field that is assigned changes.                                *)
LEMMA SetNext ==
    ASSUME NEW c \in Blocks, NEW v \in Nat, NEW d, d = [c EXCEPT !.next = v]
    PROVE  /\ d \in Blocks /\ d.cap = c.cap /\ d.next = v /\ d.front = c.front
           /\ d.localTail = c.localTail /\ d.tail = c.tail /\ d.localFront = c.localFront
           /\ d.data = c.data
<1>1. PICK n \in Nat :
        c \in [cap : {n}, next : Nat, front : Nat, localTail : Nat,
               tail : Nat, localFront : Nat, data : [0 .. n - 1 -> Nat]]
  BY DEF Blocks
<1> QED  BY <1>1, SetField

(* The index of the consumer.                                              *)
LEMMA SetFront ==
    ASSUME NEW c \in Blocks, NEW v \in Nat, NEW d, d = [c EXCEPT !.front = v]
    PROVE  /\ d \in Blocks /\ d.cap = c.cap /\ d.next = c.next /\ d.front = v
           /\ d.localTail = c.localTail /\ d.tail = c.tail /\ d.localFront = c.localFront
           /\ d.data = c.data
<1>1. PICK n \in Nat :
        c \in [cap : {n}, next : Nat, front : Nat, localTail : Nat,
               tail : Nat, localFront : Nat, data : [0 .. n - 1 -> Nat]]
  BY DEF Blocks
<1> QED  BY <1>1, SetField

(* What the consumer remembers of the index of the producer.               *)
LEMMA SetLocalTail ==
    ASSUME NEW c \in Blocks, NEW v \in Nat, NEW d, d = [c EXCEPT !.localTail = v]
    PROVE  /\ d \in Blocks /\ d.cap = c.cap /\ d.next = c.next /\ d.front = c.front
           /\ d.localTail = v /\ d.tail = c.tail /\ d.localFront = c.localFront
           /\ d.data = c.data
<1>1. PICK n \in Nat :
        c \in [cap : {n}, next : Nat, front : Nat, localTail : Nat,
               tail : Nat, localFront : Nat, data : [0 .. n - 1 -> Nat]]
  BY DEF Blocks
<1> QED  BY <1>1, SetField

(* What the producer remembers of the index of the consumer.               *)
LEMMA SetLocalFront ==
    ASSUME NEW c \in Blocks, NEW v \in Nat, NEW d, d = [c EXCEPT !.localFront = v]
    PROVE  /\ d \in Blocks /\ d.cap = c.cap /\ d.next = c.next /\ d.front = c.front
           /\ d.localTail = c.localTail /\ d.tail = c.tail /\ d.localFront = v
           /\ d.data = c.data
<1>1. PICK n \in Nat :
        c \in [cap : {n}, next : Nat, front : Nat, localTail : Nat,
               tail : Nat, localFront : Nat, data : [0 .. n - 1 -> Nat]]
  BY DEF Blocks
<1> QED  BY <1>1, SetField

(* What a thread remembers of an index is behind that index.               *)
LEMMA DistSum ==
    ASSUME NEW n \in Nat, NEW l \in Nat, NEW f \in Nat, NEW i \in Nat,
           NEW t \in Nat, l < n, f < n, i < n, t < n,
           Dist(n, l, f) + Dist(n, f, i) + Dist(n, i, t) < n
    PROVE  /\ Dist(n, f, i) + Dist(n, i, t) = Dist(n, f, t)
           /\ Dist(n, l, f) + Dist(n, f, t) + Dist(n, t, t) < n
           /\ Dist(n, f, f) + Dist(n, f, i) + Dist(n, i, t) < n
           /\ Dist(n, l, t) = Dist(n, l, f) + Dist(n, f, t)
           /\ f # i => f # t
  BY DEF Dist
(* The consumer reads the index of the producer ...                        *)
LEMMA BlockSeenTail ==
    ASSUME NEW c, BlockOK(c), NEW d, d = [c EXCEPT !.localTail = c.tail]
    PROVE  /\ BlockOK(d) /\ Count(d) = Count(c)
           /\ \A lo, taken, extra : Holds(c, lo, taken, extra)
                                       => Holds(d, lo, taken, extra)
           /\ d.cap = c.cap /\ d.next = c.next /\ d.front = c.front
           /\ d.localTail = c.tail /\ d.tail = c.tail
           /\ d.localFront = c.localFront /\ d.data = c.data
<1>1. /\ c \in Blocks
      /\ c.cap \in Nat /\ c.front \in Nat /\ c.tail \in Nat
      /\ c.localFront \in Nat /\ c.localTail \in Nat
  BY BlockFields DEF BlockOK
<1>2. /\ c.cap >= 2 /\ c.front < c.cap /\ c.tail < c.cap
      /\ c.localFront < c.cap /\ c.localTail < c.cap
      /\ Dist(c.cap, c.localFront, c.front) + Dist(c.cap, c.front, c.localTail)
           + Dist(c.cap, c.localTail, c.tail) < c.cap
  BY DEF BlockOK
<1>3. /\ d \in Blocks
      /\ d.cap = c.cap /\ d.next = c.next /\ d.front = c.front
      /\ d.localTail = c.tail /\ d.tail = c.tail
      /\ d.localFront = c.localFront /\ d.data = c.data
  BY <1>1, SetLocalTail
<1>4. Dist(c.cap, c.localFront, c.front) + Dist(c.cap, c.front, c.tail)
        + Dist(c.cap, c.tail, c.tail) < c.cap
  BY <1>1, <1>2, DistSum
<1>5. BlockOK(d)
  BY <1>2, <1>3, <1>4 DEF BlockOK
<1>6. Count(d) = Count(c)
  BY <1>3 DEF Count
<1> QED  BY <1>3, <1>5, <1>6 DEF Holds

(* ... and the producer that of the consumer.                              *)
LEMMA BlockSeenFront ==
    ASSUME NEW c, BlockOK(c), NEW d, d = [c EXCEPT !.localFront = c.front]
    PROVE  /\ BlockOK(d) /\ Count(d) = Count(c)
           /\ \A lo, taken, extra : Holds(c, lo, taken, extra)
                                       => Holds(d, lo, taken, extra)
           /\ d.cap = c.cap /\ d.next = c.next /\ d.front = c.front
           /\ d.localTail = c.localTail /\ d.tail = c.tail
           /\ d.localFront = c.front /\ d.data = c.data
<1>1. /\ c \in Blocks
      /\ c.cap \in Nat /\ c.front \in Nat /\ c.tail \in Nat
      /\ c.localFront \in Nat /\ c.localTail \in Nat
  BY BlockFields DEF BlockOK
<1>2. /\ c.cap >= 2 /\ c.front < c.cap /\ c.tail < c.cap
      /\ c.localFront < c.cap /\ c.localTail < c.cap
      /\ Dist(c.cap, c.localFront, c.front) + Dist(c.cap, c.front, c.localTail)
           + Dist(c.cap, c.localTail, c.tail) < c.cap
  BY DEF BlockOK
<1>3. /\ d \in Blocks
      /\ d.cap = c.cap /\ d.next = c.next /\ d.front = c.front
      /\ d.localTail = c.localTail /\ d.tail = c.tail
      /\ d.localFront = c.front /\ d.data = c.data
  BY <1>1, SetLocalFront
<1>4. Dist(c.cap, c.front, c.front) + Dist(c.cap, c.front, c.localTail)
        + Dist(c.cap, c.localTail, c.tail) < c.cap
  BY <1>1, <1>2, DistSum
<1>5. BlockOK(d)
  BY <1>2, <1>3, <1>4 DEF BlockOK
<1>6. Count(d) = Count(c)
  BY <1>3 DEF Count
<1> QED  BY <1>3, <1>5, <1>6 DEF Holds

(* The consumer takes the element at the front ...                         *)
LEMMA BlockTaken ==
    ASSUME NEW c, BlockOK(c), NEW lo \in Nat, NEW extra, Count(c) > 0,
           Holds(c, lo, 0, extra), NEW d, d = [c EXCEPT !.data[c.front] = 0]
    PROVE  /\ BlockOK(d) /\ Count(d) = Count(c)
           /\ c.data[c.front] = lo + 1
           /\ Holds(d, lo, 1, extra)
           /\ d.cap = c.cap /\ d.next = c.next /\ d.front = c.front
           /\ d.localTail = c.localTail /\ d.tail = c.tail
           /\ d.localFront = c.localFront
<1>1. /\ c \in Blocks /\ c.front \in 0 .. c.cap - 1
      /\ c.cap \in Nat /\ c.front \in Nat /\ c.tail \in Nat
      /\ c.front < c.cap /\ c.tail < c.cap
  BY BlockFields DEF BlockOK
<1>2. /\ d \in Blocks
      /\ d.cap = c.cap /\ d.next = c.next /\ d.front = c.front
      /\ d.localTail = c.localTail /\ d.tail = c.tail
      /\ d.localFront = c.localFront
      /\ \A j \in 0 .. c.cap - 1 :
            d.data[j] = IF j = c.front THEN 0 ELSE c.data[j]
  <2> DEFINE v == 0
  <2>1. v \in Nat /\ d = [c EXCEPT !.data[c.front] = v]
    OBVIOUS
  <2> HIDE DEF v
  <2>2. /\ d \in Blocks
        /\ d.cap = c.cap /\ d.next = c.next /\ d.front = c.front
        /\ d.localTail = c.localTail /\ d.tail = c.tail
        /\ d.localFront = c.localFront
        /\ \A j \in 0 .. c.cap - 1 :
              d.data[j] = IF j = c.front THEN v ELSE c.data[j]
    BY <1>1, <2>1, SetSlot
  <2> QED  BY <2>2 DEF v
<1>3. BlockOK(d) /\ Count(d) = Count(c)
  BY <1>2 DEF BlockOK, Count
<1>4. \A j \in 0 .. c.cap - 1 :
         /\ Dist(c.cap, c.front, j) \in Nat
         /\ Dist(c.cap, c.front, j) = 0 <=> j = c.front
  BY <1>1 DEF Dist
<1>5. Count(c) \in Nat
  BY CountBounds
<1>6. c.data[c.front] = lo + 1
  <2>1. Dist(c.cap, c.front, c.front) = 0
    BY <1>1, <1>4
  <2>2. c.data[c.front] = lo + 1 + 0
    BY <1>1, <1>5, <2>1 DEF Holds
  <2> QED  BY <2>2
<1>7. Holds(d, lo, 1, extra)
  <2> SUFFICES ASSUME NEW j \in 0 .. c.cap - 1
               PROVE  d.data[j] = LET n == Dist(c.cap, c.front, j) IN
                         IF n < 1 THEN 0
                         ELSE IF n < Count(c) THEN lo + 1 + n
                         ELSE IF j = c.tail THEN extra ELSE 0
    BY <1>2, <1>3 DEF Holds
  <2>1. c.data[j] = LET n == Dist(c.cap, c.front, j) IN
                    IF n < 0 THEN 0
                    ELSE IF n < Count(c) THEN lo + 1 + n
                    ELSE IF j = c.tail THEN extra ELSE 0
    BY DEF Holds
  <2>2. d.data[j] = IF j = c.front THEN 0 ELSE c.data[j]
    BY <1>2
  <2> QED  BY <1>4, <1>5, <2>1, <2>2
<1> QED  BY <1>2, <1>3, <1>6, <1>7

(* ... and gives the slot back.                                            *)
LEMMA BlockFreed ==
    ASSUME NEW c, BlockOK(c), NEW lo \in Nat, NEW extra,
           c.front # c.localTail, Holds(c, lo, 1, extra),
           NEW d, d = [c EXCEPT !.front = (c.front + 1) % c.cap]
    PROVE  /\ BlockOK(d) /\ Count(d) + 1 = Count(c)
           /\ Holds(d, lo + 1, 0, extra)
           /\ d.cap = c.cap /\ d.next = c.next
           /\ d.localTail = c.localTail /\ d.tail = c.tail
           /\ d.localFront = c.localFront
<1>1. /\ c \in Blocks
      /\ c.cap \in Nat /\ c.front \in Nat /\ c.tail \in Nat
      /\ c.localFront \in Nat /\ c.localTail \in Nat
  BY BlockFields DEF BlockOK
<1>2. /\ c.cap >= 2 /\ c.front < c.cap /\ c.tail < c.cap
      /\ c.localFront < c.cap /\ c.localTail < c.cap
      /\ Dist(c.cap, c.localFront, c.front) + Dist(c.cap, c.front, c.localTail)
           + Dist(c.cap, c.localTail, c.tail) < c.cap
  BY DEF BlockOK
<1> DEFINE v == (c.front + 1) % c.cap
<1>3. v = IF c.front + 1 = c.cap THEN 0 ELSE c.front + 1
  BY <1>1, <1>2, NextSlot
<1>4. v \in Nat /\ v < c.cap
  BY <1>1, <1>2, <1>3
<1>5. d = [c EXCEPT !.front = v]
  OBVIOUS
<1> HIDE DEF v
<1>6. /\ d \in Blocks
      /\ d.cap = c.cap /\ d.next = c.next /\ d.front = v
      /\ d.localTail = c.localTail /\ d.tail = c.tail
      /\ d.localFront = c.localFront /\ d.data = c.data
  BY <1>1, <1>4, <1>5, SetFront
<1>7. /\ Dist(c.cap, v, c.tail) + 1 = Dist(c.cap, c.front, c.tail)
      /\ Dist(c.cap, c.localFront, v) + Dist(c.cap, v, c.localTail)
           + Dist(c.cap, c.localTail, c.tail) < c.cap
  <2> DEFINE n == c.cap
             l == c.localFront
             f == c.front
             i == c.localTail
             t == c.tail
  <2>1. /\ n \in Nat /\ l \in Nat /\ f \in Nat /\ i \in Nat /\ t \in Nat
        /\ l < n /\ f < n /\ i < n /\ t < n
        /\ Dist(n, l, f) + Dist(n, f, i) + Dist(n, i, t) < n
        /\ f # i /\ v = IF f + 1 = n THEN 0 ELSE f + 1
    BY <1>1, <1>2, <1>3
  <2> HIDE DEF n, l, f, i, t
  <2>2. /\ Dist(n, v, t) + 1 = Dist(n, f, t)
        /\ Dist(n, l, v) + Dist(n, v, i) + Dist(n, i, t) < n
    BY <1>4, <2>1 DEF Dist
  <2> QED  BY <2>2 DEF n, l, f, i, t
<1>8. BlockOK(d)
  BY <1>2, <1>4, <1>6, <1>7 DEF BlockOK
<1>9. Count(d) + 1 = Count(c)
  BY <1>6, <1>7 DEF Count
<1>10. Holds(d, lo + 1, 0, extra)
  <2> SUFFICES ASSUME NEW j \in 0 .. c.cap - 1
               PROVE  c.data[j] = LET n == Dist(c.cap, v, j) IN
                         IF n < 0 THEN 0
                         ELSE IF n < Count(d) THEN lo + 1 + 1 + n
                         ELSE IF j = c.tail THEN extra ELSE 0
    BY <1>6 DEF Holds
  <2>1. c.data[j] = LET n == Dist(c.cap, c.front, j) IN
                    IF n < 1 THEN 0
                    ELSE IF n < Count(c) THEN lo + 1 + n
                    ELSE IF j = c.tail THEN extra ELSE 0
    BY DEF Holds
  <2>2. Count(d) \in Nat /\ Count(c) \in Nat /\ Count(d) + 1 = Count(c)
        /\ Count(c) < c.cap
    BY <1>8, <1>9, CountBounds
  <2>3. CASE j = c.front
    <3>1. Dist(c.cap, c.front, j) = 0 /\ Dist(c.cap, v, j) = c.cap - 1
      BY <1>1, <1>2, <1>3, <2>3 DEF Dist
    <3>2. c.front # c.tail
      BY <2>2, CountBounds
    <3> QED  BY <1>1, <2>1, <2>2, <2>3, <3>1, <3>2
  <2>4. CASE j # c.front
    <3>1. /\ Dist(c.cap, c.front, j) \in Nat /\ Dist(c.cap, v, j) \in Nat
          /\ Dist(c.cap, v, j) + 1 = Dist(c.cap, c.front, j)
      BY <1>1, <1>2, <1>3, <2>4 DEF Dist
    <3> QED  BY <2>1, <2>2, <3>1
  <2> QED  BY <2>3, <2>4
<1> QED  BY <1>6, <1>8, <1>9, <1>10

(* A link is no part of what a block holds.                                *)
LEMMA BlockLinked ==
    ASSUME NEW c, BlockOK(c), NEW v \in Nat, NEW d, d = [c EXCEPT !.next = v]
    PROVE  /\ BlockOK(d) /\ Count(d) = Count(c)
           /\ \A lo, taken, extra : Holds(c, lo, taken, extra)
                                       => Holds(d, lo, taken, extra)
           /\ d.cap = c.cap /\ d.next = v /\ d.front = c.front
           /\ d.localTail = c.localTail /\ d.tail = c.tail
           /\ d.localFront = c.localFront /\ d.data = c.data
<1>1. /\ d \in Blocks
      /\ d.cap = c.cap /\ d.next = v /\ d.front = c.front
      /\ d.localTail = c.localTail /\ d.tail = c.tail
      /\ d.localFront = c.localFront /\ d.data = c.data
  BY SetNext DEF BlockOK
<1>2. BlockOK(d)
  BY <1>1 DEF BlockOK
<1>3. Count(d) = Count(c)
  BY <1>1 DEF Count
<1> QED  BY <1>1, <1>2, <1>3 DEF Holds

(* A block without elements holds those that follow any number.            *)
LEMMA EmptyHolds ==
    ASSUME NEW c, BlockOK(c), Count(c) = 0, NEW extra, NEW lo, NEW hi,
           Holds(c, lo, 0, extra)
    PROVE  Holds(c, hi, 0, extra)
<1>1. \A j \in 0 .. c.cap - 1 : Dist(c.cap, c.front, j) \in Nat
  BY BlockFields DEF BlockOK, Dist
<1> QED  BY <1>1 DEF Holds

(* A block is made empty ...                                               *)
LEMMA BlockMade ==
    ASSUME NEW n \in Nat, n >= 2, NEW next \in Nat
    PROVE  LET c == Block(n, next) IN
           /\ BlockOK(c) /\ Count(c) = 0 /\ c.next = next /\ c.cap = n
           /\ c.front = 0 /\ c.localTail = 0 /\ c.tail = 0 /\ c.localFront = 0
           /\ \A lo : Holds(c, lo, 0, 0)
<1> DEFINE s == [i \in 0 .. n - 1 |-> 0]
           c == [cap |-> n, next |-> next, front |-> 0, localTail |-> 0,
                 tail |-> 0, localFront |-> 0, data |-> s]
<1>1. s \in [0 .. n - 1 -> Nat] /\ \A i \in 0 .. n - 1 : s[i] = 0
  OBVIOUS
<1>2. c = Block(n, next)
  BY DEF Block
<1> HIDE DEF s
<1>3. /\ c \in [cap : {n}, next : Nat, front : Nat, localTail : Nat,
                tail : Nat, localFront : Nat, data : [0 .. n - 1 -> Nat]]
      /\ c.next = next /\ c.cap = n /\ c.data = s
      /\ c.front = 0 /\ c.localTail = 0 /\ c.tail = 0 /\ c.localFront = 0
  BY <1>1
<1>4. c \in Blocks
  BY <1>3 DEF Blocks
<1> HIDE DEF c
<1>5. Dist(n, 0, 0) = 0
  BY DEF Dist
<1>6. BlockOK(c) /\ Count(c) = 0
  BY <1>3, <1>4, <1>5 DEF BlockOK, Count
<1>7. ASSUME NEW lo PROVE Holds(c, lo, 0, 0)
  <2>1. \A j \in 0 .. n - 1 : Dist(n, 0, j) \in Nat
    BY DEF Dist
  <2> QED  BY <1>1, <1>3, <1>6, <2>1 DEF Holds
<1> QED  BY <1>2, <1>3, <1>6, <1>7

(* ... or with an element in it, for a queue that has no block free.       *)
LEMMA BlockMadeFull ==
    ASSUME NEW c \in Blocks, c.cap >= 2, NEW lo \in Nat,
           c.front = 0, c.localTail = 1, c.tail = 1, c.localFront = 0,
           \A j \in 0 .. c.cap - 1 : c.data[j] = IF j = 0 THEN lo + 1 ELSE 0
    PROVE  BlockOK(c) /\ Count(c) = 1 /\ Holds(c, lo, 0, 0)
<1>1. c.cap \in Nat
  BY BlockFields
<1>2. /\ Dist(c.cap, 0, 0) = 0 /\ Dist(c.cap, 0, 1) = 1 /\ Dist(c.cap, 1, 1) = 0
      /\ \A j \in 0 .. c.cap - 1 : Dist(c.cap, 0, j) = j
  BY <1>1 DEF Dist
<1>3. BlockOK(c) /\ Count(c) = 1
  BY <1>1, <1>2 DEF BlockOK, Count
<1> QED  BY <1>2, <1>3 DEF Holds

(***************************************************************************)
(* The ring.                                                               *)
(***************************************************************************)
(* The blocks that the links lead to: all but a new one.                   *)
Linked == IF enqPc = "link" THEN Len(block) - 1 ELSE Len(block)

(* What was dequeued before the slot that front is at.                     *)
First == IF deqPc = "free" THEN got - 1 ELSE got

(* The elements of a block that were taken and not given back.             *)
Taken(b) == IF deqPc = "free" /\ b = frontBlock THEN 1 ELSE 0

(* The slot at the tail holds an element that is not published yet.        *)
Filled(b) == \/ enqPc = "publish" /\ b = tailBlock
             \/ enqPc = "bump" /\ b = block[tailBlock].next
Extra(b) == IF Filled(b) THEN sent + 1 ELSE 0

RingTypeOK ==
    /\ block \in Seq(Blocks)
    /\ \A b \in 1 .. Len(block) : BlockOK(block[b])
    /\ frontBlock \in 1 .. Linked /\ tailBlock \in 1 .. Linked
    /\ sent \in Nat /\ got \in Nat /\ First \in Nat
    /\ largest \in Nat \ {0}
    /\ enqPc \in {"idle", "write", "publish", "full", "next", "fill", "bump",
                  "grow", "link", "advance", "enqueued", "failed"}
    /\ deqPc \in {"idle", "take", "last", "again", "ahead", "peek", "move",
                  "free", "dequeued", "show", "shown", "empty"}

(* The links lead around the ring: each block has a place in it, counted   *)
(* from the front block.                                                   *)
Links(place) ==
    /\ place \in [1 .. Linked -> 0 .. Linked - 1]
    /\ \A b, c \in 1 .. Linked : place[b] = place[c] => b = c
    /\ place[frontBlock] = 0
    /\ \A b \in 1 .. Linked :
          /\ block[b].next \in 1 .. Linked
          /\ place[block[b].next] = IF place[b] = Linked - 1 THEN 0
                                                             ELSE place[b] + 1

(* From the front block to the tail block the elements follow each other:  *)
(* before[b] were enqueued before those of b.  Only the front block may    *)
(* have none, and the blocks behind the tail block have none, but for one  *)
(* that is about to become the tail block.                                 *)
Numbered(place, before) ==
    /\ before \in [1 .. Linked -> Nat]
    /\ before[frontBlock] = First
    /\ before[tailBlock] + Count(block[tailBlock]) = sent
    /\ \A b \in 1 .. Linked :
          /\ place[b] < place[tailBlock] =>
                before[block[b].next] = before[b] + Count(block[b])
          /\ place[b] <= place[tailBlock] =>
                /\ before[b] + Count(block[b]) <= sent
                /\ b # frontBlock => Count(block[b]) > 0
          /\ place[b] > place[tailBlock] =>
                Count(block[b]) = IF enqPc = "advance" /\ b = block[tailBlock].next
                                    THEN 1 ELSE 0
    /\ enqPc = "advance" => before[block[tailBlock].next] = sent

SlotsHold(before) ==
    \A b \in 1 .. Linked : Holds(block[b], before[b], Taken(b), Extra(b))

(* A new block, and the element in it.                                     *)
NewBlock ==
    enqPc = "link" =>
        LET c == block[Len(block)] IN
        /\ c.next = block[tailBlock].next
        /\ Count(c) = 1
        /\ Holds(c, sent, 0, 0)

(* The producer writes where it has seen room, and moves to a block that   *)
(* the consumer is not in.                                                 *)
ProducerAt ==
    LET c == block[tailBlock]
        n == block[c.next] IN
    /\ enqPc \in {"write", "publish"} =>
          Dist(c.cap, c.localFront, c.tail) < c.cap - 1
    /\ enqPc \in {"next", "fill", "bump", "advance"} => c.next # frontBlock
    /\ enqPc \in {"fill", "bump"} => n.localFront = n.front

(* The consumer takes where it has seen an element, and moves from a block *)
(* that is empty and not the producer's to one that is not empty.          *)
ConsumerAt ==
    LET c == block[frontBlock] IN
    /\ deqPc \in {"take", "free"} => c.front # c.localTail
    /\ deqPc \in {"again", "ahead", "peek", "move", "show"} =>
          frontBlock # tailBlock
    /\ deqPc \in {"ahead", "peek", "move", "show"} => Count(c) = 0
    /\ deqPc \in {"peek", "move", "show"} => ahead = c.next
    /\ deqPc = "move" => block[ahead].front # block[ahead].localTail
    /\ deqPc = "last" => wasEmpty \/ frontBlock # tailBlock
    /\ deqPc = "empty" => wasEmpty
    /\ peeked # 0 => peeked = got + 1 /\ got < sent /\ deqPc # "free"

RingAt(place, before) ==
    /\ RingTypeOK /\ Links(place) /\ Numbered(place, before)
    /\ SlotsHold(before) /\ NewBlock /\ ProducerAt /\ ConsumerAt

RingInv == \E place, before : RingAt(place, before)
-----------------------------------------------------------------------------
(* One block is replaced.                                                  *)
LEMMA SetBlock ==
    ASSUME NEW blk \in Seq(Blocks), NEW b \in 1 .. Len(blk), NEW d \in Blocks,
           NEW new, new = [blk EXCEPT ![b] = d]
    PROVE  /\ new \in Seq(Blocks) /\ Len(new) = Len(blk)
           /\ \A c \in 1 .. Len(blk) : new[c] = IF c = b THEN d ELSE blk[c]
  OBVIOUS

(* A step that leaves every block with the elements it has, and neither    *)
(* publishes nor takes one, disturbs nothing but what the two threads know *)
(* of each other.                                                          *)
LEMMA QuietStep ==
    ASSUME NEW place, NEW before, RingAt(place, before),
           block' \in Seq(Blocks), Len(block') = Len(block),
           \A b \in 1 .. Len(block) :
              /\ BlockOK(block'[b])
              /\ Count(block'[b]) = Count(block[b])
              /\ block'[b].next = block[b].next
              /\ \A lo, taken, extra : Holds(block[b], lo, taken, extra)
                                          => Holds(block'[b], lo, taken, extra),
           frontBlock' = frontBlock, tailBlock' = tailBlock, sent' = sent,
           got' = got, largest' = largest,
           \/ enqPc' = enqPc
           \/ /\ {enqPc, enqPc'} \cap {"publish", "bump", "advance", "link"} = {}
              /\ enqPc' \in {"idle", "write", "full", "next", "fill", "grow",
                             "enqueued", "failed"},
           \/ deqPc' = deqPc
           \/ /\ {deqPc, deqPc'} \cap {"free"} = {}
              /\ deqPc' \in {"idle", "take", "last", "again", "ahead", "peek",
                             "move", "dequeued", "show", "shown", "empty"}
    PROVE  /\ RingTypeOK' /\ Links(place)' /\ Numbered(place, before)'
           /\ SlotsHold(before)' /\ NewBlock'
           /\ Linked' = Linked
<1> USE DEF RingAt
<1>1. /\ Linked' = Linked /\ First' = First
      /\ (enqPc' = "advance") = (enqPc = "advance")
      /\ (enqPc' = "link") = (enqPc = "link")
      /\ (enqPc' = "publish") = (enqPc = "publish")
      /\ (enqPc' = "bump") = (enqPc = "bump")
      /\ (deqPc' = "free") = (deqPc = "free")
  BY DEF Linked, First
<1>2. /\ Linked \in 0 .. Len(block)
      /\ frontBlock \in 1 .. Linked /\ tailBlock \in 1 .. Linked
      /\ Len(block) \in Nat
  BY DEF RingTypeOK, Linked
<1>3. \A b \in 1 .. Linked :
         /\ block'[b].next = block[b].next
         /\ Count(block'[b]) = Count(block[b])
  BY <1>2
<1>4. RingTypeOK'
  BY <1>1 DEF RingTypeOK
<1>5. Links(place)'
  <2>1. /\ place \in [1 .. Linked' -> 0 .. Linked' - 1]
        /\ \A b, c \in 1 .. Linked' : place[b] = place[c] => b = c
        /\ place[frontBlock'] = 0
    BY <1>1 DEF Links
  <2>2. \A b \in 1 .. Linked' :
           /\ block'[b].next \in 1 .. Linked'
           /\ place[block'[b].next] = IF place[b] = Linked' - 1
                                        THEN 0 ELSE place[b] + 1
    BY <1>1, <1>3 DEF Links
  <2> QED  BY <2>1, <2>2 DEF Links
<1>6. Numbered(place, before)'
  BY <1>1, <1>2, <1>3 DEF Numbered
<1>7. SlotsHold(before)'
  <2>1. \A b \in 1 .. Linked : Taken(b)' = Taken(b) /\ Extra(b)' = Extra(b)
    BY <1>1, <1>2, <1>3 DEF Taken, Extra, Filled
  <2>2. \A b \in 1 .. Linked : b \in 1 .. Len(block)
    BY <1>2
  <2> QED  BY <1>1, <2>1, <2>2 DEF SlotsHold
<1>8. NewBlock'
  <2> SUFFICES ASSUME enqPc' = "link"
               PROVE  LET c == block'[Len(block')] IN
                      /\ c.next = block'[tailBlock'].next
                      /\ Count(c) = 1
                      /\ Holds(c, sent', 0, 0)
    BY DEF NewBlock
  <2>1. /\ enqPc = "link" /\ Len(block) \in 1 .. Len(block)
        /\ tailBlock \in 1 .. Len(block)
    BY <1>1, <1>2 DEF Linked
  <2>2. LET c == block[Len(block)] IN
        /\ c.next = block[tailBlock].next
        /\ Count(c) = 1
        /\ Holds(c, sent, 0, 0)
    BY <2>1 DEF NewBlock
  <2> QED  BY <2>1, <2>2
<1> QED  BY <1>1, <1>4, <1>5, <1>6, <1>7, <1>8

(* Where the threads are.                                                  *)
LEMMA RingRange ==
    ASSUME NEW place, NEW before, RingAt(place, before)
    PROVE  /\ block \in Seq(Blocks) /\ Len(block) \in Nat
           /\ Linked \in 1 .. Len(block)
           /\ frontBlock \in 1 .. Len(block) /\ tailBlock \in 1 .. Len(block)
           /\ block[frontBlock].next \in 1 .. Len(block)
           /\ block[tailBlock].next \in 1 .. Len(block)
           /\ BlockOK(block[frontBlock]) /\ BlockOK(block[tailBlock])
           /\ BlockOK(block[block[frontBlock].next])
           /\ BlockOK(block[block[tailBlock].next])
<1>1. /\ block \in Seq(Blocks) /\ Len(block) \in Nat
      /\ frontBlock \in 1 .. Linked /\ tailBlock \in 1 .. Linked
      /\ Linked <= Len(block) /\ Linked \in Int
      /\ \A b \in 1 .. Len(block) : BlockOK(block[b])
  BY DEF RingAt, RingTypeOK, Linked
<1>2. /\ block[frontBlock].next \in 1 .. Linked
      /\ block[tailBlock].next \in 1 .. Linked
  BY <1>1 DEF RingAt, Links
<1> QED  BY <1>1, <1>2

(* What the consumer relies on is kept by a step of the producer that      *)
(* leaves the indices of the consumer alone ...                            *)
LEMMA ConsumerKept ==
    ASSUME NEW place, NEW before, RingAt(place, before),
           \A b \in 1 .. Len(block) :
              /\ block'[b].front = block[b].front
              /\ block'[b].localTail = block[b].localTail,
           frontBlock # tailBlock =>
              /\ frontBlock # tailBlock'
              /\ block'[frontBlock].next = block[frontBlock].next
              /\ Count(block'[frontBlock]) = Count(block[frontBlock]),
           sent' \in Nat, sent' >= sent, frontBlock' = frontBlock, got' = got,
           deqPc' = deqPc, ahead' = ahead, peeked' = peeked,
           wasEmpty' = wasEmpty
    PROVE  ConsumerAt'
<1>1. /\ frontBlock \in 1 .. Len(block)
      /\ block[frontBlock].next \in 1 .. Len(block)
  BY RingRange
<1>2. LET c == block[frontBlock] IN
      /\ deqPc \in {"take", "free"} => c.front # c.localTail
      /\ deqPc \in {"again", "ahead", "peek", "move", "show"} =>
            frontBlock # tailBlock
      /\ deqPc \in {"ahead", "peek", "move", "show"} => Count(c) = 0
      /\ deqPc \in {"peek", "move", "show"} => ahead = c.next
      /\ deqPc = "move" => block[ahead].front # block[ahead].localTail
      /\ deqPc = "last" => wasEmpty \/ frontBlock # tailBlock
      /\ deqPc = "empty" => wasEmpty
      /\ peeked # 0 => peeked = got + 1 /\ got < sent /\ deqPc # "free"
  BY DEF RingAt, ConsumerAt
<1>3. got \in Nat /\ sent \in Nat
  BY DEF RingAt, RingTypeOK
<1>4. peeked' # 0 => peeked' = got' + 1 /\ got' < sent' /\ deqPc' # "free"
  BY <1>2, <1>3
<1>5. deqPc' = "move" => block'[ahead'].front # block'[ahead'].localTail
  BY <1>1, <1>2
<1> QED  BY <1>1, <1>2, <1>4, <1>5 DEF ConsumerAt

(* ... and what the producer relies on by a step of the consumer.          *)
LEMMA ProducerKept ==
    ASSUME NEW place, NEW before, RingAt(place, before),
           \A b \in 1 .. Len(block) :
              /\ block'[b].cap = block[b].cap
              /\ block'[b].next = block[b].next
              /\ block'[b].tail = block[b].tail
              /\ block'[b].localFront = block[b].localFront
              /\ b # frontBlock => block'[b].front = block[b].front,
           frontBlock' = frontBlock, tailBlock' = tailBlock, enqPc' = enqPc
    PROVE  ProducerAt'
<1>1. /\ tailBlock \in 1 .. Len(block)
      /\ block[tailBlock].next \in 1 .. Len(block)
  BY RingRange
<1>2. LET c == block[tailBlock]
          n == block[c.next] IN
      /\ enqPc \in {"write", "publish"} =>
            Dist(c.cap, c.localFront, c.tail) < c.cap - 1
      /\ enqPc \in {"next", "fill", "bump", "advance"} => c.next # frontBlock
      /\ enqPc \in {"fill", "bump"} => n.localFront = n.front
  BY DEF RingAt, ProducerAt
<1> QED  BY <1>1, <1>2 DEF ProducerAt

(* There is room when the slot after the tail is not the front.            *)
LEMMA BlockRoom ==
    ASSUME NEW c, BlockOK(c), (c.tail + 1) % c.cap # c.localFront
    PROVE  Dist(c.cap, c.localFront, c.tail) < c.cap - 1
<1>1. /\ c.cap \in Nat /\ c.localFront \in Nat /\ c.tail \in Nat
      /\ c.tail < c.cap /\ c.localFront < c.cap
  BY BlockFields DEF BlockOK
<1>2. (c.tail + 1) % c.cap = IF c.tail + 1 = c.cap THEN 0 ELSE c.tail + 1
  BY <1>1, NextSlot
<1> QED  BY <1>1, <1>2 DEF Dist
-----------------------------------------------------------------------------
(* The steps of enqueue and try_enqueue that enqueue nothing yet.          *)

(* The producer looks for room in the tail block.                          *)
LEMMA EnqRoomKeeps ==
    ASSUME NEW place, NEW before, RingAt(place, before),
           NEW alloc, EnqRoom(alloc)
    PROVE  RingAt(place, before)'
<1> DEFINE t == tailBlock
           c == block[t]
           n == (c.tail + 1) % c.cap
<1>1. /\ block \in Seq(Blocks) /\ t \in 1 .. Len(block) /\ BlockOK(c)
      /\ \A b \in 1 .. Len(block) : BlockOK(block[b])
  BY RingRange DEF RingAt, RingTypeOK
<1>2. /\ enqPc = "idle" /\ enqPc' \in {"write", "full"}
      /\ frontBlock' = frontBlock /\ tailBlock' = tailBlock /\ sent' = sent
      /\ got' = got /\ largest' = largest /\ deqPc' = deqPc
      /\ ahead' = ahead /\ peeked' = peeked /\ wasEmpty' = wasEmpty
      /\ \/ n # c.localFront /\ block' = block
         \/ /\ n # c.front \/ enqPc' = "full"
            /\ block' = [block EXCEPT ![t].localFront = c.front]
  BY DEF EnqRoom, Succ, consumer
<1>3. sent \in Nat
  BY DEF RingAt, RingTypeOK
<1>4. CASE n # c.localFront /\ block' = block
  <2>1. RingTypeOK' /\ Links(place)' /\ Numbered(place, before)'
        /\ SlotsHold(before)' /\ NewBlock'
    BY <1>1, <1>2, <1>4, QuietStep
  <2>2. ConsumerAt'
    BY <1>2, <1>3, <1>4, ConsumerKept
  <2>3. Dist(c.cap, c.localFront, c.tail) < c.cap - 1
    BY <1>1, <1>4, BlockRoom
  <2>4. ProducerAt'
    BY <1>2, <1>4, <2>3 DEF ProducerAt
  <2> QED  BY <2>1, <2>2, <2>4 DEF RingAt
<1>5. CASE /\ n # c.front \/ enqPc' = "full"
           /\ block' = [block EXCEPT ![t].localFront = c.front]
  <2> DEFINE d == [c EXCEPT !.localFront = c.front]
  <2>1. block' = [block EXCEPT ![t] = d]
    BY <1>5
  <2>2. /\ BlockOK(d) /\ Count(d) = Count(c)
        /\ \A lo, taken, extra : Holds(c, lo, taken, extra)
                                    => Holds(d, lo, taken, extra)
        /\ d.cap = c.cap /\ d.next = c.next /\ d.front = c.front
        /\ d.localTail = c.localTail /\ d.tail = c.tail
        /\ d.localFront = c.front
    BY <1>1, BlockSeenFront
  <2> HIDE DEF d
  <2>5. /\ block' \in Seq(Blocks) /\ Len(block') = Len(block)
        /\ \A b \in 1 .. Len(block) : block'[b] = IF b = t THEN d ELSE block[b]
    BY <1>1, <2>1, <2>2, SetBlock DEF BlockOK
  <2>3. /\ block' \in Seq(Blocks) /\ Len(block') = Len(block)
        /\ \A b \in 1 .. Len(block) :
              /\ BlockOK(block'[b])
              /\ Count(block'[b]) = Count(block[b])
              /\ block'[b].next = block[b].next
              /\ \A lo, taken, extra : Holds(block[b], lo, taken, extra)
                                          => Holds(block'[b], lo, taken, extra)
    BY <1>1, <2>2, <2>5
  <2>4. RingTypeOK' /\ Links(place)' /\ Numbered(place, before)'
        /\ SlotsHold(before)' /\ NewBlock'
    BY <1>2, <2>3, QuietStep
  <2>6. ConsumerAt'
    <3>1. \A b \in 1 .. Len(block) :
             /\ block'[b].front = block[b].front
             /\ block'[b].localTail = block[b].localTail
      BY <2>2, <2>5
    <3>2. frontBlock \in 1 .. Len(block)
      BY RingRange
    <3> QED  BY <1>2, <1>3, <2>3, <3>1, <3>2, ConsumerKept
  <2>7. ProducerAt'
    <3>1. enqPc' = "write" => Dist(d.cap, d.localFront, d.tail) < d.cap - 1
      BY <1>5, <1>2, <2>2, BlockRoom
    <3> QED  BY <1>1, <1>2, <2>5, <3>1 DEF ProducerAt
  <2> QED  BY <2>4, <2>6, <2>7 DEF RingAt
<1> QED  BY <1>2, <1>4, <1>5

(* It finds none: the next block, a new one, or failure.                   *)
LEMMA EnqFullKeeps ==
    ASSUME NEW place, NEW before, RingAt(place, before), EnqFull
    PROVE  RingAt(place, before)'
<1>1. /\ block \in Seq(Blocks) /\ block' = block
      /\ \A b \in 1 .. Len(block) : BlockOK(block[b])
      /\ frontBlock' = frontBlock /\ tailBlock' = tailBlock /\ sent' = sent
      /\ got' = got /\ largest' = largest /\ deqPc' = deqPc
      /\ ahead' = ahead /\ peeked' = peeked /\ wasEmpty' = wasEmpty
      /\ sent \in Nat
  BY DEF RingAt, RingTypeOK, EnqFull, ring, consumer
<1>2. /\ enqPc = "full" /\ enqPc' \in {"next", "grow", "failed"}
      /\ enqPc' = "next" => block[tailBlock].next # frontBlock
  BY DEF EnqFull
<1>3. /\ RingTypeOK' /\ Links(place)' /\ Numbered(place, before)'
      /\ SlotsHold(before)' /\ NewBlock'
  BY <1>1, <1>2, QuietStep
<1>4. ConsumerAt'
  BY <1>1, ConsumerKept
<1>5. ProducerAt'
  BY <1>1, <1>2 DEF ProducerAt
<1> QED  BY <1>3, <1>4, <1>5 DEF RingAt

(* It returns.                                                             *)
LEMMA EnqReturnKeeps ==
    ASSUME NEW place, NEW before, RingAt(place, before), EnqReturn
    PROVE  RingAt(place, before)'
<1>1. /\ block \in Seq(Blocks) /\ block' = block
      /\ \A b \in 1 .. Len(block) : BlockOK(block[b])
      /\ frontBlock' = frontBlock /\ tailBlock' = tailBlock /\ sent' = sent
      /\ got' = got /\ largest' = largest /\ deqPc' = deqPc
      /\ ahead' = ahead /\ peeked' = peeked /\ wasEmpty' = wasEmpty
      /\ sent \in Nat
  BY DEF RingAt, RingTypeOK, EnqReturn, ring, consumer
<1>2. enqPc \in {"enqueued", "failed"} /\ enqPc' = "idle"
  BY DEF EnqReturn
<1>3. /\ RingTypeOK' /\ Links(place)' /\ Numbered(place, before)'
      /\ SlotsHold(before)' /\ NewBlock'
  BY <1>1, <1>2, QuietStep
<1>4. ConsumerAt'
  BY <1>1, ConsumerKept
<1>5. ProducerAt'
  BY <1>1, <1>2 DEF ProducerAt
<1> QED  BY <1>3, <1>4, <1>5 DEF RingAt

(* It reads the index of the consumer in the next block.                   *)
LEMMA EnqNextKeeps ==
    ASSUME NEW place, NEW before, RingAt(place, before), EnqNext
    PROVE  RingAt(place, before)'
<1> DEFINE t == block[tailBlock].next
           c == block[t]
           d == [c EXCEPT !.localFront = c.front]
<1>1. /\ block \in Seq(Blocks) /\ tailBlock \in 1 .. Len(block)
      /\ t \in 1 .. Len(block) /\ BlockOK(c)
      /\ \A b \in 1 .. Len(block) : BlockOK(block[b])
  BY RingRange DEF RingAt, RingTypeOK
<1>2. /\ enqPc = "next" /\ enqPc' = "fill" /\ sent \in Nat
      /\ frontBlock' = frontBlock /\ tailBlock' = tailBlock /\ sent' = sent
      /\ got' = got /\ largest' = largest /\ deqPc' = deqPc
      /\ ahead' = ahead /\ peeked' = peeked /\ wasEmpty' = wasEmpty
      /\ block' = [block EXCEPT ![t] = d]
  BY DEF RingAt, RingTypeOK, EnqNext, consumer
<1>3. /\ BlockOK(d) /\ Count(d) = Count(c)
      /\ \A lo, taken, extra : Holds(c, lo, taken, extra)
                                  => Holds(d, lo, taken, extra)
      /\ d.cap = c.cap /\ d.next = c.next /\ d.front = c.front
      /\ d.localTail = c.localTail /\ d.tail = c.tail
      /\ d.localFront = c.front
  BY <1>1, BlockSeenFront
<1> HIDE DEF d
<1>4. /\ block' \in Seq(Blocks) /\ Len(block') = Len(block)
      /\ \A b \in 1 .. Len(block) : block'[b] = IF b = t THEN d ELSE block[b]
  BY <1>1, <1>2, <1>3, SetBlock DEF BlockOK
<1>5. \A b \in 1 .. Len(block) :
         /\ BlockOK(block'[b])
         /\ Count(block'[b]) = Count(block[b])
         /\ block'[b].next = block[b].next
         /\ block'[b].front = block[b].front
         /\ block'[b].localTail = block[b].localTail
         /\ \A lo, taken, extra : Holds(block[b], lo, taken, extra)
                                     => Holds(block'[b], lo, taken, extra)
  BY <1>1, <1>3, <1>4
<1>6. /\ RingTypeOK' /\ Links(place)' /\ Numbered(place, before)'
      /\ SlotsHold(before)' /\ NewBlock'
  BY <1>2, <1>4, <1>5, QuietStep
<1>7. ConsumerAt'
  <2>1. frontBlock \in 1 .. Len(block)
    BY RingRange
  <2> QED  BY <1>2, <1>5, <2>1, ConsumerKept
<1>8. ProducerAt'
  <2>1. t # frontBlock
    BY <1>2 DEF RingAt, ProducerAt
  <2>2. block'[tailBlock].next = t
    BY <1>1, <1>5
  <2>3. block'[t] = d
    BY <1>1, <1>4
  <2>4. d.localFront = d.front
    BY <1>3
  <2> QED  BY <1>2, <2>1, <2>2, <2>3, <2>4 DEF ProducerAt
<1> QED  BY <1>6, <1>7, <1>8 DEF RingAt

-----------------------------------------------------------------------------
(* The steps of try_dequeue, pop and peek that take nothing.               *)

(* The consumer's steps that change no block.                              *)
LEMMA StillKeeps ==
    ASSUME NEW place, NEW before, RingAt(place, before), UNCHANGED <<ring, producer>>,
           got' = got,
           \/ deqPc' = deqPc
           \/ /\ deqPc # "free"
              /\ deqPc' \in {"idle", "take", "last", "again", "ahead", "peek",
                             "move", "dequeued", "show", "shown", "empty"},
           ConsumerAt'
    PROVE  RingAt(place, before)'
<1>1. /\ block \in Seq(Blocks) /\ block' = block
      /\ \A b \in 1 .. Len(block) : BlockOK(block[b])
      /\ frontBlock' = frontBlock /\ tailBlock' = tailBlock /\ sent' = sent
      /\ got' = got /\ largest' = largest /\ enqPc' = enqPc
  BY DEF RingAt, RingTypeOK, ring, producer
<1>3. /\ RingTypeOK' /\ Links(place)' /\ Numbered(place, before)'
      /\ SlotsHold(before)' /\ NewBlock'
  BY <1>1, QuietStep
<1>4. ProducerAt'
  BY <1>1, ProducerKept
<1> QED  BY <1>3, <1>4 DEF RingAt

(* The consumer's reading of the producer's index of a block.              *)
LEMMA SeenTailKeeps ==
    ASSUME NEW place, NEW before, RingAt(place, before),
           UNCHANGED <<size, frontBlock, tailBlock, largest, got, producer>>,
           NEW a \in 1 .. Len(block),
           block' = [block EXCEPT ![a].localTail = block[a].tail],
           deqPc # "free",
           deqPc' \in {"idle", "take", "last", "again", "ahead", "peek",
                       "move", "dequeued", "show", "shown", "empty"}
    PROVE  /\ RingTypeOK' /\ Links(place)' /\ Numbered(place, before)'
           /\ SlotsHold(before)' /\ NewBlock' /\ ProducerAt'
           /\ Len(block') = Len(block)
           /\ \A b \in 1 .. Len(block) :
                 /\ Count(block'[b]) = Count(block[b])
                 /\ block'[b].next = block[b].next
                 /\ block'[b].front = block[b].front
                 /\ block'[b].tail = block[b].tail
                 /\ block'[b].localTail = IF b = a THEN block[b].tail
                                                   ELSE block[b].localTail
<1> DEFINE c == block[a]
           d == [c EXCEPT !.localTail = c.tail]
<1>1. /\ block \in Seq(Blocks) /\ BlockOK(c)
      /\ \A b \in 1 .. Len(block) : BlockOK(block[b])
  BY DEF RingAt, RingTypeOK
<1>2. /\ frontBlock' = frontBlock /\ tailBlock' = tailBlock /\ sent' = sent
      /\ got' = got /\ largest' = largest /\ enqPc' = enqPc
      /\ block' = [block EXCEPT ![a] = d]
  BY DEF producer
<1>3. /\ BlockOK(d) /\ Count(d) = Count(c)
      /\ \A lo, taken, extra : Holds(c, lo, taken, extra)
                                  => Holds(d, lo, taken, extra)
      /\ d.cap = c.cap /\ d.next = c.next /\ d.front = c.front
      /\ d.localTail = c.tail /\ d.tail = c.tail
      /\ d.localFront = c.localFront
  BY <1>1, BlockSeenTail
<1> HIDE DEF d
<1>4. /\ block' \in Seq(Blocks) /\ Len(block') = Len(block)
      /\ \A b \in 1 .. Len(block) : block'[b] = IF b = a THEN d ELSE block[b]
  <2>1. d \in Blocks
    BY <1>3 DEF BlockOK
  <2> QED  BY <1>1, <1>2, <2>1
<1>5. \A b \in 1 .. Len(block) :
         /\ BlockOK(block'[b])
         /\ Count(block'[b]) = Count(block[b])
         /\ block'[b].cap = block[b].cap
         /\ block'[b].next = block[b].next
         /\ block'[b].front = block[b].front
         /\ block'[b].tail = block[b].tail
         /\ block'[b].localFront = block[b].localFront
         /\ block'[b].localTail = IF b = a THEN block[b].tail
                                           ELSE block[b].localTail
         /\ \A lo, taken, extra : Holds(block[b], lo, taken, extra)
                                     => Holds(block'[b], lo, taken, extra)
  BY <1>1, <1>3, <1>4
<1>6. /\ RingTypeOK' /\ Links(place)' /\ Numbered(place, before)'
      /\ SlotsHold(before)' /\ NewBlock'
  BY <1>2, <1>4, <1>5, QuietStep
<1>7. ProducerAt'
  BY <1>2, <1>5, ProducerKept
<1> QED  BY <1>4, <1>5, <1>6, <1>7

(* The element at the front of a block.                                    *)
LEMMA FrontElement ==
    ASSUME NEW c, BlockOK(c), NEW lo \in Nat, NEW extra, Count(c) > 0,
           Holds(c, lo, 0, extra)
    PROVE  c.data[c.front] = lo + 1
<1>1. c.cap \in Nat /\ c.front \in Nat /\ c.front < c.cap
  BY BlockFields DEF BlockOK
<1>2. Dist(c.cap, c.front, c.front) = 0
  BY <1>1 DEF Dist
<1>3. c.data[c.front] = lo + 1 + 0
  BY <1>1, <1>2, CountBounds DEF Holds
<1> QED  BY <1>3

(* A block where front is not the tail the consumer remembers has an       *)
(* element.                                                                *)
LEMMA SeenElement ==
    ASSUME NEW c, BlockOK(c), c.front # c.localTail
    PROVE  Count(c) > 0
<1>1. /\ c.cap \in Nat /\ c.front \in Nat /\ c.tail \in Nat
      /\ c.localFront \in Nat /\ c.localTail \in Nat
  BY BlockFields DEF BlockOK
<1>2. /\ c.cap >= 2 /\ c.front < c.cap /\ c.tail < c.cap
      /\ c.localFront < c.cap /\ c.localTail < c.cap
      /\ Dist(c.cap, c.localFront, c.front) + Dist(c.cap, c.front, c.localTail)
           + Dist(c.cap, c.localTail, c.tail) < c.cap
  BY DEF BlockOK
<1> QED  BY <1>1, <1>2 DEF Count, Dist

(* Ahead of an empty front block that is not the tail block is the block   *)
(* with the next element.                                                  *)
LEMMA AheadFull ==
    ASSUME NEW place, NEW before, RingAt(place, before),
           frontBlock # tailBlock, Count(block[frontBlock]) = 0
    PROVE  LET n == block[frontBlock].next IN
           /\ n \in 1 .. Linked /\ n # frontBlock
           /\ place[n] = 1 /\ 1 <= place[tailBlock]
           /\ before[n] = First
           /\ Count(block[n]) > 0
           /\ before[n] + Count(block[n]) <= sent
<1> DEFINE n == block[frontBlock].next
<1>1. /\ Linked \in Nat /\ frontBlock \in 1 .. Linked /\ tailBlock \in 1 .. Linked
      /\ First \in Nat
  BY RingRange DEF RingAt, RingTypeOK
<1>2. /\ place \in [1 .. Linked -> 0 .. Linked - 1]
      /\ \A b, c \in 1 .. Linked : place[b] = place[c] => b = c
      /\ place[frontBlock] = 0
      /\ n \in 1 .. Linked
      /\ place[n] = IF 0 = Linked - 1 THEN 0 ELSE 0 + 1
  BY <1>1 DEF RingAt, Links
<1>3. place[tailBlock] # 0 /\ place[tailBlock] \in 0 .. Linked - 1
  BY <1>1, <1>2
<1>4. place[n] = 1 /\ 1 <= place[tailBlock] /\ n # frontBlock
  BY <1>1, <1>2, <1>3
<1>5. before[n] = before[frontBlock] + 0 /\ before[frontBlock] = First
  <2>1. /\ before[frontBlock] = First
        /\ \A b \in 1 .. Linked : place[b] < place[tailBlock] =>
              before[block[b].next] = before[b] + Count(block[b])
    BY DEF RingAt, Numbered
  <2>2. place[frontBlock] < place[tailBlock]
    BY <1>2, <1>3, <1>4
  <2> QED  BY <1>1, <2>1, <2>2
<1>6. Count(block[n]) > 0 /\ before[n] + Count(block[n]) <= sent
  BY <1>2, <1>4 DEF RingAt, Numbered
<1> QED  BY <1>1, <1>2, <1>4, <1>5, <1>6

(* The consumer sees whether there is a block ahead ...                    *)
LEMMA DeqLastKeeps ==
    ASSUME NEW place, NEW before, RingAt(place, before), DeqLast
    PROVE  RingAt(place, before)'
<1>1. /\ deqPc = "last"
      /\ deqPc' = IF frontBlock # tailBlock THEN "again" ELSE "empty"
      /\ UNCHANGED <<ring, producer>>
      /\ got' = got /\ peeked' = peeked /\ wasEmpty' = wasEmpty
      /\ block' = block /\ frontBlock' = frontBlock /\ tailBlock' = tailBlock
      /\ sent' = sent
  BY DEF DeqLast, ring, producer
<1>2. ConsumerAt'
  BY <1>1 DEF RingAt, ConsumerAt
<1> QED  BY <1>1, <1>2, StillKeeps

(* ... goes to it by the link ...                                          *)
LEMMA DeqAheadKeeps ==
    ASSUME NEW place, NEW before, RingAt(place, before), DeqAhead
    PROVE  RingAt(place, before)'
<1>1. /\ deqPc = "ahead" /\ deqPc' = "peek" /\ ahead' = block[frontBlock].next
      /\ UNCHANGED <<ring, producer>>
      /\ got' = got /\ peeked' = peeked /\ wasEmpty' = wasEmpty
      /\ block' = block /\ frontBlock' = frontBlock /\ tailBlock' = tailBlock
      /\ sent' = sent
  BY DEF DeqAhead, ring, producer
<1>2. ConsumerAt'
  BY <1>1 DEF RingAt, ConsumerAt
<1> QED  BY <1>1, <1>2, StillKeeps

(* ... and returns.                                                        *)
LEMMA DeqReturnKeeps ==
    ASSUME NEW place, NEW before, RingAt(place, before), DeqReturn
    PROVE  RingAt(place, before)'
<1>1. /\ deqPc \in {"dequeued", "shown", "empty"} /\ deqPc' = "idle"
      /\ UNCHANGED <<ring, producer>>
      /\ got' = got /\ peeked' = peeked
      /\ block' = block /\ frontBlock' = frontBlock /\ tailBlock' = tailBlock
      /\ sent' = sent
  BY DEF DeqReturn, ring, producer
<1>2. ConsumerAt'
  BY <1>1 DEF RingAt, ConsumerAt
<1> QED  BY <1>1, <1>2, StillKeeps

(* size_approx writes nothing.                                             *)
LEMMA SizingKeeps ==
    ASSUME NEW place, NEW before, RingAt(place, before),
           UNCHANGED <<ring, enqPc, sent, deqPc, got, ahead, peeked, wasEmpty>>
    PROVE  RingAt(place, before)'
<1>1. /\ block' = block /\ frontBlock' = frontBlock /\ tailBlock' = tailBlock
      /\ sent' = sent /\ got' = got /\ largest' = largest /\ enqPc' = enqPc
      /\ deqPc' = deqPc /\ ahead' = ahead /\ peeked' = peeked
      /\ wasEmpty' = wasEmpty
  BY DEF ring
<1>2. /\ block \in Seq(Blocks) /\ sent \in Nat
      /\ \A b \in 1 .. Len(block) : BlockOK(block[b])
  BY DEF RingAt, RingTypeOK
<1>3. /\ RingTypeOK' /\ Links(place)' /\ Numbered(place, before)'
      /\ SlotsHold(before)' /\ NewBlock'
  BY <1>1, <1>2, QuietStep
<1>4. ProducerAt'
  BY <1>1, ProducerKept
<1>5. ConsumerAt'
  BY <1>1, <1>2, ConsumerKept
<1> QED  BY <1>3, <1>4, <1>5 DEF RingAt

(* peek shows the element that is next, in the front block or ahead of it. *)
LEMMA DeqShowKeeps ==
    ASSUME NEW place, NEW before, RingAt(place, before), DeqShow
    PROVE  RingAt(place, before)'
<1> DEFINE a == IF deqPc = "show" THEN ahead ELSE frontBlock
           c == block[a]
<1>1. /\ deqPc \in {"take", "show"} /\ deqPc' = "shown"
      /\ peeked' = c.data[c.front]
      /\ UNCHANGED <<ring, producer>>
      /\ got' = got /\ wasEmpty' = wasEmpty
      /\ block' = block /\ frontBlock' = frontBlock /\ tailBlock' = tailBlock
      /\ sent' = sent
  BY DEF DeqShow, ring, producer
<1>2. /\ Linked \in 1 .. Len(block) /\ frontBlock \in 1 .. Linked
      /\ tailBlock \in 1 .. Linked
      /\ got \in Nat /\ sent \in Nat /\ First = got
      /\ before \in [1 .. Linked -> Nat]
      /\ \A b \in 1 .. Len(block) : BlockOK(block[b])
  BY <1>1, RingRange DEF RingAt, RingTypeOK, First, Numbered
<1>3. a \in 1 .. Linked /\ before[a] = got /\ Count(c) > 0
      /\ before[a] + Count(c) <= sent
  <2>1. CASE deqPc = "take"
    <3>1. c.front # c.localTail
      BY <2>1 DEF RingAt, ConsumerAt
    <3>2. Count(c) > 0
      BY <1>2, <2>1, <3>1, SeenElement
    <3>3. place[frontBlock] <= place[tailBlock]
      <4>1. place[frontBlock] = 0 /\ place[tailBlock] \in 0 .. Linked - 1
        BY <1>2 DEF RingAt, Links
      <4> QED  BY <4>1
    <3> QED  BY <1>2, <2>1, <3>2, <3>3 DEF RingAt, Numbered
  <2>2. CASE deqPc = "show"
    <3>1. /\ frontBlock # tailBlock /\ Count(block[frontBlock]) = 0
          /\ a = block[frontBlock].next
      BY <2>2 DEF RingAt, ConsumerAt
    <3> QED  BY <1>2, <3>1, AheadFull
  <2> QED  BY <1>1, <2>1, <2>2
<1> HIDE DEF a
<1>3a. Holds(c, got, 0, Extra(a)) /\ BlockOK(c)
  <2>1. Holds(c, before[a], Taken(a), Extra(a)) /\ Taken(a) = 0
    BY <1>1, <1>3 DEF RingAt, SlotsHold, Taken
  <2> QED  BY <1>2, <1>3, <2>1
<1>4. c.data[c.front] = got + 1
  BY <1>2, <1>3, <1>3a, FrontElement
<1>5. got < sent
  <2>1. Count(c) \in Nat
    BY <1>3a, CountBounds
  <2> QED  BY <1>2, <1>3, <2>1
<1>6. ConsumerAt'
  BY <1>1, <1>4, <1>5 DEF ConsumerAt
<1> QED  BY <1>1, <1>6, StillKeeps

(* The front block is read again: it may have been filled meanwhile.       *)
LEMMA DeqAgainKeeps ==
    ASSUME NEW place, NEW before, RingAt(place, before), DeqAgain
    PROVE  RingAt(place, before)'
<1> DEFINE c == block[frontBlock]
<1>1. /\ deqPc = "again"
      /\ deqPc' = IF c.front # c.tail THEN "take" ELSE "ahead"
      /\ block' = [block EXCEPT ![frontBlock].localTail = c.tail]
      /\ UNCHANGED <<size, frontBlock, tailBlock, largest, got, producer>>
      /\ got' = got /\ peeked' = peeked /\ wasEmpty' = wasEmpty
      /\ frontBlock' = frontBlock /\ tailBlock' = tailBlock /\ sent' = sent
  BY DEF DeqAgain, NonEmpty, producer
<1>2. frontBlock \in 1 .. Len(block) /\ BlockOK(c)
  BY RingRange
<1>3. /\ RingTypeOK' /\ Links(place)' /\ Numbered(place, before)'
      /\ SlotsHold(before)' /\ NewBlock' /\ ProducerAt'
      /\ Count(block'[frontBlock]) = Count(c)
      /\ block'[frontBlock].front = c.front
      /\ block'[frontBlock].localTail = c.tail
  BY <1>1, <1>2, SeenTailKeeps
<1>4. c.front = c.tail => Count(c) = 0
  BY <1>2, CountBounds
<1>5. ConsumerAt'
  BY <1>1, <1>3, <1>4 DEF RingAt, ConsumerAt
<1> QED  BY <1>3, <1>5 DEF RingAt

(* The block ahead of an empty front block has an element: peek shows it,  *)
(* and a dequeue remembers that it is there.                               *)
LEMMA DeqPeekKeeps ==
    ASSUME NEW place, NEW before, RingAt(place, before), DeqPeek
    PROVE  RingAt(place, before)'
<1>1. /\ deqPc = "peek" /\ ahead' = ahead
      /\ got' = got /\ peeked' = peeked /\ wasEmpty' = wasEmpty
      /\ frontBlock' = frontBlock /\ tailBlock' = tailBlock /\ sent' = sent
      /\ UNCHANGED <<size, frontBlock, tailBlock, largest, got, producer>>
  BY DEF DeqPeek, producer
<1>2. CASE peeking
  <2>1. block' = block /\ deqPc' = "show" /\ UNCHANGED <<ring, producer>>
    BY <1>1, <1>2 DEF DeqPeek, ring
  <2>2. ConsumerAt'
    BY <1>1, <2>1 DEF RingAt, ConsumerAt
  <2> QED  BY <1>1, <2>1, <2>2, StillKeeps
<1>3. CASE ~peeking
  <2>1. /\ deqPc' = "move"
        /\ block' = [block EXCEPT ![ahead].localTail = block[ahead].tail]
    BY <1>3 DEF DeqPeek
  <2>2. /\ ahead = block[frontBlock].next /\ frontBlock # tailBlock
        /\ Count(block[frontBlock]) = 0
    BY <1>1 DEF RingAt, ConsumerAt
  <2>3. /\ frontBlock \in 1 .. Len(block) /\ ahead \in 1 .. Len(block)
        /\ BlockOK(block[ahead])
    BY <2>2, RingRange
  <2>4. /\ RingTypeOK' /\ Links(place)' /\ Numbered(place, before)'
        /\ SlotsHold(before)' /\ NewBlock' /\ ProducerAt'
        /\ Count(block'[frontBlock]) = Count(block[frontBlock])
        /\ block'[frontBlock].next = block[frontBlock].next
        /\ block'[ahead].front = block[ahead].front
        /\ block'[ahead].localTail = block[ahead].tail
    BY <1>1, <2>1, <2>3, SeenTailKeeps
  <2>5. Count(block[ahead]) > 0
    BY <2>2, AheadFull
  <2>6. block[ahead].front # block[ahead].tail
    BY <2>3, <2>5, CountBounds
  <2>7. ConsumerAt'
    BY <1>1, <2>1, <2>2, <2>4, <2>6 DEF RingAt, ConsumerAt
  <2> QED  BY <2>4, <2>7 DEF RingAt
<1> QED  BY <1>2, <1>3

-----------------------------------------------------------------------------
(* The steps that fill a slot, publish an element, take one or give a slot *)
(* back, each of which changes what one block holds.                       *)

(* A step that changes no link changes no place ...                        *)
LEMMA LinksKept ==
    ASSUME NEW place, NEW before, RingAt(place, before),
           Linked' = Linked, frontBlock' = frontBlock,
           \A b \in 1 .. Linked : block'[b].next = block[b].next
    PROVE  Links(place)'
<1>1. /\ place \in [1 .. Linked' -> 0 .. Linked' - 1]
      /\ \A b, c \in 1 .. Linked' : place[b] = place[c] => b = c
      /\ place[frontBlock'] = 0
  BY DEF RingAt, Links
<1>2. \A b \in 1 .. Linked' :
         /\ block'[b].next \in 1 .. Linked'
         /\ place[block'[b].next] = IF place[b] = Linked' - 1
                                      THEN 0 ELSE place[b] + 1
  BY DEF RingAt, Links
<1> QED  BY <1>1, <1>2 DEF Links

(* ... and one that changes no count, no number.                           *)
LEMMA NumberedKept ==
    ASSUME NEW place, NEW before, RingAt(place, before),
           Linked' = Linked, frontBlock' = frontBlock, tailBlock' = tailBlock,
           sent' = sent, First' = First,
           (enqPc' = "advance") = (enqPc = "advance"),
           \A b \in 1 .. Linked : /\ block'[b].next = block[b].next
                                  /\ Count(block'[b]) = Count(block[b])
    PROVE  Numbered(place, before)'
<1>1. frontBlock \in 1 .. Linked /\ tailBlock \in 1 .. Linked
  BY DEF RingAt, RingTypeOK
<1> QED  BY <1>1 DEF RingAt, Numbered

(* What is taken of a block is an element of it.                           *)
LEMMA TakenBounds ==
    ASSUME NEW place, NEW before, RingAt(place, before), NEW b \in 1 .. Linked
    PROVE  /\ Taken(b) \in {0, 1} /\ Taken(b) <= Count(block[b])
           /\ before[b] \in Nat
           /\ b \in 1 .. Len(block) /\ BlockOK(block[b])
           /\ Count(block[b]) \in Nat
           /\ Holds(block[b], before[b], Taken(b), Extra(b))
<1>1. /\ b \in 1 .. Len(block) /\ BlockOK(block[b])
      /\ before[b] \in Nat
      /\ Holds(block[b], before[b], Taken(b), Extra(b))
  <2>1. Linked \in 1 .. Len(block) /\ Len(block) \in Nat
    BY RingRange
  <2>2. b \in 1 .. Len(block)
    BY <2>1
  <2>3. BlockOK(block[b])
    BY <2>2 DEF RingAt, RingTypeOK
  <2>4. before[b] \in Nat
    BY DEF RingAt, Numbered
  <2> QED  BY <2>2, <2>3, <2>4 DEF RingAt, SlotsHold
<1>2. Count(block[b]) \in Nat
  BY <1>1, CountBounds
<1>3. CASE deqPc = "free" /\ b = frontBlock
  <2>1. block[b].front # block[b].localTail
    BY <1>3 DEF RingAt, ConsumerAt
  <2>2. Count(block[b]) > 0
    BY <1>1, <2>1, SeenElement
  <2> QED  BY <1>1, <1>2, <1>3, <2>2 DEF Taken
<1>4. CASE ~(deqPc = "free" /\ b = frontBlock)
  BY <1>1, <1>2, <1>4 DEF Taken
<1> QED  BY <1>3, <1>4

(* The producer adds n elements to a block.                                *)
Grown(c, d, n) ==
    d.cap = c.cap /\ d.front = c.front /\ Count(d) = Count(c) + n

(* The slot at the tail of the tail block is filled ...                    *)
LEMMA EnqWriteKeeps ==
    ASSUME NEW place, NEW before, RingAt(place, before), EnqWrite
    PROVE  /\ RingAt(place, before)'
           /\ block[tailBlock].data[block[tailBlock].tail] = 0
<1> DEFINE t == tailBlock
           c == block[t]
           v == sent + 1
           d == [c EXCEPT !.data[c.tail] = v]
<1>1. /\ block \in Seq(Blocks) /\ t \in 1 .. Linked /\ Linked = Len(block)
      /\ frontBlock \in 1 .. Linked
      /\ \A b \in 1 .. Len(block) : BlockOK(block[b])
      /\ sent \in Nat
  BY DEF RingAt, RingTypeOK, EnqWrite, Linked
<1>2. /\ enqPc = "write" /\ enqPc' = "publish"
      /\ frontBlock' = frontBlock /\ tailBlock' = tailBlock /\ sent' = sent
      /\ got' = got /\ largest' = largest /\ deqPc' = deqPc
      /\ ahead' = ahead /\ peeked' = peeked /\ wasEmpty' = wasEmpty
      /\ block' = [block EXCEPT ![t] = d]
  BY DEF EnqWrite, consumer
<1>2a. v \in Nat
  BY <1>1
<1> HIDE DEF v
<1>3. /\ BlockOK(c) /\ Taken(t) \in {0, 1} /\ Taken(t) <= Count(c)
      /\ before[t] \in Nat /\ Holds(c, before[t], Taken(t), 0)
  <2>1. Extra(t) = 0
    BY <1>2 DEF Extra, Filled
  <2> QED  BY <1>1, <2>1, TakenBounds
<1>4. /\ BlockOK(d) /\ Count(d) = Count(c)
      /\ c.data[c.tail] = 0
      /\ Holds(d, before[t], Taken(t), v)
      /\ d.cap = c.cap /\ d.next = c.next /\ d.front = c.front
      /\ d.localTail = c.localTail /\ d.tail = c.tail
      /\ d.localFront = c.localFront
  BY <1>2a, <1>3, BlockFilled
<1> HIDE DEF d
<1>5. /\ block' \in Seq(Blocks) /\ Len(block') = Len(block)
      /\ \A b \in 1 .. Len(block) : block'[b] = IF b = t THEN d ELSE block[b]
  BY <1>1, <1>2, <1>4, SetBlock DEF BlockOK
<1>6. \A b \in 1 .. Len(block) :
         /\ BlockOK(block'[b])
         /\ Count(block'[b]) = Count(block[b])
         /\ block'[b].cap = block[b].cap
         /\ block'[b].next = block[b].next
         /\ block'[b].front = block[b].front
         /\ block'[b].localTail = block[b].localTail
         /\ block'[b].tail = block[b].tail
         /\ block'[b].localFront = block[b].localFront
  BY <1>1, <1>4, <1>5
<1>7. Linked' = Linked /\ First' = First
  BY <1>2, <1>5 DEF Linked, First
<1>8. RingTypeOK'
  BY <1>1, <1>2, <1>5, <1>6, <1>7 DEF RingAt, RingTypeOK
<1>9. Links(place)' /\ Numbered(place, before)'
  BY <1>1, <1>2, <1>6, <1>7, LinksKept, NumberedKept
<1>10. SlotsHold(before)'
  <2> SUFFICES ASSUME NEW b \in 1 .. Linked
               PROVE  Holds(block'[b], before[b], Taken(b)', Extra(b)')
    BY <1>7 DEF SlotsHold
  <2>1. Taken(b)' = Taken(b) /\ Extra(b) = 0
    BY <1>2 DEF Taken, Extra, Filled
  <2>2. CASE b = t
    <3>1. Extra(b)' = v
      BY <1>2, <2>2 DEF Extra, Filled, v
    <3> QED  BY <1>1, <1>4, <1>5, <2>1, <2>2, <3>1
  <2>3. CASE b # t
    <3>1. Extra(b)' = 0
      BY <1>2, <2>3 DEF Extra, Filled
    <3> QED  BY <1>1, <1>5, <2>1, <2>3, <3>1 DEF RingAt, SlotsHold
  <2> QED  BY <2>2, <2>3
<1>11. NewBlock'
  BY <1>2 DEF NewBlock
<1>12. ProducerAt'
  <2>1. Dist(c.cap, c.localFront, c.tail) < c.cap - 1
    BY <1>2 DEF RingAt, ProducerAt
  <2> QED  BY <1>1, <1>2, <1>6, <2>1 DEF ProducerAt
<1>13. ConsumerAt'
  BY <1>1, <1>2, <1>6, ConsumerKept
<1> QED  BY <1>4, <1>8, <1>9, <1>10, <1>11, <1>12, <1>13 DEF RingAt

(* ... and made part of the block.                                         *)
LEMMA EnqPublishKeeps ==
    ASSUME NEW place, NEW before, RingAt(place, before), EnqPublish
    PROVE  /\ RingAt(place, before)'
           /\ Linked' = Linked /\ First' = First
           /\ \A b \in 1 .. Linked :
                 /\ block'[b].next = block[b].next
                 /\ Grown(block[b], block'[b], IF b = tailBlock THEN 1 ELSE 0)
<1> DEFINE t == tailBlock
           c == block[t]
           d == [c EXCEPT !.tail = (c.tail + 1) % c.cap]
<1>1. /\ block \in Seq(Blocks) /\ t \in 1 .. Linked /\ Linked = Len(block)
      /\ frontBlock \in 1 .. Linked
      /\ \A b \in 1 .. Len(block) : BlockOK(block[b])
      /\ sent \in Nat
  BY DEF RingAt, RingTypeOK, EnqPublish, Linked
<1>2. /\ enqPc = "publish" /\ enqPc' = "enqueued"
      /\ frontBlock' = frontBlock /\ tailBlock' = tailBlock /\ sent' = sent + 1
      /\ got' = got /\ largest' = largest /\ deqPc' = deqPc
      /\ ahead' = ahead /\ peeked' = peeked /\ wasEmpty' = wasEmpty
      /\ block' = [block EXCEPT ![t] = d]
  BY DEF EnqPublish, Succ, consumer
<1>3. /\ BlockOK(c) /\ Taken(t) \in {0, 1} /\ Taken(t) <= Count(c)
      /\ before[t] \in Nat /\ Count(c) \in Nat
      /\ before[t] + Count(c) = sent
      /\ Holds(c, before[t], Taken(t), before[t] + Count(c) + 1)
  <2>1. Extra(t) = sent + 1
    BY <1>2 DEF Extra, Filled
  <2>2. before[t] + Count(c) = sent
    BY DEF RingAt, Numbered
  <2> QED  BY <1>1, <2>1, <2>2, TakenBounds
<1>4. Dist(c.cap, c.localFront, c.tail) < c.cap - 1
  BY <1>2 DEF RingAt, ProducerAt
<1>5. /\ BlockOK(d) /\ Count(d) = Count(c) + 1
      /\ Holds(d, before[t], Taken(t), 0)
      /\ d.cap = c.cap /\ d.next = c.next /\ d.front = c.front
      /\ d.localTail = c.localTail /\ d.localFront = c.localFront
  BY <1>3, <1>4, BlockPublished
<1> HIDE DEF d
<1>6. /\ block' \in Seq(Blocks) /\ Len(block') = Len(block)
      /\ \A b \in 1 .. Len(block) : block'[b] = IF b = t THEN d ELSE block[b]
  BY <1>1, <1>2, <1>5, SetBlock DEF BlockOK
<1>7. \A b \in 1 .. Len(block) :
         /\ BlockOK(block'[b])
         /\ Count(block'[b]) = IF b = t THEN Count(block[b]) + 1
                                        ELSE Count(block[b])
         /\ block'[b].next = block[b].next
         /\ block'[b].front = block[b].front
         /\ block'[b].localTail = block[b].localTail
  BY <1>1, <1>5, <1>6
<1>8. Linked' = Linked /\ First' = First
  BY <1>2, <1>6 DEF Linked, First
<1>9. RingTypeOK'
  BY <1>1, <1>2, <1>6, <1>7, <1>8 DEF RingAt, RingTypeOK
<1>10. Links(place)'
  BY <1>1, <1>2, <1>7, <1>8, LinksKept
<1>11. Numbered(place, before)'
  <2>1. /\ before \in [1 .. Linked -> Nat]
        /\ before[frontBlock] = First
        /\ \A b \in 1 .. Linked :
              /\ place[b] < place[t] =>
                    before[block[b].next] = before[b] + Count(block[b])
              /\ place[b] <= place[t] =>
                    /\ before[b] + Count(block[b]) <= sent
                    /\ b # frontBlock => Count(block[b]) > 0
              /\ place[b] > place[t] => Count(block[b]) = 0
    BY <1>2 DEF RingAt, Numbered
  <2>2. \A b \in 1 .. Linked : place[b] \in Int /\ Count(block[b]) \in Nat
    <3>1. \A b \in 1 .. Linked : place[b] \in Int
      BY DEF RingAt, Links
    <3> QED  BY <3>1, TakenBounds
  <2>3. /\ before[frontBlock'] = First'
        /\ before[tailBlock'] + Count(block'[tailBlock']) = sent'
    BY <1>1, <1>2, <1>3, <1>7, <1>8, <2>1
  <2>4. ASSUME NEW b \in 1 .. Linked
        PROVE  /\ place[b] < place[t] =>
                     before[block'[b].next] = before[b] + Count(block'[b])
               /\ place[b] <= place[t] =>
                     /\ before[b] + Count(block'[b]) <= sent + 1
                     /\ b # frontBlock => Count(block'[b]) > 0
               /\ place[b] > place[t] => Count(block'[b]) = 0
    <3>1. CASE b = t
      BY <1>1, <1>3, <1>7, <2>1, <2>2, <3>1
    <3>2. CASE b # t
      <4>1. Count(block'[b]) = Count(block[b]) /\ block'[b].next = block[b].next
        BY <1>1, <1>7, <3>2
      <4> QED  BY <1>1, <2>1, <2>2, <4>1
    <3> QED  BY <3>1, <3>2
  <2> QED  BY <1>2, <1>8, <2>1, <2>3, <2>4 DEF Numbered
<1>12. SlotsHold(before)'
  <2> SUFFICES ASSUME NEW b \in 1 .. Linked
               PROVE  Holds(block'[b], before[b], Taken(b)', Extra(b)')
    BY <1>8 DEF SlotsHold
  <2>1. Taken(b)' = Taken(b) /\ Extra(b)' = 0
    BY <1>2 DEF Taken, Extra, Filled
  <2>2. CASE b = t
    BY <1>1, <1>5, <1>6, <2>1, <2>2
  <2>3. CASE b # t
    <3>1. Extra(b) = 0
      BY <1>2, <2>3 DEF Extra, Filled
    <3> QED  BY <1>1, <1>6, <2>1, <2>3, <3>1 DEF RingAt, SlotsHold
  <2> QED  BY <2>2, <2>3
<1>13. NewBlock' /\ ProducerAt'
  BY <1>2 DEF NewBlock, ProducerAt
<1>14. ConsumerAt'
  <2>1. frontBlock # t => Count(block'[frontBlock]) = Count(block[frontBlock])
    BY <1>1, <1>7
  <2>2. sent' \in Nat /\ sent' >= sent
    BY <1>1, <1>2
  <2> QED  BY <1>1, <1>2, <1>7, <2>1, <2>2, ConsumerKept
<1>15. RingAt(place, before)'
  BY <1>9, <1>10, <1>11, <1>12, <1>13, <1>14 DEF RingAt
<1>16. \A b \in 1 .. Linked :
          Grown(block[b], block'[b], IF b = t THEN 1 ELSE 0)
  <2>1. \A b \in 1 .. Linked : Count(block[b]) \in Nat
    BY TakenBounds
  <2>2. \A b \in 1 .. Linked : block'[b].cap = block[b].cap
    BY <1>1, <1>5, <1>6
  <2> QED  BY <1>1, <1>7, <2>1, <2>2 DEF Grown
<1> QED  BY <1>1, <1>7, <1>8, <1>15, <1>16

(* The block the producer moves to is neither the front nor the tail       *)
(* block, and has no element but the one it moves there for.               *)
LEMMA NextFree ==
    ASSUME NEW place, NEW before, RingAt(place, before),
           enqPc \in {"next", "fill", "bump", "advance"}
    PROVE  LET n == block[tailBlock].next IN
           /\ n \in 1 .. Linked /\ n # frontBlock /\ n # tailBlock
           /\ place[tailBlock] \in Nat /\ place[n] = place[tailBlock] + 1
           /\ Count(block[n]) = IF enqPc = "advance" THEN 1 ELSE 0
           /\ Linked = Len(block)
<1> DEFINE n == block[tailBlock].next
<1>1. /\ Linked \in Nat /\ tailBlock \in 1 .. Linked /\ frontBlock \in 1 .. Linked
      /\ Linked = Len(block)
  BY RingRange DEF RingAt, RingTypeOK, Linked
<1>2. /\ place[tailBlock] \in 0 .. Linked - 1 /\ place[frontBlock] = 0
      /\ n \in 1 .. Linked
      /\ place[n] = IF place[tailBlock] = Linked - 1 THEN 0
                                                     ELSE place[tailBlock] + 1
      /\ \A b, c \in 1 .. Linked : place[b] = place[c] => b = c
  BY <1>1 DEF RingAt, Links
<1>3. n # frontBlock
  BY DEF RingAt, ProducerAt
<1>4. place[n] # 0
  BY <1>1, <1>2, <1>3
<1>5. place[n] = place[tailBlock] + 1
  BY <1>2, <1>4
<1>6. n # tailBlock /\ place[n] > place[tailBlock]
  BY <1>2, <1>5
<1>7. Count(block[n]) = IF enqPc = "advance" THEN 1 ELSE 0
  BY <1>2, <1>6 DEF RingAt, Numbered
<1> QED  BY <1>1, <1>2, <1>3, <1>5, <1>6, <1>7

(* The slot at the tail of the next block is filled.                       *)
LEMMA EnqFillKeeps ==
    ASSUME NEW place, NEW before, RingAt(place, before), EnqFill
    PROVE  /\ RingAt(place, before)'
           /\ LET c == block[block[tailBlock].next] IN
              c.data[c.tail] = 0 /\ c.localFront = c.tail
<1> DEFINE t == block[tailBlock].next
           c == block[t]
           v == sent + 1
           d == [c EXCEPT !.data[c.tail] = v]
<1>1. /\ block \in Seq(Blocks) /\ Linked = Len(block)
      /\ frontBlock \in 1 .. Linked /\ tailBlock \in 1 .. Linked
      /\ \A b \in 1 .. Len(block) : BlockOK(block[b])
      /\ sent \in Nat
  BY DEF RingAt, RingTypeOK, EnqFill, Linked
<1>2. /\ enqPc = "fill" /\ enqPc' = "bump"
      /\ frontBlock' = frontBlock /\ tailBlock' = tailBlock /\ sent' = sent
      /\ got' = got /\ largest' = largest /\ deqPc' = deqPc
      /\ ahead' = ahead /\ peeked' = peeked /\ wasEmpty' = wasEmpty
      /\ block' = [block EXCEPT ![t] = d]
  BY DEF EnqFill, consumer
<1>3. /\ t \in 1 .. Linked /\ t # frontBlock /\ t # tailBlock
      /\ Count(c) = 0
  BY <1>2, NextFree
<1>2a. v \in Nat
  BY <1>1
<1> HIDE DEF v
<1>4. /\ BlockOK(c) /\ Taken(t) \in {0, 1} /\ Taken(t) <= Count(c)
      /\ before[t] \in Nat /\ Holds(c, before[t], Taken(t), 0)
  <2>1. Extra(t) = 0
    BY <1>2 DEF Extra, Filled
  <2> QED  BY <1>3, <2>1, TakenBounds
<1>5. /\ BlockOK(d) /\ Count(d) = Count(c)
      /\ c.data[c.tail] = 0
      /\ Holds(d, before[t], Taken(t), v)
      /\ d.cap = c.cap /\ d.next = c.next /\ d.front = c.front
      /\ d.localTail = c.localTail /\ d.tail = c.tail
      /\ d.localFront = c.localFront
  BY <1>2a, <1>4, BlockFilled
<1> HIDE DEF d
<1>6. /\ block' \in Seq(Blocks) /\ Len(block') = Len(block)
      /\ \A b \in 1 .. Len(block) : block'[b] = IF b = t THEN d ELSE block[b]
  BY <1>1, <1>2, <1>3, <1>5, SetBlock DEF BlockOK
<1>7. \A b \in 1 .. Len(block) :
         /\ BlockOK(block'[b])
         /\ Count(block'[b]) = Count(block[b])
         /\ block'[b].cap = block[b].cap
         /\ block'[b].next = block[b].next
         /\ block'[b].front = block[b].front
         /\ block'[b].localTail = block[b].localTail
         /\ block'[b].tail = block[b].tail
         /\ block'[b].localFront = block[b].localFront
  BY <1>1, <1>3, <1>5, <1>6
<1>8. Linked' = Linked /\ First' = First
  BY <1>2, <1>6 DEF Linked, First
<1>9. RingTypeOK'
  BY <1>1, <1>2, <1>6, <1>7, <1>8 DEF RingAt, RingTypeOK
<1>10. Links(place)' /\ Numbered(place, before)'
  BY <1>1, <1>2, <1>7, <1>8, LinksKept, NumberedKept
<1>11. block'[tailBlock].next = t
  BY <1>1, <1>7
<1>12. SlotsHold(before)'
  <2> SUFFICES ASSUME NEW b \in 1 .. Linked
               PROVE  Holds(block'[b], before[b], Taken(b)', Extra(b)')
    BY <1>8 DEF SlotsHold
  <2>1. Taken(b)' = Taken(b) /\ Extra(b) = 0
    BY <1>2 DEF Taken, Extra, Filled
  <2>2. CASE b = t
    <3>1. Extra(b)' = v
      BY <1>2, <1>11, <2>2 DEF Extra, Filled, v
    <3> QED  BY <1>1, <1>5, <1>6, <2>1, <2>2, <3>1
  <2>3. CASE b # t
    <3>1. Extra(b)' = 0
      BY <1>2, <1>11, <2>3 DEF Extra, Filled
    <3> QED  BY <1>1, <1>6, <2>1, <2>3, <3>1 DEF RingAt, SlotsHold
  <2> QED  BY <2>2, <2>3
<1>13. NewBlock'
  BY <1>2 DEF NewBlock
<1>14. ProducerAt'
  <2>1. c.localFront = c.front
    BY <1>2 DEF RingAt, ProducerAt
  <2>2. block'[t].localFront = block'[t].front
    BY <1>1, <1>3, <1>7, <2>1
  <2> QED  BY <1>2, <1>3, <1>11, <2>2 DEF ProducerAt
<1>15. ConsumerAt'
  BY <1>1, <1>2, <1>7, ConsumerKept
<1>16. c.localFront = c.tail
  <2>1. c.localFront = c.front
    BY <1>2 DEF RingAt, ProducerAt
  <2> QED  BY <1>3, <1>4, <2>1, CountBounds
<1> QED  BY <1>5, <1>9, <1>10, <1>12, <1>13, <1>14, <1>15, <1>16 DEF RingAt

(* The first element of a block is published: it follows all there are.    *)
LEMMA EnqBumpKeeps ==
    ASSUME NEW place, NEW before, RingAt(place, before), EnqBump
    PROVE  \E after :
              /\ RingAt(place, after)'
              /\ Linked' = Linked /\ First' = First
              /\ LET n == block[tailBlock].next IN
                 \A b \in 1 .. Linked :
                    /\ after[b] = IF b = n THEN sent ELSE before[b]
                    /\ block'[b].next = block[b].next
                    /\ Grown(block[b], block'[b], IF b = n THEN 1 ELSE 0)
<1> DEFINE t == block[tailBlock].next
           c == block[t]
           d == [c EXCEPT !.tail = (c.tail + 1) % c.cap]
<1>1. /\ block \in Seq(Blocks) /\ Linked = Len(block)
      /\ frontBlock \in 1 .. Linked /\ tailBlock \in 1 .. Linked
      /\ \A b \in 1 .. Len(block) : BlockOK(block[b])
      /\ sent \in Nat
  BY DEF RingAt, RingTypeOK, EnqBump, Linked
<1>2. /\ enqPc = "bump" /\ enqPc' = "advance"
      /\ frontBlock' = frontBlock /\ tailBlock' = tailBlock /\ sent' = sent
      /\ got' = got /\ largest' = largest /\ deqPc' = deqPc
      /\ ahead' = ahead /\ peeked' = peeked /\ wasEmpty' = wasEmpty
      /\ block' = [block EXCEPT ![t] = d]
  BY DEF EnqBump, Succ, consumer
<1>3. /\ t \in 1 .. Linked /\ t # frontBlock /\ t # tailBlock
      /\ Count(c) = 0
      /\ place[tailBlock] \in Nat /\ place[t] = place[tailBlock] + 1
  BY <1>2, NextFree
<1>4. /\ BlockOK(c) /\ Taken(t) = 0
      /\ Holds(c, sent, 0, sent + Count(c) + 1)
  <2>1. Extra(t) = sent + 1 /\ Taken(t) = 0
    BY <1>2, <1>3 DEF Extra, Filled, Taken
  <2>2. BlockOK(c) /\ Holds(c, before[t], 0, sent + 1)
    BY <1>3, <2>1, TakenBounds
  <2>3. Holds(c, sent, 0, sent + 1)
    BY <1>3, <2>2, EmptyHolds
  <2>4. sent + 1 = sent + Count(c) + 1
    BY <1>1, <1>3
  <2> QED  BY <2>1, <2>2, <2>3, <2>4
<1>5. Dist(c.cap, c.localFront, c.tail) < c.cap - 1
  <2>1. c.localFront = c.front
    BY <1>2 DEF RingAt, ProducerAt
  <2>2. c.cap \in Nat /\ c.cap >= 2
    BY <1>4, BlockFields DEF BlockOK
  <2>3. Dist(c.cap, c.localFront, c.tail) = 0
    BY <1>3, <2>1 DEF Count
  <2> QED  BY <2>2, <2>3
<1>6. /\ BlockOK(d) /\ Count(d) = 1
      /\ Holds(d, sent, 0, 0)
      /\ d.cap = c.cap /\ d.next = c.next /\ d.front = c.front
      /\ d.localTail = c.localTail /\ d.localFront = c.localFront
  <2>1. /\ BlockOK(d) /\ Count(d) = Count(c) + 1
        /\ Holds(d, sent, 0, 0)
        /\ d.cap = c.cap /\ d.next = c.next /\ d.front = c.front
        /\ d.localTail = c.localTail /\ d.localFront = c.localFront
    BY <1>1, <1>3, <1>4, <1>5, BlockPublished
  <2> QED  BY <1>3, <2>1
<1> HIDE DEF d
<1>7. /\ block' \in Seq(Blocks) /\ Len(block') = Len(block)
      /\ \A b \in 1 .. Len(block) : block'[b] = IF b = t THEN d ELSE block[b]
  BY <1>1, <1>2, <1>3, <1>6, SetBlock DEF BlockOK
<1>8. \A b \in 1 .. Len(block) :
         /\ BlockOK(block'[b])
         /\ Count(block'[b]) = IF b = t THEN 1 ELSE Count(block[b])
         /\ block'[b].next = block[b].next
         /\ block'[b].front = block[b].front
         /\ block'[b].localTail = block[b].localTail
  BY <1>1, <1>3, <1>6, <1>7
<1>9. Linked' = Linked /\ First' = First
  BY <1>2, <1>7 DEF Linked, First
<1>10. RingTypeOK'
  BY <1>1, <1>2, <1>7, <1>8, <1>9 DEF RingAt, RingTypeOK
<1>11. Links(place)'
  BY <1>1, <1>2, <1>8, <1>9, LinksKept
<1>0. PICK after : after = [before EXCEPT ![t] = sent]
  OBVIOUS
<1>12. /\ after \in [1 .. Linked -> Nat]
       /\ \A b \in 1 .. Linked : after[b] = IF b = t THEN sent ELSE before[b]
  BY <1>0, <1>1, <1>3 DEF RingAt, Numbered
<1>13. /\ place \in [1 .. Linked -> 0 .. Linked - 1]
       /\ \A b, e \in 1 .. Linked : place[b] = place[e] => b = e
       /\ \A b \in 1 .. Linked :
             /\ block[b].next \in 1 .. Linked
             /\ place[block[b].next] = IF place[b] = Linked - 1 THEN 0
                                                                ELSE place[b] + 1
  BY DEF RingAt, Links
<1>14. Numbered(place, after)'
  <2>1. /\ before[frontBlock] = First
        /\ before[tailBlock] + Count(block[tailBlock]) = sent
        /\ \A b \in 1 .. Linked :
              /\ place[b] < place[tailBlock] =>
                    before[block[b].next] = before[b] + Count(block[b])
              /\ place[b] <= place[tailBlock] =>
                    /\ before[b] + Count(block[b]) <= sent
                    /\ b # frontBlock => Count(block[b]) > 0
              /\ place[b] > place[tailBlock] => Count(block[b]) = 0
    BY <1>2 DEF RingAt, Numbered
  <2>2. /\ after[frontBlock] = First
        /\ after[tailBlock] + Count(block'[tailBlock]) = sent
        /\ after[t] = sent
    BY <1>1, <1>3, <1>8, <1>12, <2>1
  <2>3. ASSUME NEW b \in 1 .. Linked
        PROVE  /\ place[b] < place[tailBlock] =>
                     after[block'[b].next] = after[b] + Count(block'[b])
               /\ place[b] <= place[tailBlock] =>
                     /\ after[b] + Count(block'[b]) <= sent
                     /\ b # frontBlock => Count(block'[b]) > 0
               /\ place[b] > place[tailBlock] =>
                     Count(block'[b]) = IF b = t THEN 1 ELSE 0
    <3>1. CASE b = t
      BY <1>1, <1>3, <1>8, <3>1
    <3>2. CASE b # t
      <4>1. /\ Count(block'[b]) = Count(block[b]) /\ after[b] = before[b]
            /\ block'[b].next = block[b].next
        BY <1>1, <1>8, <1>12, <3>2
      <4>2. place[b] < place[tailBlock] => block[b].next # t
        BY <1>3, <1>13
      <4>3. place[b] < place[tailBlock] => after[block[b].next] = before[block[b].next]
        BY <1>12, <1>13, <4>2
      <4> QED  BY <2>1, <3>2, <4>1, <4>3
    <3> QED  BY <3>1, <3>2
  <2>4. block'[tailBlock].next = t
    BY <1>1, <1>8
  <2> QED  BY <1>2, <1>9, <1>12, <2>2, <2>3, <2>4 DEF Numbered
<1>15. SlotsHold(after)'
  <2> SUFFICES ASSUME NEW b \in 1 .. Linked
               PROVE  Holds(block'[b], after[b], Taken(b)', Extra(b)')
    BY <1>9 DEF SlotsHold
  <2>1. Taken(b)' = Taken(b) /\ Extra(b)' = 0
    BY <1>2 DEF Taken, Extra, Filled
  <2>2. CASE b = t
    BY <1>1, <1>3, <1>4, <1>6, <1>7, <1>12, <2>1, <2>2
  <2>3. CASE b # t
    <3>1. Extra(b) = 0 /\ after[b] = before[b]
      BY <1>2, <1>12, <2>3 DEF Extra, Filled
    <3> QED  BY <1>1, <1>7, <2>1, <2>3, <3>1 DEF RingAt, SlotsHold
  <2> QED  BY <2>2, <2>3
<1>16. NewBlock'
  BY <1>2 DEF NewBlock
<1>17. ProducerAt'
  <2>1. block'[tailBlock].next = t
    BY <1>1, <1>8
  <2> QED  BY <1>2, <1>3, <2>1 DEF ProducerAt
<1>18. ConsumerAt'
  <2>1. Count(block'[frontBlock]) = Count(block[frontBlock])
    BY <1>1, <1>3, <1>8
  <2> QED  BY <1>1, <1>2, <1>8, <2>1, ConsumerKept
<1>19. RingAt(place, after)'
  BY <1>10, <1>11, <1>14, <1>15, <1>16, <1>17, <1>18 DEF RingAt
<1>20. \A b \in 1 .. Linked :
          Grown(block[b], block'[b], IF b = t THEN 1 ELSE 0)
  <2>1. \A b \in 1 .. Linked : Count(block[b]) \in Nat
    BY TakenBounds
  <2>2. \A b \in 1 .. Linked : block'[b].cap = block[b].cap
    BY <1>1, <1>6, <1>7
  <2> QED  BY <1>1, <1>3, <1>8, <2>1, <2>2 DEF Grown
<1> QED  BY <1>1, <1>8, <1>9, <1>12, <1>19, <1>20

-----------------------------------------------------------------------------
(* The steps that make a block and link it into the ring.                  *)

(* A new block is made, with the element in it; or none can be made.       *)
LEMMA EnqGrowKeeps ==
    ASSUME NEW place, NEW before, RingAt(place, before), EnqGrow,
           MaxBlockSize \in Nat, MaxBlockSize >= 2
    PROVE  RingAt(place, before)'
<1> DEFINE cap == IF largest >= MaxBlockSize THEN largest ELSE largest * 2
           next == block[tailBlock].next
<1>1. /\ block \in Seq(Blocks) /\ Linked = Len(block) /\ Len(block) \in Nat
      /\ frontBlock \in 1 .. Linked /\ tailBlock \in 1 .. Linked
      /\ \A b \in 1 .. Len(block) : BlockOK(block[b])
      /\ sent \in Nat /\ largest \in Nat \ {0}
      /\ next \in Nat
  BY RingRange DEF RingAt, RingTypeOK, EnqGrow, Linked
<1>2. /\ enqPc = "grow"
      /\ frontBlock' = frontBlock /\ tailBlock' = tailBlock /\ sent' = sent
      /\ got' = got /\ deqPc' = deqPc
      /\ ahead' = ahead /\ peeked' = peeked /\ wasEmpty' = wasEmpty
  BY DEF EnqGrow, consumer
<1>3. CASE enqPc' = "failed" /\ UNCHANGED <<block, largest>>
  <2>1. /\ RingTypeOK' /\ Links(place)' /\ Numbered(place, before)'
        /\ SlotsHold(before)' /\ NewBlock'
    BY <1>1, <1>2, <1>3, QuietStep
  <2>2. ConsumerAt'
    BY <1>1, <1>2, <1>3, ConsumerKept
  <2>3. ProducerAt'
    BY <1>3 DEF ProducerAt
  <2> QED  BY <2>1, <2>2, <2>3 DEF RingAt
<1>4. CASE /\ block' = Append(block, [Block(cap, next) EXCEPT
                                         !.data[0] = sent + 1,
                                         !.tail = 1, !.localTail = 1])
           /\ largest' = cap
           /\ enqPc' = "link"
  <2>1. cap \in Nat /\ cap >= 2
    BY <1>1
  <2> DEFINE s == [i \in 0 .. cap - 1 |-> IF i = 0 THEN sent + 1 ELSE 0]
             c == [cap |-> cap, next |-> next, front |-> 0, localTail |-> 1,
                   tail |-> 1, localFront |-> 0, data |-> s]
  <2>2. block' = Append(block, c)
    <3>2. block' = Append(block, [Block(cap, next) EXCEPT
                                     !.data[0] = sent + 1,
                                     !.tail = 1, !.localTail = 1])
      BY <1>4
    <3> DEFINE z == [i \in 0 .. cap - 1 |-> 0]
    <3>1. s = [z EXCEPT ![0] = sent + 1]
      BY <2>1
    <3>4. Block(cap, next) =
             [cap |-> cap, next |-> next, front |-> 0, localTail |-> 0,
              tail |-> 0, localFront |-> 0, data |-> z]
      BY DEF Block
    <3> HIDE DEF s, z, cap, next
    <3>3. ASSUME NEW e,
                 e = [[cap |-> cap, next |-> next, front |-> 0, localTail |-> 0,
                       tail |-> 0, localFront |-> 0, data |-> z]
                        EXCEPT !.data[0] = sent + 1, !.tail = 1, !.localTail = 1]
          PROVE  e = c
      BY <3>1, <3>3
    <3> QED  BY <3>2, <3>3, <3>4
  <2>3. /\ c \in Blocks /\ BlockOK(c) /\ Count(c) = 1 /\ c.next = next
        /\ Holds(c, sent, 0, 0)
    <3>1. /\ s \in [0 .. cap - 1 -> Nat]
          /\ \A j \in 0 .. cap - 1 : s[j] = IF j = 0 THEN sent + 1 ELSE 0
      BY <1>1, <2>1
    <3> HIDE DEF s
    <3>2. c \in [cap : {cap}, next : Nat, front : Nat, localTail : Nat,
                 tail : Nat, localFront : Nat, data : [0 .. cap - 1 -> Nat]]
      BY <1>1, <2>1, <3>1
    <3>3. c \in Blocks
      BY <2>1, <3>2 DEF Blocks
    <3>4. /\ c.cap = cap /\ c.front = 0 /\ c.localTail = 1 /\ c.tail = 1
          /\ c.localFront = 0 /\ c.data = s /\ c.next = next
      OBVIOUS
    <3> HIDE DEF c
    <3>5. \A j \in 0 .. c.cap - 1 : c.data[j] = IF j = 0 THEN sent + 1 ELSE 0
      BY <3>1, <3>4
    <3>6. BlockOK(c) /\ Count(c) = 1 /\ Holds(c, sent, 0, 0)
      BY <1>1, <2>1, <3>3, <3>4, <3>5, BlockMadeFull
    <3> QED  BY <3>3, <3>4, <3>6
  <2> HIDE DEF c, cap
  <2>5. /\ block' \in Seq(Blocks) /\ Len(block') = Len(block) + 1
        /\ \A b \in 1 .. Len(block) : block'[b] = block[b]
        /\ block'[Len(block) + 1] = c
    BY <1>1, <2>2, <2>3
  <2>6. Linked' = Linked /\ First' = First
    BY <1>1, <1>2, <1>4, <2>5 DEF Linked, First
  <2>7. \A b \in 1 .. Len(block') : BlockOK(block'[b])
    BY <1>1, <2>3, <2>5
  <2>8. RingTypeOK'
    BY <1>1, <1>2, <1>4, <2>1, <2>5, <2>6, <2>7 DEF RingAt, RingTypeOK
  <2>9. Links(place)' /\ Numbered(place, before)'
    BY <1>1, <1>2, <1>4, <2>5, <2>6, LinksKept, NumberedKept
  <2>10. SlotsHold(before)'
    <3> SUFFICES ASSUME NEW b \in 1 .. Linked
                 PROVE  Holds(block'[b], before[b], Taken(b)', Extra(b)')
      BY <2>6 DEF SlotsHold
    <3>1. Taken(b)' = Taken(b) /\ Extra(b) = 0 /\ Extra(b)' = 0
      BY <1>2, <1>4 DEF Taken, Extra, Filled
    <3> QED  BY <1>1, <2>5, <3>1 DEF RingAt, SlotsHold
  <2>11. NewBlock'
    BY <1>1, <1>2, <2>3, <2>5 DEF NewBlock
  <2>12. ProducerAt'
    BY <1>4 DEF ProducerAt
  <2>13. ConsumerAt'
    BY <1>1, <1>2, <2>5, ConsumerKept
  <2> QED  BY <2>8, <2>9, <2>10, <2>11, <2>12, <2>13 DEF RingAt
<1> QED  BY <1>3, <1>4 DEF EnqGrow

(* The new block comes after the tail block, and its element after all     *)
(* there are.                                                              *)
LEMMA EnqLinkKeeps ==
    ASSUME NEW place, NEW before, RingAt(place, before), EnqLink
    PROVE  \E pos, after :
              /\ RingAt(pos, after)'
              /\ Linked' = Linked + 1 /\ First' = First
              /\ block'[tailBlock].next = Linked + 1
              /\ \A b \in 1 .. Linked :
                    /\ after[b] = before[b]
                    /\ pos[b] = IF place[b] > place[tailBlock] THEN place[b] + 1
                                                              ELSE place[b]
                    /\ Grown(block[b], block'[b], 0)
<1> DEFINE t == tailBlock
           n == Len(block)
           c == block[t]
           d == [c EXCEPT !.next = n]
<1>1. /\ block \in Seq(Blocks) /\ n \in Nat /\ n >= 2 /\ Linked = n - 1
      /\ frontBlock \in 1 .. n - 1 /\ t \in 1 .. n - 1
      /\ \A b \in 1 .. n : BlockOK(block[b])
      /\ sent \in Nat
  BY RingRange DEF RingAt, RingTypeOK, EnqLink, Linked
<1>2. /\ enqPc = "link" /\ enqPc' = "advance"
      /\ frontBlock' = frontBlock /\ tailBlock' = tailBlock /\ sent' = sent
      /\ got' = got /\ largest' = largest /\ deqPc' = deqPc
      /\ ahead' = ahead /\ peeked' = peeked /\ wasEmpty' = wasEmpty
      /\ block' = [block EXCEPT ![t] = d]
  BY DEF EnqLink, consumer
<1>3. /\ BlockOK(d) /\ Count(d) = Count(c)
      /\ \A lo, taken, extra : Holds(c, lo, taken, extra)
                                  => Holds(d, lo, taken, extra)
      /\ d.cap = c.cap /\ d.next = n /\ d.front = c.front
      /\ d.localTail = c.localTail /\ d.tail = c.tail
      /\ d.localFront = c.localFront
  BY <1>1, BlockLinked
<1>4. /\ block[n].next = c.next /\ Count(block[n]) = 1
      /\ Holds(block[n], sent, 0, 0)
  BY <1>2 DEF RingAt, NewBlock
<1> HIDE DEF d
<1>5. /\ block' \in Seq(Blocks) /\ Len(block') = n
      /\ \A b \in 1 .. n : block'[b] = IF b = t THEN d ELSE block[b]
  <2>1. d \in Blocks
    BY <1>3 DEF BlockOK
  <2> QED  BY <1>1, <1>2, <2>1
<1>6. \A b \in 1 .. n :
         /\ BlockOK(block'[b])
         /\ Count(block'[b]) = Count(block[b])
         /\ block'[b].next = IF b = t THEN n ELSE block[b].next
         /\ block'[b].front = block[b].front
         /\ block'[b].localTail = block[b].localTail
         /\ \A lo, taken, extra : Holds(block[b], lo, taken, extra)
                                     => Holds(block'[b], lo, taken, extra)
  BY <1>1, <1>3, <1>5
<1>7. Linked' = n /\ First' = First
  BY <1>2, <1>5 DEF Linked, First
<1>8. PICK after : after = [b \in 1 .. n |-> IF b = n THEN sent ELSE before[b]]
  OBVIOUS
<1>9. PICK pos : pos = [b \in 1 .. n |->
                          IF b = n THEN place[t] + 1
                          ELSE IF place[b] > place[t] THEN place[b] + 1
                          ELSE place[b]]
  OBVIOUS
<1>10. /\ place \in [1 .. n - 1 -> 0 .. n - 2]
       /\ \A b, e \in 1 .. n - 1 : place[b] = place[e] => b = e
       /\ place[frontBlock] = 0
       /\ \A b \in 1 .. n - 1 :
             /\ block[b].next \in 1 .. n - 1
             /\ place[block[b].next] = IF place[b] = n - 2 THEN 0
                                                           ELSE place[b] + 1
  <2>1. Linked = n - 1 /\ Linked - 1 = n - 2
    BY <1>1
  <2>2. /\ place \in [1 .. Linked -> 0 .. Linked - 1]
        /\ \A b, e \in 1 .. Linked : place[b] = place[e] => b = e
        /\ place[frontBlock] = 0
        /\ \A b \in 1 .. Linked :
              /\ block[b].next \in 1 .. Linked
              /\ place[block[b].next] = IF place[b] = Linked - 1 THEN 0
                                                                 ELSE place[b] + 1
    BY DEF RingAt, Links
  <2> HIDE DEF n
  <2> QED  BY <2>1, <2>2, Zenon
<1>11. /\ place[t] \in 0 .. n - 2
       /\ \A b \in 1 .. n - 1 : place[b] \in 0 .. n - 2
       /\ \A b \in 1 .. n : pos[b] = IF b = n THEN place[t] + 1
                                     ELSE IF place[b] > place[t] THEN place[b] + 1
                                     ELSE place[b]
       /\ pos[t] = place[t] /\ pos[frontBlock] = 0
       /\ pos[n] = place[t] + 1
  <2>1. /\ place[t] \in 0 .. n - 2
        /\ \A b \in 1 .. n - 1 : place[b] \in 0 .. n - 2
    BY <1>1, <1>10
  <2>2. \A b \in 1 .. n : pos[b] = IF b = n THEN place[t] + 1
                                   ELSE IF place[b] > place[t] THEN place[b] + 1
                                   ELSE place[b]
    BY <1>9
  <2>3. t \in 1 .. n /\ t # n /\ n \in 1 .. n
        /\ frontBlock \in 1 .. n /\ frontBlock # n
    BY <1>1
  <2>4. pos[t] = place[t] /\ pos[n] = place[t] + 1
    BY <2>1, <2>2, <2>3
  <2>5. pos[frontBlock] = 0
    BY <1>10, <2>1, <2>2, <2>3
  <2> QED  BY <2>1, <2>2, <2>4, <2>5
<1>12. RingTypeOK'
  BY <1>1, <1>2, <1>5, <1>6, <1>7 DEF RingAt, RingTypeOK
<1>13. Links(pos)'
  <2>1. pos \in [1 .. n -> 0 .. n - 1]
    <3> SUFFICES ASSUME NEW b \in 1 .. n  PROVE  pos[b] \in 0 .. n - 1
      BY <1>9
    <3>1. CASE b = n
      BY <1>1, <1>11, <3>1
    <3>2. CASE b # n
      <4>1. b \in 1 .. n - 1 /\ place[b] \in 0 .. n - 2
        BY <1>1, <1>11, <3>2
      <4> QED  BY <1>1, <1>11, <3>2, <4>1
    <3> QED  BY <3>1, <3>2
  <2>2. ASSUME NEW b \in 1 .. n, NEW e \in 1 .. n, pos[b] = pos[e]
        PROVE  b = e
    <3>0. ASSUME NEW x \in 1 .. n, x # n  PROVE  pos[x] # place[t] + 1
      <4>1. x \in 1 .. n - 1 /\ place[x] \in 0 .. n - 2
        BY <1>1, <1>11, <3>0
      <4> QED  BY <1>11, <3>0, <4>1
    <3>1. CASE b = n \/ e = n
      BY <1>11, <2>2, <3>0, <3>1
    <3>2. CASE b # n /\ e # n
      <4>1. b \in 1 .. n - 1 /\ e \in 1 .. n - 1
        BY <1>1, <3>2
      <4>2. place[b] = place[e]
        BY <1>11, <2>2, <3>2, <4>1
      <4> QED  BY <1>10, <4>1, <4>2
    <3> QED  BY <3>1, <3>2
  <2>3. ASSUME NEW b \in 1 .. n
        PROVE  /\ block'[b].next \in 1 .. n
               /\ pos[block'[b].next] = IF pos[b] = n - 1 THEN 0 ELSE pos[b] + 1
    <3>1. CASE b = t
      BY <1>1, <1>6, <1>11, <3>1
    <3>2. CASE b = n
      <4>1. block'[b].next = c.next /\ c.next \in 1 .. n - 1
        BY <1>1, <1>4, <1>6, <1>10, <3>2
      <4>2. place[c.next] = IF place[t] = n - 2 THEN 0 ELSE place[t] + 1
        BY <1>1, <1>10
      <4> QED  BY <1>1, <1>11, <3>2, <4>1, <4>2
    <3>3. CASE b # t /\ b # n
      <4>1. b \in 1 .. n - 1
        BY <1>1, <3>3
      <4>2. block'[b].next = block[b].next /\ block[b].next \in 1 .. n - 1
        BY <1>6, <1>10, <3>3, <4>1
      <4>3. place[block[b].next] = IF place[b] = n - 2 THEN 0 ELSE place[b] + 1
        BY <1>10, <4>1
      <4>4. place[b] # place[t]
        BY <1>1, <1>10, <3>3, <4>1
      <4> DEFINE m == block[b].next
      <4>4a. m \in 1 .. n /\ m # n /\ place[b] \in Nat /\ place[t] \in Nat
             /\ place[t] <= n - 2
        BY <1>1, <1>11, <4>1, <4>2
      <4>4b. pos[m] = IF place[m] > place[t] THEN place[m] + 1 ELSE place[m]
        BY <1>11, <4>4a
      <4>4c. pos[b] = IF place[b] > place[t] THEN place[b] + 1 ELSE place[b]
        BY <1>11, <3>3
      <4> HIDE DEF m
      <4>4d. place[m] = IF place[b] = n - 2 THEN 0 ELSE place[b] + 1
        BY <4>3 DEF m
      <4>5. CASE place[b] > place[t]
        <5>1. pos[m] = IF pos[b] = n - 1 THEN 0 ELSE pos[b] + 1
          <6>1. CASE place[b] = n - 2
            BY <1>1, <4>4a, <4>4b, <4>4c, <4>4d, <4>5, <6>1
          <6>2. CASE place[b] # n - 2
            BY <1>1, <4>4a, <4>4b, <4>4c, <4>4d, <4>5, <6>2
          <6> QED  BY <6>1, <6>2
        <5> QED  BY <4>2, <4>4a, <5>1 DEF m
      <4>6. CASE place[b] < place[t]
        <5>1. pos[m] = IF pos[b] = n - 1 THEN 0 ELSE pos[b] + 1
          BY <1>1, <4>4a, <4>4b, <4>4c, <4>4d, <4>6
        <5> QED  BY <4>2, <4>4a, <5>1 DEF m
      <4> QED  BY <1>11, <4>1, <4>4, <4>5, <4>6
    <3> QED  BY <3>1, <3>2, <3>3
  <2> QED  BY <1>2, <1>7, <1>11, <2>1, <2>2, <2>3 DEF Links
<1>14. Numbered(pos, after)'
  <2>1. /\ before \in [1 .. n - 1 -> Nat]
        /\ before[frontBlock] = First
        /\ before[t] + Count(c) = sent
        /\ \A b \in 1 .. n - 1 :
              /\ place[b] < place[t] =>
                    before[block[b].next] = before[b] + Count(block[b])
              /\ place[b] <= place[t] =>
                    /\ before[b] + Count(block[b]) <= sent
                    /\ b # frontBlock => Count(block[b]) > 0
              /\ place[b] > place[t] => Count(block[b]) = 0
    BY <1>1, <1>2 DEF RingAt, Numbered
  <2>2. /\ after \in [1 .. n -> Nat]
        /\ after[n] = sent
        /\ \A b \in 1 .. n - 1 : after[b] = before[b]
    BY <1>1, <1>8, <2>1
  <2>3. /\ after[frontBlock] = First
        /\ after[t] + Count(block'[t]) = sent
        /\ block'[t].next = n
    BY <1>1, <1>6, <2>1, <2>2
  <2>4. ASSUME NEW b \in 1 .. n
        PROVE  /\ pos[b] < pos[t] =>
                     after[block'[b].next] = after[b] + Count(block'[b])
               /\ pos[b] <= pos[t] =>
                     /\ after[b] + Count(block'[b]) <= sent
                     /\ b # frontBlock => Count(block'[b]) > 0
               /\ pos[b] > pos[t] => Count(block'[b]) = IF b = n THEN 1 ELSE 0
    <3>1. CASE b = n
      BY <1>1, <1>4, <1>6, <1>11, <3>1
    <3>2. CASE b # n
      <4>1. b \in 1 .. n - 1
        BY <1>1, <3>2
      <4>2. /\ pos[b] < pos[t] <=> place[b] < place[t]
            /\ pos[b] <= pos[t] <=> place[b] <= place[t]
            /\ pos[b] > pos[t] <=> place[b] > place[t]
        BY <1>11, <3>2, <4>1
      <4>3. pos[b] < pos[t] => b # t
        BY <1>11, <4>2
      <4>4. /\ Count(block'[b]) = Count(block[b]) /\ after[b] = before[b]
            /\ b # t => block'[b].next = block[b].next
            /\ block[b].next \in 1 .. n - 1
        BY <1>6, <1>10, <2>2, <4>1
      <4> QED  BY <2>1, <2>2, <3>2, <4>1, <4>2, <4>3, <4>4
    <3> QED  BY <3>1, <3>2
  <2> QED  BY <1>2, <1>7, <2>2, <2>3, <2>4 DEF Numbered
<1>15. SlotsHold(after)'
  <2> SUFFICES ASSUME NEW b \in 1 .. n
               PROVE  Holds(block'[b], after[b], Taken(b)', Extra(b)')
    BY <1>7 DEF SlotsHold
  <2>1. Taken(b)' = Taken(b) /\ Extra(b)' = 0 /\ Extra(b) = 0
    BY <1>2 DEF Taken, Extra, Filled
  <2>2. CASE b = n
    <3>1. after[b] = sent /\ Taken(b) = 0
      BY <1>1, <1>8, <2>2 DEF Taken
    <3> QED  BY <1>4, <1>6, <2>1, <2>2, <3>1
  <2>3. CASE b # n
    <3>1. b \in 1 .. n - 1 /\ after[b] = before[b]
      BY <1>1, <1>8, <2>3
    <3>2. Holds(block[b], before[b], Taken(b), Extra(b))
      BY <1>1, <3>1 DEF RingAt, SlotsHold
    <3> QED  BY <1>6, <2>1, <3>1, <3>2
  <2> QED  BY <2>2, <2>3
<1>16. NewBlock'
  BY <1>2 DEF NewBlock
<1>17. ProducerAt'
  <2>1. block'[t].next = n
    BY <1>1, <1>6
  <2>2. n # frontBlock
    BY <1>1
  <2> QED  BY <1>2, <2>1, <2>2 DEF ProducerAt
<1>18. ConsumerAt'
  <2>1. frontBlock # t =>
           /\ block'[frontBlock].next = block[frontBlock].next
           /\ Count(block'[frontBlock]) = Count(block[frontBlock])
    BY <1>1, <1>6
  <2> QED  BY <1>1, <1>2, <1>6, <2>1, ConsumerKept
<1>19. RingAt(pos, after)'
  BY <1>12, <1>13, <1>14, <1>15, <1>16, <1>17, <1>18 DEF RingAt
<1>20. /\ Linked' = Linked + 1 /\ block'[t].next = Linked + 1
       /\ \A b \in 1 .. Linked :
             /\ after[b] = before[b]
             /\ pos[b] = IF place[b] > place[t] THEN place[b] + 1 ELSE place[b]
             /\ Grown(block[b], block'[b], 0)
  <2>1. /\ Linked + 1 = n /\ n \in 1 .. n
        /\ \A b \in 1 .. Linked : b \in 1 .. n /\ b # n
    BY <1>1
  <2>2. block'[t].next = n
    BY <1>1, <1>6
  <2>3. \A b \in 1 .. Linked : after[b] = before[b]
    BY <1>8, <2>1
  <2>4. \A b \in 1 .. Linked :
           pos[b] = IF place[b] > place[t] THEN place[b] + 1 ELSE place[b]
    BY <1>11, <2>1
  <2>5. ASSUME NEW b \in 1 .. Linked  PROVE  Grown(block[b], block'[b], 0)
    <3>1. Count(block[b]) \in Nat
      BY TakenBounds
    <3>2. block'[b].cap = block[b].cap
      BY <1>3, <1>5, <2>1
    <3> QED  BY <1>6, <2>1, <3>1, <3>2 DEF Grown
  <2> QED  BY <1>7, <2>1, <2>2, <2>3, <2>4, <2>5
<1> QED  BY <1>7, <1>19, <1>20

(* The next block becomes the tail block.                                  *)
LEMMA EnqAdvanceKeeps ==
    ASSUME NEW place, NEW before, RingAt(place, before), EnqAdvance
    PROVE  RingAt(place, before)'
<1> DEFINE t == tailBlock
           n == block[t].next
<1>1. /\ block \in Seq(Blocks) /\ Linked = Len(block)
      /\ frontBlock \in 1 .. Linked /\ t \in 1 .. Linked
      /\ \A b \in 1 .. Len(block) : BlockOK(block[b])
      /\ sent \in Nat
  BY DEF RingAt, RingTypeOK, EnqAdvance, Linked
<1>2. /\ enqPc = "advance" /\ enqPc' = "enqueued"
      /\ frontBlock' = frontBlock /\ tailBlock' = n /\ sent' = sent + 1
      /\ got' = got /\ largest' = largest /\ deqPc' = deqPc
      /\ ahead' = ahead /\ peeked' = peeked /\ wasEmpty' = wasEmpty
      /\ block' = block
  BY DEF EnqAdvance, consumer
<1>3. /\ n \in 1 .. Linked /\ n # frontBlock /\ n # t
      /\ Count(block[n]) = 1
      /\ place[t] \in Nat /\ place[n] = place[t] + 1
  BY <1>2, NextFree
<1>4. Linked' = Linked /\ First' = First
  BY <1>2 DEF Linked, First
<1>5. RingTypeOK'
  BY <1>1, <1>2, <1>3, <1>4 DEF RingAt, RingTypeOK
<1>6. Links(place)'
  BY <1>1, <1>2, <1>4, LinksKept
<1>7. Numbered(place, before)'
  <2>1. /\ before \in [1 .. Linked -> Nat]
        /\ before[frontBlock] = First
        /\ before[t] + Count(block[t]) = sent
        /\ before[n] = sent
        /\ \A b \in 1 .. Linked :
              /\ place[b] < place[t] =>
                    before[block[b].next] = before[b] + Count(block[b])
              /\ place[b] <= place[t] =>
                    /\ before[b] + Count(block[b]) <= sent
                    /\ b # frontBlock => Count(block[b]) > 0
              /\ place[b] > place[t] => Count(block[b]) = IF b = n THEN 1 ELSE 0
    BY <1>2 DEF RingAt, Numbered
  <2>2. /\ \A b \in 1 .. Linked : place[b] \in Int
        /\ \A b, e \in 1 .. Linked : place[b] = place[e] => b = e
    BY DEF RingAt, Links
  <2>3. ASSUME NEW b \in 1 .. Linked
        PROVE  /\ place[b] < place[n] =>
                     before[block[b].next] = before[b] + Count(block[b])
               /\ place[b] <= place[n] =>
                     /\ before[b] + Count(block[b]) <= sent + 1
                     /\ b # frontBlock => Count(block[b]) > 0
               /\ place[b] > place[n] => Count(block[b]) = 0
    <3>0. Count(block[b]) \in Nat /\ before[b] \in Nat /\ place[b] \in Int
      BY <2>2, TakenBounds
    <3>1. CASE b = t
      BY <1>1, <1>3, <2>1, <3>0, <3>1
    <3>2. CASE b = n
      BY <1>1, <1>3, <2>1, <3>2
    <3>3. CASE b # t /\ b # n
      <4>1. place[b] # place[t] /\ place[b] # place[n]
        BY <1>1, <1>3, <2>2, <3>3
      <4>2. /\ place[b] < place[n] => place[b] < place[t]
            /\ place[b] <= place[n] => place[b] <= place[t]
            /\ place[b] > place[n] => place[b] > place[t]
        BY <1>3, <3>0, <4>1
      <4>3. /\ place[b] <= place[t] => before[b] + Count(block[b]) <= sent + 1
        BY <1>1, <2>1, <3>0
      <4> QED  BY <2>1, <3>3, <4>2, <4>3
    <3> QED  BY <3>1, <3>2, <3>3
  <2>4. before[n] + Count(block[n]) = sent + 1
    BY <1>3, <2>1
  <2> QED  BY <1>2, <1>4, <2>1, <2>3, <2>4 DEF Numbered
<1>8. SlotsHold(before)'
  <2> SUFFICES ASSUME NEW b \in 1 .. Linked
               PROVE  Holds(block[b], before[b], Taken(b)', Extra(b)')
    BY <1>2, <1>4 DEF SlotsHold
  <2>1. Taken(b)' = Taken(b) /\ Extra(b) = 0 /\ Extra(b)' = 0
    BY <1>2 DEF Taken, Extra, Filled
  <2> QED  BY <2>1 DEF RingAt, SlotsHold
<1>9. NewBlock' /\ ProducerAt'
  BY <1>2 DEF NewBlock, ProducerAt
<1>10. ConsumerAt'
  <2>1. sent' \in Nat /\ sent' >= sent
    BY <1>1, <1>2
  <2> QED  BY <1>2, <1>3, <2>1, ConsumerKept
<1> QED  BY <1>5, <1>6, <1>7, <1>8, <1>9, <1>10 DEF RingAt

-----------------------------------------------------------------------------
(* The steps that dequeue.                                                 *)

(* The consumer leaves the front block, which becomes the last in the      *)
(* ring.                                                                   *)
LEMMA DeqMoveKeeps ==
    ASSUME NEW place, NEW before, RingAt(place, before), DeqMove
    PROVE  \E pos : /\ RingAt(pos, before)'
                    /\ Linked' = Linked /\ First' = First
                    /\ \A b \in 1 .. Linked :
                          pos[b] = IF place[b] = 0 THEN Linked - 1
                                                   ELSE place[b] - 1
<1> DEFINE f == frontBlock
           n == block[f].next
           N == Linked
<1>1. /\ block \in Seq(Blocks) /\ N \in Nat /\ N \in 1 .. Len(block)
      /\ f \in 1 .. N /\ tailBlock \in 1 .. N
      /\ \A b \in 1 .. Len(block) : BlockOK(block[b])
      /\ sent \in Nat /\ got \in Nat
  BY RingRange DEF RingAt, RingTypeOK
<1>2. /\ deqPc = "move" /\ deqPc' = "take" /\ ahead = n
      /\ f # tailBlock /\ Count(block[f]) = 0
      /\ block[n].front # block[n].localTail
      /\ peeked # 0 => peeked = got + 1 /\ got < sent
  BY DEF DeqMove, RingAt, ConsumerAt
<1>3. /\ frontBlock' = n /\ tailBlock' = tailBlock /\ sent' = sent
      /\ got' = got /\ largest' = largest /\ enqPc' = enqPc
      /\ peeked' = peeked /\ wasEmpty' = wasEmpty /\ block' = block
  BY <1>2 DEF DeqMove, producer
<1>4. /\ n \in 1 .. N /\ n # f /\ place[n] = 1 /\ 1 <= place[tailBlock]
      /\ before[n] = First
  BY <1>2, AheadFull
<1>5. Linked' = N /\ First' = First
  BY <1>2, <1>3 DEF Linked, First
<1>6. /\ place \in [1 .. N -> 0 .. N - 1]
      /\ \A b, e \in 1 .. N : place[b] = place[e] => b = e
      /\ place[f] = 0
      /\ \A b \in 1 .. N :
            /\ block[b].next \in 1 .. N
            /\ place[block[b].next] = IF place[b] = N - 1 THEN 0 ELSE place[b] + 1
  BY DEF RingAt, Links
<1>7. PICK pos : pos = [b \in 1 .. N |-> IF place[b] = 0 THEN N - 1
                                                         ELSE place[b] - 1]
  OBVIOUS
<1>8. \A b \in 1 .. N : /\ place[b] \in 0 .. N - 1
                        /\ pos[b] = IF place[b] = 0 THEN N - 1 ELSE place[b] - 1
  BY <1>6, <1>7
<1>9. pos[n] = 0 /\ pos[f] = N - 1 /\ pos[tailBlock] = place[tailBlock] - 1
  <2>1. place[n] \in 0 .. N - 1 /\ place[tailBlock] \in 0 .. N - 1
    BY <1>1, <1>4, <1>8
  <2>2. pos[n] = 0
    <3>1. pos[n] = IF place[n] = 0 THEN N - 1 ELSE place[n] - 1
      BY <1>4, <1>8
    <3>2. place[n] = 1
      BY <1>4
    <3> QED  BY <3>1, <3>2
  <2>3. pos[f] = N - 1
    BY <1>1, <1>6, <1>8
  <2>4. pos[tailBlock] = place[tailBlock] - 1
    <3>1. pos[tailBlock] = IF place[tailBlock] = 0 THEN N - 1 ELSE place[tailBlock] - 1
      BY <1>1, <1>8
    <3>2. place[tailBlock] # 0
      BY <1>4, <2>1
    <3> QED  BY <3>1, <3>2
  <2> QED  BY <2>2, <2>3, <2>4
<1>10. RingTypeOK'
  <2>1. n \in 1 .. Linked'
    BY <1>4, <1>5
  <2> QED  BY <1>1, <1>2, <1>3, <1>5, <2>1 DEF RingAt, RingTypeOK
<1>11. Links(pos)'
  <2>1. pos \in [1 .. N -> 0 .. N - 1]
    <3> SUFFICES ASSUME NEW b \in 1 .. N  PROVE  pos[b] \in 0 .. N - 1
      BY <1>7
    <3> QED  BY <1>1, <1>8
  <2>2. ASSUME NEW b \in 1 .. N, NEW e \in 1 .. N, pos[b] = pos[e]
        PROVE  b = e
    <3>1. place[b] = place[e]
      BY <1>1, <1>8, <2>2
    <3> QED  BY <1>6, <3>1
  <2>3. ASSUME NEW b \in 1 .. N
        PROVE  pos[block[b].next] = IF pos[b] = N - 1 THEN 0 ELSE pos[b] + 1
    <3> DEFINE m == block[b].next
    <3>1. /\ m \in 1 .. N /\ place[b] \in 0 .. N - 1 /\ place[m] \in 0 .. N - 1
          /\ place[m] = IF place[b] = N - 1 THEN 0 ELSE place[b] + 1
      BY <1>6, <1>8
    <3>2. /\ pos[m] = IF place[m] = 0 THEN N - 1 ELSE place[m] - 1
          /\ pos[b] = IF place[b] = 0 THEN N - 1 ELSE place[b] - 1
      BY <1>8, <3>1
    <3>3. N >= 2
      BY <1>1, <1>4
    <3> HIDE DEF m
    <3>4. pos[m] = IF pos[b] = N - 1 THEN 0 ELSE pos[b] + 1
      <4>1. CASE place[b] = 0
        BY <1>1, <3>1, <3>2, <3>3, <4>1
      <4>2. CASE place[b] = N - 1
        BY <1>1, <3>1, <3>2, <3>3, <4>2
      <4>3. CASE place[b] # 0 /\ place[b] # N - 1
        BY <1>1, <3>1, <3>2, <3>3, <4>3
      <4> QED  BY <4>1, <4>2, <4>3
    <3> QED  BY <3>4 DEF m
  <2> QED  BY <1>3, <1>5, <1>6, <1>9, <2>1, <2>2, <2>3 DEF Links
<1>12. enqPc \in {"next", "fill", "bump", "advance"} =>
          /\ block[tailBlock].next # f /\ block[tailBlock].next # n
          /\ block[tailBlock].next \in 1 .. N
  <2>1. ASSUME block[tailBlock].next = n
        PROVE  FALSE
    <3>1. 1 = IF place[tailBlock] = N - 1 THEN 0 ELSE place[tailBlock] + 1
      BY <1>1, <1>4, <1>6, <2>1
    <3> QED  BY <1>1, <1>4, <1>8, <3>1
  <2> QED  BY <1>1, <1>6, <2>1 DEF RingAt, ProducerAt
<1>13. Numbered(pos, before)'
  <2>1. /\ before \in [1 .. N -> Nat]
        /\ before[tailBlock] + Count(block[tailBlock]) = sent
        /\ enqPc = "advance" => before[block[tailBlock].next] = sent
        /\ \A b \in 1 .. N :
              /\ place[b] < place[tailBlock] =>
                    before[block[b].next] = before[b] + Count(block[b])
              /\ place[b] <= place[tailBlock] =>
                    /\ before[b] + Count(block[b]) <= sent
                    /\ b # f => Count(block[b]) > 0
              /\ place[b] > place[tailBlock] =>
                    Count(block[b]) =
                      IF enqPc = "advance" /\ b = block[tailBlock].next
                        THEN 1 ELSE 0
    BY DEF RingAt, Numbered
  <2>2. ASSUME NEW b \in 1 .. N
        PROVE  /\ pos[b] < pos[tailBlock] =>
                     before[block[b].next] = before[b] + Count(block[b])
               /\ pos[b] <= pos[tailBlock] =>
                     /\ before[b] + Count(block[b]) <= sent
                     /\ b # n => Count(block[b]) > 0
               /\ pos[b] > pos[tailBlock] =>
                     Count(block[b]) =
                       IF enqPc = "advance" /\ b = block[tailBlock].next
                         THEN 1 ELSE 0
    <3>1. CASE b = f
      <4>1. pos[b] > pos[tailBlock]
        BY <1>1, <1>8, <1>9, <3>1
      <4>2. pos[b] \in Int /\ pos[tailBlock] \in Int
        <5>1. place[tailBlock] \in 0 .. N - 1
          BY <1>1, <1>8
        <5> QED  BY <1>1, <1>9, <3>1, <5>1
      <4> QED  BY <1>2, <1>12, <3>1, <4>1, <4>2
    <3>2. CASE b # f
      <4>1. place[b] # 0
        BY <1>1, <1>6, <3>2
      <4>2. /\ pos[b] < pos[tailBlock] <=> place[b] < place[tailBlock]
            /\ pos[b] <= pos[tailBlock] <=> place[b] <= place[tailBlock]
            /\ pos[b] > pos[tailBlock] <=> place[b] > place[tailBlock]
        <5>1. place[tailBlock] \in 0 .. N - 1 /\ place[b] \in 0 .. N - 1
          BY <1>1, <1>8
        <5>2. pos[b] = place[b] - 1 /\ pos[tailBlock] = place[tailBlock] - 1
          BY <1>8, <1>9, <4>1
        <5> QED  BY <5>1, <5>2
      <4> QED  BY <2>1, <3>2, <4>2
    <3> QED  BY <3>1, <3>2
  <2> QED  BY <1>3, <1>4, <1>5, <2>1, <2>2 DEF Numbered
<1>14. SlotsHold(before)'
  <2> SUFFICES ASSUME NEW b \in 1 .. N
               PROVE  Holds(block[b], before[b], Taken(b)', Extra(b)')
    BY <1>3, <1>5 DEF SlotsHold
  <2>1. Taken(b)' = Taken(b) /\ Extra(b)' = Extra(b)
    BY <1>2, <1>3 DEF Taken, Extra, Filled
  <2> QED  BY <2>1 DEF RingAt, SlotsHold
<1>15. NewBlock'
  BY <1>3 DEF NewBlock, RingAt
<1>16. ProducerAt'
  BY <1>3, <1>12 DEF ProducerAt, RingAt
<1>17. ConsumerAt'
  BY <1>2, <1>3 DEF ConsumerAt
<1>18. RingAt(pos, before)'
  BY <1>10, <1>11, <1>13, <1>14, <1>15, <1>16, <1>17 DEF RingAt
<1> QED  BY <1>5, <1>8, <1>18

(* What is taken is the next element.                                      *)
LEMMA DeqTakeKeeps ==
    ASSUME NEW place, NEW before, RingAt(place, before), DeqTake
    PROVE  RingAt(place, before)' /\ got' = got + 1 /\ got < sent
<1> DEFINE t == frontBlock
           c == block[t]
           d == [c EXCEPT !.data[c.front] = 0]
<1>1. /\ block \in Seq(Blocks) /\ t \in 1 .. Linked /\ tailBlock \in 1 .. Linked
      /\ t \in 1 .. Len(block) /\ Linked \in 1 .. Len(block)
      /\ Len(block) \in Nat
      /\ \A b \in 1 .. Len(block) : BlockOK(block[b])
      /\ sent \in Nat /\ got \in Nat
  BY RingRange DEF RingAt, RingTypeOK
<1>2. /\ deqPc = "take" /\ deqPc' = "free"
      /\ frontBlock' = frontBlock /\ tailBlock' = tailBlock /\ sent' = sent
      /\ enqPc' = enqPc /\ largest' = largest /\ peeked' = 0
      /\ wasEmpty' = wasEmpty
      /\ got' = c.data[c.front]
      /\ block' = [block EXCEPT ![t] = d]
  BY DEF DeqTake, producer
<1>3. /\ BlockOK(c) /\ Count(c) > 0 /\ Taken(t) = 0
      /\ before[t] = got /\ First = got
      /\ Holds(c, got, 0, Extra(t))
  <2>1. Taken(t) = 0 /\ First = got
    BY <1>2 DEF Taken, First
  <2>2. before[t] = got
    BY <2>1 DEF RingAt, Numbered
  <2>3. c.front # c.localTail
    BY <1>2 DEF RingAt, ConsumerAt
  <2>4. BlockOK(c) /\ Holds(c, before[t], Taken(t), Extra(t))
    BY <1>1 DEF RingAt, SlotsHold
  <2>5. Count(c) > 0
    BY <2>3, <2>4, SeenElement
  <2> QED  BY <2>1, <2>2, <2>4, <2>5
<1>4. /\ BlockOK(d) /\ Count(d) = Count(c)
      /\ c.data[c.front] = got + 1
      /\ Holds(d, got, 1, Extra(t))
      /\ d.cap = c.cap /\ d.next = c.next /\ d.front = c.front
      /\ d.localTail = c.localTail /\ d.tail = c.tail
      /\ d.localFront = c.localFront
  BY <1>1, <1>3, BlockTaken
<1> HIDE DEF d
<1>5. /\ block' \in Seq(Blocks) /\ Len(block') = Len(block)
      /\ \A b \in 1 .. Len(block) : block'[b] = IF b = t THEN d ELSE block[b]
  <2>1. d \in Blocks
    BY <1>4 DEF BlockOK
  <2> QED  BY <1>1, <1>2, <2>1
<1>6. \A b \in 1 .. Len(block) :
         /\ BlockOK(block'[b])
         /\ Count(block'[b]) = Count(block[b])
         /\ block'[b].cap = block[b].cap
         /\ block'[b].next = block[b].next
         /\ block'[b].front = block[b].front
         /\ block'[b].localTail = block[b].localTail
         /\ block'[b].tail = block[b].tail
         /\ block'[b].localFront = block[b].localFront
  BY <1>1, <1>4, <1>5
<1>7. Linked' = Linked /\ got' = got + 1
  BY <1>2, <1>4, <1>5 DEF Linked
<1>8. First' = First
  BY <1>1, <1>2, <1>3, <1>7 DEF First
<1>9. \A b \in 1 .. Linked : b \in 1 .. Len(block)
  BY <1>1
<1>10. RingTypeOK'
  <2>1. got' \in Nat
    BY <1>1, <1>7
  <2> QED  BY <1>1, <1>2, <1>5, <1>6, <1>7, <1>8, <2>1 DEF RingAt, RingTypeOK
<1>11. Links(place)' /\ Numbered(place, before)'
  BY <1>1, <1>2, <1>6, <1>7, <1>8, <1>9, LinksKept, NumberedKept
<1>12. \A b \in 1 .. Linked : Extra(b)' = Extra(b)
  <2>1. block'[tailBlock].next = block[tailBlock].next
    BY <1>1, <1>6, <1>9
  <2> QED  BY <1>2, <2>1 DEF Extra, Filled
<1>13. SlotsHold(before)'
  <2> SUFFICES ASSUME NEW b \in 1 .. Linked
               PROVE  Holds(block'[b], before[b], Taken(b)', Extra(b)')
    BY <1>7 DEF SlotsHold
  <2>1. CASE b = t
    <3>1. Taken(b)' = 1
      BY <1>2, <2>1 DEF Taken
    <3> QED  BY <1>1, <1>3, <1>4, <1>5, <1>12, <2>1, <3>1
  <2>2. CASE b # t
    <3>1. Taken(b)' = Taken(b)
      BY <1>2, <2>2 DEF Taken
    <3> QED  BY <1>5, <1>9, <1>12, <2>2, <3>1 DEF RingAt, SlotsHold
  <2> QED  BY <2>1, <2>2
<1>14. NewBlock'
  <2> SUFFICES ASSUME enqPc = "link"
               PROVE  LET e == block'[Len(block)] IN
                      /\ e.next = block'[tailBlock].next
                      /\ Count(e) = 1
                      /\ Holds(e, sent, 0, 0)
    BY <1>2, <1>5 DEF NewBlock
  <2>1. Len(block) # t /\ Len(block) \in 1 .. Len(block)
    BY <1>1 DEF Linked
  <2>2. block'[Len(block)] = block[Len(block)]
    BY <1>5, <2>1
  <2>3. block'[tailBlock].next = block[tailBlock].next
    BY <1>1, <1>6, <1>9
  <2> QED  BY <2>2, <2>3 DEF RingAt, NewBlock
<1>15. ProducerAt'
  BY <1>2, <1>6, ProducerKept
<1>16. ConsumerAt'
  <2>1. block'[t].front # block'[t].localTail
    BY <1>1, <1>2, <1>6 DEF RingAt, ConsumerAt
  <2> QED  BY <1>2, <2>1 DEF ConsumerAt
<1>17. got < sent
  <2>1. place[t] <= place[tailBlock]
    <3>1. place[t] = 0 /\ place[tailBlock] \in 0 .. Linked - 1
      BY <1>1 DEF RingAt, Links
    <3> QED  BY <3>1
  <2>2. before[t] + Count(c) <= sent
    BY <1>1, <2>1 DEF RingAt, Numbered
  <2>3. Count(c) \in Nat
    BY <1>3, CountBounds
  <2> QED  BY <1>1, <1>3, <2>2, <2>3
<1> QED  BY <1>7, <1>10, <1>11, <1>13, <1>14, <1>15, <1>16, <1>17 DEF RingAt

(* The slot is given back: one element more came before the block's.       *)
LEMMA DeqFreeKeeps ==
    ASSUME NEW place, NEW before, RingAt(place, before), DeqFree
    PROVE  \E after :
              /\ RingAt(place, after)'
              /\ Linked' = Linked /\ First = got - 1 /\ First' = got
              /\ \A b \in 1 .. Linked :
                    LET n == IF b = frontBlock THEN 1 ELSE 0 IN
                    /\ after[b] = before[b] + n
                    /\ block'[b].cap = block[b].cap
                    /\ block'[b].tail = block[b].tail
                    /\ Count(block'[b]) = Count(block[b]) - n
<1> DEFINE t == frontBlock
           c == block[t]
           d == [c EXCEPT !.front = (c.front + 1) % c.cap]
<1>1. /\ block \in Seq(Blocks) /\ t \in 1 .. Linked /\ tailBlock \in 1 .. Linked
      /\ t \in 1 .. Len(block) /\ Linked \in 1 .. Len(block)
      /\ Len(block) \in Nat
      /\ \A b \in 1 .. Len(block) : BlockOK(block[b])
      /\ sent \in Nat /\ got \in Nat /\ got - 1 \in Nat
  BY RingRange DEF RingAt, RingTypeOK, DeqFree, First
<1>2. /\ deqPc = "free" /\ deqPc' = "dequeued"
      /\ frontBlock' = frontBlock /\ tailBlock' = tailBlock /\ sent' = sent
      /\ enqPc' = enqPc /\ largest' = largest /\ got' = got
      /\ wasEmpty' = wasEmpty /\ peeked' = peeked /\ peeked = 0
      /\ block' = [block EXCEPT ![t] = d]
  BY DEF DeqFree, Succ, producer, RingAt, ConsumerAt
<1>3. /\ BlockOK(c) /\ c.front # c.localTail /\ Count(c) \in Nat
      /\ before[t] = got - 1 /\ First = got - 1
      /\ Holds(c, got - 1, 1, Extra(t))
  <2>1. Taken(t) = 1 /\ First = got - 1
    BY <1>2 DEF Taken, First
  <2>2. before[t] = got - 1
    BY <2>1 DEF RingAt, Numbered
  <2>3. c.front # c.localTail
    BY <1>2 DEF RingAt, ConsumerAt
  <2>4. BlockOK(c) /\ Holds(c, before[t], Taken(t), Extra(t))
    BY <1>1 DEF RingAt, SlotsHold
  <2> QED  BY <2>1, <2>2, <2>3, <2>4, CountBounds
<1>4. /\ BlockOK(d) /\ Count(d) + 1 = Count(c)
      /\ Holds(d, got, 0, Extra(t))
      /\ d.cap = c.cap /\ d.next = c.next
      /\ d.localTail = c.localTail /\ d.tail = c.tail
      /\ d.localFront = c.localFront
  <2>1. PICK lo \in Nat : lo = got - 1
    BY <1>1
  <2>2. Holds(c, lo, 1, Extra(t))
    BY <1>3, <2>1
  <2>3. /\ BlockOK(d) /\ Count(d) + 1 = Count(c)
        /\ Holds(d, lo + 1, 0, Extra(t))
        /\ d.cap = c.cap /\ d.next = c.next
        /\ d.localTail = c.localTail /\ d.tail = c.tail
        /\ d.localFront = c.localFront
    BY <1>3, <2>2, BlockFreed
  <2>4. lo + 1 = got
    BY <1>1, <2>1
  <2> QED  BY <2>3, <2>4
<1> HIDE DEF d
<1>5. /\ block' \in Seq(Blocks) /\ Len(block') = Len(block)
      /\ \A b \in 1 .. Len(block) : block'[b] = IF b = t THEN d ELSE block[b]
  <2>1. d \in Blocks
    BY <1>4 DEF BlockOK
  <2> QED  BY <1>1, <1>2, <2>1
<1>6. \A b \in 1 .. Len(block) :
         /\ BlockOK(block'[b])
         /\ block'[b].cap = block[b].cap
         /\ block'[b].next = block[b].next
         /\ block'[b].tail = block[b].tail
         /\ block'[b].localFront = block[b].localFront
         /\ b # t => /\ block'[b].front = block[b].front
                     /\ Count(block'[b]) = Count(block[b])
  BY <1>1, <1>4, <1>5
<1>7. Linked' = Linked /\ First' = got
  BY <1>2, <1>5 DEF Linked, First
<1>8. \A b \in 1 .. Linked : b \in 1 .. Len(block)
  BY <1>1
<1>9. RingTypeOK'
  BY <1>1, <1>2, <1>5, <1>6, <1>7 DEF RingAt, RingTypeOK
<1>10. Links(place)'
  BY <1>2, <1>6, <1>7, <1>8, LinksKept
<1>11. PICK after : after = [before EXCEPT ![t] = got]
  OBVIOUS
<1>12. /\ before \in [1 .. Linked -> Nat] /\ after \in [1 .. Linked -> Nat]
       /\ \A b \in 1 .. Linked : after[b] = IF b = t THEN got ELSE before[b]
  BY <1>1, <1>11 DEF RingAt, Numbered
<1>13. /\ \A b \in 1 .. Linked : place[b] \in 0 .. Linked - 1
       /\ place[t] = 0
       /\ \A b \in 1 .. Linked :
             /\ block[b].next \in 1 .. Linked
             /\ place[block[b].next] = IF place[b] = Linked - 1 THEN 0
                                                                ELSE place[b] + 1
  BY DEF RingAt, Links
<1>14. Numbered(place, after)'
  <2>1. /\ before[tailBlock] + Count(block[tailBlock]) = sent
        /\ enqPc = "advance" => before[block[tailBlock].next] = sent
        /\ \A b \in 1 .. Linked :
              /\ place[b] < place[tailBlock] =>
                    before[block[b].next] = before[b] + Count(block[b])
              /\ place[b] <= place[tailBlock] =>
                    /\ before[b] + Count(block[b]) <= sent
                    /\ b # t => Count(block[b]) > 0
              /\ place[b] > place[tailBlock] =>
                    Count(block[b]) =
                      IF enqPc = "advance" /\ b = block[tailBlock].next
                        THEN 1 ELSE 0
    BY DEF RingAt, Numbered
  <2>2. \A b \in 1 .. Linked :
           after[b] + Count(block'[b]) = before[b] + Count(block[b])
    <3> SUFFICES ASSUME NEW b \in 1 .. Linked
                 PROVE  after[b] + Count(block'[b]) = before[b] + Count(block[b])
      OBVIOUS
    <3>1. CASE b = t
      <4>1. block'[b] = d /\ after[b] = got /\ before[b] = got - 1
        BY <1>1, <1>3, <1>5, <1>12, <3>1
      <4>2. Count(d) \in Nat
        BY <1>4, CountBounds
      <4> QED  BY <1>1, <1>3, <1>4, <3>1, <4>1, <4>2
    <3>2. CASE b # t
      BY <1>6, <1>8, <1>12, <3>2
    <3> QED  BY <3>1, <3>2
  <2>3. \A b \in 1 .. Linked : place[b] < place[tailBlock] =>
           after[block'[b].next] = after[b] + Count(block'[b])
    <3> SUFFICES ASSUME NEW b \in 1 .. Linked, place[b] < place[tailBlock]
                 PROVE  after[block'[b].next] = after[b] + Count(block'[b])
      OBVIOUS
    <3>1. block'[b].next = block[b].next /\ block[b].next \in 1 .. Linked
      BY <1>6, <1>8, <1>13
    <3>2. place[b] \in 0 .. Linked - 1 /\ place[tailBlock] \in 0 .. Linked - 1
      BY <1>1, <1>13
    <3>3. place[block[b].next] # 0
      BY <1>13, <3>2
    <3>4. after[block[b].next] = before[block[b].next]
      BY <1>12, <1>13, <3>1, <3>3
    <3> QED  BY <2>1, <2>2, <3>1, <3>4
  <2>4. \A b \in 1 .. Linked : place[b] > place[tailBlock] =>
           Count(block'[b]) = IF enqPc = "advance" /\ b = block[tailBlock].next
                                THEN 1 ELSE 0
    <3> SUFFICES ASSUME NEW b \in 1 .. Linked, place[b] > place[tailBlock]
                 PROVE  b # t
      BY <1>6, <1>8, <2>1
    <3>1. place[b] \in 0 .. Linked - 1 /\ place[tailBlock] \in 0 .. Linked - 1
      BY <1>1, <1>13
    <3> QED  BY <1>13, <3>1
  <2>5. enqPc = "advance" => after[block[tailBlock].next] = sent
    <3>1. enqPc = "advance" =>
             block[tailBlock].next \in 1 .. Linked /\ block[tailBlock].next # t
      BY NextFree
    <3> QED  BY <1>12, <2>1, <3>1
  <2>6. after[t] = got /\ block'[tailBlock].next = block[tailBlock].next
    BY <1>1, <1>6, <1>8, <1>12
  <2>7. \A b \in 1 .. Linked : b # t => Count(block'[b]) = Count(block[b])
    BY <1>6, <1>8
  <2>8. after[tailBlock] + Count(block'[tailBlock]) = sent
    BY <1>1, <2>1, <2>2
  <2>9. \A b \in 1 .. Linked : place[b] <= place[tailBlock] =>
           /\ after[b] + Count(block'[b]) <= sent
           /\ b # t => Count(block'[b]) > 0
    BY <2>1, <2>2, <2>7
  <2> QED  BY <1>2, <1>7, <1>12, <2>3, <2>4, <2>5, <2>6, <2>8, <2>9 DEF Numbered
<1>15. \A b \in 1 .. Linked : Extra(b)' = Extra(b)
  <2>1. block'[tailBlock].next = block[tailBlock].next
    BY <1>1, <1>6, <1>8
  <2> QED  BY <1>2, <2>1 DEF Extra, Filled
<1>16. SlotsHold(after)'
  <2> SUFFICES ASSUME NEW b \in 1 .. Linked
               PROVE  Holds(block'[b], after[b], Taken(b)', Extra(b)')
    BY <1>7 DEF SlotsHold
  <2>1. Taken(b)' = 0
    BY <1>2 DEF Taken
  <2>2. CASE b = t
    BY <1>1, <1>4, <1>5, <1>12, <1>15, <2>1, <2>2
  <2>3. CASE b # t
    <3>1. Taken(b) = 0 /\ after[b] = before[b]
      BY <1>12, <2>3 DEF Taken
    <3> QED  BY <1>5, <1>8, <1>15, <2>1, <2>3, <3>1 DEF RingAt, SlotsHold
  <2> QED  BY <2>2, <2>3
<1>17. NewBlock'
  <2> SUFFICES ASSUME enqPc = "link"
               PROVE  LET e == block'[Len(block)] IN
                      /\ e.next = block'[tailBlock].next
                      /\ Count(e) = 1
                      /\ Holds(e, sent, 0, 0)
    BY <1>2, <1>5 DEF NewBlock
  <2>1. Len(block) # t /\ Len(block) \in 1 .. Len(block)
    BY <1>1 DEF Linked
  <2>2. block'[Len(block)] = block[Len(block)]
    BY <1>5, <2>1
  <2>3. block'[tailBlock].next = block[tailBlock].next
    BY <1>1, <1>6, <1>8
  <2> QED  BY <2>2, <2>3 DEF RingAt, NewBlock
<1>18. ProducerAt'
  BY <1>2, <1>6, ProducerKept
<1>19. ConsumerAt'
  BY <1>2 DEF ConsumerAt
<1>20. RingAt(place, after)'
  BY <1>9, <1>10, <1>14, <1>16, <1>17, <1>18, <1>19 DEF RingAt
<1>21. ASSUME NEW b \in 1 .. Linked
       PROVE  LET n == IF b = t THEN 1 ELSE 0 IN
              /\ after[b] = before[b] + n
              /\ Count(block'[b]) = Count(block[b]) - n
  <2>1. before[b] \in Nat /\ Count(block[b]) \in Nat
    BY TakenBounds
  <2>2. CASE b = t
    <3>1. block'[b] = d /\ Count(d) \in Nat
      BY <1>1, <1>4, <1>5, <2>2, CountBounds
    <3>2. after[b] = before[b] + 1
      <4>1. after[b] = got /\ before[b] = got - 1
        BY <1>3, <1>12, <2>2
      <4> QED  BY <1>1, <4>1
    <3>3. Count(block'[b]) = Count(block[b]) - 1
      BY <1>4, <2>1, <2>2, <3>1
    <3> QED  BY <2>2, <3>2, <3>3
  <2>3. CASE b # t
    BY <1>6, <1>8, <1>12, <2>1, <2>3
  <2> QED  BY <2>2, <2>3
<1> QED  BY <1>3, <1>6, <1>7, <1>8, <1>20, <1>21

-----------------------------------------------------------------------------
(* What the ring holds.                                                    *)

(* The slots are a ring.                                                   *)
LEMMA SlotAfter ==
    ASSUME NEW n \in Nat, NEW i \in Nat, NEW k \in Nat, i < n, k < n
    PROVE  (i + k) % n = IF i + k < n THEN i + k ELSE i + k - n
  OBVIOUS

(* The number of slots from one to another, as the code computes it.       *)
LEMMA SlotsBetween ==
    ASSUME NEW n \in Nat, NEW i \in Nat, NEW j \in Nat, i < n, j < n
    PROVE  (j + n - i) % n = Dist(n, i, j)
<1>1. CASE i <= j
  <2>1. j + n - i = (j - i) + n /\ j - i \in 0 .. n - 1
    BY <1>1
  <2> QED  BY <1>1, <2>1 DEF Dist
<1>2. CASE i > j
  <2>1. j + n - i \in 0 .. n - 1
    BY <1>2
  <2> QED  BY <1>2, <2>1 DEF Dist
<1> QED  BY <1>1, <1>2

(* The unread elements of a block are those it holds.                      *)
LEMMA UnreadIs ==
    ASSUME NEW place, NEW before, RingAt(place, before), NEW b \in 1 .. Linked
    PROVE  Unread(b) = Nums(before[b] + Taken(b), before[b] + Count(block[b]))
<1> DEFINE c == block[b]
           first == IF b = frontBlock /\ deqPc = "free"
                      THEN (c.front + 1) % c.cap ELSE c.front
           n == (c.tail + c.cap - first) % c.cap
           lo == before[b]
           tk == Taken(b)
<1>1. /\ BlockOK(c) /\ Holds(c, lo, tk, Extra(b)) /\ lo \in Nat
      /\ tk \in {0, 1} /\ tk <= Count(c) /\ Count(c) \in Nat
  BY TakenBounds
<1>2. /\ c.cap \in Nat /\ c.cap >= 2 /\ c.front \in Nat /\ c.front < c.cap
      /\ c.tail \in Nat /\ c.tail < c.cap
      /\ Count(c) = Dist(c.cap, c.front, c.tail) /\ Count(c) < c.cap
  BY <1>1, BlockFields, CountBounds DEF BlockOK, Count
<1>3. Unread(b) = [i \in 1 .. n |-> c.data[(first + i - 1) % c.cap]]
  BY DEF Unread, Succ
<1>4. /\ first \in Nat /\ first < c.cap
      /\ first = IF c.front + tk < c.cap THEN c.front + tk
                                         ELSE c.front + tk - c.cap
  <2>1. (c.front + 1) % c.cap = IF c.front + 1 < c.cap THEN c.front + 1
                                ELSE c.front + 1 - c.cap
    BY <1>2, SlotAfter
  <2> QED  BY <1>2, <2>1 DEF Taken
<1> HIDE DEF first
<1>5. n = Count(c) - tk
  <2>1. n = Dist(c.cap, first, c.tail)
    BY <1>2, <1>4, SlotsBetween
  <2> QED  BY <1>1, <1>2, <1>4, <2>1 DEF Dist
<1> HIDE DEF n, tk
<1>6. ASSUME NEW i \in 1 .. n
      PROVE  c.data[(first + i - 1) % c.cap] = lo + tk + i
  <2> DEFINE j == (first + i - 1) % c.cap
  <2>1. j = IF first + (i - 1) < c.cap THEN first + (i - 1)
                                       ELSE first + (i - 1) - c.cap
    <3>1. i - 1 \in Nat /\ i - 1 < c.cap /\ first + i - 1 = first + (i - 1)
      BY <1>1, <1>2, <1>4, <1>5
    <3> QED  BY <1>2, <1>4, <3>1
  <2>2. j \in 0 .. c.cap - 1
    BY <1>1, <1>2, <1>4, <1>5, <2>1
  <2> HIDE DEF j
  <2>3. Dist(c.cap, c.front, j) = tk + i - 1
    BY <1>1, <1>2, <1>4, <1>5, <2>1, <2>2 DEF Dist
  <2>4. c.data[j] = LET m == Dist(c.cap, c.front, j) IN
                    IF m < tk THEN 0
                    ELSE IF m < Count(c) THEN lo + 1 + m
                    ELSE IF j = c.tail THEN Extra(b) ELSE 0
    BY <1>1, <2>2 DEF Holds
  <2>5. ~(tk + i - 1 < tk) /\ tk + i - 1 < Count(c)
    BY <1>1, <1>5
  <2>6. c.data[j] = lo + 1 + (tk + i - 1)
    BY <2>3, <2>4, <2>5
  <2>7. lo + 1 + (tk + i - 1) = lo + tk + i
    BY <1>1
  <2> QED  BY <2>6, <2>7 DEF j
<1>7. n = (lo + Count(c)) - (lo + tk)
  BY <1>1, <1>5
<1>8. Unread(b) = [i \in 1 .. n |-> lo + tk + i]
  BY <1>3, <1>6
<1>9. Unread(b) = Nums(lo + tk, lo + Count(c))
  <2>1. Nums(lo + tk, lo + Count(c)) =
           [i \in 1 .. (lo + Count(c)) - (lo + tk) |-> lo + tk + i]
    BY DEF Nums
  <2> QED  BY <1>7, <1>8, <2>1, Zenon
<1> QED  BY <1>9 DEF tk

(* No more was dequeued than was enqueued.                                 *)
LEMMA NotAhead ==
    ASSUME NEW place, NEW before, RingAt(place, before)
    PROVE  got <= sent
<1> DEFINE f == frontBlock
           x == before[f]
           k == Taken(f)
           m == Count(block[f])
<1>1. /\ f \in 1 .. Linked /\ tailBlock \in 1 .. Linked
      /\ got \in Nat /\ sent \in Nat
  BY DEF RingAt, RingTypeOK
<1>2. place[f] = 0 /\ place[tailBlock] \in 0 .. Linked - 1
  BY <1>1 DEF RingAt, Links
<1>3. x + m <= sent
  BY <1>1, <1>2 DEF RingAt, Numbered
<1>4. x \in Nat /\ k \in {0, 1} /\ m \in Nat /\ k <= m
  BY <1>1, TakenBounds
<1>5. x + k = got
  BY <1>1 DEF RingAt, Numbered, First, Taken
<1> HIDE DEF x, k, m
<1> QED  BY <1>1, <1>3, <1>4, <1>5

(* Read from the front block on, up to a block from which on there is      *)
(* nothing, the ring holds the elements that were enqueued and not         *)
(* dequeued, in order.                                                     *)
LEMMA ThroughIs ==
    ASSUME NEW place, NEW before, RingAt(place, before),
           NEW last \in 1 .. Linked, place[tailBlock] <= place[last],
           enqPc = "link" => last = tailBlock,
           \A b \in 1 .. Linked :
              place[tailBlock] < place[b] /\ place[b] <= place[last]
                 => Count(block[b]) = 0
    PROVE  Through(last) = Nums(got, sent)
<1> DEFINE N == Linked
           S == 1 .. Len(block)
           t == tailBlock
           all == Nums(got, sent)
           up(b) == Nums(before[b] + Taken(b), sent)
           g == [b \in S |-> IF b \in 1 .. N /\ place[b] <= place[t] THEN up(b)
                             ELSE IF b \in 1 .. N /\ place[b] <= place[last] THEN <<>>
                             ELSE Unread(b) \o all]
<1>1. /\ N \in Nat /\ N \in S /\ t \in 1 .. N /\ frontBlock \in 1 .. N
      /\ sent \in Nat /\ got \in Nat /\ First \in Nat /\ Len(block) \in Nat
      /\ \A b \in 1 .. N : b \in S
  <2>1. Linked \in 1 .. Len(block) /\ Len(block) \in Nat
    BY RingRange
  <2> QED  BY <2>1 DEF RingAt, RingTypeOK
<1>2. /\ \A b \in 1 .. N : place[b] \in 0 .. N - 1
      /\ \A b, e \in 1 .. N : place[b] = place[e] => b = e
      /\ place[frontBlock] = 0
      /\ \A b \in 1 .. N :
            /\ block[b].next \in 1 .. N
            /\ place[block[b].next] = IF place[b] = N - 1 THEN 0 ELSE place[b] + 1
  BY DEF RingAt, Links
<1>2a. place[t] \in 0 .. N - 1 /\ place[last] \in 0 .. N - 1
  BY <1>1, <1>2
<1>3. /\ before[frontBlock] + Taken(frontBlock) = got
      /\ \A b \in 1 .. N : b # frontBlock => Taken(b) = 0
  BY <1>1 DEF RingAt, Numbered, First, Taken
<1>4. /\ before[t] + Count(block[t]) = sent
      /\ \A b \in 1 .. N :
            /\ place[b] < place[t] =>
                  before[block[b].next] = before[b] + Count(block[b])
            /\ place[b] <= place[t] => before[b] + Count(block[b]) <= sent
            /\ place[b] > place[t] =>
                  Count(block[b]) = IF enqPc = "advance" /\ b = block[t].next
                                      THEN 1 ELSE 0
  BY DEF RingAt, Numbered
<1>5. \A b \in 1 .. N :
         /\ before[b] \in Nat /\ Count(block[b]) \in Nat /\ Taken(b) \in {0, 1}
         /\ Taken(b) <= Count(block[b])
  BY TakenBounds
<1>6. \A b \in 1 .. N :
         Unread(b) = Nums(before[b] + Taken(b), before[b] + Count(block[b]))
  BY UnreadIs
<1>7. ASSUME NEW b \in 1 .. N, Count(block[b]) = 0
      PROVE  Unread(b) = <<>>
  <2>1. Taken(b) = 0 /\ before[b] \in Nat
    BY <1>5, <1>7
  <2>2. Unread(b) = Nums(before[b], before[b])
    BY <1>6, <1>7, <2>1
  <2>3. \A x \in Nat : Nums(x, x) = <<>>
    BY NumsEmpty
  <2> QED  BY <2>1, <2>2, <2>3, Zenon
<1>8. got <= sent
  BY NotAhead
<1>9. all \in Seq(Nat) /\ <<>> \o all = all
  BY <1>1, <1>8, NumsEmpty
<1>10. /\ up(frontBlock) = all
       /\ up(t) = Unread(t)
       /\ up(t) \o <<>> = up(t)
  <2>1. up(frontBlock) = all
    BY <1>3
  <2>2. up(t) = Unread(t)
    BY <1>1, <1>4, <1>6
  <2>3. before[t] + Taken(t) \in Nat /\ before[t] + Taken(t) <= sent
    <3> DEFINE x == before[t]
               k == Taken(t)
               m == Count(block[t])
    <3>1. x \in Nat /\ k \in {0, 1} /\ m \in Nat /\ k <= m /\ x + m = sent
      BY <1>1, <1>4, <1>5
    <3> HIDE DEF x, k, m
    <3>2. x + k \in Nat /\ x + k <= sent
      BY <1>1, <3>1
    <3> QED  BY <3>2 DEF x, k
  <2>4. up(t) \o <<>> = up(t)
    <3>1. \A x \in Nat : x <= sent => Nums(x, sent) \o <<>> = Nums(x, sent)
      BY <1>1, NumsEmpty
    <3> QED  BY <2>3, <3>1
  <2> QED  BY <2>1, <2>2, <2>4
<1>11. ASSUME NEW b \in 1 .. N, place[b] < place[t]
       PROVE  /\ up(b) = Unread(b) \o up(block[b].next)
              /\ place[block[b].next] <= place[t]
  <2> DEFINE n == block[b].next
  <2>1. n \in 1 .. N /\ place[n] = place[b] + 1 /\ place[n] <= place[t]
    <3>1. place[b] \in 0 .. N - 1 /\ place[b] # N - 1
      BY <1>1, <1>2, <1>2a, <1>11
    <3>2. n \in 1 .. N /\ place[n] = place[b] + 1
      BY <1>2, <3>1
    <3> QED  BY <1>1, <1>2a, <1>11, <3>1, <3>2
  <2>2. n # frontBlock
    BY <1>2, <2>1
  <2>3. before[n] = before[b] + Count(block[b]) /\ Taken(n) = 0
    BY <1>3, <1>4, <1>11, <2>1, <2>2
  <2>4. before[b] + Count(block[b]) <= sent
    BY <1>1, <1>2, <1>4, <1>11
  <2> DEFINE x == before[b] + Taken(b)
             y == before[b] + Count(block[b])
  <2>5. x \in Nat /\ y \in Nat /\ x <= y /\ y <= sent
    BY <1>5, <2>4
  <2>6. Unread(b) = Nums(x, y) /\ up(b) = Nums(x, sent)
    BY <1>6
  <2>7. up(n) = Nums(y, sent)
    <3>1. before[n] + Taken(n) = y
      BY <1>5, <2>1, <2>3
    <3> QED  BY <3>1
  <2> HIDE DEF x, y, up
  <2>8. Nums(x, y) \o Nums(y, sent) = Nums(x, sent)
    BY <1>1, <2>5, NumsJoin
  <2> QED  BY <2>1, <2>6, <2>7, <2>8
<1> HIDE DEF up, all
<1>12. \A b \in S : g[b] = IF b \in 1 .. N /\ place[b] <= place[t] THEN up(b)
                           ELSE IF b \in 1 .. N /\ place[b] <= place[last] THEN <<>>
                           ELSE Unread(b) \o all
  OBVIOUS
<1>13. g = [b \in S |-> g[b]]
  OBVIOUS
<1> HIDE DEF g
<1>14. g[frontBlock] = all
  <2>1. place[frontBlock] <= place[t]
    BY <1>1, <1>2
  <2> QED  BY <1>1, <1>10, <1>12, <2>1
(* The blocks beyond lead to the front block with nothing more in them.    *)
<1>15. ASSUME NEW b \in 1 .. N, place[b] > place[last], b # block[t].next
       PROVE  g[b] = all
  <2>1. place[b] > place[t] /\ place[b] \in Int /\ place[t] \in Int
        /\ place[last] \in Int
    BY <1>1, <1>2, <1>15
  <2>2. Count(block[b]) = 0
    BY <1>4, <1>15, <2>1
  <2>3. g[b] = Unread(b) \o all
    <3>1. ~(place[b] <= place[t]) /\ ~(place[b] <= place[last]) /\ b \in S
      BY <1>1, <1>15, <2>1
    <3> QED  BY <1>12, <3>1
  <2> QED  BY <1>7, <1>9, <2>2, <2>3
<1>16. ASSUME NEW b \in S
       PROVE  g[b] = IF b = last THEN Unread(b) ELSE Unread(b) \o g[block[b].next]
  <2>1. CASE b \in 1 .. N /\ place[b] < place[t]
    <3>1. b # last /\ place[b] <= place[t]
      BY <1>1, <1>2, <2>1
    <3>2. block[b].next \in 1 .. N /\ block[b].next \in S
          /\ place[block[b].next] <= place[t]
      BY <1>1, <1>2, <1>11, <2>1
    <3>3. g[block[b].next] = up(block[b].next)
      BY <1>12, <3>2
    <3> QED  BY <1>11, <1>12, <2>1, <3>1, <3>3
  <2>2. CASE b = t
    <3>1. g[b] = up(t)
      BY <1>1, <1>2, <1>12, <2>2
    <3>2. CASE t = last
      BY <1>10, <2>2, <3>1, <3>2
    <3>3. CASE t # last
      <4>1. place[t] < place[last] /\ place[last] \in 0 .. N - 1
            /\ place[t] \in 0 .. N - 1
        <5>1. place[t] # place[last]
          BY <1>1, <1>2, <3>3
        <5> QED  BY <1>1, <1>2a, <5>1
      <4> DEFINE n == block[t].next
      <4>2. n \in 1 .. N /\ n \in S /\ place[n] = place[t] + 1
        BY <1>1, <1>2, <4>1
      <4>3. ~(place[n] <= place[t]) /\ place[n] <= place[last]
        BY <4>1, <4>2
      <4>4. g[n] = <<>>
        BY <1>12, <4>2, <4>3
      <4> QED  BY <1>10, <2>2, <3>1, <3>3, <4>4
    <3> QED  BY <3>2, <3>3
  <2>3. CASE b \in 1 .. N /\ place[t] < place[b] /\ place[b] <= place[last]
    <3>1. Unread(b) = <<>>
      BY <1>7, <2>3
    <3>2. g[b] = <<>>
      <4>1. ~(place[b] <= place[t]) /\ b \in S
        BY <1>1, <1>2, <1>2a, <2>3
      <4> QED  BY <1>12, <2>3, <4>1
    <3>3. CASE b = last
      BY <3>1, <3>2, <3>3
    <3>4. CASE b # last
      <4>1. place[b] # place[last] /\ place[last] \in 0 .. N - 1
            /\ place[b] \in 0 .. N - 1 /\ place[t] \in 0 .. N - 1
        BY <1>1, <1>2, <2>3, <3>4
      <4> DEFINE n == block[b].next
      <4>2. n \in 1 .. N /\ n \in S /\ place[n] = place[b] + 1
        BY <1>1, <1>2, <2>3, <4>1
      <4>3. ~(place[n] <= place[t]) /\ place[n] <= place[last]
        BY <2>3, <4>1, <4>2
      <4>4. g[n] = <<>>
        BY <1>12, <4>2, <4>3
      <4>5. <<>> \o <<>> = <<>>
        OBVIOUS
      <4> QED  BY <3>1, <3>2, <3>4, <4>4, <4>5
    <3> QED  BY <3>3, <3>4
  <2>4. CASE b \in 1 .. N /\ place[b] > place[last]
    <3>1. /\ b # last /\ place[b] \in 0 .. N - 1 /\ place[t] \in 0 .. N - 1
          /\ place[last] \in 0 .. N - 1 /\ place[b] > place[t]
      BY <1>1, <1>2, <2>4
    <3>2. g[b] = Unread(b) \o all
      <4>1. ~(place[b] <= place[t]) /\ ~(place[b] <= place[last]) /\ b \in S
        BY <1>1, <2>4, <3>1
      <4> QED  BY <1>12, <4>1
    <3> DEFINE n == block[b].next
    <3>3. n \in 1 .. N /\ place[n] = IF place[b] = N - 1 THEN 0 ELSE place[b] + 1
      BY <1>2, <2>4
    <3>4. CASE place[n] = 0
      <4>1. n = frontBlock
        BY <1>1, <1>2, <3>3, <3>4
      <4> QED  BY <1>14, <3>1, <3>2, <4>1
    <3>5. CASE place[n] # 0
      <4>1. place[n] > place[last] /\ place[n] > place[t] + 1
        BY <2>4, <3>1, <3>3, <3>5
      <4>2. n # block[t].next
        <5>1. block[t].next \in 1 .. N
              /\ place[block[t].next] = IF place[t] = N - 1 THEN 0 ELSE place[t] + 1
          BY <1>1, <1>2
        <5>2. place[n] \in 0 .. N - 1
          BY <1>2, <3>3
        <5> QED  BY <1>2a, <4>1, <5>1, <5>2
      <4>3. g[n] = all
        BY <1>15, <3>3, <4>1, <4>2
      <4> QED  BY <3>1, <3>2, <4>3
    <3> QED  BY <3>4, <3>5
  <2>5. CASE b \notin 1 .. N
    <3>1. enqPc = "link" /\ b = Len(block) /\ N = Len(block) - 1
      BY <1>1, <2>5 DEF Linked
    <3> DEFINE n == block[b].next
    <3>2. n = block[t].next
      BY <3>1 DEF RingAt, NewBlock
    <3>3. g[b] = Unread(b) \o all /\ b # last
      BY <1>12, <2>5
    <3>4. n \in 1 .. N /\ place[n] = IF place[t] = N - 1 THEN 0 ELSE place[t] + 1
      BY <1>1, <1>2, <3>2
    <3>5. CASE place[n] = 0
      <4>1. n = frontBlock
        BY <1>1, <1>2, <3>4, <3>5
      <4> QED  BY <1>14, <3>3, <4>1
    <3>6. CASE place[n] # 0
      <4>1. place[n] = place[t] + 1 /\ last = t /\ n \in S
        BY <1>1, <3>1, <3>4, <3>6
      <4>2. ~(place[n] <= place[t]) /\ place[n] > place[t]
        BY <1>2a, <4>1
      <4>3. Count(block[n]) = 0
        BY <1>4, <3>1, <3>4, <4>2
      <4>4. g[n] = Unread(n) \o all
        BY <1>12, <4>1, <4>2
      <4>5. g[n] = all
        BY <1>7, <1>9, <3>4, <4>3, <4>4
      <4> QED  BY <3>3, <4>5
    <3> QED  BY <3>5, <3>6
  <2>6. CASE b \in 1 .. N
    <3>1. place[b] \in 0 .. N - 1 /\ (place[b] = place[t] => b = t)
      BY <1>1, <1>2, <2>6
    <3>2. \/ place[b] < place[t] \/ place[b] = place[t]
          \/ place[t] < place[b] /\ place[b] <= place[last]
          \/ place[b] > place[last]
      BY <1>2a, <3>1
    <3> QED  BY <2>1, <2>2, <2>3, <2>4, <2>6, <3>1, <3>2
  <2> QED  BY <2>5, <2>6
(* This is what the recursion computes, from the last block back to the    *)
(* front block.                                                            *)
<1> DEFINE from == CHOOSE f : f = [b \in S |-> IF b = last THEN Unread(b)
                                              ELSE Unread(b) \o f[block[b].next]]
<1>17. from = [b \in S |-> IF b = last THEN Unread(b)
                          ELSE Unread(b) \o from[block[b].next]]
  <2>1. [b \in S |-> g[b]] = [b \in S |-> IF b = last THEN Unread(b)
                                           ELSE Unread(b) \o g[block[b].next]]
    BY <1>16, Zenon
  <2>2. g = [b \in S |-> IF b = last THEN Unread(b)
                         ELSE Unread(b) \o g[block[b].next]]
    BY <1>13, <2>1, Zenon
  <2> HIDE DEF S, N
  <2> QED  BY <2>2, Zenon DEF from
<1>18. Through(last) = from[frontBlock]
  BY Zenon DEF Through
<1> HIDE DEF from
<1>19. \A b \in S : from[b] = IF b = last THEN Unread(b)
                                ELSE Unread(b) \o from[block[b].next]
  BY <1>17, Zenon
<1> DEFINE D == {k \in Nat : \E b \in 1 .. N :
                    /\ place[b] <= place[last] /\ k = place[last] - place[b]
                    /\ from[b] # g[b]}
<1>20. D = {}
  <2> SUFFICES ASSUME D # {} PROVE FALSE
    OBVIOUS
  <2>1. D \in SUBSET Nat
    OBVIOUS
  <2>2. PICK k \in D : \A m \in D : k <= m
    BY <2>1, LeastNumber
  <2>3. PICK b \in 1 .. N : /\ place[b] <= place[last] /\ k = place[last] - place[b]
                            /\ from[b] # g[b]
    BY <2>2
  <2>4. b \in S /\ place[b] \in 0 .. N - 1
    BY <1>1, <1>2, <2>3
  <2>5. b # last
    BY <1>16, <1>19, <2>3, <2>4
  <2> DEFINE n == block[b].next
  <2>6. from[n] # g[n]
    BY <1>16, <1>19, <2>3, <2>4, <2>5
  <2>7. place[b] < place[last]
    BY <1>2, <1>2a, <2>3, <2>4, <2>5
  <2>8. n \in 1 .. N /\ place[n] = place[b] + 1
    BY <1>1, <1>2, <1>2a, <2>3, <2>4, <2>7
  <2>9. place[last] - place[n] \in Nat /\ place[n] <= place[last]
        /\ place[last] - place[n] < k
    <3> DEFINE x == place[b]
               y == place[n]
               z == place[last]
    <3>1. /\ x \in 0 .. N - 1 /\ z \in 0 .. N - 1 /\ y = x + 1 /\ x < z
          /\ k = z - x
      BY <1>2a, <2>3, <2>4, <2>7, <2>8
    <3> HIDE DEF x, y, z, n
    <3>2. z - y \in Nat /\ y <= z /\ z - y < k
      BY <1>1, <3>1
    <3> QED  BY <3>2 DEF y, z
  <2>10. place[last] - place[n] \in D
    BY <2>6, <2>8, <2>9
  <2> QED  BY <1>2a, <2>1, <2>2, <2>9, <2>10
<1>21. place[last] - place[frontBlock] \in Nat
       /\ place[frontBlock] <= place[last]
  BY <1>2, <1>2a
<1>22. from[frontBlock] = g[frontBlock]
  BY <1>1, <1>20, <1>21
<1> QED  BY <1>14, <1>18, <1>22 DEF all

(* What the ring holds is what was enqueued and is not dequeued.           *)
LEMMA ContentsIs ==
    ASSUME NEW place, NEW before, RingAt(place, before)
    PROVE  Contents = Nums(got, sent)
<1>1. tailBlock \in 1 .. Linked
  BY DEF RingAt, RingTypeOK
<1>2. place[tailBlock] \in 0 .. Linked - 1
  BY <1>1 DEF RingAt, Links
<1>3. place[tailBlock] <= place[tailBlock]
      /\ \A b \in 1 .. Linked : place[b] \in 0 .. Linked - 1
  BY <1>1, <1>2 DEF RingAt, Links
<1>4. \A b \in 1 .. Linked :
         ~ (place[tailBlock] < place[b] /\ place[b] <= place[tailBlock])
  BY <1>2, <1>3
<1>5. Through(tailBlock) = Nums(got, sent)
  BY <1>1, <1>3, <1>4, ThroughIs
<1> QED  BY <1>5 DEF Contents

(* Every place in the ring is taken.                                       *)
LEMMA PlacesTaken ==
    ASSUME NEW place, Links(place), Linked \in Nat, frontBlock \in 1 .. Linked,
           NEW k \in 0 .. Linked - 1
    PROVE  \E b \in 1 .. Linked : place[b] = k
<1> DEFINE D == {i \in Nat : i <= Linked - 1
                               /\ \A b \in 1 .. Linked : place[b] # i}
<1>1. /\ place[frontBlock] = 0
      /\ \A b \in 1 .. Linked :
            /\ block[b].next \in 1 .. Linked
            /\ place[block[b].next] = IF place[b] = Linked - 1 THEN 0
                                                               ELSE place[b] + 1
  BY DEF Links
<1> SUFFICES ASSUME D # {} PROVE FALSE
  OBVIOUS
<1>2. D \in SUBSET Nat
  OBVIOUS
<1>3. PICK i \in D : \A j \in D : i <= j
  BY <1>2, LeastNumber
<1>4. i \in Nat /\ i <= Linked - 1 /\ i # 0
  BY <1>1, <1>3
<1>5. i - 1 \in Nat /\ i - 1 <= Linked - 1 /\ i - 1 \notin D
  BY <1>2, <1>3, <1>4
<1>6. PICK b \in 1 .. Linked : place[b] = i - 1
  BY <1>5
<1>7. place[b] # Linked - 1 /\ place[b] + 1 = i
  BY <1>4, <1>6
<1>8. place[block[b].next] = i /\ block[b].next \in 1 .. Linked
  BY <1>1, <1>7
<1> QED  BY <1>3, <1>8

(* With both threads done, the destructor finds the same: the blocks       *)
(* beyond the tail block are empty.                                        *)
LEMMA DestroyedIs ==
    ASSUME NEW place, NEW before, RingAt(place, before),
           enqPc = "idle", deqPc = "idle"
    PROVE  Destroyed = Nums(got, sent)
<1>1. /\ Linked = Len(block) /\ Linked \in Nat /\ tailBlock \in 1 .. Linked
      /\ frontBlock \in 1 .. Linked
  BY RingRange DEF RingAt, RingTypeOK, Linked
<1>2. /\ \A b \in 1 .. Linked : place[b] \in 0 .. Linked - 1
      /\ \A b, e \in 1 .. Linked : place[b] = place[e] => b = e
      /\ place[frontBlock] = 0
      /\ \A b \in 1 .. Linked :
            /\ block[b].next \in 1 .. Linked
            /\ place[block[b].next] = IF place[b] = Linked - 1 THEN 0
                                                               ELSE place[b] + 1
  BY DEF RingAt, Links
<1> DEFINE last == CHOOSE b \in 1 .. Len(block) : block[b].next = frontBlock
<1>3. \E b \in 1 .. Len(block) : block[b].next = frontBlock
  <2>1. Linked - 1 \in 0 .. Linked - 1 /\ Links(place)
    BY <1>1 DEF RingAt
  <2>2. PICK b \in 1 .. Linked : place[b] = Linked - 1
    BY <1>1, <2>1, PlacesTaken
  <2>3. place[block[b].next] = 0 /\ block[b].next \in 1 .. Linked
    BY <1>2, <2>2
  <2> QED  BY <1>1, <1>2, <2>3
<1>4. last \in 1 .. Len(block) /\ block[last].next = frontBlock
  BY <1>3
<1> HIDE DEF last
<1>5. place[last] = Linked - 1
  <2>1. place[last] \in 0 .. Linked - 1 /\ place[block[last].next] = 0
    BY <1>1, <1>2, <1>4
  <2> QED  BY <1>1, <1>2, <1>4, <2>1
<1>6. place[tailBlock] \in 0 .. Linked - 1
  BY <1>1, <1>2
<1>7. \A b \in 1 .. Linked :
         place[tailBlock] < place[b] => Count(block[b]) = 0
  <2>1. \A b \in 1 .. Linked :
           place[b] > place[tailBlock] =>
                Count(block[b]) = IF enqPc = "advance" /\ b = block[tailBlock].next
                                    THEN 1 ELSE 0
    BY DEF RingAt, Numbered
  <2>2. \A b \in 1 .. Linked : place[b] \in 0 .. Linked - 1
    BY <1>2
  <2> QED  BY <1>6, <2>1, <2>2
<1>8. Through(last) = Nums(got, sent)
  BY <1>1, <1>4, <1>5, <1>6, <1>7, ThroughIs
<1> QED  BY <1>8 DEF Destroyed, last

(* The consumer looks: where it finds no element in the block it shares    *)
(* with the producer, there is none.                                       *)
LEMMA DeqLookKeeps ==
    ASSUME NEW place, NEW before, RingAt(place, before),
           NEW peek, DeqLook(peek)
    PROVE  RingAt(place, before)'
<1> DEFINE f == frontBlock
           c == block[f]
<1>1. /\ deqPc = "idle"
      /\ UNCHANGED <<size, frontBlock, tailBlock, largest, got, producer>>
      /\ got' = got /\ peeked' = peeked /\ wasEmpty' = (Contents = <<>>)
      /\ frontBlock' = frontBlock /\ tailBlock' = tailBlock /\ sent' = sent
      /\ size' = size /\ largest' = largest
  BY DEF DeqLook, producer
<1>2. /\ f \in 1 .. Len(block) /\ f \in 1 .. Linked /\ BlockOK(c)
      /\ sent \in Nat /\ got \in Nat
  BY RingRange DEF RingAt, RingTypeOK
<1>3. (f = tailBlock /\ Count(c) = 0) => Contents = <<>>
  <2> SUFFICES ASSUME f = tailBlock, Count(c) = 0
               PROVE  Contents = <<>>
    OBVIOUS
  <2> DEFINE x == before[f]
  <2>1. x + 0 = sent /\ x = got /\ x \in Nat
    BY <1>1, <1>2 DEF RingAt, Numbered, First
  <2>2. sent = got
    BY <2>1
  <2>3. Contents = Nums(got, got)
    BY <2>2, ContentsIs
  <2> QED  BY <1>2, <2>3, NumsEmpty
<1>4. CASE c.front # c.localTail /\ deqPc' = "take" /\ block' = block
  <2>1. ConsumerAt'
    BY <1>1, <1>4 DEF RingAt, ConsumerAt
  <2>2. UNCHANGED <<ring, producer>>
    BY <1>1, <1>4 DEF ring
  <2> QED  BY <1>1, <1>4, <2>1, <2>2, StillKeeps
<1>5. CASE /\ block' = [block EXCEPT ![f].localTail = c.tail]
           /\ deqPc' = IF c.front # c.tail THEN "take" ELSE "last"
  <2>1. /\ RingTypeOK' /\ Links(place)' /\ Numbered(place, before)'
        /\ SlotsHold(before)' /\ NewBlock' /\ ProducerAt'
        /\ Count(block'[f]) = Count(c)
        /\ block'[f].front = c.front
        /\ block'[f].localTail = c.tail
    BY <1>1, <1>2, <1>5, SeenTailKeeps
  <2>2. c.front = c.tail => Count(c) = 0
    BY <1>2, CountBounds
  <2>3. deqPc' = "last" => wasEmpty' \/ f # tailBlock
    BY <1>1, <1>3, <1>5, <2>2
  <2>4. ConsumerAt'
    BY <1>1, <1>5, <2>1, <2>3 DEF RingAt, ConsumerAt
  <2> QED  BY <2>1, <2>4 DEF RingAt
<1> QED  BY <1>4, <1>5 DEF DeqLook, NonEmpty
-----------------------------------------------------------------------------
(* The blocks that the constructor makes.                                  *)
LEMMA InitialBlocksAre ==
    ASSUME NEW n \in Nat, n # 0, MaxBlockSize \in Nat, MaxBlockSize >= 2
    PROVE  /\ InitialBlocks(n).count \in Nat \ {0}
           /\ InitialBlocks(n).cap \in Nat /\ InitialBlocks(n).cap >= 2
<1> DEFINE p == CeilToPow2(n + 1)
           M == MaxBlockSize
           q == (n + M * 2 - 3) \div (M - 1)
<1>1. p \in Nat /\ p >= n + 1
  BY CeilRoundsUp
<1>2. InitialBlocks(n) = IF p > M * 2 THEN [count |-> q, cap |-> M]
                                      ELSE [count |-> 1, cap |-> p]
  BY DEF InitialBlocks
<1>3. q \in Nat \ {0}
  <2> DEFINE a == n + M * 2 - 3
             b == M - 1
  <2>1. a \in Nat /\ b \in Nat /\ b > 0 /\ a >= b
    OBVIOUS
  <2>2. q = a \div b
    OBVIOUS
  <2> HIDE DEF a, b, q
  <2>3. a \div b \in Int /\ b * (a \div b) <= a /\ a < b * ((a \div b) + 1)
    BY <2>1
  <2> QED  BY <2>1, <2>2, <2>3
<1> HIDE DEF p, q
<1>4. CASE p > M * 2
  BY <1>2, <1>3, <1>4
<1>5. CASE ~ (p > M * 2)
  BY <1>1, <1>2, <1>5
<1> QED  BY <1>4, <1>5

(* They are linked to a ring, empty, with both threads in the first.       *)
LEMMA InitEstablishes ==
    ASSUME MaxBlockSize \in Nat, MaxBlockSize >= 2, Sizes \subseteq Nat \ {0},
           RingInit
    PROVE  RingInv
<1> DEFINE n == InitialBlocks(size).count
           cap == InitialBlocks(size).cap
           to(b) == IF b = n THEN 1 ELSE b + 1
           place == [b \in 1 .. n |-> b - 1]
           before == [b \in 1 .. n |-> 0]
<1>1. /\ frontBlock = 1 /\ tailBlock = 1 /\ enqPc = "idle" /\ deqPc = "idle"
      /\ sent = 0 /\ got = 0 /\ peeked = 0 /\ largest = cap
      /\ block = [b \in 1 .. n |-> Block(cap, to(b))]
      /\ size \in Nat \ {0}
  BY DEF RingInit
<1>2. n \in Nat \ {0} /\ cap \in Nat /\ cap >= 2
  BY <1>1, InitialBlocksAre
<1> HIDE DEF n, cap
<1>3. \A b \in 1 .. n : to(b) \in 1 .. n
  BY <1>2
<1>4. ASSUME NEW b \in 1 .. n
      PROVE  /\ BlockOK(block[b]) /\ Count(block[b]) = 0
             /\ block[b].next = to(b) /\ block[b].cap = cap
             /\ block[b].front = 0 /\ block[b].localTail = 0
             /\ Holds(block[b], 0, 0, 0)
             /\ block[b] \in Blocks
  <2>1. block[b] = Block(cap, to(b)) /\ to(b) \in Nat
    BY <1>1, <1>3
  <2> HIDE DEF to
  <2> QED  BY <1>2, <2>1, BlockMade DEF BlockOK
<1>5. block \in Seq(Blocks) /\ Len(block) = n
  <2>1. block = [b \in 1 .. n |-> block[b]]
    BY <1>1, Zenon
  <2>2. \A b \in 1 .. n : block[b] \in Blocks
    BY <1>4
  <2>3. block \in [1 .. n -> Blocks]
    BY <2>1, <2>2, Zenon
  <2>4. n \in Nat
    BY <1>2
  <2> QED  BY <2>3, <2>4
<1>6. Linked = n /\ First = 0 /\ \A b : Taken(b) = 0 /\ Extra(b) = 0
  BY <1>1, <1>5 DEF Linked, First, Taken, Extra, Filled
<1>7. RingTypeOK
  BY <1>1, <1>2, <1>4, <1>5, <1>6 DEF RingTypeOK
<1>8. /\ place \in [1 .. n -> 0 .. n - 1] /\ before \in [1 .. n -> Nat]
      /\ \A b \in 1 .. n : place[b] = b - 1 /\ before[b] = 0
  BY <1>2
<1> HIDE DEF place, before
<1>9. Links(place)
  <2>1. \A b \in 1 .. n :
           place[to(b)] = IF place[b] = n - 1 THEN 0 ELSE place[b] + 1
    BY <1>2, <1>3, <1>8
  <2> HIDE DEF to
  <2>2. \A b \in 1 .. n :
          /\ block[b].next \in 1 .. n
          /\ place[block[b].next] = IF place[b] = n - 1 THEN 0 ELSE place[b] + 1
    BY <1>3, <1>4, <2>1
  <2>3. \A b, c \in 1 .. n : place[b] = place[c] => b = c
    BY <1>2, <1>8
  <2>4. place[1] = 0
    BY <1>2, <1>8
  <2> QED  BY <1>1, <1>6, <1>8, <2>2, <2>3, <2>4 DEF Links
<1>10. Numbered(place, before)
  <2>1. place[1] = 0 /\ before[1] = 0 /\ Count(block[1]) = 0
    BY <1>2, <1>4, <1>8
  <2>2. \A b \in 1 .. n : /\ ~(place[b] < 0) /\ (place[b] <= 0 => b = 1)
                          /\ before[b] + Count(block[b]) <= 0
                          /\ Count(block[b]) = 0
    BY <1>2, <1>4, <1>8
  <2> QED  BY <1>1, <1>6, <1>8, <2>1, <2>2 DEF Numbered
<1>11. SlotsHold(before)
  BY <1>4, <1>6, <1>8 DEF SlotsHold
<1>12. NewBlock /\ ProducerAt /\ ConsumerAt
  BY <1>1 DEF NewBlock, ProducerAt, ConsumerAt
<1> QED  BY <1>7, <1>9, <1>10, <1>11, <1>12 DEF RingInv, RingAt
-----------------------------------------------------------------------------
(* What a step does to the queue: the producer adds an element, the        *)
(* consumer takes one that is there, or the queue is as before.            *)
Moves ==
    \/ /\ enqPc \in {"publish", "advance"} /\ enqPc' = "enqueued"
       /\ sent' = sent + 1 /\ got' = got
    \/ /\ deqPc = "take" /\ deqPc' = "free"
       /\ got < sent /\ got' = got + 1 /\ sent' = sent
    \/ /\ deqPc' = "free" => deqPc = "free"
       /\ sent' = sent /\ got' = got

(* The steps of the producer ...                                           *)
LEMMA ProducerKeeps ==
    ASSUME NEW place, NEW before, RingAt(place, before), ReaderWriterQueueAssumption,
           (\E alloc \in BOOLEAN : EnqRoom(alloc)) \/ Enqueuing \/ EnqReturn
    PROVE  RingInv' /\ Moves
<1> USE DEF ReaderWriterQueueAssumption
<1>1. CASE \E alloc \in BOOLEAN : EnqRoom(alloc)
  <2>1. RingAt(place, before)'
    BY <1>1, EnqRoomKeeps
  <2> QED  BY <1>1, <2>1 DEF RingInv, Moves, EnqRoom, consumer
<1>2. CASE EnqWrite
  <2>1. RingAt(place, before)'
    BY <1>2, EnqWriteKeeps
  <2> QED  BY <1>2, <2>1 DEF RingInv, Moves, EnqWrite, consumer
<1>3. CASE EnqPublish
  <2>1. RingAt(place, before)'
    BY <1>3, EnqPublishKeeps
  <2> QED  BY <1>3, <2>1 DEF RingInv, Moves, EnqPublish, consumer
<1>4. CASE EnqFull
  <2>1. RingAt(place, before)'
    BY <1>4, EnqFullKeeps
  <2> QED  BY <1>4, <2>1 DEF RingInv, Moves, EnqFull, consumer
<1>5. CASE EnqNext
  <2>1. RingAt(place, before)'
    BY <1>5, EnqNextKeeps
  <2> QED  BY <1>5, <2>1 DEF RingInv, Moves, EnqNext, consumer
<1>6. CASE EnqFill
  <2>1. RingAt(place, before)'
    BY <1>6, EnqFillKeeps
  <2> QED  BY <1>6, <2>1 DEF RingInv, Moves, EnqFill, consumer
<1>7. CASE EnqBump
  <2>1. RingInv'
    BY <1>7, EnqBumpKeeps DEF RingInv
  <2> QED  BY <1>7, <2>1 DEF Moves, EnqBump, consumer
<1>8. CASE EnqGrow
  <2>1. RingAt(place, before)'
    BY <1>8, EnqGrowKeeps
  <2> QED  BY <1>8, <2>1 DEF RingInv, Moves, EnqGrow, consumer
<1>9. CASE EnqLink
  <2>1. RingInv'
    BY <1>9, EnqLinkKeeps DEF RingInv
  <2> QED  BY <1>9, <2>1 DEF Moves, EnqLink, consumer
<1>10. CASE EnqAdvance
  <2>1. RingAt(place, before)'
    BY <1>10, EnqAdvanceKeeps
  <2> QED  BY <1>10, <2>1 DEF RingInv, Moves, EnqAdvance, consumer
<1>11. CASE EnqReturn
  <2>1. RingAt(place, before)'
    BY <1>11, EnqReturnKeeps
  <2> QED  BY <1>11, <2>1 DEF RingInv, Moves, EnqReturn, consumer
<1> QED
  BY <1>1, <1>2, <1>3, <1>4, <1>5, <1>6, <1>7, <1>8, <1>9, <1>10, <1>11
  DEF Enqueuing

(* ... those of the consumer ...                                           *)
LEMMA ConsumerKeeps ==
    ASSUME NEW place, NEW before, RingAt(place, before),
           (\E peek \in BOOLEAN : DeqLook(peek)) \/ Dequeuing \/ DeqReturn
    PROVE  RingInv' /\ Moves
<1>1. CASE \E peek \in BOOLEAN : DeqLook(peek)
  <2>1. RingAt(place, before)'
    BY <1>1, DeqLookKeeps
  <2> QED  BY <1>1, <2>1 DEF RingInv, Moves, DeqLook, producer
<1>2. CASE DeqLast
  <2>1. RingAt(place, before)'
    BY <1>2, DeqLastKeeps
  <2> QED  BY <1>2, <2>1 DEF RingInv, Moves, DeqLast, producer
<1>3. CASE DeqAgain
  <2>1. RingAt(place, before)'
    BY <1>3, DeqAgainKeeps
  <2> QED  BY <1>3, <2>1 DEF RingInv, Moves, DeqAgain, producer
<1>4. CASE DeqAhead
  <2>1. RingAt(place, before)'
    BY <1>4, DeqAheadKeeps
  <2> QED  BY <1>4, <2>1 DEF RingInv, Moves, DeqAhead, producer
<1>5. CASE DeqPeek
  <2>1. RingAt(place, before)'
    BY <1>5, DeqPeekKeeps
  <2> QED  BY <1>5, <2>1 DEF RingInv, Moves, DeqPeek, producer
<1>6. CASE DeqMove
  <2>1. RingInv'
    BY <1>6, DeqMoveKeeps DEF RingInv
  <2> QED  BY <1>6, <2>1 DEF Moves, DeqMove, producer
<1>7. CASE DeqTake
  <2>1. RingAt(place, before)' /\ got' = got + 1 /\ got < sent
    BY <1>7, DeqTakeKeeps
  <2> QED  BY <1>7, <2>1 DEF RingInv, Moves, DeqTake, producer
<1>8. CASE DeqFree
  <2>1. RingInv'
    BY <1>8, DeqFreeKeeps DEF RingInv
  <2> QED  BY <1>8, <2>1 DEF Moves, DeqFree, producer
<1>9. CASE DeqShow
  <2>1. RingAt(place, before)'
    BY <1>9, DeqShowKeeps
  <2> QED  BY <1>9, <2>1 DEF RingInv, Moves, DeqShow, producer
<1>10. CASE DeqReturn
  <2>1. RingAt(place, before)'
    BY <1>10, DeqReturnKeeps
  <2> QED  BY <1>10, <2>1 DEF RingInv, Moves, DeqReturn, producer
<1> QED
  BY <1>1, <1>2, <1>3, <1>4, <1>5, <1>6, <1>7, <1>8, <1>9, <1>10
  DEF Dequeuing

(* ... and those of size_approx, which only reads.                         *)
LEMMA StepKeeps ==
    ASSUME RingInv, ReaderWriterQueueAssumption, [RingNext]_rwq
    PROVE  RingInv' /\ Moves
<1>1. PICK place, before : RingAt(place, before)
  BY DEF RingInv
<1>2. CASE Sizing \/ UNCHANGED rwq
  <2>1. UNCHANGED <<ring, enqPc, sent, deqPc, got, ahead, peeked, wasEmpty>>
    BY <1>2 DEF Sizing, rwq, ring, producer, consumer
  <2>2. RingAt(place, before)'
    BY <1>1, <2>1, SizingKeeps
  <2> QED  BY <2>1, <2>2 DEF RingInv, Moves
<1> QED  BY <1>1, <1>2, ProducerKeeps, ConsumerKeeps DEF RingNext
-----------------------------------------------------------------------------
(* The slot behind the elements is empty, unless it is just being filled.  *)
LEMMA TailSlotFree ==
    ASSUME NEW place, NEW before, RingAt(place, before), NEW b \in 1 .. Linked,
           ~ Filled(b)
    PROVE  block[b].data[block[b].tail] = 0
<1> DEFINE c == block[b]
           d == [c EXCEPT !.data[c.tail] = 0]
<1>1. /\ BlockOK(c) /\ Taken(b) \in {0, 1} /\ Taken(b) <= Count(c)
      /\ before[b] \in Nat /\ Holds(c, before[b], Taken(b), 0)
  <2>1. Extra(b) = 0
    BY DEF Extra
  <2> QED  BY <2>1, TakenBounds
<1> QED  BY <1>1, BlockFilled

(* The elements in the queue are those from got to sent.                   *)
LEMMA GotSent ==
    ASSUME RingInv
    PROVE  got \in Nat /\ sent \in Nat /\ got <= sent /\ Contents = Nums(got, sent)
<1>1. PICK place, before : RingAt(place, before)
  BY DEF RingInv
<1>2. Contents = Nums(got, sent) /\ got \in Nat /\ sent \in Nat
  BY <1>1, ContentsIs DEF RingAt, RingTypeOK
<1>3. got <= sent
  BY <1>1, NotAhead
<1> QED  BY <1>2, <1>3

(* What the runs check follows from the invariant.                         *)
LEMMA InvIsExact == ASSUME RingInv PROVE Exact
<1>1. PICK place, before : RingAt(place, before)
  BY DEF RingInv
<1>2. Contents = [i \in 1 .. sent - got |-> got + i]
  BY <1>1, ContentsIs DEF Nums
<1>3. ASSUME enqPc = "idle", deqPc = "idle" PROVE Destroyed = Contents
  BY <1>1, <1>3, ContentsIs, DestroyedIs
<1>4. ASSUME enqPc = "write"
      PROVE  block[tailBlock].data[block[tailBlock].tail] = 0
  <2>1. tailBlock \in 1 .. Linked /\ ~ Filled(tailBlock)
    BY <1>1, <1>4 DEF RingAt, RingTypeOK, Filled
  <2> QED  BY <1>1, <2>1, TailSlotFree
<1>5. ASSUME enqPc = "fill"
      PROVE  LET b == block[tailBlock].next IN block[b].data[block[b].tail] = 0
  <2>1. block[tailBlock].next \in 1 .. Linked
    BY <1>1, <1>5, NextFree
  <2>2. ~ Filled(block[tailBlock].next)
    BY <1>5 DEF Filled
  <2> QED  BY <1>1, <2>1, <2>2, TailSlotFree
<1> QED  BY <1>2, <1>3, <1>4, <1>5 DEF Exact

(* The assertions in the code follow from where the two threads are.       *)
LEMMA InvIsAsserted == ASSUME RingInv PROVE Asserted
<1>1. PICK place, before : RingAt(place, before)
  BY DEF RingInv
<1>2. ASSUME enqPc = "fill"
      PROVE  LET b == block[tailBlock].next IN block[b].localFront = block[b].tail
  <2> DEFINE c == block[block[tailBlock].next]
  <2>1. block[tailBlock].next \in 1 .. Linked /\ Count(c) = 0
    BY <1>1, <1>2, NextFree
  <2>2. BlockOK(c)
    BY <1>1, <2>1, TakenBounds
  <2>3. c.localFront = c.front
    BY <1>1, <1>2 DEF RingAt, ProducerAt
  <2> QED  BY <2>1, <2>2, <2>3, CountBounds
<1>3. ASSUME deqPc = "move" PROVE block[ahead].front # block[ahead].localTail
  BY <1>1, <1>3 DEF RingAt, ConsumerAt
<1>4. ASSUME deqPc = "show" PROVE NonEmpty(ahead)
  <2>1. /\ ahead = block[frontBlock].next /\ frontBlock # tailBlock
        /\ Count(block[frontBlock]) = 0
    BY <1>1, <1>4 DEF RingAt, ConsumerAt
  <2>2. ahead \in 1 .. Linked /\ Count(block[ahead]) > 0
    BY <1>1, <2>1, AheadFull
  <2>3. BlockOK(block[ahead])
    BY <1>1, <2>2, TakenBounds
  <2> QED  BY <2>2, <2>3, CountBounds DEF NonEmpty
<1> QED  BY <1>2, <1>3, <1>4 DEF Asserted

(* What the consumer does not find was not there when it looked.           *)
LEMMA InvIsFalseOnlyIfEmpty == ASSUME RingInv PROVE FalseOnlyIfEmpty
  BY DEF RingInv, RingAt, ConsumerAt, FalseOnlyIfEmpty

(* What was shown is the first of the elements in the queue.               *)
LEMMA InvIsPeekIsNext == ASSUME RingInv PROVE PeekIsNext
<1> SUFFICES ASSUME peeked # 0 PROVE Contents # <<>> /\ peeked = Head(Contents)
  BY DEF PeekIsNext
<1>1. peeked = got + 1 /\ got < sent
  BY DEF RingInv, RingAt, ConsumerAt
<1>2. got \in Nat /\ sent \in Nat /\ Contents = Nums(got, sent)
  BY GotSent
<1> QED  BY <1>1, <1>2, NumsStep
-----------------------------------------------------------------------------
(* The invariant holds throughout.  A queue for no element at all is left  *)
(* out: its one slot is never free, and what goes in is lost.              *)
THEOREM RingHolds ==
    ASSUME 0 \notin Sizes
    PROVE  RingSpec => []RingInv
<1>1. RingInit => RingInv
  BY InitEstablishes, ReaderWriterQueueAssumption DEF ReaderWriterQueueAssumption
<1>2. RingInv /\ [RingNext]_rwq => RingInv'
  BY StepKeeps, ReaderWriterQueueAssumption
<1> QED  BY <1>1, <1>2, PTL DEF RingSpec

(* The queue holds what was enqueued and is not dequeued, in order and     *)
(* without gap, no slot in use is written, and the destructor finds what   *)
(* is left: for every size, block size and interleaving.                   *)
THEOREM QueueExact ==
    ASSUME 0 \notin Sizes
    PROVE  RingSpec => []Exact
  BY RingHolds, InvIsExact, PTL

(* The assertions of inner_enqueue, try_dequeue and peek hold.             *)
THEOREM QueueAsserted ==
    ASSUME 0 \notin Sizes
    PROVE  RingSpec => []Asserted
  BY RingHolds, InvIsAsserted, PTL

(* try_dequeue, pop and peek return false only if the queue was empty when *)
(* they began.                                                             *)
THEOREM QueueFalseOnlyIfEmpty ==
    ASSUME 0 \notin Sizes
    PROVE  RingSpec => []FalseOnlyIfEmpty
  BY RingHolds, InvIsFalseOnlyIfEmpty, PTL

(* What peek has shown is the next to be dequeued, whatever is enqueued.   *)
THEOREM QueuePeekIsNext ==
    ASSUME 0 \notin Sizes
    PROVE  RingSpec => []PeekIsNext
  BY RingHolds, InvIsPeekIsNext, PTL
-----------------------------------------------------------------------------
(* The producer enqueues no more than it has.                              *)
EnqBusy == enqPc \notin {"idle", "enqueued", "failed"} => sent < MaxItems

(* No step of the others gives the producer more to enqueue.               *)
LEMMA StepKeepsBusy ==
    ASSUME EnqBusy, [RingNext]_rwq
    PROVE  EnqBusy'
<1> USE DEF EnqBusy
<1>1. CASE \E alloc \in BOOLEAN : EnqRoom(alloc)
  BY <1>1 DEF EnqRoom
<1>2. CASE Enqueuing
  BY <1>2 DEF Enqueuing, EnqWrite, EnqPublish, EnqFull, EnqNext, EnqFill,
              EnqBump, EnqGrow, EnqLink, EnqAdvance
<1>3. CASE EnqReturn
  BY <1>3 DEF EnqReturn
<1>4. CASE \E peek \in BOOLEAN : DeqLook(peek)
  BY <1>4 DEF DeqLook, producer
<1>5. CASE Dequeuing \/ DeqReturn
  BY <1>5 DEF Dequeuing, DeqLast, DeqAgain, DeqAhead, DeqPeek, DeqMove, DeqTake,
              DeqFree, DeqShow, DeqReturn, producer
<1>6. CASE Sizing \/ UNCHANGED rwq
  BY <1>6 DEF Sizing, rwq, producer
<1> QED  BY <1>1, <1>2, <1>3, <1>4, <1>5, <1>6 DEF RingNext

(* A step that moves an element does so as the abstract queue would.       *)
LEMMA MovesAreFifo ==
    ASSUME RingInv, Contents' = Nums(got', sent'), EnqBusy,
           ReaderWriterQueueAssumption, Moves
    PROVE  [Fifo!Next]_<<Contents, got>>
<1>1. /\ got \in Nat /\ sent \in Nat /\ got <= sent
      /\ Contents = Nums(got, sent)
  BY GotSent
<1>2. Contents' = Nums(got', sent')
  OBVIOUS
<1>3. CASE /\ enqPc \in {"publish", "advance"}
           /\ sent' = sent + 1 /\ got' = got
  <2>1. sent + 1 \in 1 .. MaxItems
    BY <1>1, <1>3 DEF EnqBusy, ReaderWriterQueueAssumption
  <2>2. Contents' = Append(Contents, sent + 1)
    BY <1>1, <1>2, <1>3, NumsStep
  <2> QED  BY <1>3, <2>1, <2>2 DEF Fifo!Next, Fifo!Enqueue
<1>4. CASE got < sent /\ got' = got + 1 /\ sent' = sent
  <2>1. /\ Contents # <<>> /\ got' = Head(Contents)
        /\ Contents' = Tail(Contents)
    BY <1>1, <1>2, <1>4, NumsStep
  <2> QED  BY <2>1 DEF Fifo!Next, Fifo!Dequeue
<1>5. CASE sent' = sent /\ got' = got
  BY <1>1, <1>2, <1>5
<1> QED  BY <1>3, <1>4, <1>5 DEF Moves

(* The queue implements an abstract one: each step enqueues at the end,    *)
(* dequeues at the front, or changes nothing that a client can see.        *)
THEOREM QueueIsFifo ==
    ASSUME 0 \notin Sizes
    PROVE  RingSpec => FifoSpec
<1>1. RingInit => RingInv
  BY InitEstablishes, ReaderWriterQueueAssumption DEF ReaderWriterQueueAssumption
<1>2. RingInit => EnqBusy
  BY DEF RingInit, EnqBusy
<1>3. RingInit => Fifo!Init
  <2> SUFFICES ASSUME RingInit PROVE Contents = <<>> /\ got = 0
    BY DEF Fifo!Init
  <2>1. got = 0 /\ sent = 0
    BY DEF RingInit
  <2>2. Contents = Nums(got, sent)
    BY <1>1, GotSent
  <2> QED  BY <2>1, <2>2, NumsEmpty
<1>4. RingInv /\ [RingNext]_rwq => RingInv'
  BY StepKeeps, ReaderWriterQueueAssumption
<1>5. EnqBusy /\ [RingNext]_rwq => EnqBusy'
  BY StepKeepsBusy
<1>6. RingInv => Contents = Nums(got, sent)
  BY GotSent
<1>7. RingInv' => (Contents = Nums(got, sent))'
  BY <1>6, PTL
<1>8. RingInv /\ RingInv' /\ EnqBusy /\ [RingNext]_rwq
         => [Fifo!Next]_<<Contents, got>>
  BY <1>7, StepKeeps, MovesAreFifo, ReaderWriterQueueAssumption
<1> QED  BY <1>1, <1>2, <1>3, <1>4, <1>5, <1>8, PTL
         DEF RingSpec, FifoSpec, Fifo!Spec

(***************************************************************************)
(* How many elements fit.                                                  *)
(***************************************************************************)
(* A full block has an element in each slot but one.                       *)
Full(c) == Count(c) = c.cap - 1

(* There are as many blocks as the constructor made, and none is smaller.  *)
Roomy ==
    LET made == InitialBlocks(size) IN
    /\ size \in Sizes
    /\ largest >= made.cap
    /\ Linked >= made.count
    /\ \A b \in 1 .. Len(block) : block[b].cap >= made.cap

(* Only the blocks the two threads are in are neither empty nor full, and  *)
(* the producer does not leave a block that is not full, unless it shares  *)
(* it with the consumer.                                                   *)
Leaving == enqPc \in {"full", "next", "fill", "bump", "grow", "link", "advance"}

Crowded ==
    /\ \A b \in 1 .. Linked :
          \/ b \in {frontBlock, tailBlock}
          \/ enqPc = "advance" /\ b = block[tailBlock].next
          \/ Count(block[b]) = 0 \/ Full(block[b])
    /\ Leaving => tailBlock = frontBlock \/ Full(block[tailBlock])

(* The next block is the consumer's only if there were enough elements     *)
(* when try_enqueue began.                                                 *)
HeldEnough ==
    /\ enqPc = "grow" => canAlloc
    /\ enqPc = "full" /\ ~ canAlloc /\ block[tailBlock].next = frontBlock
          => held >= size
    /\ enqPc = "failed" /\ ~ canAlloc => held >= size

Packed == Roomy /\ Crowded /\ HeldEnough

(* What a block holds and where it leads to is the same.                   *)
SameShape(c, d) == /\ d.cap = c.cap /\ d.next = c.next
                   /\ d.front = c.front /\ d.tail = c.tail

(* What a thread remembers is no part of its shape, nor is a slot.         *)
LEMMA ShapeKept ==
    ASSUME NEW c \in Blocks, NEW i, NEW v
    PROVE  /\ SameShape(c, [c EXCEPT !.localFront = v])
           /\ SameShape(c, [c EXCEPT !.localTail = v])
           /\ SameShape(c, [c EXCEPT !.data[i] = v])
<1>1. PICK n \in Nat :
        c \in [cap : {n}, next : Nat, front : Nat, localTail : Nat,
               tail : Nat, localFront : Nat, data : [0 .. n - 1 -> Nat]]
  BY DEF Blocks
<1> DEFINE w == [c.data EXCEPT ![i] = v]
<1>2. [c EXCEPT !.data[i] = v] = [c EXCEPT !.data = w]
  OBVIOUS
<1> HIDE DEF w
<1> QED  BY <1>1, <1>2 DEF SameShape

(* An index is no link.                                                    *)
LEMMA LinkKept ==
    ASSUME NEW c \in Blocks, NEW v
    PROVE  [c EXCEPT !.front = v].next = c.next
<1>1. PICK n \in Nat :
        c \in [cap : {n}, next : Nat, front : Nat, localTail : Nat,
               tail : Nat, localFront : Nat, data : [0 .. n - 1 -> Nat]]
  BY DEF Blocks
<1> QED  BY <1>1

(* One block is replaced, in a sequence that remains one of blocks.        *)
LEMMA ReplaceBlock ==
    ASSUME NEW blk \in Seq(Blocks), NEW new \in Seq(Blocks),
           NEW b \in 1 .. Len(blk), NEW d, new = [blk EXCEPT ![b] = d]
    PROVE  /\ Len(new) = Len(blk)
           /\ \A c \in 1 .. Len(blk) : new[c] = IF c = b THEN d ELSE blk[c]
<1>1. DOMAIN new = DOMAIN blk
  OBVIOUS
<1>2. Len(new) = Len(blk)
  BY <1>1
<1> QED  BY <1>2

(* Such an assignment leaves every block its shape.                        *)
LEMMA OneBlockKept ==
    ASSUME NEW blk \in Seq(Blocks), NEW new \in Seq(Blocks),
           NEW b \in 1 .. Len(blk), NEW i, NEW v,
           \/ new = [blk EXCEPT ![b].localFront = v]
           \/ new = [blk EXCEPT ![b].localTail = v]
           \/ new = [blk EXCEPT ![b].data[i] = v]
    PROVE  /\ Len(new) = Len(blk)
           /\ \A c \in 1 .. Len(blk) : SameShape(blk[c], new[c])
<1>1. blk[b] \in Blocks
  OBVIOUS
<1>2. \A c : SameShape(c, c)
  BY DEF SameShape
<1>3. CASE new = [blk EXCEPT ![b].localFront = v]
  <2> DEFINE d == [blk[b] EXCEPT !.localFront = v]
  <2>1. new = [blk EXCEPT ![b] = d] /\ SameShape(blk[b], d)
    BY <1>1, <1>3, ShapeKept
  <2> HIDE DEF d
  <2> QED  BY <1>2, <2>1, ReplaceBlock
<1>4. CASE new = [blk EXCEPT ![b].localTail = v]
  <2> DEFINE d == [blk[b] EXCEPT !.localTail = v]
  <2>1. new = [blk EXCEPT ![b] = d] /\ SameShape(blk[b], d)
    BY <1>1, <1>4, ShapeKept
  <2> HIDE DEF d
  <2> QED  BY <1>2, <2>1, ReplaceBlock
<1>5. CASE new = [blk EXCEPT ![b].data[i] = v]
  <2> DEFINE d == [blk[b] EXCEPT !.data[i] = v]
  <2>1. new = [blk EXCEPT ![b] = d] /\ SameShape(blk[b], d)
    BY <1>1, <1>5, ShapeKept
  <2> HIDE DEF d
  <2> QED  BY <1>2, <2>1, ReplaceBlock
<1> QED  BY <1>3, <1>4, <1>5

(* The five steps that publish an element, give a slot back, make a block   *)
(* or link it.                                                             *)
Unshaping == EnqPublish \/ EnqBump \/ EnqGrow \/ EnqLink \/ DeqFree

(* So do all the steps but those five.                                     *)
LEMMA ShapesKept ==
    ASSUME NEW place, NEW before, RingAt(place, before), block' \in Seq(Blocks),
           [RingNext]_rwq, ~ Unshaping
    PROVE  /\ Len(block') = Len(block)
           /\ \A b \in 1 .. Len(block) : SameShape(block[b], block'[b])
<1>1. /\ block \in Seq(Blocks)
      /\ frontBlock \in 1 .. Len(block) /\ tailBlock \in 1 .. Len(block)
      /\ block[frontBlock].next \in 1 .. Len(block)
      /\ block[tailBlock].next \in 1 .. Len(block)
  BY RingRange
<1>2. \A c : SameShape(c, c)
  BY DEF SameShape
<1>3. CASE \E alloc \in BOOLEAN : EnqRoom(alloc)
  <2>1. \/ block' = block
        \/ block' = [block EXCEPT ![tailBlock].localFront = block[tailBlock].front]
    BY <1>3 DEF EnqRoom
  <2> QED  BY <1>1, <1>2, <2>1, OneBlockKept
<1>4. CASE EnqWrite
  BY <1>1, <1>4, OneBlockKept DEF EnqWrite
<1>5. CASE EnqNext
  BY <1>1, <1>5, OneBlockKept DEF EnqNext
<1>6. CASE EnqFill
  BY <1>1, <1>6, OneBlockKept DEF EnqFill
<1>7. CASE EnqFull \/ EnqAdvance \/ EnqReturn
  BY <1>2, <1>7 DEF EnqFull, EnqAdvance, EnqReturn, ring
<1>8. CASE \E peek \in BOOLEAN : DeqLook(peek)
  <2>1. \/ block' = block
        \/ block' = [block EXCEPT ![frontBlock].localTail = block[frontBlock].tail]
    BY <1>8 DEF DeqLook
  <2> QED  BY <1>1, <1>2, <2>1, OneBlockKept
<1>9. CASE DeqAgain
  BY <1>1, <1>9, OneBlockKept DEF DeqAgain
<1>10. CASE DeqPeek
  <2>1. ahead = block[frontBlock].next
    BY <1>10 DEF DeqPeek, RingAt, ConsumerAt
  <2>2. \/ block' = block
        \/ block' = [block EXCEPT ![ahead].localTail = block[ahead].tail]
    BY <1>10 DEF DeqPeek
  <2> QED  BY <1>1, <1>2, <2>1, <2>2, OneBlockKept
<1>11. CASE DeqTake
  BY <1>1, <1>11, OneBlockKept DEF DeqTake
<1>12. CASE DeqLast \/ DeqAhead \/ DeqMove \/ DeqShow \/ DeqReturn
  BY <1>2, <1>12 DEF DeqLast, DeqAhead, DeqMove, DeqShow, DeqReturn, ring
<1>13. CASE Sizing \/ UNCHANGED rwq
  BY <1>2, <1>13 DEF Sizing, rwq, ring
<1> QED
  BY <1>3, <1>4, <1>5, <1>6, <1>7, <1>8, <1>9, <1>10, <1>11, <1>12, <1>13
  DEF RingNext, Enqueuing, Dequeuing, Unshaping

(* A block whose tail is right behind its front is full.                   *)
LEMMA BlockFull ==
    ASSUME NEW c, BlockOK(c), (c.tail + 1) % c.cap = c.front
    PROVE  Full(c)
<1>1. /\ c.cap \in Nat /\ c.front \in Nat /\ c.tail \in Nat
      /\ c.front < c.cap /\ c.tail < c.cap
  BY BlockFields DEF BlockOK
<1>2. (c.tail + 1) % c.cap = IF c.tail + 1 = c.cap THEN 0 ELSE c.tail + 1
  BY <1>1, NextSlot
<1> DEFINE n == c.cap
           f == c.front
           t == c.tail
<1>3. /\ n \in Nat /\ f \in Nat /\ t \in Nat /\ f < n /\ t < n
      /\ f = IF t + 1 = n THEN 0 ELSE t + 1
  BY <1>1, <1>2
<1> HIDE DEF n, f, t
<1>4. Dist(n, f, t) = n - 1
  BY <1>3 DEF Dist
<1> QED  BY <1>4 DEF Full, Count, n, f, t

(* The blocks the constructor makes have room for what was asked of it,    *)
(* the one the producer waits in front of not counted.                     *)
LEMMA BlocksSuffice ==
    ASSUME NEW n \in Nat, n # 0, MaxBlockSize \in Nat, MaxBlockSize >= 2,
           NEW k \in Nat, k >= InitialBlocks(n).count
    PROVE  /\ InitialBlocks(n).cap \in Nat /\ InitialBlocks(n).cap >= 2
           /\ k = 1 => InitialBlocks(n).cap - 1 >= n
           /\ k # 1 => (k - 1) * (InitialBlocks(n).cap - 1) >= n
<1> DEFINE p == CeilToPow2(n + 1)
           M == MaxBlockSize
           q == (n + M * 2 - 3) \div (M - 1)
<1>1. p \in Nat /\ p >= n + 1
  BY CeilRoundsUp
<1>2. InitialBlocks(n) = IF p > M * 2 THEN [count |-> q, cap |-> M]
                                      ELSE [count |-> 1, cap |-> p]
  BY DEF InitialBlocks
<1>3. q \in Int /\ (q - 1) * (M - 1) >= n /\ q >= 2
  <2> DEFINE a == n + M * 2 - 3
             b == M - 1
  <2>1. a \in Nat /\ b \in Nat /\ b > 0 /\ a = n - 1 + 2 * b
    OBVIOUS
  <2>2. q = a \div b /\ b = M - 1
    OBVIOUS
  <2> HIDE DEF a, b, q
  <2>3. q \in Int /\ b * q <= a /\ a < b * (q + 1)
    BY <2>1, <2>2
  <2>4. b * (q + 1) = (q - 1) * b + 2 * b
    BY <2>1, <2>3
  <2>5. (q - 1) * b \in Int /\ (q - 1) * b > n - 1 - 2 * b + 2 * b
    <3> DEFINE x == (q - 1) * b
    <3>1. x \in Int /\ n - 1 + 2 * b < x + 2 * b
      BY <2>1, <2>3, <2>4
    <3> HIDE DEF x
    <3>2. x > n - 1 - 2 * b + 2 * b
      BY <2>1, <3>1
    <3> QED  BY <3>1, <3>2 DEF x
  <2>6. (q - 1) * b >= n
    <3> DEFINE x == (q - 1) * b
    <3>1. x \in Int /\ x > n - 1 - 2 * b + 2 * b
      BY <2>5
    <3> HIDE DEF x
    <3>2. x >= n
      BY <2>1, <3>1
    <3> QED  BY <3>2 DEF x
  <2>7. q >= 2
    BY <2>1, <2>3, <2>6
  <2> QED  BY <2>2, <2>3, <2>6, <2>7
<1> HIDE DEF p, q
<1>4. CASE p > M * 2
  <2>1. InitialBlocks(n).cap = M /\ k >= q
    BY <1>2, <1>4
  <2> DEFINE b == M - 1
  <2>2. b \in Nat /\ b >= 1
    OBVIOUS
  <2> HIDE DEF b
  <2>3. (k - 1) * b >= (q - 1) * b
    BY <1>3, <2>1, <2>2
  <2>4. (k - 1) * b >= n
    <3>1. (k - 1) * b \in Int /\ (q - 1) * b \in Int /\ (q - 1) * b >= n
      BY <1>3, <2>2 DEF b
    <3> QED  BY <2>3, <3>1
  <2>5. k # 1
    BY <1>3, <2>1
  <2> QED  BY <2>1, <2>4, <2>5 DEF b
<1>5. CASE ~ (p > M * 2)
  <2>1. InitialBlocks(n).cap = p /\ k >= 1
    BY <1>2, <1>5
  <2> DEFINE b == p - 1
  <2>2. b \in Nat /\ b >= n
    BY <1>1
  <2> HIDE DEF b
  <2>3. k # 1 => (k - 1) * b >= n
    <3> SUFFICES ASSUME k # 1 PROVE (k - 1) * b >= n
      OBVIOUS
    <3>1. k - 2 \in Nat
      BY <2>1
    <3>2. (k - 1) * b = (k - 2) * b + b /\ (k - 2) * b \in Nat
      BY <2>2, <3>1
    <3> QED  BY <2>2, <3>2
  <2> QED  BY <1>1, <2>1, <2>2, <2>3 DEF b
<1> QED  BY <1>4, <1>5

(* The blocks between the front and the tail block are full, so that there *)
(* are as many elements before a block as fit in those.                    *)
LEMMA ManyBefore ==
    ASSUME NEW place, NEW before, RingAt(place, before), Crowded,
           enqPc # "advance", NEW m \in Nat,
           \A b \in 1 .. Linked : block[b].cap - 1 >= m,
           NEW e \in 1 .. Linked, 0 < place[e], place[e] <= place[tailBlock]
    PROVE  before[e] >= First + (place[e] - 1) * m
<1> DEFINE D == {k \in Nat : \E b \in 1 .. Linked :
                    /\ place[b] = k /\ 0 < k /\ k <= place[tailBlock]
                    /\ ~ (before[b] >= First + (k - 1) * m)}
<1>1. /\ Linked \in Nat /\ frontBlock \in 1 .. Linked /\ tailBlock \in 1 .. Linked
      /\ First \in Nat
  BY RingRange DEF RingAt, RingTypeOK
<1>2. /\ \A b \in 1 .. Linked : place[b] \in 0 .. Linked - 1
      /\ \A b, c \in 1 .. Linked : place[b] = place[c] => b = c
      /\ place[frontBlock] = 0 /\ Links(place)
      /\ \A b \in 1 .. Linked :
            /\ block[b].next \in 1 .. Linked
            /\ place[block[b].next] = IF place[b] = Linked - 1 THEN 0
                                                               ELSE place[b] + 1
  BY DEF RingAt, Links
<1>3. D = {}
  <2> SUFFICES ASSUME D # {} PROVE FALSE
    OBVIOUS
  <2>1. D \in SUBSET Nat
    OBVIOUS
  <2>2. PICK k \in D : \A j \in D : k <= j
    BY <2>1, LeastNumber
  <2>3. PICK b \in 1 .. Linked :
          /\ place[b] = k /\ 0 < k /\ k <= place[tailBlock]
          /\ ~ (before[b] >= First + (k - 1) * m)
    BY <2>2
  <2>4. k \in Nat /\ k - 1 \in 0 .. Linked - 1 /\ place[tailBlock] \in 0 .. Linked - 1
    BY <1>1, <1>2, <2>3
  <2>5. PICK a \in 1 .. Linked : place[a] = k - 1
    BY <1>1, <1>2, <2>4, PlacesTaken
  <2>6. block[a].next = b
    <3>1. place[a] # Linked - 1 /\ place[block[a].next] = k
      BY <1>2, <2>3, <2>4, <2>5
    <3> QED  BY <1>2, <2>3, <3>1
  <2>7. before[b] = before[a] + Count(block[a]) /\ place[a] < place[tailBlock]
    <3>1. place[a] < place[tailBlock]
      BY <2>3, <2>4, <2>5
    <3> QED  BY <2>6, <3>1 DEF RingAt, Numbered
  <2>8. before[a] \in Nat /\ Count(block[a]) \in Nat
    BY TakenBounds
  <2>9. CASE k = 1
    <3>1. a = frontBlock
      BY <1>1, <1>2, <2>5, <2>9
    <3>2. before[a] = First
      BY <3>1 DEF RingAt, Numbered
    <3>3. before[b] >= First + 0 /\ (k - 1) * m = 0
      BY <1>1, <2>7, <2>8, <2>9, <3>2
    <3> QED  BY <2>3, <3>3
  <2>10. CASE k # 1
    <3>1. k - 1 \in Nat /\ k - 1 \notin D
      BY <2>2, <2>3, <2>4, <2>10
    <3>2. before[a] >= First + ((k - 1) - 1) * m
      <4>1. 0 < k - 1 /\ k - 1 <= place[tailBlock]
        BY <2>3, <2>4, <2>10, <3>1
      <4>2. ~ (before[a] >= First + ((k - 1) - 1) * m) => k - 1 \in D
        BY <2>5, <3>1, <4>1
      <4> QED  BY <3>1, <4>2
    <3>3. a # frontBlock /\ a # tailBlock /\ Count(block[a]) > 0
      <4>1. a # frontBlock /\ a # tailBlock
        BY <1>2, <2>4, <2>5, <2>7, <2>10
      <4>2. place[a] <= place[tailBlock]
        BY <2>4, <2>5, <2>7
      <4> QED  BY <4>1, <4>2 DEF RingAt, Numbered
    <3>4. Count(block[a]) >= m
      <4>1. Count(block[a]) = 0 \/ Full(block[a])
        BY <3>3 DEF Crowded
      <4> QED  BY <3>3, <4>1 DEF Full
    <3> DEFINE x == ((k - 1) - 1) * m
               y == (k - 1) * m
    <3>5. x \in Nat /\ y \in Nat /\ y = x + m
      BY <2>4, <3>1, <2>10, <2>3
    <3> HIDE DEF x, y
    <3>6. before[b] >= First + y
      BY <1>1, <2>7, <2>8, <3>2, <3>4, <3>5 DEF x
    <3> QED  BY <2>3, <3>6 DEF y
  <2> QED  BY <2>9, <2>10
<1>4. place[e] \in Nat /\ place[e] \notin D
  BY <1>2, <1>3
<1> QED  BY <1>4

(* When all blocks but the consumer's are full, what was asked for is in   *)
(* the ring.                                                               *)
LEMMA EnoughHeld ==
    ASSUME NEW place, NEW before, RingAt(place, before), Roomy, Crowded,
           enqPc = "idle", Full(block[tailBlock]),
           block[tailBlock].next = frontBlock,
           MaxBlockSize \in Nat, MaxBlockSize >= 2, Sizes \subseteq Nat \ {0}
    PROVE  Held >= size
<1> DEFINE cap == InitialBlocks(size).cap
           m == cap - 1
           t == tailBlock
<1>1. /\ Linked \in Nat /\ Linked = Len(block) /\ frontBlock \in 1 .. Linked
      /\ t \in 1 .. Linked /\ First \in Nat /\ sent \in Nat /\ got \in Nat
  BY RingRange DEF RingAt, RingTypeOK, Linked
<1>2. /\ \A b \in 1 .. Linked : place[b] \in 0 .. Linked - 1
      /\ \A b, c \in 1 .. Linked : place[b] = place[c] => b = c
      /\ place[frontBlock] = 0
      /\ place[block[t].next] = IF place[t] = Linked - 1 THEN 0
                                                         ELSE place[t] + 1
  BY <1>1 DEF RingAt, Links
<1>3. place[t] = Linked - 1
  BY <1>1, <1>2
<1>4. /\ size \in Nat /\ size # 0 /\ Linked >= InitialBlocks(size).count
      /\ \A b \in 1 .. Linked : block[b].cap >= cap
  BY <1>1 DEF Roomy
<1>5. /\ cap \in Nat /\ cap >= 2
      /\ Linked = 1 => m >= size
      /\ Linked # 1 => (Linked - 1) * m >= size
  BY <1>1, <1>4, BlocksSuffice
<1> HIDE DEF cap
<1>6. /\ before[t] \in Nat /\ Count(block[t]) \in Nat /\ Count(block[t]) >= m
      /\ before[t] + Count(block[t]) = sent
  <2>1. Count(block[t]) = block[t].cap - 1 /\ block[t].cap >= cap
    BY <1>1, <1>4 DEF Full
  <2>2. BlockOK(block[t]) /\ before[t] \in Nat /\ Count(block[t]) \in Nat
    BY <1>1, TakenBounds
  <2>3. block[t].cap \in Nat
    BY <2>2, BlockFields DEF BlockOK
  <2> QED  BY <1>5, <2>1, <2>2, <2>3 DEF RingAt, Numbered
<1>7. Held = sent - First
  <2>1. got <= sent /\ Contents = Nums(got, sent)
    BY GotSent DEF RingInv
  <2>2. Len(Contents) = sent - got
    BY <1>1, <2>1, NumsEmpty
  <2> QED  BY <1>1, <2>2 DEF Held, First
<1>8. CASE Linked = 1
  <2>1. t = frontBlock
    BY <1>1, <1>8
  <2>2. before[t] = First
    BY <2>1 DEF RingAt, Numbered
  <2> QED  BY <1>1, <1>4, <1>5, <1>6, <1>7, <1>8, <2>2
<1>9. CASE Linked # 1
  <2>1. m \in Nat /\ \A b \in 1 .. Linked : block[b].cap - 1 >= m
    <3>1. \A b \in 1 .. Linked : block[b].cap \in Nat
      BY TakenBounds, BlockFields DEF BlockOK
    <3> QED  BY <1>4, <1>5, <3>1
  <2> HIDE DEF m
  <2>2. 0 < place[t] /\ place[t] <= place[t]
    BY <1>1, <1>3, <1>9
  <2>3. before[t] >= First + (place[t] - 1) * m
    BY <1>1, <2>1, <2>2, ManyBefore
  <2> DEFINE x == (Linked - 2) * m
             y == (Linked - 1) * m
  <2>4. x \in Int /\ y \in Int /\ y = x + m /\ (place[t] - 1) * m = x
    <3>1. place[t] - 1 = Linked - 2
      BY <1>1, <1>3
    <3> QED  BY <1>1, <2>1, <3>1
  <2>5. y >= size
    BY <1>5, <1>9 DEF m
  <2> HIDE DEF x, y
  <2>6. sent >= First + y
    BY <1>1, <1>6, <2>1, <2>3, <2>4
  <2> QED  BY <1>1, <1>4, <1>7, <2>4, <2>5, <2>6
<1> QED  BY <1>8, <1>9

(* Blocks of the same shape have as many elements and as much room.        *)
LEMMA ShapeCounts ==
    ASSUME NEW c, NEW d, SameShape(c, d)
    PROVE  Count(d) = Count(c) /\ Full(d) = Full(c)
  BY DEF SameShape, Count, Full

(* The blocks are crowded if they keep their counts, and the threads stay  *)
(* where they are.                                                         *)
LEMMA CrowdedKept ==
    ASSUME NEW place, NEW before, RingAt(place, before), Crowded,
           Linked' = Linked,
           \A b \in 1 .. Linked : SameShape(block[b], block'[b]),
           frontBlock' = frontBlock, tailBlock' = tailBlock,
           (enqPc' = "advance") = (enqPc = "advance"),
           Leaving' => Leaving \/ Full(block[tailBlock])
    PROVE  Crowded'
<1>1. frontBlock \in 1 .. Linked /\ tailBlock \in 1 .. Linked
  BY DEF RingAt, RingTypeOK
<1>2. \A b \in 1 .. Linked : /\ block'[b].next = block[b].next
                             /\ Count(block'[b]) = Count(block[b])
                             /\ Full(block'[b]) = Full(block[b])
  BY ShapeCounts DEF SameShape
<1>3. ASSUME NEW b \in 1 .. Linked
      PROVE  \/ b \in {frontBlock', tailBlock'}
             \/ enqPc' = "advance" /\ b = block'[tailBlock'].next
             \/ Count(block'[b]) = 0 \/ Full(block'[b])
  BY <1>1, <1>2 DEF Crowded
<1>4. Leaving' => tailBlock' = frontBlock' \/ Full(block'[tailBlock'])
  BY <1>1, <1>2 DEF Crowded
<1> QED  BY <1>3, <1>4 DEF Crowded

(* Which steps do more than that.                                          *)
LEMMA StandingStill ==
    ASSUME NEW place, NEW before, RingAt(place, before), block' \in Seq(Blocks),
           [RingNext]_rwq, ~ Unshaping, ~ EnqAdvance, ~ DeqMove
    PROVE  /\ frontBlock' = frontBlock /\ tailBlock' = tailBlock
           /\ (enqPc' = "advance") = (enqPc = "advance")
           /\ Leaving' => Leaving \/ Full(block[tailBlock])
<1>1. BlockOK(block[tailBlock])
  BY RingRange
<1>2. CASE \E alloc \in BOOLEAN : EnqRoom(alloc)
  <2>1. /\ frontBlock' = frontBlock /\ tailBlock' = tailBlock /\ enqPc = "idle"
        /\ \/ enqPc' = "write"
           \/ /\ enqPc' = "full"
              /\ (block[tailBlock].tail + 1) % block[tailBlock].cap
                   = block[tailBlock].front
    BY <1>2 DEF EnqRoom, Succ
  <2> QED  BY <1>1, <2>1, BlockFull DEF Leaving
<1>3. CASE EnqWrite \/ EnqFull \/ EnqNext \/ EnqFill \/ EnqReturn
  BY <1>3 DEF EnqWrite, EnqFull, EnqNext, EnqFill, EnqReturn, Leaving, ring
<1>4. CASE \E peek \in BOOLEAN : DeqLook(peek)
  BY <1>4 DEF DeqLook, producer, Leaving
<1>5. CASE \/ DeqLast \/ DeqAgain \/ DeqAhead \/ DeqPeek \/ DeqTake \/ DeqShow
           \/ DeqReturn
  BY <1>5 DEF DeqLast, DeqAgain, DeqAhead, DeqPeek, DeqTake, DeqShow, DeqReturn,
              producer, ring, Leaving
<1>6. CASE Sizing \/ UNCHANGED rwq
  BY <1>6 DEF Sizing, rwq, ring, producer, Leaving
<1> QED  BY <1>2, <1>3, <1>4, <1>5, <1>6 DEF RingNext, Enqueuing, Dequeuing, Unshaping

(* The other steps of the producer ...                                     *)
LEMMA ProducerCrowds ==
    ASSUME NEW place, NEW before, RingAt(place, before), Crowded,
           block' \in Seq(Blocks),
           EnqPublish \/ EnqBump \/ EnqGrow \/ EnqLink \/ EnqAdvance
    PROVE  Crowded'
<1>1. /\ block \in Seq(Blocks) /\ Len(block) \in Nat /\ Linked \in 1 .. Len(block)
      /\ frontBlock \in 1 .. Linked /\ tailBlock \in 1 .. Linked
      /\ \A b \in 1 .. Linked : b \in 1 .. Len(block)
      /\ \A b \in 1 .. Linked : block[b].next \in 1 .. Linked
  <2>1. \A b \in 1 .. Linked : block[b].next \in 1 .. Linked
    BY DEF RingAt, Links
  <2> QED  BY <2>1, RingRange DEF RingAt, RingTypeOK
<1>2. \A b \in 1 .. Linked :
          \/ b \in {frontBlock, tailBlock}
          \/ enqPc = "advance" /\ b = block[tailBlock].next
          \/ Count(block[b]) = 0 \/ Full(block[b])
  BY DEF Crowded
<1>3. CASE EnqPublish
  <2>1. /\ enqPc = "publish" /\ enqPc' = "enqueued"
        /\ frontBlock' = frontBlock /\ tailBlock' = tailBlock
        /\ block' = [block EXCEPT ![tailBlock].tail = Succ(tailBlock, @)]
    BY <1>3 DEF EnqPublish, consumer
  <2>2. /\ Len(block') = Len(block) /\ Linked' = Linked
        /\ \A b \in 1 .. Len(block) : b # tailBlock => block'[b] = block[b]
    BY <1>1, <2>1 DEF Linked
  <2> QED  BY <1>1, <1>2, <2>1, <2>2 DEF Crowded, Leaving
<1>4. CASE EnqBump
  <2> DEFINE n == block[tailBlock].next
  <2>1. /\ enqPc = "bump" /\ enqPc' = "advance"
        /\ frontBlock' = frontBlock /\ tailBlock' = tailBlock
        /\ block' = [block EXCEPT ![n].tail = Succ(n, @)]
    BY <1>4 DEF EnqBump, consumer
  <2>2. n \in 1 .. Linked /\ n # tailBlock
    BY <2>1, NextFree
  <2>3. /\ Len(block') = Len(block) /\ Linked' = Linked
        /\ \A b \in 1 .. Len(block) : b # n => block'[b] = block[b]
    BY <1>1, <2>1, <2>2 DEF Linked
  <2>4. Leaving
    BY <2>1 DEF Leaving
  <2>5. tailBlock = frontBlock \/ Full(block[tailBlock])
    BY <2>4 DEF Crowded
  <2>6. block'[tailBlock] = block[tailBlock]
    BY <1>1, <2>2, <2>3
  <2>7. ASSUME NEW b \in 1 .. Linked
        PROVE  \/ b \in {frontBlock, tailBlock} \/ b = n
               \/ Count(block'[b]) = 0 \/ Full(block'[b])
    BY <1>1, <1>2, <2>1, <2>3
  <2> QED  BY <2>1, <2>3, <2>5, <2>6, <2>7 DEF Crowded
<1>5. CASE EnqGrow
  <2>1. /\ enqPc = "grow" /\ enqPc' \in {"link", "failed"}
        /\ frontBlock' = frontBlock /\ tailBlock' = tailBlock
        /\ \/ enqPc' = "failed" /\ block' = block
           \/ enqPc' = "link" /\ \E c : block' = Append(block, c)
    BY <1>5 DEF EnqGrow, consumer
  <2>2. /\ Linked' = Linked
        /\ \A b \in 1 .. Linked : block'[b] = block[b]
    BY <1>1, <2>1 DEF Linked
  <2>3. tailBlock = frontBlock \/ Full(block[tailBlock])
    BY <2>1 DEF Crowded, Leaving
  <2> QED  BY <1>1, <1>2, <2>1, <2>2, <2>3 DEF Crowded
<1>6. CASE EnqLink
  <2> DEFINE t == tailBlock
             d == [block[t] EXCEPT !.next = Len(block)]
  <2>1. /\ enqPc = "link" /\ enqPc' = "advance"
        /\ frontBlock' = frontBlock /\ t' = t
        /\ block' = [block EXCEPT ![t] = d]
    BY <1>6 DEF EnqLink, consumer
  <2>2. block[t] \in Blocks
    BY <1>1
  <2>3. /\ d.next = Len(block) /\ d.cap = block[t].cap
        /\ d.front = block[t].front /\ d.tail = block[t].tail
    BY <1>1, <2>2, SetNext
  <2>4. Full(d) = Full(block[t])
    BY <2>3 DEF Full, Count
  <2> HIDE DEF d
  <2>5. /\ Len(block') = Len(block) /\ Linked' = Len(block)
        /\ Linked = Len(block) - 1
        /\ block'[t] = d
        /\ \A b \in 1 .. Len(block) : b # t => block'[b] = block[b]
    <3>1. t \in 1 .. Len(block)
      BY <1>1
    <3>2. /\ Len(block') = Len(block)
          /\ \A b \in 1 .. Len(block) : block'[b] = IF b = t THEN d ELSE block[b]
      BY <1>1, <2>1, <3>1, ReplaceBlock
    <3> QED  BY <2>1, <3>1, <3>2 DEF Linked
  <2>6. t = frontBlock \/ Full(block'[t])
    BY <2>1, <2>4, <2>5 DEF Crowded, Leaving
  <2>7. ASSUME NEW b \in 1 .. Len(block)
        PROVE  \/ b \in {frontBlock, t} \/ b = block'[t].next
               \/ Count(block'[b]) = 0 \/ Full(block'[b])
    <3>1. b = Len(block) \/ b \in 1 .. Linked
      BY <1>1, <2>5
    <3> QED  BY <1>1, <1>2, <2>1, <2>3, <2>5, <3>1
  <2> QED  BY <2>1, <2>5, <2>6, <2>7 DEF Crowded
<1>7. CASE EnqAdvance
  <2>1. /\ enqPc = "advance" /\ enqPc' = "enqueued" /\ block' = block
        /\ frontBlock' = frontBlock /\ tailBlock' = block[tailBlock].next
    BY <1>7 DEF EnqAdvance, consumer
  <2>2. Linked' = Linked
    BY <2>1 DEF Linked
  <2>3. tailBlock = frontBlock \/ Full(block[tailBlock])
    BY <2>1 DEF Crowded, Leaving
  <2> QED  BY <1>2, <2>1, <2>2, <2>3 DEF Crowded, Leaving
<1> QED  BY <1>3, <1>4, <1>5, <1>6, <1>7

(* ... and of the consumer, which leaves an empty block.                   *)
LEMMA ConsumerCrowds ==
    ASSUME NEW place, NEW before, RingAt(place, before), Crowded,
           block' \in Seq(Blocks), DeqMove \/ DeqFree
    PROVE  Crowded'
<1>1. /\ block \in Seq(Blocks) /\ Len(block) \in Nat /\ Linked \in 1 .. Len(block)
      /\ frontBlock \in 1 .. Linked /\ tailBlock \in 1 .. Linked
      /\ \A b \in 1 .. Linked : b \in 1 .. Len(block)
  BY RingRange DEF RingAt, RingTypeOK
<1>2. /\ \A b \in 1 .. Linked :
            \/ b \in {frontBlock, tailBlock}
            \/ enqPc = "advance" /\ b = block[tailBlock].next
            \/ Count(block[b]) = 0 \/ Full(block[b])
      /\ Leaving => tailBlock = frontBlock \/ Full(block[tailBlock])
  BY DEF Crowded
<1>3. CASE DeqMove
  <2>1. /\ deqPc = "move" /\ block' = block /\ tailBlock' = tailBlock
        /\ enqPc' = enqPc
    BY <1>3 DEF DeqMove, producer
  <2>2. frontBlock # tailBlock /\ Count(block[frontBlock]) = 0
    BY <2>1 DEF RingAt, ConsumerAt
  <2>3. Linked' = Linked /\ Leaving' = Leaving
    BY <2>1 DEF Linked, Leaving
  <2> QED  BY <1>2, <2>1, <2>2, <2>3 DEF Crowded
<1>4. CASE DeqFree
  <2> DEFINE f == frontBlock
             v == Succ(f, block[f].front)
             d == [block[f] EXCEPT !.front = v]
  <2>1. /\ enqPc' = enqPc /\ tailBlock' = tailBlock /\ frontBlock' = f
        /\ block' = [block EXCEPT ![f] = d]
    BY <1>4 DEF DeqFree, producer
  <2>2. /\ block[f] \in Blocks /\ f \in 1 .. Len(block) /\ BlockOK(block[f])
    BY <1>1 DEF RingAt, RingTypeOK
  <2>3. d.next = block[f].next
    BY <2>2, LinkKept
  <2> HIDE DEF d, v
  <2>4. /\ Len(block') = Len(block)
        /\ \A b \in 1 .. Len(block) : block'[b] = IF b = f THEN d ELSE block[b]
    BY <1>1, <2>1, <2>2, ReplaceBlock
  <2>5. Linked' = Linked /\ Leaving' = Leaving
    BY <2>1, <2>4 DEF Linked, Leaving
  <2>6. block'[tailBlock].next = block[tailBlock].next
    BY <1>1, <2>3, <2>4
  <2>7. \A b \in 1 .. Linked : b # f => block'[b] = block[b]
    BY <1>1, <2>4
  <2> QED  BY <1>1, <1>2, <2>1, <2>5, <2>6, <2>7 DEF Crowded
<1> QED  BY <1>3, <1>4

(* No block is made smaller, or taken out of the ring.                     *)
LEMMA RoomyStays ==
    ASSUME NEW place, NEW before, RingAt(place, before), Roomy,
           block' \in Seq(Blocks), [RingNext]_rwq,
           MaxBlockSize \in Nat, MaxBlockSize >= 2, Sizes \subseteq Nat \ {0}
    PROVE  Roomy'
<1> DEFINE made == InitialBlocks(size)
<1>1. /\ block \in Seq(Blocks) /\ Len(block) \in Nat /\ Linked \in 1 .. Len(block)
      /\ frontBlock \in 1 .. Len(block) /\ tailBlock \in 1 .. Len(block)
      /\ block[tailBlock].next \in 1 .. Len(block)
      /\ largest \in Nat
  BY RingRange DEF RingAt, RingTypeOK
<1>2. /\ size \in Sizes /\ size \in Nat /\ largest >= made.cap
      /\ Linked >= made.count
      /\ \A b \in 1 .. Len(block) : block[b].cap >= made.cap
  BY DEF Roomy
<1>3. made.cap \in Nat /\ made.count \in Nat
  BY <1>2, InitialBlocksAre
<1>4. size' = size
  BY DEF RingNext, Enqueuing, Dequeuing, EnqRoom, EnqWrite, EnqPublish, EnqFull,
         EnqNext, EnqFill, EnqBump, EnqGrow, EnqLink, EnqAdvance, EnqReturn,
         DeqLook, DeqLast, DeqAgain, DeqAhead, DeqPeek, DeqMove, DeqTake, DeqFree,
         DeqShow, DeqReturn, Sizing, ring, rwq
<1> HIDE DEF made
<1>5. CASE EnqGrow
  <2> DEFINE cap == IF largest >= MaxBlockSize THEN largest ELSE largest * 2
             c == [Block(cap, block[tailBlock].next) EXCEPT
                      !.data[0] = sent + 1, !.tail = 1, !.localTail = 1]
  <2>1. /\ enqPc = "grow"
        /\ \/ /\ block' = Append(block, c)
              /\ largest' = cap
              /\ enqPc' = "link"
           \/ enqPc' = "failed" /\ block' = block /\ largest' = largest
    BY <1>5 DEF EnqGrow
  <2>2. c.cap = cap
    BY DEF Block
  <2>3. cap \in Nat /\ cap >= largest
    BY <1>1
  <2> HIDE DEF c, cap
  <2>4. CASE enqPc' = "failed" /\ block' = block /\ largest' = largest
    <3>1. Linked' = Linked
      BY <2>1, <2>4 DEF Linked
    <3> QED  BY <1>2, <1>4, <2>4, <3>1 DEF Roomy, made
  <2>5. CASE block' = Append(block, c) /\ largest' = cap /\ enqPc' = "link"
    <3>1. /\ Len(block') = Len(block) + 1
          /\ \A b \in 1 .. Len(block) : block'[b] = block[b]
          /\ block'[Len(block) + 1] = c
      BY <1>1, <2>5
    <3>2. Linked' = Linked
      BY <1>1, <2>1, <2>5, <3>1 DEF Linked
    <3>3. cap >= made.cap
      BY <1>1, <1>2, <1>3, <2>3
    <3>4. ASSUME NEW b \in 1 .. Len(block')
          PROVE  block'[b].cap >= made.cap
      <4>1. b = Len(block) + 1 \/ b \in 1 .. Len(block)
        BY <1>1, <3>1
      <4> QED  BY <1>2, <2>2, <3>1, <3>3, <4>1
    <3> QED  BY <1>2, <1>4, <2>5, <3>2, <3>3, <3>4 DEF Roomy, made
  <2> QED  BY <2>1, <2>4, <2>5
<1>6. CASE ~ EnqGrow
  <2>1. /\ Len(block') = Len(block) /\ largest' = largest /\ Linked' >= Linked
        /\ \A b \in 1 .. Len(block) : block'[b].cap = block[b].cap
    <3>1. CASE EnqPublish
      <4> DEFINE d == [block[tailBlock] EXCEPT !.tail = Succ(tailBlock, @)]
      <4>1. block' = [block EXCEPT ![tailBlock] = d] /\ largest' = largest
            /\ enqPc # "link" /\ enqPc' # "link"
        BY <3>1 DEF EnqPublish
      <4>2. d.cap = block[tailBlock].cap
        OBVIOUS
      <4> HIDE DEF d
      <4> QED  BY <1>1, <4>1, <4>2, ReplaceBlock DEF Linked
    <3>2. CASE EnqBump
      <4> DEFINE n == block[tailBlock].next
                 d == [block[n] EXCEPT !.tail = Succ(n, @)]
      <4>1. block' = [block EXCEPT ![n] = d] /\ largest' = largest
            /\ enqPc # "link" /\ enqPc' # "link"
        BY <3>2 DEF EnqBump
      <4>2. d.cap = block[n].cap
        OBVIOUS
      <4> HIDE DEF d
      <4> QED  BY <1>1, <4>1, <4>2, ReplaceBlock DEF Linked
    <3>3. CASE EnqLink
      <4> DEFINE d == [block[tailBlock] EXCEPT !.next = Len(block)]
      <4>1. block' = [block EXCEPT ![tailBlock] = d] /\ largest' = largest
            /\ enqPc = "link" /\ enqPc' # "link"
        BY <3>3 DEF EnqLink
      <4>2. d.cap = block[tailBlock].cap
        OBVIOUS
      <4> HIDE DEF d
      <4> QED  BY <1>1, <4>1, <4>2, ReplaceBlock DEF Linked
    <3>4. CASE DeqFree
      <4> DEFINE d == [block[frontBlock] EXCEPT !.front = Succ(frontBlock, @)]
      <4>1. block' = [block EXCEPT ![frontBlock] = d] /\ largest' = largest
            /\ enqPc' = enqPc
        BY <3>4 DEF DeqFree, producer
      <4>2. d.cap = block[frontBlock].cap
        OBVIOUS
      <4> HIDE DEF d
      <4> QED  BY <1>1, <4>1, <4>2, ReplaceBlock DEF Linked
    <3>5. CASE ~ Unshaping
      <4>1. /\ Len(block') = Len(block)
            /\ \A b \in 1 .. Len(block) : SameShape(block[b], block'[b])
        BY <3>5, ShapesKept
      <4>2. largest' = largest /\ (enqPc' = "link") = (enqPc = "link")
        BY <3>5 DEF RingNext, Enqueuing, Dequeuing, Unshaping, EnqRoom, EnqWrite,
           EnqFull, EnqNext, EnqFill, EnqAdvance, EnqReturn,
           DeqLook, DeqLast, DeqAgain, DeqAhead, DeqPeek, DeqMove, DeqTake,
           DeqShow, DeqReturn, Sizing, ring, rwq, producer
      <4> QED  BY <1>1, <4>1, <4>2 DEF SameShape, Linked
    <3> QED  BY <1>6, <3>1, <3>2, <3>3, <3>4, <3>5 DEF Unshaping
  <2>2. Linked' \in Int
    BY <1>1, <2>1 DEF Linked
  <2> QED  BY <1>1, <1>2, <1>3, <1>4, <2>1, <2>2 DEF Roomy, made
<1> QED  BY <1>5, <1>6

(* The producer finds the consumer's block next only if it was there when  *)
(* it began: the consumer does not move to the block behind the producer.  *)
LEMMA HeldStays ==
    ASSUME NEW place, NEW before, RingAt(place, before), Roomy, Crowded,
           HeldEnough, [RingNext]_rwq, block' \in Seq(Blocks), 
           MaxBlockSize \in Nat, MaxBlockSize >= 2, Sizes \subseteq Nat \ {0}
    PROVE  HeldEnough'
<1>1. /\ block \in Seq(Blocks)
      /\ frontBlock \in 1 .. Len(block) /\ tailBlock \in 1 .. Len(block)
      /\ BlockOK(block[tailBlock])
  BY RingRange
<1>2. ASSUME NEW alloc \in BOOLEAN, EnqRoom(alloc) PROVE HeldEnough'
  <2> DEFINE t == tailBlock
  <2>1. /\ enqPc = "idle" /\ enqPc' \in {"write", "full"} /\ canAlloc' = alloc
        /\ held' = IF alloc THEN 0 ELSE Held
        /\ frontBlock' = frontBlock /\ t' = t /\ size' = size
    BY <1>2 DEF EnqRoom
  <2>2. enqPc' = "full" => Full(block[t])
    <3>1. enqPc' = "full" => (block[t].tail + 1) % block[t].cap = block[t].front
      BY <1>2 DEF EnqRoom, Succ
    <3> QED  BY <1>1, <3>1, BlockFull
  <2>3. block'[t].next = block[t].next
    <3>1. ~ Unshaping
      BY <1>2 DEF EnqRoom, Unshaping, EnqPublish, EnqBump, EnqGrow, EnqLink,
                  DeqFree, producer, consumer
    <3>2. SameShape(block[t], block'[t])
      BY <1>1, <1>2, <3>1, ShapesKept DEF RingNext
    <3> QED  BY <3>2 DEF SameShape
  <2>4. ASSUME enqPc' = "full", ~ canAlloc', block'[t'].next = frontBlock'
        PROVE  held' >= size'
    <3>1. Held >= size
      BY <2>1, <2>2, <2>3, <2>4, EnoughHeld
    <3> QED  BY <2>1, <2>4, <3>1
  <2> QED  BY <2>1, <2>4 DEF HeldEnough
<1>3. CASE Enqueuing \/ EnqReturn
  BY <1>3 DEF HeldEnough, Enqueuing, EnqWrite, EnqPublish, EnqFull, EnqNext,
     EnqFill, EnqBump, EnqGrow, EnqLink, EnqAdvance, EnqReturn, ring
<1>4. CASE (\E peek \in BOOLEAN : DeqLook(peek)) \/ Dequeuing \/ DeqReturn
  <2>1. enqPc' = enqPc /\ canAlloc' = canAlloc /\ held' = held
        /\ size' = size /\ tailBlock' = tailBlock
    BY <1>4 DEF Dequeuing, DeqLook, DeqLast, DeqAgain, DeqAhead, DeqPeek, DeqMove,
       DeqTake, DeqFree, DeqShow, DeqReturn, producer, ring
  <2>2. block'[tailBlock].next = block[tailBlock].next
    <3>1. CASE DeqFree
      <4> DEFINE f == frontBlock
                 v == Succ(f, block[f].front)
                 d == [block[f] EXCEPT !.front = v]
      <4>1. block' = [block EXCEPT ![f] = d]
        BY <3>1 DEF DeqFree
      <4>2. block[f] \in Blocks
        BY <1>1
      <4>3. d.next = block[f].next
        BY <4>2, LinkKept
      <4> HIDE DEF d, v
      <4> QED  BY <1>1, <4>1, <4>3, ReplaceBlock
    <3>2. CASE ~ DeqFree
      <4>1. ~ Unshaping
        BY <1>4, <3>2 DEF Unshaping, EnqPublish, EnqBump, EnqGrow, EnqLink,
           Dequeuing, DeqLook, DeqLast, DeqAgain, DeqAhead, DeqPeek, DeqMove,
           DeqTake, DeqShow, DeqReturn, producer
      <4>2. SameShape(block[tailBlock], block'[tailBlock])
        BY <1>1, <1>4, <4>1, ShapesKept DEF RingNext
      <4> QED  BY <4>2 DEF SameShape
    <3> QED  BY <3>1, <3>2
  <2>3. block[tailBlock].next = frontBlock' => block[tailBlock].next = frontBlock
    <3>1. CASE DeqMove
      <4>1. deqPc = "move" /\ frontBlock' = ahead
        BY <3>1 DEF DeqMove
      <4>2. frontBlock # tailBlock /\ ahead = block[frontBlock].next
        BY <4>1 DEF RingAt, ConsumerAt
      <4>3. block[tailBlock].next # block[frontBlock].next
        <5>1. /\ Linked \in Nat /\ frontBlock \in 1 .. Linked
              /\ tailBlock \in 1 .. Linked
          BY RingRange DEF RingAt, RingTypeOK
        <5>2. /\ place[tailBlock] \in 0 .. Linked - 1
              /\ place[frontBlock] = 0 /\ place[tailBlock] # 0
              /\ place[block[frontBlock].next] = IF 0 = Linked - 1 THEN 0 ELSE 1
              /\ place[block[tailBlock].next]
                   = IF place[tailBlock] = Linked - 1 THEN 0
                                                      ELSE place[tailBlock] + 1
          BY <4>2, <5>1 DEF RingAt, Links
        <5> QED  BY <5>1, <5>2
      <4> QED  BY <4>1, <4>2, <4>3
    <3>2. CASE ~ DeqMove
      BY <1>4, <3>2 DEF Dequeuing, DeqLook, DeqLast, DeqAgain, DeqAhead, DeqPeek,
         DeqTake, DeqFree, DeqShow, DeqReturn, ring
    <3> QED  BY <3>1, <3>2
  <2> QED  BY <2>1, <2>2, <2>3 DEF HeldEnough
<1>5. CASE Sizing \/ UNCHANGED rwq
  BY <1>5 DEF Sizing, rwq, ring, producer, HeldEnough
<1> QED  BY <1>2, <1>3, <1>4, <1>5 DEF RingNext

(* With the places of the ring, that is kept by every step.                *)
LEMMA PackedKept ==
    ASSUME RingInv, RingInv', Packed, [RingNext]_rwq,
           ReaderWriterQueueAssumption, 0 \notin Sizes
    PROVE  Packed'
<1>1. PICK place, before : RingAt(place, before)
  BY DEF RingInv
<1>2. /\ MaxBlockSize \in Nat /\ MaxBlockSize >= 2 /\ Sizes \subseteq Nat \ {0}
      /\ block' \in Seq(Blocks)
  BY DEF ReaderWriterQueueAssumption, RingInv, RingAt, RingTypeOK
<1>3. Roomy' /\ HeldEnough'
  BY <1>1, <1>2, RoomyStays, HeldStays DEF Packed
<1>4. CASE EnqPublish \/ EnqBump \/ EnqGrow \/ EnqLink \/ EnqAdvance
  BY <1>1, <1>2, <1>3, <1>4, ProducerCrowds DEF Packed
<1>5. CASE DeqMove \/ DeqFree
  BY <1>1, <1>2, <1>3, <1>5, ConsumerCrowds DEF Packed
<1>6. CASE ~ Unshaping /\ ~ EnqAdvance /\ ~ DeqMove
  <2>1. /\ frontBlock' = frontBlock /\ tailBlock' = tailBlock
        /\ (enqPc' = "advance") = (enqPc = "advance")
        /\ Leaving' => Leaving \/ Full(block[tailBlock])
    BY <1>1, <1>2, <1>6, StandingStill
  <2>2. /\ Len(block') = Len(block)
        /\ \A b \in 1 .. Len(block) : SameShape(block[b], block'[b])
    BY <1>1, <1>2, <1>6, ShapesKept
  <2>3. Linked' = Linked
    <3>1. (enqPc' = "link") = (enqPc = "link")
      BY <1>6 DEF RingNext, Enqueuing, Dequeuing, Unshaping, EnqRoom, EnqWrite,
         EnqFull, EnqNext, EnqFill, EnqAdvance, EnqReturn,
         DeqLook, DeqLast, DeqAgain, DeqAhead, DeqPeek, DeqMove, DeqTake,
         DeqShow, DeqReturn, Sizing, ring, rwq, producer
    <3> QED  BY <2>2, <3>1 DEF Linked
  <2>4. \A b \in 1 .. Linked : b \in 1 .. Len(block)
    BY <1>1, RingRange
  <2> QED  BY <1>1, <1>3, <2>1, <2>2, <2>3, <2>4, CrowdedKept DEF Packed
<1> QED  BY <1>4, <1>5, <1>6 DEF Unshaping

(* The constructor's blocks are all empty.                                 *)
LEMMA PackedAtFirst ==
    ASSUME RingInit, RingInv, ReaderWriterQueueAssumption, 0 \notin Sizes
    PROVE  Packed
<1> DEFINE n == InitialBlocks(size).count
           cap == InitialBlocks(size).cap
           to(b) == IF b = n THEN 1 ELSE b + 1
<1>1. /\ frontBlock = 1 /\ tailBlock = 1 /\ enqPc = "idle" /\ largest = cap
      /\ block = [b \in 1 .. n |-> Block(cap, to(b))]
      /\ size \in Sizes /\ size \in Nat \ {0}
  BY DEF RingInit, ReaderWriterQueueAssumption
<1>2. n \in Nat \ {0} /\ cap \in Nat
  BY <1>1, InitialBlocksAre DEF ReaderWriterQueueAssumption
<1>3. block \in Seq(Blocks)
  BY DEF RingInv, RingAt, RingTypeOK
<1> HIDE DEF n, cap, to
<1>4. Len(block) = n /\ Linked = n
  BY <1>1, <1>2, <1>3 DEF Linked
<1>5. \A b \in 1 .. n : block[b] = Block(cap, to(b))
  BY <1>1
<1>6. \A b \in 1 .. n :
         block[b].cap = cap /\ block[b].front = 0 /\ block[b].tail = 0
  <2>1. cap >= 2
    BY <1>1, InitialBlocksAre DEF cap, ReaderWriterQueueAssumption
  <2>2. \A b \in 1 .. n : to(b) \in Nat
    BY <1>2 DEF to
  <2> QED  BY <1>2, <1>5, <2>1, <2>2, BlockMade
<1>7. \A b \in 1 .. n : Count(block[b]) = 0
  BY <1>6 DEF Count, Dist
<1>8. Roomy
  BY <1>1, <1>2, <1>4, <1>6 DEF Roomy, n, cap
<1>9. Crowded /\ HeldEnough
  BY <1>1, <1>4, <1>7 DEF Crowded, HeldEnough, Leaving
<1> QED  BY <1>8, <1>9 DEF Packed

(* The blocks are crowded throughout.                                      *)
THEOREM RingPacked ==
    ASSUME 0 \notin Sizes
    PROVE  RingSpec => []Packed
<1>1. RingInit => RingInv
  BY InitEstablishes, ReaderWriterQueueAssumption DEF ReaderWriterQueueAssumption
<1>2. RingInit => Packed
  BY <1>1, PackedAtFirst, ReaderWriterQueueAssumption
<1>3. RingInv /\ [RingNext]_rwq => RingInv'
  BY StepKeeps, ReaderWriterQueueAssumption
<1>4. RingInv /\ RingInv' /\ Packed /\ [RingNext]_rwq => Packed'
  BY PackedKept, ReaderWriterQueueAssumption
<1> QED  BY <1>1, <1>2, <1>3, <1>4, PTL DEF RingSpec

(* try_enqueue gives up only if there were as many elements when it began  *)
(* as the constructor was asked to have room for.                          *)
THEOREM QueueHoldsSize ==
    ASSUME 0 \notin Sizes
    PROVE  RingSpec => []HoldsSize
<1>1. Packed => HoldsSize
  BY DEF Packed, HeldEnough, HoldsSize
<1> QED  BY <1>1, RingPacked, PTL

(***************************************************************************)
(* How many elements size_approx finds.                                    *)
(***************************************************************************)
(* The elements in the ring, the one in a block that is about to become    *)
(* the tail block included.                                                *)
Coming == IF enqPc = "advance" THEN 1 ELSE 0
Total == sent + Coming - First

(* Those of them that are in a block or behind it.                         *)
Onward(place, before, b) ==
    IF \/ place[b] <= place[tailBlock]
       \/ enqPc = "advance" /\ b = block[tailBlock].next
      THEN sent + Coming - before[b] ELSE 0

(* What a call at block b has still to count.  When the consumer has left  *)
(* the block where the call began, the ring ends there all the same.       *)
Passed(place, b) == place[walk.first] # 0 /\ place[b] >= place[walk.first]
ToCount(place, before, b) ==
    IF Passed(place, b) THEN Total ELSE Onward(place, before, b)

(* n are still to be counted, k of them in the block the call is at, of    *)
(* which it will find d.                                                   *)
Left(pc, n, k, d) == IF pc = "front" THEN n
                     ELSE IF pc = "tail" THEN n - k + d
                     ELSE IF pc = "next" THEN n - k ELSE 0

(* What the call would return if the other thread stopped.                 *)
Estimate(place, before) ==
    walk.result + LET c == block[walk.at] IN
                  Left(walk.pc, ToCount(place, before, walk.at), Count(c),
                       Dist(c.cap, walk.front, c.tail))

Walks == [by : {"none", "producer", "consumer"}, first : Nat, at : Nat,
          pc : {"idle", "front", "tail", "next", "end"}, front : Nat,
          result : Nat, begun : Nat]

(* To the producer elements only go, so that it finds no less than there   *)
(* is left; to the consumer they only come.                                *)
WalkAt(place, before) ==
    /\ walk \in Walks
    /\ walk.by = "none" <=> walk.pc = "idle"
    /\ walk.by # "none" =>
          /\ walk.first \in 1 .. Linked /\ walk.at \in 1 .. Linked
          /\ walk.pc = "tail" => walk.front < block[walk.at].cap
    /\ walk.by = "producer" =>
          /\ enqPc = "idle"
          /\ place[walk.first] # 0 => place[walk.first] > place[tailBlock]
          /\ Total <= Estimate(place, before)
          /\ Estimate(place, before) <= walk.begun
    /\ walk.by = "consumer" =>
          /\ deqPc = "idle" /\ walk.first = frontBlock
          /\ walk.pc = "tail" => walk.front = block[walk.at].front
          /\ walk.begun <= Estimate(place, before)
          /\ Estimate(place, before) <= Total

(* A block holds what is from it on but not from the next on.              *)
LEMMA OnwardStep ==
    ASSUME NEW place, NEW before, RingAt(place, before), NEW b \in 1 .. Linked
    PROVE  /\ Onward(place, before, b) \in Int /\ Count(block[b]) \in Nat
           /\ Onward(place, before, b) =
                Count(block[b]) + IF place[b] = Linked - 1 THEN 0
                                  ELSE Onward(place, before, block[b].next)
<1> DEFINE N == Linked
           t == tailBlock
           n == block[b].next
           m == block[t].next
           k == Count(block[b])
<1>1. /\ N \in Nat /\ t \in 1 .. N /\ frontBlock \in 1 .. N /\ sent \in Nat
      /\ n \in 1 .. N /\ m \in 1 .. N
      /\ before[b] \in Nat /\ before[n] \in Nat /\ k \in Nat
  <2>1. N \in Nat /\ t \in 1 .. N /\ frontBlock \in 1 .. N /\ sent \in Nat
    BY RingRange DEF RingAt, RingTypeOK
  <2>2. n \in 1 .. N /\ m \in 1 .. N
    BY <2>1 DEF RingAt, Links
  <2> QED  BY <2>1, <2>2, TakenBounds
<1>2. /\ place[b] \in 0 .. N - 1 /\ place[t] \in 0 .. N - 1
      /\ place[n] \in 0 .. N - 1
      /\ place[n] = IF place[b] = N - 1 THEN 0 ELSE place[b] + 1
      /\ place[m] = IF place[t] = N - 1 THEN 0 ELSE place[t] + 1
      /\ place[b] = place[t] => b = t
      /\ place[n] = place[t] + 1 => b = t
  <2>1. /\ \A x \in 1 .. N : place[x] \in 0 .. N - 1
        /\ \A x, y \in 1 .. N : place[x] = place[y] => x = y
        /\ \A x \in 1 .. N :
              place[block[x].next] = IF place[x] = N - 1 THEN 0 ELSE place[x] + 1
    BY DEF RingAt, Links
  <2>2. /\ place[b] \in 0 .. N - 1 /\ place[t] \in 0 .. N - 1
        /\ place[n] \in 0 .. N - 1
        /\ place[n] = IF place[b] = N - 1 THEN 0 ELSE place[b] + 1
        /\ place[m] = IF place[t] = N - 1 THEN 0 ELSE place[t] + 1
        /\ place[b] = place[t] => b = t
    BY <1>1, <2>1
  <2> HIDE DEF n, m
  <2> QED  BY <1>1, <2>2
<1>3. /\ place[b] < place[t] => before[n] = before[b] + k
      /\ b = t => before[b] + k = sent
      /\ place[b] > place[t] => k = IF enqPc = "advance" /\ b = m THEN 1 ELSE 0
      /\ enqPc = "advance" => before[m] = sent
  BY DEF RingAt, Numbered
<1>4. enqPc = "advance" => place[m] = place[t] + 1
  BY NextFree
<1>5. Coming \in {0, 1} /\ (enqPc = "advance" <=> Coming = 1)
  BY DEF Coming
<1> HIDE DEF n, m, k
<1>6. ASSUME NEW x
      PROVE  /\ place[x] <= place[t] \/ (Coming = 1 /\ x = m)
                   => Onward(place, before, x) = sent + Coming - before[x]
             /\ ~ (place[x] <= place[t]) /\ ~ (Coming = 1 /\ x = m)
                   => Onward(place, before, x) = 0
  BY <1>5, Zenon DEF Onward, m
<1>7. Onward(place, before, b) \in Int
  BY <1>1, <1>5, <1>6
<1>8. CASE place[b] < place[t]
  <2>1. /\ place[b] <= place[t] /\ place[n] <= place[t] /\ place[b] # N - 1
        /\ place[n] = place[b] + 1
    BY <1>1, <1>2, <1>8
  <2>2. /\ Onward(place, before, b) = sent + Coming - before[b]
        /\ Onward(place, before, n) = sent + Coming - before[n]
        /\ before[n] = before[b] + k
    <3>1. before[n] = before[b] + k
      BY <1>3, <1>8
    <3> QED  BY <1>6, <2>1, <3>1
  <2>3. Onward(place, before, b) = k + Onward(place, before, n)
    BY <1>1, <1>5, <2>2
  <2> QED  BY <1>1, <1>7, <2>1, <2>3 DEF n, k
<1>9. CASE place[b] = place[t]
  <2>1. b = t /\ n = m /\ before[b] + k = sent
    BY <1>2, <1>3, <1>9 DEF n, m
  <2>2. Onward(place, before, b) = k + Coming
    <3>1. Onward(place, before, b) = sent + Coming - before[b]
      BY <1>2, <1>6, <1>9
    <3> QED  BY <1>1, <1>5, <2>1, <3>1
  <2>3. CASE place[b] = N - 1
    <3>1. Coming = 0
      BY <1>1, <1>2, <1>4, <1>5, <1>9, <2>3
    <3> QED  BY <1>1, <1>7, <2>2, <2>3, <3>1 DEF k
  <2>4. CASE place[b] # N - 1
    <3>1. place[n] = place[t] + 1
      BY <1>2, <1>9, <2>4
    <3>2. Onward(place, before, n) = Coming
      BY <1>1, <1>2, <1>3, <1>5, <1>6, <2>1, <3>1
    <3> QED  BY <1>1, <1>7, <2>2, <2>4, <3>2 DEF n, k
  <2> QED  BY <2>3, <2>4
<1>10. CASE place[b] > place[t]
  <2>1. Onward(place, before, b) = k
    BY <1>1, <1>2, <1>3, <1>5, <1>6, <1>10
  <2>2. place[b] # N - 1 => Onward(place, before, n) = 0
    <3> SUFFICES ASSUME place[b] # N - 1 PROVE Onward(place, before, n) = 0
      OBVIOUS
    <3>1. place[n] = place[b] + 1 /\ place[n] > place[t] /\ place[n] # place[t] + 1
      BY <1>1, <1>2, <1>10
    <3>2. ~ (Coming = 1 /\ n = m)
      BY <1>4, <1>5, <3>1
    <3> QED  BY <1>2, <1>6, <3>1, <3>2
  <2> QED  BY <1>1, <1>7, <2>1, <2>2 DEF n, k
<1> QED  BY <1>1, <1>2, <1>8, <1>9, <1>10

(* From the front block on there is everything.                            *)
LEMMA OnwardFromFront ==
    ASSUME NEW place, NEW before, RingAt(place, before)
    PROVE  /\ Total \in Int /\ Onward(place, before, frontBlock) = Total
           /\ Held = Total - Coming
<1>1. /\ tailBlock \in 1 .. Linked /\ sent \in Nat /\ got \in Nat /\ First \in Nat
  BY DEF RingAt, RingTypeOK
<1>2. place[frontBlock] = 0 /\ place[tailBlock] \in 0 .. Linked - 1
  BY <1>1 DEF RingAt, Links
<1>3. before[frontBlock] = First
  BY DEF RingAt, Numbered
<1>4. Coming \in {0, 1}
  BY DEF Coming
<1>5. Held = sent - First
  <2>1. Contents = Nums(got, sent) /\ got <= sent
    BY ContentsIs, NotAhead
  <2>2. Len(Contents) = sent - got
    BY <1>1, <2>1 DEF Nums
  <2> QED  BY <1>1, <2>2 DEF Held, First
<1> QED  BY <1>1, <1>2, <1>3, <1>4, <1>5 DEF Onward, Total

(* What is left of the current block is a number.                          *)
LEMMA WalkNumbers ==
    ASSUME NEW place, NEW before, RingAt(place, before), NEW b \in 1 .. Linked,
           NEW i \in Nat
    PROVE  /\ Total \in Int /\ ToCount(place, before, b) \in Int
           /\ Count(block[b]) \in Nat
           /\ Dist(block[b].cap, i, block[b].tail) \in Int
<1>1. BlockOK(block[b])
  BY TakenBounds
<1>2. block[b].cap \in Nat /\ block[b].tail \in Nat
  BY <1>1, BlockFields DEF BlockOK
<1>3. Dist(block[b].cap, i, block[b].tail) \in Int
  BY <1>2 DEF Dist
<1> QED  BY <1>3, OnwardStep, OnwardFromFront DEF ToCount

(* A step that leaves all blocks their shape leaves the call as it is.     *)
LEMMA WalkQuiet ==
    ASSUME NEW place, NEW before, RingAt(place, before), WalkAt(place, before),
           walk' = walk, frontBlock' = frontBlock, tailBlock' = tailBlock,
           Linked' = Linked, sent' = sent, First' = First,
           (enqPc' = "advance") = (enqPc = "advance"),
           \A b \in 1 .. Linked : SameShape(block[b], block'[b]),
           walk.by = "producer" => enqPc' = enqPc,
           walk.by = "consumer" => deqPc' = deqPc
    PROVE  WalkAt(place, before)'
<1>1. tailBlock \in 1 .. Linked
  BY DEF RingAt, RingTypeOK
<1>2. Total' = Total
  BY DEF Total, Coming
<1>3. ASSUME NEW b \in 1 .. Linked
      PROVE  /\ block'[b].cap = block[b].cap /\ block'[b].tail = block[b].tail
             /\ block'[b].front = block[b].front
             /\ Count(block'[b]) = Count(block[b])
             /\ ToCount(place, before, b)' = ToCount(place, before, b)
  <2>1. /\ block'[b].cap = block[b].cap /\ block'[b].tail = block[b].tail
        /\ block'[b].front = block[b].front
        /\ block'[tailBlock].next = block[tailBlock].next
    BY <1>1 DEF SameShape
  <2>2. Count(block'[b]) = Count(block[b])
    BY <2>1 DEF Count
  <2>3. ToCount(place, before, b)' = ToCount(place, before, b)
    BY <1>2, <2>1 DEF ToCount, Passed, Onward, Coming
  <2> QED  BY <2>1, <2>2, <2>3
<1>4. walk.by # "none" => Estimate(place, before)' = Estimate(place, before)
  <2> SUFFICES ASSUME walk.by # "none"
               PROVE  Estimate(place, before)' = Estimate(place, before)
    OBVIOUS
  <2>1. walk.at \in 1 .. Linked
    BY DEF WalkAt, Walks
  <2> QED  BY <1>3, <2>1 DEF Estimate
<1>5. walk.by # "none" =>
         /\ walk.pc = "tail" => walk.front < block'[walk.at].cap
         /\ block'[walk.at].front = block[walk.at].front
  BY <1>3 DEF WalkAt, Walks
<1> QED  BY <1>2, <1>4, <1>5 DEF WalkAt, Walks

(* A step of the consumer takes no more from what the producer is to count *)
(* than from what there is ...                                             *)
LEMMA WalkOfProducer ==
    ASSUME NEW place, NEW before, RingAt(place, before), WalkAt(place, before),
           NEW pos, NEW after,
           walk' = walk, walk.by = "producer", enqPc' = enqPc, Linked' = Linked,
           tailBlock' = tailBlock,
           pos[walk.first] # 0 => pos[walk.first] > pos[tailBlock],
           LET b == walk.at
               n == ToCount(place, before, b)
               m == ToCount(pos, after, b)'
               k == Count(block[b])
               j == Count(block'[b]) IN
           /\ block'[b].cap = block[b].cap /\ block'[b].tail = block[b].tail
           /\ Total' \in Int /\ m \in Int /\ j \in Nat
           /\ Total' - Total <= m - n /\ m <= n
           /\ Total' - Total <= (m - j) - (n - k) /\ m - j <= n - k,
           Total' <= Total
    PROVE  WalkAt(pos, after)'
<1> DEFINE b == walk.at
           n == ToCount(place, before, b)
           m == ToCount(pos, after, b)'
           k == Count(block[b])
           j == Count(block'[b])
           d == Dist(block[b].cap, walk.front, block[b].tail)
           s == Total
           u == Total'
<1>1. /\ b \in 1 .. Linked /\ walk.result \in Nat /\ walk.front \in Nat
      /\ walk.begun \in Nat
      /\ walk.pc \in {"front", "tail", "next", "end"}
      /\ s <= Estimate(place, before) /\ Estimate(place, before) <= walk.begun
  BY DEF WalkAt, Walks
<1>2. /\ s \in Int /\ n \in Int /\ k \in Nat /\ d \in Int
  BY <1>1, WalkNumbers
<1>3. u \in Int /\ m \in Int /\ j \in Nat
  OBVIOUS
<1>4. /\ Estimate(place, before) = walk.result + Left(walk.pc, n, k, d)
      /\ Estimate(pos, after)' = walk.result + Left(walk.pc, m, j, d)
  BY DEF Estimate
<1>5. /\ u - s <= m - n /\ m <= n /\ u <= s
      /\ u - s <= (m - j) - (n - k) /\ m - j <= n - k
  OBVIOUS
<1> HIDE DEF b, n, m, k, j, d, s, u
<1>6. /\ u <= walk.result + Left(walk.pc, m, j, d)
      /\ walk.result + Left(walk.pc, m, j, d) <= walk.begun
  <2> DEFINE r == walk.result
             q == walk.begun
  <2>1. /\ r \in Nat /\ q \in Nat
        /\ s <= r + Left(walk.pc, n, k, d) /\ r + Left(walk.pc, n, k, d) <= q
    BY <1>1, <1>4
  <2> HIDE DEF r, q
  <2>2. u <= r + Left(walk.pc, m, j, d) /\ r + Left(walk.pc, m, j, d) <= q
    <3>2. CASE walk.pc = "front"
      <4>1. /\ Left(walk.pc, n, k, d) = n
            /\ Left(walk.pc, m, j, d) = m
        BY <3>2 DEF Left
      <4> QED  BY <1>2, <1>3, <1>5, <2>1, <4>1
    <3>3. CASE walk.pc = "tail"
      <4>1. /\ Left(walk.pc, n, k, d) = n - k + d
            /\ Left(walk.pc, m, j, d) = m - j + d
        BY <3>3 DEF Left
      <4> QED  BY <1>2, <1>3, <1>5, <2>1, <4>1
    <3>4. CASE walk.pc = "next"
      <4>1. /\ Left(walk.pc, n, k, d) = n - k
            /\ Left(walk.pc, m, j, d) = m - j
        BY <3>4 DEF Left
      <4> QED  BY <1>2, <1>3, <1>5, <2>1, <4>1
    <3>5. CASE walk.pc = "end"
      <4>1. /\ Left(walk.pc, n, k, d) = 0
            /\ Left(walk.pc, m, j, d) = 0
        BY <3>5 DEF Left
      <4> QED  BY <1>2, <1>3, <1>5, <2>1, <4>1
    <3> QED  BY <1>1, <3>2, <3>3, <3>4, <3>5
  <2> QED  BY <2>2 DEF r, q
<1>7. u <= Estimate(pos, after)' /\ Estimate(pos, after)' <= walk.begun
  BY <1>4, <1>6
<1> QED  BY <1>7 DEF WalkAt, Walks, u, b

(* ... and one of the producer adds no more to what the consumer is to     *)
(* count.                                                                  *)
LEMMA WalkOfConsumer ==
    ASSUME NEW place, NEW before, RingAt(place, before), WalkAt(place, before),
           NEW pos, NEW after,
           walk' = walk, walk.by = "consumer", deqPc' = deqPc,
           Linked' \in Nat, Linked <= Linked', frontBlock' = frontBlock,
           LET b == walk.at
               n == ToCount(place, before, b)
               m == ToCount(pos, after, b)'
               k == Count(block[b])
               j == Count(block'[b]) IN
           /\ block'[b].cap = block[b].cap /\ block'[b].front = block[b].front
           /\ Total' \in Int /\ m \in Int /\ j \in Nat
           /\ n <= m /\ m - n <= Total' - Total
           /\ n - k <= m - j /\ (m - j) - (n - k) <= Total' - Total,
           Total <= Total'
    PROVE  WalkAt(pos, after)'
<1> DEFINE b == walk.at
           n == ToCount(place, before, b)
           m == ToCount(pos, after, b)'
           k == Count(block[b])
           j == Count(block'[b])
           d == Dist(block[b].cap, walk.front, block[b].tail)
           e == Dist(block'[b].cap, walk.front, block'[b].tail)
           s == Total
           u == Total'
<1>1. /\ b \in 1 .. Linked /\ walk.result \in Nat /\ walk.front \in Nat
      /\ walk.begun \in Nat /\ walk.first \in 1 .. Linked
      /\ walk.pc \in {"front", "tail", "next", "end"}
      /\ walk.begun <= Estimate(place, before) /\ Estimate(place, before) <= s
      /\ walk.pc = "tail" => d = k /\ e = j
  BY DEF WalkAt, Walks, Count
<1>1a. Linked \in Nat /\ b \in 1 .. Linked' /\ walk.first \in 1 .. Linked'
  BY <1>1, RingRange
<1>2. /\ s \in Int /\ n \in Int /\ k \in Nat /\ d \in Int
  BY <1>1, WalkNumbers
<1>3. u \in Int /\ m \in Int /\ j \in Nat
  OBVIOUS
<1>4. /\ Estimate(place, before) = walk.result + Left(walk.pc, n, k, d)
      /\ Estimate(pos, after)' = walk.result + Left(walk.pc, m, j, e)
  BY DEF Estimate
<1>5. /\ n <= m /\ m - n <= u - s /\ s <= u
      /\ n - k <= m - j /\ (m - j) - (n - k) <= u - s
  OBVIOUS
<1> HIDE DEF b, n, m, k, j, d, e, s, u
<1>6. /\ walk.begun <= walk.result + Left(walk.pc, m, j, e)
      /\ walk.result + Left(walk.pc, m, j, e) <= u
  <2> DEFINE r == walk.result
             q == walk.begun
  <2>1. /\ r \in Nat /\ q \in Nat
        /\ q <= r + Left(walk.pc, n, k, d) /\ r + Left(walk.pc, n, k, d) <= s
    BY <1>1, <1>4
  <2> HIDE DEF r, q
  <2>2. q <= r + Left(walk.pc, m, j, e) /\ r + Left(walk.pc, m, j, e) <= u
    <3>2. CASE walk.pc = "front"
      <4>1. /\ Left(walk.pc, n, k, d) = n
            /\ Left(walk.pc, m, j, e) = m
        BY <3>2 DEF Left
      <4> QED  BY <1>2, <1>3, <1>5, <2>1, <4>1
    <3>3. CASE walk.pc = "tail"
      <4>1. d = k /\ e = j
        BY <1>1, <3>3
      <4>2. /\ Left(walk.pc, n, k, d) = n - k + d
            /\ Left(walk.pc, m, j, e) = m - j + e
        BY <3>3 DEF Left
      <4> QED  BY <1>2, <1>3, <1>5, <2>1, <4>1, <4>2
    <3>4. CASE walk.pc = "next"
      <4>1. /\ Left(walk.pc, n, k, d) = n - k
            /\ Left(walk.pc, m, j, e) = m - j
        BY <3>4 DEF Left
      <4> QED  BY <1>2, <1>3, <1>5, <2>1, <4>1
    <3>5. CASE walk.pc = "end"
      <4>1. /\ Left(walk.pc, n, k, d) = 0
            /\ Left(walk.pc, m, j, e) = 0
        BY <3>5 DEF Left
      <4> QED  BY <1>2, <1>3, <1>5, <2>1, <4>1
    <3> QED  BY <1>1, <3>2, <3>3, <3>4, <3>5
  <2> QED  BY <2>2 DEF r, q
<1>7. walk.begun <= Estimate(pos, after)' /\ Estimate(pos, after)' <= u
  BY <1>4, <1>6
<1>8. walk.pc = "tail" => walk.front < block'[walk.at].cap
                          /\ walk.front = block'[walk.at].front
  BY DEF WalkAt, Walks
<1> QED  BY <1>1a, <1>7, <1>8 DEF WalkAt, Walks, u, b

(* What goes on between a step of one thread and the call of the other.    *)
LEMMA WalkIdle ==
    ASSUME NEW place, NEW before, WalkAt(place, before), walk' = walk,
           walk.by = "none", NEW pos, NEW after
    PROVE  WalkAt(pos, after)'
  BY DEF WalkAt, Walks

(* An element goes: the consumer gives back its slot.                      *)
LEMMA WalkDeqFree ==
    ASSUME NEW place, NEW before, RingAt(place, before), WalkAt(place, before),
           DeqFree
    PROVE  \E after : RingAt(place, after)' /\ WalkAt(place, after)'
<1>1. PICK after :
        /\ RingAt(place, after)'
        /\ Linked' = Linked /\ First = got - 1 /\ First' = got
        /\ \A b \in 1 .. Linked :
              LET n == IF b = frontBlock THEN 1 ELSE 0 IN
              /\ after[b] = before[b] + n
              /\ block'[b].cap = block[b].cap
              /\ block'[b].tail = block[b].tail
              /\ Count(block'[b]) = Count(block[b]) - n
  BY DeqFreeKeeps
<1>2. /\ walk' = walk /\ enqPc' = enqPc /\ sent' = sent /\ tailBlock' = tailBlock
      /\ frontBlock' = frontBlock /\ deqPc = "free"
  BY DEF DeqFree, producer
<1>3. /\ frontBlock \in 1 .. Linked /\ tailBlock \in 1 .. Linked
      /\ sent \in Nat /\ got \in Nat
      /\ place[frontBlock] = 0 /\ place[tailBlock] \in 0 .. Linked - 1
      /\ \A b \in 1 .. Linked : place[b] \in 0 .. Linked - 1
  <2>1. /\ frontBlock \in 1 .. Linked /\ tailBlock \in 1 .. Linked
        /\ sent \in Nat /\ got \in Nat
    BY DEF RingAt, RingTypeOK
  <2> QED  BY <2>1 DEF RingAt, Links
<1>4. CASE walk.by = "none"
  BY <1>1, <1>2, <1>4, WalkIdle
<1>5. CASE walk.by = "consumer"
  BY <1>2, <1>5 DEF WalkAt, Walks
<1>6. CASE walk.by = "producer"
  <2> DEFINE b == walk.at
             n == ToCount(place, before, b)
             m == ToCount(place, after, b)'
             k == Count(block[b])
             j == Count(block'[b])
             x == IF b = frontBlock THEN 1 ELSE 0
  <2>1. /\ b \in 1 .. Linked /\ enqPc = "idle" /\ walk.front \in Nat
        /\ walk.first \in 1 .. Linked
        /\ place[walk.first] # 0 => place[walk.first] > place[tailBlock]
    BY <1>6 DEF WalkAt, Walks
  <2>2. /\ Total \in Int /\ n \in Int /\ k \in Nat
    BY <2>1, WalkNumbers
  <2>3. Total' = Total - 1
    BY <1>1, <1>2, <1>3, <2>1 DEF Total, Coming
  <2>4. j \in Nat /\ j = k - x
    <3>1. j = k - x
      BY <1>1, <2>1
    <3>2. b = frontBlock => k > 0
      <4>1. Taken(frontBlock) = 1
        BY <1>2 DEF Taken
      <4> QED  BY <1>3, <2>2, <4>1, TakenBounds
    <3> QED  BY <2>2, <3>1, <3>2
  <2>5. m = n - IF Passed(place, b) THEN 1 ELSE x
    <3>1. Passed(place, b)' = Passed(place, b)
      BY <1>2 DEF Passed
    <3>2. CASE Passed(place, b)
      BY <2>3, <3>1, <3>2 DEF ToCount
    <3>3. CASE ~ Passed(place, b)
      <4>1. n = Onward(place, before, b) /\ m = Onward(place, after, b)'
        BY <3>1, <3>3 DEF ToCount
      <4>2. /\ after[b] = before[b] + x /\ before[b] \in Nat
            /\ after[b] \in Nat
        BY <1>1, <2>1, TakenBounds
      <4>3. /\ Onward(place, before, b) =
                 IF place[b] <= place[tailBlock] THEN sent - before[b] ELSE 0
            /\ Onward(place, after, b)' =
                 IF place[b] <= place[tailBlock] THEN sent - after[b] ELSE 0
        <5>1. sent + 0 - before[b] = sent - before[b]
              /\ sent + 0 - after[b] = sent - after[b]
          BY <1>3, <4>2
        <5>2. Coming = 0 /\ enqPc # "advance" /\ enqPc' # "advance" /\ Coming' = 0
          BY <1>2, <2>1 DEF Coming
        <5> QED  BY <1>2, <5>1, <5>2 DEF Onward
      <4>4. x = 1 => place[b] <= place[tailBlock]
        BY <1>3
      <4>5. x \in {0, 1}
        OBVIOUS
      <4> HIDE DEF n, m, x
      <4>6. m = n - x
        BY <1>3, <2>2, <4>1, <4>2, <4>3, <4>4, <4>5
      <4> QED  BY <3>3, <4>6
    <3> QED  BY <3>2, <3>3
  <2>6. Passed(place, b) => x = 0
    BY <1>3, <2>1 DEF Passed
  <2>7. x \in {0, 1}
    OBVIOUS
  <2>8. /\ block'[b].cap = block[b].cap /\ block'[b].tail = block[b].tail
        /\ enqPc' = enqPc
    BY <1>1, <1>2, <2>1
  <2>9. /\ Total' \in Int /\ m \in Int /\ j \in Nat
        /\ Total' - Total <= m - n /\ m <= n
        /\ Total' - Total <= (m - j) - (n - k) /\ m - j <= n - k
        /\ Total' <= Total
    <3> DEFINE s == Total
               u == Total'
    <3>1. /\ s \in Int /\ n \in Int /\ k \in Nat /\ u = s - 1
          /\ j \in Nat /\ j = k - x
          /\ \/ m = n - x
             \/ x = 0 /\ m = n - 1
      BY <2>2, <2>3, <2>4, <2>5, <2>6
    <3> HIDE DEF s, u, n, m, k, j, x
    <3>2. /\ u \in Int /\ m \in Int /\ j \in Nat
          /\ u - s <= m - n /\ m <= n
          /\ u - s <= (m - j) - (n - k) /\ m - j <= n - k
          /\ u <= s
      BY <2>7, <3>1
    <3> QED  BY <3>2 DEF s, u
  <2>10. WalkAt(place, after)'
    <3> HIDE DEF x
    <3> QED  BY <1>1, <1>2, <1>6, <2>1, <2>8, <2>9, WalkOfProducer
  <2> QED  BY <1>1, <2>10
<1> QED  BY <1>4, <1>5, <1>6 DEF WalkAt, Walks

(* The consumer goes on to the next block, and leaves one that is empty.   *)
LEMMA WalkDeqMove ==
    ASSUME NEW place, NEW before, RingAt(place, before), WalkAt(place, before),
           DeqMove
    PROVE  \E pos : RingAt(pos, before)' /\ WalkAt(pos, before)'
<1> DEFINE N == Linked
           f == frontBlock
           t == tailBlock
<1>1. PICK pos : /\ RingAt(pos, before)'
                 /\ Linked' = Linked /\ First' = First
                 /\ \A b \in 1 .. Linked :
                       pos[b] = IF place[b] = 0 THEN Linked - 1
                                                ELSE place[b] - 1
  BY DeqMoveKeeps
<1>2. /\ walk' = walk /\ enqPc' = enqPc /\ sent' = sent /\ t' = t
      /\ block' = block /\ deqPc = "move" /\ f # t
  BY DEF DeqMove, producer, RingAt, ConsumerAt
<1>3. /\ N \in Nat /\ f \in 1 .. N /\ t \in 1 .. N /\ place[f] = 0
      /\ \A b \in 1 .. N : place[b] \in 0 .. N - 1
      /\ \A b \in 1 .. N : place[b] = 0 => b = f
  <2>1. N \in Nat /\ f \in 1 .. N /\ t \in 1 .. N
    BY RingRange DEF RingAt, RingTypeOK
  <2> QED  BY <2>1 DEF RingAt, Links
<1>4. place[t] # 0 /\ pos[t] = place[t] - 1
  BY <1>1, <1>2, <1>3
<1>5. CASE walk.by = "none"
  BY <1>1, <1>2, <1>5, WalkIdle
<1>6. CASE walk.by = "consumer"
  BY <1>2, <1>6 DEF WalkAt, Walks
<1>7. CASE walk.by = "producer"
  <2> DEFINE b == walk.at
             a == walk.first
             n == ToCount(place, before, b)
             m == ToCount(pos, before, b)'
             k == Count(block[b])
  <2>1. /\ b \in 1 .. N /\ a \in 1 .. N /\ enqPc = "idle" /\ walk.front \in Nat
        /\ place[a] # 0 => place[a] > place[t]
    BY <1>7 DEF WalkAt, Walks
  <2>2. /\ Total \in Int /\ n \in Int /\ k \in Nat
    BY <2>1, WalkNumbers
  <2>3. Total' = Total
    BY <1>1, <1>2 DEF Total, Coming
  <2>4. /\ place[a] \in 0 .. N - 1 /\ place[b] \in 0 .. N - 1
        /\ place[t] \in 1 .. N - 1
        /\ pos[a] = IF place[a] = 0 THEN N - 1 ELSE place[a] - 1
        /\ pos[b] = IF place[b] = 0 THEN N - 1 ELSE place[b] - 1
        /\ place[b] = 0 => b = f
        /\ place[a] = place[b] => a = b
    <3>1. /\ place[a] \in 0 .. N - 1 /\ place[b] \in 0 .. N - 1
          /\ place[t] \in 1 .. N - 1
          /\ place[b] = 0 => b = f
      BY <1>3, <1>4, <2>1
    <3>2. place[a] = place[b] => a = b
      BY <2>1 DEF RingAt, Links
    <3> QED  BY <1>1, <2>1, <3>1, <3>2
  <2>5. pos[a] # 0 => pos[a] > pos[t]
    BY <1>3, <1>4, <2>1, <2>4
  <2>6. m = n
    <3>1. /\ Onward(place, before, b) = IF place[b] <= place[t]
                                          THEN sent - before[b] ELSE 0
          /\ Onward(pos, before, b)' = IF pos[b] <= pos[t]
                                         THEN sent - before[b] ELSE 0
      <4>1. sent \in Nat /\ before[b] \in Nat
        BY <2>1, TakenBounds DEF RingAt, RingTypeOK
      <4> QED  BY <1>2, <2>1, <4>1 DEF Onward, Coming
    <3>2. /\ Passed(place, b) <=> place[a] # 0 /\ place[b] >= place[a]
          /\ Passed(pos, b)' <=> pos[a] # 0 /\ pos[b] >= pos[a]
      BY <1>2 DEF Passed
    <3>3. CASE place[b] = 0
      <4>1. n = Total
        <5>1. ~ Passed(place, b) /\ b = f
          BY <2>1, <2>4, <3>2, <3>3
        <5> QED  BY <5>1, OnwardFromFront DEF ToCount
      <4>2. Passed(pos, b)'
        <5>1. pos[b] = N - 1 /\ N - 1 >= 1
          BY <1>3, <2>4, <3>3
        <5>2. pos[a] # 0
          BY <1>3, <2>1, <2>4, <5>1
        <5> QED  BY <1>3, <2>4, <3>2, <5>1, <5>2
      <4> QED  BY <2>3, <4>1, <4>2 DEF ToCount
    <3>4. CASE place[b] # 0
      <4>1. pos[b] = place[b] - 1
        BY <2>4, <3>4
      <4>2. Onward(pos, before, b)' = Onward(place, before, b)
        <5>1. pos[b] <= pos[t] <=> place[b] <= place[t]
          BY <1>4, <2>4, <4>1
        <5> QED  BY <3>1, <5>1
      <4>3. Passed(pos, b)' <=> Passed(place, b)
        <5>1. CASE place[a] = 0
          <6>1. pos[a] = N - 1 /\ pos[b] < N - 1
            BY <1>3, <2>4, <4>1, <5>1
          <6> QED  BY <1>3, <2>4, <3>2, <5>1, <6>1
        <5>2. CASE place[a] # 0
          <6>1. pos[a] = place[a] - 1 /\ place[a] > 1
            BY <2>1, <2>4, <5>2
          <6> QED  BY <2>4, <3>2, <4>1, <5>2, <6>1
        <5> QED  BY <5>1, <5>2
      <4> QED  BY <2>3, <4>2, <4>3 DEF ToCount
    <3> QED  BY <3>3, <3>4
  <2>7. /\ block'[b].cap = block[b].cap /\ block'[b].tail = block[b].tail
        /\ Count(block'[b]) = k /\ enqPc' = enqPc
    BY <1>2
  <2>8. /\ Total' \in Int /\ m \in Int /\ Count(block'[b]) \in Nat
        /\ Total' - Total <= m - n /\ m <= n
        /\ Total' - Total <= (m - Count(block'[b])) - (n - k)
        /\ m - Count(block'[b]) <= n - k
        /\ Total' <= Total
    <3> DEFINE s == Total
               u == Total'
               j == Count(block'[b])
    <3>1. s \in Int /\ n \in Int /\ k \in Nat /\ u = s /\ m = n /\ j = k
      BY <2>2, <2>3, <2>6, <2>7
    <3> HIDE DEF s, u, n, m, k, j
    <3>2. /\ u \in Int /\ m \in Int /\ j \in Nat
          /\ u - s <= m - n /\ m <= n
          /\ u - s <= (m - j) - (n - k) /\ m - j <= n - k
          /\ u <= s
      BY <3>1
    <3> QED  BY <3>2 DEF s, u, j
  <2>9. WalkAt(pos, before)'
    BY <1>1, <1>2, <1>7, <2>1, <2>5, <2>7, <2>8, WalkOfProducer
  <2> QED  BY <1>1, <2>9
<1> QED  BY <1>5, <1>6, <1>7 DEF WalkAt, Walks

(* An element comes: it is in the block the call is at, or it is before or *)
(* behind it.                                                              *)
LEMMA WalkComes ==
    ASSUME NEW place, NEW before, RingAt(place, before), WalkAt(place, before),
           NEW pos, NEW after, NEW x \in {0, 1},
           walk' = walk, walk.by = "consumer", deqPc' = deqPc,
           frontBlock' = frontBlock, pos[frontBlock] = 0,
           Linked' \in Nat, Linked <= Linked', Total' = Total + 1,
           LET b == walk.at
               n == Onward(place, before, b)
               m == Onward(pos, after, b)' IN
           /\ Grown(block[b], block'[b], x)
           /\ m = n \/ m = n + 1
           /\ x = 1 => m = n + 1
    PROVE  WalkAt(pos, after)'
<1> DEFINE b == walk.at
           n == ToCount(place, before, b)
           m == ToCount(pos, after, b)'
           k == Count(block[b])
           j == Count(block'[b])
<1>1. b \in 1 .. Linked /\ walk.front \in Nat /\ walk.first = frontBlock
  BY DEF WalkAt, Walks
<1>2. place[frontBlock] = 0
  BY DEF RingAt, Links
<1>3. n = Onward(place, before, b) /\ m = Onward(pos, after, b)'
  BY <1>1, <1>2 DEF ToCount, Passed
<1>4. Total \in Int /\ n \in Int /\ k \in Nat
  BY <1>1, WalkNumbers
<1>5. /\ block'[b].cap = block[b].cap /\ block'[b].front = block[b].front
      /\ j = k + x
  BY DEF Grown
<1>6. /\ Total' \in Int /\ m \in Int /\ j \in Nat
      /\ n <= m /\ m - n <= Total' - Total
      /\ n - k <= m - j /\ (m - j) - (n - k) <= Total' - Total
      /\ Total <= Total'
  <2> DEFINE s == Total
             u == Total'
  <2>1. /\ s \in Int /\ n \in Int /\ k \in Nat /\ u = s + 1 /\ j = k + x
        /\ m = n \/ m = n + 1
        /\ x = 1 => m = n + 1
    BY <1>3, <1>4, <1>5
  <2> HIDE DEF s, u, n, m, k, j
  <2>2. /\ u \in Int /\ m \in Int /\ j \in Nat
        /\ n <= m /\ m - n <= u - s
        /\ n - k <= m - j /\ (m - j) - (n - k) <= u - s
        /\ s <= u
    BY <2>1
  <2> QED  BY <2>2 DEF s, u
<1> QED  BY <1>5, <1>6, WalkOfConsumer

(* An element is published in the tail block.                              *)
LEMMA WalkEnqPublish ==
    ASSUME NEW place, NEW before, RingAt(place, before), WalkAt(place, before),
           EnqPublish
    PROVE  WalkAt(place, before)'
<1>1. /\ Linked' = Linked /\ First' = First
      /\ \A b \in 1 .. Linked :
            /\ block'[b].next = block[b].next
            /\ Grown(block[b], block'[b], IF b = tailBlock THEN 1 ELSE 0)
  BY EnqPublishKeeps
<1>2. /\ walk' = walk /\ deqPc' = deqPc /\ sent' = sent + 1
      /\ tailBlock' = tailBlock /\ frontBlock' = frontBlock
      /\ enqPc = "publish" /\ enqPc' = "enqueued"
  BY DEF EnqPublish, consumer
<1>3. /\ tailBlock \in 1 .. Linked /\ sent \in Nat /\ First \in Nat
      /\ place[frontBlock] = 0 /\ Linked \in Nat
      /\ \A b \in 1 .. Linked : place[b] \in 0 .. Linked - 1
  <2>1. /\ tailBlock \in 1 .. Linked /\ sent \in Nat /\ First \in Nat
        /\ frontBlock \in 1 .. Linked /\ Linked \in Nat
    BY RingRange DEF RingAt, RingTypeOK
  <2> QED  BY <2>1 DEF RingAt, Links
<1>4. CASE walk.by = "none"
  BY <1>2, <1>4, WalkIdle
<1>5. CASE walk.by = "producer"
  BY <1>2, <1>5 DEF WalkAt, Walks
<1>6. CASE walk.by = "consumer"
  <2> DEFINE b == walk.at
             n == Onward(place, before, b)
             m == Onward(place, before, b)'
             x == IF b = tailBlock THEN 1 ELSE 0
  <2>1. b \in 1 .. Linked /\ before[b] \in Nat
    <3>1. b \in 1 .. Linked
      BY <1>6 DEF WalkAt, Walks
    <3> QED  BY <3>1, TakenBounds
  <2>2. Total' = Total + 1
    BY <1>1, <1>2, <1>3 DEF Total, Coming
  <2>3. /\ n = IF place[b] <= place[tailBlock] THEN sent - before[b] ELSE 0
        /\ m = IF place[b] <= place[tailBlock] THEN sent + 1 - before[b] ELSE 0
    <3>1. /\ sent + 0 - before[b] = sent - before[b]
          /\ sent + 1 + 0 - before[b] = sent + 1 - before[b]
      BY <1>3, <2>1
    <3>2. /\ enqPc # "advance" /\ enqPc' # "advance"
          /\ Coming = 0 /\ Coming' = 0
      BY <1>2 DEF Coming
    <3> QED  BY <1>2, <3>1, <3>2 DEF Onward
  <2>4. /\ m = n \/ m = n + 1
        /\ x = 1 => m = n + 1
    BY <1>3, <2>1, <2>3
  <2>5. Grown(block[b], block'[b], x) /\ x \in {0, 1}
    BY <1>1, <2>1
  <2> HIDE DEF x
  <2> QED  BY <1>1, <1>2, <1>3, <1>6, <2>2, <2>4, <2>5, WalkComes
<1> QED  BY <1>4, <1>5, <1>6 DEF WalkAt, Walks

(* One is published in a block that is still to become the tail block.     *)
LEMMA WalkEnqBump ==
    ASSUME NEW place, NEW before, RingAt(place, before), WalkAt(place, before),
           EnqBump
    PROVE  \E after : RingAt(place, after)' /\ WalkAt(place, after)'
<1> DEFINE t == block[tailBlock].next
<1>1. PICK after :
        /\ RingAt(place, after)'
        /\ Linked' = Linked /\ First' = First
        /\ \A b \in 1 .. Linked :
              /\ after[b] = IF b = t THEN sent ELSE before[b]
              /\ block'[b].next = block[b].next
              /\ Grown(block[b], block'[b], IF b = t THEN 1 ELSE 0)
  BY EnqBumpKeeps
<1>2. /\ walk' = walk /\ deqPc' = deqPc /\ sent' = sent
      /\ tailBlock' = tailBlock /\ frontBlock' = frontBlock
      /\ enqPc = "bump" /\ enqPc' = "advance"
  BY DEF EnqBump, consumer
<1>3. /\ tailBlock \in 1 .. Linked /\ sent \in Nat /\ First \in Nat
      /\ place[frontBlock] = 0 /\ Linked \in Nat
      /\ \A b \in 1 .. Linked : place[b] \in 0 .. Linked - 1
      /\ block'[tailBlock].next = t
  <2>1. /\ tailBlock \in 1 .. Linked /\ sent \in Nat /\ First \in Nat
        /\ place[frontBlock] = 0 /\ Linked \in Nat
        /\ \A b \in 1 .. Linked : place[b] \in 0 .. Linked - 1
    <3>1. /\ tailBlock \in 1 .. Linked /\ sent \in Nat /\ First \in Nat
          /\ frontBlock \in 1 .. Linked /\ Linked \in Nat
      BY RingRange DEF RingAt, RingTypeOK
    <3> QED  BY <3>1 DEF RingAt, Links
  <2> QED  BY <1>1, <2>1
<1>3a. place[t] = place[tailBlock] + 1 /\ place[tailBlock] \in Nat
  BY <1>2, NextFree
<1>4. CASE walk.by = "none"
  BY <1>1, <1>2, <1>4, WalkIdle
<1>5. CASE walk.by = "producer"
  BY <1>2, <1>5 DEF WalkAt, Walks
<1>6. CASE walk.by = "consumer"
  <2> DEFINE b == walk.at
             n == Onward(place, before, b)
             m == Onward(place, after, b)'
             x == IF b = t THEN 1 ELSE 0
  <2>1. b \in 1 .. Linked /\ before[b] \in Nat
        /\ after[b] = IF b = t THEN sent ELSE before[b]
    <3>1. b \in 1 .. Linked
      BY <1>6 DEF WalkAt, Walks
    <3> QED  BY <1>1, <3>1, TakenBounds
  <2>2. Total' = Total + 1
    BY <1>1, <1>2, <1>3 DEF Total, Coming
  <2>3. /\ n = IF place[b] <= place[tailBlock] THEN sent - before[b] ELSE 0
        /\ m = IF place[b] <= place[tailBlock] \/ b = t
                 THEN sent + 1 - after[b] ELSE 0
    <3>1. sent + 0 - before[b] = sent - before[b]
      BY <1>3, <2>1
    <3>2. /\ enqPc # "advance" /\ enqPc' = "advance"
          /\ Coming = 0 /\ Coming' = 1
      BY <1>2 DEF Coming
    <3> QED  BY <1>2, <1>3, <3>1, <3>2 DEF Onward
  <2>4. /\ m = n \/ m = n + 1
        /\ x = 1 => m = n + 1
    <3>1. CASE b = t
      <4>1. n = 0 /\ m = sent + 1 - sent
        BY <1>3a, <2>1, <2>3, <3>1
      <4> QED  BY <1>3, <4>1
    <3>2. CASE b # t
      BY <1>3, <2>1, <2>3, <3>2
    <3> QED  BY <3>1, <3>2
  <2>5. Grown(block[b], block'[b], x) /\ x \in {0, 1}
    BY <1>1, <2>1
  <2>6. WalkAt(place, after)'
    <3> HIDE DEF x
    <3> QED  BY <1>1, <1>2, <1>3, <1>6, <2>2, <2>4, <2>5, WalkComes
  <2> QED  BY <1>1, <2>6
<1> QED  BY <1>4, <1>5, <1>6 DEF WalkAt, Walks

(* One comes with a new block.                                             *)
LEMMA WalkEnqLink ==
    ASSUME NEW place, NEW before, RingAt(place, before), WalkAt(place, before),
           EnqLink
    PROVE  \E pos, after : RingAt(pos, after)' /\ WalkAt(pos, after)'
<1>1. PICK pos, after :
        /\ RingAt(pos, after)'
        /\ Linked' = Linked + 1 /\ First' = First
        /\ block'[tailBlock].next = Linked + 1
        /\ \A b \in 1 .. Linked :
              /\ after[b] = before[b]
              /\ pos[b] = IF place[b] > place[tailBlock] THEN place[b] + 1
                                                         ELSE place[b]
              /\ Grown(block[b], block'[b], 0)
  BY EnqLinkKeeps
<1>2. /\ walk' = walk /\ deqPc' = deqPc /\ sent' = sent
      /\ tailBlock' = tailBlock /\ frontBlock' = frontBlock
      /\ enqPc = "link" /\ enqPc' = "advance"
  BY DEF EnqLink, consumer
<1>3. /\ tailBlock \in 1 .. Linked /\ sent \in Nat /\ First \in Nat
      /\ frontBlock \in 1 .. Linked
      /\ place[frontBlock] = 0 /\ Linked \in Nat
      /\ \A b \in 1 .. Linked : place[b] \in 0 .. Linked - 1
  <2>1. /\ tailBlock \in 1 .. Linked /\ sent \in Nat /\ First \in Nat
        /\ frontBlock \in 1 .. Linked /\ Linked \in Nat
    BY RingRange DEF RingAt, RingTypeOK
  <2> QED  BY <2>1 DEF RingAt, Links
<1>4. CASE walk.by = "none"
  BY <1>1, <1>2, <1>4, WalkIdle
<1>5. CASE walk.by = "producer"
  BY <1>2, <1>5 DEF WalkAt, Walks
<1>6. CASE walk.by = "consumer"
  <2> DEFINE b == walk.at
             n == Onward(place, before, b)
             m == Onward(pos, after, b)'
             x == 0
  <2>1. b \in 1 .. Linked /\ before[b] \in Nat /\ after[b] = before[b]
        /\ b # Linked + 1
    <3>1. b \in 1 .. Linked
      BY <1>6 DEF WalkAt, Walks
    <3> QED  BY <1>1, <1>3, <3>1, TakenBounds
  <2>2. Total' = Total + 1
    BY <1>1, <1>2, <1>3 DEF Total, Coming
  <2>2a. /\ pos[b] <= pos[tailBlock] <=> place[b] <= place[tailBlock]
         /\ pos[frontBlock] = 0
    <3>1. /\ place[b] \in Nat /\ place[tailBlock] \in Nat
          /\ pos[tailBlock] = place[tailBlock]
      BY <1>1, <1>3, <2>1
    <3>2. pos[b] = IF place[b] > place[tailBlock] THEN place[b] + 1 ELSE place[b]
      BY <1>1, <2>1
    <3>3. pos[frontBlock] = 0
      BY <1>1, <1>3, <3>1
    <3> QED  BY <3>1, <3>2, <3>3
  <2>3. /\ n = IF place[b] <= place[tailBlock] THEN sent - before[b] ELSE 0
        /\ m = IF place[b] <= place[tailBlock] THEN sent + 1 - before[b] ELSE 0
    <3>1. sent + 0 - before[b] = sent - before[b]
      BY <1>3, <2>1
    <3>2. /\ enqPc # "advance" /\ enqPc' = "advance"
          /\ Coming = 0 /\ Coming' = 1
      BY <1>2 DEF Coming
    <3> QED  BY <1>1, <1>2, <2>1, <2>2a, <3>1, <3>2 DEF Onward
  <2>4. m = n \/ m = n + 1
    BY <1>3, <2>1, <2>3
  <2>5. Grown(block[b], block'[b], x) /\ x \in {0, 1} /\ ~ (x = 1)
    BY <1>1, <2>1
  <2>5a. Linked' \in Nat /\ Linked <= Linked'
    BY <1>1, <1>3
  <2>6. WalkAt(pos, after)'
    <3> HIDE DEF x
    <3> QED  BY <1>1, <1>2, <1>6, <2>2, <2>2a, <2>4, <2>5, <2>5a, WalkComes
  <2> QED  BY <1>1, <2>6
<1> QED  BY <1>4, <1>5, <1>6 DEF WalkAt, Walks

(* And with the tail block nothing comes that was not there before.        *)
LEMMA WalkEnqAdvance ==
    ASSUME NEW place, NEW before, RingAt(place, before), WalkAt(place, before),
           EnqAdvance
    PROVE  WalkAt(place, before)'
<1> DEFINE t == block[tailBlock].next
<1>1. /\ walk' = walk /\ deqPc' = deqPc /\ sent' = sent + 1
      /\ tailBlock' = t /\ frontBlock' = frontBlock /\ block' = block
      /\ enqPc = "advance" /\ enqPc' = "enqueued" /\ got' = got
  BY DEF EnqAdvance, consumer
<1>2. /\ tailBlock \in 1 .. Linked /\ sent \in Nat /\ First \in Nat
      /\ place[frontBlock] = 0 /\ Linked \in Nat
      /\ \A b \in 1 .. Linked : place[b] \in 0 .. Linked - 1
      /\ \A b, c \in 1 .. Linked : place[b] = place[c] => b = c
  <2>1. /\ tailBlock \in 1 .. Linked /\ sent \in Nat /\ First \in Nat
        /\ frontBlock \in 1 .. Linked /\ Linked \in Nat
    BY RingRange DEF RingAt, RingTypeOK
  <2> QED  BY <2>1 DEF RingAt, Links
<1>3. /\ t \in 1 .. Linked /\ place[t] = place[tailBlock] + 1
      /\ place[tailBlock] \in Nat
  BY <1>1, NextFree
<1>4. Linked' = Linked /\ First' = First
  BY <1>1 DEF Linked, First
<1>5. CASE walk.by = "none"
  BY <1>1, <1>5, WalkIdle
<1>6. CASE walk.by = "producer"
  BY <1>1, <1>6 DEF WalkAt, Walks
<1>7. CASE walk.by = "consumer"
  <2> DEFINE b == walk.at
             n == ToCount(place, before, b)
             m == ToCount(place, before, b)'
             k == Count(block[b])
  <2>1. b \in 1 .. Linked /\ before[b] \in Nat /\ walk.first = frontBlock
        /\ walk.front \in Nat
    <3>1. b \in 1 .. Linked /\ walk.first = frontBlock /\ walk.front \in Nat
      BY <1>7 DEF WalkAt, Walks
    <3> QED  BY <3>1, TakenBounds
  <2>2. Total' = Total
    BY <1>1, <1>2, <1>4 DEF Total, Coming
  <2>3. m = n
    <3>1. n = Onward(place, before, b) /\ m = Onward(place, before, b)'
      BY <1>1, <1>2, <2>1 DEF ToCount, Passed
    <3>2. place[b] <= place[t] <=> place[b] <= place[tailBlock] \/ b = t
      BY <1>2, <1>3, <2>1
    <3>3. /\ enqPc = "advance" /\ enqPc' # "advance"
          /\ Coming = 1 /\ Coming' = 0
      BY <1>1 DEF Coming
    <3>4. sent + 1 + 0 - before[b] = sent + 1 - before[b]
      BY <1>2, <2>1
    <3> QED  BY <1>1, <3>1, <3>2, <3>3, <3>4 DEF Onward
  <2>4. Total \in Int /\ n \in Int /\ k \in Nat
    BY <2>1, WalkNumbers
  <2>5. /\ Total' \in Int /\ m \in Int /\ Count(block'[b]) \in Nat
        /\ n <= m /\ m - n <= Total' - Total
        /\ n - k <= m - Count(block'[b])
        /\ (m - Count(block'[b])) - (n - k) <= Total' - Total
        /\ Total <= Total'
    <3> DEFINE s == Total
               u == Total'
               j == Count(block'[b])
    <3>1. s \in Int /\ n \in Int /\ k \in Nat /\ u = s /\ m = n /\ j = k
      BY <1>1, <2>2, <2>3, <2>4
    <3> HIDE DEF s, u, n, m, k, j
    <3>2. /\ u \in Int /\ m \in Int /\ j \in Nat
          /\ n <= m /\ m - n <= u - s
          /\ n - k <= m - j /\ (m - j) - (n - k) <= u - s
          /\ s <= u
      BY <3>1
    <3> QED  BY <3>2 DEF s, u, j
  <2> QED  BY <1>1, <1>2, <1>4, <1>7, <2>5, WalkOfConsumer
<1> QED  BY <1>5, <1>6, <1>7 DEF WalkAt, Walks

(* What size_approx adds up for a block, given where the front was.        *)
LEMMA SlotsCounted ==
    ASSUME NEW n \in Nat, NEW f \in Nat, NEW t \in Nat, f < n, t < n
    PROVE  (t + n - f) % n = Dist(n, f, t)
<1>1. CASE f <= t
  <2>1. t + n - f = (t - f) + n /\ t - f \in Nat /\ t - f < n
    BY <1>1
  <2>2. ((t - f) + n) % n = t - f
    BY <2>1, ModPlus
  <2> QED  BY <1>1, <2>1, <2>2 DEF Dist
<1>2. CASE ~ (f <= t)
  <2>1. t + n - f \in Nat /\ t + n - f < n
    BY <1>2
  <2> QED  BY <1>2, <2>1 DEF Dist
<1> QED  BY <1>1, <1>2

(* Of the elements that are still to be counted, those of a block are one  *)
(* part, and what is to be counted from the next on is the other.          *)
LEMMA ToCountStep ==
    ASSUME NEW place, NEW before, RingAt(place, before), WalkAt(place, before),
           walk.by # "none"
    PROVE  LET b == walk.at
               n == block[b].next IN
           /\ n \in 1 .. Linked
           /\ ToCount(place, before, b) - Count(block[b]) =
                IF n = walk.first THEN 0 ELSE ToCount(place, before, n)
<1> DEFINE N == Linked
           t == tailBlock
           b == walk.at
           n == block[b].next
           a == walk.first
           k == Count(block[b])
           on(c) == Onward(place, before, c)
<1>1. /\ N \in Nat /\ t \in 1 .. N /\ frontBlock \in 1 .. N
      /\ b \in 1 .. N /\ a \in 1 .. N
  BY RingRange DEF RingAt, RingTypeOK, WalkAt
<1>2. /\ n \in 1 .. N
      /\ place[b] \in 0 .. N - 1 /\ place[n] \in 0 .. N - 1
      /\ place[a] \in 0 .. N - 1 /\ place[t] \in 0 .. N - 1
      /\ place[n] = IF place[b] = N - 1 THEN 0 ELSE place[b] + 1
      /\ place[frontBlock] = 0
      /\ n = a <=> place[n] = place[a]
      /\ n = frontBlock <=> place[n] = 0
  <2>1. /\ \A x \in 1 .. N : place[x] \in 0 .. N - 1
        /\ \A x, y \in 1 .. N : place[x] = place[y] => x = y
        /\ \A x \in 1 .. N :
              /\ block[x].next \in 1 .. N
              /\ place[block[x].next] = IF place[x] = N - 1 THEN 0 ELSE place[x] + 1
        /\ place[frontBlock] = 0
    BY DEF RingAt, Links
  <2>2. /\ n \in 1 .. N
        /\ place[n] = IF place[b] = N - 1 THEN 0 ELSE place[b] + 1
    BY <1>1, <2>1
  <2> HIDE DEF n
  <2> QED  BY <1>1, <2>1, <2>2
<1>3. /\ on(b) \in Int /\ k \in Nat /\ on(n) \in Int
      /\ on(b) = k + IF place[b] = N - 1 THEN 0 ELSE on(n)
      /\ Total \in Int /\ on(frontBlock) = Total
  BY <1>1, <1>2, OnwardStep, OnwardFromFront
<1>4. /\ ToCount(place, before, b) =
           IF place[a] # 0 /\ place[b] >= place[a] THEN Total ELSE on(b)
      /\ ToCount(place, before, n) =
           IF place[a] # 0 /\ place[n] >= place[a] THEN Total ELSE on(n)
  BY DEF ToCount, Passed
<1> HIDE DEF n, on, k
<1>5. ToCount(place, before, b) - k =
         IF n = a THEN 0 ELSE ToCount(place, before, n)
  <2>1. CASE place[a] = 0
    <3>1. n = a <=> place[b] = N - 1
      BY <1>2, <2>1
    <3> QED  BY <1>3, <1>4, <2>1, <3>1
  <2>2. CASE place[a] # 0
    <3>1. walk.by = "producer" /\ enqPc = "idle" /\ place[a] > place[t]
      <4>1. walk.by = "consumer" => a = frontBlock
        BY DEF WalkAt
      <4>2. walk.by = "producer"
        BY <1>2, <2>2, <4>1 DEF WalkAt, Walks
      <4> QED  BY <2>2, <4>2 DEF WalkAt
    <3>2. \A x \in 1 .. N : place[x] > place[t] => Count(block[x]) = 0
      BY <3>1 DEF RingAt, Numbered
    <3>3. on(a) = 0
      BY <1>2, <3>1 DEF Onward, on
    <3>4. CASE place[b] >= place[a]
      <4>1. k = 0
        BY <1>1, <1>2, <3>1, <3>2, <3>4 DEF k
      <4>2. CASE place[b] = N - 1
        <5>1. n = frontBlock /\ n # a /\ ~ (place[n] >= place[a])
          BY <1>2, <2>2, <4>2
        <5> QED  BY <1>3, <1>4, <2>2, <3>4, <4>1, <5>1
      <4>3. CASE place[b] # N - 1
        <5>1. n # a /\ place[n] >= place[a]
          BY <1>2, <3>4, <4>3
        <5> QED  BY <1>3, <1>4, <2>2, <3>4, <4>1, <5>1
      <4> QED  BY <4>2, <4>3
    <3>5. CASE ~ (place[b] >= place[a])
      <4>1. place[b] # N - 1 /\ place[n] = place[b] + 1
        BY <1>2, <3>5
      <4>2. n # a => ~ (place[n] >= place[a])
        BY <1>2, <3>5, <4>1
      <4> QED  BY <1>3, <1>4, <3>3, <3>5, <4>1, <4>2
    <3> QED  BY <3>4, <3>5
  <2> QED  BY <2>1, <2>2
<1> QED  BY <1>2, <1>5 DEF n, k

(* The steps of the call itself.                                           *)
LEMMA WalkSizing ==
    ASSUME NEW place, NEW before, RingAt(place, before), WalkAt(place, before),
           Sizing
    PROVE  WalkAt(place, before)'
<1> DEFINE b == walk.at
           c == block[b]
           n == ToCount(place, before, b)
           k == Count(c)
           d == Dist(c.cap, walk.front, c.tail)
<1>1. /\ block' = block /\ frontBlock' = frontBlock /\ tailBlock' = tailBlock
      /\ sent' = sent /\ got' = got /\ enqPc' = enqPc /\ deqPc' = deqPc
  BY DEF Sizing, ring
<1>2. /\ Linked' = Linked /\ Total' = Total
      /\ \A x : Onward(place, before, x)' = Onward(place, before, x)
  BY <1>1 DEF Linked, Total, Coming, First, Onward
<1>3. /\ frontBlock \in 1 .. Linked /\ Linked \in Nat /\ place[frontBlock] = 0
      /\ Total \in Int /\ Onward(place, before, frontBlock) = Total
      /\ Held = Total - Coming /\ Held \in Nat
  <2>1. frontBlock \in 1 .. Linked /\ Linked \in Nat
    BY RingRange DEF RingAt, RingTypeOK
  <2>2. place[frontBlock] = 0
    BY DEF RingAt, Links
  <2>3. Held \in Nat
    <3>1. Contents = Nums(got, sent) /\ got <= sent
      BY ContentsIs, NotAhead
    <3>2. got \in Nat /\ sent \in Nat
      BY DEF RingAt, RingTypeOK
    <3>3. Len(Contents) = sent - got
      BY <3>1, <3>2 DEF Nums
    <3> QED  BY <3>1, <3>2, <3>3 DEF Held
  <2> QED  BY <2>1, <2>2, <2>3, OnwardFromFront
<1>4. ASSUME NEW thread \in {"producer", "consumer"}, SizeCall(thread)
      PROVE  WalkAt(place, before)'
  <2>1. /\ IF thread = "producer" THEN enqPc = "idle" ELSE deqPc = "idle"
        /\ walk' = [by |-> thread, first |-> frontBlock, at |-> frontBlock,
                    pc |-> "front", front |-> 0, result |-> 0, begun |-> Held]
    BY <1>4 DEF SizeCall
  <2>2. /\ walk' \in Walks /\ walk'.by = thread /\ walk'.first = frontBlock
        /\ walk'.at = frontBlock /\ walk'.pc = "front" /\ walk'.result = 0
        /\ walk'.begun = Held
    BY <1>3, <2>1 DEF Walks
  <2>3. Estimate(place, before)' = Total
    <3>1. ToCount(place, before, walk.at)' = Total
      BY <1>2, <1>3, <2>2 DEF ToCount, Passed
    <3>2. Estimate(place, before)' = 0 + Total
      BY <2>2, <3>1 DEF Estimate, Left
    <3> QED  BY <1>3, <3>2
  <2>4. Held <= Total /\ (enqPc = "idle" => Held = Total)
    BY <1>3 DEF Coming
  <2> QED  BY <1>1, <1>2, <1>3, <2>1, <2>2, <2>3, <2>4 DEF WalkAt
<1>5. ASSUME walk.by # "none"
      PROVE  /\ b \in 1 .. Linked /\ BlockOK(c)
             /\ Total \in Int /\ n \in Int /\ k \in Nat /\ d \in Int
             /\ c.cap \in Nat /\ c.front \in Nat /\ c.tail \in Nat
             /\ c.front < c.cap /\ c.tail < c.cap
             /\ walk.front \in Nat /\ walk.result \in Nat
  <2>1. b \in 1 .. Linked /\ walk.front \in Nat /\ walk.result \in Nat
    BY <1>5 DEF WalkAt, Walks
  <2>2. BlockOK(c)
    BY <2>1, TakenBounds
  <2>3. /\ c.cap \in Nat /\ c.front \in Nat /\ c.tail \in Nat
        /\ c.front < c.cap /\ c.tail < c.cap
    BY <2>2, BlockFields DEF BlockOK
  <2> QED  BY <2>1, <2>2, <2>3, WalkNumbers
<1>6. ASSUME Estimate(place, before)' = Estimate(place, before),
             walk.by # "none", walk'.by = walk.by, walk' \in Walks,
             walk'.first = walk.first, walk'.at \in 1 .. Linked,
             walk'.pc # "idle", walk'.begun = walk.begun,
             walk'.pc = "tail" => /\ walk'.front < block[walk'.at].cap
                                  /\ walk'.front = block[walk'.at].front
      PROVE  WalkAt(place, before)'
  BY <1>1, <1>2, <1>6 DEF WalkAt
<1>7. CASE SizeFront
  <2>1. /\ walk.pc = "front" /\ walk.by # "none"
        /\ walk' = [walk EXCEPT !.front = c.front, !.pc = "tail"]
    BY <1>7 DEF SizeFront, WalkAt
  <2>2. /\ walk' \in Walks /\ walk'.by = walk.by /\ walk'.first = walk.first
        /\ walk'.at = b /\ walk'.pc = "tail" /\ walk'.front = c.front
        /\ walk'.result = walk.result /\ walk'.begun = walk.begun
    BY <1>5, <2>1 DEF WalkAt, Walks
  <2>3. ToCount(place, before, b)' = n
    <3>1. ToCount(place, before, walk.at)' = ToCount(place, before, walk.at)
      BY <1>2, <2>2 DEF ToCount, Passed
    <3> QED  BY <2>2, <3>1
  <2>4. Estimate(place, before)' = Estimate(place, before)
    <3>1. Estimate(place, before) = walk.result + n
      BY <2>1 DEF Estimate, Left
    <3>2. Estimate(place, before)' = walk.result + (n - k + k)
      BY <1>1, <2>2, <2>3 DEF Estimate, Left, Count
    <3> QED  BY <1>5, <2>1, <3>1, <3>2
  <2> QED  BY <1>5, <1>6, <2>1, <2>2, <2>4
<1>8. CASE SizeTail
  <2> DEFINE x == (c.tail + c.cap - walk.front) % c.cap
  <2>1. /\ walk.pc = "tail" /\ walk.by # "none" /\ walk.front < c.cap
        /\ walk' = [walk EXCEPT !.result = walk.result + x, !.front = 0,
                                !.pc = "next"]
    BY <1>8 DEF SizeTail, WalkAt
  <2>2. x = d /\ x \in Nat
    <3>1. x = d
      BY <1>5, <2>1, SlotsCounted
    <3>2. d \in Nat
      BY <1>5, <2>1 DEF Dist
    <3> QED  BY <3>1, <3>2
  <2> DEFINE y == walk.result + x
  <2>2a. y \in Nat /\ y = walk.result + d
         /\ walk' = [walk EXCEPT !.result = y, !.front = 0, !.pc = "next"]
    BY <1>5, <2>1, <2>2
  <2> HIDE DEF x, y
  <2>3. /\ walk' \in Walks /\ walk'.by = walk.by /\ walk'.first = walk.first
        /\ walk'.at = b /\ walk'.pc = "next"
        /\ walk'.result = walk.result + d /\ walk'.begun = walk.begun
    BY <2>2a DEF WalkAt, Walks
  <2>4. ToCount(place, before, b)' = n
    <3>1. ToCount(place, before, walk.at)' = ToCount(place, before, walk.at)
      BY <1>2, <2>3 DEF ToCount, Passed
    <3> QED  BY <2>3, <3>1
  <2>5. Estimate(place, before)' = Estimate(place, before)
    <3>1. Estimate(place, before) = walk.result + (n - k + d)
      BY <2>1 DEF Estimate, Left
    <3>2. Estimate(place, before)' = walk.result + d + (n - k)
      BY <1>1, <2>3, <2>4 DEF Estimate, Left
    <3>3. walk.result + d + (n - k) = walk.result + (n - k + d)
      BY <1>5, <2>1
    <3> QED  BY <3>1, <3>2, <3>3
  <2> QED  BY <1>5, <1>6, <2>1, <2>3, <2>5
<1>9. CASE SizeNext
  <2> DEFINE z == c.next
             p == IF z = walk.first THEN "end" ELSE "front"
  <2>1. /\ walk.pc = "next" /\ walk.by # "none"
        /\ walk' = [walk EXCEPT !.at = z, !.pc = p]
    BY <1>9 DEF SizeNext, WalkAt
  <2>2. /\ z \in 1 .. Linked
        /\ n - k = IF z = walk.first THEN 0 ELSE ToCount(place, before, z)
    BY <2>1, ToCountStep
  <2>3. p \in {"front", "end"} /\ (p = "end" <=> z = walk.first)
    OBVIOUS
  <2> HIDE DEF z, p
  <2>4. /\ walk' \in Walks /\ walk'.by = walk.by /\ walk'.first = walk.first
        /\ walk'.at = z /\ walk'.pc = p
        /\ walk'.result = walk.result /\ walk'.begun = walk.begun
    <3>1. z \in Nat
      BY <1>3, <2>2
    <3> QED  BY <2>1, <2>3, <3>1 DEF WalkAt, Walks
  <2>5. ToCount(place, before, walk.at)' = ToCount(place, before, z)
    BY <1>2, <2>4 DEF ToCount, Passed
  <2>6. Estimate(place, before)' = Estimate(place, before)
    <3>1. Estimate(place, before) = walk.result + (n - k)
      BY <2>1 DEF Estimate, Left
    <3>2. CASE p = "front"
      <4>1. Estimate(place, before)' = walk.result + ToCount(place, before, z)
        BY <2>4, <2>5, <3>2 DEF Estimate, Left
      <4> QED  BY <2>2, <2>3, <3>1, <3>2, <4>1
    <3>3. CASE p = "end"
      <4>1. Estimate(place, before)' = walk.result + 0
        BY <2>4, <3>3 DEF Estimate, Left
      <4> QED  BY <2>2, <2>3, <3>1, <3>3, <4>1
    <3> QED  BY <2>3, <3>2, <3>3
  <2> QED  BY <1>6, <2>1, <2>2, <2>3, <2>4, <2>6
<1>10. CASE SizeReturn
  <2>1. /\ walk'.by = "none" /\ walk'.pc = "idle" /\ walk' \in Walks
    BY <1>10 DEF SizeReturn, NoWalk, Walks
  <2> QED  BY <2>1 DEF WalkAt
<1> QED  BY <1>4, <1>7, <1>8, <1>9, <1>10 DEF Sizing

-----------------------------------------------------------------------------
(* The other steps leave the call alone, and all blocks their places.      *)
LEMMA OthersStay ==
    ASSUME NEW place, NEW before, RingAt(place, before), ReaderWriterQueueAssumption,
           [RingNext]_rwq, ~ Unshaping, ~ EnqAdvance, ~ DeqMove, ~ Sizing
    PROVE  RingAt(place, before)' /\ walk' = walk /\ sent' = sent /\ First' = First
<1>1. CASE \E alloc \in BOOLEAN : EnqRoom(alloc)
  <2>1. RingAt(place, before)'
    BY <1>1, EnqRoomKeeps
  <2> QED  BY <1>1, <2>1 DEF EnqRoom, consumer, First
<1>2. CASE EnqWrite \/ EnqFull \/ EnqNext \/ EnqFill \/ EnqReturn
  <2>1. RingAt(place, before)'
    BY <1>2, EnqWriteKeeps, EnqFullKeeps, EnqNextKeeps, EnqFillKeeps, EnqReturnKeeps,
       ReaderWriterQueueAssumption DEF ReaderWriterQueueAssumption
  <2> QED
    BY <1>2, <2>1 DEF EnqWrite, EnqFull, EnqNext, EnqFill, EnqReturn, consumer, First
<1>3. CASE \E peek \in BOOLEAN : DeqLook(peek)
  <2>1. RingAt(place, before)'
    BY <1>3, DeqLookKeeps
  <2> QED  BY <1>3, <2>1 DEF DeqLook, producer, First
<1>4. CASE \/ DeqLast \/ DeqAgain \/ DeqAhead \/ DeqPeek \/ DeqShow \/ DeqReturn
  <2>1. RingAt(place, before)'
    BY <1>4, DeqLastKeeps, DeqAgainKeeps, DeqAheadKeeps, DeqPeekKeeps, DeqShowKeeps,
       DeqReturnKeeps
  <2> QED
    BY <1>4, <2>1 DEF DeqLast, DeqAgain, DeqAhead, DeqPeek, DeqShow, DeqReturn,
                      producer, First
<1>5. CASE DeqTake
  <2>1. RingAt(place, before)' /\ got' = got + 1
    BY <1>5, DeqTakeKeeps
  <2>2. /\ walk' = walk /\ sent' = sent /\ deqPc = "take" /\ deqPc' = "free"
    BY <1>5 DEF DeqTake, producer
  <2>3. got \in Nat
    BY DEF RingAt, RingTypeOK
  <2>4. got' - 1 = got
    BY <2>1, <2>3
  <2>5. First = got /\ First' = got' - 1
    BY <2>2, Zenon DEF First
  <2> QED  BY <2>1, <2>2, <2>4, <2>5
<1>6. CASE UNCHANGED rwq
  <2>1. UNCHANGED <<ring, enqPc, sent, deqPc, got, ahead, peeked, wasEmpty>>
        /\ walk' = walk
    BY <1>6 DEF rwq, ring, producer, consumer
  <2>2. RingAt(place, before)'
    BY <2>1, SizingKeeps
  <2> QED  BY <2>1, <2>2 DEF First
<1> QED
  BY <1>1, <1>2, <1>3, <1>4, <1>5, <1>6 DEF RingNext, Enqueuing, Dequeuing, Unshaping

(* The thread that is in the call is in no other.                          *)
LEMMA WalkerWaits ==
    ASSUME NEW place, NEW before, RingAt(place, before), WalkAt(place, before),
           [RingNext]_rwq
    PROVE  /\ walk.by = "producer" => enqPc' = enqPc
           /\ walk.by = "consumer" => deqPc' = deqPc
<1>1. /\ walk.by = "producer" => enqPc = "idle"
      /\ walk.by = "consumer" => deqPc = "idle"
  BY DEF WalkAt
<1>2. CASE (\E alloc \in BOOLEAN : EnqRoom(alloc)) \/ Enqueuing \/ EnqReturn
  <2>1. walk.by # "producer" /\ deqPc' = deqPc
    BY <1>1, <1>2 DEF EnqRoom, Enqueuing, EnqWrite, EnqPublish, EnqFull, EnqNext,
       EnqFill, EnqBump, EnqGrow, EnqLink, EnqAdvance, EnqReturn, consumer
  <2> QED  BY <2>1
<1>3. CASE (\E peek \in BOOLEAN : DeqLook(peek)) \/ Dequeuing \/ DeqReturn
  <2>1. walk.by # "consumer" /\ enqPc' = enqPc
    BY <1>1, <1>3 DEF DeqLook, Dequeuing, DeqLast, DeqAgain, DeqAhead, DeqPeek,
       DeqMove, DeqTake, DeqFree, DeqShow, DeqReturn, producer
  <2> QED  BY <2>1
<1>4. CASE Sizing \/ UNCHANGED rwq
  BY <1>4 DEF Sizing, rwq, producer, consumer
<1> QED  BY <1>2, <1>3, <1>4 DEF RingNext

(* A new block that is not linked yet is nothing to a call.                *)
LEMMA WalkEnqGrow ==
    ASSUME NEW place, NEW before, RingAt(place, before), WalkAt(place, before),
           EnqGrow, [RingNext]_rwq
    PROVE  WalkAt(place, before)'
<1>1. /\ walk' = walk /\ frontBlock' = frontBlock /\ tailBlock' = tailBlock
      /\ sent' = sent /\ First' = First
      /\ enqPc = "grow" /\ enqPc' \in {"link", "failed"}
      /\ \/ enqPc' = "link" /\ \E c : block' = Append(block, c)
         \/ enqPc' = "failed" /\ block' = block
  BY DEF EnqGrow, consumer, First
<1>2. block \in Seq(Blocks) /\ Len(block) \in Nat
  BY RingRange DEF RingAt, RingTypeOK
<1>3. /\ Linked' = Linked /\ Linked = Len(block)
      /\ \A b \in 1 .. Len(block) : block'[b] = block[b]
  BY <1>1, <1>2 DEF Linked
<1>4. \A b \in 1 .. Linked : SameShape(block[b], block'[b])
  BY <1>3 DEF SameShape
<1>5. /\ walk.by = "producer" => enqPc' = enqPc
      /\ walk.by = "consumer" => deqPc' = deqPc
  BY WalkerWaits
<1>6. (enqPc' = "advance") = (enqPc = "advance")
  BY <1>1
<1> QED  BY <1>1, <1>3, <1>4, <1>5, <1>6, WalkQuiet

(* The places of the ring, and a call that finds what is in it.            *)
RingWalk == \E place, before : RingAt(place, before) /\ WalkAt(place, before)

(* Every step leaves a call as good an estimate as before.                 *)
LEMMA StepKeepsWalk ==
    ASSUME RingWalk, ReaderWriterQueueAssumption, [RingNext]_rwq
    PROVE  RingWalk'
<1>1. PICK place, before : RingAt(place, before) /\ WalkAt(place, before)
  BY DEF RingWalk
<1>2. CASE Sizing
  <2>1. UNCHANGED <<ring, enqPc, sent, deqPc, got, ahead, peeked, wasEmpty>>
    BY <1>2 DEF Sizing
  <2>2. RingAt(place, before)' /\ WalkAt(place, before)'
    BY <1>1, <1>2, <2>1, SizingKeeps, WalkSizing
  <2> QED  BY <2>2 DEF RingWalk
<1>3. CASE EnqPublish
  <2>1. RingAt(place, before)' /\ WalkAt(place, before)'
    BY <1>1, <1>3, EnqPublishKeeps, WalkEnqPublish
  <2> QED  BY <2>1 DEF RingWalk
<1>4. CASE EnqBump
  <2>1. PICK after : RingAt(place, after)' /\ WalkAt(place, after)'
    BY <1>1, <1>4, WalkEnqBump
  <2> QED  BY <2>1 DEF RingWalk
<1>5. CASE EnqGrow
  <2>1. RingAt(place, before)' /\ WalkAt(place, before)'
    BY <1>1, <1>5, EnqGrowKeeps, WalkEnqGrow, ReaderWriterQueueAssumption
       DEF ReaderWriterQueueAssumption
  <2> QED  BY <2>1 DEF RingWalk
<1>6. CASE EnqLink
  <2>1. PICK pos, after : RingAt(pos, after)' /\ WalkAt(pos, after)'
    BY <1>1, <1>6, WalkEnqLink
  <2> QED  BY <2>1 DEF RingWalk
<1>7. CASE EnqAdvance
  <2>1. RingAt(place, before)' /\ WalkAt(place, before)'
    BY <1>1, <1>7, EnqAdvanceKeeps, WalkEnqAdvance
  <2> QED  BY <2>1 DEF RingWalk
<1>8. CASE DeqMove
  <2>1. PICK pos : RingAt(pos, before)' /\ WalkAt(pos, before)'
    BY <1>1, <1>8, WalkDeqMove
  <2> QED  BY <2>1 DEF RingWalk
<1>9. CASE DeqFree
  <2>1. PICK after : RingAt(place, after)' /\ WalkAt(place, after)'
    BY <1>1, <1>9, WalkDeqFree
  <2> QED  BY <2>1 DEF RingWalk
<1>10. CASE ~ Unshaping /\ ~ EnqAdvance /\ ~ DeqMove /\ ~ Sizing
  <2>1. RingAt(place, before)' /\ walk' = walk /\ sent' = sent /\ First' = First
    BY <1>1, <1>10, OthersStay
  <2>2. block' \in Seq(Blocks)
    BY <2>1 DEF RingAt, RingTypeOK
  <2>3. /\ frontBlock' = frontBlock /\ tailBlock' = tailBlock
        /\ (enqPc' = "advance") = (enqPc = "advance")
    BY <1>1, <1>10, <2>2, StandingStill
  <2>4. /\ Len(block') = Len(block)
        /\ \A b \in 1 .. Len(block) : SameShape(block[b], block'[b])
    BY <1>1, <1>10, <2>2, ShapesKept
  <2>5. (enqPc' = "link") = (enqPc = "link")
    BY <1>10 DEF RingNext, Enqueuing, Dequeuing, Unshaping, EnqRoom, EnqWrite,
       EnqFull, EnqNext, EnqFill, EnqReturn,
       DeqLook, DeqLast, DeqAgain, DeqAhead, DeqPeek, DeqTake,
       DeqShow, DeqReturn, ring, rwq, producer
  <2>6. Linked' = Linked
    BY <2>4, <2>5 DEF Linked
  <2>7. \A b \in 1 .. Linked : SameShape(block[b], block'[b])
    <3>1. \A b \in 1 .. Linked : b \in 1 .. Len(block)
      BY <1>1, RingRange
    <3> QED  BY <2>4, <3>1
  <2>8. /\ walk.by = "producer" => enqPc' = enqPc
        /\ walk.by = "consumer" => deqPc' = deqPc
    BY <1>1, WalkerWaits
  <2>9. WalkAt(place, before)'
    BY <1>1, <2>1, <2>3, <2>6, <2>7, <2>8, WalkQuiet
  <2> QED  BY <2>1, <2>9 DEF RingWalk
<1> QED
  BY <1>2, <1>3, <1>4, <1>5, <1>6, <1>7, <1>8, <1>9, <1>10 DEF Unshaping

(* At first nobody is in the call.                                         *)
LEMMA WalkAtFirst ==
    ASSUME RingInit, RingInv
    PROVE  RingWalk
<1>1. PICK place, before : RingAt(place, before)
  BY DEF RingInv
<1>2. walk = NoWalk
  BY DEF RingInit
<1>3. walk \in Walks /\ walk.by = "none" /\ walk.pc = "idle"
  BY <1>2 DEF NoWalk, Walks
<1>4. WalkAt(place, before)
  BY <1>3 DEF WalkAt
<1> QED  BY <1>1, <1>4 DEF RingWalk

(* At the end nothing is left to count.                                    *)
LEMMA WalkCounts ==
    ASSUME RingWalk, walk.pc = "end"
    PROVE  IF walk.by = "producer"
             THEN Held <= walk.result /\ walk.result <= walk.begun
             ELSE /\ walk.begun <= walk.result
                  /\ walk.result <= Held + (IF enqPc = "advance" THEN 1 ELSE 0)
<1>1. PICK place, before : RingAt(place, before) /\ WalkAt(place, before)
  BY DEF RingWalk
<1>2. /\ Total \in Int /\ Held = Total - Coming
  BY <1>1, OnwardFromFront
<1>3. walk.by \in {"producer", "consumer"} /\ walk.result \in Nat /\ walk.begun \in Nat
  BY <1>1 DEF WalkAt, Walks
<1>4. Estimate(place, before) = walk.result
  <2>1. Estimate(place, before) = walk.result + 0
    BY DEF Estimate, Left
  <2> QED  BY <1>3, <2>1
<1>5. /\ Coming \in {0, 1} /\ (IF enqPc = "advance" THEN 1 ELSE 0) = Coming
      /\ enqPc = "idle" => Coming = 0
  BY DEF Coming
<1>6. CASE walk.by = "producer"
  <2>1. /\ enqPc = "idle" /\ Total <= walk.result /\ walk.result <= walk.begun
    BY <1>1, <1>4, <1>6 DEF WalkAt
  <2> QED  BY <1>2, <1>5, <1>6, <2>1
<1>7. CASE walk.by = "consumer"
  <2>1. /\ walk.begun <= walk.result /\ walk.result <= Total
    BY <1>1, <1>4, <1>7 DEF WalkAt
  <2>2. Held + Coming = Total
    BY <1>2, <1>5
  <2> QED  BY <1>5, <1>7, <2>1, <2>2
<1> QED  BY <1>3, <1>6, <1>7

-----------------------------------------------------------------------------
(* Numbers can be added up one after the other.                            *)
LEMMA SumsExist ==
    ASSUME NEW N \in Nat, NEW g \in [0 .. N - 1 -> Nat]
    PROVE  \E s \in [0 .. N -> Nat] :
              s[0] = 0 /\ \A i \in 0 .. N - 1 : s[i + 1] = s[i] + g[i]
<1> DEFINE Sums(n) == \E s \in [0 .. n -> Nat] :
              s[0] = 0 /\ \A i \in 0 .. n - 1 : s[i + 1] = s[i] + g[i]
           D == {n \in Nat : n <= N /\ ~ Sums(n)}
<1>1. Sums(0)
  <2> DEFINE s == [i \in 0 .. 0 |-> 0]
  <2>1. s \in [0 .. 0 -> Nat] /\ s[0] = 0
    OBVIOUS
  <2>2. \A i \in 0 .. 0 - 1 : s[i + 1] = s[i] + g[i]
    OBVIOUS
  <2> HIDE DEF s
  <2> QED  BY <2>1, <2>2
<1>2. ASSUME NEW n \in Nat, n + 1 <= N, Sums(n) PROVE Sums(n + 1)
  <2>1. PICK s \in [0 .. n -> Nat] :
           s[0] = 0 /\ \A i \in 0 .. n - 1 : s[i + 1] = s[i] + g[i]
    BY <1>2
  <2>2. n \in 0 .. N - 1 /\ g[n] \in Nat /\ s[n] \in Nat
    BY <1>2
  <2> DEFINE w == s[n] + g[n]
             r == [i \in 0 .. n + 1 |-> IF i = n + 1 THEN w ELSE s[i]]
  <2>3. w \in Nat
    BY <2>2
  <2>4. /\ r \in [0 .. n + 1 -> Nat] /\ r[n + 1] = w
        /\ \A i \in 0 .. n : r[i] = s[i]
    <3> HIDE DEF w
    <3> QED  BY <1>2, <2>3
  <2>5. ASSUME NEW i \in 0 .. (n + 1) - 1 PROVE r[i + 1] = r[i] + g[i]
    <3> HIDE DEF r
    <3>1. CASE i = n
      BY <1>2, <2>4, <3>1
    <3>2. CASE i # n
      <4>1. i \in 0 .. n - 1 /\ i + 1 \in 0 .. n /\ i \in 0 .. n
        BY <1>2, <3>2
      <4> QED  BY <2>1, <2>4, <4>1
    <3> QED  BY <3>1, <3>2
  <2>6. r[0] = 0
    <3> HIDE DEF r
    <3> QED  BY <1>2, <2>1, <2>4
  <2> HIDE DEF r
  <2> QED  BY <2>4, <2>5, <2>6
<1> HIDE DEF Sums
<1>3. D = {}
  <2> SUFFICES ASSUME D # {} PROVE FALSE
    OBVIOUS
  <2>1. D \in SUBSET Nat
    OBVIOUS
  <2>2. PICK n \in D : \A m \in D : n <= m
    BY <2>1, LeastNumber
  <2>3. n \in Nat /\ n <= N /\ ~ Sums(n) /\ n # 0
    BY <1>1, <2>2
  <2>4. n - 1 \in Nat /\ (n - 1) + 1 = n /\ n - 1 <= N
    BY <2>3
  <2>5. ~ Sums(n - 1)
    BY <1>2, <2>3, <2>4
  <2>6. n - 1 \in D /\ ~ (n <= n - 1)
    BY <2>3, <2>4, <2>5
  <2> QED  BY <2>2, <2>6
<1>4. Sums(N)
  BY <1>3
<1> QED  BY <1>4 DEF Sums

(* So can the room in the blocks, from each block to the last of the ring. *)
LEMMA RoomExists ==
    ASSUME NEW place, NEW before, RingAt(place, before)
    PROVE  \E room \in [1 .. Linked -> Nat] :
              \A b \in 1 .. Linked :
                 room[b] = (block[b].cap - 1)
                             + (IF place[b] = Linked - 1 THEN 0
                                ELSE room[block[b].next])
<1> DEFINE N == Linked
           at(k) == CHOOSE b \in 1 .. N : place[b] = (N - 1) - k
           g == [k \in 0 .. N - 1 |-> block[at(k)].cap - 1]
<1>1. /\ N \in Nat /\ frontBlock \in 1 .. N /\ Links(place)
      /\ \A b \in 1 .. N : place[b] \in 0 .. N - 1
      /\ \A b, c \in 1 .. N : place[b] = place[c] => b = c
      /\ \A b \in 1 .. N :
            /\ block[b].next \in 1 .. N
            /\ place[block[b].next] = IF place[b] = N - 1 THEN 0 ELSE place[b] + 1
  <2>1. N \in Nat /\ frontBlock \in 1 .. N
    BY RingRange DEF RingAt, RingTypeOK
  <2> QED  BY <2>1 DEF RingAt, Links
<1>2. \A b \in 1 .. N : block[b].cap - 1 \in Nat
  <2>1. \A b \in 1 .. N : BlockOK(block[b])
    BY TakenBounds
  <2> QED  BY <2>1, BlockFields DEF BlockOK
<1>3. ASSUME NEW k \in 0 .. N - 1
      PROVE  at(k) \in 1 .. N /\ place[at(k)] = (N - 1) - k
  <2>1. (N - 1) - k \in 0 .. N - 1
    BY <1>1
  <2>2. \E b \in 1 .. N : place[b] = (N - 1) - k
    BY <1>1, <2>1, PlacesTaken
  <2> QED  BY <2>2
<1>4. g \in [0 .. N - 1 -> Nat]
  <2> HIDE DEF at, N
  <2> QED  BY <1>2, <1>3
<1>5. ASSUME NEW b \in 1 .. N
      PROVE  g[(N - 1) - place[b]] = block[b].cap - 1
  <2> DEFINE k == (N - 1) - place[b]
  <2>1. k \in 0 .. N - 1 /\ (N - 1) - k = place[b]
    BY <1>1
  <2>2. at(k) \in 1 .. N /\ place[at(k)] = (N - 1) - k
    BY <1>3, <2>1
  <2>3. at(k) = b
    BY <1>1, <2>1, <2>2
  <2>4. g[k] = block[at(k)].cap - 1
    BY <2>1
  <2> QED  BY <2>3, <2>4
<1> HIDE DEF g
<1>6. PICK s \in [0 .. N -> Nat] :
         s[0] = 0 /\ \A i \in 0 .. N - 1 : s[i + 1] = s[i] + g[i]
  BY <1>1, <1>4, SumsExist
<1> DEFINE room == [b \in 1 .. N |-> s[N - place[b]]]
<1>7. \A b \in 1 .. N : N - place[b] \in 0 .. N
  BY <1>1
<1>8. room \in [1 .. N -> Nat] /\ \A b \in 1 .. N : room[b] = s[N - place[b]]
  BY <1>6, <1>7
<1> HIDE DEF room
<1>9. ASSUME NEW b \in 1 .. N
      PROVE  room[b] = (block[b].cap - 1)
                         + (IF place[b] = N - 1 THEN 0 ELSE room[block[b].next])
  <2> DEFINE i == (N - 1) - place[b]
             c == block[b].cap - 1
  <2>1. i \in 0 .. N - 1 /\ i + 1 = N - place[b] /\ c \in Nat
    BY <1>1, <1>2
  <2>2. s[i + 1] = s[i] + g[i] /\ g[i] = c /\ s[i] \in Nat
    <3>1. g[i] = c
      BY <1>5
    <3> HIDE DEF i, c
    <3>2. i \in 0 .. N
      BY <1>1, <2>1
    <3> QED  BY <1>6, <2>1, <3>1, <3>2
  <2>3. room[b] = s[i] + c
    BY <1>8, <2>1, <2>2
  <2>4. s[i] = IF place[b] = N - 1 THEN 0 ELSE room[block[b].next]
    <3>1. CASE place[b] = N - 1
      BY <1>1, <1>6, <3>1
    <3>2. CASE place[b] # N - 1
      <4> DEFINE x == block[b].next
      <4>1. /\ x \in 1 .. N /\ place[x] = place[b] + 1 /\ place[b] \in 0 .. N - 1
        BY <1>1, <3>2
      <4>2. N - place[x] = i
        BY <1>1, <4>1
      <4> QED  BY <1>8, <3>2, <4>1, <4>2
    <3> QED  BY <3>1, <3>2
  <2> HIDE DEF i, c
  <2>5. s[i] + c = c + s[i]
    BY <2>1, <2>2
  <2> QED  BY <2>3, <2>4, <2>5 DEF c
<1> QED  BY <1>8, <1>9

(* It is what max_capacity adds up, link by link.                          *)
LEMMA MaxCapacityIs ==
    ASSUME NEW place, NEW before, RingAt(place, before)
    PROVE  \E room \in [1 .. Linked -> Nat] :
              /\ max_capacity = room[frontBlock]
              /\ \A b \in 1 .. Linked :
                    room[b] = (block[b].cap - 1)
                                + (IF place[b] = Linked - 1 THEN 0
                                   ELSE room[block[b].next])
<1> DEFINE N == Linked
           S == 1 .. Len(block)
<1>1. /\ N \in Nat /\ frontBlock \in 1 .. N
      /\ place[frontBlock] = 0
      /\ \A b \in 1 .. N : b \in S /\ place[b] \in 0 .. N - 1
      /\ \A b, c \in 1 .. N : place[b] = place[c] => b = c
      /\ \A b \in 1 .. N :
            /\ block[b].next \in 1 .. N
            /\ place[block[b].next] = IF place[b] = N - 1 THEN 0 ELSE place[b] + 1
  <2>1. N \in 1 .. Len(block) /\ Len(block) \in Nat /\ frontBlock \in 1 .. N
    BY RingRange DEF RingAt, RingTypeOK
  <2> QED  BY <2>1 DEF RingAt, Links
<1>2. PICK room \in [1 .. N -> Nat] :
         \A b \in 1 .. N :
            room[b] = (block[b].cap - 1)
                        + (IF place[b] = N - 1 THEN 0 ELSE room[block[b].next])
  BY RoomExists
<1>3. \A b \in 1 .. N : block[b].next = frontBlock <=> place[b] = N - 1
  <2> SUFFICES ASSUME NEW b \in 1 .. N
               PROVE  block[b].next = frontBlock <=> place[b] = N - 1
    OBVIOUS
  <2> DEFINE x == block[b].next
  <2>1. /\ x \in 1 .. N /\ place[b] \in 0 .. N - 1
        /\ place[x] = IF place[b] = N - 1 THEN 0 ELSE place[b] + 1
        /\ x = frontBlock <=> place[x] = 0
    BY <1>1
  <2> DEFINE p == place[b]
             q == place[x]
  <2>2. p \in 0 .. N - 1 /\ q = IF p = N - 1 THEN 0 ELSE p + 1
    BY <2>1
  <2> HIDE DEF p, q
  <2>3. q = 0 <=> p = N - 1
    BY <1>1, <2>2
  <2> QED  BY <2>1, <2>3 DEF p, q
<1> DEFINE rest(f, b) == IF block[b].next = frontBlock THEN 0 ELSE f[block[b].next]
           h == [b \in S |-> IF b \in 1 .. N THEN room[b]
                             ELSE block[b].cap - 1 + rest(room, b)]
           from == CHOOSE f : f = [b \in S |->
                      block[b].cap - 1
                        + (IF block[b].next = frontBlock THEN 0
                           ELSE f[block[b].next])]
<1>4. \A b \in S : h[b] = IF b \in 1 .. N THEN room[b]
                          ELSE block[b].cap - 1 + rest(room, b)
  OBVIOUS
<1>5. h = [b \in S |-> h[b]]
  OBVIOUS
<1>6. \A b \in S : block[b].next \in 1 .. N
  <2> SUFFICES ASSUME NEW b \in S, b \notin 1 .. N PROVE block[b].next \in 1 .. N
    BY <1>1
  <2>1. enqPc = "link" /\ b = Len(block)
    BY <1>1 DEF Linked
  <2>2. block[b].next = block[tailBlock].next /\ tailBlock \in 1 .. N
    BY <2>1 DEF RingAt, NewBlock, RingTypeOK
  <2> QED  BY <1>1, <2>2
<1> HIDE DEF h
<1>7. \A b \in S : h[b] = block[b].cap - 1
                            + (IF block[b].next = frontBlock THEN 0
                               ELSE h[block[b].next])
  <2> SUFFICES ASSUME NEW b \in S
               PROVE  h[b] = block[b].cap - 1
                               + (IF block[b].next = frontBlock THEN 0
                                  ELSE h[block[b].next])
    OBVIOUS
  <2>1. h[block[b].next] = room[block[b].next]
    BY <1>1, <1>4, <1>6
  <2>2. h[b] = block[b].cap - 1 + rest(room, b)
    <3>1. CASE b \in 1 .. N
      BY <1>1, <1>2, <1>3, <1>4, <3>1
    <3>2. CASE b \notin 1 .. N
      BY <1>4, <3>2
    <3> QED  BY <3>1, <3>2
  <2> QED  BY <2>1, <2>2
<1>8. from = [b \in S |-> block[b].cap - 1
                            + (IF block[b].next = frontBlock THEN 0
                               ELSE from[block[b].next])]
  <2>1. [b \in S |-> h[b]]
           = [b \in S |-> block[b].cap - 1
                            + (IF block[b].next = frontBlock THEN 0
                               ELSE h[block[b].next])]
    BY <1>7, Zenon
  <2>2. h = [b \in S |-> block[b].cap - 1
                           + (IF block[b].next = frontBlock THEN 0
                              ELSE h[block[b].next])]
    BY <1>5, <2>1, Zenon
  <2> HIDE DEF S, N
  <2> QED  BY <2>2, Zenon DEF from
<1>9. max_capacity = from[frontBlock]
  BY Zenon DEF max_capacity
<1> HIDE DEF from
<1>10. \A b \in 1 .. N : from[b] = block[b].cap - 1
                                     + (IF block[b].next = frontBlock THEN 0
                                        ELSE from[block[b].next])
  BY <1>1, <1>8, Zenon
<1> DEFINE D == {k \in Nat : \E b \in 1 .. N : /\ k = (N - 1) - place[b]
                                               /\ from[b] # room[b]}
<1>11. D = {}
  <2> SUFFICES ASSUME D # {} PROVE FALSE
    OBVIOUS
  <2>1. D \in SUBSET Nat
    OBVIOUS
  <2>2. PICK k \in D : \A m \in D : k <= m
    BY <2>1, LeastNumber
  <2>3. PICK b \in 1 .. N : k = (N - 1) - place[b] /\ from[b] # room[b]
    BY <2>2
  <2> DEFINE x == block[b].next
  <2>4. x \in 1 .. N /\ place[b] \in 0 .. N - 1
        /\ place[x] = IF place[b] = N - 1 THEN 0 ELSE place[b] + 1
    BY <1>1
  <2>5. place[b] # N - 1 /\ from[x] # room[x]
    BY <1>2, <1>3, <1>10, <2>3
  <2>6. (N - 1) - place[x] \in Nat /\ (N - 1) - place[x] = k - 1
    <3> DEFINE p == place[b]
               q == place[x]
    <3>1. p \in 0 .. N - 1 /\ q = p + 1 /\ p # N - 1 /\ k = (N - 1) - p
      BY <2>3, <2>4, <2>5
    <3> HIDE DEF p, q
    <3>2. (N - 1) - q \in Nat /\ (N - 1) - q = k - 1
      BY <1>1, <3>1
    <3> QED  BY <3>2 DEF p, q
  <2> HIDE DEF x
  <2>7. k - 1 \in D
    BY <2>4, <2>5, <2>6
  <2> QED  BY <2>1, <2>2, <2>7
<1>12. \A b \in 1 .. N : (N - 1) - place[b] \in Nat
  BY <1>1
<1>13. from[frontBlock] = room[frontBlock]
  BY <1>1, <1>11, <1>12
<1> QED  BY <1>2, <1>9, <1>13

(* It is enough for what is in the ring, and what was asked for.           *)
LEMMA CapacityBounds ==
    ASSUME RingInv, Roomy, ReaderWriterQueueAssumption, 0 \notin Sizes
    PROVE  Held <= max_capacity /\ size <= max_capacity
<1> DEFINE N == Linked
           t == tailBlock
           f == frontBlock
           made == InitialBlocks(size)
           C == made.cap - 1
<1>1. PICK place, before : RingAt(place, before)
  BY DEF RingInv
<1>2. PICK room \in [1 .. N -> Nat] :
         /\ max_capacity = room[f]
         /\ \A b \in 1 .. N :
               room[b] = (block[b].cap - 1)
                           + (IF place[b] = N - 1 THEN 0 ELSE room[block[b].next])
  BY <1>1, MaxCapacityIs
<1>3. /\ N \in Nat /\ f \in 1 .. N /\ t \in 1 .. N /\ place[f] = 0
      /\ sent \in Nat /\ got \in Nat /\ First \in Nat
      /\ \A b \in 1 .. N : place[b] \in 0 .. N - 1
      /\ \A b, c \in 1 .. N : place[b] = place[c] => b = c
      /\ \A b \in 1 .. N :
            /\ block[b].next \in 1 .. N
            /\ place[block[b].next] = IF place[b] = N - 1 THEN 0 ELSE place[b] + 1
  <2>1. /\ N \in Nat /\ f \in 1 .. N /\ t \in 1 .. N
        /\ sent \in Nat /\ got \in Nat /\ First \in Nat
    BY <1>1, RingRange DEF RingAt, RingTypeOK
  <2> QED  BY <1>1, <2>1 DEF RingAt, Links
<1>4. ASSUME NEW b \in 1 .. N
      PROVE  /\ before[b] \in Nat /\ Count(block[b]) \in Nat
             /\ block[b].cap - 1 \in Nat
             /\ Count(block[b]) <= block[b].cap - 1
             /\ block[b].cap >= made.cap
  <2>1. /\ before[b] \in Nat /\ BlockOK(block[b]) /\ b \in 1 .. Len(block)
    BY <1>1, TakenBounds
  <2>2. /\ block[b].cap \in Nat /\ Count(block[b]) \in Nat
        /\ Count(block[b]) < block[b].cap
    BY <2>1, CountBounds, BlockFields DEF BlockOK
  <2> QED  BY <2>1, <2>2 DEF Roomy
<1>5. /\ before[f] = First
      /\ before[t] + Count(block[t]) = sent
      /\ \A b \in 1 .. N : place[b] < place[t] =>
            before[block[b].next] = before[b] + Count(block[b])
  BY <1>1 DEF RingAt, Numbered
<1>6. Held <= room[f]
  <2> DEFINE D == {k \in Nat : \E b \in 1 .. N :
                      /\ place[b] <= place[t] /\ k = place[t] - place[b]
                      /\ ~ (sent - before[b] <= room[b])}
  <2>1. D = {}
    <3> SUFFICES ASSUME D # {} PROVE FALSE
      OBVIOUS
    <3>1. D \in SUBSET Nat
      OBVIOUS
    <3>2. PICK k \in D : \A m \in D : k <= m
      BY <3>1, LeastNumber
    <3>3. PICK b \in 1 .. N : /\ place[b] <= place[t] /\ k = place[t] - place[b]
                              /\ ~ (sent - before[b] <= room[b])
      BY <3>2
    <3> DEFINE x == block[b].next
               c == block[b].cap - 1
               j == Count(block[b])
               r == IF place[b] = N - 1 THEN 0 ELSE room[x]
    <3>4. /\ x \in 1 .. N /\ place[b] \in 0 .. N - 1 /\ place[t] \in 0 .. N - 1
          /\ place[x] = IF place[b] = N - 1 THEN 0 ELSE place[b] + 1
          /\ place[b] = place[t] => b = t
          /\ before[b] \in Nat /\ j \in Nat /\ c \in Nat /\ j <= c
          /\ before[x] \in Nat
      BY <1>3, <1>4
    <3>5. room[b] = c + r /\ room[x] \in Nat /\ r \in Nat
      BY <1>2, <3>4
    <3> DEFINE p == place[b]
               q == place[x]
               z == place[t]
               e == before[b]
               g == before[x]
               m == room[b]
               w == room[x]
    <3>6. /\ p \in 0 .. N - 1 /\ z \in 0 .. N - 1 /\ e \in Nat /\ g \in Nat
          /\ q = IF p = N - 1 THEN 0 ELSE p + 1
          /\ m = c + r /\ w \in Nat /\ r \in Nat /\ j \in Nat /\ c \in Nat /\ j <= c
          /\ p <= z /\ k = z - p /\ ~ (sent - e <= m)
          /\ N \in Nat /\ sent \in Nat
      <4> HIDE DEF x, c, j, r, D
      <4> QED  BY <1>3, <3>3, <3>4, <3>5
    <3>7. /\ p = z => e + j = sent
          /\ p < z => g = e + j
          /\ p # N - 1 => r = w
      BY <1>5, <3>4
    <3> HIDE DEF p, q, z, e, g, m, w, c, j, r, N, D
    <3>8. p < z /\ p # N - 1 /\ q = p + 1
      BY <3>6, <3>7
    <3>9. ~ (sent - g <= w) /\ q <= z /\ k - 1 = z - q /\ k - 1 \in Nat
      BY <3>6, <3>7, <3>8
    <3>10. k - 1 \in D
      <4> USE DEF N, D
      <4> QED  BY <3>4, <3>9 DEF g, w, q, z
    <3> QED  BY <3>1, <3>2, <3>10
  <2>2. place[t] - place[f] \in Nat /\ place[f] <= place[t]
    BY <1>3
  <2>3. sent - before[f] <= room[f]
    BY <1>3, <2>1, <2>2
  <2>4. /\ Total \in Int /\ Held = Total - Coming /\ Coming \in {0, 1}
        /\ Total = sent + Coming - First
    BY <1>1, OnwardFromFront DEF Coming, Total
  <2>5. Held = sent - First
    BY <1>3, <2>4
  <2> QED  BY <1>5, <2>3, <2>5
<1>7. size <= room[f]
  <2>1. /\ size \in Nat /\ size # 0 /\ made.count \in Nat /\ N >= made.count
        /\ MaxBlockSize \in Nat /\ MaxBlockSize >= 2
    BY InitialBlocksAre DEF Roomy, ReaderWriterQueueAssumption
  <2>2. /\ made.cap \in Nat /\ C \in Nat
        /\ N = 1 => C >= size
        /\ N # 1 => (N - 1) * C >= size
    BY <1>3, <2>1, BlocksSuffice
  <2> HIDE DEF made, C
  <2> DEFINE D == {k \in Nat : \E b \in 1 .. N :
                      k = (N - 1) - place[b] /\ ~ ((k + 1) * C <= room[b])}
  <2>3. D = {}
    <3> SUFFICES ASSUME D # {} PROVE FALSE
      OBVIOUS
    <3>1. D \in SUBSET Nat
      OBVIOUS
    <3>2. PICK k \in D : \A m \in D : k <= m
      BY <3>1, LeastNumber
    <3>3. PICK b \in 1 .. N : k = (N - 1) - place[b] /\ ~ ((k + 1) * C <= room[b])
      BY <3>2
    <3> DEFINE x == block[b].next
               c == block[b].cap - 1
               r == IF place[b] = N - 1 THEN 0 ELSE room[x]
    <3>4. /\ x \in 1 .. N /\ place[b] \in 0 .. N - 1
          /\ place[x] = IF place[b] = N - 1 THEN 0 ELSE place[b] + 1
      BY <1>3
    <3>5. room[b] = c + r /\ room[x] \in Nat /\ r \in Nat
      BY <1>2, <3>4
    <3>6. c \in Nat /\ c >= C
      <4>1. /\ c \in Nat /\ block[b].cap >= made.cap
        BY <1>4
      <4> DEFINE y == block[b].cap
                 v == made.cap
      <4>2. y - 1 \in Nat /\ y >= v /\ v \in Nat /\ y \in Nat
        <5>1. BlockOK(block[b])
          BY <1>1, TakenBounds
        <5>2. y \in Nat
          BY <5>1, BlockFields DEF BlockOK
        <5> QED  BY <2>2, <4>1, <5>2
      <4> HIDE DEF y, v
      <4>3. y - 1 >= v - 1
        BY <4>2
      <4> QED  BY <4>1, <4>3 DEF C, y, v
    <3> HIDE DEF c
    <3>7. CASE place[b] = N - 1
      <4>1. k = 0 /\ (k + 1) * C = C
        BY <1>3, <2>2, <3>3, <3>7
      <4> HIDE DEF r
      <4> QED  BY <2>2, <3>3, <3>5, <3>6, <4>1
    <3>8. CASE place[b] # N - 1
      <4>1. k - 1 \in Nat /\ k - 1 = (N - 1) - place[x]
        <5> DEFINE p == place[b]
                   q == place[x]
        <5>1. p \in 0 .. N - 1 /\ q = p + 1 /\ p # N - 1 /\ k = (N - 1) - p
          BY <3>3, <3>4, <3>8
        <5> HIDE DEF p, q
        <5>2. k - 1 \in Nat /\ k - 1 = (N - 1) - q
          BY <1>3, <5>1
        <5> QED  BY <5>2 DEF q
      <4>2. (k + 1) * C = k * C + C /\ ((k - 1) + 1) * C = k * C /\ k * C \in Nat
        BY <2>2, <4>1
      <4>3. r = room[x]
        BY <3>8
      <4>4. ~ (((k - 1) + 1) * C <= room[x])
        <5> DEFINE y == k * C
                   w == room[x]
        <5>1. y \in Nat /\ (k + 1) * C = y + C /\ ((k - 1) + 1) * C = y
          BY <4>2
        <5> HIDE DEF y, r
        <5>2. ~ (y + C <= c + w) /\ w \in Nat
          BY <3>3, <3>5, <4>3, <5>1
        <5> HIDE DEF w
        <5>3. ~ (y <= w)
          BY <2>2, <3>6, <5>1, <5>2
        <5> QED  BY <5>1, <5>3 DEF w
      <4>5. k - 1 \in D
        BY <3>4, <4>1, <4>4
      <4> QED  BY <3>1, <3>2, <4>5
    <3> QED  BY <3>7, <3>8
  <2>4. (N - 1) - place[f] = N - 1 /\ N - 1 \in Nat
    BY <1>3
  <2>5. ((N - 1) + 1) * C <= room[f]
    BY <1>3, <2>3, <2>4
  <2>6. size <= ((N - 1) + 1) * C
    <3>1. ((N - 1) + 1) * C = (N - 1) * C + C /\ (N - 1) * C \in Nat
      BY <2>2, <2>4
    <3> DEFINE y == (N - 1) * C
    <3>2. ((N - 1) + 1) * C = y + C /\ y \in Nat /\ (N # 1 => y >= size)
      BY <2>2, <3>1
    <3> HIDE DEF y
    <3>3. size <= y + C
      BY <1>3, <2>1, <2>2, <3>2
    <3> QED  BY <3>2, <3>3
  <2>7. room[f] \in Nat
    BY <1>2, <1>3
  <2> DEFINE z == ((N - 1) + 1) * C
  <2>8. z \in Int /\ z <= room[f] /\ size <= z
    BY <2>2, <2>4, <2>5, <2>6
  <2> HIDE DEF z
  <2> QED  BY <2>1, <2>7, <2>8
<1> QED  BY <1>2, <1>6, <1>7

(* What the ring holds, and a call finds in it.                            *)
THEOREM RingWalks ==
    ASSUME 0 \notin Sizes
    PROVE  RingSpec => []RingWalk
<1>1. RingInit => RingWalk
  BY InitEstablishes, WalkAtFirst, ReaderWriterQueueAssumption
     DEF ReaderWriterQueueAssumption
<1>2. RingWalk /\ [RingNext]_rwq => RingWalk'
  BY StepKeepsWalk, ReaderWriterQueueAssumption
<1> QED  BY <1>1, <1>2, PTL DEF RingSpec

(* size_approx is no further off than the other thread has moved, and      *)
(* max_capacity no less than there is or was asked for.                    *)
THEOREM QueueSizeBounds ==
    ASSUME 0 \notin Sizes
    PROVE  RingSpec => []SizeBounds
<1>1. RingWalk /\ Packed => SizeBounds
  <2> SUFFICES ASSUME RingWalk, Packed PROVE SizeBounds
    OBVIOUS
  <2>1. RingInv
    BY DEF RingWalk, RingInv
  <2>2. Held <= max_capacity /\ size <= max_capacity
    BY <2>1, CapacityBounds, ReaderWriterQueueAssumption DEF Packed
  <2> QED  BY <2>2, WalkCounts DEF SizeBounds
<1> QED  BY <1>1, RingWalks, RingPacked, PTL
=============================================================================
