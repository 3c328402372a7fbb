-------------------------- MODULE ReaderWriterQueue --------------------------
(***************************************************************************)
(* ReaderWriterQueue<T, MAX_BLOCK_SIZE> (queue/readerwriterqueue.h): a     *)
(* lock-free queue for one producer and one consumer, a ring of blocks     *)
(* that are rings of slots.  The producer owns the tails, tailBlock and    *)
(* the links; the consumer owns the fronts and frontBlock.                 *)
(*                                                                         *)
(* Every step is at most one access to what the other thread writes, in    *)
(* the order of the program, which is what the fences are there to give.   *)
(* The i-th element to be enqueued is the number i; 0 is an empty slot.    *)
(***************************************************************************)
EXTENDS Naturals, Sequences, PowersOfTwo

CONSTANTS Sizes,         \* sizes that may be given to the constructor
          MaxBlockSize,  \* MAX_BLOCK_SIZE
          MaxBlocks,     \* blocks there is memory for
          MaxItems       \* elements that are enqueued

ASSUME ReaderWriterQueueAssumption ==
    /\ Sizes \subseteq Nat
    /\ MaxBlockSize \in Nat /\ MaxBlockSize >= 2
    /\ MaxBlockSize = CeilToPow2(MaxBlockSize)
    /\ MaxBlocks \in Nat \ {0}
    /\ MaxItems \in Nat

VARIABLES size,          \* what the constructor was given
          block,         \* the blocks, in the order of their allocation
          frontBlock,    \* the block to dequeue from
          tailBlock,     \* the block to enqueue to
          largest,       \* largestBlockSize
          enqPc,         \* the producer, in inner_enqueue
          canAlloc,      \* enqueue or try_enqueue
          sent,          \* elements enqueued so far
          held,          \* history: elements there when try_enqueue looked first
          deqPc,         \* the consumer, in try_dequeue, pop or peek
          peeking,       \* whether it is in peek
          ahead,         \* nextBlock
          got,           \* the element last dequeued
          peeked,        \* history: what peek has shown of what is next, or 0
          wasEmpty,      \* history: there were none when it looked first
          walk           \* the call of size_approx, or NoWalk

producer == <<enqPc, canAlloc, sent, held, walk>>
consumer == <<deqPc, peeking, ahead, got, peeked, wasEmpty, walk>>
ring     == <<size, block, frontBlock, tailBlock, largest>>
rwq      == <<ring, producer, consumer>>

Block(cap, next) ==
    [cap |-> cap, next |-> next, front |-> 0, localTail |-> 0, tail |-> 0,
     localFront |-> 0, data |-> [i \in 0 .. cap - 1 |-> 0]]

Succ(b, i) == (i + 1) % block[b].cap

NoWalk == [by |-> "none", first |-> 1, at |-> 1, pc |-> "idle", front |-> 0,
           result |-> 0, begun |-> 0]
-----------------------------------------------------------------------------
(* The constructor.  Mutant: no spare slot is asked for. *)

BlocksNoSpare(n) == [count |-> 1, cap |-> CeilToPow2(n)]

(* Blocks of at most MaxBlockSize, one more than the elements need, unless *)
(* one block of up to twice that size will do.                             *)
InitialBlocks(n) ==
    IF CeilToPow2(n + 1) > MaxBlockSize * 2
      THEN [count |-> (n + MaxBlockSize * 2 - 3) \div (MaxBlockSize - 1),
            cap   |-> MaxBlockSize]
      ELSE [count |-> 1, cap |-> CeilToPow2(n + 1)]

RingInit ==
    /\ size \in Sizes
    /\ LET blocks == InitialBlocks(size) IN
          /\ block = [b \in 1 .. blocks.count |->
                        Block(blocks.cap, IF b = blocks.count THEN 1 ELSE b + 1)]
          /\ largest = blocks.cap
    /\ frontBlock = 1
    /\ tailBlock = 1
    /\ enqPc = "idle"
    /\ canAlloc = FALSE
    /\ sent = 0
    /\ held = 0
    /\ deqPc = "idle"
    /\ peeking = FALSE
    /\ ahead = 1
    /\ got = 0
    /\ peeked = 0
    /\ wasEmpty = FALSE
    /\ walk = NoWalk
-----------------------------------------------------------------------------
(* What the ring holds: the slots from front to tail of each block, from   *)
(* frontBlock to tailBlock.  A slot that was read is no longer counted.    *)

Unread(b) ==
    LET first == IF b = frontBlock /\ deqPc = "free"
                   THEN Succ(b, block[b].front) ELSE block[b].front
        n     == (block[b].tail + block[b].cap - first) % block[b].cap
    IN  [i \in 1 .. n |-> block[b].data[(first + i - 1) % block[b].cap]]

Through(last) ==
    LET from[b \in 1 .. Len(block)] ==
            IF b = last THEN Unread(b) ELSE Unread(b) \o from[block[b].next]
    IN  from[frontBlock]

Contents == Through(tailBlock)

(* The number of elements, the one that is being dequeued included. *)
Held == Len(Contents) + (IF deqPc = "free" THEN 1 ELSE 0)

(* The destructor, which both threads must be done with: from front to     *)
(* tail of each block, all around the ring.                                *)
Destroyed ==
    Through(CHOOSE b \in 1 .. Len(block) : block[b].next = frontBlock)

max_capacity ==
    LET from[b \in 1 .. Len(block)] ==
            block[b].cap - 1
              + (IF block[b].next = frontBlock THEN 0 ELSE from[block[b].next])
    IN  from[frontBlock]
-----------------------------------------------------------------------------
(* enqueue and try_enqueue: inner_enqueue *)

(* Is there room in the tail block? *)
EnqRoom(alloc) ==
    LET b == tailBlock
        n == Succ(b, block[b].tail) IN
    /\ enqPc = "idle"
    /\ walk.by # "producer"
    /\ sent < MaxItems
    /\ canAlloc' = alloc
    /\ held' = IF alloc THEN 0 ELSE Held
    /\ \/ /\ n # block[b].localFront
          /\ enqPc' = "write"
          /\ UNCHANGED block
       \/ /\ n = block[b].localFront
          /\ block' = [block EXCEPT ![b].localFront = block[b].front]
          /\ enqPc' = IF n # block[b].front THEN "write" ELSE "full"
    /\ UNCHANGED <<size, frontBlock, tailBlock, largest, sent, consumer>>

EnqWrite ==
    /\ enqPc = "write"
    /\ block' = [block EXCEPT ![tailBlock].data[block[tailBlock].tail] = sent + 1]
    /\ enqPc' = "publish"
    /\ UNCHANGED <<size, frontBlock, tailBlock, largest, canAlloc, sent, held,
                   consumer>>

EnqPublish ==
    /\ enqPc = "publish"
    /\ block' = [block EXCEPT ![tailBlock].tail = Succ(tailBlock, @)]
    /\ sent' = sent + 1
    /\ enqPc' = "enqueued"
    /\ UNCHANGED <<size, frontBlock, tailBlock, largest, canAlloc, held, consumer>>

(* A next block that the consumer is not in is free.  Mutant: the producer *)
(* goes on to the next block wherever the consumer is.                     *)
EnqFullNoCheck ==
    /\ enqPc = "full"
    /\ enqPc' = "next"
    /\ UNCHANGED <<ring, canAlloc, sent, held, consumer>>

EnqFull ==
    /\ enqPc = "full"
    /\ enqPc' = IF block[tailBlock].next # frontBlock THEN "next"
                ELSE IF canAlloc THEN "grow" ELSE "failed"
    /\ UNCHANGED <<ring, canAlloc, sent, held, consumer>>

EnqNext ==
    LET b == block[tailBlock].next IN
    /\ enqPc = "next"
    /\ block' = [block EXCEPT ![b].localFront = block[b].front]
    /\ enqPc' = "fill"
    /\ UNCHANGED <<size, frontBlock, tailBlock, largest, canAlloc, sent, held,
                   consumer>>

EnqFill ==
    LET b == block[tailBlock].next IN
    /\ enqPc = "fill"
    /\ block' = [block EXCEPT ![b].data[block[b].tail] = sent + 1]
    /\ enqPc' = "bump"
    /\ UNCHANGED <<size, frontBlock, tailBlock, largest, canAlloc, sent, held,
                   consumer>>

EnqBump ==
    LET b == block[tailBlock].next IN
    /\ enqPc = "bump"
    /\ block' = [block EXCEPT ![b].tail = Succ(b, @)]
    /\ enqPc' = "advance"
    /\ UNCHANGED <<size, frontBlock, tailBlock, largest, canAlloc, sent, held,
                   consumer>>

(* make_block may fail; a new block is filled before it is linked. *)
EnqGrow ==
    LET cap == IF largest >= MaxBlockSize THEN largest ELSE largest * 2 IN
    /\ enqPc = "grow"
    /\ \/ /\ Len(block) < MaxBlocks
          /\ block' = Append(block, [Block(cap, block[tailBlock].next) EXCEPT
                                        !.data[0] = sent + 1,
                                        !.tail = 1, !.localTail = 1])
          /\ largest' = cap
          /\ enqPc' = "link"
       \/ enqPc' = "failed" /\ UNCHANGED <<block, largest>>
    /\ UNCHANGED <<size, frontBlock, tailBlock, canAlloc, sent, held, consumer>>

EnqLink ==
    /\ enqPc = "link"
    /\ block' = [block EXCEPT ![tailBlock].next = Len(block)]
    /\ enqPc' = "advance"
    /\ UNCHANGED <<size, frontBlock, tailBlock, largest, canAlloc, sent, held,
                   consumer>>

EnqAdvance ==
    /\ enqPc = "advance"
    /\ tailBlock' = block[tailBlock].next
    /\ sent' = sent + 1
    /\ enqPc' = "enqueued"
    /\ UNCHANGED <<size, block, frontBlock, largest, canAlloc, held, consumer>>

EnqReturn ==
    /\ enqPc \in {"enqueued", "failed"}
    /\ enqPc' = "idle"
    /\ canAlloc' = FALSE
    /\ held' = 0
    /\ UNCHANGED <<ring, sent, consumer>>

Enqueuing ==
    \/ EnqWrite \/ EnqPublish \/ EnqFull \/ EnqNext \/ EnqFill \/ EnqBump
    \/ EnqGrow \/ EnqLink \/ EnqAdvance
-----------------------------------------------------------------------------
(* try_dequeue, pop, which differs in what becomes of the element only, and *)
(* peek, which leaves it and the block it is in where they are.            *)

NonEmpty(b) == block[b].front # block[b].tail

(* Is there an element in the front block? *)
DeqLook(peek) ==
    LET b == frontBlock IN
    /\ deqPc = "idle"
    /\ walk.by # "consumer"
    /\ peeking' = peek
    /\ wasEmpty' = (Contents = <<>>)
    /\ \/ /\ block[b].front # block[b].localTail
          /\ deqPc' = "take"
          /\ UNCHANGED block
       \/ /\ block[b].front = block[b].localTail
          /\ block' = [block EXCEPT ![b].localTail = block[b].tail]
          /\ deqPc' = IF NonEmpty(b) THEN "take" ELSE "last"
    /\ UNCHANGED <<size, frontBlock, tailBlock, largest, ahead, got, peeked,
                   producer>>

(* Is there a block ahead?  Mutants: nobody looks; the front block is not  *)
(* read again.                                                             *)
DeqLastBlind ==
    /\ deqPc = "last"
    /\ deqPc' = "empty"
    /\ UNCHANGED <<ring, peeking, ahead, got, peeked, wasEmpty, producer>>

DeqLastHasty ==
    /\ deqPc = "last"
    /\ deqPc' = IF frontBlock # tailBlock THEN "ahead" ELSE "empty"
    /\ UNCHANGED <<ring, peeking, ahead, got, peeked, wasEmpty, producer>>

DeqLast ==
    /\ deqPc = "last"
    /\ deqPc' = IF frontBlock # tailBlock THEN "again" ELSE "empty"
    /\ UNCHANGED <<ring, peeking, ahead, got, peeked, wasEmpty, producer>>

(* The producer may have filled the front block before it moved on. *)
DeqAgain ==
    /\ deqPc = "again"
    /\ block' = [block EXCEPT ![frontBlock].localTail = block[frontBlock].tail]
    /\ deqPc' = IF NonEmpty(frontBlock) THEN "take" ELSE "ahead"
    /\ UNCHANGED <<size, frontBlock, tailBlock, largest, peeking, ahead, got,
                   peeked, wasEmpty, producer>>

DeqAhead ==
    /\ deqPc = "ahead"
    /\ ahead' = block[frontBlock].next
    /\ deqPc' = "peek"
    /\ UNCHANGED <<ring, peeking, got, peeked, wasEmpty, producer>>

DeqPeek ==
    /\ deqPc = "peek"
    /\ IF peeking
         THEN deqPc' = "show" /\ UNCHANGED block
         ELSE /\ block' = [block EXCEPT ![ahead].localTail = block[ahead].tail]
              /\ deqPc' = "move"
    /\ UNCHANGED <<size, frontBlock, tailBlock, largest, peeking, ahead, got,
                   peeked, wasEmpty, producer>>

DeqMove ==
    /\ deqPc = "move"
    /\ frontBlock' = ahead
    /\ deqPc' = "take"
    /\ UNCHANGED <<size, block, tailBlock, largest, peeking, ahead, got, peeked,
                   wasEmpty, producer>>

DeqTake ==
    LET f == block[frontBlock].front IN
    /\ deqPc = "take"
    /\ ~peeking
    /\ got' = block[frontBlock].data[f]
    /\ block' = [block EXCEPT ![frontBlock].data[f] = 0]
    /\ peeked' = 0
    /\ deqPc' = "free"
    /\ UNCHANGED <<size, frontBlock, tailBlock, largest, peeking, ahead, wasEmpty,
                   producer>>

DeqFree ==
    /\ deqPc = "free"
    /\ block' = [block EXCEPT ![frontBlock].front = Succ(frontBlock, @)]
    /\ deqPc' = "dequeued"
    /\ UNCHANGED <<size, frontBlock, tailBlock, largest, peeking, ahead, got,
                   peeked, wasEmpty, producer>>

(* peek returns a pointer to the element. *)
DeqShow ==
    LET c == block[IF deqPc = "show" THEN ahead ELSE frontBlock] IN
    /\ deqPc \in {"take", "show"}
    /\ peeking
    /\ peeked' = c.data[c.front]
    /\ deqPc' = "shown"
    /\ UNCHANGED <<ring, peeking, ahead, got, wasEmpty, producer>>

DeqReturn ==
    /\ deqPc \in {"dequeued", "shown", "empty"}
    /\ deqPc' = "idle"
    /\ peeking' = FALSE
    /\ ahead' = 1
    /\ wasEmpty' = FALSE
    /\ UNCHANGED <<ring, got, peeked, producer>>

Dequeuing ==
    \/ DeqLast \/ DeqAgain \/ DeqAhead \/ DeqPeek \/ DeqMove \/ DeqTake \/ DeqFree
    \/ DeqShow
-----------------------------------------------------------------------------
(* size_approx, by a thread that is in no other call: of each block front  *)
(* and tail are read, and then the link, until it leads back to where the  *)
(* front block was when the call began.  One such call at a time.          *)

SizeCall(thread) ==
    /\ walk.by = "none"
    /\ IF thread = "producer" THEN enqPc = "idle" ELSE deqPc = "idle"
    /\ walk' = [by |-> thread, first |-> frontBlock, at |-> frontBlock,
                pc |-> "front", front |-> 0, result |-> 0, begun |-> Held]

SizeFront ==
    /\ walk.pc = "front"
    /\ walk' = [walk EXCEPT !.front = block[walk.at].front, !.pc = "tail"]

SizeTail ==
    LET c == block[walk.at] IN
    /\ walk.pc = "tail"
    /\ walk' = [walk EXCEPT !.result = @ + ((c.tail + c.cap - walk.front) % c.cap),
                            !.front = 0, !.pc = "next"]

(* Mutant: until it leads to where the front block is now. *)
SizeNextFresh ==
    LET n == block[walk.at].next IN
    /\ walk.pc = "next"
    /\ walk' = [walk EXCEPT !.at = n, !.pc = IF n = frontBlock THEN "end"
                                                               ELSE "front"]

SizeNext ==
    LET n == block[walk.at].next IN
    /\ walk.pc = "next"
    /\ walk' = [walk EXCEPT !.at = n, !.pc = IF n = walk.first THEN "end"
                                                               ELSE "front"]

SizeReturn ==
    /\ walk.pc = "end"
    /\ walk' = NoWalk

Sizing ==
    /\ \/ \E thread \in {"producer", "consumer"} : SizeCall(thread)
       \/ SizeFront \/ SizeTail \/ SizeNext \/ SizeReturn
    /\ UNCHANGED <<ring, enqPc, canAlloc, sent, held,
                   deqPc, peeking, ahead, got, peeked, wasEmpty>>
-----------------------------------------------------------------------------
RingNext ==
    \/ \E alloc \in BOOLEAN : EnqRoom(alloc)
    \/ Enqueuing \/ EnqReturn
    \/ \E peek \in BOOLEAN : DeqLook(peek)
    \/ Dequeuing \/ DeqReturn \/ Sizing

RingSpec == RingInit /\ [][RingNext]_rwq
-----------------------------------------------------------------------------
(* Nothing but elements in queue order: what the ring holds is what was    *)
(* enqueued and not yet dequeued, without gap, and the slots that are not  *)
(* part of it are empty, so no element is overwritten or destroyed twice.  *)
(* The destructor finds the same, however the blocks came to be linked.    *)
Exact ==
    /\ Contents = [i \in 1 .. sent - got |-> got + i]
    /\ enqPc = "idle" /\ deqPc = "idle" => Destroyed = Contents
    /\ enqPc = "write" => block[tailBlock].data[block[tailBlock].tail] = 0
    /\ enqPc = "fill" =>
          LET b == block[tailBlock].next IN block[b].data[block[b].tail] = 0

(* The assertions in the code: a block the producer moves to is empty, one *)
(* the consumer moves to is not.                                           *)
Asserted ==
    /\ enqPc = "fill" =>
          LET b == block[tailBlock].next IN block[b].localFront = block[b].tail
    /\ deqPc = "move" => block[ahead].front # block[ahead].localTail
    /\ deqPc = "show" => NonEmpty(ahead)

(* "If the queue is empty, returns false": and only then.  An element that *)
(* was there when the call began is found, wherever the producer is; the   *)
(* blocking queue asserts it after its semaphore has said so.              *)
FalseOnlyIfEmpty == deqPc = "empty" => wasEmpty

(* "Constructs a queue that can hold at least `size` elements without      *)
(* further allocations": try_enqueue gives up at no less.                  *)
HoldsSize == enqPc = "failed" /\ ~canAlloc => held >= size

(* peek returns "the one that would be removed next": what it has shown,   *)
(* maybe in a block the consumer has not moved to, is at the front until   *)
(* it is removed, whatever is enqueued meanwhile.                          *)
PeekIsNext == peeked # 0 => Contents # <<>> /\ peeked = Head(Contents)

(* size_approx is "safe to call from both threads", and no further off     *)
(* than the other thread has moved since the call began: the producer      *)
(* learns no more than there was and no less than there is left, the       *)
(* consumer no less than there was and no more than there is, an element   *)
(* included whose block is still to become the tail.  And max_capacity is  *)
(* never less than what is in the queue.                                   *)
SizeBounds ==
    /\ walk.pc = "end" =>
          IF walk.by = "producer"
            THEN Held <= walk.result /\ walk.result <= walk.begun
            ELSE /\ walk.begun <= walk.result
                 /\ walk.result <= Held + (IF enqPc = "advance" THEN 1 ELSE 0)
    /\ Held <= max_capacity /\ size <= max_capacity

(* Each step enqueues at the end, dequeues at the front, or is internal. *)
Fifo == INSTANCE TimedQueue WITH
    Elements <- 1 .. MaxItems, Nothing <- 0, queue <- Contents, answer <- got

FifoSpec == Fifo!Spec
=============================================================================
