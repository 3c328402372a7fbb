# Message pass: a TLA+ model of the daq-hq message transport

The repository is a C++ library of two classes that move data of a read-out
system ("传递daq数据，并保证高可用", README.md:9).  Applications hand messages to a
`MessageSource`; a `MessageSink` asks for them.  Requests (GET, DEL, RECOVER)
go through Kafka, the data itself through ZeroMQ.  The point of the design is
that a sink may fail and, after a RECOVER, get again everything it had not yet
asked to be deleted (README.md:38).

This directory models those two classes, what they use of Kafka and ZeroMQ, the
lock-free queue under both, and the bounded queue that is kept beside it.

## 1. The system's parts

| part | state | operations | talks to |
|---|---|---|---|
| source, `message_source/message_source.h` | `readys_` (messages no sink asked for), `request_queues_`, `running_`; in the task thread a socket and a map key -> message per sink | `send`, `start`, `stop`, destructor; threads `recv_request` and `task_thread` (GET, DEL, RECOVER) | Kafka consumer, one DEALER socket per sink |
| sink, `message_sink/message_sink.h` | `recvs_` (a queue per source), `running_`; the requests its Kafka producer has yet to send; in the receiving thread a copy of that map | `prepare_sources`, `start`, `stop`, destructor, `send_*_request`, `get_msg`; thread `recv_message` | Kafka producer, one ROUTER socket |
| Kafka and ZeroMQ (external) | the request topic; messages on their way | produce, consume, subscribe; send, receive, linger, unbind | both |
| queue, `queue/readerwriterqueue.h` | a ring of blocks, each with front and tail; a semaphore | `enqueue`, `try_enqueue`, `try_dequeue`, `pop`, `peek`, `wait_dequeue_timed`, `size_approx`, destructor | one producer and one consumer thread |
| circular buffer, `queue/readerwritercircularbuffer.h` | a fixed number of slots, two indices; a semaphore of free slots and one of elements | `try_enqueue`, `wait_enqueue_timed`, `try_dequeue`, `wait_dequeue_timed`, destructor | one producer and one consumer thread; included by nothing yet |
| semaphore, `queue/atomicops.h` | a counter and a kernel semaphore | `signal`, `tryWait`, `wait` with a timeout | the queue, the circular buffer |
| request message, `proto/request_message.proto`, `message/request_message.pb.h`, `src/request_message.pb.cc` | `cmd`, `key`, `sink` | encode, decode | source, sink |
| data message, `message/data_message.h` | an interface | `key`, `size`, `data` | applications |
| log, utils, command line, tests, docker | | start-up only | |

What is hard about it:

* **Concurrency.** Three threads per source and two per sink, without a lock:
  they share queues and one atomic flag.  `stop()` may meet either thread of a
  source anywhere in its loop.
* **Ownership.** A message is a raw pointer that moves from the application to
  `readys_`, to `msg`, to the map of a sink, and to `delete`.  Nothing but the
  order of the calls sees to it that it is deleted once and not used after.
* **Requests as broadcasts.** Every source consumes every request.  A request
  may be lost, delivered twice or, in a topic of several partitions, out of
  order; it is committed before it is served.
* **Requests that have not left.** Sending a request only puts it into the queue of
  the Kafka producer.  A thread of librdkafka sends it some time later; only `stop()`
  waits for that, and a process that ends otherwise takes it along.
* **Crashes.** A sink may die with messages in its socket, in its queues and in
  its application, or because it cannot bind its address again; pipes overflow, and
  in fixed-size mode they drop.
* **Head of line.** One thread serves all sinks, one request after the other, and
  a GET waits for a message.

What makes each part correct:

* source: no message leaked, freed twice or used after it was freed; one owner
  at a time; `stop()` returns and leaves nothing behind;
* sink: what a prepared source sends reaches a queue that `get_msg` reads;
* both together: a message is deleted only once its sink, having received it,
  asked for it; it goes to the sink whose GET took it and to no other; after a
  crash, what is kept for the sink is given to it again; a deletion happens, if its
  request leaves the sink;
* queue: a FIFO; a dequeue that was promised an element finds one; no signal
  is lost to a timeout; a size that is read while both ends move is between what
  was there at some moment before and after;
* circular buffer: as much, and producer and consumer never meet in a slot,
  whatever the capacity and wherever the indices wrap around;
* request message: what a source decodes is what the sink encoded, though fields
  with default values are not on the wire.

## 2. Modules

| module | role |
|---|---|
| `RequestMessage` | the request: its fields and defaults, what is encoded of it and how it is decoded |
| `Channels` | Kafka and ZeroMQ as the code uses them, as operators other modules use in their actions |
| `MessageSource` | the source, step by step; one topic, any number of sources; the safety properties of a source |
| `SourceSystem` | sources under arbitrary requests: the most general client |
| `MessageSink` | the sink, from its constructor to its destructor, the queue of its Kafka producer, its process and its crashes |
| `MessagePass` | sources, sinks and channels composed; the end-to-end properties |
| `DaqTransfer` | abstract specification of what the message pass promises |
| `ReaderWriterQueue` | the lock-free queue: one producer, one consumer, a ring of blocks, each access to shared memory a step |
| `LightweightSemaphore` | the counter and the kernel semaphore, the timeout that races a signal |
| `BlockingReaderWriterQueue` | both composed: the queue the sources and the sinks use |
| `CircularBuffer` | the bounded queue: its slots and two semaphores |
| `TimedQueue` | abstract specification of the two queues |
| `BoundedQueue` | abstract specification of the circular buffer: a `TimedQueue` with a capacity |
| `PowersOfTwo` | `ceilToPow2`, which both queues size their blocks with |
| `MessageSource_proofs` | a request survives its encoding; what each action of a source preserves |
| `SourceSystem_proofs` | the theorems about `SourceSystem` |
| `MessagePass_proofs` | the theorems about the message pass, among them that it implements `DaqTransfer` |
| `LightweightSemaphore_proofs` | what each step of a semaphore preserves |
| `QueueLemmas` | powers of two, remainders and ranges of numbers, for the proofs about both queues |
| `ReaderWriterQueue_proofs` | the theorems about the ring, among them that it implements `TimedQueue` |
| `BlockingReaderWriterQueue_proofs` | the theorems about the queue with its semaphore, among them that it implements `TimedQueue` |
| `CircularBuffer_proofs` | the theorems about the circular buffer, among them that it implements `BoundedQueue` |
| `MCSourceSystem`, `MCMessagePass` | instances for TLC |

### Correspondence with the code

`MessageSource`.  `main[s]` is the thread that owns the object (before `start`,
running, in one of the two joins of `stop`, stopped, destroyed); `running_` is
true exactly in `"up"`.  `recvPc` and `taskPc` are the two threads.  One action is
one step between two accesses to what threads share: taking a request from
`request_queues_`, each wait on `readys_`, each test of `running_`, the send, the
store.  `TakeGet`, `TakeDel` and `TakeRecover` are the three cases of the
switch; `GetReady`, `GetTimeout`, `GetTest` are the loop of line 435;
`SendData` and `StoreData` are lines 438 and 439; `RecoverNext` is one turn of
the loop of `recover_msg`.  `sents[s][k]` is `thread_local_sents_` as the set of
messages kept for a sink (the key is a function of the message), `sockets[s]` is
the domain of `thread_local_sockets`.  `offered`, `dest` and `freed` are history.

`GetTest` has the undefined behaviour of line 438 in it: when `running_` is
cleared while a GET waits, `msg` was never assigned in this iteration.  Its slot
holds what an earlier iteration left there, which "works" while that message
lives, or something that is no message; the thread then goes to `"crashed"`, and
with it the process.

`MessageSink`.  `sinkPc[k]` is the process of a sink and the thread that owns the
object: none, `"up"` (`running_`), `"joining"` in `stop()`, `"stopped"` after it,
`"crashed"` where the model says that undefined behaviour has ended it.
`recvMsgPc[k]` is `recv_message`: it copies the map (`"bind"`, `"copy"`), receives
(`"loop"`), closes its socket (`"close"`) and ends.  `recvs[k][s]` says whether the
map has no entry, a null pointer or a queue for a source; `local` is the copy of
line 621, in which a fourth value `"private"` is a queue made on line 686, that
nobody else knows.  The copy takes a while: what `get_msg` enters meanwhile is in
it or not (`BindSocket`), or the process ends, for the tree is read as it is
changed (`GetMsgRace`).  `Receive` is the receipt of all frames of a message;
`ReceiveNull` is `enqueue` through a null pointer.  `SinkRestart` is `start()` after
`stop()`, with the queues of the object; `SinkDestroy` is the destructor, which
dereferences what the map holds, null pointers included.  `Crash` is what the
fault tests inject (`FaultSink1.cpp:126`, `FaultSink2.cpp:79`).

`outq[k]` is the queue of the sink's producer.  `Enqueue` is `produce()` in
`send_request` (line 338): it waits while the queue is full, retries (line 368), and drops the
request at any other error.  `Transmit` is the thread of librdkafka that sends the
first request of the queue, or gives it up and has `dr_cb` log that.  `SinkStop`
starts with the flush of line 590: it waits until the queue is empty, or, where Kafka
may fail, for ten seconds at most.  Whatever ends the process (`ProcessEnds`) takes
what is in the queue with it; `lost` is the history of the DELs no broker ever got.

`BindFails` is the assertion of line 628.  `stop()` joins the thread, but `zmq_close`
only hands its socket to ZeroMQ to be closed, so that `start()` soon after may
find the address in use.  The assertion is active in the build of the repository,
whose `CMakeLists.txt` sets no build type and no `NDEBUG`.  With `NDEBUG` the thread would go on
and receive nothing; that build is not modelled.  As with `Crash`, the last start a
bound allows does bind.

`RequestMessage`.  A payload is the fields that are on the wire, as a function from
their names to their values; `Encode` leaves out those with their default, so that
GET, whose number is 0, and the key 0 are not written, and `Decode` is a new
message with what was written set.  `kafka` holds payloads, `requests` requests.

`Channels`.  `kafka[s]` is what the consumer group of `s` has yet to consume, for
every source has a group of its own (`message_source.h:208`).  `pipe[s][k]` is a
DEALER socket, its connection and the receiving side at the ROUTER.  With
`Fixed`, a full pipe drops a message (`ZMQ_DONTWAIT`, line 474); without, the
sender waits on the size frame (line 478).

`ReaderWriterQueue`.  `block` is the heap of blocks, never freed; `front`, `tail`,
the shadow copies `localTail`, `localFront`, `next` and `frontBlock`, `tailBlock`
are the fields of the same names.  `enqPc` and `deqPc` are where the producer is in
`inner_enqueue` and the consumer in `try_dequeue`; each step reads or writes what
the other thread can see at most once.  The i-th element is the number i, so that
`sent` and `got` say what the ring should hold.  `peek` and `pop` are the dequeue
that leaves the element where it is (`DeqShow`) or throws it away; `size_approx` is a
walk over the blocks (`SizeFront`, `SizeTail`, `SizeNext`) between the steps of the
other two; `Destroyed` is what the destructor finds.  `LightweightSemaphore` has one
access to `m_count` or to the kernel semaphore per step, and
`BlockingReaderWriterQueue` runs the two side by side: an enqueue is the steps of
the ring, then those of `signal()`; a dequeue those of `wait`, then of the ring.

`CircularBuffer`.  `Slots` and `Items` are `slots_` and `items`, two instances of
`LightweightSemaphore`; `Mask` rounds the number of slots up to a power of two, so
that `Slot` of an index may wrap around at `Wrap` (2^64 in the code).  An enqueue
is a wait for a slot, `Store`, `SignalItem`; a dequeue a wait for an element, `Take`
(the index advances, the element is moved out), `Destroy`, `SignalSlot`.

### Simplifications

* One topic.  Topics share `running_` and the joins only.
* `start()` of a sink and the RECOVER it sends, and the two `create_thread` of a
  source, are one step: nothing else of the same thread lies between them.
* A sink is destroyed only after `stop()`, as its destructor asks for.
* The frames of a message are sent and received as one.  `stop()` between two
  frames loses the message, as `ZmqUnbind` may.
* A payload that does not parse is a request that is lost.
* A crash of a source is not modelled beyond `"crashed"`: sources are not meant
  to survive (README.md:38, the read-out nodes).
* "lose" is every way a request is lost while the processes live: `produce()`
  refuses it, librdkafka gives it up, the flush times out, or a source commits it and does
  not serve it.
* Requests leave the queue of a producer one at a time and in order; that a retry
  changes the order is "reorder" at the consumer.
* The data race of `recvs_` (`get_msg` inserts while the thread copies) leaves the
  old or the new map in the copy, or ends the process; a copy that lost other
  entries is not a case of its own.
* The queue's fences and weak atomics are taken to give the order of the program;
  executions that only a weaker memory would allow are not modelled.
* `pop` differs from `try_dequeue` in what becomes of the element only, and is the
  same action; one thread at a time asks for a size.
* The 1025 looks at the counter of a spinning wait are two: each may or may not
  find it raised.
* In `MessagePass` and `SourceSystem` the queues are sequences, which is what
  `TimedSpec` says of them.
* A new ROUTER at the same address takes over the pipe: DEALER sockets
  reconnect.

## 3. Runs

Two workers, every run well under five minutes.  Deadlock is not checked where
the system may really stop: all requests issued, all messages deleted, a source
destroyed.

| run | bounds | shows |
|---|---|---|
| `source_safety` | 1 source, 2 sinks (symmetric), 2 messages, 2 pending requests, pipes of 1, fixed size; `stop`, `start`, destructor | `SystemTypeOK`, `NoLeak`, `NoUseAfterFree`, `OneOwner`, `StopLeavesNothing` |
| `source_liveness` | the same with 1 sink, fair threads | `StopReturns` |
| `pass_safety` | 1 source, 2 sinks (one knows the source, one does not), 2 messages, the first sink may start twice, after a crash, a `stop()` or its destructor; pipes of 1 that drop, requests in order, one at a time in a producer's queue | `TypeOK`, `DeletedOnRequest`, `ForItsSink`, `PreparedIsReachable`, refinement `TransferSpec` |
| `pass_faults` | 2 sources (one unknown to the sink), 1 sink, requests lost, before or after they leave the producer's queue of 2, and duplicated, pipes of 1 that block | `DeletedOnRequest`, `PreparedIsReachable`, `TransferSpec` |
| `pass_liveness` | 1 source, 1 sink that goes down, cannot bind or stops at most once, at most 3 of 2 GETs, 1 DEL and 1 further RECOVER, a producer's queue of 1, requests reordered but not lost by Kafka, pipes of 1 that block | `Recovered`, `DeletionHappens`, and `DeletedOnRequest`, `PreparedIsReachable`, `TransferSpec` under reordering |
| `queue_blocks` | sizes 1, 3 and 4, blocks of 2, at most 6 blocks, 6 elements; enqueue, try_enqueue, dequeue, peek and size_approx at will | `Exact`, `Asserted`, `FalseOnlyIfEmpty`, `HoldsSize`, `PeekIsNext`, `SizeBounds`, refinement `FifoSpec` |
| `queue_blocking` | size 1, blocks of up to 4, at most 2 blocks, 6 elements; each wait with, without or with no time to wait | `SemaTypeOK`, `Balanced`, `SuccessAsserted`, refinement `TimedSpec`, `Delivered` |
| `circular_buffer` | capacities 1, 2 and 3, indices that wrap at 4, 7 elements; each call with, without or with no time to wait | `SlotsApart`, `Conserved`, `DestroysWhatIsLeft`, refinement `BoundedSpec`, `ItemsDelivered`, `RoomIsMade` |
| `del_collision` | 2 sources, equal keys | violation of `DeletedOnRequest` |
| `recover_blocked` | 1 source, more GETs than messages | violation of `Recovered` |
| `source_stop_hangs` | as `source_liveness`, varying size | violation of `StopReturns` |
| `source_stop_crash` | as `source_safety`, without symmetry | violation of `StopWithoutCrash` |

Why the bounds are enough.  Two messages are what the ordering, overwriting and
two-owner cases need; two sinks what "another's message" needs; a pipe of one is
full after one message; two pending requests let a request be behind another;
two starts are one crash with a life before and one after it.  A producer's queue of
one is full after one request, and enough for a process to end with a request in it; that of two
in `pass_faults` lets one request be lost and the next one sent.

For the queue: size 1 is one block of two slots, 3 is one of four, the largest
single block, and 4 is five blocks of two; one usable slot per block makes every
second enqueue leave its block, 6 elements go round the ring, and memory for one
or a few more blocks lets growth succeed and then fail.  `held` and `wasEmpty`
remember what was true when a call began, which is what the answers `false` are
about.  For the circular buffer: 1 and 2 are powers of two and 3 is not, so
that its mask has a slot to spare; `Wrap` is the least power of two above them, and
with 7 elements both indices pass it.

Action coverage.  The actions that a run cannot reach for lack of a bound (the
destructor in the `MessagePass` runs, the sink's actions in the `SourceSystem`
ones) are reached by another.

### Fairness

Threads run: weak fairness of each thread's steps, which an operating system
gives and the code relies on, for each loop polls with a timeout and never holds a
lock.  In `MessagePass` the applications do their part as the tests do: they
hand over their messages, start a sink that is down or stopped, let `stop()` join,
and poll `get_msg` for each source.  The thread of librdkafka sends what is in the queue of
its producer: the broker can be reached, and `pass_liveness` has no "lose".  Nothing
is assumed of the calls that send requests: a sink need never send a GET or a DEL.
The process may end before its thread of librdkafka has taken its step, and the
deletion in the queue then never happens.  That is the exception in `DeletionHappens`,
and `lost` in it is what the end of the process took; without the exception the
property is false, as it is of the code.
`Recovered` is checked with messages of varying size.  In fixed-size mode it is false: a GET
after the RECOVER may meet a full pipe, and the message is dropped and kept until a
RECOVER that nobody need send.
In `Delivered` the producer ends what it began and the consumer, a thread that loops
on `wait_dequeue_timed`, takes its steps; that anything is enqueued is not assumed.
Its dequeues are strongly fair there, for the same thread may also peek for ever.
The circular buffer has a producer that ends what it began and a consumer that
loops: weak fairness of each.
In `StopReturns` nothing is assumed of sinks or callers.

### What the violations show

* **`del_collision`**: `delete_msg` knows a sink and a key; requests go to all
  sources.  Applications that number messages from 0 at each source
  (`DemoSource.cpp`) have equal keys, and a DEL for one source's message deletes
  the other's.
* **`recover_blocked`**: a GET without a message waits in `task_thread` until one
  is offered; DEL and RECOVER of all sinks wait behind it.  `Recovered` holds
  when no more messages are asked for than are offered (`pass_liveness`).
* **`source_stop_hangs`**: the size frame is sent without `ZMQ_DONTWAIT`.
* **`source_stop_crash`**: the unassigned `msg` of line 438.  Its longer form, a stale
  `msg` that is then kept for two sinks and deleted twice, is within the same bounds.

A queue of size 0 would have one block of one slot, no spare, and not be told from
an empty one when it is full; the sources and the sinks use the default size, and
`Sizes` leaves 0 out.

## 4. Proofs

`SourceSystem_proofs` proves, for any number of sources, sinks, messages and
pending requests, any high-water mark, both send modes and all the faults of
Kafka:

    SafetySpec => []SystemTypeOK        (SystemTyped)
    SafetySpec => []NoLeak              (SystemNoLeak)
    SafetySpec => []NoUseAfterFree      (SystemNoUseAfterFree)
    SafetySpec => []OneOwner            (SystemOneOwner)
    SafetySpec => []StopLeavesNothing   (SystemStopLeavesNothing)

Assumptions: `ChannelsAssumption` (types of the constants),
`SourceSystemAssumption`, which includes `KeysDistinct`: the keys of the messages
of one source differ.  The code needs it, since `store_msg` overwrites
(`message_source.h:484`); nothing asks for it or enforces it.  The interface says when a key
is fixed and that it is read off the data (`data_message.h:107`), and the tests number
their messages.  So `NoLeak` and `SystemNoLeak` are about sources whose keys differ, and
cannot see the message that leaks where two are equal.

The argument.  None of the properties is inductive.  The inductive invariant is
`TypeInv /\ Ownership` (`MessageSource_proofs`); `Ownership` says of each source:

* `Phases`: where the three threads can be together (for example, `main` in
  `"joinTask"` only once `recvPc` is `"done"`);
* `Maps`: a sink without a socket has no messages kept; outside a run there are
  neither;
* `Serving`, `Recovering`: what `client`, `msg` and `todo` are while a request is served;
  in particular the messages RECOVER has yet to send are kept for its sink;
* `Queued`: `readys_` has no message twice and none that is kept or in hand;
* `Kind`: a message belongs to the source it was handed to;
* `Tracked`: `NoLeak`;
* `Live`: nothing deleted is queued, in hand or kept, while the thread that
  could use it is alive.

`OneOwner` is what makes the step of `delete_msg` work: a message that is freed
for one sink is kept for no other.  It holds while `running_` is set, and fails
in the last iteration after `stop()`, when a stale `msg` may be stored a second
time; the exit of the thread is then the double delete the model calls a crash.

`MessageSource_proofs` has one lemma per group of actions (`TakeGetStep`,
`GetReadyStep`, `StoreDataStep`, `TakeDelStep`, `RecoverSteps`, `TaskExitStep`, ...), the
frame lemmas `OwnershipFrame` and `OwnershipOthers` (what the step of one source
means for the others) and lemmas on sequences.  It does not mention the
environment, so that other systems of sources can use it.

`MessagePass_proofs` proves, for any number of sources, sinks, messages, requests
and starts, any set of prepared sources, any high-water mark, both send modes and
all the faults of Kafka:

    SafetySpec => []TypeOK                (PassTyped)
    SafetySpec => []PreparedIsReachable   (PassPreparedIsReachable)
    SafetySpec => []DeletedOnRequest      (PassDeletedOnRequest)
    SafetySpec => []ForItsSink            (PassForItsSink)
    SafetySpec => TransferSpec            (PassImplementsTransfer)

The first needs no assumption but the types of the constants, the second
`KeysDistinct`.  The last three are about what the applications do, and are false
without it: `NeverStopped` (a source that stops deletes what it keeps, and its last
iteration may send a stale `msg` to another sink) and `AllKeysDistinct` (a DEL names
no source: the run `del_collision`).

The argument.  `PassInv` adds to the types and the `Ownership` of the sources

* `Origins`: a pipe carries messages of its source only, since what a request being
  served may still send (`Outgoing`) is in hand or kept, so that it was given to that
  source;
* `SinkMaps`: between `prepare_sources` and the end of the process the map has the
  queues of the prepared sources, and so has the thread's copy once it is made.

`PreparedIsReachable` follows, since `get_msg` enters a null pointer, and the thread a
private queue, only where there is no entry.  `DaqInv` adds

* `Unstopped`, `Untaken`: a message has a sink only after it left `readys_`, so that the
  sink a GET found for it stays its sink;
* `Routed`: what is in a pipe, a queue or an application is there for that sink.  No
  step of a sink adds to what is beyond the sources (`BeyondSink`), and a source adds
  what `Kind` says is for the client (`OutgoingOwned`);
* `Requested`: every DEL on its way, in the queue of a producer, in a topic or in the
  queue of a source, was sent by its sink for a message it was given.  Duplicating, losing and reordering
  requests makes none (`UnservedSource`), and `RequestSurvives` sees to it that the DEL
  served is the DEL sent.

Then what `delete_msg` finds is exactly the message that was asked for
(`FoundAsked`).  For the refinement each action of a source is an `Offer`, a `Take`, a
`Delete` or a stutter, each of a sink a `Give`, an `Ask`, a `Forget` or a stutter.

`MessageSource_proofs` also proves `RequestSurvives`: `Decode(Encode(r)) = r` for
every request, whatever its key and its sink.

`LightweightSemaphore_proofs` shows, one lemma per group of steps, that a semaphore
keeps its types and `Balanced`: that the counter is as the wakeups say is what
`Restore` and `Retry` need of each other, and that a waiter in `take` or `retry` finds the
counter above 0 is what makes its decrement one.  Both queues use it.

### The ring

`ReaderWriterQueue_proofs` proves, for any sizes but 0, any `MAX_BLOCK_SIZE` that is
a power of two, any number of blocks and elements, allocations that fail at will
and every interleaving of the two threads and a `size_approx`:

    RingSpec => []RingInv                 (RingHolds)
    RingSpec => []Exact                   (QueueExact)
    RingSpec => []Asserted                (QueueAsserted)
    RingSpec => []FalseOnlyIfEmpty        (QueueFalseOnlyIfEmpty)
    RingSpec => []PeekIsNext              (QueuePeekIsNext)
    RingSpec => []HoldsSize               (QueueHoldsSize)
    RingSpec => []SizeBounds              (QueueSizeBounds)
    RingSpec => FifoSpec                  (QueueIsFifo)

The hypothesis `0 \notin Sizes` is needed: a queue for no element is one block of one
slot, in which the slot after the tail is never the front's, so that elements are
overwritten.  No other assumption than the types of the constants is made.

The argument.  What the ring holds is a walk along links that the producer
changes, so none of the properties says what a step relies on.  `RingInv` says that
there are two functions on the blocks: `place`, how far a block is from the front
block along the links, and `before`, how many elements were enqueued before the
first of that block.  With these

* `RingTypeOK` has `BlockOK` for each block: the four indices `localFront`, `front`,
  `localTail`, `tail` follow each other around its slots, so that what a thread
  remembers of the other's index is late but never wrong;
* `Links`: the places are a numbering of all blocks that are linked, and the link of
  each leads to the next place, that of the last to the front block;
* `Numbered`: from the front block to the tail block the elements follow each other,
  and only the front block may have none; behind the tail block there are none, but
  for the one in a block that is about to become the tail block;
* `SlotsHold`: the slots from front to tail hold the numbers that follow `before`, the
  slot at the tail what is being written, and all others nothing;
* `NewBlock`, `ProducerAt`, `ConsumerAt`: what each thread has seen where it is in its
  call, for example that the consumer moves only from an empty block that is
  not the producer's to one with an element in it.

There is one lemma per step.  Most steps change neither a count nor a link
(`QuietStep`); the others are the ones that fill, publish, take and free a slot, and
the four that change the ring or the numbering: `EnqLinkKeeps` makes a place after the
tail block, `DeqMoveKeeps` turns the ring by one place, `EnqBumpKeeps` and `DeqFreeKeeps`
change `before` for one block.  `ThroughIs` then shows that the walk of `Contents` and of
`Destroyed` returns the numbers from `got` to `sent`.

`HoldsSize` needs more, for it is about room.  `Packed` adds to `RingInv` that no block is
smaller than the constructor's and none is lost (`Roomy`), that every block but those the
two threads are in is empty or full (`Crowded`: the producer leaves a block only when
it is full, the consumer only when it is empty), and that where the producer finds
the consumer's block next there were enough elements when it began (`HeldEnough`).  When it
sees its block full, and the consumer's block is next, then all blocks but one are
full (`ManyBefore`), and that one is the spare block the constructor's formula counts
(`BlocksSuffice`); and while it looks, the consumer can move away from the next block
but never to it.

`SizeBounds` is about a walk around a ring that turns and grows under it.  `RingWalk`
says what a call of `size_approx` would return if the other thread stopped where it is
(`Estimate`): what it has added up and what it has still to count, from the block it is
at to the one where it began (`ToCount`).  What is still to be counted from a block on
are the elements in it and behind it (`Onward`); but when the consumer has left the
block where the producer's call began, the call goes on past the last block and up to
there, and the blocks behind the tail have nothing in them to be counted twice.  Then:

* in a call of the producer, `Estimate` lies between what there is and what there
  was: a step of the consumer lowers it by the element that goes, or not at all
  (`WalkOfProducer`);
* in a call of the consumer it lies between what there was and what there is, the
  element included whose block is still to become the tail (`Coming`): a step of the
  producer raises it by the element that comes, or not at all (`WalkOfConsumer`);
* a step of the call itself leaves it as it is (`WalkSizing`).

`CapacityBounds` is the rest of `SizeBounds`: `max_capacity` is the sum of the blocks' room
along the places (`MaxCapacityIs`), which is no less than the sum of their elements and,
by `Roomy`, than what the constructor was asked for.

### The blocking queue

`BlockingReaderWriterQueue_proofs` proves

    BlockingSafety => [](SemaTypeOK /\ Balanced)   (QueueBalanced)
    BlockingSafety => []SemaTypeOK                 (QueueSemaTyped)
    BlockingSafety => []SuccessAsserted            (BlockingSuccess)
    BlockingSafety => TimedSpec                    (BlockingIsTimed)

for any number of elements and allocations that fail at will; the last two for any
sizes but 0.  A step of the queue is a step of its semaphore or of its ring.  What
ties them together (`BlockingHolds`) is that the signals given and those acquired are
what was enqueued and dequeued, but for the element a thread is just at: so a
consumer the semaphore has let through finds an element, which is the assertion
after `wait_dequeue_timed`, and one that gives up found none.

### The circular buffer

`CircularBuffer_proofs` proves

    BufferSafety => []Conserved                    (BufferConserved)
    BufferSafety => []CircularInv                  (CircularHolds)
    BufferSafety => []SlotsApart                   (BufferSlotsApart)
    BufferSafety => []DestroysWhatIsLeft           (BufferDestroysWhatIsLeft)
    BufferSafety => BoundedSpec                    (BufferIsBounded)

for any capacities but 0, any number of elements, and indices of any width (a power
of two, above every capacity).

The argument.  The slot of an element is handed from one semaphore to the other
through exactly one thread: that is `Conserved` with what each thread may hold where
it is in its call.  `Counted` says that both indices, and what each semaphore has ever
given and taken, are what was sent and got, up to the step the thread is at; and
`Filled` (`HoldsRun`) that the slots hold exactly the elements from there to there.
Since the number of slots divides `Wrap`, being powers of two both (`CeilDivides`), an
index that has wrapped around leads to the same slot (`ModWraps`), and two elements no
further apart than the capacity to different ones (`ModApart`).

### What the proofs do not reach

The prover can use no theorem that is about every predicate, so induction over
numbers is done by the least counterexample (`LeastNumber`), and the recursive functions
`pow2`, `Through` and `max_capacity` are shown to exist by a witness, made of the
functions up to each number or from the places of the ring, before what they compute is.

Not proved: liveness (`StopReturns`, `Recovered`, `DeletionHappens`, `Delivered`,
`ItemsDelivered`, `RoomIsMade`), which is out of the prover's reach and is model-checked.
Every other property of a passing run is stated by a theorem.

## 5. Plan

1. (done) `Channels`, `MessageSource`, `SourceSystem` and its proofs;
   `MessageSink`, `MessagePass`, `DaqTransfer` and their runs.
2. (done) `ReaderWriterQueue`, `LightweightSemaphore` and the blocking queue, and
   the first proofs about them.
3. (done) The encoding of requests, the whole life of a sink, the queue's other
   operations, and the circular buffer.
4. (done) Proofs about `MessagePass`, up to the refinement of `DaqTransfer`.
5. (done) Proofs about the queues: the ring, the queue with its semaphore, the
   circular buffer, and that they implement `TimedQueue` and `BoundedQueue`.
6. (done) `SizeBounds`: the walk of `size_approx`, with the places of the ring.
7. The frames of a message, when the two ends differ in fixed-size mode.

Not modelled, and why: log, utils and the command line (no state anything
depends on); what protobuf generates beside encoding and decoding (copy, merge,
swap, reflection: called by nothing); moving and swapping queues (called by
nothing, and only the owner changes); the semaphores of systems other than
POSIX; the polling `get_msg` (it does not compile when instantiated);
`set_auto_request` (empty); ends that differ in fixed-size mode
(`message_sink.h:676`) and sources with equal identities (`message_source.h:175`),
which are mistakes of configuration; more than one thread at either end of a
queue, which the queue forbids; executions that the fences of a weaker memory
would have to forbid; docker files.
