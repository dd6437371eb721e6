# A TLA+ development for opo-c

opo-c is a C client library for the Opo triple store.  A program encodes
messages with a builder, sends them to a server over TCP with
`opo_client_query()`, and gets the responses in callbacks made by
`opo_client_process()`.  This directory holds TLA+ models of the library, the
TLC configurations that check them and machine-checked proofs about them.
Paths below are relative to the repository; line numbers are those of the
commit this development was written against.

## 1. The parts of the library

| part | source | state | operations | hard behaviour |
|---|---|---|---|---|
| ring queue | `src/opo/queue.c` | slots `q..end`, `head`, `tail`, `pop_lock`; `wait_state` and a pipe | `queue_push` (one thread), `queue_pop` (many threads), `queue_empty`, `queue_count`, `queue_listen/release` | lock-free between push and pop, locked between pops; full and empty both follow from `head`, `tail` and one slot |
| pending-query ring | `client.c` 122-246, 489-571, 588-596 | slots of `struct _opoQuery` (state, id, cb, resp); `head`, `on_deck`, `tail`; `head_lock`, `tail_lock`; `next_id` | `opo_client_query`, `process_msg` with `pending_find`, `take_next_ready`, `opo_client_process`, the two counts | three kinds of threads hand slots to one another through the slot's state alone; lost and repeated answers |
| asynchronous client | `client.c` 494-506, 572-584 | `pending`, `async_queue` | the same calls on a client that has a `query_callback` | a limit held with one atomic counter and no lock; callbacks that query |
| ready wake-up | `client.c` 93-123 | `rsock`, `wsock`, `waiting` | `wait_for_ready`, `wake_ready` | a wake-up nobody takes, a wait nobody ends |
| message framing | `client.c` 248-374 | `buf`, `bcnt`, `msg`, `msize`, `mcnt` of `recv_loop` | reads of any size cut into messages | messages split anywhere; end of stream and errors in the middle of one |
| connection lifecycle | `client.c` 376-487 | `sock`, `active`, `recv_thread`, `status_callback` | `opo_client_connect`, `opo_client_close` | close against the receiving thread; failure half way through connect |
| message builder | `builder.c` | `head/cur/end`, `own`, the stack of open values | `opo_builder_*`, `opo_msg_set_id` | growth, back-patched sizes, limits |
| value reader | `val.c` | none (reads an encoded value) | sizes, members, `opo_val_iterate`, getters | sizes at the width boundaries; nesting |
| conversion | `opo.c` | none | ojc trees to wire and back | nesting both ways |
| errors, time | `err.c`, `dtime.c` | `opoErr` | formatting, clock, sleep | none that outlives a call |

How they interact: callers of `opo_client_query` fill a slot (or pass the
gate) and write to the socket; the *receiving thread* (`recv_loop`) frames the
stream and gives each message either to `process_msg`, which stores it in its
query's slot, or to `async_queue`; *processing threads* in
`opo_client_process` take ready slots or pop the queue and make the callbacks.
A caller, the receiver and a processor never share a lock: a slot's `state` is
the only hand-over, `tail_lock` excludes callers from one another and
`head_lock` processors.

What makes each part correct:

* ring queue - a FIFO that loses, repeats and reorders nothing, no two threads
  on the same slot, no wait that lasts for ever;
* pending-query ring - each query gets exactly one callback, with its own
  answer or a loss notice, in order; `EAGAIN` only when the ring is full; slots
  recycled only when nobody uses them;
* asynchronous client - the limit holds, the count is exact under any
  interleaving, nobody waits for ever, the receiving thread is not blocked;
* framing - the messages that come out are those that went in, whatever the
  split; every stream ends in an orderly exit;
* lifecycle - no callback after close, every thread and descriptor released
  once, each status change reported once;
* builder and reader - what is built reads back as what was asked for, errors
  leave the builder usable, limits are reported and not overrun.

## 2. The modules

Implementation paths are those under `src/opo/`.  The order below is the order
they were written in, the most concurrent code first.

| module | what it is | built on |
|---|---|---|
| `BoundedFifo` | what `queue.c` promises: a bounded first-in first-out channel | |
| `RingQueue` | `queue_push`, `queue_pop`, `queue_empty`, `queue_count`, one shared access per step | implements `BoundedFifo` |
| `QueryPipeline` | what `opo_client_query` promises: queries finish one by one, in order, with their answer or a loss notice | |
| `PendingRing` | the ring of pending queries: callers, receiver, processing threads | implements `QueryPipeline` |
| `AsyncClient` | the client with a `query_callback`: the gate, the response queue, callbacks that query | composes `BoundedFifo` |
| `Wire` | encoded values: kinds, lengths, which encoding is chosen, `opo_val_bsize` | |
| `Builder` | `builder.c` | `Wire` |
| `Reader` | `val_iterate`, `opo_val_next`, `opo_val_member_count`, `opo_val_get` | `Wire` |
| `Message` | a message built and then read | composes `Builder` and `Reader` |
| `Walks` | what an encoded value is: that `val_iterate` can walk through it, and how its cells are nested | `Wire` |
| `Connection` | `opo_client_connect`, `recv_loop` and `opo_client_close` | |
| `Convert` | `opo.c`: an ojc tree made into a message and back | `Wire` |
| `MCRingQueue`, `MCPendingRing`, `MCAsyncClient`, `MCMessage`, `MCConnection`, `MCConvert` | the instances TLC checks | |
| `RingQueueProofs`, `PendingRingProofs`, `AsyncClientProofs`, `ConnectionProofs`, `BuilderProofs` | theorems and their proofs | the module of that name (`BuilderProofs`: `Message`), TLAPS |
| `MessageProofs` | theorems about what is read of what was built | `BuilderProofs`, `Walks` |
| `ConvertProofs` | theorems about the message made of a tree and the tree made of that | `Convert` |
| `Induction` | induction and recursive functions on the naturals, as facts to cite | TLAPS |

Definitions marked *Seeded defect* belong to no specification.  Each is a
plausible mistake in the definition that follows it; with that definition
replaced by the defect the property it is paired with in `PROJECT.json`
(`mutants`) fails, which shows that the property says something about the code.

### RingQueue

`q`, `head`, `tail`, `popLock` are the fields of the same names.  `ppc`, `cpc`
are program counters, `nxt` and `item` the locals of `queue_pop`; `pushed` and
`got` are history.  An item is named by its rank in push order.

`PushBegin` is the wait for room (`queue.c:58`), `PushStore` the plain store to
the slot (61), `PushPublish` the atomic store to `tail` (67).  `PopLock` takes
the lock, `PopPeek` reads the head slot and the next index (79-90), `PopGiveUp`
and `PopReady` are the two ends of the wait (94-101), `PopAdvance` the atomic
store to `head` (102), `PopTake` and `PopClear` the plain read and clear of the
slot (104, 105), `PopUnlock` the return.  The early return that takes an item
straight from the head slot (81-84) is part of `PopPeek`; `HeadSlotEmpty`,
which is proved, says that it never happens.  A spin on the lock or on `head` is an action that is
not enabled.

### PendingRing

A slot's fields are `state`, `id`, `cb`, `resp`.  Three kinds of threads:

* callers: `QueryLock` (507-510), then `QueryBusy` (EAGAIN) or `QueryFill`
  (529-535), `QuerySend` (536), `QueryAdvance` (538-541), `QueryWrite`
  (542-545), `QueryUnlock` (546);
* the receiving thread: `Receive`, then the search (`MatchOnDeck`,
  `MatchFound`, `MatchNothing`), for every query stepped over `SkipOne` and
  `SkipNext` (213-232), at last `Deliver` or `Duplicate` (234-240) and
  `DeliverNext` (241-244);
* processing threads: `TakeLock`, `TakeGiveUp` or `Take` (130-152, the lock is
  dropped with the slot still ready), `Mark` (154), `CallBack` (561), `Wipe`
  (564-565), `Clear` (566).

A message is its id.  The loss notice built at 215-225 is the negated id of the
response that revealed the loss, because that is the id stamped on it (224).
`wire` is what was written to the socket; `arrived`, `resolved` (how many
queries were answered or stepped over) and `done` are history.

Under the mapping to `QueryPipeline` a query is answered when the receiving
thread stores its response and lost when it is stepped over, the answers not
yet called back are those in the slots that are ready, and a query leaves the
pipeline with its callback.

The server answers what it received in the order it got it (`ReceiveNext`) and
may answer a query once more (`ReceiveAgain`), as `Repeats` says: "none" of
them; "any", whenever it likes; or "harmless", which leaves out the repeats
that do what section 6 says of them (`MayHarm`).  Those come with nothing
pending, when `pending_find` goes round the whole ring.  A harmless repeat finds
nothing, or the answered query on deck after the last query was issued.

Abstractions: `pending_find` is one step over the ids (the receiving thread is
the only one that moves `on_deck`, a slot's id changes only while the slot is
clear or taken, and the id looked for was in its slot before it was written to
the socket); storing a loss notice and marking its slot ready is one
step, like `head++` with its wrap and the unlock; a failed or short write is a
query that never reaches the server (a short one really leaves half a message
on the socket, see section 6); `when` is written and never read.
`wait_for_ready` polls with a timeout of `(int)(0.01 / 1000.0)`, which is 0, so
waiting is reading the head slot's state again: `TakeGiveUp` followed by
`TakeLock` covers it, and the wake-up pipe has no other effect.

### AsyncClient

`pending` is the counter.  `Enter` is the one atomic add and the test of the
value it returns (`client.c:496`), `Admit` the load that lets a waiting thread
go (499), `Write` the write (504).  `Receive` and `Push` are the receiving
thread, which waits in `queue_push` while the queue is full; `PopResponse`,
`CallBack` and `CountOff` are `opo_client_process` (576-580).  The queue is a
`BoundedFifo`: `RingQueue` is shown to implement it, so the composition does
not repeat its steps.  A callback may call `opo_client_query` (`Reentrant`):
then its thread stands at the gate with program counter `ppc` at "call".
Queries are anonymous, the code numbers only the ref it returns.

### Wire, Builder, Reader, Message

A message is a sequence of cells.  A leaf or a key is a cell; an object or
array is the cell of its five head bytes followed by the cells of its members.
A cell has its kind (the type byte), the length it carries, the number of bytes
really written and its offset: what the writer put down and what a reader takes
the size to be (`BSize`) are two different things here, as in the code.  The
contents of texts and numbers are left out.

`Builder`: `cur` and `end` are offsets from `head`, `stack` holds the stack up
to `top`.  `Assured` is `builder_assure`, `MayPush` is `check_key`, and each
push is `check_key`, the key, room, bytes, in the order of the code.  A call
that is refused changes nothing but `err`, so it is an action that is not
enabled.  `Take` ends the life of the builder.  When the buffer of a caller is
outgrown, the new one holds nothing of what was built (see section 6): the
cells become JUNK, of which the model knows only that they are there.
`opened` and `calls` are history: the kinds of the open values, and what was
pushed and closed, in order, as the callbacks that ought to read it.

`Reader`: the recursion of `val_iterate` is `frames`, one for every running
call; `fresh` tells the first test of a loop, which does not look at `cont`.
A callback goes on, answers stop or reports an error; `Tell` makes one, if it
is set.  `MemberCount`, `Next` and `Get` are functions of the message.  A part
of a path is the length of a key, which stands for the key, with the index its
text spells when it is a number.  A part is never empty: `opo_val_get` ends at
an empty last part (`val.c:431`) and takes one before a dot for the index 0 of
an array (465), so no path asks for the empty key.  `FoundByPath` compares
`Get` with the paths found from the members upwards, where a key given twice
hides the later member and an empty key all behind it; under any other part
nothing is found, a digit being the key of a member as well as an index.

### Convert

A tree is the sequence of its values in the order they are written, each with
its type, key and parent, and what it says: a number, the length of a text, the
instant a time text means.  A text of the form "time" is as `strftime` writes
an instant; one that is "skewed" has a month, day, hour, minute or second out of
its range, of which `time_parse` and `timegm` make an instant all the same.  A
double is written in digits, `DecLen` of them, and read back as `Rounded` says;
which doubles that changes is libc's affair, so both are constants.  An instant
is kept modulo 2^64 nanoseconds (`Unsigned`), and the text made of it on the way
back is always of the form "time".  `Grow` is the caller who makes the tree with the ojc library.
`MsgSize` is `opo_ojc_msg_size`, the first walk of the tree (`wire_size`);
`Fill` and `FillSize` are the second (`wire_fill`), a value at a time, with the
choice of encodings, the texts that are taken for a uuid or a time, and numbers
cut to their width.  `ReadKey`, `ReadLeaf`, `ReadBranch` and `ReadTooDeep` are
one pass each of the loop of `opo_val_to_ojc`, `Surrounding` the test that
leaves at most one parent (`opo.c:545`), `Attach` is `push_parse_value`.
`Max1` to `Max8` are the largest numbers of one to eight bytes, so that the
widths of TLC's instance are small and the arithmetic is that of the code.

### Connection

Bytes are counted, not stored.  The stream is the sequence of the places where
the messages the server sends end (`Offset`, `Size`); `sent` bytes have arrived
and `read` of them were read; `bcnt`, `msize`, `mcnt` are the variables of that name (a message in
`msg` is `msize > 0`).  `out` records where in the stream each message handed
over was taken from.  `SizesAt` is `opo_msg_bsize`: at a place where no message
starts it may be anything, so a wrong cut is seen at once.

`ConnectFails`, `Connect`, `Start` and `Tell` are `opo_client_connect`: the
client is `active` before its thread is there, the thread may run, and end,
before the connection is reported, and when it cannot be started the client is
returned without it.  `connected` and `reported` are history: what the
status_callback was told.

`Poll` is poll with an event, a timeout changes nothing; `PollFails` an
interrupted poll, which ends the loop (265-274).  `Recv...` is the read into
`buf`, `Cut...` one pass of the loop at 292, `Rest...` the read into `msg`,
`Give` its end, `Quiet`, `Gone...`, `SocketError` the tests of 350-370.  A
socket that is closed and `sock` set to 0 are two steps, since
`opo_client_close` runs against them (`Close`, `CloseTest`, `CloseShut`,
`CloseJoin`).  `fd` is the socket itself and `sock` the field; a `sock` of 0 is
descriptor 0 of the process, on which poll may find anything and recv fails.

## 3. The runs

Deadlock is not looked for: every model stops when the bounded number of items
or queries is used up or the client is closed, and what must not stop is a
liveness property.

| run | instance | what it shows |
|---|---|---|
| `ring_queue` | 4 slots (the smallest `queue_init` makes), 2 popping threads, 10 items, fair | no race on a slot; first in first out; the two counts; every step is a `BoundedFifo` step; everything pushed is taken |
| `pending_ring_lossy` | 3 slots, 2 callers, 1 processing thread, 5 queries with callbacks, lost answers, repeated ones that do no harm, failed writes, fair | one callback for each query, in order, with the right answer or a loss notice; ids in order on the wire; EAGAIN only with a full ring; no slot reused early; every step is a `QueryPipeline` step; with a server that goes on answering a query that reached it is finished, and so are all before it |
| `repeated_answer` | 2 slots, 2 callers, 1 processing thread, 3 queries, any answer repeated at any time | **fails**: a callback is made a second time |
| `two_processors_one_slot` | 2 slots, 2 processing threads | **fails**: two threads work on one slot |
| `lost_without_callback` | 2 slots, losses, queries without callback, fair | **fails**: later callbacks are never made |
| `async_gate` | limit 2, 2 callers, 2 processing threads whose callbacks query, failed writes, 6 queries, fair | the count is exact; the receiving thread never finds a queue larger than the limit full; a waiting thread gets through unless the gate is crowded |
| `async_gate_stuck` | limit 1, 2 callers, fair | **fails**: the threads at the gate wait for one another |
| `message` | 6 cells, 3 levels, keys of 0, 3 and 300 bytes, a text of 1004, a uuid, a copied array; 2 sets of callbacks | sizes, buffer, stack, member counts; every value is found under its path and nothing under another; what is read is what was pushed; a stop ends it all |
| `message_grown` | 4 cells | **fails**: the grown buffer is not the builder's |
| `connection` | 4 streams, size known after 3 bytes, `buf` of 5, queue of 1, with and without `query_callback`, signals, a thread that may not start | messages come out as sent whatever the pieces; every byte is accounted for; arrived messages are handed over; the beginning and the end are reported; close returns |
| `short_message` | messages of 3 and 2 bytes, fair | **fails**: the last message stays in `buf` |
| `convert` | all trees of up to 5 values, one deeper than the reader's stack; all of up to 2 with leaves of every type at the edges of their encodings | as many bytes are written as were allocated; no value is lost or made up, and none changed but the doubles and times that do not survive; exactly which trees come back as they went |

**Bounds.**  `MaxItems` and `MaxQueries` cap the histories.  They are chosen so
that every index goes round its array and slots are used again (10 items in a
ring of 4, 5 queries in 3 slots, 3 or 4 in 2), since what can go wrong needs
a slot reused at most once; the theorems have no such bound.  Two callers are enough for `tail_lock`, two popping
threads for `pop_lock`; the ring is checked with one processing thread because
with two it is broken (the violated run).  In `async_gate` four threads are
twice the limit.  A message of six cells has room for three levels and a
member after each; the lengths 3, 300 and 1004 are on both sides of the one
byte length, a key may be empty, and 1004 leaves 12 bytes of the first 1024, so that the room each
push asked for matters.  `Header` 3 and `BufSize` 5 stand for 13 and 4096: the
streams have messages below `Header`, below `BufSize`, equal to its remainder
and above it.  `MaxDepth` of the builder is 2 for 512.  In `convert`
integers have 3, 5, 9 and 17 bits in the place of 8, 16, 32 and 64, with the
numbers on both sides of each edge, texts at 0, 255, 256, 65535 and 65536
bytes, instants on both sides of 1970, of `NO_TIME` (-1, and the same modulo
2^17), of the largest signed and of the largest unsigned number, skewed texts of
such instants, and four doubles (0.3, 0.1 + 0.2, 1234567890123460 and
1234567890123456.5), of which two come back as they went; five values are the fewest in which
three levels end at once with a value after them, and a stack of 4 is as
much smaller than 512 as a tree of five values needs.  Two values are enough for the
leaves because the encoding of one does not depend on any other.

**Fairness.**  Weak fairness for each thread that is inside a call, for the
receiving thread, and for processing threads, which a program has to run if it
wants callbacks; the operating system schedules them.  In `pending_ring_lossy`
the server goes on answering as long as it has queries to answer, though it may
skip any but the last; the fairness of `ReceiveNext` is strong because a
repeated answer that keeps the receiving thread busy disables it for a while,
and such answers must not keep the next one away for ever.  None for beginning a
query, for losses, for failures, for a signal, for `opo_client_close` to be
called or for anything to come on descriptor 0.  A connect or close once begun
goes on.  The spins on flags are fair
only in that a thread gets the lock when nobody else takes it any more, which
weak fairness of the call as a whole gives with finitely many queries.
`WaitEndsUnlessCrowded` rests on that bound as well: `opo_client_query` polls
the count, and with endless competing queries it may miss every moment the
count is low.  `Crowded` says when it cannot get through at all: the waiting
threads, those of them that wait inside a callback (their response is not
counted off either) and the failed writes exceed the limit by themselves.
`MessagesArrive` and `EndReported` excuse a closed client, an interrupted poll
(both end the thread) and a receiver that waits for room in a full queue.

## 4. The proofs

All theorems hold for every value of the constants; what is assumed of these is
in the module that declares them (`...Assumption`).

**`RingQueueProofs`**: for every size asked of `queue_init`, every number of
items and every set of popping threads `TypeCorrect`, `RaceFree`, `FifoOrder`,
`HeadEmpty`, `CountsTell` and `Refinement` (`Spec => ImplementsFifo`).  The
assumptions are only that sizes and bounds are natural numbers.  None of the
invariants is inductive alone, since they speak of what can be seen and the
reasons lie in the program counters.  `IInv` adds

* `LockInv`: who is in the critical section holds `pop_lock`, and is alone;
* `SlotInv`: the slots strictly between `head` and `tail` hold the next items in
  order, all other slots are NULL, the head slot while it is being taken and
  the tail slot while it is being filled excepted;
* `PushInv`: once a push is past its wait, `head` is not `tail` (only pops move
  `head`, and away);
* `CountInv`: the items pushed are those gone and those between the indices;
* `NextInv`, `GotInv`: the locals of the popping thread, and the history.

`StepIInv` has a step for every action.  For the refinement `RunFacts` and
`Abstraction` describe the mapped buffer without its definition, and `StepFifo`
shows each action to be a put, a take or a stutter under the mapping: the put
is the store to `tail`, the take the store to `head`.

**`PendingRingProofs`**: for every number of slots, callers and queries, and
whatever the server and the socket lose, `TypeCorrect`, `InOrder`, `Answered`,
`WireOrder`, `BusyFull`, `Found`, `SlotReuse` and `Refinement`
(`Spec => ImplementsPipeline`).  Each is stated under the hypothesis `Benign`,
which is what the violated runs leave: one processing thread, no repeated
answers, and a callback with every query when answers may be lost.  With two
processing threads `SlotNotShared` fails, with repeated answers `OnceInOrder`
does, and without callbacks a lost query blocks the ring.

The inductive invariant numbers the queries.  Query k belongs to slot
`Place(k)`, which is (k - 1) modulo the size of the ring, and six counts say
how far each thread got: `Took` <= `resolved` <= `Written` <= `Moved` <= `Sent`
<= `Issued` <= `Took + Room`.  `PointerInv` ties `head`, `on_deck` and `tail`
to three of the counts; `SlotInv` says, from the counts alone, what the slot of
each of the queries in the window `Took + 1 .. Took + Room` holds; `TakenInv`
says the same of the slot in the processor's hands.  `WireInv` and `ArrivedInv`
are about the server: ids go out in order and come back in order.  `DoneInv` is
what was promised.  The counting lemmas (`PlaceAhead` to `Window`) show that
queries of one window have slots of their own and that every slot is that of
one of them; from there every action is a local matter: it moves one count and
touches the slot of the query that count names.  The refinement needs the
history variable `resolved`, as the slot's fields alone do not tell the queries
that were stepped over from those still to come.

**`AsyncClientProofs`**: for every limit, every room of the queue and all
finite sets of threads `TypeCorrect`, `CountIsExact` and `ReceiverFree`.
`IInv` is type correctness, `QueueInv` (what is in the queue, taken and
finished adds up), `PendingExact` and `GateInv`, that no more than
`PendingMax + 1` queries are in flight.  The argument is about cardinalities: a
thread joins or leaves the sets of those that wait, write or work, and the
counters follow.  `GateInv` is inductive because of `PendingExact`: a thread
passes only when it saw at most `PendingMax` before its own query.  It is a
lemma for `ReceiverFree` and no promise of the code, whose documentation allows
one query less (section 6).

**`ConnectionProofs`**: for every stream of messages that are not empty, every
way the network cuts it, every size of `buf` from `Header` on, every failure and a
concurrent close `TypeCorrect`, `Framing`, `NoByteLost` and `Told`.  `IInv` adds
`PartInv` (what was read is what was handed over and what is in hand, and what
is in hand is the beginning of the next message and too little to tell its
size, except while `buf` is being cut) and `OpenInv` (nobody but the receiving
thread has the client while it is being made, and it gives up the socket only
after a report).  That the cut is made at the place where a message starts is
what keeps `SizesAt` from being any size.

**`BuilderProofs`**: for every length of keys and leaves, every limit on the
depth, every first buffer and owner of it `StackTrue`, `SizeTrue` and
`RoomTrue`.  `StackPoints` needs to know that the five bytes of every open value
lie before `cur` (`StackInv`), or closing a value could touch the cell of
another; `SizeAgrees` needs to know where the root is and that it was the size
it says when the last value was closed (`RootInv`), since `check_key` lets
nothing in behind a closed root.  Whatever is written is a continuation of what
was there (`Continues`): every push is shown to be one once, with or without a
key and with or without a new buffer, and the invariants follow from that.
`SizeTrue` assumes that the leaves take the bytes a reader takes them to have
(`Exact`); a uuid text with upper case digits does not.  `RoomTrue` assumes
in addition that at all times the arrays just opened one after another, which
ask for no room, take no more than `MSG_INC` (`ShortRuns`, less than 820 of
them): a push that asks gets its own bytes and `MSG_INC` more, and what those
arrays took has to fit in there.  The message may be as long as it likes.
`builder.c` does not keep a caller from longer runs.

**`MessageProofs`**: for every length of keys and leaves, every limit on the
depth, every first buffer and owner of it, every set of callbacks and all their
answers `Stops` (`StopEnds`), `OnBoundary` (`ReaderOnBoundary`), `Reads`
(`ReadsBack`), `Counts` (`CountsMembers`) and `Finds` (`FoundByPath`).  Only the
first is about one step: what is read now was written by calls long ago.  What
links the two for `OnBoundary` and `Reads` is a *walk* (`Walks`): a function
from 0 .. n to places, each with the cell the callback is about, the position
after it and the open objects and arrays, such that every place follows from
the one before as `val_iterate` goes on.  The invariant has three parts.

* `Walkable`: there is a walk through what is built so far that makes exactly
  the callbacks of what was pushed, ends at `cur`, and is then in the values
  on the builder's stack, which are those without a size (`Grown`).  A push
  makes the walk one callback longer (`StepMore`) or joins to it the walk of
  the value it copies, moved to its new place (`ValueJoined`).  A pop writes a
  size into a cell the walk went through long before, and must not change how
  it went (`StepsSealed`): it does not, because a walk never goes on in a
  container behind its end, and the one closed ends where the walk does.
  `opo_builder_take` closes all of them, which is a pop repeated
  (`GrownCloseAll`, by induction on the depth).
* `Readable`: a message taken has such a walk with nothing open at its end.
* `ReadInv`: a reader that goes on is at some place of that walk, its running
  calls are the values open there with their ends, and it has heard the
  callbacks on the way there that are set.  A step of the reader is the step to
  the next place, since the cells of a message lie one behind the other
  (`Laid`) and so only one of them is where the reader looks.

For `Counts` and `Finds` that is not enough: a walk looks at a value's members
one after the other and never over them.  `opo_val_member_count` and
`opo_val_get` stride over whole members by their sizes, and an object two cells
at a time, and what they must find is defined without a walk.

* `Nested` (`Walks`) says of cells, as far as they are written, that one begins
  where the head of the one before ends, that what begins in a container ends
  in it, a key never as the last, and that behind a key is a value and a value
  has a key in front exactly if the innermost container around it is an object.
* `Nesting`: what is built is nested, and no key is left without a value; that
  the open values, and only these, have no size is in the walk.  A push keeps
  it because `check_key` demands a key in objects and there only (`NestedMore`,
  with the copied value nested in itself), a pop because the sizes it writes
  reach to the end of what is written (`NestedClosed`).  `TreeTaken`: a message
  taken is nested with every size written (`Tree`).
* In a tree a reader that is at the first byte of a member, or of its key, is
  at the next one or at the end after one stride (`Stride`), and `Members`,
  found from the inside, are what it meets (`MembersAre`).  So the count from
  any place is that of the members from there on (`CountIs`, by induction on
  the distance to the end), a key leads to the first member that has it
  (`KeyFound`), and n rounds lead to the member with n before it (`RoundIs`).
* A value that is not hidden is then found by induction on its number, since
  the container around it comes before it and its path is one part shorter
  (`FoundThere`); behind it one part more leads nowhere unless to a member
  (`NothingThere`).

`Stops` has no hypothesis, and says that no callback follows once `cont` is
false; a callback that reports an error without saying stop still has the ends
of the open values told after it (`val.c:367`), and what the uuid and time
callbacks answer is not looked at.  `OnBoundary` and `Reads` take `Honest`: leaves are
as long as a reader takes them to be (`Exact`), keys fit the two bytes of their
length, and a value given to `opo_builder_push_val` is an encoded one
(`EncodedBy`), none of which `builder.c` looks at.  `Counts` and `Finds` take
`Proper`, which wants the pushed value to be nested and not a key besides
(`OneValue`).  `MCMessage` says that TLC's instance is so.  A buffer lost by
`builder_assure` is excepted, as in the properties themselves (`Whole`,
`Sound`).

**`ConvertProofs`**: for every tree of the values `ojc` has, with keys whose
length fits two bytes and whatever the limit on the depth, `Sizes`
(`SizesAgree`), `Values` (`ValuesKept`) and `Back` (`BackAsItWent`).  A message
is written front to back, the sizes of its objects and arrays out of that
order, and it is read without the tree; the invariant says at every time how
the message stands to the tree.

* `TreeInv`: what is around a value is around what is in it, and each value's
  parent is around the value before.
* `WriteInv`: the items so far lie one behind the other (`Laid`), they are
  those of the first values, each behind its key (`Holds`: value i is at place
  p[i]), and they are as long as `wire_size` says of these values.  What is
  being written is what is around the next value (`OpenInv`, `RootInv`), and
  a size that is written ends behind all its value is around and before
  whatever follows (`SpanInv`).  From this the size of the whole.
* `ReadInv`: the reader is in front of the item of the next value, or of its
  key, and what it has made are the values before it, but for their places;
  a value made is as it was exactly if it is not `Altered` (`ValueFilled`).
  Since no two items begin in one place, it sees one item only (`HereIs`).
* `StackInv`, for the places: in front of a value the reader's parents are
  those of the value before, of which d are the next one's and the others end
  where the reader is (`EndsBy`, from `SpanInv`).  It leaves one of them at a
  key and one at a value; if these are all, the parents are the next value's
  (`StackLeaf`, `StackBranch`), and if not, the value gets one that is not its
  own (`AttachParents`), or an error is told.  So the condition in
  `BackAsItWent` is exact in both directions.

`ConvertAssumption` is all that is assumed: the limits of the integer types
are in their order, keys are not longer than 65535, leaves are those `ojc`
has, every double has a text and a double that is read of it, and the depth is
at least 1.

**`Induction`** has what these proofs need of the natural numbers.  The
library's induction theorems take a predicate as a parameter, which the
provers here cannot instantiate; `SetInduction` says the same of a *set* of
numbers that contains 0 and with each number the next, and follows from the
principle for functions in the library.  `Recursion` gives a function that is
defined step by step from 0 on, and `Recursive` one on any set whose value at x
is made of its values where a measure is less; without them nothing is known
of a recursive definition, neither that it is a function nor its equation.

Only checked by TLC: all liveness (the prover has no rules for fairness or
ENABLED that would serve), and `PendingRing` outside of `Benign`.

## 5. What is not modelled

* `queue_listen`, `queue_release` and `wait_state`: nothing in the library
  calls them and `queue.h` is not a public header, so the pipe is never opened
  and `queue_push` never writes to it.
* What `opo_client_close` frees while other threads are in a call: the
  documentation gives no order of the calls, and a model of the freed ring could
  only say that the callers must be out.
* The typed getters of `val.c`: each decodes one value and keeps no state.
* `opo_client_pending_count` and `opo_client_ready_count`: they change nothing
  and nothing in the library reads them; section 6 has what they return.
* `err.c`, `dtime.c`: formatting and clocks.
* Failing `malloc` or `pipe`; a builder used after `opo_builder_take`; messages from a
  server that does not speak the protocol.
* Two threads pushing to one queue: `queue_push` is for one thread, and the
  library has one.
* The width of `next_id` and of `pending`, 64 bits.

## 6. Where code and documentation disagree

Shown by a run (`findings` in `PROJECT.json`):

* `client.c:197` - `pending_find` compares with `tail` only after it has moved
  on, so with nothing pending it goes round the whole ring, while the comment at
  178 has it work towards the tail.  A repeated answer then finds a query that
  was answered, and every slot before it is taken for a lost query: one already
  cleared still has its `cb`, is marked ready, and its callback is made again.
* `client.c:152` - `take_next_ready` drops `head_lock` before it marks the slot
  taken, so a second thread can come round the ring and take it again.
* `client.c:214` - a lost query without callback is never made ready and blocks
  the ring's head for ever.
* `client.c:499` - threads waiting at the gate are counted in what they wait for.
* `builder.c:116` - a buffer outgrown is replaced without a copy and without
  setting `own`.
* `client.c:292` - a message shorter than 13 bytes waits for the next one.

Met while modelling, without a run of their own:

* With two processing threads callbacks of consecutive queries may be made in
  either order (`client.c:561`); `doc/index.html:742` says they always occur in
  the order the queries were sent.
* `process_msg` compares the id on deck (`client.c:205`) and tests the slot's
  state later (234).  When an answer is repeated with nothing pending, the
  query's slot can be called back, cleared and filled again in between, and the
  old answer goes to the new query.  `RightAnswer` fails with `Repeats` = "any"
  already on a ring of one slot; `MayHarm` keeps such repeats out of the run.
* The gate lets `pending_max + 1` queries in (`client.c:496`): the add returns
  the count before it.  `doc/index.html:621` calls `pending_max` the maximum.
* `opo_client_pending_count` and `opo_client_ready_count` are differences of the
  pointers modulo the ring, so 0 for a full ring (`client.c:590`, 595);
  `doc/index.html:700` and 760 call them the numbers of pending and of ready
  queries.
* A short write (`client.c:543`) is reported like a failed one, and the next
  query is written behind the half message: the server then takes the beginning
  of that query, and so on, for the rest of it.  The model has such a query as
  one that does not arrive and nothing worse.
* A loss notice carries the id of the response that revealed the loss, while
  the callback gets the right ref (`client.c:224`).
* In the asynchronous client the returned ref is not put into the message
  (`client.c:503`), and a failed write leaves `pending` raised.
* `status_callback` is called without a test for NULL at `client.c:209` and 235.
* `opo_client_close` makes no callbacks; `doc/index.html:668` says outstanding
  queries are completed with error responses.
* End of stream in the middle of a message is a read of 0 bytes at
  `client.c:336`: the loop spins until the client is closed, and says nothing.
* `opo_client_close` and the receiving thread may both close the socket, and
  either may close descriptor 0 (`client.c:288`, 472); at 355 and 360 the
  socket is not closed at all.
* When the receiving thread cannot be started the client is returned
  nevertheless (`client.c:457`), and closing it joins a thread that never was.
* `opo_val_to_ojc` leaves at most one parent for each key or value it reads
  (`opo.c:544`), while several may end at one place: what follows an array
  that ends together with the array it is in gets the wrong parent.
  `BackAsItWent` has the exact condition.
* A text that is taken for a time is rewritten (`opo.c:71-136`, 640-660).  No
  range is checked: `timegm` makes 2017-03-02 of 2017-02-30, and that comes
  back.  Seconds are multiplied by 1000000000 in 64 bits and read without a
  sign: times before 1970 and after 2554 come back as others, but for the one
  that gives -1, which is taken for no time at all and stays a text (`opo.c:10`).
* A double is written with 15 digits (`opo.c:336`, 428), or with one decimal
  when it is a whole number: one that needs 16 or 17, as 0.1 + 0.2 does, comes
  back changed.
* `opo_val_key` looks for `VAL_STR2` where a long key has `VAL_KEY2`
  (`val.c:626`), so it returns NULL for one; `doc/index.html:1142` says it
  returns the value of a key.
* `opo_builder_push_array` does not ask for room (`builder.c:279`): arrays
  opened one after another, or a long row of empty ones, are written past the
  end of the buffer, five bytes each, until some other push asks for room.
  `WithinBuffer` has the exact amount; 820 arrays opened in a row take more than
  the `MSG_INC` that makes up for it.
* The depth test lets 513 levels into a stack of 512 (`builder.c:250`,
  `builder.h:24`), though its message says "Limit is %d": the start of the last
  is written behind the end of `stack`.
* A key longer than 65535 bytes wraps its length (`builder.c:71`); upper case digits
  of a uuid text are skipped (`builder.c:91`).
* What the uuid and time callbacks answer is ignored (`val.c:310`, 320, 332,
  350); `doc/index.html:986` says callbacks decide whether to go on.

In `Builder` a stack slot past the end is taken to work as any other, since
what the build does there is not determined.

## 7. Plan

Done, in this order: `RingQueue`, `PendingRing`, `AsyncClient`, the proofs of the
first and the last, `Message`, `Connection`, then the lifecycle in
`Connection`, `opo_val_get`, `Convert`, `ConnectionProofs`, `PendingRingProofs`,
`BuilderProofs`, `Walks`, `MessageProofs`, `ConvertProofs` and the nesting of
messages in `MessageProofs`.  What could follow:

1. The proofs about `PendingRing` with the repeated answers that do no harm,
   which are only checked now, and a weaker condition than `MayHarm`.
2. The choice between `PendingRing` and `AsyncClient` composed with
   `Connection`: messages handed over are the arrivals of the one or the other.
