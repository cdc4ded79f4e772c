# TLA+ specifications of asynx

asynx is an in-process event-sourcing library. A command is validated against
the state of its aggregate, the event it emits is committed together with a
command receipt and a delivery entry, and the event is then delivered, in order
and at least once, to the durable subscribers. `docs/spec/guarantees.md` states
six guarantees. These modules model the code that is meant to give them, TLC
checks the models on small instances, and TLAPS proves the safety results for
every instance.

## 1. Inventory

| component | state it keeps | operations | what is hard | what makes it correct |
|---|---|---|---|---|
| `processor/exec/keyedlock.go` | entries (token channel, reference count) by key | Lock, TryLock, unlock | cancellation against hand-over, deletion against look-up | exclusion, no leak, no blocked unlock, waiters served |
| `processor/exec` (write path) | fences, locks; uses the store | Execute, Forget, receipts | two commands with one id, failures inside and after the transaction, crash | one event per id, receipt iff event, rejections stand |
| `eventstore` (reader, writer, replayer) | none; uses event and snapshot store | Get, Load, AppendTx, Snapshot | lock-free reads that save snapshots against Forget | snapshots agree with streams, no lost update |
| `bus/dispatcher` | one record per aggregate (queue, park, halt channel, undelivered versions), a worker goroutine each, tickets | Enqueue, deliver, retry, dead-letter, ack, Park, Lift, Supersede, Close | worker retirement, parks that race deliveries and lifts, acks that fail | order, nothing lost or stranded, waiters released |
| `processor/processor_recovery.go` | a scan and a list of parks per call | Resume, Recover, Paused | stale lists, batches, commits between scan and lift, partial failure | nothing stranded, order kept |
| `processor/pool`, `processor.go` | intake and job channels, mailboxes, wait groups | Send, SendWait, Shutdown | workers racing for an aggregate, full mailboxes, Send against Shutdown | one worker per aggregate, every command answered, shutdown ends |
| `store` (in-memory) | streams, receipts, delivery log, snapshots, undo log | Atomically and its operations, reads | read-uncommitted reads | event, receipt and entry together |
| `bus/channel_bus.go`, `bus/exec` | subscriptions and their index, in-flight count, a goroutine per handler | Subscribe, Unsubscribe, Publish, PublishSync, Close; timeout, panic, fallback | Publish against Close, handlers that outlive their timeout | one event of an aggregate at a time, nothing runs after Shutdown |
| `asynx.go` (Listen) | a channel, a send lock, atomics, the id of its subscription | Listen, SubscribeWait, unsubscribe | the last event, unsubscribe and the late id all end the listener | no send on a closed channel, the stream in order, the listener leaves the bus |
| `builder.go`, `topic.go`, `models`, reporter, `storetest`, mocks, example | configuration, declarations, test support | - | - | not modelled |

How they interact: `Send` puts a command into a shard; a worker claims the
aggregate and runs the executor, which takes the aggregate's lock, loads,
validates, commits through the store and hands the event to the dispatcher
before it releases the lock. The dispatcher's worker for the aggregate runs the
live handlers (PublishSync) and then the durable ones and acknowledges the
delivery entry, or parks the aggregate. A listener is a live handler that feeds a
channel. `Shutdown` ends the commands, waits for the Forgets, and closes the
dispatcher and then the bus.
`ResumeDeliveries` lifts parks and redelivers from the log; `Build` recovers the
log at start; `Forget` sends a tombstone down the same path and then erases.

## 2. Modules

| module | models | notes |
|---|---|---|
| `KeyedLock` | `exec/keyedlock.go` | One action per stretch under the map's mutex or per channel operation. |
| `KeyedMutex` | what the lock promises | Abstract specification; `KeyedLock` implements it with `holders <- Holders`. |
| `AggregateRecord` | `aggregates/record.go` and the pure part of `aggregate_registry.go` | What each registry operation does to one record, as operators on records. |
| `Delivery` | dispatcher, executor hand-over, Forget, Resume, Recover, Close, crash | One action is one hold of the registry's mutex, one store call, one look at a halt channel or one round of handlers. |
| `Outbox` | what a durable subscriber is promised | Abstract specification; `Delivery` implements it with `owed <- ` the versions of an aggregate in the log, `given <- started`, `accepted <- handled`. |
| `ShardPool` | `pool/shard.go`, `pool/pool.go`, the life cycle in `processor.go` | One shard stands for all: the router is deterministic and shards share only the shutdown. |
| `WritePath` | `exec.go`, `exec_idempotency.go`, `exec_forget.go`, `eventstore`, `store/memory.go` | One action is one call of the store or the snapshot store. |
| `LiveBus` | `bus/channel_bus.go`, `bus/exec/exec.go`, `bus/utils`, the end of Shutdown in `processor.go` | One action is one hold of `subMu` or `publishMu`, a load of the index, or the start or end of a handler. |
| `Listener` | Listen, SubscribeWait and unsubscribe in `asynx.go` | Composed with `LiveBus`: handle is a handler of the bus, and unsubscribing is the bus's Unsubscribe. |
| `MC*` | - | Symmetry sets and constants for TLC. |
| `*Proofs`, `DeliveryInvariant`, `DeliveryGuarantees`, `WritePathReceipts` | - | Theorems and their proofs (section 4). |

### Delivery

`stream` and `log` are the store; `lock` and `fence` the executor; `reg`,
`generation`, `worker` and `ticket` the dispatcher; `resumer` and `backlog` the
calls of Resume and Recover in progress. `handled`, `letters`, `started` and
`ran` are history. The halt channel a worker took with its job is
`worker[a].halt`: the same channel the record still has, or a replaced one that
was open or closed when it was replaced; comparing channels is all the code does
with it. Assumptions and abstractions:

- each durable subscriber matches every durable event; live events are jobs that
  are queued and published but carry no ack;
- a handler accepts or fails; a handler that waits on itself through an
  unrelated context is not modelled;
- the cause of a park, `Inspect` and jitter are left out; what publishing to the
  live bus does is in `LiveBus`, and here it only takes time;
- `parkIfDurable` after a failed Enqueue is left out: the built-in dispatcher
  refuses only after Close, and Close comes after the last command and Forget;
- Recover reads an aggregate's entries in one step, since `Build` has not
  returned and nobody else uses the store;
- the transaction of a Forget is open from `BeginTombstone` to `WriteTombstone`
  or, when a synchronous projection or the store fails, `TombstoneFails`, which
  restores what it dropped. Whoever writes to the store meanwhile waits
  (`NoTransaction`); Resume's scan takes no lock and does not. The constant
  `DirtyReads` says what the scan then sees (`VisibleLog`): TRUE is the in-memory
  store, which is read-uncommitted, FALSE a store that isolates its reads. The
  store contract leaves the choice open (`store/storetest/storetest.go:583`);
- the transaction of a command is one step. A scan that sees the entry it *adds*
  and then loses reads no event for it, and acknowledges it as vanished, or reads
  an event committed under the version meanwhile, which the park names as well.
  Entries that an open transaction *drops* are another matter: see
  `DeliveryDirtyScan` below.

What an ack, a Forget or a park keeps of a log or a queue is `Keep`, a filter
with a set for its test: as a recursive function, and without an operator for a
parameter, it is a filter the prover can reason about. `RemoveFirst` of the
community modules is the removal of one command in `ShardPool`.

### ShardPool

`accepted` and `claimed` are history: the commands in the order the intake and
the claims took them. A caller's context ends with `EndContext`; the check of
the context before the intake is one with the cancelled branch of `Send`.
"down" means the pool has drained: waiting for Forgets and closing the
dispatcher and the bus come after it and are in `LiveBus` and `Delivery`. The test that refuses a SendWait
from its own handler concerns a context value and is left out.

### WritePath

An event is `<<version, id>>`, a stream a set of events, and a state the set of
the events applied to build it: a patch that is applied to another state than
the one it was computed from shows as a state that is not a prefix of the
stream. Id 0 is an event of an old schema, whose reading upcasts and so wants an
auto-snapshot. The store is the in-memory one: transactions exclude each other,
reads see their writes. `tx` holds what the undo log would restore. A crash rolls
the open transaction back, which is the contract of a store; the in-memory store
itself would lose everything. The outcome of `Validate` is free, except for
Forget, which is rejected exactly when there is nothing to forget. The wait for
the tombstone is success or failure here and is modelled in `Delivery`. One
process per store, as the documentation requires.

`GetReadsTheStream` says what a lock-free Get returns: the whole stream as it is
at Get's second read, unless a Forget erased the events of the snapshot it had
read first. In that case, and if the aggregate has been re-created with more
events than the old one had, Get can return the old state with the later events
of the new stream on top; `docs/spec/eventstore-implementation.md` does not say
so. The state is only returned: `CheckStream` keeps it out of the snapshots.

### LiveBus and Listener

A publisher is the dispatcher's worker of an aggregate, which calls PublishSync
for one event after the other, or a caller of Publish (no production code calls
`ChannelBus.Publish`; it is part of the bus's interface, and a second source of
handlers besides the workers). A worker does not publish every event: a job held
by a park (`heldByPark`), a redelivered one (`SkipLive`), a job that a park or a
Supersede threw out of the queue and one whose context was cancelled are passed
over (`PassOver`). Parks are the matter of `Delivery`, so here any event may be
passed over, and `pub[p].shown` records those that were published. `run[e][s]` is the
goroutine of subscription `s` for event `e`; it is "overdue" when its timeout has
been reported and PublishSync still waits for it, and "stray" when it has timed
out under Publish and nobody does. Subscribe is two steps because Close does not
take `subMu`: a subscription can be added to a bus that has closed meanwhile.
`shutdown` starts where `ShardPool` ends; a call whose context ends makes it
"failed", from where Shutdown may be called again. Assumptions and abstractions:

- which events match a pattern is a constant relation between publishers and
  subscriptions; the cache of compiled patterns memoises a pure function;
- handlers of the application return, panic or time out, in any order and after
  any time; callbacks on panics and timeouts change no state of the library;
- a listener has neither timeout nor fallback, since Listen passes no option;
- the load of `closed` and the addition to `received` are one step: `closed` is
  tested again under `sendMu`, and `received` is read nowhere else;
- SubscribeWait is a consumer that receives once and unsubscribes, or only
  unsubscribes when its context ends.

What the model shows beside the properties: a handler under a timeout that panics
has no fallback, because `runGuarded` recovers the panic before `fallBackOnPanic`
can see it; a timeout does not trigger the fallback either, although
`docs/spec/projection.md:147-149`, `docs/spec/overview.md:397` and
`docs/spec/bus.md:206` say that it does; a handler can start after Unsubscribe has returned, when the index was
loaded before; and a timed-out handler of Publish outlives Close.

## 3. Runs

| run | instance | states | question |
|---|---|---|---|
| `KeyedLock` | 2 keys, 3 callers, 3 entries | 11,296 | Does the lock exclude, free its entries, serve its waiters and implement a mutex, with callers that give up? |
| `DeliveryResume` | 2 aggregates, 1 subscriber, 2 resumers, 2 versions, 1 attempt, 1 fault, batches of 1, dirty reads, no Forget | 1,657,941 | Do parks and concurrent resumes keep order, does a scan in batches find its entries behind another aggregate's, and does a generation name one park? |
| `DeliveryFaults` | 2 subscribers, 3 versions, 1 attempt, 1 Forget, 1 crash, 1 fault, dead letters, shutdown, isolated reads | 2,872,272 | Are order and at-least-once delivery kept across crashes, Forgets, failing transactions and restarts together, is the erase fenced, does each queue keep a worker, and is what a subscriber sees an `Outbox`? |
| `DeliveryLiveness` | 1 subscriber, 2 versions, 2 attempts, 1 fault, 1 Forget, 1 crash, shutdown, isolated reads | 224,025 | Do deliveries, Forgets, Close and waiters end? |
| `ShardPool` | 5 commands on 2 aggregates, 2 workers, depth 1, 1 cancel, 2 shutdowns | 888,154 | One worker per aggregate, every command in one place until answered, shutdown leaves nothing? |
| `ShardLive` | 3 commands, 2 shutdowns | 158,000 | Do sends return, and does a retried Shutdown complete? |
| `WritePath` | 2 aggregates (1 legacy), 1 command id, 2 callers, 4 calls, 1 fault or crash | 4,982,854 | Receipts, events and snapshots: together, once, and from the same incarnation? What does Get read? |
| `Listener` | 1 aggregate with 3 events, 1 caller of Publish; a bounded listener of 2, or an unbounded one, or 2 handlers with timeout and fallback; 1 Shutdown that gives up | 517,562 | Are sends safe, is what the worker publishes seen whole and in order, are listeners removed, workers released, and is a Shutdown quiet? |
| `DeliverySettled` | violation | - | "`SendWait` returns once every handler has been attempted once" |
| `DeliveryDirtyScan` | violation | - | "version 6 is never delivered before version 5 succeeded", with dirty reads |
| `ShardOrder` | violation | - | "Commands for the same aggregate are always processed in order" |
| `WritePathRetry` | violation | - | "Infrastructure errors ... write no receipt, so a retry runs fresh" |

Why the bounds are enough to meet the interesting cases: three versions let an
event fail, a second be parked behind it and a third be committed between a scan
and a lift; two resumers let one hold a park the other has lifted, and two
aggregates let the acks for one shift the log while the other's entries are
scanned; a Forget among three versions lets an aggregate be erased, re-created and
parked again while a resume or a crash has hold of the old stream. Retries are in
`DeliveryLiveness`. In the shard, four commands of one aggregate fill a mailbox whose
limit is two, since the limit is never below the number of workers. In the write
path four calls are a write, a Forget, a re-creation and a retry. On the live bus
the worker and the caller of Publish give two calls of handle at once, three
events are one more than the bounded listener takes and let one be passed over
between two that are published, and a buffer of 1 stands for
the code's 16, so that an unbounded channel fills up. Which subscriptions the
application makes is a choice of the initial state. The bounds are
constants named `Max...`; they limit how often the environment acts (commands,
failures, crashes, cancellations) and never what the program does next.

Deadlock is checked for `KeyedLock`. The other instances stop when their inputs
are used up, and there the liveness runs say what must have happened by then.

`SYMMETRY` permutes aggregates, subscribers, resumers, callers, or commands of one
aggregate, and is used only in runs without liveness properties.

### Fairness

Goroutines that can run do run: weak fairness for the steps of workers,
dispatchers, callers and shutdown. The token of `KeyedLock` has strong fairness,
because Go's channels queue their receivers. Failures, crashes, new commands and
the start of a shutdown have none. `DeliveryLiveness` also assumes that Resume
is called again while something is parked, which is what the documentation asks
of the operator, and that failures are finitely many, its "once the cause is
fixed"; `ShardLive` that a Shutdown that failed is called again. `Listener`
assumes that handlers of the application return (the bus cannot interrupt them)
and that the consumer of an unbounded channel reads it until it unsubscribes; no
one has to read a bounded channel, to unsubscribe, to publish or to shut down.
Each goroutine takes finitely many steps there, so one weak fairness of all the
steps that happen by themselves is enough.

### What the violation runs show

- `DeliverySettled`: a park or a Forget's Supersede between the worker's test
  for a park and the deliverer's test of the halt channel ends the delivery
  before any durable handler ran, and the ticket settles with no error, so
  `SendWait` returns nil. The event is not lost: it stays pending, or the
  tombstone replaces it.
- `DeliveryDirtyScan`: an event fails and its aggregate is parked. A Resume lists
  the park; a Forget of the aggregate opens its transaction and drops the entry;
  the Resume scans a log without it; a synchronous projection fails, and the
  rollback restores the entry without a word to the dispatcher. The park is still
  the listed one, so the Resume lifts it, with nothing to redeliver, and returns
  nil. The failed event is then pending, not parked and with nobody until a restart
  or a Forget, and the next durable event of the aggregate is delivered before
  it. A scan under the aggregate's lock would find the entry. Over a store that isolates reads this cannot happen: `NothingStranded`,
  `DeliveredInOrder`, `ImplementsOutbox` and `EventuallyDelivered` are checked
  there. Without Forgets no entry is dropped, so `DeliveryResume` has dirty reads.
- `ShardOrder`: with two workers in a shard, two commands of one aggregate are
  taken off the queue by two workers that may claim the aggregate in the other
  order. Each command still runs alone; the mailbox keeps claim order
  (`RunInClaimOrder`).
- `WritePathRetry`: a command id sent to two aggregates at once. The second
  command reads the receipt of the first one's open transaction (the in-memory
  store is read-uncommitted) and is answered "accepted"; the transaction is then
  rolled back. With `ReceiptsMatchEvents` the store itself is right again once no
  transaction is open; only the answer was early.

## 4. Proofs

| theorem | statement | argument |
|---|---|---|
| `KeyedLockProofs!Exclusion` | `Spec => []MutualExclusion` | `IInv`: every caller past the look-up is attached to the current entry of its key (`Attached`), no entry serves two keys (`Unshared`), the reference count is the number of attached callers (`Counted`), and the token is out exactly when someone holds the key or is putting it back (`TokenOut`). Exclusion alone is not inductive: it does not say that the entry two callers use is the same one. |
| `KeyedLockProofs!EntriesLifetime` | `Spec => []EntriesFollowCallers` | From `Counted` and `Attached`. |
| `KeyedLockProofs!UnlockProgress` | `Spec => []UnlockNeverBlocks` | From `TokenOut`. |
| `KeyedLockProofs!LockRefinesMutex` | `Spec => ImplementsMutex` | Each step is an acquire, a release or a stutter of `KeyedMutex`; exclusion makes the acquire legal. |
| `DeliveryProofs!HaltsAreOpen` | `Spec => []HaltOpenUnlessParked` | `RegistryOK`: shape of the records, and a halt is closed only by the park that is in force. |
| `DeliveryProofs!GenerationsNameParks` | `Spec => []GenerationsAreUnique` | With `ResumersOK`: a park in a resumer's list was made before the list, so its generation is not above the counter. |
| `ListenerProofs!BusOneAtATime` | `BusSpec => []OneAtATime` | `BusInv`: with it, that no handler of PublishSync is stray (`SyncNeverStray`): PublishSync returns when every handler of its event has ended or is stray, and so, when none is left. |
| `ListenerProofs!BusShutdownIsQuiet` | `BusSpec => []ShutdownIsQuiet` | `Counted`: every handler of Publish is in the count until it ends or times out; `Order`: the bus is closed only when the workers have ended, and Shutdown is over only with the count at zero. A closed bus admits nobody, so the count stays there. |
| `ListenerProofs!ListenersUseTheBus` | `Spec => BusSpec` | Every step of a listener is a step of the bus or leaves the bus alone, so the two theorems above hold with listeners. |
| `ListenerProofs!ListenerSendsAreSafe` | `Spec => []SendsAreSafe` | `ListenerInv`: a handler that sends holds `sendMu` (`InHandle`); a channel closes only under `sendMu` and after its listener, and while `sendMu` is free an open listener is short of its count (`Closing`), so that whoever locks it finds room. |
| `ListenerProofs!ListenersSeeTheStream` | `Spec => []SeesTheStream` | `StreamInv`: the counts are `ListenerInv`'s; the order alone is not inductive. It needs that what a handler is about to send is later than what the channel has of its publisher, with nothing missing that was shown in between (`NextInTurn`), and that an event a publisher shows after one an open listener has seen is on the channel or on its way (`NoneMissed`). Events that were passed over are in neither: the theorem allows the gaps of a park and no other. Both hold because a worker waits for its handlers (`OneAtATime`) and because the index keeps a listener until it closes (`OnTheBus`). |
| `DeliveryProofs!TypesAreCorrect` | `Spec => []TypeOK` | Part of `Shape`, below. |
| `DeliveryProofs!QueuesAreServed` | `Spec => []QueueHasWorker` | `Shape`: `RegistryOK` and the shape of workers, queues, store, Forgets and resumes, with `Attended`: the record says it has a worker exactly when a goroutine is there, and one that waits with a job queued has been woken. `QueueHasWorker` is not inductive without it: a retiring worker must be known to have left an empty queue. |
| `DeliveryGuarantees!NothingIsStranded` | `~DirtyReads` proves `Spec => []NothingStranded` | `Good`, below: `Resumable`. The property alone is not inductive: when a Resume lifts a park, what it scanned before, without a lock, must cover the log as it is now, but for what the park has recorded as undelivered and what a command has in hand. |
| `DeliveryGuarantees!NothingOvertakes` | `~DirtyReads` proves `Spec => []NoOvertaking` | `NoneBefore` and `Ordered`: the line (worker, then queue) is in the order of the versions, and whatever a command, a Forget, a Resume or Recover has still to enqueue is behind all of it. |
| `DeliveryGuarantees!OrderIsKept` | `~DirtyReads` proves `Spec => []DeliveredInOrder` | `InTurn`: what is in the line, recorded by a park or found by a Resume is later than every marker or has nothing unaccepted before it, so that it is due when its turn comes. |
| `DeliveryGuarantees!NothingIsLost` | `Spec => []AckedMeansAccepted` | `LeftAccepted` and `Handling`: the subscribers a delivery does not try again have accepted, and whoever is about to acknowledge has all of them or the dead-letter handler. |
| `DeliveryGuarantees!ErasureIsFenced` | `Spec => EraseIsFenced` | `Fenced`: from commit to erasure a Forget's marker is in hand, last in the queue (`MarkerWaits`), alone with the worker (`MarkerInDelivery`), at its end (`MarkerEnds`) or accepted with nothing else left (`MarkerDelivered`); `Guarded` keeps commands out meanwhile. |
| `DeliveryGuarantees!DeliveryRefinesOutbox` | `~DirtyReads` proves `Spec => ImplementsOutbox` | `Good` and `Straight`, below. A commit publishes or marks deleted, a round of handlers gives and then accepts, the dead-letter handler takes a letter, an ack settles, the erase of a Forget erases; queues, parks, lifts, scans, crashes and restarts are stutters. |
| `ShardPoolProofs!TypeCorrect` | `Spec => []TypeOK` | Includes the limits of the queues and mailboxes; it needs that workers and callers hold commands of the right kind. |
| `ShardPoolProofs!OneWorker` | `Spec => []OneWorkerPerAggregate` | With `MailboxesAreOwn`: a mailbox holds only its aggregate's commands, so that a worker that takes its next job from it stays on the aggregate. |
| `ShardPoolProofs!NoneLost` | `Spec => []NoCommandLost` | `Placed`: a command is pending exactly when it is in one of intake, dispatcher, hand-off queue, worker and mailbox, in no two of them, and at one index of a queue. Each step moves one command or none (`Stays`). |
| `ShardPoolProofs!ClaimOrder` | `Spec => []RunInClaimOrder` | `Ordered`: what an aggregate has claimed is its worker's command followed by its mailbox; the unanswered claims being that sequence, and no command being in two places, make the first of them the one that runs. |
| `ShardPoolProofs!CleanShutdown` | `Spec => []ShutdownLeavesNothing` | `Stopping`: what each stage of the shutdown has seen empty stays empty, because no Send is in flight once `stopped` holds; then `Placed` leaves a pending command nowhere to be. |
| `WritePathProofs!Receipting` | `Spec => []ReceiptsMatchEvents` | `Inv`, below: `OneReceipt` says it of the durable receipts, and of the visible ones but for the command whose transaction is open. |
| `WritePathProofs!AtMostOnce` | `Spec => []AppliedOnce` | `Authorship` and `OneReceipt`: a committed id has a durable receipt, which the transaction tests before it appends. |
| `WritePathProofs!Rejections` | `Spec => []RejectionsStand` | `OneReceipt` and `DecisionsLast`: a reported rejection has its durable receipt. |
| `WritePathProofs!Answers` | `Spec => []AnswersAreOriginal` | `IDsAreGivenOnce` and `OneReceipt`: event ids are never reused, so the id in a receipt finds its own event or none. |
| `WritePathProofs!Snapshots` | `Spec => []SnapshotsAgree` | `Streams`: streams have no gaps, a snapshot is a prefix of the visible and of the durable stream, and what a lock-free reader is about to save shares a prefix with the stream or fails `CheckStream`. |
| `WritePathProofs!NoLostUpdate` | `Spec => []ValidatedAgainstStream` | `LockOf` and `Read`: while a caller holds the lock nobody else appends, so what it has read is the stream. |
| `WritePathProofs!LockFreeReads` | `Spec => []GetReadsTheStream` | `LockFree`: the snapshot a Get started from, as compared with the stream at its second read. |

Some remarks on the arguments. The invariant of the write path speaks of two
stores, the one everybody sees and the one a crash would leave (`Durable`,
`DurableStream`): while a transaction is open neither the receipts nor the streams
of either one are right without the other. The invariant of the shard is one of
places rather than of numbers, which keeps every step local to the command it
moves. And what `Keep` computes is proved by the least number at which it would go
wrong (`LeastNumber`, `KeepProperties` in `DeliveryProofs`), since the induction
theorems of the library are out of the prover's reach.

The invariant of delivery (`Good` in `DeliveryInvariant`) is `Shape`, the types of
the history, and for each aggregate the twelve parts of `Sound`: lock, fence and
marker of a Forget go together (`Guarded`); only durable events that no marker has
replaced are logged (`Logged`); a Resume that has a lock redelivers that aggregate
(`Redelivering`); jobs are events of the stream (`Matched`); a park has emptied the
queue and stopped the worker (`Halted`); and `Ordered`, `Fenced`, `Handling`,
`LeftAccepted`, `Resumable`, `NoneBefore` and `InTurn`, as in the table. The parts
need each other: a Resume may enqueue in order because a park has emptied the
line, and a Forget may replace what is queued because nobody else can commit. TLC
checked each part on the instances of the runs before it was proved. Apart from the
lock of the executor a part speaks of one aggregate only, so an action is examined
at the aggregate where it happens, and `UnmovedSound` gives the others.

`Resumable`, `NoneBefore` and `InTurn` are stated under `~DirtyReads`, and so are the
four theorems that rest on them; `DeliveryDirtyScan` shows that the hypothesis
cannot be dropped. The other nine parts hold for either kind of store, and with them
`TypesAreCorrect`, `QueuesAreServed`, `HaltsAreOpen`, `GenerationsNameParks`,
`NothingIsLost` and `ErasureIsFenced`: over the in-memory store an event may be
stranded and overtaken, but it is not lost, and an erase is still fenced.

The refinement needs one thing that `Good` does not say: a redelivery never goes
back behind what the handlers have been given. `Straight` says so of everything
that may still come (`ToCome`): what is in the queue, recorded by a park, with the
worker, in the backlog of a recovery, in the log, in the executor's hand, or in the
list of a Resume whose park is still in force. The list of a Resume whose park has
been replaced may hold events that are long delivered, and it is the generation of
the park that keeps them from being given again: comparing no generation breaks
`ImplementsOutbox`, and is its mutant.

Assumptions are the named `ASSUME`s of the modules (`KeyedLock`, `Delivery`,
`ShardPool`, `WritePath`, `LiveBus`, `Listener`), which TLC evaluates in the runs,
and the hypothesis `~DirtyReads` where a theorem states it.
The proofs hold for any sets of keys, callers, aggregates, commands, workers,
subscribers, listeners and resumers and any bounds.

Only model-checked: everything under fairness (`WaitersAreServed`,
`EventuallyDelivered`, `ForgetEnds`, `CloseDrains`, `WaitersReturn`, `SendsReturn`,
`ShutdownCompletes`, `ListenerIsRemoved`, `PublishSyncReturns`), since the prover
handles neither `ENABLED` nor liveness. Every safety property of a passing run is a
theorem.

## 5. Not modelled

- The ticket tracker: an index of live tickets by event that only a retried
  SendWait and a wait for tests read. Around it there is one known gap between
  contract and code: after a redelivery that fails half way, `Unrun` can report
  "parked" for an event whose handlers have run (`models/dispatcher.go` says it
  is nil then); the state `reg[a].undelivered` of `Delivery` shows it.
- The JSON patches and upcasters of the event store, abstracted to the set of
  events applied.
- Topic patterns, the builder, reports and jitter: pure or single-threaded, with
  no state another part depends on.
- `recoverDispatcherPanic`: handlers, the dead-letter handler and the reports are
  recovered where they are called, so that only a store that panics reaches it.
- Declarations, conformance tests, mocks and the example.

`PROJECT.json` gives the reason for each part, and lists the hazards, with the two
that no property covers: the answer of `Unrun` above, and a delivery that fails
after its park was lifted or superseded. Without the test of `ParkIfCurrent` the
latter parks the aggregate again, and TLC finds no property violated: what is
queued goes to the next Resume, in order.

## 6. Plan

Done: the keyed lock and its refinement; delivery and its refinement of an
outbox; the shard pool; the write path; the live bus and its listeners; for all of
them, theorems about every safety property that a passing run checks.

Left: the ticket tracker (section 5), whose contract for a failed redelivery the
code does not keep; the transaction of a command in `Delivery`, which is one step
(section 2); and the durable behaviour of a store other than the in-memory
one.
