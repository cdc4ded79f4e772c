------------------------------ MODULE Delivery ------------------------------
(***************************************************************************)
(* Durable delivery of committed events, from the commit of an event to    *)
(* the acknowledgement of its delivery entry: the executor's pipeline and  *)
(* Forget (internal/processor/exec), the dispatcher with its registry,     *)
(* workers and durable deliverer (internal/bus/dispatcher), Resume and     *)
(* Recover (internal/processor/processor_recovery.go), shutdown, and the   *)
(* crash of the process at any point.                                      *)
(*                                                                         *)
(* One action is one access to shared state: one hold of the registry's    *)
(* mutex, one call of the store, one look at a halt channel, or the end of *)
(* one round of handlers.  A command lock held across several of them is   *)
(* `lock'; that KeyedLock really is a mutex is KeyedLockProofs.            *)
(***************************************************************************)
EXTENDS AggregateRecord

CONSTANTS
    Aggs,           \* aggregate ids
    Subs,           \* durable subscribers; each matches every durable event
    Resumers,       \* goroutines that call Resume
    MaxAttempts,    \* DispatcherConfig: attempts per delivery
    DeadLetters,    \* BOOLEAN: a dead-letter handler is configured
    Batch,          \* Resume: first prefix of the delivery log to read
    DirtyReads,     \* BOOLEAN: reads see the writes of an open transaction
    MaxVersion,     \* bound: events per stream
    MaxFaults,      \* bound: handler, ack, replay, erase and context failures
    MaxForgets,     \* bound: calls of Forget
    MaxCrashes,     \* bound: crashes and restarts
    MayShutDown     \* BOOLEAN: whether Shutdown is called

ASSUME DeliveryConstants ==
    /\ Subs # {}
    /\ Resumers \cap {"free", "command", "tombstone", "forget"} = {}
    /\ MaxAttempts \in Nat \ {0}
    /\ Batch \in Nat \ {0}
    /\ DeadLetters \in BOOLEAN
    /\ DirtyReads \in BOOLEAN
    /\ MayShutDown \in BOOLEAN
    /\ {MaxVersion, MaxFaults, MaxForgets, MaxCrashes} \subseteq Nat

VARIABLES
    stream,         \* store: stream[a][v] is the kind of a's event v
    log,            \* store: the delivery log, a sequence of <<aggregate, version>>
    lock,           \* executor: who holds the aggregate's command lock
    fence,          \* executor: aggregates being forgotten (CommandExecutor.forgetting)
    forget,         \* where the aggregate's Forget is
    reg,            \* registry: one record per aggregate
    generation,     \* registry: the park counter
    worker,         \* the aggregate's worker goroutine
    ticket,         \* ticket[a][v]: the ticket of the first dispatch of event v
    resumer,        \* calls of Resume in progress
    backlog,        \* Recover: versions still to enqueue while Build runs
    up,             \* Build has returned
    quit,           \* Interrupt has been called
    closed,         \* the dispatcher is closed and its workers told to stop
    faults, forgets, crashes,   \* budgets used
    handled,        \* history: subscribers that have accepted an event
    letters,        \* history: versions a dead-letter handler has accepted
    started,        \* history: versions some handler has been given
    ran             \* history: versions some handler has been given in this process

store == <<stream, log>>
exec == <<lock, fence, forget>>
registry == <<reg, generation>>
process == <<up, quit, closed, backlog>>
budget == <<faults, forgets, crashes>>
history == <<handled, letters, started, ran>>
vars == <<store, exec, registry, worker, ticket, resumer, process, budget, history>>

Versions == 1..MaxVersion
Kinds == {"live", "durable", "forget"}

Job(v, k, f) == [ver |-> v, kind |-> k, fresh |-> f]
NoJob == Job(0, "none", FALSE)

Jobs == [ver : Versions, kind : Kinds, fresh : BOOLEAN]

NoWorker ==
    [st |-> "none", job |-> NoJob, halt |-> "none", attempt |-> 0, pending |-> {},
     ok |-> FALSE, last |-> FALSE]

NoForget == [st |-> "none", ver |-> 0]

NoResumer == [st |-> "idle", parks |-> [a \in Aggs |-> 0], limit |-> 0, scanned |-> {},
              todo |-> {}, undelivered |-> {}, rest |-> {}]

OpenTicket == [settled |-> "no", final |-> "no"]

Pending(a) == {v \in Versions : Contains(log, <<a, v>>)}

Fail == faults < MaxFaults /\ faults' = faults + 1

\* The lock of an aggregate whose tombstone's transaction is open is "tombstone".
\* Writers wait for that transaction (memory.txMu); readers do not.
NoTransaction == \A b \in Aggs : lock[b] # "tombstone"

WithoutAgg(a) == Keep(log, {d \in ToSet(log) : d[1] # a})

\* What PendingDeliveries reads.  The open transaction has dropped the entries
\* of its aggregate, which is undone when it fails; the isolation of reads is
\* the store's choice (storetest.go:583), and store/memory.go does not isolate.
VisibleLog ==
    IF DirtyReads THEN Keep(log, {d \in ToSet(log) : lock[d[1]] # "tombstone"}) ELSE log

-----------------------------------------------------------------------------
(* Tickets: a job settles once and completes once (jobs/dispatch_job.go).  *)

Settle(t, how) == IF t.settled = "no" THEN [t EXCEPT !.settled = how] ELSE t
Complete(t, how) == IF t.final = "no" THEN [t EXCEPT !.final = how] ELSE t

\* Slip: jobs a park drops are not completed.
UnrunTicketsLost(a, vs) == ticket

\* MarkUnrun and Complete(ErrDeliveryParked), for the jobs of a set of versions.
UnrunTickets(a, vs) ==
    [ticket EXCEPT ![a] =
        [v \in Versions |-> IF v \in vs THEN Complete(Settle(@[v], "unrun"), "err") ELSE @[v]]]

FirstDispatch(j) == IsAcked(j) /\ j.fresh

-----------------------------------------------------------------------------
(* The registry's operations as they change reg and generation.            *)

IsShut(a) == IsClosed(worker[a].halt, reg[a])

\* A worker is spawned with an open channel and no job.
Enqueue(a, j) ==
    /\ reg' = [reg EXCEPT ![a] = Enqueued(@, j)]
    /\ worker' = IF Spawns(reg[a], j)
                 THEN [worker EXCEPT ![a] = [NoWorker EXCEPT !.st = "drain"]]
                 ELSE worker
    /\ ticket' = IF j.fresh /\ Refuses(reg[a], j) THEN UnrunTickets(a, {j.ver}) ELSE ticket
    /\ UNCHANGED generation

\* Slip: the park counter does not advance.
ParkUncounted(a, versions) ==
    LET first == ~reg[a].parked IN
    /\ reg' = [reg EXCEPT ![a] = Parked(@, generation + 1, versions)]
    /\ ticket' = IF first THEN UnrunTickets(a, VersionsOf(reg[a].jobs, FirstDispatch)) ELSE ticket
    /\ UNCHANGED generation

Park(a, versions) ==
    LET first == ~reg[a].parked IN
    /\ reg' = [reg EXCEPT ![a] = Parked(@, generation + 1, versions)]
    /\ generation' = IF first THEN generation + 1 ELSE generation
    /\ ticket' = IF first THEN UnrunTickets(a, VersionsOf(reg[a].jobs, FirstDispatch)) ELSE ticket

Lift(a) ==
    /\ reg' = [reg EXCEPT ![a] = Lifted(@)]
    /\ worker' = [worker EXCEPT ![a].halt = Replaced(@, reg[a])]
    /\ UNCHANGED <<generation, ticket>>

\* park and lift in one hold of the mutex.
Supersede(a) ==
    LET first == ~reg[a].parked
        r == Parked(reg[a], generation + 1, {})
    IN
    /\ reg' = [reg EXCEPT ![a] = Lifted(r)]
    /\ worker' = [worker EXCEPT ![a].halt = Replaced(@, r)]
    /\ generation' = IF first THEN generation + 1 ELSE generation
    /\ ticket' = IF first THEN UnrunTickets(a, VersionsOf(reg[a].jobs, FirstDispatch)) ELSE ticket

-----------------------------------------------------------------------------
(* A command, under the aggregate's lock: the transaction that appends the *)
(* event and, when a durable subscriber matches it, its delivery entry;    *)
(* then the enqueue.  Commands refused by the fence, by validation or by   *)
(* the store change nothing.                                               *)

\* Slip: a command does not look at the fence.
CommitUnfenced(a, kind) ==
    /\ up /\ ~closed
    /\ lock[a] = "free" /\ NoTransaction
    /\ Len(stream[a]) < MaxVersion
    /\ stream' = [stream EXCEPT ![a] = Append(@, kind)]
    /\ log' = IF kind = "durable" THEN Append(log, <<a, Len(stream[a]) + 1>>) ELSE log
    /\ lock' = [lock EXCEPT ![a] = "command"]
    /\ ticket' = [ticket EXCEPT ![a][Len(stream[a]) + 1] = OpenTicket]
    /\ UNCHANGED <<fence, forget, registry, worker, resumer, process, budget, history>>

Commit(a, kind) ==
    /\ up /\ ~closed
    /\ lock[a] = "free" /\ NoTransaction
    /\ a \notin fence
    /\ Len(stream[a]) < MaxVersion
    /\ stream' = [stream EXCEPT ![a] = Append(@, kind)]
    /\ log' = IF kind = "durable" THEN Append(log, <<a, Len(stream[a]) + 1>>) ELSE log
    /\ lock' = [lock EXCEPT ![a] = "command"]
    /\ ticket' = [ticket EXCEPT ![a][Len(stream[a]) + 1] = OpenTicket]
    /\ UNCHANGED <<fence, forget, registry, worker, resumer, process, budget, history>>

EnqueueCommitted(a) ==
    /\ lock[a] = "command"
    /\ Enqueue(a, Job(Len(stream[a]), Last(stream[a]), TRUE))
    /\ lock' = [lock EXCEPT ![a] = "free"]
    /\ UNCHANGED <<store, fence, forget, resumer, process, budget, history>>

-----------------------------------------------------------------------------
(* The worker of an aggregate (workers/aggregate_pool.go).                 *)

Goto(a, st) == worker' = [worker EXCEPT ![a].st = st]

\* The delivery is over; finish has not run.
End(a, ok) == worker' = [worker EXCEPT ![a].st = "finish", ![a].ok = ok]

Pop(a) ==
    /\ worker[a].st = "drain"
    /\ reg[a].jobs # <<>>
    /\ reg' = [reg EXCEPT ![a] = Popped(@)]
    /\ worker' = [worker EXCEPT ![a].st = "held", ![a].job = Head(reg[a].jobs),
                                ![a].halt = "same"]
    /\ UNCHANGED <<store, exec, generation, ticket, resumer, process, budget, history>>

\* The queue is empty: wait, or end when this was the drain after stop.
Drained(a) ==
    /\ worker[a].st = "drain"
    /\ reg[a].jobs = <<>>
    /\ worker' = [worker EXCEPT ![a] = IF @.last THEN NoWorker ELSE [@ EXCEPT !.st = "await"]]
    /\ UNCHANGED <<store, exec, registry, ticket, resumer, process, budget, history>>

Woken(a) ==
    /\ worker[a].st = "await"
    /\ reg[a].wake
    /\ reg' = [reg EXCEPT ![a].wake = FALSE]
    /\ Goto(a, "drain")
    /\ UNCHANGED <<store, exec, generation, ticket, resumer, process, budget, history>>

\* The idle timer may fire although a job has just arrived.
Retire(a) ==
    /\ worker[a].st = "await"
    /\ \/ /\ reg[a].jobs # <<>>
          /\ Goto(a, "drain")
          /\ UNCHANGED reg
       \/ /\ reg[a].jobs = <<>>
          /\ reg' = [reg EXCEPT ![a] = Retired(@)]
          /\ worker' = [worker EXCEPT ![a] = NoWorker]
    /\ UNCHANGED <<store, exec, generation, ticket, resumer, process, budget, history>>

\* Slip: stop ends a waiting worker without a last drain.
StoppedWithoutDrain(a) ==
    /\ worker[a].st = "await"
    /\ closed
    /\ worker' = [worker EXCEPT ![a] = NoWorker]
    /\ UNCHANGED <<store, exec, registry, ticket, resumer, process, budget, history>>

Stopped(a) ==
    /\ worker[a].st = "await"
    /\ closed
    /\ worker' = [worker EXCEPT ![a].st = "drain", ![a].last = TRUE]
    /\ UNCHANGED <<store, exec, registry, ticket, resumer, process, budget, history>>

\* heldByPark (SettleIfParked) and, past it, publishLive.
BeginDelivery(a) ==
    LET j == worker[a].job IN
    /\ worker[a].st = "held"
    /\ \/ /\ IsLive(j)
          /\ End(a, TRUE)
          /\ UNCHANGED <<reg, ticket>>
       \/ /\ IsAcked(j)
          /\ ~reg[a].parked /\ ~IsShut(a)
          /\ Goto(a, "deliver")
          /\ UNCHANGED <<reg, ticket>>
       \/ /\ IsAcked(j)
          /\ reg[a].parked \/ IsShut(a)
          /\ reg' = IF reg[a].parked
                    THEN [reg EXCEPT ![a].undelivered = @ \cup {j.ver}]
                    ELSE reg
          /\ ticket' = IF j.fresh
                       THEN [ticket EXCEPT ![a][j.ver] = Settle(@, "unrun")]
                       ELSE ticket
          /\ End(a, FALSE)
    /\ UNCHANGED <<store, exec, generation, resumer, process, budget, history>>

-----------------------------------------------------------------------------
(* The durable deliverer (delivery/durable_deliverer.go, retry_loop.go).   *)

Try(a, n, subs) ==
    LET v == worker[a].job.ver IN
    /\ worker' = [worker EXCEPT ![a].st = "attempt", ![a].attempt = n, ![a].pending = subs]
    /\ started' = [started EXCEPT ![a] = @ \cup {v}]
    /\ ran' = [ran EXCEPT ![a] = @ \cup {v}]
    /\ UNCHANGED <<handled, letters>>

Deliver(a) ==
    /\ worker[a].st = "deliver"
    /\ \/ IsShut(a) /\ End(a, FALSE) /\ UNCHANGED history
       \/ ~IsShut(a) /\ Try(a, 1, Subs)
    /\ UNCHANGED <<store, exec, registry, ticket, resumer, process, budget>>

\* settleAfterFirst: SendWait waits for the first attempt only.
FirstSettled(a) ==
    IF worker[a].attempt = 1 /\ worker[a].job.fresh
    THEN [ticket EXCEPT ![a][worker[a].job.ver] = Settle(@, "ok")]
    ELSE ticket

\* Slip: one attempt too many.
AttemptOnceMore(a, failed) ==
    LET w == worker[a] IN
    /\ w.st = "attempt"
    /\ failed \subseteq w.pending
    /\ IF failed = {} THEN UNCHANGED faults ELSE Fail
    /\ handled' = [handled EXCEPT ![a][w.job.ver] = @ \cup (w.pending \ failed)]
    /\ ticket' = FirstSettled(a)
    /\ worker' = [worker EXCEPT
            ![a].pending = failed,
            ![a].st = CASE failed = {} -> "ack"
                        [] failed # {} /\ w.attempt > MaxAttempts -> "giveUp"
                        [] OTHER -> "wait"]
    /\ UNCHANGED <<store, exec, registry, resumer, process, forgets, crashes,
                   letters, started, ran>>

\* One round of handlers ends; `failed' are the subscribers that refused.
Attempt(a, failed) ==
    LET w == worker[a] IN
    /\ w.st = "attempt"
    /\ failed \subseteq w.pending
    /\ IF failed = {} THEN UNCHANGED faults ELSE Fail
    /\ handled' = [handled EXCEPT ![a][w.job.ver] = @ \cup (w.pending \ failed)]
    /\ ticket' = FirstSettled(a)
    /\ worker' = [worker EXCEPT
            ![a].pending = failed,
            ![a].st = CASE failed = {} -> "ack"
                        [] failed # {} /\ w.attempt >= MaxAttempts -> "giveUp"
                        [] OTHER -> "wait"]
    /\ UNCHANGED <<store, exec, registry, resumer, process, forgets, crashes,
                   letters, started, ran>>

\* The backoff ends: by its timer, by the halt channel, or by Interrupt.
Wait(a) ==
    /\ worker[a].st = "wait"
    /\ \/ ~IsShut(a) /\ Try(a, worker[a].attempt + 1, worker[a].pending)
       \/ IsShut(a) /\ End(a, FALSE) /\ UNCHANGED history
       \/ quit /\ Goto(a, "park") /\ UNCHANGED history
    /\ UNCHANGED <<store, exec, registry, ticket, resumer, process, budget>>

\* Slip: a deletion marker is dead-lettered like any event.
GiveUpLettersAll(a) ==
    /\ worker[a].st = "giveUp"
    /\ \/ IsShut(a) /\ End(a, FALSE)
       \/ ~IsShut(a) /\ Goto(a, IF DeadLetters THEN "letter" ELSE "park")
    /\ UNCHANGED <<store, exec, registry, ticket, resumer, process, budget, history>>

\* giveUp: a deletion marker is never dead-lettered.
GiveUp(a) ==
    /\ worker[a].st = "giveUp"
    /\ \/ IsShut(a) /\ End(a, FALSE)
       \/ /\ ~IsShut(a)
          /\ Goto(a, IF DeadLetters /\ worker[a].job.kind # "forget" THEN "letter" ELSE "park")
    /\ UNCHANGED <<store, exec, registry, ticket, resumer, process, budget, history>>

\* The dead-letter handler accepts the event, or refuses it.
DeadLetter(a) ==
    /\ worker[a].st = "letter"
    /\ \/ /\ letters' = [letters EXCEPT ![a] = @ \cup {worker[a].job.ver}]
          /\ Goto(a, "ack")
       \/ /\ Goto(a, "park")
          /\ UNCHANGED letters
    /\ UNCHANGED <<store, exec, registry, ticket, resumer, process, budget, handled, started, ran>>

\* ParkThenReport: ParkIfCurrent leaves alone what someone else has settled.
ParkIfCurrent(a) ==
    /\ worker[a].st = "park"
    /\ \/ IsShut(a) /\ UNCHANGED <<registry, ticket>>
       \/ ~IsShut(a) /\ Park(a, {})
    /\ End(a, FALSE)
    /\ UNCHANGED <<store, exec, resumer, process, budget, history>>

\* Slip: a failed ack is reported but does not park.
AckWithoutPark(a) ==
    /\ worker[a].st = "ack"
    /\ \/ /\ NoTransaction
          /\ log' = Keep(log, ToSet(log) \ {<<a, worker[a].job.ver>>})
          /\ End(a, TRUE)
          /\ UNCHANGED faults
       \/ Fail /\ End(a, FALSE) /\ UNCHANGED log
    /\ UNCHANGED <<stream, exec, registry, ticket, resumer, process, forgets, crashes, history>>

\* AckDelivery removes the entry, if it is there, or fails.
Ack(a) ==
    /\ worker[a].st = "ack"
    /\ \/ /\ NoTransaction
          /\ log' = Keep(log, ToSet(log) \ {<<a, worker[a].job.ver>>})
          /\ End(a, TRUE)
          /\ UNCHANGED faults
       \/ /\ Fail
          /\ Goto(a, "park")
          /\ UNCHANGED log
    /\ UNCHANGED <<stream, exec, registry, ticket, resumer, process, forgets, crashes, history>>

\* finish: MarkSettled and Complete.
Finish(a) ==
    LET w == worker[a] IN
    /\ w.st = "finish"
    /\ ticket' = IF w.job.fresh
                 THEN [ticket EXCEPT ![a][w.job.ver] =
                          Complete(Settle(@, "ok"), IF w.ok THEN "ok" ELSE "err")]
                 ELSE ticket
    /\ worker' = [worker EXCEPT ![a] = [NoWorker EXCEPT !.st = "drain", !.last = w.last]]
    /\ UNCHANGED <<store, exec, registry, resumer, process, budget, history>>

WorkerStep(a) ==
    \/ Pop(a) \/ Drained(a) \/ Woken(a) \/ Retire(a) \/ Stopped(a)
    \/ BeginDelivery(a) \/ Deliver(a) \/ Wait(a) \/ GiveUp(a) \/ DeadLetter(a)
    \/ \E failed \in SUBSET Subs : Attempt(a, failed)
    \/ ParkIfCurrent(a) \/ Ack(a) \/ Finish(a)

-----------------------------------------------------------------------------
(* Resume (processor_recovery.go).  Any order of the parked aggregates     *)
(* stands for the sorted one.                                              *)

\* The generation of each park; 0 when the aggregate is not parked.
Parks == [a \in Aggs |-> IF reg[a].parked THEN reg[a].gen ELSE 0]

Listed(r) == {a \in Aggs : resumer[r].parks[a] # 0}

\* Nobody calls Resume on a closed dispatcher (a bound: each such call would
\* park again); one in progress meets the close at any of its steps.
ListParks(r) ==
    /\ up /\ ~closed
    /\ resumer[r].st = "idle"
    /\ \E a \in Aggs : reg[a].parked
    /\ resumer' = [resumer EXCEPT ![r] =
            [NoResumer EXCEPT !.st = "scan", !.parks = Parks, !.limit = Batch]]
    /\ UNCHANGED <<store, exec, registry, worker, ticket, process, budget, history>>

\* Slip: only the first prefix of the log is read.
ScanOnce(r) ==
    LET prefix == SubSeq(VisibleLog, 1, Min({resumer[r].limit, Len(VisibleLog)})) IN
    /\ resumer[r].st = "scan"
    /\ resumer' = [resumer EXCEPT
            ![r].scanned = {d \in ToSet(prefix) : d[1] \in Listed(r)},
            ![r].limit = 0, ![r].todo = Listed(r), ![r].st = "lift"]
    /\ UNCHANGED <<store, exec, registry, worker, ticket, process, budget, history>>

\* One PendingDeliveries call: a prefix of the log, twice as long each time.
Scan(r) ==
    LET prefix == SubSeq(VisibleLog, 1, Min({resumer[r].limit, Len(VisibleLog)})) IN
    /\ resumer[r].st = "scan"
    /\ resumer' = [resumer EXCEPT
            ![r].scanned = @ \cup {d \in ToSet(prefix) : d[1] \in Listed(r)},
            ![r].limit = IF Len(prefix) < @ THEN 0 ELSE 2 * @,
            ![r].todo = IF Len(prefix) < resumer[r].limit THEN Listed(r) ELSE {},
            ![r].st = IF Len(prefix) < resumer[r].limit THEN "lift" ELSE "scan"]
    /\ UNCHANGED <<store, exec, registry, worker, ticket, process, budget, history>>

\* Go on to the next parked aggregate, or return.
NextAggregate(r, a) ==
    LET x == resumer[r] IN
    resumer' = [resumer EXCEPT ![r] =
        IF x.todo = {a} THEN NoResumer
        ELSE [x EXCEPT !.st = "lift", !.todo = @ \ {a}, !.undelivered = {}, !.rest = {}]]

\* Slip: only what the scan found is redelivered.
LiftParkScannedOnly(r, a) ==
    /\ resumer[r].st = "lift"
    /\ a \in resumer[r].todo
    /\ lock[a] = "free"
    /\ \/ /\ ~IsPark(reg[a], resumer[r].parks[a])
          /\ NextAggregate(r, a)
          /\ UNCHANGED <<registry, lock, worker, ticket>>
       \/ /\ IsPark(reg[a], resumer[r].parks[a])
          /\ resumer' = [resumer EXCEPT
                ![r].st = "redeliver",
                ![r].rest = {v \in Versions : <<a, v>> \in resumer[r].scanned}]
          /\ Lift(a)
          /\ lock' = [lock EXCEPT ![a] = r]
    /\ UNCHANGED <<store, fence, forget, process, budget, history>>

\* Under the command lock: the park listed is lifted, or it is gone.
LiftPark(r, a) ==
    /\ resumer[r].st = "lift"
    /\ a \in resumer[r].todo
    /\ lock[a] = "free"
    /\ \/ /\ ~IsPark(reg[a], resumer[r].parks[a])
          /\ NextAggregate(r, a)
          /\ UNCHANGED <<registry, lock, worker, ticket>>
       \/ /\ IsPark(reg[a], resumer[r].parks[a])
          /\ resumer' = [resumer EXCEPT
                ![r].st = "redeliver",
                ![r].undelivered = reg[a].undelivered,
                ![r].rest = {v \in Versions : <<a, v>> \in resumer[r].scanned}
                                \cup reg[a].undelivered]
          /\ Lift(a)
          /\ lock' = [lock EXCEPT ![a] = r]
    /\ UNCHANGED <<store, fence, forget, process, budget, history>>

\* Replay reaches the next version the backlog names and enqueues its event.
Redeliver(r, a) ==
    /\ lock[a] = r
    /\ ~closed
    /\ \E v \in resumer[r].rest :
        /\ v \in DOMAIN stream[a]
        /\ \A u \in resumer[r].rest : v <= u
        /\ Enqueue(a, Job(v, stream[a][v], FALSE))
        /\ resumer' = [resumer EXCEPT ![r].rest = @ \ {v}]
    /\ UNCHANGED <<store, exec, process, budget, history>>

\* The replay is over; entries whose event is gone are acknowledged.
Redelivered(r, a) ==
    /\ lock[a] = r
    /\ resumer[r].rest \cap DOMAIN stream[a] = {}
    /\ resumer[r].rest # {} => NoTransaction
    /\ log' = Keep(log, {d \in ToSet(log) : ~(d[1] = a /\ d[2] \in resumer[r].rest)})
    /\ lock' = [lock EXCEPT ![a] = "free"]
    /\ NextAggregate(r, a)
    /\ UNCHANGED <<stream, fence, forget, registry, worker, ticket, process, budget, history>>

\* The replay or an Enqueue fails: parked again, with what no handler took.
RedeliverFails(r, a) ==
    /\ lock[a] = r
    /\ resumer[r].rest # {}
    /\ IF closed THEN UNCHANGED faults ELSE Fail
    /\ Park(a, resumer[r].undelivered \cap resumer[r].rest)
    /\ lock' = [lock EXCEPT ![a] = "free"]
    /\ NextAggregate(r, a)
    /\ UNCHANGED <<store, fence, forget, worker, process, forgets, crashes, history>>

\* The context ends, or the log cannot be read.
AbandonResume(r) ==
    /\ resumer[r].st \in {"scan", "lift"}
    /\ Fail
    /\ resumer' = [resumer EXCEPT ![r] = NoResumer]
    /\ UNCHANGED <<store, exec, registry, worker, ticket, process, forgets, crashes, history>>

ResumeStep(r) ==
    \/ ListParks(r) \/ Scan(r) \/ AbandonResume(r)
    \/ \E a \in Aggs :
        LiftPark(r, a) \/ Redeliver(r, a) \/ Redelivered(r, a) \/ RedeliverFails(r, a)

-----------------------------------------------------------------------------
(* Forget (exec/exec_forget.go).                                           *)

ForgetAt(a, st) == forget' = [forget EXCEPT ![a].st = st]

\* Under the lock, the tombstone's transaction begins: it appends the event and
\* drops the older entries.  Nobody looks at the fence before the lock is free.
BeginTombstone(a) ==
    /\ up /\ ~closed
    /\ forgets < MaxForgets
    /\ lock[a] = "free" /\ NoTransaction
    /\ a \notin fence
    /\ stream[a] # <<>>
    /\ Len(stream[a]) < MaxVersion
    /\ lock' = [lock EXCEPT ![a] = "tombstone"]
    /\ forgets' = forgets + 1
    /\ UNCHANGED <<store, fence, forget, registry, worker, ticket, resumer, process,
                   faults, crashes, history>>

\* The transaction commits: its own entry takes the place of the older ones.
WriteTombstone(a) ==
    LET v == Len(stream[a]) + 1 IN
    /\ lock[a] = "tombstone"
    /\ stream' = [stream EXCEPT ![a] = Append(@, "forget")]
    /\ log' = Append(WithoutAgg(a), <<a, v>>)
    /\ lock' = [lock EXCEPT ![a] = "forget"]
    /\ fence' = fence \cup {a}
    /\ forget' = [forget EXCEPT ![a] = [st |-> "committed", ver |-> v]]
    /\ ticket' = [ticket EXCEPT ![a][v] = OpenTicket]
    /\ UNCHANGED <<registry, worker, resumer, process, budget, history>>

\* A synchronous projection or the store fails: the transaction is rolled back,
\* and Forget returns without a word to the dispatcher.
TombstoneFails(a) ==
    /\ lock[a] = "tombstone"
    /\ lock' = [lock EXCEPT ![a] = "free"]
    /\ UNCHANGED <<store, fence, forget, registry, worker, ticket, resumer, process,
                   budget, history>>

ForgetSupersedes(a) ==
    /\ forget[a].st = "committed"
    /\ Supersede(a)
    /\ ForgetAt(a, "superseded")
    /\ UNCHANGED <<store, lock, fence, resumer, process, budget, history>>

EnqueueTombstone(a) ==
    /\ forget[a].st = "superseded"
    /\ Enqueue(a, Job(forget[a].ver, "forget", TRUE))
    /\ ForgetAt(a, "waiting")
    /\ lock' = [lock EXCEPT ![a] = "free"]
    /\ UNCHANGED <<store, fence, resumer, process, budget, history>>

\* awaitTombstone: the outcome, the caller's context, or Interrupt.
AwaitTombstone(a) ==
    LET final == ticket[a][forget[a].ver].final IN
    /\ forget[a].st = "waiting"
    /\ \/ final = "ok" /\ ForgetAt(a, "erase") /\ UNCHANGED faults
       \/ final = "err" /\ ForgetAt(a, "failed") /\ UNCHANGED faults
       \/ Fail /\ ForgetAt(a, "failed")
       \/ quit /\ final = "no" /\ ForgetAt(a, "failed") /\ UNCHANGED faults
    /\ UNCHANGED <<store, lock, fence, registry, worker, ticket, resumer, process,
                   forgets, crashes, history>>

\* erase, under the lock: stream and entries go together, then the fence.
Erase(a) ==
    /\ forget[a].st = "erase"
    /\ lock[a] = "free"
    /\ \/ /\ NoTransaction
          /\ stream' = [stream EXCEPT ![a] = <<>>]
          /\ log' = WithoutAgg(a)
          /\ fence' = fence \ {a}
          /\ forget' = [forget EXCEPT ![a] = NoForget]
          /\ handled' = [handled EXCEPT ![a] = [v \in Versions |-> {}]]
          /\ letters' = [letters EXCEPT ![a] = {}]
          /\ started' = [started EXCEPT ![a] = {}]
          /\ ran' = [ran EXCEPT ![a] = {}]
          /\ ticket' = [ticket EXCEPT ![a] = [v \in Versions |-> OpenTicket]]
          /\ UNCHANGED faults
       \/ /\ Fail
          /\ ForgetAt(a, "failed")
          /\ UNCHANGED <<store, fence, history, ticket>>
    /\ UNCHANGED <<lock, registry, worker, resumer, process, forgets, crashes>>

\* Slip: the fence stays up after a failed Forget.
ForgetClearsNothing(a) ==
    /\ forget[a].st = "parked"
    /\ forget' = [forget EXCEPT ![a] = NoForget]
    /\ UNCHANGED <<store, lock, fence, registry, worker, ticket, resumer, process, budget, history>>

\* A Forget that failed after its tombstone parks first, then drops the fence.
ForgetParks(a) ==
    /\ forget[a].st = "failed"
    /\ Park(a, {})
    /\ ForgetAt(a, "parked")
    /\ UNCHANGED <<store, lock, fence, worker, resumer, process, budget, history>>

ForgetClears(a) ==
    /\ forget[a].st = "parked"
    /\ fence' = fence \ {a}
    /\ forget' = [forget EXCEPT ![a] = NoForget]
    /\ UNCHANGED <<store, lock, registry, worker, ticket, resumer, process, budget, history>>

ForgetStep(a) ==
    \/ WriteTombstone(a) \/ TombstoneFails(a)
    \/ ForgetSupersedes(a) \/ EnqueueTombstone(a) \/ AwaitTombstone(a)
    \/ Erase(a) \/ ForgetParks(a) \/ ForgetClears(a)

-----------------------------------------------------------------------------
(* Shutdown, crash and the recovery in Build.                              *)

Interrupt ==
    /\ MayShutDown /\ up /\ ~quit
    /\ quit' = TRUE
    /\ UNCHANGED <<store, exec, registry, worker, ticket, resumer, up, closed, backlog,
                   budget, history>>

\* Once the commands and Forgets in flight are over.  Resume is not waited for.
CloseDispatcher ==
    /\ quit /\ ~closed
    /\ \A a \in Aggs : lock[a] \notin {"command", "tombstone"} /\ forget[a].st = "none"
    /\ closed' = TRUE
    /\ UNCHANGED <<store, exec, registry, worker, ticket, resumer, up, quit, backlog,
                   budget, history>>

\* The process ends at any point, loses its memory, and Build reads the log.
Crash ==
    /\ crashes < MaxCrashes
    /\ crashes' = crashes + 1
    /\ lock' = [a \in Aggs |-> "free"]
    /\ fence' = {}
    /\ forget' = [a \in Aggs |-> NoForget]
    /\ reg' = [a \in Aggs |-> Absent]
    /\ generation' = 0
    /\ worker' = [a \in Aggs |-> NoWorker]
    /\ ticket' = [a \in Aggs |-> [v \in Versions |-> OpenTicket]]
    /\ resumer' = [r \in Resumers |-> NoResumer]
    /\ ran' = [a \in Aggs |-> {}]
    /\ backlog' = [a \in Aggs |-> Pending(a)]
    /\ up' = FALSE /\ quit' = FALSE /\ closed' = FALSE
    /\ UNCHANGED <<store, faults, forgets, handled, letters, started>>

\* Slip: the backlog is enqueued in any order.
RecoverUnordered(a) ==
    /\ ~up
    /\ \E v \in backlog[a] :
        /\ Enqueue(a, Job(v, stream[a][v], FALSE))
        /\ backlog' = [backlog EXCEPT ![a] = @ \ {v}]
    /\ UNCHANGED <<store, exec, resumer, up, quit, closed, budget, history>>

Recover(a) ==
    /\ ~up
    /\ \E v \in backlog[a] :
        /\ \A u \in backlog[a] : v <= u
        /\ Enqueue(a, Job(v, stream[a][v], FALSE))
        /\ backlog' = [backlog EXCEPT ![a] = @ \ {v}]
    /\ UNCHANGED <<store, exec, resumer, up, quit, closed, budget, history>>

\* Slip: an aggregate that cannot be rebuilt is skipped.
RecoverFailsUnparked(a) ==
    /\ ~up
    /\ backlog[a] # {}
    /\ Fail
    /\ backlog' = [backlog EXCEPT ![a] = {}]
    /\ UNCHANGED <<store, exec, registry, worker, ticket, resumer, up, quit, closed,
                   forgets, crashes, history>>

\* The replay fails: the aggregate starts parked, the others are recovered.
RecoverFails(a) ==
    /\ ~up
    /\ backlog[a] # {}
    /\ Fail
    /\ Park(a, backlog[a])
    /\ backlog' = [backlog EXCEPT ![a] = {}]
    /\ UNCHANGED <<store, exec, worker, resumer, up, quit, closed, forgets, crashes, history>>

Recovered ==
    /\ ~up
    /\ \A a \in Aggs : backlog[a] = {}
    /\ up' = TRUE
    /\ UNCHANGED <<store, exec, registry, worker, ticket, resumer, quit, closed, backlog,
                   budget, history>>

-----------------------------------------------------------------------------
Init ==
    /\ stream = [a \in Aggs |-> <<>>]
    /\ log = <<>>
    /\ lock = [a \in Aggs |-> "free"]
    /\ fence = {}
    /\ forget = [a \in Aggs |-> NoForget]
    /\ reg = [a \in Aggs |-> Absent]
    /\ generation = 0
    /\ worker = [a \in Aggs |-> NoWorker]
    /\ ticket = [a \in Aggs |-> [v \in Versions |-> OpenTicket]]
    /\ resumer = [r \in Resumers |-> NoResumer]
    /\ backlog = [a \in Aggs |-> {}]
    /\ up = TRUE /\ quit = FALSE /\ closed = FALSE
    /\ faults = 0 /\ forgets = 0 /\ crashes = 0
    /\ handled = [a \in Aggs |-> [v \in Versions |-> {}]]
    /\ letters = [a \in Aggs |-> {}]
    /\ started = [a \in Aggs |-> {}]
    /\ ran = [a \in Aggs |-> {}]

\* What the program does by itself once started.
Progress ==
    \/ \E a \in Aggs : EnqueueCommitted(a) \/ WorkerStep(a) \/ ForgetStep(a)
    \/ \E a \in Aggs : Recover(a) \/ RecoverFails(a)
    \/ \E r \in Resumers : ResumeStep(r)
    \/ Recovered

Next ==
    \/ Progress
    \/ \E a \in Aggs : Commit(a, "live") \/ Commit(a, "durable") \/ BeginTombstone(a)
    \/ Interrupt \/ CloseDispatcher \/ Crash

Spec == Init /\ [][Next]_vars

-----------------------------------------------------------------------------
(***************************************************************************)
(* The shape of the store, the registry and the workers; a delivery never  *)
(* makes more attempts than are configured (retry_loop.go:22-40).          *)
(***************************************************************************)
TypeOK ==
    /\ stream \in [Aggs -> UNION {[1..n -> Kinds] : n \in 0..MaxVersion}]
    /\ ToSet(log) \subseteq Aggs \X Versions
    /\ \A a \in Aggs :
        /\ ToSet(reg[a].jobs) \subseteq Jobs
        /\ reg[a].undelivered \subseteq Versions
        /\ worker[a].job \in Jobs \cup {NoJob}
        /\ worker[a].pending \subseteq Subs
        /\ worker[a].attempt \in 0..MaxAttempts
        /\ worker[a].halt \in {"none", "same", "open", "shut"}
    /\ generation \in Nat

(***************************************************************************)
(* No record is parked twice on one halt channel: park closes the halt of  *)
(* a record that is not parked, and closing a closed channel would bring   *)
(* the process down (aggregate_registry.go:306).                           *)
(***************************************************************************)
HaltOpenUnlessParked ==
    \A a \in Aggs : ~reg[a].parked => ~reg[a].shut

(***************************************************************************)
(* A queued job always has a goroutine that will reach it, whichever way   *)
(* the idle timer, the wake channel and a new job race                     *)
(* (aggregate_pool.go:58-73, aggregate_registry.go:89-104).                *)
(***************************************************************************)
QueueHasWorker ==
    \A a \in Aggs : reg[a].jobs # <<>> =>
        /\ worker[a].st # "none"
        /\ worker[a].st = "await" => reg[a].wake

(***************************************************************************)
(* Guarantee 4, order: while an event is with the durable handlers no      *)
(* earlier event of its aggregate is still in the delivery log, whether    *)
(* the earlier one failed, lost its ack, was parked, or waits for a        *)
(* restart (docs/spec/guarantees.md). With Forgets it needs a store that   *)
(* isolates its reads, as do the next ones that say so: see VisibleLog.    *)
(***************************************************************************)
NoOvertaking ==
    \A a \in Aggs : worker[a].st = "attempt" =>
        \A v \in Pending(a) : v >= worker[a].job.ver

Accepted(a, v) == handled[a][v] = Subs \/ v \in letters[a]

Durable(a) == {v \in DOMAIN stream[a] : stream[a][v] # "live"}

SupersededBy(a, v, u) == \E t \in (v + 1)..u : stream[a][t] = "forget"

(***************************************************************************)
(* Guarantee 4, order, as the subscribers see it, across crashes: "version *)
(* 6 is never delivered before version 5 succeeded"                        *)
(* (docs/spec/guarantees.md). An event is given to a handler only after    *)
(* every subscriber (or the dead-letter handler) has accepted each earlier *)
(* one, unless a deletion marker up to that event has replaced it. It      *)
(* holds when the store isolates its reads; over one that does not, a      *)
(* Resume that scans during a tombstone's transaction lifts the park       *)
(* without the entries a rollback brings back, and the next event          *)
(* overtakes them (processor_recovery.go:72-104).                          *)
(***************************************************************************)
DeliveredInOrder ==
    \A a \in Aggs : \A v \in Durable(a), u \in Durable(a) :
        v < u /\ u \in started[a] => Accepted(a, v) \/ SupersededBy(a, v, u)

(***************************************************************************)
(* Guarantee 4, no loss: an entry leaves the delivery log only when every  *)
(* subscriber has accepted the event or the dead-letter handler has, and   *)
(* a deletion marker only when every subscriber has; otherwise a deletion  *)
(* marker has replaced it.                                                 *)
(***************************************************************************)
AckedMeansAccepted ==
    \A a \in Aggs : \A v \in Durable(a) \ Pending(a) :
        \/ SupersededBy(a, v, Len(stream[a]))
        \/ handled[a][v] = Subs
        \/ v \in letters[a] /\ stream[a][v] # "forget"

\* The versions some goroutine is going to deliver or to hand on.
OnTheWay(a) ==
    UNION {
        VersionsOf(reg[a].jobs, IsAcked),
        IF worker[a].halt # "none" /\ ~IsShut(a) /\ worker[a].st # "finish"
            THEN {worker[a].job.ver} ELSE {},
        IF lock[a] = "command" THEN {Len(stream[a])} ELSE {},
        IF forget[a].st \in {"committed", "superseded"} THEN {forget[a].ver} ELSE {},
        UNION {resumer[r].rest : r \in {x \in Resumers : lock[a] = x}},
        backlog[a]}

(***************************************************************************)
(* Guarantee 4, nothing is stranded: an entry of the delivery log is on    *)
(* its way to the handlers, or its aggregate is parked and a Resume will   *)
(* find it. A park that is lifted hides nothing, although the log is read  *)
(* before the lift and without a lock (processor_recovery.go:46-50), as    *)
(* long as that read does not see the drop of a transaction that is rolled *)
(* back.                                                                   *)
(***************************************************************************)
NothingStranded ==
    \A a \in Aggs : reg[a].parked \/ Pending(a) \subseteq OnTheWay(a)

(***************************************************************************)
(* A generation names one park: no two parked aggregates share one, and    *)
(* none is ahead of the counter, so that a park listed by Resume, lifted   *)
(* and imposed again is never taken for the one listed                     *)
(* (aggregates.go:38-39).                                                  *)
(***************************************************************************)
GenerationsAreUnique ==
    /\ \A a \in Aggs : reg[a].parked => reg[a].gen \in 1..generation
    /\ \A a, b \in Aggs : reg[a].parked /\ reg[b].parked /\ reg[a].gen = reg[b].gen => a = b
    /\ \A r \in Resumers, a \in Aggs : resumer[r].parks[a] <= generation

(***************************************************************************)
(* Guarantee 6: a stream is erased only when its last event is a deletion  *)
(* marker that every durable subscriber has accepted (no command slipped   *)
(* in behind it), and no delivery of the erased stream is left in memory   *)
(* to acknowledge an event of the re-created one (exec_forget.go:37-64).   *)
(***************************************************************************)
EraseIsFenced ==
    [][\A a \in Aggs : stream[a] # <<>> /\ stream'[a] = <<>> =>
        /\ Last(stream[a]) = "forget"
        /\ handled[a][Len(stream[a])] = Subs
        /\ VersionsOf(reg[a].jobs, IsAcked) = {}
        /\ ~(IsAcked(worker[a].job) /\ worker[a].halt # "none")]_vars

Box == INSTANCE Outbox WITH owed <- [a \in Aggs |-> Pending(a)], given <- started,
                            accepted <- handled

(***************************************************************************)
(* Over a store that isolates its reads delivery as a subscriber sees it   *)
(* is an outbox: the delivery log is what is owed. Retries, parks,         *)
(* concurrent resumes, Forgets and restarts never call a handler with an   *)
(* event that is older than one it has seen, never with one that something *)
(* older is owed before, and never drop an entry that nobody has accepted  *)
(* (guarantees 2, 4 and 6; durable_deliverer.go, processor_recovery.go,    *)
(* exec_forget.go).                                                        *)
(***************************************************************************)
ImplementsOutbox == Box!Spec

(***************************************************************************)
(* Liveness.  The goroutines of the program run; Resume is called again    *)
(* while something is parked, which is the operator's part of the bargain; *)
(* and failures are finitely many (MaxFaults), which is "once the cause is *)
(* fixed" (processor_recovery.go:42-43).  No fairness for failures,        *)
(* crashes, new commands, or the start of a shutdown.                      *)
(***************************************************************************)
Fairness ==
    /\ \A a \in Aggs :
        /\ WF_vars(EnqueueCommitted(a))
        /\ WF_vars(WorkerStep(a))
        /\ WF_vars(ForgetStep(a) /\ UNCHANGED faults)
        /\ WF_vars(Recover(a))
    /\ \A r \in Resumers : WF_vars(ResumeStep(r) /\ UNCHANGED faults)
    /\ WF_vars(Recovered)
    /\ WF_vars(CloseDispatcher)

FairSpec == Spec /\ Fairness

(***************************************************************************)
(* Guarantee 4: what is committed is delivered, after any failures, parks, *)
(* resumes, Forgets and crashes; a shutdown leaves it to the next start.   *)
(* An entry that a dirty scan stranded would wait for that start too, so   *)
(* this is of a store that isolates its reads.                             *)
(***************************************************************************)
EventuallyDelivered ==
    \A a \in Aggs, v \in Versions : v \in Pending(a) ~> (v \notin Pending(a) \/ quit)

(***************************************************************************)
(* Every Forget ends and takes its fence down, also when its marker cannot *)
(* be delivered or the processor shuts down meanwhile                      *)
(* (exec_forget.go:124-127).                                               *)
(***************************************************************************)
ForgetEnds == \A a \in Aggs : a \in fence ~> a \notin fence

(***************************************************************************)
(* Closing drains every worker: none is left waiting on its wake channel,  *)
(* in a backoff, or behind a park (models/dispatcher.go, rule 10).         *)
(***************************************************************************)
CloseDrains ==
    closed ~> (~closed \/ \A a \in Aggs : worker[a].st = "none" /\ reg[a].jobs = <<>>)

(***************************************************************************)
(* SendWait returns: the first dispatch of a committed event settles,      *)
(* whether its handlers ran or a park or a Forget took it out of memory,   *)
(* unless the process crashes.                                             *)
(***************************************************************************)
WaitersReturn ==
    \A a \in Aggs, v \in Versions :
        v \in DOMAIN stream[a] /\ ticket[a][v].settled = "no" ~>
            (v \notin DOMAIN stream[a] \/ ticket[a][v].settled # "no" \/ crashes > 0)

-----------------------------------------------------------------------------
(* What the documentation says and the code does not always do.            *)

(***************************************************************************)
(* "SendWait returns once every handler has been attempted once"           *)
(* (docs/spec/guarantees.md): a first dispatch that settles without an     *)
(* Unrun error has been given to the durable handlers.                     *)
(***************************************************************************)
SettledMeansAttempted ==
    \A a \in Aggs : \A v \in Durable(a) :
        ticket[a][v].settled = "ok" => v \in ran[a]

=============================================================================
