----------------------------- MODULE ShardPool -----------------------------
(***************************************************************************)
(* The path of a command from Send or SendWait to its result: one shard of *)
(* the pool (internal/processor/pool), its callers and the shutdown of the *)
(* processor (internal/processor/processor.go).  The router sends all      *)
(* commands of an aggregate to one shard, and shards share nothing but the *)
(* shutdown, so one shard stands for all.                                  *)
(*                                                                         *)
(* One action is one operation on a channel, one hold of a mutex or the    *)
(* end of one call of the executor.                                        *)
(***************************************************************************)
EXTENDS Naturals, Sequences, FiniteSets, SequencesExt

CONSTANTS
    Commands,       \* calls of Send and SendWait
    Aggs,           \* aggregate ids
    AggregateID,    \* AggregateID[c]: the aggregate of command c
    SendWaits,      \* the commands sent with SendWait
    Workers,        \* the shard's worker goroutines
    QueueDepth,     \* ShardingOpts.QueueDepth
    MaxCancels,     \* bound: contexts of commands that end
    MaxShutdowns    \* bound: calls of Shutdown

ASSUME ShardPoolConstants ==
    /\ IsFiniteSet(Workers) /\ Workers # {}
    /\ AggregateID \in [Commands -> Aggs]
    /\ SendWaits \subseteq Commands
    /\ QueueDepth \in Nat \ {0}
    /\ {MaxCancels, MaxShutdowns} \subseteq Nat

VARIABLES
    caller,         \* where each Send or SendWait is
    result,         \* result[c]: what the envelope's ResultChan holds
    ended,          \* commands whose context has ended
    commandChan,    \* the shard's intake
    dispatcher,     \* the shard's dispatcher goroutine and the envelope it holds
    jobQueue,       \* what the dispatcher has handed to the workers
    worker,         \* the worker goroutines
    running,        \* aggregates that have an entry in the mailboxes map
    mailbox,        \* mailbox[a]: the commands waiting for a's worker
    stopped,        \* stopChan is closed
    shutdown,       \* where the processor's Shutdown is
    shutdowns,      \* budget: calls of Shutdown made
    accepted,       \* history: commands the intake took and nobody has answered,
                    \* in the order of their arrival
    claimed         \* history: claimed[a], a's commands that claim took and nobody
                    \* has answered, in the order claim took them

calls == <<caller, result, ended>>
shard == <<commandChan, dispatcher, jobQueue, worker, running, mailbox, stopped>>
history == <<accepted, claimed>>
vars == <<calls, shard, shutdown, shutdowns, history>>

None == "none"

Larger(m, n) == IF m > n THEN m ELSE n
JobQueueSize == Larger(Cardinality(Workers), QueueDepth)
MailboxLimit == Larger(QueueDepth, Cardinality(Workers))

Results == {None, "event", "error", "cancelled", "full", "shuttingDown"}

\* A result nobody takes is dropped; the channel has room for one.
SendResult(c, r) ==
    /\ result' = IF result[c] = None THEN [result EXCEPT ![c] = r] ELSE result
    /\ accepted' = RemoveFirst(accepted, c)
    /\ claimed' = [claimed EXCEPT ![AggregateID[c]] = RemoveFirst(@, c)]

-----------------------------------------------------------------------------
(* The caller's goroutine.                                                 *)

InFlight(c) == caller[c] \in {"sending", "waiting", "handlers"}

Return(c) == caller' = [caller EXCEPT ![c] = "returned"]

\* Refused once shutdown has begun; otherwise Shutdown will wait for it.
BeginSend(c) ==
    /\ caller[c] = "idle"
    /\ \/ shutdown = "no" /\ caller' = [caller EXCEPT ![c] = "sending"]
       \/ shutdown # "no" /\ Return(c)
    /\ UNCHANGED <<result, ended, shard, shutdown, shutdowns, history>>

\* The first select of sendAndWait, which does not block.
Send(c) ==
    /\ caller[c] = "sending"
    /\ \/ /\ Len(commandChan) < QueueDepth
          /\ commandChan' = Append(commandChan, c)
          /\ accepted' = Append(accepted, c)
          /\ caller' = [caller EXCEPT ![c] = "waiting"]
       \/ /\ c \in ended
          /\ Return(c)
          /\ UNCHANGED <<commandChan, accepted>>
       \/ /\ Len(commandChan) = QueueDepth /\ c \notin ended
          /\ Return(c)
          /\ UNCHANGED <<commandChan, accepted>>
    /\ UNCHANGED <<result, ended, dispatcher, jobQueue, worker, running, mailbox, stopped,
                   shutdown, shutdowns, claimed>>

\* The second select; SendWait goes on to wait for the handlers.
Receive(c) ==
    /\ caller[c] = "waiting"
    /\ \/ /\ result[c] # None
          /\ result' = [result EXCEPT ![c] = None]
          /\ IF c \in SendWaits /\ result[c] = "event"
             THEN caller' = [caller EXCEPT ![c] = "handlers"]
             ELSE Return(c)
       \/ /\ c \in ended
          /\ Return(c)
          /\ UNCHANGED result
    /\ UNCHANGED <<ended, shard, shutdown, shutdowns, history>>

\* The event's handlers have settled (WaitersReturn of Delivery), or the
\* context has ended.
AwaitHandlers(c) ==
    /\ caller[c] = "handlers"
    /\ Return(c)
    /\ UNCHANGED <<result, ended, shard, shutdown, shutdowns, history>>

EndContext(c) ==
    /\ Cardinality(ended) < MaxCancels
    /\ c \notin ended
    /\ InFlight(c)
    /\ ended' = ended \cup {c}
    /\ UNCHANGED <<caller, result, shard, shutdown, shutdowns, history>>

-----------------------------------------------------------------------------
(* The dispatcher's goroutine.                                             *)

Holding(c) == [st |-> "hold", cmd |-> {c}]
At(st) == [st |-> st, cmd |-> {}]

Dispatch ==
    /\ dispatcher.st = "select"
    /\ commandChan # <<>>
    /\ dispatcher' = Holding(Head(commandChan))
    /\ commandChan' = Tail(commandChan)
    /\ UNCHANGED <<calls, jobQueue, worker, running, mailbox, stopped, shutdown, shutdowns,
                   history>>

\* dispatchJob blocks while the hand-off queue is full.
DispatchJob ==
    /\ dispatcher.st = "hold"
    /\ Len(jobQueue) < JobQueueSize
    /\ \E c \in dispatcher.cmd : jobQueue' = Append(jobQueue, c)
    /\ dispatcher' = At("select")
    /\ UNCHANGED <<calls, commandChan, worker, running, mailbox, stopped, shutdown, shutdowns,
                   history>>

Stop ==
    /\ dispatcher.st = "select"
    /\ stopped
    /\ dispatcher' = At("failing")
    /\ UNCHANGED <<calls, commandChan, jobQueue, worker, running, mailbox, stopped, shutdown,
                   shutdowns, history>>

\* Slip: the envelopes still queued are not answered.
FailQueuedNot ==
    /\ dispatcher.st = "failing"
    /\ dispatcher' = At("closed")
    /\ UNCHANGED <<commandChan, result, caller, ended, jobQueue, worker, running,
                   mailbox, stopped, shutdown, shutdowns, history>>

\* failQueued, one envelope at a time, then the hand-off queue is closed.
FailQueued ==
    /\ dispatcher.st = "failing"
    /\ \/ /\ commandChan # <<>>
          /\ SendResult(Head(commandChan), "shuttingDown")
          /\ commandChan' = Tail(commandChan)
          /\ UNCHANGED dispatcher
       \/ /\ commandChan = <<>>
          /\ dispatcher' = At("closed")
          /\ UNCHANGED <<commandChan, result, history>>
    /\ UNCHANGED <<caller, ended, jobQueue, worker, running, mailbox, stopped, shutdown,
                   shutdowns>>

DispatcherStep == Dispatch \/ DispatchJob \/ Stop \/ FailQueued

-----------------------------------------------------------------------------
(* A worker's goroutine.                                                   *)

Worker(st, c) == [st |-> st, cmd |-> {c}]
Job(w) == CHOOSE c \in worker[w].cmd : TRUE
AggOf(w) == AggregateID[Job(w)]

Take(w) ==
    /\ worker[w].st = "idle"
    /\ \/ /\ jobQueue # <<>>
          /\ worker' = [worker EXCEPT ![w] = Worker("claim", Head(jobQueue))]
          /\ jobQueue' = Tail(jobQueue)
       \/ /\ jobQueue = <<>> /\ dispatcher.st = "closed"
          /\ worker' = [worker EXCEPT ![w] = At("done")]
          /\ UNCHANGED jobQueue
    /\ UNCHANGED <<calls, commandChan, dispatcher, running, mailbox, stopped, shutdown,
                   shutdowns, history>>

\* Slip: one command too many.
IsFullLate(a) == Len(mailbox[a]) > MailboxLimit

IsFull(a) == Len(mailbox[a]) >= MailboxLimit

\* Slip: the command the full mailbox refuses gets no answer.
ClaimFullSilently(w) ==
    LET c == Job(w)
        a == AggOf(w)
    IN
    /\ worker[w].st = "claim"
    /\ \/ /\ a \notin running
          /\ running' = running \cup {a}
          /\ worker' = [worker EXCEPT ![w] = Worker("execute", c)]
          /\ claimed' = [claimed EXCEPT ![a] = Append(@, c)]
          /\ UNCHANGED mailbox
       \/ /\ a \in running
          /\ IF IsFull(a) THEN UNCHANGED <<mailbox, claimed>>
             ELSE /\ mailbox' = [mailbox EXCEPT ![a] = Append(@, c)]
                  /\ claimed' = [claimed EXCEPT ![a] = Append(@, c)]
          /\ worker' = [worker EXCEPT ![w] = At("idle")]
          /\ UNCHANGED running
    /\ UNCHANGED <<calls, commandChan, dispatcher, jobQueue, stopped, shutdown, shutdowns,
                   accepted>>

\* claim: run the aggregate, or leave the command with the worker that does.
Claim(w) ==
    LET c == Job(w)
        a == AggOf(w)
    IN
    /\ worker[w].st = "claim"
    /\ \/ /\ a \notin running
          /\ running' = running \cup {a}
          /\ worker' = [worker EXCEPT ![w] = Worker("execute", c)]
          /\ claimed' = [claimed EXCEPT ![a] = Append(@, c)]
          /\ UNCHANGED <<mailbox, result, accepted>>
       \/ /\ a \in running /\ ~IsFull(a)
          /\ mailbox' = [mailbox EXCEPT ![a] = Append(@, c)]
          /\ claimed' = [claimed EXCEPT ![a] = Append(@, c)]
          /\ worker' = [worker EXCEPT ![w] = At("idle")]
          /\ UNCHANGED <<running, result, accepted>>
       \/ /\ a \in running /\ IsFull(a)
          /\ SendResult(c, "full")
          /\ worker' = [worker EXCEPT ![w] = At("idle")]
          /\ UNCHANGED <<running, mailbox>>
    /\ UNCHANGED <<caller, ended, commandChan, dispatcher, jobQueue, stopped, shutdown,
                   shutdowns>>

\* executeJob: a command whose caller has given up is not executed.
BeginExecute(w) ==
    LET c == Job(w) IN
    /\ worker[w].st = "execute"
    /\ \/ /\ c \in ended
          /\ SendResult(c, "cancelled")
          /\ worker' = [worker EXCEPT ![w] = Worker("next", c)]
       \/ /\ c \notin ended
          /\ worker' = [worker EXCEPT ![w] = Worker("run", c)]
          /\ UNCHANGED <<result, history>>
    /\ UNCHANGED <<caller, ended, commandChan, dispatcher, jobQueue, running, mailbox,
                   stopped, shutdown, shutdowns>>

\* ExecuteAsync returns an event or an error.
Executed(w) ==
    /\ worker[w].st = "run"
    /\ \E r \in {"event", "error"} : SendResult(Job(w), r)
    /\ worker' = [worker EXCEPT ![w] = Worker("next", Job(w))]
    /\ UNCHANGED <<caller, ended, commandChan, dispatcher, jobQueue, running, mailbox,
                   stopped, shutdown, shutdowns>>

\* Slip: the worker leaves the aggregate after one command.
NextReleases(w) ==
    /\ worker[w].st = "next"
    /\ running' = running \ {AggOf(w)}
    /\ worker' = [worker EXCEPT ![w] = At("idle")]
    /\ UNCHANGED <<calls, commandChan, dispatcher, jobQueue, stopped, shutdown, shutdowns,
                   history, mailbox>>

\* Slip: the newest command of the mailbox is taken first.
NextTakesLast(w) ==
    LET a == AggOf(w) IN
    /\ worker[w].st = "next"
    /\ \/ /\ mailbox[a] = <<>>
          /\ running' = running \ {a}
          /\ worker' = [worker EXCEPT ![w] = At("idle")]
          /\ UNCHANGED mailbox
       \/ /\ mailbox[a] # <<>>
          /\ worker' = [worker EXCEPT ![w] = Worker("execute", Last(mailbox[a]))]
          /\ mailbox' = [mailbox EXCEPT ![a] = Front(@)]
          /\ UNCHANGED running
    /\ UNCHANGED <<calls, commandChan, dispatcher, jobQueue, stopped, shutdown, shutdowns,
                   history>>

\* next: the mailbox's oldest command, or the aggregate is released.
NextJob(w) ==
    LET a == AggOf(w) IN
    /\ worker[w].st = "next"
    /\ \/ /\ mailbox[a] = <<>>
          /\ running' = running \ {a}
          /\ worker' = [worker EXCEPT ![w] = At("idle")]
          /\ UNCHANGED mailbox
       \/ /\ mailbox[a] # <<>>
          /\ worker' = [worker EXCEPT ![w] = Worker("execute", Head(mailbox[a]))]
          /\ mailbox' = [mailbox EXCEPT ![a] = Tail(@)]
          /\ UNCHANGED running
    /\ UNCHANGED <<calls, commandChan, dispatcher, jobQueue, stopped, shutdown, shutdowns,
                   history>>

WorkerStep(w) == Take(w) \/ Claim(w) \/ BeginExecute(w) \/ Executed(w) \/ NextJob(w)

-----------------------------------------------------------------------------
(* Shutdown.  A call whose context ends fails and may be repeated; one     *)
(* made while another runs, or after one has completed, is refused.        *)

\* Slip: a Shutdown that failed cannot be called again.
BeginShutdownOnce ==
    /\ shutdowns < MaxShutdowns
    /\ shutdown = "no"
    /\ shutdown' = "sends"
    /\ shutdowns' = shutdowns + 1
    /\ UNCHANGED <<calls, shard, history>>

BeginShutdown ==
    /\ shutdowns < MaxShutdowns
    /\ shutdown \in {"no", "failed"}
    /\ shutdown' = "sends"
    /\ shutdowns' = shutdowns + 1
    /\ UNCHANGED <<calls, shard, history>>

\* Slip: the pool is told to stop while sends are in flight.
DrainAtOnce ==
    /\ shutdown = "sends"
    /\ stopped' = TRUE
    /\ shutdown' = "drain"
    /\ UNCHANGED <<calls, commandChan, dispatcher, jobQueue, worker, running, mailbox,
                   shutdowns, history>>

\* Every send has returned: Drain tells the dispatcher to stop.
Drain ==
    /\ shutdown = "sends"
    /\ \A c \in Commands : ~InFlight(c)
    /\ stopped' = TRUE
    /\ shutdown' = "drain"
    /\ UNCHANGED <<calls, commandChan, dispatcher, jobQueue, worker, running, mailbox,
                   shutdowns, history>>

DispatchersDone ==
    /\ shutdown = "drain"
    /\ dispatcher.st = "closed"
    /\ shutdown' = "workers"
    /\ UNCHANGED <<calls, shard, shutdowns, history>>

WorkersDone ==
    /\ shutdown = "workers"
    /\ \A w \in Workers : worker[w].st = "done"
    /\ shutdown' = "down"
    /\ UNCHANGED <<calls, shard, shutdowns, history>>

\* The context of the Shutdown call ends during one of its three waits.
ShutdownFails ==
    /\ shutdown \in {"sends", "drain", "workers"}
    /\ shutdowns < MaxShutdowns
    /\ shutdown' = "failed"
    /\ UNCHANGED <<calls, shard, shutdowns, history>>

ShutdownStep == Drain \/ DispatchersDone \/ WorkersDone

-----------------------------------------------------------------------------
Init ==
    /\ caller = [c \in Commands |-> "idle"]
    /\ result = [c \in Commands |-> None]
    /\ ended = {}
    /\ commandChan = <<>>
    /\ dispatcher = At("select")
    /\ jobQueue = <<>>
    /\ worker = [w \in Workers |-> At("idle")]
    /\ running = {}
    /\ mailbox = [a \in Aggs |-> <<>>]
    /\ stopped = FALSE
    /\ shutdown = "no"
    /\ shutdowns = 0
    /\ accepted = <<>>
    /\ claimed = [a \in Aggs |-> <<>>]

CallerStep(c) == Send(c) \/ Receive(c) \/ AwaitHandlers(c)

Next ==
    \/ \E c \in Commands : BeginSend(c) \/ EndContext(c) \/ CallerStep(c)
    \/ \E w \in Workers : WorkerStep(w)
    \/ DispatcherStep
    \/ BeginShutdown \/ ShutdownFails \/ ShutdownStep

Spec == Init /\ [][Next]_vars

(***************************************************************************)
(* Every goroutine of the program runs, and a Shutdown that failed is      *)
(* called again.  Nothing is assumed of contexts that end and of new calls.*)
(***************************************************************************)
Fairness ==
    /\ \A c \in Commands : WF_vars(CallerStep(c))
    /\ \A w \in Workers : WF_vars(WorkerStep(w))
    /\ WF_vars(DispatcherStep)
    /\ WF_vars(ShutdownStep)
    /\ WF_vars(BeginShutdown /\ shutdown = "failed")

FairSpec == Spec /\ Fairness

-----------------------------------------------------------------------------
CallerStates == {"idle", "sending", "waiting", "handlers", "returned"}

DispatcherStates ==
    {Holding(c) : c \in Commands} \cup {At(st) : st \in {"select", "failing", "closed"}}

BusyStates == {"claim", "execute", "run", "next"}

WorkerStates ==
    {Worker(st, c) : st \in BusyStates, c \in Commands} \cup {At(st) : st \in {"idle", "done"}}

(***************************************************************************)
(* The shape of callers, queues and workers; no channel and no mailbox     *)
(* outgrows its limit (shard.go:43-56, shard.go:154-175).                  *)
(***************************************************************************)
TypeOK ==
    /\ caller \in [Commands -> CallerStates]
    /\ result \in [Commands -> Results]
    /\ ended \subseteq Commands
    /\ commandChan \in Seq(Commands) /\ Len(commandChan) <= QueueDepth
    /\ jobQueue \in Seq(Commands) /\ Len(jobQueue) <= JobQueueSize
    /\ dispatcher \in DispatcherStates
    /\ worker \in [Workers -> WorkerStates]
    /\ running \subseteq Aggs
    /\ mailbox \in [Aggs -> Seq(Commands)]
    /\ \A a \in Aggs : Len(mailbox[a]) <= MailboxLimit
    /\ stopped \in BOOLEAN
    /\ shutdown \in {"no", "sends", "drain", "workers", "down", "failed"}
    /\ shutdowns \in Nat

\* The workers that run aggregate a.
Runners(a) ==
    {w \in Workers : worker[w].st \in {"execute", "run", "next"} /\ AggOf(w) = a}

(***************************************************************************)
(* An aggregate occupies at most one worker, and an entry of the mailboxes *)
(* map always has the worker that will empty it                            *)
(* (docs/spec/guarantees.md:36, shard.go:151-191).                         *)
(***************************************************************************)
OneWorkerPerAggregate ==
    \A a \in Aggs :
        /\ \A v, w \in Runners(a) : v = w
        /\ a \in running <=> Runners(a) # {}
        /\ a \notin running => mailbox[a] = <<>>

\* Where command c is between its arrival and its result: one place each.
Places(c) ==
    {<<"intake", i>> : i \in {n \in DOMAIN commandChan : commandChan[n] = c}}
        \cup {<<"dispatcher", d>> : d \in {x \in dispatcher.cmd : x = c}}
        \cup {<<"queue", i>> : i \in {n \in DOMAIN jobQueue : jobQueue[n] = c}}
        \cup {<<"worker", w>> : w \in {x \in Workers :
                c \in worker[x].cmd /\ worker[x].st # "next"}}
        \cup {<<"mailbox", i>> : i \in {n \in DOMAIN mailbox[AggregateID[c]] :
                mailbox[AggregateID[c]][n] = c}}

(***************************************************************************)
(* A command that was accepted is in exactly one place until it has its    *)
(* one result, and in none afterwards: none is dropped, run twice or       *)
(* answered while it is still queued, through mailboxes, refusals,         *)
(* cancelled callers and shutdown.                                         *)
(***************************************************************************)
NoCommandLost ==
    \A c \in Commands :
        Cardinality(Places(c)) = IF Contains(accepted, c) THEN 1 ELSE 0

\* Command c of aggregate a is about to be executed or executing.
Runs(a, c) == \E w \in Runners(a) : worker[w].st # "next" /\ Job(w) = c

(***************************************************************************)
(* The commands of an aggregate are executed in the order in which claim   *)
(* took them, whichever worker runs them and whichever are cancelled.      *)
(***************************************************************************)
RunInClaimOrder ==
    \A a \in Aggs : \A c \in Commands : Runs(a, c) => c = Head(claimed[a])

(***************************************************************************)
(* A completed Shutdown leaves nothing behind: no command in the intake,   *)
(* the hand-off queue or a mailbox, no goroutine of the shard, and no      *)
(* caller in flight, also when an earlier call of it failed half way.      *)
(***************************************************************************)
ShutdownLeavesNothing ==
    shutdown = "down" =>
        /\ commandChan = <<>> /\ jobQueue = <<>> /\ running = {}
        /\ \A a \in Aggs : mailbox[a] = <<>>
        /\ \A c \in Commands : ~InFlight(c)

(***************************************************************************)
(* Every Send and SendWait returns, though its caller never gives up, the  *)
(* queues fill and the processor shuts down meanwhile (processor.go:422).  *)
(***************************************************************************)
SendsReturn == \A c \in Commands : InFlight(c) ~> ~InFlight(c)

(***************************************************************************)
(* A Shutdown completes: it waits for sends, then for the dispatcher, then *)
(* for the workers, and none of them waits for the shutdown.               *)
(***************************************************************************)
ShutdownCompletes == shutdown # "no" ~> shutdown = "down"

(***************************************************************************)
(* "The executor's per-aggregate lock keeps commands on one aggregate      *)
(* serial and ordered" (pool.go:4-6): commands of one aggregate are        *)
(* executed in the order in which the shard accepted them.                 *)
(***************************************************************************)
ArrivalOrder ==
    \A a \in Aggs : \A c \in Commands : Runs(a, c) =>
        c = SelectSeq(accepted, LAMBDA x : AggregateID[x] = a)[1]

=============================================================================
