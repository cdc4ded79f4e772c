-------------------------- MODULE ShardPoolProofs ---------------------------
(***************************************************************************)
(* Proofs about ShardPool, for any commands, workers and queue depth.      *)
(*                                                                         *)
(* Part 1: types, and one worker per aggregate.                            *)
(* Part 2: where the commands of a shard are and in which order they run.  *)
(* The invariant of part 1 is extended by three parts: Placed, every       *)
(* pending command is in one place; Ordered, what an aggregate has claimed *)
(* is its worker's command followed by its mailbox; Stopping, what the     *)
(* stages of a shutdown have seen.                                         *)
(***************************************************************************)
EXTENDS ShardPool, FiniteSetTheorems, SequenceTheorems, TLAPS

\* A mailbox holds commands of its own aggregate only; without this the worker
\* that takes the next one could find itself running another aggregate.
MailboxesAreOwn ==
    \A a \in Aggs : \A i \in DOMAIN mailbox[a] : AggregateID[mailbox[a][i]] = a

\* The inductive invariant.
IInv == TypeOK /\ MailboxesAreOwn /\ OneWorkerPerAggregate

LEMMA Sizes == JobQueueSize \in Nat /\ MailboxLimit \in Nat
  BY ShardPoolConstants, FS_CardinalityType DEF JobQueueSize, MailboxLimit, Larger

\* What Job reads from a worker that has a command.
LEMMA JobIs ==
  ASSUME NEW w \in Workers, NEW st, NEW c, worker[w] = Worker(st, c)
  PROVE  Job(w) = c /\ worker[w].st = st
  BY DEF Job, Worker

LEMMA JobIsPrimed ==
  ASSUME NEW w \in Workers, NEW st, NEW c, worker'[w] = Worker(st, c)
  PROVE  Job(w)' = c /\ worker'[w].st = st
  BY DEF Job, Worker

\* The states of the goroutines, one by one.
LEMMA States ==
  /\ \A st \in BusyStates, c \in Commands : Worker(st, c) \in WorkerStates
  /\ At("idle") \in WorkerStates /\ At("done") \in WorkerStates
  /\ \A c \in Commands : Holding(c) \in DispatcherStates
  /\ \A st \in {"select", "failing", "closed"} : At(st) \in DispatcherStates
  BY DEF WorkerStates, DispatcherStates

\* A worker past its first receive holds a command of Commands.
LEMMA Busy ==
  ASSUME TypeOK, NEW w \in Workers, worker[w].st \in BusyStates
  PROVE  /\ Job(w) \in Commands
         /\ AggOf(w) \in Aggs
  <1>1. worker[w] \in WorkerStates
    BY DEF TypeOK
  <1>2. PICK st \in BusyStates, c \in Commands : worker[w] = Worker(st, c)
    BY <1>1 DEF WorkerStates, At, BusyStates
  <1>3. Job(w) = c
    BY <1>2, JobIs
  <1> QED
    BY <1>3, ShardPoolConstants DEF AggOf

LEMMA InitIInv == Init => IInv
  <1> SUFFICES ASSUME Init PROVE IInv
    OBVIOUS
  <1>1. TypeOK
    <2>1. \A a \in Aggs : mailbox[a] = <<>>
      BY DEF Init
    <2>2. /\ caller \in [Commands -> CallerStates]
          /\ result \in [Commands -> Results]
          /\ mailbox \in [Aggs -> Seq(Commands)]
      BY DEF Init, CallerStates, Results
    <2>3. worker \in [Workers -> WorkerStates] /\ dispatcher \in DispatcherStates
      BY States DEF Init
    <2>4. /\ commandChan \in Seq(Commands) /\ Len(commandChan) <= QueueDepth
          /\ jobQueue \in Seq(Commands) /\ Len(jobQueue) <= JobQueueSize
      BY Sizes, ShardPoolConstants DEF Init
    <2>5. \A a \in Aggs : Len(mailbox[a]) <= MailboxLimit
      BY <2>1, Sizes
    <2>6. /\ ended \subseteq Commands /\ running \subseteq Aggs
          /\ stopped \in BOOLEAN /\ shutdowns \in Nat
          /\ shutdown \in {"no", "sends", "drain", "workers", "down", "failed"}
      BY DEF Init
    <2> QED
      BY <2>2, <2>3, <2>4, <2>5, <2>6 DEF TypeOK
  <1>2. \A a \in Aggs : Runners(a) = {}
    BY DEF Init, Runners, At
  <1> QED
    BY <1>1, <1>2 DEF Init, IInv, MailboxesAreOwn, OneWorkerPerAggregate

LEMMA SendResultType ==
  ASSUME TypeOK, NEW c \in Commands, NEW r \in Results, SendResult(c, r)
  PROVE  result' \in [Commands -> Results]
  BY DEF TypeOK, SendResult

-----------------------------------------------------------------------------
(* What a worker's step does to the sets of runners.                       *)

RunStates == {"execute", "run", "next"}

LEMMA RunnersLeave ==
  ASSUME TypeOK, NEW w \in Workers, NEW x, worker' = [worker EXCEPT ![w] = x],
         x.st \notin RunStates, NEW a
  PROVE  Runners(a)' = Runners(a) \ {w}
  <1>1. worker'[w].st \notin RunStates
    BY DEF TypeOK
  <1>2. \A v \in Workers \ {w} : worker'[v] = worker[v]
    BY DEF TypeOK
  <1>3. \A v \in Workers \ {w} : AggOf(v)' = AggOf(v)
    BY <1>2 DEF AggOf, Job
  <1> QED
    BY <1>1, <1>2, <1>3 DEF Runners, RunStates

LEMMA RunnersJoin ==
  ASSUME TypeOK, NEW w \in Workers, NEW st \in RunStates, NEW c \in Commands,
         worker' = [worker EXCEPT ![w] = Worker(st, c)], NEW a
  PROVE  Runners(a)' = IF AggregateID[c] = a THEN Runners(a) \cup {w} ELSE Runners(a) \ {w}
  <1>1. worker'[w] = Worker(st, c)
    BY DEF TypeOK
  <1>2. worker'[w].st \in RunStates /\ AggOf(w)' = AggregateID[c]
    BY <1>1, JobIsPrimed DEF AggOf
  <1>3. \A v \in Workers \ {w} : worker'[v] = worker[v]
    BY DEF TypeOK
  <1>4. \A v \in Workers \ {w} : AggOf(v)' = AggOf(v)
    BY <1>3 DEF AggOf, Job
  <1> QED
    BY <1>2, <1>3, <1>4 DEF Runners, RunStates

LEMMA RunnersSame ==
  ASSUME UNCHANGED worker, NEW a
  PROVE  Runners(a)' = Runners(a)
  BY DEF Runners, AggOf, Job

LEMMA RunnerOf ==
  ASSUME NEW w \in Workers, worker[w].st \in RunStates
  PROVE  \A a : w \in Runners(a) <=> AggOf(w) = a
  BY DEF Runners, RunStates

LEMMA NotRunner ==
  ASSUME NEW w \in Workers, worker[w].st \notin RunStates
  PROVE  \A a : w \notin Runners(a)
  BY DEF Runners, RunStates

-----------------------------------------------------------------------------
LEMMA NextType == TypeOK /\ [Next]_vars => TypeOK'
  <1> SUFFICES ASSUME TypeOK, [Next]_vars PROVE TypeOK'
    OBVIOUS
  <1> USE Sizes, ShardPoolConstants
  <1>1. ASSUME NEW c \in Commands, BeginSend(c) \/ EndContext(c) \/ AwaitHandlers(c)
        PROVE  TypeOK'
    BY <1>1 DEF BeginSend, EndContext, AwaitHandlers, Return, TypeOK, CallerStates, shard, history
  <1>2. ASSUME NEW c \in Commands, Send(c) PROVE TypeOK'
    <2>1. caller' \in [Commands -> CallerStates]
      BY <1>2 DEF Send, Return, TypeOK, CallerStates
    <2>2. commandChan' \in Seq(Commands) /\ Len(commandChan') <= QueueDepth
      <3>1. CASE Len(commandChan) < QueueDepth /\ commandChan' = Append(commandChan, c)
        BY <3>1 DEF TypeOK
      <3>2. CASE UNCHANGED commandChan
        BY <3>2 DEF TypeOK
      <3> QED
        BY <1>2, <3>1, <3>2 DEF Send
    <2> QED
      BY <1>2, <2>1, <2>2 DEF Send, TypeOK
  <1>3. ASSUME NEW c \in Commands, Receive(c) PROVE TypeOK'
    BY <1>3 DEF Receive, Return, TypeOK, CallerStates, Results, None, shard, history
  <1>4. CASE Dispatch
    <2>1. Head(commandChan) \in Commands /\ Tail(commandChan) \in Seq(Commands)
          /\ Len(Tail(commandChan)) <= QueueDepth
      BY <1>4 DEF Dispatch, TypeOK
    <2> QED
      BY <1>4, <2>1, States DEF Dispatch, TypeOK, calls, history
  <1>5. CASE DispatchJob
    <2>1. dispatcher.cmd \subseteq Commands
      BY DEF TypeOK, DispatcherStates, Holding, At
    <2>2. jobQueue' \in Seq(Commands) /\ Len(jobQueue') <= JobQueueSize
      BY <1>5, <2>1 DEF DispatchJob, TypeOK
    <2> QED
      BY <1>5, <2>2, States DEF DispatchJob, TypeOK, calls, history
  <1>6. CASE Stop
    BY <1>6, States DEF Stop, TypeOK, calls, history
  <1>7. CASE FailQueued
    <2>1. CASE commandChan # <<>>
      <3>1. Head(commandChan) \in Commands /\ Tail(commandChan) \in Seq(Commands)
            /\ Len(Tail(commandChan)) <= QueueDepth
        BY <2>1 DEF TypeOK
      <3>2. result' \in [Commands -> Results]
        BY <1>7, <2>1, <3>1, SendResultType DEF FailQueued, Results
      <3> QED
        BY <1>7, <2>1, <3>1, <3>2 DEF FailQueued, TypeOK
    <2>2. CASE commandChan = <<>>
      BY <1>7, <2>2, States DEF FailQueued, TypeOK
    <2> QED
      BY <2>1, <2>2
  <1>8. ASSUME NEW w \in Workers, Take(w) PROVE TypeOK'
    <2>1. CASE jobQueue # <<>>
      <3>1. Head(jobQueue) \in Commands /\ Tail(jobQueue) \in Seq(Commands)
            /\ Len(Tail(jobQueue)) <= JobQueueSize
        BY <2>1 DEF TypeOK
      <3>2. worker' \in [Workers -> WorkerStates]
        BY <1>8, <2>1, <3>1, States DEF Take, TypeOK, BusyStates
      <3> QED
        BY <1>8, <2>1, <3>1, <3>2 DEF Take, TypeOK, calls, history
    <2>2. CASE jobQueue = <<>>
      BY <1>8, <2>2, States DEF Take, TypeOK, calls, history
    <2> QED
      BY <2>1, <2>2
  <1>9. ASSUME NEW w \in Workers, Claim(w) PROVE TypeOK'
    <2>1. Job(w) \in Commands /\ AggOf(w) \in Aggs
      BY <1>9, Busy DEF Claim, BusyStates
    <2>2. worker' \in [Workers -> WorkerStates]
      BY <1>9, <2>1, States DEF Claim, TypeOK, BusyStates
    <2>3. result' \in [Commands -> Results]
      BY <1>9, <2>1, SendResultType DEF Claim, TypeOK, Results
    <2>4. /\ mailbox' \in [Aggs -> Seq(Commands)]
          /\ \A a \in Aggs : Len(mailbox'[a]) <= MailboxLimit
      <3>1. CASE /\ ~IsFull(AggOf(w))
                 /\ mailbox' = [mailbox EXCEPT ![AggOf(w)] = Append(@, Job(w))]
        <4>1. /\ Append(mailbox[AggOf(w)], Job(w)) \in Seq(Commands)
              /\ Len(Append(mailbox[AggOf(w)], Job(w))) <= MailboxLimit
          BY <2>1, <3>1 DEF TypeOK, IsFull
        <4> QED
          BY <2>1, <3>1, <4>1 DEF TypeOK
      <3>2. CASE UNCHANGED mailbox
        BY <3>2 DEF TypeOK
      <3> QED
        BY <1>9, <3>1, <3>2 DEF Claim
    <2>5. running' \subseteq Aggs
      BY <1>9, <2>1 DEF Claim, TypeOK
    <2> QED
      BY <1>9, <2>2, <2>3, <2>4, <2>5 DEF Claim, TypeOK
  <1>10. ASSUME NEW w \in Workers, BeginExecute(w) PROVE TypeOK'
    <2>1. Job(w) \in Commands
      BY <1>10, Busy DEF BeginExecute, BusyStates
    <2>2. worker' \in [Workers -> WorkerStates]
      BY <1>10, <2>1, States DEF BeginExecute, TypeOK, BusyStates
    <2>3. result' \in [Commands -> Results]
      BY <1>10, <2>1, SendResultType DEF BeginExecute, TypeOK, Results
    <2> QED
      BY <1>10, <2>2, <2>3 DEF BeginExecute, TypeOK
  <1>11. ASSUME NEW w \in Workers, Executed(w) PROVE TypeOK'
    <2>1. Job(w) \in Commands
      BY <1>11, Busy DEF Executed, BusyStates
    <2>2. worker' \in [Workers -> WorkerStates]
      BY <1>11, <2>1, States DEF Executed, TypeOK, BusyStates
    <2>3. result' \in [Commands -> Results]
      BY <1>11, <2>1, SendResultType DEF Executed, Results
    <2> QED
      BY <1>11, <2>2, <2>3 DEF Executed, TypeOK
  <1>12. ASSUME NEW w \in Workers, NextJob(w) PROVE TypeOK'
    <2>1. AggOf(w) \in Aggs
      BY <1>12, Busy DEF NextJob, BusyStates
    <2>2. CASE mailbox[AggOf(w)] = <<>>
      BY <1>12, <2>1, <2>2, States DEF NextJob, TypeOK, calls, history
    <2>3. CASE mailbox[AggOf(w)] # <<>>
      <3>1. /\ Head(mailbox[AggOf(w)]) \in Commands
            /\ Tail(mailbox[AggOf(w)]) \in Seq(Commands)
            /\ Len(Tail(mailbox[AggOf(w)])) <= MailboxLimit
        BY <2>1, <2>3 DEF TypeOK
      <3>2. worker' \in [Workers -> WorkerStates]
        BY <1>12, <2>3, <3>1, States DEF NextJob, TypeOK, BusyStates
      <3>3. /\ mailbox' \in [Aggs -> Seq(Commands)]
            /\ \A a \in Aggs : Len(mailbox'[a]) <= MailboxLimit
        BY <1>12, <2>1, <2>3, <3>1 DEF NextJob, TypeOK
      <3> QED
        BY <1>12, <2>3, <3>2, <3>3 DEF NextJob, TypeOK, calls, history
    <2> QED
      BY <2>2, <2>3
  <1>13. CASE BeginShutdown \/ ShutdownFails \/ ShutdownStep
    <2>1. CASE BeginShutdown
      BY <2>1 DEF BeginShutdown, TypeOK, calls, shard
    <2>2. CASE ShutdownFails
      BY <2>2 DEF ShutdownFails, TypeOK, calls, shard
    <2>3. CASE Drain
      BY <2>3 DEF Drain, TypeOK, calls
    <2>4. CASE DispatchersDone
      BY <2>4 DEF DispatchersDone, TypeOK, calls, shard
    <2>5. CASE WorkersDone
      BY <2>5 DEF WorkersDone, TypeOK, calls, shard
    <2> QED
      BY <1>13, <2>1, <2>2, <2>3, <2>4, <2>5 DEF ShutdownStep
  <1>14. CASE UNCHANGED vars
    BY <1>14 DEF vars, calls, shard, history, TypeOK
  <1> QED
    BY <1>1, <1>2, <1>3, <1>4, <1>5, <1>6, <1>7, <1>8, <1>9, <1>10, <1>11, <1>12, <1>13, <1>14
    DEF Next, CallerStep, WorkerStep, DispatcherStep

-----------------------------------------------------------------------------
LEMMA NextOwn == IInv /\ [Next]_vars => MailboxesAreOwn'
  <1> SUFFICES ASSUME IInv, [Next]_vars PROVE MailboxesAreOwn'
    OBVIOUS
  <1> USE DEF IInv
  <1>1. CASE UNCHANGED mailbox
    BY <1>1 DEF MailboxesAreOwn
  <1>2. ASSUME NEW w \in Workers, Claim(w), ~UNCHANGED mailbox PROVE MailboxesAreOwn'
    <2>1. Job(w) \in Commands /\ AggOf(w) \in Aggs /\ AggregateID[Job(w)] = AggOf(w)
      BY <1>2, Busy DEF Claim, BusyStates, AggOf
    <2>2. mailbox' = [mailbox EXCEPT ![AggOf(w)] = Append(@, Job(w))]
      BY <1>2 DEF Claim
    <2> QED
      BY <2>1, <2>2 DEF MailboxesAreOwn, TypeOK
  <1>3. ASSUME NEW w \in Workers, NextJob(w), ~UNCHANGED mailbox PROVE MailboxesAreOwn'
    <2>1. AggOf(w) \in Aggs
      BY <1>3, Busy DEF NextJob, BusyStates
    <2>2. mailbox[AggOf(w)] # <<>> /\ mailbox' = [mailbox EXCEPT ![AggOf(w)] = Tail(@)]
      BY <1>3 DEF NextJob
    <2> QED
      BY <2>1, <2>2 DEF MailboxesAreOwn, TypeOK
  <1> QED
    BY <1>1, <1>2, <1>3
    DEF Next, CallerStep, WorkerStep, DispatcherStep, ShutdownStep, vars, shard, BeginSend,
        EndContext, Send, Receive, AwaitHandlers, Dispatch, DispatchJob, Stop, FailQueued, Take,
        BeginExecute, Executed, BeginShutdown, ShutdownFails, Drain, DispatchersDone, WorkersDone

LEMMA NextOneWorker == IInv /\ [Next]_vars => OneWorkerPerAggregate'
  <1> SUFFICES ASSUME IInv, [Next]_vars, NEW a \in Aggs
               PROVE  /\ \A v, w \in Runners(a)' : v = w
                      /\ a \in running' <=> Runners(a)' # {}
                      /\ a \notin running' => mailbox'[a] = <<>>
    BY DEF OneWorkerPerAggregate
  <1> USE DEF IInv
  <1>0. /\ \A v, w \in Runners(a) : v = w
        /\ a \in running <=> Runners(a) # {}
        /\ a \notin running => mailbox[a] = <<>>
    BY DEF OneWorkerPerAggregate
  <1>1. CASE UNCHANGED <<worker, running, mailbox>>
    BY <1>0, <1>1, RunnersSame
  <1>2. ASSUME NEW w \in Workers, Take(w) PROVE Runners(a)' = Runners(a)
    <2>1. /\ Worker("claim", Head(jobQueue)).st \notin RunStates
          /\ At("done").st \notin RunStates
      BY DEF Worker, At, RunStates
    <2>2. Runners(a)' = Runners(a) \ {w}
      BY <1>2, <2>1, RunnersLeave DEF Take
    <2>3. w \notin Runners(a)
      BY <1>2, NotRunner DEF Take, RunStates
    <2> QED
      BY <2>2, <2>3
  <1>3. ASSUME NEW w \in Workers, Claim(w)
        PROVE  /\ \A v, u \in Runners(a)' : v = u
               /\ a \in running' <=> Runners(a)' # {}
               /\ a \notin running' => mailbox'[a] = <<>>
    <2>1. Job(w) \in Commands /\ AggOf(w) \in Aggs /\ AggregateID[Job(w)] = AggOf(w)
      BY <1>3, Busy DEF Claim, BusyStates, AggOf
    <2>2. w \notin Runners(a)
      BY <1>3, NotRunner DEF Claim, RunStates
    <2>3. CASE AggOf(w) \notin running
      <3>1. Runners(a)' = IF AggOf(w) = a THEN Runners(a) \cup {w} ELSE Runners(a) \ {w}
        BY <1>3, <2>1, <2>3, RunnersJoin DEF Claim, RunStates
      <3>2. running' = running \cup {AggOf(w)} /\ UNCHANGED mailbox
        BY <1>3, <2>3 DEF Claim
      <3>3. AggOf(w) = a => Runners(a) = {}
        BY <1>0, <2>3
      <3> QED
        BY <1>0, <2>2, <3>1, <3>2, <3>3
    <2>4. CASE AggOf(w) \in running
      <3>1. worker' = [worker EXCEPT ![w] = At("idle")] /\ UNCHANGED running
        BY <1>3, <2>4 DEF Claim
      <3>2. Runners(a)' = Runners(a)
        <4>1. At("idle").st \notin RunStates
          BY DEF At, RunStates
        <4>2. Runners(a)' = Runners(a) \ {w}
          BY <3>1, <4>1, RunnersLeave
        <4> QED
          BY <2>2, <4>2
      <3>3. a # AggOf(w) => mailbox'[a] = mailbox[a]
        BY <1>3, <2>1, <2>4 DEF Claim, TypeOK
      <3> QED
        BY <1>0, <2>4, <3>1, <3>2, <3>3
    <2> QED
      BY <2>3, <2>4
  <1>4. ASSUME NEW w \in Workers, BeginExecute(w) \/ Executed(w) PROVE Runners(a)' = Runners(a)
    <2>1. Job(w) \in Commands /\ AggregateID[Job(w)] = AggOf(w)
      BY <1>4, Busy DEF BeginExecute, Executed, BusyStates, AggOf
    <2>2. PICK st \in RunStates : worker' = [worker EXCEPT ![w] = Worker(st, Job(w))]
      BY <1>4 DEF BeginExecute, Executed, RunStates
    <2>3. Runners(a)' = IF AggOf(w) = a THEN Runners(a) \cup {w} ELSE Runners(a) \ {w}
      <3>1. PICK c \in Commands : c = Job(w)
        BY <2>1
      <3>2. worker' = [worker EXCEPT ![w] = Worker(st, c)]
        BY <2>2, <3>1
      <3>3. Runners(a)' = IF AggregateID[c] = a THEN Runners(a) \cup {w} ELSE Runners(a) \ {w}
        BY <3>2, RunnersJoin
      <3> QED
        BY <2>1, <3>1, <3>3
    <2>4. w \in Runners(a) <=> AggOf(w) = a
      BY <1>4, RunnerOf DEF BeginExecute, Executed, RunStates
    <2> QED
      BY <2>3, <2>4
  <1>5. ASSUME NEW w \in Workers, NextJob(w)
        PROVE  /\ \A v, u \in Runners(a)' : v = u
               /\ a \in running' <=> Runners(a)' # {}
               /\ a \notin running' => mailbox'[a] = <<>>
    <2>1. AggOf(w) \in Aggs
      BY <1>5, Busy DEF NextJob, BusyStates
    <2>2. w \in Runners(a) <=> AggOf(w) = a
      BY <1>5, RunnerOf DEF NextJob, RunStates
    <2>3. CASE mailbox[AggOf(w)] = <<>>
      <3>1. Runners(a)' = Runners(a) \ {w}
        BY <1>5, <2>3, RunnersLeave DEF NextJob, At, RunStates
      <3>2. running' = running \ {AggOf(w)} /\ UNCHANGED mailbox
        BY <1>5, <2>3 DEF NextJob
      <3> QED
        BY <1>0, <2>2, <2>3, <3>1, <3>2
    <2>4. CASE mailbox[AggOf(w)] # <<>>
      <3>1. /\ Head(mailbox[AggOf(w)]) \in Commands
            /\ AggregateID[Head(mailbox[AggOf(w)])] = AggOf(w)
        BY <2>1, <2>4 DEF TypeOK, MailboxesAreOwn
      <3>2. Runners(a)' = IF AggOf(w) = a THEN Runners(a) \cup {w} ELSE Runners(a) \ {w}
        BY <1>5, <2>4, <3>1, RunnersJoin DEF NextJob, RunStates
      <3>3. UNCHANGED running /\ (a # AggOf(w) => mailbox'[a] = mailbox[a])
        BY <1>5, <2>1, <2>4 DEF NextJob, TypeOK
      <3> QED
        BY <1>0, <2>2, <3>2, <3>3
    <2> QED
      BY <2>3, <2>4
  <1>6. ASSUME NEW w \in Workers, Take(w) \/ BeginExecute(w) \/ Executed(w)
        PROVE  UNCHANGED <<running, mailbox>>
    BY <1>6 DEF Take, BeginExecute, Executed
  <1>7. ASSUME NEW w \in Workers, WorkerStep(w)
        PROVE  /\ \A v, u \in Runners(a)' : v = u
               /\ a \in running' <=> Runners(a)' # {}
               /\ a \notin running' => mailbox'[a] = <<>>
    BY <1>0, <1>2, <1>3, <1>4, <1>5, <1>6, <1>7 DEF WorkerStep
  <1> QED
    BY <1>1, <1>7
    DEF Next, CallerStep, DispatcherStep, ShutdownStep, vars, shard, BeginSend, EndContext, Send,
        Receive, AwaitHandlers, Dispatch, DispatchJob, Stop, FailQueued, BeginShutdown,
        ShutdownFails, Drain, DispatchersDone, WorkersDone

-----------------------------------------------------------------------------
LEMMA InvarianceOfIInv == Spec => []IInv
  <1>1. IInv /\ [Next]_vars => IInv'
    BY NextType, NextOwn, NextOneWorker DEF IInv
  <1> QED
    BY InitIInv, <1>1, PTL DEF Spec

(***************************************************************************)
(* Queues and mailboxes keep their types and their limits, for any number  *)
(* of commands and workers and any queue depth.                            *)
(***************************************************************************)
THEOREM TypeCorrect == Spec => []TypeOK
  <1>1. IInv => TypeOK
    BY DEF IInv
  <1> QED
    BY InvarianceOfIInv, <1>1, PTL

(***************************************************************************)
(* One aggregate occupies at most one worker, and a mailbox always has its *)
(* worker, for any number of commands and workers and any queue depth.     *)
(***************************************************************************)
THEOREM OneWorker == Spec => []OneWorkerPerAggregate
  <1>1. IInv => OneWorkerPerAggregate
    BY DEF IInv
  <1> QED
    BY InvarianceOfIInv, <1>1, PTL

-----------------------------------------------------------------------------
(* Where a command is in a queue, and what the operations on queues do.    *)

Slots(s, c) == {i \in 1..Len(s) : s[i] = c}
Lone(S) == \A x, y \in S : x = y

\* A command that is not in a queue is appended at one place.
LEMMA SlotsAppend ==
  ASSUME NEW S, NEW s \in Seq(S), NEW c \in S
  PROVE  /\ \A d : d # c => Slots(Append(s, c), d) = Slots(s, d)
         /\ Slots(s, c) = {} => Slots(Append(s, c), c) = {Len(s) + 1}
  BY AppendProperties DEF Slots

\* The tail of a queue has everything at the place before.
LEMMA SlotsTail ==
  ASSUME NEW S, NEW s \in Seq(S), s # <<>>
  PROVE  /\ Head(s) \in S /\ 1 \in Slots(s, Head(s))
         /\ \A d : \A i : i \in Slots(Tail(s), d) <=> i \in Nat /\ i >= 1 /\ i + 1 \in Slots(s, d)
  BY HeadTailProperties, EmptySeq DEF Slots

\* Taking the head takes a command that was there once out of the queue, and no other.
LEMMA TailKeeps ==
  ASSUME NEW S, NEW s \in Seq(S), s # <<>>, Lone(Slots(s, Head(s)))
  PROVE  /\ Slots(Tail(s), Head(s)) = {}
         /\ \A d : d # Head(s) => /\ Slots(Tail(s), d) = {} <=> Slots(s, d) = {}
                                  /\ Lone(Slots(s, d)) => Lone(Slots(Tail(s), d))
  <1>1. \A d : \A i \in Slots(s, d) : i \in Nat /\ i >= 1
    BY DEF Slots
  <1>2. s[1] = Head(s)
    BY EmptySeq
  <1>3. \A d : 1 \in Slots(s, d) => d = Head(s)
    BY <1>2 DEF Slots
  <1>4. Slots(Tail(s), Head(s)) = {}
    BY <1>1, SlotsTail DEF Lone
  <1>5. ASSUME NEW d, d # Head(s)
        PROVE  /\ Slots(Tail(s), d) = {} <=> Slots(s, d) = {}
               /\ Lone(Slots(s, d)) => Lone(Slots(Tail(s), d))
    <2>1. \A i \in Slots(s, d) : i - 1 \in Slots(Tail(s), d)
      BY <1>1, <1>3, <1>5, SlotsTail
    <2>2. \A i \in Slots(Tail(s), d) : i \in Nat /\ i + 1 \in Slots(s, d)
      BY SlotsTail
    <2> QED
      BY <2>1, <2>2 DEF Lone
  <1> QED
    BY <1>4, <1>5

\* Removing the command at the head is taking the tail.
LEMMA RemoveHead ==
  ASSUME NEW S, NEW s \in Seq(S), s # <<>>
  PROVE  RemoveFirst(s, Head(s)) = Tail(s)
  <1> DEFINE I == {i \in 1..Len(s) : s[i] = Head(s)}
  <1>1. 1 \in I /\ s[1] = Head(s)
    BY EmptySeq
  <1>2. \A i \in I : 1 <= i
    OBVIOUS
  <1>3. Min(I) = 1
    BY <1>1, <1>2 DEF Min
  <1>4. SelectInSeq(s, LAMBDA v : v = Head(s)) = 1
    BY <1>1, <1>3 DEF SelectInSeq
  <1>5. RemoveFirst(s, Head(s)) = RemoveAt(s, 1)
    BY <1>1, <1>4 DEF RemoveFirst
  <1>6. SubSeq(s, 1, 0) = <<>> /\ SubSeq(s, 2, Len(s)) = Tail(s)
    BY SubSeqEmpty, TailIsSubSeq
  <1>7. Tail(s) \in Seq(S)
    BY HeadTailProperties
  <1> QED
    BY <1>5, <1>6, <1>7, ConcatEmptySeq DEF RemoveAt

\* Removing a command that is not there does nothing.
LEMMA RemoveAbsent ==
  ASSUME NEW s, NEW c, Slots(s, c) = {}
  PROVE  RemoveFirst(s, c) = s
  BY DEF RemoveFirst, Slots

\* What is left of a sequence without its k-th element.
LEMMA RemoveSlot ==
  ASSUME NEW S, NEW s \in Seq(S), NEW k \in 1..Len(s)
  PROVE  /\ RemoveAt(s, k) \in Seq(S)
         /\ Len(RemoveAt(s, k)) = Len(s) - 1
         /\ \A i \in 1..(Len(s) - 1) : RemoveAt(s, k)[i] = IF i < k THEN s[i] ELSE s[i + 1]
  <1> DEFINE a == SubSeq(s, 1, k - 1)
             b == SubSeq(s, k + 1, Len(s))
  <1>0. Len(s) \in Nat /\ \A i \in 1..Len(s) : s[i] \in S
    BY LenProperties, ElementOfSeq
  <1>1. a \in Seq(S) /\ Len(a) = k - 1 /\ \A i \in 1..(k - 1) : a[i] = s[i]
    <2>1. 1 \in Int /\ k - 1 \in Int /\ \A i \in 1..(k - 1) : s[i] \in S
      BY <1>0
    <2> QED
      BY <1>0, <2>1, SubSeqProperties
  <1>2. b \in Seq(S) /\ Len(b) = Len(s) - k /\ \A i \in 1..(Len(s) - k) : b[i] = s[k + i]
    <2>1. k + 1 \in Int /\ Len(s) \in Int /\ \A i \in (k + 1)..Len(s) : s[i] \in S
      BY <1>0
    <2>2. /\ b \in Seq(S) /\ Len(b) = IF k + 1 <= Len(s) THEN Len(s) - (k + 1) + 1 ELSE 0
          /\ \A i \in 1..(Len(s) - (k + 1) + 1) : b[i] = s[(k + 1) + i - 1]
      BY <2>1, SubSeqProperties
    <2> QED
      BY <1>0, <2>2
  <1> HIDE DEF a, b
  <1>3. /\ a \o b \in Seq(S) /\ Len(a \o b) = Len(a) + Len(b)
        /\ \A i \in 1..(Len(a) + Len(b)) :
              (a \o b)[i] = IF i <= Len(a) THEN a[i] ELSE b[i - Len(a)]
    BY <1>1, <1>2, ConcatProperties
  <1>4. RemoveAt(s, k) = a \o b
    BY DEF RemoveAt, a, b
  <1>5. Len(a) + Len(b) = Len(s) - 1
    BY <1>0, <1>1, <1>2
  <1>6. ASSUME NEW i \in 1..(Len(s) - 1)
        PROVE  (a \o b)[i] = IF i < k THEN s[i] ELSE s[i + 1]
    <2>1. (a \o b)[i] = IF i <= Len(a) THEN a[i] ELSE b[i - Len(a)]
      BY <1>3, <1>5
    <2>2. CASE i < k
      BY <2>1, <2>2, <1>0, <1>1
    <2>3. CASE ~(i < k)
      <3>1. i - Len(a) = i - k + 1 /\ i - k + 1 \in 1..(Len(s) - k) /\ ~(i <= Len(a))
        BY <2>3, <1>0, <1>1
      <3>2. b[i - k + 1] = s[k + (i - k + 1)] /\ k + (i - k + 1) = i + 1
        BY <3>1, <1>0, <1>2
      <3> QED
        BY <2>1, <2>3, <3>1, <3>2
    <2> QED
      BY <2>2, <2>3
  <1> QED
    BY <1>3, <1>4, <1>5, <1>6

\* Removing a command that is there once removes it, and no other.
LEMMA RemoveOne ==
  ASSUME NEW S, NEW s \in Seq(S), NEW c, Lone(Slots(s, c))
  PROVE  /\ RemoveFirst(s, c) \in Seq(S)
         /\ Slots(RemoveFirst(s, c), c) = {}
         /\ \A d : d # c => /\ Slots(RemoveFirst(s, c), d) = {} <=> Slots(s, d) = {}
                            /\ Lone(Slots(s, d)) => Lone(Slots(RemoveFirst(s, c), d))
  <1>0. Len(s) \in Nat
    BY LenProperties
  <1>1. CASE Slots(s, c) = {}
    BY <1>1, RemoveAbsent
  <1>2. CASE Slots(s, c) # {}
    <2>1. PICK k \in 1..Len(s) : s[k] = c
      BY <1>2 DEF Slots
    <2>2. \A i \in 1..Len(s) : s[i] = c => i = k
      BY <2>1 DEF Slots, Lone
    <2>3. SelectInSeq(s, LAMBDA v : v = c) = k
      <3> DEFINE I == {i \in 1..Len(s) : s[i] = c}
      <3>1. I = {k}
        BY <2>1, <2>2
      <3>2. Min({k}) = k
        BY <2>1 DEF Min
      <3> QED
        BY <3>1, <3>2 DEF SelectInSeq
    <2> DEFINE t == RemoveAt(s, k)
    <2>4. RemoveFirst(s, c) = t
      BY <2>1, <2>3 DEF RemoveFirst
    <2>5. /\ t \in Seq(S) /\ Len(t) = Len(s) - 1
          /\ \A i \in 1..(Len(s) - 1) : t[i] = IF i < k THEN s[i] ELSE s[i + 1]
      BY RemoveSlot
    <2> HIDE DEF t
    <2>6. Slots(t, c) = {}
      BY <1>0, <2>2, <2>5 DEF Slots
    <2>7. ASSUME NEW d, d # c
          PROVE  /\ Slots(t, d) = {} <=> Slots(s, d) = {}
                 /\ Lone(Slots(s, d)) => Lone(Slots(t, d))
      <3>1. \A i \in Slots(t, d) : IF i < k THEN i \in Slots(s, d) ELSE i + 1 \in Slots(s, d)
        BY <1>0, <2>5 DEF Slots
      <3>2. \A i \in Slots(s, d) : IF i < k THEN i \in Slots(t, d) ELSE i - 1 \in Slots(t, d)
        BY <1>0, <2>1, <2>5, <2>7 DEF Slots
      <3>3. \A i \in Slots(t, d) : i \in Nat
        BY DEF Slots
      <3> QED
        BY <3>1, <3>2, <3>3 DEF Lone
    <2> QED
      BY <2>4, <2>5, <2>6, <2>7
  <1> QED
    BY <1>1, <1>2

-----------------------------------------------------------------------------
(* Every command in one place.                                             *)

Carriers(c) == {w \in Workers : c \in worker[w].cmd /\ worker[w].st # "next"}

InIntake(c) == Slots(commandChan, c) # {}
InHand(c) == c \in dispatcher.cmd
InQueue(c) == Slots(jobQueue, c) # {}
AtWorker(c) == Carriers(c) # {}
InMailbox(c) == Slots(mailbox[AggregateID[c]], c) # {}
Pending(c) == Slots(accepted, c) # {}

\* A command that waits for its answer is in one place, once; any other in none.
OnePlace(c) ==
    /\ Lone(Slots(commandChan, c)) /\ Lone(Slots(jobQueue, c)) /\ Lone(Carriers(c))
    /\ Lone(Slots(mailbox[AggregateID[c]], c)) /\ Lone(Slots(accepted, c))
    /\ InIntake(c) => ~(InHand(c) \/ InQueue(c) \/ AtWorker(c) \/ InMailbox(c))
    /\ InHand(c) => ~(InQueue(c) \/ AtWorker(c) \/ InMailbox(c))
    /\ InQueue(c) => ~(AtWorker(c) \/ InMailbox(c))
    /\ AtWorker(c) => ~InMailbox(c)
    /\ Pending(c) <=> InIntake(c) \/ InHand(c) \/ InQueue(c) \/ AtWorker(c) \/ InMailbox(c)
    /\ caller[c] \in {"idle", "sending"} => ~Pending(c)

Placed == accepted \in Seq(Commands) /\ \A c \in Commands : OnePlace(c)

\* What one kind of place keeps of command c in a step.
SameIntake(c) == /\ InIntake(c)' <=> InIntake(c)
                 /\ Lone(Slots(commandChan, c)) => Lone(Slots(commandChan, c)')
SameHand(c) == InHand(c)' <=> InHand(c)
SameQueue(c) == /\ InQueue(c)' <=> InQueue(c)
                /\ Lone(Slots(jobQueue, c)) => Lone(Slots(jobQueue, c)')
SameWorker(c) == Carriers(c)' = Carriers(c)
SameMailbox(c) == /\ InMailbox(c)' <=> InMailbox(c)
                  /\ Lone(Slots(mailbox[AggregateID[c]], c)) =>
                        Lone(Slots(mailbox[AggregateID[c]], c)')
SamePending(c) == /\ Pending(c)' <=> Pending(c)
                  /\ Lone(Slots(accepted, c)) => Lone(Slots(accepted, c)')

\* A step that leaves command c where it is.
Stays(c) ==
    /\ SameIntake(c) /\ SameHand(c) /\ SameQueue(c) /\ SameWorker(c) /\ SameMailbox(c)
    /\ SamePending(c)
    /\ caller'[c] \in {"idle", "sending"} => caller[c] \in {"idle", "sending"}

\* A command that a step leaves where it is stays in its one place.
LEMMA Staying ==
  ASSUME NEW c \in Commands, OnePlace(c), Stays(c)
  PROVE  OnePlace(c)'
  BY DEF OnePlace, Stays, SameIntake, SameHand, SameQueue, SameWorker, SameMailbox,
         SamePending, AtWorker

\* A place that a step does not touch.
LEMMA Untouched ==
  /\ UNCHANGED commandChan => \A c : SameIntake(c)
  /\ UNCHANGED dispatcher => \A c : SameHand(c)
  /\ UNCHANGED jobQueue => \A c : SameQueue(c)
  /\ UNCHANGED worker => \A c : SameWorker(c)
  /\ UNCHANGED mailbox => \A c : SameMailbox(c)
  /\ UNCHANGED accepted => \A c : SamePending(c)
  BY DEF SameIntake, SameHand, SameQueue, SameWorker, SameMailbox, SamePending,
         InIntake, InHand, InQueue, Carriers, InMailbox, Pending

\* The command that is appended to the intake, and the one taken from it.
LEMMA IntakeAppend ==
  ASSUME TypeOK, NEW c \in Commands, commandChan' = Append(commandChan, c), ~InIntake(c)
  PROVE  /\ \A d : d # c => SameIntake(d)
         /\ InIntake(c)' /\ Lone(Slots(commandChan, c)')
  <1>1. commandChan \in Seq(Commands)
    BY DEF TypeOK
  <1>2. /\ \A d : d # c => Slots(commandChan, d)' = Slots(commandChan, d)
        /\ Slots(commandChan, c)' = {Len(commandChan) + 1}
    BY <1>1, SlotsAppend DEF InIntake
  <1> QED
    BY <1>2 DEF SameIntake, InIntake, Lone

\* The command that is taken from the intake.
LEMMA IntakeTail ==
  ASSUME TypeOK, Placed, commandChan # <<>>, commandChan' = Tail(commandChan),
         NEW c, c = Head(commandChan)
  PROVE  /\ c \in Commands /\ InIntake(c)
         /\ \A d : d # c => SameIntake(d)
         /\ ~InIntake(c)' /\ Lone(Slots(commandChan, c)')
  <1>1. commandChan \in Seq(Commands)
    BY DEF TypeOK
  <1>2. c \in Commands /\ 1 \in Slots(commandChan, c)
    BY <1>1, SlotsTail
  <1>3. Lone(Slots(commandChan, c))
    BY <1>2 DEF Placed, OnePlace
  <1>4. /\ Slots(commandChan, c)' = {}
        /\ \A d : d # c => /\ Slots(commandChan, d)' = {} <=> Slots(commandChan, d) = {}
                           /\ Lone(Slots(commandChan, d)) => Lone(Slots(commandChan, d)')
    BY <1>1, <1>3, TailKeeps
  <1> QED
    BY <1>2, <1>4 DEF SameIntake, InIntake, Lone

\* The same for the hand-off queue.
LEMMA QueueAppend ==
  ASSUME TypeOK, NEW c \in Commands, jobQueue' = Append(jobQueue, c), ~InQueue(c)
  PROVE  /\ \A d : d # c => SameQueue(d)
         /\ InQueue(c)' /\ Lone(Slots(jobQueue, c)')
  <1>1. jobQueue \in Seq(Commands)
    BY DEF TypeOK
  <1>2. /\ \A d : d # c => Slots(jobQueue, d)' = Slots(jobQueue, d)
        /\ Slots(jobQueue, c)' = {Len(jobQueue) + 1}
    BY <1>1, SlotsAppend DEF InQueue
  <1> QED
    BY <1>2 DEF SameQueue, InQueue, Lone

\* The command that is taken from the hand-off queue.
LEMMA QueueTail ==
  ASSUME TypeOK, Placed, jobQueue # <<>>, jobQueue' = Tail(jobQueue), NEW c, c = Head(jobQueue)
  PROVE  /\ c \in Commands /\ InQueue(c)
         /\ \A d : d # c => SameQueue(d)
         /\ ~InQueue(c)' /\ Lone(Slots(jobQueue, c)')
  <1>1. jobQueue \in Seq(Commands)
    BY DEF TypeOK
  <1>2. c \in Commands /\ 1 \in Slots(jobQueue, c)
    BY <1>1, SlotsTail
  <1>3. Lone(Slots(jobQueue, c))
    BY <1>2 DEF Placed, OnePlace
  <1>4. /\ Slots(jobQueue, c)' = {}
        /\ \A d : d # c => /\ Slots(jobQueue, d)' = {} <=> Slots(jobQueue, d) = {}
                           /\ Lone(Slots(jobQueue, d)) => Lone(Slots(jobQueue, d)')
    BY <1>1, <1>3, TailKeeps
  <1> QED
    BY <1>2, <1>4 DEF SameQueue, InQueue, Lone

\* A command is left in the mailbox of its aggregate, and the oldest one taken from it.
LEMMA MailboxAppend ==
  ASSUME TypeOK, NEW c \in Commands, NEW a \in Aggs, AggregateID[c] = a,
         mailbox' = [mailbox EXCEPT ![a] = Append(@, c)], ~InMailbox(c)
  PROVE  /\ \A d \in Commands : d # c => SameMailbox(d)
         /\ InMailbox(c)' /\ Lone(Slots(mailbox[AggregateID[c]], c)')
  <1>1. mailbox[a] \in Seq(Commands) /\ \A b \in Aggs : b # a => mailbox'[b] = mailbox[b]
    BY DEF TypeOK
  <1>2. mailbox'[a] = Append(mailbox[a], c)
    BY DEF TypeOK
  <1>3. /\ \A d : d # c => Slots(mailbox'[a], d) = Slots(mailbox[a], d)
        /\ Slots(mailbox'[a], c) = {Len(mailbox[a]) + 1}
    <2>1. Slots(mailbox[a], c) = {}
      BY DEF InMailbox
    <2>2. PICK q : q = mailbox[a]
      OBVIOUS
    <2>3. q \in Seq(Commands) /\ mailbox'[a] = Append(q, c) /\ Slots(q, c) = {}
      BY <1>1, <1>2, <2>1, <2>2
    <2>4. /\ \A d : d # c => Slots(Append(q, c), d) = Slots(q, d)
          /\ Slots(Append(q, c), c) = {Len(q) + 1}
      BY <2>3, SlotsAppend
    <2> QED
      BY <2>2, <2>3, <2>4
  <1>4. \A d \in Commands : d # c =>
            Slots(mailbox'[AggregateID[d]], d) = Slots(mailbox[AggregateID[d]], d)
    BY <1>1, <1>3, ShardPoolConstants
  <1> QED
    BY <1>3, <1>4 DEF SameMailbox, InMailbox, Lone

\* The command that is taken from a mailbox.
LEMMA MailboxTail ==
  ASSUME TypeOK, Placed, MailboxesAreOwn, NEW a \in Aggs, mailbox[a] # <<>>,
         mailbox' = [mailbox EXCEPT ![a] = Tail(@)], NEW c, c = Head(mailbox[a])
  PROVE  /\ c \in Commands /\ InMailbox(c) /\ AggregateID[c] = a
         /\ \A d \in Commands : d # c => SameMailbox(d)
         /\ ~InMailbox(c)' /\ Lone(Slots(mailbox[AggregateID[c]], c)')
  <1>1. mailbox[a] \in Seq(Commands) /\ \A b \in Aggs : b # a => mailbox'[b] = mailbox[b]
    BY DEF TypeOK
  <1>2. mailbox'[a] = Tail(mailbox[a])
    BY DEF TypeOK
  <1>3. c \in Commands /\ 1 \in Slots(mailbox[a], c) /\ AggregateID[c] = a
    <2>1. c \in Commands /\ 1 \in Slots(mailbox[a], c)
      BY <1>1, SlotsTail
    <2>2. 1 \in DOMAIN mailbox[a] /\ mailbox[a][1] = c
      BY <2>1, <1>1 DEF Slots
    <2> QED
      BY <2>1, <2>2 DEF MailboxesAreOwn
  <1>4. Lone(Slots(mailbox[a], c))
    BY <1>3 DEF Placed, OnePlace
  <1>5. /\ Slots(mailbox'[a], c) = {}
        /\ \A d : d # c => /\ Slots(mailbox'[a], d) = {} <=> Slots(mailbox[a], d) = {}
                           /\ Lone(Slots(mailbox[a], d)) => Lone(Slots(mailbox'[a], d))
    BY <1>1, <1>2, <1>4, TailKeeps
  <1>6. ASSUME NEW d \in Commands, d # c
        PROVE  SameMailbox(d)
    BY <1>1, <1>5, <1>6, ShardPoolConstants DEF SameMailbox, InMailbox
  <1> QED
    BY <1>3, <1>5, <1>6 DEF InMailbox, Lone

\* A worker's step changes what that worker carries.
LEMMA CarriersOf ==
  ASSUME TypeOK, NEW w \in Workers, NEW x, worker' = [worker EXCEPT ![w] = x]
  PROVE  \A d : Carriers(d)' = IF d \in x.cmd /\ x.st # "next" THEN Carriers(d) \cup {w}
                               ELSE Carriers(d) \ {w}
  <1>1. worker'[w] = x /\ \A v \in Workers \ {w} : worker'[v] = worker[v]
    BY DEF TypeOK
  <1> QED
    BY <1>1 DEF Carriers

\* Which commands a worker carries.
LEMMA Carried ==
  ASSUME TypeOK, NEW w \in Workers
  PROVE  /\ worker[w].st \in {"idle", "done", "next"} => \A d : w \notin Carriers(d)
         /\ worker[w].st \in {"claim", "execute", "run"} =>
                Job(w) \in Commands /\ \A d : w \in Carriers(d) <=> d = Job(w)
  <1>1. worker[w] \in WorkerStates
    BY DEF TypeOK
  <1>2. CASE worker[w] \in {At(st) : st \in {"idle", "done"}}
    BY <1>2 DEF At, Carriers
  <1>3. CASE worker[w] \in {Worker(st, c) : st \in BusyStates, c \in Commands}
    <2>1. PICK st \in BusyStates, c \in Commands : worker[w] = Worker(st, c)
      BY <1>3
    <2>2. Job(w) = c /\ worker[w].st = st /\ worker[w].cmd = {c}
      BY <2>1, JobIs DEF Worker
    <2> QED
      BY <2>2 DEF Carriers, BusyStates
  <1> QED
    BY <1>1, <1>2, <1>3 DEF WorkerStates

\* The answer takes the command from those that wait for one.
LEMMA Answered ==
  ASSUME Placed, NEW c \in Commands, NEW r, SendResult(c, r)
  PROVE  /\ \A d : d # c => SamePending(d)
         /\ ~Pending(c)' /\ Lone(Slots(accepted, c)')
         /\ accepted' \in Seq(Commands)
  <1>1. accepted \in Seq(Commands) /\ Lone(Slots(accepted, c))
    BY DEF Placed, OnePlace
  <1>2. accepted' = RemoveFirst(accepted, c)
    BY DEF SendResult
  <1>3. /\ accepted' \in Seq(Commands)
        /\ Slots(accepted', c) = {}
        /\ \A d : d # c => /\ Slots(accepted', d) = {} <=> Slots(accepted, d) = {}
                           /\ Lone(Slots(accepted, d)) => Lone(Slots(accepted', d))
    BY <1>1, <1>2, RemoveOne
  <1> QED
    BY <1>3 DEF SamePending, Pending, Lone

\* A worker takes up a command, or goes on to the next state with the one it has.
LEMMA CarriersJoin ==
  ASSUME TypeOK, NEW w \in Workers, NEW st, st # "next", NEW c,
         worker' = [worker EXCEPT ![w] = Worker(st, c)]
  PROVE  \A d : Carriers(d)' = IF d = c THEN Carriers(d) \cup {w} ELSE Carriers(d) \ {w}
  <1>1. PICK x : x = Worker(st, c)
    OBVIOUS
  <1>2. x.st = st /\ x.cmd = {c}
    BY <1>1 DEF Worker
  <1>3. \A d : Carriers(d)' = IF d \in x.cmd /\ x.st # "next" THEN Carriers(d) \cup {w}
                              ELSE Carriers(d) \ {w}
    BY <1>1, CarriersOf
  <1> QED
    BY <1>2, <1>3

\* A worker that goes on with its command.
LEMMA CarriersKept ==
  ASSUME TypeOK, NEW w \in Workers, NEW st, st # "next",
         worker[w].st \in {"claim", "execute", "run"},
         worker' = [worker EXCEPT ![w] = Worker(st, Job(w))]
  PROVE  \A d : SameWorker(d)
  <1>1. PICK k \in Commands : k = Job(w) /\ \A d : w \in Carriers(d) <=> d = k
    BY Carried
  <1>2. \A d : Carriers(d)' = IF d = k THEN Carriers(d) \cup {w} ELSE Carriers(d) \ {w}
    BY <1>1, CarriersJoin
  <1> QED
    BY <1>1, <1>2 DEF SameWorker

\* A worker that had no pending command and takes none.
LEMMA CarriersNone ==
  ASSUME TypeOK, NEW w \in Workers, NEW st, worker[w].st \in {"idle", "done", "next"},
         worker' = [worker EXCEPT ![w] = At(st)]
  PROVE  \A d : SameWorker(d)
  <1>1. \A d : w \notin Carriers(d)
    BY Carried
  <1>2. PICK x : x = At(st)
    OBVIOUS
  <1>3. x.cmd = {}
    BY <1>2 DEF At
  <1>4. \A d : Carriers(d)' = IF d \in x.cmd /\ x.st # "next" THEN Carriers(d) \cup {w}
                              ELSE Carriers(d) \ {w}
    BY <1>2, CarriersOf
  <1> QED
    BY <1>1, <1>3, <1>4 DEF SameWorker

\* A step after which command c is where OnePlace wants it, and every other one stays.
LEMMA Moving ==
  ASSUME Placed, accepted' \in Seq(Commands), NEW c \in Commands, OnePlace(c)',
         \A d \in Commands : d # c => Stays(d)
  PROVE  Placed'
  BY Staying DEF Placed

\* The callers' steps.
LEMMA CallerPlaced ==
  ASSUME TypeOK, Placed, NEW c \in Commands, BeginSend(c) \/ EndContext(c) \/ CallerStep(c)
  PROVE  Placed'
  <1>1. CASE UNCHANGED <<commandChan, accepted>>
    <2>1. UNCHANGED <<dispatcher, jobQueue, worker, mailbox>>
      BY DEF BeginSend, EndContext, CallerStep, Send, Receive, AwaitHandlers, shard
    <2>2. \A d \in Commands :
            caller'[d] \in {"idle", "sending"} => caller[d] \in {"idle", "sending"}
      BY DEF BeginSend, EndContext, CallerStep, Send, Receive, AwaitHandlers, Return, TypeOK
    <2>3. \A d \in Commands : Stays(d)
      BY <1>1, <2>1, <2>2, Untouched DEF Stays
    <2> QED
      BY <1>1, <2>3, Staying DEF Placed
  <1>2. CASE /\ caller[c] = "sending" /\ caller' = [caller EXCEPT ![c] = "waiting"]
             /\ commandChan' = Append(commandChan, c) /\ accepted' = Append(accepted, c)
             /\ UNCHANGED <<dispatcher, jobQueue, worker, mailbox>>
    <2>1. /\ ~Pending(c) /\ ~InIntake(c) /\ ~InHand(c) /\ ~InQueue(c) /\ ~AtWorker(c)
          /\ ~InMailbox(c)
      BY <1>2 DEF Placed, OnePlace
    <2>2. /\ \A d : d # c => SameIntake(d)
          /\ InIntake(c)' /\ Lone(Slots(commandChan, c)')
      BY <1>2, <2>1, IntakeAppend
    <2>3. /\ \A d : d # c => SamePending(d)
          /\ Pending(c)' /\ Lone(Slots(accepted, c)') /\ accepted' \in Seq(Commands)
      <3>1. accepted \in Seq(Commands)
        BY DEF Placed
      <3>2. /\ \A d : d # c => Slots(accepted', d) = Slots(accepted, d)
            /\ Slots(accepted', c) = {Len(accepted) + 1} /\ accepted' \in Seq(Commands)
        BY <1>2, <2>1, <3>1, SlotsAppend, AppendProperties DEF Pending
      <3> QED
        BY <3>2 DEF SamePending, Pending, Lone
    <2>4. \A d : SameHand(d) /\ SameQueue(d) /\ SameWorker(d) /\ SameMailbox(d)
      BY <1>2, Untouched
    <2>5. caller'[c] = "waiting" /\ \A d \in Commands : d # c => caller'[d] = caller[d]
      BY <1>2 DEF TypeOK
    <2>6. OnePlace(c)'
      BY <2>1, <2>2, <2>3, <2>4, <2>5
      DEF Placed, OnePlace, SameHand, SameQueue, SameWorker, SameMailbox, AtWorker
    <2>7. \A d \in Commands : d # c => Stays(d)
      BY <2>2, <2>3, <2>4, <2>5 DEF Stays
    <2> QED
      BY <2>3, <2>6, <2>7, Moving
  <1> QED
    BY <1>1, <1>2
    DEF BeginSend, EndContext, CallerStep, Send, Receive, AwaitHandlers, shard, history

\* The dispatcher's steps.
LEMMA DispatcherPlaced ==
  ASSUME TypeOK, Placed, DispatcherStep
  PROVE  Placed'
  <1>0. \A st : At(st).cmd = {} /\ At(st).st = st
    BY DEF At
  <1>00. \A c : Holding(c).cmd = {c} /\ Holding(c).st = "hold"
    BY DEF Holding
  <1>1. dispatcher \in DispatcherStates
    BY DEF TypeOK
  <1>2. UNCHANGED <<caller, worker, mailbox>>
    BY DEF DispatcherStep, Dispatch, DispatchJob, Stop, FailQueued, calls
  <1>3. \A d : SameWorker(d) /\ SameMailbox(d)
    BY <1>2, Untouched
  <1>4. dispatcher.st \in {"select", "failing", "closed"} => dispatcher.cmd = {}
    BY <1>0, <1>00, <1>1 DEF DispatcherStates
  <1>5. CASE Dispatch
    <2> DEFINE c == Head(commandChan)
    <2>1. /\ dispatcher.cmd = {} /\ dispatcher'.cmd = {c} /\ commandChan # <<>>
          /\ commandChan' = Tail(commandChan) /\ UNCHANGED <<jobQueue, accepted>>
      BY <1>00, <1>4, <1>5 DEF Dispatch, history
    <2>2. PICK k : k = c
      OBVIOUS
    <2> HIDE DEF c
    <2>3. /\ k \in Commands /\ InIntake(k) /\ \A d : d # k => SameIntake(d)
          /\ ~InIntake(k)' /\ Lone(Slots(commandChan, k)')
      BY <2>1, <2>2, IntakeTail DEF c
    <2>4. \A d : SameQueue(d) /\ SamePending(d)
      BY <2>1, Untouched
    <2>5. ~InHand(k) /\ InHand(k)' /\ \A d : d # k => SameHand(d)
      BY <2>1, <2>2 DEF InHand, SameHand
    <2>6. OnePlace(k)'
      BY <2>3, <2>4, <2>5, <1>2, <1>3
      DEF Placed, OnePlace, SameQueue, SameWorker, SameMailbox, SamePending, AtWorker
    <2>7. \A d \in Commands : d # k => Stays(d)
      BY <2>3, <2>4, <2>5, <1>2, <1>3 DEF Stays
    <2>8. accepted' \in Seq(Commands)
      BY <2>1 DEF Placed
    <2> QED
      BY <2>3, <2>6, <2>7, <2>8, Moving
  <1>6. CASE DispatchJob
    <2>1. PICK k \in Commands : dispatcher = Holding(k)
      BY <1>0, <1>1, <1>6 DEF DispatchJob, DispatcherStates
    <2>2. /\ dispatcher.cmd = {k} /\ dispatcher'.cmd = {}
          /\ jobQueue' = Append(jobQueue, k) /\ UNCHANGED <<commandChan, accepted>>
      BY <2>1, <1>0, <1>00, <1>6 DEF DispatchJob, history
    <2>3. InHand(k) /\ ~InHand(k)' /\ \A d : d # k => SameHand(d)
      BY <2>2 DEF InHand, SameHand
    <2>4. ~InQueue(k)
      BY <2>3 DEF Placed, OnePlace
    <2>5. /\ \A d : d # k => SameQueue(d)
          /\ InQueue(k)' /\ Lone(Slots(jobQueue, k)')
      BY <2>2, <2>4, QueueAppend
    <2>6. \A d : SameIntake(d) /\ SamePending(d)
      BY <2>2, Untouched
    <2>7. OnePlace(k)'
      BY <2>3, <2>5, <2>6, <1>2, <1>3
      DEF Placed, OnePlace, SameIntake, SameWorker, SameMailbox, SamePending, AtWorker
    <2>8. \A d \in Commands : d # k => Stays(d)
      BY <2>3, <2>5, <2>6, <1>2, <1>3 DEF Stays
    <2>9. accepted' \in Seq(Commands)
      BY <2>2 DEF Placed
    <2> QED
      BY <2>7, <2>8, <2>9, Moving
  <1>7. CASE Stop \/ (FailQueued /\ commandChan = <<>>)
    <2>1. dispatcher.cmd = {} /\ dispatcher'.cmd = {}
      BY <1>0, <1>4, <1>7 DEF Stop, FailQueued
    <2>2. UNCHANGED <<commandChan, jobQueue, accepted>>
      BY <1>7 DEF Stop, FailQueued, history
    <2>3. \A d : SameHand(d) /\ SameIntake(d) /\ SameQueue(d) /\ SamePending(d)
      BY <2>1, <2>2, Untouched DEF SameHand, InHand
    <2>4. \A d \in Commands : Stays(d)
      BY <2>3, <1>2, <1>3 DEF Stays
    <2> QED
      BY <2>2, <2>4, Staying DEF Placed
  <1>8. CASE FailQueued /\ commandChan # <<>>
    <2>1. PICK k : k = Head(commandChan)
      OBVIOUS
    <2>2. /\ SendResult(k, "shuttingDown") /\ commandChan' = Tail(commandChan)
          /\ UNCHANGED <<dispatcher, jobQueue>>
      BY <2>1, <1>8 DEF FailQueued
    <2>3. /\ k \in Commands /\ InIntake(k) /\ \A d : d # k => SameIntake(d)
          /\ ~InIntake(k)' /\ Lone(Slots(commandChan, k)')
      BY <2>1, <2>2, <1>8, IntakeTail
    <2>4. /\ \A d : d # k => SamePending(d)
          /\ ~Pending(k)' /\ Lone(Slots(accepted, k)') /\ accepted' \in Seq(Commands)
      BY <2>2, <2>3, Answered
    <2>5. \A d : SameHand(d) /\ SameQueue(d)
      BY <2>2, Untouched
    <2>6. OnePlace(k)'
      BY <2>3, <2>4, <2>5, <1>2, <1>3
      DEF Placed, OnePlace, SameHand, SameQueue, SameWorker, SameMailbox, AtWorker
    <2>7. \A d \in Commands : d # k => Stays(d)
      BY <2>3, <2>4, <2>5, <1>2, <1>3 DEF Stays
    <2> QED
      BY <2>3, <2>4, <2>6, <2>7, Moving
  <1> QED
    BY <1>5, <1>6, <1>7, <1>8 DEF DispatcherStep

\* A worker that answers its command lets go of it.
LEMMA WorkerAnswers ==
  ASSUME TypeOK, Placed, NEW w \in Workers, worker[w].st \in {"claim", "execute", "run"},
         NEW r, SendResult(Job(w), r), NEW x, worker' = [worker EXCEPT ![w] = x],
         x.st = "next" \/ x.cmd = {},
         UNCHANGED <<caller, commandChan, dispatcher, jobQueue, mailbox>>
  PROVE  Placed'
  <1>1. PICK k \in Commands : k = Job(w) /\ \A d : w \in Carriers(d) <=> d = k
    BY Carried
  <1>2. \A d : Carriers(d)' = Carriers(d) \ {w}
    BY CarriersOf
  <1>3. AtWorker(k) /\ ~AtWorker(k)' /\ Lone(Carriers(k)') /\ \A d : d # k => SameWorker(d)
    <2>1. Lone(Carriers(k)) /\ w \in Carriers(k)
      BY <1>1 DEF Placed, OnePlace
    <2>2. Carriers(k)' = {}
      BY <2>1, <1>2 DEF Lone
    <2>3. \A d : d # k => Carriers(d)' = Carriers(d)
      BY <1>1, <1>2
    <2> QED
      BY <2>1, <2>2, <2>3 DEF AtWorker, Lone, SameWorker
  <1>4. /\ \A d : d # k => SamePending(d)
        /\ ~Pending(k)' /\ Lone(Slots(accepted, k)') /\ accepted' \in Seq(Commands)
    BY <1>1, Answered
  <1>5. \A d : SameIntake(d) /\ SameHand(d) /\ SameQueue(d) /\ SameMailbox(d)
    BY Untouched
  <1>6. OnePlace(k)'
    BY <1>3, <1>4, <1>5 DEF Placed, OnePlace, SameIntake, SameHand, SameQueue, SameMailbox
  <1>7. \A d \in Commands : d # k => Stays(d)
    BY <1>3, <1>4, <1>5 DEF Stays
  <1> QED
    BY <1>4, <1>6, <1>7, Moving

\* The workers' steps.
LEMMA WorkerPlaced ==
  ASSUME TypeOK, MailboxesAreOwn, Placed, NEW w \in Workers, WorkerStep(w)
  PROVE  Placed'
  <1>0. /\ \A st : At(st).cmd = {} /\ At(st).st = st
        /\ \A st, c : Worker(st, c).cmd = {c} /\ Worker(st, c).st = st
    BY DEF At, Worker
  <1>1. UNCHANGED <<caller, commandChan, dispatcher>>
    BY DEF WorkerStep, Take, Claim, BeginExecute, Executed, NextJob, calls
  <1>2. \A d : SameIntake(d) /\ SameHand(d)
    BY <1>1, Untouched
  <1>3. CASE Take(w) /\ jobQueue # <<>>
    <2>1. PICK k : k = Head(jobQueue)
      OBVIOUS
    <2>2. /\ worker[w].st = "idle" /\ worker' = [worker EXCEPT ![w] = Worker("claim", k)]
          /\ jobQueue' = Tail(jobQueue) /\ UNCHANGED <<mailbox, accepted>>
      BY <2>1, <1>3 DEF Take, history
    <2>3. /\ k \in Commands /\ InQueue(k) /\ \A d : d # k => SameQueue(d)
          /\ ~InQueue(k)' /\ Lone(Slots(jobQueue, k)')
      BY <2>1, <2>2, <1>3, QueueTail
    <2>4. ~AtWorker(k) /\ AtWorker(k)' /\ Lone(Carriers(k)') /\ \A d : d # k => SameWorker(d)
      <3>1. \A d : w \notin Carriers(d)
        BY <2>2, Carried
      <3>2. \A d : Carriers(d)' = IF d = k THEN Carriers(d) \cup {w} ELSE Carriers(d) \ {w}
        BY <2>2, CarriersJoin
      <3>3. Carriers(k) = {}
        BY <2>3 DEF Placed, OnePlace, AtWorker
      <3> QED
        BY <3>1, <3>2, <3>3 DEF AtWorker, Lone, SameWorker
    <2>5. \A d : SameMailbox(d) /\ SamePending(d)
      BY <2>2, Untouched
    <2>6. OnePlace(k)'
      BY <2>3, <2>4, <2>5, <1>1, <1>2
      DEF Placed, OnePlace, SameIntake, SameHand, SameMailbox, SamePending
    <2>7. \A d \in Commands : d # k => Stays(d)
      BY <2>3, <2>4, <2>5, <1>1, <1>2 DEF Stays
    <2>8. accepted' \in Seq(Commands)
      BY <2>2 DEF Placed
    <2> QED
      BY <2>3, <2>6, <2>7, <2>8, Moving
  <1>4. ASSUME \A d : SameWorker(d), UNCHANGED <<jobQueue, mailbox, accepted>>
        PROVE  Placed'
    <2>1. \A d \in Commands : Stays(d)
      BY <1>1, <1>2, <1>4, Untouched DEF Stays
    <2> QED
      BY <2>1, <1>4, Staying DEF Placed
  <1>5. CASE Take(w) /\ jobQueue = <<>>
    <2>1. \A d : SameWorker(d)
      BY <1>5, CarriersNone DEF Take
    <2> QED
      BY <2>1, <1>4, <1>5 DEF Take, history
  <1>6. CASE Claim(w) /\ AggOf(w) \notin running
    <2>1. /\ worker[w].st = "claim" /\ worker' = [worker EXCEPT ![w] = Worker("execute", Job(w))]
          /\ UNCHANGED <<jobQueue, mailbox, accepted>>
      BY <1>6 DEF Claim
    <2>2. \A d : SameWorker(d)
      BY <2>1, CarriersKept
    <2> QED
      BY <2>1, <2>2, <1>4
  <1>7. CASE Claim(w) /\ AggOf(w) \in running /\ ~IsFull(AggOf(w))
    <2>1. /\ worker[w].st = "claim" /\ worker' = [worker EXCEPT ![w] = At("idle")]
          /\ mailbox' = [mailbox EXCEPT ![AggOf(w)] = Append(@, Job(w))]
          /\ UNCHANGED <<jobQueue, accepted>>
      BY <1>7 DEF Claim
    <2>2. PICK k \in Commands : k = Job(w) /\ \A d : w \in Carriers(d) <=> d = k
      BY <2>1, Carried
    <2>3. AtWorker(k) /\ ~AtWorker(k)' /\ Lone(Carriers(k)') /\ \A d : d # k => SameWorker(d)
      <3>1. \A d : Carriers(d)' = Carriers(d) \ {w}
        BY <2>1, <1>0, CarriersOf
      <3>2. Lone(Carriers(k)) /\ w \in Carriers(k)
        BY <2>2 DEF Placed, OnePlace
      <3>3. Carriers(k)' = {}
        BY <3>1, <3>2 DEF Lone
      <3>4. \A d : d # k => Carriers(d)' = Carriers(d)
        BY <3>1, <2>2
      <3> QED
        BY <3>2, <3>3, <3>4 DEF AtWorker, Lone, SameWorker
    <2>4. AggOf(w) = AggregateID[k] /\ AggregateID[k] \in Aggs
      BY <2>2, ShardPoolConstants DEF AggOf
    <2>5. ~InMailbox(k)
      BY <2>3 DEF Placed, OnePlace
    <2>6. /\ \A d \in Commands : d # k => SameMailbox(d)
          /\ InMailbox(k)' /\ Lone(Slots(mailbox[AggregateID[k]], k)')
      BY <2>1, <2>2, <2>4, <2>5, MailboxAppend
    <2>7. \A d : SameQueue(d) /\ SamePending(d)
      BY <2>1, Untouched
    <2>8. OnePlace(k)'
      BY <2>3, <2>6, <2>7, <1>1, <1>2
      DEF Placed, OnePlace, SameIntake, SameHand, SameQueue, SamePending
    <2>9. \A d \in Commands : d # k => Stays(d)
      BY <2>3, <2>6, <2>7, <1>1, <1>2 DEF Stays
    <2>10. accepted' \in Seq(Commands)
      BY <2>1 DEF Placed
    <2> QED
      BY <2>8, <2>9, <2>10, Moving
  <1>8. CASE Claim(w) /\ AggOf(w) \in running /\ IsFull(AggOf(w))
    <2>1. /\ worker[w].st = "claim" /\ worker' = [worker EXCEPT ![w] = At("idle")]
          /\ SendResult(Job(w), "full") /\ UNCHANGED <<mailbox, jobQueue>>
      BY <1>8 DEF Claim
    <2> QED
      BY <2>1, <1>0, <1>1, WorkerAnswers
  <1>9. CASE (BeginExecute(w) /\ Job(w) \in ended) \/ Executed(w)
    <2>1. /\ worker[w].st \in {"execute", "run"}
          /\ worker' = [worker EXCEPT ![w] = Worker("next", Job(w))]
          /\ UNCHANGED <<mailbox, jobQueue>>
      BY <1>9 DEF BeginExecute, Executed
    <2>2. PICK r \in {"cancelled", "event", "error"} : SendResult(Job(w), r)
      BY <1>9 DEF BeginExecute, Executed
    <2>3. PICK x : x = Worker("next", Job(w))
      OBVIOUS
    <2>4. worker' = [worker EXCEPT ![w] = x] /\ x.st = "next"
      BY <2>1, <2>3 DEF Worker
    <2> QED
      BY <2>1, <2>2, <2>4, <1>0, <1>1, WorkerAnswers
  <1>10. CASE BeginExecute(w) /\ Job(w) \notin ended
    <2>1. /\ worker[w].st = "execute" /\ worker' = [worker EXCEPT ![w] = Worker("run", Job(w))]
          /\ UNCHANGED <<jobQueue, mailbox, accepted>>
      BY <1>10 DEF BeginExecute, history
    <2>2. \A d : SameWorker(d)
      BY <2>1, CarriersKept
    <2> QED
      BY <2>1, <2>2, <1>4
  <1>11. CASE NextJob(w) /\ mailbox[AggOf(w)] = <<>>
    <2>1. /\ worker[w].st = "next" /\ worker' = [worker EXCEPT ![w] = At("idle")]
          /\ UNCHANGED <<jobQueue, mailbox, accepted>>
      BY <1>11 DEF NextJob, history
    <2>2. \A d : SameWorker(d)
      BY <2>1, CarriersNone
    <2> QED
      BY <2>1, <2>2, <1>4
  <1>12. CASE NextJob(w) /\ mailbox[AggOf(w)] # <<>>
    <2>1. PICK k : k = Head(mailbox[AggOf(w)])
      OBVIOUS
    <2>2. PICK a : a = AggOf(w)
      OBVIOUS
    <2>3. /\ worker[w].st = "next" /\ worker' = [worker EXCEPT ![w] = Worker("execute", k)]
          /\ mailbox' = [mailbox EXCEPT ![a] = Tail(@)] /\ UNCHANGED <<jobQueue, accepted>>
      BY <2>1, <2>2, <1>12 DEF NextJob, history
    <2>4. a \in Aggs
      BY <2>2, <2>3, Busy DEF BusyStates
    <2>5. /\ k \in Commands /\ InMailbox(k) /\ \A d \in Commands : d # k => SameMailbox(d)
          /\ ~InMailbox(k)' /\ Lone(Slots(mailbox[AggregateID[k]], k)')
      BY <2>1, <2>2, <2>3, <2>4, <1>12, MailboxTail
    <2>6. ~AtWorker(k) /\ AtWorker(k)' /\ Lone(Carriers(k)') /\ \A d : d # k => SameWorker(d)
      <3>1. \A d : w \notin Carriers(d)
        BY <2>3, Carried
      <3>2. \A d : Carriers(d)' = IF d = k THEN Carriers(d) \cup {w} ELSE Carriers(d) \ {w}
        BY <2>3, CarriersJoin
      <3>3. Carriers(k) = {}
        BY <2>5 DEF Placed, OnePlace, AtWorker
      <3> QED
        BY <3>1, <3>2, <3>3 DEF AtWorker, Lone, SameWorker
    <2>7. \A d : SameQueue(d) /\ SamePending(d)
      BY <2>3, Untouched
    <2>8. OnePlace(k)'
      BY <2>5, <2>6, <2>7, <1>1, <1>2
      DEF Placed, OnePlace, SameIntake, SameHand, SameQueue, SamePending
    <2>9. \A d \in Commands : d # k => Stays(d)
      BY <2>5, <2>6, <2>7, <1>1, <1>2 DEF Stays
    <2>10. accepted' \in Seq(Commands)
      BY <2>3 DEF Placed
    <2> QED
      BY <2>5, <2>8, <2>9, <2>10, Moving
  <1> QED
    BY <1>3, <1>5, <1>6, <1>7, <1>8, <1>9, <1>10, <1>11, <1>12 DEF WorkerStep

\* Every step keeps every command in its one place.
LEMMA NextPlaced == IInv /\ Placed /\ [Next]_vars => Placed'
  <1> SUFFICES ASSUME TypeOK, MailboxesAreOwn, Placed, [Next]_vars
               PROVE  Placed'
    BY DEF IInv
  <1>1. CASE BeginShutdown \/ ShutdownFails \/ ShutdownStep \/ UNCHANGED vars
    <2>1. UNCHANGED <<caller, commandChan, dispatcher, jobQueue, worker, mailbox, accepted>>
      BY <1>1 DEF BeginShutdown, ShutdownFails, ShutdownStep, Drain, DispatchersDone,
                  WorkersDone, vars, calls, shard, history
    <2>2. \A d \in Commands : Stays(d)
      BY <2>1, Untouched DEF Stays
    <2> QED
      BY <2>1, <2>2, Staying DEF Placed
  <1> QED
    BY <1>1, CallerPlaced, DispatcherPlaced, WorkerPlaced DEF Next

-----------------------------------------------------------------------------
(* The order in which an aggregate's commands were claimed.                *)

\* What claim took and nobody has answered: the command of the worker that runs the
\* aggregate, and then the mailbox.
ClaimedInOrder(a) ==
    /\ a \notin running => claimed[a] = <<>>
    /\ \A w \in Runners(a) :
        IF worker[w].st = "next" THEN claimed[a] = mailbox[a]
        ELSE claimed[a] # <<>> /\ Head(claimed[a]) = Job(w) /\ Tail(claimed[a]) = mailbox[a]

Ordered == claimed \in [Aggs -> Seq(Commands)] /\ \A a \in Aggs : ClaimedInOrder(a)

\* The worker that carries a running command is the one that runs its aggregate.
LEMMA RunnerCarries ==
  ASSUME TypeOK, NEW a, NEW v \in Runners(a), worker[v].st # "next"
  PROVE  v \in Workers /\ worker[v].st \in {"execute", "run"} /\ v \in Carriers(Job(v))
  <1>1. v \in Workers /\ worker[v].st \in {"execute", "run"}
    BY DEF Runners
  <1> QED
    BY <1>1, Carried

\* A claimed command is in the mailbox or being run.
LEMMA ClaimedWhere ==
  ASSUME IInv, Ordered, NEW c \in Commands, Slots(claimed[AggregateID[c]], c) # {}
  PROVE  \/ InMailbox(c)
         \/ \E v \in Carriers(c) : worker[v].st \in {"execute", "run"}
  <1>1. PICK a \in Aggs : a = AggregateID[c]
    BY ShardPoolConstants
  <1>2. ClaimedInOrder(a) /\ claimed[a] \in Seq(Commands)
    BY DEF Ordered
  <1>3. PICK i \in 1..Len(claimed[a]) : claimed[a][i] = c
    BY <1>1 DEF Slots
  <1>4. claimed[a] # <<>>
    BY <1>2, <1>3, EmptySeq
  <1>5. PICK v \in Runners(a) : TRUE
    BY <1>2, <1>4 DEF ClaimedInOrder, IInv, OneWorkerPerAggregate
  <1>6. CASE worker[v].st = "next"
    BY <1>1, <1>2, <1>5, <1>6 DEF ClaimedInOrder, InMailbox
  <1>7. CASE worker[v].st # "next"
    <2>1. Head(claimed[a]) = Job(v) /\ Tail(claimed[a]) = mailbox[a]
      BY <1>2, <1>5, <1>7 DEF ClaimedInOrder
    <2>2. v \in Carriers(Job(v)) /\ worker[v].st \in {"execute", "run"}
      BY <1>5, <1>7, RunnerCarries DEF IInv
    <2>3. CASE i = 1
      <3>1. c = Head(claimed[a])
        BY <1>2, <1>3, <1>4, <2>3, EmptySeq
      <3> QED
        BY <2>1, <2>2, <3>1
    <2>4. CASE i # 1
      <3>1. i - 1 \in Slots(Tail(claimed[a]), c)
        <4>1. i \in Slots(claimed[a], c)
          BY <1>3 DEF Slots
        <4> QED
          BY <1>2, <1>4, <2>4, <4>1, <1>3, SlotsTail
      <3> QED
        BY <1>1, <2>1, <3>1 DEF InMailbox
    <2> QED
      BY <2>3, <2>4
  <1> QED
    BY <1>6, <1>7

\* Answering a command that was not claimed leaves the claimed ones alone.
LEMMA AnswerUnclaimed ==
  ASSUME IInv, Placed, Ordered, NEW c \in Commands, NEW r, SendResult(c, r),
         \/ InIntake(c)
         \/ \E w \in Carriers(c) : worker[w].st = "claim"
  PROVE  claimed' = claimed
  <1>1. Slots(claimed[AggregateID[c]], c) = {}
    <2> SUFFICES ASSUME Slots(claimed[AggregateID[c]], c) # {} PROVE FALSE
      OBVIOUS
    <2>1. \/ InMailbox(c)
          \/ \E v \in Carriers(c) : worker[v].st \in {"execute", "run"}
      BY ClaimedWhere
    <2>2. OnePlace(c)
      BY DEF Placed
    <2> QED
      BY <2>1, <2>2 DEF OnePlace, AtWorker, Lone
  <1>2. RemoveFirst(claimed[AggregateID[c]], c) = claimed[AggregateID[c]]
    BY <1>1, RemoveAbsent
  <1>3. claimed \in [Aggs -> Seq(Commands)]
    BY DEF Ordered
  <1> QED
    BY <1>2, <1>3 DEF SendResult

\* Workers other than the one that moves.
LEMMA Others ==
  ASSUME TypeOK, NEW w \in Workers, NEW x, worker' = [worker EXCEPT ![w] = x]
  PROVE  \A v \in Workers : v # w => worker'[v] = worker[v] /\ Job(v)' = Job(v)
  BY DEF TypeOK, Job

\* An aggregate the step is not about.
LEMMA OrderElsewhere ==
  ASSUME TypeOK, NEW w \in Workers, NEW x, worker' = [worker EXCEPT ![w] = x],
         NEW a \in Aggs, ClaimedInOrder(a), w \notin Runners(a), Runners(a)' = Runners(a),
         a \in running => a \in running', UNCHANGED <<mailbox[a], claimed[a]>>
  PROVE  ClaimedInOrder(a)'
  <1>1. \A v \in Runners(a) : v \in Workers /\ v # w
    BY DEF Runners
  <1>2. \A v \in Runners(a) : worker'[v] = worker[v] /\ Job(v)' = Job(v)
    BY <1>1, Others
  <1>3. ASSUME NEW v \in Runners(a)'
        PROVE  IF worker'[v].st = "next" THEN claimed'[a] = mailbox'[a]
               ELSE /\ claimed'[a] # <<>> /\ Head(claimed'[a]) = Job(v)'
                    /\ Tail(claimed'[a]) = mailbox'[a]
    BY <1>2, <1>3 DEF ClaimedInOrder
  <1>4. a \notin running' => claimed'[a] = <<>>
    BY DEF ClaimedInOrder
  <1> QED
    BY <1>3, <1>4 DEF ClaimedInOrder

\* The aggregate of the worker that moves, when that worker runs it afterwards.
LEMMA OrderHere ==
  ASSUME NEW w \in Workers, NEW a \in Aggs, OneWorkerPerAggregate', w \in Runners(a)',
         IF worker'[w].st = "next" THEN claimed'[a] = mailbox'[a]
         ELSE claimed'[a] # <<>> /\ Head(claimed'[a]) = Job(w)' /\ Tail(claimed'[a]) = mailbox'[a]
  PROVE  ClaimedInOrder(a)'
  <1>1. a \in running' /\ \A v \in Runners(a)' : v = w
    BY DEF OneWorkerPerAggregate
  <1> QED
    BY <1>1 DEF ClaimedInOrder

\* A worker that runs no aggregate.
LEMMA Resting ==
  /\ At("idle").st \notin RunStates /\ At("done").st \notin RunStates
  /\ \A c : Worker("claim", c).st \notin RunStates
  BY DEF At, Worker, RunStates

\* A worker that runs an aggregate after its step.
LEMMA JoinAs ==
  ASSUME TypeOK, NEW w \in Workers, NEW x, worker' = [worker EXCEPT ![w] = x],
         x.st \in RunStates
  PROVE  \A a : Runners(a)' = IF AggOf(w)' = a THEN Runners(a) \cup {w} ELSE Runners(a) \ {w}
  <1>1. worker'[w].st \in RunStates
    BY DEF TypeOK
  <1>2. \A v \in Workers \ {w} : worker'[v] = worker[v]
    BY DEF TypeOK
  <1>3. \A v \in Workers \ {w} : AggOf(v)' = AggOf(v)
    BY <1>2 DEF AggOf, Job
  <1> QED
    BY <1>1, <1>2, <1>3 DEF Runners, RunStates

\* claim starts to run an aggregate.
LEMMA NextClaims ==
  ASSUME TypeOK, MailboxesAreOwn, OneWorkerPerAggregate, OneWorkerPerAggregate',
         Ordered, NEW w \in Workers, Claim(w), AggOf(w) \notin running,
         NEW a \in Aggs
  PROVE  claimed' \in [Aggs -> Seq(Commands)] /\ ClaimedInOrder(a)'
  <1>1. Job(w) \in Commands /\ AggOf(w) \in Aggs /\ AggregateID[Job(w)] = AggOf(w)
    BY Busy DEF Claim, BusyStates, AggOf
  <1>2. PICK k \in Commands, b \in Aggs : k = Job(w) /\ b = AggOf(w) /\ AggregateID[k] = b
    BY <1>1
  <1>3. /\ worker' = [worker EXCEPT ![w] = Worker("execute", k)] /\ UNCHANGED mailbox
        /\ running' = running \cup {b} /\ claimed' = [claimed EXCEPT ![b] = Append(@, k)]
        /\ b \notin running /\ worker[w].st = "claim"
    BY <1>2 DEF Claim
  <1>4. claimed \in [Aggs -> Seq(Commands)] /\ ClaimedInOrder(a) /\ ClaimedInOrder(b)
    BY DEF Ordered
  <1>5. claimed' \in [Aggs -> Seq(Commands)]
    BY <1>3, <1>4, AppendProperties
  <1>6. w \notin Runners(a)
    BY <1>3, NotRunner DEF RunStates
  <1>7. Runners(a)' = IF b = a THEN Runners(a) \cup {w} ELSE Runners(a) \ {w}
    <2>0. Worker("execute", k).st \in RunStates /\ Worker("execute", k).cmd = {k}
      BY DEF Worker, RunStates
    <2>1. PICK x : worker' = [worker EXCEPT ![w] = x] /\ x.st \in RunStates /\ x.cmd = {k}
      BY <1>2, <1>3, <2>0
    <2>2. \A d : Runners(d)' = IF AggOf(w)' = d THEN Runners(d) \cup {w} ELSE Runners(d) \ {w}
      BY <2>1, JoinAs
    <2>3. AggOf(w)' = AggregateID[k]
      BY <2>1 DEF AggOf, Job, TypeOK
    <2> QED
      BY <1>2, <1>3, <2>2, <2>3
  <1>8. CASE a # b
    <2>1. Runners(a)' = Runners(a) /\ (a \in running => a \in running')
          /\ UNCHANGED <<mailbox[a], claimed[a]>>
      BY <1>3, <1>4, <1>6, <1>7, <1>8
    <2>2. PICK x : worker' = [worker EXCEPT ![w] = x]
      BY <1>3
    <2> QED
      BY <1>4, <1>5, <1>6, <2>1, <2>2, OrderElsewhere
  <1>9. CASE a = b
    <2>1. claimed[a] = <<>> /\ mailbox[a] = <<>>
      BY <1>3, <1>4, <1>9 DEF ClaimedInOrder, OneWorkerPerAggregate
    <2>2. claimed'[a] = Append(<<>>, k) /\ mailbox'[a] = <<>>
      BY <2>1, <1>3, <1>4, <1>9
    <2>3. claimed'[a] # <<>> /\ Head(claimed'[a]) = k /\ Tail(claimed'[a]) = mailbox'[a]
      BY <2>2
    <2>4. w \in Runners(a)' /\ worker'[w] = Worker("execute", k)
      BY <1>3, <1>7, <1>9 DEF TypeOK
    <2>5. worker'[w].st = "execute" /\ Job(w)' = k
      BY <2>4, JobIsPrimed
    <2> QED
      BY <1>5, <2>3, <2>4, <2>5, OrderHere
  <1> QED
    BY <1>8, <1>9

\* claim leaves the command in the mailbox.
LEMMA NextMails ==
  ASSUME TypeOK, MailboxesAreOwn, OneWorkerPerAggregate, OneWorkerPerAggregate',
         Ordered, NEW w \in Workers, Claim(w), AggOf(w) \in running,
         ~IsFull(AggOf(w)), NEW a \in Aggs
  PROVE  claimed' \in [Aggs -> Seq(Commands)] /\ ClaimedInOrder(a)'
  <1>1. Job(w) \in Commands /\ AggOf(w) \in Aggs /\ AggregateID[Job(w)] = AggOf(w)
    BY Busy DEF Claim, BusyStates, AggOf
  <1>2. PICK k \in Commands, b \in Aggs : k = Job(w) /\ b = AggOf(w) /\ AggregateID[k] = b
    BY <1>1
  <1>3. /\ worker' = [worker EXCEPT ![w] = At("idle")]
        /\ mailbox' = [mailbox EXCEPT ![b] = Append(@, k)]
        /\ claimed' = [claimed EXCEPT ![b] = Append(@, k)]
        /\ b \in running /\ running' = running /\ worker[w].st = "claim"
    BY <1>2 DEF Claim
  <1>4. claimed \in [Aggs -> Seq(Commands)] /\ ClaimedInOrder(a) /\ ClaimedInOrder(b)
    BY DEF Ordered
  <1>5. claimed' \in [Aggs -> Seq(Commands)]
    BY <1>3, <1>4, AppendProperties
  <1>6. w \notin Runners(a)
    BY <1>3, NotRunner DEF RunStates
  <1>7. PICK x : worker' = [worker EXCEPT ![w] = x] /\ x.st \notin RunStates
    BY <1>3, Resting
  <1>8. Runners(a)' = Runners(a)
    <2>1. Runners(a)' = Runners(a) \ {w}
      BY <1>7, RunnersLeave
    <2> QED
      BY <1>6, <2>1
  <1>9. CASE a # b
    <2>1. UNCHANGED <<mailbox[a], claimed[a]>>
      BY <1>3, <1>4, <1>9 DEF TypeOK
    <2> QED
      BY <1>3, <1>4, <1>5, <1>6, <1>7, <1>8, <2>1, OrderElsewhere
  <1>10. CASE a = b
    <2>1. claimed'[a] = Append(claimed[a], k) /\ mailbox'[a] = Append(mailbox[a], k)
      BY <1>3, <1>4, <1>10 DEF TypeOK
    <2>2. claimed[a] \in Seq(Commands)
      BY <1>4
    <2>3. claimed[a] # <<>> => /\ claimed'[a] # <<>> /\ Head(claimed'[a]) = Head(claimed[a])
                               /\ Tail(claimed'[a]) = Append(Tail(claimed[a]), k)
      BY <2>1, <2>2, HeadTailAppend, AppendProperties
    <2>4. ASSUME NEW v \in Runners(a)
          PROVE  IF worker'[v].st = "next" THEN claimed'[a] = mailbox'[a]
                 ELSE /\ claimed'[a] # <<>> /\ Head(claimed'[a]) = Job(v)'
                      /\ Tail(claimed'[a]) = mailbox'[a]
      <3>1. worker'[v] = worker[v] /\ Job(v)' = Job(v)
        <4>1. v \in Workers /\ v # w
          BY <1>6 DEF Runners
        <4> QED
          BY <4>1, <1>7, Others
      <3> QED
        BY <2>1, <2>3, <3>1, <1>4 DEF ClaimedInOrder
    <2>5. a \in running'
      BY <1>3, <1>10
    <2> QED
      BY <1>5, <1>8, <2>4, <2>5 DEF ClaimedInOrder
  <1> QED
    BY <1>9, <1>10

\* The worker answers the command it runs, which is the first of the claimed ones.
LEMMA NextAnswersRun ==
  ASSUME TypeOK, MailboxesAreOwn, OneWorkerPerAggregate, OneWorkerPerAggregate',
         Ordered, NEW w \in Workers, worker[w].st \in {"execute", "run"},
         NEW r, SendResult(Job(w), r), worker' = [worker EXCEPT ![w] = Worker("next", Job(w))],
         UNCHANGED <<running, mailbox>>, NEW a \in Aggs
  PROVE  claimed' \in [Aggs -> Seq(Commands)] /\ ClaimedInOrder(a)'
  <1>1. Job(w) \in Commands /\ AggOf(w) \in Aggs /\ AggregateID[Job(w)] = AggOf(w)
    BY Busy DEF BusyStates, AggOf
  <1>2. PICK k \in Commands, b \in Aggs : k = Job(w) /\ b = AggOf(w) /\ AggregateID[k] = b
    BY <1>1
  <1>3. claimed' = [claimed EXCEPT ![b] = RemoveFirst(@, k)]
    BY <1>2 DEF SendResult
  <1>4. claimed \in [Aggs -> Seq(Commands)] /\ ClaimedInOrder(a) /\ ClaimedInOrder(b)
    BY DEF Ordered
  <1>5. \A d : w \in Runners(d) <=> d = b
    BY <1>2, RunnerOf DEF RunStates
  <1>6. claimed[b] \in Seq(Commands) /\ claimed[b] # <<>> /\ Head(claimed[b]) = k
        /\ Tail(claimed[b]) = mailbox[b]
    BY <1>2, <1>4, <1>5 DEF ClaimedInOrder
  <1>7. RemoveFirst(claimed[b], k) = mailbox[b]
    BY <1>6, RemoveHead
  <1>8. claimed' \in [Aggs -> Seq(Commands)] /\ claimed'[b] = mailbox[b]
        /\ (a # b => claimed'[a] = claimed[a])
    BY <1>3, <1>4, <1>7 DEF TypeOK
  <1>9. Runners(a)' = IF b = a THEN Runners(a) \cup {w} ELSE Runners(a) \ {w}
    <2>0. Worker("next", k).st \in RunStates /\ Worker("next", k).cmd = {k}
      BY DEF Worker, RunStates
    <2>1. PICK x : worker' = [worker EXCEPT ![w] = x] /\ x.st \in RunStates /\ x.cmd = {k}
      BY <1>2, <2>0
    <2>2. \A d : Runners(d)' = IF AggOf(w)' = d THEN Runners(d) \cup {w} ELSE Runners(d) \ {w}
      BY <2>1, JoinAs
    <2>3. worker'[w].cmd = {k}
      BY <2>1 DEF TypeOK
    <2>4. AggOf(w)' = AggregateID[k]
      BY <2>3 DEF AggOf, Job
    <2> QED
      BY <1>2, <2>2, <2>4
  <1>10. CASE a # b
    <2>1. w \notin Runners(a) /\ Runners(a)' = Runners(a) /\ UNCHANGED <<mailbox[a], claimed[a]>>
      BY <1>5, <1>8, <1>9, <1>10
    <2>2. PICK x : worker' = [worker EXCEPT ![w] = x]
      OBVIOUS
    <2> QED
      BY <1>4, <1>8, <2>1, <2>2, OrderElsewhere
  <1>11. CASE a = b
    <2>1. w \in Runners(a)' /\ worker'[w] = Worker("next", k)
      BY <1>2, <1>9, <1>11 DEF TypeOK
    <2>2. worker'[w].st = "next"
      BY <2>1, JobIsPrimed
    <2> QED
      BY <1>8, <1>11, <2>1, <2>2, OrderHere
  <1> QED
    BY <1>10, <1>11

\* The command is handed to the executor.
LEMMA NextRuns ==
  ASSUME TypeOK, MailboxesAreOwn, OneWorkerPerAggregate, OneWorkerPerAggregate',
         Ordered, NEW w \in Workers, BeginExecute(w), Job(w) \notin ended,
         NEW a \in Aggs
  PROVE  claimed' \in [Aggs -> Seq(Commands)] /\ ClaimedInOrder(a)'
  <1>1. /\ worker[w].st = "execute" /\ worker' = [worker EXCEPT ![w] = Worker("run", Job(w))]
        /\ UNCHANGED <<running, mailbox, claimed>>
    BY DEF BeginExecute, history
  <1>2. PICK k \in Commands, b \in Aggs : k = Job(w) /\ b = AggOf(w) /\ AggregateID[k] = b
    BY <1>1, Busy DEF BusyStates, AggOf
  <1>4. claimed \in [Aggs -> Seq(Commands)] /\ ClaimedInOrder(a) /\ ClaimedInOrder(b)
    BY DEF Ordered
  <1>5. \A d : w \in Runners(d) <=> d = b
    BY <1>1, <1>2, RunnerOf DEF RunStates
  <1>9. Runners(a)' = IF b = a THEN Runners(a) \cup {w} ELSE Runners(a) \ {w}
    <2>0. Worker("run", k).st \in RunStates /\ Worker("run", k).cmd = {k}
      BY DEF Worker, RunStates
    <2>1. PICK x : worker' = [worker EXCEPT ![w] = x] /\ x.st \in RunStates /\ x.cmd = {k}
      BY <1>1, <1>2, <2>0
    <2>2. \A d : Runners(d)' = IF AggOf(w)' = d THEN Runners(d) \cup {w} ELSE Runners(d) \ {w}
      BY <2>1, JoinAs
    <2>3. AggOf(w)' = AggregateID[k]
      BY <2>1 DEF AggOf, Job, TypeOK
    <2> QED
      BY <1>1, <1>2, <2>2, <2>3
  <1>10. CASE a # b
    <2>1. w \notin Runners(a) /\ Runners(a)' = Runners(a) /\ UNCHANGED <<mailbox[a], claimed[a]>>
      BY <1>1, <1>5, <1>9, <1>10
    <2>2. PICK x : worker' = [worker EXCEPT ![w] = x]
      BY <1>1
    <2> QED
      BY <1>1, <1>4, <2>1, <2>2, OrderElsewhere
  <1>11. CASE a = b
    <2>1. w \in Runners(a)' /\ worker'[w] = Worker("run", k)
      BY <1>1, <1>2, <1>9, <1>11 DEF TypeOK
    <2>2. worker'[w].st = "run" /\ Job(w)' = k
      BY <2>1, JobIsPrimed
    <2>3. claimed[a] # <<>> /\ Head(claimed[a]) = k /\ Tail(claimed[a]) = mailbox[a]
      BY <1>1, <1>2, <1>4, <1>5, <1>11 DEF ClaimedInOrder
    <2>4. claimed'[a] # <<>> /\ Head(claimed'[a]) = Job(w)' /\ Tail(claimed'[a]) = mailbox'[a]
      BY <1>1, <2>2, <2>3
    <2> QED
      BY <1>1, <1>4, <2>1, <2>2, <2>4, OrderHere
  <1> QED
    BY <1>10, <1>11

\* next takes the oldest command of the mailbox, or releases the aggregate.
LEMMA NextTakes ==
  ASSUME TypeOK, MailboxesAreOwn, OneWorkerPerAggregate, OneWorkerPerAggregate',
         Ordered, NEW w \in Workers, NextJob(w), NEW a \in Aggs
  PROVE  claimed' \in [Aggs -> Seq(Commands)] /\ ClaimedInOrder(a)'
  <1>1. worker[w].st = "next" /\ UNCHANGED claimed
    BY DEF NextJob, history
  <1>2. PICK b \in Aggs : b = AggOf(w)
    BY <1>1, Busy DEF BusyStates
  <1>3. claimed \in [Aggs -> Seq(Commands)] /\ ClaimedInOrder(a) /\ ClaimedInOrder(b)
    BY DEF Ordered
  <1>4. \A d : w \in Runners(d) <=> d = b
    BY <1>1, <1>2, RunnerOf DEF RunStates
  <1>5. claimed[b] = mailbox[b]
    BY <1>1, <1>3, <1>4 DEF ClaimedInOrder
  <1>6. CASE mailbox[b] = <<>>
    <2>1. /\ worker' = [worker EXCEPT ![w] = At("idle")] /\ UNCHANGED mailbox
          /\ running' = running \ {b}
      BY <1>2, <1>6 DEF NextJob
    <2>2. PICK x : worker' = [worker EXCEPT ![w] = x] /\ x.st \notin RunStates
      BY <2>1, Resting
    <2>3. Runners(a)' = Runners(a) \ {w}
      BY <2>2, RunnersLeave
    <2>4. CASE a # b
      <3>1. w \notin Runners(a) /\ Runners(a)' = Runners(a) /\ (a \in running => a \in running')
            /\ UNCHANGED <<mailbox[a], claimed[a]>>
        BY <1>1, <1>4, <2>1, <2>3, <2>4
      <3> QED
        BY <1>1, <1>3, <2>2, <3>1, OrderElsewhere
    <2>5. CASE a = b
      <3>1. a \notin running' /\ Runners(a)' = {}
        BY <2>1, <2>5 DEF OneWorkerPerAggregate
      <3> QED
        BY <1>1, <1>3, <1>5, <1>6, <2>5, <3>1 DEF ClaimedInOrder
    <2> QED
      BY <2>4, <2>5
  <1>7. CASE mailbox[b] # <<>>
    <2>1. PICK k : k = Head(mailbox[b])
      OBVIOUS
    <2>2. /\ worker' = [worker EXCEPT ![w] = Worker("execute", k)] /\ UNCHANGED running
          /\ mailbox' = [mailbox EXCEPT ![b] = Tail(@)]
      BY <1>2, <1>7, <2>1 DEF NextJob
    <2>3. k \in Commands /\ AggregateID[k] = b
      BY <1>7, <2>1 DEF TypeOK, MailboxesAreOwn
    <2>4. Runners(a)' = IF b = a THEN Runners(a) \cup {w} ELSE Runners(a) \ {w}
      <3>0. Worker("execute", k).st \in RunStates /\ Worker("execute", k).cmd = {k}
        BY DEF Worker, RunStates
      <3>1. PICK x : worker' = [worker EXCEPT ![w] = x] /\ x.st \in RunStates /\ x.cmd = {k}
        BY <2>2, <2>3, <3>0
      <3>2. \A d : Runners(d)' = IF AggOf(w)' = d THEN Runners(d) \cup {w} ELSE Runners(d) \ {w}
        BY <3>1, JoinAs
      <3>3. AggOf(w)' = AggregateID[k]
        BY <3>1 DEF AggOf, Job, TypeOK
      <3> QED
        BY <2>2, <2>3, <3>2, <3>3
    <2>5. CASE a # b
      <3>1. w \notin Runners(a) /\ Runners(a)' = Runners(a)
            /\ UNCHANGED <<mailbox[a], claimed[a]>>
        BY <1>1, <1>4, <2>2, <2>4, <2>5 DEF TypeOK
      <3>2. PICK x : worker' = [worker EXCEPT ![w] = x]
        BY <2>2
      <3> QED
        BY <1>1, <1>3, <2>2, <3>1, <3>2, OrderElsewhere
    <2>6. CASE a = b
      <3>1. w \in Runners(a)' /\ worker'[w] = Worker("execute", k)
        BY <2>2, <2>4, <2>6 DEF TypeOK
      <3>2. worker'[w].st = "execute" /\ Job(w)' = k
        BY <3>1, JobIsPrimed
      <3>3. mailbox'[a] = Tail(mailbox[a]) /\ claimed'[a] = mailbox[a]
        BY <1>1, <1>5, <2>2, <2>6 DEF TypeOK
      <3>4. claimed'[a] # <<>> /\ Head(claimed'[a]) = Job(w)' /\ Tail(claimed'[a]) = mailbox'[a]
        BY <1>7, <2>1, <2>6, <3>2, <3>3
      <3> QED
        BY <1>1, <1>3, <3>1, <3>2, <3>4, OrderHere
    <2> QED
      BY <2>5, <2>6
  <1> QED
    BY <1>6, <1>7

\* A worker that does not run an aggregate before or after its step disturbs none.
LEMMA NextIdles ==
  ASSUME TypeOK, Ordered, NEW w \in Workers, worker[w].st \notin RunStates,
         NEW x, worker' = [worker EXCEPT ![w] = x], x.st \notin RunStates,
         UNCHANGED <<running, mailbox, claimed>>, NEW a \in Aggs
  PROVE  claimed' \in [Aggs -> Seq(Commands)] /\ ClaimedInOrder(a)'
  <1>1. claimed \in [Aggs -> Seq(Commands)] /\ ClaimedInOrder(a)
    BY DEF Ordered
  <1>2. w \notin Runners(a)
    BY NotRunner
  <1>3. Runners(a)' = Runners(a)
    <2>1. Runners(a)' = Runners(a) \ {w}
      BY RunnersLeave
    <2> QED
      BY <1>2, <2>1
  <1>4. UNCHANGED <<mailbox[a], claimed[a]>>
    OBVIOUS
  <1> QED
    BY <1>1, <1>2, <1>3, <1>4, OrderElsewhere

\* Every step keeps the order of the claimed commands.
LEMMA NextOrdered ==
  ASSUME IInv, IInv', Placed, Ordered, [Next]_vars
  PROVE  Ordered'
  <1> SUFFICES ASSUME NEW a \in Aggs
               PROVE  claimed' \in [Aggs -> Seq(Commands)] /\ ClaimedInOrder(a)'
    <2>1. claimed' \in [Aggs -> Seq(Commands)]
      <3>1. CASE Aggs = {}
        <4>1. Commands = {}
          BY <3>1, ShardPoolConstants
        <4>2. \A w \in Workers : worker[w].st \notin BusyStates
          BY <4>1, Busy DEF IInv
        <4>3. commandChan = <<>>
          BY <4>1, SlotsTail DEF IInv, TypeOK
        <4>4. UNCHANGED claimed
          BY <4>1, <4>2, <4>3
          DEF Next, WorkerStep, DispatcherStep, ShutdownStep, vars, history, BusyStates,
              Dispatch, DispatchJob, Stop, FailQueued, Take, Claim, BeginExecute, Executed,
              NextJob, BeginShutdown, ShutdownFails, Drain, DispatchersDone, WorkersDone
        <4> QED
          BY <4>4 DEF Ordered
      <3> QED
        BY <3>1
    <2> QED
      BY <2>1 DEF Ordered
  <1>1. CASE UNCHANGED <<worker, running, mailbox, claimed>>
    BY <1>1, RunnersSame DEF Ordered, ClaimedInOrder, Job
  <1>2. CASE DispatcherStep
    <2>1. UNCHANGED <<worker, running, mailbox>>
      BY <1>2 DEF DispatcherStep, Dispatch, DispatchJob, Stop, FailQueued
    <2>2. CASE FailQueued /\ commandChan # <<>>
      <3>1. PICK k : k = Head(commandChan)
        OBVIOUS
      <3>2. SendResult(k, "shuttingDown") /\ commandChan' = Tail(commandChan)
        BY <2>2, <3>1 DEF FailQueued
      <3>3. k \in Commands /\ InIntake(k)
        BY <2>2, <3>1, <3>2, IntakeTail DEF IInv
      <3>4. UNCHANGED claimed
        BY <3>2, <3>3, AnswerUnclaimed
      <3> QED
        BY <1>1, <2>1, <3>4
    <2>3. CASE Dispatch \/ DispatchJob \/ Stop \/ (FailQueued /\ commandChan = <<>>)
      BY <1>1, <2>1, <2>3 DEF Dispatch, DispatchJob, Stop, FailQueued, history
    <2> QED
      BY <1>2, <2>2, <2>3 DEF DispatcherStep
  <1>3. ASSUME NEW w \in Workers, Take(w)
        PROVE  claimed' \in [Aggs -> Seq(Commands)] /\ ClaimedInOrder(a)'
    <2>1. worker[w].st \notin RunStates /\ UNCHANGED <<running, mailbox, claimed>>
      BY <1>3 DEF Take, RunStates, history
    <2>2. PICK x : worker' = [worker EXCEPT ![w] = x] /\ x.st \notin RunStates
      BY <1>3, Resting DEF Take
    <2> QED
      BY <2>1, <2>2, NextIdles DEF IInv
  <1>4. ASSUME NEW w \in Workers, Claim(w)
        PROVE  claimed' \in [Aggs -> Seq(Commands)] /\ ClaimedInOrder(a)'
    <2>1. CASE AggOf(w) \in running /\ IsFull(AggOf(w))
      <3>1. /\ worker[w].st = "claim" /\ SendResult(Job(w), "full")
            /\ worker' = [worker EXCEPT ![w] = At("idle")] /\ UNCHANGED <<running, mailbox>>
        BY <1>4, <2>1 DEF Claim
      <3>2. PICK k \in Commands : k = Job(w) /\ w \in Carriers(k)
        BY <3>1, Carried DEF IInv
      <3>3. UNCHANGED claimed
        BY <3>1, <3>2, AnswerUnclaimed
      <3>4. PICK x : worker' = [worker EXCEPT ![w] = x] /\ x.st \notin RunStates
        BY <3>1, Resting
      <3>5. worker[w].st \notin RunStates
        BY <3>1 DEF RunStates
      <3> QED
        BY <3>1, <3>3, <3>4, <3>5, NextIdles DEF IInv
    <2> QED
      BY <1>4, <2>1, NextClaims, NextMails DEF IInv
  <1>5. ASSUME NEW w \in Workers, BeginExecute(w) \/ Executed(w)
        PROVE  claimed' \in [Aggs -> Seq(Commands)] /\ ClaimedInOrder(a)'
    <2>1. CASE (BeginExecute(w) /\ Job(w) \in ended) \/ Executed(w)
      <3>1. /\ worker[w].st \in {"execute", "run"} /\ UNCHANGED <<running, mailbox>>
            /\ worker' = [worker EXCEPT ![w] = Worker("next", Job(w))]
        BY <2>1 DEF BeginExecute, Executed
      <3>2. PICK r \in {"cancelled", "event", "error"} : SendResult(Job(w), r)
        BY <2>1 DEF BeginExecute, Executed
      <3> QED
        BY <3>1, <3>2, NextAnswersRun DEF IInv
    <2> QED
      BY <1>5, <2>1, NextRuns DEF IInv
  <1>6. ASSUME NEW w \in Workers, NextJob(w)
        PROVE  claimed' \in [Aggs -> Seq(Commands)] /\ ClaimedInOrder(a)'
    BY <1>6, NextTakes DEF IInv
  <1> QED
    BY <1>1, <1>2, <1>3, <1>4, <1>5, <1>6
    DEF Next, CallerStep, WorkerStep, ShutdownStep, vars, shard, history, BeginSend, EndContext,
        Send, Receive, AwaitHandlers, BeginShutdown, ShutdownFails, Drain, DispatchersDone,
        WorkersDone

-----------------------------------------------------------------------------
(* The order of a shutdown.                                                *)

\* What each stage of the shutdown has seen stays so: no send is in flight once the
\* dispatcher is told to stop, the intake is empty once the hand-off queue is closed,
\* and that queue is empty once a worker has left.
Stopping ==
    /\ shutdown = "no" => ~stopped
    /\ stopped => \A c \in Commands : ~InFlight(c)
    /\ shutdown \in {"drain", "workers", "down"} => stopped
    /\ dispatcher.st \in {"failing", "closed"} => stopped
    /\ shutdown \in {"workers", "down"} => dispatcher.st = "closed"
    /\ dispatcher.st = "closed" => commandChan = <<>>
    /\ \A w \in Workers : worker[w].st = "done" => dispatcher.st = "closed" /\ jobQueue = <<>>
    /\ shutdown = "down" => \A w \in Workers : worker[w].st = "done"

\* No shutdown has begun at first.
LEMMA InitStopping == Init => Stopping
  BY DEF Init, Stopping, At

\* Every step keeps the order of the shutdown.
LEMMA NextStopping == TypeOK /\ Stopping /\ [Next]_vars => Stopping'
  <1> SUFFICES ASSUME TypeOK, Stopping, [Next]_vars PROVE Stopping'
    OBVIOUS
  <1>0. /\ \A st : At(st).st = st
        /\ \A c : Holding(c).st = "hold"
        /\ \A st, c : Worker(st, c).st = st
    BY DEF At, Holding, Worker
  <1>1. ASSUME NEW c \in Commands, BeginSend(c) \/ EndContext(c) \/ Receive(c) \/ AwaitHandlers(c)
        PROVE  Stopping'
    <2>1. UNCHANGED <<shard, shutdown>>
      BY <1>1 DEF BeginSend, EndContext, Receive, AwaitHandlers
    <2>2. stopped => \A d \in Commands : ~InFlight(d)'
      BY <1>1 DEF BeginSend, EndContext, Receive, AwaitHandlers, Return, Stopping, InFlight, TypeOK
    <2> QED
      BY <2>1, <2>2 DEF Stopping, shard
  <1>2. ASSUME NEW c \in Commands, Send(c) PROVE Stopping'
    <2>1. ~stopped
      BY <1>2 DEF Send, Stopping, InFlight
    <2> QED
      BY <1>2, <2>1 DEF Send, Stopping
  <1>3. CASE Dispatch \/ DispatchJob
    <2>1. dispatcher.st \in {"select", "hold"} /\ dispatcher'.st \in {"select", "hold"}
      BY <1>0, <1>3 DEF Dispatch, DispatchJob
    <2>2. UNCHANGED <<caller, stopped, shutdown, worker>>
      BY <1>3 DEF Dispatch, DispatchJob, calls
    <2> QED
      BY <2>1, <2>2 DEF Stopping, InFlight
  <1>4. CASE Stop
    <2>1. stopped /\ dispatcher.st = "select" /\ dispatcher'.st = "failing"
      BY <1>0, <1>4 DEF Stop
    <2>2. UNCHANGED <<caller, stopped, shutdown, worker, commandChan, jobQueue>>
      BY <1>4 DEF Stop, calls
    <2> QED
      BY <2>1, <2>2 DEF Stopping, InFlight
  <1>5. CASE FailQueued
    <2>1. dispatcher.st = "failing"
          /\ \/ dispatcher'.st = "failing"
             \/ dispatcher'.st = "closed" /\ commandChan' = <<>>
      BY <1>0, <1>5 DEF FailQueued
    <2>2. UNCHANGED <<caller, stopped, shutdown, worker, jobQueue>>
      BY <1>5 DEF FailQueued
    <2> QED
      BY <2>1, <2>2 DEF Stopping, InFlight
  <1>6. ASSUME NEW w \in Workers, WorkerStep(w) PROVE Stopping'
    <2>1. UNCHANGED <<caller, stopped, shutdown, dispatcher, commandChan>>
      BY <1>6 DEF WorkerStep, Take, Claim, BeginExecute, Executed, NextJob, calls
    <2>2. worker[w].st # "done"
      BY <1>6 DEF WorkerStep, Take, Claim, BeginExecute, Executed, NextJob
    <2>3. \A v \in Workers : v # w => worker'[v] = worker[v]
      BY <1>6 DEF WorkerStep, Take, Claim, BeginExecute, Executed, NextJob, TypeOK
    <2>4. shutdown # "down"
      BY <2>2 DEF Stopping
    <2>5. CASE Take(w)
      <3>1. jobQueue = <<>> => jobQueue' = <<>>
        BY <2>5 DEF Take
      <3>2. worker'[w].st = "done" => dispatcher.st = "closed" /\ jobQueue' = <<>>
        BY <2>5, <1>0 DEF Take, TypeOK
      <3> QED
        BY <2>1, <2>3, <2>4, <3>1, <3>2 DEF Stopping, InFlight
    <2>6. CASE ~Take(w)
      <3>1. UNCHANGED jobQueue
        BY <1>6, <2>6 DEF WorkerStep, Claim, BeginExecute, Executed, NextJob
      <3>2. worker'[w].st # "done"
        BY <1>6, <2>6, <1>0 DEF WorkerStep, Claim, BeginExecute, Executed, NextJob, TypeOK
      <3> QED
        BY <2>1, <2>3, <2>4, <3>1, <3>2 DEF Stopping, InFlight
    <2> QED
      BY <2>5, <2>6
  <1>7. CASE BeginShutdown \/ ShutdownFails
    BY <1>7 DEF BeginShutdown, ShutdownFails, Stopping, InFlight, calls, shard
  <1>8. CASE ShutdownStep
    BY <1>8 DEF ShutdownStep, Drain, DispatchersDone, WorkersDone, Stopping, InFlight, calls, shard
  <1>9. CASE UNCHANGED vars
    BY <1>9 DEF vars, Stopping, InFlight, calls, shard
  <1> QED
    BY <1>1, <1>2, <1>3, <1>4, <1>5, <1>6, <1>7, <1>8, <1>9 DEF Next, CallerStep, DispatcherStep

-----------------------------------------------------------------------------
(* The inductive invariant as a whole.                                     *)

Inv == IInv /\ Placed /\ Ordered /\ Stopping

\* At first there is no command anywhere.
LEMMA InitPlacedOrdered == Init => Placed /\ Ordered
  <1> SUFFICES ASSUME Init PROVE Placed /\ Ordered
    OBVIOUS
  <1>1. \A c : Slots(<<>>, c) = {}
    BY DEF Slots
  <1>2. \A c \in Commands : mailbox[AggregateID[c]] = <<>>
    BY ShardPoolConstants DEF Init
  <1>3. \A c \in Commands : Carriers(c) = {} /\ ~InHand(c)
    BY DEF Init, Carriers, InHand, At
  <1>4. ASSUME NEW c \in Commands PROVE OnePlace(c)
    <2>1. /\ Slots(commandChan, c) = {} /\ Slots(jobQueue, c) = {} /\ Slots(accepted, c) = {}
          /\ Slots(mailbox[AggregateID[c]], c) = {}
      BY <1>1, <1>2 DEF Init
    <2> QED
      BY <1>3, <2>1 DEF OnePlace, InIntake, InQueue, AtWorker, InMailbox, Pending, Lone
  <1>5. accepted \in Seq(Commands) /\ claimed \in [Aggs -> Seq(Commands)]
    BY DEF Init
  <1>6. \A a \in Aggs : Runners(a) = {}
    BY DEF Init, Runners, At
  <1>7. \A a \in Aggs : ClaimedInOrder(a)
    BY <1>6 DEF Init, ClaimedInOrder
  <1> QED
    BY <1>4, <1>5, <1>7 DEF Placed, Ordered

\* The invariant holds in every state of every behaviour.
LEMMA Invariance == Spec => []Inv
  <1>1. Init => Inv
    BY InitIInv, InitPlacedOrdered, InitStopping DEF Inv
  <1>2. Inv /\ [Next]_vars => Inv'
    <2> SUFFICES ASSUME Inv, [Next]_vars PROVE Inv'
      OBVIOUS
    <2>1. IInv'
      BY NextType, NextOwn, NextOneWorker DEF Inv, IInv
    <2>2. Placed'
      BY NextPlaced DEF Inv
    <2>3. Ordered'
      BY <2>1, NextOrdered DEF Inv
    <2>4. Stopping'
      BY NextStopping DEF Inv, IInv
    <2> QED
      BY <2>1, <2>2, <2>3, <2>4 DEF Inv
  <1> QED
    BY <1>1, <1>2, PTL DEF Spec

\* A set that has at most one element.
LEMMA LoneCardinality ==
  ASSUME NEW S, Lone(S)
  PROVE  Cardinality(S) = IF S = {} THEN 0 ELSE 1
  <1>1. CASE S = {}
    BY <1>1, FS_EmptySet
  <1>2. CASE S # {}
    <2>1. PICK x : S = {x}
      BY <1>2 DEF Lone
    <2> QED
      BY <1>2, <2>1, FS_Singleton
  <1> QED
    BY <1>1, <1>2

\* The places of a command are what OnePlace speaks of.
LEMMA PlacesOf ==
  ASSUME TypeOK, NEW c \in Commands, OnePlace(c)
  PROVE  Lone(Places(c)) /\ (Places(c) # {} <=> Pending(c))
  <1>1. /\ DOMAIN commandChan = 1..Len(commandChan) /\ DOMAIN jobQueue = 1..Len(jobQueue)
        /\ DOMAIN mailbox[AggregateID[c]] = 1..Len(mailbox[AggregateID[c]])
    BY ShardPoolConstants, LenProperties DEF TypeOK
  <1> DEFINE P1 == {<<"intake", i>> : i \in Slots(commandChan, c)}
             P2 == {<<"dispatcher", d>> : d \in {x \in dispatcher.cmd : x = c}}
             P3 == {<<"queue", i>> : i \in Slots(jobQueue, c)}
             P4 == {<<"worker", w>> : w \in Carriers(c)}
             P5 == {<<"mailbox", i>> : i \in Slots(mailbox[AggregateID[c]], c)}
  <1>2. Places(c) = P1 \cup P2 \cup P3 \cup P4 \cup P5
    BY <1>1 DEF Places, Slots, Carriers
  <1>3. /\ P1 # {} <=> InIntake(c)
        /\ P2 # {} <=> InHand(c)
        /\ P3 # {} <=> InQueue(c)
        /\ P4 # {} <=> AtWorker(c)
        /\ P5 # {} <=> InMailbox(c)
    BY DEF InIntake, InHand, InQueue, AtWorker, InMailbox
  <1>4. Lone(P1) /\ Lone(P2) /\ Lone(P3) /\ Lone(P4) /\ Lone(P5)
    <2>1. Lone(P1)
      BY DEF OnePlace, Lone
    <2>2. Lone(P2)
      BY DEF Lone
    <2>3. Lone(P3)
      BY DEF OnePlace, Lone
    <2>4. Lone(P4)
      BY DEF OnePlace, Lone
    <2>5. Lone(P5)
      BY DEF OnePlace, Lone
    <2> QED
      BY <2>1, <2>2, <2>3, <2>4, <2>5
  <1> HIDE DEF P1, P2, P3, P4, P5
  <1>5. Places(c) # {} <=> Pending(c)
    BY <1>2, <1>3 DEF OnePlace
  <1>6. /\ P1 # {} => P2 \cup P3 \cup P4 \cup P5 = {}
        /\ P2 # {} => P1 \cup P3 \cup P4 \cup P5 = {}
        /\ P3 # {} => P1 \cup P2 \cup P4 \cup P5 = {}
        /\ P4 # {} => P1 \cup P2 \cup P3 \cup P5 = {}
        /\ P5 # {} => P1 \cup P2 \cup P3 \cup P4 = {}
    BY <1>3 DEF OnePlace
  <1>7. Lone(Places(c))
    BY <1>2, <1>4, <1>6 DEF Lone
  <1> QED
    BY <1>5, <1>7

(***************************************************************************)
(* A command that was accepted is in exactly one of the intake, the        *)
(* dispatcher's hand, the hand-off queue, a worker and a mailbox until it  *)
(* has its one answer, and in none afterwards, for any number of commands  *)
(* and workers and any queue depth.                                        *)
(***************************************************************************)
THEOREM NoneLost == Spec => []NoCommandLost
  <1>1. Inv => NoCommandLost
    <2> SUFFICES ASSUME Inv, NEW c \in Commands
                 PROVE  Cardinality(Places(c)) = IF Contains(accepted, c) THEN 1 ELSE 0
      BY DEF NoCommandLost
    <2>1. Lone(Places(c)) /\ (Places(c) # {} <=> Pending(c))
      BY PlacesOf DEF Inv, IInv, Placed
    <2>2. Contains(accepted, c) <=> Pending(c)
      BY DEF Contains, Pending, Slots, Inv, Placed
    <2>3. Cardinality(Places(c)) = IF Places(c) = {} THEN 0 ELSE 1
      BY <2>1, LoneCardinality
    <2> QED
      BY <2>1, <2>2, <2>3
  <1> QED
    BY Invariance, <1>1, PTL

(***************************************************************************)
(* The command an aggregate's worker executes is the first of those that   *)
(* claim took and nobody has answered, for any number of commands and      *)
(* workers and any queue depth.                                            *)
(***************************************************************************)
THEOREM ClaimOrder == Spec => []RunInClaimOrder
  <1>1. Inv => RunInClaimOrder
    BY DEF Inv, Ordered, ClaimedInOrder, RunInClaimOrder, Runs
  <1> QED
    BY Invariance, <1>1, PTL

(***************************************************************************)
(* A completed Shutdown has left no command in a queue or a mailbox and no *)
(* caller in flight, for any number of commands and workers, any queue     *)
(* depth and any number of calls of Shutdown that failed before.           *)
(***************************************************************************)
THEOREM CleanShutdown == Spec => []ShutdownLeavesNothing
  <1>1. Inv => ShutdownLeavesNothing
    <2> SUFFICES ASSUME Inv, shutdown = "down"
                 PROVE  /\ commandChan = <<>> /\ jobQueue = <<>> /\ running = {}
                        /\ \A a \in Aggs : mailbox[a] = <<>>
                        /\ \A c \in Commands : ~InFlight(c)
      BY DEF ShutdownLeavesNothing
    <2>1. \A w \in Workers : worker[w].st = "done" /\ jobQueue = <<>>
      BY DEF Inv, Stopping
    <2>2. jobQueue = <<>>
      BY <2>1, ShardPoolConstants
    <2>3. \A a \in Aggs : Runners(a) = {}
      BY <2>1 DEF Runners
    <2>4. running = {} /\ \A a \in Aggs : mailbox[a] = <<>>
      BY <2>3 DEF Inv, IInv, TypeOK, OneWorkerPerAggregate
    <2>5. commandChan = <<>> /\ \A c \in Commands : ~InFlight(c)
      BY DEF Inv, Stopping
    <2> QED
      BY <2>2, <2>4, <2>5
  <1> QED
    BY Invariance, <1>1, PTL

=============================================================================
