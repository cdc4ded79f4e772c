--------------------------- MODULE DeliveryProofs ---------------------------
(***************************************************************************)
(* Proofs about Delivery, for any aggregates, subscribers, Resume calls,   *)
(* attempts, batch size and bounds: parks and generations (IInv), and the  *)
(* shape of the state.  To IInv, Shape adds what worker, queue, store,     *)
(* Forget and Resume may hold (WorkersOK, QueuesOK, StoreOK, ExecOK,       *)
(* ScansOK), and who reads a queue that has a job (Attended).  Most lemmas *)
(* say what an operation does to one aggregate, as relations between its   *)
(* old and its new state, so that the steps that use the operation need    *)
(* not look into it again.                                                 *)
(***************************************************************************)
EXTENDS Delivery, SequenceTheorems, WellFoundedInduction, TLAPS

-----------------------------------------------------------------------------
(* The record of an aggregate.  What its queue holds does not matter here. *)

IsRecord(r) ==
    r = [exists |-> r.exists, jobs |-> r.jobs, worker |-> r.worker, wake |-> r.wake,
         shut |-> r.shut, parked |-> r.parked, gen |-> r.gen, undelivered |-> r.undelivered]

\* A record whose halt channel is open unless it is parked.
RecordOK(r) ==
    /\ IsRecord(r)
    /\ r.parked \in BOOLEAN /\ r.shut \in BOOLEAN /\ r.gen \in Nat
    /\ ~r.parked => ~r.shut

\* s has the park of r, if r has one.
SamePark(r, s) == s.parked = r.parked /\ (r.parked => s.gen = r.gen)

LEMMA AbsentOK == RecordOK(Absent) /\ ~Absent.parked
  BY DEF Absent, RecordOK, IsRecord

LEMMA DiscardIfEmptyOK ==
  ASSUME NEW r, RecordOK(r)
  PROVE  RecordOK(DiscardIfEmpty(r)) /\ SamePark(r, DiscardIfEmpty(r))
  BY AbsentOK DEF DiscardIfEmpty, SamePark, RecordOK

LEMMA EnsureWorkerOK ==
  ASSUME NEW r, RecordOK(r)
  PROVE  RecordOK(EnsureWorker(RecordOf(r))) /\ SamePark(r, EnsureWorker(RecordOf(r)))
  BY DEF EnsureWorker, RecordOf, RecordOK, IsRecord, SamePark

LEMMA EnqueuedOK ==
  ASSUME NEW r, NEW j, RecordOK(r)
  PROVE  RecordOK(Enqueued(r, j)) /\ SamePark(r, Enqueued(r, j))
  <1>1. CASE Refuses(r, j)
    BY <1>1 DEF Enqueued, RecordOK, IsRecord, SamePark
  <1>2. CASE ~Refuses(r, j)
    <2>1. PICK s : s = EnsureWorker(RecordOf(r))
      OBVIOUS
    <2>2. RecordOK(s) /\ SamePark(r, s)
      BY <2>1, EnsureWorkerOK
    <2>3. Enqueued(r, j) = [s EXCEPT !.jobs = Append(@, j), !.wake = TRUE]
      BY <1>2, <2>1 DEF Enqueued
    <2> QED
      BY <2>2, <2>3 DEF RecordOK, IsRecord, SamePark
  <1> QED
    BY <1>1, <1>2

LEMMA RetiredOK ==
  ASSUME NEW r, RecordOK(r)
  PROVE  RecordOK(Retired(r)) /\ SamePark(r, Retired(r))
  <1>1. PICK s : s = [r EXCEPT !.worker = FALSE]
    OBVIOUS
  <1>2. RecordOK(s) /\ SamePark(r, s)
    BY <1>1 DEF RecordOK, IsRecord, SamePark
  <1> QED
    BY <1>1, <1>2, DiscardIfEmptyOK DEF Retired, SamePark

LEMMA ParkedOK ==
  ASSUME NEW r, NEW g \in Nat, NEW versions, RecordOK(r)
  PROVE  /\ RecordOK(Parked(r, g, versions))
         /\ Parked(r, g, versions).parked
         /\ Parked(r, g, versions).gen = IF r.parked THEN r.gen ELSE g
  BY DEF Parked, RecordOK, IsRecord

LEMMA LiftedOK ==
  ASSUME NEW r, RecordOK(r)
  PROVE  RecordOK(Lifted(r)) /\ ~Lifted(r).parked
  <1>1. PICK s :
            s = [r EXCEPT !.parked = FALSE, !.gen = 0, !.undelivered = {}, !.shut = FALSE]
    OBVIOUS
  <1>2. RecordOK(s) /\ ~s.parked
    BY <1>1 DEF RecordOK, IsRecord
  <1> QED
    BY <1>1, <1>2, DiscardIfEmptyOK DEF Lifted, SamePark

-----------------------------------------------------------------------------
(* The inductive invariant: the registry's records are in order, and no    *)
(* generation is ahead of the counter, neither in the registry nor in what *)
(* a Resume has listed.                                                    *)

IsResumer(x) ==
    /\ x = [st |-> x.st, parks |-> x.parks, limit |-> x.limit, scanned |-> x.scanned,
            todo |-> x.todo, undelivered |-> x.undelivered, rest |-> x.rest]
    /\ x.parks \in [Aggs -> Nat]

RegistryOK ==
    /\ reg = [a \in Aggs |-> reg[a]]
    /\ \A a \in Aggs : RecordOK(reg[a])
    /\ generation \in Nat

ResumersOK ==
    /\ resumer = [r \in Resumers |-> resumer[r]]
    /\ \A r \in Resumers : IsResumer(resumer[r])

IInv == RegistryOK /\ ResumersOK /\ GenerationsAreUnique

LEMMA NoResumerOK == IsResumer(NoResumer) /\ \A a \in Aggs : NoResumer.parks[a] = 0
  BY DEF IsResumer, NoResumer

LEMMA InitIInv == Init => IInv
  <1> SUFFICES ASSUME Init PROVE IInv
    OBVIOUS
  <1>1. RegistryOK
    BY AbsentOK DEF Init, RegistryOK
  <1>2. ResumersOK
    BY NoResumerOK DEF Init, ResumersOK
  <1>3. GenerationsAreUnique
    BY AbsentOK, NoResumerOK DEF Init, GenerationsAreUnique
  <1> QED
    BY <1>1, <1>2, <1>3 DEF IInv

-----------------------------------------------------------------------------
(* How a step may change the record of aggregate a.                        *)

Only(a) == /\ reg' = [b \in Aggs |-> reg'[b]]
           /\ \A b \in Aggs \ {a} : reg'[b] = reg[b]

\* The park of a stays as it is.
Keeps(a) == Only(a) /\ RecordOK(reg'[a]) /\ SamePark(reg[a], reg'[a]) /\ UNCHANGED generation

\* a is not parked afterwards.
Frees(a) == /\ Only(a) /\ RecordOK(reg'[a]) /\ ~reg'[a].parked
            /\ generation' \in Nat /\ generation <= generation'

\* a is parked under a new generation.
Imposes(a) == /\ Only(a) /\ RecordOK(reg'[a]) /\ reg'[a].parked
              /\ generation' = generation + 1 /\ reg'[a].gen = generation'

\* What the calls of Resume have listed stays, or is forgotten.
ListsKept ==
    /\ resumer' = [r \in Resumers |-> resumer'[r]]
    /\ \A r \in Resumers :
        /\ IsResumer(resumer'[r])
        /\ \A b \in Aggs : resumer'[r].parks[b] \in {resumer[r].parks[b], 0}

LEMMA StepIInv ==
  ASSUME IInv, ListsKept, NEW a \in Aggs, Keeps(a) \/ Frees(a) \/ Imposes(a)
  PROVE  IInv'
  <1>1. RegistryOK'
    BY DEF IInv, RegistryOK, Keeps, Frees, Imposes, Only
  <1>2. ResumersOK'
    BY DEF ListsKept, ResumersOK
  <1>3. generation \in Nat /\ generation' \in Nat /\ generation <= generation'
    BY DEF IInv, RegistryOK, Keeps, Frees, Imposes
  <1>4. \A r \in Resumers, b \in Aggs : resumer'[r].parks[b] <= generation'
    <2> TAKE r \in Resumers, b \in Aggs
    <2>1. resumer[r].parks[b] \in Nat /\ resumer[r].parks[b] <= generation
      BY DEF IInv, ResumersOK, IsResumer, GenerationsAreUnique
    <2> QED
      BY <1>3, <2>1 DEF ListsKept
  <1>5. \A b \in Aggs : reg[b].gen \in Nat /\ (reg[b].parked => reg[b].gen \in 1..generation)
    BY DEF IInv, RegistryOK, RecordOK, GenerationsAreUnique
  <1>6. \A b \in Aggs : reg'[b].parked => reg'[b].gen \in 1..generation'
    BY <1>3, <1>5 DEF Keeps, Frees, Imposes, Only, SamePark
  <1>7. ASSUME NEW b \in Aggs, NEW c \in Aggs, reg'[b].parked, reg'[c].parked,
               reg'[b].gen = reg'[c].gen
        PROVE  b = c
    BY <1>3, <1>5, <1>7 DEF Keeps, Frees, Imposes, Only, SamePark, IInv, GenerationsAreUnique
  <1> QED
    BY <1>1, <1>2, <1>4, <1>6, <1>7 DEF IInv, GenerationsAreUnique

LEMMA EnqueueKeeps ==
  ASSUME IInv, NEW a \in Aggs, NEW j, Enqueue(a, j)
  PROVE  Keeps(a)
  BY EnqueuedOK DEF Enqueue, Keeps, Only, IInv, RegistryOK

LEMMA ParkImposes ==
  ASSUME IInv, NEW a \in Aggs, NEW versions, Park(a, versions)
  PROVE  Keeps(a) \/ Imposes(a)
  <1>1. generation + 1 \in Nat /\ RecordOK(reg[a])
    BY DEF IInv, RegistryOK
  <1>2. PICK s : s = Parked(reg[a], generation + 1, versions)
    OBVIOUS
  <1>3. RecordOK(s) /\ s.parked /\ s.gen = IF reg[a].parked THEN reg[a].gen ELSE generation + 1
    BY <1>1, <1>2, ParkedOK
  <1>4. Only(a) /\ reg'[a] = s
    BY <1>2 DEF Park, Only, IInv, RegistryOK
  <1>5. generation' = IF reg[a].parked THEN generation ELSE generation + 1
    BY DEF Park
  <1>6. reg[a].parked \in BOOLEAN
    BY <1>1 DEF RecordOK
  <1> QED
    BY <1>3, <1>4, <1>5, <1>6 DEF Keeps, Imposes, SamePark

LEMMA LiftFrees ==
  ASSUME IInv, NEW a \in Aggs, Lift(a)
  PROVE  Frees(a)
  BY LiftedOK DEF Lift, Frees, Only, IInv, RegistryOK

LEMMA SupersedeFrees ==
  ASSUME IInv, NEW a \in Aggs, Supersede(a)
  PROVE  Frees(a)
  <1>1. generation + 1 \in Nat /\ generation \in Nat /\ RecordOK(reg[a])
    BY DEF IInv, RegistryOK
  <1>2. PICK s : s = Parked(reg[a], generation + 1, {})
    OBVIOUS
  <1>3. RecordOK(s)
    BY <1>1, <1>2, ParkedOK
  <1>4. Only(a) /\ reg'[a] = Lifted(s)
    BY <1>2 DEF Supersede, Only, IInv, RegistryOK
  <1>5. generation' = IF reg[a].parked THEN generation ELSE generation + 1
    BY DEF Supersede
  <1> QED
    BY <1>1, <1>3, <1>4, <1>5, LiftedOK DEF Frees

-----------------------------------------------------------------------------
(* The calls of Resume.                                                    *)

LEMMA ListsSame ==
  ASSUME IInv, UNCHANGED resumer
  PROVE  ListsKept
  BY DEF IInv, ResumersOK, ListsKept

LEMMA ListsUpdated ==
  ASSUME IInv, NEW r \in Resumers, NEW x, resumer' = [resumer EXCEPT ![r] = x],
         IsResumer(x), \A b \in Aggs : x.parks[b] \in {resumer[r].parks[b], 0}
  PROVE  ListsKept
  <1>1. resumer'[r] = x /\ \A q \in Resumers \ {r} : resumer'[q] = resumer[q]
    BY DEF IInv, ResumersOK
  <1>2. \A q \in Resumers : IsResumer(resumer[q])
    BY DEF IInv, ResumersOK
  <1>3. resumer' = [q \in Resumers |-> resumer'[q]]
    BY DEF IInv, ResumersOK
  <1> QED
    BY <1>1, <1>2, <1>3 DEF ListsKept

LEMMA NextAggregateKeeps ==
  ASSUME IInv, NEW r \in Resumers, NEW a, NextAggregate(r, a)
  PROVE  ListsKept
  <1>1. PICK y : y = [resumer[r] EXCEPT !.st = "lift", !.todo = @ \ {a}, !.undelivered = {},
                                        !.rest = {}]
    OBVIOUS
  <1>2. IsResumer(resumer[r])
    BY DEF IInv, ResumersOK
  <1>3. IsResumer(y) /\ y.parks = resumer[r].parks
    BY <1>1, <1>2 DEF IsResumer
  <1>4. \/ resumer' = [resumer EXCEPT ![r] = NoResumer]
        \/ resumer' = [resumer EXCEPT ![r] = y]
    BY <1>1 DEF NextAggregate
  <1> QED
    BY <1>3, <1>4, NoResumerOK, ListsUpdated

\* A scan reads, and changes nothing but the call that makes it.
LEMMA ScanReads ==
  ASSUME NEW r \in Resumers, Scan(r)
  PROVE  /\ resumer[r].st = "scan"
         /\ UNCHANGED <<store, exec, registry, worker, ticket, process, budget, history>>
  BY Zenon DEF Scan

LEMMA ScanKeeps ==
  ASSUME IInv, NEW r \in Resumers, Scan(r)
  PROVE  ListsKept
  <1> DEFINE prefix == SubSeq(VisibleLog, 1, Min({resumer[r].limit, Len(VisibleLog)}))
             S == {d \in ToSet(prefix) : d[1] \in Listed(r)}
             done == Len(prefix) < resumer[r].limit
  <1>1. PICK x : x = [resumer[r] EXCEPT !.scanned = @ \cup S,
                                        !.limit = IF done THEN 0 ELSE 2 * @,
                                        !.todo = IF done THEN Listed(r) ELSE {},
                                        !.st = IF done THEN "lift" ELSE "scan"]
    OBVIOUS
  <1>2. resumer' = [resumer EXCEPT ![r] = x]
    <2> HIDE DEF S, prefix
    <2>1. resumer' = [resumer EXCEPT
            ![r].scanned = @ \cup S,
            ![r].limit = IF Len(prefix) < @ THEN 0 ELSE 2 * @,
            ![r].todo = IF Len(prefix) < resumer[r].limit THEN Listed(r) ELSE {},
            ![r].st = IF Len(prefix) < resumer[r].limit THEN "lift" ELSE "scan"]
      BY DEF Scan, S, prefix
    <2> QED
      BY <1>1, <2>1 DEF IInv, ResumersOK
  <1>3. IsResumer(resumer[r])
    BY DEF IInv, ResumersOK
  <1>4. IsResumer(x) /\ x.parks = resumer[r].parks
    <2> HIDE DEF S, prefix, done
    <2> QED
      BY <1>1, <1>3 DEF IsResumer
  <1> QED
    BY <1>2, <1>4, ListsUpdated

\* ListParks reads the generations of the registry, all of which are counted.
LEMMA ListParksIInv ==
  ASSUME IInv, NEW r \in Resumers, ListParks(r)
  PROVE  IInv'
  <1>1. \A a \in Aggs : Parks[a] \in Nat /\ Parks[a] <= generation
    BY DEF IInv, RegistryOK, RecordOK, GenerationsAreUnique, Parks
  <1>2. PICK x : x = [NoResumer EXCEPT !.st = "scan", !.parks = Parks, !.limit = Batch]
    OBVIOUS
  <1>3. IsResumer(x) /\ x.parks = Parks
    BY <1>1, <1>2, NoResumerOK DEF IsResumer, Parks
  <1>4. resumer' = [resumer EXCEPT ![r] = x] /\ UNCHANGED <<reg, generation>>
    BY <1>2 DEF ListParks, registry
  <1>5. resumer'[r] = x /\ \A q \in Resumers \ {r} : resumer'[q] = resumer[q]
    BY <1>4 DEF IInv, ResumersOK
  <1>6. ResumersOK'
    BY <1>3, <1>4, <1>5 DEF IInv, ResumersOK
  <1>7. \A q \in Resumers, a \in Aggs : resumer'[q].parks[a] <= generation
    BY <1>1, <1>3, <1>5 DEF IInv, GenerationsAreUnique
  <1>8. RegistryOK'
    BY <1>4 DEF IInv, RegistryOK
  <1> QED
    BY <1>4, <1>6, <1>7, <1>8 DEF IInv, GenerationsAreUnique

LEMMA SameKeeps ==
  ASSUME IInv, NEW a \in Aggs, UNCHANGED registry
  PROVE  Keeps(a)
  BY DEF IInv, RegistryOK, registry, Keeps, Only, SamePark

LEMMA UnchangedIInv ==
  ASSUME IInv, UNCHANGED <<registry, resumer>>
  PROVE  IInv'
  BY DEF IInv, RegistryOK, ResumersOK, GenerationsAreUnique, registry

LEMMA ResumeIInv ==
  ASSUME IInv, NEW r \in Resumers, ResumeStep(r)
  PROVE  IInv'
  <1>1. CASE ListParks(r)
    BY <1>1, ListParksIInv
  <1>2. ASSUME UNCHANGED registry, ListsKept PROVE IInv'
    <2>1. CASE Aggs = {}
      BY <1>2, <2>1 DEF IInv, RegistryOK, ResumersOK, ListsKept, GenerationsAreUnique, registry
    <2>2. CASE Aggs # {}
      BY <1>2, <2>2, SameKeeps, StepIInv
    <2> QED
      BY <2>1, <2>2
  <1>3. CASE Scan(r)
    BY <1>2, <1>3, ScanKeeps, ScanReads
  <1>4. CASE AbandonResume(r)
    <2>1. ListsKept
      BY <1>4, NoResumerOK, ListsUpdated DEF AbandonResume
    <2> QED
      BY <1>2, <1>4, <2>1 DEF AbandonResume
  <1>5. ASSUME NEW a \in Aggs, LiftPark(r, a) PROVE IInv'
    <2>1. CASE ~IsPark(reg[a], resumer[r].parks[a])
      BY <1>2, <1>5, <2>1, NextAggregateKeeps DEF LiftPark
    <2>2. CASE IsPark(reg[a], resumer[r].parks[a])
      <3> DEFINE found == {v \in Versions : <<a, v>> \in resumer[r].scanned}
      <3>1. PICK x : x = [resumer[r] EXCEPT !.st = "redeliver", !.undelivered = reg[a].undelivered,
                                            !.rest = found \cup reg[a].undelivered]
        OBVIOUS
      <3> HIDE DEF found
      <3>2. resumer' = [resumer EXCEPT ![r].st = "redeliver",
                                       ![r].undelivered = reg[a].undelivered,
                                       ![r].rest = found \cup reg[a].undelivered]
        BY <1>5, <2>2 DEF LiftPark, found
      <3>3. resumer' = [resumer EXCEPT ![r] = x]
        BY <3>1, <3>2 DEF IInv, ResumersOK
      <3>4. IsResumer(resumer[r])
        BY DEF IInv, ResumersOK
      <3>5. IsResumer(x) /\ x.parks = resumer[r].parks
        BY <3>1, <3>4 DEF IsResumer
      <3>6. ListsKept
        BY <3>3, <3>5, ListsUpdated
      <3>7. Frees(a)
        BY <1>5, <2>2, LiftFrees DEF LiftPark
      <3> QED
        BY <3>6, <3>7, StepIInv
    <2> QED
      BY <2>1, <2>2
  <1>6. ASSUME NEW a \in Aggs, Redeliver(r, a) PROVE IInv'
    <2>1. PICK v : /\ Enqueue(a, Job(v, stream[a][v], FALSE))
                   /\ resumer' = [resumer EXCEPT ![r].rest = @ \ {v}]
      BY <1>6 DEF Redeliver
    <2>2. PICK x : x = [resumer[r] EXCEPT !.rest = @ \ {v}]
      OBVIOUS
    <2>3. resumer' = [resumer EXCEPT ![r] = x]
      BY <2>1, <2>2 DEF IInv, ResumersOK
    <2>4. IsResumer(resumer[r])
      BY DEF IInv, ResumersOK
    <2>5. IsResumer(x) /\ x.parks = resumer[r].parks
      BY <2>2, <2>4 DEF IsResumer
    <2>6. ListsKept
      BY <2>3, <2>5, ListsUpdated
    <2> QED
      BY <2>1, <2>6, EnqueueKeeps, StepIInv
  <1>7. ASSUME NEW a \in Aggs, Redelivered(r, a) PROVE IInv'
    BY <1>2, <1>7, NextAggregateKeeps DEF Redelivered
  <1>8. ASSUME NEW a \in Aggs, RedeliverFails(r, a) PROVE IInv'
    BY <1>8, NextAggregateKeeps, ParkImposes, StepIInv DEF RedeliverFails
  <1> QED
    BY <1>1, <1>3, <1>4, <1>5, <1>6, <1>7, <1>8 DEF ResumeStep

LEMMA WorkerIInv ==
  ASSUME IInv, NEW a \in Aggs, WorkerStep(a)
  PROVE  IInv'
  <1>0. RecordOK(reg[a]) /\ reg = [b \in Aggs |-> reg[b]]
    BY DEF IInv, RegistryOK
  <1>1. UNCHANGED resumer
    BY DEF WorkerStep, Pop, Drained, Woken, Retire, Stopped, BeginDelivery, Deliver, Wait, GiveUp,
           DeadLetter, Attempt, ParkIfCurrent, Ack, Finish
  <1>2. CASE UNCHANGED registry
    BY <1>1, <1>2, UnchangedIInv
  <1>3. CASE Pop(a)
    <2>1. PICK s : s = [reg[a] EXCEPT !.jobs = Tail(@)]
      OBVIOUS
    <2>2. RecordOK(s) /\ SamePark(reg[a], s)
      BY <1>0, <2>1 DEF RecordOK, IsRecord, SamePark
    <2>3. Keeps(a)
      BY <1>0, <1>3, <2>1, <2>2 DEF Pop, Popped, Keeps, Only
    <2> QED
      BY <1>1, <2>3, ListsSame, StepIInv
  <1>4. CASE Woken(a)
    <2>1. PICK s : s = [reg[a] EXCEPT !.wake = FALSE]
      OBVIOUS
    <2>2. RecordOK(s) /\ SamePark(reg[a], s)
      BY <1>0, <2>1 DEF RecordOK, IsRecord, SamePark
    <2>3. Keeps(a)
      BY <1>0, <1>4, <2>1, <2>2 DEF Woken, Keeps, Only
    <2> QED
      BY <1>1, <2>3, ListsSame, StepIInv
  <1>5. CASE Retire(a) /\ ~UNCHANGED registry
    <2>1. Keeps(a)
      BY <1>0, <1>5, RetiredOK DEF Retire, Keeps, Only, registry
    <2> QED
      BY <1>1, <2>1, ListsSame, StepIInv
  <1>6. CASE BeginDelivery(a) /\ ~UNCHANGED registry
    <2>1. PICK s : s = [reg[a] EXCEPT !.undelivered = @ \cup {worker[a].job.ver}]
      OBVIOUS
    <2>2. RecordOK(s) /\ SamePark(reg[a], s)
      BY <1>0, <2>1 DEF RecordOK, IsRecord, SamePark
    <2>3. /\ reg' = [reg EXCEPT ![a].undelivered = @ \cup {worker[a].job.ver}]
          /\ UNCHANGED generation
      BY <1>6 DEF BeginDelivery, registry
    <2>4. Keeps(a)
      BY <1>0, <2>1, <2>2, <2>3 DEF Keeps, Only
    <2> QED
      BY <1>1, <2>4, ListsSame, StepIInv
  <1>7. CASE ParkIfCurrent(a) /\ ~UNCHANGED registry
    <2>1. Park(a, {})
      BY <1>7 DEF ParkIfCurrent
    <2> QED
      BY <1>1, <2>1, ParkImposes, ListsSame, StepIInv
  <1> QED
    BY <1>2, <1>3, <1>4, <1>5, <1>6, <1>7
    DEF WorkerStep, Drained, Stopped, Deliver, Wait, GiveUp, DeadLetter, Attempt, Ack, Finish

LEMMA CrashIInv ==
  ASSUME IInv, Crash
  PROVE  IInv'
  <1>1. RegistryOK'
    BY AbsentOK DEF Crash, RegistryOK
  <1>2. ResumersOK'
    BY NoResumerOK DEF Crash, ResumersOK
  <1>3. GenerationsAreUnique'
    BY AbsentOK, NoResumerOK DEF Crash, GenerationsAreUnique
  <1> QED
    BY <1>1, <1>2, <1>3 DEF IInv

LEMMA NextIInv == IInv /\ [Next]_vars => IInv'
  <1> SUFFICES ASSUME IInv, [Next]_vars PROVE IInv'
    OBVIOUS
  <1>1. ASSUME NEW a \in Aggs, EnqueueCommitted(a) PROVE IInv'
    <2>1. Keeps(a) /\ UNCHANGED resumer
      BY <1>1, EnqueueKeeps DEF EnqueueCommitted
    <2> QED
      BY <2>1, ListsSame, StepIInv
  <1>2. ASSUME NEW a \in Aggs, ForgetStep(a) PROVE IInv'
    <2>1. CASE ForgetSupersedes(a)
      BY <2>1, SupersedeFrees, ListsSame, StepIInv DEF ForgetSupersedes
    <2>2. CASE EnqueueTombstone(a)
      BY <2>2, EnqueueKeeps, ListsSame, StepIInv DEF EnqueueTombstone
    <2>3. CASE ForgetParks(a)
      BY <2>3, ParkImposes, ListsSame, StepIInv DEF ForgetParks
    <2>4. CASE AwaitTombstone(a) \/ Erase(a) \/ ForgetClears(a)
      BY <2>4, UnchangedIInv DEF AwaitTombstone, Erase, ForgetClears
    <2>5. CASE WriteTombstone(a) \/ TombstoneFails(a)
      BY <2>5, UnchangedIInv DEF WriteTombstone, TombstoneFails
    <2> QED
      BY <1>2, <2>1, <2>2, <2>3, <2>4, <2>5 DEF ForgetStep
  <1>3. ASSUME NEW a \in Aggs, Recover(a) PROVE IInv'
    <2>1. Keeps(a) /\ UNCHANGED resumer
      BY <1>3, EnqueueKeeps DEF Recover
    <2> QED
      BY <2>1, ListsSame, StepIInv
  <1>4. ASSUME NEW a \in Aggs, RecoverFails(a) PROVE IInv'
    BY <1>4, ParkImposes, ListsSame, StepIInv DEF RecoverFails
  <1>5. ASSUME NEW a \in Aggs, Commit(a, "live") \/ Commit(a, "durable") \/ BeginTombstone(a)
        PROVE  IInv'
    BY <1>5, UnchangedIInv DEF Commit, BeginTombstone
  <1>6. CASE Recovered \/ Interrupt \/ CloseDispatcher
    BY <1>6, UnchangedIInv DEF Recovered, Interrupt, CloseDispatcher
  <1>7. CASE UNCHANGED vars
    BY <1>7, UnchangedIInv DEF vars
  <1> QED
    BY <1>1, <1>2, <1>3, <1>4, <1>5, <1>6, <1>7, WorkerIInv, ResumeIInv, CrashIInv
    DEF Next, Progress

-----------------------------------------------------------------------------
LEMMA InvarianceOfIInv == Spec => []IInv
  BY InitIInv, NextIInv, PTL DEF Spec

(***************************************************************************)
(* No reachable step of the dispatcher closes a closed halt channel: a     *)
(* record that is not parked has an open one, for any number of            *)
(* aggregates, Resume calls, Forgets and crashes.                          *)
(***************************************************************************)
THEOREM HaltsAreOpen == Spec => []HaltOpenUnlessParked
  <1>1. IInv => HaltOpenUnlessParked
    BY DEF IInv, RegistryOK, RecordOK, HaltOpenUnlessParked
  <1> QED
    BY InvarianceOfIInv, <1>1, PTL

(***************************************************************************)
(* A generation names one park, and no Resume has listed one the counter   *)
(* has yet to give, for any number of aggregates, Resume calls, Forgets    *)
(* and crashes.                                                            *)
(***************************************************************************)
THEOREM GenerationsNameParks == Spec => []GenerationsAreUnique
  <1>1. IInv => GenerationsAreUnique
    BY DEF IInv
  <1> QED
    BY InvarianceOfIInv, <1>1, PTL

-----------------------------------------------------------------------------
(* Keep is a recursive function.  That it exists, and what it returns,     *)
(* follows from there being no least length at which it fails.             *)

Below == {p \in Nat \X Nat : p[1] < p[2]}

LEMMA LeastNumber ==
  ASSUME NEW T \in SUBSET Nat, T # {}
  PROVE  \E n \in T : \A m \in T : n <= m
  <1>1. IsWellFoundedOn(Below, Nat)
    BY NatLessThanWellFounded, Zenon DEF OpToRel, Below
  <1>2. PICK n \in T : \A m \in T : ~(<<m, n>> \in Below)
    BY <1>1, WFMin
  <1>3. \A m \in T : m \in Nat /\ n \in Nat /\ ~(m < n)
    BY <1>2 DEF Below
  <1> QED
    BY <1>3

\* f is what Keep's recursive function is, up to m.
Keeping(f, s, T, m) ==
    f = [n \in 0..m |-> IF n = 0 THEN <<>>
                        ELSE IF s[n] \in T THEN Append(f[n - 1], s[n]) ELSE f[n - 1]]

LEMMA KeepingExists ==
  ASSUME NEW s, NEW T, NEW k \in Nat
  PROVE  \E f : Keeping(f, s, T, k)
  <1> DEFINE B == {m \in Nat : ~\E f : Keeping(f, s, T, m)}
  <1> SUFFICES ASSUME B # {} PROVE FALSE
    OBVIOUS
  <1>1. PICK m \in B : \A j \in B : m <= j
    BY LeastNumber
  <1>2. CASE m = 0
    <2>1. Keeping([n \in 0..0 |-> <<>>], s, T, 0)
      BY DEF Keeping
    <2> QED
      BY <1>2, <2>1
  <1>3. CASE m # 0
    <2>1. m - 1 \in Nat /\ m - 1 \notin B
      BY <1>1, <1>3
    <2>2. PICK f : Keeping(f, s, T, m - 1)
      BY <2>1
    <2> DEFINE g == [n \in 0..m |-> IF n = m
                                    THEN IF s[n] \in T THEN Append(f[n - 1], s[n]) ELSE f[n - 1]
                                    ELSE f[n]]
    <2>3. \A n \in 0..(m - 1) :
            f[n] = IF n = 0 THEN <<>> ELSE IF s[n] \in T THEN Append(f[n - 1], s[n]) ELSE f[n - 1]
      BY <2>2 DEF Keeping
    <2>4. \A n \in 0..m :
            g[n] = IF n = 0 THEN <<>> ELSE IF s[n] \in T THEN Append(g[n - 1], s[n]) ELSE g[n - 1]
      BY <2>1, <2>3, <1>3
    <2>5. Keeping(g, s, T, m)
      BY <2>4 DEF Keeping
    <2> QED
      BY <2>5
  <1> QED
    BY <1>2, <1>3

LEMMA ToSetEmpty ==
  /\ ToSet(<<>>) = {}
  /\ \A S : \A s \in Seq(S) : ToSet(s) = {} => s = <<>>
  <1>1. ToSet(<<>>) = {}
    BY DEF ToSet
  <1>2. ASSUME NEW S, NEW s \in Seq(S), s # <<>> PROVE ToSet(s) # {}
    <2>1. Len(s) \in Nat /\ Len(s) # 0 /\ DOMAIN s = 1..Len(s)
      BY <1>2, EmptySeq, LenProperties
    <2>2. s[1] \in ToSet(s)
      BY <2>1 DEF ToSet
    <2> QED
      BY <2>2
  <1> QED
    BY <1>1, <1>2

LEMMA ToSetAppend ==
  ASSUME NEW S, NEW s \in Seq(S), NEW x \in S
  PROVE  Append(s, x) \in Seq(S) /\ ToSet(Append(s, x)) = ToSet(s) \cup {x}
  <1>1. /\ Append(s, x) \in Seq(S) /\ DOMAIN Append(s, x) = 1..(Len(s) + 1)
        /\ \A i \in 1..Len(s) : Append(s, x)[i] = s[i]
        /\ Append(s, x)[Len(s) + 1] = x
        /\ DOMAIN s = 1..Len(s) /\ Len(s) \in Nat
    BY AppendProperties, LenProperties
  <1> QED
    BY <1>1 DEF ToSet

(***************************************************************************)
(* Keep returns a sequence of the elements that pass, and of no others.    *)
(***************************************************************************)
LEMMA KeepProperties ==
  ASSUME NEW S, NEW s \in Seq(S), NEW T
  PROVE  Keep(s, T) \in Seq(S) /\ ToSet(Keep(s, T)) = ToSet(s) \cap T
  <1>0. Len(s) \in Nat /\ DOMAIN s = 1..Len(s) /\ \A i \in 1..Len(s) : s[i] \in S
    BY LenProperties, ElementOfSeq
  <1> DEFINE f == CHOOSE g : Keeping(g, s, T, Len(s))
  <1>1. Keep(s, T) = f[Len(s)]
    BY DEF Keep, Keeping
  <1>2. Keeping(f, s, T, Len(s))
    BY <1>0, KeepingExists
  <1> HIDE DEF f
  <1>3. \A n \in 0..Len(s) :
          f[n] = IF n = 0 THEN <<>> ELSE IF s[n] \in T THEN Append(f[n - 1], s[n]) ELSE f[n - 1]
    BY <1>2 DEF Keeping
  <1> DEFINE Good(n) == f[n] \in Seq(S) /\ ToSet(f[n]) = {s[i] : i \in {i \in 1..n : s[i] \in T}}
             B == {n \in 0..Len(s) : ~Good(n)}
  <1>4. ASSUME B # {} PROVE FALSE
    <2>0. B \in SUBSET Nat
      BY <1>0
    <2>1. PICK n \in B : \A m \in B : n <= m
      <3> HIDE DEF B
      <3> QED
        BY <2>0, <1>4, LeastNumber
    <2>2. CASE n = 0
      <3>1. f[n] = <<>>
        BY <1>0, <1>3, <2>2
      <3>2. <<>> \in Seq(S) /\ ToSet(<<>>) = {}
        BY DEF ToSet
      <3>3. {s[i] : i \in {i \in 1..n : s[i] \in T}} = {}
        BY <2>2
      <3> QED
        BY <2>1, <3>1, <3>2, <3>3
    <2>3. CASE n # 0
      <3>1. n - 1 \in 0..Len(s) /\ n \in 1..Len(s) /\ ~(n <= n - 1)
        BY <1>0, <2>1, <2>3
      <3>2. Good(n - 1)
        BY <2>1, <3>1
      <3>3. s[n] \in S
        BY <1>0, <3>1
      <3>4. 1..n = (1..(n - 1)) \cup {n}
        BY <1>0, <3>1
      <3>5. CASE s[n] \in T
        <4>1. f[n] = Append(f[n - 1], s[n])
          BY <1>3, <2>3, <3>1, <3>5
        <4>2. f[n] \in Seq(S) /\ ToSet(f[n]) = ToSet(f[n - 1]) \cup {s[n]}
          BY <3>2, <3>3, <4>1, ToSetAppend
        <4>3. {s[i] : i \in {i \in 1..n : s[i] \in T}}
              = {s[i] : i \in {i \in 1..(n - 1) : s[i] \in T}} \cup {s[n]}
          BY <3>4, <3>5
        <4> QED
          BY <2>1, <3>2, <4>2, <4>3
      <3>6. CASE s[n] \notin T
        <4>1. f[n] = f[n - 1]
          BY <1>3, <2>3, <3>1, <3>6
        <4>2. {s[i] : i \in {i \in 1..n : s[i] \in T}}
              = {s[i] : i \in {i \in 1..(n - 1) : s[i] \in T}}
          BY <3>4, <3>6
        <4> QED
          BY <2>1, <3>2, <4>1, <4>2
      <3> QED
        BY <3>5, <3>6
    <2> QED
      BY <2>2, <2>3
  <1>5. Good(Len(s))
    <2>1. Len(s) \in 0..Len(s)
      BY <1>0
    <2>2. B = {}
      <3> HIDE DEF B
      <3> QED
        BY <1>4
    <2> HIDE DEF Good
    <2> QED
      BY <2>1, <2>2
  <1>6. {s[i] : i \in {i \in 1..Len(s) : s[i] \in T}} = ToSet(s) \cap T
    BY <1>0 DEF ToSet
  <1> QED
    BY <1>1, <1>5, <1>6

-----------------------------------------------------------------------------
(* The shape of the state.                                                 *)

Stages == {"none", "drain", "await", "held", "deliver", "attempt", "wait", "giveUp", "letter",
           "park", "ack", "finish"}

\* Past `held' the worker is in the durable deliverer, with a job that has an Ack.
Delivering == {"deliver", "attempt", "wait", "giveUp", "letter", "park", "ack"}

Carrying == Delivering \cup {"held", "finish"}

IsWorker(w) ==
    /\ w = [st |-> w.st, job |-> w.job, halt |-> w.halt, attempt |-> w.attempt,
            pending |-> w.pending, ok |-> w.ok, last |-> w.last]
    /\ w.st \in Stages
    /\ w.job \in Jobs \cup {NoJob}
    /\ w.halt \in {"none", "same", "open", "shut"}
    /\ w.attempt \in 0..MaxAttempts
    /\ w.pending \subseteq Subs
    /\ w.ok \in BOOLEAN /\ w.last \in BOOLEAN
    /\ w.halt # "none" <=> w.st \in Carrying
    /\ w.st \in Carrying => w.job \in Jobs
    /\ w.st \in Delivering => IsAcked(w.job)
    /\ w.st = "wait" => w.attempt < MaxAttempts

WorkersOK ==
    /\ worker = [a \in Aggs |-> worker[a]]
    /\ \A a \in Aggs : IsWorker(worker[a])

QueueOK(r) ==
    /\ r.jobs \in Seq(Jobs)
    /\ r.undelivered \subseteq Versions
    /\ r.worker \in BOOLEAN /\ r.wake \in BOOLEAN

QueuesOK == \A a \in Aggs : QueueOK(reg[a])

StoreOK ==
    /\ stream \in [Aggs -> Seq(Kinds)]
    /\ \A a \in Aggs : Len(stream[a]) <= MaxVersion
    /\ log \in Seq(Aggs \X Versions)
    /\ \A a \in Aggs, v \in Versions : <<a, v>> \in ToSet(log) => v <= Len(stream[a])
    /\ backlog \in [Aggs -> SUBSET Versions]
    /\ \A a \in Aggs : \A v \in backlog[a] : v <= Len(stream[a])

ForgetStages == {"none", "committed", "superseded", "waiting", "erase", "failed", "parked"}

ExecOK ==
    /\ lock \in [Aggs -> {"free", "command", "tombstone", "forget"} \cup Resumers]
    /\ forget \in [Aggs -> [st : ForgetStages, ver : 0..MaxVersion]]
    /\ up \in BOOLEAN /\ closed \in BOOLEAN
    /\ closed \/ quit => up
    /\ \A a \in Aggs :
        /\ lock[a] = "command" => stream[a] # <<>>
        /\ lock[a] = "tombstone" => up /\ stream[a] # <<>> /\ Len(stream[a]) < MaxVersion
        /\ forget[a].st # "none" => forget[a].ver \in Versions
        /\ closed => lock[a] \notin {"command", "tombstone"} /\ forget[a].st = "none"
        /\ up => backlog[a] = {}
        /\ ~up => forget[a].st = "none"

ScansOK ==
    \A r \in Resumers :
        /\ resumer[r].undelivered \subseteq Versions
        /\ resumer[r].rest \subseteq Versions
        /\ resumer[r].limit \in Nat

\* Who serves the queue of an aggregate.
AttendedAt(a) ==
    /\ worker[a].st # "none" => reg[a].worker
    /\ ~closed /\ reg[a].worker => worker[a].st # "none"
    /\ worker[a].last => closed
    /\ reg[a].jobs # <<>> => worker[a].st # "none"
    /\ reg[a].jobs # <<>> /\ worker[a].st = "await" => reg[a].wake

Attended == \A a \in Aggs : AttendedAt(a)

Shape == IInv /\ WorkersOK /\ QueuesOK /\ StoreOK /\ ExecOK /\ ScansOK /\ Attended

LEMMA IdleWorkerOK ==
  ASSUME NEW w, NEW s \in {"none", "drain"}, NEW l \in BOOLEAN,
         w = [st |-> s, job |-> NoJob, halt |-> "none", attempt |-> 0, pending |-> {},
              ok |-> FALSE, last |-> l]
  PROVE  IsWorker(w) /\ w.st = s /\ (w.last => l) /\ w.halt = "none"
  <1>1. /\ w.st = s /\ w.job = NoJob /\ w.halt = "none" /\ w.attempt = 0 /\ w.pending = {}
        /\ w.ok = FALSE /\ w.last = l
    OBVIOUS
  <1>2. 0 \in 0..MaxAttempts
    BY DeliveryConstants
  <1>3. s \in Stages /\ s \notin Carrying /\ s \notin Delivering /\ s # "wait"
    BY DEF Stages, Carrying, Delivering
  <1> QED
    BY <1>1, <1>2, <1>3 DEF IsWorker

LEMMA NoWorkerOK ==
  IsWorker(NoWorker) /\ NoWorker.st = "none" /\ NoWorker.last = FALSE /\ NoWorker.halt = "none"
  BY IdleWorkerOK DEF NoWorker

LEMMA SpawnedOK ==
  ASSUME NEW w, w = [NoWorker EXCEPT !.st = "drain"]
  PROVE  IsWorker(w) /\ w.st = "drain" /\ w.last = FALSE /\ w.halt = "none"
  <1>1. w = [st |-> "drain", job |-> NoJob, halt |-> "none", attempt |-> 0, pending |-> {},
             ok |-> FALSE, last |-> FALSE]
    BY DEF NoWorker
  <1>2. IsWorker(w)
    BY <1>1, IdleWorkerOK
  <1> QED
    BY <1>1, <1>2

LEMMA AbsentShape ==
  /\ QueueOK(Absent) /\ Absent.jobs = <<>> /\ Absent.worker = FALSE /\ Absent.parked = FALSE
  /\ Absent.undelivered = {} /\ Absent.shut = FALSE
  BY DEF QueueOK, Absent

LEMMA InitShape == Init => Shape
  <1> SUFFICES ASSUME Init PROVE Shape
    OBVIOUS
  <1>1. IInv
    BY InitIInv
  <1>2. WorkersOK
    BY NoWorkerOK DEF Init, WorkersOK
  <1>3. QueuesOK
    BY AbsentShape DEF Init, QueuesOK
  <1>4. StoreOK
    <2>1. MaxVersion \in Nat
      BY DeliveryConstants
    <2>2. <<>> \in Seq(Kinds) /\ Len(<<>>) = 0 /\ <<>> \in Seq(Aggs \X Versions) /\ ToSet(<<>>) = {}
      BY DEF ToSet
    <2> QED
      BY <2>1, <2>2 DEF Init, StoreOK
  <1>5. ExecOK
    <2>1. NoForget \in [st : ForgetStages, ver : 0..MaxVersion] /\ NoForget.st = "none"
      BY DeliveryConstants DEF NoForget, ForgetStages
    <2> QED
      BY <2>1 DEF Init, ExecOK
  <1>6. ScansOK
    BY DEF Init, ScansOK, NoResumer
  <1>7. Attended
    BY AbsentShape, NoWorkerOK DEF Init, Attended, AttendedAt
  <1> QED
    BY <1>1, <1>2, <1>3, <1>4, <1>5, <1>6, <1>7 DEF Shape

-----------------------------------------------------------------------------
(* What the registry's operations do to the record of a and to its worker. *)

\* The record of a and the worker of a change, and no other.
Local(a) ==
    /\ Only(a)
    /\ worker' = [b \in Aggs |-> worker'[b]]
    /\ \A b \in Aggs \ {a} : worker'[b] = worker[b]

SameWorker(a) == worker'[a] = worker[a]

\* The queue of a stays, and so does what reads it.
SameQueue(a) ==
    /\ reg'[a].jobs = reg[a].jobs
    /\ reg'[a].worker = reg[a].worker
    /\ reg[a].jobs # <<>> => reg'[a].wake = reg[a].wake
    /\ reg'[a].wake \in BOOLEAN

\* A parked aggregate records version v instead of queueing it.
Recorded(a, v) ==
    /\ reg[a].parked /\ reg'[a].parked /\ reg'[a].gen = reg[a].gen
    /\ reg'[a].shut = reg[a].shut
    /\ reg'[a].undelivered = reg[a].undelivered \cup {v}
    /\ SameQueue(a) /\ SameWorker(a)

Queued(a, j) ==
    /\ SamePark(reg[a], reg'[a])
    /\ reg'[a].undelivered = reg[a].undelivered
    /\ reg'[a].jobs = Append(reg[a].jobs, j)
    /\ reg'[a].worker = TRUE /\ reg'[a].wake = TRUE
    /\ reg[a].worker => reg'[a].shut = reg[a].shut /\ SameWorker(a)
    /\ ~reg[a].worker => /\ IsWorker(worker'[a]) /\ worker'[a].st = "drain"
                         /\ worker'[a].last = FALSE /\ worker'[a].halt = "none"

LEMMA EnqueueEffect ==
  ASSUME Shape, NEW a \in Aggs, NEW j \in Jobs, Enqueue(a, j)
  PROVE  /\ Local(a)
         /\ \/ Refuses(reg[a], j) /\ Recorded(a, j.ver)
            \/ ~Refuses(reg[a], j) /\ Queued(a, j)
  <1>0. /\ RecordOK(reg[a]) /\ reg = [b \in Aggs |-> reg[b]]
        /\ worker = [b \in Aggs |-> worker[b]] /\ QueueOK(reg[a])
    BY DEF Shape, IInv, RegistryOK, WorkersOK, QueuesOK
  <1>1. PICK s : s = Enqueued(reg[a], j)
    OBVIOUS
  <1>2. Only(a) /\ reg'[a] = s
    BY <1>0, <1>1 DEF Enqueue, Only
  <1>3. CASE Refuses(reg[a], j)
    <2>1. s = [reg[a] EXCEPT !.undelivered = @ \cup {j.ver}]
      BY <1>1, <1>3 DEF Enqueued
    <2>2. /\ s.jobs = reg[a].jobs /\ s.worker = reg[a].worker /\ s.wake = reg[a].wake
          /\ s.parked = reg[a].parked /\ s.gen = reg[a].gen /\ s.shut = reg[a].shut
          /\ s.undelivered = reg[a].undelivered \cup {j.ver}
      BY <1>0, <2>1 DEF RecordOK, IsRecord
    <2>3. UNCHANGED worker /\ reg[a].parked
      BY <1>3 DEF Enqueue, Spawns, Refuses
    <2>4. Local(a)
      BY <1>0, <1>2, <2>3 DEF Local
    <2>5. Recorded(a, j.ver)
      BY <1>0, <1>2, <2>2, <2>3 DEF Recorded, SameQueue, SameWorker, QueueOK
    <2> QED
      BY <1>3, <2>4, <2>5
  <1>4. CASE ~Refuses(reg[a], j)
    <2>1. PICK e : e = EnsureWorker(RecordOf(reg[a]))
      OBVIOUS
    <2>2. /\ IsRecord(e) /\ e.jobs = reg[a].jobs /\ e.worker = TRUE
          /\ e.parked = reg[a].parked /\ e.gen = reg[a].gen
          /\ e.undelivered = reg[a].undelivered
          /\ reg[a].worker => e.shut = reg[a].shut
      BY <1>0, <2>1 DEF RecordOK, IsRecord, QueueOK, EnsureWorker, RecordOf
    <2>3. s = [e EXCEPT !.jobs = Append(@, j), !.wake = TRUE]
      BY <1>1, <1>4, <2>1 DEF Enqueued
    <2>4. /\ s.jobs = Append(reg[a].jobs, j) /\ s.worker = TRUE /\ s.wake = TRUE
          /\ s.parked = reg[a].parked /\ s.gen = reg[a].gen
          /\ s.undelivered = reg[a].undelivered
          /\ reg[a].worker => s.shut = reg[a].shut
      BY <2>2, <2>3 DEF IsRecord
    <2>5. PICK w : w = [NoWorker EXCEPT !.st = "drain"]
      OBVIOUS
    <2>6. worker' = IF ~reg[a].worker THEN [worker EXCEPT ![a] = w] ELSE worker
      BY <1>4, <2>5 DEF Enqueue, Spawns
    <2>7. Local(a)
      BY <1>0, <1>2, <2>6 DEF Local
    <2>8. /\ reg[a].worker => SameWorker(a)
          /\ ~reg[a].worker => worker'[a] = w
      BY <1>0, <2>6 DEF SameWorker
    <2>9. IsWorker(w) /\ w.st = "drain" /\ w.last = FALSE /\ w.halt = "none"
      BY <2>5, SpawnedOK
    <2>10. Queued(a, j)
      BY <1>2, <2>4, <2>8, <2>9 DEF Queued, SamePark
    <2> QED
      BY <1>4, <2>7, <2>10
  <1> QED
    BY <1>3, <1>4

LEMMA QueuedVersions ==
  ASSUME NEW r, QueueOK(r)
  PROVE  VersionsOf(r.jobs, IsAcked) \subseteq Versions
  <1>1. \A i \in DOMAIN r.jobs : r.jobs[i] \in Jobs
    BY DEF QueueOK
  <1> QED
    BY <1>1 DEF VersionsOf, Jobs

\* The record of a is parked: its jobs with an Ack leave the queue.
Closes(a, versions) ==
    /\ ~reg[a].parked /\ reg'[a].parked /\ reg'[a].gen = generation + 1
    /\ reg'[a].shut = TRUE
    /\ reg'[a].undelivered = reg[a].undelivered \cup VersionsOf(reg[a].jobs, IsAcked) \cup versions
    /\ reg'[a].jobs \in Seq(Jobs)
    /\ ToSet(reg'[a].jobs) = {j \in ToSet(reg[a].jobs) : IsLive(j)}
    /\ reg'[a].worker = reg[a].worker /\ reg'[a].wake = reg[a].wake

\* It was parked already: the versions are added.
Adds(a, versions) ==
    /\ reg[a].parked /\ reg'[a].parked /\ reg'[a].gen = reg[a].gen
    /\ reg'[a].shut = reg[a].shut
    /\ reg'[a].undelivered = reg[a].undelivered \cup versions
    /\ SameQueue(a)

LEMMA ParkEffect ==
  ASSUME Shape, NEW a \in Aggs, NEW versions, Park(a, versions)
  PROVE  Only(a) /\ (Adds(a, versions) \/ Closes(a, versions))
  <1>0. RecordOK(reg[a]) /\ reg = [b \in Aggs |-> reg[b]] /\ QueueOK(reg[a])
    BY DEF Shape, IInv, RegistryOK, QueuesOK
  <1>1. PICK s : s = Parked(reg[a], generation + 1, versions)
    OBVIOUS
  <1>2. Only(a) /\ reg'[a] = s
    BY <1>0, <1>1 DEF Park, Only
  <1>3. CASE reg[a].parked
    <2>1. s = [reg[a] EXCEPT !.undelivered = @ \cup versions]
      BY <1>1, <1>3 DEF Parked
    <2>2. /\ s.jobs = reg[a].jobs /\ s.worker = reg[a].worker /\ s.wake = reg[a].wake
          /\ s.parked = reg[a].parked /\ s.gen = reg[a].gen /\ s.shut = reg[a].shut
          /\ s.undelivered = reg[a].undelivered \cup versions
      BY <1>0, <2>1 DEF RecordOK, IsRecord
    <2> QED
      BY <1>0, <1>2, <1>3, <2>2 DEF Adds, SameQueue, QueueOK
  <1>4. CASE ~reg[a].parked
    <2>1. PICK q : q = Keep(reg[a].jobs, {j \in ToSet(reg[a].jobs) : IsLive(j)})
      OBVIOUS
    <2>2. q \in Seq(Jobs) /\ ToSet(q) = {j \in ToSet(reg[a].jobs) : IsLive(j)}
      BY <1>0, <2>1, KeepProperties DEF QueueOK
    <2>3. PICK u : u = reg[a].undelivered \cup VersionsOf(reg[a].jobs, IsAcked) \cup versions
      OBVIOUS
    <2>4. s = [reg[a] EXCEPT !.exists = TRUE, !.parked = TRUE, !.gen = generation + 1,
                             !.shut = TRUE, !.jobs = q, !.undelivered = u]
      BY <1>0, <1>1, <1>4, <2>1, <2>3 DEF Parked, RecordOK, IsRecord
    <2>5. /\ s.jobs = q /\ s.worker = reg[a].worker /\ s.wake = reg[a].wake
          /\ s.parked = TRUE /\ s.gen = generation + 1 /\ s.shut = TRUE /\ s.undelivered = u
      BY <1>0, <2>4 DEF RecordOK, IsRecord
    <2> QED
      BY <1>2, <1>4, <2>2, <2>3, <2>5 DEF Closes
  <1> QED
    BY <1>3, <1>4

\* The park of record r is gone from record s.
Unparked(r, s) ==
    /\ ~s.parked /\ ~s.shut /\ s.undelivered = {}
    /\ s.jobs = r.jobs /\ s.worker = r.worker
    /\ r.jobs # <<>> => s.wake = r.wake
    /\ s.wake \in BOOLEAN

LEMMA LiftedEffect ==
  ASSUME NEW r, RecordOK(r), QueueOK(r)
  PROVE  Unparked(r, Lifted(r))
  <1>1. PICK s :
            s = [r EXCEPT !.parked = FALSE, !.gen = 0, !.undelivered = {}, !.shut = FALSE]
    OBVIOUS
  <1>2. /\ s.parked = FALSE /\ s.undelivered = {} /\ s.shut = FALSE
        /\ s.jobs = r.jobs /\ s.worker = r.worker /\ s.wake = r.wake
    BY <1>1 DEF RecordOK, IsRecord
  <1>3. Lifted(r) = IF s.worker \/ s.jobs # <<>> THEN s ELSE Absent
    BY <1>1, <1>2 DEF Lifted, DiscardIfEmpty
  <1> QED
    BY <1>2, <1>3, AbsentShape DEF Unparked, QueueOK

\* The worker of a keeps on, with halt channel h.
Rehalted(a, h) ==
    /\ worker'[a] = [worker[a] EXCEPT !.halt = h]
    /\ worker'[a].st = worker[a].st /\ worker'[a].job = worker[a].job /\ worker'[a].halt = h
    /\ worker'[a].attempt = worker[a].attempt /\ worker'[a].pending = worker[a].pending
    /\ worker'[a].ok = worker[a].ok /\ worker'[a].last = worker[a].last
    /\ h = "none" <=> worker[a].halt = "none"

LEMMA ReplacedOK ==
  ASSUME NEW r, r.shut \in BOOLEAN, NEW h \in {"none", "same", "open", "shut"}
  PROVE  /\ Replaced(h, r) = IF h = "same" THEN (IF r.shut THEN "shut" ELSE "open") ELSE h
         /\ Replaced(h, r) \in {"none", "same", "open", "shut"}
         /\ Replaced(h, r) = "none" <=> h = "none"
  BY DEF Replaced

LEMMA RehaltedEffect ==
  ASSUME Shape, NEW a \in Aggs, NEW h \in {"none", "same", "open", "shut"},
         h = "none" <=> worker[a].halt = "none", worker' = [worker EXCEPT ![a].halt = h]
  PROVE  Rehalted(a, h) /\ IsWorker(worker'[a])
  <1>0. worker = [b \in Aggs |-> worker[b]] /\ IsWorker(worker[a])
    BY DEF Shape, WorkersOK
  <1>3. PICK w : w = [worker[a] EXCEPT !.halt = h]
    OBVIOUS
  <1>4. worker'[a] = w
    BY <1>0, <1>3
  <1>5. /\ w.st = worker[a].st /\ w.job = worker[a].job /\ w.halt = h
        /\ w.attempt = worker[a].attempt /\ w.pending = worker[a].pending
        /\ w.ok = worker[a].ok /\ w.last = worker[a].last
        /\ w = [st |-> w.st, job |-> w.job, halt |-> w.halt, attempt |-> w.attempt,
                pending |-> w.pending, ok |-> w.ok, last |-> w.last]
    BY <1>0, <1>3 DEF IsWorker
  <1>6. IsWorker(w)
    BY <1>0, <1>5 DEF IsWorker
  <1>7. Rehalted(a, h)
    BY <1>3, <1>4, <1>5 DEF Rehalted
  <1> QED
    BY <1>4, <1>6, <1>7

LEMMA LiftEffect ==
  ASSUME Shape, NEW a \in Aggs, Lift(a)
  PROVE  /\ Local(a) /\ Unparked(reg[a], reg'[a]) /\ IsWorker(worker'[a])
         /\ Rehalted(a, Replaced(worker[a].halt, reg[a]))
  <1>0. /\ RecordOK(reg[a]) /\ reg = [b \in Aggs |-> reg[b]]
        /\ worker = [b \in Aggs |-> worker[b]] /\ QueueOK(reg[a]) /\ reg[a].shut \in BOOLEAN
    BY DEF Shape, IInv, RegistryOK, WorkersOK, QueuesOK, RecordOK
  <1>1. PICK s : s = Lifted(reg[a])
    OBVIOUS
  <1>2. Only(a) /\ reg'[a] = s
    BY <1>0, <1>1 DEF Lift, Only
  <1>3. PICK w : worker' = [worker EXCEPT ![a] = w]
    BY <1>0 DEF Lift
  <1>4. Local(a)
    BY <1>0, <1>2, <1>3 DEF Local
  <1>5. Unparked(reg[a], reg'[a])
    BY <1>0, <1>1, <1>2, LiftedEffect
  <1>6. PICK h : h = Replaced(worker[a].halt, reg[a])
    OBVIOUS
  <1>7. worker' = [worker EXCEPT ![a].halt = h]
    BY <1>0, <1>6 DEF Lift
  <1>8. Rehalted(a, h) /\ IsWorker(worker'[a])
    <2>1. h \in {"none", "same", "open", "shut"} /\ (h = "none" <=> worker[a].halt = "none")
      BY <1>0, <1>6, ReplacedOK DEF Shape, WorkersOK, IsWorker
    <2> QED
      BY <1>7, <2>1, RehaltedEffect
  <1> QED
    BY <1>4, <1>5, <1>6, <1>8

\* park and lift together: of the jobs only the live ones are left.
LEMMA SupersedeEffect ==
  ASSUME Shape, NEW a \in Aggs, Supersede(a)
  PROVE  /\ Local(a) /\ IsWorker(worker'[a])
         /\ \E r : /\ RecordOK(r) /\ QueueOK(r) /\ Unparked(r, reg'[a]) /\ r.parked
                   /\ IF reg[a].parked THEN r.shut = reg[a].shut /\ r.jobs = reg[a].jobs
                      ELSE r.shut = TRUE /\ ToSet(r.jobs) = {j \in ToSet(reg[a].jobs) : IsLive(j)}
                   /\ r.worker = reg[a].worker /\ r.wake = reg[a].wake
                   /\ Rehalted(a, Replaced(worker[a].halt, r))
  <1>0. /\ RecordOK(reg[a]) /\ reg = [b \in Aggs |-> reg[b]]
        /\ worker = [b \in Aggs |-> worker[b]] /\ QueueOK(reg[a])
        /\ generation \in Nat /\ generation + 1 \in Nat
    BY DEF Shape, IInv, RegistryOK, WorkersOK, QueuesOK
  <1>1. PICK r : r = Parked(reg[a], generation + 1, {})
    OBVIOUS
  <1>2. RecordOK(r) /\ r.parked /\ r.shut \in BOOLEAN
    BY <1>0, <1>1, ParkedOK DEF RecordOK
  <1>3. /\ QueueOK(r) /\ r.worker = reg[a].worker /\ r.wake = reg[a].wake
        /\ IF reg[a].parked THEN r.shut = reg[a].shut /\ r.jobs = reg[a].jobs
           ELSE r.shut = TRUE /\ ToSet(r.jobs) = {j \in ToSet(reg[a].jobs) : IsLive(j)}
    <2>1. CASE reg[a].parked
      <3>1. r = [reg[a] EXCEPT !.undelivered = @ \cup {}]
        BY <1>1, <2>1 DEF Parked
      <3> QED
        BY <1>0, <2>1, <3>1 DEF QueueOK, RecordOK, IsRecord
    <2>2. CASE ~reg[a].parked
      <3>1. PICK q : q = Keep(reg[a].jobs, {j \in ToSet(reg[a].jobs) : IsLive(j)})
        OBVIOUS
      <3>2. q \in Seq(Jobs) /\ ToSet(q) = {j \in ToSet(reg[a].jobs) : IsLive(j)}
        BY <1>0, <3>1, KeepProperties DEF QueueOK
      <3>3. PICK u : u = reg[a].undelivered \cup VersionsOf(reg[a].jobs, IsAcked) \cup {}
        OBVIOUS
      <3>4. r = [reg[a] EXCEPT !.exists = TRUE, !.parked = TRUE, !.gen = generation + 1,
                               !.shut = TRUE, !.jobs = q, !.undelivered = u]
        BY <1>0, <1>1, <2>2, <3>1, <3>3 DEF Parked, RecordOK, IsRecord
      <3>5. r.jobs = q /\ r.worker = reg[a].worker /\ r.wake = reg[a].wake /\ r.shut = TRUE
            /\ r.undelivered = u
        BY <1>0, <3>4 DEF RecordOK, IsRecord
      <3>6. VersionsOf(reg[a].jobs, IsAcked) \subseteq Versions
        BY <1>0, QueuedVersions, Zenon
      <3>7. u \subseteq Versions
        BY <1>0, <3>3, <3>6 DEF QueueOK
      <3> QED
        BY <1>0, <2>2, <3>2, <3>5, <3>7 DEF QueueOK
    <2> QED
      BY <2>1, <2>2
  <1>4. PICK s : s = Lifted(r)
    OBVIOUS
  <1>5. Only(a) /\ reg'[a] = s
    BY <1>0, <1>1, <1>4 DEF Supersede, Only
  <1>6. PICK w : worker' = [worker EXCEPT ![a] = w]
    BY <1>0 DEF Supersede
  <1>7. Local(a)
    BY <1>0, <1>5, <1>6 DEF Local
  <1>8. Unparked(r, reg'[a])
    BY <1>2, <1>3, <1>4, <1>5, LiftedEffect
  <1>9. PICK h : h = Replaced(worker[a].halt, r)
    OBVIOUS
  <1>10. worker' = [worker EXCEPT ![a].halt = h]
    BY <1>0, <1>1, <1>9 DEF Supersede
  <1>11. Rehalted(a, h) /\ IsWorker(worker'[a])
    <2>1. h \in {"none", "same", "open", "shut"} /\ (h = "none" <=> worker[a].halt = "none")
      BY <1>2, <1>9, ReplacedOK DEF Shape, WorkersOK, IsWorker
    <2> QED
      BY <1>10, <2>1, RehaltedEffect
  <1> QED
    BY <1>2, <1>3, <1>7, <1>8, <1>9, <1>11

-----------------------------------------------------------------------------
(* The shape is kept.  First, what most steps have in common.              *)

LEMMA PendingIsLogged ==
  ASSUME StoreOK
  PROVE  \A a \in Aggs : /\ Pending(a) \subseteq Versions
                        /\ \A v \in Versions : v \in Pending(a) <=> <<a, v>> \in ToSet(log)
  <1>1. DOMAIN log = 1..Len(log)
    BY LenProperties DEF StoreOK
  <1> QED
    BY <1>1 DEF Pending, Contains, ToSet

LEMMA LogKept ==
  ASSUME Shape, NEW T, log' = Keep(log, T)
  PROVE  log' \in Seq(Aggs \X Versions) /\ ToSet(log') = ToSet(log) \cap T
  BY KeepProperties DEF Shape, StoreOK

LEMMA StoreSame ==
  ASSUME Shape, UNCHANGED <<stream, backlog>>, log' \in Seq(Aggs \X Versions),
         ToSet(log') \subseteq ToSet(log)
  PROVE  StoreOK'
  BY DEF Shape, StoreOK

LEMMA StoreUnchanged ==
  ASSUME Shape, UNCHANGED <<stream, log, backlog>>
  PROVE  StoreOK'
  BY DEF Shape, StoreOK

LEMMA ExecSame ==
  ASSUME Shape, UNCHANGED <<stream, lock, forget, up, quit, closed, backlog>>
  PROVE  ExecOK'
  BY DEF Shape, ExecOK

LEMMA ScansSame ==
  ASSUME Shape, UNCHANGED resumer
  PROVE  ScansOK'
  BY DEF Shape, ScansOK

LEMMA LocalShape ==
  ASSUME Shape, NEW a \in Aggs, Local(a), UNCHANGED closed,
         QueueOK(reg'[a]), IsWorker(worker'[a]), AttendedAt(a)'
  PROVE  QueuesOK' /\ WorkersOK' /\ Attended'
  <1>1. \A b \in Aggs \ {a} : reg'[b] = reg[b] /\ worker'[b] = worker[b]
    BY DEF Local, Only
  <1>2. QueuesOK'
    BY <1>1 DEF Shape, QueuesOK
  <1>3. WorkersOK'
    BY <1>1 DEF Shape, WorkersOK, Local
  <1>4. \A b \in Aggs \ {a} : AttendedAt(b)'
    BY <1>1 DEF Shape, Attended, AttendedAt
  <1> QED
    BY <1>2, <1>3, <1>4 DEF Attended

LEMMA SameShape ==
  ASSUME Shape, UNCHANGED <<registry, worker, closed>>
  PROVE  QueuesOK' /\ WorkersOK' /\ Attended'
  BY DEF Shape, QueuesOK, WorkersOK, Attended, AttendedAt, registry

LEMMA EnqueueShape ==
  ASSUME Shape, NEW a \in Aggs, NEW j \in Jobs, Enqueue(a, j), ~closed, UNCHANGED closed
  PROVE  QueuesOK' /\ WorkersOK' /\ Attended'
  <1>0. QueueOK(reg[a]) /\ IsWorker(worker[a]) /\ AttendedAt(a) /\ j.ver \in Versions
    BY DEF Shape, QueuesOK, WorkersOK, Attended, Jobs
  <1>1. CASE Recorded(a, j.ver)
    <2>1. QueueOK(reg'[a]) /\ IsWorker(worker'[a])
      BY <1>0, <1>1 DEF Recorded, SameQueue, SameWorker, QueueOK
    <2>2. AttendedAt(a)'
      BY <1>0, <1>1 DEF Recorded, SameQueue, SameWorker, AttendedAt
    <2> QED
      BY <2>1, <2>2, EnqueueEffect, LocalShape
  <1>2. CASE Queued(a, j)
    <2>1. Append(reg[a].jobs, j) \in Seq(Jobs)
      BY <1>0 DEF QueueOK
    <2>2. QueueOK(reg'[a]) /\ IsWorker(worker'[a])
      BY <1>0, <1>2, <2>1 DEF Queued, SameWorker, QueueOK
    <2>3. worker'[a].st # "none" /\ ~worker'[a].last
      BY <1>0, <1>2 DEF Queued, SameWorker, AttendedAt, QueueOK
    <2>4. AttendedAt(a)'
      BY <1>2, <2>3 DEF Queued, AttendedAt
    <2> QED
      BY <2>2, <2>4, EnqueueEffect, LocalShape
  <1> QED
    BY <1>1, <1>2, EnqueueEffect

\* A park leaves no job without the worker it had.
LEMMA ParkShape ==
  ASSUME Shape, NEW a \in Aggs, NEW versions \in SUBSET Versions, Park(a, versions)
  PROVE  /\ Only(a) /\ QueueOK(reg'[a]) /\ reg'[a].worker = reg[a].worker
         /\ reg'[a].jobs # <<>> => reg[a].jobs # <<>> /\ reg'[a].wake = reg[a].wake
  <1>0. QueueOK(reg[a])
    BY DEF Shape, QueuesOK
  <1>1. CASE Adds(a, versions)
    BY <1>0, <1>1, ParkEffect DEF Adds, SameQueue, QueueOK
  <1>2. CASE Closes(a, versions)
    <2>1. VersionsOf(reg[a].jobs, IsAcked) \subseteq Versions
      BY <1>0, QueuedVersions, Zenon
    <2>2. reg'[a].undelivered \subseteq Versions
      BY <1>0, <1>2, <2>1 DEF Closes, QueueOK
    <2>3. ASSUME reg[a].jobs = <<>> PROVE reg'[a].jobs = <<>>
      <3>1. ToSet(reg'[a].jobs) = {}
        BY <1>2, <2>3, ToSetEmpty DEF Closes
      <3> QED
        BY <1>2, <3>1, ToSetEmpty DEF Closes
    <2> QED
      BY <1>0, <1>2, <2>2, <2>3, ParkEffect DEF Closes, QueueOK
  <1> QED
    BY <1>1, <1>2, ParkEffect

LEMMA ParkOnlyShape ==
  ASSUME Shape, NEW a \in Aggs, NEW versions \in SUBSET Versions, Park(a, versions),
         UNCHANGED <<worker, closed>>
  PROVE  QueuesOK' /\ WorkersOK' /\ Attended'
  <1>1. Local(a) /\ IsWorker(worker'[a])
    BY ParkShape DEF Local, Shape, WorkersOK
  <1>2. AttendedAt(a)'
    BY ParkShape DEF Shape, Attended, AttendedAt
  <1> QED
    BY <1>1, <1>2, ParkShape, LocalShape

LEMMA UnparkedShape ==
  ASSUME Shape, NEW a \in Aggs, Local(a), UNCHANGED closed, NEW r, QueueOK(r),
         Unparked(r, reg'[a]), r.worker = reg[a].worker, r.wake = reg[a].wake,
         r.jobs # <<>> => reg[a].jobs # <<>>, NEW h, Rehalted(a, h), IsWorker(worker'[a])
  PROVE  QueuesOK' /\ WorkersOK' /\ Attended'
  <1>1. QueueOK(reg'[a])
    BY DEF Unparked, QueueOK
  <1>2. AttendedAt(a)'
    BY DEF Unparked, Rehalted, Shape, Attended, AttendedAt
  <1> QED
    BY <1>1, <1>2, LocalShape

LEMMA LiftShape ==
  ASSUME Shape, NEW a \in Aggs, Lift(a), UNCHANGED closed
  PROVE  QueuesOK' /\ WorkersOK' /\ Attended'
  <1>1. QueueOK(reg[a])
    BY DEF Shape, QueuesOK
  <1> QED
    BY <1>1, LiftEffect, UnparkedShape

LEMMA SupersedeShape ==
  ASSUME Shape, NEW a \in Aggs, Supersede(a), UNCHANGED closed
  PROVE  QueuesOK' /\ WorkersOK' /\ Attended'
  <1>1. PICK r : /\ QueueOK(r) /\ Unparked(r, reg'[a])
                 /\ IF reg[a].parked THEN r.jobs = reg[a].jobs
                    ELSE ToSet(r.jobs) = {j \in ToSet(reg[a].jobs) : IsLive(j)}
                 /\ r.worker = reg[a].worker /\ r.wake = reg[a].wake
                 /\ Rehalted(a, Replaced(worker[a].halt, r))
    BY SupersedeEffect
  <1>2. ASSUME reg[a].jobs = <<>> PROVE r.jobs = <<>>
    <2>1. CASE reg[a].parked
      BY <1>1, <1>2, <2>1
    <2>2. CASE ~reg[a].parked
      <3>1. ToSet(r.jobs) = {} /\ r.jobs \in Seq(Jobs)
        BY <1>1, <1>2, <2>2, ToSetEmpty DEF QueueOK
      <3> QED
        BY <3>1, ToSetEmpty
    <2> QED
      BY <2>1, <2>2
  <1>3. Local(a) /\ IsWorker(worker'[a])
    BY SupersedeEffect
  <1> QED
    BY <1>1, <1>2, <1>3, UnparkedShape

-----------------------------------------------------------------------------
(* The steps of a worker.                                                  *)

\* The worker of a, and no other, goes on to stage s with what it carries.
Moves(a, s) ==
    /\ worker' = [b \in Aggs |-> worker'[b]]
    /\ \A b \in Aggs \ {a} : worker'[b] = worker[b]
    /\ worker'[a].st = s
    /\ worker'[a].job = worker[a].job /\ worker'[a].halt = worker[a].halt
    /\ worker'[a].last = worker[a].last

LEMMA GotoEffect ==
  ASSUME Shape, NEW a \in Aggs, NEW s, Goto(a, s)
  PROVE  /\ Moves(a, s)
         /\ worker'[a].attempt = worker[a].attempt /\ worker'[a].pending = worker[a].pending
         /\ worker'[a] = [st |-> s, job |-> worker[a].job, halt |-> worker[a].halt,
                          attempt |-> worker[a].attempt, pending |-> worker[a].pending,
                          ok |-> worker[a].ok, last |-> worker[a].last]
  <1>0. worker = [b \in Aggs |-> worker[b]] /\ IsWorker(worker[a])
    BY DEF Shape, WorkersOK
  <1>1. PICK w : w = [worker[a] EXCEPT !.st = s]
    OBVIOUS
  <1>2. worker'[a] = w /\ \A b \in Aggs \ {a} : worker'[b] = worker[b]
    BY <1>0, <1>1 DEF Goto
  <1>3. w = [st |-> s, job |-> worker[a].job, halt |-> worker[a].halt,
             attempt |-> worker[a].attempt, pending |-> worker[a].pending,
             ok |-> worker[a].ok, last |-> worker[a].last]
    BY <1>0, <1>1 DEF IsWorker
  <1>4. worker' = [b \in Aggs |-> worker'[b]]
    BY <1>0 DEF Goto
  <1> QED
    BY <1>2, <1>3, <1>4 DEF Moves

LEMMA EndEffect ==
  ASSUME Shape, NEW a \in Aggs, NEW ok, End(a, ok)
  PROVE  /\ Moves(a, "finish")
         /\ worker'[a] = [st |-> "finish", job |-> worker[a].job, halt |-> worker[a].halt,
                          attempt |-> worker[a].attempt, pending |-> worker[a].pending,
                          ok |-> ok, last |-> worker[a].last]
  <1>0. worker = [b \in Aggs |-> worker[b]] /\ IsWorker(worker[a])
    BY DEF Shape, WorkersOK
  <1>1. PICK w : w = [worker[a] EXCEPT !.st = "finish", !.ok = ok]
    OBVIOUS
  <1>2. worker'[a] = w /\ \A b \in Aggs \ {a} : worker'[b] = worker[b]
    BY <1>0, <1>1 DEF End
  <1>3. w = [st |-> "finish", job |-> worker[a].job, halt |-> worker[a].halt,
             attempt |-> worker[a].attempt, pending |-> worker[a].pending,
             ok |-> ok, last |-> worker[a].last]
    BY <1>0, <1>1 DEF IsWorker
  <1>4. worker' = [b \in Aggs |-> worker'[b]]
    BY <1>0 DEF End
  <1> QED
    BY <1>2, <1>3, <1>4 DEF Moves

LEMMA TryEffect ==
  ASSUME Shape, NEW a \in Aggs, NEW n, NEW subs, Try(a, n, subs)
  PROVE  /\ Moves(a, "attempt")
         /\ worker'[a].pending = subs
         /\ worker'[a] = [st |-> "attempt", job |-> worker[a].job, halt |-> worker[a].halt,
                          attempt |-> n, pending |-> subs,
                          ok |-> worker[a].ok, last |-> worker[a].last]
  <1>0. worker = [b \in Aggs |-> worker[b]] /\ IsWorker(worker[a])
    BY DEF Shape, WorkersOK
  <1>1. PICK w : w = [worker[a] EXCEPT !.st = "attempt", !.attempt = n, !.pending = subs]
    OBVIOUS
  <1>2. worker'[a] = w /\ \A b \in Aggs \ {a} : worker'[b] = worker[b]
    BY <1>0, <1>1 DEF Try
  <1>3. w = [st |-> "attempt", job |-> worker[a].job, halt |-> worker[a].halt,
             attempt |-> n, pending |-> subs, ok |-> worker[a].ok, last |-> worker[a].last]
    BY <1>0, <1>1 DEF IsWorker
  <1>4. worker' = [b \in Aggs |-> worker'[b]]
    BY <1>0 DEF Try
  <1> QED
    BY <1>2, <1>3, <1>4 DEF Moves

\* Where a round of handlers leads.
AfterRound(a, failed) ==
    IF failed = {} THEN "ack"
    ELSE IF worker[a].attempt >= MaxAttempts THEN "giveUp" ELSE "wait"

LEMMA AttemptEffect ==
  ASSUME Shape, NEW a \in Aggs, NEW failed, Attempt(a, failed)
  PROVE  /\ Moves(a, AfterRound(a, failed))
         /\ worker'[a].pending = failed
         /\ worker'[a] = [st |-> AfterRound(a, failed), job |-> worker[a].job,
                          halt |-> worker[a].halt, attempt |-> worker[a].attempt,
                          pending |-> failed, ok |-> worker[a].ok, last |-> worker[a].last]
  <1>0. worker = [b \in Aggs |-> worker[b]] /\ IsWorker(worker[a])
    BY DEF Shape, WorkersOK
  <1>1. PICK s : s = AfterRound(a, failed)
    OBVIOUS
  <1>2. worker' = [worker EXCEPT ![a].pending = failed, ![a].st = s]
    <2>1. worker' = [worker EXCEPT
            ![a].pending = failed,
            ![a].st = CASE failed = {} -> "ack"
                        [] failed # {} /\ worker[a].attempt >= MaxAttempts -> "giveUp"
                        [] OTHER -> "wait"]
      BY DEF Attempt
    <2>2. s = CASE failed = {} -> "ack"
                [] failed # {} /\ worker[a].attempt >= MaxAttempts -> "giveUp"
                [] OTHER -> "wait"
      BY <1>1 DEF AfterRound
    <2> QED
      BY <2>1, <2>2
  <1>3. PICK w : w = [worker[a] EXCEPT !.pending = failed, !.st = s]
    OBVIOUS
  <1>4. worker'[a] = w /\ \A b \in Aggs \ {a} : worker'[b] = worker[b]
    BY <1>0, <1>2, <1>3
  <1>5. w = [st |-> s, job |-> worker[a].job, halt |-> worker[a].halt,
             attempt |-> worker[a].attempt, pending |-> failed, ok |-> worker[a].ok,
             last |-> worker[a].last]
    BY <1>0, <1>3 DEF IsWorker
  <1>6. worker' = [b \in Aggs |-> worker'[b]]
    BY <1>0, <1>2
  <1> QED
    BY <1>1, <1>4, <1>5, <1>6 DEF Moves

LEMMA PopEffect ==
  ASSUME Shape, NEW a \in Aggs, Pop(a)
  PROVE  /\ Local(a) /\ reg[a].jobs # <<>> /\ UNCHANGED generation
         /\ reg'[a].jobs = Tail(reg[a].jobs)
         /\ reg'[a].parked = reg[a].parked /\ reg'[a].gen = reg[a].gen
         /\ reg'[a].undelivered = reg[a].undelivered /\ reg'[a].shut = reg[a].shut
         /\ reg'[a].worker = reg[a].worker /\ reg'[a].wake = reg[a].wake
         /\ worker[a].st = "drain" /\ worker'[a].st = "held"
         /\ worker'[a].job = Head(reg[a].jobs) /\ worker'[a].halt = "same"
         /\ worker'[a] = [st |-> "held", job |-> Head(reg[a].jobs), halt |-> "same",
                          attempt |-> worker[a].attempt, pending |-> worker[a].pending,
                          ok |-> worker[a].ok, last |-> worker[a].last]
         /\ worker'[a].last = worker[a].last
  <1>0. /\ worker = [b \in Aggs |-> worker[b]] /\ IsWorker(worker[a])
        /\ RecordOK(reg[a]) /\ reg = [b \in Aggs |-> reg[b]]
    BY DEF Shape, WorkersOK, IInv, RegistryOK
  <1>1. PICK j : j = Head(reg[a].jobs)
    OBVIOUS
  <1>2. PICK w : w = [worker[a] EXCEPT !.st = "held", !.job = j, !.halt = "same"]
    OBVIOUS
  <1>3. PICK s : s = [reg[a] EXCEPT !.jobs = Tail(@)]
    OBVIOUS
  <1>4. /\ worker' = [worker EXCEPT ![a].st = "held", ![a].job = j, ![a].halt = "same"]
        /\ reg' = [reg EXCEPT ![a] = s]
        /\ UNCHANGED generation /\ reg[a].jobs # <<>> /\ worker[a].st = "drain"
    BY <1>1, <1>3 DEF Pop, Popped
  <1>5. worker'[a] = w /\ reg'[a] = s /\ Local(a)
    BY <1>0, <1>2, <1>4 DEF Local, Only
  <1>6. /\ s.jobs = Tail(reg[a].jobs) /\ s.parked = reg[a].parked /\ s.gen = reg[a].gen
        /\ s.undelivered = reg[a].undelivered /\ s.shut = reg[a].shut
        /\ s.worker = reg[a].worker /\ s.wake = reg[a].wake
    BY <1>0, <1>3 DEF RecordOK, IsRecord
  <1>7. w = [st |-> "held", job |-> j, halt |-> "same", attempt |-> worker[a].attempt,
             pending |-> worker[a].pending, ok |-> worker[a].ok, last |-> worker[a].last]
    BY <1>0, <1>2 DEF IsWorker
  <1>8. w.st = "held" /\ w.job = j /\ w.halt = "same" /\ w.last = worker[a].last
    BY <1>7
  <1> QED
    BY <1>1, <1>4, <1>5, <1>6, <1>7, <1>8

\* A worker that carries nothing: its queue and its park stay.
Idles(a) ==
    /\ Local(a) /\ UNCHANGED generation
    /\ worker[a].st \in {"drain", "await"} /\ worker'[a].st \in {"none", "drain", "await"}
    /\ IsWorker(worker'[a])
    /\ reg'[a].jobs = reg[a].jobs /\ reg'[a].undelivered = reg[a].undelivered
    /\ SamePark(reg[a], reg'[a])

LEMMA RetiredEffect ==
  ASSUME NEW r, RecordOK(r), QueueOK(r), r.jobs = <<>>
  PROVE  /\ Retired(r).jobs = <<>> /\ Retired(r).undelivered = r.undelivered
         /\ SamePark(r, Retired(r)) /\ Retired(r).worker = FALSE /\ QueueOK(Retired(r))
  <1>1. PICK s : s = [r EXCEPT !.worker = FALSE]
    OBVIOUS
  <1>2. /\ s.jobs = r.jobs /\ s.undelivered = r.undelivered /\ s.parked = r.parked
        /\ s.worker = FALSE /\ s.wake = r.wake /\ s.gen = r.gen
    BY <1>1 DEF RecordOK, IsRecord
  <1>3. Retired(r) = IF s.parked \/ s.undelivered # {} THEN s ELSE Absent
    BY <1>1, <1>2 DEF Retired, DiscardIfEmpty
  <1>4. CASE s.parked \/ s.undelivered # {}
    BY <1>2, <1>3, <1>4 DEF SamePark, QueueOK
  <1>5. CASE ~(s.parked \/ s.undelivered # {})
    <2>1. r.parked = FALSE /\ r.undelivered = {}
      BY <1>2, <1>5 DEF RecordOK
    <2> QED
      BY <1>3, <1>5, <2>1, AbsentShape DEF SamePark
  <1> QED
    BY <1>4, <1>5

LEMMA IdleEffect ==
  ASSUME Shape, NEW a \in Aggs, Drained(a) \/ Woken(a) \/ Retire(a) \/ Stopped(a)
  PROVE  Idles(a) /\ QueueOK(reg'[a]) /\ AttendedAt(a)'
  <1>0. /\ worker = [b \in Aggs |-> worker[b]] /\ IsWorker(worker[a])
        /\ RecordOK(reg[a]) /\ reg = [b \in Aggs |-> reg[b]] /\ QueueOK(reg[a]) /\ AttendedAt(a)
        /\ closed \in BOOLEAN
    BY DEF Shape, WorkersOK, IInv, RegistryOK, QueuesOK, Attended, ExecOK
  <1>1. UNCHANGED <<generation, closed>>
    BY DEF Drained, Woken, Retire, Stopped, registry, process
  <1>2. ASSUME NEW s \in {"drain", "await"}, NEW l \in BOOLEAN, NEW w, worker[a].halt = "none",
               w = [st |-> s, job |-> worker[a].job, halt |-> worker[a].halt,
                    attempt |-> worker[a].attempt, pending |-> worker[a].pending,
                    ok |-> worker[a].ok, last |-> l]
        PROVE  IsWorker(w)
    <2>1. s \in Stages /\ s \notin Carrying /\ s \notin Delivering /\ s # "wait"
      BY DEF Stages, Carrying, Delivering
    <2> QED
      BY <1>0, <1>2, <2>1 DEF IsWorker
  <1>3. ASSUME worker[a].st \in {"drain", "await"} PROVE worker[a].halt = "none"
    BY <1>0, <1>3 DEF IsWorker, Carrying, Delivering
  <1>4. CASE Drained(a)
    <2>1. /\ UNCHANGED reg /\ worker[a].st = "drain" /\ reg[a].jobs = <<>>
          /\ worker' = [worker EXCEPT ![a] = IF worker[a].last THEN NoWorker
                                             ELSE [worker[a] EXCEPT !.st = "await"]]
      BY <1>0, <1>4 DEF Drained, registry
    <2>2. PICK w : w = IF worker[a].last THEN NoWorker ELSE [worker[a] EXCEPT !.st = "await"]
      OBVIOUS
    <2>3. worker'[a] = w /\ Local(a)
      BY <1>0, <2>1, <2>2 DEF Local, Only
    <2>4. IsWorker(w) /\ w.st \in {"none", "await"} /\ (w.st = "none" => closed)
          /\ (w.last => closed)
      <3>1. CASE worker[a].last
        BY <1>0, <2>2, <3>1, NoWorkerOK DEF AttendedAt
      <3>2. CASE ~worker[a].last
        <4>1. w = [st |-> "await", job |-> worker[a].job, halt |-> worker[a].halt,
                   attempt |-> worker[a].attempt, pending |-> worker[a].pending,
                   ok |-> worker[a].ok, last |-> worker[a].last]
          BY <1>0, <2>2, <3>2 DEF IsWorker
        <4>2. IsWorker(w)
          BY <1>0, <1>2, <1>3, <2>1, <4>1 DEF IsWorker
        <4> QED
          BY <3>2, <4>1, <4>2
      <3> QED
        BY <3>1, <3>2
    <2>5. AttendedAt(a)'
      BY <1>0, <1>1, <2>1, <2>3, <2>4 DEF AttendedAt
    <2> QED
      BY <1>0, <1>1, <2>1, <2>3, <2>4, <2>5 DEF Idles, SamePark
  <1>5. CASE Woken(a)
    <2>1. PICK s : s = [reg[a] EXCEPT !.wake = FALSE]
      OBVIOUS
    <2>2. /\ s.jobs = reg[a].jobs /\ s.undelivered = reg[a].undelivered
          /\ s.parked = reg[a].parked /\ s.gen = reg[a].gen /\ s.worker = reg[a].worker
          /\ s.wake = FALSE
      BY <1>0, <2>1 DEF RecordOK, IsRecord
    <2>3. Goto(a, "drain") /\ worker[a].st = "await" /\ reg'[a] = s /\ Only(a)
      BY <1>0, <1>5, <2>1 DEF Woken, Only
    <2>4. Local(a) /\ worker'[a].st = "drain" /\ worker'[a].last = worker[a].last
      BY <2>3, GotoEffect DEF Local, Moves
    <2>5. IsWorker(worker'[a])
      <3>1. worker[a].halt = "none" /\ worker[a].last \in BOOLEAN
        BY <1>0, <1>3, <2>3 DEF IsWorker
      <3>2. worker'[a] = [st |-> "drain", job |-> worker[a].job, halt |-> worker[a].halt,
                          attempt |-> worker[a].attempt, pending |-> worker[a].pending,
                          ok |-> worker[a].ok, last |-> worker[a].last]
        BY <2>3, GotoEffect
      <3> QED
        BY <1>2, <3>1, <3>2
    <2>6. AttendedAt(a)' /\ QueueOK(reg'[a])
      BY <1>0, <1>1, <2>2, <2>3, <2>4 DEF AttendedAt, QueueOK
    <2> QED
      BY <1>1, <2>2, <2>3, <2>4, <2>5, <2>6 DEF Idles, SamePark
  <1>6. CASE Retire(a)
    <2>1. CASE Goto(a, "drain") /\ UNCHANGED reg
      <3>1. Local(a) /\ worker'[a].st = "drain" /\ worker'[a].last = worker[a].last
        BY <1>0, <2>1, GotoEffect DEF Local, Only, Moves
      <3>0. worker[a].st = "await" /\ Goto(a, "drain")
        BY <1>6, <2>1 DEF Retire
      <3>2. IsWorker(worker'[a]) /\ worker[a].st = "await"
        <4>1. worker[a].halt = "none" /\ worker[a].last \in BOOLEAN
          BY <1>0, <1>3, <3>0 DEF IsWorker
        <4>2. worker'[a] = [st |-> "drain", job |-> worker[a].job, halt |-> worker[a].halt,
                            attempt |-> worker[a].attempt, pending |-> worker[a].pending,
                            ok |-> worker[a].ok, last |-> worker[a].last]
          BY <3>0, GotoEffect
        <4> QED
          BY <1>2, <3>0, <4>1, <4>2
      <3>3. AttendedAt(a)' /\ QueueOK(reg'[a])
        BY <1>0, <1>1, <2>1, <3>1, <3>2 DEF AttendedAt
      <3> QED
        BY <1>1, <2>1, <3>1, <3>2, <3>3 DEF Idles, SamePark
    <2>2. CASE /\ reg[a].jobs = <<>> /\ reg' = [reg EXCEPT ![a] = Retired(@)]
               /\ worker' = [worker EXCEPT ![a] = NoWorker]
      <3>1. Local(a) /\ reg'[a] = Retired(reg[a]) /\ worker'[a] = NoWorker
        BY <1>0, <2>2 DEF Local, Only
      <3>2. /\ reg'[a].jobs = <<>> /\ reg'[a].undelivered = reg[a].undelivered
            /\ SamePark(reg[a], reg'[a]) /\ reg'[a].worker = FALSE /\ QueueOK(reg'[a])
        BY <1>0, <2>2, <3>1, RetiredEffect
      <3>3. AttendedAt(a)'
        BY <3>1, <3>2, NoWorkerOK DEF AttendedAt
      <3>4. worker[a].st = "await"
        BY <1>6 DEF Retire
      <3> QED
        BY <1>1, <2>2, <3>1, <3>2, <3>3, <3>4, NoWorkerOK DEF Idles
    <2> QED
      BY <1>6, <2>1, <2>2 DEF Retire
  <1>7. CASE Stopped(a)
    <2>1. PICK w : w = [worker[a] EXCEPT !.st = "drain", !.last = TRUE]
      OBVIOUS
    <2>2. worker'[a] = w /\ Local(a) /\ UNCHANGED reg /\ worker[a].st = "await" /\ closed
      BY <1>0, <1>7, <2>1 DEF Stopped, Local, Only, registry
    <2>3. w = [st |-> "drain", job |-> worker[a].job, halt |-> worker[a].halt,
               attempt |-> worker[a].attempt, pending |-> worker[a].pending,
               ok |-> worker[a].ok, last |-> TRUE]
      BY <1>0, <2>1 DEF IsWorker
    <2>4. IsWorker(w)
      BY <1>2, <1>3, <2>2, <2>3
    <2>5. w.st = "drain"
      BY <2>3
    <2>6. AttendedAt(a)'
      BY <1>0, <1>1, <2>2, <2>5 DEF AttendedAt
    <2> QED
      BY <1>0, <1>1, <2>2, <2>4, <2>5, <2>6 DEF Idles, SamePark
  <1> QED
    BY <1>4, <1>5, <1>6, <1>7

LEMMA FinishEffect ==
  ASSUME Shape, NEW a \in Aggs, Finish(a)
  PROVE  /\ worker[a].st = "finish" /\ worker'[a].st = "drain" /\ worker'[a].halt = "none"
         /\ worker'[a].last => worker[a].last
         /\ IsWorker(worker'[a]) /\ Local(a) /\ UNCHANGED <<reg, generation>>
  <1>0. /\ worker = [b \in Aggs |-> worker[b]] /\ IsWorker(worker[a])
        /\ reg = [b \in Aggs |-> reg[b]] /\ worker[a].last \in BOOLEAN
    BY DEF Shape, WorkersOK, IInv, RegistryOK, IsWorker
  <1>1. /\ worker' = [worker EXCEPT ![a] =
                        [NoWorker EXCEPT !.st = "drain", !.last = worker[a].last]]
        /\ worker[a].st = "finish" /\ UNCHANGED <<reg, generation>>
    BY DEF Finish, registry
  <1>2. Local(a)
    BY <1>0, <1>1 DEF Local, Only
  <1>3. worker'[a] = [NoWorker EXCEPT !.st = "drain", !.last = worker[a].last]
    BY <1>0, <1>1
  <1>4. worker'[a] = [st |-> "drain", job |-> NoJob, halt |-> "none", attempt |-> 0,
                      pending |-> {}, ok |-> FALSE, last |-> worker[a].last]
    BY <1>3 DEF NoWorker
  <1>5. /\ IsWorker(worker'[a]) /\ worker'[a].st = "drain" /\ worker'[a].halt = "none"
        /\ worker'[a].last => worker[a].last
    BY <1>0, <1>4, IdleWorkerOK
  <1> QED
    BY <1>1, <1>2, <1>5

\* A worker that carries a job to another stage of it, attempt and subscribers in order.
LEMMA MovedOK ==
  ASSUME Shape, NEW a \in Aggs, NEW s \in Carrying, NEW n \in 0..MaxAttempts,
         NEW subs \in SUBSET Subs, NEW k \in BOOLEAN, worker[a].st \in Carrying,
         s \in Delivering => IsAcked(worker[a].job), s = "wait" => n < MaxAttempts,
         worker'[a] = [st |-> s, job |-> worker[a].job, halt |-> worker[a].halt,
                       attempt |-> n, pending |-> subs, ok |-> k, last |-> worker[a].last]
  PROVE  IsWorker(worker'[a])
  <1>1. IsWorker(worker[a])
    BY DEF Shape, WorkersOK
  <1>2. s \in Stages
    BY DEF Stages, Carrying, Delivering
  <1> QED
    BY <1>1, <1>2 DEF IsWorker

\* The record of a as a worker that carries a job leaves it.
LEMMA MoveShape ==
  ASSUME Shape, NEW a \in Aggs, NEW s \in Carrying, Moves(a, s), IsWorker(worker'[a]),
         worker[a].st \in Carrying, UNCHANGED closed, Only(a), QueueOK(reg'[a]),
         reg'[a].worker = reg[a].worker,
         reg'[a].jobs # <<>> => reg[a].jobs # <<>> /\ reg'[a].wake = reg[a].wake
  PROVE  QueuesOK' /\ WorkersOK' /\ Attended'
  <1>1. s # "none" /\ s # "await" /\ worker[a].st # "none"
    BY DEF Carrying, Delivering
  <1>2. AttendedAt(a)'
    BY <1>1 DEF Moves, Shape, Attended, AttendedAt
  <1>3. Local(a)
    BY DEF Moves, Local
  <1> QED
    BY <1>2, <1>3, LocalShape

LEMMA WorkerShape ==
  ASSUME Shape, NEW a \in Aggs, WorkerStep(a)
  PROVE  QueuesOK' /\ WorkersOK' /\ Attended'
  <1>0. /\ worker = [b \in Aggs |-> worker[b]] /\ IsWorker(worker[a])
        /\ RecordOK(reg[a]) /\ reg = [b \in Aggs |-> reg[b]] /\ QueueOK(reg[a]) /\ AttendedAt(a)
        /\ closed \in BOOLEAN
    BY DEF Shape, WorkersOK, IInv, RegistryOK, QueuesOK, Attended, ExecOK
  <1>1. UNCHANGED closed
    BY DEF WorkerStep, Pop, Drained, Woken, Retire, Stopped, BeginDelivery, Deliver, Wait, GiveUp,
           DeadLetter, Attempt, ParkIfCurrent, Ack, Finish, process
  <1>2. ASSUME UNCHANGED reg
        PROVE  /\ Only(a) /\ QueueOK(reg'[a]) /\ reg'[a].worker = reg[a].worker
               /\ reg'[a].jobs # <<>> => reg[a].jobs # <<>> /\ reg'[a].wake = reg[a].wake
    BY <1>0, <1>2 DEF Only
  <1>3. CASE Pop(a)
    <2>1. Head(reg[a].jobs) \in Jobs /\ Tail(reg[a].jobs) \in Seq(Jobs)
      BY <1>0, <1>3, PopEffect, HeadTailProperties DEF QueueOK
    <2>2. QueueOK(reg'[a])
      BY <1>0, <1>3, <2>1, PopEffect DEF QueueOK
    <2>3. /\ "held" \in Stages /\ "held" \in Carrying /\ "held" \notin Delivering
          /\ worker[a].st \notin Carrying
      BY <1>3 DEF Pop, Stages, Carrying, Delivering
    <2>4. IsWorker(worker'[a])
      <3>1. PICK w : w = worker'[a]
        OBVIOUS
      <3>2. PICK j : j = Head(reg[a].jobs)
        OBVIOUS
      <3>3. w = [st |-> "held", job |-> j, halt |-> "same", attempt |-> worker[a].attempt,
                 pending |-> worker[a].pending, ok |-> worker[a].ok, last |-> worker[a].last]
        BY <1>3, <3>1, <3>2, PopEffect
      <3>4. IsWorker(w)
        BY <1>0, <2>1, <2>3, <3>2, <3>3 DEF IsWorker
      <3> QED
        BY <3>1, <3>4
    <2>5. AttendedAt(a)'
      BY <1>0, <1>1, <1>3, PopEffect DEF AttendedAt
    <2> QED
      BY <1>1, <1>3, <2>2, <2>4, <2>5, PopEffect, LocalShape
  <1>4. CASE Drained(a) \/ Woken(a) \/ Retire(a) \/ Stopped(a)
    BY <1>1, <1>4, IdleEffect, LocalShape DEF Idles
  <1>5. ASSUME NEW s \in Carrying, Goto(a, s), UNCHANGED reg, worker[a].st \in Carrying,
               s \in Delivering => IsAcked(worker[a].job), s # "wait"
        PROVE  QueuesOK' /\ WorkersOK' /\ Attended'
    <2>1. IsWorker(worker'[a])
      <3>0. /\ worker[a].attempt \in 0..MaxAttempts /\ worker[a].pending \in SUBSET Subs
            /\ worker[a].ok \in BOOLEAN
        BY <1>0 DEF IsWorker
      <3>1. worker'[a] = [st |-> s, job |-> worker[a].job, halt |-> worker[a].halt,
                          attempt |-> worker[a].attempt, pending |-> worker[a].pending,
                          ok |-> worker[a].ok, last |-> worker[a].last]
        BY <1>5, GotoEffect
      <3> QED
        BY <1>5, <3>0, <3>1, MovedOK
    <2> QED
      BY <1>1, <1>2, <1>5, <2>1, GotoEffect, MoveShape
  <1>6. ASSUME NEW ok \in BOOLEAN, End(a, ok), worker[a].st \in Carrying
        PROVE  Moves(a, "finish") /\ IsWorker(worker'[a]) /\ "finish" \in Carrying
    <2>1. "finish" \in Carrying /\ "finish" \notin Delivering
      BY DEF Carrying, Delivering
    <2>2. IsWorker(worker'[a])
      <3>0. /\ worker[a].attempt \in 0..MaxAttempts /\ worker[a].pending \in SUBSET Subs
            /\ worker[a].ok \in BOOLEAN
        BY <1>0 DEF IsWorker
      <3>1. worker'[a] = [st |-> "finish", job |-> worker[a].job, halt |-> worker[a].halt,
                          attempt |-> worker[a].attempt, pending |-> worker[a].pending,
                          ok |-> ok, last |-> worker[a].last]
        BY <1>6, EndEffect
      <3> QED
        BY <1>6, <2>1, <3>0, <3>1, MovedOK
    <2> QED
      BY <1>6, <2>1, <2>2, EndEffect
  <1>7. ASSUME NEW ok \in BOOLEAN, End(a, ok), worker[a].st \in Carrying, UNCHANGED reg
        PROVE  QueuesOK' /\ WorkersOK' /\ Attended'
    BY <1>1, <1>2, <1>6, <1>7, MoveShape
  <1>8. ASSUME NEW n \in 0..MaxAttempts, NEW subs \in SUBSET Subs, Try(a, n, subs),
               worker[a].st \in Delivering, UNCHANGED reg
        PROVE  QueuesOK' /\ WorkersOK' /\ Attended'
    <2>1. "attempt" \in Carrying /\ worker[a].st \in Carrying /\ IsAcked(worker[a].job)
      BY <1>0, <1>8 DEF Carrying, Delivering, IsWorker
    <2>2. IsWorker(worker'[a])
      <3>0. /\ worker[a].attempt \in 0..MaxAttempts /\ worker[a].pending \in SUBSET Subs
            /\ worker[a].ok \in BOOLEAN
        BY <1>0 DEF IsWorker
      <3>1. worker'[a] = [st |-> "attempt", job |-> worker[a].job, halt |-> worker[a].halt,
                          attempt |-> n, pending |-> subs, ok |-> worker[a].ok,
                          last |-> worker[a].last]
        BY <1>8, TryEffect
      <3> QED
        BY <1>8, <2>1, <3>0, <3>1, MovedOK
    <2> QED
      BY <1>1, <1>2, <1>8, <2>1, <2>2, TryEffect, MoveShape
  <1>9. CASE BeginDelivery(a)
    <2>1. worker[a].st = "held" /\ worker[a].st \in Carrying /\ "deliver" \in Carrying
      BY <1>9 DEF BeginDelivery, Carrying, Delivering
    <2>2. CASE End(a, TRUE) /\ UNCHANGED reg
      BY <1>7, <2>1, <2>2
    <2>3. CASE Goto(a, "deliver") /\ UNCHANGED reg /\ IsAcked(worker[a].job)
      BY <1>5, <2>1, <2>3
    <2>4. CASE End(a, FALSE) /\ UNCHANGED reg
      BY <1>7, <2>1, <2>4
    <2>5. CASE End(a, FALSE) /\ reg' = [reg EXCEPT ![a].undelivered = @ \cup {worker[a].job.ver}]
      <3>1. PICK s : s = [reg[a] EXCEPT !.undelivered = @ \cup {worker[a].job.ver}]
        OBVIOUS
      <3>2. reg'[a] = s /\ Only(a)
        BY <1>0, <2>5, <3>1 DEF Only
      <3>3. /\ s.jobs = reg[a].jobs /\ s.worker = reg[a].worker /\ s.wake = reg[a].wake
            /\ s.undelivered = reg[a].undelivered \cup {worker[a].job.ver}
        BY <1>0, <3>1 DEF RecordOK, IsRecord
      <3>4. worker[a].job.ver \in Versions
        BY <1>0, <2>1 DEF IsWorker, Jobs
      <3>5. QueueOK(reg'[a])
        BY <1>0, <3>2, <3>3, <3>4 DEF QueueOK
      <3> QED
        BY <1>1, <1>6, <2>1, <2>5, <3>2, <3>3, <3>5, MoveShape
    <2> QED
      BY <1>9, <2>2, <2>3, <2>4, <2>5 DEF BeginDelivery
  <1>10. CASE Deliver(a)
    <2>1. /\ worker[a].st = "deliver" /\ worker[a].st \in Carrying /\ worker[a].st \in Delivering
          /\ UNCHANGED reg
      BY <1>10 DEF Deliver, Carrying, Delivering, registry
    <2>2. 1 \in 0..MaxAttempts
      BY DeliveryConstants
    <2> QED
      BY <1>7, <1>8, <1>10, <2>1, <2>2 DEF Deliver
  <1>11. CASE Wait(a)
    <2>1. /\ worker[a].st = "wait" /\ worker[a].st \in Carrying /\ worker[a].st \in Delivering
          /\ UNCHANGED reg /\ "park" \in Carrying /\ IsAcked(worker[a].job)
      BY <1>0, <1>11 DEF Wait, Carrying, Delivering, registry, IsWorker
    <2>2. worker[a].attempt + 1 \in 0..MaxAttempts /\ worker[a].pending \in SUBSET Subs
      BY <1>0, <2>1, DeliveryConstants DEF IsWorker
    <2> QED
      BY <1>5, <1>7, <1>8, <1>11, <2>1, <2>2 DEF Wait
  <1>12. CASE GiveUp(a)
    <2>1. /\ worker[a].st = "giveUp" /\ worker[a].st \in Carrying /\ worker[a].st \in Delivering
          /\ UNCHANGED reg /\ {"letter", "park"} \subseteq Carrying /\ IsAcked(worker[a].job)
      BY <1>0, <1>12 DEF GiveUp, Carrying, Delivering, registry, IsWorker
    <2> QED
      BY <1>5, <1>7, <1>12, <2>1 DEF GiveUp
  <1>13. CASE DeadLetter(a)
    <2>1. /\ worker[a].st = "letter" /\ worker[a].st \in Carrying /\ worker[a].st \in Delivering
          /\ UNCHANGED reg /\ {"ack", "park"} \subseteq Carrying /\ IsAcked(worker[a].job)
      BY <1>0, <1>13 DEF DeadLetter, Carrying, Delivering, registry, IsWorker
    <2> QED
      BY <1>5, <1>13, <2>1 DEF DeadLetter
  <1>14. ASSUME NEW failed \in SUBSET Subs, Attempt(a, failed)
         PROVE  QueuesOK' /\ WorkersOK' /\ Attended'
    <2>1. /\ worker[a].st = "attempt" /\ worker[a].st \in Carrying /\ worker[a].st \in Delivering
          /\ UNCHANGED reg /\ IsAcked(worker[a].job)
      BY <1>0, <1>14 DEF Attempt, Carrying, Delivering, registry, IsWorker
    <2>2. PICK s : s = AfterRound(a, failed)
      OBVIOUS
    <2>3. s \in Carrying /\ (s = "wait" => worker[a].attempt < MaxAttempts)
      BY <1>0, <2>2, DeliveryConstants DEF AfterRound, Carrying, Delivering, IsWorker
    <2>4. IsWorker(worker'[a])
      <3>0. /\ worker[a].attempt \in 0..MaxAttempts /\ worker[a].pending \in SUBSET Subs
            /\ worker[a].ok \in BOOLEAN
        BY <1>0 DEF IsWorker
      <3>1. worker'[a] = [st |-> s, job |-> worker[a].job, halt |-> worker[a].halt,
                          attempt |-> worker[a].attempt, pending |-> failed,
                          ok |-> worker[a].ok, last |-> worker[a].last]
        BY <1>14, <2>2, AttemptEffect
      <3> QED
        BY <1>14, <2>1, <2>3, <3>0, <3>1, MovedOK
    <2> QED
      BY <1>1, <1>2, <1>14, <2>1, <2>2, <2>3, <2>4, AttemptEffect, MoveShape
  <1>15. CASE ParkIfCurrent(a)
    <2>1. worker[a].st = "park" /\ worker[a].st \in Carrying /\ End(a, FALSE)
      BY <1>15 DEF ParkIfCurrent, Carrying, Delivering
    <2>2. CASE UNCHANGED reg
      BY <1>7, <2>1, <2>2
    <2>3. CASE Park(a, {})
      BY <1>1, <1>6, <2>1, <2>3, ParkShape, MoveShape
    <2> QED
      BY <1>15, <2>2, <2>3 DEF ParkIfCurrent, registry
  <1>16. CASE Ack(a)
    <2>1. /\ worker[a].st = "ack" /\ worker[a].st \in Carrying /\ UNCHANGED reg
          /\ "park" \in Carrying /\ IsAcked(worker[a].job)
      BY <1>0, <1>16 DEF Ack, Carrying, Delivering, registry, IsWorker
    <2> QED
      BY <1>5, <1>7, <1>16, <2>1 DEF Ack
  <1>17. CASE Finish(a)
    <2>1. AttendedAt(a)' /\ QueueOK(reg'[a])
      BY <1>0, <1>1, <1>17, FinishEffect DEF AttendedAt
    <2> QED
      BY <1>1, <1>17, <2>1, FinishEffect, LocalShape
  <1> QED
    BY <1>3, <1>4, <1>9, <1>10, <1>11, <1>12, <1>13, <1>14, <1>15, <1>16, <1>17 DEF WorkerStep

-----------------------------------------------------------------------------
(* The other steps, and the invariance of the shape.                       *)

LEMMA AppendStream ==
  ASSUME Shape, NEW a \in Aggs, NEW kind \in Kinds, Len(stream[a]) < MaxVersion,
         stream' = [stream EXCEPT ![a] = Append(@, kind)]
  PROVE  /\ stream' \in [Aggs -> Seq(Kinds)]
         /\ Len(stream'[a]) = Len(stream[a]) + 1 /\ Len(stream[a]) + 1 \in Versions
         /\ stream'[a][Len(stream[a]) + 1] = kind /\ stream'[a] # <<>>
         /\ \A v \in 1..Len(stream[a]) : stream'[a][v] = stream[a][v]
         /\ \A b \in Aggs \ {a} : stream'[b] = stream[b]
  <1>1. stream \in [Aggs -> Seq(Kinds)] /\ stream[a] \in Seq(Kinds) /\ MaxVersion \in Nat
    BY DeliveryConstants DEF Shape, StoreOK
  <1>2. stream'[a] = Append(stream[a], kind) /\ \A b \in Aggs \ {a} : stream'[b] = stream[b]
    BY <1>1
  <1>3. /\ Append(stream[a], kind) \in Seq(Kinds) /\ Append(stream[a], kind) # <<>>
        /\ Len(Append(stream[a], kind)) = Len(stream[a]) + 1
        /\ Append(stream[a], kind)[Len(stream[a]) + 1] = kind
        /\ \A v \in 1..Len(stream[a]) : Append(stream[a], kind)[v] = stream[a][v]
    BY <1>1, AppendProperties
  <1>4. Len(stream[a]) + 1 \in Versions
    BY <1>1, LenProperties DEF Versions
  <1> QED
    BY <1>1, <1>2, <1>3, <1>4

LEMMA StoreGrows ==
  ASSUME Shape, NEW a \in Aggs, NEW kind \in Kinds, Len(stream[a]) < MaxVersion,
         stream' = [stream EXCEPT ![a] = Append(@, kind)], UNCHANGED backlog,
         log' \in Seq(Aggs \X Versions),
         ToSet(log') \subseteq ToSet(log) \cup {<<a, Len(stream[a]) + 1>>}
  PROVE  StoreOK'
  <1>0. \A b \in Aggs : Len(stream[b]) \in Nat /\ Len(stream[b]) <= MaxVersion
    BY LenProperties DEF Shape, StoreOK
  <1>1. MaxVersion \in Nat
    BY DeliveryConstants
  <1>2. /\ stream' \in [Aggs -> Seq(Kinds)]
        /\ Len(stream'[a]) = Len(stream[a]) + 1
        /\ \A b \in Aggs \ {a} : stream'[b] = stream[b]
    BY AppendStream
  <1>3. \A b \in Aggs : Len(stream'[b]) <= MaxVersion /\ Len(stream[b]) <= Len(stream'[b])
    BY <1>0, <1>1, <1>2
  <1>4. ASSUME NEW b \in Aggs, NEW v \in Versions, <<b, v>> \in ToSet(log')
        PROVE  v <= Len(stream'[b])
    <2>1. CASE <<b, v>> \in ToSet(log)
      <3>1. v <= Len(stream[b]) /\ v \in Nat /\ Len(stream'[b]) \in Nat
        BY <1>2, <2>1, LenProperties DEF Shape, StoreOK, Versions
      <3> QED
        BY <1>0, <1>3, <3>1
    <2>2. CASE <<b, v>> = <<a, Len(stream[a]) + 1>>
      BY <1>0, <1>2, <2>2
    <2> QED
      BY <1>4, <2>1, <2>2
  <1>5. ASSUME NEW b \in Aggs, NEW v \in backlog[b] PROVE v <= Len(stream'[b])
    <2>1. v <= Len(stream[b]) /\ v \in Nat /\ Len(stream'[b]) \in Nat
      BY <1>2, LenProperties DEF Shape, StoreOK, Versions
    <2> QED
      BY <1>0, <1>3, <2>1
  <1> QED
    BY <1>2, <1>3, <1>4, <1>5 DEF Shape, StoreOK

LEMMA CommitShape ==
  ASSUME Shape, NEW a \in Aggs, NEW kind \in {"live", "durable"}, Commit(a, kind)
  PROVE  StoreOK' /\ ExecOK'
  <1>0. /\ kind \in Kinds /\ Len(stream[a]) < MaxVersion
        /\ UNCHANGED <<backlog, up, quit, closed, forget>>
        /\ up /\ ~closed
    BY DEF Commit, Kinds, process
  <1>1. stream' = [stream EXCEPT ![a] = Append(@, kind)]
    BY DEF Commit
  <1>2. Len(stream[a]) + 1 \in Versions
    BY <1>0, <1>1, AppendStream
  <1>3. /\ log' \in Seq(Aggs \X Versions)
        /\ ToSet(log') \subseteq ToSet(log) \cup {<<a, Len(stream[a]) + 1>>}
    <2>0. PICK d : d = <<a, Len(stream[a]) + 1>>
      OBVIOUS
    <2>1. log' = log \/ log' = Append(log, d)
      BY <2>0 DEF Commit
    <2>2. log \in Seq(Aggs \X Versions) /\ d \in Aggs \X Versions
      BY <1>2, <2>0 DEF Shape, StoreOK
    <2>3. log' \in Seq(Aggs \X Versions) /\ ToSet(log') \subseteq ToSet(log) \cup {d}
      <3>1. CASE log' = log
        BY <2>2, <3>1
      <3>2. CASE log' = Append(log, d)
        <4>1. /\ Append(log, d) \in Seq(Aggs \X Versions)
              /\ ToSet(Append(log, d)) = ToSet(log) \cup {d}
          BY <2>2, ToSetAppend
        <4> QED
          BY <3>2, <4>1
      <3> QED
        BY <2>1, <3>1, <3>2
    <2> QED
      BY <2>0, <2>3
  <1>4. StoreOK'
    BY <1>0, <1>1, <1>3, StoreGrows
  <1>5. lock' = [lock EXCEPT ![a] = "command"]
    BY DEF Commit
  <1>6. stream'[a] # <<>> /\ \A b \in Aggs \ {a} : stream'[b] = stream[b]
    BY <1>0, <1>1, AppendStream
  <1>7. ExecOK'
    BY <1>0, <1>5, <1>6 DEF Shape, ExecOK
  <1> QED
    BY <1>4, <1>7

LEMMA TombstoneShape ==
  ASSUME Shape, NEW a \in Aggs, WriteTombstone(a)
  PROVE  StoreOK' /\ ExecOK'
  <1>1. PICK v : v = Len(stream[a]) + 1
    OBVIOUS
  <1>2. /\ UNCHANGED <<backlog, up, quit, closed>> /\ lock[a] = "tombstone"
        /\ stream' = [stream EXCEPT ![a] = Append(@, "forget")]
        /\ log' = Append(WithoutAgg(a), <<a, v>>)
        /\ lock' = [lock EXCEPT ![a] = "forget"]
        /\ forget' = [forget EXCEPT ![a] = [st |-> "committed", ver |-> v]]
    BY <1>1 DEF WriteTombstone, process
  <1>3. /\ up /\ ~closed /\ Len(stream[a]) < MaxVersion /\ "forget" \in Kinds
        /\ v \in Versions
    BY <1>1, <1>2, LenProperties, DeliveryConstants DEF Shape, StoreOK, ExecOK, Versions, Kinds
  <1>4. WithoutAgg(a) \in Seq(Aggs \X Versions) /\ ToSet(WithoutAgg(a)) \subseteq ToSet(log)
    BY KeepProperties DEF WithoutAgg, Shape, StoreOK
  <1>5. /\ log' \in Seq(Aggs \X Versions)
        /\ ToSet(log') \subseteq ToSet(log) \cup {<<a, Len(stream[a]) + 1>>}
    <2>0. PICK d : d = <<a, v>>
      OBVIOUS
    <2>1. d \in Aggs \X Versions /\ log' = Append(WithoutAgg(a), d)
      BY <1>2, <1>3, <2>0
    <2>2. log' \in Seq(Aggs \X Versions) /\ ToSet(log') = ToSet(WithoutAgg(a)) \cup {d}
      BY <1>4, <2>1, ToSetAppend
    <2> QED
      BY <1>1, <1>4, <2>0, <2>2
  <1>6. StoreOK'
    BY <1>2, <1>3, <1>5, StoreGrows
  <1>7. stream'[a] # <<>> /\ \A b \in Aggs \ {a} : stream'[b] = stream[b]
    BY <1>2, <1>3, AppendStream
  <1>8. ExecOK'
    <2>1. [st |-> "committed", ver |-> v] \in [st : ForgetStages, ver : 0..MaxVersion]
      BY <1>3, DeliveryConstants DEF ForgetStages, Versions
    <2>2. forget' \in [Aggs -> [st : ForgetStages, ver : 0..MaxVersion]]
      BY <1>2, <2>1 DEF Shape, ExecOK
    <2>3. lock' \in [Aggs -> {"free", "command", "tombstone", "forget"} \cup Resumers]
      BY <1>2 DEF Shape, ExecOK
    <2>4. ASSUME NEW b \in Aggs
          PROVE  /\ lock'[b] = "command" => stream'[b] # <<>>
                 /\ lock'[b] = "tombstone" =>
                        up' /\ stream'[b] # <<>> /\ Len(stream'[b]) < MaxVersion
                 /\ forget'[b].st # "none" => forget'[b].ver \in Versions
                 /\ up' => backlog'[b] = {}
      BY <1>2, <1>3, <1>7 DEF Shape, ExecOK
    <2> QED
      BY <1>2, <1>3, <2>2, <2>3, <2>4 DEF Shape, ExecOK
  <1> QED
    BY <1>6, <1>8

\* The stage of a Forget changes, and perhaps the lock of a is released.
LEMMA ForgetMoves ==
  ASSUME Shape, NEW a \in Aggs, NEW s \in ForgetStages, forget[a].st # "none",
         forget' = [forget EXCEPT ![a].st = s],
         UNCHANGED lock \/ lock' = [lock EXCEPT ![a] = "free"],
         UNCHANGED <<stream, up, quit, closed, backlog>>
  PROVE  ExecOK'
  <1>1. PICK f : f = [forget[a] EXCEPT !.st = s]
    OBVIOUS
  <1>2. f \in [st : ForgetStages, ver : 0..MaxVersion] /\ f.ver = forget[a].ver
    BY <1>1 DEF Shape, ExecOK
  <1>3. forget' = [forget EXCEPT ![a] = f]
    BY <1>1 DEF Shape, ExecOK
  <1> QED
    BY <1>2, <1>3 DEF Shape, ExecOK

\* The tombstone's transaction begins, or is rolled back.
LEMMA TransactionShape ==
  ASSUME Shape, NEW a \in Aggs, BeginTombstone(a) \/ TombstoneFails(a)
  PROVE  StoreOK' /\ ExecOK'
  <1>1. UNCHANGED <<stream, log, forget, up, quit, closed, backlog>>
    BY DEF BeginTombstone, TombstoneFails, store, process
  <1>2. \/ /\ lock' = [lock EXCEPT ![a] = "tombstone"]
           /\ up /\ ~closed /\ stream[a] # <<>> /\ Len(stream[a]) < MaxVersion
        \/ lock' = [lock EXCEPT ![a] = "free"]
    BY DEF BeginTombstone, TombstoneFails
  <1>3. ExecOK'
    BY <1>1, <1>2 DEF Shape, ExecOK
  <1> QED
    BY <1>1, <1>3, StoreUnchanged

LEMMA ForgetShape ==
  ASSUME Shape, NEW a \in Aggs, ForgetStep(a)
  PROVE  StoreOK' /\ ExecOK' /\ QueuesOK' /\ WorkersOK' /\ Attended'
  <1>0. UNCHANGED <<up, quit, closed, backlog>>
    BY DEF ForgetStep, WriteTombstone, TombstoneFails, ForgetSupersedes, EnqueueTombstone,
           AwaitTombstone, Erase, ForgetParks, ForgetClears, process
  <1>1. {"superseded", "waiting", "erase", "failed", "parked"} \subseteq ForgetStages
    BY DEF ForgetStages
  <1>2. NoForget \in [st : ForgetStages, ver : 0..MaxVersion] /\ NoForget.st = "none"
    BY DeliveryConstants DEF NoForget, ForgetStages
  <1>3. CASE ForgetSupersedes(a)
    <2>1. StoreOK' /\ ExecOK'
      BY <1>0, <1>1, <1>3, StoreUnchanged, ForgetMoves DEF ForgetSupersedes, ForgetAt, store
    <2> QED
      BY <1>0, <1>3, <2>1, SupersedeShape DEF ForgetSupersedes
  <1>4. CASE EnqueueTombstone(a)
    <2>1. StoreOK' /\ ExecOK'
      BY <1>0, <1>1, <1>4, StoreUnchanged, ForgetMoves DEF EnqueueTombstone, ForgetAt, store
    <2>2. forget[a].ver \in Versions /\ ~closed
      BY <1>4 DEF EnqueueTombstone, Shape, ExecOK
    <2>3. Job(forget[a].ver, "forget", TRUE) \in Jobs
      BY <2>2 DEF Job, Jobs, Kinds
    <2> QED
      BY <1>0, <1>4, <2>1, <2>2, <2>3, EnqueueShape DEF EnqueueTombstone
  <1>5. CASE AwaitTombstone(a)
    <2>1. /\ forget[a].st # "none" /\ UNCHANGED <<stream, log, lock, registry, worker>>
          /\ ForgetAt(a, "erase") \/ ForgetAt(a, "failed")
      BY <1>5 DEF AwaitTombstone, store
    <2>2. StoreOK' /\ ExecOK'
      BY <1>0, <1>1, <2>1, StoreUnchanged, ForgetMoves DEF ForgetAt
    <2> QED
      BY <1>0, <2>1, <2>2, SameShape
  <1>6. CASE Erase(a)
    <2>1. UNCHANGED <<lock, registry, worker>> /\ lock[a] = "free" /\ forget[a].st # "none"
      BY <1>6 DEF Erase
    <2>2. CASE ForgetAt(a, "failed") /\ UNCHANGED store
      <3>1. StoreOK' /\ ExecOK'
        BY <1>0, <1>1, <2>1, <2>2, StoreUnchanged, ForgetMoves DEF ForgetAt, store
      <3> QED
        BY <1>0, <2>1, <3>1, SameShape
    <2>3. CASE /\ stream' = [stream EXCEPT ![a] = <<>>] /\ log' = WithoutAgg(a)
               /\ forget' = [forget EXCEPT ![a] = NoForget]
      <3>1. /\ log' \in Seq(Aggs \X Versions)
            /\ ToSet(log') = ToSet(log) \cap {d \in ToSet(log) : d[1] # a}
        BY <2>3, LogKept DEF WithoutAgg
      <3>2. up /\ backlog[a] = {}
        BY <2>1 DEF Shape, ExecOK
      <3>3. stream'[a] = <<>> /\ \A b \in Aggs \ {a} : stream'[b] = stream[b]
        BY <2>3 DEF Shape, StoreOK
      <3>4. stream' \in [Aggs -> Seq(Kinds)] /\ Len(<<>>) = 0 /\ MaxVersion \in Nat
        BY <2>3, DeliveryConstants DEF Shape, StoreOK
      <3>5. \A b \in Aggs, v \in Versions :
                <<b, v>> \in ToSet(log') => b # a /\ <<b, v>> \in ToSet(log)
        BY <3>1
      <3>6. \A b \in Aggs : Len(stream'[b]) <= MaxVersion
        <4>1. \A b \in Aggs : Len(stream[b]) <= MaxVersion
          BY DEF Shape, StoreOK
        <4> QED
          BY <3>3, <3>4, <4>1
      <3>7. StoreOK'
        BY <1>0, <3>1, <3>2, <3>3, <3>4, <3>5, <3>6 DEF Shape, StoreOK
      <3>8. forget' \in [Aggs -> [st : ForgetStages, ver : 0..MaxVersion]]
        BY <1>2, <2>3 DEF Shape, ExecOK
      <3>9. ExecOK'
        BY <1>0, <1>2, <2>1, <2>3, <3>3, <3>8 DEF Shape, ExecOK
      <3> QED
        BY <1>0, <2>1, <3>7, <3>9, SameShape
    <2> QED
      BY <1>6, <2>2, <2>3 DEF Erase
  <1>7. CASE ForgetParks(a)
    <2>1. StoreOK' /\ ExecOK'
      BY <1>0, <1>1, <1>7, StoreUnchanged, ForgetMoves DEF ForgetParks, ForgetAt, store
    <2> QED
      BY <1>0, <1>7, <2>1, ParkOnlyShape DEF ForgetParks
  <1>8. CASE ForgetClears(a)
    <2>1. /\ UNCHANGED <<stream, log, lock, registry, worker>>
          /\ forget' = [forget EXCEPT ![a] = NoForget]
      BY <1>8 DEF ForgetClears, store
    <2>2. StoreOK'
      BY <1>0, <2>1, StoreUnchanged
    <2>3. forget' \in [Aggs -> [st : ForgetStages, ver : 0..MaxVersion]]
      BY <1>2, <2>1 DEF Shape, ExecOK
    <2>4. ExecOK'
      BY <1>0, <1>2, <2>1, <2>3 DEF Shape, ExecOK
    <2> QED
      BY <1>0, <2>1, <2>2, <2>4, SameShape
  <1>9. CASE WriteTombstone(a) \/ TombstoneFails(a)
    <2>1. StoreOK' /\ ExecOK' /\ UNCHANGED <<registry, worker>>
      BY <1>9, TombstoneShape, TransactionShape DEF WriteTombstone, TombstoneFails
    <2> QED
      BY <1>0, <2>1, SameShape
  <1> QED
    BY <1>3, <1>4, <1>5, <1>6, <1>7, <1>8, <1>9 DEF ForgetStep

\* What the scan of r found of aggregate a.
Found(r, a) == {v \in Versions : <<a, v>> \in resumer[r].scanned}

LEMMA MinOfTwo ==
  ASSUME NEW m \in Nat, NEW n \in Nat
  PROVE  Min({m, n}) = IF m <= n THEN m ELSE n
  <1>1. \E k \in {m, n} : \A y \in {m, n} : k <= y
    OBVIOUS
  <1>2. Min({m, n}) \in {m, n} /\ \A y \in {m, n} : Min({m, n}) <= y
    BY <1>1, Zenon DEF Min
  <1> QED
    BY <1>2

\* A read sees a part of the log, and all of it when it is isolated.
LEMMA VisibleLogged ==
  ASSUME Shape
  PROVE  /\ VisibleLog \in Seq(Aggs \X Versions) /\ ToSet(VisibleLog) \subseteq ToSet(log)
         /\ ~DirtyReads => VisibleLog = log
  BY KeepProperties DEF VisibleLog, Shape, StoreOK

\* One read of the log: a scan that ends has seen every visible entry of a listed
\* aggregate.
LEMMA ScanEffect ==
  ASSUME Shape, NEW r \in Resumers, Scan(r)
  PROVE  /\ \A q \in Resumers \ {r} : resumer'[q] = resumer[q]
         /\ resumer'[r].parks = resumer[r].parks /\ resumer'[r].limit \in Nat
         /\ resumer'[r].undelivered = resumer[r].undelivered
         /\ resumer'[r].rest = resumer[r].rest
         /\ resumer[r].scanned \subseteq resumer'[r].scanned
         /\ resumer'[r].scanned \subseteq resumer[r].scanned \cup ToSet(log)
         /\ \/ resumer'[r].st = "scan" /\ resumer'[r].todo = {}
            \/ /\ resumer'[r].st = "lift" /\ resumer'[r].todo = Listed(r)
               /\ \A d \in ToSet(VisibleLog) : d[1] \in Listed(r) => d \in resumer'[r].scanned
  <1> DEFINE w == VisibleLog
  <1>0. /\ resumer = [q \in Resumers |-> resumer[q]] /\ IsResumer(resumer[r])
        /\ resumer[r].limit \in Nat /\ w \in Seq(Aggs \X Versions) /\ Len(w) \in Nat
        /\ ToSet(w) \subseteq ToSet(log)
    BY VisibleLogged, LenProperties DEF Shape, IInv, ResumersOK, ScansOK
  <1> HIDE DEF w
  <1>1. PICK m : m = Min({resumer[r].limit, Len(w)})
    OBVIOUS
  <1>2. m = IF resumer[r].limit <= Len(w) THEN resumer[r].limit ELSE Len(w)
    BY <1>0, <1>1, MinOfTwo
  <1>3. PICK p : p = SubSeq(w, 1, m)
    OBVIOUS
  <1>4. /\ p \in Seq(Aggs \X Versions) /\ Len(p) = m /\ m \in Nat
        /\ \A i \in 1..m : p[i] = w[i]
    BY <1>0, <1>2, <1>3, SubSeqProperties
  <1>5. ToSet(p) \subseteq ToSet(w) /\ (m = Len(w) => ToSet(p) = ToSet(w))
    <2>1. DOMAIN p = 1..m /\ DOMAIN w = 1..Len(w) /\ 1..m \subseteq 1..Len(w)
      BY <1>0, <1>2, <1>4, LenProperties
    <2> QED
      BY <1>4, <2>1 DEF ToSet
  <1>6. PICK S : S = {d \in ToSet(p) : d[1] \in Listed(r)}
    OBVIOUS
  <1>7. PICK k : k = IF m < resumer[r].limit THEN 0 ELSE 2 * resumer[r].limit
    OBVIOUS
  <1>8. PICK t : t = IF m < resumer[r].limit THEN Listed(r) ELSE {}
    OBVIOUS
  <1>9. PICK s : s = IF m < resumer[r].limit THEN "lift" ELSE "scan"
    OBVIOUS
  <1>10. resumer' = [resumer EXCEPT
            ![r].scanned = @ \cup S, ![r].limit = k, ![r].todo = t, ![r].st = s]
    <2>1. resumer' = [resumer EXCEPT
            ![r].scanned = @ \cup S,
            ![r].limit = IF Len(p) < @ THEN 0 ELSE 2 * @,
            ![r].todo = IF Len(p) < resumer[r].limit THEN Listed(r) ELSE {},
            ![r].st = IF Len(p) < resumer[r].limit THEN "lift" ELSE "scan"]
      BY <1>1, <1>3, <1>6 DEF Scan, w
    <2> QED
      BY <1>0, <1>4, <1>7, <1>8, <1>9, <2>1
  <1>11. PICK x : x = [resumer[r] EXCEPT !.scanned = @ \cup S, !.limit = k, !.todo = t, !.st = s]
    OBVIOUS
  <1>12. resumer'[r] = x /\ \A q \in Resumers \ {r} : resumer'[q] = resumer[q]
    BY <1>0, <1>10, <1>11
  <1>13. /\ x.parks = resumer[r].parks /\ x.limit = k /\ x.todo = t /\ x.st = s
         /\ x.undelivered = resumer[r].undelivered /\ x.rest = resumer[r].rest
         /\ x.scanned = resumer[r].scanned \cup S
    BY <1>0, <1>11 DEF IsResumer
  <1>14. k \in Nat /\ S \subseteq ToSet(log)
    BY <1>0, <1>5, <1>6, <1>7
  <1>15. ASSUME m < resumer[r].limit PROVE \A d \in ToSet(w) : d[1] \in Listed(r) => d \in S
    <2>1. m = Len(w)
      BY <1>0, <1>2, <1>15
    <2> QED
      BY <1>5, <1>6, <2>1
  <1> QED
    BY <1>8, <1>9, <1>12, <1>13, <1>14, <1>15 DEF w

LEMMA LiftParkEffect ==
  ASSUME Shape, NEW r \in Resumers, NEW a \in Aggs, LiftPark(r, a),
         IsPark(reg[a], resumer[r].parks[a])
  PROVE  /\ \A q \in Resumers \ {r} : resumer'[q] = resumer[q]
         /\ resumer'[r].st = "redeliver" /\ resumer'[r].todo = resumer[r].todo
         /\ resumer'[r].parks = resumer[r].parks /\ resumer'[r].limit = resumer[r].limit
         /\ resumer'[r].scanned = resumer[r].scanned
         /\ resumer'[r].undelivered = reg[a].undelivered
         /\ resumer'[r].rest = Found(r, a) \cup reg[a].undelivered
  <1>0. resumer = [q \in Resumers |-> resumer[q]] /\ IsResumer(resumer[r])
    BY DEF Shape, IInv, ResumersOK
  <1>1. PICK f : f = Found(r, a) \cup reg[a].undelivered
    OBVIOUS
  <1>2. resumer' = [resumer EXCEPT ![r].st = "redeliver", ![r].undelivered = reg[a].undelivered,
                                   ![r].rest = f]
    BY <1>1 DEF LiftPark, Found
  <1>3. PICK x : x = [resumer[r] EXCEPT !.st = "redeliver", !.undelivered = reg[a].undelivered,
                                        !.rest = f]
    OBVIOUS
  <1>4. resumer'[r] = x /\ \A q \in Resumers \ {r} : resumer'[q] = resumer[q]
    BY <1>0, <1>2, <1>3
  <1>5. /\ x.st = "redeliver" /\ x.todo = resumer[r].todo /\ x.parks = resumer[r].parks
        /\ x.limit = resumer[r].limit /\ x.scanned = resumer[r].scanned
        /\ x.undelivered = reg[a].undelivered /\ x.rest = f
    BY <1>0, <1>3 DEF IsResumer
  <1> QED
    BY <1>1, <1>4, <1>5

\* How NextAggregate leaves the calls of Resume.
LEMMA NextAggregateScans ==
  ASSUME Shape, NEW r \in Resumers, NEW a, NextAggregate(r, a)
  PROVE  ScansOK'
  <1>0. resumer = [q \in Resumers |-> resumer[q]] /\ IsResumer(resumer[r])
    BY DEF Shape, IInv, ResumersOK
  <1>1. PICK y : y = [resumer[r] EXCEPT !.st = "lift", !.todo = @ \ {a}, !.undelivered = {},
                                        !.rest = {}]
    OBVIOUS
  <1>2. PICK x : x = (IF resumer[r].todo = {a} THEN NoResumer ELSE y)
    OBVIOUS
  <1>3. y.undelivered = {} /\ y.rest = {} /\ y.limit = resumer[r].limit
    BY <1>0, <1>1 DEF IsResumer
  <1>4. x.undelivered = {} /\ x.rest = {} /\ x.limit \in Nat
    BY <1>2, <1>3 DEF NoResumer, Shape, ScansOK
  <1>5. resumer' = [resumer EXCEPT ![r] = x]
    BY <1>1, <1>2 DEF NextAggregate
  <1>6. resumer'[r] = x /\ \A q \in Resumers \ {r} : resumer'[q] = resumer[q]
    BY <1>0, <1>5
  <1> QED
    BY <1>4, <1>6 DEF Shape, ScansOK

LEMMA ResumeShape ==
  ASSUME Shape, NEW r \in Resumers, ResumeStep(r)
  PROVE  StoreOK' /\ ExecOK' /\ ScansOK' /\ QueuesOK' /\ WorkersOK' /\ Attended'
  <1>0. resumer = [q \in Resumers |-> resumer[q]] /\ IsResumer(resumer[r])
    BY DEF Shape, IInv, ResumersOK
  <1>1. UNCHANGED <<stream, forget, up, quit, closed, backlog>>
    BY ScanReads DEF ResumeStep, ListParks, AbandonResume, LiftPark, Redeliver, Redelivered,
           RedeliverFails, store, exec, process
  <1>2. ASSUME UNCHANGED <<store, exec, registry, worker>>
        PROVE  StoreOK' /\ ExecOK' /\ QueuesOK' /\ WorkersOK' /\ Attended'
    BY <1>1, <1>2, StoreUnchanged, ExecSame, SameShape DEF store, exec
  <1>3. ASSUME NEW x, resumer' = [resumer EXCEPT ![r] = x], x.undelivered \subseteq Versions,
               x.rest \subseteq Versions, x.limit \in Nat
        PROVE  ScansOK'
    <2>1. resumer'[r] = x /\ \A q \in Resumers \ {r} : resumer'[q] = resumer[q]
      BY <1>0, <1>3
    <2> QED
      BY <1>3, <2>1 DEF Shape, ScansOK
  <1>4. ASSUME NEW a \in Aggs, NEW l \in {"free"} \cup Resumers, lock' = [lock EXCEPT ![a] = l]
        PROVE  ExecOK'
    BY <1>1, <1>4, DeliveryConstants DEF Shape, ExecOK
  <1>5. CASE ListParks(r)
    <2>1. PICK x : x = [NoResumer EXCEPT !.st = "scan", !.parks = Parks, !.limit = Batch]
      OBVIOUS
    <2>2. x.undelivered = {} /\ x.rest = {} /\ x.limit \in Nat
      BY <2>1, DeliveryConstants DEF NoResumer
    <2>3. resumer' = [resumer EXCEPT ![r] = x] /\ UNCHANGED <<store, exec, registry, worker>>
      BY <1>5, <2>1 DEF ListParks
    <2>4. ScansOK'
      BY <1>3, <2>2, <2>3
    <2> QED
      BY <1>2, <2>3, <2>4
  <1>6. CASE Scan(r)
    <2>1. ScansOK'
      BY <1>6, ScanEffect DEF Shape, ScansOK
    <2> QED
      BY <1>2, <1>6, <2>1, ScanReads
  <1>7. CASE AbandonResume(r)
    <2>0. PICK x : x = NoResumer
      OBVIOUS
    <2>1. x.undelivered = {} /\ x.rest = {} /\ x.limit \in Nat
      BY <2>0 DEF NoResumer
    <2>2. /\ resumer' = [resumer EXCEPT ![r] = x]
          /\ UNCHANGED <<store, exec, registry, worker>>
      BY <1>7, <2>0 DEF AbandonResume
    <2>3. ScansOK'
      BY <1>3, <2>1, <2>2
    <2> QED
      BY <1>2, <2>2, <2>3
  <1>8. ASSUME NEW a \in Aggs, LiftPark(r, a)
        PROVE  StoreOK' /\ ExecOK' /\ ScansOK' /\ QueuesOK' /\ WorkersOK' /\ Attended'
    <2>1. CASE ~IsPark(reg[a], resumer[r].parks[a])
      <3>1. UNCHANGED <<store, exec, registry, worker>> /\ NextAggregate(r, a)
        BY <1>8, <2>1 DEF LiftPark, exec
      <3> QED
        BY <1>2, <3>1, NextAggregateScans
    <2>2. CASE IsPark(reg[a], resumer[r].parks[a])
      <3>1. Lift(a) /\ lock' = [lock EXCEPT ![a] = r] /\ UNCHANGED store
        BY <1>8, <2>2 DEF LiftPark
      <3>2. /\ resumer'[r].undelivered = reg[a].undelivered
            /\ resumer'[r].rest = Found(r, a) \cup reg[a].undelivered
            /\ resumer'[r].limit = resumer[r].limit
            /\ \A q \in Resumers \ {r} : resumer'[q] = resumer[q]
        BY <1>8, <2>2, LiftParkEffect
      <3>3. ScansOK'
        BY <3>2 DEF Shape, ScansOK, QueuesOK, QueueOK, Found
      <3> QED
        BY <1>1, <1>4, <3>1, <3>3, StoreUnchanged, LiftShape DEF store
    <2> QED
      BY <2>1, <2>2
  <1>9. ASSUME NEW a \in Aggs, Redeliver(r, a)
        PROVE  StoreOK' /\ ExecOK' /\ ScansOK' /\ QueuesOK' /\ WorkersOK' /\ Attended'
    <2>1. PICK v \in resumer[r].rest :
                /\ v \in DOMAIN stream[a]
                /\ Enqueue(a, Job(v, stream[a][v], FALSE))
                /\ resumer' = [resumer EXCEPT ![r].rest = @ \ {v}]
      BY <1>9 DEF Redeliver
    <2>2. PICK x : x = [resumer[r] EXCEPT !.rest = @ \ {v}]
      OBVIOUS
    <2>3. /\ x.undelivered = resumer[r].undelivered /\ x.rest = resumer[r].rest \ {v}
          /\ x.limit = resumer[r].limit /\ resumer' = [resumer EXCEPT ![r] = x]
      BY <1>0, <2>1, <2>2 DEF IsResumer
    <2>4. ScansOK'
      BY <1>3, <2>3 DEF Shape, ScansOK
    <2>5. v \in Versions /\ stream[a][v] \in Kinds
      BY <2>1 DEF Shape, ScansOK, StoreOK
    <2>6. Job(v, stream[a][v], FALSE) \in Jobs
      BY <2>5 DEF Job, Jobs
    <2>7. ~closed /\ UNCHANGED <<store, exec>>
      BY <1>9 DEF Redeliver
    <2> QED
      BY <1>1, <2>1, <2>4, <2>6, <2>7, EnqueueShape, StoreUnchanged, ExecSame DEF store, exec
  <1>10. ASSUME NEW a \in Aggs, Redelivered(r, a)
         PROVE  StoreOK' /\ ExecOK' /\ ScansOK' /\ QueuesOK' /\ WorkersOK' /\ Attended'
    <2>1. /\ log' = Keep(log, {d \in ToSet(log) : ~(d[1] = a /\ d[2] \in resumer[r].rest)})
          /\ lock' = [lock EXCEPT ![a] = "free"]
          /\ NextAggregate(r, a) /\ UNCHANGED <<registry, worker>>
      BY <1>10 DEF Redelivered
    <2>2. log' \in Seq(Aggs \X Versions) /\ ToSet(log') \subseteq ToSet(log)
      BY <2>1, LogKept
    <2> QED
      BY <1>1, <1>4, <2>1, <2>2, StoreSame, NextAggregateScans, SameShape
  <1>11. ASSUME NEW a \in Aggs, RedeliverFails(r, a)
         PROVE  StoreOK' /\ ExecOK' /\ ScansOK' /\ QueuesOK' /\ WorkersOK' /\ Attended'
    <2>1. PICK vs : vs = resumer[r].undelivered \cap resumer[r].rest
      OBVIOUS
    <2>2. /\ Park(a, vs) /\ lock' = [lock EXCEPT ![a] = "free"] /\ NextAggregate(r, a)
          /\ UNCHANGED <<store, worker>>
      BY <1>11, <2>1 DEF RedeliverFails
    <2>3. vs \in SUBSET Versions
      BY <2>1 DEF Shape, ScansOK
    <2> QED
      BY <1>1, <1>4, <2>2, <2>3, StoreUnchanged, NextAggregateScans, ParkOnlyShape DEF store
  <1> QED
    BY <1>5, <1>6, <1>7, <1>8, <1>9, <1>10, <1>11 DEF ResumeStep

LEMMA CrashShape ==
  ASSUME Shape, Crash
  PROVE  StoreOK' /\ ExecOK' /\ ScansOK' /\ QueuesOK' /\ WorkersOK' /\ Attended'
  <1>1. StoreOK'
    <2>1. \A a \in Aggs : Pending(a) \in SUBSET Versions
      BY DEF Pending
    <2>2. \A a \in Aggs : \A v \in Pending(a) : <<a, v>> \in ToSet(log)
      BY PendingIsLogged DEF Pending, Shape
    <2>3. UNCHANGED <<stream, log>> /\ backlog' = [a \in Aggs |-> Pending(a)]
      BY DEF Crash, store
    <2> QED
      BY <2>1, <2>2, <2>3 DEF Shape, StoreOK
  <1>2. ExecOK'
    <2>1. NoForget \in [st : ForgetStages, ver : 0..MaxVersion] /\ NoForget.st = "none"
      BY DeliveryConstants DEF NoForget, ForgetStages
    <2> QED
      BY <2>1 DEF Crash, ExecOK
  <1>3. ScansOK'
    BY DEF Crash, ScansOK, NoResumer
  <1>4. QueuesOK' /\ WorkersOK' /\ Attended'
    BY AbsentShape, NoWorkerOK DEF Crash, QueuesOK, WorkersOK, Attended, AttendedAt
  <1> QED
    BY <1>1, <1>2, <1>3, <1>4

LEMMA NextShape == Shape /\ [Next]_vars => Shape'
  <1> SUFFICES ASSUME Shape, [Next]_vars
               PROVE  StoreOK' /\ ExecOK' /\ ScansOK' /\ QueuesOK' /\ WorkersOK' /\ Attended'
    BY NextIInv DEF Shape
  <1>1. ASSUME NEW a \in Aggs, EnqueueCommitted(a)
        PROVE  StoreOK' /\ ExecOK' /\ ScansOK' /\ QueuesOK' /\ WorkersOK' /\ Attended'
    <2>1. /\ UNCHANGED <<stream, log, forget, resumer, up, quit, closed, backlog>>
          /\ lock' = [lock EXCEPT ![a] = "free"] /\ lock[a] = "command"
      BY <1>1 DEF EnqueueCommitted, store, process
    <2>2. ~closed /\ stream[a] # <<>> /\ stream[a] \in Seq(Kinds) /\ Len(stream[a]) <= MaxVersion
      BY <2>1 DEF Shape, ExecOK, StoreOK
    <2>3. Len(stream[a]) \in Versions /\ Last(stream[a]) \in Kinds
      BY <2>2, EmptySeq, LenProperties, ElementOfSeq, DeliveryConstants DEF Versions, Last
    <2>4. PICK j : j = Job(Len(stream[a]), Last(stream[a]), TRUE)
      OBVIOUS
    <2>5. j \in Jobs /\ Enqueue(a, j)
      BY <1>1, <2>3, <2>4 DEF Job, Jobs, EnqueueCommitted
    <2>6. StoreOK' /\ ScansOK'
      BY <2>1, StoreUnchanged, ScansSame
    <2>7. ExecOK'
      BY <2>1 DEF Shape, ExecOK
    <2> QED
      BY <2>1, <2>2, <2>5, <2>6, <2>7, EnqueueShape
  <1>2. ASSUME NEW a \in Aggs, WorkerStep(a)
        PROVE  StoreOK' /\ ExecOK' /\ ScansOK' /\ QueuesOK' /\ WorkersOK' /\ Attended'
    <2>1. UNCHANGED <<stream, lock, forget, resumer, up, quit, closed, backlog>>
      BY <1>2 DEF WorkerStep, Pop, Drained, Woken, Retire, Stopped, BeginDelivery, Deliver, Wait,
             GiveUp, DeadLetter, Attempt, ParkIfCurrent, Ack, Finish, process, store, exec
    <2>2. log' \in Seq(Aggs \X Versions) /\ ToSet(log') \subseteq ToSet(log)
      <3>1. CASE UNCHANGED log
        BY <3>1 DEF Shape, StoreOK
      <3>2. CASE log' = Keep(log, ToSet(log) \ {<<a, worker[a].job.ver>>})
        BY <3>2, LogKept
      <3> QED
        BY <1>2, <3>1, <3>2
        DEF WorkerStep, Pop, Drained, Woken, Retire, Stopped, BeginDelivery, Deliver, Wait,
            GiveUp, DeadLetter, Attempt, ParkIfCurrent, Ack, Finish, store
    <2> QED
      BY <1>2, <2>1, <2>2, StoreSame, ExecSame, ScansSame, WorkerShape
  <1>3. ASSUME NEW a \in Aggs, ForgetStep(a)
        PROVE  StoreOK' /\ ExecOK' /\ ScansOK' /\ QueuesOK' /\ WorkersOK' /\ Attended'
    <2>1. UNCHANGED resumer
      BY <1>3 DEF ForgetStep, WriteTombstone, TombstoneFails, ForgetSupersedes,
             EnqueueTombstone, AwaitTombstone, Erase, ForgetParks, ForgetClears
    <2> QED
      BY <1>3, <2>1, ForgetShape, ScansSame
  <1>4. ASSUME NEW a \in Aggs, Recover(a)
        PROVE  StoreOK' /\ ExecOK' /\ ScansOK' /\ QueuesOK' /\ WorkersOK' /\ Attended'
    <2>1. PICK v \in backlog[a] :
            /\ Enqueue(a, Job(v, stream[a][v], FALSE)) /\ backlog' = [backlog EXCEPT ![a] = @ \ {v}]
      BY <1>4 DEF Recover
    <2>2. ~up /\ UNCHANGED <<stream, log, lock, forget, resumer, up, quit, closed>>
      BY <1>4 DEF Recover, store, exec
    <2>3. ~closed /\ v \in Versions /\ v <= Len(stream[a]) /\ stream[a] \in Seq(Kinds)
      BY <2>2 DEF Shape, ExecOK, StoreOK
    <2>4. stream[a][v] \in Kinds
      BY <2>3, ElementOfSeq DEF Versions
    <2>5. Job(v, stream[a][v], FALSE) \in Jobs
      BY <2>3, <2>4 DEF Job, Jobs
    <2>6. backlog' \in [Aggs -> SUBSET Versions] /\ \A b \in Aggs : backlog'[b] \subseteq backlog[b]
      BY <2>1 DEF Shape, StoreOK
    <2>7. StoreOK'
      BY <2>2, <2>6 DEF Shape, StoreOK
    <2>8. ExecOK'
      BY <2>2, <2>6 DEF Shape, ExecOK
    <2> QED
      BY <2>1, <2>2, <2>3, <2>5, <2>7, <2>8, EnqueueShape, ScansSame
  <1>5. ASSUME NEW a \in Aggs, RecoverFails(a)
        PROVE  StoreOK' /\ ExecOK' /\ ScansOK' /\ QueuesOK' /\ WorkersOK' /\ Attended'
    <2>1. /\ Park(a, backlog[a]) /\ backlog' = [backlog EXCEPT ![a] = {}] /\ ~up
          /\ UNCHANGED <<stream, log, lock, forget, resumer, up, quit, closed, worker>>
      BY <1>5 DEF RecoverFails, store, exec
    <2>2. backlog[a] \in SUBSET Versions
      BY DEF Shape, StoreOK
    <2>3. backlog' \in [Aggs -> SUBSET Versions] /\ \A b \in Aggs : backlog'[b] \subseteq backlog[b]
      BY <2>1 DEF Shape, StoreOK
    <2>4. StoreOK'
      BY <2>1, <2>3 DEF Shape, StoreOK
    <2>5. ExecOK'
      BY <2>1, <2>3 DEF Shape, ExecOK
    <2> QED
      BY <2>1, <2>2, <2>4, <2>5, ParkOnlyShape, ScansSame
  <1>6. ASSUME NEW a \in Aggs, Commit(a, "live") \/ Commit(a, "durable") \/ BeginTombstone(a)
        PROVE  StoreOK' /\ ExecOK' /\ ScansOK' /\ QueuesOK' /\ WorkersOK' /\ Attended'
    <2>1. UNCHANGED <<resumer, registry, worker, closed>>
      BY <1>6 DEF Commit, BeginTombstone, process
    <2>2. StoreOK' /\ ExecOK'
      BY <1>6, CommitShape, TransactionShape
    <2> QED
      BY <2>1, <2>2, ScansSame, SameShape
  <1>7. CASE Recovered \/ Interrupt
    <2>1. UNCHANGED <<stream, log, lock, forget, resumer, closed, backlog, registry, worker>>
      BY <1>7 DEF Recovered, Interrupt, store, exec
    <2>2. ExecOK'
      BY <1>7, <2>1 DEF Recovered, Interrupt, Shape, ExecOK
    <2> QED
      BY <2>1, <2>2, StoreUnchanged, ScansSame, SameShape
  <1>8. CASE CloseDispatcher
    <2>1. /\ UNCHANGED <<stream, log, lock, forget, resumer, up, quit, backlog, registry, worker>>
          /\ closed' = TRUE /\ quit
          /\ \A a \in Aggs : lock[a] \notin {"command", "tombstone"} /\ forget[a].st = "none"
      BY <1>8 DEF CloseDispatcher, store, exec
    <2>2. up
      BY <2>1, <1>8 DEF Shape, ExecOK
    <2>3. ExecOK'
      BY <2>1, <2>2 DEF Shape, ExecOK
    <2>4. QueuesOK' /\ WorkersOK' /\ Attended'
      BY <2>1 DEF Shape, QueuesOK, WorkersOK, Attended, AttendedAt, registry
    <2> QED
      BY <2>1, <2>3, <2>4, StoreUnchanged, ScansSame
  <1>9. CASE UNCHANGED vars
    BY <1>9, StoreUnchanged, ExecSame, ScansSame, SameShape DEF vars, store, exec, process
  <1> QED
    BY <1>1, <1>2, <1>3, <1>4, <1>5, <1>6, <1>7, <1>8, <1>9, ResumeShape, CrashShape
    DEF Next, Progress

LEMMA InvarianceOfShape == Spec => []Shape
  BY InitShape, NextShape, PTL DEF Spec

(***************************************************************************)
(* The shape of the store, the registry and the workers, for any number of *)
(* aggregates, subscribers, Resume calls and attempts: the queue holds     *)
(* jobs of the stream, and a delivery never makes more attempts than are   *)
(* configured (retry_loop.go:22-40).                                       *)
(***************************************************************************)
THEOREM TypesAreCorrect == Spec => []TypeOK
  <1>1. Shape => TypeOK
    <2> SUFFICES ASSUME Shape PROVE TypeOK
      OBVIOUS
    <2>1. stream \in [Aggs -> UNION {[1..n -> Kinds] : n \in 0..MaxVersion}]
      <3>1. \A a \in Aggs : /\ Len(stream[a]) \in 0..MaxVersion
                            /\ stream[a] \in [1..Len(stream[a]) -> Kinds]
        BY LenProperties, DeliveryConstants DEF Shape, StoreOK
      <3> QED
        BY <3>1 DEF Shape, StoreOK
    <2>2. ToSet(log) \subseteq Aggs \X Versions
      BY ElementOfSeq, LenProperties DEF Shape, StoreOK, ToSet
    <2>3. \A a \in Aggs : ToSet(reg[a].jobs) \subseteq Jobs /\ reg[a].undelivered \subseteq Versions
      BY ElementOfSeq, LenProperties DEF Shape, QueuesOK, QueueOK, ToSet
    <2>4. generation \in Nat
      BY DEF Shape, IInv, RegistryOK
    <2> QED
      BY <2>1, <2>2, <2>3, <2>4 DEF TypeOK, Shape, WorkersOK, IsWorker
  <1> QED
    BY InvarianceOfShape, <1>1, PTL

(***************************************************************************)
(* No queued job is left without a goroutine that will reach it, however   *)
(* the idle timer, the wake channel, a new job, a park and the stop of the *)
(* workers race (aggregate_pool.go:58-73, aggregate_registry.go:89-104).   *)
(***************************************************************************)
THEOREM QueuesAreServed == Spec => []QueueHasWorker
  <1>1. Shape => QueueHasWorker
    BY DEF Shape, Attended, AttendedAt, QueueHasWorker
  <1> QED
    BY InvarianceOfShape, <1>1, PTL

=============================================================================
