------------------------- MODULE DeliveryGuarantees -------------------------
(***************************************************************************)
(* The delivery guarantees of Delivery, proved for any aggregates,         *)
(* subscribers, Resume calls, attempts, batch size and bounds: every step  *)
(* keeps Good, the invariant of DeliveryInvariant, and Good gives that no  *)
(* event is lost and that a stream is erased only behind an accepted       *)
(* deletion marker.  When the store isolates its reads (~DirtyReads), it   *)
(* also gives that no event is stranded, overtaken or delivered out of     *)
(* order, and with Straight, which says that nothing goes back, Delivery   *)
(* implements Outbox, the promise to a durable subscriber.  Without that   *)
(* hypothesis none of the four holds (DeliveryDirtyScan.cfg).              *)
(***************************************************************************)
EXTENDS DeliveryInvariant

-----------------------------------------------------------------------------
(* The steps of a worker.                                                  *)

\* A step at a that keeps the invariant there and moves no other aggregate.
Served(a) == SoundHere(a)' /\ HistoryOK' /\ Elsewhere(a)

\* The executor does not move.
LEMMA StillThere ==
  ASSUME UNCHANGED <<stream, backlog, lock, fence, forget>>
  PROVE  \A b \in Aggs : SameExec(b) /\ (Pending(b)' = Pending(b) => SameStream(b))
  BY DEF SameExec, SameStream

\* A step of the worker of a moves no other aggregate.
LEMMA ElsewhereWorks ==
  ASSUME NEW a \in Aggs, UNCHANGED <<stream, backlog, lock, fence, forget>>,
         \A b \in Aggs \ {a} : /\ Pending(b)' = Pending(b) /\ SameHistory(b)
                               /\ ticket'[b] = ticket[b] /\ reg'[b] = reg[b]
                               /\ worker'[b] = worker[b]
  PROVE  Elsewhere(a)
  <1>1. \A b \in Aggs \ {a} : SameLine(b)
    BY DEF SameLine, SamePark
  <1> QED
    BY <1>1, StillThere DEF Elsewhere, Unmoved

\* The history of deliveries stays.
LEMMA HistorySame ==
  ASSUME HistoryOK, UNCHANGED <<handled, letters, started>>,
         ticket' \in [Aggs -> [Versions -> Tickets]]
  PROVE  HistoryOK' /\ \A b \in Aggs : SameHistory(b) /\ Remembers(b)
  BY DEF HistoryOK, SameHistory, Remembers, Tickets

\* A ticket that is settled keeps its outcome.
LEMMA SettledOnly ==
  ASSUME HistoryOK, NEW a \in Aggs, NEW u \in Versions, NEW s \in {"ok", "unrun"},
         UNCHANGED ticket \/ ticket' = [ticket EXCEPT ![a][u] = Settle(@, s)]
  PROVE  /\ ticket' \in [Aggs -> [Versions -> Tickets]]
         /\ \A b \in Aggs \ {a} : ticket'[b] = ticket[b]
         /\ \A v \in Versions : ticket'[a][v].final = ticket[a][v].final
  <1>0. ticket \in [Aggs -> [Versions -> Tickets]]
    BY TicketTypes
  <1>1. CASE UNCHANGED ticket
    BY <1>0, <1>1
  <1>2. CASE ticket' = [ticket EXCEPT ![a][u] = Settle(@, s)]
    <2>1. PICK t : t = Settle(ticket[a][u], s)
      OBVIOUS
    <2>2. ticket[a][u] \in Tickets
      BY <1>0
    <2>3. t \in Tickets /\ t.final = ticket[a][u].final
      BY <2>1, <2>2, TicketOK
    <2>4. ticket' = [ticket EXCEPT ![a][u] = t]
      <3> HIDE DEF Tickets
      <3> QED
        BY <1>0, <1>2, <2>1
    <2>5. Marks(a, u, t)
      BY <2>3, <2>4, MarksOne
    <2> QED
      BY <2>3, <2>5 DEF Marks
  <1> QED
    BY <1>1, <1>2

\* The job of a worker in delivery.
LEMMA AtWork ==
  ASSUME Good, NEW a \in Aggs, worker[a].st \in Delivering \cup {"held"}
  PROVE  /\ worker[a].st \in Carrying /\ worker[a].job \in Jobs /\ worker[a].job.ver \in Versions
         /\ worker[a].st \in Delivering => IsAcked(worker[a].job)
         /\ worker[a].pending \subseteq Subs
  <1>0. Shape
    BY DEF Good
  <1>1. worker[a].st \in Carrying
    BY DEF Carrying
  <1> QED
    BY <1>0, <1>1, JobVersions, ShapeAt DEF IsWorker

\* The worker goes on to another stage of the delivery.
LEMMA GotoSound ==
  ASSUME Good, NEW a \in Aggs, NEW s \in Delivering, Goto(a, s),
         worker[a].st \in Delivering \cup {"held"}, IsAcked(worker[a].job),
         UNCHANGED <<stream, log, lock, fence, forget, backlog, resumer, reg, ticket,
                     handled, started>>,
         \/ UNCHANGED letters
         \/ letters' = [letters EXCEPT ![a] = @ \cup {worker[a].job.ver}],
         \/ s \in {"deliver", "park"}
         \/ s = "letter" /\ worker[a].st = "giveUp" /\ worker[a].job.kind # "forget"
         \/ s = "ack" /\ worker[a].st = "letter" /\ worker[a].job.ver \in letters'[a]
  PROVE  Served(a)
  <1>0. Sound(a) /\ Shape /\ HistoryOK
    BY DEF Good
  <1>1. worker[a].job.ver \in Versions
    BY AtWork
  <1>2. /\ worker'[a].st = s /\ worker'[a].job = worker[a].job /\ worker'[a].halt = worker[a].halt
        /\ worker'[a].pending = worker[a].pending
        /\ \A b \in Aggs \ {a} : worker'[b] = worker[b]
    BY <1>0, GotoEffect DEF Moves
  <1>3. \A b \in Aggs : Pending(b)' = Pending(b) /\ SameStream(b) /\ SameExec(b)
    BY PendingSame, StillThere
  <1>4. /\ letters' \in [Aggs -> SUBSET Versions]
        /\ \A b \in Aggs \ {a} : letters'[b] = letters[b]
        /\ letters[a] \subseteq letters'[a]
        /\ letters'[a] \subseteq letters[a] \cup {worker[a].job.ver}
    <2>0. letters \in [Aggs -> SUBSET Versions]
      BY <1>0 DEF HistoryOK
    <2>1. PICK v : v = worker[a].job.ver
      OBVIOUS
    <2>2. CASE UNCHANGED letters
      BY <2>0, <2>2
    <2>3. CASE letters' = [letters EXCEPT ![a] = @ \cup {v}]
      BY <1>1, <2>0, <2>1, <2>3
    <2> QED
      BY <2>1, <2>2, <2>3
  <1>5. HistoryOK'
    BY <1>0, <1>4 DEF HistoryOK
  <1>6. Elsewhere(a)
    <2>1. \A b \in Aggs \ {a} : SameHistory(b)
      BY <1>4 DEF SameHistory
    <2> QED
      BY <1>2, <1>3, <2>1, ElsewhereWorks
  <1>7. CarriesOn(a)
    <2>1. Remembers(a)
      BY <1>4 DEF Remembers
    <2> QED
      BY <1>2, <1>3, <1>4, <2>1 DEF CarriesOn
  <1>8. /\ Logged(a)' /\ Matched(a)' /\ Halted(a)' /\ Ordered(a)' /\ Fenced(a)'
        /\ LeftAccepted(a)' /\ Resumable(a)' /\ InTurn(a)'
    BY <1>7, CarrySound
  <1>9. Handling(a)'
    BY <1>0, <1>2 DEF Sound, Handling
  <1>10. NoneBefore(a)'
    BY <1>2 DEF NoneBefore
  <1> QED
    BY <1>5, <1>6, <1>8, <1>9, <1>10 DEF Served, SoundHere

\* The worker ends a delivery that is no longer its own, or a live job.
LEMMA EndSound ==
  ASSUME Good, NEW a \in Aggs, NEW ok \in BOOLEAN, End(a, ok),
         worker[a].st \in Delivering \cup {"held"}, ~Working(a), ok => IsLive(worker[a].job),
         UNCHANGED <<stream, log, lock, fence, forget, backlog, resumer,
                     handled, letters, started>>,
         Only(a), SamePark(reg[a], reg'[a]), reg'[a].jobs = reg[a].jobs,
         \/ reg'[a].undelivered = reg[a].undelivered
         \/ /\ IsAcked(worker[a].job)
            /\ reg'[a].undelivered = reg[a].undelivered \cup {worker[a].job.ver},
         \/ UNCHANGED ticket
         \/ ticket' = [ticket EXCEPT ![a][worker[a].job.ver] = Settle(@, "unrun")]
  PROVE  Served(a)
  <1>0. Sound(a) /\ Shape /\ HistoryOK
    BY DEF Good
  <1>1. worker[a].job.ver \in Versions
    BY AtWork
  <1>2. /\ worker'[a].st = "finish" /\ worker'[a].job = worker[a].job
        /\ worker'[a].halt = worker[a].halt /\ worker'[a].ok = ok
        /\ \A b \in Aggs \ {a} : worker'[b] = worker[b]
    <2>1. Moves(a, "finish") /\ worker'[a] =
            [st |-> "finish", job |-> worker[a].job, halt |-> worker[a].halt,
             attempt |-> worker[a].attempt, pending |-> worker[a].pending,
             ok |-> ok, last |-> worker[a].last]
      BY <1>0, EndEffect
    <2>2. worker'[a].ok = ok
      BY <2>1
    <2> QED
      BY <2>1, <2>2 DEF Moves
  <1>3. \A b \in Aggs : Pending(b)' = Pending(b) /\ SameStream(b) /\ SameExec(b)
    BY PendingSame, StillThere
  <1>4. /\ ticket' \in [Aggs -> [Versions -> Tickets]]
        /\ \A b \in Aggs \ {a} : ticket'[b] = ticket[b]
        /\ \A v \in Versions : ticket'[a][v].final = ticket[a][v].final
    BY <1>0, <1>1, SettledOnly
  <1>5. HistoryOK' /\ \A b \in Aggs : SameHistory(b)
    BY <1>0, <1>4, HistorySame
  <1>6. Elsewhere(a)
    BY <1>2, <1>3, <1>4, <1>5, ElsewhereWorks DEF Only
  <1>7. Stops(a)
    BY <1>2, <1>3, <1>4, <1>5 DEF Stops
  <1>8. SoundHere(a)'
    BY <1>7, StopSound DEF SoundHere
  <1> QED
    BY <1>5, <1>6, <1>8 DEF Served

\* heldByPark, and past it the live publication.
LEMMA BeginSound ==
  ASSUME Good, NEW a \in Aggs, BeginDelivery(a)
  PROVE  Served(a)
  <1>0. Shape /\ reg = [b \in Aggs |-> reg[b]] /\ RecordOK(reg[a])
    BY DEF Good, Shape, IInv, RegistryOK
  <1>1. /\ worker[a].st = "held" /\ worker[a].st \in Delivering \cup {"held"}
        /\ UNCHANGED <<stream, log, lock, fence, forget, backlog, resumer,
                       handled, letters, started>>
    BY DEF BeginDelivery, store, exec, process, history
  <1>2. UNCHANGED reg => Only(a) /\ SamePark(reg[a], reg'[a])
    BY <1>0 DEF Only, SamePark
  <1>3. CASE IsLive(worker[a].job) /\ End(a, TRUE) /\ UNCHANGED <<reg, ticket>>
    <2>1. ~Working(a)
      BY <1>3 DEF Working, InDelivery, IsAcked
    <2> QED
      BY <1>1, <1>2, <1>3, <2>1, EndSound
  <1>4. CASE IsAcked(worker[a].job) /\ Goto(a, "deliver") /\ UNCHANGED <<reg, ticket>>
    <2>1. "deliver" \in Delivering
      BY DEF Delivering
    <2> QED
      BY <1>1, <1>4, <2>1, GotoSound
  <1>5. CASE /\ IsAcked(worker[a].job) /\ (reg[a].parked \/ IsShut(a))
             /\ reg' = IF reg[a].parked
                       THEN [reg EXCEPT ![a].undelivered = @ \cup {worker[a].job.ver}]
                       ELSE reg
             /\ ticket' = IF worker[a].job.fresh
                          THEN [ticket EXCEPT ![a][worker[a].job.ver] = Settle(@, "unrun")]
                          ELSE ticket
             /\ End(a, FALSE)
    <2>1. ~Working(a)
      BY <1>1, <1>5 DEF Working, Good, Sound, Halted
    <2>2. /\ Only(a) /\ SamePark(reg[a], reg'[a]) /\ reg'[a].jobs = reg[a].jobs
          /\ \/ reg'[a].undelivered = reg[a].undelivered
             \/ reg'[a].undelivered = reg[a].undelivered \cup {worker[a].job.ver}
      <3>1. CASE UNCHANGED reg
        BY <1>2, <3>1
      <3>2. CASE reg' = [reg EXCEPT ![a].undelivered = @ \cup {worker[a].job.ver}]
        <4>1. PICK s : s = [reg[a] EXCEPT !.undelivered = @ \cup {worker[a].job.ver}]
          OBVIOUS
        <4>2. reg'[a] = s /\ Only(a)
          BY <1>0, <3>2, <4>1 DEF Only
        <4>3. /\ s.jobs = reg[a].jobs /\ s.parked = reg[a].parked /\ s.gen = reg[a].gen
              /\ s.undelivered = reg[a].undelivered \cup {worker[a].job.ver}
          BY <1>0, <4>1 DEF RecordOK, IsRecord
        <4> QED
          BY <4>2, <4>3 DEF SamePark
      <3> QED
        BY <1>5, <3>1, <3>2
    <2>3. UNCHANGED ticket \/ ticket' = [ticket EXCEPT ![a][worker[a].job.ver] = Settle(@, "unrun")]
      BY <1>5
    <2>4. IsAcked(worker[a].job) /\ End(a, FALSE)
      BY <1>5
    <2> QED
      BY <1>1, <2>1, <2>2, <2>3, <2>4, EndSound
  <1> QED
    BY <1>3, <1>4, <1>5 DEF BeginDelivery

\* The handlers are called: nobody has stopped the delivery, so no entry is before it.
LEMMA TrySound ==
  ASSUME Good, NEW a \in Aggs, NEW n, NEW subs, Try(a, n, subs), ~IsShut(a),
         \/ worker[a].st = "deliver" /\ subs = Subs
         \/ worker[a].st = "wait" /\ subs = worker[a].pending,
         UNCHANGED <<stream, log, lock, fence, forget, backlog, resumer, reg, ticket>>
  PROVE  Served(a)
  <1>0. Sound(a) /\ Shape /\ HistoryOK
    BY DEF Good
  <1>d. worker[a].st \in Delivering \cup {"held"} /\ worker[a].st \in Delivering
    BY DEF Delivering
  <1>1. worker[a].job.ver \in Versions /\ IsAcked(worker[a].job)
    BY <1>d, AtWork
  <1>2. /\ worker'[a].st = "attempt" /\ worker'[a].job = worker[a].job
        /\ worker'[a].halt = worker[a].halt /\ worker'[a].pending = subs
        /\ \A b \in Aggs \ {a} : worker'[b] = worker[b]
    BY <1>0, TryEffect DEF Moves
  <1>3. \A b \in Aggs : Pending(b)' = Pending(b) /\ SameStream(b) /\ SameExec(b)
    BY PendingSame, StillThere
  <1>4. /\ started' \in [Aggs -> SUBSET Versions] /\ UNCHANGED <<handled, letters>>
        /\ \A b \in Aggs \ {a} : started'[b] = started[b]
        /\ started'[a] = started[a] \cup {worker[a].job.ver}
    <2>0. started \in [Aggs -> SUBSET Versions]
      BY <1>0 DEF HistoryOK
    <2>1. PICK v : v = worker[a].job.ver
      OBVIOUS
    <2>2. started' = [started EXCEPT ![a] = @ \cup {v}] /\ UNCHANGED <<handled, letters>>
      BY <2>1 DEF Try
    <2> QED
      BY <1>1, <2>0, <2>1, <2>2
  <1>5. HistoryOK'
    BY <1>0, <1>4 DEF HistoryOK
  <1>6. Elsewhere(a)
    <2>1. \A b \in Aggs \ {a} : SameHistory(b)
      BY <1>4 DEF SameHistory
    <2> QED
      BY <1>2, <1>3, <2>1, ElsewhereWorks
  <1>7. CarriesOn(a)
    <2>1. Remembers(a) /\ "attempt" \in Delivering
      BY <1>4 DEF Remembers, Delivering
    <2> QED
      BY <1>d, <1>1, <1>2, <1>3, <1>4, <2>1 DEF CarriesOn
  <1>8. /\ Logged(a)' /\ Matched(a)' /\ Halted(a)' /\ Ordered(a)' /\ Fenced(a)'
        /\ LeftAccepted(a)' /\ Resumable(a)' /\ InTurn(a)'
    BY <1>4, <1>7, CarrySound
  <1>9. Handling(a)'
    BY <1>0, <1>2, <1>4 DEF Sound, Handling
  <1>10. NoneBefore(a)'
    <2> SUFFICES ASSUME ~DirtyReads PROVE NoneBefore(a)'
      BY DEF NoneBefore
    <2>1. Working(a)
      BY <1>d, <1>1 DEF Working, InDelivery
    <2>2. \A v \in Pending(a) : worker[a].job.ver <= v
      BY <2>1, WorkingIsFirst
    <2> QED
      BY <1>2, <1>3, <2>2 DEF NoneBefore
  <1> QED
    BY <1>5, <1>6, <1>8, <1>9, <1>10 DEF Served, SoundHere

\* A round of handlers is over.
LEMMA AttemptSound ==
  ASSUME Good, NEW a \in Aggs, NEW failed \in SUBSET Subs, Attempt(a, failed)
  PROVE  Served(a)
  <1>0. Sound(a) /\ Shape /\ HistoryOK
    BY DEF Good
  <1>u. /\ worker[a].st = "attempt" /\ failed \subseteq worker[a].pending
        /\ UNCHANGED <<stream, log, lock, fence, forget, backlog, resumer, reg, letters, started>>
    BY DEF Attempt, store, exec, registry, process
  <1>d. worker[a].st \in Delivering \cup {"held"} /\ worker[a].st \in Delivering
    BY <1>u DEF Delivering
  <1>1. worker[a].job.ver \in Versions /\ IsAcked(worker[a].job) /\ worker[a].pending \subseteq Subs
    BY <1>d, AtWork
  <1>s. PICK s : s = AfterRound(a, failed)
    OBVIOUS
  <1>t. /\ s \in Delivering /\ s \in {"ack", "giveUp", "wait"} /\ (s = "ack" => failed = {})
    BY <1>s DEF AfterRound, Delivering
  <1>2. /\ worker'[a].st = s /\ worker'[a].job = worker[a].job
        /\ worker'[a].halt = worker[a].halt /\ worker'[a].pending = failed
        /\ \A b \in Aggs \ {a} : worker'[b] = worker[b]
    BY <1>0, <1>s, AttemptEffect DEF Moves
  <1>3. \A b \in Aggs : Pending(b)' = Pending(b) /\ SameStream(b) /\ SameExec(b)
    BY <1>u, PendingSame, StillThere
  <1>4. /\ handled' \in [Aggs -> [Versions -> SUBSET Subs]]
        /\ \A b \in Aggs \ {a} : handled'[b] = handled[b]
        /\ \A v \in Versions : handled[a][v] \subseteq handled'[a][v]
                               /\ handled'[a][v] \subseteq Subs
        /\ handled'[a][worker[a].job.ver] =
                handled[a][worker[a].job.ver] \cup (worker[a].pending \ failed)
    <2>0. handled \in [Aggs -> [Versions -> SUBSET Subs]]
      BY <1>0 DEF HistoryOK
    <2>1. PICK v : v = worker[a].job.ver
      OBVIOUS
    <2>2. PICK X : X = worker[a].pending \ failed
      OBVIOUS
    <2>3. handled' = [handled EXCEPT ![a][v] = @ \cup X]
      BY <2>1, <2>2 DEF Attempt
    <2>4. X \subseteq Subs /\ v \in Versions
      BY <1>1, <2>1, <2>2
    <2>5. PICK f : f = [handled[a] EXCEPT ![v] = @ \cup X]
      OBVIOUS
    <2>6. handled' = [handled EXCEPT ![a] = f] /\ f \in [Versions -> SUBSET Subs]
      BY <2>0, <2>3, <2>4, <2>5
    <2>7. /\ \A u \in Versions : handled[a][u] \subseteq f[u] /\ f[u] \subseteq Subs
          /\ f[v] = handled[a][v] \cup X
      BY <2>0, <2>4, <2>5
    <2>8. /\ handled' \in [Aggs -> [Versions -> SUBSET Subs]] /\ handled'[a] = f
          /\ \A b \in Aggs \ {a} : handled'[b] = handled[b]
      BY <2>0, <2>6
    <2> QED
      BY <2>1, <2>2, <2>7, <2>8
  <1>5. /\ ticket' \in [Aggs -> [Versions -> Tickets]]
        /\ \A b \in Aggs \ {a} : ticket'[b] = ticket[b]
        /\ \A v \in Versions : ticket'[a][v].final = ticket[a][v].final
    <2>1. \/ UNCHANGED ticket
          \/ ticket' = [ticket EXCEPT ![a][worker[a].job.ver] = Settle(@, "ok")]
      BY DEF Attempt, FirstSettled
    <2> QED
      BY <1>0, <1>1, <2>1, SettledOnly
  <1>6. HistoryOK'
    BY <1>0, <1>u, <1>4, <1>5 DEF HistoryOK, Tickets
  <1>7. Elsewhere(a)
    <2>1. \A b \in Aggs \ {a} : SameHistory(b)
      BY <1>u, <1>4 DEF SameHistory
    <2> QED
      BY <1>u, <1>2, <1>3, <1>5, <2>1, ElsewhereWorks
  <1>8. CarriesOn(a)
    <2>1. Remembers(a)
      BY <1>u, <1>4 DEF Remembers
    <2> QED
      BY <1>d, <1>u, <1>t, <1>1, <1>2, <1>3, <1>5, <2>1 DEF CarriesOn
  <1>9. /\ Logged(a)' /\ Matched(a)' /\ Halted(a)' /\ Ordered(a)' /\ Fenced(a)'
        /\ LeftAccepted(a)' /\ Resumable(a)' /\ InTurn(a)'
    BY <1>u, <1>8, CarrySound
  <1>10. Handling(a)'
    <2>1. Subs \ worker[a].pending \subseteq handled[a][worker[a].job.ver]
      BY <1>0, <1>u DEF Sound, Handling
    <2>2. Subs \ failed \subseteq handled'[a][worker[a].job.ver]
          /\ handled'[a][worker[a].job.ver] \subseteq Subs
      BY <1>1, <1>4, <2>1
    <2> QED
      BY <1>t, <1>2, <2>2 DEF Handling
  <1>11. NoneBefore(a)'
    BY <1>t, <1>2 DEF NoneBefore
  <1> QED
    BY <1>6, <1>7, <1>9, <1>10, <1>11 DEF Served, SoundHere

\* ParkIfCurrent.
LEMMA ParkStepSound ==
  ASSUME Good, NEW a \in Aggs, ParkIfCurrent(a)
  PROVE  Served(a)
  <1>0. Sound(a) /\ Shape /\ HistoryOK /\ reg = [b \in Aggs |-> reg[b]]
    BY DEF Good, Shape, IInv, RegistryOK
  <1>u. /\ worker[a].st = "park" /\ End(a, FALSE)
        /\ UNCHANGED <<stream, log, lock, fence, forget, backlog, resumer,
                       handled, letters, started>>
    BY DEF ParkIfCurrent, store, exec, process, history
  <1>d. worker[a].st \in Delivering \cup {"held"} /\ worker[a].st \in Delivering
    BY <1>u DEF Delivering
  <1>1. IsAcked(worker[a].job)
    BY <1>d, AtWork
  <1>2. CASE IsShut(a) /\ UNCHANGED <<reg, ticket>>
    <2>1. ~Working(a) /\ Only(a) /\ SamePark(reg[a], reg'[a])
      BY <1>0, <1>2 DEF Working, Only, SamePark
    <2> QED
      BY <1>d, <1>u, <1>2, <2>1, EndSound
  <1>3. CASE ~IsShut(a) /\ Park(a, {})
    <2>1. Working(a)
      BY <1>d, <1>1, <1>3 DEF Working, InDelivery
    <2>2. ~reg[a].parked
      BY <2>1, WorkingIsFirst
    <2>3. Only(a) /\ Closes(a, {})
      BY <1>0, <1>3, <2>2, ParkEffect DEF Adds
    <2>4. PICK X : X = {j.ver : j \in ToSet(reg[a].jobs)}
      OBVIOUS
    <2>5. Spoils(a, X)
      BY <1>0, <1>3, <2>4, ParkSpoils
    <2>6. /\ ticket' \in [Aggs -> [Versions -> Tickets]]
          /\ \A b \in Aggs \ {a} : ticket'[b] = ticket[b]
      BY <2>5, SpoilsTypes
    <2>7. HistoryOK' /\ \A b \in Aggs : SameHistory(b)
      BY <1>0, <1>u, <2>6, HistorySame
    <2>8. /\ worker'[a].st = "finish" /\ worker'[a].job = worker[a].job /\ ~worker'[a].ok
          /\ \A b \in Aggs \ {a} : worker'[b] = worker[b]
      <3>1. Moves(a, "finish") /\ worker'[a] =
              [st |-> "finish", job |-> worker[a].job, halt |-> worker[a].halt,
               attempt |-> worker[a].attempt, pending |-> worker[a].pending,
               ok |-> FALSE, last |-> worker[a].last]
        BY <1>0, <1>u, EndEffect
      <3>2. worker'[a].ok = FALSE
        BY <3>1
      <3> QED
        BY <3>1, <3>2 DEF Moves
    <2>9. \A b \in Aggs : Pending(b)' = Pending(b) /\ SameStream(b) /\ SameExec(b)
      BY <1>u, PendingSame, StillThere
    <2>10. Elsewhere(a)
      BY <1>u, <2>3, <2>6, <2>7, <2>8, <2>9, ElsewhereWorks DEF Only
    <2>11. StopsByPark(a)
      BY <1>u, <2>1, <2>3, <2>4, <2>5, <2>7, <2>8, <2>9 DEF StopsByPark
    <2>12. SoundHere(a)'
      BY <2>11, StopByParkSound DEF SoundHere
    <2> QED
      BY <2>7, <2>10, <2>12 DEF Served
  <1> QED
    BY <1>2, <1>3 DEF ParkIfCurrent, registry

\* The ack succeeds, or fails and the worker goes on to park.
LEMMA AckStepSound ==
  ASSUME Good, NEW a \in Aggs, Ack(a)
  PROVE  Served(a)
  <1>0. Sound(a) /\ Shape /\ HistoryOK
    BY DEF Good
  <1>u. /\ worker[a].st = "ack"
        /\ UNCHANGED <<stream, lock, fence, forget, backlog, resumer, reg, ticket,
                       handled, letters, started>>
    BY DEF Ack, exec, registry, process, history
  <1>d. /\ worker[a].st \in Delivering \cup {"held"} /\ worker[a].st \in Delivering
        /\ "park" \in Delivering
    BY <1>u DEF Delivering
  <1>1. IsAcked(worker[a].job)
    BY <1>d, AtWork
  <1>2. CASE Goto(a, "park") /\ UNCHANGED log
    BY <1>d, <1>u, <1>1, <1>2, GotoSound
  <1>3. CASE /\ log' = Keep(log, ToSet(log) \ {<<a, worker[a].job.ver>>})
             /\ End(a, TRUE)
    <2>1. PICK u : u = worker[a].job.ver
      OBVIOUS
    <2>2. /\ \A v : v \in Pending(a)' <=> v \in Pending(a) /\ v # u
          /\ \A b \in Aggs \ {a} : Pending(b)' = Pending(b)
      BY <1>0, <1>3, <2>1, AckPending
    <2>3. /\ worker'[a].st = "finish" /\ worker'[a].job = worker[a].job
          /\ \A b \in Aggs \ {a} : worker'[b] = worker[b]
      BY <1>0, <1>3, EndEffect DEF Moves
    <2>4. HistoryOK' /\ \A b \in Aggs : SameHistory(b)
      BY <1>0, <1>u, TicketTypes, HistorySame
    <2>5. \A b \in Aggs : SameExec(b)
      BY <1>u, StillThere
    <2>6. Elsewhere(a)
      BY <1>u, <2>2, <2>3, <2>4, ElsewhereWorks
    <2>7. Acks(a)
      BY <1>u, <2>1, <2>2, <2>3, <2>4, <2>5 DEF Acks
    <2>8. SoundHere(a)'
      BY <2>7, AckSound DEF SoundHere
    <2> QED
      BY <2>4, <2>6, <2>8 DEF Served
  <1> QED
    BY <1>2, <1>3 DEF Ack

\* finish.
LEMMA FinishStepSound ==
  ASSUME Good, NEW a \in Aggs, Finish(a)
  PROVE  Served(a)
  <1>0. Sound(a) /\ Shape /\ HistoryOK
    BY DEF Good
  <1>u. UNCHANGED <<stream, log, lock, fence, forget, backlog, resumer, reg,
                    handled, letters, started>>
    BY DEF Finish, store, exec, registry, process, history
  <1>1. /\ worker[a].st = "finish" /\ worker'[a].st = "drain"
        /\ \A b \in Aggs \ {a} : worker'[b] = worker[b]
    BY <1>0, FinishEffect DEF Local
  <1>2. worker[a].st \in Carrying /\ "drain" \notin Carrying
    BY <1>1 DEF Carrying, Delivering
  <1>3. worker[a].job.ver \in Versions
    BY <1>0, <1>2, JobVersions
  <1>4. PICK u : u = worker[a].job.ver
    OBVIOUS
  <1>5. PICK f : f = IF worker[a].ok THEN "ok" ELSE "err"
    OBVIOUS
  <1>6. ticket \in [Aggs -> [Versions -> Tickets]]
    BY <1>0, TicketTypes
  <1>7. /\ ticket' \in [Aggs -> [Versions -> Tickets]]
        /\ \A b \in Aggs \ {a} : ticket'[b] = ticket[b]
        /\ \A v \in Versions :
            \/ ticket'[a][v].final = ticket[a][v].final
            \/ v = u /\ ticket[a][v].final = "no" /\ ticket'[a][v].final = f
        /\ worker[a].job.fresh => ticket'[a][u].final # "no"
    <2>1. CASE ~worker[a].job.fresh
      <3>1. UNCHANGED ticket
        BY <2>1 DEF Finish
      <3> QED
        BY <1>6, <2>1, <3>1
    <2>2. CASE worker[a].job.fresh
      <3>1. PICK s : s = Settle(ticket[a][u], "ok")
        OBVIOUS
      <3>2. PICK t : t = Complete(s, f)
        OBVIOUS
      <3>3. ticket[a][u] \in Tickets /\ f \in {"ok", "err"}
        BY <1>3, <1>4, <1>5, <1>6
      <3>4. s \in Tickets /\ s.final = ticket[a][u].final
        BY <3>1, <3>3, TicketOK
      <3>5. t \in Tickets /\ t.final = IF s.final = "no" THEN f ELSE s.final
        BY <3>2, <3>3, <3>4, TicketOK
      <3>6. ticket' = [ticket EXCEPT ![a][u] = t]
        <4>1. ticket' = [ticket EXCEPT ![a][u] = Complete(Settle(@, "ok"), f)]
          BY <1>4, <1>5, <2>2 DEF Finish
        <4> HIDE DEF Tickets
        <4> QED
          BY <1>3, <1>4, <1>6, <3>1, <3>2, <4>1
      <3>7. Marks(a, u, t)
        BY <1>0, <1>3, <1>4, <3>5, <3>6, MarksOne
      <3>8. /\ ticket' \in [Aggs -> [Versions -> Tickets]]
            /\ \A b \in Aggs \ {a} : ticket'[b] = ticket[b]
            /\ \A v \in Versions : ticket'[a][v] = IF v = u THEN t ELSE ticket[a][v]
        BY <3>7 DEF Marks
      <3>9. t.final # "no"
        BY <3>3, <3>5
      <3> HIDE DEF Tickets
      <3> QED
        BY <1>3, <1>4, <3>4, <3>5, <3>8, <3>9
    <2> QED
      BY <2>1, <2>2
  <1>8. HistoryOK' /\ \A b \in Aggs : SameHistory(b)
    BY <1>0, <1>u, <1>7, HistorySame
  <1>9. \A b \in Aggs : Pending(b)' = Pending(b) /\ SameStream(b) /\ SameExec(b)
    BY <1>u, PendingSame, StillThere
  <1>10. Elsewhere(a)
    BY <1>u, <1>1, <1>7, <1>8, <1>9, ElsewhereWorks
  <1>11. Finishes(a)
    BY <1>u, <1>1, <1>2, <1>4, <1>5, <1>7, <1>8, <1>9 DEF Finishes
  <1>12. SoundHere(a)'
    BY <1>11, FinishSound DEF SoundHere
  <1> QED
    BY <1>8, <1>10, <1>12 DEF Served

\* The worker takes the head of the queue.
LEMMA PopStepSound ==
  ASSUME Good, NEW a \in Aggs, Pop(a)
  PROVE  Served(a)
  <1>0. Sound(a) /\ Shape /\ HistoryOK
    BY DEF Good
  <1>u. UNCHANGED <<stream, log, lock, fence, forget, backlog, resumer, ticket,
                    handled, letters, started>>
    BY DEF Pop, store, exec, process, history
  <1>1. HistoryOK' /\ \A b \in Aggs : SameHistory(b)
    BY <1>0, <1>u, TicketTypes, HistorySame
  <1>2. \A b \in Aggs : Pending(b)' = Pending(b) /\ SameStream(b) /\ SameExec(b)
    BY <1>u, PendingSame, StillThere
  <1>3. /\ Local(a) /\ reg[a].jobs # <<>> /\ reg'[a].jobs = Tail(reg[a].jobs)
        /\ reg'[a].parked = reg[a].parked /\ reg'[a].gen = reg[a].gen
        /\ reg'[a].undelivered = reg[a].undelivered /\ reg'[a].shut = reg[a].shut
        /\ worker[a].st = "drain" /\ worker'[a].st = "held"
        /\ worker'[a].job = Head(reg[a].jobs) /\ worker'[a].halt = "same"
    BY <1>0, PopEffect
  <1>4. Elsewhere(a)
    BY <1>u, <1>1, <1>2, <1>3, ElsewhereWorks DEF Local, Only
  <1>5. Pops(a)
    BY <1>u, <1>1, <1>2, <1>3 DEF Pops
  <1>6. SoundHere(a)'
    BY <1>5, PopSound DEF SoundHere
  <1> QED
    BY <1>1, <1>4, <1>6 DEF Served

\* Nobody else learns anything: what every Resume knows stays.
LEMMA ResumesSame ==
  ASSUME UNCHANGED resumer
  PROVE  \A b \in Aggs : ResumesKept(b)
  BY DEF ResumesKept, Found

\* The worker waits, wakes up, retires or is stopped.
LEMMA IdleStepSound ==
  ASSUME Good, NEW a \in Aggs, Drained(a) \/ Woken(a) \/ Retire(a) \/ Stopped(a)
  PROVE  Served(a)
  <1>0. Sound(a) /\ Shape /\ HistoryOK
    BY DEF Good
  <1>u. UNCHANGED <<stream, log, lock, fence, forget, backlog, resumer, ticket,
                    handled, letters, started>>
    BY DEF Drained, Woken, Retire, Stopped, store, exec, process, history
  <1>1. HistoryOK' /\ \A b \in Aggs : SameHistory(b)
    BY <1>0, <1>u, TicketTypes, HistorySame
  <1>2. \A b \in Aggs : Pending(b)' = Pending(b) /\ SameStream(b) /\ SameExec(b)
    BY <1>u, PendingSame, StillThere
  <1>3. Idles(a)
    BY <1>0, IdleEffect
  <1>4. Elsewhere(a)
    BY <1>u, <1>1, <1>2, <1>3, ElsewhereWorks DEF Idles, Local, Only
  <1>5. SameLine(a)
    <2>1. \A s \in {"none", "drain", "await"} : s \notin Carrying
      BY DEF Carrying, Delivering
    <2> QED
      BY <1>3, <2>1 DEF Idles, SameLine
  <1>6. Unmoved(a) /\ ResumesKept(a)
    BY <1>u, <1>1, <1>2, <1>5, ResumesSame DEF Unmoved
  <1>7. SoundHere(a)'
    BY <1>6, UnmovedSound DEF SoundHere
  <1> QED
    BY <1>1, <1>4, <1>7 DEF Served

\* The first attempt, the end of a backoff, giving up, and the dead letter.
LEMMA DeliverSound ==
  ASSUME Good, NEW a \in Aggs,
         Deliver(a) \/ Wait(a) \/ GiveUp(a) \/ DeadLetter(a)
  PROVE  Served(a)
  <1>0. Shape /\ reg = [b \in Aggs |-> reg[b]]
    BY DEF Good, Shape, IInv, RegistryOK
  <1>u. UNCHANGED <<stream, log, lock, fence, forget, backlog, resumer, reg, ticket>>
    BY DEF Deliver, Wait, GiveUp, DeadLetter, store, exec, registry, process
  <1>d. worker[a].st \in {"deliver", "wait", "giveUp", "letter"}
    BY DEF Deliver, Wait, GiveUp, DeadLetter
  <1>1. /\ worker[a].st \in Delivering \cup {"held"} /\ worker[a].st \in Delivering
        /\ "park" \in Delivering /\ "letter" \in Delivering /\ "ack" \in Delivering
    BY <1>d DEF Delivering
  <1>2. IsAcked(worker[a].job) /\ worker[a].job.ver \in Versions
    BY <1>1, AtWork
  <1>3. ASSUME IsShut(a), End(a, FALSE), UNCHANGED <<handled, letters, started>>
        PROVE  Served(a)
    <2>1. ~Working(a) /\ Only(a) /\ SamePark(reg[a], reg'[a])
      BY <1>0, <1>u, <1>3 DEF Working, Only, SamePark
    <2> QED
      BY <1>u, <1>1, <1>3, <2>1, EndSound
  <1>4. ASSUME Goto(a, "park"), UNCHANGED <<handled, letters, started>>
        PROVE  Served(a)
    BY <1>u, <1>1, <1>2, <1>4, GotoSound
  <1>5. CASE Deliver(a)
    <2>1. CASE IsShut(a) /\ End(a, FALSE) /\ UNCHANGED history
      BY <1>3, <2>1 DEF history
    <2>2. CASE ~IsShut(a) /\ Try(a, 1, Subs)
      BY <1>u, <1>5, <2>2, TrySound DEF Deliver
    <2> QED
      BY <1>5, <2>1, <2>2 DEF Deliver
  <1>6. CASE Wait(a)
    <2>1. CASE IsShut(a) /\ End(a, FALSE) /\ UNCHANGED history
      BY <1>3, <2>1 DEF history
    <2>2. CASE ~IsShut(a) /\ Try(a, worker[a].attempt + 1, worker[a].pending)
      <3>1. PICK n : n = worker[a].attempt + 1
        OBVIOUS
      <3>2. Try(a, n, worker[a].pending) /\ worker[a].st = "wait"
        BY <1>6, <2>2, <3>1 DEF Wait
      <3> QED
        BY <1>u, <2>2, <3>2, TrySound
    <2>3. CASE Goto(a, "park") /\ UNCHANGED history
      BY <1>4, <2>3 DEF history
    <2> QED
      BY <1>6, <2>1, <2>2, <2>3 DEF Wait
  <1>7. CASE GiveUp(a)
    <2>0. UNCHANGED <<handled, letters, started>> /\ worker[a].st = "giveUp"
      BY <1>7 DEF GiveUp, history
    <2>1. CASE IsShut(a) /\ End(a, FALSE)
      BY <1>3, <2>0, <2>1
    <2>2. CASE Goto(a, IF DeadLetters /\ worker[a].job.kind # "forget" THEN "letter" ELSE "park")
      <3>1. CASE Goto(a, "park")
        BY <1>4, <2>0, <3>1
      <3>2. CASE Goto(a, "letter") /\ worker[a].job.kind # "forget"
        BY <1>u, <1>1, <1>2, <2>0, <3>2, GotoSound
      <3> QED
        BY <2>2, <3>1, <3>2
    <2> QED
      BY <1>7, <2>1, <2>2 DEF GiveUp
  <1>8. CASE DeadLetter(a)
    <2>0. UNCHANGED <<handled, started>> /\ worker[a].st = "letter"
      BY <1>8 DEF DeadLetter
    <2>1. CASE /\ letters' = [letters EXCEPT ![a] = @ \cup {worker[a].job.ver}]
               /\ Goto(a, "ack")
      <3>1. worker[a].job.ver \in letters'[a]
        <4>1. letters \in [Aggs -> SUBSET Versions]
          BY DEF Good, HistoryOK
        <4> QED
          BY <2>1, <4>1
      <3> QED
        BY <1>u, <1>1, <1>2, <2>0, <2>1, <3>1, GotoSound
    <2>2. CASE Goto(a, "park") /\ UNCHANGED letters
      BY <1>4, <2>0, <2>2
    <2> QED
      BY <1>8, <2>1, <2>2 DEF DeadLetter
  <1> QED
    BY <1>5, <1>6, <1>7, <1>8

\* Every step of a worker keeps the invariant.
LEMMA WorkerSound ==
  ASSUME Good, NEW a \in Aggs, WorkerStep(a)
  PROVE  Served(a)
  <1>1. ASSUME NEW failed \in SUBSET Subs, Attempt(a, failed)
        PROVE  Served(a)
    BY <1>1, AttemptSound
  <1> QED
    BY <1>1, PopStepSound, IdleStepSound, BeginSound, DeliverSound, ParkStepSound, AckStepSound,
       FinishStepSound DEF WorkerStep

-----------------------------------------------------------------------------
(* Steps at a that neither enqueue nor deliver.                            *)

\* The stream, the history and the worker of a stay, and nothing of a is in hand.
Rests(a) ==
    /\ stream'[a] = stream[a] /\ Pending(a)' = Pending(a) /\ backlog'[a] \subseteq backlog[a]
    /\ SameHistory(a) /\ worker'[a] = worker[a]
    /\ forget[a].st # "committed" /\ forget'[a].st # "committed"
    /\ \A u : ~InHand(a, u) /\ ~InHand(a, u)'
    /\ \A r \in Resumers :
        /\ lock'[a] = r => lock[a] = r /\ resumer'[r].rest = resumer[r].rest
        /\ \/ resumer'[r].parks[a] = 0
           \/ /\ resumer'[r].parks[a] = resumer[r].parks[a] /\ Found(r, a)' = Found(r, a)
              /\ resumer'[r].st \in {"lift", "redeliver"} /\ a \in resumer'[r].todo =>
                    resumer[r].st \in {"lift", "redeliver"} /\ a \in resumer[r].todo

\* The line of a stays; versions may be added to those of its park.
LEMMA RestSound ==
  ASSUME Good, NEW a \in Aggs, Rests(a), Fenced(a)', NEW X, ~DirtyReads => \A u \in X : Due(a, u),
         SamePark(reg[a], reg'[a]), reg'[a].jobs = reg[a].jobs, reg'[a].shut = reg[a].shut,
         reg'[a].undelivered = reg[a].undelivered \cup X,
         ~reg[a].parked => \A v \in Pending(a) : Underway(a, v) => Underway(a, v)'
  PROVE  SoundHere(a)'
  <1>0. Sound(a) /\ Shape
    BY DEF Good
  <1>u. /\ stream'[a] = stream[a] /\ Pending(a)' = Pending(a) /\ backlog'[a] \subseteq backlog[a]
        /\ SameHistory(a) /\ worker'[a] = worker[a]
        /\ forget[a].st # "committed" /\ forget'[a].st # "committed"
        /\ \A u : ~InHand(a, u) /\ ~InHand(a, u)'
    BY DEF Rests
  <1>v. /\ InDelivery(a)' <=> InDelivery(a)
        /\ IsShut(a)' <=> IsShut(a)
        /\ Working(a)' <=> Working(a)
        /\ \A u : Waits(a, u)' <=> Waits(a, u)
        /\ \A u : InLine(a, u)' <=> InLine(a, u)
    <2>1. InDelivery(a)' <=> InDelivery(a)
      BY <1>u DEF InDelivery
    <2>2. IsShut(a)' <=> IsShut(a)
      BY <1>u DEF IsShut, IsClosed
    <2>3. Working(a)' <=> Working(a)
      BY <2>1, <2>2 DEF Working
    <2>4. \A u : Waits(a, u)' <=> Waits(a, u)
      BY DEF Waits
    <2> QED
      BY <1>u, <2>1, <2>2, <2>3, <2>4 DEF InLine
  <1>w. Remembers(a)
    BY <1>u DEF SameHistory, Remembers
  <1>r. \A r \in Resumers : IsPark(reg'[a], resumer'[r].parks[a]) =>
            /\ IsPark(reg[a], resumer[r].parks[a]) /\ Found(r, a)' = Found(r, a)
            /\ resumer'[r].st \in {"lift", "redeliver"} /\ a \in resumer'[r].todo =>
                    resumer[r].st \in {"lift", "redeliver"} /\ a \in resumer[r].todo
    <2>1. reg[a].parked => reg[a].gen # 0
      BY <1>0, ParkedHasNumber
    <2> QED
      BY <2>1 DEF IsPark, Rests, SamePark
  <1>1. Logged(a)'
    BY <1>0, <1>u, LoggedKept DEF Sound
  <1>2. Matched(a)'
    BY <1>0, <1>u, MatchedKept DEF Sound, SameHistory
  <1>3. Halted(a)'
    BY <1>0, <1>u, <1>v DEF Sound, Halted, SamePark
  <1>4. Ordered(a)'
    BY <1>0, <1>u, <1>v DEF Sound, Ordered, Rests
  <1>6. LeftAccepted(a)'
    BY <1>0, <1>u, <1>w, LeftKept DEF Sound
  <1>7. Resumable(a)'
    BY <1>u, <1>r, ResumableKept DEF SamePark
  <1>8. InTurn(a)'
    <2> SUFFICES ASSUME ~DirtyReads PROVE InTurn(a)'
      BY DEF InTurn
    <2>1. \A r \in Resumers : lock'[a] = r => lock[a] = r /\ resumer'[r].rest = resumer[r].rest
      BY DEF Rests
    <2> QED
      BY <1>u, <1>v, <1>w, <1>r, <2>1, InTurnKept DEF SameHistory
  <1>9. Handling(a)' /\ NoneBefore(a)'
    BY <1>0, <1>u DEF Sound, Handling, NoneBefore, SameHistory
  <1> QED
    BY <1>1, <1>2, <1>3, <1>4, <1>6, <1>7, <1>8, <1>9 DEF SoundHere

\* a is parked.
LEMMA CloseSound ==
  ASSUME Good, NEW a \in Aggs, Rests(a), Fenced(a)', NEW X, ~DirtyReads => \A u \in X : Due(a,
         u), Closes(a, X)
  PROVE  SoundHere(a)'
  <1>0. Sound(a) /\ Shape
    BY DEF Good
  <1>u. /\ stream'[a] = stream[a] /\ Pending(a)' = Pending(a) /\ backlog'[a] \subseteq backlog[a]
        /\ SameHistory(a) /\ worker'[a] = worker[a]
        /\ forget[a].st # "committed" /\ forget'[a].st # "committed"
        /\ \A u : ~InHand(a, u) /\ ~InHand(a, u)'
    BY DEF Rests
  <1>v. InDelivery(a)' => InDelivery(a) /\ worker'[a].halt = worker[a].halt
    BY <1>u DEF InDelivery
  <1>q. /\ Quiet(a)' /\ Halted(a)'
        /\ \A j \in ToSet(reg'[a].jobs) : j \in ToSet(reg[a].jobs)
        /\ reg'[a].jobs \in Seq(Jobs)
        /\ \A u : u \in reg'[a].undelivered => Waits(a, u) \/ u \in reg[a].undelivered \/ u \in X
    BY <1>v, ClosesQuiet
  <1>l. Ordered(a)' /\ \A u : ~Waits(a, u)' /\ ~InLine(a, u)'
    BY <1>q, QuietNext
  <1>w. Remembers(a)
    BY <1>u DEF SameHistory, Remembers
  <1>r. \A r \in Resumers : ~IsPark(reg'[a], resumer'[r].parks[a])
    BY <1>0, NewPark DEF Closes, Rests
  <1>1. Logged(a)'
    BY <1>0, <1>u, LoggedKept DEF Sound
  <1>2. Matched(a)'
    BY <1>0, <1>u, <1>q, MatchedKept DEF Sound, SameHistory
  <1>6. LeftAccepted(a)'
    BY <1>0, <1>u, <1>w, LeftKept DEF Sound
  <1>7. Resumable(a)'
    BY <1>r DEF Resumable, Closes
  <1>8. InTurn(a)'
    <2> SUFFICES ASSUME ~DirtyReads PROVE InTurn(a)'
      BY DEF InTurn
    <2>1. \A r \in Resumers : lock'[a] = r => lock[a] = r /\ resumer'[r].rest = resumer[r].rest
      BY DEF Rests
    <2> QED
      BY <1>u, <1>v, <1>w, <1>r, <1>q, <1>l, <2>1, InTurnKept DEF SameHistory
  <1>9. Handling(a)' /\ NoneBefore(a)'
    BY <1>0, <1>u DEF Sound, Handling, NoneBefore, SameHistory
  <1> QED
    BY <1>1, <1>2, <1>q, <1>l, <1>6, <1>7, <1>8, <1>9 DEF SoundHere

\* a is parked, or was and more versions are recorded.
LEMMA ParkSound ==
  ASSUME Good, NEW a \in Aggs, Rests(a), Fenced(a)', NEW X, ~DirtyReads => \A u \in X : Due(a,
         u), Park(a, X)
  PROVE  SoundHere(a)'
  <1>1. CASE Closes(a, X)
    BY <1>1, CloseSound
  <1>2. CASE Adds(a, X)
    <2>1. /\ SamePark(reg[a], reg'[a]) /\ reg'[a].jobs = reg[a].jobs /\ reg'[a].shut = reg[a].shut
          /\ reg'[a].undelivered = reg[a].undelivered \cup X /\ reg[a].parked
      BY <1>2 DEF Adds, SamePark, SameQueue
    <2> QED
      BY <2>1, RestSound
  <1> QED
    BY <1>1, <1>2, ParkEffect DEF Good

\* a is no longer parked and nothing of it is in line.
Clears(a) ==
    /\ stream'[a] = stream[a] /\ Pending(a)' = Pending(a) /\ backlog'[a] \subseteq backlog[a]
    /\ SameHistory(a)
    /\ \A j \in ToSet(reg'[a].jobs) : IsLive(j) /\ j \in ToSet(reg[a].jobs)
    /\ reg'[a].jobs \in Seq(Jobs) /\ reg'[a].undelivered = {} /\ ~reg'[a].parked
    /\ worker'[a].st = worker[a].st /\ worker'[a].job = worker[a].job
    /\ worker'[a].pending = worker[a].pending
    /\ InDelivery(a) => worker'[a].halt = "shut"
    /\ forget'[a].st # "committed"

\* a is unparked with nothing in line: by a Resume or by a supersession.
LEMMA ClearSound ==
  ASSUME Good, NEW a \in Aggs, Clears(a), Fenced(a)',
         ~DirtyReads => \A v \in Pending(a) : Underway(a, v)',
         ~DirtyReads => \A r \in Resumers : lock'[a] = r => \A u \in resumer'[r].rest : Due(a, u)
  PROVE  SoundHere(a)'
  <1>0. Sound(a) /\ Shape
    BY DEF Good
  <1>u. /\ stream'[a] = stream[a] /\ Pending(a)' = Pending(a) /\ backlog'[a] \subseteq backlog[a]
        /\ SameHistory(a)
        /\ \A j \in ToSet(reg'[a].jobs) : IsLive(j) /\ j \in ToSet(reg[a].jobs)
        /\ reg'[a].jobs \in Seq(Jobs) /\ reg'[a].undelivered = {} /\ ~reg'[a].parked
        /\ worker'[a].st = worker[a].st /\ worker'[a].job = worker[a].job
        /\ worker'[a].pending = worker[a].pending
        /\ InDelivery(a) => worker'[a].halt = "shut"
        /\ forget'[a].st # "committed"
    BY DEF Clears
  <1>v. InDelivery(a)' <=> InDelivery(a)
    BY <1>u DEF InDelivery
  <1>3. Halted(a)' /\ Quiet(a)'
    BY <1>u, <1>v DEF Halted, Quiet, Working, IsShut, IsClosed
  <1>l. Ordered(a)' /\ \A u : ~Waits(a, u)' /\ ~InLine(a, u)'
    BY <1>u, <1>3, QuietNext
  <1>w. Remembers(a)
    BY <1>u DEF SameHistory, Remembers
  <1>x. (\A u : Cleared(a, u) => Cleared(a, u)') /\ (\A u : Due(a, u) => Due(a, u)')
    BY <1>0, <1>u, <1>w, ClearedStays
  <1>r. \A r \in Resumers : ~IsPark(reg'[a], resumer'[r].parks[a])
    BY <1>u DEF IsPark
  <1>1. Logged(a)'
    BY <1>0, <1>u, LoggedKept DEF Sound
  <1>2. Matched(a)'
    BY <1>0, <1>u, MatchedKept DEF Sound, SameHistory
  <1>6. LeftAccepted(a)'
    BY <1>0, <1>u, <1>w, LeftKept DEF Sound
  <1>7. Resumable(a)'
    BY <1>u, <1>r DEF Resumable
  <1>8. InTurn(a)'
    <2> SUFFICES ASSUME ~DirtyReads PROVE InTurn(a)'
      BY DEF InTurn
    <2>1. InDelivery(a)' => Cleared(a, worker[a].job.ver)'
      <3>1. InDelivery(a)' => worker'[a].job = worker[a].job /\ Cleared(a, worker[a].job.ver)
        BY <1>0, <1>u, <1>v DEF Sound, InTurn
      <3> QED
        BY <1>x, <3>1
    <2>2. \A u \in started'[a] : Cleared(a, u)'
      BY <1>0, <1>u, <1>x DEF Sound, InTurn, SameHistory
    <2>3. \A r \in Resumers : lock'[a] = r => \A u \in resumer'[r].rest : Due(a, u)'
      BY <1>x
    <2> QED
      BY <1>u, <1>l, <1>r, <2>1, <2>2, <2>3 DEF InTurn
  <1>9. Handling(a)' /\ NoneBefore(a)'
    BY <1>0, <1>u DEF Sound, Handling, NoneBefore, SameHistory
  <1> QED
    BY <1>1, <1>2, <1>3, <1>l, <1>6, <1>7, <1>8, <1>9 DEF SoundHere

-----------------------------------------------------------------------------
(* The stream of a grows.                                                  *)

\* What is to be shown of a step that moves only a.
LEMMA ElsewhereAt ==
  ASSUME NEW a \in Aggs,
         \A b \in Aggs \ {a} :
            /\ stream'[b] = stream[b] /\ Pending(b)' = Pending(b) /\ backlog'[b] = backlog[b]
            /\ lock'[b] = lock[b] /\ forget'[b] = forget[b] /\ (b \in fence' <=> b \in fence)
            /\ SameHistory(b) /\ ticket'[b] = ticket[b] /\ reg'[b] = reg[b]
            /\ worker'[b] = worker[b]
  PROVE  Elsewhere(a)
  BY DEF Elsewhere, Unmoved, SameStream, SameExec, SameLine, SamePark

Grows(a, kind) ==
    /\ Len(stream'[a]) = Len(stream[a]) + 1 /\ Len(stream[a]) + 1 \in Versions
    /\ stream'[a][Len(stream[a]) + 1] = kind
    /\ \A v \in 1..Len(stream[a]) : stream'[a][v] = stream[a][v]
    /\ SameHistory(a) /\ UNCHANGED resumer
    /\ reg'[a] = reg[a] /\ worker'[a] = worker[a] /\ backlog'[a] = backlog[a]
    /\ forget[a].st = "none" /\ backlog[a] = {}
    /\ \A r \in Resumers : lock'[a] # r
    /\ \A v : InHand(a, v)' <=> v = Len(stream[a]) + 1
    /\ \A v \in Pending(a)' : v \in Pending(a) \/ v = Len(stream[a]) + 1

\* The words about the stream when it grows by one event.
LEMMA GrowWords ==
  ASSUME Good, NEW a \in Aggs, NEW kind, Grows(a, kind)
  PROVE  /\ Len(stream[a]) \in Nat
         /\ InDelivery(a)' <=> InDelivery(a)
         /\ \A u : Waits(a, u)' <=> Waits(a, u)
         /\ \A u : InLine(a, u)' <=> InLine(a, u)
         /\ \A u : InLine(a, u) => u \in 1..Len(stream[a])
         /\ InDelivery(a) => worker[a].job.ver \in 1..Len(stream[a])
         /\ \A v : v <= Len(stream[a]) => (Accepted(a, v)' <=> Accepted(a, v))
         /\ \A u \in 1..Len(stream[a]), v \in 1..Len(stream[a]) :
                SupersededBy(a, v, u)' <=> SupersededBy(a, v, u)
         /\ \A u \in 1..Len(stream[a]) : Cleared(a, u) => Cleared(a, u)'
  <1>0. Sound(a) /\ Shape
    BY DEF Good
  <1>g. /\ Len(stream'[a]) = Len(stream[a]) + 1
        /\ \A v \in 1..Len(stream[a]) : stream'[a][v] = stream[a][v]
        /\ SameHistory(a) /\ reg'[a] = reg[a] /\ worker'[a] = worker[a]
    BY DEF Grows
  <1>n. Len(stream[a]) \in Nat
    BY <1>0, ShapeAt
  <1>1. /\ InDelivery(a)' <=> InDelivery(a)
        /\ Working(a)' <=> Working(a)
        /\ \A u : Waits(a, u)' <=> Waits(a, u)
    BY <1>g DEF InDelivery, Working, Waits, IsShut
  <1>2. \A u : InLine(a, u)' <=> InLine(a, u)
    BY <1>g, <1>1 DEF InLine
  <1>3. InDelivery(a) => worker[a].job.ver \in 1..Len(stream[a])
    BY <1>0, <1>n, JobVersions DEF Sound, Matched, Versions
  <1>4. \A u : InLine(a, u) => u \in 1..Len(stream[a])
    BY <1>0, <1>n, <1>3, JobVersions DEF Sound, Matched, Versions, InLine, Waits, Working
  <1>5. \A v : Accepted(a, v)' <=> Accepted(a, v)
    BY <1>g DEF Accepted, SameHistory
  <1>6. \A u \in 1..Len(stream[a]), v \in 1..Len(stream[a]) :
            SupersededBy(a, v, u)' <=> SupersededBy(a, v, u)
    <2> TAKE u \in 1..Len(stream[a]), v \in 1..Len(stream[a])
    <2>1. \A t \in (v + 1)..u : t \in 1..Len(stream[a])
      BY <1>n
    <2>2. \A t \in (v + 1)..u : stream'[a][t] = stream[a][t]
      BY <1>g, <2>1
    <2> QED
      BY <2>2 DEF SupersededBy
  <1>7. \A u \in 1..Len(stream[a]) : Cleared(a, u) => Cleared(a, u)'
    <2> SUFFICES ASSUME NEW u \in 1..Len(stream[a]), Cleared(a, u),
                        NEW v \in 1..Len(stream'[a]), stream'[a][v] # "live", v < u
                 PROVE  Accepted(a, v)' \/ SupersededBy(a, v, u)'
      BY DEF Cleared
    <2>1. v \in 1..Len(stream[a])
      BY <1>n, <1>g
    <2> QED
      BY <1>g, <1>5, <1>6, <2>1 DEF Cleared
  <1> QED
    BY <1>n, <1>1, <1>2, <1>3, <1>4, <1>5, <1>6, <1>7

\* What does not depend on the kind of the new event.
LEMMA GrowSound ==
  ASSUME Good, NEW a \in Aggs, NEW kind, Grows(a, kind)
  PROVE  /\ Matched(a)' /\ Halted(a)' /\ Ordered(a)' /\ Handling(a)' /\ NoneBefore(a)'
         /\ ~DirtyReads => /\ InDelivery(a)' => Cleared(a, worker[a].job.ver)'
                           /\ \A u \in started'[a] : Cleared(a, u)'
  <1>0. Sound(a) /\ Shape /\ HistoryOK
    BY DEF Good
  <1>g. /\ Len(stream'[a]) = Len(stream[a]) + 1
        /\ \A v \in 1..Len(stream[a]) : stream'[a][v] = stream[a][v]
        /\ SameHistory(a) /\ reg'[a] = reg[a] /\ worker'[a] = worker[a] /\ UNCHANGED resumer
        /\ backlog'[a] = {}
        /\ \A r \in Resumers : lock'[a] # r
        /\ \A v : InHand(a, v)' <=> v = Len(stream[a]) + 1
        /\ \A v \in Pending(a)' : v \in Pending(a) \/ v = Len(stream[a]) + 1
    BY DEF Grows
  <1>w. /\ Len(stream[a]) \in Nat
        /\ InDelivery(a)' <=> InDelivery(a)
        /\ \A u : Waits(a, u)' <=> Waits(a, u)
        /\ \A u : InLine(a, u)' <=> InLine(a, u)
        /\ \A u : InLine(a, u) => u \in 1..Len(stream[a])
        /\ InDelivery(a) => worker[a].job.ver \in 1..Len(stream[a])
        /\ \A u \in 1..Len(stream[a]) : Cleared(a, u) => Cleared(a, u)'
    BY GrowWords
  <1>j. /\ \A j \in ToSet(reg[a].jobs) : j.ver \in 1..Len(stream[a])
        /\ worker[a].st \in Carrying => worker[a].job.ver \in 1..Len(stream[a])
        /\ \A v \in started[a] \cup letters[a] : v \in 1..Len(stream[a])
    <2>1. started[a] \cup letters[a] \subseteq Versions
      BY <1>0 DEF HistoryOK
    <2> QED
      BY <1>0, <1>w, <2>1, JobVersions DEF Sound, Matched, Versions
  <1>1. Matched(a)'
    <2>1. \A v \in 1..Len(stream[a]) : v <= Len(stream'[a]) /\ stream'[a][v] = stream[a][v]
      BY <1>g, <1>w
    <2> QED
      BY <1>0, <1>g, <1>j, <2>1 DEF Sound, Matched, SameHistory
  <1>2. Halted(a)'
    BY <1>0, <1>g, <1>w DEF Sound, Halted, IsShut
  <1>3. Ordered(a)'
    <2>1. Working(a)' <=> Working(a)
      BY <1>g DEF Working, InDelivery, IsShut
    <2>2. \A u \in Versions : InLine(a, u)' => \A v \in Versions : InHand(a, v)' => u < v
      BY <1>g, <1>w
    <2> QED
      BY <1>0, <1>g, <1>w, <2>1, <2>2 DEF Sound, Ordered
  <1>4. Handling(a)'
    BY <1>0, <1>g DEF Sound, Handling, SameHistory
  <1>5. NoneBefore(a)'
    <2> SUFFICES ASSUME ~DirtyReads PROVE NoneBefore(a)'
      BY DEF NoneBefore
    <2>1. "attempt" \in Carrying
      BY DEF Carrying, Delivering
    <2>2. worker[a].st = "attempt" => worker[a].job.ver <= Len(stream[a]) + 1
      BY <1>j, <1>w, <2>1
    <2> QED
      BY <1>0, <1>g, <2>2 DEF Sound, NoneBefore
  <1>6. ASSUME ~DirtyReads PROVE InDelivery(a)' => Cleared(a, worker[a].job.ver)'
    <2>1. InDelivery(a)' => /\ worker'[a].job = worker[a].job /\ Cleared(a, worker[a].job.ver)
                            /\ worker[a].job.ver \in 1..Len(stream[a])
      BY <1>0, <1>g, <1>w, <1>6 DEF Sound, InTurn
    <2> QED
      BY <1>w, <2>1
  <1>7. ~DirtyReads => \A u \in started'[a] : Cleared(a, u)'
    BY <1>0, <1>g, <1>j, <1>w DEF Sound, InTurn, SameHistory
  <1> QED
    BY <1>1, <1>2, <1>3, <1>4, <1>5, <1>6, <1>7

\* A command commits its event.
LEMMA CommitSound ==
  ASSUME Good, NEW a \in Aggs, NEW kind \in {"live", "durable"}, Commit(a, kind)
  PROVE  Served(a)
  <1>0. Sound(a) /\ Shape /\ HistoryOK
    BY DEF Good
  <1>1. /\ up /\ lock[a] = "free" /\ a \notin fence /\ Len(stream[a]) < MaxVersion
        /\ stream' = [stream EXCEPT ![a] = Append(@, kind)]
        /\ lock' = [lock EXCEPT ![a] = "command"]
        /\ ticket' = [ticket EXCEPT ![a][Len(stream[a]) + 1] = OpenTicket]
        /\ UNCHANGED <<fence, forget, reg, worker, resumer, backlog, handled, letters, started>>
    BY DEF Commit, registry, process, history
  <1>2. PICK n : n = Len(stream[a]) + 1
    OBVIOUS
  <1>k. kind \in Kinds
    BY DEF Kinds
  <1>3. /\ Len(stream'[a]) = n /\ n \in Versions
        /\ stream'[a][n] = kind
        /\ \A v \in 1..Len(stream[a]) : stream'[a][v] = stream[a][v]
        /\ \A b \in Aggs \ {a} : stream'[b] = stream[b]
    BY <1>0, <1>1, <1>2, <1>k, AppendStream
  <1>4. /\ \A v : v \in Pending(a)' <=> v \in Pending(a) \/ (kind = "durable" /\ v = n)
        /\ \A b \in Aggs \ {a} : Pending(b)' = Pending(b)
    BY <1>0, <1>2, CommitPending
  <1>5. Marks(a, n, OpenTicket)
    <2>1. PICK t : t = OpenTicket
      OBVIOUS
    <2>2. t \in Tickets
      BY <2>1 DEF OpenTicket, Tickets
    <2>3. ticket' = [ticket EXCEPT ![a][n] = t]
      BY <1>1, <1>2, <2>1
    <2> QED
      BY <1>0, <1>3, <2>1, <2>2, <2>3, MarksOne
  <1>6. HistoryOK' /\ \A b \in Aggs : SameHistory(b)
    BY <1>0, <1>1, <1>5, HistorySame DEF Marks
  <1>7. /\ lock'[a] = "command" /\ \A b \in Aggs \ {a} : lock'[b] = lock[b]
    BY <1>0, <1>1 DEF Shape, ExecOK
  <1>8. Elsewhere(a)
    BY <1>1, <1>3, <1>4, <1>5, <1>6, <1>7, ElsewhereAt DEF Marks
  <1>9. forget[a].st = "none" /\ forget'[a].st = "none" /\ backlog[a] = {}
    BY <1>0, <1>1 DEF Sound, Guarded, Shape, ExecOK
  <1>10. Grows(a, kind)
    <2>1. \A r \in Resumers : lock'[a] # r
      BY <1>7, ResumerNames
    <2>2. \A v : InHand(a, v)' <=> v = n
      BY <1>3, <1>7 DEF InHand
    <2> QED
      BY <1>1, <1>2, <1>3, <1>4, <1>6, <1>9, <2>1, <2>2 DEF Grows
  <1>11. /\ Matched(a)' /\ Halted(a)' /\ Ordered(a)' /\ Handling(a)' /\ NoneBefore(a)'
         /\ ~DirtyReads => /\ InDelivery(a)' => Cleared(a, worker[a].job.ver)'
                           /\ \A u \in started'[a] : Cleared(a, u)'
    BY <1>10, GrowSound
  <1>w. /\ Len(stream[a]) \in Nat
        /\ \A u : Waits(a, u)' <=> Waits(a, u)
        /\ \A u : InLine(a, u)' <=> InLine(a, u)
        /\ \A u \in 1..Len(stream[a]), v \in 1..Len(stream[a]) :
               SupersededBy(a, v, u)' <=> SupersededBy(a, v, u)
        /\ \A u \in 1..Len(stream[a]) : Cleared(a, u) => Cleared(a, u)'
    BY <1>10, GrowWords
  <1>m. 1..n = 1..Len(stream[a]) \cup {n}
    BY <1>2, <1>w
  <1>12. \A u : Current(a, u)' <=> Current(a, u)
    BY <1>3, <1>m DEF Current
  <1>13. Logged(a)'
    <2>1. Current(a, n)
      BY <1>2, <1>w DEF Current
    <2>2. \A v \in Pending(a) : v \in 1..Len(stream[a]) /\ stream[a][v] # "live" /\ Current(a, v)
      BY <1>0, ShapeAt DEF Sound, Logged
    <2> QED
      BY <1>1, <1>3, <1>4, <1>9, <1>12, <2>1, <2>2 DEF Logged
  <1>14. LeftAccepted(a)'
    <2> SUFFICES ASSUME NEW v \in 1..Len(stream'[a]), stream'[a][v] # "live", v \notin Pending(a)'
                 PROVE  \/ SupersededBy(a, v, Len(stream[a]))'
                        \/ handled'[a][v] = Subs
                        \/ v \in letters'[a] /\ stream'[a][v] # "forget"
      BY DEF LeftAccepted
    <2>1. v \in 1..Len(stream[a]) /\ stream[a][v] # "live" /\ v \notin Pending(a)
      BY <1>3, <1>4, <1>m
    <2>2. \/ SupersededBy(a, v, Len(stream[a])) \/ handled[a][v] = Subs
          \/ v \in letters[a] /\ stream[a][v] # "forget"
      BY <1>0, <2>1 DEF Sound, LeftAccepted
    <2>3. SupersededBy(a, v, Len(stream[a])) => SupersededBy(a, v, Len(stream[a]))'
      <3> SUFFICES ASSUME NEW t \in (v + 1)..Len(stream[a]), stream[a][t] = "forget"
                   PROVE  \E x \in (v + 1)..Len(stream'[a]) : stream'[a][x] = "forget"
        BY DEF SupersededBy
      <3>1. t \in 1..Len(stream[a]) /\ t \in (v + 1)..Len(stream'[a])
        BY <1>2, <1>3, <1>w, <2>1
      <3> QED
        BY <1>3, <3>1
    <2> QED
      BY <1>1, <1>3, <2>1, <2>2, <2>3
  <1>r. \A r \in Resumers : /\ lock[a] # r /\ lock'[a] # r
                            /\ resumer'[r] = resumer[r] /\ Found(r, a)' = Found(r, a)
    BY <1>1, <1>7, ResumerNames DEF Found
  <1>15. Resumable(a)'
    <2> SUFFICES ASSUME ~DirtyReads PROVE Resumable(a)'
      BY DEF Resumable
    <2>1. InHand(a, n)' /\ \A v : ~InHand(a, v)
      BY <1>1, <1>3, <1>7, <1>9 DEF InHand
    <2>2. \A v \in Pending(a) : Underway(a, v) => Underway(a, v)'
      BY <1>9, <1>w, <1>r, <2>1 DEF Underway
    <2>3. ~reg'[a].parked => \A v \in Pending(a)' : Underway(a, v)'
      <3>1. Underway(a, n)'
        BY <2>1 DEF Underway
      <3>2. ~reg[a].parked => \A v \in Pending(a) : Underway(a, v)'
        BY <1>0, <2>2 DEF Sound, Resumable
      <3> QED
        BY <1>1, <1>4, <3>1, <3>2
    <2>4. ASSUME NEW r \in Resumers, resumer'[r].st \in {"lift", "redeliver"},
                 a \in resumer'[r].todo, IsPark(reg'[a], resumer'[r].parks[a]),
                 NEW v \in Pending(a)'
          PROVE  v \in Found(r, a)' \/ v \in reg'[a].undelivered \/ InHand(a, v)'
      <3>1. CASE v = n
        BY <2>1, <3>1
      <3>2. CASE v \in Pending(a)
        BY <1>0, <1>1, <1>r, <2>1, <2>4, <3>2 DEF Sound, Resumable
      <3> QED
        BY <1>4, <3>1, <3>2
    <2> QED
      BY <2>3, <2>4 DEF Resumable
  <1>16. \A u \in Versions : Due(a, u) => Due(a, u)'
    <2> SUFFICES ASSUME NEW u \in Versions, Due(a, u) PROVE Due(a, u)'
      OBVIOUS
    <2>1. CASE u \in 1..Len(stream[a])
      BY <1>12, <1>w, <2>1 DEF Due
    <2>2. CASE ~(u \in 1..Len(stream[a]))
      <3>1. \A t \in 1..Len(stream[a]) : t <= u
        BY <1>w, <2>2 DEF Versions
      <3>2. Current(a, u)
        BY <3>1 DEF Current
      <3> QED
        BY <1>12, <3>2 DEF Due
    <2> QED
      BY <2>1, <2>2
  <1>17. InTurn(a)'
    <2> SUFFICES ASSUME ~DirtyReads PROVE InTurn(a)'
      BY DEF InTurn
    <2>1. /\ reg[a].undelivered \subseteq Versions
          /\ \A r \in Resumers : Found(r, a) \subseteq Versions
      BY <1>0, ShapeAt DEF QueueOK, Found
    <2>2. \A u \in Versions : Waits(a, u)' \/ u \in reg'[a].undelivered => Due(a, u)'
      BY <1>0, <1>1, <1>9, <1>w, <1>16 DEF Sound, InTurn
    <2>3. \A r \in Resumers : IsPark(reg'[a], resumer'[r].parks[a]) =>
            \A u \in Found(r, a)' : Due(a, u)'
      BY <1>0, <1>1, <1>9, <1>r, <1>16, <2>1 DEF Sound, InTurn
    <2> QED
      BY <1>9, <1>11, <1>r, <2>2, <2>3 DEF InTurn
  <1>18. Fenced(a)'
    BY <1>9, NoFenceNeeded
  <1> QED
    BY <1>6, <1>8, <1>11, <1>13, <1>14, <1>15, <1>17, <1>18 DEF Served, SoundHere

\* A Forget commits its deletion marker.
LEMMA TombstoneSound ==
  ASSUME Good, NEW a \in Aggs, WriteTombstone(a)
  PROVE  Served(a)
  <1>0. Sound(a) /\ Shape /\ HistoryOK
    BY DEF Good
  <1>2. PICK n : n = Len(stream[a]) + 1
    OBVIOUS
  <1>1. /\ lock[a] = "tombstone"
        /\ stream' = [stream EXCEPT ![a] = Append(@, "forget")]
        /\ lock' = [lock EXCEPT ![a] = "forget"]
        /\ fence' = fence \cup {a}
        /\ forget' = [forget EXCEPT ![a] = [st |-> "committed", ver |-> n]]
        /\ ticket' = [ticket EXCEPT ![a][n] = OpenTicket]
        /\ UNCHANGED <<reg, worker, resumer, backlog, handled, letters, started>>
    BY <1>2 DEF WriteTombstone, registry, process, history
  <1>k. /\ "forget" \in Kinds /\ Len(stream[a]) \in Nat /\ Len(stream[a]) < MaxVersion
        /\ n \in Versions /\ up /\ a \notin fence
    BY <1>0, <1>1, <1>2, ShapeAt DEF Shape, ExecOK, Sound, Guarded, Kinds, Versions
  <1>3. /\ Len(stream'[a]) = n
        /\ stream'[a][n] = "forget"
        /\ \A v \in 1..Len(stream[a]) : stream'[a][v] = stream[a][v]
        /\ \A b \in Aggs \ {a} : stream'[b] = stream[b]
    BY <1>0, <1>1, <1>2, <1>k, AppendStream
  <1>4. /\ \A v : v \in Pending(a)' <=> v = n
        /\ \A b \in Aggs \ {a} : Pending(b)' = Pending(b)
    BY <1>0, <1>2, TombstonePending
  <1>5. Marks(a, n, OpenTicket) /\ OpenTicket.final = "no"
    <2>1. PICK t : t = OpenTicket
      OBVIOUS
    <2>2. t \in Tickets /\ t.final = "no"
      BY <2>1 DEF OpenTicket, Tickets
    <2>3. ticket' = [ticket EXCEPT ![a][n] = t]
      BY <1>1, <2>1
    <2> QED
      BY <1>0, <1>k, <2>1, <2>2, <2>3, MarksOne
  <1>6. HistoryOK' /\ \A b \in Aggs : SameHistory(b)
    BY <1>0, <1>1, <1>5, HistorySame DEF Marks
  <1>7. /\ lock'[a] = "forget" /\ \A b \in Aggs \ {a} : lock'[b] = lock[b]
        /\ forget'[a].st = "committed" /\ forget'[a].ver = n
        /\ \A b \in Aggs \ {a} : forget'[b] = forget[b]
    BY <1>0, <1>1 DEF Shape, ExecOK
  <1>8. Elsewhere(a)
    BY <1>1, <1>3, <1>4, <1>5, <1>6, <1>7, ElsewhereAt DEF Marks
  <1>9. forget[a].st = "none" /\ backlog[a] = {}
    BY <1>0, <1>1, <1>k DEF Sound, Guarded, Shape, ExecOK
  <1>r. \A r \in Resumers : lock[a] # r /\ lock'[a] # r
    BY <1>1, <1>7, ResumerNames
  <1>h. \A v : (InHand(a, v)' <=> v = n) /\ ~InHand(a, v)
    BY <1>1, <1>3, <1>7, <1>9 DEF InHand
  <1>10. Grows(a, "forget")
    BY <1>1, <1>2, <1>3, <1>4, <1>6, <1>9, <1>k, <1>r, <1>h DEF Grows
  <1>11. /\ Matched(a)' /\ Halted(a)' /\ Ordered(a)' /\ Handling(a)' /\ NoneBefore(a)'
         /\ ~DirtyReads => /\ InDelivery(a)' => Cleared(a, worker[a].job.ver)'
                           /\ \A u \in started'[a] : Cleared(a, u)'
    BY <1>10, GrowSound
  <1>w. /\ InDelivery(a)' <=> InDelivery(a)
        /\ \A u : Waits(a, u)' <=> Waits(a, u)
        /\ \A u : InLine(a, u)' <=> InLine(a, u)
        /\ \A u : InLine(a, u) => u \in 1..Len(stream[a])
        /\ \A v : v <= Len(stream[a]) => (Accepted(a, v)' <=> Accepted(a, v))
        /\ \A u \in 1..Len(stream[a]), v \in 1..Len(stream[a]) :
               SupersededBy(a, v, u)' <=> SupersededBy(a, v, u)
    BY <1>10, GrowWords
  <1>m. 1..n = 1..Len(stream[a]) \cup {n} /\ \A v \in 1..Len(stream[a]) : v # n /\ v < n
    BY <1>2, <1>k
  <1>12. Logged(a)'
    <2>1. Current(a, n)'
      BY <1>3, <1>m DEF Current
    <2> QED
      BY <1>1, <1>3, <1>4, <1>9, <2>1 DEF Logged
  <1>13. LeftAccepted(a)'
    <2>1. \A v \in 1..Len(stream[a]) : SupersededBy(a, v, Len(stream[a]))'
      BY <1>2, <1>3, <1>k DEF SupersededBy
    <2> QED
      BY <1>3, <1>4, <1>m, <2>1 DEF LeftAccepted
  <1>14. Resumable(a)'
    BY <1>4, <1>h DEF Resumable, Underway
  <1>15. Fenced(a)'
    <2>1. /\ \A j \in ToSet(reg[a].jobs) : j.ver # n
          /\ worker[a].st \in Carrying => worker[a].job.ver # n
      <3>1. /\ \A j \in ToSet(reg[a].jobs) : j.ver \in Nat /\ j.ver <= Len(stream[a])
            /\ worker[a].st \in Carrying => worker[a].job.ver <= Len(stream[a])
        BY <1>0, JobVersions DEF Sound, Matched
      <3> QED
        BY <1>2, <1>k, <3>1
    <2>2. Pending(a)' = {n} /\ Outcome(a)' = "no"
      BY <1>4, <1>5, <1>7, <1>k DEF Outcome, Marks
    <2> QED
      BY <1>1, <1>7, <2>1, <2>2 DEF Fenced
  <1>16. ASSUME ~DirtyReads, NEW u \in Versions, InLine(a, u)', NEW v \in 1..Len(stream'[a]),
                stream'[a][v] # "live", v < u
         PROVE  InLine(a, v)' \/ Accepted(a, v)' \/ SupersededBy(a, v, u)'
    <2>1. /\ InLine(a, u) /\ u \in 1..Len(stream[a]) /\ v \in 1..Len(stream[a])
          /\ stream[a][v] # "live" /\ v <= Len(stream[a])
      <3>1. InLine(a, u) /\ u \in 1..Len(stream[a])
        BY <1>16, <1>w
      <3>2. v \in 1..Len(stream[a])
        BY <1>2, <1>3, <1>16, <1>k, <3>1
      <3> QED
        BY <1>3, <1>16, <1>k, <3>1, <3>2
    <2>2. CASE Cleared(a, u)
      <3>1. Accepted(a, v) \/ SupersededBy(a, v, u)
        BY <1>16, <2>1, <2>2 DEF Cleared
      <3> QED
        BY <1>w, <2>1, <3>1
    <2>3. CASE ~Cleared(a, u)
      <3>1. Waits(a, u) /\ Current(a, u)
        BY <1>0, <1>9, <1>16, <2>1, <2>3 DEF Sound, InTurn, InLine, Working, Due
      <3>2. ~reg[a].parked
        BY <1>0, <3>1 DEF Sound, Halted, Waits, IsAcked
      <3>3. CASE v \in Pending(a)
        <4>1. Underway(a, v)
          BY <1>0, <1>16, <3>2, <3>3 DEF Sound, Resumable
        <4>2. InLine(a, v)
          BY <1>9, <1>r, <1>h, <4>1 DEF Underway
        <4> QED
          BY <1>w, <4>2
      <3>4. CASE v \notin Pending(a)
        <4>1. \/ SupersededBy(a, v, Len(stream[a])) \/ Accepted(a, v)
          BY <1>0, <2>1, <3>4 DEF Sound, LeftAccepted, Accepted
        <4>2. SupersededBy(a, v, Len(stream[a])) => SupersededBy(a, v, u)
          <5> SUFFICES ASSUME NEW t \in (v + 1)..Len(stream[a]), stream[a][t] = "forget"
                       PROVE  \E x \in (v + 1)..u : stream[a][x] = "forget"
            BY DEF SupersededBy
          <5>1. t \in 1..Len(stream[a])
            BY <1>k, <2>1
          <5>2. t <= u
            BY <3>1, <5>1 DEF Current
          <5>3. t \in (v + 1)..u
            BY <1>k, <2>1, <5>1, <5>2
          <5> QED
            BY <5>3
        <4> QED
          BY <1>w, <2>1, <4>1, <4>2
      <3> QED
        BY <3>3, <3>4
    <2> QED
      BY <2>2, <2>3
  <1>17. InTurn(a)'
    BY <1>7, <1>11, <1>r, <1>16 DEF InTurn
  <1> QED
    BY <1>6, <1>8, <1>11, <1>12, <1>13, <1>14, <1>15, <1>17 DEF Served, SoundHere

-----------------------------------------------------------------------------
(* Resume.                                                                 *)

\* A step at a, whatever it does to the calls of Resume.
Stands(a) == Served(a) /\ \A b \in Aggs \ {a} : ResumesKept(b)

\* Only Resume call r moves.
Others(r) == \A q \in Resumers \ {r} : resumer'[q] = resumer[q]

\* A Resume goes on to its next aggregate, or returns.
LEMMA NextAggregateMoves ==
  ASSUME Shape, NEW r \in Resumers, NEW a, NextAggregate(r, a)
  PROVE  /\ Others(r) /\ resumer'[r].rest = {}
         /\ \/ /\ resumer'[r].st = "idle" /\ \A b \in Aggs : resumer'[r].parks[b] = 0
               /\ resumer'[r].todo = {}
            \/ /\ resumer'[r].st = "lift" /\ resumer'[r].todo = resumer[r].todo \ {a}
               /\ resumer'[r].parks = resumer[r].parks /\ resumer'[r].scanned = resumer[r].scanned
  <1>0. resumer = [q \in Resumers |-> resumer[q]] /\ IsResumer(resumer[r])
    BY DEF Shape, IInv, ResumersOK
  <1>1. PICK y : y = [resumer[r] EXCEPT !.st = "lift", !.todo = @ \ {a}, !.undelivered = {},
                                        !.rest = {}]
    OBVIOUS
  <1>2. PICK n : n = NoResumer
    OBVIOUS
  <1>3. /\ y.st = "lift" /\ y.todo = resumer[r].todo \ {a} /\ y.parks = resumer[r].parks
        /\ y.scanned = resumer[r].scanned /\ y.rest = {}
    BY <1>0, <1>1 DEF IsResumer
  <1>4. n.st = "idle" /\ n.todo = {} /\ n.rest = {} /\ \A b \in Aggs : n.parks[b] = 0
    BY <1>2 DEF NoResumer
  <1>5. resumer' = [resumer EXCEPT ![r] = n] \/ resumer' = [resumer EXCEPT ![r] = y]
    BY <1>1, <1>2 DEF NextAggregate
  <1>6. (resumer'[r] = n \/ resumer'[r] = y) /\ Others(r)
    BY <1>0, <1>5 DEF Others
  <1> QED
    BY <1>3, <1>4, <1>6

\* What is found stays found as long as the scan is kept.
LEMMA FoundSame ==
  ASSUME NEW r \in Resumers, resumer'[r].scanned = resumer[r].scanned
  PROVE  \A b \in Aggs : Found(r, b)' = Found(r, b)
  BY DEF Found

\* The other calls of Resume have found what they had.
LEMMA OthersFound ==
  ASSUME NEW r \in Resumers, Others(r)
  PROVE  \A q \in Resumers \ {r}, b \in Aggs : Found(q, b)' = Found(q, b)
  BY DEF Found, Others

\* ... which no other aggregate notices.
LEMMA NextAggregateResumes ==
  ASSUME Shape, NEW r \in Resumers, NEW a, NextAggregate(r, a),
         resumer[r].st \in {"lift", "redeliver"}, NEW b \in Aggs, lock[b] # r
  PROVE  ResumesKept(b)
  <1>1. /\ Others(r)
        /\ \/ resumer'[r].parks[b] = 0
           \/ /\ resumer'[r].todo = resumer[r].todo \ {a}
              /\ resumer'[r].parks = resumer[r].parks /\ Found(r, b)' = Found(r, b)
    BY NextAggregateMoves, FoundSame
  <1>2. \A q \in Resumers \ {r} : resumer'[q] = resumer[q] /\ Found(q, b)' = Found(q, b)
    BY <1>1, OthersFound DEF Others
  <1> QED
    BY <1>1, <1>2 DEF ResumesKept

\* A Resume that has the lock of one aggregate has no other, and Build is over.
LEMMA OneLock ==
  ASSUME Good, NEW r \in Resumers, NEW a \in Aggs
  PROVE  /\ lock[a] = r => /\ up /\ resumer[r].st = "redeliver" /\ a \in resumer[r].todo
                           /\ \A b \in Aggs \ {a} : lock[b] # r
         /\ resumer[r].st # "redeliver" => lock[a] # r
         /\ resumer[r].st # "idle" => up
  <1>1. Redelivering(a)
    BY DEF Good, Sound
  <1> QED
    BY <1>1 DEF Redelivering

\* Redelivering, when one call of Resume moves.
LEMMA RedeliveringNext ==
  ASSUME Good, NEW r \in Resumers, up', Others(r),
         \A q \in Resumers \ {r}, b \in Aggs : lock'[b] = q => lock[b] = q,
         \A b \in Aggs : lock'[b] = r => /\ resumer'[r].st = "redeliver" /\ b \in resumer'[r].todo
                                         /\ \A c \in Aggs : lock'[c] = r => c = b
  PROVE  \A b \in Aggs : Redelivering(b)'
  <1> TAKE b \in Aggs
  <1>1. Redelivering(b)
    BY DEF Good, Sound
  <1>2. ASSUME NEW q \in Resumers, lock'[b] = q
        PROVE  /\ resumer'[q].st = "redeliver" /\ b \in resumer'[q].todo
               /\ \A c \in Aggs : lock'[c] = q => c = b
    <2>1. CASE q = r
      BY <1>2, <2>1
    <2>2. CASE q # r
      BY <1>1, <1>2, <2>2 DEF Redelivering, Others
    <2> QED
      BY <2>1, <2>2
  <1> QED
    BY <1>2 DEF Redelivering

\* The lock of a passes between nobody and a Resume.
LEMMA GuardedLock ==
  ASSUME Good, NEW a \in Aggs, NEW l, l = "free" \/ l \in Resumers,
         lock[a] = "free" \/ lock[a] \in Resumers, lock' = [lock EXCEPT ![a] = l],
         UNCHANGED <<stream, fence, forget, up>>, up
  PROVE  \A b \in Aggs : Guarded(b)'
  <1> TAKE b \in Aggs
  <1>1. Guarded(b)
    BY DEF Good, Sound
  <1>2. lock \in [Aggs -> {"free", "command", "tombstone", "forget"} \cup Resumers]
    BY DEF Good, Shape, ExecOK
  <1>3. /\ b # a => lock'[b] = lock[b]
        /\ b = a => /\ lock[b] \notin {"forget", "command", "tombstone"}
                    /\ lock'[b] \notin {"forget", "command", "tombstone"}
    BY <1>2, ResumerNames
  <1> QED
    BY <1>1, <1>3 DEF Guarded

\* The executor does not move.
LEMMA SameGuarded ==
  ASSUME Good, UNCHANGED <<stream, lock, fence, forget, up>>
  PROVE  \A b \in Aggs : Guarded(b)'
  BY DEF Good, Sound, Guarded

\* A Resume lifts the park it has listed.
LEMMA LiftSound ==
  ASSUME Good, NEW r \in Resumers, NEW a \in Aggs, LiftPark(r, a),
         IsPark(reg[a], resumer[r].parks[a])
  PROVE  Stands(a) /\ \A b \in Aggs : Guarded(b)' /\ Redelivering(b)'
  <1>0. Sound(a) /\ Shape /\ HistoryOK
    BY DEF Good
  <1>1. /\ resumer[r].st = "lift" /\ a \in resumer[r].todo /\ lock[a] = "free"
        /\ Lift(a) /\ lock' = [lock EXCEPT ![a] = r]
        /\ UNCHANGED <<stream, log, fence, forget, up, backlog, handled, letters, started>>
    BY DEF LiftPark, store, process, history
  <1>2. /\ Others(r)
        /\ resumer'[r].st = "redeliver" /\ resumer'[r].todo = resumer[r].todo
        /\ resumer'[r].parks = resumer[r].parks /\ resumer'[r].scanned = resumer[r].scanned
        /\ resumer'[r].rest = Found(r, a) \cup reg[a].undelivered
    BY <1>0, LiftParkEffect DEF Others
  <1>3. /\ Local(a) /\ Unparked(reg[a], reg'[a])
        /\ Rehalted(a, Replaced(worker[a].halt, reg[a])) /\ UNCHANGED ticket
    BY <1>0, <1>1, LiftEffect DEF Lift
  <1>4. lock'[a] = r /\ \A b \in Aggs \ {a} : lock'[b] = lock[b]
    BY <1>0, <1>1 DEF Shape, ExecOK
  <1>5. /\ reg[a].parked /\ lock'[a] # "command" /\ up
        /\ forget[a].st \notin {"committed", "superseded"} /\ forget'[a] = forget[a]
    BY <1>0, <1>1, <1>4, ResumerNames, OneLock DEF Sound, Guarded, IsPark
  <1>6. HistoryOK' /\ \A b \in Aggs : SameHistory(b)
    BY <1>0, <1>1, <1>3, TicketTypes, HistorySame
  <1>7. \A b \in Aggs : Pending(b)' = Pending(b)
    BY <1>1, PendingSame
  <1>8. Elsewhere(a)
    BY <1>1, <1>3, <1>4, <1>6, <1>7, ElsewhereAt DEF Local, Only
  <1>9. Clears(a)
    <2>1. /\ reg'[a].jobs = reg[a].jobs /\ reg'[a].undelivered = {} /\ ~reg'[a].parked
          /\ worker'[a].st = worker[a].st /\ worker'[a].job = worker[a].job
          /\ worker'[a].pending = worker[a].pending
          /\ worker'[a].halt = Replaced(worker[a].halt, reg[a])
      BY <1>3 DEF Unparked, Rehalted
    <2>2. reg[a].jobs \in Seq(Jobs) /\ \A j \in ToSet(reg[a].jobs) : IsLive(j)
      BY <1>0, <1>5, ShapeAt DEF QueueOK, Sound, Halted
    <2>3. InDelivery(a) => worker'[a].halt = "shut"
      <3>1. InDelivery(a) => /\ worker[a].halt \in {"same", "shut"}
                             /\ worker[a].halt = "same" => reg[a].shut
        BY <1>0, <1>5 DEF Sound, Halted, IsShut, IsClosed
      <3>2. reg[a].shut \in BOOLEAN
        BY <1>0, ShapeAt DEF RecordOK
      <3> QED
        BY <2>1, <3>1, <3>2, ReplacedOK
    <2> QED
      BY <1>1, <1>5, <1>6, <1>7, <2>1, <2>2, <2>3 DEF Clears
  <1>10. Fenced(a)'
    <2>1. PICK X : X = {}
      OBVIOUS
    <2>2. Spoils(a, X)
      BY <1>0, <1>3, <2>1, TicketsSame
    <2> QED
      BY <1>3, <1>5, <2>2, SpoiltMarker DEF Rehalted
  <1>11. ASSUME ~DirtyReads PROVE \A v \in Pending(a) : Underway(a, v)'
    <2>1. \A v : ~InHand(a, v)
      BY <1>1, <1>5 DEF InHand
    <2>2. \A v \in Pending(a) : v \in resumer'[r].rest
      BY <1>0, <1>1, <1>2, <1>11, <2>1 DEF Sound, Resumable
    <2> QED
      BY <1>4, <2>2 DEF Underway
  <1>12. ASSUME ~DirtyReads
         PROVE  \A q \in Resumers : lock'[a] = q => \A u \in resumer'[q].rest : Due(a, u)
    <2>1. \A u \in resumer'[r].rest : Due(a, u)
      <3>1. reg[a].undelivered \subseteq Versions
        BY <1>0, ShapeAt DEF QueueOK
      <3> QED
        BY <1>0, <1>2, <1>5, <1>12, <3>1 DEF Sound, InTurn
    <2> QED
      BY <1>4, <2>1
  <1>13. SoundHere(a)'
    BY <1>9, <1>10, <1>11, <1>12, ClearSound
  <1>14. \A b \in Aggs \ {a} : ResumesKept(b)
    <2> TAKE b \in Aggs \ {a}
    <2>1. lock[b] # r
      BY <1>1, OneLock
    <2>2. \A q \in Resumers \ {r} : resumer'[q] = resumer[q] /\ Found(q, b)' = Found(q, b)
      BY <1>2, OthersFound DEF Others
    <2>3. Found(r, b)' = Found(r, b)
      BY <1>2, FoundSame
    <2> QED
      BY <1>1, <1>2, <2>1, <2>2, <2>3 DEF ResumesKept
  <1>15. \A b \in Aggs : Guarded(b)'
    BY <1>1, <1>5, GuardedLock
  <1>16. \A b \in Aggs : Redelivering(b)'
    <2>1. \A b \in Aggs : lock[b] # r
      BY <1>1, OneLock
    <2>2. up'
      BY <1>1, <1>5
    <2> QED
      BY <1>1, <1>2, <1>4, <2>1, <2>2, RedeliveringNext
  <1> QED
    BY <1>6, <1>8, <1>13, <1>14, <1>15, <1>16 DEF Stands, Served

\* A Resume gives back the lock of a.
LEMMA ReleaseSound ==
  ASSUME Good, NEW r \in Resumers, NEW a \in Aggs, Redelivered(r, a) \/ RedeliverFails(r, a)
  PROVE  Stands(a) /\ \A b \in Aggs : Guarded(b)' /\ Redelivering(b)'
  <1>0. Sound(a) /\ Shape /\ HistoryOK
    BY DEF Good
  <1>1. /\ lock[a] = r /\ lock' = [lock EXCEPT ![a] = "free"] /\ NextAggregate(r, a)
        /\ UNCHANGED <<stream, fence, forget, worker, up, backlog, handled, letters, started>>
    BY DEF Redelivered, RedeliverFails, store, process, history
  <1>2. /\ Others(r) /\ resumer'[r].rest = {}
        /\ \/ /\ resumer'[r].st = "idle" /\ \A b \in Aggs : resumer'[r].parks[b] = 0
              /\ resumer'[r].todo = {}
           \/ /\ resumer'[r].st = "lift" /\ resumer'[r].todo = resumer[r].todo \ {a}
              /\ resumer'[r].parks = resumer[r].parks /\ resumer'[r].scanned = resumer[r].scanned
    BY <1>0, <1>1, NextAggregateMoves
  <1>3. /\ up /\ resumer[r].st = "redeliver" /\ \A b \in Aggs \ {a} : lock[b] # r
    BY <1>1, OneLock
  <1>4. lock'[a] = "free" /\ \A b \in Aggs \ {a} : lock'[b] = lock[b]
    BY <1>0, <1>1 DEF Shape, ExecOK
  <1>5. /\ forget[a].st \notin {"committed", "superseded"} /\ forget'[a] = forget[a]
        /\ lock[a] # "free" /\ lock[a] # "command"
    BY <1>0, <1>1, ResumerNames DEF Sound, Guarded
  <1>6. \A b \in Aggs : Pending(b)' = Pending(b)
    <2>1. CASE Redelivered(r, a)
      BY <1>0, <2>1, RedeliveredPending
    <2>2. CASE RedeliverFails(r, a)
      BY <2>2, PendingSame DEF RedeliverFails, store
    <2> QED
      BY <2>1, <2>2
  <1>7. PICK Y : Y = {j.ver : j \in ToSet(reg[a].jobs)}
    OBVIOUS
  <1>8. Spoils(a, Y) /\ Only(a)
    <2>1. CASE Redelivered(r, a)
      <3>1. UNCHANGED <<reg, ticket>> /\ reg = [b \in Aggs |-> reg[b]]
        BY <1>0, <2>1 DEF Redelivered, registry, Shape, IInv, RegistryOK
      <3>2. Spoils(a, {})
        BY <1>0, <3>1, TicketsSame
      <3> QED
        BY <3>1, <3>2 DEF Spoils, Only
    <2>2. CASE RedeliverFails(r, a)
      <3>1. PICK X : X = resumer[r].undelivered \cap resumer[r].rest
        OBVIOUS
      <3>2. Park(a, X)
        BY <2>2, <3>1 DEF RedeliverFails
      <3> QED
        BY <1>0, <1>7, <3>2, ParkEffect, ParkSpoils
    <2> QED
      BY <2>1, <2>2
  <1>9. ticket' \in [Aggs -> [Versions -> Tickets]] /\ \A b \in Aggs \ {a} : ticket'[b] = ticket[b]
    BY <1>8, SpoilsTypes
  <1>10. HistoryOK' /\ \A b \in Aggs : SameHistory(b)
    BY <1>0, <1>1, <1>9, HistorySame
  <1>11. Elsewhere(a)
    BY <1>1, <1>4, <1>6, <1>8, <1>9, <1>10, ElsewhereAt DEF Only
  <1>12. \A b \in Aggs \ {a} : ResumesKept(b)
    BY <1>0, <1>1, <1>3, NextAggregateResumes
  <1>13. Fenced(a)'
    BY <1>1, <1>5, <1>8, SpoiltMarker
  <1>14. Rests(a)
    <2>1. \A u : ~InHand(a, u) /\ ~InHand(a, u)'
      BY <1>4, <1>5 DEF InHand
    <2>2. \A q \in Resumers : lock'[a] # q
      BY <1>4, ResumerNames
    <2>3. \A q \in Resumers :
            \/ resumer'[q].parks[a] = 0
            \/ /\ resumer'[q].parks[a] = resumer[q].parks[a] /\ Found(q, a)' = Found(q, a)
               /\ resumer'[q].st \in {"lift", "redeliver"} /\ a \in resumer'[q].todo =>
                     resumer[q].st \in {"lift", "redeliver"} /\ a \in resumer[q].todo
      <3>1. \A q \in Resumers \ {r} : resumer'[q] = resumer[q] /\ Found(q, a)' = Found(q, a)
        BY <1>2, OthersFound DEF Others
      <3>2. \/ resumer'[r].parks[a] = 0
            \/ /\ resumer'[r].parks[a] = resumer[r].parks[a] /\ Found(r, a)' = Found(r, a)
               /\ a \notin resumer'[r].todo
        BY <1>2, FoundSame
      <3> QED
        BY <3>1, <3>2
    <2> QED
      BY <1>1, <1>5, <1>6, <1>10, <2>1, <2>2, <2>3 DEF Rests
  <1>15. SoundHere(a)'
    <2>1. CASE Redelivered(r, a)
      <3>1. PICK X : X = {}
        OBVIOUS
      <3>2. reg'[a] = reg[a] /\ SamePark(reg[a], reg'[a])
        BY <2>1 DEF Redelivered, registry, SamePark
      <3>3. \A v \in Pending(a) : v \notin resumer[r].rest
        BY <1>0, <2>1, ShapeAt DEF Redelivered
      <3>4. \A u : InLine(a, u)' <=> InLine(a, u)
        BY <1>1, <3>2 DEF InLine, Waits, Working, InDelivery, IsShut
      <3>5. \A v \in Pending(a) : Underway(a, v) => Underway(a, v)'
        BY <1>1, <1>14, <3>3, <3>4 DEF Underway, Rests
      <3>6. reg'[a].undelivered = reg[a].undelivered \cup X
        BY <3>1, <3>2
      <3> QED
        BY <1>13, <1>14, <3>1, <3>2, <3>5, <3>6, RestSound
    <2>2. CASE RedeliverFails(r, a)
      <3>1. PICK X : X = resumer[r].undelivered \cap resumer[r].rest
        OBVIOUS
      <3>2. Park(a, X)
        BY <2>2, <3>1 DEF RedeliverFails
      <3>3. ~DirtyReads => \A u \in X : Due(a, u)
        BY <1>0, <1>1, <3>1 DEF Sound, InTurn
      <3> QED
        BY <1>13, <1>14, <3>2, <3>3, ParkSound
    <2> QED
      BY <2>1, <2>2
  <1>16. \A b \in Aggs : Guarded(b)'
    BY <1>1, <1>3, GuardedLock
  <1>17. \A b \in Aggs : Redelivering(b)'
    <2>1. /\ \A b \in Aggs : lock'[b] # r
          /\ \A q \in Resumers \ {r}, b \in Aggs : lock'[b] = q => lock[b] = q
      BY <1>3, <1>4, ResumerNames
    <2>2. up'
      BY <1>1, <1>3
    <2> QED
      BY <1>2, <2>1, <2>2, RedeliveringNext
  <1> QED
    BY <1>10, <1>11, <1>12, <1>15, <1>16, <1>17 DEF Stands, Served

-----------------------------------------------------------------------------
(* Whole steps.                                                            *)

\* The calls of Resume stay, and none takes a lock.
LEMMA ResumersStay ==
  ASSUME Good, UNCHANGED <<resumer, up>>,
         \A b \in Aggs, r \in Resumers : lock'[b] = r => lock[b] = r
  PROVE  \A b \in Aggs : Redelivering(b)'
  BY DEF Good, Sound, Redelivering

\* A step at a that takes care of the lock and the fence.
LEMMA GuardedAt ==
  ASSUME Good, NEW a \in Aggs, Elsewhere(a), UNCHANGED up, Guarded(a)'
  PROVE  \A b \in Aggs : Guarded(b)'
  <1> TAKE b \in Aggs
  <1>1. CASE b = a
    BY <1>1
  <1>2. CASE b # a
    <2>1. Guarded(b) /\ Unmoved(b)
      BY <1>2 DEF Good, Sound, Elsewhere
    <2> QED
      BY <2>1 DEF Guarded, Unmoved, SameExec, SameStream
  <1> QED
    BY <1>1, <1>2

\* What is left to show of a step at a.
LEMMA StepGood ==
  ASSUME Good, Shape', NEW a \in Aggs, Stands(a),
         \A b \in Aggs : Guarded(b)' /\ Redelivering(b)'
  PROVE  Good'
  <1>1. HistoryOK' /\ SoundHere(a)' /\ Elsewhere(a) /\ \A b \in Aggs \ {a} : ResumesKept(b)
    BY DEF Stands, Served
  <1>2. ASSUME NEW b \in Aggs PROVE Sound(b)'
    <2>1. CASE b = a
      BY <1>1, <2>1 DEF Sound, SoundHere
    <2>2. CASE b # a
      <3>1. Unmoved(b) /\ ResumesKept(b)
        BY <1>1, <2>2 DEF Elsewhere
      <3>2. /\ Logged(b)' /\ Matched(b)' /\ Halted(b)' /\ Ordered(b)'
            /\ Fenced(b)' /\ Handling(b)' /\ LeftAccepted(b)' /\ Resumable(b)' /\ NoneBefore(b)'
            /\ InTurn(b)'
        BY <3>1, UnmovedSound
      <3> QED
        BY <3>2 DEF Sound
    <2> QED
      BY <2>1, <2>2
  <1> QED
    BY <1>1, <1>2 DEF Good

\* A step that moves no aggregate.
LEMMA RestGood ==
  ASSUME Good, Shape', HistoryOK',
         \A b \in Aggs : /\ Unmoved(b) /\ ResumesKept(b)
                         /\ Guarded(b)' /\ Redelivering(b)'
  PROVE  Good'
  <1>1. ASSUME NEW b \in Aggs PROVE Sound(b)'
    <2>1. /\ Logged(b)' /\ Matched(b)' /\ Halted(b)' /\ Ordered(b)'
          /\ Fenced(b)' /\ Handling(b)' /\ LeftAccepted(b)' /\ Resumable(b)' /\ NoneBefore(b)'
          /\ InTurn(b)'
      BY UnmovedSound
    <2> QED
      BY <2>1 DEF Sound
  <1> QED
    BY <1>1 DEF Good

\* An enqueue at a moves no other aggregate.
LEMMA EnqueueElsewhere ==
  ASSUME Good, NEW a \in Aggs, NEW j \in Jobs, Enqueue(a, j),
         UNCHANGED <<stream, log, fence, handled, letters, started>>,
         \A b \in Aggs \ {a} : /\ lock'[b] = lock[b] /\ forget'[b] = forget[b]
                               /\ backlog'[b] = backlog[b]
  PROVE  HistoryOK' /\ Elsewhere(a)
  <1>0. Shape /\ HistoryOK
    BY DEF Good
  <1>1. PICK X : X = {j.ver}
    OBVIOUS
  <1>2. Spoils(a, X)
    BY <1>0, <1>1, EnqueueSpoils
  <1>3. ticket' \in [Aggs -> [Versions -> Tickets]] /\ \A b \in Aggs \ {a} : ticket'[b] = ticket[b]
    BY <1>2, SpoilsTypes
  <1>4. HistoryOK' /\ \A b \in Aggs : SameHistory(b)
    BY <1>0, <1>3, HistorySame
  <1>5. \A b \in Aggs : Pending(b)' = Pending(b)
    BY PendingSame
  <1>6. Local(a)
    BY <1>0, EnqueueEffect
  <1>7. Elsewhere(a)
    BY <1>3, <1>4, <1>5, <1>6, ElsewhereAt DEF Local, Only
  <1> QED
    BY <1>4, <1>7

\* A command enqueues its event.
LEMMA EnqueueCommittedGood ==
  ASSUME Good, Shape', NEW a \in Aggs, EnqueueCommitted(a)
  PROVE  Good'
  <1>0. Sound(a) /\ Shape /\ HistoryOK
    BY DEF Good
  <1>1. PICK j : j = Job(Len(stream[a]), Last(stream[a]), TRUE)
    OBVIOUS
  <1>2. /\ lock[a] = "command" /\ Enqueue(a, j) /\ lock' = [lock EXCEPT ![a] = "free"]
        /\ UNCHANGED <<stream, log, fence, forget, resumer, backlog, up, handled, letters, started>>
    BY <1>1 DEF EnqueueCommitted, store, process, history
  <1>3. j \in Jobs
    <2>1. stream[a] # <<>> /\ stream[a] \in Seq(Kinds) /\ Len(stream[a]) <= MaxVersion
          /\ MaxVersion \in Nat
      BY <1>0, <1>2, ShapeAt DEF Shape, ExecOK
    <2>2. Len(stream[a]) \in Versions /\ Last(stream[a]) \in Kinds
      BY <2>1 DEF Last, Versions
    <2> QED
      BY <1>1, <2>2 DEF Job, Jobs
  <1>4. lock'[a] = "free" /\ \A b \in Aggs \ {a} : lock'[b] = lock[b]
    BY <1>0, <1>2 DEF Shape, ExecOK
  <1>5. HistoryOK' /\ Elsewhere(a)
    BY <1>2, <1>3, <1>4, EnqueueElsewhere
  <1>6. SoundHere(a)'
    BY EnqueueCommittedSound
  <1>7. \A b \in Aggs : ResumesKept(b)
    BY <1>0, <1>2, ResumesSame
  <1>8. Guarded(a)'
    BY <1>0, <1>2, <1>4 DEF Sound, Guarded
  <1>9. \A b \in Aggs : Guarded(b)'
    BY <1>2, <1>5, <1>8, GuardedAt
  <1>10. \A b \in Aggs : Redelivering(b)'
    BY <1>2, <1>4, ResumerNames, ResumersStay
  <1>11. Stands(a)
    BY <1>5, <1>6, <1>7 DEF Stands, Served
  <1> QED
    BY <1>9, <1>10, <1>11, StepGood

\* A Forget enqueues its marker.
LEMMA EnqueueTombstoneGood ==
  ASSUME Good, Shape', NEW a \in Aggs, EnqueueTombstone(a)
  PROVE  Good'
  <1>0. Sound(a) /\ Shape /\ HistoryOK
    BY DEF Good
  <1>1. PICK j : j = Job(forget[a].ver, "forget", TRUE)
    OBVIOUS
  <1>2. /\ forget[a].st = "superseded" /\ Enqueue(a, j) /\ lock' = [lock EXCEPT ![a] = "free"]
        /\ forget' = [forget EXCEPT ![a].st = "waiting"]
        /\ UNCHANGED <<stream, log, fence, resumer, backlog, up, handled, letters, started>>
    BY <1>1 DEF EnqueueTombstone, ForgetAt, store, process, history
  <1>3. j \in Jobs
    <2>1. forget[a].ver \in Versions
      BY <1>0, <1>2 DEF Shape, ExecOK
    <2> QED
      BY <1>1, <2>1 DEF Job, Jobs, Kinds
  <1>4. lock'[a] = "free" /\ \A b \in Aggs \ {a} : lock'[b] = lock[b]
    BY <1>0, <1>2 DEF Shape, ExecOK
  <1>5. /\ forget'[a].st = "waiting" /\ forget'[a].ver = forget[a].ver
        /\ \A b \in Aggs \ {a} : forget'[b] = forget[b]
    BY <1>0, <1>2 DEF Shape, ExecOK
  <1>6. HistoryOK' /\ Elsewhere(a)
    BY <1>2, <1>3, <1>4, <1>5, EnqueueElsewhere
  <1>7. SoundHere(a)'
    BY EnqueueTombstoneSound
  <1>8. \A b \in Aggs : ResumesKept(b)
    BY <1>0, <1>2, ResumesSame
  <1>9. Guarded(a)'
    BY <1>0, <1>2, <1>4, <1>5 DEF Sound, Guarded
  <1>10. \A b \in Aggs : Guarded(b)'
    BY <1>2, <1>6, <1>9, GuardedAt
  <1>11. \A b \in Aggs : Redelivering(b)'
    BY <1>2, <1>4, ResumerNames, ResumersStay
  <1>12. Stands(a)
    BY <1>6, <1>7, <1>8 DEF Stands, Served
  <1> QED
    BY <1>10, <1>11, <1>12, StepGood

\* Recover enqueues an event.
LEMMA RecoverGood ==
  ASSUME Good, Shape', NEW a \in Aggs, Recover(a)
  PROVE  Good'
  <1>0. Sound(a) /\ Shape /\ HistoryOK
    BY DEF Good
  <1>1. PICK v \in backlog[a] :
            /\ Enqueue(a, Job(v, stream[a][v], FALSE))
            /\ backlog' = [backlog EXCEPT ![a] = @ \ {v}]
    BY DEF Recover
  <1>2. PICK j : j = Job(v, stream[a][v], FALSE)
    OBVIOUS
  <1>3. /\ Enqueue(a, j)
        /\ UNCHANGED <<stream, log, lock, fence, forget, resumer, up, handled, letters, started>>
    BY <1>1, <1>2 DEF Recover, store, exec, history
  <1>4. j \in Jobs
    <2>1. v \in Versions /\ stream[a][v] \in Kinds
      BY <1>0, <1>1, ShapeAt
    <2> QED
      BY <1>2, <2>1 DEF Job, Jobs
  <1>5. \A b \in Aggs \ {a} : backlog'[b] = backlog[b]
    BY <1>0, <1>1 DEF Shape, StoreOK
  <1>6. HistoryOK' /\ Elsewhere(a)
    BY <1>3, <1>4, <1>5, EnqueueElsewhere
  <1>7. SoundHere(a)'
    BY RecoverSound
  <1>8. \A b \in Aggs : ResumesKept(b)
    BY <1>0, <1>3, ResumesSame
  <1>9. \A b \in Aggs : Guarded(b)'
    BY <1>3, SameGuarded
  <1>10. \A b \in Aggs : Redelivering(b)'
    BY <1>3, ResumersStay
  <1>11. Stands(a)
    BY <1>6, <1>7, <1>8 DEF Stands, Served
  <1> QED
    BY <1>9, <1>10, <1>11, StepGood

\* A Resume enqueues an event.
LEMMA RedeliverGood ==
  ASSUME Good, Shape', NEW r \in Resumers, NEW a \in Aggs, Redeliver(r, a)
  PROVE  Good'
  <1>0. Sound(a) /\ Shape /\ HistoryOK
    BY DEF Good
  <1>1. PICK v \in resumer[r].rest :
            /\ v \in DOMAIN stream[a]
            /\ Enqueue(a, Job(v, stream[a][v], FALSE))
            /\ resumer' = [resumer EXCEPT ![r].rest = @ \ {v}]
    BY DEF Redeliver
  <1>2. PICK j : j = Job(v, stream[a][v], FALSE)
    OBVIOUS
  <1>3. /\ Enqueue(a, j) /\ lock[a] = r
        /\ UNCHANGED <<stream, log, lock, fence, forget, backlog, up, handled, letters, started>>
    BY <1>1, <1>2 DEF Redeliver, store, exec, process, history
  <1>4. j \in Jobs
    <2>1. v \in Versions /\ stream[a][v] \in Kinds
      BY <1>0, <1>1, ShapeAt
    <2> QED
      BY <1>2, <2>1 DEF Job, Jobs
  <1>5. HistoryOK' /\ Elsewhere(a)
    BY <1>3, <1>4, EnqueueElsewhere
  <1>6. SoundHere(a)'
    BY RedeliverSound
  <1>7. /\ Others(r)
        /\ resumer'[r].st = resumer[r].st /\ resumer'[r].todo = resumer[r].todo
        /\ resumer'[r].parks = resumer[r].parks /\ resumer'[r].scanned = resumer[r].scanned
    <2>1. resumer = [q \in Resumers |-> resumer[q]] /\ IsResumer(resumer[r])
      BY <1>0 DEF Shape, IInv, ResumersOK
    <2>2. PICK x : x = [resumer[r] EXCEPT !.rest = @ \ {v}]
      OBVIOUS
    <2>3. resumer' = [resumer EXCEPT ![r] = x]
      BY <1>1, <2>1, <2>2
    <2>4. x.st = resumer[r].st /\ x.todo = resumer[r].todo /\ x.parks = resumer[r].parks
          /\ x.scanned = resumer[r].scanned
      BY <2>1, <2>2 DEF IsResumer
    <2>5. resumer'[r] = x /\ Others(r)
      BY <2>1, <2>3 DEF Others
    <2> QED
      BY <2>4, <2>5
  <1>8. /\ up /\ resumer[r].st = "redeliver" /\ a \in resumer[r].todo
        /\ \A b \in Aggs \ {a} : lock[b] # r
    BY <1>3, OneLock
  <1>9. \A b \in Aggs \ {a} : ResumesKept(b)
    <2> TAKE b \in Aggs \ {a}
    <2>1. \A q \in Resumers \ {r} : resumer'[q] = resumer[q] /\ Found(q, b)' = Found(q, b)
      BY <1>7, OthersFound DEF Others
    <2>2. Found(r, b)' = Found(r, b) /\ lock[b] # r
      BY <1>7, <1>8, FoundSame
    <2> QED
      BY <1>7, <2>1, <2>2 DEF ResumesKept
  <1>10. \A b \in Aggs : Guarded(b)'
    BY <1>3, SameGuarded
  <1>11. \A b \in Aggs : Redelivering(b)'
    <2>1. up' /\ \A b \in Aggs : lock'[b] = r => b = a
      BY <1>3, <1>8
    <2>2. \A q \in Resumers \ {r}, b \in Aggs : lock'[b] = q => lock[b] = q
      BY <1>3
    <2>3. \A b \in Aggs : lock'[b] = r => /\ resumer'[r].st = "redeliver" /\ b \in resumer'[r].todo
                                          /\ \A c \in Aggs : lock'[c] = r => c = b
      BY <1>7, <1>8, <2>1
    <2> QED
      BY <1>7, <2>1, <2>2, <2>3, RedeliveringNext
  <1>12. Stands(a)
    BY <1>5, <1>6, <1>9 DEF Stands, Served
  <1> QED
    BY <1>10, <1>11, <1>12, StepGood

-----------------------------------------------------------------------------
(* Forget and the failures of Build, past the enqueue.                     *)

\* The Forget of a moves on: what else of the executor stays.
LEMMA ForgetMovesAt ==
  ASSUME Shape, NEW a \in Aggs, NEW s, forget' = [forget EXCEPT ![a].st = s]
  PROVE  /\ forget'[a].st = s /\ forget'[a].ver = forget[a].ver
         /\ \A b \in Aggs \ {a} : forget'[b] = forget[b]
  BY DEF Shape, ExecOK

\* The calls of Resume do not change, and so rest with a.
LEMMA QuietRests ==
  ASSUME Good, NEW a \in Aggs, UNCHANGED <<resumer, lock, handled, letters, started, worker>>,
         stream'[a] = stream[a], Pending(a)' = Pending(a), backlog'[a] \subseteq backlog[a],
         lock[a] # "command", forget[a].st \notin {"committed", "superseded"},
         forget'[a].st \notin {"committed", "superseded"}
  PROVE  Rests(a)
  <1>1. \A u : ~InHand(a, u) /\ ~InHand(a, u)'
    BY DEF InHand
  <1>2. SameHistory(a)
    BY DEF SameHistory
  <1>3. \A r \in Resumers : Found(r, a)' = Found(r, a)
    BY DEF Found
  <1> QED
    BY <1>1, <1>2, <1>3 DEF Rests

\* Nobody but a Resume has the lock of a while its Forget is past the enqueue.
LEMMA PastEnqueue ==
  ASSUME Good, NEW a \in Aggs, forget[a].st \in {"waiting", "erase", "failed", "parked"}
  PROVE  /\ lock[a] # "command" /\ lock[a] # "forget" /\ a \in fence
         /\ forget[a].ver \in Versions /\ forget[a].ver = Len(stream[a])
         /\ stream[a][Len(stream[a])] = "forget" /\ up
  BY DEF Good, Sound, Guarded, Shape, ExecOK

\* a rests and its line stays.
LEMMA SameLineRests ==
  ASSUME Good, NEW a \in Aggs, Rests(a), Fenced(a)', UNCHANGED <<reg, worker, lock, resumer>>,
         backlog'[a] = backlog[a]
  PROVE  SoundHere(a)'
  <1>1. PICK X : X = {}
    OBVIOUS
  <1>2. reg'[a] = reg[a] /\ SamePark(reg[a], reg'[a])
    BY DEF SamePark
  <1>3. \A u : InLine(a, u)' <=> InLine(a, u)
    BY DEF InLine, Waits, Working, InDelivery, IsShut
  <1>4. \A v \in Pending(a) : Underway(a, v) => Underway(a, v)'
    BY <1>3 DEF Underway, Rests
  <1>5. reg'[a].undelivered = reg[a].undelivered \cup X
    BY <1>1, <1>2
  <1> QED
    BY <1>1, <1>2, <1>4, <1>5, RestSound

\* A Forget learns the outcome of its marker, or gives up.
LEMMA AwaitTombstoneSound ==
  ASSUME Good, NEW a \in Aggs, AwaitTombstone(a)
  PROVE  SoundHere(a)'
  <1>0. Sound(a) /\ Shape
    BY DEF Good
  <1>1. /\ forget[a].st = "waiting"
        /\ UNCHANGED <<stream, log, lock, reg, worker, ticket, resumer, backlog,
                       handled, letters, started>>
    BY DEF AwaitTombstone, store, registry, process, history
  <1>2. PICK s : forget' = [forget EXCEPT ![a].st = s]
                 /\ (s = "failed" \/ (s = "erase" /\ Outcome(a) = "ok"))
    BY DEF AwaitTombstone, ForgetAt, Outcome
  <1>3. forget'[a].st = s /\ forget'[a].ver = forget[a].ver
    BY <1>0, <1>2, ForgetMovesAt
  <1>4. Pending(a)' = Pending(a)
    BY <1>1, PendingSame
  <1>5. Rests(a)
    <2>1. lock[a] # "command"
      BY <1>1, PastEnqueue
    <2> QED
      BY <1>1, <1>2, <1>3, <1>4, <2>1, QuietRests
  <1>6. Fenced(a)'
    <2>1. CASE s = "failed"
      BY <1>3, <2>1 DEF Fenced
    <2>2. CASE s = "erase" /\ Outcome(a) = "ok"
      <3>1. MarkerDelivered(a) /\ worker[a].st \notin Carrying
        BY <1>0, <1>1, <2>2 DEF Sound, Fenced
      <3>2. MarkerDelivered(a)' /\ worker'[a].st \notin Carrying
        BY <1>1, <1>3, <1>4, <3>1 DEF MarkerDelivered
      <3> QED
        BY <1>3, <2>2, <3>2 DEF Fenced
    <2> QED
      BY <1>2, <2>1, <2>2
  <1> QED
    BY <1>1, <1>5, <1>6, SameLineRests

\* A Forget that has failed, and one that is over, claim nothing.
LEMMA FailedForgetSound ==
  ASSUME Good, NEW a \in Aggs, forget[a].st \in {"waiting", "erase", "parked"},
         forget'[a].st \in {"failed", "none"},
         UNCHANGED <<stream, log, lock, reg, worker, resumer, backlog, handled, letters, started>>
  PROVE  SoundHere(a)'
  <1>1. Pending(a)' = Pending(a)
    BY PendingSame
  <1>2. lock[a] # "command"
    BY PastEnqueue
  <1>3. Rests(a)
    BY <1>1, <1>2, QuietRests
  <1>4. Fenced(a)'
    BY DEF Fenced
  <1> QED
    BY <1>3, <1>4, SameLineRests

\* A Forget that failed parks its aggregate.
LEMMA ForgetParksSound ==
  ASSUME Good, NEW a \in Aggs, ForgetParks(a)
  PROVE  SoundHere(a)'
  <1>0. Shape
    BY DEF Good
  <1>1. /\ forget[a].st = "failed" /\ forget' = [forget EXCEPT ![a].st = "parked"]
        /\ UNCHANGED <<stream, log, lock, worker, resumer, backlog, handled, letters, started>>
    BY DEF ForgetParks, ForgetAt, store, process, history
  <1>2. PICK X : X = {}
    OBVIOUS
  <1>3. Park(a, X)
    BY <1>2 DEF ForgetParks
  <1>4. forget'[a].st = "parked"
    BY <1>0, <1>1, ForgetMovesAt
  <1>5. Pending(a)' = Pending(a) /\ lock[a] # "command"
    BY <1>1, PendingSame, PastEnqueue
  <1>6. Rests(a)
    BY <1>1, <1>4, <1>5, QuietRests
  <1>7. Fenced(a)'
    BY <1>4 DEF Fenced
  <1> QED
    BY <1>2, <1>3, <1>6, <1>7, ParkSound

\* Recover cannot read the events and parks the aggregate with its backlog.
LEMMA RecoverFailsSound ==
  ASSUME Good, NEW a \in Aggs, RecoverFails(a)
  PROVE  SoundHere(a)'
  <1>0. Sound(a) /\ Shape
    BY DEF Good
  <1>1. /\ ~up /\ backlog' = [backlog EXCEPT ![a] = {}]
        /\ UNCHANGED <<stream, log, lock, fence, forget, worker, resumer,
                       handled, letters, started>>
    BY DEF RecoverFails, store, exec, history
  <1>2. PICK X : X = backlog[a]
    OBVIOUS
  <1>3. Park(a, X)
    BY <1>2 DEF RecoverFails
  <1>4. lock[a] = "free" /\ forget[a].st = "none"
    BY <1>0, <1>1 DEF Shape, ExecOK, Sound, Guarded
  <1>5. Pending(a)' = Pending(a) /\ backlog'[a] \subseteq backlog[a]
    <2>1. backlog'[a] = {}
      BY <1>0, <1>1 DEF Shape, StoreOK
    <2> QED
      BY <1>1, <2>1, PendingSame
  <1>6. Rests(a)
    BY <1>1, <1>4, <1>5, QuietRests
  <1>7. Fenced(a)'
    BY <1>1, <1>4, NoFenceNeeded
  <1>8. \A u \in X : Due(a, u)
    BY <1>0, <1>2 DEF Sound, Logged, Due
  <1> QED
    BY <1>3, <1>6, <1>7, <1>8, ParkSound

\* A Forget parks and lifts in one hold of the mutex: the line is empty.
LEMMA ForgetSupersedesSound ==
  ASSUME Good, NEW a \in Aggs, ForgetSupersedes(a)
  PROVE  SoundHere(a)'
  <1>0. Sound(a) /\ Shape /\ HistoryOK
    BY DEF Good
  <1>1. /\ forget[a].st = "committed" /\ Supersede(a)
        /\ forget' = [forget EXCEPT ![a].st = "superseded"]
        /\ UNCHANGED <<stream, log, lock, fence, resumer, backlog, up, handled, letters, started>>
    BY DEF ForgetSupersedes, ForgetAt, store, process, history
  <1>2. forget'[a].st = "superseded" /\ forget'[a].ver = forget[a].ver
    BY <1>0, <1>1, ForgetMovesAt
  <1>3. PICK r : /\ RecordOK(r) /\ QueueOK(r) /\ Unparked(r, reg'[a])
                 /\ IF reg[a].parked THEN r.shut = reg[a].shut /\ r.jobs = reg[a].jobs
                    ELSE r.shut = TRUE /\ ToSet(r.jobs) = {j \in ToSet(reg[a].jobs) : IsLive(j)}
                 /\ Rehalted(a, Replaced(worker[a].halt, r))
    BY <1>0, <1>1, SupersedeEffect
  <1>4. Pending(a)' = Pending(a)
    BY <1>1, PendingSame
  <1>5. \A j \in ToSet(r.jobs) : IsLive(j) /\ j \in ToSet(reg[a].jobs)
    <2>1. CASE reg[a].parked
      BY <1>0, <1>3, <2>1 DEF Sound, Halted
    <2>2. CASE ~reg[a].parked
      BY <1>3, <2>2
    <2> QED
      BY <2>1, <2>2
  <1>6. /\ reg'[a].jobs = r.jobs /\ reg'[a].jobs \in Seq(Jobs)
        /\ reg'[a].undelivered = {} /\ ~reg'[a].parked
        /\ worker'[a].st = worker[a].st /\ worker'[a].job = worker[a].job
        /\ worker'[a].pending = worker[a].pending
        /\ worker'[a].halt = Replaced(worker[a].halt, r)
    BY <1>3 DEF Unparked, Rehalted, QueueOK
  <1>7. InDelivery(a) => worker'[a].halt = "shut"
    <2>1. InDelivery(a) => /\ worker[a].halt \in {"same", "shut"}
                           /\ worker[a].halt = "same" => r.shut
      <3>1. InDelivery(a) => worker[a].halt \in {"same", "shut"}
        BY <1>0 DEF Sound, Halted
      <3>2. InDelivery(a) /\ reg[a].parked /\ worker[a].halt = "same" => reg[a].shut
        BY <1>0 DEF Sound, Halted, IsShut, IsClosed
      <3> QED
        BY <1>3, <3>1, <3>2
    <2>2. r.shut \in BOOLEAN
      BY <1>3 DEF RecordOK
    <2> QED
      BY <1>6, <2>1, <2>2, ReplacedOK
  <1>8. Clears(a)
    <2>1. SameHistory(a) /\ backlog'[a] \subseteq backlog[a] /\ stream'[a] = stream[a]
      BY <1>1 DEF SameHistory
    <2> QED
      BY <1>2, <1>4, <1>5, <1>6, <1>7, <2>1 DEF Clears
  <1>9. /\ Pending(a) = {forget[a].ver} /\ Outcome(a) = "no"
        /\ \A j \in ToSet(reg[a].jobs) : j.ver # forget[a].ver
        /\ worker[a].st \in Carrying => worker[a].job.ver # forget[a].ver
    BY <1>0, <1>1 DEF Sound, Fenced
  <1>10. Outcome(a)' = "no"
    <2>1. PICK Y : Y = {j.ver : j \in ToSet(reg[a].jobs)}
      OBVIOUS
    <2>2. Spoils(a, Y)
      BY <1>0, <1>1, <2>1, ParkSpoils
    <2>3. forget[a].ver \notin Y
      BY <1>9, <2>1
    <2> QED
      BY <1>0, <1>1, <1>2, <1>9, <2>2, <2>3, OutcomeSpoilt
  <1>11. Fenced(a)'
    <2>1. InDelivery(a)' <=> InDelivery(a)
      BY <1>6 DEF InDelivery
    <2>2. InDelivery(a)' => IsShut(a)'
      BY <1>7, <2>1 DEF IsShut, IsClosed
    <2>3. ~Working(a)'
      BY <2>2 DEF Working
    <2> QED
      BY <1>2, <1>4, <1>5, <1>6, <1>9, <1>10, <2>3 DEF Fenced
  <1>12. \A v \in Pending(a) : Underway(a, v)'
    <2>1. forget[a].ver = Len(stream[a])
      BY <1>0, <1>1 DEF Sound, Guarded
    <2>3. ASSUME NEW v \in Pending(a) PROVE Underway(a, v)'
      <3>1. v = Len(stream[a])
        BY <1>9, <2>1
      <3>2. InHand(a, v)'
        BY <1>1, <1>2, <3>1 DEF InHand
      <3> QED
        BY <3>2 DEF Underway
    <2> QED
      BY <2>3
  <1>13. \A q \in Resumers : lock'[a] # q
    BY <1>0, <1>1, ResumerNames DEF Sound, Guarded
  <1> QED
    BY <1>8, <1>11, <1>12, <1>13, ClearSound

-----------------------------------------------------------------------------
(* The erasure of a stream.                                                *)

\* The deletion marker is accepted and nothing of the stream is left in memory.
LEMMA ErasedIsDelivered ==
  ASSUME Good, NEW a \in Aggs, forget[a].st = "erase"
  PROVE  /\ reg[a].jobs = <<>> /\ ~reg[a].parked /\ lock[a] = "free" /\ Pending(a) = {}
         /\ handled[a][Len(stream[a])] = Subs /\ stream[a][Len(stream[a])] = "forget"
         /\ worker[a].st \notin Carrying /\ backlog[a] = {} /\ up
  <1>1. MarkerDelivered(a) /\ worker[a].st \notin Carrying
    BY DEF Good, Sound, Fenced
  <1>2. /\ forget[a].ver = Len(stream[a]) /\ stream[a][Len(stream[a])] = "forget" /\ up
    BY PastEnqueue
  <1>3. backlog[a] = {}
    BY <1>2 DEF Good, Shape, ExecOK
  <1> QED
    BY <1>1, <1>2, <1>3 DEF MarkerDelivered

\* With its stream, nothing of a is left to speak of.
LEMMA EraseHere ==
  ASSUME Good, NEW a \in Aggs, forget[a].st = "erase", forget'[a].st = "none",
         stream'[a] = <<>>, Pending(a)' = {}, started'[a] = {}, letters'[a] = {},
         UNCHANGED <<lock, reg, worker, resumer, backlog>>
  PROVE  SoundHere(a)'
  <1>1. /\ reg[a].jobs = <<>> /\ ~reg[a].parked /\ lock[a] = "free"
        /\ worker[a].st \notin Carrying /\ backlog[a] = {}
    BY ErasedIsDelivered
  <1>2. /\ reg'[a].jobs = <<>> /\ ~reg'[a].parked /\ lock'[a] = "free"
        /\ worker'[a].st \notin Carrying /\ backlog'[a] = {}
    BY <1>1
  <1>3. Len(stream'[a]) = 0 /\ \A v \in 1..Len(stream'[a]) : FALSE
    OBVIOUS
  <1>4. \A j \in ToSet(reg'[a].jobs) : FALSE
    BY <1>2, ToSetEmpty
  <1>5. ~InDelivery(a)' /\ ~Working(a)' /\ \A u : ~Waits(a, u)' /\ ~InLine(a, u)'
    <2>1. ~InDelivery(a)'
      BY <1>2 DEF InDelivery, Carrying
    <2>2. \A u : ~Waits(a, u)'
      BY <1>4 DEF Waits
    <2> QED
      BY <2>1, <2>2 DEF Working, InLine
  <1>6. \A u : Current(a, u)' /\ Due(a, u)'
    BY <1>3 DEF Current, Due
  <1>7. \A r \in Resumers : lock'[a] # r
    BY <1>2, ResumerNames
  <1>8. Logged(a)' /\ LeftAccepted(a)' /\ Resumable(a)'
    BY <1>2, <1>3 DEF Logged, LeftAccepted, Resumable
  <1>9. Matched(a)'
    BY <1>2, <1>4 DEF Matched
  <1>10. Halted(a)'
    BY <1>2, <1>5 DEF Halted
  <1>11. Ordered(a)'
    <2>1. \A i \in DOMAIN reg'[a].jobs : FALSE
      BY <1>2
    <2> QED
      BY <1>5, <2>1 DEF Ordered
  <1>12. Fenced(a)'
    BY NoFenceNeeded
  <1>13. Handling(a)' /\ NoneBefore(a)'
    <2>1. \A s \in {"attempt", "wait", "giveUp", "letter", "ack"} : s \in Carrying
      BY DEF Carrying, Delivering
    <2> QED
      BY <1>2, <2>1 DEF Handling, NoneBefore
  <1>14. InTurn(a)'
    BY <1>5, <1>6, <1>7 DEF InTurn
  <1> QED
    BY <1>8, <1>9, <1>10, <1>11, <1>12, <1>13, <1>14 DEF SoundHere

\* The erasure succeeds.
LEMMA EraseGood ==
  ASSUME Good, Shape', NEW a \in Aggs, Erase(a), forget' = [forget EXCEPT ![a] = NoForget]
  PROVE  Good'
  <1>0. Sound(a) /\ Shape /\ HistoryOK
    BY DEF Good
  <1>1. /\ forget[a].st = "erase" /\ lock[a] = "free"
        /\ UNCHANGED <<lock, reg, worker, resumer, up, backlog>>
    BY DEF Erase, registry, process
  <1>2. forget'[a].st = "none" /\ \A b \in Aggs \ {a} : forget'[b] = forget[b]
    BY <1>0 DEF Shape, ExecOK, NoForget
  <1>3. /\ stream' = [stream EXCEPT ![a] = <<>>] /\ log' = WithoutAgg(a) /\ fence' = fence \ {a}
        /\ handled' = [handled EXCEPT ![a] = [v \in Versions |-> {}]]
        /\ letters' = [letters EXCEPT ![a] = {}]
        /\ started' = [started EXCEPT ![a] = {}]
        /\ ticket' = [ticket EXCEPT ![a] = [v \in Versions |-> OpenTicket]]
    <2>1. ~ForgetAt(a, "failed")
      <3>1. ForgetAt(a, "failed") => forget'[a].st = "failed"
        BY <1>0, ForgetMovesAt DEF ForgetAt
      <3> QED
        BY <1>2, <3>1
    <2> QED
      BY <2>1 DEF Erase
  <1>4. /\ stream'[a] = <<>> /\ \A b \in Aggs \ {a} : stream'[b] = stream[b]
    BY <1>0, <1>3 DEF Shape, StoreOK
  <1>5. Pending(a)' = {} /\ \A b \in Aggs \ {a} : Pending(b)' = Pending(b)
    BY <1>0, <1>3, ErasePending
  <1>6. /\ letters'[a] = {} /\ started'[a] = {}
        /\ \A b \in Aggs \ {a} : SameHistory(b)
        /\ handled' \in [Aggs -> [Versions -> SUBSET Subs]]
        /\ letters' \in [Aggs -> SUBSET Versions] /\ started' \in [Aggs -> SUBSET Versions]
    <2>1. /\ handled \in [Aggs -> [Versions -> SUBSET Subs]]
          /\ letters \in [Aggs -> SUBSET Versions] /\ started \in [Aggs -> SUBSET Versions]
      BY <1>0 DEF HistoryOK
    <2>2. letters'[a] = {} /\ started'[a] = {}
      BY <1>3, <2>1
    <2>3. \A b \in Aggs \ {a} : SameHistory(b)
      BY <1>3, <2>1 DEF SameHistory
    <2>4. letters' \in [Aggs -> SUBSET Versions] /\ started' \in [Aggs -> SUBSET Versions]
      BY <1>3, <2>1
    <2>5. handled' \in [Aggs -> [Versions -> SUBSET Subs]]
      <3>1. PICK f : f = [v \in Versions |-> {}]
        OBVIOUS
      <3>2. f \in [Versions -> SUBSET Subs]
        BY <3>1
      <3>3. handled' = [handled EXCEPT ![a] = f]
        BY <1>3, <3>1
      <3> QED
        BY <2>1, <3>2, <3>3
    <2> QED
      BY <2>2, <2>3, <2>4, <2>5
  <1>7. ticket' \in [Aggs -> [Versions -> Tickets]] /\ \A b \in Aggs \ {a} : ticket'[b] = ticket[b]
    <2>1. ticket \in [Aggs -> [Versions -> Tickets]] /\ OpenTicket \in Tickets
      BY <1>0, TicketTypes DEF OpenTicket, Tickets
    <2> HIDE DEF Tickets
    <2>2. PICK f : f = [v \in Versions |-> OpenTicket]
      OBVIOUS
    <2>3. f \in [Versions -> Tickets]
      BY <2>1, <2>2
    <2>4. ticket' = [ticket EXCEPT ![a] = f]
      BY <1>3, <2>2
    <2> QED
      BY <2>1, <2>3, <2>4
  <1>8. HistoryOK'
    BY <1>6, <1>7 DEF HistoryOK, Tickets
  <1>9. Elsewhere(a)
    <2>1. \A b \in Aggs \ {a} : b \in fence' <=> b \in fence
      BY <1>3
    <2> QED
      BY <1>1, <1>2, <1>4, <1>5, <1>6, <1>7, <2>1, ElsewhereAt
  <1>10. SoundHere(a)'
    BY <1>1, <1>2, <1>4, <1>5, <1>6, EraseHere
  <1>11. \A b \in Aggs : ResumesKept(b)
    BY <1>1, ResumesSame
  <1>12. Guarded(a)'
    BY <1>1, <1>2, <1>3 DEF Guarded
  <1>13. \A b \in Aggs : Guarded(b)'
    BY <1>1, <1>9, <1>12, GuardedAt
  <1>14. \A b \in Aggs : Redelivering(b)'
    BY <1>1, ResumersStay
  <1>15. Stands(a)
    BY <1>8, <1>9, <1>10, <1>11 DEF Stands, Served
  <1> QED
    BY <1>13, <1>14, <1>15, StepGood

-----------------------------------------------------------------------------
(* The steps of the executor at a that leave the locks alone.              *)

\* What is to be shown of a step of the executor at a.
LEMMA ExecutorGood ==
  ASSUME Good, Shape', NEW a \in Aggs, SoundHere(a)', Guarded(a)', NEW X, Spoils(a, X), Only(a),
         UNCHANGED <<stream, log, lock, resumer, up, handled, letters, started>>,
         \A b \in Aggs \ {a} : /\ forget'[b] = forget[b] /\ (b \in fence' <=> b \in fence)
                               /\ backlog'[b] = backlog[b] /\ worker'[b] = worker[b]
  PROVE  Good'
  <1>0. Shape /\ HistoryOK
    BY DEF Good
  <1>1. ticket' \in [Aggs -> [Versions -> Tickets]] /\ \A b \in Aggs \ {a} : ticket'[b] = ticket[b]
    BY SpoilsTypes
  <1>2. HistoryOK' /\ \A b \in Aggs : SameHistory(b)
    BY <1>0, <1>1, HistorySame
  <1>3. \A b \in Aggs : Pending(b)' = Pending(b)
    BY PendingSame
  <1>4. Elsewhere(a)
    BY <1>1, <1>2, <1>3, ElsewhereAt DEF Only
  <1>5. \A b \in Aggs : ResumesKept(b)
    BY ResumesSame
  <1>6. \A b \in Aggs : Guarded(b)'
    BY <1>4, GuardedAt
  <1>7. \A b \in Aggs : Redelivering(b)'
    BY ResumersStay
  <1>8. Stands(a)
    BY <1>2, <1>4, <1>5 DEF Stands, Served
  <1> QED
    BY <1>6, <1>7, <1>8, StepGood

\* The registry and the tickets stay.
LEMMA SameRegistry ==
  ASSUME Good, NEW a \in Aggs, UNCHANGED <<reg, ticket>>
  PROVE  Only(a) /\ \E X : Spoils(a, X)
  <1>1. Spoils(a, {})
    BY TicketsSame DEF Good
  <1>2. Only(a)
    BY DEF Only, Good, Shape, IInv, RegistryOK
  <1> QED
    BY <1>1, <1>2

\* A Forget past its marker moves on, with its fence up.
LEMMA ForgetGuarded ==
  ASSUME Good, NEW a \in Aggs, NEW s \in ForgetStages \ {"none"}, forget[a].st # "none",
         forget'[a].st = s, forget'[a].ver = forget[a].ver,
         s \in {"committed", "superseded"} <=> forget[a].st \in {"committed", "superseded"},
         UNCHANGED <<stream, lock, fence, up>>
  PROVE  Guarded(a)'
  BY DEF Good, Sound, Guarded

\* A Forget supersedes.
LEMMA ForgetSupersedesGood ==
  ASSUME Good, Shape', NEW a \in Aggs, ForgetSupersedes(a)
  PROVE  Good'
  <1>0. Shape /\ HistoryOK
    BY DEF Good
  <1>1. /\ forget[a].st = "committed" /\ Supersede(a)
        /\ forget' = [forget EXCEPT ![a].st = "superseded"]
        /\ UNCHANGED <<stream, log, lock, fence, resumer, backlog, up, handled, letters, started>>
    BY DEF ForgetSupersedes, ForgetAt, store, process, history
  <1>2. /\ forget'[a].st = "superseded" /\ forget'[a].ver = forget[a].ver
        /\ \A b \in Aggs \ {a} : forget'[b] = forget[b]
    BY <1>0, <1>1, ForgetMovesAt
  <1>3. Guarded(a)'
    BY <1>1, <1>2, ForgetGuarded DEF ForgetStages
  <1>4. PICK X : X = {j.ver : j \in ToSet(reg[a].jobs)}
    OBVIOUS
  <1>5. Spoils(a, X)
    BY <1>0, <1>1, <1>4, ParkSpoils
  <1>6. Only(a) /\ \A b \in Aggs \ {a} : worker'[b] = worker[b]
    BY <1>0, <1>1, SupersedeEffect DEF Local
  <1>7. SoundHere(a)'
    BY ForgetSupersedesSound
  <1> QED
    BY <1>1, <1>2, <1>3, <1>5, <1>6, <1>7, ExecutorGood

\* A Forget stops waiting.
LEMMA AwaitTombstoneGood ==
  ASSUME Good, Shape', NEW a \in Aggs, AwaitTombstone(a)
  PROVE  Good'
  <1>0. Shape
    BY DEF Good
  <1>1. /\ forget[a].st = "waiting"
        /\ UNCHANGED <<stream, log, lock, fence, reg, worker, ticket, resumer, backlog, up,
                       handled, letters, started>>
    BY DEF AwaitTombstone, store, registry, process, history
  <1>2. PICK s \in {"failed", "erase"} : forget' = [forget EXCEPT ![a].st = s]
    BY DEF AwaitTombstone, ForgetAt
  <1>3. /\ forget'[a].st = s /\ forget'[a].ver = forget[a].ver
        /\ \A b \in Aggs \ {a} : forget'[b] = forget[b]
    BY <1>0, <1>2, ForgetMovesAt
  <1>4. Guarded(a)'
    BY <1>1, <1>3, ForgetGuarded DEF ForgetStages
  <1>5. Only(a) /\ \E X : Spoils(a, X)
    BY <1>1, SameRegistry
  <1>6. SoundHere(a)'
    BY AwaitTombstoneSound
  <1> QED
    BY <1>1, <1>3, <1>4, <1>5, <1>6, ExecutorGood

\* The erasure fails.
LEMMA EraseFailsGood ==
  ASSUME Good, Shape', NEW a \in Aggs, Erase(a), ForgetAt(a, "failed")
  PROVE  Good'
  <1>0. Shape
    BY DEF Good
  <1>1. forget' = [forget EXCEPT ![a].st = "failed"]
    BY DEF ForgetAt
  <1>2. /\ forget'[a].st = "failed" /\ forget'[a].ver = forget[a].ver
        /\ \A b \in Aggs \ {a} : forget'[b] = forget[b]
    BY <1>0, <1>1, ForgetMovesAt
  <1>3. /\ forget[a].st = "erase"
        /\ UNCHANGED <<stream, log, lock, fence, reg, worker, ticket, resumer, backlog, up,
                       handled, letters, started>>
    <2>1. forget' # [forget EXCEPT ![a] = NoForget]
      <3>1. forget' = [forget EXCEPT ![a] = NoForget] => forget'[a].st = "none"
        BY <1>0 DEF Shape, ExecOK, NoForget
      <3> QED
        BY <1>2, <3>1
    <2> QED
      BY <2>1 DEF Erase, store, registry, process, history
  <1>4. Guarded(a)'
    BY <1>2, <1>3, ForgetGuarded DEF ForgetStages
  <1>5. Only(a) /\ \E X : Spoils(a, X)
    BY <1>3, SameRegistry
  <1>6. SoundHere(a)'
    BY <1>2, <1>3, FailedForgetSound
  <1> QED
    BY <1>2, <1>3, <1>4, <1>5, <1>6, ExecutorGood

\* A Forget that failed parks.
LEMMA ForgetParksGood ==
  ASSUME Good, Shape', NEW a \in Aggs, ForgetParks(a)
  PROVE  Good'
  <1>0. Shape /\ HistoryOK
    BY DEF Good
  <1>1. /\ forget[a].st = "failed" /\ forget' = [forget EXCEPT ![a].st = "parked"] /\ Park(a, {})
        /\ UNCHANGED <<stream, log, lock, fence, worker, resumer, backlog, up,
                       handled, letters, started>>
    BY DEF ForgetParks, ForgetAt, store, process, history
  <1>2. /\ forget'[a].st = "parked" /\ forget'[a].ver = forget[a].ver
        /\ \A b \in Aggs \ {a} : forget'[b] = forget[b]
    BY <1>0, <1>1, ForgetMovesAt
  <1>3. Guarded(a)'
    BY <1>1, <1>2, ForgetGuarded DEF ForgetStages
  <1>4. PICK X : X = {j.ver : j \in ToSet(reg[a].jobs)}
    OBVIOUS
  <1>5. Spoils(a, X) /\ Only(a)
    BY <1>0, <1>1, <1>4, ParkSpoils, ParkEffect
  <1>6. SoundHere(a)'
    BY ForgetParksSound
  <1> QED
    BY <1>1, <1>2, <1>3, <1>5, <1>6, ExecutorGood

\* ... and drops the fence.
LEMMA ForgetClearsGood ==
  ASSUME Good, Shape', NEW a \in Aggs, ForgetClears(a)
  PROVE  Good'
  <1>0. Shape
    BY DEF Good
  <1>1. /\ forget[a].st = "parked" /\ forget' = [forget EXCEPT ![a] = NoForget]
        /\ fence' = fence \ {a}
        /\ UNCHANGED <<stream, log, lock, reg, worker, ticket, resumer, backlog, up,
                       handled, letters, started>>
    BY DEF ForgetClears, store, registry, process, history
  <1>2. forget'[a].st = "none" /\ \A b \in Aggs \ {a} : forget'[b] = forget[b]
    BY <1>0, <1>1 DEF Shape, ExecOK, NoForget
  <1>3. \A b \in Aggs \ {a} : b \in fence' <=> b \in fence
    BY <1>1
  <1>4. Guarded(a)'
    BY <1>1, <1>2, PastEnqueue DEF Guarded
  <1>5. Only(a) /\ \E X : Spoils(a, X)
    BY <1>1, SameRegistry
  <1>6. SoundHere(a)'
    BY <1>1, <1>2, FailedForgetSound
  <1> QED
    BY <1>1, <1>2, <1>3, <1>4, <1>5, <1>6, ExecutorGood

\* Recover fails for a.
LEMMA RecoverFailsGood ==
  ASSUME Good, Shape', NEW a \in Aggs, RecoverFails(a)
  PROVE  Good'
  <1>0. Shape /\ HistoryOK
    BY DEF Good
  <1>1. /\ backlog' = [backlog EXCEPT ![a] = {}] /\ Park(a, backlog[a])
        /\ UNCHANGED <<stream, log, lock, fence, forget, worker, resumer, up,
                       handled, letters, started>>
    BY DEF RecoverFails, store, exec, history
  <1>2. \A b \in Aggs \ {a} : backlog'[b] = backlog[b]
    BY <1>0, <1>1 DEF Shape, StoreOK
  <1>3. Guarded(a)'
    BY <1>1, SameGuarded
  <1>4. PICK X : X = {j.ver : j \in ToSet(reg[a].jobs)}
    OBVIOUS
  <1>5. Spoils(a, X) /\ Only(a)
    BY <1>0, <1>1, <1>4, ParkSpoils, ParkEffect
  <1>6. SoundHere(a)'
    BY RecoverFailsSound
  <1> QED
    BY <1>1, <1>2, <1>3, <1>5, <1>6, ExecutorGood

-----------------------------------------------------------------------------
(* Workers and commands.                                                   *)

\* Every step of a worker.
LEMMA WorkerGood ==
  ASSUME Good, Shape', NEW a \in Aggs, WorkerStep(a)
  PROVE  Good'
  <1>1. UNCHANGED <<stream, lock, fence, forget, resumer, up>>
    BY DEF WorkerStep, Pop, Drained, Woken, Retire, Stopped, BeginDelivery, Deliver, Attempt, Wait,
           GiveUp, DeadLetter, ParkIfCurrent, Ack, Finish, store, exec, process
  <1>2. Served(a)
    BY WorkerSound
  <1>3. \A b \in Aggs : ResumesKept(b)
    BY <1>1, ResumesSame
  <1>4. \A b \in Aggs : Guarded(b)'
    BY <1>1, SameGuarded
  <1>5. \A b \in Aggs : Redelivering(b)'
    BY <1>1, ResumersStay
  <1>6. Stands(a)
    BY <1>2, <1>3 DEF Stands
  <1> QED
    BY <1>4, <1>5, <1>6, StepGood

\* A command commits.
LEMMA CommitGood ==
  ASSUME Good, Shape', NEW a \in Aggs, NEW kind \in {"live", "durable"}, Commit(a, kind)
  PROVE  Good'
  <1>0. Sound(a) /\ Shape
    BY DEF Good
  <1>1. /\ up /\ lock[a] = "free" /\ a \notin fence /\ lock' = [lock EXCEPT ![a] = "command"]
        /\ UNCHANGED <<fence, forget, resumer, up>>
    BY DEF Commit, process
  <1>2. lock'[a] = "command" /\ \A b \in Aggs \ {a} : lock'[b] = lock[b]
    BY <1>0, <1>1 DEF Shape, ExecOK
  <1>3. Served(a)
    BY CommitSound
  <1>4. \A b \in Aggs : ResumesKept(b)
    BY <1>1, ResumesSame
  <1>5. Guarded(a)'
    <2>1. forget[a].st = "none"
      BY <1>0, <1>1 DEF Sound, Guarded
    <2> QED
      BY <1>1, <1>2, <2>1 DEF Guarded
  <1>6. \A b \in Aggs : Guarded(b)'
    BY <1>1, <1>3, <1>5, GuardedAt DEF Served
  <1>7. \A b \in Aggs : Redelivering(b)'
    BY <1>1, <1>2, ResumerNames, ResumersStay
  <1>8. Stands(a)
    BY <1>3, <1>4 DEF Stands
  <1> QED
    BY <1>6, <1>7, <1>8, StepGood

\* A Forget commits its marker.
LEMMA WriteTombstoneGood ==
  ASSUME Good, Shape', NEW a \in Aggs, WriteTombstone(a)
  PROVE  Good'
  <1>0. Sound(a) /\ Shape
    BY DEF Good
  <1>1. PICK n : n = Len(stream[a]) + 1
    OBVIOUS
  <1>2. /\ lock[a] = "tombstone" /\ lock' = [lock EXCEPT ![a] = "forget"]
        /\ stream' = [stream EXCEPT ![a] = Append(@, "forget")]
        /\ fence' = fence \cup {a}
        /\ forget' = [forget EXCEPT ![a] = [st |-> "committed", ver |-> n]]
        /\ UNCHANGED <<resumer, up>>
    BY <1>1 DEF WriteTombstone, process
  <1>3. lock'[a] = "forget" /\ \A b \in Aggs \ {a} : lock'[b] = lock[b]
    BY <1>0, <1>2 DEF Shape, ExecOK
  <1>4. forget'[a].st = "committed" /\ forget'[a].ver = n
    BY <1>0, <1>2 DEF Shape, ExecOK
  <1>5. Len(stream'[a]) = n /\ stream'[a][n] = "forget"
    <2>1. Len(stream[a]) < MaxVersion /\ "forget" \in Kinds
      BY <1>0, <1>2 DEF Shape, ExecOK, Kinds
    <2> QED
      BY <1>0, <1>1, <1>2, <2>1, AppendStream
  <1>6. Served(a)
    BY TombstoneSound
  <1>7. \A b \in Aggs : ResumesKept(b)
    BY <1>2, ResumesSame
  <1>8. Guarded(a)'
    <2>1. up
      BY <1>0, <1>2 DEF Shape, ExecOK
    <2> QED
      BY <1>2, <1>3, <1>4, <1>5, <2>1 DEF Guarded
  <1>9. \A b \in Aggs : Guarded(b)'
    BY <1>2, <1>6, <1>8, GuardedAt DEF Served
  <1>10. \A b \in Aggs : Redelivering(b)'
    BY <1>2, <1>3, ResumerNames, ResumersStay
  <1>11. Stands(a)
    BY <1>6, <1>7 DEF Stands
  <1> QED
    BY <1>9, <1>10, <1>11, StepGood

\* The transaction of a tombstone begins, or is rolled back.
LEMMA TransactionGood ==
  ASSUME Good, Shape', NEW a \in Aggs, BeginTombstone(a) \/ TombstoneFails(a)
  PROVE  Good'
  <1>0. Sound(a) /\ Shape /\ HistoryOK
    BY DEF Good
  <1>1. UNCHANGED <<stream, log, fence, forget, reg, worker, ticket, resumer, backlog, up,
                    handled, letters, started>>
    BY DEF BeginTombstone, TombstoneFails, store, registry, process, history
  <1>2. \/ lock[a] = "free" /\ a \notin fence /\ up /\ lock' = [lock EXCEPT ![a] = "tombstone"]
        \/ lock[a] = "tombstone" /\ lock' = [lock EXCEPT ![a] = "free"]
    BY DEF BeginTombstone, TombstoneFails
  <1>3. /\ lock'[a] \in {"free", "tombstone"} /\ lock[a] \in {"free", "tombstone"}
        /\ \A b \in Aggs \ {a} : lock'[b] = lock[b]
        /\ forget[a].st = "none" /\ a \notin fence /\ up
    BY <1>0, <1>2 DEF Sound, Guarded, Shape, ExecOK
  <1>4. \A b \in Aggs : Pending(b)' = Pending(b)
    BY <1>1, PendingSame
  <1>5. HistoryOK' /\ \A b \in Aggs : SameHistory(b)
    BY <1>0, <1>1 DEF HistoryOK, SameHistory
  <1>6. \A u : ~InHand(a, u) /\ ~InHand(a, u)'
    BY <1>1, <1>3 DEF InHand
  <1>7. Rests(a)
    <2>1. \A r \in Resumers : Found(r, a)' = Found(r, a) /\ lock'[a] # r
      BY <1>1, <1>3, ResumerNames DEF Found
    <2> QED
      BY <1>1, <1>3, <1>4, <1>5, <1>6, <2>1 DEF Rests
  <1>8. SoundHere(a)'
    <2>1. PICK X : X = {}
      OBVIOUS
    <2>2. SamePark(reg[a], reg'[a]) /\ reg'[a].undelivered = reg[a].undelivered \cup X
      BY <1>1, <2>1 DEF SamePark
    <2>3. \A u : InLine(a, u)' <=> InLine(a, u)
      BY <1>1 DEF InLine, Waits, Working, InDelivery, IsShut
    <2>4. \A v \in Pending(a) : Underway(a, v) => Underway(a, v)'
      BY <1>1, <1>3, <1>6, <2>3, ResumerNames DEF Underway
    <2>5. Fenced(a)'
      BY <1>1, <1>3, NoFenceNeeded
    <2> QED
      BY <1>1, <1>7, <2>1, <2>2, <2>4, <2>5, RestSound
  <1>9. Elsewhere(a)
    BY <1>1, <1>3, <1>4, <1>5, ElsewhereAt
  <1>10. Guarded(a)'
    BY <1>1, <1>3 DEF Guarded
  <1>11. \A b \in Aggs : Guarded(b)'
    BY <1>1, <1>9, <1>10, GuardedAt
  <1>12. \A b \in Aggs : Redelivering(b)'
    BY <1>1, <1>3, ResumerNames, ResumersStay
  <1>13. \A b \in Aggs : ResumesKept(b)
    BY <1>1, ResumesSame
  <1> QED
    BY <1>5, <1>8, <1>9, <1>11, <1>12, <1>13, StepGood DEF Stands, Served

\* Every step of a Forget under way.
LEMMA ForgetGood ==
  ASSUME Good, Shape', NEW a \in Aggs, ForgetStep(a)
  PROVE  Good'
  <1>1. CASE Erase(a)
    <2>1. forget' = [forget EXCEPT ![a] = NoForget] \/ ForgetAt(a, "failed")
      BY <1>1 DEF Erase
    <2> QED
      BY <1>1, <2>1, EraseGood, EraseFailsGood
  <1> QED
    BY <1>1, ForgetSupersedesGood, EnqueueTombstoneGood, AwaitTombstoneGood, ForgetParksGood,
       ForgetClearsGood, WriteTombstoneGood, TransactionGood DEF ForgetStep

-----------------------------------------------------------------------------
(* Steps that move no aggregate.                                           *)

\* No aggregate moves.
LEMMA NothingMoves ==
  ASSUME Good, UNCHANGED <<stream, log, lock, fence, forget, reg, worker, ticket, backlog,
                           handled, letters, started>>
  PROVE  HistoryOK' /\ \A b \in Aggs : Unmoved(b)
  <1>1. HistoryOK'
    BY DEF Good, HistoryOK
  <1>2. \A b \in Aggs : Pending(b)' = Pending(b)
    BY PendingSame
  <1>3. \A b \in Aggs : SameLine(b)
    BY DEF SameLine, SamePark
  <1> QED
    BY <1>1, <1>2, <1>3 DEF Unmoved, SameStream, SameExec, SameHistory

\* Resume call r, which has no lock, goes on.
LEMMA ResumerMoves ==
  ASSUME Good, Shape', NEW r \in Resumers,
         resumer[r].st # "redeliver", resumer[r].st # "idle" \/ up,
         Others(r), \A b \in Aggs : ResumesKept(b),
         UNCHANGED <<stream, log, lock, fence, forget, reg, worker, ticket, backlog, up,
                     handled, letters, started>>
  PROVE  Good'
  <1>1. HistoryOK' /\ \A b \in Aggs : Unmoved(b)
    BY NothingMoves
  <1>2. \A b \in Aggs : lock[b] # r
    BY OneLock
  <1>3. \A b \in Aggs : Guarded(b)'
    BY SameGuarded
  <1>4. \A b \in Aggs : Redelivering(b)'
    <2>1. CASE Aggs = {}
      BY <2>1
    <2>2. CASE Aggs # {}
      <3>1. PICK a \in Aggs : TRUE
        BY <2>2
      <3>2. up'
        BY <3>1, OneLock
      <3> QED
        BY <1>2, <3>2, RedeliveringNext
    <2> QED
      BY <2>1, <2>2
  <1> QED
    BY <1>1, <1>3, <1>4, RestGood

\* A Resume lists the parks.
LEMMA ListParksGood ==
  ASSUME Good, Shape', NEW r \in Resumers, ListParks(r)
  PROVE  Good'
  <1>0. Shape
    BY DEF Good
  <1>1. /\ up /\ resumer[r].st = "idle"
        /\ UNCHANGED <<stream, log, lock, fence, forget, reg, worker, ticket, backlog, up,
                       handled, letters, started>>
    BY DEF ListParks, store, exec, registry, process, history
  <1>2. PICK x : x = [NoResumer EXCEPT !.st = "scan", !.parks = Parks, !.limit = Batch]
    OBVIOUS
  <1>3. x.st = "scan" /\ x.scanned = {}
    BY <1>2 DEF NoResumer
  <1>4. resumer' = [resumer EXCEPT ![r] = x] /\ resumer = [q \in Resumers |-> resumer[q]]
    BY <1>0, <1>2 DEF ListParks, Shape, IInv, ResumersOK
  <1>5. resumer'[r] = x /\ Others(r)
    BY <1>4 DEF Others
  <1>6. ASSUME NEW b \in Aggs PROVE ResumesKept(b)
    <2>1. \A q \in Resumers \ {r} : resumer'[q] = resumer[q] /\ Found(q, b)' = Found(q, b)
      BY <1>5, OthersFound DEF Others
    <2>2. lock[b] # r
      BY <1>1, OneLock
    <2>3. Found(r, b)' = {} /\ resumer'[r].st \notin {"lift", "redeliver"}
      BY <1>3, <1>5 DEF Found
    <2> QED
      BY <2>1, <2>2, <2>3 DEF ResumesKept
  <1> QED
    BY <1>1, <1>5, <1>6, ResumerMoves

\* A Resume reads a prefix of the log; the last one has every entry it can see.
LEMMA ScanGood ==
  ASSUME Good, Shape', NEW r \in Resumers, Scan(r)
  PROVE  Good'
  <1>0. Shape
    BY DEF Good
  <1>1. /\ resumer[r].st = "scan"
        /\ UNCHANGED <<stream, log, lock, fence, forget, reg, worker, ticket, backlog, up,
                       handled, letters, started>>
    BY ScanReads DEF store, exec, registry, process, history
  <1>2. /\ Others(r) /\ resumer'[r].parks = resumer[r].parks
        /\ resumer[r].scanned \subseteq resumer'[r].scanned
        /\ resumer'[r].scanned \subseteq resumer[r].scanned \cup ToSet(log)
        /\ \/ resumer'[r].st = "scan"
           \/ /\ resumer'[r].st = "lift" /\ resumer'[r].todo = Listed(r)
              /\ ~DirtyReads =>
                     \A d \in ToSet(log) : d[1] \in Listed(r) => d \in resumer'[r].scanned
    <2>1. ~DirtyReads => VisibleLog = log
      BY <1>0, VisibleLogged
    <2>2. /\ \A q \in Resumers \ {r} : resumer'[q] = resumer[q]
          /\ resumer'[r].parks = resumer[r].parks
          /\ resumer[r].scanned \subseteq resumer'[r].scanned
          /\ resumer'[r].scanned \subseteq resumer[r].scanned \cup ToSet(log)
          /\ \/ resumer'[r].st = "scan" /\ resumer'[r].todo = {}
             \/ /\ resumer'[r].st = "lift" /\ resumer'[r].todo = Listed(r)
                /\ \A d \in ToSet(VisibleLog) : d[1] \in Listed(r) => d \in resumer'[r].scanned
      BY <1>0, ScanEffect
    <2> QED
      BY <2>1, <2>2 DEF Others
  <1>3. ASSUME NEW b \in Aggs PROVE ResumesKept(b)
    <2>1. \A q \in Resumers \ {r} : resumer'[q] = resumer[q] /\ Found(q, b)' = Found(q, b)
      BY <1>2, OthersFound DEF Others
    <2>2. lock[b] # r
      BY <1>1, OneLock
    <2>3. /\ Pending(b) \subseteq Versions
          /\ \A v \in Versions : v \in Pending(b) <=> <<b, v>> \in ToSet(log)
      BY <1>0, PendingIsLogged DEF Shape
    <2>4. Found(r, b) \subseteq Found(r, b)' /\ Found(r, b)' \subseteq Found(r, b) \cup Pending(b)
      BY <1>2, <2>3 DEF Found
    <2>5. resumer'[r].st \in {"lift", "redeliver"} /\ b \in resumer'[r].todo =>
            DirtyReads \/ Pending(b) \subseteq Found(r, b)'
      <3>1. SUFFICES ASSUME ~DirtyReads,
                            resumer'[r].st \in {"lift", "redeliver"}, b \in resumer'[r].todo,
                            NEW v \in Pending(b)
                     PROVE  v \in Found(r, b)'
        OBVIOUS
      <3>2. PICK d : d = <<b, v>>
        OBVIOUS
      <3>3. d \in ToSet(log) /\ d[1] = b /\ v \in Versions
        BY <2>3, <3>2
      <3>4. d \in resumer'[r].scanned
        BY <1>2, <3>1, <3>3
      <3> QED
        BY <3>2, <3>3, <3>4 DEF Found
    <2> QED
      BY <1>2, <2>1, <2>2, <2>4, <2>5 DEF ResumesKept
  <1> QED
    BY <1>1, <1>2, <1>3, ResumerMoves

\* A Resume is abandoned.
LEMMA AbandonGood ==
  ASSUME Good, Shape', NEW r \in Resumers, AbandonResume(r)
  PROVE  Good'
  <1>0. Shape
    BY DEF Good
  <1>1. /\ resumer[r].st \in {"scan", "lift"}
        /\ UNCHANGED <<stream, log, lock, fence, forget, reg, worker, ticket, backlog, up,
                       handled, letters, started>>
    BY DEF AbandonResume, store, exec, registry, process, history
  <1>2. PICK x : x = NoResumer
    OBVIOUS
  <1>3. \A b \in Aggs : x.parks[b] = 0
    BY <1>2 DEF NoResumer
  <1>4. resumer' = [resumer EXCEPT ![r] = x] /\ resumer = [q \in Resumers |-> resumer[q]]
    BY <1>0, <1>2 DEF AbandonResume, Shape, IInv, ResumersOK
  <1>5. resumer'[r] = x /\ Others(r)
    BY <1>4 DEF Others
  <1>6. ASSUME NEW b \in Aggs PROVE ResumesKept(b)
    <2>1. \A q \in Resumers \ {r} : resumer'[q] = resumer[q] /\ Found(q, b)' = Found(q, b)
      BY <1>5, OthersFound DEF Others
    <2>2. lock[b] # r /\ resumer'[r].parks[b] = 0
      BY <1>1, <1>3, <1>5, OneLock
    <2> QED
      BY <2>1, <2>2 DEF ResumesKept
  <1> QED
    BY <1>1, <1>5, <1>6, ResumerMoves

\* The park that was listed is gone.
LEMMA SkipGood ==
  ASSUME Good, Shape', NEW r \in Resumers, NEW a \in Aggs, LiftPark(r, a),
         ~IsPark(reg[a], resumer[r].parks[a])
  PROVE  Good'
  <1>0. Shape
    BY DEF Good
  <1>1. /\ resumer[r].st = "lift" /\ NextAggregate(r, a)
        /\ UNCHANGED <<stream, log, lock, fence, forget, reg, worker, ticket, backlog, up,
                       handled, letters, started>>
    BY DEF LiftPark, store, registry, process, history
  <1>2. Others(r)
    BY <1>0, <1>1, NextAggregateMoves
  <1>3. ASSUME NEW b \in Aggs PROVE ResumesKept(b)
    <2>1. lock[b] # r
      BY <1>1, OneLock
    <2> QED
      BY <1>0, <1>1, <2>1, NextAggregateResumes
  <1> QED
    BY <1>1, <1>2, <1>3, ResumerMoves

\* Every step of a Resume.
LEMMA ResumeGood ==
  ASSUME Good, Shape', NEW r \in Resumers, ResumeStep(r)
  PROVE  Good'
  <1>1. ASSUME NEW a \in Aggs, LiftPark(r, a) PROVE Good'
    <2>1. CASE IsPark(reg[a], resumer[r].parks[a])
      BY <1>1, <2>1, LiftSound, StepGood
    <2>2. CASE ~IsPark(reg[a], resumer[r].parks[a])
      BY <1>1, <2>2, SkipGood
    <2> QED
      BY <2>1, <2>2
  <1>2. ASSUME NEW a \in Aggs, Redelivered(r, a) \/ RedeliverFails(r, a) PROVE Good'
    BY <1>2, ReleaseSound, StepGood
  <1> QED
    BY <1>1, <1>2, RedeliverGood, ListParksGood, ScanGood, AbandonGood DEF ResumeStep

\* The process starts or stops, and nothing else moves.
LEMMA ProcessGood ==
  ASSUME Good, Shape', up' = up \/ up',
         UNCHANGED <<stream, log, lock, fence, forget, reg, worker, ticket, resumer, backlog,
                     handled, letters, started>>
  PROVE  Good'
  <1>1. HistoryOK' /\ \A b \in Aggs : Unmoved(b)
    BY NothingMoves
  <1>2. \A b \in Aggs : ResumesKept(b)
    BY ResumesSame
  <1>3. \A b \in Aggs : Guarded(b)' /\ Redelivering(b)'
    BY DEF Good, Sound, Guarded, Redelivering
  <1> QED
    BY <1>1, <1>2, <1>3, RestGood

-----------------------------------------------------------------------------
(* The start of the process, and its crash.                                *)

\* The invariant holds initially.
LEMMA InitGood == Init => Good
  <1> SUFFICES ASSUME Init PROVE Good
    OBVIOUS
  <1>0. Shape
    BY InitShape
  <1>1. HistoryOK
    <2>1. OpenTicket \in [settled : {"no", "ok", "unrun"}, final : {"no", "ok", "err"}]
      BY DEF OpenTicket
    <2> QED
      BY <2>1 DEF Init, HistoryOK
  <1>2. ASSUME NEW a \in Aggs PROVE Sound(a)
    <2>1. /\ stream[a] = <<>> /\ lock[a] = "free" /\ fence = {} /\ forget[a].st = "none"
          /\ backlog[a] = {} /\ letters[a] = {} /\ started[a] = {} /\ up
      BY DEF Init, NoForget
    <2>2. reg[a].jobs = <<>> /\ ~reg[a].parked /\ reg[a].undelivered = {}
      BY AbsentShape DEF Init
    <2>3. worker[a].st = "none" /\ "none" \notin Carrying
      BY NoWorkerOK DEF Init, Carrying, Delivering
    <2>4. \A v \in 1..Len(stream[a]) : FALSE
      BY <2>1
    <2>5. Pending(a) = {}
      <3>1. \A v \in Pending(a) : v \in 1..Len(stream[a])
        BY <1>0, ShapeAt
      <3> QED
        BY <2>4, <3>1
    <2>6. \A j \in ToSet(reg[a].jobs) : FALSE
      BY <2>2, ToSetEmpty
    <2>7. ~InDelivery(a) /\ ~Working(a) /\ \A u : ~Waits(a, u) /\ ~InLine(a, u)
      <3>1. ~InDelivery(a)
        BY <2>3 DEF InDelivery, Carrying
      <3>2. \A u : ~Waits(a, u)
        BY <2>6 DEF Waits
      <3> QED
        BY <3>1, <3>2 DEF Working, InLine
    <2>8. \A r \in Resumers : lock[a] # r
      BY <2>1, ResumerNames
    <2>9. Guarded(a) /\ Redelivering(a)
      BY <2>1, <2>8 DEF Guarded, Redelivering
    <2>10. Logged(a) /\ LeftAccepted(a) /\ Resumable(a)
      BY <2>1, <2>4, <2>5 DEF Logged, LeftAccepted, Resumable
    <2>11. Matched(a) /\ Halted(a)
      BY <2>1, <2>2, <2>3, <2>6, <2>7 DEF Matched, Halted
    <2>12. Ordered(a)
      <3>1. \A i \in DOMAIN reg[a].jobs : FALSE
        BY <2>2
      <3> QED
        BY <2>7, <3>1 DEF Ordered
    <2>13. Fenced(a)
      BY <2>1 DEF Fenced
    <2>14. Handling(a) /\ NoneBefore(a)
      BY <2>3 DEF Handling, NoneBefore
    <2>15. InTurn(a)
      BY <2>1, <2>2, <2>7, <2>8 DEF InTurn, IsPark
    <2> QED
      BY <2>9, <2>10, <2>11, <2>12, <2>13, <2>14, <2>15 DEF Sound
  <1> QED
    BY <1>0, <1>1, <1>2 DEF Good

\* A crash loses the memory; the backlog is what the log still has.
LEMMA CrashGood ==
  ASSUME Good, Shape', Crash
  PROVE  Good'
  <1>0. Shape /\ HistoryOK
    BY DEF Good
  <1>1. HistoryOK'
    <2>1. OpenTicket \in [settled : {"no", "ok", "unrun"}, final : {"no", "ok", "err"}]
      BY DEF OpenTicket
    <2> QED
      BY <1>0, <2>1 DEF Crash, HistoryOK
  <1>2. ASSUME NEW a \in Aggs PROVE Sound(a)'
    <2>0. Sound(a)
      BY DEF Good
    <2>1. /\ UNCHANGED <<stream, log, handled, letters, started>>
          /\ lock'[a] = "free" /\ fence' = {} /\ forget'[a].st = "none" /\ ~up'
          /\ backlog'[a] = Pending(a)
      BY DEF Crash, NoForget, store
    <2>2. reg'[a].jobs = <<>> /\ ~reg'[a].parked /\ reg'[a].undelivered = {}
      BY AbsentShape DEF Crash
    <2>3. worker'[a].st = "none" /\ "none" \notin Carrying
      BY NoWorkerOK DEF Crash, Carrying, Delivering
    <2>4. \A r \in Resumers : resumer'[r].st = "idle"
      BY DEF Crash, NoResumer
    <2>5. Pending(a)' = Pending(a)
      BY <2>1, PendingSame
    <2>6. \A j \in ToSet(reg'[a].jobs) : FALSE
      BY <2>2, ToSetEmpty
    <2>7. ~InDelivery(a)' /\ ~Working(a)' /\ \A u : ~Waits(a, u)' /\ ~InLine(a, u)'
      <3>1. ~InDelivery(a)'
        BY <2>3 DEF InDelivery, Carrying
      <3>2. \A u : ~Waits(a, u)'
        BY <2>6 DEF Waits
      <3> QED
        BY <3>1, <3>2 DEF Working, InLine
    <2>8. \A r \in Resumers : lock'[a] # r
      BY <2>1, ResumerNames
    <2>w. /\ \A u : Current(a, u)' <=> Current(a, u)
          /\ \A u : Cleared(a, u)' <=> Cleared(a, u)
          /\ \A v, u : SupersededBy(a, v, u)' <=> SupersededBy(a, v, u)
      BY <2>1 DEF Current, Cleared, SupersededBy, Accepted
    <2>9. Guarded(a)' /\ Redelivering(a)'
      BY <2>1, <2>4, <2>8 DEF Guarded, Redelivering
    <2>10. Logged(a)'
      BY <2>0, <2>1, <2>5, <2>w DEF Sound, Logged
    <2>11. LeftAccepted(a)'
      BY <2>0, <2>1, <2>5, <2>w DEF Sound, LeftAccepted
    <2>12. Resumable(a)'
      BY <2>1, <2>4, <2>5 DEF Resumable, Underway
    <2>13. Matched(a)'
      BY <2>0, <2>1, <2>3, <2>6 DEF Sound, Matched
    <2>14. Halted(a)'
      BY <2>2, <2>7 DEF Halted
    <2>15. Ordered(a)'
      <3>1. \A i \in DOMAIN reg'[a].jobs : FALSE
        BY <2>2
      <3> QED
        BY <2>7, <3>1 DEF Ordered
    <2>16. Fenced(a)'
      BY <2>1, NoFenceNeeded
    <2>17. Handling(a)' /\ NoneBefore(a)'
      BY <2>3 DEF Handling, NoneBefore
    <2>18. InTurn(a)'
      <3> SUFFICES ASSUME ~DirtyReads PROVE InTurn(a)'
        BY DEF InTurn
      <3>1. \A u \in started'[a] : Cleared(a, u)'
        BY <2>0, <2>1, <2>w DEF Sound, InTurn
      <3> QED
        BY <2>1, <2>2, <2>7, <2>8, <3>1 DEF InTurn, IsPark
    <2> QED
      BY <2>9, <2>10, <2>11, <2>12, <2>13, <2>14, <2>15, <2>16, <2>17, <2>18 DEF Sound
  <1> QED
    BY <1>1, <1>2 DEF Good

\* Every step keeps the invariant.
LEMMA NextGood == Good /\ [Next]_vars => Good'
  <1> SUFFICES ASSUME Good, [Next]_vars PROVE Good'
    OBVIOUS
  <1>0. Shape'
    BY NextShape DEF Good
  <1>1. CASE Progress
    <2>1. CASE Recovered
      BY <1>0, <2>1, ProcessGood DEF Recovered, store, exec, registry, history
    <2> QED
      BY <1>0, <1>1, <2>1, EnqueueCommittedGood, WorkerGood, ForgetGood, RecoverGood,
         RecoverFailsGood, ResumeGood DEF Progress
  <1>2. ASSUME NEW a \in Aggs, Commit(a, "live") \/ Commit(a, "durable") \/ BeginTombstone(a)
        PROVE  Good'
    BY <1>0, <1>2, CommitGood, TransactionGood
  <1>3. CASE Interrupt \/ CloseDispatcher
    BY <1>0, <1>3, ProcessGood DEF Interrupt, CloseDispatcher, store, exec, registry, history
  <1>4. CASE Crash
    BY <1>0, <1>4, CrashGood
  <1>5. CASE UNCHANGED vars
    BY <1>0, <1>5, ProcessGood DEF vars, store, exec, registry, process, history
  <1> QED
    BY <1>1, <1>2, <1>3, <1>4, <1>5 DEF Next

\* The invariant holds in every reachable state.
LEMMA InvarianceOfGood == Spec => []Good
  BY InitGood, NextGood, PTL DEF Spec

-----------------------------------------------------------------------------
(* What the invariant gives.                                               *)

\* What is under way is on the way, in the words of the model.
LEMMA UnderwayIsOnTheWay ==
  ASSUME Good, NEW a \in Aggs, NEW v, Underway(a, v)
  PROVE  v \in OnTheWay(a)
  <1>0. Sound(a) /\ Shape
    BY DEF Good
  <1>1. CASE Waits(a, v)
    <2>1. PICK i \in DOMAIN reg[a].jobs : IsAcked(reg[a].jobs[i]) /\ reg[a].jobs[i].ver = v
      BY <1>1 DEF Waits, ToSet
    <2>2. v \in VersionsOf(reg[a].jobs, IsAcked)
      BY <2>1, Zenon DEF VersionsOf
    <2> QED
      BY <2>2 DEF OnTheWay
  <1>2. CASE Working(a) /\ v = worker[a].job.ver
    <2>1. worker[a].st \in Carrying /\ worker[a].halt # "none"
      BY <1>0, <1>2, JobVersions DEF Working
    <2>2. ~IsShut(a) /\ worker[a].st # "finish"
      BY <1>2 DEF Working, InDelivery, Delivering
    <2> QED
      BY <1>2, <2>1, <2>2 DEF OnTheWay
  <1>3. CASE InHand(a, v)
    <2>1. forget[a].st \in {"committed", "superseded"} => forget[a].ver = Len(stream[a])
      BY <1>0 DEF Sound, Guarded
    <2> QED
      BY <1>3, <2>1 DEF InHand, OnTheWay
  <1>4. CASE v \in backlog[a]
    BY <1>4 DEF OnTheWay
  <1>5. ASSUME NEW r \in Resumers, lock[a] = r, v \in resumer[r].rest
        PROVE  v \in OnTheWay(a)
    BY <1>5 DEF OnTheWay
  <1> QED
    BY <1>1, <1>2, <1>3, <1>4, <1>5 DEF Underway, InLine

(***************************************************************************)
(* Guarantee 4, nothing is stranded, over a store whose readers do not see *)
(* the writes of an open transaction: in every reachable state, for any    *)
(* number of aggregates and of concurrent Resume calls and through any     *)
(* crashes, an entry of the delivery log is queued, with the worker, about *)
(* to be enqueued by a command, a Forget, a Resume or Recover, or its      *)
(* aggregate is parked (processor_recovery.go:46-50).                      *)
(***************************************************************************)
THEOREM NothingIsStranded ==
  ASSUME ~DirtyReads
  PROVE  Spec => []NothingStranded
  <1>1. Good => NothingStranded
    <2> SUFFICES ASSUME Good, NEW a \in Aggs, ~reg[a].parked, NEW v \in Pending(a)
                 PROVE  v \in OnTheWay(a)
      BY DEF NothingStranded
    <2>1. Underway(a, v)
      BY DEF Good, Sound, Resumable
    <2> QED
      BY <2>1, UnderwayIsOnTheWay
  <1> QED
    BY <1>1, InvarianceOfGood, PTL

(***************************************************************************)
(* Guarantee 4, order, over a store that isolates its reads: while an      *)
(* event is with the durable handlers no earlier event of its aggregate is *)
(* in the delivery log, whatever failed, parked, was resumed or crashed    *)
(* before (docs/spec/guarantees.md).                                       *)
(***************************************************************************)
THEOREM NothingOvertakes ==
  ASSUME ~DirtyReads
  PROVE  Spec => []NoOvertaking
  <1>1. Good => NoOvertaking
    <2> SUFFICES ASSUME Good, NEW a \in Aggs, worker[a].st = "attempt", NEW v \in Pending(a)
                 PROVE  v >= worker[a].job.ver
      BY DEF NoOvertaking
    <2>1. worker[a].job.ver <= v
      BY DEF Good, Sound, NoneBefore
    <2>2. v \in Nat /\ worker[a].job.ver \in Nat
      <3>1. Shape /\ worker[a].st \in Carrying
        BY DEF Good, Carrying, Delivering
      <3>2. v \in 1..Len(stream[a]) /\ worker[a].job.ver \in Versions
        BY <3>1, ShapeAt, JobVersions
      <3> QED
        BY <3>2 DEF Versions
    <2> QED
      BY <2>1, <2>2
  <1> QED
    BY <1>1, InvarianceOfGood, PTL

(***************************************************************************)
(* The same guarantee, with the same hypothesis, as the subscribers see    *)
(* it: an event reaches a handler only after each earlier durable event of *)
(* its aggregate is accepted, or replaced by a deletion marker, across any *)
(* number of crashes and redeliveries.                                     *)
(***************************************************************************)
THEOREM OrderIsKept ==
  ASSUME ~DirtyReads
  PROVE  Spec => []DeliveredInOrder
  <1>1. Good => DeliveredInOrder
    <2> SUFFICES ASSUME Good, NEW a \in Aggs, NEW v \in Durable(a), NEW u \in Durable(a),
                        v < u, u \in started[a]
                 PROVE  Accepted(a, v) \/ SupersededBy(a, v, u)
      BY DEF DeliveredInOrder
    <2>1. Cleared(a, u) /\ Shape
      BY DEF Good, Sound, InTurn
    <2>2. v \in 1..Len(stream[a]) /\ stream[a][v] # "live"
      BY <2>1, ShapeAt DEF Durable
    <2> QED
      BY <2>1, <2>2 DEF Cleared
  <1> QED
    BY <1>1, InvarianceOfGood, PTL

(***************************************************************************)
(* Guarantee 4, no loss: an entry leaves the delivery log only when every  *)
(* subscriber or the dead-letter handler has accepted its event, and a     *)
(* deletion marker only when every subscriber has, or when a later         *)
(* deletion marker has replaced it (durable_deliverer.go).                 *)
(***************************************************************************)
THEOREM NothingIsLost == Spec => []AckedMeansAccepted
  <1>1. Good => AckedMeansAccepted
    <2> SUFFICES ASSUME Good, NEW a \in Aggs, NEW v \in Durable(a) \ Pending(a)
                 PROVE  \/ SupersededBy(a, v, Len(stream[a]))
                        \/ handled[a][v] = Subs
                        \/ v \in letters[a] /\ stream[a][v] # "forget"
      BY DEF AckedMeansAccepted
    <2>1. LeftAccepted(a) /\ Shape
      BY DEF Good, Sound
    <2>2. v \in 1..Len(stream[a]) /\ stream[a][v] # "live" /\ v \notin Pending(a)
      BY <2>1, ShapeAt DEF Durable
    <2> QED
      BY <2>1, <2>2 DEF LeftAccepted
  <1> QED
    BY <1>1, InvarianceOfGood, PTL

(***************************************************************************)
(* Guarantee 6: a stream is erased only behind a deletion marker that is   *)
(* its last event and that every durable subscriber has accepted, and no   *)
(* delivery of it is left in the queue or with the worker                  *)
(* (exec_forget.go:37-64).                                                 *)
(***************************************************************************)
THEOREM ErasureIsFenced == Spec => EraseIsFenced
  <1> DEFINE Fence == \A a \in Aggs : stream[a] # <<>> /\ stream'[a] = <<>> =>
                        /\ Last(stream[a]) = "forget"
                        /\ handled[a][Len(stream[a])] = Subs
                        /\ VersionsOf(reg[a].jobs, IsAcked) = {}
                        /\ ~(IsAcked(worker[a].job) /\ worker[a].halt # "none")
  <1>1. Good /\ [Next]_vars => [Fence]_vars
    <2> SUFFICES ASSUME Good, [Next]_vars, NEW a \in Aggs, stream[a] # <<>>, stream'[a] = <<>>
                 PROVE  /\ Last(stream[a]) = "forget"
                        /\ handled[a][Len(stream[a])] = Subs
                        /\ VersionsOf(reg[a].jobs, IsAcked) = {}
                        /\ ~(IsAcked(worker[a].job) /\ worker[a].halt # "none")
      OBVIOUS
    <2>0. Shape /\ stream \in [Aggs -> Seq(Kinds)]
      BY DEF Good, Shape, StoreOK
    <2>1. PICK b \in Aggs : Erase(b) /\ stream' = [stream EXCEPT ![b] = <<>>]
      <3>1. \/ UNCHANGED stream
            \/ \E b \in Aggs : \E k : stream' = [stream EXCEPT ![b] = Append(@, k)]
            \/ \E b \in Aggs : Erase(b) /\ stream' = [stream EXCEPT ![b] = <<>>]
        <4>1. CASE Progress
          <5>1. ASSUME NEW b \in Aggs, WorkerStep(b) PROVE UNCHANGED stream
            BY <5>1 DEF WorkerStep, Pop, Drained, Woken, Retire, Stopped, BeginDelivery, Deliver,
                 Attempt, Wait, GiveUp, DeadLetter, ParkIfCurrent, Ack, Finish, store
          <5>2. ASSUME NEW b \in Aggs, ForgetStep(b), ~Erase(b), ~WriteTombstone(b)
                PROVE  UNCHANGED stream
            BY <5>2 DEF ForgetStep, TombstoneFails, ForgetSupersedes, EnqueueTombstone,
                 AwaitTombstone, ForgetParks, ForgetClears, store
          <5>3. ASSUME NEW b \in Aggs, Erase(b)
                PROVE  UNCHANGED stream \/ stream' = [stream EXCEPT ![b] = <<>>]
            BY <5>3 DEF Erase, store
          <5>4. ASSUME NEW r \in Resumers, ResumeStep(r) PROVE UNCHANGED stream
            BY <5>4, ScanReads DEF ResumeStep, ListParks, AbandonResume, LiftPark, Redeliver,
                 Redelivered, RedeliverFails, store
          <5>5. ASSUME NEW b \in Aggs, EnqueueCommitted(b) \/ Recover(b) \/ RecoverFails(b)
                PROVE  UNCHANGED stream
            BY <5>5 DEF EnqueueCommitted, Recover, RecoverFails, store
          <5>6. CASE Recovered
            BY <5>6 DEF Recovered, store
          <5>7. ASSUME NEW b \in Aggs, WriteTombstone(b)
                PROVE  \E k : stream' = [stream EXCEPT ![b] = Append(@, k)]
            BY <5>7 DEF WriteTombstone
          <5> QED
            BY <4>1, <5>1, <5>2, <5>3, <5>4, <5>5, <5>6, <5>7 DEF Progress
        <4>2. ASSUME NEW b \in Aggs,
                     Commit(b, "live") \/ Commit(b, "durable") \/ BeginTombstone(b)
              PROVE  UNCHANGED stream \/ \E k : stream' = [stream EXCEPT ![b] = Append(@, k)]
          BY <4>2 DEF Commit, BeginTombstone, store
        <4>3. CASE Interrupt \/ CloseDispatcher \/ Crash \/ UNCHANGED vars
          BY <4>3 DEF Interrupt, CloseDispatcher, Crash, vars, store
        <4> QED
          BY <4>1, <4>2, <4>3 DEF Next
      <3>2. ASSUME NEW b \in Aggs, NEW k, stream' = [stream EXCEPT ![b] = Append(@, k)]
            PROVE  FALSE
        BY <2>0, <3>2
      <3> QED
        BY <3>1, <3>2
    <2>2. b = a
      BY <2>0, <2>1
    <2>3. forget[a].st = "erase"
      BY <2>1, <2>2 DEF Erase
    <2>4. /\ reg[a].jobs = <<>> /\ handled[a][Len(stream[a])] = Subs
          /\ stream[a][Len(stream[a])] = "forget" /\ worker[a].st \notin Carrying
      BY <2>3, ErasedIsDelivered
    <2>5. Last(stream[a]) = "forget"
      BY <2>4 DEF Last
    <2>6. VersionsOf(reg[a].jobs, IsAcked) = {}
      <3>1. \A i \in DOMAIN reg[a].jobs : FALSE
        BY <2>4
      <3> QED
        BY <3>1, Zenon DEF VersionsOf
    <2>7. worker[a].halt = "none"
      BY <2>0, <2>4, ShapeAt DEF IsWorker
    <2> QED
      BY <2>4, <2>5, <2>6, <2>7
  <1> QED
    BY <1>1, InvarianceOfGood, PTL DEF Spec, EraseIsFenced

-----------------------------------------------------------------------------
(* Nothing goes back: whatever may still be given to the handlers of a is  *)
(* at least as late as everything they have been given.                    *)

\* The stages of a delivery after its first round has begun.
Led == {"attempt", "wait", "giveUp", "letter", "ack"}

\* Event u of a may still come to the handlers.
ToCome(a, u) ==
    \/ Waits(a, u) \/ u \in reg[a].undelivered
    \/ InDelivery(a) /\ u = worker[a].job.ver
    \/ u \in backlog[a] \/ u \in Pending(a) \/ InHand(a, u)
    \/ \E r \in Resumers : lock[a] = r /\ u \in resumer[r].rest
    \/ \E r \in Resumers : IsPark(reg[a], resumer[r].parks[a]) /\ u \in Found(r, a)

Onward(a) == \A u \in Versions : ToCome(a, u) => \A w \in started[a] : w <= u

Straight(a) ==
    /\ Onward(a)
    /\ worker[a].st \in Led => worker[a].job.ver \in started[a]
    /\ ~reg[a].parked => reg[a].undelivered = {}

\* What may come of b was to come before, or is not earlier than the stream's end.
Narrows(b) == \A u \in Versions : ToCome(b, u)' => ToCome(b, u) \/ Len(stream[b]) <= u

\* A step that gives nothing of b to a handler.
Tame(b) ==
    /\ started'[b] = started[b]
    /\ Narrows(b)
    /\ worker'[b].st \in Led => worker[b].st \in Led /\ worker'[b].job = worker[b].job
    /\ ~reg'[b].parked => reg'[b].undelivered = {}

\* Such a step keeps b straight: nothing later than its stream has been given.
LEMMA TameStraight ==
  ASSUME Good, ~DirtyReads, NEW b \in Aggs, Straight(b), Tame(b)
  PROVE  Straight(b)'
  <1>1. \A w \in started[b] : w \in Nat /\ w <= Len(stream[b])
    BY DEF Good, Sound, Matched, HistoryOK, Versions
  <1>2. Len(stream[b]) \in Nat /\ Versions \subseteq Nat
    BY ShapeAt DEF Good, Versions
  <1>3. ASSUME NEW u \in Versions, ToCome(b, u)', NEW w \in started'[b] PROVE w <= u
    <2>1. w \in started[b] /\ (ToCome(b, u) \/ Len(stream[b]) <= u)
      BY <1>3 DEF Tame, Narrows
    <2>2. CASE ToCome(b, u)
      BY <2>1, <2>2 DEF Straight, Onward
    <2>3. CASE Len(stream[b]) <= u
      BY <1>1, <1>2, <2>1, <2>3
    <2> QED
      BY <2>1, <2>2, <2>3
  <1>4. Onward(b)'
    BY <1>3 DEF Onward
  <1> QED
    BY <1>4 DEF Straight, Tame

\* The places from which an event may come, one by one.
LEMMA NarrowsBy ==
  ASSUME NEW b \in Aggs,
         \A u \in Versions : Waits(b, u)' \/ u \in reg'[b].undelivered => ToCome(b, u),
         InDelivery(b)' => ToCome(b, worker'[b].job.ver),
         \A u \in Versions : u \in backlog'[b] \/ u \in Pending(b)' \/ InHand(b, u)' =>
            ToCome(b, u) \/ Len(stream[b]) <= u,
         \A r \in Resumers, u \in Versions :
            /\ lock'[b] = r /\ u \in resumer'[r].rest => ToCome(b, u)
            /\ IsPark(reg'[b], resumer'[r].parks[b]) /\ u \in Found(r, b)' => ToCome(b, u)
  PROVE  Narrows(b)
  <1> SUFFICES ASSUME NEW u \in Versions, ToCome(b, u)'
               PROVE  ToCome(b, u) \/ Len(stream[b]) <= u
    BY DEF Narrows
  <1>1. \/ Waits(b, u)' \/ u \in reg'[b].undelivered
        \/ InDelivery(b)' /\ u = worker'[b].job.ver
        \/ u \in backlog'[b] \/ u \in Pending(b)' \/ InHand(b, u)'
        \/ \E r \in Resumers : lock'[b] = r /\ u \in resumer'[r].rest
        \/ \E r \in Resumers : IsPark(reg'[b], resumer'[r].parks[b]) /\ u \in Found(r, b)'
    BY DEF ToCome
  <1> QED
    BY <1>1

\* The park of b stays, or is a new one that no Resume has listed.
Unlisted(b) == reg'[b].parked => SamePark(reg[b], reg'[b]) \/ reg'[b].gen = generation + 1

\* The calls of Resume bring nothing of b that they would not have brought.
RecallsKept(b) ==
    \A q \in Resumers :
        /\ lock'[b] = q => lock[b] = q /\ resumer'[q].rest \subseteq resumer[q].rest
        /\ \/ resumer'[q].parks[b] = 0
           \/ Found(q, b)' = {}
           \/ /\ resumer'[q].parks[b] = resumer[q].parks[b]
              /\ Found(q, b)' \subseteq Found(q, b) \cup Pending(b)

\* ... as long as the park of b is the one they have listed.
LEMMA RecallsNarrow ==
  ASSUME Shape, NEW b \in Aggs, RecallsKept(b), Unlisted(b)
  PROVE  \A r \in Resumers, u \in Versions :
            /\ lock'[b] = r /\ u \in resumer'[r].rest => ToCome(b, u)
            /\ IsPark(reg'[b], resumer'[r].parks[b]) /\ u \in Found(r, b)' => ToCome(b, u)
  <1> TAKE r \in Resumers, u \in Versions
  <1>1. lock'[b] = r /\ u \in resumer'[r].rest => ToCome(b, u)
    BY DEF RecallsKept, ToCome
  <1>2. ASSUME IsPark(reg'[b], resumer'[r].parks[b]), u \in Found(r, b)'
        PROVE  ToCome(b, u)
    <2>1. generation + 1 # 0
      BY DEF Shape, IInv, RegistryOK
    <2>2. reg'[b].gen # 0
      BY <1>2, <2>1, ParkedHasNumber DEF Unlisted, IsPark, SamePark
    <2>3. resumer'[r].parks[b] # 0
      BY <1>2, <2>2 DEF IsPark
    <2>4. /\ resumer'[r].parks[b] = resumer[r].parks[b]
          /\ Found(r, b)' \subseteq Found(r, b) \cup Pending(b)
      BY <1>2, <2>3 DEF RecallsKept
    <2>5. reg'[b].gen # generation + 1
      BY <1>2, <2>4, NewPark
    <2>6. IsPark(reg[b], resumer[r].parks[b])
      BY <1>2, <2>4, <2>5 DEF Unlisted, IsPark, SamePark
    <2> QED
      BY <1>2, <2>4, <2>6 DEF ToCome
  <1> QED
    BY <1>1, <1>2

\* The Resume calls stay, and no lock is given to one.
LEMMA RecallsStay ==
  ASSUME NEW b \in Aggs, UNCHANGED resumer, \A r \in Resumers : lock'[b] = r => lock[b] = r
  PROVE  RecallsKept(b)
  BY DEF RecallsKept, Found

\* Registry and executor stay; the worker of a goes on with its job, ends it or acknowledges.
LEMMA WorkTame ==
  ASSUME Good, ~DirtyReads, NEW a \in Aggs, NEW s, Moves(a, s), worker[a].st \in Carrying,
         s \in Led => worker[a].st \in Led,
         s # "held" /\ (s \in Delivering => InDelivery(a)),
         UNCHANGED <<reg, stream, backlog, lock, forget, resumer, started>>,
         \A b \in Aggs : Pending(b)' \subseteq Pending(b), \A b \in Aggs : Straight(b)
  PROVE  \A b \in Aggs : Tame(b)
  <1> TAKE b \in Aggs
  <1>0. Shape
    BY DEF Good
  <1>1. \/ worker'[b] = worker[b]
        \/ b = a /\ worker'[b].st = s /\ worker'[b].job = worker[b].job
    BY DEF Moves
  <1>2. \A u \in Versions : Waits(b, u)' \/ u \in reg'[b].undelivered => ToCome(b, u)
    BY DEF ToCome, Waits
  <1>3. InDelivery(b)' => ToCome(b, worker'[b].job.ver)
    <2>1. InDelivery(b)' => InDelivery(b) /\ worker'[b].job = worker[b].job
      BY <1>1 DEF InDelivery
    <2> QED
      BY <2>1 DEF ToCome
  <1>4. \A u \in Versions : u \in backlog'[b] \/ u \in Pending(b)' \/ InHand(b, u)' =>
            ToCome(b, u)
    BY DEF ToCome, InHand
  <1>5. Narrows(b)
    <2>1. Unlisted(b) /\ RecallsKept(b)
      BY RecallsStay DEF Unlisted, SamePark
    <2> QED
      BY <1>0, <1>2, <1>3, <1>4, <2>1, RecallsNarrow, NarrowsBy
  <1>6. worker'[b].st \in Led => worker[b].st \in Led /\ worker'[b].job = worker[b].job
    BY <1>1
  <1> QED
    BY <1>5, <1>6 DEF Tame, Straight

\* The line of a is not given anything that was not to come.
LineNarrows(a) ==
    /\ \A u \in Versions : Waits(a, u)' \/ u \in reg'[a].undelivered => ToCome(a, u)
    /\ InDelivery(a)' => ToCome(a, worker'[a].job.ver)
    /\ worker'[a].st \in Led => worker[a].st \in Led /\ worker'[a].job = worker[a].job
    /\ ~reg'[a].parked => reg'[a].undelivered = {}

\* Neither are the executor and the Resume calls of b.
ExecNarrows(b) ==
    /\ \A u \in Versions : u \in backlog'[b] \/ InHand(b, u)' => ToCome(b, u)
    /\ \A r \in Resumers, u \in Versions :
        /\ lock'[b] = r /\ u \in resumer'[r].rest => ToCome(b, u)
        /\ IsPark(reg'[b], resumer'[r].parks[b]) /\ u \in Found(r, b)' => ToCome(b, u)

\* Of the lines only that of a moves, and nothing is committed, acknowledged or begun.
LEMMA StepTame ==
  ASSUME Good, ~DirtyReads, NEW a \in Aggs, Only(a), \A b \in Aggs \ {a} : worker'[b] = worker[b],
         UNCHANGED <<log, started>>, LineNarrows(a),
         \A b \in Aggs : Straight(b) /\ ExecNarrows(b)
  PROVE  \A b \in Aggs : Tame(b)
  <1> TAKE b \in Aggs
  <1>0. Pending(b)' = Pending(b)
    BY PendingSame
  <1>1. b # a => reg'[b] = reg[b] /\ worker'[b] = worker[b]
    BY DEF Only
  <1>2. LineNarrows(b)
    <2>1. CASE b # a
      BY <1>1, <2>1 DEF LineNarrows, ToCome, Waits, InDelivery, Straight
    <2> QED
      BY <2>1
  <1>3. \A u \in Versions : u \in backlog'[b] \/ u \in Pending(b)' \/ InHand(b, u)' =>
            ToCome(b, u)
    <2>1. \A u \in Versions : u \in Pending(b)' => ToCome(b, u)
      BY <1>0 DEF ToCome
    <2> QED
      BY <2>1 DEF ExecNarrows
  <1>4. Narrows(b)
    BY <1>2, <1>3, NarrowsBy DEF LineNarrows, ExecNarrows
  <1> QED
    BY <1>2, <1>4 DEF Tame, LineNarrows

\* The executor and the Resume calls have nothing new for b.
LEMMA ExecLessNarrows ==
  ASSUME Good, ~DirtyReads, NEW b \in Aggs, RecallsKept(b), Unlisted(b),
         backlog'[b] \subseteq backlog[b],
         \A u \in Versions : InHand(b, u)' => InHand(b, u)
  PROVE  ExecNarrows(b)
  <1>1. \A u \in Versions : u \in backlog'[b] \/ InHand(b, u)' => ToCome(b, u)
    BY DEF ToCome
  <1> QED
    BY <1>1, RecallsNarrow DEF ExecNarrows, Good

\* The executor and the Resume calls do not move.
LEMMA ExecSameNarrows ==
  ASSUME Good, ~DirtyReads, NEW b \in Aggs, UNCHANGED <<stream, forget, lock, resumer>>,
         backlog'[b] \subseteq backlog[b], Unlisted(b)
  PROVE  ExecNarrows(b)
  <1>1. \A u \in Versions : InHand(b, u)' => InHand(b, u)
    BY DEF InHand
  <1> QED
    BY <1>1, RecallsStay, ExecLessNarrows

\* An aggregate whose record does not change keeps its park.
LEMMA OnlyUnlisted ==
  ASSUME NEW a \in Aggs, Only(a), Unlisted(a)
  PROVE  \A b \in Aggs : Unlisted(b)
  BY DEF Only, Unlisted, SamePark

\* Nothing of the executor moves, and only the line and the park of a do.
LEMMA LineTame ==
  ASSUME Good, ~DirtyReads, NEW a \in Aggs, Local(a), \A b \in Aggs : Straight(b), Unlisted(a),
         LineNarrows(a),
         UNCHANGED <<stream, log, backlog, lock, forget, resumer, started>>
  PROVE  \A b \in Aggs : Tame(b)
  <1>1. \A b \in Aggs : Unlisted(b)
    BY OnlyUnlisted DEF Local
  <1>2. \A b \in Aggs : ExecNarrows(b)
    BY <1>1, ExecSameNarrows
  <1> QED
    BY <1>2, StepTame DEF Local

\* The worker takes the head of the queue.
LEMMA PopTame ==
  ASSUME Good, ~DirtyReads, NEW a \in Aggs, Pop(a), \A b \in Aggs : Straight(b)
  PROVE  \A b \in Aggs : Tame(b)
  <1>0. Shape
    BY DEF Good
  <1>u. UNCHANGED <<stream, log, backlog, lock, forget, resumer, started>>
    BY DEF Pop, store, exec, process, history
  <1>1. /\ Local(a) /\ reg[a].jobs # <<>> /\ reg'[a].jobs = Tail(reg[a].jobs)
        /\ reg'[a].parked = reg[a].parked /\ reg'[a].gen = reg[a].gen
        /\ reg'[a].undelivered = reg[a].undelivered
        /\ worker'[a].st = "held" /\ worker'[a].job = Head(reg[a].jobs)
    BY <1>0, PopEffect
  <1>2. \A j : j \in ToSet(reg[a].jobs) <=> j = Head(reg[a].jobs) \/ j \in ToSet(Tail(reg[a].jobs))
    BY <1>0, <1>1, ShapeAt, TailFacts DEF QueueOK
  <1>3. \A u \in Versions : Waits(a, u)' \/ u \in reg'[a].undelivered => ToCome(a, u)
    <2>1. \A u : Waits(a, u)' => Waits(a, u)
      BY <1>1, <1>2 DEF Waits
    <2> QED
      BY <1>1, <2>1 DEF ToCome
  <1>4. InDelivery(a)' => ToCome(a, worker'[a].job.ver)
    <2>1. IsAcked(worker'[a].job) => Waits(a, worker'[a].job.ver)
      BY <1>1, <1>2 DEF Waits
    <2> QED
      BY <2>1 DEF InDelivery, ToCome
  <1>5. Unlisted(a)
    BY <1>1 DEF Unlisted, SamePark
  <1>6. worker'[a].st \notin Led
    BY <1>1 DEF Led
  <1>7. ~reg'[a].parked => reg'[a].undelivered = {}
    BY <1>1 DEF Straight
  <1> QED
    BY <1>u, <1>1, <1>3, <1>4, <1>5, <1>6, <1>7, LineTame DEF LineNarrows

\* The worker waits, wakes up, retires or is stopped.
LEMMA IdleTame ==
  ASSUME Good, ~DirtyReads, NEW a \in Aggs, Drained(a) \/ Woken(a) \/ Retire(a) \/ Stopped(a),
         \A b \in Aggs : Straight(b)
  PROVE  \A b \in Aggs : Tame(b)
  <1>u. UNCHANGED <<stream, log, backlog, lock, forget, resumer, started>>
    BY DEF Drained, Woken, Retire, Stopped, store, exec, process, history
  <1>1. /\ Local(a) /\ worker'[a].st \in {"none", "drain", "await"}
        /\ reg'[a].jobs = reg[a].jobs /\ reg'[a].undelivered = reg[a].undelivered
        /\ SamePark(reg[a], reg'[a])
    BY IdleEffect DEF Good, Idles
  <1>2. \A u \in Versions : Waits(a, u)' \/ u \in reg'[a].undelivered => ToCome(a, u)
    BY <1>1 DEF Waits, ToCome
  <1>3. ~InDelivery(a)' /\ worker'[a].st \notin Led
    BY <1>1 DEF InDelivery, Delivering, Led
  <1>4. Unlisted(a) /\ (~reg'[a].parked => reg'[a].undelivered = {})
    BY <1>1 DEF Unlisted, Straight, SamePark
  <1> QED
    BY <1>u, <1>1, <1>2, <1>3, <1>4, LineTame DEF LineNarrows

\* heldByPark: a job that a park holds up is recorded with the park.
LEMMA BeginTame ==
  ASSUME Good, ~DirtyReads, NEW a \in Aggs, BeginDelivery(a), \A b \in Aggs : Straight(b)
  PROVE  \A b \in Aggs : Tame(b)
  <1>0. Shape
    BY DEF Good
  <1>u. /\ worker[a].st = "held"
        /\ UNCHANGED <<stream, log, backlog, lock, forget, resumer, started>>
    BY DEF BeginDelivery, store, exec, process, history
  <1>1. PICK s \in {"deliver", "finish"} :
            Moves(a, s) /\ (s = "deliver" => IsAcked(worker[a].job))
    <2>1. CASE Goto(a, "deliver") /\ IsAcked(worker[a].job)
      BY <1>0, <2>1, GotoEffect
    <2>2. ASSUME NEW ok, End(a, ok) PROVE Moves(a, "finish")
      BY <1>0, <2>2, EndEffect
    <2> QED
      BY <2>1, <2>2 DEF BeginDelivery
  <1>2. CASE UNCHANGED reg
    <2>1. /\ worker[a].st \in Carrying /\ (s \in Delivering => InDelivery(a))
          /\ s # "held" /\ s \notin Led
      BY <1>u, <1>1 DEF Carrying, InDelivery, Delivering, Led
    <2>2. \A b \in Aggs : Pending(b)' \subseteq Pending(b)
      BY <1>u, PendingSame
    <2> QED
      BY <1>u, <1>1, <1>2, <2>1, <2>2, WorkTame
  <1>3. CASE /\ IsAcked(worker[a].job) /\ reg[a].parked
             /\ reg' = [reg EXCEPT ![a].undelivered = @ \cup {worker[a].job.ver}]
    <2>1. reg = [b \in Aggs |-> reg[b]] /\ IsRecord(reg[a])
      BY <1>0 DEF Shape, IInv, RegistryOK, RecordOK
    <2>2. /\ Only(a) /\ reg'[a].jobs = reg[a].jobs /\ reg'[a].parked = reg[a].parked
          /\ reg'[a].gen = reg[a].gen
          /\ reg'[a].undelivered = reg[a].undelivered \cup {worker[a].job.ver}
      BY <1>3, <2>1 DEF Only, IsRecord
    <2>3. Local(a)
      BY <1>1, <2>2 DEF Local, Moves
    <2>4. InDelivery(a)
      BY <1>u, <1>3 DEF InDelivery
    <2>5. LineNarrows(a)
      <3>1. \A u \in Versions : Waits(a, u)' \/ u \in reg'[a].undelivered => ToCome(a, u)
        BY <2>2, <2>4 DEF ToCome, Waits
      <3>2. ToCome(a, worker'[a].job.ver)
        BY <1>1, <2>4 DEF ToCome, Moves
      <3>3. worker'[a].st \notin Led
        BY <1>1 DEF Moves, Led
      <3> QED
        BY <1>3, <2>2, <3>1, <3>2, <3>3 DEF LineNarrows
    <2>6. Unlisted(a)
      BY <2>2 DEF Unlisted, SamePark
    <2> QED
      BY <1>u, <2>3, <2>5, <2>6, LineTame
  <1> QED
    BY <1>2, <1>3 DEF BeginDelivery

\* A park records what was to come.
LEMMA ParkNarrows ==
  ASSUME Good, ~DirtyReads, NEW a \in Aggs, NEW X, Park(a, X), \A u \in X : ToCome(a, u),
         Straight(a),
         InDelivery(a)' => InDelivery(a),
         worker'[a].job = worker[a].job, worker'[a].st \in Led => worker[a].st \in Led
  PROVE  Only(a) /\ Unlisted(a) /\ LineNarrows(a)
  <1>0. Only(a) /\ (Adds(a, X) \/ Closes(a, X))
    BY ParkEffect DEF Good
  <1>1. \A u \in Versions : Waits(a, u)' \/ u \in reg'[a].undelivered => ToCome(a, u)
    <2>1. CASE Adds(a, X)
      BY <2>1 DEF Adds, SameQueue, Waits, ToCome
    <2>2. CASE Closes(a, X)
      <3>1. \A u : ~Waits(a, u)'
        BY <2>2 DEF Closes, Waits, IsAcked
      <3>2. \A u \in VersionsOf(reg[a].jobs, IsAcked) : Waits(a, u)
        BY DEF VersionsOf, Waits, ToSet
      <3>3. \A u \in reg'[a].undelivered :
                u \in reg[a].undelivered \/ u \in VersionsOf(reg[a].jobs, IsAcked) \/ u \in X
        BY <2>2 DEF Closes
      <3>4. \A u \in reg'[a].undelivered : u \in reg[a].undelivered \/ Waits(a, u) \/ u \in X
        BY <3>2, <3>3
      <3> QED
        BY <3>1, <3>4 DEF ToCome
    <2> QED
      BY <1>0, <2>1, <2>2
  <1>2. reg'[a].parked /\ Unlisted(a)
    BY <1>0 DEF Adds, Closes, Unlisted, SamePark
  <1>3. InDelivery(a)' => ToCome(a, worker'[a].job.ver)
    BY DEF ToCome
  <1> QED
    BY <1>0, <1>1, <1>2, <1>3 DEF LineNarrows

\* ParkIfCurrent.
LEMMA ParkStepTame ==
  ASSUME Good, ~DirtyReads, NEW a \in Aggs, ParkIfCurrent(a), \A b \in Aggs : Straight(b)
  PROVE  \A b \in Aggs : Tame(b)
  <1>u. /\ worker[a].st = "park" /\ End(a, FALSE)
        /\ UNCHANGED <<stream, log, backlog, lock, forget, resumer, started>>
    BY DEF ParkIfCurrent, store, exec, process, history
  <1>1. Moves(a, "finish")
    BY <1>u, EndEffect DEF Good
  <1>2. "finish" \notin Led /\ "finish" \notin Delivering /\ "park" \in Carrying
    BY DEF Led, Delivering, Carrying
  <1>3. CASE UNCHANGED reg
    <2>1. \A b \in Aggs : Pending(b)' \subseteq Pending(b)
      BY <1>u, PendingSame
    <2> QED
      BY <1>u, <1>1, <1>2, <1>3, <2>1, WorkTame
  <1>4. ASSUME NEW X, X = {}, Park(a, X) PROVE \A b \in Aggs : Tame(b)
    <2>1. ~InDelivery(a)'
      BY <1>1, <1>2 DEF InDelivery, Moves
    <2>2. Only(a) /\ Unlisted(a) /\ LineNarrows(a)
      BY <1>1, <1>2, <1>4, <2>1, ParkNarrows DEF Moves
    <2>3. Local(a)
      BY <1>1, <2>2 DEF Local, Moves
    <2> QED
      BY <1>u, <2>2, <2>3, LineTame
  <1> QED
    BY <1>3, <1>4 DEF ParkIfCurrent, registry

\* What may come after an event that nobody has stopped is not earlier.
LEMMA NoneEarlier ==
  ASSUME Good, ~DirtyReads, NEW a \in Aggs, Straight(a), Working(a), NEW u \in Versions,
         ToCome(a, u)
  PROVE  worker[a].job.ver <= u
  <1>0. Sound(a) /\ Shape
    BY DEF Good
  <1>1. ~reg[a].parked /\ \A v \in Pending(a) : worker[a].job.ver <= v
    BY WorkingIsFirst
  <1>2. worker[a].job.ver \in Versions /\ Versions \subseteq Nat
    BY <1>0, JobVersions DEF Working, Versions
  <1>3. InLine(a, worker[a].job.ver) /\ Ordered(a)
    BY <1>0 DEF InLine, Sound
  <1>w. PICK w \in Versions : w = worker[a].job.ver
    BY <1>2
  <1>l. w < u => w <= u
    BY <1>2
  <1>4. CASE Waits(a, u)
    BY <1>3, <1>w, <1>l, <1>4 DEF Ordered
  <1>5. CASE u \in reg[a].undelivered
    BY <1>1, <1>5 DEF Straight
  <1>6. CASE u \in backlog[a] \/ InHand(a, u)
    BY <1>3, <1>w, <1>l, <1>6 DEF Ordered
  <1>7. ASSUME NEW r \in Resumers, lock[a] = r, u \in resumer[r].rest
        PROVE  worker[a].job.ver <= u
    BY <1>3, <1>w, <1>l, <1>7 DEF Ordered
  <1>8. ASSUME NEW r \in Resumers, IsPark(reg[a], resumer[r].parks[a]) PROVE FALSE
    BY <1>1, <1>8 DEF IsPark
  <1> QED
    BY <1>1, <1>2, <1>4, <1>5, <1>6, <1>7, <1>8 DEF ToCome

\* The event of a worker that nobody has stopped is given to the handlers.
LEMMA TryStraight ==
  ASSUME Good, ~DirtyReads, NEW a \in Aggs, NEW n, NEW subs, Try(a, n, subs), ~IsShut(a),
         worker[a].st \in {"deliver", "wait"},
         UNCHANGED <<reg, stream, log, backlog, lock, forget, resumer>>,
         \A b \in Aggs : Straight(b)
  PROVE  \A b \in Aggs : Straight(b)'
  <1>0. Shape /\ HistoryOK
    BY DEF Good
  <1>1. Moves(a, "attempt") /\ started' = [started EXCEPT ![a] = @ \cup {worker[a].job.ver}]
    BY <1>0, TryEffect DEF Try
  <1>2. /\ started'[a] = started[a] \cup {worker[a].job.ver}
        /\ \A b \in Aggs \ {a} : started'[b] = started[b]
    BY <1>0, <1>1 DEF HistoryOK
  <1>3. Working(a)
    BY <1>0, ShapeAt DEF Working, InDelivery, Delivering, IsWorker
  <1>4. ASSUME NEW b \in Aggs, NEW u \in Versions, ToCome(b, u)' PROVE ToCome(b, u)
    <2>1. /\ (InDelivery(b)' => InDelivery(b)) /\ worker'[b].job = worker[b].job
          /\ Pending(b)' = Pending(b)
      BY <1>1, <1>3, PendingSame DEF Moves, Working, InDelivery
    <2> QED
      BY <1>4, <2>1 DEF ToCome, Waits, InHand, Found
  <1>5. Straight(a)'
    <2>1. Onward(a)'
      <3> SUFFICES ASSUME NEW u \in Versions, ToCome(a, u)', NEW w \in started'[a] PROVE w <= u
        BY DEF Onward
      <3>1. ToCome(a, u)
        BY <1>4
      <3>2. CASE w \in started[a]
        BY <3>1, <3>2 DEF Straight, Onward
      <3>3. CASE w = worker[a].job.ver
        BY <1>3, <3>1, <3>3, NoneEarlier
      <3> QED
        BY <1>2, <3>2, <3>3
    <2> QED
      BY <1>1, <1>2, <2>1 DEF Straight, Moves
  <1>6. ASSUME NEW b \in Aggs \ {a} PROVE Straight(b)'
    <2>1. worker'[b] = worker[b]
      BY <1>1 DEF Moves
    <2>2. Narrows(b)
      BY <1>4 DEF Narrows
    <2>3. Tame(b)
      BY <1>2, <2>1, <2>2 DEF Tame, Straight
    <2> QED
      BY <2>3, TameStraight
  <1> QED
    BY <1>5, <1>6

\* finish.
LEMMA FinishTame ==
  ASSUME Good, ~DirtyReads, NEW a \in Aggs, Finish(a), \A b \in Aggs : Straight(b)
  PROVE  \A b \in Aggs : Tame(b)
  <1>u. UNCHANGED <<reg, stream, log, backlog, lock, forget, resumer, started>>
    BY DEF Finish, store, exec, registry, process, history
  <1>1. Local(a) /\ worker'[a].st = "drain"
    BY FinishEffect DEF Good
  <1>2. ~InDelivery(a)' /\ worker'[a].st \notin Led
    BY <1>1 DEF InDelivery, Delivering, Led
  <1>3. LineNarrows(a)
    BY <1>u, <1>2 DEF LineNarrows, ToCome, Waits, Straight
  <1>4. Unlisted(a)
    BY <1>u DEF Unlisted, SamePark
  <1> QED
    BY <1>u, <1>1, <1>3, <1>4, LineTame

\* Every step of a worker.
LEMMA WorkerStraight ==
  ASSUME Good, ~DirtyReads, NEW a \in Aggs, WorkerStep(a), \A b \in Aggs : Straight(b)
  PROVE  \A b \in Aggs : Straight(b)'
  <1>0. Shape
    BY DEF Good
  <1>1. CASE Pop(a) \/ Drained(a) \/ Woken(a) \/ Retire(a) \/ Stopped(a) \/ BeginDelivery(a)
             \/ ParkIfCurrent(a) \/ Finish(a)
    BY <1>1, PopTame, IdleTame, BeginTame, ParkStepTame, FinishTame, TameStraight
  <1>2. CASE \/ Deliver(a) \/ Wait(a) \/ GiveUp(a) \/ DeadLetter(a) \/ Ack(a)
             \/ \E failed \in SUBSET Subs : Attempt(a, failed)
    <2>u. /\ worker[a].st \in Delivering
          /\ UNCHANGED <<reg, stream, backlog, lock, forget, resumer>>
      BY <1>2 DEF Deliver, Wait, GiveUp, DeadLetter, Ack, Attempt, Delivering, store, exec,
                  registry, process
    <2>1. InDelivery(a) /\ worker[a].st \in Carrying
      BY <1>0, <2>u, ShapeAt DEF InDelivery, Carrying, IsWorker
    <2>2. ASSUME NEW s \in Stages \ {"held"}, Moves(a, s), s \in Led => worker[a].st \in Led,
                 UNCHANGED started, UNCHANGED log \/
                 log' = Keep(log, ToSet(log) \ {<<a, worker[a].job.ver>>})
          PROVE  \A b \in Aggs : Straight(b)'
      <3>1. \A b \in Aggs : Pending(b)' \subseteq Pending(b)
        BY <1>0, <2>2, AckPending, PendingSame
      <3>2. \A b \in Aggs : Tame(b)
        BY <2>u, <2>1, <2>2, <3>1, WorkTame
      <3> QED
        BY <3>2, TameStraight
    <2>3. ASSUME NEW ok, End(a, ok), UNCHANGED <<log, started>>
          PROVE  \A b \in Aggs : Straight(b)'
      <3>1. Moves(a, "finish") /\ "finish" \in Stages \ {"held"} /\ "finish" \notin Led
        BY <1>0, <2>3, EndEffect DEF Stages, Led
      <3> QED
        BY <2>2, <2>3, <3>1
    <2>4. ASSUME NEW s \in {"park", "letter", "ack"}, Goto(a, s), UNCHANGED <<log, started>>,
                 s # "park" => worker[a].st \in Led
          PROVE  \A b \in Aggs : Straight(b)'
      <3>1. Moves(a, s) /\ s \in Stages \ {"held"} /\ "park" \notin Led
        BY <1>0, <2>4, GotoEffect DEF Stages, Led
      <3> QED
        BY <2>2, <2>4, <3>1
    <2>5. CASE Deliver(a)
      <3>1. CASE IsShut(a)
        BY <2>3, <2>5, <3>1 DEF Deliver, history, store
      <3>2. CASE ~IsShut(a)
        BY <2>u, <2>5, <3>2, TryStraight DEF Deliver, store
      <3> QED
        BY <3>1, <3>2
    <2>6. CASE Wait(a)
      <3>1. CASE ~IsShut(a) /\ Try(a, worker[a].attempt + 1, worker[a].pending)
        <4>1. PICK n : n = worker[a].attempt + 1
          OBVIOUS
        <4>2. Try(a, n, worker[a].pending) /\ worker[a].st = "wait" /\ UNCHANGED log
          BY <2>6, <3>1, <4>1 DEF Wait, store
        <4> QED
          BY <2>u, <3>1, <4>2, TryStraight
      <3>2. CASE End(a, FALSE) /\ UNCHANGED history
        BY <2>3, <2>6, <3>2 DEF Wait, history, store
      <3>3. CASE Goto(a, "park") /\ UNCHANGED history
        BY <2>4, <2>6, <3>3 DEF Wait, history, store
      <3> QED
        BY <2>6, <3>1, <3>2, <3>3 DEF Wait
    <2>7. CASE GiveUp(a)
      <3>1. worker[a].st \in Led /\ UNCHANGED <<log, started>>
        BY <2>7 DEF GiveUp, Led, history, store
      <3>2. End(a, FALSE) \/ Goto(a, "letter") \/ Goto(a, "park")
        BY <2>7 DEF GiveUp
      <3> QED
        BY <2>3, <2>4, <3>1, <3>2
    <2>8. CASE DeadLetter(a)
      <3>1. worker[a].st \in Led /\ UNCHANGED <<log, started>>
        BY <2>8 DEF DeadLetter, Led, store
      <3> QED
        BY <2>4, <2>8, <3>1 DEF DeadLetter
    <2>9. CASE Ack(a)
      <3>0. UNCHANGED started
        BY <2>9 DEF Ack, history
      <3>1. CASE /\ log' = Keep(log, ToSet(log) \ {<<a, worker[a].job.ver>>})
                 /\ End(a, TRUE)
        <4>1. Moves(a, "finish") /\ "finish" \in Stages \ {"held"} /\ "finish" \notin Led
          BY <1>0, <3>1, EndEffect DEF Stages, Led
        <4> QED
          BY <2>2, <3>0, <3>1, <4>1
      <3>2. CASE Goto(a, "park") /\ UNCHANGED log
        BY <2>4, <3>0, <3>2
      <3> QED
        BY <2>9, <3>1, <3>2 DEF Ack
    <2>10. ASSUME NEW failed \in SUBSET Subs, Attempt(a, failed)
           PROVE  \A b \in Aggs : Straight(b)'
      <3>1. Moves(a, AfterRound(a, failed))
        BY <1>0, <2>10, AttemptEffect
      <3>2. AfterRound(a, failed) \in Stages \ {"held"} /\ worker[a].st \in Led
            /\ UNCHANGED <<log, started>>
        BY <2>10 DEF AfterRound, Attempt, Led, Stages, store
      <3> QED
        BY <2>2, <3>1, <3>2
    <2> QED
      BY <1>2, <2>5, <2>6, <2>7, <2>8, <2>9, <2>10
  <1> QED
    BY <1>1, <1>2 DEF WorkerStep

-----------------------------------------------------------------------------
(* Nothing goes back: the executor, Resume and Build.                      *)

\* The record and the worker of b stay.
SameSeat(b) == reg'[b] = reg[b] /\ worker'[b] = worker[b] /\ started'[b] = started[b]

\* Then only what the executor and the log have of b can be new.
LEMMA SeatTame ==
  ASSUME Good, ~DirtyReads, NEW b \in Aggs, Straight(b), SameSeat(b), RecallsKept(b),
         \A u \in Versions : u \in backlog'[b] \/ u \in Pending(b)' \/ InHand(b, u)' =>
            ToCome(b, u) \/ Len(stream[b]) <= u
  PROVE  Tame(b)
  <1>1. \A u \in Versions : Waits(b, u)' \/ u \in reg'[b].undelivered => ToCome(b, u)
    BY DEF SameSeat, Waits, ToCome
  <1>2. InDelivery(b)' => ToCome(b, worker'[b].job.ver)
    BY DEF SameSeat, InDelivery, ToCome
  <1>3. Unlisted(b)
    BY DEF SameSeat, Unlisted, SamePark
  <1>4. Narrows(b)
    BY <1>1, <1>2, <1>3, RecallsNarrow, NarrowsBy DEF Good
  <1> QED
    BY <1>4 DEF Tame, SameSeat, Straight

\* An event that was to come is enqueued.
LEMMA EnqueueTame ==
  ASSUME Good, ~DirtyReads, NEW a \in Aggs, NEW j \in Jobs, Enqueue(a, j), ToCome(a, j.ver),
         UNCHANGED <<log, started>>,
         \A b \in Aggs : Straight(b) /\ (Unlisted(b) => ExecNarrows(b))
  PROVE  \A b \in Aggs : Straight(b)'
  <1>1. Local(a)
    BY EnqueueEffect DEF Good
  <1>2. SamePark(reg[a], reg'[a]) /\ Unlisted(a)
    BY EnqueueWords DEF Unlisted
  <1>3. \A b \in Aggs : ExecNarrows(b)
    BY <1>1, <1>2, OnlyUnlisted DEF Local
  <1>4. \A u \in Versions : Waits(a, u)' \/ u \in reg'[a].undelivered => ToCome(a, u)
    <2>1. \A u \in Versions : Waits(a, u)' \/ u \in reg'[a].undelivered =>
            Waits(a, u) \/ u \in reg[a].undelivered \/ u = j.ver
      BY EnqueueWords
    <2> QED
      BY <2>1 DEF ToCome
  <1>5. InDelivery(a)' => InDelivery(a) /\ worker'[a] = worker[a]
    BY EnqueueWords DEF InDelivery, Carrying
  <1>6. worker'[a].st \in Led => worker'[a] = worker[a]
    BY EnqueueWords DEF Led, Carrying, Delivering
  <1>7. ~reg'[a].parked => reg'[a].undelivered = {}
    BY <1>2, EnqueueWords DEF SamePark, Straight
  <1>8. LineNarrows(a)
    BY <1>4, <1>5, <1>6, <1>7 DEF LineNarrows, ToCome
  <1>9. \A b \in Aggs : Tame(b)
    BY <1>1, <1>3, <1>8, StepTame DEF Local
  <1> QED
    BY <1>9, TameStraight

\* A command enqueues its event.
LEMMA EnqueueCommittedStraight ==
  ASSUME Good, ~DirtyReads, NEW a \in Aggs, EnqueueCommitted(a), \A b \in Aggs : Straight(b)
  PROVE  \A b \in Aggs : Straight(b)'
  <1>0. Shape
    BY DEF Good
  <1>1. PICK j : j = Job(Len(stream[a]), Last(stream[a]), TRUE)
    OBVIOUS
  <1>2. /\ lock[a] = "command" /\ Enqueue(a, j) /\ lock' = [lock EXCEPT ![a] = "free"]
        /\ UNCHANGED <<stream, log, forget, resumer, backlog, started>>
    BY <1>1 DEF EnqueueCommitted, store, process, history
  <1>3. j \in Jobs /\ j.ver = Len(stream[a])
    <2>1. stream[a] # <<>> /\ stream[a] \in Seq(Kinds) /\ Len(stream[a]) <= MaxVersion
          /\ MaxVersion \in Nat
      BY <1>0, <1>2, ShapeAt DEF Shape, ExecOK
    <2>2. Len(stream[a]) \in Versions /\ Last(stream[a]) \in Kinds
      BY <2>1 DEF Last, Versions
    <2> QED
      BY <1>1, <2>2 DEF Job, Jobs
  <1>4. lock'[a] = "free" /\ \A b \in Aggs \ {a} : lock'[b] = lock[b]
    BY <1>0, <1>2 DEF Shape, ExecOK
  <1>5. ToCome(a, j.ver)
    BY <1>2, <1>3 DEF ToCome, InHand
  <1>6. ASSUME NEW b \in Aggs, Unlisted(b) PROVE ExecNarrows(b)
    <2>1. RecallsKept(b)
      BY <1>2, <1>4, ResumerNames, RecallsStay
    <2>2. \A u \in Versions : InHand(b, u)' => InHand(b, u)
      BY <1>2, <1>4 DEF InHand
    <2> QED
      BY <1>2, <1>6, <2>1, <2>2, ExecLessNarrows
  <1> QED
    BY <1>2, <1>3, <1>5, <1>6, EnqueueTame

\* A Forget enqueues its marker.
LEMMA EnqueueTombstoneStraight ==
  ASSUME Good, ~DirtyReads, NEW a \in Aggs, EnqueueTombstone(a), \A b \in Aggs : Straight(b)
  PROVE  \A b \in Aggs : Straight(b)'
  <1>0. Shape /\ Sound(a)
    BY DEF Good
  <1>1. PICK j : j = Job(forget[a].ver, "forget", TRUE)
    OBVIOUS
  <1>2. /\ forget[a].st = "superseded" /\ Enqueue(a, j) /\ lock' = [lock EXCEPT ![a] = "free"]
        /\ forget' = [forget EXCEPT ![a].st = "waiting"]
        /\ UNCHANGED <<stream, log, resumer, backlog, started>>
    BY <1>1 DEF EnqueueTombstone, ForgetAt, store, process, history
  <1>3. j \in Jobs /\ j.ver = Len(stream[a])
    <2>1. forget[a].ver \in Versions /\ forget[a].ver = Len(stream[a])
      BY <1>0, <1>2 DEF Shape, ExecOK, Sound, Guarded
    <2> QED
      BY <1>1, <2>1 DEF Job, Jobs, Kinds
  <1>4. /\ lock'[a] = "free" /\ \A b \in Aggs \ {a} : lock'[b] = lock[b]
        /\ forget'[a].st = "waiting" /\ \A b \in Aggs \ {a} : forget'[b] = forget[b]
    BY <1>0, <1>2 DEF Shape, ExecOK
  <1>5. ToCome(a, j.ver)
    BY <1>2, <1>3 DEF ToCome, InHand
  <1>6. ASSUME NEW b \in Aggs, Unlisted(b) PROVE ExecNarrows(b)
    <2>1. RecallsKept(b)
      BY <1>2, <1>4, ResumerNames, RecallsStay
    <2>2. \A u \in Versions : InHand(b, u)' => InHand(b, u)
      BY <1>2, <1>4 DEF InHand
    <2> QED
      BY <1>2, <1>6, <2>1, <2>2, ExecLessNarrows
  <1> QED
    BY <1>2, <1>3, <1>5, <1>6, EnqueueTame

\* Recover enqueues an event.
LEMMA RecoverStraight ==
  ASSUME Good, ~DirtyReads, NEW a \in Aggs, Recover(a), \A b \in Aggs : Straight(b)
  PROVE  \A b \in Aggs : Straight(b)'
  <1>0. Shape
    BY DEF Good
  <1>1. PICK v \in backlog[a] :
            /\ Enqueue(a, Job(v, stream[a][v], FALSE))
            /\ backlog' = [backlog EXCEPT ![a] = @ \ {v}]
    BY DEF Recover
  <1>2. PICK j : j = Job(v, stream[a][v], FALSE)
    OBVIOUS
  <1>3. Enqueue(a, j) /\ UNCHANGED <<stream, log, lock, forget, resumer, started>>
    BY <1>1, <1>2 DEF Recover, store, exec, history
  <1>4. j \in Jobs /\ j.ver = v
    <2>1. v \in Versions /\ stream[a][v] \in Kinds
      BY <1>0, <1>1, ShapeAt
    <2> QED
      BY <1>2, <2>1 DEF Job, Jobs
  <1>5. \A b \in Aggs : backlog'[b] \subseteq backlog[b]
    BY <1>0, <1>1 DEF Shape, StoreOK
  <1>6. ToCome(a, j.ver)
    BY <1>1, <1>4 DEF ToCome
  <1>7. ASSUME NEW b \in Aggs, Unlisted(b) PROVE ExecNarrows(b)
    BY <1>3, <1>5, <1>7, ExecSameNarrows
  <1> QED
    BY <1>3, <1>4, <1>6, <1>7, EnqueueTame

\* A Resume enqueues an event.
LEMMA RedeliverStraight ==
  ASSUME Good, ~DirtyReads, NEW r \in Resumers, NEW a \in Aggs, Redeliver(r, a),
         \A b \in Aggs : Straight(b)
  PROVE  \A b \in Aggs : Straight(b)'
  <1>0. Shape
    BY DEF Good
  <1>1. PICK v \in resumer[r].rest :
            /\ v \in DOMAIN stream[a]
            /\ Enqueue(a, Job(v, stream[a][v], FALSE))
            /\ resumer' = [resumer EXCEPT ![r].rest = @ \ {v}]
    BY DEF Redeliver
  <1>2. PICK j : j = Job(v, stream[a][v], FALSE)
    OBVIOUS
  <1>3. Enqueue(a, j) /\ lock[a] = r /\ UNCHANGED <<stream, log, lock, forget, backlog, started>>
    BY <1>1, <1>2 DEF Redeliver, store, exec, process, history
  <1>4. j \in Jobs /\ j.ver = v
    <2>1. v \in Versions /\ stream[a][v] \in Kinds
      BY <1>0, <1>1, ShapeAt
    <2> QED
      BY <1>2, <2>1 DEF Job, Jobs
  <1>5. \A q \in Resumers : /\ resumer'[q].parks = resumer[q].parks
                            /\ resumer'[q].scanned = resumer[q].scanned
                            /\ resumer'[q].rest \subseteq resumer[q].rest
    <2>1. resumer = [q \in Resumers |-> resumer[q]] /\ IsResumer(resumer[r])
      BY <1>0 DEF Shape, IInv, ResumersOK
    <2>2. PICK x : x = [resumer[r] EXCEPT !.rest = @ \ {v}]
      OBVIOUS
    <2>3. resumer' = [resumer EXCEPT ![r] = x]
      BY <1>1, <2>1, <2>2
    <2>4. x.parks = resumer[r].parks /\ x.scanned = resumer[r].scanned
          /\ x.rest \subseteq resumer[r].rest
      BY <2>1, <2>2 DEF IsResumer
    <2>5. resumer'[r] = x /\ \A q \in Resumers \ {r} : resumer'[q] = resumer[q]
      BY <2>1, <2>3
    <2> QED
      BY <2>4, <2>5
  <1>6. ToCome(a, j.ver)
    BY <1>1, <1>3, <1>4 DEF ToCome
  <1>7. ASSUME NEW b \in Aggs, Unlisted(b) PROVE ExecNarrows(b)
    <2>1. RecallsKept(b)
      BY <1>3, <1>5 DEF RecallsKept, Found
    <2>2. \A u \in Versions : InHand(b, u)' => InHand(b, u)
      BY <1>3 DEF InHand
    <2> QED
      BY <1>3, <1>7, <2>1, <2>2, ExecLessNarrows
  <1> QED
    BY <1>3, <1>4, <1>6, <1>7, EnqueueTame

\* A command or a Forget commits: the new event is later than all that was given.
LEMMA CommitStraight ==
  ASSUME Good, ~DirtyReads, NEW a \in Aggs,
         Commit(a, "live") \/ Commit(a, "durable") \/ WriteTombstone(a),
         \A b \in Aggs : Straight(b)
  PROVE  \A b \in Aggs : Straight(b)'
  <1>0. Shape
    BY DEF Good
  <1>1. PICK k \in Kinds, l \in {"command", "forget"} :
            /\ Len(stream[a]) < MaxVersion /\ stream' = [stream EXCEPT ![a] = Append(@, k)]
            /\ lock' = [lock EXCEPT ![a] = l]
            /\ UNCHANGED <<reg, worker, resumer, backlog, started>>
    <2>1. lock[a] = "tombstone" => Len(stream[a]) < MaxVersion
      BY <1>0 DEF Shape, ExecOK
    <2> QED
      BY <2>1 DEF Commit, WriteTombstone, Kinds, registry, process, history
  <1>2. \A b \in Aggs \ {a} : forget'[b] = forget[b]
    <2>1. UNCHANGED forget \/ \E x : forget' = [forget EXCEPT ![a] = x]
      BY DEF Commit, WriteTombstone
    <2> QED
      BY <1>0, <2>1 DEF Shape, ExecOK
  <1>3. /\ Len(stream'[a]) = Len(stream[a]) + 1 /\ Len(stream[a]) \in Nat
        /\ \A b \in Aggs \ {a} : stream'[b] = stream[b]
    BY <1>0, <1>1, AppendStream, ShapeAt
  <1>4. lock'[a] = l /\ \A b \in Aggs \ {a} : lock'[b] = lock[b]
    BY <1>0, <1>1 DEF Shape, ExecOK
  <1>5. /\ \A u : u \in Pending(a)' => u \in Pending(a) \/ u = Len(stream[a]) + 1
        /\ \A b \in Aggs \ {a} : Pending(b)' = Pending(b)
    BY <1>0, CommitPending, TombstonePending
  <1>6. ASSUME NEW b \in Aggs PROVE Straight(b)'
    <2>1. RecallsKept(b)
      BY <1>1, <1>4, ResumerNames, RecallsStay
    <2>2. \A u \in Versions : u \in backlog'[b] \/ u \in Pending(b)' \/ InHand(b, u)' =>
            ToCome(b, u) \/ Len(stream[b]) <= u
      <3>1. CASE b = a
        <4>1. \A u \in Versions : InHand(b, u)' => u = Len(stream[a]) + 1
          BY <1>3, <3>1 DEF InHand
        <4>2. Len(stream[b]) <= Len(stream[a]) + 1
          BY <1>3, <3>1
        <4> QED
          BY <1>1, <1>5, <3>1, <4>1, <4>2 DEF ToCome
      <3>2. CASE b # a
        <4>1. \A u \in Versions : InHand(b, u)' => InHand(b, u)
          BY <1>2, <1>3, <1>4, <3>2 DEF InHand
        <4> QED
          BY <1>1, <1>5, <3>2, <4>1 DEF ToCome
      <3> QED
        BY <3>1, <3>2
    <2>3. SameSeat(b)
      BY <1>1 DEF SameSeat
    <2> QED
      BY <2>1, <2>2, <2>3, SeatTame, TameStraight
  <1> QED
    BY <1>6

\* The Forget of a takes everything durable out of its queue and its park.
LEMMA SupersedesStraight ==
  ASSUME Good, ~DirtyReads, NEW a \in Aggs, ForgetSupersedes(a), \A b \in Aggs : Straight(b)
  PROVE  \A b \in Aggs : Straight(b)'
  <1>0. Shape
    BY DEF Good
  <1>1. /\ forget[a].st = "committed" /\ Supersede(a)
        /\ forget' = [forget EXCEPT ![a].st = "superseded"]
        /\ UNCHANGED <<stream, log, lock, resumer, backlog, started>>
    BY DEF ForgetSupersedes, ForgetAt, store, process, history
  <1>2. \A b \in Aggs \ {a} : forget'[b] = forget[b]
    BY <1>0, <1>1, ForgetMovesAt
  <1>3. Local(a)
    BY <1>0, <1>1, SupersedeEffect
  <1>4. /\ ~reg'[a].parked /\ reg'[a].undelivered = {}
        /\ ToSet(reg'[a].jobs) \subseteq ToSet(reg[a].jobs)
        /\ worker'[a].st = worker[a].st /\ worker'[a].job = worker[a].job
    <2>1. PICK r : /\ Unparked(r, reg'[a]) /\ Rehalted(a, Replaced(worker[a].halt, r))
                   /\ \/ r.jobs = reg[a].jobs
                      \/ ToSet(r.jobs) = {j \in ToSet(reg[a].jobs) : IsLive(j)}
      BY <1>0, <1>1, SupersedeEffect
    <2>2. ToSet(r.jobs) \subseteq ToSet(reg[a].jobs)
      BY <2>1
    <2> QED
      BY <2>1, <2>2 DEF Unparked, Rehalted
  <1>5. LineNarrows(a)
    <2>1. \A u : Waits(a, u)' => Waits(a, u)
      BY <1>4 DEF Waits
    <2>2. InDelivery(a)' => InDelivery(a)
      BY <1>4 DEF InDelivery
    <2> QED
      BY <1>4, <2>1, <2>2 DEF LineNarrows, ToCome
  <1>6. \A b \in Aggs : Unlisted(b)
    BY <1>3, <1>4, OnlyUnlisted DEF Local, Unlisted
  <1>7. ASSUME NEW b \in Aggs PROVE ExecNarrows(b)
    <2>1. RecallsKept(b)
      BY <1>1, RecallsStay
    <2>2. \A u \in Versions : InHand(b, u)' => InHand(b, u)
      BY <1>1, <1>2 DEF InHand
    <2> QED
      BY <1>1, <1>6, <2>1, <2>2, ExecLessNarrows
  <1>8. \A b \in Aggs : Tame(b)
    BY <1>1, <1>3, <1>5, <1>7, StepTame DEF Local
  <1> QED
    BY <1>8, TameStraight

\* Registry, workers and locks stay.
LEMMA QuietStraight ==
  ASSUME Good, ~DirtyReads, UNCHANGED <<stream, log, lock, reg, worker, resumer, backlog, started>>,
         \A b \in Aggs : Straight(b),
         \A b \in Aggs : forget'[b] = forget[b]
                         \/ forget'[b].st \notin {"committed", "superseded"}
  PROVE  \A b \in Aggs : Straight(b)'
  <1> TAKE b \in Aggs
  <1>1. RecallsKept(b) /\ SameSeat(b)
    BY RecallsStay DEF SameSeat
  <1>2. Pending(b)' = Pending(b)
    BY PendingSame
  <1>3. \A u \in Versions : InHand(b, u)' => InHand(b, u)
    BY DEF InHand
  <1>4. Tame(b)
    BY <1>1, <1>2, <1>3, SeatTame DEF ToCome
  <1> QED
    BY <1>4, TameStraight

\* The transaction of a tombstone begins, or is rolled back: only a lock changes.
LEMMA TransactionStraight ==
  ASSUME Good, ~DirtyReads, NEW a \in Aggs, BeginTombstone(a) \/ TombstoneFails(a),
         \A b \in Aggs : Straight(b)
  PROVE  \A b \in Aggs : Straight(b)'
  <1> TAKE b \in Aggs
  <1>0. Shape
    BY DEF Good
  <1>1. UNCHANGED <<stream, log, forget, reg, worker, resumer, backlog, started>>
    BY DEF BeginTombstone, TombstoneFails, store, registry, process, history
  <1>2. \E l \in {"free", "tombstone"} : lock' = [lock EXCEPT ![a] = l]
    BY DEF BeginTombstone, TombstoneFails
  <1>3. lock'[b] = lock[b] \/ lock'[b] \in {"free", "tombstone"}
    BY <1>0, <1>2 DEF Shape, ExecOK
  <1>4. RecallsKept(b) /\ SameSeat(b)
    BY <1>1, <1>3, ResumerNames, RecallsStay DEF SameSeat
  <1>5. Pending(b)' = Pending(b)
    BY <1>1, PendingSame
  <1>6. \A u \in Versions : InHand(b, u)' => InHand(b, u)
    BY <1>1, <1>3 DEF InHand
  <1>7. Tame(b)
    BY <1>1, <1>4, <1>5, <1>6, SeatTame DEF ToCome
  <1> QED
    BY <1>7, TameStraight

\* A Forget is awaited, fails or is over.
LEMMA AwaitStraight ==
  ASSUME Good, ~DirtyReads, NEW a \in Aggs, \A b \in Aggs : Straight(b),
         \/ AwaitTombstone(a) \/ ForgetClears(a)
         \/ Erase(a) /\ ForgetAt(a, "failed") /\ UNCHANGED <<store, history>>
  PROVE  \A b \in Aggs : Straight(b)'
  <1>1. UNCHANGED <<stream, log, lock, reg, worker, resumer, backlog, started>>
    BY DEF AwaitTombstone, ForgetClears, Erase, store, registry, process, history
  <1>2. \/ \E s \in {"erase", "failed"} : forget' = [forget EXCEPT ![a].st = s]
        \/ forget' = [forget EXCEPT ![a] = NoForget]
    BY DEF AwaitTombstone, ForgetClears, ForgetAt
  <1>3. \A b \in Aggs : forget'[b] = forget[b]
                        \/ forget'[b].st \notin {"committed", "superseded"}
    BY <1>2 DEF Good, Shape, ExecOK, NoForget
  <1> QED
    BY <1>1, <1>3, QuietStraight

\* The erasure succeeds: nothing of a is left in memory, and nothing has been given of it.
LEMMA EraseStraight ==
  ASSUME Good, ~DirtyReads, NEW a \in Aggs, Erase(a), ~ForgetAt(a, "failed"),
         \A b \in Aggs : Straight(b)
  PROVE  \A b \in Aggs : Straight(b)'
  <1>0. Shape
    BY DEF Good
  <1>1. /\ forget[a].st = "erase" /\ stream' = [stream EXCEPT ![a] = <<>>] /\ log' = WithoutAgg(a)
        /\ forget' = [forget EXCEPT ![a] = NoForget] /\ started' = [started EXCEPT ![a] = {}]
        /\ UNCHANGED <<lock, reg, worker, resumer, backlog>>
    BY DEF Erase, registry, process
  <1>2. /\ \A b \in Aggs \ {a} : stream'[b] = stream[b] /\ forget'[b] = forget[b]
        /\ started'[a] = {} /\ \A b \in Aggs \ {a} : started'[b] = started[b]
    BY <1>0, <1>1 DEF Good, HistoryOK, Shape, StoreOK, ExecOK
  <1>3. \A b \in Aggs \ {a} : Pending(b)' = Pending(b)
    BY <1>0, <1>1, ErasePending
  <1>4. Straight(a)'
    <2>1. worker[a].st \notin Led
      BY <1>1, ErasedIsDelivered DEF Led, Carrying, Delivering
    <2>2. Onward(a)'
      BY <1>2 DEF Onward
    <2> QED
      BY <1>1, <2>1, <2>2 DEF Straight
  <1>5. ASSUME NEW b \in Aggs \ {a} PROVE Straight(b)'
    <2>1. RecallsKept(b) /\ SameSeat(b)
      BY <1>1, <1>2, RecallsStay DEF SameSeat
    <2>2. \A u \in Versions : InHand(b, u)' => InHand(b, u)
      BY <1>1, <1>2 DEF InHand
    <2>3. Tame(b)
      BY <1>1, <1>3, <2>1, <2>2, SeatTame DEF ToCome
    <2> QED
      BY <2>3, TameStraight
  <1> QED
    BY <1>4, <1>5

\* A park, with the worker left alone.
LEMMA ParkedStraight ==
  ASSUME Good, ~DirtyReads, NEW a \in Aggs, NEW X, Park(a, X), \A u \in X : ToCome(a, u),
         UNCHANGED <<log, worker, started>>,
         \A b \in Aggs : Straight(b) /\ (Unlisted(b) => ExecNarrows(b))
  PROVE  \A b \in Aggs : Straight(b)'
  <1>1. Only(a) /\ Unlisted(a) /\ LineNarrows(a)
    <2>1. InDelivery(a)' => InDelivery(a)
      BY DEF InDelivery
    <2> QED
      BY <2>1, ParkNarrows
  <1>2. \A b \in Aggs : ExecNarrows(b)
    BY <1>1, OnlyUnlisted
  <1>3. \A b \in Aggs : Tame(b)
    BY <1>1, <1>2, StepTame
  <1> QED
    BY <1>3, TameStraight

\* A Forget that failed parks.
LEMMA ForgetParksStraight ==
  ASSUME Good, ~DirtyReads, NEW a \in Aggs, ForgetParks(a), \A b \in Aggs : Straight(b)
  PROVE  \A b \in Aggs : Straight(b)'
  <1>1. /\ forget' = [forget EXCEPT ![a].st = "parked"]
        /\ UNCHANGED <<stream, log, lock, worker, resumer, backlog, started>>
    BY DEF ForgetParks, ForgetAt, store, process, history
  <1>2. PICK X : X = {} /\ Park(a, X)
    BY DEF ForgetParks
  <1>3. forget'[a].st = "parked" /\ \A b \in Aggs \ {a} : forget'[b] = forget[b]
    BY <1>1, ForgetMovesAt DEF Good
  <1>4. ASSUME NEW b \in Aggs, Unlisted(b) PROVE ExecNarrows(b)
    <2>1. RecallsKept(b)
      BY <1>1, RecallsStay
    <2>2. \A u \in Versions : InHand(b, u)' => InHand(b, u)
      BY <1>1, <1>3 DEF InHand
    <2> QED
      BY <1>1, <1>4, <2>1, <2>2, ExecLessNarrows
  <1> QED
    BY <1>1, <1>2, <1>4, ParkedStraight

\* Recover fails for a.
LEMMA RecoverFailsStraight ==
  ASSUME Good, ~DirtyReads, NEW a \in Aggs, RecoverFails(a), \A b \in Aggs : Straight(b)
  PROVE  \A b \in Aggs : Straight(b)'
  <1>1. /\ backlog' = [backlog EXCEPT ![a] = {}]
        /\ UNCHANGED <<stream, log, lock, forget, worker, resumer, started>>
    BY DEF RecoverFails, store, exec, history
  <1>2. PICK X : X = backlog[a] /\ Park(a, X)
    BY DEF RecoverFails
  <1>3. \A b \in Aggs : backlog'[b] \subseteq backlog[b]
    BY <1>1 DEF Good, Shape, StoreOK
  <1>4. ASSUME NEW b \in Aggs, Unlisted(b) PROVE ExecNarrows(b)
    BY <1>1, <1>3, <1>4, ExecSameNarrows
  <1>5. \A u \in X : ToCome(a, u)
    BY <1>2 DEF ToCome
  <1> QED
    BY <1>1, <1>2, <1>4, <1>5, ParkedStraight

\* A Resume without a lock goes on.
LEMMA ResumerStraight ==
  ASSUME Good, ~DirtyReads, UNCHANGED <<stream, log, lock, forget, reg, worker, backlog, started>>,
         \A b \in Aggs : Straight(b) /\ RecallsKept(b)
  PROVE  \A b \in Aggs : Straight(b)'
  <1> TAKE b \in Aggs
  <1>1. SameSeat(b) /\ Pending(b)' = Pending(b)
    BY PendingSame DEF SameSeat
  <1>2. \A u \in Versions : InHand(b, u)' => InHand(b, u)
    BY DEF InHand
  <1>3. Tame(b)
    BY <1>1, <1>2, SeatTame DEF ToCome
  <1> QED
    BY <1>3, TameStraight

\* A Resume begins, or is abandoned.
LEMMA BeginResumeStraight ==
  ASSUME Good, ~DirtyReads, NEW r \in Resumers, ListParks(r) \/ AbandonResume(r),
         \A b \in Aggs : Straight(b)
  PROVE  \A b \in Aggs : Straight(b)'
  <1>1. /\ resumer[r].st # "redeliver"
        /\ UNCHANGED <<stream, log, lock, forget, reg, worker, backlog, started>>
    BY DEF ListParks, AbandonResume, store, exec, registry, process, history
  <1>2. PICK x : x.scanned = {} /\ resumer' = [resumer EXCEPT ![r] = x]
    <2>1. PICK y : y = [NoResumer EXCEPT !.st = "scan", !.parks = Parks, !.limit = Batch]
      OBVIOUS
    <2>2. PICK n : n = NoResumer
      OBVIOUS
    <2>3. y.scanned = {} /\ n.scanned = {}
      BY <2>1, <2>2 DEF NoResumer
    <2> QED
      BY <2>1, <2>2, <2>3 DEF ListParks, AbandonResume
  <1>3. resumer'[r] = x /\ Others(r)
    BY <1>2 DEF Good, Shape, IInv, ResumersOK, Others
  <1>4. ASSUME NEW b \in Aggs PROVE RecallsKept(b)
    <2>1. \A q \in Resumers \ {r} : resumer'[q] = resumer[q] /\ Found(q, b)' = Found(q, b)
      BY <1>3, OthersFound DEF Others
    <2>2. lock[b] # r
      BY <1>1, OneLock
    <2>3. Found(r, b)' = {}
      BY <1>2, <1>3 DEF Found
    <2> QED
      BY <1>1, <2>1, <2>2, <2>3 DEF RecallsKept
  <1> QED
    BY <1>1, <1>4, ResumerStraight

\* A Resume reads the log.
LEMMA ScanStraight ==
  ASSUME Good, ~DirtyReads, NEW r \in Resumers, Scan(r), \A b \in Aggs : Straight(b)
  PROVE  \A b \in Aggs : Straight(b)'
  <1>0. Shape
    BY DEF Good
  <1>1. /\ resumer[r].st = "scan"
        /\ UNCHANGED <<stream, log, lock, forget, reg, worker, backlog, started>>
    BY ScanReads DEF store, exec, registry, process, history
  <1>2. /\ Others(r) /\ resumer'[r].parks = resumer[r].parks
        /\ resumer'[r].scanned \subseteq resumer[r].scanned \cup ToSet(log)
    BY <1>0, ScanEffect DEF Others
  <1>3. ASSUME NEW b \in Aggs PROVE RecallsKept(b)
    <2>1. \A q \in Resumers \ {r} : resumer'[q] = resumer[q] /\ Found(q, b)' = Found(q, b)
      BY <1>2, OthersFound DEF Others
    <2>2. lock[b] # r
      BY <1>1, OneLock
    <2>3. \A v \in Versions : v \in Pending(b) <=> <<b, v>> \in ToSet(log)
      BY <1>0, PendingIsLogged DEF Shape
    <2>4. Found(r, b)' \subseteq Found(r, b) \cup Pending(b)
      BY <1>2, <2>3 DEF Found
    <2> QED
      BY <1>1, <1>2, <2>1, <2>2, <2>4 DEF RecallsKept
  <1> QED
    BY <1>1, <1>3, ResumerStraight

\* A Resume goes on to its next aggregate, with the lock of a given back.
LEMMA NextRecalls ==
  ASSUME Good, ~DirtyReads, NEW r \in Resumers, NEW a \in Aggs, NextAggregate(r, a), NEW b \in Aggs,
         lock'[b] # r, lock'[b] \in Resumers => lock'[b] = lock[b]
  PROVE  RecallsKept(b)
  <1>1. /\ Others(r)
        /\ \/ resumer'[r].parks[b] = 0
           \/ resumer'[r].parks = resumer[r].parks /\ Found(r, b)' = Found(r, b)
    BY NextAggregateMoves, FoundSame DEF Good
  <1>2. \A q \in Resumers \ {r} : resumer'[q] = resumer[q] /\ Found(q, b)' = Found(q, b)
    BY <1>1, OthersFound DEF Others
  <1> QED
    BY <1>1, <1>2 DEF RecallsKept

\* A Resume lifts the park it listed, or finds it gone.
LEMMA LiftStraight ==
  ASSUME Good, ~DirtyReads, NEW r \in Resumers, NEW a \in Aggs, LiftPark(r, a),
         \A b \in Aggs : Straight(b)
  PROVE  \A b \in Aggs : Straight(b)'
  <1>0. Shape
    BY DEF Good
  <1>1. /\ resumer[r].st = "lift" /\ lock[a] = "free"
        /\ UNCHANGED <<stream, log, forget, backlog, started>>
        /\ \A b \in Aggs : lock[b] # r
    BY OneLock DEF LiftPark, store, process, history
  <1>2. CASE ~IsPark(reg[a], resumer[r].parks[a])
    <2>1. NextAggregate(r, a) /\ UNCHANGED <<reg, lock, worker>>
      BY <1>2 DEF LiftPark, registry
    <2>2. \A b \in Aggs : RecallsKept(b)
      BY <1>1, <2>1, NextRecalls
    <2> QED
      BY <1>1, <2>1, <2>2, ResumerStraight
  <1>3. CASE IsPark(reg[a], resumer[r].parks[a])
    <2>1. Lift(a) /\ lock' = [lock EXCEPT ![a] = r]
      BY <1>3 DEF LiftPark
    <2>2. lock'[a] = r /\ \A b \in Aggs \ {a} : lock'[b] = lock[b]
      BY <1>0, <2>1 DEF Shape, ExecOK
    <2>3. /\ Local(a) /\ ~reg'[a].parked /\ reg'[a].undelivered = {} /\ reg'[a].jobs = reg[a].jobs
          /\ worker'[a].st = worker[a].st /\ worker'[a].job = worker[a].job
      BY <1>0, <2>1, LiftEffect DEF Unparked, Rehalted
    <2>4. /\ Others(r) /\ resumer'[r].parks = resumer[r].parks
          /\ resumer'[r].scanned = resumer[r].scanned
          /\ resumer'[r].rest = Found(r, a) \cup reg[a].undelivered
      BY <1>0, <1>3, LiftParkEffect DEF Others
    <2>5. LineNarrows(a)
      <3>1. \A u : Waits(a, u)' => Waits(a, u)
        BY <2>3 DEF Waits
      <3>2. InDelivery(a)' => InDelivery(a)
        BY <2>3 DEF InDelivery
      <3> QED
        BY <2>3, <3>1, <3>2 DEF LineNarrows, ToCome
    <2>6. \A b \in Aggs : Unlisted(b)
      BY <2>3, OnlyUnlisted DEF Local, Unlisted
    <2>7. ASSUME NEW b \in Aggs PROVE ExecNarrows(b)
      <3>1. \A u \in Versions : InHand(b, u)' => InHand(b, u)
        BY <1>1, <2>2, ResumerNames DEF InHand
      <3>2. CASE b # a
        <4>1. \A q \in Resumers \ {r} : resumer'[q] = resumer[q] /\ Found(q, b)' = Found(q, b)
          BY <2>4, OthersFound DEF Others
        <4>2. RecallsKept(b)
          BY <1>1, <2>2, <2>4, <3>2, <4>1, FoundSame DEF RecallsKept
        <4> QED
          BY <1>1, <2>6, <3>1, <4>2, ExecLessNarrows
      <3>3. CASE b = a
        <4>1. \A u \in resumer'[r].rest : ToCome(a, u)
          BY <1>3, <2>4 DEF ToCome
        <4>2. \A q \in Resumers : ~IsPark(reg'[a], resumer'[q].parks[a])
          BY <2>3 DEF IsPark
        <4>3. \A u \in Versions : u \in backlog'[b] \/ InHand(b, u)' => ToCome(b, u)
          BY <1>1, <3>1 DEF ToCome
        <4> QED
          BY <2>2, <3>3, <4>1, <4>2, <4>3 DEF ExecNarrows
      <3> QED
        BY <3>2, <3>3
    <2>8. \A b \in Aggs : Tame(b)
      BY <1>1, <2>3, <2>5, <2>7, StepTame DEF Local
    <2> QED
      BY <2>8, TameStraight
  <1> QED
    BY <1>2, <1>3

\* A Resume is done with a, or could not redeliver and parks it again.
LEMMA ReleaseStraight ==
  ASSUME Good, ~DirtyReads, NEW r \in Resumers, NEW a \in Aggs,
         Redelivered(r, a) \/ RedeliverFails(r, a),
         \A b \in Aggs : Straight(b)
  PROVE  \A b \in Aggs : Straight(b)'
  <1>0. Shape
    BY DEF Good
  <1>1. /\ lock[a] = r /\ lock' = [lock EXCEPT ![a] = "free"] /\ NextAggregate(r, a)
        /\ UNCHANGED <<stream, forget, worker, backlog, started>>
    BY DEF Redelivered, RedeliverFails, store, process, history
  <1>2. lock'[a] = "free" /\ \A b \in Aggs \ {a} : lock'[b] = lock[b] /\ lock[b] # r
    BY <1>0, <1>1, OneLock DEF Shape, ExecOK
  <1>3. ASSUME NEW b \in Aggs
        PROVE  RecallsKept(b) /\ \A u \in Versions : InHand(b, u)' => InHand(b, u)
    <2>1. lock'[b] # r /\ (lock'[b] \in Resumers => lock'[b] = lock[b])
      BY <1>2, ResumerNames
    <2> QED
      BY <1>1, <1>2, <2>1, NextRecalls DEF InHand
  <1>4. CASE Redelivered(r, a)
    <2>1. UNCHANGED reg /\ \A b \in Aggs : Pending(b)' = Pending(b)
      BY <1>0, <1>4, RedeliveredPending DEF Redelivered, registry
    <2>2. ASSUME NEW b \in Aggs PROVE Tame(b)
      <3>1. SameSeat(b)
        BY <1>1, <2>1 DEF SameSeat
      <3> QED
        BY <1>1, <1>3, <2>1, <3>1, SeatTame DEF ToCome
    <2> QED
      BY <2>2, TameStraight
  <1>5. CASE RedeliverFails(r, a)
    <2>1. PICK X : X = resumer[r].undelivered \cap resumer[r].rest /\ Park(a, X)
      BY <1>5 DEF RedeliverFails
    <2>2. UNCHANGED log /\ \A u \in X : ToCome(a, u)
      BY <1>1, <1>5, <2>1 DEF RedeliverFails, store, ToCome
    <2>3. ASSUME NEW b \in Aggs, Unlisted(b) PROVE ExecNarrows(b)
      BY <1>1, <1>3, <2>3, ExecLessNarrows
    <2> QED
      BY <1>1, <2>1, <2>2, <2>3, ParkedStraight
  <1> QED
    BY <1>4, <1>5

\* A crash: what may come is what the log still has.
LEMMA CrashStraight ==
  ASSUME Good, ~DirtyReads, Crash, \A b \in Aggs : Straight(b)
  PROVE  \A b \in Aggs : Straight(b)'
  <1> TAKE a \in Aggs
  <1>1. /\ UNCHANGED <<stream, log, started>> /\ lock'[a] = "free" /\ forget'[a].st = "none"
        /\ backlog'[a] = Pending(a)
    BY DEF Crash, NoForget, store
  <1>2. reg'[a].jobs = <<>> /\ ~reg'[a].parked /\ reg'[a].undelivered = {}
    BY AbsentShape DEF Crash
  <1>3. worker'[a].st = "none" /\ "none" \notin Led /\ "none" \notin Delivering \cup {"held"}
    BY NoWorkerOK DEF Crash, Led, Delivering
  <1>4. Pending(a)' = Pending(a)
    BY <1>1, PendingSame
  <1>5. \A u : ~Waits(a, u)' /\ ~InHand(a, u)'
    <2>1. \A j \in ToSet(reg'[a].jobs) : FALSE
      BY <1>2, ToSetEmpty
    <2> QED
      BY <1>1, <2>1 DEF Waits, InHand
  <1>6. ~InDelivery(a)'
    BY <1>3 DEF InDelivery
  <1>7. \A r \in Resumers : lock'[a] # r /\ ~IsPark(reg'[a], resumer'[r].parks[a])
    BY <1>1, <1>2, ResumerNames DEF IsPark
  <1>8. Narrows(a)
    BY <1>1, <1>2, <1>4, <1>5, <1>6, <1>7, NarrowsBy DEF ToCome
  <1>9. Tame(a)
    BY <1>1, <1>2, <1>3, <1>8 DEF Tame
  <1> QED
    BY <1>9, TameStraight

\* At first nothing has been given.
LEMMA InitStraight == Init => \A a \in Aggs : Straight(a)
  <1> SUFFICES ASSUME Init, NEW a \in Aggs PROVE Straight(a)
    OBVIOUS
  <1>1. started[a] = {} /\ ~reg[a].parked /\ reg[a].undelivered = {}
    BY AbsentShape DEF Init
  <1>2. worker[a].st = "none" /\ "none" \notin Led
    BY NoWorkerOK DEF Init, Led
  <1> QED
    BY <1>1, <1>2 DEF Straight, Onward

\* Every step keeps what may come in order.
LEMMA NextStraight ==
  ASSUME Good, ~DirtyReads, [Next]_vars, \A a \in Aggs : Straight(a)
  PROVE  \A a \in Aggs : Straight(a)'
  <1>1. ASSUME NEW a \in Aggs, ForgetStep(a) PROVE \A b \in Aggs : Straight(b)'
    <2>1. CASE Erase(a) /\ ~ForgetAt(a, "failed")
      BY <2>1, EraseStraight
    <2>2. CASE Erase(a) /\ ForgetAt(a, "failed")
      <3>1. forget'[a].st = "failed" /\ ~(forget' = [forget EXCEPT ![a] = NoForget])
        <4>1. forget'[a].st = "failed"
          BY <2>2, ForgetMovesAt DEF Good, ForgetAt
        <4> QED
          BY <4>1 DEF Good, Shape, ExecOK, NoForget
      <3>2. UNCHANGED <<store, history>>
        BY <2>2, <3>1 DEF Erase
      <3> QED
        BY <2>2, <3>2, AwaitStraight
    <2> QED
      BY <1>1, <2>1, <2>2, SupersedesStraight, EnqueueTombstoneStraight, AwaitStraight,
         ForgetParksStraight, CommitStraight, TransactionStraight DEF ForgetStep
  <1>2. ASSUME NEW r \in Resumers, ResumeStep(r) PROVE \A b \in Aggs : Straight(b)'
    BY <1>2, BeginResumeStraight, ScanStraight, LiftStraight, RedeliverStraight, ReleaseStraight
       DEF ResumeStep
  <1>3. CASE Recovered \/ Interrupt \/ CloseDispatcher \/ UNCHANGED vars
    <2>1. UNCHANGED <<stream, log, lock, forget, reg, worker, resumer, backlog, started>>
      BY <1>3 DEF Recovered, Interrupt, CloseDispatcher, vars, store, exec, registry, process,
                  history
    <2> QED
      BY <2>1, QuietStraight
  <1>4. CASE Progress
    BY <1>1, <1>2, <1>3, <1>4, EnqueueCommittedStraight, WorkerStraight, RecoverStraight,
       RecoverFailsStraight DEF Progress
  <1> QED
    BY <1>3, <1>4, CommitStraight, TransactionStraight, CrashStraight DEF Next

\* What may still be given to the handlers is never earlier than what they were given.
LEMMA InvarianceOfStraight ==
  ASSUME ~DirtyReads
  PROVE  Spec => [](Good /\ \A a \in Aggs : Straight(a))
  <1>1. Init => Good /\ \A a \in Aggs : Straight(a)
    BY InitGood, InitStraight
  <1>2. (Good /\ \A a \in Aggs : Straight(a)) /\ [Next]_vars =>
            (Good /\ \A a \in Aggs : Straight(a))'
    <2> SUFFICES ASSUME Good, \A a \in Aggs : Straight(a), [Next]_vars
                 PROVE  Good' /\ \A a \in Aggs : Straight(a)'
      OBVIOUS
    <2> QED
      BY NextGood, NextStraight
  <1> QED
    BY <1>1, <1>2, PTL DEF Spec

-----------------------------------------------------------------------------
(* Delivery implements the outbox.                                         *)

\* What is owed, as a function: when the log stays ...
LEMMA OwedSame ==
  ASSUME \A b \in Aggs : Pending(b)' = Pending(b)
  PROVE  [b \in Aggs |-> Pending(b)]' = [b \in Aggs |-> Pending(b)]
  OBVIOUS

\* ... and when that of one aggregate changes.
LEMMA OwedChanges ==
  ASSUME NEW a \in Aggs, NEW X, Pending(a)' = X,
         \A b \in Aggs \ {a} : Pending(b)' = Pending(b)
  PROVE  [b \in Aggs |-> Pending(b)]' = [[b \in Aggs |-> Pending(b)] EXCEPT ![a] = X]
  OBVIOUS

\* A step that neither commits, gives, accepts nor acknowledges.
LEMMA BoxRests ==
  ASSUME UNCHANGED <<stream, started, handled, letters>>, \A b \in Aggs : Pending(b)' = Pending(b)
  PROVE  UNCHANGED Box!outbox
  BY OwedSame DEF Box!outbox

\* The event of a worker past its first round: the last one given, and nothing owed is earlier.
LEMMA GivenInTurn ==
  ASSUME Good, ~DirtyReads, NEW a \in Aggs, Straight(a), worker[a].st \in Led
  PROVE  /\ worker[a].job.ver \in Versions /\ worker[a].job.ver \in started[a]
         /\ \A u \in started[a] : u <= worker[a].job.ver
         /\ \A u \in Pending(a) : worker[a].job.ver <= u
         /\ worker[a].job.kind = stream[a][worker[a].job.ver] /\ worker[a].job.kind # "live"
         /\ worker[a].job.ver \in DOMAIN stream[a]
  <1>0. Shape /\ Sound(a)
    BY DEF Good
  <1>1. worker[a].st \in Delivering /\ worker[a].st \in Carrying
    BY DEF Led, Delivering, Carrying
  <1>2. InDelivery(a) /\ IsAcked(worker[a].job)
    BY <1>0, <1>1, ShapeAt DEF InDelivery, IsWorker
  <1>3. worker[a].job.ver \in Versions /\ worker[a].job.ver \in started[a]
    BY <1>0, <1>1, JobVersions DEF Straight
  <1>4. \A u \in Pending(a) : u \in Versions
    BY <1>0, ShapeAt
  <1>5. /\ \A u \in started[a] : u <= worker[a].job.ver
        /\ \A u \in Pending(a) : worker[a].job.ver <= u
    BY <1>2, <1>3, <1>4 DEF Straight, Onward, ToCome
  <1>6. /\ worker[a].job.kind = stream[a][worker[a].job.ver]
        /\ worker[a].job.ver <= Len(stream[a])
    BY <1>0, <1>1 DEF Sound, Matched
  <1>7. worker[a].job.kind # "live"
    BY <1>2 DEF IsAcked, IsLive
  <1>8. worker[a].job.ver \in DOMAIN stream[a]
    BY <1>0, <1>3, <1>6, ShapeAt DEF Versions
  <1> QED
    BY <1>3, <1>5, <1>6, <1>7, <1>8

\* A round begins: the event is given to the handlers.
LEMMA TryGives ==
  ASSUME Good, ~DirtyReads, NEW a \in Aggs, NEW n, NEW subs, Try(a, n, subs), ~IsShut(a),
         worker[a].st \in {"deliver", "wait"}, UNCHANGED <<stream, log>>, Straight(a)
  PROVE  \E v \in Versions : Box!Give(a, v)
  <1>0. Shape /\ Sound(a) /\ HistoryOK
    BY DEF Good
  <1>1. worker[a].st \in Delivering /\ worker[a].st \in Carrying
    BY DEF Delivering, Carrying
  <1>2. InDelivery(a) /\ Working(a) /\ IsAcked(worker[a].job)
    BY <1>0, <1>1, ShapeAt DEF Working, InDelivery, IsWorker
  <1>3. PICK v \in Versions : v = worker[a].job.ver
    BY <1>0, <1>1, JobVersions
  <1>4. v \in DOMAIN stream[a] /\ stream[a][v] # "live"
    BY <1>0, <1>1, <1>2, <1>3, ShapeAt DEF Sound, Matched, IsAcked, IsLive, Versions
  <1>5. \A u \in Pending(a) : v <= u
    BY <1>2, <1>3, WorkingIsFirst
  <1>6. \A u \in started[a] : u <= v
    BY <1>2, <1>3 DEF Straight, Onward, ToCome
  <1>7. started' = [started EXCEPT ![a] = @ \cup {v}] /\ UNCHANGED <<handled, letters>>
    BY <1>3 DEF Try
  <1>8. [b \in Aggs |-> Pending(b)]' = [b \in Aggs |-> Pending(b)]
    BY PendingSame, OwedSame
  <1> QED
    BY <1>4, <1>5, <1>6, <1>7, <1>8 DEF Box!Give, Box!InTurn

\* A round ends: some handlers have accepted.
LEMMA AttemptAccepts ==
  ASSUME Good, ~DirtyReads, NEW a \in Aggs, NEW failed \in SUBSET Subs, Attempt(a, failed),
         Straight(a)
  PROVE  \E v \in Versions, subs \in SUBSET Subs : Box!Accept(a, v, subs)
  <1>0. Shape
    BY DEF Good
  <1>1. worker[a].st = "attempt" /\ UNCHANGED <<stream, log, letters, started>>
    BY DEF Attempt, store
  <1>2. worker[a].st \in Led
    BY <1>1 DEF Led
  <1>3. PICK v \in Versions : v = worker[a].job.ver
    BY <1>2, GivenInTurn
  <1>4. PICK s \in SUBSET Subs : s = worker[a].pending \ failed
    BY <1>0, ShapeAt DEF IsWorker
  <1>5. handled' = [handled EXCEPT ![a][v] = @ \cup s]
    BY <1>3, <1>4 DEF Attempt
  <1>6. [b \in Aggs |-> Pending(b)]' = [b \in Aggs |-> Pending(b)]
    BY <1>1, PendingSame, OwedSame
  <1>7. /\ v \in started[a] /\ \A u \in started[a] : u <= v
        /\ \A u \in Pending(a) : v <= u
    BY <1>2, <1>3, GivenInTurn
  <1> QED
    BY <1>1, <1>5, <1>6, <1>7 DEF Box!Accept, Box!InTurn

\* The dead-letter handler takes the event.
LEMMA DeadLetterLetters ==
  ASSUME Good, ~DirtyReads, NEW a \in Aggs, DeadLetter(a), Straight(a)
  PROVE  (\E v \in Versions : Box!Letter(a, v)) \/ UNCHANGED Box!outbox
  <1>0. Shape /\ Sound(a)
    BY DEF Good
  <1>1. worker[a].st = "letter" /\ UNCHANGED <<stream, log, handled, started>>
    BY DEF DeadLetter, store
  <1>2. worker[a].st \in Led
    BY <1>1 DEF Led
  <1>3. PICK v \in Versions : v = worker[a].job.ver
    BY <1>2, GivenInTurn
  <1>4. stream[a][v] = "durable"
    <2>1. stream[a][v] \in Kinds /\ stream[a][v] # "live" /\ stream[a][v] # "forget"
      BY <1>0, <1>1, <1>2, <1>3, GivenInTurn, ShapeAt DEF Sound, Handling
    <2> QED
      BY <2>1 DEF Kinds
  <1>5. /\ [b \in Aggs |-> Pending(b)]' = [b \in Aggs |-> Pending(b)]
        /\ \A b \in Aggs : Pending(b)' = Pending(b)
    BY <1>1, PendingSame, OwedSame
  <1>6. /\ v \in started[a] /\ \A u \in started[a] : u <= v
        /\ \A u \in Pending(a) : v <= u
    BY <1>2, <1>3, GivenInTurn
  <1>7. CASE letters' = [letters EXCEPT ![a] = @ \cup {worker[a].job.ver}]
    BY <1>1, <1>3, <1>4, <1>5, <1>6, <1>7 DEF Box!Letter, Box!InTurn
  <1>8. CASE UNCHANGED letters
    BY <1>1, <1>5, <1>8, BoxRests
  <1> QED
    BY <1>7, <1>8 DEF DeadLetter

\* An acknowledgement settles the event, unless its entry is gone.
LEMMA AckSettles ==
  ASSUME Good, ~DirtyReads, NEW a \in Aggs, Ack(a), Straight(a)
  PROVE  (\E v \in Versions : Box!Settle(a, v)) \/ UNCHANGED Box!outbox
  <1>0. Shape /\ Sound(a)
    BY DEF Good
  <1>1. worker[a].st = "ack" /\ UNCHANGED <<stream, handled, started, letters>>
    BY DEF Ack, history
  <1>2. worker[a].st \in Led
    BY <1>1 DEF Led
  <1>3. PICK v \in Versions : v = worker[a].job.ver
    BY <1>2, GivenInTurn
  <1>4. CASE UNCHANGED log
    BY <1>1, <1>4, PendingSame, BoxRests
  <1>5. CASE log' = Keep(log, ToSet(log) \ {<<a, worker[a].job.ver>>})
    <2>1. /\ \A u : u \in Pending(a)' <=> u \in Pending(a) /\ u # v
          /\ \A b \in Aggs \ {a} : Pending(b)' = Pending(b)
      BY <1>0, <1>3, <1>5, AckPending
    <2>2. CASE v \notin Pending(a)
      <3>1. \A b \in Aggs : Pending(b)' = Pending(b)
        BY <2>1, <2>2
      <3> QED
        BY <1>1, <3>1, BoxRests
    <2>3. CASE v \in Pending(a)
      <3>1. PICK X : X = Pending(a) \ {v}
        OBVIOUS
      <3>2. Pending(a)' = X
        BY <2>1, <3>1
      <3>3. [b \in Aggs |-> Pending(b)]' = [[b \in Aggs |-> Pending(b)] EXCEPT ![a] = X]
        BY <2>1, <3>2, OwedChanges
      <3>4. /\ v \in started[a] /\ \A u \in started[a] : u <= v
            /\ \A u \in Pending(a) : v <= u
        BY <1>2, <1>3, GivenInTurn
      <3>5. handled[a][v] = Subs \/ v \in letters[a]
        BY <1>0, <1>1, <1>3 DEF Sound, Handling
      <3>6. Box!Settle(a, v)
        BY <1>1, <2>3, <3>1, <3>3, <3>4, <3>5 DEF Box!Settle, Box!InTurn
      <3> QED
        BY <3>6
    <2> QED
      BY <2>2, <2>3
  <1> QED
    BY <1>4, <1>5 DEF Ack

\* A command publishes its event.
LEMMA CommitPublishes ==
  ASSUME Good, ~DirtyReads, NEW a \in Aggs, NEW kind \in {"live", "durable"}, Commit(a, kind)
  PROVE  Box!Publish(a, kind)
  <1>1. /\ stream' = [stream EXCEPT ![a] = Append(@, kind)]
        /\ UNCHANGED <<handled, letters, started>>
    BY DEF Commit, history
  <1>2. /\ \A v : v \in Pending(a)' <=>
                v \in Pending(a) \/ (kind = "durable" /\ v = Len(stream[a]) + 1)
        /\ \A b \in Aggs \ {a} : Pending(b)' = Pending(b)
    BY CommitPending DEF Good
  <1>3. CASE kind = "durable"
    <2>1. PICK X : X = Pending(a) \cup {Len(stream[a]) + 1}
      OBVIOUS
    <2>2. Pending(a)' = X
      BY <1>2, <1>3, <2>1
    <2>3. [b \in Aggs |-> Pending(b)]' = [[b \in Aggs |-> Pending(b)] EXCEPT ![a] = X]
      BY <1>2, <2>2, OwedChanges
    <2> QED
      BY <1>1, <1>3, <2>1, <2>3 DEF Box!Publish, Box!NewVersion
  <1>4. CASE kind = "live"
    <2>1. \A b \in Aggs : Pending(b)' = Pending(b)
      BY <1>2, <1>4
    <2>2. [b \in Aggs |-> Pending(b)]' = [b \in Aggs |-> Pending(b)]
      BY <2>1, OwedSame
    <2> QED
      BY <1>1, <1>4, <2>2 DEF Box!Publish
  <1> QED
    BY <1>3, <1>4

\* A Forget commits its marker.
LEMMA TombstoneMarks ==
  ASSUME Good, ~DirtyReads, NEW a \in Aggs, WriteTombstone(a)
  PROVE  Box!MarkDeleted(a)
  <1>1. /\ stream[a] # <<>> /\ stream' = [stream EXCEPT ![a] = Append(@, "forget")]
        /\ UNCHANGED <<handled, letters, started>>
    BY DEF WriteTombstone, history, Good, Shape, ExecOK
  <1>2. /\ \A v : v \in Pending(a)' <=> v = Len(stream[a]) + 1
        /\ \A b \in Aggs \ {a} : Pending(b)' = Pending(b)
    BY TombstonePending DEF Good
  <1>3. PICK X : X = {Len(stream[a]) + 1}
    OBVIOUS
  <1>4. Pending(a)' = X
    BY <1>2, <1>3
  <1>5. [b \in Aggs |-> Pending(b)]' = [[b \in Aggs |-> Pending(b)] EXCEPT ![a] = X]
    BY <1>2, <1>4, OwedChanges
  <1> QED
    BY <1>1, <1>3, <1>5 DEF Box!MarkDeleted, Box!NewVersion

\* A Forget erases the aggregate.
LEMMA EraseErases ==
  ASSUME Good, ~DirtyReads, NEW a \in Aggs, Erase(a)
  PROVE  Box!Erase(a) \/ UNCHANGED Box!outbox
  <1>1. CASE /\ stream' = [stream EXCEPT ![a] = <<>>] /\ log' = WithoutAgg(a)
             /\ handled' = [handled EXCEPT ![a] = [v \in Versions |-> {}]]
             /\ letters' = [letters EXCEPT ![a] = {}]
             /\ started' = [started EXCEPT ![a] = {}]
    <2>1. /\ forget[a].st = "erase" /\ Pending(a) = {} /\ handled[a][Len(stream[a])] = Subs
          /\ stream[a][Len(stream[a])] = "forget"
      BY ErasedIsDelivered DEF Erase
    <2>2. stream[a] # <<>>
      <3>1. Len(stream[a]) \in Versions
        BY <2>1, PastEnqueue
      <3> QED
        BY <3>1 DEF Versions
    <2>3. \A b \in Aggs : Pending(b)' = Pending(b)
      BY <1>1, <2>1, ErasePending DEF Good
    <2>4. [b \in Aggs |-> Pending(b)]' = [b \in Aggs |-> Pending(b)]
      BY <2>3, OwedSame
    <2> QED
      BY <1>1, <2>1, <2>2, <2>4 DEF Box!Erase, Box!Nobody
  <1>2. CASE UNCHANGED <<store, history>>
    BY <1>2, PendingSame, BoxRests DEF store, history
  <1> QED
    BY <1>1, <1>2 DEF Erase

\* A step of a worker gives, accepts, writes a letter, settles, or changes nothing.
LEMMA WorkerInBox ==
  ASSUME Good, ~DirtyReads, NEW a \in Aggs, WorkerStep(a), Straight(a)
  PROVE  [Box!Next]_(Box!outbox)
  <1>1. CASE \/ Pop(a) \/ Drained(a) \/ Woken(a) \/ Retire(a) \/ Stopped(a) \/ BeginDelivery(a)
             \/ GiveUp(a) \/ ParkIfCurrent(a) \/ Finish(a)
    <2>1. UNCHANGED <<stream, log, started, handled, letters>>
      BY <1>1 DEF Pop, Drained, Woken, Retire, Stopped, BeginDelivery, GiveUp, ParkIfCurrent,
                  Finish, store, history
    <2> QED
      BY <2>1, PendingSame, BoxRests
  <1>2. CASE Deliver(a) \/ Wait(a)
    <2>1. worker[a].st \in {"deliver", "wait"} /\ UNCHANGED <<stream, log>>
      BY <1>2 DEF Deliver, Wait, store
    <2>2. CASE UNCHANGED history
      BY <2>1, <2>2, PendingSame, BoxRests DEF history
    <2>3. ASSUME NEW n, NEW subs, ~IsShut(a), Try(a, n, subs) PROVE Box!Next
      BY <2>1, <2>3, TryGives DEF Box!Next
    <2>4. UNCHANGED history \/ \E n, subs : ~IsShut(a) /\ Try(a, n, subs)
      <3>1. CASE Deliver(a)
        BY <3>1 DEF Deliver
      <3>2. CASE Wait(a)
        BY <3>2 DEF Wait
      <3> QED
        BY <1>2, <3>1, <3>2
    <2> QED
      BY <2>2, <2>3, <2>4
  <1>3. ASSUME NEW failed \in SUBSET Subs, Attempt(a, failed) PROVE Box!Next
    BY <1>3, AttemptAccepts DEF Box!Next
  <1>4. CASE DeadLetter(a)
    BY <1>4, DeadLetterLetters DEF Box!Next
  <1>5. CASE Ack(a)
    BY <1>5, AckSettles DEF Box!Next
  <1> QED
    BY <1>1, <1>2, <1>3, <1>4, <1>5 DEF WorkerStep

\* Every step of the delivery is a step of the outbox, or none.
LEMMA NextInBox ==
  ASSUME Good, ~DirtyReads, \A a \in Aggs : Straight(a), [Next]_vars
  PROVE  [Box!Next]_(Box!outbox)
  <1>1. ASSUME NEW a \in Aggs, Commit(a, "live") \/ Commit(a, "durable") PROVE Box!Next
    BY <1>1, CommitPublishes DEF Box!Next
  <1>2. ASSUME NEW a \in Aggs, WriteTombstone(a) PROVE Box!Next
    BY <1>2, TombstoneMarks DEF Box!Next
  <1>3. ASSUME NEW a \in Aggs, Erase(a) PROVE [Box!Next]_(Box!outbox)
    BY <1>3, EraseErases DEF Box!Next
  <1>4. ASSUME UNCHANGED <<stream, log, started, handled, letters>>
        PROVE  UNCHANGED Box!outbox
    BY <1>4, PendingSame, BoxRests
  <1>5. ASSUME NEW a \in Aggs, ForgetStep(a) PROVE [Box!Next]_(Box!outbox)
    <2>1. CASE Erase(a)
      BY <1>3, <2>1
    <2>2. CASE ~Erase(a) /\ ~WriteTombstone(a)
      BY <1>4, <1>5, <2>2 DEF ForgetStep, TombstoneFails, ForgetSupersedes, EnqueueTombstone,
                              AwaitTombstone, ForgetParks, ForgetClears, store, history
    <2> QED
      BY <1>2, <2>1, <2>2
  <1>6. ASSUME NEW r \in Resumers, ResumeStep(r) PROVE UNCHANGED Box!outbox
    <2>1. ASSUME NEW a \in Aggs, Redelivered(r, a) PROVE UNCHANGED Box!outbox
      <3>1. UNCHANGED <<stream, started, handled, letters>>
        BY <2>1 DEF Redelivered, history
      <3> QED
        BY <2>1, <3>1, RedeliveredPending, BoxRests DEF Good
    <2>2. ASSUME NEW a \in Aggs, LiftPark(r, a) \/ Redeliver(r, a) \/ RedeliverFails(r, a)
          PROVE  UNCHANGED Box!outbox
      BY <1>4, <2>2 DEF LiftPark, Redeliver, RedeliverFails, store, history
    <2>3. CASE ListParks(r) \/ Scan(r) \/ AbandonResume(r)
      BY <1>4, <2>3, ScanReads DEF ListParks, AbandonResume, store, history
    <2> QED
      BY <1>6, <2>1, <2>2, <2>3 DEF ResumeStep
  <1>7. ASSUME NEW a \in Aggs, EnqueueCommitted(a) \/ Recover(a) \/ RecoverFails(a)
        PROVE  UNCHANGED Box!outbox
    BY <1>4, <1>7 DEF EnqueueCommitted, Recover, RecoverFails, store, history
  <1>8. CASE Recovered \/ Interrupt \/ CloseDispatcher \/ Crash \/ UNCHANGED vars
    BY <1>4, <1>8 DEF Recovered, Interrupt, CloseDispatcher, Crash, vars, store, history
  <1>9. CASE Progress
    BY <1>5, <1>6, <1>7, <1>8, <1>9, WorkerInBox DEF Progress
  <1>10. ASSUME NEW a \in Aggs, BeginTombstone(a) PROVE UNCHANGED Box!outbox
    BY <1>4, <1>10 DEF BeginTombstone, store, history
  <1> QED
    BY <1>1, <1>8, <1>9, <1>10 DEF Next

\* The log of pending deliveries is empty at first.
LEMMA InitInBox == Init => Box!Init
  <1> SUFFICES ASSUME Init PROVE Box!Init
    OBVIOUS
  <1>1. ASSUME NEW a \in Aggs PROVE Pending(a) = {}
    <2>1. \A v \in Pending(a) : v \in 1..Len(stream[a])
      BY InitGood, ShapeAt DEF Good
    <2>2. \A v \in 1..Len(stream[a]) : FALSE
      BY DEF Init
    <2> QED
      BY <2>1, <2>2
  <1>2. [a \in Aggs |-> Pending(a)] = [a \in Aggs |-> {}]
    BY <1>1
  <1> QED
    BY <1>2 DEF Init, Box!Init, Box!Nobody

(***************************************************************************)
(* Over a store that isolates its reads delivery is an outbox, for any     *)
(* aggregates, subscribers, resumers and bounds: a commit publishes, a     *)
(* round of handlers gives and accepts, an acknowledgement settles, the    *)
(* erase of a Forget erases, and every other step (queues, parks, lifts,   *)
(* scans, crashes, restarts) changes nothing that a subscriber sees. That  *)
(* what is given is in turn is the part that needs Straight: the log says  *)
(* what is owed, but only the queue, the park, the backlog, the executor   *)
(* and each Resume say what may still come (aggregate_registry.go,         *)
(* processor_recovery.go, exec_forget.go).                                 *)
(***************************************************************************)
THEOREM DeliveryRefinesOutbox ==
  ASSUME ~DirtyReads
  PROVE  Spec => ImplementsOutbox
  <1>1. (Good /\ \A a \in Aggs : Straight(a)) /\ [Next]_vars => [Box!Next]_(Box!outbox)
    BY NextInBox
  <1> QED
    BY <1>1, InitInBox, InvarianceOfStraight, PTL DEF Spec, ImplementsOutbox, Box!Spec

=============================================================================
