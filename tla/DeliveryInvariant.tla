------------------------- MODULE DeliveryInvariant --------------------------
(***************************************************************************)
(* The inductive invariant behind the delivery guarantees of Delivery, and *)
(* what the operations on one aggregate do to it.                          *)
(*                                                                         *)
(* Good is Shape, the types of the history, and for each aggregate Sound:  *)
(* twelve parts that say where every entry of the delivery log is, in which*)
(* order the line to the handlers stands, what a park and a lift leave to  *)
(* a Resume, and where a Forget is with its deletion marker.  Two of the   *)
(* parts (Guarded, Redelivering) are about the executor's lock; the others *)
(* hold of an aggregate whatever happens to the rest (UnmovedSound), so    *)
(* that a step is looked at only where it happens.  Three (Resumable,      *)
(* NoneBefore, InTurn) are stated for a store that isolates its reads: over*)
(* one that does not, a Resume can miss what an open transaction dropped.  *)
(***************************************************************************)
EXTENDS DeliveryProofs

-----------------------------------------------------------------------------
(* What the invariant speaks of, for an aggregate a.                       *)

\* The worker of a has a job with an Ack and has not come to the end of it.
InDelivery(a) == worker[a].st \in Delivering \cup {"held"} /\ IsAcked(worker[a].job)

\* ... and nobody has closed its halt channel.
Working(a) == InDelivery(a) /\ ~IsShut(a)

\* Event u of a waits in the queue.
Waits(a, u) == \E j \in ToSet(reg[a].jobs) : IsAcked(j) /\ j.ver = u

\* Event u of a is in the line of its worker: queued, or with the handlers.
InLine(a, u) == Waits(a, u) \/ (Working(a) /\ u = worker[a].job.ver)

\* Event u of a is committed and about to be enqueued.
InHand(a, u) ==
    /\ u = Len(stream[a])
    /\ lock[a] = "command" \/ forget[a].st \in {"committed", "superseded"}

\* No deletion marker of a is later than u.
Current(a, u) == \A t \in 1..Len(stream[a]) : stream[a][t] = "forget" => t <= u

\* Every durable event before u is accepted, or replaced by a marker up to u.
Cleared(a, u) ==
    \A v \in 1..Len(stream[a]) :
        stream[a][v] # "live" /\ v < u => Accepted(a, v) \/ SupersededBy(a, v, u)

\* The outcome of a's deletion marker.
Outcome(a) == ticket[a][forget[a].ver].final

-----------------------------------------------------------------------------
(* The invariant, part by part.                                            *)

HistoryOK ==
    /\ handled \in [Aggs -> [Versions -> SUBSET Subs]]
    /\ letters \in [Aggs -> SUBSET Versions]
    /\ started \in [Aggs -> SUBSET Versions]
    /\ ticket \in [Aggs -> [Versions ->
            [settled : {"no", "ok", "unrun"}, final : {"no", "ok", "err"}]]]

\* The lock, the fence and the marker of a Forget go together.
Guarded(a) ==
    /\ lock[a] = "forget" <=> forget[a].st \in {"committed", "superseded"}
    /\ lock[a] \in {"command", "tombstone"} => a \notin fence
    /\ forget[a].st # "none" <=> a \in fence
    /\ forget[a].st # "none" =>
            forget[a].ver = Len(stream[a]) /\ stream[a][Len(stream[a])] = "forget"
    /\ ~up => lock[a] = "free"

\* Only durable events are logged, and none that a marker has replaced.
Logged(a) ==
    /\ \A v \in Pending(a) : stream[a][v] # "live" /\ Current(a, v)
    /\ \A v \in backlog[a] : stream[a][v] # "live" /\ Current(a, v)

\* A Resume that has the lock of a redelivers a and nothing else.
Redelivering(a) ==
    \A r \in Resumers :
        /\ lock[a] = r => /\ resumer[r].st = "redeliver" /\ a \in resumer[r].todo
                          /\ \A b \in Aggs : lock[b] = r => b = a
        /\ ~up => resumer[r].st = "idle"

\* Jobs are events of the stream.
Matched(a) ==
    /\ \A j \in ToSet(reg[a].jobs) : j.ver <= Len(stream[a]) /\ j.kind = stream[a][j.ver]
    /\ worker[a].st \in Carrying =>
            worker[a].job.ver <= Len(stream[a]) /\ worker[a].job.kind = stream[a][worker[a].job.ver]
    /\ \A v \in started[a] \cup letters[a] : v <= Len(stream[a])

\* A park leaves no durable job in the queue and has stopped the worker.
Halted(a) ==
    /\ reg[a].parked => \A j \in ToSet(reg[a].jobs) : IsLive(j)
    /\ InDelivery(a) => worker[a].halt \in {"same", "shut"}
    /\ InDelivery(a) /\ reg[a].parked => IsShut(a)

\* The line is in the order of the stream, and what is still to come is behind it.
Ordered(a) ==
    /\ \A i, k \in DOMAIN reg[a].jobs :
            i < k /\ IsAcked(reg[a].jobs[i]) /\ IsAcked(reg[a].jobs[k])
                => reg[a].jobs[i].ver < reg[a].jobs[k].ver
    /\ Working(a) => \A u \in Versions : Waits(a, u) => worker[a].job.ver < u
    /\ \A u \in Versions : InLine(a, u) =>
        /\ \A v \in backlog[a] : u < v
        /\ \A v \in Versions : InHand(a, v) => u < v
        /\ \A r \in Resumers : lock[a] = r => \A v \in resumer[r].rest : u < v

\* The marker has not been delivered: it is at the end of the line ...
MarkerWaits(a) ==
    LET q == reg[a].jobs IN
    /\ q # <<>> /\ q[Len(q)] = Job(forget[a].ver, "forget", TRUE)
    /\ \A i \in 1..(Len(q) - 1) : IsLive(q[i]) /\ q[i].ver # forget[a].ver
    /\ ~Working(a)
    /\ worker[a].st \in Carrying => worker[a].job.ver # forget[a].ver
    /\ ~reg[a].parked /\ lock[a] = "free" /\ Pending(a) = {forget[a].ver}

\* ... or with the worker, alone.
MarkerInDelivery(a) ==
    /\ Working(a) /\ worker[a].job = Job(forget[a].ver, "forget", TRUE)
    /\ reg[a].jobs = <<>> /\ ~reg[a].parked /\ lock[a] = "free" /\ Pending(a) = {forget[a].ver}

\* Nothing of a is left in memory or in the log, and its marker is accepted.
MarkerDelivered(a) ==
    /\ reg[a].jobs = <<>> /\ ~reg[a].parked /\ lock[a] = "free" /\ Pending(a) = {}
    /\ handled[a][forget[a].ver] = Subs

MarkerEnds(a) ==
    /\ worker[a].st = "finish" /\ worker[a].job = Job(forget[a].ver, "forget", TRUE)
    /\ worker[a].ok => MarkerDelivered(a)

Fenced(a) ==
    /\ forget[a].st \in {"committed", "superseded"} =>
        /\ Pending(a) = {forget[a].ver} /\ Outcome(a) = "no"
        /\ \A j \in ToSet(reg[a].jobs) : j.ver # forget[a].ver
        /\ worker[a].st \in Carrying => worker[a].job.ver # forget[a].ver
    /\ forget[a].st = "superseded" =>
        /\ ~reg[a].parked /\ \A j \in ToSet(reg[a].jobs) : IsLive(j)
        /\ ~Working(a)
    /\ forget[a].st = "waiting" /\ Outcome(a) = "no" =>
        MarkerWaits(a) \/ MarkerInDelivery(a) \/ MarkerEnds(a)
    /\ forget[a].st = "erase" \/ (forget[a].st = "waiting" /\ Outcome(a) = "ok") =>
        MarkerDelivered(a) /\ worker[a].st \notin Carrying

\* What the handlers have accepted of the job of a's worker.
Handling(a) ==
    /\ worker[a].st \in {"attempt", "wait", "giveUp", "letter"} =>
            Subs \ worker[a].pending \subseteq handled[a][worker[a].job.ver]
    /\ worker[a].st = "letter" => worker[a].job.kind # "forget"
    /\ worker[a].st = "ack" =>
            \/ handled[a][worker[a].job.ver] = Subs
            \/ worker[a].job.ver \in letters[a] /\ worker[a].job.kind # "forget"

\* What has left the log is accepted, or a later marker has replaced it.
LeftAccepted(a) ==
    \A v \in 1..Len(stream[a]) : stream[a][v] # "live" /\ v \notin Pending(a) =>
        \/ SupersededBy(a, v, Len(stream[a]))
        \/ handled[a][v] = Subs
        \/ v \in letters[a] /\ stream[a][v] # "forget"

\* An entry of the log is in the line, in hand, or still to be enqueued.
Underway(a, v) ==
    \/ InLine(a, v) \/ InHand(a, v) \/ v \in backlog[a]
    \/ \E r \in Resumers : lock[a] = r /\ v \in resumer[r].rest

\* What a Resume will find when it comes to lift the park of a.
Resumable(a) == ~DirtyReads =>
    /\ ~reg[a].parked => \A v \in Pending(a) : Underway(a, v)
    /\ \A r \in Resumers :
        /\ resumer[r].st \in {"lift", "redeliver"} /\ a \in resumer[r].todo
        /\ IsPark(reg[a], resumer[r].parks[a])
        => \A v \in Pending(a) : v \in Found(r, a) \/ v \in reg[a].undelivered \/ InHand(a, v)

Due(a, u) == Current(a, u) \/ Cleared(a, u)

NoneBefore(a) ==
    ~DirtyReads /\ worker[a].st = "attempt" => \A v \in Pending(a) : worker[a].job.ver <= v

\* Nothing is given to a handler before its time.
InTurn(a) == ~DirtyReads =>
    /\ InDelivery(a) => Cleared(a, worker[a].job.ver)
    /\ \A u \in started[a] : Cleared(a, u)
    /\ forget[a].st # "committed" =>
        /\ \A u \in Versions : Waits(a, u) \/ u \in reg[a].undelivered => Due(a, u)
        /\ \A r \in Resumers : IsPark(reg[a], resumer[r].parks[a]) =>
                \A u \in Found(r, a) : Due(a, u)
    /\ \A r \in Resumers : lock[a] = r => \A u \in resumer[r].rest : Due(a, u)
    /\ forget[a].st = "committed" => \A u \in Versions : InLine(a, u) =>
            \A v \in 1..Len(stream[a]) : stream[a][v] # "live" /\ v < u =>
                InLine(a, v) \/ Accepted(a, v) \/ SupersededBy(a, v, u)

-----------------------------------------------------------------------------
(* The invariant of an aggregate, and what the shape says of it.           *)

Sound(a) ==
    /\ Guarded(a) /\ Logged(a) /\ Redelivering(a) /\ Matched(a) /\ Halted(a) /\ Ordered(a)
    /\ Fenced(a) /\ Handling(a) /\ LeftAccepted(a) /\ Resumable(a) /\ NoneBefore(a) /\ InTurn(a)

Good == Shape /\ HistoryOK /\ \A a \in Aggs : Sound(a)

\* What the shape of the state says of one aggregate.
LEMMA ShapeAt ==
  ASSUME Shape, NEW a \in Aggs
  PROVE  /\ stream[a] \in Seq(Kinds) /\ Len(stream[a]) \in Nat /\ Len(stream[a]) <= MaxVersion
         /\ DOMAIN stream[a] = 1..Len(stream[a]) /\ MaxVersion \in Nat
         /\ \A v \in 1..Len(stream[a]) : v \in Versions /\ stream[a][v] \in Kinds
         /\ \A v \in Pending(a) : v \in 1..Len(stream[a])
         /\ \A v \in backlog[a] : v \in 1..Len(stream[a])
         /\ IsWorker(worker[a]) /\ RecordOK(reg[a]) /\ QueueOK(reg[a]) /\ AttendedAt(a)
  <1>1. /\ stream[a] \in Seq(Kinds) /\ Len(stream[a]) <= MaxVersion /\ MaxVersion \in Nat
        /\ backlog[a] \subseteq Versions
    BY DeliveryConstants DEF Shape, StoreOK
  <1>2. Len(stream[a]) \in Nat /\ DOMAIN stream[a] = 1..Len(stream[a])
        /\ \A v \in 1..Len(stream[a]) : v \in Versions /\ stream[a][v] \in Kinds
    BY <1>1 DEF Versions
  <1>3. \A v \in Pending(a) : v \in 1..Len(stream[a])
    <2>1. StoreOK
      BY DEF Shape
    <2>2. \A v \in Pending(a) : v \in Versions /\ <<a, v>> \in ToSet(log)
      BY <2>1, PendingIsLogged
    <2>3. \A v \in Pending(a) : v <= Len(stream[a]) /\ v \in Versions
      BY <2>1, <2>2 DEF StoreOK
    <2> QED
      BY <1>2, <2>3 DEF Versions
  <1>4. \A v \in backlog[a] : v \in 1..Len(stream[a])
    BY <1>1, <1>2 DEF Shape, StoreOK, Versions
  <1>5. IsWorker(worker[a]) /\ RecordOK(reg[a]) /\ QueueOK(reg[a]) /\ AttendedAt(a)
    BY DEF Shape, WorkersOK, IInv, RegistryOK, QueuesOK, Attended
  <1> QED
    BY <1>1, <1>2, <1>3, <1>4, <1>5

\* A queued job and the job of a worker have a version.
LEMMA JobVersions ==
  ASSUME Shape, NEW a \in Aggs
  PROVE  /\ \A j \in ToSet(reg[a].jobs) : j \in Jobs /\ j.ver \in Versions /\ j.ver \in Nat
         /\ \A u : Waits(a, u) => u \in Versions
         /\ worker[a].st \in Carrying => worker[a].job \in Jobs /\ worker[a].job.ver \in Versions
         /\ InDelivery(a) => worker[a].st \in Carrying /\ worker[a].halt # "none"
         /\ \A u : InLine(a, u) => u \in Versions
  <1>1. \A j \in Jobs : j.ver \in Versions /\ j.ver \in Nat
    BY DEF Jobs, Versions
  <1>2. \A j \in ToSet(reg[a].jobs) : j \in Jobs
    BY ShapeAt DEF QueueOK, ToSet
  <1>3. \A u : Waits(a, u) => u \in Versions
    BY <1>1, <1>2 DEF Waits
  <1>4. worker[a].st \in Carrying => worker[a].job \in Jobs /\ worker[a].halt # "none"
    BY ShapeAt DEF IsWorker
  <1>5. InDelivery(a) => worker[a].st \in Carrying
    BY DEF InDelivery, Carrying
  <1>6. \A u : InLine(a, u) => u \in Versions
    BY <1>1, <1>3, <1>4, <1>5 DEF InLine, Working
  <1> QED
    BY <1>1, <1>2, <1>3, <1>4, <1>5, <1>6

-----------------------------------------------------------------------------
(* What a step leaves alone.                                               *)

\* The events of b, the executor's part of it, and the history of its deliveries.
SameStream(b) == stream'[b] = stream[b] /\ Pending(b)' = Pending(b) /\ backlog'[b] = backlog[b]
SameExec(b) == lock'[b] = lock[b] /\ forget'[b] = forget[b] /\ (b \in fence' <=> b \in fence)
SameHistory(b) == handled'[b] = handled[b] /\ letters'[b] = letters[b] /\ started'[b] = started[b]

\* The line of b stays: a worker that carries a job does not move.
SameLine(b) ==
    /\ reg'[b].jobs = reg[b].jobs /\ reg'[b].undelivered = reg[b].undelivered
    /\ SamePark(reg[b], reg'[b])
    /\ \/ worker'[b] = worker[b] /\ reg'[b].shut = reg[b].shut
       \/ worker[b].st \notin Carrying /\ worker'[b].st \notin Carrying

\* Nothing of b changes but what a Resume knows of it.
Unmoved(b) ==
    SameStream(b) /\ SameExec(b) /\ SameHistory(b) /\ SameLine(b) /\ ticket'[b] = ticket[b]

Elsewhere(a) == \A b \in Aggs \ {a} : Unmoved(b)

\* The calls of Resume go on where b is concerned, or drop it, or read the log.
ResumesKept(b) ==
    \A r \in Resumers :
        /\ lock[b] = r => resumer'[r].rest = resumer[r].rest
        /\ \/ resumer'[r].parks[b] = 0
           \/ Found(r, b)' = {} /\ resumer'[r].st \notin {"lift", "redeliver"}
           \/ /\ resumer'[r].parks[b] = resumer[r].parks[b]
              /\ Found(r, b) \subseteq Found(r, b)'
              /\ Found(r, b)' \subseteq Found(r, b) \cup Pending(b)
              /\ resumer'[r].st \in {"lift", "redeliver"} /\ b \in resumer'[r].todo =>
                    \/ resumer[r].st \in {"lift", "redeliver"} /\ b \in resumer[r].todo
                    \/ DirtyReads \/ Pending(b) \subseteq Found(r, b)'

\* The words about the stream keep their meaning while it stays.
LEMMA StreamWords ==
  ASSUME NEW b \in Aggs, stream'[b] = stream[b]
  PROVE  /\ \A u : Current(b, u)' <=> Current(b, u)
         /\ \A v, u : SupersededBy(b, v, u)' <=> SupersededBy(b, v, u)
         /\ lock'[b] = lock[b] /\ forget'[b] = forget[b] => \A u : InHand(b, u)' <=> InHand(b, u)
  BY DEF Current, SupersededBy, InHand

\* What is accepted stays accepted.
Remembers(b) ==
    /\ \A v \in Versions : handled[b][v] = Subs => handled'[b][v] = Subs
    /\ letters[b] \subseteq letters'[b]

\* What is cleared or due stays so while the stream stays and nothing is forgotten.
LEMMA ClearedStays ==
  ASSUME Shape, NEW b \in Aggs, stream'[b] = stream[b], Remembers(b)
  PROVE  /\ \A v \in 1..Len(stream[b]) : Accepted(b, v) => Accepted(b, v)'
         /\ \A u : Cleared(b, u) => Cleared(b, u)'
         /\ \A u : Due(b, u) => Due(b, u)'
  <1>1. \A v \in 1..Len(stream[b]) : Accepted(b, v) => Accepted(b, v)'
    BY ShapeAt DEF Accepted, Remembers
  <1>2. /\ \A u : Current(b, u)' <=> Current(b, u)
        /\ \A v, u : SupersededBy(b, v, u)' <=> SupersededBy(b, v, u)
    BY StreamWords
  <1>3. \A u : Cleared(b, u) => Cleared(b, u)'
    BY <1>1, <1>2 DEF Cleared
  <1> QED
    BY <1>1, <1>2, <1>3 DEF Due

\* The words about the line keep their meaning while it stays.
LEMMA LineWords ==
  ASSUME NEW b \in Aggs, SameLine(b)
  PROVE  /\ InDelivery(b)' <=> InDelivery(b)
         /\ Working(b)' <=> Working(b)
         /\ \A u : Waits(b, u)' <=> Waits(b, u)
         /\ \A u : InLine(b, u)' <=> InLine(b, u)
         /\ worker'[b].st \in Carrying <=> worker[b].st \in Carrying
         /\ worker[b].st \in Carrying => worker'[b] = worker[b]
         /\ InDelivery(b) => worker[b].st \in Carrying /\ (IsShut(b)' <=> IsShut(b))
  <1>1. /\ worker'[b].st \in Carrying <=> worker[b].st \in Carrying
        /\ worker[b].st \in Carrying => worker'[b] = worker[b] /\ reg'[b].shut = reg[b].shut
    BY DEF SameLine
  <1>2. /\ InDelivery(b) => worker[b].st \in Carrying
        /\ InDelivery(b)' => worker'[b].st \in Carrying
    BY DEF InDelivery, Carrying
  <1>3. InDelivery(b)' <=> InDelivery(b)
    BY <1>1, <1>2 DEF InDelivery
  <1>4. InDelivery(b) => (IsShut(b)' <=> IsShut(b))
    BY <1>1, <1>2 DEF IsShut, IsClosed
  <1>5. Working(b)' <=> Working(b)
    BY <1>3, <1>4 DEF Working
  <1>6. \A u : Waits(b, u)' <=> Waits(b, u)
    BY DEF Waits, SameLine
  <1>7. \A u : InLine(b, u)' <=> InLine(b, u)
    <2>1. Working(b) => worker'[b] = worker[b]
      BY <1>1, <1>2 DEF Working
    <2> QED
      BY <1>5, <1>6, <2>1 DEF InLine
  <1> QED
    BY <1>1, <1>2, <1>3, <1>4, <1>5, <1>6, <1>7

\* A park has a number, and 0 is none.
LEMMA ParkedHasNumber ==
  ASSUME Shape, NEW b \in Aggs, reg[b].parked
  PROVE  reg[b].gen # 0
  BY DEF Shape, IInv, GenerationsAreUnique

\* An aggregate that does not move keeps its invariant.
LEMMA UnmovedSound ==
  ASSUME Good, NEW b \in Aggs, Unmoved(b), ResumesKept(b)
  PROVE  /\ Logged(b)' /\ Matched(b)' /\ Halted(b)' /\ Ordered(b)'
         /\ Fenced(b)' /\ Handling(b)' /\ LeftAccepted(b)' /\ Resumable(b)' /\ NoneBefore(b)'
         /\ InTurn(b)'
  <1>0. Sound(b) /\ Shape
    BY DEF Good
  <1>u. SameStream(b) /\ SameExec(b) /\ SameHistory(b) /\ SameLine(b) /\ ticket'[b] = ticket[b]
    BY DEF Unmoved
  <1>v. /\ InDelivery(b)' <=> InDelivery(b)
        /\ Working(b)' <=> Working(b)
        /\ \A u : Waits(b, u)' <=> Waits(b, u)
        /\ \A u : InLine(b, u)' <=> InLine(b, u)
        /\ worker'[b].st \in Carrying <=> worker[b].st \in Carrying
        /\ worker[b].st \in Carrying => worker'[b] = worker[b]
        /\ InDelivery(b) => worker[b].st \in Carrying /\ (IsShut(b)' <=> IsShut(b))
    BY <1>u, LineWords
  <1>w. /\ \A u : InHand(b, u)' <=> InHand(b, u)
        /\ \A u : Current(b, u)' <=> Current(b, u)
        /\ \A v, u : SupersededBy(b, v, u)' <=> SupersededBy(b, v, u)
        /\ \A v : Accepted(b, v)' <=> Accepted(b, v)
    BY <1>u, StreamWords DEF SameStream, SameExec, SameHistory, Accepted
  <1>x. \A u : Cleared(b, u)' <=> Cleared(b, u)
    BY <1>u, <1>w DEF Cleared, SameStream
  <1>y. Outcome(b)' = Outcome(b)
    BY <1>u DEF Outcome, SameExec
  <1>1. Logged(b)'
    BY <1>0, <1>u, <1>w DEF Sound, Logged, SameStream
  <1>2. Matched(b)'
    BY <1>0, <1>u, <1>v DEF Sound, Matched, SameStream, SameHistory, SameLine
  <1>3. Halted(b)'
    BY <1>0, <1>u, <1>v DEF Sound, Halted, SameLine, SamePark
  <1>4. Ordered(b)'
    <2>1. Working(b) => worker'[b] = worker[b]
      BY <1>v DEF Working
    <2> QED
      BY <1>0, <1>u, <1>v, <1>w, <2>1
      DEF Sound, Ordered, SameStream, SameExec, SameLine, ResumesKept
  <1>5. Fenced(b)'
    <2>0. "finish" \in Carrying
      BY DEF Carrying
    <2>1. MarkerDelivered(b)' <=> MarkerDelivered(b)
      BY <1>u DEF MarkerDelivered, SameStream, SameExec, SameHistory, SameLine, SamePark
    <2>2. MarkerWaits(b)' <=> MarkerWaits(b)
      BY <1>u, <1>v DEF MarkerWaits, SameStream, SameExec, SameLine, SamePark
    <2>3. MarkerInDelivery(b)' <=> MarkerInDelivery(b)
      <3>1. Working(b) => worker'[b] = worker[b]
        BY <1>v DEF Working
      <3> QED
        BY <1>u, <1>v, <3>1 DEF MarkerInDelivery, SameStream, SameExec, SameLine, SamePark
    <2>4. MarkerEnds(b)' <=> MarkerEnds(b)
      BY <1>u, <1>v, <2>0, <2>1 DEF MarkerEnds, SameExec
    <2> QED
      BY <1>0, <1>u, <1>v, <1>y, <2>1, <2>2, <2>3, <2>4
      DEF Sound, Fenced, SameStream, SameExec, SameLine, SamePark
  <1>6. LeftAccepted(b)'
    BY <1>0, <1>u, <1>w DEF Sound, LeftAccepted, SameStream, SameHistory
  <1>9. Handling(b)'
    <2>1. \A s \in {"attempt", "wait", "giveUp", "letter", "ack"} : s \in Carrying
      BY DEF Carrying, Delivering
    <2> QED
      BY <1>0, <1>u, <1>v, <1>w, <2>1 DEF Sound, Handling, SameStream, SameHistory
  <1>p. \A r \in Resumers : IsPark(reg'[b], resumer'[r].parks[b]) =>
            \/ Found(r, b)' = {} /\ resumer'[r].st \notin {"lift", "redeliver"}
            \/ /\ IsPark(reg[b], resumer[r].parks[b])
               /\ Found(r, b) \subseteq Found(r, b)'
               /\ Found(r, b)' \subseteq Found(r, b) \cup Pending(b)
               /\ resumer'[r].st \in {"lift", "redeliver"} /\ b \in resumer'[r].todo =>
                    \/ resumer[r].st \in {"lift", "redeliver"} /\ b \in resumer[r].todo
                    \/ DirtyReads \/ Pending(b) \subseteq Found(r, b)'
    <2>1. reg[b].parked => reg[b].gen # 0
      BY <1>0, ParkedHasNumber
    <2> QED
      BY <1>u, <2>1 DEF IsPark, ResumesKept, SameLine, SamePark
  <1>7. Resumable(b)'
    <2> SUFFICES ASSUME ~DirtyReads PROVE Resumable(b)'
      BY DEF Resumable
    <2>1. ~reg'[b].parked => \A v \in Pending(b)' : Underway(b, v)'
      BY <1>0, <1>u, <1>v, <1>w
      DEF Sound, Resumable, Underway, SameStream, SameExec, SameLine, SamePark, ResumesKept
    <2>2. ASSUME NEW r \in Resumers, resumer'[r].st \in {"lift", "redeliver"},
                 b \in resumer'[r].todo, IsPark(reg'[b], resumer'[r].parks[b]),
                 NEW v \in Pending(b)'
          PROVE  v \in Found(r, b)' \/ v \in reg'[b].undelivered \/ InHand(b, v)'
      <3>1. v \in Pending(b) /\ reg'[b].undelivered = reg[b].undelivered
        BY <1>u DEF SameStream, SameLine
      <3>2. /\ IsPark(reg[b], resumer[r].parks[b]) /\ Found(r, b) \subseteq Found(r, b)'
            /\ \/ resumer[r].st \in {"lift", "redeliver"} /\ b \in resumer[r].todo
               \/ Pending(b) \subseteq Found(r, b)'
        BY <1>p, <2>2
      <3>3. CASE resumer[r].st \in {"lift", "redeliver"} /\ b \in resumer[r].todo
        <4>1. v \in Found(r, b) \/ v \in reg[b].undelivered \/ InHand(b, v)
          BY <1>0, <3>1, <3>2, <3>3 DEF Sound, Resumable
        <4> QED
          BY <1>w, <3>1, <3>2, <4>1
      <3>4. CASE Pending(b) \subseteq Found(r, b)'
        BY <3>1, <3>4
      <3> QED
        BY <3>2, <3>3, <3>4
    <2> QED
      BY <2>1, <2>2 DEF Resumable
  <1>8. InTurn(b)'
    <2> SUFFICES ASSUME ~DirtyReads PROVE InTurn(b)'
      BY DEF InTurn
    <2>0. \A u : Due(b, u)' <=> Due(b, u)
      BY <1>w, <1>x DEF Due
    <2>1. InDelivery(b)' => Cleared(b, worker[b].job.ver)'
      <3>1. InDelivery(b)' => worker'[b] = worker[b] /\ Cleared(b, worker[b].job.ver)
        BY <1>0, <1>v DEF Sound, InTurn
      <3> QED
        BY <1>x, <3>1
    <2>2. \A u \in started'[b] : Cleared(b, u)'
      BY <1>0, <1>u, <1>x DEF Sound, InTurn, SameHistory
    <2>4. forget'[b].st # "committed" =>
            \A u \in Versions : Waits(b, u)' \/ u \in reg'[b].undelivered => Due(b, u)'
      BY <1>0, <1>u, <1>v, <2>0 DEF Sound, InTurn, SameExec, SameLine
    <2>5. ASSUME forget'[b].st # "committed", NEW r \in Resumers,
                 IsPark(reg'[b], resumer'[r].parks[b]), NEW u \in Found(r, b)'
          PROVE  Due(b, u)'
      <3>1. IsPark(reg[b], resumer[r].parks[b]) /\ u \in Found(r, b) \cup Pending(b)
        BY <1>p, <2>5
      <3>2. CASE u \in Found(r, b)
        BY <1>0, <1>u, <2>0, <2>5, <3>1, <3>2 DEF Sound, InTurn, SameExec
      <3>3. CASE u \in Pending(b)
        BY <1>0, <2>0, <3>3 DEF Sound, Logged, Due
      <3> QED
        BY <3>1, <3>2, <3>3
    <2>6. \A r \in Resumers : lock'[b] = r => \A u \in resumer'[r].rest : Due(b, u)'
      BY <1>0, <1>u, <2>0 DEF Sound, InTurn, SameExec, ResumesKept
    <2>7. forget'[b].st = "committed" => \A u \in Versions : InLine(b, u)' =>
            \A v \in 1..Len(stream'[b]) : stream'[b][v] # "live" /\ v < u =>
                InLine(b, v)' \/ Accepted(b, v)' \/ SupersededBy(b, v, u)'
      BY <1>0, <1>u, <1>v, <1>w DEF Sound, InTurn, SameStream, SameExec
    <2> QED
      BY <2>1, <2>2, <2>4, <2>5, <2>6, <2>7 DEF InTurn
  <1>10. NoneBefore(b)'
    <2> SUFFICES ASSUME ~DirtyReads PROVE NoneBefore(b)'
      BY DEF NoneBefore
    <2>1. "attempt" \in Carrying
      BY DEF Carrying, Delivering
    <2> QED
      BY <1>0, <1>u, <1>v, <2>1 DEF Sound, NoneBefore, SameStream
  <1> QED
    BY <1>1, <1>2, <1>3, <1>4, <1>5, <1>6, <1>7, <1>8, <1>9, <1>10

-----------------------------------------------------------------------------
(* What a step does to the entries of the log.                             *)

\* Pending, read from the log of the next state.
LEMMA PendingNext ==
  ASSUME log' \in Seq(Aggs \X Versions)
  PROVE  \A b \in Aggs : \A v : v \in Pending(b)' <=> v \in Versions /\ <<b, v>> \in ToSet(log')
  <1>1. \A d : Contains(log', d) <=> d \in ToSet(log')
    BY DEF Contains, ToSet
  <1> QED
    BY <1>1 DEF Pending

\* The log does not change.
LEMMA PendingSame ==
  ASSUME UNCHANGED log
  PROVE  \A b \in Aggs : Pending(b)' = Pending(b)
  BY DEF Pending

\* Entries leave the log.
LEMMA PendingKept ==
  ASSUME Shape, NEW T, log' = Keep(log, T)
  PROVE  \A b \in Aggs : \A v : v \in Pending(b)' <=> v \in Pending(b) /\ <<b, v>> \in T
  <1>1. log' \in Seq(Aggs \X Versions) /\ ToSet(log') = ToSet(log) \cap T
    BY LogKept
  <1>2. \A b \in Aggs : \A v : v \in Pending(b)' <=> v \in Versions /\ <<b, v>> \in ToSet(log')
    BY <1>1, PendingNext
  <1>3. StoreOK
    BY DEF Shape
  <1>4. \A b \in Aggs : \A v : v \in Pending(b) <=> v \in Versions /\ <<b, v>> \in ToSet(log)
    BY <1>3, PendingIsLogged
  <1> QED
    BY <1>1, <1>2, <1>4

\* Of what is kept, the log is left with one more entry.
LEMMA PendingAdded ==
  ASSUME Shape, NEW T, NEW d, log' \in Seq(Aggs \X Versions),
         ToSet(log') = (ToSet(log) \cap T) \cup {d}
  PROVE  \A b \in Aggs : \A v \in Versions : v \in Pending(b)' <=>
            (v \in Pending(b) /\ <<b, v>> \in T) \/ <<b, v>> = d
  <1>2. \A b \in Aggs : \A v : v \in Pending(b)' <=> v \in Versions /\ <<b, v>> \in ToSet(log')
    BY PendingNext
  <1>3. StoreOK
    BY DEF Shape
  <1>4. \A b \in Aggs : \A v : v \in Pending(b) <=> v \in Versions /\ <<b, v>> \in ToSet(log)
    BY <1>3, PendingIsLogged
  <1> QED
    BY <1>2, <1>4

\* A commit adds the entry of its own event, if it is durable.
LEMMA CommitPending ==
  ASSUME Shape, NEW a \in Aggs, NEW kind \in {"live", "durable"}, Commit(a, kind)
  PROVE  /\ \A v : v \in Pending(a)' <=>
                v \in Pending(a) \/ (kind = "durable" /\ v = Len(stream[a]) + 1)
         /\ \A b \in Aggs \ {a} : Pending(b)' = Pending(b)
  <1>1. CASE kind = "live"
    <2>1. UNCHANGED log
      BY <1>1 DEF Commit
    <2> QED
      BY <1>1, <2>1, PendingSame
  <1>2. CASE kind = "durable"
    <2>0. Len(stream[a]) + 1 \in Versions /\ log \in Seq(Aggs \X Versions)
      BY ShapeAt DEF Commit, Versions, Shape, StoreOK
    <2>1. PICK u : u = Len(stream[a]) + 1
      OBVIOUS
    <2>2. PICK d : d = <<a, u>>
      OBVIOUS
    <2>3. log' = Append(log, d) /\ d \in Aggs \X Versions /\ u \in Versions
      BY <1>2, <2>0, <2>1, <2>2 DEF Commit
    <2>4. log' \in Seq(Aggs \X Versions) /\ ToSet(log') = ToSet(log) \cup {d}
      BY <2>0, <2>3, ToSetAppend
    <2>5. ToSet(log') = (ToSet(log) \cap ToSet(log)) \cup {d}
      BY <2>4
    <2>6. \A b \in Aggs : \A v \in Versions : v \in Pending(b)' <=>
            (v \in Pending(b) /\ <<b, v>> \in ToSet(log)) \/ <<b, v>> = d
      BY <2>4, <2>5, PendingAdded
    <2>7. \A b \in Aggs : \A v \in Pending(b) : v \in Versions /\ <<b, v>> \in ToSet(log)
      <3>1. StoreOK
        BY DEF Shape
      <3> QED
        BY <3>1, PendingIsLogged
    <2>8. \A b \in Aggs : Pending(b)' \subseteq Versions
      BY DEF Pending
    <2> QED
      BY <1>2, <2>1, <2>2, <2>3, <2>6, <2>7, <2>8
  <1> QED
    BY <1>1, <1>2

\* A deletion marker replaces the entries of its aggregate.
LEMMA TombstonePending ==
  ASSUME Shape, NEW a \in Aggs, WriteTombstone(a)
  PROVE  /\ \A v : v \in Pending(a)' <=> v = Len(stream[a]) + 1
         /\ \A b \in Aggs \ {a} : Pending(b)' = Pending(b)
  <1>1. PICK s : s = WithoutAgg(a)
    OBVIOUS
  <1>2. PICK u : u = Len(stream[a]) + 1
    OBVIOUS
  <1>3. PICK d : d = <<a, u>>
    OBVIOUS
  <1>4. PICK T : T = {e \in ToSet(log) : e[1] # a}
    OBVIOUS
  <1>5. log \in Seq(Aggs \X Versions)
    BY DEF Shape, StoreOK
  <1>6. s \in Seq(Aggs \X Versions) /\ ToSet(s) = ToSet(log) \cap T
    BY <1>1, <1>4, <1>5, KeepProperties DEF WithoutAgg
  <1>7. log' = Append(s, d) /\ d \in Aggs \X Versions /\ u \in Versions
    <2>1. lock[a] = "tombstone" /\ log' = Append(s, d)
      BY <1>1, <1>2, <1>3 DEF WriteTombstone
    <2>2. Len(stream[a]) \in Nat /\ Len(stream[a]) < MaxVersion /\ MaxVersion \in Nat
      BY <2>1, ShapeAt DEF Shape, ExecOK
    <2> QED
      BY <1>2, <1>3, <2>1, <2>2 DEF Versions
  <1>8. log' \in Seq(Aggs \X Versions) /\ ToSet(log') = (ToSet(log) \cap T) \cup {d}
    BY <1>6, <1>7, ToSetAppend
  <1>9. \A b \in Aggs : \A v \in Versions : v \in Pending(b)' <=>
          (v \in Pending(b) /\ <<b, v>> \in T) \/ <<b, v>> = d
    BY <1>8, PendingAdded
  <1>10. \A b \in Aggs : \A v \in Pending(b) : v \in Versions /\ (<<b, v>> \in T <=> b # a)
    <2>1. StoreOK
      BY DEF Shape
    <2>2. \A b \in Aggs : \A v \in Pending(b) : v \in Versions /\ <<b, v>> \in ToSet(log)
      BY <2>1, PendingIsLogged
    <2> QED
      BY <1>4, <2>2
  <1>11. \A b \in Aggs : Pending(b)' \subseteq Versions
    BY DEF Pending
  <1> QED
    BY <1>2, <1>3, <1>7, <1>9, <1>10, <1>11

\* An ack removes its entry and no other.
LEMMA AckPending ==
  ASSUME Shape, NEW a \in Aggs, NEW u, log' = Keep(log, ToSet(log) \ {<<a, u>>})
  PROVE  /\ \A v : v \in Pending(a)' <=> v \in Pending(a) /\ v # u
         /\ \A b \in Aggs \ {a} : Pending(b)' = Pending(b)
  <1>1. \A b \in Aggs : \A v : v \in Pending(b)' <=>
            v \in Pending(b) /\ <<b, v>> \in ToSet(log) \ {<<a, u>>}
    BY PendingKept
  <1>2. StoreOK
    BY DEF Shape
  <1>3. \A b \in Aggs : \A v \in Pending(b) : <<b, v>> \in ToSet(log)
    BY <1>2, PendingIsLogged
  <1> QED
    BY <1>1, <1>3

\* The end of a redelivery drops entries of no event, of which there are none.
LEMMA RedeliveredPending ==
  ASSUME Shape, NEW r \in Resumers, NEW a \in Aggs, Redelivered(r, a)
  PROVE  \A b \in Aggs : Pending(b)' = Pending(b)
  <1>1. PICK T : T = {d \in ToSet(log) : ~(d[1] = a /\ d[2] \in resumer[r].rest)}
    OBVIOUS
  <1>2. log' = Keep(log, T)
    BY <1>1 DEF Redelivered
  <1>3. \A b \in Aggs : \A v : v \in Pending(b)' <=> v \in Pending(b) /\ <<b, v>> \in T
    BY <1>2, PendingKept
  <1>4. StoreOK
    BY DEF Shape
  <1>5. \A b \in Aggs : \A v \in Pending(b) : <<b, v>> \in ToSet(log)
    BY <1>4, PendingIsLogged
  <1>6. \A v \in Pending(a) : v \notin resumer[r].rest
    BY ShapeAt DEF Redelivered
  <1>7. \A b \in Aggs : \A v \in Pending(b) : <<b, v>> \in T
    BY <1>1, <1>5, <1>6
  <1> QED
    BY <1>3, <1>7

\* The erasure drops the entries of its aggregate.
LEMMA ErasePending ==
  ASSUME Shape, NEW a \in Aggs, log' = WithoutAgg(a)
  PROVE  /\ Pending(a)' = {}
         /\ \A b \in Aggs \ {a} : Pending(b)' = Pending(b)
  <1>1. PICK T : T = {d \in ToSet(log) : d[1] # a}
    OBVIOUS
  <1>2. \A b \in Aggs : \A v : v \in Pending(b)' <=> v \in Pending(b) /\ <<b, v>> \in T
    BY <1>1, PendingKept DEF WithoutAgg
  <1>4. StoreOK
    BY DEF Shape
  <1>5. \A b \in Aggs : \A v \in Pending(b) : <<b, v>> \in ToSet(log)
    BY <1>4, PendingIsLogged
  <1> QED
    BY <1>1, <1>2, <1>5

-----------------------------------------------------------------------------
(* Tickets and history.                                                    *)

Tickets == [settled : {"no", "ok", "unrun"}, final : {"no", "ok", "err"}]

\* What Settle and Complete do to a ticket.
LEMMA TicketOK ==
  ASSUME NEW t \in Tickets, NEW s \in {"ok", "unrun"}, NEW f \in {"ok", "err"}
  PROVE  /\ Settle(t, s) \in Tickets /\ Settle(t, s).final = t.final
         /\ Complete(t, f) \in Tickets
         /\ Complete(t, f).final = IF t.final = "no" THEN f ELSE t.final
         /\ OpenTicket \in Tickets /\ OpenTicket.final = "no"
  BY DEF Tickets, Settle, Complete, OpenTicket

\* Of the tickets of a only those of versions X change, and none to "ok".
Spoils(a, X) ==
    /\ ticket' \in [Aggs -> [Versions -> Tickets]]
    /\ \A b \in Aggs \ {a} : ticket'[b] = ticket[b]
    /\ \A v \in Versions :
        /\ v \notin X => ticket'[a][v] = ticket[a][v]
        /\ ticket'[a][v].final \in {ticket[a][v].final, "err"}

\* One ticket of a changes.
Marks(a, u, t) ==
    /\ ticket' \in [Aggs -> [Versions -> Tickets]]
    /\ \A b \in Aggs \ {a} : ticket'[b] = ticket[b]
    /\ \A v \in Versions : ticket'[a][v] = IF v = u THEN t ELSE ticket[a][v]

\* The history has tickets for every event.
LEMMA TicketTypes == HistoryOK => ticket \in [Aggs -> [Versions -> Tickets]]
  BY DEF HistoryOK, Tickets

\* Tickets that stay are not spoilt.
LEMMA TicketsSame ==
  ASSUME HistoryOK, NEW a \in Aggs, UNCHANGED ticket
  PROVE  Spoils(a, {})
  BY TicketTypes DEF Spoils

\* One ticket is written.
LEMMA MarksOne ==
  ASSUME HistoryOK, NEW a \in Aggs, NEW u \in Versions, NEW t \in Tickets,
         ticket' = [ticket EXCEPT ![a][u] = t]
  PROVE  Marks(a, u, t)
  <1>1. ticket \in [Aggs -> [Versions -> Tickets]]
    BY TicketTypes
  <1> HIDE DEF Tickets
  <1>2. ticket' \in [Aggs -> [Versions -> Tickets]] /\ \A b \in Aggs \ {a} : ticket'[b] = ticket[b]
    BY <1>1
  <1>3. \A v \in Versions : ticket'[a][v] = IF v = u THEN t ELSE ticket[a][v]
    BY <1>1
  <1> QED
    BY <1>2, <1>3 DEF Marks

\* The tickets of jobs that a park drops are spoilt.
LEMMA UnrunSpoils ==
  ASSUME HistoryOK, NEW a \in Aggs, NEW X, ticket' = UnrunTickets(a, X)
  PROVE  Spoils(a, X)
  <1>1. ticket \in [Aggs -> [Versions -> Tickets]]
    BY TicketTypes
  <1>2. PICK f : f = [v \in Versions |-> IF v \in X
                                         THEN Complete(Settle(ticket[a][v], "unrun"), "err")
                                         ELSE ticket[a][v]]
    OBVIOUS
  <1>3. ticket' = [ticket EXCEPT ![a] = f]
    BY <1>1, <1>2 DEF UnrunTickets
  <1>4. ASSUME NEW v \in Versions
        PROVE  /\ f[v] \in Tickets /\ (v \notin X => f[v] = ticket[a][v])
               /\ f[v].final \in {ticket[a][v].final, "err"}
    <2>1. ticket[a][v] \in Tickets
      BY <1>1
    <2>2. PICK s : s = Settle(ticket[a][v], "unrun")
      OBVIOUS
    <2>3. s \in Tickets /\ s.final = ticket[a][v].final
      BY <2>1, <2>2, TicketOK
    <2>4. Complete(s, "err") \in Tickets /\ Complete(s, "err").final \in {s.final, "err"}
      BY <2>3, TicketOK
    <2> QED
      BY <1>2, <2>1, <2>2, <2>3, <2>4
  <1>5. f \in [Versions -> Tickets]
    BY <1>2, <1>4
  <1> HIDE DEF Tickets
  <1>6. ticket' \in [Aggs -> [Versions -> Tickets]] /\ ticket'[a] = f
        /\ \A b \in Aggs \ {a} : ticket'[b] = ticket[b]
    BY <1>1, <1>3, <1>5
  <1> QED
    BY <1>4, <1>6 DEF Spoils

\* Enqueue and Park spoil tickets of the job and of the jobs they take out.
LEMMA EnqueueSpoils ==
  ASSUME HistoryOK, NEW a \in Aggs, NEW j, Enqueue(a, j)
  PROVE  Spoils(a, {j.ver}) /\ (~Refuses(reg[a], j) => UNCHANGED ticket)
  <1>1. CASE j.fresh /\ Refuses(reg[a], j)
    BY <1>1, UnrunSpoils DEF Enqueue
  <1>2. CASE ~(j.fresh /\ Refuses(reg[a], j))
    <2>1. UNCHANGED ticket
      BY <1>2 DEF Enqueue
    <2> QED
      BY <2>1, TicketsSame DEF Spoils
  <1> QED
    BY <1>1, <1>2

\* A park and a supersession spoil no ticket but those of queued jobs.
LEMMA ParkSpoils ==
  ASSUME Shape, HistoryOK, NEW a \in Aggs, NEW versions,
         Park(a, versions) \/ Supersede(a)
  PROVE  Spoils(a, {j.ver : j \in ToSet(reg[a].jobs)})
  <1>1. PICK X : X = {j.ver : j \in ToSet(reg[a].jobs)}
    OBVIOUS
  <1>2. PICK Y : Y = VersionsOf(reg[a].jobs, FirstDispatch)
    OBVIOUS
  <1>3. ticket' = ticket \/ ticket' = UnrunTickets(a, Y)
    BY <1>2, Zenon DEF Park, Supersede
  <1>4. Spoils(a, {}) \/ Spoils(a, Y)
    BY <1>3, TicketsSame, UnrunSpoils
  <1>5. Y \subseteq X
    BY <1>1, <1>2, Zenon DEF VersionsOf, ToSet
  <1>6. Spoils(a, X)
    BY <1>4, <1>5 DEF Spoils
  <1> QED
    BY <1>1, <1>6

\* Spoiling keeps the tickets tickets, and those of other aggregates.
LEMMA SpoilsTypes ==
  ASSUME NEW a \in Aggs, NEW X, Spoils(a, X)
  PROVE  /\ ticket' \in [Aggs -> [Versions -> Tickets]]
         /\ \A b \in Aggs \ {a} : ticket'[b] = ticket[b]
  BY DEF Spoils

-----------------------------------------------------------------------------
(* Parts of the invariant that most steps at a leave alone.                *)

\* Logged needs only that stream and log do not grow.
LEMMA LoggedKept ==
  ASSUME NEW a \in Aggs, Logged(a), stream'[a] = stream[a], backlog'[a] \subseteq backlog[a],
         \A v \in Pending(a)' : v \in Pending(a)
  PROVE  Logged(a)'
  BY StreamWords DEF Logged

\* Matched needs only jobs and versions that were there before.
LEMMA MatchedKept ==
  ASSUME Shape, NEW a \in Aggs, Matched(a), stream'[a] = stream[a],
         \A j \in ToSet(reg'[a].jobs) : \/ j \in ToSet(reg[a].jobs)
                                        \/ j.ver <= Len(stream[a]) /\ j.kind = stream[a][j.ver],
         worker'[a].st \in Carrying =>
            \/ worker[a].st \in Carrying /\ worker'[a].job = worker[a].job
            \/ worker'[a].job \in ToSet(reg[a].jobs),
         \A v \in started'[a] \cup letters'[a] :
            v \in started[a] \cup letters[a] \/ (worker[a].st \in Carrying /\ v = worker[a].job.ver)
  PROVE  Matched(a)'
  BY DEF Matched

\* LeftAccepted needs only that no entry leaves the log and nothing is forgotten.
LEMMA LeftKept ==
  ASSUME Shape, NEW a \in Aggs, LeftAccepted(a), stream'[a] = stream[a], Remembers(a),
         \A v \in Pending(a) : v \in Pending(a)'
  PROVE  LeftAccepted(a)'
  BY ShapeAt, StreamWords DEF LeftAccepted, Remembers

\* Nothing of a is in line.
Quiet(a) == (\A j \in ToSet(reg[a].jobs) : IsLive(j)) /\ ~Working(a)

\* A quiet aggregate has nothing in line.
LEMMA QuietLine ==
  ASSUME Shape, NEW a \in Aggs, Quiet(a)
  PROVE  \A u : ~Waits(a, u) /\ ~InLine(a, u)
  BY DEF Quiet, Waits, InLine, IsAcked

\* ... and so in the next state.
LEMMA QuietNext ==
  ASSUME NEW a \in Aggs, Quiet(a)', reg'[a].jobs \in Seq(Jobs)
  PROVE  Ordered(a)' /\ \A u : ~Waits(a, u)' /\ ~InLine(a, u)'
  <1>1. \A u : ~Waits(a, u)' /\ ~InLine(a, u)'
    BY DEF Quiet, Waits, InLine, IsAcked
  <1>2. \A i \in DOMAIN reg'[a].jobs : IsLive(reg'[a].jobs[i])
    BY DEF Quiet, ToSet
  <1> QED
    BY <1>1, <1>2 DEF Ordered, Quiet, IsAcked

\* No Resume has listed a park that is made now.
LEMMA NewPark ==
  ASSUME Shape, NEW a \in Aggs, reg'[a].gen = generation + 1, NEW r \in Resumers,
         resumer'[r].parks[a] = 0 \/ resumer'[r].parks[a] = resumer[r].parks[a]
  PROVE  ~IsPark(reg'[a], resumer'[r].parks[a])
  <1>1. generation \in Nat /\ resumer[r].parks[a] <= generation /\ resumer[r].parks[a] \in Nat
    BY DEF Shape, IInv, RegistryOK, ResumersOK, IsResumer, GenerationsAreUnique
  <1> QED
    BY <1>1 DEF IsPark

\* The markers' outcomes after a step that may only spoil tickets.
LEMMA OutcomeSpoilt ==
  ASSUME Shape, NEW a \in Aggs, NEW X, Spoils(a, X), forget[a].st # "none",
         forget'[a].ver = forget[a].ver
  PROVE  /\ Outcome(a)' \in {Outcome(a), "err"}
         /\ forget[a].ver \notin X => Outcome(a)' = Outcome(a)
  <1>1. forget[a].ver \in Versions
    BY DEF Shape, ExecOK
  <1> QED
    BY <1>1 DEF Outcome, Spoils

-----------------------------------------------------------------------------
(* The worker of a goes on with its delivery.                              *)

CarriesOn(a) ==
    /\ SameStream(a) /\ SameExec(a) /\ UNCHANGED resumer
    /\ reg'[a] = reg[a]
    /\ worker[a].st \in Delivering \cup {"held"} /\ IsAcked(worker[a].job)
    /\ worker'[a].st \in Delivering
    /\ worker'[a].job = worker[a].job /\ worker'[a].halt = worker[a].halt
    /\ Remembers(a)
    /\ \A v \in started'[a] \cup letters'[a] :
            v \in started[a] \cup letters[a] \/ v = worker[a].job.ver
    /\ \A v \in Versions : ticket'[a][v].final = ticket[a][v].final

\* The words about the line while the worker goes on.
LEMMA CarryWords ==
  ASSUME NEW a \in Aggs, CarriesOn(a)
  PROVE  /\ InDelivery(a) /\ InDelivery(a)'
         /\ worker[a].st \in Carrying /\ worker'[a].st \in Carrying
         /\ worker[a].st # "finish" /\ worker'[a].st # "finish"
         /\ IsShut(a)' <=> IsShut(a)
         /\ Working(a)' <=> Working(a)
         /\ \A u : Waits(a, u)' <=> Waits(a, u)
         /\ \A u : InLine(a, u)' <=> InLine(a, u)
  <1>1. /\ InDelivery(a) /\ InDelivery(a)'
        /\ worker[a].st \in Carrying /\ worker'[a].st \in Carrying
        /\ worker[a].st # "finish" /\ worker'[a].st # "finish"
    BY DEF CarriesOn, InDelivery, Carrying, Delivering
  <1>2. IsShut(a)' <=> IsShut(a)
    BY DEF CarriesOn, IsShut, IsClosed
  <1>3. Working(a)' <=> Working(a)
    BY <1>1, <1>2 DEF Working
  <1>4. \A u : Waits(a, u)' <=> Waits(a, u)
    BY DEF CarriesOn, Waits
  <1>5. \A u : InLine(a, u)' <=> InLine(a, u)
    BY <1>3, <1>4 DEF InLine, CarriesOn
  <1> QED
    BY <1>1, <1>2, <1>3, <1>4, <1>5

\* A worker that goes on with its delivery keeps the invariant.
LEMMA CarrySound ==
  ASSUME Good, NEW a \in Aggs, CarriesOn(a),
         \A u \in started'[a] : u \in started[a] \/ u = worker[a].job.ver
  PROVE  /\ Logged(a)' /\ Matched(a)' /\ Halted(a)' /\ Ordered(a)' /\ Fenced(a)'
         /\ LeftAccepted(a)' /\ Resumable(a)' /\ InTurn(a)'
  <1>0. Sound(a) /\ Shape
    BY DEF Good
  <1>u. /\ SameStream(a) /\ SameExec(a) /\ UNCHANGED resumer /\ reg'[a] = reg[a]
        /\ worker'[a].job = worker[a].job /\ worker'[a].halt = worker[a].halt /\ Remembers(a)
    BY DEF CarriesOn
  <1>v. /\ InDelivery(a) /\ InDelivery(a)'
        /\ worker[a].st \in Carrying /\ worker'[a].st \in Carrying
        /\ worker[a].st # "finish" /\ worker'[a].st # "finish"
        /\ IsShut(a)' <=> IsShut(a)
        /\ Working(a)' <=> Working(a)
        /\ \A u : Waits(a, u)' <=> Waits(a, u)
        /\ \A u : InLine(a, u)' <=> InLine(a, u)
    BY CarryWords
  <1>w. /\ \A u : InHand(a, u)' <=> InHand(a, u)
        /\ \A v, u : SupersededBy(a, v, u)' <=> SupersededBy(a, v, u)
        /\ \A v \in 1..Len(stream[a]) : Accepted(a, v) => Accepted(a, v)'
        /\ \A u : Cleared(a, u) => Cleared(a, u)'
        /\ \A u : Due(a, u) => Due(a, u)'
    BY <1>0, <1>u, StreamWords, ClearedStays DEF SameStream, SameExec
  <1>1. Logged(a)'
    BY <1>0, <1>u, LoggedKept DEF Sound, SameStream
  <1>2. Matched(a)'
    <2>1. \A v \in started'[a] \cup letters'[a] : v \in started[a] \cup letters[a]
                \/ (worker[a].st \in Carrying /\ v = worker[a].job.ver)
      BY <1>v DEF CarriesOn
    <2> QED
      BY <1>0, <1>u, <1>v, <2>1, MatchedKept DEF Sound, SameStream
  <1>3. Halted(a)'
    BY <1>0, <1>u, <1>v DEF Sound, Halted
  <1>4. Ordered(a)'
    BY <1>0, <1>u, <1>v, <1>w DEF Sound, Ordered, SameStream, SameExec
  <1>5. Fenced(a)'
    <2>1. forget[a].st # "none" => Outcome(a)' = Outcome(a)
      BY <1>0, <1>u DEF Shape, ExecOK, Outcome, SameExec, CarriesOn
    <2>2. MarkerWaits(a) => MarkerWaits(a)'
      BY <1>u, <1>v DEF MarkerWaits, SameStream, SameExec
    <2>3. MarkerInDelivery(a) => MarkerInDelivery(a)'
      BY <1>u, <1>v DEF MarkerInDelivery, SameStream, SameExec
    <2>4. ~MarkerEnds(a)
      BY <1>v DEF MarkerEnds
    <2> QED
      BY <1>0, <1>u, <1>v, <2>1, <2>2, <2>3, <2>4 DEF Sound, Fenced, SameStream, SameExec
  <1>6. LeftAccepted(a)'
    BY <1>0, <1>u, LeftKept DEF Sound, SameStream
  <1>7. Resumable(a)'
    <2> SUFFICES ASSUME ~DirtyReads PROVE Resumable(a)'
      BY DEF Resumable
    <2>1. \A r \in Resumers : Found(r, a)' = Found(r, a)
      BY <1>u DEF Found
    <2>2. \A v : Underway(a, v) => Underway(a, v)'
      BY <1>u, <1>v, <1>w DEF Underway, SameStream, SameExec
    <2> QED
      BY <1>0, <1>u, <1>w, <2>1, <2>2 DEF Sound, Resumable, SameStream
  <1>8. InTurn(a)'
    <2> SUFFICES ASSUME ~DirtyReads PROVE InTurn(a)'
      BY DEF InTurn
    <2>1. InDelivery(a)' => Cleared(a, worker[a].job.ver)'
      <3>1. worker'[a].job = worker[a].job /\ Cleared(a, worker[a].job.ver)
        BY <1>0, <1>u, <1>v DEF Sound, InTurn
      <3> QED
        BY <1>w, <3>1
    <2>2. \A u \in started'[a] : Cleared(a, u)'
      BY <1>0, <1>v, <1>w DEF Sound, InTurn
    <2>3. \A r \in Resumers : Found(r, a)' = Found(r, a)
      BY <1>u DEF Found
    <2>4. forget'[a].st # "committed" =>
            /\ \A u \in Versions : Waits(a, u)' \/ u \in reg'[a].undelivered => Due(a, u)'
            /\ \A r \in Resumers : IsPark(reg'[a], resumer'[r].parks[a]) =>
                    \A u \in Found(r, a)' : Due(a, u)'
      BY <1>0, <1>u, <1>v, <1>w, <2>3 DEF Sound, InTurn, SameExec
    <2>5. \A r \in Resumers : lock'[a] = r => \A u \in resumer'[r].rest : Due(a, u)'
      BY <1>0, <1>u, <1>w DEF Sound, InTurn, SameExec
    <2>6. forget'[a].st = "committed" => \A u \in Versions : InLine(a, u)' =>
            \A v \in 1..Len(stream'[a]) : stream'[a][v] # "live" /\ v < u =>
                InLine(a, v)' \/ Accepted(a, v)' \/ SupersededBy(a, v, u)'
      BY <1>0, <1>u, <1>v, <1>w DEF Sound, InTurn, SameStream, SameExec
    <2> QED
      BY <2>1, <2>2, <2>4, <2>5, <2>6 DEF InTurn
  <1> QED
    BY <1>1, <1>2, <1>3, <1>4, <1>5, <1>6, <1>7, <1>8

\* No entry of the log is before the job of a worker that nobody has stopped.
LEMMA WorkingIsFirst ==
  ASSUME Good, NEW a \in Aggs, Working(a)
  PROVE  /\ ~reg[a].parked
         /\ ~DirtyReads => \A v \in Pending(a) : worker[a].job.ver <= v
  <1>0. Sound(a) /\ Shape
    BY DEF Good
  <1>1. ~reg[a].parked
    BY <1>0 DEF Sound, Halted, Working
  <1>2. InLine(a, worker[a].job.ver) /\ worker[a].job.ver \in Versions
    BY <1>0, JobVersions DEF InLine, Working
  <1>3. ASSUME ~DirtyReads, NEW v \in Pending(a)
        PROVE  worker[a].job.ver <= v
    <2>1. Underway(a, v) /\ v \in Versions
      BY <1>0, <1>1, <1>3, ShapeAt DEF Sound, Resumable
    <2>2. worker[a].job.ver \in Nat /\ v \in Nat
      BY <1>2, <2>1 DEF Versions
    <2>3. v = worker[a].job.ver \/ worker[a].job.ver < v
      BY <1>0, <1>2, <2>1 DEF Sound, Ordered, Underway, InLine
    <2> QED
      BY <2>2, <2>3
  <1> QED
    BY <1>1, <1>3

-----------------------------------------------------------------------------
(* What a Resume will find, and whose turn it is, after a step at a.       *)

\* Resumable, when no more is pending and the calls of Resume stay.
LEMMA ResumableKept ==
  ASSUME Good, NEW a \in Aggs, \A v \in Pending(a)' : v \in Pending(a),
         ~reg'[a].parked => ~reg[a].parked,
         ~reg'[a].parked => \A v \in Pending(a)' : Underway(a, v) => Underway(a, v)',
         \A r \in Resumers :
            /\ resumer'[r].st \in {"lift", "redeliver"} /\ a \in resumer'[r].todo
            /\ IsPark(reg'[a], resumer'[r].parks[a])
            => /\ resumer[r].st \in {"lift", "redeliver"} /\ a \in resumer[r].todo
               /\ IsPark(reg[a], resumer[r].parks[a]) /\ Found(r, a)' = Found(r, a)
               /\ \A v \in Pending(a)' : InHand(a, v) =>
                        InHand(a, v)' \/ v \in reg'[a].undelivered
               /\ reg[a].undelivered \subseteq reg'[a].undelivered
  PROVE  Resumable(a)'
  <1> SUFFICES ASSUME ~DirtyReads PROVE Resumable(a)'
    BY DEF Resumable
  <1>0. Sound(a)
    BY DEF Good
  <1>1. ~reg'[a].parked => \A v \in Pending(a)' : Underway(a, v)'
    BY <1>0 DEF Sound, Resumable
  <1>2. ASSUME NEW r \in Resumers, resumer'[r].st \in {"lift", "redeliver"},
               a \in resumer'[r].todo, IsPark(reg'[a], resumer'[r].parks[a]),
               NEW v \in Pending(a)'
        PROVE  v \in Found(r, a)' \/ v \in reg'[a].undelivered \/ InHand(a, v)'
    <2>1. /\ resumer[r].st \in {"lift", "redeliver"} /\ a \in resumer[r].todo
          /\ IsPark(reg[a], resumer[r].parks[a]) /\ Found(r, a)' = Found(r, a)
          /\ InHand(a, v) => InHand(a, v)' \/ v \in reg'[a].undelivered
          /\ reg[a].undelivered \subseteq reg'[a].undelivered
      BY <1>2
    <2>2. v \in Pending(a)
      OBVIOUS
    <2>3. v \in Found(r, a) \/ v \in reg[a].undelivered \/ InHand(a, v)
      BY <1>0, <2>1, <2>2 DEF Sound, Resumable
    <2> QED
      BY <2>1, <2>3
  <1> QED
    BY <1>1, <1>2 DEF Resumable

\* InTurn, when nothing enters the line and the calls of Resume stay.
LEMMA InTurnKept ==
  ASSUME Good, NEW a \in Aggs, stream'[a] = stream[a], Remembers(a),
         InDelivery(a)' => InDelivery(a) /\ worker'[a].job = worker[a].job,
         \A u \in started'[a] : u \in started[a],
         forget'[a].st = "committed" <=> forget[a].st = "committed",
         forget[a].st # "committed" =>
            \A u \in Versions : Waits(a, u)' \/ u \in reg'[a].undelivered =>
                Waits(a, u) \/ u \in reg[a].undelivered \/ Due(a, u),
         \A r \in Resumers : IsPark(reg'[a], resumer'[r].parks[a]) =>
            IsPark(reg[a], resumer[r].parks[a]) /\ Found(r, a)' \subseteq Found(r, a),
         \A r \in Resumers : lock'[a] = r =>
            \A u \in resumer'[r].rest : Due(a, u) \/ (lock[a] = r /\ u \in resumer[r].rest),
         forget[a].st = "committed" =>
            \/ \A u \in Versions : ~InLine(a, u)'
            \/ /\ \A u \in Versions : InLine(a, u)' => InLine(a, u)
               /\ \A v \in Versions : InLine(a, v) => InLine(a, v)' \/ Accepted(a, v)'
  PROVE  InTurn(a)'
  <1> SUFFICES ASSUME ~DirtyReads PROVE InTurn(a)'
    BY DEF InTurn
  <1>0. Sound(a) /\ Shape
    BY DEF Good
  <1>w. /\ \A v, u : SupersededBy(a, v, u)' <=> SupersededBy(a, v, u)
        /\ \A v \in 1..Len(stream[a]) : Accepted(a, v) => Accepted(a, v)'
        /\ \A u : Cleared(a, u) => Cleared(a, u)'
        /\ \A u : Due(a, u) => Due(a, u)'
    BY <1>0, StreamWords, ClearedStays
  <1>1. InDelivery(a)' => Cleared(a, worker[a].job.ver)'
    <2>1. InDelivery(a)' => worker'[a].job = worker[a].job /\ Cleared(a, worker[a].job.ver)
      BY <1>0 DEF Sound, InTurn
    <2> QED
      BY <1>w, <2>1
  <1>2. \A u \in started'[a] : Cleared(a, u)'
    BY <1>0, <1>w DEF Sound, InTurn
  <1>4. forget'[a].st # "committed" =>
          \A u \in Versions : Waits(a, u)' \/ u \in reg'[a].undelivered => Due(a, u)'
    BY <1>0, <1>w DEF Sound, InTurn
  <1>3. forget'[a].st # "committed" =>
          \A r \in Resumers : IsPark(reg'[a], resumer'[r].parks[a]) =>
                  \A u \in Found(r, a)' : Due(a, u)'
    BY <1>0, <1>w DEF Sound, InTurn
  <1>5. \A r \in Resumers : lock'[a] = r => \A u \in resumer'[r].rest : Due(a, u)'
    BY <1>0, <1>w DEF Sound, InTurn
  <1>6. ASSUME forget'[a].st = "committed", NEW u \in Versions, InLine(a, u)',
               NEW v \in 1..Len(stream'[a]), stream'[a][v] # "live", v < u
        PROVE  InLine(a, v)' \/ Accepted(a, v)' \/ SupersededBy(a, v, u)'
    <2>1. /\ \A x \in Versions : InLine(a, x)' => InLine(a, x)
          /\ \A x \in Versions : InLine(a, x) => InLine(a, x)' \/ Accepted(a, x)'
      BY <1>6
    <2>2. InLine(a, v) \/ Accepted(a, v) \/ SupersededBy(a, v, u)
      BY <1>0, <1>6, <2>1 DEF Sound, InTurn
    <2>3. v \in Versions
      BY <1>0, ShapeAt
    <2> QED
      BY <1>w, <2>1, <2>2, <2>3
  <1> QED
    BY <1>1, <1>2, <1>3, <1>4, <1>5, <1>6 DEF InTurn

\* No Resume learns anything.
LEMMA ResumersSame ==
  ASSUME NEW a \in Aggs, UNCHANGED resumer, SamePark(reg[a], reg'[a])
  PROVE  \A r \in Resumers :
            /\ resumer'[r] = resumer[r] /\ Found(r, a)' = Found(r, a)
            /\ IsPark(reg'[a], resumer'[r].parks[a]) => IsPark(reg[a], resumer[r].parks[a])
  BY DEF Found, IsPark, SamePark

-----------------------------------------------------------------------------
(* A delivery ends without an effect: a live job, or one that was stopped. *)

Stops(a) ==
    /\ SameStream(a) /\ SameExec(a) /\ SameHistory(a) /\ UNCHANGED resumer
    /\ worker[a].st \in Delivering \cup {"held"} /\ worker'[a].st = "finish"
    /\ worker'[a].job = worker[a].job /\ worker'[a].halt = worker[a].halt
    /\ ~Working(a) /\ (worker'[a].ok => IsLive(worker[a].job))
    /\ SamePark(reg[a], reg'[a]) /\ reg'[a].jobs = reg[a].jobs
    /\ \/ reg'[a].undelivered = reg[a].undelivered
       \/ /\ IsAcked(worker[a].job)
          /\ reg'[a].undelivered = reg[a].undelivered \cup {worker[a].job.ver}
    /\ \A v \in Versions : ticket'[a][v].final = ticket[a][v].final

\* A worker that gives its delivery up because someone shut its halt channel.
LEMMA StopSound ==
  ASSUME Good, NEW a \in Aggs, Stops(a)
  PROVE  /\ Logged(a)' /\ Matched(a)' /\ Halted(a)' /\ Ordered(a)' /\ Fenced(a)' /\ Handling(a)'
         /\ LeftAccepted(a)' /\ Resumable(a)' /\ NoneBefore(a)' /\ InTurn(a)'
  <1>0. Sound(a) /\ Shape
    BY DEF Good
  <1>u. /\ SameStream(a) /\ SameExec(a) /\ SameHistory(a) /\ UNCHANGED resumer
        /\ reg'[a].jobs = reg[a].jobs /\ SamePark(reg[a], reg'[a]) /\ worker'[a].st = "finish"
        /\ worker'[a].job = worker[a].job /\ ~Working(a)
    BY DEF Stops
  <1>v. /\ ~InDelivery(a)' /\ ~Working(a)'
        /\ worker[a].st \in Carrying /\ worker'[a].st \in Carrying
        /\ worker[a].st # "finish"
        /\ \A u : Waits(a, u)' <=> Waits(a, u)
        /\ \A u : InLine(a, u)' <=> InLine(a, u)
    <2>1. ~InDelivery(a)' /\ ~Working(a)'
      BY <1>u DEF InDelivery, Working, Delivering
    <2>2. worker[a].st \in Carrying /\ worker'[a].st \in Carrying /\ worker[a].st # "finish"
      BY DEF Stops, Carrying, Delivering
    <2>3. \A u : Waits(a, u)' <=> Waits(a, u)
      BY <1>u DEF Waits
    <2> QED
      BY <1>u, <2>1, <2>2, <2>3 DEF InLine
  <1>w. (\A u : InHand(a, u)' <=> InHand(a, u)) /\ Remembers(a)
    BY <1>u, StreamWords DEF SameStream, SameExec, SameHistory, Remembers
  <1>r. \A r \in Resumers :
            /\ resumer'[r] = resumer[r] /\ Found(r, a)' = Found(r, a)
            /\ IsPark(reg'[a], resumer'[r].parks[a]) => IsPark(reg[a], resumer[r].parks[a])
    BY <1>u, ResumersSame
  <1>1. Logged(a)'
    BY <1>0, <1>u, LoggedKept DEF Sound, SameStream
  <1>2. Matched(a)'
    BY <1>0, <1>u, <1>v, MatchedKept DEF Sound, SameStream, SameHistory
  <1>3. Halted(a)'
    BY <1>0, <1>u, <1>v DEF Sound, Halted, SamePark
  <1>4. Ordered(a)'
    BY <1>0, <1>u, <1>v, <1>w DEF Sound, Ordered, SameStream, SameExec
  <1>5. Fenced(a)'
    <2>1. forget[a].st # "none" => Outcome(a)' = Outcome(a)
      BY <1>0, <1>u DEF Shape, ExecOK, Outcome, SameExec, Stops
    <2>2. MarkerWaits(a) => MarkerWaits(a)'
      BY <1>u, <1>v DEF MarkerWaits, SameStream, SameExec, SamePark
    <2>3. ~MarkerInDelivery(a) /\ ~MarkerEnds(a)
      BY <1>u, <1>v DEF MarkerInDelivery, MarkerEnds
    <2> QED
      BY <1>0, <1>u, <1>v, <2>1, <2>2, <2>3 DEF Sound, Fenced, SameStream, SameExec, SamePark
  <1>6. LeftAccepted(a)'
    BY <1>0, <1>u, <1>w, LeftKept DEF Sound, SameStream
  <1>7. Resumable(a)'
    <2> SUFFICES ASSUME ~DirtyReads PROVE Resumable(a)'
      BY DEF Resumable
    <2>1. \A v : Underway(a, v) => Underway(a, v)'
      BY <1>u, <1>v, <1>w DEF Underway, SameStream, SameExec
    <2>2. reg[a].undelivered \subseteq reg'[a].undelivered
      BY DEF Stops
    <2> QED
      BY <1>u, <1>w, <1>r, <2>1, <2>2, ResumableKept DEF SameStream, SamePark
  <1>8. InTurn(a)'
    <2> SUFFICES ASSUME ~DirtyReads PROVE InTurn(a)'
      BY DEF InTurn
    <2>1. IsAcked(worker[a].job) => Due(a, worker[a].job.ver)
      BY <1>0 DEF Sound, InTurn, Due, InDelivery, Stops
    <2>2. \A u \in Versions : Waits(a, u)' \/ u \in reg'[a].undelivered =>
                Waits(a, u) \/ u \in reg[a].undelivered \/ Due(a, u)
      BY <1>v, <2>1 DEF Stops
    <2> QED
      BY <1>u, <1>v, <1>w, <1>r, <2>2, InTurnKept DEF SameStream, SameExec, SameHistory
  <1> QED
    BY <1>1, <1>2, <1>3, <1>4, <1>5, <1>6, <1>7, <1>8, <1>u DEF Handling, NoneBefore

-----------------------------------------------------------------------------
(* A delivery ends with a park.                                            *)

\* A park empties the line of its aggregate.
LEMMA ClosesQuiet ==
  ASSUME Good, NEW a \in Aggs, NEW X, Closes(a, X),
         InDelivery(a)' => InDelivery(a) /\ worker'[a].halt = worker[a].halt
  PROVE  /\ Quiet(a)' /\ Halted(a)'
         /\ \A j \in ToSet(reg'[a].jobs) : j \in ToSet(reg[a].jobs)
         /\ reg'[a].jobs \in Seq(Jobs)
         /\ \A u : u \in reg'[a].undelivered => Waits(a, u) \/ u \in reg[a].undelivered \/ u \in X
  <1>0. Sound(a) /\ Shape
    BY DEF Good
  <1>1. \A j \in ToSet(reg'[a].jobs) : IsLive(j) /\ j \in ToSet(reg[a].jobs)
    BY DEF Closes
  <1>2. InDelivery(a)' => IsShut(a)' /\ worker'[a].halt \in {"same", "shut"}
    BY <1>0 DEF Sound, Halted, IsShut, IsClosed, Closes
  <1>3. Quiet(a)' /\ Halted(a)'
    BY <1>1, <1>2 DEF Quiet, Working, Halted
  <1>4. \A u : u \in VersionsOf(reg[a].jobs, IsAcked) => Waits(a, u)
    BY Zenon DEF VersionsOf, Waits, ToSet
  <1>5. \A u : u \in reg'[a].undelivered => Waits(a, u) \/ u \in reg[a].undelivered \/ u \in X
    BY <1>4 DEF Closes
  <1>6. reg'[a].jobs \in Seq(Jobs)
    BY DEF Closes
  <1> QED
    BY <1>1, <1>3, <1>5, <1>6

StopsByPark(a) ==
    /\ SameStream(a) /\ SameExec(a) /\ SameHistory(a) /\ UNCHANGED resumer
    /\ worker[a].st = "park" /\ Working(a) /\ worker'[a].st = "finish"
    /\ worker'[a].job = worker[a].job /\ ~worker'[a].ok
    /\ Closes(a, {}) /\ Spoils(a, {j.ver : j \in ToSet(reg[a].jobs)})

\* A worker that parks its own aggregate.
LEMMA StopByParkSound ==
  ASSUME Good, NEW a \in Aggs, StopsByPark(a)
  PROVE  /\ Logged(a)' /\ Matched(a)' /\ Halted(a)' /\ Ordered(a)' /\ Fenced(a)' /\ Handling(a)'
         /\ LeftAccepted(a)' /\ Resumable(a)' /\ NoneBefore(a)' /\ InTurn(a)'
  <1>0. Sound(a) /\ Shape
    BY DEF Good
  <1>u. /\ SameStream(a) /\ SameExec(a) /\ SameHistory(a) /\ UNCHANGED resumer
        /\ worker[a].st = "park" /\ Working(a) /\ worker'[a].st = "finish"
        /\ worker'[a].job = worker[a].job /\ ~worker'[a].ok /\ Closes(a, {})
    BY DEF StopsByPark
  <1>v. ~InDelivery(a)' /\ worker[a].st \in Carrying /\ worker'[a].st \in Carrying
    BY <1>u DEF InDelivery, Carrying, Delivering
  <1>q. /\ Quiet(a)' /\ Halted(a)'
        /\ \A j \in ToSet(reg'[a].jobs) : j \in ToSet(reg[a].jobs)
        /\ reg'[a].jobs \in Seq(Jobs)
        /\ \A u : u \in reg'[a].undelivered => Waits(a, u) \/ u \in reg[a].undelivered \/ u \in {}
    BY <1>u, <1>v, ClosesQuiet
  <1>l. Ordered(a)' /\ \A u : ~Waits(a, u)' /\ ~InLine(a, u)'
    BY <1>q, QuietNext
  <1>w. Remembers(a)
    BY <1>u DEF SameHistory, Remembers
  <1>r. \A r \in Resumers : ~IsPark(reg'[a], resumer'[r].parks[a])
    BY <1>0, <1>u, NewPark DEF Closes
  <1>1. Logged(a)'
    BY <1>0, <1>u, LoggedKept DEF Sound, SameStream
  <1>2. Matched(a)'
    BY <1>0, <1>u, <1>v, <1>q, MatchedKept DEF Sound, SameStream, SameHistory
  <1>5. Fenced(a)'
    <2>0. PICK X : X = {j.ver : j \in ToSet(reg[a].jobs)}
      OBVIOUS
    <2>1. ASSUME forget[a].st # "none"
          PROVE  /\ Outcome(a)' \in {Outcome(a), "err"}
                 /\ forget[a].ver \notin X => Outcome(a)' = Outcome(a)
      <3>1. Spoils(a, X) /\ forget'[a].ver = forget[a].ver
        BY <1>u, <2>0 DEF StopsByPark, SameExec
      <3> QED
        BY <1>0, <2>1, <3>1, OutcomeSpoilt
    <2>2. forget[a].st # "superseded"
      BY <1>0, <1>u DEF Sound, Fenced
    <2>3. forget[a].st = "committed" => forget[a].ver \notin X
      BY <1>0, <2>0 DEF Sound, Fenced
    <2>4. ~MarkerWaits(a) /\ ~MarkerEnds(a)
      BY <1>u DEF MarkerWaits, MarkerEnds
    <2>5. MarkerInDelivery(a) => MarkerEnds(a)'
      BY <1>u DEF MarkerInDelivery, MarkerEnds, SameExec
    <2>6. ~(forget[a].st = "erase" \/ (forget[a].st = "waiting" /\ Outcome(a) = "ok"))
      BY <1>0, <1>v DEF Sound, Fenced
    <2> QED
      BY <1>0, <1>u, <1>v, <1>q, <2>1, <2>2, <2>3, <2>4, <2>5, <2>6
      DEF Sound, Fenced, SameStream, SameExec
  <1>6. LeftAccepted(a)'
    BY <1>0, <1>u, <1>w, LeftKept DEF Sound, SameStream
  <1>7. Resumable(a)'
    BY <1>u, <1>r DEF Resumable, Closes
  <1>8. InTurn(a)'
    BY <1>u, <1>v, <1>w, <1>r, <1>q, <1>l, InTurnKept DEF SameStream, SameExec, SameHistory
  <1> QED
    BY <1>1, <1>2, <1>q, <1>l, <1>5, <1>6, <1>7, <1>8, <1>u DEF Handling, NoneBefore

-----------------------------------------------------------------------------
(* An entry is acknowledged.                                               *)

Acks(a) ==
    /\ stream'[a] = stream[a] /\ backlog'[a] = backlog[a]
    /\ \A v : v \in Pending(a)' <=> v \in Pending(a) /\ v # worker[a].job.ver
    /\ SameExec(a) /\ SameHistory(a) /\ UNCHANGED resumer /\ reg'[a] = reg[a]
    /\ worker[a].st = "ack" /\ worker'[a].st = "finish"
    /\ worker'[a].job = worker[a].job /\ ticket'[a] = ticket[a]

\* A worker that acknowledges its event.
LEMMA AckSound ==
  ASSUME Good, NEW a \in Aggs, Acks(a)
  PROVE  /\ Logged(a)' /\ Matched(a)' /\ Halted(a)' /\ Ordered(a)' /\ Fenced(a)' /\ Handling(a)'
         /\ LeftAccepted(a)' /\ Resumable(a)' /\ NoneBefore(a)' /\ InTurn(a)'
  <1>0. Sound(a) /\ Shape
    BY DEF Good
  <1>u. /\ stream'[a] = stream[a] /\ backlog'[a] = backlog[a]
        /\ \A v : v \in Pending(a)' <=> v \in Pending(a) /\ v # worker[a].job.ver
        /\ SameExec(a) /\ SameHistory(a) /\ UNCHANGED resumer /\ reg'[a] = reg[a]
        /\ worker[a].st = "ack" /\ worker'[a].st = "finish"
        /\ worker'[a].job = worker[a].job /\ ticket'[a] = ticket[a]
    BY DEF Acks
  <1>v. /\ ~InDelivery(a)' /\ ~Working(a)'
        /\ worker[a].st \in Carrying /\ worker'[a].st \in Carrying
        /\ worker[a].st # "finish"
        /\ \A u : Waits(a, u)' <=> Waits(a, u)
        /\ \A u : InLine(a, u)' => InLine(a, u)
        /\ \A u : InLine(a, u) => InLine(a, u)' \/ u = worker[a].job.ver
    <2>1. ~InDelivery(a)' /\ ~Working(a)'
      BY <1>u DEF InDelivery, Working, Delivering
    <2>2. worker[a].st \in Carrying /\ worker'[a].st \in Carrying /\ worker[a].st # "finish"
      BY <1>u DEF Carrying, Delivering
    <2>3. \A u : Waits(a, u)' <=> Waits(a, u)
      BY <1>u DEF Waits
    <2> QED
      BY <1>u, <2>1, <2>2, <2>3 DEF InLine
  <1>w. (\A u : InHand(a, u)' <=> InHand(a, u)) /\ Remembers(a)
    BY <1>u, StreamWords DEF SameExec, SameHistory, Remembers
  <1>a. /\ \/ handled[a][worker[a].job.ver] = Subs
           \/ worker[a].job.ver \in letters[a] /\ worker[a].job.kind # "forget"
        /\ worker[a].job.ver <= Len(stream[a]) /\ worker[a].job.kind = stream[a][worker[a].job.ver]
    BY <1>0, <1>u, <1>v DEF Sound, Handling, Matched
  <1>r. \A r \in Resumers :
            /\ resumer'[r] = resumer[r] /\ Found(r, a)' = Found(r, a)
            /\ IsPark(reg'[a], resumer'[r].parks[a]) => IsPark(reg[a], resumer[r].parks[a])
    BY <1>u DEF Found
  <1>1. Logged(a)'
    BY <1>0, <1>u, LoggedKept DEF Sound
  <1>2. Matched(a)'
    BY <1>0, <1>u, <1>v, MatchedKept DEF Sound, SameHistory
  <1>3. Halted(a)'
    BY <1>0, <1>u, <1>v DEF Sound, Halted
  <1>4. Ordered(a)'
    BY <1>0, <1>u, <1>v, <1>w DEF Sound, Ordered, SameExec
  <1>5. Fenced(a)'
    <2>0. Outcome(a)' = Outcome(a)
      BY <1>u DEF Outcome, SameExec
    <2>1. Pending(a) = {forget[a].ver} /\ worker[a].job.ver # forget[a].ver =>
            Pending(a)' = Pending(a)
      BY <1>u
    <2>2. MarkerWaits(a) => MarkerWaits(a)'
      BY <1>u, <1>v, <2>1 DEF MarkerWaits, SameExec
    <2>3. MarkerInDelivery(a) => MarkerEnds(a)'
      <3> SUFFICES ASSUME MarkerInDelivery(a) PROVE MarkerEnds(a)'
        OBVIOUS
      <3>0. worker[a].job = Job(forget[a].ver, "forget", TRUE) /\ Pending(a) = {forget[a].ver}
        BY DEF MarkerInDelivery
      <3>1. worker[a].job.ver = forget[a].ver /\ worker[a].job.kind = "forget"
        BY <3>0 DEF Job
      <3>2. handled[a][forget[a].ver] = Subs /\ Pending(a)' = {}
        BY <1>u, <1>a, <3>0, <3>1
      <3>3. MarkerDelivered(a)'
        BY <1>u, <3>2 DEF MarkerInDelivery, MarkerDelivered, SameExec, SameHistory
      <3> QED
        BY <1>u, <3>0, <3>3 DEF MarkerEnds, SameExec
    <2>4. ~MarkerEnds(a)
      BY <1>v DEF MarkerEnds
    <2> QED
      BY <1>0, <1>u, <1>v, <2>0, <2>1, <2>2, <2>3, <2>4 DEF Sound, Fenced, SameExec
  <1>6. LeftAccepted(a)'
    <2>1. \A v, u : SupersededBy(a, v, u)' <=> SupersededBy(a, v, u)
      BY <1>u, StreamWords
    <2> QED
      BY <1>0, <1>u, <1>a, <2>1 DEF Sound, LeftAccepted, SameHistory
  <1>7. Resumable(a)'
    <2> SUFFICES ASSUME ~DirtyReads PROVE Resumable(a)'
      BY DEF Resumable
    <2>1. \A v \in Pending(a)' : Underway(a, v) => Underway(a, v)'
      BY <1>u, <1>v, <1>w DEF Underway, SameExec
    <2> QED
      BY <1>u, <1>w, <1>r, <2>1, ResumableKept
  <1>8. InTurn(a)'
    <2> SUFFICES ASSUME ~DirtyReads PROVE InTurn(a)'
      BY DEF InTurn
    <2>1. Accepted(a, worker[a].job.ver)
      BY <1>a DEF Accepted
    <2>2. Accepted(a, worker[a].job.ver) => \A v : v = worker[a].job.ver => Accepted(a, v)'
      BY <1>u DEF Accepted, SameHistory
    <2>3. \A v \in Versions : InLine(a, v) => InLine(a, v)' \/ Accepted(a, v)'
      BY <1>v, <2>1, <2>2
    <2> QED
      BY <1>u, <1>v, <1>w, <1>r, <2>3, InTurnKept DEF SameExec, SameHistory
  <1> QED
    BY <1>1, <1>2, <1>3, <1>4, <1>5, <1>6, <1>7, <1>8, <1>u DEF Handling, NoneBefore

-----------------------------------------------------------------------------
(* finish.                                                                 *)

Finishes(a) ==
    /\ SameStream(a) /\ SameExec(a) /\ SameHistory(a) /\ UNCHANGED resumer /\ reg'[a] = reg[a]
    /\ worker[a].st = "finish" /\ worker'[a].st \notin Carrying
    /\ \A v \in Versions :
        \/ ticket'[a][v].final = ticket[a][v].final
        \/ /\ v = worker[a].job.ver /\ ticket[a][v].final = "no"
           /\ ticket'[a][v].final = IF worker[a].ok THEN "ok" ELSE "err"
    /\ worker[a].job.fresh => ticket'[a][worker[a].job.ver].final # "no"

\* A worker that ends its job and completes the ticket.
LEMMA FinishSound ==
  ASSUME Good, NEW a \in Aggs, Finishes(a)
  PROVE  /\ Logged(a)' /\ Matched(a)' /\ Halted(a)' /\ Ordered(a)' /\ Fenced(a)' /\ Handling(a)'
         /\ LeftAccepted(a)' /\ Resumable(a)' /\ NoneBefore(a)' /\ InTurn(a)'
  <1>0. Sound(a) /\ Shape
    BY DEF Good
  <1>u. /\ SameStream(a) /\ SameExec(a) /\ SameHistory(a) /\ UNCHANGED resumer /\ reg'[a] = reg[a]
        /\ worker[a].st = "finish" /\ worker'[a].st \notin Carrying
    BY DEF Finishes
  <1>v. /\ ~InDelivery(a) /\ ~InDelivery(a)' /\ ~Working(a)' /\ ~Working(a)
        /\ worker[a].st \in Carrying
        /\ \A u : Waits(a, u)' <=> Waits(a, u)
        /\ \A u : InLine(a, u)' <=> InLine(a, u)
    <2>1. /\ ~InDelivery(a) /\ ~InDelivery(a)' /\ ~Working(a)' /\ ~Working(a)
          /\ worker[a].st \in Carrying
      BY <1>u DEF InDelivery, Working, Delivering, Carrying
    <2>3. \A u : Waits(a, u)' <=> Waits(a, u)
      BY <1>u DEF Waits
    <2> QED
      BY <1>u, <2>1, <2>3 DEF InLine
  <1>w. (\A u : InHand(a, u)' <=> InHand(a, u)) /\ Remembers(a)
    BY <1>u, StreamWords DEF SameStream, SameExec, SameHistory, Remembers
  <1>r. \A r \in Resumers :
            /\ resumer'[r] = resumer[r] /\ Found(r, a)' = Found(r, a)
            /\ IsPark(reg'[a], resumer'[r].parks[a]) => IsPark(reg[a], resumer[r].parks[a])
    BY <1>u DEF Found
  <1>1. Logged(a)'
    BY <1>0, <1>u, LoggedKept DEF Sound, SameStream
  <1>2. Matched(a)'
    BY <1>0, <1>u, <1>v, MatchedKept DEF Sound, SameStream, SameHistory
  <1>3. Halted(a)'
    BY <1>0, <1>u, <1>v DEF Sound, Halted
  <1>4. Ordered(a)'
    BY <1>0, <1>u, <1>v, <1>w DEF Sound, Ordered, SameStream, SameExec
  <1>5. Fenced(a)'
    <2>0. forget[a].st # "none" => forget[a].ver \in Versions
      BY <1>0 DEF Shape, ExecOK
    <2>1. ASSUME forget[a].st # "none"
          PROVE  /\ \/ Outcome(a)' = Outcome(a)
                    \/ /\ forget[a].ver = worker[a].job.ver /\ Outcome(a) = "no"
                       /\ Outcome(a)' = IF worker[a].ok THEN "ok" ELSE "err"
                 /\ worker[a].job = Job(forget[a].ver, "forget", TRUE) => Outcome(a)' # "no"
      BY <1>u, <2>0, <2>1 DEF Finishes, Outcome, SameExec, Job
    <2>2. MarkerWaits(a) => MarkerWaits(a)' /\ forget[a].ver # worker[a].job.ver
      BY <1>u, <1>v DEF MarkerWaits, SameStream, SameExec
    <2>3. ~MarkerInDelivery(a)
      BY <1>v DEF MarkerInDelivery
    <2>4. MarkerEnds(a) => worker[a].job = Job(forget[a].ver, "forget", TRUE)
                           /\ (worker[a].ok => MarkerDelivered(a))
      BY DEF MarkerEnds
    <2>5. MarkerDelivered(a) => MarkerDelivered(a)'
      BY <1>u DEF MarkerDelivered, SameStream, SameExec, SameHistory
    <2>6. forget[a].st = "superseded" \/ forget[a].st = "committed" => Outcome(a)' = Outcome(a)
      BY <1>0, <1>v, <2>1 DEF Sound, Fenced
    <2>7. ~(forget[a].st = "erase" \/ (forget[a].st = "waiting" /\ Outcome(a) = "ok"))
      BY <1>0, <1>v DEF Sound, Fenced
    <2> QED
      BY <1>0, <1>u, <1>v, <2>1, <2>2, <2>3, <2>4, <2>5, <2>6, <2>7
      DEF Sound, Fenced, SameStream, SameExec
  <1>6. LeftAccepted(a)'
    BY <1>0, <1>u, <1>w, LeftKept DEF Sound, SameStream
  <1>7. Resumable(a)'
    <2> SUFFICES ASSUME ~DirtyReads PROVE Resumable(a)'
      BY DEF Resumable
    <2>1. \A v : Underway(a, v) => Underway(a, v)'
      BY <1>u, <1>v, <1>w DEF Underway, SameStream, SameExec
    <2> QED
      BY <1>u, <1>w, <1>r, <2>1, ResumableKept DEF SameStream
  <1>8. InTurn(a)'
    BY <1>u, <1>v, <1>w, <1>r, InTurnKept DEF SameStream, SameExec, SameHistory
  <1> QED
    BY <1>1, <1>2, <1>3, <1>4, <1>5, <1>6, <1>7, <1>8, <1>u
    DEF Handling, NoneBefore, Carrying, Delivering

-----------------------------------------------------------------------------
(* The next job leaves the queue.                                          *)

\* What is behind the head of a queue.
LEMMA TailFacts ==
  ASSUME NEW S, NEW q \in Seq(S), q # <<>>
  PROVE  /\ Len(q) \in Nat /\ Len(q) >= 1 /\ Head(q) = q[1]
         /\ Tail(q) \in Seq(S) /\ Len(Tail(q)) = Len(q) - 1
         /\ \A i \in 1..(Len(q) - 1) : Tail(q)[i] = q[i + 1]
         /\ \A j : j \in ToSet(q) <=> j = Head(q) \/ j \in ToSet(Tail(q))
  <1>1. /\ Len(q) \in Nat /\ Len(q) >= 1 /\ Head(q) = q[1]
        /\ Tail(q) \in Seq(S) /\ Len(Tail(q)) = Len(q) - 1
        /\ \A i \in 1..(Len(q) - 1) : Tail(q)[i] = q[i + 1]
    OBVIOUS
  <1>2. ToSet(q) = {q[i] : i \in 1..Len(q)} /\ ToSet(Tail(q)) = {Tail(q)[i] : i \in 1..(Len(q) - 1)}
    <2>1. PICK t : t = Tail(q)
      OBVIOUS
    <2>2. DOMAIN q = 1..Len(q) /\ DOMAIN t = 1..(Len(q) - 1)
      BY <1>1, <2>1
    <2>3. ToSet(q) = {q[i] : i \in 1..Len(q)} /\ ToSet(t) = {t[i] : i \in 1..(Len(q) - 1)}
      BY <2>2 DEF ToSet
    <2> QED
      BY <2>1, <2>3
  <1>3. \A j \in ToSet(Tail(q)) : j \in ToSet(q)
    BY <1>1, <1>2
  <1>4. ASSUME NEW i \in 1..Len(q) PROVE q[i] = Head(q) \/ q[i] \in ToSet(Tail(q))
    <2>1. CASE i = 1
      BY <1>1, <2>1
    <2>2. CASE i # 1
      <3>1. i - 1 \in 1..(Len(q) - 1) /\ (i - 1) + 1 = i
        BY <1>1, <2>2
      <3>2. Tail(q)[i - 1] = q[i]
        BY <1>1, <3>1
      <3> QED
        BY <1>2, <3>1, <3>2
    <2> QED
      BY <2>1, <2>2
  <1>5. Head(q) \in ToSet(q)
    BY <1>1, <1>2
  <1> QED
    BY <1>1, <1>2, <1>3, <1>4, <1>5

Pops(a) ==
    /\ SameStream(a) /\ SameExec(a) /\ SameHistory(a) /\ UNCHANGED resumer
    /\ ticket'[a] = ticket[a]
    /\ worker[a].st = "drain" /\ worker'[a].st = "held" /\ worker'[a].halt = "same"
    /\ reg[a].jobs # <<>> /\ reg'[a].jobs = Tail(reg[a].jobs)
    /\ worker'[a].job = Head(reg[a].jobs)
    /\ reg'[a].parked = reg[a].parked /\ reg'[a].gen = reg[a].gen
    /\ reg'[a].undelivered = reg[a].undelivered /\ reg'[a].shut = reg[a].shut

\* The words about the line when the worker takes the head of the queue.
LEMMA PopWords ==
  ASSUME Good, NEW a \in Aggs, Pops(a)
  PROVE  /\ ~Working(a) /\ worker[a].st \notin Carrying /\ worker'[a].st \in Carrying
         /\ InDelivery(a)' <=> IsAcked(worker'[a].job)
         /\ Working(a)' <=> IsAcked(worker'[a].job)
         /\ IsAcked(worker'[a].job) => ~reg[a].parked
         /\ worker'[a].job \in ToSet(reg[a].jobs)
         /\ \A j \in ToSet(reg'[a].jobs) : j \in ToSet(reg[a].jobs)
         /\ \A u : Waits(a, u)' =>
                     Waits(a, u) /\ (IsAcked(worker'[a].job) => worker'[a].job.ver < u)
         /\ \A u : InLine(a, u)' <=> InLine(a, u)
  <1>0. Sound(a) /\ Shape
    BY DEF Good
  <1> DEFINE q == reg[a].jobs
             j == worker'[a].job
  <1>1. q \in Seq(Jobs) /\ q # <<>> /\ reg'[a].jobs = Tail(q) /\ j = Head(q)
    BY <1>0, ShapeAt DEF Pops, QueueOK
  <1>2. /\ Len(q) \in Nat /\ Len(q) >= 1 /\ Head(q) = q[1]
        /\ Tail(q) \in Seq(Jobs) /\ Len(Tail(q)) = Len(q) - 1
        /\ \A i \in 1..(Len(q) - 1) : Tail(q)[i] = q[i + 1]
        /\ \A k : k \in ToSet(q) <=> k = Head(q) \/ k \in ToSet(Tail(q))
    <2> HIDE DEF q
    <2> QED
      BY <1>1, TailFacts
  <1>3. ~Working(a) /\ worker[a].st \notin Carrying /\ worker'[a].st \in Carrying
    BY DEF Pops, Working, InDelivery, Carrying, Delivering
  <1>4. InDelivery(a)' <=> IsAcked(j)
    BY DEF Pops, InDelivery, Delivering
  <1>5. IsAcked(j) => ~reg[a].parked
    BY <1>0, <1>1, <1>2 DEF Sound, Halted, IsAcked
  <1>6. Working(a)' <=> IsAcked(j)
    <2>1. ~reg[a].parked => ~reg[a].shut
      BY <1>0, ShapeAt DEF RecordOK
    <2>2. ~reg[a].parked => ~IsShut(a)'
      BY <2>1 DEF Pops, IsShut, IsClosed
    <2> QED
      BY <1>4, <1>5, <2>2 DEF Working
  <1>7. ASSUME NEW u, Waits(a, u)'
        PROVE  Waits(a, u) /\ (IsAcked(j) => j.ver < u)
    <2>1. PICK k \in ToSet(Tail(q)) : IsAcked(k) /\ k.ver = u
      BY <1>1, <1>7 DEF Waits
    <2>2. PICK i \in 1..(Len(q) - 1) : k = Tail(q)[i]
      BY <1>2, <2>1 DEF ToSet
    <2>3. k = q[i + 1] /\ i + 1 \in DOMAIN q /\ 1 \in DOMAIN q /\ 1 < i + 1
      BY <1>1, <1>2, <2>2
    <2>4. IsAcked(j) => j.ver < u
      BY <1>0, <1>1, <1>2, <2>1, <2>3 DEF Sound, Ordered
    <2>5. k \in ToSet(q)
      BY <1>2, <2>1
    <2> QED
      BY <2>1, <2>4, <2>5 DEF Waits
  <1>8. \A u : InLine(a, u)' <=> InLine(a, u)
    <2>1. \A u : Waits(a, u) => Waits(a, u)' \/ (IsAcked(j) /\ j.ver = u)
      BY <1>1, <1>2 DEF Waits
    <2>2. IsAcked(j) => Waits(a, j.ver)
      BY <1>1, <1>2 DEF Waits
    <2> QED
      BY <1>3, <1>6, <1>7, <2>1, <2>2 DEF InLine
  <1>9. j \in ToSet(q) /\ \A k \in ToSet(reg'[a].jobs) : k \in ToSet(q)
    BY <1>1, <1>2
  <1> QED
    BY <1>3, <1>4, <1>5, <1>6, <1>7, <1>8, <1>9

\* What is popped is next.
LEMMA PoppedInTurn ==
  ASSUME Good, ~DirtyReads, NEW a \in Aggs, Pops(a), IsAcked(worker'[a].job)
  PROVE  Cleared(a, worker'[a].job.ver)
  <1>0. Sound(a) /\ Shape
    BY DEF Good
  <1> DEFINE u == worker'[a].job.ver
  <1>1. /\ ~Working(a) /\ ~reg[a].parked
        /\ worker'[a].job \in ToSet(reg[a].jobs)
        /\ \A x : Waits(a, x)' => Waits(a, x) /\ u < x
        /\ \A x : InLine(a, x)' <=> InLine(a, x)
        /\ Working(a)'
    BY PopWords
  <1>2. Waits(a, u) /\ InLine(a, u) /\ u \in Versions /\ u \in Nat
    <2>1. Waits(a, u)
      BY <1>1 DEF Waits
    <2> QED
      BY <1>0, <2>1, JobVersions DEF InLine, Versions
  <1>3. \A x \in Versions : InLine(a, x) => u <= x
    <2>1. ASSUME NEW x \in Versions, InLine(a, x) PROVE u <= x
      <3>1. InLine(a, x)'
        BY <1>1, <2>1
      <3>2. Waits(a, x)' \/ x = u
        BY <3>1 DEF InLine
      <3>3. x \in Nat
        BY DEF Versions
      <3> QED
        BY <1>1, <1>2, <3>2, <3>3
    <2> QED
      BY <2>1
  <1> HIDE DEF u
  <1>4. ASSUME NEW v \in 1..Len(stream[a]), stream[a][v] # "live", v < u
        PROVE  Accepted(a, v) \/ SupersededBy(a, v, u)
    <2>0. v \in Versions /\ v \in Nat /\ ~InLine(a, v)
      <3>1. v \in Versions /\ v \in Nat
        BY <1>0, ShapeAt DEF Versions
      <3> QED
        BY <1>2, <1>3, <1>4, <3>1
    <2>1. CASE forget[a].st = "committed"
      BY <1>0, <1>2, <1>4, <2>0, <2>1 DEF Sound, InTurn
    <2>2. CASE forget[a].st # "committed"
      <3>1. Due(a, u)
        BY <1>0, <1>2, <2>2 DEF Sound, InTurn
      <3>2. CASE Cleared(a, u)
        BY <1>4, <3>2 DEF Cleared
      <3>3. CASE Current(a, u)
        <4>1. v \notin Pending(a)
          <5> SUFFICES ASSUME v \in Pending(a) PROVE FALSE
            OBVIOUS
          <5>1. Underway(a, v)
            BY <1>0, <1>1 DEF Sound, Resumable
          <5>2. u < v
            BY <1>0, <1>2, <2>0, <5>1 DEF Sound, Ordered, Underway
          <5> QED
            BY <1>2, <1>4, <2>0, <5>2
        <4>2. SupersededBy(a, v, Len(stream[a])) \/ handled[a][v] = Subs \/ v \in letters[a]
          BY <1>0, <1>4, <4>1 DEF Sound, LeftAccepted
        <4>3. SupersededBy(a, v, Len(stream[a])) => SupersededBy(a, v, u)
          <5>1. Len(stream[a]) \in Nat
            BY <1>0, ShapeAt
          <5> QED
            BY <1>2, <2>0, <3>3, <5>1 DEF SupersededBy, Current
        <4> QED
          BY <4>2, <4>3 DEF Accepted
      <3> QED
        BY <3>1, <3>2, <3>3 DEF Due
    <2> QED
      BY <2>1, <2>2
  <1> QED
    BY <1>4 DEF Cleared, u

\* The marker comes to the front.
LEMMA MarkerPopped ==
  ASSUME Good, NEW a \in Aggs, Pops(a), MarkerWaits(a)
  PROVE  MarkerWaits(a)' \/ MarkerInDelivery(a)'
  <1>0. Sound(a) /\ Shape
    BY DEF Good
  <1> DEFINE q == reg[a].jobs
  <1>1. q \in Seq(Jobs) /\ q # <<>> /\ reg'[a].jobs = Tail(q) /\ worker'[a].job = Head(q)
    BY <1>0, ShapeAt DEF Pops, QueueOK
  <1>u. /\ SameStream(a) /\ SameExec(a) /\ reg'[a].parked = reg[a].parked
    BY DEF Pops
  <1>2. /\ Len(q) \in Nat /\ Len(q) >= 1 /\ Head(q) = q[1]
        /\ Tail(q) \in Seq(Jobs) /\ Len(Tail(q)) = Len(q) - 1
        /\ \A i \in 1..(Len(q) - 1) : Tail(q)[i] = q[i + 1]
    <2> HIDE DEF q
    <2> QED
      BY <1>1, TailFacts
  <1>3. Working(a)' <=> IsAcked(worker'[a].job)
    BY PopWords
  <1>m. /\ q[Len(q)] = Job(forget[a].ver, "forget", TRUE)
        /\ \A i \in 1..(Len(q) - 1) : IsLive(q[i]) /\ q[i].ver # forget[a].ver
    BY DEF MarkerWaits
  <1> HIDE DEF q
  <1>4. CASE Len(q) = 1
    <2>0. Tail(q) = <<>>
      <3>1. PICK t : t = Tail(q)
        OBVIOUS
      <3>2. t \in Seq(Jobs) /\ Len(t) = 0
        BY <1>2, <1>4, <3>1
      <3>3. t = <<>>
        BY <3>2
      <3> QED
        BY <3>1, <3>3
    <2>1. worker'[a].job = Job(forget[a].ver, "forget", TRUE) /\ Tail(q) = <<>>
      <3>1. Head(q) = q[Len(q)]
        BY <1>2, <1>4
      <3> QED
        BY <1>1, <1>m, <2>0, <3>1, Zenon
    <2>2. Working(a)'
      BY <1>3, <2>1 DEF Job, IsAcked, IsLive
    <2>3. MarkerInDelivery(a)'
      BY <1>1, <1>u, <2>1, <2>2 DEF MarkerInDelivery, MarkerWaits, SameStream, SameExec
    <2> QED
      BY <2>3
  <1>5. CASE Len(q) # 1
    <2>1. PICK t : t = Tail(q)
      OBVIOUS
    <2>2. IsLive(Head(q)) /\ Head(q).ver # forget[a].ver
      <3>1. 1 \in 1..(Len(q) - 1)
        BY <1>2, <1>5
      <3> QED
        BY <1>2, <1>m, <3>1
    <2>3. t # <<>> /\ t[Len(t)] = q[Len(q)] /\ Len(t) = Len(q) - 1
      <3>1. Len(t) = Len(q) - 1 /\ Len(q) - 1 \in 1..(Len(q) - 1) /\ (Len(q) - 1) + 1 = Len(q)
        BY <1>2, <1>5, <2>1
      <3>2. t[Len(q) - 1] = q[Len(q)]
        BY <1>2, <2>1, <3>1
      <3>3. t # <<>>
        BY <3>1
      <3> QED
        BY <3>1, <3>2, <3>3
    <2>4. \A i \in 1..(Len(t) - 1) : IsLive(t[i]) /\ t[i].ver # forget[a].ver
      <3>1. \A i \in 1..(Len(t) - 1) : i \in 1..(Len(q) - 1) /\ i + 1 \in 1..(Len(q) - 1)
        BY <1>2, <2>3
      <3> QED
        BY <1>2, <1>m, <2>1, <3>1
    <2>5. ~Working(a)'
      BY <1>1, <1>3, <2>2 DEF IsAcked
    <2>6. MarkerWaits(a)'
      BY <1>1, <1>m, <1>u, <2>1, <2>2, <2>3, <2>4, <2>5 DEF MarkerWaits, SameStream, SameExec
    <2> QED
      BY <2>6
  <1> QED
    BY <1>4, <1>5

\* A worker that takes its next job.
LEMMA PopSound ==
  ASSUME Good, NEW a \in Aggs, Pops(a)
  PROVE  /\ Logged(a)' /\ Matched(a)' /\ Halted(a)' /\ Ordered(a)' /\ Fenced(a)' /\ Handling(a)'
         /\ LeftAccepted(a)' /\ Resumable(a)' /\ NoneBefore(a)' /\ InTurn(a)'
  <1>0. Sound(a) /\ Shape
    BY DEF Good
  <1>u. /\ SameStream(a) /\ SameExec(a) /\ SameHistory(a)
        /\ UNCHANGED resumer /\ ticket'[a] = ticket[a]
        /\ worker[a].st = "drain" /\ worker'[a].st = "held" /\ worker'[a].halt = "same"
        /\ reg[a].jobs # <<>> /\ reg'[a].undelivered = reg[a].undelivered
        /\ reg'[a].parked = reg[a].parked /\ SamePark(reg[a], reg'[a])
    BY DEF Pops, SamePark
  <1>v. /\ ~Working(a) /\ worker[a].st \notin Carrying /\ worker'[a].st \in Carrying
        /\ InDelivery(a)' <=> IsAcked(worker'[a].job)
        /\ Working(a)' <=> IsAcked(worker'[a].job)
        /\ IsAcked(worker'[a].job) => ~reg[a].parked
        /\ worker'[a].job \in ToSet(reg[a].jobs)
        /\ \A j \in ToSet(reg'[a].jobs) : j \in ToSet(reg[a].jobs)
        /\ \A u : Waits(a, u)' => Waits(a, u) /\ (IsAcked(worker'[a].job) => worker'[a].job.ver < u)
        /\ \A u : InLine(a, u)' <=> InLine(a, u)
    BY PopWords
  <1>w. (\A u : InHand(a, u)' <=> InHand(a, u)) /\ Remembers(a)
    BY <1>u, StreamWords DEF SameStream, SameExec, SameHistory, Remembers
  <1>r. \A r \in Resumers :
            /\ resumer'[r] = resumer[r] /\ Found(r, a)' = Found(r, a)
            /\ IsPark(reg'[a], resumer'[r].parks[a]) => IsPark(reg[a], resumer[r].parks[a])
    BY <1>u, ResumersSame
  <1>1. Logged(a)'
    BY <1>0, <1>u, LoggedKept DEF Sound, SameStream
  <1>2. Matched(a)'
    BY <1>0, <1>u, <1>v, MatchedKept DEF Sound, SameStream, SameHistory
  <1>3. Halted(a)'
    BY <1>0, <1>u, <1>v DEF Sound, Halted, Working
  <1>4. Ordered(a)'
    <2>1. ASSUME NEW i \in DOMAIN reg'[a].jobs, NEW k \in DOMAIN reg'[a].jobs, i < k,
                 IsAcked(reg'[a].jobs[i]), IsAcked(reg'[a].jobs[k])
          PROVE  reg'[a].jobs[i].ver < reg'[a].jobs[k].ver
      <3> DEFINE q == reg[a].jobs
      <3>1. q \in Seq(Jobs) /\ q # <<>> /\ reg'[a].jobs = Tail(q)
        BY <1>0, ShapeAt DEF Pops, QueueOK
      <3>2. /\ Len(q) \in Nat /\ Tail(q) \in Seq(Jobs) /\ Len(Tail(q)) = Len(q) - 1
            /\ \A x \in 1..(Len(q) - 1) : Tail(q)[x] = q[x + 1]
        <4> HIDE DEF q
        <4> QED
          BY <3>1, TailFacts
      <3>3. /\ i \in 1..(Len(q) - 1) /\ k \in 1..(Len(q) - 1)
            /\ i + 1 \in DOMAIN q /\ k + 1 \in DOMAIN q /\ i + 1 < k + 1
        BY <2>1, <3>1, <3>2
      <3> QED
        BY <1>0, <2>1, <3>1, <3>2, <3>3 DEF Sound, Ordered
    <2>2. Working(a)' => \A u \in Versions : Waits(a, u)' => worker'[a].job.ver < u
      BY <1>v
    <2>3. \A u \in Versions : InLine(a, u)' =>
            /\ \A v \in backlog'[a] : u < v
            /\ \A v \in Versions : InHand(a, v)' => u < v
            /\ \A r \in Resumers : lock'[a] = r => \A v \in resumer'[r].rest : u < v
      BY <1>0, <1>u, <1>v, <1>w DEF Sound, Ordered, SameStream, SameExec
    <2> QED
      BY <2>1, <2>2, <2>3 DEF Ordered
  <1>5. Fenced(a)'
    <2>0. Outcome(a)' = Outcome(a)
      BY <1>u DEF Outcome, SameExec
    <2>1. MarkerWaits(a) => MarkerWaits(a)' \/ MarkerInDelivery(a)'
      BY MarkerPopped
    <2>2. ~MarkerInDelivery(a) /\ ~MarkerEnds(a)
      BY <1>u, <1>v DEF MarkerInDelivery, MarkerEnds
    <2>3. ~(forget[a].st = "erase" \/ (forget[a].st = "waiting" /\ Outcome(a) = "ok"))
      BY <1>0, <1>u DEF Sound, Fenced, MarkerDelivered
    <2>4. forget[a].st = "superseded" => ~Working(a)' /\ \A j \in ToSet(reg'[a].jobs) : IsLive(j)
      BY <1>0, <1>v DEF Sound, Fenced, IsAcked
    <2> QED
      BY <1>0, <1>u, <1>v, <2>0, <2>1, <2>2, <2>3, <2>4 DEF Sound, Fenced, SameStream, SameExec
  <1>6. LeftAccepted(a)'
    BY <1>0, <1>u, <1>w, LeftKept DEF Sound, SameStream
  <1>7. Resumable(a)'
    <2> SUFFICES ASSUME ~DirtyReads PROVE Resumable(a)'
      BY DEF Resumable
    <2>1. \A v : Underway(a, v) => Underway(a, v)'
      BY <1>u, <1>v, <1>w DEF Underway, SameStream, SameExec
    <2> QED
      BY <1>u, <1>w, <1>r, <2>1, ResumableKept DEF SameStream
  <1>8. InTurn(a)'
    <2> SUFFICES ASSUME ~DirtyReads PROVE InTurn(a)'
      BY DEF InTurn
    <2>w. /\ \A v, u : SupersededBy(a, v, u)' <=> SupersededBy(a, v, u)
          /\ \A v \in 1..Len(stream[a]) : Accepted(a, v) => Accepted(a, v)'
          /\ \A u : Cleared(a, u) => Cleared(a, u)'
          /\ \A u : Due(a, u) => Due(a, u)'
      BY <1>0, <1>u, <1>w, StreamWords, ClearedStays DEF SameStream
    <2>1. InDelivery(a)' => Cleared(a, worker[a].job.ver)'
      <3>1. PICK x : x = worker'[a].job.ver
        OBVIOUS
      <3>2. InDelivery(a)' => Cleared(a, x)
        BY <1>v, <3>1, PoppedInTurn
      <3>3. InDelivery(a)' => Cleared(a, x)'
        BY <2>w, <3>2
      <3> QED
        BY <3>1, <3>3
    <2>2. \A u \in started'[a] : Cleared(a, u)'
      BY <1>0, <1>u, <2>w DEF Sound, InTurn, SameHistory
    <2>4. forget'[a].st # "committed" =>
            /\ \A u \in Versions : Waits(a, u)' \/ u \in reg'[a].undelivered => Due(a, u)'
            /\ \A r \in Resumers : IsPark(reg'[a], resumer'[r].parks[a]) =>
                    \A u \in Found(r, a)' : Due(a, u)'
      BY <1>0, <1>u, <1>v, <1>r, <2>w DEF Sound, InTurn, SameExec
    <2>5. \A r \in Resumers : lock'[a] = r => \A u \in resumer'[r].rest : Due(a, u)'
      BY <1>0, <1>u, <2>w DEF Sound, InTurn, SameExec
    <2>6. forget'[a].st = "committed" => \A u \in Versions : InLine(a, u)' =>
            \A v \in 1..Len(stream'[a]) : stream'[a][v] # "live" /\ v < u =>
                InLine(a, v)' \/ Accepted(a, v)' \/ SupersededBy(a, v, u)'
      BY <1>0, <1>u, <1>v, <2>w DEF Sound, InTurn, SameStream, SameExec
    <2> QED
      BY <2>1, <2>2, <2>4, <2>5, <2>6 DEF InTurn
  <1> QED
    BY <1>1, <1>2, <1>3, <1>4, <1>5, <1>6, <1>7, <1>8, <1>u DEF Handling, NoneBefore

-----------------------------------------------------------------------------
(* A job joins the queue, or a parked aggregate records it.                *)

\* A job is appended to the queue.
LEMMA AppendFacts ==
  ASSUME NEW S, NEW q \in Seq(S), NEW j \in S, NEW t, t = Append(q, j)
  PROVE  /\ t \in Seq(S) /\ Len(q) \in Nat /\ Len(t) = Len(q) + 1 /\ t # <<>>
         /\ DOMAIN q = 1..Len(q) /\ DOMAIN t = 1..(Len(q) + 1)
         /\ \A i \in 1..Len(q) : t[i] = q[i]
         /\ t[Len(q) + 1] = j
  <1>1. /\ t \in Seq(S) /\ Len(q) \in Nat /\ Len(t) = Len(q) + 1
        /\ DOMAIN q = 1..Len(q) /\ DOMAIN t = 1..(Len(q) + 1)
        /\ \A i \in 1..Len(q) : t[i] = q[i]
        /\ t[Len(q) + 1] = j
    BY AppendProperties, LenProperties
  <1>3. t # <<>>
    BY <1>1
  <1> QED
    BY <1>1, <1>3

\* The words about the line when a job is enqueued: recorded by a park, or queued.
LEMMA EnqueueWords ==
  ASSUME Good, NEW a \in Aggs, NEW j \in Jobs, Enqueue(a, j)
  PROVE  /\ InDelivery(a)' <=> InDelivery(a)
         /\ InDelivery(a) => (IsShut(a)' <=> IsShut(a))
         /\ Working(a)' <=> Working(a)
         /\ worker'[a].st \in Carrying <=> worker[a].st \in Carrying
         /\ worker[a].st \in Carrying => worker'[a] = worker[a]
         /\ SamePark(reg[a], reg'[a])
         /\ \/ /\ reg[a].parked /\ IsAcked(j) /\ reg'[a].jobs = reg[a].jobs
               /\ reg'[a].undelivered = reg[a].undelivered \cup {j.ver}
               /\ \A u : Waits(a, u)' <=> Waits(a, u)
               /\ \A u : InLine(a, u)' <=> InLine(a, u)
            \/ /\ ~reg[a].parked \/ IsLive(j)
               /\ reg'[a].jobs = Append(reg[a].jobs, j)
               /\ reg'[a].undelivered = reg[a].undelivered
               /\ \A k : k \in ToSet(reg'[a].jobs) <=> k \in ToSet(reg[a].jobs) \/ k = j
               /\ \A u : Waits(a, u)' <=> Waits(a, u) \/ (IsAcked(j) /\ u = j.ver)
               /\ \A u : InLine(a, u)' <=> InLine(a, u) \/ (IsAcked(j) /\ u = j.ver)
  <1>0. Sound(a) /\ Shape
    BY DEF Good
  <1>1. \/ Refuses(reg[a], j) /\ Recorded(a, j.ver)
        \/ ~Refuses(reg[a], j) /\ Queued(a, j)
    BY <1>0, EnqueueEffect
  <1>2. /\ worker[a].st # "none" => reg[a].worker
        /\ worker[a].st \in Carrying => worker[a].st # "none"
        /\ "drain" \notin Carrying
    BY <1>0, ShapeAt DEF AttendedAt, Carrying, Delivering
  <1>3. /\ worker'[a].st \in Carrying <=> worker[a].st \in Carrying
        /\ worker[a].st \in Carrying => worker'[a] = worker[a] /\ reg'[a].shut = reg[a].shut
    BY <1>1, <1>2 DEF Recorded, Queued, SameWorker
  <1>4. /\ InDelivery(a) => worker[a].st \in Carrying
        /\ InDelivery(a)' => worker'[a].st \in Carrying
    BY DEF InDelivery, Carrying
  <1>5. InDelivery(a)' <=> InDelivery(a)
    BY <1>3, <1>4 DEF InDelivery
  <1>6. InDelivery(a) => (IsShut(a)' <=> IsShut(a)) /\ worker'[a] = worker[a]
    BY <1>3, <1>4 DEF IsShut, IsClosed
  <1>7. Working(a)' <=> Working(a)
    BY <1>5, <1>6 DEF Working
  <1>8. CASE Refuses(reg[a], j) /\ Recorded(a, j.ver)
    <2>1. reg[a].parked /\ IsAcked(j) /\ SamePark(reg[a], reg'[a]) /\ reg'[a].jobs = reg[a].jobs
          /\ reg'[a].undelivered = reg[a].undelivered \cup {j.ver}
      BY <1>8 DEF Refuses, Recorded, SamePark, SameQueue
    <2>2. \A u : Waits(a, u)' <=> Waits(a, u)
      BY <2>1 DEF Waits
    <2>3. \A u : InLine(a, u)' <=> InLine(a, u)
      BY <1>6, <1>7, <2>2 DEF InLine, Working
    <2> QED
      BY <1>3, <1>5, <1>6, <1>7, <2>1, <2>2, <2>3
  <1>9. CASE ~Refuses(reg[a], j) /\ Queued(a, j)
    <2>1. /\ SamePark(reg[a], reg'[a]) /\ reg'[a].jobs = Append(reg[a].jobs, j)
          /\ reg'[a].undelivered = reg[a].undelivered /\ (~reg[a].parked \/ IsLive(j))
      BY <1>9 DEF Queued, Refuses, IsAcked
    <2>2. reg[a].jobs \in Seq(Jobs)
      BY <1>0, ShapeAt DEF QueueOK
    <2>3. \A k : k \in ToSet(reg'[a].jobs) <=> k \in ToSet(reg[a].jobs) \/ k = j
      <3>1. PICK q : q = reg[a].jobs
        OBVIOUS
      <3>2. PICK t : t = Append(q, j)
        OBVIOUS
      <3>3. q \in Seq(Jobs) /\ t = reg'[a].jobs
        BY <2>1, <2>2, <3>1, <3>2
      <3>s. PICK S : S = Jobs
        OBVIOUS
      <3>i. q \in Seq(S) /\ j \in S
        BY <3>3, <3>s
      <3>a. ToSet(Append(q, j)) = ToSet(q) \cup {j}
        BY <3>i, ToSetAppend
      <3>4. ToSet(t) = ToSet(q) \cup {j}
        BY <3>2, <3>a
      <3>5. \A k : k \in ToSet(t) <=> k \in ToSet(q) \/ k = j
        BY <3>4
      <3> QED
        BY <3>1, <3>3, <3>5
    <2>4. \A u : Waits(a, u)' <=> Waits(a, u) \/ (IsAcked(j) /\ u = j.ver)
      BY <2>3 DEF Waits
    <2>5. \A u : InLine(a, u)' <=> InLine(a, u) \/ (IsAcked(j) /\ u = j.ver)
      BY <1>6, <1>7, <2>4 DEF InLine, Working
    <2> QED
      BY <1>3, <1>5, <1>6, <1>7, <2>1, <2>3, <2>4, <2>5
  <1> QED
    BY <1>1, <1>8, <1>9

\* An event that is due and behind the line is enqueued.
LEMMA EnqueueSound ==
  ASSUME Good, NEW a \in Aggs, NEW j \in Jobs, Enqueue(a, j),
         j.ver <= Len(stream[a]), j.kind = stream[a][j.ver],
         stream'[a] = stream[a], Pending(a)' = Pending(a), SameHistory(a),
         backlog'[a] \subseteq backlog[a],
         \A u : InLine(a, u) => u < j.ver,
         IsAcked(j) /\ ~DirtyReads => Due(a, j.ver),
         forget[a].st # "committed", forget'[a].st # "committed",
         \A r \in Resumers :
            /\ resumer'[r].st = resumer[r].st /\ resumer'[r].todo = resumer[r].todo
            /\ resumer'[r].parks = resumer[r].parks /\ resumer'[r].scanned = resumer[r].scanned
            /\ resumer'[r].rest \subseteq resumer[r].rest
            /\ lock'[a] = r => lock[a] = r /\ \A v \in resumer'[r].rest : j.ver < v,
         \A v \in backlog'[a] : j.ver < v,
         \A v \in Versions : InHand(a, v)' => InHand(a, v) /\ j.ver < v,
         \A v \in Pending(a) : Underway(a, v) => InLine(a, v) \/ v = j.ver \/ Underway(a, v)',
         \A v \in Pending(a) : InHand(a, v) => InHand(a, v)' \/ v = j.ver
  PROVE  /\ Logged(a)' /\ Matched(a)' /\ Halted(a)' /\ Ordered(a)' /\ Handling(a)'
         /\ LeftAccepted(a)' /\ Resumable(a)' /\ NoneBefore(a)' /\ InTurn(a)'
  <1>0. Sound(a) /\ Shape
    BY DEF Good
  <1>e. /\ InDelivery(a)' <=> InDelivery(a)
        /\ InDelivery(a) => (IsShut(a)' <=> IsShut(a))
        /\ Working(a)' <=> Working(a)
        /\ worker'[a].st \in Carrying <=> worker[a].st \in Carrying
        /\ worker[a].st \in Carrying => worker'[a] = worker[a]
        /\ SamePark(reg[a], reg'[a])
    BY EnqueueWords
  <1>f. \/ /\ reg[a].parked /\ IsAcked(j) /\ reg'[a].jobs = reg[a].jobs
           /\ reg'[a].undelivered = reg[a].undelivered \cup {j.ver}
           /\ \A u : Waits(a, u)' <=> Waits(a, u)
           /\ \A u : InLine(a, u)' <=> InLine(a, u)
        \/ /\ ~reg[a].parked \/ IsLive(j)
           /\ reg'[a].jobs = Append(reg[a].jobs, j)
           /\ reg'[a].undelivered = reg[a].undelivered
           /\ \A k : k \in ToSet(reg'[a].jobs) <=> k \in ToSet(reg[a].jobs) \/ k = j
           /\ \A u : Waits(a, u)' <=> Waits(a, u) \/ (IsAcked(j) /\ u = j.ver)
           /\ \A u : InLine(a, u)' <=> InLine(a, u) \/ (IsAcked(j) /\ u = j.ver)
    BY EnqueueWords
  <1>d. InDelivery(a) => worker[a].st \in Carrying
    BY <1>0, JobVersions
  <1>w. Remembers(a)
    BY DEF SameHistory, Remembers
  <1>j. j.ver \in Versions
    BY DEF Jobs
  <1>r. \A r \in Resumers :
            /\ Found(r, a)' = Found(r, a)
            /\ IsPark(reg'[a], resumer'[r].parks[a]) => IsPark(reg[a], resumer[r].parks[a])
    BY <1>e DEF Found, IsPark, SamePark
  <1>p. \A v \in Pending(a) : v = j.ver => IsAcked(j)
    BY <1>0 DEF Sound, Logged, IsAcked, IsLive
  <1>1. Logged(a)'
    BY <1>0, LoggedKept DEF Sound
  <1>2. Matched(a)'
    BY <1>0, <1>e, <1>f, MatchedKept DEF Sound, SameHistory
  <1>3. Halted(a)'
    <2>1. reg'[a].parked => \A k \in ToSet(reg'[a].jobs) : IsLive(k)
      BY <1>0, <1>e, <1>f DEF Sound, Halted, SamePark
    <2> QED
      BY <1>0, <1>e, <1>d, <2>1 DEF Sound, Halted, SamePark
  <1>4. Ordered(a)'
    <2>1. ASSUME NEW i \in DOMAIN reg'[a].jobs, NEW k \in DOMAIN reg'[a].jobs, i < k,
                 IsAcked(reg'[a].jobs[i]), IsAcked(reg'[a].jobs[k])
          PROVE  reg'[a].jobs[i].ver < reg'[a].jobs[k].ver
      <3>1. CASE reg'[a].jobs = reg[a].jobs
        BY <1>0, <2>1, <3>1 DEF Sound, Ordered
      <3>2. CASE reg'[a].jobs = Append(reg[a].jobs, j)
        <4> DEFINE q == reg[a].jobs
                   t == reg'[a].jobs
        <4>1. q \in Seq(Jobs) /\ t = Append(q, j)
          BY <1>0, <3>2, ShapeAt DEF QueueOK
        <4> HIDE DEF q, t
        <4>2. /\ Len(q) \in Nat /\ DOMAIN q = 1..Len(q) /\ DOMAIN t = 1..(Len(q) + 1)
              /\ \A x \in 1..Len(q) : t[x] = q[x]
              /\ t[Len(q) + 1] = j
          BY <4>1, AppendFacts
        <4>3. i \in 1..Len(q) /\ (k \in 1..Len(q) \/ k = Len(q) + 1) /\ t[i] = q[i]
          BY <2>1, <4>2 DEF t
        <4>4. CASE k \in 1..Len(q)
          BY <1>0, <2>1, <4>2, <4>3, <4>4 DEF Sound, Ordered, q, t
        <4>5. CASE k = Len(q) + 1
          <5>1. q[i] \in ToSet(q)
            BY <4>2, <4>3 DEF ToSet
          <5>2. Waits(a, q[i].ver)
            BY <2>1, <4>3, <5>1 DEF Waits, q, t
          <5>3. q[i].ver < j.ver
            BY <5>2 DEF InLine
          <5> QED
            BY <4>2, <4>3, <4>5, <5>3 DEF t
        <4> QED
          BY <4>3, <4>4, <4>5
      <3> QED
        BY <1>f, <3>1, <3>2
    <2>2. Working(a)' => \A u \in Versions : Waits(a, u)' => worker'[a].job.ver < u
      <3>1. Working(a) => InLine(a, worker[a].job.ver) /\ worker'[a] = worker[a]
        BY <1>e, <1>d DEF InLine, Working
      <3> QED
        BY <1>0, <1>e, <1>f, <3>1 DEF Sound, Ordered
    <2>3. \A u \in Versions : InLine(a, u)' =>
            /\ \A v \in backlog'[a] : u < v
            /\ \A v \in Versions : InHand(a, v)' => u < v
            /\ \A r \in Resumers : lock'[a] = r => \A v \in resumer'[r].rest : u < v
      <3>1. \A u \in Versions : InLine(a, u) =>
                /\ \A v \in backlog'[a] : u < v
                /\ \A v \in Versions : InHand(a, v)' => u < v
                /\ \A r \in Resumers : lock'[a] = r => \A v \in resumer'[r].rest : u < v
        BY <1>0 DEF Sound, Ordered
      <3> QED
        BY <1>f, <3>1
    <2> QED
      BY <2>1, <2>2, <2>3 DEF Ordered
  <1>5. Handling(a)' /\ NoneBefore(a)'
    <2>1. \A s \in {"attempt", "wait", "giveUp", "letter", "ack"} : s \in Carrying
      BY DEF Carrying, Delivering
    <2> QED
      BY <1>0, <1>e, <2>1 DEF Sound, Handling, NoneBefore, SameHistory
  <1>6. LeftAccepted(a)'
    BY <1>0, <1>w, LeftKept DEF Sound
  <1>7. Resumable(a)'
    <2> SUFFICES ASSUME ~DirtyReads PROVE Resumable(a)'
      BY DEF Resumable
    <2>1. ~reg'[a].parked => \A v \in Pending(a)' : Underway(a, v) => Underway(a, v)'
      <3>1. \A v \in Pending(a) : InLine(a, v)' => Underway(a, v)'
        BY DEF Underway
      <3> QED
        BY <1>e, <1>f, <1>p, <3>1 DEF SamePark
    <2>2. ASSUME NEW r \in Resumers, IsPark(reg'[a], resumer'[r].parks[a]), NEW v \in Pending(a)',
                 InHand(a, v)
          PROVE  InHand(a, v)' \/ v \in reg'[a].undelivered
      <3>1. reg[a].parked
        BY <1>r, <2>2 DEF IsPark
      <3> QED
        BY <1>f, <1>p, <2>2, <3>1 DEF IsAcked
    <2>3. reg[a].undelivered \subseteq reg'[a].undelivered
      BY <1>f
    <2>4. ~reg'[a].parked => ~reg[a].parked
      BY <1>e DEF SamePark
    <2> QED
      BY <1>r, <2>1, <2>2, <2>3, <2>4, ResumableKept
  <1>8. InTurn(a)'
    <2> SUFFICES ASSUME ~DirtyReads PROVE InTurn(a)'
      BY DEF InTurn
    <2>1. \A u \in Versions : Waits(a, u)' \/ u \in reg'[a].undelivered =>
                Waits(a, u) \/ u \in reg[a].undelivered \/ Due(a, u)
      BY <1>f
    <2> QED
      BY <1>e, <1>d, <1>w, <1>r, <2>1, InTurnKept DEF SameHistory
  <1> QED
    BY <1>1, <1>2, <1>3, <1>4, <1>5, <1>6, <1>7, <1>8

-----------------------------------------------------------------------------
(* Who enqueues: a command, a Forget, a Resume and Recover.                *)

\* What holds of an aggregate whatever the others do.
SoundHere(a) ==
    /\ Logged(a) /\ Matched(a) /\ Halted(a) /\ Ordered(a) /\ Fenced(a) /\ Handling(a)
    /\ LeftAccepted(a) /\ Resumable(a) /\ NoneBefore(a) /\ InTurn(a)

\* Without a Forget there is no marker to speak of.
LEMMA NoFenceNeeded ==
  ASSUME NEW a \in Aggs, forget'[a].st = "none"
  PROVE  Fenced(a)'
  BY DEF Fenced

\* No Resume call has the name of another holder of the lock.
LEMMA ResumerNames ==
  \A r \in Resumers : r # "free" /\ r # "command" /\ r # "tombstone" /\ r # "forget"
  BY DeliveryConstants

\* The calls of Resume stay, in the form EnqueueSound asks for.
LEMMA ResumersUnchanged ==
  ASSUME Shape, UNCHANGED resumer
  PROVE  \A r \in Resumers :
            /\ resumer'[r].st = resumer[r].st /\ resumer'[r].todo = resumer[r].todo
            /\ resumer'[r].parks = resumer[r].parks /\ resumer'[r].scanned = resumer[r].scanned
            /\ resumer'[r].rest \subseteq resumer[r].rest
  OBVIOUS

\* A command enqueues the event it has committed.
LEMMA EnqueueCommittedSound ==
  ASSUME Good, NEW a \in Aggs, EnqueueCommitted(a)
  PROVE  SoundHere(a)'
  <1>0. Sound(a) /\ Shape /\ HistoryOK
    BY DEF Good
  <1>1. PICK j : j = Job(Len(stream[a]), Last(stream[a]), TRUE)
    OBVIOUS
  <1>2. /\ lock[a] = "command" /\ Enqueue(a, j) /\ lock' = [lock EXCEPT ![a] = "free"]
        /\ UNCHANGED <<stream, log, fence, forget, resumer, backlog, handled, letters, started>>
    BY <1>1 DEF EnqueueCommitted, store, process, history
  <1>3. lock'[a] = "free" /\ forget[a].st = "none" /\ up /\ backlog[a] = {}
    BY <1>0, <1>2 DEF Sound, Guarded, Shape, ExecOK
  <1>4. /\ stream[a] \in Seq(Kinds) /\ Len(stream[a]) \in Versions
        /\ Last(stream[a]) = stream[a][Len(stream[a])] /\ Last(stream[a]) \in Kinds
    <2>1. stream[a] # <<>> /\ stream[a] \in Seq(Kinds)
      BY <1>0, <1>2, ShapeAt DEF Shape, ExecOK
    <2>2. Len(stream[a]) \in 1..Len(stream[a])
      BY <2>1, EmptySeq, LenProperties
    <2> QED
      BY <1>0, <2>1, <2>2, ShapeAt DEF Last
  <1>5. j \in Jobs /\ j.ver = Len(stream[a]) /\ j.kind = stream[a][Len(stream[a])]
    BY <1>1, <1>4 DEF Job, Jobs
  <1>6. Len(stream[a]) \in Nat
    BY <1>4 DEF Versions
  <1>7. /\ stream'[a] = stream[a] /\ Pending(a)' = Pending(a) /\ SameHistory(a)
        /\ backlog'[a] \subseteq backlog[a] /\ forget'[a].st = "none"
    BY <1>2, <1>3, PendingSame DEF SameHistory
  <1>8. \A u : InLine(a, u) => u < j.ver
    <2>1. InHand(a, j.ver) /\ j.ver \in Versions
      BY <1>2, <1>4, <1>5 DEF InHand
    <2>2. \A u : InLine(a, u) => u \in Versions
      BY <1>0, JobVersions
    <2> QED
      BY <1>0, <2>1, <2>2 DEF Sound, Ordered
  <1>9. Due(a, j.ver)
    BY <1>5, <1>6 DEF Due, Current
  <1>10. \A u : ~InHand(a, u)'
    BY <1>3, <1>7 DEF InHand
  <1>11. \A v : InHand(a, v) => v = j.ver
    BY <1>5 DEF InHand
  <1>12. \A r \in Resumers : lock[a] # r /\ lock'[a] # r
    BY <1>2, <1>3, ResumerNames
  <1>13. \A v \in Pending(a) : Underway(a, v) => InLine(a, v) \/ v = j.ver
    BY <1>3, <1>11, <1>12 DEF Underway
  <1>14. \A r \in Resumers :
            /\ resumer'[r].st = resumer[r].st /\ resumer'[r].todo = resumer[r].todo
            /\ resumer'[r].parks = resumer[r].parks /\ resumer'[r].scanned = resumer[r].scanned
            /\ resumer'[r].rest \subseteq resumer[r].rest
    BY <1>0, <1>2, ResumersUnchanged
  <1>15. /\ Logged(a)' /\ Matched(a)' /\ Halted(a)' /\ Ordered(a)' /\ Handling(a)'
         /\ LeftAccepted(a)' /\ Resumable(a)' /\ NoneBefore(a)' /\ InTurn(a)'
    BY <1>2, <1>3, <1>5, <1>6, <1>7, <1>8, <1>9, <1>10, <1>11, <1>12, <1>13, <1>14, EnqueueSound
  <1> QED
    BY <1>7, <1>15, NoFenceNeeded DEF SoundHere

\* Recover enqueues the next event of the backlog.
LEMMA RecoverSound ==
  ASSUME Good, NEW a \in Aggs, Recover(a)
  PROVE  SoundHere(a)'
  <1>0. Sound(a) /\ Shape /\ HistoryOK
    BY DEF Good
  <1>1. PICK v \in backlog[a] :
            /\ \A u \in backlog[a] : v <= u
            /\ Enqueue(a, Job(v, stream[a][v], FALSE))
            /\ backlog' = [backlog EXCEPT ![a] = @ \ {v}]
    BY DEF Recover
  <1>2. PICK j : j = Job(v, stream[a][v], FALSE)
    OBVIOUS
  <1>3. /\ Enqueue(a, j) /\ ~up
        /\ UNCHANGED <<stream, log, lock, fence, forget, resumer, handled, letters, started>>
    BY <1>1, <1>2 DEF Recover, store, exec, history
  <1>4. /\ v \in 1..Len(stream[a]) /\ v \in Versions /\ v \in Nat /\ v <= Len(stream[a])
        /\ stream[a][v] \in Kinds
    BY <1>0, ShapeAt DEF Versions
  <1>5. j \in Jobs /\ j.ver = v /\ j.kind = stream[a][v]
    BY <1>2, <1>4 DEF Job, Jobs
  <1>6. lock[a] = "free" /\ lock'[a] = "free" /\ forget[a].st = "none" /\ forget'[a].st = "none"
    BY <1>0, <1>3 DEF Sound, Guarded, Shape, ExecOK
  <1>7. /\ stream'[a] = stream[a] /\ Pending(a)' = Pending(a) /\ SameHistory(a)
        /\ backlog'[a] = backlog[a] \ {v} /\ backlog'[a] \subseteq backlog[a]
    <2>1. backlog \in [Aggs -> SUBSET Versions]
      BY <1>0 DEF Shape, StoreOK
    <2> QED
      BY <1>1, <1>3, <2>1, PendingSame DEF SameHistory
  <1>8. \A u : InLine(a, u) => u < j.ver
    <2>2. \A u : InLine(a, u) => u \in Versions
      BY <1>0, JobVersions
    <2> QED
      BY <1>0, <1>5, <2>2 DEF Sound, Ordered
  <1>9. Due(a, j.ver)
    BY <1>0, <1>5 DEF Sound, Logged, Due
  <1>10. \A u : ~InHand(a, u)' /\ ~InHand(a, u)
    BY <1>6 DEF InHand
  <1>12. \A r \in Resumers : lock[a] # r /\ lock'[a] # r
    BY <1>6, ResumerNames
  <1>13. \A x \in Pending(a) : Underway(a, x) => InLine(a, x) \/ x = j.ver \/ Underway(a, x)'
    BY <1>5, <1>7, <1>10, <1>12 DEF Underway
  <1>14. \A r \in Resumers :
            /\ resumer'[r].st = resumer[r].st /\ resumer'[r].todo = resumer[r].todo
            /\ resumer'[r].parks = resumer[r].parks /\ resumer'[r].scanned = resumer[r].scanned
            /\ resumer'[r].rest \subseteq resumer[r].rest
    BY <1>0, <1>3, ResumersUnchanged
  <1>16. \A x \in backlog'[a] : j.ver < x
    <2>1. \A x \in backlog[a] : x \in Nat
      BY <1>0, ShapeAt
    <2> QED
      BY <1>1, <1>4, <1>5, <1>7, <2>1
  <1>15. /\ Logged(a)' /\ Matched(a)' /\ Halted(a)' /\ Ordered(a)' /\ Handling(a)'
         /\ LeftAccepted(a)' /\ Resumable(a)' /\ NoneBefore(a)' /\ InTurn(a)'
    BY <1>3, <1>4, <1>5, <1>6, <1>7, <1>8, <1>9, <1>10, <1>12, <1>13, <1>14, <1>16, EnqueueSound
  <1> QED
    BY <1>6, <1>15, NoFenceNeeded DEF SoundHere

\* While a Resume or a command has the lock, the marker is past its delivery.
LEMMA LockedMarker ==
  ASSUME Good, NEW a \in Aggs, lock[a] # "free"
  PROVE  /\ ~MarkerWaits(a) /\ ~MarkerInDelivery(a) /\ ~MarkerDelivered(a)
         /\ MarkerEnds(a) => ~worker[a].ok
         /\ forget[a].st # "erase" /\ ~(forget[a].st = "waiting" /\ Outcome(a) = "ok")
  <1>0. Sound(a)
    BY DEF Good
  <1>1. ~MarkerWaits(a) /\ ~MarkerInDelivery(a) /\ ~MarkerDelivered(a)
    BY DEF MarkerWaits, MarkerInDelivery, MarkerDelivered
  <1> QED
    BY <1>0, <1>1 DEF Sound, Fenced, MarkerEnds

\* A Forget that is past its enqueue fears nothing once its delivery has ended badly.
LEMMA SpoiltMarker ==
  ASSUME Good, NEW a \in Aggs, lock[a] # "free" \/ reg[a].parked,
         forget'[a] = forget[a], forget[a].st \notin {"committed", "superseded"},
         NEW X, Spoils(a, X),
         worker[a].st = "finish" => /\ worker'[a].st = "finish" /\ worker'[a].job = worker[a].job
                                    /\ worker'[a].ok = worker[a].ok
  PROVE  Fenced(a)'
  <1>0. Sound(a) /\ Shape
    BY DEF Good
  <1>1. ~MarkerWaits(a) /\ ~MarkerInDelivery(a) /\ ~MarkerDelivered(a)
    BY DEF MarkerWaits, MarkerInDelivery, MarkerDelivered
  <1>2. /\ MarkerEnds(a) => ~worker[a].ok
        /\ forget[a].st # "erase" /\ ~(forget[a].st = "waiting" /\ Outcome(a) = "ok")
    BY <1>0, <1>1 DEF Sound, Fenced, MarkerEnds
  <1>3. forget[a].st # "none" => Outcome(a)' \in {Outcome(a), "err"}
    BY <1>0, OutcomeSpoilt
  <1>4. MarkerEnds(a) => MarkerEnds(a)'
    BY <1>2 DEF MarkerEnds
  <1> QED
    BY <1>0, <1>1, <1>2, <1>3, <1>4 DEF Sound, Fenced

\* A Resume enqueues the next event of what it found.
LEMMA RedeliverSound ==
  ASSUME Good, NEW r \in Resumers, NEW a \in Aggs, Redeliver(r, a)
  PROVE  SoundHere(a)'
  <1>0. Sound(a) /\ Shape /\ HistoryOK
    BY DEF Good
  <1>1. PICK v \in resumer[r].rest :
            /\ v \in DOMAIN stream[a]
            /\ \A u \in resumer[r].rest : v <= u
            /\ Enqueue(a, Job(v, stream[a][v], FALSE))
            /\ resumer' = [resumer EXCEPT ![r].rest = @ \ {v}]
    BY DEF Redeliver
  <1>2. PICK j : j = Job(v, stream[a][v], FALSE)
    OBVIOUS
  <1>3. /\ Enqueue(a, j) /\ lock[a] = r
        /\ UNCHANGED <<stream, log, lock, fence, forget, backlog, handled, letters, started>>
    BY <1>1, <1>2 DEF Redeliver, store, exec, process, history
  <1>4. /\ v \in 1..Len(stream[a]) /\ v \in Versions /\ v \in Nat /\ v <= Len(stream[a])
        /\ stream[a][v] \in Kinds
    BY <1>0, <1>1, ShapeAt DEF Versions
  <1>5. j \in Jobs /\ j.ver = v /\ j.kind = stream[a][v]
    BY <1>2, <1>4 DEF Job, Jobs
  <1>6. /\ lock[a] # "free" /\ lock[a] # "command" /\ lock'[a] = lock[a] /\ forget'[a] = forget[a]
        /\ forget[a].st \notin {"committed", "superseded"} /\ backlog[a] = {}
    BY <1>0, <1>3, ResumerNames DEF Sound, Guarded, Shape, ExecOK
  <1>7. /\ stream'[a] = stream[a] /\ Pending(a)' = Pending(a) /\ SameHistory(a)
        /\ backlog'[a] = backlog[a]
    BY <1>3, PendingSame DEF SameHistory
  <1>8. \A u : InLine(a, u) => u < j.ver
    <2>2. \A u : InLine(a, u) => u \in Versions
      BY <1>0, JobVersions
    <2> QED
      BY <1>0, <1>3, <1>5, <2>2 DEF Sound, Ordered
  <1>9. ~DirtyReads => Due(a, j.ver)
    BY <1>0, <1>3, <1>5 DEF Sound, InTurn
  <1>10. \A u : ~InHand(a, u)' /\ ~InHand(a, u)
    BY <1>6 DEF InHand
  <1>11. /\ \A q \in Resumers \ {r} : resumer'[q] = resumer[q]
         /\ resumer'[r].st = resumer[r].st /\ resumer'[r].todo = resumer[r].todo
         /\ resumer'[r].parks = resumer[r].parks /\ resumer'[r].scanned = resumer[r].scanned
         /\ resumer'[r].rest = resumer[r].rest \ {v}
    <2>1. resumer = [q \in Resumers |-> resumer[q]] /\ IsResumer(resumer[r])
      BY <1>0 DEF Shape, IInv, ResumersOK
    <2>2. PICK x : x = [resumer[r] EXCEPT !.rest = @ \ {v}]
      OBVIOUS
    <2>3. resumer' = [resumer EXCEPT ![r] = x]
      BY <1>1, <2>2
    <2>4. x.st = resumer[r].st /\ x.todo = resumer[r].todo /\ x.parks = resumer[r].parks
          /\ x.scanned = resumer[r].scanned /\ x.rest = resumer[r].rest \ {v}
      BY <2>1, <2>2 DEF IsResumer
    <2>5. resumer'[r] = x /\ \A q \in Resumers \ {r} : resumer'[q] = resumer[q]
      BY <2>1, <2>3
    <2> QED
      BY <2>4, <2>5
  <1>12. \A q \in Resumers : lock[a] = q \/ lock'[a] = q => q = r
    BY <1>3
  <1>13. \A x \in Pending(a) : Underway(a, x) => InLine(a, x) \/ x = j.ver \/ Underway(a, x)'
    BY <1>5, <1>6, <1>7, <1>10, <1>11, <1>12 DEF Underway
  <1>14. \A q \in Resumers :
            /\ resumer'[q].st = resumer[q].st /\ resumer'[q].todo = resumer[q].todo
            /\ resumer'[q].parks = resumer[q].parks /\ resumer'[q].scanned = resumer[q].scanned
            /\ resumer'[q].rest \subseteq resumer[q].rest
    BY <1>11
  <1>16. \A x \in resumer'[r].rest : j.ver < x
    <2>1. \A x \in resumer[r].rest : x \in Nat
      BY <1>0 DEF Shape, ScansOK, Versions
    <2> QED
      BY <1>1, <1>4, <1>5, <1>11, <2>1
  <1>15. /\ Logged(a)' /\ Matched(a)' /\ Halted(a)' /\ Ordered(a)' /\ Handling(a)'
         /\ LeftAccepted(a)' /\ Resumable(a)' /\ NoneBefore(a)' /\ InTurn(a)'
    BY <1>3, <1>4, <1>5, <1>6, <1>7, <1>8, <1>9, <1>10, <1>12, <1>13, <1>14, <1>16, EnqueueSound
  <1>17. Fenced(a)'
    <2>1. PICK X : X = {j.ver}
      OBVIOUS
    <2>2. Spoils(a, X)
      BY <1>0, <1>3, <2>1, EnqueueSpoils
    <2>3. worker[a].st = "finish" => worker'[a] = worker[a]
      BY <1>3, <1>5, EnqueueWords DEF Carrying
    <2> QED
      BY <1>6, <2>2, <2>3, SpoiltMarker
  <1> QED
    BY <1>15, <1>17 DEF SoundHere

\* A Forget enqueues its deletion marker.
LEMMA EnqueueTombstoneSound ==
  ASSUME Good, NEW a \in Aggs, EnqueueTombstone(a)
  PROVE  SoundHere(a)'
  <1>0. Sound(a) /\ Shape /\ HistoryOK
    BY DEF Good
  <1>1. PICK j : j = Job(forget[a].ver, "forget", TRUE)
    OBVIOUS
  <1>2. /\ forget[a].st = "superseded" /\ Enqueue(a, j) /\ lock' = [lock EXCEPT ![a] = "free"]
        /\ forget' = [forget EXCEPT ![a].st = "waiting"]
        /\ UNCHANGED <<stream, log, fence, resumer, backlog, handled, letters, started>>
    BY <1>1 DEF EnqueueTombstone, ForgetAt, store, process, history
  <1>3. lock'[a] = "free" /\ lock[a] = "forget" /\ up /\ backlog[a] = {}
        /\ forget'[a].st = "waiting" /\ forget'[a].ver = forget[a].ver
    BY <1>0, <1>2 DEF Sound, Guarded, Shape, ExecOK
  <1>4. /\ forget[a].ver \in Versions /\ forget[a].ver = Len(stream[a])
        /\ stream[a][Len(stream[a])] = "forget" /\ Len(stream[a]) \in Nat
    BY <1>0, <1>2, ShapeAt DEF Sound, Guarded, Shape, ExecOK
  <1>5. j \in Jobs /\ j.ver = Len(stream[a]) /\ j.kind = "forget" /\ j.ver = forget[a].ver
    BY <1>1, <1>4 DEF Job, Jobs, Kinds
  <1>7. /\ stream'[a] = stream[a] /\ Pending(a)' = Pending(a) /\ SameHistory(a)
        /\ backlog'[a] \subseteq backlog[a]
    BY <1>2, <1>3, PendingSame DEF SameHistory
  <1>s. /\ Pending(a) = {forget[a].ver} /\ Outcome(a) = "no"
        /\ \A k \in ToSet(reg[a].jobs) : k.ver # forget[a].ver /\ IsLive(k)
        /\ worker[a].st \in Carrying => worker[a].job.ver # forget[a].ver
        /\ ~reg[a].parked /\ ~Working(a)
    BY <1>0, <1>2 DEF Sound, Fenced
  <1>8. \A u : ~InLine(a, u)
    BY <1>0, <1>s, QuietLine DEF Quiet
  <1>9. Due(a, j.ver)
    BY <1>4, <1>5 DEF Due, Current
  <1>10. \A u : ~InHand(a, u)'
    BY <1>3 DEF InHand
  <1>11. \A v : InHand(a, v) => v = j.ver
    BY <1>5 DEF InHand
  <1>12. \A r \in Resumers : lock[a] # r /\ lock'[a] # r
    BY <1>3, ResumerNames
  <1>13. \A v \in Pending(a) : v = j.ver
    BY <1>5, <1>s
  <1>14. \A r \in Resumers :
            /\ resumer'[r].st = resumer[r].st /\ resumer'[r].todo = resumer[r].todo
            /\ resumer'[r].parks = resumer[r].parks /\ resumer'[r].scanned = resumer[r].scanned
            /\ resumer'[r].rest \subseteq resumer[r].rest
    BY <1>0, <1>2, ResumersUnchanged
  <1>15. /\ Logged(a)' /\ Matched(a)' /\ Halted(a)' /\ Ordered(a)' /\ Handling(a)'
         /\ LeftAccepted(a)' /\ Resumable(a)' /\ NoneBefore(a)' /\ InTurn(a)'
    BY <1>2, <1>3, <1>4, <1>5, <1>7, <1>8, <1>9, <1>10, <1>11, <1>12, <1>13, <1>14, EnqueueSound
  <1>16. Fenced(a)'
    <2>1. /\ reg'[a].jobs = Append(reg[a].jobs, j) /\ ~reg'[a].parked
          /\ ~Working(a)' /\ (worker'[a].st \in Carrying => worker'[a].job.ver # forget[a].ver)
      BY <1>2, <1>5, <1>s, EnqueueWords DEF SamePark
    <2>2. MarkerWaits(a)'
      <3> DEFINE q == reg[a].jobs
                 t == reg'[a].jobs
      <3>1. q \in Seq(Jobs) /\ t = Append(q, j)
        BY <1>0, <2>1, ShapeAt DEF QueueOK
      <3>2. \A k \in ToSet(q) : k.ver # forget[a].ver /\ IsLive(k)
        BY <1>s
      <3> HIDE DEF q, t
      <3>3. /\ Len(q) \in Nat /\ DOMAIN q = 1..Len(q) /\ Len(t) = Len(q) + 1 /\ t # <<>>
            /\ \A x \in 1..Len(q) : t[x] = q[x]
            /\ t[Len(q) + 1] = j
        BY <1>5, <3>1, AppendFacts
      <3>4. \A i \in 1..Len(q) : q[i] \in ToSet(q)
        BY <3>3 DEF ToSet
      <3>5. \A i \in 1..(Len(t) - 1) : IsLive(t[i]) /\ t[i].ver # forget[a].ver
        BY <3>2, <3>3, <3>4
      <3>6. t # <<>> /\ t[Len(t)] = Job(forget[a].ver, "forget", TRUE)
        BY <1>1, <3>3
      <3>7. Pending(a)' = {forget[a].ver}
        BY <1>7, <1>s
      <3> QED
        BY <1>3, <2>1, <3>5, <3>6, <3>7 DEF MarkerWaits, t
    <2>3. Outcome(a)' = "no"
      <3>1. UNCHANGED ticket
        <4>1. ~Refuses(reg[a], j)
          BY <1>s DEF Refuses
        <4> QED
          BY <1>0, <1>2, <4>1, EnqueueSpoils
      <3> QED
        BY <1>3, <1>s, <3>1 DEF Outcome
    <2> QED
      BY <1>3, <2>2, <2>3 DEF Fenced
  <1> QED
    BY <1>15, <1>16 DEF SoundHere

=============================================================================
