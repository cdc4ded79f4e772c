--------------------------- MODULE AggregateRecord ---------------------------
(***************************************************************************)
(* The record the dispatcher's registry keeps per aggregate                *)
(* (dispatcher/internal/aggregates/record.go) and what each operation of   *)
(* aggregate_registry.go makes of it.  Every operation runs under one hold *)
(* of the registry's mutex, so each is an operator from the old record to  *)
(* the new one; `Absent' is the record of an aggregate that has none.      *)
(*                                                                         *)
(* A job is a record [ver, kind, fresh]: the event's version, its kind     *)
(* ("live" has no Ack; "durable" and "forget" have one) and whether it is  *)
(* the event's first dispatch or a redelivery.                             *)
(*                                                                         *)
(* A halt channel matters by whether it is closed.  `shut' says so of the  *)
(* record's channel.  A worker that popped a job took the channel of that  *)
(* moment: it is the record's ("same") until the record gets a new one,    *)
(* and then an old channel that is closed ("shut") or that nobody can      *)
(* close any more ("open").                                                *)
(***************************************************************************)
EXTENDS Naturals, SequencesExt

Absent == [exists |-> FALSE, jobs |-> <<>>, worker |-> FALSE, wake |-> FALSE,
           shut |-> FALSE, parked |-> FALSE, gen |-> 0, undelivered |-> {}]

IsLive(j) == j.kind = "live"

IsAcked(j) == ~IsLive(j)

\* The versions of the jobs of queue q that pass test T.
VersionsOf(q, T(_)) == {q[i].ver : i \in {n \in DOMAIN q : T(q[n])}}

\* What a sequence holds of set T, in order: SelectSeq with a set for its test.
Keep(s, T) ==
    LET kept[n \in 0..Len(s)] ==
            IF n = 0 THEN <<>>
            ELSE IF s[n] \in T THEN Append(kept[n - 1], s[n]) ELSE kept[n - 1]
    IN  kept[Len(s)]

-----------------------------------------------------------------------------
\* A record has a new, open halt channel.
RecordOf(r) == [r EXCEPT !.exists = TRUE]

EnsureWorker(r) ==
    IF r.worker THEN r
    ELSE [r EXCEPT !.worker = TRUE, !.wake = FALSE, !.shut = FALSE]

\* A parked aggregate takes no job that carries an Ack.
Refuses(r, j) == r.parked /\ IsAcked(j)

Spawns(r, j) == ~Refuses(r, j) /\ ~r.worker

\* Slip: the worker is not woken.
EnqueuedSilently(r, j) ==
    IF Refuses(r, j)
    THEN [r EXCEPT !.undelivered = @ \cup {j.ver}]
    ELSE [EnsureWorker(RecordOf(r)) EXCEPT !.jobs = Append(@, j)]

Enqueued(r, j) ==
    IF Refuses(r, j)
    THEN [r EXCEPT !.undelivered = @ \cup {j.ver}]
    ELSE [EnsureWorker(RecordOf(r)) EXCEPT !.jobs = Append(@, j), !.wake = TRUE]

Popped(r) == [r EXCEPT !.jobs = Tail(@)]

\* A record without jobs, worker, park or undelivered versions is deleted.
DiscardIfEmpty(r) ==
    IF r.worker \/ r.jobs # <<>> \/ r.parked \/ r.undelivered # {} THEN r ELSE Absent

Retired(r) == DiscardIfEmpty([r EXCEPT !.worker = FALSE])

(***************************************************************************)
(* park, and the versions Park adds.  A record that is parked already      *)
(* keeps its generation and its jobs; otherwise its halt is closed, the    *)
(* jobs with an Ack leave memory and are recorded, and the live ones stay. *)
(***************************************************************************)
Parked(r, g, versions) ==
    IF r.parked
    THEN [r EXCEPT !.undelivered = @ \cup versions]
    ELSE [r EXCEPT !.exists = TRUE,
                   !.parked = TRUE,
                   !.gen = g,
                   !.shut = TRUE,
                   !.jobs = Keep(@, {j \in ToSet(@) : IsLive(j)}),
                   !.undelivered = @ \cup VersionsOf(r.jobs, IsAcked) \cup versions]

\* Slip: the halt channel the park closed stays in the record.
LiftedKeepsHalt(r) ==
    DiscardIfEmpty([r EXCEPT !.parked = FALSE, !.gen = 0, !.undelivered = {}])

\* lift: the park is forgotten and the record gets a new halt channel.
Lifted(r) ==
    DiscardIfEmpty([r EXCEPT !.parked = FALSE, !.gen = 0, !.undelivered = {}, !.shut = FALSE])

\* Slip: the generation is not compared.
IsAnyPark(r, g) == r.parked

\* Lift acts on the park the caller listed and on no other.
IsPark(r, g) == r.parked /\ r.gen = g

-----------------------------------------------------------------------------
(* The halt channel h of a worker, with r the aggregate's record.          *)

IsClosed(h, r) == h = "shut" \/ (h = "same" /\ r.shut)

\* What h becomes when r's channel is replaced.
Replaced(h, r) == CASE h = "same" /\ r.shut -> "shut"
                    [] h = "same" /\ ~r.shut -> "open"
                    [] OTHER -> h

=============================================================================
