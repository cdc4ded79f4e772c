------------------------------ MODULE WritePath ------------------------------
(***************************************************************************)
(* The write path of a command against the store, under the aggregate's    *)
(* lock: the receipt check, the load from snapshot and events, validation, *)
(* the one transaction of event and receipt, and the snapshot              *)
(* (internal/processor/exec, internal/eventstore); Forget's tombstone and  *)
(* erase; and Get and Preload, which take no lock.  Delivery of the        *)
(* committed events is module Delivery.                                    *)
(*                                                                         *)
(* The store is store/memory.go: transactions exclude each other, reads do *)
(* not wait for them and see their writes.  One action is one call of the  *)
(* store or of the snapshot store.  An event is a pair <<version, id>>, a  *)
(* stream a set of events, and the state of an aggregate is abstracted to  *)
(* the set of the events that were applied to build it.                    *)
(***************************************************************************)
EXTENDS Naturals, FiniteSets

CONSTANTS
    Aggs,           \* aggregate ids
    Legacy,         \* aggregates whose stream begins with an event of an old schema
    CommandIDs,     \* ids of idempotent commands
    NoID,           \* the id of a command that is not idempotent
    Callers,        \* goroutines that run commands, Forget and Get
    Nobody,         \* no caller
    MaxCalls,       \* bound: commands and Forgets
    MaxFaults,      \* bound: failures of the store, of projections and of delivery,
                    \* and crashes of the process
    MayCrash        \* BOOLEAN: whether the process may crash

ASSUME WritePathConstants ==
    /\ Legacy \subseteq Aggs
    /\ NoID \notin CommandIDs
    /\ Nobody \notin Callers
    /\ {MaxCalls, MaxFaults} \subseteq Nat
    /\ MayCrash \in BOOLEAN

VARIABLES
    stream,         \* store: stream[a], the events of a
    receipts,       \* store: receipts[c], the decision on command id c
    tx,             \* store: the open transaction and what it will restore
    snapshot,       \* snapshot store: snapshot[a]
    lock,           \* executor: who holds a's command lock
    fence,          \* executor: aggregates being forgotten
    call,           \* what each caller is doing
    calls, faults,  \* budgets used
    author,         \* history: author[i], the command id that wrote event i
    commits,        \* history: the ids of the events committed
    told            \* history: told[c], the decisions reported for c

store == <<stream, receipts, tx>>
executor == <<lock, fence>>
history == <<author, commits, told>>
vars == <<store, snapshot, executor, call, calls, faults, history>>

IDs == 1..MaxCalls

(***************************************************************************)
(* Events written by an earlier build carry id 0; reading one upcasts it.  *)
(***************************************************************************)
OldEvent == <<1, 0>>

NoReceipt == [kind |-> "none"]
Rejected == [kind |-> "rejected"]
Accepted(a, v, i) == [kind |-> "accepted", agg |-> a, ver |-> v, id |-> i]

SnapshotOf(v, s) == [ver |-> v, state |-> s]
NoSnapshot == SnapshotOf(0, {})

NoTx == [by |-> Nobody, stream |-> <<>>, receipts |-> <<>>]

\* agg, ver, id: the event written or, in an answer, the event of the receipt.
Idle == [op |-> "none", st |-> "idle", on |-> Nobody, cmd |-> NoID, state |-> {},
         agg |-> Nobody, ver |-> 0, id |-> 0]

Fail == faults < MaxFaults /\ faults' = faults + 1

Goto(p, st) == call' = [call EXCEPT ![p].st = st]

\* The deferred unlock.
Unlocked(p) == [a \in Aggs |-> IF lock[a] = p THEN Nobody ELSE lock[a]]

\* The call returns; a Forget that has not erased takes its fence down.
Return(p) ==
    /\ call' = [call EXCEPT ![p] = Idle]
    /\ lock' = Unlocked(p)
    /\ fence' = IF call[p].op = "forget" THEN fence \ {call[p].on} ELSE fence

-----------------------------------------------------------------------------
(* The start of a command, of a Forget and of a Get.                       *)

Begin(p, a, op, c, st) ==
    /\ call[p] = Idle
    /\ call' = [call EXCEPT ![p] =
            [Idle EXCEPT !.op = op, !.st = st, !.on = a, !.cmd = c, !.agg = a,
                         !.id = IF op = "get" THEN 0 ELSE calls + 1]]

\* A command is refused while the aggregate is being forgotten.
Execute(p, a, c) ==
    /\ calls < MaxCalls
    /\ lock[a] = Nobody
    /\ a \notin fence
    /\ Begin(p, a, "command", c, IF c = NoID THEN "snapshot" ELSE "receipt")
    /\ lock' = [lock EXCEPT ![a] = p]
    /\ calls' = calls + 1
    /\ UNCHANGED <<store, snapshot, fence, faults, history>>

Forget(p, a) ==
    /\ calls < MaxCalls
    /\ lock[a] = Nobody
    /\ a \notin fence
    /\ Begin(p, a, "forget", NoID, "snapshot")
    /\ lock' = [lock EXCEPT ![a] = p]
    /\ fence' = fence \cup {a}
    /\ calls' = calls + 1
    /\ UNCHANGED <<store, snapshot, faults, history>>

Get(p, a) ==
    /\ Begin(p, a, "get", NoID, "snapshot")
    /\ UNCHANGED <<store, snapshot, executor, calls, faults, history>>

-----------------------------------------------------------------------------
(* answerFromReceipt, at the start of a command ("receipt") and after its  *)
(* transaction or its rejection met another decision ("again").            *)

Tell(c, decision) == told' = IF c = NoID THEN told ELSE [told EXCEPT ![c] = @ \cup {decision}]

GetReceipt(p) ==
    LET r == receipts[call[p].cmd] IN
    /\ call[p].st \in {"receipt", "again"}
    /\ \/ /\ r.kind = "none" /\ call[p].st = "receipt"
          /\ Goto(p, "snapshot")
          /\ UNCHANGED <<executor, told>>
       \/ /\ r.kind = "none" /\ call[p].st = "again"
          /\ Return(p)
          /\ UNCHANGED told
       \/ /\ r.kind = "rejected"
          /\ Tell(call[p].cmd, "rejected")
          /\ Return(p)
       \/ /\ r.kind = "accepted"
          /\ call' = [call EXCEPT ![p].st = "replay", ![p].agg = r.agg, ![p].ver = r.ver,
                                  ![p].id = r.id]
          /\ UNCHANGED <<executor, told>>
    /\ UNCHANGED <<store, snapshot, calls, faults, author, commits>>

\* Slip: the event is matched by its version alone.
IsVersionOf(e, r) == e[1] = r.ver

\* The event of a receipt, by version and by id.
IsEventOf(e, r) == e[1] = r.ver /\ e[2] = r.id

\* A stream without the event is answered with what the receipt holds.
ReplayEvent(p) ==
    LET found == {e \in stream[call[p].agg] : IsEventOf(e, call[p])} IN
    /\ call[p].st = "replay"
    /\ call' = [call EXCEPT ![p].st = "answered",
                            ![p].id = IF found = {} THEN @ ELSE (CHOOSE e \in found : TRUE)[2]]
    /\ UNCHANGED <<store, snapshot, executor, calls, faults, history>>

Answer(p) ==
    /\ call[p].st = "answered"
    /\ Tell(call[p].cmd, "accepted")
    /\ Return(p)
    /\ UNCHANGED <<store, snapshot, calls, faults, author, commits>>

-----------------------------------------------------------------------------
(* Reader.load: snapshot, then the events after it.                        *)

\* A snapshot that cannot be decoded is ignored.
GetSnapshot(p) ==
    /\ call[p].st = "snapshot"
    /\ \/ /\ call' = [call EXCEPT ![p].st = "events", ![p].ver = snapshot[call[p].on].ver,
                                  ![p].state = snapshot[call[p].on].state]
          /\ UNCHANGED faults
       \/ /\ Fail
          /\ Goto(p, "events")
    /\ UNCHANGED <<store, snapshot, executor, calls, history>>

LastVersion(s) == IF s = {} THEN 0 ELSE CHOOSE v \in {e[1] : e \in s} : \A e \in s : e[1] <= v

EventsFrom(a, v) == {e \in stream[a] : e[1] >= v}

\* Hydrate; reading an old event upcasts, and the result is to be saved.
ReadFrom(p) ==
    LET c == call[p]
        events == EventsFrom(c.on, c.ver + 1)
        upcast == OldEvent \in events
    IN
    /\ c.st = "events"
    /\ call' = [call EXCEPT ![p] =
            IF c.op = "get" /\ ~upcast THEN Idle
            ELSE [c EXCEPT !.state = @ \cup events,
                           !.ver = IF events = {} THEN @ ELSE LastVersion(events),
                           !.st = CASE ~upcast -> "validate"
                                    [] upcast /\ c.op = "get" -> "guard"
                                    [] OTHER -> "save"]]
    /\ UNCHANGED <<store, snapshot, executor, calls, faults, history>>

\* Slip: the auto-snapshot of a lock-free read is written without the lock.
GuardNothing(p) ==
    /\ call[p].st = "guard"
    /\ Goto(p, "holds")
    /\ UNCHANGED <<store, snapshot, executor, calls, faults, history>>

\* WithLockIfFree: a lock-free read saves only what it can save under the lock.
Guard(p) ==
    LET a == call[p].on IN
    /\ call[p].st = "guard"
    /\ \/ /\ lock[a] = Nobody
          /\ lock' = [lock EXCEPT ![a] = p]
          /\ Goto(p, "holds")
       \/ /\ lock[a] # Nobody
          /\ call' = [call EXCEPT ![p] = Idle]
          /\ UNCHANGED lock
    /\ UNCHANGED <<store, snapshot, fence, calls, faults, history>>

\* Slip: the stream is taken to be unchanged.
HoldsAnything(a, s) == TRUE

\* streamHolds: the last event applied is still the stream's, by id.
StreamHolds(a, s) == \E e \in stream[a] : e \in s /\ e[1] = LastVersion(s)

CheckStream(p) ==
    /\ call[p].st = "holds"
    /\ \/ /\ StreamHolds(call[p].on, call[p].state)
          /\ Goto(p, "save")
          /\ UNCHANGED executor
       \/ /\ ~StreamHolds(call[p].on, call[p].state)
          /\ Return(p)
    /\ UNCHANGED <<store, snapshot, calls, faults, history>>

\* writeAutoSnapshot; a failed Put is dropped.
SaveUpcasted(p) ==
    LET c == call[p] IN
    /\ c.st = "save"
    /\ \/ snapshot' = [snapshot EXCEPT ![c.on] = SnapshotOf(c.ver, c.state)]
       \/ UNCHANGED snapshot
    /\ IF c.op = "get" THEN Return(p) ELSE Goto(p, "validate") /\ UNCHANGED executor
    /\ UNCHANGED <<store, calls, faults, history>>

-----------------------------------------------------------------------------
(* Validation, and the rejection that is recorded before it is reported.   *)

\* A Forget is rejected when there is nothing to forget, and then has no tombstone.
Validate(p) ==
    LET c == call[p] IN
    /\ c.st = "validate"
    /\ \/ /\ c.op = "forget" => c.state # {}
          /\ Goto(p, "append")
          /\ UNCHANGED executor
       \/ /\ c.op = "forget" => c.state = {}
          /\ IF c.cmd = NoID THEN Return(p) ELSE Goto(p, "reject") /\ UNCHANGED executor
    /\ UNCHANGED <<store, snapshot, calls, faults, history>>

\* Slip: a rejection that could not be recorded is reported all the same.
RecordRejectionOrNot(p) ==
    LET c == call[p].cmd IN
    /\ call[p].st = "reject"
    /\ tx = NoTx
    /\ \/ /\ receipts[c].kind = "none"
          /\ receipts' = [receipts EXCEPT ![c] = Rejected]
          /\ UNCHANGED faults
       \/ Fail /\ UNCHANGED receipts
    /\ Tell(c, "rejected")
    /\ Return(p)
    /\ UNCHANGED <<stream, tx, snapshot, calls, author, commits>>

RecordRejection(p) ==
    LET c == call[p].cmd IN
    /\ call[p].st = "reject"
    /\ tx = NoTx
    /\ \/ /\ receipts[c].kind = "none"
          /\ receipts' = [receipts EXCEPT ![c] = Rejected]
          /\ Tell(c, "rejected")
          /\ Return(p)
          /\ UNCHANGED faults
       \/ /\ receipts[c].kind # "none"
          /\ Goto(p, "again")
          /\ UNCHANGED <<receipts, executor, told, faults>>
       \/ /\ Fail
          /\ Return(p)
          /\ UNCHANGED <<receipts, told>>
    /\ UNCHANGED <<stream, tx, snapshot, calls, author, commits>>

-----------------------------------------------------------------------------
(* The transaction of the event and its receipt.                           *)

Open(p) == [by |-> p, stream |-> stream, receipts |-> receipts]

\* The version after the one that was loaded.
NextVersion(v) == v + 1

\* Append refuses a version that is taken.
VersionTaken(a, v) == \E e \in stream[a] : e[1] = v

AppendEvent(p) ==
    LET c == call[p]
        v == NextVersion(c.ver)
    IN
    /\ c.st = "append"
    /\ tx = NoTx
    /\ \/ /\ ~VersionTaken(c.on, v)
          /\ tx' = Open(p)
          /\ stream' = [stream EXCEPT ![c.on] = @ \cup {<<v, c.id>>}]
          /\ author' = [author EXCEPT ![c.id] = c.cmd]
          /\ call' = [call EXCEPT ![p].st = "hook", ![p].ver = v,
                                  ![p].state = @ \cup {<<v, c.id>>}]
          /\ UNCHANGED executor
       \/ /\ VersionTaken(c.on, v)
          /\ Return(p)
          /\ UNCHANGED <<tx, stream, author>>
    /\ UNCHANGED <<receipts, snapshot, calls, faults, commits, told>>

\* Slip: PutReceipt replaces a receipt that exists.
PutReceiptAlways(c, r) == receipts' = [receipts EXCEPT ![c] = r]

\* PutReceipt refuses an id that has been decided.
PutReceipt(c, r) == receipts[c].kind = "none" /\ receipts' = [receipts EXCEPT ![c] = r]

\* The hook up to the receipt: projections, which may fail, and PutReceipt.
Hook(p) ==
    LET c == call[p] IN
    /\ c.st = "hook"
    /\ \/ /\ IF c.cmd = NoID THEN UNCHANGED receipts
             ELSE PutReceipt(c.cmd, Accepted(c.on, c.ver, c.id))
          /\ Goto(p, "commit")
          /\ UNCHANGED faults
       \/ /\ c.cmd # NoID /\ receipts[c.cmd].kind # "none"
          /\ Goto(p, "duplicate")
          /\ UNCHANGED <<receipts, faults>>
       \/ /\ Fail
          /\ Goto(p, "undo")
          /\ UNCHANGED receipts
    /\ UNCHANGED <<stream, tx, snapshot, executor, calls, history>>

\* EnqueueDelivery is the last write that can fail.
Commit(p) ==
    /\ call[p].st = "commit"
    /\ \/ /\ tx' = NoTx
          /\ commits' = commits \cup {call[p].id}
          /\ Goto(p, "put")
          /\ UNCHANGED faults
       \/ /\ Fail
          /\ Goto(p, "undo")
          /\ UNCHANGED <<tx, commits>>
    /\ UNCHANGED <<stream, receipts, snapshot, executor, calls, author, told>>

\* Slip: the receipt is not rolled back.
RestoreStreams ==
    /\ stream' = tx.stream
    /\ tx' = NoTx
    /\ UNCHANGED receipts

\* rollback undoes every write of the transaction.
Restore ==
    /\ stream' = tx.stream
    /\ receipts' = tx.receipts
    /\ tx' = NoTx

Rollback(p) ==
    /\ call[p].st \in {"undo", "duplicate"}
    /\ Restore
    /\ IF call[p].st = "duplicate" THEN Goto(p, "again") /\ UNCHANGED executor ELSE Return(p)
    /\ UNCHANGED <<snapshot, calls, faults, history>>

\* Slip: the snapshot is filed under the version of the next event.
PutSnapshotAhead(p) ==
    LET c == call[p] IN
    /\ c.st = "put"
    /\ c.op = "command"
    /\ \/ snapshot' = [snapshot EXCEPT ![c.on] = SnapshotOf(NextVersion(c.ver), c.state)]
       \/ UNCHANGED snapshot
    /\ Tell(c.cmd, "accepted")
    /\ Return(p)
    /\ UNCHANGED <<store, calls, faults, author, commits>>

\* snapshotIfDue; then the event goes to the dispatcher and the lock is released.
PutSnapshot(p) ==
    LET c == call[p] IN
    /\ c.st = "put"
    /\ c.op = "command"
    /\ \/ snapshot' = [snapshot EXCEPT ![c.on] = SnapshotOf(c.ver, c.state)]
       \/ UNCHANGED snapshot
    /\ Tell(c.cmd, "accepted")
    /\ Return(p)
    /\ UNCHANGED <<store, calls, faults, author, commits>>

-----------------------------------------------------------------------------
(* Forget, from its committed tombstone to the erase.                      *)

EnqueueTombstone(p) ==
    /\ call[p].st = "put"
    /\ call[p].op = "forget"
    /\ lock' = Unlocked(p)
    /\ Goto(p, "await")
    /\ UNCHANGED <<store, snapshot, fence, calls, faults, history>>

\* The subscribers take the tombstone (module Delivery), or Forget fails.
AwaitTombstone(p) ==
    LET a == call[p].on IN
    /\ call[p].st = "await"
    /\ \/ /\ lock[a] = Nobody
          /\ lock' = [lock EXCEPT ![a] = p]
          /\ Goto(p, "erase")
          /\ UNCHANGED <<fence, faults>>
       \/ /\ Fail
          /\ Return(p)
    /\ UNCHANGED <<store, snapshot, calls, history>>

DeleteSnapshot(p) ==
    /\ call[p].st = "erase"
    /\ \/ /\ snapshot' = [snapshot EXCEPT ![call[p].on] = NoSnapshot]
          /\ Goto(p, "delete")
          /\ UNCHANGED <<executor, faults>>
       \/ /\ Fail
          /\ Return(p)
          /\ UNCHANGED snapshot
    /\ UNCHANGED <<store, calls, history>>

DeleteStream(p) ==
    /\ call[p].st = "delete"
    /\ tx = NoTx
    /\ tx' = Open(p)
    /\ stream' = [stream EXCEPT ![call[p].on] = {}]
    /\ Goto(p, "drop")
    /\ UNCHANGED <<receipts, snapshot, executor, calls, faults, history>>

\* DropDeliveries ends the transaction, which commits or is rolled back.
DropDeliveries(p) ==
    /\ call[p].st = "drop"
    /\ \/ tx' = NoTx /\ UNCHANGED <<stream, receipts, faults>>
       \/ Fail /\ Restore
    /\ Return(p)
    /\ UNCHANGED <<snapshot, calls, history>>

-----------------------------------------------------------------------------
\* A read of the store, Validate (with an error that is no rejection) or the
\* append fails: the call returns an error, and a lock-free read saves nothing.
Abort(p) ==
    /\ call[p].st \in {"receipt", "again", "replay", "snapshot", "events", "holds",
                        "validate", "append"}
    /\ Fail
    /\ Return(p)
    /\ UNCHANGED <<store, snapshot, calls, history>>

\* The process ends; the store rolls back what was not committed.
Crash ==
    /\ MayCrash
    /\ Fail
    /\ IF tx = NoTx THEN UNCHANGED store ELSE Restore
    /\ lock' = [a \in Aggs |-> Nobody]
    /\ fence' = {}
    /\ call' = [p \in Callers |-> Idle]
    /\ UNCHANGED <<snapshot, calls, history>>

Init ==
    /\ stream = [a \in Aggs |-> IF a \in Legacy THEN {OldEvent} ELSE {}]
    /\ receipts = [c \in CommandIDs |-> NoReceipt]
    /\ tx = NoTx
    /\ snapshot = [a \in Aggs |-> NoSnapshot]
    /\ lock = [a \in Aggs |-> Nobody]
    /\ fence = {}
    /\ call = [p \in Callers |-> Idle]
    /\ calls = 0 /\ faults = 0
    /\ author = [i \in IDs |-> NoID]
    /\ commits = {}
    /\ told = [c \in CommandIDs |-> {}]

Step(p) ==
    \/ GetReceipt(p) \/ ReplayEvent(p) \/ Answer(p)
    \/ GetSnapshot(p) \/ ReadFrom(p) \/ Guard(p) \/ CheckStream(p) \/ SaveUpcasted(p)
    \/ Validate(p) \/ RecordRejection(p)
    \/ AppendEvent(p) \/ Hook(p) \/ Commit(p) \/ Rollback(p) \/ PutSnapshot(p)
    \/ EnqueueTombstone(p) \/ AwaitTombstone(p)
    \/ DeleteSnapshot(p) \/ DeleteStream(p) \/ DropDeliveries(p)
    \/ Abort(p)

Next ==
    \/ \E p \in Callers, a \in Aggs :
        \/ \E c \in CommandIDs \cup {NoID} : Execute(p, a, c)
        \/ Forget(p, a) \/ Get(p, a)
    \/ \E p \in Callers : Step(p)
    \/ Crash

Spec == Init /\ [][Next]_vars

-----------------------------------------------------------------------------
(***************************************************************************)
(* A snapshot never holds more or other than its stream: it is the state   *)
(* of a committed prefix, also while a Forget erases, after it, and when a *)
(* lock-free read saves an upcast state it built before the erase          *)
(* (reader.go:178-185, exec_forget.go:95-97).                              *)
(***************************************************************************)
SnapshotsAgree ==
    \A a \in Aggs : snapshot[a] # NoSnapshot =>
        snapshot[a].state = {e \in stream[a] : e[1] <= snapshot[a].ver}

(***************************************************************************)
(* No lost update: the state a command was validated against is the whole  *)
(* stream it appends to, so that a re-created aggregate starts at version  *)
(* 1 and no version is skipped (eventstore.go:129-141).                    *)
(***************************************************************************)
ValidatedAgainstStream ==
    \A p \in Callers : call[p].st \in {"validate", "append"} =>
        /\ call[p].state = stream[call[p].on]
        /\ call[p].ver = Cardinality(stream[call[p].on])

(***************************************************************************)
(* Guarantee 3 and 5: outside a transaction a receipt says "accepted"      *)
(* exactly when an event of that command has been committed, through       *)
(* failing projections, duplicate receipts and crashes.                    *)
(***************************************************************************)
ReceiptsMatchEvents ==
    tx = NoTx => \A c \in CommandIDs :
        receipts[c].kind = "accepted" <=> \E i \in commits : author[i] = c

(***************************************************************************)
(* Guarantee 5: a command id writes at most one event, on whichever        *)
(* aggregates and however often it is sent, also after a Forget.           *)
(***************************************************************************)
AppliedOnce ==
    \A i, j \in commits : author[i] = author[j] /\ author[i] # NoID => i = j

(***************************************************************************)
(* Guarantee 5: a rejection that was reported stays: no event of that      *)
(* command id is ever committed (exec_idempotency.go:59-62).               *)
(***************************************************************************)
RejectionsStand ==
    \A c \in CommandIDs : "rejected" \in told[c] => \A i \in commits : author[i] # c

(***************************************************************************)
(* The event a retry is answered with is the event its command wrote, and  *)
(* never the event that has its version in a stream that was erased and    *)
(* re-created (exec_idempotency.go:73-75).                                 *)
(***************************************************************************)
AnswersAreOriginal ==
    \A p \in Callers : call[p].st = "answered" => author[call[p].id] = call[p].cmd

(***************************************************************************)
(* Get takes no lock, and its two reads are apart: whatever commands,      *)
(* rollbacks and Forgets come between, it returns the stream as it is at   *)
(* the second read, no event missing, unless the events of the snapshot it *)
(* began with have been erased meanwhile (reader.go:94-131).               *)
(***************************************************************************)
GetReadsTheStream ==
    [][\A p \in Callers :
        LET c == call[p] IN
        c.op = "get" /\ ReadFrom(p) /\ c.state \subseteq stream[c.on] =>
            c.state \cup EventsFrom(c.on, c.ver + 1) = stream[c.on]]_vars

-----------------------------------------------------------------------------
(* What the documentation says and the code does not always do.            *)

(***************************************************************************)
(* "Infrastructure errors ... write no receipt, so a retry runs fresh"     *)
(* (docs/spec/guarantees.md:171): once no transaction is open, a command   *)
(* id that was reported as accepted has an event that was committed.       *)
(***************************************************************************)
AcceptedMeansCommitted ==
    tx = NoTx => \A c \in CommandIDs :
        "accepted" \in told[c] => \E i \in commits : author[i] = c

=============================================================================
