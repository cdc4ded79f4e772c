------------------------- MODULE WritePathReceipts -------------------------
(***************************************************************************)
(* The inductive invariant of the write path, and the proof of its half    *)
(* about types, identifiers, authors and receipts.                         *)
(*                                                                         *)
(* The invariant tells what is durable (Durable, DurableStream: what a     *)
(* crash now would leave) from what the open transaction shows.  The       *)
(* receipts are decided by the durable ones: an accepted one has a         *)
(* committed event, a reported rejection has a durable receipt, and the    *)
(* open transaction adds the receipt of its own command only (OneReceipt). *)
(* The streams are in WritePathProofs, which states the theorems.          *)
(***************************************************************************)
EXTENDS WritePath, TLAPS

\* The types: an event is a pair of a version and an identifier.
Events == Nat \X Nat

Receipts ==
    [kind : {"none"}] \cup [kind : {"rejected"}]
        \cup [kind : {"accepted"}, agg : Aggs, ver : Nat, id : IDs]

States ==
    {"idle", "receipt", "again", "replay", "answered", "snapshot", "events", "guard",
     "holds", "save", "validate", "reject", "append", "hook", "commit", "undo",
     "duplicate", "put", "await", "erase", "delete", "drop"}

CallRecords ==
    [op : {"none", "command", "forget", "get"}, st : States, on : Aggs \cup {Nobody},
     cmd : CommandIDs \cup {NoID}, state : SUBSET Events, agg : Aggs \cup {Nobody},
     ver : Nat, id : Nat]

\* Before AppendEvent, and inside the transaction.
BeforeAppend == {"receipt", "snapshot", "events", "save", "validate", "reject", "append"}
InTx == {"hook", "commit", "undo", "duplicate", "drop"}

Writes(p) == call[p].op \in {"command", "forget"}
Fresh(p) == Writes(p) /\ call[p].st \in BeforeAppend

\* What a crash now would leave in the store.
DurableStream == IF tx = NoTx THEN stream ELSE tx.stream
Durable == IF tx = NoTx THEN receipts ELSE tx.receipts

TypeOK ==
    /\ stream \in [Aggs -> SUBSET Events]
    /\ receipts \in [CommandIDs -> Receipts]
    /\ \/ tx = NoTx
       \/ tx \in [by : Callers, stream : [Aggs -> SUBSET Events],
                  receipts : [CommandIDs -> Receipts]]
    /\ snapshot \in [Aggs -> [ver : Nat, state : SUBSET Events]]
    /\ lock \in [Aggs -> Callers \cup {Nobody}]
    /\ call \in [Callers -> CallRecords]
    /\ calls \in 0..MaxCalls
    /\ author \in [IDs -> CommandIDs \cup {NoID}]
    /\ commits \subseteq IDs
    /\ told \in [CommandIDs -> SUBSET {"accepted", "rejected"}]

\* Which operation can be where, and with which command id.
WellPlaced(c) ==
    /\ c.op = "none" => c = Idle
    /\ c.op # "none" => c.st # "idle" /\ c.on \in Aggs /\ c.agg \in Aggs
    /\ c.op = "get" => c.st \in {"snapshot", "events", "guard", "holds", "save"}
    /\ c.st \in {"guard", "holds"} => c.op = "get"
    /\ c.op # "command" => c.cmd = NoID
    /\ c.st \in {"receipt", "again", "replay", "answered", "reject", "duplicate"}
            => c.cmd # NoID
    /\ c.st \in {"await", "erase", "delete", "drop"} => c.op = "forget"

Control == \A p \in Callers : WellPlaced(call[p])

\* The open transaction is its caller's.
OneTransaction == \A p \in Callers : call[p].st \in InTx <=> tx.by = p

\* Identifiers are given once.
IDsAreGivenOnce ==
    /\ \A i \in commits : i <= calls
    /\ \A i \in IDs : i > calls => author[i] = NoID
    /\ \A p \in Callers : Writes(p) => call[p].id \in 1..calls
    /\ \A p \in Callers : Fresh(p) => author[call[p].id] = NoID
    /\ \A p \in Callers : Fresh(p) \/ call[p].st \in {"hook", "commit"} =>
            call[p].id \notin commits
    /\ \A p, q \in Callers : Writes(p) /\ Fresh(q) /\ p # q => call[p].id # call[q].id

Authorship ==
    /\ \A p \in Callers : call[p].st \in {"hook", "commit", "replay", "answered"}
            => author[call[p].id] = call[p].cmd
    /\ \A c \in CommandIDs : receipts[c].kind = "accepted" => 
            author[receipts[c].id] = c /\ receipts[c].id <= calls

\* The open transaction adds at most the receipt of its own command.
OneReceipt ==
    /\ tx # NoTx => \A c \in CommandIDs : receipts[c] # tx.receipts[c] =>
            /\ call[tx.by].st \in {"commit", "undo"}
            /\ call[tx.by].cmd = c
            /\ receipts[c].kind = "accepted"
            /\ tx.receipts[c].kind = "none"
    /\ \A p \in Callers : call[p].st = "commit" /\ call[p].cmd # NoID =>
            /\ receipts[call[p].cmd].kind = "accepted"
            /\ receipts[call[p].cmd].id = call[p].id
            /\ tx.receipts[call[p].cmd].kind = "none"

DecisionsLast ==
    /\ \A c \in CommandIDs : Durable[c].kind = "accepted" =>
            Durable[c].id \in commits /\ author[Durable[c].id] = c
    /\ \A c \in CommandIDs, i \in commits : author[i] = c =>
            Durable[c].kind = "accepted" /\ Durable[c].id = i
    /\ \A c \in CommandIDs : "rejected" \in told[c] => Durable[c].kind = "rejected"

\* The part of the invariant about identifiers, authors and receipts.
Idempotent == OneTransaction /\ IDsAreGivenOnce /\ Authorship /\ OneReceipt /\ DecisionsLast

-----------------------------------------------------------------------------
\* s has one event of every version 1..n, and no other.
Sized(s, n) ==
    /\ \A e \in s : e[1] \in 1..n
    /\ \A v \in 1..n : \E e \in s : e[1] = v
    /\ \A e, f \in s : e[1] = f[1] => e = f

\* The events up to version v, and that there are that many.
UpTo(s, v) == {e \in s : e[1] <= v}
Reaches(s, v) == v = 0 \/ \E e \in s : e[1] = v

\* What s and t share is a prefix of s.
SharePrefix(s, t) == \A e \in s : e \in t => \A f \in s : f[1] <= e[1] => f \in t

Gapless(s) == \A a \in Aggs : \E n \in Nat : Sized(s[a], n)

\* Every snapshot is the state of a prefix of s.
SnapshotsOf(s) ==
    \A a \in Aggs : /\ snapshot[a].state = UpTo(s[a], snapshot[a].ver)
                    /\ Reaches(s[a], snapshot[a].ver)

\* The identifiers in s were given to calls that have appended.
Used(s) == \A e \in s : e[2] <= calls /\ \A q \in Callers : Fresh(q) => e[2] # call[q].id

\* The open transaction changes the stream of its own aggregate, by one event or to nothing.
OneStream ==
    \A p \in Callers : LET c == call[p] IN
        call[p].st \in InTx =>
            /\ \A a \in Aggs : a # c.on => stream[a] = tx.stream[a]
            /\ c.st = "drop" => stream[c.on] = {}
            /\ c.st # "drop" =>
                /\ c.ver >= 1
                /\ Sized(tx.stream[c.on], c.ver - 1)
                /\ stream[c.on] = tx.stream[c.on] \cup {<<c.ver, c.id>>}
                /\ c.state = stream[c.on]

\* Who works on an aggregate under its lock.
LockOf(p) ==
    (Writes(p) /\ call[p].st # "await") \/ call[p].st \in {"holds", "save"}
        => lock[call[p].on] = p

\* What a caller has read, while nobody can change the stream and after that.
Read(p) ==
    LET c == call[p]
        s == stream[c.on]
    IN
    /\ c.st \in {"receipt", "snapshot"} => c.state = {} /\ c.ver = 0
    /\ c.st = "events" => Sized(c.state, c.ver)
    /\ (c.st = "events" /\ Writes(p)) \/ c.st = "save" =>
            c.state = UpTo(s, c.ver) /\ Reaches(s, c.ver)
    /\ c.st \in {"validate", "append", "put"} \/ (c.st = "save" /\ Writes(p)) =>
            c.state = s /\ Sized(s, c.ver)

\* The state of a lock-free read was a stream: what is left of it now is a prefix.
LockFree(p) ==
    LET c == call[p] IN
    c.st \in {"guard", "holds"} =>
        /\ c.ver >= 1 /\ Sized(c.state, c.ver) /\ Used(c.state)
        /\ SharePrefix(c.state, stream[c.on])
        /\ SharePrefix(c.state, DurableStream[c.on])

Erased(p) == call[p].st \in {"delete", "drop"} => snapshot[call[p].on] = NoSnapshot

Streams ==
    /\ OneStream
    /\ Gapless(stream) /\ Gapless(DurableStream)
    /\ SnapshotsOf(stream) /\ SnapshotsOf(DurableStream)
    /\ \A a \in Aggs : Used(stream[a]) /\ Used(DurableStream[a])
    /\ \A p \in Callers : LockOf(p) /\ Read(p) /\ LockFree(p) /\ Erased(p)

Inv == TypeOK /\ Control /\ Idempotent /\ Streams

-----------------------------------------------------------------------------
\* The last version of the events read.
LEMMA LastOfSuffix ==
  ASSUME NEW s \in SUBSET Events, NEW n \in Nat, Sized(s, n), NEW v \in Nat,
         NEW ev, ev = {e \in s : e[1] >= v}, ev # {}
  PROVE  LastVersion(ev) = n
  <1> DEFINE Last(u) == u \in {e[1] : e \in ev} /\ \A e \in ev : e[1] <= u
  <1>1. \A e \in s : e[1] \in Nat /\ e[1] <= n /\ e[1] >= 1
    BY DEF Sized, Events
  <1>2. PICK e \in s : e[1] >= v
    OBVIOUS
  <1>3. PICK f \in s : f[1] = n
    BY <1>1, <1>2 DEF Sized
  <1>4. f \in ev
    BY <1>1, <1>2, <1>3
  <1>5. Last(n)
    BY <1>1, <1>3, <1>4
  <1>6. \A u : Last(u) => u = n
    BY <1>1, <1>3, <1>4
  <1>7. LastVersion(ev) = CHOOSE u : Last(u)
    BY <1>2 DEF LastVersion
  <1> QED
    BY <1>5, <1>6, <1>7

\* A caller that does nothing.
LEMMA IdleCall ==
  /\ Idle \in CallRecords
  /\ Idle.op = "none" /\ Idle.st = "idle" /\ Idle.cmd = NoID /\ Idle.id = 0
  /\ Idle.state = {} /\ Idle.ver = 0
  BY DEF Idle, CallRecords, States, Events

\* A call that only moves on.
LEMMA GotoCall ==
  ASSUME TypeOK, NEW p \in Callers, NEW st \in States, Goto(p, st)
  PROVE  /\ call' \in [Callers -> CallRecords]
         /\ \A q \in Callers : q # p => call'[q] = call[q]
         /\ call'[p] = [call[p] EXCEPT !.st = st]
         /\ call'[p].st = st
         /\ call'[p].op = call[p].op /\ call'[p].on = call[p].on
         /\ call'[p].cmd = call[p].cmd /\ call'[p].state = call[p].state
         /\ call'[p].agg = call[p].agg /\ call'[p].ver = call[p].ver
         /\ call'[p].id = call[p].id
  <1>1. call[p] \in CallRecords
    BY DEF TypeOK
  <1>2. [call[p] EXCEPT !.st = st] \in CallRecords
    BY <1>1 DEF CallRecords
  <1>3. call' = [call EXCEPT ![p] = [call[p] EXCEPT !.st = st]]
    BY DEF Goto, TypeOK
  <1> QED
    BY <1>1, <1>2, <1>3 DEF TypeOK, CallRecords

\* A call that returns gives its locks back and touches no other call.
LEMMA ReturnCall ==
  ASSUME TypeOK, NEW p \in Callers, Return(p)
  PROVE  /\ call' \in [Callers -> CallRecords]
         /\ \A q \in Callers : q # p => call'[q] = call[q]
         /\ call'[p] = Idle
         /\ lock' \in [Aggs -> Callers \cup {Nobody}]
         /\ \A a \in Aggs : lock'[a] = IF lock[a] = p THEN Nobody ELSE lock[a]
  BY IdleCall DEF Return, Unlocked, TypeOK

\* The record of a call is of the type, and at a place its operation can be.
LEMMA CallOf ==
  ASSUME TypeOK, Control, NEW p \in Callers
  PROVE  call[p] \in CallRecords /\ WellPlaced(call[p])
  BY DEF TypeOK, Control

\* A step of p's call touches no other call, and leaves p's where its operation can be.
OwnStep(p) ==
    /\ call' \in [Callers -> CallRecords]
    /\ \A q \in Callers : q # p => call'[q] = call[q]
    /\ WellPlaced(call'[p])
    /\ calls' = calls

\* Every step of a call is such a step.
LEMMA StepIsOwn ==
  ASSUME TypeOK, Control, Gapless(stream), NEW p \in Callers, Step(p)
  PROVE  OwnStep(p)
  <1> DEFINE c == call[p]
  <1>0. call[p] \in CallRecords /\ WellPlaced(call[p])
    BY CallOf
  <1>1. WellPlaced(Idle)
    BY IdleCall DEF WellPlaced
  <1>2. ASSUME Return(p), calls' = calls
        PROVE  OwnStep(p)
    BY <1>1, <1>2, ReturnCall DEF OwnStep
  <1>3. ASSUME NEW st \in States, Goto(p, st), calls' = calls,
               WellPlaced([call[p] EXCEPT !.st = st])
        PROVE  OwnStep(p)
    BY <1>3, GotoCall DEF OwnStep
  <1>4. ASSUME NEW new \in CallRecords, call' = [call EXCEPT ![p] = new], calls' = calls,
               WellPlaced(new)
        PROVE  OwnStep(p)
    BY <1>4 DEF TypeOK, OwnStep
  <1>5. CASE GetReceipt(p)
    <2> DEFINE r == receipts[c.cmd]
    <2>1. c.cmd \in CommandIDs /\ r \in Receipts
      BY <1>0, <1>5 DEF GetReceipt, WellPlaced, CallRecords, TypeOK
    <2>2. CASE Goto(p, "snapshot") /\ c.st = "receipt"
      BY <2>2, <1>0, <1>3, <1>5 DEF GetReceipt, WellPlaced, CallRecords, States, Idle
    <2>3. CASE Return(p)
      BY <2>3, <1>2, <1>5 DEF GetReceipt
    <2>4. CASE r.kind = "accepted"
      <3> DEFINE new == [c EXCEPT !.st = "replay", !.agg = r.agg, !.ver = r.ver, !.id = r.id]
      <3>1. r.agg \in Aggs /\ r.ver \in Nat /\ r.id \in Nat
        BY <2>1, <2>4 DEF Receipts, IDs
      <3>3. new \in CallRecords
        BY <3>1, <1>0 DEF CallRecords, States
      <3>4. WellPlaced(new)
        BY <3>1, <2>1, <1>0, <1>5, WritePathConstants
           DEF GetReceipt, WellPlaced, CallRecords, Idle
      <3>2. call' = [call EXCEPT ![p] = new] /\ calls' = calls
        BY <2>4, <2>1, <1>0, <1>5 DEF GetReceipt, CallRecords, TypeOK
      <3> QED
        BY <3>3, <3>4, <3>2, <1>4
    <2> QED
      BY <2>1, <2>2, <2>3, <2>4, <1>5 DEF GetReceipt, Receipts
  <1>6. CASE ReplayEvent(p)
    <2>1. PICK i \in Nat : call' = [call EXCEPT ![p] = [c EXCEPT !.st = "answered", !.id = i]]
      <3> DEFINE found == {e \in stream[c.agg] : IsEventOf(e, c)}
                 i == IF found = {} THEN c.id ELSE (CHOOSE e \in found : TRUE)[2]
      <3>1. i \in Nat
        BY <1>0, <1>6 DEF ReplayEvent, WellPlaced, CallRecords, TypeOK, Events, Idle
      <3>2. call' = [call EXCEPT ![p] = [c EXCEPT !.st = "answered", !.id = i]]
        BY <1>0, <1>6 DEF ReplayEvent, CallRecords, TypeOK
      <3> QED
        BY <3>1, <3>2
    <2>2. /\ [c EXCEPT !.st = "answered", !.id = i] \in CallRecords
          /\ WellPlaced([c EXCEPT !.st = "answered", !.id = i])
      BY <1>0, <1>6 DEF ReplayEvent, WellPlaced, CallRecords, States, Idle
    <2> QED
      BY <2>1, <2>2, <1>4, <1>6 DEF ReplayEvent
  <1>7. CASE Answer(p)
    BY <1>7, <1>2 DEF Answer
  <1>8. CASE GetSnapshot(p)
    <2> DEFINE new == [c EXCEPT !.st = "events", !.ver = snapshot[c.on].ver,
                                !.state = snapshot[c.on].state]
    <2>1. c.on \in Aggs
      BY <1>0, <1>8 DEF GetSnapshot, WellPlaced, CallRecords, Idle
    <2>2. new \in CallRecords
      <3>1. snapshot[c.on] \in [ver : Nat, state : SUBSET Events]
        BY <2>1 DEF TypeOK
      <3> QED
        BY <3>1, <1>0 DEF CallRecords, States
    <2>5. WellPlaced(new)
      BY <1>0, <1>8 DEF GetSnapshot, WellPlaced, CallRecords, Idle
    <2>3. CASE call' = [call EXCEPT ![p].st = "events", ![p].ver = snapshot[c.on].ver,
                                    ![p].state = snapshot[c.on].state]
      <3>1. call' = [call EXCEPT ![p] = new]
        BY <2>3, <1>0 DEF CallRecords, TypeOK
      <3> QED
        BY <3>1, <2>2, <2>5, <1>4, <1>8 DEF GetSnapshot
    <2>4. CASE Goto(p, "events")
      BY <2>4, <1>0, <1>3, <1>8 DEF GetSnapshot, WellPlaced, CallRecords, States, Idle
    <2> QED
      BY <2>3, <2>4, <1>8 DEF GetSnapshot
  <1>9. CASE ReadFrom(p)
    <2> DEFINE events == EventsFrom(c.on, c.ver + 1)
               v == IF events = {} THEN c.ver ELSE LastVersion(events)
               st == CASE OldEvent \notin events -> "validate"
                       [] OldEvent \in events /\ c.op = "get" -> "guard"
                       [] OTHER -> "save"
               new == [c EXCEPT !.state = @ \cup events, !.ver = v, !.st = st]
    <2>1. c.on \in Aggs /\ calls' = calls
      BY <1>0, <1>9 DEF ReadFrom, WellPlaced, CallRecords, Idle
    <2>2. events \subseteq Events
      BY <2>1 DEF EventsFrom, TypeOK
    <2>3. v \in Nat
      <3>1. PICK n \in Nat : Sized(stream[c.on], n)
        BY <2>1 DEF Gapless
      <3>2. stream[c.on] \in SUBSET Events /\ c.ver \in Nat
        BY <2>1, <1>0 DEF TypeOK, CallRecords
      <3>4. events = {e \in stream[c.on] : e[1] >= c.ver + 1} /\ c.ver + 1 \in Nat
        BY <3>2 DEF EventsFrom
      <3>3. events # {} => LastVersion(events) = n
        <4> HIDE DEF events
        <4> QED
          BY <3>1, <3>2, <3>4, LastOfSuffix
      <3> QED
        BY <3>2, <3>3
    <2>4. CASE c.op = "get" /\ OldEvent \notin events
      <3>1. call' = [call EXCEPT ![p] = Idle]
        BY <2>4, <1>9 DEF ReadFrom
      <3> QED
        BY <3>1, <2>1, <1>1, <1>4, IdleCall
    <2>5. CASE ~(c.op = "get" /\ OldEvent \notin events)
      <3>1. call' = [call EXCEPT ![p] = new]
        BY <2>5, <1>0, <1>9 DEF ReadFrom, CallRecords
      <3>2. st \in States
        BY DEF States
      <3>3. new \in CallRecords
        <4> HIDE DEF events, v, st
        <4> QED
          BY <3>2, <2>2, <2>3, <1>0 DEF CallRecords
      <3>4. WellPlaced(new)
        <4>1. st \in {"validate", "guard", "save"} /\ (c.op = "get" => st = "guard")
                /\ (st = "guard" => c.op = "get")
          BY <2>5
        <4> HIDE DEF events, v, st
        <4> QED
          BY <4>1, <1>0, <1>9 DEF ReadFrom, WellPlaced, CallRecords, Idle
      <3> QED
        BY <3>1, <3>3, <3>4, <2>1, <1>4
    <2> QED
      BY <2>4, <2>5
  <1>10. CASE Guard(p)
    BY <1>10, <1>0, <1>1, <1>3, <1>4, IdleCall DEF Guard, WellPlaced, CallRecords, States, Idle
  <1>11. CASE CheckStream(p)
    BY <1>11, <1>0, <1>2, <1>3 DEF CheckStream, WellPlaced, CallRecords, States, Idle
  <1>12. CASE SaveUpcasted(p)
    BY <1>12, <1>0, <1>2, <1>3 DEF SaveUpcasted, WellPlaced, CallRecords, States, Idle
  <1>13. CASE Validate(p)
    BY <1>13, <1>0, <1>2, <1>3 DEF Validate, WellPlaced, CallRecords, States, Idle
  <1>14. CASE RecordRejection(p)
    BY <1>14, <1>0, <1>2, <1>3 DEF RecordRejection, WellPlaced, CallRecords, States, Idle
  <1>15. CASE AppendEvent(p)
    <2> DEFINE v == NextVersion(c.ver)
               new == [c EXCEPT !.st = "hook", !.ver = v, !.state = @ \cup {<<v, c.id>>}]
    <2>1. CASE Return(p)
      BY <2>1, <1>2, <1>15 DEF AppendEvent
    <2>2. CASE ~Return(p)
      <3>1. call' = [call EXCEPT ![p] = new] /\ calls' = calls
        BY <2>2, <1>0, <1>15 DEF AppendEvent, CallRecords, TypeOK
      <3>2. new \in CallRecords
        <4>1. v \in Nat /\ <<v, c.id>> \in Events
          BY <1>0 DEF CallRecords, NextVersion, Events
        <4> QED
          BY <4>1, <1>0 DEF CallRecords, States
      <3>3. WellPlaced(new)
        BY <1>0, <1>15 DEF AppendEvent, WellPlaced, CallRecords, Idle
      <3> QED
        BY <3>1, <3>2, <3>3, <1>4
    <2> QED
      BY <2>1, <2>2
  <1>16. CASE Hook(p)
    BY <1>16, <1>0, <1>2, <1>3 DEF Hook, WellPlaced, CallRecords, States, Idle
  <1>17. CASE Commit(p)
    BY <1>17, <1>0, <1>2, <1>3 DEF Commit, WellPlaced, CallRecords, States, Idle
  <1>18. CASE Rollback(p)
    BY <1>18, <1>0, <1>2, <1>3 DEF Rollback, WellPlaced, CallRecords, States, Idle
  <1>19. CASE PutSnapshot(p)
    BY <1>19, <1>2 DEF PutSnapshot
  <1>20. CASE EnqueueTombstone(p)
    BY <1>20, <1>0, <1>2, <1>3 DEF EnqueueTombstone, WellPlaced, CallRecords, States, Idle
  <1>21. CASE AwaitTombstone(p)
    BY <1>21, <1>0, <1>2, <1>3 DEF AwaitTombstone, WellPlaced, CallRecords, States, Idle
  <1>22. CASE DeleteSnapshot(p)
    BY <1>22, <1>0, <1>2, <1>3 DEF DeleteSnapshot, WellPlaced, CallRecords, States, Idle
  <1>23. CASE DeleteStream(p)
    BY <1>23, <1>0, <1>2, <1>3 DEF DeleteStream, WellPlaced, CallRecords, States, Idle
  <1>24. CASE DropDeliveries(p)
    BY <1>24, <1>2 DEF DropDeliveries
  <1>25. CASE Abort(p)
    BY <1>25, <1>2 DEF Abort
  <1> QED
    BY <1>5, <1>6, <1>7, <1>8, <1>9, <1>10, <1>11, <1>12, <1>13, <1>14, <1>15, <1>16, <1>17,
       <1>18, <1>19, <1>20, <1>21, <1>22, <1>23, <1>24, <1>25 DEF Step

\* The types of everything but the calls.
StoreTypes ==
    /\ stream \in [Aggs -> SUBSET Events]
    /\ receipts \in [CommandIDs -> Receipts]
    /\ \/ tx = NoTx
       \/ tx \in [by : Callers, stream : [Aggs -> SUBSET Events],
                  receipts : [CommandIDs -> Receipts]]
    /\ snapshot \in [Aggs -> [ver : Nat, state : SUBSET Events]]
    /\ lock \in [Aggs -> Callers \cup {Nobody}]
    /\ author \in [IDs -> CommandIDs \cup {NoID}]
    /\ commits \subseteq IDs
    /\ told \in [CommandIDs -> SUBSET {"accepted", "rejected"}]

\* A caller that is inside the transaction owns it.
LEMMA OpenTx ==
  ASSUME TypeOK, OneTransaction, NEW p \in Callers, call[p].st \in InTx
  PROVE  /\ tx.by = p /\ tx # NoTx
         /\ tx \in [by : Callers, stream : [Aggs -> SUBSET Events],
                    receipts : [CommandIDs -> Receipts]]
         /\ tx.stream \in [Aggs -> SUBSET Events]
         /\ tx.receipts \in [CommandIDs -> Receipts]
  <1>1. tx.by = p
    BY DEF OneTransaction
  <1>2. tx # NoTx
    BY <1>1, WritePathConstants DEF NoTx
  <1> QED
    BY <1>1, <1>2 DEF TypeOK

\* Nobody is inside a transaction that is not open.
LEMMA ClosedTx ==
  ASSUME TypeOK, OneTransaction
  PROVE  /\ tx = NoTx <=> tx.by = Nobody
         /\ tx = NoTx => \A p \in Callers : call[p].st \notin InTx
         /\ tx # NoTx => tx.by \in Callers /\ call[tx.by].st \in InTx
  <1>1. NoTx.by = Nobody
    BY DEF NoTx
  <1>2. tx # NoTx => tx.by \in Callers
    BY DEF TypeOK
  <1> QED
    BY <1>1, <1>2, WritePathConstants DEF OneTransaction

\* Reporting a decision adds it to what was reported.
LEMMA TellTypes ==
  ASSUME TypeOK, NEW c \in CommandIDs \cup {NoID}, NEW d \in {"accepted", "rejected"}, Tell(c, d)
  PROVE  /\ told' \in [CommandIDs -> SUBSET {"accepted", "rejected"}]
         /\ \A k \in CommandIDs : told'[k] = IF k = c THEN told[k] \cup {d} ELSE told[k]
  BY WritePathConstants DEF Tell, TypeOK

\* What a transaction remembers for its rollback.
LEMMA OpenTypes ==
  ASSUME TypeOK, NEW p \in Callers
  PROVE  Open(p) \in [by : Callers, stream : [Aggs -> SUBSET Events],
                      receipts : [CommandIDs -> Receipts]]
  BY DEF Open, TypeOK

\* A step of a call keeps the types of the stores, the locks and the history.
LEMMA StepStoreTypes ==
  ASSUME TypeOK, Control, OneTransaction, IDsAreGivenOnce, NEW p \in Callers, Step(p)
  PROVE  StoreTypes'
  <1> DEFINE c == call[p]
  <1>0. call[p] \in CallRecords /\ WellPlaced(call[p])
    BY CallOf
  <1>1. /\ c.op \in {"none", "command", "forget", "get"} /\ c.st \in States
        /\ c.cmd \in CommandIDs \cup {NoID} /\ c.state \in SUBSET Events
        /\ c.ver \in Nat /\ c.id \in Nat
    BY <1>0 DEF CallRecords
  <1>2. c.st # "idle" => c.on \in Aggs
    BY <1>0 DEF WellPlaced, Idle
  <1>3. Writes(p) => c.id \in IDs
    BY WritePathConstants DEF IDsAreGivenOnce, TypeOK, IDs
  <1>4. Return(p) => lock' \in [Aggs -> Callers \cup {Nobody}]
    BY ReturnCall
  <1>5. \A d \in {"accepted", "rejected"} : Tell(c.cmd, d) =>
            told' \in [CommandIDs -> SUBSET {"accepted", "rejected"}]
    BY <1>1, TellTypes
  <1>6. CASE GetReceipt(p)
    BY <1>4, <1>5, <1>6 DEF GetReceipt, TypeOK, StoreTypes, store, executor
  <1>7. CASE ReplayEvent(p)
    BY <1>7 DEF ReplayEvent, TypeOK, StoreTypes, store, executor, history
  <1>8. CASE Answer(p)
    BY <1>4, <1>5, <1>8 DEF Answer, TypeOK, StoreTypes, store
  <1>9. CASE GetSnapshot(p)
    BY <1>9 DEF GetSnapshot, TypeOK, StoreTypes, store, executor, history
  <1>10. CASE ReadFrom(p)
    BY <1>10 DEF ReadFrom, TypeOK, StoreTypes, store, executor, history
  <1>11. CASE Guard(p)
    BY <1>11 DEF Guard, TypeOK, StoreTypes, store, history
  <1>12. CASE CheckStream(p)
    BY <1>4, <1>12 DEF CheckStream, TypeOK, StoreTypes, store, executor, history
  <1>13. CASE SaveUpcasted(p)
    <2>1. SnapshotOf(c.ver, c.state) \in [ver : Nat, state : SUBSET Events]
      BY <1>1 DEF SnapshotOf
    <2> QED
      BY <2>1, <1>4, <1>13 DEF SaveUpcasted, TypeOK, StoreTypes, store, executor, history
  <1>14. CASE Validate(p)
    BY <1>4, <1>14 DEF Validate, TypeOK, StoreTypes, store, executor, history
  <1>15. CASE RecordRejection(p)
    <2>1. Rejected \in Receipts
      BY DEF Rejected, Receipts
    <2> QED
      BY <2>1, <1>4, <1>5, <1>15 DEF RecordRejection, TypeOK, StoreTypes, executor
  <1>16. CASE AppendEvent(p)
    <2>1. Writes(p) /\ c.on \in Aggs
      BY <1>0, <1>1, <1>2, <1>16 DEF AppendEvent, WellPlaced, Writes, Idle
    <2>2. <<NextVersion(c.ver), c.id>> \in Events
      BY <1>1 DEF NextVersion, Events
    <2>3. CASE Return(p) /\ UNCHANGED <<tx, stream, author>>
      BY <2>3, <1>4, <1>16 DEF AppendEvent, TypeOK, StoreTypes
    <2>4. CASE /\ tx' = Open(p) /\ UNCHANGED executor
               /\ stream' = [stream EXCEPT ![c.on] = @ \cup {<<NextVersion(c.ver), c.id>>}]
               /\ author' = [author EXCEPT ![c.id] = c.cmd]
      <3>1. stream' \in [Aggs -> SUBSET Events]
        BY <2>1, <2>2, <2>4 DEF TypeOK
      <3>2. author' \in [IDs -> CommandIDs \cup {NoID}]
        BY <2>1, <2>4, <1>1, <1>3 DEF TypeOK
      <3> QED
        BY <3>1, <3>2, <2>4, <1>16, OpenTypes DEF AppendEvent, TypeOK, StoreTypes, executor
    <2> QED
      BY <2>3, <2>4, <1>16 DEF AppendEvent
  <1>17. CASE Hook(p)
    <2>1. Writes(p) /\ c.on \in Aggs
      BY <1>0, <1>1, <1>2, <1>17 DEF Hook, WellPlaced, Writes, Idle
    <2>2. Accepted(c.on, c.ver, c.id) \in Receipts
      BY <2>1, <1>1, <1>3 DEF Accepted, Receipts
    <2> QED
      BY <2>2, <1>1, <1>17 DEF Hook, PutReceipt, TypeOK, StoreTypes, executor, history
  <1>18. CASE Commit(p)
    <2>1. Writes(p)
      BY <1>0, <1>1, <1>18 DEF Commit, WellPlaced, Writes, Idle
    <2> QED
      BY <2>1, <1>3, <1>18 DEF Commit, TypeOK, StoreTypes, executor
  <1>19. CASE Rollback(p)
    <2>1. c.st \in InTx
      BY <1>19 DEF Rollback, InTx
    <2> QED
      BY <2>1, <1>4, <1>19, OpenTx DEF Rollback, Restore, TypeOK, StoreTypes, executor, history
  <1>20. CASE PutSnapshot(p)
    <2>1. SnapshotOf(c.ver, c.state) \in [ver : Nat, state : SUBSET Events]
      BY <1>1 DEF SnapshotOf
    <2> QED
      BY <2>1, <1>4, <1>5, <1>20 DEF PutSnapshot, TypeOK, StoreTypes, store
  <1>21. CASE EnqueueTombstone(p)
    BY <1>21 DEF EnqueueTombstone, Unlocked, TypeOK, StoreTypes, store, history
  <1>22. CASE AwaitTombstone(p)
    BY <1>4, <1>22 DEF AwaitTombstone, TypeOK, StoreTypes, store, history
  <1>23. CASE DeleteSnapshot(p)
    <2>1. NoSnapshot \in [ver : Nat, state : SUBSET Events]
      BY DEF NoSnapshot, SnapshotOf
    <2> QED
      BY <2>1, <1>4, <1>23 DEF DeleteSnapshot, TypeOK, StoreTypes, store, executor, history
  <1>24. CASE DeleteStream(p)
    BY <1>24, OpenTypes DEF DeleteStream, TypeOK, StoreTypes, executor, history
  <1>25. CASE DropDeliveries(p)
    <2>1. c.st \in InTx
      BY <1>25 DEF DropDeliveries, InTx
    <2> QED
      BY <2>1, <1>4, <1>25, OpenTx DEF DropDeliveries, Restore, TypeOK, StoreTypes, history
  <1>26. CASE Abort(p)
    BY <1>4, <1>26 DEF Abort, TypeOK, StoreTypes, store, history
  <1> QED
    BY <1>6, <1>7, <1>8, <1>9, <1>10, <1>11, <1>12, <1>13, <1>14, <1>15, <1>16, <1>17,
       <1>18, <1>19, <1>20, <1>21, <1>22, <1>23, <1>24, <1>25, <1>26 DEF Step

\* What the record of a call is when it begins.
LEMMA BeginCall ==
  ASSUME TypeOK, NEW p \in Callers, NEW a \in Aggs, NEW op \in {"command", "forget", "get"},
         NEW c \in CommandIDs \cup {NoID}, NEW st \in {"snapshot", "receipt"},
         Begin(p, a, op, c, st),
         op # "command" => c = NoID, st = "receipt" => c # NoID
  PROVE  /\ call[p] = Idle
         /\ call' \in [Callers -> CallRecords]
         /\ \A q \in Callers : q # p => call'[q] = call[q]
         /\ WellPlaced(call'[p])
         /\ call'[p].op = op /\ call'[p].st = st /\ call'[p].on = a /\ call'[p].cmd = c
         /\ call'[p].state = {} /\ call'[p].ver = 0
         /\ call'[p].id = IF op = "get" THEN 0 ELSE calls + 1
  <1> DEFINE i == IF op = "get" THEN 0 ELSE calls + 1
             new == [Idle EXCEPT !.op = op, !.st = st, !.on = a, !.cmd = c, !.agg = a,
                                 !.id = i]
  <1>1. i \in Nat
    BY DEF TypeOK
  <1>2. call[p] = Idle /\ call' = [call EXCEPT ![p] = new]
    BY DEF Begin
  <1> HIDE DEF i
  <1>3. new \in CallRecords
    BY <1>1, IdleCall DEF CallRecords, States
  <1>4. call' \in [Callers -> CallRecords] /\ call'[p] = new
        /\ \A q \in Callers : q # p => call'[q] = call[q]
    BY <1>2, <1>3 DEF TypeOK
  <1>5. /\ new.op = op /\ new.st = st /\ new.on = a /\ new.cmd = c /\ new.agg = a /\ new.id = i
        /\ new.state = {} /\ new.ver = 0
    BY IdleCall DEF CallRecords
  <1>6. WellPlaced(new)
    BY <1>5 DEF WellPlaced
  <1> QED
    BY <1>2, <1>4, <1>5, <1>6 DEF i

\* A command, a Forget or a Get begins.
Starts(p, a) ==
    \/ \E c \in CommandIDs \cup {NoID} : Execute(p, a, c)
    \/ Forget(p, a)
    \/ Get(p, a)

\* What the start of an operation does.
LEMMA StartCall ==
  ASSUME TypeOK, NEW p \in Callers, NEW a \in Aggs, Starts(p, a)
  PROVE  /\ call[p] = Idle
         /\ call' \in [Callers -> CallRecords]
         /\ \A q \in Callers : q # p => call'[q] = call[q]
         /\ WellPlaced(call'[p])
         /\ call'[p].on = a /\ call'[p].state = {} /\ call'[p].ver = 0
         /\ \/ /\ call'[p].op \in {"command", "forget"} /\ call'[p].id = calls + 1
               /\ call'[p].st \in {"receipt", "snapshot"}
               /\ calls' = calls + 1 /\ calls < MaxCalls
               /\ lock[a] = Nobody /\ lock' = [lock EXCEPT ![a] = p]
            \/ /\ call'[p].op = "get" /\ call'[p].st = "snapshot" /\ calls' = calls
               /\ lock' = lock
         /\ UNCHANGED <<store, snapshot, history>>
  <1>1. CASE Get(p, a)
    BY <1>1, BeginCall DEF Get, executor
  <1>2. CASE Forget(p, a)
    BY <1>2, BeginCall DEF Forget
  <1>3. CASE \E c \in CommandIDs \cup {NoID} : Execute(p, a, c)
    <2>1. PICK c \in CommandIDs \cup {NoID} : Execute(p, a, c)
      BY <1>3
    <2> DEFINE st == IF c = NoID THEN "snapshot" ELSE "receipt"
    <2>2. st \in {"snapshot", "receipt"} /\ (st = "receipt" => c # NoID)
      OBVIOUS
    <2>3. Begin(p, a, "command", c, st)
      BY <2>1 DEF Execute
    <2> HIDE DEF st
    <2> QED
      BY <2>1, <2>2, <2>3, BeginCall DEF Execute
  <1> QED
    BY <1>1, <1>2, <1>3 DEF Starts

\* What a crash leaves: no calls, no locks, and the durable store.
LEMMA CrashCall ==
  ASSUME TypeOK, Crash
  PROVE  /\ call' \in [Callers -> CallRecords]
         /\ \A p \in Callers : call'[p] = Idle
         /\ tx' = NoTx
         /\ receipts' = Durable /\ stream' = DurableStream
         /\ lock' = [a \in Aggs |-> Nobody]
         /\ UNCHANGED <<snapshot, calls, history>>
  BY IdleCall DEF Crash, Restore, Durable, DurableStream, store

\* What a crash would leave has the types of the store.
LEMMA DurableTypes ==
  ASSUME TypeOK
  PROVE  /\ Durable \in [CommandIDs -> Receipts]
         /\ DurableStream \in [Aggs -> SUBSET Events]
  BY DEF TypeOK, Durable, DurableStream

\* Every step keeps the types and the places of the calls.
LEMMA NextTypes ==
  ASSUME TypeOK, Control, OneTransaction, IDsAreGivenOnce, Gapless(stream), Next
  PROVE  TypeOK' /\ Control'
  <1>1. ASSUME NEW p \in Callers, NEW a \in Aggs, Starts(p, a)
        PROVE  TypeOK' /\ Control'
    <2>1. Control'
      BY <1>1, StartCall DEF Control
    <2>2. \/ calls' = calls + 1 /\ calls < MaxCalls /\ lock' = [lock EXCEPT ![a] = p]
          \/ calls' = calls /\ lock' = lock
      BY <1>1, StartCall
    <2>3. calls' \in 0..MaxCalls
      BY <2>2, WritePathConstants DEF TypeOK
    <2>4. lock' \in [Aggs -> Callers \cup {Nobody}]
      BY <2>2 DEF TypeOK
    <2>5. call' \in [Callers -> CallRecords] /\ UNCHANGED <<store, snapshot, history>>
      BY <1>1, StartCall
    <2> QED
      BY <2>1, <2>3, <2>4, <2>5 DEF TypeOK, store, history
  <1>2. ASSUME NEW p \in Callers, Step(p)
        PROVE  TypeOK' /\ Control'
    <2>1. OwnStep(p) /\ StoreTypes'
      BY <1>2, StepIsOwn, StepStoreTypes
    <2> QED
      BY <2>1 DEF OwnStep, StoreTypes, TypeOK, Control
  <1>3. CASE Crash
    <2>1. Control'
      BY <1>3, CrashCall, IdleCall DEF Control, WellPlaced
    <2> QED
      BY <2>1, <1>3, CrashCall, DurableTypes DEF TypeOK, history
  <1> QED
    BY <1>1, <1>2, <1>3 DEF Next, Starts

\* A step of p that neither decides a command nor begins one: p stays outside the
\* transaction, is not put back before the append, and keeps its identifier.
KeepsDecisions(p) ==
    /\ UNCHANGED <<receipts, tx, author, commits>>
    /\ \A c \in CommandIDs : "rejected" \in told'[c] => "rejected" \in told[c]
    /\ call[p].st \notin InTx
    /\ \/ call'[p] = Idle
       \/ /\ call'[p].op = call[p].op /\ call'[p].cmd = call[p].cmd /\ call'[p].id = call[p].id
          /\ call'[p].st \notin InTx
          /\ call'[p].st \in BeforeAppend => call[p].st \in BeforeAppend \/ call[p].op = "get"
          /\ call'[p].st \in {"replay", "answered"} => call[p].st \in {"replay", "answered"}

\* Such a step keeps the invariant on receipts.
LEMMA KeepingDecisions ==
  ASSUME TypeOK, Control, Idempotent, NEW p \in Callers, OwnStep(p), KeepsDecisions(p)
  PROVE  Idempotent'
  <1> USE DEF OwnStep, KeepsDecisions
  <1>1. OneTransaction'
    BY IdleCall DEF Idempotent, OneTransaction, InTx
  <1>2. IDsAreGivenOnce'
    <2>1. \A q \in Callers : Writes(q)' => Writes(q) /\ call'[q].id = call[q].id
      BY IdleCall DEF Writes
    <2>2. \A q \in Callers : Fresh(q)' => Fresh(q)
      BY <2>1, IdleCall DEF Fresh, Writes, BeforeAppend
    <2>3. \A q \in Callers : call'[q].st \in {"hook", "commit"} => call'[q] = call[q]
      BY IdleCall DEF InTx
    <2> QED
      BY <2>1, <2>2, <2>3 DEF Idempotent, IDsAreGivenOnce, Fresh
  <1>3. Authorship'
    BY IdleCall DEF Idempotent, Authorship, InTx
  <1>4. OneReceipt'
    <2>1. tx # NoTx => tx.by # p /\ tx.by \in Callers
      BY ClosedTx DEF Idempotent
    <2>2. \A q \in Callers : call'[q].st = "commit" => call'[q] = call[q]
      BY IdleCall DEF InTx
    <2> QED
      BY <2>1, <2>2 DEF Idempotent, OneReceipt
  <1>5. DecisionsLast'
    BY DEF Idempotent, DecisionsLast, Durable
  <1> QED
    BY <1>1, <1>2, <1>3, <1>4, <1>5 DEF Idempotent

\* A new command or Forget gets an identifier that nobody has had.
LEMMA StartKeepsIdempotent ==
  ASSUME TypeOK, Control, Idempotent, NEW p \in Callers, NEW a \in Aggs, Starts(p, a)
  PROVE  Idempotent'
  <1>1. UNCHANGED <<receipts, tx, author, commits, told>>
    BY StartCall DEF store, history
  <1>2. /\ call[p] = Idle /\ \A q \in Callers : q # p => call'[q] = call[q]
        /\ call'[p].st \in {"receipt", "snapshot"}
    BY StartCall
  <1>3. OneTransaction'
    BY <1>1, <1>2, IdleCall DEF Idempotent, OneTransaction, InTx
  <1>4. IDsAreGivenOnce'
    <2>1. calls \in Nat /\ calls' \in Nat /\ calls' >= calls
      BY StartCall DEF TypeOK
    <2>2. CASE call'[p].op = "get"
      <3>1. \A q \in Callers : /\ Writes(q)' => Writes(q) /\ call'[q].id = call[q].id
                               /\ Fresh(q)' => Fresh(q)
                               /\ call'[q].st \in {"hook", "commit"} => call'[q] = call[q]
        BY <2>2, <1>2 DEF Writes, Fresh
      <3>2. calls' = calls
        BY <2>2, StartCall
      <3> QED
        BY <3>1, <3>2, <1>1 DEF Idempotent, IDsAreGivenOnce, Fresh
    <2>3. CASE call'[p].op # "get"
      <3>1. call'[p].id = calls + 1 /\ calls' = calls + 1 /\ calls + 1 \in IDs
        BY <2>3, <2>1, StartCall, WritePathConstants DEF IDs, TypeOK
      <3>2. calls + 1 \notin commits /\ author[calls + 1] = NoID
        BY <3>1, <2>1 DEF Idempotent, IDsAreGivenOnce, TypeOK, IDs
      <3>3. \A q \in Callers : q # p /\ Writes(q) => call[q].id \in 1..calls
        BY DEF Idempotent, IDsAreGivenOnce
      <3>4. \A q \in Callers : q # p => /\ Writes(q)' <=> Writes(q)
                                        /\ Fresh(q)' <=> Fresh(q)
        BY <1>2 DEF Writes, Fresh
      <3>5. /\ \A i \in commits' : i <= calls'
            /\ \A i \in IDs : i > calls' => author'[i] = NoID
        BY <3>1, <2>1, <1>1 DEF Idempotent, IDsAreGivenOnce, TypeOK, IDs
      <3>6. \A q \in Callers : Writes(q)' => call'[q].id \in 1..calls'
        BY <3>1, <3>3, <3>4, <2>1, <1>2
      <3>7. \A q \in Callers : Fresh(q)' => author'[call'[q].id] = NoID
        BY <3>1, <3>2, <3>4, <1>1, <1>2 DEF Idempotent, IDsAreGivenOnce
      <3>8. \A q \in Callers : Fresh(q)' \/ call'[q].st \in {"hook", "commit"} =>
                call'[q].id \notin commits'
        BY <3>1, <3>2, <3>4, <1>1, <1>2 DEF Idempotent, IDsAreGivenOnce
      <3>9. \A q, r \in Callers : Writes(q)' /\ Fresh(r)' /\ q # r => call'[q].id # call'[r].id
        <4>1. \A q \in Callers : q # p /\ Writes(q) => call[q].id # calls + 1
          BY <3>3, <2>1
        <4>2. \A q \in Callers : Fresh(q) => Writes(q)
          BY DEF Fresh
        <4> QED
          BY <4>1, <4>2, <3>1, <3>4, <1>2 DEF Idempotent, IDsAreGivenOnce
      <3> QED
        BY <3>5, <3>6, <3>7, <3>8, <3>9 DEF IDsAreGivenOnce
    <2> QED
      BY <2>2, <2>3
  <1>5. Authorship'
    <2>1. calls \in Nat /\ calls' \in Nat /\ calls' >= calls
      BY StartCall DEF TypeOK
    <2>2. \A c \in CommandIDs : receipts[c].kind = "accepted" => receipts[c].id \in Nat
      BY DEF TypeOK, Receipts, IDs
    <2> QED
      BY <2>1, <2>2, <1>1, <1>2 DEF Idempotent, Authorship
  <1>6. OneReceipt'
    <2>1. tx # NoTx => tx.by # p /\ tx.by \in Callers
      BY <1>2, ClosedTx, IdleCall DEF Idempotent, InTx
    <2> QED
      BY <2>1, <1>1, <1>2 DEF Idempotent, OneReceipt
  <1>7. DecisionsLast'
    BY <1>1 DEF Idempotent, DecisionsLast, Durable
  <1> QED
    BY <1>3, <1>4, <1>5, <1>6, <1>7 DEF Idempotent

\* A crash takes the receipts back to the durable ones, and with them their events.
LEMMA CrashKeepsIdempotent ==
  ASSUME TypeOK, Control, Idempotent, Crash
  PROVE  Idempotent'
  <1>1. /\ \A p \in Callers : call'[p] = Idle
        /\ tx' = NoTx /\ receipts' = Durable
        /\ UNCHANGED <<calls, author, commits, told>>
    BY CrashCall DEF history
  <1>2. Durable' = Durable
    BY <1>1 DEF Durable
  <1>3. OneTransaction'
    BY <1>1, IdleCall, WritePathConstants DEF OneTransaction, NoTx, InTx
  <1>4. IDsAreGivenOnce'
    BY <1>1, IdleCall DEF Idempotent, IDsAreGivenOnce, Writes, Fresh
  <1>5. Authorship'
    <2>1. \A c \in CommandIDs : Durable[c].kind = "accepted" =>
              author[Durable[c].id] = c /\ Durable[c].id <= calls
      BY DEF Idempotent, DecisionsLast, IDsAreGivenOnce
    <2> QED
      BY <2>1, <1>1, IdleCall DEF Authorship
  <1>6. OneReceipt'
    BY <1>1, IdleCall DEF OneReceipt
  <1>7. DecisionsLast'
    BY <1>1, <1>2 DEF Idempotent, DecisionsLast
  <1> QED
    BY <1>3, <1>4, <1>5, <1>6, <1>7 DEF Idempotent

-----------------------------------------------------------------------------
(* What the steps that write more than the state of a call make of it.     *)

\* replayEvent finds the event by version and id, so that the id it answers with is the
\* one of the receipt (exec_idempotency.go:73-75).
LEMMA ReplayCall ==
  ASSUME TypeOK, Control, NEW p \in Callers, ReplayEvent(p)
  PROVE  /\ call'[p].st = "answered"
         /\ call'[p].op = call[p].op /\ call'[p].cmd = call[p].cmd
         /\ call'[p].on = call[p].on /\ call'[p].id = call[p].id
  <1> DEFINE c == call[p]
             found == {e \in stream[c.agg] : IsEventOf(e, c)}
             i == IF found = {} THEN c.id ELSE (CHOOSE e \in found : TRUE)[2]
  <1>1. c \in CallRecords
    BY CallOf
  <1>2. i = c.id
    BY DEF IsEventOf
  <1>3. call'[p] = [c EXCEPT !.st = "answered", !.id = i]
    BY <1>1 DEF ReplayEvent, CallRecords, TypeOK
  <1> QED
    BY <1>1, <1>2, <1>3 DEF CallRecords

\* GetSnapshot starts from the snapshot, or from nothing when it cannot be decoded.
LEMMA SnapshotCall ==
  ASSUME TypeOK, Control, NEW p \in Callers, GetSnapshot(p)
  PROVE  /\ call'[p].st = "events"
         /\ call'[p].op = call[p].op /\ call'[p].cmd = call[p].cmd
         /\ call'[p].on = call[p].on /\ call'[p].id = call[p].id
         /\ \/ /\ call'[p].ver = snapshot[call[p].on].ver
               /\ call'[p].state = snapshot[call[p].on].state
            \/ /\ call'[p].ver = call[p].ver
               /\ call'[p].state = call[p].state
  <1> DEFINE c == call[p]
  <1>1. c \in CallRecords
    BY CallOf
  <1>2. CASE Goto(p, "events")
    BY <1>2, GotoCall DEF States
  <1>3. CASE call' = [call EXCEPT ![p].st = "events", ![p].ver = snapshot[c.on].ver,
                                  ![p].state = snapshot[c.on].state]
    BY <1>1, <1>3 DEF CallRecords, TypeOK
  <1> QED
    BY <1>2, <1>3 DEF GetSnapshot

\* The events after the snapshot.
EventsRead(p) == EventsFrom(call[p].on, call[p].ver + 1)

\* ReadFrom ends a Get that has upcast nothing; otherwise the call has the events it read.
LEMMA ReadCall ==
  ASSUME TypeOK, Control, NEW p \in Callers, ReadFrom(p)
  PROVE  \/ /\ call[p].op = "get" /\ OldEvent \notin EventsRead(p)
            /\ call'[p] = Idle
         \/ /\ call'[p].op = call[p].op /\ call'[p].cmd = call[p].cmd
            /\ call'[p].on = call[p].on /\ call'[p].id = call[p].id
            /\ call'[p].state = call[p].state \cup EventsRead(p)
            /\ call'[p].ver = IF EventsRead(p) = {}
                              THEN call[p].ver ELSE LastVersion(EventsRead(p))
            /\ \/ /\ call'[p].op = "get" /\ call'[p].st = "guard"
                  /\ OldEvent \in EventsRead(p)
               \/ /\ call'[p].op # "get" /\ call'[p].st \in {"validate", "save"}
  <1> DEFINE c == call[p]
             events == EventsRead(p)
             v == IF events = {} THEN c.ver ELSE LastVersion(events)
             st == CASE OldEvent \notin events -> "validate"
                     [] OldEvent \in events /\ c.op = "get" -> "guard"
                     [] OTHER -> "save"
             new == [c EXCEPT !.state = @ \cup events, !.ver = v, !.st = st]
  <1>1. c \in CallRecords
    BY CallOf
  <1>2. CASE c.op = "get" /\ OldEvent \notin events
    BY <1>2 DEF ReadFrom, EventsRead, TypeOK
  <1>3. CASE ~(c.op = "get" /\ OldEvent \notin events)
    <2>1. call'[p] = new
      BY <1>1, <1>3 DEF ReadFrom, EventsRead, CallRecords, TypeOK
    <2>2. \/ c.op = "get" /\ st = "guard" /\ OldEvent \in events
          \/ c.op # "get" /\ st \in {"validate", "save"}
      BY <1>3
    <2> HIDE DEF v, st
    <2>3. /\ new.op = c.op /\ new.cmd = c.cmd /\ new.on = c.on /\ new.id = c.id
          /\ new.state = c.state \cup events /\ new.ver = v /\ new.st = st
      BY <1>1 DEF CallRecords
    <2> QED
      BY <2>1, <2>2, <2>3 DEF v
  <1> QED
    BY <1>2, <1>3

\* AppendEvent opens the transaction with one event, or returns a version conflict.
LEMMA AppendCall ==
  ASSUME TypeOK, Control, NEW p \in Callers, AppendEvent(p),
         NEW v, v = NextVersion(call[p].ver)
  PROVE  \/ /\ Return(p) /\ VersionTaken(call[p].on, v)
            /\ UNCHANGED <<tx, stream, author, receipts, snapshot, commits, told>>
         \/ /\ call'[p].st = "hook" /\ call'[p].ver = v
            /\ call'[p].state = call[p].state \cup {<<v, call[p].id>>}
            /\ call'[p].op = call[p].op /\ call'[p].cmd = call[p].cmd
            /\ call'[p].on = call[p].on /\ call'[p].id = call[p].id
            /\ tx' = Open(p)
            /\ stream' = [stream EXCEPT ![call[p].on] = @ \cup {<<v, call[p].id>>}]
            /\ author' = [author EXCEPT ![call[p].id] = call[p].cmd]
            /\ UNCHANGED <<receipts, snapshot, lock, commits, told>>
  <1> DEFINE c == call[p]
             new == [c EXCEPT !.st = "hook", !.ver = v, !.state = @ \cup {<<v, c.id>>}]
  <1>1. c \in CallRecords
    BY CallOf
  <1>2. CASE VersionTaken(c.on, v)
    BY <1>2 DEF AppendEvent
  <1>3. CASE ~VersionTaken(c.on, v)
    <2>1. call'[p] = new
      BY <1>1, <1>3 DEF AppendEvent, CallRecords, TypeOK
    <2>2. /\ new.op = c.op /\ new.cmd = c.cmd /\ new.on = c.on /\ new.id = c.id
          /\ new.state = c.state \cup {<<v, c.id>>} /\ new.ver = v /\ new.st = "hook"
      BY <1>1 DEF CallRecords
    <2> QED
      BY <2>1, <2>2, <1>3 DEF AppendEvent, executor
  <1> QED
    BY <1>2, <1>3

\* A call that returns gives its identifier back to nobody.
LEMMA ReturnKeepsIDs ==
  ASSUME IDsAreGivenOnce, NEW p \in Callers, call'[p] = Idle,
         \A q \in Callers : q # p => call'[q] = call[q],
         UNCHANGED <<calls, author, commits>>
  PROVE  IDsAreGivenOnce'
  <1>1. ~Writes(p)' /\ ~Fresh(p)' /\ call'[p].st = "idle"
    BY IdleCall DEF Writes, Fresh
  <1>2. \A q \in Callers : q # p => (Writes(q)' <=> Writes(q)) /\ (Fresh(q)' <=> Fresh(q))
    BY DEF Writes, Fresh
  <1> QED
    BY <1>1, <1>2 DEF IDsAreGivenOnce

\* A rejection is reported only from a receipt, and the answer to a retry begins with the
\* author of its receipt (exec_idempotency.go:24-62).
LEMMA GetReceiptKeepsIdempotent ==
  ASSUME TypeOK, Control, Idempotent, NEW p \in Callers, OwnStep(p), GetReceipt(p)
  PROVE  Idempotent'
  <1> DEFINE c == call[p].cmd
             r == receipts[c]
  <1>1. call[p] \in CallRecords /\ call[p].op = "command" /\ c \in CommandIDs /\ r \in Receipts
    BY CallOf DEF GetReceipt, WellPlaced, CallRecords, TypeOK
  <1>2. call[p].st \in {"receipt", "again"} /\ call[p].st \notin InTx
    BY DEF GetReceipt, InTx
  <1>3. UNCHANGED <<receipts, tx, author, commits>>
    BY DEF GetReceipt, store
  <1>4. CASE Goto(p, "snapshot") /\ call[p].st = "receipt" /\ UNCHANGED told
    <2>1. KeepsDecisions(p)
      BY <1>2, <1>3, <1>4, GotoCall DEF KeepsDecisions, States, InTx, BeforeAppend
    <2> QED
      BY <2>1, KeepingDecisions
  <1>5. CASE Return(p) /\ UNCHANGED told
    <2>1. KeepsDecisions(p)
      BY <1>2, <1>3, <1>5, ReturnCall DEF KeepsDecisions
    <2> QED
      BY <2>1, KeepingDecisions
  <1>6. CASE r.kind = "rejected" /\ Tell(c, "rejected") /\ Return(p)
    <2>1. call'[p] = Idle /\ \A q \in Callers : q # p => call'[q] = call[q]
      BY <1>6, ReturnCall
    <2>2. Durable[c].kind = "rejected"
      BY <1>1, <1>6 DEF Idempotent, OneReceipt, Durable
    <2>3. \A k \in CommandIDs : told'[k] = IF k = c THEN told[k] \cup {"rejected"} ELSE told[k]
      BY <1>1, <1>6, TellTypes
    <2>4. DecisionsLast'
      BY <2>2, <2>3, <1>3 DEF Idempotent, DecisionsLast, Durable
    <2>5. OneTransaction' /\ Authorship'
      BY <2>1, <1>2, <1>3, IdleCall DEF Idempotent, OneTransaction, Authorship, OwnStep, InTx
    <2>6. IDsAreGivenOnce'
      BY <2>1, <1>3, ReturnKeepsIDs DEF Idempotent, OwnStep
    <2>7. OneReceipt'
      <3>1. tx # NoTx => tx.by # p /\ tx.by \in Callers
        BY <1>2, ClosedTx DEF Idempotent
      <3> QED
        BY <3>1, <2>1, <1>3, IdleCall DEF Idempotent, OneReceipt
    <2> QED
      BY <2>4, <2>5, <2>6, <2>7 DEF Idempotent
  <1>7. CASE /\ r.kind = "accepted" /\ UNCHANGED told
             /\ call' = [call EXCEPT ![p].st = "replay", ![p].agg = r.agg, ![p].ver = r.ver,
                                     ![p].id = r.id]
    <2>1. /\ call'[p].st = "replay" /\ call'[p].id = r.id
          /\ call'[p].op = call[p].op /\ call'[p].cmd = c
          /\ \A q \in Callers : q # p => call'[q] = call[q]
      BY <1>1, <1>7 DEF CallRecords, TypeOK, OwnStep
    <2>2. author[r.id] = c /\ r.id \in 1..calls
      BY <1>1, <1>7 DEF Idempotent, Authorship, Receipts, IDs
    <2>3. OneTransaction'
      BY <2>1, <1>2, <1>3 DEF Idempotent, OneTransaction, InTx
    <2>4. Authorship'
      BY <2>1, <2>2, <1>3 DEF Idempotent, Authorship, OwnStep
    <2>5. IDsAreGivenOnce'
      <3>1. \A q \in Callers : Writes(q)' => Writes(q)
        BY <2>1 DEF Writes
      <3>2. \A q \in Callers : Fresh(q)' => Fresh(q) /\ q # p /\ call[q].id # r.id
        BY <2>1, <2>2, <1>1, WritePathConstants
           DEF Fresh, Writes, BeforeAppend, Idempotent, IDsAreGivenOnce
      <3> QED
        BY <2>1, <2>2, <3>1, <3>2, <1>3 DEF Idempotent, IDsAreGivenOnce, OwnStep
    <2>6. OneReceipt'
      <3>1. tx # NoTx => tx.by # p /\ tx.by \in Callers
        BY <1>2, ClosedTx DEF Idempotent
      <3> QED
        BY <3>1, <2>1, <1>3 DEF Idempotent, OneReceipt
    <2>7. DecisionsLast'
      BY <1>3, <1>7 DEF Idempotent, DecisionsLast, Durable
    <2> QED
      BY <2>3, <2>4, <2>5, <2>6, <2>7 DEF Idempotent
  <1> QED
    BY <1>4, <1>5, <1>6, <1>7 DEF GetReceipt

\* A rejection is recorded before it is reported, and only where nothing was decided.
LEMMA RecordRejectionKeepsIdempotent ==
  ASSUME TypeOK, Control, Idempotent, NEW p \in Callers, OwnStep(p), RecordRejection(p)
  PROVE  Idempotent'
  <1> DEFINE c == call[p].cmd
  <1>1. call[p] \in CallRecords /\ c \in CommandIDs
    BY CallOf DEF RecordRejection, WellPlaced, CallRecords
  <1>2. call[p].st \notin InTx /\ UNCHANGED <<tx, author, commits>> /\ tx = NoTx
    BY DEF RecordRejection, InTx
  <1>3. CASE Goto(p, "again") /\ UNCHANGED <<receipts, told>>
    <2>1. KeepsDecisions(p)
      BY <1>2, <1>3, GotoCall DEF KeepsDecisions, States, InTx, BeforeAppend
    <2> QED
      BY <2>1, KeepingDecisions
  <1>4. CASE Return(p) /\ UNCHANGED <<receipts, told>>
    <2>1. KeepsDecisions(p)
      BY <1>2, <1>4, ReturnCall DEF KeepsDecisions
    <2> QED
      BY <2>1, KeepingDecisions
  <1>5. CASE /\ receipts[c].kind = "none" /\ receipts' = [receipts EXCEPT ![c] = Rejected]
             /\ Tell(c, "rejected") /\ Return(p)
    <2>1. call'[p] = Idle /\ \A q \in Callers : q # p => call'[q] = call[q]
      BY <1>5, ReturnCall
    <2>2. \A k \in CommandIDs : told'[k] = IF k = c THEN told[k] \cup {"rejected"} ELSE told[k]
      BY <1>1, <1>5, TellTypes
    <2>3. \A k \in CommandIDs : receipts'[k] = IF k = c THEN Rejected ELSE receipts[k]
      BY <1>5 DEF TypeOK
    <2>4. Rejected.kind = "rejected" /\ Durable = receipts /\ Durable' = receipts'
      BY <1>2 DEF Rejected, Durable
    <2>5. DecisionsLast'
      <3>1. \A i \in commits : author[i] # c
        BY <2>4, <1>1, <1>5 DEF Idempotent, DecisionsLast
      <3>2. \A k \in CommandIDs : k # c => receipts'[k] = receipts[k] /\ told'[k] = told[k]
        BY <2>2, <2>3
      <3>3. receipts'[c].kind = "rejected"
        BY <2>3, <2>4, <1>1
      <3> QED
        BY <3>1, <3>2, <3>3, <2>4, <1>2 DEF Idempotent, DecisionsLast
    <2>6. OneTransaction'
      BY <2>1, <1>2, IdleCall DEF Idempotent, OneTransaction, InTx
    <2>7. Authorship'
      BY <2>1, <2>3, <2>4, <1>2, IdleCall DEF Idempotent, Authorship, OwnStep
    <2>8. IDsAreGivenOnce'
      BY <2>1, <1>2, ReturnKeepsIDs DEF Idempotent, OwnStep
    <2>9. OneReceipt'
      <3>1. \A q \in Callers : call'[q].st # "commit"
        BY <2>1, <1>2, ClosedTx, IdleCall DEF Idempotent, InTx
      <3> QED
        BY <3>1, <1>2 DEF OneReceipt
    <2> QED
      BY <2>5, <2>6, <2>7, <2>8, <2>9 DEF Idempotent
  <1> QED
    BY <1>3, <1>4, <1>5 DEF RecordRejection

\* The event appended has an identifier of its own and its command as author.
LEMMA AppendKeepsIdempotent ==
  ASSUME TypeOK, Control, Idempotent, NEW p \in Callers, OwnStep(p), AppendEvent(p)
  PROVE  Idempotent'
  <1> DEFINE c == call[p]
             v == NextVersion(c.ver)
  <1>1. call[p].st = "append" /\ call[p].st \notin InTx /\ tx = NoTx
    BY DEF AppendEvent, InTx
  <1>2. c \in CallRecords /\ Fresh(p) /\ Writes(p)
    BY <1>1, CallOf DEF CallRecords, Fresh, Writes, WellPlaced, BeforeAppend, Idle
  <1>3. c.id \in IDs /\ author[c.id] = NoID /\ c.id \notin commits
    BY <1>2, WritePathConstants DEF Idempotent, IDsAreGivenOnce, TypeOK, IDs
  <1>4. CASE Return(p) /\ UNCHANGED <<tx, receipts, author, commits, told>>
    <2>1. KeepsDecisions(p)
      BY <1>1, <1>4, ReturnCall DEF KeepsDecisions
    <2> QED
      BY <2>1, KeepingDecisions
  <1>5. CASE /\ call'[p].st = "hook" /\ call'[p].op = c.op /\ call'[p].cmd = c.cmd
             /\ call'[p].id = c.id /\ tx' = Open(p)
             /\ author' = [author EXCEPT ![c.id] = c.cmd]
             /\ UNCHANGED <<receipts, commits, told>>
    <2>1. \A q \in Callers : q # p => call'[q] = call[q]
      BY DEF OwnStep
    <2>2. \A i \in IDs : author'[i] = IF i = c.id THEN c.cmd ELSE author[i]
      BY <1>5 DEF TypeOK
    <2>3. tx'.by = p /\ tx'.receipts = receipts /\ tx' # NoTx
      BY <1>5, WritePathConstants DEF Open, NoTx
    <2>4. Durable = receipts /\ Durable' = receipts
      BY <2>3, <1>1 DEF Durable
    <2>5. OneTransaction'
      BY <2>1, <2>3, <1>1, <1>5, ClosedTx DEF OneTransaction, Idempotent, InTx
    <2>6. Authorship'
      <3>1. \A q \in Callers : q # p /\ call[q].st \in {"hook", "commit", "replay", "answered"} =>
                /\ call[q].id \in IDs /\ call[q].id # c.id
        <4> SUFFICES ASSUME NEW q \in Callers, q # p,
                            call[q].st \in {"hook", "commit", "replay", "answered"}
                     PROVE  call[q].id \in IDs /\ call[q].id # c.id
          OBVIOUS
        <4>1. call[q] \in CallRecords /\ WellPlaced(call[q])
          BY CallOf
        <4>2. Writes(q)
          BY <4>1 DEF Writes, CallRecords, WellPlaced, Idle
        <4>3. call[q].id \in IDs
          BY <4>2, WritePathConstants DEF Idempotent, IDsAreGivenOnce, TypeOK, IDs
        <4> QED
          BY <4>2, <4>3, <1>2 DEF Idempotent, IDsAreGivenOnce
      <3>2. \A k \in CommandIDs : receipts[k].kind = "accepted" =>
                receipts[k].id \in IDs /\ receipts[k].id # c.id
        BY <1>3, WritePathConstants DEF Idempotent, Authorship, TypeOK, Receipts
      <3> QED
        BY <3>1, <3>2, <2>1, <2>2, <1>3, <1>5 DEF Idempotent, Authorship, OwnStep
    <2>7. IDsAreGivenOnce'
      <3>1. \A q \in Callers : /\ Writes(q)' <=> Writes(q)
                               /\ call'[q].id = call[q].id
                               /\ Fresh(q)' => Fresh(q) /\ q # p
        BY <2>1, <1>5 DEF Writes, Fresh, BeforeAppend
      <3>2. c.id <= calls
        BY <1>2 DEF Idempotent, IDsAreGivenOnce
      <3>3. \A q \in Callers : Fresh(q)' => author'[call'[q].id] = NoID
        <4> SUFFICES ASSUME NEW q \in Callers, Fresh(q)'
                     PROVE  author'[call'[q].id] = NoID
          OBVIOUS
        <4>1. Fresh(q) /\ Writes(q) /\ q # p /\ call'[q].id = call[q].id
          BY <3>1 DEF Fresh
        <4>2. call[q].id \in IDs /\ author[call[q].id] = NoID /\ call[q].id # c.id
          BY <4>1, <1>2, WritePathConstants DEF Idempotent, IDsAreGivenOnce, TypeOK, IDs
        <4> QED
          BY <4>1, <4>2, <2>2
      <3>4. \A i \in IDs : i > calls => author'[i] = NoID
        BY <3>2, <2>2, <1>3 DEF Idempotent, IDsAreGivenOnce, TypeOK, IDs
      <3>5. \A q \in Callers : Fresh(q)' \/ call'[q].st \in {"hook", "commit"} =>
                call'[q].id \notin commits
        BY <3>1, <2>1, <1>3, <1>5 DEF Idempotent, IDsAreGivenOnce
      <3> QED
        BY <3>1, <3>3, <3>4, <3>5, <1>5 DEF Idempotent, IDsAreGivenOnce, OwnStep
    <2>8. OneReceipt'
      <3>1. \A q \in Callers : call'[q].st # "commit"
        BY <2>1, <1>1, <1>5, ClosedTx DEF Idempotent, InTx
      <3> QED
        BY <3>1, <2>3, <1>5 DEF OneReceipt
    <2>9. DecisionsLast'
      <3>1. \A i \in commits : author'[i] = author[i]
        BY <2>2, <1>3 DEF TypeOK
      <3> QED
        BY <3>1, <2>4, <1>5 DEF Idempotent, DecisionsLast
    <2> QED
      BY <2>5, <2>6, <2>7, <2>8, <2>9 DEF Idempotent
  <1> QED
    BY <1>4, <1>5, AppendCall

\* A call that moves on inside or after its transaction keeps its identifier.
LEMMA GotoKeepsIDs ==
  ASSUME TypeOK, IDsAreGivenOnce, NEW p \in Callers, NEW st \in States, Goto(p, st),
         st \notin BeforeAppend,
         st \in {"hook", "commit"} => call[p].st \in {"hook", "commit"},
         UNCHANGED <<calls, author, commits>>
  PROVE  IDsAreGivenOnce'
  <1>1. /\ \A q \in Callers : q # p => call'[q] = call[q]
        /\ call'[p].st = st /\ call'[p].id = call[p].id /\ call'[p].op = call[p].op
    BY GotoCall
  <1>2. \A q \in Callers : /\ Writes(q)' <=> Writes(q)
                           /\ Fresh(q)' => Fresh(q)
                           /\ call'[q].id = call[q].id
    BY <1>1 DEF Writes, Fresh
  <1> QED
    BY <1>1, <1>2 DEF IDsAreGivenOnce

\* PutReceipt adds the receipt of the transaction's own command, where none was.
LEMMA HookKeepsIdempotent ==
  ASSUME TypeOK, Control, Idempotent, NEW p \in Callers, OwnStep(p), Hook(p)
  PROVE  Idempotent'
  <1> DEFINE c == call[p]
  <1>1. c.st = "hook" /\ c.st \in InTx /\ UNCHANGED <<tx, author, commits, told, calls>>
    BY DEF Hook, InTx, history
  <1>2. /\ tx.by = p /\ tx # NoTx /\ tx.receipts \in [CommandIDs -> Receipts]
    BY <1>1, OpenTx DEF Idempotent
  <1>3. Durable = tx.receipts /\ Durable' = tx.receipts
    BY <1>1, <1>2 DEF Durable
  <1>4. \A k \in CommandIDs : receipts[k] = tx.receipts[k]
    BY <1>1, <1>2 DEF Idempotent, OneReceipt
  <1>5. DecisionsLast'
    BY <1>1, <1>3 DEF Idempotent, DecisionsLast
  <1>6. PICK st \in {"commit", "duplicate", "undo"} : Goto(p, st)
    BY DEF Hook
  <1>7. /\ \A q \in Callers : q # p => call'[q] = call[q]
        /\ call'[p].st = st /\ call'[p].id = c.id /\ call'[p].cmd = c.cmd
    BY <1>6, GotoCall DEF States
  <1>8. IDsAreGivenOnce'
    BY <1>1, <1>6, GotoKeepsIDs DEF Idempotent, States, BeforeAppend
  <1>9. OneTransaction'
    BY <1>1, <1>7 DEF Idempotent, OneTransaction, InTx
  <1>10. \A q \in Callers : call'[q].st = "commit" => q = p
    BY <1>2, <1>7 DEF Idempotent, OneTransaction, InTx
  <1>11. author[c.id] = c.cmd
    BY <1>1 DEF Idempotent, Authorship
  <1>12. \A q \in Callers : call'[q].st \in {"hook", "commit", "replay", "answered"}
            => author[call'[q].id] = call'[q].cmd
    BY <1>7, <1>11 DEF Idempotent, Authorship
  <1>13. CASE UNCHANGED receipts /\ (st = "commit" => c.cmd = NoID)
    <2>1. Authorship'
      BY <1>1, <1>12, <1>13 DEF Idempotent, Authorship
    <2>2. OneReceipt'
      BY <1>1, <1>4, <1>7, <1>10, <1>13 DEF OneReceipt
    <2> QED
      BY <2>1, <2>2, <1>5, <1>8, <1>9 DEF Idempotent
  <1>14. CASE st = "commit" /\ c.cmd # NoID /\ PutReceipt(c.cmd, Accepted(c.on, c.ver, c.id))
    <2>1. c \in CallRecords /\ WellPlaced(c) /\ c.cmd \in CommandIDs
      BY <1>14, CallOf DEF CallRecords
    <2>2. Writes(p)
      BY <2>1, <1>1 DEF Writes, CallRecords, WellPlaced, Idle
    <2>3. \A k \in CommandIDs : receipts'[k] =
              IF k = c.cmd THEN Accepted(c.on, c.ver, c.id) ELSE receipts[k]
      BY <1>14 DEF PutReceipt, TypeOK
    <2>4. Accepted(c.on, c.ver, c.id).kind = "accepted" /\ Accepted(c.on, c.ver, c.id).id = c.id
      BY DEF Accepted
    <2>5. c.id <= calls
      BY <2>2 DEF Idempotent, IDsAreGivenOnce
    <2>6. Authorship'
      BY <2>3, <2>4, <2>5, <1>1, <1>11, <1>12 DEF Idempotent, Authorship
    <2>7. tx.receipts[c.cmd].kind = "none"
      BY <2>1, <1>4, <1>14 DEF PutReceipt
    <2>8. OneReceipt'
      BY <2>1, <2>3, <2>4, <2>7, <1>1, <1>2, <1>4, <1>7, <1>10, <1>14 DEF OneReceipt
    <2> QED
      BY <2>6, <2>8, <1>5, <1>8, <1>9 DEF Idempotent
  <1> QED
    <2>1. \/ UNCHANGED receipts /\ Goto(p, "commit") /\ c.cmd = NoID
          \/ PutReceipt(c.cmd, Accepted(c.on, c.ver, c.id)) /\ Goto(p, "commit") /\ c.cmd # NoID
          \/ UNCHANGED receipts /\ Goto(p, "duplicate")
          \/ UNCHANGED receipts /\ Goto(p, "undo")
      BY DEF Hook
    <2>2. \A s \in States : Goto(p, s) => call'[p].st = s
      BY GotoCall
    <2>3. {"commit", "duplicate", "undo"} \subseteq States
      BY DEF States
    <2> QED
      BY <2>1, <2>2, <2>3, <1>7, <1>13, <1>14

\* The commit makes event and receipt durable in one step.
LEMMA CommitKeepsIdempotent ==
  ASSUME TypeOK, Control, Idempotent, NEW p \in Callers, OwnStep(p), Commit(p)
  PROVE  Idempotent'
  <1> DEFINE c == call[p]
  <1>1. c.st = "commit" /\ c.st \in InTx /\ UNCHANGED <<receipts, author, told, calls>>
    BY DEF Commit, InTx
  <1>2. /\ tx.by = p /\ tx # NoTx /\ tx.receipts \in [CommandIDs -> Receipts]
    BY <1>1, OpenTx DEF Idempotent
  <1>3. author[c.id] = c.cmd /\ c.id \notin commits
    BY <1>1 DEF Idempotent, Authorship, IDsAreGivenOnce
  <1>4. /\ c \in CallRecords /\ WellPlaced(c)
    BY CallOf
  <1>5. Writes(p)
    BY <1>1, <1>4 DEF Writes, CallRecords, WellPlaced, Idle
  <1>6. c.id \in IDs /\ c.id <= calls
    BY <1>5, WritePathConstants DEF Idempotent, IDsAreGivenOnce, TypeOK, IDs
  <1>7. CASE Goto(p, "undo") /\ UNCHANGED <<tx, commits>>
    <2>1. /\ \A q \in Callers : q # p => call'[q] = call[q]
          /\ call'[p].st = "undo" /\ call'[p].cmd = c.cmd
      BY <1>7, GotoCall DEF States
    <2>2. IDsAreGivenOnce'
      BY <1>1, <1>7, GotoKeepsIDs DEF Idempotent, States, BeforeAppend
    <2>3. OneTransaction'
      BY <2>1, <1>1, <1>7 DEF Idempotent, OneTransaction, InTx
    <2>4. Authorship'
      BY <2>1, <1>1 DEF Idempotent, Authorship
    <2>5. OneReceipt'
      BY <2>1, <1>1, <1>2, <1>7 DEF Idempotent, OneReceipt
    <2>6. DecisionsLast'
      BY <1>1, <1>7 DEF Idempotent, DecisionsLast, Durable
    <2> QED
      BY <2>2, <2>3, <2>4, <2>5, <2>6 DEF Idempotent
  <1>8. CASE Goto(p, "put") /\ tx' = NoTx /\ commits' = commits \cup {c.id}
    <2>1. /\ \A q \in Callers : q # p => call'[q] = call[q]
          /\ call'[p].st = "put" /\ call'[p].id = c.id /\ call'[p].op = c.op
      BY <1>8, GotoCall DEF States
    <2>2. \A q \in Callers : q # p => call[q].st \notin InTx
      BY <1>2 DEF Idempotent, OneTransaction
    <2>3. OneTransaction'
      BY <2>1, <2>2, <1>8, WritePathConstants DEF OneTransaction, NoTx, InTx
    <2>4. IDsAreGivenOnce'
      <3>1. \A q \in Callers : /\ Writes(q)' <=> Writes(q)
                               /\ Fresh(q)' => Fresh(q) /\ q # p
                               /\ call'[q].id = call[q].id
                               /\ call'[q].st \notin {"hook", "commit"}
        BY <2>1, <2>2 DEF Writes, Fresh, BeforeAppend, InTx
      <3>2. \A q \in Callers : Fresh(q) /\ q # p => call[q].id # c.id
        BY <1>5 DEF Idempotent, IDsAreGivenOnce
      <3> QED
        BY <3>1, <3>2, <1>1, <1>6, <1>8 DEF Idempotent, IDsAreGivenOnce
    <2>5. Authorship'
      BY <2>1, <1>1 DEF Idempotent, Authorship
    <2>6. OneReceipt'
      BY <2>1, <2>2, <1>8 DEF OneReceipt, InTx
    <2>7. DecisionsLast'
      <3>1. Durable = tx.receipts /\ Durable' = receipts
        BY <1>1, <1>2, <1>8 DEF Durable
      <3>2. \A k \in CommandIDs : k # c.cmd => receipts[k] = tx.receipts[k]
        BY <1>2 DEF Idempotent, OneReceipt
      <3>3. c.cmd \in CommandIDs => /\ receipts[c.cmd].kind = "accepted"
                                    /\ receipts[c.cmd].id = c.id
                                    /\ tx.receipts[c.cmd].kind = "none"
        BY <1>1, WritePathConstants DEF Idempotent, OneReceipt
      <3>4. c.cmd \in CommandIDs =>
                /\ \A i \in commits : author[i] # c.cmd
                /\ "rejected" \notin told[c.cmd]
        BY <3>1, <3>3 DEF Idempotent, DecisionsLast
      <3> QED
        BY <3>1, <3>2, <3>3, <3>4, <1>1, <1>3, <1>8 DEF Idempotent, DecisionsLast
    <2> QED
      BY <2>3, <2>4, <2>5, <2>6, <2>7 DEF Idempotent
  <1> QED
    BY <1>7, <1>8 DEF Commit

\* The end of a transaction that leaves the durable receipts as they were.
LEMMA EndKeepsIdempotent ==
  ASSUME TypeOK, Control, Idempotent, NEW p \in Callers, OwnStep(p), call[p].st \in InTx,
         tx' = NoTx, receipts' = tx.receipts, UNCHANGED <<author, commits, told>>,
         Return(p) \/ Goto(p, "again")
  PROVE  Idempotent'
  <1>1. tx.by = p /\ tx # NoTx /\ UNCHANGED calls
    BY OpenTx DEF Idempotent, OwnStep
  <1>2. /\ \A q \in Callers : q # p => call'[q] = call[q]
        /\ call'[p].st \in {"idle", "again"}
    BY ReturnCall, GotoCall, IdleCall DEF States
  <1>3. \A q \in Callers : call'[q].st \notin InTx
    BY <1>1, <1>2 DEF Idempotent, OneTransaction, InTx
  <1>4. OneTransaction'
    BY <1>3, WritePathConstants DEF OneTransaction, NoTx
  <1>5. IDsAreGivenOnce'
    <2>1. CASE Return(p)
      BY <2>1, <1>1, ReturnCall, ReturnKeepsIDs DEF Idempotent
    <2>2. CASE Goto(p, "again")
      BY <2>2, <1>1, GotoKeepsIDs DEF Idempotent, States, BeforeAppend
    <2> QED
      BY <2>1, <2>2
  <1>6. Durable = tx.receipts /\ Durable' = tx.receipts
    BY <1>1 DEF Durable
  <1>7. DecisionsLast'
    BY <1>6 DEF Idempotent, DecisionsLast
  <1>8. Authorship'
    <2>1. \A c \in CommandIDs : tx.receipts[c].kind = "accepted" =>
              author[tx.receipts[c].id] = c /\ tx.receipts[c].id <= calls
      BY <1>6 DEF Idempotent, DecisionsLast, IDsAreGivenOnce
    <2> QED
      BY <2>1, <1>1, <1>2 DEF Idempotent, Authorship
  <1>9. OneReceipt'
    BY <1>3 DEF OneReceipt, InTx
  <1> QED
    BY <1>4, <1>5, <1>7, <1>8, <1>9 DEF Idempotent

\* Forget's transaction leaves the receipts alone.
LEMMA DeleteStreamKeepsIdempotent ==
  ASSUME TypeOK, Control, Idempotent, NEW p \in Callers, OwnStep(p), DeleteStream(p)
  PROVE  Idempotent'
  <1>1. /\ call[p].st = "delete" /\ tx = NoTx /\ tx' = Open(p) /\ Goto(p, "drop")
        /\ UNCHANGED <<receipts, author, commits, told, calls>>
    BY DEF DeleteStream, history
  <1>2. /\ \A q \in Callers : q # p => call'[q] = call[q]
        /\ call'[p].st = "drop"
    BY <1>1, GotoCall DEF States
  <1>3. tx'.by = p /\ tx'.receipts = receipts /\ tx' # NoTx
    BY <1>1, WritePathConstants DEF Open, NoTx
  <1>4. OneTransaction'
    BY <1>1, <1>2, <1>3, ClosedTx DEF Idempotent, OneTransaction, InTx
  <1>5. IDsAreGivenOnce'
    BY <1>1, GotoKeepsIDs DEF Idempotent, States, BeforeAppend
  <1>6. Authorship'
    BY <1>1, <1>2 DEF Idempotent, Authorship
  <1>7. OneReceipt'
    <2>1. \A q \in Callers : call'[q].st # "commit"
      BY <1>1, <1>2, ClosedTx DEF Idempotent, InTx
    <2> QED
      BY <2>1, <1>1, <1>3 DEF OneReceipt
  <1>8. DecisionsLast'
    BY <1>1, <1>3 DEF Idempotent, DecisionsLast, Durable
  <1> QED
    BY <1>4, <1>5, <1>6, <1>7, <1>8 DEF Idempotent

\* Every step of a call keeps the invariant on receipts.
LEMMA StepKeepsIdempotent ==
  ASSUME TypeOK, Control, Idempotent, NEW p \in Callers, OwnStep(p), Step(p)
  PROVE  Idempotent'
  <1> DEFINE c == call[p]
  <1>0. c \in CallRecords /\ WellPlaced(c)
    BY CallOf
  <1>1. ASSUME UNCHANGED <<receipts, tx, author, commits, told>>, c.st \notin InTx, Return(p)
        PROVE  Idempotent'
    <2>1. KeepsDecisions(p)
      BY <1>1, ReturnCall DEF KeepsDecisions
    <2> QED
      BY <2>1, KeepingDecisions
  <1>2. ASSUME UNCHANGED <<receipts, tx, author, commits, told>>, c.st \notin InTx,
               NEW st \in States \ (InTx \cup {"replay", "answered"}), Goto(p, st),
               st \in BeforeAppend => c.st \in BeforeAppend \/ c.op = "get"
        PROVE  Idempotent'
    <2>1. KeepsDecisions(p)
      BY <1>2, GotoCall DEF KeepsDecisions
    <2> QED
      BY <2>1, KeepingDecisions
  <1>3. ASSUME UNCHANGED <<receipts, tx, author, commits>>, c.st \notin InTx, Return(p),
               Tell(c.cmd, "accepted")
        PROVE  Idempotent'
    <2>1. \A k \in CommandIDs : told'[k] = IF k = c.cmd THEN told[k] \cup {"accepted"} ELSE told[k]
      BY <1>0, <1>3, TellTypes DEF CallRecords
    <2>2. \A k \in CommandIDs : "rejected" \in told'[k] => "rejected" \in told[k]
      <3>1. "rejected" # "accepted"
        OBVIOUS
      <3> QED
        BY <2>1, <3>1, Zenon
    <2>3. call'[p] = Idle
      BY <1>3, ReturnCall
    <2>4. KeepsDecisions(p)
      BY <2>2, <2>3, <1>3 DEF KeepsDecisions
    <2> QED
      BY <2>4, KeepingDecisions
  <1> USE DEF InTx, BeforeAppend, States
  <1>5. CASE GetReceipt(p)
    BY <1>5, GetReceiptKeepsIdempotent
  <1>6. CASE ReplayEvent(p)
    <2>1. KeepsDecisions(p)
      BY <1>6, ReplayCall DEF KeepsDecisions, ReplayEvent, store, history
    <2> QED
      BY <2>1, KeepingDecisions
  <1>7. CASE Answer(p)
    BY <1>7, <1>3 DEF Answer, store
  <1>8. CASE GetSnapshot(p)
    <2>1. KeepsDecisions(p)
      BY <1>8, SnapshotCall DEF KeepsDecisions, GetSnapshot, store, history
    <2> QED
      BY <2>1, KeepingDecisions
  <1>9. CASE ReadFrom(p)
    <2>1. \/ call'[p] = Idle
          \/ /\ call'[p].op = c.op /\ call'[p].cmd = c.cmd /\ call'[p].id = c.id
             /\ call'[p].st \in {"guard", "validate", "save"}
      BY <1>9, ReadCall
    <2>3. c.st = "events" /\ UNCHANGED <<receipts, tx, author, commits, told>>
      BY <1>9 DEF ReadFrom, store, history
    <2>2. KeepsDecisions(p)
      BY <2>1, <2>3 DEF KeepsDecisions
    <2> QED
      BY <2>2, KeepingDecisions
  <1>10. CASE Guard(p)
    <2>1. CASE Goto(p, "holds")
      BY <2>1, <1>2, <1>10 DEF Guard, store, history
    <2>2. CASE call' = [call EXCEPT ![p] = Idle]
      <3>1. KeepsDecisions(p)
        BY <2>2, <1>10 DEF KeepsDecisions, Guard, store, history, TypeOK
      <3> QED
        BY <3>1, KeepingDecisions
    <2> QED
      BY <2>1, <2>2, <1>10 DEF Guard
  <1>11. CASE CheckStream(p)
    BY <1>11, <1>0, <1>1, <1>2 DEF CheckStream, WellPlaced, store, history
  <1>12. CASE SaveUpcasted(p)
    BY <1>12, <1>1, <1>2 DEF SaveUpcasted, store, history
  <1>13. CASE Validate(p)
    BY <1>13, <1>1, <1>2 DEF Validate, store, history
  <1>14. CASE RecordRejection(p)
    BY <1>14, RecordRejectionKeepsIdempotent
  <1>15. CASE AppendEvent(p)
    BY <1>15, AppendKeepsIdempotent
  <1>16. CASE Hook(p)
    BY <1>16, HookKeepsIdempotent
  <1>17. CASE Commit(p)
    BY <1>17, CommitKeepsIdempotent
  <1>18. CASE Rollback(p)
    BY <1>18, EndKeepsIdempotent DEF Rollback, Restore, history
  <1>19. CASE PutSnapshot(p)
    BY <1>19, <1>3 DEF PutSnapshot, store
  <1>20. CASE EnqueueTombstone(p)
    BY <1>20, <1>2 DEF EnqueueTombstone, store, history
  <1>21. CASE AwaitTombstone(p)
    BY <1>21, <1>1, <1>2 DEF AwaitTombstone, store, history
  <1>22. CASE DeleteSnapshot(p)
    BY <1>22, <1>1, <1>2 DEF DeleteSnapshot, store, history
  <1>23. CASE DeleteStream(p)
    BY <1>23, DeleteStreamKeepsIdempotent
  <1>24. CASE DropDeliveries(p)
    <2>1. tx # NoTx /\ tx.by = p /\ call[p].st = "drop"
          /\ tx.receipts \in [CommandIDs -> Receipts]
      BY <1>24, OpenTx DEF DropDeliveries, Idempotent
    <2>2. receipts = tx.receipts
      BY <2>1 DEF Idempotent, OneReceipt, TypeOK
    <2> QED
      BY <2>1, <2>2, <1>24, EndKeepsIdempotent DEF DropDeliveries, Restore, history
  <1>25. CASE Abort(p)
    BY <1>25, <1>1 DEF Abort, store, history
  <1> QED
    BY <1>5, <1>6, <1>7, <1>8, <1>9, <1>10, <1>11, <1>12, <1>13, <1>14, <1>15, <1>16, <1>17,
       <1>18, <1>19, <1>20, <1>21, <1>22, <1>23, <1>24, <1>25 DEF Step

=============================================================================
