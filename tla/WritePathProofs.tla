-------------------------- MODULE WritePathProofs --------------------------
(***************************************************************************)
(* Theorems about the write path, for any set of aggregates, callers and   *)
(* command ids and any bounds on calls, faults and crashes.                *)
(*                                                                         *)
(* The half of the invariant about streams and snapshots: every stream,    *)
(* also the durable one under an open transaction, has the versions 1..n   *)
(* (Gapless); a snapshot is a prefix of both; whoever works under a lock   *)
(* knows the stream (LockOf, Read); and what a lock-free read has built    *)
(* shares a prefix with the stream, whatever is erased and re-created      *)
(* meanwhile (LockFree), because no identifier is given twice (Used).      *)
(***************************************************************************)
EXTENDS WritePathReceipts, FiniteSetTheorems

-----------------------------------------------------------------------------
(* Streams without gaps.                                                   *)

\* A prefix of a stream is a stream.
LEMMA SizedUpTo ==
  ASSUME NEW s \in SUBSET Events, NEW n \in Nat, Sized(s, n), NEW v \in Nat, Reaches(s, v)
  PROVE  v <= n /\ Sized(UpTo(s, v), v)
  <1>1. v <= n
    BY DEF Sized, Reaches
  <1> QED
    BY <1>1 DEF Sized, UpTo, Events

\* One more event makes the stream longer by one and keeps its prefixes.
LEMMA SizedAppend ==
  ASSUME NEW s \in SUBSET Events, NEW n \in Nat, Sized(s, n), NEW i \in Nat,
         NEW t, t = s \cup {<<n + 1, i>>}
  PROVE  /\ t \in SUBSET Events
         /\ Sized(t, n + 1)
         /\ \A v \in Nat : Reaches(s, v) => UpTo(t, v) = UpTo(s, v) /\ Reaches(t, v)
  <1>1. t \in SUBSET Events
    BY DEF Events
  <1>2. Sized(t, n + 1)
    <2>1. \A e \in t : e[1] \in 1..(n + 1)
      BY DEF Sized, Events
    <2>2. \A v \in 1..(n + 1) : \E e \in t : e[1] = v
      <3>1. <<n + 1, i>> \in t /\ <<n + 1, i>>[1] = n + 1
        OBVIOUS
      <3>2. \A v \in 1..(n + 1) : v = n + 1 \/ v \in 1..n
        OBVIOUS
      <3> QED
        BY <3>1, <3>2 DEF Sized
    <2>3. \A e, f \in t : e[1] = f[1] => e = f
      BY DEF Sized, Events
    <2> QED
      BY <2>1, <2>2, <2>3 DEF Sized
  <1>3. \A v \in Nat : Reaches(s, v) => v <= n
    BY DEF Sized, Reaches
  <1>4. \A v \in Nat : v <= n => UpTo(t, v) = UpTo(s, v)
    BY DEF UpTo
  <1>5. \A v \in Nat : Reaches(s, v) => Reaches(t, v)
    BY DEF Reaches
  <1> QED
    BY <1>1, <1>2, <1>3, <1>4, <1>5

\* A prefix and the events after it.
LEMMA PrefixAndRest ==
  ASSUME NEW s \in SUBSET Events, NEW n \in Nat, Sized(s, n), NEW v \in Nat, Reaches(s, v),
         NEW ev, ev = {e \in s : e[1] >= v + 1}
  PROVE  /\ UpTo(s, v) \cup ev = s
         /\ (IF ev = {} THEN v ELSE LastVersion(ev)) = n
  <1>1. \A e \in s : e[1] \in Nat
    BY DEF Events
  <1>2. UpTo(s, v) \cup ev = s
    BY <1>1 DEF UpTo
  <1>3. v <= n
    BY DEF Sized, Reaches
  <1>4. CASE ev = {}
    <2>1. v = n
      BY <1>1, <1>3, <1>4 DEF Sized
    <2> QED
      BY <1>2, <1>4, <2>1
  <1>5. CASE ev # {}
    <2>1. v + 1 \in Nat
      OBVIOUS
    <2>2. LastVersion(ev) = n
      BY <2>1, <1>5, LastOfSuffix
    <2> QED
      BY <1>2, <1>5, <2>2
  <1> QED
    BY <1>4, <1>5

\* streamHolds: when the last event of a state is in the stream, the whole state is.
LEMMA HeldPrefix ==
  ASSUME NEW s \in SUBSET Events, NEW m \in Nat, m >= 1, Sized(s, m),
         NEW t \in SUBSET Events, NEW n \in Nat, Sized(t, n), SharePrefix(s, t),
         NEW e \in s, e \in t, e[1] = LastVersion(s)
  PROVE  s = UpTo(t, m) /\ Reaches(t, m)
  <1>1. LastVersion(s) = m
    <2>1. s = {f \in s : f[1] >= 0}
      BY DEF Events
    <2>2. s # {} /\ 0 \in Nat
      OBVIOUS
    <2> QED
      BY <2>1, <2>2, LastOfSuffix
  <1>2. \A f \in s : f[1] \in Nat /\ f[1] <= m /\ f \in t
    BY <1>1 DEF Sized, SharePrefix, Events
  <1>3. \A f \in t : f[1] <= m => f \in s
    <2> SUFFICES ASSUME NEW f \in t, f[1] <= m
                 PROVE  f \in s
      OBVIOUS
    <2>1. f[1] \in 1..m
      BY DEF Sized, Events
    <2>2. PICK g \in s : g[1] = f[1]
      BY <2>1 DEF Sized
    <2> QED
      BY <2>2, <1>2 DEF Sized
  <1>4. s = UpTo(t, m)
    BY <1>2, <1>3 DEF UpTo
  <1>5. Reaches(t, m)
    BY <1>1 DEF Reaches
  <1> QED
    BY <1>4, <1>5

\* A stream of n versions has n events.
LEMMA SizedCardinality ==
  ASSUME NEW s \in SUBSET Events, NEW n \in Nat, Sized(s, n)
  PROVE  IsFiniteSet(s) /\ Cardinality(s) = n
  <1> DEFINE f == [v \in 1..n |-> CHOOSE e \in s : e[1] = v]
  <1>1. \A v \in 1..n : f[v] \in s /\ f[v][1] = v
    BY DEF Sized
  <1>2. f \in Bijection(1..n, s)
    <2>1. f \in [1..n -> s]
      BY <1>1
    <2>2. \A v, w \in 1..n : f[v] = f[w] => v = w
      BY <1>1
    <2>3. \A e \in s : \E v \in 1..n : f[v] = e
      <3> SUFFICES ASSUME NEW e \in s
                   PROVE  f[e[1]] = e /\ e[1] \in 1..n
        OBVIOUS
      <3> QED
        BY <1>1 DEF Sized
    <2> HIDE DEF f
    <2> QED
      BY <2>1, <2>2, <2>3 DEF Bijection, Injection, Surjection, IsInjective
  <1>3. ExistsBijection(1..n, s)
    BY <1>2 DEF ExistsBijection
  <1>4. IsFiniteSet(1..n) /\ Cardinality(1..n) = n
    BY FS_Interval
  <1> QED
    BY <1>3, <1>4, FS_Bijection

-----------------------------------------------------------------------------
(* Who can disturb what.                                                   *)

\* Nothing is asked of a call that is over.
LEMMA IdleIsQuiet ==
  ASSUME NEW p \in Callers, call'[p] = Idle
  PROVE  LockOf(p)' /\ Read(p)' /\ LockFree(p)' /\ Erased(p)'
  BY IdleCall DEF LockOf, Read, LockFree, Erased, Writes

\* The lock of q keeps p's step from what q works on.
LEMMA LockedIsStable ==
  ASSUME TypeOK, Control, NEW p \in Callers, NEW q \in Callers, q # p,
         LockOf(q), Read(q), Erased(q), call'[q] = call[q],
         \A a \in Aggs : lock[a] = q =>
             lock'[a] = q /\ stream'[a] = stream[a] /\ snapshot'[a] = snapshot[a]
  PROVE  LockOf(q)' /\ Read(q)' /\ Erased(q)'
  <1>1. call[q] \in CallRecords /\ WellPlaced(call[q])
    BY CallOf
  <1>2. Writes(q)' <=> Writes(q)
    BY DEF Writes
  <1>3. CASE (Writes(q) /\ call[q].st # "await") \/ call[q].st \in {"holds", "save"}
    <2>1. call[q].on \in Aggs
      BY <1>1, <1>3 DEF WellPlaced, Writes, CallRecords, Idle
    <2>2. lock[call[q].on] = q
      BY <1>3 DEF LockOf
    <2> QED
      BY <2>1, <2>2, <1>2 DEF LockOf, Read, Erased
  <1>4. CASE ~((Writes(q) /\ call[q].st # "await") \/ call[q].st \in {"holds", "save"})
    <2>1. call[q].st \notin {"save", "validate", "append", "put", "delete", "drop"}
      BY <1>1, <1>4 DEF WellPlaced, Writes, CallRecords, Idle
    <2> QED
      BY <2>1, <1>2, <1>4 DEF LockOf, Read, Erased
  <1> QED
    BY <1>3, <1>4

\* Identifiers stay used.
LEMMA UsedStays ==
  ASSUME TypeOK, NEW s \in SUBSET Events, Used(s), calls' \in Nat, calls' >= calls,
         \A q \in Callers :
            Fresh(q)' => (Fresh(q) /\ call'[q].id = call[q].id) \/ call'[q].id > calls,
         \A q \in Callers : call'[q].id \in Nat
  PROVE  Used(s)'
  BY DEF Used, TypeOK, Events

\* A lock-free read keeps what it knows while its prefixes stay prefixes.
LEMMA LockFreeStays ==
  ASSUME TypeOK, NEW q \in Callers, LockFree(q), call'[q] = call[q],
         call[q].st \in {"guard", "holds"} =>
            /\ Used(call[q].state) => Used(call[q].state)'
            /\ SharePrefix(call[q].state, stream'[call[q].on])
            /\ SharePrefix(call[q].state, DurableStream'[call[q].on])
  PROVE  LockFree(q)'
  BY DEF LockFree, Used

\* A holder of a's lock that is outside the transaction sees a's durable stream.
LEMMA HolderSeesDurable ==
  ASSUME TypeOK, Control, OneTransaction, Streams, NEW a \in Aggs, NEW p \in Callers,
         lock[a] = p, call[p].st \notin InTx
  PROVE  DurableStream[a] = stream[a]
  <1>1. CASE tx = NoTx
    BY <1>1 DEF DurableStream
  <1>2. CASE tx # NoTx
    <2> DEFINE q == tx.by
    <2>1. q \in Callers /\ call[q].st \in InTx /\ q # p
      BY <1>2, ClosedTx
    <2>2. call[q] \in CallRecords /\ WellPlaced(call[q])
      BY <2>1, CallOf
    <2>3. Writes(q) /\ call[q].st # "await"
      BY <2>1, <2>2 DEF Writes, WellPlaced, CallRecords, InTx, Idle
    <2>4. lock[call[q].on] = q
      BY <2>1, <2>3 DEF Streams, LockOf
    <2> QED
      BY <2>1, <2>4, <1>2 DEF Streams, OneStream, DurableStream
  <1> QED
    BY <1>1, <1>2

\* No identifier becomes unused by a step of p.
KeepsIDs(p) ==
    /\ calls' \in Nat /\ calls' >= calls
    /\ Fresh(p)' => (Fresh(p) /\ call'[p].id = call[p].id) \/ call'[p].id > calls

\* A step of p that leaves the streams alone.  It may save or delete the snapshot of an
\* aggregate that nobody else holds, and move on inside its transaction.
LEMMA StreamsUntouched ==
  ASSUME TypeOK, TypeOK', Control, OneTransaction, Streams, NEW p \in Callers,
         UNCHANGED <<stream, tx>>,
         \A q \in Callers : q # p => call'[q] = call[q],
         \A q \in Callers, a \in Aggs : q # p /\ lock[a] = q =>
             lock'[a] = q /\ snapshot'[a] = snapshot[a],
         SnapshotsOf(stream)', SnapshotsOf(DurableStream)', KeepsIDs(p),
         LockOf(p)', Read(p)', LockFree(p)', Erased(p)',
         call[p].st \notin InTx => call'[p].st \notin InTx,
         call[p].st \in InTx =>
             /\ call'[p].st = "drop" <=> call[p].st = "drop"
             /\ call'[p].on = call[p].on /\ call'[p].ver = call[p].ver
             /\ call'[p].id = call[p].id /\ call'[p].state = call[p].state
  PROVE  Streams'
  <1>1. DurableStream' = DurableStream
    BY DEF DurableStream
  <1>2. OneStream'
    BY DEF Streams, OneStream
  <1>3. Gapless(stream)' /\ Gapless(DurableStream)'
    BY <1>1 DEF Streams, Gapless
  <1>4. \A q \in Callers : Fresh(q)' =>
            (Fresh(q) /\ call'[q].id = call[q].id) \/ call'[q].id > calls
    BY DEF KeepsIDs, Fresh, Writes
  <1>5. /\ calls' \in Nat /\ calls' >= calls
        /\ \A q \in Callers : call'[q].id \in Nat
    BY DEF KeepsIDs, TypeOK, CallRecords
  <1>6. ASSUME NEW s \in SUBSET Events, Used(s)
        PROVE  Used(s)'
    BY <1>4, <1>5, <1>6, UsedStays
  <1>7. \A a \in Aggs : Used(stream[a])' /\ Used(DurableStream[a])'
    <2> SUFFICES ASSUME NEW a \in Aggs
                 PROVE  Used(stream[a])' /\ Used(DurableStream[a])'
      OBVIOUS
    <2>1. stream[a] \in SUBSET Events /\ DurableStream[a] \in SUBSET Events
      BY DurableTypes DEF TypeOK
    <2>2. Used(stream[a]) /\ Used(DurableStream[a])
      BY DEF Streams
    <2>3. \A s \in SUBSET Events : Used(s) => \A e \in s : e[2] <= calls' /\
              \A q \in Callers : Fresh(q)' => e[2] # call'[q].id
      BY <1>6 DEF Used
    <2> QED
      BY <2>1, <2>2, <2>3, <1>1 DEF Used
  <1>8. ASSUME NEW q \in Callers, q # p
        PROVE  LockOf(q)' /\ Read(q)' /\ LockFree(q)' /\ Erased(q)'
    <2>1. LockOf(q) /\ Read(q) /\ LockFree(q) /\ Erased(q) /\ call'[q] = call[q]
      BY <1>8 DEF Streams
    <2>2. LockOf(q)' /\ Read(q)' /\ Erased(q)'
      BY <2>1, <1>8, LockedIsStable
    <2>3. call[q].state \in SUBSET Events
      BY DEF TypeOK, CallRecords
    <2>4. Used(call[q].state) => Used(call[q].state)'
      <3>1. \A s \in SUBSET Events : Used(s) => \A e \in s : e[2] <= calls' /\
                \A r \in Callers : Fresh(r)' => e[2] # call'[r].id
        BY <1>6 DEF Used
      <3> QED
        BY <3>1, <2>1, <2>3 DEF Used
    <2>5. LockFree(q)'
      BY <2>1, <2>4, <1>1, LockFreeStays DEF LockFree
    <2> QED
      BY <2>2, <2>5
  <1> QED
    BY <1>2, <1>3, <1>7, <1>8 DEF Streams

\* The same when the snapshots stay too.
LEMMA StoreUntouched ==
  ASSUME TypeOK, TypeOK', Control, OneTransaction, Streams, NEW p \in Callers,
         UNCHANGED <<stream, tx, snapshot>>,
         \A q \in Callers : q # p => call'[q] = call[q],
         \A q \in Callers, a \in Aggs : q # p /\ lock[a] = q => lock'[a] = q,
         KeepsIDs(p),
         LockOf(p)', Read(p)', LockFree(p)', Erased(p)',
         call[p].st \notin InTx => call'[p].st \notin InTx,
         call[p].st \in InTx =>
             /\ call'[p].st = "drop" <=> call[p].st = "drop"
             /\ call'[p].on = call[p].on /\ call'[p].ver = call[p].ver
             /\ call'[p].id = call[p].id /\ call'[p].state = call[p].state
  PROVE  Streams'
  <1>1. DurableStream' = DurableStream
    BY DEF DurableStream
  <1>2. SnapshotsOf(stream)' /\ SnapshotsOf(DurableStream)'
    BY <1>1 DEF Streams, SnapshotsOf
  <1> QED
    BY <1>2, StreamsUntouched

\* The call returns, with nothing changed.
LEMMA ReturnKeepsStreams ==
  ASSUME TypeOK, TypeOK', Control, OneTransaction, Streams, NEW p \in Callers,
         UNCHANGED <<stream, tx, snapshot, calls>>, Return(p), call[p].st \notin InTx
  PROVE  Streams'
  <1>1. /\ call'[p] = Idle /\ \A q \in Callers : q # p => call'[q] = call[q]
        /\ \A a \in Aggs : lock'[a] = IF lock[a] = p THEN Nobody ELSE lock[a]
    BY ReturnCall
  <1>2. KeepsIDs(p)
    BY <1>1, IdleCall DEF KeepsIDs, Fresh, Writes, TypeOK
  <1>3. LockOf(p)' /\ Read(p)' /\ LockFree(p)' /\ Erased(p)'
    BY <1>1, IdleIsQuiet
  <1>4. call'[p].st \notin InTx
    BY <1>1, IdleCall DEF InTx
  <1> QED
    BY <1>1, <1>2, <1>3, <1>4, StoreUntouched

\* The start of an operation takes the lock of an aggregate that nobody holds.
LEMMA StartKeepsStreams ==
  ASSUME TypeOK, TypeOK', Control, OneTransaction, Streams,
         NEW p \in Callers, NEW a \in Aggs, Starts(p, a)
  PROVE  Streams'
  <1>1. UNCHANGED <<stream, tx, snapshot>>
    BY StartCall DEF store
  <1>2. /\ \A q \in Callers : q # p => call'[q] = call[q]
        /\ call[p] = Idle /\ call'[p].st \in {"receipt", "snapshot"}
        /\ call'[p].state = {} /\ call'[p].ver = 0 /\ call'[p].on = a
    BY StartCall
  <1>3. \A q \in Callers, b \in Aggs : q # p /\ lock[b] = q => lock'[b] = q
    BY StartCall, WritePathConstants DEF TypeOK
  <1>4. KeepsIDs(p)
    BY StartCall DEF KeepsIDs, Fresh, Writes, TypeOK
  <1>5. LockOf(p)'
    BY <1>2, StartCall DEF LockOf, Writes, TypeOK
  <1>6. Read(p)' /\ LockFree(p)' /\ Erased(p)'
    BY <1>2 DEF Read, LockFree, Erased
  <1>7. call'[p].st \notin InTx /\ call[p].st \notin InTx
    BY <1>2, IdleCall DEF InTx
  <1> QED
    BY <1>1, <1>2, <1>3, <1>4, <1>5, <1>6, <1>7, StoreUntouched

\* The transaction ends: what it wrote stays, or what it found is restored.
LEMMA EndKeepsStreams ==
  ASSUME TypeOK, TypeOK', Control, OneTransaction, Streams, NEW p \in Callers,
         call[p].st \in InTx, tx' = NoTx, UNCHANGED <<snapshot, calls>>,
         stream' = stream \/ stream' = tx.stream,
         \A q \in Callers : q # p => call'[q] = call[q],
         \A q \in Callers, a \in Aggs : q # p /\ lock[a] = q => lock'[a] = q,
         KeepsIDs(p), call'[p].st \notin InTx,
         LockOf(p)', Read(p)', LockFree(p)', Erased(p)'
  PROVE  Streams'
  <1>1. tx.by = p /\ tx # NoTx /\ tx.stream \in [Aggs -> SUBSET Events]
    BY OpenTx
  <1>2. DurableStream = tx.stream /\ DurableStream' = stream'
    BY <1>1 DEF DurableStream
  <1>3. stream' = stream \/ stream' = DurableStream
    BY <1>2
  <1>4. \A q \in Callers : call'[q].st \notin InTx
    BY <1>1 DEF OneTransaction
  <1>5. OneStream'
    BY <1>4 DEF OneStream
  <1>6. Gapless(stream)' /\ Gapless(DurableStream)'
    BY <1>2, <1>3 DEF Streams, Gapless
  <1>7. SnapshotsOf(stream)' /\ SnapshotsOf(DurableStream)'
    BY <1>2, <1>3 DEF Streams, SnapshotsOf
  <1>8. /\ \A q \in Callers : call'[q].id \in Nat
        /\ calls' \in Nat /\ calls' >= calls
    BY DEF TypeOK, CallRecords, KeepsIDs
  <1>9. \A q \in Callers : Fresh(q)' =>
            (Fresh(q) /\ call'[q].id = call[q].id) \/ call'[q].id > calls
    BY DEF KeepsIDs, Fresh, Writes
  <1>10. \A s \in SUBSET Events : Used(s) => \A e \in s : e[2] <= calls' /\
            \A q \in Callers : Fresh(q)' => e[2] # call'[q].id
    BY <1>8, <1>9, UsedStays DEF Used
  <1>11. \A a \in Aggs : Used(stream[a])' /\ Used(DurableStream[a])'
    <2> SUFFICES ASSUME NEW a \in Aggs
                 PROVE  Used(stream[a])' /\ Used(DurableStream[a])'
      OBVIOUS
    <2>1. stream[a] \in SUBSET Events /\ DurableStream[a] \in SUBSET Events
      BY DurableTypes DEF TypeOK
    <2>2. Used(stream[a]) /\ Used(DurableStream[a])
      BY DEF Streams
    <2> QED
      BY <2>1, <2>2, <1>2, <1>3, <1>10 DEF Used
  <1>12. ASSUME NEW q \in Callers, q # p
         PROVE  LockOf(q)' /\ Read(q)' /\ LockFree(q)' /\ Erased(q)'
    <2>1. LockOf(q) /\ Read(q) /\ LockFree(q) /\ Erased(q) /\ call'[q] = call[q]
      BY <1>12 DEF Streams
    <2>2. call[q].st \notin InTx
      BY <1>1, <1>12 DEF OneTransaction
    <2>3. \A a \in Aggs : lock[a] = q => stream'[a] = stream[a]
      BY <2>2, <1>3, HolderSeesDurable
    <2>4. LockOf(q)' /\ Read(q)' /\ Erased(q)'
      BY <2>1, <2>3, <1>12, LockedIsStable
    <2>5. call[q].state \in SUBSET Events
      BY DEF TypeOK, CallRecords
    <2>6. Used(call[q].state) => Used(call[q].state)'
      BY <2>1, <2>5, <1>10 DEF Used
    <2>7. LockFree(q)'
      BY <2>1, <2>6, <1>2, <1>3, LockFreeStays DEF LockFree
    <2> QED
      BY <2>4, <2>7
  <1> QED
    BY <1>5, <1>6, <1>7, <1>11, <1>12 DEF Streams

\* A crash takes the streams back to the durable ones, which the snapshots are of too.
LEMMA CrashKeepsStreams ==
  ASSUME TypeOK, TypeOK', Control, OneTransaction, Streams, Crash
  PROVE  Streams'
  <1>1. /\ \A p \in Callers : call'[p] = Idle
        /\ stream' = DurableStream /\ tx' = NoTx /\ UNCHANGED <<snapshot, calls>>
    BY CrashCall
  <1>2. DurableStream' = DurableStream
    BY <1>1 DEF DurableStream
  <1>3. \A p \in Callers : LockOf(p)' /\ Read(p)' /\ LockFree(p)' /\ Erased(p)'
    BY <1>1, IdleIsQuiet
  <1>4. OneStream'
    BY <1>1, IdleCall DEF OneStream, InTx
  <1>5. Gapless(stream)' /\ Gapless(DurableStream)'
    BY <1>1, <1>2 DEF Streams, Gapless
  <1>6. SnapshotsOf(stream)' /\ SnapshotsOf(DurableStream)'
    BY <1>1, <1>2 DEF Streams, SnapshotsOf
  <1>7. \A q \in Callers : ~Fresh(q)'
    BY <1>1, IdleCall DEF Fresh, Writes
  <1>8. \A a \in Aggs : Used(stream[a])' /\ Used(DurableStream[a])'
    BY <1>1, <1>2, <1>7 DEF Streams, Used
  <1> QED
    BY <1>3, <1>4, <1>5, <1>6, <1>8 DEF Streams

\* Forget empties a stream whose snapshot is gone, so that no snapshot is ahead of it
\* (exec_forget.go:95-97).
LEMMA DeleteStreamKeepsStreams ==
  ASSUME TypeOK, TypeOK', Control, OneTransaction, Streams, NEW p \in Callers, OwnStep(p),
         DeleteStream(p)
  PROVE  Streams'
  <1> DEFINE a == call[p].on
  <1>1. /\ call[p].st = "delete" /\ tx = NoTx /\ tx' = Open(p) /\ Goto(p, "drop")
        /\ stream' = [stream EXCEPT ![a] = {}]
        /\ UNCHANGED <<snapshot, lock, calls>>
    BY DEF DeleteStream, executor
  <1>2. /\ \A q \in Callers : q # p => call'[q] = call[q]
        /\ call'[p].st = "drop" /\ call'[p].on = a /\ call'[p].op = call[p].op
    BY <1>1, GotoCall DEF States
  <1>3. call[p] \in CallRecords /\ WellPlaced(call[p]) /\ Writes(p) /\ a \in Aggs
    BY <1>1, CallOf DEF WellPlaced, Writes
  <1>4. lock[a] = p /\ snapshot[a] = NoSnapshot
    BY <1>1, <1>3 DEF Streams, LockOf, Erased
  <1>5. tx' # NoTx /\ tx'.stream = stream
    BY <1>1, WritePathConstants DEF Open, NoTx
  <1>6. DurableStream = stream /\ DurableStream' = stream
    BY <1>1, <1>5 DEF DurableStream
  <1>7. \A b \in Aggs : stream'[b] = IF b = a THEN {} ELSE stream[b]
    BY <1>1, <1>3 DEF TypeOK
  <1>8. \A q \in Callers : q # p => call[q].st \notin InTx
    BY <1>1, ClosedTx
  <1>9. OneStream'
    BY <1>2, <1>5, <1>7, <1>8, <1>3 DEF OneStream
  <1>10. Gapless(stream)' /\ Gapless(DurableStream)'
    <2>1. Sized({}, 0)
      BY DEF Sized
    <2> QED
      BY <2>1, <1>6, <1>7 DEF Streams, Gapless
  <1>11. SnapshotsOf(stream)' /\ SnapshotsOf(DurableStream)'
    <2>1. NoSnapshot.state = {} /\ NoSnapshot.ver = 0
      BY DEF NoSnapshot, SnapshotOf
    <2>2. UpTo({}, 0) = {} /\ Reaches({}, 0)
      BY DEF UpTo, Reaches
    <2> QED
      BY <2>1, <2>2, <1>1, <1>4, <1>6, <1>7 DEF Streams, SnapshotsOf
  <1>12. \A q \in Callers : Fresh(q)' => Fresh(q) /\ call'[q].id = call[q].id
    BY <1>2 DEF Fresh, Writes, BeforeAppend
  <1>13. \A s : Used(s) => \A e \in s : e[2] <= calls' /\
            \A q \in Callers : Fresh(q)' => e[2] # call'[q].id
    BY <1>1, <1>12 DEF Used
  <1>14. \A b \in Aggs : Used(stream[b])' /\ Used(DurableStream[b])'
    BY <1>6, <1>7, <1>13 DEF Streams, Used
  <1>15. LockOf(p)' /\ Read(p)' /\ LockFree(p)' /\ Erased(p)'
    BY <1>1, <1>2, <1>4 DEF LockOf, Read, LockFree, Erased
  <1>16. ASSUME NEW q \in Callers, q # p
         PROVE  LockOf(q)' /\ Read(q)' /\ LockFree(q)' /\ Erased(q)'
    <2>1. LockOf(q) /\ Read(q) /\ LockFree(q) /\ Erased(q) /\ call'[q] = call[q]
      BY <1>2, <1>16 DEF Streams
    <2>2. LockOf(q)' /\ Read(q)' /\ Erased(q)'
      BY <2>1, <1>1, <1>4, <1>7, <1>16, LockedIsStable
    <2>3. call[q].on \in Aggs \/ call[q].st = "idle"
      BY CallOf DEF WellPlaced, Idle
    <2>4. LockFree(q)'
      <3>1. Used(call[q].state) => Used(call[q].state)'
        BY <2>1, <1>13 DEF Used
      <3>2. \A s : SharePrefix(s, {})
        BY DEF SharePrefix
      <3> QED
        BY <2>1, <2>3, <3>1, <3>2, <1>6, <1>7, LockFreeStays DEF LockFree
    <2> QED
      BY <2>2, <2>4
  <1> QED
    BY <1>9, <1>10, <1>11, <1>14, <1>15, <1>16 DEF Streams

\* AppendEvent adds the event after the last one, with an identifier of its own, and
\* never finds its version taken.
LEMMA AppendKeepsStreams ==
  ASSUME TypeOK, TypeOK', Control, OneTransaction, IDsAreGivenOnce, Streams,
         NEW p \in Callers, OwnStep(p), AppendEvent(p)
  PROVE  Streams'
  <1> DEFINE c == call[p]
             a == c.on
             v == NextVersion(c.ver)
             e == <<v, c.id>>
  <1>1. c.st = "append" /\ tx = NoTx
    BY DEF AppendEvent
  <1>2. c \in CallRecords /\ WellPlaced(c) /\ Writes(p) /\ Fresh(p) /\ a \in Aggs
    BY <1>1, CallOf DEF WellPlaced, Writes, Fresh, BeforeAppend, CallRecords, Idle
  <1>3. lock[a] = p /\ c.state = stream[a] /\ Sized(stream[a], c.ver)
    BY <1>1, <1>2 DEF Streams, LockOf, Read
  <1>4. v = c.ver + 1 /\ c.ver \in Nat /\ v \in Nat /\ c.id \in Nat
    BY <1>2 DEF CallRecords, NextVersion
  <1>5. CASE VersionTaken(a, v)
    BY <1>3, <1>4, <1>5 DEF VersionTaken, Sized
  <1>6. CASE /\ call'[p].st = "hook" /\ call'[p].ver = v
             /\ call'[p].state = c.state \cup {e}
             /\ call'[p].op = c.op /\ call'[p].on = a /\ call'[p].id = c.id
             /\ tx' = Open(p)
             /\ stream' = [stream EXCEPT ![a] = @ \cup {e}]
             /\ UNCHANGED <<snapshot, lock>>
    <2>1. /\ \A q \in Callers : q # p => call'[q] = call[q]
          /\ calls' = calls
      BY DEF OwnStep
    <2>2. tx' # NoTx /\ tx'.stream = stream
      BY <1>6, WritePathConstants DEF Open, NoTx
    <2>3. DurableStream = stream /\ DurableStream' = stream
      BY <1>1, <2>2 DEF DurableStream
    <2>4. \A b \in Aggs : stream'[b] = IF b = a THEN stream[a] \cup {e} ELSE stream[b]
      BY <1>2, <1>6 DEF TypeOK
    <2>5. \A q \in Callers : q # p => call[q].st \notin InTx
      BY <1>1, ClosedTx
    <2>6. /\ Sized(stream'[a], v)
          /\ \A w \in Nat : Reaches(stream[a], w) =>
                UpTo(stream'[a], w) = UpTo(stream[a], w) /\ Reaches(stream'[a], w)
      <3>1. stream[a] \in SUBSET Events
        BY <1>2 DEF TypeOK
      <3>2. stream'[a] = stream[a] \cup {<<c.ver + 1, c.id>>}
        BY <2>4, <1>2, <1>4
      <3>3. /\ Sized(stream'[a], c.ver + 1)
            /\ \A w \in Nat : Reaches(stream[a], w) =>
                  UpTo(stream'[a], w) = UpTo(stream[a], w) /\ Reaches(stream'[a], w)
        <4>1. c.ver \in Nat /\ c.id \in Nat /\ Sized(stream[a], c.ver)
          BY <1>3, <1>4
        <4> HIDE DEF a, c
        <4> QED
          BY <4>1, <3>1, <3>2, SizedAppend
      <3> QED
        BY <3>3, <1>4
    <2>7. OneStream'
      <3>1. v >= 1 /\ v - 1 = c.ver
        BY <1>4
      <3>2. \A q \in Callers : q # p => call'[q].st \notin InTx
        BY <2>1, <2>5
      <3>3. \A b \in Aggs : b # a => stream'[b] = tx'.stream[b]
        BY <2>2, <2>4
      <3>4. stream'[a] = tx'.stream[a] \cup {<<v, c.id>>} /\ call'[p].state = stream'[a]
        BY <2>2, <2>4, <1>2, <1>3, <1>6
      <3>5. Sized(tx'.stream[a], v - 1)
        BY <3>1, <2>2, <1>3
      <3> HIDE DEF v
      <3> QED
        BY <3>1, <3>2, <3>3, <3>4, <3>5, <1>6 DEF OneStream
    <2>8. Gapless(stream)' /\ Gapless(DurableStream)'
      BY <2>3, <2>4, <2>6, <1>4 DEF Streams, Gapless
    <2>9. SnapshotsOf(stream)' /\ SnapshotsOf(DurableStream)'
      <3>1. \A b \in Aggs : snapshot[b].ver \in Nat
        BY DEF TypeOK
      <3>2. SnapshotsOf(stream)
        BY DEF Streams
      <3>3. SnapshotsOf(DurableStream)'
        BY <3>2, <2>3, <1>6 DEF SnapshotsOf
      <3>4. ASSUME NEW b \in Aggs
            PROVE  /\ snapshot'[b].state = UpTo(stream'[b], snapshot'[b].ver)
                   /\ Reaches(stream'[b], snapshot'[b].ver)
        <4>1. /\ snapshot[b].state = UpTo(stream[b], snapshot[b].ver)
              /\ Reaches(stream[b], snapshot[b].ver) /\ snapshot'[b] = snapshot[b]
          BY <3>2, <1>6 DEF SnapshotsOf
        <4>2. CASE b = a
          BY <4>1, <4>2, <3>1, <2>6
        <4>3. CASE b # a
          BY <4>1, <4>3, <2>4
        <4> QED
          BY <4>2, <4>3
      <3> QED
        BY <3>3, <3>4 DEF SnapshotsOf
    <2>10. \A q \in Callers : Fresh(q)' => Fresh(q) /\ q # p /\ call'[q].id = call[q].id
      BY <2>1, <1>6 DEF Fresh, Writes, BeforeAppend
    <2>11. \A s : Used(s) => \A f \in s : f[2] <= calls' /\
              \A q \in Callers : Fresh(q)' => f[2] # call'[q].id
      BY <2>1, <2>10 DEF Used
    <2>12. c.id <= calls /\ \A q \in Callers : Fresh(q)' => c.id # call'[q].id
      BY <2>10, <1>2 DEF IDsAreGivenOnce
    <2>13. \A b \in Aggs : Used(stream[b])' /\ Used(DurableStream[b])'
      <3>1. e[2] = c.id
        OBVIOUS
      <3>2. \A b \in Aggs : \A f \in stream'[b] : f = e \/ f \in stream[b]
        BY <2>4
      <3>3. \A b \in Aggs : Used(stream[b])
        BY DEF Streams
      <3>4. \A b \in Aggs : Used(stream[b])'
        <4> HIDE DEF e
        <4> QED
          BY <3>1, <3>2, <3>3, <2>1, <2>11, <2>12 DEF Used
      <3> QED
        BY <3>3, <3>4, <2>3, <2>11 DEF Used
    <2>14. LockOf(p)' /\ Read(p)' /\ LockFree(p)' /\ Erased(p)'
      BY <1>3, <1>6 DEF LockOf, Read, LockFree, Erased
    <2>15. ASSUME NEW q \in Callers, q # p
           PROVE  LockOf(q)' /\ Read(q)' /\ LockFree(q)' /\ Erased(q)'
      <3>1. LockOf(q) /\ Read(q) /\ LockFree(q) /\ Erased(q) /\ call'[q] = call[q]
        BY <2>1, <2>15 DEF Streams
      <3>2. LockOf(q)' /\ Read(q)' /\ Erased(q)'
        BY <3>1, <2>4, <2>15, <1>3, <1>6, LockedIsStable
      <3>3. call[q].on \in Aggs \/ call[q].st = "idle"
        BY CallOf DEF WellPlaced, Idle
      <3>4. Used(call[q].state) => Used(call[q].state)' /\ e \notin call[q].state
        BY <3>1, <2>11, <1>2 DEF Used
      <3>5. \A s, t : SharePrefix(s, t) /\ e \notin s => SharePrefix(s, t \cup {e})
        BY DEF SharePrefix
      <3>6. LockFree(q)'
        <4> HIDE DEF e
        <4> QED
          BY <3>1, <3>3, <3>4, <3>5, <2>3, <2>4, LockFreeStays DEF LockFree
      <3> QED
        BY <3>2, <3>6
    <2> QED
      BY <2>7, <2>8, <2>9, <2>13, <2>14, <2>15 DEF Streams
  <1> QED
    BY <1>5, <1>6, AppendCall

\* The commit makes the stream with the new event durable, or leaves all to the rollback.
LEMMA CommitKeepsStreams ==
  ASSUME TypeOK, TypeOK', Control, OneTransaction, Streams, NEW p \in Callers, OwnStep(p),
         Commit(p)
  PROVE  Streams'
  <1> DEFINE c == call[p]
  <1>1. c.st = "commit" /\ c.st \in InTx /\ UNCHANGED <<stream, snapshot, lock, calls>>
    BY DEF Commit, InTx, executor
  <1>2. c \in CallRecords /\ WellPlaced(c) /\ Writes(p) /\ c.on \in Aggs
    BY <1>1, CallOf DEF WellPlaced, Writes, CallRecords, Idle
  <1>3. PICK st \in {"put", "undo"} :
            Goto(p, st) /\ (st = "put" => tx' = NoTx) /\ (st = "undo" => UNCHANGED tx)
    BY DEF Commit
  <1>4. /\ \A q \in Callers : q # p => call'[q] = call[q]
        /\ call'[p].st = st /\ call'[p].on = c.on /\ call'[p].ver = c.ver
        /\ call'[p].id = c.id /\ call'[p].state = c.state /\ call'[p].op = c.op
    BY <1>3, GotoCall DEF States
  <1>5. KeepsIDs(p)
    BY <1>1, <1>4 DEF KeepsIDs, Fresh, BeforeAppend, TypeOK
  <1>6. lock[c.on] = p
    BY <1>1, <1>2 DEF Streams, LockOf
  <1>7. c.state = stream[c.on] /\ Sized(stream[c.on], c.ver)
    <2>1. /\ c.ver >= 1 /\ Sized(tx.stream[c.on], c.ver - 1) /\ c.state = stream[c.on]
          /\ stream[c.on] = tx.stream[c.on] \cup {<<c.ver, c.id>>}
      BY <1>1 DEF Streams, OneStream
    <2>2. tx.stream[c.on] \in SUBSET Events
      BY <1>1, <1>2, OpenTx
    <2>3. c.ver - 1 \in Nat /\ c.ver = (c.ver - 1) + 1 /\ c.id \in Nat
      BY <2>1, <1>2 DEF CallRecords
    <2> QED
      BY <2>1, <2>2, <2>3, SizedAppend
  <1>8. LockOf(p)' /\ Read(p)' /\ LockFree(p)' /\ Erased(p)'
    BY <1>1, <1>4, <1>6, <1>7 DEF LockOf, Read, LockFree, Erased
  <1>9. CASE st = "put"
    BY <1>1, <1>3, <1>4, <1>5, <1>8, <1>9, EndKeepsStreams DEF InTx
  <1>10. CASE st = "undo"
    BY <1>1, <1>3, <1>4, <1>5, <1>8, <1>10, StoreUntouched
  <1> QED
    BY <1>9, <1>10

\* The load starts from a prefix of the stream.
LEMMA GetSnapshotKeepsStreams ==
  ASSUME TypeOK, TypeOK', Control, OneTransaction, Streams, NEW p \in Callers, OwnStep(p),
         GetSnapshot(p)
  PROVE  Streams'
  <1> DEFINE c == call[p]
             a == c.on
  <1>1. c.st = "snapshot" /\ UNCHANGED <<stream, tx, snapshot, lock, calls>>
    BY DEF GetSnapshot, store, executor
  <1>2. c \in CallRecords /\ WellPlaced(c) /\ a \in Aggs
    BY <1>1, CallOf DEF WellPlaced, CallRecords, Idle
  <1>3. /\ call'[p].st = "events" /\ call'[p].on = a
        /\ call'[p].op = c.op /\ call'[p].id = c.id
    BY SnapshotCall
  <1>4. /\ call'[p].state = UpTo(stream[a], call'[p].ver) /\ Reaches(stream[a], call'[p].ver)
        /\ call'[p].ver \in Nat
    <2>1. c.state = {} /\ c.ver = 0
      BY <1>1 DEF Streams, Read
    <2>2. /\ snapshot[a].state = UpTo(stream[a], snapshot[a].ver)
          /\ Reaches(stream[a], snapshot[a].ver) /\ snapshot[a].ver \in Nat
      BY <1>2 DEF Streams, SnapshotsOf, TypeOK
    <2>3. UpTo(stream[a], 0) = {} /\ Reaches(stream[a], 0)
      BY <1>2 DEF UpTo, Reaches, Streams, Gapless, Sized
    <2>4. CASE call'[p].ver = snapshot[a].ver /\ call'[p].state = snapshot[a].state
      BY <2>2, <2>4
    <2>5. CASE call'[p].ver = c.ver /\ call'[p].state = c.state
      BY <2>1, <2>3, <2>5
    <2> QED
      BY <2>4, <2>5, SnapshotCall
  <1>5. Sized(call'[p].state, call'[p].ver)
    <2>1. PICK n \in Nat : Sized(stream[a], n)
      BY <1>2 DEF Streams, Gapless
    <2>2. stream[a] \in SUBSET Events
      BY <1>2 DEF TypeOK
    <2> QED
      BY <2>1, <2>2, <1>4, SizedUpTo
  <1>6. LockOf(p)' /\ Read(p)' /\ LockFree(p)' /\ Erased(p)'
    <2>1. Writes(p)' <=> Writes(p)
      BY <1>3 DEF Writes
    <2>2. Writes(p) => lock[a] = p
      BY <1>1 DEF Streams, LockOf
    <2> QED
      BY <2>1, <2>2, <1>1, <1>3, <1>4, <1>5 DEF LockOf, Read, LockFree, Erased
  <1>7. KeepsIDs(p)
    BY <1>1, <1>3 DEF KeepsIDs, Fresh, Writes, BeforeAppend, TypeOK
  <1>8. \A q \in Callers : q # p => call'[q] = call[q]
    BY DEF OwnStep
  <1>9. c.st \notin InTx /\ call'[p].st \notin InTx
    BY <1>1, <1>3 DEF InTx
  <1> QED
    BY <1>1, <1>6, <1>7, <1>8, <1>9, StoreUntouched

\* A command hydrates the whole stream; a lock-free read that upcasts has read all of it.
LEMMA ReadFromKeepsStreams ==
  ASSUME TypeOK, TypeOK', Control, OneTransaction, Streams, NEW p \in Callers, OwnStep(p),
         ReadFrom(p)
  PROVE  Streams'
  <1> DEFINE c == call[p]
             a == c.on
  <1>1. c.st = "events" /\ UNCHANGED <<stream, tx, snapshot, lock, calls>>
    BY DEF ReadFrom, store, executor
  <1>2. c \in CallRecords /\ WellPlaced(c) /\ a \in Aggs /\ c.ver \in Nat
    BY <1>1, CallOf DEF WellPlaced, CallRecords, Idle
  <1>3. stream[a] \in SUBSET Events /\ Sized(c.state, c.ver)
        /\ EventsRead(p) = {e \in stream[a] : e[1] >= c.ver + 1}
    BY <1>1, <1>2 DEF TypeOK, Streams, Read, EventsRead, EventsFrom
  <1>4. PICK n \in Nat : Sized(stream[a], n)
    BY <1>2 DEF Streams, Gapless
  <1>5. \A q \in Callers : q # p => call'[q] = call[q]
    BY DEF OwnStep
  <1>6. CASE call'[p] = Idle
    <2>1. LockOf(p)' /\ Read(p)' /\ LockFree(p)' /\ Erased(p)'
      BY <1>6, IdleIsQuiet
    <2>2. KeepsIDs(p) /\ c.st \notin InTx /\ call'[p].st \notin InTx
      BY <1>1, <1>6, IdleCall DEF KeepsIDs, Fresh, Writes, TypeOK, InTx
    <2> QED
      BY <2>1, <2>2, <1>1, <1>5, StoreUntouched
  <1>7. CASE /\ call'[p].op = c.op /\ call'[p].on = a /\ call'[p].id = c.id
             /\ call'[p].state = c.state \cup EventsRead(p)
             /\ call'[p].ver = IF EventsRead(p) = {} THEN c.ver ELSE LastVersion(EventsRead(p))
             /\ \/ c.op = "get" /\ call'[p].st = "guard" /\ OldEvent \in EventsRead(p)
                \/ c.op # "get" /\ call'[p].st \in {"validate", "save"}
    <2>1. c.state = UpTo(stream[a], c.ver) /\ Reaches(stream[a], c.ver)
      <3>1. CASE c.op # "get"
        BY <3>1, <1>1, <1>2 DEF Streams, Read, Writes, CallRecords, WellPlaced, Idle
      <3>2. CASE c.op = "get"
        <4>1. OldEvent \in stream[a] /\ OldEvent[1] >= c.ver + 1
          BY <3>2, <1>3, <1>7
        <4>2. c.ver = 0
          BY <4>1, <1>2 DEF OldEvent
        <4>3. c.state = {}
          BY <4>2, <1>3 DEF Sized
        <4>4. UpTo(stream[a], 0) = {}
          BY <1>4 DEF UpTo, Sized
        <4> QED
          BY <4>2, <4>3, <4>4 DEF Reaches
      <3> QED
        BY <3>1, <3>2
    <2>2. call'[p].state = stream[a] /\ call'[p].ver = n
      <3>1. /\ UpTo(stream[a], c.ver) \cup EventsRead(p) = stream[a]
            /\ (IF EventsRead(p) = {} THEN c.ver ELSE LastVersion(EventsRead(p))) = n
        <4> HIDE DEF a, c
        <4> QED
          BY <2>1, <1>2, <1>3, <1>4, PrefixAndRest
      <3> QED
        BY <3>1, <2>1, <1>7
    <2>3. UpTo(stream[a], n) = stream[a] /\ Reaches(stream[a], n)
      <3>1. n = 0 \/ n \in 1..n
        BY <1>4
      <3> QED
        BY <3>1, <1>3, <1>4 DEF UpTo, Reaches, Sized
    <2>4. Writes(p)' <=> Writes(p)
      BY <1>7 DEF Writes
    <2>5. c.op # "get" => lock[a] = p /\ Writes(p)
      BY <1>1, <1>2 DEF Streams, LockOf, Writes, CallRecords, WellPlaced, Idle
    <2>6. LockOf(p)' /\ Read(p)' /\ Erased(p)'
      BY <2>2, <2>3, <2>4, <2>5, <1>1, <1>2, <1>4, <1>7
         DEF LockOf, Read, Erased, Writes
    <2>7. LockFree(p)'
      <3>1. SUFFICES ASSUME call'[p].st = "guard"
                     PROVE  LockFree(p)'
        BY <1>7 DEF LockFree
      <3>2. OldEvent \in stream[a]
        BY <3>1, <1>3, <1>7
      <3>3. n >= 1
        BY <3>2, <1>4 DEF Sized
      <3>4. \A e \in stream[a] : e[2] <= calls' /\
                \A q \in Callers : Fresh(q)' => e[2] # call'[q].id
        <4>1. \A q \in Callers : Fresh(q)' => Fresh(q) /\ call'[q].id = call[q].id
          BY <1>5, <1>7, <3>1 DEF Fresh, Writes, BeforeAppend
        <4>2. Used(stream[a])
          BY <1>2 DEF Streams
        <4> QED
          BY <4>1, <4>2, <1>1 DEF Used
      <3>5. SharePrefix(stream[a], stream[a])
        BY DEF SharePrefix
      <3>6. SharePrefix(stream[a], DurableStream[a])
        <4>1. CASE tx = NoTx
          BY <4>1, <3>5 DEF DurableStream
        <4>2. CASE tx # NoTx
          <5> DEFINE q == tx.by
                     d == call[q]
          <5>1. q \in Callers /\ d.st \in InTx /\ DurableStream = tx.stream
            BY <4>2, ClosedTx DEF DurableStream
          <5>2. CASE d.on # a
            BY <5>1, <5>2, <3>5, <1>2 DEF Streams, OneStream
          <5>3. CASE d.on = a
            <6>1. d.st # "drop"
              BY <5>1, <5>3, <3>2 DEF Streams, OneStream
            <6>2. /\ d.ver >= 1 /\ Sized(tx.stream[a], d.ver - 1)
                  /\ stream[a] = tx.stream[a] \cup {<<d.ver, d.id>>}
              BY <6>1, <5>1, <5>3 DEF Streams, OneStream
            <6>3. d.ver \in Nat
              BY <5>1 DEF TypeOK, CallRecords
            <6>4. \A e \in tx.stream[a] : e[1] \in Nat /\ e[1] < d.ver
              BY <6>2, <6>3 DEF Sized
            <6>5. SharePrefix(stream[a], tx.stream[a])
              BY <6>2, <6>3, <6>4 DEF SharePrefix
            <6> QED
              BY <6>5, <5>1
          <5> QED
            BY <5>2, <5>3
        <4> QED
          BY <4>1, <4>2
      <3>7. DurableStream' = DurableStream
        BY <1>1 DEF DurableStream
      <3>8. Used(call[p].state)'
        BY <3>4, <2>2 DEF Used
      <3> QED
        BY <3>3, <3>5, <3>6, <3>7, <3>8, <2>2, <1>1, <1>4, <1>7 DEF LockFree
    <2>8. KeepsIDs(p) /\ c.st \notin InTx /\ call'[p].st \notin InTx
      BY <2>4, <1>1, <1>7 DEF KeepsIDs, Fresh, BeforeAppend, TypeOK, InTx
    <2> QED
      BY <2>6, <2>7, <2>8, <1>1, <1>5, StoreUntouched
  <1> QED
    BY <1>6, <1>7, ReadCall

\* A lock-free read takes the lock if it is free, and saves nothing otherwise.
LEMMA GuardKeepsStreams ==
  ASSUME TypeOK, TypeOK', Control, OneTransaction, Streams, NEW p \in Callers, OwnStep(p),
         Guard(p)
  PROVE  Streams'
  <1> DEFINE c == call[p]
             a == c.on
  <1>1. c.st = "guard" /\ UNCHANGED <<stream, tx, snapshot, calls>>
    BY DEF Guard, store
  <1>2. c \in CallRecords /\ WellPlaced(c) /\ a \in Aggs /\ ~Writes(p)
    BY <1>1, CallOf DEF WellPlaced, CallRecords, Idle, Writes
  <1>3. \A q \in Callers : q # p => call'[q] = call[q]
    BY DEF OwnStep
  <1>4. CASE call' = [call EXCEPT ![p] = Idle] /\ UNCHANGED lock
    <2>1. call'[p] = Idle
      BY <1>4 DEF TypeOK
    <2>2. LockOf(p)' /\ Read(p)' /\ LockFree(p)' /\ Erased(p)'
      BY <2>1, IdleIsQuiet
    <2>3. KeepsIDs(p) /\ c.st \notin InTx /\ call'[p].st \notin InTx
      BY <2>1, <1>1, IdleCall DEF KeepsIDs, Fresh, Writes, TypeOK, InTx
    <2> QED
      BY <2>2, <2>3, <1>1, <1>3, <1>4, StoreUntouched
  <1>5. CASE lock[a] = Nobody /\ lock' = [lock EXCEPT ![a] = p] /\ Goto(p, "holds")
    <2>1. /\ call'[p].st = "holds" /\ call'[p].on = a /\ call'[p].ver = c.ver
          /\ call'[p].state = c.state /\ call'[p].op = c.op /\ call'[p].id = c.id
      BY <1>5, GotoCall DEF States
    <2>2. \A q \in Callers, b \in Aggs : q # p /\ lock[b] = q => lock'[b] = q
      BY <1>2, <1>5, WritePathConstants DEF TypeOK
    <2>3. lock'[a] = p
      BY <1>2, <1>5 DEF TypeOK
    <2>4. LockOf(p)' /\ Read(p)' /\ Erased(p)'
      BY <2>1, <2>3 DEF LockOf, Read, Erased
    <2>5. DurableStream' = DurableStream
      BY <1>1 DEF DurableStream
    <2>6. Used(c.state) => Used(call[p].state)'
      <3>1. \A q \in Callers : Fresh(q)' => Fresh(q) /\ call'[q].id = call[q].id
        BY <2>1, <1>3 DEF Fresh, Writes, BeforeAppend
      <3> QED
        BY <3>1, <2>1, <1>1 DEF Used
    <2>7. LockFree(p)'
      BY <2>1, <2>5, <2>6, <1>1 DEF Streams, LockFree
    <2>8. KeepsIDs(p) /\ c.st \notin InTx /\ call'[p].st \notin InTx
      BY <2>1, <1>1 DEF KeepsIDs, Fresh, BeforeAppend, TypeOK, InTx
    <2> QED
      BY <2>2, <2>4, <2>7, <2>8, <1>1, <1>3, StoreUntouched
  <1> QED
    BY <1>4, <1>5 DEF Guard

\* The holder of a's lock saves a prefix of a's stream, outside a transaction.
LEMMA SavedPrefix ==
  ASSUME TypeOK, Control, OneTransaction, Streams, NEW p \in Callers, NEW a \in Aggs,
         lock[a] = p, call[p].st \notin InTx, UNCHANGED <<stream, tx>>,
         NEW s, snapshot' = [snapshot EXCEPT ![a] = s],
         s.state = UpTo(stream[a], s.ver), Reaches(stream[a], s.ver)
  PROVE  /\ SnapshotsOf(stream)' /\ SnapshotsOf(DurableStream)'
         /\ \A b \in Aggs : b # a => snapshot'[b] = snapshot[b]
         /\ snapshot'[a] = s
  <1>1. DurableStream[a] = stream[a]
    BY HolderSeesDurable
  <1>2. DurableStream' = DurableStream
    BY DEF DurableStream
  <1>3. \A b \in Aggs : snapshot'[b] = IF b = a THEN s ELSE snapshot[b]
    BY DEF TypeOK
  <1> QED
    BY <1>1, <1>2, <1>3 DEF Streams, SnapshotsOf

\* The prefix up to the last version is the stream.
LEMMA WholeStream ==
  ASSUME NEW s \in SUBSET Events, NEW n \in Nat, Sized(s, n)
  PROVE  UpTo(s, n) = s /\ Reaches(s, n)
  <1>1. n = 0 \/ n \in 1..n
    OBVIOUS
  <1> QED
    BY <1>1 DEF UpTo, Reaches, Sized

\* A lock-free read goes on to save its state only when it is a prefix of the stream as it
\* is now, under the lock (reader.go:178-185).
LEMMA CheckStreamKeepsStreams ==
  ASSUME TypeOK, TypeOK', Control, OneTransaction, Streams, NEW p \in Callers, OwnStep(p),
         CheckStream(p)
  PROVE  Streams'
  <1> DEFINE c == call[p]
             a == c.on
  <1>1. c.st = "holds" /\ UNCHANGED <<stream, tx, snapshot, calls>> /\ c.st \notin InTx
    BY DEF CheckStream, store, InTx
  <1>2. c \in CallRecords /\ WellPlaced(c) /\ a \in Aggs /\ ~Writes(p)
        /\ c.state \in SUBSET Events /\ c.ver \in Nat
    BY <1>1, CallOf DEF WellPlaced, CallRecords, Idle, Writes
  <1>3. \A q \in Callers : q # p => call'[q] = call[q]
    BY DEF OwnStep
  <1>4. CASE Return(p)
    BY <1>1, <1>4, ReturnKeepsStreams
  <1>5. CASE StreamHolds(a, c.state) /\ Goto(p, "save") /\ UNCHANGED lock
    <2>1. /\ call'[p].st = "save" /\ call'[p].on = a /\ call'[p].ver = c.ver
          /\ call'[p].state = c.state /\ call'[p].op = c.op /\ call'[p].id = c.id
      BY <1>5, GotoCall DEF States
    <2>2. lock[a] = p
      BY <1>1 DEF Streams, LockOf
    <2>3. /\ c.ver >= 1 /\ Sized(c.state, c.ver) /\ SharePrefix(c.state, stream[a])
      BY <1>1 DEF Streams, LockFree
    <2>4. PICK n \in Nat : Sized(stream[a], n)
      BY <1>2 DEF Streams, Gapless
    <2>5. PICK e \in stream[a] : e \in c.state /\ e[1] = LastVersion(c.state)
      BY <1>5 DEF StreamHolds
    <2>6. c.state = UpTo(stream[a], c.ver) /\ Reaches(stream[a], c.ver)
      <3>1. stream[a] \in SUBSET Events
        BY <1>2 DEF TypeOK
      <3> HIDE DEF a, c
      <3> QED
        BY <3>1, <2>3, <2>4, <2>5, <1>2, HeldPrefix
    <2>7. ~Writes(p)'
      BY <2>1, <1>2 DEF Writes
    <2>8. LockOf(p)' /\ Read(p)' /\ LockFree(p)' /\ Erased(p)'
      BY <2>1, <2>2, <2>6, <2>7, <1>1, <1>5 DEF LockOf, Read, LockFree, Erased
    <2>9. KeepsIDs(p) /\ call'[p].st \notin InTx
      BY <2>1, <2>7, <1>1 DEF KeepsIDs, Fresh, TypeOK, InTx
    <2> QED
      BY <2>8, <2>9, <1>1, <1>3, <1>5, StoreUntouched
  <1> QED
    BY <1>4, <1>5 DEF CheckStream, executor

\* The snapshot that is saved is a prefix of the stream; it is saved under the lock.
LEMMA SaveKeepsStreams ==
  ASSUME TypeOK, TypeOK', Control, OneTransaction, Streams, NEW p \in Callers, OwnStep(p),
         SaveUpcasted(p) \/ PutSnapshot(p)
  PROVE  Streams'
  <1> DEFINE c == call[p]
             a == c.on
             s == SnapshotOf(c.ver, c.state)
  <1>1. /\ c.st \in {"save", "put"} /\ UNCHANGED <<stream, tx, calls>> /\ c.st \notin InTx
        /\ snapshot' = [snapshot EXCEPT ![a] = s] \/ UNCHANGED snapshot
    BY DEF SaveUpcasted, PutSnapshot, store, InTx
  <1>2. c \in CallRecords /\ WellPlaced(c) /\ a \in Aggs
        /\ c.state \in SUBSET Events /\ c.ver \in Nat
    BY <1>1, CallOf DEF WellPlaced, CallRecords, Idle
  <1>3. \A q \in Callers : q # p => call'[q] = call[q]
    BY DEF OwnStep
  <1>4. lock[a] = p
    BY <1>1, <1>2 DEF Streams, LockOf, Writes, CallRecords, WellPlaced, Idle
  <1>5. c.state = UpTo(stream[a], c.ver) /\ Reaches(stream[a], c.ver)
    <2>1. CASE c.st = "save"
      BY <2>1 DEF Streams, Read
    <2>2. CASE c.st = "put"
      <3>1. c.state = stream[a] /\ Sized(stream[a], c.ver) /\ stream[a] \in SUBSET Events
        BY <2>2, <1>2 DEF Streams, Read, TypeOK
      <3> QED
        BY <3>1, <1>2, WholeStream
    <2> QED
      BY <2>1, <2>2, <1>1
  <1>6. /\ SnapshotsOf(stream)' /\ SnapshotsOf(DurableStream)'
        /\ \A b \in Aggs : b # a => snapshot'[b] = snapshot[b]
    <2>1. CASE UNCHANGED snapshot
      <3>1. DurableStream' = DurableStream
        BY <1>1 DEF DurableStream
      <3> QED
        BY <3>1, <2>1, <1>1 DEF Streams, SnapshotsOf
    <2>2. CASE snapshot' = [snapshot EXCEPT ![a] = s]
      <3>1. s.state = UpTo(stream[a], s.ver) /\ Reaches(stream[a], s.ver)
        BY <1>5 DEF SnapshotOf
      <3> HIDE DEF s, a
      <3> QED
        BY <3>1, <2>2, <1>1, <1>2, <1>4, SavedPrefix
    <2> QED
      BY <2>1, <2>2, <1>1
  <1>7. CASE Return(p)
    <2>1. /\ call'[p] = Idle
          /\ \A b \in Aggs : lock'[b] = IF lock[b] = p THEN Nobody ELSE lock[b]
      BY <1>7, ReturnCall
    <2>2. LockOf(p)' /\ Read(p)' /\ LockFree(p)' /\ Erased(p)'
      BY <2>1, IdleIsQuiet
    <2>3. KeepsIDs(p) /\ call'[p].st \notin InTx
      BY <2>1, <1>1, IdleCall DEF KeepsIDs, Fresh, Writes, TypeOK, InTx
    <2> QED
      BY <2>1, <2>2, <2>3, <1>1, <1>3, <1>4, <1>6, StreamsUntouched
  <1>8. CASE c.op # "get" /\ c.st = "save" /\ Goto(p, "validate") /\ UNCHANGED lock
    <2>1. /\ call'[p].st = "validate" /\ call'[p].on = a /\ call'[p].ver = c.ver
          /\ call'[p].state = c.state /\ call'[p].op = c.op /\ call'[p].id = c.id
      BY <1>8, GotoCall DEF States
    <2>2. Writes(p)
      BY <1>2, <1>8 DEF Writes, CallRecords, WellPlaced, Idle
    <2>3. c.state = stream[a] /\ Sized(stream[a], c.ver)
      BY <2>2, <1>8 DEF Streams, Read
    <2>4. LockOf(p)' /\ Read(p)' /\ LockFree(p)' /\ Erased(p)'
      BY <2>1, <2>3, <1>1, <1>4, <1>8 DEF LockOf, Read, LockFree, Erased
    <2>5. KeepsIDs(p) /\ call'[p].st \notin InTx
      BY <2>1, <2>2, <1>1, <1>8 DEF KeepsIDs, Fresh, Writes, BeforeAppend, TypeOK, InTx
    <2> QED
      BY <2>4, <2>5, <1>1, <1>3, <1>4, <1>6, <1>8, StreamsUntouched
  <1> QED
    BY <1>7, <1>8 DEF SaveUpcasted, PutSnapshot, executor

\* Forget deletes the snapshot first; a snapshot that is not there agrees with any stream.
LEMMA DeleteSnapshotKeepsStreams ==
  ASSUME TypeOK, TypeOK', Control, OneTransaction, Streams, NEW p \in Callers, OwnStep(p),
         DeleteSnapshot(p)
  PROVE  Streams'
  <1> DEFINE c == call[p]
             a == c.on
  <1>1. c.st = "erase" /\ UNCHANGED <<stream, tx, calls>> /\ c.st \notin InTx
    BY DEF DeleteSnapshot, store, InTx
  <1>2. c \in CallRecords /\ WellPlaced(c) /\ a \in Aggs /\ Writes(p)
    BY <1>1, CallOf DEF WellPlaced, CallRecords, Idle, Writes
  <1>3. \A q \in Callers : q # p => call'[q] = call[q]
    BY DEF OwnStep
  <1>4. lock[a] = p
    BY <1>1, <1>2 DEF Streams, LockOf
  <1>5. CASE Return(p) /\ UNCHANGED snapshot
    BY <1>1, <1>5, ReturnKeepsStreams
  <1>6. CASE /\ snapshot' = [snapshot EXCEPT ![a] = NoSnapshot] /\ Goto(p, "delete")
             /\ UNCHANGED lock
    <2>1. /\ call'[p].st = "delete" /\ call'[p].on = a /\ call'[p].op = c.op
      BY <1>6, GotoCall DEF States
    <2>2. NoSnapshot.state = {} /\ NoSnapshot.ver = 0
      BY DEF NoSnapshot, SnapshotOf
    <2>3. UpTo(stream[a], 0) = {} /\ Reaches(stream[a], 0)
      BY <1>2 DEF UpTo, Reaches, Streams, Gapless, Sized
    <2>4. /\ SnapshotsOf(stream)' /\ SnapshotsOf(DurableStream)'
          /\ \A b \in Aggs : b # a => snapshot'[b] = snapshot[b]
          /\ snapshot'[a] = NoSnapshot
      <3> HIDE DEF a
      <3> QED
        BY <2>2, <2>3, <1>1, <1>2, <1>4, <1>6, SavedPrefix
    <2>5. LockOf(p)' /\ Read(p)' /\ LockFree(p)' /\ Erased(p)'
      BY <2>1, <2>4, <1>4, <1>6 DEF LockOf, Read, LockFree, Erased
    <2>6. KeepsIDs(p) /\ call'[p].st \notin InTx
      BY <2>1, <1>1 DEF KeepsIDs, Fresh, BeforeAppend, TypeOK, InTx
    <2> QED
      BY <2>4, <2>5, <2>6, <1>1, <1>3, <1>4, <1>6, StreamsUntouched
  <1> QED
    BY <1>5, <1>6 DEF DeleteSnapshot, executor

\* A call that moves on and changes neither the streams nor the snapshots.
LEMMA MoveKeepsStreams ==
  ASSUME TypeOK, TypeOK', Control, OneTransaction, Streams, NEW p \in Callers, OwnStep(p),
         UNCHANGED <<stream, tx, snapshot>>,
         call[p].st \notin {"idle", "drop"},
         call'[p].op = call[p].op, call'[p].on = call[p].on,
         call'[p].st \in {"snapshot", "append", "reject", "replay", "answered", "again",
                          "commit", "duplicate", "undo", "await", "erase"},
         call'[p].st \in InTx <=> call[p].st \in InTx,
         call'[p].st \in InTx =>
             /\ call'[p].ver = call[p].ver /\ call'[p].id = call[p].id
             /\ call'[p].state = call[p].state,
         call'[p].st \in BeforeAppend => call[p].st \in BeforeAppend /\ call'[p].id = call[p].id,
         call'[p].st = "snapshot" => call'[p].state = {} /\ call'[p].ver = 0,
         call'[p].st = "append" =>
             call'[p].state = stream[call[p].on] /\ Sized(stream[call[p].on], call'[p].ver),
         \A q \in Callers, a \in Aggs : q # p /\ lock[a] = q => lock'[a] = q,
         call'[p].st # "await" => lock'[call[p].on] = p
  PROVE  Streams'
  <1>1. KeepsIDs(p)
    BY DEF KeepsIDs, Fresh, Writes, OwnStep, TypeOK
  <1>2. LockOf(p)' /\ Read(p)' /\ LockFree(p)' /\ Erased(p)'
    BY DEF LockOf, Read, LockFree, Erased
  <1>3. \A q \in Callers : q # p => call'[q] = call[q]
    BY DEF OwnStep
  <1>4. call[p].st \in InTx => (call'[p].st = "drop" <=> call[p].st = "drop")
    OBVIOUS
  <1> QED
    BY <1>1, <1>2, <1>3, <1>4, StoreUntouched

\* A command at one of these places works on an aggregate that it holds.
LEMMA CommandHolds ==
  ASSUME TypeOK, Control, Streams, NEW p \in Callers,
         call[p].st \in {"receipt", "again", "replay", "answered", "validate", "reject",
                         "append", "hook", "commit", "undo", "duplicate", "put", "drop"}
  PROVE  /\ call[p] \in CallRecords /\ WellPlaced(call[p]) /\ Writes(p)
         /\ call[p].on \in Aggs /\ lock[call[p].on] = p
  <1>1. call[p] \in CallRecords /\ WellPlaced(call[p])
    BY CallOf
  <1>2. Writes(p) /\ call[p].on \in Aggs
    BY <1>1 DEF WellPlaced, Writes, CallRecords, Idle
  <1>3. lock[call[p].on] = p
    BY <1>2 DEF Streams, LockOf
  <1> QED
    BY <1>1, <1>2, <1>3

\* The receipt check moves on or returns.
LEMMA GetReceiptKeepsStreams ==
  ASSUME TypeOK, TypeOK', Control, OneTransaction, Streams, NEW p \in Callers, OwnStep(p),
         GetReceipt(p)
  PROVE  Streams'
  <1> DEFINE c == call[p]
             r == receipts[c.cmd]
  <1>1. c.st \in {"receipt", "again"} /\ UNCHANGED <<stream, tx, snapshot, calls>>
        /\ c.st \notin InTx
    BY DEF GetReceipt, store, InTx
  <1>2. c \in CallRecords /\ c.on \in Aggs /\ lock[c.on] = p
    BY <1>1, CommandHolds
  <1>3. CASE Return(p)
    BY <1>1, <1>3, ReturnKeepsStreams
  <1>4. CASE c.st = "receipt" /\ Goto(p, "snapshot") /\ UNCHANGED lock
    <2>1. /\ call'[p].st = "snapshot" /\ call'[p].on = c.on /\ call'[p].op = c.op
          /\ call'[p].ver = c.ver /\ call'[p].state = c.state /\ call'[p].id = c.id
      BY <1>4, GotoCall DEF States
    <2>2. c.state = {} /\ c.ver = 0
      BY <1>4 DEF Streams, Read
    <2> QED
      BY <2>1, <2>2, <1>1, <1>2, <1>4, MoveKeepsStreams DEF InTx, BeforeAppend
  <1>5. CASE /\ call' = [call EXCEPT ![p].st = "replay", ![p].agg = r.agg, ![p].ver = r.ver,
                                     ![p].id = r.id]
             /\ UNCHANGED lock
    <2>1. call'[p].st = "replay" /\ call'[p].on = c.on /\ call'[p].op = c.op
      BY <1>5, <1>2 DEF TypeOK, CallRecords
    <2> QED
      BY <2>1, <1>1, <1>2, <1>5, MoveKeepsStreams DEF InTx, BeforeAppend
  <1> QED
    BY <1>3, <1>4, <1>5 DEF GetReceipt, executor

\* replayEvent only reads.
LEMMA ReplayKeepsStreams ==
  ASSUME TypeOK, TypeOK', Control, OneTransaction, Streams, NEW p \in Callers, OwnStep(p),
         ReplayEvent(p)
  PROVE  Streams'
  <1> DEFINE c == call[p]
  <1>1. c.st = "replay" /\ UNCHANGED <<stream, tx, snapshot, lock>>
    BY DEF ReplayEvent, store, executor
  <1>2. c \in CallRecords /\ c.on \in Aggs /\ lock[c.on] = p
    BY <1>1, CommandHolds
  <1>3. call'[p].st = "answered" /\ call'[p].on = c.on /\ call'[p].op = c.op
    BY <1>2 DEF ReplayEvent, TypeOK, CallRecords
  <1> QED
    BY <1>1, <1>2, <1>3, MoveKeepsStreams DEF InTx, BeforeAppend

\* Validation and the record of a rejection leave streams and snapshots alone.
LEMMA DecideKeepsStreams ==
  ASSUME TypeOK, TypeOK', Control, OneTransaction, Streams, NEW p \in Callers, OwnStep(p),
         Validate(p) \/ RecordRejection(p)
  PROVE  Streams'
  <1> DEFINE c == call[p]
  <1>1. c.st \in {"validate", "reject"} /\ UNCHANGED <<stream, tx, snapshot, calls>>
        /\ c.st \notin InTx
    BY DEF Validate, RecordRejection, store, InTx
  <1>2. c \in CallRecords /\ c.on \in Aggs /\ lock[c.on] = p
    BY <1>1, CommandHolds
  <1>3. CASE Return(p)
    BY <1>1, <1>3, ReturnKeepsStreams
  <1>4. CASE /\ \E st \in {"append", "reject", "again"} :
                    Goto(p, st) /\ (st = "append" => c.st = "validate")
             /\ UNCHANGED lock
    <2>1. PICK st \in {"append", "reject", "again"} :
              Goto(p, st) /\ (st = "append" => c.st = "validate")
      BY <1>4
    <2>2. /\ call'[p].st = st /\ call'[p].on = c.on /\ call'[p].op = c.op
          /\ call'[p].ver = c.ver /\ call'[p].state = c.state /\ call'[p].id = c.id
      BY <2>1, GotoCall DEF States
    <2>3. st = "append" => c.state = stream[c.on] /\ Sized(stream[c.on], c.ver)
      BY <2>1 DEF Streams, Read
    <2> QED
      BY <2>2, <2>3, <1>1, <1>2, <1>4, MoveKeepsStreams DEF InTx, BeforeAppend
  <1> QED
    BY <1>3, <1>4 DEF Validate, RecordRejection, executor

\* The hook leaves the streams to the transaction.
LEMMA HookKeepsStreams ==
  ASSUME TypeOK, TypeOK', Control, OneTransaction, Streams, NEW p \in Callers, OwnStep(p),
         Hook(p)
  PROVE  Streams'
  <1> DEFINE c == call[p]
  <1>1. c.st = "hook" /\ UNCHANGED <<stream, tx, snapshot, lock>>
    BY DEF Hook, executor
  <1>2. c \in CallRecords /\ c.on \in Aggs /\ lock[c.on] = p
    BY <1>1, CommandHolds
  <1>3. PICK st \in {"commit", "duplicate", "undo"} : Goto(p, st)
    BY DEF Hook
  <1>4. /\ call'[p].st = st /\ call'[p].on = c.on /\ call'[p].op = c.op
        /\ call'[p].ver = c.ver /\ call'[p].state = c.state /\ call'[p].id = c.id
    BY <1>3, GotoCall DEF States
  <1> QED
    BY <1>1, <1>2, <1>4, MoveKeepsStreams DEF InTx, BeforeAppend

\* A rollback restores the stream, and a Forget's transaction ends either way.
LEMMA UndoKeepsStreams ==
  ASSUME TypeOK, TypeOK', Control, OneTransaction, Streams, NEW p \in Callers, OwnStep(p),
         Rollback(p) \/ DropDeliveries(p)
  PROVE  Streams'
  <1> DEFINE c == call[p]
  <1>1. /\ c.st \in {"undo", "duplicate", "drop"} /\ c.st \in InTx
        /\ tx' = NoTx /\ UNCHANGED <<snapshot, calls>>
        /\ stream' = stream \/ stream' = tx.stream
    BY DEF Rollback, DropDeliveries, Restore, InTx
  <1>2. c \in CallRecords /\ c.on \in Aggs /\ lock[c.on] = p
    BY <1>1, CommandHolds
  <1>3. CASE Return(p)
    <2>1. /\ call'[p] = Idle /\ \A q \in Callers : q # p => call'[q] = call[q]
          /\ \A a \in Aggs : lock'[a] = IF lock[a] = p THEN Nobody ELSE lock[a]
      BY <1>3, ReturnCall
    <2>2. LockOf(p)' /\ Read(p)' /\ LockFree(p)' /\ Erased(p)'
      BY <2>1, IdleIsQuiet
    <2>3. KeepsIDs(p) /\ call'[p].st \notin InTx
      BY <2>1, <1>1, IdleCall DEF KeepsIDs, Fresh, Writes, TypeOK, InTx
    <2> QED
      BY <2>1, <2>2, <2>3, <1>1, EndKeepsStreams
  <1>4. CASE Goto(p, "again") /\ UNCHANGED lock
    <2>1. /\ \A q \in Callers : q # p => call'[q] = call[q]
          /\ call'[p].st = "again" /\ call'[p].on = c.on /\ call'[p].op = c.op
      BY <1>4, GotoCall DEF States
    <2>2. LockOf(p)' /\ Read(p)' /\ LockFree(p)' /\ Erased(p)'
      BY <2>1, <1>2, <1>4 DEF LockOf, Read, LockFree, Erased
    <2>3. KeepsIDs(p) /\ call'[p].st \notin InTx
      BY <2>1, <1>1 DEF KeepsIDs, Fresh, BeforeAppend, TypeOK, InTx
    <2> QED
      BY <2>1, <2>2, <2>3, <1>1, <1>4, EndKeepsStreams
  <1> QED
    BY <1>3, <1>4 DEF Rollback, DropDeliveries, executor

\* Forget gives the lock up while it waits for its tombstone, and takes it again.
LEMMA TombstoneKeepsStreams ==
  ASSUME TypeOK, TypeOK', Control, OneTransaction, Streams, NEW p \in Callers, OwnStep(p),
         EnqueueTombstone(p) \/ AwaitTombstone(p)
  PROVE  Streams'
  <1> DEFINE c == call[p]
  <1>1. c.st \in {"put", "await"} /\ UNCHANGED <<stream, tx, snapshot, calls>>
        /\ c.st \notin InTx
    BY DEF EnqueueTombstone, AwaitTombstone, store, InTx
  <1>2. c \in CallRecords /\ c.on \in Aggs
    BY <1>1, CallOf DEF WellPlaced, CallRecords, Idle
  <1>3. CASE Return(p)
    BY <1>1, <1>3, ReturnKeepsStreams
  <1>4. CASE lock' = Unlocked(p) /\ Goto(p, "await")
    <2>1. call'[p].st = "await" /\ call'[p].on = c.on /\ call'[p].op = c.op
      BY <1>4, GotoCall DEF States
    <2>2. \A q \in Callers, a \in Aggs : q # p /\ lock[a] = q => lock'[a] = q
      BY <1>4 DEF Unlocked
    <2> QED
      BY <2>1, <2>2, <1>1, <1>2, MoveKeepsStreams DEF InTx, BeforeAppend
  <1>5. CASE lock[c.on] = Nobody /\ lock' = [lock EXCEPT ![c.on] = p] /\ Goto(p, "erase")
    <2>1. call'[p].st = "erase" /\ call'[p].on = c.on /\ call'[p].op = c.op
      BY <1>5, GotoCall DEF States
    <2>2. /\ lock'[c.on] = p
          /\ \A q \in Callers, a \in Aggs : q # p /\ lock[a] = q => lock'[a] = q
      BY <1>2, <1>5, WritePathConstants DEF TypeOK
    <2> QED
      BY <2>1, <2>2, <1>1, <1>2, MoveKeepsStreams DEF InTx, BeforeAppend
  <1> QED
    BY <1>3, <1>4, <1>5 DEF EnqueueTombstone, AwaitTombstone

\* Every step of a call keeps the invariant on streams.
LEMMA StepKeepsStreams ==
  ASSUME TypeOK, TypeOK', Control, OneTransaction, IDsAreGivenOnce, Streams,
         NEW p \in Callers, OwnStep(p), Step(p)
  PROVE  Streams'
  <1>1. CASE GetReceipt(p) \/ ReplayEvent(p)
    BY <1>1, GetReceiptKeepsStreams, ReplayKeepsStreams
  <1>2. CASE Answer(p) \/ Abort(p)
    <2>1. Return(p) /\ UNCHANGED <<stream, tx, snapshot, calls>> /\ call[p].st \notin InTx
      BY <1>2 DEF Answer, Abort, store, InTx
    <2> QED
      BY <2>1, ReturnKeepsStreams
  <1>3. CASE GetSnapshot(p) \/ ReadFrom(p)
    BY <1>3, GetSnapshotKeepsStreams, ReadFromKeepsStreams
  <1>4. CASE Guard(p) \/ CheckStream(p)
    BY <1>4, GuardKeepsStreams, CheckStreamKeepsStreams
  <1>5. CASE SaveUpcasted(p) \/ PutSnapshot(p)
    BY <1>5, SaveKeepsStreams
  <1>6. CASE Validate(p) \/ RecordRejection(p)
    BY <1>6, DecideKeepsStreams
  <1>7. CASE AppendEvent(p)
    BY <1>7, AppendKeepsStreams
  <1>8. CASE Hook(p) \/ Commit(p)
    BY <1>8, HookKeepsStreams, CommitKeepsStreams
  <1>9. CASE Rollback(p) \/ DropDeliveries(p)
    BY <1>9, UndoKeepsStreams
  <1>10. CASE EnqueueTombstone(p) \/ AwaitTombstone(p)
    BY <1>10, TombstoneKeepsStreams
  <1>11. CASE DeleteSnapshot(p) \/ DeleteStream(p)
    BY <1>11, DeleteSnapshotKeepsStreams, DeleteStreamKeepsStreams
  <1> QED
    BY <1>1, <1>2, <1>3, <1>4, <1>5, <1>6, <1>7, <1>8, <1>9, <1>10, <1>11 DEF Step

-----------------------------------------------------------------------------
(* The invariant, and what follows from it.                                *)

\* The invariant holds at the start.
LEMMA InitInv == Init => Inv
  <1> SUFFICES ASSUME Init
               PROVE  Inv
    OBVIOUS
  <1>1. /\ \A p \in Callers : call[p] = Idle
        /\ tx = NoTx /\ calls = 0 /\ commits = {}
    BY DEF Init
  <1>2. \A p \in Callers : ~Writes(p) /\ ~Fresh(p) /\ call[p].st \notin InTx
    BY <1>1, IdleCall DEF Writes, Fresh, InTx
  <1>3. tx.by = Nobody /\ \A p \in Callers : tx.by # p
    BY <1>1, WritePathConstants DEF NoTx
  <1>4. \A a \in Aggs : stream[a] \in SUBSET Events /\ \E n \in Nat : Sized(stream[a], n)
    <2> SUFFICES ASSUME NEW a \in Aggs
                 PROVE  stream[a] \in SUBSET Events /\ \E n \in Nat : Sized(stream[a], n)
      OBVIOUS
    <2>1. Sized({}, 0)
      BY DEF Sized
    <2>2. Sized({<<1, 0>>}, 1) /\ {<<1, 0>>} \in SUBSET Events
      BY DEF Sized, Events
    <2>3. stream[a] = {} \/ stream[a] = {<<1, 0>>}
      BY DEF Init, OldEvent
    <2> QED
      BY <2>1, <2>2, <2>3
  <1>5. TypeOK
    <2>1. stream \in [Aggs -> SUBSET Events]
      BY <1>4 DEF Init
    <2>2. receipts \in [CommandIDs -> Receipts]
      BY DEF Init, NoReceipt, Receipts
    <2>3. snapshot \in [Aggs -> [ver : Nat, state : SUBSET Events]]
      BY DEF Init, NoSnapshot, SnapshotOf
    <2>4. call \in [Callers -> CallRecords]
      BY IdleCall DEF Init
    <2>5. calls \in 0..MaxCalls
      BY WritePathConstants DEF Init
    <2>6. lock \in [Aggs -> Callers \cup {Nobody}]
      BY DEF Init
    <2>7. /\ author \in [IDs -> CommandIDs \cup {NoID}] /\ commits \subseteq IDs
          /\ told \in [CommandIDs -> SUBSET {"accepted", "rejected"}]
      BY DEF Init
    <2> QED
      BY <2>1, <2>2, <2>3, <2>4, <2>5, <2>6, <2>7, <1>1 DEF TypeOK
  <1>6. Control
    BY <1>1, IdleCall DEF Control, WellPlaced
  <1>7. Idempotent
    <2>1. \A c \in CommandIDs : receipts[c].kind = "none" /\ Durable[c].kind = "none"
                                /\ told[c] = {}
      BY <1>1 DEF Init, NoReceipt, Durable
    <2>2. OneTransaction
      BY <1>2, <1>3 DEF OneTransaction
    <2>3. IDsAreGivenOnce
      BY <1>1, <1>2, IdleCall DEF IDsAreGivenOnce, Init
    <2>4. Authorship /\ OneReceipt /\ DecisionsLast
      BY <2>1, <1>1, IdleCall DEF Authorship, OneReceipt, DecisionsLast
    <2> QED
      BY <2>2, <2>3, <2>4 DEF Idempotent
  <1>8. Streams
    <2>1. DurableStream = stream
      BY <1>1 DEF DurableStream
    <2>2. OneStream
      BY <1>2 DEF OneStream
    <2>3. Gapless(stream) /\ Gapless(DurableStream)
      BY <2>1, <1>4 DEF Gapless
    <2>4. SnapshotsOf(stream) /\ SnapshotsOf(DurableStream)
      <3>1. \A a \in Aggs : snapshot[a].state = {} /\ snapshot[a].ver = 0
        BY DEF Init, NoSnapshot, SnapshotOf
      <3>2. \A a \in Aggs : UpTo(stream[a], 0) = {}
        BY <1>4 DEF UpTo, Sized
      <3> QED
        BY <2>1, <3>1, <3>2 DEF SnapshotsOf, Reaches
    <2>5. \A a \in Aggs : Used(stream[a]) /\ Used(DurableStream[a])
      BY <2>1, <1>1, <1>2 DEF Used, Init, OldEvent
    <2>6. \A p \in Callers : LockOf(p) /\ Read(p) /\ LockFree(p) /\ Erased(p)
      BY <1>1, <1>2, IdleCall DEF LockOf, Read, LockFree, Erased
    <2> QED
      BY <2>2, <2>3, <2>4, <2>5, <2>6 DEF Streams
  <1> QED
    BY <1>5, <1>6, <1>7, <1>8 DEF Inv

\* The invariant is inductive.
LEMMA NextInv == Inv /\ [Next]_vars => Inv'
  <1> SUFFICES ASSUME Inv, [Next]_vars
               PROVE  Inv'
    OBVIOUS
  <1>0. TypeOK /\ Control /\ Idempotent /\ Streams /\ OneTransaction /\ IDsAreGivenOnce
        /\ Gapless(stream)
    BY DEF Inv, Idempotent, Streams
  <1>1. CASE Next
    <2>1. TypeOK' /\ Control'
      BY <1>0, <1>1, NextTypes
    <2>2. ASSUME NEW p \in Callers, NEW a \in Aggs, Starts(p, a)
          PROVE  Idempotent' /\ Streams'
      BY <2>1, <2>2, <1>0, StartKeepsIdempotent, StartKeepsStreams
    <2>3. ASSUME NEW p \in Callers, Step(p)
          PROVE  Idempotent' /\ Streams'
      <3>1. OwnStep(p)
        BY <2>3, <1>0, StepIsOwn
      <3> QED
        BY <3>1, <2>1, <2>3, <1>0, StepKeepsIdempotent, StepKeepsStreams
    <2>4. CASE Crash
      BY <2>1, <2>4, <1>0, CrashKeepsIdempotent, CrashKeepsStreams DEF Inv
    <2> QED
      BY <2>1, <2>2, <2>3, <2>4, <1>1 DEF Next, Starts, Inv
  <1>2. CASE UNCHANGED vars
    <2>1. /\ UNCHANGED <<stream, receipts, tx, snapshot, lock, call, calls>>
          /\ UNCHANGED <<author, commits, told>>
      BY <1>2 DEF vars, store, executor, history
    <2>2. TypeOK' /\ Control'
      BY <2>1, <1>0 DEF TypeOK, Control
    <2>3. Idempotent'
      BY <2>1, <1>0 DEF Idempotent, OneTransaction, IDsAreGivenOnce, Authorship, OneReceipt,
                        DecisionsLast, Durable, Writes, Fresh
    <2>4. Streams'
      <3>1. /\ DurableStream' = DurableStream
            /\ \A p \in Callers : (Writes(p)' <=> Writes(p)) /\ (Fresh(p)' <=> Fresh(p))
        BY <2>1 DEF DurableStream, Writes, Fresh
      <3>2. OneStream' /\ Gapless(stream)' /\ Gapless(DurableStream)'
        BY <3>1, <2>1, <1>0 DEF Streams, OneStream, Gapless
      <3>3. SnapshotsOf(stream)' /\ SnapshotsOf(DurableStream)'
        BY <3>1, <2>1, <1>0 DEF Streams, SnapshotsOf
      <3>4. \A a \in Aggs : Used(stream[a])' /\ Used(DurableStream[a])'
        BY <3>1, <2>1, <1>0 DEF Streams, Used
      <3>5. \A p \in Callers : LockOf(p)' /\ Read(p)' /\ Erased(p)'
        BY <3>1, <2>1, <1>0 DEF Streams, LockOf, Read, Erased
      <3>6. \A p \in Callers : LockFree(p)'
        BY <3>1, <2>1, <1>0 DEF Streams, LockFree, Used
      <3> QED
        BY <3>2, <3>3, <3>4, <3>5, <3>6 DEF Streams
    <2> QED
      BY <2>2, <2>3, <2>4 DEF Inv
  <1> QED
    BY <1>1, <1>2

(***************************************************************************)
(* The inductive invariant holds in every reachable state, for any set of  *)
(* aggregates, callers and command ids and any number of calls, faults and *)
(* crashes.                                                                *)
(***************************************************************************)
THEOREM Invariance == Spec => []Inv
  BY InitInv, NextInv, PTL DEF Spec

(***************************************************************************)
(* A snapshot is the state of a prefix of its stream, also while a Forget  *)
(* erases and when a lock-free read saves what it built before the erase   *)
(* (reader.go:178-185, exec_forget.go:95-97).                              *)
(***************************************************************************)
THEOREM Snapshots == Spec => []SnapshotsAgree
  <1>1. Inv => SnapshotsAgree
    BY DEF Inv, Streams, SnapshotsOf, SnapshotsAgree, UpTo
  <1> QED
    BY <1>1, Invariance, PTL

(***************************************************************************)
(* A command is validated against the whole stream it appends to, and the  *)
(* version it continues from is the number of its events                   *)
(* (eventstore.go:129-141).                                                *)
(***************************************************************************)
THEOREM NoLostUpdate == Spec => []ValidatedAgainstStream
  <1>1. Inv => ValidatedAgainstStream
    <2> SUFFICES ASSUME Inv, NEW p \in Callers, call[p].st \in {"validate", "append"}
                 PROVE  /\ call[p].state = stream[call[p].on]
                        /\ call[p].ver = Cardinality(stream[call[p].on])
      BY DEF ValidatedAgainstStream
    <2>1. call[p] \in CallRecords /\ call[p].on \in Aggs
      BY CommandHolds DEF Inv
    <2>2. call[p].state = stream[call[p].on] /\ Sized(stream[call[p].on], call[p].ver)
      BY DEF Inv, Streams, Read
    <2>3. stream[call[p].on] \in SUBSET Events /\ call[p].ver \in Nat
      BY <2>1 DEF Inv, TypeOK, CallRecords
    <2> QED
      BY <2>2, <2>3, SizedCardinality
  <1> QED
    BY <1>1, Invariance, PTL

(***************************************************************************)
(* Outside a transaction a receipt says "accepted" exactly when an event   *)
(* of its command has been committed, through failing projections,         *)
(* duplicates and crashes (exec_idempotency.go).                           *)
(***************************************************************************)
THEOREM Receipting == Spec => []ReceiptsMatchEvents
  <1>1. Inv => ReceiptsMatchEvents
    BY DEF Inv, Idempotent, DecisionsLast, Durable, ReceiptsMatchEvents
  <1> QED
    BY <1>1, Invariance, PTL

(***************************************************************************)
(* A command id commits at most one event, however often and on whichever  *)
(* aggregates it is sent, also after a Forget.                             *)
(***************************************************************************)
THEOREM AtMostOnce == Spec => []AppliedOnce
  <1>1. Inv => AppliedOnce
    BY DEF Inv, Idempotent, DecisionsLast, AppliedOnce, TypeOK
  <1> QED
    BY <1>1, Invariance, PTL

(***************************************************************************)
(* No event is ever committed for a command id whose rejection was         *)
(* reported (exec_idempotency.go:59-62).                                   *)
(***************************************************************************)
THEOREM Rejections == Spec => []RejectionsStand
  <1>1. Inv => RejectionsStand
    BY DEF Inv, Idempotent, DecisionsLast, RejectionsStand
  <1> QED
    BY <1>1, Invariance, PTL

(***************************************************************************)
(* A retry is answered with the event its own command wrote, never with    *)
(* the event of that version in a re-created stream                        *)
(* (exec_idempotency.go:73-75).                                            *)
(***************************************************************************)
THEOREM Answers == Spec => []AnswersAreOriginal
  <1>1. Inv => AnswersAreOriginal
    BY DEF Inv, Idempotent, Authorship, AnswersAreOriginal
  <1> QED
    BY <1>1, Invariance, PTL

(***************************************************************************)
(* A Get, whose two reads are apart and hold no lock, returns the stream   *)
(* as it is at the second read, unless the events of its snapshot were     *)
(* erased meanwhile (reader.go:94-131).                                    *)
(***************************************************************************)
THEOREM LockFreeReads == Spec => GetReadsTheStream
  <1> DEFINE A == \A p \in Callers :
                    LET c == call[p] IN
                    c.op = "get" /\ ReadFrom(p) /\ c.state \subseteq stream[c.on] =>
                        c.state \cup EventsFrom(c.on, c.ver + 1) = stream[c.on]
  <1>1. Inv => A
    <2> SUFFICES ASSUME Inv, NEW p \in Callers, call[p].op = "get", ReadFrom(p),
                        call[p].state \subseteq stream[call[p].on]
                 PROVE  call[p].state \cup EventsFrom(call[p].on, call[p].ver + 1)
                            = stream[call[p].on]
      OBVIOUS
    <2>1. call[p].st = "events" /\ call[p] \in CallRecords /\ call[p].on \in Aggs
      BY CallOf DEF Inv, ReadFrom, WellPlaced
    <2>2. Sized(call[p].state, call[p].ver)
      BY <2>1 DEF Inv, Streams, Read
    <2>3. PICK n \in Nat : Sized(stream[call[p].on], n)
      BY <2>1 DEF Inv, Streams, Gapless
    <2>4. stream[call[p].on] \in SUBSET Events /\ call[p].ver \in Nat
      BY <2>1 DEF Inv, TypeOK, CallRecords
    <2>5. \A e \in stream[call[p].on] : e[1] \in Nat /\ e[1] >= 1
      BY <2>3, <2>4 DEF Sized, Events
    <2>6. ASSUME NEW e \in stream[call[p].on], ~(e[1] >= call[p].ver + 1)
          PROVE  e \in call[p].state
      <3>1. e[1] \in 1..call[p].ver
        BY <2>4, <2>5, <2>6
      <3>2. PICK f \in call[p].state : f[1] = e[1]
        BY <3>1, <2>2 DEF Sized
      <3> QED
        BY <3>2, <2>3 DEF Sized
    <2> QED
      BY <2>6 DEF EventsFrom
  <1>2. Inv /\ [Next]_vars => [A]_vars
    BY <1>1
  <1> QED
    BY <1>2, Invariance, PTL DEF Spec, GetReadsTheStream

=============================================================================
