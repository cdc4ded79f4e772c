------------------------------ MODULE KeyedLock ------------------------------
(***************************************************************************)
(* exec.KeyedLock (internal/processor/exec/keyedlock.go): a mutex per key  *)
(* whose entries exist only while somebody holds or waits for the key.     *)
(*                                                                         *)
(* An entry is a heap object: a one-slot channel that holds a token while  *)
(* the key is free, and a reference count.  A caller keeps its entry       *)
(* across the wait, while the map `entries' is read and written under      *)
(* KeyedLock.mu only.  Everything between two releases of mu is one        *)
(* action; the receive and the send of the token happen outside mu and are *)
(* actions of their own.                                                   *)
(***************************************************************************)
EXTENDS Naturals, FiniteSets

CONSTANTS
    Keys,       \* lock keys
    Callers,    \* goroutines that call Lock and TryLock
    Entries,    \* heap objects of type lockEntry
    NoEntry     \* the nil *lockEntry

ASSUME CallersFinite == IsFiniteSet(Callers)
ASSUME NoEntryIsNil == NoEntry \notin Entries

VARIABLES
    entries,    \* KeyedLock.entries: key -> entry, NoEntry when absent
    token,      \* token[e]: e.ch holds its token
    refs,       \* refs[e]: e.refs
    pc,         \* where a caller is in its Lock / unlock calls
    key,        \* the key a caller passed
    entry       \* the entry a caller works on

vars == <<entries, token, refs, pc, key, entry>>

(***************************************************************************)
(* "waiting": in Lock's select.  "holding": the unlock function has been   *)
(* returned and not called.  "put": unlock has put the token back and has  *)
(* not released.  "cancelled": Lock's context ended and it has not         *)
(* released.                                                               *)
(***************************************************************************)
PCs == {"idle", "waiting", "holding", "put", "cancelled"}

Referrers(k) == {p \in Callers : pc[p] # "idle" /\ key[p] = k}

(***************************************************************************)
(* A heap object nobody can reach may be allocated (again).                *)
(***************************************************************************)
Fresh(e) ==
    /\ \A k \in Keys : entries[k] # e
    /\ \A p \in Callers : pc[p] # "idle" => entry[p] # e

Init ==
    /\ entries = [k \in Keys |-> NoEntry]
    /\ token = [e \in Entries |-> FALSE]
    /\ refs = [e \in Entries |-> 0]
    /\ pc = [p \in Callers |-> "idle"]
    /\ key \in [Callers -> Keys]
    /\ entry = [p \in Callers |-> NoEntry]

-----------------------------------------------------------------------------
(* Slips that keyedlock.go could contain, kept to show that the properties *)
(* below would notice them.  The specification does not use them.          *)

\* Lock makes its entry without the token.
LockCreatesEmpty(p, k, e) ==
    /\ pc[p] = "idle"
    /\ entries[k] = NoEntry
    /\ Fresh(e)
    /\ entries' = [entries EXCEPT ![k] = e]
    /\ token' = [token EXCEPT ![e] = FALSE]
    /\ refs' = [refs EXCEPT ![e] = 1]
    /\ pc' = [pc EXCEPT ![p] = "waiting"]
    /\ key' = [key EXCEPT ![p] = k]
    /\ entry' = [entry EXCEPT ![p] = e]

\* Lock returns on ctx.Done() without releasing its reference.
CancelWithoutRelease(p) ==
    /\ pc[p] = "waiting"
    /\ pc' = [pc EXCEPT ![p] = "idle"]
    /\ entry' = [entry EXCEPT ![p] = NoEntry]
    /\ UNCHANGED <<entries, token, refs, key>>

\* TryLock forgets to receive from an entry that exists.
TryLockIgnoresToken(p, k) ==
    /\ pc[p] = "idle"
    /\ entries[k] # NoEntry
    /\ refs' = [refs EXCEPT ![entries[k]] = @ + 1]
    /\ pc' = [pc EXCEPT ![p] = "holding"]
    /\ key' = [key EXCEPT ![p] = k]
    /\ entry' = [entry EXCEPT ![p] = entries[k]]
    /\ UNCHANGED <<entries, token>>

\* TryLock leaves the token in the entry it makes.
TryLockLeavesToken(p, k, e) ==
    /\ pc[p] = "idle"
    /\ entries[k] = NoEntry
    /\ Fresh(e)
    /\ entries' = [entries EXCEPT ![k] = e]
    /\ token' = [token EXCEPT ![e] = TRUE]
    /\ refs' = [refs EXCEPT ![e] = 1]
    /\ pc' = [pc EXCEPT ![p] = "holding"]
    /\ key' = [key EXCEPT ![p] = k]
    /\ entry' = [entry EXCEPT ![p] = e]

\* release deletes the entry whatever the count says.
ReleaseAlwaysDeletes(p) ==
    /\ pc[p] \in {"put", "cancelled"}
    /\ refs' = [refs EXCEPT ![entry[p]] = @ - 1]
    /\ entries' = [entries EXCEPT ![key[p]] = NoEntry]
    /\ pc' = [pc EXCEPT ![p] = "idle"]
    /\ entry' = [entry EXCEPT ![p] = NoEntry]
    /\ UNCHANGED <<token, key>>

-----------------------------------------------------------------------------
(***************************************************************************)
(* Lock, up to its select.  A caller whose context is already done returns *)
(* before it touches anything, which is a stuttering step.                 *)
(***************************************************************************)
LockFound(p, k) ==
    /\ pc[p] = "idle"
    /\ entries[k] # NoEntry
    /\ refs' = [refs EXCEPT ![entries[k]] = @ + 1]
    /\ pc' = [pc EXCEPT ![p] = "waiting"]
    /\ key' = [key EXCEPT ![p] = k]
    /\ entry' = [entry EXCEPT ![p] = entries[k]]
    /\ UNCHANGED <<entries, token>>

LockCreates(p, k, e) ==
    /\ pc[p] = "idle"
    /\ entries[k] = NoEntry
    /\ Fresh(e)
    /\ entries' = [entries EXCEPT ![k] = e]
    /\ token' = [token EXCEPT ![e] = TRUE]
    /\ refs' = [refs EXCEPT ![e] = 1]
    /\ pc' = [pc EXCEPT ![p] = "waiting"]
    /\ key' = [key EXCEPT ![p] = k]
    /\ entry' = [entry EXCEPT ![p] = e]

\* The select takes the token: Lock returns the unlock function.
TakeToken(p) ==
    /\ pc[p] = "waiting"
    /\ token[entry[p]]
    /\ token' = [token EXCEPT ![entry[p]] = FALSE]
    /\ pc' = [pc EXCEPT ![p] = "holding"]
    /\ UNCHANGED <<entries, refs, key, entry>>

\* The select takes ctx.Done(): possible whether or not the token is there.
Cancel(p) ==
    /\ pc[p] = "waiting"
    /\ pc' = [pc EXCEPT ![p] = "cancelled"]
    /\ UNCHANGED <<entries, token, refs, key, entry>>

(***************************************************************************)
(* TryLock holds mu throughout; a TryLock that finds the token gone        *)
(* changes nothing.  A new entry always has its token.                     *)
(***************************************************************************)
TryLockFound(p, k) ==
    /\ pc[p] = "idle"
    /\ entries[k] # NoEntry
    /\ token[entries[k]]
    /\ token' = [token EXCEPT ![entries[k]] = FALSE]
    /\ refs' = [refs EXCEPT ![entries[k]] = @ + 1]
    /\ pc' = [pc EXCEPT ![p] = "holding"]
    /\ key' = [key EXCEPT ![p] = k]
    /\ entry' = [entry EXCEPT ![p] = entries[k]]
    /\ UNCHANGED entries

TryLockCreates(p, k, e) ==
    /\ pc[p] = "idle"
    /\ entries[k] = NoEntry
    /\ Fresh(e)
    /\ entries' = [entries EXCEPT ![k] = e]
    /\ token' = [token EXCEPT ![e] = FALSE]
    /\ refs' = [refs EXCEPT ![e] = 1]
    /\ pc' = [pc EXCEPT ![p] = "holding"]
    /\ key' = [key EXCEPT ![p] = k]
    /\ entry' = [entry EXCEPT ![p] = e]

(***************************************************************************)
(* The first call of unlock puts the token back, without mu; sync.Once     *)
(* turns every later call into a stuttering step.                          *)
(***************************************************************************)
PutToken(p) ==
    /\ pc[p] = "holding"
    /\ token' = [token EXCEPT ![entry[p]] = TRUE]
    /\ pc' = [pc EXCEPT ![p] = "put"]
    /\ UNCHANGED <<entries, refs, key, entry>>

\* release, under mu: the last reference removes the entry of that key.
Release(p) ==
    /\ pc[p] \in {"put", "cancelled"}
    /\ refs' = [refs EXCEPT ![entry[p]] = @ - 1]
    /\ entries' = [entries EXCEPT ![key[p]] = IF refs[entry[p]] = 1 THEN NoEntry ELSE @]
    /\ pc' = [pc EXCEPT ![p] = "idle"]
    /\ entry' = [entry EXCEPT ![p] = NoEntry]
    /\ UNCHANGED <<token, key>>

Step(p) ==
    \/ \E k \in Keys : LockFound(p, k) \/ TryLockFound(p, k)
    \/ \E k \in Keys, e \in Entries : LockCreates(p, k, e) \/ TryLockCreates(p, k, e)
    \/ TakeToken(p)
    \/ Cancel(p)
    \/ PutToken(p)
    \/ Release(p)

Next == \E p \in Callers : Step(p)

Spec == Init /\ [][Next]_vars

(***************************************************************************)
(* A holder eventually unlocks (WithLock and Lock are always paired with a *)
(* deferred unlock), every unlock and cancellation runs to its end, and a  *)
(* waiter is served: the runtime keeps the receivers of a channel in       *)
(* arrival order and hands a sent value to the first, so a token that is   *)
(* put back again and again reaches every waiter.                          *)
(***************************************************************************)
Fairness ==
    \A p \in Callers :
        /\ WF_vars(PutToken(p))
        /\ WF_vars(Release(p))
        /\ SF_vars(TakeToken(p))

FairSpec == Spec /\ Fairness

-----------------------------------------------------------------------------
(***************************************************************************)
(* The shape of the map, its entries and the callers (keyedlock.go:12-20). *)
(***************************************************************************)
TypeOK ==
    /\ entries \in [Keys -> Entries \cup {NoEntry}]
    /\ token \in [Entries -> BOOLEAN]
    /\ refs \in [Entries -> Nat]
    /\ pc \in [Callers -> PCs]
    /\ key \in [Callers -> Keys]
    /\ entry \in [Callers -> Entries \cup {NoEntry}]

(***************************************************************************)
(* Two callers never hold one key at once, although entries are deleted    *)
(* and made again while callers wait on the old ones (keyedlock.go:8-9).   *)
(***************************************************************************)
MutualExclusion ==
    \A p, q \in Callers :
        pc[p] = "holding" /\ pc[q] = "holding" /\ key[p] = key[q] => p = q

(***************************************************************************)
(* "An entry exists only while someone holds or waits for its key"         *)
(* (keyedlock.go:9-11): no entry outlives its last caller, and no caller   *)
(* is left with an entry that a newcomer would no longer find.             *)
(***************************************************************************)
EntriesFollowCallers ==
    /\ \A k \in Keys : entries[k] # NoEntry => Referrers(k) # {}
    /\ \A p \in Callers : pc[p] # "idle" => entry[p] = entries[key[p]]

(***************************************************************************)
(* The send in unlock never blocks: the slot of a held entry is empty.     *)
(***************************************************************************)
UnlockNeverBlocks ==
    \A p \in Callers : pc[p] = "holding" => ~token[entry[p]]

(***************************************************************************)
(* A waiter gets the key or gives up: no token is lost, whichever order    *)
(* unlocks, cancellations and new callers come in.                         *)
(***************************************************************************)
WaitersAreServed ==
    \A p \in Callers : pc[p] = "waiting" ~> pc[p] # "waiting"

(***************************************************************************)
(* The lock implements one mutex per key.                                  *)
(***************************************************************************)
Holders == [k \in Keys |-> {p \in Callers : pc[p] = "holding" /\ key[p] = k}]

Mutex == INSTANCE KeyedMutex WITH holders <- Holders

ImplementsMutex == Mutex!Spec

(***************************************************************************)
(* The inductive invariant: a caller's entry is the entry of its key, keys *)
(* do not share entries, refs counts the callers, and the token is out     *)
(* exactly while somebody holds the key.                                   *)
(***************************************************************************)
Attached == \A p \in Callers : pc[p] # "idle" => /\ entry[p] = entries[key[p]]
                                                 /\ entry[p] \in Entries

Unshared == \A k, l \in Keys : entries[k] = entries[l] /\ entries[k] # NoEntry => k = l

Counted ==
    \A k \in Keys : entries[k] # NoEntry =>
        /\ refs[entries[k]] = Cardinality(Referrers(k))
        /\ Referrers(k) # {}

TokenOut ==
    \A k \in Keys : entries[k] # NoEntry =>
        (token[entries[k]] <=> \A p \in Callers : ~(pc[p] = "holding" /\ key[p] = k))

IInv == TypeOK /\ Attached /\ Unshared /\ Counted /\ TokenOut /\ MutualExclusion

=============================================================================
