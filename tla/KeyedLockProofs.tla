-------------------------- MODULE KeyedLockProofs --------------------------
(***************************************************************************)
(* The keyed lock is a mutex for every number of keys, callers and heap    *)
(* objects.                                                                *)
(***************************************************************************)
EXTENDS KeyedLock, FiniteSetTheorems, TLAPS

(***************************************************************************)
(* The callers of a key are finitely many, so refs can count them.         *)
(***************************************************************************)
LEMMA ReferrersFinite == \A k : IsFiniteSet(Referrers(k))
  BY CallersFinite, FS_Subset DEF Referrers

(***************************************************************************)
(* Adding a new member to a finite set adds one to its cardinality, and    *)
(* removing a member subtracts one.                                        *)
(***************************************************************************)
LEMMA CountAdd ==
  ASSUME NEW S, IsFiniteSet(S), NEW x, x \notin S
  PROVE  Cardinality(S \cup {x}) = Cardinality(S) + 1
  BY FS_AddElement

LEMMA CountRemove ==
  ASSUME NEW S, IsFiniteSet(S), NEW x, x \in S
  PROVE  /\ Cardinality(S) \in Nat
         /\ Cardinality(S \ {x}) = Cardinality(S) - 1
         /\ Cardinality(S) = 1 <=> S \ {x} = {}
  <1>1. /\ Cardinality(S) \in Nat
        /\ Cardinality(S \ {x}) = Cardinality(S) - 1
    BY FS_RemoveElement, FS_CardinalityType
  <1>2. IsFiniteSet(S \ {x})
    BY FS_RemoveElement
  <1>3. Cardinality(S \ {x}) = 0 <=> S \ {x} = {}
    BY <1>2, FS_EmptySet
  <1> QED
    BY <1>1, <1>3

(***************************************************************************)
(* The invariant holds initially.                                          *)
(***************************************************************************)
LEMMA InitIInv == Init => IInv
  BY NoEntryIsNil
     DEF Init, IInv, TypeOK, PCs, Attached, Unshared, Counted, TokenOut,
         MutualExclusion, Referrers

(***************************************************************************)
(* A caller that joins an existing entry (Lock or TryLock) keeps the       *)
(* count of that entry right.                                              *)
(***************************************************************************)
LEMMA JoinCounted ==
  ASSUME IInv, NEW p \in Callers, NEW k \in Keys, NEW s \in PCs \ {"idle"},
         pc[p] = "idle", entries[k] # NoEntry,
         refs' = [refs EXCEPT ![entries[k]] = @ + 1],
         pc' = [pc EXCEPT ![p] = s],
         key' = [key EXCEPT ![p] = k],
         entries' = entries
  PROVE  Counted'
  <1> USE DEF IInv, TypeOK, PCs
  <1>1. Referrers(k)' = Referrers(k) \cup {p} /\ p \notin Referrers(k)
    BY DEF Referrers
  <1>2. \A l \in Keys : l # k => Referrers(l)' = Referrers(l)
    BY DEF Referrers
  <1>3. Cardinality(Referrers(k)') = Cardinality(Referrers(k)) + 1
    BY <1>1, ReferrersFinite, CountAdd
  <1>4. refs'[entries[k]] = refs[entries[k]] + 1
    OBVIOUS
  <1>5. \A l \in Keys : l # k /\ entries[l] # NoEntry => refs'[entries[l]] = refs[entries[l]]
    BY DEF Unshared
  <1> QED
    BY <1>1, <1>2, <1>3, <1>4, <1>5 DEF Counted

(***************************************************************************)
(* A caller that makes the entry of a key is its only caller.              *)
(***************************************************************************)
LEMMA CreateCounted ==
  ASSUME IInv, NEW p \in Callers, NEW k \in Keys, NEW e \in Entries,
         NEW s \in PCs \ {"idle"},
         pc[p] = "idle", entries[k] = NoEntry, Fresh(e),
         entries' = [entries EXCEPT ![k] = e],
         refs' = [refs EXCEPT ![e] = 1],
         pc' = [pc EXCEPT ![p] = s],
         key' = [key EXCEPT ![p] = k]
  PROVE  Counted'
  <1> USE DEF IInv, TypeOK, PCs
  <1>1. Referrers(k) = {}
    BY NoEntryIsNil DEF Referrers, Attached
  <1>2. Referrers(k)' = {p}
    BY <1>1 DEF Referrers
  <1>3. \A l \in Keys : l # k => Referrers(l)' = Referrers(l)
    BY DEF Referrers
  <1>4. Cardinality({p}) = 1
    BY FS_Singleton
  <1>5. \A l \in Keys : l # k /\ entries[l] # NoEntry =>
            entries'[l] = entries[l] /\ refs'[entries'[l]] = refs[entries[l]]
    BY DEF Fresh
  <1>6. entries'[k] = e /\ refs'[e] = 1
    OBVIOUS
  <1>7. ASSUME NEW l \in Keys, entries'[l] # NoEntry
        PROVE  refs'[entries'[l]] = Cardinality(Referrers(l)') /\ Referrers(l)' # {}
    <2>1. CASE l = k
      BY <2>1, <1>2, <1>4, <1>6
    <2>2. CASE l # k
      BY <2>2, <1>7, <1>3, <1>5 DEF Counted
    <2> QED
      BY <2>1, <2>2
  <1> QED
    BY <1>7 DEF Counted

(***************************************************************************)
(* Every step preserves the invariant.  Release is the step it was made    *)
(* for: the entry goes exactly when its last caller does.                  *)
(***************************************************************************)
LEMMA NextIInv == IInv /\ [Next]_vars => IInv'
  <1> SUFFICES ASSUME IInv, [Next]_vars PROVE IInv'
    OBVIOUS
  <1> USE NoEntryIsNil DEF IInv, TypeOK, PCs
  <1>1. ASSUME NEW p \in Callers, NEW k \in Keys, LockFound(p, k) PROVE IInv'
    <2> USE <1>1 DEF LockFound
    <2>1. TypeOK' OBVIOUS
    <2>2. Attached' BY DEF Attached
    <2>3. Unshared' BY DEF Unshared
    <2>4. Counted' BY JoinCounted
    <2>5. TokenOut' BY DEF TokenOut
    <2>6. MutualExclusion' BY DEF MutualExclusion
    <2> QED BY <2>1, <2>2, <2>3, <2>4, <2>5, <2>6
  <1>2. ASSUME NEW p \in Callers, NEW k \in Keys, TryLockFound(p, k) PROVE IInv'
    <2> USE <1>2 DEF TryLockFound
    <2>1. TypeOK' OBVIOUS
    <2>2. Attached' BY DEF Attached
    <2>3. Unshared' BY DEF Unshared
    <2>4. Counted' BY JoinCounted
    <2>5. TokenOut' BY DEF TokenOut, Unshared
    <2>6. MutualExclusion' BY DEF MutualExclusion, TokenOut
    <2> QED BY <2>1, <2>2, <2>3, <2>4, <2>5, <2>6
  <1>3. ASSUME NEW p \in Callers, NEW k \in Keys, NEW e \in Entries, LockCreates(p, k, e)
        PROVE IInv'
    <2> USE <1>3 DEF LockCreates
    <2>1. TypeOK' OBVIOUS
    <2>2. Attached' BY DEF Attached, Fresh
    <2>3. Unshared' BY DEF Unshared, Fresh
    <2>4. Counted' BY CreateCounted
    <2>5. TokenOut' BY DEF TokenOut, Attached, Fresh
    <2>6. MutualExclusion' BY DEF MutualExclusion
    <2> QED BY <2>1, <2>2, <2>3, <2>4, <2>5, <2>6
  <1>4. ASSUME NEW p \in Callers, NEW k \in Keys, NEW e \in Entries, TryLockCreates(p, k, e)
        PROVE IInv'
    <2> USE <1>4 DEF TryLockCreates
    <2>1. TypeOK' OBVIOUS
    <2>2. Attached' BY DEF Attached, Fresh
    <2>3. Unshared' BY DEF Unshared, Fresh
    <2>4. Counted' BY CreateCounted
    <2>5. TokenOut' BY DEF TokenOut, Attached, Fresh
    <2>6. MutualExclusion' BY DEF MutualExclusion, Attached
    <2> QED BY <2>1, <2>2, <2>3, <2>4, <2>5, <2>6
  <1>5. ASSUME NEW p \in Callers, TakeToken(p) PROVE IInv'
    <2> USE <1>5 DEF TakeToken
    <2>1. TypeOK' OBVIOUS
    <2>2. Attached' BY DEF Attached
    <2>3. Unshared' BY DEF Unshared
    <2>4. Counted' BY DEF Counted, Referrers
    <2>5. TokenOut' BY DEF TokenOut, Attached, Unshared
    <2>6. MutualExclusion' BY DEF MutualExclusion, TokenOut, Attached
    <2> QED BY <2>1, <2>2, <2>3, <2>4, <2>5, <2>6
  <1>6. ASSUME NEW p \in Callers, Cancel(p) PROVE IInv'
    <2> USE <1>6 DEF Cancel
    <2>1. TypeOK' OBVIOUS
    <2>2. Attached' BY DEF Attached
    <2>3. Unshared' BY DEF Unshared
    <2>4. Counted' BY DEF Counted, Referrers
    <2>5. TokenOut' BY DEF TokenOut
    <2>6. MutualExclusion' BY DEF MutualExclusion
    <2> QED BY <2>1, <2>2, <2>3, <2>4, <2>5, <2>6
  <1>7. ASSUME NEW p \in Callers, PutToken(p) PROVE IInv'
    <2> USE <1>7 DEF PutToken
    <2>1. TypeOK' OBVIOUS
    <2>2. Attached' BY DEF Attached
    <2>3. Unshared' BY DEF Unshared
    <2>4. Counted' BY DEF Counted, Referrers
    <2>5. TokenOut' BY DEF TokenOut, Attached, Unshared, MutualExclusion
    <2>6. MutualExclusion' BY DEF MutualExclusion
    <2> QED BY <2>1, <2>2, <2>3, <2>4, <2>5, <2>6
  <1>8. ASSUME NEW p \in Callers, Release(p) PROVE IInv'
    <2> USE <1>8 DEF Release
    <2> DEFINE k == key[p]
               R == Referrers(k)
    <2>1. entry[p] = entries[k] /\ entries[k] \in Entries /\ p \in R
      BY DEF Attached, Referrers
    <2>2. refs[entries[k]] = Cardinality(R)
      BY <2>1 DEF Counted
    <2>3. Referrers(k)' = R \ {p}
      BY DEF Referrers
    <2>4. \A l \in Keys : l # k => Referrers(l)' = Referrers(l)
      BY DEF Referrers
    <2>5. /\ Cardinality(R) \in Nat
          /\ Cardinality(R \ {p}) = Cardinality(R) - 1
          /\ Cardinality(R) = 1 <=> R \ {p} = {}
      <3> HIDE DEF R
      <3>1. IsFiniteSet(R)
        BY ReferrersFinite DEF R
      <3> QED
        BY <2>1, <3>1, CountRemove
    <2>6. \A l \in Keys : l # k => entries'[l] = entries[l]
      OBVIOUS
    <2>7. entries'[k] = IF R \ {p} = {} THEN NoEntry ELSE entries[k]
      BY <2>1, <2>2, <2>5
    <2>8. refs'[entries[k]] = Cardinality(R \ {p})
      BY <2>1, <2>2, <2>5
    <2>a. TypeOK'
      <3>1. refs[entry[p]] - 1 \in Nat
        BY <2>1, <2>2, <2>5, FS_CardinalityType, ReferrersFinite, FS_EmptySet
      <3> QED BY <3>1
    <2>b. Attached'
      BY <2>1, <2>6, <2>7 DEF Attached, Referrers
    <2>c. Unshared'
      BY <2>6, <2>7 DEF Unshared
    <2>d. Counted'
      <3>1. ASSUME NEW l \in Keys, l # k, entries'[l] # NoEntry
            PROVE refs'[entries'[l]] = refs[entries[l]]
        BY <3>1, <2>1, <2>6 DEF Unshared
      <3>2. ASSUME NEW l \in Keys, entries'[l] # NoEntry
            PROVE  refs'[entries'[l]] = Cardinality(Referrers(l)') /\ Referrers(l)' # {}
        <4>1. CASE l = k
          BY <4>1, <3>2, <2>3, <2>7, <2>8
        <4>2. CASE l # k
          BY <4>2, <3>1, <3>2, <2>4, <2>6 DEF Counted
        <4> QED
          BY <4>1, <4>2
      <3> QED
        BY <3>2 DEF Counted
    <2>e. TokenOut'
      BY <2>1, <2>6, <2>7 DEF TokenOut
    <2>f. MutualExclusion'
      BY DEF MutualExclusion
    <2> QED BY <2>a, <2>b, <2>c, <2>d, <2>e, <2>f
  <1>9. CASE UNCHANGED vars
    BY <1>9 DEF vars, Attached, Unshared, Counted, TokenOut, MutualExclusion, Referrers
  <1> QED
    BY <1>1, <1>2, <1>3, <1>4, <1>5, <1>6, <1>7, <1>8, <1>9 DEF Next, Step

(***************************************************************************)
(* The keyed lock's invariant: entries, counts and tokens agree with the   *)
(* callers in every reachable state.                                       *)
(***************************************************************************)
THEOREM Invariance == Spec => []IInv
  BY InitIInv, NextIInv, PTL DEF Spec

(***************************************************************************)
(* KeyedLock.Lock and TryLock: callers of one key exclude each other.      *)
(***************************************************************************)
THEOREM Exclusion == Spec => []MutualExclusion
  <1>1. IInv => MutualExclusion
    BY DEF IInv
  <1> QED
    BY <1>1, Invariance, PTL

(***************************************************************************)
(* KeyedLock.release: an entry lives exactly as long as its callers do.    *)
(***************************************************************************)
THEOREM EntriesLifetime == Spec => []EntriesFollowCallers
  <1>1. IInv => EntriesFollowCallers
    BY DEF IInv, Attached, Counted, EntriesFollowCallers
  <1> QED
    BY <1>1, Invariance, PTL

(***************************************************************************)
(* KeyedLock.unlocker: the token's slot is free when a holder unlocks.     *)
(***************************************************************************)
THEOREM UnlockProgress == Spec => []UnlockNeverBlocks
  <1>1. IInv => UnlockNeverBlocks
    BY NoEntryIsNil DEF IInv, TypeOK, Attached, TokenOut, UnlockNeverBlocks
  <1> QED
    BY <1>1, Invariance, PTL

(***************************************************************************)
(* A step of the lock is a step of the abstract mutex or leaves its        *)
(* holders alone.                                                          *)
(***************************************************************************)
LEMMA StepSimulates == IInv /\ [Next]_vars => [Mutex!Next]_Holders
  <1> SUFFICES ASSUME IInv, [Next]_vars PROVE [Mutex!Next]_Holders
    OBVIOUS
  <1> USE NoEntryIsNil DEF IInv, TypeOK, PCs
  <1> DEFINE H(k) == {p \in Callers : pc[p] = "holding" /\ key[p] = k}
  <1>0. /\ Holders = [k \in Keys |-> H(k)]
        /\ Holders' = [k \in Keys |-> H(k)']
    BY DEF Holders
  <1>1. ASSUME NEW p \in Callers, NEW k \in Keys, LockFound(p, k) PROVE Holders' = Holders
    BY <1>1 DEF LockFound, Holders
  <1>2. ASSUME NEW p \in Callers, NEW k \in Keys, NEW e \in Entries, LockCreates(p, k, e)
        PROVE Holders' = Holders
    BY <1>2 DEF LockCreates, Holders
  <1>3. ASSUME NEW p \in Callers, Cancel(p) \/ Release(p) PROVE Holders' = Holders
    BY <1>3 DEF Cancel, Release, Holders
  <1>4. ASSUME NEW p \in Callers, NEW k \in Keys, H(k) = {}, H(k)' = {p},
               \A l \in Keys : l # k => H(l)' = H(l)
        PROVE  Mutex!Next
    <2>1. Holders[k] = {} /\ Holders' = [Holders EXCEPT ![k] = {p}]
      <3> HIDE DEF H
      <3> QED BY <1>0, <1>4
    <2> QED
      BY <2>1 DEF Mutex!Next, Mutex!Acquire
  <1>5. ASSUME NEW p \in Callers, NEW k \in Keys, TryLockFound(p, k) PROVE Mutex!Next
    <2>1. H(k) = {}
      BY <1>5 DEF TryLockFound, TokenOut
    <2>2. H(k)' = {p} /\ \A l \in Keys : l # k => H(l)' = H(l)
      BY <1>5, <2>1 DEF TryLockFound
    <2> QED
      BY <1>4, <2>1, <2>2
  <1>6. ASSUME NEW p \in Callers, NEW k \in Keys, NEW e \in Entries, TryLockCreates(p, k, e)
        PROVE Mutex!Next
    <2>1. H(k) = {}
      BY <1>6 DEF TryLockCreates, Attached
    <2>2. H(k)' = {p} /\ \A l \in Keys : l # k => H(l)' = H(l)
      BY <1>6, <2>1 DEF TryLockCreates
    <2> QED
      BY <1>4, <2>1, <2>2
  <1>7. ASSUME NEW p \in Callers, TakeToken(p) PROVE Mutex!Next
    <2>0. PICK k \in Keys : k = key[p]
      OBVIOUS
    <2>1. H(k) = {}
      BY <1>7, <2>0 DEF TakeToken, TokenOut, Attached
    <2>2. H(k)' = {p} /\ \A l \in Keys : l # k => H(l)' = H(l)
      BY <1>7, <2>0, <2>1 DEF TakeToken
    <2> QED
      BY <1>4, <2>1, <2>2
  <1>8. ASSUME NEW p \in Callers, PutToken(p) PROVE Mutex!Next
    <2>0. PICK k \in Keys : k = key[p]
      OBVIOUS
    <2>1. H(k) = {p}
      BY <1>8, <2>0 DEF PutToken, MutualExclusion
    <2>2. H(k)' = {} /\ \A l \in Keys : l # k => H(l)' = H(l)
      BY <1>8, <2>0, <2>1 DEF PutToken
    <2>3. Holders[k] = {p} /\ Holders' = [Holders EXCEPT ![k] = {}]
      <3> HIDE DEF H
      <3> QED BY <1>0, <2>1, <2>2
    <2> QED
      BY <2>3 DEF Mutex!Next, Mutex!Release
  <1>9. CASE UNCHANGED vars
    BY <1>9 DEF vars, Holders
  <1> QED
    BY <1>1, <1>2, <1>3, <1>5, <1>6, <1>7, <1>8, <1>9 DEF Next, Step

(***************************************************************************)
(* KeyedLock implements one mutex per key.                                 *)
(***************************************************************************)
THEOREM LockRefinesMutex == Spec => ImplementsMutex
  <1>1. Init => Mutex!Init
    BY DEF Init, Mutex!Init, Holders
  <1>2. IInv /\ [Next]_vars => [Mutex!Next]_Holders
    BY StepSimulates
  <1> QED
    BY <1>1, <1>2, Invariance, PTL DEF Spec, ImplementsMutex, Mutex!Spec

=============================================================================
