------------------------ MODULE ExclusivePoolProofs ------------------------
(***************************************************************************)
(* Proofs about ExclusivePool, for any number of goroutines, keys and      *)
(* mutexes.  IInv is inductive: mutual exclusion needs to know that the    *)
(* entry of a key stays in the map as long as anybody waits on it, which   *)
(* is what counting the users exactly gives.                               *)
(***************************************************************************)
EXTENDS ExclusivePool, FiniteSetTheorems, TLAPS

\* The users of an identity are finitely many goroutines.
LEMMA UsersFinite == ASSUME NEW i \in Identities PROVE IsFiniteSet(Users(i))
  BY ProcsAssumption, FS_Subset DEF Users

\* The initial state: no users, no mutexes.
LEMMA InitIInv == Init => IInv
  <1> SUFFICES ASSUME Init PROVE IInv
    OBVIOUS
  <1> USE DEF Init, NewExclusivePool
  <1>1. TypeOK
    BY DEF TypeOK, PCs
  <1>2. DistinctMutexes /\ LockedByHolder /\ OneHolderPerMutex /\ MuIsPool
    BY DEF DistinctMutexes, LockedByHolder, OneHolderPerMutex, MuIsPool
  <1>3. LockIsDropper
    BY ProcsAssumption DEF LockIsDropper
  <1>4. \A i \in Identities : Users(i) = {}
    BY DEF Users
  <1>5. PoolIsBounded
    BY <1>4 DEF PoolIsBounded
  <1>6. CountIsUsers
    BY <1>4, FS_EmptySet DEF CountIsUsers
  <1> QED
    BY <1>1, <1>2, <1>3, <1>5, <1>6 DEF IInv

\* CheckIn's registration adds the caller to the users of its identity.
LEMMA RegisterIInv ==
    ASSUME IInv, NEW p \in Procs, NEW i \in Identities, CheckInRegister(p, i)
    PROVE  IInv'
  <1> USE DEF IInv
  <1>1. TypeOK'
    BY DEF TypeOK, CheckInRegister, Counted, PCs
  <1>2. Users(i)' = Users(i) \cup {p} /\ p \notin Users(i)
    BY DEF Users, TypeOK, CheckInRegister
  <1>3. \A j \in Identities \ {i} : Users(j)' = Users(j)
    BY DEF Users, TypeOK, CheckInRegister
  <1>4. CountIsUsers'
    <2>1. count'[i] = Cardinality(Users(i)')
      <3>1. Cardinality(Users(i) \cup {p}) = Cardinality(Users(i)) + 1
        BY <1>2, UsersFinite, FS_AddElement
      <3>2. count'[i] = count[i] + 1
        BY DEF CheckInRegister, Counted, TypeOK
      <3>3. count[i] = Cardinality(Users(i))
        BY DEF CountIsUsers
      <3> QED
        BY <1>2, <3>1, <3>2, <3>3
    <2>2. \A j \in Identities \ {i} : count'[j] = Cardinality(Users(j)')
      BY <1>3 DEF CountIsUsers, CheckInRegister, Counted, TypeOK
    <2> QED
      BY <2>1, <2>2 DEF CountIsUsers
  <1>5. PoolIsBounded'
    BY <1>2, <1>3, MutexAssumption DEF PoolIsBounded, CheckInRegister, TypeOK
  <1>6. DistinctMutexes'
    BY MutexAssumption DEF DistinctMutexes, CheckInRegister, Fresh, TypeOK
  <1>7. MuIsPool'
    <2>1. ASSUME NEW q \in Procs, q # p, pc[q] \in {"waiting", "holding"}
          PROVE  pool'[identity[q]] = pool[identity[q]]
      BY <2>1 DEF MuIsPool, CheckInRegister, TypeOK
    <2> QED
      BY <2>1, MutexAssumption DEF MuIsPool, CheckInRegister, TypeOK
  <1>8. LockedByHolder' /\ OneHolderPerMutex' /\ LockIsDropper'
    BY DEF LockedByHolder, OneHolderPerMutex, LockIsDropper, CheckInRegister, TypeOK
  <1> QED
    BY <1>1, <1>4, <1>5, <1>6, <1>7, <1>8

\* mu.Lock() changes who holds, not who uses.
LEMMA LockIInv ==
    ASSUME IInv, NEW p \in Procs, CheckInLock(p)
    PROVE  IInv'
  <1> USE DEF IInv
  <1>1. TypeOK'
    BY DEF TypeOK, CheckInLock, PCs, MuIsPool
  <1>2. \A j \in Identities : Users(j)' = Users(j)
    BY DEF Users, TypeOK, CheckInLock
  <1>3. CountIsUsers' /\ PoolIsBounded'
    BY <1>2 DEF CountIsUsers, PoolIsBounded, CheckInLock
  <1>4. DistinctMutexes' /\ MuIsPool' /\ LockIsDropper'
    BY DEF DistinctMutexes, MuIsPool, LockIsDropper, CheckInLock, TypeOK
  <1>5. LockedByHolder' /\ OneHolderPerMutex'
    BY DEF LockedByHolder, OneHolderPerMutex, CheckInLock, TypeOK, MuIsPool
  <1> QED
    BY <1>1, <1>3, <1>4, <1>5

\* Unlocking in CheckOut: the caller is still counted.
LEMMA UnlockIInv ==
    ASSUME IInv, NEW p \in Procs, CheckOutUnlock(p)
    PROVE  IInv'
  <1> USE DEF IInv
  <1>1. TypeOK'
    BY DEF TypeOK, CheckOutUnlock, PCs
  <1>2. \A j \in Identities : Users(j)' = Users(j)
    BY DEF Users, TypeOK, CheckOutUnlock
  <1>3. CountIsUsers' /\ PoolIsBounded'
    BY <1>2 DEF CountIsUsers, PoolIsBounded, CheckOutUnlock
  <1>4. DistinctMutexes' /\ MuIsPool' /\ LockIsDropper'
    BY ProcsAssumption DEF DistinctMutexes, MuIsPool, LockIsDropper, CheckOutUnlock, TypeOK
  <1>5. pool[identity[p]] = mu[p]
    BY DEF MuIsPool, CheckOutUnlock
  <1>6. LockedByHolder' /\ OneHolderPerMutex'
    BY <1>5, MutexAssumption
       DEF LockedByHolder, OneHolderPerMutex, CheckOutUnlock, UnlockedBy, TypeOK
  <1> QED
    BY <1>1, <1>3, <1>4, <1>6

\* The entry leaves the map with its last user.
LEMMA DropIInv ==
    ASSUME IInv, NEW p \in Procs, CheckOutDrop(p)
    PROVE  IInv'
  <1> USE DEF IInv
  <1> DEFINE i == identity[p]
  <1>0. i \in Identities /\ p \in Users(i)
    BY DEF TypeOK, CheckOutDrop, Users
  <1>1. Users(i)' = Users(i) \ {p}
    BY <1>0 DEF Users, TypeOK, CheckOutDrop
  <1>2. \A j \in Identities \ {i} : Users(j)' = Users(j)
    BY DEF Users, TypeOK, CheckOutDrop
  <1>3. /\ Cardinality(Users(i)) = count[i]
        /\ count[i] \in Nat \ {0}
        /\ Cardinality(Users(i) \ {p}) = count[i] - 1
    <2>1. Cardinality(Users(i)) = count[i] /\ count[i] \in Nat
      BY <1>0 DEF CountIsUsers, TypeOK
    <2>2. Cardinality(Users(i) \ {p}) = Cardinality(Users(i)) - 1
      BY <1>0, UsersFinite, FS_RemoveElement
    <2>3. Cardinality(Users(i)) # 0
      BY <1>0, UsersFinite, FS_EmptySet
    <2> QED
      BY <2>1, <2>2, <2>3
  <1>4. TypeOK'
    BY <1>0, <1>3 DEF TypeOK, CheckOutDrop, LastUser, PCs
  <1>5. CountIsUsers'
    <2>1. count'[i] = Cardinality(Users(i)')
      BY <1>0, <1>1, <1>3 DEF CheckOutDrop, LastUser, TypeOK
    <2>2. \A j \in Identities \ {i} : count'[j] = Cardinality(Users(j)')
      BY <1>2 DEF CountIsUsers, CheckOutDrop, LastUser, TypeOK
    <2> QED
      BY <2>1, <2>2 DEF CountIsUsers, CheckOutDrop
  <1>6. PoolIsBounded'
    <2>1. count[i] = 1 <=> Users(i) \ {p} = {}
      <3>1. IsFiniteSet(Users(i) \ {p})
        BY <1>0, UsersFinite, FS_RemoveElement
      <3> QED
        BY <1>3, <3>1, FS_EmptySet
    <2>2. pool[i] # NoMutex
      BY <1>0 DEF PoolIsBounded
    <2> QED
      BY <1>0, <1>1, <1>2, <2>1, <2>2 DEF PoolIsBounded, CheckOutDrop, LastUser, TypeOK
  <1>7. DistinctMutexes'
    BY <1>0 DEF DistinctMutexes, CheckOutDrop, TypeOK
  <1>8. MuIsPool'
    <2>1. ASSUME NEW q \in Procs, q # p, pc[q] \in {"waiting", "holding"}
          PROVE  pool'[identity[q]] = pool[identity[q]]
      <3>1. CASE identity[q] # i
        BY <3>1, <2>1 DEF CheckOutDrop, TypeOK
      <3>2. CASE identity[q] = i
        <4>1. q \in Users(i) \ {p}
          BY <2>1, <3>2 DEF Users
        <4>2. Users(i) \ {p} # {}
          BY <4>1
        <4>3. count[i] # 1
          <5>1. IsFiniteSet(Users(i) \ {p})
            BY <1>0, UsersFinite, FS_RemoveElement
          <5> QED
            BY <1>3, <4>2, <5>1, FS_EmptySet
        <4> QED
          BY <4>3 DEF CheckOutDrop, LastUser
      <3> QED
        BY <3>1, <3>2
    <2> QED
      BY <2>1 DEF MuIsPool, CheckOutDrop, TypeOK
  <1>9. LockedByHolder' /\ OneHolderPerMutex'
    BY DEF LockedByHolder, OneHolderPerMutex, CheckOutDrop, TypeOK
  <1>10. LockIsDropper'
    BY ProcsAssumption DEF LockIsDropper, CheckOutDrop, TypeOK
  <1> QED
    BY <1>4, <1>5, <1>6, <1>7, <1>8, <1>9, <1>10

\* IInv is an invariant of the pool: the counters, the map and the locked
\* mutexes agree with what the goroutines are doing after every step.
THEOREM Invariance == Spec => []IInv
  <1>1. IInv /\ [Next]_vars => IInv'
    <2> SUFFICES ASSUME IInv, [Next]_vars PROVE IInv'
      OBVIOUS
    <2>1. CASE UNCHANGED vars
      BY <2>1 DEF vars, IInv, TypeOK, DistinctMutexes, LockedByHolder, OneHolderPerMutex,
                  MuIsPool, LockIsDropper, PoolIsBounded, CountIsUsers, Users
    <2>2. CASE Next
      BY <2>2, RegisterIInv, LockIInv, UnlockIInv, DropIInv DEF Next
    <2> QED
      BY <2>1, <2>2
  <1> QED
    BY <1>1, InitIInv, PTL DEF Spec

\* Two goroutines never hold the same identity (CheckIn/CheckOut).
THEOREM Exclusion == Spec => []MutualExclusion
  <1>1. IInv => MutualExclusion
    BY DEF IInv, MutualExclusion, MuIsPool, OneHolderPerMutex
  <1> QED
    BY <1>1, Invariance, PTL

\* CheckOut always unlocks the mutex its CheckIn locked.
THEOREM OwnMutex == Spec => []CheckOutFindsOwnMutex
  <1>1. IInv => CheckOutFindsOwnMutex
    BY MutexAssumption DEF IInv, CheckOutFindsOwnMutex, MuIsPool, LockedByHolder, TypeOK
  <1> QED
    BY <1>1, Invariance, PTL

\* Nobody waits on a mutex that has left the map.
THEOREM NoStranded == Spec => []NoStrandedWaiter
  <1>1. IInv => NoStrandedWaiter
    BY DEF IInv, NoStrandedWaiter, MuIsPool
  <1> QED
    BY <1>1, Invariance, PTL
\* In a state with mutual exclusion, the refinement mapping names the goroutine
\* that is between CheckIn and CheckOut, if there is one.
HolderIsHolding == \A i \in Identities, p \in Procs :
    holder[i] = p <=> pc[p] = "holding" /\ identity[p] = i

HolderIsSomeone ==
    holder = [i \in Identities |-> holder[i]] /\ \A i \in Identities : holder[i] \in Procs \cup {NoProc}

\* The abstract lock's holder is the goroutine that holds the identity.
LEMMA HolderNow == MutualExclusion => HolderIsHolding /\ HolderIsSomeone
  <1> SUFFICES ASSUME MutualExclusion PROVE HolderIsHolding /\ HolderIsSomeone
    OBVIOUS
  <1>1. HolderIsSomeone
    BY DEF HolderIsSomeone, holder
  <1>2. HolderIsHolding
    <2> SUFFICES ASSUME NEW i \in Identities, NEW p \in Procs
                 PROVE holder[i] = p <=> pc[p] = "holding" /\ identity[p] = i
      BY DEF HolderIsHolding
    <2> DEFINE H(q) == pc[q] = "holding" /\ identity[q] = i
    <2>1. CASE \E q \in Procs : H(q)
      <3>1. holder[i] \in Procs /\ H(holder[i])
        BY <2>1 DEF holder
      <3> QED
        BY <3>1 DEF MutualExclusion
    <2>2. CASE ~ \E q \in Procs : H(q)
      <3>1. holder[i] = NoProc
        BY <2>2 DEF holder
      <3> QED
        BY <2>2, <3>1, ProcsAssumption
    <2> QED
      BY <2>1, <2>2
  <1> QED
    BY <1>1, <1>2

\* The same of the state after a step.
LEMMA HolderNext == MutualExclusion' => HolderIsHolding' /\ HolderIsSomeone'
  BY HolderNow, PTL

\* ExclusivePool implements KeyedLock: the return of CheckIn's Lock is Acquire,
\* CheckOut's Unlock is Release, and every other step leaves the holders alone.
THEOREM Refinement == Spec => KeyedLockSpec
  <1>1. Init => KL!Init
    BY DEF Init, KL!Init, holder
  <1>2. IInv /\ MutualExclusion /\ MutualExclusion' /\ [Next]_vars => [KL!Next]_holder
    <2> SUFFICES ASSUME IInv, MutualExclusion, MutualExclusion', [Next]_vars
                 PROVE [KL!Next]_holder
      OBVIOUS
    <2>0. HolderIsHolding /\ HolderIsSomeone /\ HolderIsHolding' /\ HolderIsSomeone'
      BY HolderNow, HolderNext
    <2>1. CASE UNCHANGED vars
      BY <2>1 DEF vars, holder
    <2>2. ASSUME NEW p \in Procs, NEW i \in Identities, CheckInRegister(p, i)
          PROVE UNCHANGED holder
      BY <2>2 DEF CheckInRegister, IInv, TypeOK, holder
    <2>3. ASSUME NEW p \in Procs, CheckInLock(p) PROVE KL!Next
      <3>1. pc[p] = "waiting" /\ pc' = [pc EXCEPT ![p] = "holding"] /\ identity' = identity
        BY <2>3 DEF CheckInLock
      <3>2. /\ pc \in [Procs -> PCs] /\ identity \in [Procs -> Identities]
            /\ identity[p] \in Identities
        BY DEF IInv, TypeOK
      <3>3. holder'[identity[p]] = p
        BY <2>0, <3>1, <3>2 DEF HolderIsHolding
      <3>4. holder[identity[p]] = NoProc
        <4>1. ASSUME NEW q \in Procs, holder[identity[p]] = q PROVE FALSE
          <5>1. pc[q] = "holding" /\ identity[q] = identity[p]
            BY <2>0, <3>2, <4>1 DEF HolderIsHolding
          <5> QED
            BY <3>1, <3>2, <5>1 DEF MutualExclusion
        <4> QED
          BY <2>0, <3>2, <4>1 DEF HolderIsSomeone
      <3>5. \A j \in Identities : holder[j] # p
        BY <2>0, <3>1 DEF HolderIsHolding
      <3>6. ASSUME NEW j \in Identities, j # identity[p] PROVE holder'[j] = holder[j]
        <4>1. \A q \in Procs : holder'[j] = q <=> holder[j] = q
          BY <2>0, <3>1, <3>2, <3>6 DEF HolderIsHolding
        <4> QED
          BY <2>0, <4>1 DEF HolderIsSomeone
      <3>7. holder' = [holder EXCEPT ![identity[p]] = p]
        BY <2>0, <3>2, <3>3, <3>6 DEF HolderIsSomeone
      <3> QED
        BY <3>2, <3>4, <3>5, <3>7 DEF KL!Next, KL!Acquire
    <2>4. ASSUME NEW p \in Procs, CheckOutUnlock(p) PROVE KL!Next
      <3>1. pc[p] = "holding" /\ pc' = [pc EXCEPT ![p] = "dropping"] /\ identity' = identity
        BY <2>4 DEF CheckOutUnlock
      <3>2. /\ pc \in [Procs -> PCs] /\ identity \in [Procs -> Identities]
            /\ identity[p] \in Identities
        BY DEF IInv, TypeOK
      <3>3. holder[identity[p]] = p
        BY <2>0, <3>1, <3>2 DEF HolderIsHolding
      <3>4. holder'[identity[p]] = NoProc
        <4>1. ASSUME NEW q \in Procs, holder'[identity[p]] = q PROVE FALSE
          <5>1. pc'[q] = "holding" /\ identity[q] = identity[p]
            BY <2>0, <3>1, <3>2, <4>1 DEF HolderIsHolding
          <5> QED
            BY <3>1, <3>2, <5>1 DEF MutualExclusion
        <4> QED
          BY <2>0, <3>2, <4>1 DEF HolderIsSomeone
      <3>5. ASSUME NEW j \in Identities, j # identity[p] PROVE holder'[j] = holder[j]
        <4>1. \A q \in Procs : holder'[j] = q <=> holder[j] = q
          BY <2>0, <3>1, <3>2, <3>5 DEF HolderIsHolding
        <4> QED
          BY <2>0, <4>1 DEF HolderIsSomeone
      <3>6. holder' = [holder EXCEPT ![identity[p]] = NoProc]
        BY <2>0, <3>2, <3>4, <3>5 DEF HolderIsSomeone
      <3> QED
        BY <3>2, <3>3, <3>6 DEF KL!Next, KL!Release
    <2>5. ASSUME NEW p \in Procs, CheckOutDrop(p) PROVE UNCHANGED holder
      BY <2>5 DEF CheckOutDrop, IInv, TypeOK, holder
    <2> QED
      BY <2>1, <2>2, <2>3, <2>4, <2>5 DEF Next
  <1> QED
    BY <1>1, <1>2, Invariance, Exclusion, PTL DEF Spec, KeyedLockSpec, KL!Spec
=============================================================================
