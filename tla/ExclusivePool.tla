--------------------------- MODULE ExclusivePool ---------------------------
(***************************************************************************)
(* internal/syncutil/exclusive_pool.go: a reference-counted map of mutexes *)
(* that serialises work by a string key (one maven coordinate, one nuget   *)
(* id, one repository signing key).                                        *)
(*                                                                         *)
(* The code holds p.lock over every access to pool and count, but takes    *)
(* the per-key mutex after releasing it, and releases the per-key mutex    *)
(* before it looks at the count.  Both gaps are steps of their own here:   *)
(* another goroutine can lock the mutex between the Unlock and the count   *)
(* test of CheckOut.                                                       *)
(***************************************************************************)
EXTENDS Naturals, FiniteSets

CONSTANTS Procs,        \* goroutines (one per request)
          Identities,   \* keys
          Mutexes,      \* addresses a *sync.Mutex may have
          NoProc, NoMutex

ASSUME ProcsAssumption == IsFiniteSet(Procs) /\ NoProc \notin Procs
ASSUME MutexAssumption == NoMutex \notin Mutexes

VARIABLES
    pool,      \* pool[i]: the live mutex of i, NoMutex when i is not a key of the map
    count,     \* count[i]: the counter of i, 0 when i is not a key of the map
    lock,      \* who holds p.lock across steps
    locked,    \* the mutexes that are locked
    pc,        \* where each goroutine is
    identity,  \* the argument of its current call
    mu         \* the mutex its CheckIn waits on or locked; CheckOut does not
               \* read it (the code's local variable is gone by then)

vars == <<pool, count, lock, locked, pc, identity, mu>>

PCs == {"idle", "waiting", "holding", "dropping"}

TypeOK ==
    /\ pool \in [Identities -> Mutexes \cup {NoMutex}]
    /\ count \in [Identities -> Nat]
    /\ lock \in Procs \cup {NoProc}
    /\ locked \subseteq Mutexes
    /\ pc \in [Procs -> PCs]
    /\ identity \in [Procs -> Identities]
    /\ mu \in [Procs -> Mutexes \cup {NoMutex}]

\* NewExclusivePool: both maps empty.
NewExclusivePool ==
    /\ pool = [i \in Identities |-> NoMutex]
    /\ count = [i \in Identities |-> 0]

Init ==
    /\ NewExclusivePool
    /\ lock = NoProc
    /\ locked = {}
    /\ pc = [p \in Procs |-> "idle"]
    /\ identity \in [Procs -> Identities]
    /\ mu = [p \in Procs |-> NoMutex]

\* &sync.Mutex{}: an address nothing in the program refers to; a collected
\* mutex's address may come back.
Fresh(m) ==
    /\ m \notin locked
    /\ \A i \in Identities : pool[i] # m
    /\ \A p \in Procs : mu[p] # m

\* p.count[identity]++
NotCounted(i) == IF count[i] = 0 THEN [count EXCEPT ![i] = 1] ELSE count
Counted(i) == [count EXCEPT ![i] = @ + 1]

\* CheckIn up to p.lock.Unlock(): find or make the mutex, count the caller.
CheckInRegister(p, i) ==
    /\ pc[p] = "idle"
    /\ lock = NoProc
    /\ \/ /\ pool[i] # NoMutex
          /\ mu' = [mu EXCEPT ![p] = pool[i]]
          /\ UNCHANGED pool
       \/ /\ pool[i] = NoMutex
          /\ \E m \in Mutexes :
                /\ Fresh(m)
                /\ pool' = [pool EXCEPT ![i] = m]
                /\ mu' = [mu EXCEPT ![p] = m]
    /\ count' = Counted(i)
    /\ identity' = [identity EXCEPT ![p] = i]
    /\ pc' = [pc EXCEPT ![p] = "waiting"]
    /\ UNCHANGED <<lock, locked>>

\* CheckIn's mu.Lock(), outside p.lock.
CheckInLock(p) ==
    /\ pc[p] = "waiting"
    /\ mu[p] \notin locked
    /\ locked' = locked \cup {mu[p]}
    /\ pc' = [pc EXCEPT ![p] = "holding"]
    /\ UNCHANGED <<pool, count, lock, identity, mu>>

\* The test that decides whether CheckOut deletes the entry.
LastUserOffByOne(i) == count[i] <= 2
LastUser(i) == count[i] = 1

\* The mutex CheckOut unlocks, as a set.
NothingUnlocked(p) == {}
UnlockedBy(p) == {pool[identity[p]]}

\* CheckOut: p.lock.Lock(), then p.pool[identity].Unlock().
CheckOutUnlock(p) ==
    /\ pc[p] = "holding"
    /\ lock = NoProc
    /\ lock' = p
    /\ locked' = locked \ UnlockedBy(p)
    /\ pc' = [pc EXCEPT ![p] = "dropping"]
    /\ mu' = [mu EXCEPT ![p] = NoMutex]
    /\ UNCHANGED <<pool, count, identity>>

\* CheckOut: drop the entry when this was the last reference, else count down;
\* the deferred p.lock.Unlock().
CheckOutDrop(p) ==
    LET i == identity[p] IN
    /\ pc[p] = "dropping"
    /\ IF LastUser(i)
         THEN /\ pool' = [pool EXCEPT ![i] = NoMutex]
              /\ count' = [count EXCEPT ![i] = 0]
         ELSE /\ count' = [count EXCEPT ![i] = @ - 1]
              /\ UNCHANGED pool
    /\ lock' = NoProc
    /\ pc' = [pc EXCEPT ![p] = "idle"]
    /\ UNCHANGED <<locked, identity, mu>>

Next == \E p \in Procs :
    \/ \E i \in Identities : CheckInRegister(p, i)
    \/ CheckInLock(p)
    \/ CheckOutUnlock(p)
    \/ CheckOutDrop(p)

\* A caller defers CheckOut and its critical section ends, so every call of
\* CheckOut runs; p.lock and the per-key mutexes are Go mutexes, whose
\* starvation mode hands a lock to the longest waiter: strong fairness.
Fairness == \A p \in Procs :
    /\ SF_vars(CheckInLock(p))
    /\ SF_vars(CheckOutUnlock(p))
    /\ WF_vars(CheckOutDrop(p))

Spec == Init /\ [][Next]_vars
FairSpec == Spec /\ Fairness

-----------------------------------------------------------------------------
\* The goroutines that count[i] stands for.
Users(i) == {p \in Procs : pc[p] # "idle" /\ identity[p] = i}

\* "Concurrent calls to CheckIn with the same identity block one another":
\* two goroutines between CheckIn and CheckOut hold different identities.
MutualExclusion == \A p, q \in Procs :
    pc[p] = "holding" /\ pc[q] = "holding" /\ identity[p] = identity[q] => p = q

\* CheckOut looks the mutex up again instead of remembering it: it must find
\* the very mutex its CheckIn locked, or it unlocks someone else's (or panics).
CheckOutFindsOwnMutex == \A p \in Procs :
    pc[p] = "holding" => pool[identity[p]] = mu[p] /\ mu[p] \in locked

\* "Memory is bounded by the number of concurrently-active identities": the
\* map has an entry exactly for the identities someone waits on or holds.
PoolIsBounded == \A i \in Identities :
    pool[i] # NoMutex <=> Users(i) # {}

\* count is the number of goroutines waiting on or holding the key.
CountIsUsers == \A i \in Identities : count[i] = Cardinality(Users(i))

\* A goroutine never waits on a mutex that has left the map, where no later
\* CheckOut would wake it and a newcomer would not exclude it.
NoStrandedWaiter == \A p \in Procs :
    pc[p] = "waiting" => mu[p] = pool[identity[p]] /\ mu[p] # NoMutex

\* Every CheckIn returns.
CheckInReturns == \A p \in Procs : pc[p] = "waiting" ~> pc[p] = "holding"

\* The pool implements a lock per identity.
holder == [i \in Identities |->
    IF \E p \in Procs : pc[p] = "holding" /\ identity[p] = i
      THEN CHOOSE p \in Procs : pc[p] = "holding" /\ identity[p] = i
      ELSE NoProc]

KL == INSTANCE KeyedLock WITH holder <- holder
KeyedLockSpec == KL!Spec

-----------------------------------------------------------------------------
\* The inductive invariant: what count and pool say about the goroutines, and
\* which goroutine each locked mutex belongs to.
DistinctMutexes == \A i, j \in Identities :
    pool[i] # NoMutex /\ pool[i] = pool[j] => i = j

LockedByHolder == \A m \in Mutexes :
    m \in locked <=> \E p \in Procs : pc[p] = "holding" /\ mu[p] = m

OneHolderPerMutex == \A p, q \in Procs :
    pc[p] = "holding" /\ pc[q] = "holding" /\ mu[p] = mu[q] => p = q

MuIsPool == \A p \in Procs :
    IF pc[p] \in {"waiting", "holding"}
      THEN mu[p] = pool[identity[p]] /\ mu[p] # NoMutex
      ELSE mu[p] = NoMutex

LockIsDropper == \A p \in Procs : pc[p] = "dropping" <=> lock = p

IInv ==
    /\ TypeOK
    /\ DistinctMutexes
    /\ LockedByHolder
    /\ OneHolderPerMutex
    /\ MuIsPool
    /\ LockIsDropper
    /\ PoolIsBounded
    /\ CountIsUsers
=============================================================================
