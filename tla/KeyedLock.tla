----------------------------- MODULE KeyedLock -----------------------------
(***************************************************************************)
(* What internal/syncutil.ExclusivePool promises its callers, with the map *)
(* of mutexes and the reference counts left out: a lock per identity that  *)
(* one goroutine at a time holds.                                          *)
(***************************************************************************)
CONSTANTS Procs,        \* goroutines
          Identities,   \* string keys, e.g. "<tenant>|<maven coordinate>"
          NoProc        \* "nobody", not a member of Procs

VARIABLE holder         \* holder[i]: the goroutine between CheckIn(i) and CheckOut(i)

Init == holder = [i \in Identities |-> NoProc]

\* CheckIn(i) returns to goroutine p, which holds nothing else.
Acquire(p, i) ==
    /\ holder[i] = NoProc
    /\ \A j \in Identities : holder[j] # p
    /\ holder' = [holder EXCEPT ![i] = p]

\* CheckOut(i) by its holder.
Release(p, i) ==
    /\ holder[i] = p
    /\ holder' = [holder EXCEPT ![i] = NoProc]

Next == \E p \in Procs, i \in Identities : Acquire(p, i) \/ Release(p, i)

Spec == Init /\ [][Next]_holder
=============================================================================
