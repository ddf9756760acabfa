----------------------------- MODULE ActionLocks -----------------------------
(***************************************************************************)
(* The named action locks of store.py, which fence the merge queue and the *)
(* external action broker.  A holder is a job under one lease epoch.  What *)
(* JobStore says about leases is kept as far as a lock can tell: a lease   *)
(* is current, has run out (its owner may still renew it), or is gone for  *)
(* this epoch (taken over, released, job terminal).                        *)
(***************************************************************************)
EXTENDS Integers, Sequences, FiniteSets

CONSTANTS
    Holders,
    Locks,
    FREE          \* no lock row

ASSUME LocksAssumption == FREE \notin Holders

VARIABLES
    lease,        \* holder -> current, expired or gone
    lock          \* lock name -> holder or FREE

lockVars == <<lease, lock>>

LocksInit ==
    /\ lease = [h \in Holders |-> "current"]
    /\ lock = [l \in Locks |-> FREE]

LocksTypeOK ==
    /\ lease \in [Holders -> {"current", "expired", "gone"}]
    /\ lock \in [Locks -> Holders \cup {FREE}]

_job_holds_current_lease(h) == lease[h] = "current"

----------------------------------------------------------------------------

\* try_acquire_action_lock answers True: the lock is free, already this
\* holder's, or its holder's lease is no longer current.
Obtainable(l, h) ==
    lock[l] \in Holders \ {h} => ~_job_holds_current_lease(lock[l])

\* The lock after release_action_lock: only its owner frees it.
Released(l, h) == IF lock[l] = h THEN [lock EXCEPT ![l] = FREE] ELSE lock

\* Mutant of Fenced: the lease alone.
FencedByLease(l, h) == _job_holds_current_lease(h)

\* What every authoritative transition asks again in its own transaction.
Fenced(l, h) == _job_holds_current_lease(h) /\ lock[l] = h

reclaim_stale_action_lock(l) ==
    /\ lock[l] # FREE
    /\ ~_job_holds_current_lease(lock[l])
    /\ lock' = [lock EXCEPT ![l] = FREE]
    /\ UNCHANGED lease

----------------------------------------------------------------------------
(* What other components do to the leases.                                 *)

LeaseExpires(h) ==
    /\ lease[h] = "current"
    /\ lease' = [lease EXCEPT ![h] = "expired"]
    /\ UNCHANGED lock

LeaseRenewed(h) ==
    /\ lease[h] = "expired"
    /\ lease' = [lease EXCEPT ![h] = "current"]
    /\ UNCHANGED lock

LeaseGone(h) ==
    /\ lease[h] # "gone"
    /\ lease' = [lease EXCEPT ![h] = "gone"]
    /\ UNCHANGED lock

LeaseChanges == \E h \in Holders : LeaseExpires(h) \/ LeaseRenewed(h) \/ LeaseGone(h)

=============================================================================
