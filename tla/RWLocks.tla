------------------------------- MODULE RWLocks -------------------------------
(***************************************************************************)
(* What the transactional read-write spinlocks promise to the code that    *)
(* uses them: shared readers, an exclusive writer that may still have the  *)
(* lock for reading itself, and two strict phases per transaction - locks  *)
(* are taken while it grows, given back only by transaction_release, and   *)
(* none is taken after that.                                               *)
(***************************************************************************)
CONSTANTS Spinlocks, Transactions

VARIABLES readers,   \* the transactions that have each lock for reading
          writers,   \* the transactions that have each lock for writing
          phase      \* "none", "growing" or "shrinking"

lockVars == <<readers, writers, phase>>

Init ==
    /\ readers = [l \in Spinlocks |-> {}]
    /\ writers = [l \in Spinlocks |-> {}]
    /\ phase = [t \in Transactions |-> "none"]

Acquire(t) ==
    /\ phase[t] = "none"
    /\ phase' = [phase EXCEPT ![t] = "growing"]
    /\ UNCHANGED <<readers, writers>>

LockForRead(t, l) ==
    /\ phase[t] = "growing"
    /\ writers[l] = {}
    /\ readers' = [readers EXCEPT ![l] = @ \cup {t}]
    /\ UNCHANGED <<writers, phase>>

\* transaction_lock_for_write, and transaction_upgrade_lock_for_write when t reads l.
LockForWrite(t, l) ==
    /\ phase[t] = "growing"
    /\ writers[l] = {}
    /\ readers[l] \subseteq {t}
    /\ writers' = [writers EXCEPT ![l] = {t}]
    /\ UNCHANGED <<readers, phase>>

ReleaseBegin(t) ==
    /\ phase[t] = "growing"
    /\ phase' = [phase EXCEPT ![t] = "shrinking"]
    /\ UNCHANGED <<readers, writers>>

ReleaseRead(t, l) ==
    /\ phase[t] = "shrinking"
    /\ t \in readers[l]
    /\ readers' = [readers EXCEPT ![l] = @ \ {t}]
    /\ UNCHANGED <<writers, phase>>

ReleaseWrite(t, l) ==
    /\ phase[t] = "shrinking"
    /\ t \in writers[l]
    /\ writers' = [writers EXCEPT ![l] = @ \ {t}]
    /\ UNCHANGED <<readers, phase>>

\* The end of transaction_release: every lock has been given back.
ReleaseEnd(t) ==
    /\ phase[t] = "shrinking"
    /\ \A l \in Spinlocks : t \notin readers[l] \cup writers[l]
    /\ phase' = [phase EXCEPT ![t] = "none"]
    /\ UNCHANGED <<readers, writers>>

Next ==
    \E t \in Transactions :
        \/ Acquire(t)
        \/ ReleaseBegin(t)
        \/ ReleaseEnd(t)
        \/ \E l \in Spinlocks :
              \/ LockForRead(t, l)
              \/ LockForWrite(t, l)
              \/ ReleaseRead(t, l)
              \/ ReleaseWrite(t, l)

Spec == Init /\ [][Next]_lockVars
=============================================================================
