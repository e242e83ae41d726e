----------------------------- MODULE KeyValueMap -----------------------------
(***************************************************************************)
(* What the concurrent hashtable promises to the storage layer: a map from *)
(* keys to values whose operations take effect at one instant, called from *)
(* transactions that are isolated from each other.  A key that one live    *)
(* transaction has read cannot be changed by another, and a value that one *)
(* live transaction wrote cannot be read or changed by another.            *)
(*                                                                         *)
(* The isolation has one gap, which the map states openly: that a key is   *)
(* missing may be learned while the transaction that deleted it is alive.  *)
(***************************************************************************)
CONSTANTS Transactions, Keys, Values, NoValue, NoReply, Failed

VARIABLES map,     \* the value of every key, NoValue when it has none
          reads,   \* the keys each live transaction has read
          claims,  \* the keys each live transaction has written or locked
          reply    \* what the last operation of each transaction returned

mapVars == <<map, reads, claims, reply>>

Init ==
    /\ map = [k \in Keys |-> NoValue]
    /\ reads = [t \in Transactions |-> {}]
    /\ claims = [t \in Transactions |-> {}]
    /\ reply = [t \in Transactions |-> NoReply]

Others(t) == Transactions \ {t}

\* An operation starts.
Begin(t) ==
    /\ reply' = [reply EXCEPT ![t] = NoReply]
    /\ UNCHANGED <<map, reads, claims>>

\* hashtable_mcmp_op_get, and a delete that finds nothing.
Read(t, k) ==
    /\ map[k] # NoValue => \A u \in Others(t) : k \notin claims[u]
    /\ reads' = [reads EXCEPT ![t] = @ \cup {k}]
    /\ reply' = [reply EXCEPT ![t] = map[k]]
    /\ UNCHANGED <<map, claims>>

\* hashtable_mcmp_op_rmw_begin: a read that keeps everybody else away.
Claim(t, k) ==
    /\ \A u \in Others(t) : k \notin reads[u] \cup claims[u]
    /\ claims' = [claims EXCEPT ![t] = @ \cup {k}]
    /\ reply' = [reply EXCEPT ![t] = map[k]]
    /\ UNCHANGED <<map, reads>>

\* hashtable_mcmp_op_set, _delete and the commits of a read-modify-write.
Write(t, k, v) ==
    /\ \A u \in Others(t) : k \notin reads[u] \cup claims[u]
    /\ map' = [map EXCEPT ![k] = v]
    /\ claims' = [claims EXCEPT ![t] = @ \cup {k}]
    /\ reply' = [reply EXCEPT ![t] = map[k]]
    /\ UNCHANGED reads

\* A lock could not be taken in time, or no slot was free.
Fail(t) ==
    /\ reply' = [reply EXCEPT ![t] = Failed]
    /\ UNCHANGED <<map, reads, claims>>

\* The transaction releases its locks.
End(t) ==
    /\ reads' = [reads EXCEPT ![t] = {}]
    /\ claims' = [claims EXCEPT ![t] = {}]
    /\ reply' = [reply EXCEPT ![t] = NoReply]
    /\ UNCHANGED map

Next ==
    \E t \in Transactions :
        \/ Begin(t)
        \/ Fail(t)
        \/ End(t)
        \/ \E k \in Keys :
              \/ Read(t, k)
              \/ Claim(t, k)
              \/ \E v \in Values \cup {NoValue} : Write(t, k, v)

Spec == Init /\ [][Next]_mapVars
=============================================================================
