----------------------------- MODULE MCHashtable -----------------------------
(***************************************************************************)
(* Small instances of Hashtable for TLC.                                   *)
(***************************************************************************)
EXTENDS Hashtable, TLC

CONSTANTS t1, t2, k1, k2, k3, v1, v2

\* k1 and k2 have the same home chunk, k3 the next one.
HomeShared == (k1 :> 0) @@ (k2 :> 0)
QuarterShared == (k1 :> 1) @@ (k2 :> 1)
DatabasesShared == (k1 :> 0) @@ (k2 :> 0)

HomeTwo == (k1 :> 0) @@ (k2 :> 0) @@ (k3 :> 1)
QuarterTwo == (k1 :> 0) @@ (k2 :> 1) @@ (k3 :> 1)
DatabasesTwo == (k1 :> 0) @@ (k2 :> 1) @@ (k3 :> 0)

TransactionSymmetry == Permutations({t1, t2})
=============================================================================
