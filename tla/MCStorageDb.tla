----------------------------- MODULE MCStorageDb -----------------------------
(***************************************************************************)
(* Small instances of StorageDb for TLC.                                   *)
(***************************************************************************)
EXTENDS StorageDb, TLC

CONSTANTS f1, f2, w1, w2, k1, k2, v1, e1, e2, e3, e4

\* Two fibers on two workers, and two on one.
TwoWorkers == (f1 :> w1) @@ (f2 :> w2)
OneWorker == (f1 :> w1) @@ (f2 :> w1)

\* The two fibers are alike, each with its worker; so are the entry indexes and the keys.
SwapFibers == (f1 :> f2) @@ (f2 :> f1) @@ (w1 :> w2) @@ (w2 :> w1)
KeepFibers == (f1 :> f1) @@ (f2 :> f2) @@ (w1 :> w1) @@ (w2 :> w2)
Symmetry ==
    {p @@ q @@ r : p \in {SwapFibers, KeepFibers}, q \in Permutations(Entries),
                   r \in Permutations(Keys)}
=============================================================================
