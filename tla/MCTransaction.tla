---------------------------- MODULE MCTransaction ----------------------------
(***************************************************************************)
(* Instances of Transaction for TLC.                                       *)
(***************************************************************************)
EXTENDS Transaction, TLC

CONSTANTS t1, t2, t3, l1, l2

\* Two transactions, each on its own worker thread.
TwoThreads == t1 :> 0 @@ t2 :> 1

\* Two fibers of worker 0 and one of worker 1.
TwoFibersAndAThread == t1 :> 0 @@ t2 :> 0 @@ t3 :> 1
=============================================================================
