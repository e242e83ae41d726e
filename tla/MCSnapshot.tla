----------------------------- MODULE MCSnapshot -----------------------------
(***************************************************************************)
(* Small instances of Snapshot for TLC.  Six buckets in three blocks of    *)
(* two and two chunks of three: the chunks straddle the blocks, as chunks  *)
(* of 14 buckets straddle blocks of 64K.                                   *)
(***************************************************************************)
EXTENDS Snapshot, TLC

CONSTANTS w1, w2, k1, k2, e1, e2, e3

Scenario(b1, b2, ws, oc, t, c, s, f) ==
    [place |-> k1 :> b1 @@ k2 :> b2, workers |-> ws,
     bound |-> [only_if_changed |-> oc, ticks |-> t, changes |-> c, saves |-> s,
                failures |-> f]]

(***************************************************************************)
(* Two workers with a change, a SAVE and a failure; one worker with two    *)
(* changes, keys in different blocks or in the first, or with two          *)
(* snapshots in a row.                                                     *)
(***************************************************************************)
MCScenarios ==
    {Scenario(2, 4, {w1, w2}, FALSE, 1, 1, 0, 0),
     Scenario(1, 4, {w1, w2}, FALSE, 1, 0, 1, 1),
     Scenario(2, 4, {w1}, FALSE, 1, 2, 0, 0),
     Scenario(1, 4, {w1}, FALSE, 1, 2, 0, 0),
     Scenario(2, 4, {w1}, FALSE, 2, 1, 0, 1),
     Scenario(2, 3, {w1}, TRUE, 2, 1, 1, 0)}

\* Two workers and nothing else.
TwoWorkers == {Scenario(2, 4, {w1, w2}, FALSE, 1, 0, 0, 0)}
=============================================================================
