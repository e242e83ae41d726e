---------------------------- MODULE MCConnections ----------------------------
(* Instances of module Connections. *)
EXTENDS Connections

Scenario(workers, clients, max) ==
    [workers |-> workers, clients |-> clients, max_clients |-> max, tls |-> FALSE, ktls |-> FALSE,
     timeout |-> FALSE, faults |-> {}, first |-> 1, second |-> 1, files |-> FALSE,
     terminates |-> TRUE]

\* Two workers whose clients come and go while the process shuts down, with a
\* snapshot; more clients than the map has slots; listeners that fail; TLS.
MCScenarios ==
    { [Scenario(2, 2, 2) EXCEPT !.files = TRUE],
      [Scenario(1, 3, 2) EXCEPT !.timeout = TRUE],
      [Scenario(1, 2, 2) EXCEPT !.faults = {"setup", "update"}],
      [Scenario(2, 1, 2) EXCEPT !.faults = {"bind"}, !.first = 2, !.second = 2],
      [Scenario(2, 1, 2) EXCEPT !.faults = {"cbpf"}],
      [Scenario(1, 2, 2) EXCEPT !.first = 1, !.second = 2],
      [Scenario(1, 3, 3) EXCEPT !.tls = TRUE, !.ktls = TRUE, !.terminates = FALSE],
      [Scenario(2, 2, 2) EXCEPT !.tls = TRUE],
      [Scenario(1, 2, 3) EXCEPT !.tls = TRUE, !.ktls = TRUE, !.faults = {"tls_init"}] }

MCInit == InitOf(MCScenarios)
=============================================================================
