----------------------------- MODULE MCProgram -----------------------------
(* Instances of module Program. *)
EXTENDS Program

NoBound == [signals |-> 0, connections |-> 0, timers |-> 0]
Plain == [workers |-> 2, modules |-> 1, snapshots |-> FALSE, at_shutdown |-> FALSE,
          pidfile |-> "none", starts |-> TRUE, fail |-> <<"none", 0>>, bound |-> NoBound]

\* Every stage that can fail, in the main thread and in each worker.
Faults == {[Plain EXCEPT !.fail = f, !.modules = 2, !.pidfile = "free"] :
              f \in {"config", "kernel", "cpus", "db", "handler"} \X {0}}
          \cup {[Plain EXCEPT !.fail = f] :
                  f \in {"create", "ring", "files", "open", "contexts", "listeners"} \X {0, 1}}

\* A signal at any time, with a client, another owner of the pid file, ...
Signals == {[Plain EXCEPT !.pidfile = "other", !.modules = 2,
                          !.bound = [NoBound EXCEPT !.signals = 1, !.connections = 1]]}

\* ... with a snapshot at shutdown while the workers start, or, once they are
\* running, while another snapshot is.
Saves == {[Plain EXCEPT !.snapshots = TRUE, !.at_shutdown = TRUE,
                        !.bound = [NoBound EXCEPT !.signals = 1]],
          [Plain EXCEPT !.snapshots = TRUE, !.at_shutdown = TRUE, !.starts = FALSE,
                        !.bound = [NoBound EXCEPT !.signals = 1, !.timers = 1]],
          [Plain EXCEPT !.workers = 1, !.snapshots = TRUE, !.at_shutdown = TRUE, !.starts = FALSE,
                        !.bound = [signals |-> 2, connections |-> 2, timers |-> 1]]}

MCScenarios == Faults \cup Signals \cup Saves

MCInit == InitOf(MCScenarios)
=============================================================================
