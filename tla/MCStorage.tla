----------------------------- MODULE MCStorage -----------------------------
(* Instances of module Storage: fibers on shards of one or two chunks, a buffered reader, a construction. *)
EXTENDS Storage, TLC

CONSTANTS f1, f2, f3, w1, w2

Chunked(backend, posix, megabytes, size, worker, faults) ==
    [kind |-> "chunks", backend |-> backend, posix |-> posix, megabytes |-> megabytes, faults |-> faults,
     size |-> size, worker |-> worker]

Sizes(a, b, c) == f1 :> a @@ f2 :> b @@ f3 :> c
Shared == f1 :> w1 @@ f2 :> w1 @@ f3 :> w2
Alone == f1 :> w1 @@ f2 :> w1 @@ f3 :> w1

MCScenarios ==
    {Chunked("file", posix, 2, Sizes(5, 3, 2), Shared, 0) : posix \in BOOLEAN}
    \cup {Chunked("file", FALSE, 2, Sizes(2, 3, 2), Alone, 1), Chunked("file", TRUE, 2, Sizes(3, 2, 0), Alone, 2),
          Chunked("file", FALSE, 4, Sizes(3, 2, 0), Shared, 1), Chunked("file", FALSE, 5, Sizes(3, 2, 0), Shared, 0)}
    \cup {Chunked("memory", FALSE, 2, Sizes(5, 3, 0), Shared, 1)}
    \cup {[kind |-> "reader", backend |-> "file", posix |-> FALSE, megabytes |-> 1, faults |-> f, size |-> Sizes(0, 0, 0),
           worker |-> Alone] : f \in 0..1}
    \cup {[kind |-> "new", backend |-> b, posix |-> FALSE, megabytes |-> 1, faults |-> 1, size |-> Sizes(0, 0, 0),
           worker |-> Alone] : b \in {"file", "memory"}}

MCInit == InitOf(MCScenarios)
=============================================================================
