---------------------------- MODULE MCQueueMpmc ----------------------------
(* Instances of module QueueMpmc: pushes and pops around the end of a page. *)
EXTENDS QueueMpmc

MCScenarios ==
    {[length |-> 2, calls |-> <<<<"push">>, <<"pop">>, <<"push", "pop">>>>],
     [length |-> 2, calls |-> <<<<"push">>, <<"push", "pop">>, <<>>>>],
     [length |-> 1, calls |-> <<<<"push">>, <<"push", "pop">>, <<>>>>],
     [length |-> 0, calls |-> <<<<"push">>, <<"pop">>, <<"push", "pop">>>>]}

MCInit == InitOf(MCScenarios)
====
