------------------------------- MODULE Fibers -------------------------------
(***************************************************************************)
(* The fibers of one worker: fiber/fiber.c, fiber/fiber_scheduler.c,       *)
(* worker/worker_fiber.c and the events loop of worker/worker_iouring.c.   *)
(*                                                                         *)
(* One fiber runs at a time.  fiber_scheduler_stack holds the scheduler,   *)
(* the fiber it switched to, the fiber that one switched to, and so on; a  *)
(* fiber that waits for an operation of the ring switches back and is      *)
(* switched to again by the events loop when the completion arrives.       *)
(* Registered fibers live as long as the worker and are freed with it; the *)
(* fibers of clients are started by the fiber of a listener, terminate     *)
(* themselves and are freed by whoever switched to them.                   *)
(***************************************************************************)
EXTENDS Integers, Sequences, FiniteSets, SequencesExt

CONSTANTS Listener,     \* the registered fiber that accepts clients
          Registered,   \* the registered fibers, the listener among them
          Clients,      \* the fibers of clients
          Scheduler,    \* nested_fibers_scheduler
          Nobody,       \* user_data NULL
          StackMax,     \* FIBER_SCHEDULER_STACK_MAX_SIZE
          Entries,      \* the sizes of the submission queue
          Waits         \* bound: the operations that a fiber waits for

AllFibers == Registered \cup Clients

VARIABLES
    stack,      \* fiber_scheduler_stack.list, up to index
    size,       \* fiber_scheduler_stack.size
    fb,         \* fibers: state, operations waited for, terminate, the result, times freed
    list,       \* worker_context->fibers
    joining,    \* the fiber that worker_fiber_register is starting, or Nobody
    entries,    \* the size of the submission queue
    sq,         \* operations in the submission queue
    ring,       \* operations submitted and not completed
    cq,         \* completions, oldest first
    worker,     \* "running", "terminating", "cleanup" or "ended"; "undefined" when a fiber
                \* that is freed has been switched to
    orphans     \* fibers that have left an operation behind and not waited for it

vars == <<stack, size, fb, list, joining, entries, sq, ring, cq, worker, orphans>>

Current == Last(stack)

Init ==
    /\ stack = <<Scheduler>> /\ size = 1
    /\ fb = [f \in AllFibers |-> [state |-> "none", op |-> 0, terminate |-> FALSE,
                               ret |-> 0, freed |-> 0]]
    /\ list = <<>> /\ joining = Nobody
    /\ entries \in Entries /\ sq = {} /\ ring = {} /\ cq = <<>>
    /\ worker = "running" /\ orphans = {}

----------------------------------------------------------------------------

\* Mutant of Grown: one entry is always kept free.
GrownAhead(n) == IF n + 1 > size THEN n + 1 ELSE size

\* fiber_scheduler_grow_stack: the stack grows by the entry it lacks and never shrinks.
Grown(n) == IF n > size THEN n ELSE size

\* fiber_scheduler_switch_to, up to the swap of the contexts; fs are the fibers then.
SwitchTo(f, fs) ==
    /\ stack' = Append(stack, f)
    /\ size' = Grown(Len(stack) + 1)
    /\ fb' = [fs EXCEPT ![f].state = "running"]

\* Mutant of AfterSwitchBack: the fiber is freed whether it terminates or not.
AfterSwitchBackFreed(f, fs) == [fs EXCEPT ![f].freed = @ + 1]

\* The rest of fiber_scheduler_switch_to, in the fiber below: one that terminates is freed.
AfterSwitchBack(f, fs) ==
    IF fs[f].terminate THEN [fs EXCEPT ![f].freed = @ + 1] ELSE fs

\* fiber_scheduler_switch_back
SwitchBack(fs) ==
    /\ stack' = Front(stack)
    /\ fb' = AfterSwitchBack(Current, fs)
    /\ UNCHANGED size

\* fiber_scheduler_new_fiber runs the new fiber at once.
NewFiber(f, fs) == fs[f].state = "none" /\ SwitchTo(f, fs)

\* worker_fiber_register, up to the return of fiber_scheduler_new_fiber.
Register(f) ==
    /\ stack = <<Scheduler>> /\ worker = "running" /\ joining = Nobody
    /\ joining' = f
    /\ NewFiber(f, fb)
    /\ UNCHANGED <<list, entries, sq, ring, cq, worker, orphans>>

\* The new fiber has switched back for the first time and joins the list.
Registers ==
    /\ stack = <<Scheduler>> /\ joining # Nobody
    /\ list' = Append(list, joining) /\ joining' = Nobody
    /\ UNCHANGED <<stack, size, fb, entries, sq, ring, cq, worker, orphans>>

\* The listener starts the fiber of a client, worker_network_listeners_fiber_entrypoint.
Accept(c) ==
    /\ Current = Listener /\ worker = "running" /\ fb[Listener].op > 0
    /\ fb[Listener].ret = fb[Listener].op
    /\ NewFiber(c, [fb EXCEPT ![Listener].ret = 0])
    /\ UNCHANGED <<list, joining, entries, sq, ring, cq, worker, orphans>>

\* Entries of the submission queue that are taken.
Queued == Cardinality(sq) + Cardinality({o \in sq : o.timed})

Operation(f, timed) == [fiber |-> f, op |-> fb[f].op + 1, timed |-> timed]

\* The current fiber queues an operation and waits; those of clients may have a linked
\* timeout, an entry of its own.
Wait(f, timed) ==
    /\ Current = f /\ fb[f].op < Waits /\ (timed => f \in Clients)
    /\ Queued + (IF timed THEN 2 ELSE 1) <= entries
    /\ sq' = sq \cup {Operation(f, timed)}
    /\ SwitchBack([fb EXCEPT ![f].state = "waiting", ![f].op = @ + 1, ![f].ret = 0])
    /\ UNCHANGED <<list, joining, entries, ring, cq, worker, orphans>>

\* There is an entry for the operation of a client and none for its timeout: the call fails
\* and the operation stays in the queue.
WaitFails(c) ==
    /\ Current = c /\ fb[c].op < Waits /\ c \in Clients /\ Queued + 1 = entries
    /\ sq' = sq \cup {Operation(c, FALSE)}
    /\ orphans' = orphans \cup {c}
    /\ fb' = [fb EXCEPT ![c].op = @ + 1, ![c].ret = 0]
    /\ UNCHANGED <<stack, size, list, joining, entries, ring, cq, worker>>

\* fiber_scheduler_terminate_current_fiber, and fiber_scheduler_new_fiber_entrypoint
\* switches back for the last time.
Terminate(c) ==
    /\ Current = c
    /\ SwitchBack([fb EXCEPT ![c].state = "ended", ![c].terminate = TRUE])
    /\ UNCHANGED <<list, joining, entries, sq, ring, cq, worker, orphans>>

\* A registered fiber has nothing left to do and switches back for good: the listener and
\* the periodic ones when the worker terminates, the one that loads the database before.
End(f) ==
    /\ Current = f /\ (f = Listener => worker # "running")
    /\ SwitchBack([fb EXCEPT ![f].state = "ended"])
    /\ UNCHANGED <<list, joining, entries, sq, ring, cq, worker, orphans>>

----------------------------------------------------------------------------

\* Mutant of Posted: the completion of the timeout names the fiber as well.
PostedBoth(o) ==
    LET own == [fiber |-> o.fiber, op |-> o.op]
    IN IF o.timed THEN {<<own, own>>} ELSE {<<own>>}

\* The completions of an operation: a linked timeout has one of its own, before or after,
\* whose user_data is NULL.
Posted(o) ==
    LET own == [fiber |-> o.fiber, op |-> o.op]
        timeout == [fiber |-> Nobody, op |-> 0]
    IN IF o.timed THEN {<<own, timeout>>, <<timeout, own>>} ELSE {<<own>>}

\* io_uring_support_sqe_submit_and_wait, once the completions are drained.
Submit ==
    /\ stack = <<Scheduler>> /\ joining = Nobody /\ worker \in {"running", "terminating"}
    /\ cq = <<>> /\ sq # {}
    /\ ring' = ring \cup sq /\ sq' = {}
    /\ UNCHANGED <<stack, size, fb, list, joining, entries, cq, worker, orphans>>

\* The kernel completes an operation.
Complete(o) ==
    /\ worker \in {"running", "terminating", "cleanup"}
    /\ ring' = ring \ {o}
    /\ \E c \in Posted(o) : cq' = cq \o c
    /\ UNCHANGED <<stack, size, fb, list, joining, entries, sq, worker, orphans>>

\* Mutant of ProcessEvent: a completion without a fiber is skipped and not counted.
ProcessEventUncounted ==
    /\ stack = <<Scheduler>> /\ joining = Nobody /\ worker \in {"running", "terminating"}
    /\ cq # <<>>
    /\ LET e == Head(cq)
       IN \/ e.fiber = Nobody /\ UNCHANGED <<stack, size, fb, cq, worker>>
          \/ /\ e.fiber # Nobody /\ fb[e.fiber].freed = 0
             /\ SwitchTo(e.fiber, [fb EXCEPT ![e.fiber].ret = e.op])
             /\ cq' = Tail(cq) /\ UNCHANGED worker
          \/ /\ e.fiber # Nobody /\ fb[e.fiber].freed > 0
             /\ worker' = "undefined" /\ cq' = Tail(cq) /\ UNCHANGED <<stack, size, fb>>
    /\ UNCHANGED <<list, joining, entries, sq, ring, orphans>>

\* worker_iouring_process_events: the fiber of the completion is switched to with it, one
\* without a fiber is skipped.  A fiber that is freed can be named by the operation it left
\* behind.
ProcessEvent ==
    /\ stack = <<Scheduler>> /\ joining = Nobody /\ worker \in {"running", "terminating"}
    /\ cq # <<>>
    /\ LET e == Head(cq)
       IN \/ e.fiber = Nobody /\ cq' = Tail(cq) /\ UNCHANGED <<stack, size, fb, worker>>
          \/ /\ e.fiber # Nobody /\ fb[e.fiber].freed = 0
             /\ SwitchTo(e.fiber, [fb EXCEPT ![e.fiber].ret = e.op])
             /\ cq' = Tail(cq) /\ UNCHANGED worker
          \/ /\ e.fiber # Nobody /\ fb[e.fiber].freed > 0
             /\ worker' = "undefined" /\ cq' = Tail(cq) /\ UNCHANGED <<stack, size, fb>>
    /\ UNCHANGED <<list, joining, entries, sq, ring, orphans>>

RequestTerminate ==
    /\ worker = "running" /\ worker' = "terminating"
    /\ UNCHANGED <<stack, size, fb, list, joining, entries, sq, ring, cq, orphans>>

\* The worker leaves its loop: between two rounds of events, whatever still waits.
Leave ==
    /\ worker = "terminating" /\ stack = <<Scheduler>> /\ joining = Nobody /\ cq = <<>>
    /\ worker' = "cleanup"
    /\ UNCHANGED <<stack, size, fb, list, joining, entries, sq, ring, cq, orphans>>

\* Mutant of FreeFibers: the first fiber of the list is missed.
FreeFibersButFirst ==
    [f \in AllFibers |-> IF \E i \in 2 .. Len(list) : list[i] = f THEN [fb[f] EXCEPT !.freed = @ + 1] ELSE fb[f]]

\* worker_fiber_free: every fiber of the list is freed.
FreeFibers ==
    [f \in AllFibers |-> IF f \in ToSet(list) THEN [fb[f] EXCEPT !.freed = @ + 1] ELSE fb[f]]

\* worker_cleanup: the fibers of the list go, then the ring with what is in it, then the
\* scheduler's stack.
Cleanup ==
    /\ worker = "cleanup"
    /\ fb' = FreeFibers /\ list' = <<>>
    /\ sq' = {} /\ ring' = {} /\ cq' = <<>>
    /\ stack' = <<Scheduler>> /\ size' = 0
    /\ worker' = "ended"
    /\ UNCHANGED <<joining, entries, orphans>>

Ended == worker \in {"ended", "undefined"} /\ UNCHANGED vars

\* The worker's thread, and the kernel.
Runs ==
    \/ Registers \/ ProcessEvent \/ Submit
    \/ \E f \in AllFibers, timed \in BOOLEAN : Wait(f, timed)
    \/ \E c \in Clients : WaitFails(c) \/ Terminate(c)
    \/ \E f \in Registered : End(f)

Next ==
    \/ Runs \/ RequestTerminate \/ Leave \/ Cleanup \/ Ended
    \/ \E f \in Registered : Register(f)
    \/ \E c \in Clients : Accept(c)
    \/ \E o \in ring : Complete(o)

\* The thread of the worker goes on, and a fiber gives the control back some time; for the
\* listener that has waited as often as the bound allows, when the worker terminates.
Fairness == WF_vars(Runs) /\ WF_vars(fb[Listener].op = Waits /\ RequestTerminate)

Spec == Init /\ [][Next]_vars /\ Fairness

----------------------------------------------------------------------------
(* Properties.                                                             *)

\* Types of the variables.
TypeOK ==
    /\ stack \in Seq(AllFibers \cup {Scheduler}) /\ size \in 0 .. StackMax
    /\ \A f \in AllFibers : fb[f].state \in {"none", "running", "waiting", "ended"} /\ fb[f].op \in 0 .. Waits
    /\ joining \in Registered \cup {Nobody}
    /\ worker \in {"running", "terminating", "cleanup", "ended", "undefined"}

\* Operations and completions of a fiber.
UnderWay(f) ==
    Cardinality({o \in sq \cup ring : o.fiber = f}) + Cardinality({i \in DOMAIN cq : cq[i].fiber = f})

\* Every fiber is freed at most once, whether it ends by itself or with its worker, and
\* none that is freed can be switched to again: it is neither below the one that runs nor
\* in an operation or completion, unless it had left an operation behind when its timeout
\* found the submission queue full.  The list holds no fiber that frees itself.
FreedOnce ==
    \A f \in AllFibers :
        /\ fb[f].freed <= 1
        /\ (fb[f].freed = 1 /\ worker # "ended") =>
              f \notin ToSet(stack) \cup ToSet(list) /\ (f \in orphans \/ UnderWay(f) = 0)

\* A fiber is only switched to while it waits, with the result of the operation it waits
\* for: the fibers on the stack run, the others do not, and a fiber that waits has exactly
\* one operation or completion under way.  A fiber that left an operation behind finds the
\* queue full until it ends, so it never takes one completion for another; but it is
\* switched to when it is gone.
ResumedByItsOwn ==
    /\ IsInjective(stack) /\ stack[1] = Scheduler
    /\ \A f \in AllFibers : fb[f].state = "running" <=> f \in ToSet(stack)
    /\ \A f \in AllFibers : fb[f].ret \in {0, fb[f].op}
    /\ worker \notin {"ended", "undefined"} => \A f \in AllFibers \ orphans :
          UnderWay(f) = (IF fb[f].state = "waiting" THEN 1 ELSE 0)
    /\ worker = "undefined" => orphans # {}

\* The stack of the scheduler holds the scheduler, a fiber and one that it started, and
\* never asks for more than that: FIBER_SCHEDULER_STACK_MAX_SIZE, at which the program is
\* stopped, is out of reach.
StackBounded == Len(stack) <= 3 /\ size <= 3 /\ (worker # "ended" => Len(stack) <= size)

\* A worker that ends frees every fiber but those of clients that were still waiting.
FreedAtEnd ==
    worker = "ended" => \A f \in AllFibers :
        fb[f].freed = 0 <=> (fb[f].state = "none" \/ (f \in Clients /\ fb[f].state = "waiting"))

\* A completion reaches its fiber: the scheduler gets the control back and drains the
\* completions, unless the worker leaves its loop or the listener finds the submission
\* queue full: it tries to accept again and again and never lets the queue be submitted.
ListenerSpins == Current = Listener /\ Queued = entries
NoEventLeft == cq = <<>> \/ ListenerSpins \/ worker \in {"cleanup", "ended", "undefined"}

=============================================================================
