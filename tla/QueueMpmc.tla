------------------------------ MODULE QueueMpmc ------------------------------
(***************************************************************************)
(* The queue without locks of data_structures/queue_mpmc, which takes the  *)
(* entries that are deleted during a snapshot from every worker to the one *)
(* that saves them (module Snapshot).                                      *)
(*                                                                         *)
(* It is a stack: the head counts the elements and points at the last one, *)
(* a node of a page; pages are chained both ways and are reused, never     *)
(* freed while the queue lives.  A push moves the head first and writes    *)
(* the node afterwards, a pop moves the head first and empties the node    *)
(* afterwards, so each may have to wait for the other.  The head has 128   *)
(* bits: it is exchanged at once but read in two halves, the counts and    *)
(* the page.  A step is one access to what the threads share.              *)
(***************************************************************************)
EXTENDS Integers, Sequences, FiniteSets

CONSTANTS Threads,
          Pages,        \* addresses of pages
          NodesPerPage, \* max_nodes_per_page
          Versions,     \* values of the version of the head (2^16)
          NoPage,
          Scenarios     \* the elements in the queue to begin with, at most a page, and the
                        \* calls ("push", "pop") that every thread makes: this bounds the run

VARIABLES
    head,       \* [length, version, index, page]
    pages,      \* the pages that are allocated, with prev, next and nodes
    th,         \* the threads: where they are and their local variables
    calls,      \* the calls that every thread is still to make
    popped,     \* the values that were popped, with the times they were
    freed       \* queue_mpmc_free_nodes has run

vars == <<head, pages, th, calls, popped, freed>>

Nodes == 0 .. NodesPerPage - 1
Empty == 0
EmptyNodes == [i \in Nodes |-> Empty]

Idle == [pc |-> "idle", value |-> 0, length |-> 0, version |-> 0, index |-> 0, page |-> NoPage,
         new |-> NoPage, nlength |-> 0, nindex |-> 0, npage |-> NoPage, at |-> 0, from |-> NoPage]

\* The value of a push: it tells its thread and its call.  Those in the queue to begin with
\* are negative.
Value(t) == 10 * t + Len(calls[t])
PushedValues(c) == {-1 - i : i \in 0 .. c.length - 1}
                \cup UNION {{10 * t + i : i \in 1 .. Len(c.calls[t])} : t \in Threads}

\* queue_mpmc_init_noalloc, and the elements pushed since.
InitOf(scenarios) ==
    \E p \in Pages, c \in scenarios :
        /\ \A q \in Pages : p <= q
        /\ head = [length |-> c.length, version |-> 0, index |-> c.length - 1, page |-> p]
        /\ pages = [q \in {p} |-> [prev |-> NoPage, next |-> NoPage,
                           nodes |-> [i \in Nodes |-> IF i < c.length THEN -1 - i ELSE Empty]]]
        /\ th = [t \in Threads |-> Idle]
        /\ calls = c.calls
        /\ popped = [v \in PushedValues(c) |-> 0]
        /\ freed = FALSE

Init == InitOf(Scenarios)

\* A thread makes its next call.
Calls(t, op) ==
    /\ th[t].pc = "idle" /\ calls[t] # <<>> /\ Head(calls[t]) = op
    /\ calls' = [calls EXCEPT ![t] = Tail(@)]

Goto(t, pc) == th' = [th EXCEPT ![t].pc = pc]

\* After the exchange of the head what it was expected to be is out of scope.
Swapped(t, pc) ==
    th' = [th EXCEPT ![t].pc = pc, ![t].length = 0, ![t].nlength = 0, ![t].version = 0,
                     ![t].index = 0, ![t].page = NoPage]

NextVersion(v) == (v + 1) % Versions

\* The exchange of the head succeeds.
Swaps(t) ==
    head = [length |-> th[t].length, version |-> th[t].version, index |-> th[t].index,
            page |-> th[t].page]

SwapHead(t) ==
    head' = [length |-> th[t].nlength, version |-> NextVersion(th[t].version),
             index |-> th[t].nindex, page |-> th[t].npage]

\* It fails and head_expected becomes the head.
SwapLost(t, pc) ==
    /\ ~Swaps(t)
    /\ th' = [th EXCEPT ![t].pc = pc, ![t].length = head.length, ![t].version = head.version,
                        ![t].index = head.index, ![t].page = head.page]
    /\ UNCHANGED <<head, pages>>

----------------------------------------------------------------------------
(* queue_mpmc_push.                                                        *)

Push(t) ==
    /\ Calls(t, "push")
    /\ th' = [th EXCEPT ![t] = [Idle EXCEPT !.pc = "push_load", !.value = Value(t)]]
    /\ UNCHANGED <<head, pages, popped, freed>>

\* head_expected = head: the first half ...
LoadCounts(t) ==
    /\ th[t].pc \in {"push_load", "pop_load"}
    /\ th' = [th EXCEPT ![t].pc = IF @ = "push_load" THEN "push_load_page" ELSE "pop_load_page",
                        ![t].length = head.length, ![t].version = head.version,
                        ![t].index = head.index]
    /\ UNCHANGED <<head, pages, calls, popped, freed>>

\* ... and the second.
LoadPage(t) ==
    /\ th[t].pc \in {"push_load_page", "pop_load_page"}
    /\ th' = [th EXCEPT ![t].pc = IF @ = "push_load_page" THEN "push_new" ELSE "pop_length",
                        ![t].page = head.page]
    /\ UNCHANGED <<head, pages, calls, popped, freed>>

FreePages == Pages \ DOMAIN pages

\* The next head.  When the page is full it is in the next page, which is allocated if
\* there is none; a page that was allocated in an earlier turn of the loop is used again.
PushNew(t) ==
    /\ th[t].pc = "push_new"
    /\ LET full == th[t].index = NodesPerPage - 1
           next == pages[th[t].page].next
           Prepared(new, npage, nindex) ==
               [th EXCEPT ![t].pc = "push_swap", ![t].new = new, ![t].npage = npage,
                          ![t].nindex = nindex, ![t].nlength = th[t].length + 1]
       IN \/ ~full /\ th' = Prepared(th[t].new, th[t].page, th[t].index + 1) /\ UNCHANGED pages
          \/ /\ full /\ next # NoPage
             /\ th' = Prepared(th[t].new, next, 0) /\ UNCHANGED pages
          \/ /\ full /\ next = NoPage /\ th[t].new # NoPage
             /\ th' = Prepared(th[t].new, th[t].new, 0)
             /\ pages' = [pages EXCEPT ![th[t].new].prev = th[t].page]
          \/ /\ full /\ next = NoPage /\ th[t].new = NoPage
             /\ \E p \in FreePages :
                  /\ \A q \in FreePages : p <= q
                  /\ th' = Prepared(p, p, 0)
                  /\ pages' = [q \in DOMAIN pages \cup {p} |->
                                 IF q = p THEN [prev |-> th[t].page, next |-> NoPage, nodes |-> EmptyNodes]
                                          ELSE pages[q]]
    /\ UNCHANGED <<head, calls, popped, freed>>

\* Mutant of PushSwap: the new page is not linked from the one before.
PushSwapUnlinked(t) ==
    /\ th[t].pc = "push_swap"
    /\ \/ Swaps(t) /\ SwapHead(t) /\ Swapped(t, "push_write") /\ UNCHANGED pages
       \/ SwapLost(t, "push_new")
    /\ UNCHANGED <<calls, popped, freed>>

PushSwap(t) ==
    /\ th[t].pc = "push_swap"
    /\ \/ /\ Swaps(t) /\ SwapHead(t)
          /\ Swapped(t, IF th[t].npage = th[t].new THEN "push_link" ELSE "push_write")
          /\ UNCHANGED pages
       \/ SwapLost(t, "push_new")
    /\ UNCHANGED <<calls, popped, freed>>

\* nodes_page_new->prev_page->next_page = nodes_page_new.
PushLink(t) ==
    /\ th[t].pc = "push_link"
    /\ pages' = [pages EXCEPT ![pages[th[t].new].prev].next = th[t].new]
    /\ Goto(t, "push_write")
    /\ UNCHANGED <<head, calls, popped, freed>>

\* Mutant of PushWrite: the node is written whatever is in it.
PushWriteOver(t) ==
    /\ th[t].pc = "push_write"
    /\ pages' = [pages EXCEPT ![th[t].npage].nodes[th[t].nindex] = th[t].value]
    /\ Goto(t, "push_free")
    /\ UNCHANGED <<head, calls, popped, freed>>

\* The node is written once the pop that had it before has emptied it.
PushWrite(t) ==
    /\ th[t].pc = "push_write" /\ pages[th[t].npage].nodes[th[t].nindex] = Empty
    /\ pages' = [pages EXCEPT ![th[t].npage].nodes[th[t].nindex] = th[t].value]
    /\ Goto(t, "push_free")
    /\ UNCHANGED <<head, calls, popped, freed>>

\* A page that was allocated and then not needed is freed.
PushFree(t) ==
    /\ th[t].pc = "push_free"
    /\ pages' = IF th[t].new # th[t].npage
                THEN [q \in DOMAIN pages \ {th[t].new} |-> pages[q]] ELSE pages
    /\ th' = [th EXCEPT ![t] = Idle]
    /\ UNCHANGED <<head, calls, popped, freed>>

----------------------------------------------------------------------------
(* queue_mpmc_pop.                                                         *)

Pop(t) ==
    /\ Calls(t, "pop")
    /\ th' = [th EXCEPT ![t] = [Idle EXCEPT !.pc = "pop_load"]]
    /\ UNCHANGED <<head, pages, popped, freed>>

\* The loop ends on an empty queue; otherwise head_new is read from the head again, in two
\* halves.
PopLength(t) ==
    /\ th[t].pc = "pop_length"
    /\ th' = IF th[t].length > 0
             THEN [th EXCEPT ![t].pc = "pop_page", ![t].at = head.index]
             ELSE [th EXCEPT ![t] = Idle]
    /\ UNCHANGED <<head, pages, calls, popped, freed>>

PopPage(t) ==
    /\ th[t].pc = "pop_page"
    /\ th' = [th EXCEPT ![t].pc = "pop_new", ![t].from = head.page]
    /\ UNCHANGED <<head, pages, calls, popped, freed>>

\* Mutant of Linked: it is not waited for.
LinkedAnyway(p) == TRUE

\* The link to the page after p is there: queue_mpmc_pop waits for it before the head goes
\* back to p.
Linked(p) == pages[p].next # NoPage

\* Mutant of PopNew: the last node of the page before is skipped.
PopNewShort(t) ==
    /\ th[t].pc = "pop_new"
    /\ LET prev == pages[th[t].from].prev
           back == th[t].at = 0 /\ prev # NoPage
       IN /\ back => Linked(prev)
          /\ th' = [th EXCEPT ![t].pc = "pop_swap", ![t].nlength = th[t].length - 1,
                              ![t].npage = IF back THEN prev ELSE th[t].from,
                              ![t].nindex = IF back THEN NodesPerPage - 2 ELSE th[t].at - 1]
    /\ UNCHANGED <<head, pages, calls, popped, freed>>

\* The next head: one node back, in the page before when this one has no other.
PopNew(t) ==
    /\ th[t].pc = "pop_new"
    /\ LET prev == pages[th[t].from].prev
           back == th[t].at = 0 /\ prev # NoPage
       IN /\ back => Linked(prev)
          /\ th' = [th EXCEPT ![t].pc = "pop_swap", ![t].nlength = th[t].length - 1,
                              ![t].npage = IF back THEN prev ELSE th[t].from,
                              ![t].nindex = IF back THEN NodesPerPage - 1 ELSE th[t].at - 1]
    /\ UNCHANGED <<head, pages, calls, popped, freed>>

PopSwap(t) ==
    /\ th[t].pc = "pop_swap"
    /\ \/ Swaps(t) /\ SwapHead(t) /\ Swapped(t, "pop_take") /\ UNCHANGED pages
       \/ SwapLost(t, "pop_length")
    /\ UNCHANGED <<calls, popped, freed>>

\* Mutant of PopTake: the node keeps the value.
PopTakeKeeps(t) ==
    /\ th[t].pc = "pop_take"
    /\ LET v == pages[th[t].from].nodes[th[t].at]
       IN /\ v # Empty
          /\ popped' = [popped EXCEPT ![v] = @ + 1]
    /\ th' = [th EXCEPT ![t] = Idle]
    /\ UNCHANGED <<head, pages, calls, freed>>

\* The node is emptied once the push that has it has written it.
PopTake(t) ==
    /\ th[t].pc = "pop_take"
    /\ LET v == pages[th[t].from].nodes[th[t].at]
       IN /\ v # Empty
          /\ popped' = [popped EXCEPT ![v] = @ + 1]
    /\ pages' = [pages EXCEPT ![th[t].from].nodes[th[t].at] = Empty]
    /\ th' = [th EXCEPT ![t] = Idle]
    /\ UNCHANGED <<head, calls, freed>>

----------------------------------------------------------------------------

RECURSIVE After(_), Before(_)
After(p) == IF p = NoPage THEN {} ELSE {p} \cup After(pages[p].next)
Before(p) == IF p = NoPage THEN {} ELSE {p} \cup Before(pages[p].prev)

\* queue_mpmc_free_nodes: the pages after the one of the head, that one and those before.
FreeNodes ==
    /\ ~freed /\ \A t \in Threads : th[t].pc = "idle" /\ calls[t] = <<>>
    /\ freed' = TRUE
    /\ pages' = [p \in DOMAIN pages \ (After(pages[head.page].next) \cup Before(head.page)) |-> pages[p]]
    /\ UNCHANGED <<head, th, calls, popped>>

Freed == freed /\ UNCHANGED vars

\* The loops that wait for another thread.
Spins == (\E t \in Threads : th[t].pc \in {"push_write", "pop_new", "pop_take"}) /\ UNCHANGED vars

Step(t) ==
    \/ Push(t) \/ Pop(t) \/ LoadCounts(t) \/ LoadPage(t)
    \/ PushNew(t) \/ PushSwap(t) \/ PushLink(t) \/ PushWrite(t) \/ PushFree(t)
    \/ PopLength(t) \/ PopPage(t) \/ PopNew(t) \/ PopSwap(t) \/ PopTake(t)

Next == (\E t \in Threads : Step(t)) \/ FreeNodes \/ Freed \/ Spins

\* A thread inside a call runs.
Fairness == WF_vars(\E t \in Threads : th[t].pc # "idle" /\ Step(t))

Spec == Init /\ [][Next]_vars /\ Fairness

----------------------------------------------------------------------------
(* Properties.                                                             *)

Writing == {t \in Threads : th[t].pc \in {"push_link", "push_write"}}
Taking == {t \in Threads : th[t].pc = "pop_take"}
Written == {<<p, i>> \in (DOMAIN pages) \X Nodes : pages[p].nodes[i] # Empty}
InNode(v) == {<<p, i>> \in Written : pages[p].nodes[i] = v}

\* Types of the variables.
TypeOK ==
    /\ (freed \/ head.page \in DOMAIN pages) /\ DOMAIN pages \subseteq Pages
    /\ head.length \in 0 .. Cardinality(DOMAIN popped) /\ head.index \in -1 .. NodesPerPage - 1
    /\ head.version \in 0 .. Versions - 1
    /\ \A p \in DOMAIN pages : pages[p].nodes \in [Nodes -> DOMAIN popped \cup {Empty}]

\* The head points at the element that its length counts, through the pages before: a
\* push or pop that lost its exchange, or that read the head in two halves, never moves it.
HeadExact ==
    ~freed => head.length = head.index + 1 + NodesPerPage * (Cardinality(Before(head.page)) - 1)

\* The elements that the length counts are the values written, and not yet taken, in the
\* nodes, those whose push has moved the head and not written, less those whose pop has
\* moved the head and not taken: a pop waits for its push and a push for the pop before.
LengthExact ==
    ~freed => head.length = Cardinality(Written) + Cardinality(Writing) - Cardinality(Taking)

\* No value is popped twice, and none is lost: a value whose push has returned is in one
\* node until it is popped.
PoppedOnce ==
    \A v \in DOMAIN popped :
        /\ popped[v] + Cardinality(InNode(v)) <= 1
        /\ (v < 0 /\ ~freed) => popped[v] + Cardinality(InNode(v)) = 1
        /\ ((\E t \in Threads : th[t].value = v /\ th[t].pc = "push_free") /\ ~freed) =>
              popped[v] + Cardinality(InNode(v)) = 1

\* queue_mpmc_free_nodes frees every page.  The pages chain up although the link to a new
\* page is written after the head has moved to it: a pop that would take the head back
\* over a missing link waits, else the next push would allocate a second page there and
\* the first would be lost, as it would be if an old head could be taken for the new one.
NoPageLost == freed => DOMAIN pages = {}

\* No call is under way: every call returns.
AllIdle == \A t \in Threads : th[t].pc = "idle"

=============================================================================
