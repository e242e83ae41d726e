--------------------------- MODULE MCKeysIteration ---------------------------
(* Instances of module KeysIteration: walks against writes, counters that drifted, evictions, lists to sort. *)
EXTENDS KeysIteration, TLC

E(key, db, expires, rank) == [key |-> key, db |-> db, created |-> 1, expires |-> expires, rank |-> rank]

NoLimit == [soft |-> 0, hard |-> 0]
NoLimits == [keys |-> NoLimit, size |-> NoLimit]
Tight == [soft |-> 1, hard |-> 3]

Table(entries) == [b \in Bucket |-> IF b \in DOMAIN entries THEN entries[b] ELSE None]

Scenario(name, entries) ==
    [name |-> name, table |-> Table(entries), counted |-> [d \in 0..1 |-> 0], db |-> 0, count |-> IF name = "keys" THEN 0 ELSE 2, ttl |-> FALSE,
     limits |-> NoLimits, sizeDrift |-> 0, puts |-> {}, overwrites |-> 0, removes |-> 0, ticks |-> 0, failures |-> 0,
     sorted |-> <<>>]

a == E("a", 0, TRUE, 1)
b0 == E("b", 0, FALSE, 2)
c == E("c", 0, TRUE, 3)
d == E("d", 1, TRUE, 4)
e == E("e", 0, FALSE, 5)
f == E("f", 1, FALSE, 4)
Busy(s) ==
    {[s EXCEPT !.puts = {e}, !.removes = 1, !.ticks = 1], [s EXCEPT !.puts = {f}, !.removes = 1],
     [s EXCEPT !.removes = 1, !.overwrites = 1, !.ticks = 1], [s EXCEPT !.failures = 1, !.removes = 1]}

Walks == UNION {Busy(Scenario(name, 0 :> a @@ 2 :> d @@ 3 :> b0 @@ 6 :> c)) : name \in {"scan", "keys", "flush"}}
    \cup {[Scenario(name, 1 :> a @@ 7 :> b0) EXCEPT !.removes = 1] :
             name \in {"scan", "keys"}}

Drifts == {[Scenario(name, entries) EXCEPT !.counted[0] = drift, !.removes = 2] :
              name \in {"scan", "random"}, entries \in {<<>>, 1 :> a, 1 :> a @@ 4 :> d}, drift \in {-1, 0, 1}}

Evictions ==
    UNION {Busy([Scenario("evict", entries) EXCEPT !.ttl = ttl, !.limits.keys = Tight, !.limits.size = Tight,
                                                   !.sizeDrift = IF ttl THEN 0 ELSE -4]) :
              entries \in {0 :> a @@ 1 :> b0 @@ 5 :> c, 2 :> b0 @@ 3 :> a @@ 6 :> c}, ttl \in BOOLEAN}
    \cup {[Scenario("evict", entries) EXCEPT !.ttl = ttl, !.limits.keys = Tight, !.counted[0] = 3] :
        entries \in {1 :> a, 2 :> b0, 5 :> c, 7 :> c, <<>>, 0 :> b0 @@ 1 :> b0}, ttl \in BOOLEAN}

Sorts == {[Scenario("sort", <<>>) EXCEPT !.sorted = [i \in 0..7 |-> Candidate(g[i], i, None)]] : g \in [0..7 -> 0..1]}

MCScenarios == Walks \cup Drifts \cup Evictions \cup Sorts

MCInit == InitOf(MCScenarios)
=============================================================================
