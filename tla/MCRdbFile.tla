----------------------------- MODULE MCRdbFile -----------------------------
(* Instances of module RdbFile: what a snapshot writes, and files put together from the primitives. *)
EXTENDS RdbFile

K(i) == String("key", i, 0)
V(n) == String("value", n, n)
Packed(n, p) == String("value", n, p)
Entry(db, key, value, expiry) == [db |-> db, key |-> key, value |-> value, expiry |-> expiry]

Snapshot(entries, faults) == [kind |-> "snapshot", items |-> entries, faults |-> faults, size |-> 0]

Numerals == {Numeral(lead, sign, zeros, digits) :
                lead \in 0..1, sign \in {"", "-", "+"}, zeros \in 0..1,
                digits \in {0, 7, 8, 127, 128, Wide \div 2 - 1, Wide \div 2, Long \div 2, Long - Wide \div 2,
                            Long - Wide \div 2 - 1, Long - 1, Long, Long + 1}}

Sizes == {1, Low - 1, Low, Low * Byte - 1, Low * Byte, 100}

Snapshots ==
         {Snapshot(<<Entry(0, K(1), v, 0), Entry(0, K(2), V(3), 0)>>, 0) : v \in Numerals}
    \cup {Snapshot(<<Entry(0, K(k), V(n), 0), Entry(1, K(2), V(5), 21), Entry(1, K(5), V(1), 0)>>, f) :
             k \in {1, 20, 30}, n \in {0, 1, 40, 41}, f \in 0..1}
    \cup {Snapshot(<<Entry(db, K(3), V(n), x)>>, 0) : db \in {0, Low, 100, Wide - 1}, n \in Sizes, x \in {0, 1, 300, Long - 1}}

Header(n) == [kind |-> "header", version |-> Version(n)]
Str(type, key, value) == [kind |-> "string", type |-> type, key |-> key, value |-> value]
N(kind, n) == [kind |-> kind, n |-> n]
Primitives(items, size) == [kind |-> "primitives", items |-> items, faults |-> 0, size |-> size]

Files ==
    {<<Header(11), [kind |-> "aux", key |-> K(2), value |-> v], N("db", 1), N("resize", n), N("expire ms", 300),
       Str("string", K(1), v), Str("string", K(2), V(2)), N("expire", s), Str("string", K(4), V(1)), [kind |-> "eof"]>> :
        v \in {V(3), Packed(40, 20), Packed(40, 41), Packed(40, 40), Numeral(0, "", 0, 8)}, s \in {1, 3, 5}, n \in {Low * Byte, Wide - 1, Wide, Long - 1}}
    \cup {<<Header(11), Str("string", K(1), v), [kind |-> "eof"]>> : v \in {V(59), V(60), String("value", 40, 0)}}
    \cup {<<Header(11), x, Str("string", K(1), V(1)), [kind |-> "eof"]>> : x \in {N("expire ms", 300), N("expire", 1)}}
    \cup {<<Header(v), Str(type, K(1), V(1)), [kind |-> "eof"]>> : v \in {9, 11, 12}, type \in {"string", "list"}}

MCScenarios ==
    Snapshots
    \cup {Primitives(f, size) : f \in Files, size \in {5, 8, 12, 13, 14, 20, 24, 25, 31, 40, 60, 78, 100, 150, 1000}}

MCInit == InitOf(MCScenarios)
=============================================================================
