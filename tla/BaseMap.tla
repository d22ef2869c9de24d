------------------------------ MODULE BaseMap ------------------------------
(***************************************************************************)
(* MemoryBaseMap (src/collections/BaseMap.ts), the map behind HamokMap and *)
(* HamokQueue.  A map is a function on the keys it has.  Most methods test *)
(* a value by its truth, so a value such as 0, "" or false that is there   *)
(* counts as missing.                                                      *)
(***************************************************************************)
EXTENDS TLC, FiniteSets, Integers, Sequences

CONSTANTS Falsy,  \* values that are false in a condition
          Nil     \* undefined

NoEntries == [k \in {} |-> Nil]

Only(m, keys) == [k \in DOMAIN m \cap keys |-> m[k]]
Without(m, keys) == [k \in DOMAIN m \ keys |-> m[k]]

\* the keys at which the map holds a value that counts
Truthy(m, keys) == {k \in DOMAIN m \cap keys : m[k] \notin Falsy}

getAll(m, keys) == Only(m, Truthy(m, keys))

setAll(m, entries) ==
    [k \in DOMAIN m \cup DOMAIN entries |-> IF k \in DOMAIN entries THEN entries[k] ELSE m[k]]

\* what the callback of setAll reports as updated: the old values
Updated(m, entries) == Only(m, DOMAIN entries)

insertAll(m, entries) == getAll(m, DOMAIN entries) @@ entries @@ m

removeAll(m, keys) == Without(m, Truthy(m, keys))

\* The fields of two records; of a field that both have, the first's
Joined(f, g) == [x \in DOMAIN f \cup DOMAIN g |-> IF x \in DOMAIN f THEN f[x] ELSE g[x]]

\* What a handler does to the replica, and its answer: Nil when it sends none.
Outcome(state, answer) == [state |-> state, answer |-> answer]
=============================================================================
