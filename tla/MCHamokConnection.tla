------------------------- MODULE MCHamokConnection -------------------------
(* The instances of HamokConnection that TLC checks.                       *)
EXTENDS HamokConnection

CONSTANTS k, l, c, zero, a, b, ev, ew

FalsyValues == {zero}
CodedFields == {c}
Value(key, v) == key :> v

Set(m, prev) == [type |-> "UpdateEntries", entries |-> m, prev |-> prev]
Insert(m) == [type |-> "InsertEntries", entries |-> m]
Remove(keys, prev) == [type |-> "RemoveEntries", keys |-> keys, prev |-> prev]
Delete(keys) == [type |-> "DeleteEntries", keys |-> keys]
Clear == [type |-> "ClearEntries"]
Subscription(meta) == [update |-> FALSE, new |-> meta, prev |-> Nil]
MetaUpdate(new, prev) == [update |-> TRUE, new |-> new, prev |-> prev]

MapOperations == {Set(k :> a @@ l :> zero, Nil), Set(k :> b, a), Remove({k}, b)}
RecordOperations ==
    {Set(k :> a @@ l :> a @@ c :> a, Nil), Set(l :> b, k :> a @@ l :> a), Delete({k, l})}
QueueOperations == {Insert(<<a, b>>), [type |-> "pop"], Clear}
EmitterOperations ==
    {Insert(ev :> Subscription(Null) @@ ew :> Subscription(a)),
     Insert(ev :> MetaUpdate(b, Null)), Remove({ev}, Nil)}

AllKinds == {"map", "record", "queue", "emitter"}

Setting(kd, founders, late, n) ==
    [kind |-> kd, founders |-> founders, late |-> late, calls |-> n, outbound |-> 0,
     operations |-> CASE kd = "map"     -> MapOperations
                      [] kd = "record"  -> RecordOperations
                      [] kd = "queue"   -> QueueOperations
                      [] kd = "emitter" -> EmitterOperations]

\* Two callers; one joiner of a collection with a caller, with one call more for
\* a queue, where a single element is a boundary; two joiners that may answer each
\* other; and calls split into batches.
AllSettings ==
    {Setting(kd, {1, 2}, {}, 3) : kd \in AllKinds}
    \cup {Setting(kd, {1}, {3}, IF kd = "queue" THEN 3 ELSE 2) : kd \in AllKinds}
    \cup {[Setting("queue", {1}, {2, 3}, 1) EXCEPT !.operations = {Insert(<<a>>)}]}
    \cup {[Setting("map", {1, 2}, {}, 3) EXCEPT !.outbound = 1]}
MapJoiner == {Setting("map", {1}, {3}, 2)}
=============================================================================
