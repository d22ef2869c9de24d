----------------------------- MODULE HamokQueue -----------------------------
(***************************************************************************)
(* The replica of a HamokQueue (src/collections/HamokQueue.ts): a map from *)
(* positions to values, and the positions of head and tail.                *)
(***************************************************************************)
EXTENDS BaseMap

LOCAL INSTANCE FiniteSetsExt

Empty == [items |-> NoEntries, head |-> 0, tail |-> 0]

IsEmpty(q) == q.head = q.tail

ClearEntries(q) ==
    Outcome([items |-> NoEntries, head |-> q.tail, tail |-> q.tail], NoEntries)

\* A push: the keys of its entries are only the order of its values, so the
\* entries are a sequence here.
InsertEntries(q, r) ==
    LET n == Len(r.entries)
        new == q.tail .. q.tail + n - 1
        items == [i \in DOMAIN q.items \cup new |->
                    IF i \in new THEN r.entries[i - q.tail + 1] ELSE q.items[i]]
    IN  Outcome([q EXCEPT !.items = items, !.tail = @ + n], NoEntries)

CanPop(q) == ~IsEmpty(q) /\ q.head \in DOMAIN q.items

\* _pop
Popped(q) == [q EXCEPT !.items = Without(@, {q.head}), !.head = @ + 1]

\* Mutant: whatever key is asked for, the head is removed.
RemoveAnyKey(q, r) ==
    IF CanPop(q) THEN Outcome(Popped(q), Only(q.items, r.keys))
    ELSE Outcome(q, NoEntries)

\* pop asks for the key it saw at the head: one that is not the head any more
\* removes nothing.
RemoveEntries(q, r) ==
    IF r.keys = {q.head} /\ CanPop(q)
    THEN Outcome(Popped(q), Only(q.items, r.keys))
    ELSE Outcome(q, NoEntries)

Apply(q, r) ==
    CASE r.type = "ClearEntries"  -> ClearEntries(q)
      [] r.type = "InsertEntries" -> InsertEntries(q, r)
      [] r.type = "RemoveEntries" -> RemoveEntries(q, r)

Export(q) == q.items

\* head and tail are taken from the keys: an empty snapshot puts both to 0, and
\* one of a single entry leaves them equal, as in an empty queue.
Import(q, snapshot) ==
    IF DOMAIN snapshot = {}
    THEN Empty
    ELSE LET low == Min(DOMAIN snapshot)
             high == Max(DOMAIN snapshot)
         IN  [items |-> snapshot, head |-> low, tail |-> IF low = high THEN low ELSE high + 1]
=============================================================================
