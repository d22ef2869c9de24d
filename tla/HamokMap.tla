------------------------------ MODULE HamokMap ------------------------------
(***************************************************************************)
(* The replica of a HamokMap (src/collections/HamokMap.ts): what the       *)
(* listeners of its connection do with a committed request.  Only the peer *)
(* the request came from sends the answer.                                 *)
(***************************************************************************)
EXTENDS BaseMap

Empty == NoEntries

ClearEntries == Outcome(Empty, NoEntries)

DeleteEntries(m, r) ==
    Outcome(removeAll(m, r.keys), DOMAIN getAll(m, r.keys))

InsertEntries(m, r) ==
    Outcome(insertAll(m, r.entries), getAll(m, DOMAIN r.entries))

\* The condition of removeIf and updateIf: one key, which holds the expected value.
Expected(m, keys, prev) == \E k \in Truthy(m, keys) : keys = {k} /\ m[k] = prev

\* A conditional remove that does not apply is not answered: the caller waits
\* until its timeout.
RemoveEntries(m, r) ==
    IF r.prev # Nil /\ ~Expected(m, r.keys, r.prev)
    THEN Outcome(m, Nil)
    ELSE Outcome(removeAll(m, r.keys), getAll(m, r.keys))

UpdateEntries(m, r) ==
    CASE r.prev = Nil -> Outcome(setAll(m, r.entries), Updated(m, r.entries))
      [] r.prev # Nil /\ Cardinality(DOMAIN r.entries) # 1 -> Outcome(m, Nil)
      [] r.prev # Nil /\ Cardinality(DOMAIN r.entries) = 1 ->
            IF Expected(m, DOMAIN r.entries, r.prev)
            THEN Outcome(setAll(m, r.entries), Updated(m, r.entries))
            ELSE Outcome(m, NoEntries)

Apply(m, r) ==
    CASE r.type = "ClearEntries"  -> ClearEntries
      [] r.type = "DeleteEntries" -> DeleteEntries(m, r)
      [] r.type = "InsertEntries" -> InsertEntries(m, r)
      [] r.type = "RemoveEntries" -> RemoveEntries(m, r)
      [] r.type = "UpdateEntries" -> UpdateEntries(m, r)

Export(m) == m

Import(m, snapshot) == setAll(m, snapshot)
=============================================================================
