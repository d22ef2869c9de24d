--------------------------- MODULE HamokRemoteMap ---------------------------
(***************************************************************************)
(* HamokRemoteMap (src/collections/HamokRemoteMap.ts): the committed       *)
(* requests are executed by the leader on a map that lives elsewhere.  The *)
(* calls on that map are asynchronous, so a request that reads before it   *)
(* writes takes two steps, and the answer is computed from what was read.  *)
(***************************************************************************)
EXTENDS BaseMap

\* A request in the executor: how far it is, what it has read, what it will answer.
Task(index, entry) ==
    [index |-> index, entry |-> entry, stage |-> "first", read |-> NoEntries]

ClearEntries(store, task) == [store |-> NoEntries, answer |-> NoEntries]

DeleteEntries(store, task) ==
    [store |-> Without(store, task.entry.request.keys),
     answer |-> Only(store, task.entry.request.keys)]

RemoveEntries(store, task) == DeleteEntries(store, task)

\* All entries are set, those that are there already too, and the answer names none
\* of them: what was read serves the events only.
InsertEntries(store, task) ==
    [store |-> setAll(store, task.entry.request.entries), answer |-> NoEntries]

\* A conditional update must be of one entry, and is decided by what was read.
UpdateEntries(store, task) ==
    LET r == task.entry.request
        key == CHOOSE x \in DOMAIN r.entries : TRUE
        matches == /\ Cardinality(DOMAIN r.entries) = 1
                   /\ key \in DOMAIN task.read
                   /\ task.read[key] \notin Falsy
                   /\ task.read[key] = r.prev
    IN  IF r.prev = Nil
        THEN [store |-> setAll(store, r.entries), answer |-> Only(store, DOMAIN r.entries)]
        ELSE IF matches THEN [store |-> setAll(store, r.entries), answer |-> task.read]
        ELSE [store |-> store, answer |-> NoEntries]

ReadsFirst(request) ==
    \/ request.type = "InsertEntries"
    \/ request.type = "UpdateEntries" /\ request.prev # Nil

\* The first step of a request that reads.
Read(store, task) ==
    [task EXCEPT !.stage = "read", !.read = Only(store, DOMAIN task.entry.request.entries)]

\* The step that changes the external map.
Write(store, task) ==
    CASE task.entry.request.type = "ClearEntries"  -> ClearEntries(store, task)
      [] task.entry.request.type = "DeleteEntries" -> DeleteEntries(store, task)
      [] task.entry.request.type = "RemoveEntries" -> RemoveEntries(store, task)
      [] task.entry.request.type = "InsertEntries" -> InsertEntries(store, task)
      [] task.entry.request.type = "UpdateEntries" -> UpdateEntries(store, task)

\* The same in one step, for comparison.
AtOnce(store, entry) ==
    Write(store, IF ReadsFirst(entry.request) THEN Read(store, Task(0, entry))
                 ELSE Task(0, entry))
=============================================================================
