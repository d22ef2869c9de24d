---------------------------- MODULE Collections ----------------------------
(***************************************************************************)
(* The four replicated collections behind one set of operators: what       *)
(* HamokConnection's events 'ClearEntriesRequest' ... 'remote-snapshot'    *)
(* reach, whichever collection listens to them.                            *)
(***************************************************************************)
EXTENDS BaseMap

CONSTANTS Null,   \* null
          Coded,  \* the fields of a record with a codec of their own
          Codec   \* such a codec, as a value

Map == INSTANCE HamokMap
Record == INSTANCE HamokRecord
Queue == INSTANCE HamokQueue
Emitter == INSTANCE HamokEmitter

Empty(kind) == IF kind = "queue" THEN Queue!Empty ELSE NoEntries

\* The switch of accept: a request goes to the listener of its type.
Apply(kind, state, request, source) ==
    CASE kind = "map"     -> Map!Apply(state, request)
      [] kind = "record"  -> Record!Apply(state, request)
      [] kind = "queue"   -> Queue!Apply(state, request)
      [] kind = "emitter" -> Emitter!Apply(state, request, source)

Export(kind, state) ==
    CASE kind = "map"     -> Map!Export(state)
      [] kind = "record"  -> Record!Export(state)
      [] kind = "queue"   -> Queue!Export(state)
      [] kind = "emitter" -> Emitter!Export(state)

\* A collection that has not joined is empty when the snapshot comes.
Import(kind, snapshot) ==
    CASE kind = "map"     -> Map!Import(Empty(kind), snapshot)
      [] kind = "record"  -> Record!Import(Empty(kind), snapshot)
      [] kind = "queue"   -> Queue!Import(Empty(kind), snapshot)
      [] kind = "emitter" -> Emitter!Import(Empty(kind), snapshot)

NoRequest == [type |-> "none"]
=============================================================================
