---------------------------- MODULE StorageCodec ----------------------------
(***************************************************************************)
(* StorageCodec (src/messages/StorageCodec.ts): the messages of a          *)
(* collection, as its handlers see them, to and from a HamokMessage.       *)
(*                                                                         *)
(* A message is a record of its type and kind and of what its class        *)
(* carries, where the fields have the names they have in a HamokMessage,   *)
(* keys is a set and entries a function.  A HamokMessage has lists of keys *)
(* and of values instead, both empty when they are not used.  Keys and     *)
(* values themselves go through codecs that the user may supply.           *)
(***************************************************************************)
EXTENDS BaseMap

Sequence == INSTANCE SequencesExt

-----------------------------------------------------------------------------
(* What encode... puts into a HamokMessage and decode... takes out again,  *)
(* by type and kind.                                                       *)

ClearEntries ==
    [Request |-> {"requestId", "sourceId"},
     Response |-> {"requestId", "destinationId"},
     Notification |-> {"sourceId", "destinationId"}]

GetEntries ==
    [Request |-> {"requestId", "keys", "sourceId"},
     Response |-> {"requestId", "entries", "destinationId"}]

GetSize ==
    [Request |-> {"requestId", "sourceId"},
     Response |-> {"requestId", "storageSize", "destinationId"}]

GetKeys ==
    [Request |-> {"requestId", "sourceId"},
     Response |-> {"requestId", "keys", "destinationId"}]

DeleteEntries ==
    [Request |-> {"requestId", "keys", "sourceId"},
     Response |-> {"requestId", "keys", "destinationId"},
     Notification |-> {"keys", "sourceId", "destinationId"}]

RemoveEntries ==
    [Request |-> {"requestId", "keys", "prev", "sourceId"},
     Response |-> {"requestId", "entries", "destinationId"},
     Notification |-> {"keys", "sourceId", "destinationId"}]

EntriesRemoved == [Notification |-> {"entries", "sourceId", "destinationId"}]

InsertEntries ==
    [Request |-> {"requestId", "entries", "sourceId"},
     Response |-> {"requestId", "entries", "destinationId"},
     Notification |-> {"entries", "sourceId", "destinationId"}]

EntriesInserted == [Notification |-> {"entries", "sourceId", "destinationId"}]

UpdateEntries ==
    [Request |-> {"requestId", "entries", "prev", "sourceId"},
     Response |-> {"requestId", "entries", "destinationId"},
     Notification |-> {"entries", "sourceId", "destinationId"}]

\* Its entries are one key with its new value.
EntryUpdated == [Notification |-> {"entries", "prev", "sourceId", "destinationId"}]

StorageHello == [Notification |-> {"sourceId"}]

StorageState == [Notification |-> {"sourceId", "raftCommitIndex", "snapshot"}]

StorageAppliedCommit == [Notification |-> {"raftCommitIndex", "sourceId"}]

Classes ==
    [ClearEntries |-> ClearEntries, GetEntries |-> GetEntries, GetSize |-> GetSize,
     GetKeys |-> GetKeys, DeleteEntries |-> DeleteEntries,
     RemoveEntries |-> RemoveEntries, EntriesRemoved |-> EntriesRemoved,
     InsertEntries |-> InsertEntries, EntriesInserted |-> EntriesInserted,
     UpdateEntries |-> UpdateEntries, EntryUpdated |-> EntryUpdated,
     StorageHello |-> StorageHello, StorageState |-> StorageState,
     StorageAppliedCommit |-> StorageAppliedCommit]

-----------------------------------------------------------------------------
(* Sets of keys and maps, as lists.                                        *)

encodeKeys(keys) == Sequence!SetToSeq(keys)
decodeKeys(list) == {list[i] : i \in DOMAIN list}

encodeEntries(entries) ==
    LET keys == Sequence!SetToSeq(DOMAIN entries)
    IN  [keys |-> keys, values |-> [i \in DOMAIN keys |-> entries[keys[i]]]]

\* Mutant: the first key that is there twice wins, and the last value is lost.
decodeAllButLast(keys, values) ==
    [x \in {keys[i] : i \in 1 .. Len(keys) - 1} |-> values[CHOOSE i \in DOMAIN keys : keys[i] = x]]

\* A key without a value or a value without a key is dropped; of a key that is
\* there twice the last value counts.
decodeEntries(keys, values) ==
    LET n == IF Len(keys) < Len(values) THEN Len(keys) ELSE Len(values)
        last(x) == CHOOSE i \in 1 .. n :
                        keys[i] = x /\ \A j \in i + 1 .. n : keys[j] # x
    IN  [x \in {keys[i] : i \in 1 .. n} |-> values[last(x)]]

-----------------------------------------------------------------------------
Lists == {"keys", "entries"}

\* encodeXyz for the class of m.  A snapshot that counts as false is left out.
Encoded(m, as) ==
    LET fields == Classes[m.type][m.kind]
        lists == IF "keys" \in fields THEN [keys |-> encodeKeys(m.keys), values |-> <<>>]
                 ELSE IF "entries" \in fields THEN encodeEntries(m.entries)
                 ELSE [keys |-> <<>>, values |-> <<>>]
        field(f) == IF f = "snapshot" /\ m[f] \in Falsy THEN Nil ELSE m[f]
    IN  Joined([type |-> as, kind |-> m.kind], Joined(lists, [f \in fields \ Lists |-> field(f)]))

\* encode takes a RemoveEntriesNotification for a DeleteEntriesNotification.
encode(m) ==
    Encoded(m, IF m.type = "RemoveEntries" /\ m.kind = "Notification"
               THEN "DeleteEntries" ELSE m.type)

decode(message) ==
    LET fields == Classes[message.type][message.kind]
        lists == IF "keys" \in fields THEN [keys |-> decodeKeys(message.keys)]
                 ELSE IF "entries" \in fields
                 THEN [entries |-> decodeEntries(message.keys, message.values)]
                 ELSE [f \in {} |-> Nil]
    IN  Joined([f \in {"type", "kind"} \cup (fields \ Lists) |-> message[f]], lists)

\* The response to a request: to where it came from, with these keys or entries.
createResponse(request, data) ==
    LET fields == Classes[request.type].Response
    IN  Joined([type |-> request.type, kind |-> "Response", requestId |-> request.requestId,
                destinationId |-> request.sourceId],
               [f \in fields \cap (Lists \cup {"storageSize"}) |-> data])
=============================================================================
