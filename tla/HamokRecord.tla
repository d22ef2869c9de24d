---------------------------- MODULE HamokRecord ----------------------------
(***************************************************************************)
(* The replica of a HamokRecord (src/collections/HamokRecord.ts): the      *)
(* fields of an object.  Unlike HamokMap it asks whether a field is        *)
(* undefined, and compares any number of fields in a conditional update.   *)
(***************************************************************************)
EXTENDS BaseMap

CONSTANTS Coded,  \* the fields that setup.payloadsCodec has a codec for
          Codec   \* such a codec, as a value

Empty == NoEntries

\* _decodeValue parses a value; of a field with a codec it returns the codec itself.
Decoded(entries) == [k \in DOMAIN entries |-> IF k \in Coded THEN Codec ELSE entries[k]]

ClearEntries == Outcome(Empty, NoEntries)

DeleteEntries(o, r) == Outcome(Without(o, r.keys), DOMAIN o \cap r.keys)

InsertEntries(o, r) ==
    Outcome(o @@ Decoded(r.entries), Only(o, DOMAIN r.entries))

\* prevValue, which has no codecs: every field it names holds the value it gives.
Matches(o, prev) == \A k \in DOMAIN prev : k \in DOMAIN o /\ o[k] = prev[k]

\* The first listener: updateIf and updateInstanceIf, answered 'true' or 'false'.
UpdateIf(o, r) ==
    IF Matches(o, r.prev) THEN Outcome(Decoded(r.entries) @@ o, TRUE) ELSE Outcome(o, FALSE)

\* The second listener: without a previous value.
UpdateEntries(o, r) == Outcome(Decoded(r.entries) @@ o, Only(o, DOMAIN r.entries))

\* No listener answers a RemoveEntriesRequest, and no method sends one.
Apply(o, r) ==
    CASE r.type = "ClearEntries"  -> ClearEntries
      [] r.type = "DeleteEntries" -> DeleteEntries(o, r)
      [] r.type = "InsertEntries" -> InsertEntries(o, r)
      [] r.type = "UpdateEntries" /\ r.prev # Nil -> UpdateIf(o, r)
      [] r.type = "UpdateEntries" /\ r.prev = Nil -> UpdateEntries(o, r)

Export(o) == o

Import(o, snapshot) == Decoded(snapshot) @@ o
=============================================================================
