--------------------------- MODULE HamokGridCodec ---------------------------
(***************************************************************************)
(* HamokGridCodec (src/messages/HamokGridCodec.ts): the messages between   *)
(* peers as such, to and from a HamokMessage.  A message is a record of    *)
(* its type and of what its class carries; the fields have the names they  *)
(* have in a HamokMessage, but a message names what it carries in lists:   *)
(* customData and requestIds in keys, entry in embeddedMessages.           *)
(***************************************************************************)
EXTENDS BaseMap

Sequence == INSTANCE SequencesExt

Hello == {"sourceId", "destinationId", "raftLeaderId", "customData", "requestId"}

Join == {"sourceId", "destinationId"}

EndpointStates ==
    {"sourceId", "destinationId", "raftTerm", "raftCommitIndex", "raftLeaderNextIndex",
     "raftNumberOfLogs", "activeEndpointIds", "snapshot", "requestId"}

OngoingRequests == {"destinationId", "requestIds"}

SubmitRequest == {"requestId", "entry", "sourceId", "destinationId"}

SubmitResponse == {"requestId", "success", "destinationId", "raftLeaderId"}

Classes ==
    [Hello |-> Hello, Join |-> Join, EndpointStates |-> EndpointStates,
     OngoingRequests |-> OngoingRequests, SubmitRequest |-> SubmitRequest,
     SubmitResponse |-> SubmitResponse]

\* Neither undefined nor false
Given(x) == x # Nil /\ x \notin Falsy

Named == {"customData", "requestIds", "entry"}

\* An undefined set of peers becomes the empty list.
encode(m) ==
    LET fields == Classes[m.type]
        field(f) == CASE f = "activeEndpointIds" ->
                            IF m[f] = Nil THEN <<>> ELSE Sequence!SetToSeq(m[f])
                      [] f = "snapshot" -> IF Given(m[f]) THEN m[f] ELSE Nil
                      [] OTHER -> m[f]
        keys == CASE m.type = "Hello" -> IF Given(m.customData) THEN <<m.customData>> ELSE <<>>
                  [] m.type = "OngoingRequests" -> Sequence!SetToSeq(m.requestIds)
                  [] OTHER -> <<>>
    IN  Joined([type |-> m.type, keys |-> keys,
                embeddedMessages |-> IF "entry" \in fields THEN <<m.entry>> ELSE <<>>],
               [f \in fields \ Named |-> field(f)])

\* The set that is in a list
Listed(list) == {list[i] : i \in DOMAIN list}

decode(message) ==
    LET fields == Classes[message.type]
        field(f) == CASE f = "activeEndpointIds" -> Listed(message[f])
                      [] f = "customData" ->
                            IF Len(message.keys) = 1 THEN message.keys[1] ELSE Nil
                      [] f = "requestIds" -> Listed(message.keys)
                      [] f = "entry" -> IF message.embeddedMessages = <<>> THEN Nil
                                        ELSE message.embeddedMessages[1]
                      [] OTHER -> message[f]
    IN  Joined([type |-> message.type], [f \in fields |-> field(f)])
=============================================================================
