---------------------------- MODULE MCHamokGrid ----------------------------
(* The instances of HamokGrid that TLC checks.                             *)
EXTENDS HamokGrid

CONSTANTS k1, k2,     \* keys
          v1, v2, v0  \* values; the last counts as false

Empty == {v0}
MessageTypes == {"SubmitMessageRequest", "SubmitMessageResponse", "OngoingRequestsNotification", "response"}

Set(m, prev) == [type |-> "UpdateEntries", entries |-> m, prev |-> prev]
Insert(m) == [type |-> "InsertEntries", entries |-> m]
Remove(keys) == [type |-> "RemoveEntries", keys |-> keys, prev |-> Nil]
Delete(keys) == [type |-> "DeleteEntries", keys |-> keys]
Clear == [type |-> "ClearEntries"]

Both == k1 :> v1 @@ k2 :> v1

\* Peer 1 leads, and no other peer is ever elected.
Steady(callers, n, operations) ==
    [peers |-> callers \cup {1}, leader |-> 1, early |-> callers \cup {1}, heirs |-> {}, callers |-> callers, calls |-> n,
     elections |-> 0, outbound |-> 1, lossy |-> {}, failing |-> FALSE, closing |-> {},
     operations |-> operations]

Changing(callers, n, operations) ==
    [Steady(callers, n, operations) EXCEPT !.peers = @ \cup {2}, !.heirs = {2}, !.elections = 1]

\* Conditional updates one behind the other at the leader, some on a closed connection;
\* calls on the external map that fail; answers in chunks to another peer; a map that was created
\* too late; an election while a request of another peer, or of the leader, is on its way.
GridSettings ==
    {[Steady({1}, 3, {Set(Both, Nil), Set(k1 :> v2, v1), Remove({k1, k2})}) EXCEPT !.closing = {1}],
     [Steady({1}, 3, {Insert(Both), Delete({k1, k2}), Clear}) EXCEPT !.failing = TRUE],
     Steady({2}, 2, {Set(Both, Nil)}),
     [Steady({2}, 1, {Set(Both, Nil)}) EXCEPT !.lossy = MessageTypes, !.early = {}],
     [Changing({3}, 1, {Set(Both, Nil)}) EXCEPT !.lossy = MessageTypes],
     Changing({1}, 2, {Set(k1 :> v1, Nil)})}

Resubmitting == {Changing({3}, 1, {Set(Both, Nil)})}

-----------------------------------------------------------------------------
(* The messages of a collection and of the grid, with every combination of *)
(* a few values of their fields.                                           *)
EntrySets == UNION {[keys -> {v1, v2}] : keys \in SUBSET {k1, k2}}

ValuesOf(f) ==
    CASE f = "keys" -> SUBSET {k1, k2}
      [] f = "entries" -> EntrySets
      [] f = "activeEndpointIds" -> {Nil, {}, {1, 2}}
      [] f = "requestIds" -> {{}, {1, 2}}
      [] f \in {"prev", "entry"} -> {Nil, v1}
      [] f \in {"snapshot", "customData"} -> {Nil, v0, v1}
      [] f \in {"storageSize", "raftCommitIndex", "raftNumberOfLogs"} -> {-1, 0, 1}
      [] f = "success" -> BOOLEAN
      [] f \in {"sourceId", "destinationId", "requestId"} -> {Nil, 1}
      [] f \in {"raftTerm", "raftLeaderNextIndex", "raftLeaderId"} -> {0, 1}

\* Each of the messages, with one field more
Extended(messages, f) ==
    UNION {{Joined(m, [x \in {f} |-> v]) : v \in ValuesOf(f)} : m \in messages}

\* The records with these fields besides what is in tags
Filled(fields, tags) ==
    LET list == Codec!encodeKeys(fields)
        filled[n \in 0 .. Len(list)] ==
            IF n = 0 THEN {tags} ELSE Extended(filled[n - 1], list[n])
    IN  filled[Len(list)]

StorageMessages ==
    UNION {UNION {Filled(Codec!Classes[t][x], [type |-> t, kind |-> x]) :
                    x \in DOMAIN Codec!Classes[t]} : t \in DOMAIN Codec!Classes}

\* The fields of endpoint states that have no more than one form are left at one value.
GridMessages ==
    (UNION {Filled(GridCodec!Classes[t], [type |-> t]) :
                t \in DOMAIN GridCodec!Classes \ {"EndpointStates"}})
    \cup Filled(GridCodec!EndpointStates \ {"raftTerm", "raftLeaderNextIndex", "sourceId"},
               [type |-> "EndpointStates", raftTerm |-> 0, raftLeaderNextIndex |-> 0, sourceId |-> 1])

\* It does not depend on the state, and is looked at in the first ones.
AtFirst == handed = {} /\ elections = 0 /\ \A c \in Calls : calls[c].status = "idle"

(* A message reaches the handlers of another peer as it was sent: empty    *)
(* maps and sets, 0, -1, false and undefined remain what they are, each    *)
(* key keeps its value.  The exceptions: an empty snapshot or custom data  *)
(* is as if there were none, no set of peers is an empty one, and encode   *)
(* (which a connection does not use for that) takes a notification to      *)
(* remove entries for one to delete them.                                  *)
Absent(m) ==
    [f \in DOMAIN m |->
        CASE f \in {"snapshot", "customData"} /\ m[f] \in Falsy -> Nil
          [] f = "activeEndpointIds" /\ m[f] = Nil -> {}
          [] f = "type" /\ m.type = "RemoveEntries" -> 
                IF m.kind = "Notification" THEN "DeleteEntries" ELSE m.type
          [] OTHER -> m[f]]

MessagesSurvive ==
    AtFirst =>
    /\ \A m \in StorageMessages : Codec!decode(Codec!encode(m)) = Absent(m)
    /\ \A m \in GridMessages : GridCodec!decode(GridCodec!encode(m)) = Absent(m)
=============================================================================
