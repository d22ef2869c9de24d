---------------------------- MODULE HamokEmitter ----------------------------
(***************************************************************************)
(* The replica of a HamokEmitter (src/collections/HamokEmitter.ts): who is *)
(* subscribed to which event and with what metadata, a function on pairs   *)
(* of an event and a peer.  What a request carries for an event is the     *)
(* parsed metadata of a new subscription, or an update of it:              *)
(*   [update |-> FALSE, new |-> metadata, prev |-> Nil]                     *)
(*   [update |-> TRUE, new |-> newMetaData, prev |-> prevMetaData]          *)
(* Not here: clear(), whose notification goes past the log and makes each  *)
(* receiver, but not the sender, drop the sender's subscriptions.          *)
(***************************************************************************)
EXTENDS BaseMap

CONSTANT Null  \* null, which is not undefined

Empty == NoEntries

\* updatePeer refuses: there is no metadata, or not the expected one.
Refused(s, key, d) ==
    /\ key \in DOMAIN s
    /\ d.new # Null
    /\ s[key] = Nil \/ (d.prev # Nil /\ s[key] # d.prev)

\* What the metadata of the peer is afterwards.  A second subscription has no
\* newMetaData, so it leaves undefined; one without metadata at all throws, and
\* changes nothing.  An update of what is not listed is itself the metadata.
MetaData(s, key, d) ==
    CASE key \notin DOMAIN s -> IF d.update THEN d ELSE d.new
      [] key \in DOMAIN s /\ (d.new = Null \/ Refused(s, key, d)) -> s[key]
      [] key \in DOMAIN s /\ ~(d.new = Null \/ Refused(s, key, d)) ->
            IF d.update THEN d.new ELSE Nil

InsertEntries(s, r, source) ==
    LET keys == (DOMAIN r.entries) \X {source}
    IN  Outcome([k \in keys |-> MetaData(s, k, r.entries[k[1]])] @@ s,
                [e \in {f \in DOMAIN r.entries : Refused(s, <<f, source>>, r.entries[f])}
                    |-> "not-updated"])

\* removePeerFromAllEvent for every peer in peers
RemovePeers(s, peers) == Without(s, {k \in DOMAIN s : k[2] \in peers})

DeleteEntries(s, r) == Outcome(RemovePeers(s, r.keys), r.keys)

\* An unsubscription names an event, but removes its sender from every event.
RemoveEntries(s, source) == Outcome(RemovePeers(s, {source}), NoEntries)

\* cleanup asks to delete the peers that are not in the grid any more.
Departed(s, remotePeers, self) == {k[2] : k \in DOMAIN s} \ (remotePeers \cup {self})

Apply(s, r, source) ==
    CASE r.type = "InsertEntries" -> InsertEntries(s, r, source)
      [] r.type = "DeleteEntries" -> DeleteEntries(s, r)
      [] r.type = "RemoveEntries" -> RemoveEntries(s, source)

\* What JSON leaves out of a snapshot, undefined metadata, addPeer takes as null.
Export(s) == [k \in DOMAIN s |-> IF s[k] = Nil THEN Null ELSE s[k]]

\* addPeer keeps what is listed already.
Import(s, snapshot) == s @@ snapshot
=============================================================================
