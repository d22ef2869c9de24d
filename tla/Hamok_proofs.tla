---------------------------- MODULE Hamok_proofs ----------------------------
(***************************************************************************)
(* What the grid keeps in order, for any number of peers, any messages on  *)
(* the way and any timers: whoever is out of the grid stands still, only a *)
(* leader judges others by their silence, an open storage gets its         *)
(* messages, whom a peer knows are other peers of the grid, while its      *)
(* first leader reigns, a follower knows whom the leader knows, and, if    *)
(* its log is long and nothing expires, who comes late resets its own log  *)
(* to what is committed.                                                   *)
(***************************************************************************)
EXTENDS Hamok, FiniteSetTheorems, WellFoundedInduction, TLAPS

Fields == {"id", "closed", "run", "timer", "joining", "retries", "retried", "aborted", "leaving",
           "leaderId", "term", "remotePeers", "heard", "stale", "log", "nextIndex", "storages",
           "registered", "out"}

\* What holds of a peer also in the middle of a handler: a join waits only without a
\* leader, and only while the peer is in the grid or closed, when it gives up.
Sound(h) ==
    /\ DOMAIN h = Fields
    /\ h.id \in Peers
    /\ h.joining \in Joining
    /\ h.heard # {} => h.leaderId = h.id
    /\ h.joining = "waiting" => h.leaderId = Nil /\ (h.run \/ h.closed)
    /\ h.closed => ~h.run

\* The engine of a peer runs only in the grid, and without engine there is no leader.
Stands(h) == /\ ~h.timer => h.leaderId = Nil
             /\ ~h.run => ~h.timer

PeerOK(h) == Sound(h) /\ Stands(h)

Inv ==
    /\ DOMAIN peer = Peers
    /\ \A p \in Peers : PeerOK(peer[p]) /\ peer[p].id = p

-----------------------------------------------------------------------------
(* What the parts of the handlers do to a peer.                            *)

\* Only what the invariant does not speak of is different.
Alike(g, h) ==
    /\ DOMAIN g = Fields
    /\ g.id = h.id /\ g.joining = h.joining /\ g.heard = h.heard /\ g.leaderId = h.leaderId
    /\ g.run = h.run /\ g.closed = h.closed /\ g.timer = h.timer

LEMMA AlikeOK ==
    ASSUME NEW g, NEW h, PeerOK(h), Alike(g, h) PROVE PeerOK(g)
BY DEF PeerOK, Sound, Stands, Alike

LEMMA SendingOK ==
    ASSUME NEW h, PeerOK(h), NEW m PROVE PeerOK(Emit(h, m)) /\ Alike(Emit(h, m), h)
BY AlikeOK DEF Emit, Alike, PeerOK, Sound, Fields

LEMMA RemotePeersOK ==
    ASSUME NEW h, DOMAIN h = Fields, NEW qs
    PROVE  Alike(AddPeers(h, qs), h) /\ Alike(RemovePeers(h, qs), h)
BY DEF AddPeers, RemovePeers, Alike, Fields

\* Only the log, and what is known of the logs of others, is different.
SameButLogs(g, h) ==
    /\ DOMAIN g = Fields
    /\ g.id = h.id /\ g.closed = h.closed /\ g.run = h.run /\ g.timer = h.timer
    /\ g.joining = h.joining /\ g.leaderId = h.leaderId /\ g.term = h.term
    /\ g.remotePeers = h.remotePeers /\ g.heard = h.heard /\ g.stale = h.stale
    /\ g.storages = h.storages /\ g.registered = h.registered /\ g.out = h.out

(* A request and a response change what is known of logs only.             *)
LEMMA LogsOnly ==
    ASSUME NEW h, DOMAIN h = Fields
    PROVE  /\ \A q : \A g \in Answered(h, q) : SameButLogs(g, h)
           /\ SameButLogs([h EXCEPT !.log = WithNext(@, h.term)], h)
<1>1. ASSUME NEW q, NEW g \in Answered(h, q) PROVE SameButLogs(g, h)
  <2>1. PICK known : known = [h EXCEPT !.nextIndex = [@ EXCEPT ![q] = peer[q].log.nextIndex]]
    OBVIOUS
  <2>2. SameButLogs(known, h)
    BY <2>1 DEF SameButLogs, Fields
  <2>3. \/ g = h \/ g = known
        \/ \E log : g = [known EXCEPT !.log = log]
    BY <1>1, <2>1 DEF Answered
  <2> QED
    BY <2>2, <2>3 DEF SameButLogs, Fields
<1>2. SameButLogs([h EXCEPT !.log = WithNext(@, h.term)], h)
  BY DEF SameButLogs, Fields
<1> QED
  BY <1>1, <1>2

LEMMA AlikeTwice ==
    ASSUME NEW f, NEW g, NEW h, Alike(f, g), Alike(g, h) PROVE Alike(f, h)
BY DEF Alike

LEMMA JoinOK ==
    ASSUME NEW h, Sound(h), NEW n
    PROVE  /\ Sound(join(h, n))
           /\ Stands(h) => Stands(join(h, n))
           /\ join(h, n).leaderId = h.leaderId /\ join(h, n).closed = h.closed
           /\ join(h, n).id = h.id
<1>1. CASE h.closed \/ h.joining # "no" \/ h.leaderId # Nil
  BY <1>1 DEF join
<1>2. CASE ~(h.closed \/ h.joining # "no" \/ h.leaderId # Nil)
  <2>1. PICK g : g = join(h, n)
    OBVIOUS
  <2>2. g = [h EXCEPT !.run = TRUE, !.heard = {}, !.stale = {}, !.joining = "waiting",
                   !.retries = n, !.retried = 0, !.aborted = FALSE, !.timer = TRUE]
    BY <1>2, <2>1 DEF join
  <2>3. /\ DOMAIN g = Fields /\ g.id = h.id /\ g.joining = "waiting" /\ g.heard = {}
        /\ g.leaderId = h.leaderId /\ g.run /\ g.closed = h.closed /\ g.timer
    BY <2>2 DEF Sound, Fields
  <2> QED
    BY <1>2, <2>1, <2>3 DEF Sound, Stands, Joining
<1> QED
  BY <1>1, <1>2

(* The leader of a peer changes, to nobody or, while its engine runs, to   *)
(* another peer.                                                           *)
LEMMA LeaderChangedOK ==
    ASSUME NEW h, Sound(h), NEW id
    PROVE  /\ Sound(LeaderChanged(h, id))
           /\ Stands(h) /\ (id = Nil \/ h.timer) => Stands(LeaderChanged(h, id))
           /\ LeaderChanged(h, id).leaderId = id /\ LeaderChanged(h, id).id = h.id
           /\ LeaderChanged(h, id).closed = h.closed
           /\ ~h.run => ~LeaderChanged(h, id).run
           /\ LeaderChanged(h, id).joining = "waiting" => h.run \/ h.joining = "waiting"
<1>1. CASE h.leaderId = id
  BY <1>1 DEF LeaderChanged
<1>2. CASE h.leaderId # id
  <2>1. PICK c : c = [h EXCEPT !.leaderId = id, !.heard = {}, !.stale = {},
                               !.joining = IF @ = "waiting" THEN "woken" ELSE @]
    OBVIOUS
  <2>2. /\ DOMAIN c = Fields /\ c.id = h.id /\ c.heard = {} /\ c.leaderId = id
        /\ c.run = h.run /\ c.closed = h.closed /\ c.timer = h.timer
        /\ c.joining = IF h.joining = "waiting" THEN "woken" ELSE h.joining
    BY <2>1 DEF Sound, Fields
  <2>3. Sound(c) /\ c.joining # "waiting"
    BY <2>2 DEF Sound, Joining
  <2>4. Stands(h) /\ (id = Nil \/ h.timer) => Stands(c)
    BY <2>2 DEF Stands
  <2>5. CASE id = h.id
    <3>1. PICK g : g = broadcastEndpointNotification(c)
      OBVIOUS
    <3>2. Alike(g, c)
      BY <2>2, <3>1 DEF broadcastEndpointNotification, Alike, Fields
    <3>3. LeaderChanged(h, id) = g
      BY <1>2, <2>1, <2>5, <3>1 DEF LeaderChanged
    <3> QED
      BY <2>2, <2>3, <2>4, <3>2, <3>3 DEF Alike, Sound, Stands
  <2>6. CASE id # h.id /\ id = Nil /\ h.run /\ ~h.closed
    <3>1. PICK d : d = [c EXCEPT !.remotePeers = {}, !.nextIndex = Untracked(h, h.remotePeers)]
      OBVIOUS
    <3>2. Alike(d, c)
      BY <2>2, <3>1 DEF Alike, Fields
    <3>3. LeaderChanged(h, id) = join(d, -1)
      BY <1>2, <2>1, <2>2, <2>6, <3>1 DEF LeaderChanged
    <3>4. Sound(d)
      BY <2>3, <3>2 DEF Alike, Sound
    <3>5. Stands(h) => Stands(d)
      BY <2>4, <2>6, <3>2 DEF Alike, Stands
    <3> QED
      BY <2>2, <2>6, <3>2, <3>3, <3>4, <3>5, JoinOK DEF Alike
  <2>7. CASE id # h.id /\ ~(id = Nil /\ h.run /\ ~h.closed)
    <3>1. LeaderChanged(h, id) = c
      BY <1>2, <2>1, <2>2, <2>7 DEF LeaderChanged
    <3> QED
      BY <2>2, <2>3, <2>4, <3>1
  <2> QED
    BY <2>5, <2>6, <2>7
<1> QED
  BY <1>1, <1>2

(* The engine stops.                                                       *)
LEMMA StopOK ==
    ASSUME NEW h, Sound(h), ~h.timer => h.leaderId = Nil
    PROVE  LET g == _stopRaftEngine(h)
           IN  /\ Sound(g) /\ ~g.timer /\ g.leaderId = Nil /\ g.closed = h.closed
               /\ g.id = h.id
               /\ ~h.run => ~g.run
               /\ g.joining = "waiting" => h.run \/ h.joining = "waiting"
<1>1. PICK g : g = _stopRaftEngine(h)
  OBVIOUS
<1>2. CASE ~h.timer
  BY <1>2 DEF _stopRaftEngine
<1>3. CASE h.timer
  <2>1. PICK c : c = LeaderChanged(h, Nil)
    OBVIOUS
  <2>2. /\ Sound(c) /\ c.leaderId = Nil /\ c.closed = h.closed /\ (~h.run => ~c.run)
        /\ c.id = h.id
        /\ c.joining = "waiting" => h.run \/ h.joining = "waiting"
    BY <2>1, LeaderChangedOK
  <2>3. g = [c EXCEPT !.timer = FALSE, !.heard = {}, !.stale = {}]
    BY <1>1, <1>3, <2>1 DEF _stopRaftEngine
  <2>4. /\ DOMAIN g = Fields /\ g.id = c.id /\ g.joining = c.joining /\ g.heard = {}
        /\ g.leaderId = c.leaderId /\ g.run = c.run /\ g.closed = c.closed /\ ~g.timer
    BY <2>2, <2>3 DEF Sound, Fields
  <2> QED
    BY <1>1, <2>2, <2>4 DEF Sound
<1> QED
  BY <1>2, <1>3

(* leave, once no join is in progress                                      *)
LEMMA LeftOK ==
    ASSUME NEW h, PeerOK(h), h.joining # "waiting" PROVE PeerOK(Left(h)) /\ Left(h).id = h.id
<1>1. PICK f, g : f = [h EXCEPT !.run = FALSE] /\ g = _stopRaftEngine(f)
  OBVIOUS
<1>2. Alike(f, [h EXCEPT !.run = FALSE]) /\ f.joining # "waiting" /\ ~f.run /\ Sound(f)
      /\ f.id = h.id
      /\ (~f.timer => f.leaderId = Nil)
  BY <1>1 DEF PeerOK, Sound, Stands, Alike, Fields
<1>3. Sound(g) /\ ~g.timer /\ g.leaderId = Nil /\ ~g.run /\ g.id = f.id
  BY <1>1, <1>2, StopOK
<1>4. PICK k : k = [g EXCEPT !.remotePeers = {}, !.nextIndex = Untracked(h, h.remotePeers),
                                 !.leaving = FALSE]
  OBVIOUS
<1>5. Alike(k, g) /\ k = Left(h)
  BY <1>1, <1>3, <1>4 DEF Alike, Sound, Fields, Left
<1>6. PeerOK(g)
  BY <1>3 DEF PeerOK, Stands
<1> QED
  BY <1>2, <1>3, <1>5, <1>6, AlikeOK DEF Alike

LEMMA SettledOK ==
    ASSUME NEW h, PeerOK(h) PROVE PeerOK(Settled(h)) /\ Settled(h).id = h.id
<1>1. CASE h.joining # "woken"
  BY <1>1 DEF Settled
<1>2. CASE h.joining = "woken"
  <2>1. PICK d : d = [h EXCEPT !.joining = "no", !.aborted = FALSE]
    OBVIOUS
  <2>2. /\ DOMAIN d = Fields /\ d.id = h.id /\ d.joining = "no" /\ d.heard = h.heard
        /\ d.leaderId = h.leaderId /\ d.run = h.run /\ d.closed = h.closed /\ d.timer = h.timer
    BY <2>1 DEF PeerOK, Sound, Fields
  <2>3. PeerOK(d)
    BY <2>2 DEF PeerOK, Sound, Stands, Joining
  <2>4. Settled(h) = d \/ Settled(h) = Left(d)
    BY <1>2, <2>1 DEF Settled
  <2> QED
    BY <2>2, <2>3, <2>4, LeftOK
<1> QED
  BY <1>1, <1>2

(* A handler ends.                                                         *)
LEMMA BecomesOK ==
    ASSUME Inv, NEW p \in Peers, NEW h, PeerOK(h), h.id = p, NEW channels, Becomes(p, h, channels)
    PROVE  Inv'
<1>1. PICK d : d = Settled(h)
  OBVIOUS
<1>2. PeerOK(d) /\ d.id = p
  BY <1>1, SettledOK
<1>3. PICK g : g = [d EXCEPT !.out = <<>>]
  OBVIOUS
<1>4. Alike(g, d)
  BY <1>2, <1>3 DEF Alike, PeerOK, Sound, Fields
<1>5. PeerOK(g) /\ g.id = p
  BY <1>2, <1>4, AlikeOK DEF Alike
<1>6. peer' = [peer EXCEPT ![p] = g]
  BY <1>1, <1>3 DEF Becomes
<1> QED
  BY <1>5, <1>6 DEF Inv

-----------------------------------------------------------------------------
(* The steps.                                                              *)

LEMMA CallsOK ==
    ASSUME Inv, NEW p \in Peers, CallJoin(p) \/ CallLeave(p) \/ CallClose(p) \/ JoinTimeout(p)
    PROVE  Inv'
<1>1. PICK h : h = peer[p]
  OBVIOUS
<1>2. PeerOK(h) /\ h.id = p
  BY <1>1 DEF Inv
<1>3. CASE CallJoin(p)
  <2>1. PeerOK(join(h, setting.retries)) /\ join(h, setting.retries).id = p
    BY <1>2, JoinOK DEF PeerOK
  <2> QED
    BY <1>1, <1>3, <2>1, BecomesOK DEF CallJoin
<1>4. CASE CallLeave(p)
  <2>1. CASE h.joining = "waiting"
    <3>1. PICK g : g = [h EXCEPT !.aborted = TRUE, !.leaving = TRUE]
      OBVIOUS
    <3>2. Alike(g, h) /\ g = leave(h)
      BY <1>2, <2>1, <3>1 DEF Alike, PeerOK, Sound, Fields, leave
    <3>3. PeerOK(leave(h)) /\ leave(h).id = p
      BY <1>2, <3>2, AlikeOK DEF Alike
    <3> QED
      BY <1>1, <1>4, <3>3, BecomesOK DEF CallLeave
  <2>2. CASE h.joining # "waiting"
    <3>1. PeerOK(leave(h)) /\ leave(h).id = p
      BY <1>2, <2>2, LeftOK DEF leave
    <3> QED
      BY <1>1, <1>4, <3>1, BecomesOK DEF CallLeave
  <2> QED
    BY <2>1, <2>2
<1>5. CASE CallClose(p)
  <2>1. PICK f, g : f = [h EXCEPT !.closed = TRUE, !.run = FALSE] /\ g = _stopRaftEngine(f)
    OBVIOUS
  <2>2. /\ DOMAIN f = Fields /\ f.id = h.id /\ f.joining = h.joining /\ f.heard = h.heard
        /\ f.leaderId = h.leaderId /\ ~f.run /\ f.closed /\ f.timer = h.timer
    BY <1>2, <2>1 DEF PeerOK, Sound, Fields
  <2>3. Sound(f) /\ (~f.timer => f.leaderId = Nil)
    BY <1>2, <2>2 DEF PeerOK, Sound, Stands
  <2>4. Sound(g) /\ ~g.timer /\ g.leaderId = Nil /\ g.id = p
    BY <1>2, <2>1, <2>2, <2>3, StopOK
  <2>5. PeerOK(g)
    BY <2>4 DEF PeerOK, Stands
  <2>6. PICK routed, c : /\ routed = {f.registered[x] : x \in DOMAIN f.registered}
                         /\ routed = {h.registered[x] : x \in DOMAIN h.registered}
                         /\ c = close(h)
    BY <1>2, <2>1 DEF PeerOK, Sound, Fields
  <2>7. c = [g EXCEPT !.remotePeers = {}, !.nextIndex = Untracked(h, h.remotePeers),
                      !.storages = [n \in DOMAIN @ |->
                            IF n \in routed THEN [@[n] EXCEPT !.open = FALSE] ELSE @[n]],
                      !.registered = <<>>]
    BY <2>1, <2>6 DEF close
  <2>8. Alike(c, g)
    BY <2>4, <2>7 DEF Alike, Sound, Fields
  <2>9. PeerOK(close(h)) /\ close(h).id = p
    BY <2>4, <2>5, <2>6, <2>8, AlikeOK DEF Alike
  <2> QED
    BY <1>1, <1>5, <2>9, BecomesOK DEF CallClose
<1>6. CASE JoinTimeout(p)
  <2>1. PICK woken, again :
            /\ woken = [h EXCEPT !.joining = "woken"]
            /\ again = [h EXCEPT !.timer = TRUE,
                                 !.retried = IF h.remotePeers = {} THEN @ + 1 ELSE @]
    OBVIOUS
  <2>2. h.joining = "waiting"
    BY <1>1, <1>6 DEF JoinTimeout
  <2>3. PeerOK(woken) /\ woken.id = p
    <3>1. /\ DOMAIN woken = Fields /\ woken.id = h.id /\ woken.joining = "woken"
          /\ woken.heard = h.heard /\ woken.leaderId = h.leaderId /\ woken.run = h.run
          /\ woken.closed = h.closed /\ woken.timer = h.timer
      BY <1>2, <2>1 DEF PeerOK, Sound, Fields
    <3> QED
      BY <1>2, <3>1 DEF PeerOK, Sound, Stands, Joining
  <2>4. ASSUME ~h.closed PROVE PeerOK(again) /\ again.id = p
    <3>1. /\ DOMAIN again = Fields /\ again.id = h.id /\ again.joining = h.joining
          /\ again.heard = h.heard /\ again.leaderId = h.leaderId /\ again.run = h.run
          /\ again.closed = h.closed /\ again.timer
      BY <1>2, <2>1 DEF PeerOK, Sound, Fields
    <3>2. h.run
      BY <1>2, <2>2, <2>4 DEF PeerOK, Sound
    <3> QED
      BY <1>2, <3>1, <3>2 DEF PeerOK, Sound, Stands
  <2>5. Becomes(p, woken, net) \/ (~h.closed /\ Becomes(p, again, net))
    BY <1>1, <1>6, <2>1 DEF JoinTimeout, GivesUp
  <2> QED
    BY <2>3, <2>4, <2>5, BecomesOK
<1> QED
  BY <1>3, <1>4, <1>5, <1>6

(* A message arrives, or is lost: it changes whom a peer knows, and its    *)
(* log, but neither its engine nor its leader.                             *)
LEMMA DeliverOK ==
    ASSUME Inv, NEW p \in Peers, NEW q \in Peers, Deliver(q, p) PROVE Inv'
<1>1. PICK h, m : h = peer[p] /\ m = Head(net[q][p])
  OBVIOUS
<1>2. PeerOK(h) /\ h.id = p /\ DOMAIN h = Fields
  BY <1>1 DEF Inv, PeerOK, Sound
<1>3. ASSUME NEW g, Alike(g, h) PROVE PeerOK(g) /\ g.id = p
  BY <1>2, <1>3, AlikeOK DEF Alike
<1>4. Alike(ReceiveJoin(h, m), h)
  <2>1. PICK added : added = AddPeers(h, {m.from})
    OBVIOUS
  <2>2. Alike(added, h) /\ Alike(h, h)
    BY <1>2, <2>1, RemotePeersOK DEF Alike
  <2>3. Alike(_sendEndpointNotification(added, m.from), added)
    BY <2>2, <1>3, SendingOK DEF _sendEndpointNotification
  <2> QED
    BY <2>1, <2>2, <2>3, AlikeTwice DEF ReceiveJoin
<1>5. Alike(ReceiveEndpointStates(h, m), h)
  <2>1. PICK a, b, known :
            /\ a = RemovePeers(h, h.remotePeers \ (m.active \cup {m.from}))
            /\ b = AddPeers(a, m.active)
            /\ known = AddPeers(b, {m.from})
    OBVIOUS
  <2>2. Alike(a, h)
    BY <1>2, <2>1, RemotePeersOK
  <2>3. Alike(b, h)
    BY <2>1, <2>2, RemotePeersOK, AlikeTwice DEF Alike
  <2>4. Alike(known, h)
    BY <2>1, <2>3, RemotePeersOK, AlikeTwice DEF Alike
  <2>5. Alike(Emit(known, JoinNotification(h, m.from)), h)
    BY <1>3, <2>4, SendingOK, AlikeTwice
  <2>6. PICK reset : reset = [known EXCEPT !.log = ResetLog(PossibleLowestIndex(m))]
    OBVIOUS
  <2>7. Alike(reset, h)
    BY <2>4, <2>6 DEF Alike, Fields
  <2>8. ReceiveEndpointStates(h, m) \in {Emit(known, JoinNotification(h, m.from)), reset, known}
    BY <2>1, <2>6 DEF ReceiveEndpointStates
  <2> QED
    BY <2>4, <2>5, <2>7, <2>8
<1>6. \/ UNCHANGED peer
      \/ \E channels : \/ Becomes(p, ReceiveJoin(h, m), channels)
                       \/ Becomes(p, ReceiveEndpointStates(h, m), channels)
  BY <1>1 DEF Deliver
<1>7. CASE UNCHANGED peer
  BY <1>7 DEF Inv
<1> QED
  BY <1>3, <1>4, <1>5, <1>6, <1>7, BecomesOK

LEMMA HeartbeatOK ==
    ASSUME Inv, NEW p \in Peers, Heartbeat(p) PROVE Inv'
<1>1. PICK h, alone, sent, g :
        /\ h = peer[p] /\ alone = LeaderAlone(h) /\ sent = _sendJoinMsg(alone)
        /\ g = _checkRemoteHeartbeats(sent)
  OBVIOUS
<1>2. PeerOK(h) /\ h.id = p
  BY <1>1 DEF Inv
<1>3. PeerOK(alone) /\ alone.id = p
  BY <1>1, <1>2, LeaderChangedOK DEF LeaderAlone, PeerOK
<1>4. Alike(sent, alone)
  BY <1>1, <1>3 DEF _sendJoinMsg, Alike, PeerOK, Sound, Fields
<1>5. PeerOK(sent) /\ sent.id = p /\ DOMAIN sent = Fields
  BY <1>3, <1>4, AlikeOK DEF Alike
<1>6. PeerOK(g) /\ g.id = p
  <2>1. CASE ~leader(sent) \/ sent.joining # "no"
    BY <1>1, <1>5, <2>1 DEF _checkRemoteHeartbeats
  <2>2. CASE ~(~leader(sent) \/ sent.joining # "no")
    <3>1. PICK r, forgotten : r = RemovePeers(sent, sent.stale)
                              /\ forgotten = sent.stale \ sent.remotePeers
      OBVIOUS
    <3>2. Alike(r, sent)
      BY <1>5, <3>1, RemotePeersOK
    <3>3. g = [r EXCEPT !.heard = @ \ forgotten, !.stale = @ \ forgotten]
      BY <1>1, <2>2, <3>1 DEF _checkRemoteHeartbeats
    <3>4. /\ DOMAIN g = Fields /\ g.id = r.id /\ g.joining = r.joining
          /\ g.leaderId = r.leaderId /\ g.run = r.run /\ g.closed = r.closed /\ g.timer = r.timer
      BY <3>2, <3>3 DEF Alike, Fields
    <3>5. r.leaderId = r.id
      BY <2>2, <3>2 DEF Alike, leader
    <3> QED
      BY <1>5, <3>2, <3>4, <3>5 DEF Alike, PeerOK, Sound, Stands
  <2> QED
    BY <2>1, <2>2
<1> QED
  BY <1>1, <1>6, BecomesOK DEF Heartbeat

(* What Raft does to a peer.                                               *)
LEMMA RaftOK ==
    ASSUME Inv, NEW p \in Peers, NEW q \in Peers,
           \/ KeepAlive(q, p) \/ Hear(p, q) \/ Silence(p, q) \/ Unsynced(p, q)
           \/ FollowerTimeout(p) \/ Elect(p) \/ Submit(p)
    PROVE  Inv'
<1>1. PICK h : h = peer[p]
  OBVIOUS
<1>2. PeerOK(h) /\ h.id = p /\ DOMAIN h = Fields
  BY <1>1 DEF Inv, PeerOK, Sound
<1>3. ASSUME NEW id, id = Nil \/ h.timer
      PROVE  PeerOK(LeaderChanged(h, id)) /\ LeaderChanged(h, id).id = p
  BY <1>2, <1>3, LeaderChangedOK DEF PeerOK
<1>4. CASE KeepAlive(q, p)
  <2>0. PICK log : \/ Becomes(p, [LeaderChanged(h, q) EXCEPT !.term = peer[q].term,
                                                            !.log = log], net)
                   \/ Becomes(p, LeaderChanged(h, Nil), net)
    BY <1>1, <1>4 DEF KeepAlive
  <2>1. PICK c, g : /\ c = LeaderChanged(h, q)
                    /\ g = [c EXCEPT !.term = peer[q].term, !.log = log]
    OBVIOUS
  <2>2. h.timer /\ PeerOK(c) /\ c.id = p
    BY <1>1, <1>3, <1>4, <2>1 DEF KeepAlive
  <2>3. Alike(g, c)
    BY <2>1, <2>2 DEF Alike, PeerOK, Sound, Fields
  <2>4. PeerOK(g) /\ g.id = p
    BY <2>2, <2>3, AlikeOK DEF Alike
  <2>5. Becomes(p, g, net) \/ Becomes(p, LeaderChanged(h, Nil), net)
    BY <2>0, <2>1
  <2> QED
    BY <1>3, <2>4, <2>5, BecomesOK
<1>5. CASE Hear(p, q)
  <2>1. PICK g : g = _acceptKeepAliveHamokMessage(h, q)
    OBVIOUS
  <2>2. PeerOK(g) /\ g.id = p
    <3>1. CASE ~leader(h)
      BY <1>2, <2>1, <3>1 DEF _acceptKeepAliveHamokMessage
    <3>2. CASE leader(h)
      <4>1. g = [h EXCEPT !.heard = @ \cup {q}, !.stale = @ \ {q}]
        BY <2>1, <3>2 DEF _acceptKeepAliveHamokMessage
      <4>2. /\ DOMAIN g = Fields /\ g.id = h.id /\ g.joining = h.joining
            /\ g.leaderId = h.leaderId /\ g.run = h.run /\ g.closed = h.closed
            /\ g.timer = h.timer
        BY <1>2, <4>1 DEF Fields
      <4> QED
        BY <1>2, <3>2, <4>2 DEF PeerOK, Sound, Stands, leader
    <3> QED
      BY <3>1, <3>2
  <2>3. PICK a \in Answered(g, q) : Becomes(p, a, net)
    BY <1>1, <1>5, <2>1 DEF Hear
  <2>4. SameButLogs(a, g)
    BY <2>2, LogsOnly DEF PeerOK, Sound
  <2>5. PeerOK(a) /\ a.id = p
    BY <2>2, <2>4, AlikeOK DEF SameButLogs, Alike
  <2> QED
    BY <2>3, <2>5, BecomesOK
<1>6. CASE Silence(p, q)
  <2>1. PICK g : g = [h EXCEPT !.stale = @ \cup {q}]
    OBVIOUS
  <2>2. Alike(g, h)
    BY <1>2, <2>1 DEF Alike, Fields
  <2>3. PeerOK(g) /\ g.id = p
    BY <1>2, <2>2, AlikeOK DEF Alike
  <2>4. peer' = [peer EXCEPT ![p] = g]
    BY <1>1, <1>6, <2>1 DEF Silence
  <2> QED
    BY <2>3, <2>4 DEF Inv
<1>7. CASE Unsynced(p, q)
  <2>1. PICK g : g = RemovePeers(h, {q})
    OBVIOUS
  <2>2. PeerOK(g) /\ g.id = p
    BY <1>2, <2>1, RemotePeersOK, AlikeOK DEF Alike
  <2> QED
    BY <1>1, <1>7, <2>1, <2>2, BecomesOK DEF Unsynced
<1>8. CASE FollowerTimeout(p)
  BY <1>1, <1>3, <1>8, BecomesOK DEF FollowerTimeout
<1>9. CASE Elect(p)
  <2>1. PICK g : g = [h EXCEPT !.term = @ + 1]
    OBVIOUS
  <2>2. Alike(g, h)
    BY <1>2, <2>1 DEF Alike, Fields
  <2>3. PeerOK(g) /\ g.id = p /\ g.timer
    BY <1>1, <1>2, <1>9, <2>2, AlikeOK DEF Alike, Elect
  <2>4. PeerOK(LeaderChanged(g, p)) /\ LeaderChanged(g, p).id = p
    BY <2>3, LeaderChangedOK DEF PeerOK
  <2> QED
    BY <1>1, <1>9, <2>1, <2>4, BecomesOK DEF Elect
<1>10. CASE Submit(p)
  <2>1. PICK g : g = [h EXCEPT !.log = WithNext(@, h.term)]
    OBVIOUS
  <2>2. PeerOK(g) /\ g.id = p
    BY <1>2, <2>1, LogsOnly, AlikeOK DEF SameButLogs, Alike
  <2> QED
    BY <1>1, <1>10, <2>1, <2>2, BecomesOK DEF Submit
<1> QED
  BY <1>4, <1>5, <1>6, <1>7, <1>8, <1>9, <1>10

LEMMA StoragesOK ==
    ASSUME Inv, NEW p \in Peers, NEW k, NEW id, NEW n, Create(p, k, id) \/ CloseStorage(p, n)
    PROVE  Inv'
<1>1. PICK h : h = peer[p]
  OBVIOUS
<1>2. PeerOK(h) /\ h.id = p /\ DOMAIN h = Fields
  BY <1>1 DEF Inv, PeerOK, Sound
<1>3. PICK g : Becomes(p, g, net) /\ Alike(g, h)
  <2>1. PICK i, j : i = Len(h.storages) + 1 /\ j = h.storages[n].id
    OBVIOUS
  <2>2. PICK created, less :
          /\ created = [h EXCEPT !.storages = Append(@, [kind |-> k, id |-> id, open |-> TRUE]),
                                 !.registered = [x \in DOMAIN @ \cup {id} |->
                                                    IF x = id THEN i ELSE @[x]]]
          /\ less = [h EXCEPT !.storages[n].open = FALSE,
                              !.registered = [x \in DOMAIN @ \ {j} |-> @[x]]]
    OBVIOUS
  <2>3. Alike(created, h) /\ Alike(less, h)
    BY <1>2, <2>2 DEF Alike, Fields
  <2>4. Becomes(p, created, net) \/ Becomes(p, less, net)
    BY <1>1, <2>1, <2>2 DEF Create, CloseStorage
  <2> QED
    BY <2>3, <2>4
<1> QED
  BY <1>2, <1>3, AlikeOK, BecomesOK DEF Alike

-----------------------------------------------------------------------------

LEMMA InitOK == Init => Inv
<1> SUFFICES ASSUME Init PROVE Inv
  OBVIOUS
<1>1. ASSUME NEW p \in Peers PROVE PeerOK(peer[p]) /\ peer[p].id = p
  <2>1. PICK l, n, g : /\ l = setting.logs[p] /\ n = NewPeer(p, l)
                       /\ g = Formed(p)
    OBVIOUS
  <2>2. PeerOK(n) /\ n.id = p
    BY <2>1 DEF NewPeer, PeerOK, Sound, Stands, Fields, Joining
  <2>3. g = [n EXCEPT !.run = TRUE, !.timer = TRUE, !.leaderId = setting.leader, !.term = 1,
                !.remotePeers = setting.grid \ {p},
                !.nextIndex = [q \in Peers |-> IF p = setting.leader /\ q \in setting.grid \ {p}
                                               THEN setting.logs[q].nextIndex ELSE 0],
                !.heard = IF p = setting.leader THEN setting.grid \ {p} ELSE {}]
    BY <2>1 DEF Formed
  <2>4. /\ DOMAIN g = Fields /\ g.id = p /\ g.joining = "no" /\ ~g.closed /\ g.run /\ g.timer
        /\ g.leaderId = setting.leader
        /\ g.heard = IF p = setting.leader THEN setting.grid \ {p} ELSE {}
    BY <2>1, <2>3 DEF NewPeer, Fields
  <2>5. PeerOK(g)
    BY <2>4 DEF PeerOK, Sound, Stands, Joining
  <2> QED
    BY <2>1, <2>2, <2>4, <2>5 DEF Init
<1> QED
  BY <1>1 DEF Init, Inv

LEMMA NextOK == Inv /\ [Next]_vars => Inv'
<1> SUFFICES ASSUME Inv, [Next]_vars PROVE Inv'
  OBVIOUS
<1>1. CASE UNCHANGED vars
  BY <1>1 DEF vars, Inv
<1>2. ASSUME NEW p \in Peers, CallJoin(p) \/ CallLeave(p) \/ CallClose(p) \/ JoinTimeout(p)
      PROVE  Inv'
  BY <1>2, CallsOK
<1>3. ASSUME NEW p \in Peers, Heartbeat(p) \/ FollowerTimeout(p) \/ Elect(p) \/ Submit(p)
      PROVE  Inv'
  BY <1>3, HeartbeatOK, RaftOK
<1>4. ASSUME NEW p \in Peers, NEW q \in Peers,
             Deliver(q, p) \/ KeepAlive(q, p) \/ Hear(q, p) \/ Silence(q, p) \/ Unsynced(q, p)
      PROVE  Inv'
  BY <1>4, DeliverOK, RaftOK
<1>5. ASSUME NEW p \in Peers, NEW q \in Peers, Lose(q, p) PROVE Inv'
  BY <1>5 DEF Lose, Inv
<1>6. ASSUME NEW p \in Peers, NEW k, NEW id, NEW n, Create(p, k, id) \/ CloseStorage(p, n)
      PROVE  Inv'
  BY <1>6, StoragesOK
<1> QED
  BY <1>1, <1>2, <1>3, <1>4, <1>5, <1>6 DEF Next

LEMMA InvAlways == Spec => []Inv
<1>1. Init => Inv
  BY InitOK
<1>2. Inv /\ [Next]_vars => Inv'
  BY NextOK
<1> QED
  BY <1>1, <1>2, PTL DEF Spec

(* Whatever joins, leaves, closes, timeouts, elections and messages there  *)
(* are: a peer that is not in the grid runs no engine and has no leader.   *)
THEOREM LeftStaysOut == Spec => []LeftIsOut
<1>1. Inv => LeftIsOut
  BY DEF Inv, PeerOK, Stands, LeftIsOut
<1> QED
  BY <1>1, InvAlways, PTL

(* The table of heartbeats is empty unless the peer leads, so it never     *)
(* holds what was heard under an earlier leadership.                       *)
THEOREM OnlyLeadersHear == Spec => []HeardByLeaderOnly
<1>1. Inv => HeardByLeaderOnly
  BY DEF Inv, PeerOK, Sound, HeardByLeaderOnly, leader
<1> QED
  BY <1>1, InvAlways, PTL

-----------------------------------------------------------------------------
(* The registry of storages of a peer: an open storage is reached by the   *)
(* messages for its id, for any number of peers and storages, and whatever *)
(* happens to the grid meanwhile.                                          *)

Storages == [kind : Kinds, id : Ids, open : BOOLEAN]
Sharing == {"queue", "emitter"}

\* The storage n, or a later one under the same id, is a queue or an emitter.
Shared(h, n) ==
    /\ \E m \in 1 .. Len(h.storages) : m # n /\ h.storages[m].id = h.storages[n].id
    /\ \E k \in 1 .. Len(h.storages) :
        h.storages[k].id = h.storages[n].id /\ h.storages[k].kind \in Sharing

RegistryOK(h) ==
    /\ DOMAIN h = Fields
    /\ h.storages \in Seq(Storages)
    /\ \A x \in DOMAIN h.registered :
        /\ h.registered[x] \in 1 .. Len(h.storages)
        /\ h.storages[h.registered[x]].id = x
        /\ h.storages[h.registered[x]].open
    /\ \A n \in 1 .. Len(h.storages) :
        h.storages[n].open =>
            \/ h.storages[n].id \in DOMAIN h.registered /\ h.registered[h.storages[n].id] = n
            \/ Shared(h, n)

RegistryInv ==
    /\ DOMAIN peer = Peers
    /\ \A p \in Peers : RegistryOK(peer[p])

LEMMA SharedMeans ==
    ASSUME NEW h, h.storages \in Seq(Storages), NEW n \in 1 .. Len(h.storages)
    PROVE  SharesId(h, n) <=> Shared(h, n)
<1>1. PICK same : same = {k \in DOMAIN h.storages : h.storages[k].id = h.storages[n].id}
  OBVIOUS
<1>2. DOMAIN h.storages = 1 .. Len(h.storages)
  OBVIOUS
<1>3. n \in same
  BY <1>1, <1>2
<1>4. same # {n} <=> \E m \in 1 .. Len(h.storages) : m # n /\ h.storages[m].id = h.storages[n].id
  BY <1>1, <1>2, <1>3
<1>5. (\E k \in same : h.storages[k].kind \in {"queue", "emitter"}) <=>
        \E k \in 1 .. Len(h.storages) :
            h.storages[k].id = h.storages[n].id /\ h.storages[k].kind \in Sharing
  BY <1>1, <1>2 DEF Sharing
<1>6. SharesId(h, n) <=> (same # {n} /\ \E k \in same : h.storages[k].kind \in {"queue", "emitter"})
  BY <1>1 DEF SharesId
<1> QED
  BY <1>4, <1>5, <1>6 DEF Shared

-----------------------------------------------------------------------------
(* What the handlers of the grid leave alone.                              *)

Kept(g, h) == DOMAIN g = Fields /\ g.storages = h.storages /\ g.registered = h.registered

LEMMA KeptTwice ==
    ASSUME NEW f, NEW g, NEW h, Kept(f, g), Kept(g, h) PROVE Kept(f, h)
BY DEF Kept

LEMMA PeersKept ==
    ASSUME NEW h, DOMAIN h = Fields, NEW qs, NEW m
    PROVE  /\ Kept(AddPeers(h, qs), h) /\ Kept(RemovePeers(h, qs), h)
           /\ Kept(Emit(h, m), h) /\ Kept(broadcastEndpointNotification(h), h)
BY DEF AddPeers, RemovePeers, Emit, broadcastEndpointNotification, Kept, Fields

LEMMA JoinKept ==
    ASSUME NEW h, DOMAIN h = Fields, NEW n PROVE Kept(join(h, n), h)
BY DEF join, Kept, Fields

LEMMA LeaderKept ==
    ASSUME NEW h, DOMAIN h = Fields, NEW id PROVE Kept(LeaderChanged(h, id), h)
<1>1. CASE h.leaderId = id
  BY <1>1 DEF LeaderChanged, Kept
<1>2. CASE h.leaderId # id
  <2>1. PICK c, d : /\ c = [h EXCEPT !.leaderId = id, !.heard = {}, !.stale = {},
                                     !.joining = IF @ = "waiting" THEN "woken" ELSE @]
                    /\ d = [c EXCEPT !.remotePeers = {}, !.nextIndex = Untracked(h, h.remotePeers)]
    OBVIOUS
  <2>2. Kept(c, h)
    BY <2>1 DEF Kept, Fields
  <2>3. Kept(d, h)
    BY <2>1, <2>2 DEF Kept, Fields
  <2>4. Kept(broadcastEndpointNotification(c), h)
    BY <2>2, PeersKept DEF Kept
  <2>5. Kept(join(d, -1), h)
    BY <2>3, JoinKept DEF Kept
  <2>6. LeaderChanged(h, id) \in {broadcastEndpointNotification(c), join(d, -1), c}
    BY <1>2, <2>1 DEF LeaderChanged
  <2> QED
    BY <2>2, <2>4, <2>5, <2>6
<1> QED
  BY <1>1, <1>2

LEMMA StopKept ==
    ASSUME NEW h, DOMAIN h = Fields PROVE Kept(_stopRaftEngine(h), h)
<1>1. PICK c : c = LeaderChanged(h, Nil)
  OBVIOUS
<1>2. Kept(c, h)
  BY <1>1, LeaderKept
<1>3. Kept([c EXCEPT !.timer = FALSE, !.heard = {}, !.stale = {}], h)
  BY <1>2 DEF Kept, Fields
<1> QED
  BY <1>1, <1>3 DEF _stopRaftEngine, Kept

LEMMA LeftKept ==
    ASSUME NEW h, DOMAIN h = Fields PROVE Kept(Left(h), h) /\ Kept(leave(h), h)
<1>1. PICK f, g : f = [h EXCEPT !.run = FALSE] /\ g = _stopRaftEngine(f)
  OBVIOUS
<1>2. Kept(f, h)
  BY <1>1 DEF Kept, Fields
<1>3. Kept(g, h)
  BY <1>1, <1>2, StopKept, KeptTwice DEF Kept
<1>4. Left(h) = [g EXCEPT !.remotePeers = {}, !.nextIndex = Untracked(h, h.remotePeers),
                                 !.leaving = FALSE]
  BY <1>1 DEF Left
<1>5. Kept(Left(h), h)
  BY <1>3, <1>4 DEF Kept, Fields
<1>6. Kept([h EXCEPT !.aborted = TRUE, !.leaving = TRUE], h)
  BY DEF Kept, Fields
<1> QED
  BY <1>5, <1>6 DEF leave

LEMMA SettledKept ==
    ASSUME NEW h, DOMAIN h = Fields PROVE Kept(Settled(h), h)
<1>1. PICK d : d = [h EXCEPT !.joining = "no", !.aborted = FALSE]
  OBVIOUS
<1>2. Kept(d, h)
  BY <1>1 DEF Kept, Fields
<1>3. Kept(Left(d), h)
  BY <1>2, LeftKept, KeptTwice DEF Kept
<1>4. Settled(h) \in {h, d, Left(d)}
  BY <1>1 DEF Settled
<1> QED
  BY <1>2, <1>3, <1>4 DEF Kept

LEMMA ReceiveKept ==
    ASSUME NEW h, DOMAIN h = Fields, NEW m
    PROVE  Kept(ReceiveJoin(h, m), h) /\ Kept(ReceiveEndpointStates(h, m), h)
<1>1. Kept(ReceiveJoin(h, m), h)
  <2>1. PICK added, told : /\ added = AddPeers(h, {m.from})
                           /\ told = _sendEndpointNotification(added, m.from)
    OBVIOUS
  <2>2. Kept(added, h)
    BY <2>1, PeersKept
  <2>3. Kept(told, h)
    BY <2>1, <2>2, PeersKept, KeptTwice DEF _sendEndpointNotification, Kept
  <2>4. ReceiveJoin(h, m) \in {h, told, added}
    BY <2>1 DEF ReceiveJoin
  <2> QED
    BY <2>2, <2>3, <2>4 DEF Kept
<1>2. Kept(ReceiveEndpointStates(h, m), h)
  <2>1. PICK a, b, known :
            /\ a = RemovePeers(h, h.remotePeers \ (m.active \cup {m.from}))
            /\ b = AddPeers(a, m.active)
            /\ known = AddPeers(b, {m.from})
    OBVIOUS
  <2>2. Kept(a, h)
    BY <2>1, PeersKept
  <2>3. Kept(b, a)
    BY <2>1, <2>2, PeersKept DEF Kept
  <2>4. Kept(known, b)
    BY <2>1, <2>3, PeersKept DEF Kept
  <2>5. Kept(known, h)
    BY <2>2, <2>3, <2>4 DEF Kept
  <2>6. PICK emitted, reset : /\ emitted = Emit(known, JoinNotification(h, m.from))
                              /\ reset = [known EXCEPT !.log = ResetLog(PossibleLowestIndex(m))]
    OBVIOUS
  <2>7. Kept(emitted, known)
    BY <2>5, <2>6, PeersKept DEF Kept
  <2>8. Kept(reset, h)
    BY <2>5, <2>6 DEF Kept, Fields
  <2>9. ReceiveEndpointStates(h, m) \in {emitted, reset, known}
    BY <2>1, <2>6 DEF ReceiveEndpointStates
  <2> QED
    BY <2>5, <2>7, <2>8, <2>9 DEF Kept
<1> QED
  BY <1>1, <1>2

LEMMA HeartbeatKept ==
    ASSUME NEW h, DOMAIN h = Fields
    PROVE  Kept(_checkRemoteHeartbeats(_sendJoinMsg(LeaderAlone(h))), h)
<1>1. PICK alone, sent, r :
        /\ alone = LeaderAlone(h) /\ sent = _sendJoinMsg(alone)
        /\ r = RemovePeers(sent, sent.stale)
  OBVIOUS
<1>2. Kept(alone, h)
  BY <1>1, LeaderKept DEF LeaderAlone, Kept
<1>3. Kept(sent, alone)
  BY <1>1, <1>2 DEF _sendJoinMsg, Kept, Fields
<1>4. Kept(r, sent)
  BY <1>1, <1>3, PeersKept DEF Kept
<1>5. PICK forgotten, g : /\ forgotten = sent.stale \ sent.remotePeers
                          /\ g = [r EXCEPT !.heard = @ \ forgotten, !.stale = @ \ forgotten]
  OBVIOUS
<1>6. Kept(g, r)
  BY <1>4, <1>5 DEF Kept, Fields
<1>7. _checkRemoteHeartbeats(sent) \in {sent, g}
  BY <1>1, <1>5 DEF _checkRemoteHeartbeats
<1> QED
  BY <1>1, <1>2, <1>3, <1>4, <1>6, <1>7 DEF Kept

-----------------------------------------------------------------------------
(* The steps.                                                              *)

LEMMA KeptOK ==
    ASSUME NEW h, RegistryOK(h), NEW g, Kept(g, h) PROVE RegistryOK(g)
BY DEF RegistryOK, Kept, Shared

LEMMA BecomesRegistryOK ==
    ASSUME RegistryInv, NEW p \in Peers, NEW h, RegistryOK(h), NEW channels, Becomes(p, h, channels)
    PROVE  RegistryInv'
<1>1. PICK d, g : d = Settled(h) /\ g = [d EXCEPT !.out = <<>>]
  OBVIOUS
<1>2. DOMAIN h = Fields
  BY DEF RegistryOK
<1>3. Kept(d, h)
  BY <1>1, <1>2, SettledKept
<1>4. Kept(g, h)
  BY <1>1, <1>3 DEF Kept, Fields
<1>5. peer' = [peer EXCEPT ![p] = g]
  BY <1>1 DEF Becomes
<1>6. RegistryOK(g)
  BY <1>4, KeptOK
<1> QED
  BY <1>5, <1>6 DEF RegistryInv

LEMMA KeepingOK ==
    ASSUME RegistryInv, NEW p \in Peers, NEW h, Kept(h, peer[p]), NEW channels,
           Becomes(p, h, channels)
    PROVE  RegistryInv'
BY KeptOK, BecomesRegistryOK DEF RegistryInv

(* close closes the storages that messages reach; the others that are open *)
(* share their id, as before.                                              *)
LEMMA CloseOK ==
    ASSUME NEW h, RegistryOK(h) PROVE RegistryOK(close(h))
<1>1. PICK f, g : f = [h EXCEPT !.closed = TRUE, !.run = FALSE] /\ g = _stopRaftEngine(f)
  OBVIOUS
<1>2. Kept(f, h)
  BY <1>1 DEF Kept, RegistryOK, Fields
<1>3. Kept(g, h)
  BY <1>1, <1>2, StopKept, KeptTwice DEF Kept
<1>4. PICK routed : routed = {h.registered[x] : x \in DOMAIN h.registered}
  OBVIOUS
<1>5. routed = {f.registered[x] : x \in DOMAIN f.registered}
  BY <1>2, <1>4 DEF Kept
<1>6. PICK ss : ss = [n \in DOMAIN g.storages |->
                        IF n \in routed THEN [g.storages[n] EXCEPT !.open = FALSE]
                        ELSE g.storages[n]]
  OBVIOUS
<1>7. PICK c : c = close(h)
  OBVIOUS
<1>8. c = [g EXCEPT !.remotePeers = {}, !.nextIndex = Untracked(h, h.remotePeers),
                 !.storages = ss, !.registered = <<>>]
  <2>1. c = [g EXCEPT !.remotePeers = {}, !.nextIndex = Untracked(h, h.remotePeers),
                      !.storages = [n \in DOMAIN @ |->
                            IF n \in routed THEN [@[n] EXCEPT !.open = FALSE] ELSE @[n]],
                      !.registered = <<>>]
    <3>1. PICK rs : rs = {f.registered[x] : x \in DOMAIN f.registered}
      OBVIOUS
    <3>2. c = [g EXCEPT !.remotePeers = {}, !.nextIndex = Untracked(h, h.remotePeers),
                        !.storages = [n \in DOMAIN @ |->
                            IF n \in rs THEN [@[n] EXCEPT !.open = FALSE] ELSE @[n]],
                        !.registered = <<>>]
      <4>1. f.registered = h.registered
        BY <1>2 DEF Kept
      <4> QED
        BY <1>1, <1>5, <1>7, <3>1, <4>1 DEF close
    <3> QED
      BY <1>5, <3>1, <3>2
  <2> QED
    BY <1>3, <1>6, <2>1 DEF Kept, Fields
<1>9. /\ DOMAIN c = Fields /\ c.storages = ss /\ c.registered = <<>>
  BY <1>3, <1>8 DEF Kept, Fields
<1>10. h.storages \in Seq(Storages) /\ g.storages = h.storages
  BY <1>3 DEF RegistryOK, Kept
<1>11. PICK n \in Nat : n = Len(h.storages) /\ DOMAIN h.storages = 1 .. n
  BY <1>10
<1>12. ASSUME NEW i \in 1 .. n
       PROVE  /\ ss[i] \in Storages /\ ss[i].id = h.storages[i].id
              /\ ss[i].kind = h.storages[i].kind
              /\ ss[i].open => h.storages[i].open /\ i \notin routed
  <2>1. h.storages[i] \in Storages
    BY <1>10, <1>11
  <2>2. ss[i] = IF i \in routed THEN [h.storages[i] EXCEPT !.open = FALSE] ELSE h.storages[i]
    BY <1>6, <1>10, <1>11
  <2> QED
    BY <2>1, <2>2 DEF Storages
<1>13. ss \in Seq(Storages) /\ Len(ss) = n
  <2>1. ss = [i \in 1 .. n |-> ss[i]]
    BY <1>6, <1>10, <1>11
  <2>2. \A i \in 1 .. n : ss[i] \in Storages
    BY <1>12
  <2>3. ss \in Seq(Storages)
    BY <2>1, <2>2
  <2> QED
    BY <2>1, <2>3
<1>14. ASSUME NEW i \in 1 .. n, ss[i].open PROVE Shared(c, i)
  <2>1. Shared(h, i)
    <3>1. \/ h.storages[i].id \in DOMAIN h.registered /\ h.registered[h.storages[i].id] = i
          \/ Shared(h, i)
      BY <1>11, <1>12, <1>14 DEF RegistryOK
    <3> QED
      BY <1>4, <1>12, <1>14, <3>1
  <2> QED
    BY <1>9, <1>11, <1>12, <1>13, <2>1 DEF Shared
<1>15. DOMAIN c.registered = {}
  BY <1>9
<1> QED
  BY <1>7, <1>9, <1>13, <1>14, <1>15 DEF RegistryOK

LEMMA StillOK ==
    ASSUME RegistryInv, UNCHANGED peer PROVE RegistryInv'
BY DEF RegistryInv, RegistryOK, Shared

\* The peer once the storage is created
Created(h, kind, id) ==
    [h EXCEPT !.storages = Append(@, [kind |-> kind, id |-> id, open |-> TRUE]),
              !.registered = [x \in DOMAIN @ \cup {id} |->
                                IF x = id THEN Len(h.storages) + 1 ELSE @[x]]]

\* The peer once the storage is closed
Closed(h, n) ==
    [h EXCEPT !.storages[n].open = FALSE,
              !.registered = [x \in DOMAIN @ \ {h.storages[n].id} |-> @[x]]]

(* A new storage takes the registration of its id; only a queue or an      *)
(* emitter takes it from another.                                          *)
LEMMA CreateOK ==
    ASSUME NEW h, RegistryOK(h), NEW kind \in Kinds, NEW id \in Ids, ~Taken(h, kind, id)
    PROVE  RegistryOK(Created(h, kind, id))
<1>1. PICK g, n, s, ss, old, new :
        /\ g = Created(h, kind, id) /\ n = Len(h.storages) + 1
        /\ s = [kind |-> kind, id |-> id, open |-> TRUE]
        /\ old = h.storages /\ ss = Append(old, s)
        /\ new = [x \in DOMAIN h.registered \cup {id} |->
                    IF x = id THEN n ELSE h.registered[x]]
  OBVIOUS
<1>2. DOMAIN g = Fields /\ g.storages = ss /\ g.registered = new
  BY <1>1 DEF RegistryOK, Fields, Created
<1>3. s \in Storages /\ s.kind = kind /\ s.id = id /\ s.open
  BY <1>1 DEF Storages
<1>4. old \in Seq(Storages) /\ n = Len(old) + 1 /\ n \in Nat /\ Len(old) \in Nat
  BY <1>1 DEF RegistryOK
<1>5. /\ ss \in Seq(Storages) /\ Len(ss) = n /\ ss[n] = s
      /\ \A i \in 1 .. Len(old) : ss[i] = old[i]
  BY <1>1, <1>3, <1>4
<1>6. ASSUME NEW x \in DOMAIN new
      PROVE  new[x] \in 1 .. n /\ ss[new[x]].id = x /\ ss[new[x]].open
  <2>1. CASE x = id
    BY <1>1, <1>3, <1>4, <1>5, <2>1
  <2>2. CASE x # id
    <3>1. x \in DOMAIN h.registered /\ new[x] = h.registered[x]
      BY <1>1, <1>6, <2>2
    <3>2. h.registered[x] \in 1 .. Len(old) /\ old[h.registered[x]].id = x
          /\ old[h.registered[x]].open
      BY <1>1, <3>1 DEF RegistryOK
    <3> QED
      BY <1>4, <1>5, <3>1, <3>2
  <2> QED
    BY <2>1, <2>2
<1>7. ASSUME NEW i \in 1 .. n, ss[i].open
      PROVE  (ss[i].id \in DOMAIN new /\ new[ss[i].id] = i) \/ Shared(g, i)
  <2>1. CASE i = n
    BY <1>1, <1>3, <1>5, <2>1
  <2>2. CASE i # n
    <3>1. i \in 1 .. Len(old) /\ ss[i] = old[i]
      BY <1>4, <1>5, <2>2
    <3>2. \/ old[i].id \in DOMAIN h.registered /\ h.registered[old[i].id] = i
          \/ Shared(h, i)
      BY <1>1, <1>7, <3>1 DEF RegistryOK
    <3>3. CASE Shared(h, i)
      <4>1. PICK m \in 1 .. Len(old) : m # i /\ old[m].id = old[i].id
        BY <1>1, <3>3 DEF Shared
      <4>2. PICK k \in 1 .. Len(old) : old[k].id = old[i].id /\ old[k].kind \in Sharing
        BY <1>1, <3>3 DEF Shared
      <4>3. m \in 1 .. n /\ k \in 1 .. n /\ ss[m] = old[m] /\ ss[k] = old[k]
        BY <1>4, <1>5
      <4> QED
        BY <1>2, <1>5, <3>1, <4>1, <4>2, <4>3 DEF Shared
    <3>4. CASE old[i].id \in DOMAIN h.registered /\ h.registered[old[i].id] = i
      <4>1. CASE old[i].id # id
        BY <1>1, <3>1, <3>4, <4>1
      <4>2. CASE old[i].id = id
        <5>1. kind \in Sharing
          BY <3>4, <4>2 DEF Taken, Kinds, Sharing
        <5>2. n \in 1 .. n /\ n # i /\ ss[n].id = ss[i].id /\ ss[n].kind \in Sharing
          BY <1>3, <1>4, <1>5, <2>2, <3>1, <4>2, <5>1
        <5> QED
          BY <1>2, <1>5, <5>2 DEF Shared
      <4> QED
        BY <4>1, <4>2
    <3> QED
      BY <3>2, <3>3, <3>4
  <2> QED
    BY <2>1, <2>2
<1>8. RegistryOK(g)
  BY <1>2, <1>5, <1>6, <1>7 DEF RegistryOK
<1> QED
  BY <1>1, <1>8

(* A storage that closes takes away what is registered under its id: its   *)
(* own registration, or that of one which shares the id.                   *)
LEMMA CloseStorageOK ==
    ASSUME NEW h, RegistryOK(h), NEW n \in 1 .. Len(h.storages), h.storages[n].open
    PROVE  RegistryOK(Closed(h, n))
<1>1. PICK g, id, old, ss, new :
        /\ g = Closed(h, n) /\ id = h.storages[n].id
        /\ old = h.storages /\ ss = [old EXCEPT ![n].open = FALSE]
        /\ new = [x \in DOMAIN h.registered \ {id} |-> h.registered[x]]
  OBVIOUS
<1>2. DOMAIN g = Fields /\ g.storages = ss /\ g.registered = new
  BY <1>1 DEF RegistryOK, Fields, Closed
<1>3. PICK len \in Nat : old \in Seq(Storages) /\ len = Len(old) /\ DOMAIN old = 1 .. len
  BY <1>1 DEF RegistryOK
<1>4. ASSUME NEW i \in 1 .. len
      PROVE  /\ ss[i] \in Storages /\ ss[i].id = old[i].id /\ ss[i].kind = old[i].kind
             /\ ss[i].open <=> (old[i].open /\ i # n)
  <2>1. old[i] \in Storages
    BY <1>3
  <2>2. ss[i] = IF i = n THEN [old[i] EXCEPT !.open = FALSE] ELSE old[i]
    BY <1>1, <1>3
  <2> QED
    BY <2>1, <2>2 DEF Storages
<1>5. ss \in Seq(Storages) /\ Len(ss) = len
  <2>1. ss = [i \in 1 .. len |-> ss[i]]
    BY <1>1, <1>3
  <2>2. ss \in Seq(Storages)
    BY <1>4, <2>1
  <2> QED
    BY <2>1, <2>2
<1>6. ASSUME NEW x \in DOMAIN new
      PROVE  new[x] \in 1 .. len /\ ss[new[x]].id = x /\ ss[new[x]].open
  <2>1. x \in DOMAIN h.registered /\ new[x] = h.registered[x] /\ x # id
    BY <1>1, <1>6
  <2>2. h.registered[x] \in 1 .. len /\ old[h.registered[x]].id = x /\ old[h.registered[x]].open
    BY <1>1, <1>3, <2>1 DEF RegistryOK
  <2>3. h.registered[x] # n
    BY <1>1, <2>1, <2>2
  <2> QED
    BY <1>4, <2>1, <2>2, <2>3
<1>7. ASSUME NEW i \in 1 .. len PROVE Shared(h, i) => Shared(g, i)
  BY <1>1, <1>2, <1>3, <1>4, <1>5 DEF Shared
<1>8. ASSUME NEW i \in 1 .. len, ss[i].open
      PROVE  (ss[i].id \in DOMAIN new /\ new[ss[i].id] = i) \/ Shared(g, i)
  <2>1. i # n /\ old[i].open /\ ss[i].id = old[i].id
    BY <1>4, <1>8
  <2>2. \/ old[i].id \in DOMAIN h.registered /\ h.registered[old[i].id] = i
        \/ Shared(h, i)
    BY <1>1, <1>3, <2>1 DEF RegistryOK
  <2>3. CASE Shared(h, i)
    BY <1>7, <2>3
  <2>4. CASE old[i].id \in DOMAIN h.registered /\ h.registered[old[i].id] = i
    <3>1. CASE old[i].id # id
      BY <1>1, <2>1, <2>4, <3>1
    <3>2. CASE old[i].id = id
      <4>1. Shared(h, n)
        BY <1>1, <2>1, <2>4, <3>2 DEF RegistryOK
      <4>2. Shared(h, i)
        <5>1. \E k \in 1 .. Len(h.storages) :
                h.storages[k].id = h.storages[i].id /\ h.storages[k].kind \in Sharing
          BY <1>1, <3>2, <4>1 DEF Shared
        <5> QED
          BY <1>1, <2>1, <3>2, <5>1 DEF Shared
      <4> QED
        BY <1>7, <4>2
    <3> QED
      BY <3>1, <3>2
  <2> QED
    BY <2>2, <2>3, <2>4
<1>9. RegistryOK(g)
  BY <1>2, <1>5, <1>6, <1>8 DEF RegistryOK
<1> QED
  BY <1>1, <1>9

LEMMA StorageStepsOK ==
    ASSUME RegistryInv, NEW p \in Peers,
           \/ \E kind \in Kinds, id \in Ids : Create(p, kind, id)
           \/ \E n \in DOMAIN peer[p].storages : CloseStorage(p, n)
    PROVE  RegistryInv'
<1>1. PICK h : h = peer[p]
  OBVIOUS
<1>2. RegistryOK(h)
  BY <1>1 DEF RegistryInv
<1>3. ASSUME NEW kind \in Kinds, NEW id \in Ids, Create(p, kind, id) PROVE RegistryInv'
  <2>1. ~Taken(h, kind, id) /\ Becomes(p, Created(h, kind, id), net)
    BY <1>1, <1>3 DEF Create, Created
  <2> QED
    BY <1>2, <2>1, CreateOK, BecomesRegistryOK
<1>4. ASSUME NEW n \in DOMAIN h.storages, CloseStorage(p, n) PROVE RegistryInv'
  <2>1. h.storages[n].open /\ Becomes(p, Closed(h, n), net)
    BY <1>1, <1>4 DEF CloseStorage, Closed
  <2>2. n \in 1 .. Len(h.storages)
    BY <1>2, <1>4 DEF RegistryOK
  <2> QED
    BY <1>2, <2>1, <2>2, CloseStorageOK, BecomesRegistryOK
<1> QED
  BY <1>1, <1>3, <1>4

LEMMA GridStepsOK ==
    ASSUME RegistryInv, NEW p \in Peers, NEW q \in Peers,
           \/ CallJoin(p) \/ CallLeave(p) \/ CallClose(p) \/ JoinTimeout(p)
           \/ Heartbeat(p) \/ FollowerTimeout(p) \/ Elect(p) \/ Submit(p)
           \/ Deliver(q, p) \/ KeepAlive(q, p) \/ Hear(p, q) \/ Silence(p, q) \/ Unsynced(p, q)
    PROVE  RegistryInv'
<1>1. PICK h : h = peer[p]
  OBVIOUS
<1>2. RegistryOK(h) /\ DOMAIN h = Fields
  BY <1>1 DEF RegistryInv, RegistryOK
<1>3. CASE CallJoin(p)
  BY <1>1, <1>2, <1>3, JoinKept, KeepingOK DEF CallJoin
<1>4. CASE CallLeave(p)
  BY <1>1, <1>2, <1>4, LeftKept, KeepingOK DEF CallLeave
<1>5. CASE CallClose(p)
  BY <1>1, <1>2, <1>5, CloseOK, BecomesRegistryOK DEF CallClose
<1>6. CASE JoinTimeout(p)
  <2>1. PICK woken, again :
            /\ woken = [h EXCEPT !.joining = "woken"]
            /\ again = [h EXCEPT !.timer = TRUE,
                                 !.retried = IF h.remotePeers = {} THEN @ + 1 ELSE @]
    OBVIOUS
  <2>2. Kept(woken, h) /\ Kept(again, h)
    BY <1>2, <2>1 DEF Kept, Fields
  <2>3. Becomes(p, woken, net) \/ Becomes(p, again, net)
    BY <1>1, <1>6, <2>1 DEF JoinTimeout
  <2> QED
    BY <1>1, <2>2, <2>3, KeepingOK
<1>7. CASE Heartbeat(p)
  BY <1>1, <1>2, <1>7, HeartbeatKept, KeepingOK DEF Heartbeat
<1>8. CASE FollowerTimeout(p)
  BY <1>1, <1>2, <1>8, LeaderKept, KeepingOK DEF FollowerTimeout
<1>9. CASE Elect(p)
  <2>1. PICK g : g = [h EXCEPT !.term = @ + 1]
    OBVIOUS
  <2>2. Kept(g, h)
    BY <1>2, <2>1 DEF Kept, Fields
  <2>3. Kept(LeaderChanged(g, p), h)
    BY <2>2, LeaderKept, KeptTwice DEF Kept
  <2> QED
    BY <1>1, <1>9, <2>1, <2>3, KeepingOK DEF Elect
<1>10. CASE Deliver(q, p)
  <2>1. PICK m : m = Head(net[q][p])
    OBVIOUS
  <2>2. \/ UNCHANGED peer
        \/ \E channels : \/ Becomes(p, ReceiveJoin(h, m), channels)
                         \/ Becomes(p, ReceiveEndpointStates(h, m), channels)
    BY <1>1, <1>10, <2>1 DEF Deliver
  <2>3. CASE UNCHANGED peer
    BY <2>3, StillOK
  <2> QED
    BY <1>1, <1>2, <2>2, <2>3, ReceiveKept, KeepingOK
<1>11. CASE KeepAlive(q, p)
  <2>0. PICK log : \/ Becomes(p, [LeaderChanged(h, q) EXCEPT !.term = peer[q].term,
                                                            !.log = log], net)
                   \/ Becomes(p, LeaderChanged(h, Nil), net)
    BY <1>1, <1>11 DEF KeepAlive
  <2>1. PICK c, g : /\ c = LeaderChanged(h, q)
                    /\ g = [c EXCEPT !.term = peer[q].term, !.log = log]
    OBVIOUS
  <2>2. Kept(c, h)
    BY <1>2, <2>1, LeaderKept
  <2>3. Kept(g, h)
    BY <2>1, <2>2 DEF Kept, Fields
  <2>4. Becomes(p, g, net) \/ Becomes(p, LeaderChanged(h, Nil), net)
    BY <2>0, <2>1
  <2> QED
    BY <1>1, <1>2, <2>3, <2>4, LeaderKept, KeepingOK
<1>12. CASE Hear(p, q)
  <2>1. PICK g : g = _acceptKeepAliveHamokMessage(h, q)
    OBVIOUS
  <2>2. Kept(g, h)
    BY <1>2, <2>1 DEF _acceptKeepAliveHamokMessage, Kept, Fields
  <2>3. PICK a \in Answered(g, q) : Becomes(p, a, net)
    BY <1>1, <1>12, <2>1 DEF Hear
  <2>4. Kept(a, h)
    BY <2>2, LogsOnly DEF SameButLogs, Kept
  <2> QED
    BY <1>1, <2>3, <2>4, KeepingOK
<1>13. CASE Silence(p, q)
  <2>1. PICK g : g = [h EXCEPT !.stale = @ \cup {q}]
    OBVIOUS
  <2>2. Kept(g, h)
    BY <1>2, <2>1 DEF Kept, Fields
  <2>3. peer' = [peer EXCEPT ![p] = g]
    BY <1>1, <1>13, <2>1 DEF Silence
  <2>4. RegistryOK(g)
    BY <1>2, <2>2, KeptOK
  <2> QED
    BY <2>3, <2>4 DEF RegistryInv
<1>14. CASE Unsynced(p, q)
  BY <1>1, <1>2, <1>14, PeersKept, KeepingOK DEF Unsynced
<1>15. CASE Submit(p)
  <2>1. PICK g : g = [h EXCEPT !.log = WithNext(@, h.term)]
    OBVIOUS
  <2>2. Kept(g, h)
    BY <1>2, <2>1, LogsOnly DEF SameButLogs, Kept
  <2> QED
    BY <1>1, <1>15, <2>1, <2>2, KeepingOK DEF Submit
<1> QED
  BY <1>3, <1>4, <1>5, <1>6, <1>7, <1>8, <1>9, <1>10, <1>11, <1>12, <1>13, <1>14, <1>15

LEMMA RegistryInitOK == Init => RegistryInv
<1> SUFFICES ASSUME Init PROVE RegistryInv
  OBVIOUS
<1>1. ASSUME NEW p \in Peers PROVE RegistryOK(peer[p])
  <2>1. PICK n, g : n = NewPeer(p, setting.logs[p]) /\ g = Formed(p)
    OBVIOUS
  <2>2. DOMAIN n = Fields /\ n.storages = <<>> /\ n.registered = <<>>
    BY <2>1 DEF NewPeer, Fields
  <2>3. RegistryOK(n)
    BY <2>2 DEF RegistryOK
  <2>4. Kept(g, n)
    BY <2>1, <2>2 DEF Formed, Kept, Fields
  <2> QED
    BY <2>1, <2>3, <2>4, KeptOK DEF Init
<1> QED
  BY <1>1 DEF Init, RegistryInv

LEMMA RegistryStepOK == RegistryInv /\ [Next]_vars => RegistryInv'
<1> SUFFICES ASSUME RegistryInv, [Next]_vars PROVE RegistryInv'
  OBVIOUS
<1>1. CASE UNCHANGED peer
  BY <1>1, StillOK
<1>2. CASE UNCHANGED vars
  BY <1>1, <1>2 DEF vars
<1>3. ASSUME NEW p \in Peers, NEW q \in Peers, Lose(q, p) PROVE RegistryInv'
  BY <1>1, <1>3 DEF Lose
<1> QED
  BY <1>2, <1>3, GridStepsOK, StorageStepsOK DEF Next

(* Whatever is created and closed, and whatever happens to the grid: an    *)
(* open storage that shares its id with no queue and no emitter is the one *)
(* that messages for the id reach, and messages reach open storages only.  *)
THEOREM MessagesFindStorages == Spec => []OpenIsRouted
<1>1. RegistryInv => OpenIsRouted
  <2> SUFFICES ASSUME RegistryInv, NEW p \in Peers, NEW h, h = peer[p]
               PROVE  /\ \A x \in DOMAIN h.registered : h.storages[h.registered[x]].open
                      /\ \A n \in DOMAIN h.storages :
                          h.storages[n].open =>
                            \/ /\ h.storages[n].id \in DOMAIN h.registered
                               /\ h.registered[h.storages[n].id] = n
                            \/ SharesId(h, n)
    BY DEF OpenIsRouted
  <2>1. RegistryOK(h)
    BY DEF RegistryInv
  <2>2. h.storages \in Seq(Storages) /\ DOMAIN h.storages = 1 .. Len(h.storages)
    BY <2>1 DEF RegistryOK
  <2> QED
    BY <2>1, <2>2, SharedMeans DEF RegistryOK
<1> QED
  BY <1>1, RegistryInitOK, RegistryStepOK, PTL DEF Spec

-----------------------------------------------------------------------------
(* Lists of messages.                                                      *)

IsMessage(m) ==
    /\ m.from \in Peers /\ m.to \in Peers
    /\ m.type = "EndpointStates" => m.active \subseteq Peers

\* ms is a list of messages between peers.
Messages(ms) == \E S : ms \in Seq(S) /\ \A m \in S : IsMessage(m)

LEMMA NoMessages == Messages(<<>>)
<1>1. PICK S : S = {}
  OBVIOUS
<1>2. <<>> \in Seq(S) /\ \A m \in S : IsMessage(m)
  BY <1>1
<1> QED
  BY <1>2, Zenon DEF Messages

LEMMA OneMore == ASSUME NEW ms, Messages(ms), NEW m, IsMessage(m) PROVE Messages(Append(ms, m))
<1>1. PICK S : ms \in Seq(S) /\ \A x \in S : IsMessage(x)
  BY DEF Messages
<1>2. PICK T : T = S \cup {m}
  OBVIOUS
<1>3. ms \in Seq(T) /\ m \in T
  BY <1>1, <1>2
<1>4. Append(ms, m) \in Seq(T)
  BY <1>3
<1>5. \A x \in T : IsMessage(x)
  BY <1>1, <1>2
<1> QED
  BY <1>4, <1>5 DEF Messages

LEMMA BothLists == ASSUME NEW a, NEW b, Messages(a), Messages(b) PROVE Messages(a \o b)
<1>1. PICK S : a \in Seq(S) /\ \A x \in S : IsMessage(x)
  BY DEF Messages
<1>2. PICK T : b \in Seq(T) /\ \A x \in T : IsMessage(x)
  BY DEF Messages
<1>3. PICK U : U = S \cup T
  OBVIOUS
<1>4. a \in Seq(U) /\ b \in Seq(U)
  BY <1>1, <1>2, <1>3
<1>5. a \o b \in Seq(U)
  BY <1>4
<1>6. \A x \in U : IsMessage(x)
  BY <1>1, <1>2, <1>3
<1> QED
  BY <1>5, <1>6 DEF Messages

LEMMA TheRest ==
    ASSUME NEW ms, Messages(ms), ms # <<>> PROVE IsMessage(Head(ms)) /\ Messages(Tail(ms))
<1>1. PICK S : ms \in Seq(S) /\ \A x \in S : IsMessage(x)
  BY DEF Messages
<1>2. Head(ms) \in S /\ Tail(ms) \in Seq(S)
  BY <1>1
<1> QED
  BY <1>1, <1>2 DEF Messages

(* A set of naturals that is not empty has a least element.                *)
LEMMA LeastNatural ==
    ASSUME NEW S \in SUBSET Nat, S # {}
    PROVE  \E m \in S : \A x \in S : m <= x
<1>1. IsWellFoundedOn(OpToRel(<, Nat), Nat)
  BY NatLessThanWellFounded
<1>2. PICK m \in S : \A x \in S : ~(<<x, m>> \in OpToRel(<, Nat))
  BY <1>1, WFMin
<1>3. \A x \in S : ~(x < m)
  BY <1>2 DEF OpToRel
<1> QED
  BY <1>3

(* A set that has 0, and with a number the next, has every natural.        *)
LEMMA UpFromZero ==
    ASSUME NEW S, 0 \in S, \A n \in Nat : n \in S => n + 1 \in S
    PROVE  Nat \subseteq S
<1> SUFFICES ASSUME Nat \ S # {} PROVE FALSE
  OBVIOUS
<1>1. PICK n \in Nat \ S : \A m \in Nat \ S : n <= m
  BY LeastNatural
<1>2. n \in Nat /\ n # 0
  BY <1>1
<1>3. n - 1 \in S
  BY <1>1, <1>2
<1> QED
  BY <1>1, <1>2, <1>3

(* A set as a list has every member of the set.                            *)
LEMMA SetListedWhole ==
    ASSUME NEW S, IsFiniteSet(S)
    PROVE  LET s == Sequence!SetToSeq(S)
           IN  s \in Seq(S) /\ \A x \in S : \E i \in 1 .. Len(s) : s[i] = x
<1>1. PICK n : n = Cardinality(S)
  OBVIOUS
<1>2. n \in Nat /\ ExistsBijection(1 .. n, S)
  BY <1>1, FS_CardinalityType
<1>3. PICK f \in [1 .. n -> S] : \A a, b \in 1 .. n : f[a] = f[b] => a = b
  BY <1>2 DEF ExistsBijection, Bijection, Injection, IsInjective
<1>4. Sequence!IsInjective(f)
  BY <1>3 DEF Sequence!IsInjective
<1>5. PICK s : s = Sequence!SetToSeq(S)
  OBVIOUS
<1>6. s \in [1 .. n -> S] /\ Sequence!IsInjective(s)
  <2>1. Sequence!Cardinality(S) = n
    BY <1>1 DEF Sequence!Cardinality, Cardinality
  <2>2. s = CHOOSE g \in [1 .. n -> S] : Sequence!IsInjective(g)
    BY <1>5, <2>1 DEF Sequence!SetToSeq
  <2> QED
    BY <1>4, <2>2, Zenon
<1>7. s \in Injection(1 .. n, S)
  BY <1>6 DEF Sequence!IsInjective, Injection, IsInjective
<1>8. IsFiniteSet(1 .. n) /\ Cardinality(1 .. n) = n
  BY <1>2, FS_Interval
<1>9. s \in Surjection(1 .. n, S)
  BY <1>1, <1>7, <1>8, FS_Injection
<1>10. s \in Seq(S) /\ Len(s) = n
  BY <1>2, <1>6
<1>11. \A x \in S : \E i \in 1 .. n : s[i] = x
  BY <1>9 DEF Surjection
<1> QED
  BY <1>5, <1>10, <1>11

LEMMA SetListed == ASSUME NEW S, IsFiniteSet(S) PROVE Sequence!SetToSeq(S) \in Seq(S)
  BY SetListedWhole

LEMMA SetOfMessages ==
    ASSUME NEW S, IsFiniteSet(S), \A m \in S : IsMessage(m) PROVE Messages(Sequence!SetToSeq(S))
  BY SetListed DEF Messages

\* s has what the first lists among n are together.
Flattens(lists, s, n) == s = [i \in 1 .. n |-> IF i = 1 THEN lists[i] ELSE s[i - 1] \o lists[i]]

(* The recursive definition has a solution.                                *)
LEMMA FlattensExist ==
    ASSUME NEW lists, NEW n \in Nat
    PROVE  \E s : Flattens(lists, s, n)
<1> DEFINE S == {m \in Nat : \E s : Flattens(lists, s, m)}
<1>1. 0 \in S
  <2> DEFINE s == [i \in 1 .. 0 |-> lists[i]]
  <2>1. s = [i \in 1 .. 0 |-> IF i = 1 THEN lists[i] ELSE s[i - 1] \o lists[i]]
    OBVIOUS
  <2>2. Flattens(lists, s, 0)
    BY <2>1 DEF Flattens
  <2> QED
    BY <2>2
<1>2. ASSUME NEW m \in Nat, m \in S PROVE m + 1 \in S
  <2>1. PICK s : Flattens(lists, s, m)
    BY <1>2
  <2> DEFINE g == [i \in 1 .. m + 1 |->
                        IF i = m + 1 THEN IF m = 0 THEN lists[i] ELSE s[m] \o lists[m + 1]
                        ELSE s[i]]
  <2>2. ASSUME NEW i \in 1 .. m + 1
        PROVE  g[i] = IF i = 1 THEN lists[i] ELSE g[i - 1] \o lists[i]
    <3>1. CASE i = m + 1 /\ m = 0
      BY <3>1
    <3>2. CASE i = m + 1 /\ m # 0
      <4>1. m + 1 # 1 /\ m \in 1 .. m + 1 /\ m # m + 1 /\ (m + 1) - 1 = m /\ m + 1 \in 1 .. m + 1
        BY <3>2
      <4>2. g[m + 1] = s[m] \o lists[m + 1] /\ g[m] = s[m]
        BY <3>2, <4>1
      <4> HIDE DEF g
      <4> QED
        BY <3>2, <4>1, <4>2
    <3>3. CASE i \in 1 .. m
      <4>1. g[i] = s[i] /\ (i # 1 => g[i - 1] = s[i - 1])
        BY <3>3
      <4>2. s[i] = IF i = 1 THEN lists[i] ELSE s[i - 1] \o lists[i]
        BY <2>1, <3>3 DEF Flattens
      <4> HIDE DEF g
      <4> QED
        BY <4>1, <4>2
    <3> QED
      BY <3>1, <3>2, <3>3
  <2>3. g = [i \in 1 .. m + 1 |-> g[i]]
    OBVIOUS
  <2> HIDE DEF g
  <2>4. Flattens(lists, g, m + 1)
    BY <2>2, <2>3 DEF Flattens
  <2> QED
    BY <2>4
<1> HIDE DEF S
<1>3. n \in S
  BY <1>1, <1>2, UpFromZero
<1> QED
  BY <1>3 DEF S

(* Lists of messages, one after the other, are one.                        *)
LEMMA AllLists ==
    ASSUME NEW n \in Nat, NEW lists, lists = [i \in 1 .. n |-> lists[i]],
           \A i \in 1 .. n : Messages(lists[i])
    PROVE  Messages(Sequence!FlattenSeq(lists))
<1>1. lists \in Seq({lists[i] : i \in 1 .. n}) /\ Len(lists) = n
  OBVIOUS
<1>2. CASE n = 0
  <2>1. lists = <<>>
    BY <1>1, <1>2
  <2>2. Sequence!FlattenSeq(lists) = lists
    BY <1>1, <1>2 DEF Sequence!FlattenSeq
  <2> QED
    BY <2>1, <2>2, NoMessages
<1>3. CASE n # 0
  <2>1. PICK s : s = CHOOSE g : Flattens(lists, g, n)
    OBVIOUS
  <2>2. Flattens(lists, s, n)
    BY <2>1, FlattensExist
  <2>3. Sequence!FlattenSeq(lists) = s[n]
    BY <1>1, <1>3, <2>1 DEF Sequence!FlattenSeq, Flattens
  <2> DEFINE S == {i \in Nat : i < n => Messages(s[i + 1])}
  <2>4. 0 \in S
    <3>1. s[1] = lists[1]
      BY <1>3, <2>2 DEF Flattens
    <3> QED
      BY <1>3, <3>1
  <2>5. ASSUME NEW i \in Nat, i \in S PROVE i + 1 \in S
    <3> SUFFICES ASSUME i + 1 < n PROVE Messages(s[(i + 1) + 1])
      OBVIOUS
    <3>1. PICK j : j = (i + 1) + 1
      OBVIOUS
    <3>2. j \in 1 .. n /\ j # 1 /\ j - 1 = i + 1 /\ i < n
      BY <3>1
    <3>3. Messages(s[i + 1])
      BY <2>5, <3>2
    <3>4. s[j] = s[i + 1] \o lists[j]
      BY <2>2, <3>2 DEF Flattens
    <3> QED
      BY <3>1, <3>2, <3>3, <3>4, BothLists
  <2>6. n - 1 \in S
    <3>1. n - 1 \in Nat
      BY <1>3
    <3> HIDE DEF S
    <3> QED
      BY <2>4, <2>5, <3>1, UpFromZero
  <2>7. Messages(s[n])
    BY <1>3, <2>6
  <2> QED
    BY <2>3, <2>7
<1> QED
  BY <1>2, <1>3

-----------------------------------------------------------------------------
(* Whom a peer knows, hears and follows.                                   *)

\* Whom a peer may know, hear and follow, also in the middle of a handler
Knowing(h) ==
    /\ DOMAIN h = Fields
    /\ h.id \in Peers
    /\ h.leaderId \in Peers \cup {Nil}
    /\ h.remotePeers \subseteq Peers \ {h.id}
    /\ h.stale \subseteq h.heard /\ h.heard \subseteq Peers \ {h.id}
    /\ Messages(h.out)

\* g differs from h only in what Knowing does not speak of.
KnowsAsMuch(g, h) ==
    /\ DOMAIN g = Fields
    /\ g.id = h.id /\ g.leaderId = h.leaderId /\ g.remotePeers = h.remotePeers
    /\ g.stale = h.stale /\ g.heard = h.heard /\ g.out = h.out

LEMMA KnowsAsMuchOK == ASSUME NEW g, NEW h, Knowing(h), KnowsAsMuch(g, h) PROVE Knowing(g)
  BY DEF Knowing, KnowsAsMuch

LEMMA PartsFinite == \A S : S \subseteq Peers => IsFiniteSet(S)
  BY SettingsAssumption, FS_Subset

LEMMA ImagesFinite ==
    ASSUME NEW S, S \subseteq Peers, NEW f, f = [x \in S |-> f[x]]
    PROVE  IsFiniteSet({f[x] : x \in S})
<1>1. f \in Surjection(S, {f[x] : x \in S})
  BY DEF Surjection
<1> QED
  BY <1>1, PartsFinite, FS_Surjection

LEMMA NotificationsOK ==
    ASSUME NEW h, h.id \in Peers, NEW qs, qs \subseteq Peers
    PROVE  Messages(Notifications(h, qs))
<1>1. PICK f : f = [q \in qs |-> EndpointStates(h, q, qs)]
  OBVIOUS
<1>2. PICK S : S = {f[q] : q \in qs}
  OBVIOUS
<1>3. IsFiniteSet(S)
  BY <1>1, <1>2, ImagesFinite
<1>4. ASSUME NEW q \in qs PROVE IsMessage(EndpointStates(h, q, qs))
  BY DEF EndpointStates, IsMessage
<1>5. S = {EndpointStates(h, q, qs) : q \in qs}
  BY <1>1, <1>2
<1>6. \A m \in S : IsMessage(m)
  BY <1>4, <1>5
<1> QED
  BY <1>3, <1>5, <1>6, SetOfMessages DEF Notifications

\* Notifications after each of several changes
LEMMA ToldOK ==
    ASSUME NEW h, h.id \in Peers, NEW S, IsFiniteSet(S), NEW s, s = Sequence!SetToSeq(S),
           NEW known, \A j \in DOMAIN s : known[j] \subseteq Peers
    PROVE  Messages(Sequence!FlattenSeq([j \in DOMAIN s |-> Notifications(h, known[j])]))
<1>1. s \in Seq(S)
  BY SetListed
<1>2. PICK n \in Nat : n = Len(s) /\ DOMAIN s = 1 .. n
  BY <1>1
<1>3. PICK lists : lists = [j \in DOMAIN s |-> Notifications(h, known[j])]
  OBVIOUS
<1>4. lists = [i \in 1 .. n |-> lists[i]] /\ \A i \in 1 .. n : Messages(lists[i])
  BY <1>2, <1>3, NotificationsOK
<1> QED
  BY <1>3, <1>4, AllLists

LEMMA EmitKnows ==
    ASSUME NEW h, Knowing(h), NEW m, IsMessage(m)
    PROVE  Knowing(Emit(h, m)) /\ Emit(h, m).id = h.id
<1>1. PICK g : g = Emit(h, m)
  OBVIOUS
<1>2. /\ DOMAIN g = Fields /\ g.id = h.id /\ g.leaderId = h.leaderId
      /\ g.remotePeers = h.remotePeers /\ g.stale = h.stale /\ g.heard = h.heard
      /\ g.out = Append(h.out, m)
  BY <1>1 DEF Emit, Knowing, Fields
<1> QED
  BY <1>1, <1>2, OneMore DEF Knowing

LEMMA AddPeersKnows ==
    ASSUME NEW h, Knowing(h), NEW qs, qs \subseteq Peers
    PROVE  Knowing(AddPeers(h, qs)) /\ AddPeers(h, qs).id = h.id
<1>1. PICK g, s : g = AddPeers(h, qs) /\ s = Sequence!SetToSeq(qs \ (h.remotePeers \cup {h.id}))
  OBVIOUS
<1>2. PICK known : known = [j \in DOMAIN s |-> h.remotePeers \cup {s[i] : i \in 1 .. j}]
  OBVIOUS
<1>3. PICK told : told = Sequence!FlattenSeq([j \in DOMAIN s |-> Notifications(h, known[j])])
  OBVIOUS
<1>4. IsFiniteSet(qs \ (h.remotePeers \cup {h.id}))
  BY PartsFinite
<1>5. Messages(told)
  <2>1. s \in Seq(qs \ (h.remotePeers \cup {h.id}))
    BY <1>1, <1>4, SetListed
  <2>2. \A j \in DOMAIN s : known[j] \subseteq Peers
    BY <1>2, <2>1 DEF Knowing
  <2> QED
    BY <1>1, <1>3, <1>4, <2>2, ToldOK DEF Knowing
<1>6. told = Sequence!FlattenSeq([j \in DOMAIN s |->
                                    Notifications(h, h.remotePeers \cup {s[i] : i \in 1 .. j})])
  <2>1. [j \in DOMAIN s |-> Notifications(h, known[j])] =
            [j \in DOMAIN s |-> Notifications(h, h.remotePeers \cup {s[i] : i \in 1 .. j})]
    BY <1>2
  <2> QED
    BY <1>3, <2>1
<1>7. g = [h EXCEPT !.remotePeers = @ \cup (qs \ {h.id}),
                    !.out = IF leader(h) THEN @ \o told ELSE @]
  BY <1>1, <1>6 DEF AddPeers
<1>8. /\ DOMAIN g = Fields /\ g.id = h.id /\ g.leaderId = h.leaderId
      /\ g.remotePeers = h.remotePeers \cup (qs \ {h.id})
      /\ g.stale = h.stale /\ g.heard = h.heard
      /\ g.out = h.out \/ g.out = h.out \o told
  BY <1>7 DEF Knowing, Fields
<1>9. Messages(g.out)
  <2>1. Messages(h.out)
    BY DEF Knowing
  <2>2. Messages(h.out \o told)
    BY <1>5, <2>1, BothLists
  <2>3. g.out = h.out \/ g.out = h.out \o told
    BY <1>8
  <2> QED
    BY <2>1, <2>2, <2>3
<1> QED
  BY <1>1, <1>8, <1>9 DEF Knowing

LEMMA RemovePeersKnows ==
    ASSUME NEW h, Knowing(h), NEW qs
    PROVE  Knowing(RemovePeers(h, qs)) /\ RemovePeers(h, qs).id = h.id
           /\ RemovePeers(h, qs).heard = h.heard /\ RemovePeers(h, qs).stale = h.stale
<1>1. PICK g, s : g = RemovePeers(h, qs) /\ s = Sequence!SetToSeq(qs \cap h.remotePeers)
  OBVIOUS
<1>2. PICK left : left = [j \in DOMAIN s |-> h.remotePeers \ {s[i] : i \in 1 .. j}]
  OBVIOUS
<1>3. PICK told : told = Sequence!FlattenSeq([j \in DOMAIN s |-> Notifications(h, left[j])])
  OBVIOUS
<1>4. IsFiniteSet(qs \cap h.remotePeers)
  BY PartsFinite DEF Knowing
<1>5. Messages(told)
  <2>1. \A j \in DOMAIN s : left[j] \subseteq Peers
    BY <1>2 DEF Knowing
  <2> QED
    BY <1>1, <1>3, <1>4, <2>1, ToldOK DEF Knowing
<1>6. told = Sequence!FlattenSeq([j \in DOMAIN s |->
                                    Notifications(h, h.remotePeers \ {s[i] : i \in 1 .. j})])
  <2>1. [j \in DOMAIN s |-> Notifications(h, left[j])] =
            [j \in DOMAIN s |-> Notifications(h, h.remotePeers \ {s[i] : i \in 1 .. j})]
    BY <1>2
  <2> QED
    BY <1>3, <2>1
<1>7. g = [h EXCEPT !.remotePeers = @ \ qs, !.nextIndex = Untracked(h, qs),
                   !.out = IF leader(h) THEN @ \o told ELSE @]
  BY <1>1, <1>6 DEF RemovePeers
<1>8. /\ DOMAIN g = Fields /\ g.id = h.id /\ g.leaderId = h.leaderId
      /\ g.remotePeers = h.remotePeers \ qs
      /\ g.stale = h.stale /\ g.heard = h.heard
      /\ g.out = h.out \/ g.out = h.out \o told
  BY <1>7 DEF Knowing, Fields
<1>9. Messages(g.out)
  <2>1. Messages(h.out)
    BY DEF Knowing
  <2>2. Messages(h.out \o told)
    BY <1>5, <2>1, BothLists
  <2>3. g.out = h.out \/ g.out = h.out \o told
    BY <1>8
  <2> QED
    BY <2>1, <2>2, <2>3
<1> QED
  BY <1>1, <1>8, <1>9 DEF Knowing

LEMMA JoinKnows ==
    ASSUME NEW h, Knowing(h), NEW n PROVE Knowing(join(h, n)) /\ join(h, n).id = h.id
<1>1. CASE h.closed \/ h.joining # "no" \/ h.leaderId # Nil
  BY <1>1 DEF join
<1>2. CASE ~(h.closed \/ h.joining # "no" \/ h.leaderId # Nil)
  <2>1. PICK g : g = join(h, n)
    OBVIOUS
  <2>2. g = [h EXCEPT !.run = TRUE, !.heard = {}, !.stale = {}, !.joining = "waiting",
                   !.retries = n, !.retried = 0, !.aborted = FALSE, !.timer = TRUE]
    BY <1>2, <2>1 DEF join
  <2>3. /\ DOMAIN g = Fields /\ g.id = h.id /\ g.leaderId = h.leaderId
        /\ g.remotePeers = h.remotePeers /\ g.stale = {} /\ g.heard = {} /\ g.out = h.out
    BY <2>2 DEF Knowing, Fields
  <2> QED
    BY <2>1, <2>3 DEF Knowing
<1> QED
  BY <1>1, <1>2

LEMMA LeaderKnows ==
    ASSUME NEW h, Knowing(h), NEW id \in Peers \cup {Nil}
    PROVE  /\ Knowing(LeaderChanged(h, id)) /\ LeaderChanged(h, id).id = h.id
           /\ ~h.run /\ h.joining = "no" => LeaderChanged(h, id).joining = "no"
<1>1. CASE h.leaderId = id
  BY <1>1 DEF LeaderChanged
<1>2. CASE h.leaderId # id
  <2>1. PICK c : c = [h EXCEPT !.leaderId = id, !.heard = {}, !.stale = {},
                               !.joining = IF @ = "waiting" THEN "woken" ELSE @]
    OBVIOUS
  <2>2. /\ DOMAIN c = Fields /\ c.id = h.id /\ c.leaderId = id /\ c.run = h.run
        /\ c.remotePeers = h.remotePeers /\ c.stale = {} /\ c.heard = {} /\ c.out = h.out
        /\ c.joining = IF h.joining = "waiting" THEN "woken" ELSE h.joining
        /\ c.closed = h.closed
    BY <2>1 DEF Knowing, Fields
  <2>3. Knowing(c)
    BY <2>2 DEF Knowing
  <2>4. CASE id = h.id
    <3>1. PICK g : g = broadcastEndpointNotification(c)
      OBVIOUS
    <3>2. /\ DOMAIN g = Fields /\ g.id = c.id /\ g.leaderId = c.leaderId
          /\ g.remotePeers = c.remotePeers /\ g.stale = c.stale /\ g.heard = c.heard
          /\ g.joining = c.joining /\ g.out = c.out \o Notifications(c, c.remotePeers)
      BY <2>3, <3>1 DEF broadcastEndpointNotification, Knowing, Fields
    <3>3. Messages(Notifications(c, c.remotePeers))
      <4>1. c.id \in Peers /\ c.remotePeers \subseteq Peers
        BY <2>3 DEF Knowing
      <4> QED
        BY <4>1, NotificationsOK
    <3>4. Messages(g.out)
      BY <2>3, <3>2, <3>3, BothLists DEF Knowing
    <3>5. LeaderChanged(h, id) = g
      BY <1>2, <2>1, <2>4, <3>1 DEF LeaderChanged
    <3> QED
      BY <2>2, <2>3, <3>2, <3>4, <3>5 DEF Knowing
  <2>5. CASE id # h.id /\ id = Nil /\ h.run /\ ~h.closed
    <3>1. PICK d : d = [c EXCEPT !.remotePeers = {}, !.nextIndex = Untracked(h, h.remotePeers)]
      OBVIOUS
    <3>2. /\ DOMAIN d = Fields /\ d.id = c.id /\ d.leaderId = c.leaderId
          /\ d.remotePeers = {} /\ d.stale = c.stale /\ d.heard = c.heard /\ d.out = c.out
      BY <2>3, <3>1 DEF Knowing, Fields
    <3>3. Knowing(d)
      BY <2>3, <3>2 DEF Knowing
    <3>4. LeaderChanged(h, id) = join(d, -1)
      BY <1>2, <2>1, <2>2, <2>5, <3>1 DEF LeaderChanged
    <3> QED
      BY <2>2, <2>5, <3>2, <3>3, <3>4, JoinKnows
  <2>6. CASE id # h.id /\ ~(id = Nil /\ h.run /\ ~h.closed)
    <3>1. LeaderChanged(h, id) = c
      BY <1>2, <2>1, <2>2, <2>6 DEF LeaderChanged
    <3> QED
      BY <2>2, <2>3, <3>1
  <2> QED
    BY <2>4, <2>5, <2>6
<1> QED
  BY <1>1, <1>2

LEMMA StopKnows ==
    ASSUME NEW h, Knowing(h)
    PROVE  /\ Knowing(_stopRaftEngine(h)) /\ _stopRaftEngine(h).id = h.id
           /\ ~h.run /\ h.joining = "no" => _stopRaftEngine(h).joining = "no"
<1>1. CASE ~h.timer
  BY <1>1 DEF _stopRaftEngine
<1>2. CASE h.timer
  <2>1. PICK c, g : c = LeaderChanged(h, Nil) /\ g = _stopRaftEngine(h)
    OBVIOUS
  <2>2. Knowing(c) /\ c.id = h.id /\ (~h.run /\ h.joining = "no" => c.joining = "no")
    BY <2>1, LeaderKnows
  <2>3. g = [c EXCEPT !.timer = FALSE, !.heard = {}, !.stale = {}]
    BY <1>2, <2>1 DEF _stopRaftEngine
  <2>4. /\ DOMAIN g = Fields /\ g.id = c.id /\ g.leaderId = c.leaderId /\ g.joining = c.joining
        /\ g.remotePeers = c.remotePeers /\ g.stale = {} /\ g.heard = {} /\ g.out = c.out
    BY <2>2, <2>3 DEF Knowing, Fields
  <2> QED
    BY <2>1, <2>2, <2>4 DEF Knowing
<1> QED
  BY <1>1, <1>2

LEMMA LeftKnows ==
    ASSUME NEW h, Knowing(h)
    PROVE  /\ Knowing(Left(h)) /\ Left(h).id = h.id
           /\ h.joining = "no" => Left(h).joining = "no"
<1>1. PICK f, g, k : /\ f = [h EXCEPT !.run = FALSE] /\ g = _stopRaftEngine(f)
                     /\ k = [g EXCEPT !.remotePeers = {}, !.nextIndex = Untracked(h, h.remotePeers),
                                 !.leaving = FALSE]
  OBVIOUS
<1>2. KnowsAsMuch(f, h) /\ ~f.run /\ f.joining = h.joining
  BY <1>1 DEF KnowsAsMuch, Knowing, Fields
<1>3. Knowing(f) /\ f.id = h.id
  BY <1>2, KnowsAsMuchOK DEF KnowsAsMuch
<1>4. Knowing(g) /\ g.id = h.id /\ (h.joining = "no" => g.joining = "no")
  BY <1>1, <1>2, <1>3, StopKnows
<1>5. /\ DOMAIN k = Fields /\ k.id = g.id /\ k.leaderId = g.leaderId /\ k.joining = g.joining
      /\ k.remotePeers = {} /\ k.stale = g.stale /\ k.heard = g.heard /\ k.out = g.out
  BY <1>1, <1>4 DEF Knowing, Fields
<1>6. k = Left(h)
  BY <1>1 DEF Left
<1> QED
  BY <1>4, <1>5, <1>6 DEF Knowing

LEMMA SettledKnows ==
    ASSUME NEW h, Knowing(h)
    PROVE  /\ Knowing(Settled(h)) /\ Settled(h).id = h.id
           /\ Settled(h).joining \in Joining => Settled(h).joining \in {"no", "waiting"}
<1>1. CASE h.joining # "woken"
  BY <1>1 DEF Settled, Joining
<1>2. CASE h.joining = "woken"
  <2>1. PICK d : d = [h EXCEPT !.joining = "no", !.aborted = FALSE]
    OBVIOUS
  <2>2. KnowsAsMuch(d, h) /\ d.joining = "no"
    BY <2>1 DEF KnowsAsMuch, Knowing, Fields
  <2>3. Knowing(d) /\ d.id = h.id
    BY <2>2, KnowsAsMuchOK DEF KnowsAsMuch
  <2>4. Settled(h) = d \/ Settled(h) = Left(d)
    BY <1>2, <2>1 DEF Settled
  <2> QED
    BY <2>2, <2>3, <2>4, LeftKnows
<1> QED
  BY <1>1, <1>2

-----------------------------------------------------------------------------
(* The messages on the way.                                                *)

NetOK(channels) ==
    /\ channels = [f \in Peers |-> [t \in Peers |-> channels[f][t]]]
    /\ \A f, t \in Peers : Messages(channels[f][t])

LEMMA ChannelOK ==
    ASSUME NEW channels, NetOK(channels), NEW f \in Peers, NEW t \in Peers, NEW c, Messages(c)
    PROVE  NetOK([channels EXCEPT ![f][t] = c])
<1>1. PICK g : g = [channels EXCEPT ![f][t] = c]
  OBVIOUS
<1>2. \A x \in Peers : DOMAIN channels[x] = Peers /\ channels[x] = [y \in Peers |-> channels[x][y]]
  BY DEF NetOK
<1>3. DOMAIN channels = Peers
  BY DEF NetOK
<1>4. g = [x \in Peers |-> IF x = f THEN [channels[f] EXCEPT ![t] = c] ELSE channels[x]]
  BY <1>1, <1>3
<1>5. \A x, y \in Peers : g[x][y] = IF x = f /\ y = t THEN c ELSE channels[x][y]
  BY <1>2, <1>4
<1>6. g = [x \in Peers |-> [y \in Peers |-> g[x][y]]]
  <2>1. \A x \in Peers : g[x] = [y \in Peers |-> g[x][y]]
    <3>1. [channels[f] EXCEPT ![t] = c] = [y \in Peers |-> IF y = t THEN c ELSE channels[f][y]]
      BY <1>2
    <3>2. g[f] = [y \in Peers |-> IF y = t THEN c ELSE channels[f][y]]
      BY <1>4, <3>1
    <3> QED
      BY <1>2, <1>4, <3>2
  <2> QED
    BY <1>4, <2>1
<1>7. ASSUME NEW x \in Peers, NEW y \in Peers PROVE Messages(g[x][y])
  <2>1. Messages(channels[x][y])
    BY DEF NetOK
  <2>2. g[x][y] = c \/ g[x][y] = channels[x][y]
    BY <1>5
  <2> QED
    BY <2>1, <2>2
<1>8. NetOK(g)
  BY <1>6, <1>7, Zenon DEF NetOK
<1> QED
  BY <1>1, <1>8

LEMMA SendOK ==
    ASSUME NEW channels, NetOK(channels), NEW m, IsMessage(m) PROVE NetOK(Send(channels, m))
<1>1. PICK c : c = channels[m.from][m.to]
  OBVIOUS
<1>2. m.from \in Peers /\ m.to \in Peers
  BY DEF IsMessage
<1>3. Messages(Append(c, m))
  BY <1>1, <1>2, OneMore DEF NetOK
<1>4. NetOK([channels EXCEPT ![m.from][m.to] = Append(c, m)])
  BY <1>2, <1>3, ChannelOK
<1> QED
  BY <1>1, <1>4 DEF Send

\* What is on the way after each of the first n messages
Sends(channels, ms, s, n) ==
    s = [i \in 0 .. n |-> IF i = 0 THEN channels ELSE Send(s[i - 1], ms[i])]

(* The recursive definition has a solution.                                *)
LEMMA SendsExist ==
    ASSUME NEW channels, NEW ms, NEW n \in Nat
    PROVE  \E s : Sends(channels, ms, s, n)
<1> DEFINE S == {m \in Nat : \E s : Sends(channels, ms, s, m)}
<1>1. 0 \in S
  <2> DEFINE s == [i \in 0 .. 0 |-> channels]
  <2>1. Sends(channels, ms, s, 0)
    BY DEF Sends
  <2> QED
    BY <2>1
<1>2. ASSUME NEW m \in Nat, m \in S PROVE m + 1 \in S
  <2>1. PICK s : Sends(channels, ms, s, m)
    BY <1>2
  <2> DEFINE g == [i \in 0 .. m + 1 |-> IF i = m + 1 THEN Send(s[m], ms[m + 1]) ELSE s[i]]
  <2>2. ASSUME NEW i \in 0 .. m + 1
        PROVE  g[i] = IF i = 0 THEN channels ELSE Send(g[i - 1], ms[i])
    <3>1. CASE i = m + 1
      <4>1. m + 1 # 0 /\ m \in 0 .. m + 1 /\ m # m + 1 /\ (m + 1) - 1 = m
        OBVIOUS
      <4>2. g[m + 1] = Send(s[m], ms[m + 1]) /\ g[m] = s[m]
        BY <4>1
      <4> HIDE DEF g
      <4> QED
        BY <3>1, <4>1, <4>2
    <3>2. CASE i \in 0 .. m
      <4>1. g[i] = s[i] /\ (i # 0 => g[i - 1] = s[i - 1])
        BY <3>2
      <4>2. s[i] = IF i = 0 THEN channels ELSE Send(s[i - 1], ms[i])
        BY <2>1, <3>2 DEF Sends
      <4> HIDE DEF g
      <4> QED
        BY <4>1, <4>2
    <3> QED
      BY <3>1, <3>2
  <2>3. g = [i \in 0 .. m + 1 |-> g[i]]
    OBVIOUS
  <2> HIDE DEF g
  <2>4. Sends(channels, ms, g, m + 1)
    BY <2>2, <2>3 DEF Sends
  <2> QED
    BY <2>4
<1> HIDE DEF S
<1>3. n \in S
  BY <1>1, <1>2, UpFromZero
<1> QED
  BY <1>3 DEF S

(* What is on the way after each of the messages                           *)
LEMMA SentStages ==
    ASSUME NEW channels, NetOK(channels), NEW ms, Messages(ms)
    PROVE  \E s :
            /\ Len(ms) \in Nat
            /\ s[0] = channels /\ s[Len(ms)] = Sent(channels, ms)
            /\ \A i \in 0 .. Len(ms) : NetOK(s[i])
            /\ \A i \in 1 .. Len(ms) : IsMessage(ms[i]) /\ s[i] = Send(s[i - 1], ms[i])
<1>1. PICK n \in Nat : n = Len(ms) /\ \A i \in 1 .. n : IsMessage(ms[i])
  <2>1. PICK S : ms \in Seq(S) /\ \A m \in S : IsMessage(m)
    BY DEF Messages
  <2> QED
    BY <2>1
<1>2. PICK s : s = CHOOSE g : Sends(channels, ms, g, n)
  OBVIOUS
<1>3. Sends(channels, ms, s, n)
  BY <1>2, SendsExist
<1>4. Sent(channels, ms) = s[n]
  BY <1>1, <1>2 DEF Sent, Sends
<1>5. s[0] = channels
  BY <1>3 DEF Sends
<1>6. ASSUME NEW i \in 1 .. n PROVE s[i] = Send(s[i - 1], ms[i])
  <2>1. i \in 0 .. n /\ i # 0
    OBVIOUS
  <2> QED
    BY <1>3, <2>1 DEF Sends
<1> DEFINE S == {i \in Nat : i <= n => NetOK(s[i])}
<1>7. 0 \in S
  BY <1>5
<1>8. ASSUME NEW i \in Nat, i \in S PROVE i + 1 \in S
  <2> SUFFICES ASSUME i + 1 <= n PROVE NetOK(s[i + 1])
    OBVIOUS
  <2>1. i + 1 \in 1 .. n /\ (i + 1) - 1 = i /\ i <= n
    OBVIOUS
  <2>2. NetOK(s[i])
    BY <1>8, <2>1
  <2>3. s[i + 1] = Send(s[i], ms[i + 1])
    BY <1>6, <2>1
  <2> QED
    BY <1>1, <2>1, <2>2, <2>3, SendOK
<1>9. ASSUME NEW i \in 0 .. n PROVE NetOK(s[i])
  <2>1. i \in Nat /\ i <= n
    OBVIOUS
  <2>2. i \in S
    <3> HIDE DEF S
    <3> QED
      BY <1>7, <1>8, <2>1, UpFromZero
  <2> QED
    BY <2>1, <2>2
<1> QED
  BY <1>1, <1>4, <1>5, <1>6, <1>9

LEMMA SentOK ==
    ASSUME NEW channels, NetOK(channels), NEW ms, Messages(ms) PROVE NetOK(Sent(channels, ms))
  BY SentStages

\* The invariant: between two handlers, nothing is left to send and no join has been settled.
GridOK ==
    /\ \A p \in Peers : Knowing(peer[p]) /\ peer[p].out = <<>>
    /\ \A p \in Peers : peer[p].joining \in {"no", "waiting"}
    /\ NetOK(net)

LEMMA BecomesGridOK ==
    ASSUME Inv, Inv', GridOK, NEW p \in Peers, NEW h, Knowing(h), h.id = p,
           NEW channels, NetOK(channels), Becomes(p, h, channels)
    PROVE  GridOK'
<1>1. PICK d, g : d = Settled(h) /\ g = [d EXCEPT !.out = <<>>]
  OBVIOUS
<1>2. Knowing(d) /\ d.id = p /\ (d.joining \in Joining => d.joining \in {"no", "waiting"})
  BY <1>1, SettledKnows
<1>3. /\ DOMAIN g = Fields /\ g.id = d.id /\ g.leaderId = d.leaderId /\ g.joining = d.joining
      /\ g.remotePeers = d.remotePeers /\ g.stale = d.stale /\ g.heard = d.heard /\ g.out = <<>>
  BY <1>1, <1>2 DEF Knowing, Fields
<1>4. Knowing(g)
  BY <1>2, <1>3, NoMessages DEF Knowing
<1>5. peer' = [peer EXCEPT ![p] = g]
  BY <1>1 DEF Becomes
<1>6. peer'[p] = g /\ \A q \in Peers \ {p} : peer'[q] = peer[q]
  BY <1>5 DEF Inv
<1>7. g.joining \in {"no", "waiting"}
  <2>1. peer'[p].joining \in Joining
    BY DEF Inv, PeerOK, Sound
  <2> QED
    BY <1>2, <1>3, <1>6, <2>1
<1>8. NetOK(net')
  <2>1. Messages(d.out)
    BY <1>2 DEF Knowing
  <2>2. net' = channels \/ net' = Sent(channels, d.out)
    BY <1>1 DEF Becomes
  <2> QED
    BY <2>1, <2>2, SentOK
<1>9. \A q \in Peers : /\ Knowing(peer'[q]) /\ peer'[q].out = <<>>
                       /\ peer'[q].joining \in {"no", "waiting"}
  <2> SUFFICES ASSUME NEW q \in Peers
               PROVE  /\ Knowing(peer'[q]) /\ peer'[q].out = <<>>
                      /\ peer'[q].joining \in {"no", "waiting"}
    OBVIOUS
  <2>1. CASE q = p
    BY <1>3, <1>4, <1>6, <1>7, <2>1
  <2>2. CASE q # p
    BY <1>6, <2>2 DEF GridOK
  <2> QED
    BY <2>1, <2>2
<1> QED
  BY <1>8, <1>9 DEF GridOK

-----------------------------------------------------------------------------
(* The steps.                                                              *)

LEMMA CallsGridOK ==
    ASSUME Inv, Inv', GridOK, NEW p \in Peers,
           CallJoin(p) \/ CallLeave(p) \/ CallClose(p) \/ JoinTimeout(p)
    PROVE  GridOK'
<1>1. PICK h : h = peer[p]
  OBVIOUS
<1>2. Knowing(h) /\ h.id = p /\ NetOK(net)
  BY <1>1 DEF Inv, GridOK
<1>3. ASSUME NEW g, KnowsAsMuch(g, h), Becomes(p, g, net) PROVE GridOK'
  <2>1. Knowing(g) /\ g.id = p
    BY <1>2, <1>3, KnowsAsMuchOK DEF KnowsAsMuch
  <2> QED
    BY <1>2, <1>3, <2>1, BecomesGridOK
<1>4. CASE CallJoin(p)
  <2>1. Knowing(join(h, setting.retries)) /\ join(h, setting.retries).id = p
    BY <1>2, JoinKnows
  <2> QED
    BY <1>1, <1>2, <1>4, <2>1, BecomesGridOK DEF CallJoin
<1>5. CASE CallLeave(p)
  <2>1. CASE h.joining = "waiting"
    <3>1. PICK g : g = [h EXCEPT !.aborted = TRUE, !.leaving = TRUE]
      OBVIOUS
    <3>2. KnowsAsMuch(g, h) /\ g = leave(h)
      BY <1>2, <2>1, <3>1 DEF KnowsAsMuch, Knowing, Fields, leave
    <3> QED
      BY <1>1, <1>3, <1>5, <3>2 DEF CallLeave
  <2>2. CASE h.joining # "waiting"
    <3>1. Knowing(leave(h)) /\ leave(h).id = p
      BY <1>2, <2>2, LeftKnows DEF leave
    <3> QED
      BY <1>1, <1>2, <1>5, <3>1, BecomesGridOK DEF CallLeave
  <2> QED
    BY <2>1, <2>2
<1>6. CASE CallClose(p)
  <2>1. PICK f, g : f = [h EXCEPT !.closed = TRUE, !.run = FALSE] /\ g = _stopRaftEngine(f)
    OBVIOUS
  <2>2. KnowsAsMuch(f, h)
    BY <1>2, <2>1 DEF KnowsAsMuch, Knowing, Fields
  <2>3. Knowing(f) /\ f.id = p
    BY <1>2, <2>2, KnowsAsMuchOK DEF KnowsAsMuch
  <2>4. Knowing(g) /\ g.id = p
    BY <2>1, <2>3, StopKnows
  <2>5. PICK routed, c : /\ routed = {h.registered[x] : x \in DOMAIN h.registered}
                         /\ c = close(h)
    OBVIOUS
  <2>6. c = [g EXCEPT !.remotePeers = {}, !.nextIndex = Untracked(h, h.remotePeers),
                      !.storages = [n \in DOMAIN @ |->
                            IF n \in routed THEN [@[n] EXCEPT !.open = FALSE] ELSE @[n]],
                      !.registered = <<>>]
    BY <2>1, <2>5 DEF close
  <2>7. /\ DOMAIN c = Fields /\ c.id = g.id /\ c.leaderId = g.leaderId /\ c.remotePeers = {}
        /\ c.stale = g.stale /\ c.heard = g.heard /\ c.out = g.out
    BY <2>4, <2>6 DEF Knowing, Fields
  <2>8. Knowing(c) /\ c.id = p
    BY <2>4, <2>7 DEF Knowing
  <2> QED
    BY <1>1, <1>2, <1>6, <2>5, <2>8, BecomesGridOK DEF CallClose
<1>7. CASE JoinTimeout(p)
  <2>1. PICK woken, again :
            /\ woken = [h EXCEPT !.joining = "woken"]
            /\ again = [h EXCEPT !.timer = TRUE,
                                 !.retried = IF h.remotePeers = {} THEN @ + 1 ELSE @]
    OBVIOUS
  <2>2. KnowsAsMuch(woken, h) /\ KnowsAsMuch(again, h)
    BY <1>2, <2>1 DEF KnowsAsMuch, Knowing, Fields
  <2>3. Becomes(p, woken, net) \/ Becomes(p, again, net)
    BY <1>1, <1>7, <2>1 DEF JoinTimeout
  <2> QED
    BY <1>3, <2>2, <2>3
<1> QED
  BY <1>4, <1>5, <1>6, <1>7

LEMMA DeliverGridOK ==
    ASSUME Inv, Inv', GridOK, NEW p \in Peers, NEW q \in Peers, Deliver(q, p) \/ Lose(q, p)
    PROVE  GridOK'
<1>1. PICK h, m, rest : /\ h = peer[p] /\ m = Head(net[q][p])
                        /\ rest = [net EXCEPT ![q][p] = Tail(@)]
  OBVIOUS
<1>2. Knowing(h) /\ h.id = p /\ NetOK(net) /\ Messages(net[q][p])
  BY <1>1 DEF Inv, GridOK, NetOK
<1>3. net[q][p] # <<>>
  BY DEF Deliver, Lose
<1>4. IsMessage(m) /\ NetOK(rest)
  <2>1. IsMessage(m) /\ Messages(Tail(net[q][p]))
    BY <1>1, <1>2, <1>3, TheRest
  <2>2. rest = [net EXCEPT ![q][p] = Tail(net[q][p])]
    BY <1>1, <1>2 DEF NetOK
  <2> QED
    BY <1>2, <2>1, <2>2, ChannelOK
<1>5. CASE Lose(q, p)
  BY <1>1, <1>4, <1>5 DEF Lose, GridOK
<1>6. CASE Deliver(q, p)
  <2>1. CASE UNCHANGED peer /\ net' = rest
    BY <1>4, <2>1 DEF GridOK
  <2>2. CASE Becomes(p, ReceiveJoin(h, m), rest)
    <3>1. PICK added : added = AddPeers(h, {m.from})
      OBVIOUS
    <3>2. Knowing(added) /\ added.id = p
      BY <1>2, <1>4, <3>1, AddPeersKnows DEF IsMessage
    <3>3. PICK answer : answer = EndpointStates(added, m.from, added.remotePeers)
      OBVIOUS
    <3>4. IsMessage(answer)
      BY <1>4, <3>2, <3>3 DEF IsMessage, EndpointStates, Knowing
    <3>5. Knowing(Emit(added, answer)) /\ Emit(added, answer).id = p
      BY <3>2, <3>4, EmitKnows
    <3>6. ReceiveJoin(h, m) \in {h, Emit(added, answer), added}
      BY <3>1, <3>3 DEF ReceiveJoin, _sendEndpointNotification
    <3> QED
      BY <1>2, <1>4, <2>2, <3>2, <3>5, <3>6, BecomesGridOK
  <2>3. CASE m.type = "EndpointStates" /\ Becomes(p, ReceiveEndpointStates(h, m), rest)
    <3>1. PICK a, b, known :
              /\ a = RemovePeers(h, h.remotePeers \ (m.active \cup {m.from}))
              /\ b = AddPeers(a, m.active)
              /\ known = AddPeers(b, {m.from})
      OBVIOUS
    <3>2. m.from \in Peers /\ m.active \subseteq Peers
      BY <1>4, <2>3 DEF IsMessage
    <3>3. Knowing(a) /\ a.id = p
      BY <1>2, <3>1, RemovePeersKnows
    <3>4. Knowing(b) /\ b.id = p
      BY <3>1, <3>2, <3>3, AddPeersKnows
    <3>5. Knowing(known) /\ known.id = p
      BY <3>1, <3>2, <3>4, AddPeersKnows
    <3>6. PICK j, reset : /\ j = Emit(known, JoinNotification(h, m.from))
                          /\ reset = [known EXCEPT !.log = ResetLog(PossibleLowestIndex(m))]
      OBVIOUS
    <3>7. IsMessage(JoinNotification(h, m.from))
      BY <1>2, <3>2 DEF IsMessage, JoinNotification
    <3>8. Knowing(j) /\ j.id = p
      BY <3>5, <3>6, <3>7, EmitKnows
    <3>9. KnowsAsMuch(reset, known)
      BY <3>5, <3>6 DEF KnowsAsMuch, Knowing, Fields
    <3>10. Knowing(reset) /\ reset.id = p
      BY <3>5, <3>9, KnowsAsMuchOK DEF KnowsAsMuch
    <3>11. ReceiveEndpointStates(h, m) \in {j, reset, known}
      BY <3>1, <3>6 DEF ReceiveEndpointStates
    <3> QED
      BY <1>4, <2>3, <3>5, <3>8, <3>10, <3>11, BecomesGridOK
  <2> QED
    BY <1>1, <1>6, <2>1, <2>2, <2>3 DEF Deliver
<1> QED
  BY <1>5, <1>6

LEMMA HeartbeatGridOK ==
    ASSUME Inv, Inv', GridOK, NEW p \in Peers, Heartbeat(p) PROVE GridOK'
<1>1. PICK h, alone, sent, g :
        /\ h = peer[p] /\ alone = LeaderAlone(h) /\ sent = _sendJoinMsg(alone)
        /\ g = _checkRemoteHeartbeats(sent)
  OBVIOUS
<1>2. Knowing(h) /\ h.id = p /\ NetOK(net)
  BY <1>1 DEF Inv, GridOK
<1>3. Knowing(alone) /\ alone.id = p
  BY <1>1, <1>2, LeaderKnows DEF LeaderAlone
<1>4. Knowing(sent) /\ sent.id = p
  <2>1. PICK f : f = [q \in Peers \ {p} |-> JoinNotification(alone, q)]
    OBVIOUS
  <2>2. PICK S : S = {f[q] : q \in Peers \ {p}}
    OBVIOUS
  <2>3. IsFiniteSet(S)
    BY <2>1, <2>2, ImagesFinite
  <2>4. ASSUME NEW q \in Peers PROVE IsMessage(JoinNotification(alone, q))
    BY <1>3 DEF JoinNotification, IsMessage
  <2>5. S = {JoinNotification(alone, q) : q \in Peers \ {alone.id}}
    BY <1>3, <2>1, <2>2
  <2>6. \A m \in S : IsMessage(m)
    BY <2>4, <2>5
  <2>7. Messages(Sequence!SetToSeq(S))
    BY <2>3, <2>6, SetOfMessages
  <2>8. Messages(alone.out \o Sequence!SetToSeq(S))
    BY <1>3, <2>7, BothLists DEF Knowing
  <2>9. PICK s : s = [alone EXCEPT !.out = @ \o Sequence!SetToSeq(S)]
    OBVIOUS
  <2>10. /\ DOMAIN s = Fields /\ s.id = alone.id /\ s.leaderId = alone.leaderId
         /\ s.remotePeers = alone.remotePeers /\ s.stale = alone.stale /\ s.heard = alone.heard
         /\ s.out = alone.out \o Sequence!SetToSeq(S)
    BY <1>3, <2>9 DEF Knowing, Fields
  <2>11. Knowing(s) /\ s.id = p
    BY <1>3, <2>8, <2>10 DEF Knowing
  <2>12. sent = alone \/ sent = s
    BY <1>1, <2>5, <2>9 DEF _sendJoinMsg
  <2> QED
    BY <1>3, <2>11, <2>12
<1>5. Knowing(g) /\ g.id = p
  <2>1. CASE ~leader(sent) \/ sent.joining # "no"
    BY <1>1, <1>4, <2>1 DEF _checkRemoteHeartbeats
  <2>2. CASE ~(~leader(sent) \/ sent.joining # "no")
    <3>1. PICK r, forgotten : r = RemovePeers(sent, sent.stale)
                              /\ forgotten = sent.stale \ sent.remotePeers
      OBVIOUS
    <3>2. Knowing(r) /\ r.id = p
      BY <1>4, <3>1, RemovePeersKnows
    <3>3. g = [r EXCEPT !.heard = @ \ forgotten, !.stale = @ \ forgotten]
      BY <1>1, <2>2, <3>1 DEF _checkRemoteHeartbeats
    <3>4. /\ DOMAIN g = Fields /\ g.id = r.id /\ g.leaderId = r.leaderId
          /\ g.remotePeers = r.remotePeers /\ g.out = r.out
          /\ g.stale = r.stale \ forgotten /\ g.heard = r.heard \ forgotten
      BY <3>2, <3>3 DEF Knowing, Fields
    <3> QED
      BY <3>2, <3>4 DEF Knowing
  <2> QED
    BY <2>1, <2>2
<1> QED
  BY <1>1, <1>2, <1>5, BecomesGridOK DEF Heartbeat

LEMMA RaftGridOK ==
    ASSUME Inv, Inv', GridOK, NEW p \in Peers, NEW q \in Peers,
           \/ KeepAlive(q, p) \/ Hear(p, q) \/ Silence(p, q) \/ Unsynced(p, q)
           \/ FollowerTimeout(p) \/ Elect(p) \/ Submit(p)
    PROVE  GridOK'
<1>1. PICK h : h = peer[p]
  OBVIOUS
<1>2. Knowing(h) /\ h.id = p /\ NetOK(net)
  BY <1>1 DEF Inv, GridOK
<1>3. ASSUME NEW id \in Peers \cup {Nil}
      PROVE  Knowing(LeaderChanged(h, id)) /\ LeaderChanged(h, id).id = p
  BY <1>2, LeaderKnows
<1>4. CASE KeepAlive(q, p)
  <2>0. PICK log : \/ Becomes(p, [LeaderChanged(h, q) EXCEPT !.term = peer[q].term,
                                                            !.log = log], net)
                   \/ Becomes(p, LeaderChanged(h, Nil), net)
    BY <1>1, <1>4 DEF KeepAlive
  <2>1. PICK c, g : /\ c = LeaderChanged(h, q)
                    /\ g = [c EXCEPT !.term = peer[q].term, !.log = log]
    OBVIOUS
  <2>2. Knowing(c) /\ c.id = p
    BY <1>3, <2>1
  <2>3. KnowsAsMuch(g, c)
    BY <2>1, <2>2 DEF KnowsAsMuch, Knowing, Fields
  <2>4. Knowing(g) /\ g.id = p
    BY <2>2, <2>3, KnowsAsMuchOK DEF KnowsAsMuch
  <2>5. Becomes(p, g, net) \/ Becomes(p, LeaderChanged(h, Nil), net)
    BY <2>0, <2>1
  <2> QED
    BY <1>2, <1>3, <2>4, <2>5, BecomesGridOK
<1>5. CASE Hear(p, q)
  <2>1. PICK g : g = _acceptKeepAliveHamokMessage(h, q)
    OBVIOUS
  <2>2. Knowing(g) /\ g.id = p
    <3>1. CASE ~leader(h)
      BY <1>2, <2>1, <3>1 DEF _acceptKeepAliveHamokMessage
    <3>2. CASE leader(h)
      <4>1. g = [h EXCEPT !.heard = @ \cup {q}, !.stale = @ \ {q}]
        BY <2>1, <3>2 DEF _acceptKeepAliveHamokMessage
      <4>2. /\ DOMAIN g = Fields /\ g.id = h.id /\ g.leaderId = h.leaderId
            /\ g.remotePeers = h.remotePeers /\ g.out = h.out
            /\ g.heard = h.heard \cup {q} /\ g.stale = h.stale \ {q}
        BY <1>2, <4>1 DEF Knowing, Fields
      <4>3. p # q
        BY <1>5 DEF Hear
      <4> QED
        BY <1>2, <4>2, <4>3 DEF Knowing
    <3> QED
      BY <3>1, <3>2
  <2>3. PICK a \in Answered(g, q) : Becomes(p, a, net)
    BY <1>1, <1>5, <2>1 DEF Hear
  <2>4. KnowsAsMuch(a, g)
    BY <2>2, LogsOnly DEF Knowing, SameButLogs, KnowsAsMuch
  <2>5. Knowing(a) /\ a.id = p
    BY <2>2, <2>4, KnowsAsMuchOK DEF KnowsAsMuch
  <2> QED
    BY <1>2, <2>3, <2>5, BecomesGridOK
<1>6. CASE Silence(p, q)
  <2>1. PICK g : g = [h EXCEPT !.stale = @ \cup {q}]
    OBVIOUS
  <2>2. /\ DOMAIN g = Fields /\ g.id = h.id /\ g.leaderId = h.leaderId
        /\ g.remotePeers = h.remotePeers /\ g.out = h.out /\ g.joining = h.joining
        /\ g.heard = h.heard /\ g.stale = h.stale \cup {q}
    BY <1>2, <2>1 DEF Knowing, Fields
  <2>3. Knowing(g)
    BY <1>1, <1>2, <1>6, <2>2 DEF Knowing, Silence
  <2>4. peer' = [peer EXCEPT ![p] = g] /\ UNCHANGED net
    BY <1>1, <1>6, <2>1 DEF Silence
  <2>5. peer'[p] = g /\ \A x \in Peers \ {p} : peer'[x] = peer[x]
    BY <2>4 DEF Inv
  <2>6. ASSUME NEW x \in Peers
        PROVE  /\ Knowing(peer'[x]) /\ peer'[x].out = <<>>
               /\ peer'[x].joining \in {"no", "waiting"}
    <3>1. CASE x = p
      BY <1>1, <2>2, <2>3, <2>5, <3>1 DEF GridOK
    <3>2. CASE x # p
      BY <2>5, <3>2 DEF GridOK
    <3> QED
      BY <3>1, <3>2
  <2> QED
    BY <1>2, <2>4, <2>6 DEF GridOK
<1>7. CASE Unsynced(p, q)
  BY <1>1, <1>2, <1>7, RemovePeersKnows, BecomesGridOK DEF Unsynced
<1>8. CASE FollowerTimeout(p)
  BY <1>1, <1>2, <1>3, <1>8, BecomesGridOK DEF FollowerTimeout
<1>9. CASE Elect(p)
  <2>1. PICK g : g = [h EXCEPT !.term = @ + 1]
    OBVIOUS
  <2>2. KnowsAsMuch(g, h)
    BY <1>2, <2>1 DEF KnowsAsMuch, Knowing, Fields
  <2>3. Knowing(g) /\ g.id = p
    BY <1>2, <2>2, KnowsAsMuchOK DEF KnowsAsMuch
  <2>4. Knowing(LeaderChanged(g, p)) /\ LeaderChanged(g, p).id = p
    BY <2>3, LeaderKnows
  <2> QED
    BY <1>1, <1>2, <1>9, <2>1, <2>4, BecomesGridOK DEF Elect
<1>10. CASE Submit(p)
  <2>1. PICK g : g = [h EXCEPT !.log = WithNext(@, h.term)]
    OBVIOUS
  <2>2. KnowsAsMuch(g, h)
    BY <1>2, <2>1, LogsOnly DEF Knowing, SameButLogs, KnowsAsMuch
  <2>3. Knowing(g) /\ g.id = p
    BY <1>2, <2>2, KnowsAsMuchOK DEF KnowsAsMuch
  <2> QED
    BY <1>1, <1>2, <1>10, <2>1, <2>3, BecomesGridOK DEF Submit
<1> QED
  BY <1>4, <1>5, <1>6, <1>7, <1>8, <1>9, <1>10

LEMMA StoragesGridOK ==
    ASSUME Inv, Inv', GridOK, NEW p \in Peers, NEW k, NEW id, NEW n,
           Create(p, k, id) \/ CloseStorage(p, n)
    PROVE  GridOK'
<1>1. PICK h : h = peer[p]
  OBVIOUS
<1>2. Knowing(h) /\ h.id = p /\ NetOK(net)
  BY <1>1 DEF Inv, GridOK
<1>3. PICK i, j : i = Len(h.storages) + 1 /\ j = h.storages[n].id
  OBVIOUS
<1>4. PICK created, less :
        /\ created = [h EXCEPT !.storages = Append(@, [kind |-> k, id |-> id, open |-> TRUE]),
                               !.registered = [x \in DOMAIN @ \cup {id} |->
                                                  IF x = id THEN i ELSE @[x]]]
        /\ less = [h EXCEPT !.storages[n].open = FALSE,
                            !.registered = [x \in DOMAIN @ \ {j} |-> @[x]]]
  OBVIOUS
<1>5. KnowsAsMuch(created, h) /\ KnowsAsMuch(less, h)
  BY <1>2, <1>4 DEF KnowsAsMuch, Knowing, Fields
<1>6. Becomes(p, created, net) \/ Becomes(p, less, net)
  BY <1>1, <1>3, <1>4 DEF Create, CloseStorage
<1>7. Knowing(created) /\ created.id = p /\ Knowing(less) /\ less.id = p
  BY <1>2, <1>5, KnowsAsMuchOK DEF KnowsAsMuch
<1> QED
  BY <1>2, <1>6, <1>7, BecomesGridOK

LEMMA GridInitOK == Init => GridOK
<1> SUFFICES ASSUME Init PROVE GridOK
  OBVIOUS
<1>1. ASSUME NEW p \in Peers
      PROVE  Knowing(peer[p]) /\ peer[p].out = <<>> /\ peer[p].joining \in {"no", "waiting"}
  <2>1. PICK l, n, g : /\ l = setting.logs[p] /\ n = NewPeer(p, l)
                       /\ g = Formed(p)
    OBVIOUS
  <2>2. Knowing(n) /\ n.out = <<>> /\ n.joining = "no" /\ n.id = p
    BY <2>1, NoMessages DEF NewPeer, Knowing, Fields
  <2>3. g = [n EXCEPT !.run = TRUE, !.timer = TRUE, !.leaderId = setting.leader, !.term = 1,
                !.remotePeers = setting.grid \ {p},
                !.nextIndex = [q \in Peers |-> IF p = setting.leader /\ q \in setting.grid \ {p}
                                               THEN setting.logs[q].nextIndex ELSE 0],
                !.heard = IF p = setting.leader THEN setting.grid \ {p} ELSE {}]
    BY <2>1 DEF Formed
  <2>4. /\ DOMAIN g = Fields /\ g.id = p /\ g.joining = "no" /\ g.out = <<>> /\ g.stale = {}
        /\ g.leaderId = setting.leader /\ g.remotePeers = setting.grid \ {p}
        /\ g.heard = IF p = setting.leader THEN setting.grid \ {p} ELSE {}
    BY <2>1, <2>3 DEF NewPeer, Fields
  <2>5. setting.grid \subseteq Peers /\ setting.leader \in Peers \cup {Nil}
    BY SettingsAssumption DEF Init
  <2>6. Knowing(g)
    BY <2>4, <2>5, NoMessages DEF Knowing
  <2>7. peer[p] = n \/ peer[p] = g
    BY <2>1 DEF Init
  <2> QED
    BY <2>2, <2>4, <2>6, <2>7
<1>2. NetOK(net)
  <2>1. net = [f \in Peers |-> [t \in Peers |-> <<>>]]
    BY DEF Init
  <2>2. \A f, t \in Peers : net[f][t] = <<>>
    BY <2>1
  <2>3. net = [f \in Peers |-> [t \in Peers |-> net[f][t]]]
    BY <2>1
  <2> QED
    BY <2>2, <2>3, NoMessages DEF NetOK
<1> QED
  BY <1>1, <1>2 DEF GridOK

LEMMA GridNextOK == Inv /\ Inv' /\ GridOK /\ [Next]_vars => GridOK'
<1> SUFFICES ASSUME Inv, Inv', GridOK, [Next]_vars PROVE GridOK'
  OBVIOUS
<1>1. CASE UNCHANGED vars
  BY <1>1 DEF vars, GridOK
<1>2. ASSUME NEW p \in Peers, CallJoin(p) \/ CallLeave(p) \/ CallClose(p) \/ JoinTimeout(p)
      PROVE  GridOK'
  BY <1>2, CallsGridOK
<1>3. ASSUME NEW p \in Peers, Heartbeat(p) \/ FollowerTimeout(p) \/ Elect(p) \/ Submit(p)
      PROVE  GridOK'
  BY <1>3, HeartbeatGridOK, RaftGridOK
<1>4. ASSUME NEW p \in Peers, NEW q \in Peers,
             \/ Deliver(q, p) \/ Lose(q, p) \/ KeepAlive(q, p) \/ Hear(q, p) \/ Silence(q, p)
             \/ Unsynced(q, p)
      PROVE  GridOK'
  BY <1>4, DeliverGridOK, RaftGridOK
<1>5. ASSUME NEW p \in Peers, NEW k, NEW id, NEW n, Create(p, k, id) \/ CloseStorage(p, n)
      PROVE  GridOK'
  BY <1>5, StoragesGridOK
<1> QED
  BY <1>1, <1>2, <1>3, <1>4, <1>5 DEF Next

(* Whom a peer knows, hears and follows are peers of the grid, and never   *)
(* itself, except that a leader follows itself; after each handler all is  *)
(* sent, and a join in progress waits for a leader, whatever messages,     *)
(* timeouts and elections there were.                                      *)
THEOREM GridPeersOnly == Spec => []TypeOK
<1>1. Inv /\ GridOK => TypeOK
  BY DEF Inv, PeerOK, Sound, GridOK, Knowing, TypeOK
<1>2. Init => GridOK
  BY GridInitOK
<1>3. Inv /\ Inv' /\ GridOK /\ [Next]_vars => GridOK'
  BY GridNextOK
<1>4. Spec => []Inv
  BY InvAlways
<1> QED
  BY <1>1, <1>2, <1>3, <1>4, PTL DEF Spec

-----------------------------------------------------------------------------
(* What arrives of several messages.                                       *)

(* Lists one after the other end with the last of them.                    *)
LEMMA LastListLast ==
    ASSUME NEW n \in Nat, n # 0, NEW S, NEW lists, lists = [i \in 1 .. n |-> lists[i]],
           \A i \in 1 .. n : lists[i] \in Seq(S)
    PROVE  \E a \in Seq(S) : Sequence!FlattenSeq(lists) = a \o lists[n]
<1>1. lists \in Seq(Seq(S)) /\ Len(lists) = n
  OBVIOUS
<1>2. PICK s : s = CHOOSE g : Flattens(lists, g, n)
  OBVIOUS
<1>3. Flattens(lists, s, n)
  BY <1>2, FlattensExist
<1>4. Sequence!FlattenSeq(lists) = s[n]
  BY <1>1, <1>2 DEF Sequence!FlattenSeq, Flattens
<1>5. CASE n = 1
  <2>1. s[n] = lists[n]
    BY <1>3, <1>5 DEF Flattens
  <2>2. lists[n] \in Seq(S)
    BY <1>5
  <2>3. <<>> \in Seq(S) /\ lists[n] = <<>> \o lists[n]
    BY <2>2
  <2> QED
    BY <1>4, <2>1, <2>3
<1>6. CASE n # 1
  <2>1. n \in 1 .. n /\ n - 1 \in Nat /\ n - 1 # 0 /\ n - 1 \in 1 .. n
    BY <1>6
  <2>2. s[n] = s[n - 1] \o lists[n]
    BY <1>3, <1>6, <2>1 DEF Flattens
  <2> DEFINE P == {i \in Nat : i < n => s[i + 1] \in Seq(S)}
  <2>3. 0 \in P
    <3>1. s[1] = lists[1]
      BY <1>3, <2>1 DEF Flattens
    <3> QED
      BY <2>1, <3>1
  <2>4. ASSUME NEW i \in Nat, i \in P PROVE i + 1 \in P
    <3> SUFFICES ASSUME i + 1 < n PROVE s[(i + 1) + 1] \in Seq(S)
      OBVIOUS
    <3>1. PICK j : j = (i + 1) + 1
      OBVIOUS
    <3>2. j \in 1 .. n /\ j # 1 /\ j - 1 = i + 1 /\ i < n
      BY <3>1
    <3>3. s[i + 1] \in Seq(S) /\ lists[j] \in Seq(S)
      BY <2>4, <3>2
    <3>4. s[j] = s[i + 1] \o lists[j]
      BY <1>3, <3>2 DEF Flattens
    <3> QED
      BY <3>1, <3>3, <3>4
  <2>5. (n - 1) - 1 \in Nat /\ (n - 1) - 1 < n /\ ((n - 1) - 1) + 1 = n - 1
    BY <2>1
  <2>6. (n - 1) - 1 \in P
    <3> HIDE DEF P
    <3> QED
      BY <2>3, <2>4, <2>5, UpFromZero
  <2>7. s[n - 1] \in Seq(S)
    BY <2>5, <2>6
  <2> QED
    BY <1>4, <2>2, <2>7
<1> QED
  BY <1>5, <1>6

\* The messages of ms are joins of f.
OnlyJoins(ms, f) == \A i \in 1 .. Len(ms) : ms[i].type = "Join" /\ ms[i].from = f

\* The messages of ms go from f to others.
From(ms, f) == \A i \in 1 .. Len(ms) : ms[i].from = f /\ ms[i].to # f

Tells(m, known) == m.type = "EndpointStates" /\ m.active = known

\* The last that ms tells q is that the peers are known.
EndsTelling(ms, q, known) ==
    \E i \in 1 .. Len(ms) :
        ms[i].to = q /\ \A j \in i .. Len(ms) : ms[j].to = q => Tells(ms[j], known)

\* The last message of ms comes from f and tells that the peers are known.
Told(ms, f, known) ==
    ms # <<>> /\ Tells(ms[Len(ms)], known) /\ ms[Len(ms)].from = f

LEMMA SendTo ==
    ASSUME NEW channels, NetOK(channels), NEW m, IsMessage(m)
    PROVE  LET s == Send(channels, m)
           IN  /\ \A f, t \in Peers : f # m.from \/ t # m.to => s[f][t] = channels[f][t]
               /\ s[m.from][m.to] # <<>>
               /\ s[m.from][m.to][Len(s[m.from][m.to])] = m
               /\ m.type = "Join" /\ OnlyJoins(channels[m.from][m.to], m.from)
                  => OnlyJoins(s[m.from][m.to], m.from)
<1>1. PICK c, f, t : f = m.from /\ t = m.to /\ c = channels[f][t]
  OBVIOUS
<1>2. f \in Peers /\ t \in Peers
  BY <1>1 DEF IsMessage
<1>3. PICK S : c \in Seq(S)
  BY <1>1, <1>2 DEF NetOK, Messages
<1>4. PICK s : s = Send(channels, m)
  OBVIOUS
<1>5. CASE c # <<>> /\ Sequence!Last(c) = m
  <2>1. s = channels
    BY <1>1, <1>4, <1>5 DEF Send
  <2>2. c[Len(c)] = m
    BY <1>5 DEF Sequence!Last
  <2> QED
    BY <1>1, <1>4, <1>5, <2>1, <2>2
<1>6. CASE ~(c # <<>> /\ Sequence!Last(c) = m)
  <2>1. s = [channels EXCEPT ![f][t] = Append(c, m)]
    BY <1>1, <1>4, <1>6 DEF Send
  <2>2. \A x \in Peers : channels[x] = [y \in Peers |-> channels[x][y]]
    BY DEF NetOK
  <2>3. DOMAIN channels = Peers
    BY DEF NetOK
  <2>4. s = [x \in Peers |-> IF x = f THEN [channels[f] EXCEPT ![t] = Append(c, m)]
                             ELSE channels[x]]
    BY <2>1, <2>3
  <2>5. \A x, y \in Peers : s[x][y] = IF x = f /\ y = t THEN Append(c, m) ELSE channels[x][y]
    BY <2>2, <2>4
  <2>6. PICK T : T = S \cup {m}
    OBVIOUS
  <2>7. c \in Seq(T) /\ m \in T
    BY <1>3, <2>6
  <2>8. PICK d : d = Append(c, m)
    OBVIOUS
  <2>9. /\ d # <<>> /\ Len(d) = Len(c) + 1 /\ d[Len(d)] = m
        /\ \A i \in 1 .. Len(c) : d[i] = c[i]
    BY <2>7, <2>8
  <2>10. m.type = "Join" /\ OnlyJoins(c, f) => OnlyJoins(d, f)
    <3> SUFFICES ASSUME m.type = "Join", OnlyJoins(c, f), NEW i \in 1 .. Len(d)
                 PROVE  d[i].type = "Join" /\ d[i].from = f
      BY DEF OnlyJoins
    <3>1. Len(c) \in Nat
      BY <2>7
    <3>2. i \in 1 .. Len(c) \/ i = Len(d)
      BY <2>9, <3>1
    <3> QED
      BY <1>1, <2>9, <3>2 DEF OnlyJoins
  <2> QED
    BY <1>1, <1>2, <1>4, <2>5, <2>8, <2>9, <2>10
<1> QED
  BY <1>5, <1>6

(* What is on the way between two peers stays as it is when there is no    *)
(* message for it.                                                         *)
LEMMA SentElsewhere ==
    ASSUME NEW channels, NetOK(channels), NEW ms, Messages(ms), NEW f \in Peers, NEW t \in Peers,
           \A i \in 1 .. Len(ms) : ms[i].from # f \/ ms[i].to # t
    PROVE  Sent(channels, ms)[f][t] = channels[f][t]
<1>1. PICK s : /\ Len(ms) \in Nat
               /\ s[0] = channels /\ s[Len(ms)] = Sent(channels, ms)
               /\ \A i \in 0 .. Len(ms) : NetOK(s[i])
               /\ \A i \in 1 .. Len(ms) : IsMessage(ms[i]) /\ s[i] = Send(s[i - 1], ms[i])
  BY SentStages
<1>2. PICK n \in Nat : n = Len(ms)
  BY <1>1
<1> DEFINE S == {i \in Nat : i <= n => s[i][f][t] = channels[f][t]}
<1>3. 0 \in S
  BY <1>1
<1>4. ASSUME NEW i \in Nat, i \in S PROVE i + 1 \in S
  <2> SUFFICES ASSUME i + 1 <= n PROVE s[i + 1][f][t] = channels[f][t]
    OBVIOUS
  <2>1. PICK j : j = i + 1
    OBVIOUS
  <2>2. j \in 1 .. n /\ j - 1 = i /\ i <= n /\ i \in 0 .. n
    BY <2>1
  <2>3. NetOK(s[i]) /\ IsMessage(ms[j]) /\ s[j] = Send(s[i], ms[j])
    BY <1>1, <1>2, <2>2
  <2>4. ms[j].from # f \/ ms[j].to # t
    BY <1>2, <2>2
  <2>5. s[j][f][t] = s[i][f][t]
    BY <2>3, <2>4, SendTo
  <2> QED
    BY <1>4, <2>1, <2>2, <2>5
<1>5. n \in S
  <2> HIDE DEF S
  <2> QED
    BY <1>3, <1>4, UpFromZero
<1> QED
  BY <1>1, <1>2, <1>5

LEMMA NothingSent ==
    ASSUME NEW channels, NetOK(channels) PROVE Sent(channels, <<>>) = channels
<1>1. PICK s : s[0] = channels /\ s[Len(<<>>)] = Sent(channels, <<>>)
  BY NoMessages, SentStages
<1> QED
  BY <1>1

LEMMA SentJoins ==
    ASSUME NEW channels, NetOK(channels), NEW ms, Messages(ms), NEW p \in Peers,
           OnlyJoins(ms, p), NEW t \in Peers, OnlyJoins(channels[p][t], p)
    PROVE  OnlyJoins(Sent(channels, ms)[p][t], p)
<1>1. PICK s : /\ Len(ms) \in Nat
               /\ s[0] = channels /\ s[Len(ms)] = Sent(channels, ms)
               /\ \A i \in 0 .. Len(ms) : NetOK(s[i])
               /\ \A i \in 1 .. Len(ms) : IsMessage(ms[i]) /\ s[i] = Send(s[i - 1], ms[i])
  BY SentStages
<1>2. PICK n \in Nat : n = Len(ms)
  BY <1>1
<1> DEFINE S == {i \in Nat : i <= n => OnlyJoins(s[i][p][t], p)}
<1>3. 0 \in S
  BY <1>1
<1>4. ASSUME NEW i \in Nat, i \in S PROVE i + 1 \in S
  <2> SUFFICES ASSUME i + 1 <= n PROVE OnlyJoins(s[i + 1][p][t], p)
    OBVIOUS
  <2>1. PICK j : j = i + 1
    OBVIOUS
  <2>2. j \in 1 .. n /\ j - 1 = i /\ i <= n /\ i \in 0 .. n
    BY <2>1
  <2>3. NetOK(s[i]) /\ IsMessage(ms[j]) /\ s[j] = Send(s[i], ms[j])
    BY <1>1, <1>2, <2>2
  <2>4. ms[j].from = p /\ ms[j].type = "Join"
    BY <1>2, <2>2 DEF OnlyJoins
  <2>5. OnlyJoins(s[i][p][t], p)
    BY <1>4, <2>2
  <2>6. CASE ms[j].to = t
    BY <2>1, <2>3, <2>4, <2>5, <2>6, SendTo
  <2>7. CASE ms[j].to # t
    <3>1. s[j][p][t] = s[i][p][t]
      BY <2>3, <2>7, SendTo
    <3> QED
      BY <2>1, <2>5, <3>1
  <2> QED
    BY <2>6, <2>7
<1>5. n \in S
  <2> HIDE DEF S
  <2> QED
    BY <1>3, <1>4, UpFromZero
<1> QED
  BY <1>1, <1>2, <1>5

(* What a list of messages tells q at last is the last that is on the way. *)
LEMMA SentTells ==
    ASSUME NEW channels, NetOK(channels), NEW ms, Messages(ms), NEW p \in Peers, From(ms, p),
           NEW q \in Peers, NEW known, EndsTelling(ms, q, known)
    PROVE  Told(Sent(channels, ms)[p][q], p, known)
<1>1. PICK s : /\ Len(ms) \in Nat
               /\ s[0] = channels /\ s[Len(ms)] = Sent(channels, ms)
               /\ \A i \in 0 .. Len(ms) : NetOK(s[i])
               /\ \A i \in 1 .. Len(ms) : IsMessage(ms[i]) /\ s[i] = Send(s[i - 1], ms[i])
  BY SentStages
<1>2. PICK n \in Nat : n = Len(ms)
  BY <1>1
<1>3. PICK k \in 1 .. n : ms[k].to = q /\ \A j \in k .. n : ms[j].to = q => Tells(ms[j], known)
  BY <1>2 DEF EndsTelling
<1>4. ASSUME NEW j \in 1 .. n, ms[j].to = q, Tells(ms[j], known)
      PROVE  Told(s[j][p][q], p, known)
  <2>1. j - 1 \in 0 .. n
    OBVIOUS
  <2>2. NetOK(s[j - 1]) /\ IsMessage(ms[j]) /\ s[j] = Send(s[j - 1], ms[j]) /\ ms[j].from = p
    BY <1>1, <1>2, <2>1 DEF From
  <2>3. s[j][p][q] # <<>> /\ s[j][p][q][Len(s[j][p][q])] = ms[j]
    BY <1>4, <2>2, SendTo
  <2> QED
    BY <1>4, <2>2, <2>3 DEF Told
<1> DEFINE S == {i \in Nat : k <= i /\ i <= n => Told(s[i][p][q], p, known)}
<1>5. 0 \in S
  OBVIOUS
<1>6. ASSUME NEW i \in Nat, i \in S PROVE i + 1 \in S
  <2> SUFFICES ASSUME k <= i + 1, i + 1 <= n PROVE Told(s[i + 1][p][q], p, known)
    OBVIOUS
  <2>1. PICK j : j = i + 1
    OBVIOUS
  <2>2. j \in k .. n /\ j \in 1 .. n /\ j - 1 = i /\ i <= n /\ i \in 0 .. n
    BY <2>1
  <2>3. NetOK(s[i]) /\ IsMessage(ms[j]) /\ s[j] = Send(s[i], ms[j])
    BY <1>1, <1>2, <2>2
  <2>4. CASE ms[j].to = q
    BY <1>3, <1>4, <2>1, <2>2, <2>4
  <2>5. CASE ms[j].to # q
    <3>1. j # k
      BY <1>3, <2>5
    <3>2. Told(s[i][p][q], p, known)
      BY <1>6, <2>1, <2>2, <3>1
    <3>3. s[j][p][q] = s[i][p][q]
      BY <2>3, <2>5, SendTo
    <3> QED
      BY <2>1, <3>2, <3>3
  <2> QED
    BY <2>4, <2>5
<1>7. n \in S
  <2> HIDE DEF S
  <2> QED
    BY <1>5, <1>6, UpFromZero
<1> QED
  BY <1>1, <1>2, <1>3, <1>7

-----------------------------------------------------------------------------
(* What a leader tells.                                                    *)

\* Whatever h may notify others of
Announcements(h) ==
    {EndpointStates(h, q, known) : q \in Peers \ {h.id}, known \in SUBSET Peers}

LEMMA NotificationsTell ==
    ASSUME NEW h, h.id \in Peers, NEW qs, qs \subseteq Peers \ {h.id}
    PROVE  LET ms == Notifications(h, qs)
           IN  /\ ms \in Seq(Announcements(h))
               /\ \A i \in 1 .. Len(ms) : Tells(ms[i], qs)
               /\ \A q \in qs : \E i \in 1 .. Len(ms) : ms[i].to = q
<1>1. PICK f : f = [q \in qs |-> EndpointStates(h, q, qs)]
  OBVIOUS
<1>2. PICK S : S = {f[q] : q \in qs}
  OBVIOUS
<1>3. IsFiniteSet(S) /\ S = {EndpointStates(h, q, qs) : q \in qs}
  BY <1>1, <1>2, ImagesFinite
<1>4. PICK ms : ms = Notifications(h, qs)
  OBVIOUS
<1>5. ms \in Seq(S) /\ \A x \in S : \E i \in 1 .. Len(ms) : ms[i] = x
  BY <1>3, <1>4, SetListedWhole DEF Notifications
<1>6. S \subseteq Announcements(h)
  BY <1>3 DEF Announcements
<1>7. \A x \in S : Tells(x, qs)
  BY <1>3 DEF EndpointStates, Tells
<1>8. ASSUME NEW q \in qs PROVE \E i \in 1 .. Len(ms) : ms[i].to = q
  <2>1. EndpointStates(h, q, qs) \in S /\ EndpointStates(h, q, qs).to = q
    BY <1>3 DEF EndpointStates
  <2> QED
    BY <1>5, <2>1
<1> QED
  BY <1>4, <1>5, <1>6, <1>7, <1>8

(* Notifications after each of several changes: the last is of the last.   *)
LEMMA ToldLast ==
    ASSUME NEW h, h.id \in Peers, NEW n \in Nat, n # 0, NEW s, DOMAIN s = 1 .. n,
           NEW known, \A j \in 1 .. n : known[j] \subseteq Peers \ {h.id}
    PROVE  LET told == Sequence!FlattenSeq([j \in DOMAIN s |-> Notifications(h, known[j])])
           IN  /\ told \in Seq(Announcements(h))
               /\ \A q \in known[n] : EndsTelling(told, q, known[n])
<1>1. PICK lists : lists = [j \in 1 .. n |-> Notifications(h, known[j])]
  OBVIOUS
<1>2. lists = [i \in 1 .. n |-> lists[i]] /\ \A i \in 1 .. n : lists[i] \in Seq(Announcements(h))
  BY <1>1, NotificationsTell
<1>3. PICK told : told = Sequence!FlattenSeq([j \in DOMAIN s |-> Notifications(h, known[j])])
  OBVIOUS
<1>4. PICK a \in Seq(Announcements(h)) : told = a \o lists[n]
  BY <1>1, <1>2, <1>3, LastListLast
<1>5. PICK b : b = lists[n]
  OBVIOUS
<1>6. /\ b \in Seq(Announcements(h)) /\ \A i \in 1 .. Len(b) : Tells(b[i], known[n])
      /\ \A q \in known[n] : \E i \in 1 .. Len(b) : b[i].to = q
  <2>1. n \in 1 .. n /\ b = Notifications(h, known[n])
    BY <1>1, <1>5
  <2> QED
    BY <2>1, NotificationsTell
<1>7. /\ told \in Seq(Announcements(h)) /\ Len(told) = Len(a) + Len(b)
      /\ \A i \in 1 .. Len(b) : told[Len(a) + i] = b[i]
  BY <1>4, <1>5, <1>6
<1>8. ASSUME NEW q \in known[n] PROVE EndsTelling(told, q, known[n])
  <2>1. PICK i \in 1 .. Len(b) : b[i].to = q
    BY <1>6
  <2>2. Len(a) \in Nat /\ Len(b) \in Nat
    BY <1>6
  <2>3. PICK k : k = Len(a) + i
    OBVIOUS
  <2>4. k \in 1 .. Len(told) /\ told[k].to = q
    <3>1. told[k] = b[i]
      BY <1>7, <2>3
    <3>2. k \in 1 .. Len(told)
      BY <1>7, <2>2, <2>3
    <3> QED
      BY <2>1, <3>1, <3>2
  <2>5. ASSUME NEW j \in k .. Len(told) PROVE Tells(told[j], known[n])
    <3>1. PICK x : x = j - Len(a)
      OBVIOUS
    <3>2. x \in 1 .. Len(b) /\ j = Len(a) + x
      BY <1>7, <2>2, <2>3, <3>1
    <3>3. told[j] = b[x]
      BY <1>7, <3>2
    <3> QED
      BY <1>6, <3>2, <3>3
  <2> QED
    BY <2>4, <2>5 DEF EndsTelling
<1> QED
  BY <1>3, <1>7, <1>8

LEMMA AnnouncementsFrom ==
    ASSUME NEW h, h.id \in Peers, NEW ms, ms \in Seq(Announcements(h)) PROVE From(ms, h.id)
<1>1. ASSUME NEW i \in 1 .. Len(ms) PROVE ms[i].from = h.id /\ ms[i].to # h.id
  <2>1. ms[i] \in Announcements(h)
    OBVIOUS
  <2> QED
    BY <2>1 DEF Announcements, EndpointStates
<1> QED
  BY <1>1 DEF From

\* g is h after something that does not bring it into the grid, or into another term.
Steady(g, h) ==
    /\ DOMAIN g = Fields
    /\ g.id = h.id /\ g.term = h.term
    /\ h.closed => g.closed
    /\ ~h.run => ~g.run

\* All that g knows, and only g could know, it has told.
Informs(g) == From(g.out, g.id) /\ \A q \in g.remotePeers : EndsTelling(g.out, q, g.remotePeers)

(* A leader tells everyone whom it knows when it has got to know more.     *)
LEMMA AddPeersTells ==
    ASSUME NEW h, Knowing(h), h.out = <<>>, NEW qs, qs \subseteq Peers
    PROVE  LET g == AddPeers(h, qs)
           IN  /\ Steady(g, h) /\ g.leaderId = h.leaderId
               /\ g.remotePeers = h.remotePeers \cup (qs \ {h.id})
               /\ ~leader(h) => g.out = <<>>
               /\ leader(h) => Informs(g) \/ (g.remotePeers = h.remotePeers /\ g.out = <<>>)
<1>1. PICK g, S, s : /\ g = AddPeers(h, qs) /\ S = qs \ (h.remotePeers \cup {h.id})
                     /\ s = Sequence!SetToSeq(S)
  OBVIOUS
<1>2. IsFiniteSet(S)
  BY <1>1, PartsFinite
<1>3. s \in Seq(S) /\ \A x \in S : \E i \in 1 .. Len(s) : s[i] = x
  BY <1>1, <1>2, SetListedWhole
<1>4. PICK n \in Nat : n = Len(s) /\ DOMAIN s = 1 .. n
  BY <1>3
<1>5. PICK known : known = [j \in DOMAIN s |-> h.remotePeers \cup {s[i] : i \in 1 .. j}]
  OBVIOUS
<1>6. PICK told : told = Sequence!FlattenSeq([j \in DOMAIN s |-> Notifications(h, known[j])])
  OBVIOUS
<1>7. told = Sequence!FlattenSeq([j \in DOMAIN s |->
                                    Notifications(h, h.remotePeers \cup {s[i] : i \in 1 .. j})])
  <2>1. [j \in DOMAIN s |-> Notifications(h, known[j])] =
            [j \in DOMAIN s |-> Notifications(h, h.remotePeers \cup {s[i] : i \in 1 .. j})]
    BY <1>5
  <2> QED
    BY <1>6, <2>1
<1>8. g = [h EXCEPT !.remotePeers = @ \cup (qs \ {h.id}),
                    !.out = IF leader(h) THEN @ \o told ELSE @]
  BY <1>1, <1>7 DEF AddPeers
<1>9. /\ DOMAIN g = Fields /\ g.id = h.id /\ g.leaderId = h.leaderId /\ g.term = h.term
      /\ g.closed = h.closed /\ g.run = h.run
      /\ g.remotePeers = h.remotePeers \cup (qs \ {h.id})
      /\ g.out = IF leader(h) THEN h.out \o told ELSE h.out
  BY <1>8 DEF Knowing, Fields
<1>10. ASSUME leader(h) PROVE Informs(g) \/ (g.remotePeers = h.remotePeers /\ g.out = <<>>)
  <2>1. CASE n = 0
    <3>1. S = {}
      BY <1>3, <1>4, <2>1
    <3>2. told = <<>>
      <4>1. [j \in DOMAIN s |-> Notifications(h, known[j])] = <<>>
        BY <1>4, <2>1
      <4> QED
        BY <1>6, <4>1 DEF Sequence!FlattenSeq
    <3>3. g.out = <<>>
      BY <1>9, <1>10, <3>2
    <3>4. qs \ {h.id} \subseteq h.remotePeers
      BY <1>1, <3>1
    <3> QED
      BY <1>9, <3>3, <3>4
  <2>2. CASE n # 0
    <3>1. ASSUME NEW j \in 1 .. n PROVE known[j] \subseteq Peers \ {h.id}
      <4>1. \A i \in 1 .. j : s[i] \in S
        BY <1>3, <1>4
      <4>2. known[j] = h.remotePeers \cup {s[i] : i \in 1 .. j}
        BY <1>4, <1>5
      <4>3. S \subseteq Peers \ {h.id} /\ h.remotePeers \subseteq Peers \ {h.id}
        BY <1>1 DEF Knowing
      <4> QED
        BY <4>1, <4>2, <4>3
    <3>2. known[n] = g.remotePeers
      <4>1. {s[i] : i \in 1 .. n} = S
        BY <1>3, <1>4
      <4>2. n \in DOMAIN s
        BY <1>4, <2>2
      <4> QED
        BY <1>1, <1>5, <1>9, <4>1, <4>2
    <3>3. told \in Seq(Announcements(h)) /\ \A q \in known[n] : EndsTelling(told, q, known[n])
      BY <1>4, <1>6, <2>2, <3>1, ToldLast DEF Knowing
    <3>4. g.out = told
      BY <1>9, <1>10, <3>3
    <3>5. From(told, h.id)
      BY <3>3, AnnouncementsFrom DEF Knowing
    <3> QED
      BY <1>9, <3>2, <3>3, <3>4, <3>5 DEF Informs
  <2> QED
    BY <2>1, <2>2
<1> QED
  BY <1>1, <1>9, <1>10 DEF Steady

LEMMA RemovePeersTells ==
    ASSUME NEW h, Knowing(h), h.out = <<>>, NEW qs
    PROVE  LET g == RemovePeers(h, qs)
           IN  /\ Steady(g, h) /\ g.leaderId = h.leaderId
               /\ g.remotePeers = h.remotePeers \ qs
               /\ ~leader(h) => g.out = <<>>
               /\ leader(h) => Informs(g) \/ (g.remotePeers = h.remotePeers /\ g.out = <<>>)
<1>1. PICK g, S, s : /\ g = RemovePeers(h, qs) /\ S = qs \cap h.remotePeers
                     /\ s = Sequence!SetToSeq(S)
  OBVIOUS
<1>2. IsFiniteSet(S)
  BY <1>1, PartsFinite DEF Knowing
<1>3. s \in Seq(S) /\ \A x \in S : \E i \in 1 .. Len(s) : s[i] = x
  BY <1>1, <1>2, SetListedWhole
<1>4. PICK n \in Nat : n = Len(s) /\ DOMAIN s = 1 .. n
  BY <1>3
<1>5. PICK left : left = [j \in DOMAIN s |-> h.remotePeers \ {s[i] : i \in 1 .. j}]
  OBVIOUS
<1>6. PICK told : told = Sequence!FlattenSeq([j \in DOMAIN s |-> Notifications(h, left[j])])
  OBVIOUS
<1>7. told = Sequence!FlattenSeq([j \in DOMAIN s |->
                                    Notifications(h, h.remotePeers \ {s[i] : i \in 1 .. j})])
  <2>1. [j \in DOMAIN s |-> Notifications(h, left[j])] =
            [j \in DOMAIN s |-> Notifications(h, h.remotePeers \ {s[i] : i \in 1 .. j})]
    BY <1>5
  <2> QED
    BY <1>6, <2>1
<1>8. g = [h EXCEPT !.remotePeers = @ \ qs, !.nextIndex = Untracked(h, qs),
                   !.out = IF leader(h) THEN @ \o told ELSE @]
  BY <1>1, <1>7 DEF RemovePeers
<1>9. /\ DOMAIN g = Fields /\ g.id = h.id /\ g.leaderId = h.leaderId /\ g.term = h.term
      /\ g.closed = h.closed /\ g.run = h.run
      /\ g.remotePeers = h.remotePeers \ qs
      /\ g.out = IF leader(h) THEN h.out \o told ELSE h.out
  BY <1>8 DEF Knowing, Fields
<1>10. ASSUME leader(h) PROVE Informs(g) \/ (g.remotePeers = h.remotePeers /\ g.out = <<>>)
  <2>1. CASE n = 0
    <3>1. S = {}
      BY <1>3, <1>4, <2>1
    <3>2. told = <<>>
      <4>1. [j \in DOMAIN s |-> Notifications(h, left[j])] = <<>>
        BY <1>4, <2>1
      <4> QED
        BY <1>6, <4>1 DEF Sequence!FlattenSeq
    <3> QED
      BY <1>1, <1>9, <1>10, <3>1, <3>2
  <2>2. CASE n # 0
    <3>1. \A j \in 1 .. n : left[j] \subseteq Peers \ {h.id}
      BY <1>4, <1>5 DEF Knowing
    <3>2. left[n] = g.remotePeers
      <4>1. {s[i] : i \in 1 .. n} = S
        BY <1>3, <1>4
      <4>2. n \in DOMAIN s
        BY <1>4, <2>2
      <4> QED
        BY <1>1, <1>5, <1>9, <4>1, <4>2
    <3>3. told \in Seq(Announcements(h)) /\ \A q \in left[n] : EndsTelling(told, q, left[n])
      BY <1>4, <1>6, <2>2, <3>1, ToldLast DEF Knowing
    <3>4. g.out = told
      BY <1>9, <1>10, <3>3
    <3>5. From(told, h.id)
      BY <3>3, AnnouncementsFrom DEF Knowing
    <3> QED
      BY <1>9, <3>2, <3>3, <3>4, <3>5 DEF Informs
  <2> QED
    BY <2>1, <2>2
<1> QED
  BY <1>1, <1>9, <1>10 DEF Steady

-----------------------------------------------------------------------------
(* What a follower does.                                                   *)

\* g is h after something that does not make it a leader, and by which it gets to know nobody.
Follows(g, h) ==
    /\ Steady(g, h)
    /\ h.leaderId # h.id => g.leaderId # g.id
    /\ g.remotePeers = h.remotePeers \/ g.remotePeers = {}

LEMMA FollowsTwice ==
    ASSUME NEW f, NEW g, NEW h, Follows(f, g), Follows(g, h) PROVE Follows(f, h)
BY DEF Follows, Steady

LEMMA JoinFollows ==
    ASSUME NEW h, DOMAIN h = Fields, NEW n
    PROVE  /\ h.run => Follows(join(h, n), h)
           /\ join(h, n).out = h.out /\ join(h, n).leaderId = h.leaderId
           /\ DOMAIN join(h, n) = Fields /\ join(h, n).id = h.id /\ join(h, n).term = h.term
           /\ join(h, n).closed = h.closed /\ join(h, n).remotePeers = h.remotePeers
<1>1. CASE h.closed \/ h.joining # "no" \/ h.leaderId # Nil
  BY <1>1 DEF join, Follows, Steady
<1>2. CASE ~(h.closed \/ h.joining # "no" \/ h.leaderId # Nil)
  <2>1. PICK g : g = join(h, n)
    OBVIOUS
  <2>2. g = [h EXCEPT !.run = TRUE, !.heard = {}, !.stale = {}, !.joining = "waiting",
                   !.retries = n, !.retried = 0, !.aborted = FALSE, !.timer = TRUE]
    BY <1>2, <2>1 DEF join
  <2>3. /\ DOMAIN g = Fields /\ g.id = h.id /\ g.term = h.term /\ g.closed = h.closed
        /\ g.leaderId = h.leaderId /\ g.remotePeers = h.remotePeers /\ g.out = h.out
    BY <2>2 DEF Fields
  <2> QED
    BY <2>1, <2>3 DEF Follows, Steady
<1> QED
  BY <1>1, <1>2

LEMMA LeaderSteady ==
    ASSUME NEW h, DOMAIN h = Fields, h.id \in Peers, NEW id
    PROVE  /\ Steady(LeaderChanged(h, id), h) /\ LeaderChanged(h, id).leaderId = id
           /\ id # h.id => Follows(LeaderChanged(h, id), h) /\ LeaderChanged(h, id).out = h.out
<1>1. CASE h.leaderId = id
  BY <1>1 DEF LeaderChanged, Follows, Steady
<1>2. CASE h.leaderId # id
  <2>1. PICK c : c = [h EXCEPT !.leaderId = id, !.heard = {}, !.stale = {},
                               !.joining = IF @ = "waiting" THEN "woken" ELSE @]
    OBVIOUS
  <2>2. /\ DOMAIN c = Fields /\ c.id = h.id /\ c.term = h.term /\ c.closed = h.closed
        /\ c.run = h.run /\ c.leaderId = id /\ c.remotePeers = h.remotePeers /\ c.out = h.out
    BY <2>1 DEF Fields
  <2>3. CASE id = h.id
    <3>1. PICK g : g = broadcastEndpointNotification(c)
      OBVIOUS
    <3>2. /\ DOMAIN g = Fields /\ g.id = c.id /\ g.term = c.term /\ g.closed = c.closed
          /\ g.run = c.run /\ g.leaderId = c.leaderId
      BY <2>2, <3>1 DEF broadcastEndpointNotification, Fields
    <3>3. LeaderChanged(h, id) = g
      BY <1>2, <2>1, <2>3, <3>1 DEF LeaderChanged
    <3> QED
      BY <2>2, <2>3, <3>2, <3>3 DEF Steady
  <2>4. CASE id # h.id /\ id = Nil /\ h.run /\ ~h.closed
    <3>1. PICK d : d = [c EXCEPT !.remotePeers = {}, !.nextIndex = Untracked(h, h.remotePeers)]
      OBVIOUS
    <3>2. /\ DOMAIN d = Fields /\ d.id = c.id /\ d.term = c.term /\ d.closed = c.closed
          /\ d.run = c.run /\ d.leaderId = c.leaderId /\ d.remotePeers = {} /\ d.out = c.out
      BY <2>2, <3>1 DEF Fields
    <3>3. LeaderChanged(h, id) = join(d, -1)
      BY <1>2, <2>1, <2>2, <2>4, <3>1 DEF LeaderChanged
    <3>4. Follows(d, h)
      BY <2>2, <2>4, <3>2 DEF Follows, Steady
    <3>5. Follows(join(d, -1), d) /\ join(d, -1).out = d.out /\ join(d, -1).leaderId = d.leaderId
      BY <2>2, <2>4, <3>2, JoinFollows
    <3> QED
      BY <2>2, <3>2, <3>3, <3>4, <3>5, FollowsTwice DEF Follows
  <2>5. CASE id # h.id /\ ~(id = Nil /\ h.run /\ ~h.closed)
    <3>1. LeaderChanged(h, id) = c
      BY <1>2, <2>1, <2>2, <2>5 DEF LeaderChanged
    <3> QED
      BY <2>2, <2>5, <3>1 DEF Follows, Steady
  <2> QED
    BY <2>3, <2>4, <2>5
<1> QED
  BY <1>1, <1>2

LEMMA StopFollows ==
    ASSUME NEW h, DOMAIN h = Fields, h.id \in Peers
    PROVE  /\ Follows(_stopRaftEngine(h), h) /\ _stopRaftEngine(h).out = h.out
           /\ h.timer => _stopRaftEngine(h).leaderId = Nil
<1>1. CASE ~h.timer
  BY <1>1 DEF _stopRaftEngine, Follows, Steady
<1>2. CASE h.timer
  <2>1. PICK c, g : c = LeaderChanged(h, Nil) /\ g = _stopRaftEngine(h)
    OBVIOUS
  <2>2. h.id # Nil
    BY SettingsAssumption
  <2>3. Follows(c, h) /\ c.out = h.out /\ DOMAIN c = Fields /\ c.leaderId = Nil
    BY <2>1, <2>2, LeaderSteady DEF Follows, Steady
  <2>4. g = [c EXCEPT !.timer = FALSE, !.heard = {}, !.stale = {}]
    BY <1>2, <2>1 DEF _stopRaftEngine
  <2>5. /\ DOMAIN g = Fields /\ g.id = c.id /\ g.term = c.term /\ g.closed = c.closed
        /\ g.run = c.run /\ g.leaderId = c.leaderId /\ g.remotePeers = c.remotePeers
        /\ g.out = c.out
    BY <2>3, <2>4 DEF Fields
  <2>6. Follows(g, c)
    BY <2>5 DEF Follows, Steady
  <2> QED
    BY <2>1, <2>3, <2>5, <2>6, FollowsTwice
<1> QED
  BY <1>1, <1>2

LEMMA LeftFollows ==
    ASSUME NEW h, DOMAIN h = Fields, h.id \in Peers
    PROVE  /\ Follows(Left(h), h) /\ Left(h).out = h.out
           /\ h.timer => Left(h).leaderId = Nil
<1>1. PICK f, g, k : /\ f = [h EXCEPT !.run = FALSE] /\ g = _stopRaftEngine(f)
                     /\ k = [g EXCEPT !.remotePeers = {}, !.nextIndex = Untracked(h, h.remotePeers),
                                 !.leaving = FALSE]
  OBVIOUS
<1>2. /\ DOMAIN f = Fields /\ f.id = h.id /\ f.term = h.term /\ f.closed = h.closed /\ ~f.run
      /\ f.leaderId = h.leaderId /\ f.remotePeers = h.remotePeers /\ f.out = h.out
      /\ f.timer = h.timer
  BY <1>1 DEF Fields
<1>3. Follows(f, h)
  BY <1>2 DEF Follows, Steady
<1>4. Follows(g, f) /\ g.out = f.out /\ DOMAIN g = Fields /\ (f.timer => g.leaderId = Nil)
  BY <1>1, <1>2, StopFollows DEF Follows, Steady
<1>5. /\ DOMAIN k = Fields /\ k.id = g.id /\ k.term = g.term /\ k.closed = g.closed
      /\ k.run = g.run /\ k.leaderId = g.leaderId /\ k.remotePeers = {} /\ k.out = g.out
  BY <1>1, <1>4 DEF Fields
<1>6. Follows(k, g)
  BY <1>5 DEF Follows, Steady
<1>7. k = Left(h)
  BY <1>1 DEF Left
<1> QED
  BY <1>2, <1>3, <1>4, <1>5, <1>6, <1>7, FollowsTwice

LEMMA SettledFollows ==
    ASSUME NEW h, DOMAIN h = Fields, h.id \in Peers
    PROVE  Follows(Settled(h), h) /\ Settled(h).out = h.out
<1>1. CASE h.joining # "woken"
  BY <1>1 DEF Settled, Follows, Steady
<1>2. CASE h.joining = "woken"
  <2>1. PICK d : d = [h EXCEPT !.joining = "no", !.aborted = FALSE]
    OBVIOUS
  <2>2. /\ DOMAIN d = Fields /\ d.id = h.id /\ d.term = h.term /\ d.closed = h.closed
        /\ d.run = h.run /\ d.leaderId = h.leaderId /\ d.remotePeers = h.remotePeers
        /\ d.out = h.out
    BY <2>1 DEF Fields
  <2>3. Follows(d, h)
    BY <2>2 DEF Follows, Steady
  <2>4. Settled(h) = d \/ Settled(h) = Left(d)
    BY <1>2, <2>1 DEF Settled
  <2> QED
    BY <2>2, <2>3, <2>4, LeftFollows, FollowsTwice
<1> QED
  BY <1>1, <1>2

(* What a handler leaves behind                                            *)
LEMMA BecomesHow ==
    ASSUME DOMAIN peer = Peers, NEW p \in Peers, NEW h, DOMAIN h = Fields, h.id = p,
           NEW channels, NetOK(channels), Becomes(p, h, channels)
    PROVE  /\ Follows(peer'[p], h)
           /\ h.joining # "woken" => /\ peer'[p].leaderId = h.leaderId
                                     /\ peer'[p].remotePeers = h.remotePeers
           /\ \A q \in Peers \ {p} : peer'[q] = peer[q]
           /\ net' = Sent(channels, h.out)
<1>1. PICK d, g : d = Settled(h) /\ g = [d EXCEPT !.out = <<>>]
  OBVIOUS
<1>2. Follows(d, h) /\ d.out = h.out /\ DOMAIN d = Fields
  BY <1>1, SettledFollows DEF Follows, Steady
<1>3. /\ DOMAIN g = Fields /\ g.id = d.id /\ g.term = d.term /\ g.closed = d.closed
      /\ g.run = d.run /\ g.leaderId = d.leaderId /\ g.remotePeers = d.remotePeers
  BY <1>1, <1>2 DEF Fields
<1>4. Follows(g, d)
  BY <1>3 DEF Follows, Steady
<1>5. /\ peer' = [peer EXCEPT ![p] = g]
      /\ net' = IF d.out = <<>> THEN channels ELSE Sent(channels, d.out)
  BY <1>1 DEF Becomes
<1>6. peer'[p] = g /\ \A q \in Peers \ {p} : peer'[q] = peer[q]
  BY <1>5
<1>7. net' = Sent(channels, h.out)
  BY <1>2, <1>5, NothingSent
<1>8. h.joining # "woken" => d = h
  BY <1>1 DEF Settled
<1> QED
  BY <1>2, <1>3, <1>4, <1>6, <1>7, <1>8, FollowsTwice

-----------------------------------------------------------------------------
(* The reign of the first leader.                                          *)

\* The peers that take part
InPlay == setting.grid \cup setting.joiners

\* The grid is formed and has a leader, no message gets lost, and at most one peer is new to it.
Established ==
    /\ setting \in Settings
    /\ setting.leader # Nil
    /\ ~setting.lossy
    /\ \A p, q \in setting.joiners \ setting.grid : p = q

\* Nobody has been elected after the grid was formed.
Early == \A p \in Peers : peer[p].term <= 1

\* Who was in the grid has its first term behind, who takes no part has no engine.
TermsOK ==
    \A p \in Peers : /\ peer[p].term \in Nat
                     /\ p \in setting.grid => 1 <= peer[p].term
                     /\ p \notin InPlay => ~peer[p].run

\* h knows whom its leader l knows, unless it has forgotten the leader too.
UpToDate(h, known, l) ==
    h.closed \/ l \notin h.remotePeers \/ (known \cup {l}) \ {h.id} \subseteq h.remotePeers

\* Whom l knows is up to date, or the last notification on the way brings it up to date.
Reigns(l) ==
    /\ net[l][l] = <<>>
    /\ \A p \in peer[l].remotePeers :
        IF net[l][p] = <<>> THEN UpToDate(peer[p], peer[l].remotePeers, l)
        ELSE Told(net[l][p], l, peer[l].remotePeers)

\* There is no leader but l, and nobody else tells whom he knows.
Undisputed(l) ==
    /\ \A q \in Peers : leader(peer[q]) => q = l
    /\ \A q \in Peers \ {l}, p \in Peers : OnlyJoins(net[q][p], q)
    /\ leader(peer[l]) => Reigns(l)

FirstReign == TermsOK /\ (Early => Undisputed(setting.leader))

\* What the steps start from
Start == Inv /\ GridOK /\ FirstReign /\ Established /\ UNCHANGED setting

\* What they keep, and that an early state comes only after early ones.
Reigning == FirstReign' /\ (Early' => Early)

LEMMA StartMeans ==
    ASSUME Start, NEW p \in Peers
    PROVE  /\ DOMAIN peer = Peers /\ NetOK(net) /\ setting.leader \in Peers
           /\ setting.grid \subseteq Peers
           /\ LET h == peer[p]
              IN  /\ DOMAIN h = Fields /\ h.id = p /\ h.out = <<>> /\ Knowing(h) /\ PeerOK(h)
                  /\ h.joining # "woken" /\ h.term \in Nat
<1>1. setting.leader \in Peers /\ setting.grid \subseteq Peers
  BY SettingsAssumption DEF Start, Established
<1>2. DOMAIN peer = Peers /\ NetOK(net)
  BY DEF Start, Inv, GridOK
<1>3. peer[p].joining \in {"no", "waiting"} /\ peer[p].out = <<>> /\ Knowing(peer[p])
  BY DEF Start, GridOK
<1>4. peer[p].id = p /\ PeerOK(peer[p]) /\ DOMAIN peer[p] = Fields
  BY DEF Start, Inv, PeerOK, Sound
<1> QED
  BY <1>1, <1>2, <1>3, <1>4 DEF Start, FirstReign, TermsOK

(* Terms grow, and who takes no part has no engine.                        *)
LEMMA TermsBecome ==
    ASSUME Start, NEW p \in Peers, NEW h, DOMAIN h = Fields, h.id = p,
           h.term \in Nat, peer[p].term <= h.term, p \in InPlay \/ peer[p].run \/ ~h.run,
           NEW channels, NetOK(channels), Becomes(p, h, channels)
    PROVE  TermsOK' /\ (Early' => Early) /\ peer'[p].term = h.term
<1>1. DOMAIN peer = Peers
  BY StartMeans
<1>2. /\ peer'[p].term = h.term /\ (~h.run => ~peer'[p].run)
      /\ \A q \in Peers \ {p} : peer'[q] = peer[q]
  BY <1>1, BecomesHow DEF Follows, Steady
<1>3. TermsOK
  BY DEF Start, FirstReign
<1>4. setting' = setting
  BY DEF Start
<1>5. ASSUME NEW q \in Peers
      PROVE  /\ peer'[q].term \in Nat /\ peer[q].term <= peer'[q].term
             /\ q \in setting'.grid => 1 <= peer'[q].term
             /\ q \notin InPlay' => ~peer'[q].run
  <2>1. CASE q = p
    BY <1>2, <1>3, <1>4, <2>1 DEF TermsOK, InPlay
  <2>2. CASE q # p
    BY <1>2, <1>3, <1>4, <2>2 DEF TermsOK, InPlay
  <2> QED
    BY <2>1, <2>2
<1>6. Early' => Early
  BY <1>3, <1>5 DEF Early, TermsOK
<1> QED
  BY <1>2, <1>5, <1>6 DEF TermsOK

(* A handler that does not end as the leader's: it only joins.             *)
LEMMA FollowerBecomes ==
    ASSUME Start, NEW p \in Peers, NEW h, DOMAIN h = Fields, h.id = p, h.leaderId # p,
           h.term \in Nat, peer[p].term <= h.term, p \in InPlay \/ peer[p].run \/ ~h.run,
           Messages(h.out), OnlyJoins(h.out, p),
           NEW channels, NetOK(channels), Becomes(p, h, channels),
           \A q, t \in Peers : q # setting.leader /\ OnlyJoins(net[q][t], q)
                                => OnlyJoins(channels[q][t], q),
           LET l == setting.leader
           IN  p # l /\ leader(peer[l]) /\ Reigns(l) =>
                /\ \A t \in Peers \ {p} : channels[l][t] = net[l][t]
                /\ p \in peer[l].remotePeers =>
                    IF channels[l][p] = <<>> THEN UpToDate(h, peer[l].remotePeers, l)
                    ELSE Told(channels[l][p], l, peer[l].remotePeers)
    PROVE  Reigning
<1>1. DOMAIN peer = Peers /\ setting.leader \in Peers
  BY StartMeans
<1>2. PICK l, g : l = setting.leader /\ g = peer'[p]
  OBVIOUS
<1>3. /\ Follows(g, h) /\ \A q \in Peers \ {p} : peer'[q] = peer[q]
      /\ net' = Sent(channels, h.out)
  BY <1>1, <1>2, BecomesHow
<1>4. TermsOK' /\ (Early' => Early)
  BY TermsBecome
<1>5. SUFFICES ASSUME Early PROVE Undisputed(l)'
  BY <1>2, <1>4 DEF Reigning, FirstReign, Start
<1>6. Undisputed(l) /\ l \in Peers
  BY <1>1, <1>2, <1>5 DEF Start, FirstReign
<1>7. ~leader(g) /\ g.id = p /\ (h.closed => g.closed)
      /\ (g.remotePeers = h.remotePeers \/ g.remotePeers = {})
  BY <1>3 DEF Follows, Steady, leader
<1>8. ASSUME NEW q \in Peers, leader(peer'[q]) PROVE q = l
  <2>1. q # p
    BY <1>2, <1>7, <1>8
  <2> QED
    BY <1>3, <1>6, <1>8, <2>1 DEF Undisputed
<1>9. ASSUME NEW q \in Peers \ {l}, NEW t \in Peers PROVE OnlyJoins(net'[q][t], q)
  <2>1. OnlyJoins(channels[q][t], q)
    BY <1>2, <1>6 DEF Undisputed
  <2>2. CASE q = p
    BY <1>3, <2>1, <2>2, SentJoins
  <2>3. CASE q # p
    <3>1. \A i \in 1 .. Len(h.out) : h.out[i].from # q
      BY <2>3 DEF OnlyJoins
    <3>2. net'[q][t] = channels[q][t]
      BY <1>3, <3>1, SentElsewhere
    <3> QED
      BY <2>1, <3>2
  <2> QED
    BY <2>2, <2>3
<1>10. ASSUME leader(peer'[l]) PROVE Reigns(l)'
  <2>1. p # l
    BY <1>2, <1>7, <1>10
  <2>2. peer'[l] = peer[l] /\ Reigns(l)
    BY <1>3, <1>6, <1>10, <2>1 DEF Undisputed
  <2>3. ASSUME NEW t \in Peers PROVE net'[l][t] = channels[l][t]
    <3>1. \A i \in 1 .. Len(h.out) : h.out[i].from # l
      BY <2>1 DEF OnlyJoins
    <3> QED
      BY <1>3, <1>6, <3>1, SentElsewhere
  <2>4. peer[l].remotePeers \subseteq Peers
    BY <1>6, StartMeans DEF Knowing
  <2>5. /\ \A t \in Peers \ {p} : channels[l][t] = net[l][t]
        /\ p \in peer[l].remotePeers =>
            IF channels[l][p] = <<>> THEN UpToDate(h, peer[l].remotePeers, l)
            ELSE Told(channels[l][p], l, peer[l].remotePeers)
    BY <1>2, <1>10, <2>1, <2>2
  <2>6. net'[l][l] = <<>>
    BY <1>6, <2>1, <2>2, <2>3, <2>5 DEF Reigns
  <2>7. ASSUME NEW q \in peer[l].remotePeers
        PROVE  IF net'[l][q] = <<>> THEN UpToDate(peer'[q], peer[l].remotePeers, l)
               ELSE Told(net'[l][q], l, peer[l].remotePeers)
    <3>1. q \in Peers
      BY <2>4
    <3>2. CASE q # p
      BY <1>3, <2>2, <2>3, <2>5, <3>1, <3>2 DEF Reigns
    <3>3. CASE q = p
      <4>1. net'[l][q] = channels[l][p] /\ peer'[q] = g
        BY <1>2, <2>3, <3>1, <3>3
      <4>2. UpToDate(h, peer[l].remotePeers, l) => UpToDate(g, peer[l].remotePeers, l)
        BY <1>7 DEF UpToDate
      <4> QED
        BY <2>5, <3>3, <4>1, <4>2
    <3> QED
      BY <3>2, <3>3
  <2> QED
    BY <2>2, <2>6, <2>7 DEF Reigns
<1> QED
  BY <1>8, <1>9, <1>10 DEF Undisputed

(* A handler of the leader, after which it still leads: whom it got to     *)
(* know, or to know no longer, it has told everyone.                       *)
LEMMA LeaderBecomes ==
    ASSUME Start, NEW p \in Peers, NEW h, Knowing(h), h.id = p, h.leaderId = p,
           peer[p].leaderId = p, h.joining # "woken", Steady(h, peer[p]),
           Informs(h) \/ (h.remotePeers = peer[p].remotePeers /\ h.out = <<>>),
           NEW channels, NetOK(channels), Becomes(p, h, channels),
           \A t \in Peers : p = setting.leader => channels[p][t] = net[p][t],
           \A q, t \in Peers : q # setting.leader /\ OnlyJoins(net[q][t], q)
                                => OnlyJoins(channels[q][t], q)
    PROVE  Reigning
<1>1. DOMAIN peer = Peers /\ setting.leader \in Peers /\ peer[p].id = p /\ peer[p].term \in Nat
  BY StartMeans
<1>2. PICK l : l = setting.leader
  OBVIOUS
<1>3. DOMAIN h = Fields /\ Messages(h.out) /\ h.remotePeers \subseteq Peers \ {p}
  BY DEF Knowing
<1>4. /\ peer'[p].leaderId = p /\ peer'[p].id = p /\ peer'[p].remotePeers = h.remotePeers
      /\ \A q \in Peers \ {p} : peer'[q] = peer[q]
      /\ net' = Sent(channels, h.out)
  BY <1>1, <1>3, BecomesHow DEF Follows, Steady
<1>5. TermsOK' /\ (Early' => Early)
  BY <1>1, <1>3, TermsBecome DEF Steady
<1>6. SUFFICES ASSUME Early PROVE Undisputed(l)'
  BY <1>2, <1>5 DEF Reigning, FirstReign, Start
<1>7. Undisputed(l) /\ l = p
  BY <1>1, <1>2, <1>6 DEF Start, FirstReign, Undisputed, leader
<1>8. Reigns(p)
  BY <1>1, <1>7 DEF Undisputed, leader
<1>9. \A i \in 1 .. Len(h.out) : h.out[i].from = p /\ h.out[i].to # p
  <2>1. CASE Informs(h)
    BY <2>1 DEF Informs, From
  <2>2. CASE h.out = <<>>
    BY <2>2
  <2> QED
    BY <2>1, <2>2
<1>10. ASSUME NEW q \in Peers, leader(peer'[q]) PROVE q = l
  BY <1>4, <1>7, <1>10 DEF Undisputed
<1>11. ASSUME NEW q \in Peers \ {l}, NEW t \in Peers PROVE OnlyJoins(net'[q][t], q)
  <2>1. OnlyJoins(channels[q][t], q)
    BY <1>2, <1>7 DEF Undisputed
  <2>2. net'[q][t] = channels[q][t]
    BY <1>3, <1>4, <1>7, <1>9, SentElsewhere
  <2> QED
    BY <2>1, <2>2
<1>12. Reigns(p)'
  <2>1. net'[p][p] = <<>>
    <3>1. net'[p][p] = channels[p][p]
      BY <1>3, <1>4, <1>9, SentElsewhere
    <3> QED
      BY <1>2, <1>7, <1>8, <3>1 DEF Reigns
  <2>2. CASE Informs(h)
    <3>1. ASSUME NEW q \in h.remotePeers PROVE Told(net'[p][q], p, h.remotePeers)
      <4>1. q \in Peers /\ From(h.out, p) /\ EndsTelling(h.out, q, h.remotePeers)
        BY <1>3, <2>2 DEF Informs
      <4> QED
        BY <1>3, <1>4, <4>1, SentTells
    <3>2. \A q \in h.remotePeers : net'[p][q] # <<>>
      BY <3>1 DEF Told
    <3> QED
      BY <1>4, <2>1, <3>1, <3>2 DEF Reigns
  <2>3. CASE h.remotePeers = peer[p].remotePeers /\ h.out = <<>>
    <3>1. net' = channels
      BY <1>4, <2>3, NothingSent
    <3>2. ASSUME NEW q \in h.remotePeers
          PROVE  net'[p][q] = net[p][q] /\ peer'[q] = peer[q]
      BY <1>2, <1>3, <1>4, <1>7, <3>1
    <3> QED
      BY <1>4, <1>8, <2>1, <2>3, <3>2 DEF Reigns
  <2> QED
    BY <2>2, <2>3
<1> QED
  BY <1>7, <1>10, <1>11, <1>12 DEF Undisputed

(* A handler after which nothing is left of the first reign                *)
LEMMA LateBecomes ==
    ASSUME Start, ~Early, NEW p \in Peers, NEW h, Steady(h, peer[p]),
           NEW channels, NetOK(channels), Becomes(p, h, channels)
    PROVE  Reigning
<1>1. peer[p].id = p /\ peer[p].term \in Nat
  BY StartMeans
<1>2. TermsOK' /\ (Early' => Early)
  BY <1>1, TermsBecome DEF Steady
<1> QED
  BY <1>2 DEF Reigning, FirstReign

-----------------------------------------------------------------------------
(* The steps of the first reign.                                           *)

LEMMA UpToDateAfter ==
    ASSUME NEW g, NEW h, NEW known, NEW l, UpToDate(h, known, l), g.id = h.id,
           h.closed => g.closed,
           l \in g.remotePeers => l \in h.remotePeers /\ h.remotePeers \subseteq g.remotePeers
    PROVE  UpToDate(g, known, l)
BY DEF UpToDate

LEMMA NoJoins == \A p : OnlyJoins(<<>>, p)
BY DEF OnlyJoins

(* A handler that sends nothing and by which a peer gets to know nobody    *)
LEMMA FollowingBecomes ==
    ASSUME Start, NEW p \in Peers, NEW h, DOMAIN h = Fields, h.id = p, h.leaderId # p,
           h.term \in Nat, peer[p].term <= h.term, p \in InPlay \/ peer[p].run \/ ~h.run,
           peer[p].closed => h.closed, h.out = <<>>,
           h.remotePeers = peer[p].remotePeers \/ h.remotePeers = {},
           Becomes(p, h, net)
    PROVE  Reigning
<1>1. NetOK(net) /\ peer[p].id = p
  BY StartMeans
<1>2. Messages(h.out) /\ OnlyJoins(h.out, p)
  BY NoMessages, NoJoins
<1>3. PICK l : l = setting.leader
  OBVIOUS
<1>4. ASSUME Reigns(l), p \in peer[l].remotePeers
      PROVE  IF net[l][p] = <<>> THEN UpToDate(h, peer[l].remotePeers, l)
             ELSE Told(net[l][p], l, peer[l].remotePeers)
  <2>1. IF net[l][p] = <<>> THEN UpToDate(peer[p], peer[l].remotePeers, l)
        ELSE Told(net[l][p], l, peer[l].remotePeers)
    BY <1>4 DEF Reigns
  <2> QED
    BY <1>1, <2>1, UpToDateAfter
<1> QED
  BY <1>1, <1>2, <1>3, <1>4, FollowerBecomes

\* h differs from the peer g only in what the reign does not speak of.
Unmoved(h, g) ==
    /\ Steady(h, g)
    /\ h.leaderId = g.leaderId /\ h.remotePeers = g.remotePeers /\ h.out = g.out
    /\ h.joining = g.joining

LEMMA UnmovedBecomes ==
    ASSUME Start, NEW p \in Peers, NEW h, Unmoved(h, peer[p]), h.heard \subseteq Peers \ {p},
           h.stale \subseteq h.heard, Becomes(p, h, net)
    PROVE  Reigning
<1>1. /\ NetOK(net) /\ peer[p].id = p /\ peer[p].out = <<>> /\ peer[p].term \in Nat
      /\ Knowing(peer[p]) /\ peer[p].joining # "woken"
  BY StartMeans
<1>2. DOMAIN h = Fields /\ h.id = p /\ h.term = peer[p].term /\ h.out = <<>>
      /\ (peer[p].closed => h.closed) /\ (~peer[p].run => ~h.run)
  BY <1>1 DEF Unmoved, Steady
<1>3. CASE peer[p].leaderId # p
  BY <1>1, <1>2, <1>3, FollowingBecomes DEF Unmoved
<1>4. CASE peer[p].leaderId = p
  <2>1. Knowing(h)
    BY <1>1, <1>2, NoMessages DEF Unmoved, Knowing
  <2> QED
    BY <1>1, <1>2, <1>4, <2>1, LeaderBecomes DEF Unmoved
<1> QED
  BY <1>3, <1>4

LEMMA CallsReign ==
    ASSUME Start, NEW p \in Peers, CallJoin(p) \/ CallLeave(p) \/ CallClose(p) \/ JoinTimeout(p)
    PROVE  Reigning
<1>1. PICK h : h = peer[p]
  OBVIOUS
<1>2. /\ DOMAIN h = Fields /\ h.id = p /\ h.out = <<>> /\ Knowing(h) /\ PeerOK(h)
      /\ h.joining # "woken" /\ h.term \in Nat /\ p # Nil
  BY <1>1, StartMeans, SettingsAssumption
<1>3. CASE CallJoin(p)
  <2>1. PICK g : g = join(h, setting.retries)
    OBVIOUS
  <2>2. /\ g.out = h.out /\ g.leaderId = h.leaderId /\ DOMAIN g = Fields /\ g.id = p
        /\ g.term = h.term /\ g.closed = h.closed /\ g.remotePeers = h.remotePeers
    BY <1>2, <2>1, JoinFollows
  <2>3. p \in InPlay /\ h.leaderId = Nil /\ Becomes(p, g, net)
    BY <1>1, <1>3, <2>1 DEF CallJoin, InPlay
  <2> QED
    BY <1>1, <1>2, <2>2, <2>3, FollowingBecomes
<1>4. ASSUME NEW g, Follows(g, h), g.out = <<>>, g.leaderId # p, Becomes(p, g, net)
      PROVE  Reigning
  <2>1. /\ DOMAIN g = Fields /\ g.id = p /\ g.term = h.term /\ (h.closed => g.closed)
        /\ (~h.run => ~g.run) /\ (g.remotePeers = h.remotePeers \/ g.remotePeers = {})
    BY <1>2, <1>4 DEF Follows, Steady
  <2> QED
    BY <1>1, <1>2, <1>4, <2>1, FollowingBecomes
<1>5. CASE CallLeave(p)
  <2>1. CASE h.joining = "waiting"
    <3>1. PICK g : g = [h EXCEPT !.aborted = TRUE, !.leaving = TRUE]
      OBVIOUS
    <3>2. /\ DOMAIN g = Fields /\ g.id = h.id /\ g.term = h.term /\ g.closed = h.closed
          /\ g.run = h.run /\ g.leaderId = h.leaderId /\ g.remotePeers = h.remotePeers
          /\ g.out = h.out
      BY <1>2, <3>1 DEF Fields
    <3>3. h.leaderId = Nil /\ Becomes(p, g, net)
      BY <1>1, <1>2, <1>5, <2>1, <3>1 DEF CallLeave, leave, PeerOK, Sound
    <3> QED
      BY <1>2, <1>4, <3>2, <3>3 DEF Follows, Steady
  <2>2. CASE h.joining # "waiting"
    <3>1. PICK g : g = Left(h)
      OBVIOUS
    <3>2. Follows(g, h) /\ g.out = <<>> /\ (h.timer => g.leaderId = Nil)
      BY <1>2, <3>1, LeftFollows DEF Knowing
    <3>3. g.leaderId # p
      BY <1>2, <3>2 DEF PeerOK, Stands, Follows, Steady
    <3> QED
      BY <1>1, <1>4, <1>5, <2>2, <3>1, <3>2, <3>3 DEF CallLeave, leave
  <2> QED
    BY <2>1, <2>2
<1>6. CASE CallClose(p)
  <2>1. PICK f, g : f = [h EXCEPT !.closed = TRUE, !.run = FALSE] /\ g = _stopRaftEngine(f)
    OBVIOUS
  <2>2. /\ DOMAIN f = Fields /\ f.id = h.id /\ f.term = h.term /\ f.closed /\ ~f.run
        /\ f.leaderId = h.leaderId /\ f.remotePeers = h.remotePeers /\ f.out = h.out
        /\ f.timer = h.timer
    BY <1>2, <2>1 DEF Fields
  <2>3. Follows(f, h)
    BY <2>2 DEF Follows, Steady
  <2>4. /\ Follows(g, f) /\ g.out = <<>> /\ DOMAIN g = Fields /\ (f.timer => g.leaderId = Nil)
    BY <1>2, <2>1, <2>2, StopFollows DEF Follows, Steady
  <2>5. PICK routed, c : /\ routed = {h.registered[x] : x \in DOMAIN h.registered}
                         /\ c = close(h)
    OBVIOUS
  <2>6. c = [g EXCEPT !.remotePeers = {}, !.nextIndex = Untracked(h, h.remotePeers),
                      !.storages = [n \in DOMAIN @ |->
                            IF n \in routed THEN [@[n] EXCEPT !.open = FALSE] ELSE @[n]],
                      !.registered = <<>>]
    BY <2>1, <2>5 DEF close
  <2>7. /\ DOMAIN c = Fields /\ c.id = g.id /\ c.term = g.term /\ c.closed = g.closed
        /\ c.run = g.run /\ c.leaderId = g.leaderId /\ c.remotePeers = {} /\ c.out = g.out
    BY <2>4, <2>6 DEF Fields
  <2>8. Follows(c, g)
    BY <2>7 DEF Follows, Steady
  <2>9. Follows(c, h)
    BY <2>3, <2>4, <2>8, FollowsTwice
  <2>10. c.leaderId # p
    BY <1>2, <2>2, <2>4, <2>7, <2>9 DEF PeerOK, Stands, Follows, Steady
  <2> QED
    BY <1>1, <1>4, <1>6, <2>4, <2>5, <2>7, <2>9, <2>10 DEF CallClose
<1>7. CASE JoinTimeout(p)
  <2>1. PICK woken, again :
            /\ woken = [h EXCEPT !.joining = "woken"]
            /\ again = [h EXCEPT !.timer = TRUE,
                                 !.retried = IF h.remotePeers = {} THEN @ + 1 ELSE @]
    OBVIOUS
  <2>2. /\ DOMAIN woken = Fields /\ woken.id = h.id /\ woken.term = h.term
        /\ woken.closed = h.closed /\ woken.run = h.run /\ woken.leaderId = h.leaderId
        /\ woken.remotePeers = h.remotePeers /\ woken.out = h.out
    BY <1>2, <2>1 DEF Fields
  <2>3. /\ DOMAIN again = Fields /\ again.id = h.id /\ again.term = h.term
        /\ again.closed = h.closed /\ again.run = h.run /\ again.leaderId = h.leaderId
        /\ again.remotePeers = h.remotePeers /\ again.out = h.out
    BY <1>2, <2>1 DEF Fields
  <2>4. h.leaderId = Nil
    BY <1>1, <1>2, <1>7 DEF JoinTimeout, PeerOK, Sound
  <2>5. Becomes(p, woken, net) \/ Becomes(p, again, net)
    BY <1>1, <1>7, <2>1 DEF JoinTimeout
  <2> QED
    BY <1>2, <1>4, <2>2, <2>3, <2>4, <2>5 DEF Follows, Steady
<1> QED
  BY <1>3, <1>5, <1>6, <1>7

LEMMA RaftReign ==
    ASSUME Start, NEW p \in Peers, NEW q \in Peers,
           \/ KeepAlive(q, p) \/ Hear(p, q) \/ Unsynced(p, q)
           \/ FollowerTimeout(p) \/ Submit(p)
    PROVE  Reigning
<1>1. PICK h : h = peer[p]
  OBVIOUS
<1>2. /\ DOMAIN h = Fields /\ h.id = p /\ h.out = <<>> /\ Knowing(h) /\ PeerOK(h)
      /\ h.joining # "woken" /\ h.term \in Nat /\ p # Nil /\ NetOK(net)
  BY <1>1, StartMeans, SettingsAssumption
<1>3. ASSUME NEW id, id # p
      PROVE  LET c == LeaderChanged(h, id)
             IN  /\ DOMAIN c = Fields /\ c.id = p /\ c.term = h.term /\ (h.closed => c.closed)
                 /\ (~h.run => ~c.run) /\ c.leaderId = id /\ c.out = <<>>
                 /\ c.remotePeers = h.remotePeers \/ c.remotePeers = {}
  <2>1. PICK c : c = LeaderChanged(h, id)
    OBVIOUS
  <2>2. Follows(c, h) /\ c.out = h.out /\ c.leaderId = id
    BY <1>2, <1>3, <2>1, LeaderSteady
  <2> QED
    BY <1>2, <2>1, <2>2 DEF Follows, Steady
<1>4. ASSUME Becomes(p, LeaderChanged(h, Nil), net) PROVE Reigning
  BY <1>1, <1>2, <1>3, <1>4, FollowingBecomes
<1>5. CASE KeepAlive(q, p)
  <2>1. CASE Becomes(p, LeaderChanged(h, Nil), net)
    BY <1>4, <2>1
  <2>2. ASSUME NEW log, h.term <= peer[q].term,
               Becomes(p, [LeaderChanged(h, q) EXCEPT !.term = peer[q].term, !.log = log], net)
        PROVE  Reigning
    <3>1. q # p /\ peer[q].term \in Nat
      BY <1>2, <1>5, StartMeans DEF KeepAlive, Knowing
    <3>2. PICK c : c = LeaderChanged(h, q)
      OBVIOUS
    <3>3. PICK g : g = [c EXCEPT !.term = peer[q].term, !.log = log]
      OBVIOUS
    <3>4. /\ DOMAIN c = Fields /\ c.id = p /\ c.term = h.term /\ (h.closed => c.closed)
          /\ (~h.run => ~c.run) /\ c.leaderId = q /\ c.out = <<>>
          /\ c.remotePeers = h.remotePeers \/ c.remotePeers = {}
      BY <1>3, <3>1, <3>2
    <3>5. /\ DOMAIN g = Fields /\ g.id = c.id /\ g.term = peer[q].term /\ g.closed = c.closed
          /\ g.run = c.run /\ g.leaderId = c.leaderId /\ g.remotePeers = c.remotePeers
          /\ g.out = c.out
      BY <3>3, <3>4 DEF Fields
    <3>6. Becomes(p, g, net)
      BY <2>2, <3>2, <3>3
    <3> QED
      BY <1>1, <1>2, <2>2, <3>1, <3>4, <3>5, <3>6, FollowingBecomes
  <2> QED
    BY <1>1, <1>5, <2>1, <2>2 DEF KeepAlive
<1>6. CASE Hear(p, q)
  <2>1. PICK g : g = _acceptKeepAliveHamokMessage(h, q)
    OBVIOUS
  <2>2. Unmoved(g, h) /\ g.heard \subseteq Peers \ {p} /\ g.stale \subseteq g.heard
    <3>1. CASE ~leader(h)
      BY <1>2, <2>1, <3>1 DEF _acceptKeepAliveHamokMessage, Unmoved, Steady, Knowing
    <3>2. CASE leader(h)
      <4>1. g = [h EXCEPT !.heard = @ \cup {q}, !.stale = @ \ {q}]
        BY <2>1, <3>2 DEF _acceptKeepAliveHamokMessage
      <4>2. /\ DOMAIN g = Fields /\ g.id = h.id /\ g.term = h.term /\ g.closed = h.closed
            /\ g.run = h.run /\ g.leaderId = h.leaderId /\ g.remotePeers = h.remotePeers
            /\ g.out = h.out /\ g.joining = h.joining
            /\ g.heard = h.heard \cup {q} /\ g.stale = h.stale \ {q}
        BY <1>2, <4>1 DEF Fields
      <4>3. p # q
        BY <1>6 DEF Hear
      <4> QED
        BY <1>2, <4>2, <4>3 DEF Unmoved, Steady, Knowing
    <3> QED
      BY <3>1, <3>2
  <2>3. PICK a \in Answered(g, q) : Becomes(p, a, net)
    BY <1>1, <1>6, <2>1 DEF Hear
  <2>4. SameButLogs(a, g)
    BY <2>2, LogsOnly DEF Unmoved, Steady
  <2>5. Unmoved(a, h) /\ a.heard \subseteq Peers \ {p} /\ a.stale \subseteq a.heard
    BY <2>2, <2>4 DEF SameButLogs, Unmoved, Steady
  <2> QED
    BY <1>1, <2>3, <2>5, UnmovedBecomes
<1>7. CASE Unsynced(p, q)
  <2>1. PICK g : g = RemovePeers(h, {q})
    OBVIOUS
  <2>2. h.leaderId = p /\ Becomes(p, g, net)
    BY <1>1, <1>2, <1>7, <2>1 DEF Unsynced, leader
  <2>3. /\ Steady(g, h) /\ g.leaderId = p /\ g.id = p /\ Knowing(g)
        /\ Informs(g) \/ (g.remotePeers = h.remotePeers /\ g.out = <<>>)
    BY <1>2, <2>1, <2>2, RemovePeersTells, RemovePeersKnows DEF leader
  <2>4. g.joining = h.joining
    BY <1>2, <2>1, RemotePeersOK DEF Alike
  <2> QED
    BY <1>1, <1>2, <2>2, <2>3, <2>4, LeaderBecomes
<1>8. CASE FollowerTimeout(p)
  BY <1>1, <1>4, <1>8 DEF FollowerTimeout
<1>9. CASE Submit(p)
  <2>1. PICK g : g = [h EXCEPT !.log = WithNext(@, h.term)]
    OBVIOUS
  <2>2. SameButLogs(g, h)
    BY <1>2, <2>1, LogsOnly
  <2>3. Unmoved(g, h) /\ g.heard \subseteq Peers \ {p} /\ g.stale \subseteq g.heard
    BY <1>2, <2>2 DEF SameButLogs, Unmoved, Steady, Knowing
  <2> QED
    BY <1>1, <1>9, <2>1, <2>3, UnmovedBecomes DEF Submit
<1> QED
  BY <1>5, <1>6, <1>7, <1>8, <1>9

(* Nobody is elected in the first term: who was in the grid has had it,    *)
(* and a peer that is new finds nobody to vote for it.                     *)
LEMMA ElectReign == ASSUME Start, NEW p \in Peers, Elect(p) PROVE Reigning /\ ~Early'
<1>1. PICK h : h = peer[p]
  OBVIOUS
<1>2. /\ DOMAIN h = Fields /\ h.id = p /\ h.out = <<>> /\ Knowing(h) /\ PeerOK(h)
      /\ h.joining # "woken" /\ h.term \in Nat /\ p # Nil /\ NetOK(net)
  BY <1>1, StartMeans, SettingsAssumption
<1>3. PICK g, c : g = [h EXCEPT !.term = @ + 1] /\ c = LeaderChanged(g, p)
  OBVIOUS
<1>4. /\ DOMAIN g = Fields /\ g.id = p /\ g.term = h.term + 1 /\ g.run = h.run
  BY <1>2, <1>3 DEF Fields
<1>5. DOMAIN c = Fields /\ c.id = p /\ c.term = h.term + 1 /\ (~h.run => ~c.run)
  <2>1. g.id \in Peers
    BY <1>4
  <2>2. Steady(c, g)
    BY <1>3, <1>4, <2>1, LeaderSteady
  <2> QED
    BY <1>4, <2>2 DEF Steady
<1>6. h.timer /\ Becomes(p, c, net)
  <2>1. peer[p].timer /\ Becomes(p, LeaderChanged([peer[p] EXCEPT !.term = @ + 1], p), net)
    BY DEF Elect
  <2>2. g = [peer[p] EXCEPT !.term = @ + 1]
    BY <1>1, <1>3
  <2> QED
    BY <1>1, <1>3, <2>1, <2>2
<1>7. TermsOK' /\ peer'[p].term = h.term + 1
  BY <1>1, <1>2, <1>5, <1>6, TermsBecome
<1>8. ~Early'
  <2> SUFFICES ASSUME Early' PROVE FALSE
    OBVIOUS
  <2>1. h.term = 0
    BY <1>2, <1>7 DEF Early
  <2>2. ASSUME NEW q \in Peers, peer[q].timer, peer[q].term <= 0
        PROVE  q \in setting.joiners \ setting.grid
    <3>1. PeerOK(peer[q]) /\ peer[q].term \in Nat
      BY StartMeans
    <3>2. peer[q].run
      BY <2>2, <3>1 DEF PeerOK, Stands
    <3> QED
      BY <2>2, <3>1, <3>2 DEF Start, FirstReign, TermsOK, InPlay
  <2>3. ASSUME NEW q \in Voters(p) PROVE FALSE
    <3>1. q \in Peers \ {p} /\ peer[q].timer /\ peer[q].term <= 0
      BY <1>1, <1>2, <2>1 DEF Voters, Knowing
    <3>2. q \in setting.joiners \ setting.grid /\ p \in setting.joiners \ setting.grid
      BY <1>1, <1>6, <2>1, <2>2, <3>1
    <3> QED
      BY <3>1, <3>2 DEF Start, Established
  <2>4. Cardinality(Voters(p)) = 0
    BY <2>3, FS_EmptySet
  <2>5. Cardinality(h.remotePeers) \in Nat /\ Cardinality(h.remotePeers) # 0
    <3>1. IsFiniteSet(h.remotePeers)
      BY <1>2, PartsFinite DEF Knowing
    <3>2. h.remotePeers # {}
      BY <1>1 DEF Elect
    <3> QED
      BY <3>1, <3>2, FS_EmptySet, FS_CardinalityType
  <2>6. Cardinality(h.remotePeers) + 1 < (0 + 1) * 2
    BY <1>1, <2>4 DEF Elect
  <2> QED
    BY <2>5, <2>6
<1> QED
  BY <1>7, <1>8 DEF Reigning, FirstReign

LEMMA SilenceReign ==
    ASSUME Start, NEW p \in Peers, NEW q \in Peers, Silence(p, q) PROVE Reigning
<1>1. PICK h, g : h = peer[p] /\ g = [h EXCEPT !.stale = @ \cup {q}]
  OBVIOUS
<1>2. DOMAIN h = Fields /\ DOMAIN peer = Peers
  BY <1>1, StartMeans
<1>3. /\ g.id = h.id /\ g.term = h.term /\ g.closed = h.closed /\ g.run = h.run
      /\ g.leaderId = h.leaderId /\ g.remotePeers = h.remotePeers
  BY <1>1, <1>2 DEF Fields
<1>4. peer' = [peer EXCEPT ![p] = g] /\ UNCHANGED net
  BY <1>1 DEF Silence
<1>5. peer'[p] = g /\ \A x \in Peers \ {p} : peer'[x] = peer[x]
  BY <1>2, <1>4
<1>6. ASSUME NEW x \in Peers
      PROVE  /\ peer'[x].id = peer[x].id /\ peer'[x].term = peer[x].term
             /\ peer'[x].closed = peer[x].closed /\ peer'[x].run = peer[x].run
             /\ peer'[x].leaderId = peer[x].leaderId
             /\ peer'[x].remotePeers = peer[x].remotePeers
  BY <1>1, <1>3, <1>5
<1>7. UNCHANGED setting /\ FirstReign /\ setting.leader \in Peers
  BY StartMeans DEF Start
<1>8. TermsOK' /\ (Early' => Early)
  BY <1>6, <1>7 DEF FirstReign, TermsOK, InPlay, Early
<1>9. SUFFICES ASSUME Early PROVE Undisputed(setting.leader)'
  BY <1>7, <1>8 DEF Reigning, FirstReign
<1>10. PICK l : l = setting.leader /\ l \in Peers /\ Undisputed(l)
  BY <1>7, <1>9 DEF FirstReign
<1>11. peer[l].remotePeers \subseteq Peers
  BY <1>10, StartMeans DEF Knowing
<1>12. Reigns(l) => Reigns(l)'
  BY <1>4, <1>6, <1>10, <1>11 DEF Reigns, UpToDate
<1>13. Undisputed(l)'
  BY <1>4, <1>6, <1>10, <1>12 DEF Undisputed, leader
<1> QED
  BY <1>7, <1>10, <1>13

LEMMA StoragesReign ==
    ASSUME Start, NEW p \in Peers, NEW k, NEW id, NEW n, Create(p, k, id) \/ CloseStorage(p, n)
    PROVE  Reigning
<1>1. PICK h : h = peer[p]
  OBVIOUS
<1>2. DOMAIN h = Fields /\ Knowing(h)
  BY <1>1, StartMeans
<1>3. PICK i, j : i = Len(h.storages) + 1 /\ j = h.storages[n].id
  OBVIOUS
<1>4. PICK created, less :
        /\ created = [h EXCEPT !.storages = Append(@, [kind |-> k, id |-> id, open |-> TRUE]),
                               !.registered = [x \in DOMAIN @ \cup {id} |->
                                                  IF x = id THEN i ELSE @[x]]]
        /\ less = [h EXCEPT !.storages[n].open = FALSE,
                            !.registered = [x \in DOMAIN @ \ {j} |-> @[x]]]
  OBVIOUS
<1>5. Unmoved(created, h) /\ created.heard = h.heard /\ created.stale = h.stale
  BY <1>2, <1>4 DEF Unmoved, Steady, Fields
<1>6. Unmoved(less, h) /\ less.heard = h.heard /\ less.stale = h.stale
  BY <1>2, <1>4 DEF Unmoved, Steady, Fields
<1>7. Becomes(p, created, net) \/ Becomes(p, less, net)
  BY <1>1, <1>3, <1>4 DEF Create, CloseStorage
<1>8. h.stale \subseteq h.heard /\ h.heard \subseteq Peers \ {p}
  <2>1. h.id = p
    BY <1>1, StartMeans
  <2> QED
    BY <1>2, <2>1 DEF Knowing
<1> QED
  BY <1>1, <1>5, <1>6, <1>7, <1>8, UnmovedBecomes

(* The joins that a peer without leader, or which knows nobody, sends      *)
LEMMA JoinsSent ==
    ASSUME NEW h, DOMAIN h = Fields, h.id \in Peers, h.out = <<>>
    PROVE  LET s == _sendJoinMsg(h)
           IN  /\ Steady(s, h) /\ s.leaderId = h.leaderId /\ s.remotePeers = h.remotePeers
               /\ Messages(s.out) /\ OnlyJoins(s.out, h.id)
               /\ h.remotePeers # {} /\ h.leaderId # Nil => s = h
<1>1. PICK p : p = h.id
  OBVIOUS
<1>2. PICK f : f = [q \in Peers \ {p} |-> JoinNotification(h, q)]
  OBVIOUS
<1>3. PICK S : S = {f[q] : q \in Peers \ {p}}
  OBVIOUS
<1>4. IsFiniteSet(S)
  <2>1. Peers \ {p} \subseteq Peers
    OBVIOUS
  <2> QED
    BY <1>2, <1>3, <2>1, ImagesFinite
<1>5. S = {JoinNotification(h, q) : q \in Peers \ {h.id}}
  BY <1>1, <1>2, <1>3
<1>6. \A m \in S : IsMessage(m) /\ m.type = "Join" /\ m.from = h.id
  BY <1>5 DEF JoinNotification, IsMessage
<1>7. PICK ms : ms = Sequence!SetToSeq(S)
  OBVIOUS
<1>8. ms \in Seq(S) /\ Messages(ms)
  BY <1>4, <1>6, <1>7, SetListed, SetOfMessages
<1>9. OnlyJoins(ms, h.id)
  BY <1>6, <1>8 DEF OnlyJoins
<1>10. PICK g : g = [h EXCEPT !.out = @ \o ms]
  OBVIOUS
<1>11. /\ DOMAIN g = Fields /\ g.id = h.id /\ g.term = h.term /\ g.closed = h.closed
       /\ g.run = h.run /\ g.leaderId = h.leaderId /\ g.remotePeers = h.remotePeers
       /\ g.out = h.out \o ms
  BY <1>10 DEF Fields
<1>12. g.out = ms
  BY <1>8, <1>11
<1>13. _sendJoinMsg(h) = IF h.remotePeers = {} \/ h.leaderId = Nil THEN g ELSE h
  BY <1>5, <1>7, <1>10 DEF _sendJoinMsg
<1>14. CASE h.remotePeers = {} \/ h.leaderId = Nil
  BY <1>8, <1>9, <1>11, <1>12, <1>13, <1>14 DEF Steady
<1>15. CASE ~(h.remotePeers = {} \/ h.leaderId = Nil)
  BY <1>13, <1>15, NoMessages, NoJoins DEF Steady
<1> QED
  BY <1>14, <1>15

LEMMA HeartbeatReign == ASSUME Start, NEW p \in Peers, Heartbeat(p) PROVE Reigning
<1>1. PICK h, alone, sent, g :
        /\ h = peer[p] /\ alone = LeaderAlone(h) /\ sent = _sendJoinMsg(alone)
        /\ g = _checkRemoteHeartbeats(sent)
  OBVIOUS
<1>2. /\ DOMAIN h = Fields /\ h.id = p /\ h.out = <<>> /\ Knowing(h)
      /\ h.joining # "woken" /\ h.term \in Nat /\ p # Nil /\ NetOK(net)
  BY <1>1, StartMeans, SettingsAssumption
<1>3. Becomes(p, g, net)
  BY <1>1 DEF Heartbeat
<1>4. CASE ~leader(h) \/ h.remotePeers = {}
  <2>1. /\ Follows(alone, h) /\ alone.out = <<>> /\ alone.leaderId # p /\ DOMAIN alone = Fields
        /\ alone.id = p
    <3>1. CASE ~leader(h)
      <4>1. alone = h
        BY <1>1, <3>1 DEF LeaderAlone
      <4> QED
        BY <1>2, <3>1, <4>1 DEF leader, Follows, Steady
    <3>2. CASE leader(h)
      <4>1. alone = LeaderChanged(h, Nil)
        BY <1>1, <1>4, <3>2 DEF LeaderAlone
      <4> QED
        BY <1>2, <4>1, LeaderSteady DEF Follows, Steady
    <3> QED
      BY <3>1, <3>2
  <2>2. /\ Steady(sent, alone) /\ sent.leaderId = alone.leaderId
        /\ sent.remotePeers = alone.remotePeers /\ Messages(sent.out) /\ OnlyJoins(sent.out, p)
    BY <1>1, <2>1, JoinsSent
  <2>3. g = sent
    BY <1>1, <2>1, <2>2 DEF _checkRemoteHeartbeats, leader, Steady
  <2>4. /\ DOMAIN g = Fields /\ g.id = p /\ g.term = h.term /\ (h.closed => g.closed)
        /\ (~h.run => ~g.run) /\ g.leaderId # p
        /\ g.remotePeers = h.remotePeers \/ g.remotePeers = {}
    BY <1>2, <2>1, <2>2, <2>3 DEF Follows, Steady
  <2>5. PICK l : l = setting.leader
    OBVIOUS
  <2>6. ASSUME Reigns(l), p \in peer[l].remotePeers
        PROVE  IF net[l][p] = <<>> THEN UpToDate(g, peer[l].remotePeers, l)
               ELSE Told(net[l][p], l, peer[l].remotePeers)
    <3>1. IF net[l][p] = <<>> THEN UpToDate(h, peer[l].remotePeers, l)
          ELSE Told(net[l][p], l, peer[l].remotePeers)
      BY <1>1, <2>6 DEF Reigns
    <3> QED
      BY <1>2, <2>4, <3>1, UpToDateAfter
  <2> QED
    BY <1>1, <1>2, <1>3, <2>2, <2>3, <2>4, <2>5, <2>6, FollowerBecomes
<1>5. CASE leader(h) /\ h.remotePeers # {}
  <2>1. alone = h /\ h.leaderId = p
    BY <1>1, <1>2, <1>5 DEF LeaderAlone, leader
  <2>2. sent = h
    BY <1>1, <1>2, <1>5, <2>1, JoinsSent
  <2>3. CASE h.joining # "no"
    <3>1. g = h
      BY <1>1, <2>2, <2>3 DEF _checkRemoteHeartbeats
    <3>2. Steady(h, h)
      BY <1>2 DEF Steady
    <3> QED
      BY <1>1, <1>2, <1>3, <2>1, <3>1, <3>2, LeaderBecomes
  <2>4. CASE h.joining = "no"
    <3>1. PICK r, forgotten : r = RemovePeers(h, h.stale)
                              /\ forgotten = h.stale \ h.remotePeers
      OBVIOUS
    <3>2. /\ Knowing(r) /\ r.id = p /\ Steady(r, h) /\ r.leaderId = p
          /\ Informs(r) \/ (r.remotePeers = h.remotePeers /\ r.out = <<>>)
      BY <1>2, <1>5, <2>1, <3>1, RemovePeersKnows, RemovePeersTells
    <3>3. r.joining = h.joining /\ DOMAIN r = Fields
      BY <1>2, <3>1, RemotePeersOK DEF Alike
    <3>4. g = [r EXCEPT !.heard = @ \ forgotten, !.stale = @ \ forgotten]
      BY <1>1, <1>5, <2>2, <2>4, <3>1 DEF _checkRemoteHeartbeats
    <3>5. /\ DOMAIN g = Fields /\ g.id = r.id /\ g.term = r.term /\ g.closed = r.closed
          /\ g.run = r.run /\ g.leaderId = r.leaderId /\ g.remotePeers = r.remotePeers
          /\ g.out = r.out /\ g.joining = r.joining
          /\ g.stale = r.stale \ forgotten /\ g.heard = r.heard \ forgotten
      BY <3>3, <3>4 DEF Fields
    <3>6. Knowing(g)
      BY <3>2, <3>5 DEF Knowing
    <3>7. Informs(g) \/ (g.remotePeers = h.remotePeers /\ g.out = <<>>)
      BY <3>2, <3>5 DEF Informs
    <3>8. Steady(g, h) /\ g.joining # "woken" /\ g.id = p /\ g.leaderId = p
      BY <2>4, <3>2, <3>3, <3>5 DEF Steady
    <3> QED
      BY <1>1, <1>2, <1>3, <2>1, <3>6, <3>7, <3>8, LeaderBecomes
  <2> QED
    BY <2>3, <2>4
<1> QED
  BY <1>4, <1>5

(* What a message makes of who receives it                                 *)

\* g is h after something that it hears from others.
Hears(g, h) == Steady(g, h) /\ g.leaderId = h.leaderId /\ g.joining = h.joining

LEMMA HearsTwice == ASSUME NEW f, NEW g, NEW h, Hears(f, g), Hears(g, h) PROVE Hears(f, h)
BY DEF Hears, Steady

LEMMA PeersHear ==
    ASSUME NEW h, DOMAIN h = Fields, NEW qs, NEW m, NEW log
    PROVE  /\ Hears(h, h) /\ Hears(AddPeers(h, qs), h) /\ Hears(RemovePeers(h, qs), h)
           /\ Hears(Emit(h, m), h) /\ Emit(h, m).out = Append(h.out, m)
           /\ Emit(h, m).remotePeers = h.remotePeers
           /\ LET g == [h EXCEPT !.log = log]
              IN  Hears(g, h) /\ g.out = h.out /\ g.remotePeers = h.remotePeers
<1>1. Hears(h, h)
  BY DEF Hears, Steady
<1>2. Hears(AddPeers(h, qs), h)
  BY DEF AddPeers, Hears, Steady, Fields
<1>3. Hears(RemovePeers(h, qs), h)
  BY DEF RemovePeers, Hears, Steady, Fields
<1>4. /\ Hears(Emit(h, m), h) /\ Emit(h, m).out = Append(h.out, m)
      /\ Emit(h, m).remotePeers = h.remotePeers
  BY DEF Emit, Hears, Steady, Fields
<1>5. LET g == [h EXCEPT !.log = log]
      IN  Hears(g, h) /\ g.out = h.out /\ g.remotePeers = h.remotePeers
  BY DEF Hears, Steady, Fields
<1> QED
  BY <1>1, <1>2, <1>3, <1>4, <1>5

LEMMA EmitInforms ==
    ASSUME NEW h, Knowing(h), Informs(h), NEW m, m.from = h.id, m.to # h.id,
           Tells(m, h.remotePeers)
    PROVE  Informs(Emit(h, m))
<1>1. PICK g : g = Emit(h, m)
  OBVIOUS
<1>2. g.id = h.id /\ g.remotePeers = h.remotePeers /\ g.out = Append(h.out, m)
  BY <1>1 DEF Emit, Knowing, Fields
<1>3. PICK S : h.out \in Seq(S)
  BY DEF Knowing, Messages
<1>4. PICK n : n = Len(h.out)
  OBVIOUS
<1>5. /\ n \in Nat /\ Len(g.out) = n + 1 /\ g.out[n + 1] = m
      /\ \A i \in 1 .. n : g.out[i] = h.out[i]
  <2>1. h.out \in Seq(S \cup {m}) /\ m \in S \cup {m}
    BY <1>3
  <2> QED
    BY <1>2, <1>4, <2>1
<1>6. From(g.out, g.id)
  BY <1>2, <1>4, <1>5 DEF From, Informs
<1>7. ASSUME NEW q \in g.remotePeers PROVE EndsTelling(g.out, q, g.remotePeers)
  <2>1. PICK i \in 1 .. n :
          h.out[i].to = q /\ \A j \in i .. n : h.out[j].to = q => Tells(h.out[j], h.remotePeers)
    BY <1>2, <1>4, <1>7 DEF Informs, EndsTelling
  <2>2. i \in 1 .. Len(g.out) /\ g.out[i].to = q
    BY <1>5, <2>1
  <2>3. ASSUME NEW j \in i .. Len(g.out), g.out[j].to = q PROVE Tells(g.out[j], g.remotePeers)
    <3>1. j = n + 1 \/ (j \in i .. n /\ j \in 1 .. n)
      BY <1>5, <2>1, <2>3
    <3> QED
      BY <1>2, <1>5, <2>1, <2>3, <3>1
  <2> QED
    BY <2>2, <2>3 DEF EndsTelling
<1> QED
  BY <1>1, <1>6, <1>7 DEF Informs

LEMMA FollowerAdds ==
    ASSUME NEW h, Knowing(h), h.out = <<>>, ~leader(h), NEW qs, qs \subseteq Peers,
           NEW g, g = AddPeers(h, qs)
    PROVE  /\ Knowing(g) /\ g.id = h.id /\ g.leaderId = h.leaderId /\ ~leader(g)
           /\ g.remotePeers = h.remotePeers \cup (qs \ {h.id}) /\ g.out = <<>>
<1>1. Knowing(g) /\ g.id = h.id
  BY AddPeersKnows
<1>2. /\ g.leaderId = h.leaderId /\ g.out = <<>>
      /\ g.remotePeers = h.remotePeers \cup (qs \ {h.id})
  BY AddPeersTells
<1> QED
  BY <1>1, <1>2 DEF leader

LEMMA FollowerHears ==
    ASSUME NEW h, Knowing(h), h.out = <<>>, ~leader(h), NEW m, IsMessage(m),
           NEW g, g = ReceiveJoin(h, m)
    PROVE  /\ g.out = <<>> /\ h.remotePeers \subseteq g.remotePeers
           /\ g.remotePeers \subseteq h.remotePeers \cup {m.from}
<1>1. PICK sender, a : sender = {m.from} /\ a = AddPeers(h, sender)
  OBVIOUS
<1>2. sender \subseteq Peers
  BY <1>1 DEF IsMessage
<1>3. a.remotePeers = h.remotePeers \cup (sender \ {h.id}) /\ a.out = <<>>
  BY <1>1, <1>2, FollowerAdds
<1>4. g = h \/ g = a
  BY <1>1 DEF ReceiveJoin
<1> QED
  BY <1>1, <1>3, <1>4

LEMMA JoinReceived ==
    ASSUME NEW h, Knowing(h), h.out = <<>>, NEW m, IsMessage(m), m.from # h.id
    PROVE  LET g == ReceiveJoin(h, m)
           IN  /\ Hears(g, h) /\ Knowing(g)
               /\ h.remotePeers \subseteq g.remotePeers
               /\ g.remotePeers \subseteq h.remotePeers \cup {m.from}
               /\ ~leader(h) => g.out = <<>>
               /\ leader(h) => Informs(g) \/ (g.remotePeers = h.remotePeers /\ g.out = <<>>)
<1>1. PICK a, g : a = AddPeers(h, {m.from}) /\ g = ReceiveJoin(h, m)
  OBVIOUS
<1>2. {m.from} \subseteq Peers /\ DOMAIN h = Fields
  BY DEF IsMessage, Knowing
<1>3. /\ Knowing(a) /\ a.id = h.id /\ Hears(a, h)
      /\ a.remotePeers = h.remotePeers \cup {m.from}
      /\ ~leader(h) => a.out = <<>>
      /\ leader(h) => Informs(a) \/ (a.remotePeers = h.remotePeers /\ a.out = <<>>)
  <2>1. Knowing(a) /\ a.id = h.id
    BY <1>1, <1>2, AddPeersKnows
  <2>2. Hears(a, h)
    BY <1>1, <1>2, PeersHear
  <2>3. {m.from} \ {h.id} = {m.from}
    OBVIOUS
  <2>4. /\ a.remotePeers = h.remotePeers \cup ({m.from} \ {h.id})
        /\ ~leader(h) => a.out = <<>>
        /\ leader(h) => Informs(a) \/ (a.remotePeers = h.remotePeers /\ a.out = <<>>)
    BY <1>1, <1>2, AddPeersTells
  <2> QED
    BY <2>1, <2>2, <2>3, <2>4
<1>4. CASE m.from \in h.remotePeers
  <2>1. g = h
    BY <1>1, <1>4 DEF ReceiveJoin
  <2> QED
    BY <1>1, <1>2, <2>1, PeersHear
<1>5. CASE m.from \notin h.remotePeers /\ ~leader(h)
  <2>1. g = a
    BY <1>1, <1>5 DEF ReceiveJoin
  <2> QED
    BY <1>1, <1>3, <1>5, <2>1
<1>6. CASE m.from \notin h.remotePeers /\ leader(h)
  <2>1. PICK s : s = EndpointStates(a, m.from, a.remotePeers)
    OBVIOUS
  <2>2. g = Emit(a, s)
    BY <1>1, <1>6, <2>1 DEF ReceiveJoin, _sendEndpointNotification
  <2>3. s.from = a.id /\ s.to = m.from /\ Tells(s, a.remotePeers) /\ IsMessage(s)
    BY <1>2, <1>3, <2>1 DEF EndpointStates, Tells, IsMessage, Knowing
  <2>4. Informs(a)
    BY <1>3, <1>6
  <2>5. Informs(g) /\ Knowing(g)
    BY <1>3, <2>2, <2>3, <2>4, EmitInforms, EmitKnows
  <2>6. Hears(g, a) /\ g.remotePeers = a.remotePeers
    BY <1>3, <2>2, PeersHear DEF Knowing
  <2> QED
    BY <1>1, <1>3, <1>6, <2>5, <2>6, HearsTwice
<1> QED
  BY <1>4, <1>5, <1>6

LEMMA StatesHeard ==
    ASSUME NEW h, DOMAIN h = Fields, NEW m
    PROVE  Hears(ReceiveEndpointStates(h, m), h) /\ Hears(ReceiveJoin(h, m), h)
<1>1. PICK a, b, known :
          /\ a = RemovePeers(h, h.remotePeers \ (m.active \cup {m.from}))
          /\ b = AddPeers(a, m.active)
          /\ known = AddPeers(b, {m.from})
  OBVIOUS
<1>2. Hears(a, h) /\ DOMAIN a = Fields
  BY <1>1, PeersHear DEF Hears, Steady
<1>3. Hears(b, h) /\ DOMAIN b = Fields
  <2>1. Hears(b, a)
    BY <1>1, <1>2, PeersHear
  <2> QED
    BY <1>2, <2>1, HearsTwice DEF Hears, Steady
<1>4. Hears(known, h) /\ DOMAIN known = Fields
  <2>1. Hears(known, b)
    BY <1>1, <1>3, PeersHear
  <2> QED
    BY <1>3, <2>1, HearsTwice DEF Hears, Steady
<1>5. PICK j, reset : /\ j = Emit(known, JoinNotification(h, m.from))
                      /\ reset = [known EXCEPT !.log = ResetLog(PossibleLowestIndex(m))]
  OBVIOUS
<1>6. Hears(j, h) /\ Hears(reset, h)
  BY <1>4, <1>5, PeersHear, HearsTwice
<1>7. ReceiveEndpointStates(h, m) \in {j, reset, known}
  BY <1>1, <1>5 DEF ReceiveEndpointStates
<1>8. PICK added : added = AddPeers(h, {m.from})
  OBVIOUS
<1>9. Hears(added, h) /\ DOMAIN added = Fields /\ Hears(h, h)
  BY <1>8, PeersHear DEF Hears, Steady
<1>10. Hears(_sendEndpointNotification(added, m.from), h)
  <2>1. PICK s : s = EndpointStates(added, m.from, added.remotePeers)
    OBVIOUS
  <2>2. Hears(Emit(added, s), added)
    BY <1>9, PeersHear
  <2>3. Hears(Emit(added, s), h)
    BY <1>9, <2>2, HearsTwice
  <2> QED
    BY <2>1, <2>3 DEF _sendEndpointNotification
<1>11. ReceiveJoin(h, m) \in {h, _sendEndpointNotification(added, m.from), added}
  BY <1>8 DEF ReceiveJoin
<1> QED
  BY <1>4, <1>6, <1>7, <1>9, <1>10, <1>11

(* Who follows, knows after a notification the sender and whom it names.   *)
LEMMA StatesReceived ==
    ASSUME NEW h, Knowing(h), h.out = <<>>, ~leader(h), NEW m, IsMessage(m),
           m.type = "EndpointStates"
    PROVE  LET g == ReceiveEndpointStates(h, m)
           IN  /\ g.remotePeers = (m.active \cup {m.from}) \ {h.id}
               /\ Messages(g.out) /\ OnlyJoins(g.out, h.id)
<1>1. PICK active, sender, gone, a, b, known :
          /\ active = m.active /\ sender = {m.from}
          /\ gone = h.remotePeers \ (m.active \cup {m.from})
          /\ a = RemovePeers(h, gone)
          /\ b = AddPeers(a, active)
          /\ known = AddPeers(b, sender)
  OBVIOUS
<1>2. /\ active \subseteq Peers /\ sender \subseteq Peers /\ DOMAIN h = Fields
      /\ h.remotePeers \subseteq Peers \ {h.id} /\ h.id \in Peers
  BY <1>1 DEF IsMessage, Knowing
<1>3. /\ Knowing(a) /\ a.id = h.id /\ a.remotePeers = h.remotePeers \ gone
      /\ a.out = <<>> /\ a.leaderId = h.leaderId
  <2>1. Knowing(a) /\ a.id = h.id
    BY <1>1, RemovePeersKnows
  <2>2. a.remotePeers = h.remotePeers \ gone /\ a.out = <<>> /\ a.leaderId = h.leaderId
    BY <1>1, RemovePeersTells
  <2> QED
    BY <2>1, <2>2
<1>4. /\ Knowing(b) /\ b.id = a.id /\ b.remotePeers = a.remotePeers \cup (active \ {a.id})
      /\ b.out = <<>> /\ ~leader(b)
  <2>1. ~leader(a)
    BY <1>3 DEF leader
  <2>2. Knowing(a) /\ a.out = <<>> /\ active \subseteq Peers /\ b = AddPeers(a, active)
    BY <1>1, <1>2, <1>3
  <2> QED
    BY <2>1, <2>2, FollowerAdds
<1>5. /\ Knowing(known) /\ known.id = b.id /\ known.out = <<>>
      /\ known.remotePeers = b.remotePeers \cup (sender \ {b.id})
  <2>1. /\ Knowing(b) /\ b.out = <<>> /\ ~leader(b) /\ sender \subseteq Peers
        /\ known = AddPeers(b, sender)
    BY <1>1, <1>2, <1>4
  <2> QED
    BY <2>1, FollowerAdds
<1>6. known.remotePeers = (m.active \cup {m.from}) \ {h.id}
  <2>1. /\ known.remotePeers = (a.remotePeers \cup (active \ {h.id})) \cup (sender \ {h.id})
        /\ a.remotePeers = h.remotePeers \ gone
    BY <1>3, <1>4, <1>5
  <2>2. h.id \notin h.remotePeers
    BY <1>2
  <2> QED
    BY <1>1, <2>1, <2>2
<1>7. PICK n, j, reset : /\ n = JoinNotification(h, m.from) /\ j = Emit(known, n)
                         /\ reset = [known EXCEPT !.log = ResetLog(PossibleLowestIndex(m))]
  OBVIOUS
<1>8. IsMessage(n) /\ n.type = "Join" /\ n.from = h.id
  BY <1>2, <1>7 DEF JoinNotification, IsMessage
<1>9. /\ j.remotePeers = known.remotePeers /\ j.out = Append(<<>>, n)
      /\ reset.remotePeers = known.remotePeers /\ reset.out = <<>>
  <2>1. DOMAIN known = Fields
    BY <1>5 DEF Knowing
  <2>2. j.remotePeers = known.remotePeers /\ j.out = Append(known.out, n)
    BY <1>7, <2>1, PeersHear
  <2>3. reset.remotePeers = known.remotePeers /\ reset.out = known.out
    BY <1>7, <2>1, PeersHear
  <2> QED
    BY <1>5, <2>2, <2>3
<1>10. Messages(j.out) /\ OnlyJoins(j.out, h.id)
  <2>1. Messages(j.out)
    BY <1>8, <1>9, NoMessages, OneMore
  <2>2. j.out = <<n>>
    BY <1>9
  <2> QED
    BY <1>8, <2>1, <2>2 DEF OnlyJoins
<1>11. ReceiveEndpointStates(h, m) \in {j, reset, known}
  BY <1>1, <1>7 DEF ReceiveEndpointStates
<1> QED
  BY <1>5, <1>6, <1>9, <1>10, <1>11, NoMessages, NoJoins

(* What is left of a channel after its first message                       *)
LEMMA LastOfTheRest ==
    ASSUME NEW ms, Messages(ms), ms # <<>>
    PROVE  /\ Len(ms) \in Nat
           /\ Tail(ms) = <<>> => Len(ms) = 1 /\ ms[Len(ms)] = Head(ms)
           /\ Tail(ms) # <<>> => Tail(ms)[Len(Tail(ms))] = ms[Len(ms)]
           /\ \A i \in 1 .. Len(Tail(ms)) : \E j \in 1 .. Len(ms) : Tail(ms)[i] = ms[j]
           /\ \E j \in 1 .. Len(ms) : Head(ms) = ms[j]
<1>1. PICK S : ms \in Seq(S)
  BY DEF Messages
<1>2. PICK t, n : t = Tail(ms) /\ n = Len(ms)
  OBVIOUS
<1>3. n \in Nat /\ n # 0 /\ Head(ms) = ms[1]
  BY <1>1, <1>2
<1>4. t \in Seq(S) /\ Len(t) = n - 1 /\ \A i \in 1 .. n - 1 : t[i] = ms[i + 1]
  BY <1>1, <1>2, <1>3
<1>5. /\ t = <<>> => n = 1
      /\ t # <<>> => t[Len(t)] = ms[n]
  <2>1. CASE t = <<>>
    BY <1>3, <1>4, <2>1
  <2>2. CASE t # <<>>
    <3>1. Len(t) # 0
      BY <1>4, <2>2
    <3> QED
      BY <1>3, <1>4, <2>2, <3>1
  <2> QED
    BY <2>1, <2>2
<1>6. /\ \A i \in 1 .. Len(t) : i + 1 \in 1 .. n /\ t[i] = ms[i + 1]
      /\ 1 \in 1 .. n
  BY <1>3, <1>4
<1> QED
  BY <1>2, <1>3, <1>5, <1>6

LEMMA DeliverReign ==
    ASSUME Start, NEW p \in Peers, NEW q \in Peers, Deliver(q, p) PROVE Reigning
<1>1. PICK h, m, c, rest, l :
        /\ h = peer[p] /\ c = net[q][p] /\ m = Head(c) /\ rest = [net EXCEPT ![q][p] = Tail(@)]
        /\ l = setting.leader
  OBVIOUS
<1>2. /\ DOMAIN h = Fields /\ h.id = p /\ h.out = <<>> /\ Knowing(h) /\ PeerOK(h)
      /\ h.joining # "woken" /\ h.term \in Nat /\ p # Nil /\ NetOK(net) /\ l \in Peers
  BY <1>1, StartMeans, SettingsAssumption
<1>3. c # <<>> /\ Messages(c)
  BY <1>1, <1>2 DEF Deliver, NetOK
<1>4. PICK t : t = Tail(c)
  OBVIOUS
<1>5. IsMessage(m) /\ Messages(t)
  BY <1>1, <1>3, <1>4, TheRest
<1>6. /\ NetOK(rest) /\ rest[q][p] = t
      /\ \A x, y \in Peers : x # q \/ y # p => rest[x][y] = net[x][y]
  <2>1. rest = [net EXCEPT ![q][p] = t]
    BY <1>1, <1>2, <1>4 DEF NetOK
  <2>2. NetOK(rest)
    BY <1>2, <1>5, <2>1, ChannelOK
  <2>3. \A x \in Peers : DOMAIN net[x] = Peers
    BY <1>2 DEF NetOK
  <2>4. DOMAIN net = Peers
    BY <1>2 DEF NetOK
  <2> QED
    BY <2>1, <2>2, <2>3, <2>4
<1>7. ASSUME NEW x \in Peers, NEW y \in Peers, OnlyJoins(net[x][y], x)
      PROVE  OnlyJoins(rest[x][y], x)
  <2>1. CASE x = q /\ y = p
    <3>1. \A i \in 1 .. Len(t) : \E j \in 1 .. Len(c) : t[i] = c[j]
      BY <1>3, <1>4, LastOfTheRest
    <3> QED
      BY <1>1, <1>6, <1>7, <2>1, <3>1 DEF OnlyJoins
  <2>2. CASE x # q \/ y # p
    BY <1>6, <1>7, <2>2
  <2> QED
    BY <2>1, <2>2
<1>8. OnlyJoins(c, q) => m.type = "Join" /\ m.from = q
  <2>1. \E j \in 1 .. Len(c) : m = c[j]
    BY <1>1, <1>3, LastOfTheRest
  <2> QED
    BY <2>1 DEF OnlyJoins
<1>9. /\ t # <<>> => \A known : Told(c, l, known) => Told(t, l, known)
      /\ t = <<>> => \A known : Told(c, l, known) =>
                        m.type = "EndpointStates" /\ m.active = known /\ m.from = l
  <2>1. /\ t = <<>> => c[Len(c)] = m
        /\ t # <<>> => t[Len(t)] = c[Len(c)]
    BY <1>1, <1>3, <1>4, LastOfTheRest
  <2> QED
    BY <2>1 DEF Told, Tells
<1>10. CASE peer[p].closed
  <2>1. net' = rest /\ UNCHANGED peer /\ setting' = setting
    BY <1>1, <1>10 DEF Deliver, Start
  <2>2. FirstReign
    BY DEF Start
  <2>3. TermsOK' /\ (Early' => Early)
    BY <2>1, <2>2 DEF FirstReign, TermsOK, InPlay, Early
  <2>4. SUFFICES ASSUME Early PROVE Undisputed(l)'
    BY <1>1, <2>1, <2>3 DEF Reigning, FirstReign
  <2>5. Undisputed(l)
    BY <1>1, <2>2, <2>4 DEF FirstReign
  <2>6. ASSUME Reigns(l) PROVE Reigns(l)'
    <3>1. net'[l][l] = <<>>
      BY <1>1, <1>2, <1>3, <1>6, <2>1, <2>6 DEF Reigns
    <3>2. ASSUME NEW x \in peer[l].remotePeers
          PROVE  IF rest[l][x] = <<>> THEN UpToDate(peer[x], peer[l].remotePeers, l)
                 ELSE Told(rest[l][x], l, peer[l].remotePeers)
      <4>1. x \in Peers
        BY <1>2, StartMeans DEF Knowing
      <4>2. CASE l # q \/ x # p
        BY <1>2, <1>6, <2>6, <4>1, <4>2 DEF Reigns
      <4>3. CASE l = q /\ x = p
        <5>1. Told(c, l, peer[l].remotePeers)
          BY <1>1, <1>3, <2>6, <4>3 DEF Reigns
        <5> QED
          BY <1>6, <1>9, <1>10, <4>3, <5>1 DEF UpToDate
      <4> QED
        BY <4>2, <4>3
    <3> QED
      BY <2>1, <3>1, <3>2 DEF Reigns
  <2> QED
    BY <1>7, <2>1, <2>5, <2>6 DEF Undisputed
<1>11. CASE ~peer[p].closed
  <2>1. PICK g : /\ Becomes(p, g, rest)
                 /\ \/ m.type = "Join" /\ g = ReceiveJoin(h, m)
                    \/ m.type = "EndpointStates" /\ g = ReceiveEndpointStates(h, m)
    BY <1>1, <1>11 DEF Deliver
  <2>2. Hears(g, h)
    BY <1>2, <2>1, StatesHeard
  <2>3. CASE ~Early
    BY <1>1, <1>6, <2>1, <2>2, <2>3, LateBecomes DEF Hears
  <2>4. CASE Early /\ leader(h)
    <3>1. Undisputed(l) /\ p = l /\ Reigns(l)
      BY <1>1, <1>2, <2>4 DEF Start, FirstReign, Undisputed
    <3>2. q # l
      BY <1>1, <1>3, <3>1 DEF Reigns
    <3>3. m.type = "Join" /\ m.from = q
      BY <1>1, <1>8, <3>1, <3>2 DEF Undisputed
    <3>4. g = ReceiveJoin(h, m) /\ m.from # h.id
      BY <1>2, <2>1, <3>1, <3>2, <3>3
    <3>5. /\ Knowing(g)
          /\ Informs(g) \/ (g.remotePeers = h.remotePeers /\ g.out = <<>>)
      BY <1>2, <1>5, <2>4, <3>4, JoinReceived
    <3>6. g.id = p /\ g.leaderId = p /\ h.leaderId = p /\ g.joining # "woken" /\ Steady(g, h)
      BY <1>2, <2>2, <2>4 DEF Hears, Steady, leader
    <3>7. \A y \in Peers : p = setting.leader => rest[p][y] = net[p][y]
      BY <1>6, <3>1, <3>2
    <3> QED
      BY <1>1, <1>6, <1>7, <2>1, <3>5, <3>6, <3>7, LeaderBecomes
  <2>5. CASE Early /\ ~leader(h)
    <3>1. /\ DOMAIN g = Fields /\ g.id = p /\ g.term = h.term /\ (h.closed => g.closed)
          /\ (~h.run => ~g.run) /\ g.leaderId # p
      BY <1>2, <2>2, <2>5 DEF Hears, Steady, leader
    <3>2. Undisputed(l)
      BY <1>1, <2>5 DEF Start, FirstReign
    <3>3. Messages(g.out) /\ OnlyJoins(g.out, p)
      <4>1. CASE m.type = "EndpointStates"
        BY <1>2, <1>5, <2>1, <2>5, <4>1, StatesReceived
      <4>2. CASE m.type = "Join"
        <5>1. g = ReceiveJoin(h, m)
          BY <2>1, <4>2
        <5>2. g.out = <<>>
          BY <1>2, <1>5, <2>5, <5>1, FollowerHears
        <5> QED
          BY <5>2, NoMessages, NoJoins
      <4> QED
        BY <2>1, <4>1, <4>2
    <3>4. ASSUME p # l, Reigns(l)
          PROVE  /\ \A y \in Peers \ {p} : rest[l][y] = net[l][y]
                 /\ p \in peer[l].remotePeers =>
                     IF rest[l][p] = <<>> THEN UpToDate(g, peer[l].remotePeers, l)
                     ELSE Told(rest[l][p], l, peer[l].remotePeers)
      <4>1. \A y \in Peers \ {p} : rest[l][y] = net[l][y]
        BY <1>2, <1>6
      <4>2. PICK known : known = peer[l].remotePeers
        OBVIOUS
      <4>3. SUFFICES ASSUME p \in known
                     PROVE  IF rest[l][p] = <<>> THEN UpToDate(g, known, l)
                            ELSE Told(rest[l][p], l, known)
        BY <4>1, <4>2
      <4>4. IF net[l][p] = <<>> THEN UpToDate(h, known, l) ELSE Told(net[l][p], l, known)
        BY <1>1, <3>4, <4>2, <4>3 DEF Reigns
      <4>5. CASE q = l
        <5>1. Told(c, l, known)
          BY <1>1, <1>3, <4>4, <4>5
        <5>2. CASE t # <<>>
          BY <1>6, <1>9, <4>5, <5>1, <5>2
        <5>3. CASE t = <<>>
          <6>1. m.type = "EndpointStates" /\ m.active = known /\ m.from = l
            BY <1>9, <5>1, <5>3
          <6>2. g = ReceiveEndpointStates(h, m)
            BY <2>1, <6>1
          <6>3. g.remotePeers = (known \cup {l}) \ {p}
            BY <1>2, <1>5, <2>5, <6>1, <6>2, StatesReceived
          <6> QED
            BY <1>6, <3>1, <4>5, <5>3, <6>3 DEF UpToDate
        <5> QED
          BY <5>2, <5>3
      <4>6. CASE q # l
        <5>1. m.type = "Join" /\ m.from # l
          BY <1>1, <1>8, <3>2, <4>6 DEF Undisputed
        <5>2. g = ReceiveJoin(h, m)
          BY <2>1, <5>1
        <5>3. /\ h.remotePeers \subseteq g.remotePeers
              /\ g.remotePeers \subseteq h.remotePeers \cup {m.from}
          BY <1>2, <1>5, <2>5, <5>2, FollowerHears
        <5>4. UpToDate(h, known, l) => UpToDate(g, known, l)
          BY <1>2, <3>1, <5>1, <5>3, UpToDateAfter
        <5> QED
          BY <1>2, <1>6, <4>4, <4>6, <5>4
      <4> QED
        BY <4>5, <4>6
    <3> QED
      <4>1. g.term \in Nat /\ peer[p].term <= g.term /\ (p \in InPlay \/ peer[p].run \/ ~g.run)
        BY <1>1, <1>2, <3>1
      <4>2. NetOK(rest) /\ Becomes(p, g, rest) /\ l = setting.leader
        BY <1>1, <1>6, <2>1
      <4> QED
        BY <1>7, <3>1, <3>3, <3>4, <4>1, <4>2, FollowerBecomes
  <2> QED
    BY <2>3, <2>4, <2>5
<1> QED
  BY <1>10, <1>11

LEMMA ReignInitOK == Init => (Established => FirstReign)
<1> SUFFICES ASSUME Init, Established PROVE FirstReign
  OBVIOUS
<1>1. PICK l, grid : l = setting.leader /\ grid = setting.grid
  OBVIOUS
<1>2. l \in Peers /\ l \in grid /\ grid \subseteq Peers /\ Nil \notin Peers
  BY <1>1, SettingsAssumption DEF Established
<1>3. ASSUME NEW p \in Peers
      PROVE  LET h == peer[p]
             IN  /\ h.id = p
                 /\ p \in grid => /\ h.term = 1 /\ h.leaderId = l
                                  /\ h.remotePeers = grid \ {p}
                 /\ p \notin grid => h.term = 0 /\ h.leaderId = Nil /\ ~h.run
  <2>1. PICK h, log : h = peer[p] /\ log = setting.logs[p]
    OBVIOUS
  <2>2. CASE p \in grid
    <3>1. h = [NewPeer(p, log) EXCEPT
                  !.run = TRUE, !.timer = TRUE, !.leaderId = l, !.term = 1,
                  !.remotePeers = grid \ {p},
                  !.nextIndex = [q \in Peers |-> IF p = l /\ q \in grid \ {p}
                                                 THEN setting.logs[q].nextIndex ELSE 0],
                  !.heard = IF p = l THEN grid \ {p} ELSE {}]
      BY <1>1, <2>1, <2>2 DEF Init, Formed
    <3> QED
      BY <2>1, <2>2, <3>1 DEF NewPeer
  <2>3. CASE p \notin grid
    <3>1. h = NewPeer(p, log)
      BY <1>1, <2>1, <2>3 DEF Init
    <3> QED
      BY <2>1, <2>3, <3>1 DEF NewPeer
  <2> QED
    BY <2>2, <2>3
<1>4. \A q, p \in Peers : net[q][p] = <<>>
  BY DEF Init
<1>5. TermsOK
  BY <1>1, <1>3 DEF TermsOK, InPlay
<1>6. \A q \in Peers : leader(peer[q]) => q = l
  BY <1>2, <1>3 DEF leader
<1>7. Reigns(l)
  BY <1>2, <1>3, <1>4 DEF Reigns, UpToDate
<1>8. Undisputed(l)
  BY <1>4, <1>6, <1>7, NoJoins DEF Undisputed
<1> QED
  BY <1>1, <1>5, <1>8 DEF FirstReign

LEMMA ReignStep == ASSUME Start, [Next]_vars PROVE Reigning
<1>1. CASE UNCHANGED vars
  BY <1>1 DEF vars, Start, Reigning, FirstReign, TermsOK, InPlay, Early, Undisputed, Reigns
<1>2. ASSUME NEW p \in Peers,
             \/ CallJoin(p) \/ CallLeave(p) \/ CallClose(p) \/ JoinTimeout(p)
             \/ Heartbeat(p) \/ Elect(p) \/ FollowerTimeout(p) \/ Submit(p)
      PROVE  Reigning
  BY <1>2, CallsReign, HeartbeatReign, ElectReign, RaftReign
<1>3. ASSUME NEW p \in Peers, NEW q \in Peers,
             \/ Deliver(q, p) \/ KeepAlive(q, p) \/ Hear(q, p) \/ Silence(q, p)
             \/ Unsynced(q, p)
      PROVE  Reigning
  BY <1>3, DeliverReign, RaftReign, SilenceReign
<1>4. ASSUME NEW p \in Peers, NEW q \in Peers PROVE ~Lose(q, p)
  BY DEF Start, Established, Lose
<1>5. ASSUME NEW p \in Peers, NEW k, NEW id, NEW n, Create(p, k, id) \/ CloseStorage(p, n)
      PROVE  Reigning
  BY <1>5, StoragesReign
<1> QED
  BY <1>1, <1>2, <1>3, <1>4, <1>5 DEF Next

LEMMA SettingStays == [Next]_vars => UNCHANGED setting
  BY DEF Next, vars, CallJoin, CallLeave, CallClose, JoinTimeout, Heartbeat, FollowerTimeout,
         Elect, Deliver, Lose, KeepAlive, Hear, Silence, Unsynced, Submit,
         Create, CloseStorage

LEMMA ReignNextOK ==
    Inv /\ GridOK /\ (Established => FirstReign) /\ [Next]_vars => (Established => FirstReign)'
<1> SUFFICES ASSUME Inv, GridOK, Established => FirstReign, [Next]_vars, Established'
             PROVE  FirstReign'
  OBVIOUS
<1>1. Start
  BY SettingStays DEF Start, Established
<1> QED
  BY <1>1, ReignStep DEF Reigning

LEMMA ReignMeans == Inv /\ FirstReign => FollowersKnow
<1> SUFFICES ASSUME Inv, FirstReign, \A q, p \in Peers : net[q][p] = <<>>,
                    NEW l \in Peers, NEW p \in Peers,
                    OnlyLeader(l), p \in peer[l].remotePeers, peer[p].leaderId = l
             PROVE  \/ (peer[l].remotePeers \cup {l}) \ {p} \subseteq peer[p].remotePeers
                    \/ Forgetful(p, l)
  BY DEF FollowersKnow
<1>1. Early
  BY DEF Early, OnlyLeader
<1>2. Undisputed(l)
  BY <1>1 DEF FirstReign, Undisputed, OnlyLeader
<1>3. Reigns(l)
  BY <1>2 DEF Undisputed, OnlyLeader
<1>4. UpToDate(peer[p], peer[l].remotePeers, l)
  BY <1>3 DEF Reigns
<1>5. ~peer[p].closed /\ peer[p].id = p
  BY SettingsAssumption DEF Inv, PeerOK, Sound, Stands
<1> QED
  BY <1>4, <1>5 DEF UpToDate, Forgetful

(* In a grid that is formed and led, to which one peer at most is new and  *)
(* where no message gets lost, a follower knows whom its first leader      *)
(* knows as soon as nothing is on the way, or it has forgotten the leader  *)
(* too: the notifications of addRemotePeerId and removeRemotePeerId do not *)
(* overtake one another, and none of an earlier leader comes late.         *)
THEOREM FormedGridKnows == Spec => [](Established => FollowersKnow)
<1>1. Inv /\ (Established => FirstReign) => (Established => FollowersKnow)
  BY ReignMeans
<1>2. Init => (Established => FirstReign)
  BY ReignInitOK
<1>3. Inv /\ GridOK /\ (Established => FirstReign) /\ [Next]_vars
      => (Established => FirstReign)'
  BY ReignNextOK
<1>4. Spec => []Inv
  BY InvAlways
<1>5. Spec => []GridOK
  <2>1. Init => GridOK
    BY GridInitOK
  <2>2. Inv /\ Inv' /\ GridOK /\ [Next]_vars => GridOK'
    BY GridNextOK
  <2> QED
    BY <1>4, <2>1, <2>2, PTL DEF Spec
<1> QED
  BY <1>1, <1>2, <1>3, <1>4, <1>5, PTL DEF Spec

-----------------------------------------------------------------------------
(* Where logs are reset to.                                                *)

\* The log has no hole, and of its entries the first three at least are committed.
Long(log) ==
    /\ DOMAIN log = {"firstIndex", "nextIndex", "commitIndex", "entries"}
    /\ log.firstIndex \in Int /\ log.nextIndex \in Int /\ log.commitIndex \in Int
    /\ DOMAIN log.entries = log.firstIndex .. log.nextIndex - 1
    /\ log.firstIndex + 2 <= log.commitIndex /\ log.commitIndex < log.nextIndex

\* Where a notification makes a peer reset its log to is committed.
Honest(m) == m.type = "EndpointStates" => PossibleLowestIndex(m) <= m.commitIndex

AllHonest(ms) == \A i \in 1 .. Len(ms) : Honest(ms[i])

NetHonest(channels) == \A f, t \in Peers : AllHonest(channels[f][t])

\* What holds of a peer whose log is long if it leads, also in the middle of a handler
Frank(h) == Knowing(h) /\ AllHonest(h.out) /\ (leader(h) => Long(h.log))

LEMMA LongSize ==
    ASSUME NEW log, Long(log) PROVE Size(log) = log.nextIndex - log.firstIndex
<1>1. PICK a, b : a = log.firstIndex /\ b = log.nextIndex - 1
  OBVIOUS
<1>2. a \in Int /\ b \in Int /\ a <= b
  BY <1>1 DEF Long
<1>3. Cardinality(a .. b) = b - a + 1
  BY <1>2, FS_Interval
<1>4. DOMAIN log.entries = a .. b
  BY <1>1 DEF Long
<1>5. b - a + 1 = log.nextIndex - log.firstIndex
  BY <1>1 DEF Long
<1> QED
  BY <1>3, <1>4, <1>5 DEF Size

(* A leader whose log is long tells no index that is not committed.        *)
LEMMA AnnouncementsHonest ==
    ASSUME NEW h, leader(h), Long(h.log), NEW ms, ms \in Seq(Announcements(h))
    PROVE  AllHonest(ms)
<1>1. ASSUME NEW m \in Announcements(h) PROVE Honest(m)
  <2>1. /\ m.leaderNextIndex = h.log.nextIndex /\ m.numberOfLogs = Size(h.log)
        /\ m.commitIndex = h.log.commitIndex
    BY DEF Announcements, EndpointStates
  <2>2. Size(h.log) = h.log.nextIndex - h.log.firstIndex
    BY LongSize
  <2> QED
    BY <2>1, <2>2 DEF Honest, PossibleLowestIndex, Long
<1> QED
  BY <1>1 DEF AllHonest

LEMMA BothHonest ==
    ASSUME NEW a, NEW b, Messages(a), Messages(b), AllHonest(a), AllHonest(b)
    PROVE  AllHonest(a \o b)
<1>1. PICK S, T : a \in Seq(S) /\ b \in Seq(T)
  BY DEF Messages
<1>2. a \in Seq(S \cup T) /\ b \in Seq(S \cup T)
  BY <1>1
<1>3. ASSUME NEW i \in 1 .. Len(a \o b) PROVE Honest((a \o b)[i])
  <2>1. \/ i \in 1 .. Len(a) /\ (a \o b)[i] = a[i]
        \/ i - Len(a) \in 1 .. Len(b) /\ (a \o b)[i] = b[i - Len(a)]
    BY <1>2
  <2> QED
    BY <2>1 DEF AllHonest
<1> QED
  BY <1>3 DEF AllHonest

LEMMA OneMoreHonest ==
    ASSUME NEW ms, Messages(ms), AllHonest(ms), NEW m, Honest(m)
    PROVE  AllHonest(Append(ms, m))
<1>1. PICK S : ms \in Seq(S)
  BY DEF Messages
<1>2. ms \in Seq(S \cup {m}) /\ m \in S \cup {m}
  BY <1>1
<1>3. ASSUME NEW i \in 1 .. Len(Append(ms, m)) PROVE Honest(Append(ms, m)[i])
  <2>1. \/ i \in 1 .. Len(ms) /\ Append(ms, m)[i] = ms[i]
        \/ Append(ms, m)[i] = m
    BY <1>2
  <2> QED
    BY <2>1 DEF AllHonest
<1> QED
  BY <1>3 DEF AllHonest

LEMMA RestHonest ==
    ASSUME NEW ms, Messages(ms), AllHonest(ms), ms # <<>>
    PROVE  Honest(Head(ms)) /\ AllHonest(Tail(ms))
<1>1. PICK S : ms \in Seq(S)
  BY DEF Messages
<1>2. Head(ms) = ms[1] /\ 1 \in 1 .. Len(ms)
  BY <1>1
<1>3. ASSUME NEW i \in 1 .. Len(Tail(ms)) PROVE Honest(Tail(ms)[i])
  <2>1. i + 1 \in 1 .. Len(ms) /\ Tail(ms)[i] = ms[i + 1]
    BY <1>1
  <2> QED
    BY <2>1 DEF AllHonest
<1> QED
  BY <1>2, <1>3 DEF AllHonest

LEMMA SendHonest ==
    ASSUME NEW channels, NetOK(channels), NetHonest(channels), NEW m, IsMessage(m), Honest(m)
    PROVE  NetHonest(Send(channels, m))
<1>1. PICK c, x, y : x = m.from /\ y = m.to /\ c = channels[x][y]
  OBVIOUS
<1>2. x \in Peers /\ y \in Peers
  BY <1>1 DEF IsMessage
<1>3. AllHonest(c) /\ AllHonest(Append(c, m))
  BY <1>1, <1>2, OneMoreHonest DEF NetOK, NetHonest
<1>4. ASSUME NEW f \in Peers, NEW t \in Peers
      PROVE  AllHonest(Send(channels, m)[f][t])
  <2>1. CASE f # x \/ t # y
    <3>1. Send(channels, m)[f][t] = channels[f][t]
      BY <1>1, <2>1, SendTo
    <3> QED
      BY <3>1 DEF NetHonest
  <2>2. CASE f = x /\ t = y
    <3>1. PICK g : g = [channels EXCEPT ![x][y] = Append(c, m)]
      OBVIOUS
    <3>2. g[x][y] = Append(c, m)
      <4>1. DOMAIN channels = Peers /\ DOMAIN channels[x] = Peers
        BY <1>2 DEF NetOK
      <4> QED
        BY <1>2, <3>1, <4>1
    <3>3. Send(channels, m) = channels \/ Send(channels, m) = g
      BY <1>1, <3>1 DEF Send
    <3> QED
      BY <1>1, <1>3, <2>2, <3>2, <3>3
  <2> QED
    BY <2>1, <2>2
<1> QED
  BY <1>4 DEF NetHonest

LEMMA SentHonest ==
    ASSUME NEW channels, NetOK(channels), NetHonest(channels),
           NEW ms, Messages(ms), AllHonest(ms)
    PROVE  NetHonest(Sent(channels, ms))
<1>1. PICK s : /\ Len(ms) \in Nat
               /\ s[0] = channels /\ s[Len(ms)] = Sent(channels, ms)
               /\ \A i \in 0 .. Len(ms) : NetOK(s[i])
               /\ \A i \in 1 .. Len(ms) : IsMessage(ms[i]) /\ s[i] = Send(s[i - 1], ms[i])
  BY SentStages
<1>2. PICK n \in Nat : n = Len(ms)
  BY <1>1
<1> DEFINE S == {i \in Nat : i <= n => NetHonest(s[i])}
<1>3. 0 \in S
  BY <1>1
<1>4. ASSUME NEW i \in Nat, i \in S PROVE i + 1 \in S
  <2> SUFFICES ASSUME i + 1 <= n PROVE NetHonest(s[i + 1])
    OBVIOUS
  <2>1. PICK j : j = i + 1
    OBVIOUS
  <2>2. j \in 1 .. n /\ j - 1 = i /\ i <= n /\ i \in 0 .. n
    BY <2>1
  <2>3. NetOK(s[i]) /\ IsMessage(ms[j]) /\ s[j] = Send(s[i], ms[j]) /\ Honest(ms[j])
    BY <1>1, <1>2, <2>2 DEF AllHonest
  <2>4. NetHonest(s[i])
    BY <1>4, <2>2
  <2> QED
    BY <2>1, <2>3, <2>4, SendHonest
<1>5. n \in S
  <2> HIDE DEF S
  <2> QED
    BY <1>3, <1>4, UpFromZero
<1> QED
  BY <1>1, <1>2, <1>5

-----------------------------------------------------------------------------
(* A long log stays long when a leader writes and commits.                 *)

LEMMA WithNextLong ==
    ASSUME NEW log, NEW term, Long(log) PROVE Long(WithNext(log, term))
<1>1. PICK new : new = Written(log, {log.nextIndex}, term)
  OBVIOUS
<1>2. DOMAIN new = log.firstIndex .. log.nextIndex
  BY <1>1 DEF Written, Long
<1>3. PICK g : g = [log EXCEPT !.entries = new, !.nextIndex = @ + 1]
  OBVIOUS
<1>4. /\ g.firstIndex = log.firstIndex /\ g.nextIndex = log.nextIndex + 1
      /\ g.commitIndex = log.commitIndex /\ g.entries = new
  BY <1>3 DEF Long
<1> QED
  BY <1>1, <1>2, <1>3, <1>4 DEF Long, WithNext

LEMMA LeastOf ==
    ASSUME NEW a \in Int, NEW b \in Int, NEW S \in SUBSET (a .. b), S # {}
    PROVE  Sequence!Min(S) \in S /\ \A x \in S : Sequence!Min(S) <= x
<1>1. PICK T : T = {x - a : x \in S}
  OBVIOUS
<1>2. T \in SUBSET Nat /\ T # {}
  <2>1. \A x \in S : x - a \in Nat
    OBVIOUS
  <2> QED
    BY <1>1, <2>1
<1>3. PICK m \in T : \A y \in T : m <= y
  BY <1>2, LeastNatural
<1>4. PICK k \in S : m = k - a
  BY <1>1, <1>3
<1>5. ASSUME NEW x \in S PROVE k <= x
  <2>1. m <= x - a
    BY <1>1, <1>3
  <2> QED
    BY <1>4, <2>1
<1> QED
  BY <1>5 DEF Sequence!Min

LEMMA GreatestOf ==
    ASSUME NEW a \in Int, NEW b \in Int, NEW S \in SUBSET (a .. b), S # {}
    PROVE  Sequence!Max(S) \in S
<1>1. PICK T : T = {b - x : x \in S}
  OBVIOUS
<1>2. T \in SUBSET Nat /\ T # {}
  <2>1. \A x \in S : b - x \in Nat
    OBVIOUS
  <2> QED
    BY <1>1, <2>1
<1>3. PICK m \in T : \A y \in T : m <= y
  BY <1>2, LeastNatural
<1>4. PICK k \in S : m = b - k
  BY <1>1, <1>3
<1>5. ASSUME NEW x \in S PROVE k >= x
  <2>1. m <= b - x
    BY <1>1, <1>3
  <2> QED
    BY <1>4, <2>1
<1> QED
  BY <1>5 DEF Sequence!Max

(* Nothing beyond the end of the log is committed.                         *)
LEMMA CommitUntilLong ==
    ASSUME NEW log, Long(log), ~setting.expires, NEW index \in Int,
           NEW g \in CommitUntil(log, index)
    PROVE  Long(g)
<1>1. CASE g = log
  BY <1>1
<1>2. CASE log.commitIndex < index /\ g # log
  <2>1. PICK S : S = {c \in log.commitIndex .. index :
                        c = index \/ log.nextIndex <= c + 1 \/ c + 1 \notin DOMAIN log.entries}
    OBVIOUS
  <2>2. PICK end : end = CommitEnd(log, index)
    OBVIOUS
  <2>3. S \in SUBSET (log.commitIndex .. index) /\ index \in S /\ end = Sequence!Min(S)
    BY <1>2, <2>1, <2>2 DEF CommitEnd, Long
  <2>4. end \in S /\ \A x \in S : end <= x
    BY <2>3, LeastOf DEF Long
  <2>5. end \in Int /\ log.commitIndex <= end /\ end < log.nextIndex
    <3>1. end \in Int /\ log.commitIndex <= end /\ end <= index
      BY <2>3, <2>4 DEF Long
    <3>2. ASSUME log.nextIndex <= end PROVE FALSE
      <4>1. log.nextIndex - 1 \in S
        BY <2>1, <3>1, <3>2 DEF Long
      <4> QED
        BY <2>4, <3>1, <3>2, <4>1 DEF Long
    <3> QED
      BY <3>1, <3>2 DEF Long
  <2>6. PICK es : es = [i \in DOMAIN log.entries |-> IF i <= end THEN 0 ELSE log.entries[i]]
    OBVIOUS
  <2>7. g = [log EXCEPT !.commitIndex = end, !.entries = es]
    BY <1>2, <2>2, <2>6 DEF CommitUntil, AfterExpiry, Long
  <2>8. /\ DOMAIN g = DOMAIN log /\ g.firstIndex = log.firstIndex
        /\ g.nextIndex = log.nextIndex /\ g.commitIndex = end
        /\ DOMAIN g.entries = DOMAIN log.entries
    BY <2>6, <2>7 DEF Long
  <2> QED
    BY <2>5, <2>8 DEF Long
<1> QED
  BY <1>1, <1>2 DEF CommitUntil, Long

LEMMA AnsweredLong ==
    ASSUME NEW h, DOMAIN h = Fields, Long(h.log), ~setting.expires, NEW q,
           NEW g \in Answered(h, q)
    PROVE  Long(g.log)
<1>1. PICK known : known = [h EXCEPT !.nextIndex = [@ EXCEPT ![q] = peer[q].log.nextIndex]]
  OBVIOUS
<1>2. DOMAIN known = Fields /\ known.log = h.log
  BY <1>1 DEF Fields
<1>3. PICK reached : reached = {i \in Committable(known) : i < known.nextIndex[q]}
  OBVIOUS
<1>4. \/ g = h \/ g = known
      \/ /\ reached # {}
         /\ \E log \in CommitUntil(h.log, Sequence!Max(reached)) : g = [known EXCEPT !.log = log]
  BY <1>1, <1>3 DEF Answered
<1>5. ASSUME reached # {},
             NEW log \in CommitUntil(h.log, Sequence!Max(reached)),
             g = [known EXCEPT !.log = log]
      PROVE  Long(g.log)
  <2>1. PICK a, b : a = h.log.commitIndex + 1 /\ b = h.log.nextIndex - 1
    OBVIOUS
  <2>2. a \in Int /\ b \in Int
    BY <2>1 DEF Long
  <2>3. reached \in SUBSET (a .. b)
    BY <1>2, <1>3, <2>1 DEF Committable
  <2>4. Sequence!Max(reached) \in Int
    BY <1>5, <2>2, <2>3, GreatestOf
  <2>5. Long(log)
    BY <1>5, <2>4, CommitUntilLong
  <2>6. g.log = log
    BY <1>2, <1>5 DEF Fields
  <2> QED
    BY <2>5, <2>6
<1> QED
  BY <1>2, <1>4, <1>5

-----------------------------------------------------------------------------
(* What becomes of the log in the handlers of the grid.                    *)

\* g is h with the same log, and leads only if h does.
SameLog(g, h) ==
    /\ DOMAIN g = Fields
    /\ g.log = h.log /\ g.id = h.id
    /\ g.leaderId = h.leaderId \/ g.leaderId = Nil

LEMMA SameLogTwice ==
    ASSUME NEW f, NEW g, NEW h, SameLog(f, g), SameLog(g, h) PROVE SameLog(f, h)
BY DEF SameLog

LEMMA PeersSameLog ==
    ASSUME NEW h, DOMAIN h = Fields, NEW qs, NEW m
    PROVE  /\ SameLog(AddPeers(h, qs), h) /\ SameLog(RemovePeers(h, qs), h)
           /\ SameLog(Emit(h, m), h)
BY DEF AddPeers, RemovePeers, Emit, SameLog, Fields

LEMMA JoinSameLog ==
    ASSUME NEW h, DOMAIN h = Fields, NEW n PROVE SameLog(join(h, n), h)
BY DEF join, SameLog, Fields

(* The leader changes, or is lost: the log stays.                          *)
LEMMA LeaderSameLog ==
    ASSUME NEW h, DOMAIN h = Fields, NEW id
    PROVE  /\ DOMAIN LeaderChanged(h, id) = Fields /\ LeaderChanged(h, id).log = h.log
           /\ LeaderChanged(h, id).id = h.id
           /\ id # h.id => LeaderChanged(h, id).leaderId = id
<1>1. CASE h.leaderId = id
  BY <1>1 DEF LeaderChanged
<1>2. CASE h.leaderId # id
  <2>1. PICK c, d, g : /\ c = [h EXCEPT !.leaderId = id, !.heard = {}, !.stale = {},
                                     !.joining = IF @ = "waiting" THEN "woken" ELSE @]
                    /\ d = [c EXCEPT !.remotePeers = {}, !.nextIndex = Untracked(h, h.remotePeers)]
                    /\ g = broadcastEndpointNotification(c)
    OBVIOUS
  <2>2. DOMAIN c = Fields /\ c.log = h.log /\ c.id = h.id /\ c.leaderId = id
    BY <2>1 DEF Fields
  <2>3. DOMAIN d = Fields /\ d.log = h.log /\ d.id = h.id /\ d.leaderId = id
    BY <2>1, <2>2 DEF Fields
  <2>4. DOMAIN g = Fields /\ g.log = h.log /\ g.id = h.id
    BY <2>1, <2>2 DEF broadcastEndpointNotification, Fields
  <2>5. SameLog(join(d, -1), d) /\ join(d, -1).leaderId = d.leaderId
    BY <2>3, JoinSameLog, JoinFollows
  <2>6. \/ LeaderChanged(h, id) = g /\ id = h.id
        \/ LeaderChanged(h, id) = join(d, -1) \/ LeaderChanged(h, id) = c
    BY <1>2, <2>1, <2>2 DEF LeaderChanged
  <2> QED
    BY <2>2, <2>3, <2>4, <2>5, <2>6 DEF SameLog
<1> QED
  BY <1>1, <1>2

LEMMA StopSameLog ==
    ASSUME NEW h, DOMAIN h = Fields, h.id \in Peers PROVE SameLog(_stopRaftEngine(h), h)
<1>1. PICK c : c = LeaderChanged(h, Nil)
  OBVIOUS
<1>2. SameLog(c, h)
  BY <1>1, LeaderSameLog, SettingsAssumption DEF SameLog
<1>3. SameLog([c EXCEPT !.timer = FALSE, !.heard = {}, !.stale = {}], c)
  BY <1>2 DEF SameLog, Fields
<1>4. SameLog(h, h)
  BY DEF SameLog
<1> QED
  BY <1>1, <1>2, <1>3, <1>4, SameLogTwice DEF _stopRaftEngine

LEMMA LeftSameLog ==
    ASSUME NEW h, DOMAIN h = Fields, h.id \in Peers PROVE SameLog(Left(h), h)
<1>1. PICK f, g, k : /\ f = [h EXCEPT !.run = FALSE] /\ g = _stopRaftEngine(f)
                     /\ k = [g EXCEPT !.remotePeers = {}, !.nextIndex = Untracked(h, h.remotePeers),
                                 !.leaving = FALSE]
  OBVIOUS
<1>2. SameLog(f, h)
  BY <1>1 DEF SameLog, Fields
<1>3. SameLog(g, f)
  BY <1>1, <1>2, StopSameLog DEF SameLog
<1>4. SameLog(k, g)
  BY <1>1, <1>3 DEF SameLog, Fields
<1>5. k = Left(h)
  BY <1>1 DEF Left
<1> QED
  BY <1>2, <1>3, <1>4, <1>5, SameLogTwice

LEMMA SettledSameLog ==
    ASSUME NEW h, DOMAIN h = Fields, h.id \in Peers PROVE SameLog(Settled(h), h)
<1>1. PICK d : d = [h EXCEPT !.joining = "no", !.aborted = FALSE]
  OBVIOUS
<1>2. SameLog(h, h) /\ SameLog(d, h)
  BY <1>1 DEF SameLog, Fields
<1>3. SameLog(Left(d), d)
  BY <1>2, LeftSameLog DEF SameLog
<1>4. Settled(h) = h \/ Settled(h) = d \/ Settled(h) = Left(d)
  BY <1>1 DEF Settled
<1> QED
  BY <1>2, <1>3, <1>4, SameLogTwice

(* What a handler leaves behind: honest messages, if those to send are.    *)
LEMMA BecomesHonest ==
    ASSUME Inv, NEW p \in Peers, NEW h, DOMAIN h = Fields, h.id = p,
           Messages(h.out), AllHonest(h.out),
           NEW channels, NetOK(channels), NetHonest(channels), Becomes(p, h, channels)
    PROVE  NetHonest(net') /\ SameLog(peer'[p], h) /\ \A q \in Peers \ {p} : peer'[q] = peer[q]
<1>1. PICK d, g : d = Settled(h) /\ g = [d EXCEPT !.out = <<>>]
  OBVIOUS
<1>2. SameLog(d, h)
  BY <1>1, SettledSameLog
<1>3. SameLog(g, d)
  BY <1>1, <1>2 DEF SameLog, Fields
<1>4. peer' = [peer EXCEPT ![p] = g]
  BY <1>1 DEF Becomes
<1>5. peer'[p] = g
  BY <1>4 DEF Inv
<1>6. net' = Sent(channels, h.out) /\ \A q \in Peers \ {p} : peer'[q] = peer[q]
  BY BecomesHow DEF Inv
<1>7. NetHonest(net')
  BY <1>6, SentHonest
<1> QED
  BY <1>2, <1>3, <1>5, <1>6, <1>7, SameLogTwice

-----------------------------------------------------------------------------
(* What the handlers of the grid say.                                      *)

LEMMA EmitFrank ==
    ASSUME NEW h, Frank(h), NEW m, IsMessage(m), Honest(m)
    PROVE  Frank(Emit(h, m)) /\ SameLog(Emit(h, m), h)
<1>1. PICK g : g = Emit(h, m)
  OBVIOUS
<1>2. Knowing(g) /\ SameLog(g, h)
  BY <1>1, EmitKnows, PeersSameLog DEF Frank, Knowing
<1>3. g.out = Append(h.out, m) /\ g.leaderId = h.leaderId
  BY <1>1 DEF Emit, Frank, Knowing, Fields
<1>4. AllHonest(g.out)
  BY <1>3, OneMoreHonest DEF Frank, Knowing
<1> QED
  BY <1>1, <1>2, <1>3, <1>4 DEF Frank, SameLog, leader

(* Notifications after each of several changes                             *)
LEMMA ToldHonest ==
    ASSUME NEW h, h.id \in Peers, leader(h), Long(h.log), NEW S, S \subseteq Peers,
           NEW s, s = Sequence!SetToSeq(S),
           NEW known, \A j \in DOMAIN s : known[j] \subseteq Peers \ {h.id}
    PROVE  AllHonest(Sequence!FlattenSeq([j \in DOMAIN s |-> Notifications(h, known[j])]))
<1>1. PICK told : told = Sequence!FlattenSeq([j \in DOMAIN s |-> Notifications(h, known[j])])
  OBVIOUS
<1>2. s \in Seq(S)
  BY PartsFinite, SetListed
<1>3. PICK n \in Nat : n = Len(s) /\ DOMAIN s = 1 .. n
  BY <1>2
<1>4. CASE n = 0
  <2>1. [j \in DOMAIN s |-> Notifications(h, known[j])] = <<>>
    BY <1>3, <1>4
  <2>2. told = <<>>
    BY <1>1, <2>1 DEF Sequence!FlattenSeq
  <2> QED
    BY <1>1, <2>2 DEF AllHonest
<1>5. CASE n # 0
  <2>1. told \in Seq(Announcements(h))
    BY <1>1, <1>3, <1>5, ToldLast
  <2> QED
    BY <1>1, <2>1, AnnouncementsHonest
<1> QED
  BY <1>4, <1>5

LEMMA AddPeersFrank ==
    ASSUME NEW h, Frank(h), NEW qs, qs \subseteq Peers
    PROVE  Frank(AddPeers(h, qs)) /\ SameLog(AddPeers(h, qs), h)
<1>1. PICK g, S, s : /\ g = AddPeers(h, qs) /\ S = qs \ (h.remotePeers \cup {h.id})
                     /\ s = Sequence!SetToSeq(S)
  OBVIOUS
<1>2. Knowing(h) /\ Knowing(g) /\ SameLog(g, h) /\ S \subseteq Peers \ {h.id}
  BY <1>1, AddPeersKnows, PeersSameLog DEF Frank, Knowing
<1>3. s \in Seq(S)
  BY <1>1, <1>2, PartsFinite, SetListed
<1>4. PICK known : known = [j \in DOMAIN s |-> h.remotePeers \cup {s[i] : i \in 1 .. j}]
  OBVIOUS
<1>5. ASSUME NEW j \in DOMAIN s PROVE known[j] \subseteq Peers \ {h.id}
  <2>1. \A i \in 1 .. j : s[i] \in S
    BY <1>3
  <2> QED
    BY <1>2, <1>4, <2>1 DEF Knowing
<1>6. PICK told : told = Sequence!FlattenSeq([j \in DOMAIN s |-> Notifications(h, known[j])])
  OBVIOUS
<1>7. told = Sequence!FlattenSeq([j \in DOMAIN s |->
                                    Notifications(h, h.remotePeers \cup {s[i] : i \in 1 .. j})])
  <2>1. [j \in DOMAIN s |-> Notifications(h, known[j])] =
            [j \in DOMAIN s |-> Notifications(h, h.remotePeers \cup {s[i] : i \in 1 .. j})]
    BY <1>4
  <2> QED
    BY <1>6, <2>1
<1>8. g = [h EXCEPT !.remotePeers = @ \cup (qs \ {h.id}),
                    !.out = IF leader(h) THEN @ \o told ELSE @]
  BY <1>1, <1>7 DEF AddPeers
<1>9. g.out = (IF leader(h) THEN h.out \o told ELSE h.out) /\ g.leaderId = h.leaderId
  BY <1>2, <1>8 DEF Knowing, Fields
<1>10. ASSUME leader(h) PROVE AllHonest(told) /\ Messages(told)
  <2>1. h.id \in Peers /\ S \subseteq Peers /\ IsFiniteSet(S)
    BY <1>2, PartsFinite DEF Knowing
  <2>2. AllHonest(told)
    BY <1>1, <1>5, <1>6, <1>10, <2>1, ToldHonest DEF Frank
  <2>3. Messages(told)
    BY <1>1, <1>5, <1>6, <2>1, ToldOK
  <2> QED
    BY <2>2, <2>3
<1>11. AllHonest(g.out)
  BY <1>2, <1>9, <1>10, BothHonest DEF Frank, Knowing
<1> QED
  BY <1>1, <1>2, <1>9, <1>11 DEF Frank, SameLog, leader

LEMMA RemovePeersFrank ==
    ASSUME NEW h, Frank(h), NEW qs
    PROVE  Frank(RemovePeers(h, qs)) /\ SameLog(RemovePeers(h, qs), h)
<1>1. PICK g, S, s : /\ g = RemovePeers(h, qs) /\ S = qs \cap h.remotePeers
                     /\ s = Sequence!SetToSeq(S)
  OBVIOUS
<1>2. Knowing(h) /\ Knowing(g) /\ SameLog(g, h) /\ S \subseteq Peers
  BY <1>1, RemovePeersKnows, PeersSameLog DEF Frank, Knowing
<1>3. PICK left : left = [j \in DOMAIN s |-> h.remotePeers \ {s[i] : i \in 1 .. j}]
  OBVIOUS
<1>4. \A j \in DOMAIN s : left[j] \subseteq Peers \ {h.id}
  BY <1>2, <1>3 DEF Knowing
<1>5. PICK told : told = Sequence!FlattenSeq([j \in DOMAIN s |-> Notifications(h, left[j])])
  OBVIOUS
<1>6. told = Sequence!FlattenSeq([j \in DOMAIN s |->
                                    Notifications(h, h.remotePeers \ {s[i] : i \in 1 .. j})])
  <2>1. [j \in DOMAIN s |-> Notifications(h, left[j])] =
            [j \in DOMAIN s |-> Notifications(h, h.remotePeers \ {s[i] : i \in 1 .. j})]
    BY <1>3
  <2> QED
    BY <1>5, <2>1
<1>7. g = [h EXCEPT !.remotePeers = @ \ qs, !.nextIndex = Untracked(h, qs),
                   !.out = IF leader(h) THEN @ \o told ELSE @]
  BY <1>1, <1>6 DEF RemovePeers
<1>8. g.out = (IF leader(h) THEN h.out \o told ELSE h.out) /\ g.leaderId = h.leaderId
  BY <1>2, <1>7 DEF Knowing, Fields
<1>9. ASSUME leader(h) PROVE AllHonest(told) /\ Messages(told)
  <2>1. h.id \in Peers /\ IsFiniteSet(S)
    BY <1>2, PartsFinite DEF Knowing
  <2>2. AllHonest(told)
    BY <1>1, <1>2, <1>4, <1>5, <1>9, <2>1, ToldHonest DEF Frank
  <2>3. Messages(told)
    BY <1>1, <1>4, <1>5, <2>1, ToldOK
  <2> QED
    BY <2>2, <2>3
<1>10. AllHonest(g.out)
  BY <1>2, <1>8, <1>9, BothHonest DEF Frank, Knowing
<1> QED
  BY <1>1, <1>2, <1>8, <1>10 DEF Frank, SameLog, leader

(* Another leader, or none: nothing is said.                               *)
LEMMA LeaderFrank ==
    ASSUME NEW h, Frank(h), NEW id \in Peers \cup {Nil}, id # h.id
    PROVE  Frank(LeaderChanged(h, id)) /\ LeaderChanged(h, id).log = h.log
<1>1. PICK g : g = LeaderChanged(h, id)
  OBVIOUS
<1>2. Knowing(h) /\ DOMAIN h = Fields /\ h.id \in Peers
  BY DEF Frank, Knowing
<1>3. Knowing(g) /\ g.id = h.id
  BY <1>1, <1>2, LeaderKnows
<1>4. g.out = h.out /\ g.leaderId = id
  BY <1>1, <1>2, LeaderSteady
<1>5. g.log = h.log
  BY <1>1, <1>2, LeaderSameLog
<1> QED
  BY <1>1, <1>3, <1>4, <1>5 DEF Frank, leader

\* p takes a notification from q.
Notified(q, p) == Deliver(q, p) /\ Head(net[q][p]).type = "EndpointStates"

\* Only messages that are honest get on the way; who leads did so before, and its log is long,
\* unless a notification has reset it.
Spoken ==
    /\ NetHonest(net')
    /\ \A p \in Peers :
        leader(peer'[p]) =>
            /\ leader(peer[p])
            /\ Long(peer'[p].log) \/ \E q \in Peers : Notified(q, p)

\* What the steps start from: nothing expires, whoever leads has a long log, nobody is elected.
Speaking ==
    /\ Inv /\ GridOK /\ NetHonest(net) /\ ~setting.expires
    /\ \A p \in Peers : leader(peer[p]) => Long(peer[p].log)
    /\ \A p \in Peers : ~Elect(p)

LEMMA SpeakingMeans ==
    ASSUME Speaking, NEW p \in Peers
    PROVE  LET h == peer[p]
           IN  /\ Frank(h) /\ Knowing(h) /\ h.id = p /\ h.out = <<>>
               /\ DOMAIN h = Fields /\ NetOK(net) /\ Inv
<1>1. Knowing(peer[p]) /\ peer[p].out = <<>> /\ peer[p].id = p /\ NetOK(net)
  BY DEF Speaking, GridOK, Inv
<1>2. AllHonest(<<>>)
  BY DEF AllHonest
<1> QED
  BY <1>1, <1>2 DEF Frank, Speaking, Knowing

(* A handler that leaves a leader's log long and does not elect            *)
LEMMA BecomesSpoken ==
    ASSUME Speaking, NEW p \in Peers, NEW h, DOMAIN h = Fields, h.id = p,
           Messages(h.out), AllHonest(h.out),
           leader(h) => leader(peer[p]) /\ Long(h.log),
           NEW channels, NetOK(channels), NetHonest(channels), Becomes(p, h, channels)
    PROVE  Spoken
<1>1. NetHonest(net') /\ SameLog(peer'[p], h) /\ \A q \in Peers \ {p} : peer'[q] = peer[q]
  BY BecomesHonest DEF Speaking
<1>2. ASSUME NEW q \in Peers, leader(peer'[q])
      PROVE  leader(peer[q]) /\ Long(peer'[q].log)
  <2>1. CASE q = p
    <3>1. leader(h)
      <4>1. h.id # Nil
        BY SettingsAssumption
      <4> QED
        BY <1>1, <1>2, <2>1, <4>1 DEF SameLog, leader
    <3> QED
      BY <1>1, <2>1, <3>1 DEF SameLog
  <2>2. CASE q # p
    BY <1>1, <1>2, <2>2 DEF Speaking
  <2> QED
    BY <2>1, <2>2
<1> QED
  BY <1>1, <1>2 DEF Spoken

(* A step that sends nothing                                               *)
LEMMA AloneSpoken ==
    ASSUME Speaking, NEW p \in Peers, NEW h, SameLog(h, peer[p]), h.out = <<>>,
           Becomes(p, h, net)
    PROVE  Spoken
<1>1. peer[p].id = p /\ NetOK(net) /\ NetHonest(net) /\ p # Nil
  BY SpeakingMeans, SettingsAssumption DEF Speaking
<1>2. AllHonest(h.out) /\ Messages(h.out)
  BY NoMessages DEF AllHonest
<1>3. leader(h) => leader(peer[p]) /\ Long(h.log)
  BY <1>1 DEF SameLog, leader, Speaking
<1> QED
  BY <1>1, <1>2, <1>3, BecomesSpoken DEF SameLog

-----------------------------------------------------------------------------
(* The steps.                                                              *)

LEMMA CallsSpoken ==
    ASSUME Speaking, NEW p \in Peers,
           CallJoin(p) \/ CallLeave(p) \/ CallClose(p) \/ JoinTimeout(p)
    PROVE  Spoken
<1>1. PICK h : h = peer[p]
  OBVIOUS
<1>2. DOMAIN h = Fields /\ h.id = p /\ h.out = <<>>
  BY <1>1, SpeakingMeans
<1>3. ASSUME NEW g, SameLog(g, h), g.out = <<>>, Becomes(p, g, net) PROVE Spoken
  BY <1>1, <1>3, AloneSpoken
<1>4. CASE CallJoin(p)
  <2>1. PICK g : g = join(h, setting.retries)
    OBVIOUS
  <2>2. SameLog(g, h) /\ g.out = <<>>
    BY <1>2, <2>1, JoinSameLog, JoinFollows
  <2> QED
    BY <1>1, <1>3, <1>4, <2>1, <2>2 DEF CallJoin
<1>5. CASE CallLeave(p)
  <2>1. CASE h.joining = "waiting"
    <3>1. PICK g : g = [h EXCEPT !.aborted = TRUE, !.leaving = TRUE]
      OBVIOUS
    <3>2. SameLog(g, h) /\ g.out = <<>>
      BY <1>2, <3>1 DEF SameLog, Fields
    <3> QED
      BY <1>1, <1>3, <1>5, <2>1, <3>1, <3>2 DEF CallLeave, leave
  <2>2. CASE h.joining # "waiting"
    <3>1. PICK g : g = Left(h)
      OBVIOUS
    <3>2. SameLog(g, h) /\ g.out = <<>>
      BY <1>2, <3>1, LeftSameLog, LeftFollows
    <3> QED
      BY <1>1, <1>3, <1>5, <2>2, <3>1, <3>2 DEF CallLeave, leave
  <2> QED
    BY <2>1, <2>2
<1>6. CASE CallClose(p)
  <2>1. PICK f, g : f = [h EXCEPT !.closed = TRUE, !.run = FALSE] /\ g = _stopRaftEngine(f)
    OBVIOUS
  <2>2. SameLog(f, h) /\ f.out = <<>>
    BY <1>2, <2>1 DEF SameLog, Fields
  <2>3. DOMAIN f = Fields /\ f.id \in Peers
    BY <1>2, <2>2 DEF SameLog
  <2>4. SameLog(g, f) /\ g.out = <<>>
    BY <2>1, <2>2, <2>3, StopSameLog, StopFollows
  <2>5. PICK routed, c : /\ routed = {h.registered[x] : x \in DOMAIN h.registered}
                         /\ c = close(h)
    OBVIOUS
  <2>6. c = [g EXCEPT !.remotePeers = {}, !.nextIndex = Untracked(h, h.remotePeers),
                      !.storages = [n \in DOMAIN @ |->
                            IF n \in routed THEN [@[n] EXCEPT !.open = FALSE] ELSE @[n]],
                      !.registered = <<>>]
    BY <2>1, <2>5 DEF close
  <2>7. SameLog(c, g) /\ c.out = <<>>
    BY <2>4, <2>6 DEF SameLog, Fields
  <2>8. SameLog(c, h)
    BY <2>2, <2>4, <2>7, SameLogTwice
  <2> QED
    BY <1>1, <1>3, <1>6, <2>5, <2>7, <2>8 DEF CallClose
<1>7. CASE JoinTimeout(p)
  <2>1. PICK woken, again :
            /\ woken = [h EXCEPT !.joining = "woken"]
            /\ again = [h EXCEPT !.timer = TRUE,
                                 !.retried = IF h.remotePeers = {} THEN @ + 1 ELSE @]
    OBVIOUS
  <2>2. SameLog(woken, h) /\ woken.out = <<>>
    BY <1>2, <2>1 DEF SameLog, Fields
  <2>3. SameLog(again, h) /\ again.out = <<>>
    BY <1>2, <2>1 DEF SameLog, Fields
  <2>4. Becomes(p, woken, net) \/ Becomes(p, again, net)
    BY <1>1, <1>7, <2>1 DEF JoinTimeout
  <2> QED
    BY <1>3, <2>2, <2>3, <2>4
<1> QED
  BY <1>4, <1>5, <1>6, <1>7

LEMMA HeartbeatSpoken ==
    ASSUME Speaking, NEW p \in Peers, Heartbeat(p) PROVE Spoken
<1>1. PICK h, alone, sent, g :
        /\ h = peer[p] /\ alone = LeaderAlone(h) /\ sent = _sendJoinMsg(alone)
        /\ g = _checkRemoteHeartbeats(sent)
  OBVIOUS
<1>2. Frank(h) /\ DOMAIN h = Fields /\ h.id = p /\ NetOK(net) /\ NetHonest(net) /\ p # Nil
  BY <1>1, SpeakingMeans, SettingsAssumption DEF Speaking
<1>3. Frank(alone) /\ SameLog(alone, h)
  <2>1. CASE alone = h
    BY <1>2, <2>1 DEF SameLog
  <2>2. CASE alone = LeaderChanged(h, Nil)
    <3>1. Frank(alone)
      BY <1>2, <2>2, LeaderFrank
    <3>2. SameLog(alone, h)
      BY <1>2, <2>2, LeaderSameLog DEF SameLog
    <3> QED
      BY <3>1, <3>2
  <2> QED
    BY <1>1, <2>1, <2>2 DEF LeaderAlone
<1>4. Frank(sent) /\ SameLog(sent, h)
  <2>1. PICK f : f = [q \in Peers \ {p} |-> JoinNotification(alone, q)]
    OBVIOUS
  <2>2. PICK S, joins : S = {f[q] : q \in Peers \ {p}} /\ joins = Sequence!SetToSeq(S)
    OBVIOUS
  <2>3. IsFiniteSet(S)
    BY <2>1, <2>2, ImagesFinite
  <2>4. Knowing(alone) /\ alone.id = p
    BY <1>2, <1>3 DEF Frank, SameLog
  <2>5. ASSUME NEW q \in Peers
        PROVE  IsMessage(JoinNotification(alone, q)) /\ Honest(JoinNotification(alone, q))
    BY <2>4 DEF JoinNotification, IsMessage, Honest
  <2>6. S = {JoinNotification(alone, q) : q \in Peers \ {alone.id}}
    BY <2>1, <2>2, <2>4
  <2>7. \A m \in S : IsMessage(m) /\ Honest(m)
    BY <2>5, <2>6
  <2>8. Messages(joins) /\ AllHonest(joins)
    <3>1. joins \in Seq(S)
      BY <2>2, <2>3, SetListed
    <3>2. Messages(joins)
      BY <2>7, <3>1 DEF Messages
    <3>3. ASSUME NEW i \in 1 .. Len(joins) PROVE Honest(joins[i])
      <4>1. joins[i] \in S
        BY <3>1
      <4> QED
        BY <2>7, <4>1
    <3> QED
      BY <3>2, <3>3 DEF AllHonest
  <2>9. PICK s : s = [alone EXCEPT !.out = @ \o joins]
    OBVIOUS
  <2>10. /\ DOMAIN s = Fields /\ s.id = alone.id /\ s.leaderId = alone.leaderId
         /\ s.remotePeers = alone.remotePeers /\ s.stale = alone.stale /\ s.heard = alone.heard
         /\ s.out = alone.out \o joins /\ s.log = alone.log
    BY <2>4, <2>9 DEF Knowing, Fields
  <2>11. Messages(s.out) /\ AllHonest(s.out)
    BY <1>3, <2>4, <2>8, <2>10, BothLists, BothHonest DEF Frank, Knowing
  <2>12. Frank(s) /\ SameLog(s, alone)
    BY <1>3, <2>4, <2>10, <2>11 DEF Frank, Knowing, SameLog, leader
  <2>13. sent = alone \/ sent = s
    BY <1>1, <2>2, <2>6, <2>9 DEF _sendJoinMsg
  <2> QED
    BY <1>3, <2>12, <2>13, SameLogTwice
<1>5. /\ DOMAIN g = Fields /\ g.id = p /\ Messages(g.out) /\ AllHonest(g.out)
      /\ SameLog(g, h)
  <2>1. CASE ~leader(sent) \/ sent.joining # "no"
    <3>1. g = sent
      BY <1>1, <2>1 DEF _checkRemoteHeartbeats
    <3> QED
      BY <1>2, <1>4, <3>1 DEF Frank, Knowing, SameLog
  <2>2. CASE ~(~leader(sent) \/ sent.joining # "no")
    <3>1. PICK r, forgotten : r = RemovePeers(sent, sent.stale)
                              /\ forgotten = sent.stale \ sent.remotePeers
      OBVIOUS
    <3>2. Frank(r) /\ SameLog(r, sent)
      BY <1>4, <3>1, RemovePeersFrank
    <3>3. g = [r EXCEPT !.heard = @ \ forgotten, !.stale = @ \ forgotten]
      BY <1>1, <2>2, <3>1 DEF _checkRemoteHeartbeats
    <3>4. SameLog(g, r) /\ g.out = r.out
      BY <3>2, <3>3 DEF SameLog, Fields
    <3>5. SameLog(g, h)
      BY <1>4, <3>2, <3>4, SameLogTwice
    <3> QED
      BY <1>2, <3>2, <3>4, <3>5 DEF Frank, Knowing, SameLog
  <2> QED
    BY <2>1, <2>2
<1>6. leader(g) => leader(peer[p]) /\ Long(g.log)
  BY <1>1, <1>2, <1>5 DEF SameLog, leader, Speaking
<1> QED
  BY <1>1, <1>2, <1>5, <1>6, BecomesSpoken DEF Heartbeat

LEMMA RaftSpoken ==
    ASSUME Speaking, NEW p \in Peers, NEW q \in Peers,
           \/ KeepAlive(q, p) \/ Hear(p, q) \/ Silence(p, q) \/ Unsynced(p, q)
           \/ FollowerTimeout(p) \/ Submit(p)
    PROVE  Spoken
<1>1. PICK h : h = peer[p]
  OBVIOUS
<1>2. /\ Frank(h) /\ Knowing(h) /\ DOMAIN h = Fields /\ h.id = p /\ h.out = <<>> /\ NetOK(net)
      /\ p # Nil /\ NetHonest(net)
  BY <1>1, SpeakingMeans, SettingsAssumption DEF Speaking
<1>3. PICK lost : lost = LeaderChanged(h, Nil)
  OBVIOUS
<1>4. ASSUME Becomes(p, lost, net) PROVE Spoken
  <2>1. SameLog(lost, h) /\ lost.out = <<>>
    BY <1>2, <1>3, LeaderSameLog, LeaderSteady DEF SameLog
  <2> QED
    BY <1>1, <1>4, <2>1, AloneSpoken
<1>5. CASE KeepAlive(q, p)
  <2>0. PICK log : \/ Becomes(p, [LeaderChanged(h, q) EXCEPT !.term = peer[q].term,
                                                            !.log = log], net)
                   \/ Becomes(p, LeaderChanged(h, Nil), net)
    BY <1>1, <1>5 DEF KeepAlive
  <2>1. PICK c, g : /\ c = LeaderChanged(h, q)
                    /\ g = [c EXCEPT !.term = peer[q].term, !.log = log]
    OBVIOUS
  <2>2. p # q
    <3>1. p \in peer[q].remotePeers /\ Knowing(peer[q]) /\ peer[q].id = q
      BY <1>5, SpeakingMeans DEF KeepAlive
    <3> QED
      BY <3>1 DEF Knowing
  <2>3. DOMAIN c = Fields /\ c.id = p /\ c.out = <<>> /\ c.leaderId = q
    BY <1>2, <2>1, <2>2, LeaderSameLog, LeaderSteady
  <2>4. DOMAIN g = Fields /\ g.id = p /\ g.out = <<>> /\ ~leader(g)
    BY <2>1, <2>2, <2>3 DEF Fields, leader
  <2>5. Messages(g.out) /\ AllHonest(g.out)
    BY <2>4, NoMessages DEF AllHonest
  <2>6. CASE Becomes(p, g, net)
    BY <1>2, <2>4, <2>5, <2>6, BecomesSpoken
  <2>7. Becomes(p, g, net) \/ Becomes(p, lost, net)
    BY <1>3, <2>0, <2>1
  <2> QED
    BY <1>4, <2>6, <2>7
<1>6. CASE Hear(p, q)
  <2>1. PICK g : g = _acceptKeepAliveHamokMessage(h, q)
    OBVIOUS
  <2>2. SameLog(g, h) /\ g.out = <<>> /\ g.leaderId = h.leaderId
    BY <1>2, <2>1 DEF _acceptKeepAliveHamokMessage, SameLog, Fields
  <2>3. PICK a \in Answered(g, q) : Becomes(p, a, net)
    BY <1>1, <1>6, <2>1 DEF Hear
  <2>4. SameButLogs(a, g)
    BY <2>2, LogsOnly DEF SameLog
  <2>5. ASSUME leader(a) PROVE leader(h) /\ Long(a.log)
    <3>1. leader(h) /\ Long(g.log) /\ g.leaderId = g.id
      BY <1>1, <1>2, <2>2, <2>4, <2>5 DEF SameButLogs, SameLog, leader, Speaking
    <3> QED
      BY <2>2, <3>1, AnsweredLong DEF SameLog, Speaking
  <2>6. Messages(a.out) /\ AllHonest(a.out) /\ DOMAIN a = Fields /\ a.id = p
    BY <1>2, <2>2, <2>4, NoMessages DEF AllHonest, SameButLogs, SameLog
  <2> QED
    BY <1>1, <1>2, <2>3, <2>5, <2>6, BecomesSpoken
<1>7. CASE Silence(p, q)
  <2>1. PICK g : g = [h EXCEPT !.stale = @ \cup {q}]
    OBVIOUS
  <2>2. g.id = h.id /\ g.leaderId = h.leaderId /\ g.log = h.log
    BY <1>2, <2>1 DEF Fields
  <2>3. peer' = [peer EXCEPT ![p] = g] /\ UNCHANGED net
    BY <1>1, <1>7, <2>1 DEF Silence
  <2>4. peer'[p] = g /\ \A x \in Peers \ {p} : peer'[x] = peer[x]
    BY <2>3 DEF Speaking, Inv
  <2>5. \A x \in Peers : leader(peer'[x]) => leader(peer[x]) /\ Long(peer'[x].log)
    BY <1>1, <2>2, <2>4 DEF leader, Speaking
  <2> QED
    BY <1>2, <2>3, <2>5 DEF Spoken
<1>8. CASE Unsynced(p, q)
  <2>1. PICK g, gone : gone = {q} /\ g = RemovePeers(h, gone)
    OBVIOUS
  <2>2. Frank(g) /\ SameLog(g, h)
    BY <1>2, <2>1, RemovePeersFrank
  <2>3. leader(g) => leader(h)
    BY <1>2, <2>2 DEF SameLog, leader
  <2>4. Becomes(p, g, net)
    BY <1>1, <1>8, <2>1 DEF Unsynced
  <2> QED
    BY <1>1, <1>2, <2>2, <2>3, <2>4, BecomesSpoken DEF SameLog, Frank, Knowing
<1>9. CASE FollowerTimeout(p)
  BY <1>1, <1>3, <1>4, <1>9 DEF FollowerTimeout
<1>10. CASE Submit(p)
  <2>1. PICK g : g = [h EXCEPT !.log = WithNext(@, h.term)]
    OBVIOUS
  <2>2. SameButLogs(g, h) /\ g.log = WithNext(h.log, h.term)
    BY <1>2, <2>1, LogsOnly DEF Fields
  <2>3. leader(g) => leader(h) /\ Long(g.log)
    BY <1>1, <2>2, WithNextLong DEF SameButLogs, leader, Speaking
  <2>4. Messages(g.out) /\ AllHonest(g.out) /\ DOMAIN g = Fields /\ g.id = p
    BY <1>2, <2>2, NoMessages DEF AllHonest, SameButLogs
  <2> QED
    BY <1>1, <1>2, <1>10, <2>1, <2>3, <2>4, BecomesSpoken DEF Submit
<1> QED
  BY <1>5, <1>6, <1>7, <1>8, <1>9, <1>10

LEMMA StoragesSpoken ==
    ASSUME Speaking, NEW p \in Peers, NEW k, NEW id, NEW n, Create(p, k, id) \/ CloseStorage(p, n)
    PROVE  Spoken
<1>1. PICK h : h = peer[p]
  OBVIOUS
<1>2. DOMAIN h = Fields /\ h.out = <<>>
  BY <1>1, SpeakingMeans
<1>3. PICK i, j : i = Len(h.storages) + 1 /\ j = h.storages[n].id
  OBVIOUS
<1>4. PICK created, less :
        /\ created = [h EXCEPT !.storages = Append(@, [kind |-> k, id |-> id, open |-> TRUE]),
                               !.registered = [x \in DOMAIN @ \cup {id} |->
                                                  IF x = id THEN i ELSE @[x]]]
        /\ less = [h EXCEPT !.storages[n].open = FALSE,
                            !.registered = [x \in DOMAIN @ \ {j} |-> @[x]]]
  OBVIOUS
<1>5. SameLog(created, h) /\ created.out = <<>>
  BY <1>2, <1>4 DEF SameLog, Fields
<1>6. SameLog(less, h) /\ less.out = <<>>
  BY <1>2, <1>4 DEF SameLog, Fields
<1>7. Becomes(p, created, net) \/ Becomes(p, less, net)
  BY <1>1, <1>3, <1>4 DEF Create, CloseStorage
<1> QED
  BY <1>1, <1>5, <1>6, <1>7, AloneSpoken

LEMMA DeliverSpoken ==
    ASSUME Speaking, NEW p \in Peers, NEW q \in Peers, Deliver(q, p) \/ Lose(q, p)
    PROVE  Spoken
<1>1. PICK h, m, rest : /\ h = peer[p] /\ m = Head(net[q][p])
                        /\ rest = [net EXCEPT ![q][p] = Tail(@)]
  OBVIOUS
<1>2. /\ Frank(h) /\ Knowing(h) /\ DOMAIN h = Fields /\ h.id = p /\ NetOK(net) /\ p # Nil
      /\ NetHonest(net)
  BY <1>1, SpeakingMeans, SettingsAssumption DEF Speaking
<1>3. net[q][p] # <<>> /\ Messages(net[q][p]) /\ AllHonest(net[q][p])
  BY <1>2 DEF Deliver, Lose, NetOK, NetHonest
<1>4. IsMessage(m) /\ NetOK(rest) /\ NetHonest(rest)
  <2>1. IsMessage(m) /\ Messages(Tail(net[q][p])) /\ AllHonest(Tail(net[q][p]))
    BY <1>1, <1>3, TheRest, RestHonest
  <2>2. DOMAIN net = Peers /\ DOMAIN net[q] = Peers
    BY <1>2 DEF NetOK
  <2>3. rest = [net EXCEPT ![q][p] = Tail(net[q][p])]
    BY <1>1, <2>2
  <2>4. NetOK(rest)
    BY <1>2, <2>1, <2>3, ChannelOK
  <2>5. ASSUME NEW f \in Peers, NEW t \in Peers PROVE AllHonest(rest[f][t])
    <3>1. DOMAIN net[f] = Peers
      BY <1>2 DEF NetOK
    <3>2. rest[f][t] = IF f = q /\ t = p THEN Tail(net[q][p]) ELSE net[f][t]
      BY <2>2, <2>3, <3>1
    <3> QED
      BY <1>2, <2>1, <3>2 DEF NetHonest
  <2> QED
    BY <2>1, <2>4, <2>5 DEF NetHonest
<1>5. ASSUME NEW g, Frank(g), SameLog(g, h), Becomes(p, g, rest) PROVE Spoken
  <2>1. leader(g) => leader(h)
    BY <1>2, <1>5 DEF SameLog, leader
  <2> QED
    BY <1>1, <1>2, <1>4, <1>5, <2>1, BecomesSpoken DEF SameLog, Frank, Knowing
<1>6. CASE UNCHANGED peer /\ net' = rest
  BY <1>4, <1>6 DEF Spoken, Speaking
<1>7. CASE Becomes(p, ReceiveJoin(h, m), rest)
  <2>1. PICK sender, added : sender = {m.from} /\ added = AddPeers(h, sender)
    OBVIOUS
  <2>2. sender \subseteq Peers
    BY <1>4, <2>1 DEF IsMessage
  <2>3. Frank(added) /\ SameLog(added, h)
    BY <1>2, <2>1, <2>2, AddPeersFrank
  <2>4. PICK answer : answer = EndpointStates(added, m.from, added.remotePeers)
    OBVIOUS
  <2>5. IsMessage(answer)
    BY <1>4, <2>3, <2>4 DEF IsMessage, EndpointStates, Knowing, Frank
  <2>6. CASE ReceiveJoin(h, m) = Emit(added, answer) /\ leader(h)
    <3>1. leader(added)
      BY <1>2, <2>1, <2>6 DEF AddPeers, Fields, leader
    <3>2. Honest(answer)
      <4>1. Long(added.log) /\ Size(added.log) = added.log.nextIndex - added.log.firstIndex
        BY <2>3, <3>1, LongSize DEF Frank
      <4> QED
        BY <2>4, <3>1, <4>1 DEF Long, Honest, EndpointStates, PossibleLowestIndex
    <3>3. Frank(Emit(added, answer)) /\ SameLog(Emit(added, answer), added)
      BY <2>3, <2>5, <3>2, EmitFrank
    <3>4. SameLog(Emit(added, answer), h)
      BY <2>3, <3>3, SameLogTwice
    <3> QED
      BY <1>5, <1>7, <2>6, <3>3, <3>4
  <2>7. CASE ReceiveJoin(h, m) = h
    <3>1. SameLog(h, h)
      BY <1>2 DEF SameLog
    <3> QED
      BY <1>2, <1>5, <1>7, <2>7, <3>1
  <2>8. CASE ReceiveJoin(h, m) = added
    BY <1>5, <1>7, <2>3, <2>8
  <2>9. \/ ReceiveJoin(h, m) = Emit(added, answer) /\ leader(h)
        \/ ReceiveJoin(h, m) = h \/ ReceiveJoin(h, m) = added
    BY <2>1, <2>4 DEF ReceiveJoin, _sendEndpointNotification
  <2> QED
    BY <2>6, <2>7, <2>8, <2>9
<1>8. CASE /\ m.type = "EndpointStates" /\ Deliver(q, p)
           /\ Becomes(p, ReceiveEndpointStates(h, m), rest)
  <2>1. PICK active, sender, gone, a, b, known :
            /\ active = m.active /\ sender = {m.from}
            /\ gone = h.remotePeers \ (m.active \cup {m.from})
            /\ a = RemovePeers(h, gone)
            /\ b = AddPeers(a, active)
            /\ known = AddPeers(b, sender)
    OBVIOUS
  <2>2. active \subseteq Peers /\ sender \subseteq Peers
    BY <1>4, <1>8, <2>1 DEF IsMessage
  <2>3. Frank(a) /\ SameLog(a, h)
    BY <1>2, <2>1, RemovePeersFrank
  <2>4. Frank(b) /\ SameLog(b, h)
    BY <2>1, <2>2, <2>3, AddPeersFrank, SameLogTwice
  <2>5. Frank(known) /\ SameLog(known, h)
    BY <2>1, <2>2, <2>4, AddPeersFrank, SameLogTwice
  <2>6. PICK n, j, reset : /\ n = JoinNotification(h, m.from) /\ j = Emit(known, n)
                           /\ reset = [known EXCEPT !.log = ResetLog(PossibleLowestIndex(m))]
    OBVIOUS
  <2>7. IsMessage(n) /\ Honest(n)
    BY <1>2, <1>4, <2>6 DEF IsMessage, JoinNotification, Honest
  <2>8. Frank(j) /\ SameLog(j, h)
    BY <2>5, <2>6, <2>7, EmitFrank, SameLogTwice
  <2>9. DOMAIN reset = Fields /\ reset.id = p /\ reset.out = known.out
    BY <1>2, <2>5, <2>6 DEF SameLog, Fields
  <2>10. CASE Becomes(p, reset, rest)
    <3>1. Messages(reset.out) /\ AllHonest(reset.out)
      BY <2>5, <2>9 DEF Frank, Knowing
    <3>2. /\ NetHonest(net') /\ \A x \in Peers \ {p} : peer'[x] = peer[x]
          /\ SameLog(peer'[p], reset)
      BY <1>4, <2>9, <2>10, <3>1, BecomesHonest DEF Speaking
    <3>3. reset.leaderId = known.leaderId
      BY <2>5, <2>6 DEF SameLog, Fields
    <3>4. leader(peer'[p]) => leader(peer[p])
      BY <1>1, <1>2, <2>5, <2>9, <3>2, <3>3 DEF SameLog, leader
    <3>5. Notified(q, p)
      BY <1>1, <1>8 DEF Notified
    <3>6. ASSUME NEW x \in Peers \ {p}, leader(peer'[x]) PROVE leader(peer[x]) /\ Long(peer'[x].log)
      BY <3>2, <3>6 DEF Speaking, leader
    <3> QED
      BY <1>1, <3>2, <3>4, <3>5, <3>6 DEF Spoken
  <2>11. ReceiveEndpointStates(h, m) \in {j, reset, known}
    BY <2>1, <2>6 DEF ReceiveEndpointStates
  <2> QED
    BY <1>5, <1>8, <2>5, <2>8, <2>10, <2>11
<1>9. Lose(q, p) => UNCHANGED peer /\ net' = rest
  BY <1>1 DEF Lose
<1>10. Deliver(q, p) => \/ UNCHANGED peer /\ net' = rest
                        \/ Becomes(p, ReceiveJoin(h, m), rest)
                        \/ m.type = "EndpointStates" /\ Becomes(p, ReceiveEndpointStates(h, m), rest)
  BY <1>1 DEF Deliver
<1> QED
  BY <1>6, <1>7, <1>8, <1>9, <1>10

LEMMA NextSpoken == ASSUME Speaking, [Next]_vars PROVE Spoken
<1>1. CASE UNCHANGED vars
  BY <1>1 DEF vars, Spoken, Speaking
<1>2. ASSUME NEW p \in Peers,
             \/ CallJoin(p) \/ CallLeave(p) \/ CallClose(p) \/ JoinTimeout(p)
             \/ Heartbeat(p) \/ Elect(p) \/ FollowerTimeout(p) \/ Submit(p)
      PROVE  Spoken
  BY <1>2, CallsSpoken, HeartbeatSpoken, RaftSpoken DEF Speaking
<1>3. ASSUME NEW p \in Peers, NEW q \in Peers,
             \/ Deliver(q, p) \/ Lose(q, p) \/ KeepAlive(q, p) \/ Hear(q, p) \/ Silence(q, p)
             \/ Unsynced(q, p)
      PROVE  Spoken
  BY <1>3, DeliverSpoken, RaftSpoken
<1>4. ASSUME NEW p \in Peers, NEW k, NEW id, NEW n, Create(p, k, id) \/ CloseStorage(p, n)
      PROVE  Spoken
  BY <1>4, StoragesSpoken
<1> QED
  BY <1>1, <1>2, <1>3, <1>4 DEF Next

LEMMA NothingSaid == Init => NetHonest(net)
  BY DEF Init, NetHonest, AllHonest

LEMMA HonestMeans == GridOK /\ NetHonest(net) => ResetsToCommitted
<1> SUFFICES ASSUME GridOK, NetHonest(net), NEW q \in Peers, NEW p \in Peers, net[q][p] # <<>>,
                    NEW m, m = Head(net[q][p]), m.type = "EndpointStates"
             PROVE  PossibleLowestIndex(m) <= m.commitIndex
  BY DEF ResetsToCommitted
<1>1. Honest(m)
  BY RestHonest DEF GridOK, NetOK, NetHonest
<1> QED
  BY <1>1 DEF Honest

\* While nothing expires, the log of the first leader stays long, and this is what it tells.
FirstLog ==
    LET l == setting.leader
    IN  Early /\ ~setting.expires /\ Long(setting.logs[l]) =>
            /\ leader(peer[l]) => Long(peer[l].log)
            /\ NetHonest(net)

LEMMA FirstLogInit == ASSUME Init, Established PROVE FirstLog
<1>1. PICK l : l = setting.leader
  OBVIOUS
<1>2. l \in Peers /\ l \in setting.grid
  BY <1>1, SettingsAssumption DEF Established
<1>3. peer[l].log = setting.logs[l]
  <2>1. PICK log, n : log = setting.logs[l] /\ n = NewPeer(l, log)
    OBVIOUS
  <2>2. peer[l] = [n EXCEPT !.run = TRUE, !.timer = TRUE, !.leaderId = setting.leader, !.term = 1,
                            !.remotePeers = setting.grid \ {l},
                            !.nextIndex = [q \in Peers |->
                                IF l = setting.leader /\ q \in setting.grid \ {l}
                                THEN setting.logs[q].nextIndex ELSE 0],
                            !.heard = IF l = setting.leader THEN setting.grid \ {l} ELSE {}]
    BY <1>2, <2>1 DEF Init, Formed
  <2> QED
    BY <2>1, <2>2 DEF NewPeer
<1> QED
  BY <1>1, <1>3, NothingSaid DEF FirstLog

LEMMA FirstLogNext ==
    ASSUME Start, FirstReign', FirstLog, [Next]_vars
    PROVE  FirstLog'
<1>1. PICK l : l = setting.leader
  OBVIOUS
<1>2. l \in Peers /\ setting' = setting /\ Inv /\ GridOK /\ FirstReign
  BY <1>1, SettingsAssumption DEF Start, Established
<1>3. SUFFICES ASSUME Early', ~setting.expires, Long(setting.logs[l])
               PROVE  (leader(peer'[l]) => Long(peer'[l].log)) /\ NetHonest(net')
  BY <1>1, <1>2 DEF FirstLog
<1>4. Undisputed(l)'
  BY <1>1, <1>2, <1>3 DEF FirstReign
<1>5. CASE UNCHANGED vars
  BY <1>1, <1>3, <1>5 DEF vars, FirstLog, Early
<1>6. CASE Next
  <2>1. Early
    BY <1>3, ReignStep DEF Reigning
  <2>2. \A p \in Peers : ~Elect(p)
    BY <1>3, ElectReign
  <2>3. Undisputed(l) /\ NetHonest(net) /\ (leader(peer[l]) => Long(peer[l].log))
    BY <1>1, <1>2, <1>3, <2>1 DEF FirstReign, FirstLog
  <2>4. Speaking
    BY <1>2, <1>3, <2>2, <2>3 DEF Speaking, Undisputed
  <2>5. Spoken
    BY <1>6, <2>4, NextSpoken
  <2>6. ASSUME leader(peer[l]), NEW q \in Peers, Notified(q, l) PROVE FALSE
    <3>1. net[q][l] # <<>> /\ Messages(net[q][l]) /\ Head(net[q][l]).type = "EndpointStates"
      BY <1>2, <2>6 DEF Notified, Deliver, GridOK, NetOK
    <3>2. q # l
      BY <2>3, <2>6, <3>1 DEF Undisputed, Reigns
    <3>3. OnlyJoins(net[q][l], q)
      BY <1>2, <2>3, <3>2 DEF Undisputed
    <3>4. \E j \in 1 .. Len(net[q][l]) : Head(net[q][l]) = net[q][l][j]
      BY <3>1, LastOfTheRest
    <3> QED
      BY <3>1, <3>3, <3>4 DEF OnlyJoins
  <2>7. leader(peer'[l]) => Long(peer'[l].log)
    BY <1>2, <2>5, <2>6 DEF Spoken
  <2> QED
    BY <2>5, <2>7 DEF Spoken
<1> QED
  BY <1>5, <1>6

(* When the warning of the log reset is right: if no entries expire, and   *)
(* the log with which the leader of a formed grid begins has no hole and   *)
(* its first three entries are committed, then as long as this leader is   *)
(* the only one, who comes late resets its log to an index that has been   *)
(* committed, whatever the leader writes and commits meanwhile.  One peer  *)
(* at most is new to the grid, and no message gets lost.  Where entries    *)
(* expire this is false: fewer than three committed ones may be left.      *)
THEOREM FirstLeaderResetsToCommitted ==
    Spec => [](Established /\ Early /\ ~setting.expires /\ Long(setting.logs[setting.leader])
               => ResetsToCommitted)
<1>1. Init => (Established => FirstReign /\ FirstLog)
  BY ReignInitOK, FirstLogInit
<1>2. Inv /\ GridOK /\ (Established => FirstReign /\ FirstLog) /\ [Next]_vars
      => (Established => FirstReign /\ FirstLog)'
  <2> SUFFICES ASSUME Inv, GridOK, Established => FirstReign /\ FirstLog, [Next]_vars, Established'
               PROVE  FirstReign' /\ FirstLog'
    OBVIOUS
  <2>1. Start /\ FirstLog
    BY SettingStays DEF Start, Established
  <2>2. FirstReign'
    BY <2>1, ReignStep DEF Reigning
  <2> QED
    BY <2>1, <2>2, FirstLogNext
<1>3. GridOK /\ (Established => FirstReign /\ FirstLog)
      => (Established /\ Early /\ ~setting.expires /\ Long(setting.logs[setting.leader])
          => ResetsToCommitted)
  BY HonestMeans DEF FirstLog
<1>4. Spec => []Inv
  BY InvAlways
<1>5. Spec => []GridOK
  <2>1. Init => GridOK
    BY GridInitOK
  <2>2. Inv /\ Inv' /\ GridOK /\ [Next]_vars => GridOK'
    BY GridNextOK
  <2> QED
    BY <1>4, <2>1, <2>2, PTL DEF Spec
<1> QED
  BY <1>1, <1>2, <1>3, <1>4, <1>5, PTL DEF Spec

=============================================================================
