------------------------------- MODULE Hamok -------------------------------
(***************************************************************************)
(* The grid of Hamok peers (src/Hamok.ts): joining and leaving it, who     *)
(* knows whom (the remote peers), the notifications and heartbeats that    *)
(* keep this up to date, and the registry of storages.                     *)
(*                                                                         *)
(* Underneath is Raft (RaftEngine is the module for that), as Hamok sees   *)
(* it: keep-alives, elections, and logs whose entries have an index and a  *)
(* term.  A request or a response is read when it arrives, in the state in *)
(* which its sender is then.                                               *)
(*                                                                         *)
(* JavaScript runs a handler to its end and then what it has woken up, so  *)
(* a handler is an operator from the record of a peer to the record after  *)
(* it; the field out collects the messages that it sends.                  *)
(***************************************************************************)
EXTENDS Integers, Sequences, FiniteSets, TLC

Sequence == INSTANCE SequencesExt
LOCAL INSTANCE Functions

CONSTANTS Peers,    \* peer ids; localeCompare orders them like integers
          Nil,      \* undefined
          Settings, \* the situations to look at, see below
          MaxOnTheWay \* bound: the timers rest while more messages are on the way

\* A setting: the peers that have formed the grid, led by leader (Nil: there is no grid yet),
\* the logs, the peers that may join (with maxRetry retries), leave, close, the number of
\* times a timer may fire although the other side is alive (pauses), whether messages get
\* lost, how many storages the owners may create, whether entries expire
\* (config.expirationTimeInMs), and bounds: up to which term there are elections, and up to
\* which index a leader writes entries.
ASSUME SettingsAssumption ==
    /\ Peers \subseteq Nat /\ IsFiniteSet(Peers) /\ Nil \notin Peers
    /\ MaxOnTheWay \in Nat
    /\ \A s \in Settings :
        /\ s.grid \subseteq Peers /\ s.leader \in s.grid \cup {Nil}
        /\ s.leader = Nil => s.grid = {}
        /\ s.joiners \subseteq Peers /\ s.leavers \subseteq Peers /\ s.closers \subseteq Peers
        /\ s.retries \in Nat /\ s.pauses \in Nat
        /\ s.owners \subseteq Peers /\ s.storages \in Nat
        /\ s.lossy \in BOOLEAN
        /\ s.maxIndex \in Nat /\ s.maxTerm \in Nat /\ s.expires \in BOOLEAN

VARIABLES setting,  \* the setting, which never changes
          peer,     \* the peers
          net,      \* the messages on the way, in order between any two peers
          pauses    \* how many timers fired without need

vars == <<setting, peer, net, pauses>>

NewLog == [firstIndex |-> 0, nextIndex |-> 0, commitIndex |-> -1, entries |-> <<>>]

\* nextIndex is props.nextIndex, 0 when absent; props.matchIndex is always one less.
NewPeer(p, log) ==
    [id |-> p, closed |-> FALSE, run |-> FALSE, timer |-> FALSE,
     joining |-> "no", retries |-> 0, retried |-> 0, aborted |-> FALSE, leaving |-> FALSE,
     leaderId |-> Nil, term |-> 0, remotePeers |-> {}, heard |-> {}, stale |-> {},
     log |-> log, nextIndex |-> [q \in Peers |-> 0],
     storages |-> <<>>, registered |-> <<>>, out |-> <<>>]

\* The joining promise: "no", "waiting" for a leader, or settled and "woken".
Joining == {"no", "waiting", "woken"}

-----------------------------------------------------------------------------
(* The log of a peer: its bounds, and the entries, a function from the     *)
(* indices that there are to the terms that they are stamped with.         *)

\* logs.size counts the entries, wherever they are.
Size(log) == Cardinality(DOMAIN log.entries)

\* Entries of the given term are written at the indices.  The term of an entry matters until
\* it is committed, and is 0 from then on.
Written(log, indices, term) ==
    [i \in DOMAIN log.entries \cup indices |->
        IF i \notin indices THEN log.entries[i] ELSE IF i <= log.commitIndex THEN 0 ELSE term]

\* logs.submit
WithNext(log, term) ==
    [log EXCEPT !.entries = Written(log, {log.nextIndex}, term), !.nextIndex = @ + 1]

ResetLog(index) ==
    [firstIndex |-> index, nextIndex |-> index + 1, commitIndex |-> index, entries |-> <<>>]

\* _expire, when the entries before the index fresh are old.  The last old one stays and
\* becomes the first, and a hole moves the first index past it.
Expired(log, fresh) ==
    LET scanned == log.firstIndex .. fresh - 1
        holes == scanned \ DOMAIN log.entries
        old == scanned \cap DOMAIN log.entries
        first == IF holes = {} THEN log.firstIndex ELSE Sequence!Max(holes) + 1
        last == IF old = {} THEN -1 ELSE Sequence!Max(old)
    IN  IF last < first THEN [log EXCEPT !.firstIndex = first]
        ELSE [log EXCEPT !.firstIndex = last,
                         !.entries = [i \in DOMAIN @ \ (first .. last - 1) |-> @[i]]]

\* The logs that _expire may leave behind: it stops at the commit index, or at an entry
\* that is not old yet.
AfterExpiry(log) ==
    IF ~setting.expires THEN {log}
    ELSE {Expired(log, fresh) : fresh \in
            {i \in log.firstIndex .. log.commitIndex :
                i = log.commitIndex \/ i \in DOMAIN log.entries}}

\* Where commitUntil stops: at index, at the end of the log, or before a hole.
CommitEnd(log, index) ==
    Sequence!Min({c \in log.commitIndex .. index :
        c = index \/ log.nextIndex <= c + 1 \/ c + 1 \notin DOMAIN log.entries})

\* The logs that commitUntil(index) may leave behind
CommitUntil(log, index) ==
    IF index <= log.commitIndex \/ CommitEnd(log, index) = log.commitIndex THEN {log}
    ELSE LET end == CommitEnd(log, index)
         IN  AfterExpiry([log EXCEPT !.commitIndex = end,
                                     !.entries = [i \in DOMAIN @ |-> IF i <= end THEN 0 ELSE @[i]]])

\* A follower writes the n entries of a request.  It counts their indices back from
\* the next index of the leader, and resets its log when they start beyond its end.
Merged(log, leaderNextIndex, n, term) ==
    LET base == leaderNextIndex - n
        start == IF log.nextIndex < base THEN ResetLog(base) ELSE log
    IN  [start EXCEPT !.entries = Written(start, base .. leaderNextIndex - 1, term),
                      !.nextIndex = Sequence!Max({@, leaderNextIndex})]

-----------------------------------------------------------------------------
(* Messages and remote peers.                                              *)

leader(h) == h.leaderId = h.id

Emit(h, m) == [h EXCEPT !.out = Append(@, m)]
JoinNotification(h, q) == [type |-> "Join", from |-> h.id, to |-> q]

EndpointStates(h, q, active) ==
    [type |-> "EndpointStates", from |-> h.id, to |-> q, active |-> active,
     commitIndex |-> h.log.commitIndex,
     leaderNextIndex |-> IF leader(h) THEN h.log.nextIndex ELSE -1,
     numberOfLogs |-> Size(h.log)]

_sendEndpointNotification(h, q) == Emit(h, EndpointStates(h, q, h.remotePeers))

\* The notifications to the given remote peers, which name these peers
Notifications(h, remotePeers) ==
    Sequence!SetToSeq({EndpointStates(h, q, remotePeers) : q \in remotePeers})

broadcastEndpointNotification(h) ==
    [h EXCEPT !.out = @ \o Notifications(h, h.remotePeers)]

\* Mutant: the notification goes out before the peer is added.
AddPeersToldBefore(h, qs) ==
    LET known == h.remotePeers \cup (qs \ {h.id})
    IN  [h EXCEPT !.remotePeers = known,
                  !.out = IF leader(h) THEN @ \o Notifications(h, h.remotePeers) ELSE @]

\* Mutant: a peer adds itself as well.
AddPeersItself(h, qs) ==
    LET added == qs \ h.remotePeers
    IN  [h EXCEPT !.remotePeers = @ \cup added,
                  !.out = IF leader(h) /\ added # {} THEN @ \o Notifications(h, h.remotePeers \cup added)
                          ELSE @]

\* addRemotePeerId for one peer after the other; a leader tells all after each.
AddPeers(h, qs) ==
    LET s == Sequence!SetToSeq(qs \ (h.remotePeers \cup {h.id}))
        known(j) == h.remotePeers \cup {s[i] : i \in 1 .. j}
        told == Sequence!FlattenSeq([j \in DOMAIN s |-> Notifications(h, known(j))])
    IN  [h EXCEPT !.remotePeers = @ \cup (qs \ {h.id}),
                  !.out = IF leader(h) THEN @ \o told ELSE @]

\* props.nextIndex without what it says of the remote peers in qs
Untracked(h, qs) ==
    [q \in Peers |-> IF q \in qs \cap h.remotePeers THEN 0 ELSE h.nextIndex[q]]

\* removeRemotePeerId for one peer after the other; what was heard from it stays.
RemovePeers(h, qs) ==
    LET s == Sequence!SetToSeq(qs \cap h.remotePeers)
        left(j) == h.remotePeers \ {s[i] : i \in 1 .. j}
        told == Sequence!FlattenSeq([j \in DOMAIN s |-> Notifications(h, left(j))])
    IN  [h EXCEPT !.remotePeers = @ \ qs,
                  !.nextIndex = Untracked(h, qs),
                  !.out = IF leader(h) THEN @ \o told ELSE @]

-----------------------------------------------------------------------------
(* Joining, leaving and the changes of the leader.                         *)

\* join, as far as it runs at once: the engine is started and a leader awaited.
join(h, retries) ==
    IF h.closed \/ h.joining # "no" \/ h.leaderId # Nil THEN h
    ELSE [h EXCEPT !.run = TRUE, !.heard = {}, !.stale = {}, !.joining = "waiting",
                   !.retries = retries, !.retried = 0, !.aborted = FALSE, !.timer = TRUE]

\* The setter of leaderId and its listeners: first _acceptLeaderChanged, which, when the leader
\* is lost, forgets all remote peers and joins again; then the listener of
\* waitUntilLeader, which any change wakes up, the loss of the leader too.
LeaderChanged(h, id) ==
    IF h.leaderId = id THEN h
    ELSE LET changed == [h EXCEPT !.leaderId = id, !.heard = {}, !.stale = {},
                                  !.joining = IF @ = "waiting" THEN "woken" ELSE @]
         IN  IF id = h.id THEN broadcastEndpointNotification(changed)
             ELSE IF id = Nil /\ h.run /\ ~h.closed
             THEN join([changed EXCEPT !.remotePeers = {},
                                       !.nextIndex = Untracked(h, h.remotePeers)], -1)
             ELSE changed

_stopRaftEngine(h) ==
    IF ~h.timer THEN h ELSE [LeaderChanged(h, Nil) EXCEPT !.timer = FALSE, !.heard = {},
                                                          !.stale = {}]

\* leave, once no join is in progress
Left(h) == [_stopRaftEngine([h EXCEPT !.run = FALSE]) EXCEPT
                !.remotePeers = {}, !.nextIndex = Untracked(h, h.remotePeers), !.leaving = FALSE]

\* What follows a handler at once: a settled joining promise is gone, and leave goes on.
Settled(h) ==
    IF h.joining # "woken" THEN h
    ELSE LET done == [h EXCEPT !.joining = "no", !.aborted = FALSE]
         IN  IF h.leaving THEN Left(done) ELSE done

\* A message goes behind those on the way between the same peers.  Handling a message twice
\* in a row is handling it once, so one that equals its predecessor is left out.
Send(channels, m) ==
    LET c == channels[m.from][m.to]
    IN  IF c # <<>> /\ Sequence!Last(c) = m THEN channels
        ELSE [channels EXCEPT ![m.from][m.to] = Append(c, m)]

\* The messages of ms are sent, one after the other.
Sent(channels, ms) ==
    LET sent[n \in 0 .. Len(ms)] ==
            IF n = 0 THEN channels ELSE Send(sent[n - 1], ms[n])
    IN  sent[Len(ms)]

\* Peer p ends a handler as the record h, with the messages channels still on the way.
Becomes(p, h, channels) ==
    LET done == Settled(h)
    IN  /\ peer' = [peer EXCEPT ![p] = [done EXCEPT !.out = <<>>]]
        /\ net' = IF done.out = <<>> THEN channels ELSE Sent(channels, done.out)

CallJoin(p) ==
    /\ p \in setting.joiners
    /\ peer[p].joining = "no" /\ ~peer[p].closed /\ peer[p].leaderId = Nil
    /\ Becomes(p, join(peer[p], setting.retries), net)
    /\ UNCHANGED <<setting, pauses>>

\* Mutant: leave does not wait for the join in progress.
LeaveAtOnce(h) == Left(h)

\* leave aborts a join in progress and waits for its end.
leave(h) ==
    IF h.joining = "waiting" THEN [h EXCEPT !.aborted = TRUE, !.leaving = TRUE] ELSE Left(h)

CallLeave(p) ==
    /\ p \in setting.leavers
    /\ peer[p].run /\ ~peer[p].closed /\ ~peer[p].leaving
    /\ Becomes(p, leave(peer[p]), net)
    /\ UNCHANGED <<setting, pauses>>

\* close; the storages that are registered are closed with it.
close(h) ==
    LET stopped == _stopRaftEngine([h EXCEPT !.closed = TRUE, !.run = FALSE])
        routed == {h.registered[x] : x \in DOMAIN h.registered}
    IN  [stopped EXCEPT !.remotePeers = {},
                        !.nextIndex = Untracked(h, h.remotePeers),
                        !.storages = [n \in DOMAIN @ |->
                            IF n \in routed THEN [@[n] EXCEPT !.open = FALSE] ELSE @[n]],
                        !.registered = <<>>]

CallClose(p) ==
    /\ p \in setting.closers
    /\ ~peer[p].closed
    /\ Becomes(p, close(peer[p]), net)
    /\ UNCHANGED <<setting, pauses>>

\* Mutant: only the limit ends a join.
GivesUpAtLimit(h) == 0 < h.retries /\ h.retries <= h.retried

\* Whether a join ends when no leader has come in time
GivesUp(h) == h.aborted \/ h.closed \/ (0 < h.retries /\ h.retries <= h.retried)

\* waitUntilLeader times out.  The join ends, or goes on if there are remote peers, or
\* retries; in both cases it starts the engine if that has stopped.
JoinTimeout(p) ==
    LET h == peer[p]
    IN  /\ h.joining = "waiting"
        /\ \/ /\ GivesUp(h)
              /\ Becomes(p, [h EXCEPT !.joining = "woken"], net)
           \/ /\ ~GivesUp(h)
              /\ (0 < h.retries /\ h.remotePeers = {}) \/ ~h.timer
              /\ Becomes(p, [h EXCEPT !.timer = TRUE,
                                      !.retried = IF h.remotePeers = {} THEN @ + 1 ELSE @], net)
        /\ UNCHANGED <<setting, pauses>>

-----------------------------------------------------------------------------
(* Notifications.                                                          *)

ReceiveJoin(h, m) ==
    LET added == AddPeers(h, {m.from})
    IN  IF m.from \in h.remotePeers THEN h
        ELSE IF leader(h) THEN _sendEndpointNotification(added, m.from)
        ELSE added

\* Where a notification makes a peer reset its log to, and whether it does
PossibleLowestIndex(m) == m.leaderNextIndex - m.numberOfLogs + 2

Resets(h, m) ==
    /\ h.id \in m.active
    /\ 0 < m.commitIndex
    /\ h.log.nextIndex < m.leaderNextIndex
    /\ h.log.firstIndex < PossibleLowestIndex(m)

\* The remote peers become those of the sender; who is not among them joins again.
ReceiveEndpointStates(h, m) ==
    LET known == AddPeers(AddPeers(RemovePeers(h, h.remotePeers \ (m.active \cup {m.from})),
                                   m.active), {m.from})
    IN  IF h.id \notin m.active THEN Emit(known, JoinNotification(h, m.from))
        ELSE IF Resets(h, m) THEN [known EXCEPT !.log = ResetLog(PossibleLowestIndex(m))]
        ELSE known

Deliver(q, p) ==
    LET m == Head(net[q][p])
        rest == [net EXCEPT ![q][p] = Tail(@)]
    IN  /\ net[q][p] # <<>>
        /\ \/ /\ ~peer[p].closed
              /\ m.type = "Join"
              /\ Becomes(p, ReceiveJoin(peer[p], m), rest)
           \/ /\ ~peer[p].closed
              /\ m.type = "EndpointStates"
              /\ Becomes(p, ReceiveEndpointStates(peer[p], m), rest)
           \/ /\ peer[p].closed
              /\ net' = rest
              /\ UNCHANGED peer
        /\ UNCHANGED <<setting, pauses>>

Lose(q, p) ==
    /\ setting.lossy
    /\ net[q][p] # <<>>
    /\ net' = [net EXCEPT ![q][p] = Tail(@)]
    /\ UNCHANGED <<setting, peer, pauses>>

-----------------------------------------------------------------------------
(* The timer of the Raft engine: its state runs, then 'heartbeat'.         *)

\* A leader without remote peers follows.
LeaderAlone(h) == IF leader(h) /\ h.remotePeers = {} THEN LeaderChanged(h, Nil) ELSE h

_sendJoinMsg(h) ==
    IF h.remotePeers = {} \/ h.leaderId = Nil
    THEN [h EXCEPT !.out = @ \o Sequence!SetToSeq({JoinNotification(h, q) : q \in Peers \ {h.id}})]
    ELSE h

\* A leader removes whom it has not heard of for long, and forgets him in the next round.
_checkRemoteHeartbeats(h) ==
    IF ~leader(h) \/ h.joining # "no" THEN h
    ELSE LET forgotten == h.stale \ h.remotePeers
         IN  [RemovePeers(h, h.stale) EXCEPT !.heard = @ \ forgotten, !.stale = @ \ forgotten]

\* How many messages are on the way
OnTheWay == LET lengths == [c \in Peers \X Peers |-> Len(net[c[1]][c[2]])]
            IN  FoldFunction(+, 0, lengths)

Heartbeat(p) ==
    /\ peer[p].timer
    /\ OnTheWay <= MaxOnTheWay
    /\ Becomes(p, _checkRemoteHeartbeats(_sendJoinMsg(LeaderAlone(peer[p]))), net)
    /\ UNCHANGED <<setting, pauses>>

-----------------------------------------------------------------------------
(* Raft, as Hamok sees it.                                                 *)

\* One timer too many, if the setting allows.
Pause == pauses < setting.pauses /\ pauses' = pauses + 1

\* A request is made: a leader puts an entry into its log.
Submit(l) ==
    /\ leader(peer[l]) /\ peer[l].log.nextIndex < setting.maxIndex
    /\ Becomes(l, [peer[l] EXCEPT !.log = WithNext(@, peer[l].term)], net)
    /\ UNCHANGED <<setting, pauses>>

\* The logs that p may have after a request of l.  It holds the entries that l has from
\* where it believes p to be, or none, when there are none or the last ones are not answered.
Appended(l, p) ==
    LET leaders == peer[l].log
        lacking == {i \in DOMAIN leaders.entries :
                        peer[l].nextIndex[p] <= i /\ i < leaders.nextIndex}
        received(n) == IF n = 0 THEN peer[p].log
                       ELSE Merged(peer[p].log, leaders.nextIndex, n, peer[l].term)
        end(log) == Sequence!Min({log.nextIndex - 1, leaders.commitIndex})
    IN  UNION {CommitUntil(received(n), end(received(n))) : n \in {0, Cardinality(lacking)}}

\* A request of the leader l arrives at p, which takes it as its leader, or steps down.
KeepAlive(l, p) ==
    LET h == peer[p]
        older == h.term < peer[l].term
    IN  /\ peer[l].timer /\ leader(peer[l]) /\ p \in peer[l].remotePeers
        /\ h.timer
        /\ \/ /\ ~leader(h) /\ h.term <= peer[l].term
              /\ \E log \in Appended(l, p) :
                    Becomes(p, [LeaderChanged(h, l) EXCEPT !.term = peer[l].term, !.log = log], net)
           \/ /\ leader(h) /\ l \in h.remotePeers
              /\ older \/ (h.term = peer[l].term /\ p < l)
              /\ Becomes(p, LeaderChanged(h, Nil), net)
        /\ UNCHANGED <<setting, pauses>>

\* Mutant: followers keep the time of what they hear too.
_acceptAnyKeepAlive(h, p) == [h EXCEPT !.heard = @ \cup {p}, !.stale = @ \ {p}]

\* A leader keeps the time when it has heard of a peer.
_acceptKeepAliveHamokMessage(h, p) ==
    IF leader(h) THEN [h EXCEPT !.heard = @ \cup {p}, !.stale = @ \ {p}] ELSE h

\* The entries of its own term that the leader h may commit: a majority holds them.
Committable(h) ==
    LET holders(i) == {q \in h.remotePeers : i < h.nextIndex[q]}
    IN  {i \in h.log.commitIndex + 1 .. h.log.nextIndex - 1 :
            /\ i \in DOMAIN h.log.entries /\ h.log.entries[i] = h.term
            /\ Cardinality(h.remotePeers) + 1 < (Cardinality(holders(i)) + 1) * 2}

\* What the leader h may be after the response of p: it knows where p is, and commits
\* up to the last entry that it may commit and p holds.
Answered(h, p) ==
    LET known == [h EXCEPT !.nextIndex = [@ EXCEPT ![p] = peer[p].log.nextIndex]]
        reached == {i \in Committable(known) : i < known.nextIndex[p]}
    IN  IF ~(leader(h) /\ peer[p].leaderId = h.id /\ peer[p].term = h.term) THEN {h}
        ELSE IF reached = {} THEN {known}
        ELSE {[known EXCEPT !.log = log] : log \in CommitUntil(h.log, Sequence!Max(reached))}

\* A message of p arrives at q: the response to its leader, or the request for a vote.
Hear(q, p) ==
    /\ p # q /\ peer[p].timer /\ ~peer[q].closed
    /\ peer[p].leaderId = q \/ (peer[p].leaderId = Nil /\ q \in peer[p].remotePeers)
    /\ \E h \in Answered(_acceptKeepAliveHamokMessage(peer[q], p), p) : Becomes(q, h, net)
    /\ UNCHANGED <<setting, pauses>>

\* The leader l has heard nothing from q for the election timeout.
Silence(l, q) ==
    /\ q \in peer[l].heard \ peer[l].stale
    /\ \/ peer[q].leaderId # l /\ UNCHANGED pauses
       \/ peer[q].leaderId = l /\ Pause
    /\ peer' = [peer EXCEPT ![l].stale = @ \cup {q}]
    /\ UNCHANGED <<setting, net>>

Led(p) == \E l \in Peers : leader(peer[l]) /\ peer[p].leaderId = l /\ p \in peer[l].remotePeers

\* A follower has heard nothing from its leader for followerMaxIdleInMs.
FollowerTimeout(p) ==
    /\ peer[p].timer /\ peer[p].leaderId \notin {Nil, p}
    /\ \/ ~Led(p) /\ UNCHANGED pauses
       \/ Led(p) /\ Pause
    /\ Becomes(p, LeaderChanged(peer[p], Nil), net)
    /\ UNCHANGED setting

\* The remote peers that may vote for p: p's log must reach what they have committed.
Voters(p) ==
    {q \in peer[p].remotePeers :
        /\ peer[q].timer /\ ~leader(peer[q]) /\ peer[q].term <= peer[p].term
        /\ 0 < peer[q].log.commitIndex => peer[q].log.commitIndex < peer[p].log.nextIndex}

\* Without a leader, a follower with remote peers stands for election and wins.
Elect(p) ==
    /\ peer[p].timer /\ peer[p].leaderId = Nil /\ peer[p].remotePeers # {}
    /\ peer[p].term < setting.maxTerm
    /\ Cardinality(peer[p].remotePeers) + 1 < (Cardinality(Voters(p)) + 1) * 2
    /\ Becomes(p, LeaderChanged([peer[p] EXCEPT !.term = @ + 1], p), net)
    /\ UNCHANGED <<setting, pauses>>

\* 'unsynced-peer': for 30 s the leader knows of q that it needs entries that the leader has
\* dropped.  If q runs and needs none, it has said so by then.
Unsynced(l, q) ==
    /\ leader(peer[l]) /\ q \in peer[l].remotePeers
    /\ peer[l].nextIndex[q] < peer[l].log.firstIndex
    /\ ~peer[q].timer \/ peer[q].log.nextIndex < peer[l].log.firstIndex
    /\ Becomes(l, RemovePeers(peer[l], {q}), net)
    /\ UNCHANGED <<setting, pauses>>

-----------------------------------------------------------------------------
(* Storages.                                                               *)

Kinds == {"map", "remoteMap", "record", "queue", "emitter"}

\* Mutant: no kind is checked.
NeverTaken(h, kind, id) == FALSE

\* Maps and records are not created under an id that is taken; queues and emitters are.
Taken(h, kind, id) == kind \in {"map", "remoteMap", "record"} /\ id \in DOMAIN h.registered

\* createMap, createRemoteMap, createRecord, createQueue, createEmitter
Create(p, kind, id) ==
    LET h == peer[p]
        n == Len(h.storages) + 1
    IN  /\ p \in setting.owners
        /\ ~h.closed
        /\ ~Taken(h, kind, id)
        /\ n <= setting.storages
        /\ Becomes(p, [h EXCEPT !.storages = Append(@, [kind |-> kind, id |-> id, open |-> TRUE]),
                                !.registered = [x \in DOMAIN @ \cup {id} |->
                                                    IF x = id THEN n ELSE @[x]]], net)
        /\ UNCHANGED <<setting, pauses>>

\* A storage closes: whatever is registered under its id is no longer.
CloseStorage(p, n) ==
    LET h == peer[p]
        id == h.storages[n].id
    IN  /\ h.storages[n].open
        /\ Becomes(p, [h EXCEPT !.storages[n].open = FALSE,
                                !.registered = [x \in DOMAIN @ \ {id} |-> @[x]]], net)
        /\ UNCHANGED <<setting, pauses>>

-----------------------------------------------------------------------------

Formed(p) ==
    [NewPeer(p, setting.logs[p]) EXCEPT
        !.run = TRUE, !.timer = TRUE, !.leaderId = setting.leader, !.term = 1,
        !.remotePeers = setting.grid \ {p},
        !.nextIndex = [q \in Peers |-> IF p = setting.leader /\ q \in setting.grid \ {p}
                                       THEN setting.logs[q].nextIndex ELSE 0],
        !.heard = IF p = setting.leader THEN setting.grid \ {p} ELSE {}]

Init ==
    /\ setting \in Settings
    /\ peer = [p \in Peers |-> IF p \in setting.grid THEN Formed(p)
                               ELSE NewPeer(p, setting.logs[p])]
    /\ net = [f \in Peers |-> [t \in Peers |-> <<>>]]
    /\ pauses = 0

Ids == {"x"}

Next ==
    \/ \E p \in Peers : \/ CallJoin(p) \/ CallLeave(p) \/ CallClose(p) \/ JoinTimeout(p)
                        \/ Heartbeat(p) \/ FollowerTimeout(p) \/ Elect(p) \/ Submit(p)
    \/ \E p, q \in Peers : \/ Deliver(q, p) \/ Lose(q, p) \/ KeepAlive(q, p) \/ Hear(q, p)
                           \/ Silence(q, p) \/ Unsynced(q, p)
    \/ \E p \in Peers, kind \in Kinds, id \in Ids : Create(p, kind, id)
    \/ \E p \in Peers : \E n \in DOMAIN peer[p].storages : CloseStorage(p, n)

Spec == Init /\ [][Next]_vars

\* The timeout of waitUntilLeader is a timer of its own: it fires, whatever the rest does.
FairSpec == Spec /\ \A p \in Peers : WF_vars(JoinTimeout(p))

-----------------------------------------------------------------------------
(* Properties.                                                             *)

TypeOK ==
    \A p \in Peers : LET h == peer[p] IN
        /\ h.joining \in {"no", "waiting"} /\ h.out = <<>>
        /\ h.leaderId \in Peers \cup {Nil}
        /\ h.remotePeers \subseteq Peers \ {p}
        /\ h.stale \subseteq h.heard /\ h.heard \subseteq Peers \ {p}
        /\ h.joining = "waiting" => h.leaderId = Nil

(* Whatever join was in progress, a peer that has left or is closed is out *)
(* of the grid: its engine stands still and it follows nobody.  A join     *)
(* that leave did not wait for would start the engine again.               *)
LeftIsOut ==
    \A p \in Peers : ~peer[p].run => ~peer[p].timer /\ peer[p].leaderId = Nil

(* What the heartbeats of remote peers are compared with is what this      *)
(* leadership has heard: a peer is never removed for its silence under an  *)
(* earlier leader.                                                         *)
HeardByLeaderOnly == \A p \in Peers : peer[p].heard # {} => leader(peer[p])

(* leave ends, although it waits for a join that may have no limit.        *)
LeaveEnds == \A p \in Peers : peer[p].leaving ~> ~peer[p].leaving

(* While there is one leader and there was no other, and nothing is on the *)
(* way, a follower knows at least the peers that its leader knows: it will *)
(* not count its majority among fewer.  The exception is a follower that   *)
(* has lost its leader for a moment and has forgotten all peers: the       *)
(* leader, which still knows it, does not answer when it joins again.      *)
OnlyLeader(l) ==
    leader(peer[l]) /\ \A q \in Peers : peer[q].term <= 1 /\ (leader(peer[q]) => q = l)

Forgetful(p, l) == l \notin peer[p].remotePeers

FollowersKnow ==
    (\A q, p \in Peers : net[q][p] = <<>>) => \A l, p \in Peers :
        OnlyLeader(l) /\ p \in peer[l].remotePeers /\ peer[p].leaderId = l
        => \/ (peer[l].remotePeers \cup {l}) \ {p} \subseteq peer[p].remotePeers
           \/ Forgetful(p, l)

(* An open storage gets the messages for its id, and messages go to open   *)
(* ones, whatever was created and closed.  The exception are storages that *)
(* have shared their id with a queue or an emitter: each new one takes the *)
(* messages, and each that closes takes the registration with it, a newer  *)
(* storage's too.                                                          *)
SharesId(h, n) ==
    LET same == {k \in DOMAIN h.storages : h.storages[k].id = h.storages[n].id}
    IN  same # {n} /\ \E k \in same : h.storages[k].kind \in {"queue", "emitter"}

OpenIsRouted ==
    \A p \in Peers : LET h == peer[p] IN
        /\ \A x \in DOMAIN h.registered : h.storages[h.registered[x]].open
        /\ \A n \in DOMAIN h.storages :
            h.storages[n].open =>
                \/ h.storages[n].id \in DOMAIN h.registered /\ h.registered[h.storages[n].id] = n
                \/ SharesId(h, n)

(* The log of a peer is reset to an index that the leader has committed,   *)
(* as the warning says that comes with it.                                 *)
ResetsToCommitted ==
    \A q, p \in Peers : net[q][p] # <<>> =>
        LET m == Head(net[q][p])
        IN  m.type = "EndpointStates" /\ ~peer[p].closed /\ Resets(peer[p], m)
            => PossibleLowestIndex(m) <= m.commitIndex
=============================================================================
