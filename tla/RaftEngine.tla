----------------------------- MODULE RaftEngine -----------------------------
(***************************************************************************)
(* The Raft engines of a Hamok cluster (src/raft/): one RaftEngine per     *)
(* peer, in one of the states empty, follower, candidate and leader, over  *)
(* a network that reorders and, by choice, loses or duplicates messages.   *)
(*                                                                         *)
(* Two reactions of Hamok.ts belong to the step that causes them, since    *)
(* they are synchronous listeners: when an engine loses its leader, Hamok  *)
(* removes every remote peer, and a peer reported unsynced is removed.     *)
(* Who adds and removes remote peers otherwise is the environment's choice *)
(* here.  Timers are nondeterministic: a timeout may fire in any run.      *)
(***************************************************************************)
EXTENDS RaftLogs

CONSTANTS Peers,         \* peer ids; localeCompare orders them like integers
          Nil,           \* undefined
          OnlyFollower,  \* peers with config.onlyFollower
          Impatient,     \* bound: peers whose idle timer may fire
          Leaving,       \* peers that may leave (and join again)
          Removable,     \* peers that others may remove from their remote peers
          Lossy,         \* the network may lose a message
          Duplicating,   \* the network may deliver a message again
          MaxTerm,       \* bound: election terms
          MaxIndex,      \* bound: entries a leader submits
          MaxClock,      \* bound: ticks of the clock that ages log entries
          MaxInFlight    \* bound: messages in flight

ASSUME PeersAssumption == Peers \subseteq Nat /\ IsFiniteSet(Peers) /\ Nil \notin Peers
ASSUME EngineBoundsAssumption == /\ MaxTerm \in Nat
                                 /\ MaxIndex \in Nat
                                 /\ MaxClock \in Nat
                                 /\ MaxInFlight \in Nat

VARIABLES
    mode,          \* state.stateName
    currentTerm,   \* props.currentTerm
    votedFor,      \* props.votedFor
    leaderId,      \* leaderId
    remotePeers,   \* remotePeers
    log,           \* logs
    nextIndex,     \* props.nextIndex; 0 when absent, as every reader takes it
    electionTerm,  \* candidate: context.electionTerm
    votes,         \* candidate: receivedVotes
    notified,      \* candidate: notifiedRemotePeers
    started,       \* candidate: started # undefined
    sent,          \* leader: the peers in sentRequests
    unsynced,      \* leader: the peers in unsyncedRemotePeers
    applied,       \* index -> message: what 'commit' events have delivered
    msgs,          \* the messages in flight
    now            \* Date.now()

elections == <<electionTerm, votes, notified, started>>
tracking == <<sent, unsynced>>
membership == <<remotePeers, nextIndex>>
vars == <<mode, currentTerm, votedFor, leaderId, membership, log, elections,
          tracking, applied, msgs, now>>

\* props.matchIndex is written and deleted together with props.nextIndex and is
\* always one less (-1 when absent), so it needs no variable of its own.
matchIndex(p, q) == nextIndex[p][q] - 1

AppendRequests ==
    [type : {"AppendEntriesRequest"}, from : Peers, to : Peers, term : Nat,
     leaderCommit : Nat \cup {-1}, leaderNextIndex : Nat, entries : Seq(Values)]
AppendResponses ==
    [type : {"AppendEntriesResponse"}, from : Peers, to : Peers, term : Nat,
     success : BOOLEAN, peerNextIndex : Nat \cup {-1}, processed : BOOLEAN]
VoteRequests ==
    [type : {"VoteRequest"}, from : Peers, to : Peers, term : Nat,
     lastLogIndex : Nat \cup {-1}]
VoteResponses ==
    [type : {"VoteResponse"}, from : Peers, to : Peers, term : Nat,
     granted : BOOLEAN]
Messages == AppendRequests \cup AppendResponses \cup VoteRequests \cup VoteResponses

PeersTyped ==
    /\ mode \in [Peers -> {"empty", "follower", "candidate", "leader"}]
    /\ currentTerm \in [Peers -> Nat]
    /\ votedFor \in [Peers -> Peers \cup {Nil}]
    /\ leaderId \in [Peers -> Peers \cup {Nil}]
    /\ remotePeers \in [Peers -> SUBSET Peers]
    /\ DOMAIN log = Peers /\ \A p \in Peers : IsLog(log[p])
    /\ nextIndex \in [Peers -> [Peers -> Nat]]
    /\ electionTerm \in [Peers -> Nat]
    /\ votes \in [Peers -> SUBSET Peers]
    /\ notified \in [Peers -> SUBSET Peers]
    /\ started \in [Peers -> BOOLEAN]
    /\ sent \in [Peers -> SUBSET Peers]
    /\ unsynced \in [Peers -> SUBSET Peers]
    /\ DOMAIN applied = Peers
    /\ now \in Nat

TypeOK == PeersTyped /\ msgs \subseteq Messages

-----------------------------------------------------------------------------
(* Messages.                                                               *)

Send(ms) == /\ Cardinality(msgs \cup ms) <= MaxInFlight
            /\ msgs' = msgs \cup ms

\* Take m off the network, unless it is to be delivered again, and send ms.
Reply(m, ms) ==
    \/ msgs' = (msgs \ {m}) \cup ms
    \/ Duplicating /\ Send(ms)

AppendRequest(p, q, entries) ==
    [type |-> "AppendEntriesRequest", from |-> p, to |-> q, term |-> currentTerm[p],
     leaderCommit |-> log[p].commitIndex, leaderNextIndex |-> log[p].nextIndex,
     entries |-> entries]

\* Mutant: the term of the responder, as in textbook Raft.
AppendResponseInOwnTerm(m, success, peerNextIndex, processed) ==
    [type |-> "AppendEntriesResponse", from |-> m.to, to |-> m.from,
     term |-> currentTerm[m.to], success |-> success, peerNextIndex |-> peerNextIndex,
     processed |-> processed]

\* Responses echo the term of the request, not the term of the responder.
AppendResponse(m, success, peerNextIndex, processed) ==
    [type |-> "AppendEntriesResponse", from |-> m.to, to |-> m.from, term |-> m.term,
     success |-> success, peerNextIndex |-> peerNextIndex, processed |-> processed]

VoteRequest(p, q) ==
    [type |-> "VoteRequest", from |-> p, to |-> q, term |-> electionTerm[p],
     lastLogIndex |-> log[p].nextIndex - 1]

VoteResponse(m, granted) ==
    [type |-> "VoteResponse", from |-> m.to, to |-> m.from, term |-> m.term,
     granted |-> granted]

-----------------------------------------------------------------------------
(* Changes that several handlers make.                                     *)

\* removeRemotePeerId for every q in qs
RemovePeers(p, qs) ==
    /\ remotePeers' = [remotePeers EXCEPT ![p] = @ \ qs]
    /\ nextIndex' = [nextIndex EXCEPT
            ![p] = [q \in Peers |-> IF q \in qs \cap remotePeers[p] THEN 0 ELSE @[q]]]

\* raftEngine.leaderId = id: when a running peer loses its leader, the listener
\* _acceptLeaderChanged removes all remote peers and joins anew.
SetLeader(p, id) ==
    /\ leaderId' = [leaderId EXCEPT ![p] = id]
    /\ IF id = Nil /\ leaderId[p] # Nil THEN RemovePeers(p, remotePeers[p])
                                        ELSE UNCHANGED membership

\* raftEngine.state = ...: what the old state object knew is gone.
SetState(p, name) ==
    /\ mode' = [mode EXCEPT ![p] = name]
    /\ electionTerm' = [electionTerm EXCEPT
            ![p] = IF name = "candidate" THEN currentTerm[p] + 1 ELSE 0]
    /\ votes' = [votes EXCEPT ![p] = IF name = "candidate" THEN {p} ELSE {}]
    /\ notified' = [notified EXCEPT ![p] = {}]
    /\ started' = [started EXCEPT ![p] = FALSE]
    /\ sent' = [sent EXCEPT ![p] = {}]
    /\ unsynced' = [unsynced EXCEPT ![p] = {}]

\* logs.commitUntil(index) on the log l of p, and a 'commit' event per entry
CommitAndEmit(p, l, index) ==
    LET committed == Committed(l, index)
    IN  /\ log' = [log EXCEPT ![p] = CommitUntil(l, index, now)]
        /\ applied' = [applied EXCEPT
                ![p] = [i \in DOMAIN @ \cup committed |->
                            IF i \in committed THEN l.entries[i].entry ELSE @[i]]]

-----------------------------------------------------------------------------
(* Joining, leaving, membership and clients: calls of Hamok on its engine. *)

\* _startRaftEngine, from join
Start(p) ==
    /\ mode[p] = "empty"
    /\ SetState(p, "follower")
    /\ UNCHANGED <<currentTerm, votedFor, leaderId, membership, log, applied, msgs, now>>

\* leave: _run is already false when _stopRaftEngine clears the leader, so only
\* leave itself removes the remote peers.
Leave(p) ==
    /\ p \in Leaving
    /\ mode[p] # "empty"
    /\ SetState(p, "empty")
    /\ leaderId' = [leaderId EXCEPT ![p] = Nil]
    /\ RemovePeers(p, remotePeers[p])
    /\ UNCHANGED <<currentTerm, votedFor, log, applied, msgs, now>>

addRemotePeerId(p, q) ==
    /\ q # p
    /\ q \notin remotePeers[p]
    /\ remotePeers' = [remotePeers EXCEPT ![p] = @ \cup {q}]
    /\ UNCHANGED <<mode, currentTerm, votedFor, leaderId, nextIndex, log, elections,
                   tracking, applied, msgs, now>>

removeRemotePeerId(p, q) ==
    /\ q \in Removable \cap remotePeers[p]
    /\ RemovePeers(p, {q})
    /\ UNCHANGED <<mode, currentTerm, votedFor, leaderId, log, elections, tracking,
                   applied, msgs, now>>

submit(p, v) ==
    /\ mode[p] = "leader"
    /\ log[p].nextIndex < MaxIndex
    /\ log' = [log EXCEPT ![p] = Submit(log[p], currentTerm[p], v, now)]
    /\ UNCHANGED <<mode, currentTerm, votedFor, leaderId, membership, elections,
                   tracking, applied, msgs, now>>

-----------------------------------------------------------------------------
(* Follower.                                                               *)

\* run, when the leader was silent for too long
FollowerTimeout(p) ==
    LET left == IF leaderId[p] # Nil THEN {} ELSE remotePeers[p]
    IN  /\ p \in Impatient
        /\ mode[p] = "follower"
        /\ SetLeader(p, Nil)
        /\ votedFor' = [votedFor EXCEPT ![p] = Nil]
        /\ IF left = {} \/ p \in OnlyFollower
           THEN UNCHANGED <<mode, elections, tracking>>
           ELSE currentTerm[p] < MaxTerm /\ SetState(p, "candidate")
        /\ UNCHANGED <<currentTerm, log, applied, msgs, now>>

\* Mutant: does not take over the term.
AcceptHeaderKeepingTerm(p, m) ==
    /\ votedFor' = [votedFor EXCEPT ![p] = IF currentTerm[p] < m.term THEN Nil ELSE @]
    /\ SetLeader(p, m.from)
    /\ UNCHANGED <<currentTerm, mode, elections, tracking, now>>

\* What every chunk of a current request does before its entries count: it
\* raises the term, which frees the vote, and names the leader.
AcceptHeader(p, m) ==
    /\ currentTerm' = [currentTerm EXCEPT ![p] = m.term]
    /\ votedFor' = [votedFor EXCEPT ![p] = IF currentTerm[p] < m.term THEN Nil ELSE @]
    /\ SetLeader(p, m.from)
    /\ UNCHANGED <<mode, elections, tracking, now>>

\* Mutant: answers an old request as if it had been processed.
FollowerAnswersOldAppend(p, m) ==
    /\ mode[p] = "follower"
    /\ m.term < currentTerm[p]
    /\ Reply(m, {AppendResponse(m, TRUE, -1, TRUE)})
    /\ UNCHANGED <<mode, currentTerm, votedFor, leaderId, membership, log, elections,
                   tracking, applied, now>>

FollowerRejectsAppend(p, m) ==
    /\ mode[p] = "follower"
    /\ m.term < currentTerm[p]
    /\ Reply(m, {AppendResponse(m, FALSE, -1, FALSE)})
    /\ UNCHANGED <<mode, currentTerm, votedFor, leaderId, membership, log, elections,
                   tracking, applied, now>>

\* A chunk of a request whose other chunks are still missing
FollowerTakesChunk(p, m) ==
    /\ mode[p] = "follower"
    /\ currentTerm[p] <= m.term
    /\ 1 < Len(m.entries)
    /\ AcceptHeader(p, m)
    /\ Send({AppendResponse(m, TRUE, -1, FALSE)})
    /\ UNCHANGED <<log, applied>>

\* Mutant: reports the next index of the leader instead of its own.
FollowerEchoesNextIndex(p, m) ==
    LET merged == IF m.entries = <<>> THEN log[p]
                  ELSE MergeEntries(log[p], m.leaderNextIndex, m.entries, m.term, now)
    IN  /\ mode[p] = "follower"
        /\ currentTerm[p] <= m.term
        /\ AcceptHeader(p, m)
        /\ CommitAndEmit(p, merged, Min({merged.nextIndex - 1, m.leaderCommit}))
        /\ Reply(m, {AppendResponse(m, TRUE, m.leaderNextIndex, TRUE)})

\* A keep-alive, or the chunk that completes a request
FollowerAppends(p, m) ==
    LET merged == IF m.entries = <<>> THEN log[p]
                  ELSE MergeEntries(log[p], m.leaderNextIndex, m.entries, m.term, now)
    IN  /\ mode[p] = "follower"
        /\ currentTerm[p] <= m.term
        /\ AcceptHeader(p, m)
        /\ CommitAndEmit(p, merged, Min({merged.nextIndex - 1, m.leaderCommit}))
        /\ Reply(m, {AppendResponse(m, TRUE, merged.nextIndex, TRUE)})

FollowerDeniesVote(p, m) ==
    /\ mode[p] = "follower"
    /\ \/ m.term <= currentTerm[p]
       \/ 0 < log[p].commitIndex /\ m.lastLogIndex < log[p].commitIndex
       \/ votedFor[p] \notin {Nil, m.from}
    /\ Reply(m, {VoteResponse(m, FALSE)})
    /\ UNCHANGED <<mode, currentTerm, votedFor, leaderId, membership, log, elections,
                   tracking, applied, now>>

FollowerGrantsVote(p, m) ==
    /\ mode[p] = "follower"
    /\ currentTerm[p] < m.term
    /\ 0 < log[p].commitIndex => log[p].commitIndex <= m.lastLogIndex
    /\ votedFor[p] \in {Nil, m.from}
    /\ votedFor' = [votedFor EXCEPT ![p] = m.from]
    /\ Reply(m, {VoteResponse(m, TRUE)})
    /\ UNCHANGED <<mode, currentTerm, leaderId, membership, log, elections, tracking,
                   applied, now>>

-----------------------------------------------------------------------------
(* Candidate.                                                              *)

\* run: ask the peers not asked yet; the first run only starts the clock, a
\* later one may find the election timed out.
CandidateRun(p) ==
    /\ mode[p] = "candidate"
    /\ Send({VoteRequest(p, q) : q \in remotePeers[p] \ notified[p]})
    /\ \/ /\ notified' = [notified EXCEPT ![p] = @ \cup remotePeers[p]]
          /\ started' = [started EXCEPT ![p] = TRUE]
          /\ UNCHANGED <<mode, electionTerm, votes, tracking>>
       \/ /\ started[p]
          /\ SetState(p, "follower")
    /\ UNCHANGED <<currentTerm, votedFor, leaderId, membership, log, applied, now>>

CandidateFollows(p, m) ==
    /\ mode[p] = "candidate"
    /\ m.type = "AppendEntriesRequest" /\ electionTerm[p] <= m.term
    /\ SetState(p, "follower")
    /\ Reply(m, {})
    /\ UNCHANGED <<currentTerm, votedFor, leaderId, membership, log, applied, now>>

\* lead(): an election for another term than the next would be dropped.
Lead(p) ==
    IF electionTerm[p] = currentTerm[p] + 1
    THEN /\ SetState(p, "leader")
         /\ currentTerm' = [currentTerm EXCEPT ![p] = electionTerm[p]]
         /\ SetLeader(p, p)
    ELSE /\ SetState(p, "follower")
         /\ UNCHANGED <<currentTerm, leaderId, membership>>

\* A response of this election; the votes needed depend on how many remote
\* peers the candidate knows at this moment.
CandidateCounts(p, m) ==
    LET received == IF m.granted THEN votes[p] \cup {m.from} ELSE votes[p]
        elected == m.granted /\ Cardinality(remotePeers[p]) + 1 < Cardinality(received) * 2
    IN  /\ mode[p] = "candidate"
        /\ m.from \in remotePeers[p]
        /\ electionTerm[p] = m.term
        /\ Reply(m, {})
        /\ IF elected THEN Lead(p)
           ELSE /\ votes' = [votes EXCEPT ![p] = received]
                /\ UNCHANGED <<mode, currentTerm, leaderId, membership, electionTerm,
                               notified, started, tracking>>
        /\ UNCHANGED <<votedFor, log, applied, now>>

-----------------------------------------------------------------------------
(* Leader.                                                                 *)

\* Mutant: forgets to give up the leadership in leaderId.
StepDownStillLeader(p) ==
    /\ SetState(p, "follower")
    /\ UNCHANGED <<leaderId, membership, currentTerm, votedFor, log, applied, now>>

\* follow(): the leader gives up, and with its leader loses its remote peers.
StepDown(p) ==
    /\ SetLeader(p, Nil)
    /\ SetState(p, "follower")
    /\ UNCHANGED <<currentTerm, votedFor, log, applied, now>>

LeaderAlone(p) ==
    /\ mode[p] = "leader"
    /\ remotePeers[p] = {}
    /\ StepDown(p)
    /\ UNCHANGED msgs

\* run: one request per remote peer.  Entries go to the peers that have none
\* outstanding (a request outstanding for 30 s counts no more); a peer that
\* needs entries the log has dropped is marked and, 30 s later, removed.
LeaderRun(p, expired) ==
    LET behind == {q \in remotePeers[p] : nextIndex[p][q] < log[p].firstIndex}
        free == {q \in remotePeers[p] \ (sent[p] \ expired) :
                    Collected(log[p], nextIndex[p][q]) # {}}
        entries(q) == IF q \in free THEN CollectEntries(log[p], nextIndex[p][q]) ELSE <<>>
    IN  /\ mode[p] = "leader"
        /\ remotePeers[p] # {}
        /\ expired \subseteq sent[p] \cap remotePeers[p]
        /\ Send({AppendRequest(p, q, entries(q)) : q \in remotePeers[p]})
        /\ sent' = [sent EXCEPT ![p] = (@ \ expired) \cup free]
        /\ \E kicked \in SUBSET (behind \cap unsynced[p]) :
              /\ unsynced' = [unsynced EXCEPT
                      ![p] = ((@ \ remotePeers[p]) \cup behind) \ kicked]
              /\ RemovePeers(p, kicked)
        /\ UNCHANGED <<mode, currentTerm, votedFor, leaderId, log, elections, applied, now>>

\* Mutant: yields to higher terms only.
LeaderFollowsHigherTerm(p, m) ==
    /\ mode[p] = "leader"
    /\ m.type = "AppendEntriesRequest"
    /\ m.from \in remotePeers[p]
    /\ currentTerm[p] < m.term
    /\ StepDown(p)
    /\ Reply(m, {})

LeaderFollows(p, m) ==
    /\ mode[p] = "leader"
    /\ m.type = "AppendEntriesRequest"
    /\ m.from \in remotePeers[p]
    /\ currentTerm[p] < m.term \/ (currentTerm[p] = m.term /\ p < m.from)
    /\ StepDown(p)
    /\ Reply(m, {})

\* A request that failed may be sent again.  No follower of this code reports a
\* failure for a request it has processed.
LeaderHearsFailure(p, m) ==
    /\ mode[p] = "leader"
    /\ m.term = currentTerm[p] /\ m.processed /\ ~m.success
    /\ sent' = [sent EXCEPT ![p] = @ \ {m.from}]
    /\ Reply(m, {})
    /\ UNCHANGED <<mode, currentTerm, votedFor, leaderId, membership, log, elections,
                   unsynced, applied, now>>

\* The peers that hold index i once m.from reports m.peerNextIndex
Holders(p, m, i) ==
    {q \in remotePeers[p] : i <= IF q = m.from THEN m.peerNextIndex - 1 ELSE matchIndex(p, q)}

OwnTermAndHeldByMajority(p, m, i) ==
    /\ i \in DOMAIN log[p].entries
    /\ log[p].entries[i].term = currentTerm[p]
    /\ Cardinality(remotePeers[p]) + 1 < (Cardinality(Holders(p, m, i)) + 1) * 2

\* Mutants: does not ask who holds the entry; stops one entry early.
CommittableUnheld(p, m) ==
    {i \in log[p].commitIndex + 1 .. log[p].nextIndex - 1 :
        OwnTermAndHeldByMajority(p, m, m.peerNextIndex - 1)}
CommittableButLast(p, m) ==
    {i \in log[p].commitIndex + 1 .. Min({m.peerNextIndex, log[p].nextIndex}) - 2 :
        OwnTermAndHeldByMajority(p, m, i)}

\* The indices the loop over the uncommitted entries may commit: it breaks at
\* the first one that m.from does not hold.
Committable(p, m) ==
    {i \in log[p].commitIndex + 1 .. Min({m.peerNextIndex, log[p].nextIndex}) - 1 :
        OwnTermAndHeldByMajority(p, m, i)}

LeaderHearsSuccess(p, m) ==
    LET committable == Committable(p, m)
    IN  /\ mode[p] = "leader"
        /\ m.term = currentTerm[p] /\ m.processed /\ m.success
        /\ sent' = [sent EXCEPT ![p] = @ \ {m.from}]
        /\ nextIndex' = [nextIndex EXCEPT ![p] = [@ EXCEPT ![m.from] = m.peerNextIndex]]
        /\ IF committable = {} THEN UNCHANGED <<log, applied>>
                               ELSE CommitAndEmit(p, log[p], Max(committable))
        /\ Reply(m, {})
        /\ UNCHANGED <<mode, currentTerm, votedFor, leaderId, remotePeers, elections,
                       unsynced, now>>

\* A response from a later term ends the election or the leadership.  Responses
\* echo the term of a request, so none is: NoResponseFromTheFuture.
Deposed(p, m) ==
    /\ \/ /\ mode[p] = "candidate"
          /\ m.type = "VoteResponse" /\ m.from \in remotePeers[p]
          /\ electionTerm[p] < m.term
          /\ SetState(p, "follower")
          /\ UNCHANGED <<leaderId, membership, currentTerm, votedFor, log, applied, now>>
       \/ /\ mode[p] = "leader"
          /\ m.type = "AppendEntriesResponse" /\ currentTerm[p] < m.term
          /\ StepDown(p)
    /\ Reply(m, {})

-----------------------------------------------------------------------------
(* The network.                                                            *)

\* The engine of p has no use for m in its present state.
Ignored(p, m) ==
    CASE m.type = "AppendEntriesRequest" ->
            \/ mode[p] = "empty"
            \/ mode[p] = "candidate" /\ m.term < electionTerm[p]
            \/ mode[p] = "leader" /\ \/ m.term < currentTerm[p]
                                     \/ m.from \notin remotePeers[p]
                                     \/ m.term = currentTerm[p] /\ m.from <= p
      [] m.type = "AppendEntriesResponse" ->
            mode[p] = "leader" => m.term < currentTerm[p] \/ (m.term = currentTerm[p] /\ ~m.processed)
      [] m.type = "VoteRequest" -> mode[p] # "follower"
      [] m.type = "VoteResponse" ->
            mode[p] = "candidate" => m.from \notin remotePeers[p] \/ m.term < electionTerm[p]

Ignore(p, m) ==
    /\ Ignored(p, m)
    /\ msgs' = msgs \ {m}
    /\ UNCHANGED <<mode, currentTerm, votedFor, leaderId, membership, log, elections,
                   tracking, applied, now>>

Receive(m) ==
    LET p == m.to
    IN  \/ /\ m.type = "AppendEntriesRequest"
           /\ \/ FollowerRejectsAppend(p, m)
              \/ FollowerTakesChunk(p, m)
              \/ FollowerAppends(p, m)
              \/ CandidateFollows(p, m)
              \/ LeaderFollows(p, m)
        \/ /\ m.type = "AppendEntriesResponse"
           /\ LeaderHearsFailure(p, m) \/ LeaderHearsSuccess(p, m)
        \/ /\ m.type = "VoteRequest"
           /\ FollowerDeniesVote(p, m) \/ FollowerGrantsVote(p, m)
        \/ /\ m.type = "VoteResponse"
           /\ CandidateCounts(p, m)
        \/ Deposed(p, m)
        \/ Ignore(p, m)

Lose(m) ==
    /\ Lossy
    /\ msgs' = msgs \ {m}
    /\ UNCHANGED <<mode, currentTerm, votedFor, leaderId, membership, log, elections,
                   tracking, applied, now>>

Tick ==
    /\ now < MaxClock
    /\ now' = now + 1
    /\ UNCHANGED <<mode, currentTerm, votedFor, leaderId, membership, log, elections,
                   tracking, applied, msgs>>

-----------------------------------------------------------------------------

\* Every peer in the state called name, knowing the peers known[p], and nothing
\* else has happened.
Fresh(name, known) ==
    /\ mode = [p \in Peers |-> name]
    /\ currentTerm = [p \in Peers |-> 0]
    /\ votedFor = [p \in Peers |-> Nil]
    /\ leaderId = [p \in Peers |-> Nil]
    /\ remotePeers = known
    /\ log = [p \in Peers |-> EmptyLog]
    /\ nextIndex = [p \in Peers |-> [q \in Peers |-> 0]]
    /\ electionTerm = [p \in Peers |-> 0]
    /\ votes = [p \in Peers |-> {}]
    /\ notified = [p \in Peers |-> {}]
    /\ started = [p \in Peers |-> FALSE]
    /\ sent = [p \in Peers |-> {}]
    /\ unsynced = [p \in Peers |-> {}]
    /\ applied = [p \in Peers |-> <<>>]
    /\ msgs = {}
    /\ now = 0

Init == Fresh("empty", [p \in Peers |-> {}])

\* A state that Init leads to: all peers have started and know each other.  Runs
\* begin here to go further.
Joined == Fresh("follower", [p \in Peers |-> Peers \ {p}])

EnvironmentNext ==
    \/ \E p \in Peers : Start(p) \/ Leave(p)
    \/ \E p, q \in Peers : addRemotePeerId(p, q) \/ removeRemotePeerId(p, q)
    \/ \E p \in Peers, v \in Values : submit(p, v)
    \/ \E m \in msgs : Lose(m)
    \/ Tick

EngineNext ==
    \/ \E p \in Peers : FollowerTimeout(p) \/ CandidateRun(p) \/ LeaderAlone(p)
    \/ \E p \in Peers, expired \in SUBSET Peers : LeaderRun(p, expired)
    \/ \E m \in msgs : Receive(m)

Next == EnvironmentNext \/ EngineNext

Spec == Init /\ [][Next]_vars

JoinedSpec == Joined /\ [][Next]_vars

-----------------------------------------------------------------------------
(* Fairness.  The timers keep running, an outstanding request expires in   *)
(* the end, and although the network may lose messages, it does not lose   *)
(* or delay for ever all messages of a kind that a peer waits for.         *)

Heard(p, type) == {m \in msgs : m.to = p /\ m.type = type}

LeaderTimer(p) == WF_vars(LeaderRun(p, sent[p] \cap remotePeers[p]))

\* What it takes to end a rivalry of leaders
RivalFairness ==
    \A p \in Peers :
        /\ LeaderTimer(p)
        /\ SF_vars(\E m \in Heard(p, "AppendEntriesRequest") : LeaderFollows(p, m))

\* What it takes to elect a leader and to replicate its log
DeliveryFairness ==
    /\ \A p \in Peers :
        /\ SF_vars(\E m \in Heard(p, "VoteRequest") : FollowerGrantsVote(p, m))
        /\ SF_vars(\E m \in Heard(p, "AppendEntriesRequest") :
                        m.entries # <<>> /\ FollowerAppends(p, m))
        /\ SF_vars(\E m \in Heard(p, "AppendEntriesRequest") :
                        m.entries = <<>> /\ FollowerAppends(p, m))
    /\ \A p \in Peers \ OnlyFollower :
        /\ WF_vars(FollowerTimeout(p))
        /\ WF_vars(CandidateRun(p))
        /\ LeaderTimer(p)
        /\ SF_vars(\E m \in Heard(p, "VoteResponse") : m.granted /\ CandidateCounts(p, m))
        /\ SF_vars(\E m \in Heard(p, "AppendEntriesResponse") : LeaderHearsSuccess(p, m))

RivalSpec == Spec /\ RivalFairness
DeliverySpec == JoinedSpec /\ DeliveryFairness

-----------------------------------------------------------------------------
(* Properties of every cluster, however many peers stand for election.     *)

(* The logs stay without gap above the commit index in the hands of the    *)
(* engine: the follower's count-back of indices, its reset, its overriding *)
(* and the leader's submits and commits never leave a missing entry or an  *)
(* entry beyond the end behind.                                            *)
NoGapAboveCommit == \A p \in Peers : GapFree(log[p])

(* No entry carries a term above its peer's current term, so the warning   *)
(* "We overrode an entry coming from a higher term" of RaftFollowerState   *)
(* is never issued, although followers stamp entries with their own term.  *)
NoEntryFromTheFuture == \A p \in Peers : TermsUpTo(log[p], currentTerm[p])

(* submit asks the state object, the commit and membership code of Hamok   *)
(* asks leaderId; between steps the two always agree on who leads.         *)
SelfLeaderIffLeading == \A p \in Peers : mode[p] = "leader" <=> leaderId[p] = p

(* A candidate always stands for the term after its current one, so the    *)
(* checks of lead() against a term that changed meanwhile never fail, and  *)
(* a response never comes from a term ahead of its receiver, so neither    *)
(* candidates nor leaders ever step down because of a response.            *)
NoResponseFromTheFuture ==
    /\ \A p \in Peers : mode[p] = "candidate" => electionTerm[p] = currentTerm[p] + 1
    /\ \A m \in msgs : /\ m.type = "AppendEntriesResponse" => m.term <= currentTerm[m.to]
                       /\ m.type = "VoteResponse" => m.term <= currentTerm[m.to] + 1

(* A leader never believes that a peer holds more entries than the peer    *)
(* has, however late the response that told it so: what the majority count *)
(* of the commit rule rests on.                                            *)
MatchIndexTruthful ==
    \A p, q \in Peers : matchIndex(p, q) < log[q].nextIndex

(* If log entries never expire (config.expirationTimeInMs is 0), every     *)
(* index up to the commit index was delivered by a 'commit' event, whoever *)
(* led.  If they do this is false: a follower that needs what its leader   *)
(* has dropped resets its log and its commit index, and what lies before   *)
(* is never delivered to it.                                               *)
EveryCommitDelivered ==
    ExpirationTime = 0 => \A p \in Peers : DOMAIN applied[p] = 0 .. log[p].commitIndex

(* The term of a peer and the commit index of its log never go back: the   *)
(* comment on commitIndex says "increases monotonically".                  *)
TermAndCommitMonotonic ==
    [][\A p \in Peers : /\ currentTerm[p] <= currentTerm'[p]
                        /\ log[p].commitIndex <= log'[p].commitIndex]_vars

(* A leader commits an index only when that index exists on more than half *)
(* of the peers it knows, itself included.                                 *)
CommitIsHeld(p) ==
    LET holders == {q \in remotePeers[p] : log'[p].commitIndex < log[q].nextIndex}
    IN  mode[p] = "leader" /\ log[p].commitIndex < log'[p].commitIndex =>
            Cardinality(remotePeers[p]) + 1 < (Cardinality(holders) + 1) * 2

CommitNeedsMajority == [][\A p \in Peers : CommitIsHeld(p)]_vars

-----------------------------------------------------------------------------
(* What Raft promises (README.md, "Safety").  These hold with one          *)
(* candidate.                                                              *)

(* Two logs agree wherever both have an entry.                             *)
LogsAgree ==
    \A p, q \in Peers :
        \A i \in DOMAIN log[p].entries \cap DOMAIN log[q].entries :
            log[p].entries[i].entry = log[q].entries[i].entry

(* All peers deliver the same message for the same index, and what a peer  *)
(* delivered stays in its log until it is discarded.                       *)
StateMachineSafety ==
    \A p, q \in Peers :
        \A i \in DOMAIN applied[p] :
            /\ i \in DOMAIN applied[q] => applied[p][i] = applied[q][i]
            /\ i \in DOMAIN log[p].entries => applied[p][i] = log[p].entries[i].entry

(* An index that exists in the log of the leader is delivered by every     *)
(* peer in the end.                                                        *)
SubmittedIsDelivered ==
    \A i \in 0 .. MaxIndex - 1 :
        (\E p \in Peers : mode[p] = "leader" /\ i < log[p].nextIndex)
            ~> \A q \in Peers : i \in DOMAIN applied[q]

(* Two leaders of the same term that know each other do not stay: "only    *)
(* one can remain!"                                                        *)
Rivals(p, q) ==
    /\ mode[p] = "leader" /\ mode[q] = "leader" /\ currentTerm[p] = currentTerm[q]
    /\ p \in remotePeers[q] /\ q \in remotePeers[p]

OnlyOneCanRemain == \A p, q \in Peers : p < q => (Rivals(p, q) ~> ~Rivals(p, q))
=============================================================================
