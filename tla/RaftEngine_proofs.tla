-------------------------- MODULE RaftEngine_proofs --------------------------
(* The engines of a cluster keep their invariants, for every set of peers,  *)
(* every bound and every network; and what Raft promises of the logs and of *)
(* what they deliver, for the clusters in which it holds.                   *)
EXTENDS RaftEngine, RaftLogs_proofs

-----------------------------------------------------------------------------
(* The inductive invariant.  What a peer takes from a message rests on what *)
(* held when it was sent; terms and logs only grow, so it holds still.      *)

MessageOK(m) ==
    /\ m \in Messages
    /\ m.from # m.to
    /\ m.type = "AppendEntriesRequest" =>
            m.term <= currentTerm[m.from] /\ Len(m.entries) <= m.leaderNextIndex
    /\ m.type = "AppendEntriesResponse" =>
            /\ m.term <= currentTerm[m.to]
            /\ m.processed /\ m.success =>
                    m.peerNextIndex \in Nat /\ m.peerNextIndex <= log[m.from].nextIndex
    /\ m.type = "VoteRequest" => m.term <= currentTerm[m.from] + 1
    /\ m.type = "VoteResponse" => m.term <= currentTerm[m.to] + 1

RoleOK(p) ==
    /\ mode[p] = "leader" <=> leaderId[p] = p
    /\ mode[p] = "candidate" => electionTerm[p] = currentTerm[p] + 1

LogOK(p) == GapFree(log[p]) /\ TermsUpTo(log[p], currentTerm[p])

MembershipOK ==
    /\ \A p \in Peers : p \notin remotePeers[p]
    /\ \A p, q \in Peers : nextIndex[p][q] <= log[q].nextIndex

PeersOK ==
    /\ PeersTyped
    /\ \A p \in Peers : RoleOK(p) /\ LogOK(p)
    /\ MembershipOK

EngineInv == PeersOK /\ \A m \in msgs : MessageOK(m)

(* Terms, logs and commit indices only grow.                                *)
Grows ==
    \A p \in Peers : /\ currentTerm[p] <= currentTerm'[p]
                     /\ log[p].nextIndex <= log'[p].nextIndex
                     /\ log[p].commitIndex <= log'[p].commitIndex

(* A step that keeps the peers in order and sends no messages but ms.       *)
GoodStep(ms) ==
    /\ PeersOK' /\ Grows
    /\ msgs' \subseteq msgs \cup ms
    /\ \A m \in ms : MessageOK(m)'

-----------------------------------------------------------------------------
(* Messages.                                                                *)

(* Numbers that the types of a peer give.                                   *)
LEMMA PeerNumbers ==
    ASSUME PeersTyped, NEW p \in Peers
    PROVE  /\ currentTerm[p] \in Nat
           /\ log[p].nextIndex \in Nat
           /\ log[p].commitIndex \in Nat \cup {-1}
           /\ IsLog(log[p])
  BY DEF PeersTyped, IsLog

(* The fields of a message, by its type.                                    *)
LEMMA MessageFields ==
    ASSUME NEW m \in Messages
    PROVE  /\ m.from \in Peers /\ m.to \in Peers /\ m.term \in Nat
           /\ m.type = "AppendEntriesRequest" =>
                  /\ m.leaderCommit \in Int /\ m.leaderNextIndex \in Nat
                  /\ m.entries \in Seq(Values)
           /\ m.type = "AppendEntriesResponse" =>
                  m.success \in BOOLEAN /\ m.peerNextIndex \in Int /\ m.processed \in BOOLEAN
           /\ m.type = "VoteRequest" => m.lastLogIndex \in Int
           /\ m.type = "VoteResponse" => m.granted \in BOOLEAN
  BY DEF Messages, AppendRequests, AppendResponses, VoteRequests, VoteResponses

(* What was true of a message when it was sent stays true.                  *)
LEMMA OldMessageStaysOK ==
    ASSUME PeersTyped, PeersTyped', Grows, NEW m, MessageOK(m)
    PROVE  MessageOK(m)'
<1>1. m \in Messages
  BY DEF MessageOK
<1>2. m.from \in Peers /\ m.to \in Peers /\ m.term \in Nat
  BY <1>1, MessageFields
<1>3. /\ currentTerm[m.from] \in Nat /\ currentTerm[m.to] \in Nat
      /\ log[m.from].nextIndex \in Nat
  BY <1>2, PeerNumbers
<1>4. /\ currentTerm'[m.from] \in Nat /\ currentTerm'[m.to] \in Nat
      /\ log'[m.from].nextIndex \in Nat
  BY <1>2 DEF PeersTyped, IsLog
<1>5. /\ currentTerm[m.from] <= currentTerm'[m.from]
      /\ currentTerm[m.to] <= currentTerm'[m.to]
      /\ log[m.from].nextIndex <= log'[m.from].nextIndex
  BY <1>2 DEF Grows
<1>6. m.type = "AppendEntriesRequest" => m.term <= currentTerm'[m.from]
  BY <1>2, <1>3, <1>4, <1>5 DEF MessageOK
<1>7. m.type = "AppendEntriesResponse" => m.term <= currentTerm'[m.to]
  BY <1>2, <1>3, <1>4, <1>5 DEF MessageOK
<1>8. m.type = "AppendEntriesResponse" /\ m.processed /\ m.success =>
        m.peerNextIndex \in Nat /\ m.peerNextIndex <= log'[m.from].nextIndex
  BY <1>3, <1>4, <1>5 DEF MessageOK
<1>9. m.type = "VoteRequest" => m.term <= currentTerm'[m.from] + 1
  BY <1>2, <1>3, <1>4, <1>5 DEF MessageOK
<1>10. m.type = "VoteResponse" => m.term <= currentTerm'[m.to] + 1
  BY <1>2, <1>3, <1>4, <1>5 DEF MessageOK
<1>11. QED
  BY <1>6, <1>7, <1>8, <1>9, <1>10 DEF MessageOK

(* So a good step keeps the whole invariant.                                *)
LEMMA GoodStepKeepsInv ==
    ASSUME EngineInv, NEW ms, GoodStep(ms)
    PROVE  EngineInv'
<1>1. PeersTyped /\ PeersTyped' /\ Grows
  BY DEF EngineInv, PeersOK, GoodStep
<1>2. \A m \in msgs : MessageOK(m)'
  BY <1>1, OldMessageStaysOK DEF EngineInv
<1>3. \A m \in msgs' : MessageOK(m)'
  BY <1>2 DEF GoodStep
<1>4. QED
  BY <1>3 DEF EngineInv, GoodStep

LEMMA SendOK ==
    ASSUME NEW ms, Send(ms)
    PROVE  msgs' \subseteq msgs \cup ms
  BY DEF Send

LEMMA ReplyOK ==
    ASSUME NEW m, NEW ms, Reply(m, ms)
    PROVE  msgs' \subseteq msgs \cup ms
  BY DEF Reply, Send

-----------------------------------------------------------------------------
(* The changes that several handlers make.                                  *)

MembershipTyped ==
    remotePeers \in [Peers -> SUBSET Peers] /\ nextIndex \in [Peers -> [Peers -> Nat]]

MembershipShrinks ==
    /\ MembershipTyped'
    /\ \A p \in Peers : remotePeers'[p] \subseteq remotePeers[p]
    /\ \A p, q \in Peers : nextIndex'[p][q] <= nextIndex[p][q]

LEMMA RemovePeersOK ==
    ASSUME PeersTyped, NEW p \in Peers, NEW qs, RemovePeers(p, qs)
    PROVE  MembershipShrinks
<1> DEFINE row == [q \in Peers |-> IF q \in qs \cap remotePeers[p] THEN 0 ELSE nextIndex[p][q]]
<1>1. MembershipTyped
  BY DEF PeersTyped, MembershipTyped
<1>2. /\ remotePeers' = [remotePeers EXCEPT ![p] = remotePeers[p] \ qs]
      /\ nextIndex' = [nextIndex EXCEPT ![p] = row]
  BY DEF RemovePeers
<1>3. row \in [Peers -> Nat] /\ \A q \in Peers : row[q] <= nextIndex[p][q]
  BY <1>1 DEF MembershipTyped
<1> HIDE DEF row
<1>4. MembershipTyped'
  BY <1>1, <1>2, <1>3 DEF MembershipTyped
<1>5. \A a \in Peers : remotePeers'[a] \subseteq remotePeers[a]
  BY <1>1, <1>2 DEF MembershipTyped
<1>6. \A a, b \in Peers : nextIndex'[a][b] <= nextIndex[a][b]
  BY <1>1, <1>2, <1>3 DEF MembershipTyped
<1>7. QED
  BY <1>4, <1>5, <1>6 DEF MembershipShrinks

LEMMA MembershipUnchanged ==
    ASSUME PeersTyped, UNCHANGED membership
    PROVE  MembershipShrinks
  BY DEF PeersTyped, membership, MembershipShrinks, MembershipTyped

LEMMA SetLeaderOK ==
    ASSUME PeersTyped, NEW p \in Peers, NEW id \in Peers \cup {Nil}, SetLeader(p, id)
    PROVE  /\ leaderId' \in [Peers -> Peers \cup {Nil}]
           /\ leaderId'[p] = id
           /\ \A q \in Peers : q # p => leaderId'[q] = leaderId[q]
           /\ MembershipShrinks
<1>1. MembershipShrinks
  BY RemovePeersOK, MembershipUnchanged DEF SetLeader
<1>2. QED
  BY <1>1 DEF SetLeader, PeersTyped

(* What the state objects know of elections and of requests sent            *)
StateTyped ==
    /\ mode \in [Peers -> {"empty", "follower", "candidate", "leader"}]
    /\ electionTerm \in [Peers -> Nat]
    /\ votes \in [Peers -> SUBSET Peers]
    /\ notified \in [Peers -> SUBSET Peers]
    /\ started \in [Peers -> BOOLEAN]
    /\ sent \in [Peers -> SUBSET Peers]
    /\ unsynced \in [Peers -> SUBSET Peers]

LEMMA SetStateOK ==
    ASSUME PeersTyped, NEW p \in Peers,
           NEW name \in {"empty", "follower", "candidate", "leader"}, SetState(p, name)
    PROVE  /\ StateTyped'
           /\ mode'[p] = name
           /\ electionTerm'[p] = IF name = "candidate" THEN currentTerm[p] + 1 ELSE 0
           /\ \A q \in Peers : q # p => mode'[q] = mode[q] /\ electionTerm'[q] = electionTerm[q]
<1>1. currentTerm[p] + 1 \in Nat
  BY DEF PeersTyped
<1>2. /\ mode' \in [Peers -> {"empty", "follower", "candidate", "leader"}]
      /\ mode'[p] = name
      /\ \A q \in Peers : q # p => mode'[q] = mode[q]
  BY DEF SetState, PeersTyped
<1>3. /\ electionTerm' \in [Peers -> Nat]
      /\ electionTerm'[p] = IF name = "candidate" THEN currentTerm[p] + 1 ELSE 0
      /\ \A q \in Peers : q # p => electionTerm'[q] = electionTerm[q]
  BY <1>1 DEF SetState, PeersTyped
<1>4. votes' \in [Peers -> SUBSET Peers] /\ notified' \in [Peers -> SUBSET Peers]
  BY DEF SetState, PeersTyped
<1>5. /\ started' \in [Peers -> BOOLEAN]
      /\ sent' \in [Peers -> SUBSET Peers] /\ unsynced' \in [Peers -> SUBSET Peers]
  BY DEF SetState, PeersTyped
<1>6. QED
  BY <1>2, <1>3, <1>4, <1>5 DEF StateTyped

(* Committing what a log without gap holds                                  *)
LEMMA CommitAndEmitOK ==
    ASSUME PeersTyped, NEW p \in Peers, NEW l, IsLog(l), GapFree(l), NEW index \in Int,
           CommitAndEmit(p, l, index), NEW t \in Nat, TermsUpTo(l, t)
    PROVE  /\ DOMAIN log' = Peers /\ DOMAIN applied' = Peers
           /\ IsLog(log'[p]) /\ GapFree(log'[p]) /\ TermsUpTo(log'[p], t)
           /\ log'[p].nextIndex = l.nextIndex
           /\ l.commitIndex <= log'[p].commitIndex
           /\ log'[p].commitIndex = l.commitIndex \/ log'[p].commitIndex <= index
           /\ \A q \in Peers : q # p => log'[q] = log[q]
<1> DEFINE m == CommitUntil(l, index, now)
<1>1. now \in Nat /\ DOMAIN log = Peers /\ DOMAIN applied = Peers
  BY DEF PeersTyped
<1>2. /\ IsLog(m) /\ GapFree(m)
      /\ m.nextIndex = l.nextIndex
      /\ l.commitIndex <= m.commitIndex
      /\ m.commitIndex = l.commitIndex \/ m.commitIndex <= index
      /\ TermsUpTo(m, t)
  BY <1>1, CommitUntilOK
<1>3. log' = [log EXCEPT ![p] = m] /\ DOMAIN applied' = Peers
  BY <1>1 DEF CommitAndEmit
<1> HIDE DEF m
<1>4. /\ DOMAIN log' = Peers /\ log'[p] = m
      /\ \A q \in Peers : q # p => log'[q] = log[q]
  BY <1>1, <1>3
<1>5. QED
  BY <1>2, <1>3, <1>4

-----------------------------------------------------------------------------
(* Steps that touch neither terms nor logs.                                 *)

QuietTyped ==
    /\ StateTyped
    /\ votedFor \in [Peers -> Peers \cup {Nil}]
    /\ leaderId \in [Peers -> Peers \cup {Nil}]
    /\ MembershipTyped
    /\ now \in Nat

LEMMA TypesSplit ==
    PeersTyped <=> /\ QuietTyped
                   /\ currentTerm \in [Peers -> Nat]
                   /\ DOMAIN log = Peers /\ \A p \in Peers : IsLog(log[p])
                   /\ DOMAIN applied = Peers
  BY DEF PeersTyped, QuietTyped, StateTyped, MembershipTyped

LEMMA QuietStep ==
    ASSUME EngineInv, UNCHANGED <<currentTerm, log, applied>>, QuietTyped',
           \A p \in Peers : RoleOK(p)',
           \A p \in Peers : p \notin remotePeers'[p],
           \A p, q \in Peers : nextIndex'[p][q] <= nextIndex[p][q]
    PROVE  PeersOK' /\ Grows
<1>1. PeersTyped
  BY DEF EngineInv, PeersOK
<1>2. PeersTyped'
  BY <1>1, TypesSplit DEF PeersTyped, QuietTyped, StateTyped, MembershipTyped
<1>3. \A p \in Peers : LogOK(p)'
  BY DEF EngineInv, PeersOK, LogOK
<1>4. MembershipOK'
  <2>1. ASSUME NEW p \in Peers, NEW q \in Peers
        PROVE  nextIndex'[p][q] <= log'[q].nextIndex
    <3>1. /\ nextIndex[p][q] \in Nat /\ nextIndex'[p][q] \in Nat
          /\ log[q].nextIndex \in Nat /\ log'[q] = log[q]
      BY <1>1, <1>2, PeerNumbers DEF PeersTyped
    <3>2. nextIndex[p][q] <= log[q].nextIndex /\ nextIndex'[p][q] <= nextIndex[p][q]
      BY DEF EngineInv, PeersOK, MembershipOK
    <3>3. QED
      BY <3>1, <3>2
  <2>2. QED
    BY <2>1 DEF MembershipOK
<1>5. Grows
  <2>1. \A p \in Peers : /\ currentTerm[p] \in Nat /\ log[p].nextIndex \in Nat
                         /\ log[p].commitIndex \in Int
    BY <1>1, PeerNumbers
  <2>2. QED
    BY <2>1 DEF Grows
<1>6. QED
  BY <1>2, <1>3, <1>4, <1>5 DEF PeersOK

(* The same when the membership shrinks or stays.                           *)
LEMMA QuietShrinkingStep ==
    ASSUME EngineInv, UNCHANGED <<currentTerm, log, applied, now>>, StateTyped',
           votedFor' \in [Peers -> Peers \cup {Nil}],
           leaderId' \in [Peers -> Peers \cup {Nil}],
           \A p \in Peers : RoleOK(p)', MembershipShrinks
    PROVE  PeersOK' /\ Grows
<1>1. QuietTyped'
  BY DEF EngineInv, PeersOK, PeersTyped, QuietTyped, MembershipShrinks
<1>2. \A p \in Peers : p \notin remotePeers'[p]
  BY DEF EngineInv, PeersOK, MembershipOK, MembershipShrinks
<1>3. \A p, q \in Peers : nextIndex'[p][q] <= nextIndex[p][q]
  BY DEF MembershipShrinks
<1>4. QED
  BY <1>1, <1>2, <1>3, QuietStep

(* A step of p leaves the roles of the others alone.                        *)
LEMMA OtherRoles ==
    ASSUME EngineInv, UNCHANGED currentTerm, NEW p \in Peers, RoleOK(p)',
           \A q \in Peers : q # p => /\ mode'[q] = mode[q]
                                     /\ leaderId'[q] = leaderId[q]
                                     /\ electionTerm'[q] = electionTerm[q]
    PROVE  \A q \in Peers : RoleOK(q)'
<1>1. TAKE q \in Peers
<1>2. CASE q = p
  BY <1>2
<1>3. CASE q # p
  <2>1. RoleOK(q)
    BY DEF EngineInv, PeersOK
  <2>2. QED
    BY <1>3, <2>1 DEF RoleOK
<1>4. QED
  BY <1>2, <1>3

-----------------------------------------------------------------------------
(* The steps one by one: joining, leaving and membership.                   *)

LEMMA StartOK ==
    ASSUME EngineInv, NEW p \in Peers, Start(p)
    PROVE  GoodStep({})
<1>1. PeersTyped /\ RoleOK(p)
  BY DEF EngineInv, PeersOK
<1>2. /\ StateTyped' /\ mode'[p] = "follower"
      /\ \A q \in Peers : q # p => mode'[q] = mode[q] /\ electionTerm'[q] = electionTerm[q]
  BY <1>1, SetStateOK DEF Start
<1>3. \A q \in Peers : RoleOK(q)'
  <2>1. RoleOK(p)'
    BY <1>1, <1>2 DEF Start, RoleOK
  <2>2. QED
    BY <1>2, <2>1, OtherRoles DEF Start
<1>4. MembershipShrinks
  BY <1>1, MembershipUnchanged DEF Start
<1>5. PeersOK' /\ Grows
  BY <1>1, <1>2, <1>3, <1>4, QuietShrinkingStep DEF Start, PeersTyped
<1>6. QED
  BY <1>5 DEF GoodStep, Start

LEMMA LeaveOK ==
    ASSUME EngineInv, NEW p \in Peers, Leave(p)
    PROVE  GoodStep({})
<1>1. PeersTyped
  BY DEF EngineInv, PeersOK
<1>2. /\ StateTyped' /\ mode'[p] = "empty"
      /\ \A q \in Peers : q # p => mode'[q] = mode[q] /\ electionTerm'[q] = electionTerm[q]
  BY <1>1, SetStateOK DEF Leave
<1>3. /\ leaderId' \in [Peers -> Peers \cup {Nil}] /\ leaderId'[p] = Nil
      /\ \A q \in Peers : q # p => leaderId'[q] = leaderId[q]
  BY <1>1 DEF Leave, PeersTyped
<1>4. \A q \in Peers : RoleOK(q)'
  <2>1. RoleOK(p)'
    BY <1>2, <1>3, PeersAssumption DEF RoleOK
  <2>2. QED
    BY <1>2, <1>3, <2>1, OtherRoles DEF Leave
<1>5. MembershipShrinks
  BY <1>1, RemovePeersOK DEF Leave
<1>6. PeersOK' /\ Grows
  BY <1>1, <1>2, <1>3, <1>4, <1>5, QuietShrinkingStep DEF Leave, PeersTyped
<1>7. QED
  BY <1>6 DEF GoodStep, Leave

(* Steps that change nothing but messages and what a state object knows     *)
LEMMA UnnoticedStep ==
    ASSUME EngineInv, StateTyped', votedFor' \in [Peers -> Peers \cup {Nil}],
           UNCHANGED <<mode, electionTerm, currentTerm, leaderId, log, applied, now>>,
           MembershipShrinks
    PROVE  PeersOK' /\ Grows
<1>1. \A q \in Peers : RoleOK(q)'
  BY DEF EngineInv, PeersOK, RoleOK
<1>2. QED
  BY <1>1, QuietShrinkingStep DEF EngineInv, PeersOK, PeersTyped

LEMMA addRemotePeerIdOK ==
    ASSUME EngineInv, NEW p \in Peers, NEW q \in Peers, addRemotePeerId(p, q)
    PROVE  GoodStep({})
<1>1. PeersTyped
  BY DEF EngineInv, PeersOK
<1>2. remotePeers' \in [Peers -> SUBSET Peers] /\ \A r \in Peers : r \notin remotePeers'[r]
  BY <1>1 DEF addRemotePeerId, PeersTyped, EngineInv, PeersOK, MembershipOK
<1>3. QuietTyped'
  BY <1>1, <1>2 DEF addRemotePeerId, PeersTyped, QuietTyped, StateTyped, MembershipTyped,
                    elections, tracking
<1>4. \A r \in Peers : RoleOK(r)'
  BY DEF addRemotePeerId, EngineInv, PeersOK, RoleOK, elections
<1>5. \A a, b \in Peers : nextIndex'[a][b] <= nextIndex[a][b]
  BY <1>1 DEF addRemotePeerId, PeersTyped
<1>6. PeersOK' /\ Grows
  BY <1>2, <1>3, <1>4, <1>5, QuietStep DEF addRemotePeerId
<1>7. QED
  BY <1>6 DEF GoodStep, addRemotePeerId

LEMMA removeRemotePeerIdOK ==
    ASSUME EngineInv, NEW p \in Peers, NEW q \in Peers, removeRemotePeerId(p, q)
    PROVE  GoodStep({})
<1>1. PeersTyped
  BY DEF EngineInv, PeersOK
<1>2. MembershipShrinks
  BY <1>1, RemovePeersOK DEF removeRemotePeerId
<1>3. PeersOK' /\ Grows
  BY <1>1, <1>2, UnnoticedStep
     DEF removeRemotePeerId, PeersTyped, StateTyped, elections, tracking
<1>4. QED
  BY <1>3 DEF GoodStep, removeRemotePeerId

-----------------------------------------------------------------------------
(* Followers.                                                               *)

LEMMA FollowerTimeoutOK ==
    ASSUME EngineInv, NEW p \in Peers, FollowerTimeout(p)
    PROVE  GoodStep({})
<1>1. PeersTyped /\ RoleOK(p) /\ mode[p] = "follower"
  BY DEF EngineInv, PeersOK, FollowerTimeout
<1>2. /\ leaderId' \in [Peers -> Peers \cup {Nil}] /\ leaderId'[p] = Nil
      /\ \A q \in Peers : q # p => leaderId'[q] = leaderId[q]
      /\ MembershipShrinks
  BY <1>1, SetLeaderOK DEF FollowerTimeout
<1>3. votedFor' \in [Peers -> Peers \cup {Nil}]
  BY <1>1 DEF FollowerTimeout, PeersTyped
<1>4. /\ StateTyped'
      /\ \/ mode'[p] = "follower"
         \/ mode'[p] = "candidate" /\ electionTerm'[p] = currentTerm[p] + 1
      /\ \A q \in Peers : q # p => mode'[q] = mode[q] /\ electionTerm'[q] = electionTerm[q]
  <2>1. CASE UNCHANGED <<mode, elections, tracking>>
    BY <1>1, <2>1 DEF PeersTyped, StateTyped, elections, tracking
  <2>2. CASE SetState(p, "candidate")
    BY <1>1, <2>2, SetStateOK
  <2>3. QED
    BY <2>1, <2>2 DEF FollowerTimeout
<1>5. \A q \in Peers : RoleOK(q)'
  <2>1. RoleOK(p)'
    BY <1>2, <1>4, PeersAssumption DEF FollowerTimeout, RoleOK
  <2>2. QED
    BY <1>2, <1>4, <2>1, OtherRoles DEF FollowerTimeout
<1>6. PeersOK' /\ Grows
  BY <1>2, <1>3, <1>4, <1>5, QuietShrinkingStep DEF FollowerTimeout
<1>7. QED
  BY <1>6 DEF GoodStep, FollowerTimeout

(* An answer to an append request                                           *)
LEMMA AppendResponseOK ==
    ASSUME EngineInv, Grows, PeersTyped', NEW m \in msgs, m.type = "AppendEntriesRequest",
           NEW success \in BOOLEAN, NEW processed \in BOOLEAN, NEW n \in Nat \cup {-1},
           success /\ processed => n \in Nat /\ n <= log'[m.to].nextIndex
    PROVE  MessageOK(AppendResponse(m, success, n, processed))'
<1> DEFINE r == AppendResponse(m, success, n, processed)
<1>1. MessageOK(m) /\ PeersTyped
  BY DEF EngineInv, PeersOK
<1>2. m.from \in Peers /\ m.to \in Peers /\ m.from # m.to /\ m.term \in Nat
  BY <1>1, MessageFields DEF MessageOK
<1>3. m.term <= currentTerm'[m.from]
  <2>1. m.term <= currentTerm[m.from] /\ currentTerm[m.from] <= currentTerm'[m.from]
    BY <1>1, <1>2 DEF MessageOK, Grows
  <2>2. currentTerm[m.from] \in Nat /\ currentTerm'[m.from] \in Nat
    BY <1>1, <1>2 DEF PeersTyped
  <2>3. QED
    BY <1>2, <2>1, <2>2
<1>4. /\ r.type = "AppendEntriesResponse" /\ r.from = m.to /\ r.to = m.from
      /\ r.term = m.term /\ r.success = success /\ r.peerNextIndex = n
      /\ r.processed = processed
  BY DEF AppendResponse
<1>5. r \in Messages
  BY <1>2 DEF AppendResponse, AppendResponses, Messages
<1> HIDE DEF r
<1>6. MessageOK(r)'
  BY <1>2, <1>3, <1>4, <1>5 DEF MessageOK
<1>7. QED
  BY <1>6 DEF r

LEMMA FollowerRejectsAppendOK ==
    ASSUME EngineInv, NEW m \in msgs, m.type = "AppendEntriesRequest",
           FollowerRejectsAppend(m.to, m)
    PROVE  GoodStep({AppendResponse(m, FALSE, -1, FALSE)})
<1>1. PeersTyped
  BY DEF EngineInv, PeersOK
<1>2. PeersOK' /\ Grows
  BY <1>1, MembershipUnchanged, UnnoticedStep
     DEF FollowerRejectsAppend, PeersTyped, StateTyped, elections, tracking
<1>3. MessageOK(AppendResponse(m, FALSE, -1, FALSE))'
  BY <1>2, AppendResponseOK DEF PeersOK
<1>4. QED
  BY <1>2, <1>3, ReplyOK DEF GoodStep, FollowerRejectsAppend

(* An answer to a vote request                                              *)
LEMMA VoteResponseOK ==
    ASSUME EngineInv, UNCHANGED currentTerm, NEW m \in msgs, m.type = "VoteRequest",
           NEW granted \in BOOLEAN
    PROVE  MessageOK(VoteResponse(m, granted))'
<1> DEFINE r == VoteResponse(m, granted)
<1>1. MessageOK(m)
  BY DEF EngineInv
<1>2. m.from \in Peers /\ m.to \in Peers /\ m.from # m.to /\ m.term \in Nat
  BY <1>1, MessageFields DEF MessageOK
<1>3. m.term <= currentTerm'[m.from] + 1
  BY <1>1 DEF MessageOK
<1>4. /\ r.type = "VoteResponse" /\ r.from = m.to /\ r.to = m.from
      /\ r.term = m.term /\ r \in Messages
  BY <1>2 DEF VoteResponse, VoteResponses, Messages
<1> HIDE DEF r
<1>5. MessageOK(r)'
  BY <1>2, <1>3, <1>4 DEF MessageOK
<1>6. QED
  BY <1>5 DEF r

LEMMA FollowerDeniesVoteOK ==
    ASSUME EngineInv, NEW m \in msgs, m.type = "VoteRequest", FollowerDeniesVote(m.to, m)
    PROVE  \E ms : GoodStep(ms)
<1>1. PeersTyped
  BY DEF EngineInv, PeersOK
<1>2. PeersOK' /\ Grows
  BY <1>1, MembershipUnchanged, UnnoticedStep
     DEF FollowerDeniesVote, PeersTyped, StateTyped, elections, tracking
<1>3. MessageOK(VoteResponse(m, FALSE))'
  BY VoteResponseOK DEF FollowerDeniesVote
<1>4. GoodStep({VoteResponse(m, FALSE)})
  BY <1>2, <1>3, ReplyOK DEF GoodStep, FollowerDeniesVote
<1>5. QED
  BY <1>4

LEMMA FollowerGrantsVoteOK ==
    ASSUME EngineInv, NEW m \in msgs, m.type = "VoteRequest", FollowerGrantsVote(m.to, m)
    PROVE  \E ms : GoodStep(ms)
<1>1. PeersTyped
  BY DEF EngineInv, PeersOK
<1>2. m.from \in Peers
  BY MessageFields DEF EngineInv, MessageOK
<1>3. PeersOK' /\ Grows
  BY <1>1, <1>2, MembershipUnchanged, UnnoticedStep
     DEF FollowerGrantsVote, PeersTyped, StateTyped, elections, tracking
<1>4. MessageOK(VoteResponse(m, TRUE))'
  BY VoteResponseOK DEF FollowerGrantsVote
<1>5. GoodStep({VoteResponse(m, TRUE)})
  BY <1>3, <1>4, ReplyOK DEF GoodStep, FollowerGrantsVote
<1>6. QED
  BY <1>5

-----------------------------------------------------------------------------
(* Candidates.                                                              *)

(* A step that changes the state object of p to a follower's                *)
LEMMA ToFollowerOK ==
    ASSUME EngineInv, NEW p \in Peers, SetState(p, "follower"), mode[p] # "leader",
           UNCHANGED <<leaderId, membership, currentTerm, votedFor, log, applied, now>>
    PROVE  PeersOK' /\ Grows
<1>1. PeersTyped /\ RoleOK(p)
  BY DEF EngineInv, PeersOK
<1>2. /\ StateTyped' /\ mode'[p] = "follower"
      /\ \A q \in Peers : q # p => mode'[q] = mode[q] /\ electionTerm'[q] = electionTerm[q]
  BY <1>1, SetStateOK
<1>3. \A q \in Peers : RoleOK(q)'
  <2>1. RoleOK(p)'
    BY <1>1, <1>2 DEF RoleOK
  <2>2. QED
    BY <1>2, <2>1, OtherRoles
<1>4. MembershipShrinks
  BY <1>1, MembershipUnchanged
<1>5. QED
  BY <1>1, <1>2, <1>3, <1>4, QuietShrinkingStep DEF PeersTyped

LEMMA VoteRequestOK ==
    ASSUME EngineInv, NEW p \in Peers, mode[p] = "candidate", NEW q \in remotePeers[p],
           UNCHANGED currentTerm, NEW r, r = VoteRequest(p, q)
    PROVE  MessageOK(r)'
<1>1. /\ p # q /\ q \in Peers
      /\ electionTerm[p] \in Nat /\ electionTerm[p] = currentTerm[p] + 1
  BY DEF EngineInv, PeersOK, MembershipOK, PeersTyped, RoleOK
<1>2. log[p].nextIndex - 1 \in Nat \cup {-1}
  <2>1. log[p].nextIndex \in Nat
    BY PeerNumbers DEF EngineInv, PeersOK
  <2>2. QED
    BY <2>1
<1>3. /\ r.type = "VoteRequest" /\ r.from = p /\ r.to = q
      /\ r.term = currentTerm[p] + 1 /\ r \in Messages
  BY <1>1, <1>2 DEF VoteRequest, VoteRequests, Messages
<1>4. r.term <= currentTerm'[r.from] + 1
  BY <1>1, <1>3 DEF EngineInv, PeersOK, PeersTyped
<1>5. QED
  BY <1>1, <1>3, <1>4 DEF MessageOK

LEMMA CandidateRunOK ==
    ASSUME EngineInv, NEW p \in Peers, CandidateRun(p)
    PROVE  \E ms : GoodStep(ms)
<1> DEFINE ms == {VoteRequest(p, q) : q \in remotePeers[p] \ notified[p]}
<1>1. PeersTyped
  BY DEF EngineInv, PeersOK
<1>2. PeersOK' /\ Grows
  <2>1. CASE SetState(p, "follower")
    BY <2>1, ToFollowerOK DEF CandidateRun
  <2>2. CASE /\ notified' = [notified EXCEPT ![p] = @ \cup remotePeers[p]]
             /\ started' = [started EXCEPT ![p] = TRUE]
             /\ UNCHANGED <<mode, electionTerm, votes, tracking>>
    <3>1. notified' \in [Peers -> SUBSET Peers] /\ started' \in [Peers -> BOOLEAN]
      BY <1>1, <2>2 DEF PeersTyped
    <3>2. StateTyped'
      BY <1>1, <2>2, <3>1 DEF PeersTyped, StateTyped, tracking
    <3>3. QED
      BY <1>1, <2>2, <3>2, MembershipUnchanged, UnnoticedStep DEF CandidateRun, PeersTyped
  <2>3. QED
    BY <2>1, <2>2 DEF CandidateRun
<1>3. \A r \in ms : MessageOK(r)'
  BY VoteRequestOK DEF CandidateRun
<1>4. msgs' \subseteq msgs \cup ms
  BY SendOK DEF CandidateRun
<1> HIDE DEF ms
<1>5. GoodStep(ms)
  BY <1>2, <1>3, <1>4 DEF GoodStep
<1>6. QED
  BY <1>5

LEMMA CandidateFollowsOK ==
    ASSUME EngineInv, NEW p \in Peers, NEW m \in msgs, CandidateFollows(p, m)
    PROVE  GoodStep({})
<1>1. PeersOK' /\ Grows
  BY ToFollowerOK DEF CandidateFollows
<1>2. QED
  BY <1>1, ReplyOK DEF GoodStep, CandidateFollows

-----------------------------------------------------------------------------
(* Steps in which the term or the log of one peer grows.                    *)

MembershipKept ==
    /\ \A p \in Peers : p \notin remotePeers'[p]
    /\ \A p, q \in Peers : nextIndex'[p][q] <= log[q].nextIndex

LEMMA ShrinkingMembershipKept ==
    ASSUME EngineInv, MembershipShrinks
    PROVE  MembershipKept
<1>1. \A p \in Peers : p \notin remotePeers'[p]
  BY DEF EngineInv, PeersOK, MembershipOK, MembershipShrinks
<1>2. ASSUME NEW p \in Peers, NEW q \in Peers
      PROVE  nextIndex'[p][q] <= log[q].nextIndex
  <2>1. nextIndex[p][q] \in Nat /\ nextIndex'[p][q] \in Nat /\ log[q].nextIndex \in Nat
    BY PeerNumbers DEF EngineInv, PeersOK, PeersTyped, MembershipShrinks, MembershipTyped
  <2>2. nextIndex[p][q] <= log[q].nextIndex /\ nextIndex'[p][q] <= nextIndex[p][q]
    BY DEF EngineInv, PeersOK, MembershipOK, MembershipShrinks
  <2>3. QED
    BY <2>1, <2>2
<1>3. QED
  BY <1>1, <1>2 DEF MembershipKept

LEMMA OnePeerStep ==
    ASSUME EngineInv, PeersTyped', MembershipKept, NEW p \in Peers, RoleOK(p)', LogOK(p)',
           currentTerm[p] <= currentTerm'[p],
           log[p].nextIndex <= log'[p].nextIndex,
           log[p].commitIndex <= log'[p].commitIndex,
           \A q \in Peers : q # p =>
                /\ currentTerm'[q] = currentTerm[q] /\ log'[q] = log[q]
                /\ mode'[q] = mode[q] /\ leaderId'[q] = leaderId[q]
                /\ electionTerm'[q] = electionTerm[q]
    PROVE  PeersOK' /\ Grows
<1>1. PeersTyped /\ \A q \in Peers : RoleOK(q) /\ LogOK(q)
  BY DEF EngineInv, PeersOK
<1>2. \A q \in Peers : RoleOK(q)' /\ LogOK(q)'
  <2>1. ASSUME NEW q \in Peers, q # p
        PROVE  RoleOK(q)' /\ LogOK(q)'
    BY <1>1, <2>1 DEF RoleOK, LogOK
  <2>2. QED
    BY <2>1
<1>3. Grows
  <2>1. ASSUME NEW q \in Peers, q # p
        PROVE  /\ currentTerm[q] <= currentTerm'[q]
               /\ log[q].nextIndex <= log'[q].nextIndex
               /\ log[q].commitIndex <= log'[q].commitIndex
    <3>1. /\ currentTerm[q] \in Nat /\ log[q].nextIndex \in Nat
          /\ log[q].commitIndex \in Int
      BY <1>1, PeerNumbers
    <3>2. QED
      BY <2>1, <3>1
  <2>2. QED
    BY <2>1 DEF Grows
<1>4. MembershipOK'
  <2>1. ASSUME NEW a \in Peers, NEW b \in Peers
        PROVE  nextIndex'[a][b] <= log'[b].nextIndex
    <3>1. nextIndex'[a][b] <= log[b].nextIndex /\ log[b].nextIndex <= log'[b].nextIndex
      BY <1>3 DEF MembershipKept, Grows
    <3>2. nextIndex'[a][b] \in Nat /\ log[b].nextIndex \in Nat
      BY <1>1, PeerNumbers DEF PeersTyped
    <3>3. log'[b].nextIndex \in Nat
      BY DEF PeersTyped, IsLog
    <3>4. QED
      BY <3>1, <3>2, <3>3
  <2>2. QED
    BY <2>1 DEF MembershipOK, MembershipKept
<1>5. QED
  BY <1>2, <1>3, <1>4 DEF PeersOK

LEMMA CandidateCountsOK ==
    ASSUME EngineInv, NEW p \in Peers, NEW m \in msgs, CandidateCounts(p, m)
    PROVE  GoodStep({})
<1>1. PeersTyped /\ RoleOK(p) /\ LogOK(p) /\ mode[p] = "candidate"
  BY DEF EngineInv, PeersOK, CandidateCounts
<1>2. m.from \in Peers
  BY MessageFields DEF EngineInv, MessageOK
<1>3. PeersOK' /\ Grows
  <2>1. CASE Lead(p)
    <3>1. electionTerm[p] = currentTerm[p] + 1
      BY <1>1 DEF RoleOK
    <3>2. /\ SetState(p, "leader") /\ SetLeader(p, p)
          /\ currentTerm' = [currentTerm EXCEPT ![p] = electionTerm[p]]
          /\ UNCHANGED <<votedFor, log, applied, now>>
      BY <2>1, <3>1 DEF Lead, CandidateCounts
    <3>3. /\ StateTyped' /\ mode'[p] = "leader"
          /\ \A q \in Peers : q # p => mode'[q] = mode[q] /\ electionTerm'[q] = electionTerm[q]
      BY <1>1, <3>2, SetStateOK
    <3>4. /\ leaderId' \in [Peers -> Peers \cup {Nil}] /\ leaderId'[p] = p
          /\ \A q \in Peers : q # p => leaderId'[q] = leaderId[q]
          /\ MembershipShrinks
      BY <1>1, <3>2, SetLeaderOK
    <3>5. /\ currentTerm' \in [Peers -> Nat] /\ currentTerm'[p] = currentTerm[p] + 1
          /\ \A q \in Peers : q # p => currentTerm'[q] = currentTerm[q]
      BY <1>1, <3>1, <3>2 DEF PeersTyped
    <3>6. PeersTyped'
      BY <1>1, <3>2, <3>3, <3>4, <3>5
         DEF PeersTyped, StateTyped, MembershipShrinks, MembershipTyped
    <3>7. RoleOK(p)'
      BY <3>3, <3>4 DEF RoleOK
    <3>8. LogOK(p)'
      <4>1. TermsUpTo(log[p], currentTerm'[p])
        BY <1>1, <3>5, PeerNumbers, TermsUpToRaised DEF LogOK
      <4>2. QED
        BY <1>1, <3>2, <4>1 DEF LogOK
    <3>9. /\ currentTerm[p] <= currentTerm'[p]
          /\ log[p].nextIndex <= log'[p].nextIndex
          /\ log[p].commitIndex <= log'[p].commitIndex
      <4>1. /\ currentTerm[p] \in Nat /\ log[p].nextIndex \in Nat
            /\ log[p].commitIndex \in Int
        BY <1>1, PeerNumbers
      <4>2. QED
        BY <3>2, <3>5, <4>1
    <3>10. QED
      BY <3>2, <3>3, <3>4, <3>5, <3>6, <3>7, <3>8, <3>9,
         ShrinkingMembershipKept, OnePeerStep
  <2>2. CASE ~Lead(p)
    <3>1. /\ votes' \in [Peers -> SUBSET Peers]
          /\ UNCHANGED <<mode, currentTerm, leaderId, membership, electionTerm,
                         notified, started, tracking>>
      BY <1>1, <1>2, <2>2 DEF CandidateCounts, PeersTyped
    <3>2. StateTyped'
      BY <1>1, <3>1 DEF PeersTyped, StateTyped, tracking
    <3>3. QED
      BY <1>1, <3>1, <3>2, MembershipUnchanged, UnnoticedStep DEF CandidateCounts, PeersTyped
  <2>3. QED
    BY <2>1, <2>2
<1>4. QED
  BY <1>3, ReplyOK DEF GoodStep, CandidateCounts

-----------------------------------------------------------------------------
(* Leaders.                                                                 *)

LEMMA StepDownOK ==
    ASSUME EngineInv, NEW p \in Peers, StepDown(p)
    PROVE  PeersOK' /\ Grows
<1>1. PeersTyped
  BY DEF EngineInv, PeersOK
<1>2. /\ StateTyped' /\ mode'[p] = "follower"
      /\ \A q \in Peers : q # p => mode'[q] = mode[q] /\ electionTerm'[q] = electionTerm[q]
  BY <1>1, SetStateOK DEF StepDown
<1>3. /\ leaderId' \in [Peers -> Peers \cup {Nil}] /\ leaderId'[p] = Nil
      /\ \A q \in Peers : q # p => leaderId'[q] = leaderId[q]
      /\ MembershipShrinks
  BY <1>1, SetLeaderOK DEF StepDown
<1>4. \A q \in Peers : RoleOK(q)'
  <2>1. RoleOK(p)'
    BY <1>2, <1>3, PeersAssumption DEF RoleOK
  <2>2. QED
    BY <1>2, <1>3, <2>1, OtherRoles DEF StepDown
<1>5. QED
  BY <1>1, <1>2, <1>3, <1>4, QuietShrinkingStep DEF StepDown, PeersTyped

LEMMA LeaderAloneOK ==
    ASSUME EngineInv, NEW p \in Peers, LeaderAlone(p)
    PROVE  GoodStep({})
  BY StepDownOK DEF GoodStep, LeaderAlone

LEMMA LeaderFollowsOK ==
    ASSUME EngineInv, NEW p \in Peers, NEW m \in msgs, LeaderFollows(p, m)
    PROVE  GoodStep({})
  BY StepDownOK, ReplyOK DEF GoodStep, LeaderFollows

LEMMA DeposedOK ==
    ASSUME EngineInv, NEW p \in Peers, NEW m \in msgs, Deposed(p, m)
    PROVE  GoodStep({})
<1>1. PeersOK' /\ Grows
  BY StepDownOK, ToFollowerOK DEF Deposed
<1>2. QED
  BY <1>1, ReplyOK DEF GoodStep, Deposed

LEMMA AppendRequestOK ==
    ASSUME EngineInv, UNCHANGED currentTerm, NEW p \in Peers, NEW q \in remotePeers[p],
           NEW es \in Seq(Values), Len(es) <= log[p].nextIndex,
           NEW r, r = AppendRequest(p, q, es)
    PROVE  MessageOK(r)'
<1>1. p # q /\ q \in Peers /\ currentTerm[p] \in Nat
  BY DEF EngineInv, PeersOK, MembershipOK, PeersTyped
<1>2. log[p].nextIndex \in Nat /\ log[p].commitIndex \in Nat \cup {-1}
  BY PeerNumbers DEF EngineInv, PeersOK
<1>3. /\ r.type = "AppendEntriesRequest" /\ r.from = p /\ r.to = q
      /\ r.term = currentTerm[p] /\ r.entries = es /\ r.leaderNextIndex = log[p].nextIndex
  BY DEF AppendRequest
<1>4. r \in Messages
  BY <1>1, <1>2 DEF AppendRequest, AppendRequests, Messages
<1>5. QED
  BY <1>1, <1>3, <1>4 DEF MessageOK

LEMMA LeaderRunOK ==
    ASSUME EngineInv, NEW p \in Peers, NEW expired, LeaderRun(p, expired)
    PROVE  \E ms : GoodStep(ms)
<1> DEFINE behind == {q \in remotePeers[p] : nextIndex[p][q] < log[p].firstIndex}
           free == {q \in remotePeers[p] \ (sent[p] \ expired) :
                        Collected(log[p], nextIndex[p][q]) # {}}
           entries(q) == IF q \in free THEN CollectEntries(log[p], nextIndex[p][q]) ELSE <<>>
           ms == {AppendRequest(p, q, entries(q)) : q \in remotePeers[p]}
<1>1. PeersTyped /\ behind \subseteq Peers /\ free \subseteq Peers
  BY DEF EngineInv, PeersOK, PeersTyped
<1>2. /\ msgs' \subseteq msgs \cup ms
      /\ UNCHANGED <<mode, currentTerm, votedFor, leaderId, log, elections, applied, now>>
  BY SendOK DEF LeaderRun
<1>3. sent' \in [Peers -> SUBSET Peers]
  <2>1. sent' = [sent EXCEPT ![p] = (sent[p] \ expired) \cup free]
    BY DEF LeaderRun
  <2> HIDE DEF free
  <2>2. QED
    BY <1>1, <2>1 DEF PeersTyped
<1>4. PICK kicked \in SUBSET (behind \cap unsynced[p]) :
              /\ unsynced' = [unsynced EXCEPT
                      ![p] = ((@ \ remotePeers[p]) \cup behind) \ kicked]
              /\ RemovePeers(p, kicked)
  BY DEF LeaderRun
<1>5. unsynced' \in [Peers -> SUBSET Peers]
  <2> HIDE DEF behind
  <2>1. QED
    BY <1>1, <1>4 DEF PeersTyped
<1>6. MembershipShrinks
  BY <1>1, <1>4, RemovePeersOK
<1>7. \A r \in ms : MessageOK(r)'
  <2>1. ASSUME NEW q \in remotePeers[p]
        PROVE  entries(q) \in Seq(Values) /\ Len(entries(q)) <= log[p].nextIndex
    <3>1. IsLog(log[p]) /\ log[p].nextIndex \in Nat /\ nextIndex[p][q] \in Nat
      BY <1>1, PeerNumbers DEF PeersTyped
    <3>2. CASE q \in free
      BY <3>1, <3>2, CollectEntriesOK
    <3>3. CASE q \notin free
      <4>1. entries(q) = <<>>
        BY <3>3
      <4> HIDE DEF entries
      <4>2. <<>> \in Seq(Values) /\ Len(<<>>) = 0
        OBVIOUS
      <4>3. QED
        BY <3>1, <4>1, <4>2
    <3>4. QED
      BY <3>2, <3>3
  <2> HIDE DEF free
  <2>2. ASSUME NEW q \in remotePeers[p], NEW r, r = AppendRequest(p, q, entries(q))
        PROVE  MessageOK(r)'
    <3> DEFINE es == entries(q)
    <3>1. es \in Seq(Values) /\ Len(es) <= log[p].nextIndex /\ r = AppendRequest(p, q, es)
      BY <2>1, <2>2
    <3> HIDE DEF es
    <3>2. QED
      BY <1>2, <3>1, AppendRequestOK
  <2>3. QED
    BY <2>2
<1>8. StateTyped'
  BY <1>1, <1>2, <1>3, <1>5 DEF PeersTyped, StateTyped, elections
<1>9. PeersOK' /\ Grows
  BY <1>1, <1>2, <1>6, <1>8, UnnoticedStep DEF PeersTyped, elections
<1> HIDE DEF ms
<1>10. GoodStep(ms)
  BY <1>2, <1>7, <1>9 DEF GoodStep
<1>11. QED
  BY <1>10

LEMMA LeaderHearsFailureOK ==
    ASSUME EngineInv, NEW p \in Peers, NEW m \in msgs, LeaderHearsFailure(p, m)
    PROVE  GoodStep({})
<1>1. PeersTyped
  BY DEF EngineInv, PeersOK
<1>2. StateTyped'
  BY <1>1 DEF LeaderHearsFailure, PeersTyped, StateTyped, elections
<1>3. PeersOK' /\ Grows
  BY <1>1, <1>2, MembershipUnchanged, UnnoticedStep
     DEF LeaderHearsFailure, PeersTyped, elections
<1>4. QED
  BY <1>3, ReplyOK DEF GoodStep, LeaderHearsFailure

LEMMA LeaderHearsSuccessOK ==
    ASSUME EngineInv, NEW m \in msgs, m.type = "AppendEntriesResponse",
           LeaderHearsSuccess(m.to, m)
    PROVE  GoodStep({})
<1> DEFINE p == m.to
           q == m.from
           n == m.peerNextIndex
           row == [nextIndex[p] EXCEPT ![q] = n]
<1>1. PeersTyped /\ MessageOK(m)
  BY DEF EngineInv, PeersOK
<1>2. /\ p \in Peers /\ q \in Peers
      /\ n \in Nat /\ n <= log[q].nextIndex
  BY <1>1, MessageFields DEF MessageOK, LeaderHearsSuccess
<1>3. RoleOK(p) /\ LogOK(p) /\ IsLog(log[p]) /\ currentTerm[p] \in Nat
  BY <1>1, <1>2, PeerNumbers DEF EngineInv, PeersOK
<1>4. /\ sent' = [sent EXCEPT ![p] = @ \ {q}]
      /\ nextIndex' = [nextIndex EXCEPT ![p] = row]
      /\ UNCHANGED <<mode, currentTerm, votedFor, leaderId, remotePeers, elections,
                     unsynced, now>>
  BY DEF LeaderHearsSuccess
<1>5. /\ row \in [Peers -> Nat] /\ row[q] = n
      /\ \A b \in Peers : b # q => row[b] = nextIndex[p][b]
  BY <1>1, <1>2 DEF PeersTyped
<1>6. \/ UNCHANGED <<log, applied>>
      \/ CommitAndEmit(p, log[p], Max(Committable(p, m))) /\ Committable(p, m) # {}
  BY DEF LeaderHearsSuccess
<1>7. msgs' \subseteq msgs
  BY ReplyOK DEF LeaderHearsSuccess
<1> HIDE DEF p, q, n, row
<1>8. nextIndex' \in [Peers -> [Peers -> Nat]]
  BY <1>1, <1>2, <1>4, <1>5 DEF PeersTyped
<1>9. MembershipKept
  <2>1. \A a \in Peers : a \notin remotePeers'[a]
    BY <1>4 DEF EngineInv, PeersOK, MembershipOK
  <2>2. \A a, b \in Peers : nextIndex'[a][b] <= log[b].nextIndex
    BY <1>1, <1>2, <1>4, <1>5 DEF EngineInv, PeersOK, MembershipOK, PeersTyped
  <2>3. QED
    BY <2>1, <2>2 DEF MembershipKept
<1>10. /\ DOMAIN log' = Peers /\ DOMAIN applied' = Peers
       /\ IsLog(log'[p]) /\ LogOK(p)'
       /\ log[p].nextIndex <= log'[p].nextIndex
       /\ log[p].commitIndex <= log'[p].commitIndex
       /\ \A a \in Peers : a # p => log'[a] = log[a]
  <2>1. log[p].nextIndex \in Int /\ log[p].commitIndex \in Int
    BY <1>1, <1>2, PeerNumbers
  <2>2. CASE UNCHANGED <<log, applied>>
    BY <1>1, <1>3, <1>4, <2>1, <2>2 DEF LogOK, PeersTyped
  <2>3. CASE CommitAndEmit(p, log[p], Max(Committable(p, m))) /\ Committable(p, m) # {}
    <3> DEFINE c == Committable(p, m)
    <3>1. c \in SUBSET Int /\ \A i \in c : i <= log[p].nextIndex
      <4>1. c \in SUBSET Int /\ \A i \in c : i <= Min({n, log[p].nextIndex}) - 1
        BY <1>2, <2>1 DEF Committable, n
      <4>2. Min({n, log[p].nextIndex}) \in Int /\ Min({n, log[p].nextIndex}) <= log[p].nextIndex
        <5>1. n \in Int
          BY <1>2
        <5>2. QED
          BY <2>1, <5>1, MinOfTwo, Zenon
      <4>3. QED
        BY <2>1, <4>1, <4>2
    <3> HIDE DEF c
    <3>2. Max(c) \in Int
      BY <2>1, <2>3, <3>1, MaxBounded DEF c
    <3>3. /\ DOMAIN log' = Peers /\ DOMAIN applied' = Peers
          /\ IsLog(log'[p]) /\ GapFree(log'[p]) /\ TermsUpTo(log'[p], currentTerm[p])
          /\ log'[p].nextIndex = log[p].nextIndex
          /\ log[p].commitIndex <= log'[p].commitIndex
          /\ \A a \in Peers : a # p => log'[a] = log[a]
      <4> DEFINE l == log[p]
                 x == Max(c)
                 t == currentTerm[p]
      <4>1. /\ IsLog(l) /\ GapFree(l) /\ TermsUpTo(l, t) /\ t \in Nat /\ x \in Int
            /\ CommitAndEmit(p, l, x)
        BY <1>3, <2>3, <3>2 DEF LogOK, c
      <4> HIDE DEF x, t
      <4>2. QED
        BY <1>1, <1>2, <4>1, CommitAndEmitOK DEF t
    <3>4. QED
      BY <1>4, <2>1, <3>3 DEF LogOK
  <2>4. QED
    BY <1>6, <2>2, <2>3
<1>11. PeersTyped'
  <2>1. \A a \in Peers : IsLog(log'[a])
    BY <1>1, <1>10 DEF PeersTyped
  <2>2. sent' \in [Peers -> SUBSET Peers]
    BY <1>1, <1>4 DEF PeersTyped
  <2>3. QED
    BY <1>1, <1>4, <1>8, <1>10, <2>1, <2>2 DEF PeersTyped, elections
<1>12. RoleOK(p)' /\ currentTerm[p] <= currentTerm'[p]
  BY <1>3, <1>4 DEF RoleOK, elections
<1>13. PeersOK' /\ Grows
  BY <1>2, <1>4, <1>9, <1>10, <1>11, <1>12, OnePeerStep DEF elections
<1>14. QED
  BY <1>7, <1>13 DEF GoodStep

-----------------------------------------------------------------------------
(* Followers that accept a request.                                         *)

LEMMA AcceptHeaderOK ==
    ASSUME EngineInv, NEW m \in msgs, m.type = "AppendEntriesRequest",
           mode[m.to] = "follower", currentTerm[m.to] <= m.term, AcceptHeader(m.to, m)
    PROVE  /\ StateTyped' /\ now' = now /\ UNCHANGED <<mode, electionTerm>>
           /\ currentTerm' \in [Peers -> Nat] /\ currentTerm'[m.to] = m.term
           /\ votedFor' \in [Peers -> Peers \cup {Nil}]
           /\ leaderId' \in [Peers -> Peers \cup {Nil}]
           /\ \A q \in Peers : q # m.to => /\ currentTerm'[q] = currentTerm[q]
                                           /\ leaderId'[q] = leaderId[q]
           /\ RoleOK(m.to)'
           /\ MembershipShrinks
<1> DEFINE p == m.to
<1>1. PeersTyped /\ MessageOK(m)
  BY DEF EngineInv, PeersOK
<1>2. p \in Peers /\ m.from \in Peers /\ m.from # p /\ m.term \in Nat
  BY <1>1, MessageFields DEF MessageOK
<1>3. /\ leaderId' \in [Peers -> Peers \cup {Nil}] /\ leaderId'[p] = m.from
      /\ \A q \in Peers : q # p => leaderId'[q] = leaderId[q]
      /\ MembershipShrinks
  BY <1>1, <1>2, SetLeaderOK DEF AcceptHeader
<1>4. /\ currentTerm' \in [Peers -> Nat] /\ currentTerm'[p] = m.term
      /\ \A q \in Peers : q # p => currentTerm'[q] = currentTerm[q]
      /\ votedFor' \in [Peers -> Peers \cup {Nil}]
  BY <1>1, <1>2 DEF AcceptHeader, PeersTyped
<1>5. StateTyped' /\ now' = now /\ UNCHANGED <<mode, electionTerm>>
  BY <1>1 DEF AcceptHeader, PeersTyped, StateTyped, elections, tracking
<1>6. RoleOK(p)'
  BY <1>2, <1>3, <1>5 DEF RoleOK
<1>7. QED
  BY <1>3, <1>4, <1>5, <1>6

LEMMA FollowerTakesChunkOK ==
    ASSUME EngineInv, NEW m \in msgs, m.type = "AppendEntriesRequest",
           FollowerTakesChunk(m.to, m)
    PROVE  \E ms : GoodStep(ms)
<1> DEFINE p == m.to
<1>1. PeersTyped /\ MessageOK(m)
  BY DEF EngineInv, PeersOK
<1>2. /\ p \in Peers /\ m.term \in Nat /\ currentTerm[p] \in Nat
      /\ log[p].nextIndex \in Nat /\ log[p].commitIndex \in Int
  BY <1>1, MessageFields, PeerNumbers DEF MessageOK
<1>3. IsLog(log[p]) /\ LogOK(p)
  BY <1>1, <1>2, PeerNumbers DEF EngineInv, PeersOK
<1>4. /\ StateTyped' /\ now' = now /\ UNCHANGED <<mode, electionTerm>>
      /\ currentTerm' \in [Peers -> Nat] /\ currentTerm'[p] = m.term
      /\ votedFor' \in [Peers -> Peers \cup {Nil}]
      /\ leaderId' \in [Peers -> Peers \cup {Nil}]
      /\ \A q \in Peers : q # p => /\ currentTerm'[q] = currentTerm[q]
                                   /\ leaderId'[q] = leaderId[q]
      /\ RoleOK(p)'
      /\ MembershipShrinks
  BY AcceptHeaderOK DEF FollowerTakesChunk
<1>5. UNCHANGED <<log, applied>> /\ currentTerm[p] <= m.term
  BY DEF FollowerTakesChunk
<1>6. PeersTyped'
  BY <1>1, <1>4, <1>5 DEF PeersTyped, StateTyped, MembershipShrinks, MembershipTyped
<1>7. LogOK(p)'
  <2>1. TermsUpTo(log[p], m.term)
    BY <1>2, <1>3, <1>5, TermsUpToRaised DEF LogOK
  <2>2. QED
    BY <1>3, <1>4, <1>5, <2>1 DEF LogOK
<1>8. PeersOK' /\ Grows
  <2>1. /\ currentTerm[p] <= currentTerm'[p]
        /\ log[p].nextIndex <= log'[p].nextIndex
        /\ log[p].commitIndex <= log'[p].commitIndex
    BY <1>2, <1>4, <1>5
  <2> HIDE DEF p
  <2>2. QED
    BY <1>2, <1>4, <1>5, <1>6, <1>7, <2>1, ShrinkingMembershipKept, OnePeerStep
<1>9. MessageOK(AppendResponse(m, TRUE, -1, FALSE))'
  BY <1>6, <1>8, AppendResponseOK
<1>10. GoodStep({AppendResponse(m, TRUE, -1, FALSE)})
  BY <1>8, <1>9, SendOK DEF GoodStep, FollowerTakesChunk
<1>11. QED
  BY <1>10

LEMMA FollowerAppendsOK ==
    ASSUME EngineInv, NEW m \in msgs, m.type = "AppendEntriesRequest",
           FollowerAppends(m.to, m)
    PROVE  \E ms : GoodStep(ms)
<1> DEFINE p == m.to
           merged == IF m.entries = <<>> THEN log[p]
                     ELSE MergeEntries(log[p], m.leaderNextIndex, m.entries, m.term, now)
           end == Min({merged.nextIndex - 1, m.leaderCommit})
           n == merged.nextIndex
<1>1. PeersTyped /\ MessageOK(m) /\ now \in Nat
  BY DEF EngineInv, PeersOK, PeersTyped
<1>2. /\ p \in Peers /\ m.term \in Nat /\ currentTerm[p] \in Nat
      /\ log[p].nextIndex \in Nat /\ log[p].commitIndex \in Int
      /\ m.leaderCommit \in Int /\ m.leaderNextIndex \in Nat /\ m.entries \in Seq(Values)
      /\ Len(m.entries) <= m.leaderNextIndex
  BY <1>1, MessageFields, PeerNumbers DEF MessageOK
<1>3. IsLog(log[p]) /\ GapFree(log[p]) /\ TermsUpTo(log[p], currentTerm[p])
  BY <1>1, <1>2, PeerNumbers DEF EngineInv, PeersOK, LogOK
<1>4. /\ StateTyped' /\ now' = now /\ UNCHANGED <<mode, electionTerm>>
      /\ currentTerm' \in [Peers -> Nat] /\ currentTerm'[p] = m.term
      /\ votedFor' \in [Peers -> Peers \cup {Nil}]
      /\ leaderId' \in [Peers -> Peers \cup {Nil}]
      /\ \A q \in Peers : q # p => /\ currentTerm'[q] = currentTerm[q]
                                   /\ leaderId'[q] = leaderId[q]
      /\ RoleOK(p)'
      /\ MembershipShrinks
  BY AcceptHeaderOK DEF FollowerAppends
<1>5. /\ currentTerm[p] <= m.term
      /\ CommitAndEmit(p, merged, end)
      /\ Reply(m, {AppendResponse(m, TRUE, n, TRUE)})
  BY DEF FollowerAppends
<1>6. TermsUpTo(log[p], m.term)
  BY <1>2, <1>3, <1>5, TermsUpToRaised
<1>7. /\ IsLog(merged) /\ GapFree(merged) /\ TermsUpTo(merged, m.term)
      /\ log[p].nextIndex <= merged.nextIndex
      /\ log[p].commitIndex <= merged.commitIndex
  <2>1. CASE m.entries = <<>>
    BY <1>2, <1>3, <1>6, <2>1
  <2>2. CASE m.entries # <<>>
    <3> DEFINE l == log[p]
               x == m.leaderNextIndex
               es == m.entries
               t == m.term
               k == MergeEntries(l, x, es, t, now)
    <3>1. merged = k
      BY <2>2
    <3>2. IsLog(l) /\ GapFree(l) /\ TermsUpTo(l, t) /\ t <= t
      BY <1>2, <1>3, <1>6
    <3>3. x \in Nat /\ es \in Seq(Values) /\ Len(es) <= x /\ t \in Nat
      BY <1>2
    <3> HIDE DEF merged, l, x, es, t
    <3>4. /\ IsLog(k) /\ GapFree(k)
          /\ l.nextIndex <= k.nextIndex
          /\ l.commitIndex <= k.commitIndex
          /\ TermsUpTo(k, t)
      BY <1>1, <3>2, <3>3, MergeEntriesOK
    <3> HIDE DEF k
    <3>5. QED
      BY <3>1, <3>4 DEF l, t
  <2>3. QED
    BY <2>1, <2>2
<1> HIDE DEF merged
<1>8. n \in Nat /\ merged.commitIndex \in Int
  BY <1>7 DEF IsLog
<1>9. end \in Int
  <2>1. n - 1 \in Int
    BY <1>8
  <2>2. QED
    BY <1>2, <2>1, MinOfTwo, Zenon
<1> HIDE DEF end
<1>10. /\ DOMAIN log' = Peers /\ DOMAIN applied' = Peers
       /\ IsLog(log'[p]) /\ GapFree(log'[p]) /\ TermsUpTo(log'[p], m.term)
       /\ log'[p].nextIndex = n
       /\ merged.commitIndex <= log'[p].commitIndex
       /\ \A q \in Peers : q # p => log'[q] = log[q]
  <2> DEFINE t == m.term
  <2>1. t \in Nat /\ TermsUpTo(merged, t)
    BY <1>2, <1>7
  <2> HIDE DEF t, p
  <2>2. QED
    BY <1>1, <1>2, <1>5, <1>7, <1>9, <2>1, CommitAndEmitOK DEF t
<1>11. PeersTyped'
  <2>1. \A q \in Peers : IsLog(log'[q])
    BY <1>1, <1>10 DEF PeersTyped
  <2>2. QED
    BY <1>1, <1>4, <1>10, <2>1
       DEF PeersTyped, StateTyped, MembershipShrinks, MembershipTyped
<1>12. PeersOK' /\ Grows
  <2>1. LogOK(p)'
    BY <1>4, <1>10 DEF LogOK
  <2>2. /\ currentTerm[p] <= currentTerm'[p]
        /\ log[p].nextIndex <= log'[p].nextIndex
        /\ log[p].commitIndex <= log'[p].commitIndex
    <3>1. log'[p].commitIndex \in Int
      BY <1>10 DEF IsLog
    <3>2. QED
      BY <1>2, <1>4, <1>5, <1>7, <1>8, <1>10, <3>1
  <2> HIDE DEF p
  <2>3. QED
    BY <1>2, <1>4, <1>10, <1>11, <2>1, <2>2, ShrinkingMembershipKept, OnePeerStep
<1>13. PICK k \in Nat : k = n
  BY <1>8
<1>14. GoodStep({AppendResponse(m, TRUE, k, TRUE)})
  <2>1. k <= log'[p].nextIndex /\ Reply(m, {AppendResponse(m, TRUE, k, TRUE)})
    BY <1>5, <1>10, <1>13
  <2>2. MessageOK(AppendResponse(m, TRUE, k, TRUE))'
    BY <1>11, <1>12, <2>1, AppendResponseOK
  <2>3. QED
    BY <1>12, <2>1, <2>2, ReplyOK DEF GoodStep
<1>15. QED
  BY <1>14

-----------------------------------------------------------------------------
(* Clients, the network and the clock.                                      *)

LEMMA submitOK ==
    ASSUME EngineInv, NEW p \in Peers, NEW v \in Values, submit(p, v)
    PROVE  GoodStep({})
<1> DEFINE l == log[p]
           t == currentTerm[p]
           k == Submit(l, t, v, now)
<1>1. PeersTyped /\ now \in Nat /\ RoleOK(p)
  BY DEF EngineInv, PeersOK, PeersTyped
<1>2. /\ IsLog(l) /\ GapFree(l) /\ TermsUpTo(l, t) /\ t \in Nat /\ t <= t
      /\ l.nextIndex \in Nat /\ l.commitIndex \in Int
  BY <1>1, PeerNumbers DEF EngineInv, PeersOK, LogOK
<1>3. /\ log' = [log EXCEPT ![p] = k]
      /\ UNCHANGED <<mode, currentTerm, votedFor, leaderId, membership, elections,
                     tracking, applied, msgs, now>>
  BY DEF submit
<1> HIDE DEF l, t
<1>4. /\ IsLog(k) /\ GapFree(k) /\ TermsUpTo(k, t)
      /\ k.nextIndex = l.nextIndex + 1
      /\ k.commitIndex = l.commitIndex
  BY <1>1, <1>2, SubmitInTermOK
<1> HIDE DEF k
<1>5. /\ DOMAIN log' = Peers /\ log'[p] = k
      /\ \A q \in Peers : q # p => log'[q] = log[q]
  BY <1>1, <1>3 DEF PeersTyped
<1>6. PeersTyped'
  <2>1. \A q \in Peers : IsLog(log'[q])
    BY <1>1, <1>4, <1>5 DEF PeersTyped
  <2>2. QED
    BY <1>1, <1>3, <1>5, <2>1 DEF PeersTyped, membership, elections, tracking
<1>7. RoleOK(p)'
  BY <1>1, <1>3 DEF RoleOK, elections
<1>8. LogOK(p)' /\ currentTerm[p] <= currentTerm'[p]
  BY <1>2, <1>3, <1>4, <1>5 DEF LogOK, t
<1>9. log[p].nextIndex <= log'[p].nextIndex /\ log[p].commitIndex <= log'[p].commitIndex
  BY <1>2, <1>4, <1>5 DEF l
<1>10. PeersOK' /\ Grows
  BY <1>1, <1>3, <1>5, <1>6, <1>7, <1>8, <1>9, MembershipUnchanged,
     ShrinkingMembershipKept, OnePeerStep DEF elections
<1>11. QED
  BY <1>3, <1>10 DEF GoodStep

(* A step that only takes messages off the network                          *)
LEMMA TakingOK ==
    ASSUME EngineInv, msgs' \subseteq msgs,
           UNCHANGED <<mode, currentTerm, votedFor, leaderId, membership, log, elections,
                       tracking, applied, now>>
    PROVE  GoodStep({})
<1>1. PeersTyped
  BY DEF EngineInv, PeersOK
<1>2. PeersOK' /\ Grows
  BY <1>1, MembershipUnchanged, UnnoticedStep DEF PeersTyped, StateTyped, elections, tracking
<1>3. QED
  BY <1>2 DEF GoodStep

LEMMA TickOK ==
    ASSUME EngineInv, Tick
    PROVE  GoodStep({})
<1>1. PeersTyped
  BY DEF EngineInv, PeersOK
<1>2. QuietTyped'
  BY <1>1 DEF Tick, PeersTyped, QuietTyped, StateTyped, MembershipTyped, membership,
              elections, tracking
<1>3. \A p \in Peers : RoleOK(p)' /\ p \notin remotePeers'[p]
  BY DEF Tick, EngineInv, PeersOK, MembershipOK, RoleOK, membership, elections
<1>4. \A p, q \in Peers : nextIndex'[p][q] <= nextIndex[p][q]
  BY <1>1 DEF Tick, PeersTyped, membership
<1>5. PeersOK' /\ Grows
  BY <1>2, <1>3, <1>4, QuietStep DEF Tick
<1>6. QED
  BY <1>5 DEF GoodStep, Tick

LEMMA ReceiveOK ==
    ASSUME EngineInv, NEW m \in msgs, Receive(m)
    PROVE  \E ms : GoodStep(ms)
<1>1. m.to \in Peers
  BY MessageFields DEF EngineInv, MessageOK
<1>2. CASE m.type = "AppendEntriesRequest" /\ FollowerRejectsAppend(m.to, m)
  BY <1>2, FollowerRejectsAppendOK
<1>3. CASE m.type = "AppendEntriesRequest" /\ FollowerTakesChunk(m.to, m)
  BY <1>3, FollowerTakesChunkOK
<1>4. CASE m.type = "AppendEntriesRequest" /\ FollowerAppends(m.to, m)
  BY <1>4, FollowerAppendsOK
<1>5. CASE CandidateFollows(m.to, m)
  BY <1>1, <1>5, CandidateFollowsOK
<1>6. CASE LeaderFollows(m.to, m)
  BY <1>1, <1>6, LeaderFollowsOK
<1>7. CASE LeaderHearsFailure(m.to, m)
  BY <1>1, <1>7, LeaderHearsFailureOK
<1>8. CASE m.type = "AppendEntriesResponse" /\ LeaderHearsSuccess(m.to, m)
  BY <1>8, LeaderHearsSuccessOK
<1>9. CASE m.type = "VoteRequest" /\ FollowerDeniesVote(m.to, m)
  BY <1>9, FollowerDeniesVoteOK
<1>10. CASE m.type = "VoteRequest" /\ FollowerGrantsVote(m.to, m)
  BY <1>10, FollowerGrantsVoteOK
<1>11. CASE CandidateCounts(m.to, m)
  BY <1>1, <1>11, CandidateCountsOK
<1>12. CASE Deposed(m.to, m)
  BY <1>1, <1>12, DeposedOK
<1>13. CASE Ignore(m.to, m)
  <2>1. GoodStep({})
    BY <1>13, TakingOK DEF Ignore
  <2>2. QED
    BY <2>1
<1>14. QED
  BY <1>2, <1>3, <1>4, <1>5, <1>6, <1>7, <1>8, <1>9, <1>10, <1>11, <1>12, <1>13 DEF Receive

-----------------------------------------------------------------------------
(* The invariant holds in every reachable state, from either beginning.     *)

LEMMA FreshOK ==
    ASSUME NEW name \in {"empty", "follower"}, NEW known \in [Peers -> SUBSET Peers],
           \A p \in Peers : p \notin known[p], Fresh(name, known)
    PROVE  EngineInv
<1>1. PeersTyped
  BY EmptyLogOK DEF Fresh, PeersTyped
<1>2. \A p \in Peers : RoleOK(p)
  BY PeersAssumption DEF Fresh, RoleOK
<1>3. \A p \in Peers : LogOK(p)
  BY EmptyLogOK DEF Fresh, LogOK
<1>4. MembershipOK
  BY DEF Fresh, MembershipOK, EmptyLog
<1>5. QED
  BY <1>1, <1>2, <1>3, <1>4 DEF EngineInv, PeersOK, Fresh

LEMMA InitInv == Init \/ Joined => EngineInv
<1>1. Init => EngineInv
  <2> DEFINE known == [p \in Peers |-> {}]
  <2>1. known \in [Peers -> SUBSET Peers] /\ \A p \in Peers : p \notin known[p]
    OBVIOUS
  <2>2. Init => Fresh("empty", known)
    BY DEF Init
  <2> HIDE DEF known
  <2>3. QED
    BY <2>1, <2>2, FreshOK
<1>2. Joined => EngineInv
  <2> DEFINE known == [p \in Peers |-> Peers \ {p}]
  <2>1. known \in [Peers -> SUBSET Peers] /\ \A p \in Peers : p \notin known[p]
    OBVIOUS
  <2>2. Joined => Fresh("follower", known)
    BY DEF Joined
  <2> HIDE DEF known
  <2>3. QED
    BY <2>1, <2>2, FreshOK
<1>3. QED
  BY <1>1, <1>2

LEMMA EnvironmentStep ==
    ASSUME EngineInv, EnvironmentNext
    PROVE  GoodStep({})
<1>1. CASE \E p \in Peers : Start(p) \/ Leave(p)
  BY <1>1, StartOK, LeaveOK
<1>2. CASE \E p, q \in Peers : addRemotePeerId(p, q) \/ removeRemotePeerId(p, q)
  BY <1>2, addRemotePeerIdOK, removeRemotePeerIdOK
<1>3. CASE \E p \in Peers, v \in Values : submit(p, v)
  BY <1>3, submitOK
<1>4. CASE \E m \in msgs : Lose(m)
  BY <1>4, TakingOK DEF Lose
<1>5. CASE Tick
  BY <1>5, TickOK
<1>6. QED
  BY <1>1, <1>2, <1>3, <1>4, <1>5 DEF EnvironmentNext

LEMMA EngineStep ==
    ASSUME EngineInv, EngineNext
    PROVE  \E ms : GoodStep(ms)
<1>1. CASE \E p \in Peers : FollowerTimeout(p) \/ CandidateRun(p) \/ LeaderAlone(p)
  BY <1>1, FollowerTimeoutOK, CandidateRunOK, LeaderAloneOK
<1>2. CASE \E p \in Peers, expired \in SUBSET Peers : LeaderRun(p, expired)
  BY <1>2, LeaderRunOK
<1>3. CASE \E m \in msgs : Receive(m)
  BY <1>3, ReceiveOK
<1>4. QED
  BY <1>1, <1>2, <1>3 DEF EngineNext

LEMMA StepInv ==
    ASSUME EngineInv, [Next]_vars
    PROVE  EngineInv' /\ Grows
<1>1. CASE Next
  <2>1. \E ms : GoodStep(ms)
    BY <1>1, EnvironmentStep, EngineStep DEF Next
  <2>2. QED
    BY <2>1, GoodStepKeepsInv DEF GoodStep
<1>2. CASE UNCHANGED vars
  <2>1. /\ msgs' \subseteq msgs
        /\ UNCHANGED <<mode, currentTerm, votedFor, leaderId, membership, log, elections,
                       tracking, applied, now>>
    BY <1>2 DEF vars
  <2>2. \E ms : GoodStep(ms)
    <3>1. GoodStep({})
      BY <2>1, TakingOK
    <3>2. QED
      BY <3>1
  <2>3. QED
    BY <2>2, GoodStepKeepsInv DEF GoodStep
<1>3. QED
  BY <1>1, <1>2

(* Both specifications keep the inductive invariant, whatever the set of    *)
(* peers: the step lemmas above go through every action of Next.            *)
THEOREM EngineInvariant == Spec \/ JoinedSpec => []EngineInv
<1>1. Init \/ Joined => EngineInv
  BY InitInv
<1>2. EngineInv /\ [Next]_vars => EngineInv'
  BY StepInv
<1>3. QED
  BY <1>1, <1>2, PTL DEF Spec, JoinedSpec

-----------------------------------------------------------------------------
(* What follows.                                                            *)

(* Every variable keeps its type and every message on the network is one   *)
(* the engines know.                                                        *)
THEOREM EngineTypes == Spec \/ JoinedSpec => []TypeOK
<1>1. EngineInv => TypeOK
  BY DEF EngineInv, PeersOK, MessageOK, TypeOK
<1>2. QED
  BY <1>1, EngineInvariant, PTL

(* The follower's count-back of indices, its reset and its overriding, the *)
(* leader's submits and the commits of both never leave a gap above the    *)
(* commit index of a log, nor an entry beyond its end.                      *)
THEOREM LogsWithoutGap == Spec \/ JoinedSpec => []NoGapAboveCommit
<1>1. EngineInv => NoGapAboveCommit
  BY DEF EngineInv, PeersOK, LogOK, NoGapAboveCommit
<1>2. QED
  BY <1>1, EngineInvariant, PTL

(* No entry is stamped with a term above that of its peer, so a follower   *)
(* never overrides an entry of a higher term than the request it handles.   *)
THEOREM EntriesOfThePast == Spec \/ JoinedSpec => []NoEntryFromTheFuture
<1>1. EngineInv => NoEntryFromTheFuture
  BY DEF EngineInv, PeersOK, LogOK, NoEntryFromTheFuture
<1>2. QED
  BY <1>1, EngineInvariant, PTL

(* The state object and leaderId of an engine agree on who leads.           *)
THEOREM OneViewOfLeadership == Spec \/ JoinedSpec => []SelfLeaderIffLeading
<1>1. EngineInv => SelfLeaderIffLeading
  BY DEF EngineInv, PeersOK, RoleOK, SelfLeaderIffLeading
<1>2. QED
  BY <1>1, EngineInvariant, PTL

(* A candidate stands for the term after its current one, and no response  *)
(* on the network is of a later term than its receiver: a response never   *)
(* deposes a candidate or a leader.                                         *)
THEOREM ResponsesOfThePast == Spec \/ JoinedSpec => []NoResponseFromTheFuture
<1>1. EngineInv => NoResponseFromTheFuture
  BY DEF EngineInv, PeersOK, RoleOK, MessageOK, NoResponseFromTheFuture
<1>2. QED
  BY <1>1, EngineInvariant, PTL

(* A leader never counts an entry on a peer that does not have one at that *)
(* index, however late or repeated the responses it learns from.            *)
THEOREM TruthfulMatchIndex == Spec \/ JoinedSpec => []MatchIndexTruthful
<1>1. EngineInv => MatchIndexTruthful
  <2>1. ASSUME EngineInv, NEW p \in Peers, NEW q \in Peers
        PROVE  matchIndex(p, q) < log[q].nextIndex
    <3>1. nextIndex[p][q] \in Nat /\ log[q].nextIndex \in Nat
      BY <2>1, PeerNumbers DEF EngineInv, PeersOK, PeersTyped
    <3>2. nextIndex[p][q] <= log[q].nextIndex
      BY <2>1 DEF EngineInv, PeersOK, MembershipOK
    <3>3. QED
      BY <3>1, <3>2 DEF matchIndex
  <2>2. QED
    BY <2>1 DEF MatchIndexTruthful
<1>2. QED
  BY <1>1, EngineInvariant, PTL

(* No step takes back a term or a commit index, not even one that handles  *)
(* a request of an old leader or resets the log of a follower.              *)
THEOREM NothingGoesBack == Spec \/ JoinedSpec => TermAndCommitMonotonic
<1>1. EngineInv /\ [Next]_vars =>
        [\A p \in Peers : /\ currentTerm[p] <= currentTerm'[p]
                          /\ log[p].commitIndex <= log'[p].commitIndex]_vars
  BY StepInv DEF Grows
<1>2. Spec \/ JoinedSpec => [][Next]_vars
  BY PTL DEF Spec, JoinedSpec
<1>3. QED
  BY <1>1, <1>2, EngineInvariant, PTL DEF TermAndCommitMonotonic

-----------------------------------------------------------------------------
(* The commit rule.                                                         *)

(* Only the answer of a follower moves the commit index of a leader.        *)
LEMMA LeaderCommits ==
    ASSUME EngineInv, Next, NEW p \in Peers, mode[p] = "leader",
           log[p].commitIndex < log'[p].commitIndex
    PROVE  \E m \in msgs : /\ m.type = "AppendEntriesResponse" /\ m.to = p
                           /\ LeaderHearsSuccess(p, m)
<1>1. PeersTyped
  BY DEF EngineInv, PeersOK
<1>2. log[p].commitIndex \in Int
  BY <1>1, PeerNumbers
<1>3. log'[p] # log[p]
  BY <1>2
<1>4. ~EnvironmentNext
  <2>1. ASSUME NEW q \in Peers, NEW v \in Values, submit(q, v)
        PROVE  FALSE
    <3> DEFINE l == log[q]
    <3>1. IsLog(l) /\ GapFree(l) /\ now \in Nat /\ currentTerm[q] \in Nat
      BY <1>1, PeerNumbers DEF EngineInv, PeersOK, LogOK, PeersTyped
    <3> HIDE DEF l
    <3>2. Submit(l, currentTerm[q], v, now).commitIndex = l.commitIndex
      BY <3>1, SubmitOK
    <3>3. log' = [log EXCEPT ![q] = Submit(l, currentTerm[q], v, now)]
      BY <2>1 DEF submit, l
    <3>4. log'[p].commitIndex = log[p].commitIndex
      BY <1>1, <3>2, <3>3 DEF PeersTyped, l
    <3>5. QED
      BY <1>2, <3>4
  <2>2. QED
    BY <1>3, <2>1 DEF EnvironmentNext, Start, Leave, addRemotePeerId, removeRemotePeerId,
                      Lose, Tick
<1>5. ~\E q \in Peers : FollowerTimeout(q) \/ CandidateRun(q) \/ LeaderAlone(q)
  BY <1>3 DEF FollowerTimeout, CandidateRun, LeaderAlone, StepDown
<1>6. ~\E q \in Peers, expired \in SUBSET Peers : LeaderRun(q, expired)
  BY <1>3 DEF LeaderRun
<1>7. PICK m \in msgs : Receive(m)
  BY <1>4, <1>5, <1>6 DEF Next, EngineNext
<1>8. ~(m.type = "AppendEntriesRequest" /\ FollowerAppends(m.to, m))
  <2>1. ASSUME m.type = "AppendEntriesRequest", FollowerAppends(m.to, m)
        PROVE  FALSE
    <3>1. m.to # p
      BY <2>1 DEF FollowerAppends
    <3>2. log'[p] = log[p]
      BY <1>1, <2>1, <3>1 DEF FollowerAppends, CommitAndEmit, PeersTyped
    <3>3. QED
      BY <1>3, <3>2
  <2>2. QED
    BY <2>1
<1>9. m.type = "AppendEntriesResponse" /\ LeaderHearsSuccess(m.to, m)
  BY <1>3, <1>7, <1>8
     DEF Receive, FollowerRejectsAppend, FollowerTakesChunk, CandidateFollows, LeaderFollows,
         LeaderHearsFailure, FollowerDeniesVote, FollowerGrantsVote, CandidateCounts,
         Deposed, Ignore, StepDown
<1>10. m.to = p
  <2>1. CASE m.to # p
    <3>1. log'[p] = log[p]
      BY <1>1, <1>9, <2>1 DEF LeaderHearsSuccess, CommitAndEmit, PeersTyped
    <3>2. QED
      BY <1>3, <3>1
  <2>2. QED
    BY <2>1
<1>11. QED
  BY <1>9, <1>10

(* What a leader counts as holders of an index do hold it.                  *)
LEMMA HoldersHold ==
    ASSUME EngineInv, NEW m \in msgs, m.type = "AppendEntriesResponse",
           m.processed, m.success, NEW i \in Int
    PROVE  Holders(m.to, m, i) \subseteq {q \in remotePeers[m.to] : i < log[q].nextIndex}
<1> DEFINE p == m.to
<1>1. PeersTyped /\ MessageOK(m)
  BY DEF EngineInv, PeersOK
<1>2. p \in Peers /\ m.peerNextIndex \in Nat /\ m.peerNextIndex <= log[m.from].nextIndex
  BY <1>1, MessageFields DEF MessageOK
<1>3. ASSUME NEW q \in Holders(p, m, i)
      PROVE  q \in remotePeers[p] /\ i < log[q].nextIndex
  <2>1. /\ q \in remotePeers[p] /\ q \in Peers
        /\ i <= IF q = m.from THEN m.peerNextIndex - 1 ELSE nextIndex[p][q] - 1
    BY <1>1, <1>2, <1>3 DEF Holders, matchIndex, PeersTyped
  <2>2. /\ nextIndex[p][q] \in Nat /\ log[q].nextIndex \in Nat
        /\ nextIndex[p][q] <= log[q].nextIndex
    BY <1>1, <1>2, <2>1, PeerNumbers DEF EngineInv, PeersOK, MembershipOK, PeersTyped
  <2>3. QED
    BY <1>2, <2>1, <2>2
<1>4. QED
  BY <1>3

LEMMA LeaderCommitsHeld ==
    ASSUME EngineInv, NEW m \in msgs, m.type = "AppendEntriesResponse",
           LeaderHearsSuccess(m.to, m),
           log[m.to].commitIndex < log'[m.to].commitIndex
    PROVE  \E i \in Committable(m.to, m) : log'[m.to].commitIndex <= i /\ i \in Int
<1> DEFINE p == m.to
           c == Committable(p, m)
           n == m.peerNextIndex
<1>1. PeersTyped /\ MessageOK(m)
  BY DEF EngineInv, PeersOK
<1>2. p \in Peers /\ n \in Int
  BY <1>1, MessageFields DEF MessageOK
<1>3. /\ IsLog(log[p]) /\ GapFree(log[p]) /\ TermsUpTo(log[p], currentTerm[p])
      /\ log[p].nextIndex \in Int /\ log[p].commitIndex \in Int /\ currentTerm[p] \in Nat
  BY <1>1, <1>2, PeerNumbers DEF EngineInv, PeersOK, LogOK
<1>4. log'[p] # log[p]
  BY <1>3
<1>5. c # {} /\ CommitAndEmit(p, log[p], Max(c))
  BY <1>4 DEF LeaderHearsSuccess
<1>6. c \in SUBSET Int /\ \A i \in c : i <= log[p].nextIndex
  <2> HIDE DEF n
  <2>1. c \in SUBSET Int /\ \A i \in c : i <= Min({n, log[p].nextIndex}) - 1
    BY <1>2, <1>3 DEF Committable, n
  <2> HIDE DEF c
  <2>2. Min({n, log[p].nextIndex}) \in Int /\ Min({n, log[p].nextIndex}) <= log[p].nextIndex
    BY <1>2, <1>3, MinOfTwo, Zenon
  <2>3. QED
    BY <1>3, <2>1, <2>2
<1> HIDE DEF c
<1>7. Max(c) \in c /\ Max(c) \in Int
  BY <1>3, <1>5, <1>6, MaxBounded
<1>8. log'[p].commitIndex = log[p].commitIndex \/ log'[p].commitIndex <= Max(c)
  <2> DEFINE l == log[p]
             x == Max(c)
             t == currentTerm[p]
  <2>1. /\ IsLog(l) /\ GapFree(l) /\ TermsUpTo(l, t) /\ t \in Nat /\ x \in Int
        /\ CommitAndEmit(p, l, x)
    BY <1>3, <1>5, <1>7
  <2> HIDE DEF x, t, p
  <2>2. QED
    BY <1>1, <1>2, <2>1, CommitAndEmitOK DEF x
<1>9. QED
  BY <1>3, <1>7, <1>8 DEF c

(* A leader moves its commit index only to where the logs of more than half *)
(* of the peers it knows, itself included, reach.                           *)
THEOREM CommitsAreHeldByMajority == Spec \/ JoinedSpec => CommitNeedsMajority
<1>1. ASSUME EngineInv, EngineInv', Next, NEW p \in Peers, mode[p] = "leader",
             log[p].commitIndex < log'[p].commitIndex
      PROVE  CommitIsHeld(p)
  <2> DEFINE holders == {q \in remotePeers[p] : log'[p].commitIndex < log[q].nextIndex}
  <2>1. PICK m \in msgs : /\ m.type = "AppendEntriesResponse" /\ m.to = p
                          /\ LeaderHearsSuccess(p, m)
    BY <1>1, LeaderCommits
  <2>2. PICK i \in Committable(p, m) : log'[p].commitIndex <= i /\ i \in Int
    BY <1>1, <2>1, LeaderCommitsHeld
  <2>3. Cardinality(remotePeers[p]) + 1 < (Cardinality(Holders(p, m, i)) + 1) * 2
    BY <2>2 DEF Committable, OwnTermAndHeldByMajority
  <2>4. Holders(p, m, i) \subseteq holders
    <3>1. Holders(p, m, i) \subseteq {q \in remotePeers[p] : i < log[q].nextIndex}
      BY <1>1, <2>1, <2>2, HoldersHold DEF LeaderHearsSuccess
    <3>2. ASSUME NEW q \in Peers, i < log[q].nextIndex
          PROVE  log'[p].commitIndex < log[q].nextIndex
      <4>1. log[q].nextIndex \in Int
        BY <1>1, PeerNumbers DEF EngineInv, PeersOK
      <4>2. log'[p].commitIndex \in Int
        <5>1. IsLog(log'[p])
          BY <1>1 DEF EngineInv, PeersOK, PeersTyped
        <5>2. QED
          BY <5>1 DEF IsLog
      <4>3. QED
        BY <2>2, <3>2, <4>1, <4>2
    <3>3. remotePeers[p] \subseteq Peers
      BY <1>1 DEF EngineInv, PeersOK, PeersTyped
    <3>4. QED
      BY <3>1, <3>2, <3>3
  <2>5. IsFiniteSet(remotePeers[p]) /\ IsFiniteSet(holders)
    <3>1. remotePeers[p] \subseteq Peers
      BY <1>1 DEF EngineInv, PeersOK, PeersTyped
    <3>2. holders \subseteq Peers
      BY <3>1
    <3>3. QED
      BY <3>1, <3>2, PeersAssumption, FS_Subset
  <2> HIDE DEF holders
  <2>6. /\ Cardinality(Holders(p, m, i)) <= Cardinality(holders)
        /\ Cardinality(Holders(p, m, i)) \in Nat
    BY <2>4, <2>5, FS_Subset, FS_CardinalityType
  <2>7. Cardinality(holders) \in Nat /\ Cardinality(remotePeers[p]) \in Nat
    BY <2>5, FS_CardinalityType
  <2>8. QED
    BY <2>3, <2>6, <2>7 DEF CommitIsHeld, holders
<1>2. EngineInv /\ EngineInv' /\ [Next]_vars => [\A p \in Peers : CommitIsHeld(p)]_vars
  BY <1>1 DEF CommitIsHeld
<1>3. Spec \/ JoinedSpec => [][Next]_vars
  BY PTL DEF Spec, JoinedSpec
<1>4. QED
  BY <1>2, <1>3, EngineInvariant, PTL DEF CommitNeedsMajority

-----------------------------------------------------------------------------
(* What a step does to the logs, to what was delivered, to the requests on  *)
(* the network and to the set of peers that stand for election or lead.     *)

(* p submits v: the log of a leader is one entry longer.                    *)
Submits(p, v) ==
    /\ mode[p] = "leader"
    /\ log' = [log EXCEPT ![p] = Submit(log[p], currentTerm[p], v, now)]
    /\ UNCHANGED applied

(* p commits what its own log holds.                                        *)
Commits(p, x) == CommitAndEmit(p, log[p], x)

(* The log of p with the entries of the request m                           *)
WithEntries(p, m) ==
    IF m.entries = <<>> THEN log[p]
    ELSE MergeEntries(log[p], m.leaderNextIndex, m.entries, m.term, now)

(* The follower that m is for takes its entries and commits.                *)
Appends(m, x) ==
    /\ m.type = "AppendEntriesRequest"
    /\ CommitAndEmit(m.to, WithEntries(m.to, m), x)

LogChange ==
    \/ UNCHANGED <<log, applied>>
    \/ \E p \in Peers, v \in Values : Submits(p, v)
    \/ \E p \in Peers, x \in Int : Commits(p, x)
    \/ \E m \in msgs, x \in Int : Appends(m, x)

(* The leader p sends the request r to q.                                   *)
Sends(p, q, r) ==
    /\ mode[p] = "leader" /\ q \in remotePeers[p]
    /\ UNCHANGED log
    /\ \/ r = AppendRequest(p, q, <<>>)
       \/ r = AppendRequest(p, q, CollectEntries(log[p], nextIndex[p][q]))

RequestsChange ==
    \A r \in msgs' : r.type = "AppendEntriesRequest" =>
        r \in msgs \/ \E p, q \in Peers : Sends(p, q, r)

(* p stands for election or leads.                                          *)
Stands(p) == mode[p] \in {"candidate", "leader"}

Candidates == (Peers \cap Impatient) \ OnlyFollower

StandingChanges == \A p \in Peers : Stands(p)' => Stands(p) \/ p \in Candidates

-----------------------------------------------------------------------------

LEMMA EnvironmentLogs ==
    ASSUME EngineInv, EnvironmentNext
    PROVE  LogChange
<1>1. CASE \E p \in Peers, v \in Values : submit(p, v)
  BY <1>1 DEF submit, Submits, LogChange
<1>2. CASE ~\E p \in Peers, v \in Values : submit(p, v)
  BY <1>2 DEF EnvironmentNext, Start, Leave, addRemotePeerId, removeRemotePeerId, Lose,
              Tick, LogChange
<1>3. QED
  BY <1>1, <1>2

LEMMA SuccessLogs ==
    ASSUME EngineInv, NEW m \in msgs, m.type = "AppendEntriesResponse",
           LeaderHearsSuccess(m.to, m)
    PROVE  LogChange
<1> DEFINE p == m.to
           c == Committable(p, m)
           n == m.peerNextIndex
<1>1. PeersTyped /\ MessageOK(m)
  BY DEF EngineInv, PeersOK
<1>2. p \in Peers /\ n \in Int
  BY <1>1, MessageFields DEF MessageOK
<1>3. log[p].nextIndex \in Int /\ log[p].commitIndex \in Int
  BY <1>1, <1>2, PeerNumbers
<1>4. CASE c = {}
  BY <1>4 DEF LeaderHearsSuccess, LogChange
<1>5. CASE c # {}
  <2>1. CommitAndEmit(p, log[p], Max(c))
    BY <1>5 DEF LeaderHearsSuccess
  <2>2. c \in SUBSET Int /\ \A i \in c : i <= log[p].nextIndex
    <3> HIDE DEF n
    <3>1. c \in SUBSET Int /\ \A i \in c : i <= Min({n, log[p].nextIndex}) - 1
      BY <1>2, <1>3 DEF Committable, n
    <3> HIDE DEF c
    <3>2. Min({n, log[p].nextIndex}) \in Int /\ Min({n, log[p].nextIndex}) <= log[p].nextIndex
      BY <1>2, <1>3, MinOfTwo, Zenon
    <3>3. QED
      BY <1>3, <3>1, <3>2
  <2> HIDE DEF c
  <2>3. Max(c) \in Int
    BY <1>3, <1>5, <2>2, MaxBounded
  <2>4. QED
    BY <1>2, <2>1, <2>3 DEF Commits, LogChange
<1>6. QED
  BY <1>4, <1>5

LEMMA FollowerLogs ==
    ASSUME EngineInv, NEW m \in msgs, m.type = "AppendEntriesRequest",
           FollowerAppends(m.to, m)
    PROVE  LogChange
<1> DEFINE p == m.to
           l == WithEntries(p, m)
           x == Min({l.nextIndex - 1, m.leaderCommit})
<1>1. PeersTyped /\ MessageOK(m)
  BY DEF EngineInv, PeersOK
<1>2. /\ p \in Peers /\ m.leaderCommit \in Int /\ m.leaderNextIndex \in Nat
      /\ m.entries \in Seq(Values) /\ Len(m.entries) <= m.leaderNextIndex /\ m.term \in Nat
  BY <1>1, MessageFields DEF MessageOK
<1>3. IsLog(log[p]) /\ GapFree(log[p]) /\ now \in Nat
  BY <1>1, <1>2 DEF EngineInv, PeersOK, PeersTyped, LogOK
<1>4. CommitAndEmit(p, l, x)
  BY DEF FollowerAppends, WithEntries
<1>5. IsLog(l)
  <2> HIDE DEF p
  <2>1. QED
    BY <1>2, <1>3, MergeEntriesOK DEF WithEntries
<1>6. x \in Int
  <2> HIDE DEF l
  <2>1. l.nextIndex - 1 \in Int
    BY <1>5 DEF IsLog
  <2>2. QED
    BY <1>2, <2>1, MinOfTwo, Zenon
<1>7. QED
  BY <1>4, <1>6 DEF Appends, LogChange

LEMMA StepLogs ==
    ASSUME EngineInv, [Next]_vars
    PROVE  LogChange
<1>1. CASE EnvironmentNext
  BY <1>1, EnvironmentLogs
<1>2. CASE \E p \in Peers : FollowerTimeout(p) \/ CandidateRun(p) \/ LeaderAlone(p)
  BY <1>2 DEF FollowerTimeout, CandidateRun, LeaderAlone, StepDown, LogChange
<1>3. CASE \E p \in Peers, expired \in SUBSET Peers : LeaderRun(p, expired)
  BY <1>3 DEF LeaderRun, LogChange
<1>4. CASE \E m \in msgs : Receive(m)
  <2>1. PICK m \in msgs : Receive(m)
    BY <1>4
  <2>2. CASE m.type = "AppendEntriesRequest" /\ FollowerAppends(m.to, m)
    BY <2>2, FollowerLogs
  <2>3. CASE m.type = "AppendEntriesResponse" /\ LeaderHearsSuccess(m.to, m)
    BY <2>3, SuccessLogs
  <2>4. CASE ~(m.type = "AppendEntriesRequest" /\ FollowerAppends(m.to, m)) /\
             ~(m.type = "AppendEntriesResponse" /\ LeaderHearsSuccess(m.to, m))
    BY <2>1, <2>4
       DEF Receive, FollowerRejectsAppend, FollowerTakesChunk, CandidateFollows, LeaderFollows,
           LeaderHearsFailure, FollowerDeniesVote, FollowerGrantsVote, CandidateCounts,
           Deposed, Ignore, StepDown, LogChange
  <2>5. QED
    BY <2>2, <2>3, <2>4
<1>5. CASE UNCHANGED vars
  BY <1>5 DEF vars, LogChange
<1>6. QED
  BY <1>1, <1>2, <1>3, <1>4, <1>5 DEF Next, EngineNext

LEMMA StepRequests ==
    ASSUME EngineInv, [Next]_vars
    PROVE  RequestsChange
<1>1. CASE msgs' \subseteq msgs
  BY <1>1 DEF RequestsChange
<1>2. CASE EnvironmentNext
  <2>1. msgs' \subseteq msgs
    BY <1>2 DEF EnvironmentNext, Start, Leave, addRemotePeerId, removeRemotePeerId, submit,
                Lose, Tick
  <2>2. QED
    BY <1>1, <2>1
<1>3. CASE \E p \in Peers, expired \in SUBSET Peers : LeaderRun(p, expired)
  <2>1. PICK p \in Peers, expired \in SUBSET Peers : LeaderRun(p, expired)
    BY <1>3
  <2> DEFINE free == {q \in remotePeers[p] \ (sent[p] \ expired) :
                        Collected(log[p], nextIndex[p][q]) # {}}
             entries(q) == IF q \in free THEN CollectEntries(log[p], nextIndex[p][q]) ELSE <<>>
             ms == {AppendRequest(p, q, entries(q)) : q \in remotePeers[p]}
  <2>2. msgs' \subseteq msgs \cup ms /\ mode[p] = "leader" /\ UNCHANGED log
    BY <2>1, SendOK DEF LeaderRun
  <2>3. \A q : entries(q) = <<>> \/ entries(q) = CollectEntries(log[p], nextIndex[p][q])
    OBVIOUS
  <2>4. remotePeers[p] \subseteq Peers
    BY DEF EngineInv, PeersOK, PeersTyped
  <2> HIDE DEF entries
  <2>5. \A r \in ms : \E q \in Peers : Sends(p, q, r)
    BY <2>2, <2>3, <2>4 DEF Sends
  <2>6. QED
    BY <2>2, <2>5 DEF RequestsChange
<1>4. CASE \E p \in Peers : FollowerTimeout(p) \/ CandidateRun(p) \/ LeaderAlone(p)
  <2>1. PICK p \in Peers : FollowerTimeout(p) \/ CandidateRun(p) \/ LeaderAlone(p)
    BY <1>4
  <2>2. CASE CandidateRun(p)
    <3> DEFINE ms == {VoteRequest(p, q) : q \in remotePeers[p] \ notified[p]}
    <3>1. msgs' \subseteq msgs \cup ms
      BY <2>2, SendOK DEF CandidateRun
    <3>2. \A r \in ms : r.type # "AppendEntriesRequest"
      BY DEF VoteRequest
    <3>3. QED
      BY <3>1, <3>2 DEF RequestsChange
  <2>3. CASE FollowerTimeout(p) \/ LeaderAlone(p)
    BY <1>1, <2>3 DEF FollowerTimeout, LeaderAlone
  <2>4. QED
    BY <2>1, <2>2, <2>3
<1>5. CASE \E m \in msgs : Receive(m)
  <2>1. PICK m \in msgs : Receive(m)
    BY <1>5
  <2>2. \E r : r.type # "AppendEntriesRequest" /\ msgs' \subseteq msgs \cup {r}
    <3>1. \A success, n, processed :
            AppendResponse(m, success, n, processed).type # "AppendEntriesRequest"
      BY DEF AppendResponse
    <3>2. \A granted : VoteResponse(m, granted).type # "AppendEntriesRequest"
      BY DEF VoteResponse
    <3>3. \A r : Reply(m, {r}) \/ Send({r}) => msgs' \subseteq msgs \cup {r}
      BY DEF Reply, Send
    <3>4. Reply(m, {}) \/ msgs' = msgs \ {m} => msgs' \subseteq msgs
      BY DEF Reply, Send
    <3>5. CASE msgs' \subseteq msgs
      BY <3>2, <3>5
    <3>6. CASE ~(msgs' \subseteq msgs)
      BY <2>1, <3>1, <3>2, <3>3, <3>4, <3>6
         DEF Receive, FollowerRejectsAppend, FollowerTakesChunk, FollowerAppends,
             CandidateFollows, LeaderFollows, LeaderHearsFailure, LeaderHearsSuccess,
             FollowerDeniesVote, FollowerGrantsVote, CandidateCounts, Deposed, Ignore
    <3>7. QED
      BY <3>5, <3>6
  <2>3. QED
    BY <2>2 DEF RequestsChange
<1>6. CASE UNCHANGED vars
  BY <1>1, <1>6 DEF vars
<1>7. QED
  BY <1>2, <1>3, <1>4, <1>5, <1>6 DEF Next, EngineNext

LEMMA StepStanding ==
    ASSUME EngineInv, [Next]_vars
    PROVE  StandingChanges
<1>1. PeersTyped
  BY DEF EngineInv, PeersOK
<1>2. ASSUME NEW p \in Peers, SetState(p, "follower") \/ SetState(p, "empty") \/ UNCHANGED mode
      PROVE  StandingChanges
  BY <1>1, <1>2 DEF SetState, PeersTyped, StandingChanges, Stands
<1>3. ASSUME NEW p \in Peers, mode[p] = "candidate", Lead(p)
      PROVE  StandingChanges
  BY <1>1, <1>3 DEF Lead, SetState, PeersTyped, StandingChanges, Stands
<1>4. ASSUME NEW p \in Peers, FollowerTimeout(p)
      PROVE  StandingChanges
  <2>1. CASE UNCHANGED mode
    BY <1>2, <2>1, <1>4
  <2>2. CASE p \in Candidates /\ SetState(p, "candidate")
    BY <1>1, <2>2 DEF SetState, PeersTyped, StandingChanges, Stands
  <2>3. QED
    BY <1>4, <2>1, <2>2 DEF FollowerTimeout, Candidates
<1>5. CASE EnvironmentNext
  BY <1>1, <1>2, <1>5 DEF EnvironmentNext, Start, Leave, addRemotePeerId, removeRemotePeerId,
                          submit, Lose, Tick, StandingChanges, Stands
<1>6. CASE \E p \in Peers : FollowerTimeout(p) \/ CandidateRun(p) \/ LeaderAlone(p)
  BY <1>2, <1>4, <1>6 DEF CandidateRun, LeaderAlone, StepDown
<1>7. CASE \E p \in Peers, expired \in SUBSET Peers : LeaderRun(p, expired)
  BY <1>2, <1>7 DEF LeaderRun
<1>8. CASE \E m \in msgs : Receive(m)
  <2>1. PICK m \in msgs : Receive(m)
    BY <1>8
  <2>2. m.to \in Peers
    BY MessageFields DEF EngineInv, MessageOK
  <2>3. CASE CandidateCounts(m.to, m)
    BY <1>2, <1>3, <2>2, <2>3 DEF CandidateCounts
  <2>4. CASE ~CandidateCounts(m.to, m)
    BY <1>2, <2>1, <2>2, <2>4
       DEF Receive, FollowerRejectsAppend, FollowerTakesChunk, FollowerAppends, AcceptHeader,
           CandidateFollows, LeaderFollows, LeaderHearsFailure, LeaderHearsSuccess,
           FollowerDeniesVote, FollowerGrantsVote, Deposed, Ignore, StepDown
  <2>5. QED
    BY <2>3, <2>4
<1>9. CASE UNCHANGED vars
  BY <1>9 DEF vars, StandingChanges, Stands
<1>10. QED
  BY <1>5, <1>6, <1>7, <1>8, <1>9 DEF Next, EngineNext

-----------------------------------------------------------------------------
(* Committing: what a commit event delivers is the entry of the log.        *)

Delivers(p, l) ==
    /\ \A i \in DOMAIN applied'[p] :
          \/ i \in DOMAIN applied[p] /\ applied'[p][i] = applied[p][i]
          \/ i \in DOMAIN l.entries /\ applied'[p][i] = l.entries[i].entry
    /\ DOMAIN applied'[p] =
          DOMAIN applied[p] \cup (l.commitIndex + 1 .. log'[p].commitIndex)
    /\ \A q \in Peers : q # p => applied'[q] = applied[q] /\ log'[q] = log[q]

LEMMA CommitDelivers ==
    ASSUME PeersTyped, NEW p \in Peers, NEW l, IsLog(l), GapFree(l), NEW x \in Int,
           CommitAndEmit(p, l, x)
    PROVE  /\ log'[p] = CommitUntil(l, x, now)
           /\ OnlyDrops(l, log'[p])
           /\ log'[p].nextIndex = l.nextIndex
           /\ Delivers(p, l)
<1> DEFINE committed == Committed(l, x)
           m == CommitUntil(l, x, now)
           row == [i \in DOMAIN applied[p] \cup committed |->
                        IF i \in committed THEN l.entries[i].entry ELSE applied[p][i]]
<1>1. now \in Nat /\ DOMAIN log = Peers /\ DOMAIN applied = Peers
  BY DEF PeersTyped
<1>2. /\ OnlyDrops(l, m) /\ m.nextIndex = l.nextIndex
      /\ committed = l.commitIndex + 1 .. m.commitIndex
      /\ committed \subseteq DOMAIN l.entries
  BY <1>1, CommitUntilOK
<1>3. log' = [log EXCEPT ![p] = m] /\ applied' = [applied EXCEPT ![p] = row]
  BY DEF CommitAndEmit
<1>4. /\ DOMAIN row = DOMAIN applied[p] \cup committed
      /\ \A i \in DOMAIN row : row[i] = IF i \in committed THEN l.entries[i].entry
                                                           ELSE applied[p][i]
  OBVIOUS
<1> HIDE DEF committed, m, row
<1>5. log'[p] = m /\ applied'[p] = row
  BY <1>1, <1>3
<1>6. \A q \in Peers : q # p => applied'[q] = applied[q] /\ log'[q] = log[q]
  BY <1>1, <1>3
<1>7. Delivers(p, l)
  BY <1>2, <1>4, <1>5, <1>6 DEF Delivers
<1>8. QED
  BY <1>2, <1>5, <1>7 DEF m

(* The log a follower commits in is in order.                               *)
LEMMA WithEntriesOK ==
    ASSUME EngineInv, NEW m \in msgs, m.type = "AppendEntriesRequest"
    PROVE  LET l == WithEntries(m.to, m)
               base == m.leaderNextIndex - Len(m.entries)
           IN  /\ IsLog(l) /\ GapFree(l)
               /\ OnlyWrites(log[m.to], base, m.entries, l)
               /\ m.entries = <<>> \/ base <= log[m.to].nextIndex =>
                      /\ l.firstIndex = log[m.to].firstIndex
                      /\ l.commitIndex = log[m.to].commitIndex
                      /\ DOMAIN log[m.to].entries \subseteq DOMAIN l.entries
<1> DEFINE p == m.to
<1>1. PeersTyped /\ MessageOK(m)
  BY DEF EngineInv, PeersOK
<1>2. /\ p \in Peers /\ m.leaderNextIndex \in Nat
      /\ m.entries \in Seq(Values) /\ Len(m.entries) <= m.leaderNextIndex /\ m.term \in Nat
  BY <1>1, MessageFields DEF MessageOK
<1>3. IsLog(log[p]) /\ GapFree(log[p]) /\ now \in Nat
  BY <1>1, <1>2 DEF EngineInv, PeersOK, PeersTyped, LogOK
<1>4. CASE m.entries = <<>>
  BY <1>3, <1>4 DEF WithEntries, OnlyWrites
<1>5. CASE m.entries # <<>>
  <2> DEFINE l == log[p]
             n == m.leaderNextIndex
             es == m.entries
             t == m.term
             k == MergeEntries(l, n, es, t, now)
             base == n - Len(es)
  <2>1. WithEntries(p, m) = k
    BY <1>5 DEF WithEntries
  <2>2. /\ IsLog(l) /\ GapFree(l) /\ now \in Nat
        /\ n \in Nat /\ es \in Seq(Values) /\ Len(es) <= n /\ t \in Nat
    BY <1>2, <1>3
  <2> HIDE DEF l, n, es, t
  <2>3. IsLog(k) /\ GapFree(k)
    BY <2>2, MergeEntriesOK
  <2>4. base <= l.nextIndex => k.firstIndex = l.firstIndex /\ k.commitIndex = l.commitIndex
    BY <2>2, MergeEntriesOK
  <2>5. base <= l.nextIndex => DOMAIN l.entries \subseteq DOMAIN k.entries
    BY <2>2, MergeEntriesOK
  <2>6. OnlyWrites(l, base, es, k)
    BY <2>2, MergeEntriesOK
  <2> HIDE DEF k
  <2>7. QED
    BY <1>5, <2>1, <2>3, <2>4, <2>5, <2>6 DEF l, n, es
<1>6. QED
  BY <1>4, <1>5

-----------------------------------------------------------------------------
(* One candidate.  Only c ever stands for election, so only c submits and   *)
(* sends entries, and its own log has no hole.  L is the history of what it *)
(* submitted, by index: every log, every request on the network and every   *)
(* delivery agrees with it, whatever was dropped, lost, repeated, overtaken *)
(* or reset meanwhile.                                                      *)

LogFollows(l, L) ==
    \A i \in DOMAIN l.entries : i \in DOMAIN L /\ l.entries[i].entry = L[i]

RequestFollows(m, L) ==
    LET base == m.leaderNextIndex - Len(m.entries)
    IN  \A k \in 1 .. Len(m.entries) :
            base + k - 1 \in DOMAIN L /\ m.entries[k] = L[base + k - 1]

DeliveryFollows(delivered, L) ==
    \A i \in DOMAIN delivered : i \in DOMAIN L /\ delivered[i] = L[i]

History(c, L) ==
    /\ DOMAIN L = 0 .. log[c].nextIndex - 1
    /\ \A p \in Peers : Stands(p) => p = c
    /\ Contiguous(log[c])
    /\ \A p \in Peers : LogFollows(log[p], L) /\ DeliveryFollows(applied[p], L)
    /\ \A m \in msgs : m.type = "AppendEntriesRequest" => m.from = c /\ RequestFollows(m, L)

(* A step of the logs that leaves the history as it is                      *)
LEMMA FollowersKeepHistory ==
    ASSUME EngineInv, NEW c \in Peers, NEW L, History(c, L), LogChange,
           ~\E p \in Peers, v \in Values : Submits(p, v)
    PROVE  /\ log'[c].nextIndex = log[c].nextIndex
           /\ Contiguous(log'[c])
           /\ \A p \in Peers : LogFollows(log'[p], L) /\ DeliveryFollows(applied'[p], L)
<1>1. PeersTyped
  BY DEF EngineInv, PeersOK
<1>2. CASE UNCHANGED <<log, applied>>
  BY <1>2 DEF History
<1>3. ASSUME NEW p \in Peers, NEW x \in Int, NEW l, IsLog(l), GapFree(l), LogFollows(l, L),
             CommitAndEmit(p, l, x)
      PROVE  \A q \in Peers : LogFollows(log'[q], L) /\ DeliveryFollows(applied'[q], L)
  <2>1. OnlyDrops(l, log'[p]) /\ Delivers(p, l)
    BY <1>1, <1>3, CommitDelivers
  <2>2. LogFollows(log'[p], L)
    BY <1>3, <2>1 DEF OnlyDrops, LogFollows
  <2>3. DeliveryFollows(applied'[p], L)
    BY <1>3, <2>1 DEF Delivers, LogFollows, DeliveryFollows, History
  <2>4. QED
    BY <2>1, <2>2, <2>3 DEF Delivers, History
<1>4. ASSUME NEW p \in Peers, NEW x \in Int, Commits(p, x)
      PROVE  /\ log'[c].nextIndex = log[c].nextIndex
             /\ Contiguous(log'[c])
             /\ \A q \in Peers : LogFollows(log'[q], L) /\ DeliveryFollows(applied'[q], L)
  <2> DEFINE l == log[p]
  <2>1. /\ IsLog(l) /\ GapFree(l) /\ LogFollows(l, L) /\ CommitAndEmit(p, l, x)
        /\ now \in Nat
    BY <1>1, <1>4 DEF EngineInv, PeersOK, PeersTyped, LogOK, History, Commits
  <2> HIDE DEF l
  <2>2. /\ log'[p] = CommitUntil(l, x, now) /\ log'[p].nextIndex = l.nextIndex
        /\ Delivers(p, l)
    BY <1>1, <2>1, CommitDelivers
  <2>3. log'[c].nextIndex = log[c].nextIndex
    BY <2>2 DEF Delivers, l
  <2>4. Contiguous(log'[c])
    <3>1. CASE c = p
      <4>1. Contiguous(l)
        BY <3>1 DEF History, l
      <4>2. QED
        BY <2>1, <2>2, <3>1, <4>1, CommitUntilContiguous
    <3>2. CASE c # p
      BY <2>2, <3>2 DEF Delivers, History
    <3>3. QED
      BY <3>1, <3>2
  <2>5. QED
    BY <1>3, <2>1, <2>3, <2>4
<1>5. ASSUME NEW m \in msgs, NEW x \in Int, Appends(m, x)
      PROVE  /\ log'[c].nextIndex = log[c].nextIndex
             /\ Contiguous(log'[c])
             /\ \A q \in Peers : LogFollows(log'[q], L) /\ DeliveryFollows(applied'[q], L)
  <2> DEFINE p == m.to
             l == WithEntries(p, m)
             base == m.leaderNextIndex - Len(m.entries)
  <2>1. /\ MessageOK(m) /\ m.type = "AppendEntriesRequest" /\ CommitAndEmit(p, l, x)
        /\ m.from = c /\ RequestFollows(m, L)
    BY <1>5 DEF EngineInv, Appends, History
  <2>2. p \in Peers /\ p # c /\ m.leaderNextIndex \in Nat /\ Len(m.entries) \in Nat
    BY <2>1, MessageFields DEF MessageOK
  <2>3. IsLog(l) /\ GapFree(l) /\ OnlyWrites(log[p], base, m.entries, l)
    BY <2>1, WithEntriesOK
  <2> HIDE DEF p, l
  <2>4. LogFollows(l, L)
    <3> SUFFICES ASSUME NEW i \in DOMAIN l.entries
                 PROVE  i \in DOMAIN L /\ l.entries[i].entry = L[i]
      BY DEF LogFollows
    <3>1. CASE i \in DOMAIN log[p].entries /\ l.entries[i] = log[p].entries[i]
      BY <2>2, <3>1 DEF History, LogFollows
    <3>2. CASE /\ i \in base .. base + Len(m.entries) - 1
               /\ l.entries[i].entry = m.entries[i - base + 1]
      <4> DEFINE k == i - base + 1
      <4>1. k \in 1 .. Len(m.entries) /\ i = base + k - 1
        <5>1. base \in Int
          BY <2>2
        <5> HIDE DEF base
        <5>2. QED
          BY <2>2, <3>2, <5>1
      <4>2. base + k - 1 \in DOMAIN L /\ m.entries[k] = L[base + k - 1]
        BY <2>1, <4>1 DEF RequestFollows
      <4>3. QED
        BY <3>2, <4>1, <4>2
    <3>3. QED
      BY <2>3, <3>1, <3>2 DEF OnlyWrites
  <2>5. \A q \in Peers : LogFollows(log'[q], L) /\ DeliveryFollows(applied'[q], L)
    BY <1>3, <2>1, <2>2, <2>3, <2>4
  <2>6. log'[c] = log[c]
    BY <1>1, <2>1, <2>2, <2>3, CommitDelivers DEF Delivers
  <2>7. QED
    BY <2>5, <2>6 DEF History
<1>6. QED
  BY <1>2, <1>4, <1>5 DEF LogChange

(* The history with the submitted v at its end                              *)
Extended(L, n, v) == [i \in 0 .. n |-> IF i = n THEN v ELSE L[i]]

LEMMA SubmitExtendsHistory ==
    ASSUME EngineInv, NEW c \in Peers, NEW L, History(c, L), NEW v \in Values, Submits(c, v)
    PROVE  LET K == Extended(L, log[c].nextIndex, v)
           IN  /\ DOMAIN K = 0 .. log'[c].nextIndex - 1
               /\ \A i \in DOMAIN L : i \in DOMAIN K /\ K[i] = L[i]
               /\ Contiguous(log'[c])
               /\ \A p \in Peers : LogFollows(log'[p], K) /\ DeliveryFollows(applied'[p], K)
<1> DEFINE l == log[c]
           n == l.nextIndex
           t == currentTerm[c]
           m == Submit(l, t, v, now)
           K == Extended(L, n, v)
<1>1. PeersTyped
  BY DEF EngineInv, PeersOK
<1>2. IsLog(l) /\ GapFree(l) /\ Contiguous(l) /\ t \in Nat /\ now \in Nat /\ n \in Nat
  BY <1>1, PeerNumbers DEF EngineInv, PeersOK, PeersTyped, LogOK, History
<1>3. /\ DOMAIN L = 0 .. n - 1
      /\ \A p \in Peers : LogFollows(log[p], L) /\ DeliveryFollows(applied[p], L)
  BY DEF History
<1>4. log' = [log EXCEPT ![c] = m] /\ applied' = applied
  BY DEF Submits
<1> HIDE DEF l
<1>5. /\ m.nextIndex = n + 1
      /\ DOMAIN m.entries = DOMAIN l.entries \cup {n}
      /\ m.entries[n].entry = v
      /\ \A i \in DOMAIN l.entries : i # n => m.entries[i] = l.entries[i]
  BY <1>2, SubmitWrites
<1>6. Contiguous(m)
  BY <1>2, SubmitContiguous
<1> HIDE DEF m, n
<1>7. log'[c] = m /\ \A p \in Peers : p # c => log'[p] = log[p]
  BY <1>1, <1>4 DEF PeersTyped
<1>8. /\ DOMAIN K = 0 .. n /\ K[n] = v
      /\ \A i \in DOMAIN L : i \in DOMAIN K /\ K[i] = L[i]
  BY <1>2, <1>3 DEF Extended
<1> HIDE DEF K
<1>9. LogFollows(m, K)
  <2>1. LogFollows(l, L)
    BY <1>3 DEF l
  <2>2. QED
    BY <2>1, <1>2, <1>5, <1>8 DEF LogFollows
<1>10. \A p \in Peers : LogFollows(log'[p], K)
  BY <1>3, <1>7, <1>8, <1>9 DEF LogFollows
<1>11. \A p \in Peers : DeliveryFollows(applied'[p], K)
  BY <1>3, <1>4, <1>8 DEF DeliveryFollows
<1>12. 0 .. n = 0 .. m.nextIndex - 1
  BY <1>2, <1>5
<1>13. QED
  BY <1>6, <1>7, <1>8, <1>10, <1>11, <1>12 DEF K, n, l

(* What a leader sends are the last entries of its log.                     *)
LEMMA SentFollows ==
    ASSUME EngineInv, NEW c \in Peers, NEW L, History(c, L),
           NEW p \in Peers, NEW q \in Peers, NEW r, Sends(p, q, r)
    PROVE  r.from = c /\ RequestFollows(r, L)
<1> DEFINE l == log[p]
           start == nextIndex[p][q]
           es == r.entries
<1>1. p = c
  BY DEF Sends, History, Stands
<1>2. /\ r.from = p /\ r.leaderNextIndex = l.nextIndex
      /\ es = <<>> \/ es = CollectEntries(l, start)
  BY DEF Sends, AppendRequest
<1>3. IsLog(l) /\ Contiguous(l) /\ LogFollows(l, L) /\ start \in Nat
  BY <1>1, PeerNumbers DEF EngineInv, PeersOK, PeersTyped, History
<1>4. CASE es = <<>>
  BY <1>1, <1>2, <1>4 DEF RequestFollows
<1>5. CASE es = CollectEntries(l, start)
  <2> HIDE DEF l, start, es
  <2> DEFINE base == l.nextIndex - Len(es)
  <2>1. \A k \in 1 .. Len(es) : /\ base + k - 1 \in DOMAIN l.entries
                                /\ es[k] = l.entries[base + k - 1].entry
    BY <1>3, <1>5, CollectContiguous
  <2>2. \A k \in 1 .. Len(es) : base + k - 1 \in DOMAIN L /\ es[k] = L[base + k - 1]
    BY <1>3, <2>1 DEF LogFollows
  <2>3. QED
    BY <1>1, <1>2, <2>2 DEF RequestFollows, es
<1>6. QED
  BY <1>2, <1>4, <1>5

(* A request that follows a history follows the longer one.                 *)
LEMMA FollowsLonger ==
    ASSUME NEW m, NEW L, NEW K, RequestFollows(m, L),
           \A i \in DOMAIN L : i \in DOMAIN K /\ K[i] = L[i]
    PROVE  RequestFollows(m, K)
  BY DEF RequestFollows

LEMMA StepHistory ==
    ASSUME EngineInv, [Next]_vars, NEW c \in Peers, Candidates \subseteq {c},
           NEW L, History(c, L)
    PROVE  \E K : History(c, K)'
<1>1. LogChange /\ RequestsChange /\ StandingChanges
  BY StepLogs, StepRequests, StepStanding
<1>2. \A p \in Peers : Stands(p)' => p = c
  BY <1>1 DEF StandingChanges, History
<1>3. \A m \in msgs' : m.type = "AppendEntriesRequest" => m.from = c /\ RequestFollows(m, L)
  <2>1. \A m \in msgs : m.type = "AppendEntriesRequest" => m.from = c /\ RequestFollows(m, L)
    BY DEF History
  <2>2. QED
    BY <1>1, <2>1, SentFollows DEF RequestsChange
<1>4. CASE ~\E p \in Peers, v \in Values : Submits(p, v)
  <2>1. /\ log'[c].nextIndex = log[c].nextIndex
        /\ Contiguous(log'[c])
        /\ \A p \in Peers : LogFollows(log'[p], L) /\ DeliveryFollows(applied'[p], L)
    BY <1>1, <1>4, FollowersKeepHistory
  <2>2. DOMAIN L = 0 .. log'[c].nextIndex - 1
    BY <2>1 DEF History
  <2>3. QED
    BY <1>2, <1>3, <2>1, <2>2 DEF History
<1>5. CASE \E p \in Peers, v \in Values : Submits(p, v)
  <2>1. PICK p \in Peers, v \in Values : Submits(p, v)
    BY <1>5
  <2>2. p = c
    BY <2>1 DEF Submits, History, Stands
  <2> DEFINE K == Extended(L, log[c].nextIndex, v)
  <2>3. /\ DOMAIN K = 0 .. log'[c].nextIndex - 1
        /\ \A i \in DOMAIN L : i \in DOMAIN K /\ K[i] = L[i]
        /\ Contiguous(log'[c])
        /\ \A q \in Peers : LogFollows(log'[q], K) /\ DeliveryFollows(applied'[q], K)
    BY <2>1, <2>2, SubmitExtendsHistory
  <2> HIDE DEF K
  <2>4. \A m \in msgs' : m.type = "AppendEntriesRequest" => m.from = c /\ RequestFollows(m, K)
    BY <1>3, <2>3, FollowsLonger
  <2>5. QED
    BY <1>2, <2>3, <2>4 DEF History
<1>6. QED
  BY <1>4, <1>5

(* There is at most one peer that may stand for election.                   *)
OneCandidate == \A p, q \in Candidates : p = q

(* Some peer is the only one ever to stand, and all agree with its history. *)
Agreement == Peers = {} \/ \E c \in Peers : Candidates \subseteq {c} /\ \E L : History(c, L)

LEMMA InitAgreement ==
    ASSUME OneCandidate, Init \/ Joined
    PROVE  Agreement
<1>1. CASE Peers = {}
  BY <1>1 DEF Agreement
<1>2. CASE Peers # {}
  <2>1. PICK c \in Peers : Candidates \subseteq {c}
    BY <1>2 DEF OneCandidate, Candidates
  <2>2. /\ \A p \in Peers : log[p] = EmptyLog /\ applied[p] = <<>> /\ ~Stands(p)
        /\ msgs = {}
    BY DEF Init, Joined, Fresh, Stands
  <2>3. \E L : History(c, L)
    <3> DEFINE none == [i \in {} |-> 0]
    <3>1. /\ DOMAIN EmptyLog.entries = {} /\ EmptyLog.firstIndex = 0 /\ EmptyLog.nextIndex = 0
          /\ 0 .. 0 - 1 = {} /\ DOMAIN <<>> = {} /\ DOMAIN none = {}
      BY DEF EmptyLog
    <3> HIDE DEF none
    <3>2. Contiguous(log[c]) /\ DOMAIN none = 0 .. log[c].nextIndex - 1
      BY <2>2, <3>1 DEF Contiguous
    <3>3. \A p \in Peers : LogFollows(log[p], none) /\ DeliveryFollows(applied[p], none)
      BY <2>2, <3>1 DEF LogFollows, DeliveryFollows
    <3>4. History(c, none)
      BY <2>2, <3>2, <3>3 DEF History
    <3>5. QED
      BY <3>4
  <2>4. QED
    BY <2>1, <2>3 DEF Agreement
<1>3. QED
  BY <1>1, <1>2

LEMMA StepAgreement ==
    ASSUME EngineInv, [Next]_vars, Agreement
    PROVE  Agreement'
  BY StepHistory DEF Agreement, Candidates

LEMMA AgreementHolds ==
    ASSUME OneCandidate
    PROVE  Spec \/ JoinedSpec => []Agreement
<1>1. Init \/ Joined => Agreement
  BY InitAgreement
<1>2. EngineInv /\ Agreement /\ [Next]_vars => Agreement'
  BY StepAgreement
<1>3. QED
  BY <1>1, <1>2, EngineInvariant, PTL DEF Spec, JoinedSpec

(* With one candidate any two logs agree wherever both have an entry: no    *)
(* loss, repetition or overtaking of requests, no expiry, no reset and no   *)
(* leaving and joining again of the leader sets two logs apart.             *)
THEOREM LogsAgreement ==
    ASSUME OneCandidate
    PROVE  Spec \/ JoinedSpec => []LogsAgree
<1>1. Agreement => LogsAgree
  BY DEF Agreement, History, LogFollows, LogsAgree
<1>2. QED
  BY <1>1, AgreementHolds, PTL

(* And all peers deliver the same message for the same index, the one their *)
(* logs hold there.                                                         *)
THEOREM SafeStateMachines ==
    ASSUME OneCandidate
    PROVE  Spec \/ JoinedSpec => []StateMachineSafety
<1>1. Agreement => StateMachineSafety
  BY DEF Agreement, History, LogFollows, DeliveryFollows, StateMachineSafety
<1>2. QED
  BY <1>1, AgreementHolds, PTL

-----------------------------------------------------------------------------
(* Logs that never expire.  Then every log holds every index from 0 on, so  *)
(* what a leader sends to a peer starts where it believes the log of the    *)
(* peer to end, which is never beyond that end (MatchIndexTruthful): no     *)
(* follower ever resets its log and jumps over what it has not delivered.   *)

Full(l) == l.firstIndex = 0 /\ Contiguous(l)

(* The entries of the request m start inside the log of its receiver or     *)
(* right at the end of it.                                                  *)
StartsWithin(m) ==
    m.entries = <<>> \/ m.leaderNextIndex - Len(m.entries) <= log[m.to].nextIndex

NothingMissed ==
    /\ \A p \in Peers : Full(log[p]) /\ DOMAIN applied[p] = 0 .. log[p].commitIndex
    /\ \A m \in msgs : m.type = "AppendEntriesRequest" => StartsWithin(m)

(* Without expiry a commit moves the commit index and nothing else.         *)
LEMMA CommitKeepsAll ==
    ASSUME ExpirationTime = 0, NEW l, IsLog(l), NEW n, NEW t
    PROVE  LET m == CommitUntil(l, n, t)
           IN  m.entries = l.entries /\ m.firstIndex = l.firstIndex
<1> DEFINE k == [l EXCEPT !.commitIndex = CommitEnd(l, n)]
<1>1. k.entries = l.entries /\ k.firstIndex = l.firstIndex
  BY DEF IsLog
<1> HIDE DEF k
<1>2. Expire(k, t) = k
  BY DEF Expire
<1>3. CommitUntil(l, n, t) = l \/ CommitUntil(l, n, t) = Expire(k, t)
  BY DEF CommitUntil, k
<1>4. QED
  BY <1>1, <1>2, <1>3

(* A step in which p commits in a full log                                  *)
LEMMA CommitMissesNothing ==
    ASSUME EngineInv, NothingMissed, ExpirationTime = 0, NEW p \in Peers, NEW x \in Int,
           NEW l, IsLog(l), GapFree(l), Full(l), l.commitIndex = log[p].commitIndex,
           CommitAndEmit(p, l, x)
    PROVE  \A q \in Peers : Full(log'[q]) /\ DOMAIN applied'[q] = 0 .. log'[q].commitIndex
<1>1. PeersTyped /\ now \in Nat
  BY DEF EngineInv, PeersOK, PeersTyped
<1>2. /\ log'[p] = CommitUntil(l, x, now)
      /\ log'[p].nextIndex = l.nextIndex
      /\ Delivers(p, l)
  BY <1>1, CommitDelivers
<1>3. log'[p].entries = l.entries /\ log'[p].firstIndex = l.firstIndex
  BY <1>2, CommitKeepsAll
<1>4. Full(log'[p])
  BY <1>2, <1>3 DEF Full, Contiguous
<1>5. DOMAIN applied'[p] = 0 .. log'[p].commitIndex
  <2>1. l.commitIndex <= log'[p].commitIndex
    BY <1>1, <1>2, CommitUntilOK
  <2>2. l.commitIndex \in Nat \cup {-1} /\ log'[p].commitIndex \in Int
    <3>1. IsLog(log'[p])
      BY <1>1, <1>2, CommitUntilOK
    <3>2. QED
      BY <3>1 DEF IsLog
  <2>3. DOMAIN applied'[p] = (0 .. l.commitIndex) \cup (l.commitIndex + 1 .. log'[p].commitIndex)
    BY <1>2 DEF Delivers, NothingMissed
  <2>4. QED
    BY <2>1, <2>2, <2>3
<1>6. QED
  BY <1>2, <1>4, <1>5 DEF Delivers, NothingMissed

LEMMA LogsMissNothing ==
    ASSUME EngineInv, NothingMissed, ExpirationTime = 0, LogChange
    PROVE  \A q \in Peers : Full(log'[q]) /\ DOMAIN applied'[q] = 0 .. log'[q].commitIndex
<1>1. PeersTyped
  BY DEF EngineInv, PeersOK
<1>2. CASE UNCHANGED <<log, applied>>
  BY <1>2 DEF NothingMissed
<1>3. ASSUME NEW p \in Peers, NEW v \in Values, Submits(p, v)
      PROVE  \A q \in Peers : Full(log'[q]) /\ DOMAIN applied'[q] = 0 .. log'[q].commitIndex
  <2> DEFINE l == log[p]
             t == currentTerm[p]
             m == Submit(l, t, v, now)
  <2>1. IsLog(l) /\ GapFree(l) /\ Full(l) /\ t \in Nat /\ now \in Nat
    BY <1>1, PeerNumbers DEF EngineInv, PeersOK, PeersTyped, LogOK, NothingMissed
  <2>2. log' = [log EXCEPT ![p] = m] /\ applied' = applied
    BY <1>3 DEF Submits
  <2> HIDE DEF l, t
  <2>3. m.firstIndex = l.firstIndex /\ m.commitIndex = l.commitIndex /\ Contiguous(m)
    BY <2>1, SubmitOK, SubmitWrites, SubmitContiguous DEF Full
  <2> HIDE DEF m
  <2>4. log'[p] = m /\ \A q \in Peers : q # p => log'[q] = log[q]
    BY <1>1, <2>2 DEF PeersTyped
  <2>5. QED
    BY <2>1, <2>2, <2>3, <2>4 DEF Full, NothingMissed, l
<1>4. ASSUME NEW p \in Peers, NEW x \in Int, Commits(p, x)
      PROVE  \A q \in Peers : Full(log'[q]) /\ DOMAIN applied'[q] = 0 .. log'[q].commitIndex
  <2> DEFINE l == log[p]
  <2>1. /\ IsLog(l) /\ GapFree(l) /\ Full(l) /\ CommitAndEmit(p, l, x)
        /\ l.commitIndex = log[p].commitIndex
    BY <1>1, <1>4 DEF EngineInv, PeersOK, PeersTyped, LogOK, NothingMissed, Commits
  <2> HIDE DEF l
  <2>2. QED
    BY <2>1, CommitMissesNothing
<1>5. ASSUME NEW m \in msgs, NEW x \in Int, Appends(m, x)
      PROVE  \A q \in Peers : Full(log'[q]) /\ DOMAIN applied'[q] = 0 .. log'[q].commitIndex
  <2> DEFINE p == m.to
             l == WithEntries(p, m)
             k == log[p]
  <2>1. /\ MessageOK(m) /\ m.type = "AppendEntriesRequest" /\ CommitAndEmit(p, l, x)
        /\ StartsWithin(m)
    BY <1>5 DEF EngineInv, Appends, NothingMissed
  <2>2. p \in Peers
    BY <2>1, MessageFields DEF MessageOK
  <2>3. IsLog(k) /\ GapFree(k) /\ Full(k)
    BY <1>1, <2>2 DEF EngineInv, PeersOK, PeersTyped, LogOK, NothingMissed
  <2>4. /\ IsLog(l) /\ GapFree(l)
        /\ l.firstIndex = k.firstIndex
        /\ l.commitIndex = k.commitIndex
        /\ DOMAIN k.entries \subseteq DOMAIN l.entries
    BY <2>1, WithEntriesOK DEF StartsWithin
  <2> HIDE DEF p, l, k
  <2>5. DOMAIN l.entries = 0 .. l.nextIndex - 1
    <3>1. /\ k.commitIndex \in Int /\ k.nextIndex \in Nat /\ l.nextIndex \in Nat
          /\ k.commitIndex < k.nextIndex
          /\ DOMAIN k.entries = 0 .. k.nextIndex - 1
      BY <2>3, <2>4 DEF IsLog, GapFree, Full, Contiguous
    <3>2. /\ k.commitIndex + 1 .. l.nextIndex - 1 \subseteq DOMAIN l.entries
          /\ DOMAIN l.entries \subseteq 0 .. l.nextIndex - 1
      BY <2>4 DEF GapFree
    <3>3. \A i \in 0 .. l.nextIndex - 1 : i \in 0 .. k.nextIndex - 1 \/
                                           i \in k.commitIndex + 1 .. l.nextIndex - 1
      BY <3>1
    <3>4. QED
      BY <2>4, <3>1, <3>2, <3>3
  <2>6. Full(l)
    BY <2>3, <2>4, <2>5 DEF Full, Contiguous
  <2>7. QED
    BY <2>1, <2>2, <2>4, <2>6, CommitMissesNothing DEF k
<1>6. QED
  BY <1>2, <1>3, <1>4, <1>5 DEF LogChange

(* What a leader sends starts within the log of the receiver.               *)
LEMMA SentStartsWithin ==
    ASSUME EngineInv, NothingMissed, NEW p \in Peers, NEW q \in Peers, NEW r, Sends(p, q, r)
    PROVE  StartsWithin(r)'
<1> DEFINE l == log[p]
           start == nextIndex[p][q]
           es == r.entries
<1>1. /\ r.to = q /\ r.leaderNextIndex = l.nextIndex /\ log' = log
      /\ es = <<>> \/ es = CollectEntries(l, start)
  BY DEF Sends, AppendRequest
<1>2. /\ IsLog(l) /\ Full(l) /\ start \in Nat
      /\ start <= log[q].nextIndex
  BY PeerNumbers DEF EngineInv, PeersOK, PeersTyped, MembershipOK, NothingMissed
<1>3. CASE es = <<>>
  BY <1>3 DEF StartsWithin
<1>4. CASE es # <<>>
  <2> HIDE DEF l, start, es
  <2>1. es = CollectEntries(l, start)
    BY <1>1, <1>4
  <2>2. l.nextIndex - Len(es) = start
    <3>1. es # <<>> => l.nextIndex - Len(es) = IF start < l.firstIndex THEN l.firstIndex ELSE start
      BY <1>2, <2>1, CollectContiguous DEF Full
    <3>2. l.firstIndex = 0
      BY <1>2 DEF Full
    <3>3. QED
      BY <1>2, <1>4, <3>1, <3>2
  <2>3. QED
    BY <1>1, <1>2, <2>2 DEF StartsWithin, es
<1>5. QED
  BY <1>3, <1>4

LEMMA StepMissesNothing ==
    ASSUME EngineInv, [Next]_vars, NothingMissed, ExpirationTime = 0
    PROVE  NothingMissed'
<1>1. LogChange /\ RequestsChange /\ EngineInv' /\ Grows
  BY StepLogs, StepRequests, StepInv
<1>2. \A q \in Peers : Full(log'[q]) /\ DOMAIN applied'[q] = 0 .. log'[q].commitIndex
  BY <1>1, LogsMissNothing
<1>3. ASSUME NEW m \in msgs, m.type = "AppendEntriesRequest"
      PROVE  StartsWithin(m)'
  <2>1. StartsWithin(m) /\ m.to \in Peers /\ MessageOK(m)
    BY <1>3, MessageFields DEF NothingMissed, EngineInv, MessageOK
  <2>2. /\ log[m.to].nextIndex \in Nat /\ log'[m.to].nextIndex \in Nat
        /\ log[m.to].nextIndex <= log'[m.to].nextIndex
    BY <1>1, <2>1 DEF EngineInv, PeersOK, PeersTyped, IsLog, Grows
  <2>3. m.leaderNextIndex \in Nat /\ Len(m.entries) \in Nat
    BY <1>3, <2>1, MessageFields DEF MessageOK
  <2>4. QED
    BY <2>1, <2>2, <2>3 DEF StartsWithin
<1>4. \A m \in msgs' : m.type = "AppendEntriesRequest" => StartsWithin(m)'
  BY <1>1, <1>3, SentStartsWithin DEF RequestsChange
<1>5. QED
  BY <1>2, <1>4 DEF NothingMissed

(* With logs that never expire every index up to the commit index of a peer *)
(* was delivered there, whoever led and whatever became of the messages.    *)
THEOREM EveryCommitIsDelivered == Spec \/ JoinedSpec => []EveryCommitDelivered
<1>1. Init \/ Joined => (ExpirationTime = 0 => NothingMissed)
  <2>1. ASSUME Init \/ Joined
        PROVE  NothingMissed
    <3>1. (\A p \in Peers : log[p] = EmptyLog /\ applied[p] = <<>>) /\ msgs = {}
      BY <2>1 DEF Init, Joined, Fresh
    <3>2. /\ DOMAIN EmptyLog.entries = {} /\ EmptyLog.firstIndex = 0 /\ EmptyLog.nextIndex = 0
          /\ EmptyLog.commitIndex = -1
          /\ 0 .. 0 - 1 = {} /\ 0 .. -1 = {} /\ DOMAIN <<>> = {}
      BY DEF EmptyLog
    <3>3. Full(EmptyLog) /\ 0 .. EmptyLog.commitIndex = {}
      BY <3>2 DEF Full, Contiguous
    <3>4. QED
      BY <3>1, <3>2, <3>3 DEF NothingMissed
  <2>2. QED
    BY <2>1
<1>2. EngineInv /\ (ExpirationTime = 0 => NothingMissed) /\ [Next]_vars
      => (ExpirationTime = 0 => NothingMissed)'
  BY StepMissesNothing
<1>3. (ExpirationTime = 0 => NothingMissed) => EveryCommitDelivered
  BY DEF NothingMissed, EveryCommitDelivered
<1>4. QED
  BY <1>1, <1>2, <1>3, EngineInvariant, PTL DEF Spec, JoinedSpec
=============================================================================
