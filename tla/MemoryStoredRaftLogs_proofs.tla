-------------------- MODULE MemoryStoredRaftLogs_proofs --------------------
(* One log under any sequence of calls: it stays a log without gap above    *)
(* its commit index, only a reset discards at or above that index, its      *)
(* estimate of bytes is right, and merging is what the code's loop does.    *)
(* And what fills it: the engine's messages arrive as they were sent, and   *)
(* requests are put together from their chunks.                             *)
EXTENDS MCMemoryStoredRaftLogs, RaftLogs_proofs, SequenceTheorems

\* The inductive invariant: a call keeps the log well formed only because it
\* has no gap, and the other way round.
LogInv == TypeOK /\ NoGapAboveCommit

(* An empty log has no gap.                                                 *)
LEMMA InitLogInv == Init => LogInv
  BY EmptyLogOK DEF Init, LogInv, TypeOK, NoGapAboveCommit

(* What every step but a reset keeps, besides the invariant.                *)
KeepsAboveCommit ==
    \A i \in DOMAIN log.entries : i >= log'.commitIndex => i \in DOMAIN log'.entries

(* Every call keeps the invariant, and all but a reset the entries above.   *)
LEMMA StepLogInv ==
    ASSUME LogInv, [Next]_vars
    PROVE  /\ LogInv'
           /\ \/ \E index \in Indices : log' = Reset(index)
              \/ KeepsAboveCommit
<1> USE DEF LogInv, TypeOK, NoGapAboveCommit, KeepsAboveCommit, Terms, Indices
<1>0. MaxTerm \in Nat /\ MaxIndex \in Nat
  BY BoundsAssumption
<1>1. ASSUME NEW term \in Terms, NEW v \in Values, submit(term, v)
      PROVE  LogInv' /\ KeepsAboveCommit
  <2>1. term \in Nat /\ log' = Submit(log, term, v, now) /\ now' = now
    BY <1>0, <1>1 DEF submit
  <2>2. QED
    BY <2>1, SubmitOK
<1>2. ASSUME NEW index \in Indices, NEW term \in Terms, NEW v \in Values,
             compareAndOverride(index, term, v)
      PROVE  LogInv' /\ KeepsAboveCommit
  <2>1. /\ index \in Nat /\ term \in Nat
        /\ log' = CompareAndOverride(log, index, term, v, now) /\ now' = now
    BY <1>0, <1>2 DEF compareAndOverride
  <2>2. QED
    BY <2>1, CompareAndOverrideOK
<1>3. ASSUME NEW index \in Indices, NEW term \in Terms, NEW v \in Values,
             compareAndAdd(index, term, v)
      PROVE  LogInv' /\ KeepsAboveCommit
  <2>1. /\ index \in Nat /\ term \in Nat
        /\ log' = CompareAndAdd(log, index, term, v, now) /\ now' = now
    BY <1>0, <1>3 DEF compareAndAdd
  <2>2. QED
    BY <2>1, CompareAndAddOK
<1>4. ASSUME NEW index \in Indices, commitUntil(index)
      PROVE  LogInv' /\ KeepsAboveCommit
  <2>1. index \in Int /\ log' = CommitUntil(log, index, now) /\ now' = now
    BY <1>0, <1>4 DEF commitUntil
  <2>2. QED
    BY <2>1, CommitUntilOK
<1>5. ASSUME NEW index \in Indices, removeUntil(index)
      PROVE  LogInv' /\ KeepsAboveCommit
  <2>1. index \in Nat /\ log' = RemoveUntil(log, index) /\ now' = now
    BY <1>0, <1>5 DEF removeUntil
  <2>2. QED
    BY <2>1, RemoveUntilOK
<1>6. ASSUME NEW index \in Indices, reset(index)
      PROVE  LogInv' /\ log' = Reset(index)
  <2>1. index \in Nat /\ log' = Reset(index) /\ now' = now
    BY <1>0, <1>6 DEF reset
  <2>2. QED
    BY <2>1, ResetOK
<1>7. ASSUME Tick
      PROVE  LogInv' /\ KeepsAboveCommit
  BY <1>7 DEF Tick
<1>8. CASE UNCHANGED vars
  BY <1>8 DEF vars
<1>9. QED
  BY <1>1, <1>2, <1>3, <1>4, <1>5, <1>6, <1>7, <1>8 DEF Next

(* Type correctness: whatever is called in whatever order, the private      *)
(* fields stay in their domains and every entry has an index, a term and a  *)
(* message.                                                                 *)
THEOREM TypeCorrect == Spec => []TypeOK
<1>1. LogInv /\ [Next]_vars => LogInv'
  BY StepLogInv
<1>2. LogInv => TypeOK
  BY DEF LogInv
<1>3. QED
  BY InitLogInv, <1>1, <1>2, PTL DEF Spec

(* No call order leaves a gap above the commit index, so commitUntil never  *)
(* meets the missing entry its warning is about.                            *)
THEOREM NeverAGapAboveCommit == Spec => []NoGapAboveCommit
<1>1. LogInv /\ [Next]_vars => LogInv'
  BY StepLogInv
<1>2. LogInv => NoGapAboveCommit
  BY DEF LogInv
<1>3. QED
  BY InitLogInv, <1>1, <1>2, PTL DEF Spec

(* Expiry and removal reach committed entries below the commit index only.  *)
THEOREM DiscardsStayBelowCommit == Spec => DiscardsOnlyBelowCommit
<1>1. LogInv /\ [Next]_vars => LogInv'
  BY StepLogInv
<1>2. LogInv /\ [Next]_vars =>
          [\/ \E index \in Indices : log' = Reset(index)
           \/ \A i \in DOMAIN log.entries :
                i >= log'.commitIndex => i \in DOMAIN log'.entries]_vars
  BY StepLogInv DEF KeepsAboveCommit
<1>3. QED
  BY InitLogInv, <1>1, <1>2, PTL DEF Spec, DiscardsOnlyBelowCommit

-----------------------------------------------------------------------------
(* The byte estimate.                                                       *)

(* Every call keeps the estimate right.                                     *)
LEMMA StepBytes ==
    ASSUME LogInv, BytesRight(log), [Next]_vars
    PROVE  BytesRight(log)'
<1> USE DEF LogInv, TypeOK, NoGapAboveCommit, Terms, Indices
<1>0. MaxTerm \in Nat /\ MaxIndex \in Nat
  BY BoundsAssumption
<1>1. ASSUME NEW term \in Terms, NEW v \in Values, submit(term, v)
      PROVE  BytesRight(log')
  <2>1. term \in Nat /\ log' = Submit(log, term, v, now)
    BY <1>0, <1>1 DEF submit
  <2> QED
    BY <2>1, SubmitBytes
<1>2. ASSUME NEW index \in Indices, NEW term \in Terms, NEW v \in Values,
             compareAndOverride(index, term, v)
      PROVE  BytesRight(log')
  <2>1. /\ index \in Nat /\ term \in Nat
        /\ log' = CompareAndOverride(log, index, term, v, now)
    BY <1>0, <1>2 DEF compareAndOverride
  <2> QED
    BY <2>1, CompareAndOverrideBytes
<1>3. ASSUME NEW index \in Indices, NEW term \in Terms, NEW v \in Values,
             compareAndAdd(index, term, v)
      PROVE  BytesRight(log')
  <2>1. /\ index \in Nat /\ term \in Nat
        /\ log' = CompareAndAdd(log, index, term, v, now)
    BY <1>0, <1>3 DEF compareAndAdd
  <2> QED
    BY <2>1, CompareAndAddBytes
<1>4. ASSUME NEW index \in Indices, commitUntil(index)
      PROVE  BytesRight(log')
  <2>1. index \in Int /\ log' = CommitUntil(log, index, now)
    BY <1>0, <1>4 DEF commitUntil
  <2> QED
    BY <2>1, CommitUntilBytes
<1>5. ASSUME NEW index \in Indices, removeUntil(index)
      PROVE  BytesRight(log')
  <2>1. index \in Nat /\ log' = RemoveUntil(log, index)
    BY <1>0, <1>5 DEF removeUntil
  <2> QED
    BY <2>1, RemoveUntilBytes
<1>6. ASSUME NEW index \in Indices, reset(index)
      PROVE  BytesRight(log')
  <2>1. index \in Nat /\ log' = Reset(index)
    BY <1>0, <1>6 DEF reset
  <2> QED
    BY <2>1, ResetBytes
<1>7. CASE Tick \/ UNCHANGED vars
  BY <1>7 DEF Tick, vars
<1> QED
  BY <1>1, <1>2, <1>3, <1>4, <1>5, <1>6, <1>7 DEF Next

\* The inductive invariant with the estimate: what a discard subtracts is what was
\* added only if the log has no entry outside.
BytesInv == LogInv /\ BytesRight(log)

(* So that the two hold always.                                             *)
LEMMA BytesInvInvariant == Spec => []BytesInv
<1>1. Init => BytesInv
  BY InitLogInv, EmptyLogBytes DEF Init, BytesInv
<1>2. BytesInv /\ [Next]_vars => BytesInv'
  BY StepLogInv, StepBytes DEF BytesInv
<1> QED
  BY <1>1, <1>2, PTL DEF Spec

(* The increments and decrements of six methods never lose and never count  *)
(* twice a byte: the estimate is always the sum over the entries in the log.*)
THEOREM EstimateIsRight == Spec => []BytesMatchEntries
<1>1. BytesInv => BytesMatchEntries
  BY DEF BytesInv, BytesRight, BytesMatchEntries
<1> QED
  BY <1>1, BytesInvInvariant, PTL

(* On every log that any sequence of calls leads to, a follower's loop over *)
(* a request gives the log that the engine's model gives in one step, and   *)
(* none of its calls is refused (MergeIsTheLoop says it of requests of any  *)
(* length).                                                                 *)
THEOREM MergingIsTheLoop == Spec => []MergeIsLoop
<1>1. BytesInv => MergeIsLoop
  <2> SUFFICES ASSUME BytesInv, NEW next \in Indices, NEW term \in Terms,
                      NEW ms \in [1 .. 1 -> Values] \cup [1 .. 2 -> Values],
                      Len(ms) <= next
               PROVE  MergesLikeTheLoop(log, next, ms, term, now)
    BY DEF MergeIsLoop
  <2>1. ms \in Seq(Values)
    <3>1. PICK n \in Nat : ms \in [1 .. n -> Values]
      OBVIOUS
    <3> QED
      BY <3>1, SeqDef
  <2>2. next \in Nat /\ term \in Nat
    BY BoundsAssumption DEF Indices, Terms
  <2>3. IsLog(log) /\ GapFree(log) /\ BytesRight(log) /\ now \in Nat
    BY DEF BytesInv, LogInv, TypeOK, NoGapAboveCommit
  <2> QED
    BY <2>1, <2>2, <2>3, MergeIsTheLoop
<1> QED
  BY <1>1, BytesInvInvariant, PTL

-----------------------------------------------------------------------------
(* Messages of the engine on their way.                                     *)

(* A chunk arrives as it was sent, its entry or the absence of one included.*)
LEMMA ChunkArrives ==
    ASSUME NEW r,
           r = [type |-> "RaftAppendEntriesRequestChunk", requestId |-> r.requestId,
                peerId |-> r.peerId, leaderId |-> r.leaderId, leaderCommit |-> r.leaderCommit,
                leaderNextIndex |-> r.leaderNextIndex, prevLogIndex |-> r.prevLogIndex,
                prevLogTerm |-> r.prevLogTerm, term |-> r.term, sequence |-> r.sequence,
                lastMessage |-> r.lastMessage, entry |-> r.entry],
           r.leaderCommit # Nil, r.leaderNextIndex # Nil, r.prevLogIndex # Nil,
           r.prevLogTerm # Nil, r.sequence # Nil, r.lastMessage # Nil
    PROVE  receive(send(r)) = r
<1>1. PICK e : e = IF r.entry = Nil THEN <<>> ELSE <<r.entry>>
  OBVIOUS
<1>2. (IF e = <<>> THEN Nil ELSE e[1]) = r.entry
  <2>1. <<r.entry>> # <<>> /\ <<r.entry>>[1] = r.entry
    OBVIOUS
  <2> QED
    BY <1>1, <2>1
<1>3. r.type = "RaftAppendEntriesRequestChunk"
  OBVIOUS
<1>4. PICK m : m = [type |-> "RaftAppendEntriesRequestChunk", requestId |-> r.requestId,
                    destinationId |-> r.peerId, raftLeaderId |-> r.leaderId,
                    raftCommitIndex |-> r.leaderCommit, raftLeaderNextIndex |-> r.leaderNextIndex,
                    raftPrevLogIndex |-> r.prevLogIndex, raftPrevLogTerm |-> r.prevLogTerm,
                    raftTerm |-> r.term, sequence |-> r.sequence, lastMessage |-> r.lastMessage,
                    embeddedMessages |-> e]
  OBVIOUS
<1>5. send(r) = m
  BY <1>1, <1>3, <1>4 DEF send, encodeRaftAppendEntriesRequest
<1>6. m.type = "RaftAppendEntriesRequestChunk"
  BY <1>4
<1>7. receive(m) = decodeRaftAppendEntriesRequest(m)
  BY <1>6 DEF receive
<1>8. decodeRaftAppendEntriesRequest(m) =
        [type |-> "RaftAppendEntriesRequestChunk", requestId |-> r.requestId,
         peerId |-> r.peerId, leaderId |-> r.leaderId, leaderCommit |-> r.leaderCommit,
         leaderNextIndex |-> r.leaderNextIndex, prevLogIndex |-> r.prevLogIndex,
         prevLogTerm |-> r.prevLogTerm, term |-> r.term, sequence |-> r.sequence,
         lastMessage |-> r.lastMessage, entry |-> r.entry]
  BY <1>2, <1>4 DEF decodeRaftAppendEntriesRequest
<1> QED
  BY <1>5, <1>7, <1>8

(* For any peers, ids, terms, indices and entries, every message of the    *)
(* engine arrives as it was sent: no field is mixed up, or taken for       *)
(* absent, and the responses go to where the requests came from.           *)
THEOREM RaftMessageArrives ==
    ASSUME NEW peers, NEW ids, NEW terms, NEW indices, Nil \notin indices, NEW entries,
           NEW r \in RaftMessages(peers, ids, terms, indices, entries)
    PROVE  ArrivesAsSent(r)
<1>0. /\ "RaftVoteRequest" # "RaftVoteResponse"
      /\ "RaftVoteRequest" # "RaftAppendEntriesRequestChunk"
      /\ "RaftVoteRequest" # "RaftAppendEntriesResponse"
      /\ "RaftVoteResponse" # "RaftAppendEntriesRequestChunk"
      /\ "RaftVoteResponse" # "RaftAppendEntriesResponse"
      /\ "RaftAppendEntriesRequestChunk" # "RaftAppendEntriesResponse"
  OBVIOUS
<1>1. ASSUME NEW term, NEW granted, NEW to, NEW from,
             NEW x, x = [type |-> "RaftVoteResponse", term |-> term, voteGranted |-> granted,
                         destinationPeerId |-> to, sourcePeerId |-> from]
      PROVE  receive(send(x)) = x
  <2>1. send(x) = [type |-> "RaftVoteResponse", raftTerm |-> term, success |-> granted,
                   destinationId |-> to, sourceId |-> from]
    BY <1>0, <1>1 DEF send, encodeRaftVoteResponse
  <2> QED
    BY <1>0, <1>1, <2>1 DEF receive, decodeRaftVoteResponse
<1>2. ASSUME NEW id, NEW from, NEW to, NEW term, NEW success, NEW next, NEW processed,
             NEW x, x = [type |-> "RaftAppendEntriesResponse", requestId |-> id,
                         sourcePeerId |-> from, destinationPeerId |-> to, term |-> term,
                         success |-> success, peerNextIndex |-> next, processed |-> processed]
      PROVE  receive(send(x)) = x
  <2>1. send(x) = [type |-> "RaftAppendEntriesResponse", requestId |-> id,
                   sourceId |-> from, destinationId |-> to, raftTerm |-> term,
                   success |-> success, raftPeerNextIndex |-> next, lastMessage |-> processed]
    BY <1>0, <1>2 DEF send, encodeRaftAppendEntriesResponse
  <2> QED
    BY <1>0, <1>2, <2>1 DEF receive, decodeRaftAppendEntriesResponse
<1>3. CASE r \in [type : {"RaftVoteRequest"}, term : terms, lastLogIndex : indices,
                  lastLogTerm : indices, peerId : peers, candidateId : peers]
  <2>1. r = [type |-> "RaftVoteRequest", term |-> r.term, lastLogIndex |-> r.lastLogIndex,
             lastLogTerm |-> r.lastLogTerm, peerId |-> r.peerId, candidateId |-> r.candidateId]
    BY <1>3
  <2>2. send(r) = [type |-> "RaftVoteRequest", raftTerm |-> r.term,
                   raftPrevLogIndex |-> r.lastLogIndex, raftPrevLogTerm |-> r.lastLogTerm,
                   destinationId |-> r.peerId, raftCandidateId |-> r.candidateId]
    BY <1>0, <1>3 DEF send, encodeRaftVoteRequest
  <2>3. receive(send(r)) = r
    BY <1>0, <2>1, <2>2 DEF receive, decodeRaftVoteRequest
  <2>4. ASSUME NEW granted \in BOOLEAN
        PROVE  LET x == receive(send(VoteResponse(r, granted)))
               IN  /\ x.destinationPeerId = r.candidateId /\ x.sourcePeerId = r.peerId
                   /\ x.term = r.term /\ x.voteGranted = granted
    BY <1>1 DEF VoteResponse
  <2> QED
    BY <1>0, <1>3, <2>3, <2>4 DEF ArrivesAsSent
<1>4. CASE r \in [type : {"RaftVoteResponse"}, term : terms, voteGranted : BOOLEAN,
                  destinationPeerId : peers, sourcePeerId : peers]
  <2>1. r = [type |-> "RaftVoteResponse", term |-> r.term, voteGranted |-> r.voteGranted,
             destinationPeerId |-> r.destinationPeerId, sourcePeerId |-> r.sourcePeerId]
    BY <1>4
  <2>2. receive(send(r)) = r
    BY <1>1, <2>1
  <2> QED
    BY <1>0, <1>4, <2>2 DEF ArrivesAsSent
<1>5. CASE r \in [type : {"RaftAppendEntriesRequestChunk"}, requestId : ids, peerId : peers,
                  leaderId : peers, leaderCommit : indices, leaderNextIndex : indices,
                  prevLogIndex : indices, prevLogTerm : indices, term : terms,
                  sequence : indices, lastMessage : BOOLEAN, entry : entries]
  <2>1. /\ r = [type |-> "RaftAppendEntriesRequestChunk", requestId |-> r.requestId,
                peerId |-> r.peerId, leaderId |-> r.leaderId, leaderCommit |-> r.leaderCommit,
                leaderNextIndex |-> r.leaderNextIndex, prevLogIndex |-> r.prevLogIndex,
                prevLogTerm |-> r.prevLogTerm, term |-> r.term, sequence |-> r.sequence,
                lastMessage |-> r.lastMessage, entry |-> r.entry]
        /\ r.leaderCommit # Nil /\ r.leaderNextIndex # Nil /\ r.prevLogIndex # Nil
        /\ r.prevLogTerm # Nil /\ r.sequence # Nil /\ r.lastMessage # Nil
    BY <1>5, NilAssumption
  <2>2. receive(send(r)) = r
    BY <2>1, ChunkArrives
  <2>3. LET x == receive(send(AppendResponse(r, TRUE, -1, FALSE)))
        IN  /\ x.destinationPeerId = r.leaderId /\ x.sourcePeerId = r.peerId
            /\ x.requestId = r.requestId /\ x.success /\ ~x.processed
    BY <1>2 DEF AppendResponse
  <2> QED
    BY <1>0, <1>5, <2>2, <2>3 DEF ArrivesAsSent
<1>6. CASE r \in [type : {"RaftAppendEntriesResponse"}, requestId : ids, sourcePeerId : peers,
                  destinationPeerId : peers, term : terms, success : BOOLEAN,
                  peerNextIndex : indices, processed : BOOLEAN]
  <2>1. r = [type |-> "RaftAppendEntriesResponse", requestId |-> r.requestId,
             sourcePeerId |-> r.sourcePeerId, destinationPeerId |-> r.destinationPeerId,
             term |-> r.term, success |-> r.success, peerNextIndex |-> r.peerNextIndex,
             processed |-> r.processed]
    BY <1>6
  <2>2. receive(send(r)) = r
    BY <1>2, <2>1
  <2> QED
    BY <1>0, <1>6, <2>2 DEF ArrivesAsSent
<1> QED
  BY <1>3, <1>4, <1>5, <1>6 DEF RaftMessages

(* The messages of the run are such messages.                               *)
THEOREM MessagesOfTheRun == Spec => []RaftMessagesArrive
<1>1. Nil \notin {-1, 0, 1}
  BY NilAssumption
<1>2. \A r \in RaftMessages({1, 2}, {1}, {0, 1}, {-1, 0, 1}, {Nil, a}) : ArrivesAsSent(r)
  BY <1>1, RaftMessageArrives
<1>3. RaftMessagesArrive
  BY <1>2 DEF RaftMessagesArrive
<1> QED
  BY <1>3, PTL

-----------------------------------------------------------------------------
(* Requests put together from chunks.                                       *)

\* The header of a request can be sent.
IsHeader(h) ==
    h.leaderCommit # Nil /\ h.leaderNextIndex # Nil /\ h.prevLogIndex # Nil /\ h.prevLogTerm # Nil

\* Requests with their ids, headers and entries; an entry is never absent.
AreRequests(headers, entries, V) ==
    /\ Nil \notin V /\ Nil \notin Seq(V)
    /\ \A id \in DOMAIN entries :
            /\ entries[id] \in Seq(V)
            /\ headers[id].requestId = id
            /\ IsHeader(headers[id])

\* Chunk s of request id, that has entries
ChunkOf(headers, entries, id, s) ==
    Chunk(headers[id], s, s + 1 = Len(entries[id]), entries[id][s + 1])

(* The fields of a chunk, and that it arrives.                              *)
LEMMA ChunkIs ==
    ASSUME NEW h, IsHeader(h), NEW s, s # Nil, NEW last, last # Nil, NEW e,
           NEW c, c = Chunk(h, s, last, e)
    PROVE  /\ c.requestId = h.requestId /\ c.sequence = s /\ c.lastMessage = last /\ c.entry = e
           /\ receive(send(c)) = c
<1>1. /\ c.requestId = h.requestId /\ c.sequence = s /\ c.lastMessage = last /\ c.entry = e
      /\ c.leaderCommit # Nil /\ c.leaderNextIndex # Nil /\ c.prevLogIndex # Nil
      /\ c.prevLogTerm # Nil /\ c.lastMessage # Nil
  BY DEF Chunk, IsHeader
<1>2. c = [type |-> "RaftAppendEntriesRequestChunk", requestId |-> c.requestId,
           peerId |-> c.peerId, leaderId |-> c.leaderId, leaderCommit |-> c.leaderCommit,
           leaderNextIndex |-> c.leaderNextIndex, prevLogIndex |-> c.prevLogIndex,
           prevLogTerm |-> c.prevLogTerm, term |-> c.term, sequence |-> c.sequence,
           lastMessage |-> c.lastMessage, entry |-> c.entry]
  BY DEF Chunk
<1> QED
  BY <1>1, <1>2, ChunkArrives

(* What the chunks of a request are.                                        *)
LEMMA SentIs ==
    ASSUME NEW headers, NEW entries, NEW V, AreRequests(headers, entries, V),
           NEW id \in DOMAIN entries, NEW N, N = Len(entries[id])
    PROVE  /\ N \in Nat
           /\ N = 0 => Sent(headers, entries, id) = {Chunk(headers[id], 0, TRUE, Nil)}
           /\ N # 0 => Sent(headers, entries, id) =
                          {ChunkOf(headers, entries, id, s) : s \in 0 .. N - 1}
<1>1. PICK es : es = entries[id] /\ es \in Seq(V) /\ N = Len(es) /\ N \in Nat
  BY DEF AreRequests
<1>2. CASE N = 0
  <2>1. es = <<>>
    BY <1>1, <1>2, EmptySeq
  <2>2. AppendEntries(headers[id], es) = <<Chunk(headers[id], 0, TRUE, Nil)>>
    BY <2>1 DEF AppendEntries
  <2>3. PICK c : c = Chunk(headers[id], 0, TRUE, Nil)
    OBVIOUS
  <2>4. Sent(headers, entries, id) = {<<c>>[i] : i \in DOMAIN <<c>>}
    BY <1>1, <2>2, <2>3 DEF Sent
  <2>5. DOMAIN <<c>> = {1} /\ <<c>>[1] = c
    OBVIOUS
  <2>6. {<<c>>[i] : i \in DOMAIN <<c>>} = {c}
    BY <2>5
  <2> QED
    BY <1>1, <1>2, <2>3, <2>4, <2>6
<1>3. CASE N # 0
  <2>1. es # <<>> /\ DOMAIN es = 1 .. N
    BY <1>1, <1>3
  <2>2. AppendEntries(headers[id], es)
            = [i \in 1 .. N |-> Chunk(headers[id], i - 1, i = N, es[i])]
    BY <1>1, <2>1 DEF AppendEntries
  <2> DEFINE F(s) == ChunkOf(headers, entries, id, s)
  <2>3. \A i \in 1 .. N : i - 1 \in 0 .. N - 1 /\ Chunk(headers[id], i - 1, i = N, es[i]) = F(i - 1)
    <3> SUFFICES ASSUME NEW i \in 1 .. N
                 PROVE  i - 1 \in 0 .. N - 1 /\ Chunk(headers[id], i - 1, i = N, es[i]) = F(i - 1)
      OBVIOUS
    <3>1. i - 1 \in 0 .. N - 1 /\ (i - 1) + 1 = i
      BY <1>1
    <3> QED
      BY <1>1, <3>1 DEF ChunkOf
  <2>4. \A s \in 0 .. N - 1 : s + 1 \in 1 .. N /\ (s + 1) - 1 = s
    BY <1>1
  <2>5. Sent(headers, entries, id) = {Chunk(headers[id], i - 1, i = N, es[i]) : i \in 1 .. N}
    <3>1. PICK ch : ch = AppendEntries(headers[id], es)
      OBVIOUS
    <3>2. Sent(headers, entries, id) = {ch[i] : i \in DOMAIN ch}
      BY <1>1, <3>1 DEF Sent
    <3>3. DOMAIN ch = 1 .. N /\ \A i \in 1 .. N : ch[i] = Chunk(headers[id], i - 1, i = N, es[i])
      BY <2>2, <3>1
    <3> QED
      BY <3>2, <3>3
  <2> HIDE DEF F
  <2>6. {Chunk(headers[id], i - 1, i = N, es[i]) : i \in 1 .. N} = {F(s) : s \in 0 .. N - 1}
    BY <2>3, <2>4
  <2> QED
    BY <1>1, <1>3, <2>5, <2>6 DEF F
<1> QED
  BY <1>1, <1>2, <1>3

(* The one message of a request without entries.                            *)
LEMMA SentKeepAlive ==
    ASSUME NEW headers, NEW entries, NEW V, AreRequests(headers, entries, V),
           NEW id \in DOMAIN entries, Len(entries[id]) = 0, NEW c \in Sent(headers, entries, id)
    PROVE  c = Chunk(headers[id], 0, TRUE, Nil) /\ Sent(headers, entries, id) = {c}
<1>1. PICK N : N = Len(entries[id])
  OBVIOUS
<1>2. N = 0 => Sent(headers, entries, id) = {Chunk(headers[id], 0, TRUE, Nil)}
  BY <1>1, SentIs
<1> QED
  BY <1>1, <1>2

(* A chunk of a request with entries has a number.                          *)
LEMMA SentChunks ==
    ASSUME NEW headers, NEW entries, NEW V, AreRequests(headers, entries, V),
           NEW id \in DOMAIN entries, NEW N, N = Len(entries[id]), N # 0,
           NEW c \in Sent(headers, entries, id)
    PROVE  \E s \in 0 .. N - 1 : c = ChunkOf(headers, entries, id, s)
<1>1. N # 0 => Sent(headers, entries, id) = {ChunkOf(headers, entries, id, s) : s \in 0 .. N - 1}
  BY SentIs
<1> QED
  BY <1>1

(* A chunk with an entry: its fields, that it arrives, and that no other is *)
(* the same.                                                                *)
LEMMA ChunkOfIs ==
    ASSUME NEW headers, NEW entries, NEW V, AreRequests(headers, entries, V),
           NEW id \in DOMAIN entries, NEW s \in 0 .. Len(entries[id]) - 1,
           NEW c, c = ChunkOf(headers, entries, id, s)
    PROVE  /\ c.requestId = id /\ c.sequence = s /\ c.entry = entries[id][s + 1]
           /\ c.lastMessage = (s + 1 = Len(entries[id])) /\ c.entry # Nil
           /\ receive(send(c)) = c
<1>1. PICK es : es = entries[id] /\ es \in Seq(V) /\ Len(es) \in Nat
  BY DEF AreRequests
<1>2. s + 1 \in 1 .. Len(es)
  BY <1>1
<1>3. es[s + 1] \in V
  BY <1>1, <1>2
<1>4. es[s + 1] # Nil
  BY <1>3 DEF AreRequests
<1>5. s # Nil
  BY <1>1, NilAssumption
<1>6. PICK last, h, e : /\ last = (s + 1 = Len(es)) /\ last # Nil
                        /\ h = headers[id] /\ e = es[s + 1]
  BY NilAssumption
<1>7. IsHeader(h) /\ h.requestId = id
  BY <1>6 DEF AreRequests
<1>8. c = Chunk(h, s, last, e)
  BY <1>1, <1>6 DEF ChunkOf
<1>9. /\ c.requestId = h.requestId /\ c.sequence = s /\ c.lastMessage = last /\ c.entry = e
      /\ receive(send(c)) = c
  BY <1>5, <1>6, <1>7, <1>8, ChunkIs
<1> QED
  BY <1>1, <1>4, <1>6, <1>7, <1>9

(* A request with an entry for each number gives the entries in order.      *)
LEMMA EntriesInOrder ==
    ASSUME NEW V, NEW es \in Seq(V), NEW request, DOMAIN request.entries = 0 .. Len(es) - 1,
           \A s \in 0 .. Len(es) - 1 : request.entries[s] = es[s + 1]
    PROVE  entriesOf(request) = es
<1>1. PICK N \in Nat : N = Len(es)
  OBVIOUS
<1>2. Cardinality(0 .. N - 1) = N
  <2>1. 0 .. N - 1 = {} \/ 0 <= N - 1
    BY <1>1
  <2>2. Cardinality(0 .. N - 1) = IF 0 > N - 1 THEN 0 ELSE N - 1 - 0 + 1
    <3>1. 0 \in Int /\ N - 1 \in Int
      BY <1>1
    <3> QED
      BY <3>1, FS_Interval
  <2> QED
    BY <1>1, <2>2
<1>3. Cardinality(DOMAIN request.entries) = N
  BY <1>1, <1>2
<1> DEFINE Upto(n) == SubSeq(es, 1, n)
           F == [n \in 0 .. N |-> Upto(n)]
           Goes(f) == f = [n \in 0 .. N |->
                IF n = 0 THEN <<>>
                ELSE IF n - 1 \in DOMAIN request.entries
                     THEN Append(f[n - 1], request.entries[n - 1])
                     ELSE f[n - 1]]
<1>4. Upto(0) = <<>> /\ Upto(N) = es
  BY <1>1
<1>5. \A n \in 1 .. N : Upto(n) = Append(Upto(n - 1), es[n])
  BY <1>1
<1>6. Goes(F)
  <2>1. ASSUME NEW n \in 0 .. N
        PROVE  F[n] = IF n = 0 THEN <<>>
                      ELSE IF n - 1 \in DOMAIN request.entries
                           THEN Append(F[n - 1], request.entries[n - 1])
                           ELSE F[n - 1]
    <3> HIDE DEF Upto
    <3>1. CASE n = 0
      BY <1>4, <3>1
    <3>2. CASE n # 0
      <4>1. n \in 1 .. N /\ n - 1 \in 0 .. N /\ n - 1 \in DOMAIN request.entries /\ (n - 1) + 1 = n
        BY <1>1, <3>2
      <4>2. F[n] = Upto(n) /\ F[n - 1] = Upto(n - 1) /\ request.entries[n - 1] = es[n]
        BY <1>1, <4>1
      <4> HIDE DEF F
      <4> QED
        BY <1>5, <3>2, <4>1, <4>2
    <3> QED
      BY <3>1, <3>2
  <2>2. F = [n \in 0 .. N |-> F[n]]
    OBVIOUS
  <2> HIDE DEF F
  <2> QED
    BY <2>1, <2>2
<1>7. PICK f : f = CHOOSE g : Goes(g)
  OBVIOUS
<1>8. Goes(f)
  <2> HIDE DEF Goes
  <2> QED
    BY <1>6, <1>7
<1>9. entriesOf(request) = f[N]
  BY <1>3, <1>7 DEF entriesOf
<1> DEFINE A == {n \in Nat : n <= N => f[n] = Upto(n)}
<1> HIDE DEF Upto, F
<1>10. 0 \in A
  <2>1. f[0] = <<>>
    BY <1>8
  <2> QED
    BY <1>4, <2>1
<1>11. ASSUME NEW n \in Nat, n \in A PROVE n + 1 \in A
  <2> SUFFICES ASSUME n + 1 <= N PROVE f[n + 1] = Upto(n + 1)
    OBVIOUS
  <2>1. n + 1 \in 1 .. N /\ n + 1 \in 0 .. N /\ n + 1 # 0 /\ (n + 1) - 1 = n /\ n <= N
        /\ n \in DOMAIN request.entries
    BY <1>1
  <2>2. f[n + 1] = Append(f[n], request.entries[n])
    BY <1>8, <2>1
  <2>3. f[n] = Upto(n) /\ request.entries[n] = es[n + 1]
    BY <1>1, <1>11, <2>1
  <2> QED
    BY <1>5, <2>1, <2>2, <2>3
<1>12. Nat \subseteq A
  <2> HIDE DEF A
  <2> QED
    BY <1>10, <1>11, UpFromZero
<1> QED
  BY <1>4, <1>9, <1>12

\* The record q of request id has chunks that are among those in A.
Gathered(headers, entries, id, q, A) ==
    /\ q = [header |-> q.header, entries |-> q.entries, endSeq |-> q.endSeq,
            ready |-> q.ready, failed |-> q.failed]
    /\ DOMAIN q.entries \subseteq 0 .. Len(entries[id]) - 1
    /\ \A s \in DOMAIN q.entries : /\ q.entries[s] = entries[id][s + 1]
                                   /\ ChunkOf(headers, entries, id, s) \in A
    /\ q.endSeq = IF Len(entries[id]) - 1 \in DOMAIN q.entries THEN Len(entries[id]) - 1 ELSE -1
    /\ ~q.ready

(* Enough numbers of a range are all of it.                                 *)
LEMMA AllByCount ==
    ASSUME NEW N \in Nat, NEW S, S \subseteq 0 .. N - 1
    PROVE  Cardinality(S) - 1 = N - 1 <=> S = 0 .. N - 1
<1>1. 0 \in Int /\ N - 1 \in Int
  OBVIOUS
<1>2. IsFiniteSet(0 .. N - 1) /\ Cardinality(0 .. N - 1) = IF 0 > N - 1 THEN 0 ELSE N - 1 - 0 + 1
  BY <1>1, FS_Interval
<1>3. PICK T : T = 0 .. N - 1
  OBVIOUS
<1>4. IsFiniteSet(T) /\ Cardinality(T) = N
  BY <1>2, <1>3
<1>5. S \subseteq T
  BY <1>3
<1>6. /\ IsFiniteSet(S) /\ Cardinality(S) <= Cardinality(T)
      /\ Cardinality(S) = Cardinality(T) => S = T
  BY <1>4, <1>5, FS_Subset
<1>7. Cardinality(S) \in Nat
  BY <1>6, FS_CardinalityType
<1>8. Cardinality(S) - 1 = N - 1 <=> Cardinality(S) = N
  BY <1>7
<1> QED
  BY <1>3, <1>4, <1>6, <1>8

\* t is what add makes of record q when chunk s of request id comes again.
AddedAgain(headers, entries, id, q, A, t) ==
    t.failed /\ Gathered(headers, entries, id, t, A) /\ DOMAIN t.entries = DOMAIN q.entries

\* t is what add makes of record q when the new chunk c with number s comes.
AddedNew(headers, entries, id, s, c, q, A, t) ==
    /\ ~t.failed
    /\ DOMAIN t.entries = DOMAIN q.entries \cup {s}
    /\ \A x \in DOMAIN t.entries : t.entries[x] = entries[id][x + 1]
    /\ t.ready <=> DOMAIN t.entries = 0 .. Len(entries[id]) - 1
    /\ ~t.ready => Gathered(headers, entries, id, t, A \cup {c})

(* A chunk that is there already changes nothing but that add throws.       *)
LEMMA AddAgain ==
    ASSUME NEW headers, NEW entries, NEW V, AreRequests(headers, entries, V),
           NEW id \in DOMAIN entries, NEW s \in 0 .. Len(entries[id]) - 1,
           NEW c, c = ChunkOf(headers, entries, id, s),
           NEW A, NEW q, Gathered(headers, entries, id, q, A), s \in DOMAIN q.entries,
           NEW t, t = add(q, c)
    PROVE  AddedAgain(headers, entries, id, q, A, t)
<1>1. /\ c.requestId = id /\ c.sequence = s /\ c.entry = entries[id][s + 1]
      /\ c.lastMessage = (s + 1 = Len(entries[id])) /\ c.entry # Nil
  BY ChunkOfIs
<1>2. PICK es : es = Put(q.entries, s, c.entry)
  OBVIOUS
<1>3. /\ DOMAIN es = DOMAIN q.entries
      /\ \A x \in DOMAIN es : es[x] = entries[id][x + 1]
  BY <1>1, <1>2 DEF Put, Gathered
<1>4. t = [q EXCEPT !.entries = es, !.failed = TRUE]
  BY <1>1, <1>2 DEF add
<1>5. t = [header |-> q.header, entries |-> es, endSeq |-> q.endSeq, ready |-> q.ready, failed |-> TRUE]
  BY <1>4 DEF Gathered
<1>6. t.entries = es /\ t.endSeq = q.endSeq /\ t.ready = q.ready /\ t.failed = TRUE /\ t.header = q.header
  BY <1>5
<1>7. t = [header |-> t.header, entries |-> t.entries, endSeq |-> t.endSeq,
           ready |-> t.ready, failed |-> t.failed]
  BY <1>5, <1>6
<1>8. ~t.ready
  BY <1>6 DEF Gathered
<1> QED
  BY <1>3, <1>6, <1>7, <1>8 DEF Gathered, AddedAgain

(* A new chunk is added, and makes the request ready when it is the last    *)
(* one missing.                                                             *)
LEMMA AddNew ==
    ASSUME NEW headers, NEW entries, NEW V, AreRequests(headers, entries, V),
           NEW id \in DOMAIN entries, NEW s \in 0 .. Len(entries[id]) - 1,
           NEW c, c = ChunkOf(headers, entries, id, s),
           NEW A, NEW q, Gathered(headers, entries, id, q, A), s \notin DOMAIN q.entries,
           NEW t, t = add(q, c)
    PROVE  AddedNew(headers, entries, id, s, c, q, A, t)
<1>1. /\ c.requestId = id /\ c.sequence = s /\ c.entry = entries[id][s + 1]
      /\ c.lastMessage = (s + 1 = Len(entries[id])) /\ c.entry # Nil
  BY ChunkOfIs
<1>2. PICK es : es = Put(q.entries, s, c.entry)
  OBVIOUS
<1>3. PICK N \in Nat : N = Len(entries[id])
  BY DEF AreRequests
<1>4. N - 1 \in Int /\ s \in Nat /\ s \in 0 .. N - 1 /\ N > 0
  BY <1>3
<1>5. /\ DOMAIN es = DOMAIN q.entries \cup {s}
      /\ \A x \in DOMAIN es : es[x] = entries[id][x + 1]
      /\ DOMAIN es \subseteq 0 .. N - 1
  BY <1>1, <1>2, <1>3 DEF Put, Gathered
<1>6. PICK endSeq : endSeq = IF c.lastMessage THEN s ELSE q.endSeq
  OBVIOUS
<1>7. endSeq = IF N - 1 \in DOMAIN es THEN N - 1 ELSE -1
  <2>1. c.lastMessage <=> s = N - 1
    <3>1. c.lastMessage <=> s + 1 = N
      <4>1. PICK last : last = (s + 1 = N)
        OBVIOUS
      <4>2. c.lastMessage = last
        BY <1>1, <1>3, <4>1
      <4> QED
        BY <4>1, <4>2
    <3>2. s + 1 = N <=> s = N - 1
      BY <1>4
    <3> QED
      BY <3>1, <3>2
  <2>2. q.endSeq = IF N - 1 \in DOMAIN q.entries THEN N - 1 ELSE -1
    BY <1>3 DEF Gathered
  <2> QED
    BY <1>5, <1>6, <2>1, <2>2
<1>8. PICK r, h : r = ready(es, endSeq, q.ready) /\ h = IF q.header = Nil THEN c ELSE q.header
  OBVIOUS
<1>9. t = [header |-> h, entries |-> es, endSeq |-> endSeq, ready |-> r, failed |-> FALSE]
  BY <1>1, <1>2, <1>6, <1>8 DEF add
<1>10. t.entries = es /\ t.endSeq = endSeq /\ t.ready = r /\ t.failed = FALSE /\ t.header = h
  BY <1>9
<1>11. r <=> DOMAIN es = 0 .. N - 1
  <2>1. CASE N - 1 \notin DOMAIN es
    <3>1. endSeq = -1
      BY <1>7, <2>1
    <3>2. r = q.ready
      BY <1>8, <3>1 DEF ready
    <3>3. DOMAIN es # 0 .. N - 1
      BY <1>4, <2>1
    <3> QED
      BY <3>2, <3>3 DEF Gathered
  <2>2. CASE N - 1 \in DOMAIN es
    <3>1. endSeq = N - 1
      BY <1>7, <2>2
    <3>2. CASE N - 1 = 0
      <4>1. r = TRUE
        BY <1>8, <3>1, <3>2 DEF ready
      <4>2. DOMAIN es = 0 .. N - 1
        BY <1>4, <1>5, <2>2, <3>2
      <4> QED
        BY <4>1, <4>2
    <3>3. CASE N - 1 > 0
      <4>1. r = (Cardinality(DOMAIN es) - 1 = N - 1)
        BY <1>4, <1>8, <3>1, <3>3 DEF ready
      <4>2. PICK D : D = DOMAIN es
        OBVIOUS
      <4>3. Cardinality(D) - 1 = N - 1 <=> D = 0 .. N - 1
        BY <1>5, <4>2, AllByCount
      <4> QED
        BY <4>1, <4>2, <4>3
    <3> QED
      BY <1>4, <3>2, <3>3
  <2> QED
    BY <2>1, <2>2
<1>12. ASSUME ~r PROVE Gathered(headers, entries, id, t, A \cup {c})
  <2>1. t = [header |-> t.header, entries |-> t.entries, endSeq |-> t.endSeq,
             ready |-> t.ready, failed |-> t.failed]
    BY <1>9, <1>10
  <2>2. \A x \in DOMAIN es : ChunkOf(headers, entries, id, x) \in A \cup {c}
    BY <1>5 DEF Gathered
  <2>3. ~t.ready
    BY <1>10, <1>12
  <2>4. /\ DOMAIN t.entries \subseteq 0 .. Len(entries[id]) - 1
        /\ \A x \in DOMAIN t.entries : /\ t.entries[x] = entries[id][x + 1]
                                       /\ ChunkOf(headers, entries, id, x) \in A \cup {c}
        /\ t.endSeq = IF Len(entries[id]) - 1 \in DOMAIN t.entries THEN Len(entries[id]) - 1 ELSE -1
    BY <1>3, <1>5, <1>7, <1>10, <2>2
  <2> QED
    BY <2>1, <2>3, <2>4 DEF Gathered
<1>13. ~t.failed
  BY <1>10
<1>14. t.ready <=> DOMAIN t.entries = 0 .. Len(entries[id]) - 1
  BY <1>3, <1>10, <1>11
<1>15. ~t.ready => ~r
  BY <1>10
<1> QED
  BY <1>5, <1>10, <1>12, <1>13, <1>14, <1>15 DEF AddedNew

(* A new record has nothing.                                                *)
LEMMA NewGathered ==
    ASSUME NEW headers, NEW entries, NEW V, AreRequests(headers, entries, V),
           NEW id \in DOMAIN entries, NEW A
    PROVE  Gathered(headers, entries, id, NewRequest, A) /\ DOMAIN NewRequest.entries = {}
  BY DEF Gathered, NewRequest

\* What the follower has pending after the chunks in A: of a request that is not
\* complete, all that has come.
Assembling(headers, entries, pending, A) ==
    /\ DOMAIN pending \subseteq DOMAIN entries
    /\ \A id \in DOMAIN pending : /\ Len(entries[id]) # 0
                                  /\ Gathered(headers, entries, id, pending[id], A)
    /\ \A id \in DOMAIN entries : \A s \in 0 .. Len(entries[id]) - 1 :
            ChunkOf(headers, entries, id, s) \in A /\ ~(Sent(headers, entries, id) \subseteq A) =>
                id \in DOMAIN pending /\ s \in DOMAIN pending[id].entries

\* No request that is pending is complete.
NoneComplete(headers, entries, pending, A) ==
    \A id \in DOMAIN pending : ~(Sent(headers, entries, id) \subseteq A)

\* out is right when chunk c of request id comes after the chunks in A.
RightAt(headers, entries, id, c, pending, A, out) ==
    /\ Assembling(headers, entries, out.pending, A \cup {c})
    /\ out.merge # Nil => Sent(headers, entries, id) \subseteq A \cup {c} /\ out.merge = entries[id]
    /\ Sent(headers, entries, id) \subseteq A \cup {c} /\ c \notin A => out.merge # Nil
    /\ c \notin A /\ NoneComplete(headers, entries, pending, A) =>
            NoneComplete(headers, entries, out.pending, A \cup {c})

(* Chunks of different requests are different.                              *)
LEMMA SentApart ==
    ASSUME NEW headers, NEW entries, NEW V, AreRequests(headers, entries, V),
           NEW id \in DOMAIN entries, NEW c \in Sent(headers, entries, id)
    PROVE  c.requestId = id
<1>1. PICK N : N = Len(entries[id])
  OBVIOUS
<1>2. CASE N = 0
  <2>1. c = Chunk(headers[id], 0, TRUE, Nil)
    BY <1>1, <1>2, SentKeepAlive
  <2> QED
    BY <2>1 DEF Chunk, AreRequests
<1>3. CASE N # 0
  <2>1. PICK s \in 0 .. N - 1 : c = ChunkOf(headers, entries, id, s)
    BY <1>1, <1>3, SentChunks
  <2> QED
    BY <1>1, <2>1, ChunkOfIs
<1> QED
  BY <1>2, <1>3

(* A request without entries is answered at once.                           *)
LEMMA KeepAliveRight ==
    ASSUME NEW headers, NEW entries, NEW V, AreRequests(headers, entries, V),
           NEW id \in DOMAIN entries, Len(entries[id]) = 0,
           NEW c \in Sent(headers, entries, id), NEW pending, NEW A,
           Assembling(headers, entries, pending, A)
    PROVE  RightAt(headers, entries, id, c, pending, A, Assemble(pending, receive(send(c))))
<1>1. c = Chunk(headers[id], 0, TRUE, Nil) /\ Sent(headers, entries, id) = {c}
  BY SentKeepAlive
<1>2. PICK h, last : h = headers[id] /\ last = TRUE
  OBVIOUS
<1>3. c.sequence = 0 /\ c.lastMessage = TRUE /\ c.entry = Nil /\ receive(send(c)) = c
  <2>1. IsHeader(h)
    BY <1>2 DEF AreRequests
  <2>2. 0 # Nil /\ last # Nil
    <3>1. 0 # Nil
      BY NilAssumption
    <3>2. TRUE # Nil
      BY NilAssumption, Zenon
    <3> QED
      BY <1>2, <3>1, <3>2
  <2>3. c = Chunk(h, 0, last, Nil)
    BY <1>1, <1>2
  <2>4. c.sequence = 0 /\ c.lastMessage = last /\ c.entry = Nil /\ receive(send(c)) = c
    BY <2>1, <2>2, <2>3, ChunkIs
  <2> QED
    BY <1>2, <2>4
<1>4. entries[id] = <<>> /\ <<>> # Nil
  <2>1. entries[id] \in Seq(V) /\ <<>> \in Seq(V) /\ Nil \notin Seq(V)
    BY EmptySeq DEF AreRequests
  <2> QED
    BY <2>1, EmptySeq
<1>5. PICK out : out = Assemble(pending, c)
  OBVIOUS
<1>6. out = [pending |-> pending, merge |-> <<>>, response |-> Nil]
  BY <1>3, <1>5 DEF Assemble
<1>7. out.pending = pending /\ out.merge = <<>>
  BY <1>6
<1>8. \A i \in DOMAIN entries : i # id => c \notin Sent(headers, entries, i)
  BY SentApart
<1>9. Assembling(headers, entries, pending, A \cup {c})
  <2>1. \A i \in DOMAIN pending : /\ Len(entries[i]) # 0
                                  /\ Gathered(headers, entries, i, pending[i], A \cup {c})
    BY DEF Assembling, Gathered
  <2>2. ASSUME NEW i \in DOMAIN entries, NEW s \in 0 .. Len(entries[i]) - 1,
               ChunkOf(headers, entries, i, s) \in A \cup {c},
               ~(Sent(headers, entries, i) \subseteq A \cup {c})
        PROVE  i \in DOMAIN pending /\ s \in DOMAIN pending[i].entries
    <3>1. i # id
      BY <1>1, <2>2
    <3>2. ChunkOf(headers, entries, i, s) # c
      <4>1. ChunkOf(headers, entries, i, s).requestId = i
        BY ChunkOfIs
      <4>2. c.requestId = id
        BY SentApart
      <4> QED
        BY <3>1, <4>1, <4>2
    <3> QED
      BY <2>2, <3>2 DEF Assembling
  <2> QED
    BY <2>1, <2>2 DEF Assembling
<1>10. ASSUME c \notin A, NoneComplete(headers, entries, pending, A)
       PROVE  NoneComplete(headers, entries, pending, A \cup {c})
  <2> SUFFICES ASSUME NEW i \in DOMAIN pending
               PROVE  ~(Sent(headers, entries, i) \subseteq A \cup {c})
    BY DEF NoneComplete
  <2>1. i \in DOMAIN entries /\ Len(entries[i]) # 0
    BY DEF Assembling
  <2>2. CASE i # id
    BY <1>8, <1>10, <2>1, <2>2 DEF NoneComplete
  <2> QED
    BY <2>1, <2>2
<1> QED
  BY <1>1, <1>3, <1>4, <1>5, <1>7, <1>9, <1>10 DEF RightAt

(* A chunk of a request with entries.                                       *)
LEMMA ChunkRight ==
    ASSUME NEW headers, NEW entries, NEW V, AreRequests(headers, entries, V),
           NEW id \in DOMAIN entries, Len(entries[id]) # 0,
           NEW c \in Sent(headers, entries, id), NEW pending, NEW A,
           Assembling(headers, entries, pending, A)
    PROVE  RightAt(headers, entries, id, c, pending, A, Assemble(pending, receive(send(c))))
<1>1. PICK N \in Nat : N = Len(entries[id]) /\ N # 0
  BY DEF AreRequests
<1>2. PICK sent : sent = Sent(headers, entries, id)
  OBVIOUS
<1>3. sent = {ChunkOf(headers, entries, id, s) : s \in 0 .. N - 1}
  BY <1>1, <1>2, SentIs
<1>4. PICK s \in 0 .. N - 1 : c = ChunkOf(headers, entries, id, s)
  BY <1>2, <1>3
<1>5. /\ c.requestId = id /\ c.sequence = s /\ c.entry = entries[id][s + 1] /\ c.entry # Nil
      /\ receive(send(c)) = c
  BY <1>1, <1>4, ChunkOfIs
<1>6. \A x \in 0 .. N - 1 : x # s => ChunkOf(headers, entries, id, x) # c
  BY <1>1, <1>5, ChunkOfIs
<1>7. \A i \in DOMAIN entries : i # id => c \notin Sent(headers, entries, i)
  BY <1>5, SentApart
<1>8. ASSUME NEW i \in DOMAIN entries, i # id, NEW x \in 0 .. Len(entries[i]) - 1
      PROVE  ChunkOf(headers, entries, i, x) # c
  BY <1>5, <1>8, ChunkOfIs
<1>9. PICK q : q = IF id \in DOMAIN pending THEN pending[id] ELSE NewRequest
  OBVIOUS
<1>10. Gathered(headers, entries, id, q, A)
  BY <1>9, NewGathered DEF Assembling
<1>11. PICK D : D = DOMAIN q.entries
  OBVIOUS
<1>12. D \subseteq 0 .. N - 1 /\ \A x \in D : ChunkOf(headers, entries, id, x) \in A
  BY <1>1, <1>10, <1>11 DEF Gathered
<1>13. ~(sent \subseteq A) =>
            \A x \in 0 .. N - 1 : ChunkOf(headers, entries, id, x) \in A => x \in D
  BY <1>1, <1>2, <1>9, <1>11 DEF Assembling
<1>14. PICK t : t = add(q, c)
  OBVIOUS
<1>15. PICK rest, more : /\ rest = [x \in DOMAIN pending \ {id} |-> pending[x]]
                         /\ more = Put(pending, id, t)
  OBVIOUS
<1>16. PICK out : out = Assemble(pending, receive(send(c)))
  OBVIOUS
<1>17. /\ t.failed \/ ~t.ready => out.pending = more /\ out.merge = Nil
       /\ ~t.failed /\ t.ready => out.pending = rest /\ out.merge = entriesOf(t)
  <2>1. out = Assemble(pending, c)
    BY <1>5, <1>16
  <2>2. CASE t.failed
    <3>1. out = [pending |-> more, merge |-> Nil, response |-> Nil]
      BY <1>5, <1>9, <1>14, <1>15, <2>1, <2>2 DEF Assemble
    <3> QED
      BY <2>2, <3>1
  <2>3. CASE ~t.failed /\ ~t.ready
    <3>1. out = [pending |-> more, merge |-> Nil, response |-> AppendResponse(c, TRUE, -1, FALSE)]
      BY <1>5, <1>9, <1>14, <1>15, <2>1, <2>3 DEF Assemble
    <3> QED
      BY <2>3, <3>1
  <2>4. CASE ~t.failed /\ t.ready
    <3>1. out = [pending |-> rest, merge |-> entriesOf(t), response |-> Nil]
      BY <1>5, <1>9, <1>14, <1>15, <2>1, <2>4 DEF Assemble
    <3> QED
      BY <2>4, <3>1
  <2> QED
    BY <2>2, <2>3, <2>4
<1>18. /\ DOMAIN rest = DOMAIN pending \ {id} /\ \A i \in DOMAIN rest : rest[i] = pending[i]
       /\ DOMAIN more = DOMAIN pending \cup {id} /\ more[id] = t
       /\ \A i \in DOMAIN pending : i # id => more[i] = pending[i]
  BY <1>15 DEF Put
<1>19. \A i \in DOMAIN pending : i # id =>
            /\ i \in DOMAIN entries /\ Len(entries[i]) # 0
            /\ Gathered(headers, entries, i, pending[i], A \cup {c})
  BY DEF Assembling, Gathered
<1>20. \A i \in DOMAIN entries : i # id =>
            \A x \in 0 .. Len(entries[i]) - 1 :
                /\ ChunkOf(headers, entries, i, x) \in A \cup {c}
                /\ ~(Sent(headers, entries, i) \subseteq A \cup {c})
                => i \in DOMAIN pending /\ x \in DOMAIN pending[i].entries
  BY <1>8 DEF Assembling
<1>21. NoneComplete(headers, entries, pending, A) =>
            \A i \in DOMAIN pending : i # id => ~(Sent(headers, entries, i) \subseteq A \cup {c})
  BY <1>7, <1>19 DEF NoneComplete
<1>22. ASSUME Gathered(headers, entries, id, t, A \cup {c}),
              ~(sent \subseteq A \cup {c}) =>
                    \A x \in 0 .. N - 1 :
                        ChunkOf(headers, entries, id, x) \in A \cup {c} => x \in DOMAIN t.entries
       PROVE  Assembling(headers, entries, more, A \cup {c})
  <2>1. DOMAIN more \subseteq DOMAIN entries
    BY <1>18, <1>19
  <2>2. \A i \in DOMAIN more : /\ Len(entries[i]) # 0
                               /\ Gathered(headers, entries, i, more[i], A \cup {c})
    BY <1>18, <1>19, <1>22
  <2>3. \A i \in DOMAIN entries : \A x \in 0 .. Len(entries[i]) - 1 :
            /\ ChunkOf(headers, entries, i, x) \in A \cup {c}
            /\ ~(Sent(headers, entries, i) \subseteq A \cup {c})
            => i \in DOMAIN more /\ x \in DOMAIN more[i].entries
    BY <1>1, <1>2, <1>18, <1>20, <1>22
  <2> QED
    BY <2>1, <2>2, <2>3 DEF Assembling
<1>23. s \in DOMAIN q.entries => AddedAgain(headers, entries, id, q, A, t)
  <2>1. s \in 0 .. Len(entries[id]) - 1
    BY <1>1
  <2> QED
    BY <1>4, <1>10, <1>14, <2>1, AddAgain
<1>24. s \notin DOMAIN q.entries => AddedNew(headers, entries, id, s, c, q, A, t)
  <2>1. s \in 0 .. Len(entries[id]) - 1
    BY <1>1
  <2> QED
    BY <1>4, <1>10, <1>14, <2>1, AddNew
<1>25. CASE s \in D
  <2>1. t.failed /\ Gathered(headers, entries, id, t, A) /\ DOMAIN t.entries = D
    <3>1. s \in DOMAIN q.entries
      BY <1>11, <1>25
    <3>2. AddedAgain(headers, entries, id, q, A, t)
      BY <1>23, <3>1
    <3> QED
      BY <1>11, <3>2 DEF AddedAgain
  <2>2. c \in A
    BY <1>4, <1>12, <1>25
  <2>3. A \cup {c} = A
    BY <2>2
  <2>4. Assembling(headers, entries, more, A \cup {c})
    BY <1>13, <1>22, <2>1, <2>3
  <2>5. out.pending = more /\ out.merge = Nil
    BY <1>17, <2>1
  <2> QED
    BY <1>16, <2>2, <2>4, <2>5 DEF RightAt
<1>26. CASE s \notin D
  <2>1. /\ ~t.failed
        /\ DOMAIN t.entries = D \cup {s}
        /\ \A x \in DOMAIN t.entries : t.entries[x] = entries[id][x + 1]
        /\ t.ready <=> D \cup {s} = 0 .. N - 1
        /\ ~t.ready => Gathered(headers, entries, id, t, A \cup {c})
    <3>1. s \notin DOMAIN q.entries
      BY <1>11, <1>26
    <3>2. AddedNew(headers, entries, id, s, c, q, A, t)
      BY <1>24, <3>1
    <3>3. DOMAIN t.entries = D \cup {s}
      BY <1>11, <3>2 DEF AddedNew
    <3>4. t.ready <=> D \cup {s} = 0 .. N - 1
      <4>1. t.ready <=> DOMAIN t.entries = 0 .. Len(entries[id]) - 1
        BY <3>2 DEF AddedNew
      <4> QED
        BY <1>1, <3>3, <4>1
    <3> QED
      BY <3>2, <3>3, <3>4 DEF AddedNew
  <2>2. c \notin A => \A x \in 0 .. N - 1 : ChunkOf(headers, entries, id, x) \in A => x \in D
    BY <1>2, <1>13
  <2>3. ~(sent \subseteq A \cup {c}) =>
            \A x \in 0 .. N - 1 :
                ChunkOf(headers, entries, id, x) \in A \cup {c} => x \in D \cup {s}
    BY <1>6, <1>13
  <2>4. c \notin A /\ sent \subseteq A \cup {c} => D \cup {s} = 0 .. N - 1
    BY <1>3, <1>4, <1>6, <1>12, <2>2
  <2>5. CASE ~t.ready
    <3>1. Assembling(headers, entries, more, A \cup {c})
      BY <1>22, <2>1, <2>3, <2>5
    <3>2. out.pending = more /\ out.merge = Nil
      BY <1>17, <2>5
    <3>3. c \notin A => ~(sent \subseteq A \cup {c})
      BY <2>1, <2>4, <2>5
    <3>4. c \notin A /\ NoneComplete(headers, entries, pending, A) =>
                NoneComplete(headers, entries, more, A \cup {c})
      BY <1>2, <1>18, <1>21, <3>3 DEF NoneComplete
    <3> QED
      BY <1>2, <1>16, <3>1, <3>2, <3>3, <3>4 DEF RightAt
  <2>6. CASE t.ready
    <3>1. D \cup {s} = 0 .. N - 1
      BY <2>1, <2>6
    <3>2. sent \subseteq A \cup {c}
      <4>1. \A x \in 0 .. N - 1 : ChunkOf(headers, entries, id, x) \in A \cup {c}
        BY <1>4, <1>12, <3>1
      <4> QED
        BY <1>3, <4>1
    <3>3. entriesOf(t) = entries[id]
      <4>1. PICK es : es = entries[id] /\ es \in Seq(V)
        BY DEF AreRequests
      <4>2. DOMAIN t.entries = 0 .. Len(es) - 1
        BY <1>1, <2>1, <3>1, <4>1
      <4>3. \A x \in 0 .. Len(es) - 1 : t.entries[x] = es[x + 1]
        BY <2>1, <4>1, <4>2
      <4> QED
        BY <4>1, <4>2, <4>3, EntriesInOrder
    <3>4. entries[id] # Nil
      BY DEF AreRequests
    <3>5. out.pending = rest /\ out.merge = entries[id]
      BY <1>17, <2>1, <2>6, <3>3
    <3>6. Assembling(headers, entries, rest, A \cup {c})
      <4>1. DOMAIN rest \subseteq DOMAIN entries
        BY <1>18, <1>19
      <4>2. \A i \in DOMAIN rest : /\ Len(entries[i]) # 0
                                   /\ Gathered(headers, entries, i, rest[i], A \cup {c})
        BY <1>18, <1>19
      <4>3. \A i \in DOMAIN entries : \A x \in 0 .. Len(entries[i]) - 1 :
                /\ ChunkOf(headers, entries, i, x) \in A \cup {c}
                /\ ~(Sent(headers, entries, i) \subseteq A \cup {c})
                => i \in DOMAIN rest /\ x \in DOMAIN rest[i].entries
        BY <1>2, <1>18, <1>20, <3>2
      <4> QED
        BY <4>1, <4>2, <4>3 DEF Assembling
    <3>7. NoneComplete(headers, entries, pending, A) =>
                NoneComplete(headers, entries, rest, A \cup {c})
      BY <1>18, <1>21 DEF NoneComplete
    <3> QED
      BY <1>2, <1>16, <3>2, <3>4, <3>5, <3>6, <3>7 DEF RightAt
  <2> QED
    BY <2>5, <2>6
<1> QED
  BY <1>25, <1>26

\* f is what the follower does at the first n arrivals.
Follows(f, arriving, n) ==
    f = [i \in 1 .. n |->
            Assemble(IF i = 1 THEN NoRequests ELSE f[i - 1].pending, receive(send(arriving[i])))]

(* The follower's recursive definition has a solution.                      *)
LEMMA FollowsExist ==
    ASSUME NEW arriving, NEW n \in Nat
    PROVE  \E f : Follows(f, arriving, n)
<1> DEFINE Step(pending, i) == Assemble(pending, receive(send(arriving[i])))
           Goes(f, m) == f = [i \in 1 .. m |-> Step(IF i = 1 THEN NoRequests ELSE f[i - 1].pending, i)]
           S == {m \in Nat : \E f : Goes(f, m)}
<1>1. 0 \in S
  <2> HIDE DEF Step
  <2> DEFINE f == [i \in 1 .. 0 |-> NoRequests]
  <2>1. Goes(f, 0)
    OBVIOUS
  <2> HIDE DEF f, Goes
  <2> QED
    BY <2>1
<1>2. ASSUME NEW m \in Nat, m \in S PROVE m + 1 \in S
  <2> HIDE DEF Step
  <2>1. PICK f : f = [i \in 1 .. m |-> Step(IF i = 1 THEN NoRequests ELSE f[i - 1].pending, i)]
    BY <1>2
  <2> DEFINE last == Step(IF m + 1 = 1 THEN NoRequests ELSE f[m].pending, m + 1)
             g == [i \in 1 .. m + 1 |-> IF i = m + 1 THEN last ELSE f[i]]
  <2>2. ASSUME NEW i \in 1 .. m + 1
        PROVE  g[i] = Step(IF i = 1 THEN NoRequests ELSE g[i - 1].pending, i)
    <3>1. CASE i = m + 1
      <4>1. g[i] = last
        BY <3>1
      <4>2. i # 1 => g[i - 1] = f[m]
        BY <3>1
      <4> HIDE DEF g
      <4> QED
        BY <3>1, <4>1, <4>2
    <3>2. CASE i \in 1 .. m
      <4>1. g[i] = f[i] /\ (i # 1 => g[i - 1] = f[i - 1])
        BY <3>2
      <4>2. f[i] = Step(IF i = 1 THEN NoRequests ELSE f[i - 1].pending, i)
        BY <2>1, <3>2
      <4> HIDE DEF g
      <4> QED
        BY <4>1, <4>2
    <3> QED
      BY <3>1, <3>2
  <2>3. g = [i \in 1 .. m + 1 |-> g[i]]
    OBVIOUS
  <2> HIDE DEF g
  <2>4. g = [i \in 1 .. m + 1 |-> Step(IF i = 1 THEN NoRequests ELSE g[i - 1].pending, i)]
    BY <2>2, <2>3
  <2> QED
    BY <2>4
<1>3. n \in S
  <2> HIDE DEF S
  <2> QED
    BY <1>1, <1>2, UpFromZero
<1> QED
  BY <1>3 DEF Follows

(* The follower is that solution.                                           *)
LEMMA FollowerIs ==
    ASSUME NEW arriving, Len(arriving) \in Nat
    PROVE  Follows(Follower(arriving), arriving, Len(arriving))
<1>1. Follower(arriving) = CHOOSE f : Follows(f, arriving, Len(arriving))
  BY DEF Follower, Follows
<1>2. \E f : Follows(f, arriving, Len(arriving))
  BY FollowsExist
<1> QED
  BY <1>1, <1>2

\* All that arrives are chunks of the requests.
Arriving(headers, entries, arriving) ==
    /\ Len(arriving) \in Nat /\ DOMAIN arriving = 1 .. Len(arriving)
    /\ \A i \in DOMAIN arriving : \E id \in DOMAIN entries : arriving[i] \in Sent(headers, entries, id)

\* What has come at first, and what the follower has pending then
Come(arriving, i) == {arriving[j] : j \in 1 .. i}
Pending(f, i) == IF i = 0 THEN NoRequests ELSE f[i].pending

(* One arrival.                                                             *)
LEMMA ArrivalRight ==
    ASSUME NEW headers, NEW entries, NEW V, AreRequests(headers, entries, V),
           NEW id \in DOMAIN entries, NEW c \in Sent(headers, entries, id), NEW pending, NEW A,
           Assembling(headers, entries, pending, A)
    PROVE  RightAt(headers, entries, id, c, pending, A, Assemble(pending, receive(send(c))))
<1>1. CASE Len(entries[id]) = 0
  BY <1>1, KeepAliveRight
<1>2. CASE Len(entries[id]) # 0
  BY <1>2, ChunkRight
<1> QED
  BY <1>1, <1>2

(* All arrivals, by induction over their number.                            *)
LEMMA ArrivalsRight ==
    ASSUME NEW headers, NEW entries, NEW V, AreRequests(headers, entries, V),
           NEW arriving, Arriving(headers, entries, arriving),
           NEW f, f = Follower(arriving)
    PROVE  \A i \in DOMAIN arriving : \E id \in DOMAIN entries :
                /\ arriving[i] \in Sent(headers, entries, id)
                /\ RightAt(headers, entries, id, arriving[i], Pending(f, i - 1),
                           Come(arriving, i - 1), f[i])
<1>1. PICK n \in Nat : n = Len(arriving) /\ DOMAIN arriving = 1 .. n
  BY DEF Arriving
<1>2. \A i \in 1 .. n :
            f[i] = Assemble(IF i = 1 THEN NoRequests ELSE f[i - 1].pending, receive(send(arriving[i])))
  <2>1. Follows(f, arriving, n)
    BY <1>1, FollowerIs
  <2> QED
    BY <2>1 DEF Follows
<1>3. \A i \in 1 .. n : f[i] = Assemble(Pending(f, i - 1), receive(send(arriving[i])))
  <2> SUFFICES ASSUME NEW i \in 1 .. n
               PROVE  f[i] = Assemble(Pending(f, i - 1), receive(send(arriving[i])))
    OBVIOUS
  <2>1. Pending(f, i - 1) = IF i = 1 THEN NoRequests ELSE f[i - 1].pending
    BY DEF Pending
  <2> QED
    BY <1>2, <2>1
<1>4. \A i \in 1 .. n : Come(arriving, i) = Come(arriving, i - 1) \cup {arriving[i]}
  BY <1>1 DEF Come
<1> DEFINE S == {m \in Nat : m <= n => Assembling(headers, entries, Pending(f, m), Come(arriving, m))}
<1>5. 0 \in S
  <2>1. Pending(f, 0) = NoRequests /\ Come(arriving, 0) = {} /\ DOMAIN NoRequests = {}
    BY DEF Pending, Come, NoRequests
  <2>2. Assembling(headers, entries, NoRequests, {})
    BY <2>1 DEF Assembling
  <2> QED
    BY <2>1, <2>2
<1>6. ASSUME NEW i \in 1 .. n,
             Assembling(headers, entries, Pending(f, i - 1), Come(arriving, i - 1))
      PROVE  /\ \E id \in DOMAIN entries :
                    /\ arriving[i] \in Sent(headers, entries, id)
                    /\ RightAt(headers, entries, id, arriving[i], Pending(f, i - 1),
                               Come(arriving, i - 1), f[i])
             /\ Assembling(headers, entries, Pending(f, i), Come(arriving, i))
  <2>1. PICK id \in DOMAIN entries : arriving[i] \in Sent(headers, entries, id)
    BY <1>1 DEF Arriving
  <2>2. PICK c, pending, A : c = arriving[i] /\ pending = Pending(f, i - 1) /\ A = Come(arriving, i - 1)
    OBVIOUS
  <2>3. c \in Sent(headers, entries, id) /\ Assembling(headers, entries, pending, A)
    BY <1>6, <2>1, <2>2
  <2>4. RightAt(headers, entries, id, c, pending, A, Assemble(pending, receive(send(c))))
    BY <2>3, ArrivalRight
  <2>5. f[i] = Assemble(pending, receive(send(c)))
    BY <1>3, <2>2
  <2>6. RightAt(headers, entries, id, arriving[i], Pending(f, i - 1), Come(arriving, i - 1), f[i])
    BY <2>2, <2>4, <2>5
  <2>7. Pending(f, i) = f[i].pending
    BY DEF Pending
  <2>8. Assembling(headers, entries, Pending(f, i), Come(arriving, i))
    <3>1. Assembling(headers, entries, f[i].pending, Come(arriving, i - 1) \cup {arriving[i]})
      BY <2>6 DEF RightAt
    <3> QED
      BY <1>4, <2>7, <3>1
  <2> QED
    BY <2>1, <2>6, <2>8
<1>7. ASSUME NEW m \in Nat, m \in S PROVE m + 1 \in S
  <2> SUFFICES ASSUME m + 1 <= n
               PROVE  Assembling(headers, entries, Pending(f, m + 1), Come(arriving, m + 1))
    OBVIOUS
  <2>1. PICK i : i = m + 1
    OBVIOUS
  <2>2. i \in 1 .. n /\ i - 1 = m /\ m <= n
    BY <1>1, <2>1
  <2>3. Assembling(headers, entries, Pending(f, i - 1), Come(arriving, i - 1))
    BY <1>7, <2>2
  <2>4. Assembling(headers, entries, Pending(f, i), Come(arriving, i))
    BY <1>6, <2>2, <2>3
  <2> QED
    BY <2>1, <2>4
<1>8. Nat \subseteq S
  <2> HIDE DEF S
  <2> QED
    BY <1>5, <1>7, UpFromZero
<1> QED
  <2> SUFFICES ASSUME NEW i \in 1 .. n
               PROVE  \E id \in DOMAIN entries :
                        /\ arriving[i] \in Sent(headers, entries, id)
                        /\ RightAt(headers, entries, id, arriving[i], Pending(f, i - 1),
                                   Come(arriving, i - 1), f[i])
    BY <1>1
  <2>1. i - 1 \in Nat /\ i - 1 <= n
    BY <1>1
  <2>2. Assembling(headers, entries, Pending(f, i - 1), Come(arriving, i - 1))
    BY <1>8, <2>1
  <2> QED
    BY <1>6, <2>2

(* For any number of requests, of any length, with any entries, whose      *)
(* chunks come in any order and any number of times: the entries of a      *)
(* request are merged when all its chunks have come and never before, all  *)
(* of them and in the leader's order, and when every chunk has come, once, *)
(* nothing is left of any of them.                                         *)
THEOREM RequestsAssemble ==
    ASSUME NEW headers, NEW entries, NEW V, AreRequests(headers, entries, V),
           NEW arriving, Arriving(headers, entries, arriving)
    PROVE  /\ AssembledWhenComplete(headers, entries, arriving)
           /\ NothingLeftOver(headers, entries, arriving)
<1>1. PICK n \in Nat : n = Len(arriving) /\ DOMAIN arriving = 1 .. n
  BY DEF Arriving
<1>2. PICK f : f = Follower(arriving)
  OBVIOUS
<1>3. \A i \in DOMAIN arriving : \E id \in DOMAIN entries :
            /\ arriving[i] \in Sent(headers, entries, id)
            /\ RightAt(headers, entries, id, arriving[i], Pending(f, i - 1),
                       Come(arriving, i - 1), f[i])
  BY <1>2, ArrivalsRight
<1>4. \A i \in DOMAIN arriving : Come(arriving, i) = Come(arriving, i - 1) \cup {arriving[i]}
  BY <1>1 DEF Come
<1>5. ASSUME NEW i \in DOMAIN arriving
      PROVE  /\ f[i].merge # Nil => /\ Missing(headers, entries, arriving, i) = {}
                                    /\ f[i].merge = entries[arriving[i].requestId]
             /\ /\ Missing(headers, entries, arriving, i) = {}
                /\ \A j \in 1 .. i - 1 : arriving[j] # arriving[i]
                => f[i].merge # Nil
  <2>1. PICK id \in DOMAIN entries :
            /\ arriving[i] \in Sent(headers, entries, id)
            /\ RightAt(headers, entries, id, arriving[i], Pending(f, i - 1),
                       Come(arriving, i - 1), f[i])
    BY <1>3
  <2>2. arriving[i].requestId = id
    BY <2>1, SentApart
  <2>3. Missing(headers, entries, arriving, i) = {} <=> Sent(headers, entries, id) \subseteq Come(arriving, i)
    <3>1. \A c : (\A j \in 1 .. i : arriving[j] # c) <=> c \notin Come(arriving, i)
      BY DEF Come
    <3> QED
      BY <2>2, <3>1 DEF Missing
  <2>4. (\A j \in 1 .. i - 1 : arriving[j] # arriving[i]) => arriving[i] \notin Come(arriving, i - 1)
    BY DEF Come
  <2>5. /\ f[i].merge # Nil => Sent(headers, entries, id) \subseteq Come(arriving, i)
                               /\ f[i].merge = entries[id]
        /\ Sent(headers, entries, id) \subseteq Come(arriving, i)
           /\ arriving[i] \notin Come(arriving, i - 1) => f[i].merge # Nil
    BY <1>4, <2>1 DEF RightAt
  <2> QED
    BY <2>2, <2>3, <2>4, <2>5
<1>6. AssembledWhenComplete(headers, entries, arriving)
  BY <1>2, <1>5 DEF AssembledWhenComplete
<1>7. ASSUME n > 0, \A i \in DOMAIN arriving, j \in DOMAIN arriving : i # j => arriving[i] # arriving[j],
             \A id \in DOMAIN entries :
                \A c \in Sent(headers, entries, id) : \E i \in DOMAIN arriving : arriving[i] = c
      PROVE  DOMAIN f[n].pending = {}
  <2> DEFINE S == {m \in Nat : m <= n =>
                        /\ NoneComplete(headers, entries, Pending(f, m), Come(arriving, m))
                        /\ DOMAIN Pending(f, m) \subseteq DOMAIN entries}
  <2>1. 0 \in S
    <3>1. DOMAIN Pending(f, 0) = {}
      BY DEF Pending, NoRequests
    <3> QED
      BY <3>1 DEF NoneComplete
  <2>2. ASSUME NEW m \in Nat, m \in S PROVE m + 1 \in S
    <3> SUFFICES ASSUME m + 1 <= n
                 PROVE  /\ NoneComplete(headers, entries, Pending(f, m + 1), Come(arriving, m + 1))
                        /\ DOMAIN Pending(f, m + 1) \subseteq DOMAIN entries
      OBVIOUS
    <3>1. PICK i : i = m + 1
      OBVIOUS
    <3>2. i \in DOMAIN arriving /\ i - 1 = m /\ m <= n /\ i # 0
      BY <1>1, <3>1
    <3>3. PICK id \in DOMAIN entries :
              RightAt(headers, entries, id, arriving[i], Pending(f, i - 1), Come(arriving, i - 1), f[i])
      BY <1>3, <3>2
    <3>4. arriving[i] \notin Come(arriving, i - 1)
      BY <1>1, <1>7, <3>2 DEF Come
    <3>5. NoneComplete(headers, entries, Pending(f, i - 1), Come(arriving, i - 1))
      BY <2>2, <3>2
    <3>6. Pending(f, i) = f[i].pending
      BY <3>2 DEF Pending
    <3>7. NoneComplete(headers, entries, f[i].pending, Come(arriving, i))
      BY <1>4, <3>2, <3>3, <3>4, <3>5 DEF RightAt
    <3>8. DOMAIN f[i].pending \subseteq DOMAIN entries
      BY <3>3 DEF RightAt, Assembling
    <3> QED
      BY <3>1, <3>6, <3>7, <3>8
  <2>3. n \in S
    <3> HIDE DEF S
    <3> QED
      BY <2>1, <2>2, UpFromZero
  <2>4. NoneComplete(headers, entries, f[n].pending, Come(arriving, n))
        /\ DOMAIN f[n].pending \subseteq DOMAIN entries
    BY <1>7, <2>3 DEF Pending
  <2>5. \A id \in DOMAIN entries : Sent(headers, entries, id) \subseteq Come(arriving, n)
    BY <1>1, <1>7 DEF Come
  <2> QED
    BY <2>4, <2>5 DEF NoneComplete
<1>8. NothingLeftOver(headers, entries, arriving)
  BY <1>1, <1>2, <1>7 DEF NothingLeftOver
<1> QED
  BY <1>6, <1>8

(* The run's requests are such requests, and so are their chunks in the    *)
(* orders it tries.                                                         *)
THEOREM RequestsOfTheRun == Spec => []AssembledIsSent
<1>1. ASSUME NEW r \in Requests, NEW o \in Arrivals(Len(Chunks(r))),
             NEW arriving, arriving = [i \in DOMAIN o |-> Chunks(r)[o[i]]]
      PROVE  AssembledWhenComplete(Headers, r, arriving) /\ NothingLeftOver(Headers, r, arriving)
  <2>1. PICK x, y : x \in Seq(Values) /\ y \in Seq(Values) /\ r = <<x, y>>
    <3> DEFINE Both(k) == {<<e, f>> : e \in [1 .. k[1] -> Values], f \in [1 .. k[2] -> Values]}
    <3>1. Requests = UNION {Both(k) : k \in {<<3, 1>>, <<2, 2>>, <<2, 0>>}}
      BY DEF Requests
    <3>2. PICK k \in {<<3, 1>>, <<2, 2>>, <<2, 0>>} : r \in Both(k)
      <4> HIDE DEF Both
      <4> QED
        BY <3>1
    <3>3. PICK i, j : i \in Nat /\ j \in Nat /\ k[1] = i /\ k[2] = j
      BY <3>2
    <3>4. PICK x \in [1 .. i -> Values], y \in [1 .. j -> Values] : r = <<x, y>>
      BY <3>2, <3>3
    <3> QED
      BY <3>3, <3>4
  <2>2. DOMAIN r = {1, 2} /\ r[1] = x /\ r[2] = y
    BY <2>1
  <2>3. AreRequests(Headers, r, Values)
    <3>1. \A id \in {1, 2} : r[id] \in Seq(Values)
      BY <2>1, <2>2
    <3>2. \A id \in {1, 2} : Headers[id] =
                [requestId |-> id, peerId |-> 1, leaderId |-> 2, leaderCommit |-> 0,
                 leaderNextIndex |-> 3, prevLogIndex |-> -1, prevLogTerm |-> -1, term |-> 1]
      BY DEF Headers
    <3>3. 0 # Nil /\ 3 # Nil /\ -1 # Nil
      BY NilAssumption
    <3>4. \A id \in {1, 2} : Headers[id].requestId = id /\ IsHeader(Headers[id])
      BY <3>2, <3>3 DEF IsHeader
    <3> QED
      BY <2>2, <3>1, <3>4, MessagesAssumption DEF AreRequests
  <2>4. PICK X, Y : X = AppendEntries(Headers[1], x) /\ Y = AppendEntries(Headers[2], y)
    OBVIOUS
  <2>5. PICK j, k : j \in Nat /\ k \in Nat /\ DOMAIN X = 1 .. j /\ DOMAIN Y = 1 .. k
                    /\ Len(X) = j /\ Len(Y) = k
    <3>1. ASSUME NEW e \in Seq(Values), NEW h
          PROVE  \E i \in Nat : DOMAIN AppendEntries(h, e) = 1 .. i /\ Len(AppendEntries(h, e)) = i
      <4>1. CASE e = <<>>
        <5>1. AppendEntries(h, e) = <<Chunk(h, 0, TRUE, Nil)>>
          BY <4>1 DEF AppendEntries
        <5> QED
          BY <5>1
      <4>2. CASE e # <<>>
        <5>1. AppendEntries(h, e) = [i \in 1 .. Len(e) |-> Chunk(h, i - 1, i = Len(e), e[i])]
          BY <4>2 DEF AppendEntries
        <5>2. Len(e) \in Nat
          OBVIOUS
        <5> QED
          BY <5>1, <5>2
      <4> QED
        BY <4>1, <4>2
    <3> QED
      BY <2>1, <2>4, <3>1
  <2>6. Chunks(r) = X \o Y
    BY <2>2, <2>4 DEF Chunks
  <2>7. /\ Len(Chunks(r)) = j + k
        /\ \A i \in 1 .. j + k : Chunks(r)[i] = IF i <= j THEN X[i] ELSE Y[i - j]
    BY <2>5, <2>6
  <2>8. \A i \in 1 .. j + k : \E id \in DOMAIN r : Chunks(r)[i] \in Sent(Headers, r, id)
    <3>1. \A i \in 1 .. j : X[i] \in Sent(Headers, r, 1)
      BY <2>2, <2>4, <2>5 DEF Sent
    <3>2. \A i \in 1 .. k : Y[i] \in Sent(Headers, r, 2)
      BY <2>2, <2>4, <2>5 DEF Sent
    <3> SUFFICES ASSUME NEW i \in 1 .. j + k
                 PROVE  \E id \in DOMAIN r : Chunks(r)[i] \in Sent(Headers, r, id)
      OBVIOUS
    <3>3. CASE i <= j
      BY <2>2, <2>5, <2>7, <3>1, <3>3
    <3>4. CASE i > j
      <4>1. i - j \in 1 .. k
        BY <2>5, <3>4
      <4> QED
        BY <2>2, <2>5, <2>7, <3>2, <3>4, <4>1
    <3> QED
      BY <2>5, <3>3, <3>4
  <2>9. \E m \in Nat : o \in [1 .. m -> 1 .. j + k]
    <3>1. o \in [1 .. j + k -> 1 .. j + k] \cup [1 .. j + k + 1 -> 1 .. j + k]
      BY <2>7 DEF Arrivals
    <3>2. j + k \in Nat /\ j + k + 1 \in Nat
      BY <2>5
    <3> QED
      BY <3>1, <3>2
  <2>10. Arriving(Headers, r, arriving)
    <3>1. PICK m \in Nat : o \in [1 .. m -> 1 .. j + k]
      BY <2>9
    <3>2. DOMAIN arriving = 1 .. m /\ Len(arriving) = m
      BY <1>1, <3>1
    <3>3. \A i \in 1 .. m : arriving[i] = Chunks(r)[o[i]] /\ o[i] \in 1 .. j + k
      BY <1>1, <3>1
    <3> QED
      BY <2>8, <3>2, <3>3 DEF Arriving
  <2> QED
    BY <2>3, <2>10, RequestsAssemble
<1>2. AssembledIsSent
  BY <1>1 DEF AssembledIsSent
<1> QED
  BY <1>2, PTL
=============================================================================
