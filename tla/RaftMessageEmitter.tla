------------------------- MODULE RaftMessageEmitter -------------------------
(***************************************************************************)
(* RaftMessageEmitter (src/messages/RaftMessageEmitter.ts): the four       *)
(* messages of the Raft engine, to and from a HamokMessage, which has      *)
(* other names for their fields.  A field that a message does not set is   *)
(* not in its record; Nil is undefined.                                    *)
(***************************************************************************)
EXTENDS Integers, Sequences

CONSTANT Nil

ASSUME NilAssumption == Nil \notin Int /\ Nil \notin BOOLEAN

encodeRaftVoteRequest(r) ==
    [type |-> "RaftVoteRequest", raftTerm |-> r.term,
     raftPrevLogIndex |-> r.lastLogIndex, raftPrevLogTerm |-> r.lastLogTerm,
     destinationId |-> r.peerId, raftCandidateId |-> r.candidateId]

decodeRaftVoteRequest(m) ==
    [type |-> m.type, term |-> m.raftTerm, lastLogIndex |-> m.raftPrevLogIndex,
     lastLogTerm |-> m.raftPrevLogTerm, peerId |-> m.destinationId,
     candidateId |-> m.raftCandidateId]

encodeRaftVoteResponse(r) ==
    [type |-> "RaftVoteResponse", raftTerm |-> r.term, success |-> r.voteGranted,
     destinationId |-> r.destinationPeerId, sourceId |-> r.sourcePeerId]

\* Mutant: the two peers are swapped.
decodeSwapped(m) ==
    [type |-> m.type, term |-> m.raftTerm, voteGranted |-> m.success,
     destinationPeerId |-> m.sourceId, sourcePeerId |-> m.destinationId]

decodeRaftVoteResponse(m) ==
    [type |-> m.type, term |-> m.raftTerm, voteGranted |-> m.success,
     destinationPeerId |-> m.destinationId, sourcePeerId |-> m.sourceId]

encodeRaftAppendEntriesRequest(r) ==
    [type |-> "RaftAppendEntriesRequestChunk", requestId |-> r.requestId,
     destinationId |-> r.peerId, raftLeaderId |-> r.leaderId,
     raftCommitIndex |-> r.leaderCommit, raftLeaderNextIndex |-> r.leaderNextIndex,
     raftPrevLogIndex |-> r.prevLogIndex, raftPrevLogTerm |-> r.prevLogTerm,
     raftTerm |-> r.term, sequence |-> r.sequence, lastMessage |-> r.lastMessage,
     embeddedMessages |-> IF r.entry = Nil THEN <<>> ELSE <<r.entry>>]

decodeRaftAppendEntriesRequest(m) ==
    LET default(x, d) == IF x = Nil THEN d ELSE x
    IN  [type |-> m.type, requestId |-> m.requestId, peerId |-> m.destinationId,
         leaderId |-> m.raftLeaderId, leaderCommit |-> default(m.raftCommitIndex, -1),
         leaderNextIndex |-> default(m.raftLeaderNextIndex, -1),
         prevLogIndex |-> default(m.raftPrevLogIndex, -1),
         prevLogTerm |-> default(m.raftPrevLogTerm, -1), term |-> m.raftTerm,
         sequence |-> default(m.sequence, 0), lastMessage |-> default(m.lastMessage, FALSE),
         entry |-> IF m.embeddedMessages = <<>> THEN Nil ELSE m.embeddedMessages[1]]

encodeRaftAppendEntriesResponse(r) ==
    [type |-> "RaftAppendEntriesResponse", requestId |-> r.requestId,
     sourceId |-> r.sourcePeerId, destinationId |-> r.destinationPeerId,
     raftTerm |-> r.term, success |-> r.success, raftPeerNextIndex |-> r.peerNextIndex,
     lastMessage |-> r.processed]

decodeRaftAppendEntriesResponse(m) ==
    [type |-> m.type, requestId |-> m.requestId, sourcePeerId |-> m.sourceId,
     destinationPeerId |-> m.destinationId, term |-> m.raftTerm, success |-> m.success,
     peerNextIndex |-> m.raftPeerNextIndex, processed |-> m.lastMessage]

\* Encoded by the class of the message
send(r) ==
    CASE r.type = "RaftVoteRequest"               -> encodeRaftVoteRequest(r)
      [] r.type = "RaftVoteResponse"              -> encodeRaftVoteResponse(r)
      [] r.type = "RaftAppendEntriesRequestChunk" -> encodeRaftAppendEntriesRequest(r)
      [] r.type = "RaftAppendEntriesResponse"     -> encodeRaftAppendEntriesResponse(r)

\* What the listener of the engine's state gets
receive(m) ==
    CASE m.type = "RaftVoteRequest"               -> decodeRaftVoteRequest(m)
      [] m.type = "RaftVoteResponse"              -> decodeRaftVoteResponse(m)
      [] m.type = "RaftAppendEntriesRequestChunk" -> decodeRaftAppendEntriesRequest(m)
      [] m.type = "RaftAppendEntriesResponse"     -> decodeRaftAppendEntriesResponse(m)

-----------------------------------------------------------------------------
\* The response to a request for a vote: from its addressee to the candidate.
VoteResponse(request, voteGranted) ==
    [type |-> "RaftVoteResponse", term |-> request.term, voteGranted |-> voteGranted,
     destinationPeerId |-> request.candidateId, sourcePeerId |-> request.peerId]

\* The response to a chunk, from its addressee to the leader that sent it.
AppendResponse(chunk, success, peerNextIndex, processed) ==
    [type |-> "RaftAppendEntriesResponse", requestId |-> chunk.requestId,
     sourcePeerId |-> chunk.peerId, destinationPeerId |-> chunk.leaderId,
     term |-> chunk.term, success |-> success, peerNextIndex |-> peerNextIndex,
     processed |-> processed]

-----------------------------------------------------------------------------
(* The messages an engine sends, and what arrives of one.                  *)

RaftMessages(peers, ids, terms, indices, entries) ==
    [type : {"RaftVoteRequest"}, term : terms, lastLogIndex : indices, lastLogTerm : indices,
     peerId : peers, candidateId : peers]
    \cup [type : {"RaftVoteResponse"}, term : terms, voteGranted : BOOLEAN,
          destinationPeerId : peers, sourcePeerId : peers]
    \cup [type : {"RaftAppendEntriesRequestChunk"}, requestId : ids, peerId : peers,
          leaderId : peers, leaderCommit : indices, leaderNextIndex : indices,
          prevLogIndex : indices, prevLogTerm : indices, term : terms, sequence : indices,
          lastMessage : BOOLEAN, entry : entries]
    \cup [type : {"RaftAppendEntriesResponse"}, requestId : ids, sourcePeerId : peers,
          destinationPeerId : peers, term : terms, success : BOOLEAN, peerNextIndex : indices,
          processed : BOOLEAN]

(* What the listeners of an engine's state get is what the other engine    *)
(* sent: no field is lost, mixed up, or taken for absent when it is 0 or   *)
(* false, and the response to a message goes to where that came from.      *)
ArrivesAsSent(r) ==
    /\ receive(send(r)) = r
    /\ r.type = "RaftVoteRequest" =>
        \A granted \in BOOLEAN :
            LET x == receive(send(VoteResponse(receive(send(r)), granted)))
            IN  /\ x.destinationPeerId = r.candidateId /\ x.sourcePeerId = r.peerId
                /\ x.term = r.term /\ x.voteGranted = granted
    /\ r.type = "RaftAppendEntriesRequestChunk" =>
        LET x == receive(send(AppendResponse(receive(send(r)), TRUE, -1, FALSE)))
        IN  /\ x.destinationPeerId = r.leaderId /\ x.sourcePeerId = r.peerId
            /\ x.requestId = r.requestId /\ x.success /\ ~x.processed
=============================================================================
