---------------------- MODULE RaftAppendEntriesRequest ----------------------
(***************************************************************************)
(* Requests to append entries, cut and put together again: the leader      *)
(* sends a chunk for each entry (RaftLeaderState), the follower adds       *)
(* chunks to a RaftAppendEntriesRequest, by the request's id, until that   *)
(* is ready (RaftFollowerState, RaftAppendEntriesRequest).                 *)
(***************************************************************************)
EXTENDS RaftMessageEmitter, FiniteSets

\* f with x mapped to y
Put(f, x, y) == [z \in DOMAIN f \cup {x} |-> IF z = x THEN y ELSE f[z]]

\* One chunk; header has the fields that all chunks of a request have.
Chunk(header, sequence, lastMessage, entry) ==
    [type |-> "RaftAppendEntriesRequestChunk", requestId |-> header.requestId,
     peerId |-> header.peerId, leaderId |-> header.leaderId,
     leaderCommit |-> header.leaderCommit, leaderNextIndex |-> header.leaderNextIndex,
     prevLogIndex |-> header.prevLogIndex, prevLogTerm |-> header.prevLogTerm,
     term |-> header.term, sequence |-> sequence, lastMessage |-> lastMessage, entry |-> entry]

\* The messages of one request to a peer.  Without entries it is one message, to
\* keep the follower alive.
AppendEntries(header, entries) ==
    IF entries = <<>> THEN <<Chunk(header, 0, TRUE, Nil)>>
    ELSE [i \in DOMAIN entries |-> Chunk(header, i - 1, i = Len(entries), entries[i])]

-----------------------------------------------------------------------------
(* A request under assembly: what it has of the chunks' common fields, the *)
(* entries by the sequence of their chunk, and the sequence of the last    *)
(* chunk, -1 while that is unknown.                                        *)

NewRequest ==
    [header |-> Nil, entries |-> [i \in {} |-> Nil], endSeq |-> -1, ready |-> FALSE,
     failed |-> FALSE]

\* Mutant: the last chunk makes the request ready.
readyAtLast(entries, endSeq, before) == endSeq >= 0

ready(entries, endSeq, before) ==
    CASE endSeq = 0 -> TRUE
      [] endSeq > 0 -> Cardinality(DOMAIN entries) - 1 = endSeq
      [] endSeq < 0 -> before

\* An entry that is there already is overwritten, and then add throws.
add(request, chunk) ==
    LET entries == IF chunk.entry = Nil THEN request.entries
                   ELSE Put(request.entries, chunk.sequence, chunk.entry)
        endSeq == IF chunk.lastMessage THEN chunk.sequence ELSE request.endSeq
    IN  IF chunk.entry # Nil /\ chunk.sequence \in DOMAIN request.entries
        THEN [request EXCEPT !.entries = entries, !.failed = TRUE]
        ELSE [header |-> IF request.header = Nil THEN chunk ELSE request.header,
              entries |-> entries, endSeq |-> endSeq,
              ready |-> ready(entries, endSeq, request.ready), failed |-> FALSE]

\* The entries of a ready request, in the order of their sequence: as many numbers
\* as there are entries are looked up, and one that is not there is left out.
entriesOf(request) ==
    LET size == Cardinality(DOMAIN request.entries)
        upTo[n \in 0 .. size] ==
            IF n = 0 THEN <<>>
            ELSE IF n - 1 \in DOMAIN request.entries
                 THEN Append(upTo[n - 1], request.entries[n - 1])
                 ELSE upTo[n - 1]
    IN  upTo[size]

-----------------------------------------------------------------------------
(* The follower's gate: pending is its pendingRequests.  The outcome is    *)
(* the pending requests after chunk, whether it is a keep-alive, and the   *)
(* entries to merge into the log or the response that ends the matter.     *)

NoRequests == [id \in {} |-> NewRequest]

Assemble(pending, chunk) ==
    LET id == chunk.requestId
        request == add(IF id \in DOMAIN pending THEN pending[id] ELSE NewRequest, chunk)
        rest == [x \in DOMAIN pending \ {id} |-> pending[x]]
    IN  CASE chunk.entry = Nil /\ chunk.sequence = 0 /\ ~chunk.lastMessage ->
                [pending |-> pending, merge |-> Nil,
                 response |-> AppendResponse(chunk, FALSE, -1, TRUE)]
          [] chunk.entry = Nil /\ chunk.sequence = 0 /\ chunk.lastMessage ->
                [pending |-> pending, merge |-> <<>>, response |-> Nil]
          [] (chunk.entry # Nil \/ chunk.sequence # 0) /\ request.failed ->
                [pending |-> Put(pending, id, request), merge |-> Nil, response |-> Nil]
          [] (chunk.entry # Nil \/ chunk.sequence # 0) /\ ~request.failed /\ ~request.ready ->
                [pending |-> Put(pending, id, request), merge |-> Nil,
                 response |-> AppendResponse(chunk, TRUE, -1, FALSE)]
          [] (chunk.entry # Nil \/ chunk.sequence # 0) /\ ~request.failed /\ request.ready ->
                [pending |-> rest, merge |-> entriesOf(request), response |-> Nil]

\* What the follower does at each of the chunks that arrive, one after the other.
Follower(arriving) ==
    LET step[i \in 1 .. Len(arriving)] ==
            Assemble(IF i = 1 THEN NoRequests ELSE step[i - 1].pending,
                     receive(send(arriving[i])))
    IN  step

-----------------------------------------------------------------------------
(* entries has the entries of some requests by their ids, headers their    *)
(* headers, and arriving are chunks of these requests as they arrive.      *)

\* The chunks of request id
Sent(headers, entries, id) ==
    LET chunks == AppendEntries(headers[id], entries[id])
    IN  {chunks[i] : i \in DOMAIN chunks}

\* The chunks of the request of the i-th arrival that have not come by then
Missing(headers, entries, arriving, i) ==
    {c \in Sent(headers, entries, arriving[i].requestId) : \A j \in 1 .. i : arriving[j] # c}

(* The entries of a request reach the log when the last of its chunks, in  *)
(* whatever order, has come, all of them in the order of the leader's log, *)
(* and no entry of a request that is incomplete; chunks of several         *)
(* requests are never mixed up, and chunks that come twice do no harm.     *)
AssembledWhenComplete(headers, entries, arriving) ==
    LET follower == Follower(arriving)
        missing(i) == Missing(headers, entries, arriving, i)
    IN  \A i \in DOMAIN arriving :
            /\ follower[i].merge # Nil =>
                    /\ missing(i) = {}
                    /\ follower[i].merge = entries[arriving[i].requestId]
            /\ missing(i) = {} /\ (\A j \in 1 .. i - 1 : arriving[j] # arriving[i]) =>
                    follower[i].merge # Nil

(* When every chunk has come, and none twice, nothing is left over.        *)
NothingLeftOver(headers, entries, arriving) ==
    /\ Len(arriving) > 0
    /\ \A i \in DOMAIN arriving, j \in DOMAIN arriving : i # j => arriving[i] # arriving[j]
    /\ \A id \in DOMAIN entries :
            \A c \in Sent(headers, entries, id) : \E i \in DOMAIN arriving : arriving[i] = c
    => DOMAIN Follower(arriving)[Len(arriving)].pending = {}
=============================================================================
