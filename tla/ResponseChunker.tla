-------------------------- MODULE ResponseChunker --------------------------
(***************************************************************************)
(* Responses in chunks: ResponseChunker cuts a response into numbered      *)
(* chunks, PendingResponse puts them together again (src/messages/).  A    *)
(* response is its keys and values; chunk is [keys, values, sequence,      *)
(* lastMessage], with sequence -1 in a message that is not a chunk.        *)
(***************************************************************************)
EXTENDS Integers, Sequences, FiniteSets

Whole(response) ==
    [keys |-> response.keys, values |-> response.values, sequence |-> -1,
     lastMessage |-> FALSE]

\* Chunk number sequence of a response cut every size elements.
Chunk(response, size, sequence) ==
    LET last == (sequence + 1) * size >= Len(response.keys)
        slice(s) == SubSeq(s, sequence * size + 1,
                           IF (sequence + 1) * size < Len(s) THEN (sequence + 1) * size
                                                             ELSE Len(s))
    IN  [keys |-> slice(response.keys), values |-> slice(response.values),
         sequence |-> sequence, lastMessage |-> last]

ChunkBy(response, size, length) ==
    [j \in 1 .. (length + size - 1) \div size |-> Chunk(response, size, j - 1)]

_chunkByKeys(response, maxKeys) == ChunkBy(response, maxKeys, Len(response.keys))

\* Cut while there are both keys and values left.
_chunkByEntries(response, maxEntries) ==
    ChunkBy(response, maxEntries,
        IF Len(response.values) < Len(response.keys) THEN Len(response.values)
                                                     ELSE Len(response.keys))

\* 0 means no limit only when both are 0.
apply(response, maxKeys, maxValues) ==
    LET maxEntries == IF maxKeys < maxValues THEN maxKeys ELSE maxValues
        n == Len(response.keys)
        v == Len(response.values)
    IN  IF \/ maxKeys < 1 /\ maxValues < 1
           \/ n < 1
           \/ v < 1 /\ n <= maxKeys
           \/ v >= 1 /\ n <= maxEntries /\ v <= maxEntries
        THEN <<Whole(response)>>
        ELSE IF v < 1 THEN _chunkByKeys(response, maxKeys)
        ELSE _chunkByEntries(response, maxEntries)

-----------------------------------------------------------------------------
(* PendingResponse: the chunks so far by their numbers, and the number of  *)
(* the last one, -1 while that is unknown.                                 *)

NoChunks == [messages |-> {}, endSeq |-> -1]

acceptChunk(pendingResponse, chunk) ==
    [messages |-> {m \in pendingResponse.messages : m.sequence # chunk.sequence}
                    \cup {chunk},
     endSeq |-> IF chunk.lastMessage THEN chunk.sequence ELSE pendingResponse.endSeq]

\* Mutant: the last chunk completes the response.
ReadyAtLast(pendingResponse) == pendingResponse.endSeq >= 0

isAssembled(pendingResponse) ==
    /\ pendingResponse.endSeq >= 0
    /\ Cardinality(pendingResponse.messages) = pendingResponse.endSeq + 1

\* The chunks from the first to the last in the order of their numbers; one that is
\* not there is left out.
result(pendingResponse) ==
    LET numbered(n) == {m \in pendingResponse.messages : m.sequence = n}
        part(n, f) == IF numbered(n) = {} THEN <<>> ELSE (CHOOSE m \in numbered(n) : TRUE)[f]
        joined(f) ==
            LET upTo[n \in 0 .. pendingResponse.endSeq] ==
                    IF n = 0 THEN part(0, f) ELSE upTo[n - 1] \o part(n, f)
            IN  upTo[pendingResponse.endSeq]
    IN  [keys |-> joined("keys"), values |-> joined("values")]
=============================================================================
