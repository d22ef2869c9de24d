----------------------- MODULE MCMemoryStoredRaftLogs -----------------------
(* The instance of MemoryStoredRaftLogs that TLC checks.                   *)
EXTENDS MemoryStoredRaftLogs, RaftAppendEntriesRequest

CONSTANTS a, b   \* two messages, of different size

MCValues == {a, b}
MCSize == a :> 1 @@ b :> 2

ASSUME MessagesAssumption == Nil \notin Values /\ Nil \notin Seq(Values)

-----------------------------------------------------------------------------
\* What follows does not depend on the log, and is looked at in one state.
AtFirst == now = 0 /\ log.nextIndex = 0

(* Two requests to one peer at a time, with their chunks in any order, and *)
(* one of them, maybe, twice.                                              *)
Headers ==
    [id \in 1 .. 2 |->
        [requestId |-> id, peerId |-> 1, leaderId |-> 2, leaderCommit |-> 0,
         leaderNextIndex |-> 3, prevLogIndex |-> -1, prevLogTerm |-> -1, term |-> 1]]

Requests == UNION {{<<e, f>> : e \in [1 .. n[1] -> Values], f \in [1 .. n[2] -> Values]} :
                        n \in {<<3, 1>>, <<2, 2>>, <<2, 0>>}}

Chunks(r) == AppendEntries(Headers[1], r[1]) \o AppendEntries(Headers[2], r[2])

Arrivals(n) == {o \in [1 .. n -> 1 .. n] \cup [1 .. n + 1 -> 1 .. n] :
                    \A c \in 1 .. n : \E i \in DOMAIN o : o[i] = c}

(* A follower gets the entries of both requests when they are complete,    *)
(* never otherwise, and keeps nothing of them when no chunk came twice.    *)
AssembledIsSent ==
    AtFirst => \A r \in Requests : LET chunks == Chunks(r) IN
        \A o \in Arrivals(Len(chunks)) :
            LET arriving == [i \in DOMAIN o |-> chunks[o[i]]]
            IN  /\ AssembledWhenComplete(Headers, r, arriving)
                /\ NothingLeftOver(Headers, r, arriving)

(* All messages, with each number at the edges of its range, arrive as     *)
(* they were sent.                                                         *)
RaftMessagesArrive ==
    AtFirst => \A r \in RaftMessages({1, 2}, {1}, {0, 1}, {-1, 0, 1}, {Nil, a}) : ArrivesAsSent(r)
=============================================================================
