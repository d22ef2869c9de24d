--------------------------- MODULE PendingRequest ---------------------------
(***************************************************************************)
(* PendingRequest (src/messages/PendingRequest.ts): the responses to one   *)
(* request, and the timer that rejects it.                                 *)
(***************************************************************************)
EXTENDS Integers, FiniteSets

CONSTANT AnyPeers  \* no remote peers are named: any responder counts

\* neededResponses 0 asks for no number of responses.  The timer is running.
New(neededResponses, remotePeers) ==
    [neededResponses |-> neededResponses, remotePeers |-> remotePeers,
     responses |-> [s \in {} |-> s], receivedResponses |-> 0,
     state |-> "pending", postponed |-> FALSE]

completed(r) == r.state # "pending"

\* Responses are counted only when a number of them is needed, one for every
\* message, even from a peer that answered before.
isReady(r) ==
    /\ r.neededResponses > 0 => r.receivedResponses >= r.neededResponses
    /\ r.remotePeers # AnyPeers => r.remotePeers \subseteq DOMAIN r.responses

accept(r, source, response) ==
    LET got == [r EXCEPT !.responses = [s \in DOMAIN @ \cup {source} |->
                                            IF s = source THEN response ELSE @[s]],
                         !.receivedResponses = IF r.neededResponses > 0 THEN @ + 1 ELSE @]
    IN  IF completed(r) THEN [r EXCEPT !.responses = got.responses]
        ELSE IF isReady(got) THEN [got EXCEPT !.state = "resolved"]
        ELSE got

reject(r) == IF completed(r) THEN r ELSE [r EXCEPT !.state = "rejected"]

postponeTimeout(r) == [r EXCEPT !.postponed = TRUE]

\* The timer fires: one postponement since it was set buys one more period.
expire(r) == IF r.postponed THEN [r EXCEPT !.postponed = FALSE] ELSE reject(r)
=============================================================================
