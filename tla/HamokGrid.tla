----------------------------- MODULE HamokGrid -----------------------------
(***************************************************************************)
(* Requests over the grid (src/HamokGrid.ts, submit and accept of          *)
(* src/Hamok.ts, src/messages/): the life of a storage request from the    *)
(* caller's pending request over its submission to the leader, the         *)
(* notifications that keep it alive while it waits to be committed, its    *)
(* execution on a remote map, to the response, in chunks, that settles it. *)
(*                                                                         *)
(* Underneath is Raft (RaftEngine is the module for that): the log of the  *)
(* leader, and how much of it each peer has committed.  A new leader may   *)
(* lack what was not committed, and the other peers learn of it later.     *)
(***************************************************************************)
EXTENDS HamokRemoteMap, PendingRequest, ConcurrentExecutor

Chunker == INSTANCE ResponseChunker
Codec == INSTANCE StorageCodec
GridCodec == INSTANCE HamokGridCodec

CONSTANTS Peers,    \* peer ids
          Settings, \* the situations to look at, see below
          MaxCalls  \* bound: calls

\* What a caller may ask for: keys and entries, as many as he likes, in the form of the request.
IsMap(m) == m = [x \in DOMAIN m |-> m[x]] /\ IsFiniteSet(DOMAIN m)

IsRequest(o) ==
    /\ o.type \in {"ClearEntries", "DeleteEntries", "RemoveEntries", "InsertEntries", "UpdateEntries"}
    /\ o = [f \in {"type"} \cup (Codec!Classes[o.type].Request \ {"requestId", "sourceId"}) |-> o[f]]
    /\ "keys" \in DOMAIN o => IsFiniteSet(o.keys)
    /\ "entries" \in DOMAIN o => IsMap(o.entries)

\* A setting: the peers of the grid, the first leader, the peers that had created the map when it was elected
\* (early), the peers that may follow it (heirs), the callers, what they may call, bounds on the
\* calls and on the elections, maxOutboundKeys (outbound, 0: no limit), what may go wrong: messages
\* that may be lost (lossy), external calls that fail (failing), connections that close (closing).
ASSUME GridAssumption ==
    /\ MaxCalls \in Nat
    /\ \A s \in Settings :
        /\ s.peers \subseteq Peers /\ s.leader \in s.peers /\ s.early \subseteq s.peers
        /\ s.heirs \subseteq s.peers /\ s.callers \subseteq s.peers
        /\ s.calls \in 0 .. MaxCalls /\ s.elections \in Nat /\ s.outbound \in Nat
        /\ \A o \in s.operations : IsRequest(o)

VARIABLES
    setting,          \* the setting, which never changes
    leader,           \* the peer that leads, as Raft has it
    elections,        \* how often it changed
    leaderId,         \* the leader that a peer knows, Nil when it knows none
    learnt,           \* history: the election by which a peer knows the latest leader it knew
    log,              \* the log of the leader
    committed,        \* how much of it a peer has committed
    calls,            \* the calls
    pendingRequests,  \* of all peers, by request id
    pendingResponses, \* of all peers, by responder and request id
    ongoing,          \* the ongoing requests of a peer: [id, to]
    net,              \* messages in flight, in no order
    closed,           \* peers that have closed their connection
    executesAs,       \* _leader of the map of a peer
    executor,         \* its executor
    store,            \* the external map
    executed,         \* history: what was written to it, in order, [index, by, entry, answer]
    handed            \* history: requests that were given to a leader's log

raft == <<leader, elections, leaderId, learnt, log>>
grid == <<pendingRequests, pendingResponses>>
remote == <<executesAs, executor, store, executed>>
vars == <<setting, raft, committed, calls, grid, ongoing, net, closed, remote, handed>>

Calls == 1 .. MaxCalls

\* Request ids: of the storage request of a call, and of its submissions
StorageId(c) == <<c, 0>>
SubmitId(c, n) == <<c, n>>

NoCall == [status |-> "idle", source |-> Nil, request |-> [type |-> "none"],
           submitted |-> FALSE, result |-> {}]

\* this.leader: a peer that leads by what it knows, be it deposed already
isLeader(p) == leaderId[p] = p

-----------------------------------------------------------------------------
(* The grid of a peer: pending requests and pending responses.  Ids are    *)
(* unique, so those of all peers are one function each.                    *)

Grid(requests, responses) == [requests |-> requests, responses |-> responses]

Get(f, x, default) == IF x \in DOMAIN f THEN f[x] ELSE default
With(f, x, value) == [y \in DOMAIN f \cup {x} |-> IF y = x THEN value ELSE f[y]]

\* A complete response, from a chunk or several, reaches its request.
Settle(g, id, from, response) ==
    IF id \notin DOMAIN g.requests \/ completed(g.requests[id]) THEN g
    ELSE [g EXCEPT !.requests[id] = accept(@, from, response)]

Postpone(g, id) ==
    IF id \in DOMAIN g.requests THEN [g EXCEPT !.requests[id] = postponeTimeout(@)] ELSE g

\* m is [id, from, response], the response whole or a chunk.  An incomplete response postpones
\* the timeout of the request.
processResponse(g, m) ==
    LET key == <<m.from, m.id>>
        r == m.response
        got == Chunker!acceptChunk(Get(g.responses, key, Chunker!NoChunks), r)
    IN  IF r.sequence = -1 \/ (r.sequence = 0 /\ r.lastMessage)
        THEN Settle(g, m.id, m.from, [keys |-> r.keys, values |-> r.values])
        ELSE IF ~Chunker!isAssembled(got)
        THEN Postpone([g EXCEPT !.responses = With(@, key, got)], m.id)
        ELSE Settle([g EXCEPT !.responses = Without(@, {key})], m.id, m.from,
                    Chunker!result(got))

purgeResponseForRequest(g, id) ==
    [g EXCEPT !.responses = [k \in {x \in DOMAIN @ : x[2] # id} |-> @[k]]]

\* Mutant: a request that was rejected stays.
ForgetResolved(g, id) ==
    IF g.requests[id].state = "resolved" THEN [g EXCEPT !.requests = Without(@, {id})] ELSE g

\* The end of request, whatever its outcome
Forget(g, id) == [g EXCEPT !.requests = Without(@, {id})]

\* What a response answers, decoded: nothing, keys or entries.
Answer(request, response) ==
    CASE request.type = "ClearEntries"  -> NoEntries
      [] request.type = "DeleteEntries" -> Codec!decodeKeys(response.keys)
      [] OTHER -> Codec!decodeEntries(response.keys, response.values)

Results(request, responses) == {<<s, Answer(request, responses[s])>> : s \in DOMAIN responses}

\* request, after something happened to call c: it goes on when its submission has failed, or
\* has succeeded and its promise is settled.  A promise that is settled while the call is
\* still being submitted waits.
Continue(c, call, g, failed) ==
    LET id == StorageId(c)
        state == g.requests[id].state
    IN  \/ /\ failed \/ (call.submitted /\ state = "rejected")
           /\ calls' = [calls EXCEPT ![c] = [call EXCEPT !.status = "rejected"]]
           /\ LET h == purgeResponseForRequest(Forget(g, id), id)
              IN  pendingRequests' = h.requests /\ pendingResponses' = h.responses
        \/ /\ ~failed /\ call.submitted /\ state = "resolved"
           /\ calls' = [calls EXCEPT ![c] = [call EXCEPT
                    !.status = "resolved", !.result = Results(call.request, g.requests[id].responses)]]
           /\ LET h == Forget(g, id)
              IN  pendingRequests' = h.requests /\ pendingResponses' = h.responses
        \/ /\ ~failed /\ (call.submitted => state = "pending")
           /\ calls' = [calls EXCEPT ![c] = call]
           /\ pendingRequests' = g.requests /\ pendingResponses' = g.responses

-----------------------------------------------------------------------------
(* Submission.                                                             *)

\* What a leader has in its log: storage requests, and submissions of submissions.
StorageEntry(c) == [type |-> "storage", id |-> StorageId(c), call |-> c,
                    source |-> calls[c].source, to |-> Nil]
Wrapped(c, n, to) == [type |-> "submission", id |-> SubmitId(c, n), call |-> c,
                      source |-> calls[c].source, to |-> to]

\* raft.submit of p: what a deposed leader takes in is overwritten.
raftSubmit(p, entry) ==
    /\ log' = IF p = leader THEN Append(log, entry) ELSE log
    /\ handed' = handed \cup {entry.id}

\* Only requests of a storage are kept alive.
addOngoing(p, entry) ==
    ongoing' = IF entry.type = "storage"
               THEN [ongoing EXCEPT ![p] = @ \cup {[id |-> entry.id, to |-> entry.source]}]
               ELSE ongoing

\* Mutant: what a leader has taken in is submitted once more, to itself.
SubmitTwice(p, c, call, entry, n, g) ==
    /\ leaderId[p] # Nil
    /\ IF isLeader(p) THEN raftSubmit(p, entry) /\ addOngoing(p, entry)
                      ELSE UNCHANGED <<log, handed, ongoing>>
    /\ Continue(c, call, [g EXCEPT !.requests = With(@, SubmitId(c, n), New(1, {leaderId[p]}))], FALSE)
    /\ net' = net \cup {[type |-> "SubmitMessageRequest", id |-> SubmitId(c, n),
                         from |-> p, to |-> leaderId[p], entry |-> entry]}

\* submit by the source p of call c, for the n-th time; g is the grid before.
Submit(p, c, call, entry, n, g) ==
    \/ \* no leader: an error
       /\ leaderId[p] = Nil
       /\ Continue(c, call, g, TRUE)
       /\ UNCHANGED <<log, handed, ongoing, net>>
    \/ \* the source leads
       /\ isLeader(p)
       /\ raftSubmit(p, entry)
       /\ addOngoing(p, entry)
       /\ Continue(c, [call EXCEPT !.submitted = TRUE], g, FALSE)
       /\ UNCHANGED net
    \/ \* ask the leader
       /\ leaderId[p] \notin {Nil, p}
       /\ Continue(c, call, [g EXCEPT !.requests = With(@, SubmitId(c, n), New(1, {leaderId[p]}))], FALSE)
       /\ net' = net \cup {[type |-> "SubmitMessageRequest", id |-> SubmitId(c, n),
                            from |-> p, to |-> leaderId[p], entry |-> entry]}
       /\ UNCHANGED <<log, handed, ongoing>>

\* A storage request of p is created.  It needs no number of responses and no particular responders.
Invoke(p, o) ==
    LET c == Cardinality({x \in Calls : calls[x].status # "idle"}) + 1
        call == [NoCall EXCEPT !.status = "waiting", !.source = p, !.request = o]
        entry == [type |-> "storage", id |-> StorageId(c), call |-> c, source |-> p, to |-> Nil]
    IN  /\ p \in setting.callers \ closed
        /\ c \in 1 .. setting.calls
        /\ Submit(p, c, call, entry, 1,
                  Grid(With(pendingRequests, StorageId(c), New(0, AnyPeers)), pendingResponses))
        /\ UNCHANGED <<setting, leader, elections, leaderId, learnt, committed, closed, remote>>

\* The handler of SUBMIT_MESSAGE_REQUEST at p, for a message or a committed submission
SubmitResponse(p, id, to) ==
    [type |-> "SubmitMessageResponse", id |-> id, from |-> p, to |-> to,
     success |-> isLeader(p), leaderId |-> leaderId[p]]

HandleSubmit(p, id, entry, to) ==
    IF isLeader(p) THEN raftSubmit(p, entry) /\ addOngoing(p, entry)
                   ELSE UNCHANGED <<log, handed, ongoing>>

ReceiveSubmit(m) ==
    /\ m.type = "SubmitMessageRequest"
    /\ HandleSubmit(m.to, m.id, m.entry, m.from)
    /\ net' = (net \ {m}) \cup {SubmitResponse(m.to, m.id, m.from)}
    /\ UNCHANGED <<setting, leader, elections, leaderId, learnt, committed, calls, grid, closed, remote>>

\* The answer to a submission.  When the leader has changed meanwhile, what is
\* submitted again is the submission itself, not the entry.
ReceiveSubmitResponse(m) ==
    LET c == m.id[1]
        g == Grid(Without(pendingRequests, {m.id}), pendingResponses)
        changed == /\ ~m.success
                   /\ m.leaderId \notin {Nil, m.from}
                   /\ m.leaderId = leaderId[m.to]
    IN  /\ m.type = "SubmitMessageResponse"
        /\ UNCHANGED <<setting, leader, elections, leaderId, learnt, committed, closed, remote>>
        /\ \/ /\ m.id \notin DOMAIN pendingRequests
              /\ net' = net \ {m}
              /\ UNCHANGED <<calls, grid, log, handed, ongoing>>
           \/ /\ m.id \in DOMAIN pendingRequests /\ ~changed
              /\ Continue(c, [calls[c] EXCEPT !.submitted = m.success], g, ~m.success)
              /\ net' = net \ {m}
              /\ UNCHANGED <<log, handed, ongoing>>
           \/ /\ m.id \in DOMAIN pendingRequests /\ changed
              /\ Submit(m.to, c, calls[c], Wrapped(c, m.id[2], m.from), m.id[2] + 1, g)

-----------------------------------------------------------------------------
(* Timers, the notifications that postpone them, and messages.             *)

\* The timer of a request fires.  A submission that times out is an error of its call;
\* the rejection of a request that is still being submitted waits for that.
Expire(id) ==
    LET c == id[1]
        r == expire(pendingRequests[id])
        g == Grid([pendingRequests EXCEPT ![id] = r], pendingResponses)
    IN  /\ id \in DOMAIN pendingRequests
        /\ ~completed(pendingRequests[id])
        /\ IF id # StorageId(c) /\ completed(r)
           THEN Continue(c, calls[c], [g EXCEPT !.requests = Without(@, {id})], TRUE)
           ELSE Continue(c, calls[c], g, FALSE)
        /\ UNCHANGED <<setting, raft, committed, ongoing, net, closed, remote, handed>>

\* The period of the ongoing requests' notifier is over: every source gets one
\* notification with the ids of its requests, its own peer at once.
Notify(p) ==
    LET ids(q) == {o.id : o \in {x \in ongoing[p] : x.to = q}}
        own == {id \in ids(p) : id \in DOMAIN pendingRequests}
    IN  /\ ongoing[p] # {}
        /\ net' = net \cup {[type |-> "OngoingRequestsNotification", to |-> q, ids |-> ids(q)] :
                            q \in {o.to : o \in ongoing[p]} \ {p}}
        /\ pendingRequests' = [id \in DOMAIN pendingRequests |->
                IF id \in own THEN postponeTimeout(pendingRequests[id])
                ELSE pendingRequests[id]]
        /\ UNCHANGED <<setting, raft, committed, calls, pendingResponses, ongoing, closed,
                       remote, handed>>

ReceiveOngoing(m) ==
    /\ m.type = "OngoingRequestsNotification"
    /\ pendingRequests' = [id \in DOMAIN pendingRequests |->
            IF id \in m.ids THEN postponeTimeout(pendingRequests[id])
            ELSE pendingRequests[id]]
    /\ net' = net \ {m}
    /\ UNCHANGED <<setting, raft, committed, calls, pendingResponses, ongoing, closed, remote,
                   handed>>

\* A response, or a chunk of one
ReceiveResponse(m) ==
    LET c == m.id[1]
        g == processResponse(Grid(pendingRequests, pendingResponses), m)
    IN  /\ m.type = "response"
        /\ IF m.id \in DOMAIN pendingRequests
           THEN Continue(c, calls[c], g, FALSE)
           ELSE /\ pendingResponses' = g.responses
                /\ UNCHANGED <<calls, pendingRequests>>
        /\ net' = net \ {m}
        /\ UNCHANGED <<setting, raft, committed, ongoing, closed, remote, handed>>

Lose(m) ==
    /\ m.type \in setting.lossy
    /\ net' = net \ {m}
    /\ UNCHANGED <<setting, raft, committed, calls, grid, ongoing, closed, remote, handed>>

-----------------------------------------------------------------------------
(* Raft, as the grid sees it.                                              *)

\* Another peer is elected; it holds what was committed, and maybe more.
Elect(p) ==
    /\ elections < setting.elections
    /\ p \in setting.heirs \ {leader}
    /\ \E n \in {committed[q] : q \in Peers} \cup {Len(log)} :
        /\ \A q \in Peers : committed[q] <= n
        /\ log' = SubSeq(log, 1, n)
    /\ leader' = p
    /\ elections' = elections + 1
    /\ leaderId' = [leaderId EXCEPT ![p] = p]
    /\ learnt' = [learnt EXCEPT ![p] = elections']
    /\ executesAs' = [executesAs EXCEPT ![p] = TRUE]
    /\ UNCHANGED <<setting, committed, calls, grid, ongoing, net, closed, executor, store,
                   executed, handed>>

\* A peer loses its leader, or learns of the new one: 'leader-changed'.
LearnLeader(p) ==
    /\ leaderId[p] # leader
    /\ \E l \in {leader} \cup (IF leaderId[p] = Nil THEN {} ELSE {Nil}) :
        /\ leaderId' = [leaderId EXCEPT ![p] = l]
        /\ learnt' = [learnt EXCEPT ![p] = IF l = leader THEN elections ELSE @]
    /\ executesAs' = [executesAs EXCEPT ![p] = FALSE]
    /\ UNCHANGED <<setting, leader, elections, log, committed, calls, grid, ongoing, net,
                   closed, executor, store, executed, handed>>

\* Mutant: the request stays ongoing when it is committed.
StillOngoing(p, id) == ongoing

NotOngoing(p, id) == [ongoing EXCEPT ![p] = {o \in @ : o.id # id}]

Operations == UNION {s.operations : s \in Settings}

\* Raft commits the next entry at p, the leader before the others.
CommitNext(p) ==
    /\ committed[p] < Len(log)
    /\ leaderId[p] = leader
    /\ p = leader \/ committed[p] < committed[leader]
    /\ committed' = [committed EXCEPT ![p] = @ + 1]

\* A request as its handler gets it: encoded by the source, decoded by the connection.
Decoded ==
    [x \in Operations \X Calls \X Peers |->
        Codec!decode(Codec!encode(Codec!Joined(
            [kind |-> "Request", requestId |-> StorageId(x[2]), sourceId |-> x[3]], x[1])))]

\* _acceptCommit: the request is no longer ongoing, and is accepted like a message.  A storage
\* request is for the map, which executes it if its peer leads; a submission is for the peer
\* that it was sent to first.
Commit(p) ==
    LET i == committed[p] + 1
        e == log[i]
    IN  /\ CommitNext(p)
        /\ UNCHANGED <<setting, leader, elections, leaderId, learnt, calls, grid, closed, store,
                       executesAs, executed>>
        /\ \/ /\ e.type = "storage"
              /\ ongoing' = NotOngoing(p, e.id)
              /\ executor' = IF executesAs[p] /\ p \notin closed
                             THEN [executor EXCEPT ![p] = execute(@, Task(i,
                                    [call |-> e.call, source |-> e.source,
                                     request |-> Decoded[<<calls[e.call].request, e.call, e.source>>]]))]
                             ELSE executor
              /\ UNCHANGED <<log, net, handed>>
           \/ /\ e.type = "submission" /\ p # e.to
              /\ UNCHANGED <<log, net, handed, ongoing, executor>>
           \/ /\ e.type = "submission" /\ p = e.to
              /\ HandleSubmit(p, e.id, StorageEntry(e.call), e.source)
              /\ net' = net \cup {SubmitResponse(p, e.id, e.source)}
              /\ UNCHANGED executor

-----------------------------------------------------------------------------
(* Execution on the external map.                                          *)

ReadExternal(p) ==
    \E t \in executor[p].running :
        /\ t.stage = "first" /\ ReadsFirst(t.entry.request)
        /\ executor' = [executor EXCEPT ![p].running = (@ \ {t}) \cup {Read(store, t)}]
        /\ UNCHANGED <<setting, raft, committed, calls, grid, ongoing, net, closed, store,
                       executesAs, executed, handed>>

\* Deleted keys, or entries
Payload(request, answer) ==
    IF request.type = "DeleteEntries" THEN DOMAIN answer ELSE answer

Response(request, answer) ==
    Codec!encode(Codec!createResponse(request, Payload(request, answer)))

\* respond: one message for each chunk
Responses(p, c, request, answer) ==
    LET chunks == Chunker!apply(Response(request, answer), setting.outbound, setting.outbound)
    IN  [i \in DOMAIN chunks |->
            [type |-> "response", id |-> StorageId(c), from |-> p, response |-> chunks[i]]]

\* Messages one after the other
ProcessAll(g, ms) ==
    LET after[i \in 0 .. Len(ms)] == IF i = 0 THEN g ELSE processResponse(after[i - 1], ms[i])
    IN  after[Len(ms)]

\* The write, and with it the end of the task: the request is answered, the chunks of a response
\* to the own peer are accepted one by one, and the next task starts.
WriteExternal(p) ==
    \E t \in executor[p].running :
        LET c == t.entry.call
            outcome == Write(store, t)
            chunks == Responses(p, c, t.entry.request, outcome.answer)
            g == ProcessAll(Grid(pendingRequests, pendingResponses), chunks)
        IN  /\ t.stage = IF ReadsFirst(t.entry.request) THEN "read" ELSE "first"
            /\ store' = outcome.store
            /\ executed' = Append(executed, [index |-> t.index, by |-> p, entry |-> t.entry,
                                             answer |-> outcome.answer])
            /\ executor' = [executor EXCEPT ![p] = postProcess(@, t)]
            /\ UNCHANGED <<setting, raft, committed, ongoing, closed, executesAs, handed>>
            /\ \/ /\ t.entry.source # p
                  /\ net' = net \cup {chunks[i] : i \in DOMAIN chunks}
                  /\ UNCHANGED <<calls, grid>>
               \/ /\ t.entry.source = p
                  /\ StorageId(c) \in DOMAIN pendingRequests
                  /\ Continue(c, calls[c], g, FALSE)
                  /\ UNCHANGED net
               \/ /\ t.entry.source = p
                  /\ StorageId(c) \notin DOMAIN pendingRequests
                  /\ pendingResponses' = g.responses
                  /\ UNCHANGED <<calls, pendingRequests, net>>

\* A call on the external map fails: the task ends without an answer.
FailExternal(p) ==
    /\ setting.failing
    /\ \E t \in executor[p].running :
            executor' = [executor EXCEPT ![p] = postProcess(@, t)]
    /\ UNCHANGED <<setting, raft, committed, calls, grid, ongoing, net, closed, store,
                   executesAs, executed, handed>>

\* The connection closes: the pending requests of the storage are rejected, their responses
\* dropped, and the peer stops notifying of requests of the storage.
Close(p) ==
    LET mine == {c \in Calls : /\ calls[c].source = p
                               /\ StorageId(c) \in DOMAIN pendingRequests}
        rejectedNow == {c \in mine : calls[c].submitted}
        ids == {StorageId(c) : c \in mine}
    IN  /\ p \in setting.closing \ closed
        /\ closed' = closed \cup {p}
        /\ calls' = [c \in Calls |-> IF c \in rejectedNow
                                     THEN [calls[c] EXCEPT !.status = "rejected"] ELSE calls[c]]
        /\ pendingRequests' = [id \in DOMAIN pendingRequests \ {StorageId(c) : c \in rejectedNow} |->
                IF id \in ids THEN reject(pendingRequests[id]) ELSE pendingRequests[id]]
        /\ pendingResponses' = [k \in {x \in DOMAIN pendingResponses : x[2] \notin ids} |->
                                    pendingResponses[k]]
        /\ ongoing' = [ongoing EXCEPT ![p] = {}]
        /\ UNCHANGED <<setting, raft, committed, net, remote, handed>>

-----------------------------------------------------------------------------
Init ==
    /\ setting \in Settings
    /\ leader = setting.leader
    /\ elections = 0
    /\ leaderId = [p \in Peers |-> leader]
    /\ learnt = [p \in Peers |-> 0]
    /\ log = <<>>
    /\ committed = [p \in Peers |-> 0]
    /\ calls = [c \in Calls |-> NoCall]
    /\ pendingRequests = NoEntries
    /\ pendingResponses = NoEntries
    /\ ongoing = [p \in Peers |-> {}]
    /\ net = {}
    /\ closed = {}
    /\ executesAs = [p \in Peers |-> p = leader /\ p \in setting.early]
    /\ executor = [p \in Peers |-> NewExecutor(1)]
    /\ store = NoEntries
    /\ executed = <<>>
    /\ handed = {}

\* A submission is made again at most once for each leader that its source learns of.
Ids == UNION {Calls \X (0 .. s.elections + 1) : s \in Settings}

Next ==
    \/ \E p \in setting.peers : \E o \in setting.operations : Invoke(p, o)
    \/ \E id \in DOMAIN pendingRequests : Expire(id)
    \/ \E m \in net : \/ ReceiveSubmit(m) \/ ReceiveSubmitResponse(m) \/ ReceiveOngoing(m)
                      \/ ReceiveResponse(m) \/ Lose(m)
    \/ \E p \in setting.peers :
            \/ Notify(p) \/ Elect(p) \/ LearnLeader(p) \/ Commit(p)
            \/ ReadExternal(p) \/ WriteExternal(p) \/ FailExternal(p) \/ Close(p)

Spec == Init /\ [][Next]_vars

\* Timers fire, the leader's entries are committed (nothing prevents a commit that Raft makes), and
\* peers learn who leads.
FairSpec ==
    /\ Spec
    /\ \A id \in Ids : WF_vars(Expire(id))
    /\ \A p \in Peers : 
            /\ WF_committed(p \in setting.peers /\ CommitNext(p))
            /\ WF_vars(p \in setting.peers /\ LearnLeader(p))

-----------------------------------------------------------------------------
(* Properties.                                                             *)

TypeOK ==
    /\ setting \in Settings /\ leader \in Peers /\ leaderId[leader] = leader
    /\ \A p \in Peers :
        /\ leaderId[p] \in Peers \cup {Nil}
        /\ committed[p] \in 0 .. Len(log)
        /\ executor[p].semaphore \in 0 .. 1
        /\ executor[p].semaphore = 1 => executor[p].tasks = <<>>
    /\ DOMAIN pendingRequests \subseteq Ids
    /\ \A c \in Calls : calls[c].status \in {"idle", "waiting", "resolved", "rejected"}

(* A call that resolves has the whole answer of an execution of its        *)
(* request, by the peer that the response names: no chunk is missing, and  *)
(* none is out of order or of another request, in whatever order they came *)
(* and whatever was lost.                                                  *)
ResolvedWasExecuted ==
    \A c \in Calls : calls[c].status = "resolved" =>
        /\ calls[c].result # {}
        /\ \A r \in calls[c].result : \E i \in DOMAIN executed :
            /\ executed[i].by = r[1] /\ executed[i].entry.call = c
            /\ r[2] = Payload(calls[c].request, executed[i].answer)

(* No peer executes an index twice, or after a later one, although its     *)
(* executor may run behind its commits, and calls on the map may fail.     *)
ExecutesInOrder ==
    \A i, j \in DOMAIN executed :
        i < j /\ executed[i].by = executed[j].by => executed[i].index < executed[j].index

(* No peer executes a call twice, however often it was submitted: a        *)
(* submission is made again only when the one before it is lost for good,  *)
(* and its entry is in the log once, whoever leads.                        *)
ExecutedOnce ==
    \A i, j \in DOMAIN executed :
        executed[i].by = executed[j].by /\ executed[i].entry.call = executed[j].entry.call => i = j

(* As long as one peer leads, requests on the external map are atomic: a   *)
(* conditional update decides on the value it replaces, and the answers    *)
(* are those of the executed requests one after the other.                 *)
StoreAfter(n) ==
    LET after[i \in 0 .. n] ==
            IF i = 0 THEN NoEntries ELSE AtOnce(after[i - 1], executed[i].entry).store
    IN  after[n]

ExecutesAtOnce ==
    elections = 0 => \A i \in DOMAIN executed :
        executed[i].answer = AtOnce(StoreAfter(i - 1), executed[i].entry).answer

(* Nothing waits for an answer that nobody awaits: the pending requests    *)
(* of a grid, submissions included, belong to calls that have not ended.   *)
PendingIsAwaited ==
    \A id \in DOMAIN pendingRequests : calls[id[1]].status = "waiting"

(* Every call ends, by an answer or an error: notifications and chunks     *)
(* postpone its timeout, but not for ever.  The exception is a request     *)
(* that a deposed leader keeps notifying of, because its entry is in no    *)
(* log any more and will never be committed.                               *)
Abandoned(c) ==
    /\ \E p \in Peers : \E o \in ongoing[p] : o.id = StorageId(c)
    /\ \A i \in DOMAIN log : log[i].id # StorageId(c)

CallsSettle ==
    \A c \in Calls : calls[c].status = "waiting" ~>
        (calls[c].status # "waiting" \/ Abandoned(c))

(* The comment on resubmission: when the leader changed while a request    *)
(* was submitted, "submit will be resend to the new leader".  A request    *)
(* whose submission succeeded has been given to a leader's log.            *)
SubmittedIsHanded ==
    \A c \in Calls : calls[c].submitted => StorageId(c) \in handed
=============================================================================
