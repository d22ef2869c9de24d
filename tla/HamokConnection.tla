-------------------------- MODULE HamokConnection --------------------------
(***************************************************************************)
(* One replicated collection (src/collections/): on every peer a           *)
(* HamokConnection, which puts the committed requests in front of the      *)
(* replica of a map, a record, a queue or an emitter, and brings a         *)
(* collection that is created late up to date.                             *)
(*                                                                         *)
(* Underneath is the Raft log: all peers see the same requests in the same *)
(* order, each at its own pace (RaftEngine is the module for that), so the *)
(* log is one sequence here, and index 0 stands for the code's -1.  Only   *)
(* entries of this collection are in it.                                   *)
(***************************************************************************)
EXTENDS Collections

Sequence == INSTANCE SequencesExt

CONSTANTS Peers,      \* peer ids
          Settings,   \* the collections to look at, see below
          Closing,    \* peers that may close the collection
          Flapping,   \* peers that may lose the leader
          Resetting,  \* peers whose Raft log may jump ahead
          MaxCalls    \* bound: calls

\* A setting: what the collection is, the peers that had joined before the first
\* call and that call, the peers that may join later, what may be called (operations),
\* a bound on the calls, and config.maxOutboundKeys and -Values (outbound, 0: no limit).
ASSUME SettingsAssumption ==
    \A s \in Settings :
        /\ s.kind \in {"map", "record", "queue", "emitter"}
        /\ s.founders \subseteq Peers /\ s.late \subseteq Peers
        /\ s.founders \cap (s.late \cup Resetting) = {}
        /\ s.calls \in 0 .. MaxCalls /\ s.outbound \in Nat
\* What may be called on a queue is push, pop and clear.
ASSUME QueueAssumption ==
    \A s \in Settings : s.kind = "queue" => \A o \in s.operations :
        \/ o.type \in {"pop", "ClearEntries"}
        \/ /\ o = [type |-> "InsertEntries", entries |-> o.entries]
           /\ o.entries \in Seq({o.entries[i] : i \in 1 .. Len(o.entries)})
ASSUME PeersAssumption == IsFiniteSet(Peers) /\ Nil \notin Peers
ASSUME CallsAssumption == MaxCalls \in Nat

VARIABLES
    setting,  \* the setting, which never changes
    commits,  \* the committed requests, in the order of the log; as history, with
              \* the collection after each and the answer it gets there
    seen,     \* how much of it the Raft engine of a peer has committed
    first,    \* what the log of a peer still holds begins after this index
    conn,     \* the connection of a peer
    replica,  \* the collection of a peer
    notes,    \* StorageStateNotifications in flight
    calls,    \* the requests of the callers
    skipped,  \* history: indices up to the applied one that a replica lacks
    missable, \* history: indices that its way of joining let a peer miss
    damaged   \* history: the import of a snapshot did not give what was exported

log == <<setting, commits, seen, first>>
history == <<skipped, missable, damaged>>
vars == <<log, conn, replica, notes, calls, history>>

kind == setting.kind
Calls == 1 .. MaxCalls
Members == setting.founders \cup setting.late

Indices(from, to) == [j \in 1 .. to - from + 1 |-> from + j - 1]

-----------------------------------------------------------------------------
(* Calls.  One that is split into batches is as many requests, which are   *)
(* submitted at once and settle one by one.                                *)

NoCall == [status |-> "idle", source |-> Nil, request |-> NoRequest, attempt |-> 0,
           result |-> Nil]
Call(p, status, request, result) ==
    [status |-> status, source |-> p, request |-> request, attempt |-> 1,
     result |-> result]

\* splitSet: chunks of the given size, the last one perhaps smaller
Chunks(keys, size) ==
    LET s == Sequence!SetToSeq(keys)
        n == Len(s)
    IN  IF size = 0 THEN <<keys>>
        ELSE [j \in 1 .. (n + size - 1) \div size |->
                {s[i] : i \in {x \in 1 .. n : (x - 1) \div size = j - 1}}]

\* splitMap on the entries of a push, whose order matters
Slices(s, size) ==
    IF size = 0 THEN <<s>>
    ELSE [j \in 1 .. (Len(s) + size - 1) \div size |->
            SubSeq(s, (j - 1) * size + 1, IF j * size < Len(s) THEN j * size ELSE Len(s))]

requestDeleteEntries(r) ==
    LET cs == Chunks(r.keys, setting.outbound)
    IN  [j \in DOMAIN cs |-> [r EXCEPT !.keys = cs[j]]]

requestInsertEntries(r) ==
    IF kind = "queue"
    THEN LET cs == Slices(r.entries, setting.outbound)
         IN  [j \in DOMAIN cs |-> [r EXCEPT !.entries = cs[j]]]
    ELSE LET cs == Chunks(DOMAIN r.entries, setting.outbound)
         IN  [j \in DOMAIN cs |-> [r EXCEPT !.entries = Only(@, cs[j])]]

requestUpdateEntries(r) == requestInsertEntries(r)

requestRemoveEntries(r) == requestDeleteEntries(r)

\* A pop asks for the key at the head of the local replica.
PopRequest(q) == [type |-> "RemoveEntries", keys |-> {q.head}, prev |-> Nil]

\* The requests of operation o, called by p.  cleanup asks for the peers that
\* are subscribed but not among the remote peers, here the founders.
Requests(p, o) ==
    CASE o.type = "ClearEntries"  -> <<o>>
      [] o.type = "DeleteEntries" -> requestDeleteEntries(o)
      [] o.type = "InsertEntries" -> requestInsertEntries(o)
      [] o.type = "RemoveEntries" -> requestRemoveEntries(o)
      [] o.type = "UpdateEntries" -> requestUpdateEntries(o)
      [] o.type = "pop"           -> <<PopRequest(replica[p])>>
      [] o.type = "cleanup"       ->
            LET gone == Emitter!Departed(replica[p], setting.founders, p)
            IN  IF gone = {} THEN <<>>
                ELSE requestDeleteEntries([type |-> "DeleteEntries", keys |-> gone])

\* pop and clear return at once when the local queue is empty.
ReturnsAtOnce(p, o) ==
    /\ kind = "queue"
    /\ o.type \in {"pop", "ClearEntries"}
    /\ Queue!IsEmpty(replica[p])

\* Call ids are used in order.
NextCall == Cardinality({c \in Calls : calls[c].status # "idle"}) + 1

Invoke(p, o) ==
    LET requests == Requests(p, o)
        ids == NextCall .. NextCall + Len(requests) - 1
    IN  /\ p \in setting.founders
        /\ conn[p].phase = "joined"
        /\ ids # {}
        /\ ids \subseteq {c \in 1 .. setting.calls : calls[c].status = "idle"}
        /\ calls' = [c \in Calls |->
                CASE c \notin ids -> calls[c]
                  [] c \in ids /\ ReturnsAtOnce(p, o) ->
                        Call(p, "returned", NoRequest, NoEntries)
                  [] c \in ids /\ ~ReturnsAtOnce(p, o) ->
                        Call(p, "pending", requests[c - NextCall + 1], Nil)]
        /\ UNCHANGED <<log, conn, replica, notes, history>>

\* The request times out, or could not be submitted.  What was submitted may
\* still be committed.
Fail(c) ==
    /\ calls[c].status = "pending"
    /\ calls' = [calls EXCEPT ![c].status = "failed"]
    /\ UNCHANGED <<log, conn, replica, notes, history>>

\* Mutant: a call that failed is submitted again.
LoggedWhilePending(c) ==
    /\ calls[c].status = "pending"
    /\ \E i \in DOMAIN commits : commits[i].call = c

Logged(c) == \E i \in DOMAIN commits :
                commits[i].call = c /\ commits[i].attempt = calls[c].attempt

\* The collection after the first n entries of the log
After(n) == IF n = 0 THEN Empty(kind) ELSE commits[n].after

\* The leader commits the submitted request: its place in the log is settled.
Commit(c) ==
    /\ calls[c].status \in {"pending", "failed"}
    /\ ~Logged(c)
    /\ LET outcome == Apply(kind, After(Len(commits)), calls[c].request, calls[c].source)
       IN  commits' = Append(commits,
            [call |-> c, attempt |-> calls[c].attempt, source |-> calls[c].source,
             request |-> calls[c].request, after |-> outcome.state,
             answer |-> outcome.answer])
    /\ UNCHANGED <<setting, seen, first, conn, replica, notes, calls, history>>

-----------------------------------------------------------------------------
(* Committed requests on their way into a replica.                         *)

\* How far a replica is while p works through some indices.
Progress(p) ==
    [state |-> replica[p], applied |-> conn[p].applied, skipped |-> skipped[p],
     answers |-> {}]

\* Mutant: no test against the applied index.
StepAgain(p, at, i) ==
    LET e == commits[i]
        outcome == Apply(kind, at.state, e.request, e.source)
    IN  [state |-> outcome.state, applied |-> i, skipped |-> at.skipped \ {i},
         answers |-> at.answers]

\* accept on a joined connection: an index that is not above the applied one is
\* dropped; the collection answers what came from its own peer.
Step(p, at, i) ==
    LET e == commits[i]
        outcome == Apply(kind, at.state, e.request, e.source)
    IN  IF i <= at.applied THEN at
        ELSE [state |-> outcome.state,
              applied |-> i,
              skipped |-> at.skipped \cup (at.applied + 1 .. i - 1),
              answers |-> at.answers \cup
                  IF e.source = p /\ outcome.answer # Nil
                  THEN {[call |-> e.call, attempt |-> e.attempt, result |-> outcome.answer]}
                  ELSE {}]

StepAll(p, at, indices) ==
    LET after[n \in 0 .. Len(indices)] == IF n = 0 THEN at ELSE Step(p, after[n - 1], indices[n])
    IN  after[Len(indices)]

\* The answer to a pending request of the peer itself settles it, but a pop that removed nothing
\* tries again unless the queue is empty now.
Settled(c, a, state) ==
    IF kind = "queue" /\ calls[c].request.type = "RemoveEntries"
       /\ a.result = NoEntries /\ ~Queue!IsEmpty(state)
    THEN [calls[c] EXCEPT !.attempt = @ + 1, !.request = PopRequest(state)]
    ELSE [calls[c] EXCEPT !.status = "returned", !.result = a.result]

Advance(p, at) ==
    /\ replica' = [replica EXCEPT ![p] = at.state]
    /\ skipped' = [skipped EXCEPT ![p] = at.skipped]
    /\ calls' = [c \in Calls |->
            LET mine == {a \in at.answers : a.call = c /\ a.attempt = calls[c].attempt}
            IN  IF calls[c].source # p \/ calls[c].status # "pending" \/ mine = {}
                THEN calls[c]
                ELSE Settled(c, CHOOSE a \in mine : TRUE, at.state)]

\* The Raft engine of p emits its next commit, which is dropped without a
\* collection, and buffered until the collection has joined.
Deliver(p) ==
    LET i == seen[p] + 1
    IN  /\ i <= Len(commits)
        /\ seen' = [seen EXCEPT ![p] = i]
        /\ UNCHANGED <<setting, commits, first, notes, missable, damaged>>
        /\ \/ /\ conn[p].phase \in {"none", "closed"}
              /\ UNCHANGED <<conn, replica, calls, skipped>>
           \/ /\ conn[p].phase \in {"created", "fetching"}
              /\ conn' = [conn EXCEPT ![p].buffer = Append(@, i)]
              /\ UNCHANGED <<replica, calls, skipped>>
           \/ /\ conn[p].phase = "joined"
              /\ LET at == Step(p, Progress(p), i)
                 IN  /\ Advance(p, at)
                     /\ conn' = [conn EXCEPT ![p].applied = at.applied]

\* The Raft log of p is reset by the leader (a follower behind what the leader
\* still has, or an endpoint notification): its commit index jumps, and what
\* lies below is neither delivered nor held any more.
LogReset(p) ==
    /\ p \in Resetting
    /\ \E i \in seen[p] + 1 .. Len(commits) :
        /\ seen' = [seen EXCEPT ![p] = i]
        /\ first' = [first EXCEPT ![p] = i]
        /\ missable' = [missable EXCEPT ![p] = @ \cup (seen[p] + 1 .. i)]
    /\ UNCHANGED <<setting, commits, conn, replica, notes, calls, skipped, damaged>>

-----------------------------------------------------------------------------
(* A collection is created, fetches a snapshot and joins.                  *)

NoConnection == [phase |-> "none", connected |-> FALSE, applied |-> 0, buffer |-> <<>>,
                 asked |-> {}, waiting |-> {}]

Create(p, connected) ==
    /\ p \in setting.late
    /\ conn[p].phase = "none"
    /\ connected \/ p \in Flapping
    /\ conn' = [conn EXCEPT ![p] = [NoConnection EXCEPT !.phase = "created",
                                                        !.connected = connected]]
    /\ missable' = [missable EXCEPT ![p] = 1 .. seen[p]]
    /\ UNCHANGED <<log, replica, notes, calls, skipped, damaged>>

\* _leaderChangedListener.  A connection that had joined calls join again, which
\* returns at once because it has joined.
LeaderChanged(p) ==
    /\ p \in Flapping
    /\ conn[p].phase \notin {"none", "closed"}
    /\ conn' = [conn EXCEPT ![p].connected = ~@]
    /\ UNCHANGED <<log, replica, notes, calls, history>>

\* Mutant: the remote peers are taken before there is a leader that makes them known.
FetchFromNobody(p) ==
    /\ conn[p].phase = "created"
    /\ conn[p].connected
    /\ conn' = [conn EXCEPT ![p].phase = "fetching", ![p].asked = Members \ {p}]
    /\ UNCHANGED <<log, replica, notes, calls, history>>

\* _fetchStorageState: with a leader, ask every remote peer for its state.
Fetch(p) ==
    /\ conn[p].phase = "created"
    /\ conn[p].connected
    /\ conn' = [conn EXCEPT ![p].phase = "fetching", ![p].asked = Members \ {p},
                            ![p].waiting = Members \ {p}]
    /\ UNCHANGED <<log, replica, notes, calls, history>>

\* The StorageHelloNotification of p reaches q.  A collection answers it even
\* when it has not joined itself; a peer without the collection answers without
\* a snapshot.
AnswerHello(q, p) ==
    /\ conn[p].phase = "fetching"
    /\ q \in conn[p].asked
    /\ conn' = [conn EXCEPT ![p].asked = @ \ {q}]
    /\ notes' = notes \cup
        {IF conn[q].phase \in {"none", "closed"}
         THEN [from |-> q, to |-> p, snapshot |-> Nil, applied |-> 0, skipped |-> {},
               damaged |-> FALSE]
         ELSE [from |-> q, to |-> p, snapshot |-> Export(kind, replica[q]),
               applied |-> conn[q].applied, skipped |-> skipped[q],
               damaged |-> damaged[q] \/ Import(kind, Export(kind, replica[q])) # replica[q]]}
    /\ UNCHANGED <<log, replica, calls, history>>

\* Mutant: no buffer, and the log without the entry at the commit index.
ReplayedLogOnly(p, applied) ==
    LET from == IF applied < first[p] + 1 THEN first[p] + 1 ELSE applied
    IN  IF from < seen[p] THEN Indices(from, seen[p] - 1) ELSE <<>>

\* What is replayed: what was buffered, and behind it what the log still holds
\* from the applied index on.
Replayed(p, applied) ==
    LET from == IF applied < first[p] + 1 THEN first[p] + 1 ELSE applied
    IN  conn[p].buffer \o IF applied < seen[p] THEN Indices(from, seen[p]) ELSE <<>>

\* The rest of _join, on top of the given progress.
Join(p, at) ==
    LET done == StepAll(p, at, Replayed(p, at.applied))
    IN  /\ Advance(p, done)
        /\ conn' = [conn EXCEPT ![p] = [NoConnection EXCEPT
                        !.phase = "joined", !.connected = conn[p].connected,
                        !.applied = done.applied]]
        /\ notes' = {m \in notes : m.to # p}  \* nobody listens to them any more

\* A StorageStateNotification: the first snapshot wins; without one from anybody
\* the collection starts empty.
ReceiveState(p, m) ==
    LET waiting == conn[p].waiting \ {m.from}
    IN  /\ conn[p].phase = "fetching"
        /\ m.to = p
        /\ UNCHANGED log
        /\ \/ /\ m.snapshot = Nil /\ waiting # {}
              /\ conn' = [conn EXCEPT ![p].waiting = waiting]
              /\ notes' = notes \ {m}
              /\ UNCHANGED <<replica, calls, history>>
           \/ /\ m.snapshot = Nil /\ waiting = {}
              /\ Join(p, Progress(p))
              /\ UNCHANGED <<missable, damaged>>
           \/ /\ m.snapshot # Nil
              /\ Join(p, [state |-> Import(kind, m.snapshot), applied |-> m.applied,
                          skipped |-> m.skipped, answers |-> {}])
              /\ damaged' = [damaged EXCEPT ![p] = m.damaged]
              /\ missable' = [missable EXCEPT ![p] = (@ \ (1 .. m.applied)) \cup m.skipped]

\* No snapshot came within remoteStorageStateWaitingTimeoutInMs.
FetchTimeout(p) ==
    /\ conn[p].phase = "fetching"
    /\ Join(p, Progress(p))
    /\ UNCHANGED <<log, missable, damaged>>

\* close: the pending requests of the collection are rejected, and a queue
\* clears its items.
Close(p) ==
    /\ p \in Closing
    /\ conn[p].phase \notin {"none", "closed"}
    /\ conn' = [conn EXCEPT ![p] = [NoConnection EXCEPT !.phase = "closed"]]
    /\ notes' = {m \in notes : m.to # p}
    /\ replica' = [replica EXCEPT ![p] = Empty(kind)]
    /\ calls' = [c \in Calls |->
            IF calls[c].source = p /\ calls[c].status = "pending"
            THEN [calls[c] EXCEPT !.status = "failed"] ELSE calls[c]]
    /\ skipped' = [skipped EXCEPT ![p] = {}]
    /\ missable' = [missable EXCEPT ![p] = {}]
    /\ damaged' = [damaged EXCEPT ![p] = FALSE]
    /\ UNCHANGED log

Init ==
    /\ setting \in Settings
    /\ commits = <<>>
    /\ seen = [p \in Peers |-> 0]
    /\ first = [p \in Peers |-> 0]
    /\ conn = [p \in Peers |-> IF p \in setting.founders
                THEN [NoConnection EXCEPT !.phase = "joined", !.connected = TRUE]
                ELSE NoConnection]
    /\ replica = [p \in Peers |-> Empty(kind)]
    /\ notes = {}
    /\ calls = [c \in Calls |-> NoCall]
    /\ skipped = [p \in Peers |-> {}]
    /\ missable = [p \in Peers |-> {}]
    /\ damaged = [p \in Peers |-> FALSE]

Next ==
    \/ \E p \in Members : \E o \in setting.operations : Invoke(p, o)
    \/ \E c \in Calls : Fail(c) \/ Commit(c)
    \/ \E p \in Members : \/ Deliver(p) \/ LogReset(p) \/ LeaderChanged(p)
                        \/ Fetch(p) \/ FetchTimeout(p) \/ Close(p)
    \/ \E p \in Members : \E connected \in BOOLEAN : Create(p, connected)
    \/ \E p, q \in Members : AnswerHello(q, p)
    \/ \E p \in Members : \E m \in notes : ReceiveState(p, m)

Spec == Init /\ [][Next]_vars

-----------------------------------------------------------------------------
(* Properties.                                                             *)

Phases == {"none", "created", "fetching", "joined", "closed"}

TypeOK ==
    /\ setting \in Settings
    /\ \A p \in Peers :
        /\ first[p] \in 0 .. seen[p] /\ seen[p] \in 0 .. Len(commits)
        /\ conn[p].phase \in Phases
        /\ conn[p].applied \in 0 .. Len(commits)
        /\ conn[p].asked \subseteq conn[p].waiting /\ conn[p].waiting \subseteq Members \ {p}
        /\ skipped[p] \subseteq 1 .. conn[p].applied
    /\ \A c \in Calls :
        calls[c].status \in {"idle", "pending", "returned", "failed"}

\* What an empty collection becomes by the first n entries without some of them
AfterAllBut(n, missed) ==
    LET after[i \in 0 .. n] ==
            IF i = 0 THEN Empty(kind)
            ELSE IF i \in missed THEN after[i - 1]
            ELSE Apply(kind, after[i - 1], commits[i].request, commits[i].source).state
    IN  after[n]

(* Whatever the race of snapshot, buffer and log while a collection joins, *)
(* it has applied every index up to its applied one in the order of the    *)
(* log and none twice, except those it skipped: the replica is what these  *)
(* indices make of an empty collection.                                    *)
InSync ==
    \A p \in Peers : conn[p].phase = "joined" /\ ~damaged[p] =>
        replica[p] = AfterAllBut(conn[p].applied, skipped[p])

(* What a collection can skip is only what was committed before it was     *)
(* created, above the snapshot it got, or jumped over by its Raft log:     *)
(* nothing that the connection was there to buffer is lost.                *)
SkipsOnlyMissable ==
    \A p \in Peers : conn[p].phase = "joined" => skipped[p] \subseteq missable[p]

(* A queue is first in, first out over all callers: a push appends, a pop  *)
(* that names the head, as the others do not, answers the oldest value and *)
(* removes only that, and a position is never used for two values, so that *)
(* a pop sent for a head that is gone cannot take what came after it.      *)
Contents(q) == [j \in 1 .. q.tail - q.head |-> q.items[q.head + j - 1]]

FIFO(before, e) ==
    CASE e.request.type = "InsertEntries" ->
            /\ Contents(e.after) = Contents(before) \o e.request.entries
            /\ e.after.head = before.head
      [] e.request.type = "ClearEntries" ->
            Contents(e.after) = <<>> /\ e.after.head = before.tail
      [] e.request.type = "RemoveEntries" /\ e.answer = NoEntries ->
            /\ e.after = before
            /\ Contents(before) # <<>> => e.request.keys # {before.head}
      [] e.request.type = "RemoveEntries" /\ e.answer # NoEntries ->
            /\ DOMAIN e.answer = e.request.keys
            /\ e.answer = [i \in {before.head} |-> Head(Contents(before))]
            /\ Contents(e.after) = Tail(Contents(before))
            /\ e.after.head = before.head + 1

QueueIsFIFO ==
    kind = "queue" => \A i \in DOMAIN commits : FIFO(After(i - 1), commits[i])

(* What the documentation says of joining: the collection catches up with  *)
(* the remote peer and stays in sync.  A joined collection has the effect  *)
(* of every index up to its applied one.                                   *)
CatchesUp ==
    \A p \in Peers : conn[p].phase = "joined" =>
        replica[p] = After(conn[p].applied)

(* To its callers the collection is one object: every request takes effect *)
(* in one step between its call and its answer, at most once, and the      *)
(* answer is that of this step, although the replica of the caller, not    *)
(* the leader's, computes it.  The object is the log applied in order.     *)
Answers(c) ==
    {commits[i].answer : i \in {j \in DOMAIN commits :
        commits[j].call = c /\ commits[j].attempt = calls[c].attempt}}

Abstract == INSTANCE AtomicCollection WITH
    kind <- setting.kind,
    object <- After(Len(commits)),
    calls <- [c \in Calls |->
                [status |-> calls[c].status, source |-> calls[c].source,
                 request |-> calls[c].request, result |-> calls[c].result]],
    done <- [c \in Calls |-> Answers(c)]

ImplementsAtomicCollection == Abstract!Spec
=============================================================================
