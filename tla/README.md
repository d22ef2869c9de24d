# A verification of hamok-ts

Hamok keeps collections (maps, records, queues, emitters) replicated between the
instances of an application. Every change is a message that a Raft log orders:
the leader appends it, followers copy it, and what is committed is applied by
every instance in the same order. This directory models that machinery in TLA+,
checks it with TLC, and proves with TLAPS what should hold for every value of
the parameters. Paths below are relative to the repository (`src/`).

## 1. Inventory

| part | source | state | operations |
|---|---|---|---|
| Raft log | `src/raft/MemoryStoredRaftLogs.ts` | `_firstIndex`, `_nextIndex`, `_commitIndex`, `_entries`, byte estimate | `submit`, `compareAndAdd`, `compareAndOverride`, `commitUntil` (with `_expire`), `removeUntil`, `reset`, `collectEntries`, iterator |
| Raft engine | `src/raft/RaftEngine.ts` and its four states `Raft{Empty,Follower,Candidate,Leader}State.ts` | current state object, `leaderId`, `remotePeers`, `props` (term, vote, next and match indices); per state object: election term, votes, outstanding requests, unsynced peers | the listeners of each state for four message types, `run` on a timer, the setters of `state` and `leaderId`, `submit` |
| Append request | `src/raft/RaftAppendEntriesRequest.ts`, `messages/messagetypes/RaftAppendEntries.ts` | chunks received so far | `add`, `createResponse` |
| Hamok | `src/Hamok.ts` | `_run`, `_joining`, heartbeats of remote peers, the registry of storages, ongoing submits | `join`, `leave`, `close`, `addRemotePeerId`, `removeRemotePeerId`, `submit`, `accept`, `create…`, endpoint and join notifications, heartbeat timeouts |
| Grid requests | `src/HamokGrid.ts`, `messages/Pending{Request,Response}.ts`, `OngoingRequestsNotifier.ts`, `ResponseChunker.ts` | pending requests and responses, ongoing request ids | request, chunked response, timeout, postponement |
| Connection | `src/collections/HamokConnection.ts` | joining flag, buffered commits, applied commit index | join with snapshot and replay, dispatch of committed messages, close |
| Collections | `src/collections/Hamok{Map,Record,Queue,Emitter,RemoteMap}.ts`, `BaseMap.ts` | one `BaseMap` and bookkeeping each | what a committed request does to them, snapshots, and their reaction to peers that leave |
| Helpers | `src/common/*.ts` | running and waiting tasks | `ConcurrentExecutor`; `WaitingQueue` is used by nothing |
| Codecs | `src/messages/{StorageCodec,HamokGridCodec,RaftMessageEmitter}.ts` | none | field-by-field conversion |

How they interact. `Hamok` owns a `RaftEngine`, drives `state.run()` from an
interval timer, hands it the messages that arrive and sends those it emits. The
engine shares one log object between its successive state objects and reports
back through synchronous events: `commit` (each committed entry, in order),
`leader-changed`, `state-changed`, `unsynced-peer`. On the loss of its leader
Hamok removes every remote peer and joins anew; on a membership change the
leader broadcasts the list of endpoints, and a receiver may even reset its log
to that notification's figures. Collections submit requests through Hamok (to
the leader when it is another peer) and the peer that made a request answers it
when it commits; only on a remote map the leader does, for all.

What is hard here: elections and appends interleave with membership that changes
under them; requests of the leader carry no previous index that followers check,
and responses carry the term of the request, so their lateness matters; entries
expire while followers still need them; a lost request is repeated after 30 s
while its answer may be under way; a state object is replaced while messages to
the old one are in flight; a collection joins while requests commit, and puts
together a snapshot, a buffer and a log; a request is kept alive, chunked,
timed out and resubmitted while the leader changes; a leave meets a join that
is being retried. `PROJECT.json` lists each hazard at its line with the
properties aimed at it.

## 2. Modules

| module | models | extends or instantiates |
|---|---|---|
| `RaftLogs` | the log as operators on a record, one per method, and `MergeEntries`: what a follower does to its log with a request, and `MergeByCalls`, the loop in which the code does it | |
| `MemoryStoredRaftLogs` | one log object as a state machine: any public call with any argument, a clock | `RaftLogs` |
| `RaftMessageEmitter` | the four Raft messages to and from the wire | |
| `RaftAppendEntriesRequest` | requests cut into chunks, the follower's buffer of them, and a follower at which chunks arrive | `RaftMessageEmitter` |
| `RaftEngine` | the engines of all peers, the network, membership calls, clients | `RaftLogs` |
| `BaseMap` | the conditional changes all maps share | |
| `HamokMap`, `HamokRecord`, `HamokQueue`, `HamokEmitter` | what each committed request does to a collection and what it answers; snapshots | `BaseMap` |
| `Collections` | one interface to the four: `Apply`, `Export`, `Import` | the four |
| `AtomicCollection` | **abstract**: what a collection promises its callers, one object that changes in single steps | |
| `HamokConnection` | the connections and replicas of one collection on all peers | `Collections`, `AtomicCollection` |
| `PendingRequest`, `ResponseChunker`, `ConcurrentExecutor` | one object each, as operators | |
| `HamokRemoteMap` | the requests of a remote map and their execution on the external map | `BaseMap` |
| `StorageCodec`, `HamokGridCodec` | the messages of collections and of the grid to and from the wire | |
| `HamokGrid` | requests on a remote map, from the call to its end | `HamokRemoteMap`, `PendingRequest`, `ConcurrentExecutor`, `ResponseChunker`, the codecs |
| `Hamok` | join, leave, heartbeats, endpoint notifications, the registry | |
| `MCMemoryStoredRaftLogs`, `MCRaftEngine`, `MCHamokConnection`, `MCHamokGrid`, `MCHamok` | instances for TLC | the above |
| `…_proofs` | theorems, see section 4; `MemoryStoredRaftLogs_proofs` has also what holds of requests in chunks and of Raft messages, `HamokGrid_proofs` what holds of executors, codecs and chunks, `HamokCalls_proofs` the life of a call | the above |

There are three layers: the Raft engine, the grid on top of it (`HamokGrid`,
`Hamok`), and the collections on top of that (`HamokConnection`). Each of the
upper ones sees the lower ones by what it is told: `HamokConnection` a log that
every peer sees in order, at its own pace, and that may jump ahead;
`HamokGrid` the leader's log, commits, and elections after which
what was not committed may be gone; `Hamok` keep-alives, elections, and logs whose entries
have an index and a term.

`HamokConnection`, `HamokGrid` and `Hamok` look at several small situations in one
run: their constant `Settings` is a set of records (who is there, who may do
what, what may go wrong), and `Init` chooses one, which then stays.

### The log

A record `[firstIndex, nextIndex, commitIndex, entries, bytes]`. `entries` is a
JavaScript `Map`, hence a function whose domain may have holes: `removeUntil`
deletes more than its argument says, expiry leaves the newest expired entry, and
`compareAndOverride` may bring entries back below the first index. Loops are
written as what they compute: `CommitEnd` is where the loop of `commitUntil`
stops, `Scanned` is what `_expire` looks at, `Merged` is the log after the
follower's loop over the messages of a request (`MergeIsLoop` says that it is: that the
log which `MergeByCalls` has after its last pass is that of `MergeEntries`). The byte estimate is
added to and subtracted from as the code does it; `BytesAt` is the sum it should be.
Keys and values of a message count only by their size, `Size[v]`.

### The engine

| variable | code |
|---|---|
| `mode` | `state.stateName` |
| `currentTerm`, `votedFor`, `nextIndex` | `props`; `matchIndex` is always one less and is derived |
| `leaderId`, `remotePeers`, `log` | fields of the engine |
| `electionTerm`, `votes`, `notified`, `started` | locals of `createRaftCandidateState` |
| `sent`, `unsynced` | locals of `createRaftLeaderState` |
| `applied` | what `commit` events have delivered, per index |
| `msgs`, `now` | messages in flight; the clock that ages entries |

Each listener, `run` method and call is one action, named for who does what
(`FollowerAppends`, `LeaderHearsSuccess`). Listeners that Hamok registers and
that run synchronously inside a setter belong to the action: `SetLeader` empties
`remotePeers` when a running peer loses its leader, `LeaderRun` removes a peer
reported unsynced. `SetState` forgets the locals of the old state object.

Abstractions, all in the direction of more behaviours unless said:
- time is not measured: a timeout may fire in any run (limited to the peers in
  `Impatient`), an outstanding request may expire in any run;
- who adds and removes remote peers is free (join notifications, heartbeat
  timeouts and endpoint notifications are choices of the environment; `Hamok`
  is where they have their reasons);
- a request with several entries is one message: a follower may take any number
  of its chunks without completing it (`FollowerTakesChunk`), then the last one
  (`FollowerAppends`). Chunks lost for good are the loss of the message.
  `AssembledIsSent` checks that chunks in any order, with repetitions, give the
  request that was sent;
- two identical messages in flight are one, so a request id is not needed;
- *fewer* behaviours: the log reset by an endpoint notification
  (`Hamok.ts:1182`) is in `Hamok` and not in this model. It can take a commit index
  back. What is said of `RaftEngine` is about `raft/` alone, and holds as long as no
  such reset happens.

### The collections

| variable of `HamokConnection` | code |
|---|---|
| `commits` | the log, as far as it has been committed by the leader; per entry, as history, the collection after it and the answer it gets there |
| `seen`, `first` | how far the engine of a peer has emitted `commit`, and where its log begins |
| `conn` | the connection: `phase` (none, created, fetching a snapshot, joined, closed), `connected`, `applied` (`_appliedCommitIndex`, with 0 for −1), `buffer`, the peers that were `asked` and those it is `waiting` for |
| `replica` | the collection itself, as `Collections` has it |
| `notes` | snapshots in flight |
| `calls` | pending requests of the callers; a call split in batches is several |
| `skipped`, `missable`, `damaged` | history: what a replica lacks, what its way of joining let it miss, and whether an import did not give what was exported |

`Invoke` is a call of the collection's method, `Commit` its place in the log,
`Deliver` the engine's `commit` event at one peer with all that follows in the same turn
(buffering or `accept`, the change of the replica, the answer to a request of the
peer itself, the repetition of a pop whose head was gone). `Create`,
`LeaderChanged`, `Fetch`, `AnswerHello`, `ReceiveState` and `FetchTimeout` are the
steps of `_join` between its awaits; `LogReset` is the engine's jump. A committed
request is applied by `Apply(kind, collection, request, source)`, which gives
the new collection and the answer, and looks at nothing else. A record whose fields have
codecs of their own (`payloadsCodec`) holds the codec of a field, not its value, from the first
commit on (`Decoded`, `HamokRecord.ts:510`): replicas agree on it, callers cannot use it.

`damaged` is there because a queue restored from a snapshot with one element, or
from an empty one after something had been popped, is not the queue that was
exported (`HamokQueue.ts:317`: its tail, or both positions, are wrong). `InSync`
does not speak of such replicas; callers are not affected, because in these
settings only peers that were there from the start call.

### Requests

`HamokGrid` follows a call on a remote map: `Invoke` makes the pending request and
submits it, `ReceiveSubmit` and `ReceiveSubmitResponse` are the way to
the leader and back, `Expire` is the timer of any pending request (of a storage
request or of a submission; one that was postponed starts again), `Notify` and
`ReceiveOngoing` are what postpones it, `Commit` is the `commit` event of a peer: it ends
the ongoing request and hands the request to the executor of the map, which runs
it with `ReadExternal` and `WriteExternal` (or `FailExternal`), and answers in chunks;
`ReceiveResponse` puts them together. `Elect` chooses a leader, whose log may lack
what was not committed; `LearnLeader` is when another peer notices. `net` has no
order, `Lose` takes from it what the setting allows.

`executesAs` is `_leader` of the map object, which differs from the grid's leader:
it is only set on `leader-changed`, so a map that is created after the election
executes nothing until the next one.

### Membership

In `Hamok` a peer is a record, and a handler is an operator from the record to the
record after it, so that a handler reads as the method it stands for; the field
`out` collects what it sends. `Becomes` ends an action: it puts the messages on
their way and runs at once what the handler has woken up (`Settled`: the
continuation of `join`, of `leave`). `net` keeps the order between any two peers.
`heard` and `stale` are the table of `_checkRemoteHeartbeats`: who has an entry, and
whose entry is too old. A storage is `[kind, id, open]`, and `registered` is the map
from ids to storages through which messages are routed. `Elect`, `KeepAlive`, `Submit`,
`FollowerTimeout` and `Unsynced` are Raft as Hamok sees it.

A log is `[firstIndex, nextIndex, commitIndex, entries]`, and `entries` is a function from the
indices that there are to their terms (0 once committed), since a notification announces how many
entries there are (`Size`), wherever they lie: after a reset the entry at `firstIndex` is missing, and a
request may bring back entries before it. A leader's log changes while it leads: `Submit` writes
entries, a response commits what a majority holds (`Answered`, `Committable`), and a commit drops old
entries if the setting lets them expire (`AfterExpiry`). `nextIndex` is what a leader believes of the others,
and decides what its next request holds (`Appended`) and who is unsynced.

## 3. Runs

| run | instance | checks |
|---|---|---|
| `logs` | 2 messages of different size, indices 0..3, terms 1..2, 3 clock values, expiry after 1 | types, no gap above the commit index, exact byte estimate, `MergeIsLoop`, discards below the commit index only; `AssembledIsSent` and `RaftMessagesArrive` |
| `elections` | 3 peers, 2 compete; 2 terms, 2 entries that do not expire | types, `NoEntryFromTheFuture`, `NoResponseFromTheFuture`, `EveryCommitDelivered`, `CommitNeedsMajority` |
| `overtaking` | 2 peers, only peer 2 may stand, leave and rejoin; 2 messages in flight, duplication, 3 clock values and expiry after 1; 2 terms, 2 entries of 2 values | `LogsAgree`, `NoGapAboveCommit`, `StateMachineSafety`, `MatchIndexTruthful`, `TermAndCommitMonotonic` |
| `rivals` | 2 peers from nothing: start, leave, meet, forget; loss and duplication | `SelfLeaderIffLeading`, `OnlyOneCanRemain` |
| `delivery` | 2 peers, loss | `SubmittedIsDelivered` |
| `state_machine_safety` | as `elections` | one claim of the documentation, refuted |
| `collections` | each of map, record, queue, emitter with 2 callers and 3 calls, and with one caller and a peer that joins late, closes, loses the leader and whose log jumps (2 calls, 3 for a queue); a queue with 2 late peers; a map in batches of one key | types, `InSync`, `SkipsOnlyMissable`, `QueueIsFIFO`, `ImplementsAtomicCollection` |
| `catch_up` | the map with a late peer | one claim of the documentation, refuted |
| `grid` | 6 settings, see below | types, `ResolvedWasExecuted`, `ExecutesInOrder`, `ExecutedOnce`, `ExecutesAtOnce`, `PendingIsAwaited`, `MessagesSurvive`, `CallsSettle` |
| `resubmission` | a request on its way while the leader changes | what a comment says, refuted |
| `cluster` | 8 settings, see below | types, `LeftIsOut`, `HeardByLeaderOnly`, `FollowersKnow`, `OpenIsRouted`, `LeaveEnds` |
| `log_reset` | a third peer joins two that have two log entries left | what a warning says, refuted |

Why these bounds.

*The engine.* Two terms are one leadership and its successor, with messages
of the first still in flight; two entries are one committed and one not. A leader
sends to all its peers at once, so with three peers and two messages in
flight no append request can overtake another; a request still meets the answer to
an earlier one, and vote requests meet each other. Overtaking is what `overtaking`
is for: with two peers a run sends one message, and two in flight (each of which
may be delivered again) let an old request, of the same or of an earlier
leadership, arrive after newer ones, and old answers after newer ones. The runs
of liveness have room for all messages. Symmetry is over message values only, and
never in runs with liveness: peers are ordered (`localeCompare` settles rivalries).
Most runs begin in `Joined` (all peers have started and know each other), a state
`Init` leads to; `rivals` begins in `Init` itself.

*The collections.* Two callers and three calls are a pair that meets at the same key
or head and one that sees what they left. The values include one that JavaScript
counts as false, which the code takes for a missing one in places. With a late peer,
two calls let one commit lie in the snapshot or before the buffer and one in it, and the
third element of a queue separates the head of a snapshot from its tail.

*Requests.* One setting each for: conditional updates one behind the other, with a
connection that closes; calls on the external map that fail; an answer in chunks to
another peer; a map that was created too late, over a network that loses messages;
a change of leader while a request of another peer is on its way, with loss; a
change of leader while the leader's own requests are. The codecs are checked in
the initial states, for every message type with every combination of a few values
of its fields (present, missing, empty, false, 0, −1).

*Membership.* `Pair` and `LossyPair` begin with nothing; `Joiner` is a third peer that
comes to a grid; `JoinsLog` is the same without elections, when the log of the grid has three entries
left, at indices 3 to 5, and its leader writes another (up to `maxIndex`), commits it and drops what has
expired: the third peer resets its log to what the leader has left then; `Writers` are two with such logs that
lead in turn. (A joiner, elections and growing logs in one setting are too much for TLC: more than
3.5 million states.) `Leavers` may all leave and one of them
close; `Trio` has one timer that fires without need (a peer falls silent for the
others while it is alive); `Owner` creates three storages of any kind under one id, and closes
them. Two terms (`maxTerm`), and a join is retried once. These are 783,323 states. `MaxOnTheWay = 0`: the timers of
the leader and of joining peers rest while messages are on the way, because each
round of a timer sends more; other handlers may meet any message in flight.

Deadlock is checked in the runs of the log and the engine. `collections`, `catch_up`,
`grid`, `resubmission`, `cluster` and `log_reset` switch it off: their calls run out,
and a grid in which every peer has closed does nothing any more.

### Fairness

`rivals`: the leader's interval timer keeps running (weak fairness of `LeaderRun`),
and a rival's request that is sent again and again is received once in a while
(strong fairness of `LeaderFollows`). `delivery`: the timers of follower,
candidate and leader (weak fairness), and strong fairness for each kind of message
that is sent again and again, so the network may lose any message but not every
one. A request outstanding counts as expired in the end, as the 30 s limit has
it. Nothing is assumed of clients, membership or the clock.

`grid`: every pending request has a timer of its own (weak fairness of `Expire`), and
Raft keeps going (weak fairness of `CommitNext`, the part of `Commit` that is Raft's and that
the rest of it never prevents, and of `LearnLeader`). Messages may never arrive, and
external calls may never end. `cluster`: only the timeout of `waitUntilLeader`, a
timer of its own, is assumed to fire (weak fairness of `JoinTimeout`).

### Exceptions the properties name

Each stands for something the code does, found when the property without it failed:
- `CallsSettle` excepts a request that is `Abandoned`: a leader keeps the id of an ongoing request
  until it commits *there* (`Hamok.ts:819`). One that was deposed with the entry
  uncommitted goes on notifying, each notification postpones the timeout, and the
  caller may wait as long as that peer lives.
- `FollowersKnow` excepts a `Forgetful` follower, which has lost its leader for a moment and
  with it all its remote peers. The leader still knows it and does not answer its join
  notification (`Hamok.ts:1101`), so it stays without remote peers until the
  membership changes.
- `OpenIsRouted` excepts storages that have shared their id with a queue or an
  emitter: those are created without a look at the id (`Hamok.ts:719`), and the one
  that closes first takes the other's registration with it.
- `MessagesSurvive` lists what does not: an empty snapshot or empty custom data arrives as none, a
  missing set of endpoints as an empty one, and `encode` takes a notification that
  entries were removed for one that they were deleted.

### What the refuted claims show

- `StateMachineSafety` (`src/README.md:101`): followers override whatever they
  hold and voters compare only a candidate's last index with their own commit
  index. A leader that lost its peers before its commit index spread can be
  replaced by a peer with an empty log, whose entry then takes the place of a
  committed one. With a single candidate (`overtaking`) it holds. Besides, a vote is
  bound to no term: a follower whose idle timer fires forgets its vote without
  changing its term, so there may be two leaders of one term; `OnlyOneCanRemain`
  shows that they settle it once they know each other.
- `CatchesUp` (`src/docs/index.md:430`): a joining collection replays its buffer
  first and what is older, from its log, after that. `accept` drops every index
  that is not above the applied one, hence all of the latter: what was committed
  between the snapshot and the first buffered commit is missing for good.
  `SkipsOnlyMissable` shows that nothing else is.
- `SubmittedIsHanded` (`src/src/Hamok.ts:854`): when the leader that was asked has been
  deposed, what is submitted again to the new one is the submission message, not
  the entry it carries. The new leader puts that in its log and
  answers success; the request is in nobody's log. The submission is, though (`SuccessIsTaken`),
  and as long as there is no election the claim holds (`HandedUnderOneLeader`).
- `ResetsToCommitted` (`src/src/Hamok.ts:1177`): a joining peer computes the index to reset
  its log to as `leaderNextIndex - numberOfLogs + 2`, two above the
  first entry the leader holds, if there is no hole. With two entries or fewer that is at or behind the
  leader's end, an index that nobody has committed. If no entries expire and the leader of a formed grid
  begins with a log without holes whose first three entries are committed, the claim holds as
  long as it is the only leader (`FirstLeaderResetsToCommitted`). Neither condition can be dropped:
  expiry can leave fewer than three committed entries, and the log of a peer that has itself
  been reset lacks its first one, so that as a leader it announces one entry less than its bounds say.

## 4. Proofs

`RaftLogs_proofs` states for each operator on logs that it keeps `IsLog` (types),
`GapFree` (nothing missing between commit index and end, nothing outside, first
index at or below the commit index) and `TermsUpTo`, and how it moves the two
indices, for any messages, any sizes, any expiration time. `ExpireOK` and
`CommitUntilOK` are the ones with an argument to make: expiry only ever looks
below the commit index, and in a gap-free log `CommitEnd` is the index asked for
or the end of the log, never a missing entry. `MergeEntriesOK` needs that a
request holds no more entries than its `leaderNextIndex` says. What a log loses and
what is written into it is stated too (`OnlyDrops`, `OnlyWrites`), and what a leader
collects for a follower is without holes when its log is (`CollectContiguous`).

`MemoryStoredRaftLogs_proofs`: the inductive invariant is `TypeOK /\ GapFree`.
Type correctness alone is not inductive, because where a commit ends and which
entries it hands out is known only in a gap-free log. With it the byte estimate is
inductive too (`BytesInv`): sums are split, joined and compared index by index
(`SumsAgree`, `SumsAddUp`, `SumOfRest`), and what a discard subtracts is what was added only
because no entry lies outside the log. `MergingIsTheLoop` goes through the follower's
loop pass by pass (`Merging`): after each, the log is the one at the start with the messages so
far written over it. This is what allows `RaftEngine` to take a request as one step.

Two results of that module need no state. `RaftMessageArrives`: each message is decoded to
what was encoded, for all peers, ids and figures, as long as a figure is a number (`Nil`
is none, `NilAssumption`). `RequestsAssemble`: whatever requests there are and in
whatever order their chunks arrive, `Assembling` relates what the follower has pending to
the set of chunks that have come: of a request that is incomplete it has exactly those
chunks (`Gathered`), so that counting the entries, as `add` does, tells when all are there. A chunk
that comes again makes `add` throw, but changes nothing (`AddAgain`); when all of a request has
come again it may be pending anew, which is why nothing is said then of what is left over.

`RaftEngine_proofs`: all theorems are about `Spec` and `JoinedSpec`, for every
finite set of numbered peers and every choice of who may time out, leave, be
removed, and of what the network may do. The inductive invariant `EngineInv` says
of each peer that it is typed, that its state object agrees with `leaderId`
(`RoleOK`), that its log has no gap and no entry of a later term (`LogOK`), that it
is no remote peer of its own and that `nextIndex` never exceeds the end of the
other's log (`MembershipOK`); and of each message what held when it was sent
(`MessageOK`): a request holds no more entries than its `leaderNextIndex` and its
term is not above its sender's; a successful answer reports no more entries than
its sender's log has. The last part is why it is inductive: what a leader takes
from an answer rests on a log it cannot see. `MessageOK` stays true as long as
terms and log ends only grow (`OldMessageStaysOK`, `Grows`), which no step may
break; this also covers a message delivered twice or years late. There is one
lemma per action, each concluding `GoodStep`.

The second part of that module proves `LogsAgree` and `StateMachineSafety`
for clusters with one candidate: at most one peer of `Peers` is impatient and does not
only follow (`OneCandidate`), which is how a reader can get the guarantee of
the documentation in spite of the refuted claim. The invariant is that there is one
`History`, what the candidate has submitted by index: every log, every request in flight and
every delivery agrees with it, whatever was dropped, repeated, overtaken or reset
meanwhile. Only a submission makes it longer. `EveryCommitDelivered` holds for any number of
candidates if `ExpirationTime = 0` (the code's `expirationTimeInMs` below 1): then no log
drops its first entries, and no follower ever resets its own. With expiry, as `Hamok` configures it
by default, a follower that is late resets to where the leader's log begins and never delivers what lies before
(`RaftFollowerState.ts:106-124`). So the property says nothing of clusters whose entries expire, and it
is checked in `elections`, where none do.

`HamokConnection_proofs` proves the refinement for every set of peers, settings and
calls. `AtomicCollection` has one object; `HamokConnection` gives it the collection
after the last committed request (`object <- After(Len(commits))`), and a call
has had its effect when the log has an entry of its last attempt (`done <-
Answers(c)`). What has to be shown of a commit is that the entry is the first of its
attempt; what has to be shown of an answer, which the caller's *replica* computes,
is that it is the one which the log gives. So the invariant says of calls what they
may be (`CallsOK`), of the log that each entry follows from the one before and that
no attempt is in it twice (`LogOK`), and of the peers that were there from the start
that their replica is what the log makes of an empty collection as far as they
have seen it (`FounderOK`). `Apply` is never opened: the theorem holds of any
collection whose requests are a function of it, the request and the caller.

Peers that join later need more, `JoinInv`: what a replica holds is what the log makes of an
empty collection up to `applied` without the indices in `skipped` (`FromLog`); a
snapshot in flight is such a progress of its sender; the buffer is an ascending list of
indices that were seen; and every index between the applied one and the last one seen is in
the buffer or in `missable` (`Accounted`). `accept` is one index at a time (`StepKeeps`),
and a replay is a chain of such steps. From this follow `InSync`, `SkipsOnlyMissable`
and `CatchingUp`, which says when the claim that `catch_up` refutes does hold.
`HamokQueue_proofs` is about what `Apply` does to a queue: values exactly from `head`
to before `tail` is what pushes, pops and clears keep, and `QueueIsFIFO` needs of what
was there before. It uses `QueueAssumption`: what is called on a queue is push, pop
or clear.

`HamokGrid_proofs`: each peer's executor runs one task at a time, those that
wait are in the order of their indices, all of them have been committed, and what the
peer has executed is older than what it has to do (`Inv`). As long as there has been no
election (`OneLeader`) a task that has read has read the current map, since no other
one runs, so that its write is what one atomic call would have written. The second half
is about data. Keys and entries are encoded as parallel lists in any order, and
decoded they are the same finite map (`MapBack`), and so are the sets of peers and of request ids in
the messages between peers (`SetBack`); a list that is cut into slices is the
list again when they are joined in the order of their numbers, and a set
of chunks that is as large as the last number says is all of them (`AllGathered`).

`HamokCalls_proofs` follows the calls, with any number of elections and losses. `Book`
says of each call what may be pending for it, in flight and in the log; and it bounds the
resubmissions: a call is submitted again only when its source has learnt of another
leader since, which the history variable `learnt` (the number of the election that a peer
last heard of) makes visible. `Data` says that tasks are decoded requests of calls. `Asked`: the
last submission of a call was sent to the leader that its source knew then, and one to be made
would go to another. `LoggedOnce` follows: the entry of a call is in the log once, or in one message,
or lost; and with `Traced`, that everything executed is in the committed part of the log,
`ExecutedOnce`. `Genuine` is about answers: whatever response, chunk or gathered chunk there
is was cut from the answer of one execution of that call by that peer, which
`ExecutedOnce` makes unique, so that chunks of two executions are never mixed.
`Handing` is about success: an answer on its way that says so, and a call that has been told so, has
something of its own among what leaders have taken in (`Truly`), and without an election
no message, no entry of the log and nothing taken in is a wrapped submission (`Plain`).

`Hamok_proofs`: the invariant is `Sound` and `Stands` of each peer. `Sound` holds also in
the middle of a handler, where a join may have been woken up and not yet gone on:
a join waits only while there is no leader, and only in the grid or when closed.
`Stands` (no leader without engine, no engine outside the grid) holds again when
the handler has ended. The second part adds that every registration is one of an
open storage with that id and that an open storage which shared its id with no
queue and no emitter is registered (`RegistryOK`); that the handlers of the grid
leave storages alone (`Kept`) is one lemma for each.
The third part is about whom a peer knows (`Knowing`, in the middle of a handler too) and about the
messages on the way (`NetOK`): what a peer adds comes out of a message, and what a message
names was known to its sender. With this no peer comes to know itself, and whom a leader has
found silent it has heard before, through every handler, one lemma each; `GridPeersOnly` follows.

The fourth part is the reign of the first leader. `FollowersKnow` is not inductive, since it speaks
of nothing on the way; the invariant is `FirstReign`: as long as no term is above 1, nobody else leads or
tells whom he knows, and each peer the leader knows is up to date (`UpToDate`) or the *last*
notification on its way brings it up to date (`Told`), which is all that counts because channels keep their order and
a later notification replaces what an earlier one said. That needs a grid that is
`Established`: formed with a leader, over a network that loses nothing, with at most one joiner
from outside. Every part is needed. Without a formed grid, or with two new peers that elect each
other, there can be a second leader of term 1 with other peers; and a loss can take the notification
itself, which is sent once per change. An election ends the reign for good (`ReignStep`: early
states come only after early ones).

The fifth part is about log resets. A notification is `Honest` when the index it makes a peer reset
to is committed. A log is `Long` when it has no hole and its first three entries are committed; its size
is then what its bounds say (`LongSize`). Whoever leads with a long log sends honest notifications only
(`AnnouncementsHonest`), and whatever a handler sends it sends as leader, one lemma for each handler
(`Frank` is what holds in the middle of one). A leader's log stays long when it writes an entry
(`WithNextLong`) and when it commits, nothing expiring (`AnsweredLong`: what a majority holds is never beyond its
end). So in an established grid whose entries do not expire the first leader's log is long
as long as it leads (`FirstLog`), since only another leader's notification could reset it, and
`FirstLeaderResetsToCommitted` follows. Of leaders that are elected nothing like it holds: one whose log was
reset announces one entry less than it should, and with expiry the first leader's log need not stay long either
(TLC finds an uncommitted reset in the setting `JoinsLog`, and none when its entries do not expire).

| theorem | what it says |
|---|---|
| `TypeCorrect`, `NeverAGapAboveCommit`, `DiscardsStayBelowCommit` | one log object under any calls |
| `EstimateIsRight` | its estimate of bytes is the size of what it holds |
| `MergingIsTheLoop` | a request merged in one step is the follower's loop |
| `RequestsAssemble`, `RequestsOfTheRun` | requests are put together from chunks in any order, completely or not at all |
| `RaftMessageArrives`, `MessagesOfTheRun` | Raft messages arrive as they were sent |
| `MergeEntriesOK` | what a follower does with a request keeps its log well-formed |
| `EngineTypes` | the types, including that of every message in flight |
| `LogsWithoutGap`, `EntriesOfThePast` | the state of every log |
| `OneViewOfLeadership` | state object and `leaderId` agree |
| `ResponsesOfThePast` | no response ever deposes a candidate or leader |
| `TruthfulMatchIndex` | a leader never overestimates what a peer holds |
| `NothingGoesBack` | terms and commit indices only grow |
| `CommitsAreHeldByMajority` | a commit needs a majority of logs that reach the index |
| `LogsAgreement`, `SafeStateMachines` | with one candidate logs and deliveries agree |
| `EveryCommitIsDelivered` | without expiry every index up to the commit index has been delivered |
| `Refinement` | a replicated collection is one atomic object to its callers |
| `FoundersInSync` | a replica that was there from the start has applied exactly what was committed |
| `ConnectionTypes` | the types of connections, buffers and snapshots |
| `ReplicasInSync` | a joined replica is what the log, without what it skipped, makes of an empty collection |
| `NothingBufferedIsLost` | a replica skips only what its way of joining let it miss |
| `CatchingUp` | a replica that could miss nothing holds all that was applied |
| `QueueInOrder` | a queue is first in, first out |
| `InLogOrder` | a peer executes the requests of a remote map in the order of the log |
| `AtomicUnderOneLeader` | under one leader the requests of a remote map are atomic |
| `StorageMessagesSurvive` | every message of a collection is the same after encoding and decoding, with the exceptions named |
| `GridMessagesSurvive` | every message between peers is the same after encoding and decoding, with the exceptions named |
| `MessagesOfTheRunSurvive` | both, for the messages of the run |
| `ChunksAssemble` | a response in chunks is put together as it was, in whatever order they arrive |
| `GridTypes` | the types of requests, responses, messages and tasks of the grid |
| `NothingPendsInVain` | what is pending belongs to a call that waits |
| `CallsExecuteOnce` | no peer executes a call twice |
| `AnswersAreGenuine` | a call that resolves has the answers of its own executions |
| `LeftStaysOut` | no join that is still in progress brings back a peer that has left |
| `OnlyLeadersHear` | no peer is removed for its silence under an earlier leader |
| `MessagesFindStorages` | messages reach open storages only, and those reach theirs |
| `FormedGridKnows` | in an established grid followers know whom the first leader knows |
| `SuccessIsTaken` | who was told of success has been taken in by a leader, wrapped or not |
| `HandedUnderOneLeader` | as long as there is no election, it has been taken in as itself |
| `FirstLeaderResetsToCommitted` | the first leader of an established grid, if its log begins long and nothing expires, makes peers reset to committed indices only |
| `GridPeersOnly` | the types of the grid: peers know and hear other peers only, messages are between peers and name peers |

`CommitsAreHeldByMajority` says that those logs *reach* the index, not that they hold
the same entry there: with several candidates they need not, as the refuted
`StateMachineSafety` shows. The assumptions are those of the modules, which TLC
evaluates in the runs: peers are finitely many, sizes and bounds are naturals, settings
name the peers there are. What is proved of `HamokConnection` assumes of Raft that
all peers see one log in order, which is what `state_machine_safety` shows may fail with
several candidates; the theorem is about what connections and collections add.

A recursive definition is proved about by the least number for which a claim
about it fails (`LeastNatural`, `UpFromZero`), because the library's induction theorems
cannot be instantiated; functions are written out where `@@` and `:>` of the module TLC, which
the prover does not know, would be shorter.

Only model-checked:
- `LogsAgree` and `StateMachineSafety` in clusters with several candidates do not hold (see the
  refuted claim), so there is nothing else to prove;
- `FollowersKnow` in the settings of `cluster` that are not `Established` (a grid yet to be formed, or one
  with losses). It holds there because at most two peers take part; with three or
  more a follower may know less than its leader for good, so there is nothing to prove for
  all constants;
- `CatchesUp`, `SubmittedIsHanded` and `ResetsToCommitted` without the conditions of `CatchingUp`,
  `HandedUnderOneLeader` and `FirstLeaderResetsToCommitted`, since they are refuted;
- liveness: `SubmittedIsDelivered`, `OnlyOneCanRemain`, `CallsSettle`, `LeaveEnds`.

## 5. Not modelled, and what is left

Not modelled:
- `clear` of the emitter (`HamokEmitter.ts:373`). It sends a notification to every peer, outside the log, and each
  receiver drops all subscriptions of the sender when it arrives (`HamokEmitter.ts:173`), the sender itself
  none: replicas differ from then on, until the sender unsubscribes or leaves. What is said of
  emitters, `InSync` and the refinement included, holds as long as nobody calls it;
- `publish` and `notify` of the emitter, reads and iterators of the collections, `getAll` and
  the notifications of the remote map, which change no replicated state;
- with `publish`, requests that are sent to given peers without the log: it is the only
  caller that names peers (`HamokEmitter.ts:396-399`), and updates are not among what an emitter
  submits (`Hamok.ts:766-771`). Its request waits for the subscribers that it names, on
  their own time; `HamokGrid` has requests that go through the log only;
- `WaitingQueue`, which nothing uses; logging; the generated protobuf code and the
  schema, which have no behaviour of their own; examples and documentation.

What would come next: the log reset of an endpoint notification inside `RaftEngine`, so that its
theorems can say which of them survive it (`log_reset` suggests that agreement does not;
`FirstLeaderResetsToCommitted` is what one would start from); and the emitter's `clear` and
`publish`, with a property that says how far replicas may differ after them.
