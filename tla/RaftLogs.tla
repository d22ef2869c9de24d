------------------------------ MODULE RaftLogs ------------------------------
(***************************************************************************)
(* The in-memory Raft log of Hamok (src/raft/MemoryStoredRaftLogs.ts) as   *)
(* operators on a log record.  A record holds the four private fields that *)
(* matter (_firstIndex, _nextIndex, _commitIndex, _entries) and the byte   *)
(* estimate.  Entries live in a JavaScript Map keyed by index, so the      *)
(* field entries is a function whose domain may have holes.                *)
(*                                                                         *)
(* Every operator returns the log after the call; the index range whose    *)
(* 'committed' events a call emits is an operator of its own.              *)
(***************************************************************************)
EXTENDS Integers, FiniteSets, Sequences, FiniteSetsExt, SequencesExt

CONSTANTS Values,         \* the messages that can be stored in the log
          Size,           \* Size[v]: bytes of the keys and values of message v
          ExpirationTime  \* config.expirationTimeInMs, in ticks; 0: never expire

ASSUME SizeAssumption == Size \in [Values -> Nat]
ASSUME ExpirationAssumption == ExpirationTime \in Nat

LogEntry == [term : Nat, entry : Values, timestamp : Nat]

\* l is a log record whose entries are a function.  What the bytes must be is
\* said by BytesMatchEntries in MemoryStoredRaftLogs.
IsLog(l) ==
    /\ l \in [firstIndex : Nat, nextIndex : Nat, commitIndex : Nat \cup {-1},
              entries : {l.entries}, bytes : {l.bytes}]
    /\ l.entries = [i \in DOMAIN l.entries |-> l.entries[i]]
    /\ DOMAIN l.entries \subseteq Nat
    /\ \A i \in DOMAIN l.entries : l.entries[i] \in LogEntry

\* The part of the log above the commit index has no hole, no entry lies outside
\* the log, and the first index is at or below the commit index (0 in a new log).
GapFree(l) ==
    /\ l.commitIndex < l.nextIndex
    /\ l.commitIndex + 1 .. l.nextIndex - 1 \subseteq DOMAIN l.entries
    /\ DOMAIN l.entries \subseteq 0 .. l.nextIndex - 1
    /\ l.firstIndex <= l.commitIndex \/ l.firstIndex = 0

\* No entry of l was stamped with a term above t.
TermsUpTo(l, t) == \A i \in DOMAIN l.entries : l.entries[i].term <= t

EmptyLog == [firstIndex |-> 0, nextIndex |-> 0, commitIndex |-> -1,
             entries |-> <<>>, bytes |-> 0]

MakeEntry(term, v, now) == [term |-> term, entry |-> v, timestamp |-> now]

\* The sum of f[0], ..., f[n - 1]
SumTo(f, n) ==
    LET upTo[i \in 0 .. n] == IF i = 0 THEN 0 ELSE upTo[i - 1] + f[i - 1]
    IN  upTo[n]

\* The bytes of the messages that the log has at the indices S.
BytesAt(l, S) ==
    SumTo([i \in Nat |-> IF i \in S \cap DOMAIN l.entries THEN Size[l.entries[i].entry] ELSE 0],
          l.nextIndex)

-----------------------------------------------------------------------------
(* Writing entries.                                                        *)

\* this._entries.set(index, logEntry) and the byte estimate that goes with it
Store(l, index, logEntry) ==
    [l EXCEPT !.entries = [i \in DOMAIN l.entries \cup {index} |->
                              IF i = index THEN logEntry ELSE l.entries[i]],
              !.bytes = @ + Size[logEntry.entry]]

Submit(l, term, v, now) ==
    [Store(l, l.nextIndex, MakeEntry(term, v, now)) EXCEPT !.nextIndex = @ + 1]

\* Mutant: adds wherever it is told to, without comparing.
AddUnchecked(l, expectedNextIndex, term, v, now) ==
    [Store(l, expectedNextIndex, MakeEntry(term, v, now))
        EXCEPT !.nextIndex = expectedNextIndex + 1]

CompareAndAdd(l, expectedNextIndex, term, v, now) ==
    IF l.nextIndex # expectedNextIndex THEN l ELSE Submit(l, term, v, now)

\* Mutant: forgets the bytes of the entry it replaces.
OverrideLeakingBytes(l, index, expectedTerm, v, now) ==
    IF l.nextIndex <= index THEN l
    ELSE IF index \in DOMAIN l.entries /\ l.entries[index].term = expectedTerm THEN l
    ELSE Store(l, index, MakeEntry(expectedTerm, v, now))

CompareAndOverride(l, index, expectedTerm, v, now) ==
    LET stored == Store(l, index, MakeEntry(expectedTerm, v, now))
    IN  IF l.nextIndex <= index THEN l
        ELSE IF index \notin DOMAIN l.entries THEN stored
        ELSE IF l.entries[index].term = expectedTerm THEN l
        ELSE [stored EXCEPT !.bytes = @ - Size[l.entries[index].entry]]

\* Mutant: an index too low.
ResetTooLow(newCommitIndex) ==
    [firstIndex |-> newCommitIndex - 1, nextIndex |-> newCommitIndex,
     commitIndex |-> newCommitIndex - 1, entries |-> <<>>, bytes |-> 0]

Reset(newCommitIndex) ==
    [firstIndex |-> newCommitIndex, nextIndex |-> newCommitIndex + 1,
     commitIndex |-> newCommitIndex, entries |-> <<>>, bytes |-> 0]

-----------------------------------------------------------------------------
(* Discarding entries.                                                     *)

\* Delete the entries at the indices S and make newFirstIndex the first index.
Discard(l, S, newFirstIndex) ==
    [l EXCEPT !.entries = [i \in DOMAIN l.entries \ S |-> l.entries[i]],
              !.bytes = @ - BytesAt(l, S),
              !.firstIndex = newFirstIndex]

\* The indices _expire looks at: it starts at _firstIndex, steps over holes,
\* and stops at the first entry that is not older than the threshold.
Scanned(l, now) ==
    {i \in l.firstIndex .. l.commitIndex - 1 :
        \A j \in l.firstIndex .. i \cap DOMAIN l.entries :
            l.entries[j].timestamp < now - ExpirationTime}

\* _expire: the newest expired entry stays (it becomes the first), and a hole
\* moves _firstIndex past it even when nothing is deleted.
Expire(l, now) ==
    LET holes == Scanned(l, now) \ DOMAIN l.entries
        stale == Scanned(l, now) \cap DOMAIN l.entries
        afterHoles == IF holes = {} THEN l.firstIndex ELSE Max(holes) + 1
    IN  IF ExpirationTime < 1 THEN l
        ELSE IF stale = {} THEN [l EXCEPT !.firstIndex = afterHoles]
        ELSE IF l.nextIndex <= Max(stale) \/ Max(stale) < afterHoles
             THEN [l EXCEPT !.firstIndex = afterHoles]
             ELSE Discard(l, afterHoles .. Max(stale) - 1, Max(stale))

\* Mutant: deletes the entry at the commit index too.
RemoveUntilCommit(l, newFirstIndex) ==
    IF newFirstIndex <= l.firstIndex \/ l.commitIndex <= newFirstIndex THEN l
    ELSE Discard(l, l.firstIndex .. l.commitIndex, newFirstIndex)

\* removeUntil deletes everything below the commit index, whatever the argument
RemoveUntil(l, newFirstIndex) ==
    IF newFirstIndex <= l.firstIndex \/ l.commitIndex <= newFirstIndex THEN l
    ELSE Discard(l, l.firstIndex .. l.commitIndex - 1, newFirstIndex)

-----------------------------------------------------------------------------
(* Committing.                                                             *)

\* Where the loop of commitUntil stops: at newCommitIndex, at the end of the
\* log, or at the first index that has no entry.
CommitEnd(l, newCommitIndex) ==
    Min({c \in l.commitIndex .. newCommitIndex :
            \/ c = newCommitIndex
            \/ l.nextIndex <= c + 1
            \/ c + 1 \notin DOMAIN l.entries})

\* The indices whose entries commitUntil returns and emits as committed
Committed(l, newCommitIndex) ==
    IF newCommitIndex <= l.commitIndex THEN {}
    ELSE l.commitIndex + 1 .. CommitEnd(l, newCommitIndex)

\* Mutant: does not ask whether the new commit index is ahead of the old one.
CommitUntilEitherWay(l, newCommitIndex, now) ==
    Expire([l EXCEPT !.commitIndex = Min({newCommitIndex, l.nextIndex - 1})], now)

CommitUntil(l, newCommitIndex, now) ==
    IF Committed(l, newCommitIndex) = {} THEN l
    ELSE Expire([l EXCEPT !.commitIndex = CommitEnd(l, newCommitIndex)], now)

-----------------------------------------------------------------------------
(* Reading entries.                                                        *)

\* The indices collectEntries(startIndex) visits that have an entry
Collected(l, startIndex) == startIndex .. l.nextIndex - 1 \cap DOMAIN l.entries

\* collectEntries(startIndex): the messages present, holes silently skipped
CollectEntries(l, startIndex) ==
    LET indices == Collected(l, startIndex)
        Nth(k) == CHOOSE i \in indices : Cardinality({j \in indices : j <= i}) = k
    IN  [k \in 1 .. Cardinality(indices) |-> l.entries[Nth(k)].entry]

-----------------------------------------------------------------------------
(* What a follower does to its log with the n messages of a request whose  *)
(* leader stands at leaderNextIndex (RaftFollowerState).  The request says *)
(* nothing of the indices of its messages: the follower counts them back   *)
(* from leaderNextIndex.  When they start beyond its own log it resets the *)
(* log; then it overrides or adds entry by entry.  MergeEntries is the     *)
(* outcome of that loop, written as one function.                          *)

\* Mutant: the log ends where the request ends, even one that was overtaken.
MergedEndingThere(l, base, messages, term, now) ==
    LET next == base + Len(messages)
    IN  [l EXCEPT
            !.entries = [i \in DOMAIN l.entries \cup (base .. next - 1) |->
                            IF i \in base .. next - 1
                            THEN MakeEntry(term, messages[i - base + 1], now)
                            ELSE l.entries[i]],
            !.nextIndex = next]

\* The log after the loop, when entries[1] is for index base of the log l
Merged(l, base, messages, term, now) ==
    LET next == base + Len(messages)
        written == {i \in base .. next - 1 :
                        i \in DOMAIN l.entries => l.entries[i].term # term}
        merged == [l EXCEPT
            !.entries = [i \in DOMAIN l.entries \cup written |->
                            IF i \in written THEN MakeEntry(term, messages[i - base + 1], now)
                                             ELSE l.entries[i]],
            !.nextIndex = Max({@, next})]
    IN  [merged EXCEPT !.bytes = l.bytes + BytesAt(merged, written) - BytesAt(l, written)]

\* Mutants: append at the own end; reset when nothing is missing; never reset.
MergeAtOwnEnd(log, leaderNextIndex, messages, term, now) ==
    Merged(log, log.nextIndex, messages, term, now)
MergeResettingEarly(log, leaderNextIndex, messages, term, now) ==
    LET base == leaderNextIndex - Len(messages)
    IN  Merged(IF log.nextIndex <= base THEN Reset(base) ELSE log, base, messages, term, now)
MergeNeverResetting(log, leaderNextIndex, messages, term, now) ==
    Merged(log, leaderNextIndex - Len(messages), messages, term, now)

MergeEntries(log, leaderNextIndex, messages, term, now) ==
    LET base == leaderNextIndex - Len(messages)
    IN  Merged(IF log.nextIndex < base THEN Reset(base) ELSE log, base, messages, term, now)

\* One pass of that loop
MergeOne(log, localNextIndex, index, v, term, now) ==
    IF index < localNextIndex THEN CompareAndOverride(log, index, term, v, now)
                              ELSE CompareAndAdd(log, index, term, v, now)

\* The loop itself: the log after its n-th pass.
MergeByCalls(log, leaderNextIndex, messages, term, now) ==
    LET base == leaderNextIndex - Len(messages)
        start == IF log.nextIndex < base THEN Reset(base) ELSE log
        after[n \in 0 .. Len(messages)] ==
            IF n = 0 THEN start
            ELSE MergeOne(after[n - 1], start.nextIndex, base + n - 1, messages[n], term, now)
    IN  after

\* MergeEntries gives the log that the loop leaves behind, and no call of
\* compareAndAdd in the loop is refused.
MergesLikeTheLoop(log, leaderNextIndex, messages, term, now) ==
    LET base == leaderNextIndex - Len(messages)
        after == MergeByCalls(log, leaderNextIndex, messages, term, now)
    IN  /\ after[Len(messages)] = MergeEntries(log, leaderNextIndex, messages, term, now)
        /\ \A n \in 1 .. Len(messages) : \/ base + n - 1 < after[0].nextIndex
                                         \/ base + n - 1 = after[n - 1].nextIndex
=============================================================================
