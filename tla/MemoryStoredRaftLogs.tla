------------------------ MODULE MemoryStoredRaftLogs ------------------------
(***************************************************************************)
(* One MemoryStoredRaftLogs object under any sequence of calls of its      *)
(* public methods, in any order and with any arguments, while time passes. *)
(* Followers, candidates and leaders share one such object per peer, and   *)
(* Hamok itself resets it, so no caller knows what the others did to it.   *)
(***************************************************************************)
EXTENDS RaftLogs

CONSTANTS MaxTerm,   \* bound: terms passed to the log
          MaxIndex,  \* bound: indices passed to the log
          MaxClock   \* bound: ticks of the clock

ASSUME BoundsAssumption == /\ MaxTerm \in Nat
                           /\ MaxIndex \in Nat
                           /\ MaxClock \in Nat

VARIABLES log,   \* the log record
          now    \* Date.now()

vars == <<log, now>>

Terms == 1 .. MaxTerm
Indices == 0 .. MaxIndex

TypeOK == IsLog(log) /\ now \in Nat

Init == log = EmptyLog /\ now = 0

submit(term, v) ==
    /\ log.nextIndex <= MaxIndex
    /\ log' = Submit(log, term, v, now)
    /\ UNCHANGED now

compareAndOverride(index, term, v) ==
    /\ log' = CompareAndOverride(log, index, term, v, now)
    /\ UNCHANGED now

compareAndAdd(index, term, v) ==
    /\ log' = CompareAndAdd(log, index, term, v, now)
    /\ UNCHANGED now

commitUntil(index) ==
    /\ log' = CommitUntil(log, index, now)
    /\ UNCHANGED now

removeUntil(index) ==
    /\ log' = RemoveUntil(log, index)
    /\ UNCHANGED now

reset(index) ==
    /\ log' = Reset(index)
    /\ UNCHANGED now

Tick ==
    /\ now < MaxClock
    /\ now' = now + 1
    /\ UNCHANGED log

Next ==
    \/ \E term \in Terms, v \in Values : submit(term, v)
    \/ \E index \in Indices, term \in Terms, v \in Values :
            \/ compareAndOverride(index, term, v)
            \/ compareAndAdd(index, term, v)
    \/ \E index \in Indices : commitUntil(index) \/ removeUntil(index) \/ reset(index)
    \/ Tick

Spec == Init /\ [][Next]_vars

-----------------------------------------------------------------------------
(* commitUntil gives up with the warning "it supposed not to be null" when *)
(* the next entry to commit is missing.  Whatever expiry, removal, reset   *)
(* and overriding did before, every index from the commit index up to the  *)
(* end of the log has its entry, so a commit never stops short: no entry   *)
(* lies outside the log, and the first index never passes the head of the  *)
(* committed part, which only expiry and removal move.                     *)
NoGapAboveCommit == GapFree(log)

(* The byte estimate behind bytesInMemory and the high water mark is kept  *)
(* by increments in six methods; it always equals the bytes of the entries *)
(* that are in the log, so nothing leaks and nothing is counted twice.     *)
BytesMatchEntries == log.bytes = BytesAt(log, DOMAIN log.entries)

(* MergeEntries, which the engine's model uses for a whole request, gives  *)
(* the log that the follower's loop leaves behind, call by call, and none  *)
(* of the loop's calls of compareAndAdd is refused, on every log reachable *)
(* here and for every request of at most two messages.                     *)
MergeIsLoop ==
    \A leaderNextIndex \in Indices, term \in Terms :
        \A messages \in [1 .. 1 -> Values] \cup [1 .. 2 -> Values] :
            Len(messages) <= leaderNextIndex =>
                MergesLikeTheLoop(log, leaderNextIndex, messages, term, now)

(* Discarding (expiry inside commitUntil, removeUntil) reaches committed   *)
(* entries only, and never the one at the commit index: short of a reset,  *)
(* an entry at or above the new commit index is still there afterwards.    *)
DiscardsOnlyBelowCommit ==
    [][\/ \E index \in Indices : log' = Reset(index)
       \/ \A i \in DOMAIN log.entries :
            i >= log'.commitIndex => i \in DOMAIN log'.entries]_vars
=============================================================================
