-------------------------- MODULE AtomicCollection --------------------------
(***************************************************************************)
(* What a replicated collection promises its callers: one object, and      *)
(* every request takes effect on it in one step, at most once, between its *)
(* call and its answer; a call that fails may still take effect, even      *)
(* later.  HamokConnection implements this on replicas.                    *)
(***************************************************************************)
EXTENDS Naturals

CONSTANTS MaxCalls,
          Empty(_),           \* the collection of a kind at first
          Apply(_, _, _, _),  \* what a request does to it, by kind, collection and caller
          NoRequest, NoEntries, Nil

VARIABLES
    kind,    \* "map", "record", "queue" or "emitter"
    object,  \* the one collection
    calls,   \* [status, source, request, result] of every call
    done     \* {} until the request of a call takes effect, then {its answer}

vars == <<kind, object, calls, done>>

Calls == 1 .. MaxCalls

Init ==
    /\ object = Empty(kind)
    /\ \A c \in Calls : calls[c].status = "idle"
    /\ done = [c \in Calls |-> {}]

\* Calls start; a pop or clear of a queue that looks empty returns at once.
Invoke ==
    /\ \A c \in Calls : calls'[c] # calls[c] =>
            /\ calls[c].status = "idle"
            /\ \/ calls'[c].status = "pending" /\ calls'[c].result = Nil
               \/ /\ kind = "queue"
                  /\ calls'[c].status = "returned" /\ calls'[c].request = NoRequest
    /\ UNCHANGED <<kind, object, done>>

Perform(c) ==
    LET r == calls[c].request
        outcome == Apply(kind, object, r, calls[c].source)
    IN  /\ calls[c].status \in {"pending", "failed"}
        /\ done[c] = {}
        /\ object' = outcome.state
        /\ done' = [done EXCEPT ![c] = {outcome.answer}]
        /\ UNCHANGED <<kind, calls>>

\* Only the answer of the request itself is ever returned.
Return(c) ==
    /\ calls[c].status = "pending"
    /\ \E answer \in done[c] \ {Nil} :
            calls' = [calls EXCEPT ![c].status = "returned", ![c].result = answer]
    /\ UNCHANGED <<kind, object, done>>

\* A pop that removed nothing asks again, for another position.
Retry(c) ==
    /\ kind = "queue"
    /\ calls[c].status = "pending"
    /\ done[c] = {NoEntries}
    /\ \E r \in {calls'[c].request} :
            /\ r.type = "RemoveEntries"
            /\ calls' = [calls EXCEPT ![c].request = r]
    /\ done' = [done EXCEPT ![c] = {}]
    /\ UNCHANGED <<kind, object>>

\* Calls fail: a timeout, or the collection of their caller closes.
Fail ==
    /\ \A c \in Calls : calls'[c] # calls[c] =>
            /\ calls[c].status = "pending"
            /\ calls'[c] = [calls[c] EXCEPT !.status = "failed"]
    /\ UNCHANGED <<kind, object, done>>

Next == \/ Invoke \/ Fail
        \/ \E c \in Calls : Perform(c) \/ Return(c) \/ Retry(c)

Spec == Init /\ [][Next]_vars
=============================================================================
