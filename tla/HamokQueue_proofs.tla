------------------------- MODULE HamokQueue_proofs -------------------------
(***************************************************************************)
(* A replicated queue is first in, first out over all its callers, for any *)
(* number of peers and calls and for any values.                           *)
(***************************************************************************)
EXTENDS HamokConnection_proofs, SequenceTheorems, FiniteSetTheorems

IsSequence(s) == s \in Seq({s[i] : i \in 1 .. Len(s)})

\* The values are those from head to before tail.
IsQueue(q) ==
    /\ q = [items |-> q.items, head |-> q.head, tail |-> q.tail]
    /\ q.head \in Nat /\ q.tail \in Nat /\ q.head <= q.tail
    /\ q.items = [k \in q.head .. q.tail - 1 |-> q.items[k]]

\* What may come to a queue: a pop may ask for whatever key.
QueueRequest(r) ==
    \/ r.type = "ClearEntries"
    \/ r.type = "InsertEntries" /\ IsSequence(r.entries)
    \/ r.type = "RemoveEntries"

Submitted(c) == calls[c].status \in {"pending", "failed"}

QueueInv ==
    setting.kind = "queue" =>
        /\ \A c \in Calls : Submitted(c) => QueueRequest(calls[c].request)
        /\ \A i \in 1 .. Len(commits) :
            QueueRequest(commits[i].request) /\ IsQueue(commits[i].after)

-----------------------------------------------------------------------------
(* Sequences, whatever is in them.                                         *)

(* A sequence is one of its own elements.                                  *)
LEMMA OwnElements ==
    ASSUME NEW S, NEW s \in Seq(S) PROVE IsSequence(s)
<1>1. \A i \in 1 .. Len(s) : s[i] \in {s[k] : k \in 1 .. Len(s)}
  OBVIOUS
<1> DEFINE T == {s[k] : k \in 1 .. Len(s)}
<1>2. \A i \in 1 .. Len(s) : s[i] \in T
  BY <1>1
<1> HIDE DEF T
<1>3. s \in Seq(T)
  BY <1>2
<1> QED
  BY <1>3 DEF IsSequence, T

LEMMA TwoSequences ==
    ASSUME NEW s, IsSequence(s), NEW t, IsSequence(t)
    PROVE  \E U : s \in Seq(U) /\ t \in Seq(U)
<1> DEFINE S == {s[i] : i \in 1 .. Len(s)}
           T == {t[i] : i \in 1 .. Len(t)}
<1>1. s \in Seq(S) /\ t \in Seq(T)
  BY DEF IsSequence
<1> HIDE DEF S, T
<1>2. PICK U : U = S \cup T
  OBVIOUS
<1>3. s \in Seq(U) /\ t \in Seq(U)
  BY <1>1, <1>2
<1> QED
  BY <1>3

LEMMA SameSequence ==
    ASSUME NEW s, IsSequence(s), NEW t, IsSequence(t), Len(s) = Len(t),
           \A j \in 1 .. Len(s) : s[j] = t[j]
    PROVE  s = t
<1>1. PICK U : s \in Seq(U) /\ t \in Seq(U)
  BY TwoSequences
<1> QED
  BY <1>1, SeqEqual

LEMMA TwoInARow ==
    ASSUME NEW s, IsSequence(s), NEW t, IsSequence(t)
    PROVE  /\ IsSequence(s \o t) /\ Len(s \o t) = Len(s) + Len(t)
           /\ \A j \in 1 .. Len(s) + Len(t) :
                (s \o t)[j] = IF j <= Len(s) THEN s[j] ELSE t[j - Len(s)]
<1>1. PICK U : s \in Seq(U) /\ t \in Seq(U)
  BY TwoSequences
<1>2. s \o t \in Seq(U)
  BY <1>1, ConcatProperties
<1> QED
  BY <1>1, <1>2, ConcatProperties, OwnElements

LEMMA ATail ==
    ASSUME NEW s, IsSequence(s), s # <<>>
    PROVE  /\ IsSequence(Tail(s)) /\ Len(Tail(s)) = Len(s) - 1 /\ Head(s) = s[1]
           /\ \A j \in 1 .. Len(s) - 1 : Tail(s)[j] = s[j + 1]
<1>1. PICK U : s \in Seq(U)
  BY DEF IsSequence
<1>2. /\ Tail(s) \in Seq(U) /\ Len(Tail(s)) = Len(s) - 1 /\ Head(s) = s[1]
      /\ \A j \in 1 .. Len(s) - 1 : Tail(s)[j] = s[j + 1]
  <2>1. Tail(s) \in Seq(U) /\ Len(Tail(s)) = Len(s) - 1
    BY <1>1, HeadTailProperties
  <2>2. \A j \in 1 .. Len(Tail(s)) : Tail(s)[j] = s[j + 1]
    BY <1>1, HeadTailProperties
  <2> QED
    BY <1>1, <2>1, <2>2
<1>3. IsSequence(Tail(s))
  BY <1>2, OwnElements
<1> QED
  BY <1>2, <1>3

-----------------------------------------------------------------------------
(* The queue.                                                              *)

LEMMA ContentsOK ==
    ASSUME NEW q, IsQueue(q)
    PROVE  /\ IsSequence(Contents(q))
           /\ Len(Contents(q)) = q.tail - q.head
           /\ \A j \in 1 .. q.tail - q.head : Contents(q)[j] = q.items[q.head + j - 1]
<1>1. PICK n : n = q.tail - q.head /\ n \in Nat
  BY DEF IsQueue
<1>2. PICK c, S : c = Contents(q) /\ S = {c[j] : j \in 1 .. n}
  OBVIOUS
<1>3. c = [j \in 1 .. n |-> q.items[q.head + j - 1]]
  BY <1>1, <1>2 DEF Contents
<1>4. c \in Seq(S)
  BY <1>1, <1>2, <1>3
<1>5. Len(c) = n
  BY <1>1, <1>3, <1>4
<1> QED
  BY <1>1, <1>2, <1>3, <1>4, <1>5, OwnElements

LEMMA ClearOK ==
    ASSUME NEW q, IsQueue(q), NEW o, o = Queue!ClearEntries(q)
    PROVE  IsQueue(o.state) /\ Contents(o.state) = <<>> /\ o.state.head = q.tail
<1>1. PICK f : f = Queue!NoEntries
  OBVIOUS
<1>2. DOMAIN f = {}
  BY <1>1 DEF Queue!NoEntries
<1>3. o.state = [items |-> f, head |-> q.tail, tail |-> q.tail]
  BY <1>1 DEF Queue!ClearEntries, Queue!Outcome
<1>4. f = [k \in q.tail .. q.tail - 1 |-> f[k]]
  BY <1>1 DEF Queue!NoEntries, IsQueue
<1>5. IsQueue(o.state)
  BY <1>3, <1>4 DEF IsQueue
<1>6. Contents(o.state) = <<>>
  <2>1. PICK u : u = o.state
    OBVIOUS
  <2>2. IsQueue(u) /\ u.tail - u.head = 0
    BY <1>3, <1>5, <2>1 DEF IsQueue
  <2>3. IsSequence(Contents(u)) /\ Len(Contents(u)) = 0
    BY <2>2, ContentsOK
  <2>4. PICK U : Contents(u) \in Seq(U)
    BY <2>3 DEF IsSequence
  <2>5. Contents(u) = <<>>
    BY <2>3, <2>4
  <2> QED
    BY <2>1, <2>5
<1> QED
  BY <1>3, <1>5, <1>6

LEMMA InsertOK ==
    ASSUME NEW q, IsQueue(q), NEW r, IsSequence(r.entries), NEW o, o = Queue!InsertEntries(q, r)
    PROVE  /\ IsQueue(o.state)
           /\ Contents(o.state) = Contents(q) \o r.entries
           /\ o.state.head = q.head
<1>1. PICK s, n, h, t :
        s = r.entries /\ n = Len(s) /\ h = q.head /\ t = q.tail
  OBVIOUS
<1>2. n \in Nat /\ h \in Nat /\ t \in Nat /\ h <= t /\ s \in Seq({s[i] : i \in 1 .. Len(s)})
  BY <1>1 DEF IsQueue, IsSequence
<1>3. PICK items :
        items = [i \in DOMAIN q.items \cup (t .. t + n - 1) |->
                    IF i \in t .. t + n - 1 THEN s[i - t + 1] ELSE q.items[i]]
  OBVIOUS
<1>4. o.state = [q EXCEPT !.items = items, !.tail = t + n]
  <2>1. o.state = [q EXCEPT !.items = items, !.tail = @ + n]
    BY <1>1, <1>3 DEF Queue!InsertEntries, Queue!Outcome
  <2> QED
    BY <1>1, <2>1 DEF IsQueue
<1>5. o.state = [items |-> items, head |-> h, tail |-> t + n]
  BY <1>1, <1>4 DEF IsQueue
<1>6. DOMAIN q.items = h .. t - 1
  BY <1>1 DEF IsQueue
<1>7. /\ items = [k \in h .. t + n - 1 |-> items[k]]
      /\ \A k \in h .. t - 1 : items[k] = q.items[k]
      /\ \A k \in t .. t + n - 1 : items[k] = s[k - t + 1]
  <2>1. (h .. t - 1) \cup (t .. t + n - 1) = h .. t + n - 1
    BY <1>2
  <2>2. items = [i \in h .. t + n - 1 |->
                    IF i \in t .. t + n - 1 THEN s[i - t + 1] ELSE q.items[i]]
    BY <1>3, <1>6, <2>1
  <2>3. /\ \A k \in h .. t - 1 : k \in h .. t + n - 1 /\ k \notin t .. t + n - 1
        /\ \A k \in t .. t + n - 1 : k \in h .. t + n - 1
    BY <1>2
  <2> QED
    BY <2>2, <2>3
<1>8. IsQueue(o.state)
  <2>1. h <= t + n /\ t + n \in Nat
    BY <1>2
  <2> QED
    BY <1>2, <1>5, <1>7, <2>1 DEF IsQueue
<1>9. PICK c, d, u : u = o.state /\ c = Contents(q) /\ d = Contents(u)
  OBVIOUS
<1>10. /\ IsSequence(c) /\ Len(c) = t - h
       /\ \A j \in 1 .. t - h : c[j] = q.items[h + j - 1]
  BY <1>1, <1>9, ContentsOK
<1>11. /\ IsSequence(d) /\ Len(d) = t + n - h
       /\ \A j \in 1 .. t + n - h : d[j] = items[h + j - 1]
  <2>1. IsQueue(u) /\ u.items = items /\ u.head = h /\ u.tail = t + n
    BY <1>5, <1>8, <1>9
  <2>2. /\ IsSequence(d) /\ Len(d) = u.tail - u.head
        /\ \A j \in 1 .. u.tail - u.head : d[j] = u.items[u.head + j - 1]
    BY <1>9, <2>1, ContentsOK
  <2>3. u.tail - u.head = t + n - h /\ u.items = items /\ u.head = h
    BY <1>2, <2>1
  <2> QED
    BY <2>2, <2>3
<1>12. /\ IsSequence(c \o s) /\ Len(c \o s) = (t - h) + n
       /\ \A j \in 1 .. (t - h) + n :
            (c \o s)[j] = IF j <= t - h THEN c[j] ELSE s[j - (t - h)]
  BY <1>1, <1>10, TwoInARow
<1>13. t + n - h = (t - h) + n
  BY <1>2
<1>14. ASSUME NEW j \in 1 .. (t - h) + n PROVE d[j] = (c \o s)[j]
  <2>1. CASE j <= t - h
    <3>1. j \in 1 .. t - h /\ h + j - 1 \in h .. t - 1
      BY <1>2, <2>1
    <3> QED
      BY <1>7, <1>10, <1>11, <1>12, <1>13, <2>1, <3>1
  <2>2. CASE ~(j <= t - h)
    <3>1. h + j - 1 \in t .. t + n - 1 /\ (h + j - 1) - t + 1 = j - (t - h)
      BY <1>2, <2>2
    <3> QED
      BY <1>7, <1>11, <1>12, <1>13, <2>2, <3>1
  <2> QED
    BY <2>1, <2>2
<1>15. d = c \o s
  BY <1>11, <1>12, <1>13, <1>14, SameSequence
<1> QED
  BY <1>1, <1>5, <1>8, <1>9, <1>15

(* A pop                                                                   *)
TakesTheOldest(q, r, o) ==
    /\ o.answer = NoEntries => o.state = q /\ (Contents(q) # <<>> => r.keys # {q.head})
    /\ o.answer # NoEntries =>
        /\ DOMAIN o.answer = r.keys
        /\ o.answer = [i \in {q.head} |-> Head(Contents(q))]
        /\ Contents(o.state) = Tail(Contents(q))
        /\ o.state.head = q.head + 1

LEMMA RemoveOK ==
    ASSUME NEW q, IsQueue(q), NEW r, NEW o, o = Queue!RemoveEntries(q, r)
    PROVE  IsQueue(o.state) /\ TakesTheOldest(q, r, o)
<1>1. PICK h, t, c : h = q.head /\ t = q.tail /\ c = Contents(q)
  OBVIOUS
<1>2. /\ h \in Nat /\ t \in Nat /\ h <= t
      /\ q.items = [k \in h .. t - 1 |-> q.items[k]] /\ DOMAIN q.items = h .. t - 1
  BY <1>1 DEF IsQueue
<1>3. /\ IsSequence(c) /\ Len(c) = t - h
      /\ \A j \in 1 .. t - h : c[j] = q.items[h + j - 1]
  BY <1>1, ContentsOK
<1>4. Queue!CanPop(q) <=> h < t
  BY <1>1, <1>2 DEF Queue!CanPop, Queue!IsEmpty
<1>5. DOMAIN NoEntries = {} /\ Queue!NoEntries = NoEntries
  BY DEF NoEntries, Queue!NoEntries
<1>6. CASE r.keys = {h} /\ h < t
  <2>1. o.state = Queue!Popped(q) /\ o.answer = Queue!Only(q.items, {h})
    BY <1>1, <1>4, <1>6 DEF Queue!RemoveEntries, Queue!Outcome
  <2>2. PICK items : items = Queue!Without(q.items, {h})
    OBVIOUS
  <2>3. items = [k \in h + 1 .. t - 1 |-> q.items[k]]
    <3>1. (h .. t - 1) \ {h} = h + 1 .. t - 1
      BY <1>2
    <3> QED
      BY <1>2, <2>2, <3>1 DEF Queue!Without
  <2>4. o.state = [items |-> items, head |-> h + 1, tail |-> t]
    BY <1>1, <2>1, <2>2 DEF Queue!Popped, IsQueue
  <2>5. IsQueue(o.state)
    <3>1. h + 1 \in Nat /\ h + 1 <= t
      BY <1>2, <1>6
    <3>2. items = [k \in h + 1 .. t - 1 |-> items[k]]
      BY <2>3
    <3> QED
      BY <1>2, <2>4, <3>1, <3>2 DEF IsQueue
  <2>6. o.answer = [k \in {h} |-> q.items[h]]
    <3>1. (h .. t - 1) \cap {h} = {h}
      BY <1>2, <1>6
    <3> QED
      BY <1>2, <2>1, <3>1 DEF Queue!Only
  <2>7. o.answer # NoEntries
    BY <1>5, <2>6
  <2>8. /\ Head(c) = q.items[h] /\ IsSequence(Tail(c)) /\ Len(Tail(c)) = (t - h) - 1
        /\ \A j \in 1 .. (t - h) - 1 : Tail(c)[j] = c[j + 1]
    <3>1. 1 \in 1 .. t - h /\ h + 1 - 1 = h
      BY <1>2, <1>6
    <3>2. c[1] = q.items[h] /\ c # <<>>
      BY <1>3, <3>1
    <3> QED
      BY <1>3, <3>2, ATail
  <2>9. o.answer = [i \in {h} |-> Head(c)]
    BY <2>6, <2>8
  <2>10. Contents(o.state) = Tail(c)
    <3>1. PICK d, u : u = o.state /\ d = Contents(u)
      OBVIOUS
    <3>2. /\ IsSequence(d) /\ Len(d) = t - (h + 1)
          /\ \A j \in 1 .. t - (h + 1) : d[j] = items[(h + 1) + j - 1]
      <4>1. IsQueue(u) /\ u.items = items /\ u.head = h + 1 /\ u.tail = t
        BY <2>4, <2>5, <3>1
      <4> QED
        BY <3>1, <4>1, ContentsOK
    <3>3. t - (h + 1) = (t - h) - 1
      BY <1>2
    <3>4. ASSUME NEW j \in 1 .. (t - h) - 1 PROVE d[j] = Tail(c)[j]
      <4>1. /\ (h + 1) + j - 1 \in h + 1 .. t - 1 /\ j + 1 \in 1 .. t - h
            /\ h + (j + 1) - 1 = (h + 1) + j - 1 /\ j \in 1 .. t - (h + 1)
        BY <1>2
      <4> QED
        BY <1>3, <2>3, <2>8, <3>2, <4>1
    <3>5. d = Tail(c)
      BY <2>8, <3>2, <3>3, <3>4, SameSequence
    <3> QED
      BY <3>1, <3>5
  <2> QED
    BY <1>1, <1>6, <2>4, <2>5, <2>6, <2>7, <2>9, <2>10 DEF TakesTheOldest
<1>7. CASE ~(r.keys = {h} /\ h < t)
  <2>1. o.state = q /\ o.answer = NoEntries
    BY <1>1, <1>4, <1>5, <1>7 DEF Queue!RemoveEntries, Queue!Outcome
  <2>2. ASSUME c # <<>> PROVE h < t
    BY <1>2, <1>3, <2>2
  <2> QED
    BY <1>1, <1>7, <2>1, <2>2 DEF TakesTheOldest
<1> QED
  BY <1>6, <1>7

(* A committed request of a queue                                          *)
LEMMA QueueStep ==
    ASSUME NEW q, IsQueue(q), NEW e, QueueRequest(e.request), NEW s,
           e.after = Apply("queue", q, e.request, s).state,
           e.answer = Apply("queue", q, e.request, s).answer
    PROVE  IsQueue(e.after) /\ FIFO(q, e)
<1>1. PICK r, o : r = e.request /\ o = Queue!Apply(q, r)
  OBVIOUS
<1>2. e.after = o.state /\ e.answer = o.answer
  BY <1>1 DEF Apply
<1>3. CASE r.type = "ClearEntries"
  <2>1. o = Queue!ClearEntries(q)
    BY <1>1, <1>3 DEF Queue!Apply
  <2>2. IsQueue(o.state) /\ Contents(o.state) = <<>> /\ o.state.head = q.tail
    BY <2>1, ClearOK
  <2> QED
    BY <1>1, <1>2, <1>3, <2>2 DEF FIFO
<1>4. CASE r.type = "InsertEntries"
  <2>1. o = Queue!InsertEntries(q, r)
    BY <1>1, <1>4 DEF Queue!Apply
  <2>2. IsSequence(r.entries)
    BY <1>1, <1>4 DEF QueueRequest
  <2>3. /\ IsQueue(o.state)
        /\ Contents(o.state) = Contents(q) \o r.entries
        /\ o.state.head = q.head
    BY <2>1, <2>2, InsertOK
  <2> QED
    BY <1>1, <1>2, <1>4, <2>3 DEF FIFO
<1>5. CASE r.type = "RemoveEntries"
  <2>1. o = Queue!RemoveEntries(q, r)
    BY <1>1, <1>5 DEF Queue!Apply
  <2>2. IsQueue(o.state) /\ TakesTheOldest(q, r, o)
    BY <2>1, RemoveOK
  <2>3. CASE o.answer = NoEntries
    BY <1>1, <1>2, <1>5, <2>2, <2>3 DEF FIFO, TakesTheOldest
  <2>4. CASE o.answer # NoEntries
    BY <1>1, <1>2, <1>5, <2>2, <2>4 DEF FIFO, TakesTheOldest
  <2> QED
    BY <2>3, <2>4
<1> QED
  BY <1>1, <1>3, <1>4, <1>5 DEF QueueRequest

(* The collection before any entry of the log                              *)
LEMMA AfterIsQueue ==
    ASSUME Inv, QueueInv, setting.kind = "queue", NEW n \in 0 .. Len(commits)
    PROVE  IsQueue(After(n))
<1>1. CASE n = 0
  <2>1. PICK f : f = Queue!NoEntries
    OBVIOUS
  <2>2. After(n) = Queue!Empty
    <3>1. Empty(setting.kind) = Queue!Empty
      BY DEF Empty
    <3> QED
      BY <1>1, <3>1 DEF After, kind
  <2>3. After(n) = [items |-> f, head |-> 0, tail |-> 0]
    BY <2>1, <2>2 DEF Queue!Empty
  <2>4. f = [k \in 0 .. 0 - 1 |-> f[k]]
    BY <2>1 DEF Queue!NoEntries
  <2> QED
    BY <2>3, <2>4 DEF IsQueue
<1>2. CASE n # 0
  <2>1. n \in 1 .. Len(commits) /\ After(n) = commits[n].after
    BY <1>2 DEF After, Inv, LogOK
  <2> QED
    BY <2>1 DEF QueueInv
<1> QED
  BY <1>1, <1>2

-----------------------------------------------------------------------------
(* The steps.                                                              *)

(* What is submitted was submitted before, or is a pop, or a call now.     *)
LEMMA CallsGoOn ==
    ASSUME Inv, QueueInv, UNCHANGED <<setting, commits>>,
           \A c \in Calls : Submitted(c)' =>
                \/ Submitted(c) /\ calls'[c].request = calls[c].request
                \/ setting.kind = "queue" => QueueRequest(calls'[c].request)
    PROVE  QueueInv'
BY DEF QueueInv

LEMMA AdvanceOK ==
    ASSUME Inv, QueueInv, UNCHANGED <<setting, commits>>, NEW p, NEW at, Advance(p, at)
    PROVE  QueueInv'
<1>1. ASSUME NEW c \in Calls, Submitted(c)'
      PROVE  \/ Submitted(c) /\ calls'[c].request = calls[c].request
             \/ QueueRequest(calls'[c].request)
  <2>1. PICK a : calls'[c] = calls[c] \/ calls'[c] = Settled(c, a, at.state)
    BY DEF Advance
  <2>2. CASE calls'[c] = calls[c]
    BY <1>1, <2>2 DEF Submitted
  <2>3. CASE calls'[c] = Settled(c, a, at.state)
    <3>1. IsCall(calls[c])
      BY DEF Inv, CallsOK
    <3>2. \/ calls'[c] = [calls[c] EXCEPT !.attempt = @ + 1, !.request = PopRequest(at.state)]
          \/ calls'[c] = [calls[c] EXCEPT !.status = "returned", !.result = a.result]
      BY <2>3 DEF Settled
    <3>3. CASE calls'[c] = [calls[c] EXCEPT !.attempt = @ + 1, !.request = PopRequest(at.state)]
      <4>1. calls'[c].request = PopRequest(at.state)
        BY <3>1, <3>3 DEF IsCall
      <4> QED
        BY <4>1 DEF QueueRequest, PopRequest
    <3>4. CASE calls'[c] = [calls[c] EXCEPT !.status = "returned", !.result = a.result]
      <4>1. calls'[c].status = "returned"
        BY <3>1, <3>4 DEF IsCall
      <4> QED
        BY <1>1, <4>1 DEF Submitted
    <3> QED
      BY <3>2, <3>3, <3>4
  <2> QED
    BY <2>1, <2>2, <2>3
<1> QED
  BY <1>1, CallsGoOn

LEMMA FailingOK ==
    ASSUME Inv, QueueInv, UNCHANGED <<setting, commits>>,
           \A c \in Calls : \/ calls'[c] = calls[c]
                            \/ /\ calls[c].status = "pending"
                               /\ calls'[c] = [calls[c] EXCEPT !.status = "failed"]
    PROVE  QueueInv'
<1>1. ASSUME NEW c \in Calls, Submitted(c)'
      PROVE  Submitted(c) /\ calls'[c].request = calls[c].request
  <2>1. IsCall(calls[c])
    BY DEF Inv, CallsOK
  <2>2. CASE calls'[c] = calls[c]
    BY <1>1, <2>2 DEF Submitted
  <2>3. CASE calls[c].status = "pending" /\ calls'[c] = [calls[c] EXCEPT !.status = "failed"]
    BY <2>1, <2>3 DEF IsCall, Submitted
  <2> QED
    BY <2>2, <2>3
<1> QED
  BY <1>1, CallsGoOn

(* Every slice of a sequence is one.                                       *)
LEMMA SliceOK ==
    ASSUME NEW s, IsSequence(s), NEW m \in 1 .. Len(s) + 1, NEW n \in m - 1 .. Len(s)
    PROVE  IsSequence(SubSeq(s, m, n))
<1> DEFINE S == {s[i] : i \in 1 .. Len(s)}
<1>1. s \in Seq(S)
  BY DEF IsSequence
<1> HIDE DEF S
<1>2. SubSeq(s, m, n) \in Seq(S)
  BY <1>1, SubSeqProperties
<1> QED
  BY <1>2, OwnElements

(* How many batches there are                                              *)
LEMMA Batches ==
    ASSUME NEW n \in Nat, NEW size \in Nat, size # 0
    PROVE  /\ (n + size - 1) \div size \in Nat
           /\ \A j \in 1 .. (n + size - 1) \div size : (j - 1) * size \in 0 .. n - 1
<1>1. PICK k : k = (n + size - 1) \div size
  OBVIOUS
<1>2. k \in Nat /\ k * size <= n + size - 1
  BY <1>1
<1>3. ASSUME NEW j \in 1 .. k PROVE (j - 1) * size \in 0 .. n - 1
  <2>1. j * size <= k * size
    <3>1. k * size - j * size = (k - j) * size
      BY <1>2
    <3>2. (k - j) * size >= 0
      BY <1>2
    <3>3. k * size \in Int /\ j * size \in Int
      BY <1>2
    <3> QED
      BY <3>1, <3>2, <3>3
  <2>2. (j - 1) * size = j * size - size /\ j * size \in Int /\ k * size \in Int
    BY <1>2
  <2>3. (j - 1) * size >= 0
    OBVIOUS
  <2> QED
    BY <1>2, <2>1, <2>2, <2>3
<1> QED
  BY <1>1, <1>2, <1>3

(* The batches of a push                                                   *)
LEMMA SlicesOK ==
    ASSUME NEW s, IsSequence(s), NEW size \in Nat, NEW cs, cs = Slices(s, size)
    PROVE  \E k \in Nat : DOMAIN cs = 1 .. k /\ \A j \in 1 .. k : IsSequence(cs[j])
<1>1. CASE size = 0
  <2>1. cs = <<s>>
    BY <1>1 DEF Slices
  <2>2. DOMAIN cs = 1 .. 1 /\ cs[1] = s
    BY <2>1
  <2> QED
    BY <2>2
<1>2. CASE size # 0
  <2>1. PICK n, k : n = Len(s) /\ k = (n + size - 1) \div size
    OBVIOUS
  <2>2. n \in Nat
    BY <2>1 DEF IsSequence
  <2>3. k \in Nat /\ \A j \in 1 .. k : (j - 1) * size \in 0 .. n - 1
    BY <1>2, <2>1, <2>2, Batches
  <2>4. cs = [j \in 1 .. k |->
                SubSeq(s, (j - 1) * size + 1, IF j * size < n THEN j * size ELSE n)]
    BY <1>2, <2>1 DEF Slices
  <2>5. ASSUME NEW j \in 1 .. k PROVE IsSequence(cs[j])
    <3>1. PICK a : a = (j - 1) * size
      OBVIOUS
    <3>2. a \in 0 .. n - 1 /\ j * size = a + size
      BY <2>3, <3>1
    <3>3. PICK b : b = IF a + size < n THEN a + size ELSE n
      OBVIOUS
    <3>4. a + 1 \in 1 .. n + 1 /\ b \in (a + 1) - 1 .. n
      BY <2>2, <3>2, <3>3
    <3>5. cs[j] = SubSeq(s, a + 1, b)
      BY <2>4, <3>1, <3>2, <3>3
    <3> QED
      BY <2>1, <3>4, <3>5, SliceOK
  <2> QED
    BY <2>3, <2>4, <2>5
<1> QED
  BY <1>1, <1>2

(* What an operation on a queue asks for                                   *)
LEMMA RequestsOK ==
    ASSUME Inv, setting.kind = "queue", NEW p, NEW o \in setting.operations
    PROVE  \E k \in Nat : /\ DOMAIN Requests(p, o) = 1 .. k
                          /\ Len(Requests(p, o)) = k
                          /\ \A j \in 1 .. k : QueueRequest(Requests(p, o)[j])
<1>1. \/ o.type \in {"pop", "ClearEntries"}
      \/ /\ o = [type |-> "InsertEntries", entries |-> o.entries]
         /\ IsSequence(o.entries)
  BY QueueAssumption DEF Inv, IsSequence
<1>2. PICK rs : rs = Requests(p, o)
  OBVIOUS
<1>3. CASE o.type = "pop"
  <2>1. rs = <<PopRequest(replica[p])>>
    BY <1>2, <1>3 DEF Requests
  <2>2. QueueRequest(PopRequest(replica[p]))
    BY DEF PopRequest, QueueRequest
  <2>3. DOMAIN rs = 1 .. 1 /\ Len(rs) = 1 /\ rs[1] = PopRequest(replica[p])
    BY <2>1
  <2> QED
    BY <1>2, <2>2, <2>3
<1>4. CASE o.type = "ClearEntries"
  <2>1. rs = <<o>>
    BY <1>2, <1>4 DEF Requests
  <2>2. DOMAIN rs = 1 .. 1 /\ Len(rs) = 1 /\ rs[1] = o
    BY <2>1
  <2> QED
    BY <1>2, <1>4, <2>2 DEF QueueRequest
<1>5. CASE o = [type |-> "InsertEntries", entries |-> o.entries] /\ IsSequence(o.entries)
  <2>1. rs = requestInsertEntries(o)
    <3>1. o.type = "InsertEntries"
      BY <1>5
    <3> QED
      BY <1>2, <3>1 DEF Requests
  <2>2. PICK cs : cs = Slices(o.entries, setting.outbound)
    OBVIOUS
  <2>3. rs = [j \in DOMAIN cs |-> [o EXCEPT !.entries = cs[j]]]
    BY <2>1, <2>2 DEF requestInsertEntries, kind
  <2>4. setting.outbound \in Nat
    BY SettingsAssumption DEF Inv
  <2>5. PICK k \in Nat : DOMAIN cs = 1 .. k /\ \A j \in 1 .. k : IsSequence(cs[j])
    BY <1>5, <2>2, <2>4, SlicesOK
  <2>6. ASSUME NEW j \in 1 .. k PROVE QueueRequest(rs[j])
    <3>1. rs[j] = [o EXCEPT !.entries = cs[j]]
      BY <2>3, <2>5
    <3>2. rs[j] = [type |-> "InsertEntries", entries |-> cs[j]]
      BY <1>5, <3>1
    <3> QED
      BY <2>5, <3>2 DEF QueueRequest
  <2>7. DOMAIN rs = 1 .. k
    BY <2>3, <2>5
  <2>8. Len(rs) = k
    <3>1. PICK S : S = {rs[j] : j \in 1 .. k}
      OBVIOUS
    <3>2. rs = [j \in 1 .. k |-> rs[j]]
      BY <2>3, <2>5
    <3>3. rs \in Seq(S)
      BY <3>1, <3>2
    <3> QED
      BY <2>7, <3>3
  <2> QED
    BY <1>2, <2>6, <2>7, <2>8
<1> QED
  BY <1>1, <1>3, <1>4, <1>5

LEMMA InvokeOK ==
    ASSUME Inv, QueueInv, NEW p \in Members, NEW o \in setting.operations, Invoke(p, o)
    PROVE  QueueInv'
<1> DEFINE requests == Requests(p, o)
           ids == NextCall .. NextCall + Len(requests) - 1
<1>1. /\ calls' = [c \in Calls |->
                CASE c \notin ids -> calls[c]
                  [] c \in ids /\ ReturnsAtOnce(p, o) ->
                        Call(p, "returned", NoRequest, NoEntries)
                  [] c \in ids /\ ~ReturnsAtOnce(p, o) ->
                        Call(p, "pending", requests[c - NextCall + 1], Nil)]
      /\ UNCHANGED <<setting, commits>>
  BY DEF Invoke, log
<1>2. ASSUME NEW c \in Calls, Submitted(c)', setting.kind = "queue"
      PROVE  \/ Submitted(c) /\ calls'[c].request = calls[c].request
             \/ QueueRequest(calls'[c].request)
  <2>1. CASE c \notin ids
    <3>1. calls'[c] = calls[c]
      BY <1>1, <2>1
    <3> QED
      BY <1>2, <3>1 DEF Submitted
  <2>2. CASE c \in ids /\ ReturnsAtOnce(p, o)
    <3>1. calls'[c].status = "returned"
      BY <1>1, <2>2 DEF Call
    <3> QED
      BY <1>2, <3>1 DEF Submitted
  <2>3. CASE c \in ids /\ ~ReturnsAtOnce(p, o)
    <3>1. calls'[c].request = requests[c - NextCall + 1]
      BY <1>1, <2>3 DEF Call
    <3>2. PICK k \in Nat : Len(requests) = k /\ \A j \in 1 .. k : QueueRequest(requests[j])
      BY <1>2, RequestsOK
    <3>3. NextCall \in Nat
      <4>1. PICK some : some = {d \in Calls : calls[d].status # "idle"}
        OBVIOUS
      <4>2. IsFiniteSet(Calls)
        BY CallsAssumption, FS_Interval DEF Calls
      <4>3. IsFiniteSet(some)
        BY <4>1, <4>2, FS_Subset
      <4>4. Cardinality(some) \in Nat
        BY <4>3, FS_CardinalityType
      <4> QED
        BY <4>1, <4>4 DEF NextCall
    <3>4. c - NextCall + 1 \in 1 .. k
      BY <2>3, <3>2, <3>3 DEF Calls
    <3> QED
      BY <3>1, <3>2, <3>4
  <2> QED
    BY <2>1, <2>2, <2>3
<1> QED
  BY <1>1, <1>2, CallsGoOn

LEMMA CommitOK ==
    ASSUME Inv, QueueInv, NEW c \in Calls, Commit(c)
    PROVE  QueueInv'
<1> SUFFICES ASSUME setting.kind = "queue" PROVE QueueInv'
  BY DEF QueueInv, Commit
<1>1. PICK n, outcome, e :
        /\ n = Len(commits)
        /\ outcome = Apply(kind, After(n), calls[c].request, calls[c].source)
        /\ e = [call |-> c, attempt |-> calls[c].attempt, source |-> calls[c].source,
                request |-> calls[c].request, after |-> outcome.state,
                answer |-> outcome.answer]
  OBVIOUS
<1>2. /\ commits' = Append(commits, e) /\ Submitted(c)
      /\ UNCHANGED <<setting, calls>>
  BY <1>1 DEF Commit, Submitted
<1>3. /\ Len(commits') = n + 1 /\ n \in Nat
      /\ \A i \in 1 .. n : commits'[i] = commits[i]
      /\ commits'[n + 1] = e
  BY <1>1, <1>2, Appending DEF Inv, LogOK
<1>4. QueueRequest(e.request) /\ IsQueue(e.after)
  <2>1. IsQueue(After(n))
    BY <1>1, <1>3, AfterIsQueue
  <2>2. QueueRequest(e.request)
    BY <1>1, <1>2 DEF QueueInv
  <2>3. /\ e.after = Apply("queue", After(n), e.request, calls[c].source).state
        /\ e.answer = Apply("queue", After(n), e.request, calls[c].source).answer
    BY <1>1 DEF kind
  <2> QED
    BY <2>1, <2>2, <2>3, QueueStep
<1>5. ASSUME NEW i \in 1 .. n + 1
      PROVE  QueueRequest(commits'[i].request) /\ IsQueue(commits'[i].after)
  <2>1. i \in 1 .. n \/ i = n + 1
    BY <1>3
  <2> QED
    BY <1>1, <1>3, <1>4, <2>1 DEF QueueInv
<1>6. \A d \in Calls : Submitted(d)' => QueueRequest(calls'[d].request)
  BY <1>2 DEF QueueInv, Submitted
<1> QED
  BY <1>2, <1>3, <1>5, <1>6 DEF QueueInv

(* The steps that leave the log alone; none of them brings a request that  *)
(* is not a queue's.                                                       *)
LEMMA QuietOK ==
    ASSUME Inv, QueueInv, UNCHANGED <<setting, commits, calls>>
    PROVE  QueueInv'
BY DEF QueueInv, Submitted

LEMMA JoinOK ==
    ASSUME Inv, QueueInv, UNCHANGED log, NEW p, NEW at, Join(p, at)
    PROVE  QueueInv'
BY AdvanceOK DEF Join, log

LEMMA ReceiveStateOK ==
    ASSUME Inv, QueueInv, NEW p, NEW m, ReceiveState(p, m)
    PROVE  QueueInv'
<1>1. UNCHANGED log /\ (UNCHANGED calls \/ \E at : Join(p, at))
  BY DEF ReceiveState
<1> QED
  BY <1>1, QuietOK, JoinOK DEF log

LEMMA DeliverOK ==
    ASSUME Inv, QueueInv, NEW p, Deliver(p)
    PROVE  QueueInv'
<1>1. UNCHANGED <<setting, commits>> /\ (UNCHANGED calls \/ \E at : Advance(p, at))
  BY DEF Deliver
<1> QED
  BY <1>1, QuietOK, AdvanceOK

LEMMA FailOK ==
    ASSUME Inv, QueueInv, NEW c \in Calls, Fail(c)
    PROVE  QueueInv'
<1>1. UNCHANGED <<setting, commits>>
  BY DEF Fail, log
<1>2. \A d \in Calls : \/ calls'[d] = calls[d]
                       \/ /\ calls[d].status = "pending"
                          /\ calls'[d] = [calls[d] EXCEPT !.status = "failed"]
  BY DEF Fail, Inv, CallsOK
<1> QED
  BY <1>1, <1>2, FailingOK

LEMMA CloseOK ==
    ASSUME Inv, QueueInv, NEW p, Close(p)
    PROVE  QueueInv'
<1>1. UNCHANGED <<setting, commits>>
  BY DEF Close, log
<1>2. \A d \in Calls : \/ calls'[d] = calls[d]
                       \/ /\ calls[d].status = "pending"
                          /\ calls'[d] = [calls[d] EXCEPT !.status = "failed"]
  BY DEF Close
<1> QED
  BY <1>1, <1>2, FailingOK

LEMMA StepOK == Inv /\ QueueInv /\ [Next]_vars => QueueInv'
<1> SUFFICES ASSUME Inv, QueueInv, [Next]_vars PROVE QueueInv'
  OBVIOUS
<1>1. CASE UNCHANGED vars
  BY <1>1, QuietOK DEF vars, log
<1>2. ASSUME NEW p \in Members, NEW o \in setting.operations, Invoke(p, o) PROVE QueueInv'
  BY <1>2, InvokeOK
<1>3. ASSUME NEW c \in Calls, Fail(c) \/ Commit(c) PROVE QueueInv'
  BY <1>3, FailOK, CommitOK
<1>4. ASSUME NEW p \in Members, Deliver(p) PROVE QueueInv'
  BY <1>4, DeliverOK
<1>5. ASSUME NEW p \in Members, LogReset(p) \/ LeaderChanged(p) \/ Fetch(p) PROVE QueueInv'
  BY <1>5, QuietOK DEF LogReset, LeaderChanged, Fetch, log
<1>6. ASSUME NEW p \in Members, FetchTimeout(p) PROVE QueueInv'
  BY <1>6, JoinOK DEF FetchTimeout
<1>7. ASSUME NEW p \in Members, Close(p) PROVE QueueInv'
  BY <1>7, CloseOK
<1>8. ASSUME NEW p \in Members, NEW b \in BOOLEAN, Create(p, b) PROVE QueueInv'
  BY <1>8, QuietOK DEF Create, log
<1>9. ASSUME NEW p \in Members, NEW q \in Members, AnswerHello(q, p) PROVE QueueInv'
  BY <1>9, QuietOK DEF AnswerHello, log
<1>10. ASSUME NEW p \in Members, NEW m \in notes, ReceiveState(p, m) PROVE QueueInv'
  BY <1>10, ReceiveStateOK
<1> QED
  BY <1>1, <1>2, <1>3, <1>4, <1>5, <1>6, <1>7, <1>8, <1>9, <1>10 DEF Next

LEMMA InOrder == Inv /\ QueueInv => QueueIsFIFO
<1> SUFFICES ASSUME Inv, QueueInv, setting.kind = "queue", NEW i \in 1 .. Len(commits)
             PROVE  FIFO(After(i - 1), commits[i])
  BY DEF QueueIsFIFO, kind, Inv, LogOK
<1>1. EntryOK(i) /\ Len(commits) \in Nat
  BY DEF Inv, LogOK
<1>2. IsQueue(After(i - 1))
  <2>1. i - 1 \in 0 .. Len(commits)
    BY <1>1
  <2> QED
    BY <2>1, AfterIsQueue
<1>3. QueueRequest(commits[i].request)
  BY DEF QueueInv
<1> QED
  BY <1>1, <1>2, <1>3, QueueStep DEF EntryOK, kind

(* Whoever pushes, pops and clears, and however the calls race with each   *)
(* other, fail or are tried again: a replicated queue gives its values out *)
(* in the order they were committed in, and a pop sent for a head that is  *)
(* gone takes nothing.                                                     *)
THEOREM QueueInOrder == Spec => []QueueIsFIFO
<1>1. Init => QueueInv
  <2> SUFFICES ASSUME Init PROVE QueueInv
    OBVIOUS
  <2>1. Len(commits) = 0 /\ \A c \in Calls : calls[c].status = "idle"
    BY DEF Init, NoCall
  <2> QED
    BY <2>1 DEF QueueInv, Submitted
<1>2. Spec => []Inv
  BY InvAlways
<1> QED
  BY <1>1, <1>2, StepOK, InOrder, PTL DEF Spec
=============================================================================
