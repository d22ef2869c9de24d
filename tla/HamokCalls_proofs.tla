-------------------------- MODULE HamokCalls_proofs --------------------------
(***************************************************************************)
(* The life of a call, for any number of peers, calls and elections, and   *)
(* any loss or failure: what is pending belongs to calls that wait, each   *)
(* call is submitted again at most once for each leader that its source    *)
(* learns of, no peer executes it twice, a call that resolves has the      *)
(* answers of its executions, and a submission that has succeeded was      *)
(* taken in by a leader.                                                   *)
(***************************************************************************)
EXTENDS HamokGrid_proofs

-----------------------------------------------------------------------------
(* Calls, and who waits for them.                                          *)

IsCall(k) ==
    /\ k = [status |-> k.status, source |-> k.source, request |-> k.request,
            submitted |-> k.submitted, result |-> k.result]
    /\ k.status \in {"idle", "waiting", "resolved", "rejected"}
    /\ k.submitted \in BOOLEAN
    /\ k.status # "idle" => k.source \in Peers

IsPending(r) ==
    /\ r = [neededResponses |-> r.neededResponses, remotePeers |-> r.remotePeers,
            responses |-> r.responses, receivedResponses |-> r.receivedResponses,
            state |-> r.state, postponed |-> r.postponed]
    /\ r.state \in {"pending", "resolved", "rejected"}

IsGrid(g) == g = [requests |-> g.requests, responses |-> g.responses]

\* What may be in a log
Entries ==
    {[type |-> "storage", id |-> StorageId(c), call |-> c, source |-> s, to |-> Nil] :
        c \in Calls, s \in Peers}
    \cup {[type |-> "submission", id |-> SubmitId(c, n), call |-> c, source |-> s, to |-> q] :
            c \in Calls, n \in Nat \ {0}, s \in Peers, q \in Peers}

\* The call of an entry, or of a message about its submission, has begun, and its source is known.
Begun(c, s) == c \in Calls /\ calls[c].status # "idle" /\ calls[c].source = s /\ s \in Peers

EntryOK(e) == e \in Entries /\ Begun(e.call, e.source)

RequestOK(m) ==
    /\ m.id \in Calls \X (Nat \ {0}) /\ m.to \in Peers
    /\ EntryOK(m.entry) /\ m.entry.call = m.id[1] /\ m.entry.source = m.from
    /\ m.entry.type = "submission" => m.entry.id[2] < m.id[2]

ResponseOK(m) ==
    /\ m.id \in Calls \X (Nat \ {0}) /\ m.from \in Peers /\ m.success \in BOOLEAN
    /\ Begun(m.id[1], m.to)

MessageOK(m) ==
    /\ m.type \in {"SubmitMessageRequest", "SubmitMessageResponse", "OngoingRequestsNotification",
                   "response"}
    /\ m.type = "SubmitMessageRequest" => RequestOK(m)
    /\ m.type = "SubmitMessageResponse" => ResponseOK(m)

\* A call that waits has its storage request pending, and at most one submission, before
\* a submission has succeeded; nothing is pending for other calls.
CallOK(c) ==
    /\ IsCall(calls[c])
    /\ calls[c].status # "idle" => calls[c].request \in setting.operations
    /\ \A n \in Nat : <<c, n>> \in DOMAIN pendingRequests =>
        calls[c].status = "waiting" /\ IsPending(pendingRequests[<<c, n>>])
    /\ calls[c].status = "waiting" => StorageId(c) \in DOMAIN pendingRequests
    /\ \A n, m \in Nat \ {0} :
        <<c, n>> \in DOMAIN pendingRequests /\ <<c, m>> \in DOMAIN pendingRequests =>
            n = m /\ ~calls[c].submitted

\* Calls begin in the order of their numbers.
InOrder == \E n \in 0 .. MaxCalls : \A c \in Calls : calls[c].status # "idle" <=> c <= n

\* What the peers know of the leader
LeaderOK ==
    /\ elections \in 0 .. setting.elections
    /\ leader \in Peers /\ leaderId \in [Peers -> Peers \cup {Nil}] /\ leaderId[leader] = leader
    /\ learnt \in [Peers -> Nat]
    /\ \A p \in Peers :
        /\ learnt[p] <= elections
        /\ learnt[p] = elections => leaderId[p] \in {Nil, leader}

LogOK ==
    /\ log \in Seq(Entries)
    /\ \A i \in 1 .. Len(log) : EntryOK(log[i])
    /\ \A p \in Peers : committed[p] \in 0 .. Len(log)

EachCallOK ==
    /\ DOMAIN calls = Calls
    /\ DOMAIN pendingRequests \subseteq Calls \X Nat
    /\ \A c \in Calls : CallOK(c)

NetOK == \A m \in net : MessageOK(m)

Book == LeaderOK /\ LogOK /\ EachCallOK /\ InOrder /\ NetOK

-----------------------------------------------------------------------------
(* Responses, and what they leave of the pending requests.                 *)

\* The same requests are pending.
SameRequests(g, h) ==
    /\ IsGrid(h)
    /\ DOMAIN h.requests = DOMAIN g.requests
    /\ \A id \in DOMAIN g.requests : IsPending(g.requests[id]) =>
        IsPending(h.requests[id]) /\ h.requests[id].remotePeers = g.requests[id].remotePeers

\* A response changes neither the form of a pending request nor the peers it asks.
LEMMA AcceptOK ==
    ASSUME NEW r, IsPending(r), NEW s, NEW x
    PROVE  IsPending(accept(r, s, x)) /\ accept(r, s, x).remotePeers = r.remotePeers
<1>1. PICK y : y = [r EXCEPT !.responses = [z \in DOMAIN @ \cup {s} |-> IF z = s THEN x ELSE @[z]],
                     !.receivedResponses = IF r.neededResponses > 0 THEN @ + 1 ELSE @]
  OBVIOUS
<1>2. IsPending(y) /\ y.remotePeers = r.remotePeers
  BY <1>1 DEF IsPending
<1>3. \/ accept(r, s, x) = [r EXCEPT !.responses = y.responses]
      \/ accept(r, s, x) = [y EXCEPT !.state = "resolved"]
      \/ accept(r, s, x) = y
  BY <1>1 DEF accept
<1> QED
  BY <1>2, <1>3 DEF IsPending

(* A complete response leaves the same requests pending.                   *)
LEMMA SettleOK ==
    ASSUME NEW g, IsGrid(g), NEW id, NEW from, NEW response
    PROVE  SameRequests(g, Settle(g, id, from, response))
<1>1. CASE id \notin DOMAIN g.requests \/ completed(g.requests[id])
  BY <1>1 DEF Settle, SameRequests
<1>2. CASE ~(id \notin DOMAIN g.requests \/ completed(g.requests[id]))
  <2>1. PICK a : a = accept(g.requests[id], from, response)
    OBVIOUS
  <2>2. Settle(g, id, from, response) = [g EXCEPT !.requests[id] = a]
    BY <1>2, <2>1 DEF Settle
  <2>3. PICK h : h = [g EXCEPT !.requests[id] = a]
    OBVIOUS
  <2>4. IsGrid(h) /\ h.requests = [g.requests EXCEPT ![id] = a]
    BY <2>3 DEF IsGrid
  <2>5. IsPending(g.requests[id]) => IsPending(a) /\ a.remotePeers = g.requests[id].remotePeers
    BY <2>1, AcceptOK
  <2> QED
    BY <2>2, <2>3, <2>4, <2>5 DEF SameRequests
<1> QED
  BY <1>1, <1>2

(* A postponement changes neither.                                         *)
LEMMA PostponeTimeoutOK ==
    ASSUME NEW r, IsPending(r)
    PROVE  IsPending(postponeTimeout(r)) /\ postponeTimeout(r).remotePeers = r.remotePeers
<1>1. PICK y : y = [r EXCEPT !.postponed = TRUE]
  OBVIOUS
<1>2. IsPending(y) /\ y.remotePeers = r.remotePeers
  BY <1>1 DEF IsPending
<1> QED
  BY <1>1, <1>2 DEF postponeTimeout

(* A response, or a chunk of one, leaves the same requests pending.        *)
LEMMA ProcessResponseOK ==
    ASSUME NEW g, IsGrid(g), NEW m PROVE SameRequests(g, processResponse(g, m))
<1>1. PICK key, r, got : /\ key = <<m.from, m.id>> /\ r = m.response
                         /\ got = Chunker!acceptChunk(Get(g.responses, key, Chunker!NoChunks), r)
  OBVIOUS
<1>2. PICK e, h : /\ e = [keys |-> r.keys, values |-> r.values]
                  /\ h = [g EXCEPT !.responses = Without(@, {key})]
  OBVIOUS
<1>3. PICK f : f = [g EXCEPT !.responses = With(@, key, got)]
  OBVIOUS
<1>4. \/ processResponse(g, m) = Settle(g, m.id, m.from, e)
      \/ processResponse(g, m) = Postpone(f, m.id)
      \/ processResponse(g, m) = Settle(h, m.id, m.from, Chunker!result(got))
  BY <1>1, <1>2, <1>3 DEF processResponse
<1>5. IsGrid(h) /\ h.requests = g.requests /\ IsGrid(f) /\ f.requests = g.requests
  BY <1>2, <1>3 DEF IsGrid
<1>6. SameRequests(g, Settle(g, m.id, m.from, e))
  BY SettleOK
<1>7. SameRequests(h, Settle(h, m.id, m.from, Chunker!result(got)))
  BY <1>5, SettleOK
<1>8. SameRequests(f, Postpone(f, m.id))
  <2>1. CASE m.id \in DOMAIN f.requests
    <3>1. PICK a : a = postponeTimeout(f.requests[m.id])
      OBVIOUS
    <3>2. PICK x : x = [f EXCEPT !.requests[m.id] = a]
      OBVIOUS
    <3>3. Postpone(f, m.id) = x
      BY <2>1, <3>1, <3>2 DEF Postpone
    <3>4. IsGrid(x) /\ x.requests = [f.requests EXCEPT ![m.id] = a]
      BY <1>5, <3>2 DEF IsGrid
    <3>5. IsPending(f.requests[m.id]) => IsPending(a) /\ a.remotePeers = f.requests[m.id].remotePeers
      BY <3>1, PostponeTimeoutOK
    <3> QED
      BY <3>3, <3>4, <3>5 DEF SameRequests
  <2>2. CASE m.id \notin DOMAIN f.requests
    BY <1>5, <2>2 DEF Postpone, SameRequests
  <2> QED
    BY <2>1, <2>2
<1> QED
  BY <1>4, <1>5, <1>6, <1>7, <1>8 DEF SameRequests

\* The grids along the way of ProcessAll
Processes(g, ms, f) ==
    f = [i \in 0 .. Len(ms) |-> IF i = 0 THEN g ELSE processResponse(f[i - 1], ms[i])]

(* ProcessAll applies the messages one after the other.                    *)
LEMMA ProcessAllIs ==
    ASSUME NEW g, NEW ms, Len(ms) \in Nat
    PROVE  \E f : Processes(g, ms, f) /\ ProcessAll(g, ms) = f[Len(ms)]
<1> DEFINE P(f, n) == f = [i \in 0 .. n |-> IF i = 0 THEN g ELSE processResponse(f[i - 1], ms[i])]
           S == {n \in Nat : \E f : P(f, n)}
<1>1. 0 \in S
  <2> DEFINE f == [i \in 0 .. 0 |-> g]
  <2>1. P(f, 0)
    OBVIOUS
  <2> QED
    BY <2>1
<1>2. ASSUME NEW m \in Nat, m \in S PROVE m + 1 \in S
  <2>1. PICK f : P(f, m)
    BY <1>2
  <2> DEFINE h == [i \in 0 .. m + 1 |-> IF i = m + 1 THEN processResponse(f[m], ms[m + 1]) ELSE f[i]]
  <2>2. ASSUME NEW i \in 0 .. m + 1
        PROVE  h[i] = IF i = 0 THEN g ELSE processResponse(h[i - 1], ms[i])
    <3>1. CASE i = m + 1
      <4>1. m + 1 # 0 /\ m \in 0 .. m + 1 /\ m # m + 1 /\ (m + 1) - 1 = m
        OBVIOUS
      <4>2. h[m + 1] = processResponse(f[m], ms[m + 1]) /\ h[m] = f[m]
        BY <4>1
      <4> HIDE DEF h
      <4> QED
        BY <3>1, <4>1, <4>2
    <3>2. CASE i \in 0 .. m
      <4>1. h[i] = f[i] /\ (i # 0 => h[i - 1] = f[i - 1])
        BY <3>2
      <4>2. f[i] = IF i = 0 THEN g ELSE processResponse(f[i - 1], ms[i])
        BY <2>1, <3>2
      <4> HIDE DEF h
      <4> QED
        BY <4>1, <4>2
    <3> QED
      BY <3>1, <3>2
  <2>3. h = [i \in 0 .. m + 1 |-> h[i]]
    OBVIOUS
  <2> HIDE DEF h
  <2>4. P(h, m + 1)
    BY <2>2, <2>3
  <2> HIDE DEF P
  <2> QED
    BY <2>4
<1>3. Len(ms) \in S
  <2> HIDE DEF S
  <2> QED
    BY <1>1, <1>2, UpFromZero
<1>4. \E f : Processes(g, ms, f)
  BY <1>3 DEF Processes
<1>5. PICK f : f = CHOOSE h : Processes(g, ms, h)
  OBVIOUS
<1>6. Processes(g, ms, f)
  BY <1>4, <1>5
<1>7. ProcessAll(g, ms) = f[Len(ms)]
  BY <1>5 DEF ProcessAll, Processes
<1> QED
  BY <1>6, <1>7

(* Any number of responses leave the same requests pending.                *)
LEMMA ProcessAllOK ==
    ASSUME NEW g, IsGrid(g), NEW ms, Len(ms) \in Nat
    PROVE  SameRequests(g, ProcessAll(g, ms))
<1>1. PICK f : Processes(g, ms, f) /\ ProcessAll(g, ms) = f[Len(ms)]
  BY ProcessAllIs
<1> DEFINE S == {n \in Nat : n <= Len(ms) => SameRequests(g, f[n])}
<1>2. 0 \in S
  <2>1. f[0] = g
    BY <1>1 DEF Processes
  <2> QED
    BY <2>1 DEF SameRequests
<1>3. ASSUME NEW n \in Nat, n \in S PROVE n + 1 \in S
  <2> SUFFICES ASSUME n + 1 <= Len(ms) PROVE SameRequests(g, f[n + 1])
    OBVIOUS
  <2>1. /\ n + 1 \in 0 .. Len(ms) /\ n + 1 # 0 /\ (n + 1) - 1 = n
        /\ SameRequests(g, f[n])
    BY <1>3
  <2>2. f[n + 1] = processResponse(f[n], ms[n + 1])
    BY <1>1, <2>1 DEF Processes
  <2>3. SameRequests(f[n], f[n + 1])
    BY <2>1, <2>2, ProcessResponseOK DEF SameRequests
  <2> QED
    BY <2>1, <2>3 DEF SameRequests
<1>4. Len(ms) \in S
  <2> HIDE DEF S
  <2> QED
    BY <1>2, <1>3, UpFromZero
<1> QED
  BY <1>1, <1>4

(* expire and reject, too, leave a pending request that.                    *)
LEMMA ExpireOK ==
    ASSUME NEW r, IsPending(r)
    PROVE  IsPending(expire(r)) /\ expire(r).remotePeers = r.remotePeers
<1>1. PICK y : y = [r EXCEPT !.postponed = FALSE]
  OBVIOUS
<1>2. PICK z : z = [r EXCEPT !.state = "rejected"]
  OBVIOUS
<1>3. IsPending(y) /\ y.remotePeers = r.remotePeers /\ IsPending(z) /\ z.remotePeers = r.remotePeers
  BY <1>1, <1>2 DEF IsPending
<1> QED
  BY <1>1, <1>2, <1>3 DEF expire, reject

(* A rejection changes neither.                                            *)
LEMMA RejectOK ==
    ASSUME NEW r, IsPending(r)
    PROVE  IsPending(reject(r)) /\ reject(r).remotePeers = r.remotePeers
<1>1. PICK z : z = [r EXCEPT !.state = "rejected"]
  OBVIOUS
<1>2. IsPending(z) /\ z.remotePeers = r.remotePeers
  BY <1>1 DEF IsPending
<1> QED
  BY <1>1, <1>2 DEF reject

-----------------------------------------------------------------------------
(* A call goes on.                                                         *)

\* What Continue leaves: the call as it is, and waiting, or ended with its storage request gone.
Continued(c, call, g, failed, k) ==
    /\ calls' = [calls EXCEPT ![c] = k]
    /\ IsCall(k) /\ k.source = call.source /\ k.request = call.request /\ k.submitted = call.submitted
    /\ \/ /\ k = call /\ ~failed
          /\ pendingRequests' = g.requests /\ pendingResponses' = g.responses
       \/ /\ k.status \in {"resolved", "rejected"}
          /\ failed \/ call.submitted
          /\ pendingRequests' = Without(g.requests, {StorageId(c)})

\* The three ways a call goes on: as it is, or ended, its request forgotten.
LEMMA ContinueOK ==
    ASSUME NEW c, NEW call, NEW g, NEW failed \in BOOLEAN, Continue(c, call, g, failed),
           IsCall(call), call.status = "waiting", IsGrid(g)
    PROVE  \E k : Continued(c, call, g, failed, k)
<1>1. PICK x : x = Forget(g, StorageId(c))
  OBVIOUS
<1>2. x.requests = Without(g.requests, {StorageId(c)})
  BY <1>1 DEF Forget, IsGrid
<1>3. purgeResponseForRequest(x, StorageId(c)).requests = x.requests
  BY <1>1 DEF purgeResponseForRequest, Forget, IsGrid
<1>4. CASE ~failed /\ calls' = [calls EXCEPT ![c] = call]
           /\ pendingRequests' = g.requests /\ pendingResponses' = g.responses
  BY <1>4 DEF Continued
<1>5. ASSUME NEW k, calls' = [calls EXCEPT ![c] = k], failed \/ call.submitted,
             \/ k = [call EXCEPT !.status = "rejected"]
             \/ \E v : k = [call EXCEPT !.status = "resolved", !.result = v],
             pendingRequests' = Without(g.requests, {StorageId(c)})
      PROVE  Continued(c, call, g, failed, k)
  <2>1. /\ IsCall(k) /\ k.source = call.source /\ k.request = call.request
        /\ k.submitted = call.submitted /\ k.status \in {"resolved", "rejected"}
    BY <1>5 DEF IsCall
  <2> QED
    BY <1>5, <2>1 DEF Continued
<1>6. CASE /\ failed \/ call.submitted
           /\ calls' = [calls EXCEPT ![c] = [call EXCEPT !.status = "rejected"]]
           /\ pendingRequests' = purgeResponseForRequest(x, StorageId(c)).requests
  <2>1. PICK k : k = [call EXCEPT !.status = "rejected"]
    OBVIOUS
  <2> QED
    BY <1>2, <1>3, <1>5, <1>6, <2>1
<1>7. ASSUME NEW v, call.submitted, pendingRequests' = x.requests,
             calls' = [calls EXCEPT ![c] = [call EXCEPT !.status = "resolved", !.result = v]]
      PROVE  \E k : Continued(c, call, g, failed, k)
  <2>1. PICK k : k = [call EXCEPT !.status = "resolved", !.result = v]
    OBVIOUS
  <2> QED
    BY <1>2, <1>5, <1>7, <2>1
<1> QED
  BY <1>1, <1>4, <1>6, <1>7 DEF Continue

\* The grid g has what call c, with the record call, waits for, and for other calls what is pending.
GridFor(c, call, g, failed) ==
    /\ IsCall(call) /\ call.status = "waiting" /\ call.request \in setting.operations
    /\ IsGrid(g) /\ DOMAIN g.requests \subseteq Calls \X Nat
    /\ \A d \in Calls \ {c}, n \in Nat :
        /\ <<d, n>> \in DOMAIN g.requests <=> <<d, n>> \in DOMAIN pendingRequests
        /\ <<d, n>> \in DOMAIN pendingRequests => IsPending(g.requests[<<d, n>>])
    /\ StorageId(c) \in DOMAIN g.requests
    /\ \A n \in Nat : <<c, n>> \in DOMAIN g.requests => IsPending(g.requests[<<c, n>>])
    /\ \A n, m \in Nat \ {0} :
        <<c, n>> \in DOMAIN g.requests /\ <<c, m>> \in DOMAIN g.requests =>
            n = m /\ ~call.submitted /\ ~failed

\* When call c goes on, the calls are in order again, and only c has changed.
LEMMA CallGoesOn ==
    ASSUME EachCallOK, NEW c \in Calls, NEW call, NEW g, NEW failed \in BOOLEAN, NEW k,
           GridFor(c, call, g, failed), Continued(c, call, g, failed, k), UNCHANGED setting
    PROVE  /\ EachCallOK'
           /\ \A d \in Calls : calls'[d].status # "idle" <=> calls[d].status # "idle" \/ d = c
           /\ \A d \in Calls :
                /\ calls'[d].source = IF d = c THEN call.source ELSE calls[d].source
                /\ calls'[d].request = IF d = c THEN call.request ELSE calls[d].request
<1>1. DOMAIN calls' = Calls /\ calls'[c] = k /\ \A d \in Calls : d # c => calls'[d] = calls[d]
  BY DEF Continued, EachCallOK
<1>2. /\ DOMAIN pendingRequests' \subseteq DOMAIN g.requests
      /\ \A id \in DOMAIN pendingRequests' : pendingRequests'[id] = g.requests[id]
      /\ \A id \in DOMAIN g.requests : id # StorageId(c) => id \in DOMAIN pendingRequests'
  BY DEF Continued, Without
<1>3. ASSUME NEW d \in Calls, d # c PROVE CallOK(d)'
  <2>1. \A n \in Nat : <<d, n>> # StorageId(c)
    BY <1>3 DEF StorageId
  <2>2. \A n \in Nat : <<d, n>> \in DOMAIN pendingRequests' <=> <<d, n>> \in DOMAIN pendingRequests
    BY <1>2, <1>3, <2>1 DEF GridFor
  <2>3. \A n \in Nat : <<d, n>> \in DOMAIN pendingRequests => IsPending(pendingRequests'[<<d, n>>])
    BY <1>2, <1>3, <2>2 DEF GridFor
  <2>4. CallOK(d) /\ calls'[d] = calls[d]
    BY <1>1, <1>3 DEF EachCallOK
  <2>5. IsCall(calls'[d])
    BY <2>4 DEF CallOK
  <2> QED
    BY <2>2, <2>3, <2>4, <2>5 DEF CallOK, StorageId
<1>4. CallOK(c)'
  <2>0. IsCall(k) /\ k.submitted = call.submitted
    BY DEF Continued
  <2>1. IsCall(calls'[c]) /\ calls'[c].request \in setting'.operations
    BY <1>1, <2>0 DEF Continued, GridFor
  <2>2. CASE k = call /\ ~failed /\ pendingRequests' = g.requests
    BY <1>1, <2>0, <2>1, <2>2 DEF CallOK, GridFor
  <2>3. CASE /\ k.status \in {"resolved", "rejected"}
             /\ failed \/ call.submitted
             /\ pendingRequests' = Without(g.requests, {StorageId(c)})
    <3>1. \A n \in Nat : <<c, n>> \notin DOMAIN pendingRequests'
      <4> SUFFICES ASSUME NEW n \in Nat, <<c, n>> \in DOMAIN pendingRequests' PROVE FALSE
        OBVIOUS
      <4>1. n # 0 /\ <<c, n>> \in DOMAIN g.requests
        BY <2>3 DEF Without, StorageId
      <4> QED
        BY <2>3, <4>1 DEF GridFor
    <3>2. calls'[c].status # "waiting"
      BY <1>1, <2>3
    <3>3. \A n \in Nat \ {0} : <<c, n>> \notin DOMAIN pendingRequests'
      BY <3>1
    <3> QED
      BY <2>1, <3>1, <3>2, <3>3 DEF CallOK
  <2> QED
    BY <2>2, <2>3 DEF Continued
<1>5. EachCallOK'
  BY <1>1, <1>2, <1>3, <1>4 DEF EachCallOK, GridFor
<1>6. k.status # "idle" /\ k.source = call.source /\ k.request = call.request
  BY DEF Continued, GridFor
<1> QED
  BY <1>1, <1>5, <1>6

\* Calls that have begun remain what they are; none begins.
Kept ==
    /\ UNCHANGED setting
    /\ \A c \in Calls : calls[c].status # "idle" =>
        /\ calls'[c].status # "idle"
        /\ calls'[c].source = calls[c].source /\ calls'[c].request = calls[c].request

\* What is in flight or in a log stays as it should be as long as the calls keep their sources.
LEMMA MessageStays ==
    ASSUME Kept
    PROVE  /\ \A e : EntryOK(e) => EntryOK(e)'
           /\ \A m : MessageOK(m) => MessageOK(m)'
<1>1. \A c, s : Begun(c, s) => Begun(c, s)'
  BY DEF Begun, Kept
<1>2. \A e : EntryOK(e) => EntryOK(e)'
  BY <1>1 DEF EntryOK
<1>3. ASSUME NEW m, MessageOK(m) PROVE MessageOK(m)'
  <2>1. m.type = "SubmitMessageRequest" => RequestOK(m)'
    BY <1>2, <1>3 DEF MessageOK, RequestOK
  <2>2. m.type = "SubmitMessageResponse" => ResponseOK(m)'
    BY <1>1, <1>3 DEF MessageOK, ResponseOK
  <2> QED
    BY <1>3, <2>1, <2>2 DEF MessageOK
<1> QED
  BY <1>2, <1>3

\* The log stays, or gets an entry.
Grows(e) == log' = log \/ log' = Append(log, e)

(* The log may take in an entry that is as it should be.                   *)
LEMMA LogStays ==
    ASSUME Kept, LogOK, NEW e, Grows(e), EntryOK(e)',
           \A p \in Peers : committed'[p] \in 0 .. Len(log)
    PROVE  LogOK'
<1>1. log \in Seq(Entries) /\ e \in Entries
  BY DEF LogOK, EntryOK
<1>2. ASSUME log' = log PROVE LogOK'
  BY <1>2, MessageStays DEF LogOK
<1>3. ASSUME log' = Append(log, e) PROVE LogOK'
  <2>1. /\ log' \in Seq(Entries) /\ Len(log') = Len(log) + 1 /\ Len(log) \in Nat
        /\ \A i \in 1 .. Len(log) : log'[i] = log[i]
        /\ log'[Len(log) + 1] = e
    BY <1>1, <1>3
  <2>2. ASSUME NEW i \in 1 .. Len(log') PROVE EntryOK(log[i])'
    <3>1. CASE i \in 1 .. Len(log)
      <4>1. EntryOK(log[i]) /\ log'[i] = log[i]
        BY <2>1, <3>1 DEF LogOK
      <4> PICK f : f = log[i]
        OBVIOUS
      <4>2. EntryOK(f)'
        BY <4>1, MessageStays
      <4> QED
        BY <4>1, <4>2
    <3>2. CASE i = Len(log) + 1
      BY <2>1, <3>2
    <3> QED
      BY <2>1, <3>1, <3>2
  <2>4. \A p \in Peers : committed'[p] \in 0 .. Len(log')
    BY <2>1
  <2> QED
    BY <2>1, <2>2, <2>4 DEF LogOK
<1> QED
  BY <1>2, <1>3 DEF Grows

\* Call c of p, with the record call, may be submitted, as entry for the n-th time: none of its
\* submissions is pending in g.
Submittable(p, c, call, entry, n, g) ==
    /\ p \in Peers /\ c \in Calls /\ n \in Nat \ {0}
    /\ GridFor(c, call, g, FALSE)
    /\ \A i \in Nat \ {0} : <<c, i>> \notin DOMAIN g.requests
    /\ call.source = p /\ ~call.submitted
    /\ calls[c].status # "idle" => calls[c].source = p /\ calls[c].request = call.request
    /\ entry \in Entries /\ entry.call = c /\ entry.source = p
    /\ entry.type = "submission" => entry.id[2] < n

(* A submission, the first or another, of a call that has none pending.    *)
LEMMA SubmitBook ==
    ASSUME LeaderOK, LogOK, EachCallOK, NetOK,
           NEW p, NEW c, NEW call, NEW entry, NEW n, NEW g,
           Submittable(p, c, call, entry, n, g), Submit(p, c, call, entry, n, g),
           UNCHANGED <<setting, committed>>
    PROVE  /\ EachCallOK' /\ LogOK' /\ NetOK' /\ Kept
           /\ \A d \in Calls : calls'[d].status # "idle" <=> calls[d].status # "idle" \/ d = c
           /\ calls'[c].source = p
<1>0. /\ p \in Peers /\ c \in Calls /\ n \in Nat \ {0}
      /\ GridFor(c, call, g, FALSE)
      /\ \A i \in Nat \ {0} : <<c, i>> \notin DOMAIN g.requests
      /\ call.source = p /\ ~call.submitted
      /\ calls[c].status # "idle" => calls[c].source = p /\ calls[c].request = call.request
      /\ entry \in Entries /\ entry.call = c /\ entry.source = p
      /\ entry.type = "submission" => entry.id[2] < n
  BY DEF Submittable
<1>1. PICK req : req = [type |-> "SubmitMessageRequest", id |-> SubmitId(c, n),
                        from |-> p, to |-> leaderId[p], entry |-> entry]
  OBVIOUS
<1>2. \E x, h : \E failed \in BOOLEAN :
        /\ Continue(c, x, h, failed) /\ GridFor(c, x, h, failed)
        /\ x.source = p /\ x.request = call.request /\ Grows(entry)
        /\ net' = net \/ (net' = net \cup {req} /\ leaderId[p] \in Peers)
  <2>1. CASE leaderId[p] = Nil /\ Continue(c, call, g, TRUE) /\ UNCHANGED <<log, net>>
    <3>1. GridFor(c, call, g, TRUE)
      BY <1>0 DEF GridFor
    <3> QED
      BY <1>0, <2>1, <3>1 DEF Grows
  <2>2. CASE /\ isLeader(p) /\ raftSubmit(p, entry)
             /\ Continue(c, [call EXCEPT !.submitted = TRUE], g, FALSE) /\ UNCHANGED net
    <3>1. PICK x : x = [call EXCEPT !.submitted = TRUE]
      OBVIOUS
    <3>2. IsCall(x) /\ x.status = "waiting" /\ x.request = call.request /\ x.source = p
      BY <1>0, <3>1 DEF GridFor, IsCall
    <3>3. GridFor(c, x, g, FALSE)
      BY <1>0, <3>2 DEF GridFor
    <3>4. Grows(entry)
      BY <1>0, <2>2 DEF Grows, raftSubmit
    <3> QED
      BY <1>0, <2>2, <3>1, <3>2, <3>3, <3>4
  <2>3. CASE /\ leaderId[p] \notin {Nil, p}
             /\ Continue(c, call, [g EXCEPT !.requests =
                            With(@, SubmitId(c, n), New(1, {leaderId[p]}))], FALSE)
             /\ net' = net \cup {req} /\ UNCHANGED log
    <3>1. PICK r : r = New(1, {leaderId[p]})
      OBVIOUS
    <3>2. PICK h : h = [g EXCEPT !.requests = With(@, SubmitId(c, n), r)]
      OBVIOUS
    <3>3. IsPending(r)
      BY <1>0, <3>1 DEF New, IsPending
    <3>4. /\ IsGrid(h) /\ DOMAIN h.requests = DOMAIN g.requests \cup {SubmitId(c, n)}
          /\ \A id \in DOMAIN g.requests : id # SubmitId(c, n) => h.requests[id] = g.requests[id]
          /\ h.requests[SubmitId(c, n)] = r
      BY <1>0, <3>2 DEF IsGrid, GridFor, With
    <3>5. GridFor(c, call, h, FALSE)
      <4>1. DOMAIN h.requests \subseteq Calls \X Nat /\ StorageId(c) \in DOMAIN h.requests
        BY <1>0, <3>4 DEF GridFor, SubmitId
      <4>2. ASSUME NEW d \in Calls \ {c}, NEW i \in Nat
            PROVE  /\ <<d, i>> \in DOMAIN h.requests <=> <<d, i>> \in DOMAIN pendingRequests
                   /\ <<d, i>> \in DOMAIN pendingRequests => IsPending(h.requests[<<d, i>>])
        <5>1. <<d, i>> # SubmitId(c, n)
          BY <1>0 DEF SubmitId
        <5> QED
          BY <1>0, <3>4, <5>1 DEF GridFor
      <4>3. \A i \in Nat : <<c, i>> \in DOMAIN h.requests => IsPending(h.requests[<<c, i>>])
        BY <1>0, <3>3, <3>4 DEF GridFor
      <4>4. \A i \in Nat \ {0} : <<c, i>> \in DOMAIN h.requests => i = n
        BY <1>0, <3>4 DEF SubmitId
      <4> QED
        BY <1>0, <3>4, <4>1, <4>2, <4>3, <4>4 DEF GridFor
    <3>6. leaderId[p] \in Peers
      BY <1>0, <2>3 DEF LeaderOK
    <3> QED
      BY <1>0, <2>3, <3>1, <3>2, <3>5, <3>6 DEF Grows
  <2> QED
    BY <1>0, <1>1, <2>1, <2>2, <2>3 DEF Submit
<1>3. PICK x, h : \E failed \in BOOLEAN :
        /\ Continue(c, x, h, failed) /\ GridFor(c, x, h, failed)
        /\ x.source = p /\ x.request = call.request /\ Grows(entry)
        /\ net' = net \/ (net' = net \cup {req} /\ leaderId[p] \in Peers)
  BY <1>0, <1>2
<1> PICK failed \in BOOLEAN : Continue(c, x, h, failed) /\ GridFor(c, x, h, failed)
  BY <1>0, <1>3
<1>4. PICK k : Continued(c, x, h, failed, k)
  BY <1>0, ContinueOK DEF GridFor
<1>5. /\ EachCallOK'
      /\ \A d \in Calls : calls'[d].status # "idle" <=> calls[d].status # "idle" \/ d = c
      /\ \A d \in Calls :
            /\ calls'[d].source = IF d = c THEN x.source ELSE calls[d].source
            /\ calls'[d].request = IF d = c THEN x.request ELSE calls[d].request
  BY <1>0, <1>3, <1>4, CallGoesOn
<1>6. Kept
  BY <1>0, <1>3, <1>5 DEF Kept
<1>7. Begun(c, p)'
  BY <1>0, <1>3, <1>5 DEF Begun
<1>8. EntryOK(entry)'
  BY <1>0, <1>7 DEF EntryOK
<1>9. LogOK'
  <2>1. \A q \in Peers : committed'[q] \in 0 .. Len(log)
    BY DEF LogOK
  <2> QED
    BY <1>0, <1>3, <1>6, <1>8, <2>1, LogStays
<1>10. leaderId[p] \in Peers => MessageOK(req)'
  <2> SUFFICES ASSUME leaderId[p] \in Peers PROVE MessageOK(req)'
    OBVIOUS
  <2>1. /\ req.type = "SubmitMessageRequest" /\ req.id = <<c, n>> /\ req.from = p
        /\ req.to \in Peers /\ req.entry = entry
    BY <1>0, <1>1 DEF SubmitId
  <2>2. RequestOK(req)'
    BY <1>0, <1>8, <2>1 DEF RequestOK
  <2> QED
    BY <1>0, <2>1, <2>2 DEF MessageOK
<1>11. ASSUME NEW m \in net' PROVE MessageOK(m)'
  BY <1>0, <1>3, <1>6, <1>10, MessageStays DEF NetOK
<1>12. calls'[c].source = p
  BY <1>7 DEF Begun
<1> QED
  BY <1>0, <1>5, <1>6, <1>9, <1>11, <1>12 DEF NetOK

(* A call that has begun goes on.                                          *)
LEMMA BegunGoesOn ==
    ASSUME EachCallOK, InOrder, NEW c \in Calls, calls[c].status # "idle", NEW call, NEW g,
           NEW failed \in BOOLEAN, GridFor(c, call, g, failed), call.source = calls[c].source,
           call.request = calls[c].request, Continue(c, call, g, failed), UNCHANGED setting
    PROVE  EachCallOK' /\ InOrder' /\ Kept
<1>1. PICK k : Continued(c, call, g, failed, k)
  BY ContinueOK DEF GridFor
<1>2. /\ EachCallOK'
      /\ \A d \in Calls : calls'[d].status # "idle" <=> calls[d].status # "idle" \/ d = c
      /\ \A d \in Calls :
            /\ calls'[d].source = IF d = c THEN call.source ELSE calls[d].source
            /\ calls'[d].request = IF d = c THEN call.request ELSE calls[d].request
  BY <1>1, CallGoesOn
<1>3. InOrder'
  BY <1>2 DEF InOrder
<1>4. Kept
  BY <1>2 DEF Kept
<1> QED
  BY <1>2, <1>3, <1>4

\* The requests that are pending, and of which call
Now == Grid(pendingRequests, pendingResponses)

\* A grid with the same requests is one that a waiting call can go on with.
LEMMA SameForCall ==
    ASSUME EachCallOK, NEW c \in Calls, calls[c].status = "waiting", NEW g, SameRequests(Now, g)
    PROVE  GridFor(c, calls[c], g, FALSE)
<1>1. DOMAIN g.requests = DOMAIN pendingRequests /\ IsGrid(g)
  BY DEF SameRequests, Now, Grid
<1>2. \A d \in Calls, n \in Nat : <<d, n>> \in DOMAIN g.requests => IsPending(g.requests[<<d, n>>])
  <2> SUFFICES ASSUME NEW d \in Calls, NEW n \in Nat, <<d, n>> \in DOMAIN pendingRequests
               PROVE  IsPending(g.requests[<<d, n>>])
    BY <1>1
  <2>1. IsPending(pendingRequests[<<d, n>>])
    BY DEF EachCallOK, CallOK
  <2> QED
    BY <2>1 DEF SameRequests, Now, Grid
<1>3. CallOK(c) /\ DOMAIN pendingRequests \subseteq Calls \X Nat
  BY DEF EachCallOK
<1> QED
  BY <1>1, <1>2, <1>3 DEF GridFor, CallOK

(* The calls stay, and the same requests are pending.                      *)
LEMMA SameCalls ==
    ASSUME EachCallOK, InOrder, UNCHANGED <<setting, calls>>,
           DOMAIN pendingRequests' = DOMAIN pendingRequests,
           \A id \in DOMAIN pendingRequests : IsPending(pendingRequests[id]) => IsPending(pendingRequests'[id])
    PROVE  EachCallOK' /\ InOrder' /\ Kept
<1>1. ASSUME NEW c \in Calls PROVE CallOK(c)'
  <2>1. CallOK(c)
    BY DEF EachCallOK
  <2> QED
    BY <2>1 DEF CallOK
<1>2. InOrder'
  BY DEF InOrder
<1> QED
  BY <1>1, <1>2 DEF EachCallOK, Kept

(* Log and messages are none but those that there were.                    *)
LEMMA NothingNew ==
    ASSUME Kept, LogOK, NetOK, UNCHANGED <<log, committed>>, net' \subseteq net
    PROVE  LogOK' /\ NetOK'
<1>1. NetOK'
  BY MessageStays DEF NetOK
<1>2. LogOK'
  BY MessageStays DEF LogOK
<1> QED
  BY <1>1, <1>2

(* What the peers know of the leader stays.                                *)
LEMMA LeaderStays ==
    ASSUME LeaderOK, UNCHANGED <<setting, leader, elections, leaderId, learnt>> PROVE LeaderOK'
  BY DEF LeaderOK

-----------------------------------------------------------------------------
(* The steps.                                                              *)

(* The books are in order at first.                                        *)
LEMMA BookInit == Init => Book
<1> SUFFICES ASSUME Init PROVE Book
  OBVIOUS
<1>0. setting \in Settings /\ setting.peers \subseteq Peers /\ setting.leader \in Peers /\ setting.elections \in Nat
  BY GridAssumption DEF Init
<1>1. LeaderOK
  BY <1>0 DEF Init, LeaderOK
<1>2. LogOK
  BY DEF Init, LogOK
<1>3. DOMAIN pendingRequests = {}
  BY DEF Init, NoEntries
<1>4. IsCall(NoCall) /\ NoCall.status = "idle"
  BY DEF IsCall, NoCall
<1>5. ASSUME NEW c \in Calls PROVE calls[c] = NoCall /\ CallOK(c)
  <2>1. calls[c] = NoCall
    BY DEF Init
  <2> QED
    BY <1>3, <1>4, <2>1 DEF CallOK
<1>6. DOMAIN calls = Calls
  BY DEF Init
<1>7. InOrder
  <2>1. 0 \in 0 .. MaxCalls /\ \A c \in Calls : ~(c <= 0)
    BY GridAssumption DEF Calls
  <2> QED
    BY <1>4, <1>5, <2>1 DEF InOrder
<1>8. NetOK
  BY DEF Init, NetOK
<1> QED
  BY <1>1, <1>2, <1>3, <1>5, <1>6, <1>7, <1>8 DEF Book, EachCallOK

\* p submits the next call.
First(p, c, call, entry, g) ==
    /\ Submittable(p, c, call, entry, 1, g) /\ Submit(p, c, call, entry, 1, g)
    /\ entry.type = "storage"
    /\ calls[c].status = "idle" /\ \A d \in Calls : calls[d].status # "idle" <=> d <= c - 1
    /\ \A id \in DOMAIN g.requests : id \in DOMAIN pendingRequests \/ id[1] = c
    /\ g = Grid(With(pendingRequests, StorageId(c), New(0, AnyPeers)), pendingResponses)
    /\ UNCHANGED <<setting, leader, elections, leaderId, learnt, committed>>

(* A new call is the next one, and is submitted for the first time.        *)
LEMMA InvokeSubmits ==
    ASSUME setting \in Settings, Book, NEW p \in Peers, NEW o \in setting.operations, Invoke(p, o)
    PROVE  \E c, call, entry, g : First(p, c, call, entry, g)
<1>1. PICK c : c = Cardinality({x \in Calls : calls[x].status # "idle"}) + 1
  OBVIOUS
<1>2. PICK n \in 0 .. MaxCalls : \A d \in Calls : calls[d].status # "idle" <=> d <= n
  BY DEF Book, InOrder
<1>3. c = n + 1
  <2>1. {x \in Calls : calls[x].status # "idle"} = 1 .. n
    BY <1>2, GridAssumption DEF Calls
  <2>2. Cardinality(1 .. n) = n
    BY <1>2, FS_Interval
  <2> QED
    BY <1>1, <2>1, <2>2
<1>4. PICK call, entry, g :
        /\ call = [NoCall EXCEPT !.status = "waiting", !.source = p, !.request = o]
        /\ entry = [type |-> "storage", id |-> StorageId(c), call |-> c, source |-> p, to |-> Nil]
        /\ g = Grid(With(pendingRequests, StorageId(c), New(0, AnyPeers)), pendingResponses)
  OBVIOUS
<1>5. /\ c \in 1 .. setting.calls /\ Submit(p, c, call, entry, 1, g)
      /\ UNCHANGED <<setting, leader, elections, leaderId, learnt, committed>>
  BY <1>1, <1>4 DEF Invoke
<1>6. c \in Calls /\ calls[c].status = "idle"
  <2>1. setting.calls \in 0 .. MaxCalls
    BY GridAssumption
  <2>2. c \in Calls /\ ~(c <= n)
    BY <1>2, <1>3, <1>5, <2>1, GridAssumption DEF Calls
  <2> QED
    BY <1>2, <2>2
<1>7. /\ IsCall(call) /\ call.status = "waiting" /\ call.source = p /\ ~call.submitted
      /\ call.request = o
  BY <1>4 DEF IsCall, NoCall
<1>8. PICK r : r = New(0, AnyPeers)
  OBVIOUS
<1>9. IsPending(r)
  BY <1>8 DEF IsPending, New
<1>10. /\ IsGrid(g) /\ DOMAIN g.requests = DOMAIN pendingRequests \cup {StorageId(c)}
       /\ \A id \in DOMAIN pendingRequests : id # StorageId(c) => g.requests[id] = pendingRequests[id]
       /\ g.requests[StorageId(c)] = r
  BY <1>4, <1>8 DEF IsGrid, Grid, With
<1>11. \A i \in Nat : <<c, i>> \notin DOMAIN pendingRequests
  BY <1>6 DEF Book, EachCallOK, CallOK
<1>12. \A i \in Nat \ {0} : <<c, i>> \notin DOMAIN g.requests
  BY <1>10, <1>11 DEF StorageId
<1>13. GridFor(c, call, g, FALSE)
  <2>1. DOMAIN g.requests \subseteq Calls \X Nat /\ StorageId(c) \in DOMAIN g.requests
    BY <1>6, <1>10 DEF Book, EachCallOK, StorageId
  <2>2. ASSUME NEW d \in Calls \ {c}, NEW i \in Nat
        PROVE  /\ <<d, i>> \in DOMAIN g.requests <=> <<d, i>> \in DOMAIN pendingRequests
               /\ <<d, i>> \in DOMAIN pendingRequests => IsPending(g.requests[<<d, i>>])
    <3>1. <<d, i>> # StorageId(c)
      BY DEF StorageId
    <3> QED
      BY <1>10, <3>1 DEF Book, EachCallOK, CallOK
  <2>3. \A i \in Nat : <<c, i>> \in DOMAIN g.requests => IsPending(g.requests[<<c, i>>])
    BY <1>9, <1>10, <1>11
  <2> QED
    BY <1>7, <1>10, <1>12, <2>1, <2>2, <2>3 DEF GridFor
<1>14. entry \in Entries /\ entry.call = c /\ entry.source = p /\ entry.type = "storage"
  BY <1>4, <1>6 DEF Entries
<1>15. Submittable(p, c, call, entry, 1, g)
  <2>1. 1 \in Nat \ {0} /\ (entry.type = "submission" => entry.id[2] < 1)
    BY <1>14
  <2>2. p \in Peers /\ call.source = p /\ ~call.submitted
    BY <1>7
  <2> QED
    BY <1>6, <1>12, <1>13, <1>14, <2>1, <2>2 DEF Submittable
<1>16. \A id \in DOMAIN g.requests : id \in DOMAIN pendingRequests \/ id[1] = c
  BY <1>10 DEF StorageId
<1>17. \A d \in Calls : calls[d].status # "idle" <=> d <= c - 1
  BY <1>2, <1>3
<1>18. First(p, c, call, entry, g)
  BY <1>4, <1>5, <1>6, <1>14, <1>15, <1>16, <1>17 DEF First
<1> QED
  BY <1>18

(* A new call keeps the books in order.                                    *)
LEMMA InvokeBook ==
    ASSUME setting \in Settings, Book, NEW p \in Peers, NEW o \in setting.operations, Invoke(p, o)
    PROVE  Book' /\ Kept
<1>1. PICK c, call, entry, g : First(p, c, call, entry, g)
  BY InvokeSubmits
<1>2. /\ c \in Calls /\ Submittable(p, c, call, entry, 1, g) /\ Submit(p, c, call, entry, 1, g)
      /\ \A d \in Calls : calls[d].status # "idle" <=> d <= c - 1
      /\ UNCHANGED <<setting, leader, elections, leaderId, learnt, committed>>
  BY <1>1 DEF First, Submittable
<1>3. /\ EachCallOK' /\ LogOK' /\ NetOK' /\ Kept
      /\ \A d \in Calls : calls'[d].status # "idle" <=> calls[d].status # "idle" \/ d = c
  BY <1>2, SubmitBook DEF Book
<1>4. InOrder'
  <2>1. \A d \in Calls : calls'[d].status # "idle" <=> d <= c
    BY <1>2, <1>3 DEF Calls
  <2>2. c \in 0 .. MaxCalls
    BY <1>2, GridAssumption DEF Calls
  <2> QED
    BY <2>1, <2>2 DEF InOrder
<1>5. LeaderOK'
  BY <1>2, LeaderStays DEF Book
<1> QED
  BY <1>3, <1>4, <1>5 DEF Book

(* Only the call c goes on, by what it waits for itself.                    *)
LEMMA OnlyCallBook ==
    ASSUME Book, NEW c \in Calls, calls[c].status # "idle", NEW call, NEW g, NEW failed \in BOOLEAN,
           GridFor(c, call, g, failed), call.source = calls[c].source, call.request = calls[c].request,
           Continue(c, call, g, failed),
           UNCHANGED <<setting, raft, committed>>, net' \subseteq net
    PROVE  Book' /\ Kept
<1>1. EachCallOK' /\ InOrder' /\ Kept
  BY BegunGoesOn DEF Book
<1>2. LogOK' /\ NetOK'
  BY <1>1, NothingNew DEF Book, raft
<1>3. LeaderOK'
  BY LeaderStays DEF Book, raft
<1> QED
  BY <1>1, <1>2, <1>3 DEF Book

(* No call goes on, but timeouts may be postponed.                          *)
LEMMA NoCallBook ==
    ASSUME Book, UNCHANGED <<setting, raft, committed, calls>>,
           \A m \in net' : m \in net \/ m.type = "OngoingRequestsNotification" \/ m.type = "response",
           DOMAIN pendingRequests' = DOMAIN pendingRequests,
           \A id \in DOMAIN pendingRequests : IsPending(pendingRequests[id]) => IsPending(pendingRequests'[id])
    PROVE  Book' /\ Kept
<1>1. EachCallOK' /\ InOrder' /\ Kept
  BY SameCalls DEF Book
<1>2. LogOK'
  BY <1>1, MessageStays DEF Book, raft, LogOK
<1>3. ASSUME NEW m \in net' PROVE MessageOK(m)'
  <2>1. CASE m \in net
    BY <1>1, <2>1, MessageStays DEF Book, NetOK
  <2>2. CASE m.type = "OngoingRequestsNotification" \/ m.type = "response"
    BY <2>2 DEF MessageOK
  <2> QED
    BY <2>1, <2>2
<1>4. LeaderOK'
  BY LeaderStays DEF Book, raft
<1> QED
  BY <1>1, <1>2, <1>3, <1>4 DEF Book, NetOK

(* Postponements keep them in order.                                       *)
LEMMA PostponeBook ==
    ASSUME Book, NEW S,
           pendingRequests' = [id \in DOMAIN pendingRequests |->
                IF id \in S THEN postponeTimeout(pendingRequests[id]) ELSE pendingRequests[id]],
           UNCHANGED <<setting, raft, committed, calls>>,
           \A m \in net' : m \in net \/ m.type = "OngoingRequestsNotification"
    PROVE  Book' /\ Kept
<1>1. DOMAIN pendingRequests' = DOMAIN pendingRequests
  OBVIOUS
<1>2. ASSUME NEW id \in DOMAIN pendingRequests, IsPending(pendingRequests[id])
      PROVE  IsPending(pendingRequests'[id])
  BY <1>2, PostponeTimeoutOK
<1> QED
  BY <1>1, <1>2, NoCallBook

\* So do the notifications that a peer sends, of which its own requests learn at once,
LEMMA NotifyBook ==
    ASSUME Book, NEW p \in Peers, Notify(p) PROVE Book' /\ Kept
<1>1. PICK S : /\ pendingRequests' = [id \in DOMAIN pendingRequests |->
                    IF id \in S THEN postponeTimeout(pendingRequests[id]) ELSE pendingRequests[id]]
               /\ UNCHANGED <<setting, raft, committed, calls>>
  BY DEF Notify
<1>2. \A m \in net' : m \in net \/ m.type = "OngoingRequestsNotification"
  BY DEF Notify
<1> QED
  BY <1>1, <1>2, PostponeBook

(* those that arrive,                                                      *)
LEMMA ReceiveOngoingBook ==
    ASSUME Book, NEW m \in net, ReceiveOngoing(m) PROVE Book' /\ Kept
<1>1. PICK S : /\ pendingRequests' = [id \in DOMAIN pendingRequests |->
                    IF id \in S THEN postponeTimeout(pendingRequests[id]) ELSE pendingRequests[id]]
               /\ UNCHANGED <<setting, raft, committed, calls>>
  BY DEF ReceiveOngoing
<1>2. \A x \in net' : x \in net
  BY DEF ReceiveOngoing
<1> QED
  BY <1>1, <1>2, PostponeBook

(* and responses.                                                          *)
LEMMA ReceiveResponseBook ==
    ASSUME Book, NEW m \in net, ReceiveResponse(m) PROVE Book' /\ Kept
<1>1. PICK c, g : c = m.id[1] /\ g = processResponse(Now, m)
  OBVIOUS
<1>2. SameRequests(Now, g)
  BY <1>1, ProcessResponseOK DEF IsGrid, Now, Grid
<1>3. UNCHANGED <<setting, raft, committed>> /\ net' \subseteq net
  BY DEF ReceiveResponse
<1>4. CASE m.id \in DOMAIN pendingRequests
  <2>1. c \in Calls /\ calls[c].status = "waiting"
    BY <1>1, <1>4 DEF Book, EachCallOK, CallOK
  <2>2. Continue(c, calls[c], g, FALSE)
    BY <1>1, <1>4 DEF ReceiveResponse, Now
  <2>3. GridFor(c, calls[c], g, FALSE)
    BY <1>2, <2>1, SameForCall DEF Book
  <2> QED
    BY <1>3, <2>1, <2>2, <2>3, OnlyCallBook
<1>5. CASE m.id \notin DOMAIN pendingRequests
  <2>1. UNCHANGED <<calls, pendingRequests>>
    BY <1>5 DEF ReceiveResponse
  <2> QED
    BY <1>3, <2>1, NoCallBook
<1> QED
  BY <1>4, <1>5

-----------------------------------------------------------------------------
(* What is executed, and what was.                                         *)

TaskOK(t) ==
    /\ Begun(t.entry.call, t.entry.source)
    /\ t.entry.request = Decoded[<<calls[t.entry.call].request, t.entry.call, t.entry.source>>]
    /\ IsMap(t.read)

DoneOK(e) ==
    /\ Begun(e.entry.call, e.entry.source) /\ Executable(e.entry.request)
    /\ e.entry.request.type = calls[e.entry.call].request.type
    /\ AnswerOK(e.entry.request.type, e.answer)

Data ==
    /\ IsMap(store)
    /\ \A p \in Peers : \A t \in Todo(executor[p]) : TaskOK(t)
    /\ \A i \in 1 .. Len(executed) : DoneOK(executed[i])

(* A task executes the request of a call.                                  *)
LEMMA TaskIs ==
    ASSUME setting \in Settings, EachCallOK, NEW t, TaskOK(t)
    PROVE  /\ Executable(t.entry.request) /\ t.entry.call \in Calls
           /\ t.entry.request.type = calls[t.entry.call].request.type
<1>1. PICK c, s, o : c = t.entry.call /\ s = t.entry.source /\ o = calls[c].request
  OBVIOUS
<1>2. c \in Calls /\ s \in Peers /\ calls[c].status # "idle"
  BY <1>1 DEF TaskOK, Begun
<1>3. o \in Operations
  BY <1>1, <1>2 DEF EachCallOK, CallOK, Operations
<1>4. t.entry.request = Decoded[<<o, c, s>>]
  BY <1>1 DEF TaskOK
<1> QED
  BY <1>1, <1>2, <1>3, <1>4, DecodedOK

\* Tasks and executions stay as they should be as long as the calls keep their requests.
LEMMA TaskStays ==
    ASSUME Kept
    PROVE  /\ \A t : TaskOK(t) => TaskOK(t)'
           /\ \A e : DoneOK(e) => DoneOK(e)'
<1>1. ASSUME NEW t, TaskOK(t) PROVE TaskOK(t)'
  BY <1>1 DEF TaskOK, Begun, Kept
<1>2. ASSUME NEW e, DoneOK(e) PROVE DoneOK(e)'
  BY <1>2 DEF DoneOK, Begun, Kept
<1> QED
  BY <1>1, <1>2

(* Nothing is done.                                                        *)
LEMMA DataStays ==
    ASSUME Data, Kept, UNCHANGED <<store, executor, executed>> PROVE Data'
  BY TaskStays DEF Data

(* The executor of p gets what it had, or t.                                *)
LEMMA DataMoves ==
    ASSUME Inv, Data, Kept, NEW p \in Peers, NEW y, executor' = [executor EXCEPT ![p] = y],
           NEW t, TaskOK(t), \A u \in Todo(y) : u \in Todo(executor[p]) \/ u = t,
           UNCHANGED <<store, executed>>
    PROVE  Data'
<1>1. executor'[p] = y /\ \A q \in Peers : q # p => executor'[q] = executor[q]
  BY DEF Inv
<1>2. ASSUME NEW q \in Peers, NEW u \in Todo(executor'[q]) PROVE TaskOK(u)'
  <2>1. TaskOK(u)
    BY <1>1, <1>2 DEF Data
  <2> QED
    BY <2>1, TaskStays
<1>3. \A i \in 1 .. Len(executed) : DoneOK(executed[i])'
  BY TaskStays DEF Data
<1> QED
  BY <1>2, <1>3 DEF Data

(* Nothing is there to do at first.                                        *)
LEMMA InitData == Init => Data
<1> SUFFICES ASSUME Init PROVE Data
  OBVIOUS
<1>1. ASSUME NEW p \in Peers PROVE Todo(executor[p]) = {}
  <2>1. executor[p].tasks = <<>> /\ executor[p].running = {}
    BY DEF Init, NewExecutor
  <2> QED
    BY <2>1 DEF Todo, Waiting
<1>2. IsMap(store)
  BY FS_EmptySet DEF Init, NoEntries, IsMap
<1>3. Len(executed) = 0
  BY DEF Init
<1> QED
  BY <1>1, <1>2, <1>3 DEF Data

(* A commit starts the request of the call, decoded.                       *)
LEMMA CommitData ==
    ASSUME Inv, Book, Data, Kept, NEW p \in Peers, Commit(p) PROVE Data'
<1>1. PICK i, x, e : i = committed[p] + 1 /\ x = executor[p] /\ e = log[i]
  OBVIOUS
<1>2. PICK t : t = Task(i, [call |-> e.call, source |-> e.source,
                            request |-> Decoded[<<calls[e.call].request, e.call, e.source>>]])
  OBVIOUS
<1>3. UNCHANGED <<store, executed>>
  BY DEF Commit
<1>4. \/ executor' = executor
      \/ e.type = "storage" /\ executor' = [executor EXCEPT ![p] = execute(x, t)]
  BY <1>1, <1>2 DEF Commit
<1>5. CASE executor' = executor
  BY <1>3, <1>5, DataStays
<1>6. CASE executor' = [executor EXCEPT ![p] = execute(x, t)]
  <2>1. i \in 1 .. Len(log)
    <3>1. committed[p] \in 0 .. Len(log) /\ committed[p] < Len(log) /\ Len(log) \in Nat
      BY DEF Book, LogOK, Commit, CommitNext
    <3> QED
      BY <1>1, <3>1
  <2>2. EntryOK(e)
    BY <1>1, <2>1 DEF Book, LogOK
  <2>3. /\ t.entry = [call |-> e.call, source |-> e.source,
                      request |-> Decoded[<<calls[e.call].request, e.call, e.source>>]]
        /\ t.read = NoEntries
    BY <1>2 DEF Task
  <2>4. TaskOK(t)
    <3>1. IsMap(t.read)
      BY <2>3, FS_EmptySet DEF IsMap, NoEntries
    <3> QED
      BY <2>2, <2>3, <3>1 DEF TaskOK, EntryOK
  <2>5. WellOrdered(x)
    BY <1>1 DEF Inv, PeerInOrder
  <2>6. \A u \in Todo(execute(x, t)) : u \in Todo(x) \/ u = t
    BY <2>5, ExecuteStarts DEF Todo
  <2> QED
    BY <1>1, <1>3, <1>6, <2>4, <2>6, DataMoves
<1> QED
  BY <1>4, <1>5, <1>6

(* A failure ends a task.                                                  *)
LEMMA FailData ==
    ASSUME Inv, Data, Kept, NEW p \in Peers, FailExternal(p) PROVE Data'
<1>1. PICK x : x = executor[p]
  OBVIOUS
<1>2. WellOrdered(x)
  BY <1>1 DEF Inv, PeerInOrder
<1>3. PICK t \in x.running : executor' = [executor EXCEPT ![p] = postProcess(x, t)]
  BY <1>1 DEF FailExternal
<1>4. TaskOK(t)
  BY <1>1 DEF Data, Todo
<1>5. \A u \in Todo(postProcess(x, t)) : u \in Todo(x)
  BY <1>2, PostProcessStarts DEF Todo
<1>6. UNCHANGED <<store, executed>>
  BY DEF FailExternal
<1> QED
  BY <1>1, <1>3, <1>4, <1>5, <1>6, DataMoves

(* A task reads a finite map.                                              *)
LEMMA ReadData ==
    ASSUME Inv, Data, Kept, NEW p \in Peers, ReadExternal(p) PROVE Data'
<1>1. PICK x : x = executor[p]
  OBVIOUS
<1>2. WellOrdered(x)
  BY <1>1 DEF Inv, PeerInOrder
<1>3. PICK t \in x.running :
        /\ executor' = [executor EXCEPT ![p].running = (@ \ {t}) \cup {Read(store, t)}]
        /\ UNCHANGED <<store, executed>>
  BY <1>1 DEF ReadExternal
<1>4. PICK u, y : u = Read(store, t) /\ y = [x EXCEPT !.running = (@ \ {t}) \cup {u}]
  OBVIOUS
<1>5. IsTask(t) /\ TaskOK(t)
  BY <1>1, <1>2 DEF WellOrdered, Data, Todo
<1>6. u.entry = t.entry /\ u.read = Only(store, DOMAIN t.entry.request.entries)
  BY <1>4, <1>5 DEF Read, IsTask
<1>7. TaskOK(u)
  <2>1. IsMap(u.read)
    BY <1>6, MapsOK DEF Data
  <2> QED
    BY <1>5, <1>6, <2>1 DEF TaskOK
<1>8. \A v \in Todo(y) : v \in Todo(x) \/ v = u
  <2>1. y.running = (x.running \ {t}) \cup {u} /\ y.tasks = x.tasks
    BY <1>2, <1>4 DEF WellOrdered, IsExecutor
  <2> QED
    BY <2>1 DEF Todo, Waiting
<1>9. executor' = [executor EXCEPT ![p] = y]
  BY <1>1, <1>3, <1>4
<1> QED
  BY <1>1, <1>3, <1>7, <1>8, <1>9, DataMoves

(* A task writes a finite map, and its answer is one.                      *)
LEMMA WriteKeepsData ==
    ASSUME Inv, Book, Data, Kept, NEW p \in Peers, WriteExternal(p) PROVE Data'
<1>1. PICK x : x = executor[p]
  OBVIOUS
<1>2. WellOrdered(x)
  BY <1>1 DEF Inv, PeerInOrder
<1>3. PICK t \in x.running :
        /\ store' = Write(store, t).store
        /\ executed' = Append(executed, [index |-> t.index, by |-> p, entry |-> t.entry,
                                         answer |-> Write(store, t).answer])
        /\ executor' = [executor EXCEPT ![p] = postProcess(x, t)]
  BY <1>1 DEF WriteExternal
<1>4. PICK e, y : /\ e = [index |-> t.index, by |-> p, entry |-> t.entry, answer |-> Write(store, t).answer]
                  /\ y = postProcess(x, t)
  OBVIOUS
<1>5. TaskOK(t)
  BY <1>1 DEF Data, Todo
<1>6. /\ Executable(t.entry.request)
      /\ t.entry.request.type = calls[t.entry.call].request.type
  BY <1>5, TaskIs DEF Book, Inv
<1>7. IsMap(store') /\ AnswerOK(t.entry.request.type, e.answer)
  BY <1>3, <1>4, <1>5, <1>6, WriteData DEF Data, TaskOK
<1>8. DoneOK(e)
  BY <1>4, <1>5, <1>6, <1>7 DEF DoneOK, TaskOK
<1>9. executor'[p] = y /\ \A q \in Peers : q # p => executor'[q] = executor[q]
  BY <1>3, <1>4 DEF Inv
<1>10. ASSUME NEW q \in Peers, NEW u \in Todo(executor'[q]) PROVE TaskOK(u)'
  <2>1. \A v \in Todo(y) : v \in Todo(x)
    BY <1>2, <1>4, PostProcessStarts DEF Todo
  <2>2. TaskOK(u)
    BY <1>1, <1>9, <1>10, <2>1 DEF Data
  <2> QED
    BY <2>2, TaskStays
<1>11. ASSUME NEW i \in 1 .. Len(executed') PROVE DoneOK(executed[i])'
  <2>1. /\ Len(executed) \in Nat /\ Len(executed') = Len(executed) + 1
        /\ \A j \in 1 .. Len(executed) : executed'[j] = executed[j]
        /\ executed'[Len(executed) + 1] = e
    BY <1>3, <1>4 DEF Inv
  <2>2. PICK d : d = executed'[i]
    OBVIOUS
  <2>3. DoneOK(d)
    <3>1. CASE i \in 1 .. Len(executed)
      BY <2>1, <2>2, <3>1 DEF Data
    <3>2. CASE i = Len(executed) + 1
      BY <1>8, <2>1, <2>2, <3>2
    <3> QED
      BY <1>11, <2>1, <3>1, <3>2
  <2>4. DoneOK(d)'
    BY <2>3, TaskStays
  <2> QED
    BY <2>2, <2>4
<1> QED
  BY <1>7, <1>10, <1>11 DEF Data

\* The chunks of the response to a request r that was answered with a
ChunksOf(r, a) == Chunker!apply(Response(r, a), setting.outbound, setting.outbound)

(* The response to an executed request is cut properly.                    *)
LEMMA ChunksAre ==
    ASSUME setting \in Settings, NEW r, Executable(r), NEW a, AnswerOK(r.type, a)
    PROVE  /\ HasLists(Response(r, a)) /\ setting.outbound \in Nat
           /\ \/ ChunksOf(r, a) = <<Chunker!Whole(Response(r, a))>>
              \/ \E N : Cut(Response(r, a), setting.outbound, N, ChunksOf(r, a))
           /\ \E N \in Nat : DOMAIN ChunksOf(r, a) = 1 .. N
<1>1. PICK e : e = Response(r, a)
  OBVIOUS
<1>2. InLists(ListsOf(e), r.type, a)
  BY <1>1, ResponseLists
<1>3. HasLists(e)
  <2>1. PICK f : f = ListsOf(e)
    OBVIOUS
  <2>2. f.keys = e.keys /\ f.values = e.values
    BY <2>1 DEF ListsOf
  <2>3. InLists(f, r.type, a)
    BY <1>2, <2>1
  <2> QED
    BY <2>2, <2>3 DEF HasLists, InLists
<1>4. setting.outbound \in Nat
  BY GridAssumption
<1>5. \/ ChunksOf(r, a) = <<Chunker!Whole(e)>>
      \/ \E N : Cut(e, setting.outbound, N, ChunksOf(r, a))
  BY <1>1, <1>3, <1>4, ApplyIs DEF ChunksOf
<1>6. \E N \in Nat : DOMAIN ChunksOf(r, a) = 1 .. N
  <2>1. CASE ChunksOf(r, a) = <<Chunker!Whole(e)>>
    <3>1. DOMAIN <<Chunker!Whole(e)>> = 1 .. 1
      OBVIOUS
    <3> QED
      BY <2>1, <3>1
  <2>2. CASE \E N : Cut(e, setting.outbound, N, ChunksOf(r, a))
    <3>1. PICK N : Cut(e, setting.outbound, N, ChunksOf(r, a))
      BY <2>2
    <3>2. N \in Nat /\ DOMAIN ChunksOf(r, a) = 1 .. N
      BY <3>1 DEF Cut
    <3> QED
      BY <3>2
  <2> QED
    BY <1>5, <2>1, <2>2
<1> QED
  BY <1>1, <1>3, <1>4, <1>5, <1>6

\* The messages ms are the response of p to call c.
AreResponses(ms, p, c, r, a) ==
    /\ Len(ms) \in Nat /\ DOMAIN ms = 1 .. Len(ms) /\ DOMAIN ms = DOMAIN ChunksOf(r, a)
    /\ \A i \in DOMAIN ms : ms[i] = [type |-> "response", id |-> StorageId(c), from |-> p,
                                     response |-> ChunksOf(r, a)[i]]

(* The messages of a response carry its chunks.                            *)
LEMMA ResponsesAre ==
    ASSUME setting \in Settings, NEW r, Executable(r), NEW a, AnswerOK(r.type, a), NEW p, NEW c
    PROVE  AreResponses(Responses(p, c, r, a), p, c, r, a)
<1>1. PICK ch, ms : ch = ChunksOf(r, a) /\ ms = Responses(p, c, r, a)
  OBVIOUS
<1>2. PICK N \in Nat : DOMAIN ch = 1 .. N
  BY <1>1, ChunksAre
<1>3. ms = [i \in DOMAIN ch |-> [type |-> "response", id |-> StorageId(c), from |-> p, response |-> ch[i]]]
  BY <1>1 DEF Responses, ChunksOf
<1>4. \A i \in 1 .. N : ms[i] \in {ms[j] : j \in 1 .. N}
  OBVIOUS
<1>5. ms \in Seq({ms[j] : j \in 1 .. N}) /\ Len(ms) = N
  <2>1. PICK T : T = {ms[j] : j \in 1 .. N}
    OBVIOUS
  <2>2. ms \in [1 .. N -> T]
    <3>1. \A i \in 1 .. N : ms[i] \in T
      BY <2>1
    <3>2. ms = [i \in 1 .. N |-> ms[i]]
      BY <1>2, <1>3
    <3> QED
      BY <3>1, <3>2
  <2>3. ms \in Seq(T) /\ Len(ms) = N
    BY <2>2
  <2> QED
    BY <2>1, <2>3
<1> QED
  BY <1>1, <1>2, <1>3, <1>5 DEF AreResponses

(* A write, with which the caller may settle, keeps the books in order.    *)
LEMMA WriteBook ==
    ASSUME Inv, Book, Data, NEW p \in Peers, WriteExternal(p) PROVE Book' /\ Kept
<1>1. PICK t \in executor[p].running :
        LET c == t.entry.call
            chunks == Responses(p, c, t.entry.request, Write(store, t).answer)
            g == ProcessAll(Now, chunks)
        IN  /\ UNCHANGED <<setting, raft, committed>>
            /\ \/ /\ net' = net \cup {chunks[i] : i \in DOMAIN chunks}
                  /\ UNCHANGED <<calls, grid>>
               \/ /\ StorageId(c) \in DOMAIN pendingRequests
                  /\ Continue(c, calls[c], g, FALSE)
                  /\ UNCHANGED net
               \/ UNCHANGED <<calls, pendingRequests, net>>
  BY DEF WriteExternal, Now
<1>2. PICK c, chunks, g : /\ c = t.entry.call
                          /\ chunks = Responses(p, c, t.entry.request, Write(store, t).answer)
                          /\ g = ProcessAll(Now, chunks)
  OBVIOUS
<1>3. Len(chunks) \in Nat /\ \A i \in DOMAIN chunks : chunks[i].type = "response"
  <2>1. TaskOK(t)
    BY DEF Data, Todo
  <2>2. Executable(t.entry.request) /\ setting \in Settings
    BY <2>1, TaskIs DEF Book, Inv
  <2>3. AnswerOK(t.entry.request.type, Write(store, t).answer)
    BY <2>1, <2>2, WriteData DEF Data, TaskOK
  <2>4. PICK r, a : r = t.entry.request /\ a = Write(store, t).answer
    OBVIOUS
  <2>5. chunks = Responses(p, c, r, a) /\ Executable(r) /\ AnswerOK(r.type, a)
    BY <1>2, <2>2, <2>3, <2>4
  <2>6. AreResponses(chunks, p, c, r, a)
    BY <2>2, <2>5, ResponsesAre
  <2> QED
    BY <2>6 DEF AreResponses
<1>4. CASE net' = net \cup {chunks[i] : i \in DOMAIN chunks} /\ UNCHANGED <<calls, grid>>
  <2>1. \A m \in net' : m \in net \/ m.type = "response"
    BY <1>3, <1>4
  <2>2. pendingRequests' = pendingRequests /\ UNCHANGED <<setting, raft, committed, calls>>
    BY <1>1, <1>4 DEF grid
  <2>3. \A m \in net' : m \in net \/ m.type = "OngoingRequestsNotification" \/ m.type = "response"
    BY <2>1
  <2> QED
    BY <2>2, <2>3, NoCallBook
<1>5. CASE StorageId(c) \in DOMAIN pendingRequests /\ Continue(c, calls[c], g, FALSE) /\ UNCHANGED net
  <2>1. c \in Calls /\ calls[c].status = "waiting"
    BY <1>5 DEF Book, EachCallOK, CallOK, StorageId
  <2>2. SameRequests(Now, g)
    BY <1>2, <1>3, ProcessAllOK DEF IsGrid, Now, Grid
  <2>3. GridFor(c, calls[c], g, FALSE)
    BY <2>1, <2>2, SameForCall DEF Book
  <2>4. UNCHANGED <<setting, raft, committed>> /\ net' \subseteq net
    BY <1>1, <1>5
  <2> QED
    BY <1>5, <2>1, <2>3, <2>4, OnlyCallBook
<1>6. CASE UNCHANGED <<calls, pendingRequests, net>>
  BY <1>1, <1>6, NoCallBook
<1> QED
  BY <1>1, <1>2, <1>4, <1>5, <1>6

(* A step that is none of the grid's business keeps them in order.         *)
LEMMA QuietBook ==
    ASSUME Book, UNCHANGED <<setting, raft, committed, calls, pendingRequests>>, net' \subseteq net
    PROVE  Book' /\ Kept
<1>1. \A m \in net' : m \in net
  OBVIOUS
<1> QED
  BY <1>1, NoCallBook

(* A timer that fires keeps them in order.                                 *)
LEMMA ExpireBook ==
    ASSUME Book, NEW id \in DOMAIN pendingRequests, Expire(id) PROVE Book' /\ Kept
<1>1. PICK c \in Calls, n \in Nat : id = <<c, n>> /\ c = id[1]
  BY DEF Book, EachCallOK
<1>2. calls[c].status = "waiting" /\ IsPending(pendingRequests[id]) /\ CallOK(c)
  BY <1>1 DEF Book, EachCallOK, CallOK
<1>3. PICK r : r = expire(pendingRequests[id])
  OBVIOUS
<1>4. IsPending(r) /\ r.remotePeers = pendingRequests[id].remotePeers
  BY <1>2, <1>3, ExpireOK
<1>5. PICK g : g = Grid([pendingRequests EXCEPT ![id] = r], pendingResponses)
  OBVIOUS
<1>6. SameRequests(Now, g)
  BY <1>4, <1>5 DEF SameRequests, Now, Grid, IsGrid
<1>7. UNCHANGED <<setting, raft, committed>> /\ net' \subseteq net
  BY DEF Expire
<1>8. CASE id # StorageId(c) /\ completed(r)
  <2>1. PICK h : h = [g EXCEPT !.requests = Without(@, {id})]
    OBVIOUS
  <2>2. Continue(c, calls[c], h, TRUE)
    BY <1>1, <1>3, <1>5, <1>8, <2>1 DEF Expire
  <2>3. GridFor(c, calls[c], g, FALSE)
    BY <1>1, <1>2, <1>6, SameForCall DEF Book
  <2>4. IsGrid(h) /\ h.requests = Without(g.requests, {id})
    BY <1>5, <2>1 DEF IsGrid, Grid
  <2>5. /\ DOMAIN h.requests = DOMAIN g.requests \ {id}
        /\ \A x \in DOMAIN h.requests : h.requests[x] = g.requests[x]
    BY <2>4 DEF Without
  <2>6. GridFor(c, calls[c], h, TRUE)
    <3>1. \A m \in Nat \ {0} : <<c, m>> \notin DOMAIN h.requests
      <4> SUFFICES ASSUME NEW m \in Nat \ {0}, <<c, m>> \in DOMAIN h.requests PROVE FALSE
        OBVIOUS
      <4>1. n # 0
        BY <1>1, <1>8 DEF StorageId
      <4>2. <<c, m>> \in DOMAIN g.requests /\ <<c, m>> # id
        BY <2>5
      <4>3. id \in DOMAIN g.requests
        BY <1>5 DEF Grid
      <4>4. m = n
        BY <1>1, <2>3, <4>1, <4>2, <4>3 DEF GridFor
      <4> QED
        BY <1>1, <4>2, <4>4
    <3>2. \A d \in Calls \ {c}, m \in Nat :
            /\ <<d, m>> \in DOMAIN h.requests <=> <<d, m>> \in DOMAIN pendingRequests
            /\ <<d, m>> \in DOMAIN pendingRequests => IsPending(h.requests[<<d, m>>])
      <4> SUFFICES ASSUME NEW d \in Calls \ {c}, NEW m \in Nat
                   PROVE  /\ <<d, m>> \in DOMAIN h.requests <=> <<d, m>> \in DOMAIN pendingRequests
                          /\ <<d, m>> \in DOMAIN pendingRequests => IsPending(h.requests[<<d, m>>])
        OBVIOUS
      <4>1. <<d, m>> # id
        BY <1>1
      <4> QED
        BY <2>3, <2>5, <4>1 DEF GridFor
    <3>3. StorageId(c) \in DOMAIN h.requests
      BY <1>8, <2>3, <2>5 DEF GridFor
    <3>4. \A m \in Nat : <<c, m>> \in DOMAIN h.requests => IsPending(h.requests[<<c, m>>])
      BY <2>3, <2>5 DEF GridFor
    <3>5. DOMAIN h.requests \subseteq Calls \X Nat
      BY <2>3, <2>5 DEF GridFor
    <3> QED
      BY <2>3, <2>4, <3>1, <3>2, <3>3, <3>4, <3>5 DEF GridFor
  <2> QED
    BY <1>1, <1>2, <1>7, <2>2, <2>6, OnlyCallBook
<1>9. CASE ~(id # StorageId(c) /\ completed(r))
  <2>1. Continue(c, calls[c], g, FALSE)
    BY <1>1, <1>3, <1>5, <1>9 DEF Expire
  <2>2. GridFor(c, calls[c], g, FALSE)
    BY <1>1, <1>2, <1>6, SameForCall DEF Book
  <2> QED
    BY <1>1, <1>2, <1>7, <2>1, <2>2, OnlyCallBook
<1> QED
  BY <1>8, <1>9

(* The leader takes in an entry, or does not.                               *)
LEMMA HandleSubmitBook ==
    ASSUME Book, NEW p \in Peers, NEW id \in Calls \X (Nat \ {0}), NEW entry, EntryOK(entry), NEW to,
           HandleSubmit(p, id, entry, to), Begun(id[1], to),
           \A m \in net' : m \in net \/ m = SubmitResponse(p, id, to),
           UNCHANGED <<setting, leader, elections, leaderId, learnt, calls, grid>>,
           \A q \in Peers : committed'[q] \in 0 .. Len(log)
    PROVE  Book' /\ Kept
<1>1. EachCallOK' /\ InOrder' /\ Kept
  BY SameCalls DEF Book, grid
<1>2. Grows(entry)
  BY DEF HandleSubmit, raftSubmit, Grows
<1>3. EntryOK(entry)'
  BY <1>1, MessageStays
<1>4. LogOK'
  BY <1>1, <1>2, <1>3, LogStays DEF Book
<1>5. PICK r : r = SubmitResponse(p, id, to)
  OBVIOUS
<1>6. MessageOK(r)
  <2>1. r.type = "SubmitMessageResponse" /\ r.id = id /\ r.from = p /\ r.to = to /\ r.success \in BOOLEAN
    BY <1>5 DEF SubmitResponse, isLeader
  <2>2. ResponseOK(r)
    BY <2>1 DEF ResponseOK
  <2> QED
    BY <2>1, <2>2 DEF MessageOK
<1>7. ASSUME NEW m \in net' PROVE MessageOK(m)'
  <2>1. MessageOK(m)
    BY <1>5, <1>6 DEF Book, NetOK
  <2> QED
    BY <1>1, <2>1, MessageStays
<1>8. LeaderOK'
  BY LeaderStays DEF Book
<1> QED
  BY <1>1, <1>4, <1>7, <1>8 DEF Book, NetOK

(* A submission that arrives keeps them in order.                          *)
LEMMA ReceiveSubmitBook ==
    ASSUME Book, NEW m \in net, ReceiveSubmit(m) PROVE Book' /\ Kept
<1>1. RequestOK(m)
  BY DEF Book, NetOK, MessageOK, ReceiveSubmit
<1>2. /\ m.id \in Calls \X (Nat \ {0}) /\ m.to \in Peers /\ EntryOK(m.entry)
      /\ Begun(m.id[1], m.from)
  BY <1>1 DEF RequestOK, EntryOK
<1>3. /\ HandleSubmit(m.to, m.id, m.entry, m.from)
      /\ \A x \in net' : x \in net \/ x = SubmitResponse(m.to, m.id, m.from)
      /\ UNCHANGED <<setting, leader, elections, leaderId, learnt, calls, grid, committed>>
  BY DEF ReceiveSubmit
<1>4. \A q \in Peers : committed'[q] \in 0 .. Len(log)
  BY <1>3 DEF Book, LogOK
<1> QED
  BY <1>2, <1>3, <1>4, HandleSubmitBook

(* A commit, maybe of a submission, keeps them in order.                   *)
LEMMA CommitBook ==
    ASSUME Inv, Book, NEW p \in Peers, Commit(p) PROVE Book' /\ Kept
<1>1. PICK i, e : i = committed[p] + 1 /\ e = log[i]
  OBVIOUS
<1>2. /\ committed[p] \in 0 .. Len(log) /\ committed[p] < Len(log) /\ Len(log) \in Nat
      /\ committed' = [committed EXCEPT ![p] = i]
  BY <1>1 DEF Book, LogOK, Commit, CommitNext
<1>3. i \in 1 .. Len(log) /\ EntryOK(e)
  BY <1>1, <1>2 DEF Book, LogOK
<1>4. \A q \in Peers : committed'[q] \in 0 .. Len(log)
  BY <1>2, <1>3 DEF Book, LogOK, Inv
<1>5. UNCHANGED <<setting, leader, elections, leaderId, learnt, calls, grid>>
  BY DEF Commit
<1>6. CASE UNCHANGED <<log, net>>
  <2>1. EachCallOK' /\ InOrder' /\ Kept
    BY <1>5, SameCalls DEF Book, grid
  <2>2. LogOK'
    <3>1. EntryOK(e)'
      BY <1>3, <2>1, MessageStays
    <3> QED
      BY <1>4, <1>6, <2>1, <3>1, LogStays DEF Book, Grows
  <2>3. NetOK'
    BY <1>6, <2>1, MessageStays DEF Book, NetOK
  <2>4. LeaderOK'
    BY <1>5, LeaderStays DEF Book
  <2> QED
    BY <2>1, <2>2, <2>3, <2>4 DEF Book
<1>7. CASE /\ e.type = "submission" /\ p = e.to
           /\ HandleSubmit(p, e.id, StorageEntry(e.call), e.source)
           /\ net' = net \cup {SubmitResponse(p, e.id, e.source)}
  <2>1. /\ e.id \in Calls \X (Nat \ {0}) /\ e.id[1] = e.call /\ Begun(e.call, e.source)
    BY <1>3, <1>7 DEF EntryOK, Entries, SubmitId
  <2>2. EntryOK(StorageEntry(e.call))
    BY <2>1 DEF EntryOK, StorageEntry, Entries, Begun
  <2>3. \A m \in net' : m \in net \/ m = SubmitResponse(p, e.id, e.source)
    BY <1>7
  <2> QED
    BY <1>4, <1>5, <1>7, <2>1, <2>2, <2>3, HandleSubmitBook
<1> QED
  BY <1>1, <1>6, <1>7 DEF Commit

(* The connection of p closes.                                              *)
LEMMA CloseBook ==
    ASSUME Book, NEW p \in Peers, Close(p) PROVE Book' /\ Kept
<1> DEFINE mine == {c \in Calls : calls[c].source = p /\ StorageId(c) \in DOMAIN pendingRequests}
           rejectedNow == {c \in mine : calls[c].submitted}
           ids == {StorageId(c) : c \in mine}
<1>1. /\ UNCHANGED <<setting, raft, committed, net>>
      /\ calls' = [c \in Calls |-> IF c \in rejectedNow
                                   THEN [calls[c] EXCEPT !.status = "rejected"] ELSE calls[c]]
      /\ pendingRequests' = [id \in DOMAIN pendingRequests \ {StorageId(c) : c \in rejectedNow} |->
                IF id \in ids THEN reject(pendingRequests[id]) ELSE pendingRequests[id]]
  BY DEF Close
<1>2. rejectedNow \subseteq Calls /\ \A c \in rejectedNow : calls[c].submitted /\ StorageId(c) \in DOMAIN pendingRequests
  OBVIOUS
<1> HIDE DEF mine, rejectedNow, ids
<1>3. ASSUME NEW c \in Calls
      PROVE  /\ CallOK(c)'
             /\ calls'[c].source = calls[c].source /\ calls'[c].request = calls[c].request
             /\ calls'[c].status # "idle" <=> calls[c].status # "idle"
  <2>1. PICK k : k = calls'[c]
    OBVIOUS
  <2>2. CallOK(c)
    BY DEF Book, EachCallOK
  <2>3. \A n \in Nat : <<c, n>> \in DOMAIN pendingRequests' =>
            <<c, n>> \in DOMAIN pendingRequests /\ IsPending(pendingRequests'[<<c, n>>])
    <3> SUFFICES ASSUME NEW n \in Nat, <<c, n>> \in DOMAIN pendingRequests'
                 PROVE  <<c, n>> \in DOMAIN pendingRequests /\ IsPending(pendingRequests'[<<c, n>>])
      OBVIOUS
    <3>1. /\ <<c, n>> \in DOMAIN pendingRequests
          /\ pendingRequests'[<<c, n>>] \in {reject(pendingRequests[<<c, n>>]), pendingRequests[<<c, n>>]}
      BY <1>1
    <3>2. IsPending(pendingRequests[<<c, n>>])
      BY <2>2, <3>1 DEF CallOK
    <3>3. IsPending(reject(pendingRequests[<<c, n>>]))
      BY <3>2, RejectOK
    <3> QED
      BY <3>1, <3>2, <3>3
  <2>4. CASE c \in rejectedNow
    <3>1. k = [calls[c] EXCEPT !.status = "rejected"]
      BY <1>1, <2>1, <2>4
    <3>2. calls[c].submitted /\ StorageId(c) \in DOMAIN pendingRequests
      BY <1>2, <2>4
    <3>3. calls[c].status = "waiting" /\ IsCall(calls[c]) /\ calls[c].request \in setting.operations
      BY <2>2, <3>2 DEF CallOK, StorageId
    <3>4. /\ IsCall(k) /\ k.source = calls[c].source /\ k.request = calls[c].request
          /\ k.status = "rejected"
      BY <3>1, <3>3 DEF IsCall
    <3>5. StorageId(c) \notin DOMAIN pendingRequests'
      BY <1>1, <2>4
    <3>6. \A n \in Nat : <<c, n>> \notin DOMAIN pendingRequests'
      <4> SUFFICES ASSUME NEW n \in Nat, <<c, n>> \in DOMAIN pendingRequests' PROVE FALSE
        OBVIOUS
      <4>1. <<c, n>> \in DOMAIN pendingRequests
        BY <2>3
      <4>2. n # 0
        BY <3>5 DEF StorageId
      <4> QED
        BY <2>2, <3>2, <4>1, <4>2 DEF CallOK
    <3>7. \A n \in Nat \ {0} : <<c, n>> \notin DOMAIN pendingRequests'
      BY <3>6
    <3>8. IsCall(calls'[c]) /\ calls'[c].request \in setting'.operations /\ calls'[c].status = "rejected"
      BY <1>1, <2>1, <3>3, <3>4
    <3>9. CallOK(c)'
      BY <3>6, <3>7, <3>8 DEF CallOK
    <3> QED
      BY <2>1, <3>3, <3>4, <3>9
  <2>5. CASE c \notin rejectedNow
    <3>1. calls'[c] = calls[c]
      BY <1>1, <2>5
    <3>2. StorageId(c) \in DOMAIN pendingRequests => StorageId(c) \in DOMAIN pendingRequests'
      <4>1. \A d \in rejectedNow : StorageId(d) # StorageId(c)
        BY <2>5 DEF StorageId
      <4> QED
        BY <1>1, <4>1
    <3>3. CallOK(c)'
      BY <1>1, <2>2, <2>3, <3>1, <3>2 DEF CallOK
    <3> QED
      BY <3>1, <3>3
  <2> QED
    BY <2>4, <2>5
<1>4. EachCallOK' /\ InOrder' /\ Kept
  <2>1. DOMAIN calls' = Calls /\ DOMAIN pendingRequests' \subseteq Calls \X Nat
    BY <1>1 DEF Book, EachCallOK
  <2>2. EachCallOK'
    BY <1>3, <2>1 DEF EachCallOK
  <2>3. InOrder'
    BY <1>3 DEF Book, InOrder
  <2>4. Kept
    BY <1>1, <1>3 DEF Kept
  <2> QED
    BY <2>2, <2>3, <2>4
<1>5. LogOK' /\ NetOK'
  BY <1>1, <1>4, NothingNew DEF Book, raft
<1>6. LeaderOK'
  BY <1>1, LeaderStays DEF Book, raft
<1> QED
  BY <1>4, <1>5, <1>6 DEF Book

(* An election takes away entries, but no committed one.                   *)
LEMMA ElectBook ==
    ASSUME Inv, Book, NEW p \in Peers, Elect(p) PROVE Book' /\ Kept
<1>1. /\ UNCHANGED <<setting, committed, calls, grid, net>>
      /\ leader' = p /\ elections' = elections + 1 /\ leaderId' = [leaderId EXCEPT ![p] = p]
      /\ learnt' = [learnt EXCEPT ![p] = elections'] /\ elections < setting.elections
  BY DEF Elect
<1>2. PICK n : /\ n \in {committed[q] : q \in Peers} \cup {Len(log)}
               /\ \A q \in Peers : committed[q] <= n
               /\ log' = SubSeq(log, 1, n)
  BY DEF Elect
<1>3. n \in 0 .. Len(log) /\ Len(log) \in Nat
  BY <1>2 DEF Book, LogOK
<1>4. EachCallOK' /\ InOrder' /\ Kept
  BY <1>1, SameCalls DEF Book, grid
<1>5. /\ log' \in Seq(Entries) /\ Len(log') = n
      /\ \A i \in 1 .. n : i \in 1 .. Len(log) /\ log'[i] = log[i]
  BY <1>2, <1>3 DEF Book, LogOK
<1>6. ASSUME NEW i \in 1 .. Len(log') PROVE EntryOK(log[i])'
  <2>1. PICK e : e = log[i]
    OBVIOUS
  <2>2. EntryOK(e) /\ log'[i] = e
    BY <1>5, <2>1 DEF Book, LogOK
  <2>3. EntryOK(e)'
    BY <1>4, <2>2, MessageStays
  <2> QED
    BY <2>2, <2>3
<1>7. \A q \in Peers : committed'[q] \in 0 .. Len(log')
  BY <1>1, <1>2, <1>3, <1>5 DEF Book, LogOK
<1>8. LogOK'
  BY <1>5, <1>6, <1>7 DEF LogOK
<1>9. NetOK'
  BY <1>1, <1>4, MessageStays DEF Book, NetOK
<1>10. LeaderOK'
  <2>1. setting \in Settings /\ setting.elections \in Nat
    BY GridAssumption DEF Inv
  <2>2. elections \in Nat /\ elections' \in 0 .. setting.elections
    BY <1>1, <2>1 DEF Book, LeaderOK
  <2>3. /\ leaderId' \in [Peers -> Peers \cup {Nil}] /\ leaderId'[leader'] = leader'
        /\ learnt' \in [Peers -> Nat]
    BY <1>1, <2>2 DEF Book, LeaderOK
  <2>4. ASSUME NEW q \in Peers
        PROVE  /\ learnt'[q] <= elections'
               /\ learnt'[q] = elections' => leaderId'[q] \in {Nil, leader'}
    <3>1. CASE q = p
      BY <1>1, <2>2, <3>1 DEF Book, LeaderOK
    <3>2. CASE q # p
      <4>1. learnt'[q] = learnt[q] /\ learnt[q] <= elections /\ learnt[q] \in Nat
        BY <1>1, <3>2 DEF Book, LeaderOK
      <4> QED
        BY <1>1, <2>2, <4>1
    <3> QED
      BY <3>1, <3>2
  <2> QED
    BY <1>1, <2>2, <2>3, <2>4 DEF LeaderOK
<1> QED
  BY <1>4, <1>8, <1>9, <1>10 DEF Book

(* A peer that learns of the leader keeps the books in order.              *)
LEMMA LearnLeaderBook ==
    ASSUME Book, NEW p \in Peers, LearnLeader(p) PROVE Book' /\ Kept
<1>1. /\ UNCHANGED <<setting, leader, elections, log, committed, calls, grid, net>>
      /\ leaderId[p] # leader
  BY DEF LearnLeader
<1>2. PICK l \in {leader, Nil} :
        /\ leaderId' = [leaderId EXCEPT ![p] = l]
        /\ learnt' = [learnt EXCEPT ![p] = IF l = leader THEN elections ELSE @]
  BY DEF LearnLeader
<1>3. EachCallOK' /\ InOrder' /\ Kept
  BY <1>1, SameCalls DEF Book, grid
<1>4. LogOK' /\ NetOK'
  BY <1>1, <1>3, NothingNew DEF Book
<1>5. LeaderOK'
  <2>1. p # leader /\ elections \in Nat
    BY <1>1 DEF Book, LeaderOK
  <2>2. /\ leaderId' \in [Peers -> Peers \cup {Nil}] /\ leaderId'[leader] = leader
        /\ learnt' \in [Peers -> Nat]
    BY <1>2, <2>1 DEF Book, LeaderOK
  <2>3. ASSUME NEW q \in Peers
        PROVE  /\ learnt'[q] <= elections
               /\ learnt'[q] = elections => leaderId'[q] \in {Nil, leader}
    <3>1. CASE q = p
      BY <1>2, <2>1, <3>1 DEF Book, LeaderOK
    <3>2. CASE q # p
      BY <1>2, <3>2 DEF Book, LeaderOK
    <3> QED
      BY <3>1, <3>2
  <2> QED
    BY <1>1, <2>2, <2>3 DEF Book, LeaderOK
<1> QED
  BY <1>3, <1>4, <1>5 DEF Book

(* A call that goes on leaves no request pending that was not.             *)
LEMMA ContinueKeeps ==
    ASSUME NEW c, NEW call, NEW g, IsGrid(g), NEW failed, Continue(c, call, g, failed)
    PROVE  DOMAIN pendingRequests' \subseteq DOMAIN g.requests
<1>1. PICK x : x = Forget(g, StorageId(c))
  OBVIOUS
<1>2. x.requests = Without(g.requests, {StorageId(c)})
  BY <1>1 DEF Forget, IsGrid
<1>3. purgeResponseForRequest(x, StorageId(c)).requests = x.requests
  BY <1>1 DEF purgeResponseForRequest, Forget, IsGrid
<1>4. pendingRequests' = g.requests \/ pendingRequests' = x.requests
  BY <1>1, <1>3 DEF Continue
<1> QED
  BY <1>2, <1>4 DEF Without

(* The answer to a submission.                                             *)
\* The answer m to the submission before the n-th leads to another one.
Resubmits(m, c, n, entry, g) ==
    /\ Submittable(m.to, c, calls[c], entry, n, g) /\ Submit(m.to, c, calls[c], entry, n, g)
    /\ m.id = <<c, n - 1>> /\ m.id \in DOMAIN pendingRequests /\ n > 1 /\ m.from \in Peers
    /\ ~m.success /\ m.leaderId \notin {Nil, m.from} /\ m.leaderId = leaderId[m.to]
    /\ entry = Wrapped(c, n - 1, m.from)
    /\ DOMAIN g.requests \subseteq DOMAIN pendingRequests
    /\ g = Grid(Without(pendingRequests, {m.id}), pendingResponses)
    /\ UNCHANGED <<setting, leader, elections, leaderId, learnt, committed>>

\* It ends the submission: the call x, which is calls[c] with the outcome, goes on.
Ends(m, c, x, g, failed) ==
    /\ c = m.id[1] /\ x.submitted = m.success
    /\ c \in Calls /\ IsCall(x) /\ x.status = "waiting" /\ Continue(c, x, g, failed)
    /\ g = Grid(Without(pendingRequests, {m.id}), pendingResponses)
    /\ StorageId(c) \in DOMAIN g.requests

(* The answer to a submission ends it, or leads to another one.            *)
LEMMA ReceiveSubmitResponseDoes ==
    ASSUME Book, NEW m \in net, ReceiveSubmitResponse(m)
    PROVE  \/ /\ UNCHANGED <<calls, grid>> \/ \E c, x, g, failed : Ends(m, c, x, g, failed)
              /\ Book' /\ Kept /\ UNCHANGED <<raft, committed, handed>> /\ net' \subseteq net
              /\ DOMAIN pendingRequests' \subseteq DOMAIN pendingRequests
           \/ \E c, n, entry, g : Resubmits(m, c, n, entry, g)
<1>1. PICK c, n, g : /\ c = m.id[1] /\ n = m.id[2]
                     /\ g = Grid(Without(pendingRequests, {m.id}), pendingResponses)
  OBVIOUS
<1>2. ResponseOK(m)
  BY DEF Book, NetOK, MessageOK, ReceiveSubmitResponse
<1>3. /\ c \in Calls /\ n \in Nat \ {0} /\ m.id = <<c, n>> /\ Begun(c, m.to)
      /\ m.from \in Peers /\ m.success \in BOOLEAN
  BY <1>1, <1>2 DEF ResponseOK
<1>4. UNCHANGED <<setting, leader, elections, leaderId, learnt, committed>>
  BY DEF ReceiveSubmitResponse
<1>5. IsGrid(g) /\ DOMAIN g.requests \subseteq DOMAIN pendingRequests
  BY <1>1 DEF Grid, IsGrid, Without
<1>6. CASE m.id \notin DOMAIN pendingRequests /\ net' = net \ {m} /\ UNCHANGED <<calls, grid, log, handed>>
  <2>1. UNCHANGED <<setting, raft, committed, calls, pendingRequests>> /\ net' \subseteq net
    BY <1>4, <1>6 DEF raft, grid
  <2> QED
    BY <1>6, <2>1, QuietBook
<1>7. ASSUME m.id \in DOMAIN pendingRequests
      PROVE  /\ calls[c].status = "waiting" /\ ~calls[c].submitted
             /\ \A i \in Nat \ {0} : <<c, i>> \notin DOMAIN g.requests
             /\ GridFor(c, calls[c], g, TRUE)
  <2>1. CallOK(c)
    BY <1>3 DEF Book, EachCallOK
  <2>2. calls[c].status = "waiting" /\ ~calls[c].submitted /\ IsCall(calls[c])
        /\ calls[c].request \in setting.operations
    BY <1>3, <1>7, <2>1 DEF CallOK
  <2>3. /\ IsGrid(g) /\ DOMAIN g.requests = DOMAIN pendingRequests \ {<<c, n>>}
        /\ \A id \in DOMAIN g.requests : g.requests[id] = pendingRequests[id]
    BY <1>1, <1>3 DEF Grid, IsGrid, Without
  <2>4. \A i \in Nat \ {0} : <<c, i>> \notin DOMAIN g.requests
    BY <1>3, <1>7, <2>1, <2>3 DEF CallOK
  <2>5. StorageId(c) \in DOMAIN g.requests /\ DOMAIN g.requests \subseteq Calls \X Nat
    BY <1>3, <2>1, <2>2, <2>3 DEF CallOK, Book, EachCallOK, StorageId
  <2>6. ASSUME NEW d \in Calls \ {c}, NEW i \in Nat
        PROVE  /\ <<d, i>> \in DOMAIN g.requests <=> <<d, i>> \in DOMAIN pendingRequests
               /\ <<d, i>> \in DOMAIN pendingRequests => IsPending(g.requests[<<d, i>>])
    BY <2>3 DEF Book, EachCallOK, CallOK
  <2>7. \A i \in Nat : <<c, i>> \in DOMAIN g.requests => IsPending(g.requests[<<c, i>>])
    BY <2>1, <2>3 DEF CallOK
  <2> QED
    BY <2>2, <2>3, <2>4, <2>5, <2>6, <2>7 DEF GridFor
<1>8. CASE /\ m.id \in DOMAIN pendingRequests /\ net' = net \ {m} /\ UNCHANGED <<log, handed>>
           /\ Continue(c, [calls[c] EXCEPT !.submitted = m.success], g, ~m.success)
  <2>1. PICK x : x = [calls[c] EXCEPT !.submitted = m.success]
    OBVIOUS
  <2>2. PICK failed \in BOOLEAN : failed = ~m.success
    BY <1>3
  <2>3. /\ IsCall(x) /\ x.status = "waiting" /\ x.source = calls[c].source
        /\ x.request = calls[c].request /\ x.submitted = m.success
    BY <1>3, <1>7, <1>8, <2>1 DEF GridFor, IsCall
  <2>4. GridFor(c, x, g, failed)
    BY <1>7, <1>8, <2>3 DEF GridFor
  <2>5. UNCHANGED <<setting, raft, committed>> /\ net' \subseteq net
    BY <1>4, <1>8 DEF raft
  <2>6. calls[c].status # "idle"
    BY <1>7, <1>8
  <2>7. DOMAIN pendingRequests' \subseteq DOMAIN pendingRequests
    BY <1>5, <1>8, ContinueKeeps
  <2>8. Continue(c, x, g, failed)
    BY <1>8, <2>1, <2>2
  <2>9. Ends(m, c, x, g, failed)
    BY <1>1, <1>3, <2>3, <2>4, <2>8 DEF Ends, GridFor
  <2> QED
    BY <1>3, <1>8, <2>2, <2>3, <2>4, <2>5, <2>6, <2>7, <2>8, <2>9, OnlyCallBook
<1>9. CASE /\ m.id \in DOMAIN pendingRequests /\ ~m.success
           /\ m.leaderId \notin {Nil, m.from} /\ m.leaderId = leaderId[m.to]
           /\ Submit(m.to, c, calls[c], Wrapped(c, n, m.from), n + 1, g)
  <2>1. PICK entry : entry = Wrapped(c, n, m.from)
    OBVIOUS
  <2>2. /\ entry \in Entries /\ entry.call = c /\ entry.source = m.to
        /\ entry.type = "submission" => entry.id[2] < n + 1
    BY <1>3, <2>1 DEF Wrapped, SubmitId, Entries, Begun
  <2>3. GridFor(c, calls[c], g, FALSE)
    BY <1>7, <1>9 DEF GridFor
  <2>4. m.to \in Peers /\ calls[c].source = m.to /\ n + 1 \in Nat \ {0}
    BY <1>3 DEF Begun
  <2>5. Submittable(m.to, c, calls[c], entry, n + 1, g)
    BY <1>3, <1>7, <1>9, <2>2, <2>3, <2>4 DEF Submittable
  <2>6. (n + 1) - 1 = n /\ n + 1 > 1
    BY <1>3
  <2>7. Resubmits(m, c, n + 1, entry, g)
    BY <1>1, <1>3, <1>4, <1>5, <1>9, <2>1, <2>5, <2>6 DEF Resubmits
  <2> QED
    BY <2>7
<1> QED
  BY <1>1, <1>6, <1>8, <1>9 DEF ReceiveSubmitResponse

(* In both cases the books are in order.                                   *)
LEMMA ReceiveSubmitResponseBook ==
    ASSUME Book, NEW m \in net, ReceiveSubmitResponse(m) PROVE Book' /\ Kept
<1> SUFFICES ASSUME NEW c, NEW n, NEW entry, NEW g, Resubmits(m, c, n, entry, g) PROVE Book' /\ Kept
  BY ReceiveSubmitResponseDoes
<1>1. /\ Submittable(m.to, c, calls[c], entry, n, g) /\ Submit(m.to, c, calls[c], entry, n, g)
      /\ UNCHANGED <<setting, leader, elections, leaderId, learnt, committed>>
      /\ c \in Calls /\ calls[c].status = "waiting"
  BY DEF Resubmits, Submittable, GridFor
<1>2. /\ EachCallOK' /\ LogOK' /\ NetOK' /\ Kept
      /\ \A d \in Calls : calls'[d].status # "idle" <=> calls[d].status # "idle" \/ d = c
  BY <1>1, SubmitBook DEF Book
<1>3. InOrder'
  BY <1>1, <1>2 DEF Book, InOrder
<1>4. LeaderOK'
  BY <1>1, LeaderStays DEF Book
<1> QED
  BY <1>2, <1>3, <1>4 DEF Book

(* Every step keeps the books in order, and what calls are.                *)
LEMMA BookStep == Inv /\ Book /\ Data /\ [Next]_vars => Book' /\ Kept
<1> SUFFICES ASSUME Inv, Book, Data, [Next]_vars PROVE Book' /\ Kept
  OBVIOUS
<1>1. setting \in Settings /\ setting.peers \subseteq Peers
  BY GridAssumption DEF Inv
<1>2. CASE UNCHANGED vars
  <2>1. UNCHANGED <<setting, raft, committed, calls, pendingRequests>> /\ net' \subseteq net
    BY <1>2 DEF vars, grid
  <2> QED
    BY <2>1, QuietBook
<1>3. ASSUME NEW p \in Peers, NEW o \in setting.operations, Invoke(p, o) PROVE Book' /\ Kept
  BY <1>1, <1>3, InvokeBook
<1>4. ASSUME NEW id \in DOMAIN pendingRequests, Expire(id) PROVE Book' /\ Kept
  BY <1>4, ExpireBook
<1>5. ASSUME NEW m \in net,
             \/ ReceiveSubmit(m) \/ ReceiveSubmitResponse(m) \/ ReceiveOngoing(m)
             \/ ReceiveResponse(m)
      PROVE  Book' /\ Kept
  BY <1>5, ReceiveSubmitBook, ReceiveSubmitResponseBook, ReceiveOngoingBook, ReceiveResponseBook
<1>6. ASSUME NEW m \in net, Lose(m) PROVE Book' /\ Kept
  <2>1. UNCHANGED <<setting, raft, committed, calls, pendingRequests>> /\ net' \subseteq net
    BY <1>6 DEF Lose, grid
  <2> QED
    BY <2>1, QuietBook
<1>7. ASSUME NEW p \in Peers, ReadExternal(p) \/ FailExternal(p) PROVE Book' /\ Kept
  <2>1. UNCHANGED <<setting, raft, committed, calls, pendingRequests>> /\ net' \subseteq net
    BY <1>7 DEF ReadExternal, FailExternal, grid
  <2> QED
    BY <2>1, QuietBook
<1>8. ASSUME NEW p \in Peers,
             \/ Notify(p) \/ Elect(p) \/ LearnLeader(p) \/ Commit(p) \/ WriteExternal(p) \/ Close(p)
      PROVE  Book' /\ Kept
  BY <1>8, NotifyBook, ElectBook, LearnLeaderBook, CommitBook, WriteBook, CloseBook
<1> QED
  BY <1>1, <1>2, <1>3, <1>4, <1>5, <1>6, <1>7, <1>8 DEF Next

(* Every step keeps what is executed as it should be.                      *)
LEMMA DataStep == Inv /\ Book /\ Data /\ [Next]_vars => Data'
<1> SUFFICES ASSUME Inv, Book, Data, [Next]_vars PROVE Data'
  OBVIOUS
<1> DEFINE Same == UNCHANGED <<store, executor, executed>>
<1>0. Kept
  BY BookStep
<1>1. setting.peers \subseteq Peers
  BY GridAssumption DEF Inv
<1>2. CASE UNCHANGED vars
  <2>1. Same
    BY <1>2 DEF vars, remote
  <2> QED
    BY <1>0, <2>1, DataStays
<1>3. ASSUME NEW p \in Peers, NEW o, Invoke(p, o) PROVE Data'
  <2>1. Same
    BY <1>3 DEF Invoke, remote
  <2> QED
    BY <1>0, <2>1, DataStays
<1>4. ASSUME NEW id, Expire(id) PROVE Data'
  <2>1. Same
    BY <1>4 DEF Expire, remote
  <2> QED
    BY <1>0, <2>1, DataStays
<1>5. ASSUME NEW m, \/ ReceiveSubmit(m) \/ ReceiveSubmitResponse(m) \/ ReceiveOngoing(m)
                    \/ ReceiveResponse(m) \/ Lose(m)
      PROVE  Data'
  <2>1. Same
    BY <1>5 DEF ReceiveSubmit, ReceiveSubmitResponse, ReceiveOngoing, ReceiveResponse, Lose, remote
  <2> QED
    BY <1>0, <2>1, DataStays
<1>6. ASSUME NEW p \in Peers, Notify(p) \/ Elect(p) \/ LearnLeader(p) \/ Close(p) PROVE Data'
  <2>1. Same
    BY <1>6 DEF Notify, Elect, LearnLeader, Close, remote
  <2> QED
    BY <1>0, <2>1, DataStays
<1>7. ASSUME NEW p \in Peers,
             Commit(p) \/ ReadExternal(p) \/ WriteExternal(p) \/ FailExternal(p)
      PROVE  Data'
  BY <1>0, <1>7, CommitData, ReadData, WriteKeepsData, FailData
<1> QED
  BY <1>1, <1>2, <1>3, <1>4, <1>5, <1>6, <1>7 DEF Next

(* So they are in every state.                                             *)
LEMMA BookAlways == Spec => [](Inv /\ Book /\ Data)
<1>1. Init => Inv /\ Book /\ Data
  BY InitOK, BookInit, InitData
<1>2. Inv /\ Book /\ Data /\ [Next]_vars => (Inv /\ Book /\ Data)'
  BY NextOK, BookStep, DataStep
<1> QED
  BY <1>1, <1>2, PTL DEF Spec

(* Nothing waits for an answer that nobody awaits.  In every state, what   *)
(* is pending belongs to a call that waits: its storage request, and one   *)
(* submission at most.                                                     *)
THEOREM NothingPendsInVain == Spec => []PendingIsAwaited
<1>1. Book => PendingIsAwaited
  <2> SUFFICES ASSUME Book, NEW id \in DOMAIN pendingRequests
               PROVE  calls[id[1]].status = "waiting"
    BY DEF PendingIsAwaited
  <2>1. PICK c \in Calls, n \in Nat : id = <<c, n>>
    BY DEF Book, EachCallOK
  <2> QED
    BY <2>1 DEF Book, EachCallOK, CallOK
<1> QED
  BY <1>1, BookAlways, PTL

-----------------------------------------------------------------------------
(* What a step does to submissions.                                        *)

IsSubmission(m) == m.type \in {"SubmitMessageRequest", "SubmitMessageResponse"}

\* Nothing is submitted; requests may end, messages be lost, entries be committed.
NothingSubmitted ==
    /\ DOMAIN pendingRequests' \subseteq DOMAIN pendingRequests
    /\ \A m \in net' : IsSubmission(m) => m \in net
    /\ UNCHANGED <<log, leader, elections, leaderId, learnt>>
    /\ \A p \in Peers : committed[p] <= committed'[p]

\* A leader changes, or is learnt.
LeaderMoves ==
    /\ \E p \in Peers : Elect(p) \/ LearnLeader(p)
    /\ UNCHANGED <<pendingRequests, net, committed>>

\* A peer takes in a message,
TakesMessage(m) ==
    /\ m.type = "SubmitMessageRequest"
    /\ net' = (net \ {m}) \cup {SubmitResponse(m.to, m.id, m.from)}
    /\ log' = log \/ (log' = Append(log, m.entry) /\ isLeader(m.to))
    /\ UNCHANGED <<pendingRequests, committed, leader, elections, leaderId, learnt>>

\* or a committed submission.
TakesEntry(p, e) ==
    /\ committed[p] < Len(log) /\ e = log[committed[p] + 1] /\ e.type = "submission" /\ e.to = p
    /\ committed' = [committed EXCEPT ![p] = @ + 1]
    /\ net' = net \cup {SubmitResponse(p, e.id, e.source)}
    /\ log' = log \/ log' = Append(log, StorageEntry(e.call))
    /\ UNCHANGED <<pendingRequests, leader, elections, leaderId, learnt>>

\* Call c of p is submitted for the n-th time.
Again(p, c, n, entry, m) ==
    /\ calls[c].source = p /\ <<c, n - 1>> \in DOMAIN pendingRequests
    /\ m.type = "SubmitMessageResponse" /\ m.id = <<c, n - 1>> /\ ~m.success
    /\ m.leaderId \notin {Nil, m.from} /\ m.leaderId = leaderId[p]
    /\ entry = Wrapped(c, n - 1, m.from) /\ m.from \in Peers

Submits(p, c, n, entry) ==
    /\ p \in Peers /\ c \in Calls /\ n \in Nat \ {0} /\ entry.call = c
    /\ calls'[c].source = p
    /\ \/ n = 1 /\ calls[c].status = "idle" /\ entry.type = "storage"
       \/ n > 1 /\ \E m \in net : Again(p, c, n, entry, m)
    /\ \A id \in DOMAIN pendingRequests' : id \in DOMAIN pendingRequests \/ id[1] = c
    /\ \A i \in Nat \ {0} : <<c, i>> \in DOMAIN pendingRequests' => i = n
    /\ \/ net' = net /\ (log' = log \/ log' = Append(log, entry))
          /\ <<c, n>> \notin DOMAIN pendingRequests'
       \/ /\ net' = net \cup {[type |-> "SubmitMessageRequest", id |-> SubmitId(c, n),
                               from |-> p, to |-> leaderId[p], entry |-> entry]}
          /\ log' = log /\ leaderId[p] # Nil
    /\ UNCHANGED <<committed, leader, elections, leaderId, learnt>>

(* A step that leaves log, leader and submissions submits nothing.         *)
LEMMA QuietSubmitsNothing ==
    ASSUME Book, DOMAIN pendingRequests' \subseteq DOMAIN pendingRequests, UNCHANGED raft, UNCHANGED committed,
           \A m \in net' : IsSubmission(m) => m \in net
    PROVE  NothingSubmitted
<1>1. \A p \in Peers : committed[p] <= committed'[p]
  BY DEF Book, LogOK
<1> QED
  BY <1>1 DEF NothingSubmitted, raft

(* What is submitted by Submit.                                            *)
LEMMA SubmitSubmits ==
    ASSUME NEW p, NEW c, NEW call, NEW entry, NEW n, NEW g,
           Submittable(p, c, call, entry, n, g), Submit(p, c, call, entry, n, g),
           UNCHANGED <<committed, leader, elections, leaderId, learnt>>, calls'[c].source = p,
           \A id \in DOMAIN g.requests : id \in DOMAIN pendingRequests \/ id[1] = c,
           \/ n = 1 /\ calls[c].status = "idle" /\ entry.type = "storage"
           \/ n > 1 /\ \E m \in net : Again(p, c, n, entry, m)
    PROVE  Submits(p, c, n, entry)
<1>0. /\ p \in Peers /\ c \in Calls /\ n \in Nat \ {0} /\ IsGrid(g)
      /\ \A i \in Nat \ {0} : <<c, i>> \notin DOMAIN g.requests
      /\ entry.call = c
  BY DEF Submittable, GridFor
<1>1. CASE leaderId[p] = Nil /\ Continue(c, call, g, TRUE) /\ UNCHANGED <<log, net>>
  BY <1>0, <1>1, ContinueKeeps DEF Submits
<1>2. CASE raftSubmit(p, entry) /\ Continue(c, [call EXCEPT !.submitted = TRUE], g, FALSE) /\ UNCHANGED net
  <2>1. DOMAIN pendingRequests' \subseteq DOMAIN g.requests
    BY <1>0, <1>2, ContinueKeeps
  <2>2. log' = log \/ log' = Append(log, entry)
    BY <1>2 DEF raftSubmit
  <2> QED
    BY <1>0, <1>2, <2>1, <2>2 DEF Submits
<1>3. CASE /\ leaderId[p] \notin {Nil, p}
           /\ Continue(c, call, [g EXCEPT !.requests =
                          With(@, SubmitId(c, n), New(1, {leaderId[p]}))], FALSE)
           /\ net' = net \cup {[type |-> "SubmitMessageRequest", id |-> SubmitId(c, n),
                            from |-> p, to |-> leaderId[p], entry |-> entry]}
           /\ UNCHANGED log
  <2>1. PICK h : h = [g EXCEPT !.requests = With(@, SubmitId(c, n), New(1, {leaderId[p]}))]
    OBVIOUS
  <2>2. IsGrid(h) /\ DOMAIN h.requests = DOMAIN g.requests \cup {SubmitId(c, n)}
    BY <1>0, <2>1 DEF IsGrid, With
  <2>3. DOMAIN pendingRequests' \subseteq DOMAIN h.requests
    BY <1>3, <2>1, <2>2, ContinueKeeps
  <2>4. SubmitId(c, n) = <<c, n>>
    BY DEF SubmitId
  <2> QED
    BY <1>0, <1>3, <2>2, <2>3, <2>4 DEF Submits
<1> QED
  BY <1>1, <1>2, <1>3 DEF Submit

(* A timer that fires submits nothing,                                     *)
LEMMA ExpireSubmitsNothing ==
    ASSUME Book, NEW id \in DOMAIN pendingRequests, Expire(id) PROVE NothingSubmitted
<1>1. PICK r : r = expire(pendingRequests[id])
  OBVIOUS
<1>2. PICK g : g = Grid([pendingRequests EXCEPT ![id] = r], pendingResponses)
  OBVIOUS
<1>3. PICK h : h = [g EXCEPT !.requests = Without(@, {id})]
  OBVIOUS
<1>4. /\ IsGrid(g) /\ DOMAIN g.requests = DOMAIN pendingRequests
      /\ IsGrid(h) /\ DOMAIN h.requests \subseteq DOMAIN pendingRequests
  BY <1>2, <1>3 DEF IsGrid, Grid, Without
<1>5. Continue(id[1], calls[id[1]], h, TRUE) \/ Continue(id[1], calls[id[1]], g, FALSE)
  BY <1>1, <1>2, <1>3 DEF Expire
<1>6. DOMAIN pendingRequests' \subseteq DOMAIN pendingRequests
  BY <1>4, <1>5, ContinueKeeps
<1>7. UNCHANGED <<raft, committed, net>>
  BY DEF Expire
<1> QED
  BY <1>6, <1>7, QuietSubmitsNothing

(* nor does a response,                                                    *)
LEMMA ResponseSubmitsNothing ==
    ASSUME Book, NEW m \in net, ReceiveResponse(m) PROVE NothingSubmitted
<1>1. PICK g : g = processResponse(Now, m)
  OBVIOUS
<1>2. IsGrid(g) /\ DOMAIN g.requests = DOMAIN pendingRequests
  BY <1>1, ProcessResponseOK DEF IsGrid, Now, Grid, SameRequests
<1>3. Continue(m.id[1], calls[m.id[1]], g, FALSE) \/ UNCHANGED pendingRequests
  BY <1>1 DEF ReceiveResponse, Now
<1>4. DOMAIN pendingRequests' \subseteq DOMAIN pendingRequests
  BY <1>2, <1>3, ContinueKeeps
<1>5. UNCHANGED raft /\ UNCHANGED committed /\ \A x \in net' : x \in net
  BY DEF ReceiveResponse
<1> QED
  BY <1>4, <1>5, QuietSubmitsNothing

(* nor a notification,                                                     *)
LEMMA NotifySubmitsNothing ==
    ASSUME Book,
           \/ \E p \in Peers : Notify(p)
           \/ \E m \in net : ReceiveOngoing(m)
    PROVE  NothingSubmitted
<1>1. UNCHANGED raft /\ UNCHANGED committed /\ DOMAIN pendingRequests' = DOMAIN pendingRequests
  BY DEF Notify, ReceiveOngoing
<1>2. \A m \in net' : m \in net \/ m.type = "OngoingRequestsNotification"
  BY DEF Notify, ReceiveOngoing
<1>3. \A m \in net' : IsSubmission(m) => m \in net
  BY <1>2 DEF IsSubmission
<1> QED
  BY <1>1, <1>3, QuietSubmitsNothing

(* The chunks that a peer answers with are responses.                      *)
LEMMA WriteDoes ==
    ASSUME Inv, Book, Data, NEW p \in Peers, NEW t \in executor[p].running
    PROVE  AreResponses(Responses(p, t.entry.call, t.entry.request, Write(store, t).answer),
                        p, t.entry.call, t.entry.request, Write(store, t).answer)
<1>1. TaskOK(t)
  BY DEF Data, Todo
<1>2. Executable(t.entry.request) /\ setting \in Settings
  BY <1>1, TaskIs DEF Book, Inv
<1>3. AnswerOK(t.entry.request.type, Write(store, t).answer)
  BY <1>1, <1>2, WriteData DEF Data, TaskOK
<1>4. PICK r, a, c : r = t.entry.request /\ a = Write(store, t).answer /\ c = t.entry.call
  OBVIOUS
<1>5. AreResponses(Responses(p, c, r, a), p, c, r, a)
  BY <1>2, <1>3, <1>4, ResponsesAre
<1> QED
  BY <1>4, <1>5

(* nor a write.                                                            *)
LEMMA WriteSubmitsNothing ==
    ASSUME Inv, Book, Data, NEW p \in Peers, WriteExternal(p) PROVE NothingSubmitted
<1>1. PICK t \in executor[p].running :
        LET c == t.entry.call
            chunks == Responses(p, c, t.entry.request, Write(store, t).answer)
            g == ProcessAll(Now, chunks)
        IN  /\ UNCHANGED raft /\ UNCHANGED committed
            /\ \/ /\ net' = net \cup {chunks[i] : i \in DOMAIN chunks}
                  /\ UNCHANGED pendingRequests
               \/ Continue(c, calls[c], g, FALSE) /\ UNCHANGED net
               \/ UNCHANGED <<pendingRequests, net>>
  BY DEF WriteExternal, Now, grid
<1>2. PICK c, r, a, ms, g : /\ c = t.entry.call /\ r = t.entry.request /\ a = Write(store, t).answer
                            /\ ms = Responses(p, c, r, a) /\ g = ProcessAll(Now, ms)
  OBVIOUS
<1>3. AreResponses(ms, p, c, r, a)
  BY <1>2, WriteDoes
<1>4. Len(ms) \in Nat /\ \A i \in DOMAIN ms : ms[i].type = "response"
  BY <1>3 DEF AreResponses
<1>5. IsGrid(g) /\ DOMAIN g.requests = DOMAIN pendingRequests
  BY <1>2, <1>4, ProcessAllOK DEF IsGrid, Now, Grid, SameRequests
<1>6. \/ /\ net' = net \cup {ms[i] : i \in DOMAIN ms}
         /\ UNCHANGED pendingRequests
      \/ Continue(c, calls[c], g, FALSE) /\ UNCHANGED net
      \/ UNCHANGED <<pendingRequests, net>>
  BY <1>1, <1>2
<1>7. DOMAIN pendingRequests' \subseteq DOMAIN pendingRequests
  BY <1>5, <1>6, ContinueKeeps
<1>8. \A m \in net' : IsSubmission(m) => m \in net
  BY <1>4, <1>6 DEF IsSubmission
<1> QED
  BY <1>1, <1>7, <1>8, QuietSubmitsNothing

(* A commit submits nothing, or is that of a submission.                   *)
LEMMA CommitTakes ==
    ASSUME Inv, Book, NEW p \in Peers, Commit(p)
    PROVE  NothingSubmitted \/ \E e : TakesEntry(p, e)
<1>1. PICK e : e = log[committed[p] + 1]
  OBVIOUS
<1>2. /\ committed[p] < Len(log) /\ committed' = [committed EXCEPT ![p] = @ + 1]
      /\ UNCHANGED <<pendingRequests, leader, elections, leaderId, learnt>>
  BY DEF Commit, CommitNext, grid
<1>3. \A q \in Peers : committed[q] <= committed'[q]
  <2>1. \A q \in Peers : committed[q] \in Nat
    BY DEF Book, LogOK
  <2> QED
    BY <1>2, <2>1 DEF Inv
<1>4. CASE UNCHANGED <<log, net>>
  BY <1>2, <1>3, <1>4 DEF NothingSubmitted
<1>5. CASE /\ e.type = "submission" /\ p = e.to
           /\ HandleSubmit(p, e.id, StorageEntry(e.call), e.source)
           /\ net' = net \cup {SubmitResponse(p, e.id, e.source)}
  <2>1. log' = log \/ log' = Append(log, StorageEntry(e.call))
    BY <1>5 DEF HandleSubmit, raftSubmit
  <2> QED
    BY <1>1, <1>2, <1>5, <2>1 DEF TakesEntry
<1> QED
  BY <1>1, <1>4, <1>5 DEF Commit

(* A submission arrives: the message is taken, and maybe its entry.        *)
LEMMA ReceiveTakes ==
    ASSUME NEW m \in net, ReceiveSubmit(m) PROVE TakesMessage(m)
<1>1. log' = log \/ (log' = Append(log, m.entry) /\ isLeader(m.to))
  BY DEF ReceiveSubmit, HandleSubmit, raftSubmit
<1> QED
  BY <1>1 DEF ReceiveSubmit, TakesMessage, grid

(* A new call submits for the first time.                                  *)
LEMMA InvokeIs ==
    ASSUME setting \in Settings, Book, NEW p \in Peers, NEW o \in setting.operations, Invoke(p, o)
    PROVE  \E c, entry : Submits(p, c, 1, entry)
<1>1. PICK c, call, entry, g : First(p, c, call, entry, g)
  BY InvokeSubmits
<1>2. /\ Submittable(p, c, call, entry, 1, g) /\ Submit(p, c, call, entry, 1, g)
      /\ entry.type = "storage" /\ calls[c].status = "idle"
      /\ \A id \in DOMAIN g.requests : id \in DOMAIN pendingRequests \/ id[1] = c
      /\ UNCHANGED <<setting, leader, elections, leaderId, learnt, committed>>
  BY <1>1 DEF First
<1>3. calls'[c].source = p
  BY <1>2, SubmitBook DEF Book
<1> QED
  BY <1>2, <1>3, SubmitSubmits

(* The answer to a submission may submit again.                            *)
LEMMA ResubmitIs ==
    ASSUME Book, NEW m \in net, m.type = "SubmitMessageResponse",
           NEW c, NEW n, NEW entry, NEW g, Resubmits(m, c, n, entry, g)
    PROVE  Submits(m.to, c, n, entry)
<1>1. /\ Submittable(m.to, c, calls[c], entry, n, g) /\ Submit(m.to, c, calls[c], entry, n, g)
      /\ \A id \in DOMAIN g.requests : id \in DOMAIN pendingRequests
      /\ n > 1
      /\ UNCHANGED <<setting, leader, elections, leaderId, learnt, committed>>
  BY DEF Resubmits
<1>2. calls'[c].source = m.to
  BY <1>1, SubmitBook DEF Book
<1>3. calls[c].source = m.to
  BY <1>1 DEF Submittable
<1>4. Again(m.to, c, n, entry, m)
  BY <1>3 DEF Resubmits, Again
<1> QED
  BY <1>1, <1>2, <1>4, SubmitSubmits

(* Every step is one of five.                                              *)
LEMMA WhatSteps ==
    ASSUME Inv, Book, Data, [Next]_vars
    PROVE  \/ NothingSubmitted
           \/ LeaderMoves
           \/ \E m \in net : TakesMessage(m)
           \/ \E p \in Peers : \E e : TakesEntry(p, e)
           \/ \E p, c, n, entry : Submits(p, c, n, entry)
<1> DEFINE Goal == \/ NothingSubmitted
                   \/ LeaderMoves
                   \/ \E m \in net : TakesMessage(m)
                   \/ \E p \in Peers : \E e : TakesEntry(p, e)
                   \/ \E p, c, n, entry : Submits(p, c, n, entry)
<1>1. setting \in Settings /\ setting.peers \subseteq Peers
  BY GridAssumption DEF Inv
<1>2. CASE UNCHANGED vars
  <2>1. /\ UNCHANGED raft /\ UNCHANGED committed /\ UNCHANGED net
        /\ DOMAIN pendingRequests' = DOMAIN pendingRequests
    BY <1>2 DEF vars, grid
  <2>2. NothingSubmitted
    BY <2>1, QuietSubmitsNothing
  <2> QED
    BY <2>2
<1>3. ASSUME NEW p \in Peers, NEW o \in setting.operations, Invoke(p, o) PROVE Goal
  BY <1>1, <1>3, InvokeIs
<1>4. ASSUME NEW id \in DOMAIN pendingRequests, Expire(id) PROVE Goal
  BY <1>4, ExpireSubmitsNothing
<1>5. ASSUME NEW m \in net, ReceiveSubmitResponse(m) PROVE Goal
  <2>1. m.type = "SubmitMessageResponse"
    BY <1>5 DEF ReceiveSubmitResponse
  <2>2. ASSUME UNCHANGED <<raft, committed>>, net' \subseteq net,
               DOMAIN pendingRequests' \subseteq DOMAIN pendingRequests
        PROVE  NothingSubmitted
    BY <2>2, QuietSubmitsNothing
  <2> QED
    BY <1>5, <2>1, <2>2, ReceiveSubmitResponseDoes, ResubmitIs
<1>6. ASSUME NEW m \in net, ReceiveSubmit(m) \/ ReceiveOngoing(m) \/ ReceiveResponse(m) PROVE Goal
  BY <1>6, ReceiveTakes, NotifySubmitsNothing, ResponseSubmitsNothing
<1>7. ASSUME NEW m \in net, Lose(m) PROVE Goal
  <2>1. /\ UNCHANGED raft /\ UNCHANGED committed /\ \A x \in net' : x \in net
        /\ DOMAIN pendingRequests' = DOMAIN pendingRequests
    BY <1>7 DEF Lose, grid
  <2> QED
    BY <2>1, QuietSubmitsNothing
<1>8. ASSUME NEW p \in Peers, ReadExternal(p) \/ FailExternal(p) PROVE Goal
  <2>1. /\ UNCHANGED raft /\ UNCHANGED committed /\ UNCHANGED net
        /\ DOMAIN pendingRequests' = DOMAIN pendingRequests
    BY <1>8 DEF ReadExternal, FailExternal, grid
  <2> QED
    BY <2>1, QuietSubmitsNothing
<1>9. ASSUME NEW p \in Peers, Close(p) PROVE Goal
  <2>1. /\ UNCHANGED raft /\ UNCHANGED committed /\ UNCHANGED net
        /\ DOMAIN pendingRequests' \subseteq DOMAIN pendingRequests
    BY <1>9 DEF Close
  <2> QED
    BY <2>1, QuietSubmitsNothing
<1>10. ASSUME NEW p \in Peers, Elect(p) \/ LearnLeader(p) PROVE Goal
  <2>1. LeaderMoves
    BY <1>10 DEF LeaderMoves, Elect, LearnLeader, grid
  <2> QED
    BY <2>1
<1>11. ASSUME NEW p \in Peers, Commit(p) \/ WriteExternal(p) \/ Notify(p) PROVE Goal
  BY <1>11, CommitTakes, WriteSubmitsNothing, NotifySubmitsNothing
<1> QED
  BY <1>1, <1>2, <1>3, <1>4, <1>5, <1>6, <1>7, <1>8, <1>9, <1>10, <1>11 DEF Next

-----------------------------------------------------------------------------
(* How often a call is submitted.                                          *)

\* The peer that a submission is for, or was answered by
AskedPeer(m) == IF m.type = "SubmitMessageRequest" THEN m.to ELSE m.from

\* The source s of call c has asked peer l with its n-th submission, once for every leader it
\* had learnt of.
Ask(c, s, n, l) ==
    /\ n <= learnt[s] + 1
    /\ n = learnt[s] + 1 => leaderId[s] \in {Nil, l} /\ (learnt[s] = elections => l = leader)
    /\ \A m \in net : IsSubmission(m) /\ m.id[1] = c =>
        m.id[2] <= n /\ (m.id[2] = n => AskedPeer(m) = l)
    /\ \A i \in 1 .. Len(log) : log[i].type = "submission" /\ log[i].call = c => log[i].id[2] < n

Asked ==
    \A c \in Calls, n \in Nat \ {0} : <<c, n>> \in DOMAIN pendingRequests =>
        \E l : Ask(c, calls[c].source, n, l)

(* Who was asked last stays who was asked last.                            *)
LEMMA AskStays ==
    ASSUME NEW c, NEW s, NEW n, NEW l, Ask(c, s, n, l),
           UNCHANGED <<leader, elections, leaderId, learnt>>,
           \A m \in net' : IsSubmission(m) /\ m.id[1] = c =>
                m \in net \/ (m.id[2] <= n /\ (m.id[2] = n => AskedPeer(m) = l)),
           \A i \in 1 .. Len(log') : log'[i].type = "submission" /\ log'[i].call = c =>
                (i \in 1 .. Len(log) /\ log'[i] = log[i]) \/ log'[i].id[2] < n
    PROVE  Ask(c, s, n, l)'
  BY DEF Ask

\* What is pending was.
StillAsked ==
    \A c \in Calls, n \in Nat \ {0} : <<c, n>> \in DOMAIN pendingRequests' =>
        <<c, n>> \in DOMAIN pendingRequests

(* It stays so for every call when it does for each.                       *)
LEMMA AskedStays ==
    ASSUME Book, Asked, Kept, StillAsked,
           \A c \in Calls, n \in Nat \ {0} : \A s \in Peers : \A l :
                Ask(c, s, n, l) /\ s = calls[c].source => Ask(c, s, n, l)'
    PROVE  Asked'
<1> SUFFICES ASSUME NEW c \in Calls, NEW n \in Nat \ {0}, <<c, n>> \in DOMAIN pendingRequests'
             PROVE  \E l : Ask(c, calls[c].source, n, l)'
  BY DEF Asked
<1>1. <<c, n>> \in DOMAIN pendingRequests
  BY DEF StillAsked
<1>2. calls[c].status = "waiting" /\ calls[c].source \in Peers
  BY <1>1 DEF Book, EachCallOK, CallOK, IsCall
<1>3. PICK s : s = calls[c].source
  OBVIOUS
<1>4. calls'[c].source = s
  BY <1>2, <1>3 DEF Kept
<1>5. PICK l : Ask(c, s, n, l)
  BY <1>1, <1>3 DEF Asked
<1>6. Ask(c, s, n, l)'
  BY <1>2, <1>3, <1>5
<1> QED
  BY <1>4, <1>6

(* Nobody was asked at first.                                              *)
LEMMA InitAsked == Init => Asked
<1> SUFFICES ASSUME Init PROVE Asked
  OBVIOUS
<1>1. DOMAIN pendingRequests = {}
  BY DEF Init, NoEntries
<1> QED
  BY <1>1 DEF Asked

(* An entry of the log was there, or is the one it got.                    *)
LEMMA LogGets ==
    ASSUME LogOK, NEW e, log' = log \/ log' = Append(log, e), NEW i \in 1 .. Len(log')
    PROVE  (i \in 1 .. Len(log) /\ log'[i] = log[i]) \/ (i = Len(log) + 1 /\ log'[i] = e)
<1>1. log \in Seq(Entries)
  BY DEF LogOK
<1>2. CASE log' = log
  BY <1>2
<1>3. CASE log' = Append(log, e)
  <2>1. PICK T : T = Entries \cup {e}
    OBVIOUS
  <2>2. log \in Seq(T) /\ e \in T
    BY <1>1, <2>1
  <2>3. Len(log') = Len(log) + 1 /\ log'[Len(log) + 1] = e /\ \A j \in 1 .. Len(log) : log'[j] = log[j]
    BY <1>3, <2>2
  <2> QED
    BY <2>3, <2>2
<1> QED
  BY <1>2, <1>3

(* A step that submits nothing leaves who was asked.                       *)
LEMMA NothingAsked ==
    ASSUME Book, Asked, Kept, NothingSubmitted PROVE Asked'
<1>1. StillAsked
  BY DEF StillAsked, NothingSubmitted
<1>2. ASSUME NEW c \in Calls, NEW n \in Nat \ {0}, NEW s, NEW l, Ask(c, s, n, l)
      PROVE  Ask(c, s, n, l)'
  BY <1>2, AskStays DEF NothingSubmitted
<1> QED
  BY <1>1, <1>2, AskedStays

(* An election, or learning of one, leaves who was asked.                  *)
LEMMA MovesAsked ==
    ASSUME Book, Asked, Kept, LeaderMoves PROVE Asked'
<1>1. StillAsked
  BY DEF StillAsked, LeaderMoves
<1>2. UNCHANGED <<net, pendingRequests>>
  BY DEF LeaderMoves
<1>3. PICK p \in Peers : Elect(p) \/ LearnLeader(p)
  BY DEF LeaderMoves
<1>4. /\ elections \in Nat /\ \A q \in Peers : learnt[q] \in Nat /\ learnt[q] <= elections
      /\ \A q \in Peers : learnt[q] = elections => leaderId[q] \in {Nil, leader}
      /\ DOMAIN learnt = Peers /\ DOMAIN leaderId = Peers
  BY DEF Book, LeaderOK
<1>5. ASSUME NEW c \in Calls, NEW n \in Nat \ {0}, NEW s \in Peers, NEW l, Ask(c, s, n, l)
      PROVE  Ask(c, s, n, l)'
  <2>1. CASE Elect(p)
    <3>1. /\ leader' = p /\ elections' = elections + 1 /\ leaderId' = [leaderId EXCEPT ![p] = p]
          /\ learnt' = [learnt EXCEPT ![p] = elections']
      BY <2>1 DEF Elect
    <3>2. n <= learnt'[s] + 1 /\ (n = learnt'[s] + 1 => s # p)
      BY <1>4, <1>5, <3>1 DEF Ask
    <3>3. s # p => learnt'[s] = learnt[s] /\ leaderId'[s] = leaderId[s] /\ learnt'[s] # elections'
      BY <1>4, <3>1
    <3>4. PICK k : k \in 0 .. Len(log) /\ log' = SubSeq(log, 1, k)
      BY <2>1 DEF Elect, Book, LogOK
    <3>5. Len(log') = k /\ \A i \in 1 .. k : i \in 1 .. Len(log) /\ log'[i] = log[i]
      BY <3>4 DEF Book, LogOK
    <3> QED
      BY <1>2, <1>5, <3>2, <3>3, <3>5 DEF Ask
  <2>2. CASE LearnLeader(p)
    <3>1. UNCHANGED <<leader, elections, log>> /\ leaderId[p] # leader
      BY <2>2 DEF LearnLeader
    <3>2. PICK x \in {leader, Nil} :
            /\ leaderId' = [leaderId EXCEPT ![p] = x]
            /\ learnt' = [learnt EXCEPT ![p] = IF x = leader THEN elections ELSE @]
      BY <2>2 DEF LearnLeader
    <3>3. CASE s # p
      <4>1. learnt'[s] = learnt[s] /\ leaderId'[s] = leaderId[s]
        BY <3>2, <3>3
      <4> QED
        BY <1>2, <1>5, <3>1, <4>1 DEF Ask
    <3>4. CASE s = p /\ x = leader
      <4>1. learnt'[s] = elections /\ leaderId'[s] = leader
        BY <1>4, <3>2, <3>4
      <4>2. n <= elections + 1
        BY <1>4, <1>5 DEF Ask
      <4>3. n = elections + 1 => l = leader
        BY <1>4, <1>5 DEF Ask
      <4> QED
        BY <1>2, <1>5, <3>1, <4>1, <4>2, <4>3 DEF Ask
    <3>5. CASE s = p /\ x = Nil /\ x # leader
      <4>1. learnt'[s] = learnt[s] /\ leaderId'[s] = Nil
        BY <1>4, <3>2, <3>5
      <4> QED
        BY <1>2, <1>5, <3>1, <4>1 DEF Ask
    <3> QED
      BY <3>2, <3>3, <3>4, <3>5
  <2> QED
    BY <1>3, <2>1, <2>2
<1> QED
  BY <1>1, <1>5, AskedStays

(* A submission that is taken is one no more.                              *)
LEMMA TakenAsked ==
    ASSUME Book, Asked, Kept,
           (\E m \in net : TakesMessage(m)) \/ (\E p \in Peers : \E e : TakesEntry(p, e))
    PROVE  Asked'
<1>1. UNCHANGED <<pendingRequests, leader, elections, leaderId, learnt>> /\ StillAsked
  BY DEF TakesMessage, TakesEntry, StillAsked
<1>2. ASSUME NEW m \in net, TakesMessage(m), NEW c \in Calls, NEW n \in Nat \ {0}, NEW s, NEW l,
             Ask(c, s, n, l)
      PROVE  Ask(c, s, n, l)'
  <2>1. PICK r : r = SubmitResponse(m.to, m.id, m.from)
    OBVIOUS
  <2>2. IsSubmission(m) /\ IsSubmission(r) /\ r.id = m.id /\ AskedPeer(r) = AskedPeer(m)
    BY <1>2, <2>1 DEF TakesMessage, SubmitResponse, IsSubmission, AskedPeer
  <2>3. \A x \in net' : x \in net \/ x = r
    BY <1>2, <2>1 DEF TakesMessage
  <2>4. \A x \in net' : IsSubmission(x) /\ x.id[1] = c =>
            x \in net \/ (x.id[2] <= n /\ (x.id[2] = n => AskedPeer(x) = l))
    BY <1>2, <2>2, <2>3 DEF Ask
  <2>5. RequestOK(m)
    BY <1>2 DEF Book, NetOK, MessageOK, TakesMessage
  <2>6. m.entry.type = "submission" /\ m.entry.call = c => m.entry.id[2] < n
    <3> SUFFICES ASSUME m.entry.type = "submission", m.entry.call = c PROVE m.entry.id[2] < n
      OBVIOUS
    <3>1. m.id[1] = c /\ m.entry.id[2] < m.id[2] /\ m.id[2] \in Nat
      BY <2>5 DEF RequestOK
    <3>2. m.id[2] <= n
      BY <1>2, <2>2, <3>1 DEF Ask
    <3>3. m.entry.id[2] \in Nat
      BY <2>5 DEF RequestOK, EntryOK, Entries, SubmitId
    <3> QED
      BY <3>1, <3>2, <3>3
  <2>7. log' = log \/ log' = Append(log, m.entry)
    BY <1>2 DEF TakesMessage
  <2>8. \A i \in 1 .. Len(log') : log'[i].type = "submission" /\ log'[i].call = c =>
            (i \in 1 .. Len(log) /\ log'[i] = log[i]) \/ log'[i].id[2] < n
    BY <2>6, <2>7, LogGets DEF Book
  <2> QED
    BY <1>1, <1>2, <2>4, <2>8, AskStays
<1>3. ASSUME NEW p \in Peers, NEW e, TakesEntry(p, e), NEW c \in Calls, NEW n \in Nat \ {0}, NEW s, NEW l,
             Ask(c, s, n, l)
      PROVE  Ask(c, s, n, l)'
  <2>1. PICK r : r = SubmitResponse(p, e.id, e.source)
    OBVIOUS
  <2>2. PICK i \in 1 .. Len(log) : e = log[i]
    <3>1. committed[p] \in Nat /\ Len(log) \in Nat /\ committed[p] < Len(log)
      BY <1>3 DEF Book, LogOK, TakesEntry
    <3> QED
      BY <1>3, <3>1 DEF TakesEntry
  <2>3. EntryOK(e) /\ e.type = "submission"
    BY <1>3, <2>2 DEF Book, LogOK, TakesEntry
  <2>4. r.id = e.id /\ e.id[1] = e.call /\ e.id[2] \in Nat
    BY <2>1, <2>3 DEF SubmitResponse, EntryOK, Entries, SubmitId
  <2>5. e.call = c => e.id[2] < n
    BY <1>3, <2>2, <2>3 DEF Ask
  <2>6. \A x \in net' : x \in net \/ x = r
    BY <1>3, <2>1 DEF TakesEntry
  <2>7. \A x \in net' : IsSubmission(x) /\ x.id[1] = c =>
            x \in net \/ (x.id[2] <= n /\ (x.id[2] = n => AskedPeer(x) = l))
    BY <2>4, <2>5, <2>6
  <2>8. PICK f : f = StorageEntry(e.call)
    OBVIOUS
  <2>9. f.type = "storage" /\ (log' = log \/ log' = Append(log, f))
    BY <1>3, <2>8 DEF TakesEntry, StorageEntry
  <2>10. \A j \in 1 .. Len(log') : log'[j].type = "submission" /\ log'[j].call = c =>
            (j \in 1 .. Len(log) /\ log'[j] = log[j]) \/ log'[j].id[2] < n
    BY <2>9, LogGets DEF Book
  <2> QED
    BY <1>1, <1>3, <2>7, <2>10, AskStays
<1> QED
  BY <1>1, <1>2, <1>3, AskedStays

(* An idle call has left no trace.                                         *)
LEMMA IdleUnknown ==
    ASSUME Book, NEW c \in Calls, calls[c].status = "idle"
    PROVE  /\ \A m \in net : IsSubmission(m) => m.id[1] # c
           /\ \A i \in 1 .. Len(log) : log[i].call # c
           /\ \A n \in Nat : <<c, n>> \notin DOMAIN pendingRequests
<1>1. ASSUME NEW m \in net, IsSubmission(m) PROVE m.id[1] # c
  <2>1. CASE RequestOK(m)
    BY <2>1 DEF RequestOK, EntryOK, Begun
  <2>2. CASE ResponseOK(m)
    BY <2>2 DEF ResponseOK, Begun
  <2> QED
    BY <1>1, <2>1, <2>2 DEF Book, NetOK, MessageOK, IsSubmission
<1>2. \A i \in 1 .. Len(log) : log[i].call # c
  BY DEF Book, LogOK, EntryOK, Begun
<1>3. \A n \in Nat : <<c, n>> \notin DOMAIN pendingRequests
  BY DEF Book, EachCallOK, CallOK
<1> QED
  BY <1>1, <1>2, <1>3

\* A submission asks the leader that its source has learnt of since the one before.
LEMMA SubmitsAsked ==
    ASSUME Book, Asked, Kept, NEW p, NEW c, NEW n, NEW entry, Submits(p, c, n, entry)
    PROVE  Asked'
<1>0. /\ p \in Peers /\ c \in Calls /\ n \in Nat \ {0} /\ entry.call = c /\ calls'[c].source = p
      /\ \A id \in DOMAIN pendingRequests' : id \in DOMAIN pendingRequests \/ id[1] = c
      /\ \A i \in Nat \ {0} : <<c, i>> \in DOMAIN pendingRequests' => i = n
      /\ UNCHANGED <<committed, leader, elections, leaderId, learnt>>
  BY DEF Submits
<1>1. PICK req : req = [type |-> "SubmitMessageRequest", id |-> SubmitId(c, n),
                        from |-> p, to |-> leaderId[p], entry |-> entry]
  OBVIOUS
<1>2. /\ req.id[1] = c /\ req.id[2] = n /\ IsSubmission(req) /\ AskedPeer(req) = leaderId[p]
  BY <1>1 DEF SubmitId, IsSubmission, AskedPeer
<1>3. /\ \A x \in net' : x \in net \/ x = req
      /\ log' = log \/ log' = Append(log, entry)
  BY <1>1 DEF Submits
<1>4. ASSUME NEW d \in Calls, d # c, NEW i \in Nat \ {0}, <<d, i>> \in DOMAIN pendingRequests'
      PROVE  \E l : Ask(d, calls[d].source, i, l)'
  <2>1. <<d, i>> \in DOMAIN pendingRequests
    BY <1>0, <1>4
  <2>2. calls[d].status = "waiting" /\ calls[d].source \in Peers
    BY <2>1 DEF Book, EachCallOK, CallOK, IsCall
  <2>3. PICK s : s = calls[d].source
    OBVIOUS
  <2>4. calls'[d].source = s
    BY <2>2, <2>3 DEF Kept
  <2>5. PICK l : Ask(d, s, i, l)
    BY <2>1, <2>3 DEF Asked
  <2>6. \A x \in net' : IsSubmission(x) /\ x.id[1] = d =>
            x \in net \/ (x.id[2] <= i /\ (x.id[2] = i => AskedPeer(x) = l))
    BY <1>2, <1>3, <1>4
  <2>7. \A j \in 1 .. Len(log') : log'[j].type = "submission" /\ log'[j].call = d =>
            (j \in 1 .. Len(log) /\ log'[j] = log[j]) \/ log'[j].id[2] < i
    BY <1>0, <1>3, <1>4, LogGets DEF Book
  <2>8. Ask(d, s, i, l)'
    BY <1>0, <2>5, <2>6, <2>7, AskStays
  <2> QED
    BY <2>4, <2>8
<1>5. ASSUME <<c, n>> \in DOMAIN pendingRequests' PROVE Ask(c, p, n, leaderId[p])'
  <2>1. log' = log /\ leaderId[p] # Nil
    BY <1>5 DEF Submits
  <2>2. /\ elections \in Nat /\ learnt[p] \in Nat /\ learnt[p] <= elections
        /\ learnt[p] = elections => leaderId[p] = leader
    BY <1>0, <2>1 DEF Book, LeaderOK
  <2>3. CASE n = 1 /\ calls[c].status = "idle"
    <3>1. \A m \in net' : IsSubmission(m) /\ m.id[1] = c => m = req
      BY <1>0, <1>3, <2>3, IdleUnknown
    <3>2. \A i \in 1 .. Len(log) : log[i].call # c
      BY <1>0, <2>3, IdleUnknown
    <3>3. n <= learnt[p] + 1
      BY <2>2, <2>3
    <3> QED
      BY <1>0, <1>2, <2>1, <2>2, <3>1, <3>2, <3>3 DEF Ask
  <2>4. ASSUME n > 1, NEW m \in net, Again(p, c, n, entry, m) PROVE Ask(c, p, n, leaderId[p])'
    <3>1. /\ <<c, n - 1>> \in DOMAIN pendingRequests /\ calls[c].source = p /\ n - 1 \in Nat \ {0}
          /\ IsSubmission(m) /\ m.id[1] = c /\ m.id[2] = n - 1 /\ AskedPeer(m) = m.from
          /\ m.leaderId \notin {Nil, m.from} /\ m.leaderId = leaderId[p]
      BY <1>0, <2>4 DEF Again, IsSubmission, AskedPeer
    <3>2. PICK l : Ask(c, p, n - 1, l)
      BY <1>0, <3>1 DEF Asked
    <3>3. l = m.from
      BY <3>1, <3>2 DEF Ask
    <3>4. n - 1 <= learnt[p] + 1 /\ n - 1 # learnt[p] + 1
      BY <3>1, <3>2, <3>3 DEF Ask
    <3>5. n <= learnt[p] + 1
      BY <1>0, <2>2, <3>4
    <3>6. ASSUME NEW x \in net', IsSubmission(x), x.id[1] = c
          PROVE  x.id[2] <= n /\ (x.id[2] = n => x = req)
      <4>1. CASE x \in net
        <5>1. x.id[2] \in Nat
          BY <3>6, <4>1 DEF Book, NetOK, MessageOK, IsSubmission, RequestOK, ResponseOK
        <5>2. x.id[2] <= n - 1
          BY <3>2, <3>6, <4>1 DEF Ask
        <5> QED
          BY <1>0, <5>1, <5>2
      <4> QED
        BY <1>0, <1>2, <1>3, <3>6, <4>1
    <3>7. ASSUME NEW i \in 1 .. Len(log), log[i].type = "submission", log[i].call = c
          PROVE  log[i].id[2] < n
      <4>1. log[i].id[2] \in Nat
        BY <3>7 DEF Book, LogOK, EntryOK, Entries, SubmitId
      <4>2. log[i].id[2] < n - 1
        BY <3>2, <3>7 DEF Ask
      <4> QED
        BY <1>0, <4>1, <4>2
    <3> QED
      BY <1>0, <1>2, <2>1, <2>2, <3>5, <3>6, <3>7 DEF Ask
  <2> QED
    BY <2>3, <2>4 DEF Submits
<1>6. \A i \in Nat \ {0} : <<c, i>> \in DOMAIN pendingRequests' => \E l : Ask(c, calls[c].source, i, l)'
  BY <1>0, <1>5
<1> QED
  BY <1>4, <1>6 DEF Asked

(* Every step keeps it.                                                    *)
LEMMA AskedStep == Inv /\ Book /\ Data /\ Asked /\ [Next]_vars => Asked'
<1> SUFFICES ASSUME Inv, Book, Data, Asked, [Next]_vars PROVE Asked'
  OBVIOUS
<1>1. Kept
  BY BookStep
<1> QED
  BY <1>1, WhatSteps, NothingAsked, MovesAsked, TakenAsked, SubmitsAsked

(* So it holds in every state.                                             *)
LEMMA AskedAlways == Spec => [](Inv /\ Book /\ Data /\ Asked)
<1>1. Init => Inv /\ Book /\ Data /\ Asked
  BY InitOK, BookInit, InitData, InitAsked
<1>2. Inv /\ Book /\ Data /\ Asked /\ [Next]_vars => (Inv /\ Book /\ Data /\ Asked)'
  BY NextOK, BookStep, DataStep, AskedStep
<1> QED
  BY <1>1, <1>2, PTL DEF Spec

(* The types, and with them a bound on retries: a call is submitted again  *)
(* at most once for each leader that its source learns of, however the     *)
(* answers cross with the elections.                                       *)
THEOREM GridTypes == Spec => []TypeOK
<1>1. Inv /\ Book /\ Asked => TypeOK
  <2> SUFFICES ASSUME Inv, Book, Asked PROVE TypeOK
    OBVIOUS
  <2>1. /\ setting \in Settings /\ setting.elections \in Nat /\ leader \in Peers /\ leaderId[leader] = leader
        /\ elections \in 0 .. setting.elections
    BY GridAssumption DEF Inv, Book, LeaderOK
  <2>2. ASSUME NEW p \in Peers
        PROVE  /\ leaderId[p] \in Peers \cup {Nil} /\ committed[p] \in 0 .. Len(log)
               /\ executor[p].semaphore \in 0 .. 1
               /\ executor[p].semaphore = 1 => executor[p].tasks = <<>>
    <3>1. leaderId[p] \in Peers \cup {Nil} /\ committed[p] \in 0 .. Len(log)
      BY DEF Book, LeaderOK, LogOK
    <3>2. WellOrdered(executor[p])
      BY DEF Inv, PeerInOrder
    <3> QED
      BY <3>1, <3>2 DEF WellOrdered
  <2>3. ASSUME NEW id \in DOMAIN pendingRequests PROVE id \in Ids
    <3>1. PICK c \in Calls, n \in Nat : id = <<c, n>>
      BY DEF Book, EachCallOK
    <3>2. n <= setting.elections + 1
      <4>1. CASE n = 0
        BY <2>1, <4>1
      <4>2. CASE n # 0
        <5>1. calls[c].source \in Peers
          BY <3>1 DEF Book, EachCallOK, CallOK, IsCall
        <5>2. PICK s : s = calls[c].source
          OBVIOUS
        <5>3. n <= learnt[s] + 1
          BY <3>1, <4>2, <5>2 DEF Asked, Ask
        <5>4. learnt[s] \in Nat /\ learnt[s] <= elections
          BY <5>1, <5>2 DEF Book, LeaderOK
        <5> QED
          BY <2>1, <5>3, <5>4
      <4> QED
        BY <4>1, <4>2
    <3>3. n \in 0 .. setting.elections + 1
      BY <2>1, <3>2
    <3> QED
      BY <2>1, <3>1, <3>3 DEF Ids
  <2>4. \A c \in Calls : calls[c].status \in {"idle", "waiting", "resolved", "rejected"}
    BY DEF Book, EachCallOK, CallOK, IsCall
  <2> QED
    BY <2>1, <2>2, <2>3, <2>4 DEF TypeOK
<1> QED
  BY <1>1, AskedAlways, PTL

-----------------------------------------------------------------------------
(* A call gets to the log once.                                            *)

\* Position i of the log has call c, or a submission of it that is still to be handled.
LogHas(c, i) ==
    /\ i \in 1 .. Len(log) /\ log[i].call = c
    /\ log[i].type = "storage" \/ committed[log[i].to] < i

\* Message m may lead to that: a submission, or the answer to one that is awaited and made again.
NetHas(c, m) ==
    /\ m \in net /\ IsSubmission(m) /\ m.id[1] = c
    /\ \/ m.type = "SubmitMessageRequest"
       \/ ~m.success /\ m.id \in DOMAIN pendingRequests

Once(c) ==
    /\ \A i, j : LogHas(c, i) /\ LogHas(c, j) => i = j
    /\ \A m, k : NetHas(c, m) /\ NetHas(c, k) => m = k
    /\ \A i, m : ~(LogHas(c, i) /\ NetHas(c, m))

LoggedOnce == \A c \in Calls : Once(c)

(* A call that is nowhere else than before is there once.                  *)
LEMMA OnceStays ==
    ASSUME NEW c, Once(c), \A i : LogHas(c, i)' => LogHas(c, i), \A m : NetHas(c, m)' => NetHas(c, m)
    PROVE  Once(c)'
  BY DEF Once

\* A call whose requests are at one position of the log only is there once,
LEMMA OnlyInLog ==
    ASSUME NEW c, NEW k, \A i : LogHas(c, i)' => i = k, \A m : ~NetHas(c, m)'
    PROVE  Once(c)'
  BY DEF Once

(* and so is one whose requests are in one message only.                   *)
LEMMA OnlyInNet ==
    ASSUME NEW c, NEW k, \A m : NetHas(c, m)' => m = k, \A i : ~LogHas(c, i)'
    PROVE  Once(c)'
  BY DEF Once

(* No call is anywhere at first.                                           *)
LEMMA InitOnce == Init => LoggedOnce
<1> SUFFICES ASSUME Init PROVE LoggedOnce
  OBVIOUS
<1>1. net = {} /\ Len(log) = 0
  BY DEF Init
<1> QED
  BY <1>1 DEF LoggedOnce, Once, LogHas, NetHas

(* A step that submits nothing adds none.                                  *)
LEMMA NothingOnce ==
    ASSUME Book, Book', LoggedOnce, NothingSubmitted PROVE LoggedOnce'
<1> SUFFICES ASSUME NEW c \in Calls PROVE Once(c)'
  BY DEF LoggedOnce
<1>1. ASSUME NEW i, LogHas(c, i)' PROVE LogHas(c, i)
  <2>1. i \in 1 .. Len(log) /\ log[i].call = c /\ log' = log /\ EntryOK(log[i]) /\ Len(log) \in Nat
    BY <1>1 DEF LogHas, NothingSubmitted, Book, LogOK
  <2>2. CASE log[i].type # "storage"
    <3>1. log[i].to \in Peers
      BY <2>1, <2>2 DEF EntryOK, Entries
    <3>2. PICK p \in Peers : p = log[i].to
      BY <3>1
    <3>3. committed'[p] < i
      BY <1>1, <2>1, <2>2, <3>2 DEF LogHas
    <3>4. committed[p] \in Nat /\ committed'[p] \in Nat /\ committed[p] <= committed'[p]
      BY DEF NothingSubmitted, Book, LogOK
    <3>5. committed[p] < i
      <4> SUFFICES ASSUME ~(committed[p] < i) PROVE FALSE
        OBVIOUS
      <4> QED
        BY <2>1, <3>3, <3>4
    <3> QED
      BY <2>1, <3>2, <3>5 DEF LogHas
  <2> QED
    BY <2>1, <2>2 DEF LogHas
<1>2. ASSUME NEW m, NetHas(c, m)' PROVE NetHas(c, m)
  BY <1>2 DEF NetHas, NothingSubmitted
<1> QED
  BY <1>1, <1>2, OnceStays DEF LoggedOnce

(* An election adds none.                                                  *)
LEMMA MovesOnce ==
    ASSUME Book, LoggedOnce, LeaderMoves PROVE LoggedOnce'
<1> SUFFICES ASSUME NEW c \in Calls PROVE Once(c)'
  BY DEF LoggedOnce
<1>1. \A i \in 1 .. Len(log') : i \in 1 .. Len(log) /\ log'[i] = log[i]
  <2>1. PICK p \in Peers : Elect(p) \/ LearnLeader(p)
    BY DEF LeaderMoves
  <2>2. CASE Elect(p)
    <3>1. PICK k : k \in 0 .. Len(log) /\ log' = SubSeq(log, 1, k)
      BY <2>2 DEF Elect, Book, LogOK
    <3> QED
      BY <3>1 DEF Book, LogOK
  <2>3. CASE LearnLeader(p)
    BY <2>3 DEF LearnLeader
  <2> QED
    BY <2>1, <2>2, <2>3
<1>2. \A i : LogHas(c, i)' => LogHas(c, i)
  BY <1>1 DEF LogHas, LeaderMoves
<1>3. \A m : NetHas(c, m)' => NetHas(c, m)
  BY DEF NetHas, LeaderMoves
<1> QED
  BY <1>2, <1>3, OnceStays DEF LoggedOnce

\* What is in the log after an entry was appended, or not
LEMMA LogHasMoves ==
    ASSUME Book, NEW e, log' = log \/ log' = Append(log, e), UNCHANGED committed, NEW c, NEW i, LogHas(c, i)'
    PROVE  LogHas(c, i) \/ (log' = Append(log, e) /\ i = Len(log) + 1 /\ e.call = c)
<1>1. i \in 1 .. Len(log') /\ log'[i].call = c /\ (log'[i].type = "storage" \/ committed[log'[i].to] < i)
  BY DEF LogHas
<1>2. CASE i \in 1 .. Len(log) /\ log'[i] = log[i]
  BY <1>1, <1>2 DEF LogHas
<1>3. CASE i = Len(log) + 1 /\ log'[i] = e
  <2>1. Len(log) \in Nat
    BY DEF Book, LogOK
  <2>2. log' # log
    BY <1>1, <1>3, <2>1
  <2> QED
    BY <1>1, <1>3, <2>2
<1> QED
  BY <1>1, <1>2, <1>3, LogGets DEF Book

(* A message that is taken becomes one entry of the log at most.           *)
LEMMA MessageOnce ==
    ASSUME Book, LoggedOnce, NEW m \in net, TakesMessage(m) PROVE LoggedOnce'
<1> SUFFICES ASSUME NEW c \in Calls PROVE Once(c)'
  BY DEF LoggedOnce
<1>1. PICK r : r = SubmitResponse(m.to, m.id, m.from)
  OBVIOUS
<1>2. /\ r.type = "SubmitMessageResponse" /\ r.id = m.id /\ (r.success <=> isLeader(m.to))
      /\ IsSubmission(m) /\ m.type = "SubmitMessageRequest"
  BY <1>1 DEF SubmitResponse, IsSubmission, TakesMessage
<1>3. \A x \in net' : (x \in net /\ x # m) \/ x = r
  BY <1>1 DEF TakesMessage
<1>4. /\ log' = log \/ (log' = Append(log, m.entry) /\ isLeader(m.to))
      /\ log' = log \/ log' = Append(log, m.entry)
      /\ UNCHANGED committed /\ UNCHANGED pendingRequests
  BY DEF TakesMessage
<1>5. m.entry.call = m.id[1]
  BY <1>2 DEF Book, NetOK, MessageOK, RequestOK
<1>6. Once(c)
  BY DEF LoggedOnce
<1>7. \A x : NetHas(c, x)' => (NetHas(c, x) /\ x # m) \/ (x = r /\ m.id[1] = c /\ ~isLeader(m.to))
  BY <1>2, <1>3, <1>4 DEF NetHas
<1>8. \A i : LogHas(c, i)' => LogHas(c, i) \/ (log' = Append(log, m.entry) /\ i = Len(log) + 1 /\ m.id[1] = c)
  BY <1>4, <1>5, LogHasMoves
<1>9. CASE m.id[1] # c
  BY <1>6, <1>7, <1>8, <1>9, OnceStays
<1>10. CASE m.id[1] = c
  <2>1. NetHas(c, m)
    BY <1>2, <1>10 DEF NetHas
  <2>2. (\A x : NetHas(c, x) => x = m) /\ \A i : ~LogHas(c, i)
    BY <1>6, <2>1 DEF Once
  <2>3. CASE isLeader(m.to)
    <3>1. \A x : ~NetHas(c, x)'
      BY <1>7, <2>2, <2>3
    <3>2. \A i : LogHas(c, i)' => i = Len(log) + 1
      BY <1>8, <2>2
    <3> QED
      BY <3>1, <3>2, OnlyInLog
  <2>4. CASE ~isLeader(m.to)
    <3>1. \A x : NetHas(c, x)' => x = r
      BY <1>7, <2>2
    <3>2. \A i : ~LogHas(c, i)'
      <4>1. log' = log
        BY <1>4, <2>4
      <4>2. \A i : LogHas(c, i)' => LogHas(c, i)
        BY <1>4, <4>1 DEF LogHas
      <4> QED
        BY <2>2, <4>2
    <3> QED
      BY <3>1, <3>2, OnlyInNet
  <2> QED
    BY <2>3, <2>4
<1> QED
  BY <1>9, <1>10

\* A submission in the log becomes one request in the log at most: its peer commits it once.
LEMMA EntryOnce ==
    ASSUME Inv, Book, Asked, LoggedOnce, NEW p \in Peers, NEW e, TakesEntry(p, e) PROVE LoggedOnce'
<1> SUFFICES ASSUME NEW c \in Calls PROVE Once(c)'
  BY DEF LoggedOnce
<1>1. PICK r, k, f : r = SubmitResponse(p, e.id, e.source) /\ k = committed[p] + 1 /\ f = StorageEntry(e.call)
  OBVIOUS
<1>2. /\ k \in 1 .. Len(log) /\ e = log[k] /\ e.type = "submission" /\ e.to = p
      /\ committed[p] = k - 1 /\ committed' = [committed EXCEPT ![p] = k]
  <2>1. committed[p] \in Nat /\ Len(log) \in Nat /\ committed[p] < Len(log)
    BY DEF Book, LogOK, TakesEntry
  <2> QED
    BY <1>1, <2>1 DEF TakesEntry
<1>3. EntryOK(e) /\ e \in Entries
  BY <1>2 DEF Book, LogOK, EntryOK
<1>4. e.id \in Calls \X (Nat \ {0}) /\ e.id[1] = e.call /\ e.call \in Calls
  BY <1>2, <1>3 DEF Entries, SubmitId
<1>5. e.id \notin DOMAIN pendingRequests
  <2> SUFFICES ASSUME e.id \in DOMAIN pendingRequests PROVE FALSE
    OBVIOUS
  <2>1. PICK n \in Nat \ {0} : e.id = <<e.call, n>>
    BY <1>4
  <2>2. PICK s, l : Ask(e.call, s, n, l)
    BY <1>4, <2>1 DEF Asked
  <2>3. n < n
    BY <1>2, <2>1, <2>2 DEF Ask
  <2> QED
    BY <2>1, <2>3
<1>6. \A x \in net' : x \in net \/ x = r
  BY <1>1 DEF TakesEntry
<1>7. r.type = "SubmitMessageResponse" /\ r.id = e.id /\ UNCHANGED pendingRequests
  BY <1>1 DEF SubmitResponse, TakesEntry
<1>8. \A x : NetHas(c, x)' => NetHas(c, x)
  BY <1>5, <1>6, <1>7 DEF NetHas
<1>9. f.call = e.call /\ f.type = "storage" /\ (log' = log \/ log' = Append(log, f))
  BY <1>1 DEF StorageEntry, TakesEntry
<1>10. ASSUME NEW i, LogHas(c, i)'
       PROVE  (LogHas(c, i) /\ i # k) \/ (i = Len(log) + 1 /\ e.call = c)
  <2>1. i \in 1 .. Len(log') /\ log'[i].call = c /\ (log'[i].type = "storage" \/ committed'[log'[i].to] < i)
    BY <1>10 DEF LogHas
  <2>2. CASE i \in 1 .. Len(log) /\ log'[i] = log[i]
    <3>1. i # k
      <4> SUFFICES ASSUME i = k PROVE FALSE
        OBVIOUS
      <4>1. log'[i] = e /\ committed'[p] = k
        BY <1>2, <2>2 DEF Inv
      <4> QED
        BY <1>2, <2>1, <4>1
    <3>2. log[i].type = "storage" \/ committed[log[i].to] < i
      <4> SUFFICES ASSUME log[i].type # "storage" PROVE committed[log[i].to] < i
        OBVIOUS
      <4>1. log[i].to \in Peers
        BY <2>2 DEF Book, LogOK, EntryOK, Entries
      <4>2. PICK q \in Peers : q = log[i].to
        BY <4>1
      <4>3. committed'[q] < i
        BY <2>1, <2>2, <4>2
      <4>4. CASE q = p
        BY <1>2, <2>2, <4>2, <4>3, <4>4 DEF Inv
      <4>5. CASE q # p
        BY <1>2, <4>2, <4>3, <4>5 DEF Inv
      <4> QED
        BY <4>4, <4>5
    <3> QED
      BY <2>1, <2>2, <3>1, <3>2 DEF LogHas
  <2>3. CASE i = Len(log) + 1 /\ log'[i] = f
    BY <1>9, <2>1, <2>3
  <2> QED
    BY <1>9, <2>1, <2>2, <2>3, LogGets DEF Book
<1>11. Once(c)
  BY DEF LoggedOnce
<1>12. CASE e.call # c
  BY <1>8, <1>10, <1>11, <1>12, OnceStays
<1>13. CASE e.call = c
  <2>1. LogHas(c, k)
    BY <1>2, <1>13 DEF LogHas
  <2>2. (\A i : LogHas(c, i) => i = k) /\ \A m : ~NetHas(c, m)
    BY <1>11, <2>1 DEF Once
  <2>3. \A i : LogHas(c, i)' => i = Len(log) + 1
    BY <1>10, <2>2
  <2>4. \A m : ~NetHas(c, m)'
    BY <1>8, <2>2
  <2> QED
    BY <2>3, <2>4, OnlyInLog
<1> QED
  BY <1>12, <1>13

(* A call is submitted again only when its submission before has failed.   *)
LEMMA SubmitsOnce ==
    ASSUME Book, Asked, LoggedOnce, NEW p, NEW d, NEW n, NEW entry, Submits(p, d, n, entry) PROVE LoggedOnce'
<1> SUFFICES ASSUME NEW c \in Calls PROVE Once(c)'
  BY DEF LoggedOnce
<1>0. /\ p \in Peers /\ d \in Calls /\ n \in Nat \ {0} /\ entry.call = d
      /\ \A id \in DOMAIN pendingRequests' : id \in DOMAIN pendingRequests \/ id[1] = d
      /\ \A i \in Nat \ {0} : <<d, i>> \in DOMAIN pendingRequests' => i = n
      /\ UNCHANGED committed
  BY DEF Submits
<1>1. PICK req : req = [type |-> "SubmitMessageRequest", id |-> SubmitId(d, n),
                        from |-> p, to |-> leaderId[p], entry |-> entry]
  OBVIOUS
<1>2. /\ req.id[1] = d /\ req.id = <<d, n>> /\ req.type = "SubmitMessageRequest"
      /\ \A x \in net' : x \in net \/ x = req
      /\ \/ net' = net /\ (log' = log \/ log' = Append(log, entry))
         \/ req \in net' /\ log' = log
      /\ log' = log \/ log' = Append(log, entry)
  BY <1>1 DEF Submits, SubmitId
<1>3. Once(c)
  BY DEF LoggedOnce
<1>4. \A i : LogHas(c, i)' => LogHas(c, i) \/ (log' = Append(log, entry) /\ i = Len(log) + 1 /\ d = c)
  BY <1>0, <1>2, LogHasMoves
<1>5. CASE c # d
  <2>1. \A x : NetHas(c, x)' => NetHas(c, x)
    BY <1>0, <1>2, <1>5 DEF NetHas
  <2> QED
    BY <1>3, <1>4, <1>5, <2>1, OnceStays
<1>6. CASE c = d
  <2>1. (\A i : ~LogHas(c, i)) /\ \A x : NetHas(c, x)' => x \notin net
    <3>1. CASE n = 1 /\ calls[d].status = "idle"
      <4>1. \A i : ~LogHas(c, i)
        BY <1>6, <3>1, IdleUnknown DEF LogHas
      <4>2. \A x : NetHas(c, x)' => x \notin net
        BY <1>2, <1>6, <3>1, IdleUnknown DEF NetHas
      <4> QED
        BY <4>1, <4>2
    <3>2. ASSUME n > 1, NEW m \in net, Again(p, d, n, entry, m)
          PROVE  (\A i : ~LogHas(c, i)) /\ \A x : NetHas(c, x)' => x \notin net
      <4>1. /\ m.id = <<d, n - 1>> /\ m.type = "SubmitMessageResponse" /\ ~m.success
            /\ m.id \in DOMAIN pendingRequests /\ n - 1 \in Nat \ {0}
        BY <1>0, <3>2 DEF Again
      <4>2. NetHas(c, m)
        BY <1>6, <4>1 DEF NetHas, IsSubmission
      <4>3. (\A i : ~LogHas(c, i)) /\ \A x : NetHas(c, x) => x = m
        BY <1>3, <4>2 DEF Once
      <4>4. ASSUME NEW x, NetHas(c, x)' PROVE x \notin net
        <5> SUFFICES ASSUME x \in net PROVE FALSE
          OBVIOUS
        <5>1. x \in net /\ IsSubmission(x) /\ x.id[1] = c
          BY <1>2, <4>4 DEF NetHas
        <5>2. CASE x.type = "SubmitMessageRequest"
          <6>1. NetHas(c, x)
            BY <5>1, <5>2 DEF NetHas
          <6> QED
            BY <4>1, <4>3, <5>2, <6>1
        <5>3. CASE ~x.success /\ x.id \in DOMAIN pendingRequests' /\ x.type = "SubmitMessageResponse"
          <6>1. ResponseOK(x)
            BY <5>1, <5>3 DEF Book, NetOK, MessageOK
          <6>2. PICK i \in Nat \ {0} : x.id = <<c, i>>
            BY <5>1, <6>1 DEF ResponseOK
          <6>3. i = n
            BY <1>0, <1>6, <5>3, <6>2
          <6>4. PICK l : Ask(c, calls[c].source, n - 1, l)
            BY <1>0, <1>6, <4>1 DEF Asked
          <6>5. n <= n - 1
            BY <5>1, <6>2, <6>3, <6>4 DEF Ask
          <6> QED
            BY <1>0, <6>5
        <5> QED
          BY <4>4, <5>1, <5>2, <5>3 DEF NetHas, IsSubmission
      <4> QED
        BY <4>3, <4>4
    <3> QED
      BY <3>1, <3>2 DEF Submits
  <2>2. \A x : NetHas(c, x)' => x = req
    BY <1>2, <2>1 DEF NetHas
  <2>3. CASE net' = net /\ (log' = log \/ log' = Append(log, entry))
    <3>1. \A x : ~NetHas(c, x)'
      BY <2>1, <2>3 DEF NetHas
    <3>2. \A i : LogHas(c, i)' => i = Len(log) + 1
      BY <1>4, <2>1
    <3> QED
      BY <3>1, <3>2, OnlyInLog
  <2>4. CASE log' = log
    <3>1. \A i : ~LogHas(c, i)'
      BY <1>0, <2>1, <2>4 DEF LogHas
    <3> QED
      BY <2>2, <3>1, OnlyInNet
  <2> QED
    BY <1>2, <2>3, <2>4
<1> QED
  BY <1>5, <1>6

(* Every step keeps it.                                                    *)
LEMMA OnceStep == Inv /\ Book /\ Data /\ Asked /\ LoggedOnce /\ [Next]_vars => LoggedOnce'
<1> SUFFICES ASSUME Inv, Book, Data, Asked, LoggedOnce, [Next]_vars PROVE LoggedOnce'
  OBVIOUS
<1>1. Book'
  BY BookStep
<1> QED
  BY <1>1, WhatSteps, NothingOnce, MovesOnce, MessageOnce, EntryOnce, SubmitsOnce

-----------------------------------------------------------------------------
(* What is executed is in the log.                                         *)

\* Peer p has committed position i, which has call c.
InLog(p, i, c) == i \in 1 .. committed[p] /\ log[i].type = "storage" /\ log[i].call = c

Traced ==
    /\ \A p \in Peers : \A t \in Todo(executor[p]) : InLog(p, t.index, t.entry.call)
    /\ \A i \in 1 .. Len(executed) :
        InLog(executed[i].by, executed[i].index, executed[i].entry.call)

(* No election takes away what was committed.                              *)
LEMMA PrefixStays ==
    ASSUME Inv, Book, Data, [Next]_vars
    PROVE  \A p \in Peers : \A i, c : InLog(p, i, c) => InLog(p, i, c)'
<1> SUFFICES ASSUME NEW p \in Peers, NEW i, NEW c, InLog(p, i, c) PROVE InLog(p, i, c)'
  OBVIOUS
<1>0. /\ Book' /\ committed[p] \in Nat /\ committed'[p] \in Nat /\ committed[p] <= Len(log)
      /\ Len(log) \in Nat /\ i \in Nat /\ i >= 1 /\ i <= committed[p]
      /\ i \in 1 .. Len(log)
  BY BookStep DEF InLog, Book, LogOK
<1>1. committed[p] <= committed'[p] /\ log'[i] = log[i]
  <2>1. CASE NothingSubmitted
    BY <2>1 DEF NothingSubmitted
  <2>2. CASE LeaderMoves
    <3>1. committed' = committed
      BY <2>2 DEF LeaderMoves
    <3>2. PICK q \in Peers : Elect(q) \/ LearnLeader(q)
      BY <2>2 DEF LeaderMoves
    <3>3. CASE Elect(q)
      <4>0. PICK n \in {committed[x] : x \in Peers} \cup {Len(log)} :
                /\ \A x \in Peers : committed[x] <= n
                /\ log' = SubSeq(log, 1, n)
        BY <3>3 DEF Elect
      <4>1. n \in 0 .. Len(log) /\ log' = SubSeq(log, 1, n) /\ committed[p] <= n
        BY <4>0 DEF Book, LogOK
      <4>2. i \in 1 .. n
        BY <1>0, <4>1
      <4> QED
        BY <1>0, <3>1, <4>1, <4>2 DEF Book, LogOK
    <3>4. CASE LearnLeader(q)
      BY <1>0, <3>1, <3>4 DEF LearnLeader
    <3> QED
      BY <3>2, <3>3, <3>4
  <2>3. ASSUME NEW e, log' = log \/ log' = Append(log, e) PROVE log'[i] = log[i]
    <3>1. i \in 1 .. Len(log')
      <4>1. CASE log' = log
        BY <1>0, <4>1
      <4>2. CASE log' = Append(log, e)
        BY <1>0, <4>2 DEF Book, LogOK
      <4> QED
        BY <2>3, <4>1, <4>2
    <3> QED
      BY <1>0, <2>3, <3>1, LogGets DEF Book
  <2>4. ASSUME NEW m \in net, TakesMessage(m) PROVE committed[p] <= committed'[p] /\ log'[i] = log[i]
    <3>1. log' = log \/ log' = Append(log, m.entry)
      BY <2>4 DEF TakesMessage
    <3> QED
      BY <1>0, <2>3, <2>4, <3>1 DEF TakesMessage
  <2>5. ASSUME NEW q \in Peers, NEW e, TakesEntry(q, e) PROVE committed[p] <= committed'[p] /\ log'[i] = log[i]
    <3>1. log' = log \/ log' = Append(log, StorageEntry(e.call))
      BY <2>5 DEF TakesEntry
    <3>2. committed' = [committed EXCEPT ![q] = @ + 1]
      BY <2>5 DEF TakesEntry
    <3>3. committed[p] <= committed'[p]
      BY <1>0, <3>2 DEF Inv
    <3> QED
      BY <2>3, <3>1, <3>3
  <2>6. ASSUME NEW q, NEW d, NEW n, NEW entry, Submits(q, d, n, entry)
        PROVE committed[p] <= committed'[p] /\ log'[i] = log[i]
    <3>1. (log' = log \/ log' = Append(log, entry)) /\ UNCHANGED committed
      BY <2>6 DEF Submits
    <3> QED
      BY <1>0, <2>3, <3>1
  <2> QED
    BY <2>1, <2>2, <2>4, <2>5, <2>6, WhatSteps
<1>2. i \in 1 .. committed'[p]
  BY <1>0, <1>1
<1> QED
  BY <1>1, <1>2 DEF InLog

\* Tasks of p that are new
Starts(p, u) ==
    /\ committed'[p] = committed[p] + 1 /\ committed[p] < Len(log)
    /\ u.index = committed[p] + 1 /\ UNCHANGED log
    /\ log[u.index].type = "storage" /\ u.entry.call = log[u.index].call

\* Nothing is executed but tasks of peer p, which gets nothing new but u.
Works(p, u) ==
    /\ executed' = executed \/ \E t \in Todo(executor[p]) : \E a :
        executed' = Append(executed, [index |-> t.index, by |-> p, entry |-> t.entry, answer |-> a])
    /\ \A q \in Peers \ {p} : executor'[q] = executor[q]
    /\ \A v \in Todo(executor'[p]) :
        \/ \E t \in Todo(executor[p]) : v.index = t.index /\ v.entry = t.entry
        \/ v = u /\ Starts(p, u)

(* A commit starts the task of the committed position,                     *)
LEMMA CommitWorks == ASSUME Inv, Book, NEW p \in Peers, Commit(p) PROVE \E u : Works(p, u)
<1>1. PICK i, x, e : i = committed[p] + 1 /\ x = executor[p] /\ e = log[i]
  OBVIOUS
<1>2. PICK t : t = Task(i, [call |-> e.call, source |-> e.source,
                            request |-> Decoded[<<calls[e.call].request, e.call, e.source>>]])
  OBVIOUS
<1>3. UNCHANGED executed
  BY DEF Commit
<1>4. \/ executor' = executor
      \/ /\ e.type = "storage" /\ executor' = [executor EXCEPT ![p] = execute(x, t)]
         /\ UNCHANGED log
  BY <1>1, <1>2 DEF Commit
<1>5. CASE executor' = executor
  BY <1>3, <1>5 DEF Works
<1>6. CASE e.type = "storage" /\ executor' = [executor EXCEPT ![p] = execute(x, t)] /\ UNCHANGED log
  <2>1. WellOrdered(x)
    BY <1>1 DEF Inv, PeerInOrder
  <2>2. \A u \in Todo(execute(x, t)) : u \in Todo(x) \/ u = t
    BY <2>1, ExecuteStarts DEF Todo
  <2>3. executor'[p] = execute(x, t) /\ \A q \in Peers \ {p} : executor'[q] = executor[q]
    BY <1>6 DEF Inv
  <2>4. Starts(p, t)
    <3>1. t.index = i /\ t.entry.call = e.call
      BY <1>2 DEF Task
    <3>2. committed'[p] = committed[p] + 1 /\ committed[p] < Len(log)
      BY DEF Inv, Commit, CommitNext
    <3> QED
      BY <1>1, <1>6, <3>1, <3>2 DEF Starts
  <2> QED
    BY <1>1, <1>3, <2>2, <2>3, <2>4 DEF Works
<1> QED
  BY <1>4, <1>5, <1>6

(* a failure starts none,                                                  *)
LEMMA FailWorks == ASSUME Inv, NEW p \in Peers, FailExternal(p) PROVE \E u : Works(p, u)
<1>1. PICK t \in executor[p].running : executor' = [executor EXCEPT ![p] = postProcess(executor[p], t)]
  BY DEF FailExternal
<1>2. WellOrdered(executor[p]) /\ UNCHANGED executed
  BY DEF Inv, PeerInOrder, FailExternal
<1>3. \A u \in Todo(executor'[p]) : u \in Todo(executor[p])
  BY <1>1, <1>2, PostProcessStarts DEF Todo, Inv
<1>4. \A q \in Peers \ {p} : executor'[q] = executor[q]
  BY <1>1
<1> QED
  BY <1>2, <1>3, <1>4 DEF Works

(* nor does a read,                                                        *)
LEMMA ReadWorks == ASSUME Inv, NEW p \in Peers, ReadExternal(p) PROVE \E u : Works(p, u)
<1>1. PICK x : x = executor[p]
  OBVIOUS
<1>2. WellOrdered(x)
  BY <1>1 DEF Inv, PeerInOrder
<1>3. PICK t \in x.running :
        /\ executor' = [executor EXCEPT ![p].running = (@ \ {t}) \cup {Read(store, t)}]
        /\ UNCHANGED executed
  BY <1>1 DEF ReadExternal
<1>4. PICK u, y : u = Read(store, t) /\ y = [x EXCEPT !.running = (@ \ {t}) \cup {u}]
  OBVIOUS
<1>5. IsTask(t)
  BY <1>2 DEF WellOrdered, Todo
<1>6. u.entry = t.entry /\ u.index = t.index
  BY <1>4, <1>5 DEF Read, IsTask
<1>7. \A v \in Todo(y) : v \in Todo(x) \/ v = u
  <2>1. y.running = (x.running \ {t}) \cup {u} /\ y.tasks = x.tasks
    BY <1>2, <1>4 DEF WellOrdered, IsExecutor
  <2> QED
    BY <2>1 DEF Todo, Waiting
<1>8. executor' = [executor EXCEPT ![p] = y]
  BY <1>1, <1>3, <1>4
<1>9. executor'[p] = y /\ \A q \in Peers \ {p} : executor'[q] = executor[q]
  BY <1>8 DEF Inv
<1>10. t \in Todo(x)
  BY DEF Todo
<1> QED
  BY <1>1, <1>3, <1>6, <1>7, <1>9, <1>10 DEF Works

(* nor a write, which is the execution of a task.                          *)
LEMMA WriteWorks == ASSUME Inv, NEW p \in Peers, WriteExternal(p) PROVE \E u : Works(p, u)
<1>1. PICK t \in executor[p].running :
        /\ executor' = [executor EXCEPT ![p] = postProcess(executor[p], t)]
        /\ executed' = Append(executed, [index |-> t.index, by |-> p, entry |-> t.entry,
                                         answer |-> Write(store, t).answer])
  BY DEF WriteExternal
<1>2. WellOrdered(executor[p])
  BY DEF Inv, PeerInOrder
<1>3. \A u \in Todo(executor'[p]) : u \in Todo(executor[p])
  BY <1>1, <1>2, PostProcessStarts DEF Todo, Inv
<1>4. \A q \in Peers \ {p} : executor'[q] = executor[q]
  BY <1>1
<1>5. t \in Todo(executor[p])
  BY DEF Todo
<1> QED
  BY <1>1, <1>3, <1>4, <1>5 DEF Works

(* One peer works at a time, or none.                                      *)
LEMMA WhoWorks ==
    ASSUME Inv, Book, [Next]_vars
    PROVE  UNCHANGED <<executor, executed>> \/ \E p \in Peers : \E u : Works(p, u)
<1> DEFINE Goal == UNCHANGED <<executor, executed>> \/ \E p \in Peers : \E u : Works(p, u)
<1>1. setting.peers \subseteq Peers
  BY GridAssumption DEF Inv
<1>2. CASE UNCHANGED vars
  BY <1>2 DEF vars, remote
<1>3. ASSUME NEW p \in Peers, NEW o, Invoke(p, o) PROVE Goal
  BY <1>3 DEF Invoke, remote
<1>4. ASSUME NEW id, Expire(id) PROVE Goal
  BY <1>4 DEF Expire, remote
<1>5. ASSUME NEW m, \/ ReceiveSubmit(m) \/ ReceiveSubmitResponse(m) \/ ReceiveOngoing(m)
                    \/ ReceiveResponse(m) \/ Lose(m)
      PROVE  Goal
  BY <1>5 DEF ReceiveSubmit, ReceiveSubmitResponse, ReceiveOngoing, ReceiveResponse, Lose, remote
<1>6. ASSUME NEW p \in Peers, Notify(p) \/ Elect(p) \/ LearnLeader(p) \/ Close(p) PROVE Goal
  BY <1>6 DEF Notify, Elect, LearnLeader, Close, remote
<1>7. ASSUME NEW p \in Peers,
             Commit(p) \/ ReadExternal(p) \/ WriteExternal(p) \/ FailExternal(p)
      PROVE  Goal
  BY <1>7, CommitWorks, ReadWorks, WriteWorks, FailWorks
<1> QED
  BY <1>1, <1>2, <1>3, <1>4, <1>5, <1>6, <1>7 DEF Next

(* Nothing is executed at first.                                           *)
LEMMA InitTraced == Init => Traced
<1> SUFFICES ASSUME Init PROVE Traced
  OBVIOUS
<1>1. ASSUME NEW p \in Peers PROVE Todo(executor[p]) = {}
  <2>1. executor[p].tasks = <<>> /\ executor[p].running = {}
    BY DEF Init, NewExecutor
  <2> QED
    BY <2>1 DEF Todo, Waiting
<1>2. 1 .. Len(executed) = {}
  BY DEF Init
<1>3. \A p \in Peers : \A t \in Todo(executor[p]) : InLog(p, t.index, t.entry.call)
  BY <1>1
<1>4. \A i \in 1 .. Len(executed) : InLog(executed[i].by, executed[i].index, executed[i].entry.call)
  BY <1>2
<1> QED
  BY <1>3, <1>4 DEF Traced

(* Every step keeps it.                                                    *)
LEMMA TracedStep == Inv /\ Book /\ Data /\ Traced /\ [Next]_vars => Traced'
<1> SUFFICES ASSUME Inv, Book, Data, Traced, [Next]_vars PROVE Traced'
  OBVIOUS
<1>1. \A p \in Peers : \A i, c : InLog(p, i, c) => InLog(p, i, c)'
  BY PrefixStays
<1>2. \A i \in 1 .. Len(executed) : executed[i].by \in Peers
  BY DEF Inv, DoneBefore
<1>3. CASE UNCHANGED <<executor, executed>>
  BY <1>1, <1>2, <1>3 DEF Traced
<1>4. ASSUME NEW p \in Peers, NEW u, Works(p, u) PROVE Traced'
  <2>1. ASSUME Starts(p, u) PROVE InLog(p, u.index, u.entry.call)'
    <3>1. committed[p] \in Nat
      BY DEF Book, LogOK
    <3>2. u.index \in 1 .. committed'[p]
      BY <2>1, <3>1 DEF Starts
    <3> QED
      BY <2>1, <3>2 DEF Starts, InLog
  <2>2. ASSUME NEW q \in Peers, NEW v \in Todo(executor'[q])
        PROVE  InLog(q, v.index, v.entry.call)'
    <3>1. CASE q # p
      BY <1>1, <1>4, <2>2, <3>1 DEF Works, Traced
    <3>2. CASE q = p
      <4>1. CASE v = u /\ Starts(p, u)
        BY <2>1, <3>2, <4>1
      <4>2. ASSUME NEW t \in Todo(executor[p]), v.index = t.index, v.entry = t.entry
            PROVE  InLog(q, v.index, v.entry.call)'
        <5>1. PICK i, c : i = v.index /\ c = v.entry.call
          OBVIOUS
        <5>2. InLog(p, i, c)
          BY <4>2, <5>1 DEF Traced
        <5>3. InLog(p, i, c)'
          BY <1>1, <5>2
        <5> QED
          BY <3>2, <5>1, <5>3
      <4> QED
        BY <1>4, <2>2, <3>2, <4>1, <4>2 DEF Works
    <3> QED
      BY <3>1, <3>2
  <2>3. ASSUME NEW i \in 1 .. Len(executed')
        PROVE  InLog(executed[i].by, executed[i].index, executed[i].entry.call)'
    <3>1. CASE i \in 1 .. Len(executed) /\ executed'[i] = executed[i]
      <4>1. PICK q, k, c : q \in Peers /\ q = executed[i].by /\ k = executed[i].index /\ c = executed[i].entry.call
        BY <1>2, <3>1
      <4>2. InLog(q, k, c)
        BY <3>1, <4>1 DEF Traced
      <4>3. InLog(q, k, c)'
        BY <1>1, <4>1, <4>2
      <4>4. executed'[i].by = q /\ executed'[i].index = k /\ executed'[i].entry.call = c
        BY <3>1, <4>1
      <4> QED
        BY <4>3, <4>4
    <3>2. ASSUME NEW t \in Todo(executor[p]), NEW a,
                 executed'[i] = [index |-> t.index, by |-> p, entry |-> t.entry, answer |-> a]
          PROVE  InLog(executed[i].by, executed[i].index, executed[i].entry.call)'
      <4>1. PICK k, c : k = t.index /\ c = t.entry.call
        OBVIOUS
      <4>2. InLog(p, k, c)
        BY <4>1 DEF Traced
      <4>3. InLog(p, k, c)'
        BY <1>1, <4>2
      <4>4. executed'[i].by = p /\ executed'[i].index = k /\ executed'[i].entry.call = c
        BY <3>2, <4>1
      <4> QED
        BY <4>3, <4>4
    <3>3. CASE executed' = executed
      BY <2>3, <3>1, <3>3
    <3>4. ASSUME NEW t \in Todo(executor[p]), NEW a, NEW e,
                 e = [index |-> t.index, by |-> p, entry |-> t.entry, answer |-> a],
                 executed' = Append(executed, e)
          PROVE  InLog(executed[i].by, executed[i].index, executed[i].entry.call)'
      <4>1. /\ Len(executed) \in Nat /\ Len(executed') = Len(executed) + 1
            /\ \A j \in 1 .. Len(executed) : executed'[j] = executed[j]
            /\ executed'[Len(executed) + 1] = e
        BY <3>4 DEF Inv
      <4>2. i \in 1 .. Len(executed) \/ i = Len(executed) + 1
        BY <2>3, <4>1
      <4> QED
        BY <3>1, <3>2, <3>4, <4>1, <4>2
    <3> QED
      BY <1>4, <3>3, <3>4 DEF Works
  <2> QED
    BY <2>2, <2>3 DEF Traced
<1> QED
  BY <1>3, <1>4, WhoWorks

\* All of it
GridInv == Inv /\ Book /\ Data /\ Asked /\ LoggedOnce /\ Traced

(* The invariant holds at first,                                           *)
LEMMA GridInvInit == Init => GridInv
  BY InitOK, BookInit, InitData, InitAsked, InitOnce, InitTraced DEF GridInv

(* and every step keeps it.                                                *)
LEMMA GridInvStep == GridInv /\ [Next]_vars => GridInv'
  BY NextOK, BookStep, DataStep, AskedStep, OnceStep, TracedStep DEF GridInv

\* A peer executes a call at one position of the log, and each position once.
LEMMA OneExecution ==
    ASSUME GridInv, NEW i \in 1 .. Len(executed), NEW j \in 1 .. Len(executed),
           executed[i].by = executed[j].by, executed[i].entry.call = executed[j].entry.call
    PROVE  i = j
<1>1. PICK p, c, a, b : /\ p = executed[i].by /\ c = executed[i].entry.call
                        /\ a = executed[i].index /\ b = executed[j].index
  OBVIOUS
<1>2. InLog(p, a, c) /\ InLog(p, b, c)
  BY <1>1 DEF GridInv, Traced
<1>3. p \in Peers /\ a \in Nat /\ b \in Nat
  BY <1>1 DEF GridInv, Inv, DoneBefore
<1>4. a \in 1 .. Len(log) /\ b \in 1 .. Len(log)
  BY <1>2, <1>3 DEF GridInv, Book, LogOK, InLog
<1>5. LogHas(c, a) /\ LogHas(c, b)
  BY <1>2, <1>4 DEF InLog, LogHas
<1>6. c \in Calls
  BY <1>1 DEF GridInv, Data, DoneOK, Begun
<1>7. a = b
  BY <1>5, <1>6 DEF GridInv, LoggedOnce, Once
<1>8. \A x, y \in 1 .. Len(executed) :
        x < y /\ executed[x].by = executed[y].by => executed[x].index < executed[y].index
  BY DEF GridInv, Inv
<1>9. ASSUME i < j PROVE FALSE
  <2>1. executed[i].index < executed[j].index
    BY <1>8, <1>9
  <2> QED
    BY <1>1, <1>3, <1>7, <2>1
<1>10. ASSUME j < i PROVE FALSE
  <2>1. executed[j].index < executed[i].index
    BY <1>8, <1>10
  <2> QED
    BY <1>1, <1>3, <1>7, <2>1
<1>11. i \in Int /\ j \in Int
  OBVIOUS
<1> QED
  BY <1>9, <1>10, <1>11

(* No peer executes a call twice.  A call is submitted again only when the *)
(* entry of its submission before is lost, so the log has its request      *)
(* once, and a peer executes each position of the log at most once.        *)
THEOREM CallsExecuteOnce == Spec => []ExecutedOnce
<1>1. GridInv => ExecutedOnce
  <2> SUFFICES ASSUME GridInv, NEW i \in DOMAIN executed, NEW j \in DOMAIN executed,
                      executed[i].by = executed[j].by,
                      executed[i].entry.call = executed[j].entry.call
               PROVE  i = j
    BY DEF ExecutedOnce
  <2>1. DOMAIN executed = 1 .. Len(executed)
    BY DEF GridInv, Inv
  <2> QED
    BY <2>1, OneExecution
<1> QED
  BY <1>1, GridInvInit, GridInvStep, PTL DEF Spec

-----------------------------------------------------------------------------
(* Answers that come from an execution.                                    *)

\* The i-th execution in es is that of call c by peer p.
DoneBy(es, i, p, c) == i \in 1 .. Len(es) /\ es[i].by = p /\ es[i].entry.call = c

ResponseTo(e) == Response(e.entry.request, e.answer)
Chunked(e, size) == Chunker!apply(ResponseTo(e), size, size)

\* x is a chunk of p's response to call c,
PartOf(es, size, p, c, x) ==
    \E i : DoneBy(es, i, p, c) /\ \E j \in DOMAIN Chunked(es[i], size) : x = Chunked(es[i], size)[j]

\* got has only chunks of it,
Collects(es, size, p, c, got) ==
    \E i : /\ DoneBy(es, i, p, c)
           /\ \E N : /\ Cut(ResponseTo(es[i]), size, N, Chunked(es[i], size))
                     /\ Gathers(got, N, Chunked(es[i], size))

\* and f is the whole of it.
IsAnswer(es, p, c, f) == \E i : DoneBy(es, i, p, c) /\ f = ListsOf(ResponseTo(es[i]))

Answered(es, c, r) ==
    /\ \A p \in DOMAIN r.responses : IsAnswer(es, p, c, r.responses[p])
    /\ r.state = "resolved" => DOMAIN r.responses # {}

GoodGrid(es, size, g) ==
    /\ \A key \in DOMAIN g.responses : \E p : \E c \in Calls :
        key = <<p, StorageId(c)>> /\ Collects(es, size, p, c, g.responses[key])
    /\ \A c \in Calls : StorageId(c) \in DOMAIN g.requests =>
        Answered(es, c, g.requests[StorageId(c)])

\* What a call has got is what its executions answered.
Truthful(es, k, c) ==
    k.status = "resolved" =>
        /\ k.result # {}
        /\ \A x \in k.result : \E i : DoneBy(es, i, x[1], c) /\ x[2] = Payload(k.request, es[i].answer)

\* No peer executes a call twice, and responses can be cut.
Distinct(es, size) ==
    /\ \A i, j, p, c : DoneBy(es, i, p, c) /\ DoneBy(es, j, p, c) => i = j
    /\ size \in Nat /\ \A i \in 1 .. Len(es) : HasLists(ResponseTo(es[i]))

\* fs goes on from es.
GoesOn(es, fs) ==
    /\ Len(es) \in Nat /\ Len(fs) \in Nat /\ Len(es) <= Len(fs)
    /\ \A i \in 1 .. Len(es) : fs[i] = es[i]

(* What comes from executions still comes from them when there are more.   *)
LEMMA GoesOnIs ==
    ASSUME NEW es, NEW fs, GoesOn(es, fs)
    PROVE  /\ \A i, p, c : DoneBy(es, i, p, c) => DoneBy(fs, i, p, c) /\ fs[i] = es[i]
           /\ \A size, p, c, x : PartOf(es, size, p, c, x) => PartOf(fs, size, p, c, x)
           /\ \A size, g : GoodGrid(es, size, g) => GoodGrid(fs, size, g)
           /\ \A k, c : Truthful(es, k, c) => Truthful(fs, k, c)
<1>1. ASSUME NEW i, NEW p, NEW c, DoneBy(es, i, p, c)
      PROVE  DoneBy(fs, i, p, c) /\ fs[i] = es[i]
  <2>1. i \in 1 .. Len(fs) /\ fs[i] = es[i]
    BY <1>1 DEF GoesOn, DoneBy
  <2> QED
    BY <1>1, <2>1 DEF DoneBy
<1>2. \A size, p, c, x : PartOf(es, size, p, c, x) => PartOf(fs, size, p, c, x)
  BY <1>1 DEF PartOf
<1>3. \A size, p, c, got : Collects(es, size, p, c, got) => Collects(fs, size, p, c, got)
  BY <1>1 DEF Collects
<1>4. \A p, c, f : IsAnswer(es, p, c, f) => IsAnswer(fs, p, c, f)
  BY <1>1 DEF IsAnswer
<1>5. \A c, r : Answered(es, c, r) => Answered(fs, c, r)
  BY <1>4 DEF Answered
<1>6. ASSUME NEW size, NEW g, GoodGrid(es, size, g) PROVE GoodGrid(fs, size, g)
  <2>1. \A key \in DOMAIN g.responses : \E p : \E c \in Calls :
            key = <<p, StorageId(c)>> /\ Collects(fs, size, p, c, g.responses[key])
    BY <1>3, <1>6 DEF GoodGrid
  <2>2. \A c \in Calls : StorageId(c) \in DOMAIN g.requests => Answered(fs, c, g.requests[StorageId(c)])
    BY <1>5, <1>6 DEF GoodGrid
  <2> QED
    BY <2>1, <2>2 DEF GoodGrid
<1>7. ASSUME NEW k, NEW c, Truthful(es, k, c) PROVE Truthful(fs, k, c)
  BY <1>1, <1>7 DEF Truthful
<1> QED
  BY <1>1, <1>2, <1>6, <1>7

(* A request settles with an answer.                                       *)
LEMMA SettleGood ==
    ASSUME NEW es, NEW size, NEW g, IsGrid(g), GoodGrid(es, size, g), NEW c \in Calls, NEW p, NEW f,
           StorageId(c) \in DOMAIN g.requests => IsPending(g.requests[StorageId(c)]),
           IsAnswer(es, p, c, f)
    PROVE  GoodGrid(es, size, Settle(g, StorageId(c), p, f))
<1>1. PICK id, h : id = StorageId(c) /\ h = Settle(g, id, p, f)
  OBVIOUS
<1>2. CASE h = g
  BY <1>1, <1>2
<1>3. CASE h # g
  <2>1. PICK r, a : r = g.requests[id] /\ a = accept(r, p, f)
    OBVIOUS
  <2>2. id \in DOMAIN g.requests /\ ~completed(r) /\ h = [g EXCEPT !.requests[id] = a]
    BY <1>1, <1>3, <2>1 DEF Settle
  <2>3. h.responses = g.responses /\ h.requests = [g.requests EXCEPT ![id] = a]
    BY <2>2 DEF IsGrid
  <2>4. IsPending(r)
    BY <1>1, <2>1, <2>2
  <2>5. a.responses = [s \in DOMAIN r.responses \cup {p} |-> IF s = p THEN f ELSE r.responses[s]]
    <3>1. PICK y : y = [r EXCEPT !.responses = [s \in DOMAIN @ \cup {p} |-> IF s = p THEN f ELSE @[s]],
                                 !.receivedResponses = IF r.neededResponses > 0 THEN @ + 1 ELSE @]
      OBVIOUS
    <3>2. y.responses = [s \in DOMAIN r.responses \cup {p} |-> IF s = p THEN f ELSE r.responses[s]]
      BY <2>4, <3>1 DEF IsPending
    <3>3. y = [neededResponses |-> y.neededResponses, remotePeers |-> y.remotePeers,
               responses |-> y.responses, receivedResponses |-> y.receivedResponses,
               state |-> y.state, postponed |-> y.postponed]
      BY <2>4, <3>1 DEF IsPending
    <3>4. a = [y EXCEPT !.state = "resolved"] \/ a = y
      BY <2>1, <2>2, <3>1 DEF accept
    <3> QED
      BY <3>2, <3>3, <3>4
  <2>6. Answered(es, c, r)
    BY <1>1, <2>1, <2>2 DEF GoodGrid
  <2>7. Answered(es, c, a)
    <3>1. DOMAIN a.responses # {} /\ \A s \in DOMAIN a.responses :
            (s = p /\ a.responses[s] = f) \/ (s \in DOMAIN r.responses /\ a.responses[s] = r.responses[s])
      BY <2>5
    <3> QED
      BY <2>6, <3>1 DEF Answered
  <2>8. \A d \in Calls : StorageId(d) = id => d = c
    BY <1>1 DEF StorageId
  <2>9. \A d \in Calls : StorageId(d) \in DOMAIN h.requests => Answered(es, d, h.requests[StorageId(d)])
    BY <1>1, <2>2, <2>3, <2>7, <2>8 DEF GoodGrid
  <2> QED
    BY <1>1, <2>3, <2>9 DEF GoodGrid
<1> QED
  BY <1>2, <1>3

\* The same responses, so far
SameResponses(r, s) == s.responses = r.responses /\ (s.state = "resolved" => r.state = "resolved")

\* h has what g has, and answers none but those.
LEMMA GoodOn ==
    ASSUME NEW es, NEW size, NEW g, GoodGrid(es, size, g), NEW h,
           DOMAIN h.responses \subseteq DOMAIN g.responses,
           \A key \in DOMAIN h.responses : h.responses[key] = g.responses[key],
           \A c \in Calls : StorageId(c) \in DOMAIN h.requests =>
                /\ StorageId(c) \in DOMAIN g.requests
                /\ SameResponses(g.requests[StorageId(c)], h.requests[StorageId(c)])
    PROVE  GoodGrid(es, size, h)
<1>1. \A key \in DOMAIN h.responses : \E p : \E c \in Calls :
        key = <<p, StorageId(c)>> /\ Collects(es, size, p, c, h.responses[key])
  BY DEF GoodGrid
<1>2. ASSUME NEW c \in Calls, StorageId(c) \in DOMAIN h.requests PROVE Answered(es, c, h.requests[StorageId(c)])
  <2>1. PICK r, s : r = g.requests[StorageId(c)] /\ s = h.requests[StorageId(c)]
    OBVIOUS
  <2>2. Answered(es, c, r) /\ SameResponses(r, s)
    BY <1>2, <2>1 DEF GoodGrid
  <2>3. Answered(es, c, s)
    BY <2>2 DEF Answered, SameResponses
  <2> QED
    BY <2>1, <2>3
<1> QED
  BY <1>1, <1>2 DEF GoodGrid

(* Timers and notifications change no responses.                           *)
LEMMA TimersKeepResponses ==
    ASSUME NEW r, IsPending(r)
    PROVE  /\ SameResponses(r, postponeTimeout(r)) /\ SameResponses(r, reject(r))
           /\ SameResponses(r, expire(r)) /\ SameResponses(r, r)
<1>1. PICK x, y, z : /\ x = [r EXCEPT !.postponed = TRUE] /\ y = [r EXCEPT !.state = "rejected"]
                     /\ z = [r EXCEPT !.postponed = FALSE]
  OBVIOUS
<1>2. SameResponses(r, x) /\ SameResponses(r, y) /\ SameResponses(r, z) /\ SameResponses(r, r)
  BY <1>1 DEF IsPending, SameResponses
<1>3. postponeTimeout(r) = x /\ reject(r) \in {r, y} /\ expire(r) \in {z, reject(r)}
  BY <1>1 DEF postponeTimeout, reject, expire
<1> QED
  BY <1>2, <1>3

\* The pending requests of g are that.
Pends(g) == \A c \in Calls : StorageId(c) \in DOMAIN g.requests => IsPending(g.requests[StorageId(c)])

\* m is a response to call c, or a chunk of one.
Belongs(es, size, m, c) ==
    c \in Calls /\ m.id = StorageId(c) /\ PartOf(es, size, m.from, c, m.response)

\* A chunk is gathered with those of the same response, and the last one completes it.
LEMMA ProcessGood ==
    ASSUME NEW es, NEW size, Distinct(es, size), NEW g, IsGrid(g), Pends(g), GoodGrid(es, size, g),
           NEW m, NEW c, Belongs(es, size, m, c)
    PROVE  GoodGrid(es, size, processResponse(g, m))
<1>1. PICK id, p, r, key, got : /\ id = m.id /\ p = m.from /\ r = m.response /\ key = <<p, id>>
                                /\ got = Chunker!acceptChunk(Get(g.responses, key, Chunker!NoChunks), r)
  OBVIOUS
<1>2. c \in Calls /\ id = StorageId(c) /\ PartOf(es, size, p, c, r)
  BY <1>1 DEF Belongs
<1>3. PICK i : DoneBy(es, i, p, c) /\ \E j \in DOMAIN Chunked(es[i], size) : r = Chunked(es[i], size)[j]
  BY <1>2 DEF PartOf
<1>4. PICK e, ch : e = ResponseTo(es[i]) /\ ch = Chunked(es[i], size)
  OBVIOUS
<1>5. PICK j \in DOMAIN ch : r = ch[j]
  BY <1>3, <1>4
<1>6. HasLists(e) /\ size \in Nat
  BY <1>3, <1>4 DEF Distinct, DoneBy
<1>7. ch = <<Chunker!Whole(e)>> \/ \E N : Cut(e, size, N, ch)
  BY <1>4, <1>6, ApplyIs DEF Chunked
<1>8. IsAnswer(es, p, c, ListsOf(e))
  BY <1>3, <1>4 DEF IsAnswer
<1>9. CASE ch = <<Chunker!Whole(e)>>
  <2>1. r = Chunker!Whole(e)
    <3>1. DOMAIN ch = {1} /\ ch[1] = Chunker!Whole(e)
      BY <1>9
    <3> QED
      BY <1>5, <3>1
  <2>2. r.sequence = -1 /\ r.keys = e.keys /\ r.values = e.values
    BY <2>1 DEF Chunker!Whole
  <2>3. processResponse(g, m) = Settle(g, id, p, ListsOf(e))
    BY <1>1, <2>2 DEF processResponse, ListsOf
  <2> QED
    BY <1>2, <1>8, <2>3, SettleGood DEF Pends
<1>10. ASSUME NEW N, Cut(e, size, N, ch) PROVE GoodGrid(es, size, processResponse(g, m))
  <2>1. j \in 1 .. N /\ r.sequence = j - 1 /\ r.lastMessage = (j = N) /\ N \in Nat /\ N >= 2
    BY <1>5, <1>10 DEF Cut
  <2>2. ~(r.sequence = -1 \/ (r.sequence = 0 /\ r.lastMessage))
    <3>1. r.sequence # -1 /\ (r.sequence = 0 => j # N)
      BY <2>1
    <3>2. j # N => r.lastMessage = FALSE
      BY <2>1
    <3> QED
      BY <3>1, <3>2
  <2>3. PICK old : old = Get(g.responses, key, Chunker!NoChunks)
    OBVIOUS
  <2>4. Gathers(old, N, ch)
    <3>1. CASE key \in DOMAIN g.responses
      <4>1. old = g.responses[key]
        BY <2>3, <3>1 DEF Get
      <4>1a. PICK q : \E d \in Calls : key = <<q, StorageId(d)>> /\ Collects(es, size, q, d, old)
        BY <3>1, <4>1 DEF GoodGrid
      <4>2. PICK d \in Calls : key = <<q, StorageId(d)>> /\ Collects(es, size, q, d, old)
        BY <4>1a
      <4>3. q = p /\ d = c
        BY <1>1, <1>2, <4>2 DEF StorageId
      <4>4. PICK k : /\ DoneBy(es, k, p, c)
                     /\ \E M : /\ Cut(ResponseTo(es[k]), size, M, Chunked(es[k], size))
                               /\ Gathers(old, M, Chunked(es[k], size))
        BY <4>2, <4>3 DEF Collects
      <4>5. k = i
        BY <1>3, <4>4 DEF Distinct
      <4>6. PICK M : Cut(e, size, M, ch) /\ Gathers(old, M, ch)
        BY <1>4, <4>4, <4>5
      <4>7. M = N
        BY <1>10, <4>6 DEF Cut
      <4> QED
        BY <4>6, <4>7
    <3>2. CASE key \notin DOMAIN g.responses
      BY <2>3, <3>2, GathersNothing DEF Get
    <3> QED
      BY <3>1, <3>2
  <2>5. Gathers(got, N, ch)
    BY <1>1, <1>5, <1>10, <2>1, <2>3, <2>4, GathersOneMore
  <2>6. CASE Chunker!isAssembled(got)
    <3>1. Chunker!result(got) = ListsOf(e)
      BY <1>10, <2>5, <2>6, AssembledIs
    <3>2. PICK h : h = [g EXCEPT !.responses = Without(@, {key})]
      OBVIOUS
    <3>3. IsGrid(h) /\ h.requests = g.requests /\ h.responses = Without(g.responses, {key})
      BY <3>2 DEF IsGrid
    <3>4. DOMAIN h.responses \subseteq DOMAIN g.responses
          /\ \A x \in DOMAIN h.responses : h.responses[x] = g.responses[x]
      BY <3>3 DEF Without
    <3>5. GoodGrid(es, size, h) /\ Pends(h)
      <4>1. \A d \in Calls : StorageId(d) \in DOMAIN h.requests =>
                SameResponses(g.requests[StorageId(d)], h.requests[StorageId(d)])
        BY <3>3, TimersKeepResponses DEF Pends
      <4> QED
        BY <3>3, <3>4, <4>1, GoodOn DEF Pends
    <3>6. processResponse(g, m) = Settle(h, id, p, ListsOf(e))
      BY <1>1, <2>2, <2>6, <3>1, <3>2 DEF processResponse
    <3> QED
      BY <1>2, <1>8, <3>3, <3>5, <3>6, SettleGood DEF Pends
  <2>7. CASE ~Chunker!isAssembled(got)
    <3>1. PICK h : h = [g EXCEPT !.responses = With(@, key, got)]
      OBVIOUS
    <3>2. IsGrid(h) /\ h.requests = g.requests /\ h.responses = With(g.responses, key, got)
      BY <3>1 DEF IsGrid
    <3>3. Collects(es, size, p, c, got)
      BY <1>3, <1>4, <1>10, <2>5 DEF Collects
    <3>4. GoodGrid(es, size, h)
      <4>1. ASSUME NEW x \in DOMAIN h.responses
            PROVE  \E q : \E d \in Calls : x = <<q, StorageId(d)>> /\ Collects(es, size, q, d, h.responses[x])
        <5>1. CASE x = key
          <6>1. h.responses[x] = got
            BY <3>2, <5>1 DEF With
          <6> QED
            BY <1>1, <1>2, <3>3, <5>1, <6>1
        <5>2. CASE x # key
          <6>1. x \in DOMAIN g.responses /\ h.responses[x] = g.responses[x]
            BY <3>2, <4>1, <5>2 DEF With
          <6> QED
            BY <6>1 DEF GoodGrid
        <5> QED
          BY <5>1, <5>2
      <4> QED
        BY <3>2, <4>1 DEF GoodGrid
    <3>5. processResponse(g, m) = Postpone(h, id)
      BY <1>1, <2>2, <2>7, <3>1 DEF processResponse
    <3>6. CASE id \in DOMAIN h.requests
      <4>1. PICK a : a = postponeTimeout(h.requests[id])
        OBVIOUS
      <4>2. PICK x : x = [h EXCEPT !.requests[id] = a]
        OBVIOUS
      <4>3. Postpone(h, id) = x
        BY <3>6, <4>1, <4>2 DEF Postpone
      <4>4. x.requests = [h.requests EXCEPT ![id] = a] /\ x.responses = h.responses
        BY <3>2, <4>2 DEF IsGrid
      <4>5. \A d \in Calls : StorageId(d) \in DOMAIN h.requests => IsPending(h.requests[StorageId(d)])
        BY <3>2 DEF Pends
      <4>6. ASSUME NEW d \in Calls, StorageId(d) \in DOMAIN x.requests
            PROVE  /\ StorageId(d) \in DOMAIN h.requests
                   /\ SameResponses(h.requests[StorageId(d)], x.requests[StorageId(d)])
        BY <4>1, <4>4, <4>5, <4>6, TimersKeepResponses
      <4>7. GoodGrid(es, size, x)
        BY <3>4, <4>4, <4>6, GoodOn
      <4> QED
        BY <3>5, <4>3, <4>7
    <3>7. CASE id \notin DOMAIN h.requests
      BY <3>4, <3>5, <3>7 DEF Postpone
    <3> QED
      BY <3>6, <3>7
  <2> QED
    BY <2>6, <2>7
<1> QED
  BY <1>7, <1>9, <1>10

(* So do several.                                                          *)
LEMMA ProcessAllGood ==
    ASSUME NEW es, NEW size, Distinct(es, size), NEW g, IsGrid(g), Pends(g), GoodGrid(es, size, g),
           NEW ms, Len(ms) \in Nat, DOMAIN ms = 1 .. Len(ms), NEW c,
           \A i \in DOMAIN ms : Belongs(es, size, ms[i], c)
    PROVE  GoodGrid(es, size, ProcessAll(g, ms))
<1>1. PICK f : Processes(g, ms, f) /\ ProcessAll(g, ms) = f[Len(ms)]
  BY ProcessAllIs
<1> DEFINE S == {n \in Nat : n <= Len(ms) =>
                    SameRequests(g, f[n]) /\ IsGrid(f[n]) /\ Pends(f[n]) /\ GoodGrid(es, size, f[n])}
<1>2. 0 \in S
  <2>1. f[0] = g
    BY <1>1 DEF Processes
  <2> QED
    BY <2>1 DEF SameRequests
<1>3. ASSUME NEW n \in Nat, n \in S PROVE n + 1 \in S
  <2> SUFFICES ASSUME n + 1 <= Len(ms)
               PROVE  /\ SameRequests(g, f[n + 1]) /\ IsGrid(f[n + 1]) /\ Pends(f[n + 1])
                      /\ GoodGrid(es, size, f[n + 1])
    OBVIOUS
  <2>1. PICK x, y, m : x = f[n] /\ y = f[n + 1] /\ m = ms[n + 1]
    OBVIOUS
  <2>2. /\ n + 1 \in 0 .. Len(ms) /\ n + 1 # 0 /\ (n + 1) - 1 = n /\ n + 1 \in DOMAIN ms
        /\ SameRequests(g, x) /\ IsGrid(x) /\ Pends(x) /\ GoodGrid(es, size, x)
    BY <1>3, <2>1
  <2>3. y = processResponse(x, m)
    BY <1>1, <2>1, <2>2 DEF Processes
  <2>4. Belongs(es, size, m, c)
    BY <2>1, <2>2
  <2>5. SameRequests(x, y)
    BY <2>2, <2>3, ProcessResponseOK
  <2>6. GoodGrid(es, size, y)
    BY <2>2, <2>3, <2>4, ProcessGood
  <2>7. SameRequests(g, y) /\ IsGrid(y) /\ Pends(y)
    BY <2>2, <2>5 DEF SameRequests, Pends
  <2> QED
    BY <2>1, <2>6, <2>7
<1>4. Len(ms) \in S
  <2> HIDE DEF S
  <2> QED
    BY <1>2, <1>3, UpFromZero
<1> QED
  BY <1>1, <1>4

-----------------------------------------------------------------------------
(* The calls, and what they were told.                                     *)

\* What is pending and what has ended, by the executions es
Told(es, size) == GoodGrid(es, size, Now) /\ \A c \in Calls : Truthful(es, calls[c], c)

\* The executions of c are of request: their responses are decoded to their answers.
Fits(es, c, request) ==
    \A i, p : DoneBy(es, i, p, c) =>
        Answer(request, ListsOf(ResponseTo(es[i]))) = Payload(request, es[i].answer)

(* h has some of what g has.                                               *)
LEMMA GoodLess ==
    ASSUME NEW es, NEW size, NEW g, GoodGrid(es, size, g), NEW h,
           DOMAIN h.responses \subseteq DOMAIN g.responses,
           \A key \in DOMAIN h.responses : h.responses[key] = g.responses[key],
           DOMAIN h.requests \subseteq DOMAIN g.requests,
           \A id \in DOMAIN h.requests : h.requests[id] = g.requests[id]
    PROVE  GoodGrid(es, size, h)
<1>1. \A c \in Calls : StorageId(c) \in DOMAIN h.requests =>
        /\ StorageId(c) \in DOMAIN g.requests
        /\ SameResponses(g.requests[StorageId(c)], h.requests[StorageId(c)])
  BY DEF SameResponses
<1> QED
  BY <1>1, GoodOn

(* A call that resolves got what was executed for it.                      *)
LEMMA ResolvedTruthful ==
    ASSUME NEW es, NEW c, NEW call, IsCall(call), Fits(es, c, call.request),
           NEW r, Answered(es, c, r), r.state = "resolved",
           NEW k, k = [call EXCEPT !.status = "resolved", !.result = Results(call.request, r.responses)]
    PROVE  Truthful(es, k, c)
<1>1. k.request = call.request /\ k.result = Results(call.request, r.responses)
  BY DEF IsCall
<1>2. k.result = {<<s, Answer(call.request, r.responses[s])>> : s \in DOMAIN r.responses}
  BY <1>1 DEF Results
<1>3. k.result # {}
  BY <1>2 DEF Answered
<1>4. ASSUME NEW x \in k.result
      PROVE  \E i : DoneBy(es, i, x[1], c) /\ x[2] = Payload(k.request, es[i].answer)
  <2>1. PICK s \in DOMAIN r.responses : x = <<s, Answer(call.request, r.responses[s])>>
    BY <1>2, <1>4
  <2>2. IsAnswer(es, s, c, r.responses[s])
    BY DEF Answered
  <2>3. PICK i : DoneBy(es, i, s, c) /\ r.responses[s] = ListsOf(ResponseTo(es[i]))
    BY <2>2 DEF IsAnswer
  <2>4. Answer(call.request, r.responses[s]) = Payload(call.request, es[i].answer)
    BY <2>3 DEF Fits
  <2>5. x[1] = s /\ x[2] = Payload(k.request, es[i].answer)
    BY <1>1, <2>1, <2>4
  <2> QED
    BY <2>3, <2>5
<1> QED
  BY <1>3, <1>4 DEF Truthful

(* A call that goes on was told the truth.                                 *)
LEMMA ContinueTold ==
    ASSUME NEW es, NEW size, Told(es, size), DOMAIN calls = Calls, NEW c \in Calls,
           NEW call, IsCall(call), call.status = "waiting", Fits(es, c, calls'[c].request),
           NEW g, IsGrid(g), StorageId(c) \in DOMAIN g.requests, GoodGrid(es, size, g),
           NEW failed, Continue(c, call, g, failed)
    PROVE  Told(es, size)'
<1>1. PICK x, h, r : /\ x = Forget(g, StorageId(c)) /\ h = purgeResponseForRequest(x, StorageId(c))
                     /\ r = g.requests[StorageId(c)]
  OBVIOUS
<1>2. IsGrid(x) /\ x.responses = g.responses /\ x.requests = Without(g.requests, {StorageId(c)})
  BY <1>1 DEF Forget, IsGrid
<1>3. /\ h.requests = x.requests
      /\ h.responses = [k \in {z \in DOMAIN x.responses : z[2] # StorageId(c)} |-> x.responses[k]]
  BY <1>1, <1>2 DEF purgeResponseForRequest, IsGrid
<1>4. GoodGrid(es, size, x)
  <2>1. DOMAIN x.requests \subseteq DOMAIN g.requests
        /\ \A id \in DOMAIN x.requests : x.requests[id] = g.requests[id]
    BY <1>2 DEF Without
  <2> QED
    BY <1>2, <2>1, GoodLess
<1>5. GoodGrid(es, size, h)
  BY <1>3, <1>4, GoodLess
<1>6. PICK y, k : y = Now' /\ k = calls'[c]
  OBVIOUS
<1>7. y.requests = pendingRequests' /\ y.responses = pendingResponses'
  BY <1>6 DEF Now, Grid
<1>8. \/ k = [call EXCEPT !.status = "rejected"] /\ y.requests = h.requests /\ y.responses = h.responses
      \/ /\ r.state = "resolved" /\ y.requests = x.requests /\ y.responses = x.responses
         /\ k = [call EXCEPT !.status = "resolved", !.result = Results(call.request, r.responses)]
      \/ k = call /\ y.requests = g.requests /\ y.responses = g.responses
  BY <1>1, <1>6, <1>7 DEF Continue
<1>8a. Fits(es, c, call.request)
  <2>1. k.request = call.request
    BY <1>8 DEF IsCall
  <2> QED
    BY <1>6, <2>1
<1>9. GoodGrid(es, size, y)
  BY <1>4, <1>5, <1>8 DEF GoodGrid
<1>10. Truthful(es, k, c)
  <2>1. CASE k = [call EXCEPT !.status = "rejected"] \/ k = call
    BY <2>1 DEF IsCall, Truthful
  <2>2. Answered(es, c, r)
    BY <1>1 DEF GoodGrid
  <2> QED
    BY <1>8, <1>8a, <2>1, <2>2, ResolvedTruthful
<1>11. \A d \in Calls \ {c} : calls'[d] = calls[d]
  BY DEF Continue
<1>12. \A d \in Calls : Truthful(es, calls'[d], d)
  BY <1>6, <1>10, <1>11 DEF Told
<1> QED
  BY <1>6, <1>9, <1>12 DEF Told

(* Nothing is told by a submission.                                        *)
LEMMA SubmitTold ==
    ASSUME NEW es, NEW size, Told(es, size), DOMAIN calls = Calls,
           NEW p, NEW c, NEW call, NEW entry, NEW n, NEW g, Submittable(p, c, call, entry, n, g),
           Submit(p, c, call, entry, n, g), GoodGrid(es, size, g), Fits(es, c, calls'[c].request)
    PROVE  Told(es, size)' /\ \A m \in net' : m \in net \/ m.type # "response"
<1>1. /\ c \in Calls /\ IsCall(call) /\ call.status = "waiting" /\ IsGrid(g)
      /\ StorageId(c) \in DOMAIN g.requests /\ n \in Nat \ {0}
  BY DEF Submittable, GridFor
<1>2. CASE Continue(c, call, g, TRUE) /\ UNCHANGED net
  BY <1>1, <1>2, ContinueTold
<1>3. CASE Continue(c, [call EXCEPT !.submitted = TRUE], g, FALSE) /\ UNCHANGED net
  <2>1. PICK x : x = [call EXCEPT !.submitted = TRUE]
    OBVIOUS
  <2>2. IsCall(x) /\ x.status = "waiting"
    BY <1>1, <2>1 DEF IsCall
  <2> QED
    BY <1>1, <1>3, <2>1, <2>2, ContinueTold
<1>4. CASE /\ Continue(c, call, [g EXCEPT !.requests = With(@, SubmitId(c, n), New(1, {leaderId[p]}))], FALSE)
           /\ net' = net \cup {[type |-> "SubmitMessageRequest", id |-> SubmitId(c, n),
                                from |-> p, to |-> leaderId[p], entry |-> entry]}
  <2>1. PICK r, h : r = New(1, {leaderId[p]}) /\ h = [g EXCEPT !.requests = With(@, SubmitId(c, n), r)]
    OBVIOUS
  <2>2. IsGrid(h) /\ h.responses = g.responses /\ h.requests = With(g.requests, SubmitId(c, n), r)
    BY <1>1, <2>1 DEF IsGrid
  <2>3. \A d \in Calls : StorageId(d) # SubmitId(c, n)
    BY <1>1 DEF StorageId, SubmitId
  <2>4. \A d \in Calls : StorageId(d) \in DOMAIN h.requests =>
            /\ StorageId(d) \in DOMAIN g.requests
            /\ SameResponses(g.requests[StorageId(d)], h.requests[StorageId(d)])
    BY <2>2, <2>3 DEF With, SameResponses
  <2>5. GoodGrid(es, size, h) /\ StorageId(c) \in DOMAIN h.requests
    <3>1. GoodGrid(es, size, h)
      BY <2>2, <2>4, GoodOn
    <3> QED
      BY <1>1, <2>2, <3>1 DEF With
  <2>6. Told(es, size)'
    BY <1>1, <1>4, <2>1, <2>2, <2>5, ContinueTold
  <2> QED
    BY <1>4, <2>6
<1> QED
  BY <1>2, <1>3, <1>4 DEF Submit

\* The messages that are responses come from executions in es.
AllSent(es, size) == \A m \in net : m.type = "response" => \E c \in Calls : Belongs(es, size, m, c)

\* es are the executions after a step, and they tell the truth about the state before it.
Before(es, size) ==
    /\ Distinct(es, size) /\ Told(es, size) /\ AllSent(es, size)
    /\ \A c \in Calls : Fits(es, c, calls'[c].request)

NoNewResponse == \A m \in net' : m \in net \/ m.type # "response"

(* No response is sent.                                                    *)
LEMMA SentStays ==
    ASSUME NEW es, NEW size, AllSent(es, size), NoNewResponse PROVE AllSent(es, size)'
  BY DEF AllSent, NoNewResponse

(* What is pending now.                                                    *)
LEMMA GridNow == IsGrid(Now) /\ Now.requests = pendingRequests /\ Now.responses = pendingResponses
  BY DEF Now, Grid, IsGrid

(* The pending requests have their form.                                   *)
LEMMA BookPends == ASSUME Book PROVE Pends(Now) /\ DOMAIN calls = Calls
  BY GridNow DEF Book, EachCallOK, CallOK, Pends, StorageId

(* The call of a pending request waits.                                    *)
LEMMA WaitingIs ==
    ASSUME Book, NEW c \in Calls, StorageId(c) \in DOMAIN pendingRequests
    PROVE  IsCall(calls[c]) /\ calls[c].status = "waiting"
  BY DEF Book, EachCallOK, CallOK, StorageId

(* A step that is none of the grid's business tells nothing.               *)
LEMMA QuietTold ==
    ASSUME NEW es, NEW size, Before(es, size), UNCHANGED <<calls, grid>>, NoNewResponse
    PROVE  Told(es, size)' /\ AllSent(es, size)'
<1>1. UNCHANGED <<calls, pendingRequests, pendingResponses>>
  BY DEF grid
<1>2. PICK x : x = Now
  OBVIOUS
<1>3. Now' = x
  BY <1>1, <1>2 DEF Now
<1>4. GoodGrid(es, size, x) /\ \A c \in Calls : Truthful(es, calls[c], c)
  BY <1>2 DEF Before, Told
<1>5. Told(es, size)'
  BY <1>1, <1>3, <1>4 DEF Told
<1> QED
  BY <1>5, SentStays DEF Before

(* A new call has been told nothing.                                       *)
LEMMA InvokeTold ==
    ASSUME NEW es, NEW size, Before(es, size), setting \in Settings, Book,
           NEW p \in Peers, NEW o \in setting.operations, Invoke(p, o)
    PROVE  Told(es, size)' /\ AllSent(es, size)'
<1>1. PICK c, call, entry, g : First(p, c, call, entry, g)
  BY InvokeSubmits
<1>2. PICK r : r = New(0, AnyPeers)
  OBVIOUS
<1>3. /\ Submittable(p, c, call, entry, 1, g) /\ Submit(p, c, call, entry, 1, g) /\ c \in Calls
      /\ g = Grid(With(pendingRequests, StorageId(c), r), pendingResponses)
  BY <1>1, <1>2 DEF First, Submittable
<1>4. r.state = "pending" /\ DOMAIN r.responses = {}
  BY <1>2 DEF New
<1>5. g.responses = pendingResponses /\ g.requests = With(pendingRequests, StorageId(c), r)
  BY <1>3 DEF Grid
<1>6. GoodGrid(es, size, Now)
  BY DEF Before, Told
<1>7. ASSUME NEW d \in Calls, StorageId(d) \in DOMAIN g.requests
      PROVE  Answered(es, d, g.requests[StorageId(d)])
  <2>1. CASE d = c
    <3>1. g.requests[StorageId(d)] = r
      BY <1>5, <2>1 DEF With
    <3> QED
      BY <1>4, <3>1 DEF Answered
  <2>2. CASE d # c
    <3>1. StorageId(d) # StorageId(c)
      BY <2>2 DEF StorageId
    <3>2. StorageId(d) \in DOMAIN pendingRequests /\ g.requests[StorageId(d)] = pendingRequests[StorageId(d)]
      BY <1>5, <1>7, <3>1 DEF With
    <3> QED
      BY <1>6, <3>2, GridNow DEF GoodGrid
  <2> QED
    BY <2>1, <2>2
<1>8. GoodGrid(es, size, g)
  BY <1>5, <1>6, <1>7, GridNow DEF GoodGrid
<1>9. Told(es, size)' /\ NoNewResponse
  BY <1>3, <1>8, BookPends, SubmitTold DEF Before, NoNewResponse
<1> QED
  BY <1>9, SentStays DEF Before

(* An answer to a submission                                               *)
LEMMA SubmissionTold ==
    ASSUME NEW es, NEW size, Before(es, size), Book, NEW m \in net, ReceiveSubmitResponse(m)
    PROVE  Told(es, size)' /\ AllSent(es, size)'
<1>1. GoodGrid(es, size, Now)
  BY DEF Before, Told
<1>2. ASSUME NEW g, g = Grid(Without(pendingRequests, {m.id}), pendingResponses)
      PROVE  IsGrid(g) /\ GoodGrid(es, size, g)
  <2>1. IsGrid(g) /\ g.responses = Now.responses /\ g.requests = Without(Now.requests, {m.id})
    BY <1>2, GridNow DEF Grid, IsGrid
  <2>2. /\ DOMAIN g.requests \subseteq DOMAIN Now.requests
        /\ \A id \in DOMAIN g.requests : g.requests[id] = Now.requests[id]
    BY <2>1 DEF Without
  <2> QED
    BY <1>1, <2>1, <2>2, GoodLess
<1>3. ASSUME net' \subseteq net PROVE NoNewResponse
  BY <1>3 DEF NoNewResponse
<1>4. CASE UNCHANGED <<calls, grid>> /\ net' \subseteq net
  BY <1>3, <1>4, QuietTold
<1>5. ASSUME NEW c, NEW x, NEW g, NEW failed, Ends(m, c, x, g, failed), net' \subseteq net
      PROVE  Told(es, size)' /\ AllSent(es, size)'
  <2>1. /\ c \in Calls /\ IsCall(x) /\ x.status = "waiting" /\ Continue(c, x, g, failed)
        /\ StorageId(c) \in DOMAIN g.requests /\ IsGrid(g) /\ GoodGrid(es, size, g)
    BY <1>2, <1>5 DEF Ends
  <2>2. Told(es, size)'
    BY <2>1, BookPends, ContinueTold DEF Before
  <2> QED
    BY <1>3, <1>5, <2>2, SentStays DEF Before
<1>6. ASSUME NEW c, NEW n, NEW entry, NEW g, Resubmits(m, c, n, entry, g)
      PROVE  Told(es, size)' /\ AllSent(es, size)'
  <2>1. /\ Submittable(m.to, c, calls[c], entry, n, g) /\ Submit(m.to, c, calls[c], entry, n, g)
        /\ c \in Calls /\ GoodGrid(es, size, g)
    BY <1>2, <1>6 DEF Resubmits, Submittable
  <2>2. Told(es, size)' /\ NoNewResponse
    BY <2>1, BookPends, SubmitTold DEF Before, NoNewResponse
  <2> QED
    BY <2>2, SentStays DEF Before
<1> QED
  BY <1>4, <1>5, <1>6, ReceiveSubmitResponseDoes

(* The requests of g are like those of Now.                                *)
LEMMA LikeNow ==
    ASSUME NEW es, NEW size, GoodGrid(es, size, Now), NEW y,
           DOMAIN y.responses \subseteq DOMAIN pendingResponses,
           \A k \in DOMAIN y.responses : y.responses[k] = pendingResponses[k],
           \A id \in DOMAIN y.requests :
                id \in DOMAIN pendingRequests /\ SameResponses(pendingRequests[id], y.requests[id])
    PROVE  GoodGrid(es, size, y)
  BY GridNow, GoodOn

(* A timer that fires tells nothing.                                       *)
LEMMA ExpireTold ==
    ASSUME NEW es, NEW size, Before(es, size), Book, NEW id \in DOMAIN pendingRequests, Expire(id)
    PROVE  Told(es, size)' /\ AllSent(es, size)'
<1>1. PICK c \in Calls, n \in Nat : id = <<c, n>> /\ c = id[1]
  BY DEF Book, EachCallOK
<1>2. /\ IsPending(pendingRequests[id]) /\ IsCall(calls[c]) /\ calls[c].status = "waiting"
      /\ StorageId(c) \in DOMAIN pendingRequests
  BY <1>1 DEF Book, EachCallOK, CallOK
<1>3. GoodGrid(es, size, Now)
  BY DEF Before, Told
<1>4. PICK r : r = expire(pendingRequests[id])
  OBVIOUS
<1>5. PICK g : g = Grid([pendingRequests EXCEPT ![id] = r], pendingResponses)
  OBVIOUS
<1>6. PICK h : h = [g EXCEPT !.requests = Without(@, {id})]
  OBVIOUS
<1>7. IsGrid(g) /\ g.responses = pendingResponses /\ g.requests = [pendingRequests EXCEPT ![id] = r]
  BY <1>5 DEF Grid, IsGrid
<1>8. GoodGrid(es, size, g)
  <2>1. \A x \in DOMAIN g.requests :
            x \in DOMAIN pendingRequests /\ SameResponses(pendingRequests[x], g.requests[x])
    <3> SUFFICES ASSUME NEW x \in DOMAIN g.requests
                 PROVE  x \in DOMAIN pendingRequests /\ SameResponses(pendingRequests[x], g.requests[x])
      OBVIOUS
    <3>1. CASE x = id
      BY <1>2, <1>4, <1>7, <3>1, TimersKeepResponses
    <3>2. CASE x # id
      BY <1>7, <3>2 DEF SameResponses
    <3> QED
      BY <3>1, <3>2
  <2> QED
    BY <1>3, <1>7, <2>1, LikeNow
<1>9. IsGrid(h) /\ h.responses = g.responses /\ h.requests = Without(g.requests, {id})
  BY <1>6, <1>7 DEF IsGrid
<1>10. GoodGrid(es, size, h)
  <2>1. /\ DOMAIN h.requests \subseteq DOMAIN g.requests
        /\ \A x \in DOMAIN h.requests : h.requests[x] = g.requests[x]
    BY <1>9 DEF Without
  <2> QED
    BY <1>8, <1>9, <2>1, GoodLess
<1>11. \/ Continue(c, calls[c], h, TRUE) /\ id # StorageId(c)
       \/ Continue(c, calls[c], g, FALSE)
  BY <1>1, <1>4, <1>5, <1>6 DEF Expire
<1>12. StorageId(c) \in DOMAIN g.requests /\ (id # StorageId(c) => StorageId(c) \in DOMAIN h.requests)
  BY <1>2, <1>7, <1>9 DEF Without
<1>13. Told(es, size)'
  BY <1>2, <1>7, <1>8, <1>9, <1>10, <1>11, <1>12, BookPends, ContinueTold DEF Before
<1>14. NoNewResponse
  BY DEF Expire, NoNewResponse
<1> QED
  BY <1>13, <1>14, SentStays DEF Before

(* Timeouts are postponed.                                                 *)
LEMMA PostponeTold ==
    ASSUME NEW es, NEW size, Before(es, size), Book, NEW S,
           pendingRequests' = [id \in DOMAIN pendingRequests |->
                IF id \in S THEN postponeTimeout(pendingRequests[id]) ELSE pendingRequests[id]],
           UNCHANGED <<calls, pendingResponses>>, NoNewResponse
    PROVE  Told(es, size)' /\ AllSent(es, size)'
<1>1. PICK y : y = Now'
  OBVIOUS
<1>2. y.requests = pendingRequests' /\ y.responses = pendingResponses
  BY <1>1 DEF Now, Grid
<1>3. \A id \in DOMAIN pendingRequests : IsPending(pendingRequests[id])
  BY DEF Book, EachCallOK, CallOK
<1>4. \A id \in DOMAIN y.requests :
            id \in DOMAIN pendingRequests /\ SameResponses(pendingRequests[id], y.requests[id])
  BY <1>2, <1>3, TimersKeepResponses
<1>5. GoodGrid(es, size, y)
  BY <1>2, <1>4, LikeNow DEF Before, Told
<1>6. Told(es, size)'
  BY <1>1, <1>5 DEF Before, Told
<1> QED
  BY <1>6, SentStays DEF Before

(* Notifications tell nothing.                                             *)
LEMMA NotificationTold ==
    ASSUME NEW es, NEW size, Before(es, size), Book,
           \/ \E p \in Peers : Notify(p)
           \/ \E m \in net : ReceiveOngoing(m)
    PROVE  Told(es, size)' /\ AllSent(es, size)'
<1>1. /\ \E S : pendingRequests' = [id \in DOMAIN pendingRequests |->
                IF id \in S THEN postponeTimeout(pendingRequests[id]) ELSE pendingRequests[id]]
      /\ UNCHANGED <<calls, pendingResponses>>
  BY DEF Notify, ReceiveOngoing
<1>2. NoNewResponse
  BY DEF Notify, ReceiveOngoing, NoNewResponse
<1> QED
  BY <1>1, <1>2, PostponeTold

(* Neither does a connection that closes, although it rejects.             *)
LEMMA CloseTold ==
    ASSUME NEW es, NEW size, Before(es, size), Book, NEW p \in Peers, Close(p)
    PROVE  Told(es, size)' /\ AllSent(es, size)'
<1>1. PICK y : y = Now'
  OBVIOUS
<1>2. y.requests = pendingRequests' /\ y.responses = pendingResponses'
  BY <1>1 DEF Now, Grid
<1>3. PICK ids, gone, R :
        /\ pendingRequests' = [id \in DOMAIN pendingRequests \ gone |->
                IF id \in ids THEN reject(pendingRequests[id]) ELSE pendingRequests[id]]
        /\ pendingResponses' = [k \in {x \in DOMAIN pendingResponses : x[2] \notin ids} |->
                                    pendingResponses[k]]
        /\ calls' = [c \in Calls |-> IF c \in R THEN [calls[c] EXCEPT !.status = "rejected"] ELSE calls[c]]
        /\ R \subseteq {c \in Calls : StorageId(c) \in DOMAIN pendingRequests}
  <2> DEFINE mine == {c \in Calls : calls[c].source = p /\ StorageId(c) \in DOMAIN pendingRequests}
             rejectedNow == {c \in mine : calls[c].submitted}
  <2>1. /\ pendingRequests' = [id \in DOMAIN pendingRequests \ {StorageId(c) : c \in rejectedNow} |->
                IF id \in {StorageId(c) : c \in mine} THEN reject(pendingRequests[id]) ELSE pendingRequests[id]]
        /\ pendingResponses' = [k \in {x \in DOMAIN pendingResponses : x[2] \notin {StorageId(c) : c \in mine}} |->
                                    pendingResponses[k]]
        /\ calls' = [c \in Calls |-> IF c \in rejectedNow
                                     THEN [calls[c] EXCEPT !.status = "rejected"] ELSE calls[c]]
    BY DEF Close
  <2>2. rejectedNow \subseteq {c \in Calls : StorageId(c) \in DOMAIN pendingRequests}
    OBVIOUS
  <2> HIDE DEF mine, rejectedNow
  <2> QED
    BY <2>1, <2>2
<1>4. \A id \in DOMAIN pendingRequests : IsPending(pendingRequests[id])
  BY DEF Book, EachCallOK, CallOK
<1>5. \A id \in DOMAIN y.requests :
            id \in DOMAIN pendingRequests /\ SameResponses(pendingRequests[id], y.requests[id])
  BY <1>2, <1>3, <1>4, TimersKeepResponses
<1>6. /\ DOMAIN y.responses \subseteq DOMAIN pendingResponses
      /\ \A k \in DOMAIN y.responses : y.responses[k] = pendingResponses[k]
  BY <1>2, <1>3
<1>7. GoodGrid(es, size, y)
  BY <1>5, <1>6, LikeNow DEF Before, Told
<1>8. ASSUME NEW c \in Calls PROVE Truthful(es, calls'[c], c)
  <2>1. CASE c \in R
    <3>1. IsCall(calls[c])
      BY DEF Book, EachCallOK, CallOK
    <3>2. PICK k, x : k = calls'[c] /\ x = calls[c]
      OBVIOUS
    <3>3. k = [x EXCEPT !.status = "rejected"] /\ IsCall(x)
      BY <1>3, <2>1, <3>1, <3>2
    <3>4. k.status = "rejected"
      BY <3>3 DEF IsCall
    <3> QED
      BY <3>2, <3>4 DEF Truthful
  <2>2. CASE c \notin R
    BY <1>3, <2>2 DEF Before, Told
  <2> QED
    BY <2>1, <2>2
<1>9. Told(es, size)'
  BY <1>1, <1>7, <1>8 DEF Told
<1>10. NoNewResponse
  BY DEF Close, NoNewResponse
<1> QED
  BY <1>9, <1>10, SentStays DEF Before

(* A grid g that has processed responses: c goes on, or only the chunks    *)
(* are there.                                                              *)
LEMMA ProcessedTold ==
    ASSUME NEW es, NEW size, Before(es, size), Book, NEW c \in Calls,
           NEW g, SameRequests(Now, g), GoodGrid(es, size, g),
           \/ StorageId(c) \in DOMAIN pendingRequests /\ Continue(c, calls[c], g, FALSE)
           \/ pendingResponses' = g.responses /\ UNCHANGED <<calls, pendingRequests>>
    PROVE  Told(es, size)'
<1>1. IsGrid(g) /\ DOMAIN g.requests = DOMAIN pendingRequests
  BY GridNow DEF SameRequests
<1>2. CASE StorageId(c) \in DOMAIN pendingRequests /\ Continue(c, calls[c], g, FALSE)
  BY <1>1, <1>2, WaitingIs, BookPends, ContinueTold DEF Before
<1>3. CASE pendingResponses' = g.responses /\ UNCHANGED <<calls, pendingRequests>>
  <2>1. PICK y : y = Now'
    OBVIOUS
  <2>2. y.requests = Now.requests /\ y.responses = g.responses
    BY <1>3, <2>1, GridNow DEF Now, Grid
  <2>3. GoodGrid(es, size, Now)
    BY DEF Before, Told
  <2>4. GoodGrid(es, size, y)
    BY <2>2, <2>3 DEF GoodGrid
  <2> QED
    BY <1>3, <2>1, <2>4 DEF Before, Told
<1> QED
  BY <1>2, <1>3

(* A response that arrives, or a chunk, tells what was executed.           *)
LEMMA ResponseTold ==
    ASSUME NEW es, NEW size, Before(es, size), Book, NEW m \in net, ReceiveResponse(m)
    PROVE  Told(es, size)' /\ AllSent(es, size)'
<1>1. m.type = "response" /\ net' = net \ {m}
  BY DEF ReceiveResponse
<1>2. PICK c \in Calls : Belongs(es, size, m, c)
  BY <1>1 DEF Before, AllSent
<1>3. m.id = StorageId(c) /\ m.id[1] = c
  BY <1>2 DEF Belongs, StorageId
<1>4. PICK g : g = processResponse(Now, m)
  OBVIOUS
<1>5. SameRequests(Now, g)
  BY <1>4, GridNow, ProcessResponseOK
<1>6. GoodGrid(es, size, g)
  BY <1>2, <1>4, GridNow, BookPends, ProcessGood DEF Before, Told
<1>7. \/ StorageId(c) \in DOMAIN pendingRequests /\ Continue(c, calls[c], g, FALSE)
      \/ pendingResponses' = g.responses /\ UNCHANGED <<calls, pendingRequests>>
  BY <1>3, <1>4 DEF ReceiveResponse, Now
<1>8. Told(es, size)'
  BY <1>5, <1>6, <1>7, ProcessedTold
<1>9. NoNewResponse
  BY <1>1 DEF NoNewResponse
<1> QED
  BY <1>8, <1>9, SentStays DEF Before

(* A write answers its caller, at once or with messages.                   *)
LEMMA WriteTold ==
    ASSUME Inv, Book, Data, NEW es, es = executed', NEW size, size = setting.outbound, Before(es, size),
           NEW p \in Peers, WriteExternal(p)
    PROVE  Told(es, size)' /\ AllSent(es, size)'
<1>1. PICK t \in executor[p].running :
        LET c == t.entry.call
            chunks == Responses(p, c, t.entry.request, Write(store, t).answer)
            g == ProcessAll(Now, chunks)
        IN  /\ executed' = Append(executed, [index |-> t.index, by |-> p, entry |-> t.entry,
                                             answer |-> Write(store, t).answer])
            /\ \/ /\ net' = net \cup {chunks[i] : i \in DOMAIN chunks}
                  /\ UNCHANGED <<calls, grid>>
               \/ /\ StorageId(c) \in DOMAIN pendingRequests
                  /\ Continue(c, calls[c], g, FALSE)
                  /\ UNCHANGED net
               \/ /\ pendingResponses' = g.responses
                  /\ UNCHANGED <<calls, pendingRequests, net>>
  BY DEF WriteExternal, Now
<1>2. PICK c, r, a, ms, g : /\ c = t.entry.call /\ r = t.entry.request /\ a = Write(store, t).answer
                            /\ ms = Responses(p, c, r, a) /\ g = ProcessAll(Now, ms)
  OBVIOUS
<1>3. AreResponses(ms, p, c, r, a)
  BY <1>2, WriteDoes
<1>4. c \in Calls
  BY <1>2, TaskIs DEF Data, Todo, Inv, Book
<1>5. PICK i, e : i = Len(executed) + 1 /\ e = [index |-> t.index, by |-> p, entry |-> t.entry, answer |-> a]
  OBVIOUS
<1>6. Len(executed) \in Nat /\ es = Append(executed, e)
  BY <1>1, <1>2, <1>5 DEF Inv
<1>7. i \in 1 .. Len(es) /\ es[i] = e
  BY <1>5, <1>6 DEF Inv
<1>8. e.by = p /\ e.entry = t.entry /\ e.answer = a
  BY <1>5
<1>9. DoneBy(es, i, p, c)
  BY <1>2, <1>7, <1>8 DEF DoneBy
<1>10. Chunked(es[i], size) = ChunksOf(r, a)
  BY <1>2, <1>7, <1>8 DEF Chunked, ResponseTo, ChunksOf
<1>11. ASSUME NEW j \in DOMAIN ms PROVE Belongs(es, size, ms[j], c)
  <2>1. PICK ch : ch = ChunksOf(r, a)
    OBVIOUS
  <2>2. ms[j].id = StorageId(c) /\ ms[j].from = p /\ ms[j].response = ch[j] /\ j \in DOMAIN ch
    BY <1>3, <2>1 DEF AreResponses
  <2>3. PartOf(es, size, p, c, ch[j])
    BY <1>9, <1>10, <2>1, <2>2 DEF PartOf
  <2> QED
    BY <1>4, <2>2, <2>3 DEF Belongs
<1>12. CASE net' = net \cup {ms[j] : j \in DOMAIN ms} /\ UNCHANGED <<calls, grid>>
  <2>1. PICK x : x = Now
    OBVIOUS
  <2>2. Now' = x
    BY <1>12, <2>1 DEF Now, grid
  <2>3. Told(es, size)'
    BY <1>12, <2>1, <2>2 DEF Before, Told
  <2>4. AllSent(es, size)'
    BY <1>4, <1>11, <1>12 DEF Before, AllSent
  <2> QED
    BY <2>3, <2>4
<1>13. CASE /\ UNCHANGED net
            /\ \/ StorageId(c) \in DOMAIN pendingRequests /\ Continue(c, calls[c], g, FALSE)
               \/ pendingResponses' = g.responses /\ UNCHANGED <<calls, pendingRequests>>
  <2>1. Len(ms) \in Nat /\ DOMAIN ms = 1 .. Len(ms)
    BY <1>3 DEF AreResponses
  <2>2. SameRequests(Now, g)
    BY <1>2, <2>1, GridNow, ProcessAllOK
  <2>3. GoodGrid(es, size, g)
    BY <1>2, <1>11, <2>1, GridNow, BookPends, ProcessAllGood DEF Before, Told
  <2>4. Told(es, size)'
    BY <1>4, <1>13, <2>2, <2>3, ProcessedTold
  <2>5. NoNewResponse
    BY <1>13 DEF NoNewResponse
  <2> QED
    BY <2>4, <2>5, SentStays DEF Before
<1> QED
  BY <1>1, <1>2, <1>12, <1>13

\* No peer executes a call twice, and every response says what was answered.
Ready ==
    /\ Distinct(executed, setting.outbound)
    /\ \A c \in Calls : Fits(executed, c, calls[c].request)

(* It follows from the invariant.                                          *)
LEMMA InvReady == GridInv => Ready
<1> SUFFICES ASSUME GridInv PROVE Ready
  OBVIOUS
<1>1. \A i, j, p, c : DoneBy(executed, i, p, c) /\ DoneBy(executed, j, p, c) => i = j
  BY OneExecution DEF DoneBy
<1>2. ASSUME NEW i \in 1 .. Len(executed)
      PROVE  /\ DoneOK(executed[i])
             /\ HasLists(ResponseTo(executed[i]))
  <2>1. PICK e, r, a : e = executed[i] /\ r = e.entry.request /\ a = e.answer
    OBVIOUS
  <2>2. DoneOK(e)
    BY <2>1 DEF GridInv, Data
  <2>3. Executable(r) /\ AnswerOK(r.type, a)
    BY <2>1, <2>2 DEF DoneOK
  <2>4. HasLists(Response(r, a))
    BY <2>3, ChunksAre DEF GridInv, Inv
  <2> QED
    BY <2>1, <2>2, <2>4 DEF ResponseTo
<1>3. setting.outbound \in Nat
  BY GridAssumption DEF GridInv, Inv
<1>4. ASSUME NEW c \in Calls, NEW i, NEW p, DoneBy(executed, i, p, c)
      PROVE  Answer(calls[c].request, ListsOf(ResponseTo(executed[i])))
                = Payload(calls[c].request, executed[i].answer)
  <2>1. PICK e, r, a, k : e = executed[i] /\ r = e.entry.request /\ a = e.answer /\ k = calls[c].request
    OBVIOUS
  <2>2. DoneOK(e) /\ e.entry.call = c
    BY <1>2, <1>4, <2>1 DEF DoneBy
  <2>3. Executable(r) /\ AnswerOK(r.type, a) /\ r.type = k.type
    BY <2>1, <2>2 DEF DoneOK
  <2>4. InLists(ListsOf(Response(r, a)), r.type, a)
    BY <2>3, ResponseLists
  <2>5. r.type \in MapRequests
    BY <2>3 DEF Executable
  <2>6. Answer(k, ListsOf(Response(r, a))) = Payload(k, a)
    BY <2>3, <2>4, <2>5, AnswerBack
  <2> QED
    BY <2>1, <2>6 DEF ResponseTo
<1>5. Distinct(executed, setting.outbound)
  BY <1>1, <1>2, <1>3 DEF Distinct
<1>6. \A c \in Calls : Fits(executed, c, calls[c].request)
  BY <1>4 DEF Fits
<1> QED
  BY <1>5, <1>6 DEF Ready

(* Executions are only added.                                              *)
LEMMA ExecutedGoesOn ==
    ASSUME Inv, Book, [Next]_vars, NEW es, es = executed' PROVE GoesOn(executed, es)
<1>1. Len(executed) \in Nat /\ \A e : /\ Len(Append(executed, e)) = Len(executed) + 1
                                      /\ \A i \in 1 .. Len(executed) : Append(executed, e)[i] = executed[i]
  BY DEF Inv
<1>2. es = executed \/ \E e : es = Append(executed, e)
  BY WhoWorks DEF Works
<1>3. CASE es = executed
  BY <1>1, <1>3 DEF GoesOn
<1>4. ASSUME NEW e, es = Append(executed, e) PROVE GoesOn(executed, es)
  BY <1>1, <1>4 DEF GoesOn
<1> QED
  BY <1>2, <1>3, <1>4

\* What is in flight, what is pending and what was told comes from what was executed.
Genuine == Told(executed, setting.outbound) /\ AllSent(executed, setting.outbound)

(* And what came from executions still does.                               *)
LEMMA GenuineGoesOn ==
    ASSUME NEW es, NEW fs, NEW size, GoesOn(es, fs), Told(es, size), AllSent(es, size)
    PROVE  Told(fs, size) /\ AllSent(fs, size)
<1>1. Told(fs, size)
  BY GoesOnIs DEF Told
<1>2. \A m, c : Belongs(es, size, m, c) => Belongs(fs, size, m, c)
  BY GoesOnIs DEF Belongs
<1> QED
  BY <1>1, <1>2 DEF AllSent

(* Nothing is told at first.                                               *)
LEMMA InitGenuine == Init => Genuine
<1> SUFFICES ASSUME Init PROVE Genuine
  OBVIOUS
<1>1. DOMAIN pendingRequests = {} /\ DOMAIN pendingResponses = {} /\ net = {}
  BY DEF Init, NoEntries
<1>2. \A c \in Calls : calls[c].status = "idle"
  BY DEF Init, NoCall
<1>3. GoodGrid(executed, setting.outbound, Now)
  BY <1>1, GridNow DEF GoodGrid
<1>4. \A c \in Calls : Truthful(executed, calls[c], c)
  BY <1>2 DEF Truthful
<1> QED
  BY <1>1, <1>3, <1>4 DEF Genuine, Told, AllSent

(* Every step tells the truth.                                             *)
LEMMA GenuineStep == GridInv /\ Ready' /\ Genuine /\ [Next]_vars => Genuine'
<1> SUFFICES ASSUME GridInv, Ready', Genuine, [Next]_vars PROVE Genuine'
  OBVIOUS
<1>1. PICK es, size : es = executed' /\ size = setting.outbound
  OBVIOUS
<1>2. Inv /\ Book /\ Data /\ Kept
  BY BookStep DEF GridInv
<1>3. setting' = setting /\ setting \in Settings /\ setting.peers \subseteq Peers
  BY <1>2, GridAssumption DEF Kept, Inv
<1>4. Before(es, size)
  <2>1. PICK ds : ds = executed
    OBVIOUS
  <2>2. GoesOn(ds, es)
    BY <1>1, <1>2, <2>1, ExecutedGoesOn
  <2>3. Told(ds, size) /\ AllSent(ds, size)
    BY <1>1, <2>1 DEF Genuine
  <2>4. Told(es, size) /\ AllSent(es, size)
    BY <2>2, <2>3, GenuineGoesOn
  <2>5. Distinct(es, size) /\ \A c \in Calls : Fits(es, c, calls'[c].request)
    BY <1>1, <1>3 DEF Ready
  <2> QED
    BY <2>4, <2>5 DEF Before
<1> DEFINE Goal == Told(es, size)' /\ AllSent(es, size)'
<1>6. ASSUME NEW p \in Peers, NEW o \in setting.operations, Invoke(p, o) PROVE Goal
  BY <1>2, <1>3, <1>4, <1>6, InvokeTold
<1>7. ASSUME NEW id \in DOMAIN pendingRequests, Expire(id) PROVE Goal
  BY <1>2, <1>4, <1>7, ExpireTold
<1>8. ASSUME NEW m \in net, ReceiveSubmit(m) \/ Lose(m) PROVE Goal
  <2>1. UNCHANGED <<calls, grid>>
    BY <1>8 DEF ReceiveSubmit, Lose
  <2>2. NoNewResponse
    BY <1>8 DEF ReceiveSubmit, Lose, SubmitResponse, NoNewResponse
  <2> QED
    BY <1>4, <2>1, <2>2, QuietTold
<1>9. ASSUME NEW m \in net, ReceiveSubmitResponse(m) \/ ReceiveOngoing(m) \/ ReceiveResponse(m) PROVE Goal
  BY <1>2, <1>4, <1>9, SubmissionTold, NotificationTold, ResponseTold
<1>10. ASSUME NEW p \in Peers,
              Elect(p) \/ LearnLeader(p) \/ Commit(p) \/ ReadExternal(p) \/ FailExternal(p)
       PROVE  Goal
  <2>1. UNCHANGED <<calls, grid>>
    BY <1>10 DEF Elect, LearnLeader, Commit, ReadExternal, FailExternal
  <2>2. NoNewResponse
    BY <1>10 DEF Elect, LearnLeader, Commit, ReadExternal, FailExternal, SubmitResponse, NoNewResponse
  <2> QED
    BY <1>4, <2>1, <2>2, QuietTold
<1>11. ASSUME NEW p \in Peers, Notify(p) \/ WriteExternal(p) \/ Close(p) PROVE Goal
  BY <1>1, <1>2, <1>4, <1>11, NotificationTold, WriteTold, CloseTold
<1>12. Goal
  <2>1. CASE UNCHANGED vars
    <3>1. UNCHANGED <<calls, grid>> /\ NoNewResponse
      BY <2>1 DEF vars, NoNewResponse
    <3> QED
      BY <1>4, <3>1, QuietTold
  <2> HIDE DEF Goal
  <2> QED
    BY <1>3, <1>6, <1>7, <1>8, <1>9, <1>10, <1>11, <2>1 DEF Next
<1> QED
  BY <1>1, <1>3, <1>12 DEF Genuine

(* A call that resolves has the whole answer of an execution of its        *)
(* request by the peer that it names.                                      *)
THEOREM AnswersAreGenuine == Spec => []ResolvedWasExecuted
<1>1. Init => GridInv /\ Genuine
  BY GridInvInit, InitGenuine
<1>2. GridInv /\ Genuine /\ Ready' /\ [Next]_vars => (GridInv /\ Genuine)'
  BY GridInvStep, GenuineStep
<1>3. Spec => []GridInv
  BY GridInvInit, GridInvStep, PTL DEF Spec
<1>4. GridInv => Ready
  BY InvReady
<1>5. GridInv /\ Genuine => ResolvedWasExecuted
  <2> SUFFICES ASSUME GridInv, Genuine, NEW c \in Calls, calls[c].status = "resolved"
               PROVE  /\ calls[c].result # {}
                      /\ \A r \in calls[c].result : \E i \in DOMAIN executed :
                            /\ executed[i].by = r[1] /\ executed[i].entry.call = c
                            /\ r[2] = Payload(calls[c].request, executed[i].answer)
    BY DEF ResolvedWasExecuted
  <2>1. Truthful(executed, calls[c], c)
    BY DEF Genuine, Told
  <2>2. DOMAIN executed = 1 .. Len(executed)
    BY DEF GridInv, Inv
  <2> QED
    BY <2>1, <2>2 DEF Truthful, DoneBy
<1> QED
  BY <1>1, <1>2, <1>3, <1>4, <1>5, PTL DEF Spec

-----------------------------------------------------------------------------
(* What a success means.                                                   *)

\* A leader was given the request of call c, or a submission of it.
Given(c) == \E n \in Nat : <<c, n>> \in handed

\* A leader answers that it has taken in what was submitted.
SaysSuccess(m) == m.type = "SubmitMessageResponse" /\ m.success

\* Nothing of a call is wrapped in a submission.
Plain ==
    /\ \A m \in net : m.type = "SubmitMessageRequest" => m.entry.type = "storage"
    /\ \A i \in 1 .. Len(log) : log[i].type = "storage"
    /\ \A id \in handed : id = StorageId(id[1])

\* Who has been told of success was told the truth.
Truly ==
    /\ \A m \in net : SaysSuccess(m) => Given(m.id[1])
    /\ \A c \in Calls : calls[c].submitted => Given(c)

Handing == Truly /\ (elections = 0 => Plain)

(* What goes on remains submitted or not.                                  *)
LEMMA ContinueSubmitted ==
    ASSUME NEW c, NEW call, NEW g, NEW failed, IsCall(call), Continue(c, call, g, failed),
           DOMAIN calls = Calls
    PROVE  \A d \in Calls : calls'[d].submitted =
                IF d = c THEN call.submitted ELSE calls[d].submitted
<1>1. PICK k : calls' = [calls EXCEPT ![c] = k] /\ k.submitted = call.submitted
  <2>1. PICK r : r = [call EXCEPT !.status = "rejected"]
    OBVIOUS
  <2>2. PICK v : v = [call EXCEPT !.status = "resolved",
                        !.result = Results(call.request, g.requests[StorageId(c)].responses)]
    OBVIOUS
  <2>3. r.submitted = call.submitted /\ v.submitted = call.submitted
    BY <2>1, <2>2 DEF IsCall
  <2> QED
    BY <2>1, <2>2, <2>3 DEF Continue
<1> QED
  BY <1>1

(* Where nothing is handed over and no submission sent, all remains true.  *)
LEMMA QuietHands ==
    ASSUME Handing, UNCHANGED <<handed, log, elections>>,
           \A m \in net' : IsSubmission(m) => m \in net,
           \A c \in Calls : calls'[c].submitted => calls[c].submitted \/ Given(c)
    PROVE  Handing'
<1>1. \A c : Given(c) => Given(c)'
  BY DEF Given
<1>2. Truly'
  BY <1>1 DEF Handing, Truly, SaysSuccess, IsSubmission
<1>3. Plain => Plain'
  BY DEF Plain, IsSubmission
<1> QED
  BY <1>2, <1>3 DEF Handing

(* The submission of a call, of its own request while there is one leader. *)
LEMMA SubmitHands ==
    ASSUME Book, Handing, UNCHANGED elections,
           NEW p, NEW c, NEW call, NEW entry, NEW n, NEW g,
           Submittable(p, c, call, entry, n, g), Submit(p, c, call, entry, n, g),
           elections = 0 => entry.type = "storage"
    PROVE  Handing'
<1>1. /\ IsCall(call) /\ ~call.submitted /\ c \in Calls /\ DOMAIN calls = Calls
      /\ entry \in Entries /\ entry.call = c
  BY DEF Submittable, GridFor, Book, EachCallOK
<1>2. PICK k \in Nat : entry.id = <<c, k>> /\ (entry.type = "storage" => entry.id = StorageId(c))
  BY <1>1 DEF Entries, SubmitId, StorageId
<1>3. CASE Continue(c, call, g, TRUE) /\ UNCHANGED <<log, handed, net>>
  <2>1. \A d \in Calls : calls'[d].submitted => calls[d].submitted
    BY <1>1, <1>3, ContinueSubmitted
  <2> QED
    BY <1>3, <2>1, QuietHands
<1>4. CASE raftSubmit(p, entry) /\ Continue(c, [call EXCEPT !.submitted = TRUE], g, FALSE) /\ UNCHANGED net
  <2>1. PICK x : x = [call EXCEPT !.submitted = TRUE]
    OBVIOUS
  <2>2. IsCall(x)
    BY <1>1, <2>1 DEF IsCall
  <2>3. Continue(c, x, g, FALSE)
    BY <1>4, <2>1
  <2>4. \A d \in Calls : d # c => calls'[d].submitted = calls[d].submitted
    BY <1>1, <2>2, <2>3, ContinueSubmitted
  <2>5. handed' = handed \cup {entry.id} /\ (log' = log \/ log' = Append(log, entry))
    BY <1>4 DEF raftSubmit
  <2>6. Given(c)' /\ \A d : Given(d) => Given(d)'
    BY <1>2, <2>5 DEF Given
  <2>7. Truly'
    BY <1>4, <2>4, <2>6 DEF Handing, Truly
  <2>8. ASSUME elections = 0 PROVE Plain'
    <3>1. \A i \in 1 .. Len(log') : log'[i].type = "storage"
      BY <2>5, <2>8, LogGets DEF Handing, Plain, Book
    <3>2. \A id \in handed' : id = StorageId(id[1])
      BY <1>2, <2>5, <2>8 DEF Handing, Plain, StorageId
    <3> QED
      BY <1>4, <2>8, <3>1, <3>2 DEF Handing, Plain
  <2> QED
    BY <2>7, <2>8 DEF Handing
<1>5. ASSUME NEW q, NEW h, Continue(c, call, h, FALSE), UNCHANGED <<log, handed>>, NEW m,
             m = [type |-> "SubmitMessageRequest", id |-> SubmitId(c, n),
                  from |-> p, to |-> q, entry |-> entry],
             net' = net \cup {m}
      PROVE  Handing'
  <2>1. \A d \in Calls : calls'[d].submitted => calls[d].submitted
    BY <1>1, <1>5, ContinueSubmitted
  <2>2. ~SaysSuccess(m) /\ m.entry = entry
    BY <1>5 DEF SaysSuccess
  <2>3. \A d : Given(d) => Given(d)'
    BY <1>5 DEF Given
  <2>4. Truly'
    BY <1>5, <2>1, <2>2, <2>3 DEF Handing, Truly
  <2>5. ASSUME elections = 0 PROVE Plain'
    BY <1>5, <2>2, <2>5 DEF Handing, Plain
  <2> QED
    BY <2>4, <2>5 DEF Handing
<1>6. PICK h, m : /\ h = [g EXCEPT !.requests = With(@, SubmitId(c, n), New(1, {leaderId[p]}))]
                  /\ m = [type |-> "SubmitMessageRequest", id |-> SubmitId(c, n),
                          from |-> p, to |-> leaderId[p], entry |-> entry]
  OBVIOUS
<1> QED
  BY <1>3, <1>4, <1>5, <1>6 DEF Submit

(* A leader that takes in an entry answers success, and nobody else does.  *)
LEMMA HandleHands ==
    ASSUME Book, Handing, UNCHANGED <<elections, calls>>,
           NEW p, NEW id, NEW entry, NEW to, HandleSubmit(p, id, entry, to),
           \A m \in net' : m \in net \/ m = SubmitResponse(p, id, to),
           NEW k \in Nat, entry.id = <<id[1], k>>,
           elections = 0 => entry.type = "storage" /\ entry.id = StorageId(id[1])
    PROVE  Handing'
<1>1. PICK r : r = SubmitResponse(p, id, to)
  OBVIOUS
<1>2. /\ r.type = "SubmitMessageResponse" /\ r.id = id /\ r.success = isLeader(p)
  BY <1>1 DEF SubmitResponse
<1>3. /\ handed' = IF isLeader(p) THEN handed \cup {entry.id} ELSE handed
      /\ log' = log \/ log' = Append(log, entry)
  BY DEF HandleSubmit, raftSubmit
<1>4. (\A c : Given(c) => Given(c)') /\ (isLeader(p) => Given(id[1])')
  BY <1>3 DEF Given
<1>5. Truly'
  BY <1>1, <1>2, <1>4 DEF Handing, Truly, SaysSuccess
<1>6. ASSUME elections = 0 PROVE Plain'
  <2>1. \A i \in 1 .. Len(log') : log'[i].type = "storage"
    BY <1>3, <1>6, LogGets DEF Handing, Plain, Book
  <2>2. \A x \in handed' : x = StorageId(x[1])
    BY <1>3, <1>6 DEF Handing, Plain, StorageId
  <2>3. \A m \in net' : m.type = "SubmitMessageRequest" => m.entry.type = "storage"
    BY <1>1, <1>2, <1>6 DEF Handing, Plain
  <2> QED
    BY <2>1, <2>2, <2>3 DEF Plain
<1> QED
  BY <1>5, <1>6 DEF Handing

(* A call that goes on as it was tells nothing new.                        *)
LEMMA GoesOnHands ==
    ASSUME Book, Handing, NEW c \in Calls, NEW g, NEW failed, Continue(c, calls[c], g, failed),
           UNCHANGED <<handed, log, elections>>, \A m \in net' : IsSubmission(m) => m \in net
    PROVE  Handing'
<1>1. DOMAIN calls = Calls /\ IsCall(calls[c])
  BY DEF Book, EachCallOK, CallOK
<1>2. PICK k : k = calls[c]
  OBVIOUS
<1>3. \A d \in Calls : calls'[d].submitted = calls[d].submitted
  BY <1>1, <1>2, ContinueSubmitted
<1> QED
  BY <1>3, QuietHands

(* A new call is submitted with its own request.                           *)
LEMMA InvokeHands ==
    ASSUME setting \in Settings, Book, Handing,
           NEW p \in Peers, NEW o \in setting.operations, Invoke(p, o)
    PROVE  Handing'
<1>1. PICK c, call, entry, g : First(p, c, call, entry, g)
  BY InvokeSubmits
<1> QED
  BY <1>1, SubmitHands DEF First

(* A submission that arrives is that of a call.                            *)
LEMMA ReceiveSubmitHands ==
    ASSUME Book, Handing, NEW m \in net, ReceiveSubmit(m) PROVE Handing'
<1>1. RequestOK(m)
  BY DEF Book, NetOK, MessageOK, ReceiveSubmit
<1>2. /\ m.entry \in Entries /\ m.entry.call = m.id[1]
  BY <1>1 DEF RequestOK, EntryOK
<1>3. PICK k \in Nat : /\ m.entry.id = <<m.id[1], k>>
                       /\ m.entry.type = "storage" => m.entry.id = StorageId(m.id[1])
  BY <1>2 DEF Entries, SubmitId, StorageId
<1>4. elections = 0 => m.entry.type = "storage" /\ m.entry.id = StorageId(m.id[1])
  BY <1>3 DEF Handing, Plain, ReceiveSubmit
<1>5. /\ HandleSubmit(m.to, m.id, m.entry, m.from) /\ UNCHANGED <<elections, calls>>
      /\ \A x \in net' : x \in net \/ x = SubmitResponse(m.to, m.id, m.from)
  BY DEF ReceiveSubmit
<1> QED
  BY <1>3, <1>4, <1>5, HandleHands

(* Nobody submits again under one leader: the one that was asked leads.    *)
LEMMA NoneResubmits ==
    ASSUME Book, Asked, NEW m \in net, m.type = "SubmitMessageResponse",
           NEW c, NEW n, NEW entry, NEW g, Resubmits(m, c, n, entry, g)
    PROVE  elections # 0
<1> SUFFICES ASSUME elections = 0 PROVE FALSE
  OBVIOUS
<1>1. /\ m.to \in Peers /\ c \in Calls /\ calls[c].source = m.to
      /\ n \in Nat \ {0} /\ n > 1 /\ m.id = <<c, n - 1>> /\ m.id \in DOMAIN pendingRequests
      /\ m.leaderId \notin {Nil, m.from} /\ m.leaderId = leaderId[m.to]
  BY DEF Resubmits, Submittable
<1>2. PICK i \in Nat \ {0} : i = n - 1
  BY <1>1
<1>3. PICK s : s = m.to
  OBVIOUS
<1>4. PICK l : Ask(c, s, i, l)
  BY <1>1, <1>2, <1>3 DEF Asked
<1>5. learnt[s] = 0
  BY <1>1, <1>3 DEF Book, LeaderOK
<1>6. i = learnt[s] + 1
  <2>1. i <= learnt[s] + 1
    BY <1>4 DEF Ask
  <2> QED
    BY <1>5, <2>1
<1>7. leaderId[s] \in {Nil, l}
  BY <1>4, <1>6 DEF Ask
<1>8. m.from = l
  BY <1>1, <1>2, <1>4 DEF Ask, IsSubmission, AskedPeer
<1> QED
  BY <1>1, <1>3, <1>7, <1>8

(* An answer ends a submission with what it says, or leads to another one. *)
LEMMA ReceiveSubmitResponseHands ==
    ASSUME Book, Asked, Handing, NEW m \in net, ReceiveSubmitResponse(m) PROVE Handing'
<1>1. /\ m.type = "SubmitMessageResponse" /\ UNCHANGED elections
  BY DEF ReceiveSubmitResponse
<1>2. CASE \E c, n, entry, g : Resubmits(m, c, n, entry, g)
  <2>1. PICK c, n, entry, g : Resubmits(m, c, n, entry, g)
    BY <1>2
  <2>2. elections # 0
    BY <1>1, <2>1, NoneResubmits
  <2>3. PICK call : call = calls[c]
    OBVIOUS
  <2>4. Submittable(m.to, c, call, entry, n, g) /\ Submit(m.to, c, call, entry, n, g)
    BY <2>1, <2>3 DEF Resubmits
  <2> QED
    BY <1>1, <2>2, <2>4, SubmitHands
<1>3. CASE UNCHANGED <<raft, handed, calls>> /\ net' \subseteq net
  BY <1>3, QuietHands DEF raft
<1>4. ASSUME NEW c, NEW x, NEW g, NEW failed, Ends(m, c, x, g, failed),
             UNCHANGED <<raft, handed>>, net' \subseteq net
      PROVE  Handing'
  <2>1. DOMAIN calls = Calls /\ IsCall(x) /\ x.submitted = m.success /\ c = m.id[1] /\ c \in Calls
    BY <1>4 DEF Book, EachCallOK, Ends
  <2>2. \A d \in Calls : calls'[d].submitted = IF d = c THEN m.success ELSE calls[d].submitted
    BY <1>4, <2>1, ContinueSubmitted DEF Ends
  <2>3. m.success => Given(c)
    BY <1>1, <2>1 DEF Handing, Truly, SaysSuccess
  <2>4. \A d \in Calls : calls'[d].submitted => calls[d].submitted \/ Given(d)
    BY <2>2, <2>3
  <2> QED
    BY <1>1, <1>4, <2>4, QuietHands DEF raft
<1>5. \/ UNCHANGED <<raft, handed, calls>> /\ net' \subseteq net
      \/ /\ UNCHANGED <<raft, handed>> /\ net' \subseteq net
         /\ \E c, x, g, failed : Ends(m, c, x, g, failed)
      \/ \E c, n, entry, g : Resubmits(m, c, n, entry, g)
  BY ReceiveSubmitResponseDoes
<1> QED
  BY <1>2, <1>3, <1>4, <1>5

(* A committed submission is that of the request that it carries.          *)
LEMMA CommitHands ==
    ASSUME Inv, Book, Handing, NEW p \in Peers, Commit(p) PROVE Handing'
<1>1. PICK i, e : i = committed[p] + 1 /\ e = log[i]
  OBVIOUS
<1>2. i \in 1 .. Len(log) /\ EntryOK(e)
  <2>1. committed[p] \in Nat /\ Len(log) \in Nat /\ committed[p] < Len(log)
    BY DEF Book, LogOK, Commit, CommitNext
  <2> QED
    BY <1>1, <2>1 DEF Book, LogOK
<1>3. UNCHANGED <<elections, calls>>
  BY DEF Commit
<1>4. CASE UNCHANGED <<log, net, handed>>
  BY <1>3, <1>4, QuietHands
<1>5. CASE /\ e.type = "submission" /\ p = e.to
           /\ HandleSubmit(p, e.id, StorageEntry(e.call), e.source)
           /\ net' = net \cup {SubmitResponse(p, e.id, e.source)}
  <2>1. elections # 0
    BY <1>1, <1>2, <1>5 DEF Handing, Plain
  <2>2. PICK f : f = StorageEntry(e.call)
    OBVIOUS
  <2>3. f.id = <<e.id[1], 0>>
    BY <1>2, <1>5, <2>2 DEF EntryOK, Entries, SubmitId, StorageEntry, StorageId
  <2>4. HandleSubmit(p, e.id, f, e.source) /\ 0 \in Nat
    BY <1>5, <2>2
  <2> QED
    BY <1>3, <1>5, <2>1, <2>3, <2>4, HandleHands
<1> QED
  BY <1>1, <1>4, <1>5 DEF Commit

(* A timer that fires tells nothing new,                                   *)
LEMMA ExpireHands ==
    ASSUME Book, Handing, NEW id \in DOMAIN pendingRequests, Expire(id) PROVE Handing'
<1>1. PICK c \in Calls : c = id[1]
  BY DEF Book, EachCallOK
<1>2. PICK g, failed : Continue(c, calls[c], g, failed)
  BY <1>1 DEF Expire
<1>3. UNCHANGED <<handed, log, elections>> /\ \A m \in net' : m \in net
  BY DEF Expire, raft
<1> QED
  BY <1>2, <1>3, GoesOnHands

(* nor does a response,                                                    *)
LEMMA ResponseHands ==
    ASSUME Book, Handing, NEW m \in net, ReceiveResponse(m) PROVE Handing'
<1>1. PICK c : c = m.id[1]
  OBVIOUS
<1>2. UNCHANGED <<handed, log, elections>> /\ \A x \in net' : x \in net
  BY DEF ReceiveResponse, raft
<1>3. CASE UNCHANGED calls
  BY <1>2, <1>3, QuietHands
<1>4. CASE m.id \in DOMAIN pendingRequests
  <2>1. c \in Calls
    BY <1>1, <1>4 DEF Book, EachCallOK
  <2>2. PICK g : Continue(c, calls[c], g, FALSE)
    BY <1>1, <1>4 DEF ReceiveResponse
  <2> QED
    BY <1>2, <2>1, <2>2, GoesOnHands
<1> QED
  BY <1>3, <1>4 DEF ReceiveResponse

(* nor a write, the chunks of whose answer are no submissions,             *)
LEMMA WriteHands ==
    ASSUME Inv, Book, Data, Handing, NEW p \in Peers, WriteExternal(p) PROVE Handing'
<1>1. \A m \in net' : IsSubmission(m) => m \in net
  BY WriteSubmitsNothing DEF NothingSubmitted
<1>2. UNCHANGED <<handed, log, elections>>
  BY DEF WriteExternal, raft
<1>3. CASE UNCHANGED calls
  BY <1>1, <1>2, <1>3, QuietHands
<1>4. ASSUME NEW c, NEW g, StorageId(c) \in DOMAIN pendingRequests, Continue(c, calls[c], g, FALSE)
      PROVE  Handing'
  <2>1. c \in Calls
    BY <1>4 DEF Book, EachCallOK, StorageId
  <2> QED
    BY <1>1, <1>2, <1>4, <2>1, GoesOnHands
<1> QED
  BY <1>3, <1>4 DEF WriteExternal

(* nor the end of a connection.                                            *)
LEMMA CloseHands ==
    ASSUME Book, Handing, NEW p \in Peers, Close(p) PROVE Handing'
<1>1. UNCHANGED <<handed, log, elections>> /\ \A m \in net' : m \in net
  BY DEF Close, raft
<1>2. ASSUME NEW c \in Calls PROVE calls'[c].submitted = calls[c].submitted
  <2>1. IsCall(calls[c])
    BY DEF Book, EachCallOK, CallOK
  <2>2. PICK k, r : k = calls[c] /\ r = [k EXCEPT !.status = "rejected"]
    OBVIOUS
  <2>3. r.submitted = k.submitted
    BY <2>1, <2>2 DEF IsCall
  <2>4. calls'[c] \in {k, r}
    BY <2>2 DEF Close
  <2> QED
    BY <2>2, <2>3, <2>4
<1> QED
  BY <1>1, <1>2, QuietHands

(* An election leaves what was said, and ends the time of one leader.      *)
LEMMA MovesHands ==
    ASSUME Book, Handing, NEW p \in Peers, Elect(p) \/ LearnLeader(p) PROVE Handing'
<1>1. UNCHANGED <<calls, net, handed>>
  BY DEF Elect, LearnLeader
<1>2. CASE Elect(p)
  <2>1. elections \in Nat /\ elections' = elections + 1
    BY <1>2 DEF Elect, Book, LeaderOK
  <2>2. Truly'
    BY <1>1 DEF Handing, Truly, Given
  <2> QED
    BY <2>1, <2>2 DEF Handing
<1>3. CASE LearnLeader(p)
  BY <1>1, <1>3, QuietHands DEF LearnLeader
<1> QED
  BY <1>2, <1>3

(* Nothing has been said at first.                                         *)
LEMMA InitHanding == Init => Handing
<1> SUFFICES ASSUME Init PROVE Handing
  OBVIOUS
<1>1. net = {} /\ handed = {} /\ log = <<>> /\ \A c \in Calls : ~calls[c].submitted
  BY DEF Init, NoCall
<1> QED
  BY <1>1 DEF Handing, Truly, Plain

(* Every step leaves true what was said.                                   *)
LEMMA HandingStep == Inv /\ Book /\ Data /\ Asked /\ Handing /\ [Next]_vars => Handing'
<1> SUFFICES ASSUME Inv, Book, Data, Asked, Handing, [Next]_vars PROVE Handing'
  OBVIOUS
<1>1. setting \in Settings /\ setting.peers \subseteq Peers
  BY GridAssumption DEF Inv
<1>2. CASE UNCHANGED vars
  BY <1>2, QuietHands DEF vars, raft
<1>3. ASSUME NEW p \in Peers, NEW o \in setting.operations, Invoke(p, o) PROVE Handing'
  BY <1>1, <1>3, InvokeHands
<1>4. ASSUME NEW id \in DOMAIN pendingRequests, Expire(id) PROVE Handing'
  BY <1>4, ExpireHands
<1>5. ASSUME NEW m \in net, ReceiveSubmitResponse(m) PROVE Handing'
  BY <1>5, ReceiveSubmitResponseHands
<1>6. ASSUME NEW m \in net, ReceiveSubmit(m) PROVE Handing'
  BY <1>6, ReceiveSubmitHands
<1>7. ASSUME NEW m \in net, ReceiveOngoing(m) \/ Lose(m) PROVE Handing'
  <2>1. UNCHANGED <<handed, log, elections, calls>> /\ \A x \in net' : x \in net
    BY <1>7 DEF ReceiveOngoing, Lose, raft
  <2> QED
    BY <2>1, QuietHands
<1>8. ASSUME NEW m \in net, ReceiveResponse(m) PROVE Handing'
  BY <1>8, ResponseHands
<1>9. ASSUME NEW p \in Peers, ReadExternal(p) \/ FailExternal(p) \/ Notify(p) PROVE Handing'
  <2>1. UNCHANGED <<handed, log, elections, calls>>
    BY <1>9 DEF ReadExternal, FailExternal, Notify, raft
  <2>2. \A m \in net' : m \in net \/ m.type = "OngoingRequestsNotification"
    BY <1>9 DEF ReadExternal, FailExternal, Notify
  <2> QED
    BY <2>1, <2>2, QuietHands DEF IsSubmission
<1>10. ASSUME NEW p \in Peers, Commit(p) \/ WriteExternal(p) \/ Close(p) \/ Elect(p) \/ LearnLeader(p)
       PROVE  Handing'
  BY <1>10, CommitHands, WriteHands, CloseHands, MovesHands
<1> QED
  BY <1>1, <1>2, <1>3, <1>4, <1>5, <1>6, <1>7, <1>8, <1>9, <1>10 DEF Next

(* So it is in every state.                                                *)
LEMMA HandingAlways == Spec => [](Inv /\ Book /\ Handing)
<1>1. Inv /\ Book /\ Data /\ Asked /\ Handing /\ [Next]_vars => Handing'
  BY HandingStep
<1> QED
  BY <1>1, InitHanding, AskedAlways, PTL DEF Spec

(* A success is never said in vain: the request of a call that has been    *)
(* submitted was given to a leader, or its submission was, which a new     *)
(* leader has got in its place.                                            *)
THEOREM SuccessIsTaken == Spec => [](\A c \in Calls : calls[c].submitted => Given(c))
<1>1. Handing => \A c \in Calls : calls[c].submitted => Given(c)
  BY DEF Handing, Truly
<1> QED
  BY <1>1, HandingAlways, PTL

(* When the claim on resubmission does hold: as long as no election takes  *)
(* place, no submission is made again, and a success means that the        *)
(* leader has got the request itself.                                      *)
THEOREM HandedUnderOneLeader == Spec => [](elections = 0 => SubmittedIsHanded)
<1>1. Handing => (elections = 0 => SubmittedIsHanded)
  <2> SUFFICES ASSUME Handing, elections = 0, NEW c \in Calls, calls[c].submitted
               PROVE  StorageId(c) \in handed
    BY DEF SubmittedIsHanded
  <2>1. PICK n \in Nat : <<c, n>> \in handed
    BY DEF Handing, Truly, Given
  <2>2. <<c, n>> = StorageId(c)
    <3>1. PICK id \in handed : id = <<c, n>>
      BY <2>1
    <3>2. id = StorageId(id[1]) /\ id[1] = c
      BY <3>1 DEF Handing, Plain
    <3> QED
      BY <3>1, <3>2
  <2> QED
    BY <2>1, <2>2
<1> QED
  BY <1>1, HandingAlways, PTL
=============================================================================
