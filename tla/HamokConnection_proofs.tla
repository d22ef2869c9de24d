----------------------- MODULE HamokConnection_proofs -----------------------
(***************************************************************************)
(* What HamokConnection promises, for every setting, any number of peers   *)
(* and calls, and whatever the collection is: the proofs never look into   *)
(* Apply, Empty, Export and Import.  First that to its callers it is one   *)
(* object, then that a replica is what the log makes of it, however it     *)
(* joined.                                                                 *)
(***************************************************************************)
EXTENDS HamokConnection, SequenceTheorems, WellFoundedInduction, TLAPS

USE DEF kind

\* Records, by their fields
IsCall(x) ==
    x = [status |-> x.status, source |-> x.source, request |-> x.request,
         attempt |-> x.attempt, result |-> x.result]

IsConnection(x) ==
    x = [phase |-> x.phase, connected |-> x.connected, applied |-> x.applied,
         buffer |-> x.buffer, asked |-> x.asked, waiting |-> x.waiting]

\* The calls: only founders call.
CallsOK ==
    /\ calls = [c \in Calls |-> calls[c]]
    /\ \A c \in Calls :
        /\ IsCall(calls[c])
        /\ calls[c].attempt \in Nat
        /\ calls[c].status \in {"idle", "pending", "returned", "failed"}
        /\ calls[c].status # "idle" => calls[c].source \in setting.founders

\* The log is a sequence of requests that follow one from the other; an attempt of a
\* call is in it at most once, and only when the call has got that far.
EntryOK(i) ==
    LET e == commits[i] IN
    /\ e.call \in Calls
    /\ calls[e.call].status # "idle"
    /\ e.attempt \in Nat /\ e.attempt <= calls[e.call].attempt
    /\ e.source = calls[e.call].source
    /\ e.after = Apply(kind, After(i - 1), e.request, e.source).state
    /\ e.answer = Apply(kind, After(i - 1), e.request, e.source).answer
    /\ \A j \in 1 .. Len(commits) :
            commits[j].call = e.call /\ commits[j].attempt = e.attempt => j = i

LogOK ==
    /\ commits \in Seq({commits[i] : i \in 1 .. Len(commits)})
    /\ \A i \in 1 .. Len(commits) : EntryOK(i)

\* A founder has joined from the start, and its replica is what the log makes of an
\* empty collection, as far as its Raft engine has committed it.
FounderOK(p) ==
    /\ IsConnection(conn[p])
    /\ conn[p].phase \in {"joined", "closed"}
    /\ seen[p] \in 0 .. Len(commits)
    /\ conn[p].phase = "joined" => conn[p].applied = seen[p] /\ replica[p] = After(seen[p])

Inv ==
    /\ setting \in Settings
    /\ DOMAIN seen = Peers /\ DOMAIN conn = Peers /\ DOMAIN replica = Peers
    /\ CallsOK
    /\ LogOK
    /\ \A p \in setting.founders : FounderOK(p)

-----------------------------------------------------------------------------
\* The step that a step of the connections is for AtomicCollection
AbstractStep == [Abstract!Next]_(Abstract!vars)

(* In the beginning there is one empty collection and no call.             *)
LEMMA InitOK == Init => Inv /\ Abstract!Init
<1> SUFFICES ASSUME Init PROVE Inv /\ Abstract!Init
  OBVIOUS
<1>1. CallsOK
  BY DEF Init, CallsOK, IsCall, NoCall
<1>2. commits = <<>> /\ Len(commits) = 0
  BY DEF Init
<1>3. LogOK
  BY <1>2 DEF LogOK
<1>4. ASSUME NEW p \in setting.founders PROVE FounderOK(p)
  <2>1. p \in Peers
    BY SettingsAssumption DEF Init
  <2>2. conn[p] = [phase |-> "joined", connected |-> TRUE, applied |-> 0, buffer |-> <<>>,
                   asked |-> {}, waiting |-> {}]
    BY <2>1 DEF Init, NoConnection
  <2>3. seen[p] = 0 /\ replica[p] = After(0)
    BY <2>1 DEF Init, After
  <2> QED
    BY <1>2, <2>2, <2>3 DEF FounderOK, IsConnection
<1>5. Inv
  BY <1>1, <1>3, <1>4 DEF Init, Inv
<1>6. Abstract!Init
  BY <1>2 DEF Abstract!Init, Abstract!Calls, Init, After, NoCall, Calls, Answers
<1> QED
  BY <1>5, <1>6

(* A step that touches neither log nor calls is none for the callers.      *)
LEMMA Quiet ==
    ASSUME Inv, UNCHANGED <<setting, commits, calls>>,
           DOMAIN seen' = Peers, DOMAIN conn' = Peers, DOMAIN replica' = Peers,
           \A p \in setting.founders : FounderOK(p)'
    PROVE  Inv' /\ AbstractStep
<1>1. \A n : After(n)' = After(n)
  BY DEF After
<1>2. CallsOK'
  BY DEF Inv, CallsOK
<1>3. ASSUME NEW i \in 1 .. Len(commits) PROVE EntryOK(i)'
  BY <1>1, <1>3 DEF Inv, LogOK, EntryOK
<1>4. LogOK'
  BY <1>3 DEF Inv, LogOK
<1>5. UNCHANGED Abstract!vars
  BY <1>1 DEF Abstract!vars, Answers
<1> QED
  BY <1>2, <1>4, <1>5 DEF Inv, AbstractStep

(* The same for a founder that is not touched by the step of another peer. *)
LEMMA FounderStays ==
    ASSUME Inv, UNCHANGED <<setting, commits>>, NEW p \in setting.founders,
           seen'[p] = seen[p], conn'[p] = conn[p], replica'[p] = replica[p]
    PROVE  FounderOK(p)'
<1>1. \A n : After(n)' = After(n)
  BY DEF After
<1> QED
  BY <1>1 DEF Inv, FounderOK

(* A setting's founders are peers, not among those that create the         *)
(* collection later, and their logs never jump.                            *)
LEMMA FoundersFact ==
    ASSUME Inv, NEW p \in setting.founders
    PROVE  p \in Peers /\ p \notin setting.late /\ p \notin Resetting /\ p \in Members
BY SettingsAssumption DEF Inv, Members

LEMMA MembersArePeers ==
    ASSUME Inv PROVE Members \subseteq Peers
BY SettingsAssumption DEF Inv, Members

(* When a peer that has not founded the collection works through commits,  *)
(* nobody is waiting for its answers.                                      *)
LEMMA OthersAnswerNobody ==
    ASSUME Inv, NEW p \in Peers, p \notin setting.founders, NEW at, Advance(p, at)
    PROVE  calls' = calls /\ DOMAIN replica' = Peers
           /\ \A q \in Peers \ {p} : replica'[q] = replica[q]
<1>1. \A c \in Calls : calls[c].source # p \/ calls[c].status # "pending"
  BY DEF Inv, CallsOK
<1>2. calls' = [c \in Calls |-> calls[c]]
  BY <1>1 DEF Advance
<1> QED
  BY <1>2 DEF Inv, CallsOK, Advance

-----------------------------------------------------------------------------
(* The steps of the connections that the callers do not notice.            *)

LEMMA CreateQuiet ==
    ASSUME Inv, NEW p \in Members, NEW b \in BOOLEAN, Create(p, b) PROVE Inv' /\ AbstractStep
<1>1. ASSUME NEW q \in setting.founders PROVE FounderOK(q)'
  BY <1>1, FounderStays, FoundersFact DEF Inv, Create, log
<1> QED
  BY <1>1, Quiet DEF Create, log, Inv

LEMMA LeaderChangedQuiet ==
    ASSUME Inv, NEW p \in Members, LeaderChanged(p) PROVE Inv' /\ AbstractStep
<1>1. ASSUME NEW q \in setting.founders PROVE FounderOK(q)'
  <2>1. CASE q # p
    BY <1>1, <2>1, FounderStays, FoundersFact DEF Inv, LeaderChanged, log
  <2>2. CASE q = p
    <3>1. q \in Peers /\ FounderOK(q)
      BY <1>1, FoundersFact DEF Inv
    <3>2. conn'[q] = [conn[q] EXCEPT !.connected = ~@]
      BY <2>2, <3>1 DEF LeaderChanged, Inv
    <3>3. /\ IsConnection(conn'[q])
          /\ conn'[q].phase = conn[q].phase /\ conn'[q].applied = conn[q].applied
      BY <3>1, <3>2 DEF FounderOK, IsConnection
    <3>4. \A n : After(n)' = After(n)
      BY DEF After, LeaderChanged, log
    <3> QED
      BY <3>1, <3>3, <3>4 DEF FounderOK, LeaderChanged, log
  <2> QED
    BY <2>1, <2>2
<1> QED
  BY <1>1, Quiet DEF LeaderChanged, log, Inv

LEMMA FetchQuiet ==
    ASSUME Inv, NEW p \in Members, Fetch(p) PROVE Inv' /\ AbstractStep
<1>1. p \notin setting.founders
  BY DEF Inv, FounderOK, Fetch
<1>2. ASSUME NEW q \in setting.founders PROVE FounderOK(q)'
  BY <1>1, <1>2, FounderStays, FoundersFact DEF Inv, Fetch, log
<1> QED
  BY <1>2, Quiet DEF Fetch, log, Inv

LEMMA AnswerHelloQuiet ==
    ASSUME Inv, NEW p \in Members, NEW q \in Members, AnswerHello(q, p)
    PROVE  Inv' /\ AbstractStep
<1>1. p \notin setting.founders
  BY DEF Inv, FounderOK, AnswerHello
<1>2. ASSUME NEW f \in setting.founders PROVE FounderOK(f)'
  BY <1>1, <1>2, FounderStays, FoundersFact DEF Inv, AnswerHello, log
<1>3. DOMAIN conn' = Peers /\ UNCHANGED <<seen, replica, setting, commits, calls>>
  BY DEF AnswerHello, log, Inv
<1> QED
  BY <1>2, <1>3, Quiet DEF Inv

LEMMA LogResetQuiet ==
    ASSUME Inv, NEW p \in Members, LogReset(p) PROVE Inv' /\ AbstractStep
<1>1. p \in Resetting /\ UNCHANGED <<conn, replica, setting, commits, calls>>
  BY DEF LogReset
<1>2. DOMAIN seen' = Peers /\ \A q \in Peers \ {p} : seen'[q] = seen[q]
  BY DEF LogReset, Inv
<1>3. ASSUME NEW q \in setting.founders PROVE FounderOK(q)'
  BY <1>1, <1>2, <1>3, FounderStays, FoundersFact
<1> QED
  BY <1>1, <1>2, <1>3, Quiet DEF Inv

(* The rest of a join                                                      *)
LEMMA JoinQuiet ==
    ASSUME Inv, NEW p \in Members, conn[p].phase = "fetching", NEW at, Join(p, at),
           UNCHANGED log
    PROVE  Inv' /\ AbstractStep
<1>1. p \in Peers /\ p \notin setting.founders
  BY MembersArePeers DEF Inv, FounderOK
<1>2. PICK done : Advance(p, done)
  BY DEF Join
<1>3. calls' = calls /\ DOMAIN replica' = Peers /\ \A q \in Peers \ {p} : replica'[q] = replica[q]
  BY <1>1, <1>2, OthersAnswerNobody
<1>4. DOMAIN conn' = Peers /\ \A q \in Peers \ {p} : conn'[q] = conn[q]
  BY DEF Join, Inv
<1>5. UNCHANGED <<setting, commits, seen>>
  BY DEF log
<1>6. ASSUME NEW q \in setting.founders PROVE FounderOK(q)'
  BY <1>1, <1>3, <1>4, <1>5, <1>6, FounderStays, FoundersFact
<1> QED
  BY <1>3, <1>4, <1>5, <1>6, Quiet DEF Inv

LEMMA ReceiveStateQuiet ==
    ASSUME Inv, NEW p \in Members, NEW m \in notes, ReceiveState(p, m)
    PROVE  Inv' /\ AbstractStep
<1>1. conn[p].phase = "fetching" /\ UNCHANGED log
  BY DEF ReceiveState
<1>2. CASE \E at : Join(p, at)
  BY <1>1, <1>2, JoinQuiet
<1>3. CASE /\ conn' = [conn EXCEPT ![p].waiting = conn[p].waiting \ {m.from}]
           /\ UNCHANGED <<replica, calls, history>>
  <2>1. p \notin setting.founders
    BY <1>1 DEF Inv, FounderOK
  <2>2. DOMAIN conn' = Peers /\ UNCHANGED <<seen, replica, setting, commits, calls>>
    BY <1>1, <1>3 DEF log, Inv
  <2>3. ASSUME NEW q \in setting.founders PROVE FounderOK(q)'
    BY <1>3, <2>1, <2>2, <2>3, FounderStays, FoundersFact DEF Inv
  <2> QED
    BY <2>2, <2>3, Quiet DEF Inv
<1> QED
  BY <1>2, <1>3 DEF ReceiveState

LEMMA FetchTimeoutQuiet ==
    ASSUME Inv, NEW p \in Members, FetchTimeout(p) PROVE Inv' /\ AbstractStep
BY JoinQuiet DEF FetchTimeout

-----------------------------------------------------------------------------
(* The steps that are steps of the abstract collection.                    *)

\* What AtomicCollection sees of a call
View(c) ==
    [status |-> calls[c].status, source |-> calls[c].source,
     request |-> calls[c].request, result |-> calls[c].result]

(* Calls that go on keep the log as it is justified.                       *)
LEMMA LogStays ==
    ASSUME Inv, UNCHANGED <<setting, commits>>,
           \A c \in Calls : calls[c].status # "idle" =>
                /\ calls'[c].status # "idle" /\ calls'[c].source = calls[c].source
                /\ calls'[c].attempt \in Nat /\ calls[c].attempt <= calls'[c].attempt
    PROVE  LogOK'
<1>1. \A n : After(n)' = After(n)
  BY DEF After
<1>2. ASSUME NEW i \in 1 .. Len(commits) PROVE EntryOK(i)'
  <2>1. EntryOK(i)
    BY DEF Inv, LogOK
  <2>2. /\ calls[commits[i].call].status # "idle" /\ commits[i].call \in Calls
        /\ calls[commits[i].call].attempt \in Nat
    BY <2>1 DEF EntryOK, Inv, CallsOK
  <2> QED
    BY <1>1, <2>1, <2>2 DEF EntryOK
<1> QED
  BY <1>2 DEF Inv, LogOK

(* Calls fail: one of them, or those of a collection that closes.          *)
LEMMA SomeFail ==
    ASSUME Inv, UNCHANGED <<setting, commits>>, NEW failing \in SUBSET Calls,
           \A c \in failing : calls[c].status = "pending",
           calls' = [c \in Calls |-> IF c \in failing THEN [calls[c] EXCEPT !.status = "failed"]
                                     ELSE calls[c]]
    PROVE  CallsOK' /\ LogOK' /\ Abstract!Next
<1>1. ASSUME NEW c \in Calls
      PROVE  /\ IsCall(calls'[c])
             /\ calls'[c].source = calls[c].source /\ calls'[c].request = calls[c].request
             /\ calls'[c].attempt = calls[c].attempt /\ calls'[c].result = calls[c].result
             /\ calls'[c].status = IF c \in failing THEN "failed" ELSE calls[c].status
  BY <1>1 DEF Inv, CallsOK, IsCall
<1>2. CallsOK'
  BY <1>1 DEF Inv, CallsOK
<1>3. LogOK'
  BY <1>1, LogStays DEF Inv, CallsOK
<1>4. \A n : After(n)' = After(n)
  BY DEF After
<1>5. \A c \in Calls : Answers(c)' = Answers(c)
  BY <1>1 DEF Answers
<1>6. \A c \in Calls : View(c)' # View(c) =>
            View(c).status = "pending" /\ View(c)' = [View(c) EXCEPT !.status = "failed"]
  BY <1>1 DEF View
<1>7. Abstract!Fail
  BY <1>4, <1>5, <1>6 DEF Abstract!Fail, Abstract!Calls, View, Calls
<1> QED
  BY <1>2, <1>3, <1>7 DEF Abstract!Next

LEMMA FailStep ==
    ASSUME Inv, NEW c \in Calls, Fail(c) PROVE Inv' /\ AbstractStep
<1>1. calls' = [d \in Calls |-> IF d \in {c} THEN [calls[d] EXCEPT !.status = "failed"] ELSE calls[d]]
  BY DEF Fail, Inv, CallsOK
<1>2. CallsOK' /\ LogOK' /\ Abstract!Next
  BY <1>1, SomeFail DEF Fail, log
<1>3. ASSUME NEW p \in setting.founders PROVE FounderOK(p)'
  BY <1>3, FounderStays DEF Fail, log
<1> QED
  BY <1>2, <1>3 DEF Inv, AbstractStep, Fail, log

LEMMA CloseStep ==
    ASSUME Inv, NEW p \in Members, Close(p) PROVE Inv' /\ AbstractStep
<1> DEFINE mine == {c \in Calls : calls[c].source = p /\ calls[c].status = "pending"}
<1>1. calls' = [d \in Calls |-> IF d \in mine THEN [calls[d] EXCEPT !.status = "failed"] ELSE calls[d]]
  BY DEF Close
<1>2. CallsOK' /\ LogOK' /\ Abstract!Next
  BY <1>1, SomeFail DEF Close, log
<1>3. ASSUME NEW q \in setting.founders PROVE FounderOK(q)'
  <2>1. CASE q # p
    BY <1>3, <2>1, FounderStays, FoundersFact DEF Inv, Close, log
  <2>2. CASE q = p
    <3>1. conn'[q] = [NoConnection EXCEPT !.phase = "closed"]
      BY <2>2, FoundersFact DEF Close, Inv
    <3>2. IsConnection(conn'[q]) /\ conn'[q].phase = "closed"
      BY <3>1 DEF IsConnection, NoConnection
    <3>3. seen'[q] = seen[q] /\ commits' = commits
      BY DEF Close, log
    <3>4. seen[q] \in 0 .. Len(commits)
      BY DEF Inv, FounderOK
    <3> QED
      BY <3>2, <3>3, <3>4 DEF FounderOK
  <2> QED
    BY <2>1, <2>2
<1> QED
  BY <1>2, <1>3 DEF Inv, AbstractStep, Close, log

(* Calls start. Their numbers are free, so nothing is in the log for them. *)
LEMMA InvokeStep ==
    ASSUME Inv, NEW p \in Members, NEW o \in setting.operations, Invoke(p, o)
    PROVE  Inv' /\ AbstractStep
<1> DEFINE requests == Requests(p, o)
           ids == NextCall .. NextCall + Len(requests) - 1
<1>1. /\ p \in setting.founders
      /\ ids \subseteq {c \in 1 .. setting.calls : calls[c].status = "idle"}
      /\ calls' = [c \in Calls |->
                CASE c \notin ids -> calls[c]
                  [] c \in ids /\ ReturnsAtOnce(p, o) ->
                        Call(p, "returned", NoRequest, NoEntries)
                  [] c \in ids /\ ~ReturnsAtOnce(p, o) ->
                        Call(p, "pending", requests[c - NextCall + 1], Nil)]
      /\ UNCHANGED <<log, conn, replica, notes, history>>
  BY DEF Invoke
<1> HIDE DEF ids, requests
<1>2. ASSUME NEW c \in Calls, c \notin ids PROVE calls'[c] = calls[c]
  BY <1>1, <1>2
<1>3. ASSUME NEW c \in Calls, c \in ids
      PROVE  /\ calls[c].status = "idle"
             /\ IsCall(calls'[c]) /\ calls'[c].source = p /\ calls'[c].attempt = 1
             /\ \/ calls'[c].status = "pending" /\ calls'[c].result = Nil
                \/ /\ setting.kind = "queue"
                   /\ calls'[c].status = "returned" /\ calls'[c].request = NoRequest
  <2>1. CASE ReturnsAtOnce(p, o)
    BY <1>1, <1>3, <2>1 DEF Call, IsCall, ReturnsAtOnce
  <2>2. CASE ~ReturnsAtOnce(p, o)
    BY <1>1, <1>3, <2>2 DEF Call, IsCall
  <2> QED
    BY <2>1, <2>2
<1>4. CallsOK'
  BY <1>1, <1>2, <1>3 DEF Inv, CallsOK, log
<1>5. LogOK'
  BY <1>1, <1>2, <1>3, LogStays DEF Inv, CallsOK, log
<1>6. ASSUME NEW q \in setting.founders PROVE FounderOK(q)'
  BY <1>1, <1>6, FounderStays DEF log
<1>7. \A n : After(n)' = After(n)
  BY <1>1 DEF After, log
<1>8. ASSUME NEW c \in Calls PROVE Answers(c)' = Answers(c)
  <2>1. CASE c \in ids
    <3>1. \A i \in 1 .. Len(commits) : commits[i].call # c
      BY <1>3, <2>1 DEF Inv, LogOK, EntryOK
    <3>2. DOMAIN commits = 1 .. Len(commits)
      BY DEF Inv, LogOK
    <3> QED
      BY <1>1, <3>1, <3>2 DEF Answers, log
  <2>2. CASE c \notin ids
    BY <1>1, <1>2, <2>2 DEF Answers, log
  <2> QED
    BY <2>1, <2>2
<1>9. \A c \in Calls : View(c)' # View(c) =>
            /\ View(c).status = "idle"
            /\ \/ View(c)'.status = "pending" /\ View(c)'.result = Nil
               \/ /\ setting.kind = "queue"
                  /\ View(c)'.status = "returned" /\ View(c)'.request = NoRequest
  BY <1>2, <1>3 DEF View
<1>10. Abstract!Invoke
  BY <1>1, <1>7, <1>8, <1>9 DEF Abstract!Invoke, Abstract!Calls, View, Calls, log
<1> QED
  BY <1>1, <1>4, <1>5, <1>6, <1>10 DEF Inv, AbstractStep, Abstract!Next, log

(* A sequence and what is appended to it                                   *)
LEMMA Appending ==
    ASSUME NEW s, s \in Seq({s[i] : i \in 1 .. Len(s)}), NEW e, NEW t, t = Append(s, e)
    PROVE  /\ Len(t) = Len(s) + 1 /\ Len(s) \in Nat
           /\ DOMAIN s = 1 .. Len(s) /\ DOMAIN t = 1 .. Len(s) + 1
           /\ \A i \in 1 .. Len(s) : t[i] = s[i]
           /\ t[Len(s) + 1] = e
           /\ t \in Seq({t[i] : i \in 1 .. Len(t)})
<1> DEFINE S == {s[i] : i \in 1 .. Len(s)} \cup {e}
<1>1. s \in Seq(S) /\ e \in S
  OBVIOUS
<1> HIDE DEF S
<1>2. /\ Len(t) = Len(s) + 1 /\ Len(s) \in Nat
      /\ DOMAIN s = 1 .. Len(s) /\ DOMAIN t = 1 .. Len(s) + 1
      /\ \A i \in 1 .. Len(s) : t[i] = s[i]
      /\ t[Len(s) + 1] = e
      /\ t \in Seq(S)
  BY <1>1
<1>3. t \in Seq({t[i] : i \in 1 .. Len(t)})
  BY <1>2
<1> QED
  BY <1>2, <1>3

(* A request that is committed takes its effect on the collection.         *)
LEMMA CommitStep ==
    ASSUME Inv, NEW c \in Calls, Commit(c) PROVE Inv' /\ AbstractStep
<1>0. PICK n, outcome, e :
        /\ n = Len(commits)
        /\ outcome = Apply(kind, After(n), calls[c].request, calls[c].source)
        /\ e = [call |-> c, attempt |-> calls[c].attempt, source |-> calls[c].source,
                request |-> calls[c].request, after |-> outcome.state,
                answer |-> outcome.answer]
  OBVIOUS
<1>1. /\ commits' = Append(commits, e)
      /\ calls[c].status \in {"pending", "failed"}
      /\ UNCHANGED <<setting, seen, conn, replica, calls>>
  BY <1>0 DEF Commit
<1>2. \A i \in DOMAIN commits : ~(commits[i].call = c /\ commits[i].attempt = calls[c].attempt)
  BY DEF Commit, Logged
<1>3. /\ Len(commits') = n + 1 /\ n \in Nat
      /\ DOMAIN commits = 1 .. n /\ DOMAIN commits' = 1 .. n + 1
      /\ \A i \in 1 .. n : commits'[i] = commits[i]
      /\ commits'[n + 1] = e
      /\ commits' \in Seq({commits'[i] : i \in 1 .. Len(commits')})
  BY <1>0, <1>1, Appending DEF Inv, LogOK
<1>4. \A i \in 0 .. n : After(i)' = After(i)
  BY <1>1, <1>3 DEF After
<1>5. After(n + 1)' = outcome.state
  BY <1>0, <1>3 DEF After
<1>6. /\ e.call = c /\ e.attempt = calls[c].attempt /\ e.source = calls[c].source
      /\ e.request = calls[c].request /\ e.after = outcome.state /\ e.answer = outcome.answer
  BY <1>0
<1>7. ASSUME NEW i \in 1 .. n + 1 PROVE EntryOK(i)'
  <2>1. CASE i \in 1 .. n
    <3>1. EntryOK(i)
      BY <1>0, <2>1 DEF Inv, LogOK
    <3>2. After(i - 1)' = After(i - 1)
      BY <1>3, <1>4, <2>1
    <3>3. commits'[i] = commits[i]
      BY <1>3, <2>1
    <3>4. \A j \in 1 .. n + 1 :
            commits'[j].call = commits[i].call /\ commits'[j].attempt = commits[i].attempt => j = i
      <4>1. \A j \in 1 .. n :
                commits[j].call = commits[i].call /\ commits[j].attempt = commits[i].attempt => j = i
        BY <1>0, <3>1 DEF EntryOK
      <4>2. ~(e.call = commits[i].call /\ e.attempt = commits[i].attempt)
        BY <1>2, <1>3, <1>6, <2>1
      <4> QED
        BY <1>3, <4>1, <4>2
    <3> QED
      BY <1>1, <1>3, <3>1, <3>2, <3>3, <3>4 DEF EntryOK
  <2>2. CASE i = n + 1
    <3>1. After(i - 1)' = After(n)
      BY <1>3, <1>4, <2>2
    <3>2. \A j \in 1 .. n + 1 :
            commits'[j].call = c /\ commits'[j].attempt = calls[c].attempt => j = i
      BY <1>2, <1>3, <2>2
    <3>3. calls[c].attempt \in Nat /\ calls[c].attempt <= calls[c].attempt
      BY DEF Inv, CallsOK
    <3>4. commits'[i] = e
      BY <1>3, <2>2
    <3>5. /\ e.after = Apply(setting.kind, After(n), e.request, e.source).state
          /\ e.answer = Apply(setting.kind, After(n), e.request, e.source).answer
      BY <1>0, <1>6
    <3> QED
      BY <1>1, <1>3, <1>6, <3>1, <3>2, <3>3, <3>4, <3>5 DEF EntryOK
  <2> QED
    BY <1>3, <2>1, <2>2
<1>8. LogOK'
  BY <1>3, <1>7 DEF LogOK
<1>9. CallsOK'
  BY <1>1 DEF Inv, CallsOK
<1>10. ASSUME NEW p \in setting.founders PROVE FounderOK(p)'
  <2>1. FounderOK(p)
    BY DEF Inv
  <2>2. After(seen[p])' = After(seen[p])
    BY <1>0, <1>1, <1>4, <2>1 DEF FounderOK
  <2> QED
    BY <1>0, <1>1, <1>3, <2>1, <2>2 DEF FounderOK
<1>11. Answers(c) = {} /\ Answers(c)' = {outcome.answer}
  BY <1>1, <1>2, <1>3, <1>6 DEF Answers
<1>12. \A d \in Calls \ {c} : Answers(d)' = Answers(d)
  BY <1>1, <1>3, <1>6 DEF Answers
<1>13. After(Len(commits))' = outcome.state
  BY <1>3, <1>5
<1>14. Abstract!Perform(c)
  BY <1>0, <1>1, <1>11, <1>12, <1>13 DEF Abstract!Perform, Abstract!Calls, Calls
<1>15. Abstract!Next
  BY <1>14 DEF Abstract!Next, Abstract!Calls, Calls
<1> QED
  BY <1>1, <1>8, <1>9, <1>10, <1>15 DEF Inv, AbstractStep

(* A replica that applies an entry answers it at most once, and the answer *)
(* is the one of the entry: the call returns it, or, for a pop that        *)
(* removed nothing, asks again, and the log has nothing of this attempt.   *)
LEMMA AnswerStep ==
    ASSUME Inv, UNCHANGED <<setting, commits>>,
           NEW p \in setting.founders, NEW i \in 1 .. Len(commits), NEW at, Advance(p, at),
           at.answers # {} =>
                /\ at.answers = {[call |-> commits[i].call, attempt |-> commits[i].attempt,
                                  result |-> commits[i].answer]}
                /\ commits[i].answer # Nil
    PROVE  CallsOK' /\ LogOK' /\ (calls' = calls \/ Abstract!Next)
<1>1. PICK d, a : /\ d = commits[i].call
                  /\ a = [call |-> commits[i].call, attempt |-> commits[i].attempt,
                          result |-> commits[i].answer]
  OBVIOUS
<1>2. d \in Calls /\ EntryOK(i)
  BY <1>1 DEF Inv, LogOK, EntryOK
<1>3. /\ a.call = d /\ a.attempt = commits[i].attempt /\ a.result = commits[i].answer
      /\ at.answers = {} \/ (at.answers = {a} /\ a.result # Nil)
  BY <1>1
<1>4. ASSUME NEW c \in Calls, c # d PROVE calls'[c] = calls[c]
  BY <1>3, <1>4 DEF Advance
<1>5. \A n : After(n)' = After(n)
  BY DEF After
<1>6. CASE calls'[d] = calls[d]
  <2>1. calls' = [c \in Calls |-> calls[c]]
    BY <1>4, <1>6 DEF Advance
  <2>2. calls' = calls
    BY <2>1 DEF Inv, CallsOK
  <2> QED
    BY <2>2, LogStays DEF Inv, CallsOK
<1>7. CASE calls'[d] # calls[d]
  <2>1. /\ at.answers = {a} /\ a.attempt = calls[d].attempt
        /\ calls[d].source = p /\ calls[d].status = "pending"
    BY <1>2, <1>3, <1>7 DEF Advance
  <2>2. {x \in at.answers : x.call = d /\ x.attempt = calls[d].attempt} = {a}
    BY <1>3, <2>1
  <2>3. calls'[d] = Settled(d, a, at.state)
    BY <1>2, <2>1, <2>2 DEF Advance
  <2>4. IsCall(calls[d]) /\ calls[d].attempt \in Nat
    BY <1>2 DEF Inv, CallsOK
  <2>5. Answers(d) = {a.result}
    <3>1. DOMAIN commits = 1 .. Len(commits)
      BY DEF Inv, LogOK
    <3>2. \A j \in 1 .. Len(commits) :
            commits[j].call = d /\ commits[j].attempt = calls[d].attempt <=> j = i
      BY <1>1, <1>2, <1>3, <2>1 DEF EntryOK
    <3>3. {j \in DOMAIN commits :
            commits[j].call = d /\ commits[j].attempt = calls[d].attempt} = {i}
      BY <3>1, <3>2
    <3> QED
      BY <1>3, <3>3 DEF Answers
  <2>6. \A c \in Calls \ {d} : View(c)' = View(c) /\ Answers(c)' = Answers(c)
    BY <1>4 DEF View, Answers
  <2>7. CASE /\ setting.kind = "queue" /\ calls[d].request.type = "RemoveEntries"
             /\ a.result = NoEntries /\ ~Queue!IsEmpty(at.state)
    <3>1. calls'[d] = [calls[d] EXCEPT !.attempt = @ + 1, !.request = PopRequest(at.state)]
      BY <2>3, <2>7 DEF Settled
    <3>2. /\ IsCall(calls'[d]) /\ calls'[d].attempt = calls[d].attempt + 1
          /\ calls'[d].request = PopRequest(at.state)
          /\ calls'[d].source = p /\ calls'[d].status = "pending"
          /\ calls'[d].result = calls[d].result
      BY <2>1, <2>4, <3>1 DEF IsCall
    <3>3. CallsOK'
      <4>1. calls' = [c \in Calls |-> calls'[c]]
        BY DEF Advance
      <4>2. calls'[d].attempt \in Nat
        BY <2>4, <3>2
      <4> QED
        BY <1>4, <3>2, <4>1, <4>2 DEF Inv, CallsOK
    <3>4. LogOK'
      BY <1>4, <2>1, <2>4, <3>2, LogStays DEF Inv, CallsOK
    <3>5. \A j \in 1 .. Len(commits) :
            ~(commits[j].call = d /\ commits[j].attempt = calls[d].attempt + 1)
      <4> SUFFICES ASSUME NEW j \in 1 .. Len(commits), commits[j].call = d
                   PROVE  commits[j].attempt # calls[d].attempt + 1
        OBVIOUS
      <4>1. commits[j].attempt \in Nat /\ commits[j].attempt <= calls[d].attempt
        BY DEF Inv, LogOK, EntryOK
      <4> QED
        BY <2>4, <4>1
    <3>6. Answers(d)' = {}
      BY <3>2, <3>5 DEF Answers, Inv, LogOK
    <3>7. /\ View(d).status = "pending"
          /\ View(d)' = [View(d) EXCEPT !.request = PopRequest(at.state)]
      BY <2>1, <3>2 DEF View
    <3>8. PopRequest(at.state).type = "RemoveEntries"
      BY DEF PopRequest
    <3>9. Abstract!Retry(d)
      BY <1>2, <1>5, <2>5, <2>6, <2>7, <3>6, <3>7, <3>8
         DEF Abstract!Retry, Abstract!Calls, Calls, View
    <3> QED
      BY <1>2, <3>3, <3>4, <3>9 DEF Abstract!Next, Abstract!Calls, Calls
  <2>8. CASE ~(/\ setting.kind = "queue" /\ calls[d].request.type = "RemoveEntries"
               /\ a.result = NoEntries /\ ~Queue!IsEmpty(at.state))
    <3>1. calls'[d] = [calls[d] EXCEPT !.status = "returned", !.result = a.result]
      BY <2>3, <2>8 DEF Settled
    <3>2. /\ IsCall(calls'[d]) /\ calls'[d].attempt = calls[d].attempt
          /\ calls'[d].request = calls[d].request
          /\ calls'[d].source = p /\ calls'[d].status = "returned"
          /\ calls'[d].result = a.result
      BY <2>1, <2>4, <3>1 DEF IsCall
    <3>3. CallsOK'
      <4>1. calls' = [c \in Calls |-> calls'[c]]
        BY DEF Advance
      <4>2. calls'[d].attempt \in Nat
        BY <2>4, <3>2
      <4> QED
        BY <1>4, <3>2, <4>1, <4>2 DEF Inv, CallsOK
    <3>4. LogOK'
      BY <1>4, <2>1, <2>4, <3>2, LogStays DEF Inv, CallsOK
    <3>5. Answers(d)' = Answers(d)
      BY <3>2 DEF Answers
    <3>6. /\ View(d).status = "pending"
          /\ View(d)' = [status |-> "returned", source |-> calls[d].source,
                         request |-> calls[d].request, result |-> a.result]
      BY <2>1, <3>2 DEF View
    <3>7. a.result \in Answers(d) \ {Nil}
      BY <1>3, <2>1, <2>5
    <3>8. [c \in Calls |-> View(c)]' =
            [[c \in Calls |-> View(c)] EXCEPT ![d].status = "returned", ![d].result = a.result]
      <4>1. PICK v : v = View(d)
        OBVIOUS
      <4>2. v = [status |-> calls[d].status, source |-> calls[d].source,
                 request |-> calls[d].request, result |-> calls[d].result]
        BY <4>1 DEF View
      <4>3. PICK w : w = [v EXCEPT !.status = "returned"]
        OBVIOUS
      <4>4. w = [status |-> "returned", source |-> calls[d].source,
                 request |-> calls[d].request, result |-> calls[d].result]
        BY <4>2, <4>3
      <4>5. [w EXCEPT !.result = a.result] = View(d)'
        BY <3>6, <4>4
      <4> QED
        BY <1>2, <2>6, <4>1, <4>3, <4>5
    <3>9. [c \in Calls |-> Answers(c)]' = [c \in Calls |-> Answers(c)]
      BY <2>6, <3>5
    <3>10. Abstract!Return(d)
      BY <1>2, <1>5, <3>6, <3>7, <3>8, <3>9 DEF Abstract!Return, Abstract!Calls, View
    <3> QED
      BY <1>2, <3>3, <3>4, <3>10 DEF Abstract!Next, Abstract!Calls, Calls
  <2> QED
    BY <2>7, <2>8
<1> QED
  BY <1>6, <1>7

(* The next committed entry reaches a peer.                                *)
LEMMA DeliverStep ==
    ASSUME Inv, NEW p \in Members, Deliver(p) PROVE Inv' /\ AbstractStep
<1>1. PICK i : /\ i = seen[p] + 1 /\ i <= Len(commits)
               /\ seen' = [seen EXCEPT ![p] = i]
  BY DEF Deliver
<1>2. UNCHANGED <<setting, commits>> /\ p \in Peers
  BY MembersArePeers DEF Deliver
<1>3. \A n : After(n)' = After(n)
  BY <1>2 DEF After
<1>4. DOMAIN seen' = Peers /\ \A q \in Peers \ {p} : seen'[q] = seen[q]
  BY <1>1 DEF Inv
<1>5. CASE p \notin setting.founders
  <2>1. /\ calls' = calls /\ DOMAIN replica' = Peers
        /\ \A q \in Peers \ {p} : replica'[q] = replica[q]
    <3>1. CASE UNCHANGED <<replica, calls>>
      BY <3>1 DEF Inv
    <3>2. CASE \E at : Advance(p, at)
      BY <1>2, <1>5, <3>2, OthersAnswerNobody
    <3> QED
      BY <3>1, <3>2 DEF Deliver
  <2>2. DOMAIN conn' = Peers /\ \A q \in Peers \ {p} : conn'[q] = conn[q]
    BY DEF Deliver, Inv
  <2>3. ASSUME NEW q \in setting.founders PROVE FounderOK(q)'
    BY <1>2, <1>4, <1>5, <2>1, <2>2, <2>3, FounderStays, FoundersFact
  <2> QED
    BY <1>2, <1>4, <2>1, <2>2, <2>3, Quiet
<1>6. CASE p \in setting.founders /\ conn[p].phase # "joined"
  <2>1. FounderOK(p)
    BY <1>6 DEF Inv
  <2>2. UNCHANGED <<conn, replica, calls>>
    BY <1>6, <2>1 DEF Deliver, FounderOK
  <2>3. FounderOK(p)'
    BY <1>1, <1>2, <1>6, <2>1, <2>2 DEF FounderOK, Inv
  <2>4. ASSUME NEW q \in setting.founders PROVE FounderOK(q)'
    BY <1>2, <1>4, <2>2, <2>3, <2>4, FounderStays, FoundersFact
  <2> QED
    BY <1>2, <1>4, <2>2, <2>4, Quiet DEF Inv
<1>7. CASE p \in setting.founders /\ conn[p].phase = "joined"
  <2>1. /\ IsConnection(conn[p]) /\ conn[p].applied = seen[p] /\ seen[p] \in 0 .. Len(commits)
        /\ replica[p] = After(seen[p])
    BY <1>7 DEF Inv, FounderOK
  <2>2. PICK at : /\ at = Step(p, Progress(p), i)
                  /\ Advance(p, at)
                  /\ conn' = [conn EXCEPT ![p].applied = at.applied]
    BY <1>1, <1>7 DEF Deliver
  <2>3. i \in 1 .. Len(commits) /\ EntryOK(i) /\ i - 1 = seen[p]
    <3>1. Len(commits) \in Nat
      BY DEF Inv, LogOK
    <3>2. i \in 1 .. Len(commits) /\ i - 1 = seen[p]
      BY <1>1, <2>1, <3>1
    <3> QED
      BY <3>2 DEF Inv, LogOK
  <2>4. /\ Progress(p).state = After(i - 1) /\ Progress(p).applied = i - 1
        /\ Progress(p).answers = {}
    BY <2>1, <2>3 DEF Progress
  <2>5. /\ at.state = commits[i].after /\ at.applied = i
        /\ at.answers = IF commits[i].source = p /\ commits[i].answer # Nil
                        THEN {[call |-> commits[i].call, attempt |-> commits[i].attempt,
                               result |-> commits[i].answer]}
                        ELSE {}
    <3>1. PICK outcome : outcome = Apply(kind, Progress(p).state, commits[i].request,
                                         commits[i].source)
      OBVIOUS
    <3>2. outcome.state = commits[i].after /\ outcome.answer = commits[i].answer
      BY <2>3, <2>4, <3>1 DEF EntryOK
    <3>3. ~(i <= Progress(p).applied)
      BY <2>3, <2>4
    <3>4. at = [state |-> outcome.state,
                applied |-> i,
                skipped |-> Progress(p).skipped \cup (Progress(p).applied + 1 .. i - 1),
                answers |-> Progress(p).answers \cup
                    IF commits[i].source = p /\ outcome.answer # Nil
                    THEN {[call |-> commits[i].call, attempt |-> commits[i].attempt,
                           result |-> outcome.answer]}
                    ELSE {}]
      BY <2>2, <3>1, <3>3 DEF Step
    <3> QED
      BY <2>4, <3>2, <3>4
  <2>6. at.state = After(i)
    BY <2>3, <2>5 DEF After
  <2>7. CallsOK' /\ LogOK' /\ (calls' = calls \/ Abstract!Next)
    BY <1>2, <1>7, <2>2, <2>3, <2>5, AnswerStep
  <2>8. /\ DOMAIN replica' = Peers /\ replica'[p] = at.state
        /\ \A q \in Peers \ {p} : replica'[q] = replica[q]
    BY <1>2, <2>2 DEF Advance, Inv
  <2>9. /\ DOMAIN conn' = Peers
        /\ conn'[p] = [conn[p] EXCEPT !.applied = at.applied]
        /\ \A q \in Peers \ {p} : conn'[q] = conn[q]
    BY <1>2, <2>2 DEF Inv
  <2>10. FounderOK(p)'
    <3>1. IsConnection(conn'[p]) /\ conn'[p].phase = "joined" /\ conn'[p].applied = i
      BY <1>7, <2>1, <2>5, <2>9 DEF IsConnection
    <3>2. seen'[p] = i
      BY <1>1, <1>2 DEF Inv
    <3> QED
      BY <1>2, <1>3, <2>3, <2>6, <2>8, <3>1, <3>2 DEF FounderOK
  <2>11. ASSUME NEW q \in setting.founders PROVE FounderOK(q)'
    BY <1>2, <1>4, <2>8, <2>9, <2>10, <2>11, FounderStays, FoundersFact
  <2>12. CASE calls' = calls
    BY <1>2, <1>4, <2>8, <2>9, <2>11, <2>12, Quiet
  <2>13. CASE Abstract!Next
    BY <1>2, <1>4, <2>7, <2>8, <2>9, <2>11, <2>13 DEF Inv, AbstractStep
  <2> QED
    BY <2>7, <2>12, <2>13
<1> QED
  BY <1>5, <1>6, <1>7

-----------------------------------------------------------------------------
(* Every step keeps the invariant and is a step of one collection.         *)
LEMMA EveryStep == Inv /\ [Next]_vars => Inv' /\ AbstractStep
<1> SUFFICES ASSUME Inv, [Next]_vars PROVE Inv' /\ AbstractStep
  OBVIOUS
<1>1. CASE UNCHANGED vars
  <2>1. ASSUME NEW q \in setting.founders PROVE FounderOK(q)'
    BY <1>1, <2>1, FounderStays DEF vars, log
  <2> QED
    BY <1>1, <2>1, Quiet DEF vars, log, Inv
<1>2. ASSUME NEW p \in Members, NEW o \in setting.operations, Invoke(p, o)
      PROVE  Inv' /\ AbstractStep
  BY <1>2, InvokeStep
<1>3. ASSUME NEW c \in Calls, Fail(c) \/ Commit(c) PROVE Inv' /\ AbstractStep
  BY <1>3, FailStep, CommitStep
<1>4. ASSUME NEW p \in Members,
             \/ Deliver(p) \/ LogReset(p) \/ LeaderChanged(p)
             \/ Fetch(p) \/ FetchTimeout(p) \/ Close(p)
      PROVE  Inv' /\ AbstractStep
  BY <1>4, DeliverStep, LogResetQuiet, LeaderChangedQuiet, FetchQuiet, FetchTimeoutQuiet,
     CloseStep
<1>5. ASSUME NEW p \in Members, NEW b \in BOOLEAN, Create(p, b) PROVE Inv' /\ AbstractStep
  BY <1>5, CreateQuiet
<1>6. ASSUME NEW p \in Members, NEW q \in Members, AnswerHello(q, p)
      PROVE  Inv' /\ AbstractStep
  BY <1>6, AnswerHelloQuiet
<1>7. ASSUME NEW p \in Members, NEW m \in notes, ReceiveState(p, m)
      PROVE  Inv' /\ AbstractStep
  BY <1>7, ReceiveStateQuiet
<1> QED
  BY <1>1, <1>2, <1>3, <1>4, <1>5, <1>6, <1>7 DEF Next

LEMMA InvAlways == Spec => []Inv
<1>1. Init => Inv
  BY InitOK
<1>2. Inv /\ [Next]_vars => Inv'
  BY EveryStep
<1> QED
  BY <1>1, <1>2, PTL DEF Spec

(* Whatever the peers, their pace, the joins, the closes, the timeouts and *)
(* the lost leaders: to its callers a replicated map, record, queue or     *)
(* emitter behaves as one object on which each request takes effect in one *)
(* step, at most once, and is answered by that step.                       *)
THEOREM Refinement == Spec => ImplementsAtomicCollection
<1>1. Init => Abstract!Init
  BY InitOK
<1>2. Inv /\ [Next]_vars => [Abstract!Next]_(Abstract!vars)
  BY EveryStep DEF AbstractStep
<1>3. Spec => []Inv
  BY InvAlways
<1> QED
  BY <1>1, <1>2, <1>3, PTL DEF Spec, ImplementsAtomicCollection, Abstract!Spec

(* The founders of a collection that is not closed agree: two replicas     *)
(* that have seen equally much of the log are equal, and each is what the  *)
(* log up to there makes of an empty collection, nothing skipped, nothing  *)
(* applied twice.                                                          *)
FoundersAgree ==
    \A p \in setting.founders : conn[p].phase = "joined" =>
        /\ conn[p].applied = seen[p]
        /\ replica[p] = After(seen[p])

THEOREM FoundersInSync == Spec => []FoundersAgree
<1>1. Inv => FoundersAgree
  BY DEF Inv, FounderOK, FoundersAgree
<1> QED
  BY <1>1, InvAlways, PTL

-----------------------------------------------------------------------------
(* Numbers and the effect of a log.                                        *)

(* A set of naturals that is not empty has a least element.               *)
LEMMA LeastNatural ==
    ASSUME NEW S \in SUBSET Nat, S # {}
    PROVE  \E m \in S : \A x \in S : m <= x
<1>1. IsWellFoundedOn(OpToRel(<, Nat), Nat)
  BY NatLessThanWellFounded
<1>2. PICK m \in S : \A x \in S : ~(<<x, m>> \in OpToRel(<, Nat))
  BY <1>1, WFMin
<1>3. \A x \in S : ~(x < m)
  BY <1>2 DEF OpToRel
<1> QED
  BY <1>3

(* A set that has 0, and with a number the next, has every natural.         *)
LEMMA UpFromZero ==
    ASSUME NEW S, 0 \in S, \A n \in Nat : n \in S => n + 1 \in S
    PROVE  Nat \subseteq S
<1> SUFFICES ASSUME Nat \ S # {} PROVE FALSE
  OBVIOUS
<1>1. PICK n \in Nat \ S : \A m \in Nat \ S : n <= m
  BY LeastNatural
<1>2. n \in Nat /\ n # 0
  BY <1>1
<1>3. n - 1 \in S
  BY <1>1, <1>2
<1> QED
  BY <1>1, <1>2, <1>3

\* AfterAllBut, of any log
AfterIn(k, es, n, missed) ==
    LET after[i \in 0 .. n] ==
            IF i = 0 THEN Empty(k)
            ELSE IF i \in missed THEN after[i - 1]
            ELSE Apply(k, after[i - 1], es[i].request, es[i].source).state
    IN  after[n]

GrowsBy(k, es, missed, f, n) ==
    f = [i \in 0 .. n |->
            IF i = 0 THEN Empty(k)
            ELSE IF i \in missed THEN f[i - 1]
            ELSE Apply(k, f[i - 1], es[i].request, es[i].source).state]

(* The recursive definition has a solution.                                 *)
LEMMA AfterInIs ==
    ASSUME NEW k, NEW es, NEW missed, NEW n \in Nat
    PROVE  \E f : GrowsBy(k, es, missed, f, n) /\ AfterIn(k, es, n, missed) = f[n]
<1> DEFINE S == {m \in Nat : \E f : GrowsBy(k, es, missed, f, m)}
<1>1. 0 \in S
  <2> DEFINE f == [i \in 0 .. 0 |-> Empty(k)]
  <2>1. GrowsBy(k, es, missed, f, 0)
    BY DEF GrowsBy
  <2> QED
    BY <2>1
<1>2. ASSUME NEW m \in Nat, m \in S PROVE m + 1 \in S
  <2>1. PICK f : GrowsBy(k, es, missed, f, m)
    BY <1>2
  <2> DEFINE next == IF m + 1 \in missed THEN f[m]
                     ELSE Apply(k, f[m], es[m + 1].request, es[m + 1].source).state
             g == [i \in 0 .. m + 1 |-> IF i = m + 1 THEN next ELSE f[i]]
  <2>2. ASSUME NEW i \in 0 .. m + 1
        PROVE  g[i] = IF i = 0 THEN Empty(k)
                      ELSE IF i \in missed THEN g[i - 1]
                      ELSE Apply(k, g[i - 1], es[i].request, es[i].source).state
    <3>1. CASE i = m + 1
      <4>1. m + 1 # 0 /\ m \in 0 .. m + 1 /\ m # m + 1 /\ (m + 1) - 1 = m
        OBVIOUS
      <4>2. g[m + 1] = next /\ g[m] = f[m]
        BY <4>1
      <4> HIDE DEF g
      <4> QED
        BY <3>1, <4>1, <4>2
    <3>2. CASE i \in 0 .. m
      <4>1. g[i] = f[i] /\ (i # 0 => g[i - 1] = f[i - 1])
        BY <3>2
      <4>2. f[i] = IF i = 0 THEN Empty(k)
                   ELSE IF i \in missed THEN f[i - 1]
                   ELSE Apply(k, f[i - 1], es[i].request, es[i].source).state
        BY <2>1, <3>2 DEF GrowsBy
      <4> HIDE DEF g
      <4> QED
        BY <4>1, <4>2
    <3> QED
      BY <3>1, <3>2
  <2>3. g = [i \in 0 .. m + 1 |-> g[i]]
    OBVIOUS
  <2> HIDE DEF g
  <2>4. GrowsBy(k, es, missed, g, m + 1)
    BY <2>2, <2>3 DEF GrowsBy
  <2> QED
    BY <2>4
<1>3. n \in S
  <2> HIDE DEF S
  <2> QED
    BY <1>1, <1>2, UpFromZero
<1>4. \E f : GrowsBy(k, es, missed, f, n)
  BY <1>3
<1>5. PICK f : f = CHOOSE g : GrowsBy(k, es, missed, g, n)
  OBVIOUS
<1>6. GrowsBy(k, es, missed, f, n)
  BY <1>4, <1>5
<1>7. AfterIn(k, es, n, missed) = f[n]
  BY <1>5 DEF AfterIn, GrowsBy
<1> QED
  BY <1>6, <1>7

(* Logs that are alike up to n, of which the same is left out, have the    *)
(* same effect up to n.                                                    *)
LEMMA AfterInLocal ==
    ASSUME NEW k, NEW es, NEW fs, NEW missed, NEW lacking, NEW n \in Nat,
           \A i \in 1 .. n : es[i] = fs[i] /\ (i \in missed <=> i \in lacking),
           NEW f, NEW g, NEW m \in Nat, n <= m,
           GrowsBy(k, es, missed, f, n), GrowsBy(k, fs, lacking, g, m)
    PROVE  f[n] = g[n]
<1> DEFINE S == {i \in Nat : i <= n => f[i] = g[i]}
<1>1. 0 \in S
  <2>1. 0 \in 0 .. n /\ 0 \in 0 .. m
    OBVIOUS
  <2> QED
    BY <2>1 DEF GrowsBy
<1>2. ASSUME NEW i \in Nat, i \in S PROVE i + 1 \in S
  <2> SUFFICES ASSUME i + 1 <= n PROVE f[i + 1] = g[i + 1]
    OBVIOUS
  <2>1. /\ i + 1 \in 0 .. n /\ i + 1 \in 0 .. m /\ i + 1 # 0 /\ (i + 1) - 1 = i
        /\ i + 1 \in 1 .. n
    OBVIOUS
  <2>2. f[i] = g[i]
    BY <1>2
  <2>3. f[i + 1] = IF i + 1 \in missed THEN f[i]
                   ELSE Apply(k, f[i], es[i + 1].request, es[i + 1].source).state
    BY <2>1 DEF GrowsBy
  <2>4. g[i + 1] = IF i + 1 \in lacking THEN g[i]
                   ELSE Apply(k, g[i], fs[i + 1].request, fs[i + 1].source).state
    BY <2>1 DEF GrowsBy
  <2> QED
    BY <2>1, <2>2, <2>3, <2>4
<1>3. n \in S
  <2> HIDE DEF S
  <2> QED
    BY <1>1, <1>2, UpFromZero
<1> QED
  BY <1>3

LEMMA AfterInSame ==
    ASSUME NEW k, NEW es, NEW fs, NEW missed, NEW lacking, NEW n \in Nat,
           \A i \in 1 .. n : es[i] = fs[i] /\ (i \in missed <=> i \in lacking)
    PROVE  AfterIn(k, es, n, missed) = AfterIn(k, fs, n, lacking)
<1>1. PICK f : GrowsBy(k, es, missed, f, n) /\ AfterIn(k, es, n, missed) = f[n]
  BY AfterInIs
<1>2. PICK g : GrowsBy(k, fs, lacking, g, n) /\ AfterIn(k, fs, n, lacking) = g[n]
  BY AfterInIs
<1> QED
  BY <1>1, <1>2, AfterInLocal

LEMMA AfterInNext ==
    ASSUME NEW k, NEW es, NEW missed, NEW n \in Nat
    PROVE  /\ AfterIn(k, es, 0, missed) = Empty(k)
           /\ AfterIn(k, es, n + 1, missed) =
                IF n + 1 \in missed THEN AfterIn(k, es, n, missed)
                ELSE Apply(k, AfterIn(k, es, n, missed), es[n + 1].request,
                           es[n + 1].source).state
<1>1. PICK f : GrowsBy(k, es, missed, f, 0) /\ AfterIn(k, es, 0, missed) = f[0]
  BY AfterInIs
<1>2. AfterIn(k, es, 0, missed) = Empty(k)
  BY <1>1 DEF GrowsBy
<1>3. PICK g : GrowsBy(k, es, missed, g, n) /\ AfterIn(k, es, n, missed) = g[n]
  BY AfterInIs
<1>4. n + 1 \in Nat
  OBVIOUS
<1>5. PICK h : GrowsBy(k, es, missed, h, n + 1) /\ AfterIn(k, es, n + 1, missed) = h[n + 1]
  BY <1>4, AfterInIs
<1>6. g[n] = h[n]
  BY <1>3, <1>4, <1>5, AfterInLocal
<1>7. n + 1 \in 0 .. n + 1 /\ n + 1 # 0 /\ (n + 1) - 1 = n
  OBVIOUS
<1>8. h[n + 1] = IF n + 1 \in missed THEN h[n]
                 ELSE Apply(k, h[n], es[n + 1].request, es[n + 1].source).state
  BY <1>5, <1>7 DEF GrowsBy
<1> QED
  BY <1>2, <1>3, <1>5, <1>6, <1>8

(* What is left out at the end has no effect.                              *)
LEMMA AfterInSkips ==
    ASSUME NEW k, NEW es, NEW missed, NEW n \in Nat, NEW m \in Nat, n <= m,
           n + 1 .. m \subseteq missed
    PROVE  AfterIn(k, es, m, missed) = AfterIn(k, es, n, missed)
<1> DEFINE S == {d \in Nat : n + d <= m =>
                    AfterIn(k, es, n + d, missed) = AfterIn(k, es, n, missed)}
<1>1. 0 \in S
  OBVIOUS
<1>2. ASSUME NEW d \in Nat, d \in S PROVE d + 1 \in S
  <2> SUFFICES ASSUME n + (d + 1) <= m
               PROVE  AfterIn(k, es, n + (d + 1), missed) = AfterIn(k, es, n, missed)
    OBVIOUS
  <2>1. n + (d + 1) = (n + d) + 1 /\ (n + d) + 1 \in n + 1 .. m /\ n + d \in Nat
    OBVIOUS
  <2>2. AfterIn(k, es, n + d, missed) = AfterIn(k, es, n, missed)
    BY <1>2, <2>1
  <2>3. AfterIn(k, es, (n + d) + 1, missed) = AfterIn(k, es, n + d, missed)
    BY <2>1, AfterInNext
  <2> QED
    BY <2>1, <2>2, <2>3
<1>3. m - n \in Nat /\ n + (m - n) = m
  OBVIOUS
<1>4. m - n \in S
  <2> HIDE DEF S
  <2> QED
    BY <1>1, <1>2, <1>3, UpFromZero
<1> QED
  BY <1>3, <1>4
(* The next applied index, with what is left out in between.               *)
LEMMA AfterInMore ==
    ASSUME NEW k, NEW es, NEW a \in Nat, NEW i \in Nat, a < i,
           NEW missed, missed \subseteq 1 .. a,
           NEW lacking, lacking = missed \cup (a + 1 .. i - 1)
    PROVE  AfterIn(k, es, i, lacking) =
                Apply(k, AfterIn(k, es, a, missed), es[i].request, es[i].source).state
<1>1. i - 1 \in Nat /\ (i - 1) + 1 = i /\ a <= i - 1
  OBVIOUS
<1>2. a + 1 .. i - 1 \subseteq lacking
  OBVIOUS
<1>3. AfterIn(k, es, i - 1, lacking) = AfterIn(k, es, a, lacking)
  BY <1>1, <1>2, AfterInSkips
<1>4. \A j \in 1 .. a : es[j] = es[j] /\ (j \in lacking <=> j \in missed)
  OBVIOUS
<1>5. AfterIn(k, es, a, lacking) = AfterIn(k, es, a, missed)
  BY <1>4, AfterInSame
<1>6. i \notin lacking
  OBVIOUS
<1>7. PICK b : b = i - 1
  OBVIOUS
<1>8. AfterIn(k, es, b + 1, lacking) =
        IF b + 1 \in lacking THEN AfterIn(k, es, b, lacking)
        ELSE Apply(k, AfterIn(k, es, b, lacking), es[b + 1].request, es[b + 1].source).state
  BY <1>1, <1>7, AfterInNext
<1> QED
  BY <1>1, <1>3, <1>5, <1>6, <1>7, <1>8

-----------------------------------------------------------------------------
(* Working through indices one by one.                                     *)

WorksThrough(p, at, s, f) ==
    f = [n \in 0 .. Len(s) |-> IF n = 0 THEN at ELSE Step(p, f[n - 1], s[n])]

LEMMA StepAllIs ==
    ASSUME NEW p, NEW at, NEW s, Len(s) \in Nat
    PROVE  \E f : WorksThrough(p, at, s, f) /\ StepAll(p, at, s) = f[Len(s)]
<1> DEFINE Upto(f, m) == f = [n \in 0 .. m |-> IF n = 0 THEN at ELSE Step(p, f[n - 1], s[n])]
           S == {m \in Nat : \E f : Upto(f, m)}
<1>1. 0 \in S
  <2> DEFINE f == [n \in 0 .. 0 |-> at]
  <2>1. Upto(f, 0)
    OBVIOUS
  <2> QED
    BY <2>1
<1>2. ASSUME NEW m \in Nat, m \in S PROVE m + 1 \in S
  <2>1. PICK f : Upto(f, m)
    BY <1>2
  <2> DEFINE g == [n \in 0 .. m + 1 |-> IF n = m + 1 THEN Step(p, f[m], s[m + 1]) ELSE f[n]]
  <2>2. ASSUME NEW n \in 0 .. m + 1
        PROVE  g[n] = IF n = 0 THEN at ELSE Step(p, g[n - 1], s[n])
    <3>1. CASE n = m + 1
      <4>1. m + 1 # 0 /\ m \in 0 .. m + 1 /\ m # m + 1 /\ (m + 1) - 1 = m
        OBVIOUS
      <4>2. g[m + 1] = Step(p, f[m], s[m + 1]) /\ g[m] = f[m]
        BY <4>1
      <4> HIDE DEF g
      <4> QED
        BY <3>1, <4>1, <4>2
    <3>2. CASE n \in 0 .. m
      <4>1. g[n] = f[n] /\ (n # 0 => g[n - 1] = f[n - 1])
        BY <3>2
      <4>2. f[n] = IF n = 0 THEN at ELSE Step(p, f[n - 1], s[n])
        BY <2>1, <3>2
      <4> HIDE DEF g
      <4> QED
        BY <4>1, <4>2
    <3> QED
      BY <3>1, <3>2
  <2>3. g = [n \in 0 .. m + 1 |-> g[n]]
    OBVIOUS
  <2> HIDE DEF g
  <2>4. Upto(g, m + 1)
    BY <2>2, <2>3
  <2> QED
    BY <2>4
<1>3. Len(s) \in S
  <2> HIDE DEF S
  <2> QED
    BY <1>1, <1>2, UpFromZero
<1>4. PICK f : f = CHOOSE g : WorksThrough(p, at, s, g)
  OBVIOUS
<1>5. WorksThrough(p, at, s, f)
  BY <1>3, <1>4 DEF WorksThrough
<1>6. StepAll(p, at, s) = f[Len(s)]
  BY <1>4 DEF StepAll, WorksThrough
<1> QED
  BY <1>5, <1>6

\* A progress within the log, and one whose state is what the log makes of an
\* empty collection, up to the applied index and without what is skipped
Within(at) ==
    /\ at.applied \in 0 .. Len(commits)
    /\ at.skipped \subseteq 1 .. at.applied

FromLog(at) == at.state = AfterIn(kind, commits, at.applied, at.skipped)

(* accept with one index                                                   *)
LEMMA StepKeeps ==
    ASSUME Len(commits) \in Nat, NEW p, NEW at, Within(at), NEW i \in 1 .. Len(commits),
           NEW m, m = Step(p, at, i)
    PROVE  /\ Within(m)
           /\ FromLog(at) => FromLog(m)
           /\ i <= at.applied => m = at
           /\ ~(i <= at.applied) =>
                m.applied = i /\ m.skipped = at.skipped \cup (at.applied + 1 .. i - 1)
<1>1. CASE i <= at.applied
  BY <1>1 DEF Step
<1>2. CASE ~(i <= at.applied)
  <2>1. PICK outcome : outcome = Apply(kind, at.state, commits[i].request, commits[i].source)
    OBVIOUS
  <2>2. /\ m.state = outcome.state /\ m.applied = i
        /\ m.skipped = at.skipped \cup (at.applied + 1 .. i - 1)
    BY <1>2, <2>1 DEF Step
  <2>3. at.applied \in Nat /\ at.applied < i
    BY <1>2 DEF Within
  <2>4. Within(m)
    BY <2>2, <2>3 DEF Within
  <2>5. ASSUME FromLog(at) PROVE FromLog(m)
    <3>1. AfterIn(kind, commits, i, m.skipped) =
            Apply(kind, AfterIn(kind, commits, at.applied, at.skipped), commits[i].request,
                  commits[i].source).state
      BY <2>2, <2>3, AfterInMore DEF Within
    <3> QED
      BY <2>1, <2>2, <2>5, <3>1 DEF FromLog
  <2> QED
    BY <1>2, <2>2, <2>4, <2>5
<1> QED
  BY <1>1, <1>2

\* Where all of s leads from at: what is skipped anew lies between two applied indices
\* and is none of the ordered ones.
AdvancesTo(at, r, s, ordered) ==
    /\ Within(r)
    /\ FromLog(at) => FromLog(r)
    /\ at.applied <= r.applied
    /\ \A k \in 1 .. Len(s) : s[k] <= r.applied
    /\ r.applied # at.applied => \E k \in 1 .. Len(s) : r.applied = s[k]
    /\ \A h \in r.skipped \ at.skipped :
        /\ at.applied < h /\ h < r.applied
        /\ \A k \in 1 .. ordered : h # s[k]

(* accept with several indices, of which the first ones come in order      *)
LEMMA StepAllKeeps ==
    ASSUME Len(commits) \in Nat, NEW p, NEW at, Within(at), NEW s \in Seq(1 .. Len(commits)),
           NEW ordered \in 0 .. Len(s),
           \A j, k \in 1 .. ordered : j < k => s[j] < s[k]
    PROVE  AdvancesTo(at, StepAll(p, at, s), s, ordered)
<1> DEFINE r == StepAll(p, at, s)
<1>1. PICK f : WorksThrough(p, at, s, f) /\ r = f[Len(s)]
  BY StepAllIs
<1> DEFINE Fine(x, n) ==
        /\ Within(x)
        /\ FromLog(at) => FromLog(x)
        /\ at.applied <= x.applied
        /\ \A k \in 1 .. n : s[k] <= x.applied
        /\ x.applied # at.applied => \E k \in 1 .. n : x.applied = s[k]
        /\ \A h \in x.skipped \ at.skipped :
            /\ at.applied < h /\ h < x.applied
            /\ \A k \in 1 .. ordered : h # s[k]
           S == {n \in Nat : n <= Len(s) => Fine(f[n], n)}
<1>2. 0 \in S
  <2>1. 0 \in 0 .. Len(s)
    OBVIOUS
  <2>2. f[0] = at
    BY <1>1, <2>1 DEF WorksThrough
  <2>3. Fine(at, 0)
    BY DEF Within
  <2> QED
    BY <2>2, <2>3
<1>3. ASSUME NEW n \in Nat, n \in S PROVE n + 1 \in S
  <2> SUFFICES ASSUME n + 1 <= Len(s) PROVE Fine(f[n + 1], n + 1)
    OBVIOUS
  <2>1. n + 1 \in 0 .. Len(s) /\ n + 1 # 0 /\ (n + 1) - 1 = n /\ n <= Len(s)
    OBVIOUS
  <2>2. f[n + 1] = Step(p, f[n], s[n + 1])
    BY <1>1, <2>1 DEF WorksThrough
  <2> DEFINE x == f[n]
             y == f[n + 1]
             i == s[n + 1]
  <2>3. Fine(x, n)
    BY <1>3, <2>1
  <2>4. i \in 1 .. Len(commits)
    BY <2>1
  <2>5. y = Step(p, x, i)
    BY <2>2
  <2> HIDE DEF x, y, i
  <2>6. /\ Within(y)
        /\ FromLog(x) => FromLog(y)
        /\ i <= x.applied => y = x
        /\ ~(i <= x.applied) =>
                y.applied = i /\ y.skipped = x.skipped \cup (x.applied + 1 .. i - 1)
    <3>1. Within(x)
      BY <2>3
    <3> HIDE DEF Fine
    <3>2. Within(y)
      BY <2>4, <2>5, <3>1, StepKeeps
    <3>3. FromLog(x) => FromLog(y)
      BY <2>4, <2>5, <3>1, StepKeeps
    <3>4. i <= x.applied => y = x
      BY <2>4, <2>5, <3>1, StepKeeps
    <3>5. ASSUME ~(i <= x.applied)
          PROVE  y.applied = i /\ y.skipped = x.skipped \cup (x.applied + 1 .. i - 1)
      <4>1. PICK outcome : outcome = Apply(kind, x.state, commits[i].request, commits[i].source)
        OBVIOUS
      <4>2. PICK skips : skips = x.skipped \cup (x.applied + 1 .. i - 1)
        OBVIOUS
      <4>3. y.applied = i /\ y.skipped = skips
        BY <2>5, <3>5, <4>1, <4>2 DEF Step
      <4> QED
        BY <4>2, <4>3
    <3> QED
      BY <3>2, <3>3, <3>4, <3>5
  <2>7. at.applied \in Nat /\ x.applied \in Nat /\ y.applied \in Nat /\ i \in Nat
    BY <2>3, <2>4, <2>6 DEF Within
  <2>8. at.applied <= y.applied
    BY <2>3, <2>6, <2>7
  <2>9. \A k \in 1 .. n : s[k] \in Nat
    BY <2>1
  <2>10. ASSUME NEW k \in 1 .. n + 1 PROVE s[k] <= y.applied
    <3>1. CASE k = n + 1
      BY <2>6, <2>7, <3>1 DEF i
    <3>2. CASE k \in 1 .. n
      <4>1. s[k] \in Nat /\ s[k] <= x.applied
        BY <2>3, <2>9, <3>2
      <4> QED
        BY <2>6, <2>7, <4>1
    <3> QED
      BY <3>1, <3>2
  <2>11. ASSUME y.applied # at.applied PROVE \E k \in 1 .. n + 1 : y.applied = s[k]
    <3>1. CASE y.applied = i
      <4>1. n + 1 \in 1 .. n + 1 /\ y.applied = s[n + 1]
        BY <3>1 DEF i
      <4> QED
        BY <4>1
    <3>2. CASE y.applied = x.applied
      BY <2>3, <2>11, <3>2
    <3> QED
      BY <2>6, <3>1, <3>2
  <2>12. ASSUME NEW h \in y.skipped \ at.skipped
         PROVE  /\ at.applied < h /\ h < y.applied
                /\ \A k \in 1 .. ordered : h # s[k]
    <3>1. CASE h \in x.skipped
      <4>1. at.applied < h /\ h < x.applied /\ \A k \in 1 .. ordered : h # s[k]
        BY <2>3, <2>12, <3>1
      <4>2. h \in Int
        BY <2>3, <3>1 DEF Within
      <4> QED
        BY <2>6, <2>7, <4>1, <4>2
    <3>2. CASE h \notin x.skipped
      <4>1. ~(i <= x.applied) /\ h \in x.applied + 1 .. i - 1 /\ y.applied = i
        BY <2>6, <2>12, <3>2
      <4>2. h \in Int /\ x.applied < h /\ h < i
        BY <2>7, <4>1
      <4>3. ASSUME NEW k \in 1 .. ordered PROVE h # s[k]
        <5>1. k \in 1 .. Len(s) /\ s[k] \in Nat
          OBVIOUS
        <5>2. CASE k <= n
          <6>1. k \in 1 .. n
            BY <5>2
          <6>2. s[k] <= x.applied
            BY <2>3, <6>1
          <6> QED
            BY <2>7, <4>2, <5>1, <6>2
        <5>3. CASE k = n + 1
          BY <2>7, <4>2, <5>3 DEF i
        <5>4. CASE n + 1 < k
          <6>1. n + 1 \in 1 .. ordered
            BY <5>4
          <6>2. i < s[k]
            BY <5>4, <6>1 DEF i
          <6> QED
            BY <2>7, <4>2, <5>1, <6>2
        <5> QED
          BY <5>2, <5>3, <5>4
      <4> QED
        BY <2>3, <2>7, <4>1, <4>2, <4>3
    <3> QED
      BY <3>1, <3>2
  <2>13. FromLog(at) => FromLog(y)
    BY <2>3, <2>6
  <2>14. Fine(y, n + 1)
    BY <2>6, <2>8, <2>10, <2>11, <2>12, <2>13
  <2> QED
    BY <2>14 DEF y
<1>4. Len(s) \in S
  <2> HIDE DEF S
  <2>1. Len(s) \in Nat
    OBVIOUS
  <2> QED
    BY <1>2, <1>3, <2>1, UpFromZero
<1>5. Fine(r, Len(s))
  BY <1>1, <1>4
<1> QED
  BY <1>5 DEF AdvancesTo
-----------------------------------------------------------------------------
(* The invariant of the joins.                                             *)

\* What is buffered has been seen, in the order of the log.
BufferOK(p) ==
    /\ conn[p].buffer \in Seq(1 .. seen[p])
    /\ \A i, j \in DOMAIN conn[p].buffer : i < j => conn[p].buffer[i] < conn[p].buffer[j]
    /\ conn[p].phase \notin {"created", "fetching"} => conn[p].buffer = <<>>

\* What a collection that is there has seen is applied, buffered or may be missed.
Accounted(p) ==
    conn[p].phase \in {"created", "fetching", "joined"} =>
        \A h \in conn[p].applied + 1 .. seen[p] :
            h \in missable[p] \/ \E j \in DOMAIN conn[p].buffer : conn[p].buffer[j] = h

PeerOK(p) ==
    /\ IsConnection(conn[p])
    /\ conn[p].phase \in Phases
    /\ first[p] \in 0 .. seen[p] /\ seen[p] \in 0 .. Len(commits)
    /\ conn[p].asked \subseteq conn[p].waiting /\ conn[p].waiting \subseteq Members \ {p}
    /\ Within(Progress(p))
    /\ ~damaged[p] => FromLog(Progress(p))
    /\ conn[p].phase # "joined" => conn[p].applied = 0 /\ ~damaged[p]
    /\ skipped[p] \subseteq missable[p]
    /\ BufferOK(p)
    /\ Accounted(p)

\* An answer in flight is awaited, and its snapshot is the state of its sender then.
Sent(m) ==
    [state |-> Import(kind, m.snapshot), applied |-> m.applied, skipped |-> m.skipped,
     answers |-> {}]

NoteOK(m) ==
    /\ m.from \in Members /\ m.to \in Members
    /\ conn[m.to].phase = "fetching" /\ m.from \notin conn[m.to].asked
    /\ m.snapshot # Nil => Within(Sent(m))
    /\ m.snapshot # Nil /\ ~m.damaged => FromLog(Sent(m))

JoinInv ==
    /\ DOMAIN first = Peers /\ DOMAIN skipped = Peers
    /\ DOMAIN missable = Peers /\ DOMAIN damaged = Peers
    /\ \A p \in Peers : PeerOK(p)
    /\ \A m \in notes : NoteOK(m)

(* What Inv says of the log                                                *)
LEMMA LogFacts ==
    ASSUME Inv
    PROVE  /\ commits \in Seq({commits[i] : i \in 1 .. Len(commits)})
           /\ Len(commits) \in Nat /\ DOMAIN commits = 1 .. Len(commits)
BY DEF Inv, LogOK

LEMMA Table ==
    ASSUME NEW T, NEW n \in Nat, NEW f \in [1 .. n -> T]
    PROVE  f \in Seq(T) /\ Len(f) = n
OBVIOUS

LEMMA WiderSeq ==
    ASSUME NEW S, NEW T, S \subseteq T, NEW s \in Seq(S)
    PROVE  s \in Seq(T)
<1>1. s \in [1 .. Len(s) -> T] /\ Len(s) \in Nat
  OBVIOUS
<1> QED
  BY <1>1, Table

(* What is replayed are indices of the log, and the buffer comes first.    *)
LEMMA ReplayedIs ==
    ASSUME Inv, JoinInv, NEW p \in Peers, NEW a \in Nat
    PROVE  /\ Replayed(p, a) \in Seq(1 .. seen[p])
           /\ Len(conn[p].buffer) \in 0 .. Len(Replayed(p, a))
           /\ \A j \in 1 .. Len(conn[p].buffer) : Replayed(p, a)[j] = conn[p].buffer[j]
<1>1. /\ conn[p].buffer \in Seq(1 .. seen[p]) /\ first[p] \in 0 .. seen[p] /\ seen[p] \in Nat
      /\ Len(conn[p].buffer) \in Nat
  BY LogFacts DEF JoinInv, PeerOK, BufferOK
<1>2. PICK tail : /\ tail = IF a < seen[p]
                            THEN Indices(IF a < first[p] + 1 THEN first[p] + 1 ELSE a, seen[p])
                            ELSE <<>>
                  /\ Replayed(p, a) = conn[p].buffer \o tail
  BY DEF Replayed
<1>3. tail \in Seq(1 .. seen[p])
  <2>1. CASE a < seen[p]
    <3>1. PICK from : from = IF a < first[p] + 1 THEN first[p] + 1 ELSE a
      OBVIOUS
    <3>2. from \in Nat /\ 1 <= from /\ from <= seen[p] + 1
      BY <1>1, <2>1, <3>1
    <3>3. tail = [j \in 1 .. seen[p] - from + 1 |-> from + j - 1]
      BY <1>2, <2>1, <3>1 DEF Indices
    <3>4. seen[p] - from + 1 \in Nat
      BY <1>1, <3>2
    <3>5. PICK n \in Nat : n = seen[p] - from + 1
      BY <3>4
    <3>6. \A j \in 1 .. n : from + j - 1 \in 1 .. seen[p]
      BY <1>1, <3>2, <3>5
    <3>7. tail \in [1 .. n -> 1 .. seen[p]]
      BY <3>3, <3>5, <3>6
    <3> QED
      BY <3>7, Table
  <2>2. CASE ~(a < seen[p])
    BY <1>2, <2>2
  <2> QED
    BY <2>1, <2>2
<1>4. PICK b \in Seq(1 .. seen[p]) : b = conn[p].buffer
  BY <1>1
<1>5. /\ b \o tail \in Seq(1 .. seen[p]) /\ Len(b \o tail) = Len(b) + Len(tail)
      /\ \A j \in 1 .. Len(b) : (b \o tail)[j] = b[j]
  BY <1>3, <1>4, ConcatProperties
<1>6. Len(b) \in Nat /\ Len(tail) \in Nat
  BY <1>3, <1>4
<1>7. Len(b) \in 0 .. Len(b) + Len(tail)
  BY <1>6
<1> QED
  BY <1>2, <1>4, <1>5, <1>7

(* The end of a join: lost is what may be missed afterwards.               *)
LEMMA Joining ==
    ASSUME Inv, JoinInv, NEW p \in Peers, conn[p].phase = "fetching", NEW at, Within(at),
           NEW lost, at.skipped \subseteq lost,
           \A h \in missable[p] : ~(h <= at.applied) => h \in lost,
           NEW r, r = StepAll(p, at, Replayed(p, at.applied))
    PROVE  /\ Within(r)
           /\ FromLog(at) => FromLog(r)
           /\ r.skipped \subseteq lost
           /\ r.applied + 1 .. seen[p] \subseteq lost
<1> DEFINE s == Replayed(p, at.applied)
           b == conn[p].buffer
<1>1. /\ Len(commits) \in Nat /\ at.applied \in Nat /\ seen[p] \in Nat /\ seen[p] <= Len(commits)
      /\ \A h \in at.skipped : h \in Nat
  BY LogFacts DEF JoinInv, PeerOK, Within
<1>2. s \in Seq(1 .. seen[p]) /\ Len(b) \in 0 .. Len(s) /\ \A j \in 1 .. Len(b) : s[j] = b[j]
  BY <1>1, ReplayedIs
<1>3. s \in Seq(1 .. Len(commits)) /\ \A j \in 1 .. Len(s) : s[j] \in 1 .. seen[p]
  BY <1>1, <1>2
<1>4. b \in Seq(1 .. seen[p]) /\ DOMAIN b = 1 .. Len(b)
  BY DEF JoinInv, PeerOK, BufferOK
<1>5. \A i, j \in 1 .. Len(b) : i < j => s[i] < s[j]
  BY <1>2, <1>4 DEF JoinInv, PeerOK, BufferOK
<1>6. r = StepAll(p, at, s)
  OBVIOUS
<1>7. PeerOK(p) /\ Accounted(p) /\ conn[p].applied = 0
  BY DEF JoinInv, PeerOK
<1>8. \A h \in 1 .. seen[p] : h \in missable[p] \/ \E j \in 1 .. Len(b) : b[j] = h
  BY <1>4, <1>7 DEF Accounted
<1> HIDE DEF s, b
<1> DEFINE ordered == Len(b)
<1>18. ordered \in 0 .. Len(s) /\ \A j, k \in 1 .. ordered : j < k => s[j] < s[k]
  BY <1>2, <1>5
<1> HIDE DEF ordered
<1>9. AdvancesTo(at, r, s, ordered)
  BY <1>1, <1>3, <1>6, <1>18, StepAllKeeps
<1>10. Within(r) /\ (FromLog(at) => FromLog(r)) /\ at.applied <= r.applied
  BY <1>9 DEF AdvancesTo
<1>12. \A k \in 1 .. Len(s) : s[k] <= r.applied
  BY <1>9 DEF AdvancesTo
<1>13. r.applied # at.applied => \E k \in 1 .. Len(s) : r.applied = s[k]
  BY <1>9 DEF AdvancesTo
<1>14. \A h \in r.skipped \ at.skipped :
            /\ at.applied < h /\ h < r.applied
            /\ \A k \in 1 .. ordered : h # s[k]
  BY <1>9 DEF AdvancesTo
<1>15. r.applied \in Nat /\ r.skipped \subseteq 1 .. r.applied
  BY <1>10 DEF Within
<1>16. ASSUME NEW h \in r.skipped \ at.skipped PROVE h \in lost
  <2>1. h \in Nat /\ at.applied < h /\ h < r.applied /\ 1 <= h
    BY <1>14, <1>15, <1>16
  <2>2. r.applied # at.applied
    BY <1>1, <1>15, <2>1
  <2>3. r.applied <= seen[p]
    BY <1>1, <1>3, <1>13, <2>2
  <2>4. h \in 1 .. seen[p] /\ ~(h <= at.applied)
    BY <1>1, <1>15, <2>1, <2>3
  <2>5. \A j \in 1 .. Len(b) : b[j] # h
    BY <1>2, <1>14, <1>16 DEF ordered
  <2>6. h \in missable[p]
    BY <1>8, <2>4, <2>5
  <2> QED
    BY <2>4, <2>6
<1>17. ASSUME NEW h \in r.applied + 1 .. seen[p] PROVE h \in lost
  <2>1. h \in 1 .. seen[p] /\ ~(h <= at.applied) /\ ~(h <= r.applied)
    BY <1>1, <1>10, <1>15
  <2>2. ASSUME NEW j \in 1 .. Len(b) PROVE b[j] # h
    <3>1. j \in 1 .. Len(s) /\ s[j] = b[j]
      BY <1>2
    <3>2. s[j] <= r.applied
      BY <1>12, <3>1
    <3> QED
      BY <2>1, <3>1, <3>2
  <2>3. h \in missable[p]
    BY <1>8, <2>1, <2>2
  <2> QED
    BY <2>1, <2>3
<1> QED
  BY <1>10, <1>16, <1>17
-----------------------------------------------------------------------------
(* The steps keep the invariant of the joins.                              *)

LogGrows ==
    /\ setting' = setting
    /\ Len(commits) <= Len(commits')
    /\ \A i \in 1 .. Len(commits) : commits'[i] = commits[i]

(* What is in the log stays.                                               *)
LEMMA GrownLog ==
    ASSUME Inv, Inv', LogGrows, NEW at, Within(at)
    PROVE  Within(at)' /\ (FromLog(at) => FromLog(at)')
<1>1. Len(commits) \in Nat
  BY LogFacts
<1>2. Len(commits') \in Nat
  BY DEF Inv, LogOK
<1>3. Within(at)'
  BY <1>1, <1>2 DEF Within, LogGrows
<1>4. at.applied \in Nat /\ at.applied <= Len(commits)
  BY <1>1 DEF Within
<1>5. \A i \in 1 .. at.applied :
            commits[i] = commits'[i] /\ (i \in at.skipped <=> i \in at.skipped)
  BY <1>1, <1>4 DEF LogGrows
<1>6. AfterIn(kind, commits, at.applied, at.skipped) = AfterIn(kind, commits', at.applied, at.skipped)
  BY <1>4, <1>5, AfterInSame
<1> QED
  BY <1>3, <1>6 DEF FromLog, LogGrows

\* Nothing happens to p, or to the connection of p only.
Stays(p) ==
    /\ seen'[p] = seen[p] /\ first'[p] = first[p] /\ conn'[p] = conn[p]
    /\ replica'[p] = replica[p] /\ skipped'[p] = skipped[p]
    /\ missable'[p] = missable[p] /\ damaged'[p] = damaged[p]

LEMMA PeerStays ==
    ASSUME Inv, Inv', LogGrows, NEW p \in Peers, PeerOK(p), Stays(p)
    PROVE  PeerOK(p)'
<1>1. Len(commits) \in Nat /\ Members' = Members
  BY LogFacts DEF LogGrows, Members
<1>2. Len(commits') \in Nat
  BY DEF Inv, LogOK
<1>3. PICK at : at = Progress(p)
  OBVIOUS
<1>4. at = Progress(p)'
  BY <1>3 DEF Progress, Stays
<1>5. Within(at) /\ (~damaged[p] => FromLog(at))
  BY <1>3 DEF PeerOK
<1>6. Within(at)' /\ (~damaged[p] => FromLog(at)')
  BY <1>5, GrownLog
<1>7. BufferOK(p)' /\ Accounted(p)'
  BY DEF PeerOK, BufferOK, Accounted, Stays
<1>8. first'[p] \in 0 .. seen'[p] /\ seen'[p] \in 0 .. Len(commits')
  BY <1>1, <1>2 DEF PeerOK, Stays, LogGrows
<1>9. Within(Progress(p))' /\ (~damaged'[p] => FromLog(Progress(p))')
  BY <1>4, <1>6 DEF Stays, Within, FromLog
<1> QED
  BY <1>1, <1>7, <1>8, <1>9 DEF PeerOK, Stays

LEMMA NoteStays ==
    ASSUME Inv, Inv', LogGrows, NEW m, NoteOK(m),
           conn'[m.to].phase = "fetching", conn'[m.to].asked \subseteq conn[m.to].asked
    PROVE  NoteOK(m)'
<1>1. Members' = Members
  BY DEF LogGrows, Members
<1>2. PICK at : at = Sent(m)
  OBVIOUS
<1>3. at = Sent(m)'
  BY <1>2 DEF Sent, LogGrows
<1>4. ASSUME m.snapshot # Nil PROVE Within(at)' /\ (~m.damaged => FromLog(at)')
  <2>1. Within(at) /\ (~m.damaged => FromLog(at))
    BY <1>2, <1>4 DEF NoteOK
  <2> QED
    BY <2>1, GrownLog
<1>5. m.snapshot # Nil => Within(Sent(m))' /\ (~m.damaged => FromLog(Sent(m))')
  BY <1>3, <1>4 DEF Within, FromLog
<1> QED
  BY <1>1, <1>5 DEF NoteOK

(* A step of one peer. The notes that stay are not for it.                 *)
LEMMA OneMoves ==
    ASSUME Inv, Inv', JoinInv, LogGrows, NEW p \in Peers, PeerOK(p)',
           DOMAIN first' = Peers, DOMAIN skipped' = Peers,
           DOMAIN missable' = Peers, DOMAIN damaged' = Peers,
           \A q \in Peers \ {p} : Stays(q),
           \A m \in notes' : NoteOK(m)' \/ (m \in notes /\ m.to # p)
    PROVE  JoinInv'
<1>1. ASSUME NEW q \in Peers PROVE PeerOK(q)'
  <2>1. CASE q = p
    BY <2>1
  <2>2. CASE q # p
    BY <2>2, PeerStays DEF JoinInv
  <2> QED
    BY <2>1, <2>2
<1>2. ASSUME NEW m \in notes' PROVE NoteOK(m)'
  <2>1. CASE m \in notes /\ m.to # p
    <3>1. NoteOK(m)
      BY <2>1 DEF JoinInv
    <3>2. m.to \in Peers \ {p} /\ conn[m.to].phase = "fetching"
      BY <2>1, <3>1, MembersArePeers DEF NoteOK
    <3>3. conn'[m.to] = conn[m.to]
      BY <3>2 DEF Stays
    <3> QED
      BY <3>1, <3>2, <3>3, NoteStays
  <2> QED
    BY <1>2, <2>1
<1> QED
  BY <1>1, <1>2 DEF JoinInv

(* A step that touches no peer: only the log may grow.                     *)
LEMMA NobodyMoves ==
    ASSUME Inv, Inv', JoinInv, LogGrows,
           UNCHANGED <<seen, first, conn, replica, notes, skipped, missable, damaged>>
    PROVE  JoinInv'
<1>1. ASSUME NEW q \in Peers PROVE PeerOK(q)'
  BY PeerStays DEF JoinInv, Stays
<1>2. ASSUME NEW m \in notes' PROVE NoteOK(m)'
  <2>1. NoteOK(m)
    BY <1>2 DEF JoinInv
  <2>2. conn'[m.to].phase = "fetching" /\ conn'[m.to].asked \subseteq conn[m.to].asked
    BY <2>1 DEF NoteOK
  <2> QED
    BY <2>1, <2>2, NoteStays
<1> QED
  BY <1>1, <1>2 DEF JoinInv

LEMMA InitJoin == Init => JoinInv
<1> SUFFICES ASSUME Init PROVE JoinInv
  OBVIOUS
<1>1. commits = <<>> /\ Len(commits) = 0
  BY DEF Init
<1>2. ASSUME NEW p \in Peers PROVE PeerOK(p)
  <2>2. /\ IsConnection(conn[p]) /\ conn[p].phase \in Phases /\ conn[p].applied = 0
        /\ conn[p].buffer = <<>> /\ conn[p].asked = {} /\ conn[p].waiting = {}
        /\ conn[p].phase \notin {"created", "fetching"}
    <3>1. CASE p \in setting.founders
      <4>1. conn[p] = [phase |-> "joined", connected |-> TRUE, applied |-> 0,
                       buffer |-> <<>>, asked |-> {}, waiting |-> {}]
        BY <3>1 DEF Init, NoConnection
      <4> QED
        BY <4>1 DEF IsConnection, Phases
    <3>2. CASE p \notin setting.founders
      <4>1. conn[p] = [phase |-> "none", connected |-> FALSE, applied |-> 0,
                       buffer |-> <<>>, asked |-> {}, waiting |-> {}]
        BY <3>2 DEF Init, NoConnection
      <4> QED
        BY <4>1 DEF IsConnection, Phases
    <3> QED
      BY <3>1, <3>2
  <2>3. /\ seen[p] = 0 /\ first[p] = 0 /\ replica[p] = Empty(kind)
        /\ skipped[p] = {} /\ missable[p] = {} /\ damaged[p] = FALSE
    BY DEF Init
  <2>4. PICK at : at = Progress(p)
    OBVIOUS
  <2>5. at.state = Empty(kind) /\ at.applied = 0 /\ at.skipped = {}
    BY <2>2, <2>3, <2>4 DEF Progress
  <2>6. Within(at)
    BY <1>1, <2>5 DEF Within
  <2>7. AfterIn(kind, commits, 0, {}) = Empty(kind)
    BY AfterInNext
  <2>8. FromLog(at)
    BY <2>5, <2>7 DEF FromLog
  <2>9. BufferOK(p) /\ Accounted(p)
    BY <2>2, <2>3 DEF BufferOK, Accounted
  <2> QED
    BY <1>1, <2>2, <2>3, <2>4, <2>6, <2>8, <2>9 DEF PeerOK
<1>3. notes = {}
  BY DEF Init
<1>4. /\ DOMAIN first = Peers /\ DOMAIN skipped = Peers
      /\ DOMAIN missable = Peers /\ DOMAIN damaged = Peers
  BY DEF Init
<1> QED
  BY <1>2, <1>3, <1>4 DEF JoinInv
LEMMA LogResetJoin ==
    ASSUME Inv, Inv', JoinInv, NEW p \in Members, LogReset(p) PROVE JoinInv'
<1>1. p \in Peers /\ PeerOK(p) /\ Len(commits) \in Nat
  BY MembersArePeers, LogFacts DEF JoinInv
<1>2. UNCHANGED <<setting, commits, conn, replica, notes, skipped, damaged>> /\ LogGrows
  BY <1>1 DEF LogReset, LogGrows
<1>3. PICK i \in seen[p] + 1 .. Len(commits) :
            /\ seen' = [seen EXCEPT ![p] = i]
            /\ first' = [first EXCEPT ![p] = i]
            /\ missable' = [missable EXCEPT ![p] = @ \cup (seen[p] + 1 .. i)]
  BY DEF LogReset
<1>4. /\ seen'[p] = i /\ first'[p] = i /\ missable'[p] = missable[p] \cup (seen[p] + 1 .. i)
      /\ DOMAIN first' = Peers /\ DOMAIN missable' = Peers
      /\ \A q \in Peers \ {p} : seen'[q] = seen[q] /\ first'[q] = first[q]
                                /\ missable'[q] = missable[q]
  BY <1>1, <1>3 DEF JoinInv, Inv
<1>5. \A q \in Peers \ {p} : Stays(q)
  BY <1>2, <1>4 DEF Stays
<1>6. seen[p] \in Nat /\ i \in Nat /\ seen[p] < i /\ i <= Len(commits)
  BY <1>1, <1>3 DEF PeerOK
<1>7. BufferOK(p)'
  <2>1. conn[p].buffer \in Seq(1 .. seen[p]) /\ 1 .. seen[p] \subseteq 1 .. i
    BY <1>1, <1>6 DEF PeerOK, BufferOK
  <2>2. conn[p].buffer \in Seq(1 .. i)
    BY <2>1, WiderSeq
  <2> QED
    BY <1>1, <1>2, <1>4, <2>2 DEF PeerOK, BufferOK
<1>8. Accounted(p)'
  <2> SUFFICES ASSUME conn[p].phase \in {"created", "fetching", "joined"},
                      NEW h \in conn[p].applied + 1 .. i, h \notin missable'[p]
               PROVE  \E j \in DOMAIN conn[p].buffer : conn[p].buffer[j] = h
    BY <1>2, <1>4 DEF Accounted
  <2>1. conn[p].applied \in Nat
    BY <1>1 DEF PeerOK, Within, Progress
  <2>2. h \in conn[p].applied + 1 .. seen[p] /\ h \notin missable[p]
    BY <1>4, <1>6, <2>1
  <2> QED
    BY <1>1, <2>2 DEF PeerOK, Accounted
<1>9. Progress(p)' = Progress(p)
  BY <1>2 DEF Progress
<1>10. /\ Within(Progress(p))' /\ (~damaged'[p] => FromLog(Progress(p))')
       /\ skipped'[p] \subseteq missable'[p]
  BY <1>1, <1>2, <1>4, <1>9 DEF PeerOK, Within, FromLog
<1>11. PeerOK(p)'
  BY <1>1, <1>2, <1>4, <1>6, <1>7, <1>8, <1>10 DEF PeerOK, Members
<1>12. ASSUME NEW m \in notes' PROVE NoteOK(m)'
  BY <1>2, <1>12, NoteStays DEF JoinInv, NoteOK
<1> QED
  BY <1>1, <1>2, <1>4, <1>5, <1>11, <1>12, OneMoves DEF JoinInv

LEMMA CreateJoin ==
    ASSUME Inv, Inv', JoinInv, NEW p \in Members, NEW b \in BOOLEAN, Create(p, b) PROVE JoinInv'
<1>1. p \in Peers /\ PeerOK(p) /\ conn[p].phase = "none"
  BY MembersArePeers DEF JoinInv, Create
<1>2. UNCHANGED <<setting, commits, seen, first, replica, notes, skipped, damaged>> /\ LogGrows
  BY LogFacts DEF Create, log, LogGrows
<1>3. /\ missable'[p] = 1 .. seen[p] /\ DOMAIN missable' = Peers
      /\ conn'[p] = [NoConnection EXCEPT !.phase = "created", !.connected = b]
      /\ \A q \in Peers \ {p} : missable'[q] = missable[q] /\ conn'[q] = conn[q]
  BY <1>1 DEF Create, JoinInv, Inv
<1>4. conn'[p] = [phase |-> "created", connected |-> b, applied |-> 0, buffer |-> <<>>,
                  asked |-> {}, waiting |-> {}]
  BY <1>3 DEF NoConnection
<1>5. /\ IsConnection(conn'[p]) /\ conn'[p].phase = "created" /\ conn'[p].applied = 0
      /\ conn'[p].buffer = <<>> /\ conn'[p].asked = {} /\ conn'[p].waiting = {}
  BY <1>4 DEF IsConnection
<1>6. conn[p].applied = 0 /\ skipped[p] = {} /\ ~damaged[p]
  BY <1>1 DEF PeerOK, Within, Progress
<1>7. Progress(p)' = Progress(p)
  BY <1>2, <1>5, <1>6 DEF Progress
<1>8. Within(Progress(p))' /\ (~damaged'[p] => FromLog(Progress(p))')
  BY <1>1, <1>2, <1>7 DEF PeerOK, Within, FromLog
<1>9. BufferOK(p)' /\ Accounted(p)'
  <2>1. <<>> \in Seq(1 .. seen'[p])
    OBVIOUS
  <2>2. BufferOK(p)'
    BY <1>5, <2>1 DEF BufferOK
  <2>3. Accounted(p)'
    BY <1>2, <1>3, <1>5 DEF Accounted
  <2> QED
    BY <2>2, <2>3
<1>10. PeerOK(p)'
  BY <1>1, <1>2, <1>5, <1>6, <1>8, <1>9 DEF PeerOK, Phases
<1>11. \A q \in Peers \ {p} : Stays(q)
  BY <1>2, <1>3 DEF Stays
<1>12. ASSUME NEW m \in notes' PROVE m \in notes /\ m.to # p
  BY <1>1, <1>2 DEF JoinInv, NoteOK
<1> QED
  BY <1>1, <1>2, <1>3, <1>10, <1>11, <1>12, OneMoves DEF JoinInv

(* A step in which only the leader, or whom to ask, changes.               *)
LEMMA ConnectionMoves ==
    ASSUME Inv, Inv', JoinInv, NEW p \in Peers,
           UNCHANGED <<setting, commits, seen, first, replica, skipped, missable, damaged>>,
           IsConnection(conn'[p]), \A q \in Peers \ {p} : conn'[q] = conn[q],
           \/ conn'[p].phase = conn[p].phase
           \/ conn[p].phase = "created" /\ conn'[p].phase = "fetching",
           conn'[p].applied = conn[p].applied, conn'[p].buffer = conn[p].buffer,
           conn'[p].asked \subseteq conn'[p].waiting, conn'[p].waiting \subseteq Members \ {p},
           \A m \in notes' : NoteOK(m)' \/ (m \in notes /\ m.to # p)
    PROVE  JoinInv'
<1>1. PeerOK(p) /\ LogGrows
  BY LogFacts DEF JoinInv, LogGrows
<1>2. Progress(p)' = Progress(p)
  BY DEF Progress
<1>3. Within(Progress(p))' /\ (~damaged'[p] => FromLog(Progress(p))')
  BY <1>1, <1>2 DEF PeerOK, Within, FromLog
<1>4. BufferOK(p)' /\ Accounted(p)'
  BY <1>1 DEF PeerOK, BufferOK, Accounted
<1>5. PeerOK(p)'
  BY <1>1, <1>3, <1>4 DEF PeerOK, Members, Phases
<1>6. \A q \in Peers \ {p} : Stays(q)
  BY DEF Stays
<1> QED
  BY <1>1, <1>5, <1>6, OneMoves DEF JoinInv

LEMMA LeaderChangedJoin ==
    ASSUME Inv, Inv', JoinInv, NEW p \in Members, LeaderChanged(p) PROVE JoinInv'
<1>1. p \in Peers /\ PeerOK(p) /\ LogGrows
  BY MembersArePeers, LogFacts DEF JoinInv, LogGrows, LeaderChanged, log
<1>2. UNCHANGED <<setting, commits, seen, first, replica, notes, skipped, missable, damaged>>
  BY DEF LeaderChanged, log, history
<1>3. /\ conn'[p] = [conn[p] EXCEPT !.connected = ~@]
      /\ \A q \in Peers \ {p} : conn'[q] = conn[q]
  BY <1>1 DEF LeaderChanged, Inv
<1>4. /\ IsConnection(conn'[p]) /\ conn'[p].phase = conn[p].phase
      /\ conn'[p].applied = conn[p].applied /\ conn'[p].buffer = conn[p].buffer
      /\ conn'[p].asked = conn[p].asked /\ conn'[p].waiting = conn[p].waiting
  BY <1>1, <1>3 DEF PeerOK, IsConnection
<1>5. ASSUME NEW m \in notes' PROVE NoteOK(m)' \/ (m \in notes /\ m.to # p)
  <2>1. NoteOK(m) /\ m \in notes
    BY <1>2 DEF JoinInv
  <2>2. CASE m.to = p
    BY <1>1, <1>4, <2>1, <2>2, NoteStays DEF NoteOK
  <2> QED
    BY <2>1, <2>2
<1> QED
  BY <1>1, <1>2, <1>3, <1>4, <1>5, ConnectionMoves DEF PeerOK

LEMMA FetchJoin ==
    ASSUME Inv, Inv', JoinInv, NEW p \in Members, Fetch(p) PROVE JoinInv'
<1>1. p \in Peers /\ PeerOK(p) /\ conn[p].phase = "created"
  BY MembersArePeers DEF JoinInv, Fetch
<1>2. UNCHANGED <<setting, commits, seen, first, replica, notes, skipped, missable, damaged>>
  BY DEF Fetch, log, history
<1>3. /\ conn'[p] = [conn[p] EXCEPT !.phase = "fetching", !.asked = Members \ {p},
                                    !.waiting = Members \ {p}]
      /\ \A q \in Peers \ {p} : conn'[q] = conn[q]
  BY <1>1 DEF Fetch, Inv
<1>4. /\ IsConnection(conn'[p]) /\ conn'[p].phase = "fetching"
      /\ conn'[p].applied = conn[p].applied /\ conn'[p].buffer = conn[p].buffer
      /\ conn'[p].asked = Members \ {p} /\ conn'[p].waiting = Members \ {p}
  BY <1>1, <1>3 DEF PeerOK, IsConnection
<1>5. ASSUME NEW m \in notes' PROVE m \in notes /\ m.to # p
  BY <1>1, <1>2 DEF JoinInv, NoteOK
<1> QED
  BY <1>1, <1>2, <1>3, <1>4, <1>5, ConnectionMoves
LEMMA AnswerHelloJoin ==
    ASSUME Inv, Inv', JoinInv, NEW p \in Members, NEW q \in Members, AnswerHello(q, p)
    PROVE  JoinInv'
<1>1. /\ p \in Peers /\ q \in Peers /\ PeerOK(p) /\ PeerOK(q)
      /\ conn[p].phase = "fetching" /\ q \in conn[p].asked
  BY MembersArePeers DEF JoinInv, AnswerHello
<1>2. /\ UNCHANGED <<setting, commits, seen, first, replica, skipped, missable, damaged>>
      /\ LogGrows
  BY LogFacts DEF AnswerHello, log, history, LogGrows
<1>3. /\ conn'[p] = [conn[p] EXCEPT !.asked = @ \ {q}]
      /\ \A r \in Peers \ {p} : conn'[r] = conn[r]
  BY <1>1 DEF AnswerHello, Inv
<1>4. /\ IsConnection(conn'[p]) /\ conn'[p].phase = "fetching"
      /\ conn'[p].applied = conn[p].applied /\ conn'[p].buffer = conn[p].buffer
      /\ conn'[p].asked = conn[p].asked \ {q} /\ conn'[p].waiting = conn[p].waiting
  BY <1>1, <1>3 DEF PeerOK, IsConnection
<1>5. /\ conn[p].asked \subseteq conn[p].waiting /\ conn[p].waiting \subseteq Members \ {p}
      /\ Members' = Members
  BY <1>1, <1>2 DEF PeerOK, Members
<1>6. PICK note :
        /\ notes' = notes \cup {note}
        /\ note = IF conn[q].phase \in {"none", "closed"}
                  THEN [from |-> q, to |-> p, snapshot |-> Nil, applied |-> 0, skipped |-> {},
                        damaged |-> FALSE]
                  ELSE [from |-> q, to |-> p, snapshot |-> Export(kind, replica[q]),
                        applied |-> conn[q].applied, skipped |-> skipped[q],
                        damaged |-> damaged[q]
                            \/ Import(kind, Export(kind, replica[q])) # replica[q]]
  BY DEF AnswerHello
<1>7. NoteOK(note)'
  <2>1. note.from = q /\ note.to = p
    BY <1>6
  <2>2. ASSUME note.snapshot # Nil
        PROVE  Within(Sent(note)) /\ (~note.damaged => FromLog(Sent(note)))
    <3>1. /\ note.snapshot = Export(kind, replica[q]) /\ note.applied = conn[q].applied
          /\ note.skipped = skipped[q]
      BY <1>6, <2>2
    <3>2. ~note.damaged => /\ ~damaged[q]
                           /\ Import(kind, Export(kind, replica[q])) = replica[q]
      BY <1>6, <2>2
    <3>3. /\ Sent(note).state = Import(kind, Export(kind, replica[q]))
          /\ Sent(note).applied = conn[q].applied /\ Sent(note).skipped = skipped[q]
      BY <3>1 DEF Sent
    <3>4. /\ Progress(q).state = replica[q] /\ Progress(q).applied = conn[q].applied
          /\ Progress(q).skipped = skipped[q]
      BY DEF Progress
    <3>5. Within(Progress(q)) /\ (~damaged[q] => FromLog(Progress(q)))
      BY <1>1 DEF PeerOK
    <3>6. Within(Sent(note))
      BY <3>3, <3>4, <3>5 DEF Within
    <3>7. ~note.damaged => FromLog(Sent(note))
      BY <3>2, <3>3, <3>4, <3>5 DEF FromLog
    <3> QED
      BY <3>6, <3>7
  <2>3. Sent(note)' = Sent(note)
    BY <1>2 DEF Sent
  <2>4. note.snapshot # Nil =>
            Within(Sent(note))' /\ (~note.damaged => FromLog(Sent(note))')
    BY <1>2, <2>2, <2>3 DEF Within, FromLog
  <2> QED
    BY <1>4, <1>5, <2>1, <2>4 DEF NoteOK
<1>8. ASSUME NEW m \in notes' PROVE NoteOK(m)' \/ (m \in notes /\ m.to # p)
  <2>1. CASE m = note
    BY <1>7, <2>1
  <2>2. CASE m \in notes /\ m.to = p
    <3>1. NoteOK(m)
      BY <2>2 DEF JoinInv
    <3> QED
      BY <1>2, <1>4, <2>2, <3>1, NoteStays
  <2> QED
    BY <1>6, <1>8, <2>1, <2>2
<1> QED
  BY <1>1, <1>2, <1>3, <1>4, <1>5, <1>8, ConnectionMoves

LEMMA CloseJoin ==
    ASSUME Inv, Inv', JoinInv, NEW p \in Members, Close(p) PROVE JoinInv'
<1>1. p \in Peers /\ PeerOK(p) /\ Len(commits) \in Nat
  BY MembersArePeers, LogFacts DEF JoinInv
<1>2. UNCHANGED <<setting, commits, seen, first>> /\ LogGrows
  BY <1>1 DEF Close, log, LogGrows
<1>3. /\ conn'[p] = [NoConnection EXCEPT !.phase = "closed"]
      /\ replica'[p] = Empty(kind)
      /\ skipped'[p] = {} /\ missable'[p] = {} /\ damaged'[p] = FALSE
      /\ DOMAIN skipped' = Peers /\ DOMAIN missable' = Peers /\ DOMAIN damaged' = Peers
  BY <1>1 DEF Close, Inv, JoinInv
<1>4. conn'[p] = [phase |-> "closed", connected |-> FALSE, applied |-> 0, buffer |-> <<>>,
                  asked |-> {}, waiting |-> {}]
  BY <1>3 DEF NoConnection
<1>5. /\ IsConnection(conn'[p]) /\ conn'[p].phase = "closed" /\ conn'[p].applied = 0
      /\ conn'[p].buffer = <<>> /\ conn'[p].asked = {} /\ conn'[p].waiting = {}
  BY <1>4 DEF IsConnection
<1>6. PICK at : at = Progress(p)'
  OBVIOUS
<1>7. at.state = Empty(kind) /\ at.applied = 0 /\ at.skipped = {}
  BY <1>3, <1>5, <1>6 DEF Progress
<1>8. AfterIn(kind, commits, 0, {}) = Empty(kind)
  BY AfterInNext
<1>9. Within(at)' /\ FromLog(at)'
  BY <1>1, <1>2, <1>7, <1>8 DEF Within, FromLog
<1>10. Within(Progress(p))' /\ FromLog(Progress(p))'
  BY <1>6, <1>9 DEF Within, FromLog
<1>11. BufferOK(p)' /\ Accounted(p)'
  <2>1. <<>> \in Seq(1 .. seen'[p])
    OBVIOUS
  <2> QED
    BY <1>5, <2>1 DEF BufferOK, Accounted
<1>12. PeerOK(p)'
  BY <1>1, <1>2, <1>3, <1>5, <1>10, <1>11 DEF PeerOK, Phases
<1>13. \A q \in Peers \ {p} : Stays(q)
  BY <1>2 DEF Close, Inv, JoinInv, Stays
<1>14. ASSUME NEW m \in notes' PROVE m \in notes /\ m.to # p
  BY <1>14 DEF Close
<1> QED
  BY <1>1, <1>2, <1>3, <1>12, <1>13, <1>14, OneMoves DEF JoinInv

(* The end of a join, on top of a snapshot or of nothing                   *)
LEMMA JoinJoin ==
    ASSUME Inv, Inv', JoinInv, NEW p \in Members, conn[p].phase = "fetching",
           NEW at, Within(at), Join(p, at), UNCHANGED log,
           ~damaged'[p] => FromLog(at),
           at.skipped \subseteq missable'[p],
           \A h \in missable[p] : ~(h <= at.applied) => h \in missable'[p],
           DOMAIN missable' = Peers, DOMAIN damaged' = Peers,
           \A q \in Peers \ {p} : missable'[q] = missable[q] /\ damaged'[q] = damaged[q]
    PROVE  JoinInv'
<1>1. p \in Peers /\ PeerOK(p) /\ Len(commits) \in Nat
  BY MembersArePeers, LogFacts DEF JoinInv
<1>2. UNCHANGED <<setting, commits, seen, first>> /\ LogGrows
  BY <1>1 DEF log, LogGrows
<1>3. PICK r : r = StepAll(p, at, Replayed(p, at.applied))
  OBVIOUS
<1>4. PICK lost : lost = missable'[p]
  OBVIOUS
<1>5. at.skipped \subseteq lost /\ \A h \in missable[p] : ~(h <= at.applied) => h \in lost
  BY <1>4
<1>6. /\ Within(r)
      /\ FromLog(at) => FromLog(r)
      /\ r.skipped \subseteq lost
      /\ r.applied + 1 .. seen[p] \subseteq lost
  BY <1>1, <1>3, <1>5, Joining
<1>7. /\ Advance(p, r)
      /\ conn' = [conn EXCEPT ![p] = [NoConnection EXCEPT
                        !.phase = "joined", !.connected = conn[p].connected,
                        !.applied = r.applied]]
      /\ notes' = {m \in notes : m.to # p}
  BY <1>3 DEF Join
<1>8. /\ replica'[p] = r.state /\ skipped'[p] = r.skipped /\ DOMAIN skipped' = Peers
      /\ \A q \in Peers \ {p} : replica'[q] = replica[q] /\ skipped'[q] = skipped[q]
  BY <1>1, <1>7 DEF Advance, Inv, JoinInv
<1>9. /\ conn'[p] = [NoConnection EXCEPT !.phase = "joined", !.connected = conn[p].connected,
                                         !.applied = r.applied]
      /\ \A q \in Peers \ {p} : conn'[q] = conn[q]
  BY <1>1, <1>7 DEF Inv
<1>10. conn'[p] = [phase |-> "joined", connected |-> conn[p].connected, applied |-> r.applied,
                   buffer |-> <<>>, asked |-> {}, waiting |-> {}]
  BY <1>9 DEF NoConnection
<1>11. /\ IsConnection(conn'[p]) /\ conn'[p].phase = "joined" /\ conn'[p].applied = r.applied
       /\ conn'[p].buffer = <<>> /\ conn'[p].asked = {} /\ conn'[p].waiting = {}
  BY <1>10 DEF IsConnection
<1>12. PICK now : now = Progress(p)'
  OBVIOUS
<1>13. now.state = r.state /\ now.applied = r.applied /\ now.skipped = r.skipped
  BY <1>8, <1>11, <1>12 DEF Progress
<1>14. Within(now)' /\ (~damaged'[p] => FromLog(now)')
  BY <1>2, <1>6, <1>13 DEF Within, FromLog
<1>15. Within(Progress(p))' /\ (~damaged'[p] => FromLog(Progress(p))')
  BY <1>12, <1>14 DEF Within, FromLog
<1>16. BufferOK(p)' /\ Accounted(p)'
  <2>1. <<>> \in Seq(1 .. seen'[p])
    OBVIOUS
  <2>2. BufferOK(p)'
    BY <1>11, <2>1 DEF BufferOK
  <2>3. Accounted(p)'
    BY <1>2, <1>4, <1>6, <1>11 DEF Accounted
  <2> QED
    BY <2>2, <2>3
<1>17. skipped'[p] \subseteq missable'[p]
  BY <1>4, <1>6, <1>8
<1>18. PeerOK(p)'
  BY <1>1, <1>2, <1>11, <1>15, <1>16, <1>17 DEF PeerOK, Phases
<1>19. \A q \in Peers \ {p} : Stays(q)
  BY <1>2, <1>8, <1>9 DEF Stays
<1>20. ASSUME NEW m \in notes' PROVE m \in notes /\ m.to # p
  BY <1>7, <1>20
<1> QED
  BY <1>1, <1>2, <1>8, <1>18, <1>19, <1>20, OneMoves DEF JoinInv

(* A collection that has not joined has applied and skipped nothing.       *)
LEMMA FreshProgress ==
    ASSUME Inv, JoinInv, NEW p \in Peers, conn[p].phase = "fetching", NEW at, at = Progress(p)
    PROVE  /\ Within(at) /\ FromLog(at) /\ at.skipped \subseteq missable[p]
           /\ at.applied = 0
<1>1. PeerOK(p) /\ ~damaged[p] /\ conn[p].applied = 0
  BY DEF JoinInv, PeerOK
<1> QED
  BY <1>1 DEF PeerOK, Progress

LEMMA FetchTimeoutJoin ==
    ASSUME Inv, Inv', JoinInv, NEW p \in Members, FetchTimeout(p) PROVE JoinInv'
<1>1. PICK at : at = Progress(p) /\ Join(p, at)
  BY DEF FetchTimeout
<1>2. p \in Peers /\ conn[p].phase = "fetching" /\ UNCHANGED <<log, missable, damaged>>
  BY MembersArePeers DEF FetchTimeout
<1>3. Within(at) /\ FromLog(at) /\ at.skipped \subseteq missable[p]
  BY <1>1, <1>2, FreshProgress
<1> QED
  BY <1>1, <1>2, <1>3, JoinJoin DEF JoinInv
LEMMA ReceiveStateJoin ==
    ASSUME Inv, Inv', JoinInv, NEW p \in Members, NEW m \in notes, ReceiveState(p, m)
    PROVE  JoinInv'
<1>1. /\ p \in Peers /\ PeerOK(p) /\ conn[p].phase = "fetching" /\ m.to = p
      /\ UNCHANGED log /\ NoteOK(m)
  BY MembersArePeers DEF JoinInv, ReceiveState
<1>2. CASE /\ conn' = [conn EXCEPT ![p].waiting = conn[p].waiting \ {m.from}]
           /\ notes' = notes \ {m}
           /\ UNCHANGED <<replica, calls, history>>
  <2>1. /\ UNCHANGED <<setting, commits, seen, first, replica, skipped, missable, damaged>>
        /\ LogGrows
    BY <1>1, <1>2, LogFacts DEF log, history, LogGrows
  <2>2. /\ conn'[p] = [conn[p] EXCEPT !.waiting = conn[p].waiting \ {m.from}]
        /\ \A q \in Peers \ {p} : conn'[q] = conn[q]
    BY <1>1, <1>2 DEF Inv
  <2>3. /\ IsConnection(conn'[p]) /\ conn'[p].phase = "fetching"
        /\ conn'[p].applied = conn[p].applied /\ conn'[p].buffer = conn[p].buffer
        /\ conn'[p].asked = conn[p].asked /\ conn'[p].waiting = conn[p].waiting \ {m.from}
    BY <1>1, <2>2 DEF PeerOK, IsConnection
  <2>4. /\ conn[p].asked \subseteq conn[p].waiting /\ conn[p].waiting \subseteq Members \ {p}
        /\ m.from \notin conn[p].asked
    BY <1>1 DEF PeerOK, NoteOK
  <2>5. ASSUME NEW n \in notes' PROVE NoteOK(n)' \/ (n \in notes /\ n.to # p)
    <3>1. n \in notes /\ NoteOK(n)
      BY <1>2 DEF JoinInv
    <3>2. CASE n.to = p
      BY <2>1, <2>3, <3>1, <3>2, NoteStays
    <3> QED
      BY <3>1, <3>2
  <2> QED
    BY <1>1, <2>1, <2>2, <2>3, <2>4, <2>5, ConnectionMoves
<1>3. CASE Join(p, Progress(p)) /\ UNCHANGED <<missable, damaged>>
  <2>1. PICK at : at = Progress(p) /\ Join(p, at)
    BY <1>3
  <2>2. Within(at) /\ FromLog(at) /\ at.skipped \subseteq missable[p]
    BY <1>1, <2>1, FreshProgress
  <2> QED
    BY <1>1, <1>3, <2>1, <2>2, JoinJoin DEF JoinInv
<1>4. CASE /\ m.snapshot # Nil
           /\ Join(p, [state |-> Import(kind, m.snapshot), applied |-> m.applied,
                       skipped |-> m.skipped, answers |-> {}])
           /\ damaged' = [damaged EXCEPT ![p] = m.damaged]
           /\ missable' = [missable EXCEPT ![p] = (@ \ (1 .. m.applied)) \cup m.skipped]
  <2>1. PICK at : at = Sent(m) /\ Join(p, at)
    BY <1>4 DEF Sent
  <2>2. Within(at) /\ (~m.damaged => FromLog(at))
    BY <1>1, <1>4, <2>1 DEF NoteOK
  <2>3. at.applied = m.applied /\ at.skipped = m.skipped
    BY <2>1 DEF Sent
  <2>4. /\ damaged'[p] = m.damaged
        /\ missable'[p] = (missable[p] \ (1 .. m.applied)) \cup m.skipped
        /\ DOMAIN missable' = Peers /\ DOMAIN damaged' = Peers
        /\ \A q \in Peers \ {p} : missable'[q] = missable[q] /\ damaged'[q] = damaged[q]
    BY <1>1, <1>4 DEF JoinInv
  <2>5. at.skipped \subseteq missable'[p]
    BY <2>3, <2>4
  <2>6. \A h \in missable[p] : ~(h <= at.applied) => h \in missable'[p]
    BY <2>3, <2>4
  <2> QED
    BY <1>1, <2>1, <2>2, <2>4, <2>5, <2>6, JoinJoin
<1> QED
  BY <1>2, <1>3, <1>4 DEF ReceiveState

(* The next index reaches a peer that drops it, buffers it or applies it.  *)
LEMMA DeliverJoin ==
    ASSUME Inv, Inv', JoinInv, NEW p \in Members, Deliver(p) PROVE JoinInv'
<1>1. p \in Peers /\ PeerOK(p) /\ Len(commits) \in Nat
  BY MembersArePeers, LogFacts DEF JoinInv
<1>2. UNCHANGED <<setting, commits, first, notes, missable, damaged>> /\ LogGrows
  BY <1>1 DEF Deliver, LogGrows
<1>3. PICK i : i = seen[p] + 1 /\ i <= Len(commits) /\ seen' = [seen EXCEPT ![p] = i]
  BY DEF Deliver
<1>4. seen[p] \in Nat /\ i \in 1 .. Len(commits) /\ seen'[p] = i /\ first[p] \in 0 .. i
  BY <1>1, <1>3 DEF PeerOK, Inv
<1>5. \A q \in Peers \ {p} : seen'[q] = seen[q]
  BY <1>3 DEF Inv
<1>6. CASE conn[p].phase \in {"none", "closed"} /\ UNCHANGED <<conn, replica, calls, skipped>>
  <2>1. Progress(p)' = Progress(p)
    BY <1>6 DEF Progress
  <2>2. Within(Progress(p))' /\ (~damaged'[p] => FromLog(Progress(p))')
    BY <1>1, <1>2, <2>1 DEF PeerOK, Within, FromLog
  <2>3. BufferOK(p)' /\ Accounted(p)'
    <3>1. <<>> \in Seq(1 .. seen'[p]) /\ conn[p].buffer = <<>>
      BY <1>1, <1>6 DEF PeerOK, BufferOK
    <3> QED
      BY <1>6, <3>1 DEF BufferOK, Accounted
  <2>4. PeerOK(p)'
    BY <1>1, <1>2, <1>4, <1>6, <2>2, <2>3 DEF PeerOK, Members
  <2>5. \A q \in Peers \ {p} : Stays(q)
    BY <1>2, <1>5, <1>6 DEF Stays
  <2>6. ASSUME NEW m \in notes' PROVE m \in notes /\ m.to # p
    BY <1>2, <1>6, <2>6 DEF JoinInv, NoteOK
  <2> QED
    BY <1>1, <1>2, <1>6, <2>4, <2>5, <2>6, OneMoves DEF JoinInv
<1>7. CASE /\ conn[p].phase \in {"created", "fetching"}
           /\ conn' = [conn EXCEPT ![p].buffer = Append(@, i)]
           /\ UNCHANGED <<replica, calls, skipped>>
  <2>1. /\ conn'[p] = [conn[p] EXCEPT !.buffer = Append(@, i)]
        /\ \A q \in Peers \ {p} : conn'[q] = conn[q]
    BY <1>1, <1>7 DEF Inv
  <2>2. /\ IsConnection(conn'[p]) /\ conn'[p].phase = conn[p].phase
        /\ conn'[p].applied = conn[p].applied /\ conn'[p].buffer = Append(conn[p].buffer, i)
        /\ conn'[p].asked = conn[p].asked /\ conn'[p].waiting = conn[p].waiting
    BY <1>1, <2>1 DEF PeerOK, IsConnection
  <2>3. Progress(p)' = Progress(p)
    BY <1>7, <2>2 DEF Progress
  <2>4. Within(Progress(p))' /\ (~damaged'[p] => FromLog(Progress(p))')
    BY <1>1, <1>2, <2>3 DEF PeerOK, Within, FromLog
  <2>5. PICK b : b = conn[p].buffer
    OBVIOUS
  <2>6. /\ b \in Seq(1 .. seen[p])
        /\ \A j, k \in DOMAIN b : j < k => b[j] < b[k]
    BY <1>1, <2>5 DEF PeerOK, BufferOK
  <2>7. b \in Seq(1 .. i) /\ Append(b, i) \in Seq(1 .. i)
    <3>1. 1 .. seen[p] \subseteq 1 .. i /\ i \in 1 .. i
      BY <1>3, <1>4
    <3>2. b \in Seq(1 .. i)
      BY <2>6, <3>1, WiderSeq
    <3> QED
      BY <3>1, <3>2
  <2>8. PICK n : n = Len(b) /\ n \in Nat /\ DOMAIN b = 1 .. n
    BY <2>6
  <2>9. PICK c : c = Append(b, i)
    OBVIOUS
  <2>10. DOMAIN c = 1 .. n + 1 /\ c[n + 1] = i /\ \A j \in 1 .. n : c[j] = b[j]
    BY <2>7, <2>8, <2>9
  <2>11. ASSUME NEW j \in 1 .. n + 1, NEW k \in 1 .. n + 1, j < k PROVE c[j] < c[k]
    <3>1. j \in 1 .. n
      BY <2>8, <2>11
    <3>2. CASE k \in 1 .. n
      BY <2>6, <2>8, <2>10, <2>11, <3>1, <3>2
    <3>3. CASE k = n + 1
      <4>1. b[j] \in 1 .. seen[p]
        BY <2>6, <2>8, <3>1, ElementOfSeq
      <4> QED
        BY <1>3, <1>4, <2>10, <3>1, <3>3, <4>1
    <3> QED
      BY <2>8, <3>2, <3>3
  <2>12. BufferOK(p)'
    <3>1. c \in Seq(1 .. seen'[p]) /\ conn'[p].buffer = c
      BY <1>4, <2>2, <2>5, <2>7, <2>9
    <3> QED
      BY <1>7, <2>2, <2>10, <2>11, <3>1 DEF BufferOK
  <2>13. Accounted(p)'
    <3> SUFFICES ASSUME NEW h \in conn[p].applied + 1 .. i, h \notin missable[p]
                 PROVE  \E j \in DOMAIN c : c[j] = h
      BY <1>2, <1>4, <2>2, <2>5, <2>9 DEF Accounted
    <3>1. conn[p].applied \in Nat
      BY <1>1 DEF PeerOK, Within, Progress
    <3>2. CASE h = i
      <4>1. n + 1 \in 1 .. n + 1
        BY <2>8
      <4> QED
        BY <2>10, <3>2, <4>1
    <3>3. CASE h # i
      <4>1. h \in conn[p].applied + 1 .. seen[p]
        BY <1>3, <1>4, <3>1, <3>3
      <4>2. PICK j \in DOMAIN b : b[j] = h
        BY <1>1, <1>7, <2>5, <4>1 DEF PeerOK, Accounted
      <4>3. j \in 1 .. n /\ j \in 1 .. n + 1
        BY <2>8
      <4> QED
        BY <2>10, <4>2, <4>3
    <3> QED
      BY <3>2, <3>3
  <2>14. PeerOK(p)'
    BY <1>1, <1>2, <1>4, <1>7, <2>2, <2>4, <2>12, <2>13 DEF PeerOK, Members
  <2>15. \A q \in Peers \ {p} : Stays(q)
    BY <1>2, <1>5, <1>7, <2>1 DEF Stays
  <2>16. ASSUME NEW m \in notes' PROVE NoteOK(m)' \/ (m \in notes /\ m.to # p)
    <3>1. m \in notes /\ NoteOK(m)
      BY <1>2, <2>16 DEF JoinInv
    <3>2. CASE m.to = p
      <4>1. conn'[m.to].phase = "fetching" /\ conn'[m.to].asked \subseteq conn[m.to].asked
        BY <2>2, <3>1, <3>2 DEF NoteOK
      <4> QED
        BY <1>2, <3>1, <4>1, NoteStays
    <3> QED
      BY <3>1, <3>2
  <2> QED
    BY <1>1, <1>2, <1>7, <2>14, <2>15, <2>16, OneMoves DEF JoinInv
<1>8. CASE /\ conn[p].phase = "joined"
           /\ LET at == Step(p, Progress(p), i)
              IN  /\ Advance(p, at)
                  /\ conn' = [conn EXCEPT ![p].applied = at.applied]
  <2>1. PICK at : at = Progress(p)
    OBVIOUS
  <2>2. PICK r : r = Step(p, at, i)
    OBVIOUS
  <2>3. Advance(p, r) /\ conn' = [conn EXCEPT ![p].applied = r.applied]
    BY <1>8, <2>1, <2>2
  <2>4. /\ Within(at) /\ (~damaged[p] => FromLog(at))
        /\ at.applied = conn[p].applied /\ at.skipped = skipped[p]
    BY <1>1, <2>1 DEF PeerOK, Progress
  <2>5. Within(r)
    BY <1>1, <1>4, <2>2, <2>4, StepKeeps
  <2>6. FromLog(at) => FromLog(r)
    BY <1>1, <1>4, <2>2, <2>4, StepKeeps
  <2>7. i <= at.applied => r = at
    BY <1>1, <1>4, <2>2, <2>4, StepKeeps
  <2>8. ~(i <= at.applied) =>
            r.applied = i /\ r.skipped = at.skipped \cup (at.applied + 1 .. i - 1)
    <3>1. PICK outcome : outcome = Apply(kind, at.state, commits[i].request, commits[i].source)
      OBVIOUS
    <3>2. PICK skips : skips = at.skipped \cup (at.applied + 1 .. i - 1)
      OBVIOUS
    <3>3. ~(i <= at.applied) => r.applied = i /\ r.skipped = skips
      BY <2>2, <3>1, <3>2 DEF Step
    <3> QED
      BY <3>2, <3>3
  <2>9. /\ replica'[p] = r.state /\ skipped'[p] = r.skipped /\ DOMAIN skipped' = Peers
        /\ \A q \in Peers \ {p} : replica'[q] = replica[q] /\ skipped'[q] = skipped[q]
    BY <1>1, <2>3 DEF Advance, Inv, JoinInv
  <2>10. /\ conn'[p] = [conn[p] EXCEPT !.applied = r.applied]
         /\ \A q \in Peers \ {p} : conn'[q] = conn[q]
    BY <1>1, <2>3 DEF Inv
  <2>11. /\ IsConnection(conn'[p]) /\ conn'[p].phase = "joined"
         /\ conn'[p].applied = r.applied /\ conn'[p].buffer = conn[p].buffer
         /\ conn'[p].asked = conn[p].asked /\ conn'[p].waiting = conn[p].waiting
    BY <1>1, <1>8, <2>10 DEF PeerOK, IsConnection
  <2>12. PICK now : now = Progress(p)'
    OBVIOUS
  <2>13. now.state = r.state /\ now.applied = r.applied /\ now.skipped = r.skipped
    BY <2>9, <2>11, <2>12 DEF Progress
  <2>14. Within(now)' /\ (~damaged'[p] => FromLog(now)')
    BY <1>2, <2>4, <2>5, <2>6, <2>13 DEF Within, FromLog
  <2>15. Within(Progress(p))' /\ (~damaged'[p] => FromLog(Progress(p))')
    BY <2>12, <2>14 DEF Within, FromLog
  <2>16. conn[p].buffer = <<>> /\ BufferOK(p)'
    <3>1. <<>> \in Seq(1 .. seen'[p]) /\ conn[p].buffer = <<>>
      BY <1>1, <1>8 DEF PeerOK, BufferOK
    <3> QED
      BY <2>11, <3>1 DEF BufferOK
  <2>17. \A h \in conn[p].applied + 1 .. seen[p] : h \in missable[p]
    BY <1>1, <1>8, <2>16 DEF PeerOK, Accounted
  <2>18. at.applied \in Nat
    BY <2>4 DEF Within
  <2>19. Accounted(p)'
    <3>1. i <= r.applied /\ r.applied \in Nat
      BY <1>4, <2>7, <2>8, <2>18
    <3>2. r.applied + 1 .. i = {}
      BY <1>4, <3>1
    <3> QED
      BY <1>4, <2>11, <3>2 DEF Accounted
  <2>20. skipped'[p] \subseteq missable'[p]
    <3>1. skipped[p] \subseteq missable[p]
      BY <1>1 DEF PeerOK
    <3>2. CASE i <= at.applied
      BY <1>2, <2>4, <2>7, <2>9, <3>1, <3>2
    <3>3. CASE ~(i <= at.applied)
      <4>1. i - 1 = seen[p]
        BY <1>3, <1>4
      <4>2. skipped'[p] = skipped[p] \cup (conn[p].applied + 1 .. seen[p])
        BY <2>4, <2>8, <2>9, <3>3, <4>1
      <4> QED
        BY <1>2, <2>17, <3>1, <4>2
    <3> QED
      BY <3>2, <3>3
  <2>21. PeerOK(p)'
    BY <1>1, <1>2, <1>4, <2>11, <2>15, <2>16, <2>19, <2>20 DEF PeerOK, Members, Phases
  <2>22. \A q \in Peers \ {p} : Stays(q)
    BY <1>2, <1>5, <2>9, <2>10 DEF Stays
  <2>23. ASSUME NEW m \in notes' PROVE m \in notes /\ m.to # p
    BY <1>2, <1>8, <2>23 DEF JoinInv, NoteOK
  <2> QED
    BY <1>1, <1>2, <2>9, <2>21, <2>22, <2>23, OneMoves DEF JoinInv
<1> QED
  BY <1>3, <1>6, <1>7, <1>8 DEF Deliver

LEMMA CommitJoin ==
    ASSUME Inv, Inv', JoinInv, NEW c \in Calls, Commit(c) PROVE JoinInv'
<1>1. UNCHANGED <<setting, seen, first, conn, replica, notes, skipped, missable, damaged>>
  BY DEF Commit, history
<1>2. LogGrows
  <2>1. PICK e : commits' = Append(commits, e)
    BY DEF Commit
  <2>2. commits \in Seq({commits[i] : i \in 1 .. Len(commits)} \cup {e})
    BY LogFacts, WiderSeq
  <2> QED
    BY <1>1, <2>1, <2>2 DEF LogGrows
<1> QED
  BY <1>1, <1>2, NobodyMoves

(* Every step keeps the invariant of the joins.                            *)
LEMMA EveryStepJoins == Inv /\ Inv' /\ JoinInv /\ [Next]_vars => JoinInv'
<1> SUFFICES ASSUME Inv, Inv', JoinInv, [Next]_vars PROVE JoinInv'
  OBVIOUS
<1>1. CASE /\ UNCHANGED <<setting, commits, seen, first, conn, replica, notes, skipped>>
           /\ UNCHANGED <<missable, damaged>>
  <2>1. LogGrows
    BY <1>1, LogFacts DEF LogGrows
  <2> QED
    BY <1>1, <2>1, NobodyMoves
<1>2. CASE UNCHANGED vars
  BY <1>1, <1>2 DEF vars, log, history
<1>3. ASSUME NEW p \in Members, NEW o \in setting.operations, Invoke(p, o) PROVE JoinInv'
  BY <1>1, <1>3 DEF Invoke, log, history
<1>4. ASSUME NEW c \in Calls, Fail(c) \/ Commit(c) PROVE JoinInv'
  BY <1>1, <1>4, CommitJoin DEF Fail, log, history
<1>5. ASSUME NEW p \in Members,
             \/ Deliver(p) \/ LogReset(p) \/ LeaderChanged(p)
             \/ Fetch(p) \/ FetchTimeout(p) \/ Close(p)
      PROVE  JoinInv'
  BY <1>5, DeliverJoin, LogResetJoin, LeaderChangedJoin, FetchJoin, FetchTimeoutJoin, CloseJoin
<1>6. ASSUME NEW p \in Members, NEW b \in BOOLEAN, Create(p, b) PROVE JoinInv'
  BY <1>6, CreateJoin
<1>7. ASSUME NEW p \in Members, NEW q \in Members, AnswerHello(q, p) PROVE JoinInv'
  BY <1>7, AnswerHelloJoin
<1>8. ASSUME NEW p \in Members, NEW m \in notes, ReceiveState(p, m) PROVE JoinInv'
  BY <1>8, ReceiveStateJoin
<1> QED
  BY <1>2, <1>3, <1>4, <1>5, <1>6, <1>7, <1>8 DEF Next

LEMMA JoinInvAlways == Spec => [](Inv /\ JoinInv)
<1>1. Init => Inv /\ JoinInv
  BY InitOK, InitJoin
<1>2. Inv /\ JoinInv /\ [Next]_vars => Inv' /\ JoinInv'
  BY EveryStep, EveryStepJoins
<1> QED
  BY <1>1, <1>2, PTL DEF Spec

(* Every index, phase and set of awaited peers is in its range.            *)
THEOREM ConnectionTypes == Spec => []TypeOK
<1>1. Inv /\ JoinInv => TypeOK
  <2> SUFFICES ASSUME Inv, JoinInv PROVE TypeOK
    OBVIOUS
  <2>1. ASSUME NEW p \in Peers
        PROVE  /\ first[p] \in 0 .. seen[p] /\ seen[p] \in 0 .. Len(commits)
               /\ conn[p].phase \in Phases
               /\ conn[p].applied \in 0 .. Len(commits)
               /\ conn[p].asked \subseteq conn[p].waiting
               /\ conn[p].waiting \subseteq Members \ {p}
               /\ skipped[p] \subseteq 1 .. conn[p].applied
    BY DEF JoinInv, PeerOK, Within, Progress
  <2> QED
    BY <2>1 DEF TypeOK, Inv, CallsOK
<1> QED
  BY <1>1, JoinInvAlways, PTL

(* However snapshot, buffer and log race while a collection joins, close   *)
(* and lose their leader: its replica is what the log makes of an empty    *)
(* collection up to the applied index, each index once and in order, those *)
(* left out that it has skipped.                                           *)
THEOREM ReplicasInSync == Spec => []InSync
<1>1. Inv /\ JoinInv => InSync
  <2> SUFFICES ASSUME JoinInv, NEW p \in Peers, ~damaged[p]
               PROVE  replica[p] = AfterAllBut(conn[p].applied, skipped[p])
    BY DEF InSync
  <2>1. FromLog(Progress(p))
    BY DEF JoinInv, PeerOK
  <2>2. replica[p] = AfterIn(kind, commits, conn[p].applied, skipped[p])
    BY <2>1 DEF FromLog, Progress
  <2> QED
    BY <2>2 DEF AfterAllBut, AfterIn
<1> QED
  BY <1>1, JoinInvAlways, PTL

(* A joined collection has missed only what its way of joining let it      *)
(* miss: nothing that its connection was there to buffer is lost.          *)
THEOREM NothingBufferedIsLost == Spec => []SkipsOnlyMissable
<1>1. Inv /\ JoinInv => SkipsOnlyMissable
  BY DEF JoinInv, PeerOK, SkipsOnlyMissable
<1> QED
  BY <1>1, JoinInvAlways, PTL

(* Without anything left out it is the collection that the log records.    *)
LEMMA AllOfTheLog ==
    ASSUME Inv, NEW n \in 0 .. Len(commits)
    PROVE  AfterIn(kind, commits, n, {}) = After(n)
<1> DEFINE S == {i \in Nat : i <= Len(commits) => AfterIn(kind, commits, i, {}) = After(i)}
<1>1. Len(commits) \in Nat
  BY LogFacts
<1>2. 0 \in S
  BY AfterInNext DEF After
<1>3. ASSUME NEW i \in Nat, i \in S PROVE i + 1 \in S
  <2> SUFFICES ASSUME i + 1 <= Len(commits)
               PROVE  AfterIn(kind, commits, i + 1, {}) = After(i + 1)
    OBVIOUS
  <2>1. i + 1 \in 1 .. Len(commits) /\ (i + 1) - 1 = i /\ i + 1 # 0 /\ i <= Len(commits)
    BY <1>1
  <2>2. AfterIn(kind, commits, i, {}) = After(i)
    BY <1>3, <2>1
  <2>3. AfterIn(kind, commits, i + 1, {}) =
            Apply(kind, AfterIn(kind, commits, i, {}), commits[i + 1].request,
                  commits[i + 1].source).state
    BY AfterInNext
  <2>4. EntryOK(i + 1)
    BY <2>1 DEF Inv, LogOK
  <2>5. commits[i + 1].after =
            Apply(kind, After(i), commits[i + 1].request, commits[i + 1].source).state
    BY <2>1, <2>4 DEF EntryOK
  <2> QED
    BY <2>1, <2>2, <2>3, <2>5 DEF After
<1>4. n \in S
  <2> HIDE DEF S
  <2> QED
    BY <1>1, <1>2, <1>3, UpFromZero
<1> QED
  BY <1>4

(* A collection catches up, as the documentation says, when its way of     *)
(* joining lets it miss nothing and its snapshot survives the transfer.    *)
CatchesUpUnlessMissed ==
    \A p \in Peers : conn[p].phase = "joined" /\ ~damaged[p] /\ missable[p] = {} =>
        replica[p] = After(conn[p].applied)

THEOREM CatchingUp == Spec => []CatchesUpUnlessMissed
<1>1. Inv /\ JoinInv => CatchesUpUnlessMissed
  <2> SUFFICES ASSUME Inv, JoinInv, NEW p \in Peers, ~damaged[p], missable[p] = {}
               PROVE  replica[p] = After(conn[p].applied)
    BY DEF CatchesUpUnlessMissed
  <2>1. FromLog(Progress(p)) /\ Within(Progress(p)) /\ skipped[p] = {}
    BY DEF JoinInv, PeerOK
  <2>2. replica[p] = AfterIn(kind, commits, conn[p].applied, {})
    BY <2>1 DEF FromLog, Progress
  <2>3. conn[p].applied \in 0 .. Len(commits)
    BY <2>1 DEF Within, Progress
  <2> QED
    BY <2>2, <2>3, AllOfTheLog
<1> QED
  BY <1>1, JoinInvAlways, PTL
=============================================================================
