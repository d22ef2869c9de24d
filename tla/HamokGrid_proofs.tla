-------------------------- MODULE HamokGrid_proofs --------------------------
(***************************************************************************)
(* The order in which peers execute requests on the external map, for any  *)
(* number of peers, calls and elections, and any loss or failure; that     *)
(* each is atomic under one leader; and that what is encoded, or cut into  *)
(* chunks, is the same after it has been decoded, or put together.         *)
(***************************************************************************)
EXTENDS MCHamokGrid, FiniteSetTheorems, SequenceTheorems, WellFoundedInduction, TLAPS

IsTask(t) ==
    t = [index |-> t.index, entry |-> t.entry, stage |-> t.stage, read |-> t.read]

IsExecutor(x) ==
    x = [tasks |-> x.tasks, running |-> x.running, semaphore |-> x.semaphore,
         maxConcurrencyLevel |-> x.maxConcurrencyLevel]

Waiting(x) == {x.tasks[i] : i \in 1 .. Len(x.tasks)}
Todo(x) == x.running \cup Waiting(x)

\* An executor of one task at a time: it rests, or one task runs, which is older than
\* those that wait; these are in the order of their indices.
WellOrdered(x) ==
    /\ IsExecutor(x)
    /\ x.maxConcurrencyLevel = 1
    /\ x.tasks \in Seq(Waiting(x))
    /\ \A t \in Todo(x) : IsTask(t) /\ t.index \in Nat
    /\ \/ x.semaphore = 1 /\ x.running = {} /\ x.tasks = <<>>
       \/ x.semaphore = 0 /\ \E t \in x.running : x.running = {t}
    /\ \A t \in x.running : \A u \in Waiting(x) : t.index < u.index
    /\ \A i, j \in 1 .. Len(x.tasks) : i < j => x.tasks[i].index < x.tasks[j].index

\* What peer p has still to do was committed, and is younger than what it has done.
PeerInOrder(p) ==
    /\ committed[p] \in Nat
    /\ WellOrdered(executor[p])
    /\ \A t \in Todo(executor[p]) : t.index <= committed[p]

DoneBefore(e) ==
    /\ e.index \in Nat
    /\ e.by \in Peers
    /\ e.index <= committed[e.by]
    /\ \A t \in Todo(executor[e.by]) : e.index < t.index

Inv ==
    /\ setting \in Settings
    /\ DOMAIN committed = Peers /\ DOMAIN executor = Peers
    /\ \A p \in Peers : PeerInOrder(p)
    /\ executed \in Seq({executed[i] : i \in 1 .. Len(executed)})
    /\ \A i \in 1 .. Len(executed) : DoneBefore(executed[i])
    /\ \A i, j \in 1 .. Len(executed) :
        i < j /\ executed[i].by = executed[j].by => executed[i].index < executed[j].index

-----------------------------------------------------------------------------
(* Executors.                                                              *)

LEMMA OwnElements ==
    ASSUME NEW S, NEW s \in Seq(S) PROVE s \in Seq({s[i] : i \in 1 .. Len(s)})
<1> DEFINE T == {s[i] : i \in 1 .. Len(s)}
<1>1. \A i \in 1 .. Len(s) : s[i] \in T
  OBVIOUS
<1> HIDE DEF T
<1>2. s \in Seq(T)
  BY <1>1
<1> QED
  BY <1>2 DEF T

(* The first task starts, if there is room.                                *)
LEMMA RunOK ==
    ASSUME NEW x, IsExecutor(x), x.maxConcurrencyLevel = 1, x.tasks \in Seq(Waiting(x)),
           \A t \in Todo(x) : IsTask(t) /\ t.index \in Nat,
           \/ x.semaphore = 1 /\ x.running = {}
           \/ x.semaphore = 0 /\ \E t \in x.running : x.running = {t},
           \A t \in x.running : \A u \in Waiting(x) : t.index < u.index,
           \A i, j \in 1 .. Len(x.tasks) : i < j => x.tasks[i].index < x.tasks[j].index
    PROVE  WellOrdered(_run(x)) /\ Todo(_run(x)) = Todo(x)
<1>1. CASE x.tasks = <<>> \/ x.semaphore = 0
  BY <1>1 DEF _run, WellOrdered
<1>2. CASE ~(x.tasks = <<>> \/ x.semaphore = 0)
  <2>1. PICK y : y = _run(x)
    OBVIOUS
  <2>2. y = [x EXCEPT !.tasks = Tail(@), !.running = @ \cup {Head(x.tasks)},
                      !.semaphore = @ - 1]
    BY <1>2, <2>1 DEF _run
  <2>3. /\ IsExecutor(y) /\ y.maxConcurrencyLevel = 1 /\ y.semaphore = 0
        /\ y.tasks = Tail(x.tasks) /\ y.running = {Head(x.tasks)}
    <3>1. x.semaphore = 1 /\ x.running = {}
      BY <1>2
    <3>2. /\ IsExecutor(y) /\ y.maxConcurrencyLevel = x.maxConcurrencyLevel
          /\ y.semaphore = x.semaphore - 1 /\ y.tasks = Tail(x.tasks)
          /\ y.running = x.running \cup {Head(x.tasks)}
      BY <2>2 DEF IsExecutor
    <3> QED
      BY <3>1, <3>2
  <2>4. /\ Len(x.tasks) \in Nat /\ Len(x.tasks) >= 1 /\ Head(x.tasks) = x.tasks[1]
        /\ Len(y.tasks) = Len(x.tasks) - 1
        /\ \A i \in 1 .. Len(y.tasks) : y.tasks[i] = x.tasks[i + 1]
        /\ y.tasks \in Seq(Waiting(x))
    BY <1>2, <2>3
  <2>5. y.tasks \in Seq(Waiting(y))
    <3>1. PICK S, s : S = Waiting(x) /\ s = y.tasks
      OBVIOUS
    <3>2. s \in Seq({s[i] : i \in 1 .. Len(s)})
      BY <2>4, <3>1, OwnElements
    <3> QED
      BY <3>1, <3>2 DEF Waiting
  <2>6. Waiting(x) = Waiting(y) \cup {x.tasks[1]}
    <3>1. ASSUME NEW i \in 1 .. Len(x.tasks), i # 1 PROVE x.tasks[i] \in Waiting(y)
      <4>1. PICK j : j = i - 1
        OBVIOUS
      <4>2. j \in 1 .. Len(y.tasks) /\ j + 1 = i
        BY <2>4, <3>1, <4>1
      <4>3. y.tasks[j] = x.tasks[i]
        BY <2>4, <4>2
      <4> QED
        BY <4>2, <4>3 DEF Waiting
    <3>2. ASSUME NEW i \in 1 .. Len(y.tasks) PROVE y.tasks[i] \in Waiting(x)
      <4>1. i + 1 \in 1 .. Len(x.tasks) /\ y.tasks[i] = x.tasks[i + 1]
        BY <2>4, <3>2
      <4> QED
        BY <4>1 DEF Waiting
    <3>3. \A u \in Waiting(x) : u \in Waiting(y) \/ u = x.tasks[1]
      <4> SUFFICES ASSUME NEW i \in 1 .. Len(x.tasks)
                   PROVE  x.tasks[i] \in Waiting(y) \/ x.tasks[i] = x.tasks[1]
        BY DEF Waiting
      <4> QED
        BY <3>1
    <3>4. \A u \in Waiting(y) : u \in Waiting(x)
      <4> SUFFICES ASSUME NEW i \in 1 .. Len(y.tasks) PROVE y.tasks[i] \in Waiting(x)
        BY DEF Waiting
      <4> QED
        BY <3>2
    <3>5. x.tasks[1] \in Waiting(x)
      BY <2>4 DEF Waiting
    <3> QED
      BY <3>3, <3>4, <3>5
  <2>7. Todo(y) = Todo(x)
    BY <1>2, <2>3, <2>4, <2>6 DEF Todo
  <2>8. \A u \in Waiting(y) : x.tasks[1].index < u.index
    <3>1. ASSUME NEW i \in 1 .. Len(y.tasks) PROVE x.tasks[1].index < y.tasks[i].index
      <4>1. i + 1 \in 1 .. Len(x.tasks) /\ 1 \in 1 .. Len(x.tasks) /\ 1 < i + 1
        BY <2>4, <3>1
      <4>2. x.tasks[1].index < x.tasks[i + 1].index
        BY <4>1
      <4> QED
        BY <2>4, <4>2
    <3> QED
      BY <3>1 DEF Waiting
  <2>9. ASSUME NEW i \in 1 .. Len(y.tasks), NEW j \in 1 .. Len(y.tasks), i < j
        PROVE  y.tasks[i].index < y.tasks[j].index
    <3>1. i + 1 \in 1 .. Len(x.tasks) /\ j + 1 \in 1 .. Len(x.tasks) /\ i + 1 < j + 1
      BY <2>4, <2>9
    <3>2. x.tasks[i + 1].index < x.tasks[j + 1].index
      BY <3>1
    <3> QED
      BY <2>4, <3>2
  <2> QED
    BY <2>1, <2>3, <2>4, <2>5, <2>7, <2>8, <2>9 DEF WellOrdered
<1> QED
  BY <1>1, <1>2

(* A task is added that is younger than all others.                        *)
LEMMA ExecuteOK ==
    ASSUME NEW x, WellOrdered(x), NEW t, IsTask(t), t.index \in Nat,
           \A u \in Todo(x) : u.index < t.index
    PROVE  WellOrdered(execute(x, t)) /\ Todo(execute(x, t)) = Todo(x) \cup {t}
<1>1. PICK y : y = [x EXCEPT !.tasks = Append(@, t)]
  OBVIOUS
<1>2. /\ IsExecutor(y) /\ y.maxConcurrencyLevel = 1 /\ y.semaphore = x.semaphore
      /\ y.running = x.running /\ y.tasks = Append(x.tasks, t)
  BY <1>1 DEF WellOrdered, IsExecutor
<1>3. x.tasks \in Seq(Waiting(x) \cup {t})
  BY DEF WellOrdered
<1>4. /\ Len(x.tasks) \in Nat /\ Len(y.tasks) = Len(x.tasks) + 1
      /\ \A i \in 1 .. Len(x.tasks) : y.tasks[i] = x.tasks[i]
      /\ y.tasks[Len(x.tasks) + 1] = t
      /\ y.tasks \in Seq(Waiting(x) \cup {t})
  BY <1>2, <1>3
<1>5. Waiting(y) = Waiting(x) \cup {t}
  <2>1. ASSUME NEW i \in 1 .. Len(x.tasks) PROVE x.tasks[i] \in Waiting(y)
    <3>1. i \in 1 .. Len(y.tasks) /\ y.tasks[i] = x.tasks[i]
      BY <1>4
    <3> QED
      BY <3>1 DEF Waiting
  <2>2. ASSUME NEW i \in 1 .. Len(y.tasks) PROVE y.tasks[i] \in Waiting(x) \/ y.tasks[i] = t
    <3>1. CASE i \in 1 .. Len(x.tasks)
      BY <1>4, <3>1 DEF Waiting
    <3>2. CASE i = Len(x.tasks) + 1
      BY <1>4, <3>2
    <3> QED
      BY <1>4, <3>1, <3>2
  <2>3. \A u \in Waiting(x) : u \in Waiting(y)
    BY <2>1 DEF Waiting
  <2>4. \A u \in Waiting(y) : u \in Waiting(x) \/ u = t
    <3> SUFFICES ASSUME NEW i \in 1 .. Len(y.tasks)
                 PROVE  y.tasks[i] \in Waiting(x) \/ y.tasks[i] = t
      BY DEF Waiting
    <3> QED
      BY <2>2
  <2>5. t \in Waiting(y)
    BY <1>4 DEF Waiting
  <2> QED
    BY <2>3, <2>4, <2>5
<1>6. Todo(y) = Todo(x) \cup {t}
  BY <1>2, <1>5 DEF Todo
<1>7. \A i \in 1 .. Len(x.tasks) : x.tasks[i].index < t.index
  BY DEF Todo, Waiting
<1>8. ASSUME NEW i \in 1 .. Len(y.tasks), NEW j \in 1 .. Len(y.tasks), i < j
      PROVE  y.tasks[i].index < y.tasks[j].index
  <2>1. i \in 1 .. Len(x.tasks) /\ y.tasks[i] = x.tasks[i]
    BY <1>4, <1>8
  <2>2. CASE j \in 1 .. Len(x.tasks)
    BY <1>4, <1>8, <2>1, <2>2 DEF WellOrdered
  <2>3. CASE j = Len(x.tasks) + 1
    BY <1>4, <1>7, <2>1, <2>3
  <2> QED
    BY <1>4, <2>2, <2>3
<1>9. \A v \in y.running : \A u \in Waiting(y) : v.index < u.index
  BY <1>2, <1>5 DEF WellOrdered, Todo
<1>10. execute(x, t) = _run(y)
  BY <1>1 DEF execute
<1>11. \A v \in Todo(y) : IsTask(v) /\ v.index \in Nat
  BY <1>6 DEF WellOrdered
<1>12. \/ y.semaphore = 1 /\ y.running = {}
       \/ y.semaphore = 0 /\ \E v \in y.running : y.running = {v}
  BY <1>2 DEF WellOrdered
<1>13. y.tasks \in Seq(Waiting(y))
  BY <1>4, <1>5
<1>14. WellOrdered(_run(y)) /\ Todo(_run(y)) = Todo(y)
  BY <1>2, <1>8, <1>9, <1>11, <1>12, <1>13, RunOK
<1> QED
  BY <1>6, <1>10, <1>14

(* The running task ends: what is left is younger.                         *)
LEMMA PostProcessOK ==
    ASSUME NEW x, WellOrdered(x), NEW t \in x.running
    PROVE  LET y == postProcess(x, t)
           IN  /\ WellOrdered(y)
               /\ \A u \in Todo(y) : u \in Todo(x) /\ t.index < u.index
<1>1. PICK y : y = [x EXCEPT !.running = @ \ {t},
                       !.semaphore = IF x.semaphore + 1 > x.maxConcurrencyLevel
                                     THEN x.maxConcurrencyLevel ELSE x.semaphore + 1]
  OBVIOUS
<1>2. postProcess(x, t) = _run(y)
  BY <1>1 DEF postProcess
<1>3. x.running = {t} /\ x.semaphore = 0 /\ x.maxConcurrencyLevel = 1
  BY DEF WellOrdered
<1>4. /\ IsExecutor(y) /\ y.maxConcurrencyLevel = 1 /\ y.semaphore = 1
      /\ y.running = {} /\ y.tasks = x.tasks
  <2>1. y = [x EXCEPT !.running = @ \ {t}, !.semaphore = 1]
    BY <1>1, <1>3
  <2> QED
    BY <1>3, <2>1 DEF WellOrdered, IsExecutor
<1>5. Waiting(y) = Waiting(x) /\ Todo(y) = Waiting(x)
  BY <1>4 DEF Waiting, Todo
<1>6. \A u \in Waiting(x) : u \in Todo(x) /\ t.index < u.index /\ IsTask(u) /\ u.index \in Nat
  BY DEF WellOrdered, Todo
<1>7. y.tasks \in Seq(Waiting(y))
  BY <1>4, <1>5 DEF WellOrdered
<1>8. \A i, j \in 1 .. Len(y.tasks) : i < j => y.tasks[i].index < y.tasks[j].index
  BY <1>4 DEF WellOrdered
<1>9. WellOrdered(_run(y)) /\ Todo(_run(y)) = Todo(y)
  BY <1>4, <1>5, <1>6, <1>7, <1>8, RunOK
<1> QED
  BY <1>2, <1>5, <1>6, <1>9

(* The running task gets on.                                               *)
LEMMA GetsOnOK ==
    ASSUME NEW x, WellOrdered(x), NEW t \in x.running, NEW u, IsTask(u), u.index = t.index,
           NEW y, y = [x EXCEPT !.running = (@ \ {t}) \cup {u}]
    PROVE  WellOrdered(y) /\ \A v \in Todo(y) : \E w \in Todo(x) : v.index = w.index
<1>1. x.running = {t} /\ x.semaphore = 0 /\ IsTask(t) /\ t.index \in Nat
  BY DEF WellOrdered, Todo
<1>2. /\ IsExecutor(y) /\ y.maxConcurrencyLevel = 1 /\ y.semaphore = 0
      /\ y.running = {u} /\ y.tasks = x.tasks
  BY <1>1 DEF WellOrdered, IsExecutor
<1>3. Waiting(y) = Waiting(x)
  BY <1>2 DEF Waiting
<1>4. \A v \in Todo(y) : v = u \/ v \in Waiting(x)
  BY <1>2, <1>3 DEF Todo
<1>5. \A v \in Todo(y) : \E w \in Todo(x) : v.index = w.index
  BY <1>4 DEF Todo
<1>6. \A v \in Todo(y) : IsTask(v) /\ v.index \in Nat
  BY <1>1, <1>4 DEF WellOrdered, Todo
<1>7. \A v \in Waiting(y) : u.index < v.index
  BY <1>3 DEF WellOrdered
<1>8. y.tasks \in Seq(Waiting(y))
  BY <1>2, <1>3 DEF WellOrdered
<1>9. \A i, j \in 1 .. Len(y.tasks) : i < j => y.tasks[i].index < y.tasks[j].index
  BY <1>2 DEF WellOrdered
<1> QED
  BY <1>2, <1>5, <1>6, <1>7, <1>8, <1>9 DEF WellOrdered

-----------------------------------------------------------------------------
(* The steps.                                                              *)

(* One executor changes, to one whose tasks are no older than before.      *)
LEMMA OneExecutor ==
    ASSUME Inv, NEW p \in Peers, NEW y, WellOrdered(y),
           executor' = [executor EXCEPT ![p] = y],
           UNCHANGED <<setting, committed, executed>>,
           \A v \in Todo(y) : \E w \in Todo(executor[p]) : v.index = w.index
    PROVE  Inv'
<1>1. executor'[p] = y /\ DOMAIN executor' = Peers /\ \A q \in Peers \ {p} : executor'[q] = executor[q]
  BY DEF Inv
<1>2. ASSUME NEW q \in Peers PROVE PeerInOrder(q)'
  <2>1. PeerInOrder(q)
    BY DEF Inv
  <2> QED
    BY <1>1, <2>1 DEF PeerInOrder
<1>3. ASSUME NEW i \in 1 .. Len(executed) PROVE DoneBefore(executed[i])'
  <2>1. DoneBefore(executed[i])
    BY DEF Inv
  <2> QED
    BY <1>1, <2>1 DEF DoneBefore
<1> QED
  BY <1>1, <1>2, <1>3 DEF Inv

LEMMA CommitOK ==
    ASSUME Inv, NEW p \in Peers, Commit(p) PROVE Inv'
<1>1. PICK i, x, e : i = committed[p] + 1 /\ x = executor[p] /\ e = log[i]
  OBVIOUS
<1>2. PICK t : t = Task(i, [call |-> e.call, source |-> e.source,
                            request |-> Decoded[<<calls[e.call].request, e.call, e.source>>]])
  OBVIOUS
<1>3. IsTask(t) /\ t.index = i
  BY <1>2 DEF IsTask, Task
<1>4. PeerInOrder(p) /\ i \in Nat
  BY <1>1 DEF Inv, PeerInOrder
<1>5. /\ DOMAIN committed' = Peers /\ committed'[p] = i
      /\ \A q \in Peers \ {p} : committed'[q] = committed[q]
      /\ UNCHANGED <<setting, executed>>
  BY <1>1 DEF Commit, CommitNext, Inv
<1>6. \/ executor' = executor
      \/ executor' = [executor EXCEPT ![p] = execute(x, t)]
  BY <1>1, <1>2 DEF Commit
<1>7. \A u \in Todo(x) : u.index < t.index /\ u.index <= committed[p]
  BY <1>1, <1>3, <1>4 DEF PeerInOrder, WellOrdered
<1>8. WellOrdered(execute(x, t)) /\ Todo(execute(x, t)) = Todo(x) \cup {t}
  BY <1>1, <1>3, <1>4, <1>7, ExecuteOK DEF PeerInOrder
<1>9. /\ DOMAIN executor' = Peers
      /\ \A q \in Peers \ {p} : executor'[q] = executor[q]
      /\ WellOrdered(executor'[p])
      /\ \A u \in Todo(executor'[p]) : u \in Todo(x) \/ u = t
  BY <1>1, <1>4, <1>6, <1>8 DEF Inv, PeerInOrder
<1>10. ASSUME NEW q \in Peers PROVE PeerInOrder(q)'
  <2>1. CASE q = p
    <3>1. \A u \in Todo(executor'[p]) : u.index <= i
      BY <1>1, <1>3, <1>4, <1>7, <1>9 DEF WellOrdered, PeerInOrder
    <3> QED
      BY <1>4, <1>5, <1>9, <2>1, <3>1 DEF PeerInOrder
  <2>2. CASE q # p
    BY <1>5, <1>9, <2>2 DEF Inv, PeerInOrder
  <2> QED
    BY <2>1, <2>2
<1>11. ASSUME NEW j \in 1 .. Len(executed) PROVE DoneBefore(executed[j])'
  <2>1. DoneBefore(executed[j])
    BY DEF Inv
  <2>2. CASE executed[j].by = p
    BY <1>1, <1>3, <1>4, <1>5, <1>9, <2>1, <2>2 DEF DoneBefore, PeerInOrder
  <2>3. CASE executed[j].by # p
    BY <1>5, <1>9, <2>1, <2>3 DEF DoneBefore
  <2> QED
    BY <2>2, <2>3
<1> QED
  BY <1>5, <1>9, <1>10, <1>11 DEF Inv

LEMMA ReadOK ==
    ASSUME Inv, NEW p \in Peers, ReadExternal(p) PROVE Inv'
<1>1. PICK x : x = executor[p]
  OBVIOUS
<1>2. WellOrdered(x)
  BY <1>1 DEF Inv, PeerInOrder
<1>3. PICK t \in x.running : 
        /\ executor' = [executor EXCEPT ![p].running = (@ \ {t}) \cup {Read(store, t)}]
        /\ UNCHANGED <<setting, committed, executed>>
  BY <1>1 DEF ReadExternal
<1>4. PICK u : u = Read(store, t)
  OBVIOUS
<1>5. IsTask(t)
  BY <1>2 DEF WellOrdered, Todo
<1>6. IsTask(u) /\ u.index = t.index
  BY <1>4, <1>5 DEF Read, IsTask
<1>7. PICK y : y = [x EXCEPT !.running = (@ \ {t}) \cup {u}]
  OBVIOUS
<1>8. WellOrdered(y) /\ \A v \in Todo(y) : \E w \in Todo(x) : v.index = w.index
  BY <1>2, <1>6, <1>7, GetsOnOK
<1>9. executor' = [executor EXCEPT ![p] = y]
  BY <1>1, <1>3, <1>4, <1>7
<1> QED
  BY <1>1, <1>3, <1>8, <1>9, OneExecutor

LEMMA FailOK ==
    ASSUME Inv, NEW p \in Peers, FailExternal(p) PROVE Inv'
<1>1. PICK x : x = executor[p]
  OBVIOUS
<1>2. WellOrdered(x)
  BY <1>1 DEF Inv, PeerInOrder
<1>3. PICK t \in x.running : executor' = [executor EXCEPT ![p] = postProcess(x, t)]
  BY <1>1 DEF FailExternal
<1>4. WellOrdered(postProcess(x, t)) /\ \A v \in Todo(postProcess(x, t)) : v \in Todo(x)
  BY <1>2, PostProcessOK
<1> QED
  BY <1>1, <1>3, <1>4, OneExecutor DEF FailExternal

LEMMA WriteOK ==
    ASSUME Inv, NEW p \in Peers, WriteExternal(p) PROVE Inv'
<1>1. PICK x : x = executor[p]
  OBVIOUS
<1>2. PeerInOrder(p) /\ WellOrdered(x)
  BY <1>1 DEF Inv, PeerInOrder
<1>3. PICK t \in x.running :
        /\ executed' = Append(executed, [index |-> t.index, by |-> p, entry |-> t.entry,
                                         answer |-> Write(store, t).answer])
        /\ executor' = [executor EXCEPT ![p] = postProcess(x, t)]
        /\ UNCHANGED <<setting, committed>>
  BY <1>1 DEF WriteExternal
<1>4. PICK e, y : /\ e = [index |-> t.index, by |-> p, entry |-> t.entry,
                          answer |-> Write(store, t).answer]
                  /\ y = postProcess(x, t)
  OBVIOUS
<1>5. WellOrdered(y) /\ \A v \in Todo(y) : v \in Todo(x) /\ t.index < v.index
  BY <1>2, <1>4, PostProcessOK
<1>6. t \in Todo(x) /\ t.index \in Nat /\ t.index <= committed[p]
  BY <1>1, <1>2 DEF PeerInOrder, WellOrdered, Todo
<1>7. executor'[p] = y /\ DOMAIN executor' = Peers /\ \A q \in Peers \ {p} : executor'[q] = executor[q]
  BY <1>3, <1>4 DEF Inv
<1>8. ASSUME NEW q \in Peers PROVE PeerInOrder(q)'
  <2>1. PeerInOrder(q)
    BY DEF Inv
  <2> QED
    BY <1>1, <1>3, <1>5, <1>7, <2>1 DEF PeerInOrder
<1>9. ASSUME NEW f, DoneBefore(f) PROVE DoneBefore(f)'
  BY <1>1, <1>3, <1>5, <1>7, <1>9 DEF DoneBefore
<1>10. DoneBefore(e)'
  BY <1>3, <1>4, <1>5, <1>6, <1>7 DEF DoneBefore
<1>11. executed \in Seq({executed[i] : i \in 1 .. Len(executed)} \cup {e})
  BY DEF Inv
<1>12. /\ Len(executed) \in Nat /\ Len(executed') = Len(executed) + 1
       /\ \A i \in 1 .. Len(executed) : executed'[i] = executed[i]
       /\ executed'[Len(executed) + 1] = e
       /\ executed' \in Seq({executed[i] : i \in 1 .. Len(executed)} \cup {e})
  BY <1>3, <1>4, <1>11
<1>13. (\A i \in 1 .. Len(executed) : DoneBefore(executed[i]))'
  <2>1. ASSUME NEW i \in 1 .. Len(executed') PROVE DoneBefore(executed[i])'
    <3>1. CASE i \in 1 .. Len(executed)
      <4>1. DoneBefore(executed[i]) /\ executed'[i] = executed[i]
        BY <1>12, <3>1 DEF Inv
      <4> QED
        BY <1>3, <1>5, <1>7, <1>1, <4>1 DEF DoneBefore
    <3>2. CASE i = Len(executed) + 1
      <4>1. executed'[i] = e
        BY <1>12, <3>2
      <4> QED
        BY <1>10, <4>1 DEF DoneBefore
    <3> QED
      BY <1>12, <3>1, <3>2
  <2> QED
    BY <2>1
<1>14. \A i, j \in 1 .. Len(executed') :
        i < j /\ executed'[i].by = executed'[j].by => executed'[i].index < executed'[j].index
  <2>1. ASSUME NEW i \in 1 .. Len(executed'), NEW j \in 1 .. Len(executed'), i < j,
               executed'[i].by = executed'[j].by
        PROVE  executed'[i].index < executed'[j].index
    <3>1. i \in 1 .. Len(executed) /\ executed'[i] = executed[i]
      BY <1>12, <2>1
    <3>2. CASE j \in 1 .. Len(executed)
      BY <1>12, <2>1, <3>1, <3>2 DEF Inv
    <3>3. CASE j = Len(executed) + 1
      <4>1. executed'[j] = e /\ e.by = p /\ e.index = t.index
        BY <1>4, <1>12, <3>3
      <4>2. DoneBefore(executed[i]) /\ executed[i].by = p
        BY <2>1, <3>1, <4>1 DEF Inv
      <4>3. executed[i].index < t.index
        BY <1>1, <1>6, <4>2 DEF DoneBefore
      <4> QED
        BY <3>1, <4>1, <4>3
    <3> QED
      BY <1>12, <3>2, <3>3
  <2> QED
    BY <2>1
<1>15. executed' \in Seq({executed'[i] : i \in 1 .. Len(executed')})
  BY <1>12, OwnElements
<1> QED
  BY <1>3, <1>7, <1>8, <1>13, <1>14, <1>15 DEF Inv

(* All other steps leave the executors alone.                              *)
LEMMA OthersOK ==
    ASSUME Inv, UNCHANGED <<setting, committed, executor, executed>> PROVE Inv'
<1>1. \A p \in Peers : PeerInOrder(p)'
  BY DEF Inv, PeerInOrder
<1>2. \A i \in 1 .. Len(executed) : DoneBefore(executed[i])'
  BY DEF Inv, DoneBefore
<1> QED
  BY <1>1, <1>2 DEF Inv

LEMMA InitOK == Init => Inv
<1> SUFFICES ASSUME Init PROVE Inv
  OBVIOUS
<1>1. ASSUME NEW p \in Peers PROVE PeerInOrder(p)
  <2>1. PICK x : x = NewExecutor(1)
    OBVIOUS
  <2>2. IsExecutor(x) /\ x.maxConcurrencyLevel = 1 /\ x.semaphore = 1 /\ x.running = {}
        /\ x.tasks = <<>>
    BY <2>1 DEF NewExecutor, IsExecutor
  <2>3. Waiting(x) = {} /\ Todo(x) = {} /\ Len(x.tasks) = 0
    BY <2>2 DEF Waiting, Todo
  <2>4. WellOrdered(x)
    BY <2>2, <2>3 DEF WellOrdered
  <2>5. executor[p] = x /\ committed[p] = 0
    BY <1>1, <2>1 DEF Init
  <2> QED
    BY <2>3, <2>4, <2>5 DEF PeerInOrder
<1>2. executed = <<>> /\ Len(executed) = 0
  BY DEF Init
<1> QED
  BY <1>1, <1>2 DEF Init, Inv

LEMMA NextOK == Inv /\ [Next]_vars => Inv'
<1> SUFFICES ASSUME Inv, [Next]_vars PROVE Inv'
  OBVIOUS
<1> DEFINE Same == UNCHANGED <<setting, committed, executor, executed>>
<1>1. setting.peers \subseteq Peers
  BY GridAssumption DEF Inv
<1>2. CASE UNCHANGED vars
  <2>1. Same
    BY <1>2 DEF vars, remote
  <2> QED
    BY <2>1, OthersOK
<1>3. ASSUME NEW p \in Peers, NEW o, Invoke(p, o) PROVE Inv'
  <2>1. Same
    BY <1>3 DEF Invoke, remote
  <2> QED
    BY <2>1, OthersOK
<1>4. ASSUME NEW id, Expire(id) PROVE Inv'
  <2>1. Same
    BY <1>4 DEF Expire, remote
  <2> QED
    BY <2>1, OthersOK
<1>5. ASSUME NEW m, \/ ReceiveSubmit(m) \/ ReceiveSubmitResponse(m) \/ ReceiveOngoing(m)
                    \/ ReceiveResponse(m) \/ Lose(m)
      PROVE  Inv'
  <2>1. Same
    BY <1>5 DEF ReceiveSubmit, ReceiveSubmitResponse, ReceiveOngoing, ReceiveResponse, Lose, remote
  <2> QED
    BY <2>1, OthersOK
<1>6. ASSUME NEW p \in Peers, Notify(p) \/ Elect(p) \/ LearnLeader(p) \/ Close(p) PROVE Inv'
  <2>1. Same
    BY <1>6 DEF Notify, Elect, LearnLeader, Close, remote
  <2> QED
    BY <2>1, OthersOK
<1>7. ASSUME NEW p \in Peers,
             Commit(p) \/ ReadExternal(p) \/ WriteExternal(p) \/ FailExternal(p)
      PROVE  Inv'
  BY <1>7, CommitOK, ReadOK, WriteOK, FailOK
<1> QED
  BY <1>1, <1>2, <1>3, <1>4, <1>5, <1>6, <1>7 DEF Next

LEMMA InvAlways == Spec => []Inv
<1>1. Init => Inv
  BY InitOK
<1>2. Inv /\ [Next]_vars => Inv'
  BY NextOK
<1> QED
  BY <1>1, <1>2, PTL DEF Spec

(* Whoever leads, whatever fails, is lost or times out, and however far    *)
(* the executor is behind: each peer executes the committed requests in    *)
(* the order of the log, and none twice.                                   *)
THEOREM InLogOrder == Spec => []ExecutesInOrder
<1>1. Inv => ExecutesInOrder
  <2> SUFFICES ASSUME Inv PROVE ExecutesInOrder
    OBVIOUS
  <2>1. DOMAIN executed = 1 .. Len(executed)
    BY DEF Inv
  <2> QED
    BY <2>1 DEF Inv, ExecutesInOrder
<1> QED
  BY <1>1, InvAlways, PTL

(* A task that starts had waited, and no other task waits than before.     *)
LEMMA RunsWhatWaited ==
    ASSUME NEW x, IsExecutor(x), x.tasks \in Seq(Waiting(x))
    PROVE  /\ \A t \in _run(x).running : t \in x.running \/ t \in Waiting(x)
           /\ Waiting(_run(x)) \subseteq Waiting(x)
<1>1. CASE x.tasks = <<>> \/ x.semaphore = 0
  BY <1>1 DEF _run
<1>2. CASE ~(x.tasks = <<>> \/ x.semaphore = 0)
  <2>1. PICK y : y = _run(x)
    OBVIOUS
  <2>2. y = [x EXCEPT !.tasks = Tail(@), !.running = @ \cup {Head(x.tasks)}, !.semaphore = @ - 1]
    BY <1>2, <2>1 DEF _run
  <2>3. y.tasks = Tail(x.tasks) /\ y.running = x.running \cup {Head(x.tasks)}
    BY <2>2 DEF IsExecutor
  <2>4. x.tasks # <<>> /\ Len(x.tasks) \in Nat /\ Len(x.tasks) >= 1 /\ Head(x.tasks) = x.tasks[1]
    BY <1>2
  <2>5. Head(x.tasks) \in Waiting(x)
    BY <2>4 DEF Waiting
  <2>6. /\ Len(y.tasks) = Len(x.tasks) - 1
        /\ \A i \in 1 .. Len(y.tasks) : y.tasks[i] = x.tasks[i + 1]
    BY <2>3, <2>4
  <2>7. \A i \in 1 .. Len(y.tasks) : y.tasks[i] \in Waiting(x)
    <3> SUFFICES ASSUME NEW i \in 1 .. Len(y.tasks) PROVE y.tasks[i] \in Waiting(x)
      OBVIOUS
    <3>1. i + 1 \in 1 .. Len(x.tasks) /\ y.tasks[i] = x.tasks[i + 1]
      BY <2>4, <2>6
    <3> QED
      BY <3>1 DEF Waiting
  <2>8. Waiting(y) \subseteq Waiting(x)
    BY <2>7 DEF Waiting
  <2> QED
    BY <2>1, <2>3, <2>5, <2>8
<1> QED
  BY <1>1, <1>2

\* A task that is given to an executor runs or waits, and nothing else is new.
LEMMA ExecuteStarts ==
    ASSUME NEW x, WellOrdered(x), NEW t
    PROVE  LET y == execute(x, t)
           IN  /\ \A u \in y.running : u \in x.running \/ u \in Waiting(x) \/ u = t
               /\ \A u \in Waiting(y) : u \in Waiting(x) \/ u = t
<1>1. PICK z : z = [x EXCEPT !.tasks = Append(@, t)]
  OBVIOUS
<1>2. IsExecutor(z) /\ z.running = x.running /\ z.tasks = Append(x.tasks, t)
  BY <1>1 DEF WellOrdered, IsExecutor
<1>3. Len(x.tasks) \in Nat /\ x.tasks \in Seq(Waiting(x) \cup {t})
  BY DEF WellOrdered
<1>4. /\ Len(z.tasks) = Len(x.tasks) + 1
      /\ \A i \in 1 .. Len(x.tasks) : z.tasks[i] = x.tasks[i]
      /\ z.tasks[Len(x.tasks) + 1] = t
      /\ z.tasks \in Seq(Waiting(x) \cup {t})
  BY <1>2, <1>3
<1>5. \A u \in Waiting(z) : u \in Waiting(x) \/ u = t
  <2> SUFFICES ASSUME NEW i \in 1 .. Len(z.tasks) PROVE z.tasks[i] \in Waiting(x) \/ z.tasks[i] = t
    BY DEF Waiting
  <2>1. i \in 1 .. Len(x.tasks) \/ i = Len(x.tasks) + 1
    BY <1>3, <1>4
  <2> QED
    BY <1>4, <2>1 DEF Waiting
<1>6. z.tasks \in Seq(Waiting(z))
  BY <1>4, OwnElements DEF Waiting
<1>7. execute(x, t) = _run(z)
  BY <1>1 DEF execute
<1> QED
  BY <1>2, <1>5, <1>6, <1>7, RunsWhatWaited

(* When a task has ended, only one that waited starts.                     *)
LEMMA PostProcessStarts ==
    ASSUME NEW x, WellOrdered(x), NEW t \in x.running
    PROVE  /\ \A u \in postProcess(x, t).running : u \in Waiting(x)
           /\ Waiting(postProcess(x, t)) \subseteq Waiting(x)
<1>1. PICK y : y = [x EXCEPT !.running = @ \ {t},
                       !.semaphore = IF x.semaphore + 1 > x.maxConcurrencyLevel
                                     THEN x.maxConcurrencyLevel ELSE x.semaphore + 1]
  OBVIOUS
<1>2. postProcess(x, t) = _run(y)
  BY <1>1 DEF postProcess
<1>3. x.running = {t}
  BY DEF WellOrdered
<1>4. IsExecutor(y) /\ y.running = {} /\ y.tasks = x.tasks
  BY <1>1, <1>3 DEF WellOrdered, IsExecutor
<1>5. Waiting(y) = Waiting(x)
  BY <1>4 DEF Waiting
<1>6. y.tasks \in Seq(Waiting(y))
  BY <1>4, <1>5 DEF WellOrdered
<1> QED
  BY <1>2, <1>4, <1>5, <1>6, RunsWhatWaited

-----------------------------------------------------------------------------
(* One request after the other.                                            *)

(* A set of naturals that is not empty has a least element.                *)
LEMMA LeastNatural ==
    ASSUME NEW S \in SUBSET Nat, S # {}
    PROVE  \E m \in S : \A x \in S : m <= x
<1>1. IsWellFoundedOn(OpToRel(<, Nat), Nat)
  BY NatLessThanWellFounded
<1>2. PICK m \in S : \A x \in S : ~(<<x, m>> \in OpToRel(<, Nat))
  BY <1>1, WFMin
<1>3. \A x \in S : ~(x < m)
  BY <1>2 DEF OpToRel
<1> QED
  BY <1>3

(* A set that has 0, and with a number the next, has every natural.        *)
LEMMA UpFromZero ==
    ASSUME NEW S, 0 \in S, \A n \in Nat : n \in S => n + 1 \in S
    PROVE  Nat \subseteq S
<1> SUFFICES ASSUME Nat \ S # {} PROVE FALSE
  OBVIOUS
<1>1. PICK n \in Nat \ S : \A m \in Nat \ S : n <= m
  BY LeastNatural
<1>2. n \in Nat /\ n # 0
  BY <1>1
<1>3. n - 1 \in S
  BY <1>1, <1>2
<1> QED
  BY <1>1, <1>2, <1>3

\* StoreAfter, of any executions
StoreIn(es, n) ==
    LET after[i \in 0 .. n] ==
            IF i = 0 THEN NoEntries ELSE AtOnce(after[i - 1], es[i].entry).store
    IN  after[n]

Fills(es, f, n) ==
    f = [i \in 0 .. n |-> IF i = 0 THEN NoEntries ELSE AtOnce(f[i - 1], es[i].entry).store]

(* The recursive definition has a solution.                                 *)
LEMMA StoreInIs ==
    ASSUME NEW es, NEW n \in Nat
    PROVE  \E f : Fills(es, f, n) /\ StoreIn(es, n) = f[n]
<1> DEFINE S == {m \in Nat : \E f : Fills(es, f, m)}
<1>1. 0 \in S
  <2> DEFINE f == [i \in 0 .. 0 |-> NoEntries]
  <2>1. Fills(es, f, 0)
    BY DEF Fills
  <2> QED
    BY <2>1
<1>2. ASSUME NEW m \in Nat, m \in S PROVE m + 1 \in S
  <2>1. PICK f : Fills(es, f, m)
    BY <1>2
  <2> DEFINE g == [i \in 0 .. m + 1 |-> IF i = m + 1 THEN AtOnce(f[m], es[m + 1].entry).store
                                        ELSE f[i]]
  <2>2. ASSUME NEW i \in 0 .. m + 1
        PROVE  g[i] = IF i = 0 THEN NoEntries ELSE AtOnce(g[i - 1], es[i].entry).store
    <3>1. CASE i = m + 1
      <4>1. m + 1 # 0 /\ m \in 0 .. m + 1 /\ m # m + 1 /\ (m + 1) - 1 = m
        OBVIOUS
      <4>2. g[m + 1] = AtOnce(f[m], es[m + 1].entry).store /\ g[m] = f[m]
        BY <4>1
      <4> HIDE DEF g
      <4> QED
        BY <3>1, <4>1, <4>2
    <3>2. CASE i \in 0 .. m
      <4>1. g[i] = f[i] /\ (i # 0 => g[i - 1] = f[i - 1])
        BY <3>2
      <4>2. f[i] = IF i = 0 THEN NoEntries ELSE AtOnce(f[i - 1], es[i].entry).store
        BY <2>1, <3>2 DEF Fills
      <4> HIDE DEF g
      <4> QED
        BY <4>1, <4>2
    <3> QED
      BY <3>1, <3>2
  <2>3. g = [i \in 0 .. m + 1 |-> g[i]]
    OBVIOUS
  <2> HIDE DEF g
  <2>4. Fills(es, g, m + 1)
    BY <2>2, <2>3 DEF Fills
  <2> QED
    BY <2>4
<1>3. n \in S
  <2> HIDE DEF S
  <2> QED
    BY <1>1, <1>2, UpFromZero
<1>4. \E f : Fills(es, f, n)
  BY <1>3
<1>5. PICK f : f = CHOOSE g : Fills(es, g, n)
  OBVIOUS
<1>6. Fills(es, f, n)
  BY <1>4, <1>5
<1>7. StoreIn(es, n) = f[n]
  BY <1>5 DEF StoreIn, Fills
<1> QED
  BY <1>6, <1>7

(* Executions that are alike up to n leave the same store up to n.         *)
LEMMA StoreInLocal ==
    ASSUME NEW es, NEW fs, NEW n \in Nat, \A i \in 1 .. n : es[i] = fs[i],
           NEW f, NEW g, NEW m \in Nat, n <= m, Fills(es, f, n), Fills(fs, g, m)
    PROVE  f[n] = g[n]
<1> DEFINE S == {i \in Nat : i <= n => f[i] = g[i]}
<1>0. /\ \A i \in 0 .. n : f[i] = IF i = 0 THEN NoEntries ELSE AtOnce(f[i - 1], es[i].entry).store
      /\ \A i \in 0 .. m : g[i] = IF i = 0 THEN NoEntries ELSE AtOnce(g[i - 1], fs[i].entry).store
  BY DEF Fills
<1>1. 0 \in S
  BY <1>0
<1>2. ASSUME NEW i \in Nat, i \in S PROVE i + 1 \in S
  <2> SUFFICES ASSUME i + 1 <= n PROVE f[i + 1] = g[i + 1]
    OBVIOUS
  <2>1. /\ i + 1 \in 1 .. n /\ i + 1 \in 0 .. n /\ i + 1 \in 0 .. m /\ i + 1 # 0
        /\ (i + 1) - 1 = i /\ f[i] = g[i]
    BY <1>2
  <2>2. es[i + 1] = fs[i + 1]
    BY <2>1
  <2> HIDE DEF S
  <2> QED
    BY <1>0, <2>1, <2>2
<1>3. n \in S
  <2> HIDE DEF S
  <2> QED
    BY <1>1, <1>2, UpFromZero
<1> QED
  BY <1>3

(* The store after n executions depends on these only.                     *)
LEMMA StoreInSame ==
    ASSUME NEW es, NEW fs, NEW n \in Nat, \A i \in 1 .. n : es[i] = fs[i]
    PROVE  StoreIn(es, n) = StoreIn(fs, n)
<1>1. PICK f : Fills(es, f, n) /\ StoreIn(es, n) = f[n]
  BY StoreInIs
<1>2. PICK g : Fills(fs, g, n) /\ StoreIn(fs, n) = g[n]
  BY StoreInIs
<1> QED
  BY <1>1, <1>2, StoreInLocal

(* One execution more.                                                     *)
LEMMA StoreInNext ==
    ASSUME NEW es, NEW n \in Nat
    PROVE  /\ StoreIn(es, 0) = NoEntries
           /\ StoreIn(es, n + 1) = AtOnce(StoreIn(es, n), es[n + 1].entry).store
<1>1. PICK f : Fills(es, f, 0) /\ StoreIn(es, 0) = f[0]
  BY StoreInIs
<1>2. PICK g : Fills(es, g, n) /\ StoreIn(es, n) = g[n]
  BY StoreInIs
<1>3. PICK h : Fills(es, h, n + 1) /\ StoreIn(es, n + 1) = h[n + 1]
  BY StoreInIs
<1>4. g[n] = h[n]
  BY <1>2, <1>3, StoreInLocal
<1>5. h[n + 1] = AtOnce(h[n], es[n + 1].entry).store
  <2>1. n + 1 \in 0 .. n + 1 /\ n + 1 # 0 /\ (n + 1) - 1 = n
    OBVIOUS
  <2> QED
    BY <1>3, <2>1 DEF Fills
<1>6. f[0] = NoEntries
  BY <1>1 DEF Fills
<1> QED
  BY <1>1, <1>2, <1>3, <1>4, <1>5, <1>6

(* What a request writes depends on itself, the store and what it has read. *)
LEMMA WriteSame ==
    ASSUME NEW s, NEW t, NEW u, t.entry = u.entry, t.read = u.read
    PROVE  Write(s, t) = Write(s, u)
<1>1. /\ ClearEntries(s, t) = ClearEntries(s, u) /\ DeleteEntries(s, t) = DeleteEntries(s, u)
      /\ RemoveEntries(s, t) = RemoveEntries(s, u) /\ InsertEntries(s, t) = InsertEntries(s, u)
      /\ UpdateEntries(s, t) = UpdateEntries(s, u)
  BY DEF ClearEntries, DeleteEntries, RemoveEntries, InsertEntries, UpdateEntries
<1> QED
  BY <1>1 DEF Write

-----------------------------------------------------------------------------
(* One leader: requests are atomic.                                        *)

\* A task that has not started, and one that has read what is in the store.
Fresh(t) == t = Task(t.index, t.entry)
UpToDate(t, s) == ReadsFirst(t.entry.request) /\ t = Read(s, Task(t.index, t.entry))

\* Only the first leader executes; its running task, if it has read, has read the current
\* store, which is the result of the executed requests one after the other.
OneLeader ==
    /\ \A p \in Peers : executesAs[p] => p = setting.leader
    /\ \A p \in Peers : p # setting.leader => Todo(executor[p]) = {}
    /\ \A p \in Peers : \A t \in Waiting(executor[p]) : Fresh(t)
    /\ \A p \in Peers : \A t \in executor[p].running : Fresh(t) \/ UpToDate(t, store)
    /\ store = StoreIn(executed, Len(executed))
    /\ \A i \in 1 .. Len(executed) :
        executed[i].answer = AtOnce(StoreIn(executed, i - 1), executed[i].entry).answer

Atomic ==
    /\ elections \in Nat /\ DOMAIN executesAs = Peers
    /\ elections = 0 => OneLeader

(* A task that may write writes as if it read and wrote at once.           *)
LEMMA WritesAtOnce ==
    ASSUME NEW t, NEW s, Fresh(t) \/ UpToDate(t, s),
           t.stage = IF ReadsFirst(t.entry.request) THEN "read" ELSE "first"
    PROVE  Write(s, t) = AtOnce(s, t.entry)
<1>1. CASE ReadsFirst(t.entry.request)
  <2>1. ~Fresh(t)
    BY <1>1 DEF Fresh, Task
  <2>2. t = Read(s, Task(t.index, t.entry))
    BY <2>1 DEF UpToDate
  <2>3. PICK u : u = Read(s, Task(0, t.entry))
    OBVIOUS
  <2>4. u.entry = t.entry /\ u.read = t.read
    BY <2>2, <2>3 DEF Read, Task
  <2>5. AtOnce(s, t.entry) = Write(s, u)
    BY <1>1, <2>3 DEF AtOnce
  <2> QED
    BY <2>4, <2>5, WriteSame
<1>2. CASE ~ReadsFirst(t.entry.request)
  <2>1. Fresh(t)
    BY <1>2 DEF UpToDate
  <2>2. PICK u : u = Task(0, t.entry)
    OBVIOUS
  <2>3. u.entry = t.entry /\ u.read = t.read
    BY <2>1, <2>2 DEF Fresh, Task
  <2>4. AtOnce(s, t.entry) = Write(s, u)
    BY <1>2, <2>2 DEF AtOnce
  <2> QED
    BY <2>3, <2>4, WriteSame
<1> QED
  BY <1>1, <1>2

(* Nothing runs at first.                                                  *)
LEMMA InitAtomic == Init => Atomic
<1> SUFFICES ASSUME Init PROVE Atomic
  OBVIOUS
<1>1. ASSUME NEW p \in Peers PROVE Todo(executor[p]) = {}
  <2>1. executor[p].tasks = <<>> /\ executor[p].running = {}
    BY DEF Init, NewExecutor
  <2> QED
    BY <2>1 DEF Todo, Waiting
<1>2. Len(executed) = 0 /\ StoreIn(executed, 0) = NoEntries
  BY StoreInNext DEF Init
<1>3. \A p \in Peers : executor[p].running = {} /\ Waiting(executor[p]) = {}
  BY <1>1 DEF Todo
<1>4. /\ elections = 0 /\ DOMAIN executesAs = Peers /\ store = NoEntries
      /\ \A p \in Peers : executesAs[p] => p = setting.leader
  BY DEF Init
<1>5. 1 .. Len(executed) = {} /\ store = StoreIn(executed, Len(executed))
  BY <1>2, <1>4
<1>6. OneLeader
  BY <1>1, <1>3, <1>4, <1>5 DEF OneLeader
<1> QED
  BY <1>4, <1>6 DEF Atomic

(* An executor changes, and the store does not.                            *)
LEMMA ExecutorAtomic ==
    ASSUME Inv, Atomic, NEW p \in Peers, NEW y, executor' = [executor EXCEPT ![p] = y],
           UNCHANGED <<setting, elections, executesAs, executed, store>>,
           elections = 0 => /\ p # setting.leader => Todo(y) = {}
                            /\ \A t \in Waiting(y) : Fresh(t)
                            /\ \A t \in y.running : Fresh(t) \/ UpToDate(t, store)
    PROVE  Atomic'
<1>1. executor'[p] = y /\ \A q \in Peers : q # p => executor'[q] = executor[q]
  BY DEF Inv
<1> QED
  BY <1>1 DEF Atomic, OneLeader

(* A commit gives the only peer that executes one more task.               *)
LEMMA CommitAtomic ==
    ASSUME Inv, Atomic, NEW p \in Peers, Commit(p) PROVE Atomic'
<1>1. PICK i, x, e : i = committed[p] + 1 /\ x = executor[p] /\ e = log[i]
  OBVIOUS
<1>2. PICK t : t = Task(i, [call |-> e.call, source |-> e.source,
                            request |-> Decoded[<<calls[e.call].request, e.call, e.source>>]])
  OBVIOUS
<1>3. IsTask(t) /\ t.index = i /\ Fresh(t)
  BY <1>2 DEF IsTask, Task, Fresh
<1>4. PeerInOrder(p) /\ i \in Nat
  BY <1>1 DEF Inv, PeerInOrder
<1>5. UNCHANGED <<setting, elections, executesAs, executed, store>>
  BY DEF Commit
<1>6. \/ executor' = executor
      \/ executesAs[p] /\ executor' = [executor EXCEPT ![p] = execute(x, t)]
  BY <1>1, <1>2 DEF Commit
<1>7. WellOrdered(x) /\ \A u \in Todo(x) : u.index < t.index
  BY <1>1, <1>3, <1>4 DEF PeerInOrder, WellOrdered
<1>8. CASE executor' = executor
  BY <1>5, <1>8 DEF Atomic, OneLeader
<1>9. CASE executesAs[p] /\ executor' = [executor EXCEPT ![p] = execute(x, t)]
  <2>1. PICK y : y = execute(x, t)
    OBVIOUS
  <2>2. /\ \A u \in y.running : u \in x.running \/ u \in Waiting(x) \/ u = t
        /\ \A u \in Waiting(y) : u \in Waiting(x) \/ u = t
    BY <1>7, <2>1, ExecuteStarts
  <2>3. ASSUME elections = 0
        PROVE  /\ p = setting.leader
               /\ \A u \in Waiting(y) : Fresh(u)
               /\ \A u \in y.running : Fresh(u) \/ UpToDate(u, store)
    BY <1>1, <1>3, <1>9, <2>2, <2>3 DEF Atomic, OneLeader
  <2> QED
    BY <1>5, <1>9, <2>1, <2>3, ExecutorAtomic
<1> QED
  BY <1>6, <1>8, <1>9

(* A task that fails has written nothing.                                  *)
LEMMA FailAtomic ==
    ASSUME Inv, Atomic, NEW p \in Peers, FailExternal(p) PROVE Atomic'
<1>1. PICK x : x = executor[p]
  OBVIOUS
<1>2. WellOrdered(x)
  BY <1>1 DEF Inv, PeerInOrder
<1>3. PICK t \in x.running : executor' = [executor EXCEPT ![p] = postProcess(x, t)]
  BY <1>1 DEF FailExternal
<1>4. PICK y : y = postProcess(x, t)
  OBVIOUS
<1>5. (\A u \in y.running : u \in Waiting(x)) /\ Waiting(y) \subseteq Waiting(x)
  BY <1>2, <1>4, PostProcessStarts
<1>6. UNCHANGED <<setting, elections, executesAs, executed, store>>
  BY DEF FailExternal, raft
<1>7. ASSUME elections = 0
      PROVE  /\ p # setting.leader => Todo(y) = {}
             /\ \A u \in Waiting(y) : Fresh(u)
             /\ \A u \in y.running : Fresh(u) \/ UpToDate(u, store)
  BY <1>1, <1>5, <1>7 DEF Atomic, OneLeader, Todo
<1> QED
  BY <1>3, <1>4, <1>6, <1>7, ExecutorAtomic

\* What is read is in the store until the same task writes, because no other one runs.
LEMMA ReadAtomic ==
    ASSUME Inv, Atomic, NEW p \in Peers, ReadExternal(p) PROVE Atomic'
<1>1. PICK x : x = executor[p]
  OBVIOUS
<1>2. WellOrdered(x)
  BY <1>1 DEF Inv, PeerInOrder
<1>3. PICK t \in x.running :
        /\ t.stage = "first" /\ ReadsFirst(t.entry.request)
        /\ executor' = [executor EXCEPT ![p].running = (@ \ {t}) \cup {Read(store, t)}]
        /\ UNCHANGED <<setting, raft, store, executesAs, executed>>
  BY <1>1 DEF ReadExternal
<1>4. PICK u : u = Read(store, t)
  OBVIOUS
<1>5. PICK y : y = [x EXCEPT !.running = (@ \ {t}) \cup {u}]
  OBVIOUS
<1>6. x.running = {t} /\ IsExecutor(x) /\ IsTask(t)
  BY <1>2 DEF WellOrdered, Todo
<1>7. y.running = {u} /\ y.tasks = x.tasks
  BY <1>5, <1>6 DEF IsExecutor
<1>8. Waiting(y) = Waiting(x)
  BY <1>7 DEF Waiting
<1>9. executor' = [executor EXCEPT ![p] = y]
  BY <1>1, <1>3, <1>4, <1>5
<1>10. ASSUME elections = 0
       PROVE  /\ p # setting.leader => Todo(y) = {}
              /\ \A v \in Waiting(y) : Fresh(v)
              /\ \A v \in y.running : Fresh(v) \/ UpToDate(v, store)
  <2>1. ~UpToDate(t, store)
    BY <1>3 DEF UpToDate, Read, Task
  <2>2. Fresh(t)
    BY <1>1, <1>10, <2>1 DEF Atomic, OneLeader
  <2>3. u.index = t.index /\ u.entry = t.entry
    BY <1>4, <1>6 DEF Read, IsTask
  <2>4. UpToDate(u, store)
    BY <1>3, <1>4, <2>2, <2>3 DEF UpToDate, Fresh
  <2>5. p = setting.leader
    BY <1>1, <1>6, <1>10 DEF Atomic, OneLeader, Todo
  <2> QED
    BY <1>1, <1>7, <1>8, <1>10, <2>4, <2>5 DEF Atomic, OneLeader
<1>11. UNCHANGED <<setting, elections, executesAs, executed, store>>
  BY <1>3 DEF raft
<1> QED
  BY <1>9, <1>10, <1>11, ExecutorAtomic

(* What is written is what one atomic call would have written.             *)
LEMMA WriteAtomic ==
    ASSUME Inv, Atomic, NEW p \in Peers, WriteExternal(p) PROVE Atomic'
<1>1. PICK x : x = executor[p]
  OBVIOUS
<1>2. WellOrdered(x)
  BY <1>1 DEF Inv, PeerInOrder
<1>3. PICK t \in x.running :
        /\ t.stage = IF ReadsFirst(t.entry.request) THEN "read" ELSE "first"
        /\ store' = Write(store, t).store
        /\ executed' = Append(executed, [index |-> t.index, by |-> p, entry |-> t.entry,
                                         answer |-> Write(store, t).answer])
        /\ executor' = [executor EXCEPT ![p] = postProcess(x, t)]
        /\ UNCHANGED <<setting, raft, executesAs>>
  BY <1>1 DEF WriteExternal
<1>4. PICK e, y, n : /\ e = [index |-> t.index, by |-> p, entry |-> t.entry,
                             answer |-> Write(store, t).answer]
                     /\ y = postProcess(x, t)
                     /\ n = Len(executed)
  OBVIOUS
<1>5. (\A u \in y.running : u \in Waiting(x)) /\ Waiting(y) \subseteq Waiting(x)
  BY <1>2, <1>4, PostProcessStarts
<1>6. executor'[p] = y /\ \A q \in Peers : q # p => executor'[q] = executor[q]
  BY <1>3, <1>4 DEF Inv
<1>7. UNCHANGED <<setting, elections, executesAs>>
  BY <1>3 DEF raft
<1>8. executed \in Seq({executed[i] : i \in 1 .. Len(executed)} \cup {e})
  BY DEF Inv
<1>9. /\ n \in Nat /\ Len(executed') = n + 1
      /\ \A i \in 1 .. n : executed'[i] = executed[i]
      /\ executed'[n + 1] = e
  BY <1>3, <1>4, <1>8
<1>10. SUFFICES ASSUME elections = 0 PROVE OneLeader'
  BY <1>7 DEF Atomic
<1>11. OneLeader
  BY <1>10 DEF Atomic
<1>12. p = setting.leader /\ (Fresh(t) \/ UpToDate(t, store))
  BY <1>1, <1>11 DEF OneLeader, Todo
<1>13. Write(store, t) = AtOnce(store, t.entry)
  BY <1>3, <1>12, WritesAtOnce
<1>14. store = StoreIn(executed', n)
  BY <1>4, <1>9, <1>11, StoreInSame DEF OneLeader
<1>15. store' = StoreIn(executed', n + 1)
  <2>1. PICK es : es = executed'
    OBVIOUS
  <2>2. StoreIn(es, n + 1) = AtOnce(StoreIn(es, n), es[n + 1].entry).store
    BY <1>9, StoreInNext
  <2>3. es[n + 1] = e /\ e.entry = t.entry /\ StoreIn(es, n) = store
    BY <1>4, <1>9, <1>14, <2>1
  <2> QED
    BY <1>3, <1>13, <2>1, <2>2, <2>3
<1>16. ASSUME NEW i \in 1 .. n + 1
       PROVE  executed'[i].answer = AtOnce(StoreIn(executed', i - 1), executed'[i].entry).answer
  <2>1. CASE i \in 1 .. n
    <3>1. i - 1 \in Nat /\ \A j \in 1 .. i - 1 : executed[j] = executed'[j]
      BY <1>9, <2>1
    <3>2. StoreIn(executed, i - 1) = StoreIn(executed', i - 1)
      BY <3>1, StoreInSame
    <3> QED
      BY <1>4, <1>9, <1>11, <2>1, <3>2 DEF OneLeader
  <2>2. CASE i = n + 1
    <3>1. i - 1 = n
      BY <1>9, <2>2
    <3> QED
      BY <1>4, <1>9, <1>13, <1>14, <2>2, <3>1
  <2> QED
    BY <1>9, <2>1, <2>2
<1>17. ASSUME NEW q \in Peers
       PROVE  /\ q # setting.leader => Todo(executor'[q]) = {}
              /\ \A u \in Waiting(executor'[q]) : Fresh(u)
              /\ \A u \in executor'[q].running : Fresh(u) \/ UpToDate(u, store')
  <2>1. CASE q = p
    BY <1>1, <1>5, <1>6, <1>11, <1>12, <2>1 DEF OneLeader
  <2>2. CASE q # p
    BY <1>6, <1>11, <1>12, <2>2 DEF OneLeader, Todo
  <2> QED
    BY <2>1, <2>2
<1> QED
  BY <1>7, <1>9, <1>11, <1>15, <1>16, <1>17 DEF OneLeader

(* The other steps leave executors and store alone, and nobody else        *)
(* executes without an election.                                           *)
LEMMA OthersAtomic ==
    ASSUME Atomic, UNCHANGED <<setting, executor, executed, store>>,
           \/ UNCHANGED <<elections, executesAs>>
           \/ elections' = elections + 1 /\ \E p \in Peers : executesAs' = [executesAs EXCEPT ![p] = TRUE]
           \/ UNCHANGED elections /\ \E p \in Peers : executesAs' = [executesAs EXCEPT ![p] = FALSE]
    PROVE  Atomic'
<1>1. elections \in Nat /\ elections' \in Nat /\ DOMAIN executesAs' = Peers
  BY DEF Atomic
<1>2. SUFFICES ASSUME elections' = 0 PROVE OneLeader'
  BY <1>1 DEF Atomic
<1>3. elections = 0 /\ OneLeader
  BY <1>1, <1>2 DEF Atomic
<1>4. ASSUME NEW q \in Peers, executesAs'[q] PROVE q = setting.leader
  <2>1. executesAs[q]
    BY <1>1, <1>2, <1>4 DEF Atomic
  <2> QED
    BY <1>3, <2>1 DEF OneLeader
<1> QED
  BY <1>3, <1>4 DEF OneLeader

(* Every step keeps it.                                                    *)
LEMMA AtomicStep == Inv /\ Atomic /\ [Next]_vars => Atomic'
<1> SUFFICES ASSUME Inv, Atomic, [Next]_vars PROVE Atomic'
  OBVIOUS
<1> DEFINE Same == UNCHANGED <<setting, elections, executesAs, executor, executed, store>>
<1>1. setting.peers \subseteq Peers
  BY GridAssumption DEF Inv
<1>2. CASE UNCHANGED vars
  <2>1. Same
    BY <1>2 DEF vars, remote, raft
  <2> QED
    BY <2>1, OthersAtomic
<1>3. ASSUME NEW p \in Peers, NEW o, Invoke(p, o) PROVE Atomic'
  <2>1. Same
    BY <1>3 DEF Invoke, remote
  <2> QED
    BY <2>1, OthersAtomic
<1>4. ASSUME NEW id, Expire(id) PROVE Atomic'
  <2>1. Same
    BY <1>4 DEF Expire, remote, raft
  <2> QED
    BY <2>1, OthersAtomic
<1>5. ASSUME NEW m, \/ ReceiveSubmit(m) \/ ReceiveSubmitResponse(m) \/ ReceiveOngoing(m)
                    \/ ReceiveResponse(m) \/ Lose(m)
      PROVE  Atomic'
  <2>1. Same
    BY <1>5 DEF ReceiveSubmit, ReceiveSubmitResponse, ReceiveOngoing, ReceiveResponse, Lose, remote, raft
  <2> QED
    BY <2>1, OthersAtomic
<1>6. ASSUME NEW p \in Peers, Notify(p) \/ Close(p) PROVE Atomic'
  <2>1. Same
    BY <1>6 DEF Notify, Close, remote, raft
  <2> QED
    BY <2>1, OthersAtomic
<1>7. ASSUME NEW p \in Peers, Elect(p) PROVE Atomic'
  <2>1. /\ UNCHANGED <<setting, executor, executed, store>>
        /\ elections' = elections + 1 /\ executesAs' = [executesAs EXCEPT ![p] = TRUE]
    BY <1>7 DEF Elect
  <2> QED
    BY <2>1, OthersAtomic
<1>8. ASSUME NEW p \in Peers, LearnLeader(p) PROVE Atomic'
  <2>1. /\ UNCHANGED <<setting, executor, executed, store, elections>>
        /\ executesAs' = [executesAs EXCEPT ![p] = FALSE]
    BY <1>8 DEF LearnLeader
  <2> QED
    BY <2>1, OthersAtomic
<1>9. ASSUME NEW p \in Peers,
             Commit(p) \/ ReadExternal(p) \/ WriteExternal(p) \/ FailExternal(p)
      PROVE  Atomic'
  BY <1>9, CommitAtomic, ReadAtomic, WriteAtomic, FailAtomic
<1> QED
  BY <1>1, <1>2, <1>3, <1>4, <1>5, <1>6, <1>7, <1>8, <1>9 DEF Next

(* So it holds in every state.                                             *)
LEMMA AtomicAlways == Spec => [](Inv /\ Atomic)
<1>1. Init => Inv /\ Atomic
  BY InitOK, InitAtomic
<1>2. Inv /\ Atomic /\ [Next]_vars => (Inv /\ Atomic)'
  BY NextOK, AtomicStep
<1> QED
  BY <1>1, <1>2, PTL DEF Spec

(* Before the first election after the start, requests on the external map *)
(* are atomic, although each takes up to two asynchronous calls: every     *)
(* answer is what the request gets if the executed ones run one by one.    *)
THEOREM AtomicUnderOneLeader == Spec => []ExecutesAtOnce
<1>1. Inv /\ Atomic => ExecutesAtOnce
  <2> SUFFICES ASSUME Inv, Atomic, elections = 0, NEW i \in DOMAIN executed
               PROVE  executed[i].answer = AtOnce(StoreAfter(i - 1), executed[i].entry).answer
    BY DEF ExecutesAtOnce
  <2>1. i \in 1 .. Len(executed)
    BY DEF Inv
  <2>2. StoreAfter(i - 1) = StoreIn(executed, i - 1)
    BY DEF StoreAfter, StoreIn
  <2> QED
    BY <2>1, <2>2 DEF Atomic, OneLeader
<1> QED
  BY <1>1, AtomicAlways, PTL

-----------------------------------------------------------------------------
(* Lists of the elements of a set.                                         *)

\* s has the elements of S, each once.
Lists(s, S) ==
    /\ s \in Seq(S)
    /\ \A x \in S : \E i \in 1 .. Len(s) : s[i] = x
    /\ \A i, j \in 1 .. Len(s) : s[i] = s[j] => i = j

(* Encoded keys are the keys, each once.                                   *)
LEMMA ListOfSet == ASSUME NEW S, IsFiniteSet(S) PROVE Lists(Codec!encodeKeys(S), S)
<1>1. PICK n : n = Cardinality(S)
  OBVIOUS
<1>2. n \in Nat /\ ExistsBijection(1 .. n, S)
  BY <1>1, FS_CardinalityType
<1>3. PICK f \in [1 .. n -> S] : (\A a, b \in 1 .. n : f[a] = f[b] => a = b) /\ \A x \in S : \E i \in 1 .. n : f[i] = x
  BY <1>2 DEF ExistsBijection, Bijection, Injection, Surjection, IsInjective
<1>4. Codec!Sequence!IsInjective(f)
  BY <1>3 DEF Codec!Sequence!IsInjective
<1>5. PICK s : s = Codec!Sequence!SetToSeq(S)
  OBVIOUS
<1>6. s \in [1 .. n -> S] /\ Codec!Sequence!IsInjective(s)
  <2>1. Codec!Sequence!Cardinality(S) = n
    BY <1>1 DEF Codec!Sequence!Cardinality, Cardinality
  <2>2. s = CHOOSE g \in [1 .. n -> S] : Codec!Sequence!IsInjective(g)
    BY <1>5, <2>1 DEF Codec!Sequence!SetToSeq
  <2> QED
    BY <1>4, <2>2, Zenon
<1>7. s \in Seq(S) /\ Len(s) = n /\ \A i, j \in 1 .. Len(s) : s[i] = s[j] => i = j
  BY <1>2, <1>6 DEF Codec!Sequence!IsInjective
<1>8. \A x \in S : \E i \in 1 .. n : s[i] = x
  <2>1. {s[i] : i \in 1 .. n} = S
    <3>1. ExistsBijection(1 .. n, {s[i] : i \in 1 .. n})
      <4>1. s \in Bijection(1 .. n, {s[i] : i \in 1 .. n})
        BY <1>2, <1>6 DEF Bijection, Injection, Surjection, IsInjective, Codec!Sequence!IsInjective
      <4> QED
        BY <4>1 DEF ExistsBijection
    <3>2. Cardinality({s[i] : i \in 1 .. n}) = n
      BY <1>2, <3>1, FS_CountingElements
    <3>3. {s[i] : i \in 1 .. n} \subseteq S
      BY <1>6
    <3> QED
      BY <1>1, <3>2, <3>3, FS_Subset
  <2> QED
    BY <2>1
<1> QED
  BY <1>5, <1>7, <1>8 DEF Lists, Codec!encodeKeys

(* Decoded again, they are the keys.                                       *)
LEMMA KeysBack ==
    ASSUME NEW S, IsFiniteSet(S) PROVE Codec!decodeKeys(Codec!encodeKeys(S)) = S
<1>1. PICK s : s = Codec!encodeKeys(S)
  OBVIOUS
<1>2. s \in Seq(S) /\ \A x \in S : \E i \in 1 .. Len(s) : s[i] = x
  BY <1>1, ListOfSet DEF Lists
<1>3. DOMAIN s = 1 .. Len(s) /\ \A i \in 1 .. Len(s) : s[i] \in S
  BY <1>2
<1> QED
  BY <1>1, <1>2, <1>3 DEF Codec!decodeKeys

\* A map, as the lists of its keys and of their values
ListsMap(e, m) ==
    /\ e = [keys |-> e.keys, values |-> e.values]
    /\ Lists(e.keys, DOMAIN m)
    /\ e.values \in Seq({m[x] : x \in DOMAIN m}) /\ Len(e.values) = Len(e.keys)
    /\ \A i \in 1 .. Len(e.keys) : e.values[i] = m[e.keys[i]]

(* Encoded entries are the keys and their values, in the same order.       *)
LEMMA ListsOfMap == ASSUME NEW m, IsMap(m) PROVE ListsMap(Codec!encodeEntries(m), m)
<1>1. PICK s : s = Codec!encodeKeys(DOMAIN m)
  OBVIOUS
<1>2. Lists(s, DOMAIN m)
  BY <1>1, ListOfSet DEF IsMap
<1>3. DOMAIN s = 1 .. Len(s) /\ Len(s) \in Nat /\ \A i \in 1 .. Len(s) : s[i] \in DOMAIN m
  BY <1>2 DEF Lists
<1>4. PICK v : v = [i \in 1 .. Len(s) |-> m[s[i]]]
  OBVIOUS
<1>5. v \in Seq({m[x] : x \in DOMAIN m}) /\ Len(v) = Len(s)
  BY <1>3, <1>4
<1>6. PICK e : e = [keys |-> s, values |-> v]
  OBVIOUS
<1>7. Codec!encodeEntries(m) = e
  BY <1>1, <1>3, <1>4, <1>6 DEF Codec!encodeEntries, Codec!encodeKeys
<1> QED
  BY <1>2, <1>4, <1>5, <1>6, <1>7 DEF ListsMap

(* Decoded again, they are the entries.                                    *)
LEMMA MapBack ==
    ASSUME NEW m, IsMap(m), NEW e, ListsMap(e, m)
    PROVE  Codec!decodeEntries(e.keys, e.values) = m
<1>1. PICK n, s, v : n = Len(e.keys) /\ s = e.keys /\ v = e.values
  OBVIOUS
<1>2. /\ s \in Seq(DOMAIN m) /\ n = Len(s) /\ Len(v) = n /\ n \in Nat
      /\ \A x \in DOMAIN m : \E i \in 1 .. n : s[i] = x
      /\ \A i, j \in 1 .. n : s[i] = s[j] => i = j
      /\ \A i \in 1 .. n : v[i] = m[s[i]]
  BY <1>1 DEF ListsMap, Lists
<1> DEFINE z == IF Len(s) < Len(v) THEN Len(s) ELSE Len(v)
           last(x) == CHOOSE i \in 1 .. z : s[i] = x /\ \A j \in i + 1 .. z : s[j] # x
<1>3. Codec!decodeEntries(s, v) = [x \in {s[i] : i \in 1 .. z} |-> v[last(x)]]
  BY DEF Codec!decodeEntries
<1>4. z = n
  BY <1>2
<1> HIDE DEF z
<1>5. {s[i] : i \in 1 .. z} = DOMAIN m
  <2>1. \A i \in 1 .. z : s[i] \in DOMAIN m
    BY <1>2, <1>4
  <2>2. \A x \in DOMAIN m : \E i \in 1 .. z : s[i] = x
    BY <1>2, <1>4
  <2> QED
    BY <2>1, <2>2
<1>6. ASSUME NEW x \in DOMAIN m PROVE v[last(x)] = m[x]
  <2>1. PICK i \in 1 .. z : s[i] = x
    BY <1>2, <1>4
  <2>2. \A j \in i + 1 .. z : s[j] # x
    BY <1>2, <1>4, <2>1
  <2>3. last(x) \in 1 .. z /\ s[last(x)] = x
    BY <2>1, <2>2
  <2> HIDE DEF last
  <2> QED
    BY <1>2, <1>4, <2>3
<1> HIDE DEF last
<1>7. m = [x \in DOMAIN m |-> m[x]]
  BY DEF IsMap
<1>8. [x \in DOMAIN m |-> v[last(x)]] = [x \in DOMAIN m |-> m[x]]
  BY <1>6
<1>9. Codec!decodeEntries(s, v) = [x \in DOMAIN m |-> v[last(x)]]
  BY <1>3, <1>5
<1> QED
  BY <1>1, <1>7, <1>8, <1>9

-----------------------------------------------------------------------------
(* A message of a collection.                                              *)

IsMessage(m) ==
    /\ m.type \in DOMAIN Codec!Classes /\ m.kind \in DOMAIN Codec!Classes[m.type]
    /\ m = [f \in {"type", "kind"} \cup Codec!Classes[m.type][m.kind] |-> m[f]]
    /\ "keys" \in DOMAIN m => IsFiniteSet(m.keys)
    /\ "entries" \in DOMAIN m => IsMap(m.entries)

FieldsOK(fields) ==
    /\ fields \cap {"type", "kind", "values"} = {}
    /\ ~("keys" \in fields /\ "entries" \in fields)

\* No class of messages has both keys and entries, so the lists cannot be confused.
LEMMA ClassesOK ==
    \A t \in DOMAIN Codec!Classes : \A x \in DOMAIN Codec!Classes[t] : FieldsOK(Codec!Classes[t][x])
<1> SUFFICES ASSUME NEW t \in DOMAIN Codec!Classes, NEW x \in DOMAIN Codec!Classes[t]
             PROVE  FieldsOK(Codec!Classes[t][x])
  OBVIOUS
<1> USE DEF Codec!Classes, FieldsOK
<1>1. CASE t = "ClearEntries"
  BY <1>1 DEF Codec!ClearEntries
<1>2. CASE t = "GetEntries"
  BY <1>2 DEF Codec!GetEntries
<1>3. CASE t = "GetSize"
  BY <1>3 DEF Codec!GetSize
<1>4. CASE t = "GetKeys"
  BY <1>4 DEF Codec!GetKeys
<1>5. CASE t = "DeleteEntries"
  BY <1>5 DEF Codec!DeleteEntries
<1>6. CASE t = "RemoveEntries"
  BY <1>6 DEF Codec!RemoveEntries
<1>7. CASE t = "EntriesRemoved"
  BY <1>7 DEF Codec!EntriesRemoved
<1>8. CASE t = "InsertEntries"
  BY <1>8 DEF Codec!InsertEntries
<1>9. CASE t = "EntriesInserted"
  BY <1>9 DEF Codec!EntriesInserted
<1>10. CASE t = "UpdateEntries"
  BY <1>10 DEF Codec!UpdateEntries
<1>11. CASE t = "EntryUpdated"
  BY <1>11 DEF Codec!EntryUpdated
<1>12. CASE t = "StorageHello"
  BY <1>12 DEF Codec!StorageHello
<1>13. CASE t = "StorageState"
  BY <1>13 DEF Codec!StorageState
<1>14. CASE t = "StorageAppliedCommit"
  BY <1>14 DEF Codec!StorageAppliedCommit
<1> QED
  BY <1>1, <1>2, <1>3, <1>4, <1>5, <1>6, <1>7, <1>8, <1>9, <1>10, <1>11, <1>12, <1>13, <1>14

\* j has the fields of f and of g.
Joins(j, f, g) ==
    /\ DOMAIN j = DOMAIN f \cup DOMAIN g
    /\ \A x \in DOMAIN f : j[x] = f[x]
    /\ \A x \in DOMAIN g : x \notin DOMAIN f => j[x] = g[x]
    /\ j = [x \in DOMAIN j |-> j[x]]

(* The fields of two records; where both have one, that of the first.      *)
LEMMA JoinedIs == ASSUME NEW f, NEW g PROVE Joins(Codec!Joined(f, g), f, g)
  BY DEF Joins, Codec!Joined

\* The lists of a HamokMessage, by the fields of what it stands for
CarriedBy(m, fields, e) ==
    /\ "keys" \in fields => e.keys = Codec!encodeKeys(m.keys)
    /\ "entries" \in fields => e.keys = Codec!encodeEntries(m.entries).keys /\ e.values = Codec!encodeEntries(m.entries).values
    /\ "keys" \notin fields /\ "entries" \notin fields => e.keys = <<>> /\ e.values = <<>>
    /\ "keys" \in fields => e.values = <<>>

\* What is in a field when it arrives
Sent(m, f) == IF f = "snapshot" /\ m[f] \in Falsy THEN Nil ELSE m[f]

(* What a message is encoded to.                                           *)
LEMMA EncodedIs ==
    ASSUME NEW m, NEW as, NEW fields, fields = Codec!Classes[m.type][m.kind], FieldsOK(fields)
    PROVE  LET e == Codec!Encoded(m, as)
           IN  /\ e.type = as /\ e.kind = m.kind /\ CarriedBy(m, fields, e)
               /\ \A f \in fields \ Codec!Lists : e[f] = Sent(m, f)
<1>1. PICK e : e = Codec!Encoded(m, as)
  OBVIOUS
<1>2. PICK l : l = IF "keys" \in fields THEN [keys |-> Codec!encodeKeys(m.keys), values |-> <<>>]
                   ELSE IF "entries" \in fields THEN Codec!encodeEntries(m.entries)
                   ELSE [keys |-> <<>>, values |-> <<>>]
  OBVIOUS
<1>3. PICK h : h = [f \in fields \ Codec!Lists |-> Sent(m, f)]
  OBVIOUS
<1>4. PICK t : t = [type |-> as, kind |-> m.kind]
  OBVIOUS
<1>5. e = Codec!Joined(t, Codec!Joined(l, h))
  BY <1>1, <1>2, <1>3, <1>4 DEF Codec!Encoded, Sent
<1>6. DOMAIN l = {"keys", "values"} /\ CarriedBy(m, fields, l)
  BY <1>2 DEF CarriedBy, FieldsOK, Codec!encodeEntries
<1>7. PICK j : j = Codec!Joined(l, h)
  OBVIOUS
<1>j. Joins(j, l, h) /\ Joins(e, t, j)
  BY <1>5, <1>7, JoinedIs
<1>8. /\ DOMAIN j = {"keys", "values"} \cup (fields \ Codec!Lists)
      /\ j.keys = l.keys /\ j.values = l.values
      /\ \A f \in fields \ Codec!Lists : j[f] = Sent(m, f)
  <2>1. /\ DOMAIN h = fields \ Codec!Lists /\ \A f \in fields \ Codec!Lists : h[f] = Sent(m, f)
        /\ \A f \in fields \ Codec!Lists : f \notin {"keys", "values", "type", "kind"}
    BY <1>3 DEF FieldsOK, Codec!Lists
  <2>2. /\ DOMAIN j = DOMAIN l \cup DOMAIN h
        /\ \A x \in DOMAIN l : j[x] = l[x]
        /\ \A x \in DOMAIN h : x \notin DOMAIN l => j[x] = h[x]
    BY <1>j DEF Joins
  <2> QED
    BY <1>6, <2>1, <2>2
<1>9. /\ e.type = as /\ e.kind = m.kind /\ e.keys = l.keys /\ e.values = l.values
      /\ \A f \in fields \ Codec!Lists : e[f] = Sent(m, f)
  <2>1. /\ DOMAIN t = {"type", "kind"} /\ t.type = as /\ t.kind = m.kind
        /\ \A f \in fields \ Codec!Lists : f \notin {"type", "kind"}
    BY <1>4 DEF FieldsOK, Codec!Lists
  <2>2. /\ \A x \in DOMAIN t : e[x] = t[x]
        /\ \A x \in DOMAIN j : x \notin DOMAIN t => e[x] = j[x]
    BY <1>j DEF Joins
  <2>3. \A x \in {"type", "kind"} : e[x] = t[x]
    BY <2>1, <2>2
  <2>4. \A x \in {"keys", "values"} : e[x] = l[x]
    BY <1>8, <2>1, <2>2
  <2>5. \A f \in fields \ Codec!Lists : e[f] = Sent(m, f)
    BY <1>8, <2>1, <2>2
  <2> QED
    BY <2>1, <2>3, <2>4, <2>5
<1> QED
  BY <1>1, <1>6, <1>9 DEF CarriedBy

\* As whom a message arrives
As(m) == IF m.type = "RemoveEntries" /\ m.kind = "Notification" THEN "DeleteEntries" ELSE m.type

\* Messages that are encoded as those of another class have the same fields.
LEMMA AsOK ==
    ASSUME NEW m, IsMessage(m) PROVE Codec!Classes[As(m)][m.kind] = Codec!Classes[m.type][m.kind]
  BY DEF As, Codec!Classes, Codec!RemoveEntries, Codec!DeleteEntries

(* A message of a collection reaches the handlers as it was sent, whatever *)
(* the number of its keys or entries; a snapshot that counts as false is   *)
(* as if there were none, and encode takes a notification to remove        *)
(* entries for one to delete them.                                         *)
THEOREM StorageMessagesSurvive ==
    ASSUME NEW m, IsMessage(m)
    PROVE  Codec!decode(Codec!encode(m)) =
                [f \in DOMAIN m |-> IF f = "type" THEN As(m) ELSE Sent(m, f)]
<1>1. PICK fields : fields = Codec!Classes[m.type][m.kind]
  OBVIOUS
<1>2. FieldsOK(fields) /\ DOMAIN m = {"type", "kind"} \cup fields
  BY <1>1, ClassesOK DEF IsMessage
<1>3. PICK e : e = Codec!encode(m)
  OBVIOUS
<1>4. e = Codec!Encoded(m, As(m))
  BY <1>3 DEF Codec!encode, As
<1>5. /\ e.type = As(m) /\ e.kind = m.kind /\ CarriedBy(m, fields, e)
      /\ \A f \in fields \ Codec!Lists : e[f] = Sent(m, f)
  BY <1>1, <1>2, <1>4, EncodedIs
<1>6. Codec!Classes[e.type][e.kind] = fields
  BY <1>1, <1>5, AsOK
<1>7. PICK l : l = IF "keys" \in fields THEN [keys |-> Codec!decodeKeys(e.keys)]
                   ELSE IF "entries" \in fields THEN [entries |-> Codec!decodeEntries(e.keys, e.values)]
                   ELSE [f \in {} |-> Nil]
  OBVIOUS
<1>8. PICK h : h = [f \in {"type", "kind"} \cup (fields \ Codec!Lists) |-> e[f]]
  OBVIOUS
<1>9. Codec!decode(e) = Codec!Joined(h, l)
  BY <1>6, <1>7, <1>8 DEF Codec!decode
<1>10. DOMAIN l = fields \cap Codec!Lists
  BY <1>2, <1>7 DEF Codec!Lists, FieldsOK
<1>11. ASSUME "keys" \in fields PROVE l.keys = m.keys
  <2>1. IsFiniteSet(m.keys)
    BY <1>2, <1>11 DEF IsMessage
  <2> QED
    BY <1>5, <1>7, <1>11, <2>1, KeysBack DEF CarriedBy
<1>12. ASSUME "entries" \in fields PROVE l.entries = m.entries
  <2>1. PICK a : a = Codec!encodeEntries(m.entries)
    OBVIOUS
  <2>2. IsMap(m.entries) /\ ListsMap(a, m.entries)
    BY <1>2, <1>12, <2>1, ListsOfMap DEF IsMessage
  <2>3. e.keys = a.keys /\ e.values = a.values
    BY <1>5, <1>12, <2>1 DEF CarriedBy
  <2>4. Codec!decodeEntries(e.keys, e.values) = m.entries
    BY <2>2, <2>3, MapBack
  <2> QED
    BY <1>2, <1>7, <1>12, <2>4 DEF FieldsOK
<1>13. PICK d : d = Codec!decode(e)
  OBVIOUS
<1>j. Joins(d, h, l)
  BY <1>9, <1>13, JoinedIs
<1>14. DOMAIN d = DOMAIN m /\ d = [f \in DOMAIN d |-> d[f]]
  <2>1. DOMAIN h \cup DOMAIN l = DOMAIN m
    BY <1>2, <1>8, <1>10 DEF Codec!Lists
  <2> QED
    BY <1>j, <2>1 DEF Joins
<1>15. /\ d.type = As(m) /\ d.kind = m.kind
       /\ \A f \in fields \ Codec!Lists : d[f] = Sent(m, f)
  <2>1. \A x \in DOMAIN h : d[x] = h[x]
    BY <1>j DEF Joins
  <2>2. \A x \in {"type", "kind"} \cup (fields \ Codec!Lists) : d[x] = e[x]
    BY <1>8, <2>1
  <2>3. d["type"] = e["type"] /\ d["kind"] = e["kind"]
    BY <2>2
  <2> QED
    BY <1>5, <2>2, <2>3
<1>16. \A f \in fields \cap Codec!Lists : d[f] = m[f]
  <2>1. \A f \in fields \cap Codec!Lists : d[f] = l[f]
    <3>1. \A f \in fields \cap Codec!Lists : f \in DOMAIN l /\ f \notin DOMAIN h
      BY <1>2, <1>8, <1>10 DEF FieldsOK
    <3> QED
      BY <1>j, <3>1 DEF Joins
  <2> QED
    BY <1>11, <1>12, <2>1 DEF Codec!Lists
<1>17. \A f \in DOMAIN m : d[f] = IF f = "type" THEN As(m) ELSE Sent(m, f)
  <2> SUFFICES ASSUME NEW f \in DOMAIN m PROVE d[f] = IF f = "type" THEN As(m) ELSE Sent(m, f)
    OBVIOUS
  <2>1. CASE f \in {"type", "kind"}
    BY <1>15, <2>1 DEF Sent
  <2>2. CASE f \in fields \ Codec!Lists
    BY <1>2, <1>15, <2>2 DEF FieldsOK
  <2>3. CASE f \in fields \cap Codec!Lists
    BY <1>16, <2>3 DEF Sent, Codec!Lists
  <2> QED
    BY <1>2, <2>1, <2>2, <2>3
<1>18. d = [f \in DOMAIN m |-> IF f = "type" THEN As(m) ELSE Sent(m, f)]
  BY <1>14, <1>17
<1> QED
  BY <1>3, <1>13, <1>18

MapRequests == {"ClearEntries", "DeleteEntries", "RemoveEntries", "InsertEntries", "UpdateEntries"}

\* A request that the map can execute
Executable(r) ==
    /\ r.type \in MapRequests
    /\ r.type \in {"InsertEntries", "UpdateEntries"} => IsMap(r.entries)

(* What requests on the map and their responses carry.                     *)
LEMMA RequestClasses ==
    \A t \in MapRequests :
        /\ t \in DOMAIN Codec!Classes /\ {"Request", "Response"} \subseteq DOMAIN Codec!Classes[t]
        /\ {"requestId", "sourceId"} \subseteq Codec!Classes[t].Request
        /\ "kind" \notin Codec!Classes[t].Request /\ "type" \notin Codec!Classes[t].Request
        /\ t \in {"InsertEntries", "UpdateEntries"} => "entries" \in Codec!Classes[t].Request
        /\ t = "ClearEntries" => Codec!Classes[t].Response = {"requestId", "destinationId"}
        /\ t = "DeleteEntries" => Codec!Classes[t].Response = {"requestId", "keys", "destinationId"}
        /\ t \in {"RemoveEntries", "InsertEntries", "UpdateEntries"} => Codec!Classes[t].Response = {"requestId", "entries", "destinationId"}
<1> USE DEF Codec!Classes
<1> SUFFICES ASSUME NEW t \in MapRequests
             PROVE
        /\ t \in DOMAIN Codec!Classes /\ {"Request", "Response"} \subseteq DOMAIN Codec!Classes[t]
        /\ {"requestId", "sourceId"} \subseteq Codec!Classes[t].Request
        /\ "kind" \notin Codec!Classes[t].Request /\ "type" \notin Codec!Classes[t].Request
        /\ t \in {"InsertEntries", "UpdateEntries"} => "entries" \in Codec!Classes[t].Request
        /\ t = "ClearEntries" => Codec!Classes[t].Response = {"requestId", "destinationId"}
        /\ t = "DeleteEntries" => Codec!Classes[t].Response = {"requestId", "keys", "destinationId"}
        /\ t \in {"RemoveEntries", "InsertEntries", "UpdateEntries"} => Codec!Classes[t].Response = {"requestId", "entries", "destinationId"}
  OBVIOUS
<1>1. CASE t = "ClearEntries"
  BY <1>1 DEF Codec!ClearEntries
<1>2. CASE t = "DeleteEntries"
  BY <1>2 DEF Codec!DeleteEntries
<1>3. CASE t = "RemoveEntries"
  BY <1>3 DEF Codec!RemoveEntries
<1>4. CASE t = "InsertEntries"
  BY <1>4 DEF Codec!InsertEntries
<1>5. CASE t = "UpdateEntries"
  BY <1>5 DEF Codec!UpdateEntries
<1> QED
  BY <1>1, <1>2, <1>3, <1>4, <1>5 DEF MapRequests

(* The handler gets the request that the caller made.                       *)
LEMMA DecodedOK ==
    ASSUME NEW o \in Operations, NEW c \in Calls, NEW p \in Peers
    PROVE  Executable(Decoded[<<o, c, p>>]) /\ Decoded[<<o, c, p>>].type = o.type
<1>1. IsRequest(o) /\ o.type \in MapRequests
  BY GridAssumption DEF Operations, IsRequest, MapRequests
<1>2. PICK F : F = Codec!Classes[o.type].Request
  OBVIOUS
<1>3. PICK h : h = [kind |-> "Request", requestId |-> StorageId(c), sourceId |-> p]
  OBVIOUS
<1>4. PICK m : m = Codec!Joined(h, o)
  OBVIOUS
<1>5. Joins(m, h, o)
  BY <1>4, JoinedIs
<1>6. /\ DOMAIN o = {"type"} \cup (F \ {"requestId", "sourceId"}) /\ {"requestId", "sourceId"} \subseteq F
      /\ "kind" \notin F /\ "type" \notin F
      /\ o.type \in {"InsertEntries", "UpdateEntries"} => "entries" \in F
  BY <1>1, <1>2, RequestClasses DEF IsRequest
<1>7. /\ DOMAIN m = {"type", "kind"} \cup F
      /\ m.kind = "Request" /\ m = [f \in DOMAIN m |-> m[f]]
      /\ \A f \in DOMAIN o : m[f] = o[f]
  <2>1. DOMAIN h = {"kind", "requestId", "sourceId"} /\ h.kind = "Request"
    BY <1>3
  <2>2. \A f \in DOMAIN o : f \notin DOMAIN h
    BY <1>6, <2>1
  <2> QED
    BY <1>5, <1>6, <2>1, <2>2 DEF Joins
<1>8. m.type = o.type /\ "type" \in DOMAIN o
  BY <1>6, <1>7
<1>9. /\ "keys" \in F => "keys" \in DOMAIN o /\ m.keys = o.keys
      /\ "entries" \in F => "entries" \in DOMAIN o /\ m.entries = o.entries
  BY <1>6, <1>7
<1>10. IsMessage(m)
  <2>1. "keys" \in DOMAIN m => IsFiniteSet(m.keys)
    BY <1>1, <1>7, <1>9 DEF IsRequest
  <2>2. "entries" \in DOMAIN m => IsMap(m.entries)
    BY <1>1, <1>7, <1>9 DEF IsRequest
  <2>3. m.type \in DOMAIN Codec!Classes /\ m.kind \in DOMAIN Codec!Classes[m.type]
    BY <1>1, <1>7, <1>8, RequestClasses
  <2>4. Codec!Classes[m.type][m.kind] = F
    BY <1>2, <1>7, <1>8
  <2> QED
    BY <1>7, <2>1, <2>2, <2>3, <2>4 DEF IsMessage
<1>11. PICK r : r = Codec!decode(Codec!encode(m))
  OBVIOUS
<1>12. Decoded[<<o, c, p>>] = r
  BY <1>3, <1>4, <1>11 DEF Decoded
<1>13. r = [f \in DOMAIN m |-> IF f = "type" THEN As(m) ELSE Sent(m, f)]
  BY <1>10, <1>11, StorageMessagesSurvive
<1>14. r.type = o.type
  BY <1>7, <1>8, <1>13 DEF As
<1>15. "entries" \in F => r.entries = m.entries
  BY <1>7, <1>13 DEF Sent
<1> QED
  BY <1>1, <1>6, <1>9, <1>12, <1>14, <1>15 DEF Executable, IsRequest

-----------------------------------------------------------------------------
(* Execution works on maps.                                                *)

\* An answer to a request of this type
AnswerOK(type, answer) == IsMap(answer) /\ (type = "ClearEntries" => answer = NoEntries)

(* Operations on finite maps give finite maps.                             *)
LEMMA MapsOK ==
    ASSUME NEW s, IsMap(s)
    PROVE  /\ \A keys : IsMap(Only(s, keys)) /\ IsMap(Without(s, keys))
           /\ \A m : IsMap(m) => IsMap(setAll(s, m))
           /\ IsMap(NoEntries)
<1>1. ASSUME NEW keys PROVE IsMap(Only(s, keys)) /\ IsMap(Without(s, keys))
  <2>1. IsFiniteSet(DOMAIN s \cap keys) /\ IsFiniteSet(DOMAIN s \ keys)
    BY FS_Subset DEF IsMap
  <2> QED
    BY <2>1 DEF IsMap, Only, Without
<1>2. ASSUME NEW m, IsMap(m) PROVE IsMap(setAll(s, m))
  <2>1. IsFiniteSet(DOMAIN s \cup DOMAIN m)
    BY <1>2, FS_Union DEF IsMap
  <2> QED
    BY <2>1 DEF IsMap, setAll
<1>3. IsMap(NoEntries)
  BY FS_EmptySet DEF IsMap, NoEntries
<1> QED
  BY <1>1, <1>2, <1>3

(* What a task writes and answers is a finite map.                         *)
LEMMA WriteData ==
    ASSUME NEW s, IsMap(s), NEW t, Executable(t.entry.request), IsMap(t.read)
    PROVE  IsMap(Write(s, t).store) /\ AnswerOK(t.entry.request.type, Write(s, t).answer)
<1>1. PICK r : r = t.entry.request
  OBVIOUS
<1>2. CASE r.type = "ClearEntries"
  BY <1>1, <1>2, MapsOK DEF Write, ClearEntries, AnswerOK
<1>3. CASE r.type = "DeleteEntries"
  BY <1>1, <1>3, MapsOK DEF Write, DeleteEntries, AnswerOK
<1>4. CASE r.type = "RemoveEntries"
  BY <1>1, <1>4, MapsOK DEF Write, RemoveEntries, DeleteEntries, AnswerOK
<1>5. CASE r.type = "InsertEntries"
  BY <1>1, <1>5, MapsOK DEF Write, InsertEntries, AnswerOK, Executable
<1>6. CASE r.type = "UpdateEntries"
  <2>1. Write(s, t) = UpdateEntries(s, t)
    BY <1>1, <1>6 DEF Write
  <2>2. IsMap(r.entries)
    BY <1>1, <1>6 DEF Executable
  <2>3. \/ UpdateEntries(s, t) = [store |-> setAll(s, r.entries), answer |-> Only(s, DOMAIN r.entries)]
        \/ UpdateEntries(s, t) = [store |-> setAll(s, r.entries), answer |-> t.read]
        \/ UpdateEntries(s, t) = [store |-> s, answer |-> NoEntries]
    BY <1>1 DEF UpdateEntries
  <2> QED
    BY <1>1, <1>6, <2>1, <2>2, <2>3, MapsOK DEF AnswerOK
<1> QED
  BY <1>1, <1>2, <1>3, <1>4, <1>5, <1>6 DEF Executable, MapRequests

-----------------------------------------------------------------------------
(* The answer in lists, and back.                                          *)

\* What a response holds in its lists
InLists(f, type, answer) ==
    /\ f = [keys |-> f.keys, values |-> f.values]
    /\ \E S : f.keys \in Seq(S)
    /\ \E S : f.values \in Seq(S)
    /\ Len(f.values) = 0 \/ Len(f.values) = Len(f.keys)
    /\ type = "DeleteEntries" => Codec!decodeKeys(f.keys) = DOMAIN answer
    /\ type # "ClearEntries" /\ type # "DeleteEntries" => Codec!decodeEntries(f.keys, f.values) = answer

\* The lists of a response
ListsOf(response) == [keys |-> response.keys, values |-> response.values]

(* The response to an executed request holds its answer in its lists.      *)
LEMMA ResponseLists ==
    ASSUME NEW r, Executable(r), NEW answer, AnswerOK(r.type, answer)
    PROVE  InLists(ListsOf(Response(r, answer)), r.type, answer)
<1>1. PICK data, fields : data = Payload(r, answer) /\ fields = Codec!Classes[r.type].Response
  OBVIOUS
<1>2. PICK m : m = Codec!createResponse(r, data)
  OBVIOUS
<1>3. PICK h, d : /\ h = [type |-> r.type, kind |-> "Response", requestId |-> r.requestId,
                          destinationId |-> r.sourceId]
                  /\ d = [f \in fields \cap (Codec!Lists \cup {"storageSize"}) |-> data]
  OBVIOUS
<1>4. Joins(m, h, d)
  <2>1. m = Codec!Joined(h, d)
    BY <1>1, <1>2, <1>3 DEF Codec!createResponse
  <2> QED
    BY <2>1, JoinedIs
<1>5. m.type = r.type /\ m.kind = "Response"
  <2>1. DOMAIN h = {"type", "kind", "requestId", "destinationId"} /\ h["type"] = r.type /\ h["kind"] = "Response"
    BY <1>3
  <2>2. m["type"] = h["type"] /\ m["kind"] = h["kind"]
    BY <1>4, <2>1 DEF Joins
  <2> QED
    BY <2>1, <2>2
<1>6. /\ "keys" \in fields => m.keys = data
      /\ "entries" \in fields => m.entries = data
  <2>1. \A f \in fields \cap Codec!Lists : f \in DOMAIN d /\ f \notin DOMAIN h /\ d[f] = data
    BY <1>3 DEF Codec!Lists
  <2>2. \A f \in fields \cap Codec!Lists : m[f] = data
    BY <1>4, <2>1 DEF Joins
  <2> QED
    BY <2>2 DEF Codec!Lists
<1>7. r.type \in MapRequests
  BY DEF Executable
<1>8. FieldsOK(fields) /\ fields = Codec!Classes[m.type][m.kind]
  BY <1>1, <1>5, <1>7, RequestClasses, ClassesOK
<1>9. PICK e : e = Response(r, answer)
  OBVIOUS
<1>10. CarriedBy(m, fields, e)
  <2>1. e = Codec!Encoded(m, m.type)
    BY <1>1, <1>2, <1>5, <1>9 DEF Response, Codec!encode
  <2> QED
    BY <1>8, <2>1, EncodedIs
<1>11. PICK f : f = ListsOf(e)
  OBVIOUS
<1>12. f = [keys |-> f.keys, values |-> f.values] /\ f.keys = e.keys /\ f.values = e.values
  BY <1>11 DEF ListsOf
<1>13. <<>> \in Seq({}) /\ Len(<<>>) = 0
  OBVIOUS
<1>14. CASE r.type = "ClearEntries"
  <2>1. e.keys = <<>> /\ e.values = <<>>
    BY <1>1, <1>7, <1>10, <1>14, RequestClasses DEF CarriedBy
  <2> QED
    BY <1>9, <1>11, <1>12, <1>13, <1>14, <2>1 DEF InLists
<1>15. CASE r.type = "DeleteEntries"
  <2>1. "keys" \in fields
    BY <1>1, <1>7, <1>15, RequestClasses
  <2>2. data = DOMAIN answer /\ IsFiniteSet(data)
    BY <1>1, <1>15 DEF Payload, AnswerOK, IsMap
  <2>3. e.keys = Codec!encodeKeys(data) /\ e.values = <<>>
    BY <1>6, <1>10, <2>1 DEF CarriedBy
  <2>4. Codec!decodeKeys(e.keys) = data /\ Lists(e.keys, data)
    BY <2>2, <2>3, KeysBack, ListOfSet
  <2> QED
    BY <1>9, <1>11, <1>12, <1>13, <1>15, <2>2, <2>3, <2>4 DEF InLists, Lists
<1>16. CASE r.type \in {"RemoveEntries", "InsertEntries", "UpdateEntries"}
  <2>1. "entries" \in fields
    BY <1>1, <1>7, <1>16, RequestClasses
  <2>2. data = answer /\ IsMap(data)
    BY <1>1, <1>16 DEF Payload, AnswerOK
  <2>3. PICK a : a = Codec!encodeEntries(data)
    OBVIOUS
  <2>4. e.keys = a.keys /\ e.values = a.values
    BY <1>6, <1>10, <2>1, <2>3 DEF CarriedBy
  <2>5. ListsMap(a, data)
    BY <2>2, <2>3, ListsOfMap
  <2>6. Codec!decodeEntries(a.keys, a.values) = data
    BY <2>2, <2>5, MapBack
  <2>7. /\ a.keys \in Seq(DOMAIN data) /\ a.values \in Seq({data[x] : x \in DOMAIN data})
        /\ Len(a.values) = Len(a.keys)
    BY <2>5 DEF ListsMap, Lists
  <2> QED
    BY <1>9, <1>11, <1>12, <1>16, <2>2, <2>4, <2>6, <2>7 DEF InLists
<1> QED
  BY <1>7, <1>14, <1>15, <1>16 DEF MapRequests

(* What the caller decodes is what was answered.                           *)
LEMMA AnswerBack ==
    ASSUME NEW f, NEW type, NEW answer, InLists(f, type, answer), AnswerOK(type, answer),
           type \in MapRequests, NEW request, request.type = type
    PROVE  Answer(request, f) = Payload(request, answer)
<1>1. CASE type = "ClearEntries"
  BY <1>1 DEF Answer, Payload, AnswerOK
<1>2. CASE type = "DeleteEntries"
  BY <1>2 DEF Answer, Payload, InLists
<1>3. CASE type \in {"RemoveEntries", "InsertEntries", "UpdateEntries"}
  BY <1>3 DEF Answer, Payload, InLists
<1> QED
  BY <1>1, <1>2, <1>3 DEF MapRequests

-----------------------------------------------------------------------------
(* Cutting.                                                                *)

\* How many chunks
Number(n, size) == (n + size - 1) \div size

\* The number of chunks: all but the last end before the end of the list.
LEMMA NumberOK ==
    ASSUME NEW n \in Nat, NEW size \in Nat \ {0}, size < n
    PROVE  LET N == Number(n, size)
           IN  /\ N \in Nat /\ N >= 2
               /\ \A j \in 0 .. N - 1 :
                    /\ j * size \in Nat /\ (j + 1) * size = j * size + size
                    /\ j * size < n
                    /\ (j + 1) * size >= n <=> j = N - 1
<1>1. PICK N, a : N = Number(n, size) /\ a = n + size - 1
  OBVIOUS
<1>2. N \in Int /\ a \in Nat /\ size * N <= a /\ a < size * N + size
  BY <1>1 DEF Number
<1>3. N >= 2
  <2> SUFFICES ASSUME N <= 1 PROVE FALSE
    BY <1>2
  <2>1. size * N <= size
    <3>1. (1 - N) * size >= 0
      BY <1>2
    <3> QED
      BY <1>2, <3>1
  <2> QED
    BY <1>1, <1>2, <2>1
<1>4. ASSUME NEW j \in 0 .. N - 1
      PROVE  /\ j * size \in Nat /\ (j + 1) * size = j * size + size
             /\ j * size < n
             /\ (j + 1) * size >= n <=> j = N - 1
  <2>1. j \in Nat /\ j <= N - 1
    BY <1>2, <1>4
  <2>2. j * size \in Nat /\ (j + 1) * size = j * size + size
    BY <2>1
  <2>3. (N - 1 - j) * size \in Nat /\ (N - 1 - j) * size = N * size - size - j * size
    BY <1>2, <2>1
  <2>4. j * size <= N * size - size
    BY <1>2, <2>2, <2>3
  <2>5. j * size < n
    BY <1>1, <1>2, <2>2, <2>4
  <2>6. j = N - 1 => (j + 1) * size >= n
    BY <1>1, <1>2, <2>2, <2>3
  <2>7. ASSUME j < N - 1 PROVE (j + 1) * size < n
    <3>1. N - 2 - j \in Nat /\ (N - 2 - j) * size \in Nat /\ (N - 2 - j) * size = N * size - size - size - j * size
      BY <1>2, <2>1, <2>7
    <3> QED
      BY <1>1, <1>2, <2>2, <3>1
  <2> QED
    BY <1>2, <2>1, <2>2, <2>5, <2>6, <2>7
<1> QED
  BY <1>1, <1>2, <1>3, <1>4

\* Lists as a response may have them
HasLists(e) ==
    /\ \E S : e.keys \in Seq(S)
    /\ \E S : e.values \in Seq(S)
    /\ Len(e.values) = 0 \/ Len(e.values) = Len(e.keys)

Until(s, size, j) == IF (j + 1) * size < Len(s) THEN (j + 1) * size ELSE Len(s)
Slice(s, size, j) == SubSeq(s, j * size + 1, Until(s, size, j))
Upto(s, size, j) == SubSeq(s, 1, Until(s, size, j))

\* The response e was cut into N chunks.
Cut(e, size, N, chunks) ==
    /\ HasLists(e) /\ size \in Nat \ {0} /\ size < Len(e.keys)
    /\ N \in Nat /\ N >= 2 /\ N = Number(Len(e.keys), size)
    /\ chunks = [i \in 1 .. N |-> chunks[i]]
    /\ \A i \in 1 .. N :
        /\ chunks[i].sequence = i - 1
        /\ chunks[i].lastMessage = (i = N)
        /\ chunks[i].keys = Slice(e.keys, size, i - 1)
        /\ chunks[i].values = Slice(e.values, size, i - 1)

(* A response is sent whole, or cut into chunks that follow each other.    *)
LEMMA ApplyIs ==
    ASSUME NEW e, HasLists(e), NEW size \in Nat
    PROVE  \/ Chunker!apply(e, size, size) = <<Chunker!Whole(e)>>
           \/ \E N : Cut(e, size, N, Chunker!apply(e, size, size))
<1>1. PICK n, v : n = Len(e.keys) /\ v = Len(e.values)
  OBVIOUS
<1>2. n \in Nat /\ v \in Nat /\ (v = 0 \/ v = n)
  BY <1>1 DEF HasLists
<1>3. PICK c : c = Chunker!apply(e, size, size)
  OBVIOUS
<1>4. CASE size = 0 \/ n <= size
  <2>1. c = <<Chunker!Whole(e)>>
    <3>1. CASE size = 0
      BY <1>3, <3>1 DEF Chunker!apply
    <3>2. CASE n < 1
      BY <1>1, <1>3, <3>2 DEF Chunker!apply
    <3>3. CASE v < 1 /\ n <= size
      BY <1>1, <1>3, <3>3 DEF Chunker!apply
    <3>4. CASE v >= 1 /\ n <= size /\ v <= size
      BY <1>1, <1>3, <3>4 DEF Chunker!apply
    <3> QED
      BY <1>2, <1>4, <3>1, <3>2, <3>3, <3>4
  <2> QED
    BY <1>3, <2>1
<1>5. CASE size # 0 /\ ~(n <= size)
  <2>1. size >= 1 /\ size < n /\ size \in Nat \ {0}
    BY <1>2, <1>5
  <2>2. c = Chunker!ChunkBy(e, size, n)
    <3>1. CASE v = 0
      BY <1>1, <1>2, <1>3, <2>1, <3>1 DEF Chunker!apply, Chunker!_chunkByKeys
    <3>2. CASE v = n /\ v # 0
      BY <1>1, <1>2, <1>3, <2>1, <3>2 DEF Chunker!apply, Chunker!_chunkByEntries
    <3> QED
      BY <1>2, <3>1, <3>2
  <2>3. PICK N : N = Number(n, size)
    OBVIOUS
  <2>4. /\ N \in Nat /\ N >= 2
        /\ \A j \in 0 .. N - 1 : (j + 1) * size >= n <=> j = N - 1
    BY <1>2, <2>1, <2>3, NumberOK
  <2>5. c = [j \in 1 .. N |-> Chunker!Chunk(e, size, j - 1)]
    BY <2>2, <2>3 DEF Chunker!ChunkBy, Number
  <2>6. ASSUME NEW i \in 1 .. N
        PROVE  /\ c[i].sequence = i - 1
               /\ c[i].lastMessage = (i = N)
               /\ c[i].keys = Slice(e.keys, size, i - 1)
               /\ c[i].values = Slice(e.values, size, i - 1)
    <3>1. PICK j : j = i - 1
      OBVIOUS
    <3>2. j \in 0 .. N - 1 /\ (j = N - 1 <=> i = N)
      BY <2>4, <2>6, <3>1
    <3>3. c[i] = Chunker!Chunk(e, size, j)
      BY <2>5, <3>1
    <3>4. c[i] = [keys |-> Slice(e.keys, size, j), values |-> Slice(e.values, size, j),
                  sequence |-> j, lastMessage |-> (j + 1) * size >= n]
      BY <1>1, <3>3 DEF Chunker!Chunk, Slice, Until
    <3>5. ((j + 1) * size >= n) = (i = N)
      BY <2>4, <3>2
    <3>6. c[i].lastMessage = (i = N)
      BY <3>4, <3>5
    <3> QED
      BY <3>1, <3>4, <3>6
  <2>7. Cut(e, size, N, c)
    <3>1. c = [i \in 1 .. N |-> c[i]]
      BY <2>5
    <3> QED
      BY <1>1, <2>1, <2>3, <2>4, <2>6, <3>1 DEF Cut
  <2> QED
    BY <1>3, <2>7
<1> QED
  BY <1>4, <1>5

(* The slices of a list, one after the other, are the list.                *)
LEMMA SlicesJoin ==
    ASSUME NEW e, NEW size, NEW N, NEW chunks, Cut(e, size, N, chunks),
           NEW S, NEW s \in Seq(S), Len(s) = 0 \/ Len(s) = Len(e.keys)
    PROVE  /\ Slice(s, size, 0) = Upto(s, size, 0)
           /\ \A j \in 1 .. N - 1 : Upto(s, size, j - 1) \o Slice(s, size, j) = Upto(s, size, j)
           /\ Upto(s, size, N - 1) = s
<1>1. PICK n : n = Len(e.keys)
  OBVIOUS
<1>2. /\ size \in Nat \ {0} /\ size < n /\ N \in Nat /\ N >= 2 /\ N = Number(n, size) /\ n \in Nat
  BY <1>1 DEF Cut, HasLists
<1>3. \A j \in 0 .. N - 1 :
        /\ j * size \in Nat /\ (j + 1) * size = j * size + size
        /\ j * size < n
        /\ (j + 1) * size >= n <=> j = N - 1
  BY <1>2, NumberOK
<1>4. Slice(s, size, 0) = Upto(s, size, 0)
  <2>1. 0 * size + 1 = 1
    BY <1>2
  <2> QED
    BY <2>1 DEF Slice, Upto
<1>5. CASE Len(s) = 0
  <2>1. s = <<>>
    BY <1>5
  <2>2. ASSUME NEW j \in 0 .. N - 1 PROVE Slice(s, size, j) = <<>> /\ Upto(s, size, j) = <<>>
    <3>1. Until(s, size, j) = 0
      BY <1>2, <1>3, <1>5 DEF Until
    <3>2. j * size + 1 \in Int /\ 0 < j * size + 1
      BY <1>3
    <3>3. SubSeq(s, j * size + 1, 0) = <<>> /\ SubSeq(s, 1, 0) = <<>>
      BY <3>2, SubSeqEmpty
    <3> QED
      BY <3>1, <3>3 DEF Slice, Upto
  <2>3. ASSUME NEW j \in 1 .. N - 1 PROVE Upto(s, size, j - 1) \o Slice(s, size, j) = Upto(s, size, j)
    <3>1. j \in 0 .. N - 1 /\ j - 1 \in 0 .. N - 1
      BY <1>2
    <3>2. Upto(s, size, j - 1) = <<>> /\ Slice(s, size, j) = <<>> /\ Upto(s, size, j) = <<>>
      BY <2>2, <3>1
    <3>3. <<>> \o <<>> = <<>>
      OBVIOUS
    <3> QED
      BY <3>2, <3>3
  <2>4. Upto(s, size, N - 1) = s
    BY <1>2, <2>1, <2>2
  <2> QED
    BY <1>4, <2>3, <2>4
<1>6. CASE Len(s) = n
  <2>1. ASSUME NEW j \in 1 .. N - 1 PROVE Upto(s, size, j - 1) \o Slice(s, size, j) = Upto(s, size, j)
    <3>1. j \in 0 .. N - 1 /\ j - 1 \in 0 .. N - 1 /\ (j - 1) + 1 = j /\ j \in Nat
      BY <1>2
    <3>2. PICK k, z : k = j * size /\ z = Until(s, size, j)
      OBVIOUS
    <3>3. k \in Nat /\ k < n /\ (j + 1) * size = k + size
      BY <1>3, <3>1, <3>2
    <3>4. Until(s, size, j - 1) = k
      BY <1>6, <3>1, <3>2, <3>3 DEF Until
    <3>5. z \in k .. n
      BY <1>2, <1>6, <3>2, <3>3 DEF Until
    <3>6. SubSeq(s, 1, k) \o SubSeq(s, k + 1, z) = SubSeq(s, 1, z)
      <4>1. 1 \in 1 .. Len(s) + 1 /\ k \in 1 - 1 .. Len(s) /\ z \in k .. Len(s)
        BY <1>2, <1>6, <3>3, <3>5
      <4> QED
        BY <4>1, ConcatAdjacentSubSeq
    <3> QED
      BY <3>2, <3>4, <3>6 DEF Slice, Upto
  <2>2. Upto(s, size, N - 1) = s
    <3>1. N - 1 \in 0 .. N - 1 /\ (N - 1) * size \in Nat /\ ((N - 1) + 1) * size >= n
      BY <1>2, <1>3
    <3>2. PICK a : a = ((N - 1) + 1) * size
      OBVIOUS
    <3>3. a \in Int
      BY <1>2, <3>2
    <3>4. Until(s, size, N - 1) = n
      BY <1>2, <1>6, <3>1, <3>2, <3>3 DEF Until
    <3> QED
      BY <1>6, <3>4, SubSeqFull DEF Upto
  <2> QED
    BY <1>4, <2>1, <2>2
<1> QED
  BY <1>1, <1>5, <1>6

-----------------------------------------------------------------------------
(* Putting together.                                                       *)

\* What got has of the response that was cut into chunks
Gathers(got, N, chunks) ==
    /\ got = [messages |-> got.messages, endSeq |-> got.endSeq]
    /\ got.messages \subseteq {chunks[i] : i \in 1 .. N}
    /\ got.endSeq \in {-1, N - 1}

(* At first no chunk is there.                                             *)
LEMMA GathersNothing == ASSUME NEW N, NEW chunks PROVE Gathers(Chunker!NoChunks, N, chunks)
  BY DEF Gathers, Chunker!NoChunks

(* A chunk more, maybe one that was there.                                 *)
LEMMA GathersOneMore ==
    ASSUME NEW e, NEW size, NEW N, NEW chunks, Cut(e, size, N, chunks),
           NEW got, Gathers(got, N, chunks), NEW i \in 1 .. N
    PROVE  Gathers(Chunker!acceptChunk(got, chunks[i]), N, chunks)
<1>1. PICK r, x : r = chunks[i] /\ x = Chunker!acceptChunk(got, r)
  OBVIOUS
<1>2. r.sequence = i - 1 /\ r.lastMessage = (i = N)
  BY <1>1 DEF Cut
<1>3. /\ x = [messages |-> x.messages, endSeq |-> x.endSeq]
      /\ x.messages = {m \in got.messages : m.sequence # r.sequence} \cup {r}
      /\ x.endSeq = IF r.lastMessage THEN r.sequence ELSE got.endSeq
  BY <1>1 DEF Chunker!acceptChunk
<1>4. x.messages \subseteq {chunks[j] : j \in 1 .. N}
  BY <1>1, <1>3 DEF Gathers
<1>5. x.endSeq \in {-1, N - 1}
  BY <1>2, <1>3 DEF Gathers
<1> QED
  BY <1>1, <1>3, <1>4, <1>5 DEF Gathers

(* The number of the last chunk and as many chunks: they are all there.     *)
LEMMA AllGathered ==
    ASSUME NEW e, NEW size, NEW N, NEW chunks, Cut(e, size, N, chunks),
           NEW got, Gathers(got, N, chunks), Chunker!isAssembled(got)
    PROVE  got.endSeq = N - 1 /\ got.messages = {chunks[i] : i \in 1 .. N}
<1>1. got.endSeq = N - 1 /\ Cardinality(got.messages) = N /\ N \in Nat
  <2>1. Chunker!Cardinality(got.messages) = Cardinality(got.messages)
    BY DEF Chunker!Cardinality, Cardinality
  <2>2. got.endSeq >= 0 /\ Cardinality(got.messages) = got.endSeq + 1
    BY <2>1 DEF Chunker!isAssembled
  <2> QED
    BY <2>2 DEF Gathers, Cut
<1>2. PICK all : all = {chunks[i] : i \in 1 .. N}
  OBVIOUS
<1>3. Cardinality(all) = N /\ IsFiniteSet(all)
  <2>1. chunks \in Bijection(1 .. N, all)
    <3>1. chunks \in [1 .. N -> all]
      BY <1>2 DEF Cut
    <3>2. \A a, b \in 1 .. N : chunks[a] = chunks[b] => a = b
      <4> SUFFICES ASSUME NEW a \in 1 .. N, NEW b \in 1 .. N, chunks[a] = chunks[b] PROVE a = b
        OBVIOUS
      <4>1. chunks[a].sequence = a - 1 /\ chunks[b].sequence = b - 1
        BY DEF Cut
      <4>2. a - 1 = b - 1
        BY <4>1
      <4> QED
        BY <1>1, <4>2
    <3>3. \A x \in all : \E a \in 1 .. N : chunks[a] = x
      BY <1>2
    <3> QED
      BY <3>1, <3>2, <3>3 DEF Bijection, Injection, Surjection, IsInjective
  <2>2. ExistsBijection(1 .. N, all)
    BY <2>1 DEF ExistsBijection
  <2> QED
    BY <1>1, <2>2, FS_CountingElements, FS_NatBijection
<1>4. got.messages = all
  <2>1. got.messages \in SUBSET all
    BY <1>2 DEF Gathers
  <2> QED
    BY <1>1, <1>3, <2>1, FS_Subset
<1> QED
  BY <1>1, <1>2, <1>4

\* Chunk number n of those in got, or nothing
PartIn(got, n, f) ==
    IF {m \in got.messages : m.sequence = n} = {} THEN <<>>
    ELSE (CHOOSE m \in {m \in got.messages : m.sequence = n} : TRUE)[f]

\* The chunks one after the other
InOneList(got, f) ==
    LET upTo[n \in 0 .. got.endSeq] ==
            IF n = 0 THEN PartIn(got, 0, f) ELSE upTo[n - 1] \o PartIn(got, n, f)
    IN  upTo[got.endSeq]

(* When all chunks are there, the part with number n is the n-th chunk.    *)
LEMMA PartIs ==
    ASSUME NEW e, NEW size, NEW N, NEW chunks, Cut(e, size, N, chunks),
           NEW got, got.messages = {chunks[i] : i \in 1 .. N}, NEW n \in 0 .. N - 1, NEW f
    PROVE  PartIn(got, n, f) = chunks[n + 1][f]
<1>1. n + 1 \in 1 .. N /\ N \in Nat
  BY DEF Cut
<1>2. {m \in got.messages : m.sequence = n} = {chunks[n + 1]}
  <2>1. chunks[n + 1].sequence = n
    <3>1. chunks[n + 1].sequence = (n + 1) - 1
      BY <1>1 DEF Cut
    <3> QED
      BY <3>1
  <2>2. ASSUME NEW i \in 1 .. N, chunks[i].sequence = n PROVE i = n + 1
    <3>1. i - 1 = n
      BY <2>2 DEF Cut
    <3> QED
      BY <3>1
  <2> QED
    BY <1>1, <2>1, <2>2
<1> QED
  BY <1>2 DEF PartIn

(* Joined, the parts of a list are the list.                               *)
LEMMA ListIs ==
    ASSUME NEW e, NEW size, NEW N, NEW chunks, Cut(e, size, N, chunks),
           NEW got, got.messages = {chunks[i] : i \in 1 .. N}, got.endSeq = N - 1,
           NEW f, NEW S, NEW s \in Seq(S), Len(s) = 0 \/ Len(s) = Len(e.keys),
           \A i \in 1 .. N : chunks[i][f] = Slice(s, size, i - 1)
    PROVE  InOneList(got, f) = s
<1>1. N \in Nat /\ N >= 2
  BY DEF Cut
<1>2. \A n \in 0 .. N - 1 : PartIn(got, n, f) = Slice(s, size, n)
  <2> SUFFICES ASSUME NEW n \in 0 .. N - 1 PROVE PartIn(got, n, f) = Slice(s, size, n)
    OBVIOUS
  <2>1. n + 1 \in 1 .. N /\ (n + 1) - 1 = n
    BY <1>1
  <2>2. PartIn(got, n, f) = chunks[n + 1][f]
    BY PartIs
  <2> QED
    BY <2>1, <2>2
<1>3. /\ Slice(s, size, 0) = Upto(s, size, 0)
      /\ \A j \in 1 .. N - 1 : Upto(s, size, j - 1) \o Slice(s, size, j) = Upto(s, size, j)
      /\ Upto(s, size, N - 1) = s
  BY SlicesJoin
<1> DEFINE Sums(h) == h = [n \in 0 .. got.endSeq |->
                IF n = 0 THEN PartIn(got, 0, f) ELSE h[n - 1] \o PartIn(got, n, f)]
<1>4. \E h : Sums(h)
  <2> DEFINE h == [n \in 0 .. got.endSeq |-> Upto(s, size, n)]
  <2>1. ASSUME NEW n \in 0 .. got.endSeq
        PROVE  h[n] = IF n = 0 THEN PartIn(got, 0, f) ELSE h[n - 1] \o PartIn(got, n, f)
    <3>1. CASE n = 0
      <4>1. h[0] = Upto(s, size, 0) /\ 0 \in 0 .. N - 1
        BY <1>1, <3>1
      <4> HIDE DEF h
      <4> QED
        BY <1>2, <1>3, <3>1, <4>1
    <3>2. CASE n # 0
      <4>1. n \in 1 .. N - 1 /\ n \in 0 .. N - 1 /\ n - 1 \in 0 .. N - 1
        BY <1>1, <3>2
      <4>2. h[n] = Upto(s, size, n) /\ h[n - 1] = Upto(s, size, n - 1)
        BY <4>1
      <4> HIDE DEF h
      <4> QED
        BY <1>2, <1>3, <3>2, <4>1, <4>2
    <3> QED
      BY <3>1, <3>2
  <2>2. h = [n \in 0 .. got.endSeq |-> h[n]]
    OBVIOUS
  <2> HIDE DEF h
  <2>3. Sums(h)
    BY <2>1, <2>2
  <2> QED
    BY <2>3
<1>5. PICK h : h = CHOOSE x : Sums(x)
  OBVIOUS
<1>6. Sums(h)
  <2> HIDE DEF Sums
  <2> QED
    BY <1>4, <1>5
<1>7. InOneList(got, f) = h[got.endSeq]
  BY <1>5 DEF InOneList
<1> DEFINE A == {n \in Nat : n <= N - 1 => h[n] = Upto(s, size, n)}
<1>8. 0 \in A
  <2>1. h[0] = PartIn(got, 0, f) /\ 0 \in 0 .. N - 1
    BY <1>1, <1>6
  <2> QED
    BY <1>2, <1>3, <2>1
<1>9. ASSUME NEW n \in Nat, n \in A PROVE n + 1 \in A
  <2> SUFFICES ASSUME n + 1 <= N - 1 PROVE h[n + 1] = Upto(s, size, n + 1)
    OBVIOUS
  <2>1. n + 1 \in 0 .. N - 1 /\ n + 1 \in 1 .. N - 1 /\ n + 1 # 0 /\ (n + 1) - 1 = n /\ n + 1 \in 0 .. got.endSeq
    BY <1>1
  <2>2. h[n + 1] = h[n] \o PartIn(got, n + 1, f)
    BY <1>6, <2>1
  <2>3. h[n] = Upto(s, size, n)
    BY <1>1, <1>9, <2>1
  <2> QED
    BY <1>2, <1>3, <2>1, <2>2, <2>3
<1>10. N - 1 \in A
  <2>1. Nat \subseteq A
    <3> HIDE DEF A
    <3> QED
      BY <1>8, <1>9, UpFromZero
  <2> HIDE DEF A
  <2> QED
    BY <1>1, <2>1
<1> QED
  BY <1>1, <1>3, <1>7, <1>10

(* An assembled response is the response that was cut.                      *)
LEMMA AssembledIs ==
    ASSUME NEW e, NEW size, NEW N, NEW chunks, Cut(e, size, N, chunks),
           NEW got, Gathers(got, N, chunks), Chunker!isAssembled(got)
    PROVE  Chunker!result(got) = ListsOf(e)
<1>1. got.endSeq = N - 1 /\ got.messages = {chunks[i] : i \in 1 .. N}
  BY AllGathered
<1>2. Chunker!result(got) = [keys |-> InOneList(got, "keys"), values |-> InOneList(got, "values")]
  BY DEF Chunker!result, InOneList, PartIn
<1>3. InOneList(got, "keys") = e.keys
  <2>1. PICK S : e.keys \in Seq(S)
    BY DEF Cut, HasLists
  <2>2. \A i \in 1 .. N : chunks[i]["keys"] = Slice(e.keys, size, i - 1)
    BY DEF Cut
  <2> QED
    BY <1>1, <2>1, <2>2, ListIs
<1>4. InOneList(got, "values") = e.values
  <2>1. PICK S : e.values \in Seq(S)
    BY DEF Cut, HasLists
  <2>2. \A i \in 1 .. N : chunks[i]["values"] = Slice(e.values, size, i - 1)
    BY DEF Cut
  <2>3. Len(e.values) = 0 \/ Len(e.values) = Len(e.keys)
    BY DEF Cut, HasLists
  <2> QED
    BY <1>1, <2>1, <2>2, <2>3, ListIs
<1> QED
  BY <1>2, <1>3, <1>4 DEF ListsOf

(* However the chunks of a response arrive, in any order, some of them     *)
(* more than once, the response that is assembled has its keys and values. *)
THEOREM ChunksAssemble ==
    ASSUME NEW e, HasLists(e), NEW size \in Nat,
           NEW chunks, chunks = Chunker!apply(e, size, size), Len(chunks) > 1,
           NEW arrived \in [Nat -> 1 .. Len(chunks)], NEW got,
           got[0] = Chunker!NoChunks,
           \A n \in Nat : got[n + 1] = Chunker!acceptChunk(got[n], chunks[arrived[n]]),
           NEW n \in Nat, Chunker!isAssembled(got[n])
    PROVE  Chunker!result(got[n]) = [keys |-> e.keys, values |-> e.values]
<1>1. PICK N : Cut(e, size, N, chunks)
  <2>1. PICK w : w = Chunker!Whole(e)
    OBVIOUS
  <2>2. Len(<<w>>) = 1
    OBVIOUS
  <2>3. ASSUME chunks = <<Chunker!Whole(e)>> PROVE FALSE
    <3>1. chunks = <<w>>
      BY <2>1, <2>3
    <3>2. Len(chunks) = 1
      BY <2>2, <3>1
    <3> QED
      BY <3>2
  <2>4. \/ Chunker!apply(e, size, size) = <<Chunker!Whole(e)>>
        \/ \E N : Cut(e, size, N, Chunker!apply(e, size, size))
    BY ApplyIs
  <2> QED
    BY <2>3, <2>4
<1>2. Len(chunks) = N
  BY <1>1 DEF Cut
<1> DEFINE A == {m \in Nat : Gathers(got[m], N, chunks)}
<1>3. 0 \in A
  BY GathersNothing
<1>4. ASSUME NEW m \in Nat, m \in A PROVE m + 1 \in A
  <2>1. arrived[m] \in 1 .. N
    BY <1>2
  <2>2. Gathers(Chunker!acceptChunk(got[m], chunks[arrived[m]]), N, chunks)
    BY <1>1, <1>4, <2>1, GathersOneMore
  <2> QED
    BY <2>2
<1>5. Nat \subseteq A
  <2> HIDE DEF A
  <2> QED
    BY <1>3, <1>4, UpFromZero
<1>6. Gathers(got[n], N, chunks)
  BY <1>5
<1>7. PICK x : x = got[n]
  OBVIOUS
<1>8. Chunker!isAssembled(x) /\ Gathers(x, N, chunks)
  BY <1>6, <1>7
<1>9. Chunker!result(x) = ListsOf(e)
  BY <1>1, <1>8, AssembledIs
<1> QED
  BY <1>7, <1>9 DEF ListsOf

-----------------------------------------------------------------------------
(* The messages between peers as such.                                      *)

IsGridMessage(m) ==
    /\ m.type \in DOMAIN GridCodec!Classes
    /\ m = [f \in {"type"} \cup GridCodec!Classes[m.type] |-> m[f]]
    /\ "requestIds" \in DOMAIN m => IsFiniteSet(m.requestIds)
    /\ "activeEndpointIds" \in DOMAIN m => m.activeEndpointIds = Nil \/ IsFiniteSet(m.activeEndpointIds)

\* What is in a field when it arrives
Arrived(m, f) ==
    CASE f \in {"snapshot", "customData"} -> IF GridCodec!Given(m[f]) THEN m[f] ELSE Nil
      [] f = "activeEndpointIds" -> IF m[f] = Nil THEN {} ELSE m[f]
      [] OTHER -> m[f]

(* A list of a set, read again.                                             *)
LEMMA SetBack ==
    ASSUME NEW S, IsFiniteSet(S)
    PROVE  GridCodec!Listed(GridCodec!Sequence!SetToSeq(S)) = S
<1>1. GridCodec!Sequence!SetToSeq(S) = Codec!encodeKeys(S)
  BY DEF GridCodec!Sequence!SetToSeq, Codec!encodeKeys, Codec!Sequence!SetToSeq,
         GridCodec!Sequence!IsInjective, Codec!Sequence!IsInjective,
         GridCodec!Sequence!Cardinality, Codec!Sequence!Cardinality, Cardinality
<1>2. \A list : GridCodec!Listed(list) = Codec!decodeKeys(list)
  BY DEF GridCodec!Listed, Codec!decodeKeys
<1> QED
  BY <1>1, <1>2, KeysBack

\* Each class, and the lists that its messages use
LEMMA GridClassesAre ==
    /\ DOMAIN GridCodec!Classes = {"Hello", "Join", "EndpointStates", "OngoingRequests",
                                   "SubmitRequest", "SubmitResponse"}
    /\ \A t \in DOMAIN GridCodec!Classes :
            /\ GridCodec!Classes[t] \cap {"type", "keys", "embeddedMessages"} = {}
            /\ "customData" \in GridCodec!Classes[t] => t = "Hello"
            /\ "requestIds" \in GridCodec!Classes[t] => t = "OngoingRequests"
            /\ t = "Hello" => "customData" \in GridCodec!Classes[t]
            /\ t = "OngoingRequests" => "requestIds" \in GridCodec!Classes[t]
  BY DEF GridCodec!Classes, GridCodec!Hello, GridCodec!Join, GridCodec!EndpointStates,
         GridCodec!OngoingRequests, GridCodec!SubmitRequest, GridCodec!SubmitResponse

\* e is what a message with these fields is encoded to.
GridEncoded(m, fields, e) ==
    /\ e.type = m.type
    /\ m.type = "Hello" => e.keys = IF GridCodec!Given(m.customData) THEN <<m.customData>> ELSE <<>>
    /\ m.type = "OngoingRequests" => e.keys = GridCodec!Sequence!SetToSeq(m.requestIds)
    /\ "entry" \in fields => e.embeddedMessages = <<m.entry>>
    /\ "activeEndpointIds" \in fields =>
            e.activeEndpointIds = IF m.activeEndpointIds = Nil THEN <<>>
                                  ELSE GridCodec!Sequence!SetToSeq(m.activeEndpointIds)
    /\ \A f \in fields \ {"customData", "requestIds", "entry", "activeEndpointIds"} : e[f] = Arrived(m, f)

(* What a message is encoded to.                                            *)
LEMMA GridEncodedIs ==
    ASSUME NEW m, IsGridMessage(m), NEW fields, fields = GridCodec!Classes[m.type],
           NEW e, e = GridCodec!encode(m)
    PROVE  GridEncoded(m, fields, e)
<1>1. fields \cap {"type", "keys", "embeddedMessages"} = {}
  BY GridClassesAre DEF IsGridMessage
<1> DEFINE field(f) == CASE f = "activeEndpointIds" ->
                                IF m[f] = Nil THEN <<>> ELSE GridCodec!Sequence!SetToSeq(m[f])
                         [] f = "snapshot" -> IF GridCodec!Given(m[f]) THEN m[f] ELSE Nil
                         [] OTHER -> m[f]
           keys == CASE m.type = "Hello" -> IF GridCodec!Given(m.customData) THEN <<m.customData>> ELSE <<>>
                     [] m.type = "OngoingRequests" -> GridCodec!Sequence!SetToSeq(m.requestIds)
                     [] OTHER -> <<>>
<1>2. PICK h : h = [type |-> m.type, keys |-> keys,
                    embeddedMessages |-> IF "entry" \in fields THEN <<m.entry>> ELSE <<>>]
  OBVIOUS
<1>3. PICK g : g = [f \in fields \ GridCodec!Named |-> field(f)]
  OBVIOUS
<1>4. e = GridCodec!Joined(h, g)
  BY <1>2, <1>3 DEF GridCodec!encode
<1>5. Joins(e, h, g)
  BY <1>4 DEF Joins, GridCodec!Joined
<1>6. DOMAIN h = {"type", "keys", "embeddedMessages"} /\ h.type = m.type /\ h.keys = keys
      /\ h.embeddedMessages = IF "entry" \in fields THEN <<m.entry>> ELSE <<>>
  BY <1>2
<1>7. e.type = h.type /\ e.keys = h.keys /\ e.embeddedMessages = h.embeddedMessages
  <2>1. \A x \in {"type", "keys", "embeddedMessages"} : e[x] = h[x]
    BY <1>5, <1>6 DEF Joins
  <2> QED
    BY <2>1
<1>8. \A f \in fields \ {"customData", "requestIds", "entry"} : e[f] = field(f)
  <2>1. \A f \in fields \ {"customData", "requestIds", "entry"} : f \in DOMAIN g /\ f \notin DOMAIN h
    BY <1>1, <1>3, <1>6 DEF GridCodec!Named
  <2>2. \A f \in fields \ {"customData", "requestIds", "entry"} : e[f] = g[f]
    BY <1>5, <2>1 DEF Joins
  <2> HIDE DEF field
  <2> QED
    BY <1>3, <2>1, <2>2
<1>9. m.type = "Hello" => keys = IF GridCodec!Given(m.customData) THEN <<m.customData>> ELSE <<>>
  OBVIOUS
<1>10. m.type = "OngoingRequests" => keys = GridCodec!Sequence!SetToSeq(m.requestIds)
  OBVIOUS
<1>11. "activeEndpointIds" \in fields =>
            e.activeEndpointIds = IF m.activeEndpointIds = Nil THEN <<>>
                                  ELSE GridCodec!Sequence!SetToSeq(m.activeEndpointIds)
  <2>1. field("activeEndpointIds") = IF m.activeEndpointIds = Nil THEN <<>>
                                  ELSE GridCodec!Sequence!SetToSeq(m.activeEndpointIds)
    OBVIOUS
  <2> HIDE DEF field
  <2> QED
    BY <1>8, <2>1
<1>12. \A f \in fields \ {"customData", "requestIds", "entry", "activeEndpointIds"} :
            e[f] = Arrived(m, f)
  <2> SUFFICES ASSUME NEW f \in fields \ {"customData", "requestIds", "entry", "activeEndpointIds"}
               PROVE  e[f] = Arrived(m, f)
    OBVIOUS
  <2>1. e[f] = field(f)
    BY <1>8
  <2> QED
    BY <2>1 DEF Arrived
<1> HIDE DEF keys, field
<1> QED
  BY <1>6, <1>7, <1>9, <1>10, <1>11, <1>12 DEF GridEncoded

(* A message between peers arrives as it was sent, with any data and any    *)
(* peers in it; custom data or a snapshot that counts as false is as if     *)
(* there were none, and no set of peers is an empty one.                    *)
THEOREM GridMessagesSurvive ==
    ASSUME NEW m, IsGridMessage(m)
    PROVE  GridCodec!decode(GridCodec!encode(m)) = [f \in DOMAIN m |-> Arrived(m, f)]
<1>1. PICK fields, e : fields = GridCodec!Classes[m.type] /\ e = GridCodec!encode(m)
  OBVIOUS
<1>2. GridEncoded(m, fields, e)
  BY <1>1, GridEncodedIs
<1>3. /\ DOMAIN m = {"type"} \cup fields /\ "type" \notin fields
      /\ "customData" \in fields => m.type = "Hello"
      /\ "requestIds" \in fields => m.type = "OngoingRequests"
  BY <1>1, GridClassesAre DEF IsGridMessage
<1> DEFINE field(f) == CASE f = "activeEndpointIds" -> GridCodec!Listed(e[f])
                         [] f = "customData" -> IF Len(e.keys) = 1 THEN e.keys[1] ELSE Nil
                         [] f = "requestIds" -> GridCodec!Listed(e.keys)
                         [] f = "entry" -> IF e.embeddedMessages = <<>> THEN Nil
                                           ELSE e.embeddedMessages[1]
                         [] OTHER -> e[f]
<1>4. PICK h, g : h = [type |-> e.type] /\ g = [f \in fields |-> field(f)]
  OBVIOUS
<1>5. GridCodec!decode(e) = GridCodec!Joined(h, g)
  <2>1. GridCodec!Classes[e.type] = fields
    BY <1>1, <1>2 DEF GridEncoded
  <2> QED
    BY <1>4, <2>1 DEF GridCodec!decode
<1>6. PICK d : d = GridCodec!decode(e)
  OBVIOUS
<1>7. Joins(d, h, g)
  BY <1>5, <1>6 DEF Joins, GridCodec!Joined
<1>8. \A f \in fields : field(f) = Arrived(m, f)
  <2> SUFFICES ASSUME NEW f \in fields PROVE field(f) = Arrived(m, f)
    OBVIOUS
  <2>1. CASE f = "activeEndpointIds"
    <3>1. e[f] = IF m[f] = Nil THEN <<>> ELSE GridCodec!Sequence!SetToSeq(m[f])
      BY <1>2, <2>1 DEF GridEncoded
    <3>2. m[f] = Nil \/ IsFiniteSet(m[f])
      BY <1>3, <2>1 DEF IsGridMessage
    <3>3. GridCodec!Listed(<<>>) = {}
      BY DEF GridCodec!Listed
    <3>4. field(f) = GridCodec!Listed(e[f])
      BY <2>1
    <3>5. Arrived(m, f) = IF m[f] = Nil THEN {} ELSE m[f]
      BY <2>1 DEF Arrived
    <3> HIDE DEF field
    <3> QED
      BY <3>1, <3>2, <3>3, <3>4, <3>5, SetBack
  <2>2. CASE f = "customData"
    <3>1. e.keys = IF GridCodec!Given(m[f]) THEN <<m[f]>> ELSE <<>>
      BY <1>2, <1>3, <2>2 DEF GridEncoded
    <3>2. field(f) = IF Len(e.keys) = 1 THEN e.keys[1] ELSE Nil
      BY <2>2
    <3>3. Arrived(m, f) = IF GridCodec!Given(m[f]) THEN m[f] ELSE Nil
      BY <2>2 DEF Arrived
    <3> HIDE DEF field
    <3>4. CASE GridCodec!Given(m[f])
      <4>1. Len(e.keys) = 1 /\ e.keys[1] = m[f]
        BY <3>1, <3>4
      <4> QED
        BY <3>2, <3>3, <3>4, <4>1
    <3>5. CASE ~GridCodec!Given(m[f])
      <4>1. Len(e.keys) = 0
        BY <3>1, <3>5
      <4> QED
        BY <3>2, <3>3, <3>5, <4>1
    <3> QED
      BY <3>4, <3>5
  <2>3. CASE f = "requestIds"
    <3>1. e.keys = GridCodec!Sequence!SetToSeq(m[f])
      BY <1>2, <1>3, <2>3 DEF GridEncoded
    <3>2. IsFiniteSet(m[f])
      BY <1>3, <2>3 DEF IsGridMessage
    <3>3. field(f) = GridCodec!Listed(e.keys)
      BY <2>3
    <3>4. Arrived(m, f) = m[f]
      BY <2>3 DEF Arrived
    <3> HIDE DEF field
    <3> QED
      BY <3>1, <3>2, <3>3, <3>4, SetBack
  <2>4. CASE f = "entry"
    <3>1. e.embeddedMessages = <<m[f]>>
      BY <1>2, <2>4 DEF GridEncoded
    <3>2. field(f) = IF e.embeddedMessages = <<>> THEN Nil ELSE e.embeddedMessages[1]
      BY <2>4
    <3>3. Arrived(m, f) = m[f]
      BY <2>4 DEF Arrived
    <3> HIDE DEF field
    <3> QED
      BY <3>1, <3>2, <3>3
  <2>5. CASE f \notin {"activeEndpointIds", "customData", "requestIds", "entry"}
    <3>1. field(f) = e[f]
      BY <2>5
    <3> HIDE DEF field
    <3> QED
      BY <1>2, <2>5, <3>1 DEF GridEncoded
  <2> HIDE DEF field
  <2> QED
    BY <2>1, <2>2, <2>3, <2>4, <2>5
<1> HIDE DEF field
<1>9. DOMAIN d = DOMAIN m /\ d = [f \in DOMAIN m |-> d[f]]
  BY <1>3, <1>4, <1>7 DEF Joins
<1>10. \A f \in DOMAIN m : d[f] = Arrived(m, f)
  <2>1. \A f \in DOMAIN h : d[f] = h[f]
    BY <1>7 DEF Joins
  <2>2. DOMAIN h = {"type"} /\ h["type"] = m["type"]
    BY <1>2, <1>4 DEF GridEncoded
  <2>3. d["type"] = m["type"]
    BY <2>1, <2>2
  <2>4. Arrived(m, "type") = m["type"]
    BY DEF Arrived
  <2>5. \A f \in fields : d[f] = g[f]
    BY <1>3, <1>4, <1>7, <2>2 DEF Joins
  <2>6. \A f \in fields : d[f] = Arrived(m, f)
    BY <1>4, <1>8, <2>5
  <2> QED
    BY <1>3, <2>3, <2>4, <2>6
<1> QED
  BY <1>1, <1>6, <1>9, <1>10

-----------------------------------------------------------------------------
(* The messages that the run tries.                                        *)

\* Step by step, the records with the first n of the fields in list.
Stages(list, tags, s, n) ==
    s = [i \in 0 .. n |-> IF i = 0 THEN {tags} ELSE Extended(s[i - 1], list[i])]

(* The recursive definition has a solution.                                *)
LEMMA StagesExist ==
    ASSUME NEW list, NEW tags, NEW n \in Nat
    PROVE  \E s : Stages(list, tags, s, n)
<1> DEFINE S == {m \in Nat : \E s : Stages(list, tags, s, m)}
<1>1. 0 \in S
  <2> DEFINE s == [i \in 0 .. 0 |-> {tags}]
  <2>1. Stages(list, tags, s, 0)
    BY DEF Stages
  <2> QED
    BY <2>1
<1>2. ASSUME NEW m \in Nat, m \in S PROVE m + 1 \in S
  <2>1. PICK s : Stages(list, tags, s, m)
    BY <1>2
  <2> DEFINE g == [i \in 0 .. m + 1 |-> IF i = m + 1 THEN Extended(s[m], list[m + 1]) ELSE s[i]]
  <2>2. ASSUME NEW i \in 0 .. m + 1
        PROVE  g[i] = IF i = 0 THEN {tags} ELSE Extended(g[i - 1], list[i])
    <3>1. CASE i = m + 1
      <4>1. m + 1 # 0 /\ m \in 0 .. m + 1 /\ m # m + 1 /\ (m + 1) - 1 = m
        OBVIOUS
      <4>2. g[m + 1] = Extended(s[m], list[m + 1]) /\ g[m] = s[m]
        BY <4>1
      <4> HIDE DEF g
      <4> QED
        BY <3>1, <4>1, <4>2
    <3>2. CASE i \in 0 .. m
      <4>1. g[i] = s[i] /\ (i # 0 => g[i - 1] = s[i - 1])
        BY <3>2
      <4>2. s[i] = IF i = 0 THEN {tags} ELSE Extended(s[i - 1], list[i])
        BY <2>1, <3>2 DEF Stages
      <4> HIDE DEF g
      <4> QED
        BY <4>1, <4>2
    <3> QED
      BY <3>1, <3>2
  <2>3. g = [i \in 0 .. m + 1 |-> g[i]]
    OBVIOUS
  <2> HIDE DEF g
  <2>4. Stages(list, tags, g, m + 1)
    BY <2>2, <2>3 DEF Stages
  <2> QED
    BY <2>4
<1> HIDE DEF S
<1>3. n \in S
  BY <1>1, <1>2, UpFromZero
<1> QED
  BY <1>3 DEF S

\* m has the fields F, with some of their values, besides what is in tags.
FilledOK(m, F, tags) ==
    /\ DOMAIN m = F \cup DOMAIN tags
    /\ m = [x \in DOMAIN m |-> m[x]]
    /\ \A x \in DOMAIN tags : m[x] = tags[x]
    /\ \A x \in F : m[x] \in ValuesOf(x)

(* One more field.                                                         *)
LEMMA ExtendedIs ==
    ASSUME NEW F, NEW tags, NEW messages, \A m \in messages : FilledOK(m, F, tags),
           NEW f, f \notin F, f \notin DOMAIN tags, NEW r \in Extended(messages, f)
    PROVE  FilledOK(r, F \cup {f}, tags)
<1>1. PICK m \in messages, v \in ValuesOf(f) : r = Joined(m, [x \in {f} |-> v])
  BY DEF Extended
<1>2. PICK g : g = [x \in {f} |-> v]
  OBVIOUS
<1>3. Joins(r, m, g)
  BY <1>1, <1>2 DEF Joins, Joined
<1>4. FilledOK(m, F, tags)
  OBVIOUS
<1>5. DOMAIN g = {f} /\ g[f] = v
  BY <1>2
<1>6. DOMAIN r = (F \cup {f}) \cup DOMAIN tags /\ r = [x \in DOMAIN r |-> r[x]]
  BY <1>3, <1>4, <1>5 DEF Joins, FilledOK
<1>7. \A x \in DOMAIN tags : r[x] = tags[x]
  BY <1>3, <1>4 DEF Joins, FilledOK
<1>8. \A x \in F : r[x] \in ValuesOf(x)
  BY <1>3, <1>4 DEF Joins, FilledOK
<1>9. r[f] \in ValuesOf(f)
  <2>1. f \notin DOMAIN m
    BY <1>4 DEF FilledOK
  <2>2. r[f] = v
    BY <1>3, <1>5, <2>1 DEF Joins
  <2> QED
    BY <2>2
<1> QED
  BY <1>6, <1>7, <1>8, <1>9 DEF FilledOK

(* The messages that are tried have their fields, with some values.        *)
LEMMA FilledIs ==
    ASSUME NEW F, IsFiniteSet(F), NEW tags, tags = [x \in DOMAIN tags |-> tags[x]],
           F \cap DOMAIN tags = {}, NEW m \in Filled(F, tags)
    PROVE  FilledOK(m, F, tags)
<1>1. PICK list : list = Codec!encodeKeys(F)
  OBVIOUS
<1>2. Lists(list, F)
  BY <1>1, ListOfSet
<1>3. Len(list) \in Nat /\ DOMAIN list = 1 .. Len(list) /\ \A i \in 1 .. Len(list) : list[i] \in F
  BY <1>2 DEF Lists
<1>4. PICK s : s = CHOOSE g : Stages(list, tags, g, Len(list))
  OBVIOUS
<1>5. Stages(list, tags, s, Len(list))
  BY <1>3, <1>4, StagesExist
<1>6. Filled(F, tags) = s[Len(list)]
  BY <1>1, <1>4 DEF Filled, Stages
<1> DEFINE first(i) == {list[j] : j \in 1 .. i}
           S == {i \in Nat : i <= Len(list) => \A r \in s[i] : FilledOK(r, first(i), tags)}
<1>7. 0 \in S
  <2>1. s[0] = {tags}
    BY <1>3, <1>5 DEF Stages
  <2>2. first(0) = {}
    OBVIOUS
  <2> HIDE DEF first
  <2> QED
    BY <2>1, <2>2 DEF FilledOK
<1>8. ASSUME NEW i \in Nat, i \in S PROVE i + 1 \in S
  <2> SUFFICES ASSUME i + 1 <= Len(list), NEW r \in s[i + 1]
               PROVE  FilledOK(r, first(i + 1), tags)
    OBVIOUS
  <2>1. i + 1 \in 0 .. Len(list) /\ i + 1 # 0 /\ (i + 1) - 1 = i /\ i <= Len(list)
    BY <1>3
  <2>2. s[i + 1] = Extended(s[i], list[i + 1])
    BY <1>5, <2>1 DEF Stages
  <2>3. \A q \in s[i] : FilledOK(q, first(i), tags)
    BY <1>8, <2>1
  <2>4. list[i + 1] \in F /\ list[i + 1] \notin DOMAIN tags
    BY <1>3
  <2>5. list[i + 1] \notin first(i)
    BY <1>2, <1>3 DEF Lists
  <2>6. first(i + 1) = first(i) \cup {list[i + 1]}
    OBVIOUS
  <2> HIDE DEF first, S
  <2>7. FilledOK(r, first(i) \cup {list[i + 1]}, tags)
    BY <2>2, <2>3, <2>4, <2>5, ExtendedIs
  <2> QED
    BY <2>6, <2>7
<1>9. Len(list) \in S
  <2> HIDE DEF S
  <2> QED
    BY <1>3, <1>7, <1>8, UpFromZero
<1>10. FilledOK(m, first(Len(list)), tags)
  BY <1>3, <1>6, <1>9
<1>11. first(Len(list)) = F
  BY <1>2, <1>3 DEF Lists
<1> HIDE DEF first
<1> QED
  BY <1>10, <1>11

StorageFields ==
    {"requestId", "sourceId", "destinationId", "keys", "entries", "prev", "storageSize",
     "raftCommitIndex", "snapshot"}

(* Which fields there are.                                                 *)
LEMMA StorageFieldsAre ==
    \A t \in DOMAIN Codec!Classes : \A x \in DOMAIN Codec!Classes[t] :
        Codec!Classes[t][x] \subseteq StorageFields
<1> SUFFICES ASSUME NEW t \in DOMAIN Codec!Classes, NEW x \in DOMAIN Codec!Classes[t],
                    NEW f \in Codec!Classes[t][x]
             PROVE  f \in StorageFields
  OBVIOUS
<1> USE DEF Codec!Classes, StorageFields
<1>1. CASE t = "ClearEntries"
  BY <1>1 DEF Codec!ClearEntries
<1>2. CASE t = "GetEntries"
  BY <1>2 DEF Codec!GetEntries
<1>3. CASE t = "GetSize"
  BY <1>3 DEF Codec!GetSize
<1>4. CASE t = "GetKeys"
  BY <1>4 DEF Codec!GetKeys
<1>5. CASE t = "DeleteEntries"
  BY <1>5 DEF Codec!DeleteEntries
<1>6. CASE t = "RemoveEntries"
  BY <1>6 DEF Codec!RemoveEntries
<1>7. CASE t = "EntriesRemoved"
  BY <1>7 DEF Codec!EntriesRemoved
<1>8. CASE t = "InsertEntries"
  BY <1>8 DEF Codec!InsertEntries
<1>9. CASE t = "EntriesInserted"
  BY <1>9 DEF Codec!EntriesInserted
<1>10. CASE t = "UpdateEntries"
  BY <1>10 DEF Codec!UpdateEntries
<1>11. CASE t = "EntryUpdated"
  BY <1>11 DEF Codec!EntryUpdated
<1>12. CASE t = "StorageHello"
  BY <1>12 DEF Codec!StorageHello
<1>13. CASE t = "StorageState"
  BY <1>13 DEF Codec!StorageState
<1>14. CASE t = "StorageAppliedCommit"
  BY <1>14 DEF Codec!StorageAppliedCommit
<1> QED
  BY <1>1, <1>2, <1>3, <1>4, <1>5, <1>6, <1>7, <1>8, <1>9, <1>10, <1>11, <1>12, <1>13, <1>14

PeerFields ==
    {"sourceId", "destinationId", "raftLeaderId", "customData", "requestId", "raftTerm",
     "raftCommitIndex", "raftLeaderNextIndex", "raftNumberOfLogs", "activeEndpointIds",
     "snapshot", "requestIds", "entry", "success"}

LEMMA PeerFieldsAre ==
    \A t \in DOMAIN GridCodec!Classes : GridCodec!Classes[t] \subseteq PeerFields
  BY DEF GridCodec!Classes, GridCodec!Hello, GridCodec!Join, GridCodec!EndpointStates,
         GridCodec!OngoingRequests, GridCodec!SubmitRequest, GridCodec!SubmitResponse, PeerFields

LEMMA FieldsAreFinite == IsFiniteSet(StorageFields) /\ IsFiniteSet(PeerFields)
<1>1. \A S, x : IsFiniteSet(S) => IsFiniteSet(S \cup {x})
  BY FS_AddElement
<1>2. IsFiniteSet({})
  BY FS_EmptySet
<1>3. IsFiniteSet({"requestId", "sourceId", "destinationId"})
  <2>1. IsFiniteSet({} \cup {"requestId"} \cup {"sourceId"} \cup {"destinationId"})
    BY <1>1, <1>2
  <2> QED
    BY <2>1
<1>4. IsFiniteSet({"raftCommitIndex", "snapshot"})
  <2>1. IsFiniteSet({} \cup {"raftCommitIndex"} \cup {"snapshot"})
    BY <1>1, <1>2
  <2> QED
    BY <2>1
<1>5. IsFiniteSet({"keys", "entries", "prev", "storageSize"})
  <2>1. IsFiniteSet({} \cup {"keys"} \cup {"entries"} \cup {"prev"} \cup {"storageSize"})
    BY <1>1, <1>2
  <2> QED
    BY <2>1
<1>6. IsFiniteSet({"raftLeaderId", "customData", "raftTerm", "raftLeaderNextIndex"})
  <2>1. IsFiniteSet({} \cup {"raftLeaderId"} \cup {"customData"} \cup {"raftTerm"}
                    \cup {"raftLeaderNextIndex"})
    BY <1>1, <1>2
  <2> QED
    BY <2>1
<1>7. IsFiniteSet({"raftNumberOfLogs", "activeEndpointIds", "requestIds", "entry", "success"})
  <2>1. IsFiniteSet({} \cup {"raftNumberOfLogs"} \cup {"activeEndpointIds"} \cup {"requestIds"}
                    \cup {"entry"} \cup {"success"})
    BY <1>1, <1>2
  <2> QED
    BY <2>1
<1>8. \A S, T : IsFiniteSet(S) /\ IsFiniteSet(T) => IsFiniteSet(S \cup T)
  BY FS_Union
<1>9. IsFiniteSet({"requestId", "sourceId", "destinationId"} \cup {"raftCommitIndex", "snapshot"})
  BY <1>3, <1>4, <1>8
<1>10. StorageFields = ({"requestId", "sourceId", "destinationId"} \cup {"raftCommitIndex", "snapshot"})
                        \cup {"keys", "entries", "prev", "storageSize"}
  BY DEF StorageFields
<1>11. PeerFields = (({"requestId", "sourceId", "destinationId"} \cup {"raftCommitIndex", "snapshot"})
                     \cup {"raftLeaderId", "customData", "raftTerm", "raftLeaderNextIndex"})
                     \cup {"raftNumberOfLogs", "activeEndpointIds", "requestIds", "entry", "success"}
  BY DEF PeerFields
<1>12. IsFiniteSet(StorageFields)
  BY <1>5, <1>8, <1>9, <1>10
<1>13. IsFiniteSet(({"requestId", "sourceId", "destinationId"} \cup {"raftCommitIndex", "snapshot"})
                     \cup {"raftLeaderId", "customData", "raftTerm", "raftLeaderNextIndex"})
  BY <1>6, <1>8, <1>9
<1> QED
  BY <1>7, <1>8, <1>11, <1>12, <1>13

(* The values that are tried: finite sets, and maps that are finite.       *)
LEMMA ValuesAre ==
    /\ \A S \in ValuesOf("keys") \cup ValuesOf("requestIds") : IsFiniteSet(S)
    /\ \A S \in ValuesOf("activeEndpointIds") : S = Nil \/ IsFiniteSet(S)
    /\ \A m \in ValuesOf("entries") : IsMap(m)
<1>1. IsFiniteSet({k1, k2}) /\ IsFiniteSet({1, 2}) /\ IsFiniteSet({})
  <2>1. {k1, k2} = ({} \cup {k1}) \cup {k2} /\ {1, 2} = ({} \cup {1}) \cup {2}
    OBVIOUS
  <2>2. \A S, x : IsFiniteSet(S) => IsFiniteSet(S \cup {x})
    BY FS_AddElement
  <2>3. IsFiniteSet({})
    BY FS_EmptySet
  <2>4. IsFiniteSet({} \cup {k1}) /\ IsFiniteSet({} \cup {1})
    BY <2>2, <2>3
  <2>5. IsFiniteSet(({} \cup {k1}) \cup {k2}) /\ IsFiniteSet(({} \cup {1}) \cup {2})
    BY <2>2, <2>4
  <2> QED
    BY <2>1, <2>3, <2>5
<1>2. \A S \in SUBSET {k1, k2} : IsFiniteSet(S)
  BY <1>1, FS_Subset
<1>3. ValuesOf("keys") = SUBSET {k1, k2} /\ ValuesOf("requestIds") = {{}, {1, 2}}
      /\ ValuesOf("activeEndpointIds") = {Nil, {}, {1, 2}} /\ ValuesOf("entries") = EntrySets
  BY DEF ValuesOf
<1>4. \A m \in EntrySets : IsMap(m)
  <2> SUFFICES ASSUME NEW m \in EntrySets PROVE IsMap(m)
    OBVIOUS
  <2>1. PICK S \in SUBSET {k1, k2} : m \in [S -> {v1, v2}]
    BY DEF EntrySets
  <2> QED
    BY <1>2, <2>1 DEF IsMap
<1> QED
  BY <1>1, <1>2, <1>3, <1>4

(* The messages of a collection that are tried are messages of their class *)
LEMMA StorageTried ==
    ASSUME NEW m \in StorageMessages
    PROVE  IsMessage(m) /\ DOMAIN m \subseteq {"type", "kind"} \cup StorageFields
<1>1. PICK t \in DOMAIN Codec!Classes : \E x \in DOMAIN Codec!Classes[t] :
            m \in Filled(Codec!Classes[t][x], [type |-> t, kind |-> x])
  BY DEF StorageMessages
<1>2. PICK x \in DOMAIN Codec!Classes[t] : m \in Filled(Codec!Classes[t][x], [type |-> t, kind |-> x])
  BY <1>1
<1>3. PICK F, tags : F = Codec!Classes[t][x] /\ tags = [type |-> t, kind |-> x]
  OBVIOUS
<1>4. F \subseteq StorageFields /\ IsFiniteSet(F)
  BY <1>3, StorageFieldsAre, FieldsAreFinite, FS_Subset
<1>5. DOMAIN tags = {"type", "kind"} /\ tags = [f \in DOMAIN tags |-> tags[f]]
      /\ tags["type"] = t /\ tags["kind"] = x
  BY <1>3
<1>6. FilledOK(m, F, tags)
  <2>1. F \cap DOMAIN tags = {}
    BY <1>4, <1>5 DEF StorageFields
  <2> QED
    BY <1>2, <1>3, <1>4, <1>5, <2>1, FilledIs
<1>7. m["type"] = t /\ m["kind"] = x /\ DOMAIN m = {"type", "kind"} \cup F
      /\ m = [f \in DOMAIN m |-> m[f]]
  BY <1>5, <1>6 DEF FilledOK
<1>8. ("keys" \in DOMAIN m => IsFiniteSet(m["keys"])) /\ ("entries" \in DOMAIN m => IsMap(m["entries"]))
  BY <1>6, <1>7, ValuesAre DEF FilledOK
<1> QED
  BY <1>3, <1>4, <1>7, <1>8 DEF IsMessage

(* So are those between peers.                                             *)
LEMMA GridTried == ASSUME NEW m \in GridMessages PROVE IsGridMessage(m)
<1>1. PICK t, F, tags :
        /\ t \in DOMAIN GridCodec!Classes /\ m \in Filled(F, tags)
        /\ tags = [f \in DOMAIN tags |-> tags[f]] /\ "type" \in DOMAIN tags /\ tags["type"] = t
        /\ F \cap DOMAIN tags = {} /\ F \subseteq PeerFields
        /\ F \cup DOMAIN tags = {"type"} \cup GridCodec!Classes[t]
        /\ DOMAIN tags \cap {"requestIds", "activeEndpointIds"} = {}
  <2>1. CASE \E t \in DOMAIN GridCodec!Classes : m \in Filled(GridCodec!Classes[t], [type |-> t])
    <3>1. PICK t \in DOMAIN GridCodec!Classes : m \in Filled(GridCodec!Classes[t], [type |-> t])
      BY <2>1
    <3>2. PICK tags : tags = [type |-> t]
      OBVIOUS
    <3>3. DOMAIN tags = {"type"} /\ tags["type"] = t /\ tags = [f \in DOMAIN tags |-> tags[f]]
      BY <3>2
    <3>4. GridCodec!Classes[t] \subseteq PeerFields /\ "type" \notin GridCodec!Classes[t]
      BY PeerFieldsAre DEF PeerFields
    <3> QED
      BY <3>1, <3>2, <3>3, <3>4
  <2>2. CASE m \in Filled(GridCodec!EndpointStates \ {"raftTerm", "raftLeaderNextIndex", "sourceId"},
                          [type |-> "EndpointStates", raftTerm |-> 0, raftLeaderNextIndex |-> 0, sourceId |-> 1])
    <3>1. PICK tags : tags = [type |-> "EndpointStates", raftTerm |-> 0, raftLeaderNextIndex |-> 0, sourceId |-> 1]
      OBVIOUS
    <3>2. DOMAIN tags = {"type", "raftTerm", "raftLeaderNextIndex", "sourceId"}
          /\ tags["type"] = "EndpointStates" /\ tags = [f \in DOMAIN tags |-> tags[f]]
      BY <3>1
    <3>3. PICK F : F = GridCodec!EndpointStates \ {"raftTerm", "raftLeaderNextIndex", "sourceId"}
      OBVIOUS
    <3>4. F \subseteq PeerFields /\ F \cap DOMAIN tags = {}
      BY <3>2, <3>3 DEF GridCodec!EndpointStates, PeerFields
    <3>5. "EndpointStates" \in DOMAIN GridCodec!Classes
          /\ GridCodec!Classes["EndpointStates"] = GridCodec!EndpointStates
      BY DEF GridCodec!Classes
    <3>6. F \cup DOMAIN tags = {"type"} \cup GridCodec!Classes["EndpointStates"]
      BY <3>2, <3>3, <3>5 DEF GridCodec!EndpointStates
    <3> QED
      BY <2>2, <3>1, <3>2, <3>3, <3>4, <3>5, <3>6
  <2> QED
    BY <2>1, <2>2 DEF GridMessages
<1>2. FilledOK(m, F, tags)
  <2>1. IsFiniteSet(F)
    BY <1>1, FieldsAreFinite, FS_Subset
  <2> QED
    BY <1>1, <2>1, FilledIs
<1>3. m["type"] = t /\ DOMAIN m = {"type"} \cup GridCodec!Classes[t] /\ m = [f \in DOMAIN m |-> m[f]]
  BY <1>1, <1>2 DEF FilledOK
<1>4. "requestIds" \in DOMAIN m => IsFiniteSet(m["requestIds"])
  BY <1>1, <1>2, ValuesAre DEF FilledOK
<1>5. "activeEndpointIds" \in DOMAIN m =>
            m["activeEndpointIds"] = Nil \/ IsFiniteSet(m["activeEndpointIds"])
  BY <1>1, <1>2, ValuesAre DEF FilledOK
<1> QED
  BY <1>1, <1>3, <1>4, <1>5 DEF IsGridMessage

(* MessagesSurvive, for any keys and values: what reaches the handlers of  *)
(* another peer is what was sent, apart from the exceptions named there.   *)
THEOREM MessagesOfTheRunSurvive == Spec => []MessagesSurvive
<1>1. ASSUME NEW m \in StorageMessages PROVE Codec!decode(Codec!encode(m)) = Absent(m)
  <2>1. IsMessage(m) /\ DOMAIN m \subseteq {"type", "kind"} \cup StorageFields
    BY StorageTried
  <2>2. Codec!decode(Codec!encode(m)) = [f \in DOMAIN m |-> IF f = "type" THEN As(m) ELSE Sent(m, f)]
    BY <2>1, StorageMessagesSurvive
  <2>3. ASSUME NEW f \in DOMAIN m
        PROVE  (IF f = "type" THEN As(m) ELSE Sent(m, f)) = Absent(m)[f]
    <3>1. CASE f = "type"
      BY <3>1 DEF Absent, As
    <3>2. CASE f # "type"
      <4>1. f # "customData" /\ f # "activeEndpointIds"
        BY <2>1 DEF StorageFields
      <4> QED
        BY <3>2, <4>1 DEF Absent, Sent
    <3> QED
      BY <3>1, <3>2
  <2> QED
    BY <2>2, <2>3 DEF Absent
<1>2. ASSUME NEW m \in GridMessages PROVE GridCodec!decode(GridCodec!encode(m)) = Absent(m)
  <2>1. IsGridMessage(m)
    BY <1>2, GridTried
  <2>2. GridCodec!decode(GridCodec!encode(m)) = [f \in DOMAIN m |-> Arrived(m, f)]
    BY <2>1, GridMessagesSurvive
  <2>3. m.type # "RemoveEntries"
    BY <2>1, GridClassesAre DEF IsGridMessage
  <2>4. ASSUME NEW f \in DOMAIN m PROVE Arrived(m, f) = Absent(m)[f]
    BY <2>3 DEF Absent, Arrived, GridCodec!Given
  <2> QED
    BY <2>2, <2>4 DEF Absent
<1>3. MessagesSurvive
  BY <1>1, <1>2 DEF MessagesSurvive
<1> QED
  BY <1>3, PTL
=============================================================================
