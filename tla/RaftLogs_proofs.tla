--------------------------- MODULE RaftLogs_proofs ---------------------------
(* Lemmas about the log operators of RaftLogs, for every log record.        *)
EXTENDS RaftLogs, FiniteSetTheorems, WellFoundedInduction, TLAPS

-----------------------------------------------------------------------------
(* A non-empty set of naturals has a least element.  The segments 0..x of   *)
(* its elements up to one of them are finite sets, and strict inclusion of   *)
(* finite sets is well founded.                                             *)
LEMMA LeastNatural ==
    ASSUME NEW S \in SUBSET Nat, S # {}
    PROVE  \E m \in S : \A x \in S : m <= x
<1>1. PICK n \in S : TRUE
  OBVIOUS
<1> DEFINE Segments == {0 .. x : x \in {y \in S : y <= n}}
<1>2. IsFiniteSet(0 .. n)
  BY FS_Interval
<1>3. \A x \in 0 .. n : 0 .. x \in SUBSET (0 .. n)
  OBVIOUS
<1>4. Segments \in SUBSET FiniteSubsetsOf(0 .. n) /\ Segments # {}
  BY <1>2, <1>3, FS_Subset DEF FiniteSubsetsOf
<1>5. PICK s \in Segments :
          \A t \in Segments : ~(<<t, s>> \in StrictSubsetOrdering(0 .. n))
  <2> HIDE DEF Segments
  <2>1. IsWellFoundedOn(StrictSubsetOrdering(0 .. n), FiniteSubsetsOf(0 .. n))
    BY <1>2, FS_StrictSubsetOrderingWellFounded
  <2>2. QED
    BY <2>1, <1>4, WFMin
<1>6. PICK m \in S : m <= n /\ s = 0 .. m
  OBVIOUS
<1>7. ASSUME NEW x \in S, x < m
      PROVE  FALSE
  <2>1. 0 .. x \in Segments
    BY <1>6, <1>7
  <2>2. 0 .. x \subseteq 0 .. m /\ 0 .. x # 0 .. m
    <3>1. m \in 0 .. m /\ m \notin 0 .. x
      BY <1>7
    <3>2. QED
      BY <3>1, <1>7
  <2>3. 0 .. x \in SUBSET (0 .. n) /\ 0 .. m \in SUBSET (0 .. n)
    BY <1>6, <1>7
  <2>4. <<0 .. x, 0 .. m>> \in StrictSubsetOrdering(0 .. n)
    BY <2>2, <2>3 DEF StrictSubsetOrdering
  <2>5. QED
    BY <2>1, <2>4, <1>5, <1>6
<1>8. QED
  BY <1>6, <1>7

(* Min of a non-empty set of integers with a lower bound.                   *)
LEMMA MinBounded ==
    ASSUME NEW S \in SUBSET Int, S # {}, NEW b \in Int, \A x \in S : b <= x
    PROVE  Min(S) \in S /\ \A x \in S : Min(S) <= x
<1> DEFINE T == {x - b : x \in S}
<1>1. T \in SUBSET Nat /\ T # {}
  OBVIOUS
<1>2. PICK t \in T : \A y \in T : t <= y
  BY <1>1, LeastNatural
<1>3. PICK s \in S : t = s - b
  OBVIOUS
<1>4. \A x \in S : s <= x
  BY <1>2, <1>3
<1>5. QED
  BY <1>4 DEF Min

(* Max of a non-empty set of integers with an upper bound.                  *)
LEMMA MaxBounded ==
    ASSUME NEW S \in SUBSET Int, S # {}, NEW b \in Int, \A x \in S : x <= b
    PROVE  Max(S) \in S /\ \A x \in S : Max(S) >= x
<1> DEFINE T == {b - x : x \in S}
<1>1. T \in SUBSET Nat /\ T # {}
  <2>1. \A x \in S : b - x \in Nat
    OBVIOUS
  <2>2. QED
    BY <2>1
<1>2. PICK t \in T : \A y \in T : t <= y
  BY <1>1, LeastNatural
<1>3. PICK s \in S : t = b - s
  OBVIOUS
<1>4. \A x \in S : s >= x
  BY <1>2, <1>3
<1>5. QED
  BY <1>4 DEF Max

(* The lesser of two numbers is at most the second.                         *)
LEMMA MinOfTwo ==
    ASSUME NEW a \in Int, NEW b \in Int
    PROVE  Min({a, b}) \in Int /\ Min({a, b}) <= b
<1> DEFINE S == {a, b}
<1>1. PICK c \in Int : \A x \in S : c <= x
  <2>1. CASE a <= b
    BY <2>1
  <2>2. CASE b <= a
    BY <2>2
  <2>3. QED
    BY <2>1, <2>2
<1>2. S \in SUBSET Int /\ S # {} /\ b \in S
  OBVIOUS
<1> HIDE DEF S
<1>3. Min(S) \in S /\ \A x \in S : Min(S) <= x
  BY <1>1, <1>2, MinBounded
<1>4. QED
  BY <1>2, <1>3 DEF S

(* A log keeps within a term that is raised.                                *)
LEMMA TermsUpToRaised ==
    ASSUME NEW l, IsLog(l), NEW t \in Nat, NEW u \in Nat, t <= u, TermsUpTo(l, t)
    PROVE  TermsUpTo(l, u)
  BY DEF IsLog, LogEntry, TermsUpTo

(* The log m has no entry but those of l.                                   *)
OnlyDrops(l, m) ==
    \A i \in DOMAIN m.entries : i \in DOMAIN l.entries /\ m.entries[i] = l.entries[i]

(* The log m has no entry but those of l and, from index base on, ms.       *)
OnlyWrites(l, base, ms, m) ==
    \A i \in DOMAIN m.entries :
        \/ i \in DOMAIN l.entries /\ m.entries[i] = l.entries[i]
        \/ i \in base .. base + Len(ms) - 1 /\ m.entries[i].entry = ms[i - base + 1]

-----------------------------------------------------------------------------
(* Writing operators.                                                       *)

(* A new log is well formed and has no gap.                                 *)
LEMMA EmptyLogOK ==
    IsLog(EmptyLog) /\ GapFree(EmptyLog) /\ \A t \in Nat : TermsUpTo(EmptyLog, t)
  BY DEF IsLog, GapFree, EmptyLog, TermsUpTo

(* So is a log that was reset.                                              *)
LEMMA ResetOK ==
    ASSUME NEW c \in Nat
    PROVE  IsLog(Reset(c)) /\ GapFree(Reset(c)) /\ \A t \in Nat : TermsUpTo(Reset(c), t)
  BY DEF IsLog, GapFree, Reset, TermsUpTo

(* A made entry is a log entry.                                             *)
LEMMA MakeEntryOK ==
    ASSUME NEW t \in Nat, NEW v \in Values, NEW now \in Nat
    PROVE  MakeEntry(t, v, now) \in LogEntry /\ MakeEntry(t, v, now).term = t
  BY DEF MakeEntry, LogEntry

(* Store writes one index and leaves the rest of the log alone.             *)
LEMMA StoreOK ==
    ASSUME NEW l, IsLog(l), NEW index \in Nat, NEW e \in LogEntry
    PROVE  LET m == Store(l, index, e)
           IN  /\ IsLog(m)
               /\ m.firstIndex = l.firstIndex
               /\ m.nextIndex = l.nextIndex
               /\ m.commitIndex = l.commitIndex
               /\ DOMAIN m.entries = DOMAIN l.entries \cup {index}
               /\ m.entries[index] = e
               /\ \A i \in DOMAIN l.entries : i # index => m.entries[i] = l.entries[i]
  BY DEF Store, IsLog

(* Submit appends one entry of the given term and keeps every other.        *)
LEMMA SubmitOK ==
    ASSUME NEW l, IsLog(l), GapFree(l), NEW t \in Nat, NEW v \in Values, NEW now \in Nat
    PROVE  LET m == Submit(l, t, v, now)
           IN  /\ IsLog(m) /\ GapFree(m)
               /\ m.nextIndex = l.nextIndex + 1
               /\ m.commitIndex = l.commitIndex
               /\ DOMAIN l.entries \subseteq DOMAIN m.entries
               /\ \A u \in Nat : t <= u /\ TermsUpTo(l, u) => TermsUpTo(m, u)
<1> DEFINE e == MakeEntry(t, v, now)
           s == Store(l, l.nextIndex, e)
           m == Submit(l, t, v, now)
<1>1. e \in LogEntry /\ e.term = t
  BY MakeEntryOK
<1>2. l.nextIndex \in Nat
  BY DEF IsLog
<1>3. /\ IsLog(s)
      /\ s.firstIndex = l.firstIndex
      /\ s.nextIndex = l.nextIndex
      /\ s.commitIndex = l.commitIndex
      /\ DOMAIN s.entries = DOMAIN l.entries \cup {l.nextIndex}
      /\ s.entries[l.nextIndex] = e
      /\ \A i \in DOMAIN l.entries : i # l.nextIndex => s.entries[i] = l.entries[i]
  <2> HIDE DEF e
  <2>1. QED
    BY <1>1, <1>2, StoreOK
<1>4. m = [s EXCEPT !.nextIndex = @ + 1]
  BY DEF Submit
<1> HIDE DEF e, s, m
<1>5. /\ IsLog(m)
      /\ m.firstIndex = s.firstIndex
      /\ m.nextIndex = s.nextIndex + 1
      /\ m.commitIndex = s.commitIndex
      /\ m.entries = s.entries
  BY <1>3, <1>4 DEF IsLog
<1>6. GapFree(m)
  BY <1>3, <1>5 DEF IsLog, GapFree
<1>7. \A u \in Nat : t <= u /\ TermsUpTo(l, u) => TermsUpTo(m, u)
  BY <1>1, <1>3, <1>5 DEF TermsUpTo
<1>8. QED
  BY <1>3, <1>5, <1>6, <1>7 DEF m

(* What exactly Submit writes.                                              *)
LEMMA SubmitWrites ==
    ASSUME NEW l, IsLog(l), NEW t \in Nat, NEW v \in Values, NEW now \in Nat
    PROVE  LET m == Submit(l, t, v, now)
           IN  /\ m.firstIndex = l.firstIndex
               /\ m.nextIndex = l.nextIndex + 1
               /\ DOMAIN m.entries = DOMAIN l.entries \cup {l.nextIndex}
               /\ m.entries[l.nextIndex].entry = v
               /\ \A i \in DOMAIN l.entries : i # l.nextIndex => m.entries[i] = l.entries[i]
<1> DEFINE e == MakeEntry(t, v, now)
           s == Store(l, l.nextIndex, e)
           m == Submit(l, t, v, now)
<1>1. e \in LogEntry /\ e.entry = v
  BY MakeEntryOK DEF MakeEntry
<1>2. /\ l.nextIndex \in Nat
      /\ m = [s EXCEPT !.nextIndex = @ + 1]
  BY DEF IsLog, Submit
<1> HIDE DEF e
<1>3. /\ IsLog(s)
      /\ s.firstIndex = l.firstIndex
      /\ s.nextIndex = l.nextIndex
      /\ DOMAIN s.entries = DOMAIN l.entries \cup {l.nextIndex}
      /\ s.entries[l.nextIndex] = e
      /\ \A i \in DOMAIN l.entries : i # l.nextIndex => s.entries[i] = l.entries[i]
  BY <1>1, <1>2, StoreOK
<1> HIDE DEF s, m
<1>4. /\ m.firstIndex = s.firstIndex
      /\ m.nextIndex = s.nextIndex + 1
      /\ m.entries = s.entries
  BY <1>2, <1>3 DEF IsLog
<1>5. QED
  BY <1>1, <1>3, <1>4 DEF m

(* The same for a log whose terms go up to that of the new entry            *)
LEMMA SubmitInTermOK ==
    ASSUME NEW l, NEW t, NEW v, NEW now,
           IsLog(l) /\ GapFree(l) /\ TermsUpTo(l, t) /\ t \in Nat /\ v \in Values /\ now \in Nat
    PROVE  /\ IsLog(Submit(l, t, v, now))
           /\ GapFree(Submit(l, t, v, now))
           /\ TermsUpTo(Submit(l, t, v, now), t)
           /\ Submit(l, t, v, now).nextIndex = l.nextIndex + 1
           /\ Submit(l, t, v, now).commitIndex = l.commitIndex
<1>1. t <= t
  OBVIOUS
<1>2. QED
  BY <1>1, SubmitOK

(* compareAndAdd is Submit or nothing.                                      *)
LEMMA CompareAndAddOK ==
    ASSUME NEW l, IsLog(l), GapFree(l), NEW n \in Nat,
           NEW t \in Nat, NEW v \in Values, NEW now \in Nat
    PROVE  LET m == CompareAndAdd(l, n, t, v, now)
           IN  /\ IsLog(m) /\ GapFree(m)
               /\ m.commitIndex = l.commitIndex
               /\ DOMAIN l.entries \subseteq DOMAIN m.entries
               /\ \A u \in Nat : t <= u /\ TermsUpTo(l, u) => TermsUpTo(m, u)
<1>1. CASE l.nextIndex # n
  BY <1>1 DEF CompareAndAdd
<1>2. CASE l.nextIndex = n
  <2>1. CompareAndAdd(l, n, t, v, now) = Submit(l, t, v, now)
    BY <1>2 DEF CompareAndAdd
  <2>2. QED
    BY <2>1, SubmitOK
<1>3. QED
  BY <1>1, <1>2

(* compareAndOverride writes inside the log only.                           *)
LEMMA CompareAndOverrideOK ==
    ASSUME NEW l, IsLog(l), GapFree(l), NEW n \in Nat,
           NEW t \in Nat, NEW v \in Values, NEW now \in Nat
    PROVE  LET m == CompareAndOverride(l, n, t, v, now)
           IN  /\ IsLog(m) /\ GapFree(m)
               /\ m.commitIndex = l.commitIndex
               /\ DOMAIN l.entries \subseteq DOMAIN m.entries
               /\ \A u \in Nat : t <= u /\ TermsUpTo(l, u) => TermsUpTo(m, u)
<1> DEFINE e == MakeEntry(t, v, now)
           s == Store(l, n, e)
           m == CompareAndOverride(l, n, t, v, now)
           b == s.bytes - Size[l.entries[n].entry]
<1>1. e \in LogEntry /\ e.term = t
  BY MakeEntryOK
<1>2. /\ IsLog(s)
      /\ s.firstIndex = l.firstIndex
      /\ s.nextIndex = l.nextIndex
      /\ s.commitIndex = l.commitIndex
      /\ DOMAIN s.entries = DOMAIN l.entries \cup {n}
      /\ s.entries[n] = e
      /\ \A i \in DOMAIN l.entries : i # n => s.entries[i] = l.entries[i]
  <2> HIDE DEF e
  <2>1. QED
    BY <1>1, StoreOK
<1>3. \/ m = l
      \/ n < l.nextIndex /\ m = s
      \/ n < l.nextIndex /\ m = [s EXCEPT !.bytes = b]
  BY DEF CompareAndOverride, IsLog
<1> HIDE DEF e, s, m, b
<1>4. CASE m = l
  BY <1>4 DEF m
<1>5. CASE n < l.nextIndex /\ (m = s \/ m = [s EXCEPT !.bytes = b])
  <2>1. /\ IsLog(m)
        /\ m.firstIndex = s.firstIndex
        /\ m.nextIndex = s.nextIndex
        /\ m.commitIndex = s.commitIndex
        /\ m.entries = s.entries
    BY <1>2, <1>5 DEF IsLog
  <2>2. GapFree(m)
    BY <1>2, <1>5, <2>1 DEF IsLog, GapFree
  <2>3. \A u \in Nat : t <= u /\ TermsUpTo(l, u) => TermsUpTo(m, u)
    BY <1>1, <1>2, <2>1 DEF TermsUpTo
  <2>4. QED
    BY <1>2, <2>1, <2>2, <2>3 DEF m
<1>6. QED
  BY <1>3, <1>4, <1>5

-----------------------------------------------------------------------------
(* Discarding operators.                                                    *)

(* Deleting a set of indices and moving the first index.                    *)
LEMMA DiscardOK ==
    ASSUME NEW l, IsLog(l), NEW S, NEW f \in Nat
    PROVE  LET m == Discard(l, S, f)
           IN  /\ IsLog(m)
               /\ m.firstIndex = f
               /\ m.nextIndex = l.nextIndex
               /\ m.commitIndex = l.commitIndex
               /\ DOMAIN m.entries = DOMAIN l.entries \ S
               /\ \A i \in DOMAIN m.entries : m.entries[i] = l.entries[i]
<1> DEFINE b == l.bytes - BytesAt(l, S)
           es == [i \in DOMAIN l.entries \ S |-> l.entries[i]]
           m == [l EXCEPT !.entries = es, !.bytes = b, !.firstIndex = f]
<1>1. /\ es = [i \in DOMAIN es |-> es[i]]
      /\ DOMAIN es = DOMAIN l.entries \ S
      /\ \A i \in DOMAIN es : es[i] = l.entries[i]
  OBVIOUS
<1> HIDE DEF b, es
<1>2. /\ m \in [firstIndex : Nat, nextIndex : Nat, commitIndex : Nat \cup {-1},
               entries : {es}, bytes : {b}]
      /\ m.firstIndex = f
      /\ m.nextIndex = l.nextIndex
      /\ m.commitIndex = l.commitIndex
      /\ m.entries = es
      /\ m.bytes = b
  BY DEF IsLog
<1>3. Discard(l, S, f) = m
  BY DEF Discard, b, es
<1> HIDE DEF m
<1>4. IsLog(m)
  BY <1>1, <1>2 DEF IsLog
<1>5. QED
  BY <1>1, <1>2, <1>3, <1>4

(* A discard of committed entries strictly below the commit index, or none, *)
(* keeps the log well formed and without gap.                               *)
LEMMA DiscardBelowCommitOK ==
    ASSUME NEW l, IsLog(l), GapFree(l), NEW S, NEW f \in Nat,
           \A i \in S \cap Int : i < l.commitIndex,
           f <= l.commitIndex
    PROVE  LET m == Discard(l, S, f)
           IN  /\ IsLog(m) /\ GapFree(m)
               /\ m.nextIndex = l.nextIndex
               /\ m.commitIndex = l.commitIndex
               /\ \A i \in DOMAIN l.entries : i >= m.commitIndex => i \in DOMAIN m.entries
               /\ \A u \in Nat : TermsUpTo(l, u) => TermsUpTo(m, u)
               /\ OnlyDrops(l, m)
<1> DEFINE m == Discard(l, S, f)
<1>1. /\ IsLog(m)
      /\ m.firstIndex = f
      /\ m.nextIndex = l.nextIndex
      /\ m.commitIndex = l.commitIndex
      /\ DOMAIN m.entries = DOMAIN l.entries \ S
      /\ \A i \in DOMAIN m.entries : m.entries[i] = l.entries[i]
  BY DiscardOK
<1> HIDE DEF m
<1>2. GapFree(m)
  BY <1>1 DEF IsLog, GapFree
<1>3. \A i \in DOMAIN l.entries : i >= m.commitIndex => i \in DOMAIN m.entries
  BY <1>1 DEF IsLog
<1>4. \A u \in Nat : TermsUpTo(l, u) => TermsUpTo(m, u)
  BY <1>1 DEF TermsUpTo
<1>5. OnlyDrops(l, m)
  BY <1>1 DEF OnlyDrops
<1>6. QED
  BY <1>1, <1>2, <1>3, <1>4, <1>5 DEF m

(* Moving the first index alone.                                            *)
LEMMA FirstIndexOK ==
    ASSUME NEW l, IsLog(l), GapFree(l), NEW f \in Nat, f <= l.commitIndex \/ f = 0
    PROVE  LET m == [l EXCEPT !.firstIndex = f]
           IN  /\ IsLog(m) /\ GapFree(m)
               /\ m.nextIndex = l.nextIndex
               /\ m.commitIndex = l.commitIndex
               /\ m.entries = l.entries
               /\ \A u \in Nat : TermsUpTo(l, u) => TermsUpTo(m, u)
<1> DEFINE m == [l EXCEPT !.firstIndex = f]
<1>1. /\ IsLog(m)
      /\ m.firstIndex = f
      /\ m.nextIndex = l.nextIndex
      /\ m.commitIndex = l.commitIndex
      /\ m.entries = l.entries
  BY DEF IsLog
<1> HIDE DEF m
<1>2. GapFree(m)
  BY <1>1 DEF IsLog, GapFree
<1>3. QED
  BY <1>1, <1>2 DEF TermsUpTo, m

(* Expiry looks below the commit index only.                                *)
LEMMA ExpireOK ==
    ASSUME NEW l, IsLog(l), GapFree(l), NEW now \in Nat
    PROVE  LET m == Expire(l, now)
           IN  /\ IsLog(m) /\ GapFree(m)
               /\ m.nextIndex = l.nextIndex
               /\ m.commitIndex = l.commitIndex
               /\ \A i \in DOMAIN l.entries : i >= m.commitIndex => i \in DOMAIN m.entries
               /\ \A u \in Nat : TermsUpTo(l, u) => TermsUpTo(m, u)
               /\ OnlyDrops(l, m)
<1> DEFINE sc == Scanned(l, now)
           holes == sc \ DOMAIN l.entries
           stale == sc \cap DOMAIN l.entries
           afterHoles == IF holes = {} THEN l.firstIndex ELSE Max(holes) + 1
           m == Expire(l, now)
<1>1. l.firstIndex \in Nat /\ l.commitIndex \in Int
  BY DEF IsLog
<1>2. sc \in SUBSET Int /\ \A i \in sc : l.firstIndex <= i /\ i <= l.commitIndex - 1
  BY <1>1 DEF Scanned
<1> HIDE DEF sc
<1>3. ASSUME NEW T \in SUBSET sc, T # {}
      PROVE  Max(T) \in T /\ l.firstIndex <= Max(T) /\ Max(T) <= l.commitIndex - 1
  <2>1. T \in SUBSET Int /\ l.commitIndex - 1 \in Int /\ \A i \in T : i <= l.commitIndex - 1
    BY <1>1, <1>2, <1>3
  <2>2. Max(T) \in T
    BY <2>1, <1>3, MaxBounded
  <2>3. QED
    BY <2>2, <1>2
<1>4. stale # {} => Max(stale) \in Nat /\ Max(stale) <= l.commitIndex
  <2>1. stale \in SUBSET sc
    OBVIOUS
  <2>2. CASE stale # {}
    <3> HIDE DEF stale
    <3>1. Max(stale) \in stale /\ l.firstIndex <= Max(stale) /\ Max(stale) <= l.commitIndex - 1
      BY <2>1, <2>2, <1>3
    <3>2. Max(stale) \in Int
      BY <3>1, <2>1, <1>2
    <3>3. QED
      BY <3>1, <3>2, <1>1
  <2>3. QED
    BY <2>2
<1>5. afterHoles \in Nat /\ (afterHoles <= l.commitIndex \/ afterHoles = 0)
  <2>1. holes \in SUBSET sc
    OBVIOUS
  <2>2. CASE holes = {}
    BY <2>2, <1>1 DEF GapFree
  <2>3. CASE holes # {}
    <3> HIDE DEF holes
    <3>1. Max(holes) \in holes /\ l.firstIndex <= Max(holes) /\ Max(holes) <= l.commitIndex - 1
      BY <2>1, <2>3, <1>3
    <3>2. Max(holes) \in Int
      BY <3>1, <2>1, <1>2
    <3>3. QED
      BY <3>1, <3>2, <2>3, <1>1
  <2>4. QED
    BY <2>2, <2>3
<1>6. \/ m = l
      \/ m = [l EXCEPT !.firstIndex = afterHoles]
      \/ stale # {} /\ m = Discard(l, afterHoles .. Max(stale) - 1, Max(stale))
  BY DEF Expire, sc
<1>7. CASE m = l
  BY <1>7 DEF OnlyDrops
<1>8. CASE m = [l EXCEPT !.firstIndex = afterHoles]
  <2> HIDE DEF m, afterHoles
  <2>1. QED
    BY <1>5, <1>8, FirstIndexOK DEF m, OnlyDrops
<1>9. CASE stale # {} /\ m = Discard(l, afterHoles .. Max(stale) - 1, Max(stale))
  <2> DEFINE f == Max(stale)
             S == afterHoles .. f - 1
             d == Discard(l, S, f)
  <2>1. f \in Nat /\ f <= l.commitIndex
    BY <1>4, <1>9
  <2>2. \A i \in S \cap Int : i < l.commitIndex
    <3> HIDE DEF afterHoles, f
    <3>1. QED
      BY <2>1, <1>1, <1>5
  <2>3. m = d
    BY <1>9
  <2> HIDE DEF S, f
  <2>4. /\ IsLog(d) /\ GapFree(d)
        /\ d.nextIndex = l.nextIndex
        /\ d.commitIndex = l.commitIndex
        /\ \A i \in DOMAIN l.entries : i >= d.commitIndex => i \in DOMAIN d.entries
        /\ \A u \in Nat : TermsUpTo(l, u) => TermsUpTo(d, u)
        /\ OnlyDrops(l, d)
    BY <2>1, <2>2, DiscardBelowCommitOK
  <2> HIDE DEF d, m
  <2>5. QED
    BY <2>3, <2>4 DEF m
<1>10. QED
  BY <1>6, <1>7, <1>8, <1>9

(* removeUntil reaches committed entries below the commit index only.       *)
LEMMA RemoveUntilOK ==
    ASSUME NEW l, IsLog(l), GapFree(l), NEW n \in Nat
    PROVE  LET m == RemoveUntil(l, n)
           IN  /\ IsLog(m) /\ GapFree(m)
               /\ m.commitIndex = l.commitIndex
               /\ \A i \in DOMAIN l.entries : i >= m.commitIndex => i \in DOMAIN m.entries
<1>1. CASE n <= l.firstIndex \/ l.commitIndex <= n
  BY <1>1 DEF RemoveUntil
<1>2. CASE ~(n <= l.firstIndex \/ l.commitIndex <= n)
  <2> DEFINE S == l.firstIndex .. l.commitIndex - 1
  <2>1. RemoveUntil(l, n) = Discard(l, S, n)
    BY <1>2 DEF RemoveUntil
  <2>2. n <= l.commitIndex /\ \A i \in S \cap Int : i < l.commitIndex
    BY <1>2 DEF IsLog
  <2> HIDE DEF S
  <2>3. QED
    BY <2>1, <2>2, DiscardBelowCommitOK
<1>3. QED
  BY <1>1, <1>2

-----------------------------------------------------------------------------
(* Committing.                                                              *)

(* In a log without gap commitUntil runs to the requested index or to the   *)
(* last entry, whichever comes first: it never stops at a missing entry.    *)
LEMMA CommitEndInGapFree ==
    ASSUME NEW l, IsLog(l), GapFree(l), NEW n \in Int, l.commitIndex < n
    PROVE  /\ CommitEnd(l, n) \in l.commitIndex .. n
           /\ CommitEnd(l, n) = n \/ CommitEnd(l, n) = l.nextIndex - 1
           /\ CommitEnd(l, n) < l.nextIndex
<1> DEFINE S == {c \in l.commitIndex .. n : \/ c = n
                                            \/ l.nextIndex <= c + 1
                                            \/ c + 1 \notin DOMAIN l.entries}
<1>1. l.commitIndex \in Int /\ l.nextIndex \in Nat
  BY DEF IsLog
<1>2. S \in SUBSET Int /\ n \in S /\ \A c \in S : l.commitIndex <= c
  BY <1>1
<1>3. \A c \in l.commitIndex .. n :
          l.nextIndex <= c + 1 \/ c + 1 \notin DOMAIN l.entries => l.nextIndex <= c + 1
  BY <1>1 DEF GapFree
<1>4. Min(S) \in S /\ \A x \in S : Min(S) <= x
  <2> HIDE DEF S
  <2>1. QED
    BY <1>1, <1>2, MinBounded
<1>5. l.nextIndex - 1 <= n => l.nextIndex - 1 \in S
  BY <1>1 DEF GapFree
<1>6. Min(S) = n \/ l.nextIndex <= Min(S) + 1
  BY <1>3, <1>4
<1>7. CommitEnd(l, n) = Min(S)
  BY DEF CommitEnd
<1>8. Min(S) \in l.commitIndex .. n
  BY <1>4
<1>9. QED
  <2> HIDE DEF S
  <2>1. QED
    BY <1>1, <1>2, <1>4, <1>5, <1>6, <1>7, <1>8

(* commitUntil moves the commit index up and discards below it only.        *)
LEMMA CommitUntilOK ==
    ASSUME NEW l, IsLog(l), GapFree(l), NEW n \in Int, NEW now \in Nat
    PROVE  LET m == CommitUntil(l, n, now)
           IN  /\ IsLog(m) /\ GapFree(m)
               /\ m.nextIndex = l.nextIndex
               /\ l.commitIndex <= m.commitIndex
               /\ m.commitIndex = l.commitIndex \/ m.commitIndex <= n
               /\ \A i \in DOMAIN l.entries : i >= m.commitIndex => i \in DOMAIN m.entries
               /\ \A u \in Nat : TermsUpTo(l, u) => TermsUpTo(m, u)
               /\ OnlyDrops(l, m)
               /\ Committed(l, n) = l.commitIndex + 1 .. m.commitIndex
               /\ Committed(l, n) \subseteq DOMAIN l.entries
<1>0. l.commitIndex \in Int
  BY DEF IsLog
<1>1. CASE Committed(l, n) = {}
  <2>1. CommitUntil(l, n, now) = l
    BY <1>1 DEF CommitUntil
  <2>2. l.commitIndex + 1 .. l.commitIndex = {}
    BY <1>0
  <2>3. QED
    BY <1>0, <1>1, <2>1, <2>2 DEF OnlyDrops
<1>2. CASE Committed(l, n) # {}
  <2> DEFINE c == CommitEnd(l, n)
             k == [l EXCEPT !.commitIndex = c]
  <2>1. l.commitIndex < n
    BY <1>0, <1>2 DEF Committed
  <2>2. c \in l.commitIndex .. n /\ c < l.nextIndex
    BY <2>1, CommitEndInGapFree
  <2> HIDE DEF c
  <2>3. c \in Int /\ l.commitIndex <= c /\ c <= n
    BY <1>0, <2>2
  <2>4. /\ IsLog(k)
        /\ k.firstIndex = l.firstIndex
        /\ k.nextIndex = l.nextIndex
        /\ k.commitIndex = c
        /\ k.entries = l.entries
    BY <1>0, <2>3 DEF IsLog
  <2>5. CommitUntil(l, n, now) = Expire(k, now)
    BY <1>2 DEF CommitUntil, c
  <2> HIDE DEF k
  <2>6. GapFree(k)
    BY <2>2, <2>3, <2>4 DEF IsLog, GapFree
  <2>7. \A u \in Nat : TermsUpTo(l, u) => TermsUpTo(k, u)
    BY <2>4 DEF TermsUpTo
  <2> DEFINE m == Expire(k, now)
  <2>8. /\ IsLog(m) /\ GapFree(m)
        /\ m.nextIndex = k.nextIndex
        /\ m.commitIndex = k.commitIndex
        /\ \A i \in DOMAIN k.entries : i >= m.commitIndex => i \in DOMAIN m.entries
        /\ \A u \in Nat : TermsUpTo(k, u) => TermsUpTo(m, u)
        /\ OnlyDrops(k, m)
    BY <2>4, <2>6, ExpireOK
  <2> HIDE DEF m
  <2>9. Committed(l, n) = l.commitIndex + 1 .. c
    BY <1>0, <2>1 DEF Committed, c
  <2>10. l.commitIndex + 1 .. c \subseteq DOMAIN l.entries
    BY <1>0, <2>2, <2>3 DEF GapFree, IsLog
  <2>11. OnlyDrops(l, m)
    BY <2>4, <2>8 DEF OnlyDrops
  <2>12. QED
    BY <2>3, <2>4, <2>5, <2>7, <2>8, <2>9, <2>10, <2>11 DEF m
<1>3. QED
  BY <1>1, <1>2

-----------------------------------------------------------------------------
(* The follower's loop over a request whose messages start inside its log   *)
(* or right at the end of it: the log stays without gap, and the entries    *)
(* written carry the given term.                                            *)
LEMMA MergedOK ==
    ASSUME NEW k, IsLog(k), GapFree(k), NEW base \in Nat, base <= k.nextIndex,
           NEW ms \in Seq(Values), NEW t \in Nat, NEW now \in Nat
    PROVE  LET m == Merged(k, base, ms, t, now)
           IN  /\ IsLog(m) /\ GapFree(m)
               /\ k.nextIndex <= m.nextIndex
               /\ m.commitIndex = k.commitIndex
               /\ \A u \in Nat : t <= u /\ TermsUpTo(k, u) => TermsUpTo(m, u)
               /\ m.firstIndex = k.firstIndex
               /\ DOMAIN k.entries \subseteq DOMAIN m.entries
               /\ OnlyWrites(k, base, ms, m)
<1> DEFINE next == base + Len(ms)
           written == {i \in base .. next - 1 : i \in DOMAIN k.entries => k.entries[i].term # t}
           es == [i \in DOMAIN k.entries \cup written |->
                     IF i \in written THEN MakeEntry(t, ms[i - base + 1], now)
                                      ELSE k.entries[i]]
           top == Max({k.nextIndex, next})
           merged == [k EXCEPT !.entries = es, !.nextIndex = top]
           b == k.bytes + BytesAt(merged, written) - BytesAt(k, written)
           m == [merged EXCEPT !.bytes = b]
<1>1. next \in Nat /\ Len(ms) \in Nat
  OBVIOUS
<1>3. k.nextIndex \in Nat /\ k.commitIndex \in Int /\ k.firstIndex \in Nat
  BY DEF IsLog
<1>4. /\ written \subseteq base .. next - 1
      /\ \A i \in base .. next - 1 : i \in DOMAIN k.entries \cup written
  OBVIOUS
<1>5. /\ es = [i \in DOMAIN es |-> es[i]]
      /\ DOMAIN es = DOMAIN k.entries \cup written
      /\ \A i \in written : es[i] = MakeEntry(t, ms[i - base + 1], now)
      /\ \A i \in DOMAIN es : i \notin written => es[i] = k.entries[i]
  <2> HIDE DEF next, written
  <2>1. QED
    OBVIOUS
<1>6. \A i \in written : es[i] \in LogEntry /\ es[i].term = t
  <2>1. \A i \in written : i - base + 1 \in 1 .. Len(ms)
    BY <1>1, <1>4
  <2> HIDE DEF next, written, es
  <2>2. SUFFICES ASSUME NEW i \in written
                 PROVE  es[i] \in LogEntry /\ es[i].term = t
    OBVIOUS
  <2>3. ms[i - base + 1] \in Values
    BY <2>1
  <2>4. QED
    BY <2>3, <1>5 DEF MakeEntry, LogEntry
<1> HIDE DEF es
<1>7. \A i \in DOMAIN es : i \notin written => i \in DOMAIN k.entries /\ es[i] \in LogEntry
  <2> HIDE DEF written
  <2>1. QED
    BY  <1>5 DEF IsLog
<1>8. top \in Nat /\ top = IF next <= k.nextIndex THEN k.nextIndex ELSE next
  <2> DEFINE T == {k.nextIndex, next}
  <2>1. /\ T \in SUBSET Int /\ T # {}
        /\ k.nextIndex + next \in Int /\ \A x \in T : x <= k.nextIndex + next
    BY <1>3
  <2>2. k.nextIndex \in T /\ next \in T
    OBVIOUS
  <2> DEFINE x == Max(T)
  <2>3. \A y \in T : y = k.nextIndex \/ y = next
    OBVIOUS
  <2> HIDE DEF T
  <2>4. x \in T /\ \A y \in T : x >= y
    BY <2>1, MaxBounded
  <2> HIDE DEF x
  <2>5. x \in Nat /\ x = IF next <= k.nextIndex THEN k.nextIndex ELSE next
    BY <2>2, <2>3, <2>4, <1>3
  <2>6. QED
    BY <2>5 DEF x, T
<1> HIDE DEF top
<1>9. /\ merged \in [firstIndex : Nat, nextIndex : Nat, commitIndex : Nat \cup {-1},
                     entries : {es}, bytes : {k.bytes}]
      /\ merged.firstIndex = k.firstIndex
      /\ merged.nextIndex = top
      /\ merged.commitIndex = k.commitIndex
      /\ merged.entries = es
  BY  <1>8 DEF IsLog
<1> HIDE DEF merged, b
<1>10. /\ m \in [firstIndex : Nat, nextIndex : Nat, commitIndex : Nat \cup {-1},
                entries : {es}, bytes : {b}]
       /\ m.firstIndex = k.firstIndex
       /\ m.nextIndex = top
       /\ m.commitIndex = k.commitIndex
       /\ m.entries = es
       /\ m.bytes = b
  BY <1>9
<1>11. m = Merged(k, base, ms, t, now)
  BY DEF Merged, b, merged, top, es
<1> HIDE DEF m
<1>12. DOMAIN es \subseteq Nat
  BY <1>1, <1>4, <1>5 DEF IsLog
<1>13. IsLog(m)
  <2> HIDE DEF written
  <2>1. \A i \in DOMAIN es : es[i] \in LogEntry
    BY <1>6, <1>7
  <2>2. QED
    BY <2>1, <1>5, <1>10, <1>12 DEF IsLog
<1>14. GapFree(m)
  <2> HIDE DEF written
  <2>1. m.commitIndex < m.nextIndex
    BY  <1>3, <1>8, <1>10 DEF GapFree
  <2>2. m.commitIndex + 1 .. m.nextIndex - 1 \subseteq DOMAIN m.entries
    <3> SUFFICES ASSUME NEW i \in m.commitIndex + 1 .. m.nextIndex - 1
                 PROVE  i \in DOMAIN m.entries
      OBVIOUS
    <3>1. CASE i < k.nextIndex
      BY <3>1, <1>3, <1>5, <1>8, <1>10 DEF GapFree
    <3>2. CASE k.nextIndex <= i
      <4> HIDE DEF next
      <4>1. i \in base .. next - 1
        BY <3>2, <1>1, <1>3, <1>8, <1>10
      <4>2. QED
        BY <4>1, <1>4, <1>5, <1>10
    <3>3. QED
      BY <3>1, <3>2, <1>3, <1>8, <1>10
  <2>3. DOMAIN m.entries \subseteq 0 .. m.nextIndex - 1
    <3> HIDE DEF next
    <3>1. \A i \in written : i \in 0 .. top - 1
      BY <1>1, <1>3, <1>4, <1>8
    <3>2. \A i \in DOMAIN k.entries : i \in 0 .. top - 1
      BY  <1>3, <1>8 DEF GapFree
    <3>3. QED
      BY <3>1, <3>2, <1>5, <1>10
  <2>4. m.firstIndex <= m.commitIndex \/ m.firstIndex = 0
    BY  <1>10 DEF GapFree
  <2>5. QED
    BY <2>1, <2>2, <2>3, <2>4 DEF GapFree
<1>15. ASSUME NEW u \in Nat, t <= u, TermsUpTo(k, u)
       PROVE  TermsUpTo(m, u)
  <2> HIDE DEF written
  <2>1. \A i \in DOMAIN k.entries : k.entries[i].term <= u
    BY  <1>15 DEF TermsUpTo
  <2>2. \A i \in DOMAIN es : es[i].term <= u
    BY <2>1, <1>5, <1>6, <1>15
  <2>3. QED
    BY <2>2, <1>10 DEF TermsUpTo
<1>16. OnlyWrites(k, base, ms, m)
  <2>1. \A i \in written : MakeEntry(t, ms[i - base + 1], now).entry = ms[i - base + 1]
    BY DEF MakeEntry
  <2>2. written \subseteq base .. base + Len(ms) - 1
    OBVIOUS
  <2> HIDE DEF written
  <2>3. QED
    BY <2>1, <2>2, <1>5, <1>10 DEF OnlyWrites
<1>17. DOMAIN k.entries \subseteq DOMAIN m.entries
  <2> HIDE DEF written
  <2>1. QED
    BY <1>5, <1>10
<1>18. QED
  BY <1>3, <1>8, <1>10, <1>11, <1>13, <1>14, <1>15, <1>16, <1>17

(* What a follower does with a request: the reset comes first when the      *)
(* messages start beyond its log.  The log never ends earlier than before,  *)
(* and the commit index never goes back.                                    *)
LEMMA MergeEntriesOK ==
    ASSUME NEW l, IsLog(l), GapFree(l),
           NEW ms \in Seq(Values), NEW next \in Nat, Len(ms) <= next,
           NEW t \in Nat, NEW now \in Nat
    PROVE  LET m == MergeEntries(l, next, ms, t, now)
           IN  /\ IsLog(m) /\ GapFree(m)
               /\ l.nextIndex <= m.nextIndex
               /\ l.commitIndex <= m.commitIndex
               /\ \A u \in Nat : t <= u /\ TermsUpTo(l, u) => TermsUpTo(m, u)
               /\ next - Len(ms) <= l.nextIndex =>
                      /\ m.firstIndex = l.firstIndex /\ m.commitIndex = l.commitIndex
                      /\ DOMAIN l.entries \subseteq DOMAIN m.entries
               /\ OnlyWrites(l, next - Len(ms), ms, m)
<1> DEFINE base == next - Len(ms)
           k == IF l.nextIndex < base THEN Reset(base) ELSE l
           m == Merged(k, base, ms, t, now)
<1>0. l.nextIndex \in Nat /\ l.commitIndex \in Int /\ l.commitIndex < l.nextIndex
  BY DEF IsLog, GapFree
<1>1. base \in Nat
  OBVIOUS
<1>2. /\ IsLog(k) /\ GapFree(k) /\ base <= k.nextIndex
      /\ l.nextIndex <= k.nextIndex
      /\ l.commitIndex <= k.commitIndex
      /\ \A u \in Nat : TermsUpTo(l, u) => TermsUpTo(k, u)
  <2> HIDE DEF base
  <2>1. CASE l.nextIndex < base
    <3>1. k = Reset(base) /\ k.nextIndex = base + 1 /\ k.commitIndex = base
      BY <2>1 DEF Reset
    <3> HIDE DEF k
    <3>2. IsLog(k) /\ GapFree(k) /\ \A u \in Nat : TermsUpTo(k, u)
      BY <3>1, <1>1, ResetOK
    <3>3. QED
      BY <2>1, <3>1, <3>2, <1>0, <1>1
  <2>2. CASE ~(l.nextIndex < base)
    BY <2>2, <1>0, <1>1
  <2>3. QED
    BY <2>1, <2>2
<1>2a. /\ base <= l.nextIndex => k = l
       /\ \A i \in DOMAIN k.entries : i \in DOMAIN l.entries /\ k.entries[i] = l.entries[i]
  <2> HIDE DEF base
  <2>1. QED
    BY <1>0, <1>1 DEF Reset
<1>3. m = MergeEntries(l, next, ms, t, now)
  BY DEF MergeEntries
<1> HIDE DEF k, base
<1>4. /\ IsLog(m) /\ GapFree(m)
      /\ k.nextIndex <= m.nextIndex
      /\ m.commitIndex = k.commitIndex
      /\ \A u \in Nat : t <= u /\ TermsUpTo(k, u) => TermsUpTo(m, u)
      /\ m.firstIndex = k.firstIndex
      /\ DOMAIN k.entries \subseteq DOMAIN m.entries
      /\ OnlyWrites(k, base, ms, m)
  BY <1>1, <1>2, MergedOK
<1>5. k.nextIndex \in Nat /\ m.nextIndex \in Nat
  BY <1>2, <1>4 DEF IsLog
<1> HIDE DEF m
<1>6. OnlyWrites(l, base, ms, m)
  BY <1>2a, <1>4 DEF OnlyWrites
<1>7. QED
  BY <1>0, <1>2, <1>2a, <1>3, <1>4, <1>5, <1>6 DEF base

-----------------------------------------------------------------------------
(* The elements of a set of integers up to one of them, and below it.       *)
LEMMA UpToSplits ==
    ASSUME NEW S, \A x \in S : x \in Int, NEW r \in S
    PROVE  LET below == {j \in S : j < r}
           IN  /\ {j \in S : j <= r} = below \cup {r}
               /\ r \notin below
               /\ below \in SUBSET S
               /\ \A j \in below : j \in Int /\ j <= r
  OBVIOUS

(* Up to the greatest element below r is all that is below r.               *)
LEMMA UpToPrevious ==
    ASSUME NEW S, \A x \in S : x \in Int, NEW r \in S,
           NEW p \in {j \in S : j < r}, \A j \in {j \in S : j < r} : j <= p
    PROVE  p \in S /\ p < r /\ {j \in S : j <= p} = {j \in S : j < r}
  OBVIOUS

(* In a finite set of naturals every rank from 1 to its size is taken.      *)
LEMMA EveryRankTaken ==
    ASSUME NEW S \in SUBSET Nat, NEW n \in Nat, \A i \in S : i <= n,
           NEW k \in 1 .. Cardinality(S)
    PROVE  \E i \in S : Cardinality({j \in S : j <= i}) = k
<1> DEFINE UpTo(i) == {j \in S : j <= i}
           Rank(i) == Cardinality(UpTo(i))
           High == {i \in S : k <= Rank(i)}
<1>0. IsFiniteSet(S)
  BY FS_BoundedSetOfNaturals
<1>1. \A i \in S : IsFiniteSet(UpTo(i)) /\ Rank(i) \in Nat
  <2>1. TAKE i \in S
  <2>2. UpTo(i) \in SUBSET S
    OBVIOUS
  <2> HIDE DEF UpTo
  <2>3. QED
    BY <2>2, <1>0, FS_Subset, FS_CardinalityType
<1>2. Cardinality(S) \in Nat /\ S # {}
  BY <1>0, FS_CardinalityType, FS_EmptySet
<1>4. High # {}
  <2>1. Max(S) \in S /\ \A i \in S : Max(S) >= i
    BY <1>2, MaxBounded
  <2>2. UpTo(Max(S)) = S
    BY <2>1
  <2> HIDE DEF UpTo
  <2>3. QED
    BY <2>1, <2>2
<1>5. PICK r \in High : \A x \in High : r <= x
  <2>1. High \in SUBSET Nat
    OBVIOUS
  <2> HIDE DEF High
  <2>2. QED
    BY <2>1, <1>4, LeastNatural
<1>5a. r \in S /\ r \in Nat /\ \A x \in S : x \in Nat
  OBVIOUS
<1>5b. k <= Rank(r) /\ \A x \in S : k <= Rank(x) => r <= x
  BY <1>5
<1> HIDE DEF High, UpTo
<1> DEFINE Below == {j \in S : j < r}
<1>6. UpTo(r) = Below \cup {r} /\ r \notin Below /\ Below \in SUBSET S
      /\ \A j \in Below : j \in Int /\ j <= r
  <2>1. \A x \in S : x \in Int
    BY <1>5a
  <2>2. QED
    BY <2>1, <1>5a, UpToSplits DEF UpTo
<1>7. IsFiniteSet(Below) /\ Cardinality(Below) \in Nat /\ Rank(r) = Cardinality(Below) + 1
  <2> HIDE DEF Below
  <2>1. IsFiniteSet(Below)
    BY <1>0, <1>6, FS_Subset
  <2>2. QED
    BY <2>1, <1>6, FS_AddElement, FS_CardinalityType
<1>8. Cardinality(Below) < k
  <2>1. CASE Below = {}
    BY <2>1, FS_EmptySet
  <2>2. CASE Below # {}
    <3>1. Max(Below) \in Below /\ \A j \in Below : Max(Below) >= j
      <4>1. r \in Int
        BY <1>5a
      <4> HIDE DEF Below
      <4>2. Below \in SUBSET Int
        BY <1>6
      <4>3. QED
        BY <4>1, <4>2, <1>6, <2>2, MaxBounded
    <3>2. PICK p \in Below : \A j \in Below : j <= p
      <4> HIDE DEF Below
      <4>1. Max(Below) \in Int
        BY <3>1, <1>6
      <4>2. QED
        BY <3>1, <4>1, <1>6
    <3>3. /\ \A x \in S : x \in Int
          /\ p \in {j \in S : j < r} /\ \A j \in {j \in S : j < r} : j <= p
      BY <3>2, <1>5a
    <3>4. p \in S /\ p < r /\ UpTo(p) = Below
      BY <3>3, <1>5a, UpToPrevious DEF UpTo
    <3> HIDE DEF Below
    <3>5. Rank(p) < k
      BY <1>1, <1>5a, <1>5b, <3>4
    <3>6. QED
      BY <3>4, <3>5
  <2>3. QED
    BY <2>1, <2>2
<1>9. Rank(r) = k
  <2> HIDE DEF Below
  <2>1. QED
    BY <1>1, <1>5a, <1>5b, <1>7, <1>8
<1>10. QED
  BY <1>5a, <1>9 DEF UpTo

(* What the leader sends: a sequence of messages, no longer than the log.   *)
LEMMA CollectEntriesOK ==
    ASSUME NEW l, IsLog(l), NEW start \in Nat
    PROVE  /\ CollectEntries(l, start) \in Seq(Values)
           /\ Len(CollectEntries(l, start)) <= l.nextIndex
<1> DEFINE indices == Collected(l, start)
           n == Cardinality(indices)
           Nth(k) == CHOOSE i \in indices : Cardinality({j \in indices : j <= i}) = k
<1>1. l.nextIndex \in Nat
  BY DEF IsLog
<1>2. indices \in SUBSET (0 .. l.nextIndex - 1) /\ indices \in SUBSET DOMAIN l.entries
  BY <1>1 DEF Collected
<1>3. IsFiniteSet(indices) /\ n \in Nat /\ n <= l.nextIndex
  <2>1. IsFiniteSet(0 .. l.nextIndex - 1) /\ Cardinality(0 .. l.nextIndex - 1) <= l.nextIndex
    <3> DEFINE last == l.nextIndex - 1
    <3>1. last \in Int /\ 0 \in Int
      BY <1>1
    <3> HIDE DEF last
    <3>2. /\ IsFiniteSet(0 .. last)
          /\ Cardinality(0 .. last) = IF 0 > last THEN 0 ELSE last - 0 + 1
      BY <3>1, FS_Interval
    <3>3. Cardinality(0 .. last) <= l.nextIndex
      BY <1>1, <3>2 DEF last
    <3>4. QED
      BY <3>2, <3>3 DEF last
  <2> HIDE DEF indices
  <2>2. Cardinality(0 .. l.nextIndex - 1) \in Nat
    BY <2>1, FS_CardinalityType
  <2>3. IsFiniteSet(indices) /\ n <= Cardinality(0 .. l.nextIndex - 1)
    BY <1>2, <2>1, FS_Subset
  <2>4. QED
    BY <1>1, <2>1, <2>2, <2>3, FS_CardinalityType
<1> HIDE DEF indices
<1>4. \A k \in 1 .. n : Nth(k) \in indices
  <2>1. indices \in SUBSET Nat
    BY <1>2
  <2>2. \A i \in indices : i <= l.nextIndex
    BY <1>1, <1>2
  <2>3. QED
    BY <2>1, <2>2, <1>1, EveryRankTaken
<1> HIDE DEF Nth
<1>5. \A k \in 1 .. n : l.entries[Nth(k)].entry \in Values
  BY <1>2, <1>4 DEF IsLog, LogEntry
<1>6. [k \in 1 .. n |-> l.entries[Nth(k)].entry] \in [1 .. n -> Values]
  BY <1>5
<1>7. CollectEntries(l, start) = [k \in 1 .. n |-> l.entries[Nth(k)].entry]
  BY DEF CollectEntries, indices, Nth
<1> HIDE DEF n
<1>8. QED
  BY <1>3, <1>6, <1>7, <1>1

-----------------------------------------------------------------------------
(* Logs without any hole, like that of a peer that never took an entry from *)
(* another: expiry drops a prefix, and what a leader sends are the last     *)
(* entries of its log.                                                      *)

Contiguous(l) == DOMAIN l.entries = l.firstIndex .. l.nextIndex - 1

(* Expiry leaves no hole behind.                                            *)
LEMMA ExpireContiguous ==
    ASSUME NEW l, IsLog(l), GapFree(l), Contiguous(l), NEW now \in Nat
    PROVE  Contiguous(Expire(l, now))
<1> DEFINE sc == Scanned(l, now)
           holes == sc \ DOMAIN l.entries
           stale == sc \cap DOMAIN l.entries
           m == Expire(l, now)
<1>1. /\ l.firstIndex \in Nat /\ l.commitIndex \in Int /\ l.nextIndex \in Nat
      /\ l.commitIndex < l.nextIndex
  BY DEF IsLog, GapFree
<1>2. sc \in SUBSET Int /\ \A i \in sc : l.firstIndex <= i /\ i <= l.commitIndex - 1
  BY <1>1 DEF Scanned
<1> HIDE DEF sc
<1>3. holes = {}
  <2>1. ASSUME NEW i \in sc
        PROVE  i \in l.firstIndex .. l.nextIndex - 1
    BY <1>1, <1>2
  <2>2. QED
    BY <2>1 DEF Contiguous
<1>4. \/ m = l
      \/ m = [l EXCEPT !.firstIndex = l.firstIndex]
      \/ stale # {} /\ m = Discard(l, l.firstIndex .. Max(stale) - 1, Max(stale))
  BY <1>3 DEF Expire, sc
<1>5. CASE m = l
  BY <1>5
<1>6. CASE m = [l EXCEPT !.firstIndex = l.firstIndex]
  <2>1. /\ m.firstIndex = l.firstIndex /\ m.nextIndex = l.nextIndex
        /\ m.entries = l.entries
    BY <1>6 DEF IsLog
  <2> HIDE DEF m
  <2>2. QED
    BY <2>1 DEF Contiguous, m
<1>7. CASE stale # {} /\ m = Discard(l, l.firstIndex .. Max(stale) - 1, Max(stale))
  <2> DEFINE f == Max(stale)
             S == l.firstIndex .. f - 1
  <2>1. stale \in SUBSET Int /\ \A i \in stale : i <= l.commitIndex - 1
    BY <1>2
  <2>2. f \in stale
    <3> HIDE DEF stale
    <3>1. l.commitIndex - 1 \in Int
      BY <1>1
    <3>2. QED
      BY <1>7, <2>1, <3>1, MaxBounded
  <2>3. f \in Nat /\ l.firstIndex <= f /\ f < l.nextIndex
    <3> HIDE DEF f
    <3>1. f \in Int /\ l.firstIndex <= f /\ f <= l.commitIndex - 1
      BY <1>2, <2>2
    <3>2. QED
      BY <1>1, <3>1
  <2>4. m = Discard(l, S, f)
    BY <1>7
  <2> HIDE DEF f, S, m
  <2>5. /\ m.firstIndex = f
        /\ m.nextIndex = l.nextIndex
        /\ DOMAIN m.entries = DOMAIN l.entries \ S
    BY <2>3, <2>4, DiscardOK
  <2>6. DOMAIN m.entries = f .. l.nextIndex - 1
    BY <1>1, <2>3, <2>5 DEF Contiguous, S
  <2>7. QED
    BY <2>5, <2>6 DEF Contiguous, m
<1>8. QED
  BY <1>4, <1>5, <1>6, <1>7

(* Nor does a commit.                                                       *)
LEMMA CommitUntilContiguous ==
    ASSUME NEW l, IsLog(l), GapFree(l), Contiguous(l), NEW n \in Int, NEW now \in Nat
    PROVE  Contiguous(CommitUntil(l, n, now))
<1>1. CASE Committed(l, n) = {}
  BY <1>1 DEF CommitUntil
<1>2. CASE Committed(l, n) # {}
  <2> DEFINE c == CommitEnd(l, n)
             k == [l EXCEPT !.commitIndex = c]
  <2>1. l.commitIndex \in Int /\ l.commitIndex < n
    BY <1>2 DEF Committed, IsLog
  <2>2. c \in l.commitIndex .. n /\ c < l.nextIndex
    BY <2>1, CommitEndInGapFree
  <2> HIDE DEF c
  <2>3. c \in Int /\ l.commitIndex <= c
    BY <2>1, <2>2
  <2>4. /\ IsLog(k)
        /\ k.firstIndex = l.firstIndex
        /\ k.nextIndex = l.nextIndex
        /\ k.commitIndex = c
        /\ k.entries = l.entries
    BY <2>1, <2>3 DEF IsLog
  <2>5. CommitUntil(l, n, now) = Expire(k, now)
    BY <1>2 DEF CommitUntil, c
  <2> HIDE DEF k
  <2>6. GapFree(k) /\ Contiguous(k)
    BY <2>2, <2>3, <2>4 DEF IsLog, GapFree, Contiguous
  <2>7. QED
    BY <2>4, <2>5, <2>6, ExpireContiguous
<1>3. QED
  BY <1>1, <1>2

(* So neither submits nor commits do.                                       *)
LEMMA SubmitContiguous ==
    ASSUME NEW l, IsLog(l), GapFree(l), Contiguous(l),
           NEW t \in Nat, NEW v \in Values, NEW now \in Nat
    PROVE  Contiguous(Submit(l, t, v, now))
<1> DEFINE m == Submit(l, t, v, now)
<1>1. /\ m.firstIndex = l.firstIndex
      /\ m.nextIndex = l.nextIndex + 1
      /\ DOMAIN m.entries = DOMAIN l.entries \cup {l.nextIndex}
  BY SubmitWrites
<1>2. l.firstIndex \in Nat /\ l.nextIndex \in Nat /\ l.firstIndex <= l.nextIndex
  BY DEF IsLog, GapFree
<1> HIDE DEF m
<1>3. QED
  BY <1>1, <1>2 DEF Contiguous, m

(* What collectEntries takes from a log without hole are its last entries,  *)
(* in order: the messages from the start index, or from the first index if  *)
(* the log starts later, up to the end.                                     *)
LEMMA CollectContiguous ==
    ASSUME NEW l, IsLog(l), Contiguous(l), NEW start \in Nat
    PROVE  LET es == CollectEntries(l, start)
               base == l.nextIndex - Len(es)
           IN  /\ es # <<>> => base = IF start < l.firstIndex THEN l.firstIndex ELSE start
               /\ \A k \in 1 .. Len(es) : /\ base + k - 1 \in DOMAIN l.entries
                                          /\ es[k] = l.entries[base + k - 1].entry
<1> DEFINE first == IF start < l.firstIndex THEN l.firstIndex ELSE start
           last == l.nextIndex - 1
           indices == Collected(l, start)
           n == Cardinality(indices)
           Nth(k) == CHOOSE i \in indices : Cardinality({j \in indices : j <= i}) = k
           es == CollectEntries(l, start)
           base == l.nextIndex - Len(es)
<1>1. l.nextIndex \in Nat /\ l.firstIndex \in Nat
  BY DEF IsLog
<1>2. first \in Nat /\ last \in Int
  BY <1>1
<1>3. indices = first .. last
  BY <1>1 DEF Collected, Contiguous
<1>4. es = [k \in 1 .. n |-> l.entries[Nth(k)].entry]
  BY DEF CollectEntries
<1> HIDE DEF first, indices, es
<1>5. n = IF first > last THEN 0 ELSE last - first + 1
  <2> HIDE DEF last
  <2>1. QED
    BY <1>2, <1>3, FS_Interval
<1>6. Len(es) = n
  <2>1. n \in Nat
    BY <1>2, <1>5
  <2> HIDE DEF n, Nth
  <2>2. QED
    BY <1>4, <2>1
<1>7. ASSUME NEW k \in 1 .. n
      PROVE  Nth(k) = first + k - 1 /\ Nth(k) \in indices
  <2>1. n \in Nat /\ first + k - 1 \in first .. last /\ k \in Int
    BY <1>2, <1>5
  <2>2. ASSUME NEW i \in indices
        PROVE  Cardinality({j \in indices : j <= i}) = i - first + 1
    <3>1. {j \in indices : j <= i} = first .. i /\ i \in Int /\ ~(first > i)
      BY <1>2, <1>3
    <3>2. Cardinality(first .. i) = i - first + 1
      BY <1>2, <3>1, FS_Interval
    <3>3. QED
      BY <3>1, <3>2
  <2>3. \A i \in indices : Cardinality({j \in indices : j <= i}) = k <=> i = first + k - 1
    <3>1. \A i \in indices : i \in Int
      BY <1>2, <1>3
    <3>2. QED
      BY <1>2, <2>1, <2>2, <3>1
  <2>4. first + k - 1 \in indices
    BY <1>3, <2>1
  <2> HIDE DEF n
  <2>5. QED
    BY <2>3, <2>4
<1> HIDE DEF Nth
<1>8. es # <<>> => base = first
  <2>1. es # <<>> => n # 0
    <3> HIDE DEF n
    <3>1. CASE n = 0
      BY <1>4, <3>1
    <3>2. QED
      BY <3>1
  <2>2. QED
    BY <1>1, <1>2, <1>5, <1>6, <2>1
<1>9. ASSUME NEW k \in 1 .. Len(es)
      PROVE  base + k - 1 \in DOMAIN l.entries /\ es[k] = l.entries[base + k - 1].entry
  <2>1. k \in 1 .. n /\ es # <<>>
    BY <1>6, <1>9
  <2>2. base = first
    BY <1>8, <2>1
  <2>3. Nth(k) = first + k - 1 /\ Nth(k) \in indices
    BY <1>7, <2>1
  <2>4. Nth(k) \in DOMAIN l.entries
    BY <2>3 DEF indices, Collected
  <2> HIDE DEF n, base
  <2>5. QED
    BY <1>4, <2>1, <2>2, <2>3, <2>4
<1>10. QED
  BY <1>8, <1>9 DEF first, es

-----------------------------------------------------------------------------
(* Sums.                                                                   *)

(* A set that has 0, and with a number the next, has every natural.        *)
LEMMA UpFromZero ==
    ASSUME NEW S, 0 \in S, \A n \in Nat : n \in S => n + 1 \in S
    PROVE  Nat \subseteq S
<1> SUFFICES ASSUME Nat \ S # {} PROVE FALSE
  OBVIOUS
<1>1. PICK n \in Nat \ S : \A m \in Nat \ S : n <= m
  BY LeastNatural
<1>2. n \in Nat /\ n # 0
  BY <1>1
<1>3. n - 1 \in S
  BY <1>1, <1>2
<1> QED
  BY <1>1, <1>2, <1>3

\* s has the sums of f up to n.
Sums(f, s, n) == s = [i \in 0 .. n |-> IF i = 0 THEN 0 ELSE s[i - 1] + f[i - 1]]

(* The recursive definition has a solution.                                *)
LEMMA SumToIs ==
    ASSUME NEW f, NEW n \in Nat
    PROVE  \E s : Sums(f, s, n) /\ SumTo(f, n) = s[n]
<1> DEFINE S == {m \in Nat : \E s : Sums(f, s, m)}
<1>1. 0 \in S
  <2> DEFINE s == [i \in 0 .. 0 |-> 0]
  <2>1. Sums(f, s, 0)
    BY DEF Sums
  <2> QED
    BY <2>1
<1>2. ASSUME NEW m \in Nat, m \in S PROVE m + 1 \in S
  <2>1. PICK s : Sums(f, s, m)
    BY <1>2
  <2> DEFINE g == [i \in 0 .. m + 1 |-> IF i = m + 1 THEN s[m] + f[m] ELSE s[i]]
  <2>2. ASSUME NEW i \in 0 .. m + 1
        PROVE  g[i] = IF i = 0 THEN 0 ELSE g[i - 1] + f[i - 1]
    <3>1. CASE i = m + 1
      <4>1. m + 1 # 0 /\ m \in 0 .. m + 1 /\ m # m + 1 /\ (m + 1) - 1 = m
        OBVIOUS
      <4>2. g[m + 1] = s[m] + f[m] /\ g[m] = s[m]
        BY <4>1
      <4> HIDE DEF g
      <4> QED
        BY <3>1, <4>1, <4>2
    <3>2. CASE i \in 0 .. m
      <4>1. g[i] = s[i] /\ (i # 0 => g[i - 1] = s[i - 1])
        BY <3>2
      <4>2. s[i] = IF i = 0 THEN 0 ELSE s[i - 1] + f[i - 1]
        BY <2>1, <3>2 DEF Sums
      <4> HIDE DEF g
      <4> QED
        BY <4>1, <4>2
    <3> QED
      BY <3>1, <3>2
  <2>3. g = [i \in 0 .. m + 1 |-> g[i]]
    OBVIOUS
  <2> HIDE DEF g
  <2>4. Sums(f, g, m + 1)
    BY <2>2, <2>3 DEF Sums
  <2> QED
    BY <2>4
<1>3. n \in S
  <2> HIDE DEF S
  <2> QED
    BY <1>1, <1>2, UpFromZero
<1>4. \E s : Sums(f, s, n)
  BY <1>3
<1>5. PICK s : s = CHOOSE g : Sums(f, g, n)
  OBVIOUS
<1>6. Sums(f, s, n)
  BY <1>4, <1>5
<1>7. SumTo(f, n) = s[n]
  BY <1>5 DEF SumTo, Sums
<1> QED
  BY <1>6, <1>7

(* The sums of a part are those of the whole, as far as they go.           *)
LEMMA SumsAgree ==
    ASSUME NEW f, NEW n \in Nat, NEW m \in Nat, n <= m, NEW s, NEW r, Sums(f, s, n), Sums(f, r, m)
    PROVE  s[n] = r[n]
<1> DEFINE S == {i \in Nat : i <= n => s[i] = r[i]}
<1>0. /\ \A i \in 0 .. n : s[i] = IF i = 0 THEN 0 ELSE s[i - 1] + f[i - 1]
      /\ \A i \in 0 .. m : r[i] = IF i = 0 THEN 0 ELSE r[i - 1] + f[i - 1]
  BY DEF Sums
<1>1. 0 \in S
  BY <1>0
<1>2. ASSUME NEW i \in Nat, i \in S PROVE i + 1 \in S
  <2> SUFFICES ASSUME i + 1 <= n PROVE s[i + 1] = r[i + 1]
    OBVIOUS
  <2>1. /\ i + 1 \in 0 .. n /\ i + 1 \in 0 .. m /\ i + 1 # 0
        /\ (i + 1) - 1 = i /\ s[i] = r[i]
    BY <1>2
  <2> HIDE DEF S
  <2> QED
    BY <1>0, <2>1
<1>3. n \in S
  <2> HIDE DEF S
  <2> QED
    BY <1>1, <1>2, UpFromZero
<1> QED
  BY <1>3

(* One value more.                                                         *)
LEMMA SumNext ==
    ASSUME NEW f, NEW n \in Nat
    PROVE  SumTo(f, 0) = 0 /\ SumTo(f, n + 1) = SumTo(f, n) + f[n]
<1>1. PICK z : Sums(f, z, 0) /\ SumTo(f, 0) = z[0]
  BY SumToIs
<1>2. PICK s : Sums(f, s, n) /\ SumTo(f, n) = s[n]
  BY SumToIs
<1>3. PICK r : Sums(f, r, n + 1) /\ SumTo(f, n + 1) = r[n + 1]
  BY SumToIs
<1>4. s[n] = r[n]
  BY <1>2, <1>3, SumsAgree
<1>5. r[n + 1] = r[n] + f[n]
  <2>1. n + 1 \in 0 .. n + 1 /\ n + 1 # 0 /\ (n + 1) - 1 = n
    OBVIOUS
  <2> QED
    BY <1>3, <2>1 DEF Sums
<1>6. z[0] = 0
  BY <1>1 DEF Sums
<1> QED
  BY <1>1, <1>2, <1>3, <1>4, <1>5, <1>6

(* Sums of numbers are numbers.                                            *)
LEMMA SumIsInt ==
    ASSUME NEW f, NEW n \in Nat, \A i \in 0 .. n - 1 : f[i] \in Int
    PROVE  SumTo(f, n) \in Int
<1> DEFINE S == {m \in Nat : m <= n => SumTo(f, m) \in Int}
<1>1. 0 \in S
  BY SumNext
<1>2. ASSUME NEW m \in Nat, m \in S PROVE m + 1 \in S
  <2> SUFFICES ASSUME m + 1 <= n PROVE SumTo(f, m + 1) \in Int
    OBVIOUS
  <2>1. SumTo(f, m) \in Int /\ f[m] \in Int
    BY <1>2
  <2>2. SumTo(f, m + 1) = SumTo(f, m) + f[m]
    BY SumNext
  <2> QED
    BY <2>1, <2>2
<1> HIDE DEF S
<1>3. n \in S
  BY <1>1, <1>2, UpFromZero
<1> QED
  BY <1>3 DEF S

(* Where the values add up, so do the sums.                                *)
LEMMA SumsAddUp ==
    ASSUME NEW f, NEW g, NEW h, NEW k, NEW n \in Nat,
           \A i \in 0 .. n - 1 : /\ f[i] \in Int /\ g[i] \in Int /\ h[i] \in Int /\ k[i] \in Int
                                 /\ f[i] + g[i] = h[i] + k[i]
    PROVE  SumTo(f, n) + SumTo(g, n) = SumTo(h, n) + SumTo(k, n)
<1> DEFINE S == {m \in Nat : m <= n => SumTo(f, m) + SumTo(g, m) = SumTo(h, m) + SumTo(k, m)}
<1>1. 0 \in S
  BY SumNext
<1>2. ASSUME NEW m \in Nat, m \in S PROVE m + 1 \in S
  <2> SUFFICES ASSUME m + 1 <= n
               PROVE  SumTo(f, m + 1) + SumTo(g, m + 1) = SumTo(h, m + 1) + SumTo(k, m + 1)
    OBVIOUS
  <2>1. SumTo(f, m) + SumTo(g, m) = SumTo(h, m) + SumTo(k, m)
    BY <1>2
  <2>2. /\ SumTo(f, m + 1) = SumTo(f, m) + f[m] /\ SumTo(g, m + 1) = SumTo(g, m) + g[m]
        /\ SumTo(h, m + 1) = SumTo(h, m) + h[m] /\ SumTo(k, m + 1) = SumTo(k, m) + k[m]
    BY SumNext
  <2>3. SumTo(f, m) \in Int /\ SumTo(g, m) \in Int /\ SumTo(h, m) \in Int /\ SumTo(k, m) \in Int
    BY SumIsInt
  <2>4. f[m] \in Int /\ g[m] \in Int /\ h[m] \in Int /\ k[m] \in Int /\ f[m] + g[m] = h[m] + k[m]
    OBVIOUS
  <2> QED
    BY <2>1, <2>2, <2>3, <2>4
<1> HIDE DEF S
<1>3. n \in S
  BY <1>1, <1>2, UpFromZero
<1> QED
  BY <1>3 DEF S

(* Zeros add nothing.                                                      *)
LEMMA SumOfRest ==
    ASSUME NEW f, NEW n \in Nat, NEW m \in Nat, n <= m, \A i \in 0 .. m - 1 : f[i] \in Int,
           \A i \in n .. m - 1 : f[i] = 0
    PROVE  SumTo(f, m) = SumTo(f, n)
<1> DEFINE S == {j \in Nat : n + j <= m => SumTo(f, n + j) = SumTo(f, n)}
<1>1. 0 \in S
  BY SumNext
<1>2. ASSUME NEW j \in Nat, j \in S PROVE j + 1 \in S
  <2> SUFFICES ASSUME n + (j + 1) <= m PROVE SumTo(f, n + (j + 1)) = SumTo(f, n)
    OBVIOUS
  <2>1. SumTo(f, n + j) = SumTo(f, n) /\ f[n + j] = 0
    BY <1>2
  <2>2. SumTo(f, (n + j) + 1) = SumTo(f, n + j) + f[n + j]
    BY SumNext
  <2>3. SumTo(f, n) \in Int
    BY SumIsInt
  <2>4. (n + j) + 1 = n + (j + 1)
    OBVIOUS
  <2> QED
    BY <2>1, <2>2, <2>3, <2>4
<1> HIDE DEF S
<1>3. m - n \in S
  BY <1>1, <1>2, UpFromZero
<1>4. n + (m - n) = m
  OBVIOUS
<1> QED
  BY <1>3, <1>4 DEF S

(* One value more where there was none.                                    *)
LEMMA SumWithOne ==
    ASSUME NEW n \in Nat, NEW j \in 0 .. n - 1, NEW x \in Int
    PROVE  SumTo([i \in Nat |-> IF i = j THEN x ELSE 0], n) = x
<1> DEFINE f == [i \in Nat |-> IF i = j THEN x ELSE 0]
<1>1. \A i \in 0 .. n - 1 : f[i] \in Int
  OBVIOUS
<1>2. /\ \A i \in 0 .. j - 1 : f[i] \in Int /\ f[i] = 0
      /\ \A i \in (j + 1) .. n - 1 : f[i] = 0
      /\ f[j] = x
  OBVIOUS
<1> HIDE DEF f
<1>3. SumTo(f, j) = SumTo(f, 0)
  BY <1>2, SumOfRest
<1>4. SumTo(f, j + 1) = SumTo(f, j) + f[j]
  BY SumNext
<1>5. SumTo(f, n) = SumTo(f, j + 1)
  BY <1>1, <1>2, SumOfRest
<1>6. SumTo(f, 0) = 0
  BY SumNext
<1>7. SumTo(f, n) = x
  BY <1>2, <1>3, <1>4, <1>5, <1>6
<1> QED
  BY <1>7 DEF f

-----------------------------------------------------------------------------
(* The byte estimate.                                                      *)

\* The bytes of the messages that l has at the indices S, index by index
Weight(l, S) ==
    [i \in Nat |-> IF i \in S \cap DOMAIN l.entries THEN Size[l.entries[i].entry] ELSE 0]

\* The estimate is right.
BytesRight(l) == l.bytes = BytesAt(l, DOMAIN l.entries)

(* A well-formed log without gap can be summed up to any index after it.   *)
LEMMA BytesAtIs ==
    ASSUME NEW l, IsLog(l), GapFree(l), NEW S, NEW n \in Nat, l.nextIndex <= n
    PROVE  /\ BytesAt(l, S) = SumTo(Weight(l, S), n)
           /\ \A i \in Nat : Weight(l, S)[i] \in Nat
<1>1. \A i \in DOMAIN l.entries : Size[l.entries[i].entry] \in Nat
  BY SizeAssumption DEF IsLog, LogEntry
<1>2. \A i \in Nat : Weight(l, S)[i] \in Nat
  BY <1>1 DEF Weight
<1>3. l.nextIndex \in Nat
  BY DEF IsLog
<1>4. \A i \in l.nextIndex .. n - 1 : Weight(l, S)[i] = 0
  BY <1>3 DEF Weight, GapFree
<1>5. BytesAt(l, S) = SumTo(Weight(l, S), l.nextIndex)
  BY DEF BytesAt, Weight
<1> DEFINE w == Weight(l, S)
<1>6. \A i \in 0 .. n - 1 : w[i] \in Int
  BY <1>2
<1> HIDE DEF w
<1>7. SumTo(w, n) = SumTo(w, l.nextIndex)
  BY <1>3, <1>4, <1>6, SumOfRest DEF w
<1> QED
  BY <1>2, <1>5, <1>7 DEF w

\* Index by index up to n, m lacks what g has and has what h has in addition to l.
Balanced(l, m, g, h, n) ==
    \A i \in 0 .. n - 1 :
        /\ g[i] \in Int /\ h[i] \in Int
        /\ Weight(m, DOMAIN m.entries)[i] + g[i] = Weight(l, DOMAIN l.entries)[i] + h[i]

(* An estimate that follows the difference of the entries stays right.     *)
LEMMA BytesFollow ==
    ASSUME NEW l, IsLog(l), GapFree(l), BytesRight(l), NEW m, IsLog(m), GapFree(m),
           NEW n \in Nat, l.nextIndex <= n, m.nextIndex <= n, NEW g, NEW h,
           Balanced(l, m, g, h, n), m.bytes + SumTo(g, n) = l.bytes + SumTo(h, n),
           m.bytes \in Int
    PROVE  BytesRight(m)
<1>1. PICK v, w : v = Weight(m, DOMAIN m.entries) /\ w = Weight(l, DOMAIN l.entries)
  OBVIOUS
<1>2. BytesAt(m, DOMAIN m.entries) = SumTo(v, n) /\ \A i \in Nat : v[i] \in Nat
  BY <1>1, BytesAtIs
<1>3. BytesAt(l, DOMAIN l.entries) = SumTo(w, n) /\ \A i \in Nat : w[i] \in Nat
  BY <1>1, BytesAtIs
<1>4. SumTo(v, n) + SumTo(g, n) = SumTo(w, n) + SumTo(h, n)
  BY <1>1, <1>2, <1>3, SumsAddUp DEF Balanced
<1>5. SumTo(v, n) \in Int /\ SumTo(g, n) \in Int /\ SumTo(w, n) \in Int /\ SumTo(h, n) \in Int
  BY <1>2, <1>3, SumIsInt DEF Balanced
<1> QED
  BY <1>2, <1>3, <1>4, <1>5 DEF BytesRight

(* Nothing in an empty log                                                 *)
LEMMA EmptyBytes ==
    ASSUME NEW l, l.nextIndex \in Nat, l.entries = <<>>, l.bytes = 0
    PROVE  BytesRight(l)
<1> DEFINE w == Weight(l, DOMAIN l.entries)
<1>1. DOMAIN l.entries = {}
  OBVIOUS
<1>2. \A i \in 0 .. l.nextIndex - 1 : w[i] = 0
  BY <1>1 DEF Weight
<1>3. BytesAt(l, DOMAIN l.entries) = SumTo(w, l.nextIndex)
  BY DEF BytesAt, Weight
<1> HIDE DEF w
<1>4. SumTo(w, l.nextIndex) = SumTo(w, 0)
  BY <1>2, SumOfRest
<1>5. SumTo(w, 0) = 0
  BY SumNext
<1> QED
  BY <1>3, <1>4, <1>5 DEF BytesRight

LEMMA EmptyLogBytes == BytesRight(EmptyLog)
  BY EmptyBytes DEF EmptyLog

LEMMA ResetBytes == ASSUME NEW c \in Nat PROVE BytesRight(Reset(c))
<1>1. Reset(c).nextIndex \in Nat /\ Reset(c).entries = <<>> /\ Reset(c).bytes = 0
  BY DEF Reset
<1> QED
  BY <1>1, EmptyBytes

(* A log with the same entries has the same bytes.                         *)
LEMMA SameBytes ==
    ASSUME NEW l, BytesRight(l), NEW m, m.entries = l.entries, m.nextIndex = l.nextIndex,
           m.bytes = l.bytes
    PROVE  BytesRight(m)
  BY DEF BytesRight, BytesAt

(* One entry is written: its bytes are added, those of the one before are  *)
(* subtracted.                                                             *)
LEMMA WriteBytes ==
    ASSUME NEW l, IsLog(l), GapFree(l), BytesRight(l), l.bytes \in Int,
           NEW m, IsLog(m), GapFree(m),
           NEW j \in Nat, j < m.nextIndex, DOMAIN m.entries = DOMAIN l.entries \cup {j},
           \A i \in DOMAIN l.entries : i # j => m.entries[i] = l.entries[i],
           m.bytes = l.bytes + Size[m.entries[j].entry]
                     - (IF j \in DOMAIN l.entries THEN Size[l.entries[j].entry] ELSE 0)
    PROVE  BytesRight(m)
<1>1. PICK x, y : /\ x = Size[m.entries[j].entry]
                  /\ y = IF j \in DOMAIN l.entries THEN Size[l.entries[j].entry] ELSE 0
  OBVIOUS
<1>2. x \in Int /\ y \in Int
  BY <1>1, SizeAssumption DEF IsLog, LogEntry
<1>3. l.nextIndex \in Nat /\ m.nextIndex \in Nat
  BY DEF IsLog
<1>4. PICK n \in Nat : l.nextIndex <= n /\ m.nextIndex <= n /\ j \in 0 .. n - 1
  <2>1. l.nextIndex + m.nextIndex \in Nat
    BY <1>3
  <2> QED
    BY <1>3, <2>1
<1> DEFINE g == [i \in Nat |-> IF i = j THEN y ELSE 0]
           h == [i \in Nat |-> IF i = j THEN x ELSE 0]
<1>5. SumTo(g, n) = y /\ SumTo(h, n) = x
  BY <1>2, <1>4, SumWithOne
<1>6. ASSUME NEW i \in 0 .. n - 1
      PROVE  /\ g[i] \in Int /\ h[i] \in Int
             /\ Weight(m, DOMAIN m.entries)[i] + g[i] = Weight(l, DOMAIN l.entries)[i] + h[i]
  <2>1. CASE i = j
    <3>1. g[i] = y /\ h[i] = x
      BY <2>1
    <3>2. Weight(m, DOMAIN m.entries)[i] = x /\ Weight(l, DOMAIN l.entries)[i] = y
      BY <1>1, <2>1 DEF Weight
    <3> QED
      BY <1>2, <3>1, <3>2
  <2>2. CASE i # j
    <3>1. g[i] = 0 /\ h[i] = 0
      BY <2>2
    <3>2. i \in DOMAIN m.entries <=> i \in DOMAIN l.entries
      BY <2>2
    <3>3. Weight(m, DOMAIN m.entries)[i] = Weight(l, DOMAIN l.entries)[i]
      BY <2>2, <3>2 DEF Weight
    <3> QED
      BY <3>1, <3>3
  <2> QED
    BY <2>1, <2>2
<1>7. m.bytes = l.bytes + x - y
  BY <1>1
<1>8. m.bytes \in Int /\ m.bytes + SumTo(g, n) = l.bytes + SumTo(h, n)
  BY <1>2, <1>5, <1>7
<1> HIDE DEF g, h
<1>9. Balanced(l, m, g, h, n)
  BY <1>6 DEF Balanced
<1>10. l.nextIndex <= n /\ m.nextIndex <= n
  BY <1>4
<1> QED
  BY <1>8, <1>9, <1>10, BytesFollow

(* The estimate of a right log is a number.                                *)
LEMMA BytesInt ==
    ASSUME NEW l, IsLog(l), GapFree(l), BytesRight(l)
    PROVE  l.bytes \in Int
<1>1. l.nextIndex \in Nat
  BY DEF IsLog
<1>2. PICK w : w = Weight(l, DOMAIN l.entries)
  OBVIOUS
<1>3. l.bytes = SumTo(w, l.nextIndex) /\ \A i \in Nat : w[i] \in Nat
  BY <1>1, <1>2, BytesAtIs DEF BytesRight
<1> QED
  BY <1>1, <1>3, SumIsInt

LEMMA SubmitBytes ==
    ASSUME NEW l, IsLog(l), GapFree(l), BytesRight(l),
           NEW t \in Nat, NEW v \in Values, NEW now \in Nat
    PROVE  BytesRight(Submit(l, t, v, now))
<1>1. PICK m : m = Submit(l, t, v, now)
  OBVIOUS
<1>2. IsLog(m) /\ GapFree(m) /\ m.nextIndex = l.nextIndex + 1
  BY <1>1, SubmitOK
<1>3. /\ DOMAIN m.entries = DOMAIN l.entries \cup {l.nextIndex}
      /\ m.entries[l.nextIndex].entry = v
      /\ \A i \in DOMAIN l.entries : i # l.nextIndex => m.entries[i] = l.entries[i]
  BY <1>1, SubmitWrites
<1>4. m.bytes = l.bytes + Size[v]
  BY <1>1 DEF Submit, Store, MakeEntry, IsLog
<1>5. l.nextIndex \in Nat /\ l.nextIndex < m.nextIndex /\ l.nextIndex \notin DOMAIN l.entries
  BY <1>2 DEF IsLog, GapFree
<1>6. l.bytes \in Int /\ Size[v] \in Int
  BY BytesInt, SizeAssumption
<1>7. m.bytes = l.bytes + Size[m.entries[l.nextIndex].entry]
                - (IF l.nextIndex \in DOMAIN l.entries THEN Size[l.entries[l.nextIndex].entry] ELSE 0)
  BY <1>3, <1>4, <1>5, <1>6
<1> QED
  BY <1>1, <1>2, <1>3, <1>5, <1>6, <1>7, WriteBytes

LEMMA CompareAndAddBytes ==
    ASSUME NEW l, IsLog(l), GapFree(l), BytesRight(l), NEW n \in Nat,
           NEW t \in Nat, NEW v \in Values, NEW now \in Nat
    PROVE  BytesRight(CompareAndAdd(l, n, t, v, now))
  BY SubmitBytes DEF CompareAndAdd

\* What compareAndOverride does when it writes.
Overrides(l, n, e, m) ==
    /\ n < l.nextIndex
    /\ m.nextIndex = l.nextIndex /\ m.firstIndex = l.firstIndex /\ m.commitIndex = l.commitIndex
    /\ DOMAIN m.entries = DOMAIN l.entries \cup {n}
    /\ m.entries[n] = e
    /\ \A i \in DOMAIN l.entries : i # n => m.entries[i] = l.entries[i]
    /\ m.bytes = IF n \in DOMAIN l.entries THEN l.bytes + Size[e.entry] - Size[l.entries[n].entry]
                                           ELSE l.bytes + Size[e.entry]

LEMMA CompareAndOverrideIs ==
    ASSUME NEW l, IsLog(l), l.bytes \in Int, NEW n \in Nat, NEW t \in Nat, NEW v \in Values,
           NEW now \in Nat, NEW m, m = CompareAndOverride(l, n, t, v, now)
    PROVE  IF l.nextIndex <= n \/ (n \in DOMAIN l.entries /\ l.entries[n].term = t) THEN m = l
           ELSE Overrides(l, n, MakeEntry(t, v, now), m)
<1>1. PICK e, s : e = MakeEntry(t, v, now) /\ s = Store(l, n, e)
  OBVIOUS
<1>2. e \in LogEntry
  BY <1>1, MakeEntryOK
<1>3. /\ IsLog(s)
      /\ s.firstIndex = l.firstIndex
      /\ s.nextIndex = l.nextIndex
      /\ s.commitIndex = l.commitIndex
      /\ DOMAIN s.entries = DOMAIN l.entries \cup {n}
      /\ s.entries[n] = e
      /\ \A i \in DOMAIN l.entries : i # n => s.entries[i] = l.entries[i]
  BY <1>1, <1>2, StoreOK
<1>4. s.bytes = l.bytes + Size[e.entry]
  BY <1>1 DEF Store, IsLog
<1>5. m = IF l.nextIndex <= n THEN l
          ELSE IF n \notin DOMAIN l.entries THEN s
          ELSE IF l.entries[n].term = t THEN l
          ELSE [s EXCEPT !.bytes = @ - Size[l.entries[n].entry]]
  BY <1>1 DEF CompareAndOverride
<1>6. l.nextIndex \in Nat
  BY DEF IsLog
<1>7. CASE l.nextIndex <= n \/ (n \in DOMAIN l.entries /\ l.entries[n].term = t)
  BY <1>5, <1>7
<1>8. CASE n < l.nextIndex /\ n \notin DOMAIN l.entries
  <2>1. m = s
    BY <1>5, <1>6, <1>8
  <2> QED
    BY <1>1, <1>3, <1>4, <1>6, <1>8, <2>1 DEF Overrides
<1>9. CASE n < l.nextIndex /\ n \in DOMAIN l.entries /\ l.entries[n].term # t
  <2>1. m = [s EXCEPT !.bytes = @ - Size[l.entries[n].entry]]
    BY <1>5, <1>6, <1>9
  <2>2. /\ m.firstIndex = s.firstIndex /\ m.nextIndex = s.nextIndex
        /\ m.commitIndex = s.commitIndex /\ m.entries = s.entries
        /\ m.bytes = s.bytes - Size[l.entries[n].entry]
    BY <1>3, <2>1 DEF IsLog
  <2>3. ~(l.nextIndex <= n \/ (n \in DOMAIN l.entries /\ l.entries[n].term = t))
    BY <1>6, <1>9
  <2>4. m.bytes = IF n \in DOMAIN l.entries THEN l.bytes + Size[e.entry] - Size[l.entries[n].entry]
                                            ELSE l.bytes + Size[e.entry]
    <3>1. Size[e.entry] \in Int /\ Size[l.entries[n].entry] \in Int
      BY <1>2, <1>9, SizeAssumption DEF IsLog, LogEntry
    <3> QED
      BY <1>4, <1>9, <2>2, <3>1
  <2>5. /\ n < l.nextIndex
        /\ m.nextIndex = l.nextIndex /\ m.firstIndex = l.firstIndex /\ m.commitIndex = l.commitIndex
        /\ DOMAIN m.entries = DOMAIN l.entries \cup {n}
        /\ m.entries[n] = e
        /\ \A i \in DOMAIN l.entries : i # n => m.entries[i] = l.entries[i]
    BY <1>3, <1>9, <2>2
  <2>6. Overrides(l, n, e, m)
    BY <2>4, <2>5 DEF Overrides
  <2> QED
    BY <1>1, <2>3, <2>6
<1> QED
  BY <1>6, <1>7, <1>8, <1>9

LEMMA CompareAndOverrideBytes ==
    ASSUME NEW l, IsLog(l), GapFree(l), BytesRight(l), NEW n \in Nat,
           NEW t \in Nat, NEW v \in Values, NEW now \in Nat
    PROVE  BytesRight(CompareAndOverride(l, n, t, v, now))
<1>1. PICK m, e : m = CompareAndOverride(l, n, t, v, now) /\ e = MakeEntry(t, v, now)
  OBVIOUS
<1>2. m = l \/ Overrides(l, n, e, m)
  BY <1>1, CompareAndOverrideIs, BytesInt
<1>3. IsLog(m) /\ GapFree(m)
  BY <1>1, CompareAndOverrideOK
<1>4. CASE Overrides(l, n, e, m)
  <2>1. l.bytes \in Int /\ Size[m.entries[n].entry] \in Int
        /\ (n \in DOMAIN l.entries => Size[l.entries[n].entry] \in Int)
    <3>1. n \in DOMAIN m.entries
      BY <1>4 DEF Overrides
    <3> QED
      BY <1>3, <3>1, BytesInt, SizeAssumption DEF IsLog, LogEntry
  <2>2. /\ n < m.nextIndex /\ DOMAIN m.entries = DOMAIN l.entries \cup {n}
        /\ \A i \in DOMAIN l.entries : i # n => m.entries[i] = l.entries[i]
        /\ m.bytes = l.bytes + Size[m.entries[n].entry]
                     - (IF n \in DOMAIN l.entries THEN Size[l.entries[n].entry] ELSE 0)
    BY <1>4, <2>1 DEF Overrides
  <2> QED
    BY <1>1, <1>3, <2>1, <2>2, WriteBytes
<1> QED
  BY <1>1, <1>2, <1>4

(* What is deleted is subtracted.                                          *)
LEMMA DiscardBytes ==
    ASSUME NEW l, IsLog(l), GapFree(l), BytesRight(l), NEW S, NEW f \in Nat,
           GapFree(Discard(l, S, f))
    PROVE  BytesRight(Discard(l, S, f))
<1>1. PICK m, x : m = Discard(l, S, f) /\ x = Weight(l, S)
  OBVIOUS
<1>2. /\ IsLog(m) /\ GapFree(m) /\ m.nextIndex = l.nextIndex
      /\ DOMAIN m.entries = DOMAIN l.entries \ S
      /\ \A i \in DOMAIN m.entries : m.entries[i] = l.entries[i]
  BY <1>1, DiscardOK
<1>3. m.bytes = l.bytes - BytesAt(l, S)
  BY <1>1 DEF Discard, IsLog
<1>4. PICK n : n = l.nextIndex /\ n \in Nat
  BY DEF IsLog
<1>5. BytesAt(l, S) = SumTo(x, n) /\ \A i \in Nat : x[i] \in Nat
  BY <1>1, <1>4, BytesAtIs
<1> DEFINE z == [i \in Nat |-> 0]
<1>6. \A i \in Nat : z[i] = 0
  OBVIOUS
<1>7. \A i \in 0 .. n - 1 : Weight(m, DOMAIN m.entries)[i] + x[i] = Weight(l, DOMAIN l.entries)[i] + z[i]
  <2> SUFFICES ASSUME NEW i \in 0 .. n - 1
               PROVE  Weight(m, DOMAIN m.entries)[i] + x[i] = Weight(l, DOMAIN l.entries)[i] + z[i]
    OBVIOUS
  <2>1. i \in Nat
    BY <1>4
  <2>2. PICK y : y = Size[l.entries[i].entry]
    OBVIOUS
  <2>3. i \in DOMAIN l.entries => y \in Nat
    BY <2>2, SizeAssumption DEF IsLog, LogEntry
  <2>4. Weight(m, DOMAIN m.entries)[i] = IF i \in DOMAIN l.entries /\ i \notin S THEN y ELSE 0
    BY <1>2, <2>1, <2>2 DEF Weight
  <2>5. Weight(l, DOMAIN l.entries)[i] = IF i \in DOMAIN l.entries THEN y ELSE 0
    BY <2>1, <2>2 DEF Weight
  <2>6. x[i] = IF i \in DOMAIN l.entries /\ i \in S THEN y ELSE 0
    BY <1>1, <2>1, <2>2 DEF Weight
  <2> HIDE DEF z
  <2> QED
    BY <1>6, <2>1, <2>3, <2>4, <2>5, <2>6
<1> HIDE DEF z
<1>8. \A i \in 0 .. n - 1 : i \in Nat /\ x[i] \in Int /\ z[i] \in Int /\ z[i] = 0
  BY <1>4, <1>5, <1>6
<1>9. Balanced(l, m, x, z, n)
  BY <1>7, <1>8 DEF Balanced
<1>10. SumTo(z, n) = 0
  <2>1. SumTo(z, n) = SumTo(z, 0)
    BY <1>4, <1>8, SumOfRest
  <2> QED
    BY <2>1, SumNext
<1>11. SumTo(x, n) \in Int /\ l.bytes \in Int
  BY <1>4, <1>8, SumIsInt, BytesInt
<1>12. m.bytes \in Int /\ m.bytes + SumTo(x, n) = l.bytes + SumTo(z, n)
  BY <1>3, <1>5, <1>10, <1>11
<1>13. l.nextIndex <= n /\ m.nextIndex <= n
  BY <1>2, <1>4
<1> QED
  BY <1>1, <1>2, <1>4, <1>9, <1>12, <1>13, BytesFollow

LEMMA RemoveUntilBytes ==
    ASSUME NEW l, IsLog(l), GapFree(l), BytesRight(l), NEW n \in Nat
    PROVE  BytesRight(RemoveUntil(l, n))
<1>1. CASE n <= l.firstIndex \/ l.commitIndex <= n
  BY <1>1 DEF RemoveUntil
<1>2. CASE ~(n <= l.firstIndex \/ l.commitIndex <= n)
  <2>1. RemoveUntil(l, n) = Discard(l, l.firstIndex .. l.commitIndex - 1, n)
    BY <1>2 DEF RemoveUntil
  <2>2. GapFree(RemoveUntil(l, n))
    BY RemoveUntilOK
  <2> QED
    BY <2>1, <2>2, DiscardBytes
<1> QED
  BY <1>1, <1>2

LEMMA FirstIndexBytes ==
    ASSUME NEW l, IsLog(l), BytesRight(l), NEW f
    PROVE  BytesRight([l EXCEPT !.firstIndex = f])
<1>1. PICK m : m = [l EXCEPT !.firstIndex = f]
  OBVIOUS
<1>2. m.entries = l.entries /\ m.nextIndex = l.nextIndex /\ m.bytes = l.bytes
  BY <1>1 DEF IsLog
<1> QED
  BY <1>1, <1>2, SameBytes

LEMMA ExpireBytes ==
    ASSUME NEW l, IsLog(l), GapFree(l), BytesRight(l), NEW now \in Nat
    PROVE  BytesRight(Expire(l, now))
<1> DEFINE stale == Scanned(l, now) \cap DOMAIN l.entries
           holes == Scanned(l, now) \ DOMAIN l.entries
           afterHoles == IF holes = {} THEN l.firstIndex ELSE Max(holes) + 1
           m == Expire(l, now)
<1>1. \/ m = l
      \/ m = [l EXCEPT !.firstIndex = afterHoles]
      \/ stale # {} /\ m = Discard(l, afterHoles .. Max(stale) - 1, Max(stale))
  BY DEF Expire
<1>2. GapFree(m)
  BY ExpireOK
<1>3. CASE stale # {} /\ m = Discard(l, afterHoles .. Max(stale) - 1, Max(stale))
  <2>1. l.commitIndex \in Int /\ l.firstIndex \in Nat
    BY DEF IsLog
  <2>2. \A i \in Scanned(l, now) : i \in Int /\ l.firstIndex <= i /\ i <= l.commitIndex
    BY <2>1 DEF Scanned
  <2>2a. stale \in SUBSET Int /\ \A i \in stale : l.firstIndex <= i /\ i <= l.commitIndex
    <3> HIDE DEF m, afterHoles
    <3> QED
      BY <2>2
  <2>3. stale # {}
    BY <1>3
  <2> HIDE DEF stale, m, afterHoles
  <2>4. Max(stale) \in stale
    BY <2>1, <2>2a, <2>3, MaxBounded
  <2>5. Max(stale) \in Nat
    <3>1. PICK x : x = Max(stale)
      OBVIOUS
    <3>2. x \in Int /\ l.firstIndex <= x
      BY <2>2a, <2>4, <3>1
    <3> QED
      BY <2>1, <3>1, <3>2
  <2> QED
    BY <1>2, <1>3, <2>5, DiscardBytes DEF m
<1>4. CASE m = l
  BY <1>4
<1>5. CASE m = [l EXCEPT !.firstIndex = afterHoles]
  <2> HIDE DEF m, afterHoles
  <2> QED
    BY <1>5, FirstIndexBytes DEF m
<1> QED
  BY <1>1, <1>3, <1>4, <1>5

LEMMA CommitUntilBytes ==
    ASSUME NEW l, IsLog(l), GapFree(l), BytesRight(l), NEW n \in Int, NEW now \in Nat
    PROVE  BytesRight(CommitUntil(l, n, now))
<1>0. l.commitIndex \in Int
  BY DEF IsLog
<1>1. CASE Committed(l, n) = {}
  BY <1>1 DEF CommitUntil
<1>2. CASE Committed(l, n) # {}
  <2> DEFINE c == CommitEnd(l, n)
             k == [l EXCEPT !.commitIndex = c]
  <2>1. l.commitIndex < n
    BY <1>0, <1>2 DEF Committed
  <2>2. c \in l.commitIndex .. n /\ c < l.nextIndex
    BY <2>1, CommitEndInGapFree
  <2> HIDE DEF c
  <2>3. c \in Int /\ l.commitIndex <= c /\ c <= n
    BY <1>0, <2>2
  <2>4. /\ IsLog(k)
        /\ k.firstIndex = l.firstIndex
        /\ k.nextIndex = l.nextIndex
        /\ k.commitIndex = c
        /\ k.entries = l.entries
        /\ k.bytes = l.bytes
    BY <1>0, <2>3 DEF IsLog
  <2>5. CommitUntil(l, n, now) = Expire(k, now)
    BY <1>2 DEF CommitUntil, c
  <2> HIDE DEF k
  <2>6. GapFree(k)
    BY <2>2, <2>3, <2>4 DEF IsLog, GapFree
  <2>7. BytesRight(k)
    BY <2>4, SameBytes
  <2> QED
    BY <2>4, <2>5, <2>6, <2>7, ExpireBytes
<1> QED
  BY <1>1, <1>2

\* Where the first j messages of a request change log k: not where an entry of
\* the same term already is.
Written(k, base, j, t) ==
    {i \in base .. base + j - 1 : i \in DOMAIN k.entries => k.entries[i].term # t}

\* The entries of m are those of k with the first j messages ms written over them.
EntriesMerged(k, base, ms, t, now, j, m) ==
    /\ DOMAIN m.entries = DOMAIN k.entries \cup Written(k, base, j, t)
    /\ \A i \in DOMAIN m.entries :
            m.entries[i] = IF i \in Written(k, base, j, t) THEN MakeEntry(t, ms[i - base + 1], now)
                                                           ELSE k.entries[i]

\* m is the log k after the first j messages ms, from index base on.
Merging(k, base, ms, t, now, j, m) ==
    /\ IsLog(m) /\ GapFree(m) /\ BytesRight(m)
    /\ m.firstIndex = k.firstIndex
    /\ m.commitIndex = k.commitIndex
    /\ m.nextIndex = IF base + j <= k.nextIndex THEN k.nextIndex ELSE base + j
    /\ EntriesMerged(k, base, ms, t, now, j, m)

(* The estimate of a log with other entries at the indices W.              *)
LEMMA WriteManyBytes ==
    ASSUME NEW k, IsLog(k), GapFree(k), BytesRight(k), NEW m, IsLog(m), GapFree(m), NEW W,
           DOMAIN m.entries = DOMAIN k.entries \cup W,
           \A i \in DOMAIN k.entries : i \notin W => m.entries[i] = k.entries[i],
           k.nextIndex <= m.nextIndex,
           m.bytes = k.bytes + BytesAt(m, W) - BytesAt(k, W)
    PROVE  BytesRight(m)
<1>1. PICK n : n = m.nextIndex /\ n \in Nat
  BY DEF IsLog
<1>2. PICK g, h : g = Weight(k, W) /\ h = Weight(m, W)
  OBVIOUS
<1>3. BytesAt(k, W) = SumTo(g, n) /\ \A i \in Nat : g[i] \in Nat
  BY <1>1, <1>2, BytesAtIs
<1>4. BytesAt(m, W) = SumTo(h, n) /\ \A i \in Nat : h[i] \in Nat
  BY <1>1, <1>2, BytesAtIs
<1>5. \A i \in 0 .. n - 1 : i \in Nat /\ g[i] \in Int /\ h[i] \in Int
  BY <1>1, <1>3, <1>4
<1>6. \A i \in 0 .. n - 1 : Weight(m, DOMAIN m.entries)[i] + g[i] = Weight(k, DOMAIN k.entries)[i] + h[i]
  <2> SUFFICES ASSUME NEW i \in 0 .. n - 1
               PROVE  Weight(m, DOMAIN m.entries)[i] + g[i] = Weight(k, DOMAIN k.entries)[i] + h[i]
    OBVIOUS
  <2>1. i \in Nat
    BY <1>1
  <2>2. PICK x, y : x = Size[m.entries[i].entry] /\ y = Size[k.entries[i].entry]
    OBVIOUS
  <2>3. (i \in DOMAIN m.entries => x \in Nat) /\ (i \in DOMAIN k.entries => y \in Nat)
    BY <2>2, SizeAssumption DEF IsLog, LogEntry
  <2>4. i \in DOMAIN k.entries /\ i \notin W => x = y
    BY <2>2
  <2>5. /\ Weight(m, DOMAIN m.entries)[i] = IF i \in DOMAIN m.entries THEN x ELSE 0
        /\ h[i] = IF i \in W \cap DOMAIN m.entries THEN x ELSE 0
    BY <1>2, <2>1, <2>2 DEF Weight
  <2>6. /\ Weight(k, DOMAIN k.entries)[i] = IF i \in DOMAIN k.entries THEN y ELSE 0
        /\ g[i] = IF i \in W \cap DOMAIN k.entries THEN y ELSE 0
    BY <1>2, <2>1, <2>2 DEF Weight
  <2>7. i \in DOMAIN m.entries <=> i \in DOMAIN k.entries \/ i \in W
    OBVIOUS
  <2> QED
    BY <2>3, <2>4, <2>5, <2>6, <2>7
<1>7. Balanced(k, m, g, h, n)
  BY <1>5, <1>6 DEF Balanced
<1>8. SumTo(g, n) \in Int /\ SumTo(h, n) \in Int /\ k.bytes \in Int
  BY <1>1, <1>5, SumIsInt, BytesInt
<1>9. m.bytes \in Int /\ m.bytes + SumTo(g, n) = k.bytes + SumTo(h, n)
  BY <1>3, <1>4, <1>8
<1>10. k.nextIndex <= n /\ m.nextIndex <= n
  BY <1>1
<1> QED
  BY <1>1, <1>7, <1>9, <1>10, BytesFollow

(* The log after the follower's loop, as Merged gives it.                  *)
LEMMA MergedIs ==
    ASSUME NEW k, IsLog(k), GapFree(k), BytesRight(k), NEW base \in Nat, base <= k.nextIndex,
           NEW ms \in Seq(Values), NEW t \in Nat, NEW now \in Nat
    PROVE  Merging(k, base, ms, t, now, Len(ms), Merged(k, base, ms, t, now))
<1> DEFINE W == Written(k, base, Len(ms), t)
           es == [i \in DOMAIN k.entries \cup W |->
                     IF i \in W THEN MakeEntry(t, ms[i - base + 1], now) ELSE k.entries[i]]
           top == Max({k.nextIndex, base + Len(ms)})
           merged == [k EXCEPT !.entries = es, !.nextIndex = top]
           b == k.bytes + BytesAt(merged, W) - BytesAt(k, W)
<1>1. PICK m : m = Merged(k, base, ms, t, now)
  OBVIOUS
<1>2. m = [merged EXCEPT !.bytes = b]
  <2>1. Written(k, base, Len(ms), t) =
            {i \in base .. (base + Len(ms)) - 1 : i \in DOMAIN k.entries => k.entries[i].term # t}
    BY DEF Written
  <2> HIDE DEF b
  <2>2. b = k.bytes + BytesAt(merged, W) - BytesAt(k, W)
    BY DEF b
  <2> QED
    BY <1>1, <2>1, <2>2 DEF Merged
<1>3. /\ IsLog(m) /\ GapFree(m) /\ m.firstIndex = k.firstIndex /\ m.commitIndex = k.commitIndex
      /\ k.nextIndex <= m.nextIndex
  BY <1>1, MergedOK
<1>4. /\ DOMAIN es = DOMAIN k.entries \cup W
      /\ \A i \in DOMAIN es : es[i] = IF i \in W THEN MakeEntry(t, ms[i - base + 1], now)
                                                 ELSE k.entries[i]
  <2> HIDE DEF W
  <2> QED
    OBVIOUS
<1>5. k.nextIndex \in Nat /\ Len(ms) \in Nat
  BY DEF IsLog
<1>6. top = IF base + Len(ms) <= k.nextIndex THEN k.nextIndex ELSE base + Len(ms)
  <2>1. PICK next : next = base + Len(ms) /\ next \in Nat
    BY <1>5
  <2>2. PICK T : T = {k.nextIndex, next}
    OBVIOUS
  <2>3. /\ T \in SUBSET Int /\ T # {}
        /\ k.nextIndex + next \in Int /\ \A x \in T : x <= k.nextIndex + next
    BY <1>5, <2>1, <2>2
  <2>4. PICK x : x = Max(T)
    OBVIOUS
  <2>5. x \in T /\ \A y \in T : x >= y
    BY <2>3, <2>4, MaxBounded
  <2>6. x = IF next <= k.nextIndex THEN k.nextIndex ELSE next
    BY <1>5, <2>1, <2>2, <2>5
  <2> QED
    BY <2>1, <2>2, <2>4, <2>6
<1> HIDE DEF es, top, W
<1>7. merged.entries = es /\ merged.nextIndex = top
  BY DEF IsLog
<1>7a. m.entries = merged.entries /\ m.nextIndex = merged.nextIndex /\ m.bytes = b
  <2> HIDE DEF b
  <2> QED
    BY <1>2 DEF IsLog
<1> HIDE DEF merged
<1>8. BytesAt(merged, W) = BytesAt(m, W)
  BY <1>7a DEF BytesAt
<1>9. m.bytes = k.bytes + BytesAt(m, W) - BytesAt(k, W)
  BY <1>7a, <1>8
<1>10. DOMAIN m.entries = DOMAIN k.entries \cup W
  BY <1>4, <1>7, <1>7a
<1>11. \A i \in DOMAIN k.entries : i \notin W => m.entries[i] = k.entries[i]
  BY <1>4, <1>7, <1>7a
<1>12. BytesRight(m)
  BY <1>3, <1>9, <1>10, <1>11, WriteManyBytes
<1>13. EntriesMerged(k, base, ms, t, now, Len(ms), m)
  BY <1>4, <1>7, <1>7a DEF EntriesMerged, W
<1> QED
  BY <1>1, <1>3, <1>6, <1>7, <1>7a, <1>12, <1>13 DEF Merging

LEMMA MergeEntriesBytes ==
    ASSUME NEW l, IsLog(l), GapFree(l), BytesRight(l),
           NEW ms \in Seq(Values), NEW next \in Nat, Len(ms) <= next,
           NEW t \in Nat, NEW now \in Nat
    PROVE  BytesRight(MergeEntries(l, next, ms, t, now))
<1>1. PICK base, k : base = next - Len(ms) /\ k = IF l.nextIndex < base THEN Reset(base) ELSE l
  OBVIOUS
<1>2. base \in Nat /\ l.nextIndex \in Nat
  BY <1>1 DEF IsLog
<1>3. IsLog(k) /\ GapFree(k) /\ BytesRight(k)
  BY <1>1, <1>2, ResetOK, ResetBytes
<1>4. base <= k.nextIndex
  BY <1>1, <1>2 DEF Reset
<1>5. MergeEntries(l, next, ms, t, now) = Merged(k, base, ms, t, now)
  BY <1>1 DEF MergeEntries
<1> QED
  BY <1>2, <1>3, <1>4, <1>5, MergedIs DEF Merging

(* Two logs after the same messages are the same log.                      *)
LEMMA MergingDetermines ==
    ASSUME NEW k, NEW base, NEW ms, NEW t, NEW now, NEW j, NEW m, NEW d,
           Merging(k, base, ms, t, now, j, m), Merging(k, base, ms, t, now, j, d)
    PROVE  m = d
<1>1. DOMAIN m.entries = DOMAIN d.entries /\ \A i \in DOMAIN m.entries : m.entries[i] = d.entries[i]
  BY DEF Merging, EntriesMerged
<1>2. m.entries = d.entries
  BY <1>1 DEF Merging, IsLog
<1>3. m.firstIndex = d.firstIndex /\ m.nextIndex = d.nextIndex /\ m.commitIndex = d.commitIndex
  BY DEF Merging
<1>4. m.bytes = d.bytes
  BY <1>2, <1>3 DEF Merging, BytesRight, BytesAt
<1> QED
  BY <1>2, <1>3, <1>4 DEF Merging, IsLog

\* d is the right log l with the entry e at its end, index n.
AppendedAtEnd(l, n, e, d) ==
    /\ IsLog(d) /\ GapFree(d) /\ BytesRight(d)
    /\ d.nextIndex = n + 1 /\ d.firstIndex = l.firstIndex /\ d.commitIndex = l.commitIndex
    /\ DOMAIN d.entries = DOMAIN l.entries \cup {n}
    /\ d.entries[n] = e
    /\ \A i \in DOMAIN l.entries : i # n => d.entries[i] = l.entries[i]

LEMMA SubmitAppends ==
    ASSUME NEW l, IsLog(l), GapFree(l), BytesRight(l),
           NEW t \in Nat, NEW v \in Values, NEW now \in Nat, NEW d, d = Submit(l, t, v, now)
    PROVE  AppendedAtEnd(l, l.nextIndex, MakeEntry(t, v, now), d)
<1>1. PICK n, e, s : n = l.nextIndex /\ e = MakeEntry(t, v, now) /\ s = Store(l, n, e)
  OBVIOUS
<1>2. n \in Nat /\ e \in LogEntry
  BY <1>1, MakeEntryOK DEF IsLog
<1>3. /\ IsLog(s)
      /\ DOMAIN s.entries = DOMAIN l.entries \cup {n}
      /\ s.entries[n] = e
      /\ \A i \in DOMAIN l.entries : i # n => s.entries[i] = l.entries[i]
      /\ s.firstIndex = l.firstIndex
      /\ s.commitIndex = l.commitIndex
  BY <1>1, <1>2, StoreOK
<1>4. d = [s EXCEPT !.nextIndex = @ + 1]
  BY <1>1 DEF Submit
<1>5. d.entries = s.entries /\ d.firstIndex = s.firstIndex /\ d.commitIndex = s.commitIndex
  BY <1>3, <1>4 DEF IsLog
<1>6. IsLog(d) /\ GapFree(d) /\ d.nextIndex = n + 1
  BY <1>1, SubmitOK
<1>7. BytesRight(d)
  BY SubmitBytes
<1> QED
  BY <1>1, <1>3, <1>5, <1>6, <1>7 DEF AppendedAtEnd

(* One pass writes one more message.                                       *)
LEMMA MergingOneMore ==
    ASSUME NEW k, IsLog(k), GapFree(k), NEW base \in Nat, base <= k.nextIndex,
           NEW ms \in Seq(Values), NEW t \in Nat, NEW now \in Nat,
           NEW j \in Nat, j < Len(ms), NEW m, Merging(k, base, ms, t, now, j, m)
    PROVE  /\ base + j < k.nextIndex \/ base + j = m.nextIndex
           /\ Merging(k, base, ms, t, now, j + 1,
                      MergeOne(m, k.nextIndex, base + j, ms[j + 1], t, now))
<1>1. PICK p, v, e, d : /\ p = base + j /\ v = ms[j + 1] /\ e = MakeEntry(t, v, now)
                        /\ d = MergeOne(m, k.nextIndex, p, v, t, now)
  OBVIOUS
<1>2. k.nextIndex \in Nat /\ p \in Nat /\ Len(ms) \in Nat
  BY <1>1 DEF IsLog
<1>3. v \in Values
  BY <1>1, <1>2
<1>4. e \in LogEntry /\ e.term = t
  BY <1>1, <1>3, MakeEntryOK
<1>5. /\ IsLog(m) /\ GapFree(m) /\ BytesRight(m)
      /\ m.firstIndex = k.firstIndex
      /\ m.commitIndex = k.commitIndex
      /\ m.nextIndex = IF p <= k.nextIndex THEN k.nextIndex ELSE p
      /\ EntriesMerged(k, base, ms, t, now, j, m)
  BY <1>1 DEF Merging
<1>6. PICK W, X : W = Written(k, base, j, t) /\ X = Written(k, base, j + 1, t)
  OBVIOUS
<1>7. /\ p \notin W /\ W \subseteq X
      /\ \A i \in X : i \in W \/ i = p
      /\ p \in X <=> (p \in DOMAIN k.entries => k.entries[p].term # t)
  <2>1. \A i : i \in base .. base + j - 1 <=> i \in Int /\ base <= i /\ i < p
    BY <1>1, <1>2
  <2>2. \A i : i \in base .. base + (j + 1) - 1 <=> i \in Int /\ base <= i /\ i <= p
    BY <1>1, <1>2
  <2>3. p \in Int /\ base <= p /\ base \in Int
    BY <1>1, <1>2
  <2>4. \A i : i \in W <=> /\ i \in Int /\ base <= i /\ i < p
                           /\ i \in DOMAIN k.entries => k.entries[i].term # t
    BY <1>6, <2>1 DEF Written
  <2>5. \A i : i \in X <=> /\ i \in Int /\ base <= i /\ i <= p
                           /\ i \in DOMAIN k.entries => k.entries[i].term # t
    BY <1>6, <2>2 DEF Written
  <2> QED
    BY <2>3, <2>4, <2>5
<1>8. /\ DOMAIN m.entries = DOMAIN k.entries \cup W
      /\ \A i \in DOMAIN m.entries : m.entries[i] = IF i \in W THEN MakeEntry(t, ms[i - base + 1], now)
                                                               ELSE k.entries[i]
  BY <1>5, <1>6 DEF EntriesMerged
<1>9. e = MakeEntry(t, ms[p - base + 1], now)
  <2>1. p - base + 1 = j + 1
    BY <1>1
  <2> QED
    BY <1>1, <2>1
<1>10. p < k.nextIndex \/ p = m.nextIndex
  BY <1>2, <1>5
<1>11. CASE p < k.nextIndex
  <2>1. d = CompareAndOverride(m, p, t, v, now)
    BY <1>1, <1>11 DEF MergeOne
  <2>2. IsLog(d) /\ GapFree(d) /\ BytesRight(d)
    BY <1>2, <1>3, <1>5, <2>1, CompareAndOverrideOK, CompareAndOverrideBytes
  <2>3. ~(m.nextIndex <= p) /\ m.nextIndex = k.nextIndex
    BY <1>2, <1>5, <1>11
  <2>4. IF p \in DOMAIN m.entries /\ m.entries[p].term = t THEN d = m ELSE Overrides(m, p, e, d)
    <3>1. m.bytes \in Int
      BY <1>5, BytesInt
    <3> QED
      BY <1>1, <1>2, <1>3, <1>5, <2>1, <2>3, <3>1, CompareAndOverrideIs
  <2>5. p \in DOMAIN m.entries <=> p \in DOMAIN k.entries
    BY <1>7, <1>8
  <2>6. p \in DOMAIN m.entries => m.entries[p] = k.entries[p]
    BY <1>7, <1>8
  <2>7. base + (j + 1) <= k.nextIndex
    BY <1>1, <1>2, <1>11
  <2>8. CASE p \in DOMAIN m.entries /\ m.entries[p].term = t
    <3>1. d = m /\ p \notin X
      BY <1>7, <2>4, <2>5, <2>6, <2>8
    <3>2. X = W
      BY <1>7, <3>1
    <3>3. EntriesMerged(k, base, ms, t, now, j + 1, d)
      BY <1>6, <1>8, <3>1, <3>2 DEF EntriesMerged
    <3> QED
      BY <1>1, <1>5, <1>10, <2>3, <2>7, <3>1, <3>3 DEF Merging
  <2>9. CASE ~(p \in DOMAIN m.entries /\ m.entries[p].term = t)
    <3>1. Overrides(m, p, e, d) /\ p \in X
      BY <1>7, <2>4, <2>5, <2>6, <2>9
    <3>2. DOMAIN d.entries = DOMAIN m.entries \cup {p} /\ DOMAIN d.entries = DOMAIN k.entries \cup X
      BY <1>7, <1>8, <3>1 DEF Overrides
    <3>3. ASSUME NEW i \in DOMAIN d.entries
          PROVE  d.entries[i] = IF i \in X THEN MakeEntry(t, ms[i - base + 1], now) ELSE k.entries[i]
      <4>1. CASE i = p
        BY <1>9, <3>1, <4>1 DEF Overrides
      <4>2. CASE i # p
        <5>1. i \in DOMAIN m.entries /\ d.entries[i] = m.entries[i]
          BY <3>1, <3>2, <4>2 DEF Overrides
        <5>2. i \in X <=> i \in W
          BY <1>7, <4>2
        <5> QED
          BY <1>8, <5>1, <5>2
      <4> QED
        BY <4>1, <4>2
    <3>4. EntriesMerged(k, base, ms, t, now, j + 1, d)
      BY <1>6, <3>2, <3>3 DEF EntriesMerged
    <3>5. d.nextIndex = m.nextIndex /\ d.firstIndex = m.firstIndex /\ d.commitIndex = m.commitIndex
      BY <3>1 DEF Overrides
    <3> QED
      BY <1>1, <1>5, <1>10, <2>2, <2>3, <2>7, <3>4, <3>5 DEF Merging
  <2> QED
    BY <2>8, <2>9
<1>12. CASE ~(p < k.nextIndex)
  <2>1. p = m.nextIndex /\ p \notin DOMAIN k.entries /\ p \in X
    BY <1>2, <1>7, <1>10, <1>12 DEF GapFree
  <2>2. d = Submit(m, t, v, now)
    <3>1. d = CompareAndAdd(m, p, t, v, now)
      BY <1>1, <1>12 DEF MergeOne
    <3> QED
      BY <2>1, <3>1 DEF CompareAndAdd
  <2>3. AppendedAtEnd(m, p, e, d)
    BY <1>1, <1>3, <1>5, <2>1, <2>2, SubmitAppends
  <2>4. /\ IsLog(d) /\ GapFree(d) /\ BytesRight(d)
        /\ d.nextIndex = p + 1 /\ d.commitIndex = m.commitIndex /\ d.firstIndex = m.firstIndex
        /\ DOMAIN d.entries = DOMAIN m.entries \cup {p}
        /\ \A i \in DOMAIN m.entries : i # p => d.entries[i] = m.entries[i]
    BY <2>3 DEF AppendedAtEnd
  <2>5. d.entries[p] = e
    BY <2>3 DEF AppendedAtEnd
  <2>6. DOMAIN d.entries = DOMAIN k.entries \cup X
    BY <1>7, <1>8, <2>1, <2>4
  <2>7. ASSUME NEW i \in DOMAIN d.entries
        PROVE  d.entries[i] = IF i \in X THEN MakeEntry(t, ms[i - base + 1], now) ELSE k.entries[i]
    <3>1. CASE i = p
      BY <1>9, <2>1, <2>5, <3>1
    <3>2. CASE i # p
      <4>1. i \in DOMAIN m.entries /\ d.entries[i] = m.entries[i]
        BY <2>4, <3>2
      <4>2. i \in X <=> i \in W
        BY <1>7, <3>2
      <4> QED
        BY <1>8, <4>1, <4>2
    <3> QED
      BY <3>1, <3>2
  <2>8. EntriesMerged(k, base, ms, t, now, j + 1, d)
    BY <1>6, <2>6, <2>7 DEF EntriesMerged
  <2>9. d.nextIndex = IF base + (j + 1) <= k.nextIndex THEN k.nextIndex ELSE base + (j + 1)
    BY <1>1, <1>2, <1>12, <2>4
  <2> QED
    BY <1>1, <1>5, <1>10, <2>4, <2>8, <2>9 DEF Merging
<1> QED
  BY <1>11, <1>12

\* s has the logs after the passes up to the n-th.
Passes(k, base, ms, t, now, s, n) ==
    s = [i \in 0 .. n |-> IF i = 0 THEN k
                          ELSE MergeOne(s[i - 1], k.nextIndex, base + i - 1, ms[i], t, now)]

(* The loop's recursive definition has a solution, for any number of       *)
(* messages.                                                               *)
LEMMA PassesExist ==
    ASSUME NEW k, NEW base, NEW ms, NEW t, NEW now, NEW n \in Nat
    PROVE  \E s : Passes(k, base, ms, t, now, s, n)
<1> DEFINE Pass(l, i) == MergeOne(l, k.nextIndex, base + i - 1, ms[i], t, now)
           S == {m \in Nat : \E s : s = [i \in 0 .. m |-> IF i = 0 THEN k ELSE Pass(s[i - 1], i)]}
<1>1. 0 \in S
  <2> HIDE DEF Pass
  <2> DEFINE s == [i \in 0 .. 0 |-> k]
  <2>1. s = [i \in 0 .. 0 |-> IF i = 0 THEN k ELSE Pass(s[i - 1], i)]
    OBVIOUS
  <2> QED
    BY <2>1
<1>2. ASSUME NEW m \in Nat, m \in S PROVE m + 1 \in S
  <2> HIDE DEF Pass
  <2>1. PICK s : s = [i \in 0 .. m |-> IF i = 0 THEN k ELSE Pass(s[i - 1], i)]
    BY <1>2
  <2> DEFINE g == [i \in 0 .. m + 1 |-> IF i = m + 1 THEN Pass(s[m], m + 1) ELSE s[i]]
  <2>2. ASSUME NEW i \in 0 .. m + 1
        PROVE  g[i] = IF i = 0 THEN k ELSE Pass(g[i - 1], i)
    <3>1. CASE i = m + 1
      <4>1. m + 1 # 0 /\ m \in 0 .. m + 1 /\ m # m + 1 /\ (m + 1) - 1 = m
        OBVIOUS
      <4>2. g[m + 1] = Pass(s[m], m + 1) /\ g[m] = s[m]
        BY <4>1
      <4> HIDE DEF g
      <4> QED
        BY <3>1, <4>1, <4>2
    <3>2. CASE i \in 0 .. m
      <4>1. g[i] = s[i] /\ (i # 0 => g[i - 1] = s[i - 1])
        BY <3>2
      <4>2. s[i] = IF i = 0 THEN k ELSE Pass(s[i - 1], i)
        BY <2>1, <3>2
      <4> HIDE DEF g
      <4> QED
        BY <4>1, <4>2
    <3> QED
      BY <3>1, <3>2
  <2>3. g = [i \in 0 .. m + 1 |-> g[i]]
    OBVIOUS
  <2> HIDE DEF g
  <2>4. g = [i \in 0 .. m + 1 |-> IF i = 0 THEN k ELSE Pass(g[i - 1], i)]
    BY <2>2, <2>3
  <2> QED
    BY <2>4
<1>3. n \in S
  <2> HIDE DEF S
  <2> QED
    BY <1>1, <1>2, UpFromZero
<1> QED
  BY <1>3 DEF Passes

(* What the model has of a follower's loop over a request, as one step, is *)
(* what the calls of the loop, one after the other, do to the log, for any *)
(* number of messages; and no call of compareAndAdd is refused, so that    *)
(* the request succeeds.                                                   *)
LEMMA MergeIsTheLoop ==
    ASSUME NEW l, IsLog(l), GapFree(l), BytesRight(l),
           NEW ms \in Seq(Values), NEW next \in Nat, Len(ms) <= next,
           NEW t \in Nat, NEW now \in Nat
    PROVE  MergesLikeTheLoop(l, next, ms, t, now)
<1> DEFINE after == MergeByCalls(l, next, ms, t, now)
<1> HIDE DEF after
<1>1. PICK base, k : base = next - Len(ms) /\ k = IF l.nextIndex < base THEN Reset(base) ELSE l
  OBVIOUS
<1>2. base \in Nat /\ l.nextIndex \in Nat /\ Len(ms) \in Nat
  BY <1>1 DEF IsLog
<1>3. IsLog(k) /\ GapFree(k) /\ BytesRight(k)
  BY <1>1, <1>2, ResetOK, ResetBytes
<1>4. base <= k.nextIndex /\ k.nextIndex \in Nat
  BY <1>1, <1>2, <1>3 DEF Reset, IsLog
<1>5. Passes(k, base, ms, t, now, after, Len(ms))
  <2>1. after = CHOOSE s : Passes(k, base, ms, t, now, s, Len(ms))
    BY <1>1 DEF MergeByCalls, Passes, after
  <2>2. \E s : Passes(k, base, ms, t, now, s, Len(ms))
    BY <1>2, PassesExist
  <2> QED
    BY <2>1, <2>2
<1>6. \A i \in 0 .. Len(ms) :
        after[i] = IF i = 0 THEN k
                   ELSE MergeOne(after[i - 1], k.nextIndex, base + i - 1, ms[i], t, now)
  BY <1>5 DEF Passes
<1> DEFINE S == {j \in Nat : j <= Len(ms) => Merging(k, base, ms, t, now, j, after[j])}
<1>7. 0 \in S
  <2>1. after[0] = k
    BY <1>2, <1>6
  <2>2. Written(k, base, 0, t) = {}
    <3>1. base .. base + 0 - 1 = {}
      BY <1>2
    <3> QED
      BY <3>1 DEF Written
  <2>3. EntriesMerged(k, base, ms, t, now, 0, k)
    BY <2>2 DEF EntriesMerged
  <2>4. Merging(k, base, ms, t, now, 0, k)
    BY <1>2, <1>3, <1>4, <2>3 DEF Merging
  <2> QED
    BY <2>1, <2>4
<1>8. ASSUME NEW j \in Nat, j \in S PROVE j + 1 \in S
  <2> SUFFICES ASSUME j + 1 <= Len(ms)
               PROVE  Merging(k, base, ms, t, now, j + 1, after[j + 1])
    OBVIOUS
  <2>1. Merging(k, base, ms, t, now, j, after[j]) /\ j < Len(ms)
    BY <1>2, <1>8
  <2>2. j + 1 \in 0 .. Len(ms) /\ j + 1 # 0 /\ (j + 1) - 1 = j /\ base + (j + 1) - 1 = base + j
    BY <1>2
  <2>3. after[j + 1] = MergeOne(after[j], k.nextIndex, base + j, ms[j + 1], t, now)
    BY <1>6, <2>2
  <2>4. Merging(k, base, ms, t, now, j + 1,
                MergeOne(after[j], k.nextIndex, base + j, ms[j + 1], t, now))
    <3>1. PICK m : m = after[j]
      OBVIOUS
    <3>2. Merging(k, base, ms, t, now, j, m) /\ j < Len(ms)
      BY <2>1, <3>1
    <3>3. Merging(k, base, ms, t, now, j + 1, MergeOne(m, k.nextIndex, base + j, ms[j + 1], t, now))
      BY <1>2, <1>3, <1>4, <3>2, MergingOneMore
    <3> QED
      BY <3>1, <3>3
  <2> QED
    BY <2>3, <2>4
<1> HIDE DEF S
<1>9. Nat \subseteq S
  BY <1>7, <1>8, UpFromZero
<1>10. \A j \in Nat : j <= Len(ms) => Merging(k, base, ms, t, now, j, after[j])
  BY <1>9 DEF S
<1>11. after[Len(ms)] = MergeEntries(l, next, ms, t, now)
  <2>1. MergeEntries(l, next, ms, t, now) = Merged(k, base, ms, t, now)
    BY <1>1 DEF MergeEntries
  <2>2. Merging(k, base, ms, t, now, Len(ms), Merged(k, base, ms, t, now))
    BY <1>2, <1>3, <1>4, MergedIs
  <2>3. Merging(k, base, ms, t, now, Len(ms), after[Len(ms)])
    BY <1>2, <1>10
  <2> QED
    BY <2>1, <2>2, <2>3, MergingDetermines
<1>12. ASSUME NEW n \in 1 .. Len(ms)
       PROVE  base + n - 1 < after[0].nextIndex \/ base + n - 1 = after[n - 1].nextIndex
  <2>1. PICK j : j = n - 1 /\ j \in Nat /\ j < Len(ms) /\ base + n - 1 = base + j
    BY <1>2
  <2>2. Merging(k, base, ms, t, now, j, after[j])
    BY <1>2, <1>10, <2>1
  <2>3. base + j < k.nextIndex \/ base + j = after[j].nextIndex
    BY <1>2, <1>3, <1>4, <2>1, <2>2, MergingOneMore
  <2>4. after[0] = k
    BY <1>2, <1>6
  <2> QED
    BY <2>1, <2>3, <2>4
<1> QED
  BY <1>1, <1>11, <1>12 DEF MergesLikeTheLoop, after
=============================================================================
