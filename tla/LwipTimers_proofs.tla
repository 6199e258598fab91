-------------------------- MODULE LwipTimers_proofs --------------------------
(***************************************************************************)
(* lwIP's timeouts for any handlers, intervals and number of connections:    *)
(* what sys_timeout does to the relative times of the list, how many         *)
(* timeouts there are of each handler, and that the list implements Alarms. *)
(***************************************************************************)
EXTENDS LwipTimers, NatRecursion, FiniteSetTheorems, FunctionTheorems, SequenceTheorems

-----------------------------------------------------------------------------
(* The handlers in the order sys_timeouts_init starts them. *)
All == Append(Started, TCP)

LEMMA AllFacts ==
  /\ Started \in Seq(Handler) /\ Len(Started) \in Nat
  /\ All \in Seq(Handler) /\ Len(All) = Len(Started) + 1
  /\ \A k \in 1..Len(Started) : All[k] = Started[k] /\ Started[k] \in Cyclic
  /\ All[Len(All)] = TCP
  /\ \A k \in Handler : \E i \in 1..Len(All) : All[i] = k
<1>1. Started \in Seq(Handler) /\ Len(Started) \in Nat
  BY LwipTimersAssumption, SeqMonotonic DEF Handler
<1>2. TCP \in Handler
  BY DEF Handler
<1>3. /\ All \in Seq(Handler) /\ Len(All) = Len(Started) + 1
      /\ \A k \in 1..Len(Started) : All[k] = Started[k]
      /\ All[Len(All)] = TCP
  BY <1>1, <1>2 DEF All
<1>4. DOMAIN Started = 1..Len(Started) /\ \A k \in 1..Len(Started) : Started[k] \in Cyclic
  BY LwipTimersAssumption
<1>5. ASSUME NEW k \in Handler PROVE \E i \in 1..Len(All) : All[i] = k
  <2>1. CASE k = TCP
    <3>1. Len(All) \in 1..Len(All)
      BY <1>1, <1>3
    <3> QED
      BY <1>3, <2>1, <3>1
  <2>2. CASE k # TCP
    <3>1. PICK i \in 1..Len(Started) : Started[i] = k
      BY <1>4, <1>5, <2>2 DEF Handler, Cyclic, ToSet
    <3>2. i \in 1..Len(All)
      BY <1>1, <1>3
    <3> QED
      BY <1>3, <3>1, <3>2
  <2> QED
    BY <2>1, <2>2
<1> QED
  BY <1>1, <1>3, <1>4, <1>5

(* The longest interval. *)
LEMMA IntervalBound ==
  /\ Max(Intervals) \in Nat
  /\ \A k \in Handler : Interval[k] \in 0..Max(Intervals) /\ Interval[k] > 0
<1> DEFINE n == Len(All)
           v(i) == Interval[All[i]]
           T == {m \in 0..n : m = 0 \/ \E i \in 1..m : \A j \in 1..m : v(j) <= v(i)}
<1>1. n \in Nat /\ n > 0 /\ \A i \in 1..n : All[i] \in Handler /\ v(i) \in Nat
  <2>1. n \in Nat /\ n > 0 /\ \A i \in 1..n : All[i] \in Handler
    BY AllFacts
  <2> QED
    BY <2>1, LwipTimersAssumption
<1> HIDE DEF n, v
<1>2. 0 \in T
  BY <1>1
<1>3. ASSUME NEW m \in 1..n, m - 1 \in T PROVE m \in T
  <2>1. CASE m = 1
    BY <1>1, <2>1
  <2>2. CASE m # 1
    <3>1. PICK i \in 1..m - 1 : \A j \in 1..m - 1 : v(j) <= v(i)
      BY <1>3, <2>2
    <3>2. i \in 1..m /\ m \in 1..m /\ v(i) \in Nat /\ v(m) \in Nat
      BY <1>1
    <3>3. CASE v(m) <= v(i)
      <4>1. \A j \in 1..m : v(j) <= v(i)
        BY <3>1, <3>3
      <4> QED
        BY <3>2, <4>1
    <3>4. CASE v(m) > v(i)
      <4>1. \A j \in 1..m : v(j) <= v(m)
        BY <1>1, <3>1, <3>2, <3>4
      <4> QED
        BY <3>2, <4>1
    <3> QED
      BY <3>2, <3>3, <3>4
  <2> QED
    BY <2>1, <2>2
<1> HIDE DEF T
<1>4. n \in T
  <2>1. n \in Nat
    BY <1>1
  <2> QED
    BY <1>2, <1>3, <2>1, UpTo
<1>5. PICK i \in 1..n : \A j \in 1..n : v(j) <= v(i)
  BY <1>1, <1>4 DEF T
<1>6. v(i) \in Intervals /\ \A x \in Intervals : v(i) >= x /\ x \in Nat /\ x > 0
  <2>1. v(i) \in Intervals
    BY <1>1 DEF v, Intervals
  <2>2. ASSUME NEW k \in Handler PROVE v(i) >= Interval[k] /\ Interval[k] \in Nat /\ Interval[k] > 0
    <3>1. PICK j \in 1..n : All[j] = k
      BY AllFacts DEF n
    <3>2. v(j) <= v(i) /\ v(j) = Interval[k]
      BY <1>5, <3>1 DEF v
    <3>3. Interval[k] \in Nat /\ Interval[k] > 0
      BY LwipTimersAssumption
    <3> QED
      BY <1>1, <3>2, <3>3
  <2> QED
    BY <2>1, <2>2 DEF Intervals
<1>7. /\ Max(Intervals) \in Intervals
      /\ \A x \in Intervals : Max(Intervals) >= x
  BY <1>6 DEF Max
<1>8. \A k \in Handler : Interval[k] \in Intervals
  BY DEF Intervals
<1> QED
  BY <1>6, <1>7, <1>8

LEMMA TimeoutFacts ==
  ASSUME NEW q \in Seq(Timeout)
  PROVE  /\ Len(q) \in Nat
         /\ \A j \in 1..Len(q) : /\ q[j] \in Timeout
                                 /\ q[j].h \in Handler
                                 /\ q[j].time \in Nat
<1>1. \A j \in 1..Len(q) : q[j] \in Timeout
  OBVIOUS
<1>2. \A e \in Timeout : e.h \in Handler /\ e.time \in Nat
  BY IntervalBound DEF Timeout
<1> QED
  BY <1>1, <1>2

-----------------------------------------------------------------------------
(* The times of the list added up. *)
LEMMA DueAtSums ==
  ASSUME NEW q \in Seq(Timeout)
  PROVE  /\ DueAt(q) \in [0..Len(q) -> Nat]
         /\ DueAt(q)[0] = 0
         /\ \A j \in 1..Len(q) : DueAt(q)[j] = DueAt(q)[j - 1] + q[j].time
<1> DEFINE n == Len(q)
           D == DueAt(q)
           E(g) == [k \in 0..n |-> IF k = 0 THEN 0 ELSE g[k - 1] + q[k].time]
           step == [k \in 1..n |-> [x \in Nat |-> x + q[k].time]]
<1>1. n \in Nat /\ \A k \in 1..n : q[k].time \in Nat
  BY TimeoutFacts
<1>2. D = CHOOSE g : g = E(g)
  BY DEF DueAt
<1> HIDE DEF n, D
<1>3. PICK g : Solves(g, Nat, n, 0, step)
  <2>1. step \in Steps(Nat, n)
    BY <1>1 DEF Steps
  <2>2. 0 \in Nat
    OBVIOUS
  <2> HIDE DEF step
  <2> QED
    BY <1>1, <2>1, <2>2, Solution
<1>4. g = E(g)
  <2>1. g \in [0..n -> Nat] /\ g[0] = 0 /\ \A k \in 1..n : g[k] = step[k][g[k - 1]]
    BY <1>3 DEF Solves
  <2>2. \A k \in 1..n : g[k - 1] \in Nat
    BY <1>1, <2>1
  <2>3. \A k \in 1..n : g[k] = g[k - 1] + q[k].time
    BY <2>1, <2>2
  <2> QED
    BY <1>1, <2>1, <2>3
<1>5. D = E(D)
  BY <1>2, <1>4
<1>6. D[0] = 0 /\ \A k \in 1..n : D[k] = D[k - 1] + q[k].time
  <2>1. \A k \in 0..n : D[k] = IF k = 0 THEN 0 ELSE D[k - 1] + q[k].time
    BY <1>5
  <2> QED
    BY <1>1, <2>1
<1>7. \A k \in 0..n : D[k] \in Nat
  <2> DEFINE T == {k \in 0..n : D[k] \in Nat}
  <2>1. 0 \in T
    BY <1>1, <1>6
  <2>2. \A k \in 1..n : k - 1 \in T => k \in T
    BY <1>1, <1>6
  <2> HIDE DEF T
  <2>3. \A k \in 0..n : k \in T
    BY <1>1, <2>1, <2>2, UpTo
  <2> QED
    BY <2>3 DEF T
<1>8. D = [k \in 0..n |-> D[k]]
  BY <1>5
<1> QED
  BY <1>6, <1>7, <1>8 DEF n, D

(* They determine when each entry is due. *)
LEMMA DueAtUnique ==
  ASSUME NEW q \in Seq(Timeout), NEW d, d[0] = 0,
         \A j \in 1..Len(q) : d[j] = d[j - 1] + q[j].time
  PROVE  \A j \in 0..Len(q) : DueAt(q)[j] = d[j]
<1> DEFINE n == Len(q)
           T == {j \in 0..n : DueAt(q)[j] = d[j]}
<1>1. n \in Nat /\ \A j \in 1..n : DueAt(q)[j] = DueAt(q)[j - 1] + q[j].time
  BY DueAtSums, TimeoutFacts
<1>2. 0 \in T
  BY <1>1, DueAtSums
<1>3. \A j \in 1..n : j - 1 \in T => j \in T
  BY <1>1
<1> HIDE DEF T
<1>4. \A j \in 0..n : j \in T
  BY <1>1, <1>2, <1>3, UpTo
<1> QED
  BY <1>4 DEF T

(* The entries due no later than the new one come before it. *)
LEMMA PlaceFound ==
  ASSUME NEW q \in Seq(Timeout), NEW k \in Handler
  PROVE  /\ Place(q, k) \in 0..Len(q)
         /\ DueAt(q)[Place(q, k)] <= Interval[k]
         /\ Place(q, k) < Len(q) => DueAt(q)[Place(q, k) + 1] > Interval[k]
         /\ \A j \in 1..Len(q) : DueAt(q)[j] <= Interval[k] <=> j <= Place(q, k)
<1> DEFINE n == Len(q)
           D == DueAt(q)
           I == Interval[k]
           Before(m) == {j \in 1..m : D[j] <= I}
           Prefix(m, p) == /\ Before(m) = 1..p
                           /\ D[p] <= I
                           /\ p < m => D[m] > I /\ D[p + 1] > I
           T == {m \in 0..n : \E p \in 0..m : Prefix(m, p)}
<1>1. D \in [0..n -> Nat] /\ D[0] = 0 /\ \A j \in 1..n : D[j] = D[j - 1] + q[j].time
  BY DueAtSums
<1>2. n \in Nat /\ \A j \in 1..n : q[j].time \in Nat
  BY TimeoutFacts
<1>3. I \in Nat
  BY IntervalBound
<1> HIDE DEF n, D, I, Before, Prefix
<1>4. \A j \in 0..n : D[j] \in Nat
  BY <1>1
<1>5. \A j \in 1..n : D[j] >= D[j - 1]
  <2> SUFFICES ASSUME NEW j \in 1..n PROVE D[j] >= D[j - 1]
    OBVIOUS
  <2>1. j \in 0..n /\ j - 1 \in 0..n /\ q[j].time \in Nat
    BY <1>2
  <2>2. D[j] \in Nat /\ D[j - 1] \in Nat /\ D[j] = D[j - 1] + q[j].time
    BY <1>1, <1>4, <2>1
  <2> QED
    BY <2>1, <2>2
<1>6. 0 \in T
  <2>1. Prefix(0, 0)
    BY <1>1, <1>3 DEF Before, Prefix
  <2> QED
    BY <1>2, <2>1
<1>7. ASSUME NEW m \in 1..n, m - 1 \in T PROVE m \in T
  <2>1. PICK p \in 0..m - 1 : Prefix(m - 1, p)
    BY <1>7
  <2>2. \A j : j \in Before(m) <=> j \in Before(m - 1) \/ (j = m /\ D[m] <= I)
    BY <1>2 DEF Before
  <2>3. m \in 0..n /\ p \in 0..m /\ m \in 0..m /\ D[m] \in Nat /\ D[m - 1] \in Nat
        /\ D[m] >= D[m - 1]
    BY <1>2, <1>4, <1>5
  <2>4. CASE D[m] <= I
    <3>1. p = m - 1
      <4>1. p < m - 1 => D[m - 1] > I
        BY <2>1 DEF Prefix
      <4> QED
        BY <1>2, <1>3, <2>3, <2>4, <4>1
    <3>2. Before(m) = 1..m
      <4>1. Before(m - 1) = 1..m - 1
        BY <2>1, <3>1 DEF Prefix
      <4>2. \A j : j \in 1..m <=> j \in 1..m - 1 \/ j = m
        BY <1>2
      <4>3. \A j : j \in Before(m) <=> j \in 1..m
        BY <2>2, <2>4, <4>1, <4>2
      <4> QED
        BY <4>3
    <3>3. Prefix(m, m)
      BY <2>3, <2>4, <3>2 DEF Prefix
    <3> QED
      BY <2>3, <3>3
  <2>5. CASE D[m] > I
    <3>1. ~(D[m] <= I)
      BY <1>3, <2>3, <2>5
    <3>2. Before(m) = 1..p
      BY <2>1, <2>2, <3>1 DEF Prefix
    <3>3. D[p + 1] > I
      <4>1. CASE p < m - 1
        BY <2>1, <4>1 DEF Prefix
      <4>2. CASE ~(p < m - 1)
        <5>1. p + 1 = m
          BY <1>2, <4>2
        <5> QED
          BY <2>5, <5>1
      <4> QED
        BY <4>1, <4>2
    <3>4. Prefix(m, p)
      BY <2>1, <2>5, <3>2, <3>3 DEF Prefix
    <3> QED
      BY <2>3, <3>4
  <2> QED
    BY <1>3, <2>3, <2>4, <2>5
<1> HIDE DEF T
<1>8. n \in T
  BY <1>2, <1>6, <1>7, UpTo
<1>9. PICK p \in 0..n : Prefix(n, p)
  BY <1>8 DEF T
<1>10. Place(q, k) = Cardinality(1..p)
  BY <1>9 DEF Place, Prefix, Before, n, D, I
<1>11. Place(q, k) = p
  BY <1>2, <1>9, <1>10, FS_Interval
<1>12. \A j \in 1..n : D[j] <= I <=> j <= p
  <2>1. \A j \in 1..n : j \in Before(n) <=> D[j] <= I
    BY DEF Before
  <2>2. \A j \in 1..n : j \in Before(n) <=> j <= p
    BY <1>2, <1>9 DEF Prefix
  <2> QED
    BY <2>1, <2>2
<1> QED
  BY <1>9, <1>11, <1>12 DEF Prefix, n, D, I

-----------------------------------------------------------------------------
(* InsertAt of the community module: what comes after the new element is shifted. *)
Shifted(s, i, r) == \A j \in i + 1..Len(s) + 1 : r[j] = s[j - 1]

LEMMA Inserted ==
  ASSUME NEW S, NEW s \in Seq(S), NEW e \in S, NEW i \in 1..Len(s) + 1
  PROVE  /\ InsertAt(s, i, e) \in Seq(S)
         /\ Len(InsertAt(s, i, e)) = Len(s) + 1
         /\ \A j \in 1..i - 1 : InsertAt(s, i, e)[j] = s[j]
         /\ InsertAt(s, i, e)[i] = e
         /\ Shifted(s, i, InsertAt(s, i, e))
<1> DEFINE front == SubSeq(s, 1, i - 1)
           back == SubSeq(s, i, Len(s))
<1>1. /\ front \in Seq(S) /\ Len(front) = i - 1
      /\ \A j \in 1..i - 1 : front[j] = s[j]
  OBVIOUS
<1>2. /\ back \in Seq(S) /\ Len(back) = Len(s) - i + 1
      /\ \A j \in 1..Len(s) - i + 1 : back[j] = s[i + j - 1]
  OBVIOUS
<1>3. InsertAt(s, i, e) = front \o <<e>> \o back
  BY DEF InsertAt
<1> HIDE DEF front, back
<1>4. /\ front \o <<e>> \in Seq(S) /\ Len(front \o <<e>>) = i
      /\ \A j \in 1..i - 1 : (front \o <<e>>)[j] = s[j]
      /\ (front \o <<e>>)[i] = e
  <2>1. <<e>> \in Seq(S) /\ Len(<<e>>) = 1 /\ <<e>>[1] = e
    OBVIOUS
  <2> DEFINE one == <<e>>
  <2> HIDE DEF one
  <2>2. /\ front \o one \in Seq(S) /\ Len(front \o one) = Len(front) + Len(one)
        /\ \A j \in 1..Len(front) + Len(one) :
             (front \o one)[j] = IF j <= Len(front) THEN front[j] ELSE one[j - Len(front)]
    BY <1>1, <2>1, ConcatProperties DEF one
  <2> QED
    BY <1>1, <2>1, <2>2 DEF one
<1> DEFINE a == front \o <<e>>
<1>5. a \in Seq(S) /\ Len(a) = i /\ InsertAt(s, i, e) = a \o back
  BY <1>3, <1>4
<1> HIDE DEF a
<1>6. /\ a \o back \in Seq(S) /\ Len(a \o back) = Len(a) + Len(back)
      /\ \A j \in 1..Len(a) + Len(back) :
           (a \o back)[j] = IF j <= Len(a) THEN a[j] ELSE back[j - Len(a)]
  BY <1>2, <1>5, ConcatProperties
<1>7. Len(s) \in Nat
  OBVIOUS
<1>8. \A j \in 1..i - 1 : InsertAt(s, i, e)[j] = s[j]
  BY <1>2, <1>4, <1>5, <1>6, <1>7 DEF a
<1>9. InsertAt(s, i, e)[i] = e
  BY <1>2, <1>4, <1>5, <1>6, <1>7 DEF a
<1>10. \A j \in i + 1..Len(s) + 1 : InsertAt(s, i, e)[j] = s[j - 1]
  BY <1>2, <1>5, <1>6, <1>7
<1> QED
  BY <1>2, <1>5, <1>6, <1>7, <1>8, <1>9, <1>10 DEF Shifted

-----------------------------------------------------------------------------
(* sys_timeout puts its entry, relative to the one before it, in its place, and  *)
(* makes the one after it relative to it. *)
Relative(q, k) == Interval[k] - DueAt(q)[Place(q, k)]

LEMMA NextRelative ==
  ASSUME NEW M \in Nat, NEW I \in 0..M, NEW d \in Nat, NEW t \in 0..M,
         d <= I, d + t > I
  PROVE  t - (I - d) \in 0..M
OBVIOUS

LEMMA NextEntry ==
  ASSUME NEW q \in Seq(Timeout), NEW k \in Handler, NEW i \in 1..Len(q),
         Place(q, k) = i - 1
  PROVE  /\ q[i].time - Relative(q, k) \in 0..Max(Intervals)
         /\ [q[i] EXCEPT !.time = @ - Relative(q, k)]
              = [h |-> q[i].h, time |-> q[i].time - Relative(q, k)]
<1> DEFINE D == DueAt(q)
<1>1. D[i - 1] <= Interval[k] /\ D[i] > Interval[k]
  BY PlaceFound
<1>2. D[i] = D[i - 1] + q[i].time /\ D[i - 1] \in Nat
  BY DueAtSums
<1>3. q[i] \in Timeout
  OBVIOUS
<1>4. q[i].time \in 0..Max(Intervals)
  BY <1>3 DEF Timeout
<1>5. Relative(q, k) = Interval[k] - D[i - 1]
  BY DEF Relative
<1>6. Interval[k] \in 0..Max(Intervals) /\ Max(Intervals) \in Nat
  BY IntervalBound
<1> HIDE DEF D
<1>7. q[i].time - Relative(q, k) \in 0..Max(Intervals)
  BY <1>1, <1>2, <1>4, <1>5, <1>6, NextRelative
<1>8. [q[i] EXCEPT !.time = @ - Relative(q, k)]
        = [h |-> q[i].h, time |-> q[i].time - Relative(q, k)]
  BY <1>3 DEF Timeout
<1> QED
  BY <1>7, <1>8

LEMMA InsertEntries ==
  ASSUME NEW q \in Seq(Timeout), NEW k \in Handler
  PROVE  LET p == Place(q, k)
             r == Insert(q, k)
         IN  /\ r \in Seq(Timeout)
             /\ Len(r) = Len(q) + 1
             /\ \A j \in 1..p : r[j] = q[j]
             /\ r[p + 1] = [h |-> k, time |-> Relative(q, k)]
             /\ p < Len(q) => r[p + 2] = [h |-> q[p + 1].h,
                                         time |-> q[p + 1].time - Relative(q, k)]
             /\ \A j \in p + 3..Len(q) + 1 : r[j] = q[j - 1]
<1> DEFINE n == Len(q)
           p == Place(q, k)
           D == DueAt(q)
           time == Relative(q, k)
           e == [h |-> k, time |-> time]
           q1 == [j \in 1..n |-> IF j = p + 1 THEN [q[j] EXCEPT !.time = @ - time]
                                  ELSE q[j]]
<1>1. n \in Nat /\ \A j \in 1..n : q[j] \in Timeout /\ q[j].h \in Handler /\ q[j].time \in Nat
  BY TimeoutFacts
<1>2. p \in 0..n /\ D[p] <= Interval[k] /\ (p < n => D[p + 1] > Interval[k])
  BY PlaceFound
<1>3. \A j \in 0..n : D[j] \in Nat
  BY DueAtSums
<1>4. Interval[k] \in 0..Max(Intervals) /\ Max(Intervals) \in Nat
  BY IntervalBound
<1>5. time \in 0..Max(Intervals)
  BY <1>2, <1>3, <1>4 DEF Relative
<1>6. e \in Timeout
  BY <1>5 DEF Timeout
<1>7. p < n => /\ q[p + 1].time - time \in 0..Max(Intervals)
               /\ [q[p + 1] EXCEPT !.time = @ - time]
                    = [h |-> q[p + 1].h, time |-> q[p + 1].time - time]
  <2> SUFFICES ASSUME p < n
               PROVE  /\ q[p + 1].time - time \in 0..Max(Intervals)
                      /\ [q[p + 1] EXCEPT !.time = @ - time]
                           = [h |-> q[p + 1].h, time |-> q[p + 1].time - time]
    OBVIOUS
  <2> DEFINE i == p + 1
  <2>1. i \in 1..n /\ p = i - 1 /\ i = p + 1
    BY <1>1, <1>2
  <2> HIDE DEF i, p
  <2> QED
    BY <2>1, NextEntry DEF p
<1>8. q1 \in Seq(Timeout) /\ Len(q1) = n
  <2>1. \A j \in 1..n : q1[j] \in Timeout
    <3> SUFFICES ASSUME NEW j \in 1..n PROVE q1[j] \in Timeout
      OBVIOUS
    <3>1. CASE j = p + 1
      <4>1. p < n
        BY <1>1, <1>2, <3>1
      <4>2. q1[j] = [h |-> q[p + 1].h, time |-> q[p + 1].time - time]
        BY <1>7, <3>1, <4>1
      <4>3. q[p + 1].h \in Handler
        BY <1>1, <3>1
      <4> QED
        BY <1>7, <4>1, <4>2, <4>3 DEF Timeout
    <3>2. CASE j # p + 1
      BY <1>1, <3>2
    <3> QED
      BY <3>1, <3>2
  <2>2. q1 \in [1..n -> Timeout]
    BY <2>1
  <2> HIDE DEF q1, n
  <2> QED
    BY <1>1, <2>2
<1>9. Insert(q, k) = InsertAt(q1, p + 1, e)
  BY DEF Insert, Relative
<1>10. p + 1 \in 1..Len(q1) + 1
  BY <1>1, <1>2, <1>8
<1>11. /\ \A j \in 1..n : j # p + 1 => q1[j] = q[j]
       /\ p < n => q1[p + 1] = [q[p + 1] EXCEPT !.time = @ - time]
  BY <1>1, <1>2
<1>12. p < n => q1[p + 1] = [h |-> q[p + 1].h, time |-> q[p + 1].time - time]
  BY <1>7, <1>11
<1> DEFINE r == Insert(q, k)
<1> HIDE DEF q1, e, n, p, time
<1>13. /\ r \in Seq(Timeout) /\ Len(r) = n + 1
       /\ \A j \in 1..p : r[j] = q1[j]
       /\ r[p + 1] = e
       /\ \A j \in p + 2..n + 1 : r[j] = q1[j - 1]
  <2> DEFINE i == p + 1
             x == InsertAt(q1, i, e)
  <2>1. i \in 1..Len(q1) + 1 /\ r = x
    BY <1>9, <1>10
  <2> HIDE DEF i
  <2>2. x \in Seq(Timeout) /\ Len(x) = Len(q1) + 1
    BY <1>6, <1>8, <2>1, Inserted
  <2>3. x[i] = e
    BY <1>6, <1>8, <2>1, Inserted
  <2>4. \A j \in 1..i - 1 : x[j] = q1[j]
    BY <1>6, <1>8, <2>1, Inserted
  <2>5. ASSUME NEW j \in i + 1..Len(q1) + 1 PROVE x[j] = q1[j - 1]
    <3>1. Shifted(q1, i, x)
      BY <1>6, <1>8, <2>1, Inserted
    <3> HIDE DEF x
    <3> QED
      BY <3>1 DEF Shifted
  <2> HIDE DEF x, r
  <2>6. i = p + 1
    BY DEF i
  <2>7. r \in Seq(Timeout) /\ Len(r) = n + 1 /\ r[p + 1] = e
    BY <1>8, <2>1, <2>2, <2>3, <2>6
  <2>8. ASSUME NEW j \in 1..p PROVE r[j] = q1[j]
    <3>1. j \in 1..i - 1
      BY <1>1, <1>2, <2>6
    <3> QED
      BY <2>1, <2>4, <3>1
  <2>9. ASSUME NEW j \in p + 2..n + 1 PROVE r[j] = q1[j - 1]
    <3>1. j \in i + 1..Len(q1) + 1
      BY <1>1, <1>2, <1>8, <2>6
    <3> QED
      BY <2>1, <2>5, <3>1
  <2> QED
    BY <2>7, <2>8, <2>9
<1> HIDE DEF r
<1>14. \A j \in 1..p : r[j] = q[j]
  <2> SUFFICES ASSUME NEW j \in 1..p PROVE r[j] = q[j]
    OBVIOUS
  <2>1. j \in 1..p /\ j \in 1..n /\ j # p + 1
    BY <1>1, <1>2
  <2> QED
    BY <1>11, <1>13, <2>1
<1>15. p < n => r[p + 2] = q1[p + 1]
  <2> SUFFICES ASSUME p < n PROVE r[p + 2] = q1[p + 1]
    OBVIOUS
  <2> DEFINE j == p + 2
  <2>1. j \in p + 2..n + 1 /\ j - 1 = p + 1
    BY <1>1, <1>2
  <2> HIDE DEF j
  <2>2. r[j] = q1[j - 1]
    BY <1>13, <2>1
  <2> QED
    BY <2>1, <2>2 DEF j
<1>16. \A j \in p + 3..n + 1 : r[j] = q[j - 1]
  <2> SUFFICES ASSUME NEW j \in p + 3..n + 1 PROVE r[j] = q[j - 1]
    OBVIOUS
  <2>1. j \in p + 2..n + 1 /\ j - 1 \in 1..n /\ j - 1 # p + 1
    BY <1>1, <1>2
  <2> QED
    BY <1>11, <1>13, <2>1
<1> QED
  BY <1>12, <1>13, <1>14, <1>15, <1>16 DEF r, e, n, p, time

(* The new entry is due after its interval, and the others when they were. *)
LEMMA InsertDue ==
  ASSUME NEW q \in Seq(Timeout), NEW k \in Handler
  PROVE  LET p == Place(q, k)
             r == Insert(q, k)
         IN  /\ \A j \in 0..p : DueAt(r)[j] = DueAt(q)[j]
             /\ DueAt(r)[p + 1] = Interval[k]
             /\ \A j \in p + 2..Len(q) + 1 : DueAt(r)[j] = DueAt(q)[j - 1]
<1> DEFINE n == Len(q)
           p == Place(q, k)
           r == Insert(q, k)
           D == DueAt(q)
           R == Relative(q, k)
           I == Interval[k]
           d == [j \in 0..n + 1 |-> IF j <= p THEN D[j] ELSE IF j = p + 1 THEN I ELSE D[j - 1]]
<1>1. n \in Nat /\ p \in 0..n
  BY TimeoutFacts, PlaceFound
<1>2. r \in Seq(Timeout) /\ Len(r) = n + 1
  BY InsertEntries
<1>3. /\ \A j \in 1..p : r[j] = q[j]
      /\ r[p + 1] = [h |-> k, time |-> R]
      /\ p < n => r[p + 2] = [h |-> q[p + 1].h, time |-> q[p + 1].time - R]
      /\ \A j \in p + 3..n + 1 : r[j] = q[j - 1]
  BY InsertEntries
<1>4. /\ D[0] = 0
      /\ \A j \in 0..n : D[j] \in Nat
      /\ \A j \in 1..n : D[j] = D[j - 1] + q[j].time
  BY DueAtSums
<1>5. \A j \in 1..n : q[j].time \in Nat
  BY TimeoutFacts
<1>6. R = I - D[p] /\ I \in Nat
  BY IntervalBound DEF Relative
<1> HIDE DEF n, p, r, D, R, I
<1>7. /\ \A j \in 1..p : r[j].time = q[j].time
      /\ r[p + 1].time = R
      /\ p < n => r[p + 2].time = q[p + 1].time - R
      /\ \A j \in p + 3..n + 1 : r[j].time = q[j - 1].time
  BY <1>3
<1>8. d[0] = 0
  BY <1>1, <1>4
<1>9. ASSUME NEW j \in 1..n + 1 PROVE d[j] = d[j - 1] + r[j].time
  <2>1. j \in 0..n + 1 /\ j - 1 \in 0..n + 1
    BY <1>1
  <2>2. /\ d[j] = IF j <= p THEN D[j] ELSE IF j = p + 1 THEN I ELSE D[j - 1]
        /\ d[j - 1] = IF j - 1 <= p THEN D[j - 1] ELSE IF j - 1 = p + 1 THEN I ELSE D[j - 1 - 1]
    BY <2>1
  <2> HIDE DEF d
  <2>3. CASE j <= p
    <3>1. j \in 1..p /\ j \in 1..n /\ j - 1 <= p
      BY <1>1, <2>3
    <3>2. D[j] = D[j - 1] + q[j].time /\ r[j].time = q[j].time
      BY <1>7, <1>4, <3>1
    <3> QED
      BY <2>2, <2>3, <3>1, <3>2
  <2>4. CASE j = p + 1
    <3>1. j - 1 = p /\ ~(j <= p)
      BY <1>1, <2>4
    <3>2. d[j] = I /\ d[j - 1] = D[p]
      BY <1>1, <2>2, <2>4, <3>1
    <3>3. D[p] \in Nat /\ r[j].time = R
      BY <1>1, <1>7, <1>4, <2>4
    <3> QED
      BY <1>6, <3>2, <3>3
  <2>5. CASE j = p + 2
    <3> DEFINE i == p + 1
    <3>1. i \in 1..n /\ j - 1 = i /\ i - 1 = p /\ p < n /\ ~(j <= p) /\ j # p + 1
      BY <1>1, <2>5
    <3>2. r[j].time = q[p + 1].time - R
      BY <1>7, <2>5, <3>1
    <3>3. d[j] = D[j - 1] /\ d[j - 1] = I
      BY <1>1, <2>2, <3>1
    <3>4. i = p + 1
      OBVIOUS
    <3> HIDE DEF i
    <3>5. D[i] = D[i - 1] + q[i].time /\ q[i].time \in Nat
      BY <1>4, <1>5, <3>1
    <3>6. D[i] = D[p] + q[i].time /\ r[j].time = q[i].time - R /\ d[j] = D[i]
      BY <3>1, <3>2, <3>3, <3>4, <3>5
    <3>7. D[p] \in Nat
      BY <1>1, <1>4
    <3> QED
      BY <1>6, <3>3, <3>5, <3>6, <3>7
  <2>6. CASE j > p + 2
    <3> DEFINE i == j - 1
    <3>1. i \in 1..n /\ j \in p + 3..n + 1 /\ ~(j <= p) /\ j # p + 1 /\ ~(j - 1 <= p)
          /\ j - 1 # p + 1
      BY <1>1, <2>6
    <3>2. r[j].time = q[j - 1].time /\ d[j] = D[j - 1] /\ d[j - 1] = D[j - 1 - 1]
      BY <1>7, <2>2, <3>1
    <3>3. i = j - 1
      OBVIOUS
    <3> HIDE DEF i
    <3>4. D[i] = D[i - 1] + q[i].time
      BY <1>4, <3>1
    <3> QED
      BY <3>2, <3>3, <3>4
  <2> QED
    BY <1>1, <2>3, <2>4, <2>5, <2>6
<1>10. \A j \in 0..n + 1 : DueAt(r)[j] = d[j]
  <2> HIDE DEF d
  <2>1. \A j \in 0..Len(r) : DueAt(r)[j] = d[j]
    BY <1>2, <1>8, <1>9, DueAtUnique
  <2> QED
    BY <1>2, <2>1
<1>11. \A j \in 0..p : DueAt(r)[j] = D[j]
  BY <1>1, <1>10
<1>12. DueAt(r)[p + 1] = I
  BY <1>1, <1>10
<1>13. \A j \in p + 2..n + 1 : DueAt(r)[j] = D[j - 1]
  BY <1>1, <1>10
<1> QED
  BY <1>11, <1>12, <1>13 DEF n, p, r, D, I

-----------------------------------------------------------------------------
(* Where the entries of the list were before sys_timeout. *)
LEMMA InsertShift ==
  ASSUME NEW q \in Seq(Timeout), NEW k \in Handler,
         NEW i, i = Place(q, k) + 1
  PROVE  LET r == Insert(q, k) IN
         /\ i \in 1..Len(q) + 1
         /\ r[i].h = k /\ DueAt(r)[i] = Interval[k]
         /\ \A j \in 1..Len(q) :
              LET m == IF j < i THEN j ELSE j + 1 IN
              r[m].h = q[j].h /\ DueAt(r)[m] = DueAt(q)[j]
<1> DEFINE n == Len(q)
           p == Place(q, k)
           r == Insert(q, k)
           D == DueAt(q)
           R == DueAt(r)
<1>1. n \in Nat /\ p \in 0..n
  BY TimeoutFacts, PlaceFound
<1> DEFINE T == Relative(q, k)
<1>2. /\ \A j \in 1..p : r[j] = q[j]
      /\ r[p + 1] = [h |-> k, time |-> T]
      /\ p < n => r[p + 2] = [h |-> q[p + 1].h, time |-> q[p + 1].time - T]
      /\ \A j \in p + 3..n + 1 : r[j] = q[j - 1]
  BY InsertEntries
<1>3. /\ \A j \in 0..p : R[j] = D[j]
      /\ R[p + 1] = Interval[k]
      /\ \A j \in p + 2..n + 1 : R[j] = D[j - 1]
  BY InsertDue
<1>4. i = p + 1
  OBVIOUS
<1> HIDE DEF n, p, r, D, R, T
<1>5. /\ \A j \in 1..p : r[j].h = q[j].h
      /\ r[p + 1].h = k
      /\ p < n => r[p + 2].h = q[p + 1].h
      /\ \A j \in p + 3..n + 1 : r[j].h = q[j - 1].h
  BY <1>2
<1>6. i \in 1..n + 1 /\ r[i].h = k /\ R[i] = Interval[k]
  BY <1>1, <1>5, <1>3, <1>4
<1>7. ASSUME NEW j \in 1..n, j < i PROVE r[j].h = q[j].h /\ R[j] = D[j]
  BY <1>1, <1>5, <1>3, <1>4, <1>7
<1>8. ASSUME NEW j \in 1..n, ~(j < i) PROVE r[j + 1].h = q[j].h /\ R[j + 1] = D[j]
  <2> DEFINE m == j + 1
  <2>1. m \in p + 2..n + 1 /\ m - 1 = j /\ (m = p + 2 \/ m \in p + 3..n + 1)
    BY <1>1, <1>4, <1>8
  <2>2. m = p + 2 => j = p + 1 /\ p < n
    BY <1>1
  <2> HIDE DEF m
  <2>3. R[m] = D[j]
    BY <1>3, <2>1
  <2>4. r[m].h = q[j].h
    BY <1>5, <2>1, <2>2
  <2> QED
    BY <2>3, <2>4 DEF m
<1> QED
  BY <1>6, <1>7, <1>8 DEF n, p, r, D, R

-----------------------------------------------------------------------------
(* How many entries a handler has. *)
Where(q, k) == {j \in 1..Len(q) : q[j].h = k}
Count(q, k) == Cardinality(Where(q, k))
One(b) == IF b THEN 1 ELSE 0

LEMMA CountType ==
  ASSUME NEW q \in Seq(Timeout), NEW k
  PROVE  /\ IsFiniteSet(Where(q, k)) /\ Count(q, k) \in Nat
         /\ Count(q, k) = 0 <=> Where(q, k) = {}
<1>1. Len(q) \in Nat
  BY TimeoutFacts
<1>2. IsFiniteSet(1..Len(q))
  BY <1>1, FS_Interval
<1>3. Where(q, k) \in SUBSET (1..Len(q))
  BY DEF Where
<1>4. IsFiniteSet(Where(q, k))
  BY <1>2, <1>3, FS_Subset
<1> QED
  BY <1>4, FS_CardinalityType, FS_EmptySet DEF Count

(* An entry more is counted for its handler. *)
LEMMA CountOneMore ==
  ASSUME NEW q \in Seq(Timeout), NEW r \in Seq(Timeout),
         NEW i \in 1..Len(r), Len(r) = Len(q) + 1,
         \A j \in 1..Len(q) : LET m == IF j < i THEN j ELSE j + 1 IN r[m].h = q[j].h,
         NEW k
  PROVE  Count(r, k) = Count(q, k) + One(r[i].h = k)
<1> DEFINE n == Len(q)
           A == Where(q, k)
           B == Where(r, k) \ {i}
           f == [j \in A |-> IF j < i THEN j ELSE j + 1]
<1>1. n \in Nat /\ i \in 1..n + 1
  BY TimeoutFacts
<1>2. \A j : j \in A <=> j \in 1..n /\ q[j].h = k
  BY DEF Where
<1>3. \A j : j \in B <=> j \in 1..n + 1 /\ r[j].h = k /\ j # i
  BY DEF Where
<1>4. \A j \in 1..n : /\ j < i => r[j].h = q[j].h
                      /\ ~(j < i) => r[j + 1].h = q[j].h
  OBVIOUS
<1> HIDE DEF n, A, B
<1>5. f \in [A -> B]
  <2> SUFFICES ASSUME NEW j \in A PROVE f[j] \in B
    OBVIOUS
  <2>1. j \in 1..n /\ q[j].h = k
    BY <1>2
  <2>2. CASE j < i
    BY <1>1, <1>3, <1>4, <2>1, <2>2
  <2>3. CASE ~(j < i)
    <3> DEFINE m == j + 1
    <3>1. m \in 1..n + 1 /\ m # i /\ r[m].h = k
      BY <1>1, <1>4, <2>1, <2>3
    <3>2. f[j] = m
      BY <2>3
    <3> HIDE DEF m
    <3> QED
      BY <1>3, <3>1, <3>2
  <2> QED
    BY <2>2, <2>3
<1>6. ASSUME NEW a \in A, NEW b \in A, f[a] = f[b] PROVE a = b
  <2>1. a \in 1..n /\ b \in 1..n
    BY <1>2
  <2> QED
    BY <1>1, <1>6, <2>1
<1>7. ASSUME NEW b \in B PROVE \E a \in A : f[a] = b
  <2>1. b \in 1..n + 1 /\ r[b].h = k /\ b # i
    BY <1>3
  <2>2. CASE b < i
    <3>1. b \in 1..n
      BY <1>1, <2>1, <2>2
    <3>2. b \in A
      BY <1>2, <1>4, <2>1, <2>2, <3>1
    <3> QED
      BY <2>2, <3>2
  <2>3. CASE ~(b < i)
    <3> DEFINE a == b - 1
    <3>1. a \in 1..n /\ ~(a < i) /\ a + 1 = b
      BY <1>1, <2>1, <2>3
    <3> HIDE DEF a
    <3>2. a \in A
      BY <1>2, <1>4, <2>1, <3>1
    <3> QED
      BY <3>1, <3>2
  <2> QED
    BY <2>2, <2>3
<1>8. ExistsBijection(A, B)
  <2> HIDE DEF f
  <2>1. f \in Bijection(A, B)
    BY <1>5, <1>6, <1>7, Fun_IsBij
  <2> QED
    BY <2>1 DEF ExistsBijection
<1>9. IsFiniteSet(A) /\ Count(q, k) = Cardinality(A) /\ Cardinality(A) \in Nat
  BY CountType DEF A, Count
<1>10. Cardinality(B) = Cardinality(A)
  BY <1>8, <1>9, FS_Bijection
<1>11. IsFiniteSet(Where(r, k)) /\ Count(r, k) = Cardinality(Where(r, k)) /\ Count(r, k) \in Nat
  BY CountType DEF Count
<1>12. Cardinality(B) = IF i \in Where(r, k) THEN Cardinality(Where(r, k)) - 1
                                             ELSE Cardinality(Where(r, k))
  BY <1>11, FS_RemoveElement DEF B
<1>13. i \in Where(r, k) <=> r[i].h = k
  BY DEF Where
<1> QED
  BY <1>9, <1>10, <1>11, <1>12, <1>13 DEF One

LEMMA CountInsert ==
  ASSUME NEW q \in Seq(Timeout), NEW k \in Handler
  PROVE  /\ Insert(q, k) \in Seq(Timeout)
         /\ Len(Insert(q, k)) = Len(q) + 1
         /\ \A x : Count(Insert(q, k), x) = Count(q, x) + One(k = x)
<1> DEFINE r == Insert(q, k)
           i == Place(q, k) + 1
<1>1. r \in Seq(Timeout) /\ Len(r) = Len(q) + 1
  BY InsertEntries
<1>2. /\ i \in 1..Len(r)
      /\ r[i].h = k
      /\ \A j \in 1..Len(q) : LET m == IF j < i THEN j ELSE j + 1 IN r[m].h = q[j].h
  BY <1>1, InsertShift
<1> HIDE DEF r, i
<1>3. \A x : Count(r, x) = Count(q, x) + One(k = x)
  BY <1>1, <1>2, CountOneMore
<1> QED
  BY <1>1, <1>3 DEF r

LEMMA Cut ==
  ASSUME NEW S, NEW s \in Seq(S), NEW i \in 1..Len(s) + 1
  PROVE  /\ SubSeq(s, i, Len(s)) \in Seq(S)
         /\ Len(SubSeq(s, i, Len(s))) = Len(s) - i + 1
         /\ \A j \in 1..Len(s) - i + 1 : SubSeq(s, i, Len(s))[j] = s[i + j - 1]
OBVIOUS

(* next_timeout is set to the successor of the first entry, *)
LEMMA CountPop ==
  ASSUME NEW q \in Seq(Timeout), Len(q) >= 1
  PROVE  LET r == SubSeq(q, 2, Len(q)) IN
         /\ r \in Seq(Timeout)
         /\ Len(r) = Len(q) - 1
         /\ \A j \in 1..Len(q) - 1 : r[j] = q[j + 1]
         /\ \A k : Count(r, k) = Count(q, k) - One(q[1].h = k)
<1> DEFINE r == SubSeq(q, 2, Len(q))
<1>1. Len(q) \in Nat /\ 1 \in 1..Len(q)
  BY TimeoutFacts
<1>2. /\ r \in Seq(Timeout)
      /\ Len(r) = Len(q) - 1
      /\ \A j \in 1..Len(q) - 1 : r[j] = q[j + 1]
  <2>1. 2 \in 1..Len(q) + 1
    BY <1>1
  <2>2. /\ r \in Seq(Timeout) /\ Len(r) = Len(q) - 2 + 1
        /\ \A j \in 1..Len(q) - 2 + 1 : r[j] = q[2 + j - 1]
    BY <2>1, Cut
  <2> HIDE DEF r
  <2> QED
    BY <1>1, <2>2
<1> HIDE DEF r
<1>3. /\ Len(q) = Len(r) + 1
      /\ \A j \in 1..Len(r) : LET m == IF j < 1 THEN j ELSE j + 1 IN q[m].h = r[j].h
  BY <1>1, <1>2
<1>4. ASSUME NEW k PROVE Count(r, k) = Count(q, k) - One(q[1].h = k)
  <2>1. Count(q, k) = Count(r, k) + One(q[1].h = k)
    BY <1>1, <1>2, <1>3, CountOneMore
  <2>2. Count(r, k) \in Nat
    BY <1>2, CountType
  <2> QED
    BY <2>1, <2>2 DEF One
<1> QED
  BY <1>2, <1>4 DEF r

(* or of the second. *)
LEMMA CountPopTwo ==
  ASSUME NEW q \in Seq(Timeout), Len(q) >= 2
  PROVE  LET r == SubSeq(q, 3, Len(q)) IN
         /\ r \in Seq(Timeout)
         /\ Len(r) = Len(q) - 2
         /\ \A k : Count(r, k) = Count(q, k) - One(q[1].h = k) - One(q[2].h = k)
<1> DEFINE s == SubSeq(q, 2, Len(q))
           r == SubSeq(s, 2, Len(s))
<1>1. Len(q) \in Nat /\ 1 \in 1..Len(q) - 1
  BY TimeoutFacts
<1>2. /\ s \in Seq(Timeout) /\ Len(s) = Len(q) - 1
      /\ \A j \in 1..Len(q) - 1 : s[j] = q[j + 1]
      /\ \A k : Count(s, k) = Count(q, k) - One(q[1].h = k)
  BY CountPop
<1>3. s[1] = q[2]
  BY <1>1, <1>2
<1> HIDE DEF s
<1>4. /\ r \in Seq(Timeout) /\ Len(r) = Len(s) - 1
      /\ \A j \in 1..Len(s) - 1 : r[j] = s[j + 1]
      /\ \A k : Count(r, k) = Count(s, k) - One(s[1].h = k)
  BY <1>1, <1>2, CountPop
<1>5. r = SubSeq(q, 3, Len(q))
  <2> DEFINE t == SubSeq(q, 3, Len(q))
  <2>1. 3 \in 1..Len(q) + 1
    BY <1>1
  <2>2. /\ t \in Seq(Timeout) /\ Len(t) = Len(q) - 3 + 1
        /\ \A j \in 1..Len(q) - 3 + 1 : t[j] = q[3 + j - 1]
    BY <2>1, Cut
  <2> HIDE DEF t
  <2>3. t \in Seq(Timeout) /\ Len(t) = Len(q) - 2 /\ \A j \in 1..Len(q) - 2 : t[j] = q[j + 2]
    BY <1>1, <2>2
  <2> HIDE DEF t, r
  <2>4. ASSUME NEW j \in 1..Len(r) PROVE r[j] = t[j]
    <3>1. j \in 1..Len(s) - 1 /\ j + 1 \in 1..Len(q) - 1 /\ j + 1 + 1 = j + 2
          /\ j \in 1..Len(q) - 2
      BY <1>1, <1>2, <1>4
    <3> QED
      BY <1>2, <1>4, <2>3, <3>1
  <2>5. Len(r) = Len(t)
    BY <1>1, <1>2, <1>4, <2>3
  <2>6. r = t
    BY <1>4, <2>3, <2>4, <2>5, SeqEqual
  <2> QED
    BY <2>6 DEF t
<1> HIDE DEF r
<1> QED
  BY <1>1, <1>2, <1>3, <1>4, <1>5

-----------------------------------------------------------------------------
LEMMA AllOnce == \A i, j \in 1..Len(All) : All[i] = All[j] => i = j
<1>1. \A i, j \in 1..Len(Started) : Started[i] = Started[j] => i = j
  <2>1. DOMAIN Started = 1..Len(Started) /\ IsInjective(Started)
    BY LwipTimersAssumption
  <2> QED
    BY <2>1 DEF IsInjective
<1>2. TCP \notin Cyclic
  BY LwipTimersAssumption
<1> SUFFICES ASSUME NEW i \in 1..Len(All), NEW j \in 1..Len(All), All[i] = All[j]
             PROVE  i = j
  OBVIOUS
<1>3. /\ i \in 1..Len(Started) \/ i = Len(All)
      /\ j \in 1..Len(Started) \/ j = Len(All)
  BY AllFacts
<1>4. /\ i \in 1..Len(Started) => All[i] = Started[i] /\ All[i] \in Cyclic
      /\ j \in 1..Len(Started) => All[j] = Started[j] /\ All[j] \in Cyclic
      /\ All[Len(All)] = TCP
  BY AllFacts
<1> QED
  BY <1>1, <1>2, <1>3, <1>4

(* In a list to which nothing was done but sys_timeout, every entry is due after its *)
(* interval. *)
OnTime(q) == \A j \in 1..Len(q) : DueAt(q)[j] = Interval[q[j].h]

LEMMA InsertOnTime ==
  ASSUME NEW q \in Seq(Timeout), NEW k \in Handler, OnTime(q)
  PROVE  OnTime(Insert(q, k))
<1> DEFINE n == Len(q)
           r == Insert(q, k)
           i == Place(q, k) + 1
           D == DueAt(q)
           R == DueAt(r)
<1>1. n \in Nat /\ Len(r) = n + 1
  BY CountInsert, TimeoutFacts
<1>2. i \in 1..n + 1 /\ r[i].h = k /\ R[i] = Interval[k]
  BY InsertShift
<1>3. \A j \in 1..n : LET m == IF j < i THEN j ELSE j + 1 IN r[m].h = q[j].h /\ R[m] = D[j]
  BY InsertShift
<1>4. \A j \in 1..n : D[j] = Interval[q[j].h]
  BY DEF OnTime
<1> HIDE DEF n, r, i, D, R
<1>5. ASSUME NEW m \in 1..n + 1 PROVE R[m] = Interval[r[m].h]
  <2>1. CASE m < i
    <3>1. m \in 1..n
      BY <1>1, <1>2, <2>1
    <3>2. r[m].h = q[m].h /\ R[m] = D[m]
      BY <1>3, <2>1, <3>1
    <3> QED
      BY <1>4, <3>1, <3>2
  <2>2. CASE m = i
    BY <1>2, <2>2
  <2>3. CASE m > i
    <3> DEFINE j == m - 1
    <3>1. j \in 1..n /\ ~(j < i) /\ j + 1 = m
      BY <1>1, <1>2, <2>3
    <3> HIDE DEF j
    <3>2. r[m].h = q[j].h /\ R[m] = D[j]
      BY <1>3, <3>1
    <3> QED
      BY <1>4, <3>1, <3>2
  <2> QED
    BY <1>1, <1>2, <2>1, <2>2, <2>3
<1>6. \A m \in 1..Len(r) : R[m] = Interval[r[m].h]
  BY <1>1, <1>5
<1> QED
  BY <1>6 DEF OnTime, r, R

(* sys_timeouts_init starts every handler once, each for its interval. *)
LEMMA StartsUp ==
  /\ Startup \in Seq(Timeout) /\ Len(Startup) = Len(Started) + 1
  /\ \A k \in Handler : Count(Startup, k) = 1
  /\ OnTime(Startup)
<1> DEFINE n == Len(All)
           E(g) == [k \in 0..n |-> IF k = 0 THEN <<>> ELSE Insert(g[k - 1], All[k])]
           B == CHOOSE g : g = E(g)
           step == [k \in 1..n |-> [x \in Seq(Timeout) |-> Insert(x, All[k])]]
<1>1. n \in Nat /\ \A k \in 1..n : All[k] \in Handler
  BY AllFacts
<1>2. Startup = B[n]
  BY DEF Startup, All
<1> HIDE DEF n, B
<1>3. PICK g : Solves(g, Seq(Timeout), n, <<>>, step)
  <2>1. step \in Steps(Seq(Timeout), n)
    BY <1>1, CountInsert DEF Steps
  <2>2. <<>> \in Seq(Timeout)
    OBVIOUS
  <2> HIDE DEF step
  <2> QED
    BY <1>1, <2>1, <2>2, Solution
<1>4. g = E(g)
  <2>1. /\ g \in [0..n -> Seq(Timeout)] /\ g[0] = <<>>
        /\ \A k \in 1..n : g[k] = step[k][g[k - 1]]
    BY <1>3 DEF Solves
  <2>2. \A k \in 1..n : g[k - 1] \in Seq(Timeout)
    BY <1>1, <2>1
  <2>3. \A k \in 1..n : g[k] = Insert(g[k - 1], All[k])
    BY <2>1, <2>2
  <2> QED
    BY <1>1, <2>1, <2>3
<1>5. B = E(B)
  BY <1>4 DEF B
<1>6. B[0] = <<>> /\ \A k \in 1..n : B[k] = Insert(B[k - 1], All[k])
  <2>1. \A k \in 0..n : B[k] = IF k = 0 THEN <<>> ELSE Insert(B[k - 1], All[k])
    BY <1>5
  <2> QED
    BY <1>1, <2>1
<1> DEFINE Met(m, k) == \E j \in 1..m : All[j] = k
           T == {m \in 0..n : /\ B[m] \in Seq(Timeout) /\ Len(B[m]) = m /\ OnTime(B[m])
                              /\ \A k \in Handler : Count(B[m], k) = One(Met(m, k))}
<1>7. 0 \in T
  <2>1. <<>> \in Seq(Timeout) /\ Len(<<>>) = 0
    OBVIOUS
  <2>2. \A k : Where(<<>>, k) = {} /\ ~Met(0, k)
    BY <2>1 DEF Where
  <2> HIDE DEF Met
  <2>3. ASSUME NEW k PROVE Count(<<>>, k) = 0
    <3>1. Where(<<>>, k) = {}
      BY <2>2
    <3> QED
      BY <3>1, FS_EmptySet DEF Count
  <2>4. \A k \in Handler : Count(B[0], k) = One(Met(0, k))
    BY <1>6, <2>2, <2>3 DEF One
  <2>5. 0 \in 0..n /\ B[0] \in Seq(Timeout) /\ Len(B[0]) = 0
    BY <1>1, <1>6, <2>1
  <2>6. OnTime(B[0])
    BY <2>5 DEF OnTime
  <2> QED
    BY <2>4, <2>5, <2>6
<1>8. ASSUME NEW m \in 1..n, m - 1 \in T PROVE m \in T
  <2> DEFINE q == B[m - 1]
  <2>1. /\ q \in Seq(Timeout) /\ Len(q) = m - 1 /\ OnTime(q)
        /\ \A k \in Handler : Count(q, k) = One(Met(m - 1, k))
    BY <1>8
  <2>2. B[m] = Insert(q, All[m]) /\ All[m] \in Handler
    BY <1>1, <1>6
  <2> HIDE DEF q
  <2>3. /\ B[m] \in Seq(Timeout) /\ Len(B[m]) = Len(q) + 1
        /\ \A k : Count(B[m], k) = Count(q, k) + One(All[m] = k)
    BY <2>1, <2>2, CountInsert
  <2>4. ASSUME NEW k \in Handler
        PROVE  One(Met(m, k)) = One(Met(m - 1, k)) + One(All[m] = k)
    <3>1. Met(m, k) <=> Met(m - 1, k) \/ All[m] = k
      <4>1. \A j : j \in 1..m <=> j \in 1..m - 1 \/ j = m
        BY <1>1
      <4> QED
        BY <4>1
    <3>2. ~(Met(m - 1, k) /\ All[m] = k)
      <4> SUFFICES ASSUME NEW j \in 1..m - 1, All[j] = k, All[m] = k PROVE FALSE
        OBVIOUS
      <4>1. j \in 1..Len(All) /\ m \in 1..Len(All) /\ j # m
        BY <1>1 DEF n
      <4> QED
        BY <4>1, AllOnce
    <3> HIDE DEF Met
    <3> QED
      BY <3>1, <3>2 DEF One
  <2>5. Len(B[m]) = m /\ m \in 0..n
    BY <1>1, <2>1, <2>3
  <2>6. OnTime(B[m])
    BY <2>1, <2>2, InsertOnTime
  <2> HIDE DEF Met
  <2> QED
    BY <2>1, <2>3, <2>4, <2>5, <2>6
<1> HIDE DEF T
<1>9. n \in T
  BY <1>1, <1>7, <1>8, UpTo
<1>10. /\ B[n] \in Seq(Timeout) /\ Len(B[n]) = n /\ OnTime(B[n])
       /\ \A k \in Handler : Count(B[n], k) = One(Met(n, k))
  BY <1>9 DEF T
<1>11. n = Len(Started) + 1 /\ \A k \in Handler : Met(n, k)
  BY AllFacts DEF n
<1> HIDE DEF Met
<1> QED
  BY <1>2, <1>10, <1>11 DEF One

-----------------------------------------------------------------------------
(***************************************************************************)
(* The inductive invariant: what the loop popped or is about to pop, and    *)
(* what there is of each handler.  A timer that has given up (pc = "clear") *)
(* is still noted, and counts until it is not.                             *)
(***************************************************************************)
(* What the interrupt put in before tmptimeout, or before the successor *)
(* sys_check_timeouts has loaded, is TCP's, and it is noted. *)
Popping ==
  /\ since <= late
  /\ pc = "pop" => /\ ahead \in {0, 1} /\ ahead < Len(list)
                   /\ ahead = 1 => active /\ list[1].h = TCP
  /\ pc = "next" => /\ ahead \in {1, 2} /\ ahead <= Len(list)
                    /\ ahead = 1 => list[1].h = h
                    /\ ahead = 2 => /\ active
                                    /\ \/ list[1].h = h /\ list[2].h = TCP
                                       \/ list[1].h = TCP /\ list[2].h = h
  /\ pc \in {"decide", "clear"} => h = TCP

OneOfEach ==
  \A k \in Cyclic : Count(list, k) + One(h = k /\ Out) = 1

OneTcpMore ==
  Count(list, TCP) + One(h = TCP /\ Out) + One(pc = "clear") <= 1 + One(active)

(* The timeouts lwIP counts, and the cells of those in a list and of the lost ones. *)
Timeouts == Len(Started) + 1
Cells(q) == Len(q) + leaked

CellsUsed ==
  Cells(list) + One(Out) + One(pc = "clear") <= Timeouts + One(active)

Needed ==
  ~missed /\ leaked = 0 =>
    /\ pcbs > 0 => active
    /\ active => Count(list, TCP) > 0 \/ TcpRunning

IInv ==
  /\ TypeOK
  /\ ~torn => Popping /\ OneOfEach /\ OneTcpMore /\ CellsUsed /\ Needed

-----------------------------------------------------------------------------
LEMMA ListFacts ==
  ASSUME TypeOK
  PROVE  /\ list \in Seq(Timeout) /\ Len(list) \in Nat
         /\ \A k : Count(list, k) \in Nat
         /\ \A j \in 1..Len(list) : list[j].h \in Handler /\ list[j].time \in Nat
<1>1. list \in Seq(Timeout)
  BY DEF TypeOK
<1> QED
  BY <1>1, TimeoutFacts, CountType

LEMMA Bounds == MaxLate \in Nat /\ MaxPcbs \in Nat
BY LwipTimersAssumption

LEMMA TimeoutsCounted == Timeouts \in Nat
BY AllFacts DEF Timeouts

LEMMA HandlerFacts == TCP \in Handler /\ Cyclic \subseteq Handler /\ TCP \notin Cyclic
BY LwipTimersAssumption DEF Handler

LEMMA InitInvariant == Init => IInv
<1> SUFFICES ASSUME Init PROVE IInv
  OBVIOUS
<1>1. list \in Seq(Timeout) /\ Len(list) = Len(Started) + 1
      /\ \A k \in Handler : Count(list, k) = 1
  BY StartsUp DEF Init
<1>2. Timeouts \in Nat /\ Len(list) = Timeouts
  BY <1>1, TimeoutsCounted DEF Timeouts
<1>3. TypeOK
  <2>1. h \in Handler /\ late \in 0..MaxLate /\ since \in 0..MaxLate /\ diff \in 0..MaxLate
        /\ ahead \in 0..2 /\ pcbs \in 0..MaxPcbs
    BY HandlerFacts, Bounds DEF Init
  <2> QED
    BY <1>1, <2>1 DEF Init, TypeOK
<1>4. Popping
  BY DEF Init, Popping
<1>5. OneOfEach
  BY <1>1, HandlerFacts DEF Init, OneOfEach, One, Out
<1>6. OneTcpMore
  BY <1>1, HandlerFacts DEF Init, OneTcpMore, One, Out
<1>7. CellsUsed
  BY <1>1, <1>2 DEF Init, CellsUsed, Cells, One, Out
<1>8. Needed
  BY DEF Init, Needed
<1> QED
  BY <1>3, <1>4, <1>5, <1>6, <1>7, <1>8 DEF IInv

-----------------------------------------------------------------------------
LEMMA CheckBeginsStep ==
  ASSUME IInv, CheckBegins PROVE IInv'
<1> USE DEF CheckBegins, LoopAt
<1>1. TypeOK /\ ~torn /\ Popping /\ OneOfEach /\ OneTcpMore /\ CellsUsed /\ Needed
  BY DEF IInv
<1>2. list' = list /\ Len(list) \in Nat /\ Count(list, TCP) \in Nat /\ pcbs \in Nat
  <2>1. list' = list
    OBVIOUS
  <2>2. pcbs \in Nat
    BY <1>1, Bounds DEF TypeOK
  <2> QED
    BY <1>1, <2>1, <2>2, ListFacts
<1>3. TypeOK'
  BY <1>1, <1>2, ListFacts, HandlerFacts, Bounds DEF TypeOK, Popping
<1>4. Popping'
  BY <1>1, <1>2, ListFacts DEF Popping, TypeOK
<1>5. OneOfEach'
  BY <1>1, <1>2, HandlerFacts DEF OneOfEach, One, Out
<1>6. OneTcpMore'
  BY <1>1, <1>2 DEF OneTcpMore, One, Out, Popping
<1>7. CellsUsed'
  <2>1. Cells(list) \in Nat /\ Cells(list)' = Cells(list)
    BY <1>1, <1>2 DEF Cells, TypeOK
  <2> QED
    BY <1>1, <1>2, <2>1, TimeoutsCounted DEF CellsUsed, One, Out
<1>8. Needed'
  BY <1>1, <1>2 DEF Needed, TcpRunning, Out, Popping
<1> QED
  BY <1>3, <1>4, <1>5, <1>6, <1>7, <1>8 DEF IInv

LEMMA ExpiredStep ==
  ASSUME IInv, Expired PROVE IInv'
<1> USE DEF Expired, LoopAt
<1>1. TypeOK /\ ~torn /\ Popping /\ OneOfEach /\ OneTcpMore /\ CellsUsed /\ Needed
  BY DEF IInv
<1>2. list' = list /\ Len(list) \in Nat /\ Count(list, TCP) \in Nat /\ pcbs \in Nat
  <2>1. list' = list
    OBVIOUS
  <2>2. pcbs \in Nat
    BY <1>1, Bounds DEF TypeOK
  <2> QED
    BY <1>1, <2>1, <2>2, ListFacts
<1>3. TypeOK'
  BY <1>1, <1>2, ListFacts, HandlerFacts, Bounds DEF TypeOK, Popping
<1>4. Popping'
  BY <1>1, <1>2, ListFacts DEF Popping, TypeOK
<1>5. OneOfEach'
  BY <1>1, <1>2, HandlerFacts DEF OneOfEach, One, Out
<1>6. OneTcpMore'
  BY <1>1, <1>2 DEF OneTcpMore, One, Out, Popping
<1>7. CellsUsed'
  <2>1. Cells(list) \in Nat /\ Cells(list)' = Cells(list)
    BY <1>1, <1>2 DEF Cells, TypeOK
  <2> QED
    BY <1>1, <1>2, <2>1, TimeoutsCounted DEF CellsUsed, One, Out
<1>8. Needed'
  BY <1>1, <1>2 DEF Needed, TcpRunning, Out, Popping
<1> QED
  BY <1>3, <1>4, <1>5, <1>6, <1>7, <1>8 DEF IInv

LEMMA CheckEndsStep ==
  ASSUME IInv, CheckEnds PROVE IInv'
<1> USE DEF CheckEnds, LoopAt
<1>1. TypeOK /\ ~torn /\ Popping /\ OneOfEach /\ OneTcpMore /\ CellsUsed /\ Needed
  BY DEF IInv
<1>2. list' = list /\ Len(list) \in Nat /\ Count(list, TCP) \in Nat /\ pcbs \in Nat
  <2>1. list' = list
    OBVIOUS
  <2>2. pcbs \in Nat
    BY <1>1, Bounds DEF TypeOK
  <2> QED
    BY <1>1, <2>1, <2>2, ListFacts
<1>3. TypeOK'
  BY <1>1, <1>2, ListFacts, HandlerFacts, Bounds DEF TypeOK, Popping
<1>4. Popping'
  BY <1>1, <1>2, ListFacts DEF Popping, TypeOK
<1>5. OneOfEach'
  BY <1>1, <1>2, HandlerFacts DEF OneOfEach, One, Out
<1>6. OneTcpMore'
  BY <1>1, <1>2 DEF OneTcpMore, One, Out, Popping
<1>7. CellsUsed'
  <2>1. Cells(list) \in Nat /\ Cells(list)' = Cells(list)
    BY <1>1, <1>2 DEF Cells, TypeOK
  <2> QED
    BY <1>1, <1>2, <2>1, TimeoutsCounted DEF CellsUsed, One, Out
<1>8. Needed'
  BY <1>1, <1>2 DEF Needed, TcpRunning, Out, Popping
<1> QED
  BY <1>3, <1>4, <1>5, <1>6, <1>7, <1>8 DEF IInv

LEMMA LoadsNextStep ==
  ASSUME IInv, LoadsNext PROVE IInv'
<1> USE DEF LoadsNext, LoopAt
<1>1. TypeOK /\ ~torn /\ Popping /\ OneOfEach /\ OneTcpMore /\ CellsUsed /\ Needed
  BY DEF IInv
<1>2. list' = list /\ Len(list) \in Nat /\ Count(list, TCP) \in Nat /\ pcbs \in Nat
  <2>1. list' = list
    OBVIOUS
  <2>2. pcbs \in Nat
    BY <1>1, Bounds DEF TypeOK
  <2> QED
    BY <1>1, <2>1, <2>2, ListFacts
<1>3. TypeOK'
  BY <1>1, <1>2, ListFacts, HandlerFacts, Bounds DEF TypeOK, Popping
<1>4. Popping'
  BY <1>1, <1>2, ListFacts DEF Popping, TypeOK
<1>5. OneOfEach'
  BY <1>1, <1>2, HandlerFacts DEF OneOfEach, One, Out
<1>6. OneTcpMore'
  BY <1>1, <1>2 DEF OneTcpMore, One, Out, Popping
<1>7. CellsUsed'
  <2>1. Cells(list) \in Nat /\ Cells(list)' = Cells(list)
    BY <1>1, <1>2 DEF Cells, TypeOK
  <2> QED
    BY <1>1, <1>2, <2>1, TimeoutsCounted DEF CellsUsed, One, Out
<1>8. Needed'
  BY <1>1, <1>2 DEF Needed, TcpRunning, Out, Popping
<1> QED
  BY <1>3, <1>4, <1>5, <1>6, <1>7, <1>8 DEF IInv

(* memp_free and sys_timeout between their places. *)
LEMMA InHandStep ==
  ASSUME IInv, Frees \/ Freed \/ Allocates \/ Allocated \/ Seeks PROVE IInv'
<1>0. /\ ~torn
      /\ UNCHANGED <<list, late, since, diff, h, ahead, active, pcbs, leaked, missed, torn>>
      /\ pc \in {"popped", "free", "alloc", "take", "cell"}
      /\ pc' \in {"free", "run", "take", "cell", "link"}
  BY DEF Frees, Freed, Allocates, Allocated, Seeks, GoesOn, LoopAt
<1>1. TypeOK /\ ~torn /\ Popping /\ OneOfEach /\ OneTcpMore /\ CellsUsed /\ Needed
  BY <1>0 DEF IInv
<1>2. list' = list /\ Len(list) \in Nat /\ Count(list, TCP) \in Nat /\ pcbs \in Nat
  <2>1. list' = list
    BY <1>0
  <2>2. pcbs \in Nat
    BY <1>1, Bounds DEF TypeOK
  <2> QED
    BY <1>1, <2>1, <2>2, ListFacts
<1>3. TypeOK'
  BY <1>0, <1>1, <1>2, ListFacts, HandlerFacts, Bounds DEF TypeOK, Popping
<1>4. Popping'
  BY <1>0, <1>1, <1>2, ListFacts DEF Popping, TypeOK
<1>5. OneOfEach'
  BY <1>0, <1>1, <1>2, HandlerFacts DEF OneOfEach, One, Out
<1>6. OneTcpMore'
  BY <1>0, <1>1, <1>2 DEF OneTcpMore, One, Out, Popping
<1>7. CellsUsed'
  <2>1. Cells(list) \in Nat /\ Cells(list)' = Cells(list)
    BY <1>0, <1>1, <1>2 DEF Cells, TypeOK
  <2> QED
    BY <1>0, <1>1, <1>2, <2>1, TimeoutsCounted DEF CellsUsed, One, Out
<1>8. Needed'
  BY <1>0, <1>1, <1>2 DEF Needed, TcpRunning, Out, Popping
<1> QED
  BY <1>3, <1>4, <1>5, <1>6, <1>7, <1>8 DEF IInv

LEMMA CyclicRunsStep ==
  ASSUME IInv, CyclicRuns PROVE IInv'
<1> USE DEF CyclicRuns, GoesOn, LoopAt
<1>1. TypeOK /\ ~torn /\ Popping /\ OneOfEach /\ OneTcpMore /\ CellsUsed /\ Needed
  BY DEF IInv
<1>2. list' = list /\ Len(list) \in Nat /\ Count(list, TCP) \in Nat /\ pcbs \in Nat
  <2>1. list' = list
    OBVIOUS
  <2>2. pcbs \in Nat
    BY <1>1, Bounds DEF TypeOK
  <2> QED
    BY <1>1, <2>1, <2>2, ListFacts
<1>3. TypeOK'
  BY <1>1, <1>2, ListFacts, HandlerFacts, Bounds DEF TypeOK, Popping
<1>4. Popping'
  BY <1>1, <1>2, ListFacts DEF Popping, TypeOK
<1>5. OneOfEach'
  BY <1>1, <1>2, HandlerFacts DEF OneOfEach, One, Out
<1>6. OneTcpMore'
  BY <1>1, <1>2 DEF OneTcpMore, One, Out, Popping
<1>7. CellsUsed'
  <2>1. Cells(list) \in Nat /\ Cells(list)' = Cells(list)
    BY <1>1, <1>2 DEF Cells, TypeOK
  <2> QED
    BY <1>1, <1>2, <2>1, TimeoutsCounted DEF CellsUsed, One, Out
<1>8. Needed'
  BY <1>1, <1>2 DEF Needed, TcpRunning, Out, Popping
<1> QED
  BY <1>3, <1>4, <1>5, <1>6, <1>7, <1>8 DEF IInv

LEMMA TcpRunsStep ==
  ASSUME IInv, TcpRuns PROVE IInv'
<1> USE DEF TcpRuns, LoopAt
<1>1. TypeOK /\ ~torn /\ Popping /\ OneOfEach /\ OneTcpMore /\ CellsUsed /\ Needed
  BY DEF IInv
<1>2. list' = list /\ Len(list) \in Nat /\ Count(list, TCP) \in Nat /\ pcbs \in Nat
  <2>1. list' = list
    OBVIOUS
  <2>2. pcbs \in Nat
    BY <1>1, Bounds DEF TypeOK
  <2> QED
    BY <1>1, <2>1, <2>2, ListFacts
<1>3. TypeOK'
  BY <1>1, <1>2, ListFacts, HandlerFacts, Bounds DEF TypeOK, Popping
<1>4. Popping'
  BY <1>1, <1>2, ListFacts DEF Popping, TypeOK
<1>5. OneOfEach'
  BY <1>1, <1>2, HandlerFacts DEF OneOfEach, One, Out
<1>6. OneTcpMore'
  BY <1>1, <1>2 DEF OneTcpMore, One, Out, Popping
<1>7. CellsUsed'
  <2>1. Cells(list) \in Nat /\ Cells(list)' = Cells(list)
    BY <1>1, <1>2 DEF Cells, TypeOK
  <2> QED
    BY <1>1, <1>2, <2>1, TimeoutsCounted DEF CellsUsed, One, Out
<1>8. Needed'
  BY <1>1, <1>2 DEF Needed, TcpRunning, Out, Popping
<1> QED
  BY <1>3, <1>4, <1>5, <1>6, <1>7, <1>8 DEF IInv

LEMMA TcpDecidesStep ==
  ASSUME IInv, TcpDecides PROVE IInv'
<1> USE DEF TcpDecides, GoesOn, LoopAt
<1>1. TypeOK /\ ~torn /\ Popping /\ OneOfEach /\ OneTcpMore /\ CellsUsed /\ Needed
  BY DEF IInv
<1>2. list' = list /\ Len(list) \in Nat /\ Count(list, TCP) \in Nat /\ pcbs \in Nat
  <2>1. list' = list
    OBVIOUS
  <2>2. pcbs \in Nat
    BY <1>1, Bounds DEF TypeOK
  <2> QED
    BY <1>1, <2>1, <2>2, ListFacts
<1>3. TypeOK'
  BY <1>1, <1>2, ListFacts, HandlerFacts, Bounds DEF TypeOK, Popping
<1>4. pc' = "alloc" \/ pc' = "clear"
  BY <1>2
<1>5. pc = "decide" /\ h = TCP /\ h' = h /\ since' = since /\ late' = late /\ active' = active
  BY <1>1 DEF Popping
<1>6. Popping'
  BY <1>1, <1>4, <1>5 DEF Popping
<1>7. OneOfEach'
  BY <1>1, <1>2, <1>4, <1>5, HandlerFacts DEF OneOfEach, One, Out
<1>8. OneTcpMore'
  BY <1>1, <1>2, <1>4, <1>5 DEF OneTcpMore, One, Out
<1>9. CellsUsed'
  <2>1. Cells(list) \in Nat /\ Cells(list)' = Cells(list)
    BY <1>1, <1>2 DEF Cells, TypeOK
  <2> HIDE DEF TcpDecides
  <2> QED
    BY <1>1, <1>4, <1>5, <2>1, TimeoutsCounted DEF CellsUsed, One, Out
<1>10. Needed'
  BY <1>1, <1>2 DEF Needed, TcpRunning, Out, Popping
<1> QED
  BY <1>3, <1>6, <1>7, <1>8, <1>9, <1>10 DEF IInv

LEMMA TcpClearsStep ==
  ASSUME IInv, TcpClears PROVE IInv'
<1> USE DEF TcpClears, LoopAt
<1>1. TypeOK /\ ~torn /\ Popping /\ OneOfEach /\ OneTcpMore /\ CellsUsed /\ Needed
  BY DEF IInv
<1>2. list' = list /\ Len(list) \in Nat /\ Count(list, TCP) \in Nat /\ pcbs \in Nat
  <2>1. list' = list
    OBVIOUS
  <2>2. pcbs \in Nat
    BY <1>1, Bounds DEF TypeOK
  <2> QED
    BY <1>1, <2>1, <2>2, ListFacts
<1>3. missed' \in BOOLEAN
  OBVIOUS
<1>4. TypeOK'
  BY <1>1, <1>2, <1>3, ListFacts, HandlerFacts, Bounds DEF TypeOK, Popping
<1>5. Popping'
  BY <1>1, <1>2, ListFacts DEF Popping, TypeOK
<1>6. OneOfEach'
  BY <1>1, <1>2, HandlerFacts DEF OneOfEach, One, Out
<1>7. OneTcpMore'
  BY <1>1, <1>2 DEF OneTcpMore, One, Out, Popping
<1>8. CellsUsed'
  <2>1. Cells(list) \in Nat /\ Cells(list)' = Cells(list)
    BY <1>1, <1>2 DEF Cells, TypeOK
  <2> QED
    BY <1>1, <1>2, <2>1, TimeoutsCounted DEF CellsUsed, One, Out
<1>9. Needed'
  BY <1>1, <1>2 DEF Needed, TcpRunning, Out, Popping
<1> QED
  BY <1>4, <1>5, <1>6, <1>7, <1>8, <1>9 DEF IInv

LEMMA TCP_RMVStep ==
  ASSUME IInv, TCP_RMV PROVE IInv'
<1> USE DEF TCP_RMV, check
<1>1. TypeOK /\ ~torn /\ Popping /\ OneOfEach /\ OneTcpMore /\ CellsUsed /\ Needed
  BY DEF IInv
<1>2. list' = list /\ Len(list) \in Nat /\ Count(list, TCP) \in Nat /\ pcbs \in Nat
  <2>1. list' = list
    OBVIOUS
  <2>2. pcbs \in Nat
    BY <1>1, Bounds DEF TypeOK
  <2> QED
    BY <1>1, <2>1, <2>2, ListFacts
<1>3. TypeOK'
  BY <1>1, <1>2, ListFacts, HandlerFacts, Bounds DEF TypeOK, Popping
<1>4. Popping'
  BY <1>1, <1>2, ListFacts DEF Popping, TypeOK
<1>5. OneOfEach'
  BY <1>1, <1>2, HandlerFacts DEF OneOfEach, One, Out
<1>6. OneTcpMore'
  BY <1>1, <1>2 DEF OneTcpMore, One, Out, Popping
<1>7. CellsUsed'
  <2>1. Cells(list) \in Nat /\ Cells(list)' = Cells(list)
    BY <1>1, <1>2 DEF Cells, TypeOK
  <2> QED
    BY <1>1, <1>2, <2>1, TimeoutsCounted DEF CellsUsed, One, Out
<1>8. Needed'
  BY <1>1, <1>2 DEF Needed, TcpRunning, Out, Popping
<1> QED
  BY <1>3, <1>4, <1>5, <1>6, <1>7, <1>8 DEF IInv

LEMMA TickStep ==
  ASSUME IInv, Tick PROVE IInv'
<1> USE DEF Tick
<1>1. TypeOK /\ ~torn /\ Popping /\ OneOfEach /\ OneTcpMore /\ CellsUsed /\ Needed
  BY DEF IInv
<1>2. list' = list /\ Len(list) \in Nat /\ Count(list, TCP) \in Nat /\ pcbs \in Nat
  <2>1. list' = list
    OBVIOUS
  <2>2. pcbs \in Nat
    BY <1>1, Bounds DEF TypeOK
  <2> QED
    BY <1>1, <2>1, <2>2, ListFacts
<1>3. TypeOK'
  BY <1>1, <1>2, ListFacts, HandlerFacts, Bounds DEF TypeOK, Popping
<1>4. Popping'
  BY <1>1, <1>2, ListFacts DEF Popping, TypeOK
<1>5. OneOfEach'
  BY <1>1, <1>2, HandlerFacts DEF OneOfEach, One, Out
<1>6. OneTcpMore'
  BY <1>1, <1>2 DEF OneTcpMore, One, Out, Popping
<1>7. CellsUsed'
  <2>1. Cells(list) \in Nat /\ Cells(list)' = Cells(list)
    BY <1>1, <1>2 DEF Cells, TypeOK
  <2> QED
    BY <1>1, <1>2, <2>1, TimeoutsCounted DEF CellsUsed, One, Out
<1>8. Needed'
  BY <1>1, <1>2 DEF Needed, TcpRunning, Out, Popping
<1> QED
  BY <1>3, <1>4, <1>5, <1>6, <1>7, <1>8 DEF IInv

(* The popped entries are gone, and the first of them that is not TCP's is out. *)
LEMMA PopStep ==
  ASSUME IInv, Pop PROVE IInv'
<1>1. TypeOK /\ ~torn /\ Popping /\ OneOfEach /\ OneTcpMore /\ CellsUsed /\ Needed
  BY DEF IInv, Pop, LoopAt
<1>2. /\ pc = "next" /\ pc' = "popped" /\ list' = SubSeq(list, ahead + 1, Len(list))
      /\ UNCHANGED <<late, since, diff, h, ahead, active, pcbs, missed, torn>>
  BY DEF Pop, LoopAt
<1>3. leaked' \in Nat /\ leaked' = leaked + ahead - 1 /\ leaked \in Nat /\ ahead \in {1, 2}
  BY <1>1, <1>2 DEF Pop, TypeOK, Popping
<1>4. /\ list \in Seq(Timeout) /\ Len(list) \in Nat
      /\ h \in Handler /\ \A k : Count(list, k) \in Nat
  BY <1>1, ListFacts DEF TypeOK
<1>5. list' \in Seq(Timeout)
      /\ \/ /\ ahead = 1 /\ Len(list') = Len(list) - 1
            /\ \A k : Count(list', k) = Count(list, k) - One(h = k)
         \/ /\ ahead = 2 /\ active /\ Len(list') = Len(list) - 2
            /\ \A k : Count(list', k) = Count(list, k) - One(h = k) - One(TCP = k)
  <2>1. CASE ahead = 1
    <3>1. Len(list) >= 1 /\ list[1].h = h /\ list' = SubSeq(list, 2, Len(list))
      BY <1>1, <1>2, <2>1 DEF Popping
    <3> QED
      BY <1>4, <2>1, <3>1, CountPop
  <2>2. CASE ahead = 2
    <3>1. /\ Len(list) >= 2 /\ list' = SubSeq(list, 3, Len(list)) /\ active
          /\ \/ list[1].h = h /\ list[2].h = TCP
             \/ list[1].h = TCP /\ list[2].h = h
      BY <1>1, <1>2, <2>2 DEF Popping
    <3>2. /\ list' \in Seq(Timeout) /\ Len(list') = Len(list) - 2
          /\ \A k : Count(list', k) = Count(list, k) - One(list[1].h = k) - One(list[2].h = k)
      BY <1>4, <3>1, CountPopTwo
    <3>3. \A k : Count(list', k) = Count(list, k) - One(h = k) - One(TCP = k)
      BY <1>4, <3>1, <3>2 DEF One
    <3> QED
      BY <2>2, <3>1, <3>2, <3>3
  <2> QED
    BY <1>1, <1>2, <2>1, <2>2 DEF Popping
<1>6. TypeOK'
  BY <1>1, <1>2, <1>3, <1>5 DEF TypeOK
<1>7. Popping'
  BY <1>1, <1>2 DEF Popping
<1>8. OneOfEach'
  BY <1>1, <1>2, <1>4, <1>5, HandlerFacts DEF OneOfEach, One, Out
<1>9. OneTcpMore'
  BY <1>1, <1>2, <1>4, <1>5 DEF OneTcpMore, One, Out
<1>10. CellsUsed'
  <2>1. Cells(list) \in Nat /\ Cells(list)' = Cells(list) - 1
    BY <1>3, <1>4, <1>5 DEF Cells
  <2> QED
    BY <1>1, <1>2, <2>1, TimeoutsCounted DEF CellsUsed, One, Out
<1>11. Needed'
  BY <1>1, <1>2, <1>3, <1>4, <1>5 DEF Needed, TcpRunning, Out, One
<1> QED
  BY <1>6, <1>7, <1>8, <1>9, <1>10, <1>11 DEF IInv

LEMMA LinksStep ==
  ASSUME IInv, Links PROVE IInv'
<1>1. TypeOK /\ ~torn /\ Popping /\ OneOfEach /\ OneTcpMore /\ CellsUsed /\ Needed
  BY DEF IInv, Links, LoopAt
<1>2. /\ pc = "link" /\ pc' = "test" /\ list' = Insert(list, h)
      /\ UNCHANGED <<late, since, diff, h, ahead, active, pcbs, leaked, missed, torn>>
  BY DEF Links, LoopAt
<1>3. /\ list \in Seq(Timeout) /\ Len(list) \in Nat
      /\ h \in Handler /\ \A k : Count(list, k) \in Nat
  BY <1>1, ListFacts DEF TypeOK
<1>4. /\ list' \in Seq(Timeout) /\ Len(list') = Len(list) + 1
      /\ \A k : Count(list', k) = Count(list, k) + One(h = k)
  BY <1>2, <1>3, CountInsert
<1>5. TypeOK'
  BY <1>1, <1>2, <1>4 DEF TypeOK
<1>6. Popping'
  BY <1>1, <1>2 DEF Popping
<1>7. OneOfEach'
  BY <1>1, <1>2, <1>3, <1>4, HandlerFacts DEF OneOfEach, One, Out
<1>8. OneTcpMore'
  BY <1>1, <1>2, <1>3, <1>4 DEF OneTcpMore, One, Out
<1>9. CellsUsed'
  <2>1. Cells(list) \in Nat /\ Cells(list)' = Cells(list) + 1
    BY <1>1, <1>2, <1>3, <1>4 DEF Cells, TypeOK
  <2> QED
    BY <1>1, <1>2, <2>1, TimeoutsCounted DEF CellsUsed, One, Out
<1>10. Needed'
  BY <1>1, <1>2, <1>3, <1>4 DEF Needed, TcpRunning, Out, One
<1> QED
  BY <1>5, <1>6, <1>7, <1>8, <1>9, <1>10 DEF IInv

(* Of the interrupt's steps only the one that starts the timer changes the list. *)
LEMMA StartsStep ==
  ASSUME IInv, ~torn, ~active, pcbs' \in 0..MaxPcbs, active' = TRUE, missed' = FALSE, Starts,
         UNCHANGED <<late, since, diff, h, leaked>>
  PROVE  IInv'
<1>1. TypeOK /\ Popping /\ OneOfEach /\ OneTcpMore /\ CellsUsed /\ Needed
  BY DEF IInv
<1> DEFINE passed == pc \in {"pop", "next"} /\ Place(list, TCP) <= ahead
<1>2. /\ pc \notin {"free", "take", "link"}
      /\ list' = Insert(list, TCP)
      /\ ahead' = ahead + (IF passed THEN 1 ELSE 0)
      /\ UNCHANGED <<pc, torn>>
  BY DEF Starts, AtList
<1>3. /\ list \in Seq(Timeout) /\ Len(list) \in Nat /\ TCP \in Handler
      /\ h \in Handler /\ \A k : Count(list, k) \in Nat
  BY <1>1, ListFacts, HandlerFacts DEF TypeOK
<1>4. /\ list' \in Seq(Timeout) /\ Len(list') = Len(list) + 1
      /\ \A k : Count(list', k) = Count(list, k) + One(TCP = k)
  BY <1>2, <1>3, CountInsert
<1> DEFINE p == Place(list, TCP)
<1>5. /\ p \in 0..Len(list)
      /\ list'[p + 1].h = TCP
      /\ \A j \in 1..Len(list) : list'[IF j < p + 1 THEN j ELSE j + 1].h = list[j].h
  <2> DEFINE i == p + 1
  <2>1. p \in 0..Len(list)
    BY <1>3, PlaceFound
  <2>2. /\ list'[i].h = TCP
        /\ \A j \in 1..Len(list) : list'[IF j < i THEN j ELSE j + 1].h = list[j].h
    BY <1>2, <1>3, InsertShift
  <2> QED
    BY <2>1, <2>2
<1> HIDE DEF p
<1>6. pc = "pop" => ahead = 0
  BY <1>1 DEF Popping
<1>7. pc = "next" => ahead = 1 /\ ahead <= Len(list) /\ list[1].h = h
  BY <1>1 DEF Popping
<1>8. pc = "pop" => /\ ahead' \in {0, 1} /\ ahead' < Len(list')
                    /\ ahead' = 1 => list'[1].h = TCP
  <2> SUFFICES ASSUME pc = "pop" PROVE /\ ahead' \in {0, 1} /\ ahead' < Len(list')
                                       /\ ahead' = 1 => list'[1].h = TCP
    OBVIOUS
  <2>1. ahead = 0 /\ ahead < Len(list)
    BY <1>1, <1>6 DEF Popping
  <2>2. CASE passed
    <3>1. p = 0 /\ ahead' = 1
      BY <1>2, <1>5, <2>1, <2>2 DEF p
    <3> QED
      BY <1>3, <1>4, <1>5, <2>1, <3>1
  <2>3. CASE ~passed
    BY <1>2, <1>3, <1>4, <2>1, <2>3
  <2> QED
    BY <2>2, <2>3
<1>9. pc = "next" => /\ ahead' \in {1, 2} /\ ahead' <= Len(list')
                     /\ ahead' = 1 => list'[1].h = h
                     /\ ahead' = 2 => \/ list'[1].h = h /\ list'[2].h = TCP
                                      \/ list'[1].h = TCP /\ list'[2].h = h
  <2> SUFFICES ASSUME pc = "next"
               PROVE  /\ ahead' \in {1, 2} /\ ahead' <= Len(list')
                      /\ ahead' = 1 => list'[1].h = h
                      /\ ahead' = 2 => \/ list'[1].h = h /\ list'[2].h = TCP
                                       \/ list'[1].h = TCP /\ list'[2].h = h
    OBVIOUS
  <2>1. ahead = 1 /\ 1 \in 1..Len(list) /\ list[1].h = h
    BY <1>3, <1>7
  <2>2. CASE passed /\ p = 0
    <3>1. ahead' = 2 /\ list'[1].h = TCP
      BY <1>2, <1>5, <2>1, <2>2
    <3>2. list'[2].h = h
      BY <1>5, <2>1, <2>2
    <3> QED
      BY <1>3, <1>4, <2>1, <3>1, <3>2
  <2>3. CASE passed /\ p # 0
    <3>1. p = 1 /\ ahead' = 2
      BY <1>2, <1>5, <2>1, <2>3 DEF p
    <3>2. list'[2].h = TCP /\ list'[1].h = h
      BY <1>5, <2>1, <3>1
    <3> QED
      BY <1>3, <1>4, <2>1, <3>1, <3>2
  <2>4. CASE ~passed
    <3>1. ahead' = 1 /\ p > 1
      BY <1>2, <1>3, <1>5, <2>1, <2>4 DEF p
    <3>2. list'[1].h = h
      BY <1>5, <2>1, <3>1
    <3> QED
      BY <1>3, <1>4, <2>1, <3>1, <3>2
  <2> QED
    BY <2>2, <2>3, <2>4
<1>10. ahead' \in 0..2
  <2>1. CASE pc = "pop" \/ pc = "next"
    BY <1>8, <1>9, <2>1
  <2>2. CASE ~(pc = "pop" \/ pc = "next")
    BY <1>1, <1>2, <2>2 DEF TypeOK
  <2> QED
    BY <2>1, <2>2
<1>11. TypeOK'
  BY <1>1, <1>2, <1>4, <1>10 DEF TypeOK
<1> HIDE DEF passed
<1>12. Popping'
  BY <1>1, <1>2, <1>8, <1>9 DEF Popping
<1>13. OneOfEach'
  BY <1>1, <1>2, <1>3, <1>4, HandlerFacts DEF OneOfEach, One, Out
<1>14. OneTcpMore'
  BY <1>1, <1>2, <1>3, <1>4 DEF OneTcpMore, One, Out
<1>15. CellsUsed'
  <2>1. Cells(list) \in Nat /\ Cells(list)' = Cells(list) + 1
    BY <1>1, <1>2, <1>3, <1>4 DEF Cells, TypeOK
  <2> QED
    BY <1>1, <1>2, <2>1, TimeoutsCounted DEF CellsUsed, One, Out
<1>16. Needed'
  BY <1>1, <1>2, <1>3, <1>4 DEF Needed, TcpRunning, Out, One
<1> QED
  BY <1>11, <1>12, <1>13, <1>14, <1>15, <1>16 DEF IInv

LEMMA TCP_REGStep ==
  ASSUME IInv, TCP_REG PROVE IInv'
<1>1. TypeOK /\ ~torn /\ Popping /\ OneOfEach /\ OneTcpMore /\ CellsUsed /\ Needed
  BY DEF IInv, TCP_REG
<1>2. /\ tcp_timer_needed
      /\ UNCHANGED <<late, since, diff, h, leaked>>
  BY DEF TCP_REG
<1>3. pcbs' \in 0..MaxPcbs /\ pcbs' > 0
  BY Bounds DEF TCP_REG
<1>4. CASE ~active /\ Starts
  <2>1. active' = TRUE /\ missed' = FALSE
    BY <1>2, <1>3, <1>4 DEF tcp_timer_needed
  <2> QED
    BY <1>1, <1>2, <1>3, <1>4, <2>1, StartsStep
<1>5. CASE ~active /\ Tears
  <2>1. active' = TRUE /\ missed' = FALSE /\ torn' = TRUE /\ UNCHANGED <<list, pc, ahead>>
    BY <1>2, <1>3, <1>5 DEF tcp_timer_needed, Tears
  <2>2. TypeOK'
    BY <1>1, <1>2, <1>3, <2>1 DEF TypeOK
  <2> QED
    BY <2>1, <2>2 DEF IInv
<1>6. CASE active
  <2>1. UNCHANGED <<list, pc, ahead, active, missed, torn>>
    BY <1>2, <1>6 DEF tcp_timer_needed
  <2>2. TypeOK'
    BY <1>1, <1>2, <1>3, <2>1 DEF TypeOK
  <2>3. Popping' /\ OneOfEach' /\ OneTcpMore' /\ CellsUsed'
    BY <1>1, <1>2, <2>1 DEF Popping, OneOfEach, OneTcpMore, CellsUsed, Cells, One, Out
  <2>4. Needed'
    BY <1>1, <1>2, <1>6, <2>1 DEF Needed, TcpRunning, Out
  <2> QED
    BY <2>2, <2>3, <2>4 DEF IInv
<1> QED
  BY <1>2, <1>3, <1>4, <1>5, <1>6 DEF tcp_timer_needed

LEMMA StutterStep ==
  ASSUME IInv, UNCHANGED vars PROVE IInv'
<1>1. UNCHANGED <<list, late, since, diff, pc, h, ahead, active, pcbs, leaked, missed, torn>>
  BY DEF vars, check
<1> QED
  BY <1>1 DEF IInv, TypeOK, Popping, OneOfEach, OneTcpMore, CellsUsed, Cells, Needed,
              TcpRunning, One, Out

THEOREM Invariance == Spec => []IInv
<1>1. ASSUME IInv, [Next]_vars PROVE IInv'
  BY <1>1, CheckBeginsStep, ExpiredStep, CheckEndsStep, LoadsNextStep, PopStep, InHandStep,
     CyclicRunsStep, TcpRunsStep, TcpDecidesStep, TcpClearsStep, LinksStep,
     TCP_REGStep, TCP_RMVStep, TickStep, StutterStep
  DEF Next, Loop
<1> QED
  BY <1>1, InitInvariant, PTL DEF Spec

-----------------------------------------------------------------------------
LEMMA PendingRunning ==
  /\ \A k : Cardinality(Pending(k)) = Count(list, k)
  /\ \A k : Running(k) = One(h = k /\ Out)
BY DEF Pending, Count, Where, Running, One, Out

(* The state of sys_check_timeouts, whatever breaks in, is of its type: no more *)
(* than two entries are popped, and the clock is never ahead of the list. *)
THEOREM TypeCorrect == Spec => []TypeOK
<1>1. IInv => TypeOK
  BY DEF IInv
<1> QED
  BY <1>1, Invariance, PTL

(* No cyclic handler is lost or started twice, whatever the interrupt does. *)
THEOREM CyclicAlive == Spec => []CyclicKept
<1>1. IInv => CyclicKept
  BY PendingRunning DEF IInv, OneOfEach, CyclicKept
<1> QED
  BY <1>1, Invariance, PTL

(* There are never more than two TCP timers, and one when none is noted. *)
THEOREM TwoTcpTimers == Spec => []TcpTimersBounded
<1>1. ASSUME IInv, ~torn
      PROVE  Cardinality(Pending(TCP)) + Running(TCP) <= (IF active THEN 2 ELSE 1)
  <2>1. TypeOK /\ OneTcpMore /\ Count(list, TCP) \in Nat
    BY <1>1, ListFacts DEF IInv
  <2> QED
    BY <2>1, PendingRunning DEF TypeOK, OneTcpMore, One
<1>2. IInv => TcpTimersBounded
  BY <1>1 DEF TcpTimersBounded
<1> QED
  BY <1>2, Invariance, PTL

(* The TCP timer is on while there are connections, except for the two races. *)
THEOREM TimerOn == Spec => []TimerWhenNeeded
<1>1. ASSUME IInv, ~torn, ~missed, leaked = 0
      PROVE  /\ pcbs > 0 => active
             /\ active => Pending(TCP) # {} \/ TcpRunning
  <2>1. TypeOK /\ Needed
    BY <1>1 DEF IInv
  <2>2. Count(list, TCP) > 0 => Pending(TCP) # {}
    <3>1. Pending(TCP) = Where(list, TCP) /\ list \in Seq(Timeout)
      BY <2>1 DEF Pending, Where, TypeOK
    <3> QED
      BY <3>1, CountType
  <2> QED
    BY <1>1, <2>1, <2>2 DEF Needed
<1>2. IInv => TimerWhenNeeded
  BY <1>1 DEF TimerWhenNeeded
<1> QED
  BY <1>2, Invariance, PTL

(* One cell for each handler, and one for the second TCP timer, are enough, though *)
(* the cells of lost timeouts never come back: a lost timeout is not set again, as  *)
(* tcpip_tcp_timer_active still notes it. *)
THEOREM PoolEnough == Pool >= Len(Started) + 2 => (Spec => []PoolSuffices)
<1> SUFFICES ASSUME Pool >= Len(Started) + 2 PROVE Spec => []PoolSuffices
  OBVIOUS
<1>1. ASSUME IInv, ~torn
      PROVE  Len(list) + leaked
               + (IF pc \in {"popped", "free", "take", "cell", "link"} THEN 1 ELSE 0) <= Pool
  <2> DEFINE hand == IF pc \in {"popped", "free", "take", "cell", "link"} THEN 1 ELSE 0
  <2>1. TypeOK /\ CellsUsed /\ Len(list) \in Nat /\ leaked \in Nat
    BY <1>1, ListFacts DEF IInv, TypeOK
  <2>2. Pool \in Nat /\ Timeouts + 1 <= Pool
    BY LwipTimersAssumption, AllFacts DEF Timeouts
  <2>3. Cells(list) \in Nat /\ Cells(list) = Len(list) + leaked
    BY <2>1 DEF Cells
  <2>4. hand \in {0, 1} /\ hand <= One(Out)
    BY DEF One, Out
  <2>5. Cells(list) + One(Out) <= Timeouts + 1
    <3>1. Cells(list) + One(Out) + One(pc = "clear") <= Timeouts + One(active)
      BY <2>1 DEF CellsUsed
    <3>2. \A b : One(b) \in {0, 1}
      BY DEF One
    <3> QED
      BY <2>3, <3>1, <3>2, TimeoutsCounted
  <2>6. One(Out) \in {0, 1}
    BY DEF One
  <2> HIDE DEF hand
  <2>7. Len(list) + leaked + hand <= Pool
    BY <2>1, <2>2, <2>3, <2>4, <2>5, <2>6, TimeoutsCounted
  <2> QED
    BY <2>7 DEF hand
<1>2. IInv => PoolSuffices
  BY <1>1 DEF PoolSuffices
<1> QED
  BY <1>2, Invariance, PTL


-----------------------------------------------------------------------------
Keeps(q, r) ==
  Len(r) > Len(q) =>
    \E i \in 1..Len(r) :
      /\ DueAt(r)[i] = Interval[r[i].h]
      /\ \A j \in 1..Len(q) :
           LET k == IF j < i THEN j ELSE j + 1 IN
           r[k].h = q[j].h /\ DueAt(r)[k] = DueAt(q)[j]

LEMMA InsertKeeps ==
  ASSUME NEW q \in Seq(Timeout), NEW k \in Handler
  PROVE  Keeps(q, Insert(q, k))
<1> DEFINE r == Insert(q, k)
           i == Place(q, k) + 1
<1>1. Len(r) = Len(q) + 1 /\ Len(q) \in Nat
  BY CountInsert, TimeoutFacts
<1>2. /\ i \in 1..Len(r)
      /\ r[i].h = k /\ DueAt(r)[i] = Interval[k]
      /\ \A j \in 1..Len(q) :
           LET m == IF j < i THEN j ELSE j + 1 IN
           r[m].h = q[j].h /\ DueAt(r)[m] = DueAt(q)[j]
  BY <1>1, InsertShift
<1> HIDE DEF r, i
<1>3. DueAt(r)[i] = Interval[r[i].h]
  BY <1>2
<1>4. Keeps(q, r)
  BY <1>2, <1>3 DEF Keeps
<1> QED
  BY <1>4 DEF r

(* A handler put into the list is due after its interval, and no other becomes *)
(* due earlier or later by it: the times of the list are relative to each other. *)
OthersKeepTheirTime ==
  [][Len(list') > Len(list) =>
       \E i \in 1..Len(list') :
         /\ DueAt(list')[i] = Interval[list'[i].h]
         /\ \A j \in 1..Len(list) :
              LET k == IF j < i THEN j ELSE j + 1 IN
              list'[k].h = list[j].h /\ DueAt(list')[k] = DueAt(list)[j]]_vars

(* A step of the loop or of the interrupt that puts a handler in, whichever, lets it *)
(* be due after its interval and the others when they were. *)
THEOREM TimesKept == Spec => OthersKeepTheirTime
<1>1. ASSUME TypeOK, [Next]_vars PROVE [Keeps(list, list')]_vars
  <2>1. list \in Seq(Timeout) /\ Len(list) \in Nat /\ h \in Handler /\ TCP \in Handler
    BY <1>1, ListFacts, HandlerFacts DEF TypeOK
  <2>2. CASE list' = list
    BY <2>1, <2>2 DEF Keeps
  <2>3. CASE Pop
    <3>1. /\ list' = SubSeq(list, ahead + 1, Len(list))
          /\ ahead \in 0..2
      BY <1>1, <2>3 DEF Pop, TypeOK
    <3>2. Len(list') <= Len(list)
      <4> DEFINE i == ahead + 1
      <4>1. i \in 1..3 /\ list' = SubSeq(list, i, Len(list))
        BY <3>1
      <4> HIDE DEF i
      <4>2. CASE i <= Len(list) + 1
        <5>1. i \in 1..Len(list) + 1
          BY <2>1, <4>1, <4>2
        <5>2. Len(list') = Len(list) - i + 1
          BY <2>1, <4>1, <5>1, Cut
        <5> QED
          BY <2>1, <4>1, <5>2
      <4>3. CASE ~(i <= Len(list) + 1)
        BY <2>1, <4>1, <4>3
      <4> QED
        BY <4>2, <4>3
    <3>3. Len(list') \in Nat
      BY <2>1, <3>1
    <3> QED
      BY <2>1, <3>2, <3>3 DEF Keeps
  <2>4. CASE Links
    BY <2>1, <2>4, InsertKeeps DEF Links
  <2>5. CASE Starts
    BY <2>1, <2>5, InsertKeeps DEF Starts
  <2>6. list' = list \/ Pop \/ Links \/ Starts
    BY <1>1 DEF Next, Loop, CheckBegins, Expired, CheckEnds, LoadsNext, Frees, Freed,
      CyclicRuns, TcpRuns, TcpDecides, TcpClears, Allocates, Allocated, Seeks, GoesOn, TCP_REG, tcp_timer_needed, Tears, TCP_RMV,
      Tick, vars
  <2> QED
    BY <2>2, <2>3, <2>4, <2>5, <2>6
<1>2. [Keeps(list, list')]_vars <=>
      [Len(list') > Len(list) =>
         \E i \in 1..Len(list') :
           /\ DueAt(list')[i] = Interval[list'[i].h]
           /\ \A j \in 1..Len(list) :
                LET k == IF j < i THEN j ELSE j + 1 IN
                list'[k].h = list[j].h /\ DueAt(list')[k] = DueAt(list)[j]]_vars
  BY DEF Keeps
<1> QED
  BY <1>1, <1>2, TypeCorrect, PTL DEF Spec, OthersKeepTheirTime

-----------------------------------------------------------------------------
(***************************************************************************)
(* The list implements Alarms.  What sys_timeout, and next_timeout moving    *)
(* on, do to the time that is left until each entry is due, when Past has    *)
(* passed of it:                                                           *)
(***************************************************************************)
Left(q, past) == [j \in 1..Len(q) |-> [who |-> q[j].h, in |-> DueAt(q)[j] - past]]
Alarm == [who : Handler, in : Int]

LEMMA LeftType ==
  ASSUME NEW q \in Seq(Timeout), NEW past \in Int
  PROVE  /\ Left(q, past) \in Seq(Alarm)
         /\ Len(Left(q, past)) = Len(q)
         /\ \A j \in 1..Len(q) :
              Left(q, past)[j] = [who |-> q[j].h, in |-> DueAt(q)[j] - past]
<1> DEFINE D == DueAt(q)
           n == Len(q)
<1>1. n \in Nat /\ \A j \in 1..n : q[j].h \in Handler /\ D[j] \in Nat
  BY TimeoutFacts, DueAtSums
<1> HIDE DEF D, n
<1> DEFINE x == [j \in 1..n |-> [who |-> q[j].h, in |-> D[j] - past]]
<1>2. \A j \in 1..n : [who |-> q[j].h, in |-> D[j] - past] \in Alarm
  BY <1>1 DEF Alarm
<1>3. x \in [1..n -> Alarm]
  BY <1>2
<1>4. x \in Seq(Alarm) /\ Len(x) = n
  BY <1>1, <1>3
<1>5. Left(q, past) = x
  BY DEF Left, D, n
<1> QED
  BY <1>4, <1>5 DEF D, n

LEMMA LeftInsert ==
  ASSUME NEW q \in Seq(Timeout), NEW k \in Handler, NEW past \in Int, NEW a,
         a = Left(q, past)
  PROVE  LET i == Place(q, k) + 1
             in == Interval[k] - past
         IN  /\ i \in 1..Len(a) + 1
             /\ \A j \in 1..Len(a) : a[j].in <= in <=> j < i
             /\ Left(Insert(q, k), past) = InsertAt(a, i, [who |-> k, in |-> in])
<1> DEFINE n == Len(q)
           i == Place(q, k) + 1
           r == Insert(q, k)
           b == Left(r, past)
           e == [who |-> k, in |-> Interval[k] - past]
           c == InsertAt(a, i, e)
           D == DueAt(q)
           R == DueAt(r)
<1>1. n \in Nat /\ \A j \in 1..n : D[j] \in Nat
  BY TimeoutFacts, DueAtSums
<1>2. Interval[k] \in Nat
  BY IntervalBound
<1>3. i \in 1..n + 1 /\ \A j \in 1..n : D[j] <= Interval[k] <=> j < i
  BY <1>1, PlaceFound
<1>4. /\ a \in Seq(Alarm) /\ Len(a) = n
      /\ \A j \in 1..n : a[j] = [who |-> q[j].h, in |-> D[j] - past]
  BY LeftType
<1>5. r \in Seq(Timeout) /\ Len(r) = n + 1
  BY CountInsert
<1>6. /\ b \in Seq(Alarm) /\ Len(b) = n + 1
      /\ \A j \in 1..n + 1 : b[j] = [who |-> r[j].h, in |-> R[j] - past]
  BY <1>5, LeftType
<1>7. r[i].h = k /\ R[i] = Interval[k]
  BY InsertShift
<1>8. \A j \in 1..n : LET m == IF j < i THEN j ELSE j + 1 IN r[m].h = q[j].h /\ R[m] = D[j]
  BY InsertShift
<1>9. e \in Alarm
  BY <1>2 DEF Alarm
<1> HIDE DEF n, i, r, b, D, R
<1>10. /\ c \in Seq(Alarm) /\ Len(c) = n + 1
       /\ \A j \in 1..i - 1 : c[j] = a[j]
       /\ c[i] = e
       /\ \A j \in i + 1..n + 1 : c[j] = a[j - 1]
  <2> HIDE DEF e
  <2>1. i \in 1..Len(a) + 1
    BY <1>3, <1>4
  <2>2. c \in Seq(Alarm) /\ Len(c) = Len(a) + 1
    BY <1>4, <1>9, <2>1, Inserted
  <2>3. c[i] = e
    BY <1>4, <1>9, <2>1, Inserted
  <2>4. \A j \in 1..i - 1 : c[j] = a[j]
    BY <1>4, <1>9, <2>1, Inserted
  <2>5. Shifted(a, i, c)
    BY <1>4, <1>9, <2>1, Inserted
  <2> HIDE DEF c
  <2>6. \A j \in i + 1..n + 1 : c[j] = a[j - 1]
    BY <1>4, <2>5 DEF Shifted
  <2> QED
    BY <1>4, <2>2, <2>3, <2>4, <2>6
<1> HIDE DEF c
<1>11. ASSUME NEW m \in 1..n + 1 PROVE b[m] = c[m]
  <2>1. CASE m < i
    <3>1. m \in 1..n /\ m \in 1..i - 1
      BY <1>1, <1>3, <2>1
    <3>2. r[m].h = q[m].h /\ R[m] = D[m]
      BY <1>8, <2>1, <3>1
    <3>3. b[m] = [who |-> q[m].h, in |-> D[m] - past] /\ c[m] = a[m]
      BY <1>6, <1>10, <3>1, <3>2
    <3> QED
      BY <1>4, <3>1, <3>3
  <2>2. CASE m = i
    BY <1>6, <1>7, <1>10, <2>2
  <2>3. CASE m > i
    <3> DEFINE j == m - 1
    <3>1. j \in 1..n /\ ~(j < i) /\ j + 1 = m /\ m \in i + 1..n + 1 /\ m - 1 = j
      BY <1>1, <1>3, <2>3
    <3> HIDE DEF j
    <3>2. r[m].h = q[j].h /\ R[m] = D[j]
      BY <1>8, <3>1
    <3>3. b[m] = [who |-> q[j].h, in |-> D[j] - past]
      BY <1>6, <3>2
    <3>4. c[m] = a[j]
      <4>1. c[m] = a[m - 1]
        BY <1>10, <3>1
      <4> QED
        BY <3>1, <4>1
    <3> QED
      BY <1>4, <3>1, <3>3, <3>4
  <2> QED
    BY <1>1, <1>3, <2>1, <2>2, <2>3
<1>12. b = c
  BY <1>6, <1>10, <1>11, SeqEqual
<1>13. ASSUME NEW j \in 1..n PROVE a[j].in <= Interval[k] - past <=> j < i
  <2>1. a[j].in = D[j] - past /\ D[j] \in Nat
    BY <1>1, <1>4
  <2>2. D[j] <= Interval[k] <=> j < i
    BY <1>3
  <2> QED
    BY <1>2, <2>1, <2>2
<1> QED
  BY <1>3, <1>4, <1>12, <1>13 DEF b, c, r, i, n, e

LEMMA LeftPop ==
  ASSUME NEW q \in Seq(Timeout), Len(q) >= 1, NEW past \in Int
  PROVE  LET a == Left(q, past + DueAt(q)[1]) IN
         /\ a # <<>>
         /\ Head(a).in = -past
         /\ Left(SubSeq(q, 2, Len(q)), past) = Tail(a)
<1> DEFINE n == Len(q)
           D == DueAt(q)
           a == Left(q, past + D[1])
           r == SubSeq(q, 2, Len(q))
           R == DueAt(r)
           b == Left(r, past)
<1>1. n \in Nat /\ 1 \in 1..n
  BY TimeoutFacts
<1>2. D[0] = 0 /\ \A j \in 0..n : D[j] \in Nat
  BY DueAtSums
<1>3. \A j \in 1..n : D[j] = D[j - 1] + q[j].time /\ q[j].time \in Nat
  BY DueAtSums, TimeoutFacts
<1>4. r \in Seq(Timeout) /\ Len(r) = n - 1 /\ \A j \in 1..n - 1 : r[j] = q[j + 1]
  BY CountPop
<1>5. past + D[1] \in Int
  BY <1>1, <1>2
<1>6. /\ a \in Seq(Alarm) /\ Len(a) = n
      /\ \A j \in 1..n : a[j] = [who |-> q[j].h, in |-> D[j] - (past + D[1])]
  BY <1>5, LeftType
<1>7. /\ b \in Seq(Alarm) /\ Len(b) = n - 1
      /\ \A j \in 1..n - 1 : b[j] = [who |-> r[j].h, in |-> R[j] - past]
  BY <1>4, LeftType
<1> HIDE DEF n, D, a, r, b
<1>8. \A j \in 0..n - 1 : R[j] = D[j + 1] - D[1]
  <2> DEFINE d == [j \in 0..n - 1 |-> D[j + 1] - D[1]]
  <2>1. d[0] = 0
    BY <1>1, <1>2
  <2>2. ASSUME NEW j \in 1..n - 1 PROVE d[j] = d[j - 1] + r[j].time
    <3> DEFINE i == j + 1
    <3>1. i \in 1..n /\ i - 1 = j /\ j \in 0..n - 1 /\ j - 1 \in 0..n - 1 /\ j - 1 + 1 = j
          /\ j \in 0..n /\ i \in 0..n /\ 1 \in 0..n
      BY <1>1
    <3>2. d[j] = D[i] - D[1] /\ d[j - 1] = D[j] - D[1]
      BY <3>1
    <3>3. r[j] = q[i]
      BY <1>4
    <3> HIDE DEF i, d
    <3>4. D[i] = D[j] + q[i].time /\ q[i].time \in Nat /\ D[j] \in Nat /\ D[1] \in Nat
      BY <1>2, <1>3, <3>1
    <3> QED
      BY <3>2, <3>3, <3>4
  <2> HIDE DEF d
  <2>3. \A j \in 0..n - 1 : R[j] = d[j]
    BY <1>4, <2>1, <2>2, DueAtUnique
  <2> QED
    BY <2>3 DEF d
<1> HIDE DEF R
<1>9. a # <<>> /\ Head(a) = a[1] /\ a[1].in = -past
  BY <1>1, <1>2, <1>6
<1>10. /\ Tail(a) \in Seq(Alarm) /\ Len(Tail(a)) = n - 1
       /\ \A j \in 1..n - 1 : Tail(a)[j] = a[j + 1]
  BY <1>1, <1>6
<1>11. ASSUME NEW j \in 1..n - 1 PROVE b[j] = Tail(a)[j]
  <2> DEFINE i == j + 1
  <2>1. i \in 1..n /\ j \in 0..n - 1 /\ i \in 0..n /\ 1 \in 0..n
    BY <1>1
  <2>2. r[j] = q[i] /\ R[j] = D[i] - D[1] /\ Tail(a)[j] = a[i]
    BY <1>4, <1>8, <1>10, <2>1
  <2> HIDE DEF i
  <2>3. D[i] - D[1] - past = D[i] - (past + D[1])
    BY <1>2, <2>1
  <2> QED
    BY <1>6, <1>7, <2>1, <2>2, <2>3
<1>12. b = Tail(a)
  BY <1>7, <1>10, <1>11, SeqEqual
<1> QED
  BY <1>9, <1>12 DEF b, r, a, D

-----------------------------------------------------------------------------
LEMMA TimeLeftIs == TimeLeft = Left(list, Past) /\ TimeLeft' = Left(list', Past')
BY DEF TimeLeft, Left

LEMMA SetStep ==
  ASSUME list \in Seq(Timeout), NEW k \in Handler, NEW d \in Int,
         Past = d, Past' = d, list' = Insert(list, k)
  PROVE  Clock!Set(k, d)
<1> DEFINE a == TimeLeft
           i == Place(list, k) + 1
           in == Interval[k] - d
<1>1. a = Left(list, d) /\ a' = Left(Insert(list, k), d)
  BY TimeLeftIs
<1>2. /\ i \in 1..Len(a) + 1
      /\ \A j \in 1..Len(a) : a[j].in <= in <=> j < i
      /\ Left(Insert(list, k), d) = InsertAt(a, i, [who |-> k, in |-> in])
  BY <1>1, LeftInsert
<1>3. InsertAt(a, i, [who |-> k, in |-> in]) = Clock!InsertAt(a, i, [who |-> k, in |-> in])
  BY DEF InsertAt, Clock!InsertAt
<1>4. a' = Clock!InsertAt(a, i, [who |-> k, in |-> in])
  BY <1>1, <1>2, <1>3
<1> HIDE DEF a, i
<1>5. \E x \in 1..Len(a) + 1 :
        /\ \A j \in 1..Len(a) : a[j].in <= in <=> j < x
        /\ a' = Clock!InsertAt(a, x, [who |-> k, in |-> in])
  BY <1>2, <1>4
<1> QED
  BY <1>5 DEF Clock!Set, a

LEMMA RingStep ==
  ASSUME list \in Seq(Timeout), Len(list) >= 1, NEW d \in Nat,
         Past = d + DueAt(list)[1], Past' = d, list' = SubSeq(list, 2, Len(list))
  PROVE  Clock!Ring
<1> DEFINE a == TimeLeft
<1>1. a = Left(list, d + DueAt(list)[1]) /\ a' = Left(SubSeq(list, 2, Len(list)), d)
  BY TimeLeftIs
<1>2. d \in Int
  OBVIOUS
<1> HIDE DEF a
<1> DEFINE b == Left(list, d + DueAt(list)[1])
<1>3. b # <<>> /\ Head(b).in = -d /\ Left(SubSeq(list, 2, Len(list)), d) = Tail(b)
  BY <1>2, LeftPop
<1> HIDE DEF b
<1>4. a = b /\ a' = Left(SubSeq(list, 2, Len(list)), d)
  BY <1>1 DEF b
<1>5. a # <<>> /\ a' = Tail(a)
  BY <1>3, <1>4
<1>6. Head(a).in <= 0
  BY <1>3, <1>4
<1> QED
  BY <1>5, <1>6 DEF Clock!Ring, a

LEMMA LaterStep ==
  ASSUME list \in Seq(Timeout), list' = list, NEW past \in Int, NEW d \in Int,
         Past = past, Past' = past - d
  PROVE  TimeLeft' = Clock!Later(d)
<1> DEFINE a == TimeLeft
           D == DueAt(list)
           n == Len(list)
<1>1. past - d \in Int
  OBVIOUS
<1>2. n \in Nat /\ \A j \in 1..n : D[j] \in Nat
  BY TimeoutFacts, DueAtSums
<1>3. /\ Len(a) = n
      /\ \A j \in 1..n : a[j] = [who |-> list[j].h, in |-> D[j] - past]
  BY TimeLeftIs, LeftType
<1>4. a' = [j \in 1..n |-> [who |-> list[j].h, in |-> D[j] - (past - d)]]
  BY TimeLeftIs DEF Left
<1> HIDE DEF a, D, n
<1>5. ASSUME NEW j \in 1..n
      PROVE  [who |-> list[j].h, in |-> D[j] - (past - d)] = [a[j] EXCEPT !.in = @ + d]
  <2>1. D[j] - (past - d) = D[j] - past + d
    BY <1>2
  <2> QED
    BY <1>3, <2>1
<1>6. a' = [j \in 1..Len(a) |-> [a[j] EXCEPT !.in = @ + d]]
  BY <1>3, <1>4, <1>5
<1> QED
  BY <1>6 DEF Clock!Later, a

-----------------------------------------------------------------------------
(* The list is never ahead of timeouts_last_time, and what expired was not due *)
(* before sys_check_timeouts read the clock by more than the loop may be late. *)
ClockInv ==
  ~torn =>
    /\ pc # "idle" => late <= since + diff
    /\ ~Losing /\ pc \in {"pop", "next"} => Past <= since + MaxLate

Follows == ClockInv' /\ [Clock!Next]_Clock!vars

LEMMA PastFacts ==
  ASSUME IInv, ClockInv, ~torn
  PROVE  /\ list \in Seq(Timeout) /\ Len(list) \in Nat
         /\ DueAt(list) \in [0..Len(list) -> Nat]
         /\ late \in 0..MaxLate /\ since \in 0..MaxLate /\ diff \in 0..MaxLate
         /\ since <= late /\ MaxLate \in Nat
         /\ pc = "pop" => ahead \in {0, 1} /\ ahead + 1 \in 1..Len(list)
         /\ pc = "next" => ahead \in {1, 2} /\ ahead \in 1..Len(list)
         /\ Past \in Nat
         /\ ~Losing => Past \in 0..2 * MaxLate
<1>1. TypeOK /\ Popping
  BY DEF IInv
<1>2. /\ list \in Seq(Timeout) /\ Len(list) \in Nat
      /\ DueAt(list) \in [0..Len(list) -> Nat]
  BY <1>1, ListFacts, DueAtSums
<1>3. /\ late \in 0..MaxLate /\ since \in 0..MaxLate /\ diff \in 0..MaxLate
      /\ since <= late /\ MaxLate \in Nat
  BY <1>1, Bounds DEF TypeOK, Popping
<1>4. /\ pc = "pop" => ahead \in {0, 1} /\ ahead + 1 \in 1..Len(list)
      /\ pc = "next" => ahead \in {1, 2} /\ ahead \in 1..Len(list)
  BY <1>1, <1>2 DEF Popping
<1>5. /\ pc = "idle" => Past = late
      /\ pc = "pop" => Past = since + diff + DueAt(list)[ahead + 1]
      /\ pc = "next" => Past = since + diff + DueAt(list)[ahead]
      /\ pc \notin {"idle", "pop", "next"} => Past = since + diff
  BY DEF Past
<1>6. /\ pc = "pop" => DueAt(list)[ahead + 1] \in Nat
      /\ pc = "next" => DueAt(list)[ahead] \in Nat
  <2> DEFINE n == Len(list)
             D == DueAt(list)
  <2>1. \A j \in 1..n : D[j] \in Nat
    BY <1>2
  <2> HIDE DEF n, D
  <2>2. /\ pc = "pop" => D[ahead + 1] \in Nat
        /\ pc = "next" => D[ahead] \in Nat
    BY <1>4, <2>1 DEF n
  <2> QED
    BY <2>2 DEF D
<1> HIDE DEF Past, Losing
<1>7. Past \in Nat
  BY <1>3, <1>5, <1>6
<1>8. ~Losing => Past \in 0..2 * MaxLate
  <2>1. ~Losing /\ pc \in {"pop", "next"} => Past <= since + MaxLate
    BY DEF ClockInv
  <2> QED
    BY <1>3, <1>5, <1>7, <2>1
<1> QED
  BY <1>2, <1>3, <1>4, <1>7, <1>8

(* As long as nothing is lost, *)
LEMMA Kept ==
  ASSUME ~Losing', Losing => Losing', Clock!Keep \/ UNCHANGED TimeLeft
  PROVE  [Clock!Next]_Clock!vars
<1>1. ~Losing /\ Losing' = Losing
  BY DEF Losing
<1>2. CASE Clock!Keep
  BY <1>1, <1>2 DEF Clock!Next
<1>3. CASE UNCHANGED TimeLeft
  BY <1>1, <1>3 DEF Clock!vars
<1> QED
  BY <1>2, <1>3

(* and from then on anything. *)
LEMMA Lost == Losing' => [Clock!Next]_Clock!vars
<1>1. Losing' => Losing' = TRUE
  BY DEF Losing
<1> QED
  BY <1>1 DEF Clock!Next, Clock!Lose

-----------------------------------------------------------------------------
(* Neither the list changes nor how much of it has passed. *)
LEMMA SameTimes ==
  ASSUME list' = list, Past' = Past, Losing' = Losing
  PROVE  [Clock!Next]_Clock!vars
<1>1. TimeLeft' = TimeLeft
  BY TimeLeftIs
<1> QED
  BY <1>1 DEF Clock!vars

LEMMA CheckBeginsTime ==
  ASSUME IInv, ClockInv, CheckBegins PROVE Follows
<1>1. ~torn /\ pc = "idle" /\ pc' = "test"
      /\ since' = 0 /\ diff' = late
      /\ UNCHANGED <<list, late, ahead, leaked, torn>>
  BY DEF CheckBegins, LoopAt
<1>2. late \in Nat
  BY <1>1, PastFacts
<1>3. Past = late /\ Past' = late
  BY <1>1, <1>2 DEF Past
<1>4. Losing' = Losing
  BY <1>1 DEF Losing
<1>5. ClockInv'
  BY <1>1, <1>2 DEF ClockInv
<1> QED
  BY <1>1, <1>3, <1>4, <1>5, SameTimes DEF Follows

LEMMA ExpiredTime ==
  ASSUME IInv, ClockInv, Expired PROVE Follows
<1> DEFINE t == list[1].time
<1>1. /\ ~torn /\ pc = "test" /\ pc' = "pop" /\ ahead' = 0
      /\ list # <<>> /\ Head(list).time <= diff
      /\ late' = since /\ diff' = diff - Head(list).time
      /\ UNCHANGED <<list, since, leaked, torn>>
  BY DEF Expired, LoopAt
<1>2. /\ list \in Seq(Timeout) /\ Len(list) \in Nat
      /\ since \in 0..MaxLate /\ diff \in 0..MaxLate /\ MaxLate \in Nat
  BY <1>1, PastFacts
<1>3. 1 \in 1..Len(list) /\ Head(list).time = t
  BY <1>1, <1>2
<1>4. DueAt(list)[1] = t /\ t \in Nat
  <2>1. \A j \in 1..Len(list) : DueAt(list)[j] = DueAt(list)[j - 1] + list[j].time
    BY <1>2, DueAtSums
  <2>2. DueAt(list)[0] = 0 /\ t \in Nat
    BY <1>2, <1>3, DueAtSums, TimeoutFacts
  <2>3. DueAt(list)[1] = DueAt(list)[1 - 1] + t
    BY <1>3, <2>1
  <2> QED
    BY <2>2, <2>3
<1> HIDE DEF t
<1>5. Past = since + diff
  BY <1>1 DEF Past
<1>6. Past' = since + diff' + DueAt(list)[1]
  BY <1>1 DEF Past
<1>7. diff' = diff - t /\ t <= diff
  BY <1>1, <1>3
<1>8. Past' = Past
  BY <1>2, <1>4, <1>5, <1>6, <1>7
<1>9. Losing' = Losing
  BY <1>1 DEF Losing
<1>10. late' <= since' + diff' /\ Past' <= since' + MaxLate
  BY <1>1, <1>2, <1>4, <1>5, <1>7, <1>8
<1> QED
  BY <1>1, <1>8, <1>9, <1>10, SameTimes DEF Follows, ClockInv

(* The ticks that were left to work off count from the next time on. *)
LEMMA CheckEndsTime ==
  ASSUME IInv, ClockInv, CheckEnds PROVE Follows
<1> DEFINE d == since + diff - late
<1>1. /\ ~torn /\ pc = "test" /\ pc' = "idle"
      /\ UNCHANGED <<list, late, leaked, torn>>
  BY DEF CheckEnds, LoopAt
<1>2. /\ list \in Seq(Timeout)
      /\ late \in 0..MaxLate /\ since \in 0..MaxLate /\ diff \in 0..MaxLate
      /\ since <= late /\ MaxLate \in Nat
  BY <1>1, PastFacts
<1>3. Past = since + diff /\ Past' = late
  BY <1>1 DEF Past
<1>4. late <= since + diff
  BY <1>1 DEF ClockInv
<1>5. d \in 0..2 * MaxLate /\ Past' = Past - d /\ Past \in Int
  BY <1>2, <1>3, <1>4
<1> HIDE DEF d
<1>6. ClockInv'
  BY <1>1 DEF ClockInv
<1>7. Losing' = Losing
  BY <1>1 DEF Losing
<1>8. CASE d = 0
  <2>1. Past' = Past
    BY <1>5, <1>8
  <2> QED
    BY <1>1, <1>6, <1>7, <2>1, SameTimes DEF Follows
<1>9. CASE d # 0
  <2>1. d \in 1..2 * MaxLate /\ d \in Int
    BY <1>2, <1>5, <1>9
  <2>2. TimeLeft' = Clock!Later(d)
    BY <1>1, <1>2, <1>5, <2>1, LaterStep
  <2>3. CASE Losing'
    BY <1>6, <2>3, Lost DEF Follows
  <2>4. CASE ~Losing'
    <3>1. Clock!Slip(d)
      BY <2>2 DEF Clock!Slip
    <3>2. Clock!Keep
      BY <1>7, <2>1, <3>1 DEF Clock!Keep
    <3> QED
      BY <1>6, <1>7, <2>4, <3>2, Kept DEF Follows
  <2> QED
    BY <2>3, <2>4
<1> QED
  BY <1>8, <1>9

(* The successor is the entry behind the one that expired, unless one is lost. *)
LEMMA LoadsNextTime ==
  ASSUME IInv, ClockInv, LoadsNext PROVE Follows
<1>1. /\ ~torn /\ pc = "pop" /\ pc' = "next" /\ ahead' = ahead + 1
      /\ UNCHANGED <<list, late, since, diff, leaked, torn>>
  BY DEF LoadsNext, LoopAt
<1>2. Past = since + diff + DueAt(list)[ahead + 1]
  BY <1>1 DEF Past
<1>3. Past' = since + diff + DueAt(list)[ahead + 1]
  BY <1>1 DEF Past
<1>4. Past' = Past /\ late' <= since' + diff'
  BY <1>1, <1>2, <1>3 DEF ClockInv
<1>5. CASE Losing'
  <2>1. ClockInv'
    BY <1>1, <1>4, <1>5 DEF ClockInv
  <2> QED
    BY <1>5, <2>1, Lost DEF Follows
<1>6. CASE ~Losing'
  <2>1. ~Losing /\ Losing' = Losing
    BY <1>1, <1>6 DEF Losing
  <2>2. Past <= since + MaxLate
    BY <1>1, <2>1 DEF ClockInv
  <2>3. ClockInv'
    <3>1. Past' <= since' + MaxLate
      BY <1>1, <1>4, <2>2
    <3> QED
      BY <1>4, <3>1 DEF ClockInv
  <2> QED
    BY <1>1, <1>4, <2>1, <2>3, SameTimes DEF Follows
<1> QED
  BY <1>5, <1>6

(* next_timeout moves on by the entry that expired, or by one more. *)
LEMMA PopTime ==
  ASSUME IInv, ClockInv, Pop PROVE Follows
<1>1. /\ ~torn /\ pc = "next" /\ pc' = "popped"
      /\ list' = SubSeq(list, ahead + 1, Len(list))
      /\ leaked' = leaked + ahead - 1 /\ leaked \in Nat
      /\ UNCHANGED <<late, since, diff, ahead, torn>>
  BY DEF Pop, LoopAt, IInv, TypeOK
<1>2. /\ list \in Seq(Timeout) /\ Len(list) \in Nat
      /\ since \in 0..MaxLate /\ diff \in 0..MaxLate /\ MaxLate \in Nat
      /\ ahead \in {1, 2} /\ ahead \in 1..Len(list)
  BY <1>1, PastFacts
<1>3. Past = since + diff + DueAt(list)[ahead] /\ Past' = since + diff
  <2>1. Past = since + diff + DueAt(list)[ahead]
    BY <1>1 DEF Past
  <2>2. Past' = since' + diff'
    BY <1>1 DEF Past
  <2> QED
    BY <1>1, <2>1, <2>2
<1>4. ClockInv'
  BY <1>1 DEF ClockInv
<1>5. CASE Losing'
  BY <1>4, <1>5, Lost DEF Follows
<1>6. CASE ~Losing'
  <2>1. ~Losing /\ Losing' = Losing /\ ahead = 1
    <3>1. ~(leaked > 0) /\ ~(ahead > 1)
      <4>1. ~(leaked' > 0)
        BY <1>6 DEF Losing
      <4> QED
        BY <1>1, <1>2, <4>1
    <3>2. ~Losing
      BY <3>1 DEF Losing
    <3>3. Losing' = Losing
      BY <1>6, <3>2 DEF Losing
    <3> QED
      BY <1>2, <3>1, <3>2, <3>3
  <2> DEFINE d == since + diff
  <2>2. d \in Nat
    BY <1>2
  <2>3. Past = d + DueAt(list)[1] /\ Past' = d
    BY <1>3, <2>1
  <2> HIDE DEF d
  <2>4. list' = SubSeq(list, 2, Len(list)) /\ Len(list) >= 1
    BY <1>1, <1>2, <2>1
  <2>5. Clock!Ring
    BY <1>2, <2>2, <2>3, <2>4, RingStep
  <2>6. Clock!Keep
    BY <2>1, <2>5 DEF Clock!Keep
  <2> QED
    BY <1>4, <1>6, <2>1, <2>6, Kept DEF Follows
<1> QED
  BY <1>5, <1>6

(* Between these steps only the handlers change. *)
LEMMA HandlingTime ==
  ASSUME IInv, ClockInv, ~torn,
         pc \notin {"idle", "pop", "next"}, pc' \notin {"idle", "pop", "next"},
         UNCHANGED <<list, late, since, diff, leaked, torn>>
  PROVE  Follows
<1>1. Past' = since' + diff' /\ Past = since + diff
  BY DEF Past
<1>2. Past' = Past
  BY <1>1
<1>3. Losing' = Losing
  BY DEF Losing
<1>4. ClockInv'
  BY DEF ClockInv
<1> QED
  BY <1>2, <1>3, <1>4, SameTimes DEF Follows

LEMMA LinksTime ==
  ASSUME IInv, ClockInv, Links PROVE Follows
<1>1. /\ ~torn /\ pc = "link" /\ pc' = "test"
      /\ list' = Insert(list, h)
      /\ UNCHANGED <<late, since, diff, leaked, torn>>
  BY DEF Links, LoopAt
<1>2. list \in Seq(Timeout) /\ h \in Handler
  BY <1>1, PastFacts DEF IInv, TypeOK
<1>3. Past' = since' + diff' /\ Past = since + diff
  BY <1>1 DEF Past
<1>4. Past' = Past
  BY <1>1, <1>3
<1>5. ClockInv'
  BY <1>1 DEF ClockInv
<1>6. Losing' = Losing
  BY <1>1 DEF Losing
<1>7. CASE Losing'
  BY <1>5, <1>7, Lost DEF Follows
<1>8. CASE ~Losing'
  <2> DEFINE d == Past
  <2>1. d \in 0..2 * MaxLate /\ MaxLate \in Nat
    BY <1>1, <1>6, <1>8, PastFacts
  <2>2. d \in Int /\ Past = d /\ Past' = d
    BY <1>4, <2>1
  <2> HIDE DEF d
  <2>3. Clock!Set(h, d)
    BY <1>1, <1>2, <2>2, SetStep
  <2>4. Clock!Keep
    BY <1>2, <1>6, <2>1, <2>3 DEF Clock!Keep
  <2> QED
    BY <1>5, <1>6, <1>8, <2>4, Kept DEF Follows
<1> QED
  BY <1>7, <1>8

(* The interrupt's timeout leaves the entry that has expired where it was, or  *)
(* moves it on by one, unless the loop has loaded its successor. *)
LEMMA StartsTime ==
  ASSUME IInv, ClockInv, ~torn, Starts, UNCHANGED <<late, since, diff, leaked>>
  PROVE  Follows
<1>1. /\ list' = Insert(list, TCP)
      /\ ahead' = ahead + (IF pc \in {"pop", "next"} /\ Place(list, TCP) <= ahead THEN 1 ELSE 0)
      /\ UNCHANGED <<pc, torn>>
  BY DEF Starts
<1>2. /\ list \in Seq(Timeout) /\ Len(list) \in Nat
      /\ pc = "pop" => ahead \in {0, 1} /\ ahead + 1 \in 1..Len(list)
      /\ pc = "next" => ahead \in {1, 2} /\ ahead \in 1..Len(list)
  BY PastFacts
<1> DEFINE p == Place(list, TCP)
           D == DueAt(list)
           R == DueAt(list')
<1>3. TCP \in Handler /\ p \in 0..Len(list)
  BY <1>2, HandlerFacts, PlaceFound
<1>4. \A j \in 1..Len(list) : R[IF j < p + 1 THEN j ELSE j + 1] = D[j]
  BY <1>1, <1>2, <1>3, InsertShift
<1>5. CASE Losing'
  <2>1. pc' # "idle" => late' <= since' + diff'
    BY <1>1 DEF ClockInv
  <2>2. ClockInv'
    BY <1>5, <2>1 DEF ClockInv
  <2> QED
    BY <1>5, <2>2, Lost DEF Follows
<1>6. CASE ~Losing'
  <2>1. pc = "next" => ahead' = 1
    <3>1. ~(pc' = "next" /\ ahead' > 1)
      BY <1>6 DEF Losing
    <3>2. pc = "next" => ahead' \in {ahead, ahead + 1}
      BY <1>1, <1>2
    <3> QED
      BY <1>1, <1>2, <3>1, <3>2
  <2>2. pc = "next" => ahead = 1 /\ ahead' = ahead /\ p > 1
    <3>1. pc = "next" /\ p <= ahead => ahead' = ahead + 1
      BY <1>1 DEF p
    <3>2. pc = "next" /\ ~(p <= ahead) => ahead' = ahead
      BY <1>1, <1>2 DEF p
    <3> QED
      BY <1>2, <1>3, <2>1, <3>1, <3>2
  <2>3. ~Losing /\ Losing' = Losing
    <3>1. ~(leaked > 0) /\ (pc = "next" => ~(ahead > 1))
      BY <1>6, <2>2 DEF Losing
    <3>2. ~Losing
      BY <3>1 DEF Losing
    <3> QED
      BY <1>6, <3>2 DEF Losing
  <2>4. pc = "pop" => R[ahead' + 1] = D[ahead + 1]
    <3> SUFFICES ASSUME pc = "pop" PROVE R[ahead' + 1] = D[ahead + 1]
      OBVIOUS
    <3>1. ahead + 1 \in 1..Len(list)
      BY <1>2
    <3>2. R[IF ahead + 1 < p + 1 THEN ahead + 1 ELSE ahead + 1 + 1] = D[ahead + 1]
      BY <1>4, <3>1
    <3>3. ahead' = IF ahead + 1 < p + 1 THEN ahead ELSE ahead + 1
      BY <1>1, <1>2, <1>3
    <3> HIDE DEF p, R, D
    <3> QED
      BY <3>2, <3>3
  <2>5. pc = "next" => R[ahead'] = D[ahead]
    <3> SUFFICES ASSUME pc = "next" PROVE R[ahead'] = D[ahead]
      OBVIOUS
    <3>1. 1 \in 1..Len(list) /\ 1 < p + 1
      BY <1>2, <1>3, <2>2
    <3> HIDE DEF p, R, D
    <3>2. R[1] = D[1]
      BY <1>4, <3>1
    <3> QED
      BY <2>2, <3>2
  <2>6. Past' = Past
    <3>1. Past' = CASE pc = "idle" -> late
                    [] pc = "pop" -> since + diff + R[ahead' + 1]
                    [] pc = "next" -> since + diff + R[ahead']
                    [] OTHER -> since + diff
      BY <1>1 DEF Past
    <3>2. Past = CASE pc = "idle" -> late
                   [] pc = "pop" -> since + diff + D[ahead + 1]
                   [] pc = "next" -> since + diff + D[ahead]
                   [] OTHER -> since + diff
      BY DEF Past
    <3> HIDE DEF R, D
    <3> QED
      BY <2>4, <2>5, <3>1, <3>2
  <2>7. ClockInv'
    <3>1. pc # "idle" => late <= since + diff
      BY DEF ClockInv
    <3>2. pc \in {"pop", "next"} => Past <= since + MaxLate
      BY <2>3 DEF ClockInv
    <3> HIDE DEF Past, Losing
    <3> QED
      BY <1>1, <2>6, <3>1, <3>2 DEF ClockInv
  <2> DEFINE d == Past
  <2>8. d \in 0..2 * MaxLate /\ MaxLate \in Nat
    BY <2>3, PastFacts
  <2>9. d \in Int /\ Past = d /\ Past' = d
    BY <2>6, <2>8
  <2> HIDE DEF d
  <2>10. Clock!Set(TCP, d)
    BY <1>1, <1>2, <1>3, <2>9, SetStep
  <2>11. Clock!Keep
    BY <1>3, <2>3, <2>8, <2>10 DEF Clock!Keep
  <2> QED
    BY <1>6, <2>3, <2>7, <2>11, Kept DEF Follows
<1> QED
  BY <1>5, <1>6

(* Nothing of it changes, *)
LEMMA NoTime ==
  ASSUME ClockInv, UNCHANGED <<list, late, since, diff, pc, ahead, leaked>>, torn => torn'
  PROVE  Follows
<1>1. Past' = Past
  BY DEF Past
<1>2. Losing' = Losing
  BY DEF Losing
<1>3. ClockInv'
  BY <1>1, <1>2 DEF ClockInv
<1> QED
  BY <1>1, <1>2, <1>3, SameTimes DEF Follows

(* or time passes. *)
LEMMA TickTime ==
  ASSUME IInv, ClockInv, Tick PROVE Follows
<1>1. /\ ~torn
      /\ late' = late + 1
      /\ since' = IF pc = "idle" THEN 0 ELSE since + 1
      /\ UNCHANGED <<list, diff, pc, ahead, leaked, torn>>
  BY DEF Tick
<1>2. /\ list \in Seq(Timeout) /\ Past \in Nat
      /\ late \in 0..MaxLate /\ since \in 0..MaxLate /\ diff \in 0..MaxLate /\ MaxLate \in Nat
  BY <1>1, PastFacts
<1>3. DueAt(list)' = DueAt(list)
  BY <1>1
<1> DEFINE D == DueAt(list)
<1>4. /\ pc = "idle" => Past = late /\ Past' = late'
      /\ pc = "pop" => Past = since + diff + D[ahead + 1] /\ Past' = since' + diff + D[ahead + 1]
      /\ pc = "next" => Past = since + diff + D[ahead] /\ Past' = since' + diff + D[ahead]
      /\ pc \notin {"idle", "pop", "next"} => Past = since + diff /\ Past' = since' + diff
  BY <1>1 DEF Past
<1>5. /\ pc = "pop" => D[ahead + 1] \in Nat
      /\ pc = "next" => D[ahead] \in Nat
  <2> DEFINE n == Len(list)
  <2>1. \A j \in 1..n : D[j] \in Nat
    BY <1>1, PastFacts
  <2>2. /\ pc = "pop" => ahead + 1 \in 1..n
        /\ pc = "next" => ahead \in 1..n
    BY <1>1, PastFacts
  <2> HIDE DEF n, D
  <2> QED
    BY <2>1, <2>2
<1> HIDE DEF D
<1>6. Past' = Past + 1
  BY <1>1, <1>2, <1>4, <1>5
<1>7. Losing' = Losing
  BY <1>1 DEF Losing
<1>8. ClockInv'
  <2>1. /\ pc # "idle" => late <= since + diff
        /\ ~Losing /\ pc \in {"pop", "next"} => Past <= since + MaxLate
    BY <1>1 DEF ClockInv
  <2>2. pc' # "idle" => late' <= since' + diff'
    BY <1>1, <1>2, <2>1
  <2>3. ~Losing' /\ pc' \in {"pop", "next"} => Past' <= since' + MaxLate
    BY <1>1, <1>2, <1>6, <1>7, <2>1
  <2> QED
    BY <2>2, <2>3 DEF ClockInv
<1>9. CASE Losing'
  BY <1>8, <1>9, Lost DEF Follows
<1>10. CASE ~Losing'
  <2> DEFINE d == -1
             past == Past
  <2>1. d \in Int /\ past \in Int /\ Past' = past - d
    BY <1>2, <1>6
  <2>2. past = Past
    OBVIOUS
  <2> HIDE DEF d, past
  <2>3. TimeLeft' = Clock!Later(d)
    BY <1>1, <1>2, <2>1, <2>2, LaterStep
  <2>4. Clock!Tick
    BY <2>3 DEF Clock!Tick, d
  <2>5. Clock!Keep
    BY <1>7, <2>4 DEF Clock!Keep
  <2> QED
    BY <1>7, <1>8, <1>10, <2>5, Kept DEF Follows
<1> QED
  BY <1>9, <1>10

LEMMA TCP_REGTime ==
  ASSUME IInv, ClockInv, TCP_REG PROVE Follows
<1>1. ~torn /\ tcp_timer_needed /\ UNCHANGED <<late, since, diff, h, leaked>>
  BY DEF TCP_REG
<1>2. CASE Starts
  BY <1>1, <1>2, StartsTime
<1>3. CASE Tears
  BY <1>1, <1>3, NoTime DEF Tears
<1>4. CASE UNCHANGED <<list, pc, ahead, active, missed, torn>>
  BY <1>1, <1>4, NoTime
<1> QED
  BY <1>1, <1>2, <1>3, <1>4 DEF tcp_timer_needed

LEMMA NextTime ==
  ASSUME IInv, ClockInv, [Next]_vars PROVE Follows
<1>1. CASE Frees \/ Freed \/ CyclicRuns \/ TcpRuns \/ TcpDecides \/ TcpClears
             \/ Allocates \/ Allocated \/ Seeks
  <2>1. /\ ~torn /\ pc \notin {"idle", "pop", "next"}
        /\ UNCHANGED <<list, late, since, diff, leaked, torn>>
    BY <1>1 DEF Frees, Freed, CyclicRuns, TcpRuns, TcpDecides, TcpClears, Allocates, Allocated,
      Seeks, GoesOn, LoopAt
  <2>2. pc' \notin {"idle", "pop", "next"}
    BY <1>1 DEF Frees, Freed, CyclicRuns, TcpRuns, TcpDecides, TcpClears, Allocates, Allocated,
      Seeks, GoesOn, LoopAt
  <2> QED
    BY <2>1, <2>2, HandlingTime
<1>2. CASE TCP_RMV
  BY <1>2, NoTime DEF TCP_RMV, check
<1>3. CASE UNCHANGED vars
  BY <1>3, NoTime DEF vars, check
<1> QED
  BY <1>1, <1>2, <1>3, CheckBeginsTime, ExpiredTime, CheckEndsTime, LoadsNextTime, PopTime,
     LinksTime, TCP_REGTime, TickTime
  DEF Next, Loop

(* sys_timeouts_init sets everyone's. *)
LEMMA InitTime ==
  ASSUME Init PROVE Clock!Init /\ ClockInv
<1>1. /\ list \in Seq(Timeout) /\ Len(list) \in Nat
      /\ \A k \in Handler : Count(list, k) = 1
      /\ OnTime(list)
  BY StartsUp, TimeoutFacts DEF Init
<1>2. Past = 0 /\ ~Losing /\ Losing = FALSE
  BY DEF Init, Past, Losing
<1> DEFINE a == TimeLeft
           n == Len(list)
<1>3. /\ Len(a) = n
      /\ \A j \in 1..n : a[j] = [who |-> list[j].h, in |-> DueAt(list)[j]]
  <2>1. /\ Len(a) = n
        /\ \A j \in 1..n : a[j] = [who |-> list[j].h, in |-> DueAt(list)[j] - 0]
    BY <1>1, <1>2, TimeLeftIs, LeftType
  <2>2. \A j \in 1..n : DueAt(list)[j] - 0 = DueAt(list)[j]
    <3>1. \A j \in 1..n : DueAt(list)[j] \in Nat
      BY <1>1, DueAtSums
    <3> QED
      BY <3>1
  <2> HIDE DEF a, n
  <2> QED
    BY <2>1, <2>2
<1> HIDE DEF a
<1>4. ASSUME NEW k \in Handler
      PROVE  \E j \in 1..n : a[j] = [who |-> k, in |-> Interval[k]]
  <2>1. PICK j \in 1..n : list[j].h = k
    <3>1. Where(list, k) # {}
      BY <1>1, CountType
    <3> QED
      BY <3>1 DEF Where
  <2>2. a[j] = [who |-> k, in |-> Interval[k]]
    BY <1>1, <1>3, <2>1 DEF OnTime
  <2> QED
    BY <2>2
<1>5. ASSUME NEW i \in 1..n, NEW j \in 1..n, a[i].who = a[j].who
      PROVE  i = j
  <2> DEFINE k == list[i].h
  <2>1. k \in Handler /\ list[j].h = k
    <3>1. a[i].who = list[i].h /\ a[j].who = list[j].h
      <4>1. \A m \in 1..n : a[m] = [who |-> list[m].h, in |-> DueAt(list)[m]]
        BY <1>3
      <4> HIDE DEF n
      <4>2. a[i] = [who |-> list[i].h, in |-> DueAt(list)[i]]
        BY <4>1
      <4>3. a[j] = [who |-> list[j].h, in |-> DueAt(list)[j]]
        BY <4>1
      <4> QED
        BY <4>2, <4>3
    <3>2. list[i].h \in Handler
      BY <1>1, TimeoutFacts
    <3> QED
      BY <1>5, <3>1, <3>2
  <2>2. i \in Where(list, k) /\ j \in Where(list, k)
    BY <2>1 DEF Where
  <2> HIDE DEF k
  <2>3. Cardinality(Where(list, k)) = 1 /\ IsFiniteSet(Where(list, k))
    BY <1>1, <2>1, CountType DEF Count
  <2>4. \E x : Where(list, k) = {x}
    BY <2>3, FS_Singleton
  <2> QED
    BY <2>2, <2>4
<1>6. Clock!Init
  BY <1>2, <1>3, <1>4, <1>5 DEF Clock!Init, a
<1>7. ClockInv
  BY DEF Init, ClockInv
<1> QED
  BY <1>6, <1>7

(* Every behaviour of the loop and the interrupt is one of Alarms: what is set is *)
(* due after its interval, whatever else is set or rings, and rings then, the most *)
(* urgent first, until a timeout is lost. *)
THEOREM AlarmsRefined == Spec => AlarmSpec
<1>1. Init => Clock!Init /\ ClockInv
  BY InitTime
<1>2. IInv /\ ClockInv /\ [Next]_vars => ClockInv' /\ [Clock!Next]_Clock!vars
  BY NextTime DEF Follows
<1>3. Spec => []IInv
  BY Invariance
<1> QED
  BY <1>1, <1>2, <1>3, PTL DEF Spec, AlarmSpec, Clock!Spec
=============================================================================
