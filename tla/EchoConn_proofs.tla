--------------------------- MODULE EchoConn_proofs ---------------------------
(***************************************************************************)
(* One connection of echo.c, for any pool of pbufs, window, send buffer and *)
(* number of segments.  First what chains of pbufs are and what pbuf_free   *)
(* does to one; then the configuration segment, whatever interrupts what;   *)
(* then the order of the segments, the window and the reference counts, as  *)
(* long as no callback comes in the middle of echo_poll.                   *)
(***************************************************************************)
EXTENDS EchoConn, NatRecursion, FiniteSetTheorems, FunctionTheorems, SequenceTheorems

-----------------------------------------------------------------------------
(***************************************************************************)
(* The chain of pbufs that begins at b, for the next pointers nx.           *)
(***************************************************************************)
N == Cardinality(Pbuf)

ChainOf(nx, b) ==
  LET walk[n \in 0..Cardinality(Pbuf)] ==
        [x \in PbufOrNull |->
           IF x = Null \/ n = 0 THEN <<>> ELSE <<x>> \o walk[n - 1][nx[x]]]
  IN  walk[Cardinality(Pbuf)][b]

LEMMA ChainIsChainOf ==
  /\ \A b : Chain(b) = ChainOf(next, b)
  /\ Chain(p)' = ChainOf(next', p')
BY DEF Chain, ChainOf

LEMMA Pool ==
  /\ IsFiniteSet(Pbuf) /\ Null \notin Pbuf /\ N \in Nat
  /\ Pbuf # {} => N > 0
<1>1. IsFiniteSet(Pbuf) /\ Null \notin Pbuf
  BY EchoConnAssumption
<1> QED
  BY <1>1, FS_CardinalityType, FS_EmptySet DEF N

Walk(nx, w) ==
  /\ w \in [0..N -> [PbufOrNull -> Seq(Pbuf)]]
  /\ \A x \in PbufOrNull : w[0][x] = <<>>
  /\ \A m \in 0..N : w[m][Null] = <<>>
  /\ \A m \in 1..N : \A x \in Pbuf : w[m][x] = <<x>> \o w[m - 1][nx[x]]

LEMMA WalkExists ==
  ASSUME NEW nx \in [Pbuf -> PbufOrNull]
  PROVE  \E w : Walk(nx, w) /\ \A b : ChainOf(nx, b) = w[N][b]
<1> DEFINE E(g) == [n \in 0..N |->
                      [x \in PbufOrNull |->
                         IF x = Null \/ n = 0 THEN <<>> ELSE <<x>> \o g[n - 1][nx[x]]]]
           w == CHOOSE g : g = E(g)
           S == [PbufOrNull -> Seq(Pbuf)]
           base == [x \in PbufOrNull |-> <<>>]
           step == [k \in 1..N |->
                      [f \in S |-> [x \in PbufOrNull |->
                         IF x = Null THEN <<>> ELSE <<x>> \o f[nx[x]]]]]
<1>1. N \in Nat /\ Null \notin Pbuf
  BY Pool
<1>2. \A b : ChainOf(nx, b) = w[N][b]
  BY DEF ChainOf, N
<1> HIDE DEF w
<1>3. base \in S
  OBVIOUS
<1>4. ASSUME NEW f \in S
      PROVE  [x \in PbufOrNull |-> IF x = Null THEN <<>> ELSE <<x>> \o f[nx[x]]] \in S
  <2> SUFFICES ASSUME NEW x \in PbufOrNull
               PROVE  (IF x = Null THEN <<>> ELSE <<x>> \o f[nx[x]]) \in Seq(Pbuf)
    OBVIOUS
  <2>1. CASE x = Null
    BY <2>1
  <2>2. CASE x # Null
    <3>1. x \in Pbuf /\ nx[x] \in PbufOrNull
      BY <2>2 DEF PbufOrNull
    <3>2. <<x>> \in Seq(Pbuf) /\ f[nx[x]] \in Seq(Pbuf)
      BY <3>1
    <3> QED
      BY <2>2, <3>2, ConcatProperties
  <2> QED
    BY <2>1, <2>2
<1> HIDE DEF S
<1>5. step \in Steps(S, N)
  BY <1>4 DEF Steps
<1> HIDE DEF step, base
<1>6. PICK g : Solves(g, S, N, base, step)
  BY <1>1, <1>3, <1>5, Solution
<1>7. /\ g \in [0..N -> S] /\ g[0] = base
      /\ \A k \in 1..N : g[k] = step[k][g[k - 1]]
  BY <1>6 DEF Solves
<1>8. \A k \in 1..N : g[k] = [x \in PbufOrNull |->
                                IF x = Null THEN <<>> ELSE <<x>> \o g[k - 1][nx[x]]]
  <2>1. \A k \in 1..N : g[k - 1] \in S
    BY <1>1, <1>7
  <2> QED
    BY <1>7, <2>1 DEF step
<1>9. g = E(g)
  <2>1. ASSUME NEW n \in 0..N
        PROVE  g[n] = [x \in PbufOrNull |->
                         IF x = Null \/ n = 0 THEN <<>> ELSE <<x>> \o g[n - 1][nx[x]]]
    <3>1. CASE n = 0
      BY <1>7, <3>1 DEF base
    <3>2. CASE n # 0
      <4>1. n \in 1..N
        BY <1>1, <3>2
      <4> QED
        BY <1>8, <3>2, <4>1
    <3> QED
      BY <3>1, <3>2
  <2> QED
    BY <1>7, <2>1
<1>10. w = E(w)
  BY <1>9 DEF w
<1>11. \A n \in 0..N : w[n] = [x \in PbufOrNull |->
                         IF x = Null \/ n = 0 THEN <<>> ELSE <<x>> \o w[n - 1][nx[x]]]
  BY <1>10
<1>12. /\ \A x \in PbufOrNull : w[0][x] = <<>>
       /\ \A m \in 0..N : w[m][Null] = <<>>
  <2>1. 0 \in 0..N /\ Null \in PbufOrNull
    BY <1>1 DEF PbufOrNull
  <2>2. \A n \in 0..N : \A x \in PbufOrNull :
          w[n][x] = IF x = Null \/ n = 0 THEN <<>> ELSE <<x>> \o w[n - 1][nx[x]]
    BY <1>11
  <2> QED
    BY <2>1, <2>2
<1>13. ASSUME NEW m \in 1..N, NEW x \in Pbuf PROVE w[m][x] = <<x>> \o w[m - 1][nx[x]]
  <2>1. m \in 0..N /\ m # 0 /\ x \in PbufOrNull /\ x # Null
    BY <1>1 DEF PbufOrNull
  <2> QED
    BY <1>11, <2>1
<1>14. w \in [0..N -> S]
  <2> DEFINE T == {m \in 0..N : w[m] \in S}
  <2>1. 0 \in T
    <3>1. w[0] = base
      BY <1>1, <1>11 DEF base
    <3> QED
      BY <1>1, <1>3, <3>1
  <2>2. ASSUME NEW m \in 1..N, m - 1 \in T PROVE m \in T
    <3>1. w[m - 1] \in S /\ m \in 0..N /\ m # 0
      BY <1>1, <2>2
    <3>2. w[m] = [x \in PbufOrNull |-> IF x = Null THEN <<>> ELSE <<x>> \o w[m - 1][nx[x]]]
      BY <1>11, <3>1
    <3> QED
      BY <1>4, <3>1, <3>2
  <2> HIDE DEF T
  <2>3. \A m \in 0..N : m \in T
    BY <1>1, <2>1, <2>2, UpTo
  <2>4. \A m \in 0..N : w[m] \in S
    BY <2>3 DEF T
  <2>5. w = [n \in 0..N |-> w[n]]
    BY <1>10
  <2> QED
    BY <2>4, <2>5
<1>15. Walk(nx, w)
  BY <1>12, <1>13, <1>14 DEF Walk, S
<1> QED
  BY <1>2, <1>15

(***************************************************************************)
(* A chain stays in every set of pbufs that its first one is in and that    *)
(* the next pointers do not leave; each pbuf is the next of the one before. *)
(***************************************************************************)
Closed(D, nx) == \A x \in D : nx[x] \in D \union {Null}

Linked(c, nx) == \A i \in 1..Len(c) - 1 : c[i + 1] = nx[c[i]]

LEMMA ChainClosed ==
  ASSUME NEW nx \in [Pbuf -> PbufOrNull], NEW D \in SUBSET Pbuf, Closed(D, nx),
         NEW b \in D \union {Null}
  PROVE  /\ ChainOf(nx, b) \in Seq(D)
         /\ Linked(ChainOf(nx, b), nx)
         /\ b = Null => ChainOf(nx, b) = <<>>
         /\ b # Null => Len(ChainOf(nx, b)) > 0 /\ ChainOf(nx, b)[1] = b
<1>1. N \in Nat /\ Null \notin Pbuf /\ (Pbuf # {} => N > 0)
  BY Pool
<1>2. PICK w : Walk(nx, w) /\ \A x : ChainOf(nx, x) = w[N][x]
  BY WalkExists
<1> DEFINE Good(c, x) == /\ c \in Seq(D)
                         /\ Linked(c, nx)
                         /\ c # <<>> => c[1] = x
           T == {m \in 0..N : \A x \in D \union {Null} : Good(w[m][x], x)}
<1>3. \A x : Good(<<>>, x)
  BY DEF Linked
<1>4. 0 \in T
  <2>1. \A x \in D \union {Null} : w[0][x] = <<>>
    BY <1>2 DEF Walk, PbufOrNull
  <2> HIDE DEF Good
  <2> QED
    BY <1>1, <1>3, <2>1
<1>5. ASSUME NEW m \in 1..N, m - 1 \in T PROVE m \in T
  <2>1. m \in 0..N /\ w[m][Null] = <<>>
    BY <1>1, <1>2 DEF Walk
  <2>2. ASSUME NEW x \in D PROVE Good(w[m][x], x)
    <3> DEFINE y == nx[x]
               c == w[m - 1][y]
    <3>1. y \in D \union {Null}
      BY DEF Closed
    <3>2. Good(c, y)
      BY <1>5, <3>1
    <3>3. w[m][x] = <<x>> \o c
      BY <1>2 DEF Walk
    <3> HIDE DEF y, c
    <3>4. c \in Seq(D) /\ Len(c) \in Nat
      BY <3>2
    <3> DEFINE r == <<x>> \o c
    <3>5. /\ r \in Seq(D) /\ Len(r) = Len(c) + 1
          /\ r[1] = x
          /\ \A i \in 1..Len(c) : r[i + 1] = c[i]
      BY <3>4
    <3> HIDE DEF r
    <3>6. Linked(r, nx)
      <4> SUFFICES ASSUME NEW i \in 1..Len(r) - 1 PROVE r[i + 1] = nx[r[i]]
        BY DEF Linked
      <4>1. i \in 1..Len(c) /\ r[i + 1] = c[i]
        BY <3>4, <3>5
      <4>2. CASE i = 1
        <5>1. c[1] = y
          BY <3>2, <3>4, <4>1
        <5> QED
          BY <3>5, <4>1, <4>2, <5>1 DEF y
      <4>3. CASE i # 1
        <5> DEFINE j == i - 1
        <5>1. j \in 1..Len(c) - 1 /\ j \in 1..Len(c) /\ j + 1 = i
          BY <3>4, <4>1, <4>3
        <5> HIDE DEF j
        <5>2. c[j + 1] = nx[c[j]] /\ r[j + 1] = c[j]
          BY <3>2, <3>5, <5>1 DEF Linked
        <5> QED
          BY <4>1, <5>1, <5>2
      <4> QED
        BY <4>2, <4>3
    <3> QED
      BY <3>3, <3>5, <3>6 DEF r
  <2> HIDE DEF Good
  <2> QED
    BY <1>3, <2>1, <2>2
<1> HIDE DEF T
<1>6. N \in T
  BY <1>1, <1>4, <1>5, UpTo
<1>7. Good(w[N][b], b)
  BY <1>6 DEF T
<1>8. b = Null => w[N][b] = <<>>
  BY <1>1, <1>2 DEF Walk
<1>9. b # Null => Len(w[N][b]) > 0
  <2> SUFFICES ASSUME b # Null PROVE Len(w[N][b]) > 0
    OBVIOUS
  <2>1. b \in Pbuf /\ N \in 1..N
    BY <1>1
  <2>2. w[N][b] = <<b>> \o w[N - 1][nx[b]]
    BY <1>2, <2>1 DEF Walk
  <2>3. w[N - 1][nx[b]] \in Seq(Pbuf)
    <3>1. N - 1 \in 0..N /\ nx[b] \in PbufOrNull
      BY <1>1, <2>1
    <3> QED
      BY <1>2, <3>1 DEF Walk
  <2> DEFINE c == w[N - 1][nx[b]]
  <2> HIDE DEF c
  <2>4. c \in Seq(Pbuf) /\ w[N][b] = <<b>> \o c
    BY <2>2, <2>3 DEF c
  <2> QED
    BY <2>1, <2>4
<1>10. w[N][b] # <<>> <=> Len(w[N][b]) > 0
  BY <1>7
<1> QED
  BY <1>2, <1>7, <1>8, <1>9, <1>10

(* What is consumed is appended to the history. *)
Kind == {"echo", "ring"}
Log(c, s, sg, n, how) == c \o [i \in 1..n |-> <<sg[s[i]], how>>]
IsLog(r, c, s, sg, n, how) ==
  /\ r \in Seq(Nat \X Kind) /\ Len(r) = Len(c) + n
  /\ \A i \in 1..Len(c) : r[i] = c[i]
  /\ \A i \in 1..n : r[Len(c) + i] = <<sg[s[i]], how>>
Entry(e, s, sg, n, how) == \E i \in 1..n : e = <<sg[s[i]], how>>

LEMMA Logged ==
  ASSUME NEW c \in Seq(Nat \X Kind), NEW s \in Seq(Pbuf), NEW sg \in [Pbuf -> Nat],
         NEW n \in 0..Len(s), NEW how \in Kind
  PROVE  IsLog(Log(c, s, sg, n, how), c, s, sg, n, how)
<1> DEFINE t == [i \in 1..n |-> <<sg[s[i]], how>>]
<1>1. Len(s) \in Nat /\ n \in Nat /\ Len(c) \in Nat
  OBVIOUS
<1>2. ASSUME NEW i \in 1..n PROVE t[i] \in Nat \X Kind
  <2>1. s[i] \in Pbuf
    BY <1>1
  <2>2. sg[s[i]] \in Nat
    BY <2>1
  <2> QED
    BY <2>2
<1>3. t \in Seq(Nat \X Kind) /\ Len(t) = n /\ \A i \in 1..n : t[i] = <<sg[s[i]], how>>
  <2>1. t \in [1..n -> Nat \X Kind]
    BY <1>2
  <2> QED
    BY <1>1, <2>1
<1> DEFINE r == c \o t
<1> HIDE DEF t
<1>4. /\ r \in Seq(Nat \X Kind) /\ Len(r) = Len(c) + Len(t)
      /\ \A i \in 1..Len(c) + Len(t) : r[i] = IF i <= Len(c) THEN c[i] ELSE t[i - Len(c)]
  BY <1>3, ConcatProperties
<1> HIDE DEF r
<1>5. \A i \in 1..Len(c) : r[i] = c[i]
  BY <1>1, <1>3, <1>4
<1>6. ASSUME NEW i \in 1..n PROVE r[Len(c) + i] = <<sg[s[i]], how>>
  <2> DEFINE j == Len(c) + i
  <2>1. j \in 1..Len(c) + Len(t) /\ ~(j <= Len(c)) /\ j - Len(c) = i
    BY <1>1, <1>3
  <2> HIDE DEF j
  <2>2. r[j] = t[i]
    BY <1>4, <2>1
  <2> QED
    BY <1>3, <2>2 DEF j
<1> QED
  BY <1>3, <1>4, <1>5, <1>6 DEF r, t, Log, IsLog

LEMMA LoggedRange ==
  ASSUME NEW c \in Seq(Nat \X Kind), NEW s \in Seq(Pbuf), NEW sg \in [Pbuf -> Nat],
         NEW n \in 0..Len(s), NEW how \in Kind, NEW e,
         e \in Range(Log(c, s, sg, n, how))
  PROVE  e \in Range(c) \/ Entry(e, s, sg, n, how)
<1> DEFINE r == Log(c, s, sg, n, how)
<1>1. /\ r \in Seq(Nat \X Kind) /\ Len(r) = Len(c) + n
      /\ \A i \in 1..Len(c) : r[i] = c[i]
      /\ \A i \in 1..n : r[Len(c) + i] = <<sg[s[i]], how>>
  <2>1. IsLog(r, c, s, sg, n, how)
    BY Logged
  <2> HIDE DEF r
  <2> QED
    BY <2>1 DEF IsLog
<1> HIDE DEF r
<1>2. Len(s) \in Nat /\ n \in Nat /\ Len(c) \in Nat /\ DOMAIN c = 1..Len(c)
      /\ DOMAIN r = 1..Len(r)
  BY <1>1
<1>3. PICK j \in 1..Len(r) : e = r[j]
  <2>1. e \in Range(r)
    BY DEF r
  <2> QED
    BY <1>2, <2>1 DEF Range
<1>4. CASE j <= Len(c)
  <2>1. j \in 1..Len(c)
    BY <1>2, <1>4
  <2> QED
    BY <1>1, <1>2, <1>3, <2>1 DEF Range
<1>5. CASE ~(j <= Len(c))
  <2> DEFINE i == j - Len(c)
  <2>1. i \in 1..n /\ Len(c) + i = j
    BY <1>1, <1>2, <1>5
  <2> HIDE DEF i
  <2> QED
    BY <1>1, <1>3, <2>1 DEF Entry
<1> QED
  BY <1>4, <1>5

-----------------------------------------------------------------------------
(***************************************************************************)
(* The configuration segment.  A callback may come between any two accesses *)
(* of echo_poll, and what the chain in es->p is then is not known; but no   *)
(* pbuf the connection can reach has the one with the configuration for its *)
(* next, and while that one is in es->p it is echo_sent that is registered. *)
(***************************************************************************)
ConfigTypes ==
  /\ p \in PbufOrNull /\ ptr \in PbufOrNull /\ nxt \in PbufOrNull
  /\ next \in [Pbuf -> PbufOrNull]
  /\ seg \in [Pbuf -> Nat]
  /\ rcvd \in Nat
  /\ consumed \in Seq(Nat \X Kind)

(* What a connection without data has, and one with. *)
Stage ==
  /\ state \in {"ES_NONE", "ES_ACCEPTED"} => p = Null
  /\ state = "ES_ACCEPTED" => pc = "idle" /\ sent_cb = "none"
  /\ state \notin {"ES_NONE", "ES_ACCEPTED"} => rcvd >= 1

NotConfig(b) == b # Null => seg[b] # 1

Reach(D) ==
  /\ Closed(D, next)
  /\ \A x \in D : NotConfig(next[x])
  /\ p \in D \union {Null}
  /\ pc \in {"load", "store", "free"} => ptr \in D
  /\ pc = "store" => nxt \in D \union {Null} /\ NotConfig(nxt)

ConfigInv ==
  /\ ConfigTypes
  /\ Stage
  /\ \E D \in SUBSET Pbuf : Reach(D)
  /\ sent_cb = "TCP_UART_sent" => NotConfig(p)
  /\ ConfigNotToUart

LEMMA ConfigInit == Init => ConfigInv
<1> SUFFICES ASSUME Init PROVE ConfigInv
  OBVIOUS
<1>1. ConfigTypes
  BY DEF Init, ConfigTypes, PbufOrNull
<1>2. Stage
  BY DEF Init, Stage
<1>3. Reach({})
  BY DEF Init, Reach, Closed
<1>4. NotConfig(p) /\ ConfigNotToUart
  BY DEF Init, NotConfig, ConfigNotToUart, Consumed, Range
<1> QED
  BY <1>1, <1>2, <1>3, <1>4 DEF ConfigInv

LEMMA ConfigNone ==
  ASSUME NEW c
  PROVE  c = <<>> => <<1, "ring">> \notin Range(c)
BY DEF Range

(* A connection begins. *)
LEMMA AcceptConfig ==
  ASSUME ConfigInv, echo_accept PROVE ConfigInv'
<1>1. ConfigTypes /\ Stage
  BY DEF ConfigInv
<1>2. /\ state' = "ES_ACCEPTED" /\ pc' = "idle" /\ p' = Null /\ sent_cb' = "none"
      /\ rcvd' = 0 /\ consumed' = <<>>
      /\ UNCHANGED <<next, seg, ptr, nxt>>
  BY DEF echo_accept, pbufs, poll
<1>3. ConfigTypes'
  BY <1>1, <1>2 DEF ConfigTypes, PbufOrNull
<1>4. Stage'
  BY <1>2 DEF Stage
<1>5. Reach({})'
  BY <1>2 DEF Reach, Closed
<1>6. NotConfig(p)' /\ ConfigNotToUart'
  BY <1>2, ConfigNone DEF NotConfig, ConfigNotToUart, Consumed
<1> QED
  BY <1>3, <1>4, <1>5, <1>6 DEF ConfigInv

(* The segment that configures the UART arrives. *)
LEMMA RecvConfigConfig ==
  ASSUME ConfigInv, NEW b \in Pbuf, RecvConfig(b) PROVE ConfigInv'
<1>1. ConfigTypes /\ Stage /\ ConfigNotToUart
  BY DEF ConfigInv
<1>2. /\ state = "ES_ACCEPTED" /\ state' = "ES_RECEIVED" /\ pc' = pc /\ p' = b
      /\ sent_cb' = sent_cb /\ rcvd' = rcvd + 1 /\ seg' = [seg EXCEPT ![b] = rcvd + 1]
      /\ next' = [next EXCEPT ![b] = Null]
      /\ UNCHANGED <<consumed, ptr, nxt>>
  BY DEF RecvConfig, Deliver, poll, history
<1>3. ConfigTypes'
  BY <1>1, <1>2 DEF ConfigTypes, PbufOrNull
<1>4. Stage'
  BY <1>1, <1>2 DEF Stage, ConfigTypes
<1>5. next'[b] = Null
  BY <1>1, <1>2 DEF ConfigTypes
<1>6. Reach({b})'
  BY <1>1, <1>2, <1>5 DEF Reach, Closed, NotConfig, Stage
<1>7. sent_cb' # "TCP_UART_sent" /\ ConfigNotToUart'
  BY <1>1, <1>2 DEF Stage, ConfigNotToUart, Consumed
<1> QED
  BY <1>3, <1>4, <1>6, <1>7 DEF ConfigInv

(* Other segments arrive: they are not the first. *)
LEMMA RecvDataConfig ==
  ASSUME ConfigInv, NEW b \in Pbuf, RecvData(b) PROVE ConfigInv'
<1>1. ConfigTypes /\ Stage /\ ConfigNotToUart
  BY DEF ConfigInv
<1>2. PICK D \in SUBSET Pbuf : Reach(D)
  BY DEF ConfigInv
<1>3. /\ state = "ES_RECEIVED" /\ state' = state /\ pc' = pc /\ p' \in {b, Null}
      /\ rcvd' = rcvd + 1 /\ seg' = [seg EXCEPT ![b] = rcvd + 1]
      /\ next' = [next EXCEPT ![b] = Null]
      /\ UNCHANGED <<ptr, nxt>>
  BY DEF RecvData, Deliver, poll
<1>4. rcvd \in Nat /\ rcvd + 1 # 1
  BY <1>1, <1>3 DEF ConfigTypes, Stage
<1>5. consumed' = consumed \/ consumed' = Append(consumed, <<rcvd + 1, "ring">>)
  BY DEF RecvData
<1>6. consumed' \in Seq(Nat \X Kind) /\ ConfigNotToUart'
  <2>1. CASE consumed' = consumed
    BY <1>1, <2>1 DEF ConfigTypes, ConfigNotToUart, Consumed
  <2>2. CASE consumed' = Append(consumed, <<rcvd + 1, "ring">>)
    <3> DEFINE e == <<rcvd + 1, "ring">>
    <3>1. e \in Nat \X Kind /\ e # <<1, "ring">>
      BY <1>4 DEF Kind
    <3>2. consumed \in Seq(Nat \X Kind) /\ Len(consumed) \in Nat
      BY <1>1 DEF ConfigTypes
    <3> HIDE DEF e
    <3>3. /\ consumed' \in Seq(Nat \X Kind) /\ Len(consumed') = Len(consumed) + 1
          /\ \A i \in 1..Len(consumed) : consumed'[i] = consumed[i]
          /\ consumed'[Len(consumed) + 1] = e
      BY <2>2, <3>1, <3>2 DEF e
    <3>4. \A i \in 1..Len(consumed) : consumed[i] # <<1, "ring">>
      BY <1>1, <3>2 DEF ConfigNotToUart, Consumed, Range
    <3>5. \A i \in 1..Len(consumed') : consumed'[i] # <<1, "ring">>
      <4> SUFFICES ASSUME NEW i \in 1..Len(consumed') PROVE consumed'[i] # <<1, "ring">>
        OBVIOUS
      <4>1. CASE i = Len(consumed) + 1
        BY <3>1, <3>3, <4>1
      <4>2. CASE i # Len(consumed) + 1
        <5>1. i \in 1..Len(consumed)
          BY <3>2, <3>3, <4>2
        <5> QED
          BY <3>3, <3>4, <5>1
      <4> QED
        BY <4>1, <4>2
    <3>6. DOMAIN consumed' = 1..Len(consumed')
      BY <3>3
    <3> QED
      BY <3>3, <3>5, <3>6 DEF ConfigNotToUart, Consumed, Range
  <2> QED
    BY <1>5, <2>1, <2>2
<1>7. ConfigTypes'
  BY <1>1, <1>3, <1>6 DEF ConfigTypes, PbufOrNull
<1>8. Stage'
  BY <1>1, <1>3 DEF Stage, ConfigTypes
<1>9. next'[b] = Null /\ seg'[b] = rcvd + 1
      /\ \A x \in Pbuf : x # b => next'[x] = next[x] /\ seg'[x] = seg[x]
  BY <1>1, <1>3 DEF ConfigTypes
<1>10. Closed(D \union {b}, next)'
  BY <1>2, <1>9 DEF Reach, Closed
<1>13. \A x \in D \union {b} : NotConfig(next[x])'
  <2> SUFFICES ASSUME NEW x \in D \union {b} PROVE NotConfig(next[x])'
    OBVIOUS
  <2>1. CASE x = b
    BY <1>9, <2>1 DEF NotConfig
  <2>2. CASE x # b
    <3>1. x \in D /\ NotConfig(next[x]) /\ next[x] \in D \union {Null}
      BY <1>2, <2>2 DEF Reach, Closed
    <3>2. next'[x] = next[x]
      BY <1>9, <2>2, <3>1
    <3> QED
      BY <1>4, <1>9, <3>1, <3>2 DEF NotConfig
  <2> QED
    BY <2>1, <2>2
<1>14. Reach(D \union {b})'
  <2>1. p' \in (D \union {b}) \union {Null}
    BY <1>3
  <2>2. pc' \in {"load", "store", "free"} => ptr' \in D \union {b}
    BY <1>2, <1>3 DEF Reach
  <2>3. pc' = "store" => nxt' \in (D \union {b}) \union {Null} /\ NotConfig(nxt)'
    BY <1>2, <1>3, <1>4, <1>9 DEF Reach, NotConfig
  <2> QED
    BY <1>10, <1>13, <2>1, <2>2, <2>3 DEF Reach
<1>15. NotConfig(p)'
  BY <1>3, <1>4, <1>9 DEF NotConfig
<1> QED
  BY <1>6, <1>7, <1>8, <1>14, <1>15 DEF ConfigInv

LEMMA RecvChainConfig ==
  ASSUME ConfigInv, NEW b \in Pbuf, RecvChain(b) PROVE ConfigInv'
<1>1. ConfigTypes /\ Stage /\ ConfigNotToUart
      /\ (sent_cb = "TCP_UART_sent" => NotConfig(p))
  BY DEF ConfigInv
<1>2. PICK D \in SUBSET Pbuf : Reach(D)
  BY DEF ConfigInv
<1> DEFINE c == Chain(p)
           last == c[Len(c)]
<1>3. /\ state = "ES_RECEIVED" /\ state' = state /\ pc' = pc /\ p # Null /\ p' = p
      /\ rcvd' = rcvd + 1 /\ seg' = [seg EXCEPT ![b] = rcvd + 1]
      /\ next' = [next EXCEPT ![b] = Null, ![last] = b]
      /\ UNCHANGED <<sent_cb, ptr, nxt, consumed>>
  BY DEF RecvChain, Deliver, poll, history
<1>4. rcvd \in Nat /\ rcvd + 1 # 1
  BY <1>1, <1>3 DEF ConfigTypes, Stage
<1>5. last \in D
  <2>1. ChainOf(next, p) \in Seq(D) /\ Len(ChainOf(next, p)) > 0
    BY <1>1, <1>2, <1>3, ChainClosed DEF Reach, ConfigTypes
  <2>2. c = ChainOf(next, p)
    BY ChainIsChainOf
  <2> HIDE DEF c
  <2>3. c \in Seq(D) /\ Len(c) \in 1..Len(c)
    BY <2>1, <2>2
  <2> QED
    BY <2>3
<1> HIDE DEF last
<1>6. /\ seg'[b] = rcvd + 1
      /\ \A x \in Pbuf : x # b => seg'[x] = seg[x]
      /\ \A x \in Pbuf : next'[x] \in {next[x], b, Null}
      /\ next' \in [Pbuf -> PbufOrNull] /\ seg' \in [Pbuf -> Nat]
      /\ \A x \in Pbuf : x # b => next'[x] \in {next[x], b}
      /\ next'[b] \in {Null, b}
  <2> DEFINE f == [next EXCEPT ![b] = Null]
  <2>1. next' = [f EXCEPT ![last] = b] /\ last \in Pbuf
    BY <1>3, <1>5
  <2>2. f \in [Pbuf -> PbufOrNull] /\ f[b] = Null /\ \A x \in Pbuf : x # b => f[x] = next[x]
    BY <1>1 DEF ConfigTypes, PbufOrNull
  <2> HIDE DEF f
  <2>3. /\ next' \in [Pbuf -> PbufOrNull]
        /\ \A x \in Pbuf : next'[x] \in {f[x], b}
    BY <2>1, <2>2 DEF PbufOrNull
  <2>4. /\ seg' \in [Pbuf -> Nat] /\ seg'[b] = rcvd + 1
        /\ \A x \in Pbuf : x # b => seg'[x] = seg[x]
    BY <1>1, <1>3, <1>4 DEF ConfigTypes
  <2> QED
    BY <2>2, <2>3, <2>4
<1>7. ConfigTypes'
  BY <1>1, <1>3, <1>4, <1>6 DEF ConfigTypes
<1>8. Stage'
  BY <1>1, <1>3 DEF Stage, ConfigTypes
<1>9. ASSUME NEW x \in D \union {b}
      PROVE  next'[x] \in D \union {b} \union {Null} /\ NotConfig(next[x])'
  <2>1. CASE x = b
    BY <1>4, <1>6, <2>1 DEF NotConfig
  <2>2. CASE x # b
    <3>1. x \in D /\ NotConfig(next[x]) /\ next[x] \in D \union {Null}
      BY <1>2, <2>2 DEF Reach, Closed
    <3>2. next'[x] \in {next[x], b}
      BY <1>6, <2>2, <3>1
    <3> QED
      BY <1>4, <1>6, <3>1, <3>2 DEF NotConfig
  <2> QED
    BY <2>1, <2>2
<1>10. Reach(D \union {b})'
  <2>1. p' \in (D \union {b}) \union {Null}
    BY <1>2, <1>3 DEF Reach
  <2>2. pc' \in {"load", "store", "free"} => ptr' \in D \union {b}
    BY <1>2, <1>3 DEF Reach
  <2>3. pc' = "store" => nxt' \in (D \union {b}) \union {Null} /\ NotConfig(nxt)'
    BY <1>2, <1>3, <1>4, <1>6 DEF Reach, NotConfig
  <2> QED
    BY <1>9, <2>1, <2>2, <2>3 DEF Reach, Closed
<1>11. sent_cb' = "TCP_UART_sent" => NotConfig(p)'
  BY <1>1, <1>3, <1>4, <1>6 DEF NotConfig, ConfigTypes, PbufOrNull
<1>12. ConfigNotToUart'
  BY <1>1, <1>3 DEF ConfigNotToUart, Consumed
<1> QED
  BY <1>7, <1>8, <1>10, <1>11, <1>12 DEF ConfigInv

(* What lies in es->p is consumed: where it goes to the ring it is not the first. *)
LEMMA ConsumeConfig ==
  ASSUME ConfigInv, NEW n \in 0..Len(Chain(p)), NEW how \in Kind, Consume(p, n, how),
         how = "ring" => sent_cb = "TCP_UART_sent"
  PROVE  /\ consumed' \in Seq(Nat \X Kind)
         /\ ConfigNotToUart'
         /\ \A D \in SUBSET Pbuf : Reach(D) => AfterFirst(p, n) \in D \union {Null}
<1>1. ConfigTypes /\ ConfigNotToUart /\ (sent_cb = "TCP_UART_sent" => NotConfig(p))
  BY DEF ConfigInv
<1>2. PICK D \in SUBSET Pbuf : Reach(D)
  BY DEF ConfigInv
<1> DEFINE c == Chain(p)
<1>3. ASSUME NEW F \in SUBSET Pbuf, Reach(F)
      PROVE  c \in Seq(F) /\ Linked(c, next) /\ (c # <<>> => p # Null /\ c[1] = p)
  <2>1. c = ChainOf(next, p)
    BY ChainIsChainOf
  <2> HIDE DEF c
  <2>2. next \in [Pbuf -> PbufOrNull] /\ Closed(F, next) /\ p \in F \union {Null}
    BY <1>1, <1>3 DEF ConfigTypes, Reach
  <2> QED
    BY <2>1, <2>2, ChainClosed
<1>4. consumed' = Log(consumed, c, seg, n, how)
  BY DEF Consume, Log
<1>5. /\ c \in Seq(D) /\ Linked(c, next) /\ (c # <<>> => p # Null /\ c[1] = p)
  BY <1>2, <1>3
<1> HIDE DEF c
<1>6. c \in Seq(Pbuf) /\ Len(c) \in Nat /\ n \in 0..Len(c)
  <2>1. n \in 0..Len(c)
    BY DEF c
  <2> QED
    BY <1>5, <2>1, SeqMonotonic
<1>7. consumed \in Seq(Nat \X Kind) /\ seg \in [Pbuf -> Nat]
  BY <1>1 DEF ConfigTypes
<1>8. consumed' \in Seq(Nat \X Kind)
  <2>1. IsLog(Log(consumed, c, seg, n, how), consumed, c, seg, n, how)
    BY <1>6, <1>7, Logged
  <2> QED
    BY <1>4, <2>1 DEF IsLog
<1>9. ConfigNotToUart'
  <2> SUFFICES ASSUME <<1, "ring">> \in Range(consumed') PROVE FALSE
    BY DEF ConfigNotToUart, Consumed
  <2>1. <<1, "ring">> \notin Range(consumed)
    BY <1>1 DEF ConfigNotToUart, Consumed
  <2>2. PICK i \in 1..n : <<1, "ring">> = <<seg[c[i]], how>>
    <3> DEFINE e == <<1, "ring">>
    <3>1. e \in Range(Log(consumed, c, seg, n, how)) /\ e \notin Range(consumed)
      BY <1>4, <2>1
    <3> HIDE DEF e
    <3>2. e \in Range(consumed) \/ Entry(e, c, seg, n, how)
      BY <1>6, <1>7, <3>1, LoggedRange
    <3> QED
      BY <3>1, <3>2 DEF e, Entry
  <2>3. seg[c[i]] = 1 /\ how = "ring" /\ i \in 1..Len(c)
    BY <1>6, <2>2
  <2>4. NotConfig(p)
    BY <1>1, <2>3
  <2>5. c # <<>> /\ c[i] \in D
    BY <1>5, <1>6, <2>3
  <2>6. i # 1
    BY <1>5, <2>3, <2>4, <2>5 DEF NotConfig
  <2> DEFINE j == i - 1
  <2>7. j \in 1..Len(c) - 1 /\ j \in 1..Len(c) /\ j + 1 = i
    BY <1>6, <2>3, <2>6
  <2> HIDE DEF j
  <2>8. c[i] = next[c[j]] /\ c[j] \in D
    BY <1>5, <2>7 DEF Linked
  <2>9. NotConfig(c[i]) /\ c[i] # Null
    <3>1. c[i] # Null
      BY <2>5, Pool
    <3> QED
      BY <1>2, <2>8, <3>1 DEF Reach
  <2> QED
    BY <2>3, <2>9 DEF NotConfig
<1>10. ASSUME NEW F \in SUBSET Pbuf, Reach(F) PROVE AfterFirst(p, n) \in F \union {Null}
  <2>1. c \in Seq(F)
    BY <1>3, <1>10 DEF c
  <2>2. AfterFirst(p, n) = IF n < Len(c) THEN c[n + 1] ELSE Null
    BY DEF AfterFirst, c
  <2>3. n < Len(c) => n + 1 \in 1..Len(c)
    BY <1>6
  <2> QED
    BY <2>1, <2>2, <2>3
<1> QED
  BY <1>8, <1>9, <1>10


(* An action that leaves the pbufs' fields alone reaches no other pbuf. *)
LEMMA SameReach ==
  ASSUME NEW D \in SUBSET Pbuf, Reach(D), UNCHANGED <<next, seg>>,
         p' \in D \union {Null},
         pc' \in {"load", "store", "free"} => ptr' \in D,
         pc' = "store" => nxt' \in D \union {Null} /\ NotConfig(nxt)'
  PROVE  Reach(D)'
<1>1. Closed(D, next)'
  BY DEF Reach, Closed
<1>2. ASSUME NEW x \in D PROVE NotConfig(next[x])'
  BY DEF Reach, NotConfig
<1> QED
  BY <1>1, <1>2 DEF Reach

(* The peer closes, resets or acknowledges without a callback; a poll begins *)
(* or ends a round: es->p stays or is forgotten.                            *)
LEMMA QuietConfig ==
  ASSUME ConfigInv, UNCHANGED <<next, seg, ptr, nxt, rcvd, consumed>>, Stage',
         p' \in {p, Null},
         pc' \in {pc, "idle", "check"},
         sent_cb' = "TCP_UART_sent" => sent_cb = "TCP_UART_sent"
  PROVE  ConfigInv'
<1>1. ConfigTypes /\ ConfigNotToUart /\ (sent_cb = "TCP_UART_sent" => NotConfig(p))
  BY DEF ConfigInv
<1>2. PICK D \in SUBSET Pbuf : Reach(D)
  BY DEF ConfigInv
<1>3. ConfigTypes'
  BY <1>1 DEF ConfigTypes, PbufOrNull
<1>4. Reach(D)'
  <2>1. NotConfig(nxt)' <=> NotConfig(nxt)
    BY DEF NotConfig
  <2>2. pc' \in {"load", "store", "free"} => pc' = pc
    OBVIOUS
  <2>3. p' \in D \union {Null}
    BY <1>2 DEF Reach
  <2>4. pc' \in {"load", "store", "free"} => ptr' \in D
    BY <1>2, <2>2 DEF Reach
  <2>5. pc' = "store" => nxt' \in D \union {Null} /\ NotConfig(nxt)'
    BY <1>2, <2>1, <2>2 DEF Reach
  <2> QED
    BY <1>2, <2>3, <2>4, <2>5, SameReach
<1>5. sent_cb' = "TCP_UART_sent" => NotConfig(p)'
  BY <1>1 DEF NotConfig
<1>6. ConfigNotToUart'
  BY <1>1 DEF ConfigNotToUart, Consumed
<1> QED
  BY <1>3, <1>4, <1>5, <1>6 DEF ConfigInv

LEMMA RecvFinConfig ==
  ASSUME ConfigInv, RecvFin PROVE ConfigInv'
<1>1. ConfigTypes /\ Stage
  BY DEF ConfigInv
<1>2. /\ UNCHANGED <<next, seg, ptr, nxt, rcvd, consumed, pc>>
      /\ state \in {"ES_ACCEPTED", "ES_RECEIVED"}
      /\ \/ state' = "ES_NONE" /\ p' = Null /\ sent_cb' = "none"
         \/ p # Null /\ state' = "ES_CLOSING" /\ p' = p /\ sent_cb' = sent_cb
  BY DEF RecvFin, CloseConn, pbufs, poll, history
<1>3. Stage'
  BY <1>1, <1>2 DEF Stage
<1>4. p' \in {p, Null} /\ (sent_cb' = "TCP_UART_sent" => sent_cb = "TCP_UART_sent")
  BY <1>2
<1> QED
  BY <1>2, <1>3, <1>4, QuietConfig

LEMMA AckedNoCallbackConfig ==
  ASSUME ConfigInv, NEW n, AckedNoCallback(n) PROVE ConfigInv'
<1>1. UNCHANGED <<next, seg, ptr, nxt, rcvd, consumed, pc, state, p, sent_cb>>
  BY DEF AckedNoCallback, Acked, poll
<1>2. Stage'
  BY <1>1 DEF ConfigInv, Stage
<1> QED
  BY <1>1, <1>2, QuietConfig

LEMMA ErrorConfig ==
  ASSUME ConfigInv, echo_error PROVE ConfigInv'
<1>1. /\ UNCHANGED <<next, seg, ptr, nxt, rcvd, consumed, pc>>
      /\ state' = "ES_NONE" /\ p' = Null /\ sent_cb' = "none"
  BY DEF echo_error, CloseConn, pbufs, poll
<1>2. Stage'
  BY <1>1 DEF Stage
<1> QED
  BY <1>1, <1>2, QuietConfig

(* Nothing lies in es->p when something is acknowledged. *)
LEMMA NothingMoreConfig ==
  ASSUME ConfigInv, NothingMore, p = Null,
         UNCHANGED <<rcvd, next, seg, poll, consumed>>
  PROVE  ConfigInv'
<1>1. /\ UNCHANGED <<next, seg, ptr, nxt, rcvd, consumed, pc>>
      /\ \/ state' = "ES_NONE" /\ p' = Null /\ sent_cb' = "none"
         \/ UNCHANGED <<state, p, sent_cb>>
  BY DEF NothingMore, CloseConn, poll
<1>2. Stage'
  BY <1>1 DEF ConfigInv, Stage
<1>3. p' \in {p, Null} /\ (sent_cb' = "TCP_UART_sent" => sent_cb = "TCP_UART_sent")
  BY <1>1
<1> QED
  BY <1>1, <1>2, <1>3, QuietConfig

(* Something does: k pbufs of it leave. *)
LEMMA SendConfig ==
  ASSUME ConfigInv, p # Null, NEW k \in 0..Len(Chain(p)), NEW how \in Kind,
         Consume(p, k, how),
         how = "ring" => sent_cb = "TCP_UART_sent" /\ p' = Null,
         how = "echo" => sent_cb # "TCP_UART_sent" /\ p' = AfterFirst(p, k),
         UNCHANGED <<state, sent_cb, rcvd, next, seg, poll>>
  PROVE  ConfigInv'
<1>1. ConfigTypes /\ Stage
  BY DEF ConfigInv
<1>2. PICK D \in SUBSET Pbuf : Reach(D)
  BY DEF ConfigInv
<1>3. /\ consumed' \in Seq(Nat \X Kind)
      /\ ConfigNotToUart'
      /\ AfterFirst(p, k) \in D \union {Null}
  BY <1>2, ConsumeConfig
<1>4. p' \in D \union {Null} /\ (p' = Null \/ sent_cb # "TCP_UART_sent")
  BY <1>3 DEF Kind
<1>5. UNCHANGED <<pc, ptr, nxt>>
  BY DEF poll
<1>6. ConfigTypes'
  BY <1>1, <1>3, <1>4, <1>5 DEF ConfigTypes, PbufOrNull
<1>7. Stage'
  BY <1>1, <1>5 DEF Stage
<1>8. Reach(D)'
  <2>1. pc' \in {"load", "store", "free"} => ptr' \in D
    BY <1>2, <1>5 DEF Reach
  <2>2. pc' = "store" => nxt' \in D \union {Null} /\ NotConfig(nxt)'
    BY <1>2, <1>5 DEF Reach, NotConfig
  <2> QED
    BY <1>2, <1>4, <2>1, <2>2, SameReach
<1>9. sent_cb' = "TCP_UART_sent" => NotConfig(p)'
  BY <1>4 DEF NotConfig
<1> QED
  BY <1>3, <1>6, <1>7, <1>8, <1>9 DEF ConfigInv

LEMMA EchoSentConfig ==
  ASSUME ConfigInv, NEW n, echo_sent(n) PROVE ConfigInv'
<1>1. sent_cb = "echo_sent" /\ UNCHANGED <<rcvd, next, seg, poll>>
  BY DEF echo_sent, Acked
<1>2. CASE p = Null
  BY <1>1, <1>2, NothingMoreConfig DEF echo_sent
<1>3. CASE p # Null
  <2>1. PICK k \in 0..Len(Chain(p)) :
          /\ Consume(p, k, "echo")
          /\ p' = AfterFirst(p, k)
          /\ UNCHANGED <<state, sent_cb>>
    BY <1>3 DEF echo_sent
  <2>2. "echo" \in Kind
    BY DEF Kind
  <2> QED
    BY <1>1, <1>3, <2>1, <2>2, SendConfig
<1> QED
  BY <1>2, <1>3

LEMMA UartSentConfig ==
  ASSUME ConfigInv, NEW n, TCP_UART_sent(n) PROVE ConfigInv'
<1>1. sent_cb = "TCP_UART_sent" /\ UNCHANGED <<rcvd, next, seg, poll>>
  BY DEF TCP_UART_sent, Acked
<1>2. CASE p = Null
  BY <1>1, <1>2, NothingMoreConfig DEF TCP_UART_sent
<1>3. CASE p # Null
  <2> DEFINE k == Len(Chain(p))
  <2>1. /\ Consume(p, k, "ring")
        /\ p' = Null
        /\ UNCHANGED <<state, sent_cb>>
    BY <1>3 DEF TCP_UART_sent
  <2>2. "ring" \in Kind
    BY DEF Kind
  <2>3. k \in 0..Len(Chain(p))
    <3>1. ConfigTypes
      BY DEF ConfigInv
    <3>2. PICK D \in SUBSET Pbuf : Reach(D)
      BY DEF ConfigInv
    <3>3. ChainOf(next, p) \in Seq(D)
      BY <3>1, <3>2, ChainClosed DEF Reach, ConfigTypes
    <3> QED
      BY <3>3, ChainIsChainOf
  <2> HIDE DEF k
  <2> QED
    BY <1>1, <1>3, <2>1, <2>2, <2>3, SendConfig
<1> QED
  BY <1>2, <1>3

(* The main loop. *)
LEMMA PollConfig ==
  ASSUME ConfigInv, echo_poll PROVE ConfigInv'
<1>1. /\ UNCHANGED <<next, seg, ptr, nxt, rcvd, consumed, state, p>>
      /\ state # "ES_NONE"
      /\ \/ UNCHANGED <<sent_cb, pc>>
         \/ p # Null /\ sent_cb' = "echo_sent" /\ pc' = "check"
  BY DEF echo_poll, pbufs, history
<1>2. Stage'
  BY <1>1 DEF ConfigInv, Stage
<1>3. p' \in {p, Null} /\ pc' \in {pc, "idle", "check"}
      /\ (sent_cb' = "TCP_UART_sent" => sent_cb = "TCP_UART_sent")
  BY <1>1
<1> QED
  BY <1>1, <1>2, <1>3, QuietConfig

LEMMA PollCheckConfig ==
  ASSUME ConfigInv, PollCheck PROVE ConfigInv'
<1>1. pc = "check" /\ UNCHANGED <<state, sent_cb, rcvd, p, next, seg, nxt>>
  BY DEF PollCheck, conn, pbufs
<1>2. ConfigTypes /\ Stage /\ ConfigNotToUart
      /\ (sent_cb = "TCP_UART_sent" => NotConfig(p))
  BY DEF ConfigInv
<1>3. Stage'
  BY <1>1, <1>2 DEF Stage, PollCheck
<1>4. CASE pc' = "idle" /\ UNCHANGED <<ptr, consumed>>
  BY <1>1, <1>3, <1>4, QuietConfig
<1>5. CASE p # Null /\ ptr' = p /\ Consume(p, 1, "echo") /\ pc' = "load"
  <2>1. PICK D \in SUBSET Pbuf : Reach(D)
    BY DEF ConfigInv
  <2>2. "echo" \in Kind /\ "echo" # "ring"
    BY DEF Kind
  <2>3. 1 \in 0..Len(Chain(p))
    <3>1. ChainOf(next, p) \in Seq(D) /\ Len(ChainOf(next, p)) > 0
      BY <1>2, <1>5, <2>1, ChainClosed DEF Reach, ConfigTypes
    <3> QED
      BY <3>1, ChainIsChainOf
  <2>4. consumed' \in Seq(Nat \X Kind) /\ ConfigNotToUart'
    BY <1>5, <2>2, <2>3, ConsumeConfig
  <2>5. ConfigTypes'
    BY <1>1, <1>2, <1>5, <2>4 DEF ConfigTypes
  <2>6. Reach(D)'
    <3>1. p' \in D \union {Null} /\ ptr' \in D
      BY <1>1, <1>5, <2>1 DEF Reach
    <3> QED
      BY <1>1, <1>5, <2>1, <3>1, SameReach
  <2>7. sent_cb' = "TCP_UART_sent" => NotConfig(p)'
    BY <1>1, <1>2 DEF NotConfig
  <2> QED
    BY <1>3, <2>4, <2>5, <2>6, <2>7 DEF ConfigInv
<1> QED
  BY <1>4, <1>5 DEF PollCheck

LEMMA PollLoadConfig ==
  ASSUME ConfigInv, PollLoad PROVE ConfigInv'
<1>1. /\ pc = "load" /\ pc' = "store" /\ nxt' = next[ptr]
      /\ UNCHANGED <<state, sent_cb, rcvd, p, next, seg, ptr, consumed>>
  BY DEF PollLoad, conn, pbufs, history
<1>2. ConfigTypes /\ Stage /\ ConfigNotToUart
      /\ (sent_cb = "TCP_UART_sent" => NotConfig(p))
  BY DEF ConfigInv
<1>3. PICK D \in SUBSET Pbuf : Reach(D)
  BY DEF ConfigInv
<1>4. ptr \in D /\ nxt' \in D \union {Null} /\ NotConfig(nxt')
  BY <1>1, <1>3 DEF Reach, Closed
<1>5. ConfigTypes'
  BY <1>1, <1>2, <1>4 DEF ConfigTypes, PbufOrNull
<1>6. Stage'
  BY <1>1, <1>2 DEF Stage
<1>7. Reach(D)'
  <2>1. NotConfig(nxt)'
    BY <1>1, <1>4 DEF NotConfig
  <2>2. p' \in D \union {Null} /\ ptr' \in D
    BY <1>1, <1>3, <1>4 DEF Reach
  <2> QED
    BY <1>1, <1>3, <1>4, <2>1, <2>2, SameReach
<1>8. (sent_cb' = "TCP_UART_sent" => NotConfig(p)') /\ ConfigNotToUart'
  BY <1>1, <1>2 DEF NotConfig, ConfigNotToUart, Consumed
<1> QED
  BY <1>5, <1>6, <1>7, <1>8 DEF ConfigInv

(* es->p becomes the pbuf that followed the one written back, even if a      *)
(* callback moved es->p in between.                                        *)
LEMMA PollStoreConfig ==
  ASSUME ConfigInv, PollStore PROVE ConfigInv'
<1>1. /\ pc = "store" /\ pc' = "free" /\ p' = nxt /\ state # "ES_NONE"
      /\ UNCHANGED <<state, sent_cb, rcvd, next, seg, ptr, nxt, consumed>>
  BY DEF PollStore, conn, history, EsFreed
<1>2. ConfigTypes /\ Stage /\ ConfigNotToUart
  BY DEF ConfigInv
<1>3. PICK D \in SUBSET Pbuf : Reach(D)
  BY DEF ConfigInv
<1>4. ConfigTypes'
  BY <1>1, <1>2 DEF ConfigTypes
<1>5. Stage'
  BY <1>1, <1>2 DEF Stage
<1>6. NotConfig(nxt) /\ nxt \in D \union {Null} /\ ptr \in D
  BY <1>1, <1>3 DEF Reach
<1>7. Reach(D)'
  BY <1>1, <1>3, <1>6, SameReach
<1>8. NotConfig(p)' /\ ConfigNotToUart'
  BY <1>1, <1>2, <1>6 DEF NotConfig, ConfigNotToUart, Consumed
<1> QED
  BY <1>4, <1>5, <1>7, <1>8 DEF ConfigInv

LEMMA PollFreeConfig ==
  ASSUME ConfigInv, PollFree \/ PollAfterFree \/ UNCHANGED vars PROVE ConfigInv'
<1>1. /\ UNCHANGED <<next, seg, ptr, nxt, rcvd, consumed, state, p, sent_cb>>
      /\ pc' \in {pc, "idle", "check"}
      /\ pc' = "idle" \/ pc' = pc \/ (pc' = "check" /\ pc = "free")
  BY DEF PollFree, PollAfterFree, vars, conn, tcp, pbufs, poll, history
<1>2. Stage'
  BY <1>1 DEF ConfigInv, Stage
<1>3. p' \in {p, Null}
  BY <1>1
<1> QED
  BY <1>1, <1>2, <1>3, QuietConfig

LEMMA ConfigInvariance == Spec => []ConfigInv
<1>1. Init => ConfigInv
  BY ConfigInit
<1>2. ConfigInv /\ [Next]_vars => ConfigInv'
  <2> SUFFICES ASSUME ConfigInv, [Next]_vars PROVE ConfigInv'
    OBVIOUS
  <2>1. CASE echo_accept
    BY <2>1, AcceptConfig
  <2>2. ASSUME NEW b \in Pbuf, RecvConfig(b) PROVE ConfigInv'
    BY <2>2, RecvConfigConfig
  <2>3. ASSUME NEW b \in Pbuf, RecvData(b) PROVE ConfigInv'
    BY <2>3, RecvDataConfig
  <2>4. ASSUME NEW b \in Pbuf, RecvChain(b) PROVE ConfigInv'
    BY <2>4, RecvChainConfig
  <2>5. CASE RecvFin
    BY <2>5, RecvFinConfig
  <2>6. ASSUME NEW n \in 1..SndBuf, AckedNoCallback(n) PROVE ConfigInv'
    BY <2>6, AckedNoCallbackConfig
  <2>7. ASSUME NEW n \in 1..SndBuf, echo_sent(n) PROVE ConfigInv'
    BY <2>7, EchoSentConfig
  <2>8. ASSUME NEW n \in 1..SndBuf, TCP_UART_sent(n) PROVE ConfigInv'
    BY <2>8, UartSentConfig
  <2>9. CASE echo_error
    BY <2>9, ErrorConfig
  <2>10. CASE echo_poll
    BY <2>10, PollConfig
  <2>11. CASE PollCheck
    BY <2>11, PollCheckConfig
  <2>12. CASE PollLoad
    BY <2>12, PollLoadConfig
  <2>13. CASE PollStore
    BY <2>13, PollStoreConfig
  <2>14. CASE PollFree \/ PollAfterFree \/ UNCHANGED vars
    BY <2>14, PollFreeConfig
  <2> QED
    BY <2>1, <2>2, <2>3, <2>4, <2>5, <2>6, <2>7, <2>8, <2>9, <2>10, <2>11, <2>12,
       <2>13, <2>14 DEF Next, Poll
<1> QED
  BY <1>1, <1>2, PTL DEF Spec

(* echo.c's first segment never goes to the ring, whatever interrupts what. *)
THEOREM ConfigStays == Spec => []ConfigNotToUart
<1>1. ConfigInv => ConfigNotToUart
  BY DEF ConfigInv
<1> QED
  BY <1>1, ConfigInvariance, PTL

-----------------------------------------------------------------------------
(***************************************************************************)
(* No callback comes in the middle of echo_poll (lwIP is polled).           *)
(*                                                                         *)
(* The properties speak of the chain in es->p between two rounds of the     *)
(* main loop; the invariant follows it through echo_send's loop.  A chained *)
(* pbuf has two references, the first one or two, and three while the one   *)
(* before it is still to be freed: pbuf_free of that one then frees it and  *)
(* stops at the next.  No pbuf is in the chain twice, or in it and          *)
(* forgotten by echo_error.                                                *)
(***************************************************************************)
At(s, i) == IF i <= Len(s) THEN s[i] ELSE Null

Path(nx, s, b) ==
  /\ b = At(s, 1)
  /\ \A i \in 1..Len(s) : nx[s[i]] = At(s, i + 1)

Distinct(s) == \A i, j \in 1..Len(s) : s[i] = s[j] => i = j

Within(s) == {s[i] : i \in 1..Len(s)}

Shape(s) ==
  /\ Path(next, s, p)
  /\ Distinct(s)
  /\ Within(s) \intersect aborted = {}

(* the pbuf written back, from when es->p moves past it until it is freed *)
Leaving == IF pc = "free" THEN {ptr} ELSE {}

Owned(s) == \A b \in Pbuf : ref[b] > 0 <=> b \in Within(s) \union aborted \union Leaving

Counts(s) ==
  \A i \in 1..Len(s) :
    ref[s[i]] \in IF i > 1 THEN {2} ELSE IF pc = "free" THEN {3} ELSE {1, 2}

(* Where echo_poll is, and what it has read of es->p. *)
Loop(s) ==
  /\ pc # "idle" => state \in {"ES_RECEIVED", "ES_CLOSING"}
  /\ pc \in {"load", "store"} => p # Null /\ ptr = p
  /\ pc = "store" => nxt = next[p]
  /\ pc = "free" => /\ ptr \in Pbuf /\ next[ptr] = p
                    /\ ptr \notin Within(s) \union aborted

Begun ==
  /\ state \in {"ES_NONE", "ES_ACCEPTED"} => p = Null
  /\ state = "ES_ACCEPTED" => rcvd = 0 /\ consumed = <<>>

(* The segments that left es->p: the one just written back is still in it. *)
Left == Len(consumed) - (IF pc \in {"load", "store"} THEN 1 ELSE 0)

Order(s) ==
  state # "ES_NONE" =>
    /\ Left + Len(s) = rcvd
    /\ \A i \in 1..Len(s) : seg[s[i]] = Left + i
    /\ \A i \in 1..Len(consumed) : consumed[i][1] = i

Window(s) ==
  state # "ES_NONE" => rcv_wnd = Wnd - Len(s) - (IF pc = "free" THEN 1 ELSE 0)

Held(s) == Shape(s) /\ Owned(s) /\ Counts(s) /\ Loop(s) /\ Order(s) /\ Window(s)

PolledInv == TypeOK /\ Begun /\ \E s \in {Chain(p)} : Held(s)

(* The rest of a chain from its i-th pbuf on. *)
Rest(s, i) == [j \in 1..Len(s) + 1 - i |-> s[i + j - 1]]

LEMMA RestType ==
  ASSUME NEW s \in Seq(Pbuf), NEW i \in 1..Len(s) + 1
  PROVE  /\ Rest(s, i) \in Seq(Pbuf) /\ Len(Rest(s, i)) = Len(s) + 1 - i
         /\ \A j \in 1..Len(s) + 1 - i : Rest(s, i)[j] = s[i + j - 1]
         /\ Rest(s, 1) = s /\ Rest(s, Len(s) + 1) = <<>>
<1>1. Len(s) \in Nat /\ i \in Nat
  OBVIOUS
<1> DEFINE m == Len(s) + 1 - i
<1>2. m \in Nat
  BY <1>1
<1>3. ASSUME NEW j \in 1..m PROVE s[i + j - 1] \in Pbuf
  <2>1. i + j - 1 \in 1..Len(s)
    BY <1>1
  <2> QED
    BY <2>1
<1>4. Rest(s, i) = [j \in 1..m |-> s[i + j - 1]]
  BY DEF Rest
<1> HIDE DEF m
<1>5. Rest(s, i) \in Seq(Pbuf) /\ Len(Rest(s, i)) = m
      /\ \A j \in 1..m : Rest(s, i)[j] = s[i + j - 1]
  <2> DEFINE r == Rest(s, i)
  <2>1. r \in [1..m -> Pbuf] /\ \A j \in 1..m : r[j] = s[i + j - 1]
    BY <1>3, <1>4
  <2> HIDE DEF r
  <2>2. r \in Seq(Pbuf) /\ Len(r) = m
    BY <1>2, <2>1
  <2> QED
    BY <2>1, <2>2 DEF r
<1>6. Rest(s, 1) = s
  <2>1. Rest(s, 1) = [j \in 1..Len(s) |-> s[j]]
    <3>1. Len(s) + 1 - 1 = Len(s) /\ \A j \in 1..Len(s) : 1 + j - 1 = j
      BY <1>1
    <3> QED
      BY <3>1 DEF Rest
  <2>2. s = [j \in 1..Len(s) |-> s[j]]
    OBVIOUS
  <2> QED
    BY <2>1, <2>2
<1>7. Rest(s, Len(s) + 1) = <<>>
  <2>1. 1..Len(s) + 1 - (Len(s) + 1) = {}
    BY <1>1
  <2> QED
    BY <2>1 DEF Rest
<1> QED
  BY <1>5, <1>6, <1>7 DEF m

LEMMA RestStep ==
  ASSUME NEW s \in Seq(Pbuf), NEW i \in 1..Len(s)
  PROVE  Rest(s, i) = <<s[i]>> \o Rest(s, i + 1)
<1>1. Len(s) \in Nat /\ i \in Nat /\ i \in 1..Len(s) + 1 /\ i + 1 \in 1..Len(s) + 1
  OBVIOUS
<1> DEFINE a == Rest(s, i)
           c == Rest(s, i + 1)
<1>2. /\ a \in Seq(Pbuf) /\ Len(a) = Len(s) + 1 - i
      /\ \A j \in 1..Len(s) + 1 - i : a[j] = s[i + j - 1]
  BY <1>1, RestType
<1>3. /\ c \in Seq(Pbuf) /\ Len(c) = Len(s) - i
      /\ \A j \in 1..Len(s) - i : c[j] = s[i + j]
  <2>1. /\ c \in Seq(Pbuf) /\ Len(c) = Len(s) + 1 - (i + 1)
        /\ \A j \in 1..Len(s) + 1 - (i + 1) : c[j] = s[i + 1 + j - 1]
    BY <1>1, RestType
  <2>2. Len(s) + 1 - (i + 1) = Len(s) - i /\ \A j \in Nat : i + 1 + j - 1 = i + j
    BY <1>1
  <2> HIDE DEF c
  <2>3. \A j \in 1..Len(s) - i : j \in Nat
    BY <1>1
  <2> QED
    BY <2>1, <2>2, <2>3
<1> HIDE DEF a, c
<1> DEFINE r == <<s[i]>> \o c
<1>4. /\ r \in Seq(Pbuf) /\ Len(r) = Len(c) + 1 /\ r[1] = s[i]
      /\ \A j \in 1..Len(c) : r[j + 1] = c[j]
  <2>1. s[i] \in Pbuf
    BY <1>1
  <2> QED
    BY <1>3, <2>1
<1> HIDE DEF r
<1>5. ASSUME NEW j \in 1..Len(a) PROVE a[j] = r[j]
  <2>1. CASE j = 1
    <3>1. i + 1 - 1 = i
      BY <1>1
    <3> QED
      BY <1>1, <1>2, <1>4, <2>1, <3>1
  <2>2. CASE j # 1
    <3> DEFINE l == j - 1
               n == Len(s)
    <3>1. n \in Nat /\ i \in 1..n /\ j \in 1..n + 1 - i /\ Len(c) = n - i
      BY <1>1, <1>2, <1>3
    <3> HIDE DEF n
    <3>2. l \in 1..n - i /\ j = l + 1 /\ i + j - 1 = i + l /\ l \in 1..Len(c)
      BY <2>2, <3>1
    <3> HIDE DEF l
    <3> QED
      BY <1>2, <1>3, <1>4, <3>1, <3>2 DEF n
  <2> QED
    BY <2>1, <2>2
<1>6. Len(a) = Len(r)
  BY <1>1, <1>2, <1>3, <1>4
<1>7. a = r
  BY <1>2, <1>4, <1>5, <1>6
<1> QED
  BY <1>7 DEF a, c, r

(* A chain without a pbuf twice is no longer than the pool. *)
LEMMA DistinctLen ==
  ASSUME NEW s \in Seq(Pbuf), Distinct(s)
  PROVE  Len(s) \in Nat /\ Len(s) <= N
<1>1. Len(s) \in Nat /\ DOMAIN s = 1..Len(s) /\ s \in [1..Len(s) -> Pbuf]
  OBVIOUS
<1>2. s \in Injection(1..Len(s), Pbuf)
  BY <1>1 DEF Distinct, Injection, IsInjective
<1>3. IsFiniteSet(1..Len(s)) /\ Cardinality(1..Len(s)) = Len(s)
  <2>1. /\ IsFiniteSet(1..Len(s))
        /\ Cardinality(1..Len(s)) = IF 1 > Len(s) THEN 0 ELSE Len(s) - 1 + 1
    BY <1>1, FS_Interval
  <2> QED
    BY <1>1, <2>1
<1>4. Cardinality(1..Len(s)) <= N
  BY <1>2, Pool, FS_Injection DEF N
<1> QED
  BY <1>1, <1>3, <1>4

(* The path of next pointers from a pbuf to Null is its chain. *)
LEMMA PathChain ==
  ASSUME NEW nx \in [Pbuf -> PbufOrNull], NEW b, NEW s \in Seq(Pbuf),
         Path(nx, s, b), Distinct(s)
  PROVE  ChainOf(nx, b) = s
<1>1. N \in Nat /\ Len(s) \in Nat /\ Len(s) <= N
  BY Pool, DistinctLen
<1>2. PICK w : Walk(nx, w) /\ \A x : ChainOf(nx, x) = w[N][x]
  BY WalkExists
<1> DEFINE T == {m \in 0..N : \A i \in 1..Len(s) + 1 :
                   Len(s) + 1 - i <= m => w[m][At(s, i)] = Rest(s, i)}
<1>3. ASSUME NEW m \in 0..N PROVE w[m][At(s, Len(s) + 1)] = Rest(s, Len(s) + 1)
  <2>1. At(s, Len(s) + 1) = Null
    BY <1>1 DEF At
  <2>2. Rest(s, Len(s) + 1) = <<>>
    <3>1. 1 \in 1..Len(s) + 1
      BY <1>1
    <3> QED
      BY <3>1, RestType
  <2>3. w[m][Null] = <<>>
    BY <1>2 DEF Walk
  <2> QED
    BY <2>1, <2>2, <2>3
<1>4. 0 \in T
  <2> SUFFICES ASSUME NEW i \in 1..Len(s) + 1, Len(s) + 1 - i <= 0
               PROVE  w[0][At(s, i)] = Rest(s, i)
    BY <1>1
  <2>1. i = Len(s) + 1 /\ 0 \in 0..N
    BY <1>1
  <2> QED
    BY <1>3, <2>1
<1>5. ASSUME NEW m \in 1..N, m - 1 \in T PROVE m \in T
  <2>1. m \in 0..N /\ m - 1 \in 0..N /\ m - 1 \in Nat
    BY <1>1
  <2> SUFFICES ASSUME NEW i \in 1..Len(s) + 1, Len(s) + 1 - i <= m
               PROVE  w[m][At(s, i)] = Rest(s, i)
    BY <2>1
  <2>2. CASE i = Len(s) + 1
    BY <1>3, <2>1, <2>2
  <2>3. CASE i # Len(s) + 1
    <3>1. i \in 1..Len(s) /\ i + 1 \in 1..Len(s) + 1 /\ Len(s) + 1 - (i + 1) <= m - 1
      BY <1>1, <2>1, <2>3
    <3>2. At(s, i) = s[i] /\ s[i] \in Pbuf /\ nx[s[i]] = At(s, i + 1)
      BY <1>1, <3>1 DEF At, Path
    <3>3. w[m][s[i]] = <<s[i]>> \o w[m - 1][nx[s[i]]]
      BY <1>2, <3>2 DEF Walk
    <3>4. w[m - 1][At(s, i + 1)] = Rest(s, i + 1)
      BY <1>5, <3>1
    <3> QED
      BY <3>1, <3>2, <3>3, <3>4, RestStep
  <2> QED
    BY <2>2, <2>3
<1> HIDE DEF T
<1>6. N \in T
  BY <1>1, <1>4, <1>5, UpTo
<1>7. 1 \in 1..Len(s) + 1 /\ Len(s) + 1 - 1 <= N
  BY <1>1
<1>8. w[N][At(s, 1)] = Rest(s, 1)
  BY <1>6, <1>7 DEF T
<1>9. Rest(s, 1) = s /\ At(s, 1) = b
  BY <1>7, RestType DEF Path
<1> QED
  BY <1>2, <1>8, <1>9

(* The rest of a path is a path. *)
LEMMA RestPath ==
  ASSUME NEW nx \in [Pbuf -> PbufOrNull], NEW b, NEW s \in Seq(Pbuf),
         Path(nx, s, b), Distinct(s), NEW i \in 1..Len(s) + 1
  PROVE  Path(nx, Rest(s, i), At(s, i)) /\ Distinct(Rest(s, i))
<1> DEFINE t == Rest(s, i)
<1>1. Len(s) \in Nat /\ i \in Nat
  OBVIOUS
<1>2. /\ t \in Seq(Pbuf) /\ Len(t) = Len(s) + 1 - i
      /\ \A j \in 1..Len(s) + 1 - i : t[j] = s[i + j - 1]
  BY RestType
<1> HIDE DEF t
<1>3. ASSUME NEW j \in 1..Len(t) + 1 PROVE At(t, j) = At(s, i + j - 1)
  <2>1. CASE j <= Len(t)
    <3>1. j \in 1..Len(s) + 1 - i /\ i + j - 1 <= Len(s)
      BY <1>1, <1>2, <2>1
    <3> QED
      BY <1>2, <2>1, <3>1 DEF At
  <2>2. CASE ~(j <= Len(t))
    <3>1. ~(i + j - 1 <= Len(s))
      BY <1>1, <1>2, <2>2
    <3> QED
      BY <2>2, <3>1 DEF At
  <2> QED
    BY <2>1, <2>2
<1>4. At(t, 1) = At(s, i)
  <2>1. 1 \in 1..Len(t) + 1 /\ i + 1 - 1 = i
    BY <1>1, <1>2
  <2> QED
    BY <1>3, <2>1
<1>5. ASSUME NEW j \in 1..Len(t) PROVE nx[t[j]] = At(t, j + 1)
  <2> DEFINE l == i + j - 1
  <2>1. l \in 1..Len(s) /\ i + (j + 1) - 1 = l + 1 /\ j + 1 \in 1..Len(t) + 1
        /\ j \in 1..Len(s) + 1 - i
    BY <1>1, <1>2
  <2>2. t[j] = s[l] /\ At(t, j + 1) = At(s, i + (j + 1) - 1)
    BY <1>2, <1>3, <2>1
  <2> HIDE DEF l
  <2> QED
    BY <2>1, <2>2 DEF Path
<1>6. Distinct(t)
  <2> SUFFICES ASSUME NEW j \in 1..Len(t), NEW k \in 1..Len(t), t[j] = t[k] PROVE j = k
    BY DEF Distinct
  <2> DEFINE l == i + j - 1
             m == i + k - 1
  <2>1. l \in 1..Len(s) /\ m \in 1..Len(s) /\ j \in 1..Len(s) + 1 - i
        /\ k \in 1..Len(s) + 1 - i /\ (l = m => j = k)
    BY <1>1, <1>2
  <2>2. t[j] = s[l] /\ t[k] = s[m]
    BY <1>2, <2>1
  <2> HIDE DEF l, m
  <2> QED
    BY <2>1, <2>2 DEF Distinct
<1> QED
  BY <1>4, <1>5, <1>6 DEF Path, t

-----------------------------------------------------------------------------
(***************************************************************************)
(* pbuf_free of a pbuf with one reference, which the next one has more of:  *)
(* it frees that one and takes one reference from the next.                 *)
(***************************************************************************)
Dropped(b, c, r) ==
  [x \in Pbuf |-> IF x = b THEN 0 ELSE IF Len(c) > 1 /\ x = c[2] THEN r[x] - 1 ELSE r[x]]

LEMMA FreeFirst ==
  ASSUME NEW b \in Pbuf, NEW c \in Seq(Pbuf), Chain(b) = c, Len(c) > 0, c[1] = b,
         NEW r \in [Pbuf -> Nat], r[b] = 1, Len(c) > 1 => r[c[2]] \in 2..3
  PROVE  PbufFree(b, r) = Dropped(b, c, r)
<1> DEFINE Gone(k) == \A i \in 1..k : r[c[i]] = 1
           First(k) == Gone(k) /\ (k < Len(c) => ~Gone(k + 1))
           n == CHOOSE k \in 0..Len(c) : First(k)
<1>1. Len(c) \in Nat /\ Len(c) >= 1
  OBVIOUS
<1>2. First(1)
  <2>1. Gone(1)
    OBVIOUS
  <2>2. Len(c) > 1 => ~Gone(2)
    <3> SUFFICES ASSUME Len(c) > 1 PROVE ~Gone(2)
      OBVIOUS
    <3>1. 2 \in 1..2 /\ r[c[2]] # 1
      OBVIOUS
    <3> QED
      BY <3>1
  <2> QED
    BY <2>1, <2>2
<1>3. ASSUME NEW k \in 0..Len(c), First(k) PROVE k = 1
  <2>1. k # 0
    <3> SUFFICES ASSUME k = 0 PROVE FALSE
      OBVIOUS
    <3>1. 0 < Len(c) /\ 0 + 1 = 1
      BY <1>1
    <3> QED
      BY <1>2, <1>3, <3>1
  <2>2. ~(k > 1)
    <3> SUFFICES ASSUME k > 1 PROVE FALSE
      OBVIOUS
    <3>1. 2 \in 1..k /\ Len(c) > 1 /\ r[c[2]] # 1
      BY <1>1
    <3> QED
      BY <1>3, <3>1
  <2> QED
    BY <2>1, <2>2
<1>4. n = 1
  <2>1. 1 \in 0..Len(c)
    BY <1>1
  <2> HIDE DEF First
  <2>2. n \in 0..Len(c) /\ First(n)
    BY <1>2, <2>1
  <2> QED
    BY <1>3, <2>2
<1>5. PbufFree(b, r) = [x \in Pbuf |->
         IF \E i \in 1..n : x = c[i] THEN 0
         ELSE IF n < Len(c) /\ x = c[n + 1] THEN (r[x] - 1) % 65536
         ELSE r[x]]
  BY DEF PbufFree
<1> HIDE DEF n
<1>6. PbufFree(b, r) = [x \in Pbuf |->
         IF \E i \in 1..1 : x = c[i] THEN 0
         ELSE IF 1 < Len(c) /\ x = c[2] THEN (r[x] - 1) % 65536
         ELSE r[x]]
  BY <1>4, <1>5
<1>7. ASSUME NEW x \in Pbuf
      PROVE  (IF \E i \in 1..1 : x = c[i] THEN 0
              ELSE IF 1 < Len(c) /\ x = c[2] THEN (r[x] - 1) % 65536
              ELSE r[x])
             = (IF x = b THEN 0
                ELSE IF Len(c) > 1 /\ x = c[2] THEN r[x] - 1 ELSE r[x])
  <2>1. (\E i \in 1..1 : x = c[i]) <=> x = b
    OBVIOUS
  <2>2. (1 < Len(c) /\ x = c[2]) => (r[x] - 1) % 65536 = r[x] - 1
    <3> SUFFICES ASSUME 1 < Len(c), x = c[2] PROVE (r[x] - 1) % 65536 = r[x] - 1
      OBVIOUS
    <3>1. r[x] = 2 \/ r[x] = 3
      BY <1>1
    <3>2. (2 - 1) % 65536 = 2 - 1 /\ (3 - 1) % 65536 = 3 - 1
      OBVIOUS
    <3> QED
      BY <3>1, <3>2
  <2> QED
    BY <1>1, <2>1, <2>2
<1> QED
  BY <1>6, <1>7 DEF Dropped

LEMMA TryFirst ==
  ASSUME NEW b \in Pbuf, NEW c \in Seq(Pbuf), Chain(b) = c, Len(c) > 0, c[1] = b,
         Distinct(c), NEW r \in [Pbuf -> Nat], Len(c) > 1 => r[c[2]] \in 2..3
  PROVE  TryHard(b, r) = Dropped(b, c, r)
<1> DEFINE q == [r EXCEPT ![b] = 1]
<1>1. q \in [Pbuf -> Nat] /\ q[b] = 1 /\ \A x \in Pbuf : x # b => q[x] = r[x]
  OBVIOUS
<1>2. TryHard(b, r) = PbufFree(b, q)
  BY DEF TryHard
<1> HIDE DEF q
<1>3. Len(c) > 1 => c[2] \in Pbuf /\ c[2] # b
  BY DEF Distinct
<1>4. Len(c) > 1 => q[c[2]] \in 2..3
  BY <1>1, <1>3
<1>5. PbufFree(b, q) = Dropped(b, c, q)
  BY <1>1, <1>4, FreeFirst
<1>6. ASSUME NEW x \in Pbuf
      PROVE  (IF x = b THEN 0 ELSE IF Len(c) > 1 /\ x = c[2] THEN q[x] - 1 ELSE q[x])
             = (IF x = b THEN 0 ELSE IF Len(c) > 1 /\ x = c[2] THEN r[x] - 1 ELSE r[x])
  BY <1>1
<1> QED
  BY <1>2, <1>5, <1>6 DEF Dropped

(* The pbufs of the chain in es->p, and the chain behind each. *)
LEMMA ChainFrom ==
  ASSUME next \in [Pbuf -> PbufOrNull], NEW s \in Seq(Pbuf), Path(next, s, p), Distinct(s)
  PROVE  /\ Chain(p) = s
         /\ \A i \in 1..Len(s) : Chain(s[i]) = Rest(s, i) /\ next[s[i]] = At(s, i + 1)
<1>1. Chain(p) = s
  BY PathChain, ChainIsChainOf
<1>2. ASSUME NEW i \in 1..Len(s) PROVE Chain(s[i]) = Rest(s, i)
  <2>1. Len(s) \in Nat /\ i \in 1..Len(s) + 1
    OBVIOUS
  <2>2. Path(next, Rest(s, i), At(s, i)) /\ Distinct(Rest(s, i)) /\ Rest(s, i) \in Seq(Pbuf)
    BY <2>1, RestPath, RestType
  <2>3. ChainOf(next, At(s, i)) = Rest(s, i)
    BY <2>2, PathChain
  <2>4. At(s, i) = s[i]
    BY <2>1 DEF At
  <2> QED
    BY <2>3, <2>4, ChainIsChainOf
<1> QED
  BY <1>1, <1>2 DEF Path

(* Both references of the next pbuf are still there when one is chopped. *)
LEMMA ChopOne ==
  ASSUME next \in [Pbuf -> PbufOrNull], NEW s \in Seq(Pbuf), Path(next, s, p), Distinct(s),
         NEW i \in 1..Len(s), NEW r \in [Pbuf -> Nat], i < Len(s) => r[s[i + 1]] = 2
  PROVE  Chop(s[i], r) = [r EXCEPT ![s[i]] = 0]
<1> DEFINE b == s[i]
           c == Rest(s, i)
           q == next[b]
           u == IF q = Null THEN r ELSE [r EXCEPT ![q] = @ + 1]
<1>1. Len(s) \in Nat /\ i \in 1..Len(s) + 1 /\ b \in Pbuf
  OBVIOUS
<1>2. Chain(b) = c /\ q = At(s, i + 1)
  BY ChainFrom
<1>3. /\ c \in Seq(Pbuf) /\ Len(c) = Len(s) + 1 - i
      /\ \A j \in 1..Len(s) + 1 - i : c[j] = s[i + j - 1]
  BY <1>1, RestType
<1>4. Distinct(c)
  BY <1>1, RestPath
<1>5. Chop(b, r) = TryHard(b, u)
  BY DEF Chop
<1> HIDE DEF c
<1>6. Len(c) > 0 /\ c[1] = b
  <2>1. 1 \in 1..Len(s) + 1 - i /\ i + 1 - 1 = i
    BY <1>1
  <2> QED
    BY <1>1, <1>3, <2>1
<1>7. CASE i = Len(s)
  <2>1. q = Null /\ Len(c) = 1
    BY <1>1, <1>2, <1>3, <1>7 DEF At
  <2>2. u = r
    BY <2>1
  <2>3. TryHard(b, r) = Dropped(b, c, r)
    <3>1. b \in Pbuf /\ c \in Seq(Pbuf)
      BY <1>1, <1>3
    <3>2. Chain(b) = c /\ Len(c) > 0 /\ c[1] = b
      BY <1>2, <1>6
    <3>3. Len(c) > 1 => r[c[2]] \in 2..3
      BY <2>1
    <3>4. Distinct(c)
      BY <1>4
    <3> HIDE DEF b
    <3> QED
      BY <3>1, <3>2, <3>3, <3>4, TryFirst
  <2>4. TryHard(b, r) = [x \in Pbuf |-> IF x = b THEN 0 ELSE r[x]]
    BY <2>1, <2>3 DEF Dropped
  <2> QED
    BY <1>1, <1>5, <2>2, <2>4
<1>8. CASE i # Len(s)
  <2>1. i + 1 \in 1..Len(s) /\ i < Len(s) /\ Len(c) > 1
    BY <1>1, <1>3, <1>8
  <2>2. q = s[i + 1] /\ q \in Pbuf /\ q # Null
    BY <1>2, <2>1, Pool DEF At
  <2>3. c[2] = q
    <3>1. 2 \in 1..Len(s) + 1 - i /\ i + 2 - 1 = i + 1
      BY <1>1, <2>1
    <3> QED
      BY <1>3, <2>2, <3>1
  <2>4. r[q] = 2 /\ q # b
    BY <1>1, <2>1, <2>2 DEF Distinct
  <2> HIDE DEF q
  <2>5. u \in [Pbuf -> Nat] /\ u[q] = 3 /\ \A x \in Pbuf : x # q => u[x] = r[x]
    BY <2>2, <2>4
  <2> HIDE DEF u, b
  <2>6. TryHard(b, u) = Dropped(b, c, u)
    <3>1. b \in Pbuf /\ c \in Seq(Pbuf)
      BY <1>1, <1>3
    <3>2. Chain(b) = c /\ Len(c) > 0 /\ c[1] = b
      BY <1>2, <1>6
    <3>3. u \in [Pbuf -> Nat] /\ (Len(c) > 1 => u[c[2]] \in 2..3)
      BY <2>3, <2>5
    <3>4. Distinct(c)
      BY <1>4
    <3> QED
      BY <3>1, <3>2, <3>3, <3>4, TryFirst
  <2>7. ASSUME NEW x \in Pbuf
        PROVE  (IF x = b THEN 0
                ELSE IF Len(c) > 1 /\ x = c[2] THEN u[x] - 1 ELSE u[x])
               = (IF x = b THEN 0 ELSE r[x])
    BY <2>1, <2>3, <2>4, <2>5
  <2>8. TryHard(b, u) = [x \in Pbuf |-> IF x = b THEN 0 ELSE r[x]]
    BY <2>6, <2>7 DEF Dropped
  <2> QED
    BY <1>1, <1>5, <2>8 DEF b
<1> QED
  BY <1>7, <1>8

(* The first k pbufs of the chain are free, the others untouched. *)
Freed(s, k) == [x \in Pbuf |-> IF \E i \in 1..k : x = s[i] THEN 0 ELSE ref[x]]

LEMMA ChopFirst ==
  ASSUME next \in [Pbuf -> PbufOrNull], ref \in [Pbuf -> Nat],
         NEW s \in Seq(Pbuf), Path(next, s, p), Distinct(s),
         \A i \in 1..Len(s) : i > 1 => ref[s[i]] = 2,
         NEW k \in 0..Len(s)
  PROVE  ChopMany(p, k) = Freed(s, k)
<1> DEFINE E(g) == [i \in 0..k |-> IF i = 0 THEN ref ELSE Chop(s[i], g[i - 1])]
           F == [i \in 0..k |-> Freed(s, i)]
           g == CHOOSE f : f = E(f)
<1>1. Len(s) \in Nat /\ k \in Nat /\ k <= Len(s)
  OBVIOUS
<1>2. Chain(p) = s
  BY ChainFrom
<1>3. ChopMany(p, k) = g[k]
  BY <1>2 DEF ChopMany
<1>4. Freed(s, 0) = ref
  <2>1. ~(\E i \in 1..0 : TRUE)
    OBVIOUS
  <2>2. Freed(s, 0) = [x \in Pbuf |-> ref[x]]
    BY <2>1 DEF Freed
  <2> QED
    BY <2>2
<1>5. ASSUME NEW i \in 1..k PROVE Chop(s[i], Freed(s, i - 1)) = Freed(s, i)
  <2> DEFINE r == Freed(s, i - 1)
  <2>1. i \in 1..Len(s) /\ i - 1 \in Nat
    BY <1>1
  <2>2. r \in [Pbuf -> Nat]
    BY DEF Freed
  <2>3. i < Len(s) => r[s[i + 1]] = 2
    <3> SUFFICES ASSUME i < Len(s) PROVE r[s[i + 1]] = 2
      OBVIOUS
    <3>1. i + 1 \in 1..Len(s) /\ i + 1 > 1
      BY <2>1
    <3>2. ASSUME NEW j \in 1..i - 1 PROVE s[i + 1] # s[j]
      <4>1. j \in 1..Len(s) /\ j # i + 1
        BY <1>1, <2>1
      <4> QED
        BY <3>1, <4>1 DEF Distinct
    <3>3. ref[s[i + 1]] = 2 /\ s[i + 1] \in Pbuf
      BY <3>1
    <3> QED
      BY <3>2, <3>3 DEF Freed
  <2>4. \A x \in Pbuf : r[x] = IF \E j \in 1..i - 1 : x = s[j] THEN 0 ELSE ref[x]
    BY DEF Freed
  <2> HIDE DEF r
  <2>5. Chop(s[i], r) = [r EXCEPT ![s[i]] = 0]
    BY <2>1, <2>2, <2>3, ChopOne
  <2>6. ASSUME NEW x \in Pbuf
        PROVE  [r EXCEPT ![s[i]] = 0][x] = IF \E j \in 1..i : x = s[j] THEN 0 ELSE ref[x]
    <3>1. CASE x = s[i]
      <4>1. i \in 1..i
        BY <1>1
      <4> QED
        BY <2>2, <3>1, <4>1
    <3>2. CASE x # s[i]
      <4>1. (\E j \in 1..i : x = s[j]) <=> (\E j \in 1..i - 1 : x = s[j])
        <5>1. \A j \in 1..i : j = i \/ j \in 1..i - 1
          BY <2>1
        <5>2. \A j \in 1..i - 1 : j \in 1..i
          BY <2>1
        <5> QED
          BY <3>2, <5>1, <5>2
      <4>2. [r EXCEPT ![s[i]] = 0][x] = r[x]
        BY <2>2, <3>2
      <4> QED
        BY <2>4, <4>1, <4>2
    <3> QED
      BY <3>1, <3>2
  <2> DEFINE v == [r EXCEPT ![s[i]] = 0]
  <2>7. v = [x \in Pbuf |-> v[x]]
    BY <2>2
  <2> QED
    BY <2>5, <2>6, <2>7 DEF Freed, r
<1>6. F = E(F)
  <2>1. ASSUME NEW i \in 0..k
        PROVE  F[i] = IF i = 0 THEN ref ELSE Chop(s[i], F[i - 1])
    <3>1. CASE i = 0
      BY <1>1, <1>4, <3>1
    <3>2. CASE i # 0
      <4>1. i \in 1..k /\ i - 1 \in 0..k
        BY <1>1, <3>2
      <4> QED
        BY <1>5, <3>2, <4>1
    <3> QED
      BY <3>1, <3>2
  <2> QED
    BY <2>1
<1> HIDE DEF F
<1>7. g = E(g)
  BY <1>6
<1> HIDE DEF g
<1>8. g[0] = ref /\ \A i \in 1..k : g[i] = Chop(s[i], g[i - 1])
  <2>1. 0 \in 0..k /\ \A i \in 1..k : i \in 0..k /\ i # 0
    BY <1>1
  <2>2. \A i \in 0..k : g[i] = IF i = 0 THEN ref ELSE Chop(s[i], g[i - 1])
    BY <1>7
  <2> QED
    BY <2>1, <2>2
<1> DEFINE T == {i \in 0..k : g[i] = Freed(s, i)}
<1>9. 0 \in T
  BY <1>1, <1>4, <1>8
<1>10. ASSUME NEW i \in 1..k, i - 1 \in T PROVE i \in T
  <2>1. i \in 0..k /\ g[i - 1] = Freed(s, i - 1)
    BY <1>1, <1>10
  <2> QED
    BY <1>5, <1>8, <2>1
<1> HIDE DEF T
<1>11. k \in T
  BY <1>1, <1>9, <1>10, UpTo
<1> QED
  BY <1>3, <1>11 DEF T

-----------------------------------------------------------------------------
(***************************************************************************)
(* The steps.  Each lemma names the chain es->p holds after its action.     *)
(***************************************************************************)
LEMMA PolledChain ==
  ASSUME PolledInv
  PROVE  \E s \in Seq(Pbuf) : s = Chain(p) /\ Held(s)
<1>1. next \in [Pbuf -> PbufOrNull] /\ p \in PbufOrNull
  BY DEF PolledInv, TypeOK
<1>2. Closed(Pbuf, next) /\ p \in Pbuf \union {Null}
  BY <1>1 DEF Closed, PbufOrNull
<1>3. ChainOf(next, p) \in Seq(Pbuf)
  BY <1>1, <1>2, ChainClosed
<1>4. Chain(p) = ChainOf(next, p)
  BY ChainIsChainOf
<1> QED
  BY <1>3, <1>4 DEF PolledInv

LEMMA PolledNext ==
  ASSUME NEW t \in Seq(Pbuf), TypeOK', Begun', Held(t)'
  PROVE  PolledInv'
<1>1. next' \in [Pbuf -> PbufOrNull]
  BY DEF TypeOK
<1>2. Path(next', t, p') /\ Distinct(t)
  BY DEF Held, Shape, Path, Distinct, At
<1>3. Chain(p)' = t
  BY <1>1, <1>2, PathChain, ChainIsChainOf
<1> QED
  BY <1>3 DEF PolledInv

LEMMA PolledInit == Init => PolledInv
<1> SUFFICES ASSUME Init PROVE PolledInv
  OBVIOUS
<1>1. TypeOK
  BY EchoConnAssumption DEF Init, TypeOK, PbufOrNull
<1>2. Begun
  BY DEF Init, Begun
<1>3. ChainOf(next, p) = <<>>
  <2>1. next \in [Pbuf -> PbufOrNull] /\ Closed({}, next) /\ p = Null
    BY DEF Init, PbufOrNull, Closed
  <2> QED
    BY <2>1, ChainClosed
<1>4. Chain(p) = <<>>
  BY <1>3, ChainIsChainOf
<1>5. Held(<<>>)
  <2>1. Shape(<<>>)
    BY DEF Init, Shape, Path, At, Distinct, Within
  <2>2. Owned(<<>>)
    BY DEF Init, Owned, Within, Leaving
  <2>3. Counts(<<>>) /\ Loop(<<>>) /\ Order(<<>>) /\ Window(<<>>)
    BY DEF Init, Counts, Loop, Order, Window
  <2> QED
    BY <2>1, <2>2, <2>3 DEF Held
<1> QED
  BY <1>1, <1>2, <1>4, <1>5 DEF PolledInv

(* The pbufs and es->p stay as they are. *)
LEMMA SamePbufs ==
  ASSUME NEW s \in Seq(Pbuf), Shape(s), Owned(s), Counts(s),
         UNCHANGED <<next, ref, p, aborted>>, pc # "free", pc' # "free"
  PROVE  Shape(s)' /\ Owned(s)' /\ Counts(s)'
<1>1. Shape(s)'
  BY DEF Shape, Path
<1>2. Owned(s)'
  BY DEF Owned, Leaving
<1>3. Counts(s)'
  BY DEF Counts
<1> QED
  BY <1>1, <1>2, <1>3

(* es->p is Null exactly when its chain is empty. *)
LEMMA EmptyChain ==
  ASSUME NEW s \in Seq(Pbuf), Shape(s)
  PROVE  /\ p = Null <=> s = <<>>
         /\ p # Null => Len(s) \in Nat /\ Len(s) > 0 /\ s[1] = p /\ 1 \in 1..Len(s)
<1>1. Len(s) \in Nat /\ (s = <<>> <=> Len(s) = 0)
  OBVIOUS
<1>2. p = At(s, 1)
  BY DEF Shape, Path
<1>3. CASE Len(s) = 0
  BY <1>1, <1>2, <1>3 DEF At
<1>4. CASE Len(s) # 0
  <2>1. 1 \in 1..Len(s) /\ 1 <= Len(s)
    BY <1>1, <1>4
  <2>2. s[1] \in Pbuf /\ p = s[1]
    BY <1>2, <2>1 DEF At
  <2> QED
    BY <1>1, <1>4, <2>1, <2>2, Pool
<1> QED
  BY <1>3, <1>4

LEMMA AcceptPolled ==
  ASSUME PolledInv, echo_accept PROVE PolledInv'
<1>1. PICK s \in Seq(Pbuf) : s = Chain(p) /\ Held(s)
  BY PolledChain
<1>2. /\ state = "ES_NONE" /\ state' = "ES_ACCEPTED" /\ p' = Null /\ sent_cb' = "none"
      /\ sndbuf' = SndBuf /\ rcv_wnd' = Wnd /\ rcvd' = 0 /\ consumed' = <<>>
      /\ pc = "idle" /\ UNCHANGED <<next, ref, seg, pc, ptr, nxt, aborted>>
  BY DEF echo_accept, pbufs, poll
<1>3. TypeOK /\ p = Null
  BY <1>2 DEF PolledInv, Begun
<1>4. TypeOK'
  BY <1>2, <1>3, EchoConnAssumption DEF TypeOK, PbufOrNull
<1>5. Begun'
  BY <1>2 DEF Begun
<1>6. s = <<>>
  BY <1>1, <1>3, EmptyChain DEF Held
<1>7. Shape(s)' /\ Owned(s)' /\ Counts(s)'
  BY <1>1, <1>2, <1>3, SamePbufs DEF Held
<1>8. Loop(s)' /\ Order(s)' /\ Window(s)'
  BY <1>2, <1>6, EchoConnAssumption DEF Loop, Order, Left, Window
<1> QED
  BY <1>4, <1>5, <1>7, <1>8, PolledNext DEF Held

(* One pbuf becomes the chain. *)
LEMMA OnePbuf ==
  ASSUME TypeOK, Held(<<>>), pc = "idle", NEW b \in Pbuf, ref[b] = 0,
         p' = b, next' = [next EXCEPT ![b] = Null], ref' = [ref EXCEPT ![b] = 1],
         UNCHANGED <<pc, aborted>>
  PROVE  Shape(<<b>>)' /\ Owned(<<b>>)' /\ Counts(<<b>>)'
<1> DEFINE t == <<b>>
<1>1. Len(t) = 1 /\ t[1] = b /\ Within(t) = {b}
  BY DEF Within
<1>2. Within(<<>>) = {}
  BY DEF Within
<1> HIDE DEF t
<1>3. next \in [Pbuf -> PbufOrNull] /\ ref \in [Pbuf -> 0..3]
  BY DEF TypeOK
<1>4. b \notin aborted /\ \A x \in Pbuf : ref[x] > 0 <=> x \in aborted
  BY <1>2, <1>3 DEF Held, Owned, Leaving
<1>5. next'[b] = Null /\ ref'[b] = 1 /\ \A x \in Pbuf : x # b => ref'[x] = ref[x]
  BY <1>3
<1>6. Shape(t)'
  <2>1. Path(next', t, b)
    BY <1>1, <1>5 DEF Path, At
  <2>2. Distinct(t)
    BY <1>1 DEF Distinct
  <2> QED
    BY <1>1, <1>4, <2>1, <2>2 DEF Shape, Path, Within
<1>7. Owned(t)'
  BY <1>1, <1>4, <1>5 DEF Owned, Leaving, Within
<1>8. Counts(t)'
  BY <1>1, <1>5 DEF Counts
<1> QED
  BY <1>6, <1>7, <1>8 DEF t

LEMMA RecvConfigPolled ==
  ASSUME ~RxInterrupt, PolledInv, NEW b \in Pbuf, RecvConfig(b) PROVE PolledInv'
<1>1. PICK s \in Seq(Pbuf) : s = Chain(p) /\ Held(s)
  BY PolledChain
<1>2. /\ pc = "idle" /\ state = "ES_ACCEPTED" /\ rcvd < MaxSegs /\ rcv_wnd > 0 /\ ref[b] = 0
      /\ rcvd' = rcvd + 1 /\ seg' = [seg EXCEPT ![b] = rcvd + 1]
      /\ state' = "ES_RECEIVED" /\ p' = b /\ next' = [next EXCEPT ![b] = Null]
      /\ ref' = [ref EXCEPT ![b] = 1] /\ rcv_wnd' = rcv_wnd - 1
      /\ UNCHANGED <<sent_cb, sndbuf, pc, ptr, nxt, consumed, aborted>>
  BY DEF RecvConfig, Deliver, CallbackRuns, poll, history
<1>3. TypeOK /\ p = Null /\ rcvd = 0 /\ consumed = <<>>
  BY <1>2 DEF PolledInv, Begun
<1>4. s = <<>> /\ Len(s) = 0
  BY <1>1, <1>3, EmptyChain DEF Held
<1>5. TypeOK'
  BY <1>2, <1>3, EchoConnAssumption DEF TypeOK, PbufOrNull
<1>6. Begun'
  BY <1>2 DEF Begun
<1> DEFINE t == <<b>>
<1>7. Shape(t)' /\ Owned(t)' /\ Counts(t)'
  BY <1>1, <1>2, <1>3, <1>4, OnePbuf
<1>8. t \in Seq(Pbuf) /\ Len(t) = 1 /\ t[1] = b
  OBVIOUS
<1> HIDE DEF t
<1>9. Loop(t)'
  BY <1>2 DEF Loop
<1>10. Order(t)'
  <2>1. seg'[b] = 1 /\ Len(consumed') = 0
    BY <1>2, <1>3 DEF TypeOK
  <2> QED
    BY <1>2, <1>3, <1>8, <2>1 DEF Order, Left
<1>11. Window(t)'
  <2>1. rcv_wnd = Wnd
    BY <1>1, <1>2, <1>4, EchoConnAssumption DEF Held, Window
  <2> QED
    BY <1>2, <1>8, <2>1 DEF Window
<1> QED
  BY <1>5, <1>6, <1>7, <1>8, <1>9, <1>10, <1>11, PolledNext DEF Held

(* A segment goes to the ring as it arrives. *)
LEMMA RecvRingPolled ==
  ASSUME ~RxInterrupt, PolledInv, NEW b \in Pbuf, RecvData(b), sndbuf > 0 PROVE PolledInv'
<1>1. PICK s \in Seq(Pbuf) : s = Chain(p) /\ Held(s)
  BY PolledChain
<1>2. /\ pc = "idle" /\ state = "ES_RECEIVED" /\ p = Null /\ rcvd < MaxSegs /\ ref[b] = 0
      /\ rcvd' = rcvd + 1 /\ seg' = [seg EXCEPT ![b] = rcvd + 1]
      /\ sent_cb' = "TCP_UART_sent" /\ next' = [next EXCEPT ![b] = Null]
      /\ p' = Null /\ ref' = ref /\ rcv_wnd' = rcv_wnd
      /\ consumed' = Append(consumed, <<rcvd + 1, "ring">>)
      /\ UNCHANGED <<state, sndbuf, pc, ptr, nxt, aborted>>
  BY DEF RecvData, Deliver, CallbackRuns, poll
<1>3. TypeOK
  BY DEF PolledInv
<1>4. s = <<>> /\ Len(s) = 0
  BY <1>1, <1>2, EmptyChain DEF Held
<1> DEFINE V == (1..MaxSegs) \X {"echo", "ring"}
           e == <<rcvd + 1, "ring">>
<1>5. e \in V /\ consumed \in Seq(V) /\ e[1] = rcvd + 1
  BY <1>2, <1>3, EchoConnAssumption DEF TypeOK
<1> HIDE DEF V, e
<1>6. /\ consumed' \in Seq(V) /\ Len(consumed) \in Nat /\ Len(consumed') = Len(consumed) + 1
      /\ \A i \in 1..Len(consumed) : consumed'[i] = consumed[i]
      /\ consumed'[Len(consumed) + 1] = e
  BY <1>2, <1>5 DEF e
<1>7. TypeOK'
  <2>1. consumed' \in Seq((1..MaxSegs) \X {"echo", "ring"})
    BY <1>6 DEF V
  <2> QED
    BY <1>2, <1>3, <2>1, EchoConnAssumption DEF TypeOK, PbufOrNull
<1>8. Begun'
  BY <1>2 DEF Begun
<1>9. Shape(s)'
  BY <1>2, <1>4 DEF Shape, Path, At, Distinct, Within
<1>10. Owned(s)'
  BY <1>1, <1>2, <1>4 DEF Held, Owned, Within, Leaving
<1>11. Counts(s)' /\ Loop(s)'
  BY <1>2, <1>4 DEF Counts, Loop
<1>12. Order(s)'
  <2>1. Len(consumed) = rcvd /\ \A i \in 1..Len(consumed) : consumed[i][1] = i
    BY <1>1, <1>2, <1>4, <1>6 DEF Held, Order, Left
  <2>2. ASSUME NEW i \in 1..Len(consumed') PROVE consumed'[i][1] = i
    <3>1. CASE i = Len(consumed) + 1
      BY <1>5, <1>6, <2>1, <3>1
    <3>2. CASE i # Len(consumed) + 1
      <4>1. i \in 1..Len(consumed)
        BY <1>6, <3>2
      <4> QED
        BY <1>6, <2>1, <4>1
    <3> QED
      BY <3>1, <3>2
  <2> QED
    BY <1>2, <1>4, <1>6, <2>1, <2>2 DEF Order, Left
<1>13. Window(s)'
  BY <1>1, <1>2 DEF Held, Window
<1> QED
  BY <1>7, <1>8, <1>9, <1>10, <1>11, <1>12, <1>13, PolledNext DEF Held

(* The send buffer is full: it waits in es->p. *)
LEMMA RecvWaitPolled ==
  ASSUME ~RxInterrupt, PolledInv, NEW b \in Pbuf, RecvData(b), ~(sndbuf > 0)
  PROVE  PolledInv'
<1>1. PICK s \in Seq(Pbuf) : s = Chain(p) /\ Held(s)
  BY PolledChain
<1>2. /\ pc = "idle" /\ state = "ES_RECEIVED" /\ p = Null
      /\ rcvd < MaxSegs /\ rcv_wnd > 0 /\ ref[b] = 0
      /\ rcvd' = rcvd + 1 /\ seg' = [seg EXCEPT ![b] = rcvd + 1]
      /\ sent_cb' = "TCP_UART_sent" /\ next' = [next EXCEPT ![b] = Null]
      /\ p' = b /\ ref' = [ref EXCEPT ![b] = 1] /\ rcv_wnd' = rcv_wnd - 1
      /\ UNCHANGED <<state, sndbuf, pc, ptr, nxt, consumed, aborted>>
  BY DEF RecvData, Deliver, CallbackRuns, poll
<1>3. TypeOK
  BY DEF PolledInv
<1>4. s = <<>> /\ Len(s) = 0
  BY <1>1, <1>2, EmptyChain DEF Held
<1>5. TypeOK'
  BY <1>2, <1>3, EchoConnAssumption DEF TypeOK, PbufOrNull
<1>6. Begun'
  BY <1>2 DEF Begun
<1> DEFINE t == <<b>>
<1>7. Shape(t)' /\ Owned(t)' /\ Counts(t)'
  BY <1>1, <1>2, <1>3, <1>4, OnePbuf
<1>8. t \in Seq(Pbuf) /\ Len(t) = 1 /\ t[1] = b
  OBVIOUS
<1> HIDE DEF t
<1>9. Loop(t)'
  BY <1>2 DEF Loop
<1>10. Order(t)'
  <2>1. seg'[b] = rcvd + 1 /\ rcvd \in Nat
    BY <1>2, <1>3, EchoConnAssumption DEF TypeOK
  <2>2. Len(consumed) \in Nat
    BY <1>3 DEF TypeOK
  <2>3. Len(consumed) = rcvd /\ \A i \in 1..Len(consumed) : consumed[i][1] = i
    BY <1>1, <1>2, <1>4, <2>2 DEF Held, Order, Left
  <2>4. Left' = rcvd
    BY <1>2, <2>2, <2>3 DEF Left
  <2>5. \A i \in 1..Len(t) : seg'[t[i]] = Left' + i
    BY <1>8, <2>1, <2>4
  <2> QED
    BY <1>2, <1>8, <2>1, <2>3, <2>4, <2>5 DEF Order
<1>11. Window(t)'
  <2>1. rcv_wnd = Wnd
    BY <1>1, <1>2, <1>4, EchoConnAssumption DEF Held, Window
  <2> QED
    BY <1>2, <1>8, <2>1 DEF Window
<1> QED
  BY <1>5, <1>6, <1>7, <1>8, <1>9, <1>10, <1>11, PolledNext DEF Held

(* pbuf_chain: the new pbuf ends the chain, with two references. *)
LEMMA RecvChainPolled ==
  ASSUME ~RxInterrupt, PolledInv, NEW b \in Pbuf, RecvChain(b) PROVE PolledInv'
<1>1. PICK s \in Seq(Pbuf) : s = Chain(p) /\ Held(s)
  BY PolledChain
<1> DEFINE n == Len(s)
           last == s[n]
<1>2. /\ pc = "idle" /\ state = "ES_RECEIVED" /\ p # Null
      /\ rcvd < MaxSegs /\ rcv_wnd > 0 /\ ref[b] = 0
      /\ rcvd' = rcvd + 1 /\ seg' = [seg EXCEPT ![b] = rcvd + 1]
      /\ next' = [next EXCEPT ![b] = Null, ![last] = b]
      /\ ref' = [ref EXCEPT ![b] = 2] /\ rcv_wnd' = rcv_wnd - 1
      /\ UNCHANGED <<state, p, sent_cb, sndbuf, pc, ptr, nxt, consumed, aborted>>
  BY <1>1 DEF RecvChain, Deliver, CallbackRuns, poll, history
<1>3. TypeOK
  BY DEF PolledInv
<1>4. Shape(s) /\ Owned(s) /\ Counts(s) /\ Order(s) /\ Window(s)
  BY <1>1 DEF Held
<1>5. n \in Nat /\ n > 0 /\ s[1] = p /\ last \in Pbuf /\ last \in Within(s)
  <2>1. n \in Nat /\ n > 0 /\ s[1] = p
    BY <1>2, <1>4, EmptyChain
  <2>2. n \in 1..n
    BY <2>1
  <2> QED
    BY <2>1, <2>2 DEF Within
<1>6. next \in [Pbuf -> PbufOrNull] /\ ref \in [Pbuf -> 0..3] /\ rcvd \in Nat
      /\ seg \in [Pbuf -> 0..MaxSegs]
  BY <1>3, EchoConnAssumption DEF TypeOK
<1>7. b \notin Within(s) /\ b \notin aborted /\ b # last
  BY <1>2, <1>4, <1>5, <1>6 DEF Owned
<1>8. /\ next' \in [Pbuf -> PbufOrNull] /\ next'[b] = Null /\ next'[last] = b
      /\ \A x \in Pbuf : x # b /\ x # last => next'[x] = next[x]
      /\ ref'[b] = 2 /\ \A x \in Pbuf : x # b => ref'[x] = ref[x]
      /\ seg'[b] = rcvd + 1 /\ \A x \in Pbuf : x # b => seg'[x] = seg[x]
  <2> DEFINE f == [next EXCEPT ![b] = Null]
  <2>1. f \in [Pbuf -> PbufOrNull] /\ f[b] = Null /\ \A x \in Pbuf : x # b => f[x] = next[x]
    BY <1>6 DEF PbufOrNull
  <2>2. next' = [f EXCEPT ![last] = b]
    BY <1>2
  <2> HIDE DEF f, last
  <2> QED
    BY <1>2, <1>5, <1>6, <1>7, <2>1, <2>2 DEF PbufOrNull
<1>9. TypeOK'
  <2>1. ref' \in [Pbuf -> 0..3] /\ rcvd' \in 0..MaxSegs /\ seg' \in [Pbuf -> 0..MaxSegs]
        /\ rcv_wnd' \in 0..Wnd
    BY <1>2, <1>3, EchoConnAssumption DEF TypeOK
  <2> QED
    BY <1>2, <1>3, <1>8, <2>1 DEF TypeOK
<1>10. Begun'
  BY <1>2 DEF Begun
<1> DEFINE t == Append(s, b)
<1>11. /\ t \in Seq(Pbuf) /\ Len(t) = n + 1 /\ t[n + 1] = b
       /\ \A i \in 1..n : t[i] = s[i]
  OBVIOUS
<1>12. \A i \in 1..n : s[i] \in Pbuf /\ s[i] \in Within(s) /\ s[i] # b
  BY <1>7 DEF Within
<1>13. PICK u : u = t
  OBVIOUS
<1>14. /\ u \in Seq(Pbuf) /\ Len(u) = n + 1 /\ u[n + 1] = b
       /\ \A i \in 1..n : u[i] = s[i]
  BY <1>11, <1>13
<1> HIDE DEF t
<1>15. \A i \in 1..Len(u) : i = n + 1 \/ i \in 1..n
  BY <1>5, <1>14
<1>16. Shape(u)'
  <2>1. 1 \in 1..n /\ p' = At(u, 1)
    BY <1>2, <1>5, <1>14 DEF At
  <2>2. ASSUME NEW i \in 1..Len(u) PROVE next'[u[i]] = At(u, i + 1)
    <3>1. CASE i = n + 1
      <4>1. ~(i + 1 <= Len(u))
        BY <1>5, <1>14, <3>1
      <4> QED
        BY <1>8, <1>14, <3>1, <4>1 DEF At
    <3>2. CASE i = n
      <4>1. i \in 1..n /\ i + 1 <= Len(u)
        BY <1>5, <1>14, <3>2
      <4>2. u[i] = last /\ At(u, i + 1) = b
        BY <1>14, <3>2, <4>1 DEF At
      <4> QED
        BY <1>8, <4>2
    <3>3. CASE i \in 1..n /\ i # n
      <4>1. i + 1 \in 1..n /\ i + 1 <= Len(u) /\ i + 1 <= Len(s) /\ n \in 1..n
        BY <1>5, <1>14, <3>3
      <4>2. At(u, i + 1) = s[i + 1] /\ At(s, i + 1) = s[i + 1]
        BY <1>14, <4>1 DEF At
      <4>3. next[s[i]] = At(s, i + 1)
        BY <1>4, <3>3 DEF Shape, Path
      <4>4. s[i] # last /\ s[i] # b /\ s[i] \in Pbuf
        BY <1>4, <1>12, <3>3, <4>1 DEF Shape, Distinct
      <4> QED
        BY <1>8, <1>14, <3>3, <4>2, <4>3, <4>4
    <3> QED
      BY <1>15, <3>1, <3>2, <3>3
  <2>3. Distinct(u)
    <3> SUFFICES ASSUME NEW i \in 1..Len(u), NEW j \in 1..Len(u), u[i] = u[j] PROVE i = j
      BY DEF Distinct
    <3>1. CASE i \in 1..n /\ j \in 1..n
      BY <1>4, <1>14, <3>1 DEF Shape, Distinct
    <3>2. CASE i = n + 1 \/ j = n + 1
      BY <1>12, <1>14, <1>15, <3>2
    <3> QED
      BY <1>15, <3>1, <3>2
  <2>4. Within(u) \intersect aborted' = {}
    <3> SUFFICES ASSUME NEW i \in 1..Len(u) PROVE u[i] \notin aborted'
      BY DEF Within
    <3>1. CASE i \in 1..n
      BY <1>2, <1>4, <1>12, <1>14, <3>1 DEF Shape
    <3>2. CASE i = n + 1
      BY <1>2, <1>7, <1>14, <3>2
    <3> QED
      BY <1>15, <3>1, <3>2
  <2> QED
    BY <2>1, <2>2, <2>3, <2>4 DEF Shape, Path, Distinct, Within, At
<1>17. Within(u) = Within(s) \union {b}
  <2>1. \A i \in 1..Len(u) : u[i] \in Within(s) \union {b}
    BY <1>12, <1>14, <1>15
  <2>2. \A i \in 1..Len(s) : s[i] \in Within(u)
    <3>1. \A i \in 1..Len(s) : i \in 1..Len(u) /\ u[i] = s[i]
      BY <1>5, <1>14
    <3> QED
      BY <3>1 DEF Within
  <2>3. b \in Within(u)
    <3>1. n + 1 \in 1..Len(u)
      BY <1>5, <1>14
    <3> QED
      BY <1>14, <3>1 DEF Within
  <2> QED
    BY <2>1, <2>2, <2>3 DEF Within
<1>18. Owned(u)'
  <2> SUFFICES ASSUME NEW x \in Pbuf
               PROVE  ref'[x] > 0 <=> x \in Within(u) \union aborted' \union Leaving'
    BY DEF Owned, Within
  <2>1. Leaving' = {} /\ Leaving = {}
    BY <1>2 DEF Leaving
  <2> QED
    BY <1>2, <1>4, <1>8, <1>17, <2>1 DEF Owned
<1>19. Counts(u)'
  <2> SUFFICES ASSUME NEW i \in 1..Len(u)
               PROVE  ref'[u[i]] \in IF i > 1 THEN {2} ELSE {1, 2}
    BY <1>2 DEF Counts
  <2>1. CASE i = n + 1
    BY <1>5, <1>8, <1>14, <2>1
  <2>2. CASE i \in 1..n
    <3>1. ref'[u[i]] = ref[s[i]]
      BY <1>8, <1>12, <1>14, <2>2
    <3> QED
      BY <1>2, <1>4, <2>2, <3>1 DEF Counts
  <2> QED
    BY <1>15, <2>1, <2>2
<1>20. Loop(u)'
  BY <1>2 DEF Loop
<1>21. Order(u)'
  <2>1. Len(consumed) \in Nat
    BY <1>3 DEF TypeOK
  <2>2. /\ Left = Len(consumed) /\ Left' = Left /\ Left + n = rcvd
        /\ \A i \in 1..n : seg[s[i]] = Left + i
        /\ \A i \in 1..Len(consumed') : consumed'[i][1] = i
    BY <1>2, <1>4, <2>1 DEF Order, Left
  <2>3. ASSUME NEW i \in 1..Len(u) PROVE seg'[u[i]] = Left + i
    <3>1. CASE i = n + 1
      BY <1>5, <1>8, <1>14, <2>1, <2>2, <3>1
    <3>2. CASE i \in 1..n
      <4>1. u[i] = s[i] /\ s[i] \in Pbuf /\ s[i] # b
        BY <1>12, <1>14, <3>2
      <4>2. seg'[s[i]] = seg[s[i]]
        BY <1>8, <4>1
      <4> QED
        BY <2>2, <3>2, <4>1, <4>2
    <3> QED
      BY <1>15, <3>1, <3>2
  <2>4. Left + Len(u) = rcvd'
    BY <1>2, <1>5, <1>14, <2>1, <2>2
  <2> QED
    BY <2>2, <2>3, <2>4 DEF Order
<1>22. Window(u)'
  <2>1. rcv_wnd = Wnd - n
    BY <1>2, <1>4, <1>5, EchoConnAssumption DEF Window
  <2> QED
    BY <1>2, <1>5, <1>14, <2>1, EchoConnAssumption DEF Window
<1> QED
  BY <1>9, <1>10, <1>14, <1>16, <1>18, <1>19, <1>20, <1>21, <1>22, PolledNext DEF Held

(* A round of the main loop is not begun or not ended, and the chain stays. *)
LEMMA QuietPolled ==
  ASSUME PolledInv, TypeOK', Begun',
         UNCHANGED <<next, ref, seg, p, aborted, ptr, nxt, consumed, rcvd, rcv_wnd>>,
         pc \in {"idle", "check"}, pc' \in {"idle", "check"},
         state' # "ES_NONE" => state # "ES_NONE",
         pc' # "idle" => state' \in {"ES_RECEIVED", "ES_CLOSING"}
  PROVE  PolledInv'
<1>1. PICK s \in Seq(Pbuf) : s = Chain(p) /\ Held(s)
  BY PolledChain
<1>2. Shape(s)' /\ Owned(s)' /\ Counts(s)'
  BY <1>1, SamePbufs DEF Held
<1>3. Loop(s)'
  BY DEF Loop
<1>4. Order(s)'
  <2>1. Left' = Left
    BY DEF Left
  <2> QED
    BY <1>1, <2>1 DEF Held, Order
<1>5. Window(s)'
  BY <1>1 DEF Held, Window
<1> QED
  BY <1>2, <1>3, <1>4, <1>5, PolledNext DEF Held

LEMMA StutterPolled ==
  ASSUME PolledInv, UNCHANGED vars PROVE PolledInv'
<1>1. PICK s \in Seq(Pbuf) : s = Chain(p) /\ Held(s)
  BY PolledChain
<1>2. UNCHANGED <<state, p, sent_cb, sndbuf, rcv_wnd, rcvd, next, ref, seg, pc, ptr, nxt,
                 consumed, aborted>>
  BY DEF vars, conn, tcp, pbufs, poll, history
<1>3. TypeOK' /\ Begun'
  BY <1>2 DEF PolledInv, TypeOK, Begun
<1>4. Shape(s)' /\ Owned(s)' /\ Counts(s)'
  <2>1. Leaving' = Leaving
    BY <1>2 DEF Leaving
  <2> QED
    BY <1>1, <1>2, <2>1 DEF Held, Shape, Path, Owned, Counts
<1>5. Loop(s)' /\ Order(s)' /\ Window(s)'
  <2>1. Left' = Left
    BY <1>2 DEF Left
  <2> QED
    BY <1>1, <1>2, <2>1 DEF Held, Loop, Order, Window
<1> QED
  BY <1>3, <1>4, <1>5, PolledNext DEF Held

LEMMA RecvFinPolled ==
  ASSUME ~RxInterrupt, PolledInv, RecvFin PROVE PolledInv'
<1>1. /\ pc = "idle" /\ state \in {"ES_ACCEPTED", "ES_RECEIVED"}
      /\ UNCHANGED <<next, ref, seg, aborted, ptr, nxt, pc, consumed, rcvd, sndbuf, rcv_wnd>>
      /\ \/ p = Null /\ state' = "ES_NONE" /\ p' = Null /\ sent_cb' = "none"
         \/ p # Null /\ state' = "ES_CLOSING" /\ UNCHANGED <<p, sent_cb>>
  BY DEF RecvFin, CallbackRuns, CloseConn, tcp, pbufs, poll, history
<1>2. p' = p
  BY <1>1
<1>3. TypeOK'
  BY <1>1, <1>2 DEF PolledInv, TypeOK
<1>4. Begun'
  BY <1>1 DEF Begun
<1> QED
  BY <1>1, <1>2, <1>3, <1>4, QuietPolled

(* Something is acknowledged, and nothing lies in es->p or no callback is set. *)
LEMMA AckedPolled ==
  ASSUME ~RxInterrupt, PolledInv, NEW n \in 1..SndBuf, Acked(n),
         (NothingMore /\ p = Null) \/ UNCHANGED <<state, p, sent_cb>>,
         sndbuf' = sndbuf + n, UNCHANGED <<rcv_wnd, ref, consumed>>
  PROVE  PolledInv'
<1>1. /\ pc = "idle" /\ state # "ES_NONE" /\ sndbuf + n <= SndBuf
      /\ UNCHANGED <<next, ref, seg, aborted, ptr, nxt, pc, consumed, rcvd, rcv_wnd>>
  BY DEF Acked, CallbackRuns, poll
<1>2. \/ p = Null /\ state' = "ES_NONE" /\ p' = Null /\ sent_cb' = "none"
      \/ UNCHANGED <<state, p, sent_cb>>
  BY DEF NothingMore, CloseConn
<1>3. p' = p
  BY <1>2
<1>4. sndbuf' \in 0..SndBuf
  BY <1>1, EchoConnAssumption DEF PolledInv, TypeOK
<1>5. TypeOK'
  BY <1>1, <1>2, <1>3, <1>4 DEF PolledInv, TypeOK
<1>6. Begun'
  BY <1>1, <1>2 DEF PolledInv, Begun
<1> QED
  BY <1>1, <1>2, <1>3, <1>5, <1>6, QuietPolled

LEMMA AckedNoCallbackPolled ==
  ASSUME ~RxInterrupt, PolledInv, NEW n \in 1..SndBuf, AckedNoCallback(n) PROVE PolledInv'
BY AckedPolled DEF AckedNoCallback

LEMMA PollPolled ==
  ASSUME PolledInv, echo_poll PROVE PolledInv'
<1>1. PICK n \in {0, 1} : n <= sndbuf /\ sndbuf' = sndbuf - n
  BY DEF echo_poll
<1>2. /\ pc = "idle" /\ state # "ES_NONE"
      /\ UNCHANGED <<state, next, ref, seg, p, aborted, ptr, nxt, consumed, rcvd, rcv_wnd>>
      /\ \/ UNCHANGED <<sent_cb, pc>>
         \/ p # Null /\ sent_cb' = "echo_sent" /\ pc' = "check"
  BY DEF echo_poll, pbufs, history
<1>3. TypeOK /\ Begun
  BY DEF PolledInv
<1>4. sndbuf' \in 0..SndBuf
  BY <1>1, <1>3, EchoConnAssumption DEF TypeOK
<1>5. TypeOK'
  BY <1>2, <1>3, <1>4 DEF TypeOK
<1>6. Begun'
  BY <1>2, <1>3 DEF Begun
<1>7. pc' # "idle" => state' \in {"ES_RECEIVED", "ES_CLOSING"}
  BY <1>2, <1>3 DEF Begun, TypeOK
<1>8. pc' \in {"idle", "check"}
  BY <1>2
<1> QED
  BY <1>2, <1>5, <1>6, <1>7, <1>8, QuietPolled

(* The head of the loop, when it ends the loop. *)
LEMMA PollEndPolled ==
  ASSUME PolledInv, PollCheck, pc' = "idle", UNCHANGED <<ptr, sndbuf, consumed>>
  PROVE  PolledInv'
<1>1. /\ pc = "check"
      /\ UNCHANGED <<state, sent_cb, next, ref, seg, p, aborted, nxt, rcvd, rcv_wnd>>
  BY DEF PollCheck, conn, pbufs
<1>2. TypeOK' /\ Begun'
  BY <1>1 DEF PolledInv, TypeOK, Begun
<1> QED
  BY <1>1, <1>2, QuietPolled

(* echo_error forgets what es->p holds. *)
LEMMA ErrorPolled ==
  ASSUME ~RxInterrupt, PolledInv, echo_error PROVE PolledInv'
<1>1. PICK s \in Seq(Pbuf) : s = Chain(p) /\ Held(s)
  BY PolledChain
<1>2. /\ pc = "idle" /\ state' = "ES_NONE" /\ p' = Null /\ sent_cb' = "none"
      /\ aborted' = aborted \union Range(s)
      /\ UNCHANGED <<next, ref, seg, pc, ptr, nxt, rcvd, sndbuf, rcv_wnd, consumed>>
  BY <1>1 DEF echo_error, CallbackRuns, CloseConn, tcp, pbufs, poll
<1>3. Range(s) = Within(s) /\ Range(s) \subseteq Pbuf
  <2>1. DOMAIN s = 1..Len(s) /\ \A i \in 1..Len(s) : s[i] \in Pbuf
    OBVIOUS
  <2> QED
    BY <2>1 DEF Range, Within
<1>4. TypeOK'
  BY <1>2, <1>3 DEF PolledInv, TypeOK, PbufOrNull
<1>5. Begun'
  BY <1>2 DEF Begun
<1> DEFINE t == <<>>
<1>6. Len(t) = 0 /\ Within(t) = {} /\ t \in Seq(Pbuf)
  BY DEF Within
<1> HIDE DEF t
<1>7. Shape(t)'
  BY <1>2, <1>6 DEF Shape, Path, At, Distinct, Within
<1>8. Owned(t)'
  BY <1>1, <1>2, <1>3, <1>6 DEF Held, Owned, Leaving, Within
<1>9. Counts(t)' /\ Loop(t)' /\ Order(t)' /\ Window(t)'
  BY <1>2, <1>6 DEF Counts, Loop, Order, Window
<1> QED
  BY <1>4, <1>5, <1>6, <1>7, <1>8, <1>9, PolledNext DEF Held

LEMMA PollLoadPolled ==
  ASSUME PolledInv, PollLoad PROVE PolledInv'
<1>1. PICK s \in Seq(Pbuf) : s = Chain(p) /\ Held(s)
  BY PolledChain
<1>2. /\ pc = "load" /\ pc' = "store" /\ nxt' = next[ptr]
      /\ UNCHANGED <<state, sent_cb, rcvd, p, sndbuf, rcv_wnd, next, ref, seg, ptr,
                     consumed, aborted>>
  BY DEF PollLoad, conn, tcp, pbufs, history
<1>3. TypeOK /\ Begun
  BY DEF PolledInv
<1>4. p # Null /\ ptr = p /\ state \in {"ES_RECEIVED", "ES_CLOSING"}
  BY <1>1, <1>2 DEF Held, Loop
<1>5. nxt' \in PbufOrNull
  BY <1>2, <1>3, <1>4 DEF TypeOK, PbufOrNull
<1>6. TypeOK'
  BY <1>2, <1>3, <1>5 DEF TypeOK
<1>7. Begun'
  BY <1>2, <1>3 DEF Begun
<1>8. Shape(s)' /\ Owned(s)' /\ Counts(s)'
  BY <1>1, <1>2, SamePbufs DEF Held
<1>9. Loop(s)'
  BY <1>2, <1>4 DEF Loop
<1>10. Order(s)' /\ Window(s)'
  <2>1. Left' = Left
    BY <1>2 DEF Left
  <2> QED
    BY <1>1, <1>2, <2>1 DEF Held, Order, Window
<1> QED
  BY <1>6, <1>7, <1>8, <1>9, <1>10, PolledNext DEF Held

(* The chain without its first k pbufs. *)
LEMMA RestWithin ==
  ASSUME NEW s \in Seq(Pbuf), Distinct(s), NEW k \in 0..Len(s), NEW x
  PROVE  x \in Within(Rest(s, k + 1)) <=> x \in Within(s) /\ ~(\E i \in 1..k : x = s[i])
<1> DEFINE t == Rest(s, k + 1)
           n == Len(s)
<1>1. n \in Nat /\ k \in 0..n /\ k + 1 \in 1..n + 1
  OBVIOUS
<1>2. Len(t) = n + 1 - (k + 1) /\ \A j \in 1..n + 1 - (k + 1) : t[j] = s[k + 1 + j - 1]
  BY <1>1, RestType
<1> HIDE DEF t
<1>3. Len(t) = n - k /\ \A j \in 1..n - k : t[j] = s[k + j]
  <2>1. n + 1 - (k + 1) = n - k /\ \A j \in 1..n - k : k + 1 + j - 1 = k + j
    BY <1>1
  <2> QED
    BY <1>2, <2>1
<1>4. ASSUME x \in Within(t) PROVE x \in Within(s) /\ ~(\E i \in 1..k : x = s[i])
  <2>1. PICK j \in 1..n - k : x = s[k + j]
    BY <1>3, <1>4 DEF Within
  <2>2. k + j \in 1..n
    BY <1>1
  <2>3. ASSUME NEW i \in 1..k PROVE s[i] # s[k + j]
    <3>1. i \in 1..n /\ i # k + j
      BY <1>1
    <3> QED
      BY <2>2, <3>1 DEF Distinct
  <2> QED
    BY <2>1, <2>2, <2>3 DEF Within
<1>5. ASSUME x \in Within(s), ~(\E i \in 1..k : x = s[i]) PROVE x \in Within(t)
  <2>1. PICK i \in 1..n : x = s[i]
    BY <1>5 DEF Within
  <2>2. i \notin 1..k
    BY <1>5, <2>1
  <2> DEFINE j == i - k
  <2>3. j \in 1..n - k /\ k + j = i
    BY <1>1, <2>2
  <2> HIDE DEF j, n
  <2>4. j \in 1..Len(t) /\ t[j] = x
    BY <1>3, <2>1, <2>3
  <2> QED
    BY <2>4 DEF Within
<1> QED
  BY <1>4, <1>5 DEF t

LEMMA RestShape ==
  ASSUME TypeOK, NEW s \in Seq(Pbuf), Shape(s), NEW k \in 0..Len(s),
         p' = At(s, k + 1), UNCHANGED <<next, aborted>>
  PROVE  Shape(Rest(s, k + 1))'
<1>1. k + 1 \in 1..Len(s) + 1 /\ next \in [Pbuf -> PbufOrNull]
  BY DEF TypeOK
<1>2. PICK t : t = Rest(s, k + 1)
  OBVIOUS
<1>3. Path(next, t, At(s, k + 1)) /\ Distinct(t)
  BY <1>1, <1>2, RestPath DEF Shape
<1>4. Within(t) \intersect aborted = {}
  BY <1>2, RestWithin DEF Shape
<1>5. Shape(t)'
  BY <1>3, <1>4 DEF Shape, Path
<1>6. Rest(s, k + 1)' = t
  BY <1>2 DEF Rest
<1> QED
  BY <1>2, <1>5

LEMMA RestOrder ==
  ASSUME NEW s \in Seq(Pbuf), Order(s), state # "ES_NONE", NEW k \in 0..Len(s),
         Left \in Int, Left' = Left + k, UNCHANGED <<seg, rcvd>>,
         \A i \in 1..Len(consumed') : consumed'[i][1] = i
  PROVE  Order(Rest(s, k + 1))'
<1> DEFINE n == Len(s)
<1>1. n \in Nat /\ k \in 0..n /\ k + 1 \in 1..n + 1
  OBVIOUS
<1>2. PICK t : t = Rest(s, k + 1)
  OBVIOUS
<1>3. Len(t) = n + 1 - (k + 1) /\ \A j \in 1..n + 1 - (k + 1) : t[j] = s[k + 1 + j - 1]
  BY <1>1, <1>2, RestType
<1>4. Left + n = rcvd /\ \A i \in 1..n : seg[s[i]] = Left + i
  BY DEF Order
<1>5. Left' + Len(t) = rcvd'
  BY <1>1, <1>3, <1>4
<1>6. ASSUME NEW j \in 1..Len(t) PROVE seg'[t[j]] = Left' + j
  <2>1. j \in 1..n + 1 - (k + 1) /\ k + j \in 1..n /\ k + 1 + j - 1 = k + j
    BY <1>1, <1>3
  <2>2. t[j] = s[k + j]
    BY <1>3, <2>1
  <2>3. seg[s[k + j]] = Left + (k + j)
    BY <1>4, <2>1
  <2> QED
    BY <1>1, <2>1, <2>2, <2>3
<1>7. Order(t)'
  BY <1>5, <1>6 DEF Order
<1> QED
  BY <1>2, <1>7

(* What is consumed is the next in order. *)
Consumes(s, k, how) ==
  /\ TypeOK /\ s = Chain(p) /\ Order(s)
  /\ state # "ES_NONE" /\ pc \notin {"load", "store"}
  /\ Consume(p, k, how)

LEMMA ConsumeOrder ==
  ASSUME NEW s \in Seq(Pbuf), NEW k \in 0..Len(s), NEW how \in Kind, Consumes(s, k, how)
  PROVE  /\ consumed' \in Seq((1..MaxSegs) \X {"echo", "ring"})
         /\ Len(consumed) \in Nat /\ Len(consumed') = Len(consumed) + k
         /\ \A i \in 1..Len(consumed') : consumed'[i][1] = i
<1> DEFINE V == (1..MaxSegs) \X {"echo", "ring"}
           m == Len(consumed)
           r == Log(consumed, s, seg, k, how)
<1>1. /\ consumed \in Seq(V) /\ consumed \in Seq(Nat \X Kind) /\ m \in Nat
      /\ MaxSegs \in Nat /\ rcvd \in 0..MaxSegs /\ seg \in [Pbuf -> Nat]
  <2>1. consumed \in Seq(V) /\ MaxSegs \in Nat /\ rcvd \in 0..MaxSegs
        /\ seg \in [Pbuf -> 0..MaxSegs]
    BY EchoConnAssumption DEF Consumes, TypeOK
  <2>2. V \subseteq Nat \X Kind
    BY <2>1 DEF Kind
  <2> HIDE DEF V
  <2> QED
    BY <2>1, <2>2, SeqMonotonic
<1>2. consumed' = r
  BY DEF Consumes, Consume, Log
<1>3. /\ r \in Seq(Nat \X Kind) /\ Len(r) = m + k
      /\ \A i \in 1..m : r[i] = consumed[i]
      /\ \A i \in 1..k : r[m + i] = <<seg[s[i]], how>>
  <2>1. consumed \in Seq(Nat \X Kind) /\ seg \in [Pbuf -> Nat]
    BY <1>1
  <2> HIDE DEF V
  <2>2. how \in Kind
    BY DEF Kind
  <2>3. IsLog(r, consumed, s, seg, k, how)
    BY <2>1, <2>2, Logged
  <2> HIDE DEF r
  <2> QED
    BY <2>3 DEF IsLog
<1>4. Len(s) \in Nat /\ k \in Nat /\ k <= Len(s)
  OBVIOUS
<1>5. /\ m + Len(s) = rcvd /\ \A i \in 1..Len(s) : seg[s[i]] = m + i
      /\ \A i \in 1..m : consumed[i][1] = i
  <2>1. Left = m
    BY <1>1 DEF Consumes, Left
  <2> QED
    BY <2>1 DEF Consumes, Order
<1> HIDE DEF r, m
<1>6. ASSUME NEW i \in 1..m + k PROVE r[i] \in V /\ r[i][1] = i
  <2>1. CASE i <= m
    <3>1. i \in 1..m
      BY <1>1, <1>4, <2>1
    <3>2. consumed[i] \in V
      <4> HIDE DEF V
      <4> QED
        BY <1>1, <3>1 DEF m
    <3> QED
      BY <1>3, <1>5, <3>1, <3>2
  <2>2. CASE ~(i <= m)
    <3> DEFINE j == i - m
    <3>1. j \in 1..k /\ j \in 1..Len(s) /\ i = m + j /\ m + j \in 1..MaxSegs
      BY <1>1, <1>4, <1>5, <2>2
    <3> HIDE DEF j
    <3>2. r[i] = <<m + j, how>>
      BY <1>3, <1>5, <3>1
    <3> QED
      BY <3>1, <3>2 DEF Kind
  <2> QED
    BY <2>1, <2>2
<1> HIDE DEF V
<1>7. r \in Seq(V)
  <2>1. m + k \in Nat /\ r = [i \in 1..m + k |-> r[i]]
    BY <1>1, <1>3, <1>4
  <2>2. r \in [1..m + k -> V]
    BY <1>6, <2>1
  <2> QED
    BY <2>1, <2>2
<1> QED
  BY <1>1, <1>2, <1>3, <1>6, <1>7 DEF V, m

(* The first pbuf is written back, and is still the first. *)
LEMMA PollWritePolled ==
  ASSUME PolledInv, PollCheck, pc' = "load", p # Null, sndbuf > 0, sndbuf' = sndbuf - 1,
         ptr' = p, Consume(p, 1, "echo")
  PROVE  PolledInv'
<1>1. PICK s \in Seq(Pbuf) : s = Chain(p) /\ Held(s)
  BY PolledChain
<1>2. /\ pc = "check" /\ state # "ES_NONE"
      /\ UNCHANGED <<state, sent_cb, rcvd, next, ref, seg, p, aborted, nxt, rcv_wnd>>
  BY DEF PollCheck, conn, pbufs, EsFreed
<1>3. TypeOK /\ Begun
  BY DEF PolledInv
<1>4. Len(s) \in Nat /\ Len(s) > 0 /\ 1 \in 0..Len(s)
  BY <1>1, EmptyChain DEF Held
<1>5. /\ consumed' \in Seq((1..MaxSegs) \X {"echo", "ring"})
      /\ Len(consumed) \in Nat /\ Len(consumed') = Len(consumed) + 1
      /\ \A i \in 1..Len(consumed') : consumed'[i][1] = i
  <2>1. "echo" \in Kind /\ pc \notin {"load", "store"} /\ Order(s)
    BY <1>1, <1>2 DEF Kind, Held
  <2> QED
    BY <1>1, <1>2, <1>3, <1>4, <2>1, ConsumeOrder DEF Consumes
<1>6. TypeOK'
  <2>1. sndbuf' \in 0..SndBuf
    BY <1>3, EchoConnAssumption DEF TypeOK
  <2> QED
    BY <1>2, <1>3, <1>5, <2>1 DEF TypeOK
<1>7. state \in {"ES_RECEIVED", "ES_CLOSING"}
  BY <1>1, <1>2 DEF Held, Loop
<1>8. Begun'
  BY <1>2, <1>7 DEF Begun
<1>9. Shape(s)' /\ Owned(s)' /\ Counts(s)'
  BY <1>1, <1>2, SamePbufs DEF Held
<1>10. Loop(s)'
  BY <1>2, <1>7 DEF Loop
<1>11. Order(s)' /\ Window(s)'
  <2>1. Left' = Left
    BY <1>2, <1>5 DEF Left
  <2> QED
    BY <1>1, <1>2, <1>5, <2>1 DEF Held, Order, Window
<1> QED
  BY <1>6, <1>8, <1>9, <1>10, <1>11, PolledNext DEF Held

(* es->p moves past the pbuf written back, and takes a third reference of the *)
(* next.                                                                    *)
LEMMA PollStorePolled ==
  ASSUME PolledInv, PollStore PROVE PolledInv'
<1>1. PICK s \in Seq(Pbuf) : s = Chain(p) /\ Held(s)
  BY PolledChain
<1>2. /\ pc = "store" /\ pc' = "free" /\ p' = nxt /\ state # "ES_NONE"
      /\ ref' = IF nxt = Null THEN ref ELSE [ref EXCEPT ![nxt] = @ + 1]
      /\ UNCHANGED <<state, sent_cb, rcvd, sndbuf, rcv_wnd, next, seg, ptr, nxt,
                     consumed, aborted>>
  BY DEF PollStore, conn, tcp, history, EsFreed
<1>3. TypeOK /\ Begun
  BY DEF PolledInv
<1>4. Shape(s) /\ Owned(s) /\ Counts(s) /\ Order(s) /\ Window(s)
  BY <1>1 DEF Held
<1>5. p # Null /\ ptr = p /\ nxt = next[p] /\ state \in {"ES_RECEIVED", "ES_CLOSING"}
  BY <1>1, <1>2 DEF Held, Loop
<1>6. Len(s) \in Nat /\ 1 \in 0..Len(s) /\ 1 \in 1..Len(s) /\ s[1] = p /\ p \in Pbuf
  <2>1. Len(s) \in Nat /\ Len(s) > 0 /\ s[1] = p /\ 1 \in 1..Len(s)
    BY <1>4, <1>5, EmptyChain
  <2>2. p \in Pbuf
    BY <1>3, <1>5 DEF TypeOK, PbufOrNull
  <2> QED
    BY <2>1, <2>2
<1>7. nxt = At(s, 2)
  BY <1>4, <1>5, <1>6 DEF Shape, Path
<1>8. ref \in [Pbuf -> 0..3] /\ next \in [Pbuf -> PbufOrNull]
  BY <1>3 DEF TypeOK
<1>9. /\ ref' \in [Pbuf -> 0..3]
      /\ \A x \in Pbuf : x # nxt => ref'[x] = ref[x]
      /\ nxt # Null => 2 \in 1..Len(s) /\ nxt = s[2] /\ nxt \in Pbuf
                       /\ ref[nxt] = 2 /\ ref'[nxt] = 3
  <2>1. CASE nxt = Null
    BY <1>2, <1>8, <2>1
  <2>2. CASE nxt # Null
    <3>1. 2 \in 1..Len(s) /\ nxt = s[2]
      BY <1>6, <1>7, <2>2 DEF At
    <3>2. nxt \in Pbuf
      BY <3>1
    <3>3. ref[nxt] = 2
      BY <1>4, <3>1 DEF Counts
    <3>4. ref' = [ref EXCEPT ![nxt] = ref[nxt] + 1]
      BY <1>2, <2>2
    <3>5. 3 \in 0..3 /\ ref' = [ref EXCEPT ![nxt] = 3]
      BY <3>3, <3>4
    <3> QED
      BY <1>8, <3>1, <3>2, <3>3, <3>5
  <2> QED
    BY <2>1, <2>2
<1>10. TypeOK'
  BY <1>2, <1>3, <1>9 DEF TypeOK
<1>11. Begun'
  BY <1>2, <1>5 DEF Begun
<1>12. PICK t : t = Rest(s, 2)
  OBVIOUS
<1>13. /\ t \in Seq(Pbuf) /\ Len(t) = Len(s) - 1
       /\ \A j \in 1..Len(s) - 1 : t[j] = s[j + 1]
  <2>1. 2 \in 1..Len(s) + 1
    BY <1>6
  <2>2. /\ t \in Seq(Pbuf) /\ Len(t) = Len(s) + 1 - 2
        /\ \A j \in 1..Len(s) + 1 - 2 : t[j] = s[2 + j - 1]
    BY <1>12, <2>1, RestType
  <2>3. Len(s) + 1 - 2 = Len(s) - 1 /\ \A j \in 1..Len(s) - 1 : 2 + j - 1 = j + 1
    BY <1>6
  <2> QED
    BY <2>2, <2>3
<1>14. \A x : x \in Within(t) <=> x \in Within(s) /\ x # p
  <2>1. t = Rest(s, 1 + 1)
    BY <1>12
  <2>2. \A x : x \in Within(t) <=> x \in Within(s) /\ ~(\E i \in 1..1 : x = s[i])
    BY <1>4, <1>6, <2>1, RestWithin DEF Shape
  <2> QED
    BY <1>6, <2>2
<1>15. p \in Within(s) /\ p \notin aborted
  BY <1>4, <1>6 DEF Shape, Within
<1>16. Shape(t)'
  <2>1. p' = At(s, 1 + 1) /\ t = Rest(s, 1 + 1)
    BY <1>2, <1>7, <1>12
  <2>2. Shape(Rest(s, 1 + 1))'
    BY <1>2, <1>3, <1>4, <1>6, <2>1, RestShape
  <2>3. Rest(s, 1 + 1)' = t
    BY <2>1 DEF Rest
  <2> QED
    BY <2>2, <2>3 DEF Rest
<1>17. Owned(t)'
  <2> SUFFICES ASSUME NEW x \in Pbuf
               PROVE  ref'[x] > 0 <=> x \in Within(t) \union aborted' \union Leaving'
    BY DEF Owned, Within
  <2>1. Leaving' = {p} /\ Leaving = {}
    BY <1>2, <1>5 DEF Leaving
  <2>2. ref'[x] > 0 <=> ref[x] > 0
    <3>1. CASE x = nxt
      <4>1. nxt # Null
        BY <3>1, Pool
      <4>2. ref[x] = 2 /\ ref'[x] = 3
        BY <1>9, <3>1, <4>1
      <4> QED
        BY <4>2
    <3>2. CASE x # nxt
      BY <1>9, <3>2
    <3> QED
      BY <3>1, <3>2
  <2>3. ref[x] > 0 <=> x \in Within(s) \union aborted
    BY <1>4, <2>1 DEF Owned
  <2> QED
    BY <1>2, <1>14, <1>15, <2>1, <2>2, <2>3
<1>18. Counts(t)'
  <2> SUFFICES ASSUME NEW i \in 1..Len(t)
               PROVE  ref'[t[i]] \in IF i > 1 THEN {2} ELSE {3}
    BY <1>2 DEF Counts
  <2>1. i \in 1..Len(s) - 1 /\ i + 1 \in 1..Len(s) /\ t[i] = s[i + 1] /\ t[i] \in Pbuf
    BY <1>6, <1>13
  <2>2. CASE i = 1
    <3>1. nxt = t[i] /\ nxt # Null
      BY <1>6, <1>7, <2>1, <2>2, Pool DEF At
    <3> QED
      BY <1>9, <2>2, <3>1
  <2>3. CASE i # 1
    <3>1. i > 1 /\ i + 1 > 1 /\ i + 1 # 2
      BY <2>1, <2>3
    <3>2. t[i] # nxt
      <4>1. nxt # Null => 2 \in 1..Len(s) /\ nxt = s[2]
        BY <1>9
      <4> QED
        BY <1>4, <2>1, <3>1, <4>1, Pool DEF Shape, Distinct
    <3>3. ref[s[i + 1]] = 2
      BY <1>4, <2>1, <3>1 DEF Counts
    <3> QED
      BY <1>9, <2>1, <3>1, <3>2, <3>3
  <2> QED
    BY <2>2, <2>3
<1>19. Loop(t)'
  <2>1. p \notin Within(t) /\ next[p] = nxt
    BY <1>5, <1>14
  <2> QED
    BY <1>2, <1>5, <1>6, <1>15, <2>1 DEF Loop, Within
<1>20. Order(t)'
  <2>1. Len(consumed) \in Nat /\ Len(consumed') = Len(consumed)
    BY <1>2, <1>3 DEF TypeOK
  <2>2. Left = Len(consumed) - 1 /\ Left' = Len(consumed')
    BY <1>2, <2>1 DEF Left
  <2>3. Left \in Int /\ Left' = Left + 1
    BY <2>1, <2>2
  <2>4. \A i \in 1..Len(consumed') : consumed'[i][1] = i
    BY <1>2, <1>4 DEF Order
  <2>5. Order(Rest(s, 1 + 1))'
    BY <1>2, <1>4, <1>6, <2>3, <2>4, RestOrder
  <2>6. Rest(s, 1 + 1)' = t
    BY <1>12 DEF Rest
  <2> QED
    BY <2>5, <2>6 DEF Rest
<1>21. Window(t)'
  <2>1. rcv_wnd = Wnd - Len(s)
    BY <1>2, <1>4, <1>6, EchoConnAssumption DEF Window
  <2> QED
    BY <1>2, <1>6, <1>13, <2>1, EchoConnAssumption DEF Window
<1> QED
  BY <1>10, <1>11, <1>13, <1>16, <1>17, <1>18, <1>19, <1>20, <1>21, PolledNext DEF Held

(* It is freed, and the next is back at two references. *)
LEMMA PollFreePolled ==
  ASSUME PolledInv, PollFree PROVE PolledInv'
<1>1. PICK s \in Seq(Pbuf) : s = Chain(p) /\ Held(s)
  BY PolledChain
<1>2. /\ pc = "free" /\ pc' = "check" /\ ref' = TryHard(ptr, ref) /\ rcv_wnd' = rcv_wnd + 1
      /\ UNCHANGED <<state, sent_cb, rcvd, p, sndbuf, next, seg, ptr, nxt, consumed, aborted>>
  BY DEF PollFree, conn, history
<1>3. TypeOK /\ Begun
  BY DEF PolledInv
<1>4. Shape(s) /\ Owned(s) /\ Counts(s) /\ Order(s) /\ Window(s)
  BY <1>1 DEF Held
<1>5. /\ ptr \in Pbuf /\ next[ptr] = p /\ ptr \notin Within(s) /\ ptr \notin aborted
      /\ state \in {"ES_RECEIVED", "ES_CLOSING"}
  BY <1>1, <1>2 DEF Held, Loop
<1>6. ref \in [Pbuf -> 0..3] /\ ref \in [Pbuf -> Nat] /\ next \in [Pbuf -> PbufOrNull]
  <2>1. ref \in [Pbuf -> 0..3] /\ next \in [Pbuf -> PbufOrNull]
    BY <1>3 DEF TypeOK
  <2>2. 0..3 \subseteq Nat
    OBVIOUS
  <2> QED
    BY <2>1, <2>2
<1> DEFINE c == <<ptr>> \o s
           n == Len(s)
<1>7. /\ n \in Nat /\ c \in Seq(Pbuf) /\ Len(c) = n + 1 /\ c[1] = ptr
      /\ \A i \in 1..n : c[i + 1] = s[i]
  BY <1>5
<1>8. \A i \in 1..n : s[i] \in Pbuf /\ s[i] # ptr /\ s[i] \in Within(s)
  BY <1>5 DEF Within
<1> HIDE DEF c
<1>9. ASSUME NEW i \in 1..Len(c), i # 1
      PROVE  i - 1 \in 1..n /\ c[i] = s[i - 1]
  <2> DEFINE j == i - 1
  <2>1. j \in 1..n /\ j + 1 = i
    BY <1>7, <1>9
  <2> HIDE DEF j
  <2>2. c[i] = s[j]
    BY <1>7, <2>1
  <2> QED
    BY <2>1, <2>2 DEF j
<1>10. Distinct(c)
  <2> SUFFICES ASSUME NEW i \in 1..Len(c), NEW j \in 1..Len(c), c[i] = c[j] PROVE i = j
    BY DEF Distinct
  <2>1. CASE i = 1 \/ j = 1
    BY <1>7, <1>8, <1>9, <2>1
  <2>2. CASE i # 1 /\ j # 1
    <3>1. i - 1 \in 1..n /\ j - 1 \in 1..n /\ s[i - 1] = s[j - 1]
      BY <1>9, <2>2
    <3>2. i - 1 = j - 1
      BY <1>4, <3>1 DEF Shape, Distinct
    <3> QED
      BY <3>2
  <2> QED
    BY <2>1, <2>2
<1>11. Path(next, c, ptr)
  <2>1. ptr = At(c, 1)
    BY <1>7 DEF At
  <2>2. ASSUME NEW i \in 1..Len(c) PROVE next[c[i]] = At(c, i + 1)
    <3>1. At(c, i + 1) = At(s, i)
      <4>1. CASE i <= n
        <5>1. i \in 1..n /\ i + 1 <= Len(c)
          BY <1>7, <4>1
        <5> QED
          BY <1>7, <4>1, <5>1 DEF At
      <4>2. CASE ~(i <= n)
        <5>1. ~(i + 1 <= Len(c))
          BY <1>7, <4>2
        <5> QED
          BY <4>2, <5>1 DEF At
      <4> QED
        BY <4>1, <4>2
    <3>2. CASE i = 1
      <4>1. p = At(s, 1)
        BY <1>4 DEF Shape, Path
      <4> QED
        BY <1>5, <1>7, <3>1, <3>2, <4>1
    <3>3. CASE i # 1
      <4> DEFINE j == i - 1
      <4>1. j \in 1..n /\ c[i] = s[j] /\ j + 1 = i
        BY <1>9, <3>3
      <4> HIDE DEF j
      <4>2. next[s[j]] = At(s, j + 1)
        BY <1>4, <4>1 DEF Shape, Path
      <4> QED
        BY <3>1, <4>1, <4>2
    <3> QED
      BY <3>2, <3>3
  <2> QED
    BY <2>1, <2>2 DEF Path
<1>12. Chain(ptr) = c
  BY <1>6, <1>7, <1>10, <1>11, PathChain, ChainIsChainOf
<1>13. Len(c) > 1 => 1 \in 1..n /\ c[2] = s[1] /\ ref[s[1]] = 3 /\ c[2] = p
  <2> SUFFICES ASSUME Len(c) > 1 PROVE 1 \in 1..n /\ c[2] = s[1] /\ ref[s[1]] = 3 /\ c[2] = p
    OBVIOUS
  <2>1. 1 \in 1..n /\ 1 + 1 = 2 /\ 1 <= n
    BY <1>7
  <2>2. c[2] = s[1]
    BY <1>7, <2>1
  <2>3. ref[s[1]] = 3 /\ p = s[1]
    BY <1>2, <1>4, <2>1 DEF Counts, Shape, Path, At
  <2> QED
    BY <2>1, <2>2, <2>3
<1>14. ref' = Dropped(ptr, c, ref)
  <2>1. Len(c) > 1 => ref[c[2]] \in 2..3
    BY <1>13
  <2>2. Len(c) > 0
    BY <1>7
  <2> QED
    BY <1>2, <1>5, <1>6, <1>7, <1>10, <1>12, <2>1, <2>2, TryFirst
<1>15. /\ ref' \in [Pbuf -> 0..3] /\ ref'[ptr] = 0
       /\ \A x \in Pbuf : x # ptr => ref'[x] = IF Len(c) > 1 /\ x = c[2] THEN 2 ELSE ref[x]
  <2>1. \A x \in Pbuf : ref'[x] = IF x = ptr THEN 0
                          ELSE IF Len(c) > 1 /\ x = c[2] THEN ref[x] - 1 ELSE ref[x]
    BY <1>14 DEF Dropped
  <2>2. \A x \in Pbuf : Len(c) > 1 /\ x = c[2] => ref[x] - 1 = 2
    BY <1>13
  <2>3. \A x \in Pbuf : ref'[x] = IF x = ptr THEN 0
                          ELSE IF Len(c) > 1 /\ x = c[2] THEN 2 ELSE ref[x]
    BY <2>1, <2>2
  <2>4. \A x \in Pbuf : ref'[x] \in 0..3
    BY <1>6, <2>3
  <2>5. ref' = [x \in Pbuf |-> ref'[x]]
    BY <1>14 DEF Dropped
  <2>6. ref' \in [Pbuf -> 0..3]
    BY <2>4, <2>5
  <2> QED
    BY <1>5, <2>3, <2>6
<1>16. rcv_wnd = Wnd - n - 1 /\ rcv_wnd' = Wnd - n /\ rcv_wnd' \in 0..Wnd
  <2>1. rcv_wnd = Wnd - n - 1 /\ rcv_wnd \in 0..Wnd /\ Wnd \in Nat
    BY <1>2, <1>3, <1>4, <1>5, EchoConnAssumption DEF Window, TypeOK
  <2> QED
    BY <1>2, <1>7, <2>1
<1>17. TypeOK'
  BY <1>2, <1>3, <1>15, <1>16 DEF TypeOK
<1>18. Begun'
  BY <1>2, <1>5 DEF Begun
<1>19. Shape(s)'
  BY <1>2, <1>4 DEF Shape, Path
<1>20. Owned(s)'
  <2> SUFFICES ASSUME NEW x \in Pbuf
               PROVE  ref'[x] > 0 <=> x \in Within(s) \union aborted' \union Leaving'
    BY DEF Owned, Within
  <2>1. Leaving = {ptr} /\ Leaving' = {}
    BY <1>2 DEF Leaving
  <2>2. CASE x = ptr
    BY <1>2, <1>5, <1>15, <2>1, <2>2
  <2>3. CASE x # ptr
    <3>1. ref[x] > 0 <=> x \in Within(s) \union aborted
      BY <1>4, <2>1, <2>3 DEF Owned
    <3>2. ref'[x] > 0 <=> ref[x] > 0
      BY <1>6, <1>13, <1>15, <2>3
    <3> QED
      BY <1>2, <2>1, <3>1, <3>2
  <2> QED
    BY <2>2, <2>3
<1>21. Counts(s)'
  <2> SUFFICES ASSUME NEW i \in 1..Len(s)
               PROVE  ref'[s[i]] \in IF i > 1 THEN {2} ELSE {1, 2}
    BY <1>2 DEF Counts
  <2>1. s[i] \in Pbuf /\ s[i] # ptr
    BY <1>8
  <2>2. CASE i = 1
    <3>1. Len(c) > 1
      BY <1>7, <2>2
    <3>2. c[2] = s[i]
      BY <1>13, <2>2, <3>1
    <3> QED
      BY <1>15, <2>1, <2>2, <3>1, <3>2
  <2>3. CASE i # 1
    <3>1. i > 1 /\ ref[s[i]] = 2
      BY <1>4, <2>3 DEF Counts
    <3> QED
      BY <1>15, <2>1, <3>1
  <2> QED
    BY <2>2, <2>3
<1>22. Loop(s)'
  BY <1>2, <1>5 DEF Loop
<1>23. Order(s)'
  <2>1. Left' = Left
    BY <1>2 DEF Left
  <2> QED
    BY <1>2, <1>4, <2>1 DEF Order
<1>24. Window(s)'
  BY <1>2, <1>7, <1>16, EchoConnAssumption DEF Window
<1> QED
  BY <1>17, <1>18, <1>19, <1>20, <1>21, <1>22, <1>23, <1>24, PolledNext DEF Held

(* Another number of segments is acknowledged: the first k pbufs leave. *)
LEMMA SendPolled ==
  ASSUME PolledInv, NEW k \in Nat, k <= Len(Chain(p)), NEW how \in Kind,
         pc = "idle", state # "ES_NONE", p # Null, Consume(p, k, how),
         ref' = ChopMany(p, k), rcv_wnd' = rcv_wnd + k, p' = AfterFirst(p, k),
         sndbuf' \in 0..SndBuf,
         UNCHANGED <<state, sent_cb, rcvd, next, seg, pc, ptr, nxt, aborted>>
  PROVE  PolledInv'
<1>1. PICK s \in Seq(Pbuf) : s = Chain(p) /\ Held(s)
  BY PolledChain
<1> DEFINE n == Len(s)
<1>2. TypeOK /\ Begun
  BY DEF PolledInv
<1>3. Shape(s) /\ Owned(s) /\ Counts(s) /\ Order(s) /\ Window(s)
  BY <1>1 DEF Held
<1>4. n \in Nat /\ k \in 0..n
  BY <1>1
<1>5. ref \in [Pbuf -> 0..3] /\ ref \in [Pbuf -> Nat] /\ next \in [Pbuf -> PbufOrNull]
  <2>1. ref \in [Pbuf -> 0..3] /\ next \in [Pbuf -> PbufOrNull]
    BY <1>2 DEF TypeOK
  <2>2. 0..3 \subseteq Nat
    OBVIOUS
  <2> QED
    BY <2>1, <2>2
<1>6. p' = At(s, k + 1)
  <2>1. AfterFirst(p, k) = IF k < n THEN s[k + 1] ELSE Null
    BY <1>1 DEF AfterFirst
  <2>2. k < n <=> k + 1 <= n
    BY <1>4
  <2> QED
    BY <2>1, <2>2 DEF At
<1>7. ref' = Freed(s, k)
  <2>1. \A i \in 1..n : i > 1 => ref[s[i]] = 2
    BY <1>3 DEF Counts
  <2> QED
    BY <1>3, <1>4, <1>5, <2>1, ChopFirst DEF Shape
<1>8. /\ consumed' \in Seq((1..MaxSegs) \X {"echo", "ring"})
      /\ Len(consumed) \in Nat /\ Len(consumed') = Len(consumed) + k
      /\ \A i \in 1..Len(consumed') : consumed'[i][1] = i
  <2>1. Consumes(s, k, how)
    BY <1>1, <1>2, <1>3 DEF Consumes
  <2> QED
    BY <1>4, <2>1, ConsumeOrder
<1>9. /\ ref' \in [Pbuf -> 0..3]
      /\ \A x \in Pbuf : ref'[x] = IF \E i \in 1..k : x = s[i] THEN 0 ELSE ref[x]
  BY <1>5, <1>7 DEF Freed
<1>10. rcv_wnd = Wnd - n /\ rcv_wnd' = Wnd - (n - k) /\ rcv_wnd' \in 0..Wnd
  <2>1. rcv_wnd = Wnd - n /\ rcv_wnd \in 0..Wnd /\ Wnd \in Nat
    BY <1>2, <1>3, <1>4, EchoConnAssumption DEF Window, TypeOK
  <2> QED
    BY <1>4, <2>1
<1>11. p' \in PbufOrNull
  <2>1. k + 1 <= n => k + 1 \in 1..n
    BY <1>4
  <2> QED
    BY <1>6, <2>1 DEF At, PbufOrNull
<1>12. TypeOK'
  BY <1>2, <1>8, <1>9, <1>10, <1>11 DEF TypeOK
<1>13. Begun'
  BY <1>2 DEF Begun
<1>14. PICK t : t = Rest(s, k + 1)
  OBVIOUS
<1>15. /\ t \in Seq(Pbuf) /\ Len(t) = n - k
       /\ \A j \in 1..n - k : t[j] = s[k + j]
  <2>1. k + 1 \in 1..n + 1
    BY <1>4
  <2>2. /\ t \in Seq(Pbuf) /\ Len(t) = n + 1 - (k + 1)
        /\ \A j \in 1..n + 1 - (k + 1) : t[j] = s[k + 1 + j - 1]
    BY <1>14, <2>1, RestType
  <2>3. n + 1 - (k + 1) = n - k /\ \A j \in 1..n - k : k + 1 + j - 1 = k + j
    BY <1>4
  <2> QED
    BY <2>2, <2>3
<1>16. \A x : x \in Within(t) <=> x \in Within(s) /\ ~(\E i \in 1..k : x = s[i])
  BY <1>3, <1>4, <1>14, RestWithin DEF Shape
<1>17. Rest(s, k + 1)' = t
  BY <1>14 DEF Rest
<1>18. Shape(t)'
  <2>1. Shape(Rest(s, k + 1))'
    BY <1>2, <1>3, <1>4, <1>6, RestShape
  <2> QED
    BY <1>17, <2>1 DEF Rest
<1>19. Owned(t)'
  <2> SUFFICES ASSUME NEW x \in Pbuf
               PROVE  ref'[x] > 0 <=> x \in Within(t) \union aborted' \union Leaving'
    BY DEF Owned, Within
  <2>1. Leaving = {} /\ Leaving' = {}
    BY DEF Leaving
  <2>2. ref[x] > 0 <=> x \in Within(s) \union aborted
    BY <1>3, <2>1 DEF Owned
  <2>3. CASE \E i \in 1..k : x = s[i]
    <3>1. PICK i \in 1..k : x = s[i]
      BY <2>3
    <3>2. i \in 1..n
      BY <1>4
    <3>3. x \in Within(s) /\ x \notin aborted
      BY <1>3, <3>1, <3>2 DEF Shape, Within
    <3>4. ref'[x] = 0
      BY <1>9, <2>3
    <3> QED
      BY <1>16, <2>1, <2>3, <3>3, <3>4
  <2>4. CASE ~(\E i \in 1..k : x = s[i])
    <3>1. ref'[x] = ref[x]
      BY <1>9, <2>4
    <3> QED
      BY <1>16, <2>1, <2>2, <2>4, <3>1
  <2> QED
    BY <2>3, <2>4
<1>20. Counts(t)'
  <2> SUFFICES ASSUME NEW j \in 1..Len(t)
               PROVE  ref'[t[j]] \in IF j > 1 THEN {2} ELSE {1, 2}
    BY DEF Counts
  <2> DEFINE i == k + j
  <2>1. j \in 1..n - k /\ i \in 1..n /\ i > k /\ (j > 1 => i > 1) /\ t[j] = s[i]
    BY <1>4, <1>15
  <2> HIDE DEF i
  <2>2. ~(\E l \in 1..k : s[i] = s[l])
    <3> SUFFICES ASSUME NEW l \in 1..k PROVE s[i] # s[l]
      OBVIOUS
    <3>1. l \in 1..n /\ l # i
      BY <1>4, <2>1
    <3> QED
      BY <1>3, <2>1, <3>1 DEF Shape, Distinct
  <2>3. ref'[t[j]] = ref[s[i]]
    <3>1. s[i] \in Pbuf
      BY <2>1
    <3> QED
      BY <1>9, <2>1, <2>2, <3>1
  <2>4. ref[s[i]] \in IF i > 1 THEN {2} ELSE {1, 2}
    BY <1>3, <2>1 DEF Counts
  <2> QED
    BY <2>1, <2>3, <2>4
<1>21. Loop(t)'
  BY DEF Loop
<1>22. Order(t)'
  <2>1. Left = Len(consumed) /\ Left' = Len(consumed')
    BY <1>8 DEF Left
  <2>2. Left \in Int /\ Left' = Left + k
    BY <1>8, <2>1
  <2>3. Order(Rest(s, k + 1))'
    BY <1>3, <1>4, <1>8, <2>2, RestOrder
  <2> QED
    BY <1>17, <2>3 DEF Rest
<1>23. Window(t)'
  BY <1>10, <1>15, EchoConnAssumption DEF Window
<1> QED
  BY <1>12, <1>13, <1>15, <1>18, <1>19, <1>20, <1>21, <1>22, <1>23, PolledNext DEF Held

LEMMA EchoSentPolled ==
  ASSUME ~RxInterrupt, PolledInv, NEW n \in 1..SndBuf, echo_sent(n) PROVE PolledInv'
<1>1. Acked(n)
  BY DEF echo_sent
<1>2. CASE p = Null
  <2>1. NothingMore /\ sndbuf' = sndbuf + n /\ UNCHANGED <<rcv_wnd, ref, consumed>>
    BY <1>2 DEF echo_sent
  <2> QED
    BY <1>1, <1>2, <2>1, AckedPolled
<1>3. CASE p # Null
  <2>1. PICK k \in 0..Len(Chain(p)) :
          LET room == sndbuf + n IN
          /\ k <= room
          /\ k < Len(Chain(p)) /\ k < room => room - k < SndBuf
          /\ sndbuf' = room - k
          /\ Consume(p, k, "echo")
          /\ ref' = ChopMany(p, k)
          /\ rcv_wnd' = rcv_wnd + k
          /\ p' = AfterFirst(p, k)
          /\ UNCHANGED <<state, sent_cb>>
    BY <1>3, Zenon DEF echo_sent
  <2>2. /\ pc = "idle" /\ state # "ES_NONE" /\ sndbuf + n <= SndBuf
        /\ UNCHANGED <<next, seg, aborted, ptr, nxt, pc, rcvd>>
    BY <1>1 DEF Acked, CallbackRuns, poll
  <2>3. k \in Nat /\ k <= Len(Chain(p)) /\ "echo" \in Kind
    <3>1. PICK s \in Seq(Pbuf) : s = Chain(p)
      BY PolledChain
    <3>2. Len(s) \in Nat
      BY <3>1
    <3> QED
      BY <2>1, <3>1, <3>2 DEF Kind
  <2>4. sndbuf' \in 0..SndBuf
    <3>1. sndbuf \in 0..SndBuf /\ SndBuf \in Nat
      BY EchoConnAssumption DEF PolledInv, TypeOK
    <3> QED
      BY <2>1, <2>2, <2>3, <3>1
  <2> QED
    BY <1>3, <2>1, <2>2, <2>3, <2>4, SendPolled
<1> QED
  BY <1>2, <1>3

LEMMA UartSentPolled ==
  ASSUME ~RxInterrupt, PolledInv, NEW n \in 1..SndBuf, TCP_UART_sent(n) PROVE PolledInv'
<1>1. Acked(n) /\ sndbuf' = sndbuf + n
  BY DEF TCP_UART_sent
<1>2. CASE p = Null
  <2>1. NothingMore /\ UNCHANGED <<rcv_wnd, ref, consumed>>
    BY <1>2 DEF TCP_UART_sent
  <2> QED
    BY <1>1, <1>2, <2>1, AckedPolled
<1>3. CASE p # Null
  <2>1. PICK s \in Seq(Pbuf) : s = Chain(p)
    BY PolledChain
  <2>2. PICK k : k = Len(s)
    OBVIOUS
  <2>3. k \in Nat /\ k = Len(Chain(p)) /\ "ring" \in Kind
    BY <2>1, <2>2 DEF Kind
  <2>4. /\ Consume(p, k, "ring") /\ ref' = ChopMany(p, k) /\ rcv_wnd' = rcv_wnd + k
        /\ p' = Null /\ UNCHANGED <<state, sent_cb>>
    BY <1>3, <2>3 DEF TCP_UART_sent
  <2>5. p' = AfterFirst(p, k)
    BY <2>3, <2>4 DEF AfterFirst
  <2>6. /\ pc = "idle" /\ state # "ES_NONE" /\ sndbuf + n <= SndBuf
        /\ UNCHANGED <<next, seg, aborted, ptr, nxt, pc, rcvd>>
    BY <1>1 DEF Acked, CallbackRuns, poll
  <2>7. sndbuf' \in 0..SndBuf
    BY <1>1, <2>6, EchoConnAssumption DEF PolledInv, TypeOK
  <2>8. k <= Len(Chain(p))
    BY <2>3
  <2> QED
    BY <1>3, <2>3, <2>4, <2>5, <2>6, <2>7, <2>8, SendPolled
<1> QED
  BY <1>2, <1>3

LEMMA PollAfterFreePolled ==
  ASSUME PolledInv, PollAfterFree PROVE FALSE
<1>1. PICK s \in Seq(Pbuf) : s = Chain(p) /\ Held(s)
  BY PolledChain
<1> QED
  BY <1>1 DEF Held, Loop, PollAfterFree, EsFreed

(***************************************************************************)
(* The invariant that carries the theorems below.  The code is compiled for *)
(* it when lwIP is polled (ENET_RECEIVE_ALL_INTERRUPT 0).                   *)
(***************************************************************************)
THEOREM Invariance == ~RxInterrupt => (Spec => []PolledInv)
<1> SUFFICES ASSUME ~RxInterrupt PROVE Spec => []PolledInv
  OBVIOUS
<1>1. PolledInv /\ [Next]_vars => PolledInv'
  <2> SUFFICES ASSUME PolledInv, [Next]_vars PROVE PolledInv'
    OBVIOUS
  <2>1. CASE echo_accept
    BY <2>1, AcceptPolled
  <2>2. ASSUME NEW b \in Pbuf, RecvConfig(b) PROVE PolledInv'
    BY <2>2, RecvConfigPolled
  <2>3. ASSUME NEW b \in Pbuf, RecvData(b) PROVE PolledInv'
    BY <2>3, RecvRingPolled, RecvWaitPolled
  <2>4. ASSUME NEW b \in Pbuf, RecvChain(b) PROVE PolledInv'
    BY <2>4, RecvChainPolled
  <2>5. CASE RecvFin
    BY <2>5, RecvFinPolled
  <2>6. ASSUME NEW n \in 1..SndBuf, AckedNoCallback(n) PROVE PolledInv'
    BY <2>6, AckedNoCallbackPolled
  <2>7. ASSUME NEW n \in 1..SndBuf, echo_sent(n) PROVE PolledInv'
    BY <2>7, EchoSentPolled
  <2>8. ASSUME NEW n \in 1..SndBuf, TCP_UART_sent(n) PROVE PolledInv'
    BY <2>8, UartSentPolled
  <2>9. CASE echo_error
    BY <2>9, ErrorPolled
  <2>10. CASE echo_poll
    BY <2>10, PollPolled
  <2>11. CASE PollCheck
    BY <2>11, PollEndPolled, PollWritePolled DEF PollCheck
  <2>12. CASE PollLoad
    BY <2>12, PollLoadPolled
  <2>13. CASE PollStore
    BY <2>13, PollStorePolled
  <2>14. CASE PollFree
    BY <2>14, PollFreePolled
  <2>15. CASE PollAfterFree
    BY <2>15, PollAfterFreePolled
  <2>16. CASE UNCHANGED vars
    BY <2>16, StutterPolled
  <2> QED
    BY <2>1, <2>2, <2>3, <2>4, <2>5, <2>6, <2>7, <2>8, <2>9, <2>10, <2>11, <2>12,
       <2>13, <2>14, <2>15, <2>16 DEF Next, Poll
<1> QED
  BY <1>1, PolledInit, PTL DEF Spec

(* Every variable keeps its C type, and every count its limit. *)
THEOREM TypeCorrect == ~RxInterrupt => (Spec => []TypeOK)
<1>1. PolledInv => TypeOK
  BY DEF PolledInv
<1> QED
  BY <1>1, Invariance, PTL

LEMMA PolledInOrder == PolledInv => InOrder
<1> SUFFICES ASSUME PolledInv, Quiet, state # "ES_NONE"
             PROVE  [i \in 1..Len(consumed) |-> consumed[i][1]] \o Segments(Chain(p))
                      = [i \in 1..rcvd |-> i]
  BY DEF InOrder
<1>1. PICK s \in Seq(Pbuf) : s = Chain(p) /\ Held(s)
  BY PolledChain
<1> DEFINE m == Len(consumed)
           n == Len(s)
           a == [i \in 1..m |-> consumed[i][1]]
           c == Segments(s)
<1>2. m \in Nat /\ n \in Nat /\ pc = "idle"
  BY DEF PolledInv, TypeOK, Quiet
<1>3. /\ m + n = rcvd /\ \A i \in 1..n : seg[s[i]] = m + i
      /\ \A i \in 1..m : consumed[i][1] = i
  <2>1. Left = m
    BY <1>2 DEF Left
  <2> QED
    BY <1>1, <2>1 DEF Held, Order
<1>4. a = [i \in 1..m |-> i]
  BY <1>3
<1>5. c = [i \in 1..n |-> m + i]
  BY <1>3 DEF Segments
<1> HIDE DEF m, n, a, c
<1>6. a \in Seq(Nat) /\ Len(a) = m /\ \A i \in 1..m : a[i] = i
  BY <1>2, <1>4
<1>7. c \in Seq(Nat) /\ Len(c) = n /\ \A i \in 1..n : c[i] = m + i
  BY <1>2, <1>5
<1>8. /\ a \o c \in Seq(Nat) /\ Len(a \o c) = m + n
      /\ \A i \in 1..m + n : (a \o c)[i] = IF i <= m THEN a[i] ELSE c[i - m]
  BY <1>6, <1>7, ConcatProperties
<1>9. ASSUME NEW i \in 1..m + n PROVE (a \o c)[i] = i
  <2>1. CASE i <= m
    <3>1. i \in 1..m
      BY <1>2, <2>1
    <3> QED
      BY <1>6, <1>8, <2>1, <3>1
  <2>2. CASE ~(i <= m)
    <3> DEFINE j == i - m
    <3>1. j \in 1..n /\ m + j = i
      BY <1>2, <2>2
    <3>2. (a \o c)[i] = c[j]
      BY <1>8, <2>2
    <3> HIDE DEF j
    <3> QED
      BY <1>7, <3>1, <3>2
  <2> QED
    BY <2>1, <2>2
<1> DEFINE r == a \o c
<1>10. r = [i \in 1..m + n |-> r[i]]
  <2>1. r \in Seq(Nat) /\ Len(r) = m + n
    BY <1>8
  <2> HIDE DEF r
  <2> QED
    BY <2>1
<1>11. r = [i \in 1..m + n |-> i]
  BY <1>9, <1>10
<1> QED
  BY <1>1, <1>3, <1>11 DEF a, c, m

(* Every segment is consumed once and in order, or waits in es->p in order. *)
THEOREM SegmentsInOrder == ~RxInterrupt => (Spec => []InOrder)
BY PolledInOrder, Invariance, PTL

(* The receive window is short of what es->p holds, and of nothing else. *)
THEOREM WindowIsConserved == ~RxInterrupt => (Spec => []WindowConserved)
<1>1. PolledInv => WindowConserved
  <2> SUFFICES ASSUME PolledInv, Quiet, state # "ES_NONE"
               PROVE  rcv_wnd = Wnd - Len(Chain(p))
    BY DEF WindowConserved
  <2>1. PICK s \in Seq(Pbuf) : s = Chain(p) /\ Held(s)
    BY PolledChain
  <2>2. Len(s) \in Nat /\ rcv_wnd = Wnd - Len(s)
    BY <2>1, EchoConnAssumption DEF Held, Window, Quiet
  <2> QED
    BY <2>1, <2>2
<1> QED
  BY <1>1, Invariance, PTL

(* The loops that free a chain leave none of its pbufs allocated. *)
THEOREM OnlyAbortsLeak == ~RxInterrupt => (Spec => []OnlyAbortLeaks)
<1>1. PolledInv => OnlyAbortLeaks
  <2> SUFFICES ASSUME PolledInv, Quiet
               PROVE  {b \in Pbuf : ref[b] > 0} = Range(Chain(p)) \union aborted
    BY DEF OnlyAbortLeaks
  <2>1. PICK s \in Seq(Pbuf) : s = Chain(p) /\ Held(s)
    BY PolledChain
  <2>2. Range(s) = Within(s) /\ Range(s) \subseteq Pbuf
    <3>1. DOMAIN s = 1..Len(s) /\ \A i \in 1..Len(s) : s[i] \in Pbuf
      OBVIOUS
    <3> QED
      BY <3>1 DEF Range, Within
  <2>3. aborted \subseteq Pbuf /\ Leaving = {}
    BY DEF PolledInv, TypeOK, Quiet, Leaving
  <2> QED
    BY <2>1, <2>2, <2>3 DEF Held, Owned
<1> QED
  BY <1>1, Invariance, PTL

-----------------------------------------------------------------------------
(***************************************************************************)
(* The connection implements SegmentInbox.                                  *)
(***************************************************************************)
LEMMA TakenType ==
  ASSUME TypeOK
  PROVE  /\ Len(consumed) \in Nat /\ Taken \in Seq(Kind) /\ Len(Taken) = Len(consumed)
         /\ \A i \in 1..Len(consumed) : Taken[i] = consumed[i][2]
<1>1. consumed \in Seq((1..MaxSegs) \X Kind)
  BY DEF TypeOK, Kind
<1>2. Len(consumed) \in Nat
        /\ \A i \in 1..Len(consumed) : consumed[i] \in (1..MaxSegs) \X Kind
  BY <1>1
<1>3. Taken \in [1..Len(consumed) -> Kind]
  BY <1>2 DEF Taken
<1> QED
  BY <1>2, <1>3 DEF Taken

(* What is consumed is taken. *)
LEMMA TakenGrows ==
  ASSUME TypeOK, TypeOK', NEW k \in Nat, NEW how \in Kind,
         Len(consumed') = Len(consumed) + k,
         \A i \in 1..Len(consumed) : consumed'[i] = consumed[i],
         \A i \in 1..k : consumed'[Len(consumed) + i][2] = how
  PROVE  Taken' = Taken \o [i \in 1..k |-> how]
<1> DEFINE m == Len(consumed)
           f == [i \in 1..k |-> how]
<1>1. m \in Nat /\ Taken \in Seq(Kind) /\ Len(Taken) = m
      /\ \A i \in 1..m : Taken[i] = consumed[i][2]
  BY TakenType
<1>2. f \in Seq(Kind) /\ Len(f) = k /\ \A i \in 1..k : f[i] = how
  OBVIOUS
<1> HIDE DEF f
<1>3. /\ Taken \o f \in Seq(Kind) /\ Len(Taken \o f) = m + k
      /\ \A i \in 1..m + k : (Taken \o f)[i] = IF i <= m THEN Taken[i] ELSE f[i - m]
  <2>1. \A a, c \in Seq(Kind) :
          /\ a \o c \in Seq(Kind) /\ Len(a \o c) = Len(a) + Len(c)
          /\ \A i \in 1..Len(a) + Len(c) :
               (a \o c)[i] = IF i <= Len(a) THEN a[i] ELSE c[i - Len(a)]
    BY ConcatProperties
  <2> HIDE DEF m
  <2> QED
    BY <1>1, <1>2, <2>1, Zenon
<1>4. Taken' = [i \in 1..m + k |-> consumed'[i][2]]
  <2>1. Taken' = [i \in 1..Len(consumed') |-> consumed'[i][2]]
    BY DEF Taken
  <2>2. Len(consumed') = m + k
    OBVIOUS
  <2> QED
    BY <2>1, <2>2
<1> HIDE DEF m
<1>5. ASSUME NEW i \in 1..m + k PROVE (Taken \o f)[i] = consumed'[i][2]
  <2>1. CASE i <= m
    <3>1. i \in 1..m
      BY <1>1, <2>1
    <3> QED
      BY <1>1, <1>3, <2>1, <3>1 DEF m
  <2>2. CASE ~(i <= m)
    <3> DEFINE j == i - m
    <3>1. j \in 1..k /\ m + j = i
      BY <1>1, <2>2
    <3>2. (Taken \o f)[i] = f[j]
      BY <1>3, <2>2
    <3> HIDE DEF j
    <3> QED
      BY <1>2, <3>1, <3>2 DEF m
  <2> QED
    BY <2>1, <2>2
<1> DEFINE r == Taken \o f
<1>6. r = [i \in 1..m + k |-> r[i]]
  <2>1. r \in Seq(Kind) /\ Len(r) = m + k
    BY <1>3
  <2> HIDE DEF r
  <2> QED
    BY <2>1
<1>7. r = [i \in 1..m + k |-> consumed'[i][2]]
  BY <1>5, <1>6
<1> QED
  BY <1>4, <1>7 DEF f

(* A chain has as many pbufs as it is long. *)
LEMMA WithinSize ==
  ASSUME NEW s \in Seq(Pbuf), Distinct(s)
  PROVE  /\ IsFiniteSet(Within(s)) /\ Cardinality(Within(s)) = Len(s)
         /\ Within(s) \subseteq Pbuf /\ Len(s) \in Nat /\ Len(s) <= N
<1>1. Len(s) \in Nat /\ DOMAIN s = 1..Len(s) /\ s \in [1..Len(s) -> Pbuf]
  OBVIOUS
<1>2. Within(s) \subseteq Pbuf /\ s \in [1..Len(s) -> Within(s)]
  BY <1>1 DEF Within
<1>3. s \in Bijection(1..Len(s), Within(s))
  <2>1. s \in Injection(1..Len(s), Within(s))
    BY <1>1, <1>2 DEF Distinct, Injection, IsInjective
  <2>2. s \in Surjection(1..Len(s), Within(s))
    BY <1>1, <1>2 DEF Within, Surjection
  <2> QED
    BY <2>1, <2>2 DEF Bijection
<1>4. ExistsBijection(1..Len(s), Within(s))
  BY <1>3 DEF ExistsBijection
<1>5. IsFiniteSet(Within(s)) /\ IsFiniteSet(1..Len(s))
  <2>1. IsFiniteSet(1..Len(s))
    BY <1>1, FS_Interval
  <2> QED
    BY <1>2, <2>1, Pool, FS_Subset
<1>6. Cardinality(1..Len(s)) = Len(s)
  BY <1>1, FS_Interval
<1>7. Cardinality(Within(s)) = Cardinality(1..Len(s))
  BY <1>4, <1>5, FS_Bijection
<1> QED
  BY <1>1, <1>2, <1>5, <1>6, <1>7, DistinctLen

(* Where the connection is, before and after a step. *)
LEMMA PhaseIs ==
  /\ state = "ES_NONE" => Phase = "closed"
  /\ state = "ES_CLOSING" => Phase = "closing"
  /\ state \in {"ES_ACCEPTED", "ES_RECEIVED"} => Phase = "open"
  /\ state' = "ES_NONE" => Phase' = "closed"
  /\ state' = "ES_CLOSING" => Phase' = "closing"
  /\ state' \in {"ES_ACCEPTED", "ES_RECEIVED"} => Phase' = "open"
BY DEF Phase

(* The cells that are not free hold what es->p and echo_error have. *)
LEMMA CellsUsed ==
  ASSUME NEW s \in Seq(Pbuf), Shape(s), aborted \subseteq Pbuf
  PROVE  /\ Len(s) \in Nat /\ Len(s) <= N /\ Cardinality(aborted) \in Nat
         /\ IsFiniteSet(aborted \union Within(s)) /\ aborted \union Within(s) \subseteq Pbuf
         /\ Cardinality(aborted \union Within(s)) = Cardinality(aborted) + Len(s)
<1>1. /\ IsFiniteSet(Within(s)) /\ Cardinality(Within(s)) = Len(s)
      /\ Within(s) \subseteq Pbuf /\ Len(s) \in Nat /\ Len(s) <= N
  BY WithinSize DEF Shape
<1>2. IsFiniteSet(aborted) /\ Cardinality(aborted) \in Nat
  BY Pool, FS_Subset, FS_CardinalityType
<1>3. aborted \intersect Within(s) = {}
  BY DEF Shape
<1>4. /\ IsFiniteSet(aborted \union Within(s))
      /\ Cardinality(aborted \union Within(s))
           = Cardinality(aborted) + Cardinality(Within(s)) - Cardinality(aborted \intersect Within(s))
  BY <1>1, <1>2, FS_Union
<1>5. Cardinality(aborted \intersect Within(s)) = 0
  BY <1>3, FS_EmptySet
<1> QED
  BY <1>1, <1>2, <1>4, <1>5

(* Between two rounds of echo_send's loop, what waits is the chain. *)
LEMMA WaitingIs ==
  ASSUME TypeOK, NEW s \in Seq(Pbuf), Held(s), state # "ES_NONE", pc \notin {"load", "store"}
  PROVE  /\ Inbox!Waiting = Len(s) /\ rcvd \in Nat
         /\ Len(consumed) = Len(Taken) /\ Len(consumed) + Len(s) = rcvd
<1>1. Len(consumed) \in Nat /\ Len(Taken) = Len(consumed)
  BY TakenType
<1>2. Len(consumed) + Len(s) = rcvd
  BY <1>1 DEF Held, Order, Left
<1>3. rcvd \in Nat /\ Len(s) \in Nat
  BY EchoConnAssumption DEF TypeOK
<1> QED
  BY <1>1, <1>2, <1>3 DEF Inbox!Waiting

LEMMA OpenStep ==
  ASSUME echo_accept PROVE Inbox!Next
<1>1. /\ state = "ES_NONE" /\ state' = "ES_ACCEPTED" /\ rcvd' = 0 /\ consumed' = <<>>
      /\ aborted' = aborted
  BY DEF echo_accept
<1>2. Taken' = <<>>
  <2>1. Taken' = [i \in 1..Len(consumed') |-> consumed'[i][2]]
    BY DEF Taken
  <2> QED
    BY <1>1, <2>1
<1> QED
  BY <1>1, <1>2, PhaseIs DEF Inbox!Next, Inbox!Open

(* A segment arrives: there is room for it in the window and in the pool. *)
LEMMA ArriveStep ==
  ASSUME PolledInv, TypeOK', NEW b \in Pbuf, Deliver(b), pc = "idle",
         state \in {"ES_ACCEPTED", "ES_RECEIVED"}, state' = "ES_RECEIVED",
         aborted' = aborted,
         \/ consumed' = consumed
         \/ /\ p = Null /\ state = "ES_RECEIVED" /\ ConfigInv
            /\ consumed' = Append(consumed, <<rcvd + 1, "ring">>)
  PROVE  Inbox!Next
<1>1. PICK s \in Seq(Pbuf) : s = Chain(p) /\ Held(s)
  BY PolledChain
<1>2. TypeOK
  BY DEF PolledInv
<1>3. /\ Inbox!Waiting = Len(s) /\ rcvd \in Nat
      /\ Len(consumed) = Len(Taken) /\ Len(consumed) + Len(s) = rcvd
  BY <1>1, <1>2, WaitingIs
<1>4. rcv_wnd > 0 /\ ref[b] = 0 /\ rcvd' = rcvd + 1
  BY DEF Deliver
<1>5. /\ Len(s) \in Nat /\ Cardinality(aborted) \in Nat
      /\ IsFiniteSet(aborted \union Within(s)) /\ aborted \union Within(s) \subseteq Pbuf
      /\ Cardinality(aborted \union Within(s)) = Cardinality(aborted) + Len(s)
  BY <1>1, <1>2, CellsUsed DEF Held, TypeOK
<1>6. Inbox!Waiting < Wnd
  <2>1. rcv_wnd = Wnd - Len(s) /\ Wnd \in Nat
    BY <1>1, EchoConnAssumption DEF Held, Window
  <2> QED
    BY <1>3, <1>4, <1>5, <2>1
<1>7. Inbox!Waiting + Cardinality(aborted) < Cardinality(Pbuf)
  <2> DEFINE U == aborted \union Within(s)
  <2>1. b \notin U
    BY <1>1, <1>4 DEF Held, Owned
  <2>2. IsFiniteSet(U) /\ U \subseteq Pbuf
    BY <1>5
  <2> HIDE DEF U
  <2>3. U \union {b} \subseteq Pbuf /\ Cardinality(U \union {b}) = Cardinality(U) + 1
    BY <2>1, <2>2, FS_AddElement
  <2>4. Cardinality(U \union {b}) <= N
    BY <2>3, Pool, FS_Subset DEF N
  <2> QED
    BY <1>3, <1>5, <2>3, <2>4, Pool DEF U, N
<1>8. Phase = "open" /\ Phase' = "open"
  BY PhaseIs
<1>9. CASE consumed' = consumed
  <2>1. Taken' = Taken
    BY <1>9 DEF Taken
  <2> QED
    BY <1>4, <1>6, <1>7, <1>8, <2>1 DEF Inbox!Next, Inbox!Arrive
<1>10. CASE /\ p = Null /\ state = "ES_RECEIVED" /\ ConfigInv
            /\ consumed' = Append(consumed, <<rcvd + 1, "ring">>)
  <2>1. Inbox!Waiting = 0
    BY <1>1, <1>3, <1>10, EmptyChain DEF Held
  <2>2. rcvd > 0
    BY <1>3, <1>10 DEF ConfigInv, Stage
  <2>3. Taken' = Append(Taken, "ring")
    <3> DEFINE e == <<rcvd + 1, "ring">>
               V == (1..MaxSegs) \X {"echo", "ring"}
    <3>1. e[2] = "ring" /\ consumed \in Seq(V) /\ consumed' \in Seq(V)
          /\ "ring" \in Kind
      BY <1>2 DEF TypeOK, Kind
    <3>2. consumed' = Append(consumed, e)
      BY <1>10
    <3> HIDE DEF e, V
    <3>3. /\ Len(consumed) \in Nat /\ Len(consumed') = Len(consumed) + 1
          /\ \A i \in 1..Len(consumed) : consumed'[i] = consumed[i]
          /\ consumed'[Len(consumed) + 1] = e
      BY <3>1, <3>2
    <3>4. Taken' = Taken \o [i \in 1..1 |-> "ring"]
      <4>1. 1 \in Nat /\ \A i \in 1..1 : consumed'[Len(consumed) + i][2] = "ring"
        BY <3>1, <3>3
      <4> QED
        BY <1>2, <3>1, <3>3, <4>1, TakenGrows
    <3>5. [i \in 1..1 |-> "ring"] = <<"ring">>
      OBVIOUS
    <3>6. Taken \in Seq(Kind)
      BY <1>2, TakenType
    <3> QED
      BY <3>1, <3>4, <3>5, <3>6
  <2> QED
    BY <1>4, <1>6, <1>7, <1>8, <2>1, <2>2, <2>3 DEF Inbox!Next, Inbox!Arrive
<1> QED
  BY <1>9, <1>10

LEMMA FinStep ==
  ASSUME PolledInv, RecvFin, ~RxInterrupt PROVE Inbox!Next
<1>1. PICK s \in Seq(Pbuf) : s = Chain(p) /\ Held(s)
  BY PolledChain
<1>2. /\ pc = "idle" /\ state \in {"ES_ACCEPTED", "ES_RECEIVED"}
      /\ UNCHANGED <<aborted, consumed, rcvd>>
      /\ state' = IF p = Null THEN "ES_NONE" ELSE "ES_CLOSING"
  BY DEF RecvFin, CallbackRuns, CloseConn, history
<1>3. Inbox!Waiting = Len(s)
  BY <1>1, <1>2, WaitingIs DEF PolledInv
<1>4. Inbox!Waiting = 0 <=> p = Null
  BY <1>1, <1>3, EmptyChain DEF Held
<1>5. Phase = "open" /\ Phase' = IF p = Null THEN "closed" ELSE "closing"
  BY <1>2, PhaseIs
<1>6. Taken' = Taken
  BY <1>2 DEF Taken
<1> QED
  BY <1>2, <1>4, <1>5, <1>6 DEF Inbox!Next, Inbox!PeerEnds

(* Nothing of the connection that SegmentInbox shows changes. *)
LEMMA SameStep ==
  ASSUME UNCHANGED <<state, rcvd, consumed, aborted>> PROVE UNCHANGED Inbox!vars
<1>1. Phase' = Phase
  BY DEF Phase
<1>2. Taken' = Taken
  BY DEF Taken
<1> QED
  BY <1>1, <1>2 DEF Inbox!vars

(* Something was acknowledged, and nothing is in es->p. *)
LEMMA NothingStep ==
  ASSUME PolledInv, p = Null, NothingMore, pc = "idle", state # "ES_NONE",
         UNCHANGED <<rcvd, consumed, aborted>>
  PROVE  Inbox!Next \/ UNCHANGED Inbox!vars
<1>1. PICK s \in Seq(Pbuf) : s = Chain(p) /\ Held(s)
  BY PolledChain
<1>2. CASE state = "ES_CLOSING"
  <2>1. Inbox!Waiting = 0
    BY <1>1, WaitingIs, EmptyChain DEF PolledInv, Held
  <2>2. Phase = "closing" /\ Phase' = "closed"
    BY <1>2, PhaseIs DEF NothingMore, CloseConn
  <2>3. Taken' = Taken
    BY DEF Taken
  <2> QED
    BY <2>1, <2>2, <2>3 DEF Inbox!Next, Inbox!Close
<1>3. CASE state # "ES_CLOSING"
  BY <1>3, SameStep DEF NothingMore
<1> QED
  BY <1>2, <1>3

(* The first k pbufs of the chain are consumed. *)
LEMMA TakeStep ==
  ASSUME PolledInv, TypeOK', NEW s \in Seq(Pbuf), Held(s), NEW k \in 0..Len(s),
         NEW how \in Kind, Consumes(s, k, how), UNCHANGED <<state, rcvd, aborted>>,
         k > 0 /\ consumed = <<>> => how = "echo"
  PROVE  Inbox!Next \/ UNCHANGED Inbox!vars
<1>1. TypeOK /\ state # "ES_NONE" /\ pc \notin {"load", "store"} /\ Consume(p, k, how)
  BY DEF PolledInv, Consumes
<1>2. /\ Inbox!Waiting = Len(s)
      /\ Len(consumed) = Len(Taken) /\ Len(consumed) \in Nat
  BY <1>1, WaitingIs, TakenType
<1>3. Len(s) \in Nat /\ Len(s) <= N /\ k \in Nat /\ k <= Len(s)
  <2>1. Shape(s) /\ aborted \subseteq Pbuf
    BY <1>1 DEF Held, TypeOK
  <2>2. Len(s) \in Nat /\ Len(s) <= N
    BY <2>1, CellsUsed
  <2> QED
    BY <2>2
<1>4. IsLog(consumed', consumed, s, seg, k, how)
  <2>1. consumed' = Log(consumed, s, seg, k, how)
    BY DEF Consumes, Consume, Log
  <2>2. consumed \in Seq(Nat \X Kind) /\ seg \in [Pbuf -> Nat]
    <3> DEFINE V == (1..MaxSegs) \X {"echo", "ring"}
    <3>1. consumed \in Seq(V) /\ V \subseteq Nat \X Kind
      BY <1>1, EchoConnAssumption DEF TypeOK, Kind
    <3>2. seg \in [Pbuf -> Nat]
      BY <1>1, EchoConnAssumption DEF TypeOK
    <3> HIDE DEF V
    <3> QED
      BY <3>1, <3>2, SeqMonotonic
  <2> QED
    BY <2>1, <2>2, Logged
<1>5. Taken' = Taken \o [i \in 1..k |-> how]
  <2>1. /\ Len(consumed') = Len(consumed) + k
        /\ \A i \in 1..Len(consumed) : consumed'[i] = consumed[i]
        /\ \A i \in 1..k : consumed'[Len(consumed) + i] = <<seg[s[i]], how>>
    BY <1>4 DEF IsLog
  <2>2. \A i \in 1..k : consumed'[Len(consumed) + i][2] = how
    BY <2>1
  <2> QED
    BY <1>1, <1>3, <2>1, <2>2, TakenGrows
<1>6. Phase' = Phase /\ Phase # "closed"
  <2>1. state \in {"ES_ACCEPTED", "ES_RECEIVED", "ES_CLOSING"}
    BY <1>1 DEF TypeOK
  <2> QED
    BY <2>1, PhaseIs
<1>7. CASE k = 0
  <2>1. Taken \in Seq(Kind)
    BY <1>1, TakenType
  <2>2. [i \in 1..k |-> how] = <<>>
    BY <1>7
  <2>3. Taken \o <<>> = Taken
    BY <2>1, ConcatEmptySeq
  <2>4. Taken' = Taken
    BY <1>5, <2>2, <2>3, Zenon
  <2> QED
    BY <1>6, <2>4 DEF Inbox!vars
<1>8. CASE k # 0
  <2>1. k \in 1..Cardinality(Pbuf) /\ k <= Inbox!Waiting /\ how \in {"echo", "ring"}
    BY <1>2, <1>3, <1>8, Pool DEF N, Kind
  <2>2. Taken = <<>> => how = "echo"
    <3> SUFFICES ASSUME Taken = <<>> PROVE how = "echo"
      OBVIOUS
    <3>1. Len(consumed) = 0
      BY <1>2
    <3>2. consumed = <<>>
      BY <1>1, <3>1 DEF TypeOK
    <3> QED
      BY <1>3, <1>8, <3>2
  <2>3. Inbox!Take(k, how)
    BY <1>5, <1>6, <2>1, <2>2 DEF Inbox!Take
  <2> QED
    BY <2>1, <2>3 DEF Inbox!Next
<1> QED
  BY <1>7, <1>8

LEMMA EchoSentStep ==
  ASSUME ~RxInterrupt, PolledInv, TypeOK', NEW n \in 1..SndBuf, echo_sent(n)
  PROVE  Inbox!Next \/ UNCHANGED Inbox!vars
<1>1. PICK s \in Seq(Pbuf) : s = Chain(p) /\ Held(s)
  BY PolledChain
<1>2. pc = "idle" /\ state # "ES_NONE" /\ UNCHANGED <<rcvd, aborted>>
  BY DEF echo_sent, Acked, CallbackRuns
<1>3. CASE p = Null
  BY <1>2, <1>3, NothingStep DEF echo_sent
<1>4. CASE p # Null
  <2>1. PICK k \in 0..Len(Chain(p)) : Consume(p, k, "echo") /\ UNCHANGED state
    BY <1>4, Zenon DEF echo_sent
  <2>2. "echo" \in Kind /\ k \in 0..Len(s)
    BY <1>1, <2>1 DEF Kind
  <2>3. Consumes(s, k, "echo")
    BY <1>1, <1>2, <2>1 DEF Consumes, PolledInv, Held
  <2> QED
    BY <1>1, <1>2, <2>1, <2>2, <2>3, TakeStep
<1> QED
  BY <1>3, <1>4

(* The configuration segment is not there for TCP_UART_sent to take. *)
LEMMA UartSentStep ==
  ASSUME ~RxInterrupt, PolledInv, ConfigInv, TypeOK', NEW n \in 1..SndBuf, TCP_UART_sent(n)
  PROVE  Inbox!Next \/ UNCHANGED Inbox!vars
<1>1. PICK s \in Seq(Pbuf) : s = Chain(p) /\ Held(s)
  BY PolledChain
<1>2. pc = "idle" /\ state # "ES_NONE" /\ UNCHANGED <<rcvd, aborted>>
      /\ sent_cb = "TCP_UART_sent"
  BY DEF TCP_UART_sent, Acked, CallbackRuns
<1>3. CASE p = Null
  BY <1>2, <1>3, NothingStep DEF TCP_UART_sent
<1>4. CASE p # Null
  <2>1. PICK k : k = Len(s)
    OBVIOUS
  <2>2. Consume(p, k, "ring") /\ UNCHANGED state
    BY <1>1, <1>4, <2>1 DEF TCP_UART_sent
  <2>3. "ring" \in Kind /\ k \in 0..Len(s)
    BY <2>1 DEF Kind
  <2>4. Consumes(s, k, "ring")
    BY <1>1, <1>2, <2>2 DEF Consumes, PolledInv, Held
  <2>5. consumed # <<>>
    <3>1. seg[p] # 1
      BY <1>2, <1>4 DEF ConfigInv, NotConfig
    <3>2. s[1] = p /\ 1 \in 1..Len(s)
      BY <1>1, <1>4, EmptyChain DEF Held
    <3>3. seg[s[1]] = Left + 1
      BY <1>1, <1>2, <3>2 DEF Held, Order
    <3>4. Left = Len(consumed)
      BY <1>2 DEF Left, PolledInv, TypeOK
    <3> QED
      BY <3>1, <3>2, <3>3, <3>4
  <2> QED
    BY <1>1, <1>2, <2>2, <2>3, <2>4, <2>5, TakeStep
<1> QED
  BY <1>3, <1>4

(* What es->p holds is lost, and nothing else. *)
LEMMA ResetStep ==
  ASSUME ~RxInterrupt, PolledInv, echo_error PROVE Inbox!Next
<1>1. PICK s \in Seq(Pbuf) : s = Chain(p) /\ Held(s)
  BY PolledChain
<1>2. /\ pc = "idle" /\ state # "ES_NONE" /\ state' = "ES_NONE"
      /\ aborted' = aborted \union Range(s) /\ UNCHANGED <<rcvd, consumed>>
  BY <1>1 DEF echo_error, CallbackRuns, CloseConn
<1>3. TypeOK
  BY DEF PolledInv
<1>4. Inbox!Waiting = Len(s)
  BY <1>1, <1>2, <1>3, WaitingIs
<1>5. Range(s) = Within(s)
  <2>1. DOMAIN s = 1..Len(s)
    OBVIOUS
  <2> QED
    BY <2>1 DEF Range, Within
<1>6. Cardinality(aborted \union Within(s)) = Cardinality(aborted) + Len(s)
  <2>1. Shape(s) /\ aborted \subseteq Pbuf
    BY <1>1, <1>3 DEF Held, TypeOK
  <2> QED
    BY <2>1, CellsUsed
<1>7. Cardinality(aborted') = Cardinality(aborted) + Inbox!Waiting
  BY <1>2, <1>4, <1>5, <1>6
<1>8. Phase # "closed" /\ Phase' = "closed"
  <2>1. state \in {"ES_ACCEPTED", "ES_RECEIVED", "ES_CLOSING"}
    BY <1>2, <1>3 DEF TypeOK
  <2> QED
    BY <1>2, <2>1, PhaseIs
<1>9. Taken' = Taken
  BY <1>2 DEF Taken
<1> QED
  BY <1>2, <1>7, <1>8, <1>9 DEF Inbox!Next, Inbox!Reset

(* echo_poll takes a segment when it has written it back. *)
LEMMA PollCheckStep ==
  ASSUME PolledInv, TypeOK', PollCheck PROVE Inbox!Next \/ UNCHANGED Inbox!vars
<1>1. PICK s \in Seq(Pbuf) : s = Chain(p) /\ Held(s)
  BY PolledChain
<1>2. pc = "check" /\ state # "ES_NONE" /\ UNCHANGED <<state, rcvd, aborted>>
  BY DEF PollCheck, EsFreed, conn
<1>3. \/ p # Null /\ Consume(p, 1, "echo")
      \/ UNCHANGED consumed
  BY DEF PollCheck
<1>4. CASE UNCHANGED consumed
  BY <1>2, <1>4, SameStep
<1>5. CASE p # Null /\ Consume(p, 1, "echo")
  <2>1. "echo" \in Kind /\ 1 \in 0..Len(s)
    BY <1>1, <1>5, EmptyChain DEF Kind, Held
  <2>2. Consumes(s, 1, "echo")
    BY <1>1, <1>2, <1>5 DEF Consumes, PolledInv, Held
  <2> QED
    BY <1>1, <1>2, <2>1, <2>2, TakeStep
<1> QED
  BY <1>3, <1>4, <1>5

(***************************************************************************)
(* The connection keeps what SegmentInbox promises: each step is one of it  *)
(* or changes nothing it shows.  That es->p is read and written in several  *)
(* steps, that a chain holds it, and who counts its references are gone.    *)
(* Both invariants are needed: that the first segment is written back is    *)
(* ConfigInv's, and the rest PolledInv's.                                   *)
(***************************************************************************)
THEOREM InboxRefined == ~RxInterrupt => (Spec => InboxSpec)
<1> SUFFICES ASSUME ~RxInterrupt PROVE Spec => InboxSpec
  OBVIOUS
<1>1. Init => Inbox!Init
  <2> SUFFICES ASSUME Init PROVE Inbox!Init
    OBVIOUS
  <2>1. state = "ES_NONE" /\ rcvd = 0 /\ consumed = <<>> /\ aborted = {}
    BY DEF Init
  <2>2. Phase = "closed"
    BY <2>1, PhaseIs
  <2>3. Taken = <<>>
    BY <2>1 DEF Taken
  <2>4. Cardinality(aborted) = 0
    BY <2>1, FS_EmptySet
  <2> QED
    BY <2>1, <2>2, <2>3, <2>4 DEF Inbox!Init
<1>2. PolledInv /\ ConfigInv /\ PolledInv' /\ [Next]_vars => [Inbox!Next]_(Inbox!vars)
  <2> SUFFICES ASSUME PolledInv, ConfigInv, PolledInv', [Next]_vars
               PROVE  Inbox!Next \/ UNCHANGED Inbox!vars
    OBVIOUS
  <2>1. TypeOK'
    BY DEF PolledInv
  <2>2. CASE echo_accept
    BY <2>2, OpenStep
  <2>3. ASSUME NEW b \in Pbuf, RecvConfig(b) PROVE Inbox!Next
    <3>1. /\ Deliver(b) /\ pc = "idle" /\ state = "ES_ACCEPTED" /\ state' = "ES_RECEIVED"
          /\ UNCHANGED <<consumed, aborted>>
      BY <2>3 DEF RecvConfig, CallbackRuns, history
    <3> QED
      BY <2>1, <3>1, ArriveStep
  <2>4. ASSUME NEW b \in Pbuf, RecvData(b) PROVE Inbox!Next
    <3>1. /\ Deliver(b) /\ pc = "idle" /\ state = "ES_RECEIVED" /\ state' = "ES_RECEIVED"
          /\ p = Null /\ aborted' = aborted
          /\ \/ consumed' = consumed
             \/ consumed' = Append(consumed, <<rcvd + 1, "ring">>)
      BY <2>4 DEF RecvData, CallbackRuns
    <3> QED
      BY <2>1, <3>1, ArriveStep
  <2>5. ASSUME NEW b \in Pbuf, RecvChain(b) PROVE Inbox!Next
    <3>1. /\ Deliver(b) /\ pc = "idle" /\ state = "ES_RECEIVED" /\ state' = "ES_RECEIVED"
          /\ UNCHANGED <<consumed, aborted>>
      BY <2>5 DEF RecvChain, CallbackRuns, history
    <3> QED
      BY <2>1, <3>1, ArriveStep
  <2>6. CASE RecvFin
    BY <2>6, FinStep
  <2>7. ASSUME NEW n \in 1..SndBuf, AckedNoCallback(n) PROVE UNCHANGED Inbox!vars
    BY <2>7, SameStep DEF AckedNoCallback, Acked
  <2>8. ASSUME NEW n \in 1..SndBuf, echo_sent(n)
        PROVE  Inbox!Next \/ UNCHANGED Inbox!vars
    BY <2>1, <2>8, EchoSentStep
  <2>9. ASSUME NEW n \in 1..SndBuf, TCP_UART_sent(n)
        PROVE  Inbox!Next \/ UNCHANGED Inbox!vars
    BY <2>1, <2>9, UartSentStep
  <2>10. CASE echo_error
    BY <2>10, ResetStep
  <2>11. CASE PollCheck
    BY <2>1, <2>11, PollCheckStep
  <2>12. CASE echo_poll \/ PollLoad \/ PollStore \/ PollFree \/ PollAfterFree
              \/ UNCHANGED vars
    <3>1. UNCHANGED <<state, rcvd, consumed, aborted>>
      BY <2>12 DEF echo_poll, PollLoad, PollStore, PollFree, PollAfterFree, vars, conn,
                   history
    <3> QED
      BY <3>1, SameStep
  <2> QED
    BY <2>2, <2>3, <2>4, <2>5, <2>6, <2>7, <2>8, <2>9, <2>10, <2>11, <2>12 DEF Next, Poll
<1> QED
  BY <1>1, <1>2, Invariance, ConfigInvariance, PTL DEF Spec, InboxSpec, Inbox!Spec

=============================================================================
