---------------------------- MODULE Enet_proofs ----------------------------
(***************************************************************************)
(* Type correctness of the Ethernet driver, and that until the two senders  *)
(* meet or a full ring is written to, the wire carries what was handed over *)
(* and the DMA never waits at a gap: for every size of the rings and every  *)
(* number of frames.                                                       *)
(***************************************************************************)
EXTENDS Enet, TLAPS

USE EnetAssumption

(* The steps round the transmit ring from descriptor i to descriptor j. *)
Dist(i, j) == IF i <= j THEN j - i ELSE j - i + TxNum

(* Frames ready and not yet sent. *)
Pending == Len(handed) - Len(wire)

(* A descriptor is armed and txBdCurPtr still points to it. *)
Armed == pc \in {"load", "step"}

(* The descriptors from cur back to dirty, where the ring is not full. *)
InUse == Dist(dirty, cur) + (IF Armed THEN 1 ELSE 0)

(* The window of ready descriptors, Pending of them from the DMA's place on,  *)
(* holds the frames that are next on the wire, unless one was overwritten. *)
Content ==
  /\ \A i \in TxBd :
       ready[i] => buf[i] = handed[Len(wire) + 1 + Dist(txDma, i)]
  /\ \A k \in 1..Len(wire) : wire[k] = handed[k]

Window ==
  /\ Pending \in 0..TxNum
  /\ \A i \in TxBd : ready[i] <=> Dist(txDma, i) < Pending
  /\ ~overwrote => Content

(* The next frame goes to the end of the window. *)
End == IF Armed THEN IncrTxBuffDescripIndex(cur) ELSE cur

EndOfWindow == Dist(txDma, End) = Pending \/ (Pending = TxNum /\ End = txDma)

(* What is known of the flag and of dirty at each place of the loop's send. *)
Places ==
  /\ pc \in {"copy", "check", "take", "arm", "load", "step"} => bd = cur
  /\ pc \notin {"idle", "copy", "check"} => ~full
  /\ pc \in {"check", "take", "arm"} => buf[cur] = fr
  /\ ~full /\ pc \notin {"compare", "flag"} => Pending <= InUse
  /\ pc = "compare" /\ cur # dirty => Pending <= Dist(dirty, cur)
  /\ pc = "flag" /\ ~isLast => Pending <= Dist(dirty, cur)

RingInv == ~raced => Window /\ EndOfWindow /\ Places

IndInv == TypeOK /\ RingInv

-----------------------------------------------------------------------------
LEMMA InitInv == Init => IndInv
<1> SUFFICES ASSUME Init PROVE IndInv
  OBVIOUS
<1> USE DEF Init
<1>1. TypeOK
  BY DEF TypeOK, TxBd, RxBd
<1>2. Window /\ EndOfWindow /\ Places
  BY DEF Content, Window, EndOfWindow, Places, End, InUse, Armed, Pending, Dist, TxBd
<1> QED
  BY <1>1, <1>2 DEF IndInv, RingInv

(* Every step keeps the types. *)
LEMMA TypeStep == TypeOK /\ [Next]_vars => TypeOK'
<1> SUFFICES ASSUME TypeOK, [Next]_vars PROVE TypeOK'
  OBVIOUS
<1> USE DEF TypeOK, TxBd, RxBd, ring, loop, dma, rxRing, history, LoopRuns,
            IncrTxBuffDescripIndex, IncrRxBuffDescripIndex
<1>1. CASE LoopSend
  <2>1. CASE OutputBegins
    BY <2>1 DEF OutputBegins
  <2>2. CASE OutputCopies
    BY <2>2 DEF OutputCopies
  <2>3. CASE SendChecks
    BY <2>3 DEF SendChecks
  <2>4. CASE SendTakes
    BY <2>4 DEF SendTakes
  <2>5. CASE SendArms
    BY <2>5 DEF SendArms
  <2>6. CASE SendLoads
    BY <2>6 DEF SendLoads
  <2>7. CASE SendSteps
    BY <2>7 DEF SendSteps
  <2>8. CASE SendCompares
    BY <2>8 DEF SendCompares
  <2>9. CASE SendFlags
    BY <2>9 DEF SendFlags
  <2> QED
    BY <1>1, <2>1, <2>2, <2>3, <2>4, <2>5, <2>6, <2>7, <2>8, <2>9 DEF LoopSend
<1>2. CASE TxIrq
  <2>1. CASE TxIrqEnters
    <3>1. isr' \in {"none", "tx", "rx"} /\ txf' \in BOOLEAN
      BY <2>1 DEF TxIrqEnters
    <3>2. UNCHANGED <<ring, dirty, loop, txDma, active, wire, rxRing, sent, history>>
      BY <2>1 DEF TxIrqEnters
    <3> QED
      BY <3>1, <3>2
  <2>2. CASE CleanupTxBuffDescrip
    BY <2>2 DEF CleanupTxBuffDescrip
  <2>3. CASE TxIrqChecks
    <3>1. isr' \in {"none", "tx", "rx"} /\ txf' \in BOOLEAN
      BY <2>3 DEF TxIrqChecks
    <3>2. UNCHANGED <<ring, dirty, loop, txDma, active, wire, rxRing, sent, history>>
      BY <2>3 DEF TxIrqChecks
    <3> QED
      BY <3>1, <3>2
  <2> QED
    BY <1>2, <2>1, <2>2, <2>3 DEF TxIrq
<1>3. CASE RxIrq
  <2>1. CASE ReceiveGood /\ Answer
    <3>1. CASE Refused
      BY <2>1, <3>1 DEF ReceiveGood, Answer, Refused, UpdateRxBuffDescrip
    <3>2. CASE Accepted(sent')
      BY <2>1, <3>2 DEF ReceiveGood, Answer, Accepted, UpdateRxBuffDescrip
    <3> QED
      BY <2>1, <3>1, <3>2 DEF Answer
  <2>2. CASE ReceiveGood /\ NoAnswer
    BY <2>2 DEF ReceiveGood, NoAnswer, UpdateRxBuffDescrip
  <2>3. CASE RxIrqEnters
    <3>1. isr' \in {"none", "tx", "rx"} /\ rxf' \in BOOLEAN
      BY <2>3 DEF RxIrqEnters
    <3>2. UNCHANGED <<ring, dirty, loop, dma, rx, rxCur, rxDma, arrived, sent, history>>
      BY <2>3 DEF RxIrqEnters
    <3> QED
      BY <3>1, <3>2
  <2>4. CASE ReceiveBad
    <3>1. rx' \in [RxBd -> {"empty", "good", "bad"}] /\ rxCur' \in RxBd
      BY <2>4 DEF ReceiveBad, UpdateRxBuffDescrip
    <3>2. isr' \in {"none", "tx", "rx"} /\ rxf' \in BOOLEAN /\ early' \in BOOLEAN
      BY <2>4 DEF ReceiveBad, PassEnds
    <3> QED
      BY <2>4, <3>1, <3>2 DEF ReceiveBad, UpdateRxBuffDescrip
  <2>5. CASE ReceiveNone
    <3>1. isr' \in {"none", "tx", "rx"} /\ rxf' \in BOOLEAN /\ early' \in BOOLEAN
      BY <2>5 DEF ReceiveNone, PassEnds
    <3>2. UNCHANGED <<ring, dirty, loop, dma, rx, rxCur, rxDma, arrived, sent, handed,
                     raced, overwrote>>
      BY <2>5 DEF ReceiveNone, PassEnds
    <3> QED
      BY <3>1, <3>2
  <2> QED
    BY <1>3, <2>1, <2>2, <2>3, <2>4, <2>5 DEF RxIrq, ReceiveGood
<1>4. CASE Dma
  <2>1. CASE DmaSends
    BY <2>1 DEF DmaSends
  <2>2. CASE DmaStops
    <3>1. active' \in BOOLEAN
      BY <2>2 DEF DmaStops
    <3>2. UNCHANGED <<ring, dirty, txDma, txf, wire, loop, rxRing, isr, sent, history>>
      BY <2>2 DEF DmaStops
    <3> QED
      BY <3>1, <3>2
  <2> QED
    BY <1>4, <2>1, <2>2 DEF Dma
<1>5. CASE \E kind \in {"good", "bad"} : FrameArrives(kind)
  BY <1>5 DEF FrameArrives
<1>6. CASE UNCHANGED vars
  BY <1>6 DEF vars
<1> QED
  BY <1>1, <1>2, <1>3, <1>4, <1>5, <1>6 DEF Next

-----------------------------------------------------------------------------
(* The distance round the ring, for descriptors of it. *)
LEMMA DistRange ==
  ASSUME NEW i \in TxBd, NEW j \in TxBd
  PROVE  Dist(i, j) \in 0..TxNum - 1 /\ Dist(i, j) \in Int
BY DEF Dist, TxBd

LEMMA DistZero ==
  ASSUME NEW i \in TxBd, NEW j \in TxBd
  PROVE  Dist(i, j) = 0 <=> i = j
BY DEF Dist, TxBd

LEMMA DistSame ==
  ASSUME NEW i \in TxBd, NEW j \in TxBd, NEW k \in TxBd
  PROVE  Dist(i, j) = Dist(i, k) => j = k
BY DEF Dist, TxBd

LEMMA DistSameFrom ==
  ASSUME NEW i \in TxBd, NEW j \in TxBd, NEW k \in TxBd
  PROVE  Dist(i, k) = Dist(j, k) => i = j
BY DEF Dist, TxBd

(* A step at the start makes the distance one less, *)
LEMMA DistFrom ==
  ASSUME NEW i \in TxBd, NEW j \in TxBd, i # j
  PROVE  Dist(IncrTxBuffDescripIndex(i), j) = Dist(i, j) - 1
BY DEF Dist, IncrTxBuffDescripIndex, TxBd

LEMMA DistFromSelf ==
  ASSUME NEW i \in TxBd
  PROVE  Dist(IncrTxBuffDescripIndex(i), i) = TxNum - 1
BY DEF Dist, IncrTxBuffDescripIndex, TxBd

(* and one at the end makes it one more. *)
LEMMA DistTo ==
  ASSUME NEW i \in TxBd, NEW j \in TxBd, IncrTxBuffDescripIndex(j) # i
  PROVE  Dist(i, IncrTxBuffDescripIndex(j)) = Dist(i, j) + 1
BY DEF Dist, IncrTxBuffDescripIndex, TxBd

LEMMA DistToSelf ==
  ASSUME NEW i \in TxBd, NEW j \in TxBd, IncrTxBuffDescripIndex(j) = i
  PROVE  Dist(i, j) = TxNum - 1
BY DEF Dist, IncrTxBuffDescripIndex, TxBd

(* One step, and a way with a stop. *)
LEMMA DistOne ==
  ASSUME NEW i \in TxBd, NEW j \in TxBd
  PROVE  Dist(i, j) = 1 => j = IncrTxBuffDescripIndex(i)
BY DEF Dist, IncrTxBuffDescripIndex, TxBd

LEMMA DistBetween ==
  ASSUME NEW i \in TxBd, NEW j \in TxBd, NEW k \in TxBd, Dist(i, j) <= Dist(i, k)
  PROVE  Dist(j, k) = Dist(i, k) - Dist(i, j)
BY DEF Dist, TxBd

LEMMA IncrInRing ==
  ASSUME NEW i \in TxBd
  PROVE  IncrTxBuffDescripIndex(i) \in TxBd
BY DEF IncrTxBuffDescripIndex, TxBd

(* What the steps use of the types. *)
LEMMA TypeFacts ==
  ASSUME TypeOK
  PROVE  /\ cur \in TxBd /\ dirty \in TxBd /\ txDma \in TxBd
         /\ Len(wire) \in Nat /\ Len(handed) \in Nat /\ Pending \in Int
         /\ ready \in [TxBd -> BOOLEAN] /\ DOMAIN buf = TxBd
BY DEF TypeOK, Pending

(* A frame more is handed over: what was there stays. *)
LEMMA HandOver ==
  ASSUME TypeOK, NEW f \in 0..MaxFrames
  PROVE  /\ Len(Append(handed, f)) = Len(handed) + 1
         /\ Append(handed, f)[Len(handed) + 1] = f
         /\ \A k \in 1..Len(handed) : Append(handed, f)[k] = handed[k]
BY DEF TypeOK

(* Steps that touch neither the transmit ring nor the loop's send. *)
LEMMA RingUntouched ==
  ASSUME RingInv,
         UNCHANGED <<ring, dirty, loop, txDma, wire, handed, raced, overwrote>>
  PROVE  RingInv'
BY DEF RingInv, Content, Window, EndOfWindow, Places, End, InUse, Armed, Pending, ring,
       loop

(* Where the ring is not full and no descriptor is armed, cur is free. *)
LEMMA FreeAtEnd ==
  ASSUME TypeOK, Window, EndOfWindow, Places,
         ~full, pc \in {"idle", "copy", "check", "take", "arm"}
  PROVE  /\ Pending < TxNum /\ Pending <= Dist(dirty, cur)
         /\ Dist(txDma, cur) = Pending
         /\ ~ready[cur]
<1>1. ~Armed /\ End = cur
  BY DEF Armed, End
<1>2. Dist(dirty, cur) \in 0..TxNum - 1 /\ Dist(txDma, cur) \in Int
  BY DistRange, TypeFacts
<1>3. InUse = Dist(dirty, cur)
  BY <1>1, <1>2 DEF InUse
<1>4. Pending <= Dist(dirty, cur)
  BY <1>3 DEF Places
<1>5. Pending \in Int /\ Pending < TxNum
  BY <1>2, <1>4, TypeFacts
<1>6. Dist(txDma, cur) = Pending
  BY <1>1, <1>5 DEF EndOfWindow
<1>7. ~ready[cur]
  BY <1>2, <1>6, TypeFacts DEF Window
<1> QED
  BY <1>4, <1>5, <1>6, <1>7

(* A frame armed at cur is the new end of the window. *)
LEMMA ArmWindow ==
  ASSUME TypeOK, Window, NEW f \in 0..MaxFrames,
         Pending < TxNum, Dist(txDma, cur) = Pending,
         ready' = [ready EXCEPT ![cur] = TRUE], buf'[cur] = f,
         \A i \in TxBd : i # cur => buf'[i] = buf[i],
         handed' = Append(handed, f), UNCHANGED <<txDma, wire, overwrote>>
  PROVE  Window' /\ Pending' = Pending + 1
<1>1. Pending' = Pending + 1
  BY HandOver, TypeFacts DEF Pending
<1>2. \A i \in TxBd : Dist(txDma, i) < Pending + 1 <=>
                        Dist(txDma, i) < Pending \/ i = cur
  <2> SUFFICES ASSUME NEW i \in TxBd
               PROVE  Dist(txDma, i) < Pending + 1 <=>
                        Dist(txDma, i) < Pending \/ i = cur
    OBVIOUS
  <2>1. Dist(txDma, i) \in Int /\ Pending \in Int
    BY DistRange, TypeFacts
  <2>2. Dist(txDma, i) = Pending <=> i = cur
    BY DistSame, TypeFacts
  <2> QED
    BY <2>1, <2>2
<1>3. \A i \in TxBd : ready'[i] <=> Dist(txDma, i) < Pending + 1
  BY <1>2, TypeFacts DEF Window
<1>4. Len(wire) + 1 + Dist(txDma, cur) = Len(handed) + 1
  BY TypeFacts DEF Pending
<1>5. ASSUME ~overwrote, NEW i \in TxBd, ready'[i]
      PROVE  buf'[i] = handed'[Len(wire) + 1 + Dist(txDma, i)]
  <2>1. CASE i = cur
    BY <1>4, <2>1, HandOver
  <2>2. CASE i # cur
    <3>1. Dist(txDma, i) < Pending /\ Dist(txDma, i) \in 0..TxNum - 1
      BY <1>2, <1>3, <1>5, <2>2, DistRange, TypeFacts
    <3>2. Len(wire) + 1 + Dist(txDma, i) \in 1..Len(handed)
      BY <3>1, TypeFacts DEF Pending
    <3>3. buf[i] = handed[Len(wire) + 1 + Dist(txDma, i)]
      BY <1>5, <3>1 DEF Window, Content
    <3> QED
      BY <2>2, <3>2, <3>3, HandOver
  <2> QED
    BY <2>1, <2>2
<1>6. ~overwrote => \A k \in 1..Len(wire) : wire[k] = handed'[k]
  <2> SUFFICES ASSUME ~overwrote, NEW k \in 1..Len(wire) PROVE wire[k] = handed'[k]
    OBVIOUS
  <2>1. k \in 1..Len(handed)
    BY TypeFacts DEF Window, Pending
  <2> QED
    BY <2>1, HandOver DEF Window, Content
<1>7. Pending + 1 \in 0..TxNum
  BY TypeFacts DEF Window
<1> QED
  BY <1>1, <1>3, <1>5, <1>6, <1>7 DEF Window, Content

(* The descriptor after the end of a longer window. *)
LEMMA NextEnd ==
  ASSUME TypeOK, Pending < TxNum, Dist(txDma, cur) = Pending
  PROVE  \/ Dist(txDma, IncrTxBuffDescripIndex(cur)) = Pending + 1
         \/ Pending + 1 = TxNum /\ IncrTxBuffDescripIndex(cur) = txDma
<1>1. CASE IncrTxBuffDescripIndex(cur) = txDma
  BY <1>1, DistToSelf, TypeFacts
<1>2. CASE IncrTxBuffDescripIndex(cur) # txDma
  BY <1>2, DistTo, TypeFacts
<1> QED
  BY <1>1, <1>2

(* The steps of the loop's send. *)
LEMMA LoopStep == TypeOK /\ RingInv /\ LoopSend => RingInv'
<1> SUFFICES ASSUME TypeOK, RingInv, LoopSend, ~raced'
             PROVE  (Window /\ EndOfWindow /\ Places)'
  BY DEF RingInv
<1> USE DEF LoopRuns, ring, loop, dma, rxRing, history
<1>1. CASE OutputBegins
  <2>1. Window /\ EndOfWindow /\ Places
    BY <1>1 DEF OutputBegins, RingInv
  <2> QED
    BY <1>1, <2>1 DEF OutputBegins, TypeOK, Content, Window, EndOfWindow, Places, End,
                      InUse, Armed, Pending
<1>3. CASE SendChecks
  <2>1. Window /\ EndOfWindow /\ Places
    BY <1>3 DEF SendChecks, RingInv
  <2> QED
    BY <1>3, <2>1 DEF SendChecks, TypeOK, Content, Window, EndOfWindow, Places, End,
                      InUse, Armed, Pending
<1>4. CASE SendTakes
  <2>1. Window /\ EndOfWindow /\ Places
    BY <1>4 DEF SendTakes, RingInv
  <2> QED
    BY <1>4, <2>1 DEF SendTakes, TypeOK, Content, Window, EndOfWindow, Places, End,
                      InUse, Armed, Pending
<1>6. CASE SendLoads
  <2>1. Window /\ EndOfWindow /\ Places
    BY <1>6 DEF SendLoads, RingInv
  <2> QED
    BY <1>6, <2>1 DEF SendLoads, TypeOK, Content, Window, EndOfWindow, Places, End,
                      InUse, Armed, Pending
<1>8. CASE SendCompares
  <2>1. Window /\ EndOfWindow /\ Places
    BY <1>8 DEF SendCompares, RingInv
  <2> QED
    BY <1>8, <2>1 DEF SendCompares, TypeOK, Content, Window, EndOfWindow, Places, End,
                      InUse, Armed, Pending
<1>9. CASE SendFlags
  <2>1. Window /\ EndOfWindow /\ Places
    BY <1>9 DEF SendFlags, RingInv
  <2>2. UNCHANGED <<buf, ready, cur, dirty, txDma, wire, handed, overwrote>>
        /\ pc = "flag" /\ pc' = "idle" /\ full' = isLast
    BY <1>9 DEF SendFlags
  <2>3. Window' /\ EndOfWindow'
    BY <2>1, <2>2 DEF Content, Window, EndOfWindow, End, Armed, Pending
  <2>4. Places'
    <3>1. CASE isLast
      BY <2>2, <3>1 DEF Places, Armed
    <3>2. CASE ~isLast
      <4>1. Pending' = Pending /\ Pending <= Dist(dirty, cur)
        BY <2>1, <2>2, <3>2 DEF Pending, Places
      <4>2. InUse' = Dist(dirty, cur)
        <5>1. Dist(dirty, cur) \in Int
          BY DistRange, TypeFacts
        <5> QED
          BY <2>2, <5>1 DEF InUse, Armed
      <4> QED
        BY <2>2, <4>1, <4>2 DEF Places
    <3> QED
      BY <3>1, <3>2
  <2> QED
    BY <2>3, <2>4
<1>2. CASE OutputCopies
  <2>1. Window /\ EndOfWindow /\ Places
    BY <1>2 DEF OutputCopies, RingInv, TypeOK
  <2>2. overwrote' = (overwrote \/ full) /\ pc = "copy" /\ pc' = "check" /\ bd = cur
        /\ buf' = [buf EXCEPT ![cur] = fr]
        /\ UNCHANGED <<ready, cur, full, dirty, bd, fr, txDma, wire, handed>>
    BY <1>2, <2>1 DEF OutputCopies, TypeOK, Places
  <2>3. ~full => ~ready[cur]
    BY <2>1, <2>2, FreeAtEnd
  <2>4. Window'
    <3>1. Pending' = Pending
      BY <2>2 DEF Pending
    <3>2. ~full => \A i \in TxBd : ready[i] => buf'[i] = buf[i]
      BY <2>2, <2>3 DEF TypeOK
    <3> QED
      BY <2>1, <2>2, <3>1, <3>2 DEF Window, Content
  <2>5. EndOfWindow' /\ Places'
    <3>1. buf'[cur] = fr
      BY <2>2, TypeFacts
    <3>2. InUse' = InUse /\ Pending' = Pending /\ End' = End
      BY <2>2 DEF InUse, Armed, Pending, End
    <3> QED
      BY <2>1, <2>2, <3>1, <3>2 DEF EndOfWindow, Places
  <2> QED
    BY <2>4, <2>5
<1>5. CASE SendArms
  <2>1. Window /\ EndOfWindow /\ Places
    BY <1>5 DEF SendArms, RingInv, TypeOK
  <2>2. ~full /\ pc = "arm" /\ pc' = "load" /\ bd = cur /\ buf[cur] = fr
        /\ ready' = [ready EXCEPT ![cur] = TRUE]
        /\ handed' = Append(handed, fr)
        /\ UNCHANGED <<buf, cur, full, dirty, bd, fr, txDma, wire, overwrote>>
    BY <1>5, <2>1 DEF SendArms, Places
  <2>3. /\ Pending < TxNum /\ Pending <= Dist(dirty, cur)
        /\ Dist(txDma, cur) = Pending
    BY <2>1, <2>2, FreeAtEnd
  <2>4. fr \in 0..MaxFrames /\ bd \in TxBd
    BY DEF TypeOK
  <2>5. Window' /\ Pending' = Pending + 1
    BY <2>1, <2>2, <2>3, <2>4, ArmWindow
  <2>6. EndOfWindow'
    <3>1. End' = IncrTxBuffDescripIndex(cur)
      BY <2>2 DEF End, Armed
    <3> QED
      BY <2>2, <2>3, <2>5, <3>1, NextEnd DEF EndOfWindow
  <2>7. Places'
    <3>1. Dist(dirty, cur) \in Int /\ Pending \in Int
      BY DistRange, TypeFacts
    <3>2. InUse' = Dist(dirty, cur) + 1
      BY <2>2 DEF InUse, Armed
    <3>3. Pending' <= InUse'
      BY <2>3, <2>5, <3>1, <3>2
    <3> QED
      BY <2>2, <3>3 DEF Places
  <2> QED
    BY <2>5, <2>6, <2>7
<1>7. CASE SendSteps
  <2>1. Window /\ EndOfWindow /\ Places
    BY <1>7 DEF SendSteps, RingInv, TypeOK
  <2>2. ~full /\ pc = "step" /\ pc' = "compare" /\ bd = cur
        /\ cur' = IncrTxBuffDescripIndex(cur)
        /\ UNCHANGED <<buf, ready, full, dirty, fr, txDma, wire, handed, overwrote>>
    BY <1>7, <2>1 DEF SendSteps, Places
  <2>3. Window' /\ EndOfWindow' /\ Pending' = Pending
    BY <2>1, <2>2 DEF Content, Window, EndOfWindow, End, Armed, Pending
  <2>4. Places'
    <3>1. Pending <= Dist(dirty, cur) + 1
      BY <2>1, <2>2 DEF Places, InUse, Armed
    <3>2. CASE cur' = dirty
      BY <2>2, <3>2 DEF Places
    <3>3. CASE cur' # dirty
      <4>1. Dist(dirty, cur') = Dist(dirty, cur) + 1
        BY <2>2, <3>3, DistTo, TypeFacts
      <4> QED
        BY <2>2, <2>3, <3>1, <4>1 DEF Places
    <3> QED
      BY <3>2, <3>3
  <2> QED
    BY <2>3, <2>4
<1> QED
  BY <1>1, <1>2, <1>3, <1>4, <1>5, <1>6, <1>7, <1>8, <1>9 DEF LoopSend

(* A descriptor that is to be cleaned is not ready, so the ready ones start   *)
(* after it. *)
LEMMA CleanedBefore ==
  ASSUME TypeOK, Window, EndOfWindow, ~ready[dirty], dirty # cur
  PROVE  /\ ~Armed => Pending # Dist(dirty, cur)
         /\ Armed => Pending # Dist(dirty, cur) + 1
<1>1. /\ Dist(txDma, dirty) \in 0..TxNum - 1 /\ Dist(dirty, cur) \in 0..TxNum - 1
      /\ Dist(txDma, cur) \in 0..TxNum - 1 /\ Pending \in 0..TxNum
  BY DistRange, TypeFacts DEF Window
<1>2. Dist(dirty, cur) # 0
  BY DistZero, TypeFacts
<1>3. Dist(txDma, dirty) >= Pending
  BY <1>1, TypeFacts DEF Window
<1>4. Pending # TxNum
  BY <1>1, <1>3
<1>5. Dist(txDma, End) = Pending
  BY <1>4 DEF EndOfWindow
<1>6. Pending > 0 => Dist(txDma, cur) # Dist(dirty, cur)
  <2> SUFFICES ASSUME Pending > 0, Dist(txDma, cur) = Dist(dirty, cur) PROVE FALSE
    OBVIOUS
  <2>1. txDma = dirty
    BY DistSameFrom, TypeFacts
  <2>2. Dist(txDma, dirty) = 0
    BY <2>1, DistZero, TypeFacts
  <2> QED
    BY <1>1, <1>3, <2>2
<1>7. ASSUME Armed, Pending = Dist(dirty, cur) + 1 PROVE FALSE
  <2>1. End = IncrTxBuffDescripIndex(cur) /\ End \in TxBd
    BY <1>7, IncrInRing, TypeFacts DEF End
  <2>2. Pending > 0
    BY <1>1, <1>7
  <2>3. End # txDma
    BY <1>5, <2>1, <2>2, DistZero, TypeFacts
  <2>4. Dist(txDma, End) = Dist(txDma, cur) + 1
    BY <2>1, <2>3, DistTo, TypeFacts
  <2> QED
    BY <1>1, <1>5, <1>6, <1>7, <2>2, <2>4
<1>8. ASSUME ~Armed, Pending = Dist(dirty, cur) PROVE FALSE
  <2>1. End = cur
    BY <1>8 DEF End
  <2> QED
    BY <1>1, <1>2, <1>5, <1>6, <1>8, <2>1
<1> QED
  BY <1>7, <1>8

(* ENET_DRV_CleanupTxBuffDescrip. *)
LEMMA CleanupStep == TypeOK /\ RingInv /\ CleanupTxBuffDescrip => RingInv'
<1> SUFFICES ASSUME TypeOK, RingInv, CleanupTxBuffDescrip, ~raced'
             PROVE  (Window /\ EndOfWindow /\ Places)'
  BY DEF RingInv
<1>1. Window /\ EndOfWindow /\ Places
  BY DEF CleanupTxBuffDescrip, RingInv, history
<1>2. UNCHANGED <<buf, ready, cur, full, pc, bd, fr, isLast, txDma, wire, handed,
                  overwrote>>
      /\ dirty' = IncrTxBuffDescripIndex(dirty)
      /\ (dirty # cur \/ full) /\ ~ready[dirty]
  BY DEF CleanupTxBuffDescrip, ToClean, ring, loop, dma, history
<1>3. Window' /\ EndOfWindow' /\ Pending' = Pending
  BY <1>1, <1>2 DEF Content, Window, EndOfWindow, End, Armed, Pending
<1>4. CASE full
  BY <1>1, <1>2, <1>3, <1>4 DEF Places
<1>5. CASE ~full
  <2>1. dirty # cur
    BY <1>2, <1>5
  <2>2. Dist(dirty', cur) = Dist(dirty, cur) - 1
    BY <1>2, <2>1, DistFrom, TypeFacts
  <2>3. Pending \in Int /\ Dist(dirty, cur) \in Int
    BY DistRange, TypeFacts
  <2>4. ~Armed => Pending # Dist(dirty, cur)
    BY <1>1, <1>2, <2>1, CleanedBefore
  <2>5. Armed => Pending # Dist(dirty, cur) + 1
    BY <1>1, <1>2, <2>1, CleanedBefore
  <2>6. pc \notin {"compare", "flag"} => Pending' <= InUse'
    <3>1. pc \notin {"compare", "flag"} => Pending <= InUse
      BY <1>1, <1>5 DEF Places
    <3>2. InUse' = Dist(dirty, cur) - 1 + (IF Armed THEN 1 ELSE 0)
      BY <1>2, <2>2 DEF InUse, Armed
    <3> QED
      BY <1>3, <2>3, <2>4, <2>5, <3>1, <3>2 DEF InUse
  <2>7. pc = "compare" \/ (pc = "flag" /\ ~isLast) => Pending <= Dist(dirty', cur)
    <3>1. pc = "compare" \/ (pc = "flag" /\ ~isLast) => Pending <= Dist(dirty, cur)
      BY <1>1, <2>1 DEF Places
    <3> QED
      BY <2>2, <2>3, <2>4, <3>1 DEF Armed
  <2> QED
    BY <1>1, <1>2, <1>3, <2>6, <2>7 DEF Places
<1> QED
  BY <1>3, <1>4, <1>5

(* The DMA sends the first frame of the window. *)
LEMMA DmaSendsStep == TypeOK /\ RingInv /\ DmaSends => RingInv'
<1> SUFFICES ASSUME TypeOK, RingInv, DmaSends, ~raced'
             PROVE  (Window /\ EndOfWindow /\ Places)'
  BY DEF RingInv
<1>1. Window /\ EndOfWindow /\ Places
  BY DEF DmaSends, RingInv, history
<1>2. /\ ready[txDma] /\ ready' = [ready EXCEPT ![txDma] = FALSE]
      /\ txDma' = IncrTxBuffDescripIndex(txDma)
      /\ wire' = Append(wire, buf[txDma])
      /\ UNCHANGED <<buf, cur, full, dirty, pc, bd, fr, isLast, handed, overwrote>>
  BY DEF DmaSends, loop, history
<1>3. /\ Len(wire') = Len(wire) + 1 /\ wire'[Len(wire) + 1] = buf[txDma]
      /\ \A k \in 1..Len(wire) : wire'[k] = wire[k]
  BY <1>2, TypeFacts DEF TypeOK
<1>4. Pending' = Pending - 1
  BY <1>2, <1>3, TypeFacts DEF Pending
<1>5. Dist(txDma, txDma) = 0
  BY DistZero, TypeFacts
<1>6. Pending \in 1..TxNum
  BY <1>1, <1>2, <1>5, TypeFacts DEF Window
<1>7. \A i \in TxBd : i # txDma => Dist(txDma', i) = Dist(txDma, i) - 1
  BY <1>2, DistFrom, TypeFacts
<1>8. Dist(txDma', txDma) = TxNum - 1
  BY <1>2, DistFromSelf, TypeFacts
<1>9. Window'
  <2>1. ASSUME NEW i \in TxBd PROVE ready'[i] <=> Dist(txDma', i) < Pending'
    <3>1. CASE i = txDma
      BY <1>2, <1>4, <1>6, <1>8, <3>1, TypeFacts
    <3>2. CASE i # txDma
      <4>1. Dist(txDma, i) \in Int
        BY DistRange, TypeFacts
      <4>2. ready'[i] = ready[i]
        BY <1>2, <3>2, TypeFacts
      <4> QED
        BY <1>1, <1>4, <1>6, <1>7, <3>2, <4>1, <4>2 DEF Window
    <3> QED
      BY <3>1, <3>2
  <2>2. ASSUME ~overwrote, NEW i \in TxBd, ready'[i]
        PROVE  buf[i] = handed[Len(wire') + 1 + Dist(txDma', i)]
    <3>1. i # txDma
      BY <1>2, <2>2, TypeFacts
    <3>2. ready[i]
      BY <1>2, <2>2, <3>1, TypeFacts
    <3>3. Dist(txDma, i) \in Int
      BY DistRange, TypeFacts
    <3>4. Len(wire') + 1 + Dist(txDma', i) = Len(wire) + 1 + Dist(txDma, i)
      BY <1>3, <1>7, <3>1, <3>3, TypeFacts
    <3> QED
      BY <1>1, <2>2, <3>2, <3>4 DEF Window, Content
  <2>3. ~overwrote => \A k \in 1..Len(wire') : wire'[k] = handed[k]
    <3> SUFFICES ASSUME ~overwrote
                 PROVE  \A k \in 1..Len(wire') : wire'[k] = handed[k]
      OBVIOUS
    <3>1. buf[txDma] = handed[Len(wire) + 1]
      BY <1>1, <1>2, <1>5, TypeFacts DEF Window, Content
    <3> QED
      BY <1>1, <1>3, <3>1, TypeFacts DEF Window, Content
  <2>4. Pending' \in 0..TxNum
    BY <1>4, <1>6
  <2> QED
    BY <1>2, <2>1, <2>2, <2>3, <2>4 DEF Window, Content
<1>10. EndOfWindow'
  <2>1. End' = End /\ End \in TxBd
    BY <1>2, IncrInRing, TypeFacts DEF End, Armed
  <2>2. CASE End = txDma
    <3>1. Pending = TxNum
      BY <1>1, <1>5, <1>6, <2>2 DEF EndOfWindow
    <3> QED
      BY <1>4, <1>8, <2>1, <2>2, <3>1 DEF EndOfWindow
  <2>3. CASE End # txDma
    <3>1. Dist(txDma, End) = Pending
      BY <1>1, <2>3 DEF EndOfWindow
    <3> QED
      BY <1>4, <1>7, <2>1, <2>3, <3>1 DEF EndOfWindow
  <2> QED
    BY <2>2, <2>3
<1>11. Places'
  <2>1. Dist(dirty, cur) \in Int /\ Pending \in Int
    BY DistRange, TypeFacts
  <2>2. InUse' = InUse /\ InUse \in Int
    BY <1>2, <2>1 DEF InUse, Armed
  <2> QED
    BY <1>1, <1>2, <1>4, <2>1, <2>2 DEF Places
<1> QED
  BY <1>9, <1>10, <1>11

(* The interrupt sends, the loop being outside its own send. *)
LEMMA AcceptedStep ==
  TypeOK /\ RingInv /\ Answer /\ Accepted(sent') /\ UNCHANGED <<dirty, loop, txDma, wire>>
    => RingInv'
<1> SUFFICES ASSUME TypeOK, RingInv, Answer, Accepted(sent'),
                    UNCHANGED <<dirty, loop, txDma, wire>>, ~raced'
             PROVE  (Window /\ EndOfWindow /\ Places)'
  BY DEF RingInv
<1>1. /\ ~raced /\ ~full /\ pc = "idle" /\ overwrote' = overwrote
      /\ buf' = [buf EXCEPT ![cur] = sent'] /\ sent' \in 0..MaxFrames
  <2>1. ~full /\ overwrote' = (overwrote \/ full) /\ overwrote \in BOOLEAN
    BY DEF Answer, Accepted, TypeOK
  <2>2. ~raced /\ pc = "idle"
    BY DEF Answer
  <2> QED
    BY <2>1, <2>2 DEF Answer, TypeOK
<1>2. Window /\ EndOfWindow /\ Places
  BY <1>1 DEF RingInv
<1>3. /\ ready' = [ready EXCEPT ![cur] = TRUE]
      /\ cur' = IncrTxBuffDescripIndex(cur) /\ full' = (cur' = dirty)
      /\ handed' = Append(handed, sent')
  BY DEF Accepted
<1>4. /\ Pending < TxNum /\ Pending <= Dist(dirty, cur)
      /\ Dist(txDma, cur) = Pending
  BY <1>1, <1>2, FreeAtEnd
<1>5. buf'[cur] = sent' /\ (\A i \in TxBd : i # cur => buf'[i] = buf[i])
  BY <1>1, TypeFacts
<1>6. Window' /\ Pending' = Pending + 1
  BY <1>1, <1>2, <1>3, <1>4, <1>5, ArmWindow
<1>7. ~Armed' /\ End' = cur'
  BY <1>1 DEF Armed, End, loop
<1>8. EndOfWindow'
  BY <1>3, <1>4, <1>6, <1>7, NextEnd DEF EndOfWindow
<1>9. Places'
  <2>1. cur' # dirty => Pending' <= InUse'
    <3> SUFFICES ASSUME cur' # dirty PROVE Pending' <= InUse'
      OBVIOUS
    <3>1. Dist(dirty, cur') = Dist(dirty, cur) + 1
      BY <1>3, DistTo, TypeFacts
    <3>2. Dist(dirty, cur) \in Int /\ Pending \in Int
      BY DistRange, TypeFacts
    <3>3. InUse' = Dist(dirty, cur')
      BY <1>7, <3>1, <3>2 DEF InUse
    <3> QED
      BY <1>4, <1>6, <3>1, <3>2, <3>3
  <2> QED
    BY <1>1, <1>3, <2>1 DEF Places, loop
<1> QED
  BY <1>6, <1>8, <1>9

(* Refused, it has written to a descriptor of the full ring, and no more. *)
LEMMA RefusedStep ==
  TypeOK /\ RingInv /\ Answer /\ Refused /\ UNCHANGED <<dirty, loop, txDma, wire>>
    => RingInv'
<1> SUFFICES ASSUME RingInv, Answer, Refused,
                    UNCHANGED <<dirty, loop, txDma, wire>>, ~raced'
             PROVE  (Window /\ EndOfWindow /\ Places)'
  BY DEF RingInv
<1>1. ~raced /\ pc = "idle" /\ full /\ overwrote'
  BY DEF Answer, Refused
<1>2. UNCHANGED <<ready, cur, full, dirty, pc, bd, fr, isLast, txDma, wire, handed>>
  BY DEF Refused, loop
<1>3. Window /\ EndOfWindow /\ Places
  BY <1>1 DEF RingInv
<1>4. Window' /\ EndOfWindow'
  BY <1>1, <1>2, <1>3 DEF Window, EndOfWindow, End, Armed, Pending
<1> QED
  BY <1>1, <1>2, <1>3, <1>4 DEF Places

LEMMA RingStep == TypeOK /\ RingInv /\ [Next]_vars => RingInv'
<1> SUFFICES ASSUME TypeOK, RingInv, [Next]_vars PROVE RingInv'
  OBVIOUS
<1> USE DEF ring, loop, dma, rxRing, history
<1>1. CASE LoopSend
  BY <1>1, LoopStep
<1>2. CASE TxIrq
  <2>1. CASE TxIrqEnters
    BY <2>1, RingUntouched DEF TxIrqEnters
  <2>2. CASE CleanupTxBuffDescrip
    BY <2>2, CleanupStep
  <2>3. CASE TxIrqChecks
    BY <2>3, RingUntouched DEF TxIrqChecks
  <2> QED
    BY <1>2, <2>1, <2>2, <2>3 DEF TxIrq
<1>3. CASE RxIrq
  <2>1. CASE ReceiveGood /\ Answer
    BY <2>1, AcceptedStep, RefusedStep DEF ReceiveGood, Answer
  <2>2. CASE ReceiveGood /\ NoAnswer
    BY <2>2, RingUntouched DEF ReceiveGood, NoAnswer
  <2>3. CASE RxIrqEnters
    BY <2>3, RingUntouched DEF RxIrqEnters
  <2>4. CASE ReceiveBad
    BY <2>4, RingUntouched DEF ReceiveBad
  <2>5. CASE ReceiveNone
    BY <2>5, RingUntouched DEF ReceiveNone
  <2> QED
    BY <1>3, <2>1, <2>2, <2>3, <2>4, <2>5 DEF RxIrq, ReceiveGood
<1>4. CASE Dma
  <2>1. CASE DmaSends
    BY <2>1, DmaSendsStep
  <2>2. CASE DmaStops
    BY <2>2, RingUntouched DEF DmaStops
  <2> QED
    BY <1>4, <2>1, <2>2 DEF Dma
<1>5. CASE \E kind \in {"good", "bad"} : FrameArrives(kind)
  BY <1>5, RingUntouched DEF FrameArrives
<1>6. CASE UNCHANGED vars
  BY <1>6, RingUntouched DEF vars
<1> QED
  BY <1>1, <1>2, <1>3, <1>4, <1>5, <1>6 DEF Next

-----------------------------------------------------------------------------
(* The inductive invariant. *)
THEOREM Invariance == Spec => []IndInv
<1>1. IndInv /\ [Next]_vars => IndInv'
  BY TypeStep, RingStep DEF IndInv
<1> QED
  BY InitInv, <1>1, PTL DEF Spec

(* The state of the driver and of the controller keeps its types: both ring   *)
(* pointers and the DMA's place stay inside the rings, whatever their sizes.   *)
THEOREM TypeCorrect == Spec => []TypeOK
<1>1. IndInv => TypeOK
  BY DEF IndInv
<1> QED
  BY <1>1, Invariance, PTL

(* Until the senders meet or a frame is copied into a full ring, the wire       *)
(* carries the frames ENET_DRV_SendData made ready, each once and in order.    *)
THEOREM Faithful == Spec => []WireFaithful
<1>1. IndInv => WireFaithful
  <2> SUFFICES ASSUME IndInv, ~raced, ~overwrote
               PROVE  /\ Len(wire) <= Len(handed)
                      /\ \A k \in 1..Len(wire) : wire[k] = handed[k]
    BY DEF WireFaithful
  <2>1. TypeOK /\ Window
    BY DEF IndInv, RingInv
  <2>2. Len(wire) <= Len(handed)
    BY <2>1, TypeFacts DEF Window, Pending
  <2> QED
    BY <2>1, <2>2 DEF Window, Content
<1> QED
  BY <1>1, Invariance, PTL

(* Until the senders meet, the DMA does not stop at a gap before a ready         *)
(* descriptor, a full ring written to or not. *)
THEOREM Gapless == Spec => []NoGap
<1>1. IndInv => NoGap
  <2> SUFFICES ASSUME IndInv, ~raced, NEW i \in TxBd, ready[i]
               PROVE  ready[txDma]
    BY DEF NoGap
  <2>1. TypeOK /\ Window
    BY DEF IndInv, RingInv
  <2>2. Dist(txDma, i) \in 0..TxNum - 1 /\ Dist(txDma, txDma) = 0
    BY <2>1, DistRange, DistZero, TypeFacts
  <2> QED
    BY <2>1, <2>2, TypeFacts DEF Window
<1> QED
  BY <1>1, Invariance, PTL

-----------------------------------------------------------------------------
(* Descriptors sent and not yet cleaned, once the interrupt has seen to all    *)
(* that were sent: the one whose step of cur it may not have noticed. *)
CleanInv ==
  ~raced /\ ~full /\ ~txf /\ isr # "tx" =>
    /\ pc \notin {"compare", "flag"} => InUse <= Pending + 1
    /\ pc = "compare" /\ cur # dirty => Dist(dirty, cur) <= Pending + 1
    /\ pc = "flag" /\ ~isLast => Dist(dirty, cur) <= Pending + 1

LEMMA CleanUntouched ==
  ASSUME CleanInv, isr' # "tx" => isr # "tx", ~txf' => ~txf,
         UNCHANGED <<ring, dirty, loop, wire, handed, raced>>
  PROVE  CleanInv'
BY DEF CleanInv, InUse, Armed, Pending, Dist, ring, loop

(* The loop's send takes the armed descriptor along. *)
LEMMA CleanLoop == TypeOK /\ RingInv /\ CleanInv /\ LoopSend => CleanInv'
<1> SUFFICES ASSUME TypeOK, RingInv, CleanInv, LoopSend,
                    ~raced', ~full', ~txf', isr' # "tx"
             PROVE  /\ pc' \notin {"compare", "flag"} => InUse' <= Pending' + 1
                    /\ pc' = "compare" /\ cur' # dirty' => Dist(dirty', cur') <= Pending' + 1
                    /\ pc' = "flag" /\ ~isLast' => Dist(dirty', cur') <= Pending' + 1
  BY DEF CleanInv
<1> USE DEF LoopRuns, ring, loop, dma, rxRing, history
<1>1. ~raced /\ ~txf /\ isr # "tx" /\ dirty' = dirty /\ wire' = wire
  BY DEF LoopSend, OutputBegins, OutputCopies, SendChecks, SendTakes, SendArms, SendLoads,
         SendSteps, SendCompares, SendFlags
<1>2. Places
  BY <1>1 DEF RingInv
<1>3. Pending \in Int /\ Dist(dirty, cur) \in Int
  BY DistRange, TypeFacts
<1>4. CASE SendSteps
  <2>1. /\ pc = "step" /\ pc' = "compare" /\ ~full /\ bd = cur
        /\ cur' = IncrTxBuffDescripIndex(cur) /\ Pending' = Pending
    BY <1>1, <1>2, <1>4 DEF SendSteps, Places, Pending
  <2>2. Dist(dirty, cur) + 1 <= Pending + 1
    BY <1>1, <1>3, <2>1 DEF CleanInv, InUse, Armed
  <2>3. cur' # dirty => Dist(dirty, cur') = Dist(dirty, cur) + 1
    BY <2>1, DistTo, TypeFacts
  <2> QED
    BY <1>1, <1>3, <2>1, <2>2, <2>3
<1>5. CASE SendFlags
  <2>1. /\ pc = "flag" /\ pc' = "idle" /\ ~full /\ ~isLast /\ cur' = cur
        /\ Pending' = Pending
    BY <1>2, <1>5 DEF SendFlags, Places, Pending
  <2>2. Dist(dirty, cur) <= Pending + 1
    BY <1>1, <2>1 DEF CleanInv
  <2>3. InUse' = Dist(dirty, cur)
    BY <1>1, <1>3, <2>1 DEF InUse, Armed
  <2> QED
    BY <2>1, <2>2, <2>3
<1>6. CASE SendArms
  <2>1. /\ pc = "arm" /\ pc' = "load" /\ ~full /\ cur' = cur
        /\ handed' = Append(handed, fr) /\ fr \in 0..MaxFrames
    BY <1>2, <1>6 DEF SendArms, Places, TypeOK
  <2>2. Pending' = Pending + 1
    BY <1>1, <2>1, HandOver, TypeFacts DEF Pending
  <2>3. Dist(dirty, cur) <= Pending + 1
    BY <1>1, <1>3, <2>1 DEF CleanInv, InUse, Armed
  <2>4. InUse' = Dist(dirty, cur) + 1
    BY <1>1, <2>1 DEF InUse, Armed
  <2> QED
    BY <1>3, <2>1, <2>2, <2>3, <2>4
<1>7. CASE OutputBegins \/ OutputCopies \/ SendChecks \/ SendTakes \/ SendLoads
  <2>1. /\ pc \notin {"compare", "flag"} /\ pc' \notin {"compare", "flag"}
        /\ Armed' <=> Armed
        /\ UNCHANGED <<cur, full, handed>>
    BY <1>7 DEF OutputBegins, OutputCopies, SendChecks, SendTakes, SendLoads, Armed
  <2>2. InUse <= Pending + 1
    BY <1>1, <2>1 DEF CleanInv
  <2>3. InUse' = InUse /\ Pending' = Pending
    BY <1>1, <2>1 DEF InUse, Pending
  <2> QED
    BY <2>1, <2>2, <2>3
<1>8. CASE SendCompares
  <2>1. /\ pc = "compare" /\ pc' = "flag" /\ ~full /\ (isLast' <=> cur = dirty)
        /\ cur' = cur /\ Pending' = Pending
    BY <1>2, <1>8 DEF SendCompares, Places, Pending
  <2> QED
    BY <1>1, <2>1 DEF CleanInv
<1> QED
  BY <1>4, <1>5, <1>6, <1>7, <1>8 DEF LoopSend

(* ENET_DRV_TxIRQHandler returns when it has cleaned everything or has come to  *)
(* a descriptor that is ready, which is the first of the window. *)
LEMMA CleanChecked == TypeOK /\ RingInv /\ CleanInv /\ TxIrqChecks => CleanInv'
<1> SUFFICES ASSUME TypeOK, RingInv, TxIrqChecks PROVE CleanInv'
  OBVIOUS
<1> SUFFICES ASSUME ~raced', ~full'
             PROVE  /\ pc \notin {"compare", "flag"} => InUse <= Pending + 1
                    /\ pc = "compare" /\ cur # dirty => Dist(dirty, cur) <= Pending + 1
                    /\ pc = "flag" /\ ~isLast => Dist(dirty, cur) <= Pending + 1
  <2>1. UNCHANGED <<ring, dirty, loop, wire, history>>
    BY DEF TxIrqChecks
  <2> QED
    BY <2>1 DEF CleanInv, InUse, Armed, Pending, Dist, ring, loop, history
<1>1. ~raced /\ ~full /\ (dirty # cur => ready[dirty])
  BY DEF TxIrqChecks, ToClean, ring, history
<1>2. Window /\ EndOfWindow /\ Places
  BY <1>1 DEF RingInv
<1>3. /\ Dist(dirty, cur) \in 0..TxNum - 1 /\ Dist(txDma, dirty) \in 0..TxNum - 1
      /\ Dist(txDma, cur) \in 0..TxNum - 1 /\ Pending \in 0..TxNum
  BY <1>2, DistRange, TypeFacts DEF Window
<1>4. CASE dirty = cur
  <2>1. Dist(dirty, cur) = 0
    BY <1>4, DistZero, TypeFacts
  <2> QED
    BY <1>3, <2>1 DEF InUse
<1>5. CASE dirty # cur
  <2>1. Dist(txDma, dirty) < Pending
    BY <1>1, <1>2, <1>5, TypeFacts DEF Window
  <2>2. Dist(dirty, cur) <= Pending
    <3>1. CASE Armed
      <4>1. End = IncrTxBuffDescripIndex(cur) /\ End \in TxBd
        BY <3>1, IncrInRing, TypeFacts DEF End
      <4>2. CASE End = txDma
        <5>1. Pending = TxNum \/ Pending = 0
          BY <1>2, <4>1, <4>2, DistZero, TypeFacts DEF EndOfWindow
        <5> QED
          BY <1>3, <2>1, <5>1
      <4>3. CASE End # txDma
        <5>1. Dist(txDma, cur) + 1 = Pending
          BY <1>2, <1>3, <4>1, <4>3, DistTo, TypeFacts DEF EndOfWindow
        <5>2. Dist(txDma, dirty) # Dist(txDma, cur)
          BY <1>5, DistSame, TypeFacts
        <5>3. Dist(dirty, cur) <= Dist(txDma, cur)
          BY <1>3, <2>1, <5>1, <5>2, DistBetween, TypeFacts
        <5> QED
          BY <1>3, <5>1, <5>3
      <4> QED
        BY <4>2, <4>3
    <3>2. CASE ~Armed
      <4>1. End = cur
        BY <3>2 DEF End
      <4>2. CASE Pending = TxNum
        BY <1>3, <4>2
      <4>3. CASE Pending # TxNum
        <5>1. Dist(txDma, cur) = Pending
          BY <1>2, <4>1, <4>3 DEF EndOfWindow
        <5> QED
          BY <1>3, <2>1, <5>1, DistBetween, TypeFacts
      <4> QED
        BY <4>2, <4>3
    <3> QED
      BY <3>1, <3>2
  <2> QED
    BY <1>3, <2>2 DEF InUse
<1> QED
  BY <1>4, <1>5

(* An answer of the interrupt takes a descriptor and makes it ready at once. *)
LEMMA CleanAnswered ==
  TypeOK /\ RingInv /\ CleanInv /\ Answer /\ Accepted(sent')
    /\ UNCHANGED <<dirty, loop, txDma, txf, wire, isr>> => CleanInv'
<1> SUFFICES ASSUME TypeOK, RingInv, CleanInv, Answer, Accepted(sent'),
                    UNCHANGED <<dirty, loop, txDma, txf, wire, isr>>,
                    ~raced', ~full', ~txf', isr' # "tx"
             PROVE  pc' = "idle" /\ InUse' <= Pending' + 1
  BY DEF CleanInv
<1>1. ~raced /\ ~full /\ pc = "idle" /\ pc' = "idle"
  BY DEF Answer, Accepted, loop
<1>2. sent' \in 0..MaxFrames /\ handed' = Append(handed, sent')
  BY DEF Answer, Accepted, TypeOK
<1>3. Pending' = Pending + 1
  BY <1>2, HandOver, TypeFacts DEF Pending
<1>4. cur' = IncrTxBuffDescripIndex(cur) /\ cur' # dirty
  BY DEF Accepted
<1>5. Dist(dirty, cur') = Dist(dirty, cur) + 1
  BY <1>4, DistTo, TypeFacts
<1>6. Dist(dirty, cur) \in Int /\ Pending \in Int
  BY DistRange, TypeFacts
<1>7. Dist(dirty, cur) <= Pending + 1
  BY <1>1, <1>6 DEF CleanInv, InUse, Armed
<1>8. InUse' = Dist(dirty, cur')
  BY <1>1, <1>5, <1>6 DEF InUse, Armed
<1> QED
  BY <1>1, <1>3, <1>5, <1>6, <1>7, <1>8

LEMMA CleanStep == IndInv /\ CleanInv /\ [Next]_vars => CleanInv'
<1> SUFFICES ASSUME TypeOK, RingInv, CleanInv, [Next]_vars PROVE CleanInv'
  BY DEF IndInv
<1> USE DEF ring, loop, dma, rxRing, history
<1>1. CASE LoopSend
  BY <1>1, CleanLoop
<1>2. CASE TxIrq
  <2>1. CASE TxIrqEnters
    BY <2>1 DEF TxIrqEnters, CleanInv
  <2>2. CASE CleanupTxBuffDescrip
    BY <2>2 DEF CleanupTxBuffDescrip, CleanInv
  <2>3. CASE TxIrqChecks
    BY <2>3, CleanChecked
  <2> QED
    BY <1>2, <2>1, <2>2, <2>3 DEF TxIrq
<1>3. CASE RxIrq
  <2>1. CASE ReceiveGood /\ Answer /\ Accepted(sent')
    BY <2>1, CleanAnswered DEF ReceiveGood
  <2>2. CASE ReceiveGood /\ Answer /\ Refused
    BY <2>2 DEF Refused, CleanInv
  <2>3. CASE ReceiveGood /\ NoAnswer
    BY <2>3, CleanUntouched DEF ReceiveGood, NoAnswer
  <2>4. CASE RxIrqEnters
    BY <2>4, CleanUntouched DEF RxIrqEnters
  <2>5. CASE ReceiveBad
    BY <2>5, CleanUntouched DEF ReceiveBad
  <2>6. CASE ReceiveNone
    BY <2>6, CleanUntouched DEF ReceiveNone
  <2> QED
    BY <1>3, <2>1, <2>2, <2>3, <2>4, <2>5, <2>6 DEF RxIrq, ReceiveGood, Answer
<1>4. CASE Dma
  <2>1. CASE DmaSends
    BY <2>1 DEF DmaSends, CleanInv
  <2>2. CASE DmaStops
    BY <2>2, CleanUntouched DEF DmaStops
  <2> QED
    BY <1>4, <2>1, <2>2 DEF Dma
<1>5. CASE \E kind \in {"good", "bad"} : FrameArrives(kind)
  BY <1>5, CleanUntouched DEF FrameArrives
<1>6. CASE UNCHANGED vars
  BY <1>6, CleanUntouched DEF vars
<1> QED
  BY <1>1, <1>2, <1>3, <1>4, <1>5, <1>6 DEF Next

(* When everything has been sent and no transmit interrupt is pending, at most  *)
(* one descriptor is still to be cleaned, whatever the size of the ring.        *)
THEOREM AlmostClean == Spec => []AtMostOneUncleaned
<1>1. Init => CleanInv
  BY DEF Init, CleanInv, InUse, Armed, Pending, Dist
<1>2. IndInv /\ CleanInv => AtMostOneUncleaned
  <2> SUFFICES ASSUME TypeOK, RingInv, CleanInv, pc = "idle", isr = "none", ~txf, ~full,
                      ~raced, \A i \in TxBd : ~ready[i]
               PROVE  cur \in {dirty, IncrTxBuffDescripIndex(dirty)}
    BY DEF IndInv, AtMostOneUncleaned
  <2>1. Dist(dirty, cur) \in 0..TxNum - 1 /\ Pending \in 0..TxNum /\ Dist(txDma, txDma) = 0
    BY DistRange, DistZero, TypeFacts DEF RingInv, Window
  <2>2. Pending = 0
    BY <2>1, TypeFacts DEF RingInv, Window
  <2>3. Dist(dirty, cur) <= 1
    BY <2>1, <2>2 DEF CleanInv, InUse, Armed
  <2> QED
    BY <2>1, <2>3, DistZero, DistOne, TypeFacts
<1> QED
  BY <1>1, <1>2, CleanStep, Invariance, PTL DEF Spec

-----------------------------------------------------------------------------
(* The receive ring: the frames waiting lie from rxCur up to rxDma. *)
RxDist(i, j) == IF i <= j THEN j - i ELSE j - i + RxNum

Filled == {i \in RxBd : rx[i] # "empty"}

RxWindow ==
  \/ rxCur = rxDma /\ Filled \in {{}, RxBd}
  \/ /\ rxCur # rxDma
     /\ \A i \in RxBd : i \in Filled <=> RxDist(rxCur, i) < RxDist(rxCur, rxDma)

RxInv == TypeOK /\ RxWindow /\ WaitsBehindBad

LEMMA RxDistZero ==
  ASSUME NEW i \in RxBd, NEW j \in RxBd
  PROVE  RxDist(i, j) = 0 <=> j = i
BY DEF RxDist, RxBd

LEMMA NoneAtCur ==
  ASSUME TypeOK, RxWindow
  PROVE  rx[rxCur] = "empty" => Filled = {}
<1> SUFFICES ASSUME rx[rxCur] = "empty" PROVE Filled = {}
  OBVIOUS
<1>1. rxCur \in RxBd /\ rxDma \in RxBd /\ rxCur \notin Filled
  BY DEF TypeOK, Filled
<1>2. RxDist(rxCur, rxCur) = 0
  BY <1>1 DEF RxDist, RxBd
<1>3. rxCur # rxDma => RxDist(rxCur, rxDma) > 0
  BY <1>1 DEF RxDist, RxBd
<1> QED
  BY <1>1, <1>2, <1>3 DEF RxWindow

(* A descriptor is given back. *)
LEMMA RxGiven ==
  ASSUME TypeOK, RxWindow, rx[rxCur] # "empty", UpdateRxBuffDescrip
  PROVE  RxWindow'
<1>1. rxCur \in RxBd /\ rxDma \in RxBd /\ rxCur' \in RxBd
  BY DEF TypeOK, UpdateRxBuffDescrip, IncrRxBuffDescripIndex, RxBd
<1>2. rxCur' = IncrRxBuffDescripIndex(rxCur) /\ rxDma' = rxDma
  BY DEF UpdateRxBuffDescrip
<1>3. \A i \in RxBd : i \in Filled' <=> i \in Filled /\ i # rxCur
  BY DEF UpdateRxBuffDescrip, TypeOK, Filled
<1>4. rxCur \in Filled
  BY <1>1 DEF Filled
<1>5. \A i \in RxBd : i # rxCur => RxDist(rxCur', i) = RxDist(rxCur, i) - 1
  BY <1>1, <1>2 DEF RxDist, RxBd, IncrRxBuffDescripIndex
<1>6. RxDist(rxCur', rxCur) = RxNum - 1
  BY <1>1, <1>2 DEF RxDist, RxBd, IncrRxBuffDescripIndex
<1>7. rxCur' # rxCur
  BY <1>1, <1>2 DEF RxBd, IncrRxBuffDescripIndex
<1>8. \A i \in RxBd : /\ RxDist(rxCur, i) \in 0..RxNum - 1
                      /\ RxDist(rxCur, i) = 0 <=> i = rxCur
                      /\ RxDist(rxCur', i) = 0 <=> i = rxCur'
  <2> SUFFICES ASSUME NEW i \in RxBd
               PROVE  /\ RxDist(rxCur, i) \in 0..RxNum - 1
                      /\ RxDist(rxCur, i) = 0 <=> i = rxCur
                      /\ RxDist(rxCur', i) = 0 <=> i = rxCur'
    OBVIOUS
  <2>1. RxDist(rxCur, i) \in 0..RxNum - 1
    BY <1>1 DEF RxDist, RxBd
  <2>2. RxDist(rxCur, i) = 0 <=> i = rxCur
    BY <1>1, RxDistZero
  <2>3. RxDist(rxCur', i) = 0 <=> i = rxCur'
    BY <1>1, RxDistZero
  <2> QED
    BY <2>1, <2>2, <2>3
<1>9. CASE rxCur = rxDma
  <2>1. Filled = RxBd
    BY <1>4, <1>9 DEF RxWindow
  <2>2. \A i \in RxBd : i \in Filled' <=> RxDist(rxCur', i) < RxDist(rxCur', rxDma')
    BY <1>2, <1>3, <1>5, <1>6, <1>8, <1>9, <2>1
  <2> QED
    BY <1>2, <1>7, <1>9, <2>2 DEF RxWindow
<1>10. CASE rxCur # rxDma
  <2>1. \A i \in RxBd : i \in Filled <=> RxDist(rxCur, i) < RxDist(rxCur, rxDma)
    BY <1>10 DEF RxWindow
  <2>2. RxDist(rxCur', rxDma') = RxDist(rxCur, rxDma) - 1
    BY <1>1, <1>2, <1>5, <1>10
  <2>3. \A i \in RxBd : i \in Filled' <=> RxDist(rxCur', i) < RxDist(rxCur', rxDma')
    BY <1>1, <1>3, <1>5, <1>6, <1>8, <2>1, <2>2
  <2>4. CASE rxCur' = rxDma
    <3>1. RxDist(rxCur', rxDma') = 0
      BY <1>1, <1>2, <1>8, <2>4
    <3>2. \A i \in RxBd : i \notin Filled'
      BY <1>1, <1>3, <1>5, <1>8, <2>3, <3>1
    <3>3. Filled' = {}
      BY <3>2 DEF Filled
    <3> QED
      BY <1>2, <2>4, <3>3 DEF RxWindow
  <2>5. CASE rxCur' # rxDma
    BY <1>2, <2>3, <2>5 DEF RxWindow
  <2> QED
    BY <2>4, <2>5
<1> QED
  BY <1>9, <1>10

(* The controller fills one. *)
LEMMA RxFilled ==
  ASSUME TypeOK, RxWindow, NEW kind \in {"good", "bad"}, FrameArrives(kind)
  PROVE  RxWindow'
<1>1. rxCur \in RxBd /\ rxDma \in RxBd /\ rxDma' \in RxBd
  BY DEF TypeOK, FrameArrives, IncrRxBuffDescripIndex, RxBd
<1>2. rxDma' = IncrRxBuffDescripIndex(rxDma) /\ rxCur' = rxCur
  BY DEF FrameArrives
<1>3. \A i \in RxBd : i \in Filled' <=> i \in Filled \/ i = rxDma
  BY DEF FrameArrives, TypeOK, Filled
<1>4. rxDma \notin Filled
  BY DEF Filled, FrameArrives
<1>5. rxDma' # rxCur => RxDist(rxCur, rxDma') = RxDist(rxCur, rxDma) + 1
  BY <1>1, <1>2 DEF RxDist, RxBd, IncrRxBuffDescripIndex
<1>6. rxDma' = rxCur => RxDist(rxCur, rxDma) = RxNum - 1
  BY <1>1, <1>2 DEF RxDist, RxBd, IncrRxBuffDescripIndex
<1>7. \A i, j \in RxBd : /\ RxDist(i, j) \in 0..RxNum - 1
                         /\ RxDist(i, i) = 0
                         /\ RxDist(rxCur, i) = RxDist(rxCur, j) => i = j
  BY <1>1 DEF RxDist, RxBd
<1>8. \A i \in RxBd : i \in Filled <=> RxDist(rxCur, i) < RxDist(rxCur, rxDma)
  BY <1>1, <1>4, <1>7 DEF RxWindow, Filled
<1>9. CASE rxDma' # rxCur
  <2>1. \A i \in RxBd : i \in Filled' <=> RxDist(rxCur, i) < RxDist(rxCur, rxDma')
    BY <1>1, <1>3, <1>5, <1>7, <1>8, <1>9
  <2> QED
    BY <1>2, <1>9, <2>1 DEF RxWindow
<1>10. CASE rxDma' = rxCur
  <2>1. \A i \in RxBd : i \in Filled'
    BY <1>1, <1>3, <1>6, <1>7, <1>8, <1>10
  <2>2. Filled' = RxBd
    BY <2>1 DEF Filled
  <2> QED
    BY <1>2, <1>10, <2>2 DEF RxWindow
<1> QED
  BY <1>9, <1>10

LEMMA RxStep == RxInv /\ [Next]_vars => RxInv'
<1> SUFFICES ASSUME TypeOK, RxWindow, WaitsBehindBad, [Next]_vars
             PROVE  RxWindow' /\ WaitsBehindBad'
  BY TypeStep DEF RxInv
<1> USE DEF rxRing, history
<1>1. CASE UNCHANGED <<rxRing, isr, early>>
  BY <1>1 DEF RxWindow, Filled, WaitsBehindBad
<1>2. CASE LoopSend
  BY <1>1, <1>2 DEF LoopSend, OutputBegins, OutputCopies, SendChecks, SendTakes,
                    SendArms, SendLoads, SendSteps, SendCompares, SendFlags
<1>3. CASE TxIrq
  <2>1. UNCHANGED <<rxRing, early>> /\ isr # "rx"
    BY <1>3 DEF TxIrq, TxIrqEnters, CleanupTxBuffDescrip, TxIrqChecks
  <2> QED
    BY <2>1 DEF RxWindow, Filled, WaitsBehindBad
<1>4. CASE Dma
  BY <1>1, <1>4 DEF Dma, DmaSends, DmaStops
<1>5. CASE RxIrqEnters
  BY <1>5 DEF RxIrqEnters, RxWindow, Filled, WaitsBehindBad
<1>6. CASE ReceiveGood
  <2>1. RxWindow'
    BY <1>6, RxGiven DEF ReceiveGood
  <2> QED
    BY <1>6, <2>1 DEF ReceiveGood, WaitsBehindBad
<1>7. CASE ReceiveBad
  <2>1. RxWindow'
    BY <1>7, RxGiven DEF ReceiveBad
  <2> QED
    BY <1>7, <2>1 DEF ReceiveBad, WaitsBehindBad
<1>8. CASE ReceiveNone
  <2>1. RxWindow' /\ Filled' = {}
    BY <1>8, NoneAtCur DEF ReceiveNone, RxWindow, Filled
  <2> QED
    BY <2>1 DEF Filled, WaitsBehindBad
<1>9. CASE \E kind \in {"good", "bad"} : FrameArrives(kind)
  <2>1. RxWindow'
    BY <1>9, RxFilled
  <2>2. rxf'
    BY <1>9 DEF FrameArrives
  <2> QED
    BY <2>1, <2>2 DEF WaitsBehindBad
<1>10. CASE UNCHANGED vars
  BY <1>1, <1>10 DEF vars
<1> QED
  BY <1>2, <1>3, <1>4, <1>5, <1>6, <1>7, <1>8, <1>9, <1>10 DEF Next, RxIrq

LEMMA RxInvariance == Spec => []RxInv
<1>1. Init => RxInv
  <2> SUFFICES ASSUME Init PROVE RxInv
    OBVIOUS
  <2>1. TypeOK
    BY InitInv DEF IndInv
  <2>2. \A i \in RxBd : rx[i] = "empty"
    BY DEF Init
  <2>3. Filled = {} /\ rxCur = rxDma
    BY <2>2 DEF Init, Filled
  <2>4. WaitsBehindBad
    BY <2>2 DEF WaitsBehindBad
  <2> QED
    BY <2>1, <2>3, <2>4 DEF RxInv, RxWindow
<1> QED
  BY <1>1, RxStep, PTL DEF Spec

(* The driver passes over no received frame, whatever the sizes of the rings. *)
THEOREM NoFramePassed == Spec => []NoRxGap
<1>1. RxInv => NoRxGap
  BY NoneAtCur DEF RxInv, NoRxGap, Filled
<1> QED
  BY <1>1, RxInvariance, PTL

(* A frame waits with no interrupt pending only after ENET_DRV_ReceiveData     *)
(* returned early on a bad one. *)
THEOREM OnlyBehindBad == Spec => []WaitsBehindBad
<1>1. RxInv => WaitsBehindBad
  BY DEF RxInv
<1> QED
  BY <1>1, RxInvariance, PTL
=============================================================================
