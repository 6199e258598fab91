-------------------------- MODULE UartDriver_proofs --------------------------
(***************************************************************************)
(* The UART driver's types, that its busy flag and its interrupt agree, that *)
(* bytes go out in order, and from which pbuf: for every FIFO, pool, segment *)
(* size and number of frames.                                              *)
(***************************************************************************)
EXTENDS UartDriver, TLAPS

USE UartDriverAssumption

InHand == pc \in {"start", "fill", "complete", "send"}

(* What echo_recv knows at each place: of its segment, *)
Held ==
  InHand =>
    /\ seg.pbuf \in Pbufs \ free
    /\ content[seg.pbuf] = seg.id
    /\ seg.id = frames /\ seg.len > 0

(* and of the driver. *)
Places ==
  /\ pc = "start" => last.id < seg.id /\ txBuff.id < seg.id
  /\ pc \in {"fill", "complete"} => isTxBusy /\ ~irqOn
  /\ pc = "fill" =>
       /\ txSize > 0 /\ ~gone
       /\ fifo + room <= Fifo
       /\ txBuff.k + room = txBuff.fit + 1
  /\ pc = "complete" => txSize = 0
  /\ pc \in {"stopping", "going"} =>
       /\ irqOn => c2
       /\ RxInterrupt => (c2 => irqOn)
  /\ RxInterrupt => ~staleC2

(* A transfer in progress stands where its first bytes end, and what did not  *)
(* fit the FIFO at once is left to the interrupt. *)
Position ==
  isTxBusy =>
    /\ txBuff.k > 0
    /\ txBuff.k + txSize = txBuff.of + 1
    /\ pc \notin {"fill", "complete"} => txBuff.k > txBuff.fit

(* Its pbuf holds the segment, or once freed perhaps a later frame. *)
Payload ==
  isTxBusy =>
    /\ txBuff.pbuf \in Pbufs
    /\ content[txBuff.pbuf] >= txBuff.id
    /\ ~gone => txBuff.pbuf \notin free /\ content[txBuff.pbuf] = txBuff.id

(* The byte last put is the one before txBuff, or it ended its transfer. *)
Order ==
  /\ last.id <= frames /\ txBuff.id <= frames
  /\ IF isTxBusy /\ txBuff.k > 1
       THEN last.id = txBuff.id /\ last.of = txBuff.of /\ last.k = txBuff.k - 1
       ELSE last.k = last.of /\ (isTxBusy => last.id # txBuff.id)

IndInv ==
  TypeOK /\ Held /\ Places /\ BusyServed /\ Position /\ Payload /\ Order
  /\ IntactUntilFreed
-----------------------------------------------------------------------------
LEMMA InitInv == Init => IndInv
<1> SUFFICES ASSUME Init PROVE IndInv
  OBVIOUS
<1>1. TypeOK
  <2>1. /\ txSize \in 0..MaxSize /\ fifo \in 0..Fifo /\ frames \in 0..MaxFrames
        /\ room \in 0..Fifo
    BY DEF Init
  <2>2. content \in [Pbufs -> 0..MaxFrames] /\ free \subseteq Pbufs
    BY DEF Init
  <2>3. /\ isTxBusy \in BOOLEAN /\ irqOn \in BOOLEAN /\ c2 \in BOOLEAN
        /\ gone \in BOOLEAN /\ staleC2 \in BOOLEAN /\ pc = "idle"
    BY DEF Init
  <2>4. txBuff \in [pbuf : Pbufs \cup {Null}, k : Nat, id : 0..MaxFrames,
                    of : 0..MaxSize, fit : 0..Fifo]
    BY DEF Init
  <2>5. seg \in [pbuf : Pbufs \cup {Null}, id : 0..MaxFrames, len : 0..MaxSize]
    BY DEF Init
  <2>6. last \in [id : 0..MaxFrames, k : 0..MaxSize, of : 0..MaxSize, fit : 0..Fifo,
                  src : 0..MaxFrames, gone : BOOLEAN]
    BY DEF Init
  <2> QED
    BY <2>1, <2>2, <2>3, <2>4, <2>5, <2>6 DEF TypeOK
<1>2. Held /\ Places /\ BusyServed /\ Position /\ Payload
  BY DEF Init, Held, InHand, Places, BusyServed, Position, Payload
<1>3. Order /\ IntactUntilFreed
  BY DEF Init, Order, IntactUntilFreed
<1> QED
  BY <1>1, <1>2, <1>3 DEF IndInv

(* What Put(j) does, where the FIFO has room for the j bytes. *)
LEMMA PutBytes ==
  ASSUME TypeOK, Position, isTxBusy, NEW j \in 1..txSize, fifo + j <= Fifo, Put(j),
         content[txBuff.pbuf] \in 0..MaxFrames
  PROVE  /\ fifo' \in 0..Fifo /\ fifo' = fifo + j
         /\ txSize' \in 0..MaxSize /\ txSize' = txSize - j
         /\ txBuff' \in [pbuf : Pbufs \cup {Null}, k : Nat, id : 0..MaxFrames,
                         of : 0..MaxSize, fit : 0..Fifo]
         /\ txBuff'.k = txBuff.k + j
         /\ txBuff'.pbuf = txBuff.pbuf /\ txBuff'.id = txBuff.id
         /\ txBuff'.of = txBuff.of /\ txBuff'.fit = txBuff.fit
         /\ last' \in [id : 0..MaxFrames, k : 0..MaxSize, of : 0..MaxSize,
                       fit : 0..Fifo, src : 0..MaxFrames, gone : BOOLEAN]
         /\ last'.id = txBuff.id /\ last'.k = txBuff.k + j - 1
         /\ last'.of = txBuff.of /\ last'.fit = txBuff.fit
         /\ last'.src = content[txBuff.pbuf] /\ last'.gone = gone
<1>1. fifo \in 0..Fifo /\ txSize \in 0..MaxSize /\ j \in Nat /\ gone \in BOOLEAN
  BY DEF TypeOK
<1>2. txBuff \in [pbuf : Pbufs \cup {Null}, k : Nat, id : 0..MaxFrames,
                  of : 0..MaxSize, fit : 0..Fifo]
  BY DEF TypeOK
<1>3. txBuff.k > 0 /\ txBuff.k + txSize = txBuff.of + 1
  BY DEF Position
<1>4. fifo' = fifo + j /\ fifo' \in 0..Fifo
  BY <1>1 DEF Put, Smaller
<1>5. txSize' = txSize - j /\ txSize' \in 0..MaxSize
  BY <1>1 DEF Put
<1>6. txBuff' = [txBuff EXCEPT !.k = txBuff.k + j]
  BY DEF Put
<1>7. txBuff.k + j - 1 \in 0..MaxSize
  BY <1>1, <1>2, <1>3
<1>8. last' = [id |-> txBuff.id, k |-> txBuff.k + j - 1, of |-> txBuff.of,
               fit |-> txBuff.fit, src |-> content[txBuff.pbuf], gone |-> gone]
  BY DEF Put
<1> QED
  BY <1>1, <1>2, <1>4, <1>5, <1>6, <1>7, <1>8

(* The step of the fill loop, *)
LEMMA Filling ==
  ASSUME IndInv, Fill
  PROVE  /\ isTxBusy /\ ~irqOn /\ fifo + 1 <= Fifo /\ 1 \in 1..txSize
         /\ Put(1) /\ content[txBuff.pbuf] \in 0..MaxFrames
<1>1. pc = "fill" /\ room > 0 /\ Put(1)
  BY DEF Fill
<1>2. isTxBusy /\ ~irqOn /\ txSize > 0 /\ fifo + room <= Fifo
  BY <1>1 DEF IndInv, Places
<1>3. txBuff.pbuf \in Pbufs
  BY <1>2 DEF IndInv, Payload
<1> QED
  BY <1>1, <1>2, <1>3 DEF IndInv, TypeOK

(* and of the interrupt. *)
LEMMA Refilling ==
  ASSUME IndInv, IRQHandler
  PROVE  /\ isTxBusy /\ irqOn /\ fifo + Refill <= Fifo /\ Refill \in 1..txSize
         /\ Put(Refill) /\ content[txBuff.pbuf] \in 0..MaxFrames
         /\ pc \notin {"fill", "complete"}
<1>1. isTxBusy /\ irqOn /\ txSize > 0 /\ fifo <= Fifo \div 2 /\ Put(Refill)
  BY DEF IRQHandler
<1>2. fifo \in 0..Fifo /\ txSize \in 0..MaxSize /\ Fifo \in Nat \ {0}
  BY DEF IndInv, TypeOK
<1>3. fifo < Fifo
  BY <1>1, <1>2
<1>4. fifo + Refill <= Fifo /\ Refill \in 1..txSize
  BY <1>1, <1>2, <1>3 DEF Refill, Smaller
<1>5. txBuff.pbuf \in Pbufs
  BY <1>1 DEF IndInv, Payload
<1>6. pc \notin {"fill", "complete"}
  BY <1>1 DEF IndInv, Places
<1> QED
  BY <1>1, <1>4, <1>5, <1>6 DEF IndInv, TypeOK

(* Types are kept. *)
LEMMA TypeStep == IndInv /\ [Next]_vars => TypeOK'
<1> SUFFICES ASSUME IndInv, [Next]_vars PROVE TypeOK'
  OBVIOUS
<1>0. TypeOK /\ Position
  BY DEF IndInv
<1> USE DEF transfer, pool
<1>1. ASSUME NEW c \in Pbufs, ReceiveInto(c)
      PROVE  frames' \in 0..MaxFrames /\ content' \in [Pbufs -> 0..MaxFrames]
  BY <1>0, <1>1 DEF TypeOK, ReceiveInto
<1>2. CASE OtherFrame
  BY <1>0, <1>1, <1>2 DEF TypeOK, OtherFrame
<1>3. CASE ChainSegment
  BY <1>0, <1>1, <1>3 DEF TypeOK, ChainSegment, Take
<1>4. CASE FirstSegment
  BY <1>0, <1>1, <1>4 DEF TypeOK, FirstSegment, Take
<1>5. CASE SendData
  BY <1>0, <1>1, <1>5 DEF TypeOK, SendData, Take
<1>6. CASE ReadC2 \/ WriteC2
  BY <1>0, <1>6 DEF TypeOK, ReadC2, WriteC2
<1>7. CASE SendAccepted
  <2>1. Fifo - fifo \in 0..Fifo
    BY <1>0 DEF TypeOK
  <2> QED
    BY <1>0, <1>7, <2>1 DEF TypeOK, SendAccepted
<1>8. CASE SendRefused \/ Filled \/ Complete
  BY <1>0, <1>8 DEF TypeOK, SendRefused, Filled, Complete, CompleteSendData
<1>9. CASE Fill
  BY <1>0, <1>9, Filling, PutBytes DEF TypeOK, Fill
<1>10. CASE IRQHandler
  <2>1. UNCHANGED <<pool, pc, seg, room, c2, gone, staleC2>>
        /\ irqOn' \in BOOLEAN /\ isTxBusy' \in BOOLEAN
    BY <1>0, <1>10 DEF TypeOK, IRQHandler, CompleteSendData
  <2> QED
    BY <1>0, <1>10, <2>1, Refilling, PutBytes DEF TypeOK
<1>11. CASE TCP_UART_send
  <2>1. seg.pbuf \in Pbufs
    BY <1>11 DEF IndInv, Held, InHand, TCP_UART_send
  <2> QED
    BY <1>0, <1>11, <2>1 DEF TypeOK, TCP_UART_send, Release
<1>12. CASE TakeWaiting
  BY <1>0, <1>12 DEF TypeOK, TakeWaiting, Release
<1>13. CASE ShiftOut
  BY <1>0, <1>13 DEF TypeOK, ShiftOut
<1>14. CASE UNCHANGED vars
  BY <1>0, <1>14 DEF TypeOK, vars
<1> QED
  BY <1>2, <1>3, <1>4, <1>5, <1>6, <1>7, <1>8, <1>9, <1>10, <1>11, <1>12, <1>13,
     <1>14 DEF Next, Receive, Handle

(* echo_recv keeps the pbuf it works on: nothing else runs that frees or fills one. *)
LEMMA HeldStep == IndInv /\ [Next]_vars => Held'
<1> SUFFICES ASSUME IndInv, [Next]_vars PROVE Held'
  OBVIOUS
<1>0. TypeOK /\ Held
  BY DEF IndInv
<1> USE DEF transfer, pool
<1>1. CASE SendData
  BY <1>0, <1>1 DEF TypeOK, SendData, Take, ReceiveInto, Held, InHand
<1>2. CASE OtherFrame \/ ChainSegment \/ FirstSegment
  <2>1. pc' \in {"idle", "stop"}
    BY <1>2 DEF OtherFrame, ChainSegment, FirstSegment, Take, ReceiveInto
  <2> QED
    BY <2>1 DEF Held, InHand
<1>3. CASE ReadC2 \/ WriteC2 \/ TCP_UART_send \/ TakeWaiting
  <2>1. pc' \in {"idle", "go", "stopping", "going"}
    BY <1>3 DEF ReadC2, WriteC2, TCP_UART_send, TakeWaiting
  <2> QED
    BY <2>1 DEF Held, InHand
<1>4. CASE SendRefused \/ SendAccepted \/ Fill \/ Filled \/ Complete
  <2>1. InHand /\ UNCHANGED <<pool, seg>>
    BY <1>4 DEF SendRefused, SendAccepted, Fill, Filled, Complete, InHand
  <2> QED
    BY <1>0, <2>1 DEF Held
<1>5. CASE IRQHandler \/ ShiftOut \/ UNCHANGED vars
  <2>1. UNCHANGED <<pool, seg, pc>>
    BY <1>5 DEF IRQHandler, ShiftOut, vars
  <2> QED
    BY <1>0, <2>1 DEF Held, InHand
<1> QED
  BY <1>1, <1>2, <1>3, <1>4, <1>5 DEF Next, Receive, Handle

(* At each place the driver is as echo_recv left it. *)
LEMMA PlacesStep == IndInv /\ [Next]_vars => Places'
<1> SUFFICES ASSUME IndInv, [Next]_vars PROVE Places'
  OBVIOUS
<1>0. TypeOK /\ Places /\ Order /\ BusyServed /\ Held /\ Position
  BY DEF IndInv
<1> USE DEF transfer, pool
<1>1. CASE SendData
  <2>1. pc' = "start" /\ frames' = frames + 1 /\ seg'.id = frames'
        /\ UNCHANGED <<transfer, last, staleC2>>
    BY <1>1 DEF SendData, Take, ReceiveInto
  <2>2. last.id < seg'.id /\ txBuff.id < seg'.id
    BY <1>0, <2>1 DEF TypeOK, Order
  <2> QED
    BY <1>0, <2>1, <2>2 DEF Places
<1>2. CASE OtherFrame \/ ChainSegment \/ FirstSegment
  <2>1. pc' \in {"idle", "stop"} /\ UNCHANGED staleC2
    BY <1>2 DEF OtherFrame, ChainSegment, FirstSegment, Take, ReceiveInto
  <2> QED
    BY <1>0, <2>1 DEF Places
<1>3. CASE ReadC2
  <2>1. pc' \in {"stopping", "going"} /\ c2' = irqOn /\ UNCHANGED <<irqOn, staleC2>>
    BY <1>3 DEF ReadC2
  <2> QED
    BY <1>0, <2>1 DEF Places
<1>4. CASE WriteC2
  <2>1. pc \in {"stopping", "going"} /\ pc' \in {"idle", "go"}
        /\ (staleC2' <=> staleC2 \/ (c2 /\ ~irqOn))
    BY <1>0, <1>4 DEF WriteC2, TypeOK
  <2> QED
    BY <1>0, <2>1 DEF Places
<1>5. CASE SendRefused \/ Filled \/ Complete \/ TCP_UART_send \/ TakeWaiting
  <2>1. pc' \in {"send", "idle"} /\ UNCHANGED staleC2
    BY <1>5 DEF SendRefused, Filled, Complete, TCP_UART_send, TakeWaiting
  <2> QED
    BY <1>0, <2>1 DEF Places
<1>6. CASE SendAccepted
  <2>1. pc = "start" /\ pc' = "fill" /\ ~isTxBusy /\ isTxBusy' = TRUE
        /\ UNCHANGED <<irqOn, fifo, staleC2>> /\ gone' = FALSE
        /\ room' = Fifo - fifo /\ txSize' = seg.len
        /\ txBuff'.k = 1 /\ txBuff'.fit = Fifo - fifo
    BY <1>6 DEF SendAccepted
  <2>2. seg.len > 0
    BY <1>0, <2>1 DEF Held, InHand
  <2>3. staleC2 = FALSE
    BY <1>0, <1>6 DEF Next, TypeOK, vars, SendAccepted
  <2>4. ~irqOn
    BY <1>0, <2>1, <2>3 DEF BusyServed
  <2>5. fifo' + room' <= Fifo /\ txBuff'.k + room' = txBuff'.fit + 1
    BY <1>0, <2>1 DEF TypeOK
  <2> QED
    BY <1>0, <2>1, <2>2, <2>4, <2>5 DEF Places
<1>7. CASE Fill
  <2>1. pc = "fill" /\ room > 0 /\ room' = room - 1
        /\ pc' = (IF txSize' = 0 THEN "complete" ELSE "fill")
        /\ UNCHANGED <<isTxBusy, irqOn, gone, staleC2>>
    BY <1>7 DEF Fill
  <2>2. fifo' = fifo + 1 /\ txSize' \in Nat /\ txBuff'.k = txBuff.k + 1
        /\ txBuff'.fit = txBuff.fit
    BY <1>0, <1>7, Filling, PutBytes
  <2>3. isTxBusy /\ ~irqOn /\ ~gone /\ fifo + room <= Fifo
        /\ txBuff.k + room = txBuff.fit + 1
    BY <1>0, <2>1 DEF Places
  <2>4. fifo' + room' <= Fifo /\ txBuff'.k + room' = txBuff'.fit + 1
    BY <1>0, <2>1, <2>2, <2>3 DEF TypeOK
  <2>5. pc' = "fill" => txSize' > 0
    BY <2>1, <2>2
  <2>6. pc' = "complete" => txSize' = 0
    BY <2>1
  <2>7. pc' \in {"fill", "complete"} /\ isTxBusy' /\ ~irqOn' /\ ~gone'
    BY <2>1, <2>3
  <2> QED
    BY <1>0, <2>1, <2>4, <2>5, <2>6, <2>7 DEF Places
<1>8. CASE IRQHandler
  <2>1. isTxBusy /\ irqOn /\ pc \notin {"fill", "complete"}
        /\ last'.id = txBuff.id /\ txBuff'.id = txBuff.id
    BY <1>0, <1>8, Refilling, PutBytes
  <2>2. UNCHANGED <<pc, seg, c2, staleC2>> /\ (irqOn' => irqOn)
        /\ (RxInterrupt => pc = "idle")
    BY <1>8, <2>1 DEF IRQHandler
  <2> QED
    BY <1>0, <2>1, <2>2 DEF Places
<1>9. CASE ShiftOut
  <2>1. fifo' = fifo - 1
        /\ UNCHANGED <<transfer, irqOn, pc, seg, room, c2, gone, last, staleC2>>
    BY <1>9 DEF ShiftOut
  <2>2. fifo + room <= Fifo => fifo' + room' <= Fifo
    BY <1>0, <2>1 DEF TypeOK
  <2> QED
    BY <1>0, <2>1, <2>2 DEF Places
<1>10. CASE UNCHANGED vars
  BY <1>0, <1>10 DEF Places, vars
<1> QED
  BY <1>1, <1>2, <1>3, <1>4, <1>5, <1>6, <1>7, <1>8, <1>9, <1>10
  DEF Next, Receive, Handle

(* Busy and interrupt agree again wherever a transfer has been started or ended. *)
LEMMA BusyStep == IndInv /\ [Next]_vars => BusyServed'
<1> SUFFICES ASSUME IndInv, [Next]_vars PROVE BusyServed'
  OBVIOUS
<1>0. TypeOK /\ Places /\ BusyServed
  BY DEF IndInv
<1> USE DEF transfer, pool
<1>1. CASE OtherFrame \/ ChainSegment \/ FirstSegment \/ SendData \/ ReadC2
           \/ SendRefused \/ TCP_UART_send \/ TakeWaiting \/ ShiftOut
  <2>1. /\ UNCHANGED <<transfer, irqOn, staleC2>>
        /\ pc \notin {"fill", "complete"} \/ UNCHANGED pc
    BY <1>1 DEF OtherFrame, ChainSegment, FirstSegment, SendData, ReadC2, SendRefused,
                TCP_UART_send, TakeWaiting, ShiftOut, Take, ReceiveInto
  <2> QED
    BY <1>0, <2>1 DEF BusyServed
<1>2. CASE WriteC2
  <2>1. pc \in {"stopping", "going"} /\ irqOn' = c2 /\ UNCHANGED transfer
        /\ (staleC2' <=> staleC2 \/ (c2 /\ ~irqOn))
    BY <1>0, <1>2 DEF WriteC2, TypeOK
  <2>2. irqOn => c2
    BY <1>0, <2>1 DEF Places
  <2> QED
    BY <1>0, <2>1, <2>2 DEF BusyServed, TypeOK
<1>3. CASE SendAccepted
  BY <1>3 DEF SendAccepted, BusyServed
<1>4. CASE Fill
  <2>1. pc' \in {"fill", "complete"}
    BY <1>4 DEF Fill
  <2> QED
    BY <2>1 DEF BusyServed
<1>5. CASE Filled
  <2>1. pc = "fill" /\ irqOn' = TRUE /\ UNCHANGED transfer
    BY <1>5 DEF Filled
  <2> QED
    BY <1>0, <2>1 DEF Places, BusyServed
<1>6. CASE Complete
  BY <1>6 DEF Complete, CompleteSendData, BusyServed
<1>7. CASE IRQHandler
  <2>1. isTxBusy /\ irqOn /\ Refill \in 1..txSize /\ txSize' = txSize - Refill
    BY <1>0, <1>7, Refilling, PutBytes DEF IndInv
  <2>2. IF Refill = txSize THEN ~irqOn' /\ ~isTxBusy' ELSE UNCHANGED <<irqOn, isTxBusy>>
    BY <1>7 DEF IRQHandler, CompleteSendData
  <2>3. Refill # txSize => txSize' > 0
    BY <1>0, <2>1 DEF TypeOK
  <2> QED
    BY <2>1, <2>2, <2>3 DEF BusyServed
<1>8. CASE UNCHANGED vars
  BY <1>0, <1>8 DEF BusyServed, vars
<1> QED
  BY <1>1, <1>2, <1>3, <1>4, <1>5, <1>6, <1>7, <1>8 DEF Next, Receive, Handle

(* Where the transfer in progress stands. *)
LEMMA PositionStep == IndInv /\ [Next]_vars => Position'
<1> SUFFICES ASSUME IndInv, [Next]_vars PROVE Position'
  OBVIOUS
<1>0. TypeOK /\ Places /\ Position /\ Held
  BY DEF IndInv
<1> USE DEF transfer, pool
<1>1. CASE OtherFrame \/ ChainSegment \/ FirstSegment \/ SendData \/ ReadC2 \/ WriteC2
           \/ SendRefused \/ TCP_UART_send \/ TakeWaiting \/ ShiftOut
  <2>1. /\ UNCHANGED transfer
        /\ pc \notin {"fill", "complete"} \/ UNCHANGED pc
    BY <1>1 DEF OtherFrame, ChainSegment, FirstSegment, SendData, ReadC2, WriteC2,
                SendRefused, TCP_UART_send, TakeWaiting, ShiftOut, Take, ReceiveInto
  <2> QED
    BY <1>0, <2>1 DEF Position
<1>2. CASE SendAccepted
  <2>1. pc' = "fill" /\ txBuff'.k = 1 /\ txBuff'.of = seg.len /\ txSize' = seg.len
    BY <1>2 DEF SendAccepted
  <2>2. seg.len \in Nat
    BY <1>0 DEF TypeOK
  <2> QED
    BY <2>1, <2>2 DEF Position
<1>3. CASE Fill
  <2>1. pc' \in {"fill", "complete"} /\ isTxBusy /\ txBuff.k \in Nat /\ txSize \in Nat
        /\ txBuff.of \in Nat
    BY <1>0, <1>3, Filling DEF Fill, TypeOK
  <2>2. txSize' = txSize - 1 /\ txBuff'.k = txBuff.k + 1 /\ txBuff'.of = txBuff.of
    BY <1>0, <1>3, Filling, PutBytes
  <2> QED
    BY <1>0, <2>1, <2>2 DEF Position
<1>4. CASE Filled
  <2>1. pc = "fill" /\ room = 0 /\ UNCHANGED transfer
    BY <1>4 DEF Filled
  <2>2. txBuff.k = txBuff.fit + 1 /\ txBuff.fit \in Nat
    BY <1>0, <2>1 DEF Places, TypeOK
  <2> QED
    BY <1>0, <2>1, <2>2 DEF Position
<1>5. CASE Complete
  BY <1>5 DEF Complete, CompleteSendData, Position
<1>6. CASE IRQHandler
  <2>1. isTxBusy /\ pc \notin {"fill", "complete"} /\ Refill \in 1..txSize
        /\ txBuff.k \in Nat /\ txSize \in Nat /\ txBuff.of \in Nat
        /\ txBuff.fit \in Nat
    BY <1>0, <1>6, Refilling DEF TypeOK
  <2>2. txSize' = txSize - Refill /\ txBuff'.k = txBuff.k + Refill
        /\ txBuff'.of = txBuff.of /\ txBuff'.fit = txBuff.fit
    BY <1>0, <1>6, Refilling, PutBytes
  <2> QED
    BY <1>0, <2>1, <2>2 DEF Position
<1>7. CASE UNCHANGED vars
  BY <1>0, <1>7 DEF Position, vars
<1> QED
  BY <1>1, <1>2, <1>3, <1>4, <1>5, <1>6, <1>7 DEF Next, Receive, Handle

(* A frame is copied only into a free pbuf, and its number is the highest so far. *)
LEMMA PayloadStep == IndInv /\ [Next]_vars => Payload'
<1> SUFFICES ASSUME IndInv, [Next]_vars PROVE Payload'
  OBVIOUS
<1>0. TypeOK /\ Held /\ Payload
  BY DEF IndInv
<1> USE DEF transfer, pool
<1>1. CASE OtherFrame \/ ChainSegment \/ FirstSegment \/ SendData
  <2>1. PICK c \in free : /\ content' = [content EXCEPT ![c] = frames']
                          /\ frames' = frames + 1
                          /\ free' \subseteq free
    BY <1>1 DEF OtherFrame, ChainSegment, FirstSegment, SendData, Take, ReceiveInto
  <2>2. UNCHANGED <<transfer, gone>>
    BY <1>1 DEF OtherFrame, ChainSegment, FirstSegment, SendData
  <2>3. txBuff.id \in Nat /\ frames \in Nat /\ content \in [Pbufs -> Nat]
        /\ txBuff.id <= frames /\ free \subseteq Pbufs
    BY <1>0 DEF TypeOK, IndInv, Order
  <2>4. \A d \in Pbufs : /\ d # c => content'[d] = content[d]
                         /\ d = c => content'[d] = frames'
    BY <2>1, <2>3
  <2> QED
    BY <1>0, <2>1, <2>2, <2>3, <2>4 DEF Payload
<1>2. CASE SendAccepted
  <2>1. pc = "start" /\ txBuff'.pbuf = seg.pbuf /\ txBuff'.id = seg.id /\ UNCHANGED pool
    BY <1>2 DEF SendAccepted
  <2>2. seg.pbuf \in Pbufs \ free /\ content[seg.pbuf] = seg.id /\ seg.id \in Nat
    BY <1>0, <2>1 DEF Held, InHand, TypeOK
  <2> QED
    BY <2>1, <2>2 DEF Payload
<1>3. CASE Fill
  <2>1. isTxBusy /\ UNCHANGED <<pool, gone>>
    BY <1>3, Filling DEF Fill
  <2>2. txBuff'.pbuf = txBuff.pbuf /\ txBuff'.id = txBuff.id
    BY <1>0, <1>3, Filling, PutBytes DEF IndInv
  <2> QED
    BY <1>0, <2>1, <2>2 DEF Payload
<1>4. CASE IRQHandler
  <2>1. isTxBusy /\ UNCHANGED <<pool, gone>>
    BY <1>4, Refilling DEF IRQHandler
  <2>2. txBuff'.pbuf = txBuff.pbuf /\ txBuff'.id = txBuff.id
    BY <1>0, <1>4, Refilling, PutBytes DEF IndInv
  <2> QED
    BY <1>0, <2>1, <2>2 DEF Payload
<1>5. CASE TCP_UART_send \/ TakeWaiting
  <2>1. UNCHANGED <<transfer, content>>
        /\ (UNCHANGED <<free, gone>> \/ \E c \in Pbufs : Release(c))
    BY <1>0, <1>5 DEF TCP_UART_send, TakeWaiting, Held, InHand
  <2>2. CASE \E c \in Pbufs : Release(c)
    <3>1. PICK c \in Pbufs : free' = free \cup {c} /\ gone' = (gone \/ c = txBuff.pbuf)
      BY <2>2 DEF Release
    <3>2. ~gone' => ~gone /\ c # txBuff.pbuf
      BY <3>1
    <3> QED
      BY <1>0, <2>1, <3>1, <3>2 DEF Payload
  <2> QED
    BY <1>0, <2>1, <2>2 DEF Payload
<1>6. CASE Complete
  BY <1>6 DEF Complete, CompleteSendData, Payload
<1>7. CASE ReadC2 \/ WriteC2 \/ SendRefused \/ Filled \/ ShiftOut \/ UNCHANGED vars
  <2>1. UNCHANGED <<transfer, content, free, gone>>
    BY <1>7 DEF ReadC2, WriteC2, SendRefused, Filled, ShiftOut, vars
  <2> QED
    BY <1>0, <2>1 DEF Payload
<1> QED
  BY <1>1, <1>2, <1>3, <1>4, <1>5, <1>6, <1>7 DEF Next, Receive, Handle

(* The byte last put, and the one that is next. *)
LEMMA OrderStep == IndInv /\ [Next]_vars => Order'
<1> SUFFICES ASSUME IndInv, [Next]_vars PROVE Order'
  OBVIOUS
<1>0. TypeOK /\ Places /\ Position /\ Order /\ Held
  BY DEF IndInv
<1>a. /\ last.id \in Nat /\ last.k \in Nat /\ last.of \in Nat /\ frames \in Nat
      /\ txBuff.id \in Nat /\ txBuff.k \in Nat /\ txBuff.of \in Nat /\ txSize \in Nat
      /\ seg.id \in Nat
  BY <1>0 DEF TypeOK
<1> USE DEF transfer, pool
<1>1. CASE OtherFrame \/ ChainSegment \/ FirstSegment \/ SendData
  <2>1. frames' = frames + 1 /\ UNCHANGED <<transfer, last>>
    BY <1>1 DEF OtherFrame, ChainSegment, FirstSegment, SendData, Take, ReceiveInto
  <2> QED
    BY <1>0, <1>a, <2>1 DEF Order
<1>2. CASE SendAccepted
  <2>1. pc = "start" /\ ~isTxBusy /\ txBuff'.k = 1 /\ txBuff'.id = seg.id
        /\ UNCHANGED <<last, frames>>
    BY <1>2 DEF SendAccepted
  <2>2. seg.id = frames /\ last.id < seg.id /\ last.k = last.of
    BY <1>0, <2>1 DEF Held, InHand, Places, Order
  <2> QED
    BY <1>0, <1>a, <2>1, <2>2 DEF Order
<1>3. ASSUME NEW j \in 1..txSize, isTxBusy, UNCHANGED frames,
             txBuff'.k = txBuff.k + j, txBuff'.id = txBuff.id, txBuff'.of = txBuff.of,
             last'.id = txBuff.id, last'.k = txBuff.k + j - 1, last'.of = txBuff.of,
             ~isTxBusy' => j = txSize
      PROVE  Order'
  <2>1. txBuff.k > 0 /\ txBuff.k + txSize = txBuff.of + 1 /\ txBuff.id <= frames
    BY <1>0, <1>3 DEF Position, Order
  <2>2. txBuff'.k > 1 /\ last'.k = txBuff'.k - 1
    BY <1>3, <1>a, <2>1
  <2>3. ~isTxBusy' => last'.k = last'.of
    BY <1>3, <1>a, <2>1
  <2> QED
    BY <1>3, <2>1, <2>2, <2>3 DEF Order
<1>4. CASE Fill
  <2>1. UNCHANGED <<frames, isTxBusy>>
    BY <1>4 DEF Fill
  <2> QED
    BY <1>0, <1>3, <1>4, <2>1, Filling, PutBytes
<1>5. CASE IRQHandler
  <2>1. UNCHANGED frames /\ (~isTxBusy' => Refill = txSize)
    BY <1>5, Refilling DEF IRQHandler
  <2> QED
    BY <1>0, <1>3, <1>5, <2>1, Refilling, PutBytes
<1>6. CASE Complete
  <2>1. pc = "complete" /\ isTxBusy' = FALSE /\ UNCHANGED <<txBuff, last, frames>>
    BY <1>6 DEF Complete, CompleteSendData
  <2>2. isTxBusy /\ txSize = 0
    BY <1>0, <2>1 DEF Places
  <2>3. txBuff.k = txBuff.of + 1 /\ txBuff.k > 0
    BY <1>0, <1>a, <2>2 DEF Position
  <2>4. last.k = last.of
    BY <1>0, <1>a, <2>2, <2>3 DEF Order
  <2> QED
    BY <1>0, <2>1, <2>4 DEF Order
<1>7. CASE ReadC2 \/ WriteC2 \/ SendRefused \/ Filled \/ TCP_UART_send \/ TakeWaiting
           \/ ShiftOut \/ UNCHANGED vars
  <2>1. UNCHANGED <<transfer, last, frames>>
    BY <1>7 DEF ReadC2, WriteC2, SendRefused, Filled, TCP_UART_send, TakeWaiting,
                ShiftOut, vars
  <2> QED
    BY <1>0, <2>1 DEF Order
<1> QED
  BY <1>1, <1>2, <1>4, <1>5, <1>6, <1>7 DEF Next, Receive, Handle

(* A byte that is not the segment's comes from a pbuf that is gone, beyond what *)
(* fitted the FIFO, and from a later frame. *)
LEMMA IntactStep == IndInv /\ [Next]_vars => IntactUntilFreed'
<1> SUFFICES ASSUME IndInv, [Next]_vars PROVE IntactUntilFreed'
  OBVIOUS
<1>0. TypeOK /\ Places /\ Position /\ Payload /\ IntactUntilFreed
  BY DEF IndInv
<1> USE DEF transfer, pool
<1>1. CASE Fill
  <2>1. pc = "fill" /\ isTxBusy /\ ~gone
    BY <1>0, <1>1, Filling DEF Fill, Places
  <2>2. last'.id = txBuff.id /\ last'.src = content[txBuff.pbuf]
    BY <1>0, <1>1, Filling, PutBytes
  <2> QED
    BY <1>0, <2>1, <2>2 DEF Payload, IntactUntilFreed
<1>2. CASE IRQHandler
  <2>1. isTxBusy /\ pc \notin {"fill", "complete"} /\ Refill \in 1..txSize
        /\ content[txBuff.pbuf] \in Nat
    BY <1>0, <1>2, Refilling
  <2>2. last'.id = txBuff.id /\ last'.src = content[txBuff.pbuf] /\ last'.gone = gone
        /\ last'.fit = txBuff.fit /\ last'.k = txBuff.k + Refill - 1
    BY <1>0, <1>2, Refilling, PutBytes
  <2>3. txBuff.k > txBuff.fit /\ txBuff.k \in Nat /\ txBuff.fit \in Nat /\ txSize \in Nat
        /\ txBuff.id \in Nat
    BY <1>0, <2>1 DEF Position, TypeOK
  <2>4. last'.k > last'.fit
    BY <2>1, <2>2, <2>3
  <2>5. last'.src # last'.id => gone /\ last'.src > last'.id
    BY <1>0, <2>1, <2>2, <2>3 DEF Payload
  <2> QED
    BY <2>2, <2>4, <2>5 DEF IntactUntilFreed
<1>3. Fill \/ IRQHandler \/ UNCHANGED last
  BY DEF Next, Receive, Handle, OtherFrame, ChainSegment, FirstSegment, SendData, ReadC2,
         WriteC2, SendRefused, SendAccepted, Filled, Complete, TCP_UART_send, TakeWaiting,
         ShiftOut, vars
<1> QED
  BY <1>0, <1>1, <1>2, <1>3 DEF IntactUntilFreed
-----------------------------------------------------------------------------
(* The invariant is inductive. *)
THEOREM Invariance == Spec => []IndInv
<1>1. IndInv /\ [Next]_vars => IndInv'
  BY TypeStep, HeldStep, PlacesStep, BusyStep, PositionStep, PayloadStep, OrderStep,
     IntactStep DEF IndInv
<1> QED
  BY <1>1, InitInv, PTL DEF Spec

(* Types hold: above all, no transfer goes on beyond its end. *)
THEOREM TypeCorrect == Spec => []TypeOK
<1>1. IndInv => TypeOK
  BY DEF IndInv
<1> QED
  BY <1>1, Invariance, PTL

(* Outside StartSendData the driver is busy exactly while its interrupt is on and  *)
(* has bytes to send. *)
THEOREM BusyIsServed == Spec => []BusyServed
<1>1. IndInv => BusyServed
  BY DEF IndInv
<1> QED
  BY <1>1, Invariance, PTL

(* The UART sends the segment's own bytes until its pbuf is freed, and those that  *)
(* fitted the FIFO in any case. *)
THEOREM IntactWhileHeld == Spec => []IntactUntilFreed
<1>1. IndInv => IntactUntilFreed
  BY DEF IndInv
<1> QED
  BY <1>1, Invariance, PTL

(* In the repository's build, where the UART interrupt does not come in the middle *)
(* of echo_recv, a driver that is not busy has its interrupt off. *)
THEOREM OffInTheInterrupt == RxInterrupt => (Spec => []OffWhenDone)
<1> SUFFICES ASSUME RxInterrupt PROVE Spec => []OffWhenDone
  OBVIOUS
<1>1. IndInv => OffWhenDone
  BY DEF IndInv, Places, BusyServed, OffWhenDone
<1> QED
  BY <1>1, Invariance, PTL

(* One step of BytesInOrder. *)
LEMMA NextByte ==
  IndInv /\ [Next]_vars =>
    (last' # last =>
       IF last'.id = last.id
         THEN last'.k = last.k + (fifo' - fifo)
         ELSE last'.k = fifo' - fifo /\ last.k = last.of)
<1> SUFFICES ASSUME IndInv, [Next]_vars, last' # last
             PROVE  IF last'.id = last.id
                      THEN last'.k = last.k + (fifo' - fifo)
                      ELSE last'.k = fifo' - fifo /\ last.k = last.of
  OBVIOUS
<1>0. TypeOK /\ Position /\ Order
  BY DEF IndInv
<1>1. ASSUME NEW j \in 1..txSize, isTxBusy, fifo' = fifo + j, last'.id = txBuff.id,
             last'.k = txBuff.k + j - 1
      PROVE  IF last'.id = last.id
               THEN last'.k = last.k + (fifo' - fifo)
               ELSE last'.k = fifo' - fifo /\ last.k = last.of
  <2>1. txBuff.k \in Nat /\ txBuff.k > 0 /\ last.k \in Nat /\ fifo \in Nat
        /\ txSize \in Nat
    BY <1>0, <1>1 DEF TypeOK, Position
  <2>2. CASE txBuff.k > 1
    <3>1. last.id = txBuff.id /\ last.k = txBuff.k - 1
      BY <1>0, <1>1, <2>2 DEF Order
    <3> QED
      BY <1>1, <2>1, <3>1
  <2>3. CASE txBuff.k = 1
    <3>1. last.id # txBuff.id /\ last.k = last.of
      BY <1>0, <1>1, <2>3 DEF Order
    <3> QED
      BY <1>1, <2>1, <2>3, <3>1
  <2> QED
    BY <2>1, <2>2, <2>3
<1>2. CASE Fill
  BY <1>0, <1>1, <1>2, Filling, PutBytes
<1>3. CASE IRQHandler
  BY <1>0, <1>1, <1>3, Refilling, PutBytes
<1>4. Fill \/ IRQHandler
  BY DEF Next, Receive, Handle, OtherFrame, ChainSegment, FirstSegment, SendData, ReadC2,
         WriteC2, SendRefused, SendAccepted, Filled, Complete, TCP_UART_send, TakeWaiting,
         ShiftOut, vars
<1> QED
  BY <1>2, <1>3, <1>4

(* The bytes put into the FIFO are those of the accepted segments, in order and  *)
(* each once. *)
THEOREM InOrder == Spec => BytesInOrder
<1>1. IndInv /\ [Next]_vars =>
        [last' # last =>
           IF last'.id = last.id
             THEN last'.k = last.k + (fifo' - fifo)
             ELSE last'.k = fifo' - fifo /\ last.k = last.of]_vars
  BY NextByte
<1> QED
  BY <1>1, Invariance, PTL DEF Spec, BytesInOrder
=============================================================================
