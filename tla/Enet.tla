-------------------------------- MODULE Enet --------------------------------
(***************************************************************************)
(* The Ethernet driver: transmit and receive descriptor rings between lwIP  *)
(* and the controller's DMA (fsl_enet_driver.c), filled and emptied by      *)
(* ethernetif.c.                                                           *)
(*                                                                         *)
(* Two parties send: the main loop (tcp_slowtmr) and the receive interrupt, *)
(* which runs the whole of lwIP on each frame and may answer it.  Interrupts *)
(* have one priority, so they preempt the loop but not each other.  The     *)
(* loop's send is split at its loads and stores of shared data; a send in   *)
(* the interrupt is one step.  The DMA runs beside both.                    *)
(*                                                                         *)
(* Every frame fits one descriptor (ENET_TXBUFF_SIZE, ENET_RXBUFF_SIZE are  *)
(* at least the largest frame); frames are numbered as lwIP hands them over. *)
(***************************************************************************)
EXTENDS Integers, Sequences

CONSTANTS
  TxNum,      \* ENET_TXBD_NUM
  RxNum,      \* ENET_RXBD_NUM
  MaxFrames,  \* bound: frames lwIP sends
  MaxRx       \* bound: frames that arrive

ASSUME EnetAssumption ==
  /\ TxNum \in Nat /\ TxNum > 1
  /\ RxNum \in Nat /\ RxNum > 1
  /\ MaxFrames \in Nat
  /\ MaxRx \in Nat

VARIABLES
  buf,        \* the frame last copied to a transmit descriptor's buffer
  ready,      \* kEnetTxBdReady of a transmit descriptor
  cur,        \* txBdCurPtr
  dirty,      \* txBdDirtyPtr
  full,       \* isTxBdFull
  txDma,      \* the transmit descriptor the DMA takes next
  active,     \* TDAR: the DMA is looking for ready descriptors
  txf,        \* the transmit interrupt flags
  wire,       \* the frames the DMA has sent
  pc, bd, fr, isLast,  \* the loop's send: place, descriptor, frame, comparison
  rx,         \* what a receive descriptor holds: nothing, or a frame
  rxCur,      \* rxBdCurPtr, which rxBdDirtyPtr has caught up with
  rxDma,      \* the receive descriptor the DMA fills next
  rxf,        \* the receive interrupt flags
  isr,        \* the interrupt handler that is running
  sent,       \* how many frames lwIP has asked to send
  arrived,    \* how many frames have come in
  handed,     \* history: frames made ready, in order
  raced,      \* history: the interrupt sent inside a send of the loop
  overwrote,  \* history: a frame was copied while the ring was full
  early       \* history: the last receive pass stopped at a bad frame

ring == <<buf, ready, cur, full>>
loop == <<pc, bd, fr, isLast>>
dma == <<txDma, active, txf, wire>>
rxRing == <<rx, rxCur, rxDma, rxf, arrived>>
history == <<handed, raced, overwrote, early>>
vars == <<ring, dirty, loop, dma, rxRing, isr, sent, history>>

TxBd == 0..TxNum - 1
RxBd == 0..RxNum - 1

(* Each variable has the type of the C field it stands for. *)
TypeOK ==
  /\ buf \in [TxBd -> 0..MaxFrames]
  /\ ready \in [TxBd -> BOOLEAN]
  /\ cur \in TxBd /\ dirty \in TxBd /\ txDma \in TxBd /\ bd \in TxBd
  /\ full \in BOOLEAN /\ active \in BOOLEAN /\ txf \in BOOLEAN
  /\ isLast \in BOOLEAN
  /\ pc \in {"idle", "copy", "check", "take", "arm", "load", "step", "compare",
             "flag"}
  /\ fr \in 0..MaxFrames /\ sent \in 0..MaxFrames
  /\ wire \in Seq(0..MaxFrames) /\ handed \in Seq(0..MaxFrames)
  /\ rx \in [RxBd -> {"empty", "good", "bad"}]
  /\ rxCur \in RxBd /\ rxDma \in RxBd
  /\ rxf \in BOOLEAN
  /\ isr \in {"none", "tx", "rx"}
  /\ arrived \in 0..MaxRx
  /\ raced \in BOOLEAN /\ overwrote \in BOOLEAN /\ early \in BOOLEAN

Init ==
  /\ buf = [i \in TxBd |-> 0]
  /\ ready = [i \in TxBd |-> FALSE]
  /\ cur = 0 /\ dirty = 0 /\ full = FALSE
  /\ txDma = 0 /\ active = FALSE /\ txf = FALSE
  /\ wire = <<>>
  /\ pc = "idle" /\ bd = 0 /\ fr = 0 /\ isLast = FALSE
  /\ rx = [i \in RxBd |-> "empty"]
  /\ rxCur = 0 /\ rxDma = 0 /\ rxf = FALSE
  /\ isr = "none"
  /\ sent = 0 /\ arrived = 0
  /\ handed = <<>>
  /\ raced = FALSE /\ overwrote = FALSE /\ early = FALSE

(* Mutant: the last descriptor does not wrap. *)
IncrTxMutant(i) == i + 1

IncrTxBuffDescripIndex(i) == IF i = TxNum - 1 THEN 0 ELSE i + 1

IncrRxBuffDescripIndex(i) == IF i = RxNum - 1 THEN 0 ELSE i + 1

-----------------------------------------------------------------------------
(***************************************************************************)
(* The main loop sends: low_level_output (to "check") and ENET_DRV_SendData. *)
(***************************************************************************)
LoopRuns(place) == isr = "none" /\ pc = place

(* curBd = txBdCurPtr; frame = its buffer *)
OutputBegins ==
  /\ LoopRuns("idle")
  /\ sent < MaxFrames
  /\ sent' = sent + 1
  /\ fr' = sent'
  /\ bd' = cur
  /\ pc' = "copy"
  /\ UNCHANGED <<ring, dirty, isLast, dma, rxRing, isr, history>>

OutputCopies ==
  /\ LoopRuns("copy")
  /\ buf' = [buf EXCEPT ![bd] = fr]
  /\ overwrote' = (overwrote \/ full)
  /\ pc' = "check"
  /\ UNCHANGED <<ready, cur, full, dirty, bd, fr, isLast, dma, rxRing, isr, sent,
                 handed, raced, early>>

(* kStatus_ENET_TxbdFull is returned to whoever called, and lwIP drops it *)
SendChecks ==
  /\ LoopRuns("check")
  /\ pc' = IF full THEN "idle" ELSE "take"
  /\ UNCHANGED <<ring, dirty, bd, fr, isLast, dma, rxRing, isr, sent, history>>

SendTakes ==
  /\ LoopRuns("take")
  /\ bd' = cur
  /\ pc' = "arm"
  /\ UNCHANGED <<ring, dirty, fr, isLast, dma, rxRing, isr, sent, history>>

(* ENET_HAL_UpdateTxBuffDescriptor *)
SendArms ==
  /\ LoopRuns("arm")
  /\ ready' = [ready EXCEPT ![bd] = TRUE]
  /\ handed' = Append(handed, fr)
  /\ pc' = "load"
  /\ UNCHANGED <<buf, cur, full, dirty, bd, fr, isLast, dma, rxRing, isr, sent,
                 raced, overwrote, early>>

SendLoads ==
  /\ LoopRuns("load")
  /\ bd' = cur
  /\ pc' = "step"
  /\ UNCHANGED <<ring, dirty, fr, isLast, dma, rxRing, isr, sent, history>>

SendSteps ==
  /\ LoopRuns("step")
  /\ cur' = IncrTxBuffDescripIndex(bd)
  /\ pc' = "compare"
  /\ UNCHANGED <<buf, ready, full, dirty, bd, fr, isLast, dma, rxRing, isr, sent,
                 history>>

SendCompares ==
  /\ LoopRuns("compare")
  /\ isLast' = (cur = dirty)
  /\ pc' = "flag"
  /\ UNCHANGED <<ring, dirty, bd, fr, dma, rxRing, isr, sent, history>>

(* Mutant: TDAR is not set again. *)
SendFlagsMutant ==
  /\ LoopRuns("flag")
  /\ full' = isLast
  /\ pc' = "idle"
  /\ UNCHANGED <<buf, ready, cur, dirty, bd, fr, isLast, dma, rxRing, isr, sent,
                 history>>

(* isTxBdFull is stored, and TDAR set *)
SendFlags ==
  /\ LoopRuns("flag")
  /\ full' = isLast
  /\ active' = TRUE
  /\ pc' = "idle"
  /\ UNCHANGED <<buf, ready, cur, dirty, bd, fr, isLast, txDma, txf, wire, rxRing,
                 isr, sent, history>>

LoopSend ==
  \/ OutputBegins \/ OutputCopies
  \/ SendChecks \/ SendTakes \/ SendArms \/ SendLoads
  \/ SendSteps \/ SendCompares \/ SendFlags

-----------------------------------------------------------------------------
(***************************************************************************)
(* The receive interrupt sends: low_level_output and ENET_DRV_SendData at    *)
(* once.                                                                   *)
(***************************************************************************)
Refused ==
  /\ full
  /\ UNCHANGED <<ready, cur, full, active, handed>>

(* Mutants: a full ring is not noticed; the pointer steps before it is used. *)
AcceptedNeverFull(f) ==
  /\ ready' = [ready EXCEPT ![cur] = TRUE]
  /\ cur' = IncrTxBuffDescripIndex(cur)
  /\ active' = TRUE
  /\ handed' = Append(handed, f)
  /\ UNCHANGED full

AcceptedSteppedFirst(f) ==
  /\ ~full
  /\ cur' = IncrTxBuffDescripIndex(cur)
  /\ ready' = [ready EXCEPT ![cur'] = TRUE]
  /\ full' = (cur' = dirty)
  /\ active' = TRUE
  /\ handed' = Append(handed, f)

Accepted(f) ==
  /\ ~full
  /\ ready' = [ready EXCEPT ![cur] = TRUE]
  /\ cur' = IncrTxBuffDescripIndex(cur)
  /\ full' = (cur' = dirty)
  /\ active' = TRUE
  /\ handed' = Append(handed, f)

Answer ==
  /\ sent < MaxFrames
  /\ sent' = sent + 1
  /\ buf' = [buf EXCEPT ![cur] = sent']
  /\ overwrote' = (overwrote \/ full)
  /\ raced' = (raced \/ pc # "idle")
  /\ Refused \/ Accepted(sent')

NoAnswer == UNCHANGED <<ring, active, handed, sent, raced, overwrote>>

-----------------------------------------------------------------------------
(***************************************************************************)
(* ENET_DRV_TxIRQHandler: while a flag is set, clear the flags and run       *)
(* ENET_DRV_CleanupTxBuffDescrip.  isTxBdFull is read and never cleared.     *)
(***************************************************************************)
ToClean == dirty # cur \/ full

TxIrqEnters ==
  /\ isr = "none"
  /\ txf
  /\ isr' = "tx"
  /\ txf' = FALSE
  /\ UNCHANGED <<ring, dirty, loop, txDma, active, wire, rxRing, sent, history>>

(* Mutants: one descriptor an interrupt; the pointer does not step. *)
CleanupOnce ==
  /\ isr = "tx"
  /\ ToClean
  /\ ~ready[dirty]
  /\ dirty' = IncrTxBuffDescripIndex(dirty)
  /\ isr' = "none"
  /\ UNCHANGED <<ring, loop, dma, rxRing, sent, history>>

CleanupStays ==
  /\ isr = "tx"
  /\ ToClean
  /\ ~ready[dirty]
  /\ UNCHANGED vars

CleanupTxBuffDescrip ==
  /\ isr = "tx"
  /\ ToClean
  /\ ~ready[dirty]
  /\ dirty' = IncrTxBuffDescripIndex(dirty)
  /\ UNCHANGED <<ring, loop, dma, rxRing, isr, sent, history>>

TxIrqChecks ==
  /\ isr = "tx"
  /\ ToClean => ready[dirty]
  /\ isr' = IF txf THEN "tx" ELSE "none"
  /\ txf' = FALSE
  /\ UNCHANGED <<ring, dirty, loop, txDma, active, wire, rxRing, sent, history>>

-----------------------------------------------------------------------------
(***************************************************************************)
(* ENET_DRV_RxIRQHandler, and under it ENET_DRV_ReceiveData frame by frame.  *)
(* A good frame goes through ethernetif_input to lwIP; a truncated or        *)
(* erroneous one ends the pass.  Either way the descriptor is given back at  *)
(* once, so isRxBdFull is never set.                                        *)
(***************************************************************************)
RxIrqEnters ==
  /\ isr = "none"
  /\ rxf
  /\ isr' = "rx"
  /\ rxf' = FALSE
  /\ UNCHANGED <<ring, dirty, loop, dma, rx, rxCur, rxDma, arrived, sent, history>>

(* Mutant: the descriptor is given back and the pointer does not step. *)
UpdateRxMutant ==
  /\ rx' = [rx EXCEPT ![rxCur] = "empty"]
  /\ UNCHANGED <<rxCur, rxDma, arrived>>

UpdateRxBuffDescrip ==
  /\ rx' = [rx EXCEPT ![rxCur] = "empty"]
  /\ rxCur' = IncrRxBuffDescripIndex(rxCur)
  /\ UNCHANGED <<rxDma, arrived>>

(* the handler's loop looks at the flags again *)
PassEnds ==
  /\ isr' = IF rxf THEN "rx" ELSE "none"
  /\ rxf' = FALSE

(* Mutant: one frame an interrupt. *)
ReceiveOne ==
  /\ isr = "rx"
  /\ rx[rxCur] = "good"
  /\ UpdateRxBuffDescrip
  /\ Answer \/ NoAnswer
  /\ PassEnds
  /\ early' = FALSE
  /\ UNCHANGED <<dirty, loop, txDma, txf, wire>>

ReceiveGood ==
  /\ isr = "rx"
  /\ rx[rxCur] = "good"
  /\ UpdateRxBuffDescrip
  /\ Answer \/ NoAnswer
  /\ UNCHANGED <<dirty, loop, txDma, txf, wire, rxf, isr, early>>

ReceiveBad ==
  /\ isr = "rx"
  /\ rx[rxCur] = "bad"
  /\ UpdateRxBuffDescrip
  /\ PassEnds
  /\ early' = TRUE
  /\ UNCHANGED <<ring, dirty, loop, dma, sent, handed, raced, overwrote>>

ReceiveNone ==
  /\ isr = "rx"
  /\ rx[rxCur] = "empty"
  /\ PassEnds
  /\ early' = FALSE
  /\ UNCHANGED <<ring, dirty, loop, dma, rx, rxCur, rxDma, arrived, sent, handed,
                 raced, overwrote>>

-----------------------------------------------------------------------------
(* The controller.  A frame that finds no empty descriptor is lost there. *)
DmaSends ==
  /\ active
  /\ ready[txDma]
  /\ wire' = Append(wire, buf[txDma])
  /\ ready' = [ready EXCEPT ![txDma] = FALSE]
  /\ txDma' = IncrTxBuffDescripIndex(txDma)
  /\ txf' = TRUE
  /\ UNCHANGED <<buf, cur, full, dirty, active, loop, rxRing, isr, sent, history>>

DmaStops ==
  /\ active
  /\ ~ready[txDma]
  /\ active' = FALSE
  /\ UNCHANGED <<ring, dirty, txDma, txf, wire, loop, rxRing, isr, sent, history>>

FrameArrives(kind) ==
  /\ arrived < MaxRx
  /\ rx[rxDma] = "empty"
  /\ arrived' = arrived + 1
  /\ rx' = [rx EXCEPT ![rxDma] = kind]
  /\ rxDma' = IncrRxBuffDescripIndex(rxDma)
  /\ rxf' = TRUE
  /\ UNCHANGED <<ring, dirty, loop, dma, rxCur, isr, sent, history>>

-----------------------------------------------------------------------------
TxIrq == TxIrqEnters \/ CleanupTxBuffDescrip \/ TxIrqChecks

RxIrq == RxIrqEnters \/ ReceiveGood \/ ReceiveBad \/ ReceiveNone

Dma == DmaSends \/ DmaStops

Next ==
  \/ LoopSend \/ TxIrq \/ RxIrq \/ Dma
  \/ \E kind \in {"good", "bad"} : FrameArrives(kind)

(* The DMA and a running handler do not wait for anybody; a send the loop has *)
(* begun goes on when no handler runs. *)
Fairness ==
  /\ WF_vars(Dma)
  /\ WF_vars(TxIrq)
  /\ WF_vars(RxIrq)
  /\ WF_vars(LoopSend /\ pc # "idle")

Spec == Init /\ [][Next]_vars /\ Fairness

-----------------------------------------------------------------------------
(* Until the interrupt sends inside a send of the loop, or a frame is copied  *)
(* into a full ring, the wire carries exactly the frames made ready, each     *)
(* once, in order and as lwIP wrote it. *)
WireFaithful ==
  ~raced /\ ~overwrote =>
    /\ Len(wire) <= Len(handed)
    /\ \A k \in 1..Len(wire) : wire[k] = handed[k]

(* Until such a race the DMA never waits at a descriptor that is not ready    *)
(* while another one is: cur, dirty and the DMA's place keep their order       *)
(* around the ring, whatever the transmit interrupt does between two steps    *)
(* of a send. *)
NoGap == ~raced /\ (\E i \in TxBd : ready[i]) => ready[txDma]

(* A received frame waits without an interrupt pending only behind a bad      *)
(* frame, on which ENET_DRV_ReceiveData returned early. *)
WaitsBehindBad ==
  (\E i \in RxBd : rx[i] # "empty") /\ ~rxf /\ isr # "rx" => early

(* The driver and the DMA agree which received frame comes next: none is      *)
(* passed over. *)
NoRxGap == (\E i \in RxBd : rx[i] # "empty") => rx[rxCur] # "empty"

(* A frame made ready is sent in the end, though the handlers and the DMA run  *)
(* between any two steps of the send, unless the two senders met. *)
FrameSent ==
  \A k \in 1..MaxFrames : Len(handed) >= k ~> (Len(wire) >= k \/ raced)

(* An interrupt handler returns, and the loop goes on, unless the transmit    *)
(* ring has been full: ENET_DRV_CleanupTxBuffDescrip then has no way out of   *)
(* its loop once every descriptor is sent. *)
HandlerReturns == isr # "none" ~> (isr = "none" \/ full)

(* A transmit interrupt that comes between the arming of a descriptor and the *)
(* step of txBdCurPtr does not see it.  At most that one descriptor is still  *)
(* to be cleaned when everything has been sent. *)
AtMostOneUncleaned ==
  /\ pc = "idle" /\ isr = "none" /\ ~txf /\ ~full /\ ~raced
  /\ \A i \in TxBd : ~ready[i]
  => cur \in {dirty, IncrTxBuffDescripIndex(dirty)}
=============================================================================
