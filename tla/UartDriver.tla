----------------------------- MODULE UartDriver -----------------------------
(***************************************************************************)
(* The transmit half of the UART driver (fsl_uart_driver.c) and the one call *)
(* the firmware makes of it: echo_recv gives the payload of a segment that    *)
(* finds es->p empty to UART_DRV_SendData (echo.c:379), ignores the status,   *)
(* and may free the payload in the next line.  The UART interrupt sends what  *)
(* did not fit the FIFO from where the payload was.                           *)
(*                                                                         *)
(* ENET_receive runs in the Ethernet interrupt, which the UART's does not     *)
(* preempt (RxInterrupt), or in the main loop, where the UART interrupt comes *)
(* between any two steps.  isTxBlocking is always false: nothing calls        *)
(* UART_DRV_SendDataBlocking.                                                 *)
(*                                                                         *)
(* There it can also come between the load and the store of a C2 &= ... or    *)
(* C2 |= ... of the configuration (echo.c:255, 357), which then switches the   *)
(* interrupt on again that the driver has switched off.  Without a transfer    *)
(* the handler returns at once, the flag stays up, and nothing but the handler *)
(* runs any more: the model stops there (staleC2).                            *)
(***************************************************************************)
EXTENDS Integers

CONSTANTS
  Fifo,         \* txFifoEntryCount
  RxInterrupt,  \* ENET_RECEIVE_ALL_INTERRUPT
  Pbufs, Null,  \* the pbuf pool; NULL
  MaxSize,      \* bound: bytes of a segment
  MaxFrames     \* bound: frames received

ASSUME UartDriverAssumption ==
  /\ Fifo \in Nat \ {0}
  /\ RxInterrupt \in BOOLEAN
  /\ Null \notin Pbufs
  /\ MaxSize \in Nat \ {0} /\ MaxFrames \in Nat

VARIABLES
  txBuff,    \* the byte it points to: in which pbuf (pbuf) and where (k), and
             \* the transfer it belongs to (history): its frame (id), its
             \* length (of), and how much fitted the FIFO at once (fit)
  txSize,
  isTxBusy,
  irqOn,     \* the transmit-data-register-empty interrupt is enabled (C2[TIE])
  fifo,      \* bytes in the FIFO
  content,   \* the frame whose bytes a pbuf's memory holds
  free,      \* the pbufs in the pool
  frames,    \* frames received so far
  pc, seg, room, c2,  \* echo_recv: its place, its segment, emptyEntryCountInFifo,
             \* C2[TIE] as read by a read-modify-write
  gone,      \* history: the pbuf of the transfer has been freed since
  last,      \* history: the byte last put into the FIFO, whose it was (src)
             \* and whether its pbuf was gone
  staleC2    \* C2 was written back with the interrupt enabled that the driver
             \* had meanwhile disabled

transfer == <<txBuff, txSize, isTxBusy>>
pool == <<content, free, frames>>
vars == <<transfer, irqOn, fifo, pool, pc, seg, room, c2, gone, last, staleC2>>

Smaller(i, j) == IF i < j THEN i ELSE j

TypeOK ==
  /\ txBuff \in [pbuf : Pbufs \cup {Null}, k : Nat, id : 0..MaxFrames,
                 of : 0..MaxSize, fit : 0..Fifo]
  /\ txSize \in 0..MaxSize /\ isTxBusy \in BOOLEAN
  /\ irqOn \in BOOLEAN /\ fifo \in 0..Fifo
  /\ content \in [Pbufs -> 0..MaxFrames] /\ free \subseteq Pbufs
  /\ frames \in 0..MaxFrames
  /\ pc \in {"idle", "start", "fill", "complete", "send",
             "stop", "stopping", "go", "going"}
  /\ seg \in [pbuf : Pbufs \cup {Null}, id : 0..MaxFrames, len : 0..MaxSize]
  /\ room \in 0..Fifo /\ c2 \in BOOLEAN
  /\ gone \in BOOLEAN
  /\ last \in [id : 0..MaxFrames, k : 0..MaxSize, of : 0..MaxSize, fit : 0..Fifo,
               src : 0..MaxFrames, gone : BOOLEAN]
  /\ staleC2 \in BOOLEAN

(* UART_DRV_Init *)
Init ==
  /\ txBuff = [pbuf |-> Null, k |-> 0, id |-> 0, of |-> 0, fit |-> 0]
  /\ txSize = 0 /\ isTxBusy = FALSE
  /\ irqOn = FALSE /\ fifo = 0
  /\ content = [c \in Pbufs |-> 0] /\ free = Pbufs /\ frames = 0
  /\ pc = "idle" /\ seg = [pbuf |-> Null, id |-> 0, len |-> 0]
  /\ room = 0 /\ c2 = FALSE
  /\ gone = FALSE
  /\ last = [id |-> 0, k |-> 0, of |-> 0, fit |-> 0, src |-> 0, gone |-> FALSE]
  /\ staleC2 = FALSE

-----------------------------------------------------------------------------
(* A frame comes in and is copied into a free pbuf. *)
ReceiveInto(c) ==
  /\ pc = "idle"
  /\ frames < MaxFrames
  /\ c \in free
  /\ frames' = frames + 1
  /\ content' = [content EXCEPT ![c] = frames']

(* It is nothing for the program, and its pbuf is free again at once; *)
OtherFrame ==
  /\ \E c \in Pbufs : ReceiveInto(c)
  /\ UNCHANGED <<transfer, irqOn, fifo, free, pc, seg, room, c2, gone, last, staleC2>>

(* Mutant: the pbuf stays in the pool's list. *)
TakeMutant(c) == ReceiveInto(c) /\ UNCHANGED free

Take(c) == ReceiveInto(c) /\ free' = free \ {c}

(* or a segment that is only chained to those waiting in es->p; *)
ChainSegment ==
  /\ \E c \in Pbufs : Take(c)
  /\ UNCHANGED <<transfer, irqOn, fifo, pc, seg, room, c2, gone, last, staleC2>>

(* or the first of a connection, which configures the UART; *)
FirstSegment ==
  /\ \E c \in Pbufs : Take(c)
  /\ pc' = "stop"
  /\ UNCHANGED <<transfer, irqOn, fifo, seg, room, c2, gone, last, staleC2>>

(* or one that finds es->p empty, and goes to the UART. *)
SendData ==
  /\ \E c \in Pbufs, len \in 1..MaxSize :
       Take(c) /\ seg' = [pbuf |-> c, id |-> frames', len |-> len]
  /\ pc' = "start"
  /\ UNCHANGED <<transfer, irqOn, fifo, room, c2, gone, last, staleC2>>

(* The configuration writes C2 twice, to switch transmitter and receiver off *)
(* and on. *)
ReadC2 ==
  /\ pc \in {"stop", "go"}
  /\ c2' = irqOn
  /\ pc' = IF pc = "stop" THEN "stopping" ELSE "going"
  /\ UNCHANGED <<transfer, irqOn, fifo, pool, seg, room, gone, last, staleC2>>

WriteC2 ==
  /\ pc \in {"stopping", "going"}
  /\ irqOn' = c2
  /\ staleC2' = (staleC2 \/ (c2 /\ ~irqOn))
  /\ pc' = IF pc = "stopping" THEN "go" ELSE "idle"
  /\ UNCHANGED <<transfer, fifo, pool, seg, room, c2, gone, last>>

-----------------------------------------------------------------------------
(* UART_DRV_StartSendData: refused, with a status that echo_recv ignores, or *)
(* set up. *)
SendRefused ==
  /\ pc = "start"
  /\ isTxBusy
  /\ pc' = "send"
  /\ UNCHANGED <<transfer, irqOn, fifo, pool, seg, room, c2, gone, last, staleC2>>

(* Mutant: the busy test is left out. *)
SendAcceptedMutant ==
  /\ pc = "start"
  /\ txBuff' = [pbuf |-> seg.pbuf, k |-> 1, id |-> seg.id, of |-> seg.len,
                fit |-> Fifo - fifo]
  /\ txSize' = seg.len
  /\ isTxBusy' = TRUE
  /\ room' = Fifo - fifo
  /\ gone' = FALSE
  /\ pc' = "fill"
  /\ UNCHANGED <<irqOn, fifo, pool, seg, c2, last, staleC2>>

SendAccepted ==
  /\ pc = "start"
  /\ ~isTxBusy
  /\ txBuff' = [pbuf |-> seg.pbuf, k |-> 1, id |-> seg.id, of |-> seg.len,
                fit |-> Fifo - fifo]
  /\ txSize' = seg.len
  /\ isTxBusy' = TRUE
  /\ room' = Fifo - fifo
  /\ gone' = FALSE
  /\ pc' = "fill"
  /\ UNCHANGED <<irqOn, fifo, pool, seg, c2, last, staleC2>>

(* j bytes go from txBuff on into the FIFO; what does not fit is lost. *)
Put(j) ==
  /\ fifo' = Smaller(fifo + j, Fifo)
  /\ txBuff' = [txBuff EXCEPT !.k = @ + j]
  /\ txSize' = txSize - j
  /\ last' = [id |-> txBuff.id, k |-> txBuff.k + j - 1, of |-> txBuff.of,
              fit |-> txBuff.fit, src |-> content[txBuff.pbuf], gone |-> gone]

Fill ==
  /\ pc = "fill"
  /\ room > 0
  /\ Put(1)
  /\ room' = room - 1
  /\ pc' = IF txSize' = 0 THEN "complete" ELSE "fill"
  /\ UNCHANGED <<isTxBusy, irqOn, pool, seg, c2, gone, staleC2>>

(* Mutant: the interrupt is not enabled. *)
FilledMutant ==
  /\ pc = "fill"
  /\ room = 0
  /\ pc' = "send"
  /\ UNCHANGED <<transfer, irqOn, fifo, pool, seg, room, c2, gone, last, staleC2>>

Filled ==
  /\ pc = "fill"
  /\ room = 0
  /\ irqOn' = TRUE
  /\ pc' = "send"
  /\ UNCHANGED <<transfer, fifo, pool, seg, room, c2, gone, last, staleC2>>

(* Mutant: the driver stays busy. *)
CompleteBusy ==
  /\ irqOn' = FALSE
  /\ UNCHANGED isTxBusy

CompleteSendData ==
  /\ irqOn' = FALSE
  /\ isTxBusy' = FALSE

Complete ==
  /\ pc = "complete"
  /\ CompleteSendData
  /\ pc' = "send"
  /\ UNCHANGED <<txBuff, txSize, fifo, pool, seg, room, c2, gone, last, staleC2>>

-----------------------------------------------------------------------------
(* A pbuf is freed. *)
Release(c) ==
  /\ free' = free \cup {c}
  /\ gone' = (gone \/ c = txBuff.pbuf)

(* TCP_UART_send copies the segment into the ring and frees it, if it is no *)
(* longer than the send buffer is free; else it stays in es->p. *)
TCP_UART_send ==
  /\ pc = "send"
  /\ Release(seg.pbuf) \/ UNCHANGED <<free, gone>>
  /\ pc' = "idle"
  /\ UNCHANGED <<transfer, irqOn, fifo, content, frames, seg, room, c2, last, staleC2>>

(* Later a callback or echo_poll takes it from there. *)
TakeWaiting ==
  /\ pc = "idle"
  /\ \E c \in Pbufs \ free : Release(c)
  /\ UNCHANGED <<transfer, irqOn, fifo, content, frames, pc, seg, room, c2, last,
                 staleC2>>

-----------------------------------------------------------------------------
(* UART_DRV_IRQHandler.  The flag is up while the FIFO holds at most half of  *)
(* its entries. *)
(* Mutant: the end of the transfer does not end the loop. *)
RefillMutant == Fifo - fifo

Refill == Smaller(Fifo - fifo, txSize)

IRQHandler ==
  /\ RxInterrupt => pc = "idle"
  /\ irqOn /\ fifo <= Fifo \div 2
  /\ isTxBusy /\ txSize > 0
  /\ Put(Refill)
  /\ IF Refill = txSize THEN CompleteSendData ELSE UNCHANGED <<irqOn, isTxBusy>>
  /\ UNCHANGED <<pool, pc, seg, room, c2, gone, staleC2>>

ShiftOut ==
  /\ fifo > 0
  /\ fifo' = fifo - 1
  /\ UNCHANGED <<transfer, irqOn, pool, pc, seg, room, c2, gone, last, staleC2>>

-----------------------------------------------------------------------------
Receive == OtherFrame \/ ChainSegment \/ FirstSegment \/ SendData

Handle ==
  \/ ReadC2 \/ WriteC2
  \/ SendRefused \/ SendAccepted \/ Fill \/ Filled \/ Complete
  \/ TCP_UART_send

Next ==
  /\ ~staleC2
  /\ Receive \/ Handle \/ TakeWaiting \/ IRQHandler \/ ShiftOut

(* echo_recv runs on, and the UART shifts and raises its interrupt.  Nothing *)
(* makes frames come. *)
Fairness ==
  /\ WF_vars(~staleC2 /\ Handle)
  /\ WF_vars(~staleC2 /\ IRQHandler)
  /\ WF_vars(~staleC2 /\ ShiftOut)

Spec == Init /\ [][Next]_vars /\ Fairness

-----------------------------------------------------------------------------
(* The bytes put into the FIFO are those of the accepted segments, in order  *)
(* and none of them lost: a transfer starts at its first byte, and the one    *)
(* before it is complete. *)
BytesInOrder ==
  [][last' # last =>
       IF last'.id = last.id
         THEN last'.k = last.k + (fifo' - fifo)
         ELSE last'.k = fifo' - fifo /\ last.k = last.of]_vars

(* But in the middle of StartSendData, the driver is busy exactly when the    *)
(* interrupt that will finish the transfer is enabled and has bytes to send:  *)
(* else it would refuse every later segment, or interrupt for ever. *)
BusyServed ==
  ~staleC2 /\ pc \notin {"fill", "complete"} =>
    /\ isTxBusy <=> irqOn
    /\ isTxBusy => txSize > 0

(* What goes out is the segment's own byte, as long as nobody has freed its   *)
(* pbuf; in any case if it fitted the FIFO when echo_recv was called; and what *)
(* takes its place is a byte of a later frame, never an old one. *)
IntactUntilFreed ==
  last.src # last.id =>
    /\ last.gone
    /\ last.k > last.fit
    /\ last.src > last.id

(* A transfer ends. *)
TransferEnds == isTxBusy ~> (~isTxBusy \/ staleC2)

(* fsl_uart_driver.h:189: txBuff is "A pointer to the source buffer containing *)
(* 8-bit data chars to send": what goes out is the segment given to SendData. *)
SentAsReceived == last.src = last.id

(* fsl_uart_driver.c:228: CompleteSendData is to "Finish up a transmit by      *)
(* completing the process of sending data and disabling the interrupt": no     *)
(* transfer, no interrupt. *)
OffWhenDone == ~isTxBusy => ~irqOn
=============================================================================
