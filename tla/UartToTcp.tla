----------------------------- MODULE UartToTcp -----------------------------
(***************************************************************************)
(* Serial to network.  The main loop takes the received byte out of the     *)
(* UART, stores it in the ring CircBufTx, and moves at most one chunk to    *)
(* tx_buffer (dst here).  The chunk waits there until lwIP's slow timer,    *)
(* run by sys_check_timeouts at the end of the loop, polls a connection     *)
(* and ReadInPoll gives the chunk to tcp_write.  A periodic timer (PIT      *)
(* channel 0) interrupts the loop between any two of its steps and asks     *)
(* for what is left over to be sent.  The Ethernet interrupt opens and      *)
(* closes connections at any time.                                         *)
(*                                                                         *)
(* A step of the main loop ends where the timer interrupt could tell the    *)
(* difference: it reads CircBufTx.size and writes timeout_flag and the      *)
(* timer's enable bit.                                                     *)
(***************************************************************************)
EXTENDS CircBuf

CONSTANTS
  MaxBytes,  \* bound: bytes accepted in one behaviour
  MaxConns   \* MEMP_NUM_TCP_PCB: connections open at once

ASSUME UartToTcpAssumption ==
  /\ MaxBytes \in Nat
  /\ MaxConns \in Nat
  /\ Segmented            \* TX_BUFFER_SIZE divides CIRC_BUFF_SIZE

VARIABLES
  pc,                   \* where the main loop is
  rdrf,                 \* UART0->S1.RDRF and D: the byte received, or NoByte
  timer,                \* PIT channel 0 counts (TCTRL.TEN)
  timeout_flag,
  tx_flag,
  tx_buff_ready_flag,
  slow_due,             \* tcp_slowtmr's period has passed
  conns,                \* connections lwIP polls: accepted and not closed
  accepted,             \* history: bytes CircBuffWrite stored
  handed                \* history: bytes given to tcp_write

flags == <<timeout_flag, tx_flag, tx_buff_ready_flag>>
world == <<rdrf, slow_due, conns>>
history == <<accepted, handed>>
vars == <<ringVars, stagingVars, pc, timer, flags, world, history>>

Step == {"rdrf", "write", "read", "timed", "release", "full", "timers"}

(* Each variable holds values of its C type, and no index leaves its array. *)
TypeOK ==
  /\ CircBufTypeOK
  /\ pc \in Step
  /\ rdrf \in Cell
  /\ pc = "write" => rdrf \in Byte
  /\ timer \in BOOLEAN
  /\ timeout_flag \in {0, 1}
  /\ tx_flag \in {0, 1}
  /\ tx_buff_ready_flag \in BOOLEAN
  /\ slow_due \in BOOLEAN
  /\ conns \in 0..MaxConns
  /\ accepted \in Seq(Byte)
  /\ handed \in Seq(Byte)

Init ==
  /\ CircBuffInit
  /\ pc = "rdrf"
  /\ rdrf = NoByte
  /\ timer = FALSE
  /\ timeout_flag = 0
  /\ tx_flag = 0
  /\ tx_buff_ready_flag = TRUE
  /\ slow_due = FALSE
  /\ conns = 0
  /\ accepted = <<>>
  /\ handed = <<>>

-----------------------------------------------------------------------------
(***************************************************************************)
(* The main loop.                                                          *)
(***************************************************************************)

(* RDRF set: ReadUARTdata begins by starting the timer. *)
ReadUARTdata ==
  /\ pc = "rdrf"
  /\ rdrf # NoByte
  /\ timer' = TRUE
  /\ pc' = "write"
  /\ UNCHANGED <<ringVars, stagingVars, flags, world, history>>

NothingReceived ==
  /\ pc = "rdrf"
  /\ rdrf = NoByte
  /\ pc' = "read"
  /\ UNCHANGED <<ringVars, stagingVars, timer, flags, world, history>>

(***************************************************************************)
(* ReadUARTdata ends by storing the byte.  CircBuffWrite is given the       *)
(* address of D and a full ring does not read from it: RDRF stays set, and   *)
(* the next round starts the timer and tries again.                        *)
(***************************************************************************)
StoreByte ==
  /\ pc = "write"
  /\ CircBuffWrite(rdrf)
  /\ IF HasRoom
       THEN accepted' = Append(accepted, rdrf) /\ rdrf' = NoByte
       ELSE UNCHANGED <<accepted, rdrf>>
  /\ pc' = "read"
  /\ UNCHANGED <<stagingVars, timer, flags, slow_due, conns, handed>>

(* CircBuffRead looks at timeout_flag once, and decides. *)
WhatToRead ==
  IF size > 0 /\ timeout_flag = 1 THEN "timed"
  ELSE IF size >= Chunk THEN "full"
  ELSE "timers"

CircBuffRead ==
  /\ pc = "read"
  /\ tx_buff_ready_flag' = FALSE
  /\ pc' = IF tx_buff_ready_flag THEN WhatToRead ELSE "timers"
  /\ UNCHANGED <<ringVars, stagingVars, timer, timeout_flag, tx_flag, world,
                 history>>

TimedRead ==
  /\ pc = "timed"
  /\ ReadChunk \/ ReadPart
  /\ pc' = "release"
  /\ UNCHANGED <<timer, flags, world, history>>

ReleaseTimeout ==
  /\ pc = "release"
  /\ timeout_flag' = 0
  /\ tx_flag' = 1
  /\ pc' = "timers"
  /\ UNCHANGED <<ringVars, stagingVars, timer, tx_buff_ready_flag, world,
                 history>>

FullRead ==
  /\ pc = "full"
  /\ ReadChunk
  /\ tx_flag' = 1
  /\ pc' = "timers"
  /\ UNCHANGED <<timer, timeout_flag, tx_buff_ready_flag, world, history>>

(* sys_check_timeouts finds nothing due. *)
NoTimerDue ==
  /\ pc = "timers"
  /\ ~slow_due
  /\ pc' = "rdrf"
  /\ UNCHANGED <<ringVars, stagingVars, timer, flags, world, history>>

(***************************************************************************)
(* ReadInPoll, on the first connection polled: the following ones find      *)
(* tx_flag = 0.  It drops tcp_write's result: a chunk that TCP has no room  *)
(* for is given up like one that was sent.                                 *)
(***************************************************************************)
StagedBytes == [i \in 1..reduced |-> dst[i]]

SendStaged ==
  /\ handed' = handed \o StagedBytes
  /\ reduced' = Chunk

KeepStaged == UNCHANGED <<handed, reduced, tx_flag>>

(* ReadInPoll that forgets to clear tx_flag *)
ReadInPollKeepsFlag ==
  /\ IF tx_flag = 1 THEN SendStaged /\ UNCHANGED tx_flag ELSE KeepStaged
  /\ tx_buff_ready_flag' = TRUE

(* ReadInPoll that reopens tx_buffer only after it has sent something *)
ReadInPollOpensOnSend ==
  IF tx_flag = 1
    THEN SendStaged /\ tx_flag' = 0 /\ tx_buff_ready_flag' = TRUE
    ELSE KeepStaged /\ UNCHANGED tx_buff_ready_flag

(* ReadInPoll that waits for whole chunks *)
ReadInPollWholeChunks ==
  IF tx_flag = 1 /\ reduced = Chunk
    THEN SendStaged /\ tx_flag' = 0 /\ tx_buff_ready_flag' = TRUE
    ELSE KeepStaged /\ tx_buff_ready_flag' = (tx_flag = 0)

ReadInPoll ==
  /\ IF tx_flag = 1 THEN SendStaged /\ tx_flag' = 0 ELSE KeepStaged
  /\ tx_buff_ready_flag' = TRUE

(* tcp_slowtmr is due: it polls every connection there is. *)
PollConnections ==
  /\ pc = "timers"
  /\ slow_due
  /\ slow_due' = FALSE
  /\ IF conns > 0
       THEN ReadInPoll
       ELSE KeepStaged /\ UNCHANGED tx_buff_ready_flag
  /\ pc' = "rdrf"
  /\ UNCHANGED <<ringVars, dst, timer, timeout_flag, rdrf, conns, accepted>>

MainLoop ==
  \/ ReadUARTdata \/ NothingReceived \/ StoreByte
  \/ CircBuffRead \/ TimedRead \/ ReleaseTimeout \/ FullRead
  \/ NoTimerDue \/ PollConnections

-----------------------------------------------------------------------------
(***************************************************************************)
(* The timer interrupt.  The timer goes on by itself after it expires.      *)
(***************************************************************************)

(* a handler that treats the timer as one-shot *)
TO_Timer_callbackMutant ==
  /\ timer
  /\ timer' = FALSE
  /\ timeout_flag' = IF size > 0 THEN 1 ELSE timeout_flag
  /\ UNCHANGED <<ringVars, stagingVars, pc, tx_flag, tx_buff_ready_flag,
                 world, history>>

TO_Timer_callbackIRQ ==
  /\ timer
  /\ IF size > 0
       THEN timeout_flag' = 1 /\ UNCHANGED timer
       ELSE timer' = FALSE /\ UNCHANGED timeout_flag
  /\ UNCHANGED <<ringVars, stagingVars, pc, tx_flag, tx_buff_ready_flag,
                 world, history>>

(***************************************************************************)
(* The outside: the serial line, the 500 ms clock, and the Ethernet         *)
(* interrupt, in which connections are accepted and closed.                *)
(***************************************************************************)
UartReceives(b) ==
  /\ rdrf = NoByte
  /\ Len(accepted) < MaxBytes
  /\ rdrf' = b
  /\ UNCHANGED <<ringVars, stagingVars, pc, timer, flags, slow_due, conns,
                 history>>

SlowTimerExpires ==
  /\ ~slow_due
  /\ slow_due' = TRUE
  /\ UNCHANGED <<ringVars, stagingVars, pc, timer, flags, rdrf, conns, history>>

echo_accept ==
  /\ conns < MaxConns
  /\ conns' = conns + 1
  /\ UNCHANGED <<ringVars, stagingVars, pc, timer, flags, rdrf, slow_due,
                 history>>

echo_close ==
  /\ conns > 0
  /\ conns' = conns - 1
  /\ UNCHANGED <<ringVars, stagingVars, pc, timer, flags, rdrf, slow_due,
                 history>>

Next ==
  \/ MainLoop
  \/ TO_Timer_callbackIRQ
  \/ \E b \in Byte : UartReceives(b)
  \/ SlowTimerExpires
  \/ echo_accept
  \/ echo_close

Spec == Init /\ [][Next]_vars

(***************************************************************************)
(* The loop never blocks, an enabled PIT channel expires unless a byte that  *)
(* waits keeps starting it anew, and time passes.  Nothing is assumed of the *)
(* serial line or of the peers.                                            *)
(***************************************************************************)
Fairness ==
  /\ WF_vars(MainLoop)
  /\ WF_vars(rdrf = NoByte /\ TO_Timer_callbackIRQ)
  /\ WF_vars(SlowTimerExpires)

FairSpec == Spec /\ Fairness

-----------------------------------------------------------------------------
(***************************************************************************)
(* Properties.                                                             *)
(***************************************************************************)

(* A chunk is in dst and has not been given to tcp_write. *)
ChunkWaits == tx_flag = 1 \/ pc = "release"

Staged == IF ChunkWaits THEN StagedBytes ELSE <<>>

(***************************************************************************)
(* No byte that CircBuffWrite stored is lost, repeated or overtaken on its  *)
(* way through the ring and tx_buffer to tcp_write, whatever the timer      *)
(* interrupt and the partial reads it causes do to the indices.            *)
(***************************************************************************)
StreamPreserved == accepted = handed \o Staged \o Contents

(***************************************************************************)
(* The timer handler may stop the timer between the two halves of           *)
(* ReadUARTdata and so leave a byte without a timer; but never more than    *)
(* one, because the next byte starts it again.                             *)
(***************************************************************************)
AtMostOneStranded == ~timer => size <= 1

(***************************************************************************)
(* With a connection open for good, a chunk that waits is given to TCP.     *)
(***************************************************************************)
WaitingChunkLeaves ==
  <>[](conns > 0) => (tx_flag = 1 ~> tx_flag = 0)

(***************************************************************************)
(* With a connection open for good, a whole chunk in the ring gets its turn *)
(* in tx_buffer, although a read that finds nothing closes tx_buffer too.   *)
(***************************************************************************)
FullChunkStaged ==
  <>[](conns > 0) => (size >= Chunk ~> tx_flag = 1)

(***************************************************************************)
(* TimeoutTimer.h and TX_TIMEOUT in CircBuf.h: what came in is sent after   *)
(* the timeout even if no more follows.  The code breaks it.               *)
(***************************************************************************)
RemainderStaged ==
  <>[](conns > 0) => (size > 0 ~> tx_flag = 1)

(***************************************************************************)
(* Seen from outside it is the pipe of BytePipe: bytes leave in the order   *)
(* they came, at most a chunk at a time, at most Cap + Chunk under way.     *)
(***************************************************************************)
Pipe == INSTANCE BytePipe WITH Room <- Cap + Chunk
PipeSpec == Pipe!Spec

-----------------------------------------------------------------------------
(***************************************************************************)
(* The inductive invariant behind StreamPreserved, AtMostOneStranded and    *)
(* PipeSpec.  LoopOK is what the loop knows at each place; StreamOK states  *)
(* StreamPreserved byte by byte.                                           *)
(***************************************************************************)
LoopOK ==
  /\ tx_flag = 1 \/ pc \in {"timed", "full", "release"} => ~tx_buff_ready_flag
  /\ pc \in {"timed", "full", "release"} => tx_flag = 0
  /\ pc = "timed" => size > 0
  /\ pc = "full" => size >= Chunk
  /\ ~ChunkWaits => reduced = Chunk

TimerOK == ~timer => size <= (IF pc = "write" THEN 0 ELSE 1)

Waiting == IF ChunkWaits THEN reduced ELSE 0

StreamOK ==
  /\ Len(accepted) = Len(handed) + Waiting + size
  /\ \A i \in 1..Len(handed) : accepted[i] = handed[i]
  /\ \A i \in 1..Waiting : accepted[Len(handed) + i] = dst[i]
  /\ \A i \in 1..size : accepted[Len(handed) + Waiting + i] = mem[Slot(i)]

IndInv == TypeOK /\ RingOK /\ LoopOK /\ TimerOK /\ StreamOK
=============================================================================
