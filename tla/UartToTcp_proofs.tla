------------------------- MODULE UartToTcp_proofs --------------------------
(***************************************************************************)
(* Type correctness, the preserved stream, the bound on stranded bytes and  *)
(* the refinement of BytePipe, for every capacity that is a whole number of *)
(* chunks, every number of connections and every bound on the bytes.       *)
(***************************************************************************)
EXTENDS UartToTcp, CircBuf_proofs, SequenceTheorems

USE CircBufAssumption, UartToTcpAssumption

LEMMA InitInv == Init => IndInv
<1> SUFFICES ASSUME Init PROVE IndInv
  OBVIOUS
<1>1. TypeOK
  BY EmptySeq DEF Init, CircBuffInit, TypeOK, CircBufTypeOK, Step, Cell
<1>2. RingOK
  BY 0 \in 0..Cap, 0 * Chunk = 0
     DEF Init, CircBuffInit, RingOK, IndicesAgree
<1>3. LoopOK /\ TimerOK
  BY DEF Init, CircBuffInit, LoopOK, TimerOK, ChunkWaits
<1>4. StreamOK
  BY EmptySeq DEF Init, CircBuffInit, StreamOK, Waiting, ChunkWaits
<1> QED
  BY <1>1, <1>2, <1>3, <1>4 DEF IndInv

(***************************************************************************)
(* A step that leaves the ring, tx_buffer and the history alone, and moves  *)
(* no chunk, keeps what the invariant says of them.                        *)
(***************************************************************************)
LEMMA RingUntouched ==
  ASSUME IndInv, UNCHANGED <<ringVars, stagingVars, history>>,
         ChunkWaits' = ChunkWaits
  PROVE  RingOK' /\ StreamOK'
<1>1. /\ mem' = mem /\ rd' = rd /\ size' = size /\ windex' = windex
      /\ dst' = dst /\ reduced' = reduced
      /\ accepted' = accepted /\ handed' = handed
  BY DEF ringVars, stagingVars, history
<1>2. RingOK'
  BY <1>1 DEF IndInv, RingOK, IndicesAgree
<1>3. Waiting' = Waiting
  BY <1>1 DEF Waiting
<1>4. \A i : Slot(i)' = Slot(i)
  BY <1>1 DEF Slot
<1>5. StreamOK'
  BY <1>1, <1>3, <1>4 DEF IndInv, StreamOK
<1> QED
  BY <1>2, <1>5

(* The steps of the main loop that only look, and the interrupts. *)
LEMMA LookingSteps ==
  ASSUME IndInv,
         \/ ReadUARTdata \/ NothingReceived \/ CircBuffRead \/ NoTimerDue
         \/ TO_Timer_callbackIRQ \/ (\E b \in Byte : UartReceives(b))
         \/ SlowTimerExpires \/ echo_accept \/ echo_close
         \/ UNCHANGED vars
  PROVE  IndInv'
<1>1. UNCHANGED <<ringVars, stagingVars, history>> /\ ChunkWaits' = ChunkWaits
  BY DEF IndInv, TypeOK, Step, ReadUARTdata, NothingReceived, CircBuffRead,
         WhatToRead, NoTimerDue, TO_Timer_callbackIRQ, UartReceives,
         SlowTimerExpires, echo_accept, echo_close, vars, flags, world,
         ChunkWaits
<1>2. RingOK' /\ StreamOK'
  BY <1>1, RingUntouched
<1>3. /\ mem' = mem /\ rd' = rd /\ size' = size /\ windex' = windex
      /\ dst' = dst /\ reduced' = reduced
      /\ accepted' = accepted /\ handed' = handed
  BY <1>1 DEF ringVars, stagingVars, history
<1>4. CircBufTypeOK'
  BY <1>3 DEF IndInv, TypeOK, CircBufTypeOK
<1>5. TypeOK' /\ LoopOK' /\ TimerOK'
  <2> USE <1>1, <1>3, <1>4 DEF IndInv, TypeOK, Step, LoopOK, TimerOK
  <2>1. CASE ReadUARTdata
    BY <2>1 DEF ReadUARTdata, flags, world, Cell
  <2>2. CASE NothingReceived
    BY <2>2 DEF NothingReceived, flags, world
  <2>3. CASE CircBuffRead
    <3>1. pc = "read" /\ pc' \in {"timed", "full", "timers"}
      BY <2>3 DEF CircBuffRead, WhatToRead
    <3>2. /\ pc' = "timed" => size > 0
          /\ pc' = "full" => size >= Chunk
          /\ pc' \in {"timed", "full"} => tx_buff_ready_flag
      BY <2>3 DEF CircBuffRead, WhatToRead
    <3> QED
      BY <2>3, <3>1, <3>2 DEF CircBuffRead, world
  <2>4. CASE NoTimerDue
    BY <2>4 DEF NoTimerDue, flags, world
  <2>5. CASE TO_Timer_callbackIRQ
    <3>1. /\ pc' = pc /\ tx_flag' = tx_flag /\ rdrf' = rdrf
          /\ tx_buff_ready_flag' = tx_buff_ready_flag
          /\ slow_due' = slow_due /\ conns' = conns
      BY <2>5 DEF TO_Timer_callbackIRQ, world
    <3>2. /\ timer' \in BOOLEAN /\ timeout_flag' \in {0, 1}
          /\ size > 0 => timer'
          /\ timer
      BY <2>5 DEF TO_Timer_callbackIRQ
    <3>3. TypeOK'
      BY <3>1, <3>2
    <3>4. LoopOK'
      BY <3>1
    <3>5. TimerOK'
      BY <3>1, <3>2 DEF CircBufTypeOK
    <3> QED
      BY <3>3, <3>4, <3>5
  <2>6. CASE \E b \in Byte : UartReceives(b)
    BY <2>6 DEF UartReceives, flags, Cell
  <2>7. CASE SlowTimerExpires
    BY <2>7 DEF SlowTimerExpires, flags
  <2>8. CASE echo_accept
    BY <2>8 DEF echo_accept, flags
  <2>9. CASE echo_close
    BY <2>9 DEF echo_close, flags
  <2>10. CASE UNCHANGED vars
    BY <2>10 DEF vars, flags, world
  <2> QED
    BY <2>1, <2>2, <2>3, <2>4, <2>5, <2>6, <2>7, <2>8, <2>9, <2>10
<1> QED
  BY <1>2, <1>5 DEF IndInv

-----------------------------------------------------------------------------
(***************************************************************************)
(* The steps that move bytes.                                              *)
(***************************************************************************)
LEMMA StoreByteInv == ASSUME IndInv, StoreByte PROVE IndInv'
<1>1. /\ pc = "write" /\ pc' = "read" /\ rdrf \in Byte /\ rdrf' \in {NoByte, rdrf}
      /\ dst' = dst /\ reduced' = reduced /\ timer' = timer
      /\ timeout_flag' = timeout_flag /\ tx_flag' = tx_flag
      /\ tx_buff_ready_flag' = tx_buff_ready_flag
      /\ slow_due' = slow_due /\ conns' = conns
      /\ handed' = handed
      /\ CircBuffWrite(rdrf)
      /\ accepted' = IF HasRoom THEN Append(accepted, rdrf) ELSE accepted
  BY DEF StoreByte, IndInv, TypeOK, stagingVars, flags
<1>2. CircBufTypeOK /\ RingOK /\ accepted \in Seq(Byte) /\ handed \in Seq(Byte)
  BY DEF IndInv, TypeOK
<1>3. ChunkWaits' = ChunkWaits /\ Waiting' = Waiting
  BY <1>1 DEF ChunkWaits, Waiting
<1>4. CASE HasRoom
  <2>1. /\ mem' \in [0..(Cap - 1) -> Cell]
        /\ rd' = rd /\ size' = size + 1
        /\ size' \in 0..Cap /\ windex' \in 0..Cap /\ RingOK'
        /\ \A i \in 1..size' :
             mem'[Slot(i)'] = IF i = size' THEN rdrf ELSE mem[Slot(i)]
    BY <1>1, <1>2, <1>4, WriteAppends
  <2>2. /\ accepted' \in Seq(Byte)
        /\ Len(accepted') = Len(accepted) + 1
        /\ \A i \in 1..Len(accepted) : accepted'[i] = accepted[i]
        /\ accepted'[Len(accepted) + 1] = rdrf
    BY <1>1, <1>2, <1>4, AppendProperties
  <2>3. TypeOK'
    BY <1>1, <1>2, <2>1, <2>2 DEF IndInv, TypeOK, CircBufTypeOK, Cell, Step
  <2>4. LoopOK' /\ TimerOK'
    BY <1>1, <1>2, <1>3, <2>1
       DEF IndInv, LoopOK, TimerOK, CircBufTypeOK
  <2>5. StreamOK'
    <3> DEFINE h == Len(handed)
    <3>1. /\ h \in Nat /\ Waiting \in Nat /\ size \in Nat /\ Len(accepted) \in Nat
          /\ Len(accepted) = h + Waiting + size
      BY <1>2, LenProperties DEF IndInv, StreamOK, Waiting, CircBufTypeOK
    <3>2. Len(accepted') = h + Waiting + size'
      BY <2>1, <2>2, <3>1
    <3>3. \A i \in 1..h : accepted'[i] = handed[i]
      BY <2>2, <3>1 DEF IndInv, StreamOK
    <3>4. \A i \in 1..Waiting : accepted'[h + i] = dst[i]
      BY <2>2, <3>1 DEF IndInv, StreamOK
    <3>5. \A i \in 1..size' : accepted'[h + Waiting + i] = mem'[Slot(i)']
      <4> SUFFICES ASSUME NEW i \in 1..size'
                   PROVE  accepted'[h + Waiting + i] = mem'[Slot(i)']
        OBVIOUS
      <4>1. CASE i = size'
        BY <4>1, <2>1, <2>2, <3>1
      <4>2. CASE i # size'
        <5>1. i \in 1..size /\ h + Waiting + i \in 1..Len(accepted)
          BY <4>2, <2>1, <3>1
        <5>2. accepted[h + Waiting + i] = mem[Slot(i)]
          BY <5>1 DEF IndInv, StreamOK
        <5> QED
          BY <4>2, <5>1, <5>2, <2>1, <2>2
      <4> QED
        BY <4>1, <4>2
    <3> QED
      BY <1>1, <1>3, <3>2, <3>3, <3>4, <3>5 DEF StreamOK
  <2> QED
    BY <2>1, <2>3, <2>4, <2>5 DEF IndInv
<1>5. CASE ~HasRoom
  <2>1. /\ mem' = mem /\ rd' = rd /\ size' = size /\ windex' = windex
        /\ accepted' = accepted
    BY <1>1, <1>5 DEF CircBuffWrite, ringVars
  <2>2. RingOK' /\ StreamOK'
    BY <1>1, <1>3, <2>1, RingUntouched DEF ringVars, stagingVars, history
  <2>3. TypeOK'
    BY <1>1, <1>2, <2>1 DEF IndInv, TypeOK, CircBufTypeOK, Cell, Step
  <2>4. LoopOK' /\ TimerOK'
    BY <1>1, <1>2, <1>3, <2>1 DEF IndInv, LoopOK, TimerOK, CircBufTypeOK
  <2> QED
    BY <2>2, <2>3, <2>4 DEF IndInv
<1> QED
  BY <1>4, <1>5

(***************************************************************************)
(* A read moves the oldest bytes of the ring to an empty tx_buffer.        *)
(***************************************************************************)
LEMMA ChunkTaken ==
  ASSUME IndInv, ReadChunk \/ ReadPart, ~ChunkWaits, ChunkWaits',
         accepted' = accepted, handed' = handed
  PROVE  CircBufTypeOK' /\ RingOK' /\ StreamOK' /\ size' \in 0..size
<1> DEFINE h == Len(handed)
<1>1. /\ CircBufTypeOK /\ RingOK /\ Segmented
      /\ accepted \in Seq(Byte) /\ handed \in Seq(Byte)
      /\ h \in Nat /\ size \in Nat /\ Chunk \in Nat /\ Chunk > 0
  BY LenProperties DEF IndInv, TypeOK, CircBufTypeOK
<1>2. /\ Waiting = 0 /\ reduced = Chunk /\ Waiting' = reduced'
  BY DEF Waiting, IndInv, LoopOK
<1>3. /\ Len(accepted) = h + size
      /\ \A i \in 1..h : accepted[i] = handed[i]
      /\ \A i \in 1..size : accepted[h + i] = mem[Slot(i)]
  <2>1. Len(accepted) = h + 0 + size
    BY <1>2 DEF IndInv, StreamOK
  <2>2. \A i \in 1..size : accepted[h + 0 + i] = mem[Slot(i)]
    BY <1>2 DEF IndInv, StreamOK
  <2>3. \A i \in 1..h : accepted[i] = handed[i]
    BY DEF IndInv, StreamOK
  <2>4. h + 0 + size = h + size /\ \A i \in 1..size : h + 0 + i = h + i
    BY <1>1
  <2>5. \A i \in 1..size : accepted[h + i] = mem[Slot(i)]
    BY <2>2, <2>4
  <2> QED
    BY <2>1, <2>3, <2>4, <2>5
<1>4. CASE ReadChunk
  <2>1. /\ CircBufTypeOK' /\ RingOK' /\ size' = size - Chunk /\ reduced' = reduced
        /\ \A i \in 1..Chunk : dst'[i] = mem[Slot(i)]
        /\ \A i \in 1..size' : mem'[Slot(i)'] = mem[Slot(Chunk + i)]
    BY <1>1, <1>4, ReadChunkTakes
  <2>2. size' \in Nat /\ size >= Chunk
    BY <1>4, <2>1 DEF ReadChunk, CircBufTypeOK
  <2>3. Len(accepted) = h + Chunk + size'
    BY <1>1, <1>3, <2>1
  <2>4. \A i \in 1..Chunk : accepted[h + i] = dst'[i]
    <3>1. \A i \in 1..Chunk : i \in 1..size
      BY <1>1, <2>2
    <3> QED
      BY <1>3, <2>1, <3>1
  <2>5. \A i \in 1..size' : accepted[h + Chunk + i] = mem'[Slot(i)']
    <3> SUFFICES ASSUME NEW i \in 1..size'
                 PROVE  accepted[h + Chunk + i] = mem'[Slot(i)']
      OBVIOUS
    <3>1. Chunk + i \in 1..size /\ h + (Chunk + i) = h + Chunk + i
      BY <1>1, <2>1, <2>2
    <3>2. accepted[h + (Chunk + i)] = mem[Slot(Chunk + i)]
      BY <1>3, <3>1
    <3> QED
      BY <2>1, <3>1, <3>2
  <2>6. StreamOK'
    BY <1>2, <1>3, <2>1, <2>3, <2>4, <2>5 DEF StreamOK
  <2> QED
    BY <1>1, <2>1, <2>2, <2>6
<1>5. CASE ReadPart
  <2>1. /\ CircBufTypeOK' /\ RingOK' /\ size' = 0 /\ reduced' = size
        /\ \A i \in 1..size : dst'[i] = mem[Slot(i)]
    BY <1>1, <1>5, ReadPartTakes
  <2>2. Len(accepted) = h + size + size'
    BY <1>1, <1>3, <2>1
  <2>3. \A i \in 1..size : accepted[h + i] = dst'[i]
    BY <1>3, <2>1
  <2>4. StreamOK'
    BY <1>2, <1>3, <2>1, <2>2, <2>3 DEF StreamOK
  <2> QED
    BY <1>1, <2>1, <2>4
<1> QED
  BY <1>4, <1>5

LEMMA TimedReadInv == ASSUME IndInv, TimedRead PROVE IndInv'
<1>1. /\ pc = "timed" /\ pc' = "release" /\ tx_flag = 0 /\ tx_flag' = 0
      /\ rdrf' = rdrf /\ timer' = timer /\ timeout_flag' = timeout_flag
      /\ tx_buff_ready_flag' = tx_buff_ready_flag
      /\ slow_due' = slow_due /\ conns' = conns
      /\ accepted' = accepted /\ handed' = handed
      /\ ReadChunk \/ ReadPart
  BY DEF TimedRead, IndInv, LoopOK, flags, world, history
<1>2. ~ChunkWaits /\ ChunkWaits'
  BY <1>1 DEF ChunkWaits
<1>3. CircBufTypeOK' /\ RingOK' /\ StreamOK' /\ size' \in 0..size
  BY <1>1, <1>2, ChunkTaken
<1>4. TypeOK'
  BY <1>1, <1>3 DEF IndInv, TypeOK, Step
<1>5. LoopOK'
  BY <1>1, <1>2 DEF IndInv, LoopOK
<1>6. TimerOK'
  BY <1>1, <1>3 DEF IndInv, TypeOK, CircBufTypeOK, TimerOK
<1> QED
  BY <1>3, <1>4, <1>5, <1>6 DEF IndInv

LEMMA FullReadInv == ASSUME IndInv, FullRead PROVE IndInv'
<1>1. /\ pc = "full" /\ pc' = "timers" /\ tx_flag = 0 /\ tx_flag' = 1
      /\ rdrf' = rdrf /\ timer' = timer /\ timeout_flag' = timeout_flag
      /\ ~tx_buff_ready_flag /\ tx_buff_ready_flag' = tx_buff_ready_flag
      /\ slow_due' = slow_due /\ conns' = conns
      /\ accepted' = accepted /\ handed' = handed
      /\ ReadChunk
  BY DEF FullRead, IndInv, LoopOK, world, history
<1>2. ~ChunkWaits /\ ChunkWaits'
  BY <1>1 DEF ChunkWaits
<1>3. CircBufTypeOK' /\ RingOK' /\ StreamOK' /\ size' \in 0..size
  BY <1>1, <1>2, ChunkTaken
<1>4. TypeOK'
  BY <1>1, <1>3 DEF IndInv, TypeOK, Step
<1>5. LoopOK'
  BY <1>1, <1>2 DEF LoopOK
<1>6. TimerOK'
  BY <1>1, <1>3 DEF IndInv, TypeOK, CircBufTypeOK, TimerOK
<1> QED
  BY <1>3, <1>4, <1>5, <1>6 DEF IndInv

LEMMA ReleaseTimeoutInv == ASSUME IndInv, ReleaseTimeout PROVE IndInv'
<1>1. /\ pc = "release" /\ pc' = "timers" /\ tx_flag' = 1 /\ timeout_flag' = 0
      /\ rdrf' = rdrf /\ timer' = timer
      /\ ~tx_buff_ready_flag /\ tx_buff_ready_flag' = tx_buff_ready_flag
      /\ slow_due' = slow_due /\ conns' = conns
      /\ UNCHANGED <<ringVars, stagingVars, history>>
  BY DEF ReleaseTimeout, IndInv, LoopOK, world
<1>2. ChunkWaits' = ChunkWaits /\ ChunkWaits'
  BY <1>1 DEF ChunkWaits
<1>3. RingOK' /\ StreamOK'
  BY <1>1, <1>2, RingUntouched
<1>4. TypeOK'
  BY <1>1 DEF IndInv, TypeOK, CircBufTypeOK, Step, ringVars, stagingVars, history
<1>5. LoopOK' /\ TimerOK'
  BY <1>1, <1>2 DEF IndInv, LoopOK, TimerOK, ringVars
<1> QED
  BY <1>3, <1>4, <1>5 DEF IndInv

(***************************************************************************)
(* ReadInPoll appends the waiting chunk to what was handed over.           *)
(***************************************************************************)
LEMMA StagedIsSeq ==
  ASSUME IndInv, ChunkWaits
  PROVE  /\ StagedBytes \in Seq(Byte)
         /\ Len(StagedBytes) = reduced
         /\ \A i \in 1..reduced : StagedBytes[i] = accepted[Len(handed) + i]
<1>1. /\ reduced \in Nat /\ size \in Nat
      /\ accepted \in Seq(Byte) /\ handed \in Seq(Byte)
      /\ Len(handed) \in Nat /\ Len(accepted) = Len(handed) + reduced + size
      /\ \A i \in 1..reduced : accepted[Len(handed) + i] = dst[i]
  BY LenProperties
     DEF IndInv, TypeOK, CircBufTypeOK, StreamOK, Waiting
<1>2. \A i \in 1..reduced : dst[i] \in Byte
  <2> SUFFICES ASSUME NEW i \in 1..reduced PROVE accepted[Len(handed) + i] \in Byte
    BY <1>1
  <2>1. Len(handed) + i \in 1..Len(accepted)
    BY <1>1
  <2> QED
    BY <1>1, <2>1, ElementOfSeq
<1>3. StagedBytes \in [1..reduced -> Byte]
  BY <1>2 DEF StagedBytes
<1>4. StagedBytes \in Seq(Byte)
  BY <1>1, <1>3, SeqDef
<1>5. Len(StagedBytes) = reduced
  BY <1>1, <1>3, <1>4, LenProperties
<1> QED
  BY <1>1, <1>4, <1>5 DEF StagedBytes

LEMMA HandOverInv ==
  ASSUME IndInv, PollConnections, conns > 0, tx_flag = 1
  PROVE  /\ IndInv'
         /\ accepted' = accepted
         /\ Len(handed') = Len(handed) + reduced
<1> DEFINE h == Len(handed)
<1>1. /\ pc = "timers" /\ pc' = "rdrf" /\ tx_flag' = 0
      /\ tx_buff_ready_flag' = TRUE
      /\ handed' = handed \o StagedBytes /\ reduced' = Chunk
      /\ mem' = mem /\ rd' = rd /\ size' = size /\ windex' = windex
      /\ dst' = dst /\ timer' = timer /\ timeout_flag' = timeout_flag
      /\ slow_due' = FALSE /\ rdrf' = rdrf /\ conns' = conns
      /\ accepted' = accepted
  BY DEF PollConnections, ReadInPoll, SendStaged, ringVars
<1>2. ChunkWaits /\ Waiting = reduced /\ ~ChunkWaits' /\ Waiting' = 0
  BY <1>1 DEF ChunkWaits, Waiting
<1>3. /\ accepted \in Seq(Byte) /\ handed \in Seq(Byte)
      /\ h \in Nat /\ reduced \in Nat /\ size \in Nat /\ reduced \in 1..Chunk
      /\ Len(accepted) = h + reduced + size
  BY <1>2, LenProperties DEF IndInv, TypeOK, CircBufTypeOK, StreamOK
<1>4. /\ StagedBytes \in Seq(Byte)
      /\ Len(StagedBytes) = reduced
      /\ \A i \in 1..reduced : StagedBytes[i] = accepted[h + i]
  BY <1>2, StagedIsSeq
<1>5. /\ handed' \in Seq(Byte)
      /\ Len(handed') = h + reduced
      /\ \A i \in 1..(h + reduced) :
           handed'[i] = IF i <= h THEN handed[i] ELSE StagedBytes[i - h]
  BY <1>1, <1>3, <1>4, ConcatProperties
<1>6. TypeOK'
  <2>1. Chunk \in 1..Chunk
    BY <1>1, <1>3
  <2>2. CircBufTypeOK'
    BY <1>1, <2>1 DEF IndInv, TypeOK, CircBufTypeOK
  <2> QED
    BY <1>1, <1>5, <2>1, <2>2 DEF IndInv, TypeOK, Step
<1>7. RingOK'
  BY <1>1 DEF IndInv, RingOK, IndicesAgree
<1>8. LoopOK' /\ TimerOK'
  BY <1>1, <1>2, <1>3 DEF IndInv, LoopOK, TimerOK
<1>9. StreamOK'
  <2>1. Len(accepted') = Len(handed') + Waiting' + size'
    BY <1>1, <1>2, <1>3, <1>5
  <2>2. \A i \in 1..Len(handed') : accepted'[i] = handed'[i]
    <3> SUFFICES ASSUME NEW i \in 1..(h + reduced) PROVE accepted[i] = handed'[i]
      BY <1>1, <1>5
    <3>1. CASE i <= h
      BY <3>1, <1>3, <1>5 DEF IndInv, StreamOK
    <3>2. CASE ~(i <= h)
      <4>1. i - h \in 1..reduced /\ h + (i - h) = i
        BY <3>2, <1>3
      <4> QED
        BY <3>2, <4>1, <1>4, <1>5
    <3> QED
      BY <3>1, <3>2
  <2>3. \A i \in 1..size' : accepted'[Len(handed') + Waiting' + i] = mem'[Slot(i)']
    <3> SUFFICES ASSUME NEW i \in 1..size
                 PROVE  accepted[h + reduced + 0 + i] = mem[Slot(i)']
      BY <1>1, <1>2, <1>5
    <3>1. Slot(i)' = Slot(i)
      BY <1>1 DEF Slot
    <3>2. accepted[h + reduced + i] = mem[Slot(i)]
      BY <1>2 DEF IndInv, StreamOK
    <3>3. h + reduced + 0 + i = h + reduced + i
      BY <1>3
    <3> QED
      BY <3>1, <3>2, <3>3
  <2> QED
    BY <1>2, <2>1, <2>2, <2>3 DEF StreamOK
<1> QED
  BY <1>1, <1>5, <1>6, <1>7, <1>8, <1>9 DEF IndInv

(* A poll that finds no chunk, or no connection to poll. *)
LEMMA IdlePollInv ==
  ASSUME IndInv, PollConnections, ~(conns > 0 /\ tx_flag = 1)
  PROVE  IndInv' /\ accepted' = accepted /\ handed' = handed
<1>1. /\ pc = "timers" /\ pc' = "rdrf" /\ tx_flag' = tx_flag
      /\ conns > 0 \/ tx_buff_ready_flag' = tx_buff_ready_flag
      /\ tx_buff_ready_flag' = TRUE \/ tx_buff_ready_flag' = tx_buff_ready_flag
      /\ handed' = handed /\ reduced' = reduced
      /\ mem' = mem /\ rd' = rd /\ size' = size /\ windex' = windex
      /\ dst' = dst /\ timer' = timer /\ timeout_flag' = timeout_flag
      /\ slow_due' = FALSE /\ rdrf' = rdrf /\ conns' = conns
      /\ accepted' = accepted
  BY DEF PollConnections, ReadInPoll, KeepStaged, ringVars
<1>2. ChunkWaits' = ChunkWaits
  BY <1>1 DEF ChunkWaits
<1>3. RingOK' /\ StreamOK'
  BY <1>1, <1>2, RingUntouched DEF ringVars, stagingVars, history
<1>4. TypeOK'
  BY <1>1 DEF IndInv, TypeOK, CircBufTypeOK, Step
<1>5. LoopOK' /\ TimerOK'
  BY <1>1, <1>2 DEF IndInv, LoopOK, TimerOK
<1> QED
  BY <1>1, <1>3, <1>4, <1>5 DEF IndInv

-----------------------------------------------------------------------------
LEMMA NextInv == ASSUME IndInv, [Next]_vars PROVE IndInv'
<1>1. CASE StoreByte
  BY <1>1, StoreByteInv
<1>2. CASE TimedRead
  BY <1>2, TimedReadInv
<1>3. CASE ReleaseTimeout
  BY <1>3, ReleaseTimeoutInv
<1>4. CASE FullRead
  BY <1>4, FullReadInv
<1>5. CASE PollConnections
  BY <1>5, HandOverInv, IdlePollInv
<1>6. CASE \/ ReadUARTdata \/ NothingReceived \/ CircBuffRead \/ NoTimerDue
           \/ TO_Timer_callbackIRQ \/ (\E b \in Byte : UartReceives(b))
           \/ SlowTimerExpires \/ echo_accept \/ echo_close
           \/ UNCHANGED vars
  BY <1>6, LookingSteps
<1> QED
  BY <1>1, <1>2, <1>3, <1>4, <1>5, <1>6 DEF Next, MainLoop

(***************************************************************************)
(* The bridge's state is what the invariant says in every behaviour.       *)
(***************************************************************************)
THEOREM Invariance == Spec => []IndInv
<1>1. Init => IndInv
  BY InitInv
<1>2. IndInv /\ [Next]_vars => IndInv'
  BY NextInv
<1> QED
  BY <1>1, <1>2, PTL DEF Spec

(***************************************************************************)
(* Every variable keeps its type, and no index of the ring leaves its array *)
(* (CircBuf.c, echo.c).                                                    *)
(***************************************************************************)
THEOREM TypeCorrect == Spec => []TypeOK
<1>1. IndInv => TypeOK
  BY DEF IndInv
<1> QED
  BY <1>1, Invariance, PTL

(***************************************************************************)
(* The timer interrupt never leaves more than one byte without a timer.    *)
(***************************************************************************)
THEOREM OneStranded == Spec => []AtMostOneStranded
<1>1. IndInv => AtMostOneStranded
  BY DEF IndInv, TypeOK, CircBufTypeOK, TimerOK, AtMostOneStranded
<1> QED
  BY <1>1, Invariance, PTL

-----------------------------------------------------------------------------
LEMMA ContentsIsSeq ==
  ASSUME IndInv
  PROVE  /\ Contents \in Seq(Byte)
         /\ Len(Contents) = size
         /\ \A i \in 1..size :
              Contents[i] = accepted[Len(handed) + Waiting + i]
<1>1. /\ size \in Nat /\ Waiting \in Nat
      /\ accepted \in Seq(Byte) /\ handed \in Seq(Byte)
      /\ Len(handed) \in Nat /\ Len(accepted) = Len(handed) + Waiting + size
      /\ \A i \in 1..size : accepted[Len(handed) + Waiting + i] = mem[Slot(i)]
  BY LenProperties DEF IndInv, TypeOK, CircBufTypeOK, StreamOK, Waiting
<1>2. \A i \in 1..size : mem[Slot(i)] \in Byte
  <2> SUFFICES ASSUME NEW i \in 1..size
               PROVE  accepted[Len(handed) + Waiting + i] \in Byte
    BY <1>1
  <2>1. Len(handed) + Waiting + i \in 1..Len(accepted)
    BY <1>1
  <2> QED
    BY <1>1, <2>1, ElementOfSeq
<1>3. Contents \in [1..size -> Byte]
  BY <1>2 DEF Contents
<1>4. Contents \in Seq(Byte)
  BY <1>1, <1>3, SeqDef
<1>5. Len(Contents) = size
  BY <1>1, <1>3, <1>4, LenProperties
<1> QED
  BY <1>1, <1>4, <1>5 DEF Contents

(* StreamOK states StreamPreserved byte by byte. *)
LEMMA StreamOKSuffices == IndInv => StreamPreserved
<1> SUFFICES ASSUME IndInv PROVE StreamPreserved
  OBVIOUS
<1> DEFINE h == Len(handed)
           front == handed \o Staged
<1>1. /\ accepted \in Seq(Byte) /\ handed \in Seq(Byte)
      /\ h \in Nat /\ Waiting \in Nat /\ size \in Nat
      /\ Len(accepted) = h + Waiting + size
      /\ \A i \in 1..h : accepted[i] = handed[i]
  BY LenProperties DEF IndInv, TypeOK, CircBufTypeOK, StreamOK, Waiting
<1>2. /\ Staged \in Seq(Byte)
      /\ Len(Staged) = Waiting
      /\ \A i \in 1..Waiting : Staged[i] = accepted[h + i]
  <2>1. CASE ChunkWaits
    BY <2>1, StagedIsSeq DEF Staged, Waiting
  <2>2. CASE ~ChunkWaits
    BY <2>2, EmptySeq DEF Staged, Waiting
  <2> QED
    BY <2>1, <2>2
<1>3. /\ front \in Seq(Byte)
      /\ Len(front) = h + Waiting
      /\ \A i \in 1..(h + Waiting) :
           front[i] = IF i <= h THEN handed[i] ELSE Staged[i - h]
  BY <1>1, <1>2, ConcatProperties
<1>4. \A i \in 1..(h + Waiting) : front[i] = accepted[i]
  <2> SUFFICES ASSUME NEW i \in 1..(h + Waiting) PROVE front[i] = accepted[i]
    OBVIOUS
  <2>1. CASE i <= h
    <3>1. i \in 1..h
      BY <2>1, <1>1
    <3> QED
      BY <2>1, <3>1, <1>1, <1>3
  <2>2. CASE ~(i <= h)
    <3>1. i - h \in 1..Waiting /\ h + (i - h) = i
      BY <2>2, <1>1
    <3> QED
      BY <2>2, <3>1, <1>2, <1>3
  <2> QED
    BY <2>1, <2>2
<1>5. /\ Contents \in Seq(Byte)
      /\ Len(Contents) = size
      /\ \A i \in 1..size : Contents[i] = accepted[h + Waiting + i]
  BY ContentsIsSeq
<1>6. /\ front \o Contents \in Seq(Byte)
      /\ Len(front \o Contents) = h + Waiting + size
      /\ \A i \in 1..(h + Waiting + size) : (front \o Contents)[i] =
           IF i <= h + Waiting THEN front[i] ELSE Contents[i - (h + Waiting)]
  <2> HIDE DEF front
  <2>1. /\ front \o Contents \in Seq(Byte)
        /\ Len(front \o Contents) = Len(front) + Len(Contents)
        /\ \A i \in 1..(Len(front) + Len(Contents)) : (front \o Contents)[i] =
             IF i <= Len(front) THEN front[i] ELSE Contents[i - Len(front)]
    <3>1. front \in Seq(Byte) /\ Contents \in Seq(Byte)
      BY <1>3, <1>5
    <3> QED
      BY <3>1, ConcatProperties
  <2>2. Len(front) = h + Waiting /\ Len(Contents) = size
    BY <1>3, <1>5
  <2> QED
    BY <2>1, <2>2
<1>7. \A i \in 1..(h + Waiting + size) : (front \o Contents)[i] = accepted[i]
  <2> HIDE DEF front
  <2> SUFFICES ASSUME NEW i \in 1..(h + Waiting + size)
               PROVE  (front \o Contents)[i] = accepted[i]
    OBVIOUS
  <2>1. CASE i <= h + Waiting
    <3>1. i \in 1..(h + Waiting)
      BY <2>1, <1>1
    <3> QED
      BY <2>1, <3>1, <1>4, <1>6
  <2>2. CASE ~(i <= h + Waiting)
    <3>1. i - (h + Waiting) \in 1..size /\ h + Waiting + (i - (h + Waiting)) = i
      BY <2>2, <1>1
    <3> QED
      BY <2>2, <3>1, <1>5, <1>6
  <2> QED
    BY <2>1, <2>2
<1>8. accepted = front \o Contents
  <2> HIDE DEF front
  <2> QED
    BY <1>1, <1>6, <1>7, SeqEqual
<1> QED
  BY <1>8 DEF StreamPreserved

(***************************************************************************)
(* No byte is lost, repeated or overtaken between the ring and tcp_write.   *)
(***************************************************************************)
THEOREM Stream == Spec => []StreamPreserved
  BY StreamOKSuffices, Invariance, PTL

(***************************************************************************)
(* A chunk that waits for the poll is not touched: neither its bytes nor    *)
(* the length ReadInPoll will use (what tx_buff_ready_flag is for).        *)
(***************************************************************************)
WaitingChunkKept ==
  [][tx_flag = 1 /\ tx_flag' = 1 => UNCHANGED <<dst, reduced>>]_vars

(***************************************************************************)
(* Only a read changes it, and none runs while a chunk waits.              *)
(***************************************************************************)
THEOREM ChunkKept == Spec => WaitingChunkKept
<1>1. IndInv /\ [Next]_vars
        => [tx_flag = 1 /\ tx_flag' = 1 => UNCHANGED <<dst, reduced>>]_vars
  <2> SUFFICES ASSUME IndInv, Next, tx_flag = 1, tx_flag' = 1
               PROVE  UNCHANGED <<dst, reduced>>
    OBVIOUS
  <2>1. pc \notin {"timed", "full", "release"}
    BY DEF IndInv, LoopOK
  <2> QED
    BY <2>1
       DEF Next, MainLoop, ReadUARTdata, NothingReceived, StoreByte,
           CircBuffRead, TimedRead, ReleaseTimeout, FullRead, NoTimerDue,
           PollConnections, ReadInPoll, KeepStaged, TO_Timer_callbackIRQ,
           UartReceives, SlowTimerExpires, echo_accept, echo_close,
           stagingVars
<1> QED
  BY <1>1, Invariance, PTL DEF Spec, WaitingChunkKept

-----------------------------------------------------------------------------
(***************************************************************************)
(* Every step of the bridge is a step of the pipe or leaves it unchanged.   *)
(***************************************************************************)
LEMMA StepIsPipeStep ==
  ASSUME IndInv, IndInv', [Next]_vars
  PROVE  [Pipe!Next]_<<accepted, handed>>
<1>1. CASE StoreByte
  <2>1. CASE HasRoom
    <3>1. Len(accepted) - Len(handed) < Cap + Chunk
      <4>1. Waiting \in 0..Chunk /\ size \in Nat /\ size < Cap
        BY <2>1 DEF IndInv, TypeOK, CircBufTypeOK, Waiting, HasRoom
      <4>2. Len(handed) \in Nat /\ Len(accepted) = Len(handed) + Waiting + size
        BY LenProperties DEF IndInv, TypeOK, StreamOK
      <4> QED
        BY <4>1, <4>2
    <3>2. rdrf \in Byte
      BY <1>1 DEF StoreByte, IndInv, TypeOK
    <3>3. Pipe!Accept(rdrf)
      BY <1>1, <2>1, <3>1 DEF StoreByte, Pipe!Accept
    <3> QED
      BY <3>2, <3>3 DEF Pipe!Next
  <2>2. CASE ~HasRoom
    BY <1>1, <2>2 DEF StoreByte
  <2> QED
    BY <2>1, <2>2
<1>2. CASE PollConnections /\ conns > 0 /\ tx_flag = 1
  <2> DEFINE n == Len(handed) + reduced
  <2>1. accepted' = accepted /\ Len(handed') = n
    BY <1>2, HandOverInv
  <2>2. /\ accepted \in Seq(Byte) /\ handed' \in Seq(Byte)
        /\ reduced \in 1..Chunk /\ n \in Nat /\ Len(accepted) \in Nat
    BY LenProperties DEF IndInv, TypeOK, CircBufTypeOK
  <2>3. n <= Len(accepted)
    BY <1>2, LenProperties
       DEF IndInv, TypeOK, CircBufTypeOK, StreamOK, Waiting, ChunkWaits
  <2>4. \A i \in 1..n : handed'[i] = accepted[i] /\ accepted[i] \in Byte
    <3>1. \A i \in 1..n : handed'[i] = accepted[i]
      BY <2>1 DEF IndInv, StreamOK
    <3>2. \A i \in 1..n : i \in 1..Len(accepted)
      BY <2>2, <2>3
    <3> QED
      BY <3>1, <3>2, <2>2, ElementOfSeq
  <2>5. /\ SubSeq(accepted, 1, n) \in Seq(Byte)
        /\ Len(SubSeq(accepted, 1, n)) = n
        /\ \A i \in 1..n : SubSeq(accepted, 1, n)[i] = accepted[i]
    BY <2>2, <2>3, <2>4, SubSeqProperties
  <2>6. handed' = SubSeq(accepted, 1, n)
    BY <2>1, <2>2, <2>4, <2>5, SeqEqual
  <2>7. Pipe!HandOver(reduced)
    BY <2>1, <2>3, <2>6 DEF Pipe!HandOver
  <2> QED
    BY <2>2, <2>7 DEF Pipe!Next
<1>3. CASE PollConnections /\ ~(conns > 0 /\ tx_flag = 1)
  BY <1>3, IdlePollInv
<1>4. CASE TimedRead \/ FullRead \/ ReleaseTimeout
  BY <1>4 DEF TimedRead, FullRead, ReleaseTimeout, history
<1>5. CASE \/ ReadUARTdata \/ NothingReceived \/ CircBuffRead \/ NoTimerDue
           \/ TO_Timer_callbackIRQ \/ (\E b \in Byte : UartReceives(b))
           \/ SlowTimerExpires \/ echo_accept \/ echo_close
           \/ UNCHANGED vars
  BY <1>5
     DEF ReadUARTdata, NothingReceived, CircBuffRead, NoTimerDue,
         TO_Timer_callbackIRQ, UartReceives, SlowTimerExpires, echo_accept,
         echo_close, vars, history
<1> QED
  BY <1>1, <1>2, <1>3, <1>4, <1>5 DEF Next, MainLoop

(***************************************************************************)
(* Whatever the interrupts do, the bridge is a FIFO pipe of bounded         *)
(* capacity from CircBuffWrite to tcp_write.                               *)
(***************************************************************************)
THEOREM Refinement == Spec => PipeSpec
<1>1. Init => Pipe!Init
  BY DEF Init, Pipe!Init
<1>2. IndInv /\ IndInv' /\ [Next]_vars => [Pipe!Next]_<<accepted, handed>>
  BY StepIsPipeStep
<1> QED
  BY <1>1, <1>2, Invariance, PTL DEF Spec, PipeSpec, Pipe!Spec
=============================================================================
