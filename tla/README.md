# EtherCom: a verification project

EtherCom is an RS-232/Ethernet bridge. A bare-metal firmware for the FRDM-K64F
board (Freescale Kinetis SDK and lwIP 1.4, both vendored) listens on TCP port 7,
configures UART0 from the first segment of a connection, and then moves bytes
between the serial line and TCP. A Windows client selects the serial parameters
and sends and shows data. The repository's own code is small (about 1200 lines of
C and 500 of C#, in `src/demos/lwip_tcpecho_demo/tcpecho_bm/src/` and
`src/EtherCOM/EtherCOM/`); it has no tests and no documents besides its comments.

## 1. The system

| Part | State | Operations | Interacts with |
|---|---|---|---|
| Byte rings (`CircBuf.c`) | per ring: array, `read_ptr`, `size`, `windex`; `tx_buffer`, `tx_reduced_size` | `CircBuffInit`, `CircBuffWrite`, `CircBuffRead`, `CircBuffRead4Uart`, `ReadUARTdata` | the main loop, the timer handler (reads `size`), `TCP_UART_send` (writes the second ring) |
| Timeout (`TimeoutTimer.c`) | the PIT channel's enable bit, `timeout_flag` | init, reset, stop, the interrupt handler | started by `ReadUARTdata`, asks `CircBuffRead` for a partial read |
| Main loop, `ReadInPoll` (`echo.c`) | `tx_flag`, `tx_buff_ready_flag` | one round of the loop; one send per poll | all of the above; lwIP's timers |
| Connection callbacks (`echo.c`) | `struct echo_state` per connection: state, pbuf chain `p`; the registered `sent` callback | `echo_accept`, `echo_recv`, `echo_sent`, `TCP_UART_sent`, `echo_error`, `echo_poll`, `echo_close` | lwIP, the UART, the second ring |
| UART configuration (`echo.c` 254-357, client) | baud divisor, M, PE, PT, SBNS | one per connection | the client's combo boxes |
| Client (`EtherCOM/`) | two TCP connections, one writing and one reading | connect and configure, send in packs of eight, read with a 100 ms timeout and reconnect | the firmware, over TCP |
| Ethernet driver and port (`fsl_enet_driver.c`, `ethernetif.c`; vendored) | two descriptor rings, each with a driver's and a DMA's position, `isTxBdFull` | `low_level_output`, `ENET_DRV_SendData`, `ENET_DRV_CleanupTxBd`, `ENET_DRV_ReceiveData`, the two interrupt handlers | lwIP above, in the loop and in the interrupt; the controller's DMA below |
| UART driver, transmit half (`fsl_uart_driver.c`; vendored) | `txBuff`, `txSize`, `isTxBusy`, C2's interrupt enable | `UART_DRV_SendData`, the interrupt handler | `echo_recv`, whose segment it sends from where it lies and which writes C2 itself; the UART |
| lwIP's timeouts (`lwip_timers.c`; vendored) | the list of pending handlers, `tcpip_tcp_timer_active` | `sys_check_timeouts`, `sys_timeout`, `tcpip_tcp_timer`, `tcp_timer_needed` | the main loop runs them, the Ethernet interrupt starts the TCP timer, which polls the connections |
| Vendored: the rest of lwIP, PIT and UART HAL | pcbs, pbufs, registers | see `PROJECT.json` | |

Three contexts share this state. The **main loop** polls the UART, moves chunks
and runs lwIP's timers, and with them `echo_poll`. The **timer interrupt** comes
between any two of its instructions. The **Ethernet interrupt**
(`ENET_RECEIVE_ALL_INTERRUPT` is 1) runs lwIP's input, and with it every other
callback. The interrupts have one priority and do not preempt each other;
nothing else protects anything (`SYS_LIGHTWEIGHT_PROT` is 0).

What is hard, and what makes each part correct:

- *rings*: two indices and a count kept separately, partial reads that skip part
  of a segment, wrap-around by two rules. Correct: bytes leave in the order they
  came, none lost or repeated.
- *timeout*: started before the byte is stored, stopped when the ring is empty.
  Correct: what came in leaves after the timeout even if nothing follows.
- *staging*: one `tx_buffer` between the loop and the poll, guarded by one flag
  that an empty read closes too. Correct: a waiting chunk is not touched, and
  chunks keep moving.
- *connections*: pbufs referenced twice by `pbuf_chain` and a third time while
  chopped, two `sent` callbacks that do different things to the same chain, closing
  spread over four callbacks. Correct: every segment consumed once and in order,
  the window given back, no pbuf lost, the connection closed when the client is
  done.
- *Ethernet rings*: the loop's send is broken into by an interrupt that sends too.
  Correct: frames leave once, whole and in order, no descriptor is passed over, and
  the interrupt handlers return.
- *UART driver*: a transfer that goes on in the interrupt after the call has returned, from a
  payload the caller frees, and a register two parties write. Correct: bytes leave in
  order, every transfer ends, and what leaves is the segment that came in.
- *timeouts*: a relative list that the interrupt inserts into while the loop takes from
  it. Correct: each handler keeps its time and goes on being called, and the TCP
  timer, without which nothing is polled, runs while there is a connection.
- *configuration*: a frame of four indices that client and firmware interpret
  independently, registers that keep what nobody sets. Correct: the UART does
  what the labels say.

The hazards, at their lines and with the property that covers each, are in
`PROJECT.json`.

## 2. The modules

| Module | Models |
|---|---|
| `CircBuf` | one ring and its destination buffer: state and operations, no behaviour of its own |
| `UartToTcp` (extends `CircBuf`) | serial to network: main loop, timer interrupt, poll, connections coming and going |
| `BytePipe` | the abstract specification of that direction: a bounded FIFO pipe |
| `EchoConn` | one connection's callbacks, with its pbufs |
| `SegmentInbox` | the abstract specification of a connection: segments that arrive, are taken in order, or are lost by a reset |
| `UartConfig` | from the combo boxes to the UART registers |
| `Enet` | the Ethernet driver's descriptor rings, between lwIP and the DMA |
| `UartDriver` | the UART driver's transmit half, and the pbufs it sends from |
| `LwipTimers` | lwIP's list of timeouts and the TCP timer |
| `Alarms` | the abstract specification of that list: who is due in what time, without relative times |
| `CircBuf_proofs`, `UartToTcp_proofs`, `EchoConn_proofs`, `UartConfig_proofs`, `Enet_proofs`, `UartDriver_proofs`, `LwipTimers_proofs` | the theorems |
| `NatRecursion` | induction and recursion over the naturals, which the proofs about chains and lists use |
| `MC*` | the instances TLC runs |

**UartToTcp.** `mem, rd, size, windex` are a `CBuffer`, `rd` being
`read_ptr - buff_start`; `dst` is `tx_buffer`, `reduced` is `tx_reduced_size`; the
three flags keep their names; `timer` is the channel's TEN bit. `rdrf` is the
UART's receive register, and `conns` counts the connections lwIP polls. `pc` splits
a round of the loop into the steps between which the timer interrupt makes a
difference: before and after the timer is started (`ReadUARTdata`, `StoreByte`),
before `timeout_flag` is tested, before `size` is changed, before `timeout_flag` is
cleared, and before lwIP's timers. Between two steps the interrupt may come
any number of times. `PollConnections` is a whole `tcp_slowtmr`: `ReadInPoll` runs
for each connection, but only the first finds `tx_flag` set. `tcp_write` may accept
or refuse the chunk. A refused chunk is dropped: the flags are reset
all the same, although the comment in `CircBuf.c:88` wants a flag against that. `accepted`
and `handed` are history.

With the ring full, `CircBuffWrite` does not read the register: the byte stays in the
UART and `rdrf` set (`StoreByte`), the next round starts the timer anew and tries again.

Left out: `CircBuffRead4Uart` (nothing uses its result), and serial overruns: what follows on
the line while a byte waits in the register is lost in the UART and never gets into the model.

**EchoConn.** Segments are numbered as they arrive; a pbuf is a pool cell with
`next`, `ref` and the segment it carries; the window and the send buffer count
segments. `PbufFree`, `TryHard` and `Chop` are `pbuf_free`, the `do ... while
(freed == 0)` loop and the chopping in `echo_send`. Callbacks are atomic; `echo_poll`
is split at every access to `es->p` that a callback could come between.
`RxInterrupt` says whether callbacks may come there: TRUE is the build in the
repository, FALSE the build of the same code that calls `ENET_receive` from the loop
(`echo.c` 820-822). What holds only with FALSE is what the callbacks guarantee as
long as they do not preempt one another. With TRUE the code breaks it (run
`conn_chain`). The history `consumed` logs which segment was consumed and how, `aborted`
which pbufs `echo_error` left behind. A connection that ended may be followed by
another one on the same pool.

`SegmentInbox` says what of this a peer can see, without pbufs: how many segments arrived, how
each of those taken was (written back, or sent on), whether the connection is open, ending or
closed, and how many cells resets have cost. `Inbox` in `EchoConn` maps to it: `state` to the three
phases, `consumed` to how each was taken, `aborted` to its size. A segment `echo_poll` writes back is
taken in the step of `tcp_write`, two steps before it leaves `es->p`.

Left out: payload lengths (a segment fits the send buffer or not), `ERR_*` results
other than `ERR_MEM`, `mem_malloc` failing in `echo_accept`, and what a freed `es` contains:
`PollAfterFree` ends the loop there. The transmission that `echo_recv` starts (`echo.c:379`) is
left to `UartDriver`: `consumed` says what becomes of `es->p`, which for `TCP_UART_send` is the second ring,
not what the UART sends.

**UartConfig.** `choice` is what the user selected for the last connection, `Frame`
the four bytes sent, `Configure` the decoding. `Divisor` and `Fraction` keep the widths of
`UART_HAL_SetBaudRate` (a `uint16_t` divisor, 13 bits in the register, five bits of
fraction). All 560 selections are explored in every order. Left out: the
transmitter and receiver being disabled meanwhile, and frames the client cannot
send.

**Enet.** `buf` and `ready` are the transmit descriptors (their frame and their Ready
bit), `cur` is `txBdCurPtr`, `dirty` `txBdDirtyPtr`, `full` `isTxBdFull`; `active` is the
controller's TDAR, `wire` what the DMA has sent. `rx`, `rxCur` and `rxDma` are the same for
reception. The loop's send (`tcp_slowtmr` retransmits from the loop) is split by `pc` at
each access to what the interrupt shares: the copy into the current descriptor's
buffer (`ethernetif.c`), the test of `isTxBdFull`, the arming, the step of the pointer, the
comparison with the dirty pointer and the flag. A send by the receive handler
(`Answer`) is one step and may come between any two of those. Two histories bound what
can be promised: `raced` (the interrupt sent inside a send of the loop) and `overwrote` (a
frame was copied while the ring was full). Both do happen.
Left out: frames of more than one descriptor (buffers are as large as the largest frame),
PTP time stamps, multicast, and the PHY.

**UartDriver.** The firmware makes one call of the driver's transmit half: `echo_recv` gives it the
segment that found `es->p` empty (`echo.c:379`) and goes on, in the next line, to `TCP_UART_send`,
which frees the segment unless the send buffer is short. `UART_DRV_SendDataBlocking` is commented out
wherever it is called, and nothing calls `UART_DRV_AbortSendingData`; neither is modelled, nor is the
semaphore, which only they use. `txSize` and `isTxBusy` keep their names, `irqOn` is C2's TIE; `txBuff` points
into a pbuf, and `content` says which frame's bytes lie there. A byte in the FIFO is
known by its transfer and its place in it, so `BytesInOrder` can tell a byte lost from one sent twice, and
by the frame it really came from, so `IntactUntilFreed` can tell whose it is. `Take`,
`Release` and `OtherFrame` are the pool's pbufs coming and going with other frames and with segments that
are only chained.

`UART_DRV_StartSendData` is split at each byte of its loop, which uses a room in the FIFO it has read once, and the
configuration's two read-modify-writes of C2 at the load and the store. `RxInterrupt` says, as in `EchoConn`,
which build it is: TRUE is the repository's, in which `echo_recv` runs in the Ethernet interrupt and the UART's waits
for its end; with FALSE the UART interrupt comes between any two steps. Every behaviour of the first is
one of the second, so what run `uart_driver` shows of safety holds for both; two things hold in only one of
them or in neither. A segment longer than the FIFO may be overwritten before it is sent, in both
(`uart_payload`; `IntactUntilFreed` says exactly which bytes). And the polled build may switch the interrupt on again
that the driver has just switched off, by storing C2 as it was; the handler then finds no transfer,
returns with the flag still up, and is called again for ever: the model stops there (`staleC2`; `OffInTheInterrupt` proves that the repository's build never
comes to it).

Left out: the receive half (`ReadUARTdata` reads the register instead), callbacks (none is installed), and the
rate and format at which a byte leaves.

**LwipTimers.** `list` is `next_timeout` with relative times in ticks; `late` is the time since
`timeouts_last_time`; `pc`, `h`, `diff` and `ahead` are the loop's place in
`sys_check_timeouts`. `TCP_REG` and `TCP_RMV` are the Ethernet interrupt's connections coming and
going, and `TCP_REG` may insert the TCP timer at any point of the loop's work. In three places
(`AtList`) that spoils what the loop does: between load and store of the pool's head in `memp_free`
(`memp.c:460-461`) and in `memp_malloc` (405-408), and while `sys_timeout` looks for its place in the
list. There the model stops (`torn`): what follows is undefined. Before, between and after them it does
no harm, but takes a cell while the loop holds one, too: `PoolSuffices` counts both.
Where the loop merely overwrites the interrupt's insertion, the timeout is gone with its cell and the model goes on
(`leaked` counts them): `tcpip_tcp_timer_active` stays set, nothing starts the timer again unless another
one is pending, and no connection is polled from then on. That happens twice at most, as a
timeout that is lost is not set again. `missed` is the milder race, a connection opened as the timer
goes off, which the next connection makes good. The interrupt's own `sys_timeout` counts
from `timeouts_last_time` and may so fire early. `sys_timeouts_init` starts a TCP timer that
`tcpip_tcp_timer_active` does not know of, which is why the pool needs a cell for a second.
`Startup` is the list that `sys_timeouts_init` leaves, one `sys_timeout` after another.

`Alarms` says what the list is for: everyone who set an alarm has some time left, in absolute
ticks, which only the clock shortens; the most urgent rings, when its time has come. `Clock` in
`LwipTimers` maps to it: `TimeLeft` adds up the relative times and takes off `Past`, the ticks
that have passed of them, which the code keeps in `timeouts_last_time` or, in the middle of
`sys_check_timeouts`, in `diff` and the entry about to be popped. When the loop returns with `diff` not used up, all
alarms slip by as much as it had already taken from the clock. The promise ends with `Losing`: a
timeout that the interrupt puts right before the entry being popped is lost with it; so is one
put right behind it, and then the next, made relative to it, rings too early as well.

Left out: DHCP's coarse timer (a cyclic handler like the rest), `sys_untimeout` and
`sys_restart_timeouts` (not called here), and the 32-bit wrap of the clock.

## 3. What is model-checked

| Run | Shows | Bounds |
|---|---|---|
| `uart_bridge` | `TypeOK`; `StreamPreserved`: accepted = handed, then staged, then ring; `AtMostOneStranded`; `PipeSpec` (implements `BytePipe`); `WaitingChunkLeaves` and `FullChunkStaged` under fairness | ring of 4, chunks of 2, 2 byte values, 5 bytes, 1 connection |
| `uart_stranded` | *violated* `RemainderStaged`: the timer race of `CircBuf.c:33` leaves a byte in the ring | as above, 1 byte value |
| `conn_polled` | `TypeOK`, `InOrder`, `WindowConserved`, `OnlyAbortLeaks`; `InboxSpec` (implements `SegmentInbox`); `SegmentConsumed` under fairness | 3 pbufs, window 3, send buffer 2, 3 segments per connection |
| `conn_interrupt` | `ConfigNotToUart`, with callbacks inside `echo_poll` | 2 pbufs, 3 segments, at most 5 segments consumed per connection (`ConsumedBound`) |
| `conn_close` | *violated* `ClosesWhenClientDone`: no one closes after the last acknowledgement | 3 pbufs, 3 segments |
| `conn_chain` | *violated* `PbufsRecycled`: a segment chained in the middle of `es->p = ptr->next` is lost | 3 pbufs, 3 segments |
| `config_registers` | `TypeOK`, `RateFrom1200`, `DefaultRestores` | none: all selections, 120 MHz |
| `config_labels` | *violated* `AsLabelled`: 110 baud wraps to about 2836, 150 and 300 are ignored; stop bits come from the parity byte, Even and Odd are exchanged, "7 bits" sets nine | none |
| `enet_rings` | `TypeOK`; `WireFaithful`, `NoGap`, `AtMostOneUncleaned`, `NoRxGap`, `WaitsBehindBad`; `FrameSent` and `HandlerReturns` under fairness | 3 transmit and 2 receive descriptors, 4 frames sent, 2 received |
| `uart_driver` | `TypeOK`, `BusyServed`, `IntactUntilFreed`; `BytesInOrder`; `TransferEnds` under fairness | FIFO of 2, 2 pbufs, segments of up to 4 bytes, 4 frames; polled build |
| `uart_payload` | *violated* `SentAsReceived`: the rest of a long segment is sent from the frame that took its pbuf | as above; shipped build |
| `lwip_timers` | `TypeOK`, `TcpTimersBounded`, `TimerWhenNeeded`, `CyclicKept`, `PoolSuffices`; `AlarmSpec` (implements `Alarms`); `HandlersRun`, `TcpTimerRuns` under fairness | 3 other handlers, intervals 1, 2, 4 and 20 ticks of 250 ms, pool of 5, 4 ticks late, 2 connections |

*Why the bounds are enough.* A ring of two chunks is the smallest in which a chunk
waits while another fills, and 5 bytes go around it once with a partial read at
each position; in the code it is 10 chunks of 10, which the theorems cover. Chunks of
two have one partial length. Two byte values distinguish any swap or
repetition in a sequence this short. A second connection finds `tx_flag` clear in the
same poll. For `EchoConn`, three pbufs in a chain are the first that tell its
second from its last; a send buffer of two can be full, empty and partly
filled (where `tcp_write` may report `ERR_MEM`); three segments fill the pool, or take
again the pbuf of one already consumed, and a connection leaves its pbufs to the next. The
pool's cells are interchangeable, so `conn_interrupt` uses symmetry; `conn_polled`, which checks
liveness too, does not.

For `Enet`, three transmit descriptors are the fewest with a first, a last and one
between, and a fourth frame wraps around; two received frames fill the ring and
put a good frame behind a bad one. For `UartDriver`, a FIFO of 2 is filled by a transfer of two and
outrun by one of three, so that a transfer ends in the calling context and in the
interrupt, and one of four needs two interrupts; two pbufs are one that is being sent and one that comes meanwhile, and
four frames are a transfer, one refused, one that takes a freed pbuf and one more. For `LwipTimers`, the intervals keep the order and the ratios of the code's (250 ms,
500 ms, 1 s, 5 s), and a loop four ticks late finds several handlers due at once, one of
them twice. Two connections are the first that can be opened while the other
keeps the timer on.

*Fairness.* `UartToTcp`: the main loop never blocks (weak fairness of its steps), an
enabled PIT channel expires unless a byte that waits in the UART keeps starting it anew, and `tcp_slowtmr` keeps coming
due (`LwipTimers` shows what that rests on, and how the shipped build may lose it: `leaked`). Nothing is
assumed of the serial line or the peers; the two liveness properties assume a
connection that stays open. `EchoConn`: a connection with something in `es->p` keeps
being polled and `echo_send`'s loop keeps looping (weak), and a peer that is there
again and again acknowledges all that is in flight (strong, because the
acknowledgement is enabled only between two rounds of the loop). `ReadInPoll` may or
may not have UART data to send: no fairness decides that.

`Enet`: the loop never blocks, an interrupt that is
pending is taken and its handler goes on, and the DMA sends what is ready (all weak). Nothing
makes frames come in. `UartDriver`: `echo_recv` runs on, and the UART shifts its
FIFO out and raises its interrupt (all weak). `LwipTimers`: the loop never
blocks and time passes; nothing opens or keeps a connection.

Deadlock is checked except in `enet_rings` and the two runs of `UartDriver`, where the bounded counts of
frames run out and all comes to rest, and in `lwip_timers`, where a torn list ends
the model.

## 4. What is proved

All proofs assume what the constants' `ASSUME`s say, and nothing else:
`CircBufAssumption` (a chunk is no longer than the ring) and `UartToTcpAssumption`, of
which the one that matters is `Segmented`: the chunk length divides the ring's size, as
10 divides 100. (The second ring, with chunks of 8 in 100 bytes, does not satisfy
it and is not covered.) `EnetAssumption` asks for rings of two or more descriptors,
`UartDriverAssumption` for a FIFO and segments of one byte or more. `EchoConnAssumption` asks for a finite pool of
pbufs and a window and send buffer of one segment or more; `UartConfigAssumption` for a clock
that its 32-bit variable holds; `LwipTimersAssumption` for intervals of a tick or more and
handlers that are each started once.

Four hypotheses stand in the theorems themselves. `FastEnough` (`UartConfig_proofs`): the UART's
clock is at least 16 times the highest rate offered, 14.7 MHz; the board's is 120 MHz, and a
slower one would give 921600 baud a divisor of zero. `Pool >= Len(Started) + 2` (`PoolEnough`):
a cell for every handler and one for a second TCP timer. `~RxInterrupt` (`EchoConn_proofs`, but not
`ConfigStays`): no callback comes in the middle of `echo_poll`. The repository's own
build does not satisfy that one, and run `conn_chain` shows what it loses. `RxInterrupt`
(`OffInTheInterrupt`): the UART interrupt waits for the end of `echo_recv`, as it does in the repository's
build. In the polled build `OffWhenDone` does not hold: `staleC2` marks where it fails.

`CircBuf_proofs` has a lemma for each operation: a write appends (`WriteAppends`), a
whole read takes the oldest chunk and shifts the rest (`ReadChunkTakes`), a partial
read takes everything and leaves the indices agreeing (`ReadPartTakes`), a chunk never
runs over the end of the array (`SegmentFits`).

`UartToTcp_proofs` proves, for every ring and chunk size, byte set and bound:

- `Invariance`: `Spec => []IndInv`. `IndInv` is `TypeOK` and four parts that
  `StreamPreserved` and `AtMostOneStranded` need to become inductive. `RingOK`: `rd` is a
  multiple of the chunk, and `windex` is `rd + size` up to the ring's size.
  `LoopOK`: what the loop knows at each place; above all that a waiting chunk means
  `tx_buff_ready_flag` is false, so that no second chunk is staged. `TimerOK`: with the timer
  off the ring holds at most one byte, and none when a byte is about to be
  stored. `StreamOK`: the stream equation byte by byte, `accepted` at each position being
  `handed`, `dst` or a slot of the ring.
- `TypeCorrect`, `OneStranded` (`AtMostOneStranded`), `Stream` (`StreamPreserved`): the
  invariants of run `uart_bridge`. `ChunkKept`: a chunk that waits for the poll is not touched, neither its
  bytes nor its length (`WaitingChunkKept`).
- `Refinement`: `Spec => PipeSpec`. `StoreByte` maps to `Accept`, a poll that finds a chunk
  to `HandOver`, everything else to a stutter.

`Enet_proofs` proves, for every size of the two rings and every number of frames:

- `Invariance`: `Spec => []IndInv`, where `IndInv` is `TypeOK` and `RingInv`. `RingInv`
  says, until `raced`, that the ready descriptors are a window from the DMA's
  place on, as long as the frames handed over and not yet sent (`Window`), that the
  next frame goes to its end (`EndOfWindow`), and what each place of the loop's send knows
  of `full` and `dirty` (`Places`): above all that as long as the ring is not full the
  window does not reach from `cur` past `dirty`. While nothing was `overwrote`, the
  descriptors of the window hold the next frames of the wire (`Content`).
- `RxInvariance`: the same with `RxInv` for the receive ring, where the frames waiting are a
  window from `rxCur` to `rxDma`.
- `TypeCorrect`, `Faithful` (`WireFaithful`), `Gapless` (`NoGap`), `NoFramePassed` (`NoRxGap`),
  `OnlyBehindBad` (`WaitsBehindBad`), `AlmostClean` (`AtMostOneUncleaned`): the safety
  properties of run `enet_rings`.

`UartDriver_proofs` proves, for every FIFO, pool, segment length and number of frames:

- `Invariance`: `Spec => []IndInv`. Beside `TypeOK`, `BusyServed` and `IntactUntilFreed`, `IndInv` has
  `Held`, that the segment in `echo_recv`'s hand is in its pbuf and nowhere else; `Places`, what each
  place knows of the driver, above all that the room read once is never more than is free; `Position`, that a transfer in
  progress stands where `txBuff.k + txSize` says and never leaves to the interrupt what fitted the FIFO; `Payload`,
  that its pbuf holds its segment until it is freed, and a later frame at most from then on; `Order`, that the
  byte last put is the one before `txBuff`, or ended its transfer.
- `TypeCorrect`, `BusyIsServed` (`BusyServed`), `IntactWhileHeld` (`IntactUntilFreed`) and `InOrder`
  (`BytesInOrder`): the safety properties of run `uart_driver`.
- `OffInTheInterrupt`: with `RxInterrupt` the interrupt is off whenever no transfer is on (`OffWhenDone`), which no
  run checks: without `RxInterrupt` the store of C2 breaks it.

`NatRecursion` states induction over an initial segment of the naturals with a set for
the induction hypothesis (`UpTo`, from the well-foundedness of `<`), and that a recursion
over one, given by a base and a function for each step, has a solution (`Solution`). With them
the functions that the models define by recursion, chains of pbufs, sums and counts over lists,
the start-up list and the loops of `pbuf_free`, can be reasoned about for every length.

`UartConfig_proofs` proves, for every clock that is `FastEnough`, `TypeCorrect`, `RateCorrect`
(`RateFrom1200`) and `DefaultCorrect` (`DefaultRestores`: the selection the client starts with, which is 115200
baud where `main` sets 9600, gives what it says whatever came before): the properties of run
`config_registers`. The lemma behind them, `Exact`, is that the 16-bit divisor and the five
bits of fraction lose nothing from 1200 baud on.

`EchoConn_proofs` proves, for every pool, window, send buffer and number of segments:

- About chains: the walk that `Chain` recurses on exists (`WalkExists`), a path of distinct
  pbufs from one to Null is its chain (`PathChain`), and `echo_send`'s chopping frees exactly the pbufs it passes and
  leaves the counts of the others alone (`ChopFirst`, by induction over their number).
- `ConfigStays` (`ConfigNotToUart`), for callbacks that interrupt `echo_poll` anywhere.
  Interrupted, the poll may lose pbufs, put freed ones back into `es->p`, and make chains that are
  no paths. The invariant, `ConfigInv`, speaks of no chain therefore: there is a set of
  pbufs that `es->p` and the poll's locals point into, that is closed under `next`, and in
  which no pbuf's successor is the first segment (`Reach`). So the configuration can only
  be where `es->p` points itself, and there `echo_sent` is the callback (`Stage` says in
  which states).
- `Invariance`: `~RxInterrupt => (Spec => []PolledInv)`. `PolledInv` is `TypeOK` and, for the
  chain `s` of `es->p`: `Shape` (a path, nothing twice, apart from what `echo_error`
  abandoned); `Owned` (a pbuf has references exactly if it is in `s`, was abandoned, or is
  the one the poll has written and is about to free); `Counts` (two references on every
  pbuf but the first, its own and the one `pbuf_chain` takes, and three on the first, with that of
  `pbuf_ref`, while its predecessor, which still points to it, is to be freed); `Loop` (what the poll has
  read is still so); `Order` (consumed and waiting segments are numbered without a gap) and
  `Window`. Without `Counts` nobody could say that `pbuf_free` stops where it should, and
  without `Shape` and `Owned` that a freed cell is not still chained.
- `TypeCorrect`, `SegmentsInOrder` (`InOrder`), `WindowIsConserved` (`WindowConserved`),
  `OnlyAbortsLeak` (`OnlyAbortLeaks`): the invariants of run `conn_polled`.
- `InboxRefined`: `~RxInterrupt => (Spec => InboxSpec)`, action by action (`OpenStep`, `ArriveStep`,
  `FinStep`, `TakeStep`, `ResetStep`; the steps of the poll but `tcp_write` are stutters). `PolledInv`
  gives that what waits is the chain, so that `TCP_UART_sent`, which takes a whole chain, takes
  no more than waits, and that a free cell means room (`CellsUsed`); `ConfigInv` that the first segment is not
  what `TCP_UART_sent` takes. Neither invariant alone is enough.

`LwipTimers_proofs` proves, for any handlers, intervals and number of connections:

- `InsertDue`: `sys_timeout` makes its handler due after its interval and leaves every
  other's time alone. `StartsUp`: `sys_timeouts_init` leaves each handler in the list once.
- `Invariance`: `Spec => []IInv`. Until a list is torn, `IInv` says what the interrupt can
  have put before the entry being popped (`Popping`): at most one TCP timer, and then it is
  noted. From that, there is one of each cyclic handler in the list or in the loop's hands
  (`OneOfEach`), at most one TCP timer more than is noted (`OneTcpMore`), and so many cells in
  all (`CellsUsed`); a timer that has just given up counts until it is no longer noted.
  `Needed` is what keeps the TCP timer on.
- `TypeCorrect`, `CyclicAlive` (`CyclicKept`), `TwoTcpTimers` (`TcpTimersBounded`), `TimerOn`
  (`TimerWhenNeeded`), `PoolEnough` (`PoolSuffices`): the invariants of run `lwip_timers`.
  `PoolEnough` covers the code's pool, which has ten cells (`lwipopts.h:110`): lost timeouts, whose cells
  never come back, do not exhaust it, since `CellsUsed` counts them with the rest.
- `AlarmsRefined`: `Spec => AlarmSpec`. `LeftInsert` and `LeftPop` say what `sys_timeout` and moving
  `next_timeout` on do to the times left: the one puts an alarm into its place and leaves
  the rest alone, the other takes the first away. Beside `IInv` it takes `ClockInv`: the ticks
  worked off are never behind `timeouts_last_time`, and what expired was not due
  by more than the loop may be late. `Links` and `Starts` map to `Set`, `Pop` to `Ring`, `CheckEnds` to `Slip`, a
  step that loses a timeout to `Lose`, and the rest of the loop to stutters.
- `TimesKept`: no step that puts a handler in changes when another is due, even where a timeout is
  lost (`OthersKeepTheirTime`).

With that, every invariant, every action property and all three refinements (`PipeSpec`,
`InboxSpec`, `AlarmSpec`) that passing runs check are also proved. Only model-checked are the
liveness properties (`WaitingChunkLeaves`, `FullChunkStaged`, `SegmentConsumed`, `FrameSent`, `HandlerReturns`, `TransferEnds`,
`HandlersRun`, `TcpTimerRuns`): the prover handles neither fairness nor
ENABLED. The five properties that a run refutes have no theorem. `OffWhenDone` has one,
for the repository's build only (`OffInTheInterrupt`), and no run.

## 5. Not modelled, and why

- *Network to serial* (`CircBuffRead4Uart`, the second ring): what it yields is
  never sent, so no behaviour depends on it. The unprotected `size` (`CircBuf.c:177`, `echo.c:571`)
  and chunks of 8 in a ring of 100 are listed as hazards.
- *The Windows client*: only what it selects and sends for the configuration is modelled
  (`UartConfig`). Its reading connection, the 100 ms reconnect and its packs of eight
  go through .NET sockets and a TCP whose segmentation is not in this repository.
- *A torn list or pool* (`memp.c:408`) and *a freed `es`* (`PollAfterFree`): the behaviour
  after it is undefined; the models say when it can happen and stop there.
- *The UART's receive half*: the program reads the register itself. *Its blocking call, abort and semaphore*
  (`fsl_os_abstraction_bm.c`): never called, `echo.c` 567, 757 and 836 being comments.
- The rest of the SDK and of lwIP (vendored: TCP's own state machine, DHCP, ARP, IP
  reassembly; their code is not changed by this program), RTCS, MFS, USB and the other
  stacks in the tree (not linked), the RTOS variants of the echo demo (the vendor's
  example), `Form1`, `Form2` and `RsForm` of the client (not compiled into it),
  `HalfBuffInit`, `DMA_startTX` and `connection_init` (never called), LEDs and pins.
