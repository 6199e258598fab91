------------------------------ MODULE CircBuf ------------------------------
(***************************************************************************)
(* The byte ring of CircBuf.c: one CBuffer, its storage, and the           *)
(* destination buffer its reader fills.  Bytes go in one at a time          *)
(* (CircBuffWrite) and come out in chunks of a fixed length; after a        *)
(* timeout a shorter remainder may be taken (CircBuffRead), and the ring    *)
(* then skips the unused rest of that chunk's segment.                      *)
(*                                                                         *)
(* The module has no behaviour of its own: it is state and operations for   *)
(* the modules that own a ring.                                             *)
(***************************************************************************)
EXTENDS Integers, Sequences

CONSTANTS
  Byte,      \* what travels through the ring
  NoByte,    \* the content of a cell nothing was stored in yet
  Cap,       \* buff_cap, CIRC_BUFF_SIZE
  Chunk      \* the len every caller passes: TX_BUFFER_SIZE, UART_BUFFER_SIZE

ASSUME CircBufAssumption ==
  /\ Cap \in Nat \ {0}
  /\ Chunk \in 1..Cap
  /\ NoByte \notin Byte

VARIABLES
  mem,       \* the array buff_start points to
  rd,        \* read_ptr - buff_start
  size,      \* bytes stored and not yet read
  windex,    \* where the next byte goes; Cap stands for 0
  dst,       \* dst_buff, Chunk bytes long
  reduced    \* tx_reduced_size: how much of dst a partial read filled

ringVars == <<mem, rd, size, windex>>
stagingVars == <<dst, reduced>>

Cell == Byte \union {NoByte}

CircBufTypeOK ==
  /\ mem \in [0..(Cap - 1) -> Cell]
  /\ rd \in 0..(Cap - 1)
  /\ size \in 0..Cap
  /\ windex \in 0..Cap
  /\ dst \in [1..Chunk -> Cell]
  /\ reduced \in 1..Chunk

CircBuffInit ==
  /\ mem = [i \in 0..(Cap - 1) |-> NoByte]
  /\ rd = 0
  /\ size = 0
  /\ windex = 0
  /\ dst = [i \in 1..Chunk |-> NoByte]
  /\ reduced = Chunk

-----------------------------------------------------------------------------
(***************************************************************************)
(* Writing: a full ring refuses the byte and changes nothing.              *)
(***************************************************************************)
HasRoom == size < Cap

CircBuffWrite(b) ==
  IF HasRoom
    THEN LET w == IF windex = Cap THEN 0 ELSE windex
         IN  /\ mem' = [mem EXCEPT ![w] = b]
             /\ windex' = w + 1
             /\ size' = size + 1
             /\ UNCHANGED rd
    ELSE UNCHANGED ringVars

(***************************************************************************)
(* Reading n bytes: DMA_startTX2 copies from read_ptr on, without wrapping, *)
(* and leaves the rest of dst_buff as it was; read_ptr then moves by a     *)
(* whole chunk, whatever n is.  A cell past the array is not the ring's.    *)
(***************************************************************************)
Fetch(i) == IF i < Cap THEN mem[i] ELSE NoByte

DMA_startTX2(n) ==
  dst' = [i \in 1..Chunk |-> IF i <= n THEN Fetch(rd + i - 1) ELSE dst[i]]

NextRdMutant == rd + Chunk        \* forgets to come back to buff_start

NextRd == IF rd + Chunk >= Cap THEN 0 ELSE rd + Chunk

(* A whole chunk is there: take it. *)
ReadChunk ==
  /\ size >= Chunk
  /\ DMA_startTX2(Chunk)
  /\ size' = size - Chunk
  /\ rd' = NextRd
  /\ UNCHANGED <<mem, windex, reduced>>

(* ReadPart without the line that makes the writer skip the segment's rest *)
ReadPartMutant ==
  /\ size \in 1..(Chunk - 1)
  /\ DMA_startTX2(size)
  /\ reduced' = size
  /\ size' = 0
  /\ rd' = NextRd
  /\ UNCHANGED <<mem, windex>>

(* Less than a chunk is there: take all of it and realign the writer. *)
ReadPart ==
  /\ size \in 1..(Chunk - 1)
  /\ DMA_startTX2(size)
  /\ windex' = windex + (Chunk - size)
  /\ reduced' = size
  /\ size' = 0
  /\ rd' = NextRd
  /\ UNCHANGED mem

-----------------------------------------------------------------------------
(***************************************************************************)
(* What the ring holds, oldest byte first.                                 *)
(***************************************************************************)
Slot(i) == IF rd + i - 1 < Cap THEN rd + i - 1 ELSE rd + i - 1 - Cap

Contents == [i \in 1..size |-> mem[Slot(i)]]

(***************************************************************************)
(* The two indices and the count agree.  They are kept separately by the    *)
(* code, and the reader may only advance by whole chunks: rd is a multiple  *)
(* of Chunk, so when Chunk divides Cap a chunk never runs over the end.     *)
(***************************************************************************)
Segmented == \E n \in 1..Cap : Cap = n * Chunk

IndicesAgree ==
  \/ windex = rd + size
  \/ windex = rd + size - Cap
  \/ windex = Cap /\ rd = 0 /\ size = 0

RingOK ==
  /\ \E k \in 0..Cap : rd = k * Chunk
  /\ IndicesAgree
=============================================================================
