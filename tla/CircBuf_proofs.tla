-------------------------- MODULE CircBuf_proofs ---------------------------
(***************************************************************************)
(* What the operations of CircBuf do to the bytes in the ring, for every    *)
(* capacity that is a whole number of chunks.  Bytes are named by their     *)
(* place in the queue: the i-th oldest byte is mem[Slot(i)].               *)
(***************************************************************************)
EXTENDS CircBuf, TLAPS

(* Multiplication by a natural number is monotonic. *)
LEMMA TimesMonotonic ==
  ASSUME NEW a \in Nat, NEW b \in Nat, NEW c \in Nat, a <= b
  PROVE  a * c <= b * c
  OBVIOUS

(***************************************************************************)
(* A chunk never runs over the end of the array, and the read index moves   *)
(* to the beginning of the next segment.                                   *)
(***************************************************************************)
LEMMA SegmentFits ==
  ASSUME Segmented, CircBufTypeOK, RingOK
  PROVE  /\ rd + Chunk <= Cap
         /\ NextRd \in 0..(Cap - 1)
         /\ \E k \in 0..Cap : NextRd = k * Chunk
<1> USE CircBufAssumption
<1>1. PICK n \in 1..Cap : Cap = n * Chunk
  BY DEF Segmented
<1>2. PICK k \in 0..Cap : rd = k * Chunk
  BY DEF RingOK
<1>3. Chunk \in Nat /\ Chunk > 0 /\ n \in Nat /\ k \in Nat /\ rd \in Nat /\ rd < Cap
  BY DEF CircBufTypeOK
<1>4. k < n
  BY <1>1, <1>2, <1>3, TimesMonotonic, ~(k < n) => n <= k
<1>5. (k + 1) * Chunk <= n * Chunk
  BY <1>3, <1>4, TimesMonotonic, k + 1 <= n
<1>6. (k + 1) * Chunk = rd + Chunk
  BY <1>2, <1>3
<1>7. rd + Chunk <= Cap
  BY <1>1, <1>5, <1>6
<1>8. NextRd \in 0..(Cap - 1)
  BY <1>3 DEF NextRd
<1>9. \E j \in 0..Cap : NextRd = j * Chunk
  <2>1. CASE rd + Chunk >= Cap
    BY <2>1, <1>3, 0 \in 0..Cap, 0 * Chunk = 0 DEF NextRd
  <2>2. CASE ~(rd + Chunk >= Cap)
    <3>1. k + 1 \in 0..Cap
      BY <1>3, <1>4
    <3>2. QED
      BY <2>2, <1>6, <3>1 DEF NextRd
  <2>3. QED
    BY <2>1, <2>2
<1>10. QED
  BY <1>7, <1>8, <1>9

-----------------------------------------------------------------------------
(***************************************************************************)
(* Storing a byte appends it: the bytes already there keep their places.    *)
(***************************************************************************)
LEMMA WriteAppends ==
  ASSUME CircBufTypeOK, RingOK, HasRoom, NEW b \in Byte, CircBuffWrite(b)
  PROVE  /\ mem' \in [0..(Cap - 1) -> Cell]
         /\ rd' = rd
         /\ size' = size + 1
         /\ size' \in 0..Cap
         /\ windex' \in 0..Cap
         /\ RingOK'
         /\ \A i \in 1..size' :
              mem'[Slot(i)'] = IF i = size' THEN b ELSE mem[Slot(i)]
<1> USE CircBufAssumption
<1> DEFINE w == IF windex = Cap THEN 0 ELSE windex
<1>1. /\ mem' = [mem EXCEPT ![w] = b]
      /\ windex' = w + 1
      /\ size' = size + 1
      /\ rd' = rd
  BY DEF CircBuffWrite
<1>2. /\ Cap \in Nat /\ size \in Nat /\ size < Cap
      /\ rd \in Nat /\ rd < Cap /\ windex \in Nat /\ windex <= Cap
  BY DEF CircBufTypeOK, HasRoom
<1>3. w = IF rd + size < Cap THEN rd + size ELSE rd + size - Cap
  BY <1>2 DEF RingOK, IndicesAgree
<1>4. w \in 0..(Cap - 1)
  BY <1>2, <1>3
<1>5. \A i \in 1..(size + 1) : Slot(i)' = Slot(i) /\ Slot(i) \in 0..(Cap - 1)
  BY <1>1, <1>2 DEF Slot
<1>6. Slot(size + 1) = w
  BY <1>2, <1>3 DEF Slot
<1>7. \A i \in 1..size : Slot(i) # w
  BY <1>2, <1>3 DEF Slot
<1>8. mem' \in [0..(Cap - 1) -> Cell]
  BY <1>1, <1>4 DEF CircBufTypeOK, Cell
<1>9. \A i \in 1..size : mem'[Slot(i)'] = mem[Slot(i)]
  BY <1>1, <1>2, <1>5, <1>7 DEF CircBufTypeOK
<1>10. \A i \in 1..size' : i = size' => mem'[Slot(i)'] = b
  <2> SUFFICES ASSUME NEW i \in 1..size', i = size'
               PROVE  mem'[Slot(i)'] = b
    OBVIOUS
  <2>1. i = size + 1 /\ Slot(i)' = w
    BY <1>1, <1>2, <1>5, <1>6
  <2> QED
    BY <2>1, <1>1, <1>4 DEF CircBufTypeOK
<1>11. IndicesAgree'
  BY <1>1, <1>2, <1>3 DEF IndicesAgree
<1>12. RingOK'
  BY <1>1, <1>11 DEF RingOK
<1>13. size' \in 0..Cap /\ windex' \in 0..Cap
  BY <1>1, <1>2, <1>4
<1>14. \A i \in 1..size' :
         mem'[Slot(i)'] = IF i = size' THEN b ELSE mem[Slot(i)]
  <2> SUFFICES ASSUME NEW i \in 1..size'
               PROVE  mem'[Slot(i)'] = IF i = size' THEN b ELSE mem[Slot(i)]
    OBVIOUS
  <2>1. CASE i = size'
    BY <2>1, <1>10
  <2>2. CASE i # size'
    <3>1. i \in 1..size
      BY <2>2, <1>1, <1>2
    <3> QED
      BY <2>2, <3>1, <1>9
  <2> QED
    BY <2>1, <2>2
<1> QED
  BY <1>1, <1>8, <1>12, <1>13, <1>14

(***************************************************************************)
(* Taking a chunk removes the oldest Chunk bytes, in order.                *)
(***************************************************************************)
LEMMA ReadChunkTakes ==
  ASSUME Segmented, CircBufTypeOK, RingOK, ReadChunk
  PROVE  /\ CircBufTypeOK'
         /\ RingOK'
         /\ size' = size - Chunk
         /\ reduced' = reduced
         /\ \A i \in 1..Chunk : dst'[i] = mem[Slot(i)]
         /\ \A i \in 1..size' : mem'[Slot(i)'] = mem[Slot(Chunk + i)]
<1> USE CircBufAssumption
<1>1. /\ size >= Chunk /\ size' = size - Chunk /\ rd' = NextRd
      /\ mem' = mem /\ windex' = windex /\ reduced' = reduced
      /\ dst' = [i \in 1..Chunk |->
                   IF i <= Chunk THEN Fetch(rd + i - 1) ELSE dst[i]]
  BY DEF ReadChunk, DMA_startTX2
<1>2. /\ rd + Chunk <= Cap
      /\ NextRd \in 0..(Cap - 1)
      /\ \E k \in 0..Cap : NextRd = k * Chunk
  BY SegmentFits
<1>3. /\ Cap \in Nat /\ Chunk \in Nat /\ Chunk > 0
      /\ size \in Nat /\ size <= Cap
      /\ rd \in Nat /\ rd < Cap /\ windex \in Nat /\ windex <= Cap
  BY DEF CircBufTypeOK
<1>4. \A i \in 1..Chunk : dst'[i] = mem[Slot(i)] /\ dst'[i] \in Cell
  <2> SUFFICES ASSUME NEW i \in 1..Chunk
               PROVE  dst'[i] = mem[Slot(i)] /\ dst'[i] \in Cell
    OBVIOUS
  <2>1. dst'[i] = Fetch(rd + i - 1)
    BY <1>1, <1>3
  <2>2. rd + i - 1 \in 0..(Cap - 1) /\ Slot(i) = rd + i - 1
    BY <1>2, <1>3 DEF Slot
  <2> QED
    BY <2>1, <2>2, <1>3 DEF Fetch, CircBufTypeOK
<1>5. dst' \in [1..Chunk -> Cell]
  BY <1>1, <1>4
<1>6. \A i \in 1..size' : Slot(i)' = Slot(Chunk + i)
  BY <1>1, <1>2, <1>3 DEF Slot, NextRd
<1>7. \A i \in 1..size' : mem'[Slot(i)'] = mem[Slot(Chunk + i)]
  BY <1>1, <1>6
<1>8. IndicesAgree'
  BY <1>1, <1>2, <1>3 DEF IndicesAgree, RingOK, NextRd
<1>9. RingOK'
  BY <1>1, <1>2, <1>8 DEF RingOK
<1>10. CircBufTypeOK'
  <2>1. size' \in 0..Cap /\ rd' \in 0..(Cap - 1)
    BY <1>1, <1>2, <1>3
  <2> QED
    BY <2>1, <1>1, <1>5 DEF CircBufTypeOK
<1> QED
  BY <1>1, <1>4, <1>7, <1>9, <1>10

(***************************************************************************)
(* Taking the remainder empties the ring, and leaves writer and reader on   *)
(* the same segment boundary.                                              *)
(***************************************************************************)
LEMMA ReadPartTakes ==
  ASSUME Segmented, CircBufTypeOK, RingOK, ReadPart
  PROVE  /\ CircBufTypeOK'
         /\ RingOK'
         /\ size' = 0
         /\ reduced' = size
         /\ \A i \in 1..size : dst'[i] = mem[Slot(i)]
<1> USE CircBufAssumption
<1>1. /\ size \in 1..(Chunk - 1) /\ size' = 0 /\ rd' = NextRd
      /\ mem' = mem /\ windex' = windex + (Chunk - size) /\ reduced' = size
      /\ dst' = [i \in 1..Chunk |->
                   IF i <= size THEN Fetch(rd + i - 1) ELSE dst[i]]
  BY DEF ReadPart, DMA_startTX2
<1>2. /\ rd + Chunk <= Cap
      /\ NextRd \in 0..(Cap - 1)
      /\ \E k \in 0..Cap : NextRd = k * Chunk
  BY SegmentFits
<1>3. /\ Cap \in Nat /\ Chunk \in Nat /\ Chunk > 0
      /\ size \in Nat /\ size < Chunk /\ size > 0
      /\ rd \in Nat /\ rd < Cap /\ windex \in Nat /\ windex <= Cap
  BY <1>1 DEF CircBufTypeOK
<1>4. \A i \in 1..size : dst'[i] = mem[Slot(i)] /\ dst'[i] \in Cell
  <2> SUFFICES ASSUME NEW i \in 1..size
               PROVE  dst'[i] = mem[Slot(i)] /\ dst'[i] \in Cell
    OBVIOUS
  <2>1. dst'[i] = Fetch(rd + i - 1)
    BY <1>1, <1>3
  <2>2. rd + i - 1 \in 0..(Cap - 1) /\ Slot(i) = rd + i - 1
    BY <1>2, <1>3 DEF Slot
  <2> QED
    BY <2>1, <2>2, <1>3 DEF Fetch, CircBufTypeOK
<1>5. \A i \in 1..Chunk : i > size => dst'[i] = dst[i]
  BY <1>1, <1>3
<1>6. dst' \in [1..Chunk -> Cell]
  <2>1. \A i \in 1..Chunk : dst'[i] \in Cell
    BY <1>3, <1>4, <1>5 DEF CircBufTypeOK
  <2> QED
    BY <2>1, <1>1
<1>7. windex = rd + size
  BY <1>2, <1>3 DEF RingOK, IndicesAgree
<1>8. IndicesAgree'
  BY <1>1, <1>2, <1>3, <1>7 DEF IndicesAgree, NextRd
<1>9. RingOK'
  BY <1>1, <1>2, <1>8 DEF RingOK
<1>10. CircBufTypeOK'
  BY <1>1, <1>2, <1>3, <1>6, <1>7 DEF CircBufTypeOK
<1> QED
  BY <1>1, <1>4, <1>9, <1>10
=============================================================================
