------------------------------ MODULE BytePipe ------------------------------
(***************************************************************************)
(* What the serial-to-network half of the bridge promises: the bytes it     *)
(* hands to TCP are the bytes it accepted from the UART, in the order it    *)
(* accepted them, none twice and none skipped, in chunks of at most Chunk   *)
(* bytes, with at most Room bytes under way.                               *)
(***************************************************************************)
EXTENDS Integers, Sequences

CONSTANTS Byte, Chunk, Room

VARIABLES accepted, handed

Init ==
  /\ accepted = <<>>
  /\ handed = <<>>

Accept(b) ==
  /\ Len(accepted) - Len(handed) < Room
  /\ accepted' = Append(accepted, b)
  /\ UNCHANGED handed

HandOver(n) ==
  /\ Len(handed) + n <= Len(accepted)
  /\ handed' = SubSeq(accepted, 1, Len(handed) + n)
  /\ UNCHANGED accepted

Next ==
  \/ \E b \in Byte : Accept(b)
  \/ \E n \in 1..Chunk : HandOver(n)

Spec == Init /\ [][Next]_<<accepted, handed>>
=============================================================================
