---------------------------- MODULE SegmentInbox ----------------------------
(***************************************************************************)
(* What a connection promises the peer, whatever its callbacks do with      *)
(* pbufs: segments are taken in the order they arrive, each of them once,    *)
(* to be written back or sent on to the serial side; no more wait than the   *)
(* window and the pool allow; the first is always written back; and a        *)
(* connection that the peer ends properly is closed with nothing waiting.   *)
(* Only a reset loses what waits, and its memory with it.                   *)
(***************************************************************************)
EXTENDS Integers, Sequences

CONSTANTS
  Window,   \* how many segments may wait
  Cells     \* how many the memory holds

VARIABLES
  phase,    \* "closed", "open", or "closing" once the peer has ended
  arrived,  \* how many segments the connection has received
  taken,    \* how each of those taken was: "echo" or "ring"
  lost      \* how many cells resets have left occupied

vars == <<phase, arrived, taken, lost>>

Waiting == arrived - Len(taken)

Init ==
  /\ phase = "closed"
  /\ arrived = 0
  /\ taken = <<>>
  /\ lost = 0

Open ==
  /\ phase = "closed"
  /\ phase' = "open"
  /\ arrived' = 0
  /\ taken' = <<>>
  /\ UNCHANGED lost

(* A segment waits, or is sent on at once if it is not the first. *)
Arrive ==
  /\ phase = "open"
  /\ Waiting < Window
  /\ Waiting + lost < Cells
  /\ arrived' = arrived + 1
  /\ \/ UNCHANGED taken
     \/ Waiting = 0 /\ arrived > 0 /\ taken' = Append(taken, "ring")
  /\ UNCHANGED <<phase, lost>>

Take(n, how) ==
  /\ phase # "closed"
  /\ n <= Waiting
  /\ taken = <<>> => how = "echo"
  /\ taken' = taken \o [i \in 1..n |-> how]
  /\ UNCHANGED <<phase, arrived, lost>>

PeerEnds ==
  /\ phase = "open"
  /\ phase' = IF Waiting = 0 THEN "closed" ELSE "closing"
  /\ UNCHANGED <<arrived, taken, lost>>

Close ==
  /\ phase = "closing"
  /\ Waiting = 0
  /\ phase' = "closed"
  /\ UNCHANGED <<arrived, taken, lost>>

Reset ==
  /\ phase # "closed"
  /\ phase' = "closed"
  /\ lost' = lost + Waiting
  /\ UNCHANGED <<arrived, taken>>

Next ==
  \/ Open
  \/ Arrive
  \/ \E n \in 1..Cells, how \in {"echo", "ring"} : Take(n, how)
  \/ PeerEnds
  \/ Close
  \/ Reset

Spec == Init /\ [][Next]_vars
=============================================================================
