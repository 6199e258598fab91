----------------------------- MODULE MCEchoConn -----------------------------
(***************************************************************************)
(* EchoConn on a pool of two or three interchangeable cells.  With          *)
(* RxInterrupt the chain in es->p can become a circle, which echo_send      *)
(* writes back without end: ConsumedBound bounds how often.                 *)
(***************************************************************************)
EXTENDS EchoConn, TLC

Symmetry == Permutations(Pbuf)

ConsumedBound == Len(consumed) <= MaxSegs + 2
=============================================================================
