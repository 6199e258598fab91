---------------------------- MODULE MCUartToTcp ----------------------------
(* UartToTcp on a ring of two chunks of two bytes. *)
EXTENDS UartToTcp
=============================================================================
