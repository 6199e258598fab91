---------------------------- MODULE MCUartDriver ----------------------------
(* A FIFO of two, segments of up to four bytes, two pbufs. *)
EXTENDS UartDriver
=============================================================================
