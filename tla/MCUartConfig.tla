---------------------------- MODULE MCUartConfig ----------------------------
(* UartConfig with every selection of the client, at the board's clock. *)
EXTENDS UartConfig
=============================================================================
