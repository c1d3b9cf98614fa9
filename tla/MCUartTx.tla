------------------------------- MODULE MCUartTx -------------------------------
EXTENDS UartTx

(* The bytes are their numbers; zero is what memset leaves in the cells.   *)
MCChar == 0..MaxBytes
==============================================================================
