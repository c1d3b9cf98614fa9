------------------------------- MODULE MCUartRx -------------------------------
EXTENDS UartRx

(* The bytes are their numbers; zero is what memset leaves in the cells.   *)
MCChar == 0..MaxBytes
==============================================================================
