------------------------------ MODULE MCTransmit ------------------------------
(* Transmit on a byte of a few values: replies of up to seven bytes are    *)
(* announced as 0 twice over, so that every branch of the loop is taken.   *)
EXTENDS Transmit
=============================================================================
