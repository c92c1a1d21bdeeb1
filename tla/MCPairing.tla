------------------------------- MODULE MCPairing -------------------------------
(* A small instance of Pairing: two ceremonies, two phones, one of them with  *)
(* a clock that is ahead.                                                     *)
EXTENDS Pairing, TLC

CONSTANTS cer1, cer2, phone1, phone2, place1, place2

\* One port and QR path is the default, the other has to be asked for.
DefaultOrOther == cer1 :> {place1} @@ cer2 :> {place1, place2}

ClockAhead == phone1 :> 0 @@ phone2 :> 1
===============================================================================
