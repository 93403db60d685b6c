---------------------------- MODULE MC_Capture ----------------------------
(* A small packager: a FIFO of two beats, packets of up to four, and the  *)
(* requests 0 and 7 (-1 as a three bit word), which the DMA refuses.       *)
EXTENDS Capture

const_Requests == {0, 1, 2, 4, 7}
============================================================================
