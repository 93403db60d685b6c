---------------------------- MODULE MC_TxSigGen ----------------------------
(* Memories of four words of two bits, and waveforms of one to four words; *)
(* the driver refuses the empty one and the one that is too long.          *)
EXTENDS TxSigGen

const_Datasets == {<<>>, <<1>>, <<-2, 1>>, <<-1, -2, 1, 1>>, <<1, 1, 1, 1, 1>>}
const_Initial == -1
============================================================================
