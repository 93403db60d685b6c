------------------------------ MODULE MC_Synth ------------------------------
(* Four frequencies in two ranges of the gain tables, of which two are     *)
(* rounded and three share an ALC word, and one that is refused.           *)
EXTENDS Synth

const_Freqs == 1 .. 5
const_OnGrid == {1, 3}
const_TableEnds == <<0, 1, 3>>
const_AlcWords(f) == IF f = 2 THEN {2} ELSE {0}
=============================================================================
