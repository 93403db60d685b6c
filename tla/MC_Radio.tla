------------------------------ MODULE MC_Radio ------------------------------
(* One bandwidth that the quadrature calibration accepts and one it widens. *)
EXTENDS Radio

const_Bandwidths == {1, 2}
const_Timeouts == {{}} \cup {{r} : r \in Runs}
const_Defaults == {1}
const_Loops == {"quad"}
=============================================================================
