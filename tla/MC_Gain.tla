------------------------------- MODULE MC_Gain -------------------------------
(* The three full gain tables, an LO in each range and one above them all; *)
(* clocks with and without a decimating filter, from the slowest on, and   *)
(* one whose RSSI measurement has four parts.                              *)
EXTENDS Gain

const_Table(floor, ceiling) ==
    [i \in 0 .. Size - 1 |-> Max({floor, ceiling - (Size - 1) + i})]
const_Tables == <<const_Table(-1, 73), const_Table(-3, 71), const_Table(-10, 62)>>
const_RangeOf(f) == CASE f = 800 -> 1 [] f = 2400 -> 2 [] f = 5500 -> 3 [] f = 6001 -> 0

const_Gains == {-12, -5, 0, 40, 66, 72, 80}

Clock(clkrf, rx, bbpll) == [clkrf |-> clkrf, rx |-> rx, bbpll |-> bbpll]
const_SetupClocks == Clock(30720, 30720, 983040)
const_Clocks == {const_SetupClocks, Clock(61440, 30720, 983040), Clock(2083, 521, 800000),
                 Clock(33853, 33853, 1083296)}
=============================================================================
