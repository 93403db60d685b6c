----------------------------- MODULE ClockChain ------------------------------
(***************************************************************************)
(* The baseband clocks of the AD9361: the chain that c/ad9361.c calculates *)
(* for a sample rate, and the dividers of the chip that clk_set_rate sets  *)
(* for it, one clock after the other.  Rates are in kHz.                   *)
(*                                                                         *)
(* The fraction of the baseband PLL is exact here; on the chip it is off   *)
(* by less than 10 Hz.  The two paths have the same rate (rx_eq_2tx is     *)
(* never set on this board), so no product reaches 2^32 Hz.                *)
(***************************************************************************)
EXTENDS Integers, Sequences, SequencesExt

Factors == {1, 2, 4}          \* of a FIR filter: rx_fir_dec, tx_fir_int
MinAdc == 25000
MaxAdc == 640000
MaxDac == 320000
MinBbpll == 715000
MaxBbpll == 1430000
MaxRate == 61440

\* clk_dividers: the whole path and its three half-band stages.
Dividers == << <<12, 3, 2, 2>>, <<8, 2, 2, 2>>, <<6, 3, 1, 2>>, <<4, 2, 2, 1>>,
               <<3, 3, 1, 1>>, <<2, 2, 1, 1>>, <<1, 1, 1, 1>> >>
Rows == 0 .. 6
Whole(i) == Dividers[i + 1][1]

----------------------------------------------------------------------------
(* ad9361_calculate_rf_clock_chain.                                        *)

NoRows == [rx |-> -1, tx |-> -1, adc |-> 0, dac |-> 0]

\* Mutant of Attempt: the transmitter takes the receiver's row whatever the filters do.
AttemptSameRow(f, dec, int, gov) ==
    LET Fits(i) == f * dec * Whole(i) \in MinAdc .. MaxAdc
        i == CHOOSE i \in gov .. 6 : Fits(i) /\ \A j \in gov .. i - 1 : ~Fits(j)
        adc == f * dec * Whole(i)
    IN  IF \A j \in gov .. 6 : ~Fits(j) THEN NoRows
        ELSE IF adc <= MaxDac THEN [rx |-> i, tx |-> i, adc |-> adc, dac |-> adc]
        ELSE [rx |-> i, adc |-> adc, dac |-> adc \div 2,
              tx |-> IF i = 4 THEN 7 ELSE i + IF i = 5 THEN 1 ELSE 2]

\* One pass of the search, from row gov on: the first row whose converter rate is in range
\* is the receiver's; the transmitter's is that many rows away as the rates differ by.
Attempt(f, dec, int, gov) ==
    LET Fits(i) == f * dec * Whole(i) \in MinAdc .. MaxAdc
        i == CHOOSE i \in gov .. 6 : Fits(i) /\ \A j \in gov .. i - 1 : ~Fits(j)
        adc == f * dec * Whole(i)
        dac == f * int * Whole(i)
        ratio == IF dac > adc THEN -(dac \div adc) ELSE adc \div dac
        shift == IF ratio = 1 THEN 0 ELSE ratio
    IN  IF \A j \in gov .. 6 : ~Fits(j) THEN NoRows
        ELSE IF adc <= MaxDac THEN [rx |-> i, tx |-> i - shift, adc |-> adc, dac |-> adc]
        ELSE [rx |-> i, adc |-> adc, dac |-> adc \div 2,
              tx |-> IF i = 4 /\ ratio >= 0 THEN 7
                     ELSE i + (IF i = 5 /\ ratio >= 0 THEN 1 ELSE 2) - shift]

Suits(a) == a.rx \in Rows /\ a.tx \in Rows

\* The recursion raises the first row until a pass succeeds; rates that only the first
\* row brings into range have one pass.
Passes(f, dec, gov) == IF f * dec * 8 < MinAdc THEN {0} ELSE gov .. 6
Tries(f, dec, int, gov) == {g \in Passes(f, dec, gov) : Suits(Attempt(f, dec, int, g))}

Calculable(f, dec, int, gov) == f <= MaxRate /\ Tries(f, dec, int, gov) # {}

\* The highest rate of the PLL in range: the divider starts at 64 and is halved.
Bbpll(adc) ==
    LET Over(n) == adc * 2^n > MaxBbpll
    IN  adc * 2^(CHOOSE n \in 1 .. 6 : ~Over(n) /\ \A m \in n + 1 .. 6 : Over(m))

\* The rates of a path, from the converter to the sample clock.
Path(conv, row, factor) ==
    LET d == Dividers[row + 1]
        second == conv \div d[2]
        third == second \div d[3]
        fourth == third \div d[4]
    IN  <<conv, second, third, fourth, fourth \div factor>>

Calculate(f, dec, int, gov) ==
    LET a == Attempt(f, dec, int, CHOOSE g \in Tries(f, dec, int, gov) :
                                      \A h \in Tries(f, dec, int, gov) : g <= h)
    IN  [bbpll |-> Bbpll(a.adc), rx |-> Path(a.adc, a.rx, dec), tx |-> Path(a.dac, a.tx, int)]

\* ad9361_validate_trx_clock_chain, two channels over LVDS: one of the clocks is to be the
\* data clock.  The quotient of the first loop compares the converter's with it, in Hz.
Valid(ch) ==
    LET dataClk == 4 * ch.rx[5] * 1000
        Near(a, b) == a - b \in -3 .. 3
    IN  \/ \E i \in 1 .. 3 : (ch.rx[1] * 1000) \div (dataClk - i) < 4
        \/ \E i \in 1 .. 4 : Near((ch.rx[2] * 1000) \div 2^i, dataClk)

\* The longest filters that the chain can run (ad9361_validate_enable_fir).
RxMaxTaps(ch) == ((ch.rx[1] \div IF ch.rx[1] = ch.rx[2] THEN 1 ELSE 2) \div ch.rx[5]) * 16
TxMaxTaps(ch) == (ch.tx[1] \div ch.tx[5]) * 16

----------------------------------------------------------------------------
(* The tree of the clocks.                                                 *)

RxClocks == <<"adc", "r2", "r1", "clkrf", "rx">>
TxClocks == <<"dac", "t2", "t1", "clktf", "tx">>
Clocks == ToSet(RxClocks) \cup ToSet(TxClocks)

\* Where a clock stands in its path.
Stage(clocks, c) == CHOOSE i \in 1 .. 5 : clocks[i] = c

\* The registers: the PLL, the divider of each clock and, for the two sample clocks, the
\* code of the FIR filter, where 0 bypasses it.
Trees == [bbpll : Nat, reg : [Clocks -> Nat]]

\* ad9361_get_clk_scaler
Div(t, c) == CASE c \in {"rx", "tx"} -> IF t.reg[c] = 0 THEN 1 ELSE 2^(t.reg[c] - 1)
               [] OTHER -> t.reg[c]

\* clk_get_rate: the rates of a path are read back from the registers, from its first one
\* down, and that from the PLL down.
Down(t, clocks, first) ==
    LET second == first \div Div(t, clocks[2])
        third == second \div Div(t, clocks[3])
        fourth == third \div Div(t, clocks[4])
    IN  <<first, second, third, fourth, fourth \div Div(t, clocks[5])>>
AdcRate(t) == t.bbpll \div Div(t, "adc")
RxRates(t) == Down(t, RxClocks, AdcRate(t))
TxRates(t) == Down(t, TxClocks, AdcRate(t) \div Div(t, "dac"))

Rate(t, c) == IF c \in ToSet(RxClocks) THEN RxRates(t)[Stage(RxClocks, c)]
              ELSE TxRates(t)[Stage(TxClocks, c)]
Parent(t, c) ==
    CASE c = "adc" -> t.bbpll
      [] c = "dac" -> AdcRate(t)
      [] c \in ToSet(RxClocks) \ {"adc"} -> RxRates(t)[Stage(RxClocks, c) - 1]
      [] c \in ToSet(TxClocks) \ {"dac"} -> TxRates(t)[Stage(TxClocks, c) - 1]

\* ad9361_set_clk_scaler: the dividers that a clock accepts.
Accepted(c) ==
    CASE c = "adc" -> 2 .. 127
      [] c \in {"r2", "t2"} -> 1 .. 3
      [] c \in {"r1", "clkrf", "dac", "t1", "clktf"} -> 1 .. 2
      [] c \in {"rx", "tx"} -> {1, 2, 4}

Log(n) == CHOOSE k \in 0 .. 6 : 2^k <= n /\ n < 2^(k + 1)
Rounded(a, b) == (a + b \div 2) \div b
Code(c, d, bypass) ==
    CASE c = "adc" -> 2^Log(d)
      [] c \in {"rx", "tx"} -> IF bypass[c] THEN 0 ELSE Log(d) + 1
      [] OTHER -> d

\* clk_set_rate: a rate that is there is not set again, and one that cannot be set is not,
\* without an error (ad9361_clk_factor_round_rate, ad9361_clk_factor_set_rate).
SetRate(t, c, r, bypass) ==
    LET p == Parent(t, c)
        d == Rounded(p, r)
    IN  IF Rate(t, c) = r \/ d \notin Accepted(c) \/ (r >= p /\ Rounded(r, p) # 1) THEN t
        ELSE [t EXCEPT !.reg[c] = Code(c, d, bypass)]

\* ad9361_bbpll_round_rate, ad9361_bbpll_set_rate
SetBbpll(t, r) ==
    [t EXCEPT !.bbpll = IF r > MaxBbpll THEN MaxBbpll ELSE IF r < MinBbpll THEN MinBbpll ELSE r]

\* The clocks of both paths, from the converters down, in pairs.
SetPair(t, i, ch, bypass) ==
    SetRate(SetRate(t, RxClocks[i], ch.rx[i], bypass), TxClocks[i], ch.tx[i], bypass)
SetClocks(t, ch, bypass) ==
    LET Pair(u, i) == SetPair(u, i, ch, bypass)
    IN  Pair(Pair(Pair(Pair(Pair(SetBbpll(t, ch.bbpll), 1), 2), 3), 4), 5)

\* The middle of ad9361_set_trx_clock_chain: the PLL, the clocks, and the filters whose
\* factor does not show in the rate.
SetTree(t, ch, bypass, factor) ==
    [SetClocks(t, ch, bypass) EXCEPT !.reg = [c \in Clocks |->
        IF c \in {"rx", "tx"} /\ (bypass[c] \/ factor[c] = 1)
        THEN IF bypass[c] THEN 0 ELSE 1
        ELSE @[c]]]

\* The chain that the registers give.
ReadBack(t) == [bbpll |-> t.bbpll, rx |-> RxRates(t), tx |-> TxRates(t)]
=============================================================================
