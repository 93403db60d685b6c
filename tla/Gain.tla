-------------------------------- MODULE Gain ---------------------------------
(***************************************************************************)
(* The receivers' gain: the tables for the ranges of the LO, the manual    *)
(* gain and the gain control modes, and the registers that a change of the *)
(* baseband clocks brings up to date (ad9361_bb_clk_change_handler): the   *)
(* timing of the gain control, the RSSI measurement and the auxiliary ADC. *)
(*                                                                         *)
(* In main.c's configuration: full gain tables, no external LNA, two       *)
(* receivers.  Rates are in kHz, and settings that nothing here reads are  *)
(* left out.  A fastlock recall, which moves the LO alone, is in Synth.    *)
(***************************************************************************)
EXTENDS Integers, Sequences, FiniteSetsExt, SequencesExt

CONSTANTS Tables,     \* abs_gain_tbl for each range of the LO, from low to high
          Size,       \* SIZE_FULL_TABLE
          Freqs,      \* frequencies of the receiver's LO that callers ask for
          RangeOf(_), \* the range that covers a frequency, 0 for none
          SetupLo,    \* pdata->rx_synth_freq
          Gains,      \* gains that callers ask for, dB
          Clocks,     \* records of the clocks that a clock chain may bring about
          SetupClocks,
          MaxCalls    \* bound: calls in one behaviour

Indices == 0 .. Size - 1
ASSUME SizeAssumption == Size \in Nat \ {0}

\* "Gain tables" of ad9361.c:484: one word after the other, the gain never falls.
ASSUME TableAssumption ==
    /\ Tables # <<>> /\ Tables \in Seq([Indices -> Int])
    /\ \A b \in DOMAIN Tables : \A i, j \in Indices : i <= j => Tables[b][i] <= Tables[b][j]
ASSUME RangeAssumption ==
    /\ SetupLo \in Freqs /\ \A f \in Freqs : RangeOf(f) \in 0 .. Len(Tables)
ASSUME GainAssumption ==
    /\ Gains \subseteq Int /\ MaxCalls \in Nat
    /\ SetupClocks \in Clocks

Ch == {1, 2}
Modes == {"mgc", "fast", "slow", "hybrid"}
SetupMode == "slow"      \* gc_rx1_mode, gc_rx2_mode
NoMode == "invalid"      \* what a caller may pass besides

VARIABLES
    lo,       \* the rate of RX_RFPLL
    table,    \* current_table; the chip's table, loaded with it
    manual,   \* chip: REG_RXn_MANUAL_LMT_FULL_GAIN
    mode,     \* chip: the mode in REG_AGC_CONFIG_1
    agcMode,  \* agc_mode
    clocks,   \* the rates of CLKRF, RX_SAMPL_CLK and BBPLL
    regs,     \* chip: the registers that depend on them
    want,     \* ghost: the gain last accepted for a receiver
    seen,     \* ghost: the tables loaded since
    calls     \* calls made so far

vars == <<lo, table, manual, mode, agcMode, clocks, regs, want, seen, calls>>

----------------------------------------------------------------------------
(* Arithmetic of util.h.                                                   *)

DivRoundUp(x, y) == (x + y - 1) \div y
DivRoundClosest(x, y) == (x + y \div 2) \div y
Least(x, y) == IF x < y THEN x ELSE y
Clamp(x, a, b) == IF x < a THEN a ELSE Least(x, b)
ClampByte(x, b) == Least(x % 256, b)      \* clamp_t(uint8_t, x, 0, b)
Distance(x, y) == IF x < y THEN y - x ELSE x - y

\* ilog2, for x > 0
Log2(x) == Max({i \in 0 .. 30 : 2 ^ i <= x})

----------------------------------------------------------------------------
(* The registers that follow the clocks.                                   *)

gain_ctrl == [update_us |-> 1000, dec_pow |-> 8192, margin_us |-> 1,
              f_dec_pow |-> 64, f_wait_ns |-> 260]
rssi_ctrl == [delay |-> 1, duration |-> 1000, wait |-> 1]
auxadc_ctrl == [interval_ms |-> 1000, rate |-> 40000]
DelayLna == 0

\* Counter of the gain updates, in pairs of CLKRF cycles, before it is halved to fit.
UpdateCounter(clkrf, settling) ==
    Least(DivRoundClosest(gain_ctrl.update_us * clkrf - settling * 2000 - 2000, 2000), 131071)

\* The slow gain control measures the power at least twice between two updates.
MeasureDuration(c, counter, fast) ==
    LET firDiv == DivRoundClosest(c.clkrf, c.rx)
    IN  IF fast THEN gain_ctrl.f_dec_pow
        ELSE IF ((counter * 2) \div firDiv) \div gain_ctrl.dec_pow < 2 THEN counter \div firDiv
        ELSE gain_ctrl.dec_pow

\* ad9361_gc_update: the timing for clocks c, with a fast attack or without.
GcUpdate(c, fast) ==
    LET attack == DivRoundUp((200 + DelayLna) \div 2 + 14000000 \div (2 * c.clkrf), 1000)
                  + gain_ctrl.margin_us
        settling == ClampByte(DivRoundUp((DelayLna + 200) * (c.clkrf \div 2), 1000000) + 7, 31)
        counter == UpdateCounter(c.clkrf, settling)
    IN  [attack |-> ClampByte(attack, 31),
         peak |-> ClampByte(DivRoundUp((DelayLna + 100) * c.clkrf, 1000000) + 1, 31),
         settling |-> settling,
         double |-> counter > 65535,
         counter |-> IF counter > 65535 THEN counter \div 2 ELSE counter,
         duration |-> Log2(MeasureDuration(c, counter, fast) \div 16),
         energy |-> Least(DivRoundClosest(gain_ctrl.f_wait_ns * c.clkrf, 1000000), 31)]

\* One more of at most four powers of two that make up the duration of the measurement.
Split(s) ==
    LET i == Least(Log2(s.left), 14)
    IN  IF s.left = 0 THEN s
        ELSE [parts |-> Append(s.parts, i), left |-> s.left - 2 ^ i]

\* Weights of the parts, by their length, the last one with what is missing or too much;
\* the registers are bytes.
Weights(parts) ==
    LET Plus(x, y) == x + y
        total == FoldLeft(Plus, 0, [k \in DOMAIN parts |-> 2 ^ parts[k]])
        share == [k \in DOMAIN parts |-> DivRoundClosest(255 * 2 ^ parts[k], total)]
        excess == FoldLeft(Plus, 0, share) - 255
    IN  [share EXCEPT ![Len(parts)] = (@ - excess) % 256]

\* ad9361_rssi_setup, in units of microseconds
RssiSetup(rx) ==
    LET s == Split(Split(Split(Split(
                 [parts |-> <<>>, left |-> DivRoundClosest(rssi_ctrl.duration * rx, 1000)]))))
    IN  [parts |-> s.parts, weights |-> Weights(s.parts),
         delay |-> Clamp(DivRoundClosest(rssi_ctrl.delay * rx, 1000) \div 8, 0, 255),
         wait |-> Clamp(DivRoundClosest(rssi_ctrl.wait * rx, 1000) \div 4, 0, 255),
         power2 |-> s.left = 0 /\ Len(s.parts) = 1]

\* ad9361_auxadc_setup
AuxadcSetup(bbpll) ==
    [interval |-> DivRoundClosest(auxadc_ctrl.interval_ms * bbpll, 2 ^ 29),
     divider |-> bbpll \div auxadc_ctrl.rate]

AnyFast(m) == \E ch \in Ch : m[ch] = "fast"

\* Mutant of ClockHandler: the RSSI measurement is not brought up to date.
ClockHandlerNoRssi(c, m) ==
    [agc |-> GcUpdate(c, AnyFast(m)), rssi |-> regs.rssi, aux |-> AuxadcSetup(c.bbpll)]

\* ad9361_bb_clk_change_handler; gc_setup, rssi_setup and auxadc_setup for a setup.
ClockHandler(c, m) ==
    [agc |-> GcUpdate(c, AnyFast(m)), rssi |-> RssiSetup(c.rx), aux |-> AuxadcSetup(c.bbpll)]

----------------------------------------------------------------------------
(* The tables.                                                             *)

\* ad9361_gt_tableindex: the first table if none covers the frequency.
TableIndex(f) == IF RangeOf(f) = 0 THEN 1 ELSE RangeOf(f)

Floor(b) == Tables[b][0]
Ceiling(b) == Tables[b][Size - 1]
NotFound == -1

\* The tables of ad9361.c:484 go up in steps of 1 dB, and have gains in common.
ASSUME StepAssumption ==
    /\ \A b \in DOMAIN Tables : \A g \in Floor(b) .. Ceiling(b) :
           \E i \in Indices : Tables[b][i] = g
    /\ \A b, c \in DOMAIN Tables : Floor(b) <= Ceiling(c)

\* find_table_index: the nearest gain of table b, as long as g is not above its end.
FindTableIndex(b, g) ==
    LET above == {i \in Indices : Tables[b][i] >= g}
        i == Min(above)
        before == IF i > 0 THEN i - 1 ELSE i
    IN  IF above = {} THEN NotFound
        ELSE IF Distance(Tables[b][before], g) < Distance(Tables[b][i], g) THEN before
        ELSE i

\* Mutant of Reindexed: the index is kept.
ReindexedAsIs(from, to, i) == i

\* ad9361_load_gt: the index for table "to" of the gain at index i of table "from".
Reindexed(from, to, i) ==
    LET j == FindTableIndex(to, Tables[from][i])
    IN  IF j = NotFound THEN Size - 1 ELSE j

----------------------------------------------------------------------------
TypeOK ==
    /\ lo \in Freqs /\ table \in DOMAIN Tables
    /\ manual \in [Ch -> Indices]
    /\ mode \in [Ch -> Modes] /\ agcMode \in [Ch -> Modes \cup {NoMode}]
    /\ clocks \in Clocks
    /\ want \in [Ch -> Int] /\ seen \in [Ch -> SUBSET DOMAIN Tables]
    /\ calls \in 0 .. MaxCalls

\* What ad9361_setup leaves: ad9361_gc_setup sets both manual gains to the last index.
SetUp(b) ==
    /\ lo' = SetupLo /\ table' = b
    /\ manual' = [ch \in Ch |-> Size - 1]
    /\ mode' = [ch \in Ch |-> SetupMode] /\ agcMode' = [ch \in Ch |-> SetupMode]
    /\ clocks' = SetupClocks /\ regs' = ClockHandler(SetupClocks, agcMode')
    /\ want' = [ch \in Ch |-> Ceiling(b)] /\ seen' = [ch \in Ch |-> {b}]

Init ==
    LET b == TableIndex(SetupLo)
        modes == [ch \in Ch |-> SetupMode]
    IN  /\ lo = SetupLo /\ table = b
        /\ manual = [ch \in Ch |-> Size - 1]
        /\ mode = modes /\ agcMode = modes
        /\ clocks = SetupClocks
        /\ regs = [agc |-> GcUpdate(SetupClocks, FALSE), rssi |-> RssiSetup(SetupClocks.rx),
                   aux |-> AuxadcSetup(SetupClocks.bbpll)]
        /\ want = [ch \in Ch |-> Ceiling(b)] /\ seen = [ch \in Ch |-> {b}]
        /\ calls = 0

Call == calls < MaxCalls /\ calls' = calls + 1

\* ad9361_set_no_ch_mode: everything is set up again.
Reset == Call /\ SetUp(TableIndex(SetupLo))

\* ad9361_set_rx_lo_freq, up to ad9361_load_gt; the rate it already has is skipped.  A
\* frequency that no range covers is refused, but only after its table was loaded.
Tune(f) ==
    /\ Call /\ f # lo
    /\ lo' = IF RangeOf(f) = 0 THEN lo ELSE f
    /\ table' = TableIndex(f)
    /\ manual' = [ch \in Ch |-> IF table' = table THEN manual[ch]
                                ELSE Reindexed(table, table', manual[ch])]
    /\ seen' = [ch \in Ch |-> seen[ch] \cup {table'}]
    /\ UNCHANGED <<mode, agcMode, clocks, regs, want>>

\* ad9361_set_rx_rf_gain: in manual mode only, and not above the table.
SetGain(ch, g) ==
    LET i == FindTableIndex(table, g)
        taken == mode[ch] = "mgc" /\ i # NotFound
    IN  /\ Call
        /\ manual' = IF taken THEN [manual EXCEPT ![ch] = i] ELSE manual
        /\ want' = IF taken THEN [want EXCEPT ![ch] = g] ELSE want
        /\ seen' = IF taken THEN [seen EXCEPT ![ch] = {table}] ELSE seen
        /\ UNCHANGED <<lo, table, mode, agcMode, clocks, regs>>

\* The end of ad9361_set_gain_ctrl_mode.
Timed(m) == [regs EXCEPT !.agc = GcUpdate(clocks, AnyFast(m))]

\* ad9361_set_rx_gain_control_mode caches what it is given, then ad9361_set_gain_ctrl_mode
\* refuses what it does not know.
SetMode(ch, m) ==
    /\ Call
    /\ agcMode' = [agcMode EXCEPT ![ch] = m]
    /\ mode' = IF m = NoMode THEN mode ELSE [mode EXCEPT ![ch] = m]
    /\ regs' = IF m = NoMode THEN regs ELSE Timed(agcMode')
    /\ UNCHANGED <<lo, table, manual, clocks, want, seen>>

\* The end of ad9361_set_trx_clock_chain.
ChangeClocks(c) ==
    /\ Call /\ c # clocks /\ clocks' = c
    /\ regs' = ClockHandler(c, agcMode)
    /\ UNCHANGED <<lo, table, manual, mode, agcMode, want, seen>>

Next ==
    \/ Reset
    \/ \E f \in Freqs : Tune(f)
    \/ \E ch \in Ch, g \in Gains : SetGain(ch, g)
    \/ \E ch \in Ch, m \in Modes \cup {NoMode} : SetMode(ch, m)
    \/ \E c \in Clocks : ChangeClocks(c)

Spec == Init /\ [][Next]_vars

----------------------------------------------------------------------------
\* What ad9361_get_rx_gain may answer: a gain control may be at any index, and a fast
\* one that has not locked gives none.
NoGain == "again"
ReadGain(ch) ==
    {Tables[table][i] : i \in IF mode[ch] = "mgc" THEN {manual[ch]} ELSE Indices}
    \cup IF mode[ch] = "fast" THEN {NoGain} ELSE {}

\* A gain in dB stays what the caller set while the receiver is tuned back and forth
\* between the tables (ad9361.c:1432-1511), whatever the modes it goes through: only the
\* ends of a table that was loaded since may have cut it.
Expected(ch) ==
    Clamp(want[ch], Max({Floor(b) : b \in seen[ch]}), Min({Ceiling(b) : b \in seen[ch]}))
GainHeld == \A ch \in Ch : mode[ch] = "mgc" => ReadGain(ch) = {Expected(ch)}

\* The timing in the chip fits its clocks and the modes that its receivers are in, the
\* RSSI measurement and the auxiliary ADC its clocks (ad9361.c:4357, 2397), as long as no
\* unknown mode is in the driver's cache, which the timing is taken from.
RegistersCurrent ==
    (\A ch \in Ch : agcMode[ch] # NoMode) =>
        /\ regs.agc = GcUpdate(clocks, AnyFast(mode))
        /\ regs.rssi = RssiSetup(clocks.rx)
        /\ regs.aux = AuxadcSetup(clocks.bbpll)

----------------------------------------------------------------------------
(* Why they hold (module Gain_proofs).                                     *)

\* A gain of x dB is the w dB asked for, cut to the highest floor b and the lowest
\* ceiling c of the tables s.
Cut(s, x, w, b, c) ==
    /\ \A d \in s : Floor(d) <= Floor(b) /\ Ceiling(c) <= Ceiling(d)
    /\ x = Clamp(w, Floor(b), Ceiling(c))

\* Whatever the mode, the manual gain is the one asked for, cut by the tables loaded since.
GainInv ==
    \A ch \in Ch :
        /\ table \in seen[ch]
        /\ \E b, c \in seen[ch] : Cut(seen[ch], Tables[table][manual[ch]], want[ch], b, c)

\* The cached mode of a receiver is the chip's unless it is unknown, and the timing is
\* that of the cached modes as long as none is.
RegsInv ==
    /\ regs = [agc |-> regs.agc, rssi |-> RssiSetup(clocks.rx), aux |-> AuxadcSetup(clocks.bbpll)]
    /\ \A ch \in Ch : agcMode[ch] \in {mode[ch], NoMode}
    /\ (\A ch \in Ch : agcMode[ch] # NoMode) => regs.agc = GcUpdate(clocks, AnyFast(agcMode))

IInv == TypeOK /\ GainInv /\ RegsInv
=============================================================================
