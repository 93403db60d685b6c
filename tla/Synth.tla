------------------------------- MODULE Synth --------------------------------
(***************************************************************************)
(* The two RF synthesizers of the AD9361 as c/ad9361.c and c/util.c drive  *)
(* them: tuning through clk_set_rate and the fastlock profiles.            *)
(*                                                                         *)
(* A synthesizer is programmed through its direct registers, or, in        *)
(* fastlock mode, takes its words from a slot of its profile memory at the *)
(* recall.  The driver keeps caches of both: the LO frequencies last asked *)
(* for, the kind of VCO table in use, the rates of the clocks, the active  *)
(* profile and the ALC word of each slot.  Tuning one synthesizer may have *)
(* to program the other one too.                                           *)
(*                                                                         *)
(* The configuration is main.c's: FDD without the independent mode, no     *)
(* external LO, no pin control, auto calibration on.  Frequencies are      *)
(* numbers whose order and distance are all that counts; the ready mask    *)
(* that fastlock_prepare sets is the complement of calEnabled and left out.*)
(***************************************************************************)
EXTENDS Integers, Sequences

CONSTANTS Freqs,         \* frequencies that callers ask for
          MinLo, MaxLo,  \* limits of ad9361_validate_rfpll
          BadRate,       \* -EINVAL of the rounding, taken for a rate
          OnGrid,        \* frequencies that are read back as they were asked
          TableEnds,     \* boundaries of the gain tables, from low to high
          CalThreshold,  \* cal_threshold_freq
          AlcMod,        \* number of ALC words (128)
          AlcWords(_),   \* what the VCO calibration may find at a frequency
          NumProfiles,   \* fastlock profiles of a synthesizer (8)
          MaxCalls       \* bound: calls of the driver in one behaviour

Side == {"rx", "tx"}
Other(s) == IF s = "rx" THEN "tx" ELSE "rx"
InRange == {f \in Freqs : MinLo <= f /\ f <= MaxLo}
Alc == 0 .. AlcMod - 1
NoFreq == 0
\* Numbered as in current_profile, where 0 says that there is none.
Profiles == 1 .. NumProfiles

ASSUME FreqAssumption ==
    /\ Freqs \subseteq Nat \ {NoFreq} /\ MinLo \in Nat /\ MaxLo \in Nat
    /\ CalThreshold \in Nat /\ BadRate \in Nat /\ BadRate > MaxLo + CalThreshold
ASSUME TableAssumption == TableEnds \in Seq(Nat)
ASSUME AlcAssumption ==
    /\ AlcMod \in Nat /\ AlcMod > 1
    /\ \A f \in InRange : AlcWords(f) # {} /\ AlcWords(f) \subseteq Alc
ASSUME ProfileAssumption == NumProfiles \in Nat /\ MaxCalls \in Nat

VARIABLES
    lo,          \* current_rx_lo_freq, current_tx_lo_freq
    tdd,         \* current_rx_use_tdd_table, current_tx_use_tdd_table
    rate,        \* clks[RX_RFPLL]->rate, clks[TX_RFPLL]->rate
    profile,     \* fastlock.current_profile: 0, or the profile's number
    entry,       \* fastlock.entry
    table,       \* current_table
    quadFreq,    \* last_tx_quad_cal_freq
    synth,       \* chip: what the direct registers hold
    slots,       \* chip: the profile memories
    fast,        \* chip: FAST_LOCK_SETUP, 0 when the mode is off
    inUse,       \* chip: the words taken at the last recall
    calEnabled,  \* chip: the VCO calibration is not bypassed
    quadAt,      \* chip: frequency of the transmitter's quadrature correction
    quadBy,      \* what the correction was made by: a tuning beyond the threshold,
                 \* another calibration, or one made in fastlock mode
    saved,       \* the caller's copy of a profile
    call,        \* the call of clk_set_rate in progress
    calls        \* calls made so far

cache == <<lo, tdd, profile, entry>>
chip == <<synth, slots, fast, inUse, calEnabled>>
correction == <<quadAt, quadBy>>
vars == <<cache, rate, table, quadFreq, chip, correction, saved, call, calls>>

Image == [freq : InRange, tdd : BOOLEAN, alc : Alc]
Words == [freq : InRange \cup {NoFreq}, tdd : BOOLEAN, alc : Alc]
Blank == [freq |-> NoFreq, tdd |-> FALSE, alc |-> 0]
NothingSaved == [side |-> "rx", words |-> Blank]
NoEntry == [init |-> FALSE, orig |-> 0, written |-> 0]
NoCall == [stage |-> "none", side |-> "rx", prog |-> "rx", freq |-> NoFreq]
Calls == {NoCall}
         \cup [stage : {"program"}, side : Side, prog : Side, freq : InRange]
         \cup [stage : {"finish"}, side : Side, prog : Side, freq : InRange \cup {BadRate}]
Entries == [init : BOOLEAN, orig : Alc, written : Alc]

TypeOK ==
    /\ lo \in [Side -> InRange]
    /\ tdd \in [Side -> BOOLEAN]
    /\ rate \in [Side -> InRange \cup {NoFreq}]
    /\ profile \in [Side -> 0 .. NumProfiles]
    /\ entry \in [Side -> [Profiles -> Entries]]
    /\ table \in 0 .. Len(TableEnds)
    /\ quadFreq \in InRange \cup {BadRate}
    /\ synth \in [Side -> Image]
    /\ slots \in [Side -> [Profiles -> Words]]
    /\ fast \in [Side -> 0 .. NumProfiles]
    /\ inUse \in [Side -> Words]
    /\ calEnabled \in [Side -> BOOLEAN]
    /\ quadAt \in InRange \cup {NoFreq}
    /\ quadBy \in {"tuning", "request", "fastlock"}
    /\ saved \in [side : Side, words : Words]
    /\ call \in Calls
    /\ calls \in 0 .. MaxCalls

----------------------------------------------------------------------------
(* What the chip does and what the driver computes from it.                *)

\* The frequency that a synthesizer is at, and the ALC word it works with.
Plays(s) == IF fast[s] = 0 THEN synth[s].freq ELSE inUse[s].freq
AlcInEffect(s) == IF fast[s] = 0 THEN synth[s].alc ELSE inUse[s].alc

\* The synthesizer's slot has been rewritten since it was recalled.
Rewritten(s) == fast[s] # 0 /\ slots[s][fast[s]] # inUse[s]

\* ad9361_rfpll_int_recalc_rate: the frequency of the words it reads.
ReadBack(s) == IF profile[s] = 0 THEN synth[s].freq ELSE slots[s][profile[s]].freq

\* A frequency between two steps of the divider is read back as another number.
Recalc(s) == IF ReadBack(s) \in OnGrid THEN ReadBack(s) ELSE NoFreq

\* Every effective clk_set_rate recomputes all rates.
RefreshRates == rate' = [s \in Side |-> Recalc(s)]

\* ad9361_gt_tableindex: the table that covers f, the first one if none does.
Covering(f) == {i \in 1 .. Len(TableEnds) - 1 : TableEnds[i] < f /\ f <= TableEnds[i + 1]}
TableIndex(f) == IF Covering(f) = {} THEN 0 ELSE (CHOOSE i \in Covering(f) : TRUE) - 1

Distance(f, g) == IF f > g THEN f - g ELSE g - f

\* Set-up tunes the receiver, then the transmitter, and calibrates it.
Init ==
    /\ lo \in [Side -> InRange]
    /\ tdd = [s \in Side |-> lo["rx"] = lo["tx"]]
    /\ \E w \in [Side -> Alc] :
           /\ \A s \in Side : w[s] \in AlcWords(lo[s])
           /\ synth = [s \in Side |-> [freq |-> lo[s], tdd |-> tdd[s], alc |-> w[s]]]
    /\ profile = [s \in Side |-> 0] /\ fast = profile
    /\ rate = [s \in Side |-> Recalc(s)]
    /\ entry = [s \in Side |-> [p \in Profiles |-> NoEntry]]
    /\ slots = [s \in Side |-> [p \in Profiles |-> Blank]]
    /\ inUse = [s \in Side |-> Blank]
    /\ calEnabled = [s \in Side |-> TRUE]
    /\ table = TableIndex(lo["rx"])
    /\ quadFreq = lo["tx"] /\ quadAt = lo["tx"] /\ quadBy = "tuning"
    /\ saved = NothingSaved
    /\ call = NoCall
    /\ calls = 0

\* The program calls the driver; a call runs to its end before the next one.
Begin ==
    /\ call = NoCall
    /\ calls < MaxCalls
    /\ calls' = calls + 1

----------------------------------------------------------------------------
(* Leaving fastlock mode, which does nothing outside it.                   *)

\* Mutant: the cached profile survives.
LeaveKeepsProfile(s) ==
    /\ fast' = [fast EXCEPT ![s] = 0]
    /\ calEnabled' = [calEnabled EXCEPT ![s] = calEnabled[s] \/ profile[s] # 0]
    /\ UNCHANGED profile

LeaveFastlock(s) ==
    /\ profile' = [profile EXCEPT ![s] = 0]
    /\ fast' = [fast EXCEPT ![s] = IF profile[s] = 0 THEN @ ELSE 0]
    /\ calEnabled' = [calEnabled EXCEPT ![s] = @ \/ profile[s] # 0]

----------------------------------------------------------------------------
(* Tuning: ad9361_set_rx_lo_freq and ad9361_set_tx_lo_freq.  A request for *)
(* the cached rate does nothing at all, and is no step.                    *)

Ask(s, f) ==
    /\ Begin
    /\ rate[s] # f
    /\ LeaveFastlock(s)

Tune(s, f) ==
    /\ f \in InRange
    /\ Ask(s, f)
    /\ lo' = [lo EXCEPT ![s] = f]
    /\ call' = [stage |-> "program", side |-> s, prog |-> s, freq |-> f]
    /\ UNCHANGED <<tdd, entry, rate, table, quadFreq, synth, slots, inUse, correction, saved>>

\* The rounding's -EINVAL goes on as a rate.  ad9361_rfpll_int_set_rate refuses
\* it, after it has left fastlock mode; its caller ignores the refusal.
Refuse(s, f) ==
    /\ f \notin InRange
    /\ Ask(s, f)
    /\ call' = [stage |-> "finish", side |-> s, prog |-> s, freq |-> BadRate]
    /\ UNCHANGED <<lo, tdd, entry, rate, table, quadFreq, synth, slots, inUse, correction, saved>>

\* Mutant: the TDD tables are taken for unequal frequencies too.
AlwaysTdd == TRUE

\* ad9361_rfpll_vco_init: equal frequencies use the TDD tables.
UseTdd == lo["rx"] = lo["tx"]

\* Mutant: only the case of equal frequencies is looked at.
MismatchIfEqual(t) == lo["rx"] = lo["tx"] /\ t["rx"] # t["tx"]

\* The tables in use do not suit the frequencies: the other side needs a fixup.
Mismatch(t) ==
    \/ lo["rx"] = lo["tx"] /\ t["rx"] # t["tx"]
    \/ lo["rx"] # lo["tx"] /\ (t["rx"] \/ t["tx"])

\* Mutant: the fixup reuses the dividers of the side that was tuned.
FixupSameDividers(s) == call.freq

\* The frequency whose dividers the fixup writes to the other side.
FixupFreq(s) == IF lo["rx"] = lo["tx"] THEN call.freq ELSE lo[Other(s)]

\* One turn of the loop of ad9361_rfpll_int_set_rate: program one side, whose VCO is
\* then calibrated unless that is bypassed, and look whether the other needs it too.
Program ==
    LET s == call.prog
        newTdd == [tdd EXCEPT ![s] = UseTdd]
        other == Other(call.side)
    IN  /\ call.stage = "program"
        /\ tdd' = newTdd
        /\ \E w \in IF calEnabled[s] THEN AlcWords(call.freq) ELSE {synth[s].alc} :
               synth' = [synth EXCEPT ![s] =
                            [freq |-> call.freq, tdd |-> UseTdd, alc |-> w]]
        /\ \/ /\ Mismatch(newTdd)
              /\ call' = [call EXCEPT !.prog = other, !.freq = FixupFreq(call.side)]
              /\ IF lo["rx"] = lo["tx"] THEN UNCHANGED <<profile, fast, calEnabled>>
                                        ELSE LeaveFastlock(other)
           \/ /\ ~Mismatch(newTdd)
              /\ call' = [call EXCEPT !.stage = "finish", !.freq = lo[call.side]]
              /\ UNCHANGED <<profile, fast, calEnabled>>
        /\ UNCHANGED <<lo, entry, rate, table, quadFreq, slots, inUse, correction, saved, calls>>

\* ad9361_tx_quad_calib: the correction is made where the transmitter is.  A failure
\* leaves no valid one.
TxQuadCalib(by) == quadAt' \in {Plays("tx"), NoFreq} /\ quadBy' = by

\* Mutant: the frequency is taken down whether or not it was calibrated.
QuadCalCreeping(f) ==
    /\ quadFreq' = f
    /\ IF Distance(quadFreq, f) > CalThreshold THEN TxQuadCalib("tuning")
                                              ELSE UNCHANGED correction

\* The transmitter's quadrature calibration after a move beyond the threshold.  A
\* failure is taken down like a success.
QuadCal(f) ==
    IF Distance(quadFreq, f) > CalThreshold
    THEN quadFreq' = f /\ TxQuadCalib("tuning")
    ELSE UNCHANGED <<quadFreq, correction>>

\* The rest of ad9361_rfpll_set_rate and of clk_set_rate, after a refusal as well.
Finish ==
    /\ call.stage = "finish"
    /\ \/ call.side = "rx" /\ table' = TableIndex(call.freq) /\ UNCHANGED <<quadFreq, correction>>
       \/ call.side = "tx" /\ QuadCal(call.freq) /\ UNCHANGED table
    /\ RefreshRates
    /\ call' = NoCall
    /\ UNCHANGED <<cache, chip, saved, calls>>

\* clk_set_rate of any other clock, which recomputes these rates too.
SetOtherClock ==
    /\ Begin
    /\ RefreshRates
    /\ UNCHANGED <<cache, table, quadFreq, chip, correction, saved, call>>

\* ad9361_do_calib, and ad9361_update_rf_bandwidth for the bandwidth setters and the
\* filters: the correction is made anew, and last_tx_quad_cal_freq stays.
Calibrate ==
    /\ Begin
    /\ TxQuadCalib(IF profile["tx"] = 0 THEN "request" ELSE "fastlock")
    /\ UNCHANGED <<cache, rate, table, quadFreq, chip, saved, call>>

----------------------------------------------------------------------------
(* The fastlock profiles.                                                  *)

\* ad9361_fastlock_load
LoadProfile(s, p, words) ==
    /\ Begin
    /\ slots' = [slots EXCEPT ![s][p] = words]
    /\ entry' = [entry EXCEPT ![s][p] =
                    [init |-> TRUE, orig |-> words.alc, written |-> words.alc]]
    /\ UNCHANGED <<lo, tdd, profile, rate, table, quadFreq, synth, fast, inUse, calEnabled,
                   correction, call>>

\* ad9361_fastlock_store reads the direct registers, in fastlock mode as well.
Store(s, p) == LoadProfile(s, p, synth[s]) /\ UNCHANGED saved

\* ad9361_fastlock_save, of a profile that exists, and loading it into any slot of
\* the same side.
Save(s, p) ==
    /\ Begin
    /\ entry[s][p].init
    /\ saved' = [side |-> s, words |-> slots[s][p]]
    /\ UNCHANGED <<cache, rate, table, quadFreq, chip, correction, call>>

Load(s, p) ==
    /\ saved # NothingSaved /\ saved.side = s
    /\ LoadProfile(s, p, saved.words)
    /\ UNCHANGED saved

\* Mutant: the word is compared with the direct registers' in fastlock mode too.
CurrentWordDirect(s) == synth[s].alc

\* The ALC word that the driver takes to be in effect.
CurrentWord(s) ==
    IF profile[s] = 0 THEN synth[s].alc ELSE entry[s][profile[s]].written

\* Mutant: the word moves on at every collision.
OtherWordDrifting(e) == (e.written + 1) % AlcMod

\* Mutant: the word grows beyond its width.
OtherWordWide(e) == IF e.orig = e.written THEN e.written + 1 ELSE e.orig

\* A word that differs from the written one: the original or its successor.
OtherWord(e) == IF e.orig = e.written THEN (e.written + 1) % AlcMod ELSE e.orig

\* Mutant: the new word stays in the cache.
WithWordCached(words, w) == words

\* The slot after word 15 has been written.
WithWord(words, w) == [words EXCEPT !.alc = w]

\* ad9361_fastlock_recall, with the workaround for a repeated ALC word.
Recall(s, p) ==
    LET e == entry[s][p]
        w == IF CurrentWord(s) = e.written THEN OtherWord(e) ELSE e.written
        words == IF w = e.written THEN slots[s][p] ELSE WithWord(slots[s][p], w)
    IN  /\ Begin
        /\ e.init
        /\ entry' = [entry EXCEPT ![s][p].written = w]
        /\ slots' = [slots EXCEPT ![s][p] = words]
        /\ calEnabled' = [calEnabled EXCEPT ![s] = @ /\ profile[s] # 0]
        /\ profile' = [profile EXCEPT ![s] = p]
        /\ fast' = [fast EXCEPT ![s] = p]
        /\ inUse' = [inUse EXCEPT ![s] = words]
        /\ UNCHANGED <<lo, tdd, rate, table, quadFreq, synth, correction, saved, call>>

----------------------------------------------------------------------------
OnProfile(s, p) == Store(s, p) \/ Save(s, p) \/ Load(s, p) \/ Recall(s, p)

Next ==
    \/ \E s \in Side, f \in Freqs : Tune(s, f) \/ Refuse(s, f)
    \/ Program \/ Finish \/ SetOtherClock \/ Calibrate
    \/ \E s \in Side, p \in Profiles : OnProfile(s, p)

\* A call runs to its end; nobody has to make one.
Spec == Init /\ [][Next]_vars /\ WF_vars(Program) /\ WF_vars(Finish)

----------------------------------------------------------------------------
(* Properties.                                                             *)

Quiet == call = NoCall

\* Equal LO frequencies have both synthesizers on the TDD tables, unequal ones have
\* both on the FDD tables (ad9361.c:6825-6864), whatever the order of the calls.
TablesMatch == Quiet => \A s \in Side : synth[s].tdd = (lo["rx"] = lo["tx"])

\* The fixup of the other side never leaves it on another frequency than the one it
\* was asked for: the direct registers always follow the cached LO.
LoProgrammed == Quiet => \A s \in Side : synth[s].freq = lo[s]

\* ad9361_get_rx_lo_freq and its sibling read the words of what the synthesizer plays,
\* in either mode, unless somebody rewrote the profile in use.
ReportsWhatPlays == \A s \in Side : Rewritten(s) \/ ReadBack(s) = Plays(s)

\* The word that the workaround compares is the one in the chip's memory.
AlcCached ==
    \A s \in Side, p \in Profiles :
        entry[s][p].init => entry[s][p].written = slots[s][p].alc

\* However often a profile is recalled, its ALC word is the stored one or its successor.
AlcNearStored ==
    \A s \in Side, p \in Profiles :
        entry[s][p].written \in {entry[s][p].orig, (entry[s][p].orig + 1) % AlcMod}

\* A recall never presents the ALC word that is in effect ("Lock problem with same ALC
\* word", ad9361.c:5092), unless somebody rewrote the profile in use.
RecallChangesAlc ==
    [][\A s \in Side, p \in Profiles :
           Recall(s, p) /\ ~Rewritten(s) => inUse'[s].alc # AlcInEffect(s)]_vars

\* Small moves do not add up.  Outside fastlock mode the transmitter is never further
\* than the threshold from the frequency of a correction that a tuning made, and, since
\* no other calibration moves last_tx_quad_cal_freq, never further than twice the
\* threshold from that of a requested one.  Nothing is promised of a correction made in
\* fastlock mode, or after a calibration that failed.
QuadFresh ==
    Quiet /\ fast["tx"] = 0 /\ quadAt # NoFreq =>
        /\ quadBy = "tuning" => Distance(quadAt, Plays("tx")) <= CalThreshold
        /\ quadBy = "request" => Distance(quadAt, Plays("tx")) <= 2 * CalThreshold

\* The fixup loop ends: a call that programs a synthesizer returns.
TuneEnds == ~Quiet ~> Quiet

----------------------------------------------------------------------------
(* Statements that the code does not keep.                                 *)

\* "Set the RX LO frequency." (ad9361_api.c:827): a request that clk_set_rate takes for
\* met without doing anything is met.
SkippedIsMet ==
    Quiet => \A s \in Side, f \in InRange : rate[s] = f /\ ~Rewritten(s) => Plays(s) = f

----------------------------------------------------------------------------
(* The invariant that the proofs use.                                      *)

\* During a call, the side about to be programmed may be behind its cached LO, and
\* the fixup only begins after the side asked for has the right table.
TuneInv ==
    /\ \A s \in Side : synth[s].tdd = tdd[s]
    /\ call.stage # "program" =>
           \A s \in Side : synth[s].freq = lo[s] /\ tdd[s] = UseTdd
    /\ call.stage = "program" =>
           /\ call.freq = lo[call.prog]
           /\ synth[Other(call.prog)].freq = lo[Other(call.prog)]
           /\ call.prog # call.side => tdd[call.side] = UseTdd
    /\ call.stage = "finish" => call.freq \in {lo[call.side], BadRate}

\* The cached profile is the chip's, was initialised, and is left before a call
\* programs anything on its own side.
ModeInv ==
    /\ fast = profile
    /\ \A s \in Side : profile[s] # 0 => entry[s][profile[s]].init
    /\ call.stage # "none" => profile[call.side] = 0

Near(f, g) == Distance(f, g) <= CalThreshold

\* The transmitter is where the last tuning call left it, or somewhere in this one.
TxSettled == call.stage = "none" \/ call.side = "rx" \/ call.freq = BadRate

\* What last_tx_quad_cal_freq says of the transmitter and of a valid correction.
QuadInv ==
    /\ TxSettled => quadFreq = BadRate \/ Near(quadFreq, lo["tx"])
    /\ quadAt # NoFreq /\ quadBy = "tuning" => quadFreq \in {quadAt, BadRate}
    /\ quadAt # NoFreq /\ quadBy = "request" => quadFreq = BadRate \/ Near(quadFreq, quadAt)
    /\ quadAt # NoFreq /\ quadBy # "fastlock" /\ quadFreq = BadRate /\ TxSettled =>
           quadAt = lo["tx"]

IInv == TypeOK /\ TuneInv /\ ModeInv /\ AlcCached /\ AlcNearStored /\ QuadInv
=============================================================================
