-------------------------------- MODULE Link ---------------------------------
(***************************************************************************)
(* The digital interface between the FPGA and the AD9361: its tuning       *)
(* (c/ad9361_conv.c), the test modes and the attenuation that the tuning   *)
(* borrows, the clock chain whose changes call for it, and the FIR filters *)
(* that do both (c/ad9361.c, c/ad9361_api.c).                              *)
(*                                                                         *)
(* A tuning may change the clocks and a clock change may tune, so a call   *)
(* is a sequence of steps still to do, from which each action takes the    *)
(* first and puts the steps that it calls in its place; the locals of the  *)
(* tunings in progress are in frames.                                      *)
(*                                                                         *)
(* A delay setting samples well or not by its skew alone, data delay less  *)
(* clock delay; the skews at which the pattern is received are the eye.    *)
(* LVDS, two channels, cores of version 8 or later, tune skip mode 0.      *)
(***************************************************************************)
EXTENDS Ensm, ClockChain, Windows, Dds

CONSTANTS NumDelays,   \* settings of a delay (16)
          Eyes,        \* the eyes that a sweep may find
          Attens,      \* attenuations that callers ask for
          MaxAtten,    \* 89750
          SetupAtten,  \* pdata->tx_atten
          Freqs,       \* sample rates that callers ask for
          Configs,     \* FIR filters: factor, taps and the chain they are for, or NoChain
          SetupChain,  \* pdata->rx_path_clks, tx_path_clks
          SetupDelay,  \* pdata->port_ctrl.rx_clk_data_delay, tx_clk_data_delay
          PathClks,    \* chains that callers ask for
          AskedTones,  \* frequencies, phases and scales that callers ask for
          AskedModes,  \* states of the machine that callers ask for
          MaxCalls      \* bound: calls in one behaviour

Skews == 1 - NumDelays .. NumDelays - 1
NoChain == [bbpll |-> 0, rx |-> <<>>, tx |-> <<>>]

Delays == [clk : 0 .. NumDelays - 1, data : 0 .. NumDelays - 1]
Skew(d) == d.data - d.clk

Paths == {"rx", "tx"}
Both(x) == [p \in Paths |-> x]

ASSUME LinkAssumption ==
    /\ NumDelays \in Nat \ {0, 1} /\ Eyes \subseteq SUBSET Skews /\ SetupDelay \in Delays
    /\ MaxAtten \in Nat /\ Attens \subseteq Nat /\ SetupAtten \in 0 .. MaxAtten
    /\ Freqs \subseteq Nat /\ AskedModes \subseteq States \cup {"sleep"}
    /\ Valid(SetupChain) /\ MaxCalls \in Nat
    /\ \A c \in Configs : c.factor \in Factors /\ c.taps \in Nat
    /\ \A ch \in {SetupChain} \cup PathClks \cup {c.chain : c \in Configs} : ch.bbpll \in Nat
    /\ AskedTones \in [freq : SUBSET Nat, phase : SUBSET Nat, scale : SUBSET Int]

VARIABLES
    chip,     \* registers of the AD9361 and of the converters' cores
    drv,      \* what the driver has cached
    ensm,     \* the state machine
    todo,     \* steps of the call in progress
    frames,   \* locals of the tunings in progress, the innermost first
    ret,      \* result of the last step: ok, error, or eio of a tuning
    want,     \* ghost: attenuation, transmit source and chain last asked for, and the
              \* rate at which each tone was last set
    calls

vars == <<chip, drv, ensm, todo, frames, ret, want, calls>>

Sources == {"dds", "dma", "pn", "adc"}
Tests == {"off", "rx", "tx"}
Flags == {"skip", "default"}

TypeOK ==
    /\ chip.atten \in [1 .. 2 -> 0 .. MaxAtten] /\ drv.atten \in [1 .. 2 -> 0 .. MaxAtten]
    /\ chip.test \in Tests /\ drv.test \in Tests
    /\ chip.loop \in BOOLEAN /\ drv.loop \in 0 .. 3
    /\ chip.tone \in ToneRegs
    /\ chip.source \in Sources /\ drv.scratch \in Sources
    /\ chip.pn \in {"pn9", "custom"}
    /\ chip.delay \in [Paths -> Delays] /\ drv.delay \in [Paths -> Delays]
    /\ drv.bypass \in [Paths -> BOOLEAN] /\ drv.factor \in [Paths -> Factors \cup {0}]
    /\ drv.gov \in 0 .. 1
    /\ chip.tree.bbpll \in MinBbpll .. MaxBbpll
    /\ \A c \in Clocks : chip.tree.reg[c] \in {0, 1, 2, 3, 4, 8, 16, 32, 64}
    /\ ensm \in Ensms
    /\ ret \in {"ok", "error", "eio"} /\ calls \in 0 .. MaxCalls
    /\ Len(frames) <= 2

----------------------------------------------------------------------------
(* Parts of the chip, as operators on the pair of chip and driver.         *)

\* ad9361_set_tx_atten, for the channels in s
SetTxAtten(c, s, a) == [c EXCEPT !.atten = [i \in 1 .. 2 |-> IF i \in s THEN a[i] ELSE @[i]]]

\* Mutant of Mute: the second channel is forgotten.
MuteOne(x) == [c |-> SetTxAtten(x.c, {1}, [i \in 1 .. 2 |-> MaxAtten]),
               d |-> [x.d EXCEPT !.atten = x.c.atten]]

\* ad9361_tx_mute: what is there is cached, even when it is the muting of another.
Mute(x) == [c |-> SetTxAtten(x.c, {1, 2}, [i \in 1 .. 2 |-> MaxAtten]),
            d |-> [x.d EXCEPT !.atten = x.c.atten]]
Unmute(x) == [x EXCEPT !.c = SetTxAtten(@, {1, 2}, x.d.atten)]

\* Mutant of HdlLoopback: the source is put aside whatever it is.
HdlLoopbackTwice(x, on) ==
    IF on THEN [c |-> [x.c EXCEPT !.source = "adc"], d |-> [x.d EXCEPT !.scratch = x.c.source]]
    ELSE [x EXCEPT !.c.source = IF @ = "adc" THEN x.d.scratch ELSE @]

\* ad9361_hdl_loopback: the source is put aside, and taken back when it is asked for again.
HdlLoopback(x, on) ==
    IF on /\ x.c.source # "adc"
    THEN [c |-> [x.c EXCEPT !.source = "adc"], d |-> [x.d EXCEPT !.scratch = x.c.source]]
    ELSE [x EXCEPT !.c.source = IF @ = "adc" THEN x.d.scratch ELSE @]

\* ad9361_bist_loopback: an unknown mode is cached before it is refused.
BistLoopback(x, mode) ==
    LET y == [x EXCEPT !.d.loop = mode]
    IN  IF mode \notin 0 .. 2 THEN y
        ELSE [HdlLoopback(y, mode = 2) EXCEPT !.c.loop = (mode = 1)]

\* ad9361_bist_prbs; ad9361_bist_tone writes and caches the same register.
BistPrbs(x, mode) == [c |-> [x.c EXCEPT !.test = mode], d |-> [x.d EXCEPT !.test = mode]]

TxRate == Rate(chip.tree, "tx")         \* *dac_clk
AllAt(rate) == [t \in Tones |-> rate]

Set(x) == chip' = x.c /\ drv' = x.d
Now == [c |-> chip, d |-> drv]

----------------------------------------------------------------------------
(* Steps of a call.                                                        *)

Step(name) == [op |-> name]
Chain(ch) == [op |-> "chain", ch |-> ch]
Tune(flags, max) == [op |-> "tune", flags |-> flags, max |-> max]
AtRate(f) == [op |-> "rate", freq |-> f]
Sweep(p) == [op |-> "sweep", path |-> p]
Choose(p) == [op |-> "choose", path |-> p]
RateDone(f) == [op |-> "ratedone", freq |-> f]
FirDone(s) == [op |-> "firdone", paths |-> s]
EnableFir(s, on) == [op |-> "enable", paths |-> s, on |-> on]
LoadFir(c, ch) == [op |-> "loadfir", config |-> c, chain |-> ch]

Idle == todo = <<>>
Do(name) == todo # <<>> /\ Head(todo).op = name /\ UNCHANGED calls
Pop == todo' = Tail(todo)
Push(steps) == todo' = steps \o Tail(todo)
Begin(steps) == Idle /\ calls < MaxCalls /\ calls' = calls + 1 /\ todo' = steps /\ ret' = "ok"

FirActive == ~drv.bypass["rx"] \/ ~drv.bypass["tx"]     \* a filter is enabled
Frame == Head(frames)

----------------------------------------------------------------------------
(* Clocks.                                                                 *)

\* The factors that ad9361_calculate_rf_clock_chain takes into account.
InUse(p) == IF drv.bypass[p] THEN 1 ELSE drv.factor[p]
CanCalculate(f) == InUse("rx") > 0 /\ InUse("tx") > 0
                   /\ Calculable(f, InUse("rx"), InUse("tx"), drv.gov)
ChainFor(f) == Calculate(f, InUse("rx"), InUse("tx"), drv.gov)

\* ad9361_set_trx_clock_chain
SetTrxClockChain ==
    /\ Do("chain")
    /\ LET ch == Head(todo).ch IN
       IF Valid(ch)
       THEN /\ chip' = [chip EXCEPT !.tree = SetTree(@, ch, drv.bypass, drv.factor)]
            /\ want' = [want EXCEPT !.chain = ch]
            /\ Push(IF FirActive THEN <<Tune({"skip"}, FALSE), Step("handler")>>
                    ELSE <<Step("handler")>>)
            /\ UNCHANGED ret
       ELSE ret' = "error" /\ Pop /\ UNCHANGED <<chip, want>>
    /\ UNCHANGED <<drv, ensm, frames>>

\* ad9361_bb_clk_change_handler; its result is the chain's, and the tuning's is lost.
BbClkChangeHandler ==
    /\ Do("handler") /\ ret' = "ok" /\ Pop
    /\ UNCHANGED <<chip, drv, ensm, frames, want>>

\* ad9361_set_trx_clock_chain_freq
SetTrxClockChainFreq ==
    /\ Do("rate")
    /\ IF CanCalculate(Head(todo).freq) THEN Push(<<Chain(ChainFor(Head(todo).freq))>>) ELSE Pop
    /\ UNCHANGED <<chip, drv, ensm, frames, ret, want>>

----------------------------------------------------------------------------
(* ad9361_dig_tune.                                                        *)

\* ad9361_dig_tune_delay: at each of the rates, or as things are, two sweeps.
Rates == <<25000, 40000, 61440>>
DigTuneDelay(p, max) ==
    (IF max THEN <<AtRate(Rates[1]), Sweep(p), AtRate(Rates[2]), Sweep(p), AtRate(Rates[3]), Sweep(p)>>
     ELSE <<Sweep(p)>>)
    \o <<Choose(p)>>

\* The defaults, or the receiver's tuning up to its sweep (ad9361_dig_tune_rx).
DigTune ==
    /\ Do("tune")
    /\ LET t == Head(todo)
           default == "default" \in t.flags
       IN  /\ frames' = <<[ensm |-> ensm, flags |-> t.flags, max |-> t.max, atten |-> chip.atten,
                           loop |-> drv.loop, test |-> drv.test, source |-> chip.source,
                           eye |-> Both(Skews)]>> \o frames
           /\ ret' = "ok"
           /\ IF default
              THEN UNCHANGED <<chip, drv, ensm>> /\ Push(<<Step("tuneend")>>)
              ELSE /\ Set(BistPrbs(BistLoopback(Mute(Now), 0), "rx"))
                   /\ ensm' = SetEnsmMode(ensm, TRUE)
                   /\ Push(DigTuneDelay("rx", t.max) \o <<Step("tuneend")>>)
    /\ UNCHANGED want

\* What a pattern needs to be received at all.
Listening(p) ==
    /\ ensm.clocks
    /\ IF p = "rx" THEN chip.test = "rx" /\ ~chip.loop
       ELSE chip.test = "off" /\ chip.loop /\ chip.source = "pn" /\ chip.pn = "custom"

\* The two sweeps: the data delayed by all settings, then the clock against the data.
\* What fails at one rate has failed (field |=).
DoSweep ==
    /\ Do("sweep")
    /\ LET p == Head(todo).path IN
       /\ \E eye \in IF Listening(p) THEN Eyes ELSE {{}} :
             frames' = [frames EXCEPT ![1].eye[p] = @ \cap eye]
       /\ chip' = [chip EXCEPT !.delay[p] = [clk |-> NumDelays - 1, data |-> 0]]
       /\ ensm' = SetIntfDelay(ensm)
    /\ Pop
    /\ UNCHANGED <<drv, ret, want>>

Window(eye, sign) == FindOpt([j \in 1 .. NumDelays |-> sign * (j - 1) \in eye])

\* Mutant of Chosen: the end of the window.
ChosenEnd(eye) ==
    LET data == Window(eye, 1)
    IN  [clk |-> 0, data |-> data.start + data.cnt]

\* The middle of the longer of the two windows.
Chosen(eye) ==
    LET data == Window(eye, 1)
        clk == Window(eye, -1)
    IN  IF clk.cnt > data.cnt THEN [clk |-> clk.start + clk.cnt \div 2, data |-> 0]
        ELSE [clk |-> 0, data |-> data.start + data.cnt \div 2]

\* ad9361_dig_tune_tx: registers of the cores, the sweeps, and the registers back.
TxSteps(max) == <<Step("txtune")>> \o DigTuneDelay("tx", max) \o <<Step("txend")>>

\* No window is an error, whose result stands for -EIO; the transmitter comes after the
\* receiver if that has one.
ChooseDelay ==
    /\ Do("choose")
    /\ LET p == Head(todo).path
           eye == Frame.eye[p]
           found == Window(eye, 1).cnt > 0 \/ Window(eye, -1).cnt > 0
       IN  /\ IF found
              THEN /\ chip' = [chip EXCEPT !.delay[p] = Chosen(eye)]
                   /\ ensm' = SetIntfDelay(ensm)
                   /\ ret' = "ok"
              ELSE ret' = "eio" /\ UNCHANGED <<chip, ensm>>
           /\ IF p = "rx" /\ found THEN Push(TxSteps(Frame.max)) ELSE Pop
    /\ UNCHANGED <<drv, frames, want>>

TxTune ==
    /\ Do("txtune")
    /\ LET x == BistLoopback(BistPrbs(Now, "off"), 1) IN
       /\ frames' = [frames EXCEPT ![1].source = x.c.source]
       /\ Set([x EXCEPT !.c.source = "pn", !.c.pn = "custom"])
    /\ Pop
    /\ UNCHANGED <<ensm, ret, want>>

TxEnd ==
    /\ Do("txend")
    /\ chip' = [chip EXCEPT !.source = Frame.source, !.pn = "pn9"]
    /\ Pop
    /\ UNCHANGED <<drv, ensm, frames, ret, want>>

\* Mutant of Restores: a failed transmitter leaves the receiver's new delay.
RestoresDefault(r, f) == "default" \in f.flags

\* Whether the stored delays are put back, ...
Restores(r, f) == r = "eio" \/ "default" \in f.flags

\* ... as the end of ad9361_dig_tune then does; else the new ones are stored.
DigTuneEnd ==
    /\ Do("tuneend")
    /\ LET tested == [BistLoopback(Now, Frame.loop) EXCEPT !.c.test = Frame.test]
           x == IF "default" \in Frame.flags THEN Now ELSE tested
           y == IF Restores(ret, Frame) THEN [x EXCEPT !.c.delay = x.d.delay]
                ELSE IF "skip" \in Frame.flags THEN x ELSE [x EXCEPT !.d.delay = x.c.delay]
           e == IF Restores(ret, Frame) THEN ForceState(ensm, "alert") ELSE ensm
       IN  /\ Set(Unmute(y))
           /\ ensm' = Restore(SetEnsmMode(e, e.fdd), Frame.ensm.state)
    /\ ret' = IF Frame.max THEN ret ELSE "ok"
    /\ frames' = Tail(frames)
    /\ Pop
    /\ UNCHANGED want

\* ad9361_dig_interface_timing_analysis: the receiver's tuning at every pair of delays.
TimingAnalysis ==
    /\ Begin(<<>>)
    /\ LET x == BistPrbs(BistLoopback(Mute(Now), 0), "rx")
           y == [BistLoopback(x, drv.loop) EXCEPT !.c.test = drv.test]
           e == ForceState(SetIntfDelay(SetEnsmMode(ensm, TRUE)), "alert")
       IN  /\ Set(Unmute(y))
           /\ ensm' = Restore(SetEnsmMode(e, e.fdd), ensm.state)
    /\ UNCHANGED <<frames, want>>

----------------------------------------------------------------------------
(* FIR filters.                                                            *)

\* ad9361_load_fir_filter_coef, in ALERT; the factors are cached before the filters are
\* found to be valid, and a filter is enabled only while it is written.
FirConfig ==
    /\ Do("loadfir")
    /\ LET c == Head(todo).config IN
       /\ drv' = [drv EXCEPT !.factor = Both(c.factor),
                             !.taps = IF c.taps \in 16 .. 128 THEN Both(c.taps) ELSE @,
                             !.filt = Head(todo).chain]
       /\ ensm' = IF c.taps \in 16 .. 128 THEN InAlert(ensm) ELSE ensm
    /\ Pop
    /\ UNCHANGED <<chip, frames, ret, want>>

\* The chain that ad9361_validate_enable_fir sets: the filters' own if both are enabled,
\* else the one for the present rate or for the lowest.
Lowest == IF drv.gov = 1 THEN 1500 ELSE 1000

\* Its checks, for what is bypassed in b.
Refuses(b, ch) ==
    \/ ~b["tx"] /\ drv.taps["tx"] > TxMaxTaps(ch)
    \/ ~b["rx"] /\ drv.taps["rx"] > RxMaxTaps(ch)
BadFactor(b) ==
    \/ ~b["tx"] /\ (drv.factor["tx"] = 0 \/ (drv.factor["tx"] = 1 /\ drv.taps["tx"] > 64))
    \/ ~b["rx"] /\ drv.factor["rx"] = 0

\* Mutant of FirFails: filters that could not be enabled stay marked as enabled.
FirFailsForgotten(b, s) == b

\* A filter that could not be enabled, or disabled, is marked as bypassed.
FirFails(b, s) == [p \in Paths |-> b[p] \/ p \in s]

\* ad9361_set_rx_fir_en_dis, ad9361_set_tx_fir_en_dis, ad9361_set_trx_fir_en_dis: what is
\* already so is not done again; ad9361_validate_enable_fir up to the clock chain.
FirEnDis ==
    /\ Do("enable")
    /\ LET s == Head(todo).paths
           on == Head(todo).on
           b == [p \in Paths |-> IF p \in s THEN ~on ELSE drv.bypass[p]]
           Dec(p) == IF b[p] THEN 1 ELSE drv.factor[p]
           Can(f) == Calculable(f, Dec("rx"), Dec("tx"), drv.gov)
           rate == Rate(chip.tree, "tx")
           own == drv.filt # NoChain /\ ~b["rx"] /\ ~b["tx"]
           freq == IF Can(rate) THEN rate ELSE Lowest
           ch == IF own THEN drv.filt ELSE Calculate(freq, Dec("rx"), Dec("tx"), drv.gov)
       IN  IF \A p \in s : drv.bypass[p] = ~on
           THEN ret' = "ok" /\ Pop /\ UNCHANGED drv
           ELSE IF BadFactor(b) \/ (~own /\ ~Can(freq)) \/ Refuses(b, ch)
           THEN /\ ret' = "error" /\ Pop
                /\ drv' = [drv EXCEPT !.bypass = FirFails(b, s)]
           ELSE /\ drv' = [drv EXCEPT !.bypass = b]
                /\ Push(<<Chain(ch), Step("firtune"), FirDone(s)>>)
                /\ UNCHANGED ret
    /\ UNCHANGED <<chip, ensm, frames, want>>

\* Without filters the stored delays are put back.
FirTune ==
    /\ Do("firtune")
    /\ Push(IF ret = "ok" /\ ~FirActive THEN <<Tune({"default"}, FALSE)>> ELSE <<>>)
    /\ UNCHANGED <<chip, drv, ensm, frames, ret, want>>

\* ad9361_update_rf_bandwidth, which returns from ALERT when it fails (module Radio).
Bandwidth ==
    \/ ret' = "ok" /\ ensm' = InAlert(ensm)
    \/ ret' = "error" /\ ensm' = ForceState(ensm, "alert")

FirEnd ==
    /\ Do("firdone") /\ Pop
    /\ IF ret = "ok" THEN Bandwidth ELSE UNCHANGED <<ret, ensm>>
    /\ drv' = [drv EXCEPT !.bypass = IF ret' = "ok" THEN @ ELSE FirFails(@, Head(todo).paths)]
    /\ UNCHANGED <<chip, frames, want>>

\* ad9361_set_trx_path_clks, after the chain
PathEnd ==
    /\ Do("pathdone") /\ Pop
    /\ IF ret = "ok" THEN Bandwidth ELSE UNCHANGED <<ret, ensm>>
    /\ UNCHANGED <<chip, drv, frames, want>>

RateEnd ==
    /\ Do("ratedone") /\ Pop
    /\ Bandwidth
    /\ UNCHANGED <<chip, drv, frames, want>>

----------------------------------------------------------------------------
(* Set-up and reset.                                                       *)

\* The chip's registers after a reset, and what ad9361_clear_state leaves.
ResetTree == [bbpll |-> MinBbpll, reg |-> [c \in Clocks |-> IF c = "adc" THEN 2
                                          ELSE IF c \in {"rx", "tx"} THEN 0 ELSE 1]]

\* Mutant of Cleared: the filters stay enabled.
ClearedKeepsFir(d) == [d EXCEPT !.gov = 1]
Cleared(d) == [d EXCEPT !.bypass = Both(TRUE), !.factor = Both(0), !.taps = Both(0), !.gov = 1]

\* ad9361_setup, as far as it concerns the interface, when it gets to the end or fails
\* before or after the clocks: the delays and the chain, the attenuation.
SetUp(x, done) ==
    LET regs == [x.c EXCEPT !.delay = x.d.delay,
                             !.tree = SetTree(@, SetupChain, x.d.bypass, x.d.factor)]
        clocked == [x EXCEPT !.c = regs]
    IN  CASE done = "none" -> x
          [] done = "clocks" -> clocked
          [] done = "all" -> [x EXCEPT !.c = [regs EXCEPT !.atten = [i \in 1 .. 2 |-> SetupAtten]]]
Woke(fdd) == CpCalib([AfterReset(fdd) EXCEPT !.clocks = TRUE])
Ready(fdd, done) == IF done = "all" THEN Started(InAlert(InAlert(Woke(fdd)))) ELSE Woke(fdd)
PostSetup == <<Tune({}, TRUE), Step("posted")>>

\* The rest of ad9361_post_setup is skipped after a tuning that has failed.
Posted ==
    /\ Do("posted")
    /\ Push(IF ret = "ok" THEN <<Chain(SetupChain), Step("settle")>> ELSE <<>>)
    /\ UNCHANGED <<chip, drv, ensm, frames, ret, want>>
Settle ==
    /\ Do("settle") /\ Pop
    /\ ensm' = InAlert(ensm)
    /\ UNCHANGED <<chip, drv, frames, ret, want>>

\* ad9361_set_no_ch_mode: the caches of the tests and of the attenuation survive; the
\* sources of the transmitter are set anew by axiadc_init.
SetNoChMode ==
    /\ Begin(PostSetup)
    /\ LET reset == [c |-> [chip EXCEPT !.atten = [i \in 1 .. 2 |-> 0], !.test = "off",
                                        !.loop = FALSE, !.tree = ResetTree,
                                        !.delay = Both([clk |-> 0, data |-> 0])],
                     d |-> Cleared(drv)]
           x == DacInit(reset, "dds", Rate(ResetTree, "tx"))
       IN  \E done \in {"none", "clocks", "all"} :
               Set(SetUp(x, done)) /\ ensm' = Ready(ensm.fdd, done)
    /\ want' = [want EXCEPT !.atten = chip'.atten, !.source = "dds",
                            !.rate = AllAt(Rate(ResetTree, "tx"))]
    /\ UNCHANGED <<frames>>

\* The end of ad9361_init, with a tuning that has found the delays SetupDelay.
Init ==
    \E fdd \in BOOLEAN :
        LET bare == [atten |-> [i \in 1 .. 2 |-> 0], test |-> "off", loop |-> FALSE, source |-> "dds",
                     pn |-> "pn9", delay |-> Both(SetupDelay), tree |-> ResetTree,
                     tone |-> [t \in Tones |-> [incr |-> 0, init |-> 0, scale |-> 0]]]
            d == [atten |-> [i \in 1 .. 2 |-> SetupAtten], test |-> "off", loop |-> 0,
                  scratch |-> "dds", delay |-> Both(SetupDelay), bypass |-> Both(TRUE),
                  factor |-> Both(0), taps |-> Both(0), filt |-> NoChain, gov |-> 1,
                  tone |-> DefaultTones]
            x == SetUp(DacInit([c |-> bare, d |-> d], "dds", Rate(ResetTree, "tx")), "all")
        IN  /\ chip = x.c /\ drv = x.d /\ ensm = InAlert(Tuned(Ready(fdd, "all")))
            /\ todo = <<>> /\ frames = <<>> /\ ret = "ok"
            /\ want = [atten |-> x.c.atten, source |-> "dds", chain |-> SetupChain,
                       rate |-> AllAt(Rate(ResetTree, "tx"))]
            /\ calls = 0

----------------------------------------------------------------------------
(* Calls.                                                                  *)

\* ad9361_set_tx_attenuation, for one channel
Attenuate(ch, a) ==
    /\ Begin(<<>>)
    /\ a <= MaxAtten
    /\ chip' = SetTxAtten(chip, {ch}, [i \in 1 .. 2 |-> a])
    /\ want' = [want EXCEPT !.atten[ch] = a]
    /\ UNCHANGED <<drv, ensm, frames>>

Test(mode) ==
    /\ Begin(<<>>) /\ Set(BistPrbs(Now, mode))
    /\ UNCHANGED <<ensm, frames, want>>
Loop(mode) ==
    /\ Begin(<<>>) /\ Set(BistLoopback(Now, mode))
    /\ UNCHANGED <<ensm, frames, want>>

\* dac_datasel, for all channels
Select(s) ==
    /\ Begin(<<>>)
    /\ chip' = [chip EXCEPT !.source = s]
    /\ want' = [want EXCEPT !.source = s]
    /\ UNCHANGED <<drv, ensm, frames>>

\* dac_init, which main calls for the DMA
SelectInit(s) ==
    /\ Begin(<<>>)
    /\ Set(DacInit(Now, s, TxRate))
    /\ want' = [want EXCEPT !.source = s, !.rate = IF s = "dds" THEN AllAt(TxRate) ELSE @]
    /\ UNCHANGED <<ensm, frames>>

\* dds_set_frequency, dds_set_phase and dds_set_scale, for one tone
Tone(t, name, v) ==
    /\ Begin(<<>>)
    /\ Set(CASE name = "freq" -> SetFrequency(Now, t, v, TxRate)
             [] name = "phase" -> SetPhase(Now, t, v)
             [] name = "scale" -> SetScale(Now, t, v))
    /\ want' = [want EXCEPT !.rate[t] = IF name = "freq" THEN TxRate ELSE @]
    /\ UNCHANGED <<ensm, frames>>

\* dds_update
Update ==
    /\ Begin(<<>>)
    /\ Set(DdsUpdate(Now, TxRate))
    /\ want' = [want EXCEPT !.rate = AllAt(TxRate)]
    /\ UNCHANGED <<ensm, frames>>

\* ad9361_set_en_state_machine_mode, without the pins
Mode(s) ==
    /\ Begin(<<>>)
    /\ ensm' = SetState(SetEnsmMode(ensm, ensm.fdd), s, FALSE)
    /\ UNCHANGED <<chip, drv, frames, want>>

\* ad9361_set_rx_sampling_freq, ad9361_set_tx_sampling_freq: the chain's result is lost.  A
\* rate that has no chain is refused at once.
SamplingFreq(f) ==
    /\ CanCalculate(f)
    /\ Begin(<<Chain(ChainFor(f)), RateDone(f)>>)
    /\ UNCHANGED <<chip, drv, ensm, frames, want>>

SetPathClks(ch) ==
    /\ Begin(<<Chain(ch), Step("pathdone")>>)
    /\ UNCHANGED <<chip, drv, ensm, frames, want>>

RateGov(g) ==
    /\ Begin(<<>>) /\ drv' = [drv EXCEPT !.gov = g]
    /\ UNCHANGED <<chip, ensm, frames, want>>

\* ad9361_set_rx_fir_config and its sibling, which keep the chain loaded before,
\* ad9361_trx_load_enable_fir, and the profile of the command server, which disables the
\* filters first (c/echo.c): results are ignored.
LoadEnable(c) ==
    /\ Begin(<<LoadFir(c, c.chain), EnableFir(Paths, TRUE)>>)
    /\ UNCHANGED <<chip, drv, ensm, frames, want>>
Profile(c) ==
    /\ Begin(<<EnableFir(Paths, FALSE), LoadFir(c, c.chain), EnableFir(Paths, TRUE)>>)
    /\ UNCHANGED <<chip, drv, ensm, frames, want>>
Configure(c) ==
    /\ Begin(<<LoadFir(c, drv.filt)>>)
    /\ UNCHANGED <<chip, drv, ensm, frames, want>>
Filters(s, on) ==
    /\ Begin(<<EnableFir(s, on)>>)
    /\ UNCHANGED <<chip, drv, ensm, frames, want>>
SetRxFirEnDis(on) == Filters({"rx"}, on)
SetTxFirEnDis(on) == Filters({"tx"}, on)
SetTrxFirEnDis(on) == Filters(Paths, on)

Steps ==
    \/ SetTrxClockChain
    \/ BbClkChangeHandler
    \/ SetTrxClockChainFreq
    \/ DigTune
    \/ DoSweep
    \/ ChooseDelay
    \/ TxTune
    \/ TxEnd
    \/ DigTuneEnd
    \/ FirConfig
    \/ FirEnDis
    \/ FirTune
    \/ FirEnd
    \/ RateEnd
    \/ PathEnd
    \/ Posted
    \/ Settle

Next ==
    \/ Steps
    \/ \E ch \in 1 .. 2, a \in Attens : Attenuate(ch, a)
    \/ \E m \in Tests : Test(m)
    \/ \E m \in 0 .. 3 : Loop(m)
    \/ \E s \in {"dds", "dma"} : Select(s) \/ SelectInit(s)
    \/ \E t \in Tones, n \in DOMAIN AskedTones : \E v \in AskedTones[n] : Tone(t, n, v)
    \/ Update
    \/ \E s \in AskedModes : Mode(s)
    \/ \E f \in Freqs : SamplingFreq(f)
    \/ \E ch \in PathClks : SetPathClks(ch)
    \/ \E g \in 0 .. 1 : RateGov(g)
    \/ \E c \in Configs : LoadEnable(c) \/ Profile(c) \/ Configure(c)
    \/ \E on \in BOOLEAN : SetRxFirEnDis(on) \/ SetTxFirEnDis(on) \/ SetTrxFirEnDis(on)
    \/ TimingAnalysis
    \/ SetNoChMode

Spec == Init /\ [][Next]_vars

----------------------------------------------------------------------------
(* Properties.                                                             *)

Ending(name) == todo # <<>> /\ Head(todo).op = name

\* The pattern is never transmitted: as long as it drives the transmitter, both channels
\* are muted (ad9361_dig_tune: "Mute TX, we don't want to transmit the PRBS").
PnMuted == chip.source = "pn" => chip.atten = [i \in 1 .. 2 |-> MaxAtten]

\* A tuning that muted the transmitter gives the attenuation back that it found; so no
\* tuning runs inside of another, which would find the muting (ad9361_dig_tune,
\* ad9361_tx_mute, ad9361_set_trx_clock_chain, ad9361_clear_state).
AttenGivenBack ==
    [][Ending("tuneend") /\ "default" \notin Frame.flags => chip'.atten = Frame.atten]_vars

\* After a tuning each delay is one at which the pattern was received at every rate that
\* was tried, or the stored one is back; what is stored is always such a pair
\* (ad9361_dig_tune_delay, ad9361_find_opt and ad9361_dig_tune).
DelaysPass ==
    [][Ending("tuneend") =>
           IF ret = "eio" \/ "default" \in Frame.flags
           THEN chip'.delay = drv.delay /\ drv'.delay = drv.delay
           ELSE /\ \A p \in Paths : Skew(chip'.delay[p]) \in Frame.eye[p]
                /\ drv'.delay \in {chip'.delay, drv.delay}]_vars

\* Between calls the data comes from where it was asked for, unless a loopback that was
\* asked for, or an unknown one that was refused, has taken it elsewhere
\* (ad9361_bist_loopback, ad9361_hdl_loopback, ad9361_dig_tune_tx).
SourceKept ==
    Idle /\ drv.loop \in {0, 1} =>
        /\ chip.source = want.source /\ chip.pn = "pn9"
        /\ chip.loop = (drv.loop = 1)

\* Each tone is the one its caches tell, at the rate it was last set for: a phase, a scale
\* and an increment, of two registers, written one by one, together and by the default
\* setup, before and after changes of the clock (dds_set_frequency, dds_set_phase,
\* dds_set_scale, dds_update and dac_init).
TonesKept == \A t \in Tones : Plays(chip.tone[t], drv.tone[t], want.rate[t])

\* An enabling that has nothing to do: the filters are enabled already.
Unneeded == /\ Ending("enable") /\ Head(todo).on
            /\ \A p \in Head(todo).paths : ~drv.bypass[p]

\* Filters that are enabled anew, with success, run as configured: with the codes of their
\* factors and at a chain that leaves time for all of their taps.  An enabling that finds
\* them enabled succeeds as well, also after other filters have been loaded, and changes
\* nothing: it promises only that filters run.  After both, the registers give the chain
\* that was asked for last (ad9361_validate_enable_fir, ad9361_set_trx_fir_en_dis,
\* ad9361_trx_load_enable_fir, ad9361_set_trx_clock_chain, clk_set_rate, ad9361_setup).
FirRuns ==
    [][/\ Ending("firdone") /\ ret' = "ok" =>
              /\ \A p \in Paths :
                     chip'.tree.reg[p] = IF drv'.bypass[p] THEN 0 ELSE Log(drv'.factor[p]) + 1
              /\ ~Refuses(drv'.bypass, ReadBack(chip'.tree))
              /\ ReadBack(chip'.tree) = want'.chain
       /\ Unneeded =>
              /\ ret' = "ok"
              /\ \A p \in Head(todo).paths : chip'.tree.reg[p] > 0
              /\ ReadBack(chip'.tree) = want'.chain]_vars

\* A sample rate that has a chain is the one both paths get, unless only one of the
\* filters changes the rate by 4 (ad9361_calculate_rf_clock_chain, clk_set_rate).
RateMet ==
    [][Ending("ratedone") /\ (InUse("rx") = InUse("tx") \/ 4 \notin {InUse("rx"), InUse("tx")})
       => \A p \in Paths : Rate(chip.tree, p) = Head(todo).freq]_vars

\* "Calculate the RX and TX path rates to obtain the desired sample rate."
RateObtained ==
    [][Ending("ratedone") => \A p \in Paths : Rate(chip.tree, p) = Head(todo).freq]_vars

\* "Mute TX": the transmitter is muted and unmuted, and has then the attenuation that was
\* asked for (ad9361_tx_mute in ad9361_dig_tune).
AttenKept == Idle => chip.atten = want.atten

\* "Get BIST mode settings.": when the mode is told to be off, no pattern is injected into
\* the receiver or the transmitter (ad9361_get_bist_prbs, ad9361_dig_tune).
TestTold == Idle /\ drv.test = "off" => chip.test = "off"
=============================================================================
