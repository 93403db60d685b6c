------------------------------- MODULE Radio --------------------------------
(***************************************************************************)
(* The AD9361 between two calls of its driver and during them: the state   *)
(* machine, the tracking loops, the analog filters, the transmitter's LO   *)
(* and its quadrature correction, as the calibrations, the bandwidth and   *)
(* the reset of c/ad9361.c and c/ad9361_api.c move them.                   *)
(*                                                                         *)
(* A calibration is bracketed: tracking off, ALERT, the calibration, and   *)
(* both back.  It runs in stages, between which the pins may move the      *)
(* machine.  A wait that times out and a filter that does not calibrate    *)
(* are choices of the chip; SPI transfers do not fail on this platform.    *)
(* A bandwidth stands for the pair of the receiver's and transmitter's.    *)
(***************************************************************************)
EXTENDS Ensm, Windows

CONSTANTS Bandwidths,  \* what callers ask for
          CalBw,       \* the narrowest bandwidth the quadrature calibration accepts
          SetupBw,     \* pdata->rf_rx_bandwidth_Hz, rf_tx_bandwidth_Hz
          Loops,       \* the tracking loops (bbdc, rfdc, quad)
          NumPhases,   \* phases of the quadrature calibration (32)
          Defaults,    \* those it may start with (0x08, 0x0E, 0x15, 0x1A, 0x1F)
          Timeouts,    \* the sets of its runs that may time out together
          MaxCalls     \* bound: calls of the driver in one behaviour

ASSUME BandwidthAssumption ==
    /\ Bandwidths \subseteq Nat \ {0} /\ CalBw \in Nat \ {0} /\ SetupBw \in Bandwidths
Phases == 0 .. NumPhases - 1
Runs == {"first", "again", "search", "final"}

ASSUME PhaseAssumption ==
    /\ NumPhases \in Nat \ {0} /\ Defaults \subseteq Phases
    /\ Timeouts \subseteq SUBSET Runs /\ MaxCalls \in Nat

VARIABLES
    ensm,       \* the state machine and what the driver knows of it
    wantPin,    \* ghost: the pin control last asked for
    managed,    \* pdata->lo_powerdown_managed_en
    tracking,   \* chip: the loops that run
    trackEn,    \* bbdc_track_en, rfdc_track_en, quad_track_en
    bw,         \* current_rx_bw_Hz, current_tx_bw_Hz
    filters,    \* chip: the bandwidth that each of the analog filters is set for
    txOff,      \* cached_synth_pd[0]: TX_LO_POWER_DOWN
    txOffReg,   \* chip: the same bit
    lastPhase,  \* last_tx_quad_cal_phase
    stranded,   \* ghost: a bandwidth or a setup has failed and nothing set it right
    call,       \* the call in progress, or the result of the last one
    calls       \* calls made so far

driver == <<managed, trackEn, bw, txOff, lastPhase>>
vars == <<ensm, wantPin, driver, tracking, filters, txOffReg, stranded, call, calls>>

Detuned == -1
Parts == {"rx", "tia", "adc", "tx", "second"}
All(b) == [p \in Parts |-> b]
NoPhase == 2 * NumPhases    \* ~0, larger than any phase
Bws == Bandwidths \cup {0}
CalOps == {"quad", "rfdc", "unknown"}
Modes == {"tx", "rx", "alert", "fdd", "wait", "sleep", "pinctrl", "pinctrl_fdd_indep"}
Ops == CalOps \cup Modes \cup {"bandwidth", "reset", "other"}
Stages == {"idle", "filters", "prepare", "quad", "rfdc", "restore",
           "clocks", "synths", "setup", "run", "tune"}
Pinned == {"no", "asked", "stray"}
Results == {"none", "valid", "missed", "hopeless"}
Calls == [op : Ops, stage : Stages, band : Bws,
          before : States, pins : Pinned,             \* the machine when the call began
          quad : Results, rc : {"ok", "error"}, failed : BOOLEAN]

TypeOK ==
    /\ ensm \in Ensms /\ wantPin \in BOOLEAN /\ managed \in BOOLEAN
    /\ tracking \subseteq Loops /\ trackEn \subseteq Loops
    /\ bw \in Bws /\ filters \in [Parts -> Bws \cup {CalBw, Detuned}]
    /\ txOff \in BOOLEAN /\ txOffReg \in BOOLEAN
    /\ lastPhase \in Phases \cup {NoPhase}
    /\ stranded \in BOOLEAN
    /\ call \in Calls /\ calls \in 0 .. MaxCalls

Init ==
    \E fdd \in BOOLEAN :
        /\ ensm = Started(CpCalib([AfterReset(fdd) EXCEPT !.clocks = TRUE]))
        /\ wantPin = FALSE
        /\ managed \in BOOLEAN
        /\ tracking = Loops /\ trackEn = Loops
        /\ bw = SetupBw /\ filters = All(SetupBw)
        /\ txOff = FALSE /\ txOffReg = FALSE
        /\ lastPhase = NoPhase
        /\ stranded = FALSE
        /\ call = [op |-> "other", stage |-> "idle", band |-> 0, before |-> ensm.state,
                   pins |-> "no", quad |-> "none", rc |-> "ok", failed |-> FALSE]
        /\ calls = 0

----------------------------------------------------------------------------
(* Calls: how they begin, go on and end.                                   *)

Idle == call.stage = "idle"

Called(op, stage, band) ==
    [op |-> op, stage |-> stage, band |-> band, before |-> ensm.state,
     pins |-> IF "PinCtrl" \notin ensm.cfg THEN "no" ELSE IF wantPin THEN "asked" ELSE "stray",
     quad |-> "none", rc |-> "ok", failed |-> FALSE]
Ended(c, rc, failed) ==
    [c EXCEPT !.stage = "idle", !.band = 0, !.rc = rc, !.failed = failed]

Enter == Idle /\ calls < MaxCalls /\ calls' = calls + 1
Begin(op, stage, band) == Enter /\ call' = Called(op, stage, band)

At(stage) == call.stage = stage /\ UNCHANGED calls

\* The call goes on, or returns 0.
Goto(stage) == call' = [call EXCEPT !.stage = stage] /\ UNCHANGED stranded
Return == call' = Ended(call, "ok", call.failed)

\* A step fails.  ad9361_do_calib_run goes on to the restoration, where the result is
\* lost; a bandwidth returns at once; a setup does, and ad9361_set_no_ch_mode goes on.
Failed(c) ==
    CASE c.op \in CalOps -> [c EXCEPT !.stage = "restore", !.failed = TRUE]
      [] c.op = "bandwidth" -> Ended(c, "error", TRUE)
      [] c.op \notin CalOps \cup {"bandwidth"} -> [c EXCEPT !.stage = "tune", !.failed = TRUE]
Fail == call' = Failed(call) /\ stranded' = (stranded \/ call.op \notin CalOps)

----------------------------------------------------------------------------
(* Single calls.                                                           *)

ModeState(m) == CASE m = "pinctrl" -> "wait" [] m = "pinctrl_fdd_indep" -> "fdd"
                  [] OTHER -> m

\* ad9361_get_en_state_machine_mode
GetMode ==
    CASE ensm.state = "fdd" -> IF ensm.indep THEN "pinctrl_fdd_indep" ELSE "fdd"
      [] ensm.state = "wait" -> IF "PinCtrl" \in ensm.cfg THEN "pinctrl" ELSE "wait"
      [] OTHER -> ensm.state

\* ad9361_set_en_state_machine_mode
SetMode(m) ==
    LET asked == SetEnsmMode([ensm EXCEPT !.indep = (m = "pinctrl_fdd_indep")], ensm.fdd)
        refused == Refused(asked, ModeState(m))
    IN  /\ Enter
        /\ ensm' = SetState(asked, ModeState(m), m = "pinctrl")
        /\ wantPin' = IF refused THEN wantPin ELSE m = "pinctrl"
        /\ call' = Ended(Called(m, "idle", 0), IF refused THEN "error" ELSE "ok", refused)
        /\ UNCHANGED <<driver, tracking, filters, txOffReg, stranded>>

\* ad9361_tracking_control, for the loops in s: one register for the DC offsets, one for the
\* quadrature of both receivers.
TrackingControl(s) == tracking' = s

\* ad9361_set_rx_rfdc_track_en_dis and its two siblings
SetTracking(l) ==
    /\ Begin("other", "idle", 0)
    /\ trackEn' = IF l \in trackEn THEN trackEn \ {l} ELSE trackEn \cup {l}
    /\ TrackingControl(trackEn')
    /\ UNCHANGED <<ensm, wantPin, managed, bw, filters, txOff, txOffReg, lastPhase, stranded>>

\* ad9361_synth_lo_powerdown
TxLoPower(off) ==
    /\ Begin("other", "idle", 0)
    /\ txOff' = off /\ txOffReg' = off
    /\ UNCHANGED <<ensm, wantPin, managed, tracking, trackEn, bw, filters, lastPhase, stranded>>

\* ad9361_clk_mux_set_parent, which writes the cached power bits back.
MuxSetParent ==
    /\ Begin("other", "idle", 0)
    /\ ensm' = InAlert(ensm)
    /\ txOffReg' = txOff
    /\ UNCHANGED <<wantPin, driver, tracking, filters, stranded>>

\* The pins act at any time.
Pins ==
    /\ ensm' \in PinMoves(ensm)
    /\ UNCHANGED <<wantPin, driver, tracking, filters, txOffReg, stranded, call, calls>>

----------------------------------------------------------------------------
(* Calibrations.                                                           *)

\* Mutant of EnterAlert: the loops are left running.
EnterAlertTracking ==
    /\ ensm' = ForceState(ensm, "alert")
    /\ UNCHANGED <<wantPin, driver, tracking, filters, txOffReg, stranded>>

\* No loop, then the state machine to ALERT.
EnterAlert ==
    /\ TrackingControl({})
    /\ ensm' = ForceState(ensm, "alert")
    /\ UNCHANGED <<wantPin, driver, filters, txOffReg, stranded>>

\* ad9361_do_calib_run; a calibration it does not know fails at once.
DoCalib(cal) ==
    /\ Begin(cal, CASE cal = "quad" -> "prepare" [] cal = "rfdc" -> "rfdc"
                    [] OTHER -> "restore", bw)
    /\ EnterAlert

\* ad9361_set_rx_rf_bandwidth: what is cached is not set again.
SkipBandwidth ==
    /\ Begin("bandwidth", "idle", 0)
    /\ UNCHANGED <<ensm, wantPin, driver, tracking, filters, txOffReg, stranded>>

\* ad9361_update_rf_bandwidth
SetBandwidth(b) ==
    /\ b # bw
    /\ Begin("bandwidth", "filters", b)
    /\ EnterAlert

\* ad9361_rx_bb_analog_filter_calib and ad9361_tx_bb_analog_filter_calib: the divider is
\* set and the tuning runs; one that times out leaves the filter detuned.
RxFilter(f, b, done) == [f EXCEPT !.rx = IF done THEN b ELSE Detuned]
TxFilter(f, b, done) == [f EXCEPT !.tx = IF done THEN b ELSE Detuned]

\* ad9361_rx_tia_calib and ad9361_rx_adc_setup compute from what the tuning of the receive
\* filter has found; the second filter of the transmitter stands by itself.
RxTia(f) == [f EXCEPT !.tia = f.rx]
SecondFilter(f, b) == [f EXCEPT !.second = b]
AdcSetup(f) == [f EXCEPT !.adc = f.rx]

Untuned(f) == Detuned \in {f.rx, f.tx}

\* __ad9361_update_rf_bandwidth: the first that fails ends it.  Tuning needs the clocks.
Filters(f, b) ==
    LET rx == RxFilter(f, b, TRUE)
    IN  {RxFilter(f, b, FALSE)}
        \cup IF ensm.clocks
             THEN {TxFilter(rx, b, FALSE), AdcSetup(SecondFilter(RxTia(TxFilter(rx, b, TRUE)), b))}
             ELSE {}

SetFilters ==
    /\ At("filters")
    /\ filters' \in Filters(filters, call.band)
    /\ IF Untuned(filters')
       THEN Fail /\ UNCHANGED bw
       ELSE bw' = call.band /\ Goto("prepare")
    /\ UNCHANGED <<ensm, wantPin, managed, tracking, trackEn, txOff, txOffReg, lastPhase>>

\* ad9361_tx_quad_calib up to the calibration: with the LO powered down it is refused or
\* the LO is switched on, and filters that are too narrow are widened.
Aborted == txOff /\ ~managed
Narrow == call.band < CalBw
LoOn == IF txOff /\ managed THEN FALSE ELSE txOffReg
LoBack == IF txOff /\ managed THEN txOff ELSE txOffReg

QuadRefused ==
    /\ At("prepare") /\ Aborted
    /\ Fail
    /\ UNCHANGED <<ensm, wantPin, driver, tracking, filters, txOffReg>>

QuadPrepare ==
    /\ At("prepare") /\ ~Aborted
    /\ filters' \in IF Narrow THEN Filters(filters, CalBw) ELSE {filters}
    /\ IF Narrow /\ Untuned(filters')
       THEN Fail /\ txOffReg' = LoBack
       ELSE Goto("quad") /\ txOffReg' = LoOn
    /\ UNCHANGED <<ensm, wantPin, driver, tracking>>

\* Mutants of Found: the window's end for its middle; the phase past the last one is kept.
FoundEnd(conv) ==
    LET w == FindOpt([i \in 1 .. 2 * NumPhases |-> (i - 1) % NumPhases \in conv])
    IN  (w.start + w.cnt) % NumPhases
FoundPast(conv) ==
    LET w == FindOpt([i \in 1 .. 2 * NumPhases |-> (i - 1) % NumPhases \in conv])
    IN  w.start + w.cnt \div 2

\* ad9361_tx_quad_phase_search: all phases twice, because the last neighbours the first.
Found(conv) ==
    LET w == FindOpt([i \in 1 .. 2 * NumPhases |-> (i - 1) % NumPhases \in conv])
    IN  (w.start + w.cnt \div 2) % NumPhases

\* The runs of ad9361_tx_quad_calib, when the phases in conv converge and the runs in slow
\* time out: the default phase p, the last one that was good, and the search.  A first run
\* that times out leaves val as it was on the stack; the search does not look at the result
\* of the run that it ends with.  With force (an rx_phase of -2) the search comes at once.
QuadRuns(conv, slow, p, val, force) ==
    LET first == ~force /\ IF "first" \in slow THEN val ELSE p \in conv
        again == ~force /\ ~first /\ lastPhase < NumPhases - 1
        second == IF again /\ "again" \notin slow THEN lastPhase \in conv ELSE first
        found == Found(conv)
    IN  CASE first -> [phase |-> p, ok |-> "first" \notin slow, valid |-> p \in conv]
          [] ~first /\ second -> [phase |-> lastPhase, ok |-> TRUE, valid |-> TRUE]
          [] ~first /\ ~second /\ "search" \in slow ->
                 [phase |-> lastPhase, ok |-> FALSE, valid |-> FALSE]
          [] ~first /\ ~second /\ "search" \notin slow ->
                 [phase |-> found, ok |-> "final" \notin slow, valid |-> found \in conv]

\* The end of ad9361_tx_quad_calib: the filters go back to the cached bandwidth, with the
\* result ignored, and the LO to the cached power.
QuadEnds(r, hopeless) ==
    /\ lastPhase' = r.phase
    /\ filters' \in IF Narrow THEN Filters(filters, bw) ELSE {filters}
    /\ txOffReg' = LoBack
    /\ \/ /\ r.ok
          /\ call' = [call EXCEPT !.stage = IF call.op = "reset" THEN "run" ELSE "restore",
                                 !.quad = IF r.valid THEN "valid"
                                          ELSE IF hopeless THEN "hopeless" ELSE "missed"]
          /\ UNCHANGED stranded
       \/ ~r.ok /\ Fail
    /\ UNCHANGED <<ensm, wantPin, managed, tracking, trackEn, bw, txOff>>

QuadCalib ==
    /\ At("quad")
    /\ \E conv \in SUBSET Phases, p \in Defaults, val \in BOOLEAN,
          slow \in IF ensm.clocks THEN Timeouts ELSE {Runs},
          force \in IF call.op = "quad" THEN BOOLEAN ELSE {FALSE} :
           QuadEnds(QuadRuns(conv, slow, p, val, force), conv = {})

\* ad9361_rf_dc_offset_calib
RfdcCalib ==
    /\ At("rfdc")
    /\ \/ ensm.clocks /\ Goto("restore")
       \/ Fail
    /\ UNCHANGED <<ensm, wantPin, driver, tracking, filters, txOffReg>>

\* The end of ad9361_do_calib_run and ad9361_update_rf_bandwidth; ret is that of
\* ad9361_tracking_control, which is 0.
LeaveAlert ==
    /\ At("restore")
    /\ TrackingControl(trackEn)
    /\ ensm' = RestorePrev(ensm)
    /\ stranded' = (stranded /\ call.op # "bandwidth")
    /\ Return
    /\ UNCHANGED <<wantPin, driver, filters, txOffReg>>

----------------------------------------------------------------------------
(* ad9361_set_no_ch_mode: a reset, ad9361_clear_state and ad9361_setup.    *)

\* Mutant of Reset: the cached power bits survive.
ResetKeepsPower ==
    /\ Begin("reset", "clocks", SetupBw)
    /\ ensm' = [AfterReset(ensm.fdd) EXCEPT !.indep = ensm.indep]
    /\ wantPin' = FALSE
    /\ tracking' = {} /\ trackEn' = Loops
    /\ bw' = 0 /\ filters' = All(0)
    /\ txOffReg' = FALSE
    /\ UNCHANGED <<managed, txOff, lastPhase, stranded>>

\* The reset of the chip and ad9361_clear_state.
Reset ==
    /\ Begin("reset", "clocks", SetupBw)
    /\ ensm' = [AfterReset(ensm.fdd) EXCEPT !.indep = ensm.indep]
    /\ wantPin' = FALSE
    /\ tracking' = {} /\ trackEn' = Loops
    /\ bw' = 0 /\ filters' = All(0)
    /\ txOff' = FALSE /\ txOffReg' = FALSE
    /\ UNCHANGED <<managed, lastPhase, stranded>>

\* The clocks are enabled; the PLL and the clock chain may be refused.
SetupClocks ==
    /\ At("clocks")
    /\ ensm' = [ensm EXCEPT !.clocks = TRUE]
    /\ \/ Goto("synths")
       \/ Fail
    /\ UNCHANGED <<wantPin, driver, tracking, filters, txOffReg>>

\* Both synthesizers, their charge pumps, which leave ALERT behind, and their multiplexers.
SetupSynths ==
    /\ At("synths")
    /\ \/ ensm' = InAlert(InAlert(CpCalib(ensm))) /\ Goto("setup")
       \/ ensm' \in {ensm, CpCalib(ensm)} /\ Fail
    /\ UNCHANGED <<wantPin, driver, tracking, filters, txOffReg>>

\* The filters and the DC offsets; only then is the bandwidth cached.
SetupAnalog ==
    /\ At("setup")
    /\ filters' \in Filters(filters, SetupBw)
    /\ \/ /\ ~Untuned(filters')
          /\ bw' = SetupBw /\ lastPhase' = NoPhase
          /\ Goto("prepare")
       \/ UNCHANGED <<bw, lastPhase>> /\ Fail
    /\ UNCHANGED <<ensm, wantPin, managed, tracking, trackEn, txOff, txOffReg>>

\* Tracking, the attenuation and the rest of the registers; the state machine is started
\* with the result ignored.
SetupRun ==
    /\ At("run")
    /\ TrackingControl(trackEn)
    /\ ensm' = Started(ensm)
    /\ stranded' = FALSE
    /\ call' = [call EXCEPT !.stage = "tune"]
    /\ UNCHANGED <<wantPin, driver, filters, txOffReg>>

\* ad9361_post_setup, even after a setup that failed; both results are ignored.
PostSetup ==
    /\ At("tune")
    /\ ensm' = InAlert(Tuned(ensm))
    /\ Return
    /\ UNCHANGED <<wantPin, driver, tracking, filters, txOffReg, stranded>>

ResetNext ==
    \/ Reset
    \/ SetupClocks
    \/ SetupSynths
    \/ SetupAnalog
    \/ SetupRun
    \/ PostSetup

Next ==
    \/ \E m \in Modes : SetMode(m)
    \/ \E l \in Loops : SetTracking(l)
    \/ \E off \in BOOLEAN : TxLoPower(off)
    \/ MuxSetParent
    \/ Pins
    \/ \E cal \in CalOps : DoCalib(cal)
    \/ \E b \in Bandwidths : SetBandwidth(b)
    \/ SkipBandwidth
    \/ SetFilters
    \/ QuadRefused
    \/ QuadPrepare
    \/ QuadCalib
    \/ RfdcCalib
    \/ LeaveAlert
    \/ ResetNext

Spec == Init /\ [][Next]_vars

----------------------------------------------------------------------------
(* Properties.                                                             *)

\* While a calibration runs, no tracking loop does, the machine is not in an active
\* state unless the pins put it there, and the quadrature calibration has the LO it needs
\* and filters that are wide enough (ad9361_do_calib_run, ad9361_update_rf_bandwidth,
\* ad9361_tx_quad_calib, ad9361_setup).
CalQuiet ==
    /\ call.stage \in {"filters", "prepare", "quad", "rfdc"} =>
           /\ tracking = {}
           /\ ensm.state \in Active => "PinCtrl" \in ensm.cfg
    /\ call.stage = "quad" => ~txOffReg /\ (Untuned(filters) \/ \A p \in Parts : filters[p] >= CalBw)

\* A calibration, whether it fails or not, leaves the loops as they were asked for and
\* the machine where it found it, unless that was WAIT or the pins have control again
\* (ad9361_do_calib_run and ad9361_ensm_restore_prev_state).
CalibRestores ==
    Idle /\ call.op \in CalOps =>
        /\ tracking = trackEn
        /\ \/ ensm.state = call.before
           \/ call.before = "wait"
           \/ "PinCtrl" \in ensm.cfg

\* A mode that the duplex mode allows and that is not refused is reached and read back,
\* whatever ran before, unless the pins had control when nobody had asked for that
\* (ad9361_set_en_state_machine_mode, ad9361_get_en_state_machine_mode and
\* ad9361_ensm_set_state).
ModeHonoured ==
    /\ Idle /\ call.rc = "ok" /\ call.pins # "stray"
    /\ call.op \in IF ensm.fdd THEN {"alert", "fdd", "pinctrl_fdd_indep"}
                   ELSE {"alert", "tx", "rx"}
    => GetMode = call.op

\* Between calls the LO is powered as cached.  Unless a bandwidth or a setup has failed and
\* not been made good, the loops that are enabled run, and the filters have the cached
\* bandwidth or failed to be tuned back to it.
Agree ==
    Idle => /\ txOffReg = txOff
            /\ stranded \/ ((Untuned(filters) \/ filters = All(bw)) /\ tracking = trackEn)

\* If some phase converges, a calibration that ends without an error has found one
\* (ad9361_tx_quad_calib, ad9361_tx_quad_phase_search, ad9361_find_opt).
SearchFinds == call.quad # "missed"

----------------------------------------------------------------------------
(* Why they hold (module Radio_proofs).                                    *)

Resetting == ~Idle /\ call.op = "reset"
Calibrating == ~Idle /\ call.op # "reset"

\* Which calls have which stages, and the bandwidth they are about.
StageInv ==
    /\ call.stage = "filters" => call.op = "bandwidth" /\ call.band \in Bandwidths
    /\ call.stage \in {"prepare", "quad"} =>
           call.op \in {"quad", "bandwidth", "reset"} /\ call.band = bw
    /\ call.stage = "rfdc" => call.op = "rfdc"
    /\ call.stage = "restore" => call.op \in CalOps \cup {"bandwidth"}
    /\ call.stage \in {"clocks", "synths", "setup", "run", "tune"} => call.op = "reset"
    /\ call.stage \in {"clocks", "synths", "setup"} => call.band = SetupBw

\* The machine and what the driver believes of it.  ALERT is left only by the pins.
MachineInv ==
    /\ Consistent(ensm)
    /\ ensm.clocks \/ ensm.curr = "sleep" \/ call.stage = "clocks"
    /\ Resetting \/ ensm.mode = ensm.fdd
    /\ wantPin => ensm.curr = "wait"
    /\ Idle /\ ensm.curr = "alert" /\ "PinCtrl" \notin ensm.cfg => ensm.state = "alert"

\* Inside the bracket of a calibration or a bandwidth.
BracketInv ==
    Calibrating =>
        /\ tracking = {}
        /\ ensm.prev = call.before /\ Fits(call.before, ensm.mode)
        /\ call.before # "wait" => ensm.clocks
        /\ ensm.clocks => ensm.state # "wait"
        /\ ensm.state \in Active => "PinCtrl" \in ensm.cfg
        /\ ensm.curr = "alert" =>
               call.before = "alert" \/ "PinCtrl" \in ensm.cfg \/ ensm.pinEn

\* During a reset nobody but the setup moves the machine.
ResetInv ==
    Resetting =>
        /\ ~wantPin /\ ensm.curr # "alert" /\ "PinCtrl" \notin ensm.cfg
        /\ call.stage = "clocks" \/ ensm.clocks
        /\ call.stage # "tune" =>
               /\ tracking = {} /\ ensm.curr = "wait" /\ ~ensm.pinEn
               /\ ensm.state \in {"wait", "alert"}
        /\ call.stage \in {"clocks", "synths", "setup"} => bw = 0

\* The filters have the cached bandwidth, or one of them failed to be tuned.
FiltersSet == Untuned(filters) \/ filters = All(bw)

\* The filters and the LO, before, during and after a quadrature calibration.
FilterInv ==
    /\ IF call.stage = "quad"
       THEN /\ ~txOffReg /\ (txOff => managed)
            /\ Untuned(filters) \/ filters = All(IF bw < CalBw THEN CalBw ELSE bw)
       ELSE txOffReg = txOff /\ (FiltersSet \/ bw = 0)
    /\ call.stage \in {"prepare", "restore"} /\ call.op \notin CalOps => FiltersSet
    /\ call.stage = "run" => FiltersSet
    /\ ~Resetting /\ call.stage # "quad" => stranded \/ FiltersSet
    /\ Idle \/ call.stage = "tune" => stranded \/ (FiltersSet /\ tracking = trackEn)

\* A mode that was reached is left by another call only.
ModeInv ==
    /\ Idle /\ call.rc = "ok" /\ call.pins # "stray"
    /\ call.op \in IF ensm.fdd THEN {"alert", "fdd", "pinctrl_fdd_indep"}
                   ELSE {"alert", "tx", "rx"}
    => /\ ensm.state = IF call.op = "pinctrl_fdd_indep" THEN "fdd" ELSE call.op
       /\ ensm.indep = (call.op = "pinctrl_fdd_indep")
       /\ "PinCtrl" \notin ensm.cfg

IInv ==
    /\ TypeOK /\ StageInv /\ MachineInv /\ BracketInv /\ ResetInv /\ FilterInv
    /\ CalibRestores /\ ModeInv /\ SearchFinds
=============================================================================
