--------------------------- MODULE Radio_proofs ------------------------------
(***************************************************************************)
(* Theorems about Radio and their proofs: that every call of the driver,   *)
(* whatever fails in it and whatever the pins do meanwhile, keeps the      *)
(* chip, the driver's caches and the state machine in agreement.           *)
(***************************************************************************)
EXTENDS Radio, Operators_proofs

----------------------------------------------------------------------------
(* Records of calls.                                                       *)

LEMMA CallFields ==
  ASSUME NEW c \in Calls
  PROVE  /\ c.op \in Ops /\ c.stage \in Stages /\ c.band \in Bws /\ c.before \in States
         /\ c.pins \in Pinned /\ c.quad \in Results /\ c.rc \in {"ok", "error"}
         /\ c.failed \in BOOLEAN
BY DEF Calls

LEMMA CalledFields ==
  ASSUME TypeOK, NEW op \in Ops, NEW stage \in Stages, NEW band \in Bws
  PROVE  LET c == Called(op, stage, band)
         IN  /\ c \in Calls /\ c.op = op /\ c.stage = stage /\ c.band = band
             /\ c.before = ensm.state /\ c.quad = "none" /\ c.rc = "ok"
             /\ c.pins # "stray" => "PinCtrl" \notin ensm.cfg \/ wantPin
<1>1. ensm.state \in States
  BY EnsmFields DEF TypeOK
<1>. QED  BY <1>1 DEF Called, Calls, Pinned, Results

LEMMA EndedFields ==
  ASSUME NEW c \in Calls, NEW rc \in {"ok", "error"}, NEW failed \in BOOLEAN
  PROVE  LET d == Ended(c, rc, failed)
         IN  /\ d \in Calls /\ d.op = c.op /\ d.stage = "idle" /\ d.before = c.before
             /\ d.pins = c.pins /\ d.quad = c.quad /\ d.rc = rc
BY DEF Ended, Calls, Stages, Bws

\* A call that goes on.
LEMMA AtStage ==
  ASSUME NEW c \in Calls, NEW stage \in Stages
  PROVE  LET d == [c EXCEPT !.stage = stage]
         IN  /\ d \in Calls /\ d.op = c.op /\ d.stage = stage /\ d.band = c.band
             /\ d.before = c.before /\ d.pins = c.pins /\ d.quad = c.quad /\ d.rc = c.rc
BY DEF Calls

\* Where a failing step goes.
LEMMA FailedFields ==
  ASSUME NEW c \in Calls
  PROVE  LET d == Failed(c)
         IN  /\ d \in Calls /\ d.op = c.op /\ d.before = c.before /\ d.pins = c.pins
             /\ d.quad = c.quad
             /\ c.op \in CalOps => d.stage = "restore"
             /\ c.op = "bandwidth" => d.stage = "idle" /\ d.rc = "error"
             /\ c.op \notin CalOps \cup {"bandwidth"} => d.stage = "tune"
<1>1. CASE c.op \in CalOps
  BY <1>1 DEF Failed, CalOps, Calls, Stages
<1>2. CASE c.op = "bandwidth"
  <2>1. Failed(c) = Ended(c, "error", TRUE)
    BY <1>2 DEF Failed, CalOps
  <2> DEFINE d == Ended(c, "error", TRUE)
  <2>2. /\ d \in Calls /\ d.op = c.op /\ d.stage = "idle" /\ d.before = c.before
        /\ d.pins = c.pins /\ d.quad = c.quad /\ d.rc = "error"
    BY EndedFields
  <2> HIDE DEF d
  <2>3. Failed(c) = d /\ c.op \notin CalOps
    BY <1>2, <2>1 DEF d, CalOps
  <2>. QED  BY <1>2, <2>2, <2>3
<1>3. CASE c.op \notin CalOps \cup {"bandwidth"}
  <2>1. Failed(c) = [c EXCEPT !.stage = "tune", !.failed = TRUE]
    BY <1>3 DEF Failed
  <2>. QED  BY <1>3, <2>1 DEF Calls, Stages
<1>. QED  BY <1>1, <1>2, <1>3

----------------------------------------------------------------------------
(* The filters.                                                            *)

\* Either one of the filters that are tuned fails, or all have the bandwidth asked for.
LEMMA FiltersResult ==
  ASSUME NEW S, NEW f \in [Parts -> S], NEW b \in S, b # Detuned, Detuned \in S,
         NEW r \in Filters(f, b)
  PROVE  r \in [Parts -> S] /\ (Untuned(r) \/ r = All(b)) /\ (r = All(b) => ~Untuned(r))
<1> DEFINE rx == [f EXCEPT !.rx = b]
           tx == [rx EXCEPT !.tx = b]
           tia == [tx EXCEPT !.tia = tx.rx]
           second == [tia EXCEPT !.second = b]
           adc == [second EXCEPT !.adc = second.rx]
<1>1. \/ r = [f EXCEPT !.rx = Detuned]
      \/ r = [rx EXCEPT !.tx = Detuned]
      \/ r = adc
  BY DEF Filters, RxFilter, TxFilter, RxTia, SecondFilter, AdcSetup
<1>2. CASE r = [f EXCEPT !.rx = Detuned]
  BY <1>2 DEF Parts, Untuned, All
<1>3. CASE r = [rx EXCEPT !.tx = Detuned]
  BY <1>3 DEF Parts, Untuned, All
<1>4. CASE r = adc
  BY <1>4 DEF Parts, Untuned, All
<1>. QED  BY <1>1, <1>2, <1>3, <1>4

----------------------------------------------------------------------------
(* The search for a phase.                                                 *)

\* The phase in the middle of the longest window is a phase, and it converges if any does.
LEMMA FoundConverges ==
  ASSUME NEW conv \in SUBSET Phases
  PROVE  Found(conv) \in Phases /\ (conv # {} => Found(conv) \in conv)
<1> DEFINE passes == [i \in 1 .. 2 * NumPhases |-> (i - 1) % NumPhases \in conv]
           w == FindOpt(passes)
           mid == w.start + w.cnt \div 2
<1>0. NumPhases \in Nat \ {0}
  BY PhaseAssumption
<1>1. passes \in Seq(BOOLEAN) /\ Len(passes) = 2 * NumPhases
  <2>1. \A i \in 1 .. 2 * NumPhases : ((i - 1) % NumPhases \in conv) \in BOOLEAN
    OBVIOUS
  <2>2. passes \in [1 .. 2 * NumPhases -> BOOLEAN]
    BY <2>1
  <2>3. 2 * NumPhases \in Nat
    BY <1>0
  <2> HIDE DEF passes
  <2>. QED  BY <2>2, <2>3
<1>2. \A i \in 1 .. 2 * NumPhases : passes[i] <=> (i - 1) % NumPhases \in conv
  OBVIOUS
<1> HIDE DEF passes
<1>3. /\ w.start \in Nat /\ w.cnt \in Nat /\ w.start + w.cnt <= Len(passes)
      /\ Pass(passes, w.start, w.cnt)
      /\ \A s, c \in Nat : s + c <= Len(passes) /\ Pass(passes, s, c) => c <= w.cnt
  BY <1>1, FindOptLongest
<1>4. Found(conv) = mid % NumPhases
  BY DEF Found, passes
<1> HIDE DEF w
<1>5. mid \in Nat
  BY <1>3
<1>6. Found(conv) \in Phases
  <2> HIDE DEF mid
  <2>. QED  BY <1>0, <1>4, <1>5 DEF Phases
<1>7. ASSUME conv # {} PROVE Found(conv) \in conv
  <2>1. PICK p \in conv : p \in 0 .. NumPhases - 1
    BY <1>7 DEF Phases
  <2>2. p + 1 \in 1 .. 2 * NumPhases /\ p + 1 - 1 = p /\ p % NumPhases = p
    BY <1>0, <2>1
  <2>3. passes[p + 1]
    BY <1>2, <2>1, <2>2
  <2>4. Pass(passes, p, 1)
    BY <2>1, <2>3 DEF Pass
  <2>5. p \in Nat /\ 1 \in Nat /\ p + 1 <= Len(passes)
    BY <1>0, <1>1, <2>1
  <2>6. 1 <= w.cnt
    BY <1>3, <2>4, <2>5
  <2>7. mid + 1 \in w.start + 1 .. w.start + w.cnt
    BY <1>3, <2>6
  <2>8. passes[mid + 1]
    BY <1>3, <2>7 DEF Pass
  <2>9. PICK i \in 1 .. 2 * NumPhases : i = mid + 1 /\ i - 1 = mid
    BY <1>1, <1>3, <1>5, <2>7
  <2> HIDE DEF mid
  <2>10. (i - 1) % NumPhases \in conv
    <3>1. passes[i]
      BY <2>8, <2>9
    <3>. QED  BY <1>2, <3>1
  <2>11. mid % NumPhases \in conv
    BY <2>9, <2>10
  <2>. QED  BY <1>4, <2>11
<1>. QED  BY <1>6, <1>7

\* A quadrature calibration that reports success has converged, if it could.
LEMMA QuadRunsValid ==
  ASSUME NEW conv \in SUBSET Phases, NEW slow \in SUBSET Runs, NEW p \in Defaults,
         NEW val \in BOOLEAN, NEW force \in BOOLEAN, lastPhase \in Phases \cup {NoPhase}
  PROVE  LET r == QuadRuns(conv, slow, p, val, force)
         IN  /\ r.phase \in Phases \cup {NoPhase} /\ r.ok \in BOOLEAN /\ r.valid \in BOOLEAN
             /\ r.ok /\ conv # {} => r.valid
<1> DEFINE first == ~force /\ IF "first" \in slow THEN val ELSE p \in conv
           again == ~force /\ ~first /\ lastPhase < NumPhases - 1
           second == IF again /\ "again" \notin slow THEN lastPhase \in conv ELSE first
           r == QuadRuns(conv, slow, p, val, force)
<1>0. p \in Phases /\ Found(conv) \in Phases /\ (conv # {} => Found(conv) \in conv)
  BY FoundConverges, PhaseAssumption
<1>1. CASE first
  <2>1. r = [phase |-> p, ok |-> "first" \notin slow, valid |-> p \in conv]
    BY <1>1 DEF QuadRuns
  <2>2. "first" \notin slow => p \in conv
    BY <1>1
  <2>. QED  BY <1>0, <2>1, <2>2
<1>2. CASE ~first /\ second
  <2>1. r = [phase |-> lastPhase, ok |-> TRUE, valid |-> TRUE]
    BY <1>2 DEF QuadRuns
  <2>. QED  BY <2>1
<1>3. CASE ~first /\ ~second /\ "search" \in slow
  <2>1. r = [phase |-> lastPhase, ok |-> FALSE, valid |-> FALSE]
    BY <1>3 DEF QuadRuns
  <2>. QED  BY <2>1
<1>4. CASE ~first /\ ~second /\ "search" \notin slow
  <2>1. r = [phase |-> Found(conv), ok |-> "final" \notin slow, valid |-> Found(conv) \in conv]
    BY <1>4 DEF QuadRuns
  <2>. QED  BY <1>0, <2>1
<1>. QED  BY <1>1, <1>2, <1>3, <1>4

----------------------------------------------------------------------------
(* The invariant: the initial states.                                      *)

LEMMA InitInv == Init => IInv
<1> SUFFICES ASSUME Init PROVE IInv
  OBVIOUS
<1>1. PICK fdd \in BOOLEAN :
        /\ ensm = Started(CpCalib([AfterReset(fdd) EXCEPT !.clocks = TRUE]))
        /\ wantPin = FALSE /\ managed \in BOOLEAN
        /\ tracking = Loops /\ trackEn = Loops /\ bw = SetupBw /\ filters = All(SetupBw)
        /\ txOff = FALSE /\ txOffReg = FALSE /\ lastPhase = NoPhase /\ stranded = FALSE
        /\ call = [op |-> "other", stage |-> "idle", band |-> 0, before |-> ensm.state,
                   pins |-> "no", quad |-> "none", rc |-> "ok", failed |-> FALSE]
        /\ calls = 0
  BY DEF Init
<1> DEFINE e == [AfterReset(fdd) EXCEPT !.clocks = TRUE]
<1>2. Sane(e) /\ e.clocks
  BY DEF AfterReset, Sane, Ensms, States, Active
<1>3. Sane(CpCalib(e)) /\ CpCalib(e).clocks /\ CpCalib(e).state = "alert"
  <2>1. [e EXCEPT !.mode = TRUE].clocks
    BY DEF AfterReset
  <2> HIDE DEF e
  <2>. QED  BY <1>2, <2>1, CpCalibFields DEF Consistent, Same
<1>4. /\ Consistent(ensm) /\ ensm.clocks /\ ensm.mode = ensm.fdd /\ ensm.curr \in {"fdd", "rx"}
  BY <1>1, <1>3, StartedFields
<1>5. ensm \in Ensms /\ ensm.state \in States
  BY <1>4, EnsmFields DEF Consistent, Sane
<1>6. /\ call.op = "other" /\ call.stage = "idle" /\ call.quad = "none" /\ call \in Calls
  BY <1>1, <1>5 DEF Calls, Ops, Stages, Bws, Pinned, Results
<1>7. TypeOK
  <2>1. filters \in [Parts -> Bws \cup {CalBw, Detuned}] /\ bw \in Bws
    BY <1>1, BandwidthAssumption DEF Bws, All
  <2>2. lastPhase \in Phases \cup {NoPhase} /\ calls \in 0 .. MaxCalls
    BY <1>1, PhaseAssumption
  <2>. QED  BY <1>1, <1>5, <1>6, <2>1, <2>2 DEF TypeOK
<1>8. StageInv /\ BracketInv /\ ResetInv /\ CalibRestores /\ SearchFinds
  BY <1>6 DEF StageInv, BracketInv, Calibrating, ResetInv, Resetting, CalibRestores, SearchFinds,
              Idle, CalOps
<1>9. MachineInv
  BY <1>1, <1>4 DEF MachineInv
<1>10. FilterInv
  BY <1>1, <1>6 DEF FilterInv, FiltersSet
<1>11. ModeInv
  BY <1>6 DEF ModeInv
<1>. QED  BY <1>7, <1>8, <1>9, <1>10, <1>11 DEF IInv

----------------------------------------------------------------------------
(* Single calls.                                                           *)

\* What holds in a state of the invariant.
LEMMA Facts ==
  ASSUME IInv
  PROVE  /\ TypeOK /\ StageInv /\ MachineInv /\ BracketInv /\ ResetInv /\ FilterInv
         /\ CalibRestores /\ ModeInv /\ SearchFinds
         /\ ensm \in Ensms /\ call \in Calls /\ Consistent(ensm) /\ Sane(ensm)
         /\ bw \in Bws /\ bw \in Nat /\ CalBw \in Nat \ {0} /\ Bandwidths \subseteq Nat \ {0}
         /\ SetupBw \in Bandwidths
BY BandwidthAssumption DEF IInv, TypeOK, MachineInv, Consistent, Bws

LEMMA CallsBounded ==
  ASSUME TypeOK, Enter
  PROVE  calls' \in 0 .. MaxCalls
BY PhaseAssumption DEF TypeOK, Enter

LEMMA SetModeStep ==
  ASSUME IInv, NEW m \in Modes, SetMode(m)
  PROVE  IInv'
<1> DEFINE asked == SetEnsmMode([ensm EXCEPT !.indep = (m = "pinctrl_fdd_indep")], ensm.fdd)
           s == ModeState(m)
           pin == m = "pinctrl"
           refused == Refused(asked, s)
           r == SetState(asked, s, pin)
<1>0. /\ TypeOK /\ MachineInv /\ FilterInv /\ ensm \in Ensms /\ call.stage = "idle"
      /\ Consistent(ensm) /\ ensm.fdd \in BOOLEAN
  BY Facts, EnsmFields DEF SetMode, Enter, Idle
<1>1. /\ ensm.mode = ensm.fdd
      /\ ensm.clocks \/ ensm.curr = "sleep"
      /\ wantPin => ensm.curr = "wait"
      /\ ensm.curr = "alert" /\ "PinCtrl" \notin ensm.cfg => ensm.state = "alert"
  BY <1>0 DEF MachineInv, Resetting, Idle
<1>2. /\ asked \in Ensms /\ asked.state = ensm.state /\ asked.mode = ensm.fdd
      /\ asked.clocks = ensm.clocks /\ asked.fdd = ensm.fdd /\ asked.curr = ensm.curr
      /\ asked.cfg = ensm.cfg /\ asked.indep = (m = "pinctrl_fdd_indep")
  <2>1. PICK b \in BOOLEAN : b = (m = "pinctrl_fdd_indep")
    <3>1. (m = "pinctrl_fdd_indep") \in BOOLEAN
      OBVIOUS
    <3>. QED  BY <3>1, Zenon
  <2> DEFINE x == [[ensm EXCEPT !.indep = b] EXCEPT !.mode = ensm.fdd]
  <2>2. /\ x \in Ensms /\ x.state = ensm.state /\ x.mode = ensm.fdd
        /\ x.clocks = ensm.clocks /\ x.fdd = ensm.fdd /\ x.curr = ensm.curr
        /\ x.cfg = ensm.cfg /\ x.indep = b
    BY <1>0 DEF Ensms
  <2>3. asked = x
    BY <2>1 DEF SetEnsmMode
  <2> HIDE DEF x, asked
  <2>. QED  BY <2>1, <2>2, <2>3
<1>3. s \in States \cup {"sleep"} /\ pin \in BOOLEAN /\ refused \in BOOLEAN
  BY DEF Modes, ModeState, States, Active, Refused
<1>4. ensm' = r /\ call' = Ended(Called(m, "idle", 0), IF refused THEN "error" ELSE "ok", refused)
      /\ wantPin' = IF refused THEN wantPin ELSE pin
  BY DEF SetMode
<1>5. /\ m = "fdd" => s = "fdd" /\ ~pin
      /\ m = "pinctrl_fdd_indep" => s = "fdd" /\ ~pin
      /\ m \in {"alert", "tx", "rx"} => s = m /\ ~pin
      /\ pin => s = "wait"
  BY DEF ModeState, Modes
<1> HIDE DEF asked, s, pin
<1>6. Consistent(asked)
  <2>1. Fits(asked.state, asked.mode)
    <3>1. asked.mode = ensm.mode /\ asked.state = ensm.state
      BY <1>1, <1>2
    <3>2. Fits(ensm.state, ensm.mode)
      BY <1>0 DEF Consistent
    <3>. QED  BY <3>1, <3>2, Zenon
  <2>. QED  BY <1>0, <1>2, <2>1 DEF Consistent, Sane
<1>7. /\ Consistent(r) /\ r.mode = asked.mode /\ r.fdd = asked.fdd /\ r.indep = asked.indep
      /\ r.clocks \/ r.curr = "sleep"
      /\ refused => r = asked
      /\ ~refused => r.curr = s
      /\ ~refused /\ s # "sleep" /\ ~pin => "PinCtrl" \notin r.cfg
      /\ s = "alert" => r.state = "alert"
      /\ s = "fdd" /\ asked.fdd /\ asked.mode => r.state = "fdd"
      /\ s \in {"tx", "rx"} /\ ~asked.fdd /\ ~asked.mode
                /\ (asked.curr = "alert" => asked.state = "alert") => r.state = s
  BY <1>1, <1>2, <1>3, <1>6, SetStateFields
<1>8. refused => ensm.curr = "alert"
  BY <1>2 DEF Refused
<1> HIDE DEF r, refused
<1>9. /\ call' \in Calls /\ call'.op = m /\ call'.stage = "idle" /\ call'.quad = "none"
      /\ call'.rc = (IF refused THEN "error" ELSE "ok")
      /\ call'.pins # "stray" => "PinCtrl" \notin ensm.cfg \/ wantPin
  <2> DEFINE c == Called(m, "idle", 0)
  <2>1. /\ c \in Calls /\ c.op = m /\ c.stage = "idle" /\ c.quad = "none"
        /\ c.pins # "stray" => "PinCtrl" \notin ensm.cfg \/ wantPin
    BY <1>0, CalledFields, SMTT(60) DEF Ops, Modes, Stages, Bws
  <2> HIDE DEF c
  <2> DEFINE rc == IF refused THEN "error" ELSE "ok"
             d == Ended(c, rc, refused)
  <2>2. /\ d \in Calls /\ d.op = c.op /\ d.stage = "idle" /\ d.before = c.before
        /\ d.pins = c.pins /\ d.quad = c.quad /\ d.rc = rc
    <3>1. rc \in {"ok", "error"}
      OBVIOUS
    <3> HIDE DEF rc
    <3>. QED  BY <1>3, <2>1, <3>1, EndedFields, ZenonT(60)
  <2>3. call' = d
    BY <1>4 DEF c
  <2> HIDE DEF d
  <2>. QED  BY <2>1, <2>2, <2>3
<1>10. TypeOK'
  <2>1. wantPin' \in BOOLEAN
    BY <1>0, <1>3, <1>4 DEF TypeOK
  <2>. QED  BY <1>0, <1>4, <1>7, <1>9, <2>1, CallsBounded
            DEF SetMode, driver, TypeOK, Consistent, Sane
<1>11. StageInv' /\ BracketInv' /\ ResetInv' /\ CalibRestores' /\ SearchFinds'
  BY <1>9 DEF StageInv, BracketInv, Calibrating, ResetInv, Resetting, CalibRestores, SearchFinds,
              Idle, CalOps, Modes
<1>12. MachineInv'
  <2>1. wantPin' => r.curr = "wait"
    BY <1>1, <1>2, <1>4, <1>5, <1>7
  <2>2. r.curr = "alert" /\ "PinCtrl" \notin r.cfg => r.state = "alert"
    BY <1>1, <1>2, <1>7
  <2>. QED  BY <1>2, <1>4, <1>7, <2>1, <2>2 DEF MachineInv
<1>13. FilterInv'
  BY <1>0, <1>9 DEF SetMode, driver, FilterInv, FiltersSet, Idle, Resetting
<1>14. ModeInv'
  <2> SUFFICES ASSUME call'.rc = "ok", call'.pins # "stray",
                      m \in IF ensm'.fdd THEN {"alert", "fdd", "pinctrl_fdd_indep"}
                            ELSE {"alert", "tx", "rx"}
               PROVE  /\ ensm'.state = IF m = "pinctrl_fdd_indep" THEN "fdd" ELSE m
                      /\ ensm'.indep = (m = "pinctrl_fdd_indep")
                      /\ "PinCtrl" \notin ensm'.cfg
    BY <1>9 DEF ModeInv
  <2>1. ~refused /\ s # "sleep" /\ ~pin /\ ensm'.fdd = ensm.fdd
    BY <1>2, <1>4, <1>5, <1>7, <1>9
  <2>2. asked.curr = "alert" => asked.state = "alert"
    BY <1>1, <1>2, <1>9
  <2>. QED  BY <1>2, <1>4, <1>5, <1>7, <2>1, <2>2
<1>. QED  BY <1>10, <1>11, <1>12, <1>13, <1>14 DEF IInv

LEMMA OtherStep ==
  ASSUME IInv, (\E l \in Loops : SetTracking(l)) \/ (\E off \in BOOLEAN : TxLoPower(off))
  PROVE  IInv'
<1>0. TypeOK /\ MachineInv /\ FilterInv /\ call.stage = "idle" /\ ensm' = ensm /\ wantPin' = wantPin
  BY Facts DEF SetTracking, TrackingControl, TxLoPower, Begin, Enter, Idle
<1>1. call' = Called("other", "idle", 0)
  BY DEF SetTracking, TxLoPower, Begin
<1>2. /\ call' \in Calls /\ call'.op = "other" /\ call'.stage = "idle" /\ call'.quad = "none"
  BY <1>0, <1>1, CalledFields DEF Ops, Stages, Bws
<1>3. TypeOK'
  BY <1>0, <1>2, CallsBounded DEF SetTracking, TrackingControl, TxLoPower, Begin, TypeOK
<1>4. StageInv' /\ BracketInv' /\ ResetInv' /\ CalibRestores' /\ SearchFinds' /\ ModeInv'
  BY <1>2 DEF StageInv, BracketInv, Calibrating, ResetInv, Resetting, CalibRestores, SearchFinds,
              ModeInv, Idle, CalOps
<1>5. MachineInv'
  BY <1>0, <1>2 DEF MachineInv, Idle, Resetting
<1>6. FilterInv'
  BY <1>0, <1>2 DEF SetTracking, TrackingControl, TxLoPower, FilterInv, FiltersSet, Idle, Resetting
<1>. QED  BY <1>3, <1>4, <1>5, <1>6 DEF IInv

LEMMA MuxStep ==
  ASSUME IInv, MuxSetParent
  PROVE  IInv'
<1>0. /\ TypeOK /\ MachineInv /\ FilterInv /\ call.stage = "idle" /\ Consistent(ensm) /\ Sane(ensm)
      /\ ensm' = InAlert(ensm) /\ wantPin' = wantPin
  BY Facts DEF MuxSetParent, Begin, Enter, Idle
<1>1. call' = Called("other", "idle", 0)
  BY DEF MuxSetParent, Begin
<1>2. /\ call' \in Calls /\ call'.op = "other" /\ call'.stage = "idle" /\ call'.quad = "none"
  BY <1>0, <1>1, CalledFields DEF Ops, Stages, Bws
<1>3. /\ Consistent(ensm') /\ Same(ensm, ensm')
      /\ ensm.state = "wait" => ensm'.state = IF ensm.clocks THEN "alert" ELSE "wait"
      /\ ensm.state = "alert" => ensm'.state = "alert"
      /\ ensm.state \in Active => ("PinCtrl" \in ensm'.cfg <=> "PinCtrl" \in ensm.cfg)
  BY <1>0, InAlertFields
<1>4. TypeOK'
  BY <1>0, <1>2, <1>3, CallsBounded DEF MuxSetParent, Begin, driver, TypeOK, Consistent, Sane
<1>5. StageInv' /\ BracketInv' /\ ResetInv' /\ CalibRestores' /\ SearchFinds' /\ ModeInv'
  BY <1>2 DEF StageInv, BracketInv, Calibrating, ResetInv, Resetting, CalibRestores, SearchFinds,
              ModeInv, Idle, CalOps
<1>6. MachineInv'
  <2>1. ensm.state \in {"wait", "alert"} \cup Active
    BY <1>0, EnsmFields DEF TypeOK, States
  <2>2. ASSUME ensm.curr = "alert", "PinCtrl" \notin ensm'.cfg PROVE ensm'.state = "alert"
    <3>1. ensm.clocks
      BY <1>0, <2>2 DEF MachineInv, Idle
    <3>2. ensm.state \in {"wait", "alert"}
      BY <1>0, <1>3, <2>1, <2>2 DEF MachineInv, Idle, Active
    <3>. QED  BY <1>3, <3>1, <3>2
  <2>. QED  BY <1>0, <1>2, <1>3, <2>2 DEF MachineInv, Idle, Resetting, Same
<1>7. FilterInv'
  BY <1>0, <1>2 DEF MuxSetParent, driver, FilterInv, FiltersSet, Idle, Resetting
<1>. QED  BY <1>4, <1>5, <1>6, <1>7 DEF IInv

\* The pins act between calls and during them, but not during a reset.
LEMMA PinsStep ==
  ASSUME IInv, Pins
  PROVE  IInv'
<1>0. /\ TypeOK /\ StageInv /\ MachineInv /\ BracketInv /\ ResetInv /\ FilterInv
      /\ CalibRestores /\ ModeInv /\ SearchFinds /\ Consistent(ensm)
  BY Facts
<1>1. /\ Consistent(ensm') /\ Same(ensm, ensm') /\ ensm'.cfg = ensm.cfg
      /\ ensm'.prev = ensm.prev /\ ensm'.pinEn = ensm.pinEn
      /\ "PinCtrl" \in ensm.cfg /\ ensm'.state # "wait" /\ ensm.clocks
  BY <1>0, PinMoveFields DEF Pins
<1>2. UNCHANGED <<wantPin, managed, trackEn, bw, txOff, lastPhase, tracking, filters, txOffReg,
                  stranded, call, calls>>
  BY DEF Pins, driver
<1>3. TypeOK'
  BY <1>0, <1>1, <1>2 DEF TypeOK, Consistent, Sane
<1>4. StageInv' /\ SearchFinds' /\ FilterInv'
  BY <1>0, <1>2 DEF StageInv, SearchFinds, FilterInv, FiltersSet, Idle, Resetting
<1>5. MachineInv'
  BY <1>0, <1>1, <1>2 DEF MachineInv, Idle, Resetting, Same
<1>6. BracketInv'
  BY <1>0, <1>1, <1>2 DEF BracketInv, Calibrating, Idle, Same
<1>7. ResetInv'
  BY <1>0, <1>1, <1>2 DEF ResetInv, Resetting, Idle
<1>8. CalibRestores' /\ ModeInv'
  BY <1>0, <1>1, <1>2 DEF CalibRestores, ModeInv, Idle, Same
<1>. QED  BY <1>3, <1>4, <1>5, <1>6, <1>7, <1>8 DEF IInv

----------------------------------------------------------------------------
(* Calibrations and bandwidths.                                            *)

LEMMA StageFacts ==
  ASSUME TypeOK, StageInv
  PROVE  /\ call.stage \in {"filters", "prepare", "quad", "rfdc", "restore"} =>
                call.op \in CalOps \cup {"bandwidth", "reset"}
         /\ ~Idle => call.op \in CalOps \cup {"bandwidth", "reset"}
BY CallFields DEF TypeOK, StageInv, Stages, Idle, CalOps

\* A stage that moves neither the machine nor the loops, and goes on.
LEMMA GoesOn ==
  ASSUME IInv, call.stage \notin {"idle", "clocks", "tune"},
         UNCHANGED <<ensm, wantPin, tracking>>, call'.op = call.op, call'.before = call.before,
         call'.stage \notin {"idle", "clocks", "synths", "setup"}
  PROVE  MachineInv' /\ BracketInv' /\ ResetInv' /\ CalibRestores' /\ ModeInv'
<1>0. /\ MachineInv /\ BracketInv /\ ResetInv
  BY Facts
<1>1. MachineInv'
  BY <1>0 DEF MachineInv, Idle, Resetting
<1>2. BracketInv'
  BY <1>0 DEF BracketInv, Calibrating, Idle
<1>3. ResetInv'
  BY <1>0 DEF ResetInv, Resetting, Idle
<1>4. CalibRestores' /\ ModeInv'
  BY DEF CalibRestores, ModeInv, Idle
<1>. QED  BY <1>1, <1>2, <1>3, <1>4

\* A stage that moves neither, and fails.
LEMMA Fails ==
  ASSUME IInv, call.stage \in {"filters", "prepare", "quad", "rfdc", "synths", "setup"},
         UNCHANGED <<ensm, wantPin, tracking>>, call' = Failed(call)
  PROVE  /\ StageInv' /\ MachineInv' /\ BracketInv' /\ ResetInv' /\ CalibRestores' /\ ModeInv'
         /\ SearchFinds' /\ call' \in Calls /\ call'.op = call.op
         /\ call'.stage = IF call.op \in CalOps THEN "restore"
                          ELSE IF call.op = "bandwidth" THEN "idle" ELSE "tune"
<1>0. /\ TypeOK /\ StageInv /\ MachineInv /\ BracketInv /\ ResetInv /\ SearchFinds /\ call \in Calls
      /\ Consistent(ensm)
  BY Facts
<1>1. /\ call' \in Calls /\ call'.op = call.op /\ call'.before = call.before
      /\ call'.quad = call.quad
      /\ call.op \in CalOps => call'.stage = "restore"
      /\ call.op = "bandwidth" => call'.stage = "idle" /\ call'.rc = "error"
      /\ call.op \notin CalOps \cup {"bandwidth"} => call'.stage = "tune"
  BY <1>0, FailedFields
<1>2. call.op \in CalOps \cup {"bandwidth", "reset"} /\ ~Idle
  BY <1>0, StageFacts DEF Idle
<1>3. /\ call'.stage = IF call.op \in CalOps THEN "restore"
                       ELSE IF call.op = "bandwidth" THEN "idle" ELSE "tune"
      /\ StageInv' /\ SearchFinds'
  BY <1>0, <1>1, <1>2 DEF StageInv, SearchFinds, CalOps
<1>4. CASE call.op # "bandwidth"
  <2>1. call'.stage \notin {"idle", "clocks", "synths", "setup"}
    BY <1>3, <1>4
  <2>2. MachineInv' /\ BracketInv' /\ ResetInv' /\ CalibRestores' /\ ModeInv'
    BY <1>1, <2>1, GoesOn
  <2>. QED  BY <1>1, <1>3, <2>2
<1>5. CASE call.op = "bandwidth"
  <2>1. call'.stage = "idle" /\ call'.rc = "error" /\ call'.op = "bandwidth" /\ Calibrating
    BY <1>1, <1>2, <1>5 DEF Calibrating
  <2>2. MachineInv'
    <3>1. ensm.state \in {"wait", "alert"} \cup Active
      BY <1>0, EnsmFields DEF TypeOK, States
    <3>2. ensm.curr = "alert" /\ "PinCtrl" \notin ensm.cfg => ensm.state = "alert"
      BY <1>0, <1>5, <2>1, <3>1 DEF MachineInv, BracketInv, StageInv
    <3>. QED  BY <1>0, <1>5, <2>1, <3>2 DEF MachineInv, Idle, Resetting, StageInv
  <2>3. BracketInv' /\ ResetInv' /\ CalibRestores' /\ ModeInv'
    BY <2>1 DEF BracketInv, Calibrating, ResetInv, Resetting, CalibRestores, ModeInv, Idle, CalOps
  <2>. QED  BY <1>1, <1>3, <2>2, <2>3
<1>. QED  BY <1>4, <1>5

\* The bracket opens.
LEMMA BracketOpens ==
  ASSUME IInv, NEW op, NEW stage, NEW band, Begin(op, stage, band), EnterAlert,
         \/ <<op, stage, band>> \in {<<"quad", "prepare", bw>>, <<"rfdc", "rfdc", bw>>,
                                     <<"unknown", "restore", bw>>}
         \/ op = "bandwidth" /\ stage = "filters" /\ band \in Bandwidths
  PROVE  IInv'
<1>0. /\ TypeOK /\ MachineInv /\ FilterInv /\ call.stage = "idle" /\ Consistent(ensm) /\ Sane(ensm)
      /\ bw \in Bws /\ Enter /\ ensm' = ForceState(ensm, "alert") /\ tracking' = {}
      /\ UNCHANGED <<wantPin, managed, trackEn, bw, txOff, lastPhase, filters, txOffReg, stranded>>
  BY Facts DEF Begin, Enter, Idle, EnterAlert, TrackingControl, driver
<1>1. op \in CalOps \cup {"bandwidth"} /\ op \in Ops /\ stage \in Stages /\ band \in Bws
      /\ stage \notin {"idle", "quad", "clocks", "run", "tune", "synths", "setup"}
  BY <1>0 DEF CalOps, Ops, Stages, Bws
<1>2. /\ call' \in Calls /\ call'.op = op /\ call'.stage = stage /\ call'.band = band
      /\ call'.before = ensm.state /\ call'.quad = "none"
  BY <1>0, <1>1, CalledFields DEF Begin
<1>3. /\ Consistent(ensm') /\ Same(ensm, ensm') /\ ensm'.prev = ensm.state
      /\ ensm'.state = IF ensm.clocks THEN "alert" ELSE "wait"
      /\ ensm.state # "alert" => ensm'.pinEn = ("PinCtrl" \in ensm.cfg)
  BY <1>0, ForceAlertFields
<1>4. TypeOK'
  BY <1>0, <1>2, <1>3, CallsBounded DEF TypeOK, Consistent, Sane
<1>5. StageInv' /\ ResetInv' /\ CalibRestores' /\ SearchFinds' /\ ModeInv'
  <2>1. \/ op = "quad" /\ stage = "prepare" /\ band = bw
        \/ op = "rfdc" /\ stage = "rfdc" /\ band = bw
        \/ op = "unknown" /\ stage = "restore" /\ band = bw
        \/ op = "bandwidth" /\ stage = "filters" /\ band \in Bandwidths
    OBVIOUS
  <2>2. StageInv'
    BY <1>0, <1>2, <2>1 DEF StageInv, CalOps
  <2>. QED  BY <1>1, <1>2, <2>1, <2>2 DEF ResetInv, Resetting, CalibRestores, SearchFinds, ModeInv,
            Idle, CalOps
<1>6. MachineInv'
  BY <1>0, <1>1, <1>2, <1>3 DEF MachineInv, Idle, Resetting, Same, CalOps
<1>7. BracketInv'
  <2>1. Fits(ensm.state, ensm'.mode)
    <3>1. ensm'.mode = ensm.mode /\ Fits(ensm.state, ensm.mode)
      BY <1>0, <1>3 DEF Same, Consistent
    <3>. QED  BY <3>1, Zenon
  <2>2. ensm.state # "wait" => ensm'.clocks
    BY <1>0, <1>3 DEF Sane, Same
  <2>3. ensm'.curr = "alert" => ensm.state = "alert" \/ ensm'.pinEn
    BY <1>0, <1>3 DEF MachineInv, Same, Idle
  <2>4. (ensm'.clocks => ensm'.state # "wait") /\ ensm'.state \notin Active
    BY <1>3 DEF Same, Active
  <2>. QED  BY <1>0, <1>2, <1>3, <2>1, <2>2, <2>3, <2>4 DEF BracketInv
<1>8. FilterInv'
  BY <1>0, <1>1, <1>2 DEF FilterInv, FiltersSet, Idle, Resetting, CalOps
<1>. QED  BY <1>4, <1>5, <1>6, <1>7, <1>8 DEF IInv

LEMMA DoCalibStep ==
  ASSUME IInv, NEW cal \in CalOps, DoCalib(cal)
  PROVE  IInv'
<1>1. CASE cal = "quad"
  <2>1. Begin(cal, "prepare", bw) /\ EnterAlert
    BY <1>1 DEF DoCalib
  <2>. QED  BY <1>1, <2>1, BracketOpens
<1>2. CASE cal = "rfdc"
  <2>1. Begin(cal, "rfdc", bw) /\ EnterAlert
    BY <1>2 DEF DoCalib
  <2>. QED  BY <1>2, <2>1, BracketOpens
<1>3. CASE cal = "unknown"
  <2>1. Begin(cal, "restore", bw) /\ EnterAlert
    BY <1>3 DEF DoCalib
  <2>. QED  BY <1>3, <2>1, BracketOpens
<1>. QED  BY <1>1, <1>2, <1>3 DEF CalOps

LEMMA SetBandwidthStep ==
  ASSUME IInv, NEW b \in Bandwidths, SetBandwidth(b)
  PROVE  IInv'
BY BracketOpens DEF SetBandwidth

LEMMA SkipStep ==
  ASSUME IInv, SkipBandwidth
  PROVE  IInv'
<1>0. /\ TypeOK /\ MachineInv /\ FilterInv /\ call.stage = "idle" /\ Enter
      /\ call' = Called("bandwidth", "idle", 0)
      /\ UNCHANGED <<ensm, wantPin, managed, trackEn, bw, txOff, lastPhase, tracking, filters,
                     txOffReg, stranded>>
  BY Facts DEF SkipBandwidth, Begin, Enter, Idle, driver
<1>1. /\ call' \in Calls /\ call'.op = "bandwidth" /\ call'.stage = "idle" /\ call'.quad = "none"
  BY <1>0, CalledFields DEF Ops, Stages, Bws
<1>2. TypeOK'
  BY <1>0, <1>1, CallsBounded DEF TypeOK
<1>3. StageInv' /\ BracketInv' /\ ResetInv' /\ CalibRestores' /\ SearchFinds' /\ ModeInv'
  BY <1>1 DEF StageInv, BracketInv, Calibrating, ResetInv, Resetting, CalibRestores, SearchFinds,
              ModeInv, Idle, CalOps
<1>4. MachineInv'
  BY <1>0, <1>1 DEF MachineInv, Idle, Resetting
<1>5. FilterInv'
  BY <1>0, <1>1 DEF FilterInv, FiltersSet, Idle, Resetting
<1>. QED  BY <1>2, <1>3, <1>4, <1>5 DEF IInv

\* The bandwidths that a filter can have, and what they are not.
LEMMA BandTypes ==
  ASSUME NEW b \in Bws
  PROVE  /\ b \in Bws \cup {CalBw, Detuned} /\ CalBw \in Bws \cup {CalBw, Detuned}
         /\ Detuned \in Bws \cup {CalBw, Detuned}
         /\ b # Detuned /\ CalBw # Detuned /\ b \in Nat /\ CalBw \in Nat \ {0}
BY BandwidthAssumption DEF Bws, Detuned

LEMMA SetFiltersStep ==
  ASSUME IInv, SetFilters
  PROVE  IInv'
<1>0. /\ TypeOK /\ StageInv /\ MachineInv /\ FilterInv /\ SearchFinds /\ call \in Calls
      /\ call.stage = "filters" /\ call.op = "bandwidth" /\ call.band \in Bandwidths
      /\ UNCHANGED <<ensm, wantPin, managed, tracking, trackEn, txOff, txOffReg, lastPhase, calls>>
  BY Facts DEF SetFilters, At, StageInv
<1>1. call.band \in Bws
  BY <1>0 DEF Bws
<1>2. filters' \in [Parts -> Bws \cup {CalBw, Detuned}]
      /\ (Untuned(filters') \/ filters' = All(call.band))
  <2> DEFINE S == Bws \cup {CalBw, Detuned}
  <2>1. filters \in [Parts -> S] /\ call.band \in S /\ call.band # Detuned /\ Detuned \in S
    BY <1>0, <1>1, BandTypes DEF TypeOK
  <2>2. filters' \in Filters(filters, call.band)
    BY DEF SetFilters
  <2> HIDE DEF S
  <2>3. filters' \in [Parts -> S] /\ (Untuned(filters') \/ filters' = All(call.band))
    BY <2>1, <2>2, FiltersResult
  <2>. QED  BY <2>3 DEF S
<1>3. CASE Untuned(filters')
  <2>1. call' = Failed(call) /\ stranded' /\ bw' = bw /\ stranded' \in BOOLEAN
    BY <1>0, <1>3 DEF SetFilters, Fail, CalOps, TypeOK
  <2>2. /\ StageInv' /\ MachineInv' /\ BracketInv' /\ ResetInv' /\ CalibRestores' /\ ModeInv'
        /\ SearchFinds' /\ call' \in Calls /\ call'.op = call.op /\ call'.stage = "idle"
    BY <1>0, <2>1, Fails DEF CalOps
  <2>3. TypeOK'
    BY <1>0, <1>2, <2>1, <2>2 DEF TypeOK
  <2>4. FilterInv'
    BY <1>0, <1>3, <2>1, <2>2 DEF FilterInv, FiltersSet, Idle, Resetting
  <2>. QED  BY <2>2, <2>3, <2>4 DEF IInv
<1>4. CASE ~Untuned(filters')
  <2>1. call' = [call EXCEPT !.stage = "prepare"] /\ bw' = call.band /\ stranded' = stranded
    BY <1>4 DEF SetFilters, Goto
  <2>2. /\ call' \in Calls /\ call'.op = call.op /\ call'.stage = "prepare"
        /\ call'.band = call.band /\ call'.before = call.before /\ call'.quad = call.quad
    BY <1>0, <2>1, AtStage, ZenonT(60) DEF Stages
  <2>3. MachineInv' /\ BracketInv' /\ ResetInv' /\ CalibRestores' /\ ModeInv'
    BY <1>0, <2>2, GoesOn
  <2>4. TypeOK'
    BY <1>0, <1>1, <1>2, <2>1, <2>2 DEF TypeOK
  <2>5. StageInv' /\ SearchFinds'
    BY <1>0, <2>1, <2>2 DEF StageInv, SearchFinds
  <2>6. FilterInv'
    BY <1>0, <1>2, <1>4, <2>1, <2>2 DEF FilterInv, FiltersSet, Idle, Resetting, CalOps
  <2>. QED  BY <2>3, <2>4, <2>5, <2>6 DEF IInv
<1>. QED  BY <1>3, <1>4

\* The transmitter's LO is off and not managed: the calibration fails.
LEMMA QuadRefusedStep ==
  ASSUME IInv, QuadRefused
  PROVE  IInv'
<1>0. /\ TypeOK /\ StageInv /\ FilterInv /\ call \in Calls /\ call.stage = "prepare"
      /\ call.op \in CalOps \cup {"bandwidth", "reset"}
      /\ call' = Failed(call) /\ stranded' = (stranded \/ call.op \notin CalOps)
      /\ UNCHANGED <<ensm, wantPin, managed, tracking, trackEn, bw, txOff, txOffReg, lastPhase,
                     filters, calls>>
  BY Facts, StageFacts DEF QuadRefused, At, Fail, driver
<1>1. /\ StageInv' /\ MachineInv' /\ BracketInv' /\ ResetInv' /\ CalibRestores' /\ ModeInv'
      /\ SearchFinds' /\ call' \in Calls /\ call'.op = call.op
      /\ call'.stage = IF call.op \in CalOps THEN "restore"
                       ELSE IF call.op = "bandwidth" THEN "idle" ELSE "tune"
  BY <1>0, Fails
<1>2. stranded' \in BOOLEAN
  <2>1. call.op \in CalOps \/ call.op \notin CalOps
    OBVIOUS
  <2>. QED  BY <1>0, <2>1 DEF TypeOK
<1>3. TypeOK'
  BY <1>0, <1>1, <1>2 DEF TypeOK
<1>4. FilterInv'
  BY <1>0, <1>1 DEF FilterInv, FiltersSet, Idle, Resetting, CalOps
<1>. QED  BY <1>1, <1>3, <1>4 DEF IInv

LEMMA QuadPrepareStep ==
  ASSUME IInv, QuadPrepare
  PROVE  IInv'
<1>0. /\ TypeOK /\ StageInv /\ FilterInv /\ SearchFinds /\ call \in Calls
      /\ call.stage = "prepare" /\ call.band = bw /\ txOffReg = txOff /\ bw \in Bws
      /\ call.op \in {"quad", "bandwidth", "reset"} /\ ~Aborted
      /\ UNCHANGED <<ensm, wantPin, managed, tracking, trackEn, bw, txOff, lastPhase, calls>>
  BY Facts DEF QuadPrepare, At, driver, StageInv, FilterInv
<1>1. /\ txOff \in BOOLEAN /\ managed \in BOOLEAN /\ (txOff => managed)
      /\ LoBack = txOff /\ LoOn = FALSE /\ bw \in Nat /\ CalBw \in Nat \ {0}
  <2>1. txOff \in BOOLEAN /\ managed \in BOOLEAN /\ (txOff => managed) /\ bw \in Nat
        /\ CalBw \in Nat \ {0}
    BY <1>0, BandTypes DEF TypeOK, Aborted
  <2>2. LoBack = txOff
    BY <1>0 DEF LoBack
  <2>3. CASE txOff
    BY <2>1, <2>2, <2>3 DEF LoOn
  <2>4. CASE ~txOff
    <3>1. LoOn = txOffReg /\ txOffReg = txOff /\ txOff = FALSE
      BY <1>0, <2>1, <2>4 DEF LoOn
    <3>. QED  BY <2>1, <2>2, <3>1
  <2>. QED  BY <2>1, <2>3, <2>4
<1>2. Narrow <=> bw < CalBw
  BY <1>0 DEF Narrow
<1>3. /\ filters' \in [Parts -> Bws \cup {CalBw, Detuned}]
      /\ Narrow => Untuned(filters') \/ filters' = All(CalBw)
      /\ ~Narrow => filters' = filters
  <2> DEFINE S == Bws \cup {CalBw, Detuned}
  <2>1. filters \in [Parts -> S] /\ CalBw \in S /\ CalBw # Detuned /\ Detuned \in S
    BY <1>0, BandTypes DEF TypeOK
  <2>2. CASE Narrow
    <3>1. filters' \in Filters(filters, CalBw)
      BY <2>2 DEF QuadPrepare
    <3> HIDE DEF S
    <3>2. filters' \in [Parts -> S] /\ (Untuned(filters') \/ filters' = All(CalBw))
      BY <2>1, <3>1, FiltersResult
    <3>. QED  BY <2>2, <3>2 DEF S
  <2>3. CASE ~Narrow
    BY <2>1, <2>3 DEF QuadPrepare
  <2>. QED  BY <2>2, <2>3
<1>4. CASE Narrow /\ Untuned(filters')
  <2>1. /\ call' = Failed(call) /\ stranded' = (stranded \/ call.op \notin CalOps)
        /\ txOffReg' = txOff
    BY <1>1, <1>4 DEF QuadPrepare, Fail
  <2>2. /\ StageInv' /\ MachineInv' /\ BracketInv' /\ ResetInv' /\ CalibRestores' /\ ModeInv'
        /\ SearchFinds' /\ call' \in Calls /\ call'.op = call.op
        /\ call'.stage = IF call.op \in CalOps THEN "restore"
                         ELSE IF call.op = "bandwidth" THEN "idle" ELSE "tune"
    BY <1>0, <2>1, Fails
  <2>3. stranded' \in BOOLEAN
    <3>1. call.op \in CalOps \/ call.op \notin CalOps
      OBVIOUS
    <3>. QED  BY <1>0, <2>1, <3>1 DEF TypeOK
  <2>4. TypeOK'
    BY <1>0, <1>1, <1>3, <2>1, <2>2, <2>3 DEF TypeOK
  <2>5. FilterInv'
    BY <1>0, <1>4, <2>1, <2>2 DEF FilterInv, FiltersSet, Idle, Resetting, CalOps
  <2>. QED  BY <2>2, <2>4, <2>5 DEF IInv
<1>5. CASE ~(Narrow /\ Untuned(filters'))
  <2>1. call' = [call EXCEPT !.stage = "quad"] /\ stranded' = stranded /\ txOffReg' = FALSE
    BY <1>1, <1>5 DEF QuadPrepare, Goto
  <2>2. /\ call' \in Calls /\ call'.op = call.op /\ call'.stage = "quad"
        /\ call'.band = call.band /\ call'.before = call.before /\ call'.quad = call.quad
    BY <1>0, <2>1, AtStage, ZenonT(60) DEF Stages
  <2>3. MachineInv' /\ BracketInv' /\ ResetInv' /\ CalibRestores' /\ ModeInv'
    BY <1>0, <2>2, GoesOn
  <2>4. TypeOK'
    BY <1>0, <1>3, <2>1, <2>2 DEF TypeOK
  <2>5. StageInv' /\ SearchFinds'
    BY <1>0, <2>1, <2>2 DEF StageInv, SearchFinds
  <2>6. Untuned(filters') \/ filters' = All(IF bw < CalBw THEN CalBw ELSE bw)
    BY <1>0, <1>1, <1>2, <1>3, <1>5 DEF FilterInv, FiltersSet
  <2>7. FilterInv'
    BY <1>0, <1>1, <2>1, <2>2, <2>6 DEF FilterInv, FiltersSet, Idle, Resetting
  <2>. QED  BY <2>3, <2>4, <2>5, <2>7 DEF IInv
<1>. QED  BY <1>4, <1>5

LEMMA QuadCalibStep ==
  ASSUME IInv, QuadCalib
  PROVE  IInv'
<1>0. /\ TypeOK /\ StageInv /\ FilterInv /\ SearchFinds /\ call \in Calls
      /\ call.stage = "quad" /\ call.band = bw /\ bw \in Bws
      /\ call.op \in {"quad", "bandwidth", "reset"}
      /\ ~txOffReg /\ (txOff => managed)
      /\ Untuned(filters) \/ filters = All(IF bw < CalBw THEN CalBw ELSE bw)
  BY Facts DEF QuadCalib, At, StageInv, FilterInv
<1>1. PICK conv \in SUBSET Phases, p \in Defaults, val \in BOOLEAN,
           slow \in IF ensm.clocks THEN Timeouts ELSE {Runs},
           force \in IF call.op = "quad" THEN BOOLEAN ELSE {FALSE} :
             QuadEnds(QuadRuns(conv, slow, p, val, force), conv = {})
  BY DEF QuadCalib
<1> DEFINE r == QuadRuns(conv, slow, p, val, force)
<1>2. /\ r.phase \in Phases \cup {NoPhase} /\ r.ok \in BOOLEAN /\ r.valid \in BOOLEAN
      /\ r.ok /\ conv # {} => r.valid
  <2>1. slow \in SUBSET Runs /\ force \in BOOLEAN /\ lastPhase \in Phases \cup {NoPhase}
    BY <1>0, PhaseAssumption DEF TypeOK
  <2>. QED  BY <2>1, QuadRunsValid
<1>3. QuadEnds(r, conv = {})
  BY <1>1
<1> HIDE DEF r
<1>4. /\ lastPhase' = r.phase /\ txOffReg' = LoBack
      /\ filters' \in IF Narrow THEN Filters(filters, bw) ELSE {filters}
      /\ UNCHANGED <<ensm, wantPin, managed, tracking, trackEn, bw, txOff>>
      /\ calls' = calls
  BY <1>3 DEF QuadEnds, QuadCalib, At
<1>5. /\ txOff \in BOOLEAN /\ managed \in BOOLEAN /\ LoBack = txOff
      /\ bw \in Nat /\ CalBw \in Nat \ {0}
  <2>1. txOff \in BOOLEAN /\ managed \in BOOLEAN /\ txOffReg \in BOOLEAN /\ bw \in Nat
        /\ CalBw \in Nat \ {0}
    BY <1>0, BandTypes DEF TypeOK
  <2>2. CASE txOff
    BY <1>0, <2>1, <2>2 DEF LoBack
  <2>3. CASE ~txOff
    <3>1. LoBack = txOffReg /\ txOffReg = FALSE /\ txOff = FALSE
      BY <1>0, <2>1, <2>3 DEF LoBack
    <3>. QED  BY <2>1, <3>1
  <2>. QED  BY <2>1, <2>2, <2>3
<1>6. filters' \in [Parts -> Bws \cup {CalBw, Detuned}]
      /\ (Untuned(filters') \/ filters' = All(bw))
  <2> DEFINE S == Bws \cup {CalBw, Detuned}
  <2>1. filters \in [Parts -> S] /\ bw \in S /\ bw # Detuned /\ Detuned \in S
    BY <1>0, BandTypes DEF TypeOK
  <2>2. CASE Narrow
    <3>1. filters' \in Filters(filters, bw)
      BY <1>4, <2>2
    <3> HIDE DEF S
    <3>2. filters' \in [Parts -> S] /\ (Untuned(filters') \/ filters' = All(bw))
      BY <2>1, <3>1, FiltersResult
    <3>. QED  BY <3>2 DEF S
  <2>3. CASE ~Narrow
    <3>1. filters' = filters /\ ~(bw < CalBw)
      BY <1>0, <1>4, <2>3 DEF Narrow
    <3>. QED  BY <1>0, <2>1, <3>1
  <2>. QED  BY <2>2, <2>3
<1>7. CASE r.ok /\ /\ call' = [call EXCEPT !.stage = IF call.op = "reset" THEN "run" ELSE "restore",
                                           !.quad = IF r.valid THEN "valid"
                                                    ELSE IF conv = {} THEN "hopeless" ELSE "missed"]
                   /\ stranded' = stranded
  <2>1. /\ call' \in Calls /\ call'.op = call.op /\ call'.before = call.before
        /\ call'.stage = (IF call.op = "reset" THEN "run" ELSE "restore")
        /\ call'.quad \in {"valid", "hopeless"}
    BY <1>0, <1>2, <1>7 DEF Calls, Stages, Results
  <2>2. call'.stage \notin {"idle", "clocks", "synths", "setup"}
    BY <2>1
  <2>3. MachineInv' /\ BracketInv' /\ ResetInv' /\ CalibRestores' /\ ModeInv'
    BY <1>0, <1>4, <2>1, <2>2, GoesOn
  <2>4. TypeOK'
    BY <1>0, <1>2, <1>4, <1>5, <1>6, <1>7, <2>1 DEF TypeOK
  <2>5. StageInv' /\ SearchFinds'
    BY <1>0, <2>1 DEF StageInv, SearchFinds, CalOps
  <2>6. FilterInv'
    BY <1>4, <1>5, <1>6, <2>1 DEF FilterInv, FiltersSet, Idle, Resetting, CalOps
  <2>. QED  BY <2>3, <2>4, <2>5, <2>6 DEF IInv
<1>8. CASE Fail
  <2>1. call' = Failed(call) /\ stranded' = (stranded \/ call.op \notin CalOps)
    BY <1>8 DEF Fail
  <2>2. /\ StageInv' /\ MachineInv' /\ BracketInv' /\ ResetInv' /\ CalibRestores' /\ ModeInv'
        /\ SearchFinds' /\ call' \in Calls /\ call'.op = call.op
        /\ call'.stage = IF call.op \in CalOps THEN "restore"
                         ELSE IF call.op = "bandwidth" THEN "idle" ELSE "tune"
    BY <1>0, <1>4, <2>1, Fails
  <2>3. stranded' \in BOOLEAN
    <3>1. call.op \in CalOps \/ call.op \notin CalOps
      OBVIOUS
    <3>. QED  BY <1>0, <2>1, <3>1 DEF TypeOK
  <2>4. TypeOK'
    BY <1>0, <1>2, <1>4, <1>5, <1>6, <2>2, <2>3 DEF TypeOK
  <2>5. FilterInv'
    BY <1>0, <1>4, <1>5, <1>6, <2>1, <2>2 DEF FilterInv, FiltersSet, Idle, Resetting, CalOps
  <2>. QED  BY <2>2, <2>4, <2>5 DEF IInv
<1>. QED  BY <1>3, <1>7, <1>8 DEF QuadEnds

LEMMA RfdcStep ==
  ASSUME IInv, RfdcCalib
  PROVE  IInv'
<1>0. /\ TypeOK /\ StageInv /\ FilterInv /\ SearchFinds /\ call \in Calls
      /\ call.stage = "rfdc" /\ call.op = "rfdc"
      /\ UNCHANGED <<ensm, wantPin, managed, tracking, trackEn, bw, txOff, txOffReg, lastPhase,
                     filters, calls>>
  BY Facts DEF RfdcCalib, At, driver, StageInv
<1>1. /\ MachineInv' /\ BracketInv' /\ ResetInv' /\ CalibRestores' /\ ModeInv'
      /\ SearchFinds' /\ call' \in Calls /\ call'.op = "rfdc" /\ call'.stage = "restore"
      /\ stranded' = stranded
  <2>1. CASE Goto("restore")
    <3>1. call' = [call EXCEPT !.stage = "restore"] /\ stranded' = stranded
      BY <2>1 DEF Goto
    <3>2. /\ call' \in Calls /\ call'.op = call.op /\ call'.stage = "restore"
          /\ call'.before = call.before /\ call'.quad = call.quad
      BY <1>0, <3>1, AtStage, ZenonT(60) DEF Stages
    <3>3. MachineInv' /\ BracketInv' /\ ResetInv' /\ CalibRestores' /\ ModeInv'
      BY <1>0, <3>2, GoesOn
    <3>. QED  BY <1>0, <3>1, <3>2, <3>3 DEF SearchFinds
  <2>2. CASE Fail
    <3>1. call' = Failed(call) /\ stranded' = stranded
      BY <1>0, <2>2 DEF Fail, CalOps, TypeOK
    <3>. QED  BY <1>0, <3>1, Fails DEF CalOps
  <2>. QED  BY <2>1, <2>2 DEF RfdcCalib
<1>2. TypeOK'
  BY <1>0, <1>1 DEF TypeOK
<1>3. StageInv' /\ FilterInv'
  BY <1>0, <1>1 DEF StageInv, FilterInv, FiltersSet, Idle, Resetting, CalOps
<1>. QED  BY <1>1, <1>2, <1>3 DEF IInv

\* The bracket closes: the machine is back where it was, the loops are as they were asked for.
LEMMA LeaveAlertStep ==
  ASSUME IInv, LeaveAlert
  PROVE  IInv'
<1>0. /\ TypeOK /\ StageInv /\ MachineInv /\ BracketInv /\ FilterInv /\ SearchFinds
      /\ call \in Calls /\ Consistent(ensm) /\ Sane(ensm) /\ ensm \in Ensms
      /\ call.stage = "restore" /\ call.op \in CalOps \cup {"bandwidth"}
      /\ ensm' = RestorePrev(ensm) /\ call' = Ended(call, "ok", call.failed)
      /\ stranded' = (stranded /\ call.op # "bandwidth") /\ tracking' = trackEn
      /\ UNCHANGED <<wantPin, managed, trackEn, bw, txOff, txOffReg, lastPhase, filters, calls>>
  BY Facts DEF LeaveAlert, TrackingControl, At, Return, driver, StageInv
<1>1. Calibrating /\ ~Resetting /\ ~Idle
  BY <1>0 DEF Calibrating, Resetting, Idle, CalOps
<1>2. /\ ensm.prev = call.before /\ Fits(call.before, ensm.mode)
      /\ call.before # "wait" => ensm.clocks
      /\ ensm.clocks => ensm.state # "wait"
      /\ ensm.state \in Active => "PinCtrl" \in ensm.cfg
      /\ ensm.curr = "alert" =>
               call.before = "alert" \/ "PinCtrl" \in ensm.cfg \/ ensm.pinEn
  BY <1>0, <1>1 DEF BracketInv
<1>3. /\ call' \in Calls /\ call'.op = call.op /\ call'.stage = "idle"
      /\ call'.before = call.before /\ call'.quad = call.quad
  <2>1. call.failed \in BOOLEAN
    BY <1>0, CallFields
  <2>. QED  BY <1>0, <2>1, EndedFields
<1>4. call.before \in {"wait", "alert"} \cup Active /\ ensm.state \in {"wait", "alert"} \cup Active
  BY <1>0, CallFields, EnsmFields DEF States
<1>5. /\ Consistent(ensm') /\ Same(ensm, ensm')
      /\ call.before = "wait" => ensm' = ensm
      /\ call.before # "wait" =>
             /\ ensm'.state = call.before
             /\ "PinCtrl" \in ensm'.cfg <=> "PinCtrl" \in ensm.cfg \/ ensm.pinEn
  <2>1. ensm' = Restore(ensm, call.before)
    BY <1>0, <1>2 DEF RestorePrev
  <2>2. CASE call.before = "wait"
    BY <1>0, <2>1, <2>2 DEF Restore, Same
  <2>3. CASE call.before # "wait"
    <3>1. call.before \in States
      BY <1>4 DEF States
    <3>. QED  BY <1>0, <1>2, <2>1, <2>3, <3>1, RestoreFields
  <2>. QED  BY <2>2, <2>3
<1>6. TypeOK'
  <2>1. stranded' \in BOOLEAN
    BY <1>0 DEF TypeOK
  <2>. QED  BY <1>0, <1>3, <1>5, <2>1 DEF TypeOK, Consistent, Sane
<1>7. StageInv' /\ BracketInv' /\ ResetInv' /\ SearchFinds' /\ ModeInv'
  BY <1>0, <1>3 DEF StageInv, BracketInv, Calibrating, ResetInv, Resetting, SearchFinds, ModeInv,
                    Idle, CalOps
<1>8. MachineInv'
  <2>1. ASSUME ensm'.curr = "alert", "PinCtrl" \notin ensm'.cfg PROVE ensm'.state = "alert"
    <3>1. ensm.curr = "alert" /\ ensm.clocks
      BY <1>0, <1>5, <2>1 DEF MachineInv, Same
    <3>2. CASE call.before = "wait"
      BY <1>2, <1>4, <1>5, <2>1, <3>1, <3>2
    <3>3. CASE call.before # "wait"
      BY <1>2, <1>5, <2>1, <3>1, <3>3
    <3>. QED  BY <3>2, <3>3
  <2>. QED  BY <1>0, <1>1, <1>5, <2>1 DEF MachineInv, Same
<1>9. CalibRestores'
  BY <1>0, <1>3, <1>5 DEF CalibRestores
<1>10. FilterInv'
  <2>1. txOffReg = txOff /\ (FiltersSet \/ bw = 0) /\ FiltersSet' = FiltersSet
    BY <1>0 DEF FilterInv, FiltersSet, Untuned
  <2>2. FiltersSet \/ stranded'
    <3>1. CASE call.op = "bandwidth"
      BY <1>0, <3>1 DEF FilterInv, CalOps
    <3>2. CASE call.op # "bandwidth"
      BY <1>0, <1>1, <3>2 DEF FilterInv
    <3>. QED  BY <3>1, <3>2
  <2>. QED  BY <1>0, <1>3, <2>1, <2>2 DEF FilterInv, Resetting, Idle
<1>. QED  BY <1>6, <1>7, <1>8, <1>9, <1>10 DEF IInv

----------------------------------------------------------------------------
(* The reset.                                                              *)

\* What every step of a reset leaves true: the calls it is not.
LEMMA NotInACall ==
  ASSUME call'.op = "reset", call'.quad # "missed"
  PROVE  BracketInv' /\ CalibRestores' /\ ModeInv' /\ SearchFinds'
BY DEF BracketInv, Calibrating, CalibRestores, ModeInv, SearchFinds, Idle, CalOps

LEMMA ResetStep ==
  ASSUME IInv, Reset
  PROVE  IInv'
<1>0. /\ TypeOK /\ ensm \in Ensms /\ SetupBw \in Bandwidths /\ Enter
      /\ call' = Called("reset", "clocks", SetupBw)
      /\ ensm' = [AfterReset(ensm.fdd) EXCEPT !.indep = ensm.indep]
      /\ wantPin' = FALSE /\ tracking' = {} /\ trackEn' = Loops /\ bw' = 0 /\ filters' = All(0)
      /\ txOff' = FALSE /\ txOffReg' = FALSE
      /\ UNCHANGED <<managed, lastPhase, stranded>>
  BY Facts DEF Reset, Begin
<1>1. /\ call' \in Calls /\ call'.op = "reset" /\ call'.stage = "clocks" /\ call'.quad = "none"
      /\ call'.band = SetupBw
  BY <1>0, CalledFields DEF Ops, Stages, Bws
<1>2. /\ Consistent(ensm') /\ ensm'.curr = "wait" /\ ensm'.state = "wait" /\ ~ensm'.pinEn
      /\ ensm'.cfg = {}
  <2>1. ensm.fdd \in BOOLEAN /\ ensm.indep \in BOOLEAN
    BY <1>0, EnsmFields
  <2>2. /\ ensm' \in Ensms /\ ensm'.curr = "wait" /\ ensm'.state = "wait" /\ ensm'.pinEn = FALSE
        /\ ensm'.cfg = {}
    BY <1>0, <2>1 DEF AfterReset, Ensms, States, Active
  <2>. QED  BY <2>2 DEF Consistent, Sane, Fits
<1>3. TypeOK'
  <2>1. filters' \in [Parts -> Bws \cup {CalBw, Detuned}] /\ bw' \in Bws
    BY <1>0 DEF Bws, All
  <2>. QED  BY <1>0, <1>1, <1>2, <2>1, CallsBounded DEF TypeOK, Consistent, Sane
<1>4. StageInv'
  BY <1>1 DEF StageInv
<1>5. MachineInv' /\ ResetInv'
  BY <1>0, <1>1, <1>2 DEF MachineInv, ResetInv, Resetting, Idle
<1>6. FilterInv'
  BY <1>0, <1>1 DEF FilterInv, FiltersSet, Idle, Resetting
<1>. QED  BY <1>1, <1>3, <1>4, <1>5, <1>6, NotInACall DEF IInv

LEMMA SetupClocksStep ==
  ASSUME IInv, SetupClocks
  PROVE  IInv'
<1>0. /\ TypeOK /\ StageInv /\ MachineInv /\ ResetInv /\ FilterInv /\ SearchFinds /\ call \in Calls
      /\ Consistent(ensm) /\ call.stage = "clocks" /\ call.op = "reset"
      /\ ensm' = [ensm EXCEPT !.clocks = TRUE]
      /\ UNCHANGED <<wantPin, managed, tracking, trackEn, bw, txOff, txOffReg, lastPhase,
                     filters, calls>>
  BY Facts DEF SetupClocks, At, driver, StageInv
<1>1. /\ call' \in Calls /\ call'.op = "reset" /\ call'.quad = call.quad
      /\ call'.stage \in {"synths", "tune"} /\ stranded' \in BOOLEAN
      /\ call'.stage = "tune" => stranded'
      /\ call'.stage = "synths" => call'.band = call.band
  <2>1. CASE Goto("synths")
    <3>1. call' = [call EXCEPT !.stage = "synths"] /\ stranded' = stranded
      BY <2>1 DEF Goto
    <3>. QED  BY <1>0, <3>1, AtStage DEF Stages, TypeOK
  <2>2. CASE Fail
    <3>1. call' = Failed(call) /\ stranded' = TRUE
      BY <1>0, <2>2 DEF Fail, CalOps, TypeOK
    <3>. QED  BY <1>0, <3>1, FailedFields DEF CalOps
  <2>. QED  BY <2>1, <2>2 DEF SetupClocks
<1>2. Consistent(ensm') /\ Same(ensm, [ensm' EXCEPT !.clocks = ensm.clocks])
      /\ ensm'.clocks /\ ensm'.state = ensm.state /\ ensm'.cfg = ensm.cfg
      /\ ensm'.pinEn = ensm.pinEn /\ ensm'.curr = ensm.curr
  BY <1>0 DEF Consistent, Sane, Ensms, Same
<1>3. TypeOK'
  BY <1>0, <1>1, <1>2 DEF TypeOK, Consistent, Sane
<1>4. StageInv' /\ SearchFinds'
  BY <1>0, <1>1 DEF StageInv, SearchFinds
<1>5. MachineInv' /\ ResetInv'
  BY <1>0, <1>1, <1>2 DEF MachineInv, ResetInv, Resetting, Idle
<1>6. FilterInv'
  BY <1>0, <1>1 DEF FilterInv, FiltersSet, Untuned, Idle, Resetting
<1>. QED  BY <1>1, <1>3, <1>4, <1>5, <1>6, NotInACall DEF IInv, SearchFinds

LEMMA SetupSynthsStep ==
  ASSUME IInv, SetupSynths
  PROVE  IInv'
<1>0. /\ TypeOK /\ StageInv /\ MachineInv /\ ResetInv /\ FilterInv /\ SearchFinds /\ call \in Calls
      /\ Consistent(ensm) /\ Sane(ensm) /\ call.stage = "synths" /\ call.op = "reset"
      /\ UNCHANGED <<wantPin, managed, tracking, trackEn, bw, txOff, txOffReg, lastPhase,
                     filters, calls>>
  BY Facts DEF SetupSynths, At, driver, StageInv
<1>1. /\ ensm.clocks /\ ~wantPin /\ ensm.curr = "wait" /\ ~ensm.pinEn
      /\ tracking = {} /\ bw = 0
  BY <1>0 DEF ResetInv, Resetting, Idle
<1> DEFINE c == CpCalib(ensm)
<1>2. /\ Consistent(c) /\ Sane(c) /\ c.clocks /\ c.curr = "wait" /\ ~c.pinEn
      /\ c.state = "alert" /\ "PinCtrl" \notin c.cfg
  <2>1. /\ Consistent(c) /\ Same([ensm EXCEPT !.mode = TRUE], c)
        /\ c.state = IF ensm.clocks THEN "alert" ELSE "wait"
        /\ c.cfg = {"ToAlert", "ForceAlert"} /\ c.pinEn = ensm.pinEn
    BY <1>0, CpCalibFields
  <2>2. LET m == [ensm EXCEPT !.mode = TRUE] IN m.clocks = ensm.clocks /\ m.curr = ensm.curr
    BY <1>0 DEF Sane, Ensms
  <2> HIDE DEF c
  <2>. QED  BY <1>1, <2>1, <2>2 DEF Consistent, Same
<1>3. CASE ensm' \in {ensm, c} /\ Fail
  <2>1. call' = Failed(call) /\ stranded' = TRUE
    BY <1>0, <1>3 DEF Fail, CalOps, TypeOK
  <2>2. CASE ensm' = ensm
    <3>1. /\ StageInv' /\ MachineInv' /\ BracketInv' /\ ResetInv' /\ CalibRestores' /\ ModeInv'
          /\ SearchFinds' /\ call' \in Calls /\ call'.op = "reset" /\ call'.stage = "tune"
      BY <1>0, <2>1, <2>2, Fails DEF CalOps
    <3>2. TypeOK'
      BY <1>0, <2>1, <2>2, <3>1 DEF TypeOK
    <3>3. FilterInv'
      BY <1>0, <2>1, <3>1 DEF FilterInv, FiltersSet, Untuned, Idle, Resetting
    <3>. QED  BY <3>1, <3>2, <3>3 DEF IInv
  <2>3. CASE ensm' = c
    <3>1. call' \in Calls /\ call'.op = "reset" /\ call'.stage = "tune" /\ call'.quad = call.quad
      BY <1>0, <2>1, FailedFields DEF CalOps
    <3> HIDE DEF c
    <3>2. TypeOK'
      BY <1>0, <1>2, <2>1, <2>3, <3>1 DEF TypeOK, Consistent, Sane
    <3>3. StageInv' /\ SearchFinds'
      BY <1>0, <3>1 DEF StageInv, SearchFinds
    <3>4. MachineInv' /\ ResetInv'
      BY <1>0, <1>1, <1>2, <2>3, <3>1 DEF MachineInv, ResetInv, Resetting, Idle
    <3>5. FilterInv'
      BY <1>0, <2>1, <3>1 DEF FilterInv, FiltersSet, Untuned, Idle, Resetting
    <3>. QED  BY <3>1, <3>2, <3>3, <3>4, <3>5, NotInACall DEF IInv, SearchFinds
  <2>. QED  BY <1>3, <2>2, <2>3
<1>4. CASE ensm' = InAlert(InAlert(c)) /\ Goto("setup")
  <2>1. call' = [call EXCEPT !.stage = "setup"] /\ stranded' = stranded
    BY <1>4 DEF Goto
  <2>2. /\ call' \in Calls /\ call'.op = "reset" /\ call'.stage = "setup"
        /\ call'.quad = call.quad /\ call'.band = call.band
    BY <1>0, <2>1, AtStage, ZenonT(60) DEF Stages
  <2> DEFINE a == InAlert(c)
  <2>3. ensm' = InAlert(a)
    BY <1>4
  <2> HIDE DEF c
  <2>4. /\ Consistent(a) /\ Sane(a) /\ Same(c, a) /\ a.state = "alert"
        /\ "PinCtrl" \notin a.cfg /\ ~a.pinEn
    BY <1>2, InAlertFields DEF Consistent
  <2> HIDE DEF a
  <2>5. /\ Consistent(ensm') /\ Same(a, ensm') /\ ensm'.state = "alert"
        /\ "PinCtrl" \notin ensm'.cfg /\ ~ensm'.pinEn
    BY <2>3, <2>4, InAlertFields
  <2>6. TypeOK'
    BY <1>0, <2>1, <2>2, <2>5 DEF TypeOK, Consistent, Sane
  <2>7. StageInv' /\ SearchFinds'
    BY <1>0, <2>2 DEF StageInv, SearchFinds
  <2>8. MachineInv' /\ ResetInv'
    BY <1>0, <1>1, <1>2, <2>2, <2>4, <2>5 DEF MachineInv, ResetInv, Resetting, Idle, Same
  <2>9. FilterInv'
    BY <1>0, <2>1, <2>2 DEF FilterInv, FiltersSet, Untuned, Idle, Resetting
  <2>. QED  BY <2>2, <2>6, <2>7, <2>8, <2>9, NotInACall DEF IInv, SearchFinds
<1>. QED  BY <1>3, <1>4 DEF SetupSynths

LEMMA SetupAnalogStep ==
  ASSUME IInv, SetupAnalog
  PROVE  IInv'
<1>0. /\ TypeOK /\ StageInv /\ ResetInv /\ FilterInv /\ SearchFinds /\ call \in Calls
      /\ call.stage = "setup" /\ call.op = "reset" /\ SetupBw \in Bandwidths
      /\ call.band = SetupBw
      /\ UNCHANGED <<ensm, wantPin, managed, tracking, trackEn, txOff, txOffReg, calls>>
  BY Facts DEF SetupAnalog, At, StageInv
<1>1. SetupBw \in Bws /\ txOffReg = txOff /\ bw = 0
  BY <1>0 DEF Bws, FilterInv, ResetInv, Resetting, Idle
<1>2. /\ filters' \in [Parts -> Bws \cup {CalBw, Detuned}]
      /\ (Untuned(filters') \/ filters' = All(SetupBw))
  <2> DEFINE S == Bws \cup {CalBw, Detuned}
  <2>1. filters \in [Parts -> S] /\ SetupBw \in S /\ SetupBw # Detuned /\ Detuned \in S
    BY <1>0, <1>1, BandTypes DEF TypeOK
  <2>2. filters' \in Filters(filters, SetupBw)
    BY DEF SetupAnalog
  <2> HIDE DEF S
  <2>3. filters' \in [Parts -> S] /\ (Untuned(filters') \/ filters' = All(SetupBw))
    BY <2>1, <2>2, FiltersResult
  <2>. QED  BY <2>3 DEF S
<1>3. CASE UNCHANGED <<bw, lastPhase>> /\ Fail
  <2>1. call' = Failed(call) /\ stranded' = TRUE /\ bw' = bw /\ lastPhase' = lastPhase
    BY <1>0, <1>3 DEF Fail, CalOps, TypeOK
  <2>2. /\ StageInv' /\ MachineInv' /\ BracketInv' /\ ResetInv' /\ CalibRestores' /\ ModeInv'
        /\ SearchFinds' /\ call' \in Calls /\ call'.op = "reset" /\ call'.stage = "tune"
    BY <1>0, <2>1, Fails DEF CalOps
  <2>3. TypeOK'
    BY <1>0, <1>2, <2>1, <2>2 DEF TypeOK
  <2>4. FilterInv'
    BY <1>0, <1>1, <2>1, <2>2 DEF FilterInv, FiltersSet, Idle, Resetting
  <2>. QED  BY <2>2, <2>3, <2>4 DEF IInv
<1>4. CASE ~Untuned(filters') /\ bw' = SetupBw /\ lastPhase' = NoPhase /\ Goto("prepare")
  <2>1. call' = [call EXCEPT !.stage = "prepare"] /\ stranded' = stranded
    BY <1>4 DEF Goto
  <2>2. /\ call' \in Calls /\ call'.op = call.op /\ call'.stage = "prepare"
        /\ call'.band = call.band /\ call'.before = call.before /\ call'.quad = call.quad
    BY <1>0, <2>1, AtStage, ZenonT(60) DEF Stages
  <2>3. MachineInv' /\ BracketInv' /\ ResetInv' /\ CalibRestores' /\ ModeInv'
    BY <1>0, <2>2, GoesOn
  <2>4. TypeOK'
    BY <1>0, <1>1, <1>2, <1>4, <2>1, <2>2 DEF TypeOK
  <2>5. StageInv' /\ SearchFinds'
    BY <1>0, <1>4, <2>2 DEF StageInv, SearchFinds
  <2>6. FilterInv'
    BY <1>0, <1>1, <1>2, <1>4, <2>1, <2>2 DEF FilterInv, FiltersSet, Idle, Resetting, CalOps
  <2>. QED  BY <2>3, <2>4, <2>5, <2>6 DEF IInv
<1>. QED  BY <1>3, <1>4 DEF SetupAnalog

LEMMA SetupRunStep ==
  ASSUME IInv, SetupRun
  PROVE  IInv'
<1>0. /\ TypeOK /\ StageInv /\ MachineInv /\ ResetInv /\ FilterInv /\ SearchFinds /\ call \in Calls
      /\ Consistent(ensm) /\ Sane(ensm) /\ call.stage = "run" /\ call.op = "reset"
      /\ tracking' = trackEn /\ ensm' = Started(ensm) /\ stranded' = FALSE
      /\ call' = [call EXCEPT !.stage = "tune"]
      /\ UNCHANGED <<wantPin, managed, trackEn, bw, txOff, txOffReg, lastPhase, filters, calls>>
  BY Facts DEF SetupRun, TrackingControl, At, driver, StageInv
<1>1. ensm.clocks /\ ~wantPin /\ ensm.state \in {"wait", "alert"}
  BY <1>0 DEF ResetInv, Resetting, Idle
<1>2. /\ Consistent(ensm') /\ ensm'.clocks /\ ensm'.mode = ensm.fdd /\ ensm'.fdd = ensm.fdd
      /\ ensm'.curr \in {"fdd", "rx"} /\ "PinCtrl" \notin ensm'.cfg
  BY <1>0, <1>1, StartedFields
<1>3. call' \in Calls /\ call'.op = "reset" /\ call'.stage = "tune" /\ call'.quad = call.quad
  BY <1>0, AtStage, ZenonT(60) DEF Stages
<1>4. TypeOK'
  BY <1>0, <1>2, <1>3 DEF TypeOK, Consistent, Sane
<1>5. StageInv' /\ SearchFinds'
  BY <1>0, <1>3 DEF StageInv, SearchFinds
<1>6. MachineInv' /\ ResetInv'
  BY <1>0, <1>1, <1>2, <1>3 DEF MachineInv, ResetInv, Resetting, Idle
<1>7. FilterInv'
  BY <1>0, <1>3 DEF FilterInv, FiltersSet, Untuned, Idle, Resetting
<1>. QED  BY <1>3, <1>4, <1>5, <1>6, <1>7, NotInACall DEF IInv, SearchFinds

LEMMA PostSetupStep ==
  ASSUME IInv, PostSetup
  PROVE  IInv'
<1>0. /\ TypeOK /\ StageInv /\ MachineInv /\ ResetInv /\ FilterInv /\ SearchFinds /\ call \in Calls
      /\ Consistent(ensm) /\ Sane(ensm) /\ call.stage = "tune" /\ call.op = "reset"
      /\ ensm' = InAlert(Tuned(ensm)) /\ call' = Ended(call, "ok", call.failed)
      /\ UNCHANGED <<wantPin, managed, tracking, trackEn, bw, txOff, txOffReg, lastPhase, filters,
                     stranded, calls>>
  BY Facts DEF PostSetup, At, Return, driver, StageInv
<1>1. ensm.clocks /\ ~wantPin /\ ensm.curr # "alert"
  BY <1>0 DEF ResetInv, Resetting, Idle
<1>2. /\ Consistent(ensm') /\ ensm'.mode = ensm.fdd /\ ensm'.fdd = ensm.fdd
      /\ ensm'.clocks = ensm.clocks /\ ensm'.curr = ensm.curr
  BY <1>0, PostSetupFields
<1>3. call' \in Calls /\ call'.op = "reset" /\ call'.stage = "idle" /\ call'.quad = call.quad
  <2>1. call.failed \in BOOLEAN
    BY <1>0, CallFields
  <2>. QED  BY <1>0, <2>1, EndedFields
<1>4. TypeOK'
  BY <1>0, <1>2, <1>3 DEF TypeOK, Consistent, Sane
<1>5. StageInv' /\ SearchFinds'
  BY <1>0, <1>3 DEF StageInv, SearchFinds
<1>6. MachineInv' /\ ResetInv'
  BY <1>0, <1>1, <1>2, <1>3 DEF MachineInv, ResetInv, Resetting, Idle
<1>7. FilterInv'
  BY <1>0, <1>3 DEF FilterInv, FiltersSet, Untuned, Idle, Resetting
<1>. QED  BY <1>3, <1>4, <1>5, <1>6, <1>7, NotInACall DEF IInv, SearchFinds

----------------------------------------------------------------------------
(* The theorems.                                                           *)

LEMMA NextStep ==
  ASSUME IInv, [Next]_vars
  PROVE  IInv'
<1>1. CASE \E m \in Modes : SetMode(m)
  BY <1>1, SetModeStep
<1>2. CASE (\E l \in Loops : SetTracking(l)) \/ (\E off \in BOOLEAN : TxLoPower(off))
  BY <1>2, OtherStep
<1>3. CASE MuxSetParent
  BY <1>3, MuxStep
<1>4. CASE Pins
  BY <1>4, PinsStep
<1>5. CASE \E cal \in CalOps : DoCalib(cal)
  BY <1>5, DoCalibStep
<1>6. CASE \E b \in Bandwidths : SetBandwidth(b)
  BY <1>6, SetBandwidthStep
<1>7. CASE SkipBandwidth
  BY <1>7, SkipStep
<1>8. CASE SetFilters
  BY <1>8, SetFiltersStep
<1>9. CASE QuadRefused
  BY <1>9, QuadRefusedStep
<1>10. CASE QuadPrepare
  BY <1>10, QuadPrepareStep
<1>11. CASE QuadCalib
  BY <1>11, QuadCalibStep
<1>12. CASE RfdcCalib
  BY <1>12, RfdcStep
<1>13. CASE LeaveAlert
  BY <1>13, LeaveAlertStep
<1>14. CASE ResetNext
  BY <1>14, ResetStep, SetupClocksStep, SetupSynthsStep, SetupAnalogStep, SetupRunStep,
     PostSetupStep DEF ResetNext
<1>15. CASE UNCHANGED vars
  <2>1. UNCHANGED <<ensm, wantPin, managed, trackEn, bw, txOff, lastPhase, tracking, filters,
                    txOffReg, stranded, call, calls>>
    BY <1>15 DEF vars, driver
  <2>2. /\ TypeOK /\ StageInv /\ MachineInv /\ BracketInv /\ ResetInv /\ FilterInv
        /\ CalibRestores /\ ModeInv /\ SearchFinds
    BY Facts
  <2>3. TypeOK' /\ StageInv' /\ MachineInv'
    BY <2>1, <2>2 DEF TypeOK, StageInv, MachineInv, Idle, Resetting
  <2>4. BracketInv' /\ ResetInv' /\ FilterInv'
    BY <2>1, <2>2 DEF BracketInv, Calibrating, ResetInv, Resetting, FilterInv, FiltersSet, Untuned,
                      Idle
  <2>5. CalibRestores' /\ ModeInv' /\ SearchFinds'
    BY <2>1, <2>2 DEF CalibRestores, ModeInv, SearchFinds, Idle
  <2>. QED  BY <2>3, <2>4, <2>5 DEF IInv
<1>. QED  BY <1>1, <1>2, <1>3, <1>4, <1>5, <1>6, <1>7, <1>8, <1>9, <1>10, <1>11, <1>12, <1>13,
             <1>14, <1>15 DEF Next

\* The invariant holds in every state: whatever the driver is asked for, whatever fails on the
\* way and whatever the pins do meanwhile (all of c/ad9361.c that Radio models).
THEOREM RadioIInv == Spec => []IInv
<1>1. Init => IInv
  BY InitInv
<1>2. IInv /\ [Next]_vars => IInv'
  BY NextStep
<1>. QED  BY <1>1, <1>2, PTL DEF Spec

\* Every variable keeps its type, for any set of bandwidths, loops and phases.
THEOREM RadioTypeOK == Spec => []TypeOK
<1>1. IInv => TypeOK
  BY DEF IInv
<1>. QED  BY <1>1, RadioIInv, PTL

\* No tracking loop runs during a calibration, only the pins leave ALERT meanwhile, and the
\* quadrature calibration has the transmitter's LO on and filters that are wide enough
\* (ad9361_do_calib_run, ad9361_update_rf_bandwidth, ad9361_tx_quad_calib, ad9361_setup).
THEOREM Quiet == Spec => []CalQuiet
<1>1. IInv => CalQuiet
  <2> SUFFICES ASSUME IInv PROVE CalQuiet
    OBVIOUS
  <2>0. /\ TypeOK /\ StageInv /\ BracketInv /\ ResetInv /\ FilterInv /\ bw \in Nat
        /\ CalBw \in Nat \ {0}
    BY Facts
  <2>1. ASSUME call.stage \in {"filters", "prepare", "quad", "rfdc"}
        PROVE  tracking = {} /\ (ensm.state \in Active => "PinCtrl" \in ensm.cfg)
    <3>1. CASE Resetting
      BY <2>0, <2>1, <3>1 DEF ResetInv, Active
    <3>2. CASE ~Resetting
      BY <2>0, <2>1, <3>2 DEF BracketInv, Calibrating, Resetting, Idle
    <3>. QED  BY <3>1, <3>2
  <2>2. ASSUME call.stage = "quad"
        PROVE  ~txOffReg /\ (Untuned(filters) \/ \A p \in Parts : filters[p] >= CalBw)
    <3> DEFINE b == IF bw < CalBw THEN CalBw ELSE bw
    <3>1. ~txOffReg /\ (Untuned(filters) \/ filters = All(b)) /\ b >= CalBw
      BY <2>0, <2>2 DEF FilterInv
    <3> HIDE DEF b
    <3>. QED  BY <3>1 DEF All
  <2>. QED  BY <2>1, <2>2 DEF CalQuiet
<1>. QED  BY <1>1, RadioIInv, PTL

\* After a calibration, even one that failed, the loops run as they were asked for and the
\* machine is where it was, or the pins have it (ad9361_do_calib_run).
THEOREM Restores == Spec => []CalibRestores
<1>1. IInv => CalibRestores
  BY DEF IInv
<1>. QED  BY <1>1, RadioIInv, PTL

\* A mode that ad9361_set_en_state_machine_mode did not refuse is the one that
\* ad9361_get_en_state_machine_mode reads back.
THEOREM Honoured == Spec => []ModeHonoured
<1>1. IInv => ModeHonoured
  <2> SUFFICES ASSUME IInv, Idle, call.rc = "ok", call.pins # "stray",
                      call.op \in IF ensm.fdd THEN {"alert", "fdd", "pinctrl_fdd_indep"}
                                  ELSE {"alert", "tx", "rx"}
               PROVE  GetMode = call.op
    BY DEF ModeHonoured
  <2>0. ModeInv /\ ensm \in Ensms
    BY Facts
  <2>1. /\ ensm.state = IF call.op = "pinctrl_fdd_indep" THEN "fdd" ELSE call.op
        /\ ensm.indep = (call.op = "pinctrl_fdd_indep")
    BY <2>0 DEF ModeInv
  <2>2. CASE call.op = "pinctrl_fdd_indep"
    <3>1. ensm.state = "fdd" /\ ensm.indep
      BY <2>1, <2>2
    <3>. QED  BY <2>2, <3>1 DEF GetMode
  <2>3. CASE call.op = "fdd"
    <3>1. ensm.state = "fdd" /\ ~ensm.indep
      BY <2>1, <2>3
    <3>. QED  BY <2>3, <3>1 DEF GetMode
  <2>4. CASE call.op \in {"alert", "tx", "rx"}
    <3>1. ensm.state = call.op /\ ensm.state \notin {"fdd", "wait"}
      BY <2>1, <2>4
    <3>. QED  BY <3>1 DEF GetMode
  <2>. QED  BY <2>2, <2>3, <2>4
<1>. QED  BY <1>1, RadioIInv, PTL

\* Between calls the chip has the LO power, the bandwidth and the tracking that the driver
\* caches, unless a bandwidth or a setup failed and nothing has set it right since.
THEOREM CachesAgree == Spec => []Agree
<1>1. IInv => Agree
  BY DEF IInv, FilterInv, FiltersSet, Agree, Idle
<1>. QED  BY <1>1, RadioIInv, PTL

\* A quadrature calibration that ends without an error has found a phase that converges, if
\* there is one: the middle of the longest window of ad9361_find_opt, for any number of phases.
THEOREM Finds == Spec => []SearchFinds
<1>1. IInv => SearchFinds
  BY DEF IInv
<1>. QED  BY <1>1, RadioIInv, PTL
=============================================================================

