-------------------------------- MODULE Ensm ---------------------------------
(***************************************************************************)
(* The enable state machine of the AD9361 (ENSM) and the functions of      *)
(* c/ad9361.c that move it: ad9361_ensm_set_state, ad9361_ensm_force_state *)
(* and ad9361_ensm_restore_state.  They are operators on one record, which *)
(* holds the chip's part (state, cfg, mode, clocks) and the driver's (fdd, *)
(* indep, prev, pinEn, curr), so that callers compose them in program      *)
(* order.                                                                  *)
(*                                                                         *)
(* The flush states last microseconds and are left out, as are the bits of *)
(* ENSM_CONFIG_1 that do not move the machine.                             *)
(***************************************************************************)

Active == {"tx", "rx", "fdd"}
States == {"wait", "alert"} \cup Active
Bits == {"ToAlert", "ForceAlert", "ForceTx", "ForceRx", "PinCtrl"}
Forces == {"ForceAlert", "ForceTx", "ForceRx"}

Ensms == [state : States,              \* REG_STATE
          cfg : SUBSET Bits,           \* REG_ENSM_CONFIG_1
          mode : BOOLEAN,              \* REG_ENSM_MODE: FDD_MODE
          clocks : BOOLEAN,            \* REG_CLOCK_ENABLE
          fdd : BOOLEAN,               \* pdata->fdd
          indep : BOOLEAN,             \* pdata->fdd_independent_mode
          prev : States,               \* prev_ensm_state
          pinEn : BOOLEAN,             \* ensm_pin_ctl_en
          curr : States \cup {"sleep"}]  \* curr_ensm_state

Holding(s) == IF s = "rx" THEN "ForceRx" ELSE "ForceTx"

----------------------------------------------------------------------------
(* The chip.                                                               *)

\* Where bits b take the machine from ALERT.
FromAlert(e, b) ==
    CASE "ForceTx" \in b /\ e.mode -> "fdd"
      [] "ForceTx" \in b /\ ~e.mode -> "tx"
      [] "ForceRx" \in b /\ "ForceTx" \notin b /\ ~e.mode -> "rx"
      [] b \cap {"ForceTx", "ForceRx"} \subseteq {"ForceRx"}
         /\ (e.mode \/ "ForceRx" \notin b) ->
             IF b \cap {"ToAlert", "ForceAlert", "PinCtrl"} = {} THEN "wait" ELSE "alert"

\* An active state is kept as long as its bit is set or the pins hold it, and left
\* for ALERT or, without TO_ALERT, for WAIT.  Without clocks nothing moves.
Settled(e, b) ==
    CASE ~e.clocks -> e.state
      [] e.clocks /\ e.state = "wait" ->
             IF b \cap {"ToAlert", "ForceAlert"} = {} THEN "wait" ELSE FromAlert(e, b)
      [] e.clocks /\ e.state = "alert" -> FromAlert(e, b)
      [] e.clocks /\ e.state \in Active ->
             IF "ForceAlert" \in b THEN "alert"
             ELSE IF Holding(e.state) \in b \/ "PinCtrl" \in b THEN e.state
             ELSE IF "ToAlert" \in b THEN "alert" ELSE "wait"

\* ad9361_spi_write(spi, REG_ENSM_CONFIG_1, b)
Write(e, b) == [e EXCEPT !.cfg = b, !.state = Settled(e, b)]

ToAlert(e) == Write(e, {"ToAlert", "ForceAlert"})

----------------------------------------------------------------------------
(* The driver.                                                             *)

Target(s) ==
    CASE s \in {"tx", "fdd"} -> {"ForceTx"}
      [] s = "rx" -> {"ForceRx"}
      [] s = "alert" -> {"ToAlert", "ForceAlert"}
      [] s = "wait" -> {}

\* ad9361_ensm_force_state, for the states the driver forces.  Already there, it leaves
\* ensm_pin_ctl_en as some earlier call set it.
ForceState(e, s) ==
    LET base == (e.cfg \ {"PinCtrl"}) \ (IF e.state # "wait" THEN {"ToAlert"} ELSE {})
        bits == (IF s = "alert" THEN base \ {"ForceTx", "ForceRx"} ELSE base) \cup Target(s)
        saved == [e EXCEPT !.prev = e.state]
    IN  IF e.state = s THEN saved
        ELSE Write(ToAlert([saved EXCEPT !.pinEn = "PinCtrl" \in e.cfg]), bits)

\* Mutant of Restore: the bits of the forced state are kept.
RestoreKeepsForce(e, s) ==
    LET bits == e.cfg \cup {"ToAlert"} \cup (Target(s) \ {"ForceAlert"})
    IN  IF s = "wait" THEN e
        ELSE Write(Write(ToAlert(e), bits), bits \cup IF e.pinEn THEN {"PinCtrl"} ELSE {})

\* ad9361_ensm_restore_state: WAIT is not restored.
Restore(e, s) ==
    LET bits == (e.cfg \ Forces) \cup {"ToAlert"} \cup (Target(s) \ {"ForceAlert"})
    IN  IF s = "wait" THEN e
        ELSE Write(Write(ToAlert(e), bits), bits \cup IF e.pinEn THEN {"PinCtrl"} ELSE {})

\* ad9361_ensm_restore_prev_state
RestorePrev(e) == Restore(e, e.prev)

\* ad9361_set_ensm_mode
SetEnsmMode(e, fdd) == [e EXCEPT !.mode = fdd]

\* ad9361_txrx_synth_cp_calib: FDD and ALERT for the calibration, past the driver's record.
CpCalib(e) == ToAlert(SetEnsmMode(e, TRUE))

\* The transitions that ad9361_ensm_set_state finds illegal...
Illegal(e, s) ==
    \/ s \in {"tx", "rx"} /\ (e.fdd \/ e.curr # "alert")
    \/ s = "fdd" /\ ~e.fdd

\* ... and refuses; from any other state than ALERT it performs them through ALERT.
Refused(e, s) == Illegal(e, s) /\ e.curr = "alert"

\* Leaving SLEEP: the clocks come back before the state is asked for.
Woken(e) == IF e.curr = "sleep" THEN ToAlert([e EXCEPT !.clocks = TRUE]) ELSE e

\* The SLEEP case: to WAIT, then the clocks go off.
Slept(e) ==
    LET flushed == Write(Write(Write(e, {}), Target(IF e.fdd THEN "fdd" ELSE "rx")), {})
    IN  [flushed EXCEPT !.clocks = FALSE, !.curr = "sleep"]

\* Mutant of SetState: TX and RX are asked for directly from one another.
SetStateDirect(e, s, pin) ==
    LET awake == Woken(e)
        bits == {"ToAlert"} \cup Target(s) \cup IF pin THEN {"PinCtrl"} ELSE {}
    IN  CASE s = "sleep" -> Slept(awake)
          [] s # "sleep" /\ Refused(e, s) -> awake
          [] s # "sleep" /\ ~Refused(e, s) -> [Write(awake, bits) EXCEPT !.curr = s]

\* ad9361_ensm_set_state
SetState(e, s, pin) ==
    LET awake == Woken(e)
        ready == IF Illegal(e, s) THEN ToAlert(awake) ELSE awake
        bits == {"ToAlert"} \cup Target(s) \cup IF pin THEN {"PinCtrl"} ELSE {}
    IN  CASE s = "sleep" -> Slept(awake)
          [] s # "sleep" /\ Refused(e, s) -> awake
          [] s # "sleep" /\ ~Refused(e, s) -> [Write(ready, bits) EXCEPT !.curr = s]

\* The bracket of ad9361_clk_mux_set_parent, ad9361_load_fir_filter_coef and the end of
\* ad9361_post_setup.
InAlert(e) == RestorePrev(ForceState(e, "alert"))

\* The registers after a reset; the driver's part is what ad9361_clear_state leaves.
AfterReset(fdd) ==
    [state |-> "wait", cfg |-> {}, mode |-> TRUE, clocks |-> FALSE, fdd |-> fdd,
     indep |-> FALSE, prev |-> "wait", pinEn |-> FALSE, curr |-> "wait"]

\* The end of ad9361_setup: curr_ensm_state is read back, then the radio is started.
Started(e) ==
    LET m == SetEnsmMode(e, e.fdd)
    IN  SetState([m EXCEPT !.curr = m.state], IF e.fdd THEN "fdd" ELSE "rx", FALSE)

\* ad9361_set_intf_delay, clock_changed: the interface is tuned in FDD.
SetIntfDelay(e) == ForceState(ForceState(e, "alert"), "fdd")

\* What ad9361_dig_tune does with the state: FDD for the time of the tuning.
Tuned(e) == Restore(SetEnsmMode(SetIntfDelay(SetEnsmMode(e, TRUE)), e.fdd), e.state)

\* The pins move the machine between ALERT and the active states.
PinMoves(e) ==
    IF "PinCtrl" \in e.cfg /\ e.clocks /\ e.state # "wait"
    THEN {[e EXCEPT !.state = s] :
              s \in {"alert"} \cup IF e.mode THEN {"fdd"} ELSE {"tx", "rx"}} \ {e}
    ELSE {}

----------------------------------------------------------------------------
(* What every one of these functions keeps (module Operators_proofs).      *)

\* A state that the duplex mode has.
Fits(s, mode) == (s \in {"tx", "rx"} => ~mode) /\ (s = "fdd" => mode)

\* Without clocks the machine waits.
Sane(e) == e \in Ensms /\ (~e.clocks => e.state = "wait")
Consistent(e) == Sane(e) /\ Fits(e.state, e.mode)
=============================================================================
