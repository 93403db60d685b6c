-------------------------------- MODULE Dds ----------------------------------
(***************************************************************************)
(* The tone generators of the transmit core and their driver               *)
(* (c/dac_core.c), for a core after version 7.                             *)
(*                                                                         *)
(* A converter adds two tones.  The core takes a tone as a phase increment *)
(* per sample, an initial phase and a scale in sign and magnitude; the     *)
(* driver computes the increment from the sample rate at the moment and    *)
(* caches what was asked for.  A core is a pair of its registers c and of  *)
(* the driver's caches d; it has other fields, which are left alone.       *)
(*                                                                         *)
(* Frequencies and rates are in kHz, phases in degrees, scales in          *)
(* thousandths; the code has Hz, thousandths and millionths.               *)
(***************************************************************************)
EXTENDS Integers

CONSTANT Tones     \* of DDS_CHAN_TX1_I_F1 .. DDS_CHAN_TX2_Q_F2

ASSUME ToneAssumption == Tones \subseteq 0 .. 7 /\ Tones # {}

Steps16 == 65536
Words == 0 .. Steps16 - 1
Unit == 16384                \* 1.0 in sign and magnitude, above it the sign
InPhase(t) == (t \div 2) % 2 = 0     \* of an I channel

ToneRegs == [Tones -> [incr : Words, init : Words, scale : Words]]

Abs(n) == IF n < 0 THEN -n ELSE n
Clamp(s) == IF s > 1000 THEN 1000 ELSE IF s < -1000 THEN -1000 ELSE s

\* The increment in 65535ths of a turn per sample; the lowest bit is always set.
Increment(freq, rate) ==
    LET v == ((freq * 65535) \div rate) % Steps16 IN v + 1 - (v % 2)

\* dds_set_frequency; increment and initial phase are halves of one register.
SetFrequency(x, t, freq, rate) ==
    [x EXCEPT !.d.tone[t].freq = freq, !.c.tone[t].incr = Increment(freq, rate)]

\* dds_set_phase, to the nearest step
SetPhase(x, t, phase) ==
    [x EXCEPT !.d.tone[t].phase = phase,
              !.c.tone[t].init = ((phase * Steps16 + 180) \div 360) % Steps16]

\* Mutant of SetScale: the cache keeps what is out of range.
SetScaleRaw(x, t, scale) ==
    LET s == Clamp(scale) IN
    [x EXCEPT !.d.tone[t].scale = scale,
              !.c.tone[t].scale = (Abs(s) * Unit) \div 1000 + IF s < 0 THEN 2 * Unit ELSE 0]

\* dds_set_scale: what is out of range is clamped, in the cache too.
SetScale(x, t, scale) ==
    LET s == Clamp(scale) IN
    [x EXCEPT !.d.tone[t].scale = s,
              !.c.tone[t].scale = (Abs(s) * Unit) \div 1000 + IF s < 0 THEN 2 * Unit ELSE 0]

\* Every tone of x, set anew with what v gives for it; a tone has registers of its own.
SetAll(x, v, rate) ==
    LET SetOne(t) == SetScale(SetPhase(SetFrequency(x, t, v[t].freq, rate),
                                       t, v[t].phase), t, v[t].scale)
    IN  [x EXCEPT !.c.tone = [t \in Tones |-> SetOne(t).c.tone[t]],
                  !.d.tone = [t \in Tones |-> SetOne(t).d.tone[t]]]

\* dds_update: once more, at the rate of now.
DdsUpdate(x, rate) == SetAll(x, x.d.tone, rate)

\* dds_default_setup: a quarter of full scale at 1 MHz, I and Q in quadrature.
DefaultTones == [t \in Tones |-> [freq |-> 1000, scale |-> 250,
                                  phase |-> IF InPhase(t) THEN 90 ELSE 0]]

\* dac_init: the tones are set if they are selected; a sine is put into memory for the DMA.
DacInit(x, sel, rate) ==
    LET y == IF sel = "dds" THEN SetAll(x, DefaultTones, rate) ELSE x
    IN  [y EXCEPT !.c.source = sel]

----------------------------------------------------------------------------
(* What the core plays, from its registers.                                *)

\* The scale in thousandths, and how far the increment and the phase
\* are from a frequency and a phase, in 1/65535 and 1/65536 turns.
ScaleOf(r) == LET m == ((r.scale % (2 * Unit)) * 1000) \div Unit
              IN  IF r.scale >= 2 * Unit THEN -m ELSE m
FreqError(r, freq, rate) == Abs(r.incr * rate - freq * 65535)
PhaseError(r, phase) == LET e == Abs(r.init * 360 - (phase % 360) * Steps16)
                        IN  IF e > 180 * Steps16 THEN 360 * Steps16 - e ELSE e

\* The tone in registers r is v, at a rate: frequencies to a step, phases to half a step.
Plays(r, v, rate) ==
    /\ 2 * v.freq <= rate => FreqError(r, v.freq, rate) <= rate
    /\ PhaseError(r, v.phase) <= 180
    /\ ScaleOf(r) - v.scale \in -1 .. 1
==============================================================================
