---------------------------- MODULE Link_proofs ----------------------------
(***************************************************************************)
(* Proofs about Link, for every number of delays, eyes, attenuations,      *)
(* rates, filters, chains and tones: what a tuning borrows it gives back,  *)
(* whatever it calls and however it fails, the pattern that it plays is    *)
(* never transmitted, and a tone is what its caches tell.                  *)
(***************************************************************************)
EXTENDS Link, Operators_proofs, SequenceTheorems

----------------------------------------------------------------------------
(* Shapes: the registers, the caches and the steps of a call.              *)

\* What the dividers and the codes of the filters may be.
Dividing(c) == CASE c = "adc" -> {2, 4, 8, 16, 32, 64}
                 [] c \in {"rx", "tx"} -> {0, 1, 2, 3}
                 [] OTHER -> {1, 2, 3}
RegTypes == {r \in [Clocks -> Nat] : \A c \in Clocks : r[c] \in Dividing(c)}
TreeTypes == [bbpll : MinBbpll .. MaxBbpll, reg : RegTypes]

AttenPairs == [1 .. 2 -> 0 .. MaxAtten]
Loaded == {NoChain} \cup {c.chain : c \in Configs}
ScaleRange == -1000 .. 1000
ToneSets == [freq : Nat, phase : Nat, scale : ScaleRange]
ToneSettings == [Tones -> ToneSets]

Chips == [atten : AttenPairs, test : Tests, loop : BOOLEAN, source : Sources,
          pn : {"pn9", "custom"}, delay : [Paths -> Delays], tree : TreeTypes, tone : ToneRegs]
Drvs == [atten : AttenPairs, test : Tests, loop : 0 .. 3, scratch : Sources \ {"pn"},
         delay : [Paths -> Delays], bypass : [Paths -> BOOLEAN],
         factor : [Paths -> Factors \cup {0}], taps : [Paths -> Nat], filt : Loaded,
         gov : 0 .. 1, tone : ToneSettings]

\* The chains that calls ask for and that are calculated.
Calculated == {Calculate(x[1], x[2], x[3], x[4]) :
                   x \in {y \in Nat \X Factors \X Factors \X (0 .. 1) :
                              Calculable(y[1], y[2], y[3], y[4])}}
Chains == {SetupChain} \cup PathClks \cup Loaded \cup Calculated

PlainSteps == {"handler", "txtune", "txend", "tuneend", "firtune", "pathdone", "posted", "settle"}
CallSteps ==
    [op : PlainSteps] \cup [op : {"chain"}, ch : Chains]
    \cup [op : {"tune"}, flags : {{}}, max : {TRUE}]
    \cup [op : {"tune"}, flags : {{"skip"}, {"default"}}, max : {FALSE}]
    \cup [op : {"rate", "ratedone"}, freq : Nat] \cup [op : {"sweep", "choose"}, path : Paths]
    \cup [op : {"firdone"}, paths : SUBSET Paths]
    \cup [op : {"enable"}, paths : SUBSET Paths, on : BOOLEAN]
    \cup [op : {"loadfir"}, config : Configs, chain : Loaded]

TuneFrames == [ensm : Ensms, flags : {{}, {"skip"}, {"default"}}, max : BOOLEAN, atten : AttenPairs,
               loop : 0 .. 3, test : Tests, source : Sources \ {"pn"}, eye : [Paths -> SUBSET Skews]]

Wants == [atten : AttenPairs, source : {"dds", "dma"}, chain : Chains,
          rate : [Tones -> Nat \ {0}]]

Types ==
    /\ chip \in Chips /\ drv \in Drvs /\ ensm \in Ensms
    /\ todo \in Seq(CallSteps)
    /\ frames = <<>> \/ \E f \in TuneFrames : frames = <<f>>
    /\ ret \in {"ok", "error", "eio"} /\ calls \in 0 .. MaxCalls
    /\ want \in Wants

----------------------------------------------------------------------------
(* The inductive invariant.                                                *)

\* Steps that only a tuning takes, and those that its rates take.
Tuning == {"sweep", "choose", "txtune", "txend", "tuneend"}
Clocking == {"rate", "chain", "handler"}

\* From step n on, no tuning is in progress, nor is one to begin before its caller says so.
Outside(n) == \A i \in n .. Len(todo) : todo[i].op \notin Tuning \cup {"tune"}

\* The tuning of the set-up, at all rates, is the next step.
Fresh == Ending("tune") /\ Head(todo).max

Muted == chip.atten = [i \in 1 .. 2 |-> MaxAtten]
OwnSource == chip.source = want.source /\ chip.pn = "pn9"
LoopIs(n) == drv.loop = n /\ chip.loop = (n = 1)
Good(f, p) == Skew(chip.delay[p]) \in f.eye[p]

\* A loopback through the core has put the source aside; the set-up's tuning finds the
\* cache of a loopback whose registers were reset.
SourceInv ==
    /\ chip.pn = "pn9"
    /\ chip.source = IF chip.source = "adc" THEN "adc" ELSE want.source
    /\ chip.source = "adc" => drv.scratch = want.source
    /\ ~Fresh /\ drv.loop \in {0, 1} => chip.source # "adc" /\ LoopIs(drv.loop)

\* The receiver's part of a tuning whose end is step n.
RxPart(n) ==
    /\ \A i \in 1 .. n - 2 : todo[i].op \in Clocking \cup {"sweep"}
    /\ todo[n - 1] = Choose("rx")
    /\ OwnSource /\ LoopIs(0)

\* The transmitter's, before and after its registers are set.
TxPart(f, n) ==
    /\ todo[n - 1] = Step("txend") /\ Good(f, "rx")
    /\ \A i \in 1 .. n - 3 :
           \/ todo[i].op \in Clocking \/ todo[i] = Sweep("tx")
           \/ i = 1 /\ todo[i] = Step("txtune")
    /\ n > 2 => todo[n - 2] = Choose("tx")
    /\ todo[1].op = "txtune" => n > 3 /\ OwnSource /\ LoopIs(0)
    /\ todo[1].op # "txtune" =>
           chip.source = "pn" /\ f.source = want.source /\ LoopIs(1)
    /\ n = 2 => ret = "eio" \/ Good(f, "tx")

EndPart(f) ==
    /\ OwnSource /\ (LoopIs(0) \/ LoopIs(1))
    /\ ret = "eio" \/ \A p \in Paths : Good(f, p)

\* A tuning whose locals are f, and whose end is step n.
TuneInv(f, n) ==
    /\ todo[n] = Step("tuneend") /\ Outside(n + 1)
    /\ \A i \in 1 .. n - 1 : todo[i].op \notin {"tune", "tuneend"}
    /\ IF f.max THEN f.flags = {} /\ ~FirActive
       ELSE \A i \in 1 .. n - 1 : todo[i].op \notin Clocking
    /\ IF "default" \in f.flags THEN n = 1 /\ ret = "ok" /\ SourceInv
       ELSE /\ Muted /\ drv.atten = f.atten
            /\ \/ n > 1 /\ RxPart(n)
               \/ n > 1 /\ TxPart(f, n)
               \/ n = 1 /\ EndPart(f)

\* The steps of a call, outside of a tuning and inside of one.
CallInv ==
    IF frames = <<>>
    THEN /\ Outside(2) /\ (todo # <<>> => todo[1].op \notin Tuning)
         /\ SourceInv /\ (Fresh => ~FirActive)
    ELSE \E n \in 1 .. Len(todo) : TuneInv(Frame, n)

\* A tone is the one of its caches (TonesKept), whatever the clocks have become.
IInv == Types /\ CallInv /\ TonesKept

----------------------------------------------------------------------------
(* The state machine and the clocks keep their types.                      *)

LEMMA WriteType ==
  ASSUME NEW e \in Ensms, NEW b \in SUBSET Bits
  PROVE  Write(e, b) \in Ensms
BY WriteFields

LEMMA ToAlertType ==
  ASSUME NEW e \in Ensms
  PROVE  ToAlert(e) \in Ensms
BY WriteType DEF ToAlert, Bits

LEMMA ForceType ==
  ASSUME NEW e \in Ensms, NEW s \in {"alert", "fdd"}
  PROVE  ForceState(e, s) \in Ensms
<1> DEFINE base == (e.cfg \ {"PinCtrl"}) \ (IF e.state # "wait" THEN {"ToAlert"} ELSE {})
           bits == (IF s = "alert" THEN base \ {"ForceTx", "ForceRx"} ELSE base) \cup Target(s)
           saved == [e EXCEPT !.prev = e.state]
           pinned == [saved EXCEPT !.pinEn = "PinCtrl" \in e.cfg]
<1>1. saved \in Ensms /\ pinned \in Ensms
  <2>1. e.state \in States
    BY EnsmFields
  <2>2. saved \in Ensms
    BY <2>1, SMT DEF Ensms
  <2> HIDE DEF saved
  <2>3. pinned \in Ensms
    <3> DEFINE b == "PinCtrl" \in e.cfg
    <3>1. b \in BOOLEAN
      OBVIOUS
    <3> HIDE DEF b
    <3>2. [saved EXCEPT !.pinEn = b] \in Ensms
      BY <2>2, <3>1, SMT DEF Ensms
    <3>. QED  BY <3>2 DEF b
  <2>. QED  BY <2>2, <2>3
<1>2. bits \in SUBSET Bits
  <2>1. base \in SUBSET Bits
    BY EnsmFields
  <2>2. Target(s) \in SUBSET Bits
    BY TargetType DEF States, Active
  <2>. QED  BY <2>1, <2>2
<1>3. ForceState(e, s) = IF e.state = s THEN saved ELSE Write(ToAlert(pinned), bits)
  BY DEF ForceState
<1> HIDE DEF base, bits, saved, pinned
<1>. QED  BY <1>1, <1>2, <1>3, ToAlertType, WriteType

LEMMA RestoreType ==
  ASSUME NEW e \in Ensms, NEW s \in States
  PROVE  Restore(e, s) \in Ensms
<1> DEFINE bits == (e.cfg \ Forces) \cup {"ToAlert"} \cup (Target(s) \ {"ForceAlert"})
           more == bits \cup IF e.pinEn THEN {"PinCtrl"} ELSE {}
<1>1. bits \in SUBSET Bits /\ more \in SUBSET Bits
  <2>1. Target(s) \in SUBSET Bits /\ e.cfg \in SUBSET Bits
    BY TargetType, EnsmFields
  <2>. QED  BY <2>1 DEF Bits
<1>2. Restore(e, s) = IF s = "wait" THEN e ELSE Write(Write(ToAlert(e), bits), more)
  BY DEF Restore
<1> HIDE DEF bits, more
<1>. QED  BY <1>1, <1>2, ToAlertType, WriteType

LEMMA ModeType ==
  ASSUME NEW e \in Ensms, NEW fdd \in BOOLEAN
  PROVE  SetEnsmMode(e, fdd) \in Ensms
BY DEF SetEnsmMode, Ensms

LEMMA InAlertType ==
  ASSUME NEW e \in Ensms
  PROVE  InAlert(e) \in Ensms
<1>1. ForceState(e, "alert") \in Ensms
  BY ForceType
<1>. QED  BY <1>1, RestoreType, EnsmFields DEF InAlert, RestorePrev

LEMMA IntfDelayType ==
  ASSUME NEW e \in Ensms
  PROVE  SetIntfDelay(e) \in Ensms
<1>1. ForceState(e, "alert") \in Ensms
  BY ForceType
<1>. QED  BY <1>1, ForceType DEF SetIntfDelay

LEMMA SetStateType ==
  ASSUME NEW e \in Ensms, NEW s \in States \cup {"sleep"}
  PROVE  SetState(e, s, FALSE) \in Ensms
<1> DEFINE awake == Woken(e)
           ready == IF Illegal(e, s) THEN ToAlert(awake) ELSE awake
           bits == {"ToAlert"} \cup Target(s)
<1>1. awake \in Ensms
  <2>1. [e EXCEPT !.clocks = TRUE] \in Ensms
    BY DEF Ensms
  <2>. QED  BY <2>1, ToAlertType DEF Woken
<1>2. ready \in Ensms
  BY <1>1, ToAlertType
<1>3. SetState(e, s, FALSE) =
          CASE s = "sleep" -> Slept(awake)
            [] s # "sleep" /\ Refused(e, s) -> awake
            [] s # "sleep" /\ ~Refused(e, s) -> [Write(ready, bits) EXCEPT !.curr = s]
  <2>1. bits \cup (IF FALSE THEN {"PinCtrl"} ELSE {}) = bits
    OBVIOUS
  <2>. QED  BY <2>1 DEF SetState
<1> HIDE DEF awake, ready
<1>4. CASE s = "sleep"
  <2> DEFINE b == Target(IF awake.fdd THEN "fdd" ELSE "rx")
             f == Write(Write(Write(awake, {}), b), {})
  <2>1. b \in SUBSET Bits /\ {} \in SUBSET Bits
    BY TargetType DEF States, Active
  <2>2. f \in Ensms
    <3> HIDE DEF b
    <3>. QED  BY <1>1, <2>1, WriteType
  <2>3. Slept(awake) = [f EXCEPT !.clocks = FALSE, !.curr = "sleep"]
    BY DEF Slept
  <2> HIDE DEF f
  <2>4. [f EXCEPT !.clocks = FALSE, !.curr = "sleep"] \in Ensms
    BY <2>2 DEF Ensms
  <2>. QED  BY <1>3, <1>4, <2>3, <2>4
<1>5. CASE s # "sleep" /\ Refused(e, s)
  BY <1>1, <1>3, <1>5
<1>6. CASE s # "sleep" /\ ~Refused(e, s)
  <2>1. bits \in SUBSET Bits
    BY <1>6, TargetType DEF Bits
  <2>2. Write(ready, bits) \in Ensms
    BY <1>2, <2>1, WriteType
  <2>3. [Write(ready, bits) EXCEPT !.curr = s] \in Ensms
    BY <2>2 DEF Ensms
  <2>. QED  BY <1>3, <1>6, <2>3
<1>. QED  BY <1>4, <1>5, <1>6

\* What ad9361_setup makes of the machine after a reset.
LEMMA ReadyType ==
  ASSUME NEW fdd \in BOOLEAN, NEW done
  PROVE  Ready(fdd, done) \in Ensms
<1> DEFINE reset == [AfterReset(fdd) EXCEPT !.clocks = TRUE]
<1>1. reset \in Ensms
  BY DEF AfterReset, Ensms, States, Bits
<1>2. Woke(fdd) \in Ensms
  <2>1. SetEnsmMode(reset, TRUE) \in Ensms
    BY <1>1, ModeType
  <2>2. Woke(fdd) = ToAlert(SetEnsmMode(reset, TRUE))
    BY DEF Woke, CpCalib
  <2>. QED  BY <2>1, <2>2, ToAlertType
<1> DEFINE e == InAlert(InAlert(Woke(fdd)))
<1>3. e \in Ensms
  BY <1>2, InAlertType
<1> HIDE DEF e
<1>4. Started(e) \in Ensms
  <2> DEFINE m == SetEnsmMode(e, e.fdd)
             n == [m EXCEPT !.curr = m.state]
  <2>1. m \in Ensms
    BY <1>3, EnsmFields, ModeType
  <2>2. n \in Ensms
    <3> HIDE DEF m
    <3>. QED  BY <2>1, EnsmFields DEF Ensms
  <2>3. Started(e) = SetState(n, IF e.fdd THEN "fdd" ELSE "rx", FALSE)
    BY DEF Started
  <2> HIDE DEF n
  <2>. QED  BY <2>2, <2>3, SetStateType DEF States, Active
<1>5. Ready(fdd, done) = IF done = "all" THEN Started(e) ELSE Woke(fdd)
  BY DEF Ready, e
<1>. QED  BY <1>2, <1>4, <1>5

----------------------------------------------------------------------------
(* The tree of the clocks.                                                 *)

LEMMA ClockNames ==
  /\ Clocks = {"adc", "r2", "r1", "clkrf", "rx", "dac", "t2", "t1", "clktf", "tx"}
  /\ \A i \in 1 .. 5 : RxClocks[i] \in Clocks /\ TxClocks[i] \in Clocks
  /\ RxClocks = <<"adc", "r2", "r1", "clkrf", "rx">>
  /\ TxClocks = <<"dac", "t2", "t1", "clktf", "tx">>
BY DEF Clocks, RxClocks, TxClocks, ToSet

\* Powers of two as far as the dividers go.
LEMMA Powers ==
  /\ 2^0 = 1 /\ 2^1 = 2 /\ 2^2 = 4 /\ 2^3 = 8 /\ 2^4 = 16 /\ 2^5 = 32 /\ 2^6 = 64 /\ 2^7 = 128
OBVIOUS

LEMMA PowerOf ==
  ASSUME NEW k \in 0 .. 6
  PROVE  /\ k = 0 => 2^k = 1
         /\ k = 1 => 2^k = 2
         /\ k = 2 => 2^k = 4
         /\ k = 3 => 2^k = 8
         /\ k = 4 => 2^k = 16
         /\ k = 5 => 2^k = 32
         /\ k = 6 => 2^k = 64
<1>1. k = 0 => 2^k = 1
  BY Powers
<1>2. k = 1 => 2^k = 2
  BY Powers
<1>3. k = 2 => 2^k = 4
  BY Powers
<1>4. k = 3 => 2^k = 8
  BY Powers
<1>5. k = 4 => 2^k = 16
  BY Powers
<1>6. k = 5 => 2^k = 32
  BY Powers
<1>7. k = 6 => 2^k = 64
  BY Powers
<1>. QED  BY <1>1, <1>2, <1>3, <1>4, <1>5, <1>6, <1>7

LEMMA LogFacts ==
  ASSUME NEW d \in 1 .. 127
  PROVE  /\ Log(d) \in 0 .. 6 /\ 2^Log(d) <= d /\ d < 2^(Log(d) + 1)
         /\ 2^Log(d) \in {1, 2, 4, 8, 16, 32, 64}
<1> DEFINE P(k) == 2^k <= d /\ d < 2^(k + 1)
<1>1. \E k \in 0 .. 6 : P(k)
  <2>1. CASE d < 2
    <3>1. P(0)
      BY <2>1, Powers
    <3>. QED  BY <3>1
  <2>2. CASE 2 <= d /\ d < 4
    <3>1. P(1)
      BY <2>2, Powers
    <3>. QED  BY <3>1
  <2>3. CASE 4 <= d /\ d < 8
    <3>1. P(2)
      BY <2>3, Powers
    <3>. QED  BY <3>1
  <2>4. CASE 8 <= d /\ d < 16
    <3>1. P(3)
      BY <2>4, Powers
    <3>. QED  BY <3>1
  <2>5. CASE 16 <= d /\ d < 32
    <3>1. P(4)
      BY <2>5, Powers
    <3>. QED  BY <3>1
  <2>6. CASE 32 <= d /\ d < 64
    <3>1. P(5)
      BY <2>6, Powers
    <3>. QED  BY <3>1
  <2>7. CASE 64 <= d
    <3>1. P(6)
      BY <2>7, Powers
    <3>. QED  BY <3>1
  <2>. QED  BY <2>1, <2>2, <2>3, <2>4, <2>5, <2>6, <2>7
<1>2. Log(d) = CHOOSE k \in 0 .. 6 : P(k)
  BY DEF Log
<1>3. Log(d) \in 0 .. 6 /\ P(Log(d))
  <2> HIDE DEF P
  <2>. QED  BY <1>1, <1>2
<1>4. 2^Log(d) \in {1, 2, 4, 8, 16, 32, 64}
  <2> DEFINE k == Log(d)
  <2>1. k \in 0 .. 6
    BY <1>3
  <2> HIDE DEF k
  <2>2. 2^k \in {1, 2, 4, 8, 16, 32, 64}
    <3>1. k = 0 \/ k = 1 \/ k = 2 \/ k = 3 \/ k = 4 \/ k = 5 \/ k = 6
      BY <2>1
    <3>. QED  BY <2>1, <3>1, PowerOf
  <2>. QED  BY <2>2 DEF k
<1>. QED  BY <1>3, <1>4

\* The code of a divider that a clock accepts.
LEMMA CodeFacts ==
  ASSUME NEW c \in Clocks, NEW d \in Accepted(c), NEW bypass \in [Paths -> BOOLEAN]
  PROVE  Code(c, d, bypass) \in Dividing(c) /\ Code(c, d, bypass) \in Nat
<1>1. CASE c = "adc"
  <2>1. d \in 2 .. 127
    BY <1>1 DEF Accepted
  <2> DEFINE k == Log(d)
  <2>7. k \in 0 .. 6 /\ d < 2^(k + 1)
    BY <2>1, LogFacts
  <2> HIDE DEF k
  <2>8. k # 0
    <3>1. k = 0 => 2^(k + 1) = 2
      BY Powers
    <3>. QED  BY <2>1, <2>7, <3>1
  <2>2. 2^Log(d) # 1
    <3>1. 2^k # 1
      <4>1. k = 1 \/ k = 2 \/ k = 3 \/ k = 4 \/ k = 5 \/ k = 6
        BY <2>7, <2>8
      <4>2. /\ (k = 1 => 2^k = 2) /\ (k = 2 => 2^k = 4) /\ (k = 3 => 2^k = 8)
            /\ (k = 4 => 2^k = 16) /\ (k = 5 => 2^k = 32) /\ (k = 6 => 2^k = 64)
        BY Powers
      <4>. QED  BY <4>1, <4>2
    <3>. QED  BY <3>1 DEF k
  <2>3. Code(c, d, bypass) = 2^Log(d)
    BY <1>1 DEF Code
  <2>4. 2^Log(d) \in {1, 2, 4, 8, 16, 32, 64}
    BY <2>1, LogFacts
  <2>5. Code(c, d, bypass) \in {2, 4, 8, 16, 32, 64}
    BY <2>2, <2>3, <2>4
  <2>6. Dividing(c) = {2, 4, 8, 16, 32, 64}
    BY <1>1 DEF Dividing
  <2>. QED  BY <2>5, <2>6
<1>2. CASE c \in {"rx", "tx"}
  <2>1. d \in {1, 2, 4}
    BY <1>2 DEF Accepted
  <2>2. Log(d) \in 0 .. 2
    <3> DEFINE k == Log(d)
    <3>1. k \in 0 .. 6 /\ 2^k <= d
      BY <2>1, LogFacts
    <3> HIDE DEF k
    <3>2. k \in 0 .. 2
      <4>1. k = 0 \/ k = 1 \/ k = 2 \/ k = 3 \/ k = 4 \/ k = 5 \/ k = 6
        BY <3>1
      <4>2. k \notin {3, 4, 5, 6}
        <5>1. /\ (k = 3 => 2^k = 8) /\ (k = 4 => 2^k = 16)
              /\ (k = 5 => 2^k = 32) /\ (k = 6 => 2^k = 64)
          BY Powers
        <5>. QED  BY <2>1, <3>1, <5>1
      <4>. QED  BY <4>1, <4>2
    <3>. QED  BY <3>2 DEF k
  <2>3. Code(c, d, bypass) = IF bypass[c] THEN 0 ELSE Log(d) + 1
    BY <1>2 DEF Code
  <2>4. Dividing(c) = {0, 1, 2, 3}
    BY <1>2 DEF Dividing
  <2>. QED  BY <2>2, <2>3, <2>4
<1>3. CASE c \notin {"adc", "rx", "tx"}
  <2>1. Code(c, d, bypass) = d
    BY <1>3 DEF Code
  <2>2. d \in {1, 2, 3}
    BY <1>3, ClockNames DEF Accepted
  <2>3. Dividing(c) = {1, 2, 3}
    BY <1>3 DEF Dividing
  <2>. QED  BY <2>1, <2>2, <2>3
<1>. QED  BY <1>1, <1>2, <1>3

LEMMA DivideType ==
  ASSUME NEW r \in RegTypes, NEW c \in Clocks, NEW v \in Dividing(c), v \in Nat
  PROVE  [r EXCEPT ![c] = v] \in RegTypes
BY DEF RegTypes

\* Whatever rate is asked for, a clock's divider stays one that the clock has.
LEMMA SetRateType ==
  ASSUME NEW t \in TreeTypes, NEW c \in Clocks, NEW r, NEW bypass \in [Paths -> BOOLEAN]
  PROVE  SetRate(t, c, r, bypass) \in TreeTypes
<1> DEFINE d == Rounded(Parent(t, c), r)
<1>1. \/ SetRate(t, c, r, bypass) = t
      \/ d \in Accepted(c) /\ SetRate(t, c, r, bypass) = [t EXCEPT !.reg[c] = Code(c, d, bypass)]
  BY DEF SetRate
<1> HIDE DEF d
<1>2. ASSUME d \in Accepted(c)
      PROVE  [t EXCEPT !.reg[c] = Code(c, d, bypass)] \in TreeTypes
  <2> DEFINE v == Code(c, d, bypass)
  <2>1. v \in Dividing(c) /\ v \in Nat
    BY <1>2, CodeFacts
  <2> HIDE DEF v
  <2>2. t.reg \in RegTypes
    BY DEF TreeTypes
  <2>3. [t EXCEPT !.reg[c] = v] = [t EXCEPT !.reg = [t.reg EXCEPT ![c] = v]]
    BY DEF TreeTypes
  <2>4. [t.reg EXCEPT ![c] = v] \in RegTypes
    BY <2>1, <2>2, DivideType
  <2> DEFINE g == [t.reg EXCEPT ![c] = v]
  <2> HIDE DEF g
  <2>5. [t EXCEPT !.reg = g] \in TreeTypes
    BY <2>4 DEF TreeTypes, g
  <2>. QED  BY <2>3, <2>5 DEF g, v
<1>. QED  BY <1>1, <1>2

LEMMA SetTreeType ==
  ASSUME NEW t \in TreeTypes, NEW ch, ch.bbpll \in Int,
         NEW bypass \in [Paths -> BOOLEAN], NEW factor
  PROVE  SetTree(t, ch, bypass, factor) \in TreeTypes
<1> DEFINE Pair(u, i) == SetPair(u, i, ch, bypass)
           set == SetClocks(t, ch, bypass)
           Reg(c) == IF c \in {"rx", "tx"} /\ (bypass[c] \/ factor[c] = 1)
                     THEN IF bypass[c] THEN 0 ELSE 1
                     ELSE set.reg[c]
<1>1. ASSUME NEW u \in TreeTypes, NEW i \in 1 .. 5
      PROVE  Pair(u, i) \in TreeTypes
  <2>1. SetRate(u, RxClocks[i], ch.rx[i], bypass) \in TreeTypes
    BY SetRateType, ClockNames
  <2>. QED  BY <2>1, SetRateType, ClockNames DEF SetPair
<1>2. SetBbpll(t, ch.bbpll) \in TreeTypes
  <2> DEFINE r == ch.bbpll
             v == IF r > MaxBbpll THEN MaxBbpll ELSE IF r < MinBbpll THEN MinBbpll ELSE r
  <2>1. v \in MinBbpll .. MaxBbpll
    <3>1. r \in Int
      OBVIOUS
    <3> HIDE DEF r
    <3>2. MinBbpll \in Int /\ MaxBbpll \in Int /\ MinBbpll <= MaxBbpll
      BY SMT DEF MinBbpll, MaxBbpll
    <3>3. CASE r > MaxBbpll
      BY <3>1, <3>2, <3>3
    <3>4. CASE r < MinBbpll
      BY <3>1, <3>2, <3>4
    <3>5. CASE MinBbpll <= r /\ r <= MaxBbpll
      BY <3>1, <3>2, <3>5
    <3>. QED  BY <3>1, <3>2, <3>3, <3>4, <3>5
  <2>2. SetBbpll(t, ch.bbpll) = [t EXCEPT !.bbpll = v]
    BY SMT DEF SetBbpll
  <2> HIDE DEF v
  <2>. QED  BY <2>1, <2>2, SMT DEF TreeTypes
<1>3. SetTree(t, ch, bypass, factor) = [set EXCEPT !.reg = [c \in Clocks |-> Reg(c)]]
  BY DEF SetTree
<1>8. set = Pair(Pair(Pair(Pair(Pair(SetBbpll(t, ch.bbpll), 1), 2), 3), 4), 5)
  BY DEF SetClocks
<1> HIDE DEF Pair
<1>4. set \in TreeTypes
  <2>1. Pair(SetBbpll(t, ch.bbpll), 1) \in TreeTypes
    BY <1>1, <1>2
  <2>2. Pair(Pair(SetBbpll(t, ch.bbpll), 1), 2) \in TreeTypes
    BY <1>1, <2>1
  <2>3. Pair(Pair(Pair(SetBbpll(t, ch.bbpll), 1), 2), 3) \in TreeTypes
    BY <1>1, <2>2
  <2>4. Pair(Pair(Pair(Pair(SetBbpll(t, ch.bbpll), 1), 2), 3), 4) \in TreeTypes
    BY <1>1, <2>3
  <2>. QED  BY <1>1, <1>8, <2>4
<1> HIDE DEF set
<1>5. ASSUME NEW c \in Clocks PROVE Reg(c) \in Dividing(c) /\ Reg(c) \in Nat
  <2>1. set.reg[c] \in Dividing(c) /\ set.reg[c] \in Nat
    <3>1. set.reg \in RegTypes
      BY <1>4 DEF TreeTypes
    <3>. QED  BY <3>1 DEF RegTypes
  <2>2. c \in {"rx", "tx"} => Dividing(c) = {0, 1, 2, 3}
    BY DEF Dividing
  <2>. QED  BY <2>1, <2>2
<1> HIDE DEF Reg
<1> DEFINE g == [c \in Clocks |-> Reg(c)]
<1>6. g \in RegTypes
  BY <1>5 DEF RegTypes
<1> HIDE DEF g
<1>7. [set EXCEPT !.reg = g] \in TreeTypes
  BY <1>4, <1>6 DEF TreeTypes
<1>. QED  BY <1>3, <1>7 DEF g
\* What a divider leaves of a rate.
LEMMA Quotient ==
  ASSUME NEW a \in Nat, NEW d \in Nat \ {0}
  PROVE  /\ a \div d \in Nat /\ (a \div d) * d <= a /\ a < (a \div d) * d + d
         /\ a >= d => a \div d >= 1
<1> DEFINE q == a \div d
<1>1. q \in Int /\ q * d <= a /\ a < q * d + d
  BY SMT
<1>2. q >= 0
  BY <1>1, SMT
<1>3. a >= d => q >= 1
  BY <1>1, <1>2, SMT
<1>. QED  BY <1>1, <1>2, <1>3

LEMMA Divided ==
  ASSUME NEW a \in Nat, NEW d \in Nat \ {0}, NEW m \in Nat, NEW k \in Nat, d <= k, a >= m * k
  PROVE  a \div d \in Nat /\ a \div d >= m
<1> DEFINE q == a \div d
<1>1. q \in Nat /\ a < q * d + d
  BY Quotient
<1> HIDE DEF q
<1>2. ASSUME q < m PROVE FALSE
  <2>1. q + 1 <= m
    BY <1>1, <1>2
  <2>2. (q + 1) * d <= m * d
    BY <1>1, <2>1, SMT
  <2>3. m * d <= m * k
    BY SMT
  <2>4. (q + 1) * d = q * d + d
    BY <1>1, SMT
  <2>. QED  BY <1>1, <2>2, <2>3, <2>4, SMT
<1>3. q \in Nat /\ q >= m
  BY <1>1, <1>2
<1>. QED  BY <1>3 DEF q

LEMMA BbpllLimits ==
  MinBbpll \in Nat /\ MaxBbpll \in Nat /\ MinBbpll <= MaxBbpll /\ MinBbpll >= 700000
BY SMT DEF MinBbpll, MaxBbpll

LEMMA DivFacts ==
  ASSUME NEW t \in TreeTypes, NEW c \in Clocks
  PROVE  /\ Div(t, c) \in Nat \ {0}
         /\ Div(t, c) <= IF c = "adc" THEN 64 ELSE IF c \in {"rx", "tx"} THEN 4 ELSE 3
<1> DEFINE n == t.reg[c]
<1>1. n \in Dividing(c) /\ n \in Nat
  BY DEF TreeTypes, RegTypes
<1>2. CASE c = "adc"
  <2>1. Div(t, c) = n
    BY <1>2 DEF Div
  <2>2. n \in {2, 4, 8, 16, 32, 64}
    BY <1>1, <1>2 DEF Dividing
  <2>. QED  BY <1>2, <2>1, <2>2
<1>3. CASE c \in {"rx", "tx"}
  <2>1. Div(t, c) = IF n = 0 THEN 1 ELSE 2^(n - 1)
    BY <1>3 DEF Div
  <2>2. n = 0 \/ n = 1 \/ n = 2 \/ n = 3
    BY <1>1, <1>3 DEF Dividing
  <2> HIDE DEF n
  <2> DEFINE k == n - 1
  <2>3. /\ (n = 1 => k = 0) /\ (n = 2 => k = 1) /\ (n = 3 => k = 2)
    OBVIOUS
  <2>5. Div(t, c) = IF n = 0 THEN 1 ELSE 2^k
    BY <2>1
  <2> HIDE DEF k
  <2>6. /\ (k = 0 => 2^k = 1) /\ (k = 1 => 2^k = 2) /\ (k = 2 => 2^k = 4)
    BY Powers
  <2>4. Div(t, c) \in {1, 2, 4}
    BY <2>2, <2>3, <2>5, <2>6
  <2>. QED  BY <1>3, <2>4
<1>4. CASE c \notin {"adc", "rx", "tx"}
  <2>1. Div(t, c) = n
    BY <1>4 DEF Div
  <2>2. n \in {1, 2, 3}
    BY <1>1, <1>4 DEF Dividing
  <2>. QED  BY <1>4, <2>1, <2>2
<1>. QED  BY <1>2, <1>3, <1>4

\* However the dividers are set, the transmitter's sample clock runs.
LEMMA TxRateFacts ==
  ASSUME NEW t \in TreeTypes
  PROVE  Rate(t, "tx") \in Nat \ {0}
<1> DEFINE D(c) == Div(t, c)
           a == t.bbpll \div D("adc")
           b == a \div D("dac")
           second == b \div D("t2")
           third == second \div D("t1")
           fourth == third \div D("clktf")
           last == fourth \div D("tx")
<1>1. /\ D("adc") \in Nat \ {0} /\ D("adc") <= 64
      /\ D("dac") \in Nat \ {0} /\ D("dac") <= 3 /\ D("t2") \in Nat \ {0} /\ D("t2") <= 3
      /\ D("t1") \in Nat \ {0} /\ D("t1") <= 3 /\ D("clktf") \in Nat \ {0} /\ D("clktf") <= 3
      /\ D("tx") \in Nat \ {0} /\ D("tx") <= 4
  BY DivFacts, ClockNames
<1>2. t.bbpll \in Nat /\ t.bbpll >= 700000
  BY BbpllLimits, SMT DEF TreeTypes
<1>3. Rate(t, "tx") = last
  <2>1. Rate(t, "tx") = TxRates(t)[Stage(TxClocks, "tx")]
    BY DEF Rate, RxClocks, ToSet
  <2>2. Stage(TxClocks, "tx") = 5
    BY DEF Stage, TxClocks
  <2>3. /\ TxClocks[2] = "t2" /\ TxClocks[3] = "t1" /\ TxClocks[4] = "clktf"
        /\ TxClocks[5] = "tx"
    BY DEF TxClocks
  <2>4. TxRates(t) = <<b, second, third, fourth, last>>
    BY <2>3 DEF TxRates, AdcRate, Down
  <2> HIDE DEF last
  <2>. QED  BY <2>1, <2>2, <2>4
<1> HIDE DEF D
<1>4. a \in Nat /\ a >= 10000
  <2>1. 10000 * 64 <= t.bbpll
    BY <1>2, SMT
  <2>. QED  BY <1>1, <1>2, <2>1, Divided, SMT
<1> HIDE DEF a
<1>5. b \in Nat /\ b >= 3000
  BY <1>1, <1>4, Divided, SMT
<1> HIDE DEF b
<1>6. second \in Nat /\ second >= 900
  BY <1>1, <1>5, Divided, SMT
<1> HIDE DEF second
<1>7. third \in Nat /\ third >= 300
  BY <1>1, <1>6, Divided, SMT
<1> HIDE DEF third
<1>8. fourth \in Nat /\ fourth >= 100
  BY <1>1, <1>7, Divided, SMT
<1> HIDE DEF fourth
<1>9. last \in Nat /\ last >= 20
  BY <1>1, <1>8, Divided, SMT
<1>. QED  BY <1>3, <1>9, SMT

LEMMA ResetTreeType == ResetTree \in TreeTypes
<1> DEFINE Reg(c) == IF c = "adc" THEN 2 ELSE IF c \in {"rx", "tx"} THEN 0 ELSE 1
           g == [c \in Clocks |-> Reg(c)]
<1>1. ASSUME NEW c \in Clocks PROVE Reg(c) \in Dividing(c) /\ Reg(c) \in Nat
  BY DEF Dividing
<1> HIDE DEF Reg
<1>2. g \in RegTypes
  BY <1>1 DEF RegTypes
<1>3. ResetTree = [bbpll |-> MinBbpll, reg |-> g]
  BY DEF ResetTree, Reg
<1> HIDE DEF g
<1>4. MinBbpll \in MinBbpll .. MaxBbpll
  BY BbpllLimits, SMT
<1>. QED  BY <1>2, <1>3, <1>4 DEF TreeTypes

\* A pass of the search that finds rows has a converter rate in range.
LEMMA AttemptFacts ==
  ASSUME NEW f \in Nat, NEW dec \in Factors, NEW int \in Factors, NEW gov \in 0 .. 6,
         Suits(Attempt(f, dec, int, gov))
  PROVE  Attempt(f, dec, int, gov).adc \in MinAdc .. MaxAdc
<1> DEFINE Fitting(i) == f * dec * Whole(i) \in MinAdc .. MaxAdc
           i == CHOOSE i \in gov .. 6 : Fitting(i) /\ \A j \in gov .. i - 1 : ~Fitting(j)
           adc == f * dec * Whole(i)
           dac == f * int * Whole(i)
           ratio == IF dac > adc THEN -(dac \div adc) ELSE adc \div dac
           shift == IF ratio = 1 THEN 0 ELSE ratio
           low == [rx |-> i, tx |-> i - shift, adc |-> adc, dac |-> adc]
           high == [rx |-> i, adc |-> adc, dac |-> adc \div 2,
                    tx |-> IF i = 4 /\ ratio >= 0 THEN 7
                           ELSE i + (IF i = 5 /\ ratio >= 0 THEN 1 ELSE 2) - shift]
<1>1. Attempt(f, dec, int, gov) =
          IF \A j \in gov .. 6 : ~Fitting(j) THEN NoRows ELSE IF adc <= MaxDac THEN low ELSE high
  BY DEF Attempt
<1>2. low.adc = adc /\ high.adc = adc
  <2> HIDE DEF adc, dac, ratio, shift, i
  <2>. QED  OBVIOUS
<1>3. NoRows.rx \notin Rows
  BY DEF NoRows, Rows
<1> HIDE DEF low, high
<1>4. ~ \A j \in gov .. 6 : ~Fitting(j)
  BY <1>1, <1>3 DEF Suits
<1>5. \E k \in gov .. 6 : Fitting(k) /\ \A j \in gov .. k - 1 : ~Fitting(j)
  <2> DEFINE T == {k \in gov .. 6 : Fitting(k)}
  <2>1. T \in SUBSET Nat /\ T # {}
    BY <1>4
  <2>2. PICK k \in T : \A y \in T : k <= y
    BY <2>1, LeastNat
  <2>3. ASSUME NEW j \in gov .. k - 1, Fitting(j) PROVE FALSE
    <3>1. k \in gov .. 6 /\ j \in gov .. 6 /\ j < k
      OBVIOUS
    <3> HIDE DEF Fitting
    <3>2. j \in T
      BY <2>3, <3>1
    <3>. QED  BY <2>2, <3>1, <3>2
  <2> HIDE DEF Fitting
  <2>4. k \in gov .. 6 /\ Fitting(k)
    OBVIOUS
  <2>. QED  BY <2>3, <2>4
<1>6. Fitting(i)
  <2> HIDE DEF Fitting
  <2>. QED  BY <1>5
<1>7. Attempt(f, dec, int, gov).adc = adc
  BY <1>1, <1>2, <1>4
<1> HIDE DEF i
<1>. QED  BY <1>6, <1>7

LEMMA AdcLimits ==
  MinAdc \in Nat /\ MaxAdc \in Nat /\ MaxAdc <= 640000
BY SMT DEF MinAdc, MaxAdc

LEMMA BbpllType ==
  ASSUME NEW adc \in MinAdc .. MaxAdc
  PROVE  Bbpll(adc) \in Int
<1> DEFINE Over(n) == adc * 2^n > MaxBbpll
           Highest(n) == ~Over(n) /\ \A m \in n + 1 .. 6 : Over(m)
           k == CHOOSE n \in 1 .. 6 : Highest(n)
<1>0. adc \in Nat /\ adc <= 640000
  BY AdcLimits, SMT
<1>1. ~Over(1)
  <2>1. adc * 2 <= 1430000
    BY <1>0, SMT
  <2>2. 2^1 = 2
    BY Powers
  <2>3. MaxBbpll = 1430000
    BY DEF MaxBbpll
  <2>. QED  BY <1>0, <2>1, <2>2, <2>3, SMT
<1> HIDE DEF Over
<1>2. \E n \in 1 .. 6 : Highest(n)
  <2>1. CASE ~Over(6)
    <3>1. Highest(6)
      BY <2>1
    <3>. QED  BY <3>1
  <2>2. CASE Over(6) /\ ~Over(5)
    <3>1. Highest(5)
      BY <2>2
    <3>. QED  BY <3>1
  <2>3. CASE Over(6) /\ Over(5) /\ ~Over(4)
    <3>1. Highest(4)
      BY <2>3
    <3>. QED  BY <3>1
  <2>4. CASE Over(6) /\ Over(5) /\ Over(4) /\ ~Over(3)
    <3>1. Highest(3)
      BY <2>4
    <3>. QED  BY <3>1
  <2>5. CASE Over(6) /\ Over(5) /\ Over(4) /\ Over(3) /\ ~Over(2)
    <3>1. Highest(2)
      BY <2>5
    <3>. QED  BY <3>1
  <2>6. CASE Over(6) /\ Over(5) /\ Over(4) /\ Over(3) /\ Over(2)
    <3>1. Highest(1)
      BY <1>1, <2>6
    <3>. QED  BY <3>1
  <2>. QED  BY <2>1, <2>2, <2>3, <2>4, <2>5, <2>6
<1>3. k \in 1 .. 6
  <2> HIDE DEF Highest
  <2>. QED  BY <1>2
<1>4. Bbpll(adc) = adc * 2^k
  BY DEF Bbpll, Over
<1> HIDE DEF k
<1>5. 2^k \in Nat
  <2>1. k = 1 \/ k = 2 \/ k = 3 \/ k = 4 \/ k = 5 \/ k = 6
    BY <1>3
  <2>2. /\ (k = 1 => 2^k = 2) /\ (k = 2 => 2^k = 4) /\ (k = 3 => 2^k = 8)
        /\ (k = 4 => 2^k = 16) /\ (k = 5 => 2^k = 32) /\ (k = 6 => 2^k = 64)
    BY Powers
  <2>. QED  BY <2>1, <2>2
<1> DEFINE w == 2^k
<1> HIDE DEF w
<1>6. adc * w \in Int
  BY <1>0, <1>5 DEF w
<1>. QED  BY <1>4, <1>6 DEF w

\* A chain that is calculated has a rate for the PLL.
LEMMA CalculateType ==
  ASSUME NEW f \in Nat, NEW dec \in Factors, NEW int \in Factors, NEW gov \in 0 .. 1,
         Calculable(f, dec, int, gov)
  PROVE  Calculate(f, dec, int, gov).bbpll \in Int
<1> DEFINE T == Tries(f, dec, int, gov)
           g == CHOOSE g \in T : \A h \in T : g <= h
<1>1. T \in SUBSET (0 .. 6) /\ T # {}
  BY DEF Calculable, Tries, Passes
<1>2. \A h \in T : Suits(Attempt(f, dec, int, h))
  BY DEF Tries
<1>3. Calculate(f, dec, int, gov).bbpll = Bbpll(Attempt(f, dec, int, g).adc)
  BY DEF Calculate
<1> HIDE DEF T
<1>4. g \in T
  <2>1. \E k \in T : \A h \in T : k <= h
    BY <1>1, LeastNat
  <2>. QED  BY <2>1
<1> HIDE DEF g
<1>5. Attempt(f, dec, int, g).adc \in MinAdc .. MaxAdc
  BY <1>1, <1>2, <1>4, AttemptFacts
<1>. QED  BY <1>3, <1>5, BbpllType

LEMMA ChainPll ==
  ASSUME NEW ch \in Chains
  PROVE  ch.bbpll \in Int
<1>1. CASE ch \in Calculated
  <2>1. PICK x \in Nat \X Factors \X Factors \X (0 .. 1) :
            Calculable(x[1], x[2], x[3], x[4]) /\ ch = Calculate(x[1], x[2], x[3], x[4])
    BY <1>1 DEF Calculated
  <2>2. x[1] \in Nat /\ x[2] \in Factors /\ x[3] \in Factors /\ x[4] \in 0 .. 1
    OBVIOUS
  <2>. QED  BY <2>1, <2>2, CalculateType
<1>2. CASE ch = NoChain
  BY <1>2 DEF NoChain
<1>3. CASE ch \in {SetupChain} \cup PathClks \cup {c.chain : c \in Configs}
  BY <1>3, LinkAssumption
<1>. QED  BY <1>1, <1>2, <1>3 DEF Chains, Loaded

LEMMA CalculatedChain ==
  ASSUME NEW f \in Nat, NEW dec \in Factors, NEW int \in Factors, NEW gov \in 0 .. 1,
         Calculable(f, dec, int, gov)
  PROVE  Calculate(f, dec, int, gov) \in Chains
<1> DEFINE x == <<f, dec, int, gov>>
<1>1. x \in Nat \X Factors \X Factors \X (0 .. 1)
  OBVIOUS
<1>2. x[1] = f /\ x[2] = dec /\ x[3] = int /\ x[4] = gov
  OBVIOUS
<1> HIDE DEF x
<1>3. Calculate(f, dec, int, gov) = Calculate(x[1], x[2], x[3], x[4])
      /\ Calculable(x[1], x[2], x[3], x[4])
  BY <1>2
<1>. QED  BY <1>1, <1>3 DEF Calculated, Chains

----------------------------------------------------------------------------
(* A tone is what its caches tell.                                         *)

LEMMA WordFacts ==
  /\ Steps16 \in Nat /\ Steps16 = 65536
  /\ \A x \in Nat : x < Steps16 => x \in Words
  /\ \A x \in Words : x \in Nat
<1>1. Steps16 \in Nat /\ Steps16 = 65536
  BY DEF Steps16
<1>2. ASSUME NEW x \in Nat, x < Steps16, Steps16 \in Nat PROVE x \in Words
  BY <1>2, SMT DEF Words
<1>3. ASSUME NEW x \in Words PROVE x \in Nat
  BY DEF Words
<1>. QED  BY <1>1, <1>2, <1>3

LEMMA IncrementFacts ==
  ASSUME NEW freq \in Nat, NEW rate \in Nat \ {0}
  PROVE  /\ Increment(freq, rate) \in Words
         /\ 2 * freq <= rate => Abs(Increment(freq, rate) * rate - freq * 65535) <= rate
<1> DEFINE n == freq * 65535
           q == n \div rate
           v == q % Steps16
           incr == v + 1 - (v % 2)
<1>1. n \in Nat /\ q \in Nat /\ q * rate <= n /\ n < q * rate + rate
  <2>1. n \in Nat
    BY SMT
  <2> HIDE DEF n
  <2>. QED  BY <2>1, Quotient
<1>2. v \in Nat /\ v < Steps16 /\ (q <= 65535 => v = q)
  <2> HIDE DEF q
  <2>. QED  BY <1>1, SMT DEF Steps16
<1>3. Increment(freq, rate) = incr
  BY SMT DEF Increment
<1>4. incr \in Words /\ incr \in v .. v + 1
  <2> HIDE DEF v
  <2>1. incr \in Nat /\ incr \in v .. v + 1
    BY <1>2, SMT
  <2>2. incr < Steps16
    BY <1>2, SMT DEF Steps16
  <2> HIDE DEF incr
  <2>. QED  BY <2>1, <2>2, WordFacts
<1>5. ASSUME 2 * freq <= rate
      PROVE  Abs(incr * rate - n) <= rate
  <2> HIDE DEF incr, v
  <2>1. 2 * n <= 65535 * rate
    BY <1>5, SMT
  <2> HIDE DEF n
  <2>2. q <= 65535
    <3> HIDE DEF q
    <3>1. ASSUME q > 65535 PROVE FALSE
      <4>1. q * rate >= 65536 * rate
        BY <1>1, <3>1, SMT
      <4>. QED  BY <1>1, <2>1, <4>1, SMT
    <3>. QED  BY <1>1, <3>1
  <2> HIDE DEF q
  <2>3. incr = q \/ incr = q + 1
    BY <1>1, <1>2, <1>4, <2>2
  <2>4. (q + 1) * rate = q * rate + rate
    BY <1>1, SMT
  <2>5. CASE incr = q
    <3>1. incr * rate = q * rate
      BY <2>5
    <3> DEFINE m == q * rate
    <3>2. m \in Int
      BY <1>1, SMT
    <3> HIDE DEF m
    <3>. QED  BY <1>1, <3>1, <3>2, SMT DEF Abs, m
  <2>6. CASE incr = q + 1
    <3>1. incr * rate = q * rate + rate
      BY <2>4, <2>6
    <3> DEFINE m == q * rate
    <3>2. m \in Int
      BY <1>1, SMT
    <3> HIDE DEF m
    <3>. QED  BY <1>1, <3>1, <3>2, SMT DEF Abs, m
  <2>. QED  BY <2>3, <2>5, <2>6
<1>. QED  BY <1>3, <1>4, <1>5

LEMMA PhaseFacts ==
  ASSUME NEW phase \in Nat
  PROVE  LET init == ((phase * Steps16 + 180) \div 360) % Steps16
         IN  init \in Words /\ Abs(init * 360 - (phase % 360) * Steps16) <= 180
<1> DEFINE b == phase % 360
           a == phase \div 360
           s == (b * 65536 + 180) \div 360
           init == ((phase * Steps16 + 180) \div 360) % Steps16
<1>1. a \in Nat /\ b \in 0 .. 359 /\ phase = 360 * a + b
  BY SMT
<1>2. /\ s \in Nat /\ s < 65536
      /\ s * 360 <= b * 65536 + 180 /\ b * 65536 + 180 < s * 360 + 360
  <2> HIDE DEF a, b
  <2>. QED  BY <1>1, SMT
<1>3. init = s
  <2> HIDE DEF a, b
  <2>1. phase * Steps16 + 180 = 360 * (65536 * a) + (b * 65536 + 180)
    BY <1>1, SMT DEF Steps16
  <2> DEFINE w == b * 65536 + 180
             u == 65536 * a
  <2>2. w \in Nat /\ u \in Nat
    BY <1>1, SMT
  <2>3. s = w \div 360
    OBVIOUS
  <2> HIDE DEF w, s
  <2>4. (360 * u + w) \div 360 = u + s
    <3> HIDE DEF u
    <3>. QED  BY <2>2, <2>3, SMT
  <2>5. (u + s) % 65536 = s
    BY <1>1, <1>2, SMT
  <2>. QED  BY <2>1, <2>4, <2>5 DEF Steps16, u, w
<1> HIDE DEF init, s
<1>4. Abs(s * 360 - b * 65536) <= 180
  <2> HIDE DEF b
  <2>. QED  BY <1>1, <1>2, SMT DEF Abs
<1>5. init \in Words /\ Abs(init * 360 - b * Steps16) <= 180
  <2> HIDE DEF b
  <2>1. init < Steps16 /\ b * Steps16 = b * 65536
    BY <1>2, <1>3, WordFacts
  <2>2. init \in Words
    BY <1>2, <1>3, <2>1, WordFacts
  <2>. QED  BY <1>3, <1>4, <2>1, <2>2
<1>. QED  BY <1>5 DEF init

LEMMA ScaleFacts ==
  ASSUME NEW s \in ScaleRange
  PROVE  LET code == (Abs(s) * Unit) \div 1000 + IF s < 0 THEN 2 * Unit ELSE 0
         IN  code \in Words /\ ScaleOf([scale |-> code]) - s \in -1 .. 1
<1> DEFINE m == Abs(s)
           k == (m * 16384) \div 1000
           code == k + IF s < 0 THEN 32768 ELSE 0
           back == (k * 1000) \div 16384
<1>1. m \in 0 .. 1000 /\ (s < 0 => m = -s) /\ (s >= 0 => m = s)
  BY SMT DEF Abs, ScaleRange
<1>2. k \in Nat /\ k <= 16384 /\ k * 1000 <= m * 16384 /\ m * 16384 < k * 1000 + 1000
  <2> HIDE DEF m
  <2>. QED  BY <1>1, SMT
<1>3. back \in m - 1 .. m
  <2> HIDE DEF m, k
  <2>. QED  BY <1>1, <1>2, SMT
<1>4. code \in Words /\ code % 32768 = k /\ (code >= 32768 <=> s < 0)
  <2> HIDE DEF m, k
  <2>1. code \in Nat /\ code % 32768 = k /\ (code >= 32768 <=> s < 0)
    <3>1. CASE s < 0
      BY <1>2, <3>1, SMT
    <3>2. CASE ~(s < 0)
      BY <1>2, <3>2, SMT
    <3>. QED  BY <3>1, <3>2
  <2>2. code < Steps16
    BY <1>2, SMT DEF Steps16
  <2> HIDE DEF code
  <2>. QED  BY <2>1, <2>2, WordFacts
<1>5. (Abs(s) * Unit) \div 1000 + (IF s < 0 THEN 2 * Unit ELSE 0) = code
  BY SMT DEF Unit
<1>6. ScaleOf([scale |-> code]) = IF s < 0 THEN -back ELSE back
  <2>1. ScaleOf([scale |-> code]) =
            IF code >= 32768 THEN -(((code % 32768) * 1000) \div 16384)
            ELSE ((code % 32768) * 1000) \div 16384
    <3> HIDE DEF code
    <3>. QED  BY SMT DEF ScaleOf, Unit
  <2> HIDE DEF code, k
  <2>. QED  BY <1>4, <2>1
<1> HIDE DEF code, back, m, k
<1>7. ScaleOf([scale |-> code]) - s \in -1 .. 1
  BY <1>1, <1>3, <1>6, SMT DEF ScaleRange
<1>. QED  BY <1>4, <1>5, <1>7

FreqOk(incr, freq, rate) == 2 * freq <= rate => Abs(incr * rate - freq * 65535) <= rate
PhaseOk(init, phase) == PhaseError([init |-> init], phase) <= 180
ScaleOk(scale, s) == ScaleOf([scale |-> scale]) - s \in -1 .. 1

LEMMA PlaysParts ==
  ASSUME NEW r, NEW v, NEW rate
  PROVE  Plays(r, v, rate) <=> /\ FreqOk(r.incr, v.freq, rate)
                               /\ PhaseOk(r.init, v.phase)
                               /\ ScaleOk(r.scale, v.scale)
<1>1. FreqError(r, v.freq, rate) = Abs(r.incr * rate - v.freq * 65535)
  BY DEF FreqError
<1>2. PhaseError(r, v.phase) = PhaseError([init |-> r.init], v.phase)
  BY DEF PhaseError
<1>3. ScaleOf(r) = ScaleOf([scale |-> r.scale])
  BY DEF ScaleOf
<1>. QED  BY <1>1, <1>2, <1>3 DEF Plays, FreqOk, PhaseOk, ScaleOk

\* The codes of a frequency, of a phase and of a scale.
InitCode(phase) == ((phase * Steps16 + 180) \div 360) % Steps16
ScaleCode(s) == (Abs(s) * Unit) \div 1000 + IF s < 0 THEN 2 * Unit ELSE 0

LEMMA Codes ==
  /\ \A freq \in Nat, rate \in Nat \ {0} :
         Increment(freq, rate) \in Words /\ FreqOk(Increment(freq, rate), freq, rate)
  /\ \A phase \in Nat : InitCode(phase) \in Words /\ PhaseOk(InitCode(phase), phase)
  /\ \A s \in ScaleRange : ScaleCode(s) \in Words /\ ScaleOk(ScaleCode(s), s)
<1>1. ASSUME NEW freq \in Nat, NEW rate \in Nat \ {0}
      PROVE  Increment(freq, rate) \in Words /\ FreqOk(Increment(freq, rate), freq, rate)
  BY IncrementFacts DEF FreqOk
<1>2. ASSUME NEW phase \in Nat
      PROVE  InitCode(phase) \in Words /\ PhaseOk(InitCode(phase), phase)
  <2> DEFINE e == Abs(InitCode(phase) * 360 - (phase % 360) * Steps16)
  <2>1. InitCode(phase) \in Words /\ e <= 180
    BY PhaseFacts DEF InitCode
  <2>2. PhaseError([init |-> InitCode(phase)], phase) =
            IF e > 180 * Steps16 THEN 360 * Steps16 - e ELSE e
    BY DEF PhaseError
  <2>3. e \in Int
    <3> DEFINE n == InitCode(phase) * 360 - (phase % 360) * Steps16
    <3>1. InitCode(phase) \in Int
      BY <2>1, WordFacts
    <3>2. phase % 360 \in Int
      BY SMT
    <3>3. n \in Int
      BY <3>1, <3>2, WordFacts, SMT
    <3> HIDE DEF n
    <3>4. Abs(n) \in Int
      BY <3>3 DEF Abs
    <3>. QED  BY <3>4 DEF n
  <2> HIDE DEF e
  <2>4. ~ e > 180 * Steps16
    BY <2>1, <2>3, WordFacts, SMT
  <2>. QED  BY <2>1, <2>2, <2>4 DEF PhaseOk
<1>3. ASSUME NEW s \in ScaleRange
      PROVE  ScaleCode(s) \in Words /\ ScaleOk(ScaleCode(s), s)
  <2>1. ScaleCode(s) = (Abs(s) * Unit) \div 1000 + IF s < 0 THEN 2 * Unit ELSE 0
    BY DEF ScaleCode
  <2>2. ScaleCode(s) \in Words /\ ScaleOf([scale |-> ScaleCode(s)]) - s \in -1 .. 1
    BY <2>1, ScaleFacts
  <2>. QED  BY <2>2 DEF ScaleOk
<1>. QED  BY <1>1, <1>2, <1>3

Pairs == [c : Chips, d : Drvs]
ToneFields == [incr : Words, init : Words, scale : Words]

\* x with the tone t of r in its registers and of v in its caches, and with all tones.
WithTone(x, t, r, v) ==
    [c |-> [x.c EXCEPT !.tone = [x.c.tone EXCEPT ![t] = r]],
     d |-> [x.d EXCEPT !.tone = [x.d.tone EXCEPT ![t] = v]]]
WithTones(x, regs, sets) ==
    [c |-> [x.c EXCEPT !.tone = regs], d |-> [x.d EXCEPT !.tone = sets]]

LEMMA PairFields ==
  ASSUME NEW x \in Pairs
  PROVE  /\ x.c \in Chips /\ x.d \in Drvs
         /\ x.c.tone \in ToneRegs /\ x.d.tone \in ToneSettings
         /\ ToneRegs = [Tones -> ToneFields]
         /\ \A t \in Tones : x.c.tone[t] \in ToneFields /\ x.d.tone[t] \in ToneSets
<1>1. x.c \in Chips /\ x.d \in Drvs
  BY DEF Pairs
<1>2. x.c.tone \in ToneRegs
  BY <1>1 DEF Chips
<1>3. x.d.tone \in ToneSettings
  BY <1>1 DEF Drvs
<1>4. ToneRegs = [Tones -> ToneFields]
  BY DEF ToneRegs, ToneFields
<1>. QED  BY <1>1, <1>2, <1>3, <1>4 DEF ToneSettings

LEMMA WithTonesType ==
  ASSUME NEW x \in Pairs, NEW regs \in ToneRegs, NEW sets \in ToneSettings
  PROVE  /\ WithTones(x, regs, sets) \in Pairs
         /\ WithTones(x, regs, sets).c.tone = regs /\ WithTones(x, regs, sets).d.tone = sets
<1>1. [x.c EXCEPT !.tone = regs] \in Chips /\ [x.c EXCEPT !.tone = regs].tone = regs
  BY PairFields DEF Chips
<1>2. [x.d EXCEPT !.tone = sets] \in Drvs /\ [x.d EXCEPT !.tone = sets].tone = sets
  BY PairFields DEF Drvs
<1>. QED  BY <1>1, <1>2 DEF WithTones, Pairs

LEMMA WithToneType ==
  ASSUME NEW x \in Pairs, NEW t \in Tones, NEW r \in ToneFields, NEW v \in ToneSets
  PROVE  /\ WithTone(x, t, r, v) \in Pairs
         /\ WithTone(x, t, r, v).c.tone[t] = r /\ WithTone(x, t, r, v).d.tone[t] = v
         /\ \E regs \in ToneRegs, sets \in ToneSettings :
                /\ WithTone(x, t, r, v) = WithTones(x, regs, sets)
                /\ regs[t] = r /\ sets[t] = v
                /\ \A u \in Tones \ {t} : regs[u] = x.c.tone[u] /\ sets[u] = x.d.tone[u]
<1> DEFINE regs == [x.c.tone EXCEPT ![t] = r]
           sets == [x.d.tone EXCEPT ![t] = v]
<1>1. /\ regs \in ToneRegs /\ regs[t] = r
      /\ \A u \in Tones \ {t} : regs[u] = x.c.tone[u]
  BY PairFields
<1>2. /\ sets \in ToneSettings /\ sets[t] = v
      /\ \A u \in Tones \ {t} : sets[u] = x.d.tone[u]
  BY PairFields DEF ToneSettings
<1>3. WithTone(x, t, r, v) = WithTones(x, regs, sets)
  BY DEF WithTone, WithTones
<1> HIDE DEF regs, sets
<1>4. /\ WithTones(x, regs, sets) \in Pairs
      /\ WithTones(x, regs, sets).c.tone = regs /\ WithTones(x, regs, sets).d.tone = sets
  BY <1>1, <1>2, WithTonesType
<1>. QED  BY <1>1, <1>2, <1>3, <1>4

\* dds_set_frequency, dds_set_phase and dds_set_scale change one field of one tone.
LEMMA SetFrequencyFacts ==
  ASSUME NEW x \in Pairs, NEW t \in Tones, NEW freq \in Nat, NEW rate \in Nat \ {0}
  PROVE  LET r == [x.c.tone[t] EXCEPT !.incr = Increment(freq, rate)]
             v == [x.d.tone[t] EXCEPT !.freq = freq]
         IN  /\ r \in ToneFields /\ v \in ToneSets
             /\ SetFrequency(x, t, freq, rate) = WithTone(x, t, r, v)
<1> DEFINE k == Increment(freq, rate)
<1>1. k \in Words
  BY Codes
<1>2. SetFrequency(x, t, freq, rate) = [x EXCEPT !.d.tone[t].freq = freq, !.c.tone[t].incr = k]
  BY DEF SetFrequency
<1> HIDE DEF k
<1> DEFINE r == [x.c.tone[t] EXCEPT !.incr = k]
           v == [x.d.tone[t] EXCEPT !.freq = freq]
<1>3. r \in ToneFields
  BY <1>1, PairFields DEF ToneFields
<1>4. v \in ToneSets
  <2>1. x.d.tone[t] \in ToneSets
    BY PairFields
  <2>. QED  BY <2>1 DEF ToneSets
<1>5. [x EXCEPT !.d.tone[t].freq = freq, !.c.tone[t].incr = k] = WithTone(x, t, r, v)
  <2> DEFINE regs == [x.c EXCEPT !.tone = [x.c.tone EXCEPT ![t] = r]]
             sets == [x.d EXCEPT !.tone = [x.d.tone EXCEPT ![t] = v]]
  <2>1. [x EXCEPT !.d.tone[t].freq = freq, !.c.tone[t].incr = k]
        = [[x EXCEPT !.d = sets] EXCEPT !.c = regs]
    OBVIOUS
  <2>2. WithTone(x, t, r, v) = [c |-> regs, d |-> sets]
    BY DEF WithTone
  <2> HIDE DEF regs, sets
  <2>3. [[x EXCEPT !.d = sets] EXCEPT !.c = regs] = [c |-> regs, d |-> sets]
    <3> DEFINE y == [x EXCEPT !.d = sets]
    <3>1. y = [c |-> x.c, d |-> sets]
      BY DEF Pairs
    <3> HIDE DEF y
    <3>2. [y EXCEPT !.c = regs] = [c |-> regs, d |-> sets]
      BY <3>1
    <3>. QED  BY <3>2 DEF y
  <2>. QED  BY <2>1, <2>2, <2>3, Zenon
<1>. QED  BY <1>2, <1>3, <1>4, <1>5 DEF k

LEMMA SetPhaseFacts ==
  ASSUME NEW x \in Pairs, NEW t \in Tones, NEW phase \in Nat
  PROVE  LET r == [x.c.tone[t] EXCEPT !.init = InitCode(phase)]
             v == [x.d.tone[t] EXCEPT !.phase = phase]
         IN  /\ r \in ToneFields /\ v \in ToneSets
             /\ SetPhase(x, t, phase) = WithTone(x, t, r, v)
<1> DEFINE k == InitCode(phase)
<1>1. k \in Words
  BY Codes
<1>2. SetPhase(x, t, phase) = [x EXCEPT !.d.tone[t].phase = phase, !.c.tone[t].init = k]
  BY DEF SetPhase, InitCode
<1> HIDE DEF k
<1> DEFINE r == [x.c.tone[t] EXCEPT !.init = k]
           v == [x.d.tone[t] EXCEPT !.phase = phase]
<1>3. r \in ToneFields
  BY <1>1, PairFields DEF ToneFields
<1>4. v \in ToneSets
  <2>1. x.d.tone[t] \in ToneSets
    BY PairFields
  <2>. QED  BY <2>1 DEF ToneSets
<1>5. [x EXCEPT !.d.tone[t].phase = phase, !.c.tone[t].init = k] = WithTone(x, t, r, v)
  <2> DEFINE regs == [x.c EXCEPT !.tone = [x.c.tone EXCEPT ![t] = r]]
             sets == [x.d EXCEPT !.tone = [x.d.tone EXCEPT ![t] = v]]
  <2>1. [x EXCEPT !.d.tone[t].phase = phase, !.c.tone[t].init = k]
        = [[x EXCEPT !.d = sets] EXCEPT !.c = regs]
    OBVIOUS
  <2>2. WithTone(x, t, r, v) = [c |-> regs, d |-> sets]
    BY DEF WithTone
  <2> HIDE DEF regs, sets
  <2>3. [[x EXCEPT !.d = sets] EXCEPT !.c = regs] = [c |-> regs, d |-> sets]
    <3> DEFINE y == [x EXCEPT !.d = sets]
    <3>1. y = [c |-> x.c, d |-> sets]
      BY DEF Pairs
    <3> HIDE DEF y
    <3>2. [y EXCEPT !.c = regs] = [c |-> regs, d |-> sets]
      BY <3>1
    <3>. QED  BY <3>2 DEF y
  <2>. QED  BY <2>1, <2>2, <2>3, Zenon
<1>. QED  BY <1>2, <1>3, <1>4, <1>5 DEF k

LEMMA ClampType ==
  ASSUME NEW s \in Int
  PROVE  Clamp(s) \in ScaleRange
BY SMT DEF Clamp, ScaleRange

LEMMA SetScaleFacts ==
  ASSUME NEW x \in Pairs, NEW t \in Tones, NEW s \in Int
  PROVE  LET r == [x.c.tone[t] EXCEPT !.scale = ScaleCode(Clamp(s))]
             v == [x.d.tone[t] EXCEPT !.scale = Clamp(s)]
         IN  /\ r \in ToneFields /\ v \in ToneSets
             /\ SetScale(x, t, s) = WithTone(x, t, r, v)
<1> DEFINE a == Clamp(s)
           k == ScaleCode(a)
<1>1. a \in ScaleRange /\ k \in Words
  BY ClampType, Codes
<1>2. SetScale(x, t, s) = [x EXCEPT !.d.tone[t].scale = a, !.c.tone[t].scale = k]
  BY DEF SetScale, ScaleCode
<1> HIDE DEF a, k
<1> DEFINE r == [x.c.tone[t] EXCEPT !.scale = k]
           v == [x.d.tone[t] EXCEPT !.scale = a]
<1>3. r \in ToneFields
  BY <1>1, PairFields DEF ToneFields
<1>4. v \in ToneSets
  <2>1. x.d.tone[t] \in ToneSets
    BY PairFields
  <2>. QED  BY <1>1, <2>1 DEF ToneSets
<1>5. [x EXCEPT !.d.tone[t].scale = a, !.c.tone[t].scale = k] = WithTone(x, t, r, v)
  <2> DEFINE regs == [x.c EXCEPT !.tone = [x.c.tone EXCEPT ![t] = r]]
             sets == [x.d EXCEPT !.tone = [x.d.tone EXCEPT ![t] = v]]
  <2>1. [x EXCEPT !.d.tone[t].scale = a, !.c.tone[t].scale = k]
        = [[x EXCEPT !.d = sets] EXCEPT !.c = regs]
    OBVIOUS
  <2>2. WithTone(x, t, r, v) = [c |-> regs, d |-> sets]
    BY DEF WithTone
  <2> HIDE DEF regs, sets
  <2>3. [[x EXCEPT !.d = sets] EXCEPT !.c = regs] = [c |-> regs, d |-> sets]
    <3> DEFINE y == [x EXCEPT !.d = sets]
    <3>1. y = [c |-> x.c, d |-> sets]
      BY DEF Pairs
    <3> HIDE DEF y
    <3>2. [y EXCEPT !.c = regs] = [c |-> regs, d |-> sets]
      BY <3>1
    <3>. QED  BY <3>2 DEF y
  <2>. QED  BY <2>1, <2>2, <2>3, Zenon
<1>. QED  BY <1>2, <1>3, <1>4, <1>5 DEF a, k

\* All tones anew: each is what v gives for it, a scale out of range clamped.
LEMMA SetAllFacts ==
  ASSUME NEW x \in Pairs, NEW v \in ToneSettings, NEW rate \in Nat \ {0}
  PROVE  \E regs \in ToneRegs, sets \in ToneSettings :
             /\ SetAll(x, v, rate) = WithTones(x, regs, sets)
             /\ \A t \in Tones : Plays(regs[t], sets[t], rate)
<1> DEFINE SetOne(t) == SetScale(SetPhase(SetFrequency(x, t, v[t].freq, rate),
                                          t, v[t].phase), t, v[t].scale)
           regs == [t \in Tones |-> SetOne(t).c.tone[t]]
           sets == [t \in Tones |-> SetOne(t).d.tone[t]]
<1>1. ASSUME NEW t \in Tones
      PROVE  /\ SetOne(t).c.tone[t] \in ToneFields /\ SetOne(t).d.tone[t] \in ToneSets
             /\ Plays(SetOne(t).c.tone[t], SetOne(t).d.tone[t], rate)
  <2>1. /\ v[t] \in ToneSets /\ v[t].freq \in Nat /\ v[t].phase \in Nat
        /\ v[t].scale \in Int
    <3>1. v[t] \in ToneSets
      BY DEF ToneSettings
    <3>2. ASSUME NEW u \in ToneSets
          PROVE  u.freq \in Nat /\ u.phase \in Nat /\ u.scale \in Int
      BY SMT DEF ToneSets, ScaleRange
    <3>. QED  BY <3>1, <3>2
  <2> DEFINE f == v[t].freq
             p == v[t].phase
             s == v[t].scale
             y == SetFrequency(x, t, f, rate)
             z == SetPhase(y, t, p)
             w == SetScale(z, t, s)
             r1 == [x.c.tone[t] EXCEPT !.incr = Increment(f, rate)]
             v1 == [x.d.tone[t] EXCEPT !.freq = f]
             r2 == [y.c.tone[t] EXCEPT !.init = InitCode(p)]
             v2 == [y.d.tone[t] EXCEPT !.phase = p]
             r3 == [z.c.tone[t] EXCEPT !.scale = ScaleCode(Clamp(s))]
             v3 == [z.d.tone[t] EXCEPT !.scale = Clamp(s)]
  <2>2. SetOne(t) = w
    OBVIOUS
  <2>3. f \in Nat /\ p \in Nat /\ s \in Int
    BY <2>1
  <2> HIDE DEF f, p, s, SetOne
  <2>4. r1 \in ToneFields /\ v1 \in ToneSets /\ y = WithTone(x, t, r1, v1)
    BY <2>3, SetFrequencyFacts
  <2>5. /\ r1.incr = Increment(f, rate) /\ v1.freq = f
    <3>1. x.c.tone[t] \in ToneFields /\ x.d.tone[t] \in ToneSets
      BY PairFields
    <3>. QED  BY <3>1 DEF ToneFields, ToneSets
  <2> HIDE DEF y, r1, v1
  <2>6. y \in Pairs /\ y.c.tone[t] = r1 /\ y.d.tone[t] = v1
    <3> DEFINE q == WithTone(x, t, r1, v1)
    <3>1. q \in Pairs /\ q.c.tone[t] = r1 /\ q.d.tone[t] = v1
      BY <2>4, WithToneType
    <3>. QED  BY <3>1, <2>4
  <2>7. r2 \in ToneFields /\ v2 \in ToneSets /\ z = WithTone(y, t, r2, v2)
    BY <2>3, <2>6, SetPhaseFacts
  <2>8. /\ r2.incr = r1.incr /\ v2.freq = v1.freq
        /\ r2.init = InitCode(p) /\ v2.phase = p
    BY <2>4, <2>6 DEF ToneFields, ToneSets
  <2> HIDE DEF z, r2, v2
  <2>9. z \in Pairs /\ z.c.tone[t] = r2 /\ z.d.tone[t] = v2
    <3> DEFINE q == WithTone(y, t, r2, v2)
    <3>1. q \in Pairs /\ q.c.tone[t] = r2 /\ q.d.tone[t] = v2
      BY <2>6, <2>7, WithToneType
    <3>. QED  BY <3>1, <2>6, <2>7
  <2>10. r3 \in ToneFields /\ v3 \in ToneSets /\ w = WithTone(z, t, r3, v3)
    BY <2>3, <2>9, SetScaleFacts
  <2>11. /\ r3.incr = r2.incr /\ v3.freq = v2.freq
         /\ r3.init = r2.init /\ v3.phase = v2.phase
         /\ r3.scale = ScaleCode(Clamp(s)) /\ v3.scale = Clamp(s)
    BY <2>7, <2>9 DEF ToneFields, ToneSets
  <2> HIDE DEF w, r3, v3
  <2>12. w.c.tone[t] = r3 /\ w.d.tone[t] = v3
    <3> DEFINE q == WithTone(z, t, r3, v3)
    <3>1. q.c.tone[t] = r3 /\ q.d.tone[t] = v3
      BY <2>9, <2>10, WithToneType
    <3>. QED  BY <2>10, <3>1
  <2>13. Plays(r3, v3, rate)
    <3>1. FreqOk(r3.incr, v3.freq, rate)
      BY <2>3, <2>5, <2>8, <2>11, Codes
    <3>2. PhaseOk(r3.init, v3.phase)
      BY <2>3, <2>8, <2>11, Codes
    <3>3. ScaleOk(r3.scale, v3.scale)
      BY <2>3, <2>11, Codes, ClampType
    <3>. QED  BY <3>1, <3>2, <3>3, PlaysParts
  <2>. QED  BY <2>2, <2>10, <2>12, <2>13
<1>2. SetAll(x, v, rate) = [x EXCEPT !.c.tone = regs, !.d.tone = sets]
  BY DEF SetAll
<1> HIDE DEF SetOne
<1>3. regs \in ToneRegs /\ sets \in ToneSettings
  BY <1>1, PairFields DEF ToneSettings
<1>4. \A t \in Tones : Plays(regs[t], sets[t], rate)
  BY <1>1
<1> HIDE DEF regs, sets
<1>5. [x EXCEPT !.c.tone = regs, !.d.tone = sets] = WithTones(x, regs, sets)
  <2> DEFINE c == [x.c EXCEPT !.tone = regs]
             d == [x.d EXCEPT !.tone = sets]
  <2>1. [x EXCEPT !.c.tone = regs, !.d.tone = sets] = [[x EXCEPT !.c = c] EXCEPT !.d = d]
    OBVIOUS
  <2>2. WithTones(x, regs, sets) = [c |-> c, d |-> d]
    BY DEF WithTones
  <2> HIDE DEF c, d
  <2>3. [[x EXCEPT !.c = c] EXCEPT !.d = d] = [c |-> c, d |-> d]
    <3> DEFINE y == [x EXCEPT !.c = c]
    <3>1. y = [c |-> c, d |-> x.d]
      BY DEF Pairs
    <3> HIDE DEF y
    <3>2. [y EXCEPT !.d = d] = [c |-> c, d |-> d]
      BY <3>1
    <3>. QED  BY <3>2 DEF y
  <2>. QED  BY <2>1, <2>2, <2>3, Zenon
<1>. QED  BY <1>2, <1>3, <1>4, <1>5

LEMMA DefaultType == DefaultTones \in ToneSettings
<1>1. ASSUME NEW t \in Tones
      PROVE  [freq |-> 1000, scale |-> 250, phase |-> IF InPhase(t) THEN 90 ELSE 0] \in ToneSets
  BY SMT DEF ToneSets, ScaleRange
<1>. QED  BY <1>1 DEF DefaultTones, ToneSettings

----------------------------------------------------------------------------
(* What the functions do to the chip and to the caches.                    *)

\* The fields that none of muting, loopbacks and patterns touches.
SameRest(x, y) ==
    /\ y.c.pn = x.c.pn /\ y.c.delay = x.c.delay /\ y.c.tree = x.c.tree /\ y.c.tone = x.c.tone
    /\ y.d.delay = x.d.delay /\ y.d.bypass = x.d.bypass /\ y.d.factor = x.d.factor
    /\ y.d.taps = x.d.taps /\ y.d.filt = x.d.filt /\ y.d.gov = x.d.gov /\ y.d.tone = x.d.tone

AllMuted == [i \in 1 .. 2 |-> MaxAtten]

LEMMA MutedType == AllMuted \in AttenPairs
BY LinkAssumption DEF AllMuted, AttenPairs

LEMMA SetAttenFacts ==
  ASSUME NEW c \in Chips, NEW a \in AttenPairs
  PROVE  /\ SetTxAtten(c, {1, 2}, a) \in Chips
         /\ SetTxAtten(c, {1, 2}, a).atten = a
         /\ SetTxAtten(c, {1, 2}, a).test = c.test /\ SetTxAtten(c, {1, 2}, a).loop = c.loop
         /\ SetTxAtten(c, {1, 2}, a).source = c.source /\ SetTxAtten(c, {1, 2}, a).pn = c.pn
         /\ SetTxAtten(c, {1, 2}, a).delay = c.delay /\ SetTxAtten(c, {1, 2}, a).tree = c.tree
         /\ SetTxAtten(c, {1, 2}, a).tone = c.tone
<1> DEFINE b == [i \in 1 .. 2 |-> IF i \in {1, 2} THEN a[i] ELSE c.atten[i]]
<1>1. b = a
  <2>1. \A i \in 1 .. 2 : b[i] = a[i]
    OBVIOUS
  <2>2. b = [i \in 1 .. 2 |-> b[i]] /\ a = [i \in 1 .. 2 |-> a[i]]
    BY DEF AttenPairs
  <2> HIDE DEF b
  <2>. QED  BY <2>1, <2>2
<1>2. SetTxAtten(c, {1, 2}, a) = [c EXCEPT !.atten = b]
  BY DEF SetTxAtten
<1> HIDE DEF b
<1> DEFINE e == [c EXCEPT !.atten = b]
<1>3. /\ e \in Chips /\ e.atten = a /\ e.test = c.test /\ e.loop = c.loop
      /\ e.source = c.source /\ e.pn = c.pn /\ e.delay = c.delay /\ e.tree = c.tree
      /\ e.tone = c.tone
  BY <1>1 DEF Chips
<1>. QED  BY <1>2, <1>3

LEMMA MuteFacts ==
  ASSUME NEW x \in Pairs
  PROVE  /\ Mute(x) \in Pairs /\ SameRest(x, Mute(x))
         /\ Mute(x).c.atten = AllMuted /\ Mute(x).d.atten = x.c.atten
         /\ Mute(x).c.test = x.c.test /\ Mute(x).c.loop = x.c.loop
         /\ Mute(x).c.source = x.c.source
         /\ Mute(x).d.test = x.d.test /\ Mute(x).d.loop = x.d.loop
         /\ Mute(x).d.scratch = x.d.scratch
<1> DEFINE c == SetTxAtten(x.c, {1, 2}, AllMuted)
           d == [x.d EXCEPT !.atten = x.c.atten]
<1>1. x.c \in Chips /\ x.d \in Drvs
  BY PairFields
<1>2. Mute(x) = [c |-> c, d |-> d]
  BY DEF Mute, AllMuted
<1>3. /\ c \in Chips /\ c.atten = AllMuted /\ c.test = x.c.test /\ c.loop = x.c.loop
      /\ c.source = x.c.source /\ c.pn = x.c.pn /\ c.delay = x.c.delay /\ c.tree = x.c.tree
      /\ c.tone = x.c.tone
  BY <1>1, MutedType, SetAttenFacts
<1>4. /\ d \in Drvs /\ d.atten = x.c.atten /\ d.test = x.d.test /\ d.loop = x.d.loop
      /\ d.scratch = x.d.scratch /\ d.delay = x.d.delay /\ d.bypass = x.d.bypass
      /\ d.factor = x.d.factor /\ d.taps = x.d.taps /\ d.filt = x.d.filt /\ d.gov = x.d.gov
      /\ d.tone = x.d.tone
  <2>1. x.c.atten \in AttenPairs
    BY <1>1 DEF Chips
  <2>. QED  BY <1>1, <2>1 DEF Drvs
<1> HIDE DEF c, d
<1>. QED  BY <1>2, <1>3, <1>4 DEF SameRest, Pairs

LEMMA UnmuteFacts ==
  ASSUME NEW x \in Pairs
  PROVE  /\ Unmute(x) \in Pairs /\ SameRest(x, Unmute(x))
         /\ Unmute(x).c.atten = x.d.atten /\ Unmute(x).d.atten = x.d.atten
         /\ Unmute(x).c.test = x.c.test /\ Unmute(x).c.loop = x.c.loop
         /\ Unmute(x).c.source = x.c.source
         /\ Unmute(x).d.test = x.d.test /\ Unmute(x).d.loop = x.d.loop
         /\ Unmute(x).d.scratch = x.d.scratch
<1> DEFINE c == SetTxAtten(x.c, {1, 2}, x.d.atten)
<1>1. x.c \in Chips /\ x.d \in Drvs
  BY PairFields
<1>2. x.d.atten \in AttenPairs
  BY <1>1 DEF Drvs
<1>3. Unmute(x) = [x EXCEPT !.c = c]
  BY DEF Unmute
<1>4. /\ c \in Chips /\ c.atten = x.d.atten /\ c.test = x.c.test /\ c.loop = x.c.loop
      /\ c.source = x.c.source /\ c.pn = x.c.pn /\ c.delay = x.c.delay /\ c.tree = x.c.tree
      /\ c.tone = x.c.tone
  BY <1>1, <1>2, SetAttenFacts
<1> HIDE DEF c
<1>5. [x EXCEPT !.c = c] = [c |-> c, d |-> x.d]
  BY DEF Pairs
<1>. QED  BY <1>1, <1>3, <1>4, <1>5 DEF SameRest, Pairs

LEMMA PrbsFacts ==
  ASSUME NEW x \in Pairs, NEW mode \in Tests
  PROVE  /\ BistPrbs(x, mode) \in Pairs /\ SameRest(x, BistPrbs(x, mode))
         /\ BistPrbs(x, mode).c.test = mode /\ BistPrbs(x, mode).d.test = mode
         /\ BistPrbs(x, mode).c.atten = x.c.atten /\ BistPrbs(x, mode).d.atten = x.d.atten
         /\ BistPrbs(x, mode).c.loop = x.c.loop /\ BistPrbs(x, mode).d.loop = x.d.loop
         /\ BistPrbs(x, mode).c.source = x.c.source
         /\ BistPrbs(x, mode).d.scratch = x.d.scratch
<1> DEFINE c == [x.c EXCEPT !.test = mode]
           d == [x.d EXCEPT !.test = mode]
<1>1. x.c \in Chips /\ x.d \in Drvs
  BY PairFields
<1>2. BistPrbs(x, mode) = [c |-> c, d |-> d]
  BY DEF BistPrbs
<1>3. /\ c \in Chips /\ c.atten = x.c.atten /\ c.test = mode /\ c.loop = x.c.loop
      /\ c.source = x.c.source /\ c.pn = x.c.pn /\ c.delay = x.c.delay /\ c.tree = x.c.tree
      /\ c.tone = x.c.tone
  BY <1>1 DEF Chips
<1>4. /\ d \in Drvs /\ d.atten = x.d.atten /\ d.test = mode /\ d.loop = x.d.loop
      /\ d.scratch = x.d.scratch /\ d.delay = x.d.delay /\ d.bypass = x.d.bypass
      /\ d.factor = x.d.factor /\ d.taps = x.d.taps /\ d.filt = x.d.filt /\ d.gov = x.d.gov
      /\ d.tone = x.d.tone
  BY <1>1 DEF Drvs
<1> HIDE DEF c, d
<1>. QED  BY <1>2, <1>3, <1>4 DEF SameRest, Pairs

\* A loopback through the core puts the source aside, any other takes it back; the pattern
\* is not put aside.
LEMMA LoopbackFacts ==
  ASSUME NEW x \in Pairs, NEW mode \in 0 .. 3, x.c.source # "pn"
  PROVE  LET y == BistLoopback(x, mode) IN
         /\ y \in Pairs /\ SameRest(x, y)
         /\ y.c.atten = x.c.atten /\ y.d.atten = x.d.atten
         /\ y.c.test = x.c.test /\ y.d.test = x.d.test
         /\ y.d.loop = mode
         /\ mode = 3 => /\ y.c.loop = x.c.loop /\ y.c.source = x.c.source
                        /\ y.d.scratch = x.d.scratch
         /\ mode # 3 => y.c.loop = (mode = 1)
         /\ mode \in {0, 1} => /\ y.c.source = IF x.c.source = "adc" THEN x.d.scratch
                                               ELSE x.c.source
                               /\ y.d.scratch = x.d.scratch
         /\ mode = 2 /\ x.c.source = "adc" => /\ y.c.source = x.d.scratch
                                              /\ y.d.scratch = x.d.scratch
         /\ mode = 2 /\ x.c.source # "adc" => /\ y.c.source = "adc"
                                              /\ y.d.scratch = x.c.source
<1>1. x.c \in Chips /\ x.d \in Drvs
  BY PairFields
<1> DEFINE d1 == [x.d EXCEPT !.loop = mode]
           y1 == [x EXCEPT !.d.loop = mode]
<1>2. y1 = [c |-> x.c, d |-> d1]
  BY DEF Pairs
<1>3. /\ d1 \in Drvs /\ d1.atten = x.d.atten /\ d1.test = x.d.test /\ d1.loop = mode
      /\ d1.scratch = x.d.scratch /\ d1.delay = x.d.delay /\ d1.bypass = x.d.bypass
      /\ d1.factor = x.d.factor /\ d1.taps = x.d.taps /\ d1.filt = x.d.filt
      /\ d1.gov = x.d.gov /\ d1.tone = x.d.tone
  BY <1>1 DEF Drvs
<1>4. BistLoopback(x, mode) = IF mode \notin 0 .. 2 THEN y1
                              ELSE [HdlLoopback(y1, mode = 2) EXCEPT !.c.loop = (mode = 1)]
  BY DEF BistLoopback
<1> HIDE DEF d1, y1
<1>5. y1 \in Pairs /\ y1.c = x.c /\ y1.d = d1
  BY <1>1, <1>2, <1>3 DEF Pairs
<1>6. CASE mode = 3
  <2>1. BistLoopback(x, mode) = y1
    BY <1>4, <1>6
  <2>. QED  BY <1>3, <1>5, <1>6, <2>1 DEF SameRest
<1>7. CASE mode # 3
  <2> DEFINE on == mode = 2
             loop == mode = 1
             source == IF on /\ x.c.source # "adc" THEN "adc"
                       ELSE IF x.c.source = "adc" THEN x.d.scratch ELSE x.c.source
             scratch == IF on /\ x.c.source # "adc" THEN x.c.source ELSE x.d.scratch
             c == [[x.c EXCEPT !.source = source] EXCEPT !.loop = loop]
             d == [d1 EXCEPT !.scratch = scratch]
             h == HdlLoopback(y1, on)
  <2>1. BistLoopback(x, mode) = [h EXCEPT !.c.loop = loop]
    BY <1>4, <1>7
  <2>2. source \in Sources /\ scratch \in Sources \ {"pn"} /\ loop \in BOOLEAN
    BY <1>1 DEF Chips, Drvs, Sources
  <2> DEFINE h1 == [x.c EXCEPT !.source = source]
  <2>3. h = [c |-> h1, d |-> d]
    <3>1. CASE on /\ x.c.source # "adc"
      <4>1. h = [c |-> [y1.c EXCEPT !.source = "adc"], d |-> [y1.d EXCEPT !.scratch = y1.c.source]]
        BY <1>5, <3>1 DEF HdlLoopback
      <4>2. source = "adc" /\ scratch = x.c.source
        BY <3>1
      <4> HIDE DEF source, scratch
      <4>. QED  BY <1>5, <4>1, <4>2
    <3>2. CASE ~(on /\ x.c.source # "adc")
      <4>1. h = [y1 EXCEPT !.c.source = IF y1.c.source = "adc" THEN y1.d.scratch ELSE y1.c.source]
        BY <1>5, <3>2 DEF HdlLoopback
      <4>2. source = (IF y1.c.source = "adc" THEN y1.d.scratch ELSE y1.c.source)
            /\ scratch = d1.scratch
        BY <1>3, <1>5, <3>2
      <4>3. h = [y1 EXCEPT !.c.source = source]
        BY <4>1, <4>2, Zenon
      <4>4. d = d1
        <5> HIDE DEF scratch
        <5>. QED  BY <1>3, <4>2 DEF Drvs
      <4> HIDE DEF source, d
      <4>5. [y1 EXCEPT !.c.source = source] = [c |-> [y1.c EXCEPT !.source = source], d |-> y1.d]
        BY <1>5 DEF Pairs
      <4>. QED  BY <1>5, <4>3, <4>4, <4>5
    <3>. QED  BY <3>1, <3>2
  <2>4. /\ h1 \in Chips /\ h1.source = source
        /\ h1.atten = x.c.atten /\ h1.test = x.c.test /\ h1.loop = x.c.loop /\ h1.pn = x.c.pn
        /\ h1.delay = x.c.delay /\ h1.tree = x.c.tree /\ h1.tone = x.c.tone
    <3> HIDE DEF source
    <3>. QED  BY <1>1, <2>2 DEF Chips
  <2>5. /\ d \in Drvs /\ d.scratch = scratch
        /\ d.atten = d1.atten /\ d.test = d1.test /\ d.loop = d1.loop /\ d.delay = d1.delay
        /\ d.bypass = d1.bypass /\ d.factor = d1.factor /\ d.taps = d1.taps
        /\ d.filt = d1.filt /\ d.gov = d1.gov /\ d.tone = d1.tone
    <3> HIDE DEF scratch
    <3>. QED  BY <1>3, <2>2 DEF Drvs
  <2> HIDE DEF h, h1, d
  <2> DEFINE c2 == [h1 EXCEPT !.loop = loop]
             y == [h EXCEPT !.c.loop = loop]
  <2>6. y = [c |-> c2, d |-> d]
    <3> HIDE DEF loop
    <3>. QED  BY <2>3
  <2>7. /\ c2 \in Chips /\ c2.loop = loop /\ c2.source = source
        /\ c2.atten = x.c.atten /\ c2.test = x.c.test /\ c2.pn = x.c.pn
        /\ c2.delay = x.c.delay /\ c2.tree = x.c.tree /\ c2.tone = x.c.tone
    <3> HIDE DEF loop, source
    <3>. QED  BY <2>2, <2>4 DEF Chips
  <2> HIDE DEF c2, y
  <2>8. y \in Pairs /\ SameRest(x, y)
    BY <1>3, <2>5, <2>6, <2>7 DEF Pairs, SameRest
  <2>9. /\ y.c.atten = x.c.atten /\ y.d.atten = x.d.atten
        /\ y.c.test = x.c.test /\ y.d.test = x.d.test /\ y.d.loop = mode
        /\ y.c.loop = loop /\ y.c.source = source /\ y.d.scratch = scratch
    <3> HIDE DEF loop, source, scratch
    <3>. QED  BY <1>3, <2>5, <2>6, <2>7
  <2>10. BistLoopback(x, mode) = y
    BY <2>1 DEF y
  <2>. QED  BY <1>7, <2>8, <2>9, <2>10
<1>. QED  BY <1>6, <1>7

----------------------------------------------------------------------------
(* The steps of a call.                                                    *)

LEMMA StepKinds ==
  ASSUME NEW s \in CallSteps
  PROVE  /\ s.op = "chain" => s.ch \in Chains
         /\ s.op = "tune" => \/ s.flags = {} /\ s.max
                             \/ s.flags \in {{"skip"}, {"default"}} /\ ~s.max
         /\ s.op = "rate" => s.freq \in Nat
         /\ s.op \in {"sweep", "choose"} => s.path \in Paths
         /\ s.op = "firdone" => s.paths \in SUBSET Paths
         /\ s.op = "enable" => s.paths \in SUBSET Paths /\ s.on \in BOOLEAN
         /\ s.op = "loadfir" => s.config \in Configs /\ s.chain \in Loaded
BY DEF CallSteps, PlainSteps

LEMMA StepTypes ==
  /\ \A name \in PlainSteps : Step(name) \in CallSteps
  /\ \A ch \in Chains : Chain(ch) \in CallSteps
  /\ Tune({}, TRUE) \in CallSteps
  /\ Tune({"skip"}, FALSE) \in CallSteps /\ Tune({"default"}, FALSE) \in CallSteps
  /\ \A f \in Nat : AtRate(f) \in CallSteps /\ RateDone(f) \in CallSteps
  /\ \A p \in Paths : Sweep(p) \in CallSteps /\ Choose(p) \in CallSteps
  /\ \A s \in SUBSET Paths : FirDone(s) \in CallSteps
  /\ \A s \in SUBSET Paths, on \in BOOLEAN : EnableFir(s, on) \in CallSteps
  /\ \A c \in Configs, ch \in Loaded : LoadFir(c, ch) \in CallSteps
<1>1. \A name \in PlainSteps : Step(name) \in CallSteps
  BY DEF Step, CallSteps
<1>2. \A ch \in Chains : Chain(ch) \in CallSteps
  BY DEF Chain, CallSteps
<1>3. Tune({}, TRUE) \in CallSteps
  BY DEF Tune, CallSteps
<1>4. Tune({"skip"}, FALSE) \in CallSteps /\ Tune({"default"}, FALSE) \in CallSteps
  BY DEF Tune, CallSteps
<1>5. \A f \in Nat : AtRate(f) \in CallSteps /\ RateDone(f) \in CallSteps
  BY DEF AtRate, RateDone, CallSteps
<1>6. \A p \in Paths : Sweep(p) \in CallSteps /\ Choose(p) \in CallSteps
  BY DEF Sweep, Choose, CallSteps
<1>7. \A s \in SUBSET Paths : FirDone(s) \in CallSteps
  BY DEF FirDone, CallSteps
<1>8. \A s \in SUBSET Paths, on \in BOOLEAN : EnableFir(s, on) \in CallSteps
  BY DEF EnableFir, CallSteps
<1>9. \A c \in Configs, ch \in Loaded : LoadFir(c, ch) \in CallSteps
  BY DEF LoadFir, CallSteps
<1>. QED  BY <1>1, <1>2, <1>3, <1>4, <1>5, <1>6, <1>7, <1>8, <1>9

LEMMA StepOps ==
  /\ \A name : Step(name).op = name
  /\ \A ch : Chain(ch).op = "chain" /\ Chain(ch).ch = ch
  /\ \A flags, max : Tune(flags, max).op = "tune" /\ Tune(flags, max).max = max
  /\ \A f : AtRate(f).op = "rate" /\ RateDone(f).op = "ratedone"
  /\ \A p : Sweep(p).op = "sweep" /\ Choose(p).op = "choose"
            /\ Sweep(p).path = p /\ Choose(p).path = p
  /\ \A s : FirDone(s).op = "firdone"
  /\ \A s, on : EnableFir(s, on).op = "enable"
  /\ \A c, ch : LoadFir(c, ch).op = "loadfir"
BY DEF Step, Chain, Tune, AtRate, RateDone, Sweep, Choose, FirDone, EnableFir, LoadFir

\* r is q with the steps s in place of its first.
Replaced(q, s, r) ==
    /\ r \in Seq(CallSteps) /\ Len(r) = Len(s) + Len(q) - 1
    /\ \A i \in 1 .. Len(s) : r[i] = s[i]
    /\ \A i \in Len(s) + 1 .. Len(r) : r[i] = q[i - Len(s) + 1]

LEMMA PushFacts ==
  ASSUME NEW q \in Seq(CallSteps), q # <<>>, NEW s \in Seq(CallSteps)
  PROVE  Replaced(q, s, s \o Tail(q))
<1>1. Len(q) \in Nat /\ Len(q) >= 1 /\ Len(s) \in Nat
  BY EmptySeq
<1>2. /\ Tail(q) \in Seq(CallSteps) /\ Len(Tail(q)) = Len(q) - 1
      /\ \A i \in 1 .. Len(q) - 1 : Tail(q)[i] = q[i + 1]
  BY HeadTailProperties
<1> DEFINE u == Tail(q)
<1> HIDE DEF u
<1>3. u \in Seq(CallSteps) /\ Len(u) = Len(q) - 1 /\ \A i \in 1 .. Len(q) - 1 : u[i] = q[i + 1]
  BY <1>2 DEF u
<1>4. /\ s \o u \in Seq(CallSteps) /\ Len(s \o u) = Len(s) + Len(u)
      /\ \A i \in 1 .. Len(s) + Len(u) :
             (s \o u)[i] = IF i <= Len(s) THEN s[i] ELSE u[i - Len(s)]
  BY <1>3, ConcatProperties
<1>5. Replaced(q, s, s \o u)
  <2>1. ASSUME NEW i \in 1 .. Len(s) PROVE (s \o u)[i] = s[i]
    BY <1>1, <1>3, <1>4
  <2>2. ASSUME NEW i \in Len(s) + 1 .. Len(s \o u) PROVE (s \o u)[i] = q[i - Len(s) + 1]
    <3>1. i \in 1 .. Len(s) + Len(u) /\ ~(i <= Len(s)) /\ i - Len(s) \in 1 .. Len(q) - 1
      BY <1>1, <1>3, <1>4
    <3>. QED  BY <1>3, <1>4, <3>1
  <2>. QED  BY <1>1, <1>3, <1>4, <2>1, <2>2 DEF Replaced
<1>. QED  BY <1>5 DEF u

LEMMA PopFacts ==
  ASSUME NEW q \in Seq(CallSteps), q # <<>>
  PROVE  Replaced(q, <<>>, Tail(q))
<1>1. Len(q) \in Nat /\ Len(q) >= 1
  BY EmptySeq
<1>2. /\ Tail(q) \in Seq(CallSteps) /\ Len(Tail(q)) = Len(q) - 1
      /\ \A i \in 1 .. Len(q) - 1 : Tail(q)[i] = q[i + 1]
  BY HeadTailProperties
<1> DEFINE u == Tail(q)
<1>3. u \in Seq(CallSteps) /\ Len(u) = Len(q) - 1 /\ \A i \in 1 .. Len(q) - 1 : u[i] = q[i + 1]
  BY <1>2
<1> HIDE DEF u
<1>4. Len(<<>>) = 0
  OBVIOUS
<1> DEFINE s == <<>>
<1>6. Len(s) = 0
  BY <1>4
<1> HIDE DEF s
<1>5. Replaced(q, s, u)
  BY <1>1, <1>3, <1>6 DEF Replaced
<1>. QED  BY <1>5 DEF u, s

LEMMA HeadFacts ==
  ASSUME NEW q \in Seq(CallSteps), q # <<>>
  PROVE  /\ Head(q) = q[1] /\ q[1] \in CallSteps /\ Len(q) \in Nat /\ Len(q) >= 1
         /\ \A i \in 1 .. Len(q) : q[i] \in CallSteps
BY EmptySeq

LEMMA Singles ==
  ASSUME NEW x \in CallSteps
  PROVE  /\ <<x>> \in Seq(CallSteps) /\ Len(<<x>>) = 1 /\ <<x>>[1] = x
OBVIOUS

----------------------------------------------------------------------------
(* Where a call stands.                                                    *)

LEMMA NowFacts ==
  ASSUME Types
  PROVE  Now \in Pairs /\ Now.c = chip /\ Now.d = drv
BY DEF Types, Now, Pairs

LEMMA SourceAcross ==
  ASSUME SourceInv, ~Fresh,
         chip'.pn = chip.pn, chip'.source = chip.source, chip'.loop = chip.loop,
         drv'.loop = drv.loop, drv'.scratch = drv.scratch, want'.source = want.source
  PROVE  SourceInv'
BY DEF SourceInv, LoopIs

\* The next step of a tuning tells which part it is in, and how far from its end.
HeadAt(f, n) ==
    LET op == todo[1].op IN
    /\ op \in Clocking \cup Tuning
    /\ op = "tuneend" => n = 1
    /\ op # "tuneend" => n > 1 /\ "default" \notin f.flags
    /\ op \in Clocking => /\ f.max /\ ~FirActive
                          /\ (n >= 3 /\ RxPart(n)) \/ (n >= 4 /\ TxPart(f, n))
    /\ op = "sweep" => \/ n >= 3 /\ RxPart(n)
                       \/ n >= 4 /\ TxPart(f, n) /\ todo[1] = Sweep("tx")
    /\ op = "choose" => \/ n = 2 /\ RxPart(n) /\ todo[1] = Choose("rx")
                        \/ n = 3 /\ TxPart(f, n) /\ todo[1] = Choose("tx")
    /\ op = "txtune" => n >= 4 /\ TxPart(f, n)
    /\ op = "txend" => n = 2 /\ TxPart(f, n)

LEMMA TuningHead ==
  ASSUME Types, CallInv, frames # <<>>
  PROVE  /\ todo # <<>> /\ todo[1] \in CallSteps
         /\ \E f \in TuneFrames, n \in 1 .. Len(todo) :
                frames = <<f>> /\ Frame = f /\ TuneInv(f, n) /\ HeadAt(f, n)
<1>1. PICK f \in TuneFrames : frames = <<f>>
  BY DEF Types
<1>2. Frame = f
  BY <1>1 DEF Frame
<1>3. PICK n \in 1 .. Len(todo) : TuneInv(f, n)
  BY <1>2 DEF CallInv
<1>4. todo \in Seq(CallSteps) /\ todo # <<>>
  <2>1. todo \in Seq(CallSteps)
    BY DEF Types
  <2>. QED  BY <1>3, <2>1, EmptySeq
<1>5. n \in Nat /\ n >= 1 /\ todo[1] \in CallSteps
  BY <1>4, HeadFacts
<1>6. CASE n = 1
  <2>1. todo[1] = Step("tuneend")
    BY <1>3, <1>6 DEF TuneInv
  <2>2. todo[1].op = "tuneend"
    BY <2>1, StepOps
  <2>3. HeadAt(f, n)
    BY <1>6, <2>2 DEF HeadAt, Clocking, Tuning
  <2>. QED  BY <1>1, <1>2, <1>3, <1>4, <1>5, <2>3
<1>7. CASE n # 1
  <2>1. "default" \notin f.flags /\ (RxPart(n) \/ TxPart(f, n)) /\ todo[1].op # "tuneend"
    BY <1>3, <1>5, <1>7 DEF TuneInv
  <2>2. todo[1].op \in Clocking => f.max /\ ~FirActive
    BY <1>3, <1>5, <1>7 DEF TuneInv
  <2>3. ASSUME RxPart(n) PROVE HeadAt(f, n)
    <3>1. CASE n = 2
      <4>1. todo[1] = Choose("rx")
        BY <2>3, <3>1 DEF RxPart
      <4>2. todo[1].op = "choose"
        BY <4>1, StepOps
      <4>. QED  BY <2>1, <2>3, <3>1, <4>1, <4>2 DEF HeadAt, Clocking, Tuning
    <3>2. CASE n >= 3
      <4>1. todo[1].op \in Clocking \cup {"sweep"}
        BY <1>5, <2>3, <3>2 DEF RxPart
      <4>. QED  BY <1>5, <2>1, <2>2, <2>3, <3>2, <4>1 DEF HeadAt, Clocking, Tuning
    <3>. QED  BY <1>5, <1>7, <3>1, <3>2
  <2>4. ASSUME TxPart(f, n) PROVE HeadAt(f, n)
    <3>1. CASE n = 2
      <4>1. todo[1] = Step("txend")
        BY <2>4, <3>1 DEF TxPart
      <4>2. todo[1].op = "txend"
        BY <4>1, StepOps
      <4>. QED  BY <2>1, <2>4, <3>1, <4>1, <4>2 DEF HeadAt, Clocking, Tuning
    <3>2. CASE n = 3
      <4>1. todo[1] = Choose("tx")
        BY <2>4, <3>2 DEF TxPart
      <4>2. todo[1].op = "choose"
        BY <4>1, StepOps
      <4>. QED  BY <2>1, <2>4, <3>2, <4>1, <4>2 DEF HeadAt, Clocking, Tuning
    <3>3. CASE n >= 4
      <4>1. todo[1].op \in Clocking \/ todo[1] = Sweep("tx") \/ todo[1] = Step("txtune")
        BY <1>5, <2>4, <3>3 DEF TxPart
      <4>2. todo[1] = Sweep("tx") => todo[1].op = "sweep"
        BY StepOps
      <4>3. todo[1] = Step("txtune") => todo[1].op = "txtune"
        BY StepOps
      <4>. QED  BY <1>5, <2>1, <2>2, <2>4, <3>3, <4>1, <4>2, <4>3 DEF HeadAt, Clocking, Tuning
    <3>. QED  BY <1>5, <1>7, <3>1, <3>2, <3>3
  <2>5. HeadAt(f, n)
    BY <2>1, <2>3, <2>4
  <2>. QED  BY <1>1, <1>2, <1>3, <1>4, <1>5, <2>5
<1>. QED  BY <1>6, <1>7

\* Outside of a tuning: whatever a step puts in its place.
LEMMA OutsideKept ==
  ASSUME Types, CallInv, frames = <<>>, NEW s \in Seq(CallSteps),
         \/ todo # <<>> /\ Replaced(todo, s, todo')
         \/ todo = <<>> /\ todo' = s,
         \A i \in 2 .. Len(s) : s[i].op \notin Tuning \cup {"tune"},
         Len(s) > 0 => s[1].op \notin Tuning
  PROVE  /\ Outside(2)' /\ (todo' # <<>> => todo'[1].op \notin Tuning)
         /\ Fresh' => Len(s) > 0 /\ s[1].op = "tune" /\ s[1].max
         /\ todo' \in Seq(CallSteps)
<1>1. Outside(2) /\ (todo # <<>> => todo[1].op \notin Tuning)
  BY DEF CallInv
<1>2. todo \in Seq(CallSteps) /\ Len(todo) \in Nat /\ Len(s) \in Nat
  BY DEF Types
<1>3. ASSUME NEW q \in Seq(CallSteps), q = todo'
      PROVE  /\ \A i \in 2 .. Len(q) : q[i].op \notin Tuning \cup {"tune"}
             /\ q # <<>> => q[1].op \notin Tuning
             /\ q # <<>> => IF Len(s) > 0 THEN q[1] = s[1] ELSE q[1].op \notin Tuning \cup {"tune"}
  <2>0. Len(q) \in Nat /\ (q # <<>> => Len(q) >= 1)
    BY EmptySeq
  <2>1. CASE todo # <<>>
    <3>1. /\ Len(q) = Len(s) + Len(todo) - 1
          /\ \A i \in 1 .. Len(s) : q[i] = s[i]
          /\ \A i \in Len(s) + 1 .. Len(q) : q[i] = todo[i - Len(s) + 1]
      BY <1>3, <2>1 DEF Replaced
    <3>2. ASSUME NEW i \in 1 .. Len(q), i > Len(s)
          PROVE  q[i].op \notin Tuning \cup {"tune"}
      <4>1. i \in Len(s) + 1 .. Len(q) /\ i - Len(s) + 1 \in 2 .. Len(todo)
        BY <1>2, <2>0, <3>1, <3>2
      <4>. QED  BY <1>1, <3>1, <4>1 DEF Outside
    <3>3. ASSUME NEW i \in 1 .. Len(q), i <= Len(s)
          PROVE  q[i] = s[i]
      BY <1>2, <2>0, <3>1, <3>3
    <3>4. ASSUME NEW i \in 2 .. Len(q) PROVE q[i].op \notin Tuning \cup {"tune"}
      <4>1. CASE i > Len(s)
        BY <2>0, <3>2, <4>1
      <4>2. CASE i <= Len(s)
        BY <1>2, <2>0, <3>3, <4>2
      <4>. QED  BY <1>2, <2>0, <4>1, <4>2
    <3>5. ASSUME q # <<>>
          PROVE  IF Len(s) > 0 THEN q[1] = s[1] ELSE q[1].op \notin Tuning \cup {"tune"}
      BY <1>2, <2>0, <3>2, <3>3, <3>5
    <3>. QED  BY <1>2, <2>0, <3>4, <3>5
  <2>2. CASE todo = <<>>
    BY <1>2, <1>3, <2>0, <2>2
  <2>. QED  BY <2>1, <2>2
<1>4. todo' \in Seq(CallSteps)
  BY DEF Replaced
<1>5. /\ \A i \in 2 .. Len(todo') : todo'[i].op \notin Tuning \cup {"tune"}
      /\ todo' # <<>> => todo'[1].op \notin Tuning
      /\ todo' # <<>> => IF Len(s) > 0 THEN todo'[1] = s[1]
                         ELSE todo'[1].op \notin Tuning \cup {"tune"}
  BY <1>3, <1>4
<1>6. todo' # <<>> => Head(todo') = todo'[1]
  BY <1>4, HeadFacts
<1>7. Fresh' => todo' # <<>> /\ Head(todo').op = "tune" /\ Head(todo').max
  BY DEF Fresh, Ending
<1>. QED  BY <1>2, <1>4, <1>5, <1>6, <1>7 DEF Outside

\* The shape of what a call puts in its place: only its first step may begin a tuning.
Plain(s) ==
    /\ s \in Seq(CallSteps)
    /\ \A i \in 2 .. Len(s) : s[i].op \notin Tuning \cup {"tune"}
    /\ Len(s) > 0 => s[1].op \notin Tuning

LEMMA PlainSteps0 == Plain(<<>>)
BY EmptySeq DEF Plain

LEMMA PlainSteps1 ==
  ASSUME NEW a \in CallSteps, a.op \notin Tuning
  PROVE  Plain(<<a>>) /\ Len(<<a>>) = 1 /\ <<a>>[1] = a
BY DEF Plain

LEMMA PlainSteps2 ==
  ASSUME NEW a \in CallSteps, NEW b \in CallSteps, a.op \notin Tuning,
         b.op \notin Tuning \cup {"tune"}
  PROVE  Plain(<<a, b>>) /\ Len(<<a, b>>) = 2 /\ <<a, b>>[1] = a /\ <<a, b>>[2] = b
BY DEF Plain

LEMMA PlainSteps3 ==
  ASSUME NEW a \in CallSteps, NEW b \in CallSteps, NEW c \in CallSteps, a.op \notin Tuning,
         b.op \notin Tuning \cup {"tune"}, c.op \notin Tuning \cup {"tune"}
  PROVE  Plain(<<a, b, c>>) /\ Len(<<a, b, c>>) = 3 /\ <<a, b, c>>[1] = a
BY DEF Plain

\* A call begins between calls, and no tuning is in progress then.
LEMMA BeginFacts ==
  ASSUME Types, CallInv, NEW s, Plain(s), Begin(s), frames' = frames
  PROVE  /\ frames = <<>> /\ ~Fresh /\ SourceInv
         /\ todo' \in Seq(CallSteps) /\ ret' = "ok" /\ calls' \in 0 .. MaxCalls
         /\ Fresh' => Len(s) > 0 /\ s[1].op = "tune" /\ s[1].max
         /\ SourceInv' /\ (Fresh' => ~FirActive') => CallInv'
<1>1. todo = <<>> /\ todo' = s /\ ret' = "ok"
  BY DEF Begin, Idle
<1>2. frames = <<>>
  BY <1>1, TuningHead
<1>3. ~Fresh
  BY <1>1 DEF Fresh, Ending
<1>4. SourceInv
  BY <1>2 DEF CallInv
<1>5. calls' \in 0 .. MaxCalls
  <2>1. calls \in 0 .. MaxCalls /\ calls < MaxCalls /\ calls' = calls + 1 /\ MaxCalls \in Nat
    BY LinkAssumption DEF Begin, Types
  <2>. QED  BY <2>1
<1>6. /\ Outside(2)' /\ (todo' # <<>> => todo'[1].op \notin Tuning)
      /\ Fresh' => Len(s) > 0 /\ s[1].op = "tune" /\ s[1].max
      /\ todo' \in Seq(CallSteps)
  BY <1>1, <1>2, OutsideKept DEF Plain
<1>7. frames' = <<>>
  BY <1>2
<1>8. ASSUME SourceInv', Fresh' => ~FirActive' PROVE CallInv'
  BY <1>6, <1>7, <1>8 DEF CallInv
<1>. QED  BY <1>1, <1>2, <1>3, <1>4, <1>5, <1>6, <1>8

\* A step of a call that is none of a tuning's puts steps in its place.
LEMMA DoFacts ==
  ASSUME Types, CallInv, NEW name, Do(name), name \notin Clocking \cup Tuning,
         NEW s, Plain(s), todo' = s \o Tail(todo) \/ (s = <<>> /\ todo' = Tail(todo))
  PROVE  /\ frames = <<>> /\ SourceInv
         /\ name # "tune" => ~Fresh
         /\ todo' \in Seq(CallSteps) /\ calls' \in 0 .. MaxCalls
         /\ Head(todo) \in CallSteps /\ Head(todo).op = name
         /\ Fresh' => Len(s) > 0 /\ s[1].op = "tune" /\ s[1].max
         /\ frames' = frames /\ SourceInv' /\ (Fresh' => ~FirActive') => CallInv'
<1>1. /\ todo # <<>> /\ Head(todo).op = name /\ calls' = calls /\ todo \in Seq(CallSteps)
      /\ calls \in 0 .. MaxCalls
  BY DEF Do, Types
<1>2. Head(todo) = todo[1] /\ todo[1] \in CallSteps
  BY <1>1, HeadFacts
<1>3. frames = <<>>
  <2>1. SUFFICES ASSUME frames # <<>> PROVE FALSE
    OBVIOUS
  <2>2. PICK f \in TuneFrames, n \in 1 .. Len(todo) : HeadAt(f, n)
    BY <2>1, TuningHead
  <2>3. todo[1].op \in Clocking \cup Tuning
    BY <2>2 DEF HeadAt
  <2>. QED  BY <1>1, <1>2, <2>3
<1>4. SourceInv
  BY <1>3 DEF CallInv
<1>5. name # "tune" => ~Fresh
  BY <1>1 DEF Fresh, Ending
<1>6. Replaced(todo, s, todo')
  BY <1>1, PushFacts, PopFacts DEF Plain
<1>7. /\ Outside(2)' /\ (todo' # <<>> => todo'[1].op \notin Tuning)
      /\ Fresh' => Len(s) > 0 /\ s[1].op = "tune" /\ s[1].max
      /\ todo' \in Seq(CallSteps)
  BY <1>1, <1>3, <1>6, OutsideKept DEF Plain
<1>8. ASSUME frames' = frames, SourceInv', Fresh' => ~FirActive' PROVE CallInv'
  <2>1. frames' = <<>>
    BY <1>3, <1>8
  <2>. QED  BY <1>7, <1>8, <2>1 DEF CallInv
<1>. QED  BY <1>1, <1>2, <1>3, <1>4, <1>5, <1>7, <1>8

LEMMA TonesAcross ==
  ASSUME TonesKept, chip'.tone = chip.tone, drv'.tone = drv.tone, want'.rate = want.rate
  PROVE  TonesKept'
BY DEF TonesKept

LEMMA TypesAcross ==
  ASSUME Types, chip' \in Chips, drv' \in Drvs, ensm' \in Ensms, want' \in Wants,
         todo' \in Seq(CallSteps), frames' = frames, ret' \in {"ok", "error", "eio"},
         calls' \in 0 .. MaxCalls
  PROVE  Types'
BY DEF Types

LEMMA Parts ==
  ASSUME Types
  PROVE  /\ chip \in Chips /\ drv \in Drvs /\ ensm \in Ensms /\ want \in Wants
         /\ ret \in {"ok", "error", "eio"}
BY DEF Types

\* A call that leaves the source and the tones alone.
LEMMA QuietCall ==
  ASSUME IInv, NEW s, Plain(s), Begin(s), frames' = frames,
         chip' \in Chips, drv' \in Drvs, ensm' \in Ensms, want' \in Wants,
         ~(Len(s) > 0 /\ s[1].op = "tune"),
         chip'.pn = chip.pn, chip'.source = chip.source, chip'.loop = chip.loop,
         drv'.loop = drv.loop, drv'.scratch = drv.scratch, want'.source = want.source,
         chip'.tone = chip.tone, drv'.tone = drv.tone, want'.rate = want.rate
  PROVE  IInv'
<1>1. Types /\ CallInv /\ TonesKept
  BY DEF IInv
<1>2. /\ frames = <<>> /\ ~Fresh /\ SourceInv
      /\ todo' \in Seq(CallSteps) /\ ret' = "ok" /\ calls' \in 0 .. MaxCalls
      /\ Fresh' => Len(s) > 0 /\ s[1].op = "tune" /\ s[1].max
      /\ SourceInv' /\ (Fresh' => ~FirActive') => CallInv'
  BY <1>1, BeginFacts
<1>3. SourceInv'
  BY <1>2, SourceAcross
<1>4. CallInv'
  BY <1>2, <1>3
<1>5. TonesKept'
  BY <1>1, TonesAcross
<1>6. Types'
  BY <1>1, <1>2, TypesAcross
<1>. QED  BY <1>4, <1>5, <1>6 DEF IInv

\* The same of a step outside of a tuning.
LEMMA QuietStep ==
  ASSUME IInv, NEW name, Do(name), name \notin Clocking \cup Tuning \cup {"tune"},
         NEW s, Plain(s), todo' = s \o Tail(todo) \/ (s = <<>> /\ todo' = Tail(todo)),
         frames' = frames, Len(s) > 0 /\ s[1].op = "tune" => ~s[1].max,
         chip' \in Chips, drv' \in Drvs, ensm' \in Ensms, want' \in Wants,
         ret' \in {"ok", "error", "eio"},
         chip'.pn = chip.pn, chip'.source = chip.source, chip'.loop = chip.loop,
         drv'.loop = drv.loop, drv'.scratch = drv.scratch, want'.source = want.source,
         chip'.tone = chip.tone, drv'.tone = drv.tone, want'.rate = want.rate
  PROVE  IInv'
<1>1. Types /\ CallInv /\ TonesKept
  BY DEF IInv
<1>2. /\ frames = <<>> /\ SourceInv /\ ~Fresh
      /\ todo' \in Seq(CallSteps) /\ calls' \in 0 .. MaxCalls
      /\ Fresh' => Len(s) > 0 /\ s[1].op = "tune" /\ s[1].max
      /\ frames' = frames /\ SourceInv' /\ (Fresh' => ~FirActive') => CallInv'
  BY <1>1, DoFacts
<1>3. SourceInv'
  BY <1>2, SourceAcross
<1>4. CallInv'
  BY <1>2, <1>3
<1>5. TonesKept'
  BY <1>1, TonesAcross
<1>6. Types'
  BY <1>1, <1>2, TypesAcross
<1>. QED  BY <1>4, <1>5, <1>6 DEF IInv

----------------------------------------------------------------------------
(* Calls and steps that touch neither the source nor the tones.            *)

LEMMA AttenuateKeeps ==
  ASSUME IInv, NEW ch \in 1 .. 2, NEW a \in Attens, Attenuate(ch, a)
  PROVE  IInv'
<1>0. /\ chip \in Chips /\ drv \in Drvs /\ ensm \in Ensms /\ want \in Wants
  BY Parts DEF IInv
<1>1. /\ Begin(<<>>) /\ a <= MaxAtten
      /\ chip' = SetTxAtten(chip, {ch}, [i \in 1 .. 2 |-> a])
      /\ want' = [want EXCEPT !.atten[ch] = a]
      /\ drv' = drv /\ ensm' = ensm /\ frames' = frames
  BY DEF Attenuate
<1>2. a \in 0 .. MaxAtten
  BY <1>1, LinkAssumption
<1> DEFINE b == [i \in 1 .. 2 |-> IF i \in {ch} THEN a ELSE chip.atten[i]]
           w == [want.atten EXCEPT ![ch] = a]
<1>3. b \in AttenPairs
  BY <1>0, <1>2 DEF Chips, AttenPairs
<1>4. w \in AttenPairs
  BY <1>0, <1>2 DEF Wants, AttenPairs
<1>5. chip' = [chip EXCEPT !.atten = b]
  BY <1>1 DEF SetTxAtten
<1>6. want' = [want EXCEPT !.atten = w]
  BY <1>1
<1> HIDE DEF b, w
<1>7. /\ chip' \in Chips /\ chip'.pn = chip.pn /\ chip'.source = chip.source
      /\ chip'.loop = chip.loop /\ chip'.tone = chip.tone
  BY <1>0, <1>3, <1>5 DEF Chips
<1>8. want' \in Wants /\ want'.source = want.source /\ want'.rate = want.rate
  BY <1>0, <1>4, <1>6 DEF Wants
<1> DEFINE s == <<>>
<1>9. Plain(s) /\ Begin(s) /\ ~(Len(s) > 0 /\ s[1].op = "tune")
  BY <1>1, PlainSteps0, EmptySeq
<1> HIDE DEF s
<1>. QED  BY <1>0, <1>1, <1>7, <1>8, <1>9, QuietCall

LEMMA TestKeeps ==
  ASSUME IInv, NEW mode \in Tests, Test(mode)
  PROVE  IInv'
<1>0. Types /\ chip \in Chips /\ drv \in Drvs /\ ensm \in Ensms /\ want \in Wants
  BY Parts DEF IInv
<1> DEFINE x == BistPrbs(Now, mode)
<1>1. /\ Begin(<<>>) /\ chip' = x.c /\ drv' = x.d /\ ensm' = ensm /\ frames' = frames
      /\ want' = want
  BY DEF Test, Set
<1>2. Now \in Pairs /\ Now.c = chip /\ Now.d = drv
  BY <1>0, NowFacts
<1>3. /\ x \in Pairs /\ SameRest(Now, x)
      /\ x.c.loop = chip.loop /\ x.d.loop = drv.loop /\ x.c.source = chip.source
      /\ x.d.scratch = drv.scratch
  BY <1>2, PrbsFacts
<1> HIDE DEF x
<1>4. /\ x.c \in Chips /\ x.d \in Drvs
      /\ x.c.pn = chip.pn /\ x.c.tone = chip.tone /\ x.d.tone = drv.tone
  BY <1>2, <1>3, PairFields DEF SameRest
<1> DEFINE s == <<>>
<1>9. Plain(s) /\ Begin(s) /\ ~(Len(s) > 0 /\ s[1].op = "tune")
  BY <1>1, PlainSteps0, EmptySeq
<1> HIDE DEF s
<1>. QED  BY <1>0, <1>1, <1>3, <1>4, <1>9, QuietCall

LEMMA ModeKeeps ==
  ASSUME IInv, NEW m \in AskedModes, Mode(m)
  PROVE  IInv'
<1>0. /\ chip \in Chips /\ drv \in Drvs /\ ensm \in Ensms /\ want \in Wants
  BY Parts DEF IInv
<1>1. /\ Begin(<<>>) /\ ensm' = SetState(SetEnsmMode(ensm, ensm.fdd), m, FALSE)
      /\ chip' = chip /\ drv' = drv /\ frames' = frames /\ want' = want
  BY DEF Mode
<1>2. ensm' \in Ensms
  <2>1. m \in States \cup {"sleep"}
    BY LinkAssumption
  <2>2. SetEnsmMode(ensm, ensm.fdd) \in Ensms
    BY <1>0, EnsmFields, ModeType
  <2>. QED  BY <1>1, <2>1, <2>2, SetStateType
<1> DEFINE s == <<>>
<1>9. Plain(s) /\ Begin(s) /\ ~(Len(s) > 0 /\ s[1].op = "tune")
  BY <1>1, PlainSteps0, EmptySeq
<1> HIDE DEF s
<1>. QED  BY <1>0, <1>1, <1>2, <1>9, QuietCall

LEMMA RateGovKeeps ==
  ASSUME IInv, NEW g \in 0 .. 1, RateGov(g)
  PROVE  IInv'
<1>0. /\ chip \in Chips /\ drv \in Drvs /\ ensm \in Ensms /\ want \in Wants
  BY Parts DEF IInv
<1>1. /\ Begin(<<>>) /\ drv' = [drv EXCEPT !.gov = g]
      /\ chip' = chip /\ ensm' = ensm /\ frames' = frames /\ want' = want
  BY DEF RateGov
<1>2. /\ drv' \in Drvs /\ drv'.loop = drv.loop /\ drv'.scratch = drv.scratch
      /\ drv'.tone = drv.tone
  BY <1>0, <1>1 DEF Drvs
<1> DEFINE s == <<>>
<1>9. Plain(s) /\ Begin(s) /\ ~(Len(s) > 0 /\ s[1].op = "tune")
  BY <1>1, PlainSteps0, EmptySeq
<1> HIDE DEF s
<1>. QED  BY <1>0, <1>1, <1>2, <1>9, QuietCall

\* The factors that a calculation takes are those of a filter.
LEMMA InUseType ==
  ASSUME IInv, NEW f \in Nat, CanCalculate(f)
  PROVE  ChainFor(f) \in Chains
<1>0. drv \in Drvs
  BY Parts DEF IInv
<1>1. ASSUME NEW p \in Paths, InUse(p) > 0 PROVE InUse(p) \in Factors
  <2>1. drv.factor[p] \in Factors \cup {0}
    BY <1>0 DEF Drvs
  <2>. QED  BY <1>1, <2>1 DEF InUse, Factors
<1>2. InUse("rx") \in Factors /\ InUse("tx") \in Factors
  BY <1>1 DEF CanCalculate, Paths
<1>3. drv.gov \in 0 .. 1
  BY <1>0 DEF Drvs
<1>. QED  BY <1>2, <1>3, CalculatedChain DEF CanCalculate, ChainFor

LEMMA SamplingFreqKeeps ==
  ASSUME IInv, NEW f \in Freqs, SamplingFreq(f)
  PROVE  IInv'
<1>0. /\ chip \in Chips /\ drv \in Drvs /\ ensm \in Ensms /\ want \in Wants
  BY Parts DEF IInv
<1>1. /\ CanCalculate(f) /\ Begin(<<Chain(ChainFor(f)), RateDone(f)>>)
      /\ chip' = chip /\ drv' = drv /\ ensm' = ensm /\ frames' = frames /\ want' = want
  BY DEF SamplingFreq
<1>2. f \in Nat
  BY LinkAssumption
<1> DEFINE a == Chain(ChainFor(f))
           b == RateDone(f)
<1>3. a \in CallSteps /\ b \in CallSteps /\ a.op = "chain" /\ b.op = "ratedone"
  BY <1>1, <1>2, InUseType, StepTypes, StepOps
<1> HIDE DEF a, b
<1> DEFINE s == <<a, b>>
<1>9. Plain(s) /\ s[1] = a
  BY <1>3, PlainSteps2 DEF Tuning
<1>10. Begin(s)
  BY <1>1 DEF a, b
<1> HIDE DEF s
<1>11. ~(Len(s) > 0 /\ s[1].op = "tune")
  BY <1>3, <1>9
<1>. QED  BY <1>0, <1>1, <1>9, <1>10, <1>11, QuietCall

LEMMA SetPathClksKeeps ==
  ASSUME IInv, NEW ch \in PathClks, SetPathClks(ch)
  PROVE  IInv'
<1>0. /\ chip \in Chips /\ drv \in Drvs /\ ensm \in Ensms /\ want \in Wants
  BY Parts DEF IInv
<1>1. /\ Begin(<<Chain(ch), Step("pathdone")>>)
      /\ chip' = chip /\ drv' = drv /\ ensm' = ensm /\ frames' = frames /\ want' = want
  BY DEF SetPathClks
<1> DEFINE a == Chain(ch)
           b == Step("pathdone")
<1>3. a \in CallSteps /\ b \in CallSteps /\ a.op = "chain" /\ b.op = "pathdone"
  BY StepTypes, StepOps DEF Chains, PlainSteps
<1> HIDE DEF a, b
<1> DEFINE s == <<a, b>>
<1>9. Plain(s) /\ s[1] = a
  BY <1>3, PlainSteps2 DEF Tuning
<1>10. Begin(s)
  BY <1>1 DEF a, b
<1> HIDE DEF s
<1>11. ~(Len(s) > 0 /\ s[1].op = "tune")
  BY <1>3, <1>9
<1>. QED  BY <1>0, <1>1, <1>9, <1>10, <1>11, QuietCall

LEMMA LoadEnableKeeps ==
  ASSUME IInv, NEW c \in Configs, LoadEnable(c)
  PROVE  IInv'
<1>0. /\ chip \in Chips /\ drv \in Drvs /\ ensm \in Ensms /\ want \in Wants
  BY Parts DEF IInv
<1>1. /\ Begin(<<LoadFir(c, c.chain), EnableFir(Paths, TRUE)>>)
      /\ chip' = chip /\ drv' = drv /\ ensm' = ensm /\ frames' = frames /\ want' = want
  BY DEF LoadEnable
<1> DEFINE a == LoadFir(c, c.chain)
           b == EnableFir(Paths, TRUE)
<1>3. a \in CallSteps /\ b \in CallSteps /\ a.op = "loadfir" /\ b.op = "enable"
  <2>1. c.chain \in Loaded
    BY DEF Loaded
  <2>2. LoadFir(c, c.chain) \in CallSteps /\ LoadFir(c, c.chain).op = "loadfir"
    BY <2>1, StepTypes, StepOps
  <2>3. Paths \in SUBSET Paths
    OBVIOUS
  <2>4. \A on \in BOOLEAN : /\ EnableFir(Paths, on) \in CallSteps
                            /\ EnableFir(Paths, on).op = "enable"
    BY <2>3, StepTypes, StepOps
  <2>. QED  BY <2>2, <2>4
<1> HIDE DEF a, b
<1> DEFINE s == <<a, b>>
<1>9. Plain(s) /\ s[1] = a
  BY <1>3, PlainSteps2 DEF Tuning
<1>10. Begin(s)
  BY <1>1 DEF a, b
<1> HIDE DEF s
<1>11. ~(Len(s) > 0 /\ s[1].op = "tune")
  BY <1>3, <1>9
<1>. QED  BY <1>0, <1>1, <1>9, <1>10, <1>11, QuietCall

LEMMA ProfileKeeps ==
  ASSUME IInv, NEW c \in Configs, Profile(c)
  PROVE  IInv'
<1>0. /\ chip \in Chips /\ drv \in Drvs /\ ensm \in Ensms /\ want \in Wants
  BY Parts DEF IInv
<1>1. /\ Begin(<<EnableFir(Paths, FALSE), LoadFir(c, c.chain), EnableFir(Paths, TRUE)>>)
      /\ chip' = chip /\ drv' = drv /\ ensm' = ensm /\ frames' = frames /\ want' = want
  BY DEF Profile
<1> DEFINE a == EnableFir(Paths, FALSE)
           b == LoadFir(c, c.chain)
           d == EnableFir(Paths, TRUE)
<1>3. /\ a \in CallSteps /\ b \in CallSteps /\ d \in CallSteps
      /\ a.op = "enable" /\ b.op = "loadfir" /\ d.op = "enable"
  <2>1. c.chain \in Loaded
    BY DEF Loaded
  <2>2. LoadFir(c, c.chain) \in CallSteps /\ LoadFir(c, c.chain).op = "loadfir"
    BY <2>1, StepTypes, StepOps
  <2>3. Paths \in SUBSET Paths
    OBVIOUS
  <2>4. \A on \in BOOLEAN : /\ EnableFir(Paths, on) \in CallSteps
                            /\ EnableFir(Paths, on).op = "enable"
    BY <2>3, StepTypes, StepOps
  <2>. QED  BY <2>2, <2>4
<1> HIDE DEF a, b, d
<1> DEFINE s == <<a, b, d>>
<1>9. Plain(s) /\ s[1] = a
  BY <1>3, PlainSteps3 DEF Tuning
<1>10. Begin(s)
  BY <1>1 DEF a, b, d
<1> HIDE DEF s
<1>11. ~(Len(s) > 0 /\ s[1].op = "tune")
  BY <1>3, <1>9
<1>. QED  BY <1>0, <1>1, <1>9, <1>10, <1>11, QuietCall

LEMMA ConfigureKeeps ==
  ASSUME IInv, NEW c \in Configs, Configure(c)
  PROVE  IInv'
<1>0. /\ chip \in Chips /\ drv \in Drvs /\ ensm \in Ensms /\ want \in Wants
  BY Parts DEF IInv
<1>1. /\ Begin(<<LoadFir(c, drv.filt)>>)
      /\ chip' = chip /\ drv' = drv /\ ensm' = ensm /\ frames' = frames /\ want' = want
  BY DEF Configure
<1>2. drv.filt \in Loaded
  BY <1>0 DEF Drvs
<1> DEFINE a == LoadFir(c, drv.filt)
<1>3. a \in CallSteps /\ a.op = "loadfir"
  BY <1>2, StepTypes, StepOps
<1> HIDE DEF a
<1> DEFINE s == <<a>>
<1>9. Plain(s) /\ s[1] = a
  BY <1>3, PlainSteps1 DEF Tuning
<1>10. Begin(s)
  BY <1>1 DEF a
<1> HIDE DEF s
<1>11. ~(Len(s) > 0 /\ s[1].op = "tune")
  BY <1>3, <1>9
<1>. QED  BY <1>0, <1>1, <1>9, <1>10, <1>11, QuietCall

LEMMA FiltersKeeps ==
  ASSUME IInv, NEW paths \in SUBSET Paths, NEW on \in BOOLEAN, Filters(paths, on)
  PROVE  IInv'
<1>0. /\ chip \in Chips /\ drv \in Drvs /\ ensm \in Ensms /\ want \in Wants
  BY Parts DEF IInv
<1>1. /\ Begin(<<EnableFir(paths, on)>>)
      /\ chip' = chip /\ drv' = drv /\ ensm' = ensm /\ frames' = frames /\ want' = want
  BY DEF Filters
<1> DEFINE a == EnableFir(paths, on)
<1>3. a \in CallSteps /\ a.op = "enable"
  BY StepTypes, StepOps
<1> HIDE DEF a
<1> DEFINE s == <<a>>
<1>9. Plain(s) /\ s[1] = a
  BY <1>3, PlainSteps1 DEF Tuning
<1>10. Begin(s)
  BY <1>1 DEF a
<1> HIDE DEF s
<1>11. ~(Len(s) > 0 /\ s[1].op = "tune")
  BY <1>3, <1>9
<1>. QED  BY <1>0, <1>1, <1>9, <1>10, <1>11, QuietCall

\* ad9361_load_fir_filter_coef
LEMMA FirConfigKeeps ==
  ASSUME IInv, FirConfig
  PROVE  IInv'
<1>0. /\ Types /\ CallInv /\ chip \in Chips /\ drv \in Drvs /\ ensm \in Ensms /\ want \in Wants
      /\ ret \in {"ok", "error", "eio"}
  BY Parts DEF IInv
<1> DEFINE c == Head(todo).config
           h == Head(todo).chain
           factor == Both(c.factor)
           taps == IF c.taps \in 16 .. 128 THEN Both(c.taps) ELSE drv.taps
<1>1. /\ Do("loadfir") /\ todo' = Tail(todo)
      /\ drv' = [drv EXCEPT !.factor = factor, !.taps = taps, !.filt = h]
      /\ ensm' = IF c.taps \in 16 .. 128 THEN InAlert(ensm) ELSE ensm
      /\ chip' = chip /\ frames' = frames /\ ret' = ret /\ want' = want
  BY DEF FirConfig, Pop
<1>2. /\ Head(todo) \in CallSteps /\ Head(todo).op = "loadfir"
  BY <1>0, <1>1, HeadFacts DEF Do, Types
<1>3. c \in Configs /\ h \in Loaded
  BY <1>2, StepKinds
<1>4. c.factor \in Factors /\ c.taps \in Nat
  BY <1>3, LinkAssumption
<1>5. factor \in [Paths -> Factors \cup {0}]
  BY <1>4 DEF Both
<1>6. taps \in [Paths -> Nat]
  BY <1>0, <1>4 DEF Both, Drvs
<1>7. ensm' \in Ensms
  BY <1>0, <1>1, InAlertType
<1> HIDE DEF c, h, factor, taps
<1>8. /\ drv' \in Drvs /\ drv'.loop = drv.loop /\ drv'.scratch = drv.scratch
      /\ drv'.tone = drv.tone
  BY <1>0, <1>1, <1>3, <1>5, <1>6 DEF Drvs
<1> DEFINE s == <<>>
<1>9. Plain(s) /\ ~(Len(s) > 0) /\ s = <<>>
  BY PlainSteps0, EmptySeq
<1> HIDE DEF s
<1>10. "loadfir" \notin Clocking \cup Tuning \cup {"tune"}
  BY DEF Clocking, Tuning
<1>. QED  BY <1>0, <1>1, <1>7, <1>8, <1>9, <1>10, QuietStep

\* What may be bypassed after a call that enables or disables filters has failed.
LEMMA FailsType ==
  ASSUME NEW b \in [Paths -> BOOLEAN], NEW s
  PROVE  FirFails(b, s) \in [Paths -> BOOLEAN]
BY DEF FirFails

LEMMA FirEnDisKeeps ==
  ASSUME IInv, FirEnDis
  PROVE  IInv'
<1>0. /\ Types /\ CallInv /\ chip \in Chips /\ drv \in Drvs /\ ensm \in Ensms /\ want \in Wants
      /\ ret \in {"ok", "error", "eio"}
  BY Parts DEF IInv
<1> DEFINE s == Head(todo).paths
           on == Head(todo).on
           b == [p \in Paths |-> IF p \in s THEN ~on ELSE drv.bypass[p]]
           Dec(p) == IF b[p] THEN 1 ELSE drv.factor[p]
           Can(f) == Calculable(f, Dec("rx"), Dec("tx"), drv.gov)
           rate == Rate(chip.tree, "tx")
           own == drv.filt # NoChain /\ ~b["rx"] /\ ~b["tx"]
           freq == IF Can(rate) THEN rate ELSE Lowest
           ch == IF own THEN drv.filt ELSE Calculate(freq, Dec("rx"), Dec("tx"), drv.gov)
           same == \A p \in s : drv.bypass[p] = ~on
           bad == BadFactor(b) \/ (~own /\ ~Can(freq)) \/ Refuses(b, ch)
<1>1. /\ Do("enable") /\ chip' = chip /\ ensm' = ensm /\ frames' = frames /\ want' = want
      /\ IF same THEN ret' = "ok" /\ todo' = Tail(todo) /\ drv' = drv
         ELSE IF bad THEN /\ ret' = "error" /\ todo' = Tail(todo)
                          /\ drv' = [drv EXCEPT !.bypass = FirFails(b, s)]
         ELSE /\ drv' = [drv EXCEPT !.bypass = b]
              /\ todo' = <<Chain(ch), Step("firtune"), FirDone(s)>> \o Tail(todo)
              /\ ret' = ret
  BY DEF FirEnDis, Pop, Push
<1>2. /\ Head(todo) \in CallSteps /\ Head(todo).op = "enable"
  BY <1>0, <1>1, HeadFacts DEF Do, Types
<1>3. s \in SUBSET Paths /\ on \in BOOLEAN
  BY <1>2, StepKinds
<1>4. b \in [Paths -> BOOLEAN]
  BY <1>0, <1>3 DEF Drvs
<1>5. ASSUME ~bad PROVE ch \in Chains
  <2>1. CASE own
    <3>1. drv.filt \in Loaded
      BY <1>0 DEF Drvs
    <3>. QED  BY <2>1, <3>1 DEF Chains
  <2>2. CASE ~own
    <3>1. Can(freq) /\ ~BadFactor(b)
      BY <1>5, <2>2
    <3> HIDE DEF b
    <3>2. ASSUME NEW p \in Paths PROVE Dec(p) \in Factors
      <4>1. drv.factor[p] \in Factors \cup {0}
        BY <1>0 DEF Drvs
      <4>2. ~b[p] => drv.factor[p] # 0
        BY <3>1 DEF BadFactor, Paths
      <4>. QED  BY <4>1, <4>2 DEF Factors
    <3>3. Dec("rx") \in Factors /\ Dec("tx") \in Factors
      BY <3>2 DEF Paths
    <3>4. freq \in Nat
      <4>1. rate \in Nat
        BY <1>0, TxRateFacts DEF Chips
      <4>2. Lowest \in Nat
        BY SMT DEF Lowest
      <4> HIDE DEF rate, Can
      <4>. QED  BY <4>1, <4>2
    <3>5. drv.gov \in 0 .. 1
      BY <1>0 DEF Drvs
    <3> HIDE DEF Dec, freq
    <3>. QED  BY <2>2, <3>1, <3>3, <3>4, <3>5, CalculatedChain
  <2>. QED  BY <2>1, <2>2
<1> HIDE DEF ch, bad, same, b
<1>6. "enable" \notin Clocking \cup Tuning \cup {"tune"}
  BY DEF Clocking, Tuning
<1>7. ASSUME NEW g \in [Paths -> BOOLEAN], drv' = [drv EXCEPT !.bypass = g]
      PROVE  /\ drv' \in Drvs /\ drv'.loop = drv.loop /\ drv'.scratch = drv.scratch
             /\ drv'.tone = drv.tone
  BY <1>0, <1>7 DEF Drvs
<1>8. CASE same \/ bad
  <2>1. todo' = Tail(todo) /\ ret' \in {"ok", "error"}
    BY <1>1, <1>8
  <2>2. /\ drv' \in Drvs /\ drv'.loop = drv.loop /\ drv'.scratch = drv.scratch
        /\ drv'.tone = drv.tone
    <3>1. FirFails(b, s) \in [Paths -> BOOLEAN]
      BY <1>4, FailsType
    <3>. QED  BY <1>0, <1>1, <1>7, <1>8, <3>1
  <2> DEFINE t == <<>>
  <2>3. Plain(t) /\ ~(Len(t) > 0) /\ t = <<>>
    BY PlainSteps0, EmptySeq
  <2> HIDE DEF t
  <2>. QED  BY <1>0, <1>1, <1>6, <2>1, <2>2, <2>3, QuietStep
<1>9. CASE ~same /\ ~bad
  <2>1. /\ drv' \in Drvs /\ drv'.loop = drv.loop /\ drv'.scratch = drv.scratch
        /\ drv'.tone = drv.tone
    BY <1>1, <1>4, <1>7, <1>9
  <2> DEFINE x == Chain(ch)
             y == Step("firtune")
             z == FirDone(s)
  <2>2. /\ x \in CallSteps /\ y \in CallSteps /\ z \in CallSteps
        /\ x.op = "chain" /\ y.op = "firtune" /\ z.op = "firdone"
    BY <1>3, <1>5, <1>9, StepTypes, StepOps DEF PlainSteps
  <2>3. todo' = <<x, y, z>> \o Tail(todo) /\ ret' = ret
    BY <1>1, <1>9
  <2> HIDE DEF x, y, z
  <2> DEFINE t == <<x, y, z>>
  <2>4. Plain(t) /\ t[1] = x
    BY <2>2, PlainSteps3 DEF Tuning
  <2>5. todo' = t \o Tail(todo)
    BY <2>3
  <2> HIDE DEF t
  <2>6. Len(t) > 0 /\ t[1].op = "tune" => ~t[1].max
    BY <2>2, <2>4
  <2>. QED  BY <1>0, <1>1, <1>6, <2>1, <2>3, <2>4, <2>5, <2>6, QuietStep
<1>. QED  BY <1>8, <1>9

\* A step that ends what it does: it puts nothing in its place.
LEMMA LastStep ==
  ASSUME IInv, NEW name, Do(name), name \notin Clocking \cup Tuning \cup {"tune"},
         todo' = Tail(todo), frames' = frames, chip' = chip, want' = want,
         drv' \in Drvs, ensm' \in Ensms, ret' \in {"ok", "error", "eio"},
         drv'.loop = drv.loop, drv'.scratch = drv.scratch, drv'.tone = drv.tone
  PROVE  IInv'
<1>0. chip \in Chips /\ drv \in Drvs /\ ensm \in Ensms /\ want \in Wants
  BY Parts DEF IInv
<1> DEFINE s == <<>>
<1>1. Plain(s) /\ ~(Len(s) > 0) /\ s = <<>>
  BY PlainSteps0, EmptySeq
<1> HIDE DEF s
<1>. QED  BY <1>0, <1>1, QuietStep

LEMMA BandwidthType ==
  ASSUME ensm \in Ensms, Bandwidth
  PROVE  ensm' \in Ensms /\ ret' \in {"ok", "error"}
BY InAlertType, ForceType DEF Bandwidth

LEMMA FirTuneKeeps ==
  ASSUME IInv, FirTune
  PROVE  IInv'
<1>0. /\ chip \in Chips /\ drv \in Drvs /\ ensm \in Ensms /\ want \in Wants
      /\ ret \in {"ok", "error", "eio"}
  BY Parts DEF IInv
<1> DEFINE a == Tune({"default"}, FALSE)
           tunes == ret = "ok" /\ ~FirActive
           none == <<>>
           one == <<a>>
           s == IF tunes THEN one ELSE none
<1>1. /\ Do("firtune") /\ todo' = s \o Tail(todo)
      /\ chip' = chip /\ drv' = drv /\ ensm' = ensm /\ frames' = frames /\ want' = want
      /\ ret' = ret
  BY DEF FirTune, Push
<1>2. a \in CallSteps /\ a.op = "tune" /\ ~a.max
  <2>1. a \in CallSteps
    BY StepTypes
  <2>. QED  BY <2>1 DEF Tune
<1> HIDE DEF a
<1>3. Plain(none) /\ ~(Len(none) > 0)
  BY PlainSteps0, EmptySeq
<1>4. Plain(one) /\ one[1] = a
  BY <1>2, PlainSteps1 DEF Tuning
<1> HIDE DEF none, one, tunes
<1>5. Plain(s) /\ (Len(s) > 0 /\ s[1].op = "tune" => ~s[1].max)
  BY <1>2, <1>3, <1>4
<1>6. "firtune" \notin Clocking \cup Tuning \cup {"tune"}
  BY DEF Clocking, Tuning
<1> HIDE DEF s
<1>. QED  BY <1>0, <1>1, <1>5, <1>6, QuietStep

LEMMA FirEndKeeps ==
  ASSUME IInv, FirEnd
  PROVE  IInv'
<1>0. /\ chip \in Chips /\ drv \in Drvs /\ ensm \in Ensms /\ want \in Wants
      /\ ret \in {"ok", "error", "eio"}
  BY Parts DEF IInv
<1> DEFINE g == IF ret' = "ok" THEN drv.bypass ELSE FirFails(drv.bypass, Head(todo).paths)
<1>1. /\ Do("firdone") /\ todo' = Tail(todo) /\ drv' = [drv EXCEPT !.bypass = g]
      /\ chip' = chip /\ frames' = frames /\ want' = want
  BY DEF FirEnd, Pop
<1>2. ensm' \in Ensms /\ ret' \in {"ok", "error", "eio"}
  BY <1>0, BandwidthType DEF FirEnd
<1>3. drv.bypass \in [Paths -> BOOLEAN]
  BY <1>0 DEF Drvs
<1>4. g \in [Paths -> BOOLEAN]
  BY <1>3, FailsType
<1> HIDE DEF g
<1>5. /\ drv' \in Drvs /\ drv'.loop = drv.loop /\ drv'.scratch = drv.scratch
      /\ drv'.tone = drv.tone
  BY <1>0, <1>1, <1>4 DEF Drvs
<1>6. "firdone" \notin Clocking \cup Tuning \cup {"tune"}
  BY DEF Clocking, Tuning
<1>. QED  BY <1>1, <1>2, <1>5, <1>6, LastStep

LEMMA PathEndKeeps ==
  ASSUME IInv, PathEnd
  PROVE  IInv'
<1>0. /\ chip \in Chips /\ drv \in Drvs /\ ensm \in Ensms /\ want \in Wants
      /\ ret \in {"ok", "error", "eio"}
  BY Parts DEF IInv
<1>1. /\ Do("pathdone") /\ todo' = Tail(todo) /\ drv' = drv
      /\ chip' = chip /\ frames' = frames /\ want' = want
  BY DEF PathEnd, Pop
<1>2. ensm' \in Ensms /\ ret' \in {"ok", "error", "eio"}
  BY <1>0, BandwidthType DEF PathEnd
<1>6. "pathdone" \notin Clocking \cup Tuning \cup {"tune"}
  BY DEF Clocking, Tuning
<1>. QED  BY <1>0, <1>1, <1>2, <1>6, LastStep

LEMMA RateEndKeeps ==
  ASSUME IInv, RateEnd
  PROVE  IInv'
<1>0. /\ chip \in Chips /\ drv \in Drvs /\ ensm \in Ensms /\ want \in Wants
  BY Parts DEF IInv
<1>1. /\ Do("ratedone") /\ todo' = Tail(todo) /\ drv' = drv
      /\ chip' = chip /\ frames' = frames /\ want' = want
  BY DEF RateEnd, Pop
<1>2. ensm' \in Ensms /\ ret' \in {"ok", "error", "eio"}
  BY <1>0, BandwidthType DEF RateEnd
<1>6. "ratedone" \notin Clocking \cup Tuning \cup {"tune"}
  BY DEF Clocking, Tuning
<1>. QED  BY <1>0, <1>1, <1>2, <1>6, LastStep

LEMMA SettleKeeps ==
  ASSUME IInv, Settle
  PROVE  IInv'
<1>0. /\ chip \in Chips /\ drv \in Drvs /\ ensm \in Ensms /\ want \in Wants
      /\ ret \in {"ok", "error", "eio"}
  BY Parts DEF IInv
<1>1. /\ Do("settle") /\ todo' = Tail(todo) /\ drv' = drv /\ ret' = ret
      /\ chip' = chip /\ frames' = frames /\ want' = want /\ ensm' = InAlert(ensm)
  BY DEF Settle, Pop
<1>2. ensm' \in Ensms
  BY <1>0, <1>1, InAlertType
<1>6. "settle" \notin Clocking \cup Tuning \cup {"tune"}
  BY DEF Clocking, Tuning
<1>. QED  BY <1>0, <1>1, <1>2, <1>6, LastStep

LEMMA PostedKeeps ==
  ASSUME IInv, Posted
  PROVE  IInv'
<1>0. /\ chip \in Chips /\ drv \in Drvs /\ ensm \in Ensms /\ want \in Wants
      /\ ret \in {"ok", "error", "eio"}
  BY Parts DEF IInv
<1> DEFINE a == Chain(SetupChain)
           b == Step("settle")
           none == <<>>
           two == <<a, b>>
           s == IF ret = "ok" THEN two ELSE none
<1>1. /\ Do("posted") /\ todo' = s \o Tail(todo)
      /\ chip' = chip /\ drv' = drv /\ ensm' = ensm /\ frames' = frames /\ want' = want
      /\ ret' = ret
  BY DEF Posted, Push
<1>2. a \in CallSteps /\ b \in CallSteps /\ a.op = "chain" /\ b.op = "settle"
  BY StepTypes, StepOps DEF Chains, PlainSteps
<1> HIDE DEF a, b
<1>3. Plain(none) /\ ~(Len(none) > 0)
  BY PlainSteps0, EmptySeq
<1>4. Plain(two) /\ two[1] = a
  BY <1>2, PlainSteps2 DEF Tuning
<1> HIDE DEF none, two
<1>5. Plain(s) /\ (Len(s) > 0 /\ s[1].op = "tune" => ~s[1].max)
  BY <1>2, <1>3, <1>4
<1>6. "posted" \notin Clocking \cup Tuning \cup {"tune"}
  BY DEF Clocking, Tuning
<1> HIDE DEF s
<1>. QED  BY <1>0, <1>1, <1>5, <1>6, QuietStep


----------------------------------------------------------------------------
(* Calls that set the source or the tones.                                 *)

\* A call of no further steps, once its source and its tones are known to be right.
LEMMA PlainCall ==
  ASSUME IInv, Begin(<<>>), frames' = frames, chip' \in Chips, drv' \in Drvs, ensm' \in Ensms,
         want' \in Wants, SourceInv', TonesKept'
  PROVE  IInv'
<1>1. Types /\ CallInv
  BY DEF IInv
<1> DEFINE s == <<>>
<1>2. Plain(s) /\ Begin(s) /\ ~(Len(s) > 0)
  BY PlainSteps0, EmptySeq
<1> HIDE DEF s
<1>3. /\ todo' \in Seq(CallSteps) /\ ret' = "ok" /\ calls' \in 0 .. MaxCalls
      /\ Fresh' => Len(s) > 0 /\ s[1].op = "tune" /\ s[1].max
      /\ SourceInv' /\ (Fresh' => ~FirActive') => CallInv'
  BY <1>1, <1>2, BeginFacts
<1>4. CallInv'
  BY <1>2, <1>3
<1>5. Types'
  BY <1>1, <1>3, TypesAcross
<1>. QED  BY <1>4, <1>5 DEF IInv

\* Between calls the invariant of the source holds, and no tuning of the set-up is due.
LEMMA BetweenCalls ==
  ASSUME IInv, NEW s, Begin(s)
  PROVE  /\ Types /\ CallInv /\ TonesKept /\ frames = <<>> /\ ~Fresh /\ SourceInv
         /\ chip \in Chips /\ drv \in Drvs /\ ensm \in Ensms /\ want \in Wants
         /\ Now \in Pairs /\ Now.c = chip /\ Now.d = drv
         /\ chip.source # "pn" /\ want.source \in {"dds", "dma"}
         /\ TxRate \in Nat \ {0}
<1>1. Types /\ CallInv /\ TonesKept
  BY DEF IInv
<1>2. todo = <<>>
  BY DEF Begin, Idle
<1>3. frames = <<>> /\ ~Fresh
  BY <1>1, <1>2, TuningHead DEF Fresh, Ending
<1>4. SourceInv
  BY <1>1, <1>3 DEF CallInv
<1>5. /\ chip \in Chips /\ drv \in Drvs /\ ensm \in Ensms /\ want \in Wants
      /\ Now \in Pairs /\ Now.c = chip /\ Now.d = drv
  BY <1>1, Parts, NowFacts
<1>6. want.source \in {"dds", "dma"}
  BY <1>5 DEF Wants
<1>7. chip.source # "pn"
  BY <1>4, <1>6 DEF SourceInv
<1>8. TxRate \in Nat \ {0}
  <2>1. chip.tree \in TreeTypes
    BY <1>5 DEF Chips
  <2>. QED  BY <2>1, TxRateFacts DEF TxRate
<1>. QED  BY <1>1, <1>3, <1>4, <1>5, <1>6, <1>7, <1>8

LEMMA LoopKeeps ==
  ASSUME IInv, NEW mode \in 0 .. 3, Loop(mode)
  PROVE  IInv'
<1> DEFINE x == BistLoopback(Now, mode)
<1>1. /\ Begin(<<>>) /\ chip' = x.c /\ drv' = x.d /\ ensm' = ensm /\ frames' = frames
      /\ want' = want
  BY DEF Loop, Set
<1>2. /\ TonesKept /\ ~Fresh /\ SourceInv /\ ensm \in Ensms /\ want \in Wants
      /\ Now \in Pairs /\ Now.c = chip /\ Now.d = drv
      /\ chip.source # "pn" /\ want.source \in {"dds", "dma"}
  BY <1>1, BetweenCalls
<1>3. /\ x \in Pairs /\ SameRest(Now, x) /\ x.d.loop = mode
      /\ mode = 3 => /\ x.c.loop = chip.loop /\ x.c.source = chip.source
                     /\ x.d.scratch = drv.scratch
      /\ mode # 3 => x.c.loop = (mode = 1)
      /\ mode \in {0, 1} => /\ x.c.source = IF chip.source = "adc" THEN drv.scratch
                                            ELSE chip.source
                            /\ x.d.scratch = drv.scratch
      /\ mode = 2 /\ chip.source = "adc" => /\ x.c.source = drv.scratch
                                            /\ x.d.scratch = drv.scratch
      /\ mode = 2 /\ chip.source # "adc" => /\ x.c.source = "adc"
                                            /\ x.d.scratch = chip.source
  BY <1>2, LoopbackFacts
<1> HIDE DEF x
<1>4. /\ x.c \in Chips /\ x.d \in Drvs /\ x.c.pn = chip.pn
      /\ x.c.tone = chip.tone /\ x.d.tone = drv.tone
  BY <1>2, <1>3, PairFields DEF SameRest
<1>5. mode = 0 \/ mode = 1 \/ mode = 2 \/ mode = 3
  OBVIOUS
<1>6. /\ chip.pn = "pn9"
      /\ chip.source = "adc" \/ chip.source = want.source
      /\ chip.source = "adc" => drv.scratch = want.source
  BY <1>2 DEF SourceInv
<1>7. SourceInv'
  <2>1. /\ chip'.pn = "pn9" /\ drv'.loop = mode /\ want'.source = want.source
        /\ chip'.source = "adc" \/ chip'.source = want.source
        /\ chip'.source = "adc" => drv'.scratch = want.source
    BY <1>1, <1>2, <1>3, <1>4, <1>5, <1>6
  <2>2. mode \in {0, 1} => chip'.source # "adc" /\ LoopIs(mode)'
    BY <1>1, <1>2, <1>3, <1>6 DEF LoopIs
  <2>. QED  BY <1>2, <2>1, <2>2 DEF SourceInv
<1>8. TonesKept'
  BY <1>1, <1>2, <1>4, TonesAcross
<1>. QED  BY <1>1, <1>2, <1>4, <1>7, <1>8, PlainCall

LEMMA SelectKeeps ==
  ASSUME IInv, NEW s \in {"dds", "dma"}, Select(s)
  PROVE  IInv'
<1>1. /\ Begin(<<>>) /\ chip' = [chip EXCEPT !.source = s] /\ want' = [want EXCEPT !.source = s]
      /\ drv' = drv /\ ensm' = ensm /\ frames' = frames
  BY DEF Select
<1>2. /\ TonesKept /\ ~Fresh /\ SourceInv /\ ensm \in Ensms /\ want \in Wants
      /\ chip \in Chips /\ drv \in Drvs
  BY <1>1, BetweenCalls
<1>3. /\ chip' \in Chips /\ chip'.source = s /\ chip'.pn = chip.pn /\ chip'.loop = chip.loop
      /\ chip'.tone = chip.tone
  BY <1>1, <1>2 DEF Chips, Sources
<1>4. want' \in Wants /\ want'.source = s /\ want'.rate = want.rate
  BY <1>1, <1>2 DEF Wants
<1>5. SourceInv'
  <2>1. drv.loop \in {0, 1} => LoopIs(drv.loop)
    BY <1>2 DEF SourceInv
  <2>2. chip.pn = "pn9"
    BY <1>2 DEF SourceInv
  <2>3. drv'.loop \in {0, 1} => LoopIs(drv.loop)'
    BY <1>1, <1>3, <2>1 DEF LoopIs
  <2>. QED  BY <1>1, <1>3, <1>4, <2>2, <2>3 DEF SourceInv
<1>6. TonesKept'
  BY <1>1, <1>2, <1>3, <1>4, TonesAcross
<1>. QED  BY <1>1, <1>2, <1>3, <1>4, <1>5, <1>6, PlainCall


LEMMA AllAtType ==
  ASSUME NEW rate \in Nat \ {0}
  PROVE  AllAt(rate) \in [Tones -> Nat \ {0}] /\ \A t \in Tones : AllAt(rate)[t] = rate
BY DEF AllAt

\* What does not play a tone, in the registers and in the caches.
SameCore(x, y) ==
    /\ y.c.atten = x.c.atten /\ y.c.test = x.c.test /\ y.c.loop = x.c.loop /\ y.c.pn = x.c.pn
    /\ y.c.delay = x.c.delay /\ y.c.tree = x.c.tree
    /\ y.d.atten = x.d.atten /\ y.d.test = x.d.test /\ y.d.loop = x.d.loop
    /\ y.d.scratch = x.d.scratch /\ y.d.delay = x.d.delay /\ y.d.bypass = x.d.bypass
    /\ y.d.factor = x.d.factor /\ y.d.taps = x.d.taps /\ y.d.filt = x.d.filt
    /\ y.d.gov = x.d.gov

LEMMA WithTonesSame ==
  ASSUME NEW x \in Pairs, NEW regs, NEW sets
  PROVE  /\ SameCore(x, WithTones(x, regs, sets))
         /\ WithTones(x, regs, sets).c.source = x.c.source
<1> DEFINE c == [x.c EXCEPT !.tone = regs]
           d == [x.d EXCEPT !.tone = sets]
<1>1. x.c \in Chips /\ x.d \in Drvs
  BY PairFields
<1>2. /\ c.atten = x.c.atten /\ c.test = x.c.test /\ c.loop = x.c.loop /\ c.pn = x.c.pn
      /\ c.delay = x.c.delay /\ c.tree = x.c.tree /\ c.source = x.c.source
  BY <1>1 DEF Chips
<1>3. /\ d.atten = x.d.atten /\ d.test = x.d.test /\ d.loop = x.d.loop
      /\ d.scratch = x.d.scratch /\ d.delay = x.d.delay /\ d.bypass = x.d.bypass
      /\ d.factor = x.d.factor /\ d.taps = x.d.taps /\ d.filt = x.d.filt /\ d.gov = x.d.gov
  BY <1>1 DEF Drvs
<1> DEFINE y == [c |-> c, d |-> d]
<1>4. WithTones(x, regs, sets) = y
  BY DEF WithTones
<1> HIDE DEF c, d
<1>5. y.c = c /\ y.d = d
  OBVIOUS
<1> HIDE DEF y
<1>. QED  BY <1>2, <1>3, <1>4, <1>5 DEF SameCore

\* dds_update and dac_init: every tone plays, and nothing else changes but the source.
LEMMA AllTonesFacts ==
  ASSUME NEW x \in Pairs, NEW v \in ToneSettings, NEW rate \in Nat \ {0}
  PROVE  LET y == SetAll(x, v, rate) IN
         /\ y \in Pairs /\ SameCore(x, y) /\ y.c.source = x.c.source
         /\ \A t \in Tones : Plays(y.c.tone[t], y.d.tone[t], rate)
<1> DEFINE y == SetAll(x, v, rate)
<1>1. PICK regs \in ToneRegs, sets \in ToneSettings :
          /\ y = WithTones(x, regs, sets)
          /\ \A t \in Tones : Plays(regs[t], sets[t], rate)
  BY SetAllFacts
<1> HIDE DEF y
<1>2. y \in Pairs /\ y.c.tone = regs /\ y.d.tone = sets
  BY <1>1, WithTonesType
<1>3. SameCore(x, y) /\ y.c.source = x.c.source
  BY <1>1, WithTonesSame
<1>4. \A t \in Tones : Plays(y.c.tone[t], y.d.tone[t], rate)
  BY <1>1, <1>2
<1>. QED  BY <1>2, <1>3, <1>4 DEF y

LEMMA DacInitFacts ==
  ASSUME NEW x \in Pairs, NEW sel \in {"dds", "dma"}, NEW rate \in Nat \ {0}
  PROVE  LET y == DacInit(x, sel, rate) IN
         /\ y \in Pairs /\ SameCore(x, y) /\ y.c.source = sel
         /\ sel = "dds" => \A t \in Tones : Plays(y.c.tone[t], y.d.tone[t], rate)
         /\ sel # "dds" => y.c.tone = x.c.tone /\ y.d.tone = x.d.tone
<1> DEFINE all == SetAll(x, DefaultTones, rate)
           z == IF sel = "dds" THEN all ELSE x
           c == [z.c EXCEPT !.source = sel]
           y == [c |-> c, d |-> z.d]
<1>1. /\ all \in Pairs /\ SameCore(x, all)
      /\ \A t \in Tones : Plays(all.c.tone[t], all.d.tone[t], rate)
  BY DefaultType, AllTonesFacts
<1>2. SameCore(x, x)
  BY DEF SameCore
<1> HIDE DEF all
<1>3. /\ z \in Pairs /\ SameCore(x, z)
      /\ sel = "dds" => \A t \in Tones : Plays(z.c.tone[t], z.d.tone[t], rate)
      /\ sel # "dds" => z = x
  BY <1>1, <1>2
<1>4. DacInit(x, sel, rate) = [z EXCEPT !.c.source = sel]
  BY DEF DacInit, all
<1> HIDE DEF z
<1>5. z.c \in Chips /\ z.d \in Drvs
  BY <1>3, PairFields
<1>6. [z EXCEPT !.c.source = sel] = y
  BY <1>3 DEF Pairs
<1>7. /\ c \in Chips /\ c.source = sel /\ c.atten = z.c.atten /\ c.test = z.c.test
      /\ c.loop = z.c.loop /\ c.pn = z.c.pn /\ c.delay = z.c.delay /\ c.tree = z.c.tree
      /\ c.tone = z.c.tone
  BY <1>5 DEF Chips, Sources
<1> HIDE DEF c
<1>8. y \in Pairs /\ y.c = c /\ y.d = z.d
  BY <1>5, <1>7 DEF Pairs
<1>9. DacInit(x, sel, rate) = y
  BY <1>4, <1>6
<1> HIDE DEF y
<1>10. SameCore(x, y)
  BY <1>3, <1>7, <1>8 DEF SameCore
<1>11. y.c.source = sel /\ y.c.tone = z.c.tone /\ y.d.tone = z.d.tone
  BY <1>7, <1>8
<1>. QED  BY <1>3, <1>8, <1>9, <1>10, <1>11

\* The source stays what it is, or becomes what is asked for.
LEMMA SourceSet ==
  ASSUME SourceInv, ~Fresh, chip'.pn = chip.pn, chip'.loop = chip.loop, drv'.loop = drv.loop,
         drv'.scratch = drv.scratch,
         \/ chip'.source = chip.source /\ want'.source = want.source
         \/ chip'.source = want'.source /\ want'.source # "adc"
  PROVE  SourceInv'
<1>1. CASE chip'.source = chip.source /\ want'.source = want.source
  BY <1>1, SourceAcross
<1>2. CASE chip'.source = want'.source /\ want'.source # "adc"
  <2>1. chip.pn = "pn9" /\ (drv.loop \in {0, 1} => LoopIs(drv.loop))
    BY DEF SourceInv
  <2>2. drv'.loop \in {0, 1} => LoopIs(drv.loop)'
    BY <2>1 DEF LoopIs
  <2>. QED  BY <1>2, <2>1, <2>2 DEF SourceInv
<1>. QED  BY <1>1, <1>2

LEMMA SelectInitKeeps ==
  ASSUME IInv, NEW s \in {"dds", "dma"}, SelectInit(s)
  PROVE  IInv'
<1> DEFINE y == DacInit(Now, s, TxRate)
           rates == IF s = "dds" THEN AllAt(TxRate) ELSE want.rate
<1>1. /\ Begin(<<>>) /\ chip' = y.c /\ drv' = y.d /\ ensm' = ensm /\ frames' = frames
      /\ want' = [want EXCEPT !.source = s, !.rate = rates]
  BY DEF SelectInit, Set
<1>2. /\ TonesKept /\ ~Fresh /\ SourceInv /\ ensm \in Ensms /\ want \in Wants
      /\ Now \in Pairs /\ Now.c = chip /\ Now.d = drv /\ TxRate \in Nat \ {0}
  BY <1>1, BetweenCalls
<1>3. /\ y \in Pairs /\ SameCore(Now, y) /\ y.c.source = s
      /\ s = "dds" => \A t \in Tones : Plays(y.c.tone[t], y.d.tone[t], TxRate)
      /\ s # "dds" => y.c.tone = chip.tone /\ y.d.tone = drv.tone
  BY <1>2, DacInitFacts
<1>4. /\ rates \in [Tones -> Nat \ {0}]
      /\ s = "dds" => \A t \in Tones : rates[t] = TxRate
      /\ s # "dds" => rates = want.rate
  BY <1>2, AllAtType DEF Wants
<1> HIDE DEF y, rates
<1>5. /\ y.c \in Chips /\ y.d \in Drvs /\ y.c.pn = chip.pn /\ y.c.loop = chip.loop
      /\ y.d.loop = drv.loop /\ y.d.scratch = drv.scratch
  BY <1>2, <1>3, PairFields DEF SameCore
<1>6. want' \in Wants /\ want'.source = s /\ want'.rate = rates
  BY <1>1, <1>2, <1>4 DEF Wants
<1>7. SourceInv'
  BY <1>1, <1>2, <1>3, <1>5, <1>6, SourceSet
<1>8. TonesKept'
  <2>1. CASE s = "dds"
    <3>1. \A t \in Tones : Plays(chip'.tone[t], drv'.tone[t], want'.rate[t])
      BY <1>1, <1>3, <1>4, <1>6, <2>1
    <3>. QED  BY <3>1 DEF TonesKept
  <2>2. CASE s # "dds"
    BY <1>1, <1>2, <1>3, <1>4, <1>6, <2>2, TonesAcross
  <2>. QED  BY <2>1, <2>2
<1>. QED  BY <1>1, <1>2, <1>5, <1>6, <1>7, <1>8, PlainCall

LEMMA UpdateKeeps ==
  ASSUME IInv, Update
  PROVE  IInv'
<1> DEFINE y == SetAll(Now, drv.tone, TxRate)
           rates == AllAt(TxRate)
<1>2. /\ TonesKept /\ ~Fresh /\ SourceInv /\ ensm \in Ensms /\ want \in Wants /\ drv \in Drvs
      /\ Now \in Pairs /\ Now.c = chip /\ Now.d = drv /\ TxRate \in Nat \ {0}
  <2>1. Begin(<<>>)
    BY DEF Update
  <2>. QED  BY <2>1, BetweenCalls
<1>1. /\ Begin(<<>>) /\ chip' = y.c /\ drv' = y.d /\ ensm' = ensm /\ frames' = frames
      /\ want' = [want EXCEPT !.rate = rates]
  BY <1>2 DEF Update, Set, DdsUpdate
<1>3. /\ y \in Pairs /\ SameCore(Now, y) /\ y.c.source = chip.source
      /\ \A t \in Tones : Plays(y.c.tone[t], y.d.tone[t], TxRate)
  <2>1. drv.tone \in ToneSettings
    BY <1>2 DEF Drvs
  <2>. QED  BY <1>2, <2>1, AllTonesFacts
<1>4. rates \in [Tones -> Nat \ {0}] /\ \A t \in Tones : rates[t] = TxRate
  BY <1>2, AllAtType
<1> HIDE DEF y, rates
<1>5. /\ y.c \in Chips /\ y.d \in Drvs /\ y.c.pn = chip.pn /\ y.c.loop = chip.loop
      /\ y.d.loop = drv.loop /\ y.d.scratch = drv.scratch
  BY <1>2, <1>3, PairFields DEF SameCore
<1>6. want' \in Wants /\ want'.source = want.source /\ want'.rate = rates
  BY <1>1, <1>2, <1>4 DEF Wants
<1>7. SourceInv'
  BY <1>1, <1>2, <1>3, <1>5, <1>6, SourceSet
<1>8. TonesKept'
  <2>1. \A t \in Tones : Plays(chip'.tone[t], drv'.tone[t], want'.rate[t])
    BY <1>1, <1>3, <1>4, <1>6
  <2>. QED  BY <2>1 DEF TonesKept
<1>. QED  BY <1>1, <1>2, <1>5, <1>6, <1>7, <1>8, PlainCall

\* One tone gets new registers and caches, the others keep theirs.
LEMMA OneTone ==
  ASSUME IInv, Begin(<<>>), NEW t \in Tones, NEW r \in ToneFields, NEW v \in ToneSets,
         NEW rate \in Nat \ {0}, Set(WithTone(Now, t, r, v)), Plays(r, v, rate),
         want' = [want EXCEPT !.rate[t] = rate], ensm' = ensm, frames' = frames
  PROVE  IInv'
<1> DEFINE y == WithTone(Now, t, r, v)
           rates == [want.rate EXCEPT ![t] = rate]
<1>1. chip' = y.c /\ drv' = y.d /\ want' = [want EXCEPT !.rate = rates]
  BY DEF Set
<1>2. /\ TonesKept /\ ~Fresh /\ SourceInv /\ ensm \in Ensms /\ want \in Wants /\ drv \in Drvs
      /\ Now \in Pairs /\ Now.c = chip /\ Now.d = drv
  BY BetweenCalls
<1>3. PICK regs \in ToneRegs, sets \in ToneSettings :
          /\ y = WithTones(Now, regs, sets) /\ regs[t] = r /\ sets[t] = v
          /\ \A u \in Tones \ {t} : regs[u] = Now.c.tone[u] /\ sets[u] = Now.d.tone[u]
  BY <1>2, WithToneType
<1>4. /\ rates \in [Tones -> Nat \ {0}] /\ rates[t] = rate
      /\ \A u \in Tones \ {t} : rates[u] = want.rate[u]
  BY <1>2 DEF Wants
<1> HIDE DEF y, rates
<1>5. y \in Pairs /\ y.c.tone = regs /\ y.d.tone = sets
  BY <1>2, <1>3, WithTonesType
<1>6. SameCore(Now, y) /\ y.c.source = chip.source
  BY <1>2, <1>3, WithTonesSame
<1>7. /\ y.c \in Chips /\ y.d \in Drvs /\ y.c.pn = chip.pn /\ y.c.loop = chip.loop
      /\ y.d.loop = drv.loop /\ y.d.scratch = drv.scratch
  BY <1>2, <1>5, <1>6, PairFields DEF SameCore
<1>8. want' \in Wants /\ want'.source = want.source /\ want'.rate = rates
  BY <1>1, <1>2, <1>4 DEF Wants
<1>9. SourceInv'
  BY <1>1, <1>2, <1>6, <1>7, <1>8, SourceSet
<1>10. ASSUME NEW u \in Tones PROVE Plays(chip'.tone[u], drv'.tone[u], want'.rate[u])
  <2>1. CASE u = t
    BY <1>1, <1>3, <1>4, <1>5, <1>8, <2>1
  <2>2. CASE u # t
    <3>1. /\ chip'.tone[u] = chip.tone[u] /\ drv'.tone[u] = drv.tone[u]
          /\ want'.rate[u] = want.rate[u]
      BY <1>1, <1>2, <1>3, <1>4, <1>5, <1>8, <2>2
    <3>2. Plays(chip.tone[u], drv.tone[u], want.rate[u])
      BY <1>2 DEF TonesKept
    <3>. QED  BY <3>1, <3>2
  <2>. QED  BY <2>1, <2>2
<1>11. TonesKept'
  BY <1>10 DEF TonesKept
<1>. QED  BY <1>1, <1>2, <1>7, <1>8, <1>9, <1>11, PlainCall


LEMMA ToneKeeps ==
  ASSUME IInv, NEW t \in Tones, NEW name \in DOMAIN AskedTones, NEW a \in AskedTones[name],
         Tone(t, name, a)
  PROVE  IInv'
<1> DEFINE q == chip.tone[t]
           w == drv.tone[t]
           rate == want.rate[t]
<1>1. /\ TonesKept /\ want \in Wants /\ Now \in Pairs /\ Now.c = chip /\ Now.d = drv
      /\ TxRate \in Nat \ {0}
  <2>1. Begin(<<>>)
    BY DEF Tone
  <2>. QED  BY <2>1, BetweenCalls
<1>2. /\ name \in {"freq", "phase", "scale"}
      /\ name = "freq" => a \in Nat
      /\ name = "phase" => a \in Nat
      /\ name = "scale" => a \in Int
  BY LinkAssumption
<1>3. q \in ToneFields /\ w \in ToneSets /\ rate \in Nat \ {0}
  BY <1>1, PairFields DEF Wants
<1>4. FreqOk(q.incr, w.freq, rate) /\ PhaseOk(q.init, w.phase) /\ ScaleOk(q.scale, w.scale)
  <2>1. Plays(q, w, rate)
    BY <1>1 DEF TonesKept
  <2>. QED  BY <2>1, PlaysParts
<1>5. /\ Begin(<<>>) /\ ensm' = ensm /\ frames' = frames
      /\ name = "freq" => Set(SetFrequency(Now, t, a, TxRate))
      /\ name = "phase" => Set(SetPhase(Now, t, a))
      /\ name = "scale" => Set(SetScale(Now, t, a))
      /\ want' = [want EXCEPT !.rate[t] = IF name = "freq" THEN TxRate ELSE rate]
  <2>1. Tone(t, name, a)
    OBVIOUS
  <2>2. /\ Begin(<<>>) /\ ensm' = ensm /\ frames' = frames
        /\ want' = [want EXCEPT !.rate[t] = IF name = "freq" THEN TxRate ELSE rate]
    BY <2>1 DEF Tone
  <2>3. Set(CASE name = "freq" -> SetFrequency(Now, t, a, TxRate)
             [] name = "phase" -> SetPhase(Now, t, a)
             [] name = "scale" -> SetScale(Now, t, a))
    BY <2>1 DEF Tone
  <2>. QED  BY <2>2, <2>3
<1> HIDE DEF q, w, rate
<1>6. CASE name = "freq"
  <2> DEFINE k == Increment(a, TxRate)
             r == [q EXCEPT !.incr = k]
             v == [w EXCEPT !.freq = a]
  <2>1. r \in ToneFields /\ v \in ToneSets /\ Set(WithTone(Now, t, r, v))
    BY <1>1, <1>2, <1>5, <1>6, SetFrequencyFacts DEF q, w
  <2>2. FreqOk(k, a, TxRate)
    BY <1>1, <1>2, <1>6, Codes
  <2> HIDE DEF k
  <2>3. /\ r.incr = k /\ r.init = q.init /\ r.scale = q.scale
    BY <1>3 DEF ToneFields
  <2>4. /\ v.freq = a /\ v.phase = w.phase /\ v.scale = w.scale
    BY <1>3 DEF ToneSets
  <2> HIDE DEF r, v
  <2>5. FreqOk(r.incr, v.freq, TxRate) /\ PhaseOk(r.init, v.phase) /\ ScaleOk(r.scale, v.scale)
    BY <1>4, <2>2, <2>3, <2>4
  <2>6. Plays(r, v, TxRate)
    BY <2>5, PlaysParts
  <2>7. want' = [want EXCEPT !.rate[t] = TxRate]
    BY <1>5, <1>6
  <2>. QED  BY <1>1, <1>5, <2>1, <2>6, <2>7, OneTone
<1>7. CASE name = "phase"
  <2> DEFINE k == InitCode(a)
             r == [q EXCEPT !.init = k]
             v == [w EXCEPT !.phase = a]
  <2>1. r \in ToneFields /\ v \in ToneSets /\ Set(WithTone(Now, t, r, v))
    BY <1>1, <1>2, <1>5, <1>7, SetPhaseFacts DEF q, w
  <2>2. PhaseOk(k, a)
    BY <1>2, <1>7, Codes
  <2> HIDE DEF k
  <2>3. /\ r.incr = q.incr /\ r.init = k /\ r.scale = q.scale
    BY <1>3 DEF ToneFields
  <2>4. /\ v.freq = w.freq /\ v.phase = a /\ v.scale = w.scale
    BY <1>3 DEF ToneSets
  <2> HIDE DEF r, v
  <2>5. FreqOk(r.incr, v.freq, rate) /\ PhaseOk(r.init, v.phase) /\ ScaleOk(r.scale, v.scale)
    BY <1>4, <2>2, <2>3, <2>4
  <2>6. Plays(r, v, rate)
    BY <2>5, PlaysParts
  <2>7. want' = [want EXCEPT !.rate[t] = rate]
    BY <1>5, <1>7
  <2>. QED  BY <1>3, <1>5, <2>1, <2>6, <2>7, OneTone
<1>8. CASE name = "scale"
  <2> DEFINE b == Clamp(a)
             k == ScaleCode(b)
             r == [q EXCEPT !.scale = k]
             v == [w EXCEPT !.scale = b]
  <2>1. r \in ToneFields /\ v \in ToneSets /\ Set(WithTone(Now, t, r, v))
    BY <1>1, <1>2, <1>5, <1>8, SetScaleFacts DEF q, w
  <2>2. ScaleOk(k, b)
    <3>1. b \in ScaleRange
      BY <1>2, <1>8, ClampType
    <3> HIDE DEF b
    <3>. QED  BY <3>1, Codes
  <2> HIDE DEF b, k
  <2>3. /\ r.incr = q.incr /\ r.init = q.init /\ r.scale = k
    BY <1>3 DEF ToneFields
  <2>4. /\ v.freq = w.freq /\ v.phase = w.phase /\ v.scale = b
    BY <1>3 DEF ToneSets
  <2> HIDE DEF r, v
  <2>5. FreqOk(r.incr, v.freq, rate) /\ PhaseOk(r.init, v.phase) /\ ScaleOk(r.scale, v.scale)
    BY <1>4, <2>2, <2>3, <2>4
  <2>6. Plays(r, v, rate)
    BY <2>5, PlaysParts
  <2>7. want' = [want EXCEPT !.rate[t] = rate]
    BY <1>5, <1>8
  <2>. QED  BY <1>3, <1>5, <2>1, <2>6, <2>7, OneTone
<1>. QED  BY <1>2, <1>6, <1>7, <1>8

\* ad9361_dig_interface_timing_analysis borrows what a tuning borrows, all at once.
LEMMA TimingAnalysisKeeps ==
  ASSUME IInv, TimingAnalysis
  PROVE  IInv'
<1>1. /\ TonesKept /\ ~Fresh /\ SourceInv /\ ensm \in Ensms /\ want \in Wants
      /\ Now \in Pairs /\ Now.c = chip /\ Now.d = drv /\ chip \in Chips /\ drv \in Drvs
      /\ chip.source # "pn" /\ want.source \in {"dds", "dma"}
  <2>1. Begin(<<>>)
    BY DEF TimingAnalysis
  <2>. QED  BY <2>1, BetweenCalls
<1>2. drv.loop \in 0 .. 3 /\ drv.test \in Tests
  BY <1>1 DEF Drvs
<1> DEFINE m == Mute(Now)
           z == BistLoopback(m, 0)
           x == BistPrbs(z, "rx")
           l == BistLoopback(x, drv.loop)
           c == [l.c EXCEPT !.test = drv.test]
           y == [l EXCEPT !.c.test = drv.test]
           u == Unmute(y)
           e1 == SetEnsmMode(ensm, TRUE)
           e2 == SetIntfDelay(e1)
           e == ForceState(e2, "alert")
           e3 == SetEnsmMode(e, e.fdd)
<1>3. /\ Begin(<<>>) /\ chip' = u.c /\ drv' = u.d /\ ensm' = Restore(e3, ensm.state)
      /\ frames' = frames /\ want' = want
  BY DEF TimingAnalysis, Set
<1>4. ensm' \in Ensms
  <2>1. e1 \in Ensms
    BY <1>1, ModeType
  <2> HIDE DEF e1
  <2>2. e2 \in Ensms
    BY <2>1, IntfDelayType
  <2> HIDE DEF e2
  <2>3. e \in Ensms
    BY <2>2, ForceType
  <2> HIDE DEF e
  <2>4. e.fdd \in BOOLEAN /\ ensm.state \in States
    BY <1>1, <2>3, EnsmFields
  <2>5. e3 \in Ensms
    BY <2>3, <2>4, ModeType
  <2> HIDE DEF e3
  <2>. QED  BY <1>3, <2>4, <2>5, RestoreType
<1> HIDE DEF e1, e2, e, e3
<1>5. /\ m \in Pairs /\ SameRest(Now, m) /\ m.c.source = chip.source
      /\ m.d.scratch = drv.scratch /\ m.c.loop = chip.loop
  BY <1>1, MuteFacts
<1> HIDE DEF m
<1>6. /\ z \in Pairs /\ SameRest(m, z) /\ ~z.c.loop
      /\ z.c.source = IF chip.source = "adc" THEN drv.scratch ELSE chip.source
      /\ z.d.scratch = drv.scratch
  <2>1. ASSUME NEW n \in 0 .. 3, n = 0
        PROVE  /\ BistLoopback(m, n) \in Pairs /\ SameRest(m, BistLoopback(m, n))
               /\ BistLoopback(m, n).c.loop = (n = 1)
               /\ BistLoopback(m, n).c.source = IF m.c.source = "adc" THEN m.d.scratch
                                                ELSE m.c.source
               /\ BistLoopback(m, n).d.scratch = m.d.scratch
    <3>1. m.c.source # "pn"
      BY <1>1, <1>5
    <3>. QED  BY <1>5, <2>1, <3>1, LoopbackFacts
  <2>2. /\ z \in Pairs /\ SameRest(m, z) /\ z.c.loop = (0 = 1)
        /\ z.c.source = IF m.c.source = "adc" THEN m.d.scratch ELSE m.c.source
        /\ z.d.scratch = m.d.scratch
    <3>1. 0 \in 0 .. 3
      OBVIOUS
    <3>. QED  BY <2>1, <3>1, Zenon DEF z
  <2> HIDE DEF z
  <2>3. ~z.c.loop
    <3>1. ~(0 = 1)
      OBVIOUS
    <3>. QED  BY <2>2, <3>1, Zenon
  <2>. QED  BY <1>5, <2>2, <2>3
<1> HIDE DEF z
<1>7. /\ x \in Pairs /\ SameRest(z, x) /\ x.c.loop = z.c.loop /\ x.c.source = z.c.source
      /\ x.d.scratch = z.d.scratch
  BY <1>6, PrbsFacts DEF Tests
<1> HIDE DEF x
<1>8. /\ x.c.source = want.source /\ x.d.scratch = drv.scratch /\ x.c.source # "pn"
      /\ x.c.source # "adc" /\ ~x.c.loop
  BY <1>1, <1>6, <1>7 DEF SourceInv
<1> DEFINE mode == drv.loop
<1>9. /\ l \in Pairs /\ SameRest(x, l) /\ l.d.loop = mode
      /\ mode = 3 => /\ l.c.loop = x.c.loop /\ l.c.source = x.c.source
                     /\ l.d.scratch = x.d.scratch
      /\ mode # 3 => l.c.loop = (mode = 1)
      /\ mode \in {0, 1} => l.c.source = x.c.source /\ l.d.scratch = x.d.scratch
      /\ mode = 2 => l.c.source = "adc" /\ l.d.scratch = x.c.source
  BY <1>2, <1>7, <1>8, LoopbackFacts
<1> HIDE DEF l
<1>10. l.c \in Chips /\ l.d \in Drvs
  BY <1>9, PairFields
<1>11. /\ c \in Chips /\ c.source = l.c.source /\ c.loop = l.c.loop /\ c.pn = l.c.pn
       /\ c.tone = l.c.tone
  BY <1>2, <1>10 DEF Chips
<1>12. y = [c |-> c, d |-> l.d]
  BY <1>9 DEF Pairs
<1> HIDE DEF c, y
<1>13. y \in Pairs /\ y.c = c /\ y.d = l.d
  BY <1>10, <1>11, <1>12 DEF Pairs
<1>14. /\ u \in Pairs /\ SameRest(y, u) /\ u.c.loop = y.c.loop /\ u.c.source = y.c.source
       /\ u.d.loop = y.d.loop /\ u.d.scratch = y.d.scratch
  BY <1>13, UnmuteFacts
<1> HIDE DEF u
<1>15. u.c.pn = chip.pn /\ u.c.tone = chip.tone /\ u.d.tone = drv.tone
  <2>1. m.c.pn = chip.pn /\ m.c.tone = chip.tone /\ m.d.tone = drv.tone
    BY <1>1, <1>5 DEF SameRest
  <2>2. z.c.pn = chip.pn /\ z.c.tone = chip.tone /\ z.d.tone = drv.tone
    BY <1>6, <2>1 DEF SameRest
  <2>3. x.c.pn = chip.pn /\ x.c.tone = chip.tone /\ x.d.tone = drv.tone
    BY <1>7, <2>2 DEF SameRest
  <2>4. l.c.pn = chip.pn /\ l.c.tone = chip.tone /\ l.d.tone = drv.tone
    BY <1>9, <2>3 DEF SameRest
  <2>5. y.c.pn = chip.pn /\ y.c.tone = chip.tone /\ y.d.tone = drv.tone
    BY <1>11, <1>13, <2>4
  <2>. QED  BY <1>14, <2>5 DEF SameRest
<1>16. /\ u.c.source = l.c.source /\ u.c.loop = l.c.loop /\ u.d.loop = mode
       /\ u.d.scratch = l.d.scratch
  BY <1>9, <1>11, <1>13, <1>14
<1>17. mode = 0 \/ mode = 1 \/ mode = 2 \/ mode = 3
  BY <1>2
<1>18. SourceInv'
  <2>0. chip.pn = "pn9" /\ (chip.source = "adc" => drv.scratch = want.source)
    BY <1>1 DEF SourceInv
  <2>1. /\ chip'.pn = "pn9" /\ drv'.loop = mode /\ want'.source = want.source
        /\ chip'.source = "adc" \/ chip'.source = want.source
        /\ chip'.source = "adc" => drv'.scratch = want.source
    BY <1>1, <1>3, <1>8, <1>9, <1>15, <1>16, <1>17, <2>0
  <2>2. mode \in {0, 1} => chip'.source # "adc" /\ LoopIs(mode)'
    BY <1>1, <1>3, <1>8, <1>9, <1>16 DEF LoopIs
  <2>. QED  BY <1>1, <1>3, <2>1, <2>2 DEF SourceInv
<1>19. TonesKept'
  BY <1>1, <1>3, <1>15, TonesAcross
<1>20. u.c \in Chips /\ u.d \in Drvs
  BY <1>14, PairFields
<1>. QED  BY <1>1, <1>3, <1>4, <1>18, <1>19, <1>20, PlainCall


----------------------------------------------------------------------------
(* Set-up and reset.                                                       *)

LEMMA BothType ==
  ASSUME NEW S, NEW v \in S
  PROVE  Both(v) \in [Paths -> S] /\ Both(v)["rx"] = v /\ Both(v)["tx"] = v
BY DEF Both, Paths

LEMMA SetUpFacts ==
  ASSUME NEW x \in Pairs, NEW done \in {"none", "clocks", "all"}
  PROVE  LET y == SetUp(x, done) IN
         /\ y \in Pairs /\ y.d = x.d
         /\ y.c.source = x.c.source /\ y.c.pn = x.c.pn /\ y.c.loop = x.c.loop
         /\ y.c.tone = x.c.tone
<1> DEFINE tree == SetTree(x.c.tree, SetupChain, x.d.bypass, x.d.factor)
           c == [x.c EXCEPT !.delay = x.d.delay, !.tree = tree]
           y1 == [c |-> c, d |-> x.d]
           atten == [i \in 1 .. 2 |-> SetupAtten]
           c2 == [c EXCEPT !.atten = atten]
           y2 == [c |-> c2, d |-> x.d]
<1>1. /\ SetUp(x, "none") = x /\ SetUp(x, "clocks") = [x EXCEPT !.c = c]
      /\ SetUp(x, "all") = [x EXCEPT !.c = c2]
  BY DEF SetUp
<1>2. x.c \in Chips /\ x.d \in Drvs
  BY PairFields
<1>3. [x EXCEPT !.c = c] = y1 /\ [x EXCEPT !.c = c2] = y2
  <2> HIDE DEF c, c2
  <2>. QED  BY DEF Pairs
<1>4. tree \in TreeTypes
  <2>1. x.c.tree \in TreeTypes
    BY <1>2 DEF Chips
  <2>2. x.d.bypass \in [Paths -> BOOLEAN]
    BY <1>2 DEF Drvs
  <2>3. SetupChain.bbpll \in Int
    BY LinkAssumption
  <2>. QED  BY <2>1, <2>2, <2>3, SetTreeType
<1>5. x.d.delay \in [Paths -> Delays]
  BY <1>2 DEF Drvs
<1>6. atten \in AttenPairs
  BY LinkAssumption DEF AttenPairs
<1> HIDE DEF tree, atten
<1>7. /\ c \in Chips /\ c.source = x.c.source /\ c.pn = x.c.pn /\ c.loop = x.c.loop
      /\ c.tone = x.c.tone
  BY <1>2, <1>4, <1>5 DEF Chips
<1> HIDE DEF c
<1>8. /\ c2 \in Chips /\ c2.source = c.source /\ c2.pn = c.pn /\ c2.loop = c.loop
      /\ c2.tone = c.tone
  BY <1>6, <1>7 DEF Chips
<1> HIDE DEF c2
<1>10. y1 \in Pairs /\ y1.c = c /\ y1.d = x.d
  BY <1>2, <1>7 DEF Pairs
<1>11. y2 \in Pairs /\ y2.c = c2 /\ y2.d = x.d
  BY <1>2, <1>8 DEF Pairs
<1>12. SetUp(x, "clocks") = y1 /\ SetUp(x, "all") = y2
  BY <1>1, <1>3
<1> HIDE DEF y1, y2
<1>13. done = "none" \/ done = "clocks" \/ done = "all"
  OBVIOUS
<1>. QED  BY <1>1, <1>7, <1>8, <1>10, <1>11, <1>12, <1>13

LEMMA ResetRate == Rate(ResetTree, "tx") \in Nat \ {0}
BY ResetTreeType, TxRateFacts

LEMMA ZeroAttens == [i \in 1 .. 2 |-> 0] \in AttenPairs
BY LinkAssumption DEF AttenPairs

\* After ad9361_set_no_ch_mode the set-up's tuning is due, and no filter is enabled.
LEMMA SetNoChModeKeeps ==
  ASSUME IInv, SetNoChMode
  PROVE  IInv'
<1> DEFINE zeros == [i \in 1 .. 2 |-> 0]
           noDelay == Both([clk |-> 0, data |-> 0])
           c == [chip EXCEPT !.atten = zeros, !.test = "off", !.loop = FALSE,
                             !.tree = ResetTree, !.delay = noDelay]
           d == Cleared(drv)
           reset == [c |-> c, d |-> d]
           x == DacInit(reset, "dds", Rate(ResetTree, "tx"))
           rates == AllAt(Rate(ResetTree, "tx"))
           a == Tune({}, TRUE)
           b == Step("posted")
           s == <<a, b>>
<1>1. PICK done \in {"none", "clocks", "all"} :
          /\ Begin(s) /\ chip' = SetUp(x, done).c /\ drv' = SetUp(x, done).d
          /\ ensm' = Ready(ensm.fdd, done)
          /\ want' = [want EXCEPT !.atten = chip'.atten, !.source = "dds", !.rate = rates]
          /\ frames' = frames
  BY DEF SetNoChMode, Set, PostSetup
<1>2. /\ Types /\ CallInv /\ SourceInv /\ ensm \in Ensms /\ want \in Wants
      /\ chip \in Chips /\ drv \in Drvs
  BY <1>1, BetweenCalls
<1> DEFINE u == SetUp(x, done)
<1> HIDE DEF x, s, rates
<1>3. [clk |-> 0, data |-> 0] \in Delays
  BY LinkAssumption DEF Delays
<1>4. noDelay \in [Paths -> Delays]
  BY <1>3, BothType
<1>5. zeros \in AttenPairs
  BY ZeroAttens
<1> HIDE DEF zeros, noDelay
<1>6. c \in Chips /\ c.pn = chip.pn
  BY <1>2, <1>4, <1>5, ResetTreeType DEF Chips, Tests
<1>7. d \in Drvs /\ d.bypass = Both(TRUE)
  <2> DEFINE open == Both(TRUE)
             factors == Both(0)
             taps == Both(0)
  <2>1. open \in [Paths -> BOOLEAN]
    BY BothType
  <2>2. factors \in [Paths -> Factors \cup {0}]
    BY BothType
  <2>3. taps \in [Paths -> Nat]
    BY BothType
  <2>4. d = [drv EXCEPT !.bypass = open, !.factor = factors, !.taps = taps, !.gov = 1]
    BY DEF Cleared
  <2> HIDE DEF open, factors, taps, d
  <2> DEFINE g == [drv EXCEPT !.bypass = open, !.factor = factors]
  <2>5. g \in Drvs /\ g.bypass = open
    BY <1>2, <2>1, <2>2 DEF Drvs
  <2> DEFINE k == [g EXCEPT !.taps = taps]
  <2>6. d = [k EXCEPT !.gov = 1]
    BY <2>4
  <2> HIDE DEF g
  <2>8. k \in Drvs /\ k.bypass = open
    BY <2>3, <2>5 DEF Drvs
  <2> HIDE DEF k
  <2>7. d \in Drvs /\ d.bypass = open
    BY <2>6, <2>8 DEF Drvs
  <2>. QED  BY <2>7 DEF open
<1> HIDE DEF c, d
<1>8. reset \in Pairs /\ reset.c = c /\ reset.d = d
  BY <1>6, <1>7 DEF Pairs
<1> HIDE DEF reset
<1>9. /\ x \in Pairs /\ SameCore(reset, x) /\ x.c.source = "dds"
      /\ \A t \in Tones : Plays(x.c.tone[t], x.d.tone[t], Rate(ResetTree, "tx"))
  BY <1>8, ResetRate, DacInitFacts DEF x
<1>10. /\ u \in Pairs /\ u.d = x.d /\ u.c.source = "dds" /\ u.c.pn = x.c.pn
       /\ u.c.tone = x.c.tone
  BY <1>9, SetUpFacts
<1> HIDE DEF u
<1>11. /\ chip' = u.c /\ drv' = u.d /\ chip' \in Chips /\ drv' \in Drvs
  BY <1>1, <1>10, PairFields DEF u
<1>12. rates \in [Tones -> Nat \ {0}] /\ \A t \in Tones : rates[t] = Rate(ResetTree, "tx")
  BY ResetRate, AllAtType DEF rates
<1>13. want' \in Wants /\ want'.source = "dds" /\ want'.rate = rates
  <2>1. chip'.atten \in AttenPairs
    BY <1>11 DEF Chips
  <2>. QED  BY <1>1, <1>2, <1>12, <2>1 DEF Wants
<1>14. ensm' \in Ensms
  <2>1. ensm.fdd \in BOOLEAN
    BY <1>2, EnsmFields
  <2>. QED  BY <1>1, <2>1, ReadyType
<1>15. a \in CallSteps /\ b \in CallSteps /\ a.op = "tune" /\ a.max /\ b.op = "posted"
  <2>1. a \in CallSteps /\ b \in CallSteps /\ b.op = "posted"
    BY StepTypes, StepOps DEF PlainSteps
  <2>2. a.op = "tune" /\ a.max
    BY DEF Tune
  <2>. QED  BY <2>1, <2>2
<1> HIDE DEF a, b
<1>16. Plain(s) /\ Len(s) = 2 /\ s[1] = a
  BY <1>15, PlainSteps2 DEF s, Tuning
<1>17. /\ todo' \in Seq(CallSteps) /\ ret' = "ok" /\ calls' \in 0 .. MaxCalls
       /\ SourceInv' /\ (Fresh' => ~FirActive') => CallInv'
  BY <1>1, <1>2, <1>16, BeginFacts
<1>18. Fresh'
  <2>1. todo' = s
    BY <1>1 DEF Begin
  <2>2. todo' # <<>> /\ Head(todo') = a
    BY <1>15, <2>1 DEF s
  <2>. QED  BY <1>15, <2>2 DEF Fresh, Ending
<1>19. SourceInv'
  <2>1. chip.pn = "pn9"
    BY <1>2 DEF SourceInv
  <2>2. chip'.pn = "pn9" /\ chip'.source = "dds"
    BY <1>6, <1>8, <1>9, <1>10, <1>11, <2>1 DEF SameCore
  <2>. QED  BY <1>13, <1>18, <2>2 DEF SourceInv
<1>20. ~FirActive'
  <2>1. drv'.bypass = Both(TRUE)
    BY <1>7, <1>8, <1>9, <1>10, <1>11 DEF SameCore
  <2>2. drv'.bypass["rx"] = TRUE /\ drv'.bypass["tx"] = TRUE
    BY <2>1 DEF Both, Paths
  <2>. QED  BY <2>2 DEF FirActive
<1>21. CallInv'
  BY <1>17, <1>19, <1>20
<1>22. TonesKept'
  <2>1. ASSUME NEW t \in Tones PROVE Plays(chip'.tone[t], drv'.tone[t], want'.rate[t])
    BY <1>9, <1>10, <1>11, <1>12, <1>13
  <2>. QED  BY <2>1 DEF TonesKept
<1>23. Types'
  BY <1>1, <1>2, <1>11, <1>13, <1>14, <1>17, TypesAcross
<1>. QED  BY <1>21, <1>22, <1>23 DEF IInv


LEMMA TunedType ==
  ASSUME NEW e \in Ensms
  PROVE  InAlert(Tuned(e)) \in Ensms
<1> DEFINE e1 == SetEnsmMode(e, TRUE)
           e2 == SetIntfDelay(e1)
           e3 == SetEnsmMode(e2, e.fdd)
<1>1. e1 \in Ensms
  BY ModeType
<1>2. e2 \in Ensms
  BY <1>1, IntfDelayType
<1>3. e.fdd \in BOOLEAN /\ e.state \in States
  BY EnsmFields
<1>4. e3 \in Ensms
  BY <1>2, <1>3, ModeType
<1>5. Tuned(e) \in Ensms
  BY <1>3, <1>4, RestoreType DEF Tuned
<1>. QED  BY <1>5, InAlertType

\* The end of ad9361_init.
LEMMA Initially == Init => IInv
<1> SUFFICES ASSUME Init PROVE IInv
  OBVIOUS
<1> DEFINE zeros == [i \in 1 .. 2 |-> 0]
           attens == [i \in 1 .. 2 |-> SetupAtten]
           delays == Both(SetupDelay)
           none == [incr |-> 0, init |-> 0, scale |-> 0]
           tones == [t \in Tones |-> none]
           open == Both(TRUE)
           factors == Both(0)
           taps == Both(0)
           bare == [atten |-> zeros, test |-> "off", loop |-> FALSE, source |-> "dds",
                    pn |-> "pn9", delay |-> delays, tree |-> ResetTree, tone |-> tones]
           d == [atten |-> attens, test |-> "off", loop |-> 0, scratch |-> "dds",
                 delay |-> delays, bypass |-> open, factor |-> factors, taps |-> taps,
                 filt |-> NoChain, gov |-> 1, tone |-> DefaultTones]
           reset == [c |-> bare, d |-> d]
           y == DacInit(reset, "dds", Rate(ResetTree, "tx"))
           x == SetUp(y, "all")
           rates == AllAt(Rate(ResetTree, "tx"))
<1>1. PICK fdd \in BOOLEAN :
          /\ chip = x.c /\ drv = x.d /\ ensm = InAlert(Tuned(Ready(fdd, "all")))
          /\ todo = <<>> /\ frames = <<>> /\ ret = "ok"
          /\ want = [atten |-> x.c.atten, source |-> "dds", chain |-> SetupChain,
                     rate |-> rates]
          /\ calls = 0
  BY DEF Init
<1> HIDE DEF x, y
<1>2. /\ zeros \in AttenPairs /\ attens \in AttenPairs /\ delays \in [Paths -> Delays]
      /\ open \in [Paths -> BOOLEAN] /\ taps \in [Paths -> Nat]
  BY ZeroAttens, LinkAssumption, BothType DEF AttenPairs
<1>3. factors \in [Paths -> Factors \cup {0}]
  BY BothType
<1>4. tones \in ToneRegs
  <2>1. 0 \in Words
    BY DEF Words, Steps16
  <2>2. none \in ToneFields
    BY <2>1 DEF ToneFields
  <2> HIDE DEF none
  <2>. QED  BY <2>2 DEF ToneRegs, ToneFields
<1> HIDE DEF zeros, attens, delays, tones, open, factors, taps
<1>5. bare \in Chips
  BY <1>2, <1>4, ResetTreeType DEF Chips, Tests, Sources
<1>6. d \in Drvs
  BY <1>2, <1>3, DefaultType DEF Drvs, Tests, Sources, Loaded
<1>7. /\ bare.pn = "pn9" /\ bare.loop = FALSE /\ d.loop = 0
  OBVIOUS
<1> HIDE DEF bare, d
<1>8. reset \in Pairs /\ reset.c = bare /\ reset.d = d
  BY <1>5, <1>6 DEF Pairs
<1> HIDE DEF reset
<1>9. /\ y \in Pairs /\ SameCore(reset, y) /\ y.c.source = "dds"
      /\ \A t \in Tones : Plays(y.c.tone[t], y.d.tone[t], Rate(ResetTree, "tx"))
  BY <1>8, ResetRate, DacInitFacts DEF y
<1>10. /\ x \in Pairs /\ x.d = y.d /\ x.c.source = "dds" /\ x.c.pn = y.c.pn
       /\ x.c.tone = y.c.tone /\ x.c.loop = y.c.loop
  BY <1>9, SetUpFacts DEF x
<1>11. /\ chip \in Chips /\ drv \in Drvs
  BY <1>1, <1>10, PairFields
<1>12. rates \in [Tones -> Nat \ {0}] /\ \A t \in Tones : rates[t] = Rate(ResetTree, "tx")
  BY ResetRate, AllAtType
<1> HIDE DEF rates
<1>13. want \in Wants /\ want.source = "dds" /\ want.rate = rates
  <2>1. x.c.atten \in AttenPairs
    BY <1>1, <1>11 DEF Chips
  <2>. QED  BY <1>1, <1>12, <2>1 DEF Wants, Chains
<1>14. ensm \in Ensms
  BY <1>1, ReadyType, TunedType
<1>15. todo \in Seq(CallSteps) /\ Len(todo) = 0
  BY <1>1, EmptySeq
<1>16. ~Fresh
  BY <1>1 DEF Fresh, Ending
<1>17. SourceInv
  <2>1. chip.source = "dds" /\ chip.pn = "pn9" /\ chip.loop = FALSE /\ drv.loop = 0
    BY <1>1, <1>7, <1>8, <1>9, <1>10 DEF SameCore
  <2>2. LoopIs(drv.loop)
    <3>1. (drv.loop = 1) = FALSE
      BY <2>1
    <3>. QED  BY <2>1, <3>1, Zenon DEF LoopIs
  <2>. QED  BY <1>13, <2>1, <2>2 DEF SourceInv
<1>18. CallInv
  BY <1>1, <1>15, <1>16, <1>17 DEF CallInv, Outside
<1>19. TonesKept
  <2>1. ASSUME NEW t \in Tones PROVE Plays(chip.tone[t], drv.tone[t], want.rate[t])
    BY <1>1, <1>9, <1>10, <1>12, <1>13
  <2>. QED  BY <2>1 DEF TonesKept
<1>20. Types
  BY <1>1, <1>11, <1>13, <1>14, <1>15, LinkAssumption DEF Types
<1>. QED  BY <1>18, <1>19, <1>20 DEF IInv


----------------------------------------------------------------------------
(* The steps of a tuning.                                                  *)

\* r is s followed by u.
Joined(s, u, r) ==
    /\ r \in Seq(CallSteps) /\ Len(r) = Len(s) + Len(u)
    /\ \A i \in 1 .. Len(s) : r[i] = s[i]
    /\ \A i \in 1 .. Len(u) : r[Len(s) + i] = u[i]

LEMMA JoinFacts ==
  ASSUME NEW s \in Seq(CallSteps), NEW u \in Seq(CallSteps)
  PROVE  Joined(s, u, s \o u) /\ Len(s) \in Nat /\ Len(u) \in Nat
<1>1. Len(s) \in Nat /\ Len(u) \in Nat
  BY EmptySeq
<1>2. /\ s \o u \in Seq(CallSteps) /\ Len(s \o u) = Len(s) + Len(u)
      /\ \A i \in 1 .. Len(s) + Len(u) :
             (s \o u)[i] = IF i <= Len(s) THEN s[i] ELSE u[i - Len(s)]
  BY ConcatProperties
<1>3. ASSUME NEW i \in 1 .. Len(s) PROVE (s \o u)[i] = s[i]
  BY <1>1, <1>2
<1>4. ASSUME NEW i \in 1 .. Len(u) PROVE (s \o u)[Len(s) + i] = u[i]
  <2>1. /\ Len(s) + i \in 1 .. Len(s) + Len(u) /\ ~(Len(s) + i <= Len(s))
        /\ (Len(s) + i) - Len(s) = i
    BY <1>1
  <2>. QED  BY <1>2, <2>1
<1>. QED  BY <1>1, <1>2, <1>3, <1>4 DEF Joined

\* What ad9361_dig_tune_delay does before it chooses.
Sweeping(s, p, max) ==
    /\ s \in Seq(CallSteps) /\ Len(s) = (IF max THEN 6 ELSE 1)
    /\ \A i \in 1 .. Len(s) : s[i] = Sweep(p) \/ (max /\ s[i].op = "rate")

LEMMA SweepingFacts ==
  ASSUME NEW p \in Paths
  PROVE  /\ Sweeping(<<AtRate(Rates[1]), Sweep(p), AtRate(Rates[2]), Sweep(p),
                       AtRate(Rates[3]), Sweep(p)>>, p, TRUE)
         /\ Sweeping(<<Sweep(p)>>, p, FALSE)
<1> DEFINE a == AtRate(Rates[1])
           b == AtRate(Rates[2])
           c == AtRate(Rates[3])
           w == Sweep(p)
<1>1. /\ a \in CallSteps /\ b \in CallSteps /\ c \in CallSteps /\ w \in CallSteps
      /\ a.op = "rate" /\ b.op = "rate" /\ c.op = "rate"
  <2>1. Rates[1] \in Nat /\ Rates[2] \in Nat /\ Rates[3] \in Nat
    BY DEF Rates
  <2>. QED  BY <2>1, StepTypes, StepOps
<1>2. w = Sweep(p)
  OBVIOUS
<1> HIDE DEF a, b, c, w
<1> DEFINE s == <<a, w, b, w, c, w>>
           u == <<w>>
<1>3. s \in Seq(CallSteps) /\ Len(s) = 6
  BY <1>1
<1>4. s[1] = a /\ s[2] = w /\ s[3] = b /\ s[4] = w /\ s[5] = c /\ s[6] = w
  OBVIOUS
<1>5. u \in Seq(CallSteps) /\ Len(u) = 1 /\ u[1] = w
  BY <1>1
<1> HIDE DEF s, u
<1>6. Sweeping(s, p, TRUE)
  <2>1. ASSUME NEW i \in 1 .. 6 PROVE s[i] = w \/ s[i].op = "rate"
    <3>1. i = 1 \/ i = 2 \/ i = 3 \/ i = 4 \/ i = 5 \/ i = 6
      OBVIOUS
    <3>. QED  BY <1>1, <1>4, <3>1
  <2>. QED  BY <1>2, <1>3, <2>1 DEF Sweeping
<1>7. Sweeping(u, p, FALSE)
  BY <1>2, <1>5 DEF Sweeping
<1>. QED  BY <1>6, <1>7 DEF s, u, a, b, c, w

\* The steps of ad9361_dig_tune_delay.
LEMMA DelayFacts ==
  ASSUME NEW p \in Paths, NEW max \in BOOLEAN
  PROVE  LET s == DigTuneDelay(p, max) IN
         /\ s \in Seq(CallSteps) /\ Len(s) = (IF max THEN 7 ELSE 2)
         /\ s[Len(s)] = Choose(p)
         /\ \A i \in 1 .. Len(s) - 1 : s[i] = Sweep(p) \/ (max /\ s[i].op = "rate")
<1> DEFINE all == <<AtRate(Rates[1]), Sweep(p), AtRate(Rates[2]), Sweep(p),
                    AtRate(Rates[3]), Sweep(p)>>
           one == <<Sweep(p)>>
           s == IF max THEN all ELSE one
           x == Choose(p)
           u == <<x>>
           r == s \o u
<1>1. Sweeping(all, p, TRUE) /\ Sweeping(one, p, FALSE)
  BY SweepingFacts
<1>2. DigTuneDelay(p, max) = r
  BY DEF DigTuneDelay
<1> HIDE DEF all, one
<1>3. Sweeping(s, p, max)
  BY <1>1
<1>4. x \in CallSteps /\ x = Choose(p)
  BY StepTypes
<1> HIDE DEF s, x
<1>5. u \in Seq(CallSteps) /\ Len(u) = 1 /\ u[1] = x
  BY <1>4
<1> HIDE DEF u
<1>6. Joined(s, u, r)
  BY <1>3, <1>5, JoinFacts DEF Sweeping
<1> HIDE DEF r
<1>7. Len(s) = (IF max THEN 6 ELSE 1) /\ Len(r) = Len(s) + 1 /\ r \in Seq(CallSteps)
  BY <1>3, <1>5, <1>6 DEF Sweeping, Joined
<1>8. r[Len(r)] = Choose(p)
  BY <1>4, <1>5, <1>6, <1>7 DEF Joined
<1>9. ASSUME NEW i \in 1 .. Len(r) - 1
      PROVE  r[i] = Sweep(p) \/ (max /\ r[i].op = "rate")
  <2>1. i \in 1 .. Len(s)
    BY <1>7
  <2>. QED  BY <1>3, <1>6, <2>1 DEF Joined, Sweeping
<1>10. Len(r) = IF max THEN 7 ELSE 2
  BY <1>7
<1>. QED  BY <1>2, <1>7, <1>8, <1>9, <1>10

\* The same, then the step x.
LEMMA DelayThen ==
  ASSUME NEW p \in Paths, NEW max \in BOOLEAN, NEW x \in CallSteps
  PROVE  LET r == DigTuneDelay(p, max) \o <<x>> IN
         /\ r \in Seq(CallSteps) /\ Len(r) = (IF max THEN 8 ELSE 3)
         /\ r[Len(r)] = x /\ r[Len(r) - 1] = Choose(p)
         /\ \A i \in 1 .. Len(r) - 2 : r[i] = Sweep(p) \/ (max /\ r[i].op = "rate")
<1> DEFINE s == DigTuneDelay(p, max)
           u == <<x>>
           r == s \o u
<1>1. /\ s \in Seq(CallSteps) /\ Len(s) = (IF max THEN 7 ELSE 2)
      /\ s[Len(s)] = Choose(p)
      /\ \A i \in 1 .. Len(s) - 1 : s[i] = Sweep(p) \/ (max /\ s[i].op = "rate")
  BY DelayFacts
<1>2. u \in Seq(CallSteps) /\ Len(u) = 1 /\ u[1] = x
  OBVIOUS
<1> HIDE DEF s, u
<1>3. Joined(s, u, r)
  BY <1>1, <1>2, JoinFacts
<1> HIDE DEF r
<1>4. Len(r) = Len(s) + 1 /\ r \in Seq(CallSteps) /\ r[Len(s) + 1] = x
  BY <1>1, <1>2, <1>3 DEF Joined
<1>5. \A i \in 1 .. Len(s) : r[i] = s[i]
  BY <1>3 DEF Joined
<1>6. Len(r) = IF max THEN 8 ELSE 3
  BY <1>1, <1>4
<1>7. r[Len(r)] = x /\ r[Len(r) - 1] = Choose(p)
  BY <1>1, <1>4, <1>5
<1>8. ASSUME NEW i \in 1 .. Len(r) - 2
      PROVE  r[i] = Sweep(p) \/ (max /\ r[i].op = "rate")
  <2>1. i \in 1 .. Len(s) - 1 /\ i \in 1 .. Len(s)
    BY <1>1, <1>4
  <2>. QED  BY <1>1, <1>5, <2>1
<1>. QED  BY <1>4, <1>6, <1>7, <1>8 DEF r, s, u

\* The transmitter's part of a tuning.
LEMMA TxStepsFacts ==
  ASSUME NEW max \in BOOLEAN
  PROVE  LET r == TxSteps(max) IN
         /\ r \in Seq(CallSteps) /\ Len(r) = (IF max THEN 9 ELSE 4)
         /\ r[1] = Step("txtune") /\ r[Len(r)] = Step("txend")
         /\ r[Len(r) - 1] = Choose("tx")
         /\ \A i \in 2 .. Len(r) - 2 : r[i] = Sweep("tx") \/ (max /\ r[i].op = "rate")
<1> DEFINE x == Step("txtune")
           z == Step("txend")
           a == <<x>>
           d == DigTuneDelay("tx", max)
           e == <<z>>
           u == d \o e
           r == a \o u
<1>1. x \in CallSteps /\ z \in CallSteps
  BY StepTypes DEF PlainSteps
<1>2. /\ d \in Seq(CallSteps) /\ u \in Seq(CallSteps) /\ Len(u) = (IF max THEN 8 ELSE 3)
      /\ u[Len(u)] = z /\ u[Len(u) - 1] = Choose("tx")
      /\ \A i \in 1 .. Len(u) - 2 : u[i] = Sweep("tx") \/ (max /\ u[i].op = "rate")
  BY <1>1, DelayFacts, DelayThen DEF Paths
<1>3. a \in Seq(CallSteps) /\ e \in Seq(CallSteps) /\ Len(a) = 1 /\ a[1] = x
  BY <1>1
<1>4. TxSteps(max) = (a \o d) \o e
  BY DEF TxSteps
<1> HIDE DEF a, d, e
<1>5. (a \o d) \o e = a \o (d \o e)
  <2> DEFINE S == CallSteps
  <2> HIDE DEF S
  <2>1. a \in Seq(S) /\ d \in Seq(S) /\ e \in Seq(S)
    BY <1>2, <1>3 DEF S
  <2>. QED  BY <2>1, ConcatAssociative
<1>6. TxSteps(max) = r
  BY <1>4, <1>5
<1> HIDE DEF u
<1>7. Joined(a, u, r)
  BY <1>2, <1>3, JoinFacts
<1> HIDE DEF r, x, z
<1>8. /\ r \in Seq(CallSteps) /\ Len(r) = Len(u) + 1 /\ r[1] = x
      /\ \A i \in 1 .. Len(u) : r[1 + i] = u[i]
  <2>1. /\ r \in Seq(CallSteps) /\ Len(r) = Len(a) + Len(u)
        /\ \A i \in 1 .. Len(a) : r[i] = a[i]
        /\ \A i \in 1 .. Len(u) : r[Len(a) + i] = u[i]
    BY <1>7 DEF Joined
  <2>2. Len(u) \in Nat
    BY <1>2
  <2>3. Len(r) = Len(u) + 1 /\ r[1] = x
    BY <1>3, <2>1, <2>2
  <2>4. \A i \in 1 .. Len(u) : r[1 + i] = u[i]
    BY <1>3, <2>1
  <2>. QED  BY <2>1, <2>3, <2>4
<1>9. Len(r) = (IF max THEN 9 ELSE 4)
  BY <1>2, <1>8
<1>10. r[Len(r)] = z /\ r[Len(r) - 1] = Choose("tx")
  <2>1. /\ Len(u) \in 1 .. Len(u) /\ 1 + Len(u) = Len(r)
        /\ Len(u) - 1 \in 1 .. Len(u) /\ 1 + (Len(u) - 1) = Len(r) - 1
    BY <1>2, <1>8
  <2>. QED  BY <1>2, <1>8, <2>1
<1>11. ASSUME NEW i \in 2 .. Len(r) - 2
       PROVE  r[i] = Sweep("tx") \/ (max /\ r[i].op = "rate")
  <2>1. i - 1 \in 1 .. Len(u) - 2 /\ i - 1 \in 1 .. Len(u) /\ 1 + (i - 1) = i
    BY <1>2, <1>8
  <2>2. r[1 + (i - 1)] = u[i - 1]
    BY <1>8, <2>1
  <2>3. u[i - 1] = Sweep("tx") \/ (max /\ u[i - 1].op = "rate")
    BY <1>2, <2>1
  <2>4. r[i] = u[i - 1]
    BY <2>1, <2>2
  <2>. QED  BY <2>3, <2>4
<1>. QED  BY <1>6, <1>8, <1>9, <1>10, <1>11 DEF x, z


\* Outside of a tuning, steps put in the place of the first leave the rest as it was.
LEMMA QueueFacts ==
  ASSUME todo \in Seq(CallSteps), todo # <<>>, Outside(2), NEW r \in Seq(CallSteps),
         Len(r) >= 1, todo' = r \o Tail(todo)
  PROVE  /\ todo' \in Seq(CallSteps) /\ Len(r) \in 1 .. Len(todo') /\ Len(todo') \in Nat
         /\ \A i \in 1 .. Len(r) : todo'[i] = r[i]
         /\ \A i \in Len(r) + 1 .. Len(todo') : todo'[i].op \notin Tuning \cup {"tune"}
         /\ todo' # <<>> /\ Head(todo') = todo'[1]
<1>1. Replaced(todo, r, todo')
  BY PushFacts
<1>2. /\ todo' \in Seq(CallSteps) /\ Len(todo') = Len(r) + Len(todo) - 1
      /\ \A i \in 1 .. Len(r) : todo'[i] = r[i]
      /\ \A i \in Len(r) + 1 .. Len(todo') : todo'[i] = todo[i - Len(r) + 1]
  BY <1>1 DEF Replaced
<1>3. Len(todo) \in Nat /\ Len(todo) >= 1 /\ Len(r) \in Nat
  BY EmptySeq
<1>4. Len(r) \in 1 .. Len(todo') /\ Len(todo') \in Nat
  BY <1>2, <1>3
<1>5. ASSUME NEW i \in Len(r) + 1 .. Len(todo')
      PROVE  todo'[i].op \notin Tuning \cup {"tune"}
  <2>1. i - Len(r) + 1 \in 2 .. Len(todo)
    BY <1>2, <1>3
  <2>. QED  BY <1>2, <2>1 DEF Outside
<1>6. todo' # <<>>
  BY <1>2, <1>4, EmptySeq
<1>7. Head(todo') = todo'[1]
  BY <1>2, <1>6, HeadFacts
<1>. QED  BY <1>2, <1>4, <1>5, <1>6, <1>7

LEMMA TuneFlags ==
  ASSUME NEW s \in CallSteps, s.op = "tune"
  PROVE  /\ s.max \in BOOLEAN /\ s.flags \in {{}, {"skip"}, {"default"}}
         /\ s.max => s.flags = {}
         /\ ~s.max => s.flags \in {{"skip"}, {"default"}}
BY DEF CallSteps, PlainSteps

\* A tuning begins outside of any other.
LEMMA TuneStart ==
  ASSUME IInv, Do("tune")
  PROVE  /\ Types /\ CallInv /\ TonesKept /\ frames = <<>> /\ SourceInv /\ Outside(2)
         /\ todo \in Seq(CallSteps) /\ todo # <<>>
         /\ Head(todo) \in CallSteps /\ Head(todo).op = "tune" /\ calls' \in 0 .. MaxCalls
         /\ Fresh = Head(todo).max /\ (Head(todo).max => ~FirActive)
<1>1. Types /\ CallInv /\ TonesKept
  BY DEF IInv
<1>2. /\ todo # <<>> /\ todo \in Seq(CallSteps) /\ Head(todo).op = "tune"
      /\ calls' \in 0 .. MaxCalls
  BY <1>1 DEF Do, Types
<1>3. Head(todo) = todo[1] /\ Head(todo) \in CallSteps
  BY <1>2, HeadFacts
<1>4. frames = <<>>
  <2>1. SUFFICES ASSUME frames # <<>> PROVE FALSE
    OBVIOUS
  <2>2. PICK f \in TuneFrames, n \in 1 .. Len(todo) : HeadAt(f, n)
    BY <1>1, <2>1, TuningHead
  <2>3. todo[1].op \in Clocking \cup Tuning
    BY <2>2 DEF HeadAt
  <2>. QED  BY <1>2, <1>3, <2>3 DEF Clocking, Tuning
<1>5. SourceInv /\ Outside(2) /\ (Fresh => ~FirActive)
  BY <1>1, <1>4 DEF CallInv
<1>6. Head(todo).max \in BOOLEAN
  BY <1>2, <1>3, TuneFlags
<1>7. Fresh = Head(todo).max
  BY <1>2, <1>6 DEF Fresh, Ending
<1>. QED  BY <1>1, <1>2, <1>3, <1>4, <1>5, <1>7

\* The locals of the tuning that begins.
LEMMA FrameFacts ==
  ASSUME IInv, DigTune
  PROVE  \E f \in TuneFrames : /\ frames' = <<f>> /\ f.flags = Head(todo).flags
                               /\ f.max = Head(todo).max /\ f.atten = chip.atten
                               /\ f.source = chip.source
<1> DEFINE t == Head(todo)
           eyes == Both(Skews)
           f == [ensm |-> ensm, flags |-> t.flags, max |-> t.max, atten |-> chip.atten,
                 loop |-> drv.loop, test |-> drv.test, source |-> chip.source, eye |-> eyes]
<1>1. Do("tune") /\ frames' = <<f>> \o frames
  BY DEF DigTune
<1>2. /\ Types /\ frames = <<>> /\ SourceInv /\ t \in CallSteps /\ t.op = "tune"
  BY <1>1, TuneStart
<1>3. chip \in Chips /\ drv \in Drvs /\ ensm \in Ensms /\ want \in Wants
  BY <1>2, Parts
<1>4. t.max \in BOOLEAN /\ t.flags \in {{}, {"skip"}, {"default"}}
  BY <1>2, TuneFlags
<1>5. chip.atten \in AttenPairs /\ chip.source \in Sources \ {"pn"}
  <2>1. want.source \in {"dds", "dma"}
    BY <1>3 DEF Wants
  <2>2. chip.atten \in AttenPairs /\ chip.source \in Sources
    BY <1>3 DEF Chips
  <2>3. chip.source # "pn"
    BY <1>2, <2>1 DEF SourceInv
  <2>. QED  BY <2>2, <2>3
<1>6. drv.loop \in 0 .. 3 /\ drv.test \in Tests
  BY <1>3 DEF Drvs
<1>7. eyes \in [Paths -> SUBSET Skews]
  BY BothType
<1> HIDE DEF t, eyes
<1>8. f \in TuneFrames
  BY <1>3, <1>4, <1>5, <1>6, <1>7 DEF TuneFrames
<1>9. /\ f.flags = t.flags /\ f.max = t.max /\ f.atten = chip.atten
      /\ f.source = chip.source
  OBVIOUS
<1> HIDE DEF f
<1>10. frames' = <<f>>
  BY <1>1, <1>2
<1>. QED  BY <1>8, <1>9, <1>10 DEF t


\* What is to be shown of a step after which a tuning is in progress.
LEMMA InTuning ==
  ASSUME NEW f \in TuneFrames, NEW n, frames' = <<f>>, n \in 1 .. Len(todo'), TuneInv(f, n)',
         todo' \in Seq(CallSteps), calls' \in 0 .. MaxCalls, ret' \in {"ok", "error", "eio"},
         chip' \in Chips, drv' \in Drvs, ensm' \in Ensms, want' \in Wants, TonesKept'
  PROVE  IInv'
<1>1. Frame' = f
  BY DEF Frame
<1>2. CallInv'
  BY <1>1 DEF CallInv
<1>3. Types'
  BY DEF Types
<1>. QED  BY <1>2, <1>3 DEF IInv

LEMMA DefaultTuneKeeps ==
  ASSUME IInv, DigTune, "default" \in Head(todo).flags
  PROVE  IInv'
<1> DEFINE x == Step("tuneend")
           r == <<x>>
<1>1. /\ Do("tune") /\ ret' = "ok" /\ want' = want
      /\ chip' = chip /\ drv' = drv /\ ensm' = ensm /\ todo' = r \o Tail(todo)
  BY DEF DigTune, Push
<1>2. /\ Types /\ CallInv /\ TonesKept /\ frames = <<>> /\ SourceInv /\ Outside(2)
      /\ todo \in Seq(CallSteps) /\ todo # <<>> /\ calls' \in 0 .. MaxCalls
      /\ Head(todo) \in CallSteps /\ Head(todo).op = "tune" /\ Fresh = Head(todo).max
  BY <1>1, TuneStart
<1>3. /\ chip \in Chips /\ drv \in Drvs /\ ensm \in Ensms /\ want \in Wants
  BY <1>2, Parts
<1>4. ~Head(todo).max
  BY <1>2, TuneFlags
<1>5. PICK f \in TuneFrames : /\ frames' = <<f>> /\ f.flags = Head(todo).flags
                              /\ f.max = Head(todo).max
  BY FrameFacts
<1>6. x \in CallSteps /\ x.op = "tuneend" /\ x = Step("tuneend")
  BY StepTypes, StepOps DEF PlainSteps
<1> HIDE DEF x
<1>7. r \in Seq(CallSteps) /\ Len(r) = 1 /\ r[1] = x
  BY <1>6
<1> HIDE DEF r
<1>8. /\ todo' \in Seq(CallSteps) /\ 1 \in 1 .. Len(todo') /\ todo'[1] = x
      /\ \A i \in 2 .. Len(todo') : todo'[i].op \notin Tuning \cup {"tune"}
      /\ Head(todo') = x
  <2>1. Len(r) >= 1 /\ Len(r) + 1 = 2
    BY <1>7
  <2>2. /\ todo' \in Seq(CallSteps) /\ Len(r) \in 1 .. Len(todo')
        /\ \A i \in 1 .. Len(r) : todo'[i] = r[i]
        /\ \A i \in Len(r) + 1 .. Len(todo') : todo'[i].op \notin Tuning \cup {"tune"}
        /\ Head(todo') = todo'[1]
    BY <1>1, <1>2, <1>7, <2>1, QueueFacts
  <2>3. todo'[1] = x
    BY <1>7, <2>2
  <2>. QED  BY <1>7, <2>1, <2>2, <2>3
<1>9. SourceInv'
  BY <1>1, <1>2, <1>4, SourceAcross
<1>10. TuneInv(f, 1)'
  <2>1. Outside(2)'
    BY <1>8 DEF Outside
  <2>2. \A i \in 1 .. 1 - 1 : todo'[i].op \notin {"tune", "tuneend"} \cup Clocking
    OBVIOUS
  <2>3. "default" \in f.flags /\ ~f.max
    BY <1>4, <1>5
  <2>. QED  BY <1>1, <1>6, <1>8, <1>9, <2>1, <2>2, <2>3 DEF TuneInv
<1>11. TonesKept'
  BY <1>1, <1>2, TonesAcross
<1>. QED  BY <1>1, <1>2, <1>3, <1>5, <1>8, <1>10, <1>11, InTuning

\* ad9361_dig_tune up to the receiver's sweeps: the source is taken back from a loopback,
\* the transmitter is muted, and the attenuation it had is in the cache.
LEMMA SweepTuneKeeps ==
  ASSUME IInv, DigTune, "default" \notin Head(todo).flags
  PROVE  IInv'
<1> DEFINE m == Mute(Now)
           z == BistLoopback(m, 0)
           x == BistPrbs(z, "rx")
           max == Head(todo).max
           e == Step("tuneend")
           r == DigTuneDelay("rx", max) \o <<e>>
<1>1. /\ Do("tune") /\ ret' = "ok" /\ want' = want
      /\ chip' = x.c /\ drv' = x.d /\ ensm' = SetEnsmMode(ensm, TRUE)
      /\ todo' = r \o Tail(todo)
  BY DEF DigTune, Push, Set
<1>2. /\ Types /\ CallInv /\ TonesKept /\ frames = <<>> /\ SourceInv /\ Outside(2)
      /\ todo \in Seq(CallSteps) /\ todo # <<>> /\ calls' \in 0 .. MaxCalls
      /\ Head(todo) \in CallSteps /\ Head(todo).op = "tune" /\ Fresh = Head(todo).max
      /\ (Head(todo).max => ~FirActive)
  BY <1>1, TuneStart
<1>3. /\ chip \in Chips /\ drv \in Drvs /\ ensm \in Ensms /\ want \in Wants
      /\ Now \in Pairs /\ Now.c = chip /\ Now.d = drv
  BY <1>2, Parts, NowFacts
<1>4. /\ max \in BOOLEAN /\ (max => Head(todo).flags = {})
  BY <1>2, TuneFlags
<1>5. PICK f \in TuneFrames : /\ frames' = <<f>> /\ f.flags = Head(todo).flags
                              /\ f.max = max /\ f.atten = chip.atten
  BY FrameFacts
<1>6. e \in CallSteps /\ e = Step("tuneend") /\ e.op = "tuneend"
  BY StepTypes, StepOps DEF PlainSteps
<1>7. /\ r \in Seq(CallSteps) /\ Len(r) = (IF max THEN 8 ELSE 3)
      /\ r[Len(r)] = e /\ r[Len(r) - 1] = Choose("rx")
      /\ \A i \in 1 .. Len(r) - 2 : r[i] = Sweep("rx") \/ (max /\ r[i].op = "rate")
  <2>1. "rx" \in Paths
    BY DEF Paths
  <2>. QED  BY <1>4, <1>6, <2>1, DelayThen
<1> HIDE DEF r, e, max
<1>8. /\ m \in Pairs /\ SameRest(Now, m) /\ m.c.source = chip.source
      /\ m.d.scratch = drv.scratch /\ m.c.atten = AllMuted /\ m.d.atten = chip.atten
  BY <1>3, MuteFacts
<1> HIDE DEF m
<1>9. want.source \in {"dds", "dma"}
  BY <1>3 DEF Wants
<1>10. /\ chip.pn = "pn9"
       /\ chip.source = "adc" \/ chip.source = want.source
       /\ chip.source = "adc" => drv.scratch = want.source
  BY <1>2 DEF SourceInv
<1>11. /\ z \in Pairs /\ SameRest(m, z) /\ z.c.loop = (0 = 1) /\ z.d.loop = 0
       /\ z.c.source = want.source
       /\ z.c.atten = m.c.atten /\ z.d.atten = m.d.atten
  <2>1. ASSUME NEW n \in 0 .. 3, n = 0
        PROVE  /\ BistLoopback(m, n) \in Pairs /\ SameRest(m, BistLoopback(m, n))
               /\ BistLoopback(m, n).c.loop = (n = 1) /\ BistLoopback(m, n).d.loop = n
               /\ BistLoopback(m, n).c.source = IF m.c.source = "adc" THEN m.d.scratch
                                                ELSE m.c.source
               /\ BistLoopback(m, n).c.atten = m.c.atten
               /\ BistLoopback(m, n).d.atten = m.d.atten
    <3>1. m.c.source # "pn"
      BY <1>8, <1>9, <1>10
    <3>. QED  BY <1>8, <2>1, <3>1, LoopbackFacts
  <2>2. /\ z \in Pairs /\ SameRest(m, z) /\ z.c.loop = (0 = 1) /\ z.d.loop = 0
        /\ z.c.source = IF m.c.source = "adc" THEN m.d.scratch ELSE m.c.source
        /\ z.c.atten = m.c.atten /\ z.d.atten = m.d.atten
    <3>1. 0 \in 0 .. 3
      OBVIOUS
    <3>. QED  BY <2>1, <3>1, Zenon DEF z
  <2> HIDE DEF z
  <2>. QED  BY <1>8, <1>10, <2>2
<1> HIDE DEF z
<1>12. /\ x \in Pairs /\ SameRest(z, x) /\ x.c.loop = z.c.loop /\ x.d.loop = z.d.loop
       /\ x.c.source = z.c.source /\ x.c.atten = z.c.atten /\ x.d.atten = z.d.atten
  BY <1>11, PrbsFacts DEF Tests
<1> HIDE DEF x
<1>13. /\ x.c.pn = "pn9" /\ x.c.tone = chip.tone /\ x.d.tone = drv.tone
       /\ x.d.bypass = drv.bypass
  <2>1. /\ m.c.pn = "pn9" /\ m.c.tone = chip.tone /\ m.d.tone = drv.tone
        /\ m.d.bypass = drv.bypass
    BY <1>3, <1>8, <1>10 DEF SameRest
  <2>2. /\ z.c.pn = "pn9" /\ z.c.tone = chip.tone /\ z.d.tone = drv.tone
        /\ z.d.bypass = drv.bypass
    BY <1>11, <2>1 DEF SameRest
  <2>. QED  BY <1>12, <2>2 DEF SameRest
<1>14. OwnSource' /\ LoopIs(0)' /\ Muted' /\ drv'.atten = f.atten
  <2>1. LoopIs(0)'
    BY <1>1, <1>11, <1>12 DEF LoopIs
  <2>. QED  BY <1>1, <1>5, <1>8, <1>11, <1>12, <1>13, <2>1 DEF OwnSource, Muted, AllMuted
<1> DEFINE n == Len(r)
<1>15. /\ todo' \in Seq(CallSteps) /\ n \in 1 .. Len(todo')
       /\ \A i \in 1 .. n : todo'[i] = r[i]
       /\ \A i \in n + 1 .. Len(todo') : todo'[i].op \notin Tuning \cup {"tune"}
  <2>1. Len(r) >= 1
    BY <1>7
  <2>. QED  BY <1>1, <1>2, <1>7, <2>1, QueueFacts
<1>16. PICK k \in {3, 8} : k = n /\ k = (IF max THEN 8 ELSE 3)
  BY <1>4, <1>7
<1> HIDE DEF n
<1>17. /\ todo'[k] = e /\ todo'[k - 1] = Choose("rx")
       /\ \A i \in 1 .. k - 2 : todo'[i] = Sweep("rx") \/ (max /\ todo'[i].op = "rate")
  BY <1>7, <1>15, <1>16 DEF n
<1>18. ASSUME NEW i \in 1 .. k - 1
       PROVE  /\ todo'[i].op \in {"sweep", "choose"} \/ (max /\ todo'[i].op = "rate")
              /\ i <= k - 2 => todo'[i].op \in Clocking \cup {"sweep"}
  <2>1. CASE i = k - 1
    BY <1>16, <1>17, <2>1, StepOps
  <2>2. CASE i # k - 1
    <3>1. i \in 1 .. k - 2
      BY <1>16, <2>2
    <3>. QED  BY <1>17, <3>1, StepOps DEF Clocking
  <2>. QED  BY <2>1, <2>2
<1>19. RxPart(k)'
  <2>1. \A i \in 1 .. k - 2 : todo'[i].op \in Clocking \cup {"sweep"}
    BY <1>16, <1>18
  <2>. QED  BY <1>14, <1>17, <2>1 DEF RxPart
<1>20. f.max => f.flags = {} /\ ~FirActive'
  BY <1>1, <1>2, <1>4, <1>5, <1>13 DEF FirActive, max
<1>21. TuneInv(f, k)'
  <2>1. Outside(k + 1)'
    BY <1>15, <1>16 DEF Outside
  <2>2. \A i \in 1 .. k - 1 : todo'[i].op \notin {"tune", "tuneend"}
    BY <1>18
  <2>3. ~f.max => \A i \in 1 .. k - 1 : todo'[i].op \notin Clocking
    BY <1>5, <1>18 DEF Clocking
  <2>4. "default" \notin f.flags /\ k > 1
    BY <1>5, <1>16
  <2>. QED  BY <1>6, <1>14, <1>17, <1>19, <1>20, <2>1, <2>2, <2>3, <2>4 DEF TuneInv
<1>22. ensm' \in Ensms
  BY <1>1, <1>3, ModeType
<1>23. TonesKept'
  BY <1>1, <1>2, <1>13, TonesAcross
<1>24. chip' \in Chips /\ drv' \in Drvs
  BY <1>1, <1>12, PairFields
<1>. QED  BY <1>1, <1>2, <1>3, <1>5, <1>15, <1>16, <1>21, <1>22, <1>23, <1>24, InTuning


\* A step of a tuning is done: what follows moves up.
LEMMA TailFacts ==
  ASSUME todo \in Seq(CallSteps), todo' = Tail(todo), NEW n \in Nat, n >= 2, n <= Len(todo)
  PROVE  /\ todo' \in Seq(CallSteps) /\ n - 1 \in 1 .. Len(todo') /\ n - 1 \in Nat
         /\ \A i \in 1 .. n - 1 : todo'[i] = todo[i + 1]
         /\ Outside(n + 1) => Outside((n - 1) + 1)'
<1>1. Len(todo) \in Nat /\ todo # <<>>
  BY EmptySeq
<1>2. /\ Tail(todo) \in Seq(CallSteps) /\ Len(Tail(todo)) = Len(todo) - 1
      /\ \A i \in 1 .. Len(todo) - 1 : Tail(todo)[i] = todo[i + 1]
  BY <1>1, HeadTailProperties
<1>3. /\ todo' \in Seq(CallSteps) /\ Len(todo') = Len(todo) - 1
      /\ \A i \in 1 .. Len(todo) - 1 : todo'[i] = todo[i + 1]
  BY <1>2
<1>4. n - 1 \in 1 .. Len(todo') /\ n - 1 \in Nat
  BY <1>1, <1>3
<1>5. \A i \in 1 .. n - 1 : todo'[i] = todo[i + 1]
  BY <1>1, <1>3
<1>6. ASSUME Outside(n + 1), NEW i \in (n - 1) + 1 .. Len(todo')
      PROVE  todo'[i].op \notin Tuning \cup {"tune"}
  <2>1. i \in 1 .. Len(todo) - 1 /\ i + 1 \in n + 1 .. Len(todo)
    BY <1>1, <1>3
  <2>. QED  BY <1>3, <1>6, <2>1 DEF Outside
<1>. QED  BY <1>3, <1>4, <1>5, <1>6 DEF Outside

\* What holds of a tuning but for its parts.
Outer(f, n) ==
    /\ todo[n] = Step("tuneend") /\ Outside(n + 1)
    /\ \A i \in 1 .. n - 1 : todo[i].op \notin {"tune", "tuneend"}
    /\ IF f.max THEN f.flags = {} /\ ~FirActive
       ELSE \A i \in 1 .. n - 1 : todo[i].op \notin Clocking

LEMMA PopOuter ==
  ASSUME todo \in Seq(CallSteps), todo' = Tail(todo), drv'.bypass = drv.bypass,
         NEW f, NEW n \in Nat, n >= 2, n <= Len(todo), TuneInv(f, n),
         NEW g, g.max = f.max, g.flags = f.flags
  PROVE  /\ Outer(g, n - 1)'
         /\ todo' \in Seq(CallSteps) /\ n - 1 \in 1 .. Len(todo') /\ n - 1 \in Nat
<1>1. Outer(f, n)
  BY DEF TuneInv, Outer
<1>2. /\ todo' \in Seq(CallSteps) /\ n - 1 \in 1 .. Len(todo') /\ n - 1 \in Nat
      /\ \A i \in 1 .. n - 1 : todo'[i] = todo[i + 1]
      /\ Outside(n + 1) => Outside((n - 1) + 1)'
  BY TailFacts
<1>3. todo'[n - 1] = Step("tuneend")
  <2>1. n - 1 \in 1 .. n - 1 /\ (n - 1) + 1 = n
    OBVIOUS
  <2>. QED  BY <1>1, <1>2, <2>1 DEF Outer
<1>4. ASSUME NEW i \in 1 .. (n - 1) - 1
      PROVE  todo'[i] = todo[i + 1] /\ i + 1 \in 1 .. n - 1
  <2>1. i \in 1 .. n - 1 /\ i + 1 \in 1 .. n - 1
    OBVIOUS
  <2>. QED  BY <1>2, <2>1
<1>5. \A i \in 1 .. (n - 1) - 1 : todo'[i].op \notin {"tune", "tuneend"}
  BY <1>1, <1>4 DEF Outer
<1>6. IF g.max THEN g.flags = {} /\ ~FirActive'
      ELSE \A i \in 1 .. (n - 1) - 1 : todo'[i].op \notin Clocking
  <2>1. FirActive' = FirActive
    BY DEF FirActive
  <2>2. CASE g.max
    BY <1>1, <2>1, <2>2 DEF Outer
  <2>3. CASE ~g.max
    <3>1. \A i \in 1 .. n - 1 : todo[i].op \notin Clocking
      BY <1>1, <2>3 DEF Outer
    <3>. QED  BY <1>4, <2>3, <3>1
  <2>. QED  BY <2>2, <2>3
<1>7. Outside((n - 1) + 1)'
  BY <1>1, <1>2 DEF Outer
<1>. QED  BY <1>2, <1>3, <1>5, <1>6, <1>7 DEF Outer

\* The steps of the receiver's part, and of the transmitter's, after the first.
LEMMA PopRx ==
  ASSUME todo \in Seq(CallSteps), todo' = Tail(todo), NEW n \in Nat, n >= 3, n <= Len(todo),
         RxPart(n)
  PROVE  /\ todo'[(n - 1) - 1] = Choose("rx")
         /\ \A i \in 1 .. (n - 1) - 2 : todo'[i].op \in Clocking \cup {"sweep"}
<1>1. \A i \in 1 .. n - 1 : todo'[i] = todo[i + 1]
  BY TailFacts
<1>2. todo[n - 1] = Choose("rx") /\ \A i \in 1 .. n - 2 : todo[i].op \in Clocking \cup {"sweep"}
  BY DEF RxPart
<1>3. (n - 1) - 1 \in 1 .. n - 1 /\ ((n - 1) - 1) + 1 = n - 1
  OBVIOUS
<1>4. ASSUME NEW i \in 1 .. (n - 1) - 2 PROVE todo'[i].op \in Clocking \cup {"sweep"}
  <2>1. i \in 1 .. n - 1 /\ i + 1 \in 1 .. n - 2
    OBVIOUS
  <2>. QED  BY <1>1, <1>2, <2>1
<1>. QED  BY <1>1, <1>2, <1>3, <1>4

LEMMA PopTx ==
  ASSUME todo \in Seq(CallSteps), todo' = Tail(todo), NEW f, NEW n \in Nat, n >= 4,
         n <= Len(todo), TxPart(f, n)
  PROVE  /\ todo'[(n - 1) - 1] = Step("txend")
         /\ todo'[(n - 1) - 2] = Choose("tx")
         /\ \A i \in 1 .. (n - 1) - 3 : todo'[i].op \in Clocking \/ todo'[i] = Sweep("tx")
         /\ todo'[1].op # "txtune"
<1>1. \A i \in 1 .. n - 1 : todo'[i] = todo[i + 1]
  BY TailFacts
<1>2. /\ todo[n - 1] = Step("txend") /\ todo[n - 2] = Choose("tx")
      /\ \A i \in 1 .. n - 3 : \/ todo[i].op \in Clocking \/ todo[i] = Sweep("tx")
                               \/ i = 1 /\ todo[i] = Step("txtune")
  BY DEF TxPart
<1>3. /\ (n - 1) - 1 \in 1 .. n - 1 /\ ((n - 1) - 1) + 1 = n - 1
      /\ (n - 1) - 2 \in 1 .. n - 1 /\ ((n - 1) - 2) + 1 = n - 2
  OBVIOUS
<1>4. ASSUME NEW i \in 1 .. (n - 1) - 3
      PROVE  todo'[i].op \in Clocking \/ todo'[i] = Sweep("tx")
  <2>1. i \in 1 .. n - 1 /\ i + 1 \in 1 .. n - 3 /\ i + 1 # 1
    OBVIOUS
  <2>. QED  BY <1>1, <1>2, <2>1
<1>5. todo'[(n - 1) - 1] = Step("txend") /\ todo'[(n - 1) - 2] = Choose("tx")
  BY <1>1, <1>2, <1>3
<1>6. todo'[1].op # "txtune"
  <2>1. CASE n = 4
    <3>1. todo'[1] = Choose("tx")
      BY <1>5, <2>1
    <3>2. todo'[1].op = "choose"
      BY <3>1, StepOps
    <3>. QED  BY <3>2
  <2>2. CASE n # 4
    <3>1. 1 \in 1 .. (n - 1) - 3
      BY <2>2
    <3>2. todo'[1].op \in Clocking \/ todo'[1] = Sweep("tx")
      BY <1>4, <3>1
    <3>3. todo'[1] = Sweep("tx") => todo'[1].op = "sweep"
      BY StepOps
    <3>. QED  BY <3>2, <3>3 DEF Clocking
  <2>. QED  BY <2>1, <2>2
<1>. QED  BY <1>4, <1>5, <1>6


\* A step that only tunings take is part of one.
LEMMA TuningStep ==
  ASSUME IInv, NEW name \in Tuning, Do(name)
  PROVE  /\ Types /\ TonesKept /\ todo \in Seq(CallSteps) /\ todo # <<>>
         /\ Head(todo) = todo[1] /\ todo[1] \in CallSteps /\ todo[1].op = name
         /\ calls' \in 0 .. MaxCalls
         /\ chip \in Chips /\ drv \in Drvs /\ ensm \in Ensms /\ want \in Wants
         /\ ret \in {"ok", "error", "eio"}
         /\ Now \in Pairs /\ Now.c = chip /\ Now.d = drv
         /\ \E f \in TuneFrames, n \in Nat :
                /\ n >= 1 /\ n <= Len(todo) /\ frames = <<f>> /\ Frame = f
                /\ TuneInv(f, n) /\ HeadAt(f, n)
<1>1. Types /\ CallInv /\ TonesKept
  BY DEF IInv
<1>2. /\ todo # <<>> /\ todo \in Seq(CallSteps) /\ Head(todo).op = name
      /\ calls' \in 0 .. MaxCalls
  BY <1>1 DEF Do, Types
<1>3. Head(todo) = todo[1] /\ todo[1] \in CallSteps /\ Len(todo) \in Nat
  BY <1>2, HeadFacts
<1>4. frames # <<>>
  BY <1>1, <1>2, <1>3 DEF CallInv
<1>5. PICK f \in TuneFrames, n \in 1 .. Len(todo) :
          frames = <<f>> /\ Frame = f /\ TuneInv(f, n) /\ HeadAt(f, n)
  BY <1>1, <1>4, TuningHead
<1>6. n \in Nat /\ n >= 1 /\ n <= Len(todo)
  BY <1>3
<1>7. \E g \in TuneFrames, k \in Nat :
          /\ k >= 1 /\ k <= Len(todo) /\ frames = <<g>> /\ Frame = g
          /\ TuneInv(g, k) /\ HeadAt(g, k)
  BY <1>5, <1>6
<1>. QED  BY <1>1, <1>2, <1>3, <1>7, Parts, NowFacts

\* What a tuning borrows is as it was.
Held ==
    /\ chip'.atten = chip.atten /\ chip'.source = chip.source /\ chip'.pn = chip.pn
    /\ chip'.loop = chip.loop /\ drv'.loop = drv.loop /\ drv'.atten = drv.atten
    /\ drv'.bypass = drv.bypass /\ want'.source = want.source

LEMMA HeldParts ==
  ASSUME Held
  PROVE  /\ OwnSource' = OwnSource /\ LoopIs(0)' = LoopIs(0) /\ LoopIs(1)' = LoopIs(1)
         /\ Muted' = Muted /\ FirActive' = FirActive
BY DEF Held, OwnSource, LoopIs, Muted, FirActive

\* Where a tuning goes on.
LEMMA TuningOn ==
  ASSUME NEW f, NEW n, Outer(f, n)', "default" \notin f.flags, Muted', drv'.atten = f.atten,
         \/ n > 1 /\ RxPart(n)'
         \/ n > 1 /\ TxPart(f, n)'
         \/ n = 1 /\ EndPart(f)'
  PROVE  TuneInv(f, n)'
BY DEF Outer, TuneInv

\* A sweep or a clock's step is done, and its part goes on.
LEMMA PartGoesOn ==
  ASSUME todo \in Seq(CallSteps), todo' = Tail(todo), Held,
         NEW f \in TuneFrames, NEW n \in Nat, n <= Len(todo), TuneInv(f, n),
         "default" \notin f.flags,
         \/ n >= 3 /\ RxPart(n)
         \/ n >= 4 /\ TxPart(f, n) /\ todo[1].op # "txtune",
         NEW g \in TuneFrames, g.max = f.max, g.flags = f.flags, g.atten = f.atten,
         g.source = f.source, TxPart(f, n) => Good(g, "rx")'
  PROVE  /\ TuneInv(g, n - 1)' /\ todo' \in Seq(CallSteps) /\ n - 1 \in 1 .. Len(todo')
<1>1. n >= 3
  OBVIOUS
<1>2. drv'.bypass = drv.bypass
  BY DEF Held
<1>3. /\ Outer(g, n - 1)'
      /\ todo' \in Seq(CallSteps) /\ n - 1 \in 1 .. Len(todo') /\ n - 1 \in Nat
  BY <1>1, <1>2, PopOuter
<1>4. Muted /\ drv.atten = f.atten
  BY DEF TuneInv
<1>5. Muted' /\ drv'.atten = g.atten
  BY <1>4, HeldParts DEF Held
<1>6. ASSUME n >= 3, RxPart(n) PROVE RxPart(n - 1)'
  <2>1. /\ todo'[(n - 1) - 1] = Choose("rx")
        /\ \A i \in 1 .. (n - 1) - 2 : todo'[i].op \in Clocking \cup {"sweep"}
    BY <1>6, PopRx
  <2>2. OwnSource' /\ LoopIs(0)'
    BY <1>6, HeldParts DEF RxPart
  <2>. QED  BY <2>1, <2>2 DEF RxPart
<1>7. ASSUME n >= 4, TxPart(f, n), todo[1].op # "txtune" PROVE TxPart(g, n - 1)'
  <2>1. /\ todo'[(n - 1) - 1] = Step("txend")
        /\ todo'[(n - 1) - 2] = Choose("tx")
        /\ \A i \in 1 .. (n - 1) - 3 : todo'[i].op \in Clocking \/ todo'[i] = Sweep("tx")
        /\ todo'[1].op # "txtune"
    BY <1>7, PopTx
  <2>2. chip.source = "pn" /\ f.source = want.source /\ LoopIs(1)
    BY <1>7 DEF TxPart
  <2>3. chip'.source = "pn" /\ g.source = want'.source /\ LoopIs(1)'
    BY <2>2, HeldParts DEF Held
  <2>4. n - 1 # 2
    BY <1>7
  <2>. QED  BY <1>7, <2>1, <2>3, <2>4 DEF TxPart
<1>8. TuneInv(g, n - 1)'
  <2>1. n - 1 > 1
    BY <1>1
  <2>. QED  BY <1>3, <1>5, <1>6, <1>7, <2>1, TuningOn
<1>. QED  BY <1>3, <1>8

LEMMA DoSweepKeeps ==
  ASSUME IInv, DoSweep
  PROVE  IInv'
<1> DEFINE p == Head(todo).path
           start == [clk |-> NumDelays - 1, data |-> 0]
           delays == [chip.delay EXCEPT ![p] = start]
<1>1. /\ Do("sweep") /\ todo' = Tail(todo) /\ ensm' = SetIntfDelay(ensm)
      /\ chip' = [chip EXCEPT !.delay = delays]
      /\ drv' = drv /\ ret' = ret /\ want' = want
  BY DEF DoSweep, Pop
<1>2. /\ Types /\ TonesKept /\ todo \in Seq(CallSteps)
      /\ Head(todo) = todo[1] /\ todo[1] \in CallSteps /\ todo[1].op = "sweep"
      /\ calls' \in 0 .. MaxCalls
      /\ chip \in Chips /\ drv \in Drvs /\ ensm \in Ensms /\ want \in Wants
      /\ ret \in {"ok", "error", "eio"}
  BY <1>1, TuningStep DEF Tuning
<1>3. PICK f \in TuneFrames, n \in Nat :
          /\ n >= 1 /\ n <= Len(todo) /\ frames = <<f>> /\ Frame = f
          /\ TuneInv(f, n) /\ HeadAt(f, n)
  BY <1>1, TuningStep DEF Tuning
<1>4. p \in Paths
  BY <1>2, StepKinds
<1>5. /\ "default" \notin f.flags
      /\ \/ n >= 3 /\ RxPart(n)
         \/ n >= 4 /\ TxPart(f, n) /\ todo[1] = Sweep("tx")
  BY <1>2, <1>3 DEF HeadAt
<1>6. PICK eye \in {Skews} \cup Eyes \cup {{}} :
          frames' = [frames EXCEPT ![1].eye[p] = @ \cap eye]
  BY DEF DoSweep
<1> DEFINE eyes == [f.eye EXCEPT ![p] = @ \cap eye]
<1>7. f.eye \in [Paths -> SUBSET Skews]
  BY DEF TuneFrames
<1>8. /\ eyes \in [Paths -> SUBSET Skews]
      /\ \A q \in Paths \ {p} : eyes[q] = f.eye[q]
  BY <1>4, <1>7
<1>9. PICK g \in TuneFrames : /\ frames' = <<g>> /\ g.max = f.max /\ g.flags = f.flags
                              /\ g.atten = f.atten /\ g.source = f.source /\ g.eye = eyes
  <2> DEFINE g == [f EXCEPT !.eye = eyes]
  <2>1. frames' = <<g>>
    <3> DEFINE h == [frames[1] EXCEPT !.eye = [frames[1].eye EXCEPT ![p] = @ \cap eye]]
    <3>1. frames' = [frames EXCEPT ![1] = h]
      BY <1>6
    <3>2. frames[1] = f
      BY <1>3
    <3>3. h = g
      BY <3>2
    <3> HIDE DEF h, g
    <3>. QED  BY <1>3, <3>1, <3>3
  <2> HIDE DEF eyes
  <2>2. /\ g \in TuneFrames /\ g.max = f.max /\ g.flags = f.flags
        /\ g.atten = f.atten /\ g.source = f.source /\ g.eye = eyes
    BY <1>8 DEF TuneFrames
  <2>. QED  BY <2>1, <2>2
<1>10. start \in Delays
  BY LinkAssumption DEF Delays
<1>11. /\ delays \in [Paths -> Delays]
       /\ \A q \in Paths \ {p} : delays[q] = chip.delay[q]
  <2>1. chip.delay \in [Paths -> Delays]
    BY <1>2 DEF Chips
  <2> HIDE DEF start
  <2>. QED  BY <1>4, <1>10, <2>1
<1> HIDE DEF p, eyes, delays
<1>12. /\ chip' \in Chips /\ chip'.atten = chip.atten /\ chip'.source = chip.source
       /\ chip'.pn = chip.pn /\ chip'.loop = chip.loop /\ chip'.delay = delays
       /\ chip'.tone = chip.tone
  BY <1>1, <1>2, <1>11 DEF Chips
<1>13. Held
  BY <1>1, <1>12 DEF Held
<1>14. ASSUME TxPart(f, n), todo[1] = Sweep("tx") PROVE Good(g, "rx")'
  <2>1. p = "tx"
    BY <1>2, <1>14, StepOps DEF p
  <2>2. "rx" \in Paths \ {p}
    BY <2>1 DEF Paths
  <2>3. Good(f, "rx")
    BY <1>14 DEF TxPart
  <2>. QED  BY <1>8, <1>9, <1>11, <1>12, <2>2, <2>3 DEF Good
<1>15. TxPart(f, n) => Good(g, "rx")'
  <2>1. CASE n >= 3 /\ RxPart(n)
    <3>1. todo[n - 1] = Choose("rx")
      BY <2>1 DEF RxPart
    <3>2. Choose("rx").op # Step("txend").op
      BY StepOps
    <3>. QED  BY <3>1, <3>2 DEF TxPart
  <2>2. CASE n >= 4 /\ TxPart(f, n) /\ todo[1] = Sweep("tx")
    BY <1>14, <2>2
  <2>. QED  BY <1>5, <2>1, <2>2
<1>16. /\ TuneInv(g, n - 1)' /\ todo' \in Seq(CallSteps) /\ n - 1 \in 1 .. Len(todo')
  BY <1>1, <1>2, <1>3, <1>5, <1>9, <1>13, <1>15, PartGoesOn
<1>17. ensm' \in Ensms
  BY <1>1, <1>2, IntfDelayType
<1>18. TonesKept'
  BY <1>1, <1>2, <1>12, TonesAcross
<1>. QED  BY <1>1, <1>2, <1>9, <1>12, <1>16, <1>17, <1>18, InTuning


----------------------------------------------------------------------------
(* The clocks, outside of a tuning and inside of one.                      *)

\* Inside of a tuning a clock's step puts one of its own kind in its place.
LEMMA PartStays ==
  ASSUME todo \in Seq(CallSteps), todo # <<>>, NEW x \in CallSteps, x.op \in Clocking,
         todo' = <<x>> \o Tail(todo), Held, chip'.delay = chip.delay,
         NEW f, NEW n \in Nat, n <= Len(todo), TuneInv(f, n),
         "default" \notin f.flags, f.max,
         \/ n >= 3 /\ RxPart(n)
         \/ n >= 4 /\ TxPart(f, n) /\ todo[1].op # "txtune"
  PROVE  TuneInv(f, n)' /\ todo' \in Seq(CallSteps) /\ n \in 1 .. Len(todo')
<1> DEFINE s == <<x>>
<1>1. s \in Seq(CallSteps) /\ Len(s) = 1 /\ s[1] = x /\ todo' = s \o Tail(todo)
  OBVIOUS
<1> HIDE DEF s
<1>2. Replaced(todo, s, todo')
  BY <1>1, PushFacts
<1>3. Len(todo) \in Nat
  BY EmptySeq
<1>4. /\ todo' \in Seq(CallSteps) /\ Len(todo') = Len(todo) /\ todo'[1] = x
      /\ \A i \in 2 .. Len(todo) : todo'[i] = todo[i]
  <2>1. /\ todo' \in Seq(CallSteps) /\ Len(todo') = Len(s) + Len(todo) - 1
        /\ \A i \in 1 .. Len(s) : todo'[i] = s[i]
        /\ \A i \in Len(s) + 1 .. Len(todo') : todo'[i] = todo[i - Len(s) + 1]
    BY <1>2 DEF Replaced
  <2>2. Len(todo') = Len(todo) /\ todo'[1] = x
    BY <1>1, <1>3, <2>1
  <2>3. ASSUME NEW i \in 2 .. Len(todo) PROVE todo'[i] = todo[i]
    <3>1. i \in Len(s) + 1 .. Len(todo') /\ i - Len(s) + 1 = i
      BY <1>1, <1>3, <2>2
    <3>. QED  BY <2>1, <3>1
  <2>. QED  BY <2>1, <2>2, <2>3
<1>5. Outer(f, n) /\ Muted /\ drv.atten = f.atten
  BY DEF TuneInv, Outer
<1>6. Outer(f, n)'
  <2>1. todo'[n] = Step("tuneend")
    BY <1>3, <1>4, <1>5 DEF Outer
  <2>2. Outside(n + 1)'
    <3>1. ASSUME NEW i \in n + 1 .. Len(todo') PROVE todo'[i].op \notin Tuning \cup {"tune"}
      <4>1. i \in n + 1 .. Len(todo) /\ i \in 2 .. Len(todo)
        BY <1>3, <1>4
      <4>. QED  BY <1>4, <1>5, <4>1 DEF Outer, Outside
    <3>. QED  BY <3>1 DEF Outside
  <2>3. ASSUME NEW i \in 1 .. n - 1 PROVE todo'[i].op \notin {"tune", "tuneend"}
    <3>1. CASE i = 1
      BY <1>4, <3>1 DEF Clocking
    <3>2. CASE i # 1
      <4>1. i \in 2 .. Len(todo)
        BY <1>3, <3>2
      <4>. QED  BY <1>4, <1>5, <4>1 DEF Outer
    <3>. QED  BY <3>1, <3>2
  <2>4. f.flags = {} /\ ~FirActive'
    BY <1>5, HeldParts DEF Outer
  <2>. QED  BY <2>1, <2>2, <2>3, <2>4 DEF Outer
<1>7. Muted' /\ drv'.atten = f.atten
  BY <1>5, HeldParts DEF Held
<1>8. ASSUME n >= 3, RxPart(n) PROVE RxPart(n)'
  <2>1. todo[n - 1] = Choose("rx") /\ \A i \in 1 .. n - 2 : todo[i].op \in Clocking \cup {"sweep"}
    BY <1>8 DEF RxPart
  <2>2. n - 1 \in 2 .. Len(todo)
    BY <1>3, <1>8
  <2>3. ASSUME NEW i \in 1 .. n - 2 PROVE todo'[i].op \in Clocking \cup {"sweep"}
    <3>1. i = 1 \/ i \in 2 .. Len(todo)
      BY <1>3
    <3>. QED  BY <1>4, <2>1, <3>1
  <2>4. OwnSource' /\ LoopIs(0)'
    BY <1>8, HeldParts DEF RxPart
  <2>. QED  BY <1>4, <2>1, <2>2, <2>3, <2>4 DEF RxPart
<1>9. ASSUME n >= 4, TxPart(f, n), todo[1].op # "txtune" PROVE TxPart(f, n)'
  <2>1. /\ todo[n - 1] = Step("txend") /\ todo[n - 2] = Choose("tx") /\ Good(f, "rx")
        /\ \A i \in 1 .. n - 3 : \/ todo[i].op \in Clocking \/ todo[i] = Sweep("tx")
                                 \/ i = 1 /\ todo[i] = Step("txtune")
        /\ chip.source = "pn" /\ f.source = want.source /\ LoopIs(1)
    BY <1>9 DEF TxPart
  <2>2. n - 1 \in 2 .. Len(todo) /\ n - 2 \in 2 .. Len(todo)
    BY <1>3, <1>9
  <2>3. ASSUME NEW i \in 1 .. n - 3 PROVE todo'[i].op \in Clocking \/ todo'[i] = Sweep("tx")
    <3>1. i = 1 \/ (i \in 2 .. Len(todo) /\ i # 1)
      BY <1>3
    <3>. QED  BY <1>4, <2>1, <3>1
  <2>4. chip'.source = "pn" /\ f.source = want'.source /\ LoopIs(1)'
    BY <2>1, HeldParts DEF Held
  <2>5. Good(f, "rx")'
    BY <2>1 DEF Good
  <2>6. todo'[1].op # "txtune" /\ n # 2
    BY <1>4, <1>9 DEF Clocking
  <2>. QED  BY <1>4, <2>1, <2>2, <2>3, <2>4, <2>5, <2>6 DEF TxPart
<1>10. TuneInv(f, n)'
  <2>1. n > 1
    OBVIOUS
  <2>. QED  BY <1>6, <1>7, <1>8, <1>9, <2>1, TuningOn
<1>11. n \in 1 .. Len(todo')
  BY <1>3, <1>4
<1>. QED  BY <1>4, <1>10, <1>11

LEMMA ClockKeeps ==
  ASSUME IInv, NEW name \in Clocking, Do(name), Held, frames' = frames,
         NEW s, Plain(s), todo' = s \o Tail(todo) \/ (s = <<>> /\ todo' = Tail(todo)),
         Len(s) > 0 /\ s[1].op = "tune" => ~s[1].max,
         \/ FirActive
         \/ s = <<>> /\ todo' = Tail(todo)
         \/ \E x \in CallSteps : x.op \in Clocking /\ todo' = <<x>> \o Tail(todo),
         chip' \in Chips, drv' = drv, ensm' = ensm, want' \in Wants,
         ret' \in {"ok", "error", "eio"}, chip'.delay = chip.delay,
         chip'.tone = chip.tone, want'.rate = want.rate
  PROVE  IInv'
<1>1. Types /\ CallInv /\ TonesKept
  BY DEF IInv
<1>2. /\ todo # <<>> /\ todo \in Seq(CallSteps) /\ Head(todo).op = name
      /\ calls' \in 0 .. MaxCalls
  BY <1>1 DEF Do, Types
<1>3. Head(todo) = todo[1] /\ todo[1] \in CallSteps /\ Len(todo) \in Nat
  BY <1>2, HeadFacts
<1>4. TonesKept'
  BY <1>1, TonesAcross
<1>5. drv' \in Drvs /\ ensm' \in Ensms
  BY <1>1, Parts
<1>6. CASE frames = <<>>
  <2>1. SourceInv
    BY <1>1, <1>6 DEF CallInv
  <2>2. ~Fresh
    BY <1>2 DEF Fresh, Ending, Clocking
  <2>3. SourceInv'
    BY <2>1, <2>2, SourceAcross DEF Held
  <2>4. Replaced(todo, s, todo')
    BY <1>2, PushFacts, PopFacts DEF Plain
  <2>5. /\ Outside(2)' /\ (todo' # <<>> => todo'[1].op \notin Tuning)
        /\ Fresh' => Len(s) > 0 /\ s[1].op = "tune" /\ s[1].max
        /\ todo' \in Seq(CallSteps)
    BY <1>1, <1>2, <1>6, <2>4, OutsideKept DEF Plain
  <2>6. CallInv'
    <3>1. frames' = <<>>
      BY <1>6
    <3>. QED  BY <2>3, <2>5, <3>1 DEF CallInv
  <2>7. Types'
    BY <1>1, <1>2, <1>5, <2>5, TypesAcross
  <2>. QED  BY <1>4, <2>6, <2>7 DEF IInv
<1>7. CASE frames # <<>>
  <2>1. PICK f \in TuneFrames, n \in 1 .. Len(todo) :
            frames = <<f>> /\ TuneInv(f, n) /\ HeadAt(f, n)
    BY <1>1, <1>7, TuningHead
  <2>2. /\ "default" \notin f.flags /\ f.max /\ ~FirActive
        /\ (n >= 3 /\ RxPart(n)) \/ (n >= 4 /\ TxPart(f, n))
        /\ todo[1].op # "txtune" /\ n \in Nat /\ n <= Len(todo)
    BY <1>2, <1>3, <2>1 DEF HeadAt, Clocking
  <2>3. TxPart(f, n) => Good(f, "rx")'
    BY DEF TxPart, Good
  <2>4. CASE todo' = Tail(todo)
    <3>1. /\ TuneInv(f, n - 1)' /\ todo' \in Seq(CallSteps) /\ n - 1 \in 1 .. Len(todo')
      BY <1>2, <2>1, <2>2, <2>3, <2>4, PartGoesOn
    <3>. QED  BY <1>2, <1>4, <1>5, <2>1, <3>1, InTuning
  <2>5. ASSUME NEW x \in CallSteps, x.op \in Clocking, todo' = <<x>> \o Tail(todo)
        PROVE  IInv'
    <3>1. TuneInv(f, n)' /\ todo' \in Seq(CallSteps) /\ n \in 1 .. Len(todo')
      BY <1>2, <2>1, <2>2, <2>5, PartStays
    <3>. QED  BY <1>2, <1>4, <1>5, <2>1, <3>1, InTuning
  <2>. QED  BY <2>2, <2>4, <2>5
<1>. QED  BY <1>6, <1>7

LEMMA HandlerKeeps ==
  ASSUME IInv, BbClkChangeHandler
  PROVE  IInv'
<1>1. chip \in Chips /\ drv \in Drvs /\ ensm \in Ensms /\ want \in Wants
  BY Parts DEF IInv
<1>2. /\ Do("handler") /\ ret' = "ok" /\ todo' = Tail(todo)
      /\ chip' = chip /\ drv' = drv /\ ensm' = ensm /\ frames' = frames /\ want' = want
  BY DEF BbClkChangeHandler, Pop
<1>3. Held
  BY <1>2 DEF Held
<1> DEFINE s == <<>>
<1>4. Plain(s) /\ ~(Len(s) > 0) /\ s = <<>>
  BY PlainSteps0, EmptySeq
<1> HIDE DEF s
<1>5. "handler" \in Clocking
  BY DEF Clocking
<1>. QED  BY <1>1, <1>2, <1>3, <1>4, <1>5, ClockKeeps

LEMMA ChainFreqKeeps ==
  ASSUME IInv, SetTrxClockChainFreq
  PROVE  IInv'
<1>1. /\ chip \in Chips /\ drv \in Drvs /\ ensm \in Ensms /\ want \in Wants
      /\ ret \in {"ok", "error", "eio"}
  BY Parts DEF IInv
<1> DEFINE f == Head(todo).freq
           x == Chain(ChainFor(f))
<1>2. /\ Do("rate") /\ ret' = ret
      /\ IF CanCalculate(f) THEN todo' = <<x>> \o Tail(todo) ELSE todo' = Tail(todo)
      /\ chip' = chip /\ drv' = drv /\ ensm' = ensm /\ frames' = frames /\ want' = want
  BY DEF SetTrxClockChainFreq, Pop, Push
<1>3. Held
  BY <1>2 DEF Held
<1>4. "rate" \in Clocking
  BY DEF Clocking
<1>5. CASE CanCalculate(f)
  <2>1. f \in Nat
    <3>1. todo # <<>> /\ todo \in Seq(CallSteps) /\ Head(todo).op = "rate"
      BY <1>2 DEF Do, IInv, Types
    <3>2. Head(todo) \in CallSteps
      BY <3>1, HeadFacts
    <3>. QED  BY <3>1, <3>2, StepKinds
  <2>2. ChainFor(f) \in Chains
    BY <1>5, <2>1, InUseType
  <2>3. x \in CallSteps /\ x.op = "chain"
    BY <2>2, StepTypes, StepOps
  <2>4. todo' = <<x>> \o Tail(todo)
    BY <1>2, <1>5
  <2> HIDE DEF x
  <2> DEFINE s == <<x>>
  <2>5. Plain(s) /\ s[1] = x
    BY <2>3, PlainSteps1 DEF Tuning
  <2>6. todo' = s \o Tail(todo)
    BY <2>4
  <2>7. \E y \in CallSteps : y.op \in Clocking /\ todo' = <<y>> \o Tail(todo)
    BY <2>3, <2>4 DEF Clocking
  <2> HIDE DEF s
  <2>8. Len(s) > 0 /\ s[1].op = "tune" => ~s[1].max
    BY <2>3, <2>5
  <2>. QED  BY <1>1, <1>2, <1>3, <1>4, <2>5, <2>6, <2>7, <2>8, ClockKeeps
<1>6. CASE ~CanCalculate(f)
  <2> DEFINE s == <<>>
  <2>1. Plain(s) /\ ~(Len(s) > 0) /\ s = <<>>
    BY PlainSteps0, EmptySeq
  <2> HIDE DEF s
  <2>2. todo' = Tail(todo)
    BY <1>2, <1>6
  <2>. QED  BY <1>1, <1>2, <1>3, <1>4, <2>1, <2>2, ClockKeeps
<1>. QED  BY <1>5, <1>6

LEMMA ChainKeeps ==
  ASSUME IInv, SetTrxClockChain
  PROVE  IInv'
<1>1. /\ chip \in Chips /\ drv \in Drvs /\ ensm \in Ensms /\ want \in Wants
      /\ ret \in {"ok", "error", "eio"}
  BY Parts DEF IInv
<1> DEFINE ch == Head(todo).ch
           tree == SetTree(chip.tree, ch, drv.bypass, drv.factor)
           a == Tune({"skip"}, FALSE)
           b == Step("handler")
           two == <<a, b>>
           last == <<b>>
           s == IF FirActive THEN two ELSE last
<1>2. /\ Do("chain") /\ drv' = drv /\ ensm' = ensm /\ frames' = frames
      /\ IF Valid(ch) THEN /\ chip' = [chip EXCEPT !.tree = tree]
                           /\ want' = [want EXCEPT !.chain = ch]
                           /\ todo' = s \o Tail(todo) /\ ret' = ret
         ELSE ret' = "error" /\ todo' = Tail(todo) /\ chip' = chip /\ want' = want
  BY DEF SetTrxClockChain, Pop, Push
<1>3. "chain" \in Clocking
  BY DEF Clocking
<1>4. ch \in Chains
  <2>1. todo # <<>> /\ todo \in Seq(CallSteps) /\ Head(todo).op = "chain"
    BY <1>2 DEF Do, IInv, Types
  <2>2. Head(todo) \in CallSteps
    BY <2>1, HeadFacts
  <2>. QED  BY <2>1, <2>2, StepKinds
<1>5. tree \in TreeTypes
  <2>1. chip.tree \in TreeTypes
    BY <1>1 DEF Chips
  <2>2. drv.bypass \in [Paths -> BOOLEAN]
    BY <1>1 DEF Drvs
  <2>3. ch.bbpll \in Int
    BY <1>4, ChainPll
  <2>. QED  BY <2>1, <2>2, <2>3, SetTreeType
<1> HIDE DEF ch, tree
<1>6. CASE Valid(ch)
  <2>1. /\ chip' \in Chips /\ chip'.atten = chip.atten /\ chip'.source = chip.source
        /\ chip'.pn = chip.pn /\ chip'.loop = chip.loop /\ chip'.delay = chip.delay
        /\ chip'.tone = chip.tone
    BY <1>1, <1>2, <1>5, <1>6 DEF Chips
  <2>2. want' \in Wants /\ want'.source = want.source /\ want'.rate = want.rate
    BY <1>1, <1>2, <1>4, <1>6 DEF Wants
  <2>3. Held
    BY <1>2, <2>1, <2>2 DEF Held
  <2>4. /\ a \in CallSteps /\ a.op = "tune" /\ ~a.max /\ b \in CallSteps /\ b.op = "handler"
    <3>1. a \in CallSteps /\ b \in CallSteps /\ b.op = "handler"
      BY StepTypes, StepOps DEF PlainSteps
    <3>. QED  BY <3>1 DEF Tune
  <2> HIDE DEF a, b
  <2>6. Plain(two) /\ two[1] = a /\ Plain(last) /\ last[1] = b
    BY <2>4, PlainSteps1, PlainSteps2 DEF Tuning
  <2>7. CASE FirActive
    <3>1. todo' = two \o Tail(todo)
      BY <1>2, <1>6, <2>7
    <3> HIDE DEF two
    <3>2. Len(two) > 0 /\ two[1].op = "tune" => ~two[1].max
      BY <2>4, <2>6
    <3>. QED  BY <1>1, <1>2, <1>3, <1>6, <2>1, <2>2, <2>3, <2>6, <2>7, <3>1, <3>2, ClockKeeps
  <2>8. CASE ~FirActive
    <3>1. todo' = last \o Tail(todo)
      BY <1>2, <1>6, <2>8
    <3>2. \E x \in CallSteps : x.op \in Clocking /\ todo' = <<x>> \o Tail(todo)
      BY <2>4, <3>1 DEF Clocking
    <3> HIDE DEF last
    <3>3. Len(last) > 0 /\ last[1].op = "tune" => ~last[1].max
      BY <2>4, <2>6
    <3>. QED  BY <1>1, <1>2, <1>3, <1>6, <2>1, <2>2, <2>3, <2>6, <3>1, <3>2, <3>3, ClockKeeps
  <2>. QED  BY <2>7, <2>8
<1>7. CASE ~Valid(ch)
  <2>1. /\ ret' = "error" /\ todo' = Tail(todo) /\ chip' = chip /\ want' = want
    BY <1>2, <1>7
  <2>2. Held
    BY <1>2, <2>1 DEF Held
  <2> DEFINE t == <<>>
  <2>3. Plain(t) /\ ~(Len(t) > 0) /\ t = <<>>
    BY PlainSteps0, EmptySeq
  <2> HIDE DEF t
  <2>. QED  BY <1>1, <1>2, <1>3, <2>1, <2>2, <2>3, ClockKeeps
<1>. QED  BY <1>6, <1>7


----------------------------------------------------------------------------
(* The delays of a tuning, and its ends.                                   *)

\* The middle of a window is a setting at which the pattern was received.
LEMMA WindowFacts ==
  ASSUME NEW eye, NEW sign \in Int
  PROVE  LET w == Window(eye, sign)
             k == w.start + w.cnt \div 2
         IN  /\ w.start \in Nat /\ w.cnt \in Nat
             /\ w.cnt > 0 => k \in 0 .. NumDelays - 1 /\ sign * k \in eye
<1> DEFINE passes == [j \in 1 .. NumDelays |-> sign * (j - 1) \in eye]
           w == FindOpt(passes)
           k == w.start + w.cnt \div 2
<1>1. NumDelays \in Nat
  BY LinkAssumption
<1>2. passes \in Seq(BOOLEAN) /\ Len(passes) = NumDelays
  BY <1>1
<1>3. \A j \in 1 .. NumDelays : passes[j] = (sign * (j - 1) \in eye)
  OBVIOUS
<1> HIDE DEF passes
<1>4. /\ w.start \in Nat /\ w.cnt \in Nat /\ w.start + w.cnt <= NumDelays
      /\ Pass(passes, w.start, w.cnt)
  BY <1>2, FindOptLongest
<1> HIDE DEF w
<1>5. ASSUME w.cnt > 0 PROVE k \in 0 .. NumDelays - 1 /\ sign * k \in eye
  <2>1. w.cnt \div 2 \in Nat /\ w.cnt \div 2 < w.cnt
    BY <1>4, <1>5
  <2> DEFINE h == w.cnt \div 2
  <2>2. h \in Nat /\ h < w.cnt
    BY <2>1
  <2> HIDE DEF h
  <2>3. k = w.start + h
    BY DEF h
  <2>4. k \in 0 .. NumDelays - 1 /\ k + 1 \in 1 .. NumDelays /\ (k + 1) - 1 = k
    BY <1>1, <1>4, <2>2, <2>3
  <2>5. passes[k + 1]
    BY <1>4, <2>2, <2>3, <2>4 DEF Pass
  <2> HIDE DEF k
  <2>6. passes[k + 1] = (sign * ((k + 1) - 1) \in eye)
    BY <1>3, <2>4
  <2>. QED  BY <2>4, <2>5, <2>6
<1>6. Window(eye, sign) = w
  BY DEF Window, w, passes
<1>. QED  BY <1>4, <1>5, <1>6

\* What ad9361_dig_tune_delay chooses is in the eye.
LEMMA ChosenFacts ==
  ASSUME NEW eye, Window(eye, 1).cnt > 0 \/ Window(eye, -1).cnt > 0
  PROVE  Chosen(eye) \in Delays /\ Skew(Chosen(eye)) \in eye
<1> DEFINE data == Window(eye, 1)
           clk == Window(eye, -1)
           i == data.start + data.cnt \div 2
           j == clk.start + clk.cnt \div 2
<1>1. /\ data.cnt \in Nat
      /\ data.cnt > 0 => i \in 0 .. NumDelays - 1 /\ 1 * i \in eye
  BY WindowFacts
<1>2. /\ clk.cnt \in Nat
      /\ clk.cnt > 0 => j \in 0 .. NumDelays - 1 /\ (-1) * j \in eye
  BY WindowFacts
<1>3. Chosen(eye) = IF clk.cnt > data.cnt THEN [clk |-> j, data |-> 0]
                    ELSE [clk |-> 0, data |-> i]
  BY DEF Chosen
<1>4. data.cnt > 0 \/ clk.cnt > 0
  OBVIOUS
<1> HIDE DEF data, clk, i, j
<1>5. 0 \in 0 .. NumDelays - 1
  BY LinkAssumption
<1>6. CASE clk.cnt > data.cnt
  <2>1. j \in 0 .. NumDelays - 1 /\ (-1) * j \in eye /\ 0 - j = (-1) * j
    BY <1>1, <1>2, <1>6
  <2>2. Chosen(eye) = [clk |-> j, data |-> 0]
    BY <1>3, <1>6
  <2>. QED  BY <1>5, <2>1, <2>2 DEF Delays, Skew
<1>7. CASE ~(clk.cnt > data.cnt)
  <2>1. i \in 0 .. NumDelays - 1 /\ 1 * i \in eye /\ i - 0 = 1 * i
    BY <1>1, <1>2, <1>4, <1>7
  <2>2. Chosen(eye) = [clk |-> 0, data |-> i]
    BY <1>3, <1>7
  <2>. QED  BY <1>5, <2>1, <2>2 DEF Delays, Skew
<1>. QED  BY <1>6, <1>7


\* ad9361_dig_tune_delay's choice, in the registers.
LEMMA ChoiceFacts ==
  ASSUME chip \in Chips, NEW p \in Paths, NEW f \in TuneFrames,
         Window(f.eye[p], 1).cnt > 0 \/ Window(f.eye[p], -1).cnt > 0,
         chip' = [chip EXCEPT !.delay[p] = Chosen(f.eye[p])]
  PROVE  /\ chip' \in Chips /\ Good(f, p)' /\ chip'.tone = chip.tone
         /\ \A q \in Paths \ {p} : chip'.delay[q] = chip.delay[q]
         /\ chip'.atten = chip.atten /\ chip'.source = chip.source /\ chip'.pn = chip.pn
         /\ chip'.loop = chip.loop
<1> DEFINE x == Chosen(f.eye[p])
           delays == [chip.delay EXCEPT ![p] = x]
<1>1. x \in Delays /\ Skew(x) \in f.eye[p]
  BY ChosenFacts
<1>2. chip.delay \in [Paths -> Delays]
  BY DEF Chips
<1> HIDE DEF x
<1>3. /\ delays \in [Paths -> Delays] /\ delays[p] = x
      /\ \A q \in Paths \ {p} : delays[q] = chip.delay[q]
  BY <1>1, <1>2
<1>4. chip' = [chip EXCEPT !.delay = delays]
  BY DEF x
<1> HIDE DEF delays
<1>5. /\ chip' \in Chips /\ chip'.delay = delays /\ chip'.tone = chip.tone
      /\ chip'.atten = chip.atten /\ chip'.source = chip.source /\ chip'.pn = chip.pn
      /\ chip'.loop = chip.loop
  BY <1>3, <1>4 DEF Chips
<1>6. Good(f, p)'
  BY <1>1, <1>3, <1>5 DEF Good
<1>. QED  BY <1>3, <1>5, <1>6

\* The receiver has an eye: the transmitter comes next.
TxNext(max) == TxSteps(max) \o Tail(todo)

LEMMA TxComes ==
  ASSUME todo \in Seq(CallSteps), todo # <<>>, NEW f, f.max \in BOOLEAN,
         todo' = TxNext(f.max), Held, 2 <= Len(todo), TuneInv(f, 2),
         "default" \notin f.flags, RxPart(2), Good(f, "rx")'
  PROVE  \E k \in Nat : k \in 1 .. Len(todo') /\ TuneInv(f, k)' /\ todo' \in Seq(CallSteps)
<1> DEFINE r == TxSteps(f.max)
           m == IF f.max THEN 9 ELSE 4
<1>1. /\ r \in Seq(CallSteps) /\ Len(r) = m
      /\ r[1] = Step("txtune") /\ r[Len(r)] = Step("txend")
      /\ r[Len(r) - 1] = Choose("tx")
      /\ \A i \in 2 .. Len(r) - 2 : r[i] = Sweep("tx") \/ (f.max /\ r[i].op = "rate")
  BY TxStepsFacts
<1>2. Replaced(todo, r, todo')
  BY <1>1, PushFacts DEF TxNext
<1> HIDE DEF r
<1>3. m \in {4, 9}
  OBVIOUS
<1> HIDE DEF m
<1>4. Len(todo) \in Nat
  BY EmptySeq
<1>5. /\ todo' \in Seq(CallSteps) /\ Len(todo') = m + Len(todo) - 1
      /\ \A i \in 1 .. m : todo'[i] = r[i]
      /\ \A i \in m + 1 .. Len(todo') : todo'[i] = todo[i - m + 1]
  BY <1>1, <1>2 DEF Replaced
<1> DEFINE k == m + 1
<1>0. k \in {5, 10} /\ m = k - 1
  BY <1>3
<1> HIDE DEF k
<1>6. /\ k \in Nat /\ k \in 1 .. Len(todo') /\ k \in m + 1 .. Len(todo') /\ k - m + 1 = 2
      /\ k - 1 \in 1 .. m /\ k - 1 = m /\ k - 2 \in 1 .. m /\ k - 2 = m - 1 /\ 1 \in 1 .. m
      /\ k > 3
  <2>1. Len(todo') = k + Len(todo) - 2 /\ Len(todo) >= 2
    BY <1>0, <1>4, <1>5
  <2>2. k \in 1 .. Len(todo') /\ k \in m + 1 .. Len(todo')
    BY <1>0, <1>4, <2>1
  <2>3. k - m + 1 = 2 /\ k - 1 \in 1 .. m /\ k - 2 \in 1 .. m /\ k - 2 = m - 1
    BY <1>0
  <2>4. k \in Nat /\ k - 1 = m /\ 1 \in 1 .. m /\ k > 3
    BY <1>0
  <2>. QED  BY <2>2, <2>3, <2>4
<1>7. /\ todo'[k] = todo[2] /\ todo'[k - 1] = Step("txend") /\ todo'[k - 2] = Choose("tx")
      /\ todo'[1] = Step("txtune")
  BY <1>1, <1>5, <1>6
<1>8. Outer(f, 2) /\ Muted /\ drv.atten = f.atten
  BY DEF TuneInv, Outer
<1>9. ASSUME NEW i \in 1 .. k - 3
      PROVE  \/ todo'[i] = Sweep("tx") \/ (f.max /\ todo'[i].op = "rate")
             \/ i = 1 /\ todo'[i] = Step("txtune")
  <2>1. i \in 1 .. m /\ (i = 1 \/ i \in 2 .. m - 2)
    BY <1>0
  <2>. QED  BY <1>1, <1>5, <1>7, <2>1
<1>10. ASSUME NEW i \in 1 .. k - 1
       PROVE  /\ todo'[i].op \notin {"tune", "tuneend"}
              /\ ~f.max => todo'[i].op \notin Clocking
  <2>1. i = k - 1 \/ i = k - 2 \/ i \in 1 .. k - 3
    BY <1>6
  <2>2. CASE i = k - 1
    <3>1. Step("txend").op = "txend"
      BY StepOps
    <3>. QED  BY <1>7, <2>2, <3>1 DEF Clocking
  <2>3. CASE i = k - 2
    <3>1. Choose("tx").op = "choose"
      BY StepOps
    <3>. QED  BY <1>7, <2>3, <3>1 DEF Clocking
  <2>4. CASE i \in 1 .. k - 3
    <3>1. todo'[i].op = "sweep" \/ (f.max /\ todo'[i].op = "rate") \/ todo'[i].op = "txtune"
      <4>1. Sweep("tx").op = "sweep" /\ Step("txtune").op = "txtune"
        BY StepOps
      <4>. QED  BY <1>9, <2>4, <4>1
    <3>. QED  BY <3>1 DEF Clocking
  <2>. QED  BY <2>1, <2>2, <2>3, <2>4
<1>11. Outer(f, k)'
  <2>1. todo'[k] = Step("tuneend")
    BY <1>7, <1>8 DEF Outer
  <2>2. ASSUME NEW i \in k + 1 .. Len(todo') PROVE todo'[i].op \notin Tuning \cup {"tune"}
    <3>1. i \in m + 1 .. Len(todo') /\ i - m + 1 \in 2 + 1 .. Len(todo)
      <4>1. Len(todo') = m + Len(todo) - 1
        BY <1>5
      <4>2. m \in Nat /\ k = m + 1
        BY <1>0
      <4>. QED  BY <1>4, <4>1, <4>2
    <3>. QED  BY <1>5, <1>8, <3>1 DEF Outer, Outside
  <2>3. f.max => f.flags = {} /\ ~FirActive'
    BY <1>8, HeldParts DEF Outer
  <2>. QED  BY <1>10, <2>1, <2>2, <2>3 DEF Outer, Outside
<1>12. Muted' /\ drv'.atten = f.atten
  BY <1>8, HeldParts DEF Held
<1>13. TxPart(f, k)'
  <2>1. OwnSource' /\ LoopIs(0)'
    BY HeldParts DEF RxPart
  <2>2. todo'[1].op = "txtune"
    BY <1>7, StepOps
  <2>3. \A i \in 1 .. k - 3 : \/ todo'[i].op \in Clocking \/ todo'[i] = Sweep("tx")
                              \/ i = 1 /\ todo'[i] = Step("txtune")
    BY <1>9 DEF Clocking
  <2>4. k # 2
    BY <1>6
  <2>. QED  BY <1>6, <1>7, <2>1, <2>2, <2>3, <2>4 DEF TxPart
<1>14. TuneInv(f, k)'
  <2>1. k > 1
    BY <1>6
  <2>. QED  BY <1>11, <1>12, <1>13, <2>1, TuningOn
<1>. QED  BY <1>5, <1>6, <1>14


LEMMA ChooseDelayKeeps ==
  ASSUME IInv, ChooseDelay
  PROVE  IInv'
<1> DEFINE q == Head(todo).path
           eye == Frame.eye[q]
           found == Window(eye, 1).cnt > 0 \/ Window(eye, -1).cnt > 0
<1>1. /\ Do("choose") /\ drv' = drv /\ frames' = frames /\ want' = want
      /\ IF found THEN /\ chip' = [chip EXCEPT !.delay[q] = Chosen(eye)]
                       /\ ensm' = SetIntfDelay(ensm) /\ ret' = "ok"
         ELSE ret' = "eio" /\ chip' = chip /\ ensm' = ensm
      /\ IF q = "rx" /\ found THEN todo' = TxSteps(Frame.max) \o Tail(todo)
         ELSE todo' = Tail(todo)
  BY DEF ChooseDelay, Pop, Push
<1>2. /\ Types /\ TonesKept /\ todo \in Seq(CallSteps) /\ todo # <<>>
      /\ Head(todo) = todo[1] /\ todo[1] \in CallSteps /\ todo[1].op = "choose"
      /\ calls' \in 0 .. MaxCalls
      /\ chip \in Chips /\ drv \in Drvs /\ ensm \in Ensms /\ want \in Wants
  BY <1>1, TuningStep DEF Tuning
<1>3. PICK f \in TuneFrames, n \in Nat :
          /\ n >= 1 /\ n <= Len(todo) /\ frames = <<f>> /\ Frame = f
          /\ TuneInv(f, n) /\ HeadAt(f, n)
  BY <1>1, TuningStep DEF Tuning
<1>4. /\ "default" \notin f.flags
      /\ \/ n = 2 /\ RxPart(n) /\ todo[1] = Choose("rx")
         \/ n = 3 /\ TxPart(f, n) /\ todo[1] = Choose("tx")
  BY <1>2, <1>3 DEF HeadAt
<1>5. PICK p \in Paths : p = q
  BY <1>2, StepKinds
<1>6. frames' = <<f>> /\ f.max \in BOOLEAN /\ Frame.max = f.max /\ eye = f.eye[p]
  BY <1>1, <1>3, <1>5 DEF TuneFrames
<1>7. Muted /\ drv.atten = f.atten
  BY <1>3, <1>4 DEF TuneInv
<1>8. /\ chip' \in Chips /\ ensm' \in Ensms /\ ret' \in {"ok", "eio"}
      /\ Held /\ chip'.tone = chip.tone
      /\ found => Good(f, p)' /\ \A r \in Paths \ {p} : chip'.delay[r] = chip.delay[r]
      /\ ~found => ret' = "eio" /\ chip' = chip
  <2>1. CASE found
    <3>1. chip' = [chip EXCEPT !.delay[p] = Chosen(f.eye[p])]
      BY <1>1, <1>5, <1>6, <2>1
    <3>2. Window(f.eye[p], 1).cnt > 0 \/ Window(f.eye[p], -1).cnt > 0
      BY <1>6, <2>1
    <3> HIDE DEF q, eye, found
    <3>3. /\ chip' \in Chips /\ Good(f, p)' /\ chip'.tone = chip.tone
          /\ \A r \in Paths \ {p} : chip'.delay[r] = chip.delay[r]
          /\ chip'.atten = chip.atten /\ chip'.source = chip.source /\ chip'.pn = chip.pn
          /\ chip'.loop = chip.loop
      BY <1>2, <1>5, <3>1, <3>2, ChoiceFacts
    <3>4. ensm' \in Ensms /\ ret' = "ok"
      BY <1>1, <1>2, <2>1, IntfDelayType
    <3>. QED  BY <1>1, <2>1, <3>3, <3>4 DEF Held
  <2>2. CASE ~found
    BY <1>1, <1>2, <2>2 DEF Held
  <2>. QED  BY <2>1, <2>2
<1>9. drv' \in Drvs /\ want' \in Wants /\ TonesKept' /\ ret' \in {"ok", "error", "eio"}
  BY <1>1, <1>2, <1>8, TonesAcross
<1>10. Muted' /\ drv'.atten = f.atten /\ drv'.bypass = drv.bypass
  BY <1>1, <1>7, <1>8, HeldParts
<1> HIDE DEF found, eye, q
<1>11. CASE n = 2 /\ RxPart(n) /\ todo[1] = Choose("rx")
  <2>1. p = "rx"
    BY <1>2, <1>5, <1>11, StepOps DEF q
  <2>2. CASE found
    <3>1. todo' = TxNext(f.max)
      BY <1>1, <1>5, <1>6, <2>1, <2>2 DEF TxNext
    <3>2. 2 <= Len(todo) /\ TuneInv(f, 2) /\ RxPart(2) /\ Good(f, "rx")'
      BY <1>3, <1>8, <1>11, <2>1, <2>2
    <3>3. PICK k \in Nat : k \in 1 .. Len(todo') /\ TuneInv(f, k)' /\ todo' \in Seq(CallSteps)
      <4>1. /\ todo \in Seq(CallSteps) /\ todo # <<>> /\ f.max \in BOOLEAN /\ Held
            /\ "default" \notin f.flags
        BY <1>2, <1>4, <1>6, <1>8
      <4>. QED  BY <3>1, <3>2, <4>1, TxComes
    <3>. QED  BY <1>2, <1>6, <1>8, <1>9, <3>3, InTuning
  <2>3. CASE ~found
    <3>1. todo' = Tail(todo) /\ ret' = "eio"
      BY <1>1, <1>8, <2>3
    <3>2. /\ Outer(f, 1)' /\ todo' \in Seq(CallSteps) /\ 1 \in 1 .. Len(todo')
      <4>0. n >= 2
        BY <1>11
      <4>1. /\ Outer(f, n - 1)'
            /\ todo' \in Seq(CallSteps) /\ n - 1 \in 1 .. Len(todo')
        BY <1>2, <1>3, <1>10, <3>1, <4>0, PopOuter
      <4>2. n - 1 = 1
        BY <1>11
      <4>. QED  BY <4>1, <4>2
    <3>3. OwnSource /\ LoopIs(0)
      BY <1>11 DEF RxPart
    <3>4. OwnSource' /\ LoopIs(0)'
      BY <1>8, <3>3, HeldParts
    <3>5. EndPart(f)'
      BY <3>1, <3>4 DEF EndPart
    <3>6. TuneInv(f, 1)'
      BY <1>4, <1>10, <3>2, <3>5, TuningOn
    <3>. QED  BY <1>2, <1>6, <1>8, <1>9, <3>2, <3>6, InTuning
  <2>. QED  BY <2>2, <2>3
<1>12. CASE n = 3 /\ TxPart(f, n) /\ todo[1] = Choose("tx")
  <2>1. p = "tx" /\ todo[1].op = "choose"
    BY <1>2, <1>5, <1>12, StepOps DEF q
  <2>2. todo' = Tail(todo)
    BY <1>1, <1>5, <2>1
  <2>3. /\ Outer(f, 2)' /\ todo' \in Seq(CallSteps) /\ 2 \in 1 .. Len(todo')
    <3>1. /\ Outer(f, n - 1)'
          /\ todo' \in Seq(CallSteps) /\ n - 1 \in 1 .. Len(todo')
      BY <1>2, <1>3, <1>10, <1>12, <2>2, PopOuter
    <3>2. n - 1 = 2
      BY <1>12
    <3>. QED  BY <3>1, <3>2
  <2>4. /\ todo[2] = Step("txend") /\ Good(f, "rx")
        /\ chip.source = "pn" /\ f.source = want.source /\ LoopIs(1)
    <3>1. n - 1 = 2 /\ todo[1].op # "txtune"
      BY <1>12, <2>1
    <3>. QED  BY <1>12, <3>1 DEF TxPart
  <2>5. todo'[1] = Step("txend")
    <3>1. \A i \in 1 .. n - 1 : todo'[i] = todo[i + 1]
      BY <1>2, <1>3, <1>12, <2>2, TailFacts
    <3>2. 1 \in 1 .. n - 1 /\ 1 + 1 = 2
      BY <1>12
    <3>. QED  BY <2>4, <3>1, <3>2
  <2>6. todo'[1].op # "txtune"
    <3>1. Step("txend").op = "txend"
      BY StepOps
    <3>. QED  BY <2>5, <3>1
  <2>7. Good(f, "rx")'
    <3>1. "rx" \in Paths \ {p}
      BY <2>1 DEF Paths
    <3>2. chip'.delay["rx"] = chip.delay["rx"]
      BY <1>8, <3>1
    <3>. QED  BY <2>4, <3>2 DEF Good
  <2>8. chip'.source = "pn" /\ f.source = want'.source /\ LoopIs(1)'
    BY <1>8, <2>4, HeldParts DEF Held
  <2>9. ret' = "eio" \/ Good(f, "tx")'
    BY <1>8, <2>1
  <2>10. TxPart(f, 2)'
    <3>1. 2 - 1 = 1 /\ ~(2 > 2) /\ \A i \in 1 .. 2 - 3 : FALSE
      OBVIOUS
    <3>. QED  BY <2>5, <2>6, <2>7, <2>8, <2>9, <3>1 DEF TxPart
  <2>11. TuneInv(f, 2)'
    <3>1. 2 > 1
      OBVIOUS
    <3>. QED  BY <1>4, <1>10, <2>3, <2>10, <3>1, TuningOn
  <2>. QED  BY <1>2, <1>6, <1>8, <1>9, <2>3, <2>11, InTuning
<1>. QED  BY <1>4, <1>11, <1>12

\* The transmitter's registers are borrowed.
LEMMA TxTuneKeeps ==
  ASSUME IInv, TxTune
  PROVE  IInv'
<1> DEFINE b == BistPrbs(Now, "off")
           x == BistLoopback(b, 1)
           c == [x.c EXCEPT !.source = "pn", !.pn = "custom"]
           y == [x EXCEPT !.c.source = "pn", !.c.pn = "custom"]
<1>1. /\ Do("txtune") /\ chip' = y.c /\ drv' = y.d /\ todo' = Tail(todo)
      /\ frames' = [frames EXCEPT ![1].source = x.c.source]
      /\ ensm' = ensm /\ ret' = ret /\ want' = want
  BY DEF TxTune, Set, Pop
<1>2. /\ Types /\ TonesKept /\ todo \in Seq(CallSteps) /\ todo # <<>>
      /\ todo[1].op = "txtune" /\ calls' \in 0 .. MaxCalls
      /\ chip \in Chips /\ drv \in Drvs /\ ensm \in Ensms /\ want \in Wants
      /\ ret \in {"ok", "error", "eio"}
      /\ Now \in Pairs /\ Now.c = chip /\ Now.d = drv
  BY <1>1, TuningStep DEF Tuning
<1>3. PICK f \in TuneFrames, n \in Nat :
          /\ n >= 1 /\ n <= Len(todo) /\ frames = <<f>> /\ Frame = f
          /\ TuneInv(f, n) /\ HeadAt(f, n)
  BY <1>1, TuningStep DEF Tuning
<1>4. "default" \notin f.flags /\ n >= 4 /\ TxPart(f, n)
  BY <1>2, <1>3 DEF HeadAt
<1>5. OwnSource /\ LoopIs(0) /\ Good(f, "rx")
  BY <1>2, <1>4 DEF TxPart
<1>6. want.source \in {"dds", "dma"} /\ chip.source = want.source
  BY <1>2, <1>5 DEF Wants, OwnSource
<1>7. Muted /\ drv.atten = f.atten
  BY <1>3, <1>4 DEF TuneInv
<1>8. /\ b \in Pairs /\ SameRest(Now, b) /\ b.c.atten = chip.atten /\ b.d.atten = drv.atten
      /\ b.c.source = chip.source
  BY <1>2, PrbsFacts DEF Tests
<1> HIDE DEF b
<1>9. /\ x \in Pairs /\ SameRest(b, x) /\ x.c.atten = chip.atten /\ x.d.atten = drv.atten
      /\ x.d.loop = 1 /\ x.c.loop /\ x.c.source = chip.source
  <2>1. ASSUME NEW k \in 0 .. 3, k = 1
        PROVE  /\ BistLoopback(b, k) \in Pairs /\ SameRest(b, BistLoopback(b, k))
               /\ BistLoopback(b, k).c.atten = b.c.atten
               /\ BistLoopback(b, k).d.atten = b.d.atten
               /\ BistLoopback(b, k).d.loop = k /\ BistLoopback(b, k).c.loop
               /\ BistLoopback(b, k).c.source = b.c.source
    <3>1. b.c.source # "pn" /\ b.c.source # "adc"
      BY <1>6, <1>8
    <3>2. k # 3 /\ k \in {0, 1}
      BY <2>1
    <3>3. /\ BistLoopback(b, k) \in Pairs /\ SameRest(b, BistLoopback(b, k))
          /\ BistLoopback(b, k).c.atten = b.c.atten
          /\ BistLoopback(b, k).d.atten = b.d.atten
          /\ BistLoopback(b, k).d.loop = k
          /\ k # 3 => BistLoopback(b, k).c.loop = (k = 1)
          /\ k \in {0, 1} => BistLoopback(b, k).c.source = IF b.c.source = "adc" THEN b.d.scratch
                                                           ELSE b.c.source
      BY <1>8, <3>1, LoopbackFacts
    <3>. QED  BY <2>1, <3>1, <3>2, <3>3
  <2>2. /\ x \in Pairs /\ SameRest(b, x) /\ x.c.atten = b.c.atten /\ x.d.atten = b.d.atten
        /\ x.d.loop = 1 /\ x.c.loop /\ x.c.source = b.c.source
    <3>1. 1 \in 0 .. 3
      OBVIOUS
    <3>. QED  BY <2>1, <3>1, Zenon DEF x
  <2> HIDE DEF x
  <2>. QED  BY <1>8, <2>2
<1> HIDE DEF x
<1>10. x.c \in Chips /\ x.d \in Drvs
  BY <1>9, PairFields
<1>11. y.c = c /\ y.d = x.d
  BY <1>9 DEF Pairs
<1>12. /\ c \in Chips /\ c.source = "pn" /\ c.loop = x.c.loop /\ c.atten = x.c.atten
       /\ c.delay = x.c.delay /\ c.tone = x.c.tone
  BY <1>10 DEF Chips, Sources
<1> HIDE DEF c, y
<1>13. /\ x.c.delay = chip.delay /\ x.c.tone = chip.tone /\ x.d.tone = drv.tone
       /\ x.d.bypass = drv.bypass
  <2>1. /\ b.c.delay = chip.delay /\ b.c.tone = chip.tone /\ b.d.tone = drv.tone
        /\ b.d.bypass = drv.bypass
    BY <1>2, <1>8 DEF SameRest
  <2>. QED  BY <1>9, <2>1 DEF SameRest
<1>14. /\ chip' \in Chips /\ drv' \in Drvs /\ chip'.source = "pn" /\ chip'.loop
       /\ chip'.atten = chip.atten /\ chip'.delay = chip.delay /\ chip'.tone = chip.tone
       /\ drv'.loop = 1 /\ drv'.atten = drv.atten /\ drv'.tone = drv.tone
       /\ drv'.bypass = drv.bypass
  BY <1>1, <1>9, <1>10, <1>11, <1>12, <1>13
<1>15. PICK g \in TuneFrames : /\ frames' = <<g>> /\ g.max = f.max /\ g.flags = f.flags
                               /\ g.atten = f.atten /\ g.source = want.source /\ g.eye = f.eye
  <2> DEFINE s == x.c.source
             h == [frames[1] EXCEPT !.source = s]
             g == [f EXCEPT !.source = s]
  <2>1. frames' = [frames EXCEPT ![1] = h]
    BY <1>1
  <2>2. s = want.source /\ s \in Sources \ {"pn"}
    BY <1>6, <1>9 DEF Sources
  <2> HIDE DEF s
  <2>3. h = g
    BY <1>3
  <2> HIDE DEF h
  <2>4. /\ g \in TuneFrames /\ g.max = f.max /\ g.flags = f.flags
        /\ g.atten = f.atten /\ g.source = want.source /\ g.eye = f.eye
    BY <2>2 DEF TuneFrames
  <2> HIDE DEF g
  <2>5. frames' = <<g>>
    BY <1>3, <2>1, <2>3
  <2>. QED  BY <2>4, <2>5
<1>16. /\ Outer(g, n - 1)' /\ todo' \in Seq(CallSteps) /\ n - 1 \in 1 .. Len(todo')
  <2>1. n >= 2
    BY <1>4
  <2>. QED  BY <1>1, <1>2, <1>3, <1>14, <1>15, <2>1, PopOuter
<1>17. TxPart(g, n - 1)'
  <2>1. /\ todo'[(n - 1) - 1] = Step("txend")
        /\ todo'[(n - 1) - 2] = Choose("tx")
        /\ \A i \in 1 .. (n - 1) - 3 : todo'[i].op \in Clocking \/ todo'[i] = Sweep("tx")
        /\ todo'[1].op # "txtune"
    BY <1>1, <1>2, <1>3, <1>4, PopTx
  <2>2. Good(g, "rx")'
    BY <1>5, <1>14, <1>15 DEF Good
  <2>3. chip'.source = "pn" /\ g.source = want'.source /\ LoopIs(1)'
    BY <1>1, <1>14, <1>15 DEF LoopIs
  <2>4. n - 1 # 2
    BY <1>4
  <2>. QED  BY <2>1, <2>2, <2>3, <2>4 DEF TxPart
<1>18. TuneInv(g, n - 1)'
  <2>1. n - 1 > 1
    BY <1>4
  <2>2. Muted' /\ drv'.atten = g.atten
    BY <1>7, <1>14, <1>15 DEF Muted
  <2>3. "default" \notin g.flags
    BY <1>4, <1>15
  <2>. QED  BY <1>16, <1>17, <2>1, <2>2, <2>3, TuningOn
<1>19. TonesKept'
  BY <1>1, <1>2, <1>14, TonesAcross
<1>. QED  BY <1>1, <1>2, <1>14, <1>15, <1>16, <1>18, <1>19, InTuning

\* The transmitter's registers are given back, the source to what it was.
LEMMA TxEndKeeps ==
  ASSUME IInv, TxEnd
  PROVE  IInv'
<1>1. /\ Do("txend") /\ chip' = [chip EXCEPT !.source = Frame.source, !.pn = "pn9"]
      /\ todo' = Tail(todo) /\ drv' = drv /\ ensm' = ensm /\ frames' = frames /\ ret' = ret
      /\ want' = want
  BY DEF TxEnd, Pop
<1>2. /\ Types /\ TonesKept /\ todo \in Seq(CallSteps) /\ todo # <<>>
      /\ todo[1].op = "txend" /\ calls' \in 0 .. MaxCalls
      /\ chip \in Chips /\ drv \in Drvs /\ ensm \in Ensms /\ want \in Wants
      /\ ret \in {"ok", "error", "eio"}
  BY <1>1, TuningStep DEF Tuning
<1>3. PICK f \in TuneFrames, n \in Nat :
          /\ n >= 1 /\ n <= Len(todo) /\ frames = <<f>> /\ Frame = f
          /\ TuneInv(f, n) /\ HeadAt(f, n)
  BY <1>1, TuningStep DEF Tuning
<1>4. "default" \notin f.flags /\ n = 2 /\ TxPart(f, n)
  BY <1>2, <1>3 DEF HeadAt
<1>5. /\ f.source = want.source /\ LoopIs(1) /\ Good(f, "rx")
      /\ ret = "eio" \/ Good(f, "tx")
  BY <1>2, <1>4 DEF TxPart
<1>6. Muted /\ drv.atten = f.atten
  BY <1>3, <1>4 DEF TuneInv
<1>7. /\ chip' \in Chips /\ chip'.source = f.source /\ chip'.pn = "pn9"
      /\ chip'.loop = chip.loop /\ chip'.atten = chip.atten /\ chip'.delay = chip.delay
      /\ chip'.tone = chip.tone
  <2>1. f.source \in Sources
    BY DEF TuneFrames
  <2>2. chip' = [chip EXCEPT !.source = f.source, !.pn = "pn9"]
    BY <1>1, <1>3
  <2>. QED  BY <1>2, <2>1, <2>2 DEF Chips
<1>8. /\ Outer(f, 1)' /\ todo' \in Seq(CallSteps) /\ 1 \in 1 .. Len(todo')
  <2>1. drv'.bypass = drv.bypass
    BY <1>1
  <2>2. /\ Outer(f, n - 1)' /\ todo' \in Seq(CallSteps) /\ n - 1 \in 1 .. Len(todo')
    BY <1>1, <1>2, <1>3, <1>4, <2>1, PopOuter
  <2>3. n - 1 = 1
    BY <1>4
  <2>. QED  BY <2>2, <2>3
<1>9. EndPart(f)'
  <2>1. OwnSource' /\ LoopIs(1)'
    BY <1>1, <1>5, <1>7 DEF OwnSource, LoopIs
  <2>2. ASSUME NEW p \in Paths, ret # "eio" PROVE Good(f, p)'
    <3>1. Good(f, p)
      BY <1>5, <2>2 DEF Paths
    <3>. QED  BY <1>7, <3>1 DEF Good
  <2>. QED  BY <1>1, <2>1, <2>2 DEF EndPart
<1>10. TuneInv(f, 1)'
  <2>1. Muted' /\ drv'.atten = f.atten
    BY <1>1, <1>6, <1>7 DEF Muted
  <2>. QED  BY <1>4, <1>8, <1>9, <2>1, TuningOn
<1>11. TonesKept'
  BY <1>1, <1>2, <1>7, TonesAcross
<1>12. frames' = <<f>>
  BY <1>1, <1>3
<1>. QED  BY <1>1, <1>2, <1>7, <1>8, <1>10, <1>11, <1>12, InTuning


\* What the end of ad9361_dig_tune gives back.
LEMMA EndFacts ==
  ASSUME IInv, DigTuneEnd
  PROVE  \E f \in TuneFrames :
            /\ frames = <<f>> /\ Frame = f /\ TuneInv(f, 1)
            /\ frames' = Tail(frames) /\ todo' = Tail(todo) /\ want' = want
            /\ ensm' \in Ensms /\ chip' \in Chips /\ drv' \in Drvs
            /\ ret' \in {"ok", "error", "eio"}
            /\ chip'.atten = drv.atten /\ chip'.pn = chip.pn
            /\ chip'.tone = chip.tone /\ drv'.tone = drv.tone
            /\ Restores(ret, f) => chip'.delay = drv.delay /\ drv'.delay = drv.delay
            /\ ~Restores(ret, f) => /\ chip'.delay = chip.delay
                                    /\ drv'.delay \in {chip.delay, drv.delay}
            /\ "default" \in f.flags =>
                  /\ chip'.source = chip.source /\ chip'.loop = chip.loop
                  /\ drv'.loop = drv.loop /\ drv'.scratch = drv.scratch
            /\ "default" \notin f.flags =>
                  /\ drv'.loop = f.loop
                  /\ f.loop \in {0, 1} => chip'.source = chip.source
                  /\ f.loop # 3 => chip'.loop = (f.loop = 1)
                  /\ chip'.source = "adc" \/ chip'.source = chip.source
                  /\ chip'.source = "adc" => drv'.scratch = chip.source
<1>1. Do("tuneend")
  BY DEF DigTuneEnd
<1>2. /\ Types /\ todo[1].op = "tuneend" /\ chip \in Chips /\ drv \in Drvs /\ ensm \in Ensms
      /\ want \in Wants /\ ret \in {"ok", "error", "eio"}
      /\ Now \in Pairs /\ Now.c = chip /\ Now.d = drv
  BY <1>1, TuningStep DEF Tuning
<1>3. PICK f \in TuneFrames, n \in Nat :
          frames = <<f>> /\ Frame = f /\ TuneInv(f, n) /\ HeadAt(f, n)
  BY <1>1, TuningStep DEF Tuning
<1>4. n = 1 /\ TuneInv(f, 1)
  <2>1. n = 1
    BY <1>2, <1>3 DEF HeadAt
  <2>. QED  BY <1>3, <2>1
<1> DEFINE b == BistLoopback(Now, f.loop)
           c1 == [b.c EXCEPT !.test = f.test]
           tested == [b EXCEPT !.c.test = f.test]
           x == IF "default" \in f.flags THEN Now ELSE tested
           back == [x.c EXCEPT !.delay = x.d.delay]
           kept == [x.d EXCEPT !.delay = x.c.delay]
           y == IF Restores(ret, f) THEN [x EXCEPT !.c.delay = x.d.delay]
                ELSE IF "skip" \in f.flags THEN x ELSE [x EXCEPT !.d.delay = x.c.delay]
           u == Unmute(y)
           e == IF Restores(ret, f) THEN ForceState(ensm, "alert") ELSE ensm
           e3 == SetEnsmMode(e, e.fdd)
<1>5. /\ chip' = u.c /\ drv' = u.d /\ ensm' = Restore(e3, f.ensm.state)
      /\ ret' = (IF f.max THEN ret ELSE "ok")
      /\ frames' = Tail(frames) /\ todo' = Tail(todo) /\ want' = want
  BY <1>3 DEF DigTuneEnd, Set, Pop
<1>6. /\ f.loop \in 0 .. 3 /\ f.test \in Tests /\ f.ensm \in Ensms
  BY DEF TuneFrames
<1>7. ensm' \in Ensms
  <2>1. e \in Ensms
    BY <1>2, ForceType
  <2> HIDE DEF e
  <2>2. e.fdd \in BOOLEAN /\ f.ensm.state \in States
    BY <1>6, <2>1, EnsmFields
  <2>3. e3 \in Ensms
    BY <2>1, <2>2, ModeType
  <2> HIDE DEF e3
  <2>. QED  BY <1>5, <2>2, <2>3, RestoreType
<1> HIDE DEF e, e3
<1>8. chip.source # "pn" /\ ("default" \notin f.flags => chip.source # "adc")
  <2>1. want.source \in {"dds", "dma"}
    BY <1>2 DEF Wants
  <2>2. CASE "default" \in f.flags
    <3>1. SourceInv
      BY <1>4, <2>2 DEF TuneInv
    <3>. QED  BY <2>1, <2>2, <3>1 DEF SourceInv
  <2>3. CASE "default" \notin f.flags
    <3>1. EndPart(f)
      BY <1>4, <2>3 DEF TuneInv
    <3>. QED  BY <2>1, <3>1 DEF EndPart, OwnSource
  <2>. QED  BY <2>2, <2>3
<1> DEFINE mode == f.loop
<1>9. ASSUME "default" \notin f.flags
      PROVE  /\ tested \in Pairs /\ SameRest(Now, tested)
             /\ tested.d.atten = drv.atten /\ tested.d.loop = mode
             /\ mode \in {0, 1} => tested.c.source = chip.source
             /\ mode # 3 => tested.c.loop = (mode = 1)
             /\ tested.c.source = "adc" \/ tested.c.source = chip.source
             /\ tested.c.source = "adc" => tested.d.scratch = chip.source
  <2>1. /\ b \in Pairs /\ SameRest(Now, b) /\ b.d.loop = mode /\ b.d.atten = drv.atten
        /\ mode = 3 => b.c.source = chip.source
        /\ mode # 3 => b.c.loop = (mode = 1)
        /\ mode \in {0, 1} => b.c.source = chip.source
        /\ mode = 2 => b.c.source = "adc" /\ b.d.scratch = chip.source
    BY <1>2, <1>6, <1>8, <1>9, LoopbackFacts
  <2> HIDE DEF b
  <2>2. b.c \in Chips /\ b.d \in Drvs
    BY <2>1, PairFields
  <2>3. /\ c1 \in Chips /\ c1.source = b.c.source /\ c1.loop = b.c.loop /\ c1.pn = b.c.pn
        /\ c1.tone = b.c.tone /\ c1.delay = b.c.delay /\ c1.tree = b.c.tree
    BY <1>6, <2>2 DEF Chips
  <2>4. tested = [c |-> c1, d |-> b.d]
    BY <2>1 DEF Pairs
  <2> HIDE DEF c1, tested
  <2>5. tested \in Pairs /\ tested.c = c1 /\ tested.d = b.d
    BY <2>2, <2>3, <2>4 DEF Pairs
  <2>6. SameRest(Now, tested)
    BY <2>1, <2>3, <2>5 DEF SameRest
  <2>7. mode = 0 \/ mode = 1 \/ mode = 2 \/ mode = 3
    BY <1>6
  <2> HIDE DEF mode
  <2>8. /\ tested.c.source = "adc" \/ tested.c.source = chip.source
        /\ tested.c.source = "adc" => tested.d.scratch = chip.source
    BY <1>8, <1>9, <2>1, <2>3, <2>5, <2>7
  <2>. QED  BY <2>1, <2>3, <2>5, <2>6, <2>8
<1> HIDE DEF tested, mode
<1>10. /\ x \in Pairs /\ x.d.atten = drv.atten /\ x.c.pn = chip.pn
       /\ x.c.tone = chip.tone /\ x.d.tone = drv.tone
       /\ x.c.delay = chip.delay /\ x.d.delay = drv.delay
       /\ "default" \in f.flags => x = Now
       /\ "default" \notin f.flags => x = tested
  <2>1. CASE "default" \in f.flags
    BY <1>2, <2>1
  <2>2. CASE "default" \notin f.flags
    BY <1>2, <1>9, <2>2 DEF SameRest
  <2>. QED  BY <2>1, <2>2
<1> HIDE DEF x
<1>11. x.c \in Chips /\ x.d \in Drvs
  BY <1>10, PairFields
<1>12. /\ y \in Pairs /\ y.d.atten = x.d.atten /\ y.c.pn = x.c.pn
       /\ y.c.tone = x.c.tone /\ y.d.tone = x.d.tone
       /\ y.c.source = x.c.source /\ y.c.loop = x.c.loop
       /\ y.d.loop = x.d.loop /\ y.d.scratch = x.d.scratch
       /\ Restores(ret, f) => y.c.delay = x.d.delay /\ y.d.delay = x.d.delay
       /\ ~Restores(ret, f) => y.c.delay = x.c.delay /\ y.d.delay \in {x.c.delay, x.d.delay}
  <2>0. x.c.delay \in [Paths -> Delays] /\ x.d.delay \in [Paths -> Delays]
    BY <1>11 DEF Chips, Drvs
  <2>1. CASE Restores(ret, f)
    <3>1. /\ back \in Chips /\ back.delay = x.d.delay /\ back.pn = x.c.pn
          /\ back.tone = x.c.tone /\ back.source = x.c.source /\ back.loop = x.c.loop
      BY <1>11, <2>0 DEF Chips
    <3>2. y = [x EXCEPT !.c.delay = x.d.delay]
      BY <2>1
    <3>3. y = [c |-> back, d |-> x.d]
      BY <1>10, <3>2 DEF Pairs
    <3> HIDE DEF back, y
    <3>4. y \in Pairs /\ y.c = back /\ y.d = x.d
      BY <1>11, <3>1, <3>3 DEF Pairs
    <3>. QED  BY <2>1, <3>1, <3>4
  <2>2. CASE ~Restores(ret, f) /\ "skip" \in f.flags
    <3>1. y = x
      BY <2>2
    <3> HIDE DEF y
    <3>. QED  BY <1>10, <2>2, <3>1
  <2>3. CASE ~Restores(ret, f) /\ "skip" \notin f.flags
    <3>1. /\ kept \in Drvs /\ kept.delay = x.c.delay /\ kept.tone = x.d.tone
          /\ kept.atten = x.d.atten /\ kept.loop = x.d.loop /\ kept.scratch = x.d.scratch
      BY <1>11, <2>0 DEF Drvs
    <3>2. y = [x EXCEPT !.d.delay = x.c.delay]
      BY <2>3
    <3>3. y = [c |-> x.c, d |-> kept]
      BY <1>10, <3>2 DEF Pairs
    <3> HIDE DEF kept, y
    <3>4. y \in Pairs /\ y.c = x.c /\ y.d = kept
      BY <1>11, <3>1, <3>3 DEF Pairs
    <3>. QED  BY <2>3, <3>1, <3>4
  <2>. QED  BY <2>1, <2>2, <2>3
<1> HIDE DEF y
<1>13. /\ u \in Pairs /\ SameRest(y, u) /\ u.c.atten = y.d.atten /\ u.c.loop = y.c.loop
       /\ u.c.source = y.c.source /\ u.d.loop = y.d.loop /\ u.d.scratch = y.d.scratch
  BY <1>12, UnmuteFacts
<1> HIDE DEF u
<1>14. u.c \in Chips /\ u.d \in Drvs
  BY <1>13, PairFields
<1>15. /\ chip'.atten = drv.atten /\ chip'.pn = chip.pn
       /\ chip'.tone = chip.tone /\ drv'.tone = drv.tone
       /\ chip'.source = x.c.source /\ chip'.loop = x.c.loop
       /\ drv'.loop = x.d.loop /\ drv'.scratch = x.d.scratch
  BY <1>5, <1>10, <1>12, <1>13 DEF SameRest
<1>16. /\ Restores(ret, f) => chip'.delay = drv.delay /\ drv'.delay = drv.delay
       /\ ~Restores(ret, f) => /\ chip'.delay = chip.delay
                               /\ drv'.delay \in {chip.delay, drv.delay}
  <2>1. chip'.delay = y.c.delay /\ drv'.delay = y.d.delay
    BY <1>5, <1>13 DEF SameRest
  <2>. QED  BY <1>10, <1>12, <2>1
<1>17. "default" \in f.flags =>
          /\ chip'.source = chip.source /\ chip'.loop = chip.loop
          /\ drv'.loop = drv.loop /\ drv'.scratch = drv.scratch
  BY <1>2, <1>10, <1>15
<1>18. "default" \notin f.flags =>
          /\ drv'.loop = f.loop
          /\ f.loop \in {0, 1} => chip'.source = chip.source
          /\ f.loop # 3 => chip'.loop = (f.loop = 1)
          /\ chip'.source = "adc" \/ chip'.source = chip.source
          /\ chip'.source = "adc" => drv'.scratch = chip.source
  BY <1>9, <1>10, <1>15 DEF mode
<1>19. ret' \in {"ok", "error", "eio"} /\ chip' \in Chips /\ drv' \in Drvs
  BY <1>2, <1>5, <1>14
<1>20. frames' = Tail(frames) /\ todo' = Tail(todo) /\ want' = want
  BY <1>5
<1>. QED  BY <1>3, <1>4, <1>7, <1>15, <1>16, <1>17, <1>18, <1>19, <1>20

LEMMA DigTuneEndKeeps ==
  ASSUME IInv, DigTuneEnd
  PROVE  IInv'
<1>1. Do("tuneend")
  BY DEF DigTuneEnd
<1>2. /\ Types /\ TonesKept /\ todo \in Seq(CallSteps) /\ todo # <<>>
      /\ calls' \in 0 .. MaxCalls /\ want \in Wants
  BY <1>1, TuningStep DEF Tuning
<1>3. PICK f \in TuneFrames :
         /\ frames = <<f>> /\ Frame = f /\ TuneInv(f, 1)
         /\ frames' = Tail(frames) /\ todo' = Tail(todo) /\ want' = want
         /\ ensm' \in Ensms /\ chip' \in Chips /\ drv' \in Drvs
         /\ ret' \in {"ok", "error", "eio"}
         /\ chip'.pn = chip.pn /\ chip'.tone = chip.tone /\ drv'.tone = drv.tone
         /\ "default" \in f.flags =>
               /\ chip'.source = chip.source /\ chip'.loop = chip.loop
               /\ drv'.loop = drv.loop /\ drv'.scratch = drv.scratch
         /\ "default" \notin f.flags =>
               /\ drv'.loop = f.loop
               /\ f.loop \in {0, 1} => chip'.source = chip.source
               /\ f.loop # 3 => chip'.loop = (f.loop = 1)
               /\ chip'.source = "adc" \/ chip'.source = chip.source
               /\ chip'.source = "adc" => drv'.scratch = chip.source
  BY EndFacts
<1>4. want.source \in {"dds", "dma"}
  BY <1>2 DEF Wants
<1>5. frames' = <<>>
  BY <1>3
<1>6. /\ Outside(2)' /\ (todo' # <<>> => todo'[1].op \notin Tuning \cup {"tune"})
      /\ todo' \in Seq(CallSteps)
  <2>1. Outside(1 + 1)
    BY <1>3 DEF TuneInv
  <2>2. Len(todo) \in Nat
    BY <1>2, EmptySeq
  <2>3. /\ Tail(todo) \in Seq(CallSteps) /\ Len(Tail(todo)) = Len(todo) - 1
        /\ \A i \in 1 .. Len(todo) - 1 : Tail(todo)[i] = todo[i + 1]
    BY <1>2, HeadTailProperties
  <2>4. /\ todo' \in Seq(CallSteps) /\ Len(todo') = Len(todo) - 1
        /\ \A i \in 1 .. Len(todo) - 1 : todo'[i] = todo[i + 1]
    BY <1>3, <2>3
  <2>5. ASSUME NEW i \in 1 .. Len(todo') PROVE todo'[i].op \notin Tuning \cup {"tune"}
    <3>1. i \in 1 .. Len(todo) - 1 /\ i + 1 \in 1 + 1 .. Len(todo)
      BY <2>2, <2>4
    <3>. QED  BY <2>1, <2>4, <3>1 DEF Outside
  <2>6. \A i \in 2 .. Len(todo') : i \in 1 .. Len(todo')
    BY <2>2, <2>4
  <2>7. todo' # <<>> => 1 \in 1 .. Len(todo')
    <3>1. todo' # <<>> => Len(todo') \in Nat /\ Len(todo') >= 1
      BY <2>4, HeadFacts
    <3>. QED  BY <3>1
  <2>. QED  BY <2>4, <2>5, <2>6, <2>7 DEF Outside
<1>7. ~Fresh'
  <2>1. todo' # <<>> => Head(todo') = todo'[1]
    BY <1>6, HeadFacts
  <2>. QED  BY <1>6, <2>1 DEF Fresh, Ending
<1>8. SourceInv'
  <2>1. CASE "default" \in f.flags
    <3>1. SourceInv
      BY <1>3, <2>1 DEF TuneInv
    <3>2. ~Fresh
      <4>1. todo[1].op = "tuneend" /\ Head(todo) = todo[1]
        BY <1>1, TuningStep DEF Tuning
      <4>. QED  BY <4>1 DEF Fresh, Ending
    <3>. QED  BY <1>3, <2>1, <3>1, <3>2, SourceAcross
  <2>2. CASE "default" \notin f.flags
    <3>1. chip.source = want.source /\ chip.pn = "pn9"
      BY <1>3, <2>2 DEF TuneInv, EndPart, OwnSource
    <3> DEFINE mode == f.loop
    <3>2. mode = 0 \/ mode = 1 \/ mode = 2 \/ mode = 3
      BY DEF TuneFrames
    <3>3. /\ drv'.loop = mode
          /\ mode \in {0, 1} => chip'.source = chip.source
          /\ mode # 3 => chip'.loop = (mode = 1)
      BY <1>3, <2>2
    <3> HIDE DEF mode
    <3>4. /\ chip'.pn = "pn9" /\ want'.source = want.source
          /\ chip'.source = "adc" \/ chip'.source = want.source
          /\ chip'.source = "adc" => drv'.scratch = want.source
      BY <1>3, <2>2, <3>1
    <3>5. mode \in {0, 1} => chip'.source # "adc" /\ LoopIs(mode)'
      BY <1>4, <3>1, <3>2, <3>3 DEF LoopIs
    <3>. QED  BY <1>4, <3>3, <3>4, <3>5 DEF SourceInv
  <2>. QED  BY <2>1, <2>2
<1>9. CallInv'
  BY <1>5, <1>6, <1>7, <1>8 DEF CallInv
<1>10. Types'
  BY <1>2, <1>3, <1>5, <1>6 DEF Types
<1>11. TonesKept'
  BY <1>2, <1>3, TonesAcross
<1>. QED  BY <1>9, <1>10, <1>11 DEF IInv


----------------------------------------------------------------------------
(* The theorems.                                                           *)

\* The steps of a call in progress.
LEMMA StepsKeep ==
  ASSUME IInv, Steps
  PROVE  IInv'
<1>1. CASE SetTrxClockChain
  BY <1>1, ChainKeeps
<1>2. CASE BbClkChangeHandler
  BY <1>2, HandlerKeeps
<1>3. CASE SetTrxClockChainFreq
  BY <1>3, ChainFreqKeeps
<1>4. CASE DigTune
  BY <1>4, DefaultTuneKeeps, SweepTuneKeeps
<1>5. CASE DoSweep
  BY <1>5, DoSweepKeeps
<1>6. CASE ChooseDelay
  BY <1>6, ChooseDelayKeeps
<1>7. CASE TxTune
  BY <1>7, TxTuneKeeps
<1>8. CASE TxEnd
  BY <1>8, TxEndKeeps
<1>9. CASE DigTuneEnd
  BY <1>9, DigTuneEndKeeps
<1>10. CASE FirConfig
  BY <1>10, FirConfigKeeps
<1>11. CASE FirEnDis
  BY <1>11, FirEnDisKeeps
<1>12. CASE FirTune
  BY <1>12, FirTuneKeeps
<1>13. CASE FirEnd
  BY <1>13, FirEndKeeps
<1>14. CASE RateEnd
  BY <1>14, RateEndKeeps
<1>15. CASE PathEnd
  BY <1>15, PathEndKeeps
<1>16. CASE Posted
  BY <1>16, PostedKeeps
<1>17. CASE Settle
  BY <1>17, SettleKeeps
<1>. QED  BY <1>1, <1>2, <1>3, <1>4, <1>5, <1>6, <1>7, <1>8, <1>9, <1>10, <1>11, <1>12,
             <1>13, <1>14, <1>15, <1>16, <1>17 DEF Steps

\* The calls.
LEMMA CallsKeep ==
  ASSUME IInv, Next, ~Steps
  PROVE  IInv'
<1>1. CASE \E ch \in 1 .. 2, a \in Attens : Attenuate(ch, a)
  BY <1>1, AttenuateKeeps
<1>2. CASE \E m \in Tests : Test(m)
  BY <1>2, TestKeeps
<1>3. CASE \E m \in 0 .. 3 : Loop(m)
  BY <1>3, LoopKeeps
<1>4. CASE \E s \in {"dds", "dma"} : Select(s) \/ SelectInit(s)
  BY <1>4, SelectKeeps, SelectInitKeeps
<1>5. CASE \E t \in Tones, n \in DOMAIN AskedTones : \E v \in AskedTones[n] : Tone(t, n, v)
  BY <1>5, ToneKeeps
<1>6. CASE Update
  BY <1>6, UpdateKeeps
<1>7. CASE \E s \in AskedModes : Mode(s)
  BY <1>7, ModeKeeps
<1>8. CASE \E f \in Freqs : SamplingFreq(f)
  BY <1>8, SamplingFreqKeeps
<1>9. CASE \E ch \in PathClks : SetPathClks(ch)
  BY <1>9, SetPathClksKeeps
<1>10. CASE \E g \in 0 .. 1 : RateGov(g)
  BY <1>10, RateGovKeeps
<1>11. CASE \E c \in Configs : LoadEnable(c) \/ Profile(c) \/ Configure(c)
  BY <1>11, LoadEnableKeeps, ProfileKeeps, ConfigureKeeps
<1>12. CASE \E on \in BOOLEAN : SetRxFirEnDis(on) \/ SetTxFirEnDis(on) \/ SetTrxFirEnDis(on)
  <2>1. {"rx"} \in SUBSET Paths /\ {"tx"} \in SUBSET Paths /\ Paths \in SUBSET Paths
    BY DEF Paths
  <2>2. PICK on \in BOOLEAN : Filters({"rx"}, on) \/ Filters({"tx"}, on) \/ Filters(Paths, on)
    BY <1>12 DEF SetRxFirEnDis, SetTxFirEnDis, SetTrxFirEnDis
  <2>. QED  BY <2>1, <2>2, FiltersKeeps
<1>13. CASE TimingAnalysis
  BY <1>13, TimingAnalysisKeeps
<1>14. CASE SetNoChMode
  BY <1>14, SetNoChModeKeeps
<1>. QED  BY <1>1, <1>2, <1>3, <1>4, <1>5, <1>6, <1>7, <1>8, <1>9, <1>10, <1>11, <1>12,
             <1>13, <1>14 DEF Next

LEMMA Unchanged ==
  ASSUME IInv, UNCHANGED vars
  PROVE  IInv'
<1>1. /\ chip' = chip /\ drv' = drv /\ ensm' = ensm /\ todo' = todo /\ frames' = frames
      /\ ret' = ret /\ want' = want /\ calls' = calls
  BY DEF vars
<1>2. Types'
  BY <1>1 DEF IInv, Types
<1>3. SourceInv' = SourceInv /\ FirActive' = FirActive /\ Fresh' = Fresh
  BY <1>1 DEF SourceInv, FirActive, Fresh, LoopIs, Ending
<1>4. ASSUME NEW f, NEW n, TuneInv(f, n) PROVE TuneInv(f, n)'
  <2>1. RxPart(n)' = RxPart(n)
    BY <1>1 DEF RxPart, OwnSource, LoopIs
  <2>2. TxPart(f, n)' = TxPart(f, n)
    BY <1>1 DEF TxPart, OwnSource, LoopIs, Good
  <2>3. EndPart(f)' = EndPart(f)
    BY <1>1 DEF EndPart, OwnSource, LoopIs, Good
  <2>4. Outside(n + 1)' = Outside(n + 1) /\ Muted' = Muted
    BY <1>1 DEF Outside, Muted
  <2>. QED  BY <1>1, <1>3, <1>4, <2>1, <2>2, <2>3, <2>4 DEF TuneInv
<1>5. Outside(2)' = Outside(2) /\ Frame' = Frame
  BY <1>1 DEF Outside, Frame
<1>6. CallInv'
  <2>1. CASE frames = <<>>
    BY <1>1, <1>3, <1>5, <2>1 DEF IInv, CallInv
  <2>2. CASE frames # <<>>
    <3>1. PICK n \in 1 .. Len(todo) : TuneInv(Frame, n)
      BY <2>2 DEF IInv, CallInv
    <3> DEFINE f == Frame
    <3>2. f' = f
      BY <1>5
    <3>3. PICK g : g = f
      OBVIOUS
    <3>4. TuneInv(g, n)'
      BY <1>4, <3>1, <3>3
    <3>5. Frame' = g
      BY <3>2, <3>3
    <3>6. TuneInv(Frame, n)'
      BY <3>4, <3>5
    <3>. QED  BY <1>1, <2>2, <3>6 DEF CallInv
  <2>. QED  BY <2>1, <2>2
<1>7. TonesKept'
  BY <1>1, TonesAcross DEF IInv
<1>. QED  BY <1>2, <1>6, <1>7 DEF IInv

LEMMA Inductive == Spec => []IInv
<1>1. IInv /\ [Next]_vars => IInv'
  <2> SUFFICES ASSUME IInv, [Next]_vars PROVE IInv'
    OBVIOUS
  <2>1. CASE Next
    BY <2>1, StepsKeep, CallsKeep
  <2>2. CASE UNCHANGED vars
    BY <2>2, Unchanged
  <2>. QED  BY <2>1, <2>2
<1>. QED  BY Initially, <1>1, PTL DEF Spec

\* The registers, the caches and the locals of a tuning stay in their ranges, and no tuning
\* is in progress inside of more than one other (ad9361_dig_tune,
\* ad9361_set_trx_clock_chain).
THEOREM LinkTypes == Spec => []TypeOK
<1>1. IInv => TypeOK
  <2> SUFFICES ASSUME Types PROVE TypeOK
    BY DEF IInv
  <2>1. /\ chip \in Chips /\ drv \in Drvs /\ ensm \in Ensms
        /\ ret \in {"ok", "error", "eio"} /\ calls \in 0 .. MaxCalls
    BY DEF Types
  <2>2. /\ chip.atten \in [1 .. 2 -> 0 .. MaxAtten] /\ chip.test \in Tests
        /\ chip.loop \in BOOLEAN /\ chip.tone \in ToneRegs /\ chip.source \in Sources
        /\ chip.pn \in {"pn9", "custom"} /\ chip.delay \in [Paths -> Delays]
        /\ chip.tree \in TreeTypes
    BY <2>1 DEF Chips, AttenPairs
  <2>3. /\ drv.atten \in [1 .. 2 -> 0 .. MaxAtten] /\ drv.test \in Tests
        /\ drv.loop \in 0 .. 3 /\ drv.scratch \in Sources /\ drv.delay \in [Paths -> Delays]
        /\ drv.bypass \in [Paths -> BOOLEAN] /\ drv.factor \in [Paths -> Factors \cup {0}]
        /\ drv.gov \in 0 .. 1
    BY <2>1 DEF Drvs, AttenPairs
  <2>4. chip.tree.bbpll \in MinBbpll .. MaxBbpll /\ chip.tree.reg \in RegTypes
    BY <2>2 DEF TreeTypes
  <2>5. ASSUME NEW c \in Clocks
        PROVE  chip.tree.reg[c] \in {0, 1, 2, 3, 4, 8, 16, 32, 64}
    <3>1. chip.tree.reg[c] \in Dividing(c)
      BY <2>4 DEF RegTypes
    <3>2. CASE c = "adc"
      BY <3>1, <3>2 DEF Dividing
    <3>3. CASE c \in {"rx", "tx"}
      BY <3>1, <3>3 DEF Dividing
    <3>4. CASE c # "adc" /\ c \notin {"rx", "tx"}
      BY <3>1, <3>4 DEF Dividing
    <3>. QED  BY <3>2, <3>3, <3>4
  <2>6. Len(frames) <= 2
    <3>1. CASE frames = <<>>
      BY <3>1
    <3>2. ASSUME NEW f \in TuneFrames, frames = <<f>> PROVE Len(frames) <= 2
      BY <3>2
    <3>. QED  BY <3>1, <3>2 DEF Types
  <2>. QED  BY <2>1, <2>2, <2>3, <2>4, <2>5, <2>6 DEF TypeOK
<1>. QED  BY <1>1, Inductive, PTL

\* The pattern is never transmitted: as long as it drives the transmitter, both channels
\* are muted (ad9361_dig_tune: "Mute TX, we don't want to transmit the PRBS").
THEOREM LinkPnMuted == Spec => []PnMuted
<1>1. IInv => PnMuted
  <2> SUFFICES ASSUME IInv, chip.source = "pn" PROVE Muted
    BY DEF PnMuted, Muted
  <2>1. want.source \in {"dds", "dma"}
    BY DEF IInv, Types, Wants
  <2>2. ~SourceInv
    BY <2>1 DEF SourceInv
  <2>3. PICK n : TuneInv(Frame, n)
    BY <2>2 DEF IInv, CallInv
  <2>. QED  BY <2>2, <2>3 DEF TuneInv
<1>. QED  BY <1>1, Inductive, PTL

\* Between calls the transmitter's data comes from where it was asked for, whatever tunings
\* have borrowed it, unless a loopback is asked for (ad9361_bist_loopback,
\* ad9361_hdl_loopback, ad9361_dig_tune_tx).
THEOREM LinkSourceKept == Spec => []SourceKept
<1>1. IInv => SourceKept
  <2> SUFFICES ASSUME IInv, Idle, drv.loop \in {0, 1}
               PROVE  /\ chip.source = want.source /\ chip.pn = "pn9"
                      /\ chip.loop = (drv.loop = 1)
    BY DEF SourceKept
  <2>1. todo = <<>> /\ ~Fresh
    BY DEF Idle, Fresh, Ending
  <2>2. frames = <<>>
    BY <2>1, TuningHead DEF IInv
  <2>3. SourceInv
    BY <2>2 DEF IInv, CallInv
  <2>. QED  BY <2>1, <2>3 DEF SourceInv, LoopIs
<1>. QED  BY <1>1, Inductive, PTL

\* Each tone is the one that its caches tell, at the rate it was last set for, for any
\* frequencies, phases and scales and at any clocks (dds_set_frequency, dds_set_phase,
\* dds_set_scale, dds_update, dac_init).
THEOREM LinkTonesKept == Spec => []TonesKept
<1>1. IInv => TonesKept
  BY DEF IInv
<1>. QED  BY <1>1, Inductive, PTL

\* A step that ends a tuning is its end.
LEMMA EndsTuning ==
  ASSUME IInv, Next, Ending("tuneend")
  PROVE  DigTuneEnd
<1>1. todo # <<>> /\ Head(todo).op = "tuneend"
  BY DEF Ending
<1>2. Steps
  BY <1>1 DEF Next, Attenuate, Test, Loop, Select, SelectInit, Tone, Update, Mode, SamplingFreq,
              SetPathClks, RateGov, LoadEnable, Profile, Configure, SetRxFirEnDis,
              SetTxFirEnDis, SetTrxFirEnDis, Filters, TimingAnalysis, SetNoChMode, Begin, Idle
<1>3. ASSUME NEW name, Do(name) PROVE name = "tuneend"
  BY <1>1, <1>3 DEF Do
<1>4. ~SetTrxClockChain /\ ~BbClkChangeHandler /\ ~SetTrxClockChainFreq /\ ~DigTune
  BY <1>3 DEF SetTrxClockChain, BbClkChangeHandler, SetTrxClockChainFreq, DigTune
<1>5. ~DoSweep /\ ~ChooseDelay /\ ~TxTune /\ ~TxEnd
  BY <1>3 DEF DoSweep, ChooseDelay, TxTune, TxEnd
<1>6. ~FirConfig /\ ~FirEnDis /\ ~FirTune /\ ~FirEnd
  BY <1>3 DEF FirConfig, FirEnDis, FirTune, FirEnd
<1>7. ~RateEnd /\ ~PathEnd /\ ~Posted /\ ~Settle
  BY <1>3 DEF RateEnd, PathEnd, Posted, Settle
<1>. QED  BY <1>2, <1>4, <1>5, <1>6, <1>7 DEF Steps

\* A tuning that muted the transmitter gives back the attenuation that it found, whatever it
\* calls and however it fails (ad9361_dig_tune, ad9361_tx_mute).
THEOREM LinkAttenGivenBack == Spec => AttenGivenBack
<1>1. IInv /\ [Next]_vars =>
          [Ending("tuneend") /\ "default" \notin Frame.flags => chip'.atten = Frame.atten]_vars
  <2> SUFFICES ASSUME IInv, Next, Ending("tuneend"), "default" \notin Frame.flags
               PROVE  chip'.atten = Frame.atten
    OBVIOUS
  <2>1. DigTuneEnd
    BY EndsTuning
  <2>2. PICK f \in TuneFrames : Frame = f /\ TuneInv(f, 1) /\ chip'.atten = drv.atten
    BY <2>1, EndFacts
  <2>3. drv.atten = f.atten
    BY <2>2 DEF TuneInv
  <2>. QED  BY <2>2, <2>3
<1>. QED  BY <1>1, Inductive, PTL DEF AttenGivenBack, Spec

\* After a tuning each delay is one at which the pattern was received at every rate that was
\* tried, for any number of delays and any eyes, or the stored one is back
\* (ad9361_dig_tune_delay, ad9361_find_opt, ad9361_dig_tune).
THEOREM LinkDelaysPass == Spec => DelaysPass
<1>1. IInv /\ [Next]_vars =>
          [Ending("tuneend") =>
               IF ret = "eio" \/ "default" \in Frame.flags
               THEN chip'.delay = drv.delay /\ drv'.delay = drv.delay
               ELSE /\ \A p \in Paths : Skew(chip'.delay[p]) \in Frame.eye[p]
                    /\ drv'.delay \in {chip'.delay, drv.delay}]_vars
  <2> SUFFICES ASSUME IInv, Next, Ending("tuneend")
               PROVE  IF ret = "eio" \/ "default" \in Frame.flags
                      THEN chip'.delay = drv.delay /\ drv'.delay = drv.delay
                      ELSE /\ \A p \in Paths : Skew(chip'.delay[p]) \in Frame.eye[p]
                           /\ drv'.delay \in {chip'.delay, drv.delay}
    OBVIOUS
  <2>1. DigTuneEnd
    BY EndsTuning
  <2>2. PICK f \in TuneFrames :
            /\ Frame = f /\ TuneInv(f, 1)
            /\ Restores(ret, f) => chip'.delay = drv.delay /\ drv'.delay = drv.delay
            /\ ~Restores(ret, f) => /\ chip'.delay = chip.delay
                                    /\ drv'.delay \in {chip.delay, drv.delay}
    BY <2>1, EndFacts
  <2>3. CASE ret = "eio" \/ "default" \in f.flags
    BY <2>2, <2>3 DEF Restores
  <2>4. CASE ret # "eio" /\ "default" \notin f.flags
    <3>1. EndPart(f)
      BY <2>2, <2>4 DEF TuneInv
    <3>2. \A p \in Paths : Skew(chip.delay[p]) \in f.eye[p]
      BY <2>4, <3>1 DEF EndPart, Good
    <3>3. chip'.delay = chip.delay /\ drv'.delay \in {chip.delay, drv.delay}
      BY <2>2, <2>4 DEF Restores
    <3>. QED  BY <2>2, <2>4, <3>2, <3>3
  <2>. QED  BY <2>2, <2>3, <2>4
<1>. QED  BY <1>1, Inductive, PTL DEF DelaysPass, Spec
=============================================================================
