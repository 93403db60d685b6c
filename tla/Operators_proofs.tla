-------------------------- MODULE Operators_proofs --------------------------
(***************************************************************************)
(* The lemmas about operators that the proofs of several components rest   *)
(* on: that the natural numbers are well founded, in the form in which a   *)
(* search for the first entry of a table needs it; that ad9361_find_opt    *)
(* finds the longest window of a sweep; and what each function of Ensm     *)
(* does to the state machine, for any state of the chip and of the driver. *)
(***************************************************************************)
EXTENDS Ensm, Windows, WellFoundedInduction, TLAPS

----------------------------------------------------------------------------
(* Numbers.                                                                *)

\* Every set of natural numbers that is not empty has a least member, which is what the
\* loops that look for the first entry of a table or a sweep come to.
LEMMA LeastNat ==
  ASSUME NEW T \in SUBSET Nat, T # {}
  PROVE  \E x \in T : \A y \in T : x <= y
<1> DEFINE R == {ss \in Nat \X Nat : ss[1] < ss[2]}
<1>1. IsWellFoundedOn(R, Nat)
  BY NatLessThanWellFounded DEF OpToRel
<1>2. \A x, y \in Nat : x < y => <<x, y>> \in R
  OBVIOUS
<1> HIDE DEF R
<1>3. PICK x \in T : \A y \in T : ~ (<<y, x>> \in R)
  BY <1>1, WFMin
<1>4. \A y \in T : ~ (y < x)
  BY <1>2, <1>3
<1>. QED  BY <1>4

----------------------------------------------------------------------------
(* The windows of a sweep.  There is no induction over the loop: the first *)
(* turn at which something were wrong is led to a contradiction.           *)

\* The c settings from s on, counted from 0, pass.
Pass(passes, s, c) == \A j \in s + 1 .. s + c : passes[j]

\* A function as Scanned(passes), for the first n turns.
IsScan(f, passes, n) ==
    f = [k \in 0 .. n |-> IF k = 0 THEN [start |-> -1, cnt |-> 0, max |-> 0, at |-> 0]
                          ELSE Scan(f[k - 1], k - 1, passes[k])]

\* However many turns there are, there is such a function.
LEMMA ScanExists ==
  ASSUME NEW passes \in Seq(BOOLEAN), NEW n \in Nat
  PROVE  \E f : IsScan(f, passes, n)
<1> DEFINE T == {k \in Nat : ~ \E f : IsScan(f, passes, k)}
<1>1. SUFFICES ASSUME T # {} PROVE FALSE
  OBVIOUS
<1>2. PICK k \in T : \A y \in T : k <= y
  BY <1>1, LeastNat
<1>3. CASE k = 0
  <2> DEFINE f == [i \in 0 .. 0 |-> [start |-> -1, cnt |-> 0, max |-> 0, at |-> 0]]
  <2>1. f = [i \in 0 .. 0 |-> IF i = 0 THEN [start |-> -1, cnt |-> 0, max |-> 0, at |-> 0]
                              ELSE Scan(f[i - 1], i - 1, passes[i])]
    OBVIOUS
  <2>2. IsScan(f, passes, 0)
    BY <2>1 DEF IsScan
  <2>. QED  BY <1>2, <1>3, <2>2
<1>4. CASE k # 0
  <2>1. k - 1 \in Nat /\ k - 1 \notin T
    BY <1>2, <1>4
  <2>2. PICK f : IsScan(f, passes, k - 1)
    BY <2>1
  <2> DEFINE g == [i \in 0 .. k |-> IF i = k THEN Scan(f[k - 1], k - 1, passes[k]) ELSE f[i]]
  <2>3. \A i \in 0 .. k - 1 : g[i] = f[i]
    BY <1>2
  <2>4. g[k] = Scan(g[k - 1], k - 1, passes[k])
    <3>1. k \in 0 .. k /\ k - 1 \in 0 .. k - 1
      BY <2>1, <1>2
    <3>2. g[k] = Scan(f[k - 1], k - 1, passes[k])
      BY <3>1
    <3>3. g[k - 1] = f[k - 1]
      BY <3>1, <2>3
    <3>. QED  BY <3>2, <3>3
  <2>5. ASSUME NEW i \in 0 .. k
        PROVE  g[i] = IF i = 0 THEN [start |-> -1, cnt |-> 0, max |-> 0, at |-> 0]
                      ELSE Scan(g[i - 1], i - 1, passes[i])
    <3>1. CASE i = k
      BY <3>1, <2>4, <1>4
    <3>2. CASE i # k
      <4>1. i \in 0 .. k - 1 /\ (i # 0 => i - 1 \in 0 .. k - 1)
        BY <3>2, <1>2
      <4>2. f[i] = IF i = 0 THEN [start |-> -1, cnt |-> 0, max |-> 0, at |-> 0]
                   ELSE Scan(f[i - 1], i - 1, passes[i])
        BY <4>1, <2>2 DEF IsScan
      <4>. QED  BY <4>1, <4>2, <2>3
    <3>. QED  BY <3>1, <3>2
  <2>6. g = [i \in 0 .. k |-> g[i]]
    OBVIOUS
  <2> HIDE DEF g
  <2>7. IsScan(g, passes, k)
    BY <2>5, <2>6 DEF IsScan
  <2>. QED  BY <1>2, <2>7
<1>. QED  BY <1>3, <1>4

\* So the locals after each turn are those that the loop computes from the turn before.
LEMMA ScannedTurns ==
  ASSUME NEW passes \in Seq(BOOLEAN)
  PROVE  /\ Scanned(passes)[0] = [start |-> -1, cnt |-> 0, max |-> 0, at |-> 0]
         /\ \A k \in 1 .. Len(passes) :
                Scanned(passes)[k] = Scan(Scanned(passes)[k - 1], k - 1, passes[k])
<1>1. Len(passes) \in Nat
  OBVIOUS
<1>2. \E f : IsScan(f, passes, Len(passes))
  BY <1>1, ScanExists
<1>3. IsScan(Scanned(passes), passes, Len(passes))
  BY <1>2 DEF IsScan, Scanned
<1> DEFINE s == Scanned(passes)
<1> HIDE DEF s
<1>4. IsScan(s, passes, Len(passes))
  BY <1>3 DEF s
<1>5. /\ s[0] = [start |-> -1, cnt |-> 0, max |-> 0, at |-> 0]
      /\ \A k \in 1 .. Len(passes) : s[k] = Scan(s[k - 1], k - 1, passes[k])
  <2>1. 0 \in 0 .. Len(passes)
    BY <1>1
  <2>2. \A k \in 1 .. Len(passes) : k \in 0 .. Len(passes) /\ k # 0
    BY <1>1
  <2>. QED  BY <1>4, <2>1, <2>2 DEF IsScan
<1>. QED  BY <1>5 DEF s

----------------------------------------------------------------------------
(* The loop invariant.                                                     *)

\* After k turns: the open window is the last run of passing settings, and the best of the
\* windows that were shut is the longest window before it.
LoopInv(passes, k, a) ==
    /\ a \in [start : Int, cnt : 0 .. k, max : 0 .. k, at : Nat]
    /\ a.start = IF a.cnt = 0 THEN -1 ELSE k - a.cnt
    /\ Pass(passes, k - a.cnt, a.cnt)
    /\ a.cnt < k => ~passes[k - a.cnt]
    /\ a.at + a.max <= k /\ Pass(passes, a.at, a.max)
    /\ \A s, c \in Nat : s + c <= k - a.cnt /\ Pass(passes, s, c) => c <= a.max

\* Any window is as short as the open one or the best one.
LEMMA Longest ==
  ASSUME NEW passes \in Seq(BOOLEAN), NEW k \in Nat, NEW a, LoopInv(passes, k, a),
         NEW s \in Nat, NEW c \in Nat, s + c <= k, Pass(passes, s, c)
  PROVE  c <= a.cnt \/ c <= a.max
<1>1. a.cnt \in 0 .. k /\ a.max \in 0 .. k
  BY DEF LoopInv
<1>2. CASE s + c <= k - a.cnt
  BY <1>2 DEF LoopInv
<1>3. CASE s + c > k - a.cnt
  <2>1. CASE s >= k - a.cnt
    BY <1>1, <2>1
  <2>2. CASE s < k - a.cnt
    <3>1. k - a.cnt \in s + 1 .. s + c
      BY <1>1, <1>3, <2>2
    <3>2. passes[k - a.cnt]
      BY <3>1 DEF Pass
    <3>. QED  BY <1>1, <2>2, <3>2 DEF LoopInv
  <2>. QED  BY <1>1, <2>1, <2>2
<1>. QED  BY <1>1, <1>2, <1>3

LEMMA LoopIntro ==
  ASSUME NEW passes \in Seq(BOOLEAN), NEW k \in Nat,
         NEW a \in [start : Int, cnt : 0 .. k, max : 0 .. k, at : Nat],
         a.start = IF a.cnt = 0 THEN -1 ELSE k - a.cnt,
         Pass(passes, k - a.cnt, a.cnt),
         a.cnt < k => ~passes[k - a.cnt],
         a.at + a.max <= k, Pass(passes, a.at, a.max),
         \A s, c \in Nat : s + c <= k - a.cnt /\ Pass(passes, s, c) => c <= a.max
  PROVE  LoopInv(passes, k, a)
BY DEF LoopInv

LEMMA LoopStep ==
  ASSUME NEW passes \in Seq(BOOLEAN), NEW k \in Nat, k < Len(passes),
         NEW a, LoopInv(passes, k, a)
  PROVE  LoopInv(passes, k + 1, Scan(a, k, passes[k + 1]))
<1>0. /\ a \in [start : Int, cnt : 0 .. k, max : 0 .. k, at : Nat]
      /\ a.cnt \in 0 .. k /\ a.max \in 0 .. k /\ a.at \in Nat /\ a.start \in Int
      /\ passes[k + 1] \in BOOLEAN
  BY DEF LoopInv
<1>1. CASE passes[k + 1]
  <2> DEFINE b == [start |-> IF a.start = -1 THEN k ELSE a.start, cnt |-> a.cnt + 1,
                   max |-> a.max, at |-> a.at]
  <2>1. Scan(a, k, passes[k + 1]) = b
    BY <1>0, <1>1 DEF Scan
  <2>2. b.start = k + 1 - b.cnt
    BY <1>0 DEF LoopInv
  <2>3. k + 1 - b.cnt = k - a.cnt
    BY <1>0
  <2>4. Pass(passes, k + 1 - b.cnt, b.cnt)
    <3> SUFFICES ASSUME NEW j \in k + 1 - b.cnt + 1 .. k + 1 - b.cnt + b.cnt PROVE passes[j]
      BY DEF Pass
    <3>1. j = k + 1 \/ j \in k - a.cnt + 1 .. k - a.cnt + a.cnt
      BY <1>0
    <3>. QED  BY <3>1, <1>1 DEF LoopInv, Pass
  <2>5. b \in [start : Int, cnt : 0 .. k + 1, max : 0 .. k + 1, at : Nat]
    BY <1>0
  <2>6. b.cnt < k + 1 => ~passes[k + 1 - b.cnt]
    BY <1>0, <2>3 DEF LoopInv
  <2>7. b.at + b.max <= k + 1 /\ Pass(passes, b.at, b.max)
    BY <1>0 DEF LoopInv
  <2>8. \A s, c \in Nat : s + c <= k + 1 - b.cnt /\ Pass(passes, s, c) => c <= b.max
    BY <2>3 DEF LoopInv
  <2>9. b.cnt # 0
    BY <1>0
  <2> HIDE DEF b
  <2>10. LoopInv(passes, k + 1, b)
    <3>1. k + 1 \in Nat /\ b \in [start : Int, cnt : 0 .. k + 1, max : 0 .. k + 1, at : Nat]
      BY <2>5
    <3>2. /\ b.start = IF b.cnt = 0 THEN -1 ELSE k + 1 - b.cnt
          /\ Pass(passes, k + 1 - b.cnt, b.cnt)
          /\ b.cnt < k + 1 => ~passes[k + 1 - b.cnt]
          /\ b.at + b.max <= k + 1
      BY <2>2, <2>4, <2>6, <2>7, <2>9
    <3>3. Pass(passes, b.at, b.max)
      BY <2>7
    <3>. QED  BY ONLY <3>1, <3>2, <3>3, <2>8, LoopIntro, SMTT(60)
  <2>. QED  BY <2>1, <2>10
<1>2. CASE ~passes[k + 1]
  <2> DEFINE longer == a.cnt > a.max
             b == [start |-> -1, cnt |-> 0, max |-> IF longer THEN a.cnt ELSE a.max,
                   at |-> IF longer THEN a.start ELSE a.at]
  <2>1. Scan(a, k, passes[k + 1]) = b
    BY <1>0, <1>2 DEF Scan
  <2>2. /\ b \in [start : Int, cnt : 0 .. k + 1, max : 0 .. k + 1, at : Nat]
        /\ b.at + b.max <= k
        /\ longer => b.at = k - a.cnt /\ b.max = a.cnt
    BY <1>0 DEF LoopInv
  <2>3. Pass(passes, b.at, b.max)
    BY <1>0, <2>2 DEF LoopInv
  <2>4. Pass(passes, k + 1, 0)
    BY DEF Pass
  <2>5. ASSUME NEW s \in Nat, NEW c \in Nat, s + c <= k + 1, Pass(passes, s, c)
        PROVE  c <= b.max
    <3>1. CASE c = 0
      BY <3>1, <2>2
    <3>2. CASE s + c <= k
      <4>1. c <= a.cnt \/ c <= a.max
        BY <2>5, <3>2, Longest
      <4>. QED  BY <4>1, <1>0
    <3>3. CASE c # 0 /\ s + c = k + 1
      <4>1. k + 1 \in s + 1 .. s + c
        BY <3>3
      <4>. QED  BY <4>1, <1>2, <2>5 DEF Pass
    <3>. QED  BY <2>5, <3>1, <3>2, <3>3
  <2>6. b.cnt = 0 /\ b.start = -1
    OBVIOUS
  <2> HIDE DEF b
  <2>7. /\ b.start = IF b.cnt = 0 THEN -1 ELSE k + 1 - b.cnt
        /\ Pass(passes, k + 1 - b.cnt, b.cnt)
        /\ b.cnt < k + 1 => ~passes[k + 1 - b.cnt]
        /\ b.at + b.max <= k + 1
    BY <1>0, <1>2, <2>2, <2>4, <2>6
  <2>8. \A s, c \in Nat : s + c <= k + 1 - b.cnt /\ Pass(passes, s, c) => c <= b.max
    BY <2>5, <2>6
  <2>9. LoopInv(passes, k + 1, b)
    <3>1. k + 1 \in Nat /\ b \in [start : Int, cnt : 0 .. k + 1, max : 0 .. k + 1, at : Nat]
      BY <2>2
    <3>. QED  BY ONLY <3>1, <2>3, <2>7, <2>8, LoopIntro, SMTT(60)
  <2>. QED  BY <2>1, <2>9
<1>. QED  BY <1>0, <1>1, <1>2

LEMMA LoopHolds ==
  ASSUME NEW passes \in Seq(BOOLEAN), NEW n \in 0 .. Len(passes)
  PROVE  LoopInv(passes, n, Scanned(passes)[n])
<1> DEFINE T == {k \in 0 .. Len(passes) : ~LoopInv(passes, k, Scanned(passes)[k])}
<1>0. Len(passes) \in Nat
  OBVIOUS
<1>1. SUFFICES ASSUME T # {} PROVE FALSE
  OBVIOUS
<1>t. T \in SUBSET Nat
  BY <1>0
<1>2. PICK k \in T : \A y \in T : k <= y
  BY <1>t, <1>1, LeastNat
<1>3. CASE k = 0
  <2>1. LoopInv(passes, 0, [start |-> -1, cnt |-> 0, max |-> 0, at |-> 0])
    BY DEF LoopInv, Pass
  <2>. QED  BY <1>2, <1>3, <2>1, ScannedTurns
<1>4. CASE k # 0
  <2>1. k - 1 \in Nat /\ k - 1 < Len(passes) /\ k - 1 \notin T /\ k \in 1 .. Len(passes)
    BY <1>0, <1>2, <1>4
  <2>2. LoopInv(passes, k - 1, Scanned(passes)[k - 1])
    BY <1>0, <2>1
  <2>3. LoopInv(passes, k - 1 + 1, Scan(Scanned(passes)[k - 1], k - 1, passes[k - 1 + 1]))
    BY <2>1, <2>2, LoopStep
  <2>4. k - 1 + 1 = k
    BY <2>1
  <2>. QED  BY <1>2, <2>1, <2>3, <2>4, ScannedTurns
<1>. QED  BY <1>3, <1>4

\* ad9361_find_opt (ad9361.c:942) answers with a window of the sweep, all settings of which
\* pass, and no window is longer: the delays and the phase are chosen in the widest eye.
THEOREM FindOptLongest ==
  ASSUME NEW passes \in Seq(BOOLEAN)
  PROVE  /\ FindOpt(passes).start \in Nat /\ FindOpt(passes).cnt \in Nat
         /\ FindOpt(passes).start + FindOpt(passes).cnt <= Len(passes)
         /\ Pass(passes, FindOpt(passes).start, FindOpt(passes).cnt)
         /\ \A s, c \in Nat : s + c <= Len(passes) /\ Pass(passes, s, c) => c <= FindOpt(passes).cnt
<1> DEFINE n == Len(passes)
           a == Scanned(passes)[n]
           w == FindOpt(passes)
<1>1. n \in Nat /\ n \in 0 .. Len(passes)
  OBVIOUS
<1>2. LoopInv(passes, n, a)
  BY <1>1, LoopHolds
<1>3. w = IF a.cnt > a.max THEN [start |-> a.start, cnt |-> a.cnt]
          ELSE [start |-> a.at, cnt |-> a.max]
  BY DEF FindOpt
<1> HIDE DEF w, a
<1>4. a.cnt \in 0 .. n /\ a.max \in 0 .. n /\ a.at \in Nat
  BY <1>2 DEF LoopInv
<1>5. /\ w.start \in Nat /\ w.cnt \in Nat /\ w.start + w.cnt <= n
      /\ Pass(passes, w.start, w.cnt)
  <2>1. CASE a.cnt > a.max
    <3>1. w.start = n - a.cnt /\ w.cnt = a.cnt
      BY <1>2, <1>3, <1>4, <2>1 DEF LoopInv
    <3>. QED  BY <3>1, <1>1, <1>2, <1>4 DEF LoopInv
  <2>2. CASE ~ (a.cnt > a.max)
    <3>1. w.start = a.at /\ w.cnt = a.max
      BY <1>3, <2>2
    <3>. QED  BY <3>1, <1>2, <1>4 DEF LoopInv
  <2>. QED  BY <2>1, <2>2
<1>6. w.cnt >= a.cnt /\ w.cnt >= a.max
  BY <1>3, <1>4
<1>7. ASSUME NEW s \in Nat, NEW c \in Nat, s + c <= n, Pass(passes, s, c) PROVE c <= w.cnt
  <2>1. c <= a.cnt \/ c <= a.max
    BY <1>1, <1>2, <1>7, Longest
  <2>. QED  BY <2>1, <1>4, <1>5, <1>6
<1>. QED  BY <1>5, <1>7 DEF w

----------------------------------------------------------------------------
(* The enable state machine.                                               *)

\* What moving the machine leaves alone.
Same(e, f) ==
    /\ f.mode = e.mode /\ f.clocks = e.clocks /\ f.fdd = e.fdd
    /\ f.indep = e.indep /\ f.curr = e.curr

----------------------------------------------------------------------------
(* The chip.                                                               *)

LEMMA EnsmFields ==
  ASSUME NEW e \in Ensms
  PROVE  /\ e.state \in States /\ e.cfg \in SUBSET Bits /\ e.mode \in BOOLEAN
         /\ e.clocks \in BOOLEAN /\ e.fdd \in BOOLEAN /\ e.indep \in BOOLEAN
         /\ e.prev \in States /\ e.pinEn \in BOOLEAN /\ e.curr \in States \cup {"sleep"}
BY DEF Ensms

LEMMA LeavingAlert ==
  ASSUME NEW e \in Ensms, NEW b \in SUBSET Bits
  PROVE  /\ "ForceTx" \in b /\ e.mode => FromAlert(e, b) = "fdd"
         /\ "ForceTx" \in b /\ ~e.mode => FromAlert(e, b) = "tx"
         /\ "ForceRx" \in b /\ "ForceTx" \notin b /\ ~e.mode => FromAlert(e, b) = "rx"
         /\ "ForceTx" \notin b /\ (e.mode \/ "ForceRx" \notin b) =>
                FromAlert(e, b) = IF b \cap {"ToAlert", "ForceAlert", "PinCtrl"} = {}
                                  THEN "wait" ELSE "alert"
<1>1. "ForceTx" \notin b <=> b \cap {"ForceTx", "ForceRx"} \subseteq {"ForceRx"}
  OBVIOUS
<1>2. e.mode \in BOOLEAN
  BY EnsmFields
<1>. QED  BY <1>1, <1>2 DEF FromAlert

LEMMA AlertType ==
  ASSUME NEW e \in Ensms, NEW b \in SUBSET Bits
  PROVE  FromAlert(e, b) \in States /\ Fits(FromAlert(e, b), e.mode)
BY EnsmFields, LeavingAlert DEF States, Active, Fits

LEMMA Settling ==
  ASSUME NEW e \in Ensms, NEW b \in SUBSET Bits
  PROVE  /\ ~e.clocks => Settled(e, b) = e.state
         /\ e.clocks /\ e.state = "wait" =>
                Settled(e, b) = IF b \cap {"ToAlert", "ForceAlert"} = {} THEN "wait"
                                ELSE FromAlert(e, b)
         /\ e.clocks /\ e.state = "alert" => Settled(e, b) = FromAlert(e, b)
         /\ e.clocks /\ e.state \in Active =>
                Settled(e, b) = IF "ForceAlert" \in b THEN "alert"
                                ELSE IF Holding(e.state) \in b \/ "PinCtrl" \in b THEN e.state
                                ELSE IF "ToAlert" \in b THEN "alert" ELSE "wait"
         /\ Settled(e, b) \in States
         /\ Fits(e.state, e.mode) => Fits(Settled(e, b), e.mode)
<1>1. e.state \in {"wait", "alert", "tx", "rx", "fdd"} /\ e.clocks \in BOOLEAN
  BY EnsmFields DEF States, Active
<1>2. FromAlert(e, b) \in States /\ Fits(FromAlert(e, b), e.mode)
  BY AlertType
<1>3. CASE ~e.clocks
  BY <1>1, <1>3 DEF Settled, States, Active
<1>4. CASE e.clocks /\ e.state = "wait"
  BY <1>2, <1>4 DEF Settled, States, Active, Fits
<1>5. CASE e.clocks /\ e.state = "alert"
  BY <1>2, <1>5 DEF Settled, States, Active, Fits
<1>6. CASE e.clocks /\ e.state \in Active
  BY <1>1, <1>6 DEF Settled, States, Active, Fits
<1>. QED  BY <1>1, <1>3, <1>4, <1>5, <1>6 DEF Active

LEMMA WriteFields ==
  ASSUME NEW e \in Ensms, NEW b \in SUBSET Bits
  PROVE  /\ Write(e, b) \in Ensms
         /\ Write(e, b).cfg = b /\ Write(e, b).state = Settled(e, b)
         /\ Same(e, Write(e, b))
         /\ Write(e, b).prev = e.prev /\ Write(e, b).pinEn = e.pinEn
<1>1. Settled(e, b) \in States
  BY Settling
<1>. QED  BY <1>1 DEF Write, Ensms, Same

LEMMA WriteConsistent ==
  ASSUME NEW e \in Ensms, NEW b \in SUBSET Bits
  PROVE  /\ Sane(e) => Sane(Write(e, b))
         /\ Consistent(e) => Consistent(Write(e, b))
BY WriteFields, Settling DEF Sane, Consistent, Same

\* Forced to it, a machine with clocks is in ALERT.
LEMMA ForcedAlert ==
  ASSUME NEW e \in Ensms, NEW b \in SUBSET Bits, e.clocks,
         "ForceAlert" \in b, "ForceTx" \notin b, "ForceRx" \notin b
  PROVE  Write(e, b).state = "alert"
<1>1. FromAlert(e, b) = "alert"
  BY LeavingAlert, EnsmFields
<1>2. e.state \in {"wait", "alert", "tx", "rx", "fdd"}
  BY EnsmFields DEF States, Active
<1>. QED  BY <1>1, <1>2, WriteFields, Settling DEF Active

LEMMA ToAlertFields ==
  ASSUME NEW e, Sane(e)
  PROVE  /\ Consistent(ToAlert(e)) /\ Same(e, ToAlert(e))
         /\ ToAlert(e).state = IF e.clocks THEN "alert" ELSE "wait"
         /\ ToAlert(e).cfg = {"ToAlert", "ForceAlert"}
         /\ ToAlert(e).prev = e.prev /\ ToAlert(e).pinEn = e.pinEn
<1> DEFINE b == {"ToAlert", "ForceAlert"}
<1>1. e \in Ensms /\ b \in SUBSET Bits
  BY DEF Sane, Bits
<1>2. e.clocks => Write(e, b).state = "alert"
  BY <1>1, ForcedAlert
<1>3. ~e.clocks => Write(e, b).state = "wait"
  BY <1>1, WriteFields, Settling DEF Sane
<1>4. Sane(Write(e, b)) /\ Same(e, Write(e, b))
  BY <1>1, WriteFields, WriteConsistent
<1>. QED  BY <1>1, <1>2, <1>3, <1>4, WriteFields DEF ToAlert, Consistent, Fits

----------------------------------------------------------------------------
(* The driver.                                                             *)

\* The calibration of a charge pump leaves ALERT, and FDD, behind.
LEMMA CpCalibFields ==
  ASSUME NEW e, Sane(e)
  PROVE  LET c == CpCalib(e)
         IN  /\ Consistent(c) /\ Same([e EXCEPT !.mode = TRUE], c)
             /\ c.state = IF e.clocks THEN "alert" ELSE "wait"
             /\ c.cfg = {"ToAlert", "ForceAlert"} /\ c.prev = e.prev /\ c.pinEn = e.pinEn
<1> DEFINE m == [e EXCEPT !.mode = TRUE]
<1>1. Sane(m) /\ m.clocks = e.clocks /\ m.prev = e.prev /\ m.pinEn = e.pinEn
  BY DEF Sane, Ensms
<1>2. CpCalib(e) = ToAlert(m)
  BY DEF CpCalib, SetEnsmMode
<1> HIDE DEF m
<1>3. /\ Consistent(ToAlert(m)) /\ Same(m, ToAlert(m))
      /\ ToAlert(m).state = IF m.clocks THEN "alert" ELSE "wait"
      /\ ToAlert(m).cfg = {"ToAlert", "ForceAlert"}
      /\ ToAlert(m).prev = m.prev /\ ToAlert(m).pinEn = m.pinEn
  BY <1>1, ToAlertFields
<1>. QED  BY <1>1, <1>2, <1>3 DEF m

LEMMA TargetType ==
  ASSUME NEW s \in States
  PROVE  /\ Target(s) \in SUBSET Bits
         /\ Target(s) = IF s \in {"tx", "fdd"} THEN {"ForceTx"}
                        ELSE IF s = "rx" THEN {"ForceRx"}
                        ELSE IF s = "alert" THEN {"ToAlert", "ForceAlert"} ELSE {}
BY DEF States, Active, Target, Bits

\* ad9361_ensm_force_state(phy, ENSM_STATE_ALERT): prev_ensm_state is where the machine was,
\* and whether the pins had control is known unless the machine was in ALERT already.
LEMMA ForceAlertFields ==
  ASSUME NEW e, Sane(e)
  PROVE  /\ Consistent(ForceState(e, "alert")) /\ Same(e, ForceState(e, "alert"))
         /\ ForceState(e, "alert").state = IF e.clocks THEN "alert" ELSE "wait"
         /\ ForceState(e, "alert").prev = e.state
         /\ e.state = "alert" => /\ ForceState(e, "alert").cfg = e.cfg
                                 /\ ForceState(e, "alert").pinEn = e.pinEn
         /\ e.state # "alert" => /\ "PinCtrl" \notin ForceState(e, "alert").cfg
                                 /\ ForceState(e, "alert").pinEn = ("PinCtrl" \in e.cfg)
<1>0. e \in Ensms /\ e.state \in States /\ e.cfg \in SUBSET Bits
  BY EnsmFields DEF Sane
<1>1. CASE e.state = "alert"
  <2> DEFINE f == [e EXCEPT !.prev = e.state]
  <2>1. ForceState(e, "alert") = f
    BY <1>1 DEF ForceState
  <2>2. /\ f \in Ensms /\ Same(e, f) /\ f.state = e.state /\ f.prev = e.state
        /\ f.cfg = e.cfg /\ f.pinEn = e.pinEn
    BY <1>0 DEF Ensms, Same
  <2>. QED  BY <1>1, <2>1, <2>2 DEF Sane, Consistent, Fits, Same
<1>2. CASE e.state # "alert"
  <2> DEFINE f == [e EXCEPT !.prev = e.state, !.pinEn = "PinCtrl" \in e.cfg]
             base == (e.cfg \ {"PinCtrl"}) \ (IF e.state # "wait" THEN {"ToAlert"} ELSE {})
             bits == (base \ {"ForceTx", "ForceRx"}) \cup {"ToAlert", "ForceAlert"}
  <2>1. /\ f \in Ensms /\ Same(e, f) /\ f.state = e.state /\ f.prev = e.state
        /\ f.cfg = e.cfg /\ f.pinEn = ("PinCtrl" \in e.cfg)
    <3>1. PICK p \in BOOLEAN : p = ("PinCtrl" \in e.cfg)
      <4>1. ("PinCtrl" \in e.cfg) \in BOOLEAN
        OBVIOUS
      <4>. QED  BY <4>1, Zenon
    <3> DEFINE x == [e EXCEPT !.prev = e.state, !.pinEn = p]
    <3>2. /\ x \in Ensms /\ Same(e, x) /\ x.state = e.state /\ x.prev = e.state
          /\ x.cfg = e.cfg /\ x.pinEn = p
      BY <1>0 DEF Ensms, Same
    <3>3. f = x
      BY <3>1
    <3> HIDE DEF x, f
    <3>. QED  BY <3>1, <3>2, <3>3
  <2>2. Sane(f)
    BY <2>1 DEF Sane, Same
  <2>3. bits \in SUBSET Bits
    BY <1>0 DEF Bits
  <2>4. Target("alert") = {"ToAlert", "ForceAlert"}
    BY TargetType DEF States
  <2>5. ForceState(e, "alert") = Write(ToAlert(f), bits)
    BY <1>2, <2>4 DEF ForceState
  <2> DEFINE g == ToAlert(f)
  <2>6. /\ Consistent(g) /\ Same(f, g) /\ g.prev = f.prev /\ g.pinEn = f.pinEn
        /\ g.state = IF f.clocks THEN "alert" ELSE "wait"
    BY <2>2, ToAlertFields
  <2> HIDE DEF g, f, bits
  <2>7. g \in Ensms
    BY <2>6 DEF Consistent, Sane
  <2>8. "ForceAlert" \in bits /\ "ForceTx" \notin bits /\ "ForceRx" \notin bits /\ "PinCtrl" \notin bits
    BY DEF bits
  <2> DEFINE h == Write(g, bits)
  <2>9. Consistent(h) /\ Same(g, h) /\ h.prev = g.prev /\ h.pinEn = g.pinEn /\ h.cfg = bits
    BY <2>3, <2>6, <2>7, WriteFields, WriteConsistent
  <2>10. h.state = IF g.clocks THEN "alert" ELSE "wait"
    BY <2>3, <2>6, <2>7, <2>8, <2>9, ForcedAlert, EnsmFields DEF Consistent, Sane, Same
  <2> HIDE DEF h
  <2>11. ForceState(e, "alert") = h
    BY <2>5 DEF h, g
  <2>. QED  BY <1>2, <2>1, <2>6, <2>8, <2>9, <2>10, <2>11 DEF Same
<1>. QED  BY <1>1, <1>2

\* ad9361_ensm_restore_state: a machine with clocks gets to a state that its mode has, and
\* pin control is as it was before the force, or on again if an older force found it so.
LEMMA RestoreFields ==
  ASSUME NEW e, Sane(e), NEW s \in States, s # "wait"
  PROVE  /\ Consistent(Restore(e, s)) /\ Same(e, Restore(e, s))
         /\ e.clocks /\ Fits(s, e.mode) => Restore(e, s).state = s
         /\ "PinCtrl" \in Restore(e, s).cfg <=> "PinCtrl" \in e.cfg \/ e.pinEn
         /\ Restore(e, s).prev = e.prev /\ Restore(e, s).pinEn = e.pinEn
<1> DEFINE t == Target(s) \ {"ForceAlert"}
           bits == (e.cfg \ Forces) \cup {"ToAlert"} \cup t
           more == bits \cup IF e.pinEn THEN {"PinCtrl"} ELSE {}
<1>0. e \in Ensms /\ e.cfg \in SUBSET Bits /\ e.pinEn \in BOOLEAN /\ e.mode \in BOOLEAN
  BY EnsmFields DEF Sane
<1>1. Restore(e, s) = Write(Write(ToAlert(e), bits), more)
  BY DEF Restore
<1>2. t = IF s \in {"tx", "fdd"} THEN {"ForceTx"} ELSE IF s = "rx" THEN {"ForceRx"}
          ELSE {"ToAlert"}
  BY TargetType DEF States, Active
<1> HIDE DEF t
<1>3. /\ bits \in SUBSET Bits /\ more \in SUBSET Bits
      /\ "ForceAlert" \notin bits /\ "ForceAlert" \notin more /\ "ToAlert" \in bits
      /\ "PinCtrl" \in bits <=> "PinCtrl" \in e.cfg
      /\ "PinCtrl" \in more <=> "PinCtrl" \in e.cfg \/ e.pinEn
  BY <1>0, <1>2 DEF Bits, Forces
<1>4. /\ "ForceTx" \in bits <=> s \in {"tx", "fdd"}
      /\ "ForceTx" \in more <=> s \in {"tx", "fdd"}
      /\ "ForceRx" \in bits <=> s = "rx"
      /\ "ForceRx" \in more <=> s = "rx"
      /\ "ToAlert" \in more
  BY <1>2 DEF Forces
<1> HIDE DEF bits, more
<1> DEFINE g == ToAlert(e)
           h == Write(g, bits)
           r == Write(h, more)
<1>5. /\ Consistent(g) /\ Same(e, g) /\ g.prev = e.prev /\ g.pinEn = e.pinEn
      /\ g.state = IF e.clocks THEN "alert" ELSE "wait"
  BY ToAlertFields
<1> HIDE DEF g
<1>6. g \in Ensms
  BY <1>5 DEF Consistent, Sane
<1>7. /\ h \in Ensms /\ Consistent(h) /\ Same(g, h) /\ h.prev = g.prev /\ h.pinEn = g.pinEn
      /\ h.state = Settled(g, bits)
  BY <1>3, <1>5, <1>6, WriteFields, WriteConsistent
<1> HIDE DEF h
<1>8. /\ r \in Ensms /\ Consistent(r) /\ Same(h, r) /\ r.prev = h.prev /\ r.pinEn = h.pinEn
      /\ r.state = Settled(h, more) /\ r.cfg = more
  BY <1>3, <1>7, WriteFields, WriteConsistent
<1>9. ASSUME e.clocks, Fits(s, e.mode) PROVE r.state = s
  <2>1. s \in {"alert", "tx", "rx", "fdd"}
    BY DEF States, Active
  <2>2. g.clocks /\ h.clocks /\ g.mode = e.mode /\ h.mode = e.mode /\ g.state = "alert"
    BY <1>5, <1>7, <1>9 DEF Same
  <2>3. FromAlert(g, bits) = s
    BY <1>0, <1>3, <1>4, <1>6, <1>9, <2>1, <2>2, LeavingAlert DEF Fits
  <2>4. h.state = s
    BY <1>3, <1>6, <1>7, <2>2, <2>3, Settling
  <2>5. CASE s = "alert"
    <3>1. FromAlert(h, more) = s
      BY <1>3, <1>4, <1>7, <2>5, LeavingAlert
    <3>. QED  BY <1>3, <1>7, <1>8, <2>2, <2>4, <2>5, <3>1, Settling
  <2>6. CASE s \in Active
    <3>1. Holding(h.state) \in more
      BY <1>4, <2>4, <2>6 DEF Holding, Active
    <3>. QED  BY <1>3, <1>7, <1>8, <2>2, <2>4, <2>6, <3>1, Settling
  <2>. QED  BY <2>1, <2>5, <2>6 DEF Active
<1> HIDE DEF r
<1>10. Restore(e, s) = r
  BY <1>1 DEF r, h, g
<1>. QED  BY <1>3, <1>5, <1>7, <1>8, <1>9, <1>10 DEF Same

\* ad9361_ensm_force_state(phy, ENSM_STATE_FDD), which the tuning of the interface ends with.
LEMMA ForceFddSane ==
  ASSUME NEW e, Sane(e)
  PROVE  Sane(ForceState(e, "fdd")) /\ Same(e, ForceState(e, "fdd"))
<1> DEFINE saved == [e EXCEPT !.prev = e.state]
           f == [saved EXCEPT !.pinEn = "PinCtrl" \in e.cfg]
           base == (e.cfg \ {"PinCtrl"}) \ (IF e.state # "wait" THEN {"ToAlert"} ELSE {})
           bits == base \cup Target("fdd")
<1>0. e \in Ensms /\ e.state \in States /\ e.cfg \in SUBSET Bits
  BY EnsmFields DEF Sane
<1>1. saved \in Ensms /\ Same(e, saved) /\ saved.state = e.state
  BY <1>0 DEF Ensms, Same
<1>2. f \in Ensms /\ Same(e, f) /\ f.state = e.state
  <2>1. PICK p \in BOOLEAN : p = ("PinCtrl" \in e.cfg)
    <3>1. ("PinCtrl" \in e.cfg) \in BOOLEAN
      OBVIOUS
    <3>. QED  BY <3>1, Zenon
  <2> DEFINE x == [saved EXCEPT !.pinEn = p]
  <2>2. x \in Ensms /\ Same(e, x) /\ x.state = e.state
    BY <1>0 DEF Ensms, Same
  <2>3. f = x
    BY <2>1
  <2> HIDE DEF x, f
  <2>. QED  BY <2>2, <2>3
<1>3. bits \in SUBSET Bits
  BY <1>0, TargetType DEF Bits, States, Active
<1>4. ForceState(e, "fdd") = IF e.state = "fdd" THEN saved ELSE Write(ToAlert(f), bits)
  BY DEF ForceState
<1> HIDE DEF saved, f, bits
<1>5. Sane(saved) /\ Sane(f)
  BY <1>1, <1>2 DEF Sane, Same
<1> DEFINE g == ToAlert(f)
<1>6. Sane(g) /\ g \in Ensms /\ Same(f, g)
  BY <1>5, ToAlertFields DEF Consistent, Sane
<1> HIDE DEF g
<1>7. Sane(Write(g, bits)) /\ Same(g, Write(g, bits))
  BY <1>3, <1>6, WriteFields, WriteConsistent
<1>. QED  BY <1>1, <1>2, <1>4, <1>5, <1>6, <1>7 DEF g, Same

\* The bracket of the callers that move the machine to ALERT and back at once.
LEMMA InAlertFields ==
  ASSUME NEW e, Sane(e)
  PROVE  /\ Consistent(InAlert(e)) /\ Same(e, InAlert(e))
         /\ e.state = "wait" => /\ InAlert(e).state = IF e.clocks THEN "alert" ELSE "wait"
                                /\ "PinCtrl" \notin InAlert(e).cfg
                                /\ InAlert(e).pinEn = ("PinCtrl" \in e.cfg)
         /\ e.state = "alert" => /\ InAlert(e).state = "alert"
                                 /\ "PinCtrl" \in InAlert(e).cfg <=> "PinCtrl" \in e.cfg \/ e.pinEn
                                 /\ InAlert(e).pinEn = e.pinEn
         /\ e.state \in Active => ("PinCtrl" \in InAlert(e).cfg <=> "PinCtrl" \in e.cfg)
<1> DEFINE f == ForceState(e, "alert")
<1>1. /\ Consistent(f) /\ Same(e, f) /\ f.prev = e.state
      /\ f.state = IF e.clocks THEN "alert" ELSE "wait"
      /\ e.state = "alert" => f.cfg = e.cfg /\ f.pinEn = e.pinEn
      /\ e.state # "alert" => "PinCtrl" \notin f.cfg /\ f.pinEn = ("PinCtrl" \in e.cfg)
  BY ForceAlertFields
<1>2. InAlert(e) = Restore(f, f.prev)
  BY DEF InAlert, RestorePrev
<1> HIDE DEF f
<1>3. e.state \in {"wait", "alert", "tx", "rx", "fdd"} /\ e.clocks \in BOOLEAN
      /\ (e.state # "wait" => e.clocks)
  BY EnsmFields DEF Sane, States, Active
<1>4. CASE e.state = "wait"
  <2>1. InAlert(e) = f
    BY <1>1, <1>2, <1>4 DEF Restore
  <2>. QED  BY <1>1, <1>4, <2>1 DEF Active
<1>5. CASE e.state # "wait"
  <2>0. e.state \in States /\ Sane(f)
    BY <1>1, <1>3 DEF States, Active, Consistent
  <2> DEFINE r == Restore(f, e.state)
  <2>1. /\ Consistent(r) /\ Same(f, r)
        /\ f.clocks /\ Fits(e.state, f.mode) => r.state = e.state
        /\ "PinCtrl" \in r.cfg <=> "PinCtrl" \in f.cfg \/ f.pinEn
        /\ r.pinEn = f.pinEn
    BY <1>5, <2>0, RestoreFields
  <2>2. InAlert(e) = r
    BY <1>1, <1>2
  <2> HIDE DEF r
  <2>3. Same(e, r)
    BY <1>1, <2>1 DEF Same
  <2>4. CASE e.state = "alert"
    <3>1. r.state = "alert"
      BY <1>1, <1>3, <2>1, <2>4 DEF Same, Fits
    <3>. QED  BY <1>1, <2>1, <2>2, <2>3, <2>4, <3>1 DEF Active
  <2>5. CASE e.state # "alert"
    BY <1>1, <1>5, <2>1, <2>2, <2>3, <2>5 DEF Active
  <2>. QED  BY <2>4, <2>5
<1>. QED  BY <1>4, <1>5

\* After the tuning of the interface and the end of ad9361_post_setup.
LEMMA PostSetupFields ==
  ASSUME NEW e, Sane(e)
  PROVE  LET p == InAlert(Tuned(e))
         IN  /\ Consistent(p) /\ p.mode = e.fdd /\ p.clocks = e.clocks /\ p.fdd = e.fdd
             /\ p.indep = e.indep /\ p.curr = e.curr
<1>0. e \in Ensms /\ e.state \in States
  BY EnsmFields DEF Sane
<1> DEFINE a == SetEnsmMode(e, TRUE)
           b == ForceState(a, "alert")
           c == ForceState(b, "fdd")
           d == SetEnsmMode(c, e.fdd)
           t == Restore(d, e.state)
<1>1. /\ Sane(a) /\ a.mode = TRUE /\ a.clocks = e.clocks /\ a.fdd = e.fdd
      /\ a.indep = e.indep /\ a.curr = e.curr
  BY <1>0 DEF SetEnsmMode, Sane, Ensms
<1> HIDE DEF a
<1>2. Sane(b) /\ Same(a, b)
  BY <1>1, ForceAlertFields DEF Consistent
<1> HIDE DEF b
<1>3. Sane(c) /\ Same(b, c)
  BY <1>2, ForceFddSane
<1> HIDE DEF c
<1>4. /\ Sane(d) /\ d.mode = e.fdd /\ d.clocks = c.clocks /\ d.fdd = c.fdd
      /\ d.indep = c.indep /\ d.curr = c.curr
  <2>1. c \in Ensms /\ e.fdd \in BOOLEAN
    BY <1>0, <1>3, EnsmFields DEF Sane
  <2>. QED  BY <1>3, <2>1 DEF SetEnsmMode, Sane, Ensms
<1> HIDE DEF d
<1>5. Sane(t) /\ Same(d, t)
  <2>1. CASE e.state = "wait"
    BY <1>4, <2>1 DEF Restore, Same
  <2>2. CASE e.state # "wait"
    BY <1>0, <1>4, <2>2, RestoreFields DEF Consistent
  <2>. QED  BY <2>1, <2>2
<1>6. Tuned(e) = t
  BY DEF Tuned, SetIntfDelay, a, b, c, d
<1> HIDE DEF t
<1>7. Consistent(InAlert(t)) /\ Same(t, InAlert(t))
  BY <1>5, InAlertFields
<1>. QED  BY <1>1, <1>2, <1>3, <1>4, <1>5, <1>6, <1>7 DEF Same

----------------------------------------------------------------------------
(* ad9361_ensm_set_state.                                                  *)

LEMMA WokenFields ==
  ASSUME NEW e, Consistent(e), e.clocks \/ e.curr = "sleep"
  PROVE  /\ Consistent(Woken(e)) /\ Woken(e).clocks /\ Woken(e).mode = e.mode
         /\ Woken(e).fdd = e.fdd /\ Woken(e).indep = e.indep /\ Woken(e).curr = e.curr
         /\ e.curr # "sleep" => Woken(e) = e
<1>1. CASE e.curr = "sleep"
  <2> DEFINE f == [e EXCEPT !.clocks = TRUE]
  <2>1. /\ Sane(f) /\ f.clocks /\ f.mode = e.mode /\ f.fdd = e.fdd /\ f.indep = e.indep
        /\ f.curr = e.curr
    BY DEF Consistent, Sane, Ensms
  <2>2. Woken(e) = ToAlert(f)
    BY <1>1 DEF Woken
  <2> HIDE DEF f
  <2>. QED  BY <1>1, <2>1, <2>2, ToAlertFields DEF Same
<1>2. CASE e.curr # "sleep"
  BY <1>2 DEF Woken
<1>. QED  BY <1>1, <1>2

LEMMA SleptFields ==
  ASSUME NEW e, Consistent(e), e.clocks
  PROVE  /\ Consistent(Slept(e)) /\ ~Slept(e).clocks /\ Slept(e).curr = "sleep"
         /\ Slept(e).mode = e.mode /\ Slept(e).fdd = e.fdd /\ Slept(e).indep = e.indep
<1> DEFINE b == Target(IF e.fdd THEN "fdd" ELSE "rx")
           f == Write(e, {})
           g == Write(f, b)
           h == Write(g, {})
<1>0. e \in Ensms /\ e.state \in {"wait", "alert", "tx", "rx", "fdd"}
  BY EnsmFields DEF Consistent, Sane, States, Active
<1>1. b \in SUBSET Bits /\ "ToAlert" \notin b /\ "ForceAlert" \notin b /\ {} \in SUBSET Bits
  BY TargetType DEF States, Active
<1>2. f \in Ensms /\ Same(e, f) /\ Consistent(f) /\ f.state = "wait"
  <2>1. f \in Ensms /\ Same(e, f) /\ Consistent(f) /\ f.state = Settled(e, {})
    BY <1>0, <1>1, WriteFields, WriteConsistent
  <2>2. FromAlert(e, {}) = "wait"
    BY <1>0, LeavingAlert
  <2>. QED  BY <1>0, <1>1, <2>1, <2>2, Settling DEF Active
<1> HIDE DEF f, b
<1>3. g \in Ensms /\ Same(f, g) /\ Consistent(g) /\ g.state = "wait"
  <2>1. g \in Ensms /\ Same(f, g) /\ Consistent(g) /\ g.state = Settled(f, b)
    BY <1>1, <1>2, WriteFields, WriteConsistent
  <2>2. f.clocks /\ b \cap {"ToAlert", "ForceAlert"} = {}
    BY <1>1, <1>2 DEF Same
  <2>. QED  BY <1>1, <1>2, <2>1, <2>2, Settling
<1> HIDE DEF g
<1>4. h \in Ensms /\ Same(g, h) /\ Consistent(h) /\ h.state = "wait"
  <2>1. h \in Ensms /\ Same(g, h) /\ Consistent(h) /\ h.state = Settled(g, {})
    BY <1>1, <1>3, WriteFields, WriteConsistent
  <2>2. g.clocks
    BY <1>2, <1>3 DEF Same
  <2>. QED  BY <1>1, <1>3, <2>1, <2>2, Settling
<1>5. Slept(e) = [h EXCEPT !.clocks = FALSE, !.curr = "sleep"]
  BY DEF Slept, f, g, b
<1> HIDE DEF h
<1> DEFINE r == [h EXCEPT !.clocks = FALSE, !.curr = "sleep"]
<1>6. /\ r \in Ensms /\ r.clocks = FALSE /\ r.curr = "sleep" /\ r.state = h.state
      /\ r.mode = h.mode /\ r.fdd = h.fdd /\ r.indep = h.indep
  BY <1>4 DEF Ensms
<1> HIDE DEF r
<1>7. Slept(e) = r
  BY <1>5 DEF r
<1>. QED  BY <1>2, <1>3, <1>4, <1>6, <1>7 DEF Consistent, Sane, Same, Fits

\* What is not refused is reached, as far as the duplex mode has it.
LEMMA SetStateFields ==
  ASSUME NEW e, Consistent(e), e.clocks \/ e.curr = "sleep",
         NEW s \in States \cup {"sleep"}, NEW pin \in BOOLEAN
  PROVE  LET r == SetState(e, s, pin)
         IN  /\ Consistent(r) /\ r.mode = e.mode /\ r.fdd = e.fdd /\ r.indep = e.indep
             /\ r.clocks \/ r.curr = "sleep"
             /\ Refused(e, s) => r = e
             /\ ~Refused(e, s) => r.curr = s
             /\ ~Refused(e, s) /\ s # "sleep" => r.clocks
             /\ ~Refused(e, s) /\ s # "sleep" /\ ~pin => "PinCtrl" \notin r.cfg
             /\ s = "alert" => r.state = "alert"
             /\ s = "fdd" /\ e.fdd /\ e.mode => r.state = "fdd"
             /\ s \in {"tx", "rx"} /\ ~e.fdd /\ ~e.mode
                /\ (e.curr = "alert" => e.state = "alert") => r.state = s
<1> DEFINE r == SetState(e, s, pin)
           w == Woken(e)
           ready == IF Illegal(e, s) THEN ToAlert(w) ELSE w
           bits == {"ToAlert"} \cup Target(s) \cup IF pin THEN {"PinCtrl"} ELSE {}
<1>0. e \in Ensms /\ e.fdd \in BOOLEAN /\ e.mode \in BOOLEAN /\ e.state \in States
  BY EnsmFields DEF Consistent, Sane
<1>1. /\ Consistent(w) /\ w.clocks /\ w.mode = e.mode /\ w.fdd = e.fdd /\ w.indep = e.indep
      /\ w.curr = e.curr /\ (e.curr # "sleep" => w = e)
  BY WokenFields
<1> HIDE DEF w
<1>2. CASE s = "sleep"
  <2>1. r = Slept(w)
    BY <1>2 DEF SetState, w
  <2>2. ~Refused(e, s)
    BY <1>2 DEF Refused, Illegal
  <2>. QED  BY <1>1, <1>2, <2>1, <2>2, SleptFields
<1>3. CASE s # "sleep" /\ Refused(e, s)
  <2>1. r = w /\ e.curr = "alert" /\ s \notin {"alert"} /\ (s = "fdd" => ~e.fdd)
        /\ (s \in {"tx", "rx"} => e.fdd)
    BY <1>0, <1>3 DEF SetState, w, Refused, Illegal
  <2>2. r = e
    BY <1>1, <2>1
  <2>. QED  BY <1>1, <1>3, <2>1, <2>2
<1>4. CASE s # "sleep" /\ ~Refused(e, s)
  <2>0. s \in States
    BY <1>4
  <2> DEFINE v == Write(ready, bits)
  <2>1. r = [v EXCEPT !.curr = s]
    BY <1>4 DEF SetState, w
  <2>2. /\ Consistent(ready) /\ ready.clocks /\ ready.mode = e.mode /\ ready.fdd = e.fdd
        /\ ready.indep = e.indep /\ ready \in Ensms
    <3>1. Sane(w) /\ w \in Ensms
      BY <1>1 DEF Consistent, Sane
    <3>2. CASE Illegal(e, s)
      BY <1>1, <3>1, <3>2, ToAlertFields DEF Same, Consistent, Sane
    <3>3. CASE ~Illegal(e, s)
      BY <1>1, <3>1, <3>3
    <3>. QED  BY <3>2, <3>3
  <2>3. /\ bits \in SUBSET Bits /\ "ToAlert" \in bits
        /\ ~pin => "PinCtrl" \notin bits
        /\ s = "alert" => /\ "ForceAlert" \in bits /\ "ForceTx" \notin bits
                          /\ "ForceRx" \notin bits
        /\ s \in {"tx", "fdd"} => "ForceTx" \in bits /\ "ForceAlert" \notin bits
        /\ s = "rx" => /\ "ForceRx" \in bits /\ "ForceTx" \notin bits
                       /\ "ForceAlert" \notin bits
    BY <2>0, TargetType DEF Bits
  <2>4. s \in {"tx", "rx"} /\ ~e.fdd /\ (e.curr = "alert" => e.state = "alert") =>
            ready.state = "alert"
    <3>1. Sane(w)
      BY <1>1 DEF Consistent
    <3>2. ToAlert(w).state = "alert"
      BY <1>1, <3>1, ToAlertFields
    <3>3. e.curr # "alert" /\ s \in {"tx", "rx"} => Illegal(e, s)
      BY DEF Illegal
    <3>. QED  BY <1>1, <3>2, <3>3
  <2> HIDE DEF ready, bits
  <2>5. /\ v \in Ensms /\ Consistent(v) /\ Same(ready, v) /\ v.cfg = bits
        /\ v.state = Settled(ready, bits)
    BY <2>2, <2>3, WriteFields, WriteConsistent
  <2>6. s = "alert" => v.state = "alert"
    BY <2>2, <2>3, ForcedAlert
  <2>7. ready.state \in {"wait", "alert", "tx", "rx", "fdd"}
    BY <2>2, EnsmFields DEF States, Active
  <2>8. s = "fdd" /\ e.fdd /\ e.mode => v.state = "fdd"
    <3> SUFFICES ASSUME s = "fdd", e.mode PROVE v.state = "fdd"
      OBVIOUS
    <3>1. ready.state \in {"wait", "alert", "fdd"}
      BY <2>2, <2>7 DEF Consistent, Fits
    <3>2. FromAlert(ready, bits) = "fdd"
      BY <2>2, <2>3, LeavingAlert
    <3>3. CASE ready.state = "fdd"
      BY <2>2, <2>3, <2>5, <3>3, Settling DEF Holding, Active
    <3>4. CASE ready.state = "alert"
      BY <2>2, <2>3, <2>5, <3>2, <3>4, Settling
    <3>5. CASE ready.state = "wait"
      <4>1. bits \cap {"ToAlert", "ForceAlert"} # {}
        BY <2>3
      <4>. QED  BY <2>2, <2>3, <2>5, <3>2, <3>5, <4>1, Settling
    <3>. QED  BY <3>1, <3>3, <3>4, <3>5
  <2>9. s \in {"tx", "rx"} /\ ~e.fdd /\ ~e.mode /\ (e.curr = "alert" => e.state = "alert")
        => v.state = s
    <3> SUFFICES ASSUME s \in {"tx", "rx"}, ~e.mode, ready.state = "alert" PROVE v.state = s
      BY <2>4
    <3>1. FromAlert(ready, bits) = s
      BY <2>2, <2>3, LeavingAlert
    <3>. QED  BY <2>2, <2>3, <2>5, <3>1, Settling
  <2> HIDE DEF v
  <2> DEFINE u == [v EXCEPT !.curr = s]
  <2>10. /\ u \in Ensms /\ u.curr = s /\ u.cfg = v.cfg /\ u.state = v.state /\ u.mode = v.mode
         /\ u.clocks = v.clocks /\ u.fdd = v.fdd /\ u.indep = v.indep
    BY <2>0, <2>5 DEF Ensms
  <2> HIDE DEF u
  <2>11. r = u
    BY <2>1 DEF u
  <2>12. Consistent(u)
    BY <2>5, <2>10 DEF Consistent, Sane
  <2> HIDE DEF r
  <2>13. /\ Consistent(r) /\ r.mode = e.mode /\ r.fdd = e.fdd /\ r.indep = e.indep
         /\ r.clocks /\ r.curr = s
    BY <2>2, <2>5, <2>10, <2>11, <2>12 DEF Same
  <2>14. ~pin => "PinCtrl" \notin r.cfg
    BY <2>3, <2>5, <2>10, <2>11
  <2>. QED  BY <1>4, <2>6, <2>8, <2>9, <2>10, <2>11, <2>13, <2>14 DEF r
<1>. QED  BY <1>2, <1>3, <1>4

\* The end of ad9361_setup.
LEMMA StartedFields ==
  ASSUME NEW e, Sane(e), e.clocks, e.state \in {"wait", "alert"}
  PROVE  /\ Consistent(Started(e)) /\ Started(e).clocks /\ Started(e).mode = e.fdd
         /\ Started(e).fdd = e.fdd /\ Started(e).indep = e.indep
         /\ Started(e).curr \in {"fdd", "rx"} /\ "PinCtrl" \notin Started(e).cfg
<1> DEFINE m == SetEnsmMode(e, e.fdd)
           n == [m EXCEPT !.curr = m.state]
           s == IF e.fdd THEN "fdd" ELSE "rx"
<1>0. e \in Ensms /\ e.fdd \in BOOLEAN
  BY EnsmFields DEF Sane
<1>1. /\ n \in Ensms /\ n.curr = e.state /\ n.state = e.state /\ n.mode = e.fdd
      /\ n.fdd = e.fdd /\ n.indep = e.indep /\ n.clocks = e.clocks
  BY <1>0 DEF SetEnsmMode, Ensms
<1>2. Started(e) = SetState(n, s, FALSE)
  BY DEF Started
<1> HIDE DEF n
<1>3. Consistent(n)
  BY <1>1 DEF Consistent, Sane, Fits
<1>4. s \in States \cup {"sleep"} /\ s # "sleep" /\ s \in {"fdd", "rx"}
  BY DEF States, Active
<1>5. ~Refused(n, s)
  BY <1>0, <1>1 DEF Refused, Illegal
<1> HIDE DEF s
<1> DEFINE r == SetState(n, s, FALSE)
<1>6. n.clocks \/ n.curr = "sleep"
  BY <1>1
<1>7. /\ Consistent(r) /\ r.mode = n.mode /\ r.fdd = n.fdd /\ r.indep = n.indep
      /\ r.curr = s /\ r.clocks /\ "PinCtrl" \notin r.cfg
  BY <1>3, <1>4, <1>5, <1>6, SetStateFields
<1> HIDE DEF r
<1>8. Started(e) = r
  BY <1>2 DEF r
<1>. QED  BY <1>1, <1>4, <1>7, <1>8

----------------------------------------------------------------------------
(* The pins.                                                               *)

LEMMA PinMoveFields ==
  ASSUME NEW e, Consistent(e), NEW x \in PinMoves(e)
  PROVE  /\ Consistent(x) /\ Same(e, x) /\ x.cfg = e.cfg /\ x.prev = e.prev
         /\ x.pinEn = e.pinEn /\ "PinCtrl" \in e.cfg /\ x.state # "wait" /\ e.clocks
<1>1. /\ "PinCtrl" \in e.cfg /\ e.clocks /\ e.state # "wait"
      /\ x \in {[e EXCEPT !.state = s] :
                    s \in {"alert"} \cup IF e.mode THEN {"fdd"} ELSE {"tx", "rx"}}
  BY DEF PinMoves
<1>2. PICK s \in {"alert"} \cup IF e.mode THEN {"fdd"} ELSE {"tx", "rx"} :
          x = [e EXCEPT !.state = s]
  BY <1>1
<1>3. e \in Ensms /\ s \in States /\ s # "wait" /\ Fits(s, e.mode)
  BY <1>2, EnsmFields DEF Consistent, Sane, States, Active, Fits
<1>4. /\ x \in Ensms /\ x.state = s /\ Same(e, x) /\ x.cfg = e.cfg /\ x.prev = e.prev
      /\ x.pinEn = e.pinEn
  BY <1>2, <1>3 DEF Ensms, Same
<1>. QED  BY <1>1, <1>3, <1>4 DEF Consistent, Sane, Same
=============================================================================
