---------------------------- MODULE Synth_proofs ----------------------------
(***************************************************************************)
(* Proofs about Synth for all frequencies, gain tables, thresholds, ALC    *)
(* words and numbers of profiles.                                          *)
(***************************************************************************)
EXTENDS Synth, TLAPS

USE FreqAssumption, ProfileAssumption

----------------------------------------------------------------------------
(* Lemmas about the operators.                                             *)

LEMMA SideFacts ==
    /\ \A s \in Side : Other(s) \in Side /\ Other(s) # s
    /\ \A s, t \in Side : t # s => t = Other(s)
    /\ Side = {"rx", "tx"}
BY DEF Side, Other

\* Frequencies, the refused rate and the words have the types the proofs need.
LEMMA ConstantFacts ==
    /\ \A f \in InRange : f \in Nat /\ f # NoFreq /\ f # BadRate
    /\ Image \subseteq Words /\ Blank \in Words
    /\ \A f \in InRange : AlcWords(f) \subseteq Alc
    /\ 0 \in Alc
    /\ \A w \in Alc : (w + 1) % AlcMod \in Alc /\ (w + 1) % AlcMod # w
BY AlcAssumption DEF InRange, NoFreq, Blank, Alc, Image, Words

\* A gain table's index is the number of a table.
LEMMA TableTypes ==
    ASSUME NEW f
    PROVE  TableIndex(f) \in 0 .. Len(TableEnds)
<1>1. Len(TableEnds) \in Nat
  BY TableAssumption
<1>2. CASE Covering(f) = {}
  BY <1>1, <1>2 DEF TableIndex
<1>3. CASE Covering(f) # {}
  <2>1. (CHOOSE i \in Covering(f) : TRUE) \in 1 .. Len(TableEnds) - 1
    BY <1>3 DEF Covering
  <2> QED BY <1>1, <1>3, <2>1 DEF TableIndex
<1> QED BY <1>2, <1>3

\* What is read back is a frequency in range or the number of none.
LEMMA RecalcTypes ==
    ASSUME TypeOK, NEW s \in Side
    PROVE  Recalc(s) \in InRange \cup {NoFreq}
<1>1. CASE profile[s] = 0
  BY <1>1 DEF TypeOK, Recalc, ReadBack, Image
<1>2. CASE profile[s] # 0
  <2>1. profile[s] \in Profiles
    BY <1>2 DEF TypeOK, Profiles
  <2>2. slots[s][profile[s]] \in Words
    BY <2>1 DEF TypeOK
  <2> QED BY <1>2, <2>2 DEF Recalc, ReadBack, Words
<1> QED BY <1>1, <1>2

\* The ALC word a recall would write differs from the written one.
LEMMA OtherWordFacts ==
    ASSUME NEW e \in Entries,
           e.written \in {e.orig, (e.orig + 1) % AlcMod}
    PROVE  /\ OtherWord(e) \in Alc
           /\ OtherWord(e) # e.written
           /\ OtherWord(e) \in {e.orig, (e.orig + 1) % AlcMod}
<1>1. e.orig \in Alc /\ e.written \in Alc
  BY DEF Entries
<1> QED BY <1>1, ConstantFacts DEF OtherWord

----------------------------------------------------------------------------
(* Type correctness.                                                       *)

LEMMA InitType == Init => TypeOK
<1> SUFFICES ASSUME Init PROVE TypeOK
  OBVIOUS
<1>1. lo \in [Side -> InRange] /\ tdd \in [Side -> BOOLEAN]
  BY DEF Init
<1>2. profile \in [Side -> 0 .. NumProfiles] /\ fast \in [Side -> 0 .. NumProfiles]
  BY DEF Init
<1>3. PICK w \in [Side -> Alc] :
          synth = [s \in Side |-> [freq |-> lo[s], tdd |-> tdd[s], alc |-> w[s]]]
  BY DEF Init
<1>4. synth \in [Side -> Image]
  BY <1>1, <1>3 DEF Image
<1>5. rate \in [Side -> InRange \cup {NoFreq}]
  <2>1. \A s \in Side : ReadBack(s) \in InRange
    BY <1>1, <1>3 DEF Init, ReadBack
  <2> QED BY <2>1 DEF Init, Recalc
<1>6. NoEntry \in Entries
  BY ConstantFacts DEF NoEntry, Entries
<1>7. entry \in [Side -> [Profiles -> Entries]]
  BY <1>6 DEF Init
<1>8. /\ slots \in [Side -> [Profiles -> Words]]
      /\ inUse \in [Side -> Words]
      /\ calEnabled \in [Side -> BOOLEAN]
  BY ConstantFacts DEF Init
<1>9. table \in 0 .. Len(TableEnds)
  BY TableTypes DEF Init
<1>10. /\ quadFreq \in InRange \cup {BadRate} /\ quadAt \in InRange \cup {NoFreq}
       /\ quadBy \in {"tuning", "request", "fastlock"}
  BY <1>1 DEF Init, Side
<1>11. /\ saved \in [side : Side, words : Words]
       /\ calls \in 0 .. MaxCalls
  BY ConstantFacts DEF Init, NothingSaved, Side
<1>12. call \in Calls
  BY DEF Init, Calls
<1> QED BY <1>1, <1>2, <1>4, <1>5, <1>7, <1>8, <1>9, <1>10, <1>11, <1>12 DEF TypeOK

\* Leaving fastlock mode keeps the types of what it writes.
LEMMA LeaveType ==
    ASSUME TypeOK, NEW s \in Side, LeaveFastlock(s)
    PROVE  /\ profile' \in [Side -> 0 .. NumProfiles]
           /\ fast' \in [Side -> 0 .. NumProfiles]
           /\ calEnabled' \in [Side -> BOOLEAN]
BY DEF TypeOK, LeaveFastlock

LEMMA TuneType ==
    ASSUME TypeOK, NEW s \in Side, NEW f \in Freqs, Tune(s, f) \/ Refuse(s, f)
    PROVE  TypeOK'
<1>1. LeaveFastlock(s) /\ calls' \in 0 .. MaxCalls
  BY DEF Tune, Refuse, Ask, Begin, TypeOK
<1>2. /\ profile' \in [Side -> 0 .. NumProfiles]
      /\ fast' \in [Side -> 0 .. NumProfiles]
      /\ calEnabled' \in [Side -> BOOLEAN]
  BY <1>1, LeaveType
<1>3. lo' \in [Side -> InRange]
  <2>1. lo \in [Side -> InRange]
    BY DEF TypeOK
  <2>2. CASE Tune(s, f)
    BY <2>1, <2>2 DEF Tune
  <2>3. CASE Refuse(s, f)
    BY <2>1, <2>3 DEF Refuse
  <2> QED BY <2>2, <2>3
<1>4. call' \in Calls
  BY DEF Tune, Refuse, Calls
<1>5. UNCHANGED <<tdd, entry, rate, table, quadFreq, synth, slots, inUse, correction, saved>>
  BY DEF Tune, Refuse
<1> QED BY <1>1, <1>2, <1>3, <1>4, <1>5 DEF TypeOK, correction

LEMMA ProgramType == ASSUME TypeOK, Program PROVE TypeOK'
<1> DEFINE s == call.prog
           other == Other(call.side)
<1>1. s \in Side /\ call.side \in Side /\ call.freq \in InRange
  BY SMTT(60) DEF Program, TypeOK, Calls, NoCall
<1>2. other \in Side /\ FixupFreq(call.side) \in InRange /\ lo[call.side] \in InRange
  BY <1>1, SideFacts DEF TypeOK, FixupFreq
<1>3. tdd' \in [Side -> BOOLEAN]
  BY <1>1 DEF Program, TypeOK, UseTdd
<1>4. synth' \in [Side -> Image]
  <2>1. PICK w \in IF calEnabled[s] THEN AlcWords(call.freq) ELSE {synth[s].alc} :
            synth' = [synth EXCEPT ![s] = [freq |-> call.freq, tdd |-> UseTdd, alc |-> w]]
    BY DEF Program
  <2>2. synth \in [Side -> Image] /\ synth[s].alc \in Alc
    BY <1>1 DEF TypeOK, Image
  <2>3. w \in Alc
    BY <1>1, <2>1, <2>2, ConstantFacts
  <2>4. [freq |-> call.freq, tdd |-> UseTdd, alc |-> w] \in Image
    BY <1>1, <2>3 DEF Image, UseTdd
  <2> QED BY <2>1, <2>2, <2>4
<1>5. call' \in Calls
  <2>1. call \in [stage : {"program"}, side : Side, prog : Side, freq : InRange]
    BY DEF Program, TypeOK, Calls, NoCall
  <2>2. \/ call' = [call EXCEPT !.prog = other, !.freq = FixupFreq(call.side)]
        \/ call' = [call EXCEPT !.stage = "finish", !.freq = lo[call.side]]
    BY DEF Program
  <2> QED BY <1>2, <2>1, <2>2 DEF Calls
<1>6. /\ profile' \in [Side -> 0 .. NumProfiles]
      /\ fast' \in [Side -> 0 .. NumProfiles]
      /\ calEnabled' \in [Side -> BOOLEAN]
  <2>1. LeaveFastlock(other) \/ UNCHANGED <<profile, fast, calEnabled>>
    BY DEF Program
  <2>2. CASE LeaveFastlock(other)
    BY <1>2, <2>2, LeaveType
  <2>3. CASE UNCHANGED <<profile, fast, calEnabled>>
    BY <2>3 DEF TypeOK
  <2> QED BY <2>1, <2>2, <2>3
<1>7. UNCHANGED <<lo, entry, rate, table, quadFreq, slots, inUse, correction, saved, calls>>
  BY DEF Program
<1> QED BY <1>3, <1>4, <1>5, <1>6, <1>7 DEF TypeOK, correction

LEMMA PlaysTypes ==
    ASSUME TypeOK
    PROVE  Plays("tx") \in InRange \cup {NoFreq}
<1>1. "tx" \in Side
  BY DEF Side
<1>2. synth["tx"] \in Image /\ inUse["tx"] \in Words
  BY <1>1 DEF TypeOK
<1> QED BY <1>1, <1>2 DEF Plays, Image, Words

LEMMA FinishType == ASSUME TypeOK, Finish PROVE TypeOK'
<1>1. call.freq \in InRange \cup {BadRate}
  BY DEF Finish, TypeOK, Calls, NoCall
<1>2. Plays("tx") \in InRange \cup {NoFreq}
  BY PlaysTypes
<1>3. table' \in 0 .. Len(TableEnds)
  BY TableTypes DEF Finish, TypeOK
<1>4. /\ quadFreq' \in InRange \cup {BadRate} /\ quadAt' \in InRange \cup {NoFreq}
      /\ quadBy' \in {"tuning", "request", "fastlock"}
  BY <1>1, <1>2 DEF Finish, QuadCal, TxQuadCalib, TypeOK, correction
<1>5. rate' \in [Side -> InRange \cup {NoFreq}]
  BY RecalcTypes DEF Finish, RefreshRates
<1>6. call' \in Calls
  BY DEF Finish, Calls
<1>7. UNCHANGED <<cache, chip, saved, calls>>
  BY DEF Finish
<1> QED BY <1>3, <1>4, <1>5, <1>6, <1>7 DEF TypeOK, cache, chip

LEMMA OtherClockType == ASSUME TypeOK, SetOtherClock PROVE TypeOK'
<1>1. rate' \in [Side -> InRange \cup {NoFreq}]
  BY RecalcTypes DEF SetOtherClock, RefreshRates
<1>2. calls' \in 0 .. MaxCalls
  BY DEF SetOtherClock, Begin, TypeOK
<1>3. UNCHANGED <<cache, table, quadFreq, chip, correction, saved, call>>
  BY DEF SetOtherClock, Begin
<1> QED BY <1>1, <1>2, <1>3 DEF TypeOK, correction, cache, chip

LEMMA CalibrateType == ASSUME TypeOK, Calibrate PROVE TypeOK'
<1>1. quadAt' \in InRange \cup {NoFreq} /\ quadBy' \in {"tuning", "request", "fastlock"}
  BY PlaysTypes DEF Calibrate, TxQuadCalib
<1>2. calls' \in 0 .. MaxCalls
  BY DEF Calibrate, Begin, TypeOK
<1>3. UNCHANGED <<cache, rate, table, quadFreq, chip, saved, call>>
  BY DEF Calibrate
<1> QED BY <1>1, <1>2, <1>3 DEF TypeOK, cache, chip

\* The words a profile is loaded with have an ALC word of the right type.
LEMMA LoadType ==
    ASSUME TypeOK, NEW s \in Side, NEW p \in Profiles, NEW words \in Words,
           LoadProfile(s, p, words)
    PROVE  /\ entry' \in [Side -> [Profiles -> Entries]]
           /\ slots' \in [Side -> [Profiles -> Words]]
           /\ calls' \in 0 .. MaxCalls
<1>1. words.alc \in Alc
  BY DEF Words
<1>2. [init |-> TRUE, orig |-> words.alc, written |-> words.alc] \in Entries
  BY <1>1 DEF Entries
<1> QED BY <1>2 DEF TypeOK, LoadProfile, Begin

\* What a recall writes.
LEMMA RecallFacts ==
    ASSUME TypeOK, AlcNearStored, NEW s \in Side, NEW p \in Profiles, Recall(s, p)
    PROVE  \E w \in Alc, words \in Words :
               /\ w = IF CurrentWord(s) = entry[s][p].written
                      THEN OtherWord(entry[s][p]) ELSE entry[s][p].written
               /\ words = IF w = entry[s][p].written
                          THEN slots[s][p] ELSE WithWord(slots[s][p], w)
               /\ entry' = [entry EXCEPT ![s][p].written = w]
               /\ slots' = [slots EXCEPT ![s][p] = words]
               /\ inUse' = [inUse EXCEPT ![s] = words]
<1> DEFINE e == entry[s][p]
           w == IF CurrentWord(s) = e.written THEN OtherWord(e) ELSE e.written
           words == IF w = e.written THEN slots[s][p] ELSE WithWord(slots[s][p], w)
<1>1. e \in Entries /\ e.written \in {e.orig, (e.orig + 1) % AlcMod}
  BY DEF TypeOK, AlcNearStored
<1>2. w \in Alc
  <2>1. e.written \in Alc
    BY <1>1 DEF Entries
  <2> QED BY <1>1, <2>1, OtherWordFacts
<1>3. slots[s][p] \in Words
  BY DEF TypeOK
<1>4. words \in Words
  BY <1>2, <1>3 DEF Words, WithWord
<1>5. /\ entry' = [entry EXCEPT ![s][p].written = w]
      /\ slots' = [slots EXCEPT ![s][p] = words]
      /\ inUse' = [inUse EXCEPT ![s] = words]
  BY DEF Recall
<1> HIDE DEF w, words
<1>6. w = IF CurrentWord(s) = e.written THEN OtherWord(e) ELSE e.written
  BY DEF w
<1>7. words = IF w = e.written THEN slots[s][p] ELSE WithWord(slots[s][p], w)
  BY DEF words
<1> QED BY <1>2, <1>4, <1>5, <1>6, <1>7

LEMMA RecallType ==
    ASSUME TypeOK, AlcNearStored, NEW s \in Side, NEW p \in Profiles, Recall(s, p)
    PROVE  TypeOK'
<1>1. PICK w \in Alc, words \in Words :
          /\ entry' = [entry EXCEPT ![s][p].written = w]
          /\ slots' = [slots EXCEPT ![s][p] = words]
          /\ inUse' = [inUse EXCEPT ![s] = words]
  BY RecallFacts
<1>2. entry' \in [Side -> [Profiles -> Entries]]
  <2>1. entry[s][p] \in Entries /\ entry \in [Side -> [Profiles -> Entries]]
    BY DEF TypeOK
  <2>2. [entry[s][p] EXCEPT !.written = w] \in Entries
    BY <2>1 DEF Entries
  <2>3. entry' = [entry EXCEPT ![s] = [entry[s] EXCEPT ![p] =
                                          [entry[s][p] EXCEPT !.written = w]]]
    BY <1>1, <2>1
  <2> QED BY <2>1, <2>2, <2>3
<1>3. /\ slots' \in [Side -> [Profiles -> Words]]
      /\ inUse' \in [Side -> Words]
  BY <1>1 DEF TypeOK
<1>4. /\ profile' \in [Side -> 0 .. NumProfiles]
      /\ fast' \in [Side -> 0 .. NumProfiles]
      /\ calEnabled' \in [Side -> BOOLEAN]
  BY SMTT(60) DEF Recall, TypeOK, Profiles
<1>5. calls' \in 0 .. MaxCalls
  BY DEF Recall, Begin, TypeOK
<1>6. UNCHANGED <<lo, tdd, rate, table, quadFreq, synth, correction, saved, call>>
  BY DEF Recall, Begin
<1> QED BY <1>2, <1>3, <1>4, <1>5, <1>6 DEF TypeOK, correction

LEMMA ProfileType ==
    ASSUME TypeOK, AlcNearStored, NEW s \in Side, NEW p \in Profiles, OnProfile(s, p)
    PROVE  TypeOK'
<1>1. CASE Store(s, p)
  <2>1. synth[s] \in Words /\ LoadProfile(s, p, synth[s])
    BY <1>1, ConstantFacts DEF TypeOK, Store
  <2>2. UNCHANGED <<lo, tdd, profile, rate, table, quadFreq, synth, fast, inUse, calEnabled,
                    correction, call, saved>>
    BY <1>1 DEF Store, LoadProfile
  <2> QED BY <2>1, <2>2, LoadType DEF TypeOK, correction
<1>2. CASE Save(s, p)
  <2>1. saved' \in [side : Side, words : Words] /\ calls' \in 0 .. MaxCalls
    BY <1>2 DEF TypeOK, Save, Begin
  <2>2. UNCHANGED <<cache, rate, table, quadFreq, chip, correction, call>>
    BY <1>2 DEF Save
  <2> QED BY <2>1, <2>2 DEF TypeOK, correction, cache, chip
<1>3. CASE Load(s, p)
  <2>1. saved.words \in Words /\ LoadProfile(s, p, saved.words)
    BY <1>3 DEF TypeOK, Load
  <2>2. UNCHANGED <<lo, tdd, profile, rate, table, quadFreq, synth, fast, inUse, calEnabled,
                    correction, call, saved>>
    BY <1>3 DEF Load, LoadProfile
  <2> QED BY <2>1, <2>2, LoadType DEF TypeOK, correction
<1>4. CASE Recall(s, p)
  BY <1>4, RecallType
<1> QED BY <1>1, <1>2, <1>3, <1>4 DEF OnProfile

----------------------------------------------------------------------------
(* The invariant.                                                          *)

\* Distances are numbers, and a frequency in range is far from the refused rate.
LEMMA DistanceFacts ==
    /\ \A f \in InRange : Distance(f, f) = 0
    /\ \A f \in InRange : Distance(BadRate, f) > CalThreshold /\ Distance(f, BadRate) > CalThreshold
    /\ Distance(BadRate, BadRate) = 0
BY DEF Distance, InRange

LEMMA InitInv == Init => IInv
<1> SUFFICES ASSUME Init PROVE IInv
  OBVIOUS
<1>1. TypeOK
  BY InitType
<1>2. PICK w \in [Side -> Alc] :
          synth = [s \in Side |-> [freq |-> lo[s], tdd |-> tdd[s], alc |-> w[s]]]
  BY DEF Init
<1>3. TuneInv
  BY <1>1, <1>2 DEF Init, TuneInv, UseTdd, NoCall
<1>4. ModeInv
  BY DEF Init, ModeInv, NoCall
<1>5. AlcCached /\ AlcNearStored
  BY DEF Init, AlcCached, AlcNearStored, NoEntry
<1>6. QuadInv
  <2>1. /\ quadAt = lo["tx"] /\ quadFreq = quadAt /\ lo["tx"] \in InRange /\ quadBy = "tuning"
        /\ quadFreq # BadRate
    BY <1>1, ConstantFacts DEF Init, TypeOK, Side
  <2> QED BY <2>1, DistanceFacts DEF QuadInv, Near
<1> QED BY <1>1, <1>3, <1>4, <1>5, <1>6 DEF IInv

LEMMA TuneStep ==
    ASSUME IInv, NEW s \in Side, NEW f \in Freqs, Tune(s, f) \/ Refuse(s, f)
    PROVE  IInv'
<1>0. TypeOK /\ TuneInv /\ ModeInv /\ AlcCached /\ AlcNearStored /\ QuadInv
  BY DEF IInv
<1>1. TypeOK'
  BY <1>0, TuneType
<1>2. /\ call.stage = "none" /\ LeaveFastlock(s)
      /\ UNCHANGED <<tdd, entry, quadFreq, synth, slots, correction>>
  BY DEF Tune, Refuse, Ask, Begin, NoCall
<1>3. TuneInv'
  <2>1. \A t \in Side : synth[t].freq = lo[t] /\ tdd[t] = UseTdd /\ synth[t].tdd = tdd[t]
    BY <1>0, <1>2 DEF TuneInv
  <2>2. CASE Tune(s, f)
    <3>1. /\ call' = [stage |-> "program", side |-> s, prog |-> s, freq |-> f]
          /\ lo'[s] = f /\ lo'[Other(s)] = lo[Other(s)]
      BY <1>0, <2>2, SideFacts DEF Tune, TypeOK
    <3> QED BY <1>2, <2>1, <3>1, SideFacts DEF TuneInv
  <2>3. CASE Refuse(s, f)
    BY <1>2, <2>1, <2>3 DEF TuneInv, UseTdd, Refuse
  <2> QED BY <2>2, <2>3
<1>4. ModeInv'
  <2>1. call'.side = s
    BY DEF Tune, Refuse
  <2> QED BY <1>0, <1>2, <2>1 DEF ModeInv, LeaveFastlock, TypeOK
<1>5. AlcCached' /\ AlcNearStored'
  BY <1>0, <1>2 DEF AlcCached, AlcNearStored
<1>6. QuadInv'
  <2>1. CASE Tune(s, f)
    <3>1. /\ call'.side = s /\ call'.freq = f /\ call'.stage = "program" /\ f # BadRate
          /\ s = "rx" => lo'["tx"] = lo["tx"]
      BY <1>0, <2>1, ConstantFacts DEF Tune, TypeOK, Side
    <3>2. s = "rx" \/ s = "tx"
      BY DEF Side
    <3>3. TxSettled /\ UNCHANGED <<quadFreq, quadAt, quadBy>>
      BY <1>2 DEF TxSettled, correction
    <3>4. TxSettled' => lo'["tx"] = lo["tx"]
      BY <3>1, <3>2 DEF TxSettled
    <3> QED BY <1>0, <3>3, <3>4 DEF QuadInv, Near, Distance
  <2>2. CASE Refuse(s, f)
    BY <1>0, <1>2, <2>2 DEF QuadInv, Near, Distance, TxSettled, Refuse, correction
  <2> QED BY <2>1, <2>2
<1> QED BY <1>1, <1>3, <1>4, <1>5, <1>6 DEF IInv

\* The heart of the fixup: if no mismatch is left, both tables are right.
LEMMA ProgramStep == ASSUME IInv, Program PROVE IInv'
<1> DEFINE s == call.prog
           other == Other(call.side)
           newTdd == [tdd EXCEPT ![s] = UseTdd]
<1>0. TypeOK /\ TuneInv /\ ModeInv /\ AlcCached /\ AlcNearStored /\ QuadInv
  BY DEF IInv
<1>1. TypeOK'
  BY <1>0, ProgramType
<1>2. call \in [stage : {"program"}, side : Side, prog : Side, freq : InRange]
  BY <1>0 DEF Program, TypeOK, Calls, NoCall
<1>3. /\ s \in Side /\ call.side \in Side /\ other \in Side /\ other # call.side
      /\ s \in {call.side, other}
  BY <1>2, SideFacts
<1>4. /\ tdd' = newTdd
      /\ UNCHANGED <<lo, entry, quadFreq, slots, correction>>
      /\ \/ /\ Mismatch(newTdd)
            /\ call' = [call EXCEPT !.prog = other, !.freq = FixupFreq(call.side)]
            /\ IF lo["rx"] = lo["tx"] THEN UNCHANGED <<profile, fast, calEnabled>>
                                      ELSE LeaveFastlock(other)
         \/ /\ ~Mismatch(newTdd)
            /\ call' = [call EXCEPT !.stage = "finish", !.freq = lo[call.side]]
            /\ UNCHANGED <<profile, fast, calEnabled>>
  BY DEF Program
<1>5. /\ synth'[s].freq = lo[s] /\ synth'[s].tdd = UseTdd
      /\ \A t \in Side : t # s => synth'[t] = synth[t]
      /\ newTdd[s] = UseTdd
      /\ \A t \in Side : t # s => newTdd[t] = tdd[t]
  <2>1. PICK w : synth' = [synth EXCEPT ![s] =
                               [freq |-> call.freq, tdd |-> UseTdd, alc |-> w]]
    BY DEF Program
  <2>2. call.freq = lo[s]
    BY <1>0, <1>2 DEF TuneInv
  <2> QED BY <1>0, <1>3, <2>1, <2>2 DEF TypeOK
<1>6. \A t \in Side : synth'[t].freq = lo[t] /\ synth'[t].tdd = newTdd[t]
  <2>1. synth[Other(s)].freq = lo[Other(s)] /\ synth[Other(s)].tdd = tdd[Other(s)]
    BY <1>0, <1>2, <1>3, SideFacts DEF TuneInv
  <2> QED BY <1>3, <1>5, <2>1, SideFacts
<1>7. newTdd[call.side] = UseTdd
  BY <1>0, <1>2, <1>3, <1>5 DEF TuneInv
<1>8. TuneInv'
  <2>1. CASE Mismatch(newTdd)
    <3>1. call' = [call EXCEPT !.prog = other, !.freq = FixupFreq(call.side)]
      BY <1>4, <2>1
    <3>2. FixupFreq(call.side) = lo[other]
      <4>1. lo["rx"] = lo["tx"] => lo[s] = lo[other]
        BY <1>3 DEF Side
      <4>2. call.freq = lo[s]
        BY <1>0, <1>2 DEF TuneInv
      <4> QED BY <4>1, <4>2 DEF FixupFreq
    <3>3. Other(other) \in Side
      BY <1>3, SideFacts
    <3> QED BY <1>2, <1>3, <1>4, <1>6, <1>7, <3>1, <3>2, <3>3 DEF TuneInv, UseTdd
  <2>2. CASE ~Mismatch(newTdd)
    <3>1. call' = [call EXCEPT !.stage = "finish", !.freq = lo[call.side]]
      BY <1>4, <2>2
    <3>2. newTdd \in [Side -> BOOLEAN]
      BY <1>0 DEF TypeOK, UseTdd
    <3>3. \A t \in Side : newTdd[t] = UseTdd
      BY <1>3, <1>7, <2>2, <3>2 DEF Mismatch, UseTdd, Side
    <3> QED BY <1>2, <1>3, <1>4, <1>6, <3>1, <3>3 DEF TuneInv, UseTdd
  <2> QED BY <2>1, <2>2
<1>9. ModeInv'
  <2>1. call'.side = call.side /\ call.stage # "none"
    BY <1>2, <1>4
  <2>2. CASE UNCHANGED <<profile, fast, calEnabled>>
    BY <1>0, <1>4, <2>1, <2>2 DEF ModeInv
  <2>3. CASE LeaveFastlock(other)
    BY <1>0, <1>3, <1>4, <2>1, <2>3 DEF ModeInv, LeaveFastlock, TypeOK
  <2> QED BY <1>4, <2>2, <2>3
<1>10. AlcCached' /\ AlcNearStored'
  BY <1>0, <1>4 DEF AlcCached, AlcNearStored
<1>11. QuadInv'
  <2>1. call.stage = "program" /\ call.freq # BadRate
    BY <1>2, ConstantFacts
  <2>2. call'.side = call.side /\ call'.stage # "none"
    BY <1>2, <1>4
  <2>3. call'.freq # BadRate
    <3>1. lo[call.side] \in InRange /\ lo[other] \in InRange
      BY <1>0, <1>3 DEF TypeOK
    <3>2. FixupFreq(call.side) # BadRate /\ lo[call.side] # BadRate
      BY <2>1, <3>1, ConstantFacts DEF FixupFreq
    <3> QED BY <1>2, <1>4, <3>2
  <2>4. TxSettled' => TxSettled
    BY <2>1, <2>2, <2>3 DEF TxSettled
  <2> QED BY <1>0, <1>4, <2>4 DEF QuadInv, Near, Distance, correction
<1> QED BY <1>1, <1>8, <1>9, <1>10, <1>11 DEF IInv

LEMMA FinishStep == ASSUME IInv, Finish PROVE IInv'
<1>0. TypeOK /\ TuneInv /\ ModeInv /\ AlcCached /\ AlcNearStored /\ QuadInv
  BY DEF IInv
<1>1. TypeOK'
  BY <1>0, FinishType
<1>2. /\ call.stage = "finish" /\ call'.stage = "none" /\ UNCHANGED <<cache, chip>>
  BY DEF Finish, NoCall
<1>3. TuneInv'
  BY <1>0, <1>2 DEF TuneInv, UseTdd, cache, chip
<1>4. ModeInv' /\ AlcCached' /\ AlcNearStored'
  BY <1>0, <1>2 DEF ModeInv, AlcCached, AlcNearStored, cache, chip
<1>5. QuadInv'
  <2>1. lo["tx"] \in InRange /\ lo' = lo
    BY <1>0, <1>2 DEF TypeOK, Side, cache
  <2>2. CASE call.side = "rx"
    BY <1>0, <1>2, <2>1, <2>2 DEF QuadInv, Near, Distance, TxSettled, Finish, correction
  <2>3. CASE call.side = "tx"
    <3>1. call.freq \in {lo["tx"], BadRate}
      BY <1>0, <1>2, <2>3 DEF TuneInv
    <3>2. Plays("tx") = lo["tx"]
      BY <1>0, <1>2, <2>3 DEF TuneInv, ModeInv, Plays, Side
    <3>3. QuadCal(call.freq)
      BY <2>3 DEF Finish
    <3>4. CASE Distance(quadFreq, call.freq) > CalThreshold
      <4>1. quadFreq' = call.freq /\ quadAt' \in {lo["tx"], NoFreq} /\ quadBy' = "tuning"
        BY <3>2, <3>3, <3>4 DEF QuadCal, TxQuadCalib
      <4>2. lo["tx"] # BadRate /\ Distance(lo["tx"], lo["tx"]) <= CalThreshold
        BY <2>1, ConstantFacts, DistanceFacts
      <4> QED BY <2>1, <3>1, <4>1, <4>2 DEF QuadInv, Near, Distance
    <3>5. CASE ~(Distance(quadFreq, call.freq) > CalThreshold)
      <4>1. UNCHANGED <<quadFreq, quadAt, quadBy>>
        BY <3>3, <3>5 DEF QuadCal, correction
      <4>2. CASE call.freq = BadRate
        BY <1>0, <2>1, <4>1, <4>2 DEF QuadInv, Near, Distance, TxSettled
      <4>3. CASE call.freq = lo["tx"]
        <5>1. quadFreq # BadRate
          BY <2>1, <3>5, <4>3, DistanceFacts
        <5>2. quadFreq \in InRange
          BY <1>0, <5>1 DEF TypeOK
        <5>3. Near(quadFreq, lo["tx"])
          BY <2>1, <3>5, <4>3, <5>2, ConstantFacts DEF Near, Distance
        <5> QED BY <1>0, <2>1, <4>1, <5>1, <5>3 DEF QuadInv, Near, Distance
      <4> QED BY <3>1, <4>2, <4>3
    <3> QED BY <3>4, <3>5
  <2>4. call.side \in {"rx", "tx"}
    BY DEF Finish
  <2> QED BY <2>2, <2>3, <2>4
<1> QED BY <1>1, <1>3, <1>4, <1>5 DEF IInv

LEMMA OtherClockStep == ASSUME IInv, SetOtherClock PROVE IInv'
<1>1. TypeOK'
  BY OtherClockType DEF IInv
<1>2. UNCHANGED <<cache, table, quadFreq, chip, correction, saved, call>>
  BY DEF SetOtherClock, Begin
<1> QED BY <1>1, <1>2 DEF IInv, TuneInv, UseTdd, ModeInv, AlcCached, AlcNearStored, QuadInv,
                          Near, Distance, TxSettled, cache, chip, correction

\* A correction on request is made where the last tuning left the transmitter.
LEMMA CalibrateStep == ASSUME IInv, Calibrate PROVE IInv'
<1>0. TypeOK /\ TuneInv /\ ModeInv /\ AlcCached /\ AlcNearStored /\ QuadInv
  BY DEF IInv
<1>1. TypeOK'
  BY <1>0, CalibrateType
<1>2. /\ call.stage = "none" /\ UNCHANGED <<lo, tdd, profile, entry, quadFreq, chip, call>>
      /\ quadAt' \in {Plays("tx"), NoFreq}
      /\ quadBy' = IF profile["tx"] = 0 THEN "request" ELSE "fastlock"
  BY DEF Calibrate, Begin, NoCall, TxQuadCalib, cache
<1>3. TuneInv' /\ ModeInv' /\ AlcCached' /\ AlcNearStored'
  BY <1>0, <1>2 DEF TuneInv, UseTdd, ModeInv, AlcCached, AlcNearStored, chip
<1>4. QuadInv'
  <2>1. TxSettled /\ TxSettled'
    BY <1>2 DEF TxSettled
  <2>2. quadFreq = BadRate \/ Near(quadFreq, lo["tx"])
    BY <1>0, <2>1 DEF QuadInv
  <2>3. profile["tx"] = 0 => Plays("tx") = lo["tx"]
    BY <1>0, <1>2 DEF TuneInv, ModeInv, Plays, Side
  <2> QED BY <1>2, <2>2, <2>3 DEF QuadInv, Near, Distance
<1> QED BY <1>1, <1>3, <1>4 DEF IInv

\* Loading words into a profile, from wherever they come.
LEMMA LoadStep ==
    ASSUME TypeOK, TuneInv, ModeInv, AlcCached, AlcNearStored, QuadInv,
           NEW s \in Side, NEW p \in Profiles, NEW words \in Words,
           LoadProfile(s, p, words)
    PROVE  TuneInv' /\ ModeInv' /\ AlcCached' /\ AlcNearStored' /\ QuadInv'
<1>1. /\ call.stage = "none"
      /\ UNCHANGED <<lo, tdd, profile, quadFreq, synth, fast, correction, call>>
  BY DEF LoadProfile, Begin, NoCall
<1>2. /\ entry'[s][p] = [init |-> TRUE, orig |-> words.alc, written |-> words.alc]
      /\ slots'[s][p] = words
      /\ \A t \in Side, q \in Profiles : t # s \/ q # p =>
             entry'[t][q] = entry[t][q] /\ slots'[t][q] = slots[t][q]
  BY DEF LoadProfile, TypeOK
<1>3. TuneInv' /\ QuadInv'
  BY <1>1 DEF TuneInv, QuadInv, Near, Distance, TxSettled, UseTdd, correction
<1>4. ModeInv'
  <2>1. \A t \in Side : profile[t] # 0 => profile[t] \in Profiles
    BY DEF TypeOK, Profiles
  <2> QED BY <1>1, <1>2, <2>1 DEF ModeInv
<1>5. AlcCached' /\ AlcNearStored'
  BY <1>2 DEF AlcCached, AlcNearStored
<1> QED BY <1>3, <1>4, <1>5

LEMMA RecallStep ==
    ASSUME TypeOK, TuneInv, ModeInv, AlcCached, AlcNearStored, QuadInv,
           NEW s \in Side, NEW p \in Profiles, Recall(s, p)
    PROVE  TuneInv' /\ ModeInv' /\ AlcCached' /\ AlcNearStored' /\ QuadInv'
<1> DEFINE e == entry[s][p]
<1>1. /\ call.stage = "none" /\ e.init
      /\ profile' = [profile EXCEPT ![s] = p] /\ fast' = [fast EXCEPT ![s] = p]
      /\ UNCHANGED <<lo, tdd, quadFreq, synth, correction, call>>
  BY DEF Recall, Begin, NoCall
<1>2. PICK w \in Alc, words \in Words :
          /\ w = IF CurrentWord(s) = e.written THEN OtherWord(e) ELSE e.written
          /\ words = IF w = e.written THEN slots[s][p] ELSE WithWord(slots[s][p], w)
          /\ entry' = [entry EXCEPT ![s][p].written = w]
          /\ slots' = [slots EXCEPT ![s][p] = words]
  BY RecallFacts
<1>3. /\ e \in Entries /\ slots[s][p] \in Words
      /\ slots'[s][p] = words
      /\ \A t \in Side, q \in Profiles : t # s \/ q # p => slots'[t][q] = slots[t][q]
  BY <1>2 DEF TypeOK
<1>4. /\ entry'[s][p].init /\ entry'[s][p].orig = e.orig /\ entry'[s][p].written = w
      /\ \A t \in Side, q \in Profiles : t # s \/ q # p => entry'[t][q] = entry[t][q]
  <2> DEFINE x == [e EXCEPT !.written = w]
  <2>1. entry \in [Side -> [Profiles -> Entries]]
    BY DEF TypeOK
  <2>2. x.init /\ x.orig = e.orig /\ x.written = w
    BY <1>1, <1>3 DEF Entries
  <2>3. entry' = [entry EXCEPT ![s] = [entry[s] EXCEPT ![p] = x]]
    BY <1>2, <2>1
  <2> HIDE DEF x
  <2> QED BY <2>1, <2>2, <2>3
<1>5. words.alc = w
  BY <1>1, <1>2, <1>3 DEF WithWord, Words, AlcCached
<1>6. w \in {e.orig, (e.orig + 1) % AlcMod}
  <2>1. e.written \in {e.orig, (e.orig + 1) % AlcMod}
    BY DEF AlcNearStored
  <2> QED BY <1>2, <1>3, <2>1, OtherWordFacts
<1>7. TuneInv' /\ QuadInv'
  BY <1>1 DEF TuneInv, QuadInv, Near, Distance, TxSettled, UseTdd, correction
<1>8. ModeInv'
  <2>1. \A t \in Side : profile[t] # 0 => profile[t] \in Profiles
    BY DEF TypeOK, Profiles
  <2>2. profile'[s] = p /\ \A t \in Side : t # s => profile'[t] = profile[t]
    BY <1>1 DEF TypeOK
  <2>3. fast' = profile'
    BY <1>1 DEF ModeInv
  <2>4. \A t \in Side : profile'[t] # 0 => entry'[t][profile'[t]].init
    <3>1. \A t \in Side : t # s /\ profile[t] # 0 => entry'[t][profile[t]].init
      BY <1>4, <2>1 DEF ModeInv
    <3>2. entry'[s][p].init
      BY <1>4
    <3> QED BY <2>2, <3>1, <3>2
  <2> QED BY <1>1, <2>3, <2>4 DEF ModeInv
<1>9. AlcCached'
  BY <1>3, <1>4, <1>5 DEF AlcCached
<1>10. AlcNearStored'
  BY <1>3, <1>4, <1>6 DEF AlcNearStored
<1> QED BY <1>7, <1>8, <1>9, <1>10

LEMMA ProfileStep ==
    ASSUME IInv, NEW s \in Side, NEW p \in Profiles, OnProfile(s, p)
    PROVE  IInv'
<1>0. TypeOK /\ TuneInv /\ ModeInv /\ AlcCached /\ AlcNearStored /\ QuadInv
  BY DEF IInv
<1>1. TypeOK'
  BY <1>0, ProfileType
<1>2. TuneInv' /\ ModeInv' /\ AlcCached' /\ AlcNearStored' /\ QuadInv'
  <2>1. CASE Store(s, p)
    <3>1. synth[s] \in Words /\ LoadProfile(s, p, synth[s])
      BY <1>0, <2>1, ConstantFacts DEF TypeOK, Store
    <3> QED BY <1>0, <3>1, LoadStep
  <2>2. CASE Save(s, p)
    <3>1. UNCHANGED <<cache, quadFreq, chip, correction, call>>
      BY <2>2 DEF Save
    <3> QED BY <1>0, <3>1 DEF TuneInv, UseTdd, ModeInv, AlcCached, AlcNearStored, QuadInv,
                              Near, Distance, TxSettled, cache, chip, correction
  <2>3. CASE Load(s, p)
    <3>1. saved.words \in Words /\ LoadProfile(s, p, saved.words)
      BY <1>0, <2>3 DEF TypeOK, Load
    <3> QED BY <1>0, <3>1, LoadStep
  <2>4. CASE Recall(s, p)
    BY <1>0, <2>4, RecallStep
  <2> QED BY <2>1, <2>2, <2>3, <2>4 DEF OnProfile
<1> QED BY <1>1, <1>2 DEF IInv

LEMMA NextStep == IInv /\ [Next]_vars => IInv'
<1> SUFFICES ASSUME IInv, [Next]_vars PROVE IInv'
  OBVIOUS
<1>1. CASE \E s \in Side, f \in Freqs : Tune(s, f) \/ Refuse(s, f)
  BY <1>1, TuneStep
<1>2. CASE Program
  BY <1>2, ProgramStep
<1>3. CASE Finish
  BY <1>3, FinishStep
<1>4. CASE SetOtherClock
  BY <1>4, OtherClockStep
<1>5. CASE Calibrate
  BY <1>5, CalibrateStep
<1>6. CASE \E s \in Side, p \in Profiles : OnProfile(s, p)
  BY <1>6, ProfileStep
<1>7. CASE UNCHANGED vars
  BY <1>7 DEF IInv, TypeOK, TuneInv, UseTdd, ModeInv, AlcCached, AlcNearStored, QuadInv,
              Near, Distance, TxSettled, vars, cache, chip, correction
<1> QED BY <1>1, <1>2, <1>3, <1>4, <1>5, <1>6, <1>7 DEF Next

\* Cache and chip agree as IInv says, in every state of every behaviour.
THEOREM SynthInv == Spec => []IInv
<1> QED BY InitInv, NextStep, PTL DEF Spec

----------------------------------------------------------------------------
(* The properties.                                                         *)

\* Every variable keeps its type (the caches and registers of ad9361.c:4847-5145 and
\* 6675-7045).
THEOREM SynthTypeOK == Spec => []TypeOK
<1>1. IInv => TypeOK
  BY DEF IInv
<1> QED BY <1>1, SynthInv, PTL

\* Between calls both synthesizers have the table that the LO frequencies call for
\* (ad9361.c:6825-6864).
THEOREM SynthTablesMatch == Spec => []TablesMatch
<1>1. IInv => TablesMatch
  BY DEF IInv, TuneInv, TablesMatch, Quiet, NoCall, UseTdd
<1> QED BY <1>1, SynthInv, PTL

\* Between calls the direct registers hold the cached LO frequencies, also of the side
\* that a fixup programmed (ad9361.c:6855-6860).
THEOREM SynthLoProgrammed == Spec => []LoProgrammed
<1>1. IInv => LoProgrammed
  BY DEF IInv, TuneInv, LoProgrammed, Quiet, NoCall
<1> QED BY <1>1, SynthInv, PTL

\* The words read back are those of what is played (ad9361.c:6690-6718).
THEOREM SynthReportsWhatPlays == Spec => []ReportsWhatPlays
<1>1. IInv => ReportsWhatPlays
  BY DEF IInv, ModeInv, ReportsWhatPlays, Rewritten, ReadBack, Plays
<1> QED BY <1>1, SynthInv, PTL

\* The cached ALC words are the chip's, and stay next to the stored ones
\* (ad9361.c:4933-4935, 5103-5113).
THEOREM SynthAlcCached == Spec => []AlcCached
<1>1. IInv => AlcCached
  BY DEF IInv
<1> QED BY <1>1, SynthInv, PTL

\* However often a profile is recalled, its ALC word stays the stored one or the next
\* above it: the workaround's steps come back and do not add up (ad9361.c:5103-5110).
THEOREM SynthAlcNearStored == Spec => []AlcNearStored
<1>1. IInv => AlcNearStored
  BY DEF IInv
<1> QED BY <1>1, SynthInv, PTL

\* The correction of the transmitter is within the threshold when a tuning made it, and
\* within twice the threshold when it was made on request (ad9361.c:7030-7038, 5594-5596,
\* 5640): a requested one does not move last_tx_quad_cal_freq.
THEOREM SynthQuadFresh == Spec => []QuadFresh
<1>1. IInv => QuadFresh
  <2> SUFFICES ASSUME IInv, call.stage = "none", fast["tx"] = 0, quadAt # NoFreq
               PROVE  /\ quadBy = "tuning" => Distance(quadAt, Plays("tx")) <= CalThreshold
                      /\ quadBy = "request" => Distance(quadAt, Plays("tx")) <= 2 * CalThreshold
    BY DEF QuadFresh, Quiet, NoCall
  <2>1. Plays("tx") = lo["tx"] /\ lo["tx"] \in InRange /\ quadAt \in InRange
    BY DEF IInv, TuneInv, TypeOK, Plays, Side
  <2>2. /\ quadFreq = BadRate \/ Near(quadFreq, lo["tx"])
        /\ quadBy = "tuning" => quadFreq \in {quadAt, BadRate}
        /\ quadBy = "request" => quadFreq = BadRate \/ Near(quadFreq, quadAt)
        /\ quadBy # "fastlock" /\ quadFreq = BadRate => quadAt = lo["tx"]
    BY DEF IInv, QuadInv, TxSettled
  <2>3. CASE quadFreq = BadRate
    BY <2>1, <2>2, <2>3, DistanceFacts
  <2>4. CASE quadFreq # BadRate
    <3>1. quadFreq \in InRange
      BY <2>4 DEF IInv, TypeOK
    <3>2. quadFreq \in Nat /\ quadAt \in Nat /\ lo["tx"] \in Nat
      BY <2>1, <3>1, ConstantFacts
    <3> QED BY <2>1, <2>2, <2>4, <3>2 DEF Near, Distance
  <2> QED BY <2>3, <2>4
<1> QED BY <1>1, SynthInv, PTL

\* A recall changes the ALC word in effect (ad9361.c:5092-5114).
THEOREM SynthRecallChangesAlc == Spec => RecallChangesAlc
<1>1. ASSUME IInv, NEW s \in Side, NEW p \in Profiles, Recall(s, p), ~Rewritten(s)
      PROVE  inUse'[s].alc # AlcInEffect(s)
  <2> DEFINE e == entry[s][p]
  <2>0. TypeOK /\ ModeInv /\ AlcCached /\ AlcNearStored
    BY <1>1 DEF IInv
  <2>1. PICK w \in Alc, words \in Words :
            /\ w = IF CurrentWord(s) = e.written THEN OtherWord(e) ELSE e.written
            /\ words = IF w = e.written THEN slots[s][p] ELSE WithWord(slots[s][p], w)
            /\ inUse' = [inUse EXCEPT ![s] = words]
    BY <1>1, <2>0, RecallFacts
  <2>2. e \in Entries /\ slots[s][p] \in Words /\ e.init
    BY <1>1, <2>0 DEF TypeOK, Recall
  <2>3. inUse'[s].alc = w
    <3>1. inUse'[s] = words
      BY <2>0, <2>1 DEF TypeOK
    <3>2. slots[s][p].alc = e.written
      BY <2>0, <2>2 DEF AlcCached
    <3> QED BY <2>1, <2>2, <3>1, <3>2 DEF WithWord, Words
  <2>4. w # CurrentWord(s)
    <3>1. e.written \in {e.orig, (e.orig + 1) % AlcMod}
      BY <2>0 DEF AlcNearStored
    <3> QED BY <2>1, <2>2, <3>1, OtherWordFacts
  <2>5. CurrentWord(s) = AlcInEffect(s)
    <3>1. CASE profile[s] = 0
      BY <2>0, <3>1 DEF ModeInv, CurrentWord, AlcInEffect
    <3>2. CASE profile[s] # 0
      <4>1. profile[s] \in Profiles /\ entry[s][profile[s]].init /\ fast[s] = profile[s]
        BY <2>0, <3>2 DEF TypeOK, ModeInv, Profiles
      <4>2. slots[s][profile[s]] = inUse[s]
        BY <1>1, <3>2, <4>1 DEF Rewritten
      <4>3. entry[s][profile[s]].written = slots[s][profile[s]].alc
        BY <2>0, <4>1 DEF AlcCached
      <4> QED BY <3>2, <4>1, <4>2, <4>3 DEF CurrentWord, AlcInEffect
    <3> QED BY <3>1, <3>2
  <2> QED BY <2>3, <2>4, <2>5
<1>2. IInv => [\A s \in Side, p \in Profiles :
                   Recall(s, p) /\ ~Rewritten(s) => inUse'[s].alc # AlcInEffect(s)]_vars
  BY <1>1
<1>3. Spec => [][\A s \in Side, p \in Profiles :
                   Recall(s, p) /\ ~Rewritten(s) => inUse'[s].alc # AlcInEffect(s)]_vars
  BY <1>2, SynthInv, PTL
<1> QED BY <1>3 DEF RecallChangesAlc
=============================================================================
