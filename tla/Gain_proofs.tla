----------------------------- MODULE Gain_proofs -----------------------------
(***************************************************************************)
(* Theorems about Gain and their proofs: what a search of a gain table     *)
(* returns, that a manual gain survives any sequence of retunings, and     *)
(* that the registers which depend on the clocks are those of the clocks.  *)
(***************************************************************************)
EXTENDS Gain, Operators_proofs, SequenceTheorems

USE SizeAssumption DEF Indices

\* The gains of a table lie between its ends.
LEMMA GainTables ==
  ASSUME NEW b \in DOMAIN Tables
  PROVE  /\ Tables[b] \in [Indices -> Int]
         /\ Floor(b) \in Int /\ Ceiling(b) \in Int /\ Floor(b) <= Ceiling(b)
         /\ \A i \in Indices : Floor(b) <= Tables[b][i] /\ Tables[b][i] <= Ceiling(b)
<1>1. Tables[b] \in [Indices -> Int]
  BY TableAssumption
<1>2. 0 \in Indices /\ Size - 1 \in Indices
  OBVIOUS
<1>3. \A i \in Indices : 0 <= i /\ i <= Size - 1
  OBVIOUS
<1>. QED  BY <1>1, <1>2, <1>3, TableAssumption, StepAssumption DEF Floor, Ceiling

----------------------------------------------------------------------------
(* find_table_index.                                                       *)

\* Above its end a table is not searched; elsewhere the index found is one of the table.
LEMMA FoundAbove ==
  ASSUME NEW b \in DOMAIN Tables, NEW g \in Int, g > Ceiling(b)
  PROVE  FindTableIndex(b, g) = NotFound
<1>1. {i \in Indices : Tables[b][i] >= g} = {}
  BY GainTables
<1>. QED  BY <1>1 DEF FindTableIndex

\* Within the table the gain that is found is the one looked for, below it the lowest.
LEMMA FoundWithin ==
  ASSUME NEW b \in DOMAIN Tables, NEW g \in Int, g <= Ceiling(b)
  PROVE  /\ FindTableIndex(b, g) \in Indices
         /\ Tables[b][FindTableIndex(b, g)] = IF g < Floor(b) THEN Floor(b) ELSE g
<1> DEFINE above == {i \in Indices : Tables[b][i] >= g}
           i == Min(above)
           before == IF i > 0 THEN i - 1 ELSE i
<1>1. above \in SUBSET Nat /\ Size - 1 \in above
  BY GainTables DEF Ceiling
<1>2. i \in above /\ \A j \in above : i <= j
  <2> HIDE DEF above
  <2>1. \E x \in above : \A y \in above : x <= y
    BY <1>1, LeastNat
  <2>. QED  BY <2>1 DEF Min
<1>3. i \in Indices /\ before \in Indices /\ Tables[b][i] >= g
  BY <1>2
<1>4. CASE g < Floor(b)
  <2>1. 0 \in above
    BY <1>4, GainTables DEF Floor
  <2>2. i = 0 /\ before = 0
    BY <2>1, <1>2, <1>3
  <2>3. FindTableIndex(b, g) = 0
    BY <2>1, <2>2 DEF FindTableIndex
  <2>. QED  BY <2>3, <1>4 DEF Floor
<1>5. CASE Floor(b) <= g
  <2>1. PICK k \in Indices : Tables[b][k] = g
    BY <1>5, GainTables, StepAssumption
  <2>2. i <= k
    BY <2>1, <1>2, GainTables
  <2>3. Tables[b][i] = g
    <3> HIDE DEF i
    <3>1. Tables[b][i] <= Tables[b][k]
      BY <2>2, <1>3, TableAssumption
    <3>. QED  BY <3>1, <2>1, <1>3, GainTables
  <2>4. ~ (Distance(Tables[b][before], g) < Distance(Tables[b][i], g))
    BY <2>3, <1>3, GainTables DEF Distance
  <2>5. FindTableIndex(b, g) = i
    BY <2>4, <1>1 DEF FindTableIndex
  <2>. QED  BY <2>3, <2>5, <1>3, <1>5, GainTables
<1>. QED  BY <1>4, <1>5, GainTables

\* What ad9361_load_gt makes of a gain: the new table's gain nearest to it.
LEMMA ReindexedGain ==
  ASSUME NEW a \in DOMAIN Tables, NEW b \in DOMAIN Tables, NEW i \in Indices
  PROVE  /\ Reindexed(a, b, i) \in Indices
         /\ Tables[b][Reindexed(a, b, i)] = Clamp(Tables[a][i], Floor(b), Ceiling(b))
<1>1. Tables[a][i] \in Int
  BY GainTables
<1>2. CASE Tables[a][i] > Ceiling(b)
  <2>1. Reindexed(a, b, i) = Size - 1
    BY <1>1, <1>2, FoundAbove DEF Reindexed
  <2>. QED  BY <2>1, <1>1, <1>2, GainTables DEF Clamp, Least, Ceiling
<1>3. CASE Tables[a][i] <= Ceiling(b)
  <2> DEFINE j == FindTableIndex(b, Tables[a][i])
  <2>1. /\ j \in Indices
        /\ Tables[b][j] = IF Tables[a][i] < Floor(b) THEN Floor(b) ELSE Tables[a][i]
    BY <1>1, <1>3, FoundWithin
  <2>2. Reindexed(a, b, i) = j
    BY <2>1 DEF Reindexed, NotFound
  <2> HIDE DEF j
  <2>. QED  BY <2>1, <2>2, <1>1, <1>3, GainTables DEF Clamp, Least
<1>. QED  BY <1>1, <1>2, <1>3, GainTables

\* Cutting to one table after another is cutting to the highest floor and lowest ceiling.
LEMMA ClampTwice ==
  ASSUME NEW w \in Int, NEW f \in Int, NEW c \in Int, NEW g \in Int, NEW d \in Int,
         f <= c, f <= d, g <= c, g <= d
  PROVE  Clamp(Clamp(w, f, c), g, d) = Clamp(w, IF f < g THEN g ELSE f, IF c < d THEN c ELSE d)
BY DEF Clamp, Least

LEMMA TableIndexType ==
  ASSUME NEW f \in Freqs
  PROVE  TableIndex(f) \in DOMAIN Tables
<1>1. DOMAIN Tables = 1 .. Len(Tables) /\ Len(Tables) \in Nat
  BY TableAssumption
<1>2. Len(Tables) # 0
  BY TableAssumption, EmptySeq
<1>. QED  BY <1>1, <1>2, RangeAssumption DEF TableIndex

----------------------------------------------------------------------------
(* The invariant.                                                          *)

\* Only the gain of a table that was just set up: both ends are that table's.
LEMMA FreshGain ==
  ASSUME NEW b \in DOMAIN Tables
  PROVE  /\ Tables[b][Size - 1] = Clamp(Ceiling(b), Floor(b), Ceiling(b))
         /\ Size - 1 \in Indices
BY GainTables DEF Clamp, Least, Ceiling

LEMMA FreshCut ==
  ASSUME NEW b \in DOMAIN Tables
  PROVE  Cut({b}, Tables[b][Size - 1], Ceiling(b), b, b)
BY FreshGain, GainTables DEF Cut

LEMMA InitInv == Init => IInv
<1> SUFFICES ASSUME Init PROVE IInv
  OBVIOUS
<1>1. table \in DOMAIN Tables /\ lo \in Freqs
  BY TableIndexType, RangeAssumption DEF Init
<1>2. TypeOK
  BY <1>1, FreshGain, GainTables, GainAssumption, RangeAssumption
  DEF Init, TypeOK, Modes, SetupMode
<1>3. GainInv
  <2> SUFFICES ASSUME NEW ch \in Ch
               PROVE  /\ table \in seen[ch]
                      /\ \E b, c \in seen[ch] :
                             Cut(seen[ch], Tables[table][manual[ch]], want[ch], b, c)
    BY DEF GainInv
  <2>1. /\ seen[ch] = {table} /\ manual[ch] = Size - 1 /\ want[ch] = Ceiling(table)
    BY DEF Init
  <2>. QED  BY <1>1, <2>1, FreshCut
<1>4. RegsInv
  <2>1. AnyFast(agcMode) = FALSE
    BY DEF Init, AnyFast, SetupMode
  <2>. QED  BY <2>1 DEF Init, RegsInv
<1>. QED  BY <1>2, <1>3, <1>4 DEF IInv

LEMMA TypeStep == TypeOK /\ [Next]_vars => TypeOK'
<1> SUFFICES ASSUME TypeOK, [Next]_vars PROVE TypeOK'
  OBVIOUS
<1> USE GainAssumption
<1>1. CASE Reset
  <2>1. TableIndex(SetupLo) \in DOMAIN Tables
    BY TableIndexType, RangeAssumption
  <2>2. Size - 1 \in Indices /\ Ceiling(TableIndex(SetupLo)) \in Int
    BY <2>1, GainTables
  <2>. QED  BY <1>1, <2>1, <2>2, RangeAssumption DEF Reset, SetUp, Call, TypeOK, Modes, SetupMode
<1>2. ASSUME NEW f \in Freqs, Tune(f) PROVE TypeOK'
  <2>1. table' \in DOMAIN Tables
    BY <1>2, TableIndexType DEF Tune
  <2>2. manual' \in [Ch -> Indices]
    BY <1>2, <2>1, ReindexedGain DEF Tune, TypeOK
  <2>. QED  BY <1>2, <2>1, <2>2 DEF Tune, Call, TypeOK
<1>3. ASSUME NEW ch \in Ch, NEW g \in Gains, SetGain(ch, g) PROVE TypeOK'
  <2>1. FindTableIndex(table, g) # NotFound => FindTableIndex(table, g) \in Indices
    <3>1. table \in DOMAIN Tables /\ g \in Int
      BY DEF TypeOK
    <3>2. Ceiling(table) \in Int
      BY <3>1, GainTables
    <3>3. g > Ceiling(table) \/ g <= Ceiling(table)
      BY <3>1, <3>2
    <3>. QED  BY <3>1, <3>3, FoundAbove, FoundWithin
  <2>. QED  BY <1>3, <2>1 DEF SetGain, Call, TypeOK
<1>4. ASSUME NEW ch \in Ch, NEW m \in Modes \cup {NoMode}, SetMode(ch, m) PROVE TypeOK'
  BY <1>4 DEF SetMode, Call, TypeOK
<1>5. ASSUME NEW c \in Clocks, ChangeClocks(c) PROVE TypeOK'
  BY <1>5 DEF ChangeClocks, Call, TypeOK
<1>6. CASE UNCHANGED vars
  BY <1>6 DEF vars, TypeOK
<1>. QED  BY <1>1, <1>2, <1>3, <1>4, <1>5, <1>6 DEF Next

\* The tables loaded grow by the new one: so do the highest floor and the lowest ceiling.
LEMMA CutReindexed ==
  ASSUME NEW a \in DOMAIN Tables, NEW t \in DOMAIN Tables, NEW s \in SUBSET DOMAIN Tables,
         NEW i \in Indices, NEW w \in Int, NEW b \in s, NEW c \in s,
         Cut(s, Tables[a][i], w, b, c)
  PROVE  \E high, low \in s \cup {t} :
             Cut(s \cup {t}, Tables[t][Reindexed(a, t, i)], w, high, low)
<1> DEFINE high == IF Floor(b) < Floor(t) THEN t ELSE b
           low == IF Ceiling(c) < Ceiling(t) THEN c ELSE t
<1>1. \A d \in s \cup {t} : Floor(d) \in Int /\ Ceiling(d) \in Int
  BY GainTables
<1>2. high \in s \cup {t} /\ low \in s \cup {t}
  OBVIOUS
<1>3. \A d \in s \cup {t} : Floor(d) <= Floor(high) /\ Ceiling(low) <= Ceiling(d)
  BY <1>1 DEF Cut
<1>4. Tables[a][i] = Clamp(w, Floor(b), Ceiling(c))
  BY DEF Cut
<1>5. Tables[t][Reindexed(a, t, i)] = Clamp(Clamp(w, Floor(b), Ceiling(c)), Floor(t), Ceiling(t))
  BY <1>4, ReindexedGain, SMTT(60)
<1>6. /\ Floor(b) <= Ceiling(c) /\ Floor(b) <= Ceiling(t)
      /\ Floor(t) <= Ceiling(c) /\ Floor(t) <= Ceiling(t)
  BY StepAssumption
<1>7. Clamp(Clamp(w, Floor(b), Ceiling(c)), Floor(t), Ceiling(t))
      = Clamp(w, IF Floor(b) < Floor(t) THEN Floor(t) ELSE Floor(b),
                 IF Ceiling(c) < Ceiling(t) THEN Ceiling(c) ELSE Ceiling(t))
  BY <1>1, <1>6, ClampTwice
<1>8. Tables[t][Reindexed(a, t, i)] = Clamp(w, Floor(high), Ceiling(low))
  BY <1>5, <1>7
<1> HIDE DEF high, low
<1>9. Cut(s \cup {t}, Tables[t][Reindexed(a, t, i)], w, high, low)
  BY <1>3, <1>8 DEF Cut
<1>. QED  BY <1>2, <1>9

\* A gain that the table has room for is taken as it is asked for.
LEMMA CutFound ==
  ASSUME NEW t \in DOMAIN Tables, NEW g \in Int, FindTableIndex(t, g) # NotFound
  PROVE  Cut({t}, Tables[t][FindTableIndex(t, g)], g, t, t)
<1>1. Floor(t) \in Int /\ Ceiling(t) \in Int
  BY GainTables
<1>2. g <= Ceiling(t)
  BY <1>1, FoundAbove
<1>3. Tables[t][FindTableIndex(t, g)] = Clamp(g, Floor(t), Ceiling(t))
  BY <1>1, <1>2, FoundWithin, GainTables DEF Clamp, Least
<1>. QED  BY <1>1, <1>3 DEF Cut

LEMMA GainStep == TypeOK /\ GainInv /\ [Next]_vars => GainInv'
<1> SUFFICES ASSUME TypeOK, GainInv, [Next]_vars PROVE GainInv'
  OBVIOUS
<1> DEFINE Held(ch) ==
      /\ table' \in seen'[ch]
      /\ \E b, c \in seen'[ch] : Cut(seen'[ch], Tables[table'][manual'[ch]], want'[ch], b, c)
<1>0. ASSUME \A ch \in Ch : Held(ch) PROVE GainInv'
  BY <1>0 DEF GainInv, Cut, Clamp, Least, Floor, Ceiling
<1>. HIDE DEF Held
<1>t. /\ table \in DOMAIN Tables
      /\ \A ch \in Ch : /\ seen[ch] \in SUBSET DOMAIN Tables
                        /\ manual[ch] \in Indices /\ want[ch] \in Int
  BY DEF TypeOK
<1>1. CASE Reset
  <2> SUFFICES ASSUME NEW ch \in Ch PROVE Held(ch)
    BY <1>0
  <2>1. PICK t \in DOMAIN Tables : t = TableIndex(SetupLo)
    BY TableIndexType, RangeAssumption
  <2>2. table' = t /\ manual'[ch] = Size - 1 /\ want'[ch] = Ceiling(t) /\ seen'[ch] = {t}
    BY <1>1, <2>1 DEF Reset, SetUp
  <2>. QED  BY <2>2, FreshCut DEF Held
<1>2. ASSUME NEW f \in Freqs, Tune(f) PROVE GainInv'
  <2> SUFFICES ASSUME NEW ch \in Ch PROVE Held(ch)
    BY <1>0
  <2>1. PICK t \in DOMAIN Tables : t = TableIndex(f)
    BY TableIndexType
  <2>2. table' = t /\ want' = want /\ seen'[ch] = seen[ch] \cup {t}
    BY <1>2, <2>1 DEF Tune
  <2>3. PICK b, c \in seen[ch] : Cut(seen[ch], Tables[table][manual[ch]], want[ch], b, c)
    BY DEF GainInv
  <2>4. CASE t = table
    <3>1. manual'[ch] = manual[ch] /\ seen'[ch] = seen[ch]
      BY <1>2, <2>2, <2>4 DEF Tune, GainInv
    <3>. QED  BY <2>2, <2>3, <2>4, <3>1 DEF Held, GainInv
  <2>5. CASE t # table
    <3>1. manual'[ch] = Reindexed(table, t, manual[ch])
      BY <1>2, <2>2, <2>5 DEF Tune
    <3>2. \E high, low \in seen[ch] \cup {t} :
              Cut(seen[ch] \cup {t}, Tables[t][manual'[ch]], want[ch], high, low)
      BY <1>t, <2>3, <3>1, CutReindexed
    <3>. QED  BY <2>2, <3>2 DEF Held
  <2>. QED  BY <2>4, <2>5
<1>3. ASSUME NEW c1 \in Ch, NEW g \in Gains, SetGain(c1, g) PROVE GainInv'
  <2> SUFFICES ASSUME NEW ch \in Ch PROVE Held(ch)
    BY <1>0
  <2> DEFINE i == FindTableIndex(table, g)
  <2>1. table' = table /\ g \in Int
    BY <1>3, GainAssumption DEF SetGain
  <2>2. CASE ch = c1 /\ mode[c1] = "mgc" /\ i # NotFound
    <3>1. manual'[ch] = i /\ want'[ch] = g /\ seen'[ch] = {table}
      BY <1>3, <2>2 DEF SetGain, TypeOK
    <3>2. Cut({table}, Tables[table][i], g, table, table)
      BY <1>t, <2>1, <2>2, CutFound
    <3>. QED  BY <2>1, <3>1, <3>2 DEF Held
  <2>3. CASE ~ (ch = c1 /\ mode[c1] = "mgc" /\ i # NotFound)
    <3>1. manual'[ch] = manual[ch] /\ want'[ch] = want[ch] /\ seen'[ch] = seen[ch]
      BY <1>3, <2>3 DEF SetGain, TypeOK
    <3>. QED  BY <2>1, <3>1 DEF Held, GainInv
  <2>. QED  BY <2>2, <2>3
<1>4. CASE UNCHANGED <<table, manual, want, seen>>
  <2> SUFFICES ASSUME NEW ch \in Ch PROVE Held(ch)
    BY <1>0
  <2>. QED  BY <1>4 DEF Held, GainInv
<1>5. ASSUME NEW c1 \in Ch, NEW m \in Modes \cup {NoMode}, SetMode(c1, m) PROVE GainInv'
  BY <1>4, <1>5 DEF SetMode
<1>6. ASSUME NEW c \in Clocks, ChangeClocks(c) PROVE GainInv'
  BY <1>4, <1>6 DEF ChangeClocks
<1>7. CASE UNCHANGED vars
  BY <1>4, <1>7 DEF vars
<1>. QED  BY <1>1, <1>2, <1>3, <1>5, <1>6, <1>7 DEF Next

LEMMA RegsStep == TypeOK /\ RegsInv /\ [Next]_vars => RegsInv'
<1> SUFFICES ASSUME TypeOK, RegsInv, [Next]_vars PROVE RegsInv'
  OBVIOUS
<1>1. CASE Reset
  BY <1>1 DEF Reset, SetUp, RegsInv, ClockHandler
<1>2. ASSUME NEW ch \in Ch, NEW m \in Modes \cup {NoMode}, SetMode(ch, m) PROVE RegsInv'
  <2>1. \A c \in Ch : agcMode'[c] \in {mode'[c], NoMode}
    BY <1>2 DEF SetMode, RegsInv, TypeOK
  <2>2. CASE m = NoMode
    <3>1. agcMode'[ch] = NoMode /\ regs' = regs /\ clocks' = clocks
      BY <1>2, <2>2 DEF SetMode, TypeOK
    <3>. QED  BY <2>1, <3>1 DEF RegsInv
  <2>3. CASE m # NoMode
    <3>1. regs' = [regs EXCEPT !.agc = GcUpdate(clocks, AnyFast(agcMode'))] /\ clocks' = clocks
      BY <1>2, <2>3 DEF SetMode, Timed
    <3>. QED  BY <2>1, <3>1 DEF RegsInv
  <2>. QED  BY <2>2, <2>3
<1>3. ASSUME NEW c \in Clocks, ChangeClocks(c) PROVE RegsInv'
  BY <1>3 DEF ChangeClocks, RegsInv, ClockHandler
<1>4. CASE UNCHANGED <<regs, clocks, mode, agcMode>>
  BY <1>4 DEF RegsInv
<1>5. ASSUME NEW f \in Freqs, Tune(f) PROVE RegsInv'
  BY <1>4, <1>5 DEF Tune
<1>6. ASSUME NEW ch \in Ch, NEW g \in Gains, SetGain(ch, g) PROVE RegsInv'
  BY <1>4, <1>6 DEF SetGain
<1>7. CASE UNCHANGED vars
  BY <1>4, <1>7 DEF vars
<1>. QED  BY <1>1, <1>2, <1>3, <1>5, <1>6, <1>7 DEF Next

\* The invariant of the gains and of the registers, in every reachable state.
THEOREM GainIInv == Spec => []IInv
<1>1. IInv /\ [Next]_vars => IInv'
  BY TypeStep, GainStep, RegsStep DEF IInv
<1>. QED  BY InitInv, <1>1, PTL DEF Spec

----------------------------------------------------------------------------
(* What the runs check.                                                    *)

\* An index into a gain table never leaves it, and no table is loaded that does not exist.
THEOREM GainTypeOK == Spec => []TypeOK
<1>1. IInv => TypeOK
  BY DEF IInv
<1>. QED  BY GainIInv, <1>1, PTL

\* The highest floor and the lowest ceiling of the tables loaded.
LEMMA CutExpected ==
  ASSUME NEW s \in SUBSET DOMAIN Tables, NEW x, NEW w \in Int, NEW b \in s, NEW c \in s,
         Cut(s, x, w, b, c)
  PROVE  x = Clamp(w, Max({Floor(d) : d \in s}), Min({Ceiling(d) : d \in s}))
<1>1. \A d \in s : Floor(d) \in Int /\ Ceiling(d) \in Int
  BY GainTables
<1>2. Max({Floor(d) : d \in s}) = Floor(b)
  <2> DEFINE F == {Floor(d) : d \in s}
  <2>1. Floor(b) \in F /\ \A y \in F : Floor(b) >= y /\ y \in Int
    BY <1>1 DEF Cut
  <2> HIDE DEF F
  <2>2. \A y \in F : (\A z \in F : y >= z) => y = Floor(b)
    BY <2>1
  <2>3. Max(F) = Floor(b)
    BY <2>1, <2>2 DEF Max
  <2>. QED  BY <2>3 DEF F
<1>3. Min({Ceiling(d) : d \in s}) = Ceiling(c)
  <2> DEFINE F == {Ceiling(d) : d \in s}
  <2>1. Ceiling(c) \in F /\ \A y \in F : Ceiling(c) <= y /\ y \in Int
    BY <1>1 DEF Cut
  <2> HIDE DEF F
  <2>2. \A y \in F : (\A z \in F : y <= z) => y = Ceiling(c)
    BY <2>1
  <2>3. Min(F) = Ceiling(c)
    BY <2>1, <2>2 DEF Min
  <2>. QED  BY <2>3 DEF F
<1>. QED  BY <1>2, <1>3 DEF Cut

\* A manual gain survives any sequence of retunings, mode changes and clock changes, cut
\* only by the ends of the tables that were loaded on the way (ad9361.c:1432-1511).
THEOREM GainKept == Spec => []GainHeld
<1>1. IInv => GainHeld
  <2> SUFFICES ASSUME IInv, NEW ch \in Ch, mode[ch] = "mgc"
               PROVE  ReadGain(ch) = {Expected(ch)}
    BY DEF GainHeld
  <2>1. PICK b, c \in seen[ch] : Cut(seen[ch], Tables[table][manual[ch]], want[ch], b, c)
    BY DEF IInv, GainInv
  <2>2. seen[ch] \in SUBSET DOMAIN Tables /\ want[ch] \in Int
    BY DEF IInv, TypeOK
  <2>3. Tables[table][manual[ch]] = Expected(ch)
    BY <2>1, <2>2, CutExpected DEF Expected
  <2>. QED  BY <2>3 DEF ReadGain
<1>. QED  BY GainIInv, <1>1, PTL

\* The timing of the gain control, the RSSI measurement and the auxiliary ADC are those of
\* the clocks and of the modes, whichever call changed them last (ad9361.c:4357, 2397).
THEOREM RegistersFollow == Spec => []RegistersCurrent
<1>1. IInv => RegistersCurrent
  <2> SUFFICES ASSUME IInv, \A ch \in Ch : agcMode[ch] # NoMode
               PROVE  /\ regs.agc = GcUpdate(clocks, AnyFast(mode))
                      /\ regs.rssi = RssiSetup(clocks.rx)
                      /\ regs.aux = AuxadcSetup(clocks.bbpll)
    BY DEF RegistersCurrent
  <2>1. \A ch \in Ch : agcMode[ch] = mode[ch]
    BY DEF IInv, RegsInv
  <2>2. AnyFast(agcMode) = AnyFast(mode)
    BY <2>1 DEF AnyFast
  <2>. QED  BY <2>2 DEF IInv, RegsInv
<1>. QED  BY GainIInv, <1>1, PTL
=============================================================================
