-------------------------- MODULE TxSigGen_proofs --------------------------
(***************************************************************************)
(* Proofs about TxSigGen for every size of the memories, width of a        *)
(* sample and set of waveforms: type correctness, and that a channel that  *)
(* is not being loaded holds exactly what it was asked to play.            *)
(***************************************************************************)
EXTENDS TxSigGen, TLAPS

\* That the depth is a power of two matters to the crossing only.
LEMMA SizeFacts == Depth \in Nat \ {0} /\ Half \in Nat \ {0}
BY SizeAssumption

USE SizeFacts, WaveAssumption, CallAssumption

----------------------------------------------------------------------------
(* The inductive invariant.                                                *)

LoadPc == {"addr", "data", "end"}

Right(c, a) == Extend(mem[c][a]) = asked[c].wave[a]

\* A write enable is up for the channel being loaded and for no other one, and the
\* control register says what the channels were asked, unless it is being reset.
ControlInv ==
    /\ \A c \in Channels : reg0.wen[c] <=> Loading(c)
    /\ reg0.resetn =>
           \A c \in Channels : reg0.last[c] = asked[c].last /\ reg0.en[c] = asked[c].en
    /\ ~reg0.resetn =>
           /\ pc = "idle"
           /\ \A c \in Channels : asked[c].last = ResetLast /\ asked[c].en

\* What an open write enable would store: at address 0, or the word that is there.
Harmless(c) == addr[c] = 0 \/ mem[c][addr[c]] = Pack(data[c])

\* Half way through a reset the data registers are cleared and the addresses are not.
HarmlessInv ==
    pc # "reset_addr" => \A c \in Channels : ~Loading(c) => Harmless(c)

MemoryInv ==
    \A c \in Channels : ~Loading(c) => \A a \in Addr : Right(c, a)

\* Before turn i of the load loop the words before i and behind the waveform are
\* right; the address register is set between "addr" and "data".
LoadInv ==
    pc \in LoadPc =>
        /\ Len(job.wave) \in 1 .. Depth
        /\ \A a \in Addr : a < Len(job.wave) => asked[job.ch].wave[a] = job.wave[a + 1]
        /\ \A a \in Addr : a < job.i \/ a >= Len(job.wave) => Right(job.ch, a)
        /\ pc = "addr" => job.i < Len(job.wave)
        /\ pc = "data" => job.i < Len(job.wave) /\ addr[job.ch] = job.i
        /\ pc = "end" => job.i = Len(job.wave) /\ Harmless(job.ch)

IInv == TypeOK /\ ControlInv /\ HarmlessInv /\ MemoryInv /\ LoadInv

----------------------------------------------------------------------------
(* Lemmas about the operators.                                             *)

\* The 12 bits that are stored of a sample give it back.
LEMMA PackFacts ==
    \A v \in Samples : Pack(v) \in Levels /\ Extend(Pack(v)) = v
<1> SUFFICES ASSUME NEW v \in Samples PROVE Pack(v) \in Levels /\ Extend(Pack(v)) = v
  OBVIOUS
<1>1. v \in Int /\ -Half <= v /\ v < Half /\ Half \in Int /\ Half > 0
  BY DEF Samples
<1>2. CASE v >= 0
  <2>1. v % (2 * Half) = v
    BY <1>1, <1>2
  <2>. QED  BY <1>1, <1>2, <2>1 DEF Pack, Extend, Levels
<1>3. CASE v < 0
  <2>1. v % (2 * Half) = v + 2 * Half
    BY <1>1, <1>3
  <2>. QED  BY <1>1, <1>3, <2>1 DEF Pack, Extend, Levels
<1>. QED  BY <1>1, <1>2, <1>3

\* The same value for both channels.
LEMMA BothFacts ==
    /\ \A v : \A c \in Channels : Both(v)[c] = v
    /\ \A S : \A v \in S : Both(v) \in [Channels -> S]
BY DEF Both

LEMMA ControlFacts ==
    /\ ResetControl \in Control /\ ClearControl \in Control
    /\ 0 \in Addr /\ 0 \in Samples
BY DEF ResetControl, ClearControl, Control, Both, Addr, Samples

\* What a register write does: it is accepted, the registers hold the new values, and
\* a channel whose write enable is then up stores its word at its address.
LEMMA WriteFacts ==
    ASSUME TypeOK, NEW r \in Control, NEW a \in [Channels -> Addr],
           NEW d \in [Channels -> Samples], Write(r, a, d)
    PROVE  /\ reg0.resetn /\ reg0' = r /\ addr' = a /\ data' = d
           /\ mem' \in [Channels -> [Addr -> Levels]]
           /\ \A c \in Channels, x \in Addr :
                  mem'[c][x] = IF r.wen[c] /\ x = a[c] THEN Pack(d[c]) ELSE mem[c][x]
           /\ sync' = sync /\ counter' = counter
<1>1. /\ reg0.resetn /\ reg0' = r /\ addr' = a /\ data' = d /\ mem' = Stored(r, a, d)
      /\ sync' = sync /\ counter' = counter
  BY DEF Write, dac
<1>2. mem \in [Channels -> [Addr -> Levels]]
  BY DEF TypeOK
<1>3. ASSUME NEW c \in Channels
      PROVE  /\ mem'[c] \in [Addr -> Levels]
             /\ \A x \in Addr :
                  mem'[c][x] = IF r.wen[c] /\ x = a[c] THEN Pack(d[c]) ELSE mem[c][x]
  <2>1. mem'[c] = IF r.wen[c] THEN [mem[c] EXCEPT ![a[c]] = Pack(d[c])] ELSE mem[c]
    BY <1>1 DEF Stored
  <2>2. mem[c] \in [Addr -> Levels] /\ a[c] \in Addr /\ Pack(d[c]) \in Levels
    BY <1>2, PackFacts
  <2>. QED  BY <2>1, <2>2
<1>4. mem' \in [Channels -> [Addr -> Levels]]
  <2>1. mem' = [c \in Channels |-> mem'[c]]
    BY <1>1 DEF Stored
  <2>. QED  BY <2>1, <1>3
<1>. QED  BY <1>1, <1>3, <1>4

\* The counter of the converter's side never leaves the memory.
LEMMA DacType ==
    ASSUME TypeOK, NEW last \in Addr, NEW en \in BOOLEAN, DacEdge(last, en)
    PROVE  TypeOK'
<1>1. Advance(counter, sync.last) \in Addr
  BY DEF TypeOK, Advance, Addr
<1>. QED  BY <1>1 DEF TypeOK, DacEdge, regs, driver

\* What a channel is asked: size, output enable and the words of its memory.
Request == [last : Addr, en : BOOLEAN, wave : [Addr -> Samples]]

\* A waveform over the words a memory held.
NewWave(old, wave) == [a \in Addr |-> IF a < Len(wave) THEN wave[a + 1] ELSE old[a]]

\* What the memory is to hold once a waveform is loaded over the old words.
LEMMA NewWaveFacts ==
    ASSUME NEW old \in [Addr -> Samples], NEW wave \in Seq(Samples)
    PROVE  /\ NewWave(old, wave) \in [Addr -> Samples]
           /\ \A a \in Addr : a < Len(wave) => NewWave(old, wave)[a] = wave[a + 1]
           /\ \A a \in Addr : a >= Len(wave) => NewWave(old, wave)[a] = old[a]
BY DEF NewWave, Addr

\* Changing what one channel is asked leaves the other one's request.
LEMMA AskFacts ==
    ASSUME TypeOK, NEW c \in Channels, NEW q \in Request, asked' = [asked EXCEPT ![c] = q]
    PROVE  /\ asked' \in [Channels -> Request]
           /\ \A b \in Channels : asked'[b] = IF b = c THEN q ELSE asked[b]
<1>1. asked \in [Channels -> Request]
  BY DEF TypeOK, Request
<1>. QED  BY <1>1

\* The control register with one channel's enable changed, and with one channel's size
\* set and its write enable up: the other fields stay.
WithEnable(k, c, on) == [k EXCEPT !.en[c] = on]

LEMMA EnableField ==
    ASSUME NEW k \in Control, NEW c \in Channels, NEW on \in BOOLEAN,
           NEW r, r = WithEnable(k, c, on)
    PROVE  /\ r \in Control /\ r.resetn = k.resetn /\ r.last = k.last /\ r.wen = k.wen
           /\ \A b \in Channels : r.en[b] = IF b = c THEN on ELSE k.en[b]
<1> DEFINE e == [k.en EXCEPT ![c] = on]
<1>1. e \in [Channels -> BOOLEAN] /\ \A b \in Channels : e[b] = IF b = c THEN on ELSE k.en[b]
  BY DEF Control
<1>2. r = [k EXCEPT !.en = e]
  BY DEF WithEnable
<1> HIDE DEF e
<1>3. r.en = e
  BY <1>2 DEF Control
<1>4. r \in Control /\ r.resetn = k.resetn /\ r.last = k.last /\ r.wen = k.wen
  BY <1>1, <1>2 DEF Control
<1>. QED  BY <1>1, <1>3, <1>4

WithLoad(k, c, n) == [k EXCEPT !.last[c] = n, !.wen[c] = TRUE]

LEMMA LoadFields ==
    ASSUME NEW k \in Control, NEW c \in Channels, NEW n \in Addr
    PROVE  LET r == WithLoad(k, c, n) IN
           /\ r \in Control /\ r.resetn = k.resetn /\ r.en = k.en
           /\ r.last[c] = n /\ \A b \in Channels : b # c => r.last[b] = k.last[b]
           /\ r.wen[c] /\ \A b \in Channels : b # c => r.wen[b] = k.wen[b]
<1> DEFINE l == [k.last EXCEPT ![c] = n]
           e == [k.wen EXCEPT ![c] = TRUE]
<1>1. /\ l \in [Channels -> Addr] /\ e \in [Channels -> BOOLEAN]
      /\ l[c] = n /\ \A b \in Channels : b # c => l[b] = k.last[b]
      /\ e[c] /\ \A b \in Channels : b # c => e[b] = k.wen[b]
  BY DEF Control
<1>2. WithLoad(k, c, n) = [[k EXCEPT !.last = l] EXCEPT !.wen[c] = TRUE]
  BY DEF WithLoad
<1>3. [k EXCEPT !.last = l].wen = k.wen
  BY DEF Control
<1>4. WithLoad(k, c, n) = [[k EXCEPT !.last = l] EXCEPT !.wen = e]
  BY <1>2, <1>3
<1> HIDE DEF l, e
<1>5. LET r == WithLoad(k, c, n) IN
      r.last = l /\ r.wen = e /\ r.resetn = k.resetn /\ r.en = k.en /\ r \in Control
  BY <1>1, <1>4 DEF Control
<1>. QED  BY <1>1, <1>5

\* A register write while no write enable is up leaves the memories alone.
LEMMA QuietWrite ==
    ASSUME TypeOK, NEW r \in Control, NEW a, NEW d, Write(r, a, d),
           \A c \in Channels : ~r.wen[c]
    PROVE  mem' = mem
<1>1. mem' = [c \in Channels |-> mem[c]]
  BY DEF Write, Stored
<1>. QED  BY <1>1 DEF TypeOK

----------------------------------------------------------------------------
(* One lemma per action: it keeps the invariant.                           *)

\* No write enable is up, so the write stores nothing.
LEMMA EnDisOutputStep ==
    ASSUME IInv, NEW c \in Channels, NEW on \in BOOLEAN, EnDisOutput(c, on)
    PROVE  IInv'
<1> DEFINE r == WithEnable(reg0, c, on)
<1>1. /\ TypeOK /\ pc = "idle" /\ calls < MaxCalls /\ calls' = calls + 1
      /\ Write(r, addr, data) /\ pc' = pc /\ job' = job
      /\ asked' = [asked EXCEPT ![c].en = on]
  BY DEF EnDisOutput, Call, IInv, WithEnable
<1>0. r = WithEnable(reg0, c, on) /\ reg0 \in Control
  BY <1>1 DEF TypeOK
<1> HIDE DEF r
<1>2. r \in Control /\ addr \in [Channels -> Addr] /\ data \in [Channels -> Samples]
  BY <1>0, <1>1, EnableField DEF TypeOK
<1>3. /\ reg0.resetn /\ reg0' = r /\ addr' = addr /\ data' = data
      /\ sync' = sync /\ counter' = counter
  BY <1>1, <1>2, WriteFacts
<1>4. /\ \A b \in Channels :
             /\ r.last[b] = reg0.last[b] /\ r.wen[b] = reg0.wen[b]
             /\ r.en[b] = IF b = c THEN on ELSE reg0.en[b]
      /\ r.resetn = reg0.resetn
  BY <1>0, EnableField
<1>5. mem' = mem
  <2>1. \A b \in Channels : ~r.wen[b]
    BY <1>1, <1>4 DEF IInv, ControlInv, Loading
  <2>. QED  BY <1>1, <1>2, <2>1, QuietWrite
<1>6. asked' \in [Channels -> Request]
      /\ \A b \in Channels : /\ asked'[b].last = asked[b].last
                             /\ asked'[b].wave = asked[b].wave
                             /\ asked'[b].en = IF b = c THEN on ELSE asked[b].en
  <2> DEFINE q == [asked[c] EXCEPT !.en = on]
  <2>1. asked[c] \in Request
    BY <1>1 DEF TypeOK, Request
  <2>2. q \in Request /\ q.last = asked[c].last /\ q.wave = asked[c].wave /\ q.en = on
    BY <2>1 DEF Request
  <2>3. asked' = [asked EXCEPT ![c] = q]
    BY <1>1
  <2> HIDE DEF q
  <2>4. /\ asked' \in [Channels -> Request]
        /\ \A b \in Channels : asked'[b] = IF b = c THEN q ELSE asked[b]
    BY <1>1, <2>2, <2>3, AskFacts
  <2>5. ASSUME NEW b \in Channels
        PROVE  /\ asked'[b].last = asked[b].last
               /\ asked'[b].wave = asked[b].wave
               /\ asked'[b].en = IF b = c THEN on ELSE asked[b].en
    <3>1. CASE b = c
      BY <3>1, <2>2, <2>4
    <3>2. CASE b # c
      BY <3>2, <2>4
    <3>. QED  BY <3>1, <3>2
  <2>. QED  BY <2>4, <2>5
<1>7. TypeOK'
  <2>1. reg0' \in Control /\ data' \in [Channels -> Samples] /\ addr' \in [Channels -> Addr]
    BY <1>2, <1>3
  <2>2. calls' \in 0 .. MaxCalls
    BY <1>1 DEF TypeOK
  <2>3. asked' \in [Channels -> Request]
    BY <1>6
  <2>. QED  BY <1>1, <1>3, <1>5, <2>1, <2>2, <2>3 DEF TypeOK, Request
<1>8. ControlInv'
  BY <1>1, <1>3, <1>4, <1>6 DEF IInv, ControlInv, Loading
<1>9. HarmlessInv' /\ MemoryInv' /\ LoadInv'
  BY <1>1, <1>3, <1>5, <1>6
  DEF IInv, HarmlessInv, Harmless, MemoryInv, LoadInv, LoadPc, Loading, Right
<1>. QED  BY <1>7, <1>8, <1>9 DEF IInv

\* The write enable goes up while the address and the data are still the old ones: the
\* word this stores lies where the load starts, or was there already.
LEMMA SetNewDatasetStep ==
    ASSUME IInv, NEW c \in Channels, NEW wave \in Datasets, SetNewDataset(c, wave)
    PROVE  IInv'
<1> DEFINE n == Len(wave) - 1
           r == WithLoad(reg0, c, n)
<1>1. /\ TypeOK /\ pc = "idle" /\ calls < MaxCalls /\ calls' = calls + 1
      /\ Len(wave) \in 1 .. Depth /\ wave \in Seq(Samples)
      /\ Write(r, addr, data) /\ pc' = "addr"
      /\ job' = [ch |-> c, wave |-> wave, i |-> 0]
      /\ asked' = [asked EXCEPT
             ![c].last = Len(wave) - 1,
             ![c].wave = [a \in Addr |-> IF a < Len(wave) THEN wave[a + 1] ELSE @[a]]]
  BY DEF SetNewDataset, Call, IInv, WithLoad
<1>0. r = WithLoad(reg0, c, n) /\ reg0 \in Control /\ n = Len(wave) - 1
  BY <1>1 DEF TypeOK
<1> HIDE DEF r, n
<1>2. r \in Control /\ addr \in [Channels -> Addr] /\ data \in [Channels -> Samples]
      /\ n \in Addr
  <2>1. n \in Addr
    BY <1>0, <1>1 DEF Addr
  <2>2. r \in Control
    BY <1>0, <2>1, LoadFields
  <2>. QED  BY <1>1, <2>1, <2>2 DEF TypeOK
<1>3. /\ reg0.resetn /\ reg0' = r /\ addr' = addr /\ data' = data
      /\ mem' \in [Channels -> [Addr -> Levels]]
      /\ \A b \in Channels, x \in Addr :
             mem'[b][x] = IF r.wen[b] /\ x = addr[b] THEN Pack(data[b]) ELSE mem[b][x]
      /\ sync' = sync /\ counter' = counter
  BY <1>1, <1>2, WriteFacts
<1>4. /\ r.last[c] = n /\ \A b \in Channels : b # c => r.last[b] = reg0.last[b]
      /\ r.wen[c] /\ \A b \in Channels : b # c => ~r.wen[b]
      /\ r.en = reg0.en /\ r.resetn = reg0.resetn
  <2>1. \A b \in Channels : ~reg0.wen[b]
    BY <1>1 DEF IInv, ControlInv, Loading, TypeOK, Control
  <2>2. /\ r.resetn = reg0.resetn /\ r.en = reg0.en
        /\ r.last[c] = n /\ \A b \in Channels : b # c => r.last[b] = reg0.last[b]
        /\ r.wen[c] /\ \A b \in Channels : b # c => r.wen[b] = reg0.wen[b]
    <3>1. n \in Addr /\ r = WithLoad(reg0, c, n) /\ reg0 \in Control
      BY <1>0, <1>2
    <3>2. r.resetn = reg0.resetn /\ r.en = reg0.en
      BY <3>1, LoadFields
    <3>3. r.last[c] = n /\ r.wen[c]
      BY <3>1, LoadFields
    <3>4. ASSUME NEW b \in Channels, b # c
          PROVE  r.last[b] = reg0.last[b] /\ r.wen[b] = reg0.wen[b]
      BY <3>1, <3>4, LoadFields
    <3>. QED  BY <3>2, <3>3, <3>4
  <2>. QED  BY <2>1, <2>2
<1>5. /\ asked' \in [Channels -> Request]
      /\ \A b \in Channels : b # c => asked'[b] = asked[b]
      /\ asked'[c].last = n /\ asked'[c].en = asked[c].en
      /\ \A a \in Addr : a < Len(wave) => asked'[c].wave[a] = wave[a + 1]
      /\ \A a \in Addr : a >= Len(wave) => asked'[c].wave[a] = asked[c].wave[a]
  <2> DEFINE w == NewWave(asked[c].wave, wave)
             q == [asked[c] EXCEPT !.last = n, !.wave = w]
  <2>1. asked[c] \in Request
    BY <1>1 DEF TypeOK, Request
  <2>2. /\ w \in [Addr -> Samples]
        /\ \A a \in Addr : a < Len(wave) => w[a] = wave[a + 1]
        /\ \A a \in Addr : a >= Len(wave) => w[a] = asked[c].wave[a]
    BY <1>1, <2>1, NewWaveFacts DEF Request
  <2>3. asked' = [asked EXCEPT ![c].last = n, ![c].wave = w]
    BY <1>0, <1>1 DEF TypeOK, NewWave
  <2> HIDE DEF w
  <2>4. q \in Request /\ q.last = n /\ q.wave = w /\ q.en = asked[c].en
    BY <1>2, <2>1, <2>2 DEF Request
  <2>5. asked' = [asked EXCEPT ![c] = q]
    BY <2>3
  <2> HIDE DEF q
  <2>6. asked' \in [Channels -> Request]
    BY <1>1, <2>4, <2>5, AskFacts
  <2>7. asked'[c] = q /\ \A b \in Channels : b # c => asked'[b] = asked[b]
    BY <1>1, <2>4, <2>5, AskFacts
  <2>8. asked'[c].wave = w /\ asked'[c].last = n /\ asked'[c].en = asked[c].en
    BY <2>4, <2>7
  <2>. QED  BY <2>2, <2>6, <2>7, <2>8
<1>6. TypeOK'
  <2>1. job' \in [ch : Channels, wave : Datasets \cup {<<>>}, i : 0 .. Depth]
    BY <1>1
  <2>2. calls' \in 0 .. MaxCalls
    BY <1>1 DEF TypeOK
  <2>. QED  BY <1>1, <1>2, <1>3, <1>5, <2>1, <2>2 DEF TypeOK, Request
<1>7. \A b \in Channels : Loading(b)' <=> b = c
  BY <1>1 DEF Loading
<1>8. \A b \in Channels : ~Loading(b)
  BY <1>1 DEF Loading
<1>9. ControlInv'
  BY <1>1, <1>3, <1>4, <1>5, <1>7 DEF IInv, ControlInv
<1>10. HarmlessInv'
  <2>1. ASSUME NEW b \in Channels, b # c PROVE Harmless(b)'
    <3>1. Harmless(b) /\ addr[b] \in Addr
      BY <1>1, <1>8 DEF IInv, HarmlessInv, TypeOK
    <3>2. mem'[b][addr[b]] = mem[b][addr[b]]
      BY <3>1, <2>1, <1>3, <1>4
    <3>. QED  BY <3>1, <3>2, <1>3 DEF Harmless
  <2>. QED  BY <2>1, <1>7 DEF HarmlessInv
<1>11. MemoryInv'
  <2>1. ASSUME NEW b \in Channels, b # c, NEW a \in Addr PROVE Right(b, a)'
    BY <2>1, <1>3, <1>4, <1>5, <1>8 DEF IInv, MemoryInv, Right
  <2>. QED  BY <2>1, <1>7 DEF MemoryInv
<1>12. LoadInv'
  <2>1. ASSUME NEW a \in Addr, a >= Len(wave) PROVE Right(c, a)'
    <3>1. Right(c, a) /\ Harmless(c)
      BY <1>1, <1>8 DEF IInv, MemoryInv, HarmlessInv
    <3>2. mem'[c][a] = mem[c][a]
      <4>1. CASE a # addr[c]
        BY <4>1, <1>3
      <4>2. CASE a = addr[c]
        <5>1. a # 0
          BY <2>1, <1>1
        <5>. QED  BY <4>2, <5>1, <3>1, <1>3 DEF Harmless
      <4>. QED  BY <4>1, <4>2
    <3>3. asked'[c].wave[a] = asked[c].wave[a]
      BY <2>1, <1>1, <1>5 DEF Addr
    <3>. QED  BY <3>1, <3>2, <3>3 DEF Right
  <2>2. \A a \in Addr : ~(a < 0)
    BY DEF Addr
  <2>3. job'.ch = c /\ job'.wave = wave /\ job'.i = 0
    BY <1>1
  <2>4. \A a \in Addr : a < Len(wave) => asked'[c].wave[a] = wave[a + 1]
    BY <1>5
  <2>5. Len(wave) > 0 /\ \A a \in Addr : a < 0 \/ a >= Len(wave) => Right(c, a)'
    BY <1>1, <2>1, <2>2
  <2>. QED  BY <1>1, <2>3, <2>4, <2>5 DEF LoadInv, Right
<1>. QED  BY <1>6, <1>9, <1>10, <1>11, <1>12 DEF IInv

\* The load in progress, spelled out.
LEMMA LoadFacts ==
    ASSUME IInv, pc \in LoadPc
    PROVE  /\ job.ch \in Channels /\ job.wave \in Seq(Samples) /\ job.i \in 0 .. Depth
           /\ reg0 \in Control /\ reg0.resetn /\ reg0.wen[job.ch]
           /\ \A b \in Channels : b # job.ch => ~reg0.wen[b]
           /\ \A b \in Channels : Loading(b) <=> b = job.ch
           /\ Len(job.wave) \in 1 .. Depth
           /\ \A a \in Addr : a < Len(job.wave) => asked[job.ch].wave[a] = job.wave[a + 1]
           /\ \A a \in Addr : a < job.i \/ a >= Len(job.wave) => Right(job.ch, a)
<1>1. /\ job.ch \in Channels /\ job.wave \in Seq(Samples) /\ job.i \in 0 .. Depth
      /\ reg0 \in Control
  <2>1. job.wave \in Datasets \/ job.wave = <<>>
    BY DEF IInv, TypeOK
  <2>3. <<>> \in Seq(Samples)
    OBVIOUS
  <2>2. job.wave \in Seq(Samples)
    BY <2>1, <2>3, WaveAssumption, Zenon
  <2>. QED  BY <2>2 DEF IInv, TypeOK
<1>2. \A b \in Channels : Loading(b) <=> b = job.ch
  BY DEF Loading, LoadPc
<1>3. reg0.resetn /\ \A b \in Channels : reg0.wen[b] <=> b = job.ch
  BY <1>2 DEF IInv, ControlInv, LoadPc, TypeOK, Control
<1>. QED  BY <1>1, <1>2, <1>3 DEF IInv, LoadInv

\* The address register is written: the other channel's address becomes 0, and the old
\* word is stored where the new one belongs.
LEMMA SetAddressStep ==
    ASSUME IInv, SetAddress
    PROVE  IInv'
<1> DEFINE a == [Both(0) EXCEPT ![job.ch] = job.i]
<1>1. /\ TypeOK /\ pc = "addr" /\ pc' = "data" /\ Write(reg0, a, data)
      /\ job' = job /\ calls' = calls /\ asked' = asked
  BY DEF SetAddress, IInv
<1>2. /\ job.ch \in Channels /\ reg0 \in Control /\ data \in [Channels -> Samples]
      /\ job.i \in Addr /\ job.i < Len(job.wave)
      /\ \A b \in Channels : Loading(b) <=> b = job.ch
      /\ \A b \in Channels : b # job.ch => ~reg0.wen[b]
      /\ \A x \in Addr : x < job.i \/ x >= Len(job.wave) => Right(job.ch, x)
  BY SMTT(60), <1>1, LoadFacts DEF IInv, TypeOK, LoadInv, LoadPc, Addr
<1>3. a \in [Channels -> Addr] /\ a[job.ch] = job.i /\ \A b \in Channels : b # job.ch => a[b] = 0
  BY <1>2, ControlFacts DEF Both
<1> HIDE DEF a
<1>4. /\ reg0' = reg0 /\ addr' = a /\ data' = data
      /\ mem' \in [Channels -> [Addr -> Levels]]
      /\ \A b \in Channels, x \in Addr :
             mem'[b][x] = IF reg0.wen[b] /\ x = a[b] THEN Pack(data[b]) ELSE mem[b][x]
      /\ sync' = sync /\ counter' = counter
  BY <1>1, <1>2, <1>3, WriteFacts
<1>5. TypeOK'
  BY <1>1, <1>2, <1>3, <1>4 DEF TypeOK
<1>6. \A b \in Channels : Loading(b)' <=> Loading(b)
  BY <1>1 DEF Loading
<1>7. ControlInv'
  BY <1>1, <1>4, <1>6 DEF IInv, ControlInv
<1>8. HarmlessInv'
  BY <1>2, <1>3, <1>4, <1>6 DEF HarmlessInv, Harmless
<1>9. MemoryInv'
  <2>1. ASSUME NEW b \in Channels, b # job.ch, NEW x \in Addr PROVE Right(b, x)'
    BY <2>1, <1>1, <1>2, <1>4 DEF IInv, MemoryInv, Right
  <2>. QED  BY <2>1, <1>2, <1>6 DEF MemoryInv
<1>10. LoadInv'
  <2>1. ASSUME NEW x \in Addr, x < job.i \/ x >= Len(job.wave) PROVE Right(job.ch, x)'
    <3>1. x # a[job.ch]
      BY <2>1, <1>2, <1>3, LoadFacts, <1>1 DEF Addr, LoadPc
    <3>2. mem'[job.ch][x] = mem[job.ch][x]
      BY <3>1, <1>2, <1>4
    <3>. QED  BY <2>1, <3>2, <1>1, <1>2 DEF Right
  <2>2. Len(job.wave) \in 1 .. Depth
        /\ \A x \in Addr : x < Len(job.wave) => asked[job.ch].wave[x] = job.wave[x + 1]
    BY <1>1, LoadFacts DEF LoadPc
  <2>. QED  BY <2>1, <2>2, <1>1, <1>2, <1>3, <1>4 DEF LoadInv, Right
<1>. QED  BY <1>5, <1>7, <1>8, <1>9, <1>10 DEF IInv

\* The data register is written, and with it the word at the index of the loop.
LEMMA SetDataStep ==
    ASSUME IInv, SetData
    PROVE  IInv'
<1> DEFINE d == [data EXCEPT ![job.ch] = job.wave[job.i + 1]]
<1>1. /\ TypeOK /\ pc = "data" /\ Write(reg0, addr, d)
      /\ pc' = IF job.i + 1 < Len(job.wave) THEN "addr" ELSE "end"
      /\ job' = [job EXCEPT !.i = @ + 1] /\ calls' = calls /\ asked' = asked
  BY DEF SetData, IInv
<1>2. /\ job.ch \in Channels /\ reg0 \in Control /\ addr \in [Channels -> Addr]
      /\ job.i \in Addr /\ job.i < Len(job.wave) /\ addr[job.ch] = job.i
      /\ \A b \in Channels : Loading(b) <=> b = job.ch
      /\ reg0.wen[job.ch] /\ \A b \in Channels : b # job.ch => ~reg0.wen[b]
      /\ \A x \in Addr : x < job.i \/ x >= Len(job.wave) => Right(job.ch, x)
  BY SMTT(60), <1>1, LoadFacts DEF IInv, TypeOK, LoadInv, LoadPc, Addr
<1>3. /\ job.wave \in Seq(Samples) /\ Len(job.wave) \in 1 .. Depth /\ job.i \in 0 .. Depth
      /\ \A x \in Addr : x < Len(job.wave) => asked[job.ch].wave[x] = job.wave[x + 1]
  BY <1>1, LoadFacts DEF LoadPc
<1>4. job.wave[job.i + 1] \in Samples
  BY <1>2, <1>3
<1>5. /\ d \in [Channels -> Samples] /\ d[job.ch] = job.wave[job.i + 1]
      /\ \A b \in Channels : b # job.ch => d[b] = data[b]
  BY <1>1, <1>2, <1>4 DEF TypeOK
<1> HIDE DEF d
<1>6. /\ reg0' = reg0 /\ addr' = addr /\ data' = d
      /\ mem' \in [Channels -> [Addr -> Levels]]
      /\ \A b \in Channels, x \in Addr :
             mem'[b][x] = IF reg0.wen[b] /\ x = addr[b] THEN Pack(d[b]) ELSE mem[b][x]
      /\ sync' = sync /\ counter' = counter
  BY <1>1, <1>2, <1>5, WriteFacts
<1>7. /\ job' \in [ch : Channels, wave : Datasets \cup {<<>>}, i : 0 .. Depth]
      /\ job'.ch = job.ch /\ job'.wave = job.wave /\ job'.i = job.i + 1
  <2>1. job \in [ch : Channels, wave : Datasets \cup {<<>>}, i : 0 .. Depth]
    BY <1>1 DEF TypeOK
  <2>2. job.i + 1 \in 0 .. Depth
    BY <1>2, <1>3
  <2>. QED  BY <1>1, <2>1, <2>2
<1>8. TypeOK'
  BY <1>1, <1>2, <1>5, <1>6, <1>7 DEF TypeOK
<1>9. \A b \in Channels : Loading(b)' <=> Loading(b)
  BY <1>1, <1>7 DEF Loading
<1>10. ControlInv'
  BY <1>1, <1>6, <1>9 DEF IInv, ControlInv
<1>11. ASSUME NEW b \in Channels, b # job.ch
       PROVE  mem'[b] = mem[b] /\ (\A x \in Addr : Right(b, x)') /\ Harmless(b)'
  <2>1. \A x \in Addr : mem'[b][x] = mem[b][x]
    BY <1>11, <1>2, <1>6
  <2>2. mem[b] \in [Addr -> Levels] /\ mem'[b] \in [Addr -> Levels]
    BY <1>1, <1>6 DEF TypeOK
  <2>3. mem'[b] = mem[b]
    BY <2>1, <2>2
  <2>4. (\A x \in Addr : Right(b, x)) /\ Harmless(b)
    BY <1>1, <1>2, <1>11 DEF IInv, MemoryInv, HarmlessInv
  <2>. QED  BY <2>3, <2>4, <1>1, <1>5, <1>6, <1>11 DEF Right, Harmless
<1>12. HarmlessInv' /\ MemoryInv'
  BY <1>2, <1>9, <1>11 DEF HarmlessInv, MemoryInv
<1>13. mem'[job.ch][job.i] = Pack(job.wave[job.i + 1])
  BY <1>2, <1>5, <1>6
<1>14. Extend(mem'[job.ch][job.i]) = asked'[job.ch].wave[job.i]
  <2>1. Extend(Pack(job.wave[job.i + 1])) = job.wave[job.i + 1]
    BY <1>4, PackFacts
  <2>2. asked'[job.ch].wave[job.i] = job.wave[job.i + 1]
    BY <1>1, <1>2, <1>3
  <2>. QED  BY <1>13, <2>1, <2>2
<1>15. ASSUME NEW x \in Addr, x < job.i + 1 \/ x >= Len(job.wave)
       PROVE  Extend(mem'[job.ch][x]) = asked'[job.ch].wave[x]
  <2>1. CASE x = job.i
    BY <2>1, <1>14
  <2>2. CASE x # job.i
    <3>1. x < job.i \/ x >= Len(job.wave)
      BY <2>2, <1>15, <1>2 DEF Addr
    <3>2. mem'[job.ch][x] = mem[job.ch][x]
      BY <2>2, <1>2, <1>6
    <3>. QED  BY <3>1, <3>2, <1>1, <1>2 DEF Right
  <2>. QED  BY <2>1, <2>2
<1>16. pc' = "end" => job'.i = Len(job'.wave)
                        /\ mem'[job.ch][addr'[job.ch]] = Pack(data'[job.ch])
  <2>1. pc' = "end" => job.i + 1 = Len(job.wave)
    BY <1>1, <1>2, <1>3
  <2>2. mem'[job.ch][addr'[job.ch]] = Pack(data'[job.ch])
    BY <1>2, <1>5, <1>6, <1>13
  <2>. QED  BY <2>1, <2>2, <1>7
<1>17. pc' = "addr" => job'.i < Len(job'.wave)
  BY <1>1, <1>7
<1>18. pc' # "data"
  BY <1>1
<1>19. LoadInv'
  <2>1. \A x \in Addr : x < Len(job'.wave) => asked'[job'.ch].wave[x] = job'.wave[x + 1]
    BY <1>1, <1>3, <1>7
  <2>2. \A x \in Addr : x < job'.i \/ x >= Len(job'.wave) => Right(job.ch, x)'
    <3> SUFFICES ASSUME NEW x \in Addr, x < job'.i \/ x >= Len(job'.wave)
                 PROVE  Extend(mem'[job.ch][x]) = asked'[job.ch].wave[x]
      BY <1>7 DEF Right
    <3>. QED  BY <1>7, <1>15
  <2>3. pc' = "end" => Harmless(job.ch)'
    BY <1>7, <1>16 DEF Harmless
  <2>4. Len(job'.wave) \in 1 .. Depth
    BY <1>3, <1>7
  <2>. QED  BY <1>16, <1>17, <1>18, <2>1, <2>2, <2>3, <2>4 DEF LoadInv
<1>. QED  BY <1>8, <1>10, <1>12, <1>19 DEF IInv

\* The write enable goes down and no store follows: what was loaded stays.
LEMMA EndDatasetStep ==
    ASSUME IInv, EndDataset
    PROVE  IInv'
<1> DEFINE r == [reg0 EXCEPT !.wen = Both(FALSE)]
<1>1. /\ TypeOK /\ pc = "end" /\ pc' = "idle" /\ Write(r, addr, data)
      /\ job' = NoJob /\ calls' = calls /\ asked' = asked
  BY DEF EndDataset, IInv
<1>2. /\ reg0 \in Control /\ addr \in [Channels -> Addr] /\ data \in [Channels -> Samples]
      /\ reg0.resetn
  BY <1>1, LoadFacts DEF TypeOK, LoadPc
<1>3. /\ r \in Control /\ r.resetn = reg0.resetn /\ r.last = reg0.last /\ r.en = reg0.en
      /\ r.wen = Both(FALSE)
  BY <1>2, BothFacts DEF Control
<1> HIDE DEF r
<1>4. \A b \in Channels : ~r.wen[b]
  BY <1>3, BothFacts
<1>5. reg0' = r /\ addr' = addr /\ data' = data /\ sync' = sync /\ counter' = counter
  BY <1>1, <1>2, <1>3, WriteFacts
<1>6. mem' = mem
  BY <1>1, <1>3, <1>4, QuietWrite
<1>7. TypeOK'
  <2>1. job' \in [ch : Channels, wave : Datasets \cup {<<>>}, i : 0 .. Depth]
    BY <1>1 DEF NoJob, Channels
  <2>. QED  BY <1>1, <1>2, <1>3, <1>5, <1>6, <2>1 DEF TypeOK
<1>8. \A b \in Channels : ~Loading(b)'
  BY <1>1 DEF Loading
<1>9. ControlInv'
  BY <1>1, <1>2, <1>3, <1>4, <1>5, <1>8 DEF IInv, ControlInv
<1>10. /\ \A b \in Channels : Loading(b) <=> b = job.ch
       /\ \A x \in Addr : Right(job.ch, x)
       /\ Harmless(job.ch)
  BY <1>1, LoadFacts DEF IInv, LoadInv, LoadPc, Addr
<1>11. \A b \in Channels : Harmless(b) /\ \A x \in Addr : Right(b, x)
  BY <1>1, <1>10 DEF IInv, HarmlessInv, MemoryInv
<1>12. HarmlessInv' /\ MemoryInv'
  BY <1>1, <1>5, <1>6, <1>11 DEF HarmlessInv, MemoryInv, Harmless, Right
<1>13. LoadInv'
  BY <1>1 DEF LoadInv, LoadPc
<1>. QED  BY <1>7, <1>9, <1>12, <1>13 DEF IInv

\* The reset's three writes find every write enable down.
LEMMA ResetDataStep ==
    ASSUME IInv, ResetData
    PROVE  IInv'
<1>1. /\ TypeOK /\ pc = "idle" /\ pc' = "reset_addr" /\ Write(reg0, addr, Both(0))
      /\ job' = job /\ calls < MaxCalls /\ calls' = calls + 1 /\ asked' = asked
  BY DEF ResetData, Call, IInv
<1>2. /\ reg0 \in Control /\ addr \in [Channels -> Addr] /\ Both(0) \in [Channels -> Samples]
  BY <1>1, BothFacts, ControlFacts DEF TypeOK
<1>3. \A b \in Channels : ~Loading(b) /\ ~Loading(b)' /\ ~reg0.wen[b]
  BY <1>1 DEF Loading, IInv, ControlInv
<1>4. /\ reg0.resetn /\ reg0' = reg0 /\ addr' = addr /\ data' = Both(0)
      /\ sync' = sync /\ counter' = counter
  BY <1>1, <1>2, WriteFacts
<1>5. mem' = mem
  BY <1>1, <1>2, <1>3, QuietWrite
<1>6. TypeOK'
  <2>1. calls' \in 0 .. MaxCalls
    BY <1>1 DEF TypeOK
  <2>. QED  BY <1>1, <1>2, <1>4, <1>5, <2>1 DEF TypeOK
<1>7. ControlInv'
  BY <1>1, <1>3, <1>4 DEF IInv, ControlInv
<1>8. MemoryInv' /\ HarmlessInv' /\ LoadInv'
  BY <1>1, <1>3, <1>5 DEF IInv, MemoryInv, HarmlessInv, LoadInv, LoadPc, Right
<1>. QED  BY <1>6, <1>7, <1>8 DEF IInv

LEMMA ResetAddrStep ==
    ASSUME IInv, ResetAddr
    PROVE  IInv'
<1>1. /\ TypeOK /\ pc = "reset_addr" /\ pc' = "reset_control" /\ Write(reg0, Both(0), data)
      /\ job' = job /\ calls' = calls /\ asked' = asked
  BY DEF ResetAddr, IInv
<1>2. /\ reg0 \in Control /\ Both(0) \in [Channels -> Addr] /\ data \in [Channels -> Samples]
  BY <1>1, BothFacts, ControlFacts DEF TypeOK
<1>3. \A b \in Channels : ~Loading(b) /\ ~Loading(b)' /\ ~reg0.wen[b]
  BY <1>1 DEF Loading, IInv, ControlInv
<1>4. /\ reg0.resetn /\ reg0' = reg0 /\ addr' = Both(0) /\ data' = data
      /\ sync' = sync /\ counter' = counter
  BY <1>1, <1>2, WriteFacts
<1>5. mem' = mem
  BY <1>1, <1>2, <1>3, QuietWrite
<1>6. TypeOK'
  BY <1>1, <1>2, <1>4, <1>5 DEF TypeOK
<1>7. ControlInv'
  BY <1>1, <1>3, <1>4 DEF IInv, ControlInv
<1>8. HarmlessInv'
  BY <1>4, BothFacts DEF HarmlessInv, Harmless
<1>9. MemoryInv' /\ LoadInv'
  BY <1>1, <1>3, <1>5 DEF IInv, MemoryInv, LoadInv, LoadPc, Right
<1>. QED  BY <1>6, <1>7, <1>8, <1>9 DEF IInv

LEMMA ResetReg0Step ==
    ASSUME IInv, ResetReg0
    PROVE  IInv'
<1>1. /\ TypeOK /\ pc = "reset_control" /\ pc' = "idle" /\ Write(ClearControl, addr, data)
      /\ job' = job /\ calls' = calls
      /\ asked' = [c \in Channels |-> [last |-> ResetLast, en |-> TRUE, wave |-> asked[c].wave]]
  BY DEF ResetReg0, IInv
<1>2. /\ ClearControl \in Control /\ addr \in [Channels -> Addr] /\ data \in [Channels -> Samples]
      /\ ~ClearControl.resetn /\ \A b \in Channels : ~ClearControl.wen[b]
  BY <1>1, ControlFacts DEF TypeOK, ClearControl, Both
<1>3. \A b \in Channels : ~Loading(b) /\ ~Loading(b)'
  BY <1>1 DEF Loading
<1>4. /\ reg0' = ClearControl /\ addr' = addr /\ data' = data
      /\ sync' = sync /\ counter' = counter
  BY <1>1, <1>2, WriteFacts
<1>5. mem' = mem
  BY <1>1, <1>2, QuietWrite
<1>6. /\ asked' \in [Channels -> Request]
      /\ \A b \in Channels : /\ asked'[b].last = ResetLast /\ asked'[b].en
                             /\ asked'[b].wave = asked[b].wave
  <2>1. \A b \in Channels : asked[b].wave \in [Addr -> Samples]
    BY <1>1 DEF TypeOK
  <2>. QED  BY <1>1, <2>1 DEF Request
<1>7. TypeOK'
  BY <1>1, <1>2, <1>4, <1>5, <1>6 DEF TypeOK, Request
<1>8. ControlInv'
  BY <1>1, <1>2, <1>3, <1>4, <1>6 DEF ControlInv
<1>9. HarmlessInv' /\ MemoryInv' /\ LoadInv'
  BY <1>1, <1>3, <1>4, <1>5, <1>6
  DEF IInv, HarmlessInv, Harmless, MemoryInv, LoadInv, LoadPc, Right
<1>. QED  BY <1>7, <1>8, <1>9 DEF IInv

\* The reset puts the size and the enable where they were asked to be.
LEMMA SelfResetStep ==
    ASSUME IInv, SelfReset
    PROVE  IInv'
<1>1. /\ TypeOK /\ ~reg0.resetn /\ reg0' = ResetControl /\ data' = Both(0) /\ addr' = Both(0)
      /\ mem' = mem /\ pc' = pc /\ job' = job /\ calls' = calls /\ asked' = asked
      /\ sync' = sync /\ counter' = counter
  BY DEF SelfReset, IInv, driver, dac
<1>2. pc = "idle" /\ \A b \in Channels : asked[b].last = ResetLast /\ asked[b].en
  BY <1>1 DEF IInv, ControlInv
<1>3. \A b \in Channels : ~Loading(b) /\ ~Loading(b)'
  BY <1>1, <1>2 DEF Loading
<1>4. /\ ResetControl.resetn
      /\ \A b \in Channels : /\ ResetControl.last[b] = ResetLast /\ ResetControl.en[b]
                             /\ ~ResetControl.wen[b]
  BY DEF ResetControl, Both
<1>5. TypeOK'
  BY <1>1, BothFacts, ControlFacts DEF TypeOK
<1>6. asked \in [Channels -> Request]
  BY <1>1 DEF TypeOK, Request
<1>7. ControlInv'
  BY <1>1, <1>2, <1>3, <1>4, <1>6 DEF ControlInv, Request
<1>8. HarmlessInv'
  BY <1>1, BothFacts DEF HarmlessInv, Harmless
<1>9. MemoryInv' /\ LoadInv'
  BY <1>1, <1>2, <1>3 DEF IInv, MemoryInv, LoadInv, LoadPc, Right
<1>. QED  BY <1>5, <1>7, <1>8, <1>9 DEF IInv

\* What the converter's clock moves, the processor's side does not see.
LEMMA DacStep ==
    ASSUME IInv, Dac
    PROVE  IInv'
<1>1. PICK last \in Addr, en \in {sync.en, reg0.en[Watched]} : DacEdge(last, en)
  BY DEF Dac, Crossing
<1>2. en \in BOOLEAN
  BY <1>1 DEF IInv, TypeOK, Control
<1>3. TypeOK'
  BY <1>1, <1>2, DacType DEF IInv
<1>4. UNCHANGED <<reg0, data, addr, mem, pc, job, calls, asked>>
  BY <1>1 DEF DacEdge, regs, driver
<1>. QED  BY <1>3, <1>4
          DEF IInv, ControlInv, HarmlessInv, Harmless, MemoryInv, LoadInv, LoadPc, Loading, Right

----------------------------------------------------------------------------
(* The theorems.                                                           *)

LEMMA InitIInv == Init => IInv
<1> SUFFICES ASSUME Init PROVE IInv
  OBVIOUS
<1>0. /\ reg0 = ResetControl /\ data = Both(0) /\ addr = Both(0) /\ pc = "idle" /\ job = NoJob
      /\ mem = Both(Memory(Pack(Initial))) /\ calls = 0 /\ counter = 0
      /\ asked = Both([last |-> ResetLast, en |-> TRUE, wave |-> Memory(Initial)])
      /\ sync = [last |-> ResetLast, en |-> TRUE]
  BY DEF Init
<1>1. Pack(Initial) \in Levels /\ Extend(Pack(Initial)) = Initial
  BY PackFacts
<1>2. Memory(Pack(Initial)) \in [Addr -> Levels] /\ Memory(Initial) \in [Addr -> Samples]
  BY <1>1 DEF Memory
<1>3. TypeOK
  <2>1. calls \in 0 .. MaxCalls /\ counter \in Addr /\ sync \in [last : Addr, en : BOOLEAN]
    BY <1>0, ControlFacts
  <2>2. job \in [ch : Channels, wave : Datasets \cup {<<>>}, i : 0 .. Depth]
    BY <1>0 DEF NoJob, Channels
  <2>3. [last |-> ResetLast, en |-> TRUE, wave |-> Memory(Initial)] \in Request
    BY <1>2 DEF Request
  <2>4. asked \in [Channels -> Request]
    BY <1>0, <2>3, BothFacts
  <2>5. mem \in [Channels -> [Addr -> Levels]]
    BY <1>0, <1>2, BothFacts
  <2>6. reg0 \in Control /\ data \in [Channels -> Samples] /\ addr \in [Channels -> Addr]
    BY <1>0, BothFacts, ControlFacts
  <2>. QED  BY <1>0, <2>1, <2>2, <2>4, <2>5, <2>6 DEF TypeOK, Request
<1>4. \A c \in Channels : ~Loading(c) /\ mem[c] = Memory(Pack(Initial)) /\ addr[c] = 0
          /\ asked[c] = [last |-> ResetLast, en |-> TRUE, wave |-> Memory(Initial)]
  BY <1>0, BothFacts DEF Loading
<1>5. ControlInv
  <2>1. /\ ResetControl.resetn
        /\ \A b \in Channels : /\ ResetControl.last[b] = ResetLast /\ ResetControl.en[b]
                               /\ ~ResetControl.wen[b]
    BY DEF ResetControl, Both
  <2>2. \A b \in Channels : asked[b].last = ResetLast /\ asked[b].en = TRUE
    BY <1>4
  <2>3. reg0 = ResetControl
    BY <1>0
  <2>4. \A b \in Channels : reg0.last[b] = asked[b].last
    BY <2>1, <2>2, <2>3
  <2>5. \A b \in Channels : reg0.en[b] = asked[b].en
    BY <2>2, <2>3, BothFacts DEF ResetControl
  <2>. QED  BY <1>4, <2>1, <2>3, <2>4, <2>5 DEF ControlInv
<1>6. HarmlessInv /\ LoadInv
  BY <1>0, <1>4 DEF HarmlessInv, Harmless, LoadInv, LoadPc
<1>7. MemoryInv
  <2>1. ASSUME NEW c \in Channels, NEW a \in Addr PROVE Right(c, a)
    <3>1. mem[c][a] = Pack(Initial)
      BY <1>4 DEF Memory
    <3>2. asked[c].wave[a] = Initial
      BY <1>4 DEF Memory
    <3>. QED  BY <1>1, <3>1, <3>2 DEF Right
  <2>. QED  BY <2>1 DEF MemoryInv
<1>. QED  BY <1>3, <1>5, <1>6, <1>7 DEF IInv

LEMMA NextIInv == IInv /\ [Next]_vars => IInv'
<1> SUFFICES ASSUME IInv, [Next]_vars PROVE IInv'
  OBVIOUS
<1>1. ASSUME NEW c \in Channels, NEW on \in BOOLEAN, EnDisOutput(c, on) PROVE IInv'
  BY <1>1, EnDisOutputStep
<1>2. ASSUME NEW c \in Channels, NEW wave \in Datasets, SetNewDataset(c, wave) PROVE IInv'
  BY <1>2, SetNewDatasetStep
<1>3. CASE ResetData
  BY <1>3, ResetDataStep
<1>4. CASE Access
  BY <1>4, SetAddressStep, SetDataStep, EndDatasetStep, ResetAddrStep, ResetReg0Step DEF Access
<1>5. CASE SelfReset
  BY <1>5, SelfResetStep
<1>6. CASE Dac
  BY <1>6, DacStep
<1>7. CASE UNCHANGED vars
  <2>1. UNCHANGED <<reg0, data, addr, mem, pc, job, calls, asked, sync, counter>>
    BY <1>7 DEF vars, regs, driver, dac
  <2>. QED  BY <2>1
            DEF IInv, TypeOK, ControlInv, HarmlessInv, Harmless, MemoryInv, LoadInv, LoadPc,
                Loading, Right
<1>. QED  BY <1>1, <1>2, <1>3, <1>4, <1>5, <1>6, <1>7 DEF Next

\* The registers, the memories and both sides of the crossing keep their widths.
THEOREM TypeCorrect == Spec => []TypeOK
<1>1. IInv => TypeOK
  BY DEF IInv
<1>. QED  BY InitIInv, NextIInv, <1>1, PTL DEF Spec

\* Whatever the driver was asked for and in whatever order: outside a load a channel's
\* memory, size and output enable are exactly what was asked of that channel.
THEOREM ProgrammedHolds == Spec => []Programmed
<1>1. IInv => Programmed
  BY DEF IInv, ControlInv, MemoryInv, Right, Programmed
<1>. QED  BY InitIInv, NextIInv, <1>1, PTL DEF Spec
============================================================================
