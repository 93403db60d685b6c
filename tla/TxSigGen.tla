------------------------------ MODULE TxSigGen ------------------------------
(***************************************************************************)
(* The waveform generator of the transmit path, ip_repo/                   *)
(* ad9361_tx_signal_gen/src, with its driver tx_siggen.c.                  *)
(*                                                                         *)
(* Each channel has a memory and plays its first words round and round.    *)
(* The processor fills the memory through four registers.  The write       *)
(* enable is a level: as long as its bit is set, every cycle stores the    *)
(* channel's data register at its address, so each of the driver's         *)
(* register writes is followed by a store before the next one.  Both       *)
(* addresses are fields of one register, which the driver overwrites.      *)
(*                                                                         *)
(* The playing side runs on the converter's clock and sees the sizes and   *)
(* the output enables through synchronisers, one per bit.  Its two halves  *)
(* are the same logic: the model follows that of the Watched channel.      *)
(***************************************************************************)
EXTENDS Integers, Sequences

CONSTANTS AddrBits,    \* width of an address (12)
          Depth,       \* words of a memory: 2 ^ AddrBits
          Half,        \* levels below zero of a stored component (2 ^ 11)
          ResetLast,   \* the size fields after a reset (1023)
          Initial,     \* the value the memories are initialised with
          Datasets,    \* waveforms the callers pass
          Watched,     \* the channel whose output is modelled
          MaxCalls     \* bound: calls of the driver in one behaviour

Channels == {0, 1}
Addr == 0 .. Depth - 1
Levels == 0 .. 2 * Half - 1

\* What the 12 bits kept of an int16 hold, and what the converter is given.
Pack(v) == v % (2 * Half)

\* Mutant: the sign bit is not repeated.
ExtendUnsigned(b) == b

Extend(b) == IF b >= Half THEN b - 2 * Half ELSE b

Samples == -Half .. Half - 1

ASSUME SizeAssumption ==
    AddrBits \in Nat \ {0} /\ Depth \in Nat \ {0} /\ Depth = 2 ^ AddrBits /\ Half \in Nat \ {0}
ASSUME WaveAssumption ==
    /\ Initial \in Samples /\ ResetLast \in Addr
    /\ Datasets \subseteq Seq(Samples)
ASSUME CallAssumption == Watched \in Channels /\ MaxCalls \in Nat

VARIABLES
    reg0,       \* resetn and, per channel, the size, output and write enable
    data,       \* slv_reg1 and slv_reg2
    addr,       \* the two fields of slv_reg3
    mem,        \* the two memories
    pc,         \* the driver's next register access
    job,        \* the arguments of the call in progress and its loop index
    calls,      \* calls made so far
    asked,      \* what each channel was last asked to play
    sync,       \* the watched size and enable on the converter's clock
    counter     \* the address being played

regs == <<reg0, data, addr, mem>>
driver == <<pc, job, calls, asked>>
dac == <<sync, counter>>
vars == <<regs, driver, dac>>

Control == [resetn : BOOLEAN, last : [Channels -> Addr],
            en : [Channels -> BOOLEAN], wen : [Channels -> BOOLEAN]]

Both(v) == [c \in Channels |-> v]

ResetControl ==
    [resetn |-> TRUE, last |-> Both(ResetLast), en |-> Both(TRUE), wen |-> Both(FALSE)]

ClearControl ==
    [resetn |-> FALSE, last |-> Both(0), en |-> Both(FALSE), wen |-> Both(FALSE)]

NoJob == [ch |-> 0, wave |-> <<>>, i |-> 0]

Memory(v) == [a \in Addr |-> v]

TypeOK ==
    /\ reg0 \in Control
    /\ data \in [Channels -> Samples]
    /\ addr \in [Channels -> Addr]
    /\ mem \in [Channels -> [Addr -> Levels]]
    /\ pc \in {"idle", "addr", "data", "end", "reset_addr", "reset_control"}
    /\ job \in [ch : Channels, wave : Datasets \cup {<<>>}, i : 0 .. Depth]
    /\ calls \in 0 .. MaxCalls
    /\ asked \in [Channels -> [last : Addr, en : BOOLEAN, wave : [Addr -> Samples]]]
    /\ sync \in [last : Addr, en : BOOLEAN]
    /\ counter \in Addr

Init ==
    /\ reg0 = ResetControl
    /\ data = Both(0)
    /\ addr = Both(0)
    /\ mem = Both(Memory(Pack(Initial)))
    /\ pc = "idle"
    /\ job = NoJob
    /\ calls = 0
    /\ asked = Both([last |-> ResetLast, en |-> TRUE, wave |-> Memory(Initial)])
    /\ sync = [last |-> ResetLast, en |-> TRUE]
    /\ counter = 0

----------------------------------------------------------------------------
(* Register writes.  None is accepted while resetn is low.                 *)

\* The memories after a cycle in which the registers hold r, a and d.
Stored(r, a, d) ==
    [c \in Channels |-> IF r.wen[c] THEN [mem[c] EXCEPT ![a[c]] = Pack(d[c])] ELSE mem[c]]

Write(r, a, d) ==
    /\ reg0.resetn
    /\ reg0' = r /\ addr' = a /\ data' = d
    /\ mem' = Stored(r, a, d)
    /\ UNCHANGED dac

\* resetn low resets the registers, and raises resetn again.
SelfReset ==
    /\ ~reg0.resetn
    /\ reg0' = ResetControl
    /\ data' = Both(0)
    /\ addr' = Both(0)
    /\ UNCHANGED <<mem, driver, dac>>

----------------------------------------------------------------------------
(* The driver.                                                             *)

Call ==
    /\ pc = "idle" /\ calls < MaxCalls
    /\ calls' = calls + 1

EnDisOutput(c, on) ==
    /\ Call
    /\ Write([reg0 EXCEPT !.en[c] = on], addr, data)
    /\ asked' = [asked EXCEPT ![c].en = on]
    /\ UNCHANGED <<pc, job>>

\* asked[c].wave: the new waveform over what the memory held before.
SetNewDataset(c, wave) ==
    /\ Call
    /\ Len(wave) \in 1 .. Depth
    /\ Write([reg0 EXCEPT !.last[c] = Len(wave) - 1, !.wen[c] = TRUE], addr, data)
    /\ pc' = "addr"
    /\ job' = [ch |-> c, wave |-> wave, i |-> 0]
    /\ asked' = [asked EXCEPT
           ![c].last = Len(wave) - 1,
           ![c].wave = [a \in Addr |-> IF a < Len(wave) THEN wave[a + 1] ELSE @[a]]]

\* The whole register is overwritten: the other channel's address becomes 0.
SetAddress ==
    /\ pc = "addr" /\ pc' = "data"
    /\ Write(reg0, [Both(0) EXCEPT ![job.ch] = job.i], data)
    /\ UNCHANGED <<job, calls, asked>>

SetData ==
    /\ pc = "data"
    /\ pc' = IF job.i + 1 < Len(job.wave) THEN "addr" ELSE "end"
    /\ Write(reg0, addr, [data EXCEPT ![job.ch] = job.wave[job.i + 1]])
    /\ job' = [job EXCEPT !.i = @ + 1]
    /\ UNCHANGED <<calls, asked>>

\* Mutant: the mask that clears the write enables misses channel 1.
EndDatasetMask ==
    /\ pc = "end" /\ pc' = "idle"
    /\ Write([reg0 EXCEPT !.wen[0] = FALSE], addr, data)
    /\ job' = NoJob
    /\ UNCHANGED <<calls, asked>>

EndDataset ==
    /\ pc = "end" /\ pc' = "idle"
    /\ Write([reg0 EXCEPT !.wen = Both(FALSE)], addr, data)
    /\ job' = NoJob
    /\ UNCHANGED <<calls, asked>>

\* tx_siggen_reset, in the order of its writes; the memories keep their words.
ResetData ==
    /\ Call
    /\ pc' = "reset_addr"
    /\ Write(reg0, addr, Both(0))
    /\ UNCHANGED <<job, asked>>

ResetAddr ==
    /\ pc = "reset_addr" /\ pc' = "reset_control"
    /\ Write(reg0, Both(0), data)
    /\ UNCHANGED <<job, calls, asked>>

ResetReg0 ==
    /\ pc = "reset_control" /\ pc' = "idle"
    /\ Write(ClearControl, addr, data)
    /\ asked' = [c \in Channels |->
                    [last |-> ResetLast, en |-> TRUE, wave |-> asked[c].wave]]
    /\ UNCHANGED <<job, calls>>

Access == SetAddress \/ SetData \/ EndDataset \/ ResetAddr \/ ResetReg0

----------------------------------------------------------------------------
(* The converter's clock.                                                  *)

Bit(n, k) == (n \div 2 ^ k) % 2

\* Each bit of a crossing value may arrive at an edge of its own.
Crossing(from, to) ==
    {m \in Addr : \A k \in 0 .. AddrBits - 1 : Bit(m, k) \in {Bit(from, k), Bit(to, k)}}

\* Mutant: the comparison misses a counter that is already past the end.
AdvanceEqual(n, last) == IF n = last THEN 0 ELSE n + 1

\* Mutant: the last sample of the waveform is left out.
AdvanceEarly(n, last) == IF n + 1 >= last THEN 0 ELSE n + 1

Advance(n, last) == IF n >= last THEN 0 ELSE n + 1

DacEdge(last, en) ==
    /\ counter' = Advance(counter, sync.last)
    /\ sync' = [last |-> last, en |-> en]
    /\ UNCHANGED <<regs, driver>>

Dac ==
    \E last \in Crossing(sync.last, reg0.last[Watched]), en \in {sync.en, reg0.en[Watched]} :
        DacEdge(last, en)

\* An edge by which everything has crossed.
Settle == DacEdge(reg0.last[Watched], reg0.en[Watched])

Next ==
    \/ \E c \in Channels, on \in BOOLEAN : EnDisOutput(c, on)
    \/ \E c \in Channels, wave \in Datasets : SetNewDataset(c, wave)
    \/ ResetData
    \/ Access
    \/ SelfReset
    \/ Dac

\* The processor goes on with a call, both clocks run, and a value that stays
\* put crosses in full.
Fairness == WF_vars(Access) /\ WF_vars(SelfReset) /\ WF_vars(Settle)

Spec == Init /\ [][Next]_vars /\ Fairness

----------------------------------------------------------------------------
(* Properties.                                                             *)

Out == IF sync.en THEN Extend(mem[Watched][counter]) ELSE 0

Loading(c) == pc \in {"addr", "data", "end"} /\ job.ch = c

\* A channel that is not being loaded holds exactly what it was asked to play
\* and, behind it, every older word: the level write enable never leaves a
\* stray word at an address the shared register still held, and loading or
\* enabling one channel never reaches the other one's size, enable or memory.
Programmed ==
    \A c \in Channels :
        ~Loading(c) =>
            /\ \A a \in Addr : Extend(mem[c][a]) = asked[c].wave[a]
            /\ reg0.resetn => reg0.last[c] = asked[c].last /\ reg0.en[c] = asked[c].en

\* What the watched channel was last asked to play.
Wave == asked[Watched]

\* Once the driver is left alone, the watched output comes to play the
\* waveform it was asked for and nothing else, also when the new one is shorter
\* than the address being played, and whatever the crossing made of its size.
PlaysOnlyWave ==
    <>[](/\ counter <= Wave.last
         /\ Out = IF Wave.en THEN Wave.wave[counter] ELSE 0)

\* And it plays every sample of it, again and again.
PlaysWholeWave ==
    \A a \in Addr : []<>(a = counter \/ a > Wave.last)
============================================================================
