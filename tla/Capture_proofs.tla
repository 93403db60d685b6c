-------------------------- MODULE Capture_proofs --------------------------
(***************************************************************************)
(* Proofs about Capture for every FIFO depth, word width, DMA limit and    *)
(* set of requests: type correctness, and that what is read back after a   *)
(* capture without overflow is exactly the run of samples asked for.       *)
(***************************************************************************)
EXTENDS Capture, TLAPS, SequenceTheorems

USE DepthAssumption, StreamAssumption, WidthAssumption, RequestAssumption, DmaAssumption

----------------------------------------------------------------------------
(* Lemmas about the operators.                                             *)

\* Sample numbers and the data counter stay in their ranges.
LEMMA WrapTypes ==
    /\ \A s \in Sample : Succ(s) \in Sample
    /\ \A c \in Word : Incr(c) \in Word
    /\ 0 \in Sample /\ 0 \in Word
BY DEF Sample, Word, Succ, Incr

\* The register offered to the FIFO stands for one beat or none.
LEMMA BeatOfFacts ==
    ASSUME NEW b \in [v : BOOLEAN, d : Sample, l : BOOLEAN]
    PROVE  /\ BeatOf(b) \in Seq(Beat)
           /\ Len(BeatOf(b)) = IF b.v THEN 1 ELSE 0
           /\ b.v => BeatOf(b)[1] = [d |-> b.d, l |-> b.l]
<1> DEFINE x == [d |-> b.d, l |-> b.l]
<1>1. x \in Beat
  BY DEF Beat
<1> HIDE DEF x
<1>2. <<x>> \in Seq(Beat) /\ Len(<<x>>) = 1 /\ <<x>>[1] = x
  BY <1>1
<1>3. <<>> \in Seq(Beat) /\ Len(<<>>) = 0
  BY EmptySeq
<1>4. BeatOf(b) = IF b.v THEN <<x>> ELSE <<>>
  BY DEF BeatOf, x
<1>5. x = [d |-> b.d, l |-> b.l]
  BY DEF x
<1> QED BY <1>2, <1>3, <1>4, <1>5

\* Moving the FIFO's head to memory and a beat into the FIFO leaves the
\* concatenation of memory, FIFO and beat as it was.
LEMMA PipeMove ==
    ASSUME NEW g \in Seq(Beat), NEW f \in Seq(Beat), NEW t \in Seq(Beat), f # <<>>
    PROVE  /\ Append(g, Head(f)) \o (Tail(f) \o t) = (g \o f) \o t
           /\ Append(g, Head(f)) \in Seq(Beat)
           /\ Tail(f) \o t \in Seq(Beat)
<1> DEFINE l == Append(g, Head(f)) \o (Tail(f) \o t)
           r == (g \o f) \o t
<1>1. /\ Head(f) \in Beat /\ Head(f) = f[1] /\ Tail(f) \in Seq(Beat) /\ Len(f) > 0
      /\ Len(Tail(f)) = Len(f) - 1
      /\ \A i \in 1 .. Len(Tail(f)) : Tail(f)[i] = f[i + 1]
  BY HeadTailProperties, EmptySeq
<1>2. /\ Append(g, Head(f)) \in Seq(Beat)
      /\ Len(Append(g, Head(f))) = Len(g) + 1
      /\ \A i \in 1 .. Len(g) : Append(g, Head(f))[i] = g[i]
      /\ Append(g, Head(f))[Len(g) + 1] = f[1]
  BY <1>1, AppendProperties
<1>3. /\ Tail(f) \o t \in Seq(Beat)
      /\ Len(Tail(f) \o t) = Len(f) - 1 + Len(t)
      /\ \A i \in 1 .. Len(f) - 1 + Len(t) : (Tail(f) \o t)[i] =
            IF i <= Len(f) - 1 THEN f[i + 1] ELSE t[i - (Len(f) - 1)]
  BY <1>1, ConcatProperties
<1>4. /\ g \o f \in Seq(Beat)
      /\ Len(g \o f) = Len(g) + Len(f)
      /\ \A i \in 1 .. Len(g) + Len(f) : (g \o f)[i] =
            IF i <= Len(g) THEN g[i] ELSE f[i - Len(g)]
  BY ConcatProperties
<1>5. l \in Seq(Beat) /\ r \in Seq(Beat) /\ Len(l) = Len(r)
  BY <1>1, <1>2, <1>3, <1>4, ConcatProperties
<1>6. ASSUME NEW i \in 1 .. Len(l) PROVE l[i] = r[i]
  <2>1. Len(l) = Len(g) + 1 + (Len(f) - 1 + Len(t))
    BY <1>2, <1>3, ConcatProperties
  <2>2. l[i] = IF i <= Len(g) + 1 THEN Append(g, Head(f))[i]
                                  ELSE (Tail(f) \o t)[i - (Len(g) + 1)]
    BY <1>2, <1>3, <2>1, ConcatProperties
  <2>3. r[i] = IF i <= Len(g) + Len(f) THEN (g \o f)[i]
                                       ELSE t[i - (Len(g) + Len(f))]
    BY <1>4, <1>1, <2>1, ConcatProperties
  <2> HIDE DEF l, r
  <2>4. CASE i <= Len(g)
    BY <2>4, <2>2, <2>3, <1>1, <1>2, <1>4
  <2>5. CASE i = Len(g) + 1
    BY <2>5, <2>2, <2>3, <1>1, <1>2, <1>4
  <2>6. CASE i > Len(g) + 1 /\ i <= Len(g) + Len(f)
    BY <2>6, <2>1, <2>2, <2>3, <1>1, <1>3, <1>4
  <2>7. CASE i > Len(g) + Len(f)
    BY <2>7, <2>1, <2>2, <2>3, <1>1, <1>3, <1>4
  <2> QED BY <2>4, <2>5, <2>6, <2>7, <2>1
<1>7. l = r
  <2> HIDE DEF l, r
  <2> QED BY <1>5, <1>6, SeqEqual
<1> QED BY <1>7, <1>2, <1>3

----------------------------------------------------------------------------
(* Type correctness.                                                       *)

\* What an edge does to the FIFO keeps it a sequence of beats.
LEMMA FifoEdgeType ==
    ASSUME HwTypeOK, NEW pop \in BOOLEAN, FifoEdge(pop)
    PROVE  fifo' \in Seq(Beat) /\ overflow' \in BOOLEAN
<1>1. Pushed \in Seq(Beat)
  BY BeatOfFacts, EmptySeq DEF Pushed, BeatOf, HwTypeOK
<1>2. fifo # <<>> => Tail(fifo) \in Seq(Beat)
  BY HeadTailProperties DEF HwTypeOK
<1> QED BY <1>1, <1>2, ConcatProperties DEF FifoEdge, HwTypeOK

\* Every clock edge of the packager keeps the hardware's types.
LEMMA EdgeType ==
    ASSUME HwTypeOK, NEW valid \in BOOLEAN, NEW pop \in BOOLEAN, Edge(valid, pop)
    PROVE  HwTypeOK'
<1> USE WrapTypes
<1>1. CASE ResetEdge(valid)
  BY <1>1, EmptySeq DEF ResetEdge, HwTypeOK, ResetValue, NoBeat, Consume, States
<1>2. CASE LeaveReset(valid, pop)
  BY <1>2, FifoEdgeType DEF LeaveReset, HwTypeOK, NoBeat, Consume, States
<1>3. CASE Idle(valid, pop)
  BY <1>3, FifoEdgeType DEF Idle, HwTypeOK, Consume, States, Word
<1>4. CASE TakeSample(pop)
  BY <1>4, FifoEdgeType DEF TakeSample, HwTypeOK, Consume, States
<1>5. CASE AwaitSample(pop)
  BY <1>5, FifoEdgeType DEF AwaitSample, HwTypeOK, Consume
<1>6. CASE Completed(valid, pop)
  BY <1>6, FifoEdgeType DEF Completed, HwTypeOK, Consume, States
<1> QED BY <1>1, <1>2, <1>3, <1>4, <1>5, <1>6 DEF Edge

\* The types hold initially and every step keeps them.
LEMMA TypeStep == TypeOK /\ [Next]_vars => TypeOK'
<1> SUFFICES ASSUME TypeOK, [Next]_vars PROVE TypeOK'
  OBVIOUS
<1> USE WrapTypes
<1>1. ASSUME NEW n \in Requests, RequestData(n) PROVE TypeOK'
  BY <1>1 DEF RequestData, Goto, TypeOK, HwTypeOK, hw, Steps
<1>2. CASE DmaReset
  BY <1>2 DEF DmaReset, Goto, TypeOK, HwTypeOK, hw, Steps, DmaOff
<1>3. CASE PackReset
  BY <1>3 DEF PackReset, WriteReg0, Goto, TypeOK, HwTypeOK, Steps
<1>4. CASE ResetCheck
  BY <1>4 DEF ResetCheck, Goto, TypeOK, HwTypeOK, hw, Steps
<1>5. CASE SetSize
  BY <1>5 DEF SetSize, WriteReg2, Goto, TypeOK, HwTypeOK, hw, Steps
<1>6. CASE DmaArm
  BY <1>6 DEF DmaArm, Goto, TypeOK, HwTypeOK, hw, Steps
<1>7. CASE StartTransfer
  BY <1>7 DEF StartTransfer, WriteReg0, Goto, TypeOK, HwTypeOK, Steps
<1>8. CASE Reply
  BY <1>8 DEF Reply, Goto, TypeOK, HwTypeOK, hw, Steps
<1>9. ASSUME NEW valid \in BOOLEAN, NEW ready \in BOOLEAN, Clock(valid, ready)
      PROVE  TypeOK'
  <2>1. HwTypeOK'
    BY <1>9, EdgeType DEF Clock, TypeOK
  <2>2. CASE DmaTake
    <3>1. Head(fifo) \in Beat
      BY <2>2, HeadTailProperties DEF DmaTake, TypeOK, HwTypeOK
    <3>2. got' \in Seq(Beat)
      BY <2>2, <3>1, AppendProperties DEF DmaTake, TypeOK
    <3>3. dma' \in [running : BOOLEAN, idle : BOOLEAN, len : Word]
      BY <2>2, <3>1 DEF DmaTake, TypeOK, Beat
    <3> QED BY <2>1, <3>2, <3>3, <1>9 DEF Clock, TypeOK
  <2>3. CASE UNCHANGED <<dma, got>>
    BY <2>1, <2>3, <1>9 DEF Clock, TypeOK
  <2> QED BY <1>9, <2>2, <2>3 DEF Clock
<1>10. CASE UNCHANGED vars
  BY <1>10 DEF vars, hw, sw, TypeOK, HwTypeOK
<1> QED BY <1>1, <1>2, <1>3, <1>4, <1>5, <1>6, <1>7, <1>8, <1>9, <1>10 DEF Next, Software

\* The types hold in the initial state.
LEMMA InitType == Init => TypeOK
<1> SUFFICES ASSUME Init PROVE TypeOK
  OBVIOUS
<1>1. <<>> \in Seq(Beat)
  BY EmptySeq
<1>2. HwTypeOK
  <2>1. sizeInt \in Nat
    BY DEF Init, HwInit
  <2>2. beat \in [v : BOOLEAN, d : Sample, l : BOOLEAN]
    BY WrapTypes DEF Init, HwInit, NoBeat
  <2> QED BY <1>1, <2>1, <2>2, WrapTypes DEF Init, HwInit, HwTypeOK, States, ResetValue
<1> QED BY <1>1, <1>2, WrapTypes DEF Init, TypeOK, Steps, DmaOff

\* Type correctness of the capture.
THEOREM CaptureTypeOK == Spec => []TypeOK
BY InitType, TypeStep, PTL DEF Spec

----------------------------------------------------------------------------
(* The pipeline: memory, FIFO and the beat offered to it, in stream order. *)

\* Where the beats of the pipeline are.
LEMMA PipeFacts ==
    ASSUME TypeOK
    PROVE  /\ Pipeline \in Seq(Beat)
           /\ Len(got) \in Nat /\ Len(fifo) \in Nat
           /\ Len(Pipeline) = Len(got) + Len(fifo) + (IF beat.v THEN 1 ELSE 0)
           /\ \A i \in 1 .. Len(got) : Pipeline[i] = got[i]
           /\ fifo # <<>> => /\ Len(fifo) >= 1
                             /\ Head(fifo) = Pipeline[Len(got) + 1]
<1>1. got \in Seq(Beat) /\ fifo \in Seq(Beat) /\ BeatOf(beat) \in Seq(Beat)
      /\ Len(BeatOf(beat)) = IF beat.v THEN 1 ELSE 0
  BY BeatOfFacts DEF TypeOK, HwTypeOK
<1>2. /\ got \o fifo \in Seq(Beat)
      /\ Len(got \o fifo) = Len(got) + Len(fifo)
      /\ \A i \in 1 .. Len(got) + Len(fifo) : (got \o fifo)[i] =
            IF i <= Len(got) THEN got[i] ELSE fifo[i - Len(got)]
  BY <1>1, ConcatProperties
<1>3. /\ Pipeline \in Seq(Beat)
      /\ Len(Pipeline) = Len(got \o fifo) + Len(BeatOf(beat))
      /\ \A i \in 1 .. Len(got \o fifo) + Len(BeatOf(beat)) : Pipeline[i] =
            IF i <= Len(got \o fifo) THEN (got \o fifo)[i]
                                     ELSE BeatOf(beat)[i - Len(got \o fifo)]
  BY <1>1, <1>2, ConcatProperties DEF Pipeline
<1>4. Len(got) \in Nat /\ Len(fifo) \in Nat
  BY <1>1, LenProperties
<1>5. \A i \in 1 .. Len(got) : Pipeline[i] = got[i]
  BY <1>1, <1>2, <1>3, <1>4
<1>6. fifo # <<>> => Len(fifo) >= 1 /\ Head(fifo) = fifo[1]
  BY <1>1, <1>4, EmptySeq, HeadTailProperties
<1>7. fifo # <<>> => Head(fifo) = Pipeline[Len(got) + 1]
  BY <1>1, <1>2, <1>3, <1>4, <1>6
<1> QED BY <1>1, <1>2, <1>3, <1>4, <1>5, <1>6, <1>7

\* The reader takes the head of the FIFO exactly when it is popped.
Moved(pop) == IF pop THEN got' = Append(got, Head(fifo)) ELSE got' = got

\* Beats of the pipeline that survive the edge: all but one lost to a full FIFO.
Kept == IF beat.v /\ Full THEN Len(Pipeline) - 1 ELSE Len(Pipeline)

\* An edge appends the beat it registers to the pipeline and changes nothing
\* else in it, except for dropping a beat that meets a full FIFO.
LEMMA PipeEdge ==
    ASSUME TypeOK, TypeOK', NEW pop \in BOOLEAN, FifoEdge(pop), Moved(pop)
    PROVE  /\ Kept \in Nat
           /\ Len(Pipeline') = Kept + (IF beat'.v THEN 1 ELSE 0)
           /\ \A i \in 1 .. Kept : Pipeline'[i] = Pipeline[i]
           /\ beat'.v => Pipeline'[Kept + 1] = [d |-> beat'.d, l |-> beat'.l]
<1> DEFINE tape == got \o fifo
           kept == tape \o Pushed
           b1 == BeatOf(beat')
<1>1. /\ got \in Seq(Beat) /\ fifo \in Seq(Beat) /\ BeatOf(beat) \in Seq(Beat)
      /\ Len(BeatOf(beat)) = IF beat.v THEN 1 ELSE 0
      /\ b1 \in Seq(Beat) /\ Len(b1) = IF beat'.v THEN 1 ELSE 0
      /\ beat'.v => b1[1] = [d |-> beat'.d, l |-> beat'.l]
  BY BeatOfFacts DEF TypeOK, HwTypeOK
<1>2. Pushed = IF beat.v /\ Full THEN <<>> ELSE BeatOf(beat)
  BY DEF Pushed, BeatOf
<1>3. Pushed \in Seq(Beat)
  BY <1>1, <1>2, EmptySeq
<1>4. got' \o fifo' = kept
  <2>1. CASE pop
    <3>1. fifo # <<>> /\ fifo' = Tail(fifo) \o Pushed /\ got' = Append(got, Head(fifo))
      BY <2>1 DEF FifoEdge, Moved
    <3>2. Append(got, Head(fifo)) \o (Tail(fifo) \o Pushed) = (got \o fifo) \o Pushed
      <4>1. fifo # <<>>
        BY <3>1
      <4>2. got \in Seq(Beat) /\ fifo \in Seq(Beat) /\ Pushed \in Seq(Beat)
        BY <1>1, <1>3
      <4> HIDE DEF tape, kept, b1
      <4> QED BY ONLY <4>1, <4>2, PipeMove, ZenonT(60)
    <3> QED BY <3>1, <3>2
  <2>2. CASE ~pop
    <3>1. fifo' = fifo \o Pushed /\ got' = got
      BY <2>2 DEF FifoEdge, Moved
    <3>2. (got \o fifo) \o Pushed = got \o (fifo \o Pushed)
      <4>1. got \in Seq(Beat) /\ fifo \in Seq(Beat) /\ Pushed \in Seq(Beat)
        BY <1>1, <1>3
      <4>2. \A s, t, u \in Seq(Beat) : (s \o t) \o u = s \o (t \o u)
        BY ONLY ConcatAssociative
      <4> QED BY ONLY <4>1, <4>2, Zenon
    <3> QED BY <3>1, <3>2
  <2> QED BY <2>1, <2>2
<1>5. Pipeline' = kept \o b1
  BY <1>4 DEF Pipeline
<1>6. /\ tape \in Seq(Beat) /\ Len(tape) \in Nat
      /\ kept \in Seq(Beat) /\ Len(kept) \in Nat
      /\ Pipeline \in Seq(Beat) /\ Len(Pipeline) = Len(tape) + Len(BeatOf(beat))
      /\ \A i \in 1 .. Len(tape) : Pipeline[i] = tape[i]
  <2>1. tape \in Seq(Beat)
    BY <1>1, ConcatProperties
  <2>2. kept \in Seq(Beat)
    <3> HIDE DEF tape
    <3> QED BY <2>1, <1>3, ConcatProperties
  <2>3. /\ Pipeline \in Seq(Beat)
        /\ Len(Pipeline) = Len(tape) + Len(BeatOf(beat))
        /\ \A i \in 1 .. Len(tape) + Len(BeatOf(beat)) : Pipeline[i] =
              IF i <= Len(tape) THEN tape[i] ELSE BeatOf(beat)[i - Len(tape)]
    <3>1. Pipeline = tape \o BeatOf(beat)
      BY DEF Pipeline
    <3> HIDE DEF tape
    <3> QED BY <3>1, <2>1, <1>1, ConcatProperties
  <2> HIDE DEF tape, kept
  <2>4. Len(tape) \in Nat /\ Len(kept) \in Nat
    BY <2>1, <2>2, LenProperties
  <2> QED BY <2>1, <2>2, <2>3, <2>4, <1>1
<1>7. Len(kept) = Kept /\ \A i \in 1 .. Kept : kept[i] = Pipeline[i]
  <2>1. CASE beat.v /\ Full
    <3>1. kept = tape
      BY <2>1, <1>2, <1>6, ConcatEmptySeq
    <3> QED BY <3>1, <2>1, <1>1, <1>6 DEF Kept
  <2>2. CASE ~(beat.v /\ Full)
    <3>1. kept = Pipeline
      BY <2>2, <1>2 DEF Pipeline
    <3> QED BY <3>1, <2>2 DEF Kept
  <2> QED BY <2>1, <2>2
<1>8. /\ Len(kept \o b1) = Len(kept) + Len(b1)
      /\ \A i \in 1 .. Len(kept) + Len(b1) : (kept \o b1)[i] =
            IF i <= Len(kept) THEN kept[i] ELSE b1[i - Len(kept)]
  <2>1. kept \in Seq(Beat) /\ b1 \in Seq(Beat)
    BY <1>1, <1>6
  <2> HIDE DEF kept, b1
  <2> QED BY ONLY <2>1, ConcatProperties, Zenon
<1> HIDE DEF kept, b1
<1> QED BY <1>1, <1>5, <1>6, <1>7, <1>8, SMTT(60)

----------------------------------------------------------------------------
(* The invariant, by the kind of step.                                     *)

\* What a clock edge does: the hardware moves, the DMA takes a beat or not.
LEMMA ClockMove ==
    ASSUME NEW valid \in BOOLEAN, NEW ready \in BOOLEAN, Clock(valid, ready)
    PROVE  /\ pc' = pc /\ want' = want
           /\ \E pop \in BOOLEAN :
                 /\ Edge(valid, pop)
                 /\ Moved(pop)
                 /\ pop => DmaTake
                 /\ ~pop => UNCHANGED dma
<1>1. CASE Edge(valid, TRUE) /\ DmaTake
  BY <1>1 DEF Clock, Moved, DmaTake
<1>2. CASE Edge(valid, FALSE) /\ UNCHANGED <<dma, got>>
  BY <1>2 DEF Clock, Moved
<1> QED BY <1>1, <1>2 DEF Clock

\* An edge of a live packager is one of the state machine's branches.
LEMMA AliveEdge ==
    ASSUME NEW valid \in BOOLEAN, NEW pop \in BOOLEAN, Edge(valid, pop), Alive
    PROVE  /\ FifoEdge(pop)
           /\ UNCHANGED <<reg0, reg2>>
           /\ \/ LeaveReset(valid, pop) \/ Idle(valid, pop) \/ TakeSample(pop)
              \/ AwaitSample(pop) \/ Completed(valid, pop)
BY DEF Edge, ResetEdge, Alive, LeaveReset, Idle, TakeSample, AwaitSample, Completed

\* A quiet FIFO stays quiet, loses nothing and has nothing to take.
LEMMA QuietEdge ==
    ASSUME TypeOK, NEW pop \in BOOLEAN, FifoEdge(pop), Quiet
    PROVE  fifo' = <<>> /\ overflow' = overflow /\ ~pop
<1>1. Pushed = <<>> /\ ~pop /\ fifo = <<>>
  BY DEF FifoEdge, Quiet, Pushed
<1>2. <<>> \o <<>> = <<>>
  BY EmptySeq, ConcatEmptySeq
<1> QED BY <1>1, <1>2 DEF FifoEdge, Quiet, TypeOK, HwTypeOK

\* Between captures and while one is being set up, nothing is in flight.
LEMMA SetupEdge ==
    ASSUME Inv, TypeOK', NEW valid \in BOOLEAN, NEW ready \in BOOLEAN,
           Clock(valid, ready), pc # "wait"
    PROVE  Inv'
<1>1. /\ pc' = pc /\ want' = want
      /\ \E pop \in BOOLEAN :
            /\ Edge(valid, pop) /\ Moved(pop)
            /\ pop => DmaTake
            /\ ~pop => UNCHANGED dma
  BY ClockMove
<1>2. PICK pop \in BOOLEAN :
            /\ Edge(valid, pop) /\ Moved(pop)
            /\ pop => DmaTake
            /\ ~pop => UNCHANGED dma
  BY <1>1
<1>3. Quiet /\ pc \in Steps
  BY DEF Inv, TypeOK, StageInv, Steps
<1>4. CASE Alive
  <2>1. /\ FifoEdge(pop) /\ UNCHANGED <<reg0, reg2>>
        /\ \/ LeaveReset(valid, pop) \/ Idle(valid, pop) \/ TakeSample(pop)
           \/ AwaitSample(pop) \/ Completed(valid, pop)
    BY <1>2, <1>4, AliveEdge
  <2>2. fifo' = <<>> /\ overflow' = overflow /\ ~pop
    BY <2>1, <1>3, QuietEdge DEF Inv
  <2>3. UNCHANGED <<dma, got>>
    BY <1>2, <2>2 DEF Moved
  <2>4. state # "START_TRANS"
    BY <1>3, <1>4 DEF Inv, StageInv, Steps
  <2>5. Quiet' /\ (state' # "START_TRANS") /\ (state' \in {"RESET", "IDLE"} => ~reg0'.start)
    <3>1. /\ state \in {"RESET", "IDLE"} => ~reg0.start
          /\ state # "START_TRANS" /\ reg0' = reg0 /\ fifo' = <<>> /\ ~beat.v
          /\ beat \in [v : BOOLEAN, d : Sample, l : BOOLEAN]
      BY <1>3, <1>4, <2>1, <2>2, <2>4 DEF Inv, StageInv, Steps, Quiet, TypeOK, HwTypeOK
    <3>2. CASE LeaveReset(valid, pop)
      BY <3>1, <3>2 DEF LeaveReset, NoBeat, Quiet
    <3>3. CASE Idle(valid, pop)
      BY <3>1, <3>3 DEF Idle, Quiet
    <3>4. CASE Completed(valid, pop)
      BY <3>1, <3>4 DEF Completed, Quiet
    <3> QED BY <2>1, <3>1, <3>2, <3>3, <3>4 DEF TakeSample, AwaitSample
  <2>6. pc \in {"reset_check", "set_size", "dma_arm", "start"} =>
            state' = "IDLE" /\ counter' = 0
    BY <2>1, <2>4, <1>4
       DEF LeaveReset, Idle, TakeSample, AwaitSample, Completed, Inv, StageInv
  <2>7. StageInv'
    BY <1>1, <1>3, <1>4, <2>1, <2>2, <2>3, <2>5, <2>6 DEF Inv, StageInv, Alive, Armed
  <2> QED BY <2>7, <1>1 DEF Inv
<1>5. CASE ~Alive
  <2>1. ~pop /\ ResetEdge(valid) /\ pc = "reset_check"
    BY <1>2, <1>3, <1>5 DEF Edge, LeaveReset, Idle, TakeSample, AwaitSample, Completed,
       Inv, StageInv, Steps
  <2>2. UNCHANGED <<dma, got>>
    BY <1>2, <2>1 DEF Moved
  <2>3. StageInv'
    BY <1>1, <2>1, <2>2
       DEF ResetEdge, ResetValue, NoBeat, Quiet, Alive, Inv, StageInv
  <2> QED BY <2>3, <2>1, <1>1 DEF Inv
<1> QED BY <1>4, <1>5

\* While a capture runs, an edge keeps the pipeline in step with the state
\* machine.
LEMMA TransferEdge ==
    ASSUME Inv, TypeOK', NEW valid \in BOOLEAN, NEW pop \in BOOLEAN,
           Edge(valid, pop), Moved(pop), pc = "wait", Armed, want' = want
    PROVE  TransferInv'
<1>1. /\ TypeOK /\ Alive /\ reg0.start /\ reg2 = want /\ TransferInv
      /\ want \in Nat \ {0} /\ want < CntMod
  BY DEF Inv, StageInv, Armed
<1>2. /\ FifoEdge(pop) /\ UNCHANGED <<reg0, reg2>>
      /\ \/ LeaveReset(valid, pop) \/ Idle(valid, pop) \/ TakeSample(pop)
         \/ AwaitSample(pop) \/ Completed(valid, pop)
  BY <1>1, AliveEdge
<1>3. /\ Kept \in Nat
      /\ Len(Pipeline') = Kept + (IF beat'.v THEN 1 ELSE 0)
      /\ \A i \in 1 .. Kept : Pipeline'[i] = Pipeline[i]
      /\ beat'.v => Pipeline'[Kept + 1] = [d |-> beat'.d, l |-> beat'.l]
  BY <1>1, <1>2, PipeEdge
<1>4. Len(Pipeline) \in Nat /\ Kept <= Len(Pipeline)
      /\ (~overflow' => ~overflow /\ Kept = Len(Pipeline))
      /\ counter \in Nat
  BY <1>1, <1>2, PipeFacts, LenProperties DEF FifoEdge, Kept, TypeOK, HwTypeOK, Word
<1>5. CASE LeaveReset(valid, pop) \/ Idle(valid, pop)
  <2>1. Quiet /\ got = <<>> /\ counter = 0 /\ ~overflow /\ ~beat'.v /\ counter' = 0
    BY <1>1, <1>5 DEF LeaveReset, Idle, TransferInv, NoBeat, Quiet
  <2>2. fifo' = <<>> /\ ~overflow' /\ got' = <<>>
    BY <1>1, <1>2, <2>1, QuietEdge DEF Moved
  <2>3. state' \in {"IDLE", "START_TRANS"} /\ (state' = "START_TRANS" => sizeInt' = want)
    BY <1>1, <1>5 DEF LeaveReset, Idle
  <2>4. Len(Pipeline') = 0
    BY <2>1, <2>2, PipeFacts, EmptySeq, <1>3, <1>4, <1>1 DEF Kept, Quiet
  <2> QED BY <1>1, <2>1, <2>2, <2>3, <2>4 DEF TransferInv, Quiet, Cut, Contiguous
<1>6. CASE TakeSample(pop)
  <2>1. /\ state = "START_TRANS" /\ sizeInt = want /\ counter < want
        /\ LastIndex(sizeInt) = want - 1
        /\ beat'.v /\ beat'.d = stream /\ sizeInt' = sizeInt
        /\ stream' = Succ(stream)
    BY <1>1, <1>6 DEF TakeSample, TransferInv, LastIndex, Consume
  <2>2. /\ counter = want - 1 => beat'.l /\ state' = "TRANSFER_COMPLETED" /\ Cut' = want
        /\ counter # want - 1 => /\ ~beat'.l /\ state' = "START_TRANS"
                                 /\ counter' = counter + 1 /\ counter + 1 < want
                                 /\ Cut' = counter + 1
    <3>1. CASE counter = want - 1
      BY <3>1, <1>6, <2>1 DEF TakeSample, Cut
    <3>2. CASE counter # want - 1
      <4>1. ~beat'.l /\ state' = "START_TRANS" /\ counter' = Incr(counter)
        BY <3>2, <1>6, <2>1 DEF TakeSample
      <4>2. Incr(counter) = counter + 1 /\ counter + 1 < want
        BY <3>2, <1>1, <1>4, <2>1 DEF Incr
      <4> QED BY <3>2, <4>1, <4>2 DEF Cut
    <3> QED BY <3>1, <3>2
  <2>3. Len(Pipeline) <= counter /\ (~overflow => Len(Pipeline) = counter)
    BY <1>1, <2>1 DEF TransferInv, Cut
  <2>4. Len(Pipeline') = Kept + 1 /\ Pipeline'[Kept + 1].d = stream
        /\ Pipeline'[Kept + 1].l = beat'.l
    BY <1>3, <2>1
  <2>5. Len(Pipeline') <= Cut' /\ (~overflow' => Len(Pipeline') = Cut')
    <3>1. CASE counter = want - 1
      BY <3>1, <1>1, <1>3, <1>4, <2>2, <2>3, <2>4
    <3>2. CASE counter # want - 1
      BY <3>2, <1>1, <1>3, <1>4, <2>2, <2>3, <2>4
    <3> QED BY <3>1, <3>2
  <2>6. ~overflow' => Contiguous(Pipeline')
    <3> SUFFICES ASSUME ~overflow', NEW i \in 1 .. Len(Pipeline') - 1
                 PROVE  Pipeline'[i + 1].d = Succ(Pipeline'[i].d)
      BY DEF Contiguous
    <3>1. Kept = Len(Pipeline) /\ ~overflow /\ i \in 1 .. Kept
      BY <1>3, <1>4, <2>4
    <3>2. CASE i = Kept
      BY <3>1, <3>2, <1>1, <1>3, <2>1, <2>4 DEF TransferInv
    <3>3. CASE i < Kept
      BY <3>1, <3>3, <1>1, <1>3, <1>4 DEF TransferInv, Contiguous
    <3> QED BY <3>1, <3>2, <3>3, <1>3
  <2>7. Pipeline'[Len(Pipeline')].d = stream /\ Pipeline'[Len(Pipeline')].l = beat'.l
    BY <2>4
  <2>8. \A i \in 1 .. Kept : ~Pipeline'[i].l
    BY <1>1, <1>3, <1>4, <2>1 DEF TransferInv
  <2>9. \A i \in 1 .. Len(Pipeline') : Pipeline'[i].l =>
            i = Len(Pipeline') /\ state' = "TRANSFER_COMPLETED"
    BY <1>3, <2>2, <2>4, <2>8
  <2> QED BY <1>1, <2>1, <2>2, <2>5, <2>6, <2>7, <2>9 DEF TransferInv
<1>7. CASE AwaitSample(pop) \/ Completed(valid, pop)
  <2>1. /\ ~beat'.v /\ state' = state /\ sizeInt' = sizeInt /\ counter' = counter
        /\ Cut' = Cut
        /\ state \in {"START_TRANS", "TRANSFER_COMPLETED"}
        /\ state = "START_TRANS" => stream' = stream
    BY <1>1, <1>7 DEF AwaitSample, Completed, Consume, Cut, TypeOK, HwTypeOK
  <2>2. Len(Pipeline') = Kept /\ Kept <= Len(Pipeline)
    BY <1>3, <1>4, <2>1
  <2>3. Len(Pipeline) <= Cut /\ (~overflow => Len(Pipeline) = Cut /\ Contiguous(Pipeline))
        /\ Cut \in Nat
    BY <1>1, <1>4 DEF TransferInv, Cut
  <2>4. ~overflow' => Len(Pipeline') = Cut' /\ Contiguous(Pipeline')
    BY <1>3, <1>4, <2>1, <2>2, <2>3 DEF Contiguous
  <2>5. ~overflow' /\ state' = "START_TRANS" /\ Len(Pipeline') > 0 =>
            stream' = Succ(Pipeline'[Len(Pipeline')].d)
    BY <1>1, <1>3, <1>4, <2>1, <2>2 DEF TransferInv
  <2>6. \A i \in 1 .. Len(Pipeline') : Pipeline'[i].l =>
            i = Len(Pipeline') /\ state' = "TRANSFER_COMPLETED"
    BY <1>1, <1>3, <1>4, <2>1, <2>2 DEF TransferInv
  <2>7. state' = "TRANSFER_COMPLETED" =>
            Len(Pipeline') < want \/ Pipeline'[Len(Pipeline')].l
    <3>1. CASE Kept = Len(Pipeline)
      BY <3>1, <1>1, <1>3, <1>4, <2>1, <2>2 DEF TransferInv, Cut
    <3>2. CASE Kept < Len(Pipeline)
      BY <3>2, <1>1, <1>4, <2>1, <2>2, <2>3 DEF Cut
    <3> QED BY <3>1, <3>2, <1>3, <1>4
  <2> QED BY <1>1, <2>1, <2>2, <2>3, <2>4, <2>5, <2>6, <2>7, <1>4 DEF TransferInv
<1> QED BY <1>2, <1>5, <1>6, <1>7

\* A completed transfer has left nothing behind, and the packet is complete.
LEMMA IdleMeansComplete ==
    ASSUME Inv, pc = "wait", dma.idle
    PROVE  /\ Armed /\ Quiet /\ ~dma.running
           /\ state = "TRANSFER_COMPLETED"
           /\ Pipeline = got
           /\ Len(got) <= want
<1>1. Armed /\ TypeOK /\ TransferInv /\ DmaInv
  BY DEF Inv
<1>2. Quiet /\ ~dma.running /\ Len(got) > 0 /\ got[Len(got)].l
  BY <1>1 DEF DmaInv, TypeOK
<1>3. Pipeline = got
  <2>1. got \in Seq(Beat)
    BY <1>1 DEF TypeOK
  <2>2. Pipeline = (got \o <<>>) \o <<>>
    BY <1>2 DEF Pipeline, BeatOf, Quiet
  <2>3. got \o <<>> = got
    BY <2>1, ConcatEmptySeq
  <2> QED BY <2>2, <2>3
<1>4. state = "TRANSFER_COMPLETED" /\ Len(got) <= want
  BY <1>1, <1>2, <1>3, PipeFacts DEF TransferInv, Cut
<1> QED BY <1>1, <1>2, <1>3, <1>4

\* While a capture runs, an edge keeps the DMA in step with the pipeline.
LEMMA DmaEdge ==
    ASSUME Inv, TypeOK', NEW valid \in BOOLEAN, NEW pop \in BOOLEAN,
           Edge(valid, pop), Moved(pop), pop => DmaTake, ~pop => UNCHANGED dma,
           pc = "wait", Armed, want' = want
    PROVE  DmaInv'
<1>1. /\ TypeOK /\ Alive /\ TransferInv /\ DmaInv /\ want \in Nat \ {0}
      /\ dma \in [running : BOOLEAN, idle : BOOLEAN, len : Word]
      /\ got \in Seq(Beat) /\ Len(got) \in Nat
  BY LenProperties DEF Inv, StageInv, Armed, TypeOK
<1>2. /\ FifoEdge(pop)
      /\ \/ LeaveReset(valid, pop) \/ Idle(valid, pop) \/ TakeSample(pop)
         \/ AwaitSample(pop) \/ Completed(valid, pop)
  BY <1>1, AliveEdge
<1>3. beat \in [v : BOOLEAN, d : Sample, l : BOOLEAN] /\ fifo \in Seq(Beat)
  BY <1>1 DEF TypeOK, HwTypeOK
<1>4. CASE pop
  <2>1. /\ dma.running /\ fifo # <<>> /\ got' = Append(got, Head(fifo))
        /\ dma' = [dma EXCEPT !.running = ~Head(fifo).l /\ Len(got) + 1 < dma.len,
                              !.idle = Head(fifo).l]
    BY <1>4 DEF DmaTake
  <2>2. /\ Head(fifo) \in Beat /\ Head(fifo) = Pipeline[Len(got) + 1]
        /\ Len(fifo) >= 1
        /\ Len(Pipeline) = Len(got) + Len(fifo) + (IF beat.v THEN 1 ELSE 0)
    BY <1>1, <1>3, <2>1, PipeFacts, HeadTailProperties
  <2>3. Len(got') = Len(got) + 1 /\ got'[Len(got) + 1] = Head(fifo)
    BY <1>1, <2>1, <2>2, AppendProperties
  <2>4. Len(got) < want /\ dma.len = want
    BY <1>1, <2>1 DEF DmaInv
  <2>5. state \in {"START_TRANS", "TRANSFER_COMPLETED"} /\ Len(Pipeline) <= Cut
    BY <1>1, <2>1 DEF TransferInv, Quiet, TypeOK, HwTypeOK, States
  <2>6. CASE Head(fifo).l
    <3>1. Len(got) + 1 = Len(Pipeline) /\ state = "TRANSFER_COMPLETED"
      BY <1>1, <2>2, <2>6, PipeFacts DEF TransferInv
    <3>2. Len(fifo) = 1 /\ ~beat.v
      <4>1. Len(fifo) \in Nat
        BY <1>3, LenProperties
      <4>2. CASE beat.v
        BY <4>1, <4>2, <3>1, <2>2, <1>1
      <4>3. CASE ~beat.v
        <5> DEFINE g == Len(got)
                   f == Len(fifo)
        <5>1. g \in Nat /\ f \in Nat /\ g + 1 = g + f + 0
          BY <1>1, <2>2, <3>1, <4>1, <4>3
        <5> HIDE DEF g, f
        <5>2. f = 1
          BY ONLY <5>1
        <5> QED BY <4>3, <5>2 DEF f
      <4> QED BY <4>2, <4>3
    <3>3. Tail(fifo) = <<>>
      <4>1. Tail(fifo) \in Seq(Beat) /\ Len(Tail(fifo)) = Len(fifo) - 1
        BY <1>3, <2>1, HeadTailProperties
      <4>2. Len(Tail(fifo)) = 0
        BY <4>1, <3>2
      <4> QED BY <4>1, <4>2, EmptySeq
    <3>4. fifo' = <<>>
      BY <1>2, <1>4, <3>2, <3>3, EmptySeq, ConcatEmptySeq DEF FifoEdge, Pushed
    <3>5. ~beat'.v
      BY <1>2, <1>3, <3>1 DEF LeaveReset, Idle, TakeSample, AwaitSample, Completed
    <3>6. dma'.idle /\ ~dma'.running /\ dma'.len = want
      BY <1>1, <2>1, <2>4, <2>6
    <3>7. Len(got') > 0 /\ got'[Len(got')].l
      BY <2>3, <2>6, <1>1
    <3>8. dma'.running <=> ~dma'.idle
      BY <3>6
    <3> QED BY <3>4, <3>5, <3>6, <3>7, <3>8 DEF DmaInv, Quiet
  <2>7. CASE ~Head(fifo).l
    <3>1. Len(got) + 1 < want
      <4>1. CASE state = "START_TRANS"
        BY <4>1, <1>1, <2>2, <2>5, PipeFacts, SMTT(60) DEF TransferInv, Cut, TypeOK, HwTypeOK, Word
      <4>2. CASE state = "TRANSFER_COMPLETED" /\ Len(Pipeline) < want
        BY <4>2, <1>1, <1>3, <2>2, PipeFacts
      <4>3. CASE state = "TRANSFER_COMPLETED" /\ Pipeline[Len(Pipeline)].l
        BY <4>3, <1>1, <1>3, <2>2, <2>5, <2>7, PipeFacts DEF Cut
      <4> QED BY <4>1, <4>2, <4>3, <2>5, <1>1 DEF TransferInv
    <3>2. ~dma'.idle /\ dma'.running /\ dma'.len = want
      BY <1>1, <2>1, <2>4, <2>7, <3>1
    <3> QED BY <3>1, <3>2, <2>3, <1>1 DEF DmaInv
  <2> QED BY <2>6, <2>7
<1>5. CASE ~pop
  <2>1. UNCHANGED <<dma, got>>
    BY <1>5 DEF Moved
  <2>2. dma.idle => Quiet'
    <3> SUFFICES ASSUME dma.idle PROVE Quiet'
      OBVIOUS
    <3>1. Quiet /\ state = "TRANSFER_COMPLETED"
      BY IdleMeansComplete
    <3>2. fifo' = <<>>
      BY <3>1, <1>1, <1>2, QuietEdge
    <3>3. ~beat'.v
      BY <1>2, <1>3, <3>1 DEF LeaveReset, Idle, TakeSample, AwaitSample, Completed
    <3> QED BY <3>2, <3>3 DEF Quiet
  <2> QED BY <1>1, <2>1, <2>2 DEF DmaInv
<1> QED BY <1>4, <1>5

\* Every clock edge of a running capture keeps the invariant.
LEMMA WaitEdge ==
    ASSUME Inv, TypeOK', NEW valid \in BOOLEAN, NEW ready \in BOOLEAN,
           Clock(valid, ready), pc = "wait"
    PROVE  Inv'
<1>1. /\ pc' = pc /\ want' = want
      /\ \E pop \in BOOLEAN :
            /\ Edge(valid, pop) /\ Moved(pop)
            /\ pop => DmaTake
            /\ ~pop => UNCHANGED dma
  BY ClockMove
<1>2. PICK pop \in BOOLEAN :
            /\ Edge(valid, pop) /\ Moved(pop)
            /\ pop => DmaTake
            /\ ~pop => UNCHANGED dma
  BY <1>1
<1>3. Alive /\ reg2 = want /\ reg0.start
  BY DEF Inv, StageInv
<1>4. UNCHANGED <<reg0, reg2>>
  BY <1>2, <1>3, AliveEdge
<1>5. StageInv'
  BY <1>1, <1>3, <1>4 DEF StageInv, Alive
<1>6. CASE Armed
  <2>1. TransferInv' /\ DmaInv'
    BY <1>1, <1>2, <1>6, TransferEdge, DmaEdge
  <2> QED BY <2>1, <1>1, <1>5, <1>6 DEF Inv, Armed
<1>7. CASE ~Armed
  <2>1. ~pop /\ UNCHANGED dma /\ ~dma.running /\ ~dma.idle
    BY <1>2, <1>7 DEF Inv, DmaTake
  <2> QED BY <2>1, <1>1, <1>5, <1>7 DEF Inv, Armed
<1> QED BY <1>6, <1>7

\* Each call of the software sequence keeps the invariant.
LEMMA SoftwareStep ==
    ASSUME Inv, TypeOK', Software \/ \E n \in Requests : RequestData(n)
    PROVE  Inv'
<1> USE DEF Inv, StageInv, Goto, Alive, Quiet
<1>1. CASE \E n \in Requests : RequestData(n)
  BY <1>1 DEF RequestData, hw
<1>2. CASE DmaReset
  BY <1>2 DEF DmaReset, DmaOff, hw
<1>3. CASE PackReset
  BY <1>3 DEF PackReset, WriteReg0
<1>4. CASE ResetCheck
  BY <1>4 DEF ResetCheck, hw
<1>5. CASE SetSize
  BY <1>5 DEF SetSize, WriteReg2
<1>6. CASE DmaArm
  <2>1. /\ pc = "dma_arm" /\ pc' = "start" /\ want' = want /\ UNCHANGED <<hw, got>>
        /\ Armed => dma' = [running |-> TRUE, idle |-> FALSE, len |-> want]
        /\ ~Armed => dma' = dma
    BY <1>6 DEF DmaArm, Armed
  <2>2. Armed' = Armed
    BY <2>1 DEF Armed
  <2>3. (dma'.running <=> Armed) /\ (Armed => dma'.len = want) /\ ~dma'.idle
    BY <2>1
  <2> QED BY <2>1, <2>2, <2>3 DEF hw
<1>7. CASE StartTransfer
  <2>1. /\ pc = "start" /\ pc' = "wait" /\ want' = want /\ UNCHANGED <<dma, got>>
        /\ reg0' = [reg0 EXCEPT !.start = TRUE] /\ Alive
        /\ UNCHANGED <<reg2, state, counter, sizeInt, beat, done, overflow, fifo, stream>>
    BY <1>7 DEF StartTransfer, WriteReg0
  <2>2. /\ Quiet /\ got = <<>> /\ counter = 0 /\ ~overflow /\ ~dma.idle
        /\ state \in {"RESET", "IDLE"}
        /\ (dma.running <=> Armed) /\ (Armed => dma.len = want) /\ reg2 = want
    BY <2>1
  <2>3. reg0'.start /\ reg0'.resetn
    BY <2>1 DEF TypeOK, HwTypeOK
  <2>4. Len(Pipeline') = 0
    <3>1. TypeOK' /\ got' = <<>> /\ fifo' = <<>> /\ ~beat'.v /\ Len(<<>>) = 0
      BY <2>1, <2>2, EmptySeq
    <3> USE DEF Pipeline, BeatOf
    <3>2. Pipeline' = (<<>> \o <<>>) \o <<>>
      BY <3>1
    <3>3. <<>> \o <<>> = <<>>
      BY EmptySeq, ConcatEmptySeq
    <3> QED BY <3>1, <3>2, <3>3
  <2>5. StageInv'
    BY <2>1, <2>2, <2>3
  <2>6. Armed => TransferInv' /\ DmaInv'
    <3> SUFFICES ASSUME Armed PROVE TransferInv' /\ DmaInv'
      OBVIOUS
    <3>1. TransferInv'
      BY <2>1, <2>2, <2>4 DEF TransferInv, Cut, Contiguous
    <3>2. Len(got') = 0 /\ want \in Nat \ {0}
      BY <2>1, <2>2, EmptySeq DEF Armed
    <3> QED BY <3>1, <3>2, <2>1, <2>2 DEF DmaInv
  <2>7. Armed' = Armed /\ (~Armed => ~dma'.running /\ ~dma'.idle)
    BY <2>1, <2>2 DEF Armed
  <2> HIDE DEF StageInv, Goto, Alive, Quiet
  <2> QED BY <2>1, <2>5, <2>6, <2>7
<1>8. CASE Reply
  <2>1. /\ pc = "wait" /\ pc' = "idle" /\ dma.idle /\ UNCHANGED <<hw, want, dma, got>>
    BY <1>8 DEF Reply
  <2>2. /\ Quiet /\ ~dma.running /\ state = "TRANSFER_COMPLETED"
    BY <2>1, IdleMeansComplete
  <2> QED BY <2>1, <2>2 DEF hw
<1> QED BY <1>1, <1>2, <1>3, <1>4, <1>5, <1>6, <1>7, <1>8 DEF Software

\* The invariant is inductive.
LEMMA InvStep == Inv /\ [Next]_vars => Inv'
<1> SUFFICES ASSUME Inv, [Next]_vars PROVE Inv'
  OBVIOUS
<1>1. TypeOK'
  BY TypeStep DEF Inv
<1>2. CASE Software \/ \E n \in Requests : RequestData(n)
  BY <1>1, <1>2, SoftwareStep
<1>3. ASSUME NEW valid \in BOOLEAN, NEW ready \in BOOLEAN, Clock(valid, ready)
      PROVE  Inv'
  BY <1>1, <1>3, SetupEdge, WaitEdge
<1>4. CASE UNCHANGED vars
  <2> USE <1>4 DEF vars, hw, sw
  <2>1. StageInv' /\ Armed' = Armed /\ DmaInv' = DmaInv
    BY DEF Inv, StageInv, DmaInv, Quiet, Alive, Armed
  <2>2. Pipeline' = Pipeline /\ Cut' = Cut
    BY DEF Pipeline, BeatOf, Cut
  <2>3. TransferInv => TransferInv'
    BY <2>2 DEF TransferInv, Quiet, Contiguous
  <2> QED BY <1>1, <2>1, <2>3 DEF Inv
<1> QED BY <1>2, <1>3, <1>4 DEF Next

\* The invariant holds in every state of the capture.
THEOREM CaptureInv == Spec => []Inv
<1>1. Init => Inv
  <2> SUFFICES ASSUME Init PROVE Inv
    OBVIOUS
  <2>1. TypeOK
    BY InitType
  <2> QED BY <2>1 DEF Init, HwInit, Inv, StageInv, DmaOff, ResetValue, NoBeat, Quiet, Alive
<1> QED BY <1>1, InvStep, PTL DEF Spec

\* What the processor reads back after a capture without overflow is exactly
\* the requested number of consecutive samples.
THEOREM CaptureIsCorrect == Spec => []CaptureCorrect
<1>1. Inv => CaptureCorrect
  <2> SUFFICES ASSUME Inv, pc = "wait", dma.idle, ~overflow
               PROVE  Len(got) = want /\ Contiguous(got)
    BY DEF CaptureCorrect
  <2>1. /\ Armed /\ state = "TRANSFER_COMPLETED" /\ Pipeline = got
    BY IdleMeansComplete
  <2>2. TransferInv
    BY <2>1 DEF Inv
  <2> QED BY <2>1, <2>2 DEF TransferInv, Cut
<1> QED BY <1>1, CaptureInv, PTL

\* Nothing of one capture is left in the hardware when the next one resets it.
THEOREM CaptureLeavesNothing == Spec => []NothingInFlight
<1>1. Inv => NothingInFlight
  BY DEF Inv, StageInv, Quiet, NothingInFlight
<1> QED BY <1>1, CaptureInv, PTL

\* An armed DMA runs or has completed: it is never halted by a length error.
THEOREM CaptureDmaNeverHalts == Spec => []DmaNeverHalts
<1>1. Inv => DmaNeverHalts
  BY DEF Inv, DmaInv, Armed, DmaNeverHalts
<1> QED BY <1>1, CaptureInv, PTL

----------------------------------------------------------------------------
(* The capture sequence implements the capture service.                    *)

\* The samples of a sequence of beats.
LEMMA DataFacts ==
    ASSUME NEW s \in Seq(Beat)
    PROVE  /\ Data(s) \in Seq(Sample)
           /\ Len(Data(s)) = Len(s)
           /\ \A i \in 1 .. Len(s) : Data(s)[i] = s[i].d
<1>1. Len(s) \in Nat /\ \A i \in 1 .. Len(s) : s[i] \in Beat
  BY LenProperties, ElementOfSeq
<1>2. \A i \in 1 .. Len(s) : s[i].d \in Sample
  BY <1>1 DEF Beat
<1>3. Data(s) \in [1 .. Len(s) -> Sample]
  BY <1>2 DEF Data
<1>4. Data(s) \in Seq(Sample) /\ Len(Data(s)) = Len(s)
  BY <1>1, <1>3
<1> QED BY <1>4 DEF Data

\* Initial states of the capture are initial states of the service.
LEMMA ServiceInit == Init => Service!AInit
<1> SUFFICES ASSUME Init PROVE Service!AInit
  OBVIOUS
<1>1. got \in Seq(Beat) /\ Len(got) = 0
  BY EmptySeq DEF Init
<1>2. Data(got) \in Seq(Sample) /\ Len(Data(got)) = 0
  BY <1>1, DataFacts
<1>3. Data(got) = <<>>
  BY <1>2, EmptySeq
<1> QED BY <1>3 DEF Init, Service!AInit

\* Every step of the capture is a step of the service or changes nothing it
\* shows.
LEMMA ServiceStep ==
    ASSUME Inv, Inv', [Next]_vars
    PROVE  [Service!ANext]_Service!avars
<1> USE DEF Service!ANext, Service!avars, Goto
<1>1. ASSUME NEW n \in Requests, RequestData(n) PROVE Service!Request(n)
  BY <1>1 DEF RequestData, Service!Request
<1>2. CASE DmaReset \/ PackReset \/ ResetCheck \/ SetSize \/ DmaArm
  <2>1. pc # "idle" /\ pc' # "idle" /\ pc # "wait" /\ pc' # "wait" /\ want' = want
    BY <1>2 DEF DmaReset, PackReset, ResetCheck, SetSize, DmaArm
  <2> QED BY <2>1
<1>3. CASE StartTransfer
  <2>1. pc = "start" /\ pc' = "wait" /\ want' = want /\ overflow' = overflow
    BY <1>3 DEF StartTransfer, WriteReg0
  <2>2. ~overflow
    BY <2>1 DEF Inv, StageInv
  <2> QED BY <2>1, <2>2
<1>4. CASE Reply
  <2>1. /\ pc = "wait" /\ pc' = "idle" /\ dma.idle /\ want' = want /\ got' = got
        /\ overflow' = overflow
    BY <1>4 DEF Reply, hw
  <2>2. /\ Armed /\ state = "TRANSFER_COMPLETED" /\ Pipeline = got /\ Len(got) <= want
    BY <2>1, IdleMeansComplete
  <2>3. TransferInv /\ got \in Seq(Beat)
    BY <2>1, <2>2 DEF Inv, TypeOK
  <2>4. /\ Data(got) \in Seq(Sample)
        /\ Len(Data(got)) = Len(got)
        /\ \A i \in 1 .. Len(got) : Data(got)[i] = got[i].d
    BY <2>3, DataFacts
  <2>5. ~overflow => Len(Data(got)) = want /\ Service!Consecutive(Data(got))
    <3> SUFFICES ASSUME ~overflow
                 PROVE  Len(Data(got)) = want /\ Service!Consecutive(Data(got))
      OBVIOUS
    <3>1. Len(got) = want /\ Contiguous(got)
      BY <2>2, <2>3 DEF TransferInv, Cut
    <3>2. Len(got) \in Nat
      BY <2>3, LenProperties
    <3> QED BY <3>1, <3>2, <2>4 DEF Contiguous, Service!Consecutive
  <2>6. Data(got)' = Data(got)
    BY <2>1 DEF Data
  <2> QED BY <2>1, <2>2, <2>4, <2>5, <2>6 DEF Service!Serve
<1>5. ASSUME NEW valid \in BOOLEAN, NEW ready \in BOOLEAN, Clock(valid, ready)
      PROVE  Service!Lose \/ UNCHANGED Service!avars
  <2>1. /\ pc' = pc /\ want' = want
        /\ \E pop \in BOOLEAN : Edge(valid, pop) /\ Moved(pop) /\ (pop => DmaTake)
    BY <1>5, ClockMove
  <2>2. PICK pop \in BOOLEAN : Edge(valid, pop) /\ Moved(pop) /\ (pop => DmaTake)
    BY <2>1
  <2>3. CASE pc = "idle"
    <3>1. ~dma.running
      BY <2>3 DEF Inv, StageInv
    <3>2. got' = got
      BY <2>2, <3>1 DEF DmaTake, Moved
    <3>3. Data(got)' = Data(got)
      BY <3>2 DEF Data
    <3> QED BY <2>1, <2>3, <3>3
  <2>4. CASE pc = "wait"
    <3>1. FifoEdge(pop)
      BY <2>2, <2>4, AliveEdge DEF Inv, StageInv
    <3>2. overflow => overflow'
      BY <3>1 DEF FifoEdge
    <3>3. overflow \in BOOLEAN /\ overflow' \in BOOLEAN
      BY DEF Inv, TypeOK, HwTypeOK
    <3>4. CASE overflow' = overflow
      BY <3>4, <2>1, <2>4
    <3>5. CASE overflow' # overflow
      <4>1. overflow'
        BY <3>2, <3>3, <3>5
      <4> QED BY <4>1, <2>1, <2>4 DEF Service!Lose
    <3> QED BY <3>4, <3>5
  <2>5. CASE pc # "idle" /\ pc # "wait"
    BY <2>5, <2>1
  <2> QED BY <2>3, <2>4, <2>5
<1>6. CASE UNCHANGED vars
  <2>1. pc' = pc /\ want' = want /\ overflow' = overflow /\ got' = got
    BY <1>6 DEF vars, hw, sw
  <2> QED BY <2>1 DEF Data
<1> QED BY <1>1, <1>2, <1>3, <1>4, <1>5, <1>6 DEF Next, Software

\* The registers, state machine, FIFO, DMA and driver together implement the
\* capture service.
THEOREM CaptureImplementsService == Spec => ServiceSpec
<1>1. Inv /\ Inv' /\ [Next]_vars => [Service!ANext]_Service!avars
  BY ServiceStep
<1> QED BY <1>1, ServiceInit, CaptureInv, PTL DEF Spec, ServiceSpec, Service!ASpec
============================================================================
