------------------------------ MODULE Capture ------------------------------
(***************************************************************************)
(* A capture from end to end: the GET_TD_DATA / GET_FD_DATA sequence of    *)
(* echo.c, the driver data_packager.c it calls, the packager itself and    *)
(* the S2MM side of the Xilinx DMA, which writes the packet to memory.     *)
(* The processor runs the sequence to its end with lwIP's callbacks        *)
(* blocked, so at most one capture is ever in progress; the hardware's     *)
(* clock edges fall anywhere between the processor's register accesses.    *)
(***************************************************************************)
EXTENDS DataPackager

CONSTANTS Requests,    \* sample counts clients send, as 32 bit words
          DmaMax       \* samples in the longest transfer the DMA accepts

ASSUME RequestAssumption == Requests \subseteq Word
ASSUME DmaAssumption == DmaMax \in Nat /\ DmaMax < CntMod

VARIABLES pc,       \* the call of the sequence to be made next
          want,     \* command_value
          dma,      \* the DMA: running a transfer of len beats; its idle bit
          got       \* the beats written to RX_BUFFER_BASE by this transfer

sw == <<pc, want, dma, got>>
vars == <<hw, sw>>

Steps == {"idle", "dma_reset", "pack_reset", "reset_check", "set_size",
          "dma_arm", "start", "wait"}

DmaOff == [running |-> FALSE, idle |-> FALSE, len |-> 0]

TypeOK ==
    /\ HwTypeOK
    /\ pc \in Steps
    /\ want \in Word
    /\ dma \in [running : BOOLEAN, idle : BOOLEAN, len : Word]
    /\ got \in Seq(Beat)

Init ==
    /\ HwInit
    /\ pc = "idle"
    /\ want = 0
    /\ dma = DmaOff
    /\ got = <<>>

----------------------------------------------------------------------------
(* The processor.                                                          *)

Goto(from, to) == pc = from /\ pc' = to

RequestData(n) ==
    /\ Goto("idle", "dma_reset")
    /\ want' = n
    /\ UNCHANGED <<hw, dma, got>>

DmaReset ==
    /\ Goto("dma_reset", "pack_reset")
    /\ dma' = DmaOff
    /\ got' = <<>>
    /\ UNCHANGED <<hw, want>>

\* Mutant: the start bit is cleared but the reset bit stays high.
PackNoReset ==
    /\ Goto("pack_reset", "reset_check")
    /\ WriteReg0([resetn |-> TRUE, start |-> FALSE])
    /\ UNCHANGED <<want, dma, got>>

PackReset ==
    /\ Goto("pack_reset", "reset_check")
    /\ WriteReg0([resetn |-> FALSE, start |-> FALSE])
    /\ UNCHANGED <<want, dma, got>>

\* The read back only prints, but it returns only once the slave is alive.
ResetCheck ==
    /\ Goto("reset_check", "set_size")
    /\ Alive
    /\ UNCHANGED <<hw, want, dma, got>>

\* Mutant: the size is given in bytes.
SetSizeInBytes ==
    /\ Goto("set_size", "dma_arm")
    /\ IF reg0.start THEN Alive /\ UNCHANGED hw ELSE WriteReg2(want * 16)
    /\ UNCHANGED <<want, dma, got>>

\* A running packager keeps its size; the caller is not told.
SetSize ==
    /\ Goto("set_size", "dma_arm")
    /\ IF reg0.start THEN Alive /\ UNCHANGED hw ELSE WriteReg2(want)
    /\ UNCHANGED <<want, dma, got>>

\* XAxiDma_SimpleTransfer refuses a length out of range; nobody looks.
DmaArm ==
    /\ Goto("dma_arm", "start")
    /\ dma' = IF want \in 1 .. DmaMax
              THEN [running |-> TRUE, idle |-> FALSE, len |-> want]
              ELSE dma
    /\ UNCHANGED <<hw, want, got>>

StartTransfer ==
    /\ Goto("start", "wait")
    /\ WriteReg0([reg0 EXCEPT !.start = TRUE])
    /\ UNCHANGED <<want, dma, got>>

\* Mutant: the reply does not wait for the DMA.
ReplyEarly ==
    /\ Goto("wait", "idle")
    /\ UNCHANGED <<hw, want, dma, got>>

\* The busy loop ends on the DMA's idle bit; what it wrote is the reply.
Reply ==
    /\ Goto("wait", "idle")
    /\ dma.idle
    /\ UNCHANGED <<hw, want, dma, got>>

Software ==
    \/ DmaReset \/ PackReset \/ ResetCheck \/ SetSize
    \/ DmaArm \/ StartTransfer \/ Reply

----------------------------------------------------------------------------
(* The DMA.  It completes on tlast; a beat that fills the buffer without   *)
(* tlast is an error that halts it with the idle bit low.                  *)

DmaTake ==
    /\ dma.running
    /\ fifo # <<>>
    /\ got' = Append(got, Head(fifo))
    /\ dma' = [dma EXCEPT !.running = ~Head(fifo).l /\ Len(got) + 1 < dma.len,
                          !.idle = Head(fifo).l]

\* One edge of m_clk; ready: the path to memory can take a beat.
Clock(valid, ready) ==
    /\ \/ ready /\ Edge(valid, TRUE) /\ DmaTake
       \/ /\ ~(ready /\ dma.running /\ fifo # <<>> /\ Alive)
          /\ Edge(valid, FALSE)
          /\ UNCHANGED <<dma, got>>
    /\ UNCHANGED <<pc, want>>

Next ==
    \/ \E n \in Requests : RequestData(n)
    \/ Software
    \/ \E valid, ready \in BOOLEAN : Clock(valid, ready)

\* The processor keeps executing, samples keep arriving at the ADC's rate,
\* and the path to memory takes beats again and again.
Fairness ==
    /\ WF_vars(Software)
    /\ WF_vars(\E ready \in BOOLEAN : Clock(TRUE, ready))
    /\ WF_vars(\E valid \in BOOLEAN : Clock(valid, TRUE))

Spec == Init /\ [][Next]_vars /\ Fairness

----------------------------------------------------------------------------
(* Properties.                                                             *)

Data(s) == [i \in 1 .. Len(s) |-> s[i].d]

Contiguous(s) == \A i \in 1 .. Len(s) - 1 : s[i + 1].d = Succ(s[i].d)

\* When the DMA reports the transfer complete and the packager saw no
\* overflow, memory holds exactly the samples asked for, consecutive in the
\* stream: no size left over from an earlier request, no sample skipped or
\* doubled between the state machine, the FIFO and the DMA.
CaptureCorrect ==
    (pc = "wait" /\ dma.idle /\ ~overflow) =>
        Len(got) = want /\ Contiguous(got)

\* The next capture resets the packager only after everything the last one
\* produced has left it, overflow or not: no beat of one capture can be
\* written into the buffer of the next, and none is thrown away by the reset.
NothingInFlight ==
    pc \in {"idle", "dma_reset", "pack_reset"} => fifo = <<>> /\ ~beat.v

\* tlast and the DMA's length agree: a beat without tlast never fills the
\* buffer, which would halt the DMA with an error that the busy loop of echo.c
\* never sees, so an armed DMA is either still running or has completed.
DmaNeverHalts ==
    (pc = "wait" /\ want \in 1 .. DmaMax) => dma.running \/ dma.idle

\* Every admissible request is answered, unless the FIFO overflowed: then
\* the beat with tlast may be lost and the busy loop never ends.
CaptureEnds ==
    (pc = "dma_reset" /\ want \in 1 .. DmaMax)
        ~> (pc = "idle" \/ (pc = "wait" /\ overflow))

Service == INSTANCE CaptureService WITH
    phase <- IF pc = "idle" THEN "idle" ELSE "busy",
    reply <- IF pc = "idle" THEN Data(got) ELSE <<>>,
    lossy <- pc = "wait" /\ overflow

\* The capture sequence implements the capture service.
ServiceSpec == Service!ASpec

----------------------------------------------------------------------------
(* The inductive invariant behind the safety properties.                   *)

BeatOf(b) == IF b.v THEN <<[d |-> b.d, l |-> b.l]>> ELSE <<>>

\* Everything the current transfer has cut out of the stream and not lost.
Pipeline == (got \o fifo) \o BeatOf(beat)

Quiet == fifo = <<>> /\ ~beat.v

Armed == want \in 1 .. DmaMax

\* What the registers and the DMA hold before each call of the sequence.
StageInv ==
    /\ pc \in {"idle", "dma_reset", "pack_reset"} =>
          /\ Alive /\ Quiet /\ ~dma.running
          /\ state # "START_TRANS"
          /\ state \in {"RESET", "IDLE"} => ~reg0.start
    /\ pc \in {"pack_reset", "reset_check", "set_size", "dma_arm", "start"} =>
          got = <<>> /\ ~dma.idle
    /\ pc \in {"reset_check", "set_size", "dma_arm", "start"} =>
          /\ ~reg0.start /\ Quiet
          /\ Alive => state \in {"RESET", "IDLE"} /\ counter = 0 /\ ~overflow
    /\ pc \in {"set_size", "dma_arm", "start", "wait"} => Alive
    /\ pc \in {"reset_check", "set_size", "dma_arm"} => ~dma.running
    /\ pc \in {"dma_arm", "start", "wait"} => reg2 = want
    /\ pc = "start" => (dma.running <=> Armed) /\ (Armed => dma.len = want)
    /\ pc = "wait" => reg0.start

\* How much of the packet has been cut out of the stream.
Cut == IF state = "START_TRANS" THEN counter
       ELSE IF state = "TRANSFER_COMPLETED" THEN want ELSE 0

\* While a capture runs, the pipeline holds what has been cut, in order and
\* without gaps unless the FIFO overflowed; only the packet's final beat
\* carries tlast.
TransferInv ==
    /\ state \in {"RESET", "IDLE"} =>
          Quiet /\ got = <<>> /\ counter = 0 /\ ~overflow
    /\ state \in {"START_TRANS", "TRANSFER_COMPLETED"} => sizeInt = want
    /\ state = "START_TRANS" => counter < want
    /\ Len(Pipeline) <= Cut
    /\ ~overflow => Len(Pipeline) = Cut /\ Contiguous(Pipeline)
    /\ ~overflow /\ state = "START_TRANS" /\ Len(Pipeline) > 0 =>
          stream = Succ(Pipeline[Len(Pipeline)].d)
    /\ \A i \in 1 .. Len(Pipeline) : Pipeline[i].l =>
          i = Len(Pipeline) /\ state = "TRANSFER_COMPLETED"
    /\ state = "TRANSFER_COMPLETED" =>
          Len(Pipeline) < want \/ Pipeline[Len(Pipeline)].l

DmaInv ==
    /\ dma.running <=> ~dma.idle
    /\ dma.len = want
    /\ dma.running => Len(got) < want
    /\ dma.idle => Quiet /\ Len(got) > 0 /\ got[Len(got)].l

Inv ==
    /\ TypeOK
    /\ StageInv
    /\ pc = "wait" /\ Armed => TransferInv /\ DmaInv
    /\ pc = "wait" /\ ~Armed => ~dma.running /\ ~dma.idle
============================================================================
