--------------------------- MODULE DataPackager ---------------------------
(***************************************************************************)
(* The sample packager of the receive path, ip_repo/data_packager/src.     *)
(* It watches the endless stream of ADC samples and, when the processor    *)
(* sets its start bit, cuts a packet of transfer_size consecutive samples  *)
(* out of it, the last one marked with tlast, and hands the packet through *)
(* a FIFO to whatever reads it (the DMA, see Capture).                     *)
(*                                                                         *)
(* One Edge is one rising edge of m_clk.  The register file and the state  *)
(* machine share that clock, so a register written between two edges is    *)
(* what the next edge reads.  Samples are numbers modulo StreamMod: two    *)
(* are consecutive when the second is the successor of the first.          *)
(***************************************************************************)
EXTENDS Naturals, Sequences

CONSTANTS FifoDepth,   \* beats the output FIFO holds (4096 in the IP)
          StreamMod,   \* sample numbers wrap here, to keep the model finite
          CntMod       \* 2^width of data_counter and of the size register

ASSUME DepthAssumption == FifoDepth \in Nat \ {0}
ASSUME StreamAssumption == StreamMod \in Nat \ {0}
ASSUME WidthAssumption == CntMod \in Nat \ {0}

VARIABLES
    reg0,       \* slv_reg0: the reset and start bits
    reg2,       \* slv_reg2: transfer_size
    state,      \* the state machine
    counter,    \* data_counter
    sizeInt,    \* transfer_size_int, the size latched for the transfer
    beat,       \* fifo_sync_s_axis_*: the registered beat offered to the FIFO
    done,       \* slv_reg1(0)
    overflow,   \* slv_reg1(1)
    fifo,       \* the output FIFO
    stream      \* the sample the asynchronous FIFO presents next

hw == <<reg0, reg2, state, counter, sizeInt, beat, done, overflow, fifo, stream>>

Sample == 0 .. StreamMod - 1
Word == 0 .. CntMod - 1
Beat == [d : Sample, l : BOOLEAN]
States == {"RESET", "IDLE", "START_TRANS", "TRANSFER_COMPLETED"}

Succ(s) == IF s = StreamMod - 1 THEN 0 ELSE s + 1

\* data_counter is a 32 bit integer and wraps like one.
Incr(c) == IF c = CntMod - 1 THEN 0 ELSE c + 1

\* Mutant: the packet is one beat too long.
LastIndexLate(n) == n

\* transfer_size_int - 1 at that width: a size of 0 counts a whole turn.
LastIndex(n) == IF n = 0 THEN CntMod - 1 ELSE n - 1

NoBeat == [v |-> FALSE, d |-> 0, l |-> FALSE]
ResetValue == [resetn |-> TRUE, start |-> FALSE]

HwTypeOK ==
    /\ reg0 \in [resetn : BOOLEAN, start : BOOLEAN]
    /\ reg2 \in Word
    /\ state \in States
    /\ counter \in Word
    /\ sizeInt \in Nat
    /\ beat \in [v : BOOLEAN, d : Sample, l : BOOLEAN]
    /\ done \in BOOLEAN
    /\ overflow \in BOOLEAN
    /\ fifo \in Seq(Beat)
    /\ stream \in Sample

HwInit ==
    /\ reg0 = ResetValue
    /\ reg2 = 0
    /\ state = "RESET"
    /\ counter = 0
    /\ sizeInt = 1024
    /\ beat = NoBeat
    /\ done = FALSE
    /\ overflow = FALSE
    /\ fifo = <<>>
    /\ stream = 0

----------------------------------------------------------------------------
(* The register file.  Nothing is accepted while resetn is low.            *)

Alive == reg0.resetn

WriteReg0(r) ==
    /\ Alive
    /\ reg0' = r
    /\ UNCHANGED <<reg2, state, counter, sizeInt, beat, done, overflow, fifo, stream>>

WriteReg2(n) ==
    /\ Alive
    /\ reg2' = n
    /\ UNCHANGED <<reg0, state, counter, sizeInt, beat, done, overflow, fifo, stream>>

----------------------------------------------------------------------------
(* One clock edge.  valid: the asynchronous FIFO has a sample, which this  *)
(* edge consumes whatever the state, its tready being tied high.           *)
(* pop: the reader takes the FIFO's head at this edge.                     *)

Consume(valid) == stream' = IF valid THEN Succ(stream) ELSE stream

Full == Len(fifo) >= FifoDepth

\* A beat offered while the FIFO is full is lost, even if one leaves it.
Pushed == IF beat.v /\ ~Full THEN <<[d |-> beat.d, l |-> beat.l]>> ELSE <<>>

\* Mutant: a lost beat is not recorded.
FifoEdgeBlind(pop) ==
    /\ pop => fifo # <<>>
    /\ fifo' = (IF pop THEN Tail(fifo) ELSE fifo) \o Pushed
    /\ UNCHANGED overflow

FifoEdge(pop) ==
    /\ pop => fifo # <<>>
    /\ fifo' = (IF pop THEN Tail(fifo) ELSE fifo) \o Pushed
    /\ overflow' = (overflow \/ (beat.v /\ Full))

\* resetn low: the register file resets itself, which raises resetn again.
ResetEdge(valid) ==
    /\ ~reg0.resetn
    /\ reg0' = ResetValue
    /\ reg2' = 0
    /\ state' = "RESET"
    /\ counter' = 0
    /\ beat' = NoBeat
    /\ done' = FALSE
    /\ overflow' = FALSE
    /\ fifo' = <<>>
    /\ Consume(valid)
    /\ UNCHANGED sizeInt

LeaveReset(valid, pop) ==
    /\ Alive
    /\ state = "RESET"
    /\ FifoEdge(pop)
    /\ state' = "IDLE"
    /\ counter' = 0
    /\ beat' = NoBeat
    /\ done' = FALSE
    /\ Consume(valid)
    /\ UNCHANGED <<reg0, reg2, sizeInt>>

\* Mutant: the size is latched by the edges that stay in IDLE only.
IdleStale(valid, pop) ==
    /\ Alive
    /\ state = "IDLE"
    /\ FifoEdge(pop)
    /\ sizeInt' = IF reg0.start THEN sizeInt ELSE reg2
    /\ state' = IF reg0.start THEN "START_TRANS" ELSE "IDLE"
    /\ Consume(valid)
    /\ UNCHANGED <<reg0, reg2, counter, beat, done>>

\* IDLE latches the size at every edge, the one that starts included.
Idle(valid, pop) ==
    /\ Alive
    /\ state = "IDLE"
    /\ FifoEdge(pop)
    /\ sizeInt' = reg2
    /\ state' = IF reg0.start THEN "START_TRANS" ELSE "IDLE"
    /\ Consume(valid)
    /\ UNCHANGED <<reg0, reg2, counter, beat, done>>

TakeSample(pop) ==
    /\ Alive
    /\ state = "START_TRANS"
    /\ FifoEdge(pop)
    /\ LET last == counter = LastIndex(sizeInt)
       IN  /\ beat' = [v |-> TRUE, d |-> stream, l |-> last]
           /\ counter' = IF last THEN 0 ELSE Incr(counter)
           /\ state' = IF last THEN "TRANSFER_COMPLETED" ELSE state
    /\ Consume(TRUE)
    /\ UNCHANGED <<reg0, reg2, sizeInt, done>>

AwaitSample(pop) ==
    /\ Alive
    /\ state = "START_TRANS"
    /\ FifoEdge(pop)
    /\ beat' = [beat EXCEPT !.v = FALSE]
    /\ Consume(FALSE)
    /\ UNCHANGED <<reg0, reg2, state, counter, sizeInt, done>>

Completed(valid, pop) ==
    /\ Alive
    /\ state = "TRANSFER_COMPLETED"
    /\ FifoEdge(pop)
    /\ beat' = [beat EXCEPT !.v = FALSE, !.l = FALSE]
    /\ state' = IF reg0.start THEN state ELSE "IDLE"
    /\ done' = reg0.start
    /\ Consume(valid)
    /\ UNCHANGED <<reg0, reg2, counter, sizeInt>>

Edge(valid, pop) ==
    \/ ~pop /\ ResetEdge(valid)
    \/ LeaveReset(valid, pop)
    \/ Idle(valid, pop)
    \/ valid /\ TakeSample(pop)
    \/ ~valid /\ AwaitSample(pop)
    \/ Completed(valid, pop)
============================================================================
