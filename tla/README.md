# A verification project for ad9361_trx

`ad9361_trx` is a software-defined transceiver: an FMCOMMS3 board with an
AD9361 radio on a ZedBoard. A bare-metal program (`c/`) drives the radio, two
IP cores of its own (`ip_repo/data_packager`, `ip_repo/ad9361_tx_signal_gen`)
move samples between the radio and memory, and MATLAB clients (`matlab/`)
command it over TCP. This directory holds TLA+ models of it, the TLC
configurations that check them and the theorems that TLAPS proves about them.

## 1. The system

One processor runs `main.c`'s loop for ever. It polls the Ethernet driver, and
lwIP calls back into `echo.c`: `accept_callback`, `recv_callback` and
`send_callback`. Each callback runs to its end before the loop goes on, so
callbacks never interleave with each other. They do interleave with what is
outside the processor: segments and acknowledgements, the clock edges of the IP
cores, the DMA, the timer interrupt.

| Component | State | Operations | Interacts with |
|---|---|---|---|
| Data packager (`data_packager_main.vhd`, `_axi.vhd`) | registers, a four-state machine, a counter, one registered beat, a FIFO, `done` and `overflow` | one step per clock edge; register writes | ADC stream, its driver, the DMA |
| Its driver (`data_packager.c`) | none | reset, set size, start | registers |
| Capture sequence (`echo.c` 127-236) | `command_value` | reset, size, arm, start, wait, reply | driver, Xilinx DMA |
| Command server (`echo.c`) | file-scope variables that all connections share, arrays on the stack | about 20 commands, the continuation of replies and of uploads | lwIP, everything below |
| Signal generator (`ad9361_tx_signal_gen_main.vhd`, `_axi.vhd`) | registers, two memories, two counters on the converter's clock | register writes, one store per cycle while the enable is up, playing | its driver, the DAC |
| Its driver (`tx_siggen.c`) | none | reset, enable, load a waveform | registers, uploads |
| RF synthesizers (`ad9361.c` 1700-1800, 4860-5145, 6677-7045, `util.c` 122-230) | LO frequencies, clock rates, kind of VCO table, gain table, frequency of the last quadrature calibration, fastlock entries and active profile; in the chip direct registers and profile memories | tune, fastlock store, save, load, recall | SPI; tuning one side may program the other |
| State machine and calibrations (`ad9361.c` 1970-2110, 2820-3560, 4360-4530, 5570-5650) | in the chip the ENSM, the tracking loops, the filters' bandwidths, the LO's power; in the driver `curr_ensm_state`, `prev_ensm_state`, `ensm_pin_ctl_en`, the cached bandwidths, power bits and tracking flags | force, restore and set a state, calibrate, set a bandwidth, set tracking, reset | the pins, SPI |
| Gain control (`ad9361.c` 1390-1640, 2230-2420, 4200-4360) | gain tables, manual gain, modes, registers computed from the clocks | set and get the gain, set a mode, tune, a clock change | tuning, clock chain |
| Clock chain and FIR filters (`ad9361.c` 4540-4860, 5660-6110, `ad9361_api.c`) | the BBPLL and five dividers per path in registers, cached rates; factors, taps and bypass of the filters | calculate, validate and set a chain, read it back; load, enable and disable filters | tuning of the interface, gain control, bandwidth |
| Interface tuning (`ad9361_conv.c`) | delays in the chip and stored, test modes, loopbacks, attenuation while muted | sweep, choose, store or restore | clock chain, state machine, DAC core, loopbacks |
| DAC core and its driver (`dac_core.c`) | source of the samples, increment, phase and scale of eight tones, caches of them | init, select, set, update | the transmitter's sample rate |
| Set-up (`ad9361_setup`, `ad9361_post_setup`) | all of the above | the straight sequence, at init and in `ad9361_set_no_ch_mode` | everything above |
| ADC core (`adc_core.c`) | none | register writes | AXI registers |
| Main loop, platform (`main.c`, `platform_zynq.c`) | timer flags | poll, timers | interrupt |
| Console (`console.c`, `command.c`) | - | unreachable behind the endless loop | - |

What is hard, and what makes each part correct:

- **Capture.** The packager never stops the stream: it cuts a packet out of it
  while registers are written, its FIFO fills and the path to memory stalls.
  Correct means that exactly the samples asked for reach memory in order, that
  captures do not mix, and that the endless busy wait ends.
- **Command server.** A reply leaves in pieces that acknowledgements trigger; an
  upload arrives in pieces that the network chooses; everything is kept in
  variables without an owner. Correct means that the client reads the buffer
  from its first byte to its last, that what was uploaded is what is played, and
  that no command is swallowed.
- **Signal generator.** A level write enable, an address register that two
  channels share, and a size that crosses into another clock bit by bit.
  Correct means that no stray word is ever stored and that the output settles on
  the waveform.
- **Synthesizers.** The driver decides from what it has cached (a rate, a profile,
  an ALC word, a table) what the chip need not be told again. Correct means that
  whatever the order of tuning and profiles, the cache says what plays, both sides
  have the tables that their frequencies call for, and the loop that programs the
  other side ends.
- **State machine and calibrations.** A calibration borrows the machine, the tracking
  loops, the filters and the LO, in steps that may fail, while the pins may move the machine
  between two of them. Correct means that no calibration runs with tracking on or outside
  ALERT, that all it borrowed is given back, failed or not, and that a state that was
  asked for is reached whatever ran before.
- **Gain.** A manual gain is an index into a table that changes with the band; timings are
  numbers of clocks that change. Correct means that the gain in dB survives and that no
  timing is that of an earlier clock.
- **Clocks, filters, interface.** A rate change tunes the interface, a tuning at all
  rates changes the rate, enabling a filter does both, and disabling one
  restores what an earlier tuning found. Correct means that a tuning inside a tuning does not
  happen, that delays are good ones, that the test pattern is never transmitted, that what a
  tuning borrowed (attenuation, source, loopback, self-test) is given back, and that the rates that
  result are those asked for. The self-test is not always given back: see `link_test` below.
- **Tones.** Three settings of a tone share two registers and depend on a rate that
  others change. Correct means that each tone is what its caches tell.

The hazards are listed with their lines and their properties in `PROJECT.json`.

## 2. The modules

| Module | Models | Theorems |
|---|---|---|
| `DataPackager` | the packager IP: register file, state machine, FIFO, overflow | |
| `CaptureService` | what a capture promises (abstract) | |
| `Capture` | the capture sequence, `data_packager.c`, the DMA, over `DataPackager` | |
| `Capture_proofs` | | all about `Capture` |
| `EchoServer` | `echo.c` with clients and lwIP as its environment | |
| `EchoServer_proofs` | | all about `EchoServer` |
| `TxSigGen` | `tx_siggen.c` and the signal generator IP | |
| `TxSigGen_proofs` | | all about `TxSigGen` |
| `Synth` | the RF synthesizers: `clk_set_rate` for them, tuning, fastlock profiles | |
| `Synth_proofs` | | all about `Synth` |
| `Ensm` | the chip's state machine and the driver's functions on it, as operators | |
| `Windows` | `ad9361_find_opt`: the longest run of passing settings | |
| `Operators_proofs` | | what `Radio_proofs`, `Link_proofs` and `Gain_proofs` rest on: lemmas about `Ensm`, the theorem about `Windows`, the least member of a set of naturals |
| `Radio` | calibrations, bandwidth, tracking, LO power and reset, over `Ensm` and `Windows` | |
| `Radio_proofs` | | all about `Radio` |
| `ClockChain` | the clock chain: calculation, validation, divider registers | |
| `Dds` | the tone generators and their driver, as operators | |
| `Link` | interface tuning, FIR filters, clock changes, tests, attenuation, over `Ensm`, `ClockChain`, `Windows` and `Dds` | |
| `Link_proofs` | | all about `Link`, with lemmas about `ClockChain`, `Dds` and division |
| `Gain` | gain tables, manual gain, gain modes and what the clocks determine | |
| `Gain_proofs` | | all about `Gain` |
| `MC_*` | the values of the constants for TLC | |

Definitions named "Mutant" in a comment are faults a programmer could have
made. Each stands before the definition it breaks and is used by no other; the
list in `PROJECT.json` says which property catches it.

### Capture and DataPackager

`Edge` is one rising edge of `m_clk`, which the register file and the state
machine share: `ResetEdge` while `resetn` is low, then one action per state
(`LeaveReset`, `Idle`, `TakeSample` and `AwaitSample`, `Completed`), each with
`FifoEdge`, the FIFO and the overflow detector, which move at every edge. Two
arguments say whether the ADC has a sample and whether the FIFO's reader
takes one. Since the asynchronous FIFO is always emptied, a sample nobody wants
is consumed and gone.

The processor's part has one action per call of the sequence, in program order
(`pc`): `RequestData`, `DmaReset`, `PackReset` and `ResetCheck` (the write and
the read back of `data_packager_reset`), `SetSize`, `DmaArm`, `StartTransfer`,
`Reply`. Clock edges fall between any two of them, in any number. A register
access is not accepted while the core resets itself. The DMA is Xilinx's:
`XAxiDma_SimpleTransfer` refuses a length of zero or beyond its length register
and the code ignores that; a transfer ends with `tlast`, and a beat that fills
the buffer without `tlast` halts it with its idle bit low.

Units: sizes are in samples, and the counter has the width that `CntMod`
gives, so a negative count is a large word, as in the register.

### EchoServer

What a client writes is a stream of units: a command as a whole, or one byte of a payload. TCP may
cut it anywhere, so `RecvCallback` takes the first `k` units of what is on its way: a command with any
number of the payload bytes behind it, or any number of payload bytes. An upload arrives in as many
segments as it has bytes, or in one, and is cut inside words as well as between them.
`Handle` has one action per command (`TestConn`, `GetTdData`, `GetFdData`,
`SetDataSize`, `SetTxData`, `Set`, `GetOrUnknown`), each starting with what every call
does (`Received`) and ending with what the call leaves in `bytes_total` and
`bytes_sent`. `Early`, `Uploads` and `Late` are the order of the string
comparisons, which matters: an upload in progress takes every payload that is not
one of the first commands. A close is `recv_callback` without a pbuf.

Clients connect one after another, as the MATLAB functions do (`fopen`, `fwrite`, `fread`,
`fclose`), and may give up after their timeout or reset their connection. The server need not have noticed:
when the next one is accepted, up to `MaxLinger` earlier connections still have segments, a close or
acknowledgements on their way. `Close` follows echo.c:113-116, which takes back only `tcp_recv`: a
connection whose reply is not acknowledged stays (`closing`), and `SendCallback` runs for it as for the others,
on the same `bytes_sent` and `bytes_total`, whose piece `tcp_write` then refuses.

Not every stream can be handled as it was meant. What the code does then is modelled, and counted in
`mishaps`, up to `MaxMishaps`:

- a segment ends inside the text of a command, which is then unknown, or has a shorter number (`CutCommand`);
- more than one command, or a command behind an upload's last byte, or a chain of pbufs arrives at once: the
  code reads the first command and drops the rest (`lost`). A dropped chain is not given back to the window (echo.c:120
  counts the first pbuf only, `window`), so that lwIP resets that connection when it is closed;
- a segment is handled while one of an earlier connection is still on its way;
- a reset drops what was written and not handled.

`ReplyInOrder` and `ReplyCompletes` hold through mishaps; `UploadLoaded` and `SettingsApplied` are about
behaviours without one. Another exception has a variable of its own: `spoiled` are the clients that wait
for the rest of a reply when a callback of another connection moves the shared `bytes_sent` and
`bytes_total`, and those whose own command was cut. That interference is real, it is the code's, and it
is exactly what a claim about replies has to except.

A reply is modelled as the offsets of its bytes in the receive buffer, so
"the right bytes" needs no contents; an upload is a sequence of bytes. The
arrays that gather an upload are locals of the callback: at the next call they may
hold what they held or anything (`gone`), and `torn` remembers that it
happened. SET_LO_FREQ and SET_RXn_GAIN copy their number into `dest`, also a local, and do not end it before they read
it (echo.c:349, 389, 398; the other commands do), so digits left in `dest` may become part of it: `Readings`. One
digit of `Digits` stands for any run of them. `Scripts` says what clients send: each is a `IsRequest` (one command) or
an `IsUpload` (the size, then the bytes), which `ScriptAssumption` names, because no MATLAB function sends anything else.

Left out: bytes that an upload writes beyond its array, and the copy of a command's number together with whatever
lies behind it in the segment, which overruns `dest` when the size and the data of an upload arrive at once. Both are
undefined; the model has the outcome in which the callback returns. The window is counted in units, not bytes:
only whether all of it was given back matters.

### TxSigGen

Each register write of `tx_siggen_set_new_dataset` is an action. While a write
enable is up, the memory stores once per cycle, and several cycles pass
between two register writes, so each write is followed by the store it causes
(`Stored`). `DacEdge` is an edge of the converter's clock: the counter moves, and any
of the bits of the size and the enable that changed may or may not have crossed
(`Crossing`). The crossing is taken to be faster than two successive changes
of a size. `Depth` is the number of words, 2^`AddrBits`, and `Half` the levels below zero of a stored
component; a driver's call is one of `Datasets`, which may be too long or empty, as the code refuses. The fixed read latency of the memory only shifts the output and is left out.
`tx_siggen_reset` belongs to the driver's interface and is modelled, though
nothing in `c/` calls it.

### Synth

Variables come in two groups: what the driver has cached (`lo`, `tdd`, `rate`,
`profile`, `entry`, `table`, `quadFreq`) and what the chip has (`synth`, the direct
registers; `slots`, the profile memories; `fast`, the fastlock setup register; `inUse`,
the words taken at the last recall; `calEnabled`). Two ghosts, `correction`, remember at which LO
the transmitter's quadrature correction was made (`quadAt`) and on what occasion (`quadBy`). The words of a profile
are abstracted to the frequency they give, the kind of VCO table they come from and
the ALC word, the three things that the code's decisions depend on.

A tuning call takes several steps, so that its loop can be seen to end: `Tune`
(`clk_set_rate` past its test of the cached rate, leaving fastlock mode, the cached LO) or
`Refuse` (the rounding's -EINVAL taken for a rate), then a `Program` for each turn of
`ad9361_rfpll_int_set_rate`'s loop, then `Finish` (gain table or quadrature calibration,
and the recomputation of all rates). A request for the cached rate changes nothing
and is no step. `SetOtherClock` is any other clock's effective `clk_set_rate`, which
recomputes the RF rates too. `Calibrate` is a quadrature calibration that is not part of a tuning:
`ad9361_do_calib` and the one in `ad9361_update_rf_bandwidth` make the correction anew at the LO of the
moment and leave `last_tx_quad_cal_freq` alone (ad9361.c:5596, 5640). `Store`, `Save`, `Load` and `Recall` are whole calls.

What is taken from the chip, not from the code: outside fastlock mode a
synthesizer follows its direct registers; a recall takes the words that the slot has at
that moment; the VCO calibration finds one of `AlcWords(f)`; a quadrature
calibration succeeds or leaves no valid correction. Callers are taken to tune to
whole steps of the clock representation (`ad9361_to_clk` halves a frequency), so one number
stands for both units. A frequency outside `OnGrid` is read back as another number, as the
fractional divider does.

### Ensm, Windows and Radio

`Ensm` is a record with the chip's part (`state`, the bits of `ENSM_CONFIG_1`, FDD or not, the
clocks) and the driver's (`curr_ensm_state`, `prev_ensm_state`, `ensm_pin_ctl_en`). `Write` is
a write of the configuration register followed by what the machine makes of it;
`ForceState`, `Restore`, `RestorePrev`, `SetState`, `SetEnsmMode` and `CpCalib` are the driver's
functions, composed by the callers in program order. The flush states, which last
microseconds, are left out.

In `Radio` a call that calibrates runs in stages (`call.stage`): `DoCalib` or `SetBandwidth`
enters ALERT with tracking off, `SetFilters`, `QuadPrepare`, `QuadCalib` and `RfdcCalib` do
the work, each with the outcome in which the chip fails it, and `LeaveAlert` gives back. `Pins`
moves the machine between any two stages while the pins have control. The quadrature
calibration is modelled with its runs, the run that is repeated, the search over all phases
and the window that `ad9361_find_opt` picks from it; a run may time out. Its result `val` is
uninitialised when the very first run times out: that is a choice among all outcomes.
`ad9361_set_no_ch_mode` is the sequence `Reset` to `PostSetup`. SPI transfers do not
fail on this platform (`platform_zynq.c` ignores the result of the transfer), so a step fails
only where a wait or a check in the code can fail.

### ClockChain, Dds and Link

`ClockChain` is `ad9361_calculate_rf_clock_chain`, the ranges of
`ad9361_validate_trx_clock_chain` and the tree of dividers that `clk_set_rate` writes and the
`recalc` functions read back: rates in kHz, rounded as the registers round them, and rates
that are cached already not written again (`SetTree`). `SetClocks` sets the clocks of both paths in
pairs from the converters down, `Stage` is a clock's place in its path, and `Down` reads a path back
from its first rate. `Dds` holds the arithmetic of
`dac_core.c`: increments, phases and sign-magnitude scales in 16 bits, on a pair of
registers and caches; a tone has registers of its own, so `SetAll` is a function of the tone.

In `Link` clock changes, tunings and filters call each other. A call is
therefore a sequence `todo` of steps; an action takes the first and puts what it calls
in its place, so the model has the code's own call tree and not a fixed order, and the
locals of tunings in progress are `frames`. A delay setting is good or bad by its
skew; a sweep finds any of `Eyes`, or nothing when the pattern cannot arrive (`Listening`).
What a tuning at several rates found is the intersection, as `field |=` makes it.
`ad9361_update_rf_bandwidth`, whose inside is `Radio`'s, is here its effect on the machine.

### Gain

Tables are functions from index to dB, in the three ranges of the LO; `Reindexed` is what
`ad9361_load_gt` does to a manual gain when the range changes. `Tune`, `SetGain`, `SetMode`,
`ClockHandler` are whole calls. `regs` holds the registers that `ad9361_gc_update`,
`ad9361_rssi_setup` and `ad9361_auxadc_setup` compute from `clocks` and modes, each with the
code's own integer arithmetic.

## 3. What the runs check

Passing runs:

| Run | States | Properties |
|---|---|---|
| `capture` | 3703 | `CaptureCorrect`, `NothingInFlight`, `DmaNeverHalts`, `CaptureEnds`, `ServiceSpec` |
| `echo` | 149267 | `ReplyInOrder`, `UploadLoaded`, `SettingsApplied`, `ReplyCompletes` |
| `siggen` | 14718 | `Programmed`, `PlaysOnlyWave`, `PlaysWholeWave` |
| `synth` | 273397 | `TablesMatch`, `LoProgrammed`, `ReportsWhatPlays`, `AlcCached`, `AlcNearStored`, `QuadFresh`, `RecallChangesAlc`, `TuneEnds` |
| `radio` | 2078859 | `CalQuiet`, `CalibRestores`, `ModeHonoured`, `Agree`, `SearchFinds` |
| `link` | 660105 | `PnMuted`, `SourceKept`, `TonesKept`, `AttenGivenBack`, `DelaysPass`, `FirRuns`, `RateMet` |
| `gain` | 43626 | `GainHeld`, `RegistersCurrent` |

and a `TypeOK` each, but for `gain`, whose `TypeOK` is proved (`GainTypeOK`).

- `CaptureCorrect`: if the DMA is done and nothing overflowed, memory holds as many
  samples as were asked for and they are consecutive.
- `NothingInFlight`: before a reset the pipeline is empty, overflow or not.
- `DmaNeverHalts`: the DMA's length and `tlast` agree.
- `CaptureEnds`: every admissible request is answered, or the FIFO overflowed. The
  exception is real: the lost beat may be the one with `tlast`, and then the busy
  loop never ends. Captures that overflow and lengths the DMA refuses are outside of what is claimed,
  so the run shows nothing about whether those end (in general they do not).
- `ServiceSpec`: `Capture` implements `CaptureService` (refinement mapping at the
  end of `Capture`): a reply is the right samples or, after an overflow, at most
  as many samples as asked for.
- `ReplyInOrder`, `ReplyCompletes`: however acknowledgements cut it, a capture's client reads the buffer's bytes
  in order, and gets all of them unless it leaves. Both except the clients in `spoiled` (section 2).
- `UploadLoaded`, `SettingsApplied`: while nothing is on its way each channel has the
  waveform and each setting the value last sent, in however many segments, if no mishap happened.
  `UploadLoaded` assumes that the local array survived (`torn` is false), and `SettingsApplied` says of LO
  frequency and gains that the value is the one sent or that value followed by leftover digits.
- `Programmed`: a channel not being loaded holds its waveform, its older words
  behind it, its size and its enable: the level write enable never leaves a
  stray word.
- `PlaysOnlyWave`, `PlaysWholeWave`: the output settles on the waveform and
  plays all of it.

- `TablesMatch`, `LoProgrammed`: between calls both synthesizers have the tables that
  their two frequencies call for and their registers hold the frequency last
  asked for, although either call may have programmed both sides.
- `ReportsWhatPlays`: the frequency the driver reads from the chip is the one that plays,
  unless the slot in use was rewritten since its recall.
- `AlcCached`, `AlcNearStored`, `RecallChangesAlc`: the workaround of
  `ad9361_fastlock_recall` compares the right words, never repeats the ALC word in
  effect and never drifts.
- `QuadFresh`: small moves of the transmitter do not add up. With T the threshold: the LO is within T of
  the correction that a tuning made. A correction that was requested, or made for a bandwidth, does not move
  `last_tx_quad_cal_freq`, and then only 2T holds; TLC shows that T does not: calibrate at F, move by T,
  set a bandwidth, move to F-T. Nothing is claimed of corrections made in fastlock mode or after a failure.
- `TuneEnds`: the fixup loop ends.

- `CalQuiet`: while a calibration runs, no tracking loop does and only the pins can have
  taken the machine out of ALERT; the quadrature calibration has its LO and wide filters.
- `CalibRestores`: whatever fails in it, a calibration leaves tracking as asked for and the
  machine where it was. Excepted are WAIT, which `ad9361_ensm_restore_prev_state` does not go
  back to, and pins in control.
- `ModeHonoured`: a mode that is accepted is reached and is what `get` reads, after any
  calls. Excepted is a call that found pin control on when nobody had asked for it: the
  restore after a force that had nothing to do uses the `ensm_pin_ctl_en` of an
  earlier force (ad9361.c:2069).
- `Agree`: cached LO power is the chip's; cached bandwidth and tracking are, unless a
  bandwidth or a set-up has failed (`stranded`): the early returns of
  `ad9361_update_rf_bandwidth` leave tracking off and the machine in ALERT.
- `SearchFinds`: if any phase converges, a calibration that reports no error ends on one.
- `PnMuted`: no pattern is ever on the air.
- `AttenGivenBack`: a tuning that mutes gives back the attenuation it found. This would fail
  for a tuning within a tuning; that there is none depends on the filters being bypassed
  whenever `ad9361_post_setup` tunes.
- `DelaysPass`: delays in the chip after a tuning passed at every rate tried, or are the stored
  ones; only passing ones are stored.
- `SourceKept`: between calls the converter gets the source that was selected.
- `TonesKept`: each tone plays frequency, phase and scale of its caches, at the rate at which it
  was last set. That this need not be the rate of now is stated by the ghost `want.rate`:
  `axiadc_init` runs before `ad9361_setup` changes the clocks, nothing calls `dds_update` after
  a clock change, and so even the default tones of 1 MHz play at another frequency until then.
- `FirRuns`: filters that are enabled anew, with success, run with the factors configured, at a chain that has time
  for all taps and is the one asked for. An enabling that finds them enabled also succeeds, and changes
  nothing (ad9361_api.c:2030-2032); all that is promised then is that the filters are on and that the registers still
  give the chain asked for last. In particular `ad9361_trx_load_enable_fir` with other filters returns 0 and
  leaves the factors and the chain of the earlier ones, with the new taps; it takes a disabling first, as
  SET_PROFILE does it (`Profile`). Clearing the flags after an enabling that fails is what makes the second
  claim true, and what the mutant forgets.
- `RateMet`: both paths get the rate asked for, except as `link_rate` shows.
- `GainHeld`: a manual gain survives any retuning, cut only at the ends of the tables
  that were loaded since.
- `RegistersCurrent`: no register that a clock or a mode determines is stale.

Runs that show where the code and what is written about it disagree:

| Run | Statement | What happens |
|---|---|---|
| `echo_upload` | set_tx_data.m:5, "Format must be 2 x n, 1<=n<=4096" | an upload in two segments may load other words |
| `synth_skip` | ad9361_api.c:827, "Set the RX LO frequency." | after a recall, a request for the rate cached before it is skipped |
| `link_atten` | ad9361_conv.c:527, "Mute TX, we don't want to transmit the PRBS" | disabling the filters unmutes what was not muted: an attenuation set since the last tuning is lost |
| `link_test` | ad9361.c:1170, "Get BIST mode settings." | the mode is told to be off and a pattern is injected into the receiver |
| `link_rate` | ad9361.c:4664, "Calculate the RX and TX path rates to obtain the desired sample rate." | with a factor of 4 in one path's filter the paths get different rates |

About `link_test`: a tuning saves the cached word of the self-test (`bist_config`), runs its own tests through
`ad9361_bist_prbs`, which caches *them*, and at the end writes the saved word to the chip but not to the
cache (ad9361_conv.c:525, 544). So a test that is on stays on after the first tuning, is told to be off, and is
lost at the second. It also happens without anybody asking for a test: two calls of
`ad9361_dig_interface_timing_analysis` in a row, or one and a tuning, leave the receiver on
pseudo-random data (the same save and restore at ad9361_conv.c:278 and 301), since the second saves what the first
has left in the cache. For this reason no property says that the self-test is given back.

Other disagreements met while modelling, which have no run of their own:

- echo.c:162, 216: the first piece of a reply is as long as the send buffer, whatever was asked for, so
  a short reply is followed by other bytes of the buffer. `ReplyInOrder` speaks of the bytes asked for.
- echo.c:349, 389, 398: `strncpy` into an uninitialised array without a terminator, before `sscanf`: digits
  left on the stack can become part of the LO frequency and of the gains (`Readings`).
- echo.c:113-116: `send_callback` stays registered on a connection being closed, and moves the `bytes_sent` of the
  reply to the next client (`spoiled`).
- echo.c:120: of a chain of pbufs only the first is read, and only its length is given back to the TCP window; whether a chain ever arrives depends on lwIP (a mishap of `EchoServer`).
- echo.c:158: the caches are flushed after the DMA has been armed; echo.c:201: an `if`
  where a `while` is meant, in the wait for the FFT's configuration.
- The profiles of echo.c have other numbers than the comments of example_code.m:13-16.
- ad9361.c:7013: a refused frequency still changes the gain table.
- ad9361.c:4320: the RSSI weights wrap for sample rates from 33851 to 33855 kHz.
- ad9361.c:2384: one bit of the AGC configuration serves both receivers, so setting one
  receiver's mode decides whether the other is in hybrid mode.
- ad9361_api.c:931: an invalid gain mode is cached although it is refused.
- ad9361.c:5101: loading into the slot in use changes the word that the next recall compares.
- ad9361.c:4396: waking from sleep turns the VCO calibration of a fastlock synthesizer on again.
- data_packager.c:27: failures of the packager's reset are printed, never returned; main.c
  ignores the result of `ad9361_init` too.
- main.c:611: a timer tick that falls between test and clear is lost, and its work waits for the next tick.

## 4. Bounds, and why they are enough

- `capture`: a FIFO of two beats and packets of up to four, so a packet
  fits, fills the FIFO or overflows it depending on the stalls; two requests the
  DMA refuses (0 and -1 as a three-bit word). Any number of captures in a row.
  Sample numbers wrap at 5, more than a packet, so that a gap is seen.
- `echo`: seven connections, an upload to each channel, a capture longer than the send buffer after each, a
  setting with an answer, one without, and a test. A captured sample has three bytes, the send buffer
  four, and pieces are cut at multiples of two, so a reply of 9 bytes needs three pieces with a
  remainder, and acknowledgements come in any sizes. An upload has four bytes, two words, so it may be cut inside a
  word and into up to five segments, of which three leave it incomplete and find it in progress. One earlier
  connection may linger, and one mishap happens at any point: each kind of mishap is reached with every command before and
  behind it, and liveness is checked with it. The proofs have no such bounds. `echo_upload` has the first upload alone
  and no mishap. Deadlock is not checked: the system stops when the last client has gone.
- `siggen`: memories of four words of two bits, all lengths from a single word
  to the full memory, a refused empty and a refused long waveform, three
  calls: two loads of one channel with anything between them, which is what a
  stray store needs.
- `synth`: four frequencies in two gain table ranges and one that is refused; the calibration threshold is
  one, so neighbours are within it, the next but one is between it and twice it, and the outer two are beyond both: that
  is what tells the two bounds of `QuadFresh` apart. Two are off the
  divider's grid; three share an ALC word and one has another, so that a recall meets
  the same word and a different one. Three ALC words let a toggle wrap and a drift
  show. Two profiles allow a recall of another slot, of the same slot again and a
  load from one into the other. Four calls are enough to tune, calibrate and tune twice, or to store, tune
  away, recall and tune or recall again (the invariant that the proof uses was also checked with five: 1.7 million states); deadlock is not checked because they run out. The proofs have no
  such bounds.
- `radio`: both duplex modes; two bandwidths, of which the quadrature calibration accepts one
  and must widen the other; three phases, of which any set converges, so a window may be
  empty, at an end or whole; every run of the calibration may time out alone. One tracking
  loop stands for three, which the code treats alike. Five calls: a force, a call that fails,
  a calibration and a change of mode before and after. The proofs have no such bounds.
- `link`: three settings per delay, with an eye for the data, one for the clock, and none;
  attenuations 1 (asked for), 2 (set-up) and 3 (muted), so all three can be told apart; two
  filters, one with factor 1 and a chain of its own, one with factor 2, 128 taps and no chain, which
  is refused at rates that leave no time for its taps; two rates, two chains of which one is invalid. One
  tone in an I channel and one in a Q channel, a scale beyond the range. Three calls: a tuning, a
  change, a call that restores. `link_atten` and `link_test` are the same without tones; `link_rate` has a filter with
  factor 4 and four calls.
- `gain`: the three full tables of ad9361.c:484 with their 77 indices; an LO in each range and
  one in none; gains below, between and above the tables' ends; four sets of clocks, from the slowest to
  one with four parts of an RSSI measurement. Six calls pass from any table through
  another to a third and back.

Deadlock is not checked in the last three either, because the calls run out.

## 5. Fairness, and what justifies it

- `Capture`: the processor runs nothing else (`WF(Software)`), the ADC delivers at its
  rate, and the path to memory takes beats again and again. Nothing says that it
  takes them in time: overflow stays possible.
- `EchoServer`: the main loop polls for ever and handles what the network brings (`WF` of a receive or a send
  callback): what a client wrote arrives, and so do its acknowledgements. One condition for the whole loop suffices. No
  fairness makes a client connect, leave or give up, or a close or a reset arrive.
- `TxSigGen`: a call of the driver goes on, the clocks run, and a value that no longer
  changes crosses in full. No fairness makes a call begin.

- `Synth`: a call that has begun goes on (`WF(Program)`, `WF(Finish)`), since the
  processor does nothing else meanwhile. No fairness makes a call begin.
- `Radio`, `Link`, `Gain` state no fairness and no liveness: their loops are over constants, and
  every wait in the code has a count of its own.

## 6. What is proved

### Capture

`Capture_proofs` proves, for every FIFO depth, stream and counter width, every limit
of the DMA and every set of requests that the named assumptions of
`DataPackager` and `Capture` allow (positive sizes; a DMA limit below the
counter's range):

- `CaptureTypeOK`, `CaptureIsCorrect`, `CaptureLeavesNothing`,
  `CaptureDmaNeverHalts`: the run's invariants;
- `CaptureImplementsService`: the refinement;
- `CaptureInv`: the invariant they rest on.

The properties are not inductive: that memory holds the right samples at the end
says nothing about the middle. The invariant `Inv` (in `Capture`, so that TLC can
check it) looks at `Pipeline`, the beats in memory, in the FIFO and in the output
register as one sequence:

- `StageInv` says what holds before each call of the sequence: the registers
  already written, that the pipeline is empty and the machine not running, that
  the DMA is armed for the size that the packager has;
- `TransferInv` says, during the wait, that the pipeline has as many beats as were
  cut out of the stream, consecutive and adjoining the next sample unless there
  was an overflow, and that only the packet's last beat carries `tlast`;
- `DmaInv` says that the DMA still runs as long as it has less than asked for,
  and that when it is idle the pipeline is empty.

The key lemma is `PipeEdge`: an edge moves beats within the pipeline and appends at
most one, whatever the reader does. On it rest one lemma for each kind of step
(`QuietEdge`, `SetupEdge`, `TransferEdge`, `DmaEdge`, `WaitEdge`, `SoftwareStep`), which
`InvStep` combines. `ServiceStep` maps each step to a step of the service or to
a stutter.

### Synth

`Synth_proofs` proves, for every set of frequencies, range, gain tables, ALC words,
threshold and number of profiles and calls under the assumptions named in `Synth`
(frequencies are positive; every frequency in range has an ALC word; -EINVAL as a rate is
further than the threshold from any frequency), all safety properties of the run:
`SynthTypeOK`, `SynthTablesMatch`, `SynthLoProgrammed`, `SynthReportsWhatPlays`,
`SynthAlcCached`, `SynthAlcNearStored`, `SynthQuadFresh` and the action property `SynthRecallChangesAlc`.

They speak of the moments between calls, so the invariant `IInv` (at the end of `Synth`)
has to say what holds inside one:

- `TuneInv`: only the side about to be programmed may be behind its cached LO, and
  the other side is only programmed when the first has the right table. This is what makes
  the second turn of the loop settle the condition.
- `ModeInv`: the cached profile is the chip's, and a call has left it before it
  programs its side.
- `QuadInv`: the transmitter's LO is within the threshold of the frequency taken down, except while it is being
  tuned, unless that is -EINVAL's after a refused request. The frequency taken down is that of a correction
  a tuning made, and within the threshold of one that was requested: hence the two bounds of `QuadFresh`. -EINVAL's
  being far from every frequency is what keeps the next request from going without a calibration, and until
  then the LO has not moved from the correction.

`RecallFacts` is the lemma about the workaround: the word a recall writes differs from the one
in effect and is the original or its successor.

### Gain

`Gain_proofs` proves `GainTypeOK`, `GainKept` (`GainHeld`) and `RegistersFollow`
(`RegistersCurrent`) for tables of any number and size, under the assumptions of `Gain`: the
gains of a table never fall, and, as the tables of ad9361.c:484 do, they rise in steps of 1 dB and
any two tables have gains in common (`StepAssumption`). A gain in steps is what makes a search
in another table return the gain itself and not a neighbour; overlapping tables are what makes two
cuts in a row one (`CutReindexed`). The invariant `IInv` says of each receiver, manual or not, that
the gain at its index is the one asked for, cut to the highest floor and the lowest ceiling of
the tables loaded since (`Cut`), and of the registers that they are those of the *cached*
modes. `FindTableIndex`'s lemmas (`FoundAbove` and its siblings) are about its minimum
and its comparison of distances.

### Operators: Windows and Ensm

`FindOptLongest`: for a sweep of any length, `ad9361_find_opt` returns a run of passing
settings within the sweep and no run is longer. The scan is a recursive function of the position;
since induction over it is out of reach of the installed provers, the proof takes the least
position at which the loop's invariant fails and derives a contradiction from the step before it.

`Operators_proofs` also has one lemma per function of `Ensm` on what it does to the machine when the
record is `Consistent` (the driver's belief fits the chip, the active state fits the duplex
mode).

### Radio

`Radio_proofs` proves all six invariants of the run, for every set of bandwidths, loops, phases
and timeouts: `RadioTypeOK`, `Quiet`, `Restores`, `Honoured`, `CachesAgree`, `Finds`. They
rest on `IInv` (`RadioIInv`), at the end of `Radio`:

- `StageInv`: which calls have which stages, without which an action could not be placed in a call;
- `MachineInv`: what `curr_ensm_state` tells of the chip; a `curr` of ALERT means ALERT only between calls
  and without pins, which is why `SetState` from it is right;
- `BracketInv`: inside a call `prev_ensm_state` is the state before the call, so the end can go
  back to it, and only pins can have left ALERT;
- `ResetInv`: nobody else moves the machine during a set-up, so `Started` finds it where it left it;
- `FilterInv`: the filters have the cached bandwidth, the wider one during the quadrature
  calibration, or one that failed; the LO is on then and back to the cached power after it;
- `ModeInv`: what was reached stays until another call.

`Finds` uses `FindOptLongest`: a phase that converges is a run of one, so the longest run is
not empty and its middle converges.

### TxSigGen

`TxSigGen_proofs` proves `TypeCorrect` and `ProgrammedHolds` (`Programmed`) for memories of any size,
samples of any width and any set of waveforms. `Programmed` alone is not inductive: the write enable is a level, so every
register write while it is up stores the data register at the address register, and an address left behind
by an earlier load could receive a later word. `IInv` adds to it

- `ControlInv`: a write enable is up for the channel being loaded and for no other;
- `HarmlessInv`: for any other channel a store would change nothing or only word 0, with which every
  load begins: its address is 0 or memory holds its data register there already. Half way through a
  reset, when data is cleared and the address is not, this does not hold, and no enable is up;
- `MemoryInv` and `LoadInv`: outside a load memory is as asked for; inside one the words before the loop's
  index and behind the waveform are.

The other channel's address is written along with that of the channel being loaded (`Both(0)`), which is
what makes `HarmlessInv` hold for it.

### EchoServer

`EchoServer_proofs` proves all four safety properties of the run, `TypesHold`, `RepliesInOrder`, `UploadsAreLoaded` and
`SettingsAreApplied`, with no condition but the assumptions named in `EchoServer`: for any scripts, buffer and sample
sizes, any cuts, any number of earlier connections that linger and any number of mishaps. The invariant `Inv` is
`WireInv /\ CleanInv`:

- `WireInv` holds whatever happens. Of a client that reads a reply undisturbed (open, not in `spoiled`) it says that its
  command is either still on its way as it was written or was handled; in the second case what it has been sent are
  the buffer's bytes in order, and until it has all of them `bytesTotal` is the size it asked for and `bytesSent` the
  number of bytes it was sent. That is what makes `send_callback` go on at the right offset. Every
  callback of another connection that moves the two while it waits puts it into `spoiled`, so the
  claim does not have to survive one.
- `CleanInv` is about behaviours without a mishap (`mishaps = 0`). There segments are handled in the order of the
  connections (`OneByOne`); what is on its way is what remains of its client's script (`Progress`); an upload in
  progress is the one of the only client with something on its way, and the bytes in the array are the first ones of its
  waveform, in order (`Receiving`); and every channel and setting has what the last client sent that has finished (`Loaded`,
  `Applied`).

The exceptions are those of the properties: `spoiled` for replies, mishaps for uploads and settings, `torn` for arrays
that did not survive and `Readings` for numbers. TLC checked `Inv` over the run's states before it was proved.

### Link

`Link_proofs` proves, for any number of delays, eyes, attenuations, rates, filters, chains and tones that
`LinkAssumption` allows, the invariants `LinkTypes`, `LinkPnMuted`, `LinkSourceKept` and `LinkTonesKept` and the
action properties `LinkAttenGivenBack` and `LinkDelaysPass`. `LinkAssumption` says of the constants: at least two delays,
a set-up chain that the driver accepts, filter factors of 1, 2 or 4, and naturals where the registers have naturals.

The invariant `IInv` is `Types /\ CallInv /\ TonesKept`. The difficulty is that calls call each other: a
tuning sets rates, a rate change tunes, and enabling a filter does both; so nothing holds
of every state but in terms of where the call stands. `CallInv` says it by the steps to do:

- outside a tuning (`frames` is empty), no step of a tuning comes next and none is to come later, but the set-up's
  own one as the very next step, when the filters are bypassed (`Fresh`); the source, the pattern and the
  loopback are as asked for (`SourceInv`);
- inside one, its end is some step `n` of those to do, nothing after it belongs to a tuning, and no step before it
  begins another (`TuneInv`). That is what "no tuning within a tuning" means, and why the
  attenuation cached at its start is still there at its end. Rates change only in the set-up's tuning, while
  `FirActive` is false, so that `ad9361_set_trx_clock_chain` does not tune again;
- up to `n` the receiver's part (`RxPart`), the transmitter's (`TxPart`), or nothing (`EndPart`) remains.
  They say who drives the transmitter, which loopback is on, what was put aside, and which delay
  is a good one already.

`Types` says more than `TypeOK`: dividers are ones that the chip accepts, every chain a call may ask for has its shape, and at most one
tuning has a frame. `SetTree` is treated once (`ClockChain` keeps the dividers in range whatever chain it is given).
`TonesKept` is arithmetic: that an increment, a phase and a sign-magnitude scale are within the rounding of the
caches, for every frequency below half the rate, phase and scale. `LinkDelaysPass` uses `FindOptLongest`: where some setting
passes, the middle of the longest window does. TLC checked `Types` and `CallInv` over the run's 660105 states before they were proved.

### What is only model-checked

- Liveness, which TLAPS does not prove under fairness: `CaptureEnds`, `ReplyCompletes`, `PlaysOnlyWave`,
  `PlaysWholeWave`, `TuneEnds`.
- `FirRuns` and `RateMet` of `Link`: numeric facts about calculated chains and the dividers. A chain is chosen by
  a search over the rows of a table and rounded five times; TLC evaluates them for the rates that the run has.
- That the findings' runs are violated.

## 7. Not modelled, and the plan

Not modelled: Analog Devices' HDL library, generated cores and lwIP itself (third
party; they appear as environment), the console (unreachable), the ADC core's register
writes, the caches and the FFT (no source here), and what MATLAB computes.

Partly modelled:

- The main loop is the scheduling of `EchoServer`'s callbacks; main.c's settings are constants of
  `Radio`, `Link` and `Gain`. The timer flags only pace lwIP.
- Set-up: as far as it concerns the state of the modules, with every failure; the writes
  that follow from the table of settings are left out.
- Synthesizers: LO power-down, external LO, pin control and the modes that main.c does
  not select (TDD, independent FDD) are left out, and a VCO that does not lock, whose error
  the callers ignore.
- Calibrations: the arithmetic of the filter settings (component values from a bandwidth), the temperature
  sensor and multi-chip synchronisation, which nothing calls. Gain: split tables, fast attack options, the
  loop inside the chip. Filters: coefficients; `ad9361_parse_fir` has no caller. DDS: correction of I and Q
  without callers; the sine table for the DMA. Interface: CMOS and cores before version 8.

Next, in this order: two clients that write at the same time in `EchoServer`, which
no MATLAB function of the repository does; the composition of `Synth` with `Ensm` for waking from sleep; `Radio`'s bandwidth inside `Link` in place of its effect.
Theorems planned: `FirRuns` and `RateMet` of `Link`, from a lemma that `ReadBack` after `SetTree` is the chain
for chains whose rates divide each other, and the step properties that follow from the invariants proved.
Abstract specification planned: a tuner with one frequency per side, which `Synth` implements up to the
skipped requests that `synth_skip` shows.
