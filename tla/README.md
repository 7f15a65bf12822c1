# Verification of the ASR-FC flight controller

TLA+ models of the parts of this repository that decide whether a motor may
turn, the TLC runs that check them on small instances and TLAPS proofs of their
main safety properties for every value of the constants. Paths below are
relative to the repository root.

## 1. The system

| Component | Source | State it keeps | Operations |
| --- | --- | --- | --- |
| Flight core | `application/flight/flight_core.c` | state (DISARMED, ARMED, FAILSAFE), last sample, PID memory | init, disarm, step |
| Host-HIL endpoint | `application/hil/flight_endpoint.c`, `platforms/nordic/nrf5340/host_hil_endpoint/src/main.c` | a flight core and the active session | init, step, the byte loop |
| Stream parsers | `application/protocol/hil_link.c`, `motor_link.c` | received bytes, expected size | init, push |
| Codecs | the same files | none | encode, decode |
| Virtual motor bank | `application/sil/virtual_motor_bank.c` | per motor: armed, throttle, timer, session, sequence, faults | init, apply, step, telemetry |
| W530 bridge | `tools/hil_usb_bridge.c`, `.../hil_command_source/src/main.c`, `.../hil_motor_sink/src/main.c` | order of commands, two parsers, the ports | poll loop, forward commands, forward telemetry, signals |
| CEVA adapter | `application/sensors/ceva_fsm300_adapter.c` | newest rotation and gyro report, what was emitted last | init, two updates, take sample |
| CEVA flight probe, SPI HAL | `platforms/nordic/nrf5340/ceva_flight_probe/src/` | adapter, core, guidance; interrupt flag and time stamp | sensor event, service loop; ISR, read, write |
| GD3000 status protocol and probe | `platforms/nxp/common/gd3000_protocol.c`, `.../gd3000_status_probe/src/main.c` | the pipeline of the SPI device | status read |
| ADS1234 probe | `platforms/nordic/nrf5340/ads1234_probe/src/main.c` | the converter's shift register | read sample |
| Controller, mixer, estimation, plant | git submodules, absent here | | external |

How they interact. A sensor path (the CEVA adapter or a host plant behind the
HIL link) hands samples to the flight core by call; the core calls the external
controller, mixer and aiding callback and answers with motor requests. Over the
motor link a controller sends commands to a motor node, which the motor bank
simulates; on the W530 bench the bridge process sits in the middle of that link.
All links are byte streams that the parsers cut into frames. There is no shared
memory between programs and one thread in each, apart from the interrupt handler
of the SPI HAL; concurrency is between programs, through lines that lose,
damage, delay and (by retries) repeat what they carry.

What is hard, and what makes each part correct:

- *Flight core.* Legal calls in any order, each with many early returns. It must
  count only an unbroken run of samples, hold the failsafe latch, never carry
  controller memory from one flight into the next and never leave motor requests
  behind when a step fails.
- *Endpoint.* Line noise, lost and late frames, sessions and resets. An armed
  device must have said so; an answer must belong to the question.
- *Codecs.* Layouts and limits that two functions repeat by hand, and damage. A
  decoder must accept exactly what an encoder writes, and hand out what was sent.
- *Parser.* Any byte stream. It must not overrun, must deliver what arrived and
  only well-formed frames, and must find its place again.
- *Motor bank.* Commands in any order after any delay. A motor runs on a lease,
  in a session opened disarmed, and stops when the controller does.
- *Bridge.* Wrapping sequence numbers, restarts at either end, a signal at any
  time. It must keep the order, refuse armed commands, keep flowing and stop.
- *CEVA path.* Two streams of reports that nothing synchronises, each with
  losses and delays. No report may be used twice, attitudes must not jump, what
  the adapter lets through the core must accept, and an undisturbed sensor must
  fly.
- *SPI HAL.* An interrupt handler against a reader, an edge-triggered line whose
  level is read as well, a full-duplex bus. Stamps must keep the order of the
  packets, and no packet may wait for ever.
- *GD3000 and ADS1234 probes.* Pipelined reads, missed clocks, read-outs that
  break off, time-outs. What they print must be true of the chip.

## 2. Modules

| Module | Models |
| --- | --- |
| `FlightCore` | The functions of the flight core as operators from a core and arguments to a core and a result. |
| `FlightSystem` | The core under any caller: one action per function, plus the host's clock. |
| `Interlock` | Abstract specification: when motor requests may be live and how a fault is left. |
| `HilEndpoint` | The endpoint's step and `process_frame` of its image, built on `FlightCore`. |
| `HostHil` | Host, lossy serial line and device together. |
| `StreamParser` | `parser_push` of both links. |
| `StreamLine`, `MCStreamLine` | A sender, a damaging line, the parser and the endpoint's byte loop; the instance for TLC. |
| `LinkCodec` | The encoders and decoders of both links: words, CRC, limits, layouts. |
| `CodecLine`, `MCCodecLine` | A sender, a line that damages bits, a foreign sender and a receiver around them; the instance for TLC. |
| `MotorBank` | The functions of the motor bank on one motor. |
| `MotorSystem` | A controller with sessions, a link that may deliver anything at any time and again, the bank and its time. |
| `MotorLease` | Abstract specification: motors run on leases. |
| `UsbBridge` | Command source, bridge process, motor sink and the ports between them. |
| `CevaAdapter` | The functions of the CEVA adapter as operators on an adapter. |
| `CevaProbe` | The sensor callback of the probe, on `CevaAdapter` and `FlightCore`, and a hub that feeds it. |
| `CevaHal` | The service thread and the interrupt handler of the SPI HAL, statement by statement, and the hub at the other end. |
| `Ads1234Probe` | The load-cell probe and its converter. |
| `Gd3000Probe` | The GD3000 status probe, the protocol code and the gate driver. |
| `BenchProbes` | The union of the two bench probes, which share nothing: one instance for TLC. |
| `FlightCoreProofs`, `FlightSystemProofs`, `HostHilProofs`, `StreamLineProofs`, `MotorSystemProofs`, `UsbBridgeProofs`, `CevaProbeProofs`, `WireProofs` | Theorems. |

Functions of the C code that take a structure by pointer are operators that
return the new structure; a module with VARIABLES turns them into actions. Names
follow the source (`EnterFailsafe`, `Disarm`, `Resync`, `ProcessFrame`). An
operator marked "Mutation" is never used by the specification: it is a
plausible bug, kept beside the definition it would replace to show that a
property would notice it.

Correspondence and abstraction, by component:

- *Flight core.* `Admission` is the sequence of sample checks with their early
  returns (lines 127-153), `Record` the three assignments after them, `Command`
  the latch, the arm request and the control path. A sample is its sequence
  number, its two time stamps and whether its data pass the validity test. The
  controller and the mixer are submodules: `LibraryAnswer` enumerates what the
  step distinguishes of them. `integrated` stands for the PID's memory: the
  sensor time it has been updated with since its reset. A negative rotor
  request wraps (`Wrapped`), as the conversion to `uint16_t` on the targets
  does. Times are ticks; sequence numbers do not wrap. `aiding_update` is called
  only with an enabled and valid source. In `FlightSystem` the caller's output
  structure starts zeroed.
- *Endpoint.* `Body` sorts frames by what the decoder and the core make of
  them. The decoder tests in `float` what the core tests in `double`, so both
  edges exist ("inaccurate", "unguided"). A device time of 0 is let in although a
  frame takes longer to arrive than the first millisecond after boot lasts; it
  adds behaviours and takes none away. `DeviceFrame` is one call of `process_frame` with
  the choice of the library's answer and of whether the doubles of the answer
  fit into floats. `recorded`, `reported` and the `to` of a reply are history.
  The line carries whole frames: what the parser makes of damage is either an
  error (`Garble`) or silence (`LoseFrame`), and `StreamLine` shows where either
  comes from.
- *Parser.* Both C parsers are one function; the constants are what differs. The
  16-bit length and CRC fields are one byte. `Crc` is any function from byte
  sequences; TLC uses a byte sum.
- *Codecs.* A field is a tuple of words, a word of four bytes is the `int32_t`
  with its bits and a float is such a word, so that its tests are tests of bits.
  The squared norm of a quaternion is exact for components 0, 0.5 and 1; others
  near the limits 0.81 and 1.21 do not occur, nor does rounding. The limits
  (`ValidCommand`, ...) and the layout `Written` are translated from the encoders,
  the limits `AcceptedCommand`, ... and the layout `Read` from the decoders, so that
  a disagreement of the two would show; shared are only the helpers that both
  call in C. `CodecLine`
  carries whole frames and flips bits in them; bytes lost or added are
  `StreamLine`'s. Its foreign sender stands for tools and images that pack a
  frame without these encoders. NULL arguments are left out. `StreamParser`
  keeps its abstract CRC.
- *Motor bank.* `elapsed_ms` and `command_timeout_ms` keep their order of width
  (`WidthAssumption`). The set `issued` is the link: what was ever sent may
  arrive now, later, repeatedly or never.
- *Bridge.* Sequence numbers wrap at `Modulus` and the comparison is the signed
  difference. `poll`, the read of a chunk, each frame of it, `write_all` and the
  signal are separate steps. Frames of telemetry are counted, since the bridge
  looks at nothing in them but their validity. A frame that fails the parser or
  decoder is a lost frame, and so is the torn one that a failed write leaves.
  The armed command of `LineFault` is another sender's: the source cannot arm.
- *CEVA path.* An attitude is a point of a circle whose opposite points are the
  same attitude, as a quaternion and its negative are; `Obtuse` is the negative
  dot product. A report is its time stamps, its attitude and whether its accuracy
  will do; unsound ones (not finite, wrong norm, or not decodable) are counted
  and dropped. The hub and its library are external: reports are due once a
  period, in the order of their stamps, with any phase between the two kinds.
  Without faults they come at once and without jitter; with jitter, phases
  within it of `MaxSkew` could change the pairing and make one gap longer than
  `max_dt_s`. `ProbeAssumption` is what the probe's constants satisfy (period 40
  ms, skew 25, age and timeout 100, dt from 20 to 60). Host and sensor clocks
  are set alike at the start, which is no restriction: the code never compares
  the one with the other.
- *SPI HAL.* Each access to `data_ready`, to the time stamp and to INT is a step
  of its own, and `Interrupt` may run between any two of them. The time stamp is
  not volatile, so `Enter` may already have loaded it. An interrupt that is
  pending runs before a transfer or a sleep is over (`~irq` in their guards). The
  hub and its library are external: it asserts INT for a packet or in answer to
  WAKE and releases it when it is selected; a packet whose transfer breaks off
  it drops or announces again (`Wasted`). A write clocks a packet out as well, and
  what arrives is left in `hal.rx`. The library writes while it is set up only,
  hence `MaxWrites`. The wrap of the 32-bit clock, which the library extends, is
  outside the model.
- *ADS1234 probe.* The converter is its last conversion, how often that has been
  clocked and the time since. A read-out takes microseconds and a conversion a
  hundred milliseconds, so a read-out is one step and time passes in polls. The
  values that are printed are kept, the running number is not.
- *GD3000 probe.* A transfer is one step, since the chip loads its answer when it
  is selected; inside it the bits go over MOSI and MISO one at a time (`Sent`,
  `Seen`), and a clock that the chip misses shifts the rest. What the chip
  answers after a command of the wrong length is left open. In a transfer in which
  nobody drives MISO the probe reads the pull-down of its pin (`Undriven`), whether
  or not the chip takes the command. Setting up the pins
  and printing pad levels are left out, and so is the error of a register number
  above 3, which main never asks for.

## 3. Runs

| Run | Bounds | Shows |
| --- | --- | --- |
| `flight_system` | sequence to 2, sensor time to 6, host time to 3, dt in 2..3, one aiding source | `SampleChain`, `IntegratorWindow`, `LatchHolds`, refinement of `Interlock` |
| `host_hil` | 2 sessions, sequence 0..2, time to 4, 2 frames and 1 reply in flight | `ArmedIsReported`, `SessionOwnsHistory`, `AnswerFitsQuestion` |
| `host_hil_duplicate` | as above, time to 3 | violated: `DuplicateDoesNotArm` |
| `motor_system` | 2 motors, 4 commands, 2 sessions, timeout 2, timer width 3, steps to 3 | `LeaseHolds`, `SessionOpenedDisarmed`, `RefusedUntilPassed`, `StopsAreExplained`, refinement of `MotorLease`, `StopsForGood` |
| `stream_line` | 4 byte values, 3 frames of which one is not plain, header 5, payload to 1, capacity one byte short of the longest frame | `BufferBounded`, `FramesWellformed`, `DeliversWhatArrived`, `IntactIsDelivered`, `Recovers` |
| `stream_line_corrupt` | as above | violated: `CorruptFrameDisarms` |
| `codec_line` | every field of the four frames at its edges, one word at a time, two sizes of buffer; hits of 1 or 2 bits at most 15 apart | `DecodesWhatWasSent` |
| `usb_bridge` | modulus 6, 2 motors, 2 sessions, port of 2, sink of 1, 1 fault, 1 restart | `ForwardsInOrder`, `OutageBounded`, `KeepsFlowing`, `StopsWhenAsked` |
| `ceva_probe` | period 8, skew 5, dt in 4..12, age 20, 4 attitudes, sensor time to 34, 2 faults | `UndisturbedFlies`, `FlowsSteadily`, `RefusedOnlyForCause`, `SamplesFollow`, `FailsafeIsFinal` |
| `ceva_hal` | clock to 4, 2 writes, 1 poll, 1 failed transfer | `StampsInOrder`, `PacketsAreRead` |
| `bench_probes` | 3-bit conversions in 5-bit integers, conversion of 2 polls, time-out of 3, 2 pin errors, 2 left-out conversions; 3-bit registers, 4 of them, 2 upsets of the chip | `ReportsAreTrue`, `StatusAnswersRequest` |
| `ceva_probe_rejected` | as `ceva_probe`, 1 fault | violated: `RejectedIsLatched` |

Why the bounds are enough. Each lets the interesting case happen: gaps shorter
and longer than `MaxDt`, samples from before, within and behind a gap, and stale and future samples (flight), a repeat behind a
frame and a late answer in a new session (host HIL), a saturating timer, a
delayed command of the other session and an old number under a new session
(motors), every header fault, overlapping beginnings of frames, and a frame that holds the
beginning of another (parser), each limit
from both sides, words whose bytes differ, NaN, infinity and minus zero in each
place of a message, and damage in each place of a frame (codecs), a
full turn of the sequence numbers with a restart at each of them (bridge), every
phase between the reports, skews on both sides of the limit, gaps of one and of
two periods and a report older than the age limit (CEVA), an interrupt before, between
and after the steps of a read, with a write and a failed transfer before it (HAL),
every 3-bit value, time-outs that race a conversion, a read-out broken off at
each bit, and in the read of each register a clock missed at each place, a reset,
an undriven line and a new flag (bench probes). The
proofs then remove the bounds for the properties they cover. All cfgs check for
deadlock. Bounds are in the guards of the environment's actions
(`MaxSequence`, `MaxHostTime`, `MaxCommands`, `MaxFaults`, ...) and never in the
program's.

### Three disagreements with the documents

- `host_hil_duplicate`: `docs/host-hil-contract-2026-08-27.md:25-26` says that
  duplicate input disarms or latches. The parser error that line noise causes
  disarms the core and thereby clears `has_sample` (`flight_core.c:111`); the
  same frame, repeated by the host, is then executed again and arms. Without
  the noise in between a duplicate does trip the failsafe.
- `stream_line_corrupt`: `host_hil_endpoint/README.md:11-12` says that corrupt
  frames cannot retain an armed state. A frame hit in a magic byte is skipped
  without an error (`hil_link.c:117-125`), and the core stays armed.
- `ceva_probe_rejected`: `docs/nrf5340-live-ceva-probe-2026-08-26.md:116-117`
  expects each injected stale, repeated, skewed or invalid report to produce a
  latched safe state. A report that the adapter rejects is counted and dropped
  (`ceva_flight_probe/src/main.c:141-144`); the core hears nothing of it, and
  after a repeated one the probe flies on. What does latch the core is the gap
  that a lost or unsound report leaves between two samples.

### Behaviour worth knowing that no document contradicts

- After a gap longer than `max_dt_s` the core refuses each sample from behind the
  gap and stays in FAILSAFE until disarm or init, since a refused sample does
  not replace the last one. Only a delayed sample from within the gap that comes
  after all, with the arm request low, gets it out by a step (`LatchHolds`).
- The endpoint has no watchdog: without bytes an armed core stays armed.
- A frame with sequence 0 is executed, but its answer does not encode and the
  core is disarmed; the host hears nothing.
- The motor bank checks the sequence before the session and does not follow the
  wrap, while the bridge does both the other way round: a controller that starts
  its numbers again, even in a new session, is refused until it has passed the
  highest number the motor has obeyed, and not for longer (`RefusedUntilPassed`).
- A parser that has lost its place can take up the beginning of a frame inside a
  frame. Where the header found there is refused in time this costs nothing;
  where it is accepted, or still open when the frame ends, the frame is no
  better than noise to it, and a sender that repeats such a frame may never get
  it through.
- A command source that restarts is refused by the bridge for up to half of
  the number space and one (`OutageBounded` is that bound, and it is reached).
  A line that could lose half of the number space within one boot
  (not `FewFaults`; 2^31 commands in the code) would break it: the gap can lead
  from the new numbers back into the refused half. TLC finds this for modulus 4.
- The probe asks to arm for ever, so its first fault is its last
  (`FailsafeIsFinal`): one sample of too low an accuracy at the start, before the
  sensor is calibrated, and it never flies.
- When the reports stop, the probe no longer steps its core, which stays armed.
- A packet's time stamp may be that of an earlier interrupt: of the packet before
  when INT is seen active before its interrupt has run, or of a packet that a
  write has swallowed. `StampsInOrder` is how far it can be off: not before the
  assertion of INT for the packet read before it.
- The level of INT in `ceva_read` is what recovers an edge lost to the clearing
  of `data_ready` and a packet whose transfer failed (`PacketsAreRead`).
- A packet that the hub sends during a write is discarded.
- When `DOUT` cannot be read in the middle of a read-out, the bits left in the
  converter can be taken for a conversion: the ADS1234 probe then prints one
  sample that is none (`ReportsAreTrue` shows that it is one).
- A clock that the GD3000 misses spoils the read it happens in and no other, and
  leaves a framing error, which the probe never clears: `fault=1` from then on.
- A read that nobody answers is printed as `0x00`, a chip without faults: the pin's
  weak pull-down is all there is to read, as
  `docs/gd3000-bringup-2026-08-25.md:86-98` found. The code has no test for that;
  `StatusAnswersRequest` excepts such a read, and shows that it spoils no other.

## 4. Fairness

`FlightSystem`, `HostHil`, `StreamLine`, `CodecLine`, `CevaProbe` and `BenchProbes`
claim safety only and state none; `FlowsSteadily` bounds by the clock what would be liveness.
`MotorSystem!TimePasses` is weak fairness of `StepBank` with a positive time:
the simulation that owns the bank calls it in its loop. Nothing is assumed of the
controller or the link. `UsbBridge!Fairness` is weak fairness of the three
programs' own loops (`for (;;)` in source and sink, `while (running)` in the
bridge); it holds for the bridge's write because the sink drains its port in
every iteration. Line faults and restarts are bounded by `MaxFaults` and
`MaxReboots`, and nobody has to restart a bridge. The source's commands are 20 ms
apart while the bridge polls at once, so its port is taken to have room while
the bridge runs; with no bridge they vanish. `CevaHal!Fairness` is weak fairness of
`Interrupt`, which nothing in the image masks for ever, and of `Service`, the
steps of a read or a write: main's endless loop calls the library, which reads,
every millisecond (`ceva_flight_probe/src/main.c:192-203`). Opening, closing and
beginning a write are not fair, nor is anything the hub does.

## 5. Proofs

Assumptions are the named ASSUMEs of the modules: `ConfigAssumption` (what
`valid_config` accepts), `BoundAssumption`, `WidthAssumption`,
`SystemAssumption`, `LayoutAssumption`, `FramesAssumption`, `BridgeAssumption`,
`HilBoundAssumption`, `AdapterAssumption`, `ProbeAssumption`, `HalAssumption`,
`AdsAssumption`, `GdAssumption`, `CodecAssumption`. TLC evaluates each
of them.

- **Flight core** (`FlightCoreProofs`, `FlightSystemProofs`). Lemmas say once
  what a refused and a recorded sample return. The inductive invariant is
  `TypeOK /\ SampleChain /\ HistoryMatches /\ IntegratorWindow /\ ArmedHasSample
  /\ GapAhead`. `HistoryMatches` ties the history of samples to what the core
  remembers. `ArmedHasSample` is needed since without a sample the next `Dt` would
  not continue the window. `GapAhead`, needed for `LatchHolds`: the gap the history
  tells of is more than `MaxDt` ahead of the last sample recorded, so no sample
  from behind it can be recorded next. Theorems: `TypeCorrect`,
  `SampleChainHolds`, `IntegratorWindowHolds`, `LatchHoldsAlways`, and
  `Refinement`: initial states map to initial states, and each action to one
  of the interlock's or a stutter.
- **Motors** (`MotorSystemProofs`). `SaturatingSumExact` shows that saturation
  is only reached beyond any timeout, where the motor stops anyway; so for a
  motor that runs the timer is the true time. Invariant: per motor, an armed one
  is initialised, in time, and in the session it opened disarmed; and what a
  motor remembers of its sequence is the highest number it has obeyed. Theorems:
  `TypeCorrect`, `LeaseAlwaysHolds`, `SessionsOpenDisarmed`,
  `AlwaysRefusedUntilPassed`, `StopsAlwaysExplained`, `ImplementsLease`.
- **Parser** (`StreamLineProofs`). `Sound` describes a parser between two
  bytes: outside a frame, inside a header, or inside a frame whose header passed.
  `Tracks` adds that a parser that was outside any frame when a frame began
  holds exactly the part sent so far. `History`: the buffer is the end of what
  has arrived since the last delivery. `Catching` is about a parser that has
  lost its place: the frames lost so far are still in the buffer, each at least
  the shortest frame long, or the buffer is done with them, or it holds the
  frame that is under way. Nothing is assumed of the frames, but only plain
  ones count (`Plain`): the first magic byte may stand anywhere in them, and both
  magic bytes where the header they seem to begin ends within the frame and is
  refused, so that a parser that has taken it up is on its way again when the frame
  ends. A frame that is not plain counts as noise does. The commands of
  `hil_command_source`, whose session id `0x41535231` holds the first magic byte, are
  plain but for the few whose number or CRC holds both magic bytes. An open
  buffer of two bytes waits for at most `MaxFrame - 2` more, which is where
  `LossBound` comes from. Theorems: `TypeCorrect`, `BufferNeverFull`,
  `OnlyWellformedFrames`, `IntactAlwaysDelivered`, `AlwaysDeliversWhatArrived`,
  `AlwaysRecovers`, for every layout and CRC.
- **Host HIL** (`HostHilProofs`). `DeviceOutcome` is what `process_frame` can
  lead to, for every frame and every answer of the library. Invariant:
  `HostInv /\ ArmedIsReported /\ SessionOwnsHistory`. `HostInv` is about what the
  lines carry: every frame has a number the host has used, one with the number
  of the pending frame is the pending frame, and a reply answers its own frame
  (`PendingNumbered`, `FramesKnown`, `RepliesKnown`). It is needed since the
  properties hold only because no two frames of a host share a number. Theorems:
  `TypeCorrect`, `ArmedAlwaysReported`, `SessionAlwaysOwnsHistory`,
  `AnswersAlwaysFit`.
- **Bridge** (`UsbBridgeProofs`). `BridgeInv`: the command in `write_all` is
  unarmed, is the one `sequence_is_new` remembers and is ahead of the last one
  written; between two writes the last one written is the one remembered; and a
  bridge that has ended has written nothing. Theorems: `TypeCorrect`,
  `NeverForwardsArmed`, `OrderKept`, and `OrderFollowsWrap`, what the signed
  difference means for every even modulus. `ForwardsInOrder` and `OutageBounded`
  count what may be left out, and that depends on all that is on its way. `Line`
  is the sequence of the command the bridge remembers, its chunk, its port and
  what the source sends next. It is `Regular` when each command in it can be
  given two tallies, of what was lost and of what was repeated before it, that
  only grow, end within the faults so far, and account for every gap between the
  numbers of successive commands of one boot. `LineInv` says that the line is
  regular, and while a boot is being refused also that the line that starts
  with its last refused command is, with as many repeats to begin with as there
  were refusals beyond the numbers used up (`Refusals`). A loss, a repeat or a
  foreign armed command on the line, a new command, a restart, and the bridge's
  forgetting of its head each keep a sequence regular (`RegularWithout`,
  `RegularWith`, `RegularSent`, `RegularRestart`, `RegularTail`). A number that
  the comparison takes for an old one is then the remembered one
  (`StaleIsRepeat`). Theorems: `AlwaysForwardsInOrder`, `OutageAlwaysBounded`.
- **CEVA probe** (`CevaProbeProofs`). `EventOutcome` sorts what the sensor
  callback can lead to. Strengthening: `CoreBehindAdapter`, the core has recorded
  no sample beyond those the adapter has emitted, so that a sample the adapter lets
  through is new to the core; and `HistoryInAdapter`, what is recorded of the last
  sample is what the adapter remembers of it. For a hub left alone the invariant
  `Undisturbed` follows the two kinds of report against each other: each comes on
  time (`Punctual`), and either no sample exists since a kind is missing or the
  first pair was too far apart (`Waiting`), or the last sample was built from both
  newest reports (`Paired`), or one kind is ahead of it by at most a period and
  near enough to the next report of the other (`Ahead`). Theorems: `TypeCorrect`,
  `FailsafeAlwaysFinal`, `AlwaysRefusedForCause`, `SamplesAlwaysFollow`,
  `UndisturbedAlwaysFlies`, `AlwaysFlowsSteadily`.
- **SPI HAL** (`WireProofs`). The invariant `Order` follows a time stamp from
  the interrupt to the read: stamps are in the past, a stamp is at least as late
  as the edge that caused it, an announced packet has its edge behind it, and a
  stamp already loaded by `Enter` is not older than the packet before.
  Theorems: `TypeCorrect`, `StampsAlwaysInOrder`.

- **Bench probes** (`WireProofs`). Both probes put a number together from its
  bits with `FoldLeft`. The library's induction theorems cannot be instantiated,
  but that `<` is well-founded is stated there for sets, and gives induction for a
  set of numbers (`FromNextToNext`). By it the function that a fold chooses exists
  (`FoldExists`) and the fold takes in one digit after the other (`BinaryMeans`);
  so a number of n digits is below 2^n, its first digit weighs 2^(n-1), and
  a byte sent bit by bit arrives (`BinaryBounded`, `BinarySplit`, `BitsOfByte`).
  That powers of 2 double comes from the number of subsets of a set
  (`PowerDoubles`). `SampleMeans`: the value extended to an int32_t is the two's
  complement of the conversion. The invariant of the load-cell probe says where
  its clocks can stand: within a word only after an error, and low there only
  while the error is the last thing printed (`BrokenOff`); a poll that found DOUT
  high finds it high again or a fresh conversion (`HighUntilDone`); so what is
  ready is a conversion (`ReadyForOne`), and one left unread while the probe prints
  is fresh (`LeftUnread`). That of the status probe: unless this read was upset the
  chip has the request that the flush will clock out (`Asked`), and the registers
  read so far are what they were (`ReadTruly`). Theorems: `BenchTypeCorrect`,
  `ReportsAlwaysTrue`, `StatusAlwaysAnswersRequest`.

- **Codecs** (`WireProofs`). Three things make a frame decode to what was sent.
  The layouts: each is sound (fields inside the payload, no two on one byte) and
  the encoder's is the decoder's (`LayoutsSound`), and what `Put` writes `Get`
  reads back, sign included (`GetsWhatWasPut`); so each part of a frame is found
  where the decoder looks for it (`PackMeans`, `WordCarried`, `ValuesRead`). The
  CRC: the registers of two runs are compared as the set of digits in which they
  differ (`Apart`). The next such set depends only on the one before and on whether
  the two bits differ (`ApartAfterShift`), so one flipped bit leaves one of 15
  fixed patterns for 15 bits (`Pattern`), which a second hit in that time cannot
  cancel (`TwoHits`) and which a hit of the CRC field itself does not match
  (`DamageNoticed`). And the limits: those of each decoder are compared with its encoder's
  (`AcceptableMeans`). The helpers that both call, `ValidQuaternion`, `AllFinite` and
  `NonNegative`, stay closed, so the proof does not depend on how the model rounds
  the squared norm of a quaternion. The invariant `LineInv`: the
  frame on the line differs from the packed one in exactly the bits of `hits`. Theorem:
  `FramesDecode`, for every set of messages with the types of the structures
  (`WellTyped` in `CodecAssumption`), every value of every field and every place
  of the hits, if `MaxHits` is at most 2 and `Span` at most 15. A CRC of 16 bits
  misses some damage beyond that, so the two bounds are those of the claim.

Only model-checked: the liveness properties (`StopsForGood`, `KeepsFlowing`,
`StopsWhenAsked`, `PacketsAreRead`), since fairness and ENABLED are out of the
prover's reach. Every other property of a passing run is stated by a theorem.

## 6. Not modelled

Numerical control, mixing and estimation (absent submodules); statistics, logging and console output; the
benchmark image; build files, scripts and CI. The configuration errors of `init`
leave a zeroed core that the callers do not use, and NULL arguments do not occur
in this code: both are left out. So are the wrap of the flight core's 32-bit sequence numbers
(after 2^32 samples it refuses each until it is disarmed), the pad set-up of the
GD3000 probe and the running number that the ADS1234 probe prints.

## 7. What is left

1. Liveness stays with TLC's bounds. Where the code gives a number, a bound is
   claimed and proved instead of an "eventually": `Recovers` (in lost plain frames),
   `OutageBounded` (in commands), `FlowsSteadily` (in time).
2. Nothing watches a silent host (`host_hil_endpoint/src/main.c:100`): an armed
   core stays armed for as long as no frame arrives. No text of the repository
   promises otherwise, so no property says so.
3. Arithmetic that the models leave exact: the squared norm of a quaternion
   in floats, and the wrap of the clocks and of the core's sequence numbers.
