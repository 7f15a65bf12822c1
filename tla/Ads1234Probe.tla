----------------------------- MODULE Ads1234Probe -----------------------------
(***************************************************************************)
(* The load-cell probe (ads1234_probe/src/main.c) and the converter that   *)
(* it reads over two pins: DOUT is low when a conversion is ready, each    *)
(* rising SCLK shifts the next bit out, and the clock after the last bit   *)
(* sets DOUT high.  The converter is not in src/.                          *)
(*                                                                         *)
(* A read-out takes microseconds and a conversion a hundred milliseconds:  *)
(* time passes, and a conversion ends, only while the probe sleeps between *)
(* two polls or prints.  A fault is a pin that cannot be read.             *)
(***************************************************************************)
EXTENDS Integers, Sequences, SequencesExt

CONSTANTS
    AdsBits,         \* ADS1234_BITS
    AdsWidth,        \* the width of int32_t
    ReadyTimeout,    \* ADS1234_READY_TIMEOUT_MS, in polls
    Conversion,      \* how many polls a conversion takes
    MaxPinErrors,
    MaxStalls        \* how often the converter leaves a conversion out

ASSUME AdsAssumption ==
    /\ AdsBits \in Nat \ {0} /\ AdsWidth \in Nat /\ AdsWidth > AdsBits
    /\ ReadyTimeout \in Nat /\ Conversion \in Nat /\ Conversion > 1
    /\ Conversion < ReadyTimeout
    /\ MaxPinErrors \in Nat /\ MaxStalls \in Nat

VARIABLES
    adc,        \* the converter: its conversion, how often that was clocked, its age
    sampler,    \* the probe: where it is, how often it has polled
    report,     \* what it has printed last
    pinErrors,
    stalls

adsVars == <<adc, sampler, report, pinErrors, stalls>>

Conversions == [1..AdsBits -> {0, 1}]

\* Clocked once more than it has bits, the converter has nothing to say.
Spent == AdsBits + 1

AdsTypeOK ==
    /\ adc \in [word : Conversions, clocks : 0..Spent, age : 0..(Conversion - 1)]
    /\ sampler \in [at : {"waiting", "ready", "printing"}, polls : 0..ReadyTimeout]
    /\ report \in [kind : {"NONE", "SAMPLE", "TIMEOUT", "ERROR"}, counts : Int]
    /\ report.counts \in -(2 ^ (AdsBits - 1))..(2 ^ (AdsBits - 1) - 1)
    /\ pinErrors \in 0..MaxPinErrors
    /\ stalls \in 0..MaxStalls

\* After reset_adc the first conversion is under way.
AdsInit ==
    /\ adc = [word |-> [i \in 1..AdsBits |-> 0], clocks |-> Spent, age |-> 0]
    /\ sampler = [at |-> "waiting", polls |-> 0]
    /\ report = [kind |-> "NONE", counts |-> 0]
    /\ pinErrors = 0
    /\ stalls = 0

-----------------------------------------------------------------------------
(* The converter *)

\* DOUT after so many clocks
Level(clocks) ==
    CASE clocks = 0 -> 0
      [] clocks \in 1..AdsBits -> adc.word[clocks]
      [] OTHER -> 1

Clocked(n) == IF adc.clocks + n < Spent THEN adc.clocks + n ELSE Spent

\* A poll interval passes; a conversion that ends replaces the one before.
PollPasses ==
    IF adc.age + 1 < Conversion
    THEN adc' = [adc EXCEPT !.age = @ + 1] /\ UNCHANGED stalls
    ELSE \/ /\ \E word \in Conversions : adc' = [word |-> word, clocks |-> 0, age |-> 0]
            /\ UNCHANGED stalls
         \/ /\ stalls < MaxStalls /\ stalls' = stalls + 1
            /\ adc' = [adc EXCEPT !.age = 0]

-----------------------------------------------------------------------------
(* The probe *)

Printed(kind, counts) ==
    /\ sampler' = [sampler EXCEPT !.at = "printing"]
    /\ report' = [kind |-> kind, counts |-> counts]

PinError == pinErrors < MaxPinErrors /\ pinErrors' = pinErrors + 1

\* wait_for_ready before its deadline: DOUT cannot be read, is low, or high.
AwaitReady ==
    /\ sampler.at = "waiting" /\ sampler.polls < ReadyTimeout
    /\ \/ /\ PinError
          /\ Printed("ERROR", report.counts)
          /\ UNCHANGED <<adc, stalls>>
       \/ /\ Level(adc.clocks) = 0
          /\ sampler' = [sampler EXCEPT !.at = "ready"]
          /\ UNCHANGED <<adc, report, pinErrors, stalls>>
       \/ /\ Level(adc.clocks) = 1
          /\ sampler' = [sampler EXCEPT !.polls = @ + 1]
          /\ PollPasses
          /\ UNCHANGED <<report, pinErrors>>

GiveUp ==
    /\ sampler.at = "waiting" /\ sampler.polls = ReadyTimeout
    /\ Printed("TIMEOUT", report.counts)
    /\ UNCHANGED <<adc, pinErrors, stalls>>

\* The levels that the probe sees after each of its clocks.
Levels == [i \in 1..AdsBits |-> Level(Clocked(i))]

Raw(levels) == FoldLeft(LAMBDA raw, level : 2 * raw + level, 0, levels)

\* Mutation: the bits above the sign are left alone.
Unextended(raw) == raw

\* The upper bits filled with the sign, read as an int32_t
Extended(raw) ==
    LET sign == 2 ^ (AdsBits - 1)
        bits == IF raw >= sign THEN raw + 2 ^ AdsWidth - 2 ^ AdsBits ELSE raw
    IN IF bits >= 2 ^ (AdsWidth - 1) THEN bits - 2 ^ AdsWidth ELSE bits

\* Mutation: the optional clock after the last bit is left out.
WithoutLastClock == AdsBits

\* How often a whole read-out clocks.
AllClocks == AdsBits + 1

ReadOut ==
    /\ sampler.at = "ready"
    /\ Printed("SAMPLE", Extended(Raw(Levels)))
    /\ adc' = [adc EXCEPT !.clocks = Clocked(AllClocks)]
    /\ UNCHANGED <<pinErrors, stalls>>

\* DOUT cannot be read after some clock, and the bits that are left stay in
\* the converter.
BreakOff ==
    /\ sampler.at = "ready"
    /\ PinError
    /\ Printed("ERROR", report.counts)
    /\ \E n \in 1..AdsBits : adc' = [adc EXCEPT !.clocks = Clocked(n)]
    /\ UNCHANGED stalls

\* printk takes no time to speak of or some, and the next read has its own
\* deadline.
Restart ==
    /\ sampler.at = "printing"
    /\ sampler' = [at |-> "waiting", polls |-> 0]
    /\ PollPasses \/ UNCHANGED <<adc, stalls>>
    /\ UNCHANGED <<report, pinErrors>>

AdsNext == AwaitReady \/ GiveUp \/ ReadOut \/ BreakOff \/ Restart

AdsSpec == AdsInit /\ [][AdsNext]_adsVars

-----------------------------------------------------------------------------
(* Properties *)

\* The value of a conversion in two's complement, as the converter means it.
Counts(word) ==
    FoldLeft(LAMBDA n, bit : 2 * n + bit, -word[1], Tail(word))

\* What main prints of a read is true.  A sample is the value of a
\* conversion that was not reported before; the one exception is the read
\* after an error, which may take what a broken read-out left for a
\* conversion.  A time-out means that the converter was silent until the
\* last poll.  And no conversion is replaced unread but after errors.
ReportsAreTrue ==
    /\ [][ReadOut =>
            \/ adc.clocks = 0 /\ report'.counts = Counts(adc.word)
            \/ report.kind = "ERROR"]_adsVars
    /\ [][GiveUp => adc.clocks # 0 \/ adc.age = 0 \/ report.kind = "ERROR"]_adsVars
    /\ [][adc.clocks = 0 /\ adc'.age = 0 /\ adc.age # 0 =>
            stalls' > stalls \/ report.kind = "ERROR"]_adsVars

=============================================================================
