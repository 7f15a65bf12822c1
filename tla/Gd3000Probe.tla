------------------------------ MODULE Gd3000Probe -----------------------------
(***************************************************************************)
(* The GD3000 status probe (gd3000_status_probe/src/main.c), the status    *)
(* protocol under it (common/gd3000_protocol.c) and the gate driver that   *)
(* they read over a serial line made of GPIO pins.                         *)
(*                                                                         *)
(* The chip is not in src/.  It answers a command with the next transfer:  *)
(* when it is selected it loads the register that it was asked for last,   *)
(* and it obeys a command when it is deselected.  A command of the wrong   *)
(* length it flags and ignores.  Nothing that happens to it within a       *)
(* transfer changes the byte it has loaded, so a transfer is one step.     *)
(* Nobody clears a flag: the probe sends NULL commands only.               *)
(***************************************************************************)
EXTENDS Integers, Sequences, SequencesExt

CONSTANTS
    GdBits,       \* the bits of a byte, 8
    Registers,    \* how many status registers there are, 4
    MaxUpsets     \* how often the chip raises, resets, misses or does not drive something

ASSUME GdAssumption ==
    /\ GdBits \in Nat /\ GdBits > 2
    /\ Registers \in Nat \ {0} /\ Registers <= 2 ^ GdBits
    /\ MaxUpsets \in Nat

VARIABLES
    chip,     \* its status registers and the one that it was asked for
    probe,    \* where main is: the register and the transfer of its read
    raw,      \* the answers of this round
    printed,  \* what print_status0 said last
    upsets,
    held,     \* history: what each register held when its answer was loaded
    upset     \* history: whether its read was spoilt: a clock, the supply, the line

gdVars == <<chip, probe, raw, printed, upsets, held, upset>>

Byte == 0..(2 ^ GdBits - 1)
Register == 0..(Registers - 1)

\* The bit of a byte at a place, the most significant first.
BitAt(byte, place) == (byte \div 2 ^ (GdBits - place)) % 2

\* Places of the flags in status register 0.
ResetEvent == 1
FramingError == 3

Raise(byte, place) ==
    byte + (1 - BitAt(byte, place)) * 2 ^ (GdBits - place)

\* A chip that comes out of reset: 0x80, 0x00, 0xFF, 0x00.
ResetStatus ==
    [r \in Register |->
        CASE r = 0 -> Raise(0, ResetEvent) [] r = 2 -> 2 ^ GdBits - 1 [] OTHER -> 0]

GdTypeOK ==
    /\ chip \in [status : [Register -> Byte], asked : Register]
    /\ probe \in [register : 0..Registers, transfer : {"request", "flush"}]
    /\ probe.register = Registers => probe.transfer = "request"
    /\ raw \in [Register -> Byte]
    /\ printed \in [fault : BOOLEAN, reset : BOOLEAN]
    /\ upsets \in 0..MaxUpsets
    /\ held \in [Register -> Byte]
    /\ upset \in [Register -> BOOLEAN]

Unread == [r \in Register |-> 0]

\* The pins are set up and RST_B has been low and is high now.
GdInit ==
    /\ chip = [status |-> ResetStatus, asked |-> 0]
    /\ probe = [register |-> 0, transfer |-> "request"]
    /\ raw = Unread
    /\ printed = [fault |-> FALSE, reset |-> FALSE]
    /\ upsets = 0
    /\ held = Unread
    /\ upset = [r \in Register |-> FALSE]

Upset == upsets < MaxUpsets /\ upsets' = upsets + 1

-----------------------------------------------------------------------------
(* The chip *)

\* A fault of the power stage raises a flag.
FlagRises ==
    /\ Upset
    /\ \E place \in (1..GdBits) \ {ResetEvent} :
          /\ BitAt(chip.status[0], place) = 0
          /\ chip' = [chip EXCEPT !.status[0] = Raise(@, place)]
    /\ UNCHANGED <<probe, raw, printed, held, upset>>

\* Another register follows what the chip is doing.
StatusChanges ==
    /\ Upset
    /\ \E r \in Register \ {0}, byte \in Byte :
          /\ byte # chip.status[r]
          /\ chip' = [chip EXCEPT !.status[r] = byte]
    /\ UNCHANGED <<probe, raw, printed, held, upset>>

\* Its supply fails, and the request that it had taken is forgotten.
ChipResets ==
    /\ Upset
    /\ chip' = [status |-> ResetStatus, asked |-> 0]
    /\ upset' = [r \in Register |->
                    upset[r] \/ (r = probe.register /\ probe.transfer = "flush")]
    /\ UNCHANGED <<probe, raw, printed, held>>

\* What the chip makes of the bits that it has taken in by the time it is
\* deselected; what it answers after a command that it ignored is open.
Obey(command) ==
    chip' = [chip EXCEPT !.asked = command % Registers]

Refuse ==
    \E r \in Register :
        chip' = [chip EXCEPT !.asked = r, !.status[0] = Raise(@, FramingError)]

-----------------------------------------------------------------------------
(* asr_fc_gd3000_status_read_sequence, gd3000_transfer, gd3000_read_status *)

FromBits(bits) == FoldLeft(LAMBDA n, bit : 2 * n + bit, 0, bits)

\* Mutation: no NULL0 clocks the answer out (the first probe of the bring-up).
AnswersAtOnce == {"request"}

\* The transfers whose answer is the value of the register.
AnswersWith == {"flush"}

\* asr_fc_gd3000_null_command(r) is r, and the flush is NULL0.
Command == IF probe.transfer = "request" THEN probe.register ELSE 0

\* MOSI at each falling clock
Sent == [bit \in 1..GdBits |-> BitAt(Command, bit)]

\* MISO after each falling clock: a chip that misses a clock repeats a bit,
\* and what comes before its first bit is open.
Seen(missed, open) ==
    [bit \in 1..GdBits |->
        LET shifted == IF bit < missed THEN bit ELSE bit - 1
        IN IF shifted = 0 THEN open ELSE BitAt(chip.status[chip.asked], shifted)]

\* MISO when the chip does not drive it: the weak pull-down of its pin.
Undriven == [bit \in 1..GdBits |-> 0]

\* gd3000_transfer: the answer is kept by a flush and dropped by a request.
Keep(answer) ==
    raw' = IF probe.transfer \in AnswersWith
           THEN [raw EXCEPT ![probe.register] = answer]
           ELSE raw

Advance ==
    probe' = IF probe.transfer = "request"
             THEN [probe EXCEPT !.transfer = "flush"]
             ELSE [register |-> probe.register + 1, transfer |-> "request"]

Transfer ==
    /\ probe.register < Registers
    /\ Advance
    /\ held' = IF probe.transfer = "flush"
               THEN [held EXCEPT ![probe.register] = chip.status[probe.register]]
               ELSE held
    /\ \/ /\ Obey(FromBits(Sent))
          /\ Keep(FromBits(Seen(GdBits + 1, 0)))
          /\ UNCHANGED <<upsets, upset>>
       \/ /\ Upset
          /\ Refuse
          /\ \E missed \in 1..GdBits, open \in {0, 1} : Keep(FromBits(Seen(missed, open)))
          /\ upset' = [upset EXCEPT ![probe.register] = TRUE]
       \/ /\ Upset
          /\ Obey(FromBits(Sent)) \/ UNCHANGED chip
          /\ Keep(FromBits(Undriven))
          /\ upset' = [upset EXCEPT ![probe.register] = TRUE]
    /\ UNCHANGED printed

-----------------------------------------------------------------------------
(* print_status0 and main *)

\* Mutation: a reset event counts as a fault.
AnyFlag(byte) == \E place \in 1..GdBits : BitAt(byte, place) = 1

\* asr_fc_gd3000_status0_has_fault
HasFault(byte) ==
    \E place \in (1..GdBits) \ {ResetEvent} : BitAt(byte, place) = 1

\* The round is printed and the next one begins a second later.
Report ==
    /\ probe.register = Registers
    /\ printed' = [fault |-> HasFault(raw[0]), reset |-> BitAt(raw[0], ResetEvent) = 1]
    /\ probe' = [register |-> 0, transfer |-> "request"]
    /\ raw' = Unread
    /\ held' = Unread
    /\ upset' = [r \in Register |-> FALSE]
    /\ UNCHANGED <<chip, upsets>>

GdNext == FlagRises \/ StatusChanges \/ ChipResets \/ Transfer \/ Report

GdSpec == GdInit /\ [][GdNext]_gdVars

-----------------------------------------------------------------------------
(* Properties *)

\* What a round prints is true: unless the chip missed a clock, lost its
\* supply or did not drive MISO during the read of that very register, the
\* byte in its column is what that register held when the answer was loaded,
\* whatever went wrong in the reads before; and the verdict on register 0
\* tells a fault from a mere reset.  It says nothing of a read that nobody
\* answered: that is printed as 0x00, without a fault, and only a reader who
\* knows docs/gd3000-bringup-2026-08-25.md takes it for a dead line.
StatusAnswersRequest ==
    [][Report =>
        /\ \A r \in Register : ~upset[r] => raw[r] = held[r]
        /\ ~upset[0] =>
              /\ printed'.fault <=> held[0] % 2 ^ (GdBits - 1) # 0
              /\ printed'.reset <=> held[0] >= 2 ^ (GdBits - 1)]_gdVars

=============================================================================
