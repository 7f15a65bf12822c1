------------------------------- MODULE CevaHal --------------------------------
(***************************************************************************)
(* The SPI HAL below the CEVA probe (ceva_flight_probe/src/ceva_spi_hal.c):*)
(* the service thread, which calls read and write for the sensor library,  *)
(* and the interrupt handler, which may run between any two of its steps.  *)
(*                                                                         *)
(* The hub and the library are not in src/.  The hub asserts INT for a     *)
(* packet, or to answer WAKE, and releases it when it is selected; a       *)
(* transfer is full duplex, so it clocks a packet out during a write as    *)
(* well.  An interrupt may be late by some instructions, but not past a    *)
(* transfer or a sleep, which let every pending interrupt run.             *)
(*                                                                         *)
(* interrupt_timestamp_us is not volatile, so the compiler may load it     *)
(* anywhere between the entry of ceva_read and the use.                    *)
(***************************************************************************)
EXTENDS Integers

CONSTANTS
    WaitLimit,  \* how often ceva_write looks at INT before it gives up
    MaxTime,    \* where the clock stops; it does not wrap
    MaxWrites,  \* how often the library writes
    MaxFaults   \* how many transfers fail

ASSUME HalAssumption ==
    WaitLimit \in Nat /\ MaxTime \in Nat \ {0} /\ MaxWrites \in Nat /\ MaxFaults \in Nat

VARIABLES
    hal,      \* data_ready, interrupt_timestamp_us, opened
    at,       \* where the service thread is
    taken,    \* its *timestamp_us; 0 as long as the load has not happened
    waited,   \* how often ceva_write has slept
    int,      \* INT is asserted
    irq,      \* the interrupt controller has seen an edge it has not served
    hub,      \* whether it holds a packet, when it asserted INT, an unanswered WAKE
    now,      \* now_us()
    writes,
    faults,
    handed    \* history: the last packet that was read: when INT was asserted
              \* for it, its stamp, and when its transfer began

vars == <<hal, at, taken, waited, int, irq, hub, now, writes, faults, handed>>

Time == 0..MaxTime

TypeOK ==
    /\ hal \in [ready : BOOLEAN, stamp : Time, opened : BOOLEAN]
    /\ at \in {"closed", "idle", "entered", "noticed", "cleared", "stamped",
               "selected", "waking", "woken", "halted"}
    /\ taken \in Time
    /\ waited \in 0..WaitLimit
    /\ int \in BOOLEAN /\ irq \in BOOLEAN
    /\ hub \in [holding : BOOLEAN, asserted : Time, called : BOOLEAN]
    /\ now \in Time
    /\ writes \in 0..MaxWrites /\ faults \in 0..MaxFaults
    /\ handed \in [asserted : Time, stamp : Time, began : Time]

Quiet == [holding |-> FALSE, asserted |-> 0, called |-> FALSE]

Init ==
    /\ hal = [ready |-> FALSE, stamp |-> 0, opened |-> FALSE]
    /\ at = "closed" /\ taken = 0 /\ waited = 0
    /\ int = FALSE /\ irq = FALSE
    /\ hub = Quiet
    /\ now = 1
    /\ writes = 0 /\ faults = 0
    /\ handed = [asserted |-> 0, stamp |-> 0, began |-> 0]

-----------------------------------------------------------------------------
(* The hub *)

\* GPIO_INT_EDGE_TO_ACTIVE
AssertInt(h) ==
    /\ hub' = IF int THEN h ELSE [h EXCEPT !.asserted = now]
    /\ int' = TRUE /\ irq' = (irq \/ ~int)

\* The hub is out of reset, and no transfer is under way.
Running == hal.opened /\ at # "selected"

Announce ==
    /\ Running /\ ~hub.holding
    /\ AssertInt([hub EXCEPT !.holding = TRUE])
    /\ UNCHANGED <<hal, at, taken, waited, now, writes, faults, handed>>

\* Perhaps after WAKE has been released.
AnswerWake ==
    /\ Running /\ hub.called
    /\ AssertInt([hub EXCEPT !.called = FALSE])
    /\ UNCHANGED <<hal, at, taken, waited, now, writes, faults, handed>>

\* What becomes of a packet whose transfer broke off or went to waste: the
\* hub drops it or announces it once more.
Wasted ==
    \/ /\ hub' = [hub EXCEPT !.holding = FALSE, !.called = FALSE]
       /\ int' = FALSE /\ UNCHANGED irq
    \/ /\ hub.holding
       /\ hub' = [hub EXCEPT !.asserted = now, !.called = FALSE]
       /\ int' = TRUE /\ irq' = TRUE

Tick ==
    /\ now < MaxTime /\ now' = now + 1
    /\ UNCHANGED <<hal, at, taken, waited, int, irq, hub, writes, faults, handed>>

\* Mutation: a stamp that has not been read is kept.
InterruptKeepsFirst ==
    /\ irq /\ irq' = FALSE
    /\ hal' = [hal EXCEPT !.stamp = IF hal.ready THEN @ ELSE now, !.ready = TRUE]
    /\ UNCHANGED <<at, taken, waited, int, hub, now, writes, faults, handed>>

\* interrupt_handler
Interrupt ==
    /\ irq /\ irq' = FALSE
    /\ hal' = [hal EXCEPT !.stamp = now, !.ready = TRUE]
    /\ UNCHANGED <<at, taken, waited, int, hub, now, writes, faults, handed>>

-----------------------------------------------------------------------------
(* ceva_open, ceva_close *)

Open ==
    /\ at = "closed"
    /\ \/ /\ hal' = [hal EXCEPT !.ready = FALSE, !.opened = TRUE] /\ at' = "idle"
       \/ /\ at' = "halted" /\ UNCHANGED hal    \* a device is not ready
    /\ UNCHANGED <<taken, waited, int, irq, hub, now, writes, faults, handed>>

\* The hub is held in reset again; the probe does this at most once.
Close ==
    /\ at = "idle" /\ at' = "halted"
    /\ hal' = [hal EXCEPT !.ready = FALSE, !.opened = FALSE]
    /\ int' = FALSE /\ irq' = FALSE /\ hub' = Quiet
    /\ UNCHANGED <<taken, waited, now, writes, faults, handed>>

-----------------------------------------------------------------------------
(* ceva_read *)

\* The compiler has moved the load of the stamp to here, or has not.
Enter ==
    /\ at = "idle" /\ at' = "entered"
    /\ taken' \in {0, hal.stamp}
    /\ UNCHANGED <<hal, waited, int, irq, hub, now, writes, faults, handed>>

\* Mutation: the level of INT is not looked at.
NothingFlagged == ~hal.ready

NothingToRead == ~hal.ready /\ ~int

Check ==
    /\ at = "entered"
    /\ at' = IF NothingToRead THEN "idle" ELSE "noticed"
    /\ UNCHANGED <<hal, taken, waited, int, irq, hub, now, writes, faults, handed>>

ClearReady ==
    /\ at = "noticed" /\ at' = "cleared"
    /\ hal' = [hal EXCEPT !.ready = FALSE]
    /\ UNCHANGED <<taken, waited, int, irq, hub, now, writes, faults, handed>>

TakeStamp ==
    /\ at = "cleared" /\ at' = "stamped"
    /\ LET stamp == IF taken # 0 THEN taken ELSE hal.stamp IN
       taken' = IF stamp # 0 THEN stamp ELSE now
    /\ UNCHANGED <<hal, waited, int, irq, hub, now, writes, faults, handed>>

\* read_transfer up to the length: nothing there, or a packet.
ReadHeader ==
    /\ at = "stamped" /\ ~irq
    /\ int' = FALSE
    /\ IF hub.holding
       THEN at' = "selected" /\ handed' = [handed EXCEPT !.began = now]
       ELSE at' = "idle" /\ UNCHANGED handed
    /\ hub' = [hub EXCEPT !.called = FALSE]
    /\ UNCHANGED <<hal, taken, waited, irq, now, writes, faults>>

\* ... and the rest of it.
ReadPayload ==
    /\ at = "selected" /\ ~irq
    /\ at' = "idle"
    /\ handed' = [handed EXCEPT !.asserted = hub.asserted, !.stamp = taken]
    /\ hub' = [hub EXCEPT !.holding = FALSE]
    /\ UNCHANGED <<hal, taken, waited, int, irq, now, writes, faults>>

\* The SPI driver fails, before the hub is selected or after, or the length
\* is none that fits.
ReadFails ==
    /\ at \in {"stamped", "selected"} /\ ~irq
    /\ at' = "idle"
    /\ faults < MaxFaults /\ faults' = faults + 1
    /\ Wasted \/ (at = "stamped" /\ UNCHANGED <<int, irq, hub>>)
    /\ UNCHANGED <<hal, taken, waited, now, writes, handed>>

-----------------------------------------------------------------------------
(* ceva_write *)

Wake ==
    /\ at = "idle" /\ at' = "waking"
    /\ writes < MaxWrites /\ writes' = writes + 1
    /\ hub' = [hub EXCEPT !.called = TRUE]
    /\ waited' = 0
    /\ UNCHANGED <<hal, taken, int, irq, now, faults, handed>>

\* Mutation: one poll more.
PatienceLeftOver == waited <= WaitLimit

PatienceLeft == waited < WaitLimit

\* INT is polled; the thread sleeps while there is time left.
Poll ==
    /\ at = "waking"
    /\ IF int THEN at' = "woken" /\ UNCHANGED waited
       ELSE IF PatienceLeft THEN ~irq /\ waited' = waited + 1 /\ UNCHANGED at
       ELSE at' = "idle" /\ UNCHANGED waited
    /\ UNCHANGED <<hal, taken, int, irq, hub, now, writes, faults, handed>>

\* What the hub sends meanwhile goes to hal.rx, which nobody reads.
Write ==
    /\ at = "woken" /\ ~irq
    /\ at' = "idle"
    /\ Wasted
    /\ UNCHANGED <<hal, taken, waited, now, writes, faults, handed>>

\* The driver fails before the hub is selected.
WriteFails ==
    /\ at = "woken" /\ ~irq
    /\ at' = "idle"
    /\ faults < MaxFaults /\ faults' = faults + 1
    /\ UNCHANGED <<hal, taken, waited, int, irq, hub, now, writes, handed>>

-----------------------------------------------------------------------------

Halted == at = "halted" /\ UNCHANGED vars

ReadPacket == Enter \/ Check \/ ClearReady \/ TakeStamp \/ ReadHeader \/ ReadPayload \/ ReadFails

Service == ReadPacket \/ Poll \/ Write \/ WriteFails

Next ==
    \/ Announce \/ AnswerWake \/ Tick \/ Interrupt
    \/ Open \/ Close \/ Wake \/ Service \/ Halted

\* main calls the library for ever, and interrupts are served.
Fairness == WF_vars(Service) /\ WF_vars(Interrupt)

Spec == Init /\ [][Next]_vars /\ Fairness

-----------------------------------------------------------------------------
(* Properties *)

\* The stamp that ceva_read gives a packet, from which the library computes
\* the times of its reports, may be that of an earlier interrupt than the
\* packet's own.  But it is none from before INT was asserted for the packet
\* that was read before it, and none from after the transfer began.
StampsInOrder ==
    [][ReadPayload =>
         /\ handed'.stamp >= handed.asserted /\ handed'.stamp >= handed.stamp
         /\ handed'.stamp <= handed'.began]_vars

\* No packet waits for ever, whatever interrupt, flag and failed transfer did
\* to each other: it is read, or wasted by a write or a failed transfer.
PacketsAreRead == hub.holding ~> ~hub.holding

=============================================================================
