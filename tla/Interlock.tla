------------------------------ MODULE Interlock -------------------------------
(***************************************************************************)
(* What the flight core promises whoever holds its output: motor requests  *)
(* ("live") are renewed only while armed, every trip silences them, and    *)
(* FAILSAFE is left for DISARMED only, so it takes two steps to get from a *)
(* fault back to a live output.  FlightSystem implements it.               *)
(***************************************************************************)
VARIABLES phase, live

Init == phase = "DISARMED" /\ live = FALSE

\* A command is carried out: from DISARMED this is the arming.
Engage ==
    /\ phase \in {"DISARMED", "ARMED"}
    /\ phase' = "ARMED"
    /\ live' \in BOOLEAN

\* A fault, or a further one, or an arm request held back by the latch.
Trip == phase' = "FAILSAFE" /\ live' = FALSE

\* A step that was asked not to arm.
StandDown == phase' = "DISARMED" /\ live' = FALSE

\* disarm() or init() from outside: the last output stays with its holder.
Reset == phase' = "DISARMED" /\ UNCHANGED live

Next == Engage \/ Trip \/ StandDown \/ Reset

Spec == Init /\ [][Next]_<<phase, live>>

=============================================================================
