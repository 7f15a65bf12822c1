----------------------------- MODULE BenchProbes ------------------------------
(***************************************************************************)
(* The two read-only bench probes, the load-cell probe of the nRF5340 and  *)
(* the GD3000 status probe of the KV31F.  They are images of their own for *)
(* boards of their own and share no state: either board is on the bench,   *)
(* and the other's probe stays in its initial state.                       *)
(***************************************************************************)
EXTENDS Ads1234Probe, Gd3000Probe

VARIABLE board    \* the board on the bench

benchVars == <<adsVars, gdVars, board>>

BenchTypeOK == board \in {"nrf5340", "kv31f"} /\ AdsTypeOK /\ GdTypeOK

BenchInit == board \in {"nrf5340", "kv31f"} /\ AdsInit /\ GdInit

BenchNext ==
    /\ UNCHANGED board
    /\ \/ board = "nrf5340" /\ AdsNext /\ UNCHANGED gdVars
       \/ board = "kv31f" /\ GdNext /\ UNCHANGED adsVars

BenchSpec == BenchInit /\ [][BenchNext]_benchVars

=============================================================================
