----------------------------- MODULE MCResident ------------------------------
(* Resident for TLC: the bound of each kind of disturbance.                *)
EXTENDS Resident

CONSTANTS byHand, stops, installs, foreign, failures

Bounded == [what \in Bounds |->
    CASE what = "by hand"  -> byHand
      [] what = "stops"    -> stops
      [] what = "installs" -> installs
      [] what = "foreign"  -> foreign
      [] what = "failures" -> failures]
=============================================================================
