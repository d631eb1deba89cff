--------------------------- MODULE MCBatteryPower ---------------------------
(* The battery settings BatteryPower is checked with                        *)
EXTENDS BatteryPower

All == [monitoring |-> TRUE, powerSaving |-> TRUE, pins |-> TRUE]

\* Everything on, and each of the three off.
MCChoices == {All, [All EXCEPT !.monitoring = FALSE], [All EXCEPT !.powerSaving = FALSE],
              [All EXCEPT !.pins = FALSE]}
=============================================================================
