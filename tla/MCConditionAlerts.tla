------------------------- MODULE MCConditionAlerts -------------------------
(***************************************************************************)
(* The levels and the conditions ConditionAlerts is checked with            *)
(***************************************************************************)
EXTENDS ConditionAlerts

\* Begins rings and ends is noted, or the condition is switched off.
MCSettings == {[on |-> "wake", off |-> "note"], [on |-> "off", off |-> "off"]}

\* Rain rings the phones; the others are followed without them.
MCCases ==
    {[kind |-> "rain", phones |-> TRUE]}
    \union [kind : {"sensor", "sky", "battery", "charged", "rule"}, phones : {FALSE}]
=============================================================================
