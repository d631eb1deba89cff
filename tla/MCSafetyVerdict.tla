-------------------------- MODULE MCSafetyVerdict --------------------------
(***************************************************************************)
(* The sensor conditions and rule selections SafetyVerdict is checked with *)
(***************************************************************************)
EXTENDS SafetyVerdict

Good == [light |-> "ok", ir |-> "ok", cloudy |-> FALSE, bright |-> FALSE,
         air |-> "fault", humid |-> FALSE, dewy |-> FALSE,
         rainOn |-> TRUE, rainHealthy |-> TRUE, raining |-> FALSE,
         wind |-> "off", windy |-> FALSE, gusty |-> FALSE,
         battery |-> "none", shutdown |-> FALSE]

\* All is well; it rains (the cloud reading is stuck); neither sky sensor
\* answers; the snapshot stops being refreshed.
MCConditions ==
    {Good,
     [Good EXCEPT !.raining = TRUE, !.ir = "silent"],
     [Good EXCEPT !.light = "fault", !.ir = "fault"],
     [Good EXCEPT !.light = "fault"],
     [Good EXCEPT !.light = "silent", !.ir = "silent"]}

\* The defaults, and a selection that also wants the environment sensor.
MCRuleSets == {{"cloud", "rain", "rainRequired"}, {"rain", "humidity"}}
=============================================================================
