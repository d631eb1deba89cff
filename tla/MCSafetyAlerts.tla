--------------------------- MODULE MCSafetyAlerts ---------------------------
(***************************************************************************)
(* The alert selections SafetyAlerts is checked with                        *)
(***************************************************************************)
EXTENDS SafetyAlerts

\* Both verdicts, or "unsafe" only.
MCChoices == {Announced, {"unsafe"}}

=============================================================================
