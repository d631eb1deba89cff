---------------------------- MODULE SettingsDeps ----------------------------
(***************************************************************************)
(* Which settings are in effect.  SettingsDeps works it out from the         *)
(* configuration and what the device knows at run time, for the pages, the   *)
(* alert channels and GET /api/settings/effective; the parts it speaks of    *)
(* (the alert pass, the safety rules, Bluetooth, night) decide for           *)
(* themselves.  The two must agree, and Bluetooth makes that a question of   *)
(* history: it starts some time after boot, with the settings of that time.  *)
(*                                                                          *)
(* A configuration is the set of the switches that are on, and a level per   *)
(* event; a reason is named after the need that is missing.  Catalogue       *)
(* numbers, texts and fix targets are left out, and so are settings with     *)
(* the same needs as one that is here.                                       *)
(***************************************************************************)
EXTENDS Integers, Sequences, FiniteSets

CONSTANTS
    Events,         \* alert events, one for each kind of need
    MaxChanges      \* bound: saves and changes of a fact


VARIABLES
    on,         \* the switches that are on in the saved configuration
    level,      \* the level of each event: 0 off, 1 a notice, 4 wakes the phones
    facts,      \* what the device knows at run time
    running,    \* what has started since boot: gps, bluetooth, and its alarm service
    bleStartPending,    \* Bluetooth starts some seconds after boot
    changes     \* bound

vars == <<on, level, facts, running, bleStartPending, changes>>

\* Parts, and the safety rules
Rules == {"rainUnsafe", "rainSensorRequired", "windSpeedUnsafe", "cloudCover", "sqmMin", "humidityMax", "batteryRule"}
Switches == {"alerts", "mqtt", "rain", "wind", "gps", "ble", "passkey", "alpaca", "location", "skyNightOnly",
             "whileConnected", "homeAssistant"} \union Rules
Facts == {"wifi", "broker", "clock", "gpsFix", "phones", "light", "infrared", "environment", "gauge"}
\* What is reported on besides the events and the rules
Options == {"pushover", "ntfy", "webhook", "alertsMqtt", "wakePhones", "batteryPhoneAlarm", "phoneAlarm",
            "skyNightOnly", "whileConnected", "homeAssistant", "alertsSwitch", "publishGps", "dailyReset"}

DepsAssumption == MaxChanges \in Nat /\ Events \intersect (Rules \union Options) = {}

-----------------------------------------------------------------------------
(* What is reported                                                         *)

\* wrong variant: Bluetooth on counts as Bluetooth running
PhonesRingOnceOn == {"ble", "passkey"} \subseteq on /\ "phones" \in facts

\* Paired phones ring for Wake-level events even with push alerts off.
PhonesRing == {"ble", "passkey"} \subseteq on /\ "bluetooth" \in running /\ "phones" \in facts

LocationKnown == "location" \in on \/ ("gps" \in running /\ "gpsFix" \in facts)

\* One link of a chain: is what it needs there?
Met(need) ==
    CASE need = "bluetoothRunning" -> "bluetooth" \in running
      [] need = "gpsRunning" -> "gps" \in running
      [] need = "locationKnown" -> LocationKnown
      [] need = "alerting" -> "alerts" \in on \/ PhonesRing
      [] need = "waking" -> "alerts" \in on \/ PhonesRing
      [] OTHER -> need \in on \union facts

\* An event needs alerts on, or its own level to ring phones, and its source.
EventNeeds(e) ==
    LET alerting == IF level[e] = 4 THEN "waking" ELSE "alerts" IN
    CASE e \in {"rainStarted"} -> <<alerting, "rain">>
      [] e \in {"dewRisk"} -> <<alerting, "environment">>
      [] e \in {"clearSky"} -> <<alerting, "infrared">>
      [] e \in {"clientLost"} -> <<alerting, "alpaca">>
      [] e \in {"batteryLow"} -> <<alerting, "gauge">>
      [] OTHER -> <<alerting>>

Needs(s) ==
    CASE s \in Events -> EventNeeds(s)
      [] s \in {"pushover", "ntfy", "webhook"} -> <<"wifi", "alerts">>
      [] s = "alertsMqtt" -> <<"mqtt", "broker", "alerts">>
      [] s \in {"wakePhones", "batteryPhoneAlarm"} -> <<"ble", "bluetoothRunning", "passkey", "phones">>
      [] s = "phoneAlarm" -> <<"ble", "bluetoothRunning">>
      [] s = "skyNightOnly" -> <<"alerting", "locationKnown">>
      [] s = "whileConnected" -> <<"alerting", "alpaca">>
      [] s = "homeAssistant" -> <<"mqtt">>
      [] s = "alertsSwitch" -> <<"mqtt", "alerting">>
      [] s = "publishGps" -> <<"mqtt", "gps", "gpsRunning">>
      [] s \in {"rainUnsafe", "rainSensorRequired"} -> <<"rain">>
      [] s = "windSpeedUnsafe" -> <<"wind">>
      [] s = "cloudCover" -> <<"infrared">>
      [] s = "sqmMin" -> <<"light">>
      [] s = "humidityMax" -> <<"environment">>
      [] s = "batteryRule" -> <<"gauge">>
      [] s = "dailyReset" -> <<"rain", "clock">>
      [] OTHER -> <<>>

\* The rules that are ignored; the others say unsafe for want of their sensor.
Unmet(rule) == IF rule \in {"rainUnsafe", "rainSensorRequired"} THEN "inactive" ELSE "failSafe"

OwnSwitch(s) == IF s \in Events THEN level[s] # 0 ELSE s \in on

\* The first need that is missing, or "": the first unmet link decides.
Reason(s) ==
    LET missing == {i \in DOMAIN Needs(s) : ~Met(Needs(s)[i])}
    IN  IF missing = {} THEN "" ELSE Needs(s)[CHOOSE i \in missing : \A j \in missing : i <= j]

State(s) ==
    CASE ~OwnSwitch(s) -> "off"
      [] OwnSwitch(s) /\ Reason(s) = "" -> "active"
      [] OTHER -> "inactive"

RulesNotInEffect == IF "rain" \in on THEN {} ELSE {"rainUnsafe", "rainSensorRequired"} \intersect on

-----------------------------------------------------------------------------
(* What the device does                                                     *)

\* A phone rings: the alarm service runs and a phone is paired.
Rings == "alarm" \in running /\ "phones" \in facts

\* Has an event anything to arise from?
Arises(e) ==
    CASE e = "rainStarted" -> "rain" \in on
      [] e = "dewRisk" -> "environment" \in facts
      [] e = "clearSky" -> "infrared" \in facts
      [] e = "clientLost" -> "alpaca" \in on
      [] e = "batteryLow" -> "gauge" \in facts
      [] OTHER -> TRUE

\* sendAlerts(): pushed with alerts on, rung at Wake level; runAlerts() drops level 0.
IsTold(e) == Arises(e) /\ level[e] # 0 /\ ("alerts" \in on \/ (level[e] = 4 /\ Rings))

\* night() is known with a clock and a place; the engine holds sky alerts back
\* by day only where it knows.
NightKnown == "clock" \in facts /\ ("gpsFix" \in facts \/ "location" \in on)

\* effectiveSendMode(): without Alpaca alerts go out at any time.
WaitsForApp == "whileConnected" \in on /\ "alpaca" \in on

\* evaluateSafety(): the reasons a rule gives while its sensor says nothing bad
WindReasons == IF "windSpeedUnsafe" \in on /\ "wind" \notin on THEN {"windFault"} ELSE {}
RainReasons(raining, healthy) ==
    IF "rain" \notin on THEN {}
    ELSE {r \in {"rain", "rainFault"} : IF r = "rain" THEN "rainUnsafe" \in on /\ raining
                                        ELSE "rainSensorRequired" \in on /\ ~healthy}
BatteryReasons == IF "batteryRule" \in on /\ "gauge" \notin facts THEN {"batteryData"} ELSE {}
SkyFaults == {f \in {"light", "infrared"} : f \notin facts}
EnvironmentReasons == IF "humidityMax" \in on /\ "environment" \notin facts THEN {"environmentFault"} ELSE {}

\* The reasons the check of one rule gives
ReasonsOf(rule) ==
    CASE rule = "windSpeedUnsafe" -> WindReasons
      [] rule = "batteryRule" -> BatteryReasons
      [] rule = "cloudCover" -> SkyFaults \intersect {"infrared"}
      [] rule = "sqmMin" -> SkyFaults \intersect {"light"}
      [] rule = "humidityMax" -> EnvironmentReasons

-----------------------------------------------------------------------------
(* Steps                                                                    *)

Toggled(set, x) == IF x \in set THEN set \ {x} ELSE set \union {x}

Change == changes < MaxChanges /\ changes' = changes + 1

\* A save; rain and wind apply at once, GPS and Bluetooth at the next boot.
SaveSwitch(s) ==
    /\ Change
    /\ on' = Toggled(on, s)
    /\ UNCHANGED <<level, facts, running, bleStartPending>>

SaveLevel(e, l) ==
    /\ Change
    /\ l # level[e]
    /\ level' = [level EXCEPT ![e] = l]
    /\ UNCHANGED <<on, facts, running, bleStartPending>>

\* A sensor lost or found, the network, the clock, a pairing
FactChanges(f) ==
    /\ Change
    /\ facts' = Toggled(facts, f)
    /\ UNCHANGED <<on, level, running, bleStartPending>>

\* Boot: GPS starts with its switch, Bluetooth is put off.
Restart ==
    /\ running' = {"gps"} \intersect on
    /\ bleStartPending' = ("ble" \in on)
    /\ UNCHANGED <<on, level, facts, changes>>

\* startPendingBle(): with the passkey of this moment; its switch is not asked again.
StartBle ==
    /\ bleStartPending
    /\ running' = running \union {"bluetooth"} \union (IF "passkey" \in on THEN {"alarm"} ELSE {})
    /\ bleStartPending' = FALSE
    /\ UNCHANGED <<on, level, facts, changes>>

Init ==
    /\ on \in {Switches, Switches \ {"alerts"}, {"alerts"} \union Rules}
    /\ level \in [Events -> {1, 4}] /\ (\A e, f \in Events : level[e] = level[f])
    /\ facts \in {Facts, {}}
    /\ running = {"gps"} \intersect on
    /\ bleStartPending = ("ble" \in on)
    /\ changes = 0

Next ==
    \/ \E s \in Switches : SaveSwitch(s)
    \/ \E e \in Events, l \in {0, 1, 4} : SaveLevel(e, l)
    \/ \E f \in Facts : FactChanges(f)
    \/ Restart
    \/ StartBle

Spec == Init /\ [][Next]_vars

-----------------------------------------------------------------------------
(* Properties                                                               *)

\* Bluetooth runs as it was at boot: until a restart, its switch or its
\* passkey may say something else than what rings.
BluetoothIsAsSaved == ("bluetooth" \in running => {"ble"} \subseteq on) /\ ("alarm" \in running <=> ({"passkey"} \subseteq on /\ "bluetooth" \in running))

\* An event is reported as in effect just when one that arises is told to
\* someone, by a push or by a phone that rings, whatever was switched, found,
\* lost or restarted on the way there.
EventsAsReported ==
    BluetoothIsAsSaved => \A e \in Events : (State(e) = "active") <=> IsTold(e)

\* A rule reported as fail-safe does make the verdict unsafe while what it
\* needs is missing; one reported as ignored gives no reason whatever its
\* sensor says, and is listed; the options that hold alerts back do so just
\* when they are reported to.
RulesAsReported ==
    /\ \A r \in {q \in Rules \intersect on : State(q) = "inactive"} :
          IF Unmet(r) = "failSafe"
          THEN ReasonsOf(r) # {}
          ELSE r \in RulesNotInEffect /\ \A raining, healthy \in BOOLEAN : RainReasons(raining, healthy) = {}
    /\ "alerts" \in on => ((State("whileConnected") = "active") <=> WaitsForApp)

\* What the settings page says of a setting, or of an event, is what it does.
ReportIsTrue == EventsAsReported /\ RulesAsReported

\* Active: on, and everything it needs is there (SettingsDeps.h:30). Sky alerts
\* limited to the dark are, where the report says so.
ActiveIsInEffect == State("skyNightOnly") = "active" => NightKnown
=============================================================================
