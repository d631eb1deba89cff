----------------------------- MODULE MCSettings -----------------------------
(***************************************************************************)
(* The rules of the settings and what is reported of them.  They share no     *)
(* state, so they are checked side by side: each behaviour is one of them,    *)
(* and the other stays as it starts.                                         *)
(***************************************************************************)
EXTENDS Integers, FiniteSets

CONSTANTS
    Gpios, RtcGpios, Alien, Unset, Wrong, Null, Mask, BluetoothBuild, Defaults, Areas,
    Events, MaxChanges

VARIABLES
    machine,
    area, settings, backup, restarting, named,
    on, level, facts, running, bleStartPending, changes

Rules == INSTANCE ConfigRules
Deps == INSTANCE SettingsDeps

ASSUME SettingsAssumption == Rules!RulesAssumption /\ Rules!StartAssumption /\ Deps!DepsAssumption

rulesVars == <<area, settings, backup, restarting, named>>
depsVars == <<on, level, facts, running, bleStartPending, changes>>
vars == <<machine, rulesVars, depsVars>>

OnlyRules == machine = "rules" /\ UNCHANGED <<machine, depsVars>>
OnlyDeps == machine = "deps" /\ UNCHANGED <<machine, rulesVars>>

\* One that stands still has one start.
Init ==
    /\ machine \in {"rules", "deps"}
    /\ Rules!Init /\ (machine = "rules" \/ area = CHOOSE a \in Areas : TRUE)
    /\ Deps!Init /\ (machine = "deps" \/ (facts = {} /\ "ble" \notin on /\ \A e \in Events : level[e] = 1))

Next ==
    \/ OnlyRules /\ Rules!Next
    \/ OnlyDeps /\ Deps!Next

Spec == Init /\ [][Next]_vars

-----------------------------------------------------------------------------
(* What each promises, stated in its module                                 *)

\* ConfigRules: the device holds settings it would accept, and can load again.
SettingsAreSound == machine = "rules" => Rules!SettingsAreSound

\* ConfigRules: what GET shows, or a backup holds, brings every setting back.
ComesBack == machine = "rules" => Rules!ComesBack

\* ConfigRules: a request changes what it names.
ChangesWhatItNames == Rules!ChangesWhatItNames

\* SettingsDeps: what is reported of a setting is what it does.
ReportIsTrue == machine = "deps" => Deps!ReportIsTrue

-----------------------------------------------------------------------------
(* The board has pins 1 to 9, of which 8 and 9 can wake it; 20 is a pin of    *)
(* another board.  Six areas are edited: the pins, the time sources and what  *)
(* is read at start, the battery's levels, the secrets, what older firmware  *)
(* left, and an anemometer that is off.                                     *)

MCDefaults ==
    [gpsRx |-> 1, gpsTx |-> 2, rainRx |-> 3, rainTx |-> 4, sda |-> 5, scl |-> 6, windPin |-> 7,
     sda2 |-> Unset, scl2 |-> Unset, button |-> Unset, alertPin |-> Unset,
     stat1 |-> Unset, stat2 |-> Unset, pg |-> Unset,
     ntp |-> TRUE, gps |-> FALSE, rain |-> FALSE, wind |-> FALSE, display |-> FALSE, sqml |-> FALSE,
     auth |-> FALSE, pushover |-> FALSE, ble |-> FALSE, alpaca |-> FALSE,
     primary |-> "ntp", secondary |-> "ntp",
     low |-> 20, critical |-> 10, shutdown |-> 5, batteryMin |-> 10,
     wifiPassword |-> "", authPassword |-> "", pushoverKey |-> "", passkey |-> "",
     deviceName |-> "meter", ssid |-> "", interval |-> 5]

Doc1(f, values) == {[x \in {f} |-> v] : v \in values}
Doc2(f, g, values) == {[x \in {f, g} |-> IF x = f THEN v[1] ELSE v[2]] : v \in values}
Nothing == [x \in {} |-> 0]

Pins ==
    [start |-> Nothing, joins |-> FALSE, own |-> FALSE,
     docs |-> UNION {Doc1(f, BOOLEAN) : f \in {"gps", "rain", "wind", "sqml"}}
               \union Doc1("gpsRx", {3}) \union Doc1("windPin", {1}) \union Doc1("button", {7, 8, Unset})
               \union Doc2("sda2", "scl2", {<<8, 9>>, <<8, Unset>>, <<Unset, Unset>>})
               \union {[stat1 |-> 7, stat2 |-> 8, pg |-> p] : p \in {6, 9, Unset}}
               \union {[stat1 |-> Unset, stat2 |-> Unset, pg |-> Unset]},
     foreign |-> {[doc |-> [windPin |-> 8, button |-> 20, gpsRx |-> 3, display |-> TRUE, ble |-> TRUE],
                   secrets |-> Nothing, of |-> Nothing, sealed |-> FALSE]}]

Sources ==
    [start |-> Nothing, joins |-> FALSE, own |-> TRUE,
     docs |-> Doc1("ntp", BOOLEAN) \union Doc1("gps", BOOLEAN)
               \union Doc1("primary", {"ntp", "gps", Wrong}) \union Doc1("secondary", {"ntp", "gps"})
               \union Doc1("gpsTx", {1}) \union Doc1("alpaca", BOOLEAN) \union Doc1("deviceName", {"", "pier"})
               \union Doc2("ble", "alpaca", {<<TRUE, Wrong>>, <<TRUE, FALSE>>}),
     foreign |-> {}]

Levels ==
    [start |-> Nothing, joins |-> FALSE, own |-> TRUE,
     docs |-> Doc1("critical", {8, 12, 26}) \union Doc1("batteryMin", {8, Null})
               \union Doc1("low", {12, 20}) \union Doc1("shutdown", {5, 9}) \union Doc1("interval", {0, Wrong})
               \union Doc1("alertPin", {7, Unset}) \union Doc1("wind", BOOLEAN)
               \union Doc2("critical", "batteryMin", {<<12, 12>>}),
     foreign |-> {}]

Keys ==
    [start |-> [wifiPassword |-> "s1", ssid |-> "home"], joins |-> TRUE, own |-> TRUE,
     docs |-> Doc1("authPassword", {"s1", Mask, Null}) \union Doc1("auth", BOOLEAN)
               \union Doc1("pushoverKey", {"s2", Mask, Null}) \union Doc2("pushover", "pushoverKey", {<<TRUE, "stray">>, <<TRUE, Mask>>})
               \union Doc1("ssid", {"yard"}),
     foreign |-> {[doc |-> [auth |-> TRUE, pushover |-> TRUE, ssid |-> "away"],
                   secrets |-> Nothing, of |-> Nothing, sealed |-> FALSE]}]

\* What older firmware may have left: a key of another form, switched on.
Older ==
    [start |-> [pushover |-> TRUE, pushoverKey |-> "stray", passkey |-> "s1"], joins |-> FALSE, own |-> TRUE,
     docs |-> Doc1("pushover", BOOLEAN) \union Doc1("pushoverKey", {"s2", Null}) \union Doc1("passkey", {"s2", Null, Wrong})
               \union Doc1("ble", BOOLEAN),
     foreign |-> {}]

\* The anemometer was moved to a pin of another board while it was off.
Moved ==
    [start |-> Nothing, joins |-> FALSE, own |-> TRUE,
     docs |-> Doc1("wind", BOOLEAN) \union Doc1("windPin", {8, 20}) \union Doc1("alertPin", {8, Unset}),
     foreign |-> {}]

MCAreas == {Pins, Sources, Levels, Keys, Older, Moved}

MCEvents == {"unsafe", "rainStarted", "dewRisk", "clientLost"}
=============================================================================
