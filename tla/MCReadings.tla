----------------------------- MODULE MCReadings -----------------------------
(***************************************************************************)
(* From the light on a sensor and the pack on the gauge to what is said of    *)
(* the readings: the sky sensor, the rain sensor, the fuel gauge, the Alpaca  *)
(* device and the display.  They are checked side by side: each behaviour is  *)
(* one of them, and the others stay as they start.                           *)
(***************************************************************************)
EXTENDS Integers

CONSTANTS
    Lights, WindowSizes, MaxUnplugs,
    Stale, Clear, Schedules, Off, LastDay,
    BusSensors, Retried, ReadInterval, Grace, WindStale, VaneFault, RainStale, PollInterval, VerdictStale,
    MaxBlock, MaxChanges,
    ReadEvery, RedetectEvery, EstimateFor, RateAfter, MissesBeforeMissing, MaxPacks, MaxSaves,
    Pages, Settings, ProbeEvery, MaxFailures, CycleAfter, NightTimeout, Rows, MaxFaults, MaxEvents

VARIABLES
    machine,
    light, plugged, chip, cycle, failures, range, bright, dim, window, size, reading, unplugs, blinked,
    config, sensor, rainReading, polling, stored, day, rainSaves, resets, fresh, lapse,
    pack, packs, resetBit, settling, pending, enabled, initialized, misses, gaugeSinceRead, sinceSearch,
    decoder, gaugeReading, saves,
    working, setting, drivers, snapshot, sinceRead, blocked, changes,
    saved, reconfigurePending, settings, request, forcedOff, night, view, link, controller, driver,
    displayPlugged, panel, faults, events

Sky == INSTANCE SkySensor
Rain == INSTANCE RainSensor WITH reading <- rainReading, saves <- rainSaves
Gauge == INSTANCE FuelGauge WITH reading <- gaugeReading, sinceRead <- gaugeSinceRead
Observing == INSTANCE ObservingConditions
Display == INSTANCE OledPanel WITH plugged <- displayPlugged

ASSUME ReadingsAssumption ==
    /\ Sky!SkyAssumption /\ Rain!RainAssumption /\ Gauge!GaugeAssumption
    /\ Observing!ConditionsAssumption /\ Display!PanelAssumption

skyVars == <<light, plugged, chip, cycle, failures, range, bright, dim, window, size, reading,
             unplugs, blinked>>
rainVars == <<config, sensor, rainReading, polling, stored, day, rainSaves, resets, fresh, lapse>>
gaugeVars == <<pack, packs, resetBit, settling, pending, enabled, initialized, misses, gaugeSinceRead,
               sinceSearch, decoder, gaugeReading, saves>>
observingVars == <<working, setting, drivers, snapshot, sinceRead, blocked, changes>>
displayVars == <<saved, reconfigurePending, settings, request, forcedOff, night, view, link, controller,
                 driver, displayPlugged, panel, faults, events>>
vars == <<machine, skyVars, rainVars, gaugeVars, observingVars, displayVars>>

OnlySky == machine = "sky" /\ UNCHANGED <<machine, rainVars, gaugeVars, observingVars, displayVars>>
OnlyRain == machine = "rain" /\ UNCHANGED <<machine, skyVars, gaugeVars, observingVars, displayVars>>
OnlyGauge == machine = "gauge" /\ UNCHANGED <<machine, skyVars, rainVars, observingVars, displayVars>>
OnlyObserving == machine = "observing" /\ UNCHANGED <<machine, skyVars, rainVars, gaugeVars, displayVars>>
OnlyDisplay == machine = "display" /\ UNCHANGED <<machine, skyVars, rainVars, gaugeVars, observingVars>>

\* One that stands still has one start.
Init ==
    /\ machine \in {"sky", "rain", "gauge", "observing", "display"}
    /\ Sky!Init /\ (machine = "sky" \/ (light = 2 /\ size = 1))
    /\ Rain!Init /\ (machine = "rain" \/ config = [enabled |-> FALSE, schedule |-> Off])
    /\ Gauge!Init /\ (machine = "gauge" \/ (pack = 1 /\ enabled))
    /\ Observing!Init /\ (machine = "observing" \/ (working = {} /\ ~setting.rain))
    /\ Display!Init /\ (machine = "display" \/ (~saved.enabled /\ displayPlugged))

Next ==
    \/ OnlySky /\ Sky!Next
    \/ OnlyRain /\ Rain!Next
    \/ OnlyGauge /\ Gauge!Next
    \/ OnlyObserving /\ Observing!Next
    \/ OnlyDisplay /\ Display!Next

\* As each of them states it.  A pass can always be made and always changes
\* something, so fairness of it says that it is made again and again; that is
\* checked far faster than what is enabled.
Fairness ==
    /\ WF_skyVars(machine = "sky" /\ Sky!Tick)
    /\ machine = "observing" =>
        /\ []<><<\E had \in BOOLEAN : Observing!Pass(had)>>_observingVars
        /\ []<><<sinceRead + 1 >= ReadInterval /\ Observing!Pass(TRUE)>>_observingVars

Spec == Init /\ [][Next]_vars /\ Fairness

-----------------------------------------------------------------------------
(* What each promises, stated in its module                                 *)

\* SkySensor: what is averaged was taken at the range it is converted by.
AverageIsTrue == Sky!AverageIsTrue

\* SkySensor: in a steady light the range comes to rest.
RangeSettles == machine = "sky" => Sky!RangeSettles

\* RainSensor: the daily reset happens at most once a day.
ResetOnceADay == Rain!ResetOnceADay

\* FuelGauge: an estimate is of one pack.
EstimateIsOfOnePack == Gauge!EstimateIsOfOnePack

\* ObservingConditions: whatever Alpaca serves is shown as ok, and no fault to
\* the verdict.
ServedIsShown == Observing!ServedIsShown

\* ObservingConditions: a sensor that is on and answers is served again and again.
ServedInTheEnd == machine = "observing" => Observing!ServedInTheEnd

\* OledPanel: what the driver counts as sent is on the panel.
PanelIsAsTold == Display!PanelIsAsTold

-----------------------------------------------------------------------------
(* Constants                                                                *)

MCLights == {2, 1013, 23365, 400000, 64000000}
MCBusSensors == {"skyLight", "irSky"}
MCRetried == {"skyLight"}

MCPages == <<"sky", "safety">>
MCOff == [enabled |-> FALSE, timeout |-> 0, stayOnAtNight |-> FALSE, rotate180 |-> FALSE, wakeOnBoot |-> TRUE]
MCNever == [MCOff EXCEPT !.enabled = TRUE]
MCStays == [MCNever EXCEPT !.timeout = 2, !.stayOnAtNight = TRUE, !.rotate180 = TRUE, !.wakeOnBoot = FALSE]
MCSettings == {MCOff, MCNever, MCStays}
=============================================================================
