----------------------------- MODULE SkySensor ------------------------------
(***************************************************************************)
(* A TSL2591 sky light sensor (TSL2591Sensor, SkyReadCycle): it is started,  *)
(* read and begun again without waiting, keeps an average over a window, and *)
(* moves its gain and integration time to the light.                         *)
(*                                                                          *)
(* Time is left out: the cycle's delays decide when, not what.  Light is the *)
(* counts per 100 ms at gain 1, in thousandths.  A sample is known by the    *)
(* range the sensor had when it took it: the driver converts it, and all it  *)
(* averages it with, by the range it believes in.                           *)
(***************************************************************************)
EXTENDS Integers, Sequences

CONSTANTS
    Lights,         \* levels of light, in thousandths of a count
    WindowSizes,    \* samples the averaging window may hold
    MaxUnplugs      \* bound: times the sensor loses its power

SkyAssumption ==
    /\ Lights \subseteq Nat /\ WindowSizes \subseteq (Nat \ {0}) /\ MaxUnplugs \in Nat

VARIABLES
    light,      \* on the sensor
    plugged,    \* the sensor has power and answers
    chip,       \* the range the sensor itself is set to
    cycle,      \* SkyReadCycle: "Absent", "Idle" or "Integrating"
    failures,   \* reads failed in a row
    range,      \* [gain, integration]: gainIndex, integrationIndex
    bright, dim,    \* consecutiveSaturatedSamples, consecutiveLowSamples
    window,     \* the ranges of the samples averaged, oldest first
    size,       \* samples the window holds
    reading,    \* [status, true]: SensorStatus; the value fits the light
    unplugs,    \* bound
    blinked     \* ghost: the power came back before the loss was noticed

vars == <<light, plugged, chip, cycle, failures, range, bright, dim, window, size, reading, unplugs, blinked>>

GainFactor == [g \in 0..3 |-> <<1, 25, 428, 9876>>[g + 1]]
SaturationThreshold == 60000
RangeChangeSamples == 4
RebeginAfter == 3
NightRange == [gain |-> 3, integration |-> 5]       \* MAX, 600 ms
PowerOnRange == [gain |-> 0, integration |-> 0]     \* LOW, 100 ms

\* The ADC's 16 bits at a range
Counts(l, r) ==
    LET factor == GainFactor[r.gain] * (r.integration + 1)
    IN  IF l > (65535 * 1000) \div factor THEN 65535 ELSE (l * factor) \div 1000

Saturated(count) == count >= SaturationThreshold

\* wrong variant: twice a gain step below saturation is taken for low
LowTooSoon(count) == count <= 5000
Low(count) == count <= 750

-----------------------------------------------------------------------------
(* The range                                                                *)

\* Darker: first shorter gain, then shorter integration; and back the other way.
Darker(r) ==
    CASE r.gain > 0 -> [r EXCEPT !.gain = @ - 1]
      [] r.gain = 0 /\ r.integration > 0 -> [r EXCEPT !.integration = @ - 1]
      [] OTHER -> r

Brighter(r) ==
    CASE r.integration < 5 -> [r EXCEPT !.integration = @ + 1]
      [] r.integration = 5 /\ r.gain < 3 -> [r EXCEPT !.gain = @ + 1]
      [] OTHER -> r

\* autoRange(): runs of four; either run restarts when it has had its turn.
Runs(count) ==
    [bright |-> IF Saturated(count) THEN bright + 1 ELSE 0,
     dim |-> IF ~Saturated(count) /\ Low(count) THEN dim + 1 ELSE 0]

\* wrong variant: the samples of the old range stay in the average
KeptAlways(samples, r) == samples

\* resetRollingSamples() after a change of range
Kept(samples, r) == IF r = range THEN samples ELSE <<>>

AutoRange(count, samples) ==
    LET runs == Runs(count)
        next == CASE runs.bright >= RangeChangeSamples -> Darker(range)
                  [] runs.dim >= RangeChangeSamples -> Brighter(range)
                  [] OTHER -> range
    IN  /\ range' = next
        /\ chip' = IF next # range THEN next ELSE chip
        /\ window' = Kept(samples, next)
        /\ bright' = IF runs.bright >= RangeChangeSamples THEN 0 ELSE runs.bright
        /\ dim' = IF runs.dim >= RangeChangeSamples THEN 0 ELSE runs.dim

\* pushSample(): the window is a ring.
Pushed(samples) ==
    LET longer == Append(samples, chip)
    IN  IF Len(longer) > size THEN Tail(longer) ELSE longer

-----------------------------------------------------------------------------
(* tick(), as SkyReadCycle::next says                                       *)

\* failed(): lost after three reads in a row
Failed ==
    /\ failures' = IF failures < RebeginAfter THEN failures + 1 ELSE failures
    /\ cycle' = IF failures' < RebeginAfter THEN "Idle" ELSE "Absent"
    /\ reading' = [reading EXCEPT !.status = "readError"]

\* begin(): at night's range, with an empty window
Begin ==
    /\ cycle = "Absent"
    /\ IF plugged
       THEN /\ cycle' = "Idle" /\ failures' = 0
            /\ range' = NightRange /\ chip' = NightRange /\ window' = <<>>
       ELSE UNCHANGED <<cycle, failures, range, chip, window>>
    /\ UNCHANGED <<light, plugged, bright, dim, size, reading, unplugs, blinked>>

Start ==
    /\ cycle = "Idle"
    /\ IF plugged THEN cycle' = "Integrating" /\ UNCHANGED <<failures, reading>> ELSE Failed
    /\ UNCHANGED <<light, plugged, chip, range, bright, dim, window, size, unplugs, blinked>>

\* collect() and processCounts(): a saturated sample isn't averaged, and the
\* value stays what it was unless the counts are at their limit.
Collect ==
    /\ cycle = "Integrating"
    /\ IF plugged
       THEN LET count == Counts(light, chip)
                samples == IF Saturated(count) THEN window ELSE Pushed(window)
            IN  /\ cycle' = "Idle" /\ failures' = 0
                /\ AutoRange(count, samples)
                /\ reading' = [status |-> "ok", true |-> chip = range]
       ELSE Failed /\ UNCHANGED <<range, chip, window, bright, dim>>
    /\ UNCHANGED <<light, plugged, size, unplugs, blinked>>

\* configureSkyMeasurement() from the web task
SetWindow ==
    /\ size' \in WindowSizes \ {size}
    /\ window' = <<>>
    /\ UNCHANGED <<light, plugged, chip, cycle, failures, range, bright, dim, reading, unplugs, blinked>>

-----------------------------------------------------------------------------
(* The light and the wires                                                  *)

LightChanges ==
    /\ light' \in Lights \ {light}
    /\ UNCHANGED <<plugged, chip, cycle, failures, range, bright, dim, window, size, reading, unplugs, blinked>>

Unplug ==
    /\ plugged /\ unplugs < MaxUnplugs
    /\ plugged' = FALSE /\ unplugs' = unplugs + 1
    /\ UNCHANGED <<light, chip, cycle, failures, range, bright, dim, window, size, reading, blinked>>

\* Powered again, the sensor is at its lowest range; the bits that switch it on
\* are written at each start.
Plug ==
    /\ ~plugged /\ plugged' = TRUE
    /\ chip' = PowerOnRange
    /\ blinked' = (blinked \/ cycle # "Absent")
    /\ UNCHANGED <<light, cycle, failures, range, bright, dim, window, size, reading, unplugs>>

Init ==
    /\ light \in Lights /\ size \in WindowSizes
    /\ plugged = TRUE /\ chip = PowerOnRange /\ cycle = "Absent" /\ failures = 0
    /\ range = PowerOnRange /\ bright = 0 /\ dim = 0 /\ window = <<>>
    /\ reading = [status |-> "notInitialized", true |-> TRUE]
    /\ unplugs = 0 /\ blinked = FALSE

Tick == Begin \/ Start \/ Collect
Next == Tick \/ SetWindow \/ LightChanges \/ Unplug \/ Plug

\* loop() ticks on.
Spec == Init /\ [][Next]_vars /\ WF_vars(Tick)

-----------------------------------------------------------------------------
(* Properties                                                               *)

\* What is averaged was taken at the range it is converted by, so a change of
\* range, a lost sensor or a new window never mixes gains, unless the sensor
\* lost its power for less than three reads (see NeverADarkSky).
AverageIsTrue == blinked \/ \A i \in DOMAIN window : window[i] = range

AtRest(l) ==
    \/ ~Saturated(Counts(l, range)) /\ (range = NightRange \/ Counts(l, range) > 750)
    \/ range = PowerOnRange

\* In a steady light the range comes to rest where the counts are usable, or at
\* the end of the scale: up and down steps never chase each other.
RangeSettles ==
    \A l \in Lights : <>[](light = l /\ plugged) => <>[](blinked \/ AtRest(l))

\* "An unplugged sensor is reported as a read error, never as a dark sky, and is
\* found again" (docs/reference/sky-quality.md).
NeverADarkSky == reading.status = "ok" => reading.true
=============================================================================
