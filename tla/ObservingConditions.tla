------------------------ MODULE ObservingConditions ------------------------
(***************************************************************************)
(* What is said of the sensors: to an Alpaca client (Router,                 *)
(* ObservingConditionsMapper), on the page (buildReadings) and to the        *)
(* verdict (safetyInputs).  All three judge the same snapshot by rules of    *)
(* their own, while the loop task reads the drivers and takes snapshots and  *)
(* the web task switches sensors on and off.                                *)
(*                                                                          *)
(* A request changes nothing here, so its answer is an operator of the       *)
(* state.  Time is counted in seconds, one per pass of the loop; a second in *)
(* which the loop is blocked is a step of its own.  Values are left out but  *)
(* for their age; the RG-15's commands and its daily reset, and the sky sensor's *)
(* reading cycle, are in RainSensor and SkySensor.                          *)
(***************************************************************************)
EXTENDS Integers

CONSTANTS
    BusSensors,     \* the sensors on the I2C bus which the verdict requires
    Retried,        \* those that are looked for again after boot
    ReadInterval,   \* config.sensor.readIntervalMs
    Grace,          \* SENSOR_STALE_GRACE_MS
    WindStale,      \* WIND_STALE_MS
    VaneFault,      \* VANE_FAULT_SECONDS
    RainStale,      \* the RG-15's effective stale timeout
    PollInterval,   \* config.rain.pollIntervalMs
    VerdictStale,   \* alpaca.staleAfterSeconds
    MaxBlock,       \* bound: seconds the loop is blocked
    MaxChanges      \* bound: saves, and sensors that break or work again

ConditionsAssumption ==
    /\ Retried \subseteq BusSensors /\ "rain" \notin BusSensors /\ "wind" \notin BusSensors
    /\ {ReadInterval, Grace, WindStale, VaneFault, RainStale} \subseteq Nat
    /\ {PollInterval, VerdictStale, MaxBlock, MaxChanges} \subseteq Nat

VARIABLES
    working,    \* the sensors that answer when asked, and "lens" while that is clean
    setting,    \* [rain, wind, vane, alpaca]: the switches
    drivers,    \* the drivers' readings
    snapshot,   \* the last one taken, or Empty
    sinceRead,  \* since lastSensorUpdate
    blocked,    \* how long the loop has been blocked
    changes     \* bound

vars == <<working, setting, drivers, snapshot, sinceRead, blocked, changes>>

Sources == BusSensors \union {"rain", "wind", "vane"}
Parts == Sources \union {"lens"}
Never == -1
Oldest(ages) == CHOOSE a \in ages : \A b \in ages : b <= a
Youngest(ages) == CHOOSE a \in ages : \A b \in ages : a <= b

StaleAfter == ReadInterval + Grace
Longest == 1 + Oldest({StaleAfter, WindStale, RainStale, PollInterval, VerdictStale})
Later(age) == IF age = Never \/ age = Longest THEN age ELSE age + 1

\* A driver's reading: begun, its status, since the last good one
NotBegun == [ready |-> FALSE, status |-> "none", age |-> Never]
Begun == [ready |-> TRUE, status |-> "none", age |-> Never]

\* The RG-15's: initialized, what it says of itself, whether a reading was ever
\* parsed, since its last response of any kind and its last poll, its lens fault
NoRain == [ready |-> FALSE, online |-> FALSE, status |-> "none", stale |-> FALSE, read |-> FALSE,
           heard |-> Never, polled |-> Never, lensBad |-> FALSE]
RainStarted == [NoRain EXCEPT !.ready = TRUE]

\* getSensorSnapshot() without the lock, and the snapshot before the first
Empty == [bus |-> [s \in BusSensors |-> NotBegun], rain |-> NoRain, wind |-> NotBegun,
          vaneMisses |-> 0, taken |-> Never]

-----------------------------------------------------------------------------
(* What Alpaca is told (observingConditions and the mapper)                 *)

WindFresh(snap) == snap.wind.status = "ok" /\ snap.wind.age # Never /\ snap.wind.age <= WindStale
WindPresent(c, snap) == c.wind /\ snap.wind.age # Never

Present(source, c, snap) ==
    CASE source \in BusSensors -> snap.bus[source].ready
      [] source = "rain" -> c.rain /\ snap.rain.read
      [] source = "wind" -> WindPresent(c, snap)
      [] OTHER -> WindPresent(c, snap) /\ c.vane

\* The RG-15 judges itself.
RainFine(rain) == rain.online /\ ~rain.stale /\ rain.status = "ok"

\* Any other sensor is judged by its last good reading.
Valid(source, c, snap) ==
    CASE source \in BusSensors ->
            LET r == snap.bus[source] IN r.status = "ok" /\ r.age # Never /\ r.age <= StaleAfter
      [] source = "rain" -> c.rain /\ RainFine(snap.rain) /\ snap.rain.read
      [] source = "wind" -> c.wind /\ WindFresh(snap)
      [] OTHER -> c.vane /\ c.wind /\ WindFresh(snap) /\ snap.vaneMisses < VaneFault

\* timesincelastupdate; a value is asked of an Alpaca that is on as well.
TimeSinceLastUpdate(source, c, snap) ==
    CASE ~Present(source, c, snap) -> "notImplemented"
      [] Present(source, c, snap) /\ ~Valid(source, c, snap) -> "noData"
      [] OTHER -> "value"

Value(source, c, snap) == IF c.alpaca THEN TimeSinceLastUpdate(source, c, snap) ELSE "notConnected"

-----------------------------------------------------------------------------
(* What the page and the verdict are told                                   *)

\* readingStatus
ReadingStatus(r) ==
    CASE ~r.ready \/ r.status = "none" -> "missing"
      [] r.ready /\ r.status = "error" -> "error"
      [] r.ready /\ r.status = "ok" /\ (r.age = Never \/ r.age > StaleAfter) -> "stale"
      [] OTHER -> "ok"

\* The wind is never shown as stale.
Shown(source, c, snap) ==
    CASE source \in BusSensors -> ReadingStatus(snap.bus[source])
      [] source = "rain" /\ c.rain ->
            IF ~(snap.rain.ready /\ snap.rain.online) THEN "missing"
            ELSE IF snap.rain.stale THEN "stale" ELSE "ok"
      [] source = "wind" /\ c.wind -> IF snap.wind.status = "ok" THEN "ok" ELSE "missing"
      [] OTHER -> "absent"

\* requiredDataAge: the oldest of those that answer, or the youngest reading
EverRead(snap) == \E s \in BusSensors : snap.bus[s].age # Never
RequiredDataAge(snap) ==
    LET read == {s \in BusSensors : snap.bus[s].age # Never}
        answering == {s \in read : snap.bus[s].status = "ok"}
    IN  IF answering # {} THEN Oldest({snap.bus[s].age : s \in answering})
        ELSE Youngest({snap.bus[s].age : s \in read})

\* The page's dataStale, and checkFreshness
ShownLive(snap) ==
    snap.taken # Never /\ snap.taken <= StaleAfter /\ EverRead(snap) /\ RequiredDataAge(snap) <= StaleAfter
JudgedFresh(snap) == EverRead(snap) /\ RequiredDataAge(snap) <= VerdictStale

\* The verdict's faults of its own sensors
Healthy(source, snap) ==
    CASE source \in BusSensors -> snap.bus[source].status = "ok"
      [] source = "rain" -> RainFine(snap.rain) /\ ~snap.rain.lensBad
      [] OTHER -> WindFresh(snap)

-----------------------------------------------------------------------------
(* The drivers                                                              *)

\* update(): a reading, or the last one kept with an error
Read(r, answers) ==
    CASE ~r.ready -> [r EXCEPT !.status = "none"]
      [] r.ready /\ answers -> [r EXCEPT !.status = "ok", !.age = 0]
      [] OTHER -> [r EXCEPT !.status = "error"]

\* A sensor of the sky is begun when it is found; the others only at boot.
BusRead(s, r) == Read(IF ~r.ready /\ s \in Retried /\ s \in working THEN Begun ELSE r, s \in working)

\* pollReading, once it is answered with a reading, with another line or not at all
Heard(r) == [r EXCEPT !.online = TRUE, !.heard = 0]
Parsed(r) ==
    [Heard(r) EXCEPT !.status = "ok", !.stale = FALSE, !.read = TRUE, !.lensBad = "lens" \notin working]
TimedOut(r) == [r EXCEPT !.status = "timeout", !.stale = TRUE]
Polled(r) ==
    IF "rain" \in working THEN {Parsed(r)}
    ELSE {[Heard(r) EXCEPT !.stale = FALSE],
          [Heard(r) EXCEPT !.status = "invalid", !.stale = TRUE],
          TimedOut(r)}

\* The end of RG15Sensor::update without a reading from the poll: it is stale once
\* the last response, whatever it was, is too long ago.
Judged(r) ==
    CASE ~r.read \/ r.heard = Never \/ r.heard > RainStale -> TimedOut(r)
      [] r.read /\ r.heard # Never /\ r.heard <= RainStale /\ r.status # "ok" -> [r EXCEPT !.stale = FALSE]
      [] OTHER -> r

PollDue(r) == r.polled = Never \/ r.polled >= PollInterval

\* wrong variant: a poll that fails changes nothing, and silence isn't judged
RainReadsOnce(r) ==
    CASE ~r.ready -> {[r EXCEPT !.status = "none", !.online = FALSE, !.stale = FALSE]}
      [] r.ready /\ PollDue(r) /\ "rain" \in working -> {Parsed([r EXCEPT !.polled = 0])}
      [] OTHER -> {r}

\* RG15Sensor::update, what it may come to.  Its clock was read before the poll,
\* so a line that is no reading counts as very old, and makes it stale as well.
RainReads(r) ==
    CASE ~r.ready -> {[r EXCEPT !.status = "none", !.online = FALSE, !.stale = FALSE]}
      [] r.ready /\ ~PollDue(r) -> {Judged(r)}
      [] r.ready /\ PollDue(r) /\ "rain" \in working -> {Parsed([r EXCEPT !.polled = 0])}
      [] OTHER -> {TimedOut(Heard([r EXCEPT !.polled = 0])), Judged(TimedOut([r EXCEPT !.polled = 0]))}

\* WindSensor::update: pulses are counted, whatever turns; the vane must answer.
WindRead(r) == IF r.ready THEN [r EXCEPT !.status = "ok", !.age = 0] ELSE [r EXCEPT !.status = "none"]
Misses(n) ==
    CASE ~drivers.wind.ready \/ ~setting.vane -> n
      [] drivers.wind.ready /\ setting.vane /\ "vane" \in working -> 0
      [] OTHER -> IF n < VaneFault THEN n + 1 ELSE n

\* wrong variant: switched on at run time, the interrupt isn't attached
ConfiguredUnattached(wind, on) == IF on = setting.wind THEN wind ELSE NotBegun

\* WindSensor::configure: attached again when its switch has changed
Configured(wind, on) ==
    CASE on = setting.wind -> wind
      [] on # setting.wind /\ on -> [Begun EXCEPT !.status = "ok"]
      [] OTHER -> NotBegun

-----------------------------------------------------------------------------
(* The loop task                                                            *)

Aged(r) == [r EXCEPT !.age = Later(@)]
RainAged(r) == [r EXCEPT !.heard = Later(@), !.polled = Later(@)]
AllAged(all) ==
    [all EXCEPT !.bus = [s \in BusSensors |-> Aged(@[s])], !.rain = RainAged(@), !.wind = Aged(@),
                !.taken = Later(@)]

SlowReads(all) ==
    {[all EXCEPT !.bus = [s \in BusSensors |-> BusRead(s, @[s])], !.rain = rain] : rain \in RainReads(all.rain)}

\* refreshSensorSnapshot: dropped when the lock isn't had
Refresh(had) ==
    LET next == [drivers' EXCEPT !.taken = 0, !.rain.polled = Never]
    IN  snapshot' = IF had THEN next ELSE AllAged(snapshot)

Pass(had) ==
    LET wind == [AllAged(drivers) EXCEPT !.wind = WindRead(@), !.vaneMisses = Misses(@)]
        due == sinceRead + 1 >= ReadInterval
    IN  /\ blocked' = 0
        /\ drivers' \in IF due THEN SlowReads(wind) ELSE {wind}
        /\ IF due THEN sinceRead' = 0 /\ Refresh(had)
           ELSE sinceRead' = sinceRead + 1 /\ snapshot' = AllAged(snapshot)
        /\ UNCHANGED <<working, setting, changes>>

\* A connection to the broker takes its time.
Blocks ==
    /\ blocked < MaxBlock /\ blocked' = blocked + 1
    /\ drivers' = AllAged(drivers) /\ snapshot' = AllAged(snapshot)
    /\ sinceRead' = IF sinceRead < ReadInterval THEN sinceRead + 1 ELSE sinceRead
    /\ UNCHANGED <<working, setting, changes>>

-----------------------------------------------------------------------------
(* The web task and the sensors                                             *)

Change == changes < MaxChanges /\ changes' = changes + 1

\* What commands leave, acknowledged in time or not.
Commanded(r) == {r, Heard(r)}

\* saveConfigCallback: every save sets up the RG-15 anew.
Save(c) ==
    /\ Change
    /\ setting' = c
    /\ \E rain \in IF c.rain THEN Commanded(RainStarted) ELSE {NoRain} :
          drivers' = [drivers EXCEPT !.rain = rain, !.wind = Configured(@, c.wind)]
    /\ UNCHANGED <<working, snapshot, sinceRead, blocked>>

\* testCommunication and rebootSensor, of the web page
CommandRain ==
    /\ Change /\ drivers.rain.ready
    /\ \E rain \in (UNION {Polled(r) : r \in Commanded(drivers.rain)})
                   \union {[drivers.rain EXCEPT !.online = FALSE, !.stale = TRUE]} :
          drivers' = [drivers EXCEPT !.rain = rain]
    /\ UNCHANGED <<working, setting, snapshot, sinceRead, blocked>>

BreaksOrWorks(s) ==
    /\ Change
    /\ working' = IF s \in working THEN working \ {s} ELSE working \union {s}
    /\ UNCHANGED <<setting, drivers, snapshot, sinceRead, blocked>>

\* setupSensors, with the sensors that answer; the RG-15 is polled at once.
Drivers(c) ==
    {[bus |-> [s \in BusSensors |-> IF s \in working THEN Begun ELSE NotBegun],
      rain |-> rain,
      wind |-> IF c.wind THEN [Begun EXCEPT !.status = "ok"] ELSE NotBegun,
      vaneMisses |-> 0, taken |-> Never] :
        rain \in IF c.rain THEN UNION {Polled(r) : r \in Commanded(RainStarted)} ELSE {NoRain}}

Boot(c) ==
    /\ drivers' \in Drivers(c)
    /\ snapshot' = Empty /\ sinceRead' = 0 /\ blocked' = 0

Restart == Change /\ Boot(setting) /\ UNCHANGED <<working, setting>>

\* A save changes one switch at a time, or something else.
Saved == {setting} \union {[setting EXCEPT ![s] = ~@] : s \in DOMAIN setting}

Init ==
    /\ working \in {Parts, {}}
    /\ setting \in {[rain |-> on, wind |-> on, vane |-> on, alpaca |-> TRUE] : on \in BOOLEAN}
    /\ drivers \in Drivers(setting)
    /\ snapshot = Empty /\ sinceRead = 0 /\ blocked = 0 /\ changes = 0

Next ==
    \/ \E had \in BOOLEAN : Pass(had)
    \/ Blocks
    \/ \E c \in Saved : Save(c)
    \/ CommandRain
    \/ \E s \in Parts : BreaksOrWorks(s)
    \/ Restart

\* The loop runs on, and the lock is had again and again when a read is due.
Spec ==
    /\ Init /\ [][Next]_vars
    /\ WF_vars(\E had \in BOOLEAN : Pass(had))
    /\ SF_vars(sinceRead + 1 >= ReadInterval /\ Pass(TRUE))

-----------------------------------------------------------------------------
(* Properties                                                               *)

\* Whatever Alpaca serves of a snapshot is shown as ok on the page and is no fault
\* to the verdict; but for the RG-15 with a fault of its lens, whose readings the
\* verdict doesn't trust and Alpaca goes on serving (rain.valid leaves lensBad out).
\* The RG-15 judges itself, by its last response: that is older than its limit by
\* the age of the snapshot, and no more.  (A response need not be a reading.)
ServedIsShown ==
    \A s \in Sources \ {"vane"} : Value(s, setting, snapshot) = "value" =>
        /\ Shown(s, setting, snapshot) = "ok"
        /\ Healthy(s, snapshot) \/ (s = "rain" /\ snapshot.rain.lensBad)
        /\ s = "rain" => snapshot.rain.heard <= RainStale + snapshot.taken

\* A sensor that is on and answers is served again and again, whatever was
\* switched, lost or restarted before; one looked for only at boot, if it was found.
InUse(s) ==
    /\ s \in working /\ setting.alpaca
    /\ IF s \in BusSensors THEN s \in Retried \/ drivers.bus[s].ready ELSE setting[s]
Served(s) == Value(s, setting, snapshot) = "value"
ServedInTheEnd == \A s \in Sources \ {"vane"} : <>[]InUse(s) => []<>Served(s)

\* The page never reads "Live" while the verdict says stale (DeviceCore.cpp:335).
LiveIsFresh == ShownLive(snapshot) => JudgedFresh(snapshot)

\* "unavailable hardware returns NotImplemented [...] includes a sensor that [...]
\* hasn't answered since boot; faulted/stale means it answered at least once":
\* refuted, a request that misses the snapshot's lock is told of an empty one.
AbsentOnlyIfAbsent ==
    \A s \in BusSensors, snap \in {snapshot, Empty} :
        snapshot.bus[s].age # Never => TimeSinceLastUpdate(s, setting, snap) # "notImplemented"
=============================================================================
