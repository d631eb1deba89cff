----------------------------- MODULE RainSensor -----------------------------
(***************************************************************************)
(* The RG-15 rain sensor (RG15Sensor, RainLogic): polled by the loop task,   *)
(* stopped and reconfigured by the web task whenever settings are saved,     *)
(* commanded by the web pages.  A poll waits for the sensor's answer with    *)
(* the state mutex held; the other task waits 20 ms for the mutex and then   *)
(* gives up, or goes on without it: so does update(), while the web task     *)
(* waits for the answers to its commands.                                   *)
(*                                                                          *)
(* Time is counted in ticks; of the local date only the reset day matters,   *)
(* the day that begins at the schedule's time.  A moved schedule is one of   *)
(* Schedules; its reset day is taken to be the same.                         *)
(***************************************************************************)
EXTENDS Integers, FiniteSets

CONSTANTS
    Stale,      \* ticks without an answer after which a reading is stale (30 s)
    Clear,      \* ticks without rain after which the latch opens (rainClearDelayMs)
    Schedules, Off,     \* the times a daily reset can be set to; none
    LastDay,    \* bound: days
    MaxSaves    \* bound: saved settings

NoDay == -1

RainAssumption ==
    /\ Stale \in Nat \ {0} /\ Clear \in Nat \ {0} /\ LastDay \in Nat /\ MaxSaves \in Nat
    /\ Off \notin Schedules

VARIABLES
    config,     \* config.rain: [enabled, schedule]
    sensor,     \* [on, schedule, online, heard, cached]: initialized, the schedule applied,
                \*   diagnostics.online, ticks since an answer, lastDailyResetDay
    reading,    \* [status, stale, read, latched, dry]: read = a reading was ever parsed,
                \*   dry = ticks since rain was seen
    polling,    \* the loop holds the mutex, waiting for an answer
    stored,     \* the reset day in NVS
    day,        \* today; NoDay while the clock isn't set
    saves,      \* bound
    resets,     \* ghost: the days this schedule had the total reset
    fresh,      \* ghost: the schedule was switched on or moved, and no day adopted yet
    lapse       \* ghost: NVS refused to store or to forget a day, or a schedule was changed with
                \*   the sensor off

vars == <<config, sensor, reading, polling, stored, day, saves, resets, fresh, lapse>>

Never == Stale + 1
Capped(n, limit) == IF n > limit THEN limit + 1 ELSE n

\* resetSessionState
NoReading == [status |-> "none", stale |-> FALSE, read |-> FALSE, latched |-> FALSE, dry |-> Clear + 1]
Started(schedule) == [on |-> TRUE, schedule |-> schedule, online |-> FALSE, heard |-> Never, cached |-> NoDay]
Stopped(s) == [s EXCEPT !.on = FALSE, !.online = FALSE, !.heard = Never, !.cached = NoDay]

-----------------------------------------------------------------------------
(* The latch                                                                *)

\* expire: the latch opens once it has been dry for longer than the delay.
Expire(r) == IF r.dry > Clear THEN [r EXCEPT !.latched = FALSE] ELSE r

Observe(r, rain) == IF rain THEN [r EXCEPT !.latched = TRUE, !.dry = 0] ELSE Expire(r)

-----------------------------------------------------------------------------
(* The daily reset                                                          *)

LastResetDay == IF sensor.cached # NoDay THEN sensor.cached ELSE stored

Decision ==
    IF sensor.schedule = Off \/ ~sensor.on \/ day = NoDay THEN "wait"
    ELSE IF LastResetDay = NoDay THEN "adopt"
    ELSE IF day > LastResetDay THEN "reset" ELSE "wait"

\* wrong variant: the day is stored only when a restart needn't know it
StoredDayAdoptedOnly(s, d, decision) == IF decision = "adopt" THEN d ELSE s

StoredDay(s, d, decision) == IF decision = "wait" THEN s ELSE d

\* maybeRunScheduledTotalReset: the day is recorded first; NVS may refuse it.
ScheduledReset ==
    \E kept \in BOOLEAN :
        /\ stored' = IF kept THEN StoredDay(stored, day, Decision) ELSE stored
        /\ lapse' = (lapse \/ (~kept /\ Decision # "wait"))
        /\ resets' = IF Decision = "reset" THEN resets \union {day} ELSE resets
        /\ fresh' = (fresh /\ Decision = "wait")

-----------------------------------------------------------------------------
(* The loop task                                                            *)

\* update() begins: the daily reset, the latch, and a poll when one is due.
Update ==
    /\ ~polling /\ sensor.on
    /\ ScheduledReset
    /\ sensor' = [sensor EXCEPT !.cached = IF Decision = "wait" THEN @ ELSE day]
    /\ reading' = IF reading.latched THEN Expire(reading) ELSE reading
    /\ polling' = TRUE
    /\ UNCHANGED <<config, day, saves>>

\* The end of update() without a reading from the poll.
Aged(r, heard) ==
    IF ~r.read \/ heard > Stale THEN [r EXCEPT !.status = "timeout", !.stale = TRUE]
    ELSE IF r.status # "ok" THEN [r EXCEPT !.stale = FALSE] ELSE r

\* A line with the readings, parsed; no line before the timeout.
Parsed(r, rain) == [Observe(r, rain) EXCEPT !.status = "ok", !.stale = FALSE, !.read = TRUE]
Silent(r) == [r EXCEPT !.status = "timeout", !.stale = TRUE]

\* pollReading: a reading, with rain or without; status lines or acks only; a
\* line that can't be read; no answer.
PollOutcomes(r) ==
    {[heard |-> TRUE, parsed |-> TRUE, reading |-> Parsed(r, rain)] : rain \in BOOLEAN}
    \union
    {[heard |-> TRUE, parsed |-> FALSE, reading |-> [r EXCEPT !.stale = FALSE]],
     [heard |-> TRUE, parsed |-> FALSE, reading |-> [r EXCEPT !.status = "invalid", !.stale = TRUE]],
     [heard |-> FALSE, parsed |-> FALSE, reading |-> Silent(r)]}

\* A line was read, or none.
Listened(s, heard) == IF heard THEN [s EXCEPT !.online = TRUE, !.heard = 0] ELSE s

\* sendCommand: written, and acknowledged in time or not.
Commanded(s, acked) == Listened(s, acked)

\* The poll of update() ends.  `now` was taken before the poll, so the age of an
\* answer within it wraps: a line that isn't a reading makes the reading stale.
PollEnds ==
    /\ polling /\ polling' = FALSE
    /\ \E outcome \in PollOutcomes(reading) :
         /\ sensor' = Listened(sensor, outcome.heard)
         /\ reading' = IF outcome.parsed THEN outcome.reading
                       ELSE Aged(outcome.reading, IF outcome.heard THEN Never ELSE sensor.heard)
    /\ UNCHANGED <<config, stored, day, saves, resets, fresh, lapse>>

\* No poll was due: the interval may be set to an hour.
NotDue ==
    /\ polling /\ polling' = FALSE
    /\ reading' = Aged(reading, sensor.heard)
    /\ UNCHANGED <<config, sensor, stored, day, saves, resets, fresh, lapse>>

\* update() of a sensor that isn't started
UpdateOff ==
    /\ ~polling /\ ~sensor.on
    /\ reading' = [reading EXCEPT !.status = "none", !.stale = FALSE]
    /\ UNCHANGED <<config, sensor, polling, stored, day, saves, resets, fresh, lapse>>

-----------------------------------------------------------------------------
(* The web task                                                             *)

\* stop(): it gives up while the loop holds the mutex, which it may poll without.
Stops(stopped) == polling \/ stopped

Moved(schedule) == schedule # Off /\ schedule # sensor.schedule

\* forgetLastResetDay, for a schedule that is switched on or moved
KeptDay(schedule) == IF Moved(schedule) THEN NoDay ELSE stored

\* saveConfigCallback, with the sensor off: it is stopped, nothing is applied.
SaveOff ==
    /\ saves < MaxSaves /\ saves' = saves + 1
    /\ \E schedule \in Schedules \union {Off} :
         /\ config' = [enabled |-> FALSE, schedule |-> schedule]
         /\ lapse' = (lapse \/ schedule # config.schedule)
         /\ fresh' = (schedule # Off /\ (fresh \/ schedule # config.schedule))
    /\ \E stopped \in BOOLEAN :
         /\ Stops(stopped)
         /\ sensor' = IF stopped THEN Stopped(sensor) ELSE sensor
         /\ reading' = IF stopped THEN NoReading ELSE reading
    /\ UNCHANGED <<polling, stored, day, resets>>

\* saveConfigCallback, with the sensor on: reconfigure(), whatever was saved.
\* With the mutex held by a poll it starts over all the same.  A day that NVS
\* refuses to forget stays stored; the sensor acknowledges the settings, or not.
SaveOn ==
    /\ saves < MaxSaves /\ saves' = saves + 1
    /\ \E schedule \in Schedules \union {Off}, acked \in BOOLEAN :
         /\ config' = [enabled |-> TRUE, schedule |-> schedule]
         /\ stored' \in {KeptDay(schedule), stored}
         /\ lapse' = (lapse \/ stored' # KeptDay(schedule))
         /\ sensor' = Commanded(Started(schedule), acked)
         /\ fresh' = (schedule # Off /\ (fresh \/ schedule # config.schedule \/ Moved(schedule)))
         /\ resets' = IF schedule = config.schedule /\ ~Moved(schedule) THEN resets ELSE {}
    /\ reading' = NoReading
    /\ UNCHANGED <<polling, day>>

\* testCommunication, of the web page: the settings are sent again and a poll
\* follows, which isn't aged; a poll of the loop may go on without the mutex.  The
\* manual reset of the total changes nothing here.
TestCommunication ==
    /\ sensor.on
    /\ \E outcome \in PollOutcomes(reading), acked \in BOOLEAN :
         /\ sensor' = Listened(Commanded(sensor, acked), outcome.heard)
         /\ reading' = outcome.reading
    /\ UNCHANGED <<config, polling, stored, day, saves, resets, fresh, lapse>>

\* rebootSensor
RebootSensor ==
    /\ sensor.on
    /\ sensor' = [sensor EXCEPT !.online = FALSE]
    /\ reading' = [reading EXCEPT !.stale = TRUE]
    /\ UNCHANGED <<config, polling, stored, day, saves, resets, fresh, lapse>>

-----------------------------------------------------------------------------

\* A sensor disabled in the settings is made without them.
Unstarted == [Started(Off) EXCEPT !.on = FALSE]

\* begin(): the settings are sent and a poll follows, if the sensor is enabled.
Begin ==
    IF config.enabled
    THEN \E outcome \in PollOutcomes(NoReading), acked \in BOOLEAN :
           /\ sensor' = Listened(Commanded(Started(config.schedule), acked), outcome.heard)
           /\ reading' = outcome.reading
    ELSE /\ sensor' = Unstarted
         /\ reading' = NoReading

\* A restart of the device: the settings are applied as they are stored.
Restart ==
    /\ polling' = FALSE
    /\ Begin
    /\ UNCHANGED <<config, stored, day, saves, resets, fresh, lapse>>

\* A poll takes 1.5 s at most, less than a tick.
Tick ==
    /\ ~polling
    /\ sensor' = [sensor EXCEPT !.heard = Capped(@ + 1, Stale)]
    /\ reading' = [reading EXCEPT !.dry = Capped(@ + 1, Clear)]
    /\ UNCHANGED <<config, polling, stored, day, saves, resets, fresh, lapse>>

\* The clock is set, a day begins, or the clock steps back.
NewDay ==
    /\ day' \in {d \in {0, day - 1, day + 1} : d >= 0 /\ d <= LastDay} \ {day}
    /\ UNCHANGED <<config, sensor, reading, polling, stored, saves, resets, fresh, lapse>>

Init ==
    /\ config \in [enabled : BOOLEAN, schedule : Schedules \union {Off}]
    /\ sensor = IF config.enabled THEN Started(config.schedule) ELSE Unstarted
    /\ reading = NoReading /\ polling = FALSE
    /\ stored = NoDay /\ day = NoDay /\ saves = 0
    /\ resets = {} /\ fresh = (config.schedule # Off) /\ lapse = FALSE

Next ==
    \/ Update \/ PollEnds \/ NotDue \/ UpdateOff
    \/ SaveOff \/ SaveOn \/ TestCommunication \/ RebootSensor
    \/ Restart \/ Tick \/ NewDay

Spec == Init /\ [][Next]_vars

-----------------------------------------------------------------------------
(* What the driver promises                                                 *)

\* The schedule resets the total at most once a day, whatever restarts, clock
\* steps and saves come between, and never on the day it was switched on or
\* moved (a sensor that was off at a restart counts as switched on); unless NVS
\* refused to store or forget a day, or the schedule was changed with the sensor off.
ResetOnceADay ==
    [][Update /\ Decision = "reset" /\ ~lapse => day \notin resets /\ ~fresh]_vars

=============================================================================
