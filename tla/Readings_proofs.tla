-------------------------- MODULE Readings_proofs --------------------------
(***************************************************************************)
(* Proofs about the machines of MCReadings, for every value of their        *)
(* constants: what the sky sensor averages (SkySensor), when the rain total *)
(* is reset (RainSensor), whose pack an estimate is (FuelGauge), how recent  *)
(* the reading is that an Alpaca client is served (ObservingConditions), and *)
(* what the display's driver may take for shown (OledPanel).                *)
(*                                                                          *)
(* A step of MCReadings is a step of one machine, and the others stand      *)
(* still: each lemma on a machine is about its steps and about standing     *)
(* still, and the theorems put them together at the end.                    *)
(***************************************************************************)
EXTENDS MCReadings, Sequences, TLAPS

-----------------------------------------------------------------------------
(* The sky sensor, however often it loses its power                         *)

SkyRanges == [gain : 0 .. 3, integration : 0 .. 5]

\* What the window's history needs of types: its samples are known by ranges.
WindowTypeOK ==
    /\ chip \in SkyRanges /\ range \in SkyRanges
    /\ window \in Seq(SkyRanges)
    /\ size \in Nat \ {0}

\* While it isn't looked for, the sensor is at the range the driver believes
\* in, but for a loss of power nobody noticed.
InStep == blinked \/ cycle = "Absent" \/ chip = range

SkyInv == WindowTypeOK /\ InStep /\ Sky!AverageIsTrue

-----------------------------------------------------------------------------
\* The range after a sample is one of the sensor's.
LEMMA DarkerIsARange == \A r \in SkyRanges : Sky!Darker(r) \in SkyRanges
BY DEF Sky!Darker, SkyRanges

LEMMA BrighterIsARange == \A r \in SkyRanges : Sky!Brighter(r) \in SkyRanges
BY DEF Sky!Brighter, SkyRanges

\* Pushing a sample taken at a range keeps a window of that range pure.
LEMMA PushedIsPure ==
    ASSUME WindowTypeOK
    PROVE  /\ Sky!Pushed(window) \in Seq(SkyRanges)
           /\ (\A i \in DOMAIN window : window[i] = range) /\ chip = range
                => \A i \in DOMAIN Sky!Pushed(window) : Sky!Pushed(window)[i] = range
<1> DEFINE longer == Append(window, chip)
<1>1. /\ longer \in Seq(SkyRanges) /\ Len(longer) = Len(window) + 1
      /\ \A i \in 1 .. Len(longer) : longer[i] = IF i = Len(longer) THEN chip ELSE window[i]
  BY DEF WindowTypeOK
<1>2. longer # <<>>
  BY <1>1, Len(window) \in Nat DEF WindowTypeOK
<1>3. /\ Tail(longer) \in Seq(SkyRanges) /\ Len(Tail(longer)) = Len(longer) - 1
      /\ \A i \in 1 .. Len(Tail(longer)) : Tail(longer)[i] = longer[i + 1]
  BY <1>1, <1>2
<1>4. Sky!Pushed(window) \in Seq(SkyRanges)
  BY <1>1, <1>3 DEF Sky!Pushed
<1>5. ASSUME \A i \in DOMAIN window : window[i] = range, chip = range,
             NEW i \in DOMAIN Sky!Pushed(window)
      PROVE  Sky!Pushed(window)[i] = range
  <2>1. \A k \in 1 .. Len(longer) : longer[k] = range
    BY <1>1, <1>5 DEF WindowTypeOK
  <2>2. CASE Len(longer) > size
    <3>1. Sky!Pushed(window) = Tail(longer) BY <2>2 DEF Sky!Pushed
    <3>2. i \in 1 .. Len(Tail(longer)) BY <3>1, <1>3, <1>5
    <3>3. i + 1 \in 1 .. Len(longer) BY <3>2, <1>1, <1>3, Len(window) \in Nat DEF WindowTypeOK
    <3> QED BY <3>1, <3>2, <3>3, <1>3, <2>1
  <2>3. CASE ~(Len(longer) > size)
    <3>1. Sky!Pushed(window) = longer BY <2>3 DEF Sky!Pushed
    <3> QED BY <3>1, <1>1, <2>1, <1>5
  <2> QED BY <2>2, <2>3
<1> QED BY <1>4, <1>5

\* One sample: averaged or not, the range moved or not.
LEMMA SampleKeeps ==
    ASSUME SkyInv, cycle # "Absent", NEW count, NEW samples \in {window, Sky!Pushed(window)},
           Sky!AutoRange(count, samples), UNCHANGED <<size, blinked>>
    PROVE  SkyInv'
<1> USE DEF SkyInv
<1>1. samples \in Seq(SkyRanges)
  BY PushedIsPure DEF WindowTypeOK
<1>2. blinked \/ (\A i \in DOMAIN samples : samples[i] = range)
  BY PushedIsPure DEF Sky!AverageIsTrue, InStep
<1>3. range' \in SkyRanges
  BY DarkerIsARange, BrighterIsARange DEF Sky!AutoRange, WindowTypeOK
<1>4. chip' = IF range' # range THEN range' ELSE chip
  BY DEF Sky!AutoRange
<1>5. window' = IF range' = range THEN samples ELSE <<>>
  BY DEF Sky!AutoRange, Sky!Kept
<1>6. WindowTypeOK'
  <2>1. <<>> \in Seq(SkyRanges) OBVIOUS
  <2> QED BY <1>1, <1>3, <1>4, <1>5, <2>1 DEF WindowTypeOK
<1>7. InStep'
  BY <1>4 DEF InStep
<1>8. Sky!AverageIsTrue'
  BY <1>2, <1>5 DEF Sky!AverageIsTrue
<1> QED BY <1>6, <1>7, <1>8

-----------------------------------------------------------------------------
\* The sensor starts unknown, with nothing averaged.
LEMMA SkyInit == ASSUME Sky!SkyAssumption PROVE Sky!Init => SkyInv
<1> SUFFICES ASSUME Sky!Init PROVE SkyInv OBVIOUS
<1>1. Sky!PowerOnRange \in SkyRanges /\ <<>> \in Seq(SkyRanges)
  BY DEF Sky!PowerOnRange, SkyRanges
<1> QED BY <1>1 DEF Sky!SkyAssumption, Sky!Init, SkyInv, WindowTypeOK, InStep, Sky!AverageIsTrue

\* No step mixes ranges: reads and the web task's settings, light and wires.
LEMMA SkyStep == ASSUME Sky!SkyAssumption, SkyInv, Sky!Next \/ UNCHANGED skyVars PROVE SkyInv'
<1>1. Sky!NightRange \in SkyRanges /\ Sky!PowerOnRange \in SkyRanges /\ <<>> \in Seq(SkyRanges)
  BY DEF Sky!NightRange, Sky!PowerOnRange, SkyRanges
<1>2. CASE Sky!Begin
  <2> USE DEF SkyInv, WindowTypeOK, InStep, Sky!AverageIsTrue
  <2>1. CASE plugged
    <3>1. range' = Sky!NightRange /\ chip' = Sky!NightRange /\ window' = <<>> /\ size' = size
      BY <1>2, <2>1 DEF Sky!Begin
    <3>2. DOMAIN window' = {} BY <3>1
    <3>3. window' \in Seq(SkyRanges) BY <1>1, <3>1
    <3> QED BY <1>1, <3>1, <3>2, <3>3
  <2>2. CASE ~plugged
    <3>1. UNCHANGED <<cycle, range, chip, window, size, blinked>>
      BY <1>2, <2>2 DEF Sky!Begin
    <3> QED BY <3>1
  <2> QED BY <2>1, <2>2
<1>3. CASE Sky!Start
  BY <1>3 DEF Sky!Start, Sky!Failed, SkyInv, WindowTypeOK, InStep, Sky!AverageIsTrue
<1>4. CASE Sky!Collect
  <2>1. CASE plugged
    <3> DEFINE count == Sky!Counts(light, chip)
               samples == IF Sky!Saturated(count) THEN window ELSE Sky!Pushed(window)
    <3>1. Sky!AutoRange(count, samples) /\ UNCHANGED <<size, blinked>> /\ cycle # "Absent"
      BY <1>4, <2>1 DEF Sky!Collect
    <3> HIDE DEF count
    <3>2. samples \in {window, Sky!Pushed(window)} OBVIOUS
    <3> HIDE DEF samples
    <3> QED BY <3>1, <3>2, SampleKeeps
  <2>2. CASE ~plugged
    BY <1>4, <2>2 DEF Sky!Collect, Sky!Failed, SkyInv, WindowTypeOK, InStep, Sky!AverageIsTrue
  <2> QED BY <2>1, <2>2
<1>5. CASE Sky!SetWindow
  BY <1>1, <1>5 DEF Sky!SetWindow, Sky!SkyAssumption, SkyInv, WindowTypeOK, InStep, Sky!AverageIsTrue
<1>6. CASE Sky!LightChanges \/ Sky!Unplug
  BY <1>6 DEF Sky!LightChanges, Sky!Unplug, SkyInv, WindowTypeOK, InStep, Sky!AverageIsTrue
<1>7. CASE Sky!Plug
  BY <1>1, <1>7 DEF Sky!Plug, SkyInv, WindowTypeOK, InStep, Sky!AverageIsTrue
<1>8. CASE UNCHANGED skyVars
  BY <1>8 DEF skyVars, SkyInv, WindowTypeOK, InStep, Sky!AverageIsTrue
<1> QED BY <1>2, <1>3, <1>4, <1>5, <1>6, <1>7, <1>8 DEF Sky!Next, Sky!Tick

-----------------------------------------------------------------------------
(* The rain sensor's daily reset                                            *)

Sensors == [on : BOOLEAN, schedule : Schedules \union {Off}, online : BOOLEAN, heard : Int, cached : Int]
RainConfigs == [enabled : BOOLEAN, schedule : Schedules \union {Off}]

\* What the driver remembers of the last reset is what NVS does; the days it
\* reset are no later, and a schedule that has adopted no day has none stored.
\* The schedule it runs is the saved one, or none.
DaysAgree ==
    /\ sensor.cached \in {Rain!NoDay, stored}
    /\ \A d \in resets : d <= stored
    /\ fresh => stored = Rain!NoDay
    /\ sensor.schedule \in {Off, config.schedule}

RainInv ==
    /\ config \in RainConfigs /\ sensor \in Sensors
    /\ stored \in Int /\ day \in Nat \union {Rain!NoDay} /\ resets \in SUBSET Int
    /\ fresh \in BOOLEAN /\ lapse \in BOOLEAN
    /\ ~lapse => DaysAgree

-----------------------------------------------------------------------------
\* Started, stopped, heard or silent, a sensor is one: only starting and
\* stopping it touch the schedule and the day.
LEMMA SensorTypes ==
    ASSUME Rain!RainAssumption
    PROVE  /\ \A s \in Schedules \union {Off} : Rain!Started(s) \in Sensors
           /\ Rain!Unstarted \in Sensors
           /\ Rain!Unstarted.schedule = Off /\ Rain!Unstarted.cached = Rain!NoDay
           /\ \A s \in Sensors : Rain!Stopped(s) \in Sensors
<1>1. PICK yes, no : yes = TRUE /\ no = FALSE OBVIOUS
<1>2. yes \in BOOLEAN /\ no \in BOOLEAN /\ Rain!Never \in Int /\ Rain!NoDay \in Int
  <2>1. yes \in BOOLEAN /\ no \in BOOLEAN BY <1>1, Zenon
  <2>2. Rain!Never \in Int /\ Rain!NoDay \in Int BY DEF Rain!RainAssumption, Rain!Never, Rain!NoDay
  <2> QED BY <2>1, <2>2
<1>3. ASSUME NEW s \in Schedules \union {Off} PROVE Rain!Started(s) \in Sensors
  <2>1. Rain!Started(s) = [on |-> yes, schedule |-> s, online |-> no, heard |-> Rain!Never,
                           cached |-> Rain!NoDay]
    BY <1>1 DEF Rain!Started
  <2> QED BY <1>2, <2>1 DEF Sensors
<1>4. /\ Rain!Unstarted \in Sensors
      /\ Rain!Unstarted.schedule = Off /\ Rain!Unstarted.cached = Rain!NoDay
  <2>1. Rain!Unstarted = [on |-> no, schedule |-> Off, online |-> no, heard |-> Rain!Never,
                          cached |-> Rain!NoDay]
    <3>1. Rain!Started(Off) = [on |-> yes, schedule |-> Off, online |-> no, heard |-> Rain!Never,
                               cached |-> Rain!NoDay]
      BY <1>1 DEF Rain!Started
    <3>2. Rain!Unstarted = [Rain!Started(Off) EXCEPT !.on = no] BY <1>1 DEF Rain!Unstarted
    <3> QED BY <3>1, <3>2
  <2> QED BY <1>2, <2>1 DEF Sensors
<1>5. ASSUME NEW s \in Sensors PROVE Rain!Stopped(s) \in Sensors
  <2>1. Rain!Stopped(s) = [s EXCEPT !.on = no, !.online = no, !.heard = Rain!Never, !.cached = Rain!NoDay]
    BY <1>1 DEF Rain!Stopped
  <2> QED BY <1>2, <2>1 DEF Sensors
<1> QED BY <1>3, <1>4, <1>5

LEMMA ListenedKeeps ==
    ASSUME NEW s \in Sensors, NEW heard
    PROVE  /\ Rain!Listened(s, heard) \in Sensors
           /\ Rain!Listened(s, heard).schedule = s.schedule /\ Rain!Listened(s, heard).cached = s.cached
<1>1. CASE heard
  <2>1. PICK yes \in BOOLEAN : yes = TRUE OBVIOUS
  <2>2. PICK n : n = Rain!Listened(s, heard) OBVIOUS
  <2>3. n = [s EXCEPT !.online = yes, !.heard = 0] BY <1>1, <2>1, <2>2 DEF Rain!Listened
  <2>4. n.schedule = s.schedule /\ n.cached = s.cached BY <2>3 DEF Sensors
  <2>5. n \in Sensors BY <2>3, 0 \in Int, Zenon DEF Sensors
  <2> QED BY <2>2, <2>4, <2>5
<1>2. CASE ~heard
  BY <1>2 DEF Rain!Listened
<1> QED BY <1>1, <1>2

\* A sensor that listened, was rebooted or grew older: the days stand.
LEMMA SensorHeard ==
    ASSUME RainInv, sensor' \in Sensors,
           sensor'.schedule = sensor.schedule, sensor'.cached = sensor.cached,
           UNCHANGED <<config, stored, day, resets, fresh, lapse>>
    PROVE  RainInv'
BY DEF RainInv, DaysAgree

\* update(): the day is adopted or the total reset, and remembered.
LEMMA RainUpdateKeeps == ASSUME RainInv, Rain!Update PROVE RainInv'
<1>1. PICK kept \in BOOLEAN :
        /\ stored' = IF kept THEN Rain!StoredDay(stored, day, Rain!Decision) ELSE stored
        /\ lapse' = (lapse \/ (~kept /\ Rain!Decision # "wait"))
        /\ resets' = IF Rain!Decision = "reset" THEN resets \union {day} ELSE resets
        /\ fresh' = (fresh /\ Rain!Decision = "wait")
  BY DEF Rain!Update, Rain!ScheduledReset
<1>2. /\ sensor' = [sensor EXCEPT !.cached = IF Rain!Decision = "wait" THEN @ ELSE day]
      /\ UNCHANGED <<config, day>>
  BY DEF Rain!Update
<1>3. stored' \in Int /\ resets' \in SUBSET Int /\ fresh' \in BOOLEAN /\ lapse' \in BOOLEAN
  BY <1>1 DEF RainInv, Rain!StoredDay, Rain!NoDay
<1>4. /\ sensor' \in Sensors /\ sensor'.schedule = sensor.schedule
      /\ sensor'.cached = IF Rain!Decision = "wait" THEN sensor.cached ELSE day
  BY <1>2 DEF RainInv, Sensors, Rain!NoDay
<1>5. ASSUME ~lapse' PROVE DaysAgree'
  <2>1. DaysAgree BY <1>1, <1>5 DEF RainInv
  <2>2. CASE Rain!Decision = "wait"
    BY <1>1, <1>2, <1>4, <2>1, <2>2 DEF DaysAgree, Rain!StoredDay
  <2>3. CASE Rain!Decision # "wait"
    <3>1. stored' = day /\ ~fresh' /\ sensor'.cached = day
      BY <1>1, <1>4, <1>5, <2>3 DEF Rain!StoredDay
    <3>2. stored <= day
      <4>1. day \in Nat /\ stored \in Int BY <2>3 DEF Rain!Decision, RainInv
      <4>2. sensor.cached \in {Rain!NoDay, stored} BY <2>1 DEF DaysAgree
      <4> QED BY <2>3, <4>1, <4>2 DEF Rain!Decision, Rain!LastResetDay, Rain!NoDay
    <3>3. \A d \in resets' : d <= stored'
      BY <1>1, <2>1, <3>1, <3>2 DEF DaysAgree, RainInv, Rain!NoDay
    <3> QED BY <1>2, <1>4, <2>1, <3>1, <3>3 DEF DaysAgree
  <2> QED BY <2>2, <2>3
<1> QED BY <1>2, <1>3, <1>4, <1>5 DEF RainInv

\* Settings saved with the sensor off: a schedule changed so is a lapse.
LEMMA SaveOffKeeps == ASSUME Rain!RainAssumption, RainInv, Rain!SaveOff PROVE RainInv'
<1>1. PICK schedule \in Schedules \union {Off} :
        /\ config' = [enabled |-> FALSE, schedule |-> schedule]
        /\ lapse' = (lapse \/ schedule # config.schedule)
        /\ fresh' = (schedule # Off /\ (fresh \/ schedule # config.schedule))
  BY DEF Rain!SaveOff
<1>2. sensor' \in {sensor, Rain!Stopped(sensor)} /\ UNCHANGED <<stored, day, resets>>
  BY DEF Rain!SaveOff
<1>3. /\ sensor' \in Sensors /\ sensor'.schedule = sensor.schedule
      /\ sensor'.cached \in {sensor.cached, Rain!NoDay}
  BY <1>2, SensorTypes DEF RainInv, Rain!Stopped, Sensors
<1>4. config' \in RainConfigs /\ config'.schedule = schedule BY <1>1 DEF RainConfigs
<1> QED BY <1>1, <1>2, <1>3, <1>4 DEF RainInv, DaysAgree

\* Settings saved with the sensor on: a schedule switched on or moved forgets
\* the day, any other keeps it.
LEMMA SaveOnKeeps == ASSUME Rain!RainAssumption, RainInv, Rain!SaveOn PROVE RainInv'
<1>1. PICK schedule \in Schedules \union {Off}, acked \in BOOLEAN :
        /\ config' = [enabled |-> TRUE, schedule |-> schedule]
        /\ stored' \in {Rain!KeptDay(schedule), stored}
        /\ lapse' = (lapse \/ stored' # Rain!KeptDay(schedule))
        /\ sensor' = Rain!Commanded(Rain!Started(schedule), acked)
        /\ fresh' = (schedule # Off /\ (fresh \/ schedule # config.schedule \/ Rain!Moved(schedule)))
        /\ resets' = IF schedule = config.schedule /\ ~Rain!Moved(schedule) THEN resets ELSE {}
  BY DEF Rain!SaveOn
<1>2. UNCHANGED day /\ lapse' \in BOOLEAN BY <1>1 DEF Rain!SaveOn, RainInv
<1>3. sensor' \in Sensors /\ sensor'.schedule = schedule /\ sensor'.cached = Rain!NoDay
  <2> DEFINE s == Rain!Started(schedule)
  <2>1. s \in Sensors /\ s.schedule = schedule /\ s.cached = Rain!NoDay
    BY SensorTypes DEF Rain!Started
  <2>2. sensor' = Rain!Listened(s, acked) BY <1>1 DEF Rain!Commanded
  <2> HIDE DEF s
  <2> QED BY <2>1, <2>2, ListenedKeeps
<1>4. config' \in RainConfigs /\ config'.schedule = schedule BY <1>1 DEF RainConfigs
<1>5. stored' \in Int /\ resets' \in SUBSET Int /\ fresh' \in BOOLEAN
  BY <1>1 DEF RainInv, Rain!KeptDay, Rain!NoDay
<1>6. ASSUME ~lapse' PROVE DaysAgree'
  <2>1. DaysAgree /\ stored' = Rain!KeptDay(schedule) BY <1>1, <1>6 DEF RainInv
  <2>2. \A d \in resets' : d <= stored'
    BY <1>1, <2>1 DEF DaysAgree, Rain!KeptDay
  <2>3. fresh' => stored' = Rain!NoDay
    BY <1>1, <2>1 DEF DaysAgree, Rain!KeptDay, Rain!Moved
  <2> QED BY <1>3, <1>4, <2>2, <2>3 DEF DaysAgree
<1> QED BY <1>2, <1>3, <1>4, <1>5, <1>6 DEF RainInv

\* A restart starts the sensor with the saved schedule, or doesn't.
LEMMA RainRestartKeeps == ASSUME Rain!RainAssumption, RainInv, Rain!Restart PROVE RainInv'
<1>1. UNCHANGED <<config, stored, day, resets, fresh, lapse>> BY DEF Rain!Restart
<1>2. config.schedule \in Schedules \union {Off} BY DEF RainInv, RainConfigs
<1>3. /\ sensor' \in Sensors /\ sensor'.schedule \in {Off, config.schedule}
      /\ sensor'.cached = Rain!NoDay
  <2>1. CASE config.enabled
    <3>1. PICK acked, heard : sensor' =
            Rain!Listened(Rain!Commanded(Rain!Started(config.schedule), acked), heard)
      BY <2>1 DEF Rain!Restart, Rain!Begin
    <3> DEFINE s == Rain!Started(config.schedule)
    <3>2. s \in Sensors /\ s.schedule = config.schedule /\ s.cached = Rain!NoDay
      BY <1>2, SensorTypes DEF Rain!Started
    <3> HIDE DEF s
    <3>3. Rain!Commanded(s, acked) = Rain!Listened(s, acked) BY DEF Rain!Commanded
    <3>4. sensor' = Rain!Listened(Rain!Commanded(s, acked), heard) BY <3>1 DEF s
    <3> QED BY <3>2, <3>3, <3>4, ListenedKeeps
  <2>2. CASE ~config.enabled
    BY <2>2, SensorTypes DEF Rain!Restart, Rain!Begin
  <2> QED BY <2>1, <2>2
<1> QED BY <1>1, <1>3 DEF RainInv, DaysAgree

\* A poll, a test or a reboot of the sensor, and time.
LEMMA ListeningKeeps ==
    ASSUME Rain!RainAssumption, RainInv,
           Rain!PollEnds \/ Rain!TestCommunication \/ Rain!RebootSensor \/ Rain!Tick
    PROVE  RainInv'
<1>1. sensor \in Sensors BY DEF RainInv
<1>2. CASE Rain!PollEnds
  <2>1. PICK heard : sensor' = Rain!Listened(sensor, heard) BY <1>2 DEF Rain!PollEnds
  <2> QED BY <1>1, <1>2, <2>1, ListenedKeeps, SensorHeard DEF Rain!PollEnds
<1>3. CASE Rain!TestCommunication
  <2>1. PICK acked, heard : sensor' = Rain!Listened(Rain!Listened(sensor, acked), heard)
    BY <1>3 DEF Rain!TestCommunication, Rain!Commanded
  <2> QED BY <1>1, <1>3, <2>1, ListenedKeeps, SensorHeard DEF Rain!TestCommunication
<1>4. CASE Rain!RebootSensor
  BY <1>1, <1>4, SensorHeard DEF Rain!RebootSensor, Sensors
<1>5. CASE Rain!Tick
  <2>1. Rain!Capped(sensor.heard + 1, Stale) \in Int
    BY <1>1 DEF Rain!Capped, Sensors, Rain!RainAssumption
  <2> QED BY <1>1, <1>5, <2>1, SensorHeard DEF Rain!Tick, Sensors
<1> QED BY <1>2, <1>3, <1>4, <1>5

\* A device starts with no day stored.
LEMMA RainInit == ASSUME Rain!RainAssumption, Rain!Init PROVE RainInv
<1>1. config \in RainConfigs BY DEF Rain!Init, RainConfigs
<1>2. /\ sensor \in Sensors /\ sensor.schedule \in {Off, config.schedule}
      /\ sensor.cached = Rain!NoDay
  <2>1. config.schedule \in Schedules \union {Off} BY <1>1 DEF RainConfigs
  <2>2. Rain!Started(config.schedule).schedule = config.schedule
        /\ Rain!Started(config.schedule).cached = Rain!NoDay
    BY DEF Rain!Started
  <2> QED BY <2>1, <2>2, SensorTypes DEF Rain!Init
<1>3. stored = Rain!NoDay /\ day = Rain!NoDay /\ resets = {} /\ ~lapse /\ fresh \in BOOLEAN
  BY DEF Rain!Init
<1>4. stored \in Int /\ resets \in SUBSET Int /\ lapse \in BOOLEAN
  <2>1. lapse = FALSE BY DEF Rain!Init
  <2>2. lapse \in BOOLEAN BY <2>1, Zenon
  <2>3. stored \in Int /\ resets \in SUBSET Int BY <1>3 DEF Rain!NoDay
  <2> QED BY <2>2, <2>3
<1>5. DaysAgree BY <1>2, <1>3 DEF DaysAgree
<1> QED BY <1>1, <1>2, <1>3, <1>4, <1>5 DEF RainInv

\* No step lets the two memories of the last reset part, but for a lapse.
LEMMA RainStep ==
    ASSUME Rain!RainAssumption, RainInv, Rain!Next \/ UNCHANGED rainVars PROVE RainInv'
<1>1. CASE Rain!Update BY <1>1, RainUpdateKeeps
<1>2. CASE Rain!SaveOff BY <1>2, SaveOffKeeps
<1>3. CASE Rain!SaveOn BY <1>3, SaveOnKeeps
<1>4. CASE Rain!Restart BY <1>4, RainRestartKeeps
<1>5. CASE Rain!PollEnds \/ Rain!TestCommunication \/ Rain!RebootSensor \/ Rain!Tick
  BY <1>5, ListeningKeeps
<1>6. CASE Rain!NewDay
  BY <1>6 DEF Rain!NewDay, RainInv, DaysAgree, Rain!NoDay
<1>7. CASE Rain!NotDue \/ Rain!UpdateOff \/ UNCHANGED rainVars
  BY <1>7 DEF Rain!NotDue, Rain!UpdateOff, rainVars, RainInv, DaysAgree
<1> QED BY <1>1, <1>2, <1>3, <1>4, <1>5, <1>6, <1>7 DEF Rain!Next

\* A reset due is of a day later than any before it.
LEMMA ResetIsDue ==
    ASSUME RainInv, ~lapse, Rain!Decision = "reset" PROVE day \notin resets /\ ~fresh
<1>1. DaysAgree BY DEF RainInv
<1>2. /\ day > Rain!LastResetDay /\ Rain!LastResetDay # Rain!NoDay
      /\ Rain!LastResetDay = stored
  BY <1>1 DEF Rain!Decision, Rain!LastResetDay, DaysAgree
<1> QED BY <1>1, <1>2 DEF DaysAgree, RainInv, Rain!NoDay

-----------------------------------------------------------------------------
(* The fuel gauge, however long its intervals and often the pack is swapped  *)

Decoders == [started : BOOLEAN, estimatingFor : Int, rateFor : Int, rated : SUBSET Int]
GaugeReadings == [status : {"notInitialized", "readError", "ok"}, pack : Int, estimating : BOOLEAN,
             rateValid : BOOLEAN, rated : SUBSET Int]

GaugeTypeOK == pack \in Int /\ packs \in Nat /\ decoder \in Decoders /\ gaugeReading \in GaugeReadings

\* A decoder d that averages a rate averages that of the pack fitted, unless
\* the gauge is about to say that it was reset.
RatesThePack(d) == ~resetBit /\ pack # Gauge!NoPack /\ d.rateFor # Gauge!Never => d.rated = {pack}

RateIsOfOnePack == gaugeReading.rateValid => gaugeReading.rated = {gaugeReading.pack}

GaugeInv == GaugeTypeOK /\ RatesThePack(decoder) /\ RateIsOfOnePack

-----------------------------------------------------------------------------
\* Time alone starts no average.
LEMMA LaterIsAnInt == \A since, limit \in Int :
    Gauge!Later(since, limit) \in Int /\ (Gauge!Later(since, limit) # Gauge!Never => since # Gauge!Never)
BY DEF Gauge!Later, Gauge!Capped, Gauge!Never

\* What restarting, the clock and an average make of a decoder is one.
LEMMA Restarts ==
    ASSUME NEW d \in Decoders, NEW s \in BOOLEAN, NEW n \in Int, NEW m \in Int
    PROVE  [d EXCEPT !.started = s, !.estimatingFor = n, !.rateFor = m] \in Decoders
BY DEF Decoders

LEMMA ClockRuns ==
    ASSUME NEW d \in Decoders, NEW n \in Int, NEW m \in Int
    PROVE  [d EXCEPT !.estimatingFor = n, !.rateFor = m] \in Decoders
BY DEF Decoders

LEMMA Averages ==
    ASSUME NEW d \in Decoders, NEW m \in Int, NEW r \in SUBSET Int
    PROVE  [d EXCEPT !.rateFor = m, !.rated = r] \in Decoders
BY DEF Decoders

\* A decoder that restarts on a reset averages the pack fitted from then on.
LEMMA AfreshRates ==
    ASSUME GaugeTypeOK, pack # Gauge!NoPack, NEW d \in Decoders, RatesThePack(d)
    PROVE  /\ Gauge!Updated(Gauge!Afresh(d)) \in Decoders
           /\ Gauge!Updated(Gauge!Afresh(d)).rateFor # Gauge!Never
                => Gauge!Updated(Gauge!Afresh(d)).rated = {pack}
<1>1. 0 \in Int /\ Gauge!Never \in Int /\ {pack} \in SUBSET Int /\ TRUE \in BOOLEAN
  BY DEF Gauge!Never, GaugeTypeOK
<1>2. PICK e : e = Gauge!Afresh(d) OBVIOUS
<1>3. e \in Decoders /\ (e.rateFor # Gauge!Never => e.rated = {pack})
  <2>1. CASE ~d.started \/ resetBit
    <3>1. e = [d EXCEPT !.started = TRUE, !.estimatingFor = 0, !.rateFor = Gauge!Never]
      BY <1>2, <2>1 DEF Gauge!Afresh
    <3>2. e.rateFor = Gauge!Never BY <3>1 DEF Decoders
    <3>3. e \in Decoders BY <1>1, <3>1, Restarts, Zenon
    <3> QED BY <3>2, <3>3
  <2>2. CASE d.started /\ ~resetBit
    BY <1>2, <2>2 DEF Gauge!Afresh, RatesThePack
  <2> QED BY <2>1, <2>2 DEF Decoders
<1>4. /\ Gauge!Updated(e) \in Decoders
      /\ Gauge!Updated(e).rateFor # Gauge!Never => Gauge!Updated(e).rated = {pack}
  <2>1. CASE Gauge!Estimating(e)
    <3>1. Gauge!Updated(e) = [e EXCEPT !.rateFor = Gauge!Never] BY <2>1 DEF Gauge!Updated
    <3> QED BY <1>3, <3>1 DEF Decoders, Gauge!Never
  <2>2. CASE ~Gauge!Estimating(e) /\ e.rateFor = Gauge!Never
    <3>1. Gauge!Updated(e) = [e EXCEPT !.rateFor = 0, !.rated = {pack}] BY <2>2 DEF Gauge!Updated
    <3>2. Gauge!Updated(e).rated = {pack} BY <1>3, <3>1 DEF Decoders
    <3>3. [e EXCEPT !.rateFor = 0, !.rated = {pack}] \in Decoders BY <1>1, <1>3, Averages, Zenon
    <3>4. Gauge!Updated(e) \in Decoders BY <3>1, <3>3, Zenon
    <3> QED BY <3>2, <3>4
  <2>3. CASE ~Gauge!Estimating(e) /\ e.rateFor # Gauge!Never
    <3>1. Gauge!Updated(e) = [e EXCEPT !.rated = @ \union {pack}] BY <2>3 DEF Gauge!Updated
    <3>2. e.rated \union {pack} = {pack} BY <1>3, <2>3
    <3> QED BY <1>3, <3>1, <3>2 DEF Decoders, GaugeTypeOK
  <2> QED BY <2>1, <2>2, <2>3
<1> QED BY <1>2, <1>4

\* Reading the gauge keeps the numbers of one pack.
LEMMA ReadGaugeKeeps ==
    ASSUME Gauge!GaugeAssumption, GaugeTypeOK, pack # Gauge!NoPack, NEW d \in Decoders, RatesThePack(d),
           Gauge!ReadGauge(d), UNCHANGED <<pack, packs>>
    PROVE  GaugeInv'
<1> DEFINE next == Gauge!Updated(Gauge!Afresh(d))
<1>1. next \in Decoders /\ (next.rateFor # Gauge!Never => next.rated = {pack})
  BY AfreshRates
<1> HIDE DEF next
<1>2. /\ decoder' = next
      /\ gaugeReading' = [status |-> "ok", pack |-> pack, estimating |-> Gauge!Estimating(next),
                     rateValid |-> ~Gauge!Estimating(next) /\ next.rateFor >= RateAfter, rated |-> next.rated]
  BY DEF Gauge!ReadGauge, next
<1>3. Gauge!Estimating(next) \in BOOLEAN
  BY DEF Gauge!Estimating
<1>4. next.rateFor >= RateAfter => next.rateFor # Gauge!Never
  BY <1>1 DEF Gauge!GaugeAssumption, Gauge!Never, Decoders
<1>5. gaugeReading' \in GaugeReadings /\ RateIsOfOnePack'
  BY <1>1, <1>2, <1>3, <1>4 DEF GaugeReadings, RateIsOfOnePack, GaugeTypeOK, Decoders
<1> QED BY <1>1, <1>2, <1>5 DEF GaugeInv, GaugeTypeOK, RatesThePack

\* A step that takes no reading: the decoder and the reset bit stand, and of
\* the reading only the status changes, or it is none.
LEMMA NoReadingKeeps ==
    ASSUME GaugeInv, NEW d \in Decoders, RatesThePack(d), decoder' = d,
           UNCHANGED <<pack, packs, resetBit>>,
           \/ UNCHANGED gaugeReading
           \/ gaugeReading' = Gauge!NoReading
           \/ gaugeReading' = [gaugeReading EXCEPT !.status = "readError"]
           \/ gaugeReading' = [gaugeReading EXCEPT !.status = "notInitialized"]
    PROVE  GaugeInv'
<1>1. gaugeReading \in GaugeReadings /\ RateIsOfOnePack
  BY DEF GaugeInv, GaugeTypeOK
<1>2. gaugeReading' \in GaugeReadings /\ RateIsOfOnePack'
  <2>1. CASE gaugeReading' = gaugeReading
    BY <1>1, <2>1 DEF RateIsOfOnePack
  <2>2. CASE gaugeReading' = Gauge!NoReading
    BY <2>2 DEF Gauge!NoReading, Gauge!NoPack, GaugeReadings, RateIsOfOnePack
  <2>3. CASE gaugeReading' = [gaugeReading EXCEPT !.status = "readError"]
    BY <1>1, <2>3 DEF GaugeReadings, RateIsOfOnePack
  <2>4. CASE gaugeReading' = [gaugeReading EXCEPT !.status = "notInitialized"]
    BY <1>1, <2>4 DEF GaugeReadings, RateIsOfOnePack
  <2> QED BY <2>1, <2>2, <2>3, <2>4
<1> QED BY <1>2 DEF GaugeInv, GaugeTypeOK, RatesThePack

\* A tick: monitored or not, found or searched for.
LEMMA TickKeeps == ASSUME Gauge!GaugeAssumption, GaugeInv, Gauge!Tick PROVE GaugeInv'
<1> DEFINE d == [decoder EXCEPT !.estimatingFor = Gauge!Capped(@ + 1, EstimateFor),
                                !.rateFor = Gauge!Later(@, RateAfter)]
<1>1. d \in Decoders /\ RatesThePack(d)
  <2>1. Gauge!Later(decoder.rateFor, RateAfter) \in Int
        /\ (Gauge!Later(decoder.rateFor, RateAfter) # Gauge!Never => decoder.rateFor # Gauge!Never)
    BY LaterIsAnInt DEF GaugeInv, GaugeTypeOK, Decoders, Gauge!GaugeAssumption
  <2>2. Gauge!Capped(decoder.estimatingFor + 1, EstimateFor) \in Int
    BY DEF Gauge!Capped, GaugeInv, GaugeTypeOK, Decoders, Gauge!GaugeAssumption
  <2>3. decoder \in Decoders BY DEF GaugeInv, GaugeTypeOK
  <2>4. d \in Decoders BY <2>1, <2>2, <2>3, ClockRuns
  <2>5. d.rateFor = Gauge!Later(decoder.rateFor, RateAfter) /\ d.rated = decoder.rated
    BY <2>3 DEF Decoders
  <2> QED BY <2>1, <2>4, <2>5 DEF GaugeInv, RatesThePack
<1> HIDE DEF d
<1>2. UNCHANGED <<pack, packs>> BY DEF Gauge!Tick
<1>3. CASE ~enabled'
  BY <1>1, <1>2, <1>3, NoReadingKeeps DEF Gauge!Tick, d
<1>4. CASE enabled' /\ initialized
  <2>1. Gauge!Read(d, Gauge!Later(gaugeSinceRead, ReadEvery)) BY <1>4 DEF Gauge!Tick, d
  <2>2. CASE pack # Gauge!NoPack /\ Gauge!ReadDue(Gauge!Later(gaugeSinceRead, ReadEvery))
    <3>1. Gauge!ReadGauge(d) BY <2>1, <2>2 DEF Gauge!Read
    <3> QED BY <1>1, <1>2, <2>2, <3>1, ReadGaugeKeeps DEF GaugeInv
  <2>3. CASE ~(pack # Gauge!NoPack /\ Gauge!ReadDue(Gauge!Later(gaugeSinceRead, ReadEvery)))
    BY <1>1, <1>2, <2>1, <2>3, NoReadingKeeps DEF Gauge!Read, Gauge!Missed
  <2> QED BY <2>2, <2>3
<1>5. CASE enabled' /\ ~initialized
  <2>1. Gauge!Search(d) BY <1>5 DEF Gauge!Tick, d
  <2>2. CASE pack # Gauge!NoPack /\ ~(sinceSearch # Gauge!Never /\ sinceSearch < RedetectEvery)
    <3> DEFINE e == [d EXCEPT !.started = FALSE]
    <3>1. Gauge!ReadGauge(e) BY <2>1, <2>2 DEF Gauge!Search
    <3>2. e \in Decoders /\ RatesThePack(e) BY <1>1 DEF Decoders, RatesThePack
    <3> HIDE DEF e
    <3> QED BY <1>2, <2>2, <3>1, <3>2, ReadGaugeKeeps DEF GaugeInv
  <2>3. CASE ~(pack # Gauge!NoPack /\ ~(sinceSearch # Gauge!Never /\ sinceSearch < RedetectEvery))
    BY <1>1, <1>2, <2>1, <2>3, NoReadingKeeps DEF Gauge!Search
  <2> QED BY <2>2, <2>3
<1> QED BY <1>3, <1>4, <1>5 DEF Gauge!Tick

-----------------------------------------------------------------------------
\* A device starts with nothing averaged.
LEMMA GaugeInit == Gauge!Init => GaugeInv
BY DEF Gauge!Init, GaugeInv, GaugeTypeOK, Decoders, GaugeReadings, Gauge!NewDecoder, Gauge!NoReading,
       Gauge!NoPack, Gauge!Never, RatesThePack, RateIsOfOnePack

\* No step mixes packs.
LEMMA GaugeStep ==
    ASSUME Gauge!GaugeAssumption, GaugeInv, Gauge!Next \/ UNCHANGED gaugeVars PROVE GaugeInv'
<1>1. CASE Gauge!Tick BY <1>1, TickKeeps
<1>2. CASE Gauge!TakeOut
  BY <1>2 DEF Gauge!TakeOut, GaugeInv, GaugeTypeOK, RatesThePack, RateIsOfOnePack, Gauge!NoPack
<1>3. CASE Gauge!PutIn
  BY <1>3 DEF Gauge!PutIn, GaugeInv, GaugeTypeOK, RatesThePack, RateIsOfOnePack
<1>4. CASE Gauge!Settles \/ Gauge!Save
  BY <1>4 DEF Gauge!Settles, Gauge!Save, GaugeInv, GaugeTypeOK, RatesThePack, RateIsOfOnePack
<1>5. CASE UNCHANGED gaugeVars
  BY <1>5 DEF gaugeVars, GaugeInv, GaugeTypeOK, RatesThePack, RateIsOfOnePack
<1> QED BY <1>1, <1>2, <1>3, <1>4, <1>5 DEF Gauge!Next

-----------------------------------------------------------------------------
(* What is said of the readings                                             *)

Ages == {Observing!Never} \union 0..Observing!Longest
Records == [ready : BOOLEAN, status : {"none", "ok", "error"}, age : Ages]
RainRecords == [ready : BOOLEAN, online : BOOLEAN, status : {"none", "ok", "timeout", "invalid"},
                stale : BOOLEAN, read : BOOLEAN, heard : Ages, polled : Ages, lensBad : BOOLEAN]
Everything == [bus : [BusSensors -> Records], rain : RainRecords, wind : Records, vaneMisses : Int, taken : Ages]

\* The RG-15 says of itself that it is fine for RainStale seconds after its last
\* response: in a snapshot that is longer ago by the snapshot's age, and no more.
RainIsRecent(all) ==
    Observing!RainFine(all.rain) =>
        /\ all.rain.ready
        /\ all.rain.heard # Observing!Never /\ all.taken # Observing!Never
        /\ all.rain.heard <= RainStale + all.taken

SaidInv ==
    /\ drivers \in Everything /\ snapshot \in Everything
    /\ RainIsRecent(snapshot)

LEMMA AgesTypes == ASSUME Observing!ConditionsAssumption
    PROVE Observing!Longest \in Nat /\ 0 \in Ages /\ Observing!Never \in Ages /\ RainStale \in Nat
<1> DEFINE ages == {Observing!StaleAfter, WindStale, RainStale, PollInterval, VerdictStale}
<1>1. ages \subseteq Nat
  BY DEF Observing!ConditionsAssumption, Observing!StaleAfter
<1>2. \E a \in ages : \A b \in ages : b <= a
  <2>1. ASSUME NEW p \in Int, NEW q \in Int, NEW r \in Int, NEW s \in Int, NEW t \in Int
        PROVE  \E a \in {p, q, r, s, t} : \A b \in {p, q, r, s, t} : b <= a
    <3>1. PICK x \in {p, q} : p <= x /\ q <= x OBVIOUS
    <3>2. PICK y \in {r, s} : r <= y /\ s <= y OBVIOUS
    <3>3. PICK z \in {x, y} : x <= z /\ y <= z OBVIOUS
    <3>4. PICK w \in {z, t} : z <= w /\ t <= w OBVIOUS
    <3> QED BY <3>1, <3>2, <3>3, <3>4
  <2> QED BY <1>1, <2>1
<1>3. Observing!Oldest(ages) \in ages
  BY <1>2 DEF Observing!Oldest
<1>4. Observing!Longest \in Nat /\ RainStale \in Nat
  BY <1>1, <1>3 DEF Observing!Longest
<1> QED BY <1>4 DEF Ages

LEMMA LaterAge ==
    ASSUME Observing!ConditionsAssumption, NEW a \in Ages, NEW b \in Ages
    PROVE  /\ Observing!Later(a) \in Ages
           /\ (a = Observing!Never) <=> (Observing!Later(a) = Observing!Never)
           /\ a # Observing!Never /\ b # Observing!Never /\ a <= RainStale + b
                => Observing!Later(a) <= RainStale + Observing!Later(b)
  BY AgesTypes DEF Observing!Later, Observing!Never, Ages

\* Time goes on: what was recent is.
LEMMA AgedKeeps ==
    ASSUME Observing!ConditionsAssumption, NEW all \in Everything
    PROVE  /\ Observing!AllAged(all) \in Everything
           /\ RainIsRecent(all) => RainIsRecent(Observing!AllAged(all))
<1>1. ASSUME NEW r \in Records PROVE Observing!Aged(r) \in Records
  <2>1. Observing!Aged(r) = [r EXCEPT !.age = Observing!Later(r.age)]
    BY DEF Observing!Aged, Records
  <2>2. Observing!Later(r.age) \in Ages BY LaterAge DEF Records
  <2> QED BY <2>1, <2>2 DEF Records
<1>2. ASSUME NEW r \in RainRecords
      PROVE  /\ Observing!RainAged(r) \in RainRecords
             /\ Observing!RainAged(r).heard = Observing!Later(r.heard)
             /\ Observing!RainAged(r).ready = r.ready
             /\ Observing!RainFine(Observing!RainAged(r)) = Observing!RainFine(r)
  <2> DEFINE heard == Observing!Later(r.heard)
             polled == Observing!Later(r.polled)
  <2>1. Observing!RainAged(r) = [r EXCEPT !.heard = heard, !.polled = polled]
    BY DEF Observing!RainAged, RainRecords
  <2>2. heard \in Ages /\ polled \in Ages BY LaterAge DEF RainRecords
  <2>3. heard = Observing!Later(r.heard) OBVIOUS
  <2> HIDE DEF heard, polled
  <2> QED BY <2>1, <2>2, <2>3 DEF RainRecords, Observing!RainFine
<1> DEFINE bus   == [s \in BusSensors |-> Observing!Aged(all.bus[s])]
           rain  == Observing!RainAged(all.rain)
           wind  == Observing!Aged(all.wind)
           taken == Observing!Later(all.taken)
<1>3. bus \in [BusSensors -> Records] /\ rain \in RainRecords /\ wind \in Records /\ taken \in Ages
  BY <1>1, <1>2, LaterAge DEF Everything
<1>4. Observing!AllAged(all) = [all EXCEPT !.bus = bus, !.rain = rain, !.wind = wind, !.taken = taken]
  BY DEF Observing!AllAged, Everything
<1>5. /\ rain.ready = all.rain.ready /\ rain.heard = Observing!Later(all.rain.heard)
      /\ Observing!RainFine(rain) = Observing!RainFine(all.rain)
  BY <1>2 DEF Everything
<1>6. taken = Observing!Later(all.taken) OBVIOUS
<1> HIDE DEF bus, rain, wind, taken
<1>7. /\ Observing!AllAged(all) \in Everything
      /\ Observing!AllAged(all).rain = rain /\ Observing!AllAged(all).taken = taken
  BY <1>3, <1>4 DEF Everything
<1>8. all.rain.heard \in Ages /\ all.taken \in Ages
  BY DEF Everything, RainRecords
<1> QED BY <1>5, <1>6, <1>7, <1>8, LaterAge DEF RainIsRecent

\* What an answer of the RG-15, or none, makes of its record.
LEMMA AnswersKeep ==
    ASSUME Observing!ConditionsAssumption, NEW r \in RainRecords
    PROVE  /\ Observing!Heard(r) \in RainRecords /\ Observing!Heard(r).ready = r.ready
           /\ Observing!TimedOut(r) \in RainRecords /\ ~Observing!RainFine(Observing!TimedOut(r))
           /\ Observing!Parsed(r) \in RainRecords
           /\ Observing!Parsed(r).ready = r.ready /\ Observing!Parsed(r).heard = 0
<1>1. Observing!Heard(r) \in RainRecords /\ Observing!Heard(r).ready = r.ready /\ Observing!Heard(r).heard = 0
  BY AgesTypes DEF Observing!Heard, RainRecords
<1>2. Observing!TimedOut(r) \in RainRecords /\ ~Observing!RainFine(Observing!TimedOut(r))
  BY DEF Observing!TimedOut, Observing!RainFine, RainRecords
<1> DEFINE heard == Observing!Heard(r)
           bad == "lens" \notin working
<1>3. Observing!Parsed(r) = [heard EXCEPT !.status = "ok", !.stale = FALSE, !.read = TRUE, !.lensBad = bad]
  BY DEF Observing!Parsed
<1>4. bad \in BOOLEAN OBVIOUS
<1> HIDE DEF heard, bad
<1>5. heard \in RainRecords /\ heard.ready = r.ready /\ heard.heard = 0
  BY <1>1 DEF heard
<1>6. /\ Observing!Parsed(r) \in RainRecords
      /\ Observing!Parsed(r).ready = r.ready /\ Observing!Parsed(r).heard = 0
  BY <1>3, <1>4, <1>5 DEF RainRecords
<1> QED BY <1>1, <1>2, <1>6

\* What is left when no reading came: fine only if it was fine, and recent.
LEMMA JudgedKeeps ==
    ASSUME Observing!ConditionsAssumption, NEW r \in RainRecords
    PROVE  /\ Observing!Judged(r) \in RainRecords
           /\ Observing!RainFine(Observing!Judged(r)) =>
                /\ Observing!Judged(r) = r /\ r.status = "ok"
                /\ r.heard # Observing!Never /\ r.heard <= RainStale
<1> DEFINE old == ~r.read \/ r.heard = Observing!Never \/ r.heard > RainStale
           young == r.read /\ r.heard # Observing!Never /\ r.heard <= RainStale /\ r.status # "ok"
<1>1. r.read \in BOOLEAN /\ r.heard \in Int /\ RainStale \in Int
  BY AgesTypes DEF RainRecords, Ages, Observing!Never
<1>2. CASE old
  <2>1. Observing!Judged(r) = Observing!TimedOut(r) BY <1>1, <1>2 DEF Observing!Judged
  <2> QED BY <2>1, AnswersKeep
<1>3. CASE ~old /\ young
  <2>1. Observing!Judged(r) = [r EXCEPT !.stale = FALSE]
    BY <1>3 DEF Observing!Judged
  <2>2. Observing!Judged(r) \in RainRecords /\ Observing!Judged(r).status # "ok"
    BY <1>3, <2>1 DEF RainRecords
  <2> QED BY <2>2 DEF Observing!RainFine
<1>4. CASE ~old /\ ~young
  <2>1. Observing!Judged(r) = r BY <1>4 DEF Observing!Judged
  <2>2. r.heard # Observing!Never /\ r.heard <= RainStale BY <1>1, <1>4
  <2> QED BY <2>1, <2>2 DEF Observing!RainFine
<1> QED BY <1>2, <1>3, <1>4

\* A read of the RG-15: when it says that it is fine, it was heard within its limit.
LEMMA RainReadsKeep ==
    ASSUME Observing!ConditionsAssumption, NEW r \in RainRecords, NEW o \in Observing!RainReads(r)
    PROVE  /\ o \in RainRecords
           /\ Observing!RainFine(o) =>
                o.ready /\ o.heard # Observing!Never /\ o.heard <= RainStale
<1> DEFINE asked == [r EXCEPT !.polled = 0]
<1>1. asked \in RainRecords /\ asked.ready = r.ready
  BY AgesTypes DEF RainRecords
<1>2. 0 <= RainStale /\ 0 # Observing!Never BY AgesTypes DEF Observing!Never
<1> HIDE DEF asked
<1>3. CASE ~r.ready
  <2>1. o = [r EXCEPT !.status = "none", !.online = FALSE, !.stale = FALSE]
    BY <1>3 DEF Observing!RainReads
  <2>2. o \in RainRecords /\ o.status = "none" BY <2>1 DEF RainRecords
  <2> QED BY <2>2 DEF Observing!RainFine
<1>4. CASE r.ready /\ ~Observing!PollDue(r)
  <2>1. o = Observing!Judged(r) BY <1>4 DEF Observing!RainReads
  <2> QED BY <1>4, <2>1, JudgedKeeps
<1>5. CASE r.ready /\ Observing!PollDue(r) /\ "rain" \in working
  <2>1. o = Observing!Parsed(asked) BY <1>5 DEF Observing!RainReads, asked
  <2> QED BY <1>1, <1>2, <1>5, <2>1, AnswersKeep
<1>6. CASE r.ready /\ Observing!PollDue(r) /\ "rain" \notin working
  <2>1. o \in {Observing!TimedOut(Observing!Heard(asked)), Observing!Judged(Observing!TimedOut(asked))}
    BY <1>6 DEF Observing!RainReads, asked
  <2>2. Observing!TimedOut(Observing!Heard(asked)) \in RainRecords
        /\ ~Observing!RainFine(Observing!TimedOut(Observing!Heard(asked)))
    BY <1>1, AnswersKeep
  <2>3. Observing!TimedOut(asked) \in RainRecords /\ ~Observing!RainFine(Observing!TimedOut(asked))
    BY <1>1, AnswersKeep
  <2>4. Observing!Judged(Observing!TimedOut(asked)) \in RainRecords
        /\ ~Observing!RainFine(Observing!Judged(Observing!TimedOut(asked)))
    BY <2>3, JudgedKeeps
  <2> QED BY <2>1, <2>2, <2>4
<1> QED BY <1>3, <1>4, <1>5, <1>6

LEMMA ReadKeeps ==
    ASSUME Observing!ConditionsAssumption, NEW r \in Records, NEW answers \in BOOLEAN
    PROVE  Observing!Read(r, answers) \in Records
<1>1. [r EXCEPT !.status = "none"] \in Records BY DEF Records
<1>2. [r EXCEPT !.status = "ok", !.age = 0] \in Records BY AgesTypes DEF Records
<1>3. [r EXCEPT !.status = "error"] \in Records BY DEF Records
<1> QED BY <1>1, <1>2, <1>3 DEF Observing!Read

LEMMA Beginnings == ASSUME Observing!ConditionsAssumption
    PROVE /\ Observing!NotBegun \in Records /\ Observing!Begun \in Records
          /\ [Observing!Begun EXCEPT !.status = "ok"] \in Records
          /\ Observing!NoRain \in RainRecords /\ Observing!RainStarted \in RainRecords
          /\ ~Observing!RainFine(Observing!NoRain)
<1>1. /\ Observing!NotBegun \in Records /\ Observing!Begun \in Records
      /\ [Observing!Begun EXCEPT !.status = "ok"] \in Records
  BY AgesTypes DEF Observing!NotBegun, Observing!Begun, Records
<1>2. Observing!NoRain \in RainRecords /\ ~Observing!RainFine(Observing!NoRain)
  BY AgesTypes DEF Observing!NoRain, RainRecords, Observing!RainFine
<1>3. Observing!RainStarted \in RainRecords
  BY <1>2 DEF Observing!RainStarted, RainRecords
<1> QED BY <1>1, <1>2, <1>3

\* What commands and a poll may come to are readings of the RG-15.
LEMMA CommandsKeep ==
    ASSUME Observing!ConditionsAssumption, NEW r \in RainRecords
    PROVE  /\ Observing!Commanded(r) \subseteq RainRecords
           /\ UNION {Observing!Polled(c) : c \in Observing!Commanded(r)} \subseteq RainRecords
<1>1. Observing!Commanded(r) \subseteq RainRecords
  BY AnswersKeep DEF Observing!Commanded
<1>2. ASSUME NEW c \in RainRecords PROVE Observing!Polled(c) \subseteq RainRecords
  <2> DEFINE heard == Observing!Heard(c)
  <2>1. heard \in RainRecords BY AnswersKeep
  <2> HIDE DEF heard
  <2>2. [heard EXCEPT !.stale = FALSE] \in RainRecords
        /\ [heard EXCEPT !.status = "invalid", !.stale = TRUE] \in RainRecords
    BY <2>1 DEF RainRecords
  <2> QED BY <2>2, AnswersKeep DEF Observing!Polled, heard
<1> QED BY <1>1, <1>2

\* One pass of the loop: what it reads is as recent as the snapshot it takes.
LEMMA SaidPassKeeps ==
    ASSUME Observing!ConditionsAssumption, SaidInv, NEW had \in BOOLEAN, Observing!Pass(had)
    PROVE  SaidInv'
<1> DEFINE aged   == Observing!AllAged(drivers)
           missed == Observing!Misses(aged.vaneMisses)
           blown  == Observing!WindRead(aged.wind)
           wind   == [aged EXCEPT !.wind = blown, !.vaneMisses = missed]
           bus    == [s \in BusSensors |-> Observing!BusRead(s, wind.bus[s])]
<1>1. aged \in Everything BY AgedKeeps DEF SaidInv
<1> HIDE DEF aged
<1>2. missed \in Int /\ blown \in Records
  <2>1. missed \in Int
    BY <1>1 DEF Observing!Misses, Everything, Observing!ConditionsAssumption
  <2>2. aged.wind \in Records BY <1>1 DEF Everything
  <2>3. [aged.wind EXCEPT !.status = "ok", !.age = 0] \in Records BY <2>2, AgesTypes DEF Records
  <2>4. [aged.wind EXCEPT !.status = "none"] \in Records BY <2>2 DEF Records
  <2> QED BY <2>1, <2>3, <2>4 DEF Observing!WindRead
<1>3. [Observing!AllAged(drivers) EXCEPT !.wind = Observing!WindRead(@), !.vaneMisses = Observing!Misses(@)]
        = wind
  BY <1>1 DEF aged, Everything
<1> HIDE DEF missed, blown
<1>4. wind \in Everything /\ wind.rain = aged.rain
  BY <1>1, <1>2 DEF Everything
<1>5. /\ drivers' \in IF sinceRead + 1 >= ReadInterval THEN Observing!SlowReads(wind) ELSE {wind}
      /\ IF sinceRead + 1 >= ReadInterval
         THEN Observing!Refresh(had) ELSE snapshot' = Observing!AllAged(snapshot)
  BY <1>3 DEF Observing!Pass
<1> HIDE DEF wind
<1>6. Observing!AllAged(snapshot) \in Everything /\ RainIsRecent(Observing!AllAged(snapshot))
  BY AgedKeeps DEF SaidInv
<1>7. CASE ~(sinceRead + 1 >= ReadInterval)
  BY <1>4, <1>5, <1>6, <1>7 DEF SaidInv
<1>8. CASE sinceRead + 1 >= ReadInterval
  <2>1. bus \in [BusSensors -> Records]
    <3>1. ASSUME NEW s \in BusSensors PROVE Observing!BusRead(s, wind.bus[s]) \in Records
      <4>1. wind.bus[s] \in Records BY <1>4 DEF Everything
      <4>2. (s \in working) \in BOOLEAN OBVIOUS
      <4> QED BY <4>1, <4>2, ReadKeeps, Beginnings DEF Observing!BusRead
    <3> QED BY <3>1
  <2>2. PICK rain \in Observing!RainReads(wind.rain) : drivers' = [wind EXCEPT !.bus = bus, !.rain = rain]
    BY <1>4, <1>5, <1>8 DEF Observing!SlowReads, Everything
  <2>3. /\ rain \in RainRecords
        /\ Observing!RainFine(rain) =>
             rain.ready /\ rain.heard # Observing!Never /\ rain.heard <= RainStale
    BY <1>4, <2>2, RainReadsKeep DEF Everything
  <2> HIDE DEF bus
  <2>4. drivers' \in Everything /\ drivers'.rain = rain
    BY <1>4, <2>1, <2>2, <2>3 DEF Everything
  <2> DEFINE shown == [rain EXCEPT !.polled = Observing!Never]
             next == [drivers' EXCEPT !.taken = 0, !.rain = shown]
  <2>5. /\ shown \in RainRecords /\ shown.ready = rain.ready /\ shown.heard = rain.heard
        /\ Observing!RainFine(shown) = Observing!RainFine(rain)
    BY <2>3, AgesTypes DEF RainRecords, Observing!RainFine
  <2>6. [drivers' EXCEPT !.taken = 0, !.rain.polled = Observing!Never] = next
    BY <2>4 DEF Everything
  <2> HIDE DEF shown
  <2>7. next \in Everything /\ next.rain = shown /\ next.taken = 0
    BY <2>4, <2>5, AgesTypes DEF Everything
  <2>8. CASE had
    <3>1. snapshot' = next BY <1>5, <1>8, <2>6, <2>8 DEF Observing!Refresh
    <3> HIDE DEF next
    <3>2. 0 # Observing!Never /\ RainStale + 0 = RainStale BY AgesTypes DEF Observing!Never
    <3> QED BY <2>3, <2>4, <2>5, <2>7, <3>1, <3>2 DEF SaidInv, RainIsRecent
  <2>9. CASE ~had
    <3>1. snapshot' = Observing!AllAged(snapshot) BY <1>5, <1>8, <2>9 DEF Observing!Refresh
    <3> QED BY <1>6, <2>4, <3>1 DEF SaidInv
  <2> QED BY <2>8, <2>9
<1> QED BY <1>7, <1>8

LEMMA EmptyIsRecent == ASSUME Observing!ConditionsAssumption
    PROVE Observing!Empty \in Everything /\ RainIsRecent(Observing!Empty)
  BY Beginnings, AgesTypes DEF Observing!Empty, Everything, RainIsRecent

\* What a boot may set up are readings.
LEMMA DriversAreReadings ==
    ASSUME Observing!ConditionsAssumption, NEW c PROVE Observing!Drivers(c) \subseteq Everything
<1> DEFINE bus == [s \in BusSensors |-> IF s \in working THEN Observing!Begun ELSE Observing!NotBegun]
           rains == IF c.rain THEN UNION {Observing!Polled(r) : r \in Observing!Commanded(Observing!RainStarted)}
                    ELSE {Observing!NoRain}
           wind == IF c.wind THEN [Observing!Begun EXCEPT !.status = "ok"] ELSE Observing!NotBegun
<1>1. bus \in [BusSensors -> Records] /\ wind \in Records BY Beginnings
<1>2. rains \subseteq RainRecords BY Beginnings, CommandsKeep
<1>3. Observing!Drivers(c) = {[bus |-> bus, rain |-> rain, wind |-> wind,
                               vaneMisses |-> 0, taken |-> Observing!Never] : rain \in rains}
  BY DEF Observing!Drivers
<1> HIDE DEF bus, rains, wind
<1> QED BY <1>1, <1>2, <1>3, AgesTypes DEF Everything

LEMMA SaidStep ==
    ASSUME Observing!ConditionsAssumption, SaidInv, Observing!Next \/ UNCHANGED observingVars
    PROVE  SaidInv'
<1>1. CASE \E had \in BOOLEAN : Observing!Pass(had)
  BY <1>1, SaidPassKeeps
<1>2. CASE Observing!Blocks
  BY <1>2, AgedKeeps DEF SaidInv, Observing!Blocks
<1>3. CASE \E c \in Observing!Saved : Observing!Save(c)
  <2>1. PICK c : Observing!Save(c) BY <1>3
  <2> DEFINE rains == IF c.rain THEN Observing!Commanded(Observing!RainStarted) ELSE {Observing!NoRain}
             wind == Observing!Configured(drivers.wind, c.wind)
  <2>2. rains \subseteq RainRecords BY Beginnings, CommandsKeep
  <2>3. wind \in Records BY Beginnings DEF Observing!Configured, SaidInv, Everything
  <2>4. PICK rain \in rains : drivers' = [drivers EXCEPT !.rain = rain, !.wind = wind]
    BY <2>1 DEF Observing!Save, SaidInv, Everything
  <2>5. snapshot' = snapshot BY <2>1 DEF Observing!Save
  <2> HIDE DEF rains, wind
  <2>6. drivers' \in Everything BY <2>2, <2>3, <2>4 DEF SaidInv, Everything
  <2> QED BY <2>5, <2>6 DEF SaidInv
<1>4. CASE Observing!CommandRain
  <2> DEFINE rains == UNION {Observing!Polled(r) : r \in Observing!Commanded(drivers.rain)}
             off == [drivers.rain EXCEPT !.online = FALSE, !.stale = TRUE]
  <2>1. drivers.rain \in RainRecords BY DEF SaidInv, Everything
  <2>2. rains \union {off} \subseteq RainRecords
    <3>1. off \in RainRecords BY <2>1 DEF RainRecords
    <3> QED BY <2>1, <3>1, CommandsKeep
  <2>3. PICK rain \in rains \union {off} : drivers' = [drivers EXCEPT !.rain = rain]
    BY <1>4 DEF Observing!CommandRain
  <2>4. snapshot' = snapshot BY <1>4 DEF Observing!CommandRain
  <2> HIDE DEF rains, off
  <2>5. drivers' \in Everything BY <2>2, <2>3 DEF SaidInv, Everything
  <2> QED BY <2>4, <2>5 DEF SaidInv
<1>5. CASE \E s \in Observing!Parts : Observing!BreaksOrWorks(s)
  BY <1>5 DEF Observing!BreaksOrWorks, SaidInv
<1>6. CASE Observing!Restart
  <2>1. snapshot' = Observing!Empty /\ drivers' \in Observing!Drivers(setting)
    BY <1>6 DEF Observing!Restart, Observing!Boot
  <2> QED BY <2>1, DriversAreReadings, EmptyIsRecent DEF SaidInv
<1>7. CASE UNCHANGED observingVars
  BY <1>7 DEF observingVars, SaidInv
<1> QED BY <1>1, <1>2, <1>3, <1>4, <1>5, <1>6, <1>7 DEF Observing!Next

LEMMA SaidInit == ASSUME Observing!ConditionsAssumption, Observing!Init PROVE SaidInv
  BY DriversAreReadings, EmptyIsRecent DEF SaidInv, Observing!Init

\* What is served is shown and healthy.
LEMMA ServedIsRecent ==
    ASSUME Observing!ConditionsAssumption, SaidInv PROVE Observing!ServedIsShown
<1> SUFFICES ASSUME NEW s \in Observing!Sources \ {"vane"},
                    Observing!Value(s, setting, snapshot) = "value"
             PROVE  /\ Observing!Shown(s, setting, snapshot) = "ok"
                    /\ Observing!Healthy(s, snapshot) \/ (s = "rain" /\ snapshot.rain.lensBad)
                    /\ s = "rain" => snapshot.rain.heard <= RainStale + snapshot.taken
  BY DEF Observing!ServedIsShown
<1>1. Observing!Present(s, setting, snapshot) /\ Observing!Valid(s, setting, snapshot)
  BY DEF Observing!Value, Observing!TimeSinceLastUpdate
<1>2. "rain" \notin BusSensors /\ "wind" \notin BusSensors
  BY DEF Observing!ConditionsAssumption
<1>3. CASE s \in BusSensors
  <2> DEFINE r == snapshot.bus[s]
  <2>1. s # "rain" /\ s # "wind" BY <1>2, <1>3
  <2>2. Observing!Present(s, setting, snapshot) = r.ready
    BY <1>3, <2>1 DEF Observing!Present
  <2>3. Observing!Valid(s, setting, snapshot) =
          (r.status = "ok" /\ r.age # Observing!Never /\ r.age <= Observing!StaleAfter)
    BY <1>3, <2>1 DEF Observing!Valid
  <2>4. Observing!Shown(s, setting, snapshot) = Observing!ReadingStatus(r)
    BY <1>3, <2>1 DEF Observing!Shown
  <2>5. Observing!Healthy(s, snapshot) = (r.status = "ok")
    BY <1>3, <2>1 DEF Observing!Healthy
  <2>6. r \in Records BY <1>3 DEF SaidInv, Everything
  <2> HIDE DEF r
  <2>7. r.ready /\ r.status = "ok" /\ r.age # Observing!Never /\ r.age <= Observing!StaleAfter
    BY <1>1, <2>2, <2>3, Zenon
  <2>8. r.age \in Int /\ Observing!StaleAfter \in Int
    BY <2>6, AgesTypes DEF Records, Ages, Observing!StaleAfter, Observing!ConditionsAssumption, Observing!Never
  <2>9. ~(r.age > Observing!StaleAfter) BY <2>7, <2>8
  <2>10. Observing!ReadingStatus(r) = "ok"
    BY <2>7, <2>9 DEF Observing!ReadingStatus
  <2> QED BY <2>1, <2>4, <2>5, <2>7, <2>10
<1>4. CASE s = "rain"
  <2>1. setting.rain /\ Observing!RainFine(snapshot.rain) /\ snapshot.rain.read
    BY <1>1, <1>2, <1>4 DEF Observing!Present, Observing!Valid
  <2>2. snapshot.rain.ready /\ snapshot.rain.heard <= RainStale + snapshot.taken
    BY <2>1 DEF SaidInv, RainIsRecent
  <2>3. snapshot.rain.online /\ ~snapshot.rain.stale
    BY <2>1 DEF Observing!RainFine
  <2>4. Observing!Shown(s, setting, snapshot) = "ok"
    BY <1>2, <1>4, <2>1, <2>2, <2>3 DEF Observing!Shown
  <2>5. Observing!Healthy(s, snapshot) \/ snapshot.rain.lensBad
    BY <1>2, <1>4, <2>1 DEF Observing!Healthy
  <2> QED BY <1>4, <2>2, <2>4, <2>5
<1>5. CASE s = "wind"
  BY <1>1, <1>2, <1>5 DEF Observing!Present, Observing!Valid, Observing!Shown, Observing!Healthy,
     Observing!WindFresh
<1> QED BY <1>3, <1>4, <1>5 DEF Observing!Sources

-----------------------------------------------------------------------------
(* The panel, whatever is lost on its bus                                   *)

\* Of a picture it only matters which it is: records are known by their fields.
IsLink(l) == l \in [found : BOOLEAN, initPending : BOOLEAN, wait : {l.wait}, failures : {l.failures}]
IsDriver(d) ==
    d \in [panelOn : {d.panelOn}, rendered : {d.rendered}, viewChanged : {d.viewChanged},
           shown : {d.shown}, picture : {d.picture}, dirty : SUBSET Rows]
IsPanel(p) ==
    /\ p \in [ready : {p.ready}, power : {p.power}, night : {p.night}, rotated : {p.rotated}, ram : {p.ram}]
    /\ p.ram = [r \in Rows |-> p.ram[r]]

\* The driver writes to a panel which it has found and initialised.
Serves(l) == l.found /\ ~l.initPending
Agree(d, p) ==
    /\ \A r \in Rows \ d.dirty : p.ram[r] = <<d.picture[r], p.rotated>>
    /\ p.power = d.panelOn
AsTold(w) == Serves(w.link) /\ w.panel.ready => Agree(w.driver, w.panel)

IsDisplay(w) ==
    /\ w = [link |-> w.link, driver |-> w.driver, panel |-> w.panel]
    /\ IsLink(w.link) /\ IsDriver(w.driver) /\ IsPanel(w.panel)
Sound(w) == IsDisplay(w) /\ AsTold(w)

PanelInv == Sound([link |-> link, driver |-> driver, panel |-> panel])

\* What a step of a pass makes of the display, field by field.
LEMMA Replaced ==
    ASSUME NEW w, IsDisplay(w), NEW l, NEW d, NEW p, IsLink(l), IsDriver(d), IsPanel(p),
           Serves(l) /\ p.ready => Agree(d, p)
    PROVE  Sound([link |-> l, driver |-> d, panel |-> p])
BY DEF Sound, IsDisplay, AsTold

\* A write that fails or succeeds may lose the link; it finds no panel.
LEMMA WriteKeeps ==
    ASSUME NEW l, IsLink(l), NEW ok \in BOOLEAN
    PROVE  /\ IsLink(Display!WriteResult(l, ok))
           /\ Serves(Display!WriteResult(l, ok)) => Serves(l)
<1>1. CASE ~l.found
  BY <1>1 DEF Display!WriteResult
<1>2. CASE l.found /\ ok
  <2>1. Display!WriteResult(l, ok) = [l EXCEPT !.failures = 0]
    BY <1>2 DEF Display!WriteResult
  <2> QED BY <2>1 DEF IsLink, Serves
<1>3. CASE l.found /\ ~ok /\ l.failures + 1 < MaxFailures
  <2>1. Display!WriteResult(l, ok) = [l EXCEPT !.failures = @ + 1]
    BY <1>3 DEF Display!WriteResult
  <2> QED BY <2>1 DEF IsLink, Serves
<1>4. CASE l.found /\ ~ok /\ ~(l.failures + 1 < MaxFailures)
  <2>1. Display!WriteResult(l, ok) = [Display!NoLink EXCEPT !.wait = ProbeEvery]
    BY <1>4 DEF Display!WriteResult
  <2> QED BY <2>1 DEF IsLink, Serves, Display!NoLink
<1> QED BY <1>1, <1>2, <1>3, <1>4 DEF IsLink

LEMMA SentIs ==
    ASSUME NEW w, IsDisplay(w), NEW ok \in BOOLEAN
    PROVE  /\ Display!Sent(w, ok) = [link |-> Display!WriteResult(w.link, ok), driver |-> w.driver, panel |-> w.panel]
           /\ IsDisplay(Display!Sent(w, ok))
           /\ Serves(Display!Sent(w, ok).link) => Serves(w.link)
<1> DEFINE l == Display!WriteResult(w.link, ok)
<1>1. IsLink(l) /\ (Serves(l) => Serves(w.link))
  BY WriteKeeps DEF IsDisplay
<1>2. Display!Sent(w, ok) = [link |-> l, driver |-> w.driver, panel |-> w.panel]
  BY DEF Display!Sent, IsDisplay
<1>3. PICK n : n = l OBVIOUS
<1>4. IsDisplay([link |-> n, driver |-> w.driver, panel |-> w.panel])
  BY <1>1, <1>3 DEF IsDisplay
<1> QED BY <1>1, <1>2, <1>3, <1>4

LEMMA SentKeeps == ASSUME NEW w, Sound(w), NEW ok \in BOOLEAN
    PROVE /\ Sound(Display!Sent(w, ok))
          /\ Display!Sent(w, ok).driver = w.driver /\ Display!Sent(w, ok).panel = w.panel
<1>1. IsDisplay(w) BY DEF Sound
<1> QED BY <1>1, SentIs DEF Sound, AsTold

LEMMA SentEither == ASSUME NEW w, Sound(w)
    PROVE /\ Sound(Display!Sent(w, TRUE)) /\ Sound(Display!Sent(w, FALSE))
          /\ Display!Sent(w, TRUE).driver = w.driver /\ Display!Sent(w, TRUE).panel = w.panel
          /\ Display!Sent(w, FALSE).driver = w.driver /\ Display!Sent(w, FALSE).panel = w.panel
<1>1. TRUE \in BOOLEAN /\ FALSE \in BOOLEAN OBVIOUS
<1> QED BY <1>1, SentKeeps, Zenon

\* A display switched off is forgotten.
LEMMA ApplySettingsKeeps ==
    ASSUME NEW w, NEW bad, Sound(w) PROVE Sound(Display!ApplySettings(w, bad))
<1>0. PICK no : no = FALSE OBVIOUS
<1> DEFINE dark == w.driver.panelOn /\ ~Display!Fails(bad, "power")
           d == [w.driver EXCEPT !.panelOn = no, !.rendered = no, !.picture = Display!BlankFrame, !.dirty = {}]
           power == IF dark THEN no ELSE w.panel.power
           p == [w.panel EXCEPT !.power = power]
<1>1. CASE settings.enabled /\ ~Display!Current.enabled
  <2>1. Display!ApplySettings(w, bad) = [link |-> Display!NoLink, driver |-> d, panel |-> p]
    BY <1>0, <1>1 DEF Display!ApplySettings, Sound, IsDisplay
  <2> HIDE DEF power
  <2>2. IsDriver(d) BY DEF Sound, IsDisplay, IsDriver
  <2>3. IsPanel(p) BY DEF Sound, IsDisplay, IsPanel
  <2>4. IsLink(Display!NoLink) /\ ~Serves(Display!NoLink) BY DEF Display!NoLink, IsLink, Serves
  <2> QED BY <2>1, <2>2, <2>3, <2>4, Replaced DEF Sound
<1>2. CASE ~(settings.enabled /\ ~Display!Current.enabled)
  BY <1>2 DEF Display!ApplySettings
<1> QED BY <1>1, <1>2

\* A panel found is not served before it has been initialised, and then whole.
LEMMA HandleLinkKeeps ==
    ASSUME NEW w, NEW bad, Sound(w) PROVE Sound(Display!HandleLink(w, bad))
<1> DEFINE ok == ~Display!Fails(bad, "probe")
           l == Display!ProbeResult(w.link, ok)
           probed == IF Display!ShouldProbe(w.link) THEN [w EXCEPT !.link = l] ELSE w
<1>1. Sound(probed)
  <2>1. CASE Display!ShouldProbe(w.link)
    <3>1. probed = [link |-> l, driver |-> w.driver, panel |-> w.panel]
      BY <2>1 DEF Sound, IsDisplay
    <3>2. ok \in BOOLEAN BY DEF Display!Fails
    <3> HIDE DEF ok
    <3>3. IsLink(l) /\ ~Serves(l)
      BY <2>1, <3>2 DEF Display!ShouldProbe, Display!ProbeResult, IsLink, Serves, Sound, IsDisplay
    <3> HIDE DEF l
    <3> QED BY <3>1, <3>3, Replaced DEF Sound, IsDisplay
  <2>2. CASE ~Display!ShouldProbe(w.link) BY <2>2
  <2> QED BY <2>1, <2>2
<1>2. PICK v : v = probed OBVIOUS
<1>4. Sound(v) BY <1>1, <1>2
<1>5. CASE ~(v.link.found /\ v.link.initPending)
  <2>1. Display!HandleLink(w, bad) = v BY <1>2, <1>5 DEF Display!HandleLink
  <2> QED BY <1>4, <2>1
<1>6. CASE v.link.found /\ v.link.initPending /\ Display!Fails(bad, "init")
  <2>1. Display!HandleLink(w, bad) = Display!Sent(v, FALSE) BY <1>2, <1>6 DEF Display!HandleLink
  <2> QED BY <1>4, <2>1, SentEither
<1>7. CASE v.link.found /\ v.link.initPending /\ ~Display!Fails(bad, "init")
  <2>1. PICK sent, no, yes : sent = Display!Sent(v, TRUE) /\ no = FALSE /\ yes = TRUE OBVIOUS
  <2> DEFINE shown == Display!Told(FALSE, "sky", Display!NightMode, Display!Current.rotate180)
             n == [sent.link EXCEPT !.initPending = no]
             d == [sent.driver EXCEPT !.panelOn = no, !.shown = shown, !.rendered = no, !.dirty = Rows]
             p == [sent.panel EXCEPT !.ready = yes, !.power = no, !.night = Display!NightMode,
                                     !.rotated = Display!Current.rotate180]
  <2>2. Display!HandleLink(w, bad) = [sent EXCEPT !.link.initPending = no, !.driver = d, !.panel = p]
    BY <1>2, <1>7, <2>1 DEF Display!HandleLink, Display!ToRedraw
  <2> HIDE DEF shown
  <2>3. IsDisplay(sent) BY <1>4, <2>1, SentEither DEF Sound
  <2>4. IsLink(n) BY <2>1, <2>3 DEF IsDisplay, IsLink
  <2>5. IsDriver(d) /\ d.dirty = Rows /\ d.panelOn = no BY <2>3 DEF IsDisplay, IsDriver
  <2>7. IsPanel(p) /\ p.power = no BY <2>3 DEF IsDisplay, IsPanel
  <2>6. Display!HandleLink(w, bad) = [link |-> n, driver |-> d, panel |-> p]
    BY <2>2, <2>3 DEF IsDisplay
  <2> HIDE DEF n, d, p
  <2> QED BY <2>3, <2>4, <2>5, <2>6, <2>7, Replaced DEF Agree
<1> QED BY <1>5, <1>6, <1>7

-----------------------------------------------------------------------------
\* The brightness is not of the picture.
LEMMA ContrastKeeps ==
    ASSUME NEW w, NEW bad, NEW out, Sound(w) PROVE Sound(Display!Contrast(w, bad, out))
<1>1. CASE out.night = w.driver.shown.night
  <2>1. Display!Contrast(w, bad, out) = w BY <1>1 DEF Display!Contrast
  <2> QED BY <2>1
<1>2. CASE out.night # w.driver.shown.night /\ Display!Fails(bad, "contrast")
  <2>1. Display!Contrast(w, bad, out) = Display!Sent(w, FALSE)
    BY <1>2 DEF Display!Contrast
  <2> QED BY <2>1, SentEither
<1>3. CASE out.night # w.driver.shown.night /\ ~Display!Fails(bad, "contrast")
  <2>1. PICK sent : sent = Display!Sent(w, TRUE) OBVIOUS
  <2>2. Display!Contrast(w, bad, out) = [sent EXCEPT !.panel.night = out.night]
    BY <1>3, <2>1 DEF Display!Contrast
  <2>3. Sound(sent) BY <2>1, SentEither
  <2> DEFINE p == [sent.panel EXCEPT !.night = out.night]
  <2>4. IsPanel(p) /\ p.ready = sent.panel.ready /\ p.power = sent.panel.power
        /\ p.ram = sent.panel.ram /\ p.rotated = sent.panel.rotated
    BY <2>3 DEF Sound, IsDisplay, IsPanel
  <2>5. Display!Contrast(w, bad, out) = [link |-> sent.link, driver |-> sent.driver, panel |-> p]
    BY <2>2, <2>3 DEF Sound, IsDisplay
  <2> HIDE DEF p
  <2> QED BY <2>3, <2>4, <2>5, Replaced DEF Sound, IsDisplay, AsTold, Agree
<1> QED BY <1>1, <1>2, <1>3

\* A panel turned over is written again whole.
LEMMA RotationKeeps ==
    ASSUME NEW w, NEW bad, NEW out, Sound(w) PROVE Sound(Display!Rotation(w, bad, out))
<1>1. CASE out.rotated = w.driver.shown.rotated
  <2>1. Display!Rotation(w, bad, out) = w BY <1>1 DEF Display!Rotation
  <2> QED BY <2>1
<1>2. CASE out.rotated # w.driver.shown.rotated /\ Display!Fails(bad, "rotation")
  <2>1. Display!Rotation(w, bad, out) = Display!Sent(w, FALSE)
    BY <1>2 DEF Display!Rotation
  <2> QED BY <2>1, SentEither
<1>3. CASE out.rotated # w.driver.shown.rotated /\ ~Display!Fails(bad, "rotation")
  <2>1. PICK sent, no : sent = Display!Sent(w, TRUE) /\ no = FALSE OBVIOUS
  <2> DEFINE d == [sent.driver EXCEPT !.dirty = Rows, !.rendered = no]
             p == [sent.panel EXCEPT !.rotated = out.rotated]
  <2>2. Display!Rotation(w, bad, out) = [sent EXCEPT !.panel.rotated = out.rotated, !.driver = d]
    BY <1>3, <2>1 DEF Display!Rotation
  <2>3. Sound(sent) BY <2>1, SentEither
  <2>4. IsPanel(p) /\ p.ready = sent.panel.ready /\ p.power = sent.panel.power
    BY <2>3 DEF Sound, IsDisplay, IsPanel
  <2>5. IsDriver(d) /\ d.dirty = Rows /\ d.panelOn = sent.driver.panelOn
    BY <2>3 DEF Sound, IsDisplay, IsDriver
  <2>6. Display!Rotation(w, bad, out) = [link |-> sent.link, driver |-> d, panel |-> p]
    BY <2>2, <2>3 DEF Sound, IsDisplay
  <2> HIDE DEF d, p
  <2> QED BY <2>3, <2>4, <2>5, <2>6, Replaced DEF Sound, IsDisplay, AsTold, Agree
<1> QED BY <1>1, <1>2, <1>3

\* Of a new picture the rows that differ are to be sent.
LEMMA CommittedKeeps ==
    ASSUME NEW d, IsDriver(d), NEW picture
    PROVE  LET n == Display!Committed(d, picture) IN
           /\ IsDriver(n) /\ n.picture = picture /\ n.panelOn = d.panelOn
           /\ \A r \in Rows \ n.dirty : r \notin d.dirty /\ picture[r] = d.picture[r]
<1> DEFINE differing == {r \in Rows : picture[r] # d.picture[r]}
<1>0. PICK yes, no : yes = TRUE /\ no = FALSE OBVIOUS
<1> DEFINE dirty == d.dirty \union differing
           n == [d EXCEPT !.rendered = yes, !.viewChanged = no, !.picture = picture, !.dirty = dirty]
<1>1. Display!Committed(d, picture) = n
  BY <1>0 DEF Display!Committed
<1>2. dirty \subseteq Rows /\ \A r \in Rows \ dirty : r \notin d.dirty /\ picture[r] = d.picture[r]
  BY DEF IsDriver
<1> HIDE DEF dirty
<1>3. IsDriver(n) /\ n.picture = picture /\ n.panelOn = d.panelOn /\ n.dirty = dirty
  BY <1>2 DEF IsDriver
<1> QED BY <1>1, <1>2, <1>3

LEMMA RenderKeeps ==
    ASSUME NEW w, NEW out, Sound(w) PROVE Sound(Display!Render(w, out))
<1>0. PICK picture : picture = [r \in Rows |-> Display!Drawn(out, r)] OBVIOUS
<1>1. PICK d : d = Display!Committed(w.driver, picture) OBVIOUS
<1>2. Display!Render(w, out) = w \/ Display!Render(w, out) = [w EXCEPT !.driver = d]
  BY <1>0, <1>1 DEF Display!Render
<1>3. /\ IsDriver(d) /\ d.picture = picture /\ d.panelOn = w.driver.panelOn
      /\ \A r \in Rows \ d.dirty : r \notin w.driver.dirty /\ picture[r] = w.driver.picture[r]
  BY <1>1, CommittedKeeps DEF Sound, IsDisplay
<1>4. [w EXCEPT !.driver = d] = [link |-> w.link, driver |-> d, panel |-> w.panel]
  BY DEF Sound, IsDisplay
<1>5. Sound([link |-> w.link, driver |-> d, panel |-> w.panel])
  BY <1>3, Replaced DEF Sound, IsDisplay, AsTold, Agree
<1> QED BY <1>2, <1>4, <1>5

\* The panel's light goes out with the driver's.
LEMMA PowerOffKeeps ==
    ASSUME NEW w, NEW bad, NEW out, Sound(w) PROVE Sound(Display!PowerOff(w, bad, out))
<1>1. CASE out.on \/ ~w.driver.panelOn
  <2>1. Display!PowerOff(w, bad, out) = w BY <1>1 DEF Display!PowerOff
  <2> QED BY <2>1
<1>2. CASE ~(out.on \/ ~w.driver.panelOn) /\ Display!Fails(bad, "power")
  <2>1. Display!PowerOff(w, bad, out) = Display!Sent(w, FALSE)
    BY <1>2 DEF Display!PowerOff
  <2> QED BY <2>1, SentEither
<1>3. CASE ~(out.on \/ ~w.driver.panelOn) /\ ~Display!Fails(bad, "power")
  <2>1. PICK sent, no : sent = Display!Sent(w, TRUE) /\ no = FALSE OBVIOUS
  <2> DEFINE d == [sent.driver EXCEPT !.panelOn = no]
             p == [sent.panel EXCEPT !.power = no]
  <2>2. Display!PowerOff(w, bad, out) = [sent EXCEPT !.driver.panelOn = no, !.panel.power = no]
    BY <1>3, <2>1 DEF Display!PowerOff
  <2>3. Sound(sent) BY <2>1, SentEither
  <2>4. IsPanel(p) /\ p.ready = sent.panel.ready /\ p.power = no
        /\ p.ram = sent.panel.ram /\ p.rotated = sent.panel.rotated
    BY <2>3 DEF Sound, IsDisplay, IsPanel
  <2>5. IsDriver(d) /\ d.dirty = sent.driver.dirty /\ d.picture = sent.driver.picture /\ d.panelOn = no
    BY <2>3 DEF Sound, IsDisplay, IsDriver
  <2>6. Display!PowerOff(w, bad, out) = [link |-> sent.link, driver |-> d, panel |-> p]
    BY <2>2, <2>3 DEF Sound, IsDisplay
  <2> HIDE DEF d, p
  <2> QED BY <2>3, <2>4, <2>5, <2>6, Replaced DEF Sound, IsDisplay, AsTold, Agree
<1> QED BY <1>1, <1>2, <1>3

LEMMA ApplyOutputKeeps ==
    ASSUME NEW w, NEW bad, NEW out, Sound(w) PROVE Sound(Display!ApplyOutput(w, bad, out))
<1> DEFINE told == Display!PowerOff(
                       Display!Render(Display!Rotation(Display!Contrast(w, bad, out), bad, out), out), bad, out)
           d == [told.driver EXCEPT !.shown = out]
<1>1. Sound(told)
  BY ContrastKeeps, RotationKeeps, RenderKeeps, PowerOffKeeps
<1>2. Display!ApplyOutput(w, bad, out) = [told EXCEPT !.driver.shown = out]
  BY DEF Display!ApplyOutput
<1> HIDE DEF told
<1>3. IsDriver(d) /\ d.dirty = told.driver.dirty /\ d.picture = told.driver.picture /\ d.panelOn = told.driver.panelOn
  BY <1>1 DEF Sound, IsDisplay, IsDriver
<1>4. Display!ApplyOutput(w, bad, out) = [link |-> told.link, driver |-> d, panel |-> told.panel]
  BY <1>1, <1>2 DEF Sound, IsDisplay
<1> HIDE DEF d
<1> QED BY <1>1, <1>3, <1>4, Replaced DEF Sound, IsDisplay, AsTold, Agree

\* A row sent is the picture's; one cut short stays to be sent.
LEMMA RowKeeps ==
    ASSUME Display!PanelAssumption, NEW w, NEW bad, Sound(w) PROVE Sound(Display!SendOneDirtyPage(w, bad))
<1> DEFINE row == CHOOSE r \in w.driver.dirty : \A q \in w.driver.dirty : r <= q
<1>1. w.driver.dirty # {} => row \in w.driver.dirty /\ row \in Rows
  BY DEF Display!PanelAssumption, Sound, IsDisplay, IsDriver
<1>2. CASE w.driver.dirty # {} /\ ~Display!Fails(bad, "row")
  <2>1. PICK sent : sent = Display!Sent(w, TRUE) OBVIOUS
  <2> DEFINE d == [sent.driver EXCEPT !.dirty = @ \ {row}]
             written == <<w.driver.picture[row], w.panel.rotated>>
             ram == [sent.panel.ram EXCEPT ![row] = written]
             p == [sent.panel EXCEPT !.ram = ram]
  <2>2. Display!SendOneDirtyPage(w, bad) =
          [sent EXCEPT !.driver.dirty = @ \ {row}, !.panel.ram[row] = <<w.driver.picture[row], w.panel.rotated>>]
    BY <1>2, <2>1 DEF Display!SendOneDirtyPage
  <2>3. Sound(sent) /\ sent.driver = w.driver /\ sent.panel = w.panel
    <3>1. IsDisplay(w) BY DEF Sound
    <3> QED BY <2>1, <3>1, SentEither
  <2>4. Display!SendOneDirtyPage(w, bad) = [link |-> sent.link, driver |-> d, panel |-> p]
    BY <2>2, <2>3 DEF Sound, IsDisplay
  <2>9. written = <<w.driver.picture[row], w.panel.rotated>> OBVIOUS
  <2> HIDE DEF written
  <2>5. /\ ram = [r \in Rows |-> ram[r]]
        /\ \A r \in Rows : ram[r] = IF r = row THEN written ELSE w.panel.ram[r]
    BY <1>1, <1>2, <2>3 DEF Sound, IsDisplay, IsPanel
  <2> HIDE DEF ram, row
  <2>6. IsPanel(p) /\ p.ready = w.panel.ready /\ p.power = w.panel.power
        /\ p.ram = ram /\ p.rotated = w.panel.rotated
    BY <2>3, <2>5 DEF Sound, IsDisplay, IsPanel
  <2>7. IsDriver(d) /\ d.dirty = w.driver.dirty \ {row} /\ d.picture = w.driver.picture
        /\ d.panelOn = w.driver.panelOn
    BY <2>3 DEF Sound, IsDisplay, IsDriver
  <2> HIDE DEF d, p
  <2>8. Serves(sent.link) /\ p.ready => Agree(d, p)
    BY <2>3, <2>5, <2>6, <2>7, <2>9 DEF Sound, AsTold, Agree
  <2> QED BY <2>3, <2>4, <2>6, <2>7, <2>8, Replaced DEF Sound, IsDisplay
<1>3. CASE w.driver.dirty # {} /\ Display!Fails(bad, "row")
  <2>1. PICK sent : sent = Display!Sent(w, FALSE) OBVIOUS
  <2> DEFINE cut == IF displayPlugged THEN Display!Noise ELSE w.panel.ram[row]
             ram == [sent.panel.ram EXCEPT ![row] = cut]
             p == [sent.panel EXCEPT !.ram = ram]
  <2>2. Display!SendOneDirtyPage(w, bad) = [sent EXCEPT !.panel.ram[row] = cut]
    BY <1>3, <2>1 DEF Display!SendOneDirtyPage
  <2>3. Sound(sent) /\ sent.driver = w.driver /\ sent.panel = w.panel
    <3>1. IsDisplay(w) BY DEF Sound
    <3> QED BY <2>1, <3>1, SentEither
  <2>4. Display!SendOneDirtyPage(w, bad) = [link |-> sent.link, driver |-> sent.driver, panel |-> p]
    BY <2>2, <2>3 DEF Sound, IsDisplay
  <2> HIDE DEF cut
  <2>5. /\ ram = [r \in Rows |-> ram[r]]
        /\ \A r \in Rows \ {row} : ram[r] = w.panel.ram[r]
    BY <1>1, <1>3, <2>3 DEF Sound, IsDisplay, IsPanel
  <2> HIDE DEF ram, row
  <2>6. IsPanel(p) /\ p.ready = w.panel.ready /\ p.power = w.panel.power
        /\ p.ram = ram /\ p.rotated = w.panel.rotated
    BY <2>3, <2>5 DEF Sound, IsDisplay, IsPanel
  <2> HIDE DEF p
  <2>7. Serves(sent.link) /\ p.ready => Agree(sent.driver, p)
    BY <1>1, <1>3, <2>3, <2>5, <2>6 DEF Sound, AsTold, Agree
  <2> QED BY <2>3, <2>4, <2>6, <2>7, Replaced DEF Sound, IsDisplay
<1>4. CASE w.driver.dirty = {} /\ ~w.driver.panelOn /\ ~Display!Fails(bad, "light")
  <2>1. PICK sent, yes : sent = Display!Sent(w, TRUE) /\ yes = TRUE OBVIOUS
  <2> DEFINE d == [sent.driver EXCEPT !.panelOn = yes]
             p == [sent.panel EXCEPT !.power = yes]
  <2>2. Display!SendOneDirtyPage(w, bad) = [sent EXCEPT !.driver.panelOn = yes, !.panel.power = yes]
    BY <1>4, <2>1 DEF Display!SendOneDirtyPage
  <2>3. Sound(sent) BY <2>1, SentEither
  <2>4. IsPanel(p) /\ p.ready = sent.panel.ready /\ p.power = yes
        /\ p.ram = sent.panel.ram /\ p.rotated = sent.panel.rotated
    BY <2>3 DEF Sound, IsDisplay, IsPanel
  <2>5. IsDriver(d) /\ d.dirty = sent.driver.dirty /\ d.picture = sent.driver.picture /\ d.panelOn = yes
    BY <2>3 DEF Sound, IsDisplay, IsDriver
  <2>6. Display!SendOneDirtyPage(w, bad) = [link |-> sent.link, driver |-> d, panel |-> p]
    BY <2>2, <2>3 DEF Sound, IsDisplay
  <2> HIDE DEF d, p
  <2> QED BY <2>3, <2>4, <2>5, <2>6, Replaced DEF Sound, IsDisplay, AsTold, Agree
<1>5. CASE w.driver.dirty = {} /\ ~w.driver.panelOn /\ Display!Fails(bad, "light")
  <2>1. Display!SendOneDirtyPage(w, bad) = Display!Sent(w, FALSE)
    BY <1>5 DEF Display!SendOneDirtyPage
  <2> QED BY <2>1, SentEither
<1>6. CASE w.driver.dirty = {} /\ ~(~w.driver.panelOn)
  <2>1. Display!SendOneDirtyPage(w, bad) = w
    BY <1>6 DEF Display!SendOneDirtyPage
  <2> QED BY <2>1
<1> QED BY <1>2, <1>3, <1>4, <1>5, <1>6

-----------------------------------------------------------------------------
\* A pass of the loop, whatever fails on the bus.
LEMMA DisplayPassKeeps ==
    ASSUME Display!PanelAssumption, PanelInv, NEW bad, NEW button, Display!Pass(bad, button)
    PROVE  PanelInv'
<1> DEFINE now == [link |-> link, driver |-> driver, panel |-> panel]
           aged == Display!Aged(now)
           w == Display!ApplySettings(aged, bad)
<1>1. Sound(aged)
  <2>1. aged = [now EXCEPT !.link.wait = IF @ > 0 THEN @ - 1 ELSE 0]
    BY DEF Display!Aged
  <2> DEFINE l == [link EXCEPT !.wait = IF @ > 0 THEN @ - 1 ELSE 0]
  <2>2. IsLink(l) /\ (Serves(l) => Serves(link))
    BY DEF PanelInv, Sound, IsDisplay, IsLink, Serves
  <2>3. aged = [link |-> l, driver |-> driver, panel |-> panel]
    BY <2>1
  <2> HIDE DEF l
  <2>4. Sound(now) BY DEF PanelInv
  <2> QED BY <2>2, <2>3, <2>4, Replaced DEF Sound, IsDisplay, AsTold
<1>2. Sound(w) BY <1>1, ApplySettingsKeeps
<1> HIDE DEF aged
<1>3. CASE ~Display!Current.enabled
  <2>1. link' = w.link /\ driver' = w.driver /\ panel' = w.panel
    BY <1>3 DEF Display!Pass, aged
  <2> HIDE DEF w
  <2> QED BY <1>2, <2>1 DEF PanelInv, Sound, IsDisplay, AsTold
<1>4. CASE Display!Current.enabled
  <2>1. Display!Tick(w, bad, button)
    BY <1>4 DEF Display!Pass, aged
  <2> HIDE DEF w
  <2> DEFINE linked == Display!HandleLink(w, bad)
  <2>2. \E out :
          LET told == IF linked.link.found /\ ~linked.link.initPending
                      THEN Display!ApplyOutput(linked, bad, out) ELSE linked
              done == IF out.on THEN Display!SendOneDirtyPage(told, bad) ELSE told
          IN  link' = done.link /\ driver' = done.driver /\ panel' = done.panel
    BY <2>1 DEF Display!Tick
  <2>3. Sound(linked) BY <1>2, HandleLinkKeeps
  <2> HIDE DEF linked
  <2>4. PICK out :
          LET told == IF linked.link.found /\ ~linked.link.initPending
                      THEN Display!ApplyOutput(linked, bad, out) ELSE linked
              done == IF out.on THEN Display!SendOneDirtyPage(told, bad) ELSE told
          IN  link' = done.link /\ driver' = done.driver /\ panel' = done.panel
    BY <2>2
  <2> DEFINE told == IF linked.link.found /\ ~linked.link.initPending
                     THEN Display!ApplyOutput(linked, bad, out) ELSE linked
             done == IF out.on THEN Display!SendOneDirtyPage(told, bad) ELSE told
  <2>5. Sound(told) BY <2>3, ApplyOutputKeeps
  <2>6. link' = done.link /\ driver' = done.driver /\ panel' = done.panel BY <2>4
  <2> HIDE DEF told
  <2>7. Sound(done) BY <2>5, RowKeeps
  <2> HIDE DEF done
  <2> QED BY <2>6, <2>7 DEF PanelInv, Sound, IsDisplay, AsTold
<1> QED BY <1>3, <1>4

\* Nothing has been found yet.
LEMMA DisplayInit == Display!Init => PanelInv
<1> SUFFICES ASSUME Display!Init PROVE PanelInv OBVIOUS
<1>1. IsLink(link) /\ ~Serves(link)
  BY DEF Display!Init, Display!NoLink, IsLink, Serves
<1>2. IsDriver(driver) BY DEF Display!Init, IsDriver
<1>3. IsPanel(panel) BY DEF Display!Init, Display!Unpowered, IsPanel
<1> QED BY <1>1, <1>2, <1>3 DEF PanelInv, Sound, IsDisplay, AsTold

LEMMA DisplayStep ==
    ASSUME Display!PanelAssumption, PanelInv, Display!Next \/ UNCHANGED displayVars PROVE PanelInv'
<1>1. CASE \E bad \in Display!Losses, button \in BOOLEAN : Display!Pass(bad, button)
  BY <1>1, DisplayPassKeeps
<1>2. CASE UNCHANGED <<link, driver, panel>>
  BY <1>2 DEF PanelInv
<1>3. CASE \E sky \in BOOLEAN, value \in 0..1, n \in {"day", "night", "unknown"} :
             Display!SetView([sky |-> sky, value |-> value], n)
  <2>1. driver' = [driver EXCEPT !.viewChanged = TRUE] /\ UNCHANGED <<link, panel>>
    BY <1>3 DEF Display!SetView
  <2>2. IsDriver(driver') /\ driver'.dirty = driver.dirty /\ driver'.picture = driver.picture
        /\ driver'.panelOn = driver.panelOn
    BY <2>1 DEF PanelInv, Sound, IsDisplay, IsDriver
  <2>3. PICK d : d = driver' OBVIOUS
  <2>4. Serves(link) /\ panel.ready => Agree(d, panel)
    BY <2>2, <2>3 DEF PanelInv, Sound, AsTold, Agree
  <2>5. Sound([link |-> link, driver |-> d, panel |-> panel])
    BY <2>2, <2>3, <2>4, Replaced DEF PanelInv, Sound, IsDisplay
  <2> QED BY <2>1, <2>3, <2>5 DEF PanelInv
<1>4. CASE Display!Plug
  <2>1. panel' = Display!Unpowered /\ UNCHANGED <<link, driver>> BY <1>4 DEF Display!Plug
  <2>2. IsPanel(panel') /\ ~panel'.ready BY <2>1 DEF Display!Unpowered, IsPanel
  <2> QED BY <2>1, <2>2 DEF PanelInv, Sound, IsDisplay, AsTold
<1>5. (\E s \in Settings : Display!Save(s)) \/ (\E what \in {"wake", "blank"} : Display!HandleDisplayRequest(what))
        \/ Display!SetForcedOff \/ UNCHANGED displayVars => UNCHANGED <<link, driver, panel>>
  BY DEF Display!Save, Display!HandleDisplayRequest, Display!SetForcedOff, displayVars
<1> QED BY <1>1, <1>2, <1>3, <1>4, <1>5 DEF Display!Next

LEMMA PanelInvIsTold == PanelInv => Display!PanelIsAsTold
BY DEF PanelInv, Sound, AsTold, Serves, Agree, Display!PanelIsAsTold

-----------------------------------------------------------------------------
(* Side by side                                                             *)

LEMMA OneMachineSteps ==
    [Next]_vars => /\ Sky!Next \/ UNCHANGED skyVars
                   /\ Rain!Next \/ UNCHANGED rainVars
                   /\ Gauge!Next \/ UNCHANGED gaugeVars
                   /\ Observing!Next \/ UNCHANGED observingVars
                   /\ Display!Next \/ UNCHANGED displayVars
BY DEF Next, vars, OnlySky, OnlyRain, OnlyGauge, OnlyObserving, OnlyDisplay

\* What is averaged was taken at the range it is converted by (processCounts,
\* autoRange, resetRollingSamples), unless a loss of power went unnoticed.
THEOREM AveragesOneRange == Spec => []AverageIsTrue
<1>1. Sky!SkyAssumption BY ReadingsAssumption
<1>2. Init => SkyInv BY <1>1, SkyInit DEF Init
<1>3. SkyInv /\ [Next]_vars => SkyInv' BY <1>1, SkyStep, OneMachineSteps
<1>4. SkyInv => AverageIsTrue BY DEF SkyInv, AverageIsTrue
<1> QED BY <1>2, <1>3, <1>4, PTL DEF Spec

\* The daily reset happens once a day at most, and never on the day its
\* schedule was switched on or moved (maybeRunScheduledTotalReset,
\* forgetLastResetDay), whatever restarts, clock steps and saves come between:
\* with a lapse, a day NVS refused to store or to forget or a schedule changed
\* behind the driver's back, excepted.
THEOREM TotalIsResetOnce == Spec => ResetOnceADay
<1> DEFINE Step == Rain!Update /\ Rain!Decision = "reset" /\ ~lapse => day \notin resets /\ ~fresh
<1>1. Rain!RainAssumption BY ReadingsAssumption
<1>2. Init => RainInv BY <1>1, RainInit DEF Init
<1>3. RainInv /\ [Next]_vars => RainInv' BY <1>1, RainStep, OneMachineSteps
<1>4. RainInv /\ [Next]_vars => [Step]_(Rain!vars) BY ResetIsDue
<1> QED BY <1>2, <1>3, <1>4, PTL DEF Spec, ResetOnceADay, Rain!ResetOnceADay

\* An estimate is of one pack (GaugeDecoder::update, MAX17048Sensor::tick),
\* however packs are swapped, monitored or not, between two reads.
THEOREM EstimatesOnePack == Spec => []EstimateIsOfOnePack
<1>1. Gauge!GaugeAssumption BY ReadingsAssumption
<1>2. Init => GaugeInv BY GaugeInit DEF Init
<1>3. GaugeInv /\ [Next]_vars => GaugeInv' BY <1>1, GaugeStep, OneMachineSteps
<1>4. GaugeInv => EstimateIsOfOnePack
  BY DEF GaugeInv, RateIsOfOnePack, EstimateIsOfOnePack, Gauge!EstimateIsOfOnePack
<1> QED BY <1>2, <1>3, <1>4, PTL DEF Spec

\* What Alpaca serves is shown as ok on the page and is no fault to the verdict
\* (Router, buildReadings, safetyInputs), but for the fault of the RG-15's lens,
\* however long the loop was blocked and whatever was switched, broken or
\* restarted; and the RG-15's last response is older than its own limit by the
\* age of the snapshot at most.
THEOREM ServedIsRecentlyRead == Spec => []ServedIsShown
<1>1. Observing!ConditionsAssumption BY ReadingsAssumption
<1>2. Init => SaidInv BY <1>1, SaidInit DEF Init
<1>3. SaidInv /\ [Next]_vars => SaidInv' BY <1>1, SaidStep, OneMachineSteps
<1>4. SaidInv => ServedIsShown BY <1>1, ServedIsRecent DEF ServedIsShown
<1> QED BY <1>2, <1>3, <1>4, PTL DEF Spec

\* What the display's driver counts as sent is on the panel (OledDisplay): every
\* command may be lost and every row cut short, the panel lost, found again,
\* switched off and turned over, and a row it will not send again still holds
\* the last picture.
THEOREM DriverKnowsThePanel == Spec => []PanelIsAsTold
<1>1. Display!PanelAssumption BY ReadingsAssumption
<1>2. Init => PanelInv BY DisplayInit DEF Init
<1>3. PanelInv /\ [Next]_vars => PanelInv' BY <1>1, DisplayStep, OneMachineSteps
<1>4. PanelInv => PanelIsAsTold BY PanelInvIsTold DEF PanelIsAsTold
<1> QED BY <1>2, <1>3, <1>4, PTL DEF Spec
=============================================================================
