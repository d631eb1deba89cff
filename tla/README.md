# SQMeter, verified

TLA+ models of the SQMeter firmware (sky quality meter and weather monitor on an
ESP32, serving ASCOM Alpaca, MQTT, a web page and alerts), the TLC runs that check
them and the TLAPS proofs about them. Paths below are relative to `src/`, the
repository. `PROJECT.json` maps every definition to the lines it stands for, and lists
the hazards of the code at their lines with the properties that would catch them.

What the device is trusted with is a single bit: *is it safe to keep the roof open?*
The models start at the verdict, follow it to the person who is told, then look at the
ways the device can go away, at the readings the verdict rests on, and at the settings
that decide how all of it behaves.

## The system

| Part | Code | State | Operations |
|---|---|---|---|
| Sensor drivers | `src/sensors/*`, `lib/SkyLogic`, `lib/RainLogic`, `lib/WindLogic` | last reading, its time, health, range, protocol state | poll, read, search again, configure |
| Sensor snapshot | `src/WebServer.cpp`, `lib/DeviceCore` | one copy of all readings, under a mutex | refresh (loop task), copy (any task, 20 ms) |
| Safety verdict | `lib/AlpacaLogic/src/SafetyEvaluator.cpp`, `DeviceCore::updateSafety` | delay filter, `SafetyStatus` under a mutex | evaluate once a second |
| Alert engine | `lib/AlertLogic` | a tracker per condition, startup time, seed | `update()` once a second |
| Safety history | `lib/SafetyHistoryLogic`, `src/SafetyHistory.cpp` | ring of 32 entries in RTC memory | push, last alert, start of a boot |
| Alert dispatcher | `src/AlertDispatcher.cpp` | job queue, records, delivery task | dispatch, deliver, clear, `idle()` |
| Phone alarm | `lib/BleLogic`, `src/BleService.cpp` | alarm with a number, two atomics | raise, indicate again, acknowledge |
| Alert schedule, clients | `AlertSchedule`, `AlpacaRouter`, `ClientWatch`, `ConnectionMemory` | mode, reason, connected flags, last call | arm, pause, requests, silence watch, restore |
| Power policy, fuel gauge | `lib/BatteryLogic`, `src/PowerManager.cpp`, `MAX17048Sensor.cpp` | policy state, one-shots, RTC flag, rate average | tick, sleep, boot check, read |
| Updates | `src/OtaUpdater.cpp`, `WebServerUpdates.cpp`, `TlsLock` | partitions, phase, one TLS session | check, install, upload, confirm, roll back |
| Settings | `lib/ConfigModel`, `lib/ConfigBackup`, `lib/SettingsDeps`, `src/ConfigStore.cpp` | the global `config`, documents in flash, staged restore | validate, save, load, back up, restore, report |
| Network | `WiFiManager`, `CaptivePortal`, `TimeManager`, `MQTTClient` | attempt, hotspot, clock, connection, retained topics | join, retry, synchronise, publish |
| Display | `lib/DisplayLogic`, `src/OledDisplay.cpp` | link, lit or not, rows sent | probe, draw a row, blank, wake |
| Languages | `src/LanguagePack.cpp` | chosen code, file, description, temporary file | choose, download, upload, restore at boot |

Three kinds of task. The **loop task** (`main.cpp`) reads sensors, evaluates, runs the
alert engine, the power policy, the display and the network. The **web task** (AsyncTCP)
answers requests, saves settings and clears lists at any moment. **Short tasks** exist while
there is something to do: HTTPS deliveries, an update, a release check, a language download,
a backup preview. They share the configuration (a plain global), the snapshot and the status
(mutexes with timeouts, and an answer for when the timeout strikes), the alert records, the
queue, one TLS lock and a few atomics. A restart loses all RAM; RTC memory (history, "I
slept for the battery", connections) survives everything but a power cut; flash survives
that too.

What is hard: steps of two tasks in an order nobody tested; locks that time out; 32-bit
clocks that wrap after 49.7 days on a device meant to run for years; a restart between
an alert and its record; the idle exit of a task racing a new job; a sleep that must not
come before its warning; sensors, panels and packs that lose power between two reads;
retained messages of settings given up long ago; saves of two tasks at once.

What makes each part correct, in a sentence:

- *verdict*: safe only on fresh data that every rule accepts and has accepted for the whole
  delay; withdrawn only for a reason; a lasting hazard is reported;
- *dispatcher*: one task owns the queue, no job is forgotten, a record is decided once;
- *alerts*: what the engine believes was told is what was told; nothing is announced early
  or twice; what lasts is told in the end; a late acknowledgement ends no other alarm;
- *sessions*: a pause stands until it is ended; every loss has one answer; silence is noticed;
- *power*: no sleep without warning and verdict; an empty battery does end in sleep and USB
  power ends it; an estimate never mixes two packs;
- *updates*: firmware and web page change as a pair; a late drop spares another upload;
- *settings*: what is accepted loads again and comes back from a backup; what is stored is
  what is in effect; a restore is the one previewed; what is reported is what happens;
- *readings*: an average is of one range; what is served was read recently; the display
  shows what its driver believes;
- *network*: a network in reach is joined, the clock set, retained topics made true.

## Modules

One module per component, named after it; `MC*` modules and their cfg files give the
constants values; `*_proofs` hold theorems. Ghost variables and bounds are marked in the
VARIABLES and CONSTANTS. Actions end where another task can see their effect.

**SafetyVerdict.** `Condition` is what a snapshot says to the rules, not its numbers: each
required sensor is `ok`, `silent` or `fault`, each limit exceeded or not. `UnsafeReasons` is
`evaluateSafety`, one operator per `check*`. `Evaluate` and `RecordSafe`/`RecordUnsafe`/
`RecordNothing` are the two halves of `updateSafetyStatus`: between them the web task may
save settings, and each half can miss its lock (`EvaluateBlind` sees the empty snapshot,
`RecordNothing` keeps the old status). Ages are true ages in milliseconds and stop at the
first that counts as stale. Two ghosts time the safe spell: `spell` from what was recorded,
`sinceUnsafe` from what the rules judged; `missed` says that an unsafe verdict between them was
dropped, which the filter's timer does not learn of (see the divergences).

**AlertDispatcher, AlertLedger.** `dispatch`, `queueHttp`, `ensureTask` on the loop task and
`run`/`deliver` on the delivery tasks, cut at queue, `taskRunning`, `delivering` and
records. A channel's outcome is chosen. Two task slots, as the old task may still be on its
way out when the new one starts. The timeout of a full queue marks all channels in one step, though the
code takes the lock for each. `AlertLedger` is the abstract specification: the newest
alerts by id, each channel decided once; `Post`, `Settle`, `Clear`. `AlertDispatcher`
implements it with `Listing`, the records by id.

**SafetyAlerts.** A pass is the verdict, the history entry and the engine, then `Send` or
not, then `Record`: a restart can fall between them. Seconds wrap at `SecMod`
(`millis() / 1000`) while the engine subtracts modulo 2^32. "Held" (unsafe only because of
the safe delay, or without data) is no news. The ghost `told` is what was really sent since
power-on; `excuse` says why the engine may believe otherwise: `documented` (switched off,
paused, first minute, power cut) or `lapse` (see the divergences below).

**ConditionAlerts, PhoneAlarm.** The other uses of `AlertEngine::sync()`: rain, lens, sensor,
dew, sky, battery level, charger, and the battery rule with its bits. Trackers read nothing
of each other, so a behaviour follows one condition. The engine's seconds wrap at `SecMod` here too,
so a settle time or a cooldown in progress is over at the wrap; the ghosts `held` and `spaced`
count true seconds, and `turned` those since the wrap. PhoneAlarm has the alarm's number, its
resends and the two atomics by which phones and the web page acknowledge.

**AlpacaSession.** Requests and disconnects on the web task, then the loop's watch, engine
and schedule, each a step; the schedule in NVS, connections in RTC memory. `teller` is the
client tracker, `open` the losses not answered yet. The ghost `pause` is a user's stored pause, or
one that the last app's disconnect took the place of.

**BatteryPower, FuelGauge.** A pass is `Handle` (evaluation and alerts, once a second), up to
`MaxBlock` seconds of something that blocks, and the power tick with its inputs (fresh
reading, charger lines, stored snapshot; `idle` is any answer). Charge is one of four
ranges cut at the policy's limits. Without charger lines the tick may learn of USB power from the
charge rate or may not; the hourly check cannot, its decoder is new at every look. FuelGauge has the driver and decoder while packs are
swapped: settling, misses, search, reset bit, the ten-minute rate.

**FirmwareUpdate.** The update task, the release check, uploads in chunks, the web UI's
partition, the TLS lock, the boot slot with confirmation and rollback. A download of unknown size may be cut short
and pass for whole. The ghost `alone` says that nothing disturbed the updates under way. The bootloader and
the Update library are modelled as the code relies on them (external).

**ConfigRules, SettingsDeps, SettingsStore.** ConfigRules: what a JSON document makes of the
settings, validation, what GET shows and flash keeps, backups, the restart; one behaviour
edits one area of the settings. SettingsDeps: `evaluate()` on one side, what the alert pass,
rules and Bluetooth service really do on the other. SettingsStore: `config`, the documents,
and three tasks that save, preview and restore, document by document, with restarts between.

**RainSensor, SkySensor, ObservingConditions, OledPanel.** The RG-15's poll with the state
mutex held or given up on, and the daily reset; the TSL2591's read cycle, range and window; what Alpaca,
the page and the verdict each make of one snapshot, which the loop refreshes and the web
task's settings disturb (its RG-15 is the one of `RainSensor`, cut down to its status, its last
response and the fault of its lens); the display's link, controller and driver against a panel that
remembers what it was told until it loses power.

**MqttLink, WifiLink, TimeSync, LanguagePack.** What a broker retains of the device across
drops, saves and restarts, the discovery in three steps (`Withdraw`, `Announce`, `Record`) of which any
publish may be refused and the web task may save in between; joining with a growing delay beside the setup hotspot; whom the
clock asks and what the start decides for good (`TimeSync` extends `WifiLink`); the language
file with its description, temporary file and attempt marker under several writers.

### How they fit

The modules meet at narrow interfaces. `SafetyAlerts` takes the verdicts `SafetyVerdict` can
report and treats `Send` as a call to `dispatch`. `BatteryPower` uses the snapshot and lock
outcomes of `SafetyVerdict` and does not trust the dispatcher's `idle()`.
`ConditionAlerts` extends `PhoneAlarm`, `TimeSync` extends `WifiLink`. `SettingsStore` treats
a configuration as values; `ConfigRules` says what they mean; `SettingsDeps` what they do.
`ObservingConditions` takes readings that `RainSensor` and `SkySensor` produce.

Components that share no state are checked side by side in one run: in `MCSettings` (rules,
deps), `MCFlash` (store, firmware), `MCReadings` (sky, rain, gauge, observing, display) and
`MCServices` (mqtt's armed state, mqtt's discovery, time) the variable `machine` chooses one, and the others stand
still in a single start. Their properties are those of the components, behind a name.
The other modules are run alone. Where one proof module is about two of them
(`Warnings_proofs`, `Settings_proofs`), their definitions carry the component's name
(`PowerSpec`, `LanguageSpec`).

## Runs

| Run | Module | Bounds | Shows |
|---|---|---|---|
| `safety_verdict` | MCSafetyVerdict | clock of 5 ms that wraps, a second of 2 ms, delays of 0 and 2 s, five sensor conditions, two selections of rules | `FailSafe`, `NeverSafeEarly`, `WithdrawnForAReason` (steps); `HazardReported` (liveness) |
| `dispatcher` | MCAlertDispatcher | 2 task slots, a queue of 1, 2 records, 3 alerts, 1 missed report | `OneOwner`, `NotStranded`; `DoneUnlessNoMemory` (liveness); `ImplementsLedger` (refinement) |
| `safety_alerts` | MCSafetyAlerts | grace 1 s, cooldown 2 s, ring of 3, seconds that wrap at 4 | `EngineKnowsTold`; `ToldInTheEnd` (liveness) |
| `conditions` | MCConditionAlerts | six kinds of condition (rain with the phones), grace 1, settle 2, cooldown 2, seconds that wrap at 5, 2 alarms | `NothingUndue`; `LateAckSpares` (steps); `MatchesReality` (liveness) |
| `session` | MCAlpacaSession | one followed device, silence at once, cooldown 2, 1 restart, three settings | `PauseStands`; `LossesAreAnswered` (steps); `LossIsNoticed` (liveness) |
| `power` | MCBatteryPower | warning 2 s, extra 1 s, a pass held up for 2 s, as long as the warning; monitoring, saving and charger pins each on and off | `WarnedBeforeSleep` (steps); `SleepsInTheEnd`, `WakesInTheEnd` (liveness) |
| `power_stale` | MCBatteryPower | as above, passes held up for 1 s | **violated**: `AlwaysWarned` |
| `settings` | MCSettings | nine pins and one the board does not have, six areas of settings; 3 changes of switches, levels or facts | `SettingsAreSound`, `ComesBack`, `ReportIsTrue`; `ChangesWhatItNames` (steps) |
| `flash` | MCFlash | 1 network, 2 values of each part, 3 requests; 2 update tasks, 2 uploads, symmetric | `StoreMatches`; `AppliedAsPreviewed`, `SwitchedAsAPair`, `LateDropSpares` (steps) |
| `readings` | MCReadings | five lights, windows of 1 and 2, 1 unplugging; 2 days, 2 saves of rain settings; 3 packs, 2 saves; 2 changes of sensors, a pass held up for 1; 3 display events, 2 lost commands, 2 rows | `AverageIsTrue`, `EstimateIsOfOnePack`, `ServedIsShown`, `PanelIsAsTold`; `ResetOnceADay` (steps); `RangeSettles`, `ServedInTheEnd` (liveness) |
| `language` | MCLanguagePack | 2 languages, 2 firmware versions, 2 downloads, 2 choices, 1 restart | `FileIsDescribed`; `ChoiceIsServed` (liveness) |
| `services` | MCServices | MQTT: 2 saves or restarts, four settings, one of them off; time: 1 save, 1 outage, 1 setup | `RetainedIsTrue`, `NothingLeftAnnounced`, `JoinedInTheEnd`, `ClockSetInTheEnd` (liveness) |

The bounds are small against the real constants, but each keeps the order the constants
have: the delay is longer than a tick and shorter than the wrap, the grace ends before the
cooldown, the queue is shorter than what is dispatched, the ring than what is recorded, a
pass is held up for as long as the warning, the back-off grows and has a ceiling. Every wrap, full
queue or ring, timeout and restart happens within them. Counts of saves, faults, packs and
restarts are the only true bounds: two of a kind are enough to meet one another, and all
properties but liveness are also proved for every count. Symmetry is used only in
`flash`, whose properties are about single steps. Deadlock is checked except in `flash`,
`language` and `services`, which stop when their requests are used up.

### What the code does and a text denies

`power_stale` is run. With monitoring switched off during a shutdown, `tick()` returns early
and shows normal power, but the policy keeps `ShutdownPending`; switched on again, the first
tick sleeps, unannounced (`PowerManager.cpp:115` against `docs/user-guide/battery.md:129`).

The models know the following too; where a property in a module states the text, it is
named. TLC refutes it, or a ghost excuses it.

Verdict, alerts, power, updates:
- An unsafe verdict that is dropped because its lock was not had within 100 ms does not stop the
  timer of the safe delay (`WebServerAlerts.cpp:59`, `SafeForTheWholeDelay` against
  `SafetyEvaluator.h:141`).
- After 49.7 safe days the delay filter's elapsed time wraps, and the verdict is unsafe for the
  delay with no reason (`SafetyEvaluator.h:148` calls the wrap harmless).
- Between `xQueueReceive` and `delivering = true` (`AlertDispatcher.cpp:279–301`) `idle()` is
  true with a job in hand, against `AlertDispatcher.h:93`.
- After `millis() / 1000` wraps, a cooldown or a settle time in progress is over at once (`turned`)
  and the startup grace holds again (`lapse`); boots, changes
  and pauses can push the last alert out of the ring (`docs/user-guide/alerts.md:146`, `lapse`).
- The button's acknowledgement carries no number and ends whatever alarm rings when the
  loop sees it (`WebServerAlerts.cpp:476`, `BleAlarm.h:40`).
- A pause by the user that the last app's disconnect took the place of ends when the mode is left
  (`PauseEndsAsDocumented`: `AlertSchedule.cpp:77–78`, `94` against `docs/user-guide/alerts.md:182`).
- A pass of the loop that is held up for the whole warning time sleeps unannounced: the shortest
  warning is 10 s, and an MQTT broker that accepts nothing blocks for about 10 s (`blocked`).
- Without a PG pin the hourly check does not notice charging (`ChargingIsNoticed`: its decoder,
  `PowerManager.cpp:55–69`, never calls a rate valid): the device sleeps until the charge is back.
- `checkForUpdate()` sets the phase while an update runs, which lets a second one start
  (`OtaUpdater.cpp:190`, `:283` against `OtaUpdater.h:51`). The two write one web UI, and either may
  switch to its firmware with a page that is not whole; so may an update beside an upload of the web
  UI, or one whose download was cut short with no size known (`OtaUpdater.cpp:164`):
  `SwitchedAsDocumented`, against `OtaUpdater.cpp:459–461`.

Settings:
- The pin of an anemometer that is off is not validated, so it may be one that the board does not
  have (`ConfigValidate.cpp:299`, `ConfigJsonIn.cpp:462`); a backup leaves it out
  (`BackupPreview.cpp:35`) and a restore keeps the device's own: the exception of `ComesBack`.
- A network joined while settings are saved is stored differently from what is in effect
  (`WebServerApi.cpp:193–195`, `451–459`).
- A backup with the web password switched on is refused without the passphrase
  (`ConfigValidate.cpp:117` against `specs/033-config-backup/spec.md:166`); its hardware rules
  leave the second I2C bus alone (`BackupRules.cpp:111`); whole numbers are checked in
  stored documents as well (`ConfigJsonIn.cpp:60`, `536`). GPS, rain and I2C pins may
  clash (`docs/getting-started/hardware.md:47`).
- `anyEventAt` leaves out battery events (`SettingsDeps.cpp:115`); a passkey set after boot is
  reported active while the alarm service does not run (`BleService.cpp:87`); limits to the
  dark are reported active without a clock (`ActiveIsInEffect`).

Readings:
- A TSL2591 that loses its power for less than three reads reports a dark sky
  (`NeverADarkSky`, `docs/reference/sky-quality.md:116`).
- The page can say "Live" while the verdict says stale (`LiveIsFresh`,
  `DeviceCore.cpp:335–337`); a request that misses the snapshot's lock is told of an empty one, in
  which a working sensor is NotImplemented (`AbsentOnlyIfAbsent`, `WebServer.cpp:482–500`).
- Alpaca goes on serving the rain of an RG-15 whose lens is at fault, which the verdict does not trust
  (`DeviceCore.cpp:431–432` against `471–472`). Any response keeps its readings fresh, one without a
  reading too; and with a poll interval above 30 s they go stale between polls.
- Every save with rain on resets the RG-15's reading (`main.cpp:101–112`). A schedule switched
  on or moved while the sensor is off is not taken as new, and can reset the total on its
  first day; a day that NVS refuses to store or to forget can let it reset twice
  (`docs/hardware/rg15.md:145`, ghost `lapse`).
- The display: a lost contrast or rotation command is never sent again (`NightIsDim`,
  `docs/user-guide/display.md:70`); switched on again, it does not wake as at boot
  (`SwitchedOnIsABoot`, `DisplayController.cpp:139`).

Network:
- An old MQTT topic stays "online" (`SaysGoodbye`); the second time source is never asked
  (`FallbackIsUsed`, `docs/user-guide/configuration.md:266`); a device that joins after its
  start never starts its clock (`ClockSetOnceOnline`, `main.cpp:376`).
- A publish of the discovery whose result nobody looks at (`WebServerStatus.cpp:121`) leaves an old
  entity announced, or a new one not, until the next change (`ClearedAsDocumented`,
  `docs/user-guide/mqtt.md:91`; ghosts `lost`, `short`).
- With `autoReconnect` off an outage is left to the WiFi library (`WiFiManager.cpp:86–89`).
- Reconnect delays that all stay shorter than a join cut off every attempt; in the run
  `JoinTime` is shorter than the longest delay.
- A restart between removing, renaming and describing a language file, two writers of the one
  temporary file, or a description that cannot be opened (`LanguagePack.cpp:118`) leave it named
  wrong (ghost `lapse`).

## Fairness

Fairness is claimed of the device's own tasks, never of what the outside does (settings,
restarts, power, connections, wires, users).

- `SafetyVerdict`: weak on time, strong on evaluating and recording: the locks are only held to
  copy a struct, so a waiter that tries every second does not fail for ever.
- `AlertDispatcher`: weak on the loop's queueing and each delivery task; all their waits (queue,
  TLS lock, HTTP, retry) have timeouts.
- `SafetyAlerts`, `ConditionAlerts`, `AlpacaSession`: weak on time and the loop's pass;
  `MaxGap` bounds how late a pass can be.
- `BatteryPower`: weak on `Handle`, tick and second; strong on ticks with a fresh reading, a
  charger poll, a stored snapshot, which recur; weak on an hourly check that reads the gauge.
  None on USB wake-up, as the PG pin is optional, nor on a charge rate that shows USB power.
- `SkySensor`, `ObservingConditions`: the loop runs on; strong on a due read that has
  the lock, for the reason above.
- `MqttLink`: weak on the loop's steps, strong on an armed state that a live connection accepts. The
  publishes of the discovery may fail for ever.
- `TimeSync`: weak on the loop, an attempt's end and the restart; strong on the answer of a
  time server asked again and again over a network.
- `LanguagePack`: weak on each task's next step; each of their waits has a timeout.

## Proofs

TLAPS checks these for all values of the constants that meet the named assumptions. A state
property is proved from an inductive invariant; an action property is read off a step
from that invariant; a refinement maps every step. Each invariant was checked on the run
before it was proved.

| Module | Theorems | The invariant, and why it is needed |
|---|---|---|
| SafetyVerdict_proofs | `TypeCorrect`, `Countdown`, `FailsSafe`, `SafeNeverEarly`, `SafeWithdrawnForAReason` | What justifies a change of the status lies seconds back: the filter's elapsed time never overstates the recorded spell and equals it below one wrap (`ElapsedIsSpell`), that spell is no longer than the judged one unless an unsafe verdict was dropped, a sensor that is ok has been read, and the filter runs exactly when the recorded reasons are empty |
| AlertDispatcher_proofs | `DispatcherTypeCorrect`, `SingleOwner`, `NoJobLeftBehind` | Inductive together: two tasks never own the queue because `taskRunning` is up when one does; no job is stranded because somebody will still look |
| | `DispatcherImplementsLedger` | `LedgerInv`: records are in the order of their ids (`Ordered`), no two places of the pipeline hold work for one alert (`JobsApart`), and what a job has still to do is pending in its record if that is still listed (`JobsAwaited`): so a result settles once what was undecided, of its own alert |
| SafetyAlerts_proofs | `AlertTypes`, `EngineComparesWithTold` | What a restart will find: the last alert in the ring is the one last sent, unless one is in hand or a lapse is known (`HistoryTells`, `AlertInHand`); and nothing is sent before the grace ends, within which the clock has not wrapped (`GraceHolds`, `ClockTells`) |
| Warnings_proofs | `AnnouncementsAreDue` | `TrackerTells`: the tracker's cooldown is the time since the last announcement, a change waits only while the condition differs from what was told, no longer than it was seen; both in the engine's seconds, which are true ones since the last wrap |
| | `LateAnswersEndNothing` | `AckIsNamed`: what waits in the slot is a number some phone wrote |
| | `PowerInvariance`, `PowerTypeCorrect`, `WarnsBeforeSleep` | `Progress`: an uninterrupted shutdown is shown and its one-shot pending or taken, and one pending for longer than the current pass was evaluated: so a sleep that was not comes of a pass held up for the whole warning time |
| AlpacaSession_proofs | `PauseLasts` | `PauseKept`: NVS and the schedule agree, and both hold the user's pause while it stands, or the disconnect's that took its place, or a restart could end it |
| | `EveryLossAnswered` | `AnswersOwed`: the tracker owes an answer to exactly the open losses, and these count as told, through rules and Alpaca switched off |
| Flash_proofs | `RestartFindsSettings` | `SaveOnItsWay`: a save that succeeded so far and alone has written the documents behind it, of the settings in effect |
| | `RestoreMeetsItsPreview` | `Current`: what was taken at the revision there is, is what is in effect; what moves the settings uncounted spoils the ghost `trusted` first |
| | `PairIsSwitched` | `PairInHand`: while nothing disturbs the updates one task at most is past its start, and one past the web UI left it whole |
| | `UploadsAreSpared` | `UploadGoesOn`: an image being uploaded is not one whose request was answered, so a late drop names another |
| Readings_proofs | `AveragesOneRange` | `InStep`: the chip is at the range the driver believes in, unless the sensor is being looked for or lost its power unnoticed |
| | `TotalIsResetOnce` | `DaysAgree`: without a lapse, the driver's day and the stored one agree and no reset is later; a schedule that has adopted no day has none stored, and the driver runs the saved schedule or none |
| | `EstimatesOnePack` | `RatesThePack`: the decoder averages the pack fitted unless the gauge's reset bit is about to say otherwise |
| | `ServedIsRecentlyRead` | `RainIsRecent`: a snapshot in which the rain counts as fine holds a last response that is older than the limit by the snapshot's age at most |
| | `DriverKnowsThePanel` | `AsTold`, kept by every step of a pass of the loop, whichever commands are lost |
| Settings_proofs | `SettingsStaySound` | `Kept`: what is held is valid, its time sources in order, and no field holds what only a document says. So its own document takes every field back (`StoredComesBack`), and since validation looks at the pins one group at a time, `PinsOnce` puts the groups together |
| | `BackupsComeBack` | `OwnBackup`: what a backup was made of was `Kept`; nothing is left out of it but the pin of an anemometer that is off (`LeftOut`), at which no rule looks (`RulesLookElsewhere`) |
| | `RequestsChangeWhatTheyName` | read off a step: taking a document changes what it names (`TakenNames`), putting the time sources in order changes a primary only if it is off (`NormalizedOrders`) |
| | `ReportStaysTrue` | `DepsInv` (the switches are switches): the reason reported is one of the needs that are missing (`ReasonOfTwo`), looked at event by event and rule by rule against what the alert pass and the verdict do |
| | `LanguageFileIsDescribed` | `LanguageInv`: without a lapse, one task or upload at most is at work (`OneWriter`), what it will rename and describe is what it fetched (`Ready`), and only between the two is the file ahead of its description (`Described`) |

Named assumptions say what the code has by its own constants, and TLC evaluates them in
every run. Worth knowing: `PowerAssumption` says nothing of how long a pass may be held up, beside
numbers being numbers; `ConditionAssumption` has 2^32 be larger than the wrap of the seconds by
the longest time; `AlertsAssumption` takes the grace to be at least a second and at most one wrap of
the seconds; `StoreAssumption` (in `FlashAssumption`) only keeps the constants that stand for
a missing or a damaged document apart from documents; `PanelAssumption` says that the rows are
numbered; `SettingsAssumption` keeps what a document says instead of a value (a wrong type, null,
the mask of a secret) apart from values, pins of this board from others, and events from rules
and options, and starts a device on settings that are valid (`StartAssumption`: what a
start loads is put in order and validated, `ConfigJsonIn.cpp:555`); `LanguageAssumption` has English
and "none" be no downloaded language.

Model-checked only: liveness (`HazardReported`, `DoneUnlessNoMemory`, `ToldInTheEnd`,
`MatchesReality`, `LossIsNoticed`, `SleepsInTheEnd`, `WakesInTheEnd`, `RangeSettles`,
`ServedInTheEnd`, `ChoiceIsServed`, and those of `services`). It rests on fairness, hence on
ENABLED, which is out of the prover's reach. Every state and action property of the passing
runs, and the refinement, is proved.

## Not modelled, and why

Formatting, JSON syntax, HTML, fonts, cryptography and floating-point formulas (nothing branches
on them that a range would not show); libraries and radios (WiFi, NimBLE, mbedTLS, LittleFS),
seen as outcomes; most web routes, the live sockets and DNS; ranges of single numbers; a torn
read of the global configuration or of the wind history while the other task writes it;
`lib/Readings` and `lib/NetAddress`, pure conversions; the demo build.
`PROJECT.json` lists every component with its status.

## Plan

What would come next, if the code asks for it:

1. The live sockets, with the slots that clients hold and give up.
2. The torn reads of the configuration, if a field of it grows that two parts must agree on.
3. An abstract specification of `SettingsStore` (a save takes effect and is stored, or is
   reported as failed), refined as `AlertLedger` is.
