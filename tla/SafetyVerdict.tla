--------------------------- MODULE SafetyVerdict ---------------------------
(***************************************************************************)
(* The SafetyMonitor verdict: the sensor snapshot the loop task refreshes, *)
(* the rule evaluation (lib/AlpacaLogic SafetyEvaluator), the safe delay   *)
(* that holds a safe verdict back, and the status the Alpaca, web, MQTT    *)
(* and alert code read.                                                    *)
(*                                                                         *)
(* Time is the device's millisecond clock: it wraps at MsMod (2^32 in the  *)
(* firmware) and MsPerSec of its ticks make one second.  A reading's value *)
(* is abstracted to what the rules tell apart: within or beyond its limit. *)
(***************************************************************************)
EXTENDS Naturals

CONSTANTS
    MsMod,       \* where the millisecond clock wraps (2^32 in the firmware)
    MsPerSec,    \* clock ticks per second (1000 in the firmware)
    StaleAfter,  \* seconds: the owner's stale limit plus the power-saving extra
    Delays,      \* the values of the safe delay setting, in seconds
    RuleSets,    \* the rule selections the settings can hold
    Conditions,  \* what a sensor pass can read
    MaxSpell     \* bound of the ghost clocks `spell` and `sinceUnsafe`

ASSUME ClockAssumption ==
    /\ MsPerSec \in Nat \ {0}
    /\ MsMod \in Nat \ {0}
    /\ MaxSpell \in Nat /\ MaxSpell >= MsMod
    /\ StaleAfter \in Nat
    /\ Delays \subseteq Nat

Rules == {"manual", "cloud", "sqm", "humidity", "dew", "rain", "rainRequired",
          "wind", "gust", "battery"}

Condition == [light : {"ok", "fault", "silent"}, ir : {"ok", "fault", "silent"},
              cloudy : BOOLEAN, bright : BOOLEAN,
              air : {"fault", "ok"}, humid : BOOLEAN, dewy : BOOLEAN,
              rainOn : BOOLEAN, rainHealthy : BOOLEAN, raining : BOOLEAN,
              wind : {"off", "fault", "ok"}, windy : BOOLEAN, gusty : BOOLEAN,
              battery : {"none", "charged", "low"}, shutdown : BOOLEAN]

ASSUME SettingsAssumption ==
    RuleSets \subseteq SUBSET Rules /\ Conditions \subseteq Condition

Reasons == {"ManualOverride", "NoData", "StaleData", "SensorFault", "CloudCover",
            "SkyBright", "Humidity", "Dewpoint", "EnvironmentFault", "Rain",
            "RainSensorFault", "Wind", "WindGust", "WindSensorFault",
            "BatteryLow", "BatteryData", "Shutdown"}

VARIABLES
    now,        \* millis()
    snap,       \* the sensor snapshot: the condition it holds
    lightAge,   \* ms since the light sensor's last good read, Never before one
    irAge,      \* the same for the IR sky sensor
    rules,      \* the rules switched on
    safeDelay,  \* the safe delay setting, in seconds
    pc,         \* the loop task: "idle", or "judged" between the evaluation and the lock
    fresh,      \* the reasons just evaluated, before they are recorded
    filter,     \* SafeDelayFilter
    status,     \* the SafetyStatus everyone reads
    spell,       \* ghost: true ms since the filter's timer was started
    sinceUnsafe, \* ghost: the part of it since the last unsafe verdict, recorded or not
    missed       \* ghost: an unsafe verdict was judged in this spell and never recorded

sensors == <<snap, lightAge, irAge>>
settings == <<rules, safeDelay>>
verdict == <<filter, status, spell>>
judged == <<sinceUnsafe, missed>>
vars == <<now, sensors, settings, pc, fresh, verdict, judged>>

-----------------------------------------------------------------------------
(* The clock and the sensor ages                                           *)

StaleMs == (StaleAfter + 1) * MsPerSec  \* the first age that counts as stale
AgeCap == StaleMs                       \* no rule tells older ages apart
Never == AgeCap + 1                     \* a sensor that was never read
Ages == 0..Never

After(t) == IF t + 1 = MsMod THEN 0 ELSE t + 1
Older(age) == IF age < AgeCap THEN age + 1 ELSE age

\* wrong variant: a subtraction that saturates at the wrap
ElapsedSaturating(t, since) == IF t >= since THEN t - since ELSE 0

\* uint32_t subtraction
Elapsed(t, since) == IF t >= since THEN t - since ELSE t + MsMod - since

ReadAge(source, age) == IF source = "ok" THEN 0 ELSE age

Larger(a, b) == IF a >= b THEN a ELSE b
Smaller(a, b) == IF a <= b THEN a ELSE b

EverRead(la, ia) == la # Never \/ ia # Never

\* The oldest of the required sensors that answer; when none does, the
\* youngest reading there ever was.
RequiredAge(c, la, ia) ==
    LET light == c.light # "fault" /\ la # Never
        ir    == c.ir # "fault" /\ ia # Never
    IN  CASE light /\ ir  -> Larger(la, ia)
          [] light /\ ~ir -> la
          [] ~light /\ ir -> ia
          [] OTHER        -> Smaller(la, ia)

Stale(c, la, ia) == RequiredAge(c, la, ia) \div MsPerSec > StaleAfter
Fresh(c, la, ia) == EverRead(la, ia) /\ ~Stale(c, la, ia)

-----------------------------------------------------------------------------
(* evaluateSafety                                                          *)

If(condition, reason) == IF condition THEN {reason} ELSE {}

RainReasons(c, r) ==
    If(c.rainOn /\ "rain" \in r /\ c.raining, "Rain")
      \union If(c.rainOn /\ "rainRequired" \in r /\ ~c.rainHealthy, "RainSensorFault")

WindReasons(c, r) ==
    IF r \intersect {"wind", "gust"} = {} THEN {}
    ELSE IF c.wind # "ok" THEN {"WindSensorFault"}
    ELSE If("wind" \in r /\ c.windy, "Wind") \union If("gust" \in r /\ c.gusty, "WindGust")

BatteryReasons(c, r) ==
    If(c.shutdown, "Shutdown")
      \union If("battery" \in r /\ c.battery = "none", "BatteryData")
      \union If("battery" \in r /\ c.battery = "low", "BatteryLow")

FreshnessReasons(c, la, ia) ==
    If(~EverRead(la, ia), "NoData")
      \union If(EverRead(la, ia) /\ Stale(c, la, ia), "StaleData")

\* wrong variant: the light sensor is not a required one
SensorReasonsIrOnly(c) == If(c.ir = "fault", "SensorFault")
SensorReasons(c) == If(c.light = "fault" \/ c.ir = "fault", "SensorFault")

SkyReasons(c, r) ==
    If("cloud" \in r /\ c.ir # "fault" /\ c.cloudy, "CloudCover")
      \union If("sqm" \in r /\ c.light # "fault" /\ c.bright, "SkyBright")

AirReasons(c, r) ==
    IF c.air = "fault"
    THEN If(r \intersect {"humidity", "dew"} # {}, "EnvironmentFault")
    ELSE If("humidity" \in r /\ c.humid, "Humidity") \union If("dew" \in r /\ c.dewy, "Dewpoint")

UnsafeReasons(c, la, ia, r) ==
    If("manual" \in r, "ManualOverride")
      \union RainReasons(c, r)
      \union WindReasons(c, r)
      \union BatteryReasons(c, r)
      \union FreshnessReasons(c, la, ia)
      \union SensorReasons(c)
      \union (IF Fresh(c, la, ia) THEN SkyReasons(c, r) \union AirReasons(c, r) ELSE {})

\* The empty snapshot a reader gets when the snapshot lock times out: no
\* sensor was ever read.  Whether the rain sensor is on is a setting.
NoSnapshot(c) ==
    [light |-> "fault", ir |-> "fault", cloudy |-> FALSE, bright |-> FALSE,
     air |-> "fault", humid |-> FALSE, dewy |-> FALSE,
     rainOn |-> c.rainOn, rainHealthy |-> FALSE, raining |-> FALSE,
     wind |-> "fault", windy |-> FALSE, gusty |-> FALSE,
     battery |-> "none", shutdown |-> FALSE]

-----------------------------------------------------------------------------
(* SafeDelayFilter and Core::updateSafety                                  *)

Idle == [running |-> FALSE, since |-> 0]
Unevaluated == [evaluated |-> FALSE, isSafe |-> FALSE, reasons |-> {}, untilSafe |-> 0]

Held == IF filter.running THEN filter ELSE [running |-> TRUE, since |-> now]

Remaining(f) ==
    LET elapsed == Elapsed(now, f.since) \div MsPerSec
    IN  IF elapsed >= safeDelay THEN 0 ELSE safeDelay - elapsed

TypeOK ==
    /\ now \in 0..(MsMod - 1)
    /\ snap \in Condition
    /\ lightAge \in Ages /\ irAge \in Ages
    /\ rules \subseteq Rules
    /\ safeDelay \in Nat
    /\ pc \in {"idle", "judged"}
    /\ fresh \subseteq Reasons
    /\ filter \in [running : BOOLEAN, since : 0..(MsMod - 1)]
    /\ status \in [evaluated : BOOLEAN, isSafe : BOOLEAN,
                   reasons : SUBSET Reasons, untilSafe : Nat]
    /\ spell \in 0..MaxSpell
    /\ sinceUnsafe \in 0..MaxSpell
    /\ missed \in BOOLEAN

\* Before their first good read the sensors report no status of "ok".
Unread == {c \in Conditions : c.light = "fault" /\ c.ir = "fault"}

Init ==
    /\ now = 0
    /\ snap \in Unread /\ lightAge = Never /\ irAge = Never
    /\ rules \in RuleSets /\ safeDelay \in Delays
    /\ pc = "idle" /\ fresh = {}
    /\ filter = Idle /\ status = Unevaluated /\ spell = 0
    /\ sinceUnsafe = 0 /\ missed = FALSE

-----------------------------------------------------------------------------
(* A millisecond passes. *)
Tick ==
    /\ now' = After(now)
    /\ lightAge' = (IF lightAge = Never THEN Never ELSE Older(lightAge))
    /\ irAge' = (IF irAge = Never THEN Never ELSE Older(irAge))
    /\ spell' = (IF filter.running /\ spell < MaxSpell THEN spell + 1 ELSE spell)
    /\ sinceUnsafe' = (IF filter.running /\ sinceUnsafe < MaxSpell THEN sinceUnsafe + 1 ELSE sinceUnsafe)
    /\ UNCHANGED <<snap, settings, pc, fresh, filter, status, missed>>

(* loop(): the sensors are read and the snapshot refreshed.  A snapshot     *)
(* whose lock times out is dropped: the old one stays (a step that changes  *)
(* nothing).  A sensor that never answered reports a fault.                 *)
Refresh ==
    /\ pc = "idle"
    /\ \E c \in Conditions :
          /\ c.light = "silent" => lightAge # Never
          /\ c.ir = "silent" => irAge # Never
          /\ snap' = c
          /\ lightAge' = ReadAge(c.light, lightAge)
          /\ irAge' = ReadAge(c.ir, irAge)
    /\ UNCHANGED <<now, settings, pc, fresh, verdict, judged>>

(* WebServer::updateSafetyStatus, first half: the rules are evaluated on a  *)
(* copy of the snapshot.                                                    *)
EvaluateWith(c, la, ia) ==
    /\ pc = "idle"
    /\ fresh' = UnsafeReasons(c, la, ia, rules)
    /\ pc' = "judged"
    /\ sinceUnsafe' = (IF fresh' = {} THEN sinceUnsafe ELSE 0)
    /\ UNCHANGED <<now, sensors, settings, verdict, missed>>

\* wrong variant: nothing is judged while the data is stale
EvaluateFreshOnly ==
    Fresh(snap, lightAge, irAge) /\ EvaluateWith(snap, lightAge, irAge)

Evaluate == EvaluateWith(snap, lightAge, irAge)

(* ... or on an empty one, when its lock could not be had in 20 ms. *)
EvaluateBlind == EvaluateWith(NoSnapshot(snap), Never, Never)

\* wrong variant: an unsafe verdict leaves the delay timer running
RecordUnsafeTimerRuns ==
    /\ pc = "judged" /\ fresh # {}
    /\ status' = [evaluated |-> TRUE, isSafe |-> FALSE, reasons |-> fresh, untilSafe |-> 0]
    /\ spell' = 0 /\ sinceUnsafe' = 0 /\ missed' = FALSE
    /\ pc' = "idle" /\ fresh' = {}
    /\ UNCHANGED <<now, sensors, settings, filter>>

(* WebServer::updateSafetyStatus, second half: the delay filter runs and    *)
(* the status is replaced, under the safety lock.                           *)
RecordUnsafe ==
    /\ pc = "judged" /\ fresh # {}
    /\ filter' = [filter EXCEPT !.running = FALSE]
    /\ status' = [evaluated |-> TRUE, isSafe |-> FALSE, reasons |-> fresh, untilSafe |-> 0]
    /\ spell' = 0 /\ sinceUnsafe' = 0 /\ missed' = FALSE
    /\ pc' = "idle" /\ fresh' = {}
    /\ UNCHANGED <<now, sensors, settings>>

RecordSafe ==
    /\ pc = "judged" /\ fresh = {}
    /\ filter' = Held
    /\ status' = [evaluated |-> TRUE, isSafe |-> Remaining(Held) = 0,
                  reasons |-> {}, untilSafe |-> Remaining(Held)]
    /\ pc' = "idle"
    /\ UNCHANGED <<now, sensors, settings, fresh, spell, judged>>

(* The safety lock timed out: this evaluation is not recorded.  One that    *)
(* found a reason leaves the delay timer running all the same.              *)
RecordNothing ==
    /\ pc = "judged"
    /\ pc' = "idle" /\ fresh' = {}
    /\ missed' = (missed \/ (filter.running /\ fresh # {}))
    /\ UNCHANGED <<now, sensors, settings, verdict, sinceUnsafe>>

(* The web task saves new settings, at any point of the loop task's pass. *)
SaveSettings ==
    /\ rules' \in RuleSets /\ safeDelay' \in Delays
    /\ UNCHANGED <<now, sensors, pc, fresh, verdict, judged>>

(* A crash, a watchdog or a planned restart: all but the settings is lost. *)
Restart ==
    /\ now' = 0
    /\ snap' \in Unread /\ lightAge' = Never /\ irAge' = Never
    /\ pc' = "idle" /\ fresh' = {}
    /\ filter' = Idle /\ status' = Unevaluated /\ spell' = 0
    /\ sinceUnsafe' = 0 /\ missed' = FALSE
    /\ UNCHANGED settings

Next ==
    \/ Tick
    \/ Refresh
    \/ Evaluate
    \/ EvaluateBlind
    \/ RecordUnsafe
    \/ RecordSafe
    \/ RecordNothing
    \/ SaveSettings
    \/ Restart

Spec == Init /\ [][Next]_vars

-----------------------------------------------------------------------------
(* What the verdict promises                                               *)

\* What makes "safe" true: every rule that is on was judged on a sensor that
\* answers, on fresh data, and found its reading within the limit.
Justified(c, la, ia, r) ==
    /\ "manual" \notin r /\ ~c.shutdown
    /\ c.light # "fault" /\ la < StaleMs
    /\ c.ir # "fault" /\ ia < StaleMs
    /\ "cloud" \in r => ~c.cloudy
    /\ "sqm" \in r => ~c.bright
    /\ "humidity" \in r => c.air = "ok" /\ ~c.humid
    /\ "dew" \in r => c.air = "ok" /\ ~c.dewy
    /\ "rain" \in r /\ c.rainOn => ~c.raining
    /\ "rainRequired" \in r /\ c.rainOn => c.rainHealthy
    /\ "wind" \in r => c.wind = "ok" /\ ~c.windy
    /\ "gust" \in r => c.wind = "ok" /\ ~c.gusty
    /\ "battery" \in r => c.battery = "charged"

\* An evaluation without a reason is only ever reached with every rule that is
\* on judged and passed: a sensor that is off, faulted or stale, or a snapshot
\* that could not be read, fails safe (evaluateSafety).
FailSafe ==
    [][pc = "idle" /\ pc' = "judged" /\ fresh' = {}
         => Justified(snap, lightAge, irAge, rules)]_vars

TurnsSafe == status'.isSafe /\ ~status.isSafe
DelayMs == safeDelay * MsPerSec

\* The reported verdict turns safe only when the rules have judged nothing
\* unsafe for the whole safe delay in force, however settings, restarts and the
\* wrap of the millisecond clock fall in between (SafeDelayFilter::update).
\* One exception, and only this one: an unsafe verdict that updateSafetyStatus
\* dropped because it did not get its lock never stopped the timer.
NeverSafeEarly ==
    [][TurnsSafe => /\ spell' >= DelayMs
                    /\ sinceUnsafe' >= DelayMs \/ missed']_vars

\* What SafetyEvaluator.h says of the filter, without the exception ("the raw
\* verdict has been safe for delaySec").  The code does not keep it: see above.
SafeForTheWholeDelay == [][TurnsSafe => sinceUnsafe' >= DelayMs]_vars

\* What is reported is held back exactly while a countdown runs: an evaluated
\* status is safe, or unsafe with reasons, or unsafe with seconds left.  The
\* alert engine reads "held back" out of this (alertInputs, safetySettling).
HeldHasCountdown ==
    status.evaluated => /\ status.isSafe <=> status.reasons = {} /\ status.untilSafe = 0
                        /\ filter.running <=> status.reasons = {}

\* A verdict reported safe is only withdrawn for a reason (or because a longer
\* safe delay was saved): never by the delay filter alone, as long as the safe
\* spell is shorter than the wrap of the clock (49.7 days).
WithdrawnForAReason ==
    [][status.isSafe /\ ~status'.isSafe /\ status'.evaluated
         /\ safeDelay * MsPerSec <= spell /\ spell < MsMod
         => status'.reasons # {}]_vars

-----------------------------------------------------------------------------
(* Liveness: the loop task keeps running, and the locks, which are only ever *)
(* held for a copy, are had again and again.                                 *)
Fairness ==
    /\ WF_vars(Tick)
    /\ SF_vars(Evaluate)
    /\ SF_vars(RecordUnsafe)
    /\ SF_vars(RecordSafe)

LiveSpec == Spec /\ Fairness

JudgedUnsafe == UnsafeReasons(snap, lightAge, irAge, rules) # {}

\* Bad weather, a dead sensor or a rule that fails for good ends in an unsafe
\* report, whatever the locks, the settings and restarts do meanwhile
\* (updateSafetyStatus keeps evaluating; nothing latches a safe verdict).
HazardReported == <>[]JudgedUnsafe => <>[](~status.isSafe)
=============================================================================
