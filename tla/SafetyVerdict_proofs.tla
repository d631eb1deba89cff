------------------------ MODULE SafetyVerdict_proofs ------------------------
(***************************************************************************)
(* Proofs about SafetyVerdict, for every clock width, delay setting, rule  *)
(* selection and sensor condition.                                         *)
(***************************************************************************)
EXTENDS SafetyVerdict, Integers, TLAPS

\* What the filter knows of the true length of the safe spell: the wrapped
\* subtraction never overstates it, and is exact while the spell is shorter
\* than the clock's wrap.
ElapsedIsSpell ==
    filter.running => /\ Elapsed(now, filter.since) <= spell
                      /\ spell < MsMod => Elapsed(now, filter.since) = spell

\* As long as no unsafe verdict was lost, the spell is as long as the rules have
\* judged nothing unsafe; the verdict just judged is yet to be recorded.
NothingMissedMeansSafe ==
    filter.running /\ ~missed /\ fresh = {} => sinceUnsafe = spell

\* Only an evaluation that is yet to be recorded has reasons at hand.
IdleHasNothingFresh == pc = "idle" => fresh = {}

\* A sensor that reports "ok" has been read.
AnswersWereRead ==
    /\ snap.light # "fault" => lightAge # Never
    /\ snap.ir # "fault" => irAge # Never

\* The status is what the filter said of the last recorded evaluation.
NotRunningMeansReasons ==
    /\ status.evaluated => (filter.running <=> status.reasons = {})
    /\ ~status.evaluated => ~filter.running /\ ~status.isSafe
    /\ ~filter.running => spell = 0 /\ sinceUnsafe = 0 /\ ~missed

IInv == /\ TypeOK
        /\ ElapsedIsSpell
        /\ NothingMissedMeansSafe
        /\ IdleHasNothingFresh
        /\ AnswersWereRead
        /\ HeldHasCountdown
        /\ NotRunningMeansReasons

-----------------------------------------------------------------------------
\* Whole seconds: as many as fit, so a count of seconds reached means that many
\* milliseconds have passed.
LEMMA WholeSeconds ==
    ASSUME NEW ms \in Nat, NEW n \in Nat, NEW unit \in Nat \ {0}
    PROVE  (ms \div unit) \in Nat /\ (ms \div unit >= n <=> ms >= n * unit)
<1> DEFINE q == ms \div unit
           r == ms % unit
<1>1. q \in Int /\ r \in Int /\ 0 <= r /\ r < unit
  OBVIOUS
<1>2. ms = unit * q + r
  OBVIOUS
<1>3. q \in Nat
  <2>1. SUFFICES ASSUME q <= -1 PROVE FALSE
    BY <1>1
  <2>2. unit * q <= -unit
    BY <1>1, <2>1
  <2> QED BY <1>1, <1>2, <2>2
<1> HIDE DEF q, r
<1>4. q >= n => ms >= n * unit
  <2>1. SUFFICES ASSUME q >= n PROVE unit * q >= unit * n
    BY <1>1, <1>2, <1>3
  <2> QED BY <1>3, <2>1
<1>5. q < n => ms < n * unit
  <2>1. SUFFICES ASSUME q + 1 <= n PROVE unit * (q + 1) <= unit * n
    BY <1>1, <1>2, <1>3
  <2> QED BY <1>3, <2>1
<1> QED BY <1>3, <1>4, <1>5 DEF q

\* A tick moves the wrapped subtraction on by one, or back to zero.
LEMMA ElapsedAfter ==
    ASSUME NEW t \in 0..(MsMod - 1), NEW since \in 0..(MsMod - 1)
    PROVE  /\ After(t) \in 0..(MsMod - 1)
           /\ Elapsed(t, since) \in 0..(MsMod - 1)
           /\ Elapsed(After(t), since) =
                IF Elapsed(t, since) + 1 = MsMod THEN 0 ELSE Elapsed(t, since) + 1
BY ClockAssumption DEF After, Elapsed

LEMMA AgeTypes ==
    /\ StaleMs \in Nat /\ StaleMs > 0 /\ Never \in Nat /\ Never = StaleMs + 1
    /\ Ages = 0..Never /\ AgeCap = StaleMs
<1>1. (StaleAfter + 1) * MsPerSec \in Nat /\ (StaleAfter + 1) * MsPerSec > 0
  BY ClockAssumption
<1> QED BY <1>1 DEF StaleMs, AgeCap, Never, Ages

LEMMA ReasonTypes ==
    ASSUME NEW c, NEW la, NEW ia, NEW r
    PROVE  UnsafeReasons(c, la, ia, r) \subseteq Reasons
BY DEF UnsafeReasons, RainReasons, WindReasons, BatteryReasons, FreshnessReasons,
       SensorReasons, SkyReasons, AirReasons, If, Reasons

\* The countdown the filter computes is zero exactly when the elapsed time, as
\* the wrapped clock shows it, reaches the delay.
LEMMA RemainingTypes ==
    ASSUME TypeOK
    PROVE  /\ Held \in [running : BOOLEAN, since : 0..(MsMod - 1)]
           /\ Held.running
           /\ Remaining(Held) \in Nat
           /\ Remaining(Held) = 0 <=> Elapsed(now, Held.since) >= safeDelay * MsPerSec
<1>1. Held \in [running : BOOLEAN, since : 0..(MsMod - 1)] /\ Held.running
  BY DEF TypeOK, Held
<1>2. Elapsed(now, Held.since) \in Nat
  <2>1. now \in 0..(MsMod - 1) /\ Held.since \in 0..(MsMod - 1)
    BY <1>1 DEF TypeOK
  <2>2. Elapsed(now, Held.since) \in 0..(MsMod - 1)
    BY <2>1, ElapsedAfter
  <2> QED BY <2>2, ClockAssumption
<1>3. safeDelay \in Nat /\ MsPerSec \in Nat \ {0}
  BY ClockAssumption DEF TypeOK
<1> DEFINE e == Elapsed(now, Held.since)
<1>4. (e \div MsPerSec) \in Nat /\ (e \div MsPerSec >= safeDelay <=> e >= safeDelay * MsPerSec)
  BY <1>2, <1>3, WholeSeconds
<1>5. Remaining(Held) = IF e \div MsPerSec >= safeDelay THEN 0 ELSE safeDelay - (e \div MsPerSec)
  BY DEF Remaining
<1> HIDE DEF e
<1>6. Remaining(Held) \in Nat /\ (Remaining(Held) = 0 <=> e \div MsPerSec >= safeDelay)
  BY <1>3, <1>4, <1>5
<1> QED BY <1>1, <1>4, <1>6 DEF e

-----------------------------------------------------------------------------
\* What a device that has just started holds (setup()) satisfies the invariant.
THEOREM InitIInv == Init => IInv
<1> SUFFICES ASSUME Init PROVE IInv
  OBVIOUS
<1>1. TypeOK
  <2>1. spell \in 0..MaxSpell /\ sinceUnsafe \in 0..MaxSpell
    BY ClockAssumption DEF Init
  <2>2. missed \in BOOLEAN
    BY Zenon DEF Init
  <2> QED BY <2>1, <2>2, AgeTypes, ClockAssumption, SettingsAssumption
          DEF Init, TypeOK, Unread, Idle, Unevaluated
<1> QED BY <1>1 DEF Init, IInv, ElapsedIsSpell, NothingMissedMeansSafe,
     IdleHasNothingFresh, AnswersWereRead, HeldHasCountdown,
     NotRunningMeansReasons, Unread, Idle, Unevaluated

LEMMA TypeStep == TypeOK /\ [Next]_vars => TypeOK'
<1> SUFFICES ASSUME TypeOK, [Next]_vars PROVE TypeOK'
  OBVIOUS
<1>1. CASE Tick
  <2>1. now' \in 0..(MsMod - 1)
    BY <1>1, ClockAssumption DEF TypeOK, Tick, After
  <2>2. lightAge' \in Ages /\ irAge' \in Ages
    BY <1>1, AgeTypes DEF TypeOK, Tick, Older
  <2>3. spell' \in 0..MaxSpell /\ sinceUnsafe' \in 0..MaxSpell
    BY <1>1, ClockAssumption DEF TypeOK, Tick
  <2> QED BY <1>1, <2>1, <2>2, <2>3 DEF TypeOK, Tick, settings
<1>2. CASE Refresh
  BY <1>2, AgeTypes, SettingsAssumption DEF TypeOK, Refresh, ReadAge, settings, verdict, judged
<1>3. ASSUME NEW c, NEW la, NEW ia, EvaluateWith(c, la, ia) PROVE TypeOK'
  <2>1. sinceUnsafe' \in 0..MaxSpell
    BY <1>3, ClockAssumption DEF TypeOK, EvaluateWith
  <2> QED BY <1>3, <2>1, ReasonTypes DEF TypeOK, EvaluateWith, sensors, settings, verdict
<1>4. CASE RecordUnsafe
  <2>1. filter' \in [running : BOOLEAN, since : 0..(MsMod - 1)]
    BY <1>4 DEF TypeOK, RecordUnsafe
  <2>2. spell' \in 0..MaxSpell /\ sinceUnsafe' \in 0..MaxSpell
    BY <1>4, ClockAssumption DEF RecordUnsafe
  <2>3. status' \in [evaluated : BOOLEAN, isSafe : BOOLEAN,
                     reasons : SUBSET Reasons, untilSafe : Nat]
    BY <1>4 DEF TypeOK, RecordUnsafe
  <2> QED BY <1>4, <2>1, <2>2, <2>3 DEF TypeOK, RecordUnsafe, sensors, settings
<1>5. CASE RecordSafe
  BY <1>5, RemainingTypes DEF TypeOK, RecordSafe, sensors, settings, judged
<1>6. CASE RecordNothing
  BY <1>6 DEF TypeOK, RecordNothing, sensors, settings, verdict, judged
<1>7. CASE SaveSettings
  BY <1>7, ClockAssumption, SettingsAssumption DEF TypeOK, SaveSettings, sensors, verdict, judged
<1>8. CASE Restart
  <2>1. spell' \in 0..MaxSpell /\ sinceUnsafe' \in 0..MaxSpell
    BY <1>8, ClockAssumption DEF Restart
  <2>2. missed' \in BOOLEAN
    BY <1>8, Zenon DEF Restart
  <2> QED BY <1>8, <2>1, <2>2, AgeTypes, ClockAssumption, SettingsAssumption
          DEF TypeOK, Restart, Unread, Idle, Unevaluated, settings
<1>9. CASE UNCHANGED vars
  BY <1>9 DEF TypeOK, vars, sensors, settings, verdict, judged
<1> QED BY <1>1, <1>2, <1>3, <1>4, <1>5, <1>6, <1>7, <1>8, <1>9
     DEF Next, Evaluate, EvaluateBlind

LEMMA IInvStep == IInv /\ [Next]_vars => IInv'
<1> SUFFICES ASSUME IInv, [Next]_vars PROVE IInv'
  OBVIOUS
<1>t. TypeOK /\ TypeOK'
  BY TypeStep DEF IInv
<1> USE DEF IInv
<1>1. CASE Tick
  <2>1. ElapsedIsSpell'
    <3> DEFINE e == Elapsed(now, filter.since)
    <3>1. /\ e \in 0..(MsMod - 1)
          /\ Elapsed(After(now), filter.since) = IF e + 1 = MsMod THEN 0 ELSE e + 1
      <4>1. now \in 0..(MsMod - 1) /\ filter.since \in 0..(MsMod - 1)
        BY <1>t DEF TypeOK
      <4> QED BY <4>1, ElapsedAfter
    <3>2. /\ filter' = filter /\ now' = After(now)
          /\ filter.running => spell' = IF spell < MaxSpell THEN spell + 1 ELSE spell
      BY <1>1 DEF Tick
    <3>3. spell \in 0..MaxSpell /\ (filter.running => e <= spell /\ (spell < MsMod => e = spell))
      BY <1>t DEF TypeOK, ElapsedIsSpell
    <3> HIDE DEF e
    <3>4. CASE filter.running
      <4>1. /\ Elapsed(After(now), filter.since) <= spell'
            /\ spell' < MsMod => Elapsed(After(now), filter.since) = spell'
        BY <3>1, <3>2, <3>3, <3>4, ClockAssumption
      <4> QED BY <3>2, <4>1 DEF ElapsedIsSpell
    <3>5. CASE ~filter.running
      BY <3>2, <3>5 DEF ElapsedIsSpell
    <3> QED BY <3>4, <3>5
  <2>2. AnswersWereRead'
    BY <1>1, <1>t, AgeTypes DEF Tick, AnswersWereRead, Older, TypeOK
  <2>3. NothingMissedMeansSafe'
    BY <1>1 DEF Tick, NothingMissedMeansSafe
  <2> QED BY <1>1, <1>t, <2>1, <2>2, <2>3
          DEF Tick, HeldHasCountdown, NotRunningMeansReasons, IdleHasNothingFresh
<1>2. CASE Refresh
  <2>1. AnswersWereRead'
    BY <1>2, <1>t, AgeTypes, SettingsAssumption
       DEF Refresh, AnswersWereRead, ReadAge, TypeOK, Condition
  <2> QED BY <1>2, <1>t, <2>1
       DEF Refresh, verdict, judged, ElapsedIsSpell, NothingMissedMeansSafe,
     IdleHasNothingFresh, HeldHasCountdown, NotRunningMeansReasons
<1>3. ASSUME NEW c, NEW la, NEW ia, EvaluateWith(c, la, ia) PROVE IInv'
  <2>1. NothingMissedMeansSafe' /\ NotRunningMeansReasons'
    <3>1. /\ UNCHANGED <<filter, status, spell, missed>>
          /\ fresh' = {} => fresh = {} /\ sinceUnsafe' = sinceUnsafe
          /\ sinceUnsafe' = sinceUnsafe \/ sinceUnsafe' = 0
      BY <1>3 DEF EvaluateWith, verdict, IdleHasNothingFresh
    <3> QED BY <3>1 DEF NothingMissedMeansSafe, NotRunningMeansReasons
  <2> QED BY <1>3, <1>t, <2>1 DEF EvaluateWith, sensors, verdict, ElapsedIsSpell,
          AnswersWereRead, HeldHasCountdown, IdleHasNothingFresh
<1>4. CASE RecordUnsafe
  BY <1>4, <1>t DEF RecordUnsafe, sensors, ElapsedIsSpell, NothingMissedMeansSafe,
     IdleHasNothingFresh, AnswersWereRead,
     HeldHasCountdown, NotRunningMeansReasons, TypeOK
<1>5. CASE RecordSafe
  <2>1. ElapsedIsSpell'
    <3>1. CASE filter.running
      BY <1>5, <1>t, <3>1 DEF RecordSafe, Held, ElapsedIsSpell
    <3>2. CASE ~filter.running
      <4>1. filter'.since = now /\ now' = now /\ spell' = spell
        BY <1>5, <3>2 DEF RecordSafe, Held
      <4>2. Elapsed(now, now) = 0
        BY <1>t, ClockAssumption DEF Elapsed, TypeOK
      <4>3. spell = 0
        BY <3>2 DEF NotRunningMeansReasons
      <4> QED BY <4>1, <4>2, <4>3 DEF ElapsedIsSpell
    <3> QED BY <3>1, <3>2
  <2>2. HeldHasCountdown' /\ NotRunningMeansReasons'
    BY <1>5, <1>t, RemainingTypes DEF RecordSafe, HeldHasCountdown, NotRunningMeansReasons
  <2>3. NothingMissedMeansSafe'
    <3>1. filter.running \/ (spell = 0 /\ sinceUnsafe = 0)
      BY DEF NotRunningMeansReasons
    <3> QED BY <1>5, <3>1 DEF RecordSafe, judged, NothingMissedMeansSafe
  <2> QED BY <1>5, <1>t, <2>1, <2>2, <2>3
          DEF RecordSafe, sensors, AnswersWereRead, IdleHasNothingFresh
<1>6. CASE RecordNothing
  BY <1>6, <1>t DEF RecordNothing, sensors, verdict, judged, ElapsedIsSpell, NothingMissedMeansSafe,
     IdleHasNothingFresh, AnswersWereRead,
     HeldHasCountdown, NotRunningMeansReasons
<1>7. CASE SaveSettings
  BY <1>7, <1>t DEF SaveSettings, sensors, verdict, judged, ElapsedIsSpell, NothingMissedMeansSafe,
     IdleHasNothingFresh, AnswersWereRead,
     HeldHasCountdown, NotRunningMeansReasons
<1>8. CASE Restart
  BY <1>8, <1>t DEF Restart, Unread, Idle, Unevaluated, ElapsedIsSpell, NothingMissedMeansSafe,
     IdleHasNothingFresh, AnswersWereRead,
     HeldHasCountdown, NotRunningMeansReasons
<1>9. CASE UNCHANGED vars
  BY <1>9, <1>t DEF vars, sensors, verdict, judged, ElapsedIsSpell, NothingMissedMeansSafe,
     IdleHasNothingFresh, AnswersWereRead,
     HeldHasCountdown, NotRunningMeansReasons
<1> QED BY <1>1, <1>2, <1>3, <1>4, <1>5, <1>6, <1>7, <1>8, <1>9
     DEF Next, Evaluate, EvaluateBlind

\* The inductive invariant holds of every behaviour, for every clock width,
\* delay and rule selection: the verdict, the filter and the ghost spell agree.
THEOREM Invariance == Spec => []IInv
<1>1. Init => IInv BY InitIInv
<1>2. IInv /\ [Next]_vars => IInv' BY IInvStep
<1> QED BY <1>1, <1>2, PTL DEF Spec

\* Every variable keeps its type.
THEOREM TypeCorrect == Spec => []TypeOK
<1>1. IInv => TypeOK BY DEF IInv
<1> QED BY <1>1, Invariance, PTL

\* An evaluated status is safe, or unsafe with reasons, or held back by a
\* running countdown; nothing else.
THEOREM Countdown == Spec => []HeldHasCountdown
<1>1. IInv => HeldHasCountdown BY DEF IInv
<1> QED BY <1>1, Invariance, PTL

-----------------------------------------------------------------------------
\* No reason means both sky sensors answered with fresh data and every rule
\* that is on was judged within its limit.
LEMMA NoReasonIsJustified ==
    ASSUME TypeOK, AnswersWereRead,
           UnsafeReasons(snap, lightAge, irAge, rules) = {}
    PROVE  Justified(snap, lightAge, irAge, rules)
<1>1. /\ "manual" \notin rules
      /\ RainReasons(snap, rules) = {} /\ WindReasons(snap, rules) = {}
      /\ BatteryReasons(snap, rules) = {} /\ SensorReasons(snap) = {}
      /\ FreshnessReasons(snap, lightAge, irAge) = {}
  BY DEF UnsafeReasons, If
<1>2. snap.light # "fault" /\ snap.ir # "fault" /\ lightAge # Never /\ irAge # Never
  BY <1>1 DEF SensorReasons, If, AnswersWereRead
<1>3. EverRead(lightAge, irAge) /\ ~Stale(snap, lightAge, irAge)
  BY <1>1 DEF FreshnessReasons, If, EverRead
<1>4. RequiredAge(snap, lightAge, irAge) = Larger(lightAge, irAge)
  BY <1>2 DEF RequiredAge
<1>5. lightAge < StaleMs /\ irAge < StaleMs
  <2>1. lightAge \in Nat /\ irAge \in Nat
    BY AgeTypes DEF TypeOK
  <2> DEFINE a == Larger(lightAge, irAge)
  <2>2. a \in Nat /\ lightAge <= a /\ irAge <= a
    BY <2>1 DEF Larger
  <2>3. ~(a \div MsPerSec > StaleAfter)
    BY <1>3, <1>4 DEF Stale
  <2> HIDE DEF a
  <2>4. (a \div MsPerSec) \in Nat /\ (a \div MsPerSec >= StaleAfter + 1 <=> a >= (StaleAfter + 1) * MsPerSec)
    BY <2>2, ClockAssumption, WholeSeconds
  <2>5. a < StaleMs
    BY <2>2, <2>3, <2>4, AgeTypes, ClockAssumption DEF StaleMs
  <2> QED BY <2>1, <2>2, <2>5, AgeTypes
<1>6. SkyReasons(snap, rules) = {} /\ AirReasons(snap, rules) = {}
  BY <1>3 DEF UnsafeReasons, Fresh
<1>7. /\ "cloud" \in rules => ~snap.cloudy
      /\ "sqm" \in rules => ~snap.bright
  BY <1>2, <1>6 DEF SkyReasons, If
<1>8. /\ "humidity" \in rules => snap.air = "ok" /\ ~snap.humid
      /\ "dew" \in rules => snap.air = "ok" /\ ~snap.dewy
  <2>1. snap.air \in {"fault", "ok"}
    BY DEF TypeOK, Condition
  <2> QED BY <1>6, <2>1 DEF AirReasons, If
<1>9. /\ "wind" \in rules => snap.wind = "ok" /\ ~snap.windy
      /\ "gust" \in rules => snap.wind = "ok" /\ ~snap.gusty
  BY <1>1 DEF WindReasons, If
<1>10. /\ "rain" \in rules /\ snap.rainOn => ~snap.raining
       /\ "rainRequired" \in rules /\ snap.rainOn => snap.rainHealthy
  BY <1>1 DEF RainReasons, If
<1>11. ~snap.shutdown /\ ("battery" \in rules => snap.battery = "charged")
  <2>1. snap.battery \in {"none", "charged", "low"}
    BY DEF TypeOK, Condition
  <2> QED BY <1>1, <2>1 DEF BatteryReasons, If
<1> QED BY <1>1, <1>2, <1>5, <1>7, <1>8, <1>9, <1>10, <1>11 DEF Justified

\* A verdict without reasons is always justified: an unread, faulted or stale
\* sensor and a snapshot that could not be read all fail safe.
THEOREM FailsSafe == Spec => FailSafe
<1> DEFINE A == pc = "idle" /\ pc' = "judged" /\ fresh' = {}
                  => Justified(snap, lightAge, irAge, rules)
<1>1. IInv /\ [Next]_vars => [A]_vars
  <2> SUFFICES ASSUME IInv, [Next]_vars, pc = "idle", pc' = "judged", fresh' = {}
               PROVE  Justified(snap, lightAge, irAge, rules)
    OBVIOUS
  <2>1. CASE Evaluate
    BY <2>1, NoReasonIsJustified DEF Evaluate, EvaluateWith, IInv
  <2>2. CASE EvaluateBlind
    <3>1. UnsafeReasons(NoSnapshot(snap), Never, Never, rules) = {}
      BY <2>2 DEF EvaluateBlind, EvaluateWith
    <3>2. "NoData" \in UnsafeReasons(NoSnapshot(snap), Never, Never, rules)
      BY DEF UnsafeReasons, FreshnessReasons, EverRead, If
    <3> QED BY <3>1, <3>2
  <2> QED BY <2>1, <2>2 DEF Next, Tick, Refresh, RecordUnsafe, RecordSafe, RecordNothing,
       SaveSettings, Restart, vars
<1> QED BY <1>1, Invariance, PTL DEF Spec, FailSafe

\* The reported verdict turns safe only after a full safe delay in which the
\* rules judged nothing unsafe, whatever the clock's wrap and the settings do
\* meanwhile; or else an unsafe verdict was dropped on the safety lock.
THEOREM SafeNeverEarly == Spec => NeverSafeEarly
<1> DEFINE A == TurnsSafe => /\ spell' >= DelayMs
                             /\ sinceUnsafe' >= DelayMs \/ missed'
<1>1. IInv /\ [Next]_vars => [A]_vars
  <2> SUFFICES ASSUME IInv, [Next]_vars, status'.isSafe, ~status.isSafe
               PROVE  /\ spell' >= DelayMs
                      /\ sinceUnsafe' >= DelayMs \/ missed'
    BY DEF TurnsSafe
  <2>1. CASE RecordSafe
    <3>1. Remaining(Held) = 0 /\ spell' = spell /\ filter' = Held /\ now' = now
      BY <2>1 DEF RecordSafe
    <3>2. Elapsed(now, Held.since) >= DelayMs
      BY <3>1, RemainingTypes DEF IInv, DelayMs
    <3>3. Elapsed(now, Held.since) <= spell
      <4>1. ElapsedIsSpell'
        BY IInvStep DEF IInv
      <4> QED BY <3>1, <4>1, RemainingTypes DEF ElapsedIsSpell, IInv
    <3>4. /\ spell \in Nat /\ Elapsed(now, Held.since) \in Int
          /\ DelayMs \in Nat
      <4>1. now \in Nat /\ Held.since \in Nat /\ spell \in Nat /\ safeDelay \in Nat
        BY RemainingTypes, ClockAssumption DEF IInv, TypeOK
      <4> QED BY <4>1, ClockAssumption DEF Elapsed, DelayMs
    <3>5. spell' >= DelayMs
      BY <3>1, <3>2, <3>3, <3>4
    <3>6. sinceUnsafe' = spell' \/ missed'
      <4>1. NothingMissedMeansSafe' /\ filter'.running /\ fresh' = {}
        BY <2>1, <3>1, IInvStep, RemainingTypes DEF IInv, RecordSafe
      <4> QED BY <4>1 DEF NothingMissedMeansSafe
    <3> QED BY <3>5, <3>6
  <2> QED BY <2>1 DEF Next, Tick, Refresh, Evaluate, EvaluateBlind, EvaluateWith, RecordUnsafe,
       RecordNothing, SaveSettings, Restart, Unevaluated, verdict, vars, IInv, TypeOK
<1> QED BY <1>1, Invariance, PTL DEF Spec, NeverSafeEarly

\* While the safe spell is shorter than the clock's wrap, a verdict reported
\* safe is only withdrawn for a reason, never by the delay filter.
THEOREM SafeWithdrawnForAReason == Spec => WithdrawnForAReason
<1> DEFINE A == status.isSafe /\ ~status'.isSafe /\ status'.evaluated
                  /\ safeDelay * MsPerSec <= spell /\ spell < MsMod
                  => status'.reasons # {}
<1>1. IInv /\ [Next]_vars => [A]_vars
  <2> SUFFICES ASSUME IInv, [Next]_vars, status.isSafe, ~status'.isSafe, status'.evaluated,
                      safeDelay * MsPerSec <= spell, spell < MsMod
               PROVE  status'.reasons # {}
    OBVIOUS
  <2>1. CASE RecordSafe
    <3>1. filter.running
      BY DEF IInv, NotRunningMeansReasons, HeldHasCountdown
    <3>2. Held = filter /\ Elapsed(now, Held.since) = spell
      BY <3>1 DEF Held, IInv, ElapsedIsSpell
    <3>3. Remaining(Held) = 0
      BY <3>2, RemainingTypes DEF IInv
    <3> QED BY <2>1, <3>3 DEF RecordSafe
  <2>2. CASE RecordUnsafe
    BY <2>2 DEF RecordUnsafe
  <2> QED BY <2>1, <2>2 DEF Next, Tick, Refresh, Evaluate, EvaluateBlind, EvaluateWith,
       RecordNothing, SaveSettings, Restart, Unevaluated, verdict, judged, vars
<1> QED BY <1>1, Invariance, PTL DEF Spec, WithdrawnForAReason
=============================================================================
