-------------------------- MODULE ConditionAlerts --------------------------
(***************************************************************************)
(* The alert engine's conditions other than the verdict and the imaging     *)
(* app: rain, the rain sensor's lens, a sensor that fails, dew, the sky,     *)
(* the battery's level, the charger and the battery rule, and the phone     *)
(* alarm they raise.  Each condition has a tracker of its own and reads no   *)
(* other, so a behaviour follows one of them, chosen at the start.           *)
(*                                                                          *)
(* A pass of the loop task sees the condition afresh; a measured value is   *)
(* on one side of its threshold (0), within the hysteresis (1) or past it   *)
(* (2).  The engine's time is millis() / 1000, which wraps at SecMod         *)
(* (4294968), while it subtracts in 32 bits; the ghosts count true seconds.  *)
(***************************************************************************)
EXTENDS PhoneAlarm

CONSTANTS
    Cases,      \* the conditions followed, and whether phones are alarmed too
    SecMod,     \* where millis() / 1000 wraps (4294968 in the firmware)
    UintMod,    \* 2^32
    Grace,      \* the startup grace
    Settle,     \* how long a sensor or the sky must hold
    Cooldown,
    MaxGap,     \* bound: seconds from one pass to the next
    Settings    \* the levels of the condition's two alerts the user chooses from

AllKinds == {"rain", "lens", "sensor", "dew", "sky", "battery", "fault", "charged", "rule"}
Levels == {"off", "note", "wake"}

ASSUME ConditionAssumption ==
    /\ Cases \subseteq [kind : AllKinds, phones : BOOLEAN] /\ Cases # {}
    /\ SecMod \in Nat \ {0} /\ UintMod \in Nat /\ MaxGap \in 1..SecMod
    /\ Grace \in Nat /\ Settle \in Nat \ {0} /\ Cooldown \in Nat \ {0}
    /\ UintMod >= SecMod + Grace /\ UintMod >= SecMod + Settle /\ UintMod >= SecMod + Cooldown
    /\ Settings \subseteq [on : Levels, off : Levels] /\ Settings # {}

VARIABLES
    kind,       \* the condition followed
    levels,     \* the settings: the level of "begins" and of "ends"
    now,        \* millis() / 1000 at the last pass
    engine,     \* AlertEngine's start: whether it has, and when
    valid,      \* the last pass: there was a value (a sensor fitted and answering),
    dark,       \* ... and it was dark, or need not be
    observed,   \* the condition, with its hysteresis
    tracker,    \* AlertEngine::Tracker
    ruleBits,   \* the battery rule's reasons last seen
    pc,         \* the loop task: before the pass, before the acknowledgements
    told,       \* ghost: what was announced last, or taken silently
    held,       \* ghost: how long every look has seen the condition as it is
    spaced,     \* ghost: seconds since the last announcement, as far as it counts
    turned,     \* ghost: seconds since millis() / 1000 wrapped, as far as it counts
    undue       \* ghost: the last pass announced something too early, or again

seen == <<now, engine, valid, dark, observed>>
state == <<tracker, ruleBits>>
ghosts == <<told, held, spaced, turned, undue>>
vars == <<kind, levels, seen, state, ghosts, pc, phone>>

NoTracker == [init |-> FALSE, notified |-> FALSE, pending |-> FALSE, pendingSince |-> 0,
              hasNotified |-> FALSE, notifiedAt |-> 0]
Plain == {"rain", "lens", "sensor", "fault", "charged", "rule"}  \* without hysteresis
BothWays == {"rain", "sensor", "sky"}  \* announced when they begin and when they end
RuleReasons == {"low", "missing"}
Seconds == 0..(SecMod - 1)
Longest == IF Settle > Cooldown THEN Settle ELSE Cooldown

TypeOK ==
    /\ kind \in AllKinds /\ levels \in Settings
    /\ now \in Seconds /\ engine \in [started : BOOLEAN, at : Seconds]
    /\ valid \in BOOLEAN /\ dark \in BOOLEAN
    /\ observed \in BOOLEAN
    /\ tracker \in [init : BOOLEAN, notified : BOOLEAN, pending : BOOLEAN, pendingSince : Seconds,
                    hasNotified : BOOLEAN, notifiedAt : Seconds]
    /\ ruleBits \subseteq RuleReasons
    /\ pc \in {"pass", "acks"}
    /\ told \in BOOLEAN /\ held \in 0..Settle /\ spaced \in 0..Cooldown
    /\ turned \in 0..Longest /\ undue \in BOOLEAN
    /\ PhoneTypeOK

Init ==
    /\ \E case \in Cases : kind = case.kind /\ alarmService = case.phones
    /\ levels \in Settings
    /\ now = 0 /\ engine = [started |-> FALSE, at |-> 0] /\ valid = FALSE /\ dark = TRUE
    /\ observed = FALSE /\ tracker = NoTracker /\ ruleBits = {}
    /\ pc = "pass"
    /\ told = FALSE /\ held = 0 /\ spaced = Cooldown /\ turned = Longest /\ undue = FALSE
    /\ PhoneInit

-----------------------------------------------------------------------------
(* One tracker                                                              *)

Enabled(l) == l.on # "off" \/ (kind \in BothWays /\ l.off # "off")
SettleTime == IF kind \in {"lens", "sensor", "sky"} THEN Settle ELSE 0
AnnouncedAtStart == kind \in {"battery", "fault"}

\* Within the hysteresis a condition stays what it was.
Observed(was, v) == v = 0 \/ (v = 1 /\ was)

\* uint32_t subtraction
Since(time, since) == IF time >= since THEN time - since ELSE time + UintMod - since

Cooled(t, time) == t.hasNotified => Since(time, t.notifiedAt) >= Cooldown

Notified(t, current, time) == [t EXCEPT !.notified = current, !.hasNotified = TRUE, !.notifiedAt = time]

Waiting(t, time) == IF t.pending THEN t ELSE [t EXCEPT !.pending = TRUE, !.pendingSince = time]

\* No change waits; since when one did is not read any more.
Quiet(t) == [t EXCEPT !.init = TRUE, !.pending = FALSE, !.pendingSince = 0]

\* wrong variant: a change the cooldown holds back is forgotten
SyncedForgetting(t, current, allowed, time) ==
    IF ~t.init \/ ~allowed THEN <<[Quiet(t) EXCEPT !.notified = current], FALSE>>
    ELSE IF current = t.notified THEN <<Quiet(t), FALSE>>
    ELSE <<Notified(Quiet(t), current, time), Cooled(t, time)>>

\* wrong variant: a change that was taken back keeps waiting
SyncedPending(t, current, allowed, time) ==
    IF ~t.init \/ ~allowed \/ current = t.notified
    THEN <<[t EXCEPT !.init = TRUE, !.notified = current], FALSE>>
    ELSE IF Since(time, Waiting(t, time).pendingSince) < SettleTime \/ ~Cooled(t, time)
    THEN <<Waiting(t, time), FALSE>>
    ELSE <<Notified(Quiet(t), current, time), TRUE>>

\* sync(): the tracker t that finds its condition `current`, and whether that
\* is to be announced.
Synced(t, current, allowed, time) ==
    LET start == IF t.init /\ allowed THEN t
                 ELSE [Quiet(t) EXCEPT !.notified = IF AnnouncedAtStart THEN FALSE ELSE current]
    IN  IF ~allowed \/ current = start.notified THEN <<Quiet(start), FALSE>>
        ELSE IF Since(time, Waiting(start, time).pendingSince) < SettleTime \/ ~Cooled(start, time)
        THEN <<Waiting(start, time), FALSE>>
        ELSE <<Notified(Quiet(start), current, time), TRUE>>

\* One condition of a pass: a sensor that is off starts anew, the sky by day
\* counts as not clear, anything else that is not there is left as it is.
Judged(t, current, there, night, allowed, time) ==
    IF kind = "sensor" /\ ~there THEN <<NoTracker, FALSE>>
    ELSE IF ~there THEN <<t, FALSE>>
    ELSE IF kind = "sky" /\ ~night THEN <<[NoTracker EXCEPT !.init = TRUE], FALSE>>
    ELSE Synced(t, current, allowed, time)

Appeared(bits) == bits \ ruleBits

\* batteryRule: a reason that was not there at the last pass.
RuleJudged(t, bits, allowed, time) ==
    IF Appeared(bits) # {} /\ allowed /\ Cooled(t, time)
    THEN <<[t EXCEPT !.hasNotified = TRUE, !.notifiedAt = time], TRUE>> ELSE <<t, FALSE>>

\* What is announced: some conditions only when they begin.
Said(announced, current) ==
    IF ~announced \/ (~current /\ kind \notin BothWays) THEN "none"
    ELSE IF current THEN "on" ELSE "off"

\* The level of the alert, and what it means for the phones (runAlerts,
\* sendAlerts): pushing may be off and alerts may be paused.
LevelOf(said) == IF said = "none" THEN "off" ELSE levels[said]

Rings(said, sending) ==
    IF ~sending \/ LevelOf(said) = "off" THEN "none"
    ELSE IF LevelOf(said) = "wake" THEN "active" ELSE "info"

-----------------------------------------------------------------------------
(* The loop task                                                            *)

\* n seconds later, at most SecMod.
Advanced(n) == IF now + n >= SecMod THEN now + n - SecMod ELSE now + n
Turned(n) == IF now + n >= SecMod THEN 0 ELSE Later(turned, n, Longest)

\* What was to take `most` seconds took `age`, and that is too little.  The
\* seconds are told from the time alone: when it wrapped meanwhile, `turn`
\* seconds ago, any age looks long.
TooEarly(age, most, turn) == age < most /\ turn >= age

(* update(): the alarm that is due again, the conditions, then the alert.   *)
Pass ==
    /\ pc = "pass" /\ pc' = "acks"
    /\ valid' \in BOOLEAN /\ dark' \in (IF kind = "sky" THEN BOOLEAN ELSE {TRUE})
    /\ \E value \in IF kind \in Plain THEN {0, 2} ELSE 0..2 :
         observed' = IF valid' THEN Observed(observed, value) ELSE observed
    /\ ruleBits' = IF kind # "rule" THEN {}
                   ELSE IF ~valid' THEN {"missing"} ELSE IF observed' THEN {"low"} ELSE {}
    /\ \E n \in 1..MaxGap, sending \in BOOLEAN :
         /\ now' = Advanced(n) /\ turned' = Turned(n)
         /\ engine' = IF engine.started THEN engine ELSE [started |-> TRUE, at |-> now']
         /\ LET allowed == Since(now', engine'.at) >= Grace /\ Enabled(levels)
                result  == IF kind = "rule" THEN RuleJudged(tracker, ruleBits', allowed, now')
                           ELSE Judged(tracker, observed', valid', dark', allowed, now')
                said    == Said(result[2], kind = "rule" \/ observed')
                afresh  == (kind = "sensor" /\ ~valid') \/ (kind = "sky" /\ valid' /\ ~dark')
                silent  == valid' /\ (~allowed \/ ~tracker.init)
                again   == IF kind = "rule" THEN ruleBits' \subseteq ruleBits
                           ELSE observed' = (told /\ tracker.init)
            IN  /\ tracker' = result[1]
                /\ AlarmPass(n, Rings(said, sending))
                /\ held' = IF valid' /\ observed' # observed THEN 0 ELSE Later(held, n, Settle)
                /\ spaced' = IF result[2] THEN 0 ELSE IF afresh THEN Cooldown ELSE Later(spaced, n, Cooldown)
                /\ told' = IF result[2] THEN observed'
                           ELSE IF afresh THEN FALSE
                           ELSE IF silent THEN observed' /\ ~AnnouncedAtStart
                           ELSE told
                /\ undue' = (result[2] /\ (\/ TooEarly(Later(spaced, n, Cooldown), Cooldown, turned')
                                          \/ TooEarly(held', SettleTime, turned')
                                          \/ again))
    /\ UNCHANGED <<kind, levels, requests>>

(* forwardBleAcks, at the end of the pass.                                  *)
Acks ==
    /\ pc = "acks" /\ pc' = "pass"
    /\ ProcessAcks
    /\ UNCHANGED <<kind, levels, seen, state, ghosts>>

-----------------------------------------------------------------------------
(* The other tasks                                                          *)

SaveSettings ==
    /\ levels' \in Settings \ {levels}
    /\ UNCHANGED <<kind, seen, state, ghosts, pc, phone>>

Requests ==
    /\ Others
    /\ UNCHANGED <<kind, levels, seen, state, ghosts, pc>>

Loop == Pass \/ Acks

Next == Loop \/ SaveSettings \/ Requests

Spec == Init /\ [][Next]_vars

-----------------------------------------------------------------------------
(* What the conditions promise                                              *)

\* Whatever the rules, the readings that come and go and the hysteresis do, an
\* announcement says something new, after its cooldown, and of a sensor or the
\* sky only what every look has shown for the settle time (sync, "a sensor
\* fault or recovery not yet 30 seconds old", docs/user-guide/alerts.md) -- but
\* for a cooldown or a settle time in which the engine's seconds wrapped.
NothingUndue == ~undue

\* The loop task goes on.
LiveSpec == Spec /\ WF_vars(Loop)

\* A condition that stays is told in the end, however long the cooldown held
\* it back ("the last notification always matches reality", AlertEngine.h).
MatchesReality ==
    \A v \in BOOLEAN :
        kind # "rule" /\ Enabled(levels) /\ valid /\ dark /\ observed = v
          ~> told = v \/ ~(Enabled(levels) /\ valid /\ dark /\ observed = v)
=============================================================================
