---------------------------- MODULE SafetyAlerts ----------------------------
(***************************************************************************)
(* How a change of the reported verdict becomes an alert: the loop task's  *)
(* pass (updateSafetyStatus, processAlerts, sendAlerts), the alert         *)
(* engine's safety tracker with its startup grace and cooldown, and the    *)
(* history in RTC memory, which tells the engine after a restart what was  *)
(* last sent.                                                              *)
(*                                                                         *)
(* Time is in seconds, as the engine gets it: millis() / 1000, which wraps *)
(* at SecMod (4294968) while the engine subtracts in 32 bits.  Verdicts    *)
(* come from SafetyVerdict: "held" is unsafe but only because the safe     *)
(* delay runs or there is no data yet.                                     *)
(***************************************************************************)
EXTENDS Naturals, Sequences

CONSTANTS
    SecMod,    \* where millis() / 1000 wraps (4294968 in the firmware)
    UintMod,   \* 2^32
    Grace,     \* startupGraceSeconds
    Cooldown,  \* cooldownSeconds
    Capacity,  \* entries the history keeps (32 in the firmware)
    Choices,   \* the sets of verdicts the settings can want alerts of
    MaxGap     \* bound: seconds between two passes of the loop task

ASSUME AlertsAssumption ==
    /\ SecMod \in Nat \ {0} /\ UintMod \in Nat
    /\ Grace \in 1..SecMod /\ Cooldown \in Nat
    /\ UintMod >= SecMod + Grace /\ UintMod >= SecMod + Cooldown
    /\ Capacity \in Nat \ {0}
    /\ Choices \subseteq SUBSET {"safe", "unsafe"}
    /\ MaxGap \in Nat \ {0}

VARIABLES
    now,       \* millis() / 1000
    reported,  \* the SafetyStatus: "none" before the first evaluation
    pc,        \* the pass of the loop task
    outgoing,  \* the alert this pass raised
    tracker,   \* AlertEngine::safety
    seeded,    \* AlertEngine::safetySeeded
    engine,    \* AlertEngine's start: whether it has, and when
    history,   \* SafetyHistory: the kinds of its entries, oldest first
    wanted,    \* the verdicts whose alert has a level in the settings
    enabled,   \* alerts.enabled
    sending,   \* AlertSchedule: alerts are not paused
    daylight,  \* night-only is on and it is known to be light
    gap,       \* ghost: seconds since the last pass
    up,        \* ghost: true seconds since boot, up to Grace
    told,      \* ghost: the verdict last sent since the power came on
    excuse     \* ghost: why the engine may believe something else was sent

settings == <<wanted, enabled, sending, daylight>>
clock == <<now, gap, up>>
vars == <<now, reported, pc, outgoing, tracker, seeded, engine, history,
          settings, gap, up, told, excuse>>

Verdicts == {"held", "safe", "unsafe"}
Announced == {"safe", "unsafe"}
Entries == {"boot", "change", "armed", "safe", "unsafe"}

Silent == [initialized |-> FALSE, notified |-> "safe", hasNotified |-> FALSE, at |-> 0]
NotStarted == [started |-> FALSE, at |-> 0]

TypeOK ==
    /\ now \in 0..(SecMod - 1)
    /\ reported \in {"none"} \union Verdicts
    /\ pc \in {"idle", "raised", "sent"}
    /\ outgoing \in {"nothing"} \union Announced
    /\ tracker \in [initialized : BOOLEAN, notified : Announced,
                    hasNotified : BOOLEAN, at : 0..(SecMod - 1)]
    /\ seeded \in BOOLEAN
    /\ engine \in [started : BOOLEAN, at : 0..(SecMod - 1)]
    /\ history \in Seq(Entries) /\ Len(history) <= Capacity
    /\ wanted \subseteq Announced
    /\ enabled \in BOOLEAN /\ sending \in BOOLEAN /\ daylight \in BOOLEAN
    /\ gap \in 0..MaxGap /\ up \in 0..Grace
    /\ told \in {"nothing"} \union Announced
    /\ excuse \in {"none", "documented", "lapse"}

-----------------------------------------------------------------------------
(* The history                                                             *)

Pushed(log, entry) == Append(IF Len(log) = Capacity THEN Tail(log) ELSE log, entry)

\* The newest alert in the history, "nothing" when there is none.
LastAlert(log) ==
    LET alerts == {k \in DOMAIN log : log[k] \in Announced}
    IN  IF alerts = {} THEN "nothing"
        ELSE log[CHOOSE k \in alerts : \A m \in alerts : m <= k]

-----------------------------------------------------------------------------
(* The engine                                                              *)

\* uint32_t subtraction
Since(t, since) == IF t >= since THEN t - since ELSE t + UintMod - since

Seeded(verdict) == [Silent EXCEPT !.initialized = TRUE, !.notified = verdict]

\* The history a pass works with: a change of what is reported is in it.
Logged(verdict) ==
    IF reported = "none" \/ (reported = "safe") # (verdict = "safe")
    THEN Pushed(history, "change") ELSE history

\* The engine as a pass finds it: on its first pass it is started and, when
\* the history holds an alert, seeded.
EngineAt == IF engine.started THEN engine ELSE [started |-> TRUE, at |-> now]
SeededAt(log) == IF engine.started THEN seeded ELSE LastAlert(log) # "nothing"
TrackerAt(log) ==
    IF engine.started THEN tracker
    ELSE IF SeededAt(log) THEN Seeded(LastAlert(log)) ELSE Silent

\* The ghost at that moment: there was nothing to seed the engine with, or
\* the last alert is no longer in the history.
ExcuseAt(log) ==
    IF engine.started THEN excuse
    ELSE IF told = "nothing" THEN "documented"
    ELSE IF LastAlert(log) = "nothing" THEN "lapse" ELSE excuse

PastGrace == Since(now, EngineAt.at) >= Grace

LooksAtOnce(log) == ~daylight  \* wrong variant: a seed does not wait for the grace
LooksUnseeded(log) == ~daylight /\ ~SeededAt(log)  \* wrong variant: it waits for ever

\* updateSafety() takes the verdict as news.
Looks(log) == ~daylight /\ ~(SeededAt(log) /\ ~PastGrace)

Allowed == PastGrace /\ wanted # {}

Cooled(t) == t.hasNotified => Since(now, t.at) >= Cooldown

-----------------------------------------------------------------------------
Init ==
    /\ now = 0 /\ gap = 0 /\ up = 0
    /\ reported = "none" /\ pc = "idle" /\ outgoing = "nothing"
    /\ tracker = Silent /\ seeded = FALSE /\ engine = NotStarted
    /\ history = Pushed(<<>>, "boot")
    /\ wanted \in Choices /\ enabled \in BOOLEAN /\ sending \in BOOLEAN
    /\ daylight \in BOOLEAN
    /\ told = "nothing" /\ excuse = "documented"

(* A second passes; light and dark change.  The loop task is never kept     *)
(* from its pass for longer than MaxGap.                                    *)
Tick ==
    /\ gap < MaxGap
    /\ now' = (now + 1) % SecMod
    /\ gap' = gap + 1
    /\ up' = (IF up < Grace THEN up + 1 ELSE up)
    /\ daylight' \in BOOLEAN
    /\ UNCHANGED <<reported, pc, outgoing, tracker, seeded, engine, history,
                   wanted, enabled, sending, told, excuse>>

(* A pass up to sendAlerts(): the verdict is evaluated, its change recorded *)
(* and the engine run on it.                                                *)
Run(verdict, newTracker, raised, newExcuse) ==
    /\ pc = "idle"
    /\ reported' = verdict
    /\ history' = Logged(verdict)
    /\ engine' = EngineAt /\ seeded' = SeededAt(Logged(verdict))
    /\ tracker' = newTracker
    /\ outgoing' = raised
    /\ excuse' = newExcuse
    /\ pc' = (IF raised = "nothing" THEN "idle" ELSE "raised")
    /\ gap' = 0
    /\ UNCHANGED <<now, settings, up, told>>

(* The verdict is no news: settling, held by the seed or by daylight, as    *)
(* last notified, or within the cooldown.                                   *)
RunQuiet ==
    /\ \E verdict \in Verdicts :
         LET log == Logged(verdict)
             t   == TrackerAt(log)
         IN  /\ \/ verdict = "held" \/ ~Looks(log)
                \/ t.initialized /\ Allowed /\ (verdict = t.notified \/ ~Cooled(t))
             /\ Run(verdict, t, "nothing", ExcuseAt(log))

\* The tracker takes a verdict that was not sent.  The guide knows of it with
\* the event switched off, and with nothing to compare the verdict with; not
\* when the startup grace comes again.
FollowingExcuse(verdict, before) ==
    IF verdict = told \/ before = "lapse" THEN before
    ELSE IF wanted = {} \/ told = "nothing" THEN "documented"
    ELSE IF up = Grace THEN "lapse" ELSE before

(* The tracker follows the verdict silently: on its first verdict, during   *)
(* the grace, or with the rule off.                                         *)
RunFollowing ==
    /\ \E verdict \in Announced :
         LET log == Logged(verdict)
             t   == TrackerAt(log)
         IN  /\ Looks(log)
             /\ ~t.initialized \/ ~Allowed
             /\ Run(verdict, [t EXCEPT !.initialized = TRUE, !.notified = verdict], "nothing",
                    FollowingExcuse(verdict, ExcuseAt(log)))

(* The change is announced, if its alert has a level. *)
RunAnnouncing ==
    /\ \E verdict \in Announced :
         LET log == Logged(verdict)
             t   == TrackerAt(log)
         IN  /\ Looks(log)
             /\ t.initialized /\ Allowed
             /\ verdict # t.notified /\ Cooled(t)
             /\ Run(verdict,
                    [t EXCEPT !.notified = verdict, !.hasNotified = TRUE, !.at = now],
                    IF verdict \in wanted THEN verdict ELSE "nothing",
                    IF verdict \in wanted \/ ExcuseAt(log) = "lapse"
                    THEN ExcuseAt(log) ELSE "documented")

(* sendAlerts(): what was raised is dispatched, unless alerts are off or    *)
(* paused.                                                                  *)
Send ==
    /\ pc = "raised" /\ sending /\ enabled
    /\ told' = outgoing /\ excuse' = "none"
    /\ pc' = "sent"
    /\ UNCHANGED <<clock, reported, outgoing, tracker, seeded, engine, history, settings>>

SendNothing ==
    /\ pc = "raised" /\ ~(sending /\ enabled)
    /\ excuse' = (IF excuse = "none" THEN "documented" ELSE excuse)
    /\ outgoing' = "nothing" /\ pc' = "idle"
    /\ UNCHANGED <<clock, reported, tracker, seeded, engine, history, settings, told>>

(* ... and then written to the history. *)
Record ==
    /\ pc = "sent"
    /\ history' = Pushed(history, outgoing)
    /\ outgoing' = "nothing" /\ pc' = "idle"
    /\ UNCHANGED <<clock, reported, tracker, seeded, engine, settings, told, excuse>>

(* Alerts are paused or resumed, between two passes. *)
PauseOrResume ==
    /\ pc = "idle"
    /\ sending' = ~sending
    /\ history' = Pushed(history, "armed")
    /\ UNCHANGED <<clock, reported, pc, outgoing, tracker, seeded, engine,
                   wanted, enabled, daylight, told, excuse>>

(* The web task saves the alert settings, at any moment. *)
SaveSettings ==
    /\ wanted' \in Choices /\ enabled' \in BOOLEAN
    /\ UNCHANGED <<clock, reported, pc, outgoing, tracker, seeded, engine, history,
                   sending, daylight, told, excuse>>

Boot(log) ==
    /\ now' = 0 /\ gap' = 0 /\ up' = 0
    /\ reported' = "none" /\ pc' = "idle" /\ outgoing' = "nothing"
    /\ tracker' = Silent /\ seeded' = FALSE /\ engine' = NotStarted
    /\ history' = Pushed(log, "boot")
    /\ UNCHANGED settings

(* A crash, the watchdog, an update: the RTC memory is kept, and with it    *)
(* the last alert, unless it was not recorded yet.                          *)
Restart ==
    /\ Boot(history)
    /\ excuse' = (CASE pc = "sent" -> "lapse"
                    [] pc # "sent" /\ excuse = "documented" -> "none"
                    [] OTHER -> excuse)
    /\ UNCHANGED told

(* The power is cut: what was told before counts no more. *)
PowerCut ==
    /\ Boot(<<>>)
    /\ told' = "nothing" /\ excuse' = "documented"

Pass ==
    \/ RunQuiet
    \/ RunFollowing
    \/ RunAnnouncing
    \/ Send
    \/ SendNothing
    \/ Record

Next ==
    \/ Tick
    \/ Pass
    \/ PauseOrResume
    \/ SaveSettings
    \/ Restart
    \/ PowerCut

Spec == Init /\ [][Next]_vars

-----------------------------------------------------------------------------
(* What the alerts promise                                                 *)

\* The engine's tracker holds what the user was last sent.
KnowsWhatWasTold ==
    engine.started /\ tracker.initialized /\ pc # "raised"
      => tracker.notified = told

\* A change is compared with what was last sent, across restarts too: the
\* engine and the user only part for a reason the guide gives (switched off,
\* paused, the first minute, a power cut), or for one of the three lapses the
\* ghost knows: the grace that comes again, an alert pushed out of the history,
\* a crash between an alert and its record (AlertEngine, SafetyHistory).
EngineKnowsTold == excuse = "none" => KnowsWhatWasTold

Fairness == WF_vars(Tick) /\ WF_vars(Pass)

LiveSpec == Spec /\ Fairness

\* A verdict that stays is told: the cooldown, the grace and the seed hold an
\* alert back but never for good ("sent later if it still differs").
ToldInTheEnd ==
    \A v \in Announced :
        <>[](reported = v /\ wanted = Announced /\ enabled /\ sending /\ ~daylight)
          => <>[](told = v \/ excuse # "none")
=============================================================================
