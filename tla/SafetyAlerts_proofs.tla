------------------------ MODULE SafetyAlerts_proofs -------------------------
(***************************************************************************)
(* Proofs about SafetyAlerts, for every length of the history, every grace *)
(* and cooldown and every wrap of the clock: a change of the verdict is     *)
(* compared with what was last sent (EngineKnowsTold).                      *)
(*                                                                         *)
(* It is inductive only with what a restart finds: the newest alert of the *)
(* history is the one last sent (HistoryTells), which needs the alert in   *)
(* hand between the sending and the record (AlertInHand); and with why the *)
(* tracker does not follow a verdict silently after an alert: the seed      *)
(* waits for the grace, and nothing is sent before it ends (GraceHolds),    *)
(* which needs the clock not to wrap within it (ClockTells).                *)
(***************************************************************************)
EXTENDS SafetyAlerts, TLAPS

Trackers == [initialized : BOOLEAN, notified : Announced,
             hasNotified : BOOLEAN, at : 0..(SecMod - 1)]
Engines == [started : BOOLEAN, at : 0..(SecMod - 1)]
Excuses == {"none", "documented", "lapse"}

\* The last alert of a log is v; without an alert it is "nothing".
LastIs(log, v) ==
    \/ v = "nothing" /\ \A k \in DOMAIN log : log[k] \notin Announced
    \/ \E k \in DOMAIN log :
         /\ log[k] = v /\ v \in Announced
         /\ \A m \in DOMAIN log : m > k => log[m] \notin Announced

\* The history has a last alert, or none, and it is the one last sent unless
\* that one is being recorded or a lapse is known.
HistoryTells ==
    /\ LastIs(history, LastAlert(history))
    /\ pc # "sent" /\ excuse # "lapse" => LastAlert(history) \in {told, "nothing"}
    /\ excuse = "lapse" => told # "nothing"

\* Within the grace the clock has not wrapped.
ClockTells ==
    up < Grace => now = up /\ (engine.started => engine.at <= now)

\* What is raised is in the tracker, and what is sent was raised.
AlertInHand ==
    /\ pc # "idle" => /\ engine.started /\ up = Grace /\ outgoing \in Announced
                      /\ tracker.initialized /\ tracker.notified = outgoing
    /\ pc = "sent" => told = outgoing /\ excuse = "none"

\* A seed is in the tracker; without one, nothing was sent within the grace.
GraceHolds ==
    engine.started => IF seeded THEN tracker.initialized
                      ELSE excuse = "none" /\ told # "nothing" => up = Grace

IInv == TypeOK /\ HistoryTells /\ ClockTells /\ AlertInHand /\ GraceHolds /\ EngineKnowsTold

-----------------------------------------------------------------------------
(* The history                                                             *)

\* The last alert is what LastAlert finds.
LEMMA LastIsFound ==
    ASSUME NEW log \in Seq(Entries), NEW v, LastIs(log, v)
    PROVE  LastAlert(log) = v
<1> DEFINE alerts == {k \in DOMAIN log : log[k] \in Announced}
<1>1. CASE v = "nothing" /\ \A k \in DOMAIN log : log[k] \notin Announced
  <2>1. alerts = {} BY <1>1
  <2> QED BY <1>1, <2>1 DEF LastAlert
<1>2. CASE ~(v = "nothing" /\ \A k \in DOMAIN log : log[k] \notin Announced)
  <2>1. PICK k \in DOMAIN log :
          /\ log[k] = v /\ v \in Announced
          /\ \A m \in DOMAIN log : m > k => log[m] \notin Announced
    BY <1>2 DEF LastIs
  <2>2. DOMAIN log \subseteq Nat OBVIOUS
  <2>3. k \in alerts /\ \A m \in alerts : m <= k BY <2>1, <2>2
  <2>4. \A i \in alerts : (\A m \in alerts : m <= i) => i = k BY <2>2, <2>3
  <2> HIDE DEF alerts
  <2>5. (CHOOSE i \in alerts : \A m \in alerts : m <= i) = k BY <2>3, <2>4
  <2>6. alerts # {} BY <2>3
  <2> QED BY <2>1, <2>5, <2>6 DEF LastAlert, alerts
<1> QED BY <1>1, <1>2

\* An entry pushed to the history: an alert is the last one then; any other
\* entry leaves the last alert, or pushes it out when it was the oldest entry.
LEMMA PushedTells ==
    ASSUME AlertsAssumption, NEW log \in Seq(Entries), Len(log) <= Capacity, NEW e \in Entries,
           LastIs(log, LastAlert(log))
    PROVE  /\ Pushed(log, e) \in Seq(Entries) /\ Len(Pushed(log, e)) <= Capacity
           /\ LastIs(Pushed(log, e), LastAlert(Pushed(log, e)))
           /\ e \in Announced => LastAlert(Pushed(log, e)) = e
           /\ e \notin Announced => LastAlert(Pushed(log, e)) \in {LastAlert(log), "nothing"}
<1> DEFINE new  == Pushed(log, e)
           drop == IF Len(log) = Capacity THEN 1 ELSE 0
           n    == Len(log) - drop
<1>1. /\ new \in Seq(Entries) /\ Len(new) = n + 1 /\ n \in Nat /\ n + 1 <= Capacity
      /\ new[n + 1] = e /\ \A k \in 1..n : new[k] = log[k + drop]
  <2>1. CASE Len(log) = Capacity
    <3>1. log # <<>> BY <2>1 DEF AlertsAssumption
    <3>2. Tail(log) \in Seq(Entries) /\ Len(Tail(log)) = Len(log) - 1
          /\ \A k \in 1..(Len(log) - 1) : Tail(log)[k] = log[k + 1]
      BY <3>1
    <3>3. new = Append(Tail(log), e) /\ n = Len(log) - 1 /\ drop = 1 BY <2>1 DEF Pushed
    <3> HIDE DEF new, n, drop
    <3> QED BY <2>1, <3>1, <3>2, <3>3 DEF AlertsAssumption
  <2>2. CASE Len(log) # Capacity
    <3>1. new = Append(log, e) /\ n = Len(log) /\ drop = 0 BY <2>2 DEF Pushed
    <3> HIDE DEF new, n, drop
    <3> QED BY <2>2, <3>1 DEF AlertsAssumption
  <2> QED BY <2>1, <2>2
<1>2. drop \in 0..1 /\ Len(log) = n + drop /\ DOMAIN log = 1..(n + drop) OBVIOUS
<1> HIDE DEF new, n, drop
<1>3. DOMAIN new = 1..(n + 1) BY <1>1
<1>4. CASE e \in Announced
  <2>1. LastIs(new, e) BY <1>1, <1>3, <1>4 DEF LastIs
  <2> QED BY <1>1, <1>4, <2>1, LastIsFound DEF new
<1>5. CASE e \notin Announced
  <2>1. ASSUME NEW v, LastIs(log, v) PROVE LastIs(new, v) \/ LastIs(new, "nothing")
    <3>1. CASE v = "nothing" /\ \A k \in DOMAIN log : log[k] \notin Announced
      <4>1. \A k \in 1..n : k + drop \in DOMAIN log BY <1>1, <1>2
      <4>2. \A k \in 1..n : new[k] \notin Announced BY <1>1, <3>1, <4>1
      <4>3. \A k \in DOMAIN new : k \in 1..n \/ k = n + 1 BY <1>1, <1>3
      <4> QED BY <1>1, <1>5, <4>2, <4>3 DEF LastIs
    <3>2. CASE ~(v = "nothing" /\ \A k \in DOMAIN log : log[k] \notin Announced)
      <4>1. PICK k \in DOMAIN log :
              /\ log[k] = v /\ v \in Announced
              /\ \A m \in DOMAIN log : m > k => log[m] \notin Announced
        BY <2>1, <3>2 DEF LastIs
      <4>2. ASSUME NEW m \in DOMAIN new, m > k - drop PROVE new[m] \notin Announced
        <5>1. CASE m = n + 1 BY <1>1, <1>5, <5>1
        <5>2. CASE m \in 1..n
          <6>1. m + drop \in DOMAIN log /\ m + drop > k BY <1>1, <1>2, <4>2, <5>2
          <6> QED BY <1>1, <4>1, <5>2, <6>1
        <5> QED BY <1>1, <1>3, <5>1, <5>2
      <4>3. CASE k - drop \in 1..n
        <5>1. k - drop \in DOMAIN new /\ (k - drop) + drop = k
          BY <1>1, <1>2, <1>3, <4>3
        <5>2. new[k - drop] = v BY <1>1, <4>1, <4>3, <5>1
        <5> QED BY <4>1, <4>2, <5>1, <5>2 DEF LastIs
      <4>4. CASE k - drop \notin 1..n
        <5>1. \A m \in DOMAIN new : m > k - drop BY <1>1, <1>2, <1>3, <4>4
        <5> QED BY <4>2, <5>1 DEF LastIs
      <4> QED BY <4>3, <4>4
    <3> QED BY <3>1, <3>2
  <2>2. CASE LastIs(new, LastAlert(log))
    BY <1>1, <1>5, <2>2, LastIsFound DEF new
  <2>3. CASE LastIs(new, "nothing")
    BY <1>1, <1>5, <2>3, LastIsFound DEF new
  <2> QED BY <2>1, <2>2, <2>3
<1> QED BY <1>4, <1>5

\* The last alert of a log is an alert.
LEMMA LastTypes ==
    ASSUME NEW log, LastIs(log, LastAlert(log))
    PROVE  LastAlert(log) \in Announced \union {"nothing"}
  BY DEF LastIs

-----------------------------------------------------------------------------
(* A pass                                                                  *)

\* What a pass of the loop task finds: the log with the change, the engine
\* started, its tracker seeded from that log if the engine has just started.
LEMMA PassFinds ==
    ASSUME AlertsAssumption, IInv, pc = "idle", NEW verdict \in Verdicts,
           NEW log, log = Logged(verdict)
    PROVE  /\ log \in Seq(Entries) /\ Len(log) <= Capacity
           /\ LastIs(log, LastAlert(log))
           /\ EngineAt \in Engines /\ EngineAt.started
           /\ SeededAt(log) \in BOOLEAN /\ TrackerAt(log) \in Trackers
           /\ ExcuseAt(log) \in Excuses
           /\ ExcuseAt(log) # "lapse" => LastAlert(log) \in {told, "nothing"}
           /\ ExcuseAt(log) = "lapse" => told # "nothing"
           /\ SeededAt(log) => TrackerAt(log).initialized
           /\ ~SeededAt(log) /\ ExcuseAt(log) = "none" /\ told # "nothing" => up = Grace
           /\ ExcuseAt(log) = "none" /\ TrackerAt(log).initialized => TrackerAt(log).notified = told
           /\ up < Grace => now = up /\ EngineAt.at <= now
           /\ PastGrace => up = Grace
<1>1. /\ history \in Seq(Entries) /\ Len(history) <= Capacity
      /\ LastIs(history, LastAlert(history))
      /\ excuse # "lapse" => LastAlert(history) \in {told, "nothing"}
      /\ tracker \in Trackers /\ engine \in Engines /\ seeded \in BOOLEAN /\ excuse \in Excuses
      /\ now \in 0..(SecMod - 1) /\ up \in 0..Grace
      /\ SecMod \in Nat /\ UintMod \in Nat /\ Grace \in 1..SecMod /\ UintMod >= SecMod + Grace
  BY DEF IInv, TypeOK, HistoryTells, Trackers, Engines, Excuses, AlertsAssumption
<1>2. /\ log \in Seq(Entries) /\ Len(log) <= Capacity
      /\ LastIs(log, LastAlert(log))
      /\ LastAlert(log) \in {LastAlert(history), "nothing"}
  <2>1. "change" \in Entries /\ "change" \notin Announced BY DEF Entries, Announced
  <2>2. log = Pushed(history, "change") \/ log = history BY DEF Logged
  <2> QED BY <1>1, <2>1, <2>2, PushedTells
<1>3. LastAlert(log) \in Announced \union {"nothing"} BY <1>2, LastTypes
<1>4. EngineAt \in Engines /\ EngineAt.started
  BY <1>1 DEF EngineAt, Engines
<1>5. SeededAt(log) \in BOOLEAN /\ ExcuseAt(log) \in Excuses
  BY <1>1 DEF SeededAt, ExcuseAt, Excuses
<1>6. Silent \in Trackers /\ \A v \in Announced : Seeded(v) \in Trackers /\ Seeded(v).initialized
                                                  /\ Seeded(v).notified = v
  <2>1. 0 \in 0..(SecMod - 1) BY <1>1
  <2>2. Silent \in Trackers BY <2>1 DEF Silent, Trackers, Announced
  <2>3. ASSUME NEW r \in Trackers, NEW v \in Announced,
               NEW s, s = [r EXCEPT !.initialized = TRUE, !.notified = v]
        PROVE  s \in Trackers /\ s.initialized /\ s.notified = v
    BY <2>3 DEF Trackers
  <2>4. \A v \in Announced : Seeded(v) = [Silent EXCEPT !.initialized = TRUE, !.notified = v]
    BY DEF Seeded
  <2> QED BY <2>2, <2>3, <2>4
<1>7. TrackerAt(log) \in Trackers
  BY <1>1, <1>3, <1>6 DEF TrackerAt, SeededAt
<1>8. /\ ExcuseAt(log) # "lapse" => LastAlert(log) \in {told, "nothing"}
      /\ ExcuseAt(log) = "lapse" => told # "nothing"
  BY <1>1, <1>2 DEF ExcuseAt, IInv, HistoryTells
<1>9. SeededAt(log) => TrackerAt(log).initialized
  BY <1>3, <1>6 DEF SeededAt, TrackerAt, IInv, GraceHolds
<1>10. ~SeededAt(log) /\ ExcuseAt(log) = "none" /\ told # "nothing" => up = Grace
  BY DEF SeededAt, ExcuseAt, IInv, GraceHolds
<1>11. ExcuseAt(log) = "none" /\ TrackerAt(log).initialized => TrackerAt(log).notified = told
  <2>1. CASE engine.started
    BY <2>1 DEF ExcuseAt, TrackerAt, IInv, EngineKnowsTold, KnowsWhatWasTold
  <2>2. CASE ~engine.started
    <3> SUFFICES ASSUME ExcuseAt(log) = "none" PROVE TrackerAt(log).notified = told
      OBVIOUS
    <3>1. LastAlert(log) = told /\ told # "nothing" BY <1>8, <2>2 DEF ExcuseAt
    <3>2. TrackerAt(log) = Seeded(told) BY <2>2, <3>1 DEF TrackerAt, SeededAt
    <3> QED BY <1>3, <1>6, <3>1, <3>2
  <2> QED BY <2>1, <2>2
<1>12. up < Grace => now = up /\ EngineAt.at <= now
  BY <1>1 DEF EngineAt, IInv, ClockTells
<1>13. PastGrace => up = Grace
  <2> SUFFICES ASSUME up < Grace PROVE ~PastGrace
    BY <1>1
  <2>1. Since(now, EngineAt.at) = now - EngineAt.at
    BY <1>1, <1>4, <1>12 DEF Since, Engines
  <2> QED BY <1>1, <1>4, <1>12, <2>1 DEF PastGrace, Engines
<1> QED BY <1>2, <1>4, <1>5, <1>7, <1>8, <1>9, <1>10, <1>11, <1>12, <1>13

\* A pass that keeps what the engine knows.
LEMMA RunKeeps ==
    ASSUME AlertsAssumption, IInv, NEW verdict \in Verdicts, NEW log, log = Logged(verdict),
           NEW t \in Trackers, NEW raised \in {"nothing"} \union Announced, NEW why \in Excuses,
           Run(verdict, t, raised, why),
           why # "lapse" => LastAlert(log) \in {told, "nothing"},
           why = "lapse" => told # "nothing",
           SeededAt(log) => t.initialized,
           ~SeededAt(log) /\ why = "none" /\ told # "nothing" => up = Grace,
           raised # "nothing" => up = Grace /\ t.initialized /\ t.notified = raised,
           raised = "nothing" /\ why = "none" /\ t.initialized => t.notified = told
    PROVE  IInv'
<1>1. /\ pc = "idle" /\ reported' = verdict /\ history' = log
      /\ engine' = EngineAt /\ seeded' = SeededAt(log) /\ tracker' = t
      /\ outgoing' = raised /\ excuse' = why /\ gap' = 0
      /\ pc' = (IF raised = "nothing" THEN "idle" ELSE "raised")
      /\ UNCHANGED <<now, settings, up, told>>
  BY DEF Run
<1>2. /\ log \in Seq(Entries) /\ Len(log) <= Capacity
      /\ LastIs(log, LastAlert(log))
      /\ EngineAt \in Engines /\ EngineAt.started /\ SeededAt(log) \in BOOLEAN
      /\ up < Grace => now = up /\ EngineAt.at <= now
  BY <1>1, PassFinds
<1>3. TypeOK'
  <2>1. 0 \in 0..MaxGap BY DEF AlertsAssumption
  <2> QED BY <1>1, <1>2, <2>1 DEF IInv, TypeOK, settings, Trackers, Engines, Excuses
<1>4. HistoryTells' BY <1>1, <1>2 DEF HistoryTells
<1>5. ClockTells' BY <1>1, <1>2 DEF ClockTells
<1>6. AlertInHand' BY <1>1, <1>2 DEF AlertInHand
<1>7. GraceHolds' BY <1>1 DEF GraceHolds
<1>8. EngineKnowsTold' BY <1>1 DEF EngineKnowsTold, KnowsWhatWasTold
<1> QED BY <1>3, <1>4, <1>5, <1>6, <1>7, <1>8 DEF IInv

LEMMA RunQuietKeeps == ASSUME AlertsAssumption, IInv, RunQuiet PROVE IInv'
<1>1. PICK verdict \in Verdicts :
        Run(verdict, TrackerAt(Logged(verdict)), "nothing", ExcuseAt(Logged(verdict)))
  BY Zenon DEF RunQuiet
<1> DEFINE log == Logged(verdict)
<1>2. pc = "idle" BY <1>1 DEF Run
<1>3. log = Logged(verdict) OBVIOUS
<1>4. Run(verdict, TrackerAt(log), "nothing", ExcuseAt(log)) BY <1>1
<1> HIDE DEF log
<1> QED BY <1>2, <1>3, <1>4, PassFinds, RunKeeps

LEMMA RunFollowingKeeps == ASSUME AlertsAssumption, IInv, RunFollowing PROVE IInv'
<1>1. PICK verdict \in Announced :
        /\ Looks(Logged(verdict))
        /\ ~TrackerAt(Logged(verdict)).initialized \/ ~Allowed
        /\ Run(verdict, [TrackerAt(Logged(verdict)) EXCEPT !.initialized = TRUE, !.notified = verdict],
               "nothing", FollowingExcuse(verdict, ExcuseAt(Logged(verdict))))
  BY Zenon DEF RunFollowing
<1> DEFINE log == Logged(verdict)
           t   == [TrackerAt(log) EXCEPT !.initialized = TRUE, !.notified = verdict]
           why == FollowingExcuse(verdict, ExcuseAt(log))
<1>2. pc = "idle" BY <1>1 DEF Run
<1>3. log = Logged(verdict) /\ verdict \in Verdicts BY DEF Announced, Verdicts
<1>4. Looks(log) /\ (~TrackerAt(log).initialized \/ ~Allowed) /\ Run(verdict, t, "nothing", why)
  BY <1>1
<1> HIDE DEF log
<1>5. /\ TrackerAt(log) \in Trackers /\ ExcuseAt(log) \in Excuses /\ SeededAt(log) \in BOOLEAN
      /\ ExcuseAt(log) # "lapse" => LastAlert(log) \in {told, "nothing"}
      /\ ExcuseAt(log) = "lapse" => told # "nothing"
      /\ SeededAt(log) => TrackerAt(log).initialized
      /\ ~SeededAt(log) /\ ExcuseAt(log) = "none" /\ told # "nothing" => up = Grace
  BY <1>2, <1>3, PassFinds
<1>6. t \in Trackers /\ t.initialized /\ t.notified = verdict
  BY <1>5 DEF Trackers
<1>7. why \in Excuses BY <1>5 DEF FollowingExcuse, Excuses
<1>8. /\ why # "lapse" => ExcuseAt(log) # "lapse"
      /\ why = "lapse" => told # "nothing"
      /\ why = "none" => ExcuseAt(log) = "none"
  BY <1>5, "nothing" \notin Announced DEF FollowingExcuse, Announced
<1>9. why = "none" => verdict = told
  <2> SUFFICES ASSUME why = "none", verdict # told PROVE FALSE
    OBVIOUS
  <2>1. ExcuseAt(log) = "none" /\ wanted # {} /\ told # "nothing" /\ up # Grace
    BY <1>8 DEF FollowingExcuse
  <2>2. SeededAt(log) BY <1>5, <2>1
  <2>3. PastGrace BY <1>4, <2>2 DEF Looks
  <2> QED BY <1>4, <1>5, <2>1, <2>2, <2>3 DEF Allowed
<1> HIDE DEF t, why
<1>10. ~SeededAt(log) /\ why = "none" /\ told # "nothing" => up = Grace BY <1>5, <1>8
<1> QED BY <1>3, <1>4, <1>5, <1>6, <1>7, <1>8, <1>9, <1>10, RunKeeps

LEMMA RunAnnouncingKeeps == ASSUME AlertsAssumption, IInv, RunAnnouncing PROVE IInv'
<1>1. PICK verdict \in Announced :
        /\ TrackerAt(Logged(verdict)).initialized /\ Allowed
        /\ Run(verdict,
               [TrackerAt(Logged(verdict)) EXCEPT !.notified = verdict, !.hasNotified = TRUE, !.at = now],
               IF verdict \in wanted THEN verdict ELSE "nothing",
               IF verdict \in wanted \/ ExcuseAt(Logged(verdict)) = "lapse"
               THEN ExcuseAt(Logged(verdict)) ELSE "documented")
  BY Zenon DEF RunAnnouncing
<1> DEFINE log    == Logged(verdict)
           t      == [TrackerAt(log) EXCEPT !.notified = verdict, !.hasNotified = TRUE, !.at = now]
           raised == IF verdict \in wanted THEN verdict ELSE "nothing"
           why    == IF verdict \in wanted \/ ExcuseAt(log) = "lapse" THEN ExcuseAt(log)
                     ELSE "documented"
<1>2. pc = "idle" BY <1>1 DEF Run
<1>3. log = Logged(verdict) /\ verdict \in Verdicts BY DEF Announced, Verdicts
<1>4. TrackerAt(log).initialized /\ Allowed /\ Run(verdict, t, raised, why)
  BY <1>1
<1> HIDE DEF log
<1>5. /\ TrackerAt(log) \in Trackers /\ ExcuseAt(log) \in Excuses
      /\ ExcuseAt(log) # "lapse" => LastAlert(log) \in {told, "nothing"}
      /\ ExcuseAt(log) = "lapse" => told # "nothing"
      /\ PastGrace => up = Grace
  BY <1>2, <1>3, PassFinds
<1>6. t \in Trackers /\ t.initialized /\ t.notified = verdict
  <2>1. now \in 0..(SecMod - 1) BY DEF IInv, TypeOK
  <2> QED BY <1>4, <1>5, <2>1 DEF Trackers
<1>7. /\ why \in Excuses /\ raised \in {"nothing"} \union Announced
      /\ raised = "nothing" => verdict \notin wanted
      /\ raised # "nothing" => raised = verdict
  BY <1>5 DEF Excuses, Announced
<1>8. up = Grace BY <1>4, <1>5 DEF Allowed
<1>9. /\ why # "lapse" => ExcuseAt(log) # "lapse"
      /\ why = "lapse" => ExcuseAt(log) = "lapse"
      /\ raised = "nothing" => why # "none"
  BY <1>7
<1> HIDE DEF t, why, raised
<1> QED BY <1>3, <1>4, <1>5, <1>6, <1>7, <1>8, <1>9, RunKeeps

-----------------------------------------------------------------------------
(* The other steps                                                         *)

\* A restart, with what it keeps of the history.
LEMMA BootKeeps ==
    ASSUME AlertsAssumption, IInv, NEW log \in Seq(Entries), Len(log) <= Capacity,
           LastIs(log, LastAlert(log)), Boot(log),
           told' \in {"nothing"} \union Announced, excuse' \in Excuses,
           excuse' # "lapse" => LastAlert(log) \in {told', "nothing"},
           excuse' = "lapse" => told' # "nothing"
    PROVE  IInv'
<1>1. "boot" \in Entries /\ "boot" \notin Announced BY DEF Entries, Announced
<1>2. /\ history' \in Seq(Entries) /\ Len(history') <= Capacity
      /\ LastIs(history', LastAlert(history'))
      /\ LastAlert(history') \in {LastAlert(log), "nothing"}
  <2>1. history' = Pushed(log, "boot") BY DEF Boot
  <2> QED BY <1>1, <2>1, PushedTells
<1>3. TypeOK'
  <2>1. 0 \in 0..(SecMod - 1) /\ 0 \in 0..MaxGap /\ 0 \in 0..Grace BY DEF AlertsAssumption
  <2>2. Silent \in Trackers /\ NotStarted \in Engines
    BY <2>1 DEF Silent, NotStarted, Trackers, Engines, Announced
  <2> QED BY <1>2, <2>1, <2>2 DEF IInv, TypeOK, Boot, settings, Trackers, Engines, Excuses
<1>4. HistoryTells' BY <1>2 DEF HistoryTells
<1>5. ClockTells' /\ AlertInHand' /\ GraceHolds' /\ EngineKnowsTold'
  BY DEF Boot, ClockTells, AlertInHand, GraceHolds, EngineKnowsTold, KnowsWhatWasTold, NotStarted
<1> QED BY <1>3, <1>4, <1>5 DEF IInv

LEMMA InitIInv == AlertsAssumption /\ Init => IInv
<1> SUFFICES ASSUME AlertsAssumption, Init PROVE IInv
  OBVIOUS
<1>1. <<>> \in Seq(Entries) /\ Len(<<>>) <= Capacity /\ LastIs(<<>>, LastAlert(<<>>))
      /\ LastAlert(<<>>) = "nothing"
  <2>1. <<>> \in Seq(Entries) /\ LastIs(<<>>, "nothing") BY DEF LastIs
  <2>2. Len(<<>>) <= Capacity BY DEF AlertsAssumption
  <2> QED BY <2>1, <2>2, LastIsFound
<1>2. "boot" \in Entries /\ "boot" \notin Announced BY DEF Entries, Announced
<1>3. /\ history \in Seq(Entries) /\ Len(history) <= Capacity
      /\ LastIs(history, LastAlert(history)) /\ LastAlert(history) = "nothing"
  BY <1>1, <1>2, PushedTells DEF Init
<1>4. TypeOK
  <2>1. 0 \in 0..(SecMod - 1) /\ 0 \in 0..MaxGap /\ 0 \in 0..Grace BY DEF AlertsAssumption
  <2>2. Silent \in Trackers /\ NotStarted \in Engines
    BY <2>1 DEF Silent, NotStarted, Trackers, Engines, Announced
  <2>3. wanted \subseteq Announced BY DEF Init, AlertsAssumption, Announced
  <2> QED BY <1>3, <2>1, <2>2, <2>3 DEF Init, TypeOK, Trackers, Engines
<1>5. HistoryTells BY <1>3 DEF Init, HistoryTells
<1>6. ClockTells /\ AlertInHand /\ GraceHolds /\ EngineKnowsTold
  BY DEF Init, ClockTells, AlertInHand, GraceHolds, EngineKnowsTold, KnowsWhatWasTold, NotStarted
<1> QED BY <1>4, <1>5, <1>6 DEF IInv

LEMMA TickKeeps == ASSUME AlertsAssumption, IInv, Tick PROVE IInv'
<1>1. /\ gap < MaxGap /\ now' = (now + 1) % SecMod /\ gap' = gap + 1
      /\ up' = (IF up < Grace THEN up + 1 ELSE up) /\ daylight' \in BOOLEAN
      /\ UNCHANGED <<reported, pc, outgoing, tracker, seeded, engine, history,
                     wanted, enabled, sending, told, excuse>>
  BY DEF Tick
<1>2. /\ now \in 0..(SecMod - 1) /\ up \in 0..Grace /\ gap \in 0..MaxGap
      /\ SecMod \in Nat \ {0} /\ Grace \in 1..SecMod /\ MaxGap \in Nat
  BY DEF IInv, TypeOK, AlertsAssumption
<1>3. /\ now' \in 0..(SecMod - 1) /\ (now + 1 < SecMod => now' = now + 1)
      /\ up' \in 0..Grace /\ gap' \in 0..MaxGap
  BY <1>1, <1>2
<1>4. TypeOK' BY <1>1, <1>3 DEF IInv, TypeOK
<1>5. ClockTells'
  <2> SUFFICES ASSUME up' < Grace PROVE now' = up' /\ (engine'.started => engine'.at <= now')
    BY DEF ClockTells
  <2>1. up < Grace /\ up' = up + 1 BY <1>1, <1>2
  <2>2. now = up /\ (engine.started => engine.at <= now) BY <2>1 DEF IInv, ClockTells
  <2>3. now' = now + 1 BY <1>2, <1>3, <2>1, <2>2
  <2>4. engine.at \in 0..(SecMod - 1) BY DEF IInv, TypeOK
  <2> QED BY <1>1, <1>2, <2>1, <2>2, <2>3, <2>4
<1>6. HistoryTells' BY <1>1 DEF IInv, HistoryTells
<1>7. up = Grace => up' = Grace BY <1>1, <1>2
<1>8. AlertInHand' /\ GraceHolds' /\ EngineKnowsTold'
  BY <1>1, <1>7 DEF IInv, AlertInHand, GraceHolds, EngineKnowsTold, KnowsWhatWasTold
<1> QED BY <1>4, <1>5, <1>6, <1>8 DEF IInv

LEMMA StepIInv == AlertsAssumption /\ IInv /\ [Next]_vars => IInv'
<1> SUFFICES ASSUME AlertsAssumption, IInv, [Next]_vars PROVE IInv'
  OBVIOUS
<1>1. CASE Tick BY <1>1, TickKeeps
<1>2. CASE RunQuiet BY <1>2, RunQuietKeeps
<1>3. CASE RunFollowing BY <1>3, RunFollowingKeeps
<1>4. CASE RunAnnouncing BY <1>4, RunAnnouncingKeeps
<1>5. CASE Send
  <2>1. /\ pc = "raised" /\ told' = outgoing /\ excuse' = "none" /\ pc' = "sent"
        /\ UNCHANGED <<clock, reported, outgoing, tracker, seeded, engine, history, settings>>
    BY <1>5 DEF Send
  <2>2. engine.started /\ up = Grace /\ outgoing \in Announced
        /\ tracker.initialized /\ tracker.notified = outgoing
    BY <2>1 DEF IInv, AlertInHand
  <2>3. TypeOK' BY <2>1, <2>2 DEF IInv, TypeOK, clock, settings
  <2>4. HistoryTells' BY <2>1 DEF IInv, HistoryTells
  <2>5. ClockTells' BY <2>1, <2>2 DEF IInv, ClockTells, clock
  <2>6. AlertInHand' BY <2>1, <2>2 DEF AlertInHand, clock
  <2>7. GraceHolds' BY <2>1, <2>2 DEF IInv, GraceHolds, clock
  <2>8. EngineKnowsTold' BY <2>1, <2>2 DEF EngineKnowsTold, KnowsWhatWasTold
  <2> QED BY <2>3, <2>4, <2>5, <2>6, <2>7, <2>8 DEF IInv
<1>6. CASE SendNothing
  <2>1. /\ pc = "raised" /\ excuse' = (IF excuse = "none" THEN "documented" ELSE excuse)
        /\ outgoing' = "nothing" /\ pc' = "idle"
        /\ UNCHANGED <<clock, reported, tracker, seeded, engine, history, settings, told>>
    BY <1>6 DEF SendNothing
  <2>2. TypeOK' BY <2>1 DEF IInv, TypeOK, clock, settings
  <2>3. HistoryTells' BY <2>1 DEF IInv, HistoryTells
  <2>4. ClockTells' BY <2>1 DEF IInv, ClockTells, clock
  <2>5. AlertInHand' /\ EngineKnowsTold' BY <2>1 DEF AlertInHand, EngineKnowsTold
  <2>6. GraceHolds' BY <2>1 DEF IInv, GraceHolds, clock
  <2> QED BY <2>2, <2>3, <2>4, <2>5, <2>6 DEF IInv
<1>7. CASE Record
  <2>1. /\ pc = "sent" /\ history' = Pushed(history, outgoing)
        /\ outgoing' = "nothing" /\ pc' = "idle"
        /\ UNCHANGED <<clock, reported, tracker, seeded, engine, settings, told, excuse>>
    BY <1>7 DEF Record
  <2>2. outgoing \in Announced /\ tracker.notified = outgoing /\ told = outgoing /\ excuse = "none"
    BY <2>1 DEF IInv, AlertInHand
  <2>3. history \in Seq(Entries) /\ Len(history) <= Capacity
        /\ LastIs(history, LastAlert(history)) /\ outgoing \in Entries
    BY <2>2 DEF IInv, TypeOK, HistoryTells, Announced, Entries
  <2>4. /\ history' \in Seq(Entries) /\ Len(history') <= Capacity
        /\ LastIs(history', LastAlert(history')) /\ LastAlert(history') = outgoing
    BY <2>1, <2>2, <2>3, PushedTells
  <2>5. TypeOK' BY <2>1, <2>4 DEF IInv, TypeOK, clock, settings
  <2>6. HistoryTells' BY <2>1, <2>2, <2>4 DEF HistoryTells
  <2>7. ClockTells' BY <2>1 DEF IInv, ClockTells, clock
  <2>8. AlertInHand' BY <2>1 DEF AlertInHand
  <2>9. GraceHolds' BY <2>1 DEF IInv, GraceHolds, clock
  <2>10. EngineKnowsTold' BY <2>1, <2>2 DEF EngineKnowsTold, KnowsWhatWasTold
  <2> QED BY <2>5, <2>6, <2>7, <2>8, <2>9, <2>10 DEF IInv
<1>8. CASE PauseOrResume
  <2>1. /\ pc = "idle" /\ sending' = ~sending /\ history' = Pushed(history, "armed")
        /\ UNCHANGED <<clock, reported, pc, outgoing, tracker, seeded, engine,
                       wanted, enabled, daylight, told, excuse>>
    BY <1>8 DEF PauseOrResume
  <2>2. "armed" \in Entries /\ "armed" \notin Announced BY DEF Entries, Announced
  <2>3. /\ history' \in Seq(Entries) /\ Len(history') <= Capacity
        /\ LastIs(history', LastAlert(history'))
        /\ LastAlert(history') \in {LastAlert(history), "nothing"}
    BY <2>1, <2>2, PushedTells DEF IInv, TypeOK, HistoryTells
  <2>4. TypeOK' BY <2>1, <2>3 DEF IInv, TypeOK, clock
  <2>5. HistoryTells' BY <2>1, <2>3 DEF IInv, HistoryTells
  <2>6. ClockTells' /\ AlertInHand' /\ GraceHolds' /\ EngineKnowsTold'
    BY <2>1 DEF IInv, ClockTells, AlertInHand, GraceHolds, EngineKnowsTold, KnowsWhatWasTold, clock
  <2> QED BY <2>4, <2>5, <2>6 DEF IInv
<1>9. CASE SaveSettings \/ UNCHANGED vars
  <2>1. /\ UNCHANGED <<now, gap, up, reported, pc, outgoing, tracker, seeded, engine, history,
                       sending, daylight, told, excuse>>
        /\ wanted' \subseteq Announced /\ enabled' \in BOOLEAN
    BY <1>9 DEF SaveSettings, vars, settings, clock, AlertsAssumption, IInv, TypeOK, Announced
  <2>2. TypeOK' BY <2>1 DEF IInv, TypeOK
  <2>3. HistoryTells' BY <2>1 DEF IInv, HistoryTells
  <2>4. ClockTells' /\ AlertInHand' /\ GraceHolds' /\ EngineKnowsTold'
    BY <2>1 DEF IInv, ClockTells, AlertInHand, GraceHolds, EngineKnowsTold, KnowsWhatWasTold
  <2> QED BY <2>2, <2>3, <2>4 DEF IInv
<1>10. CASE Restart
  <2>1. /\ Boot(history) /\ told' = told
        /\ excuse' = (CASE pc = "sent" -> "lapse"
                        [] pc # "sent" /\ excuse = "documented" -> "none"
                        [] OTHER -> excuse)
    BY <1>10 DEF Restart
  <2>2. excuse' \in Excuses /\ (excuse' # "lapse" => pc # "sent" /\ excuse # "lapse")
        /\ (excuse' = "lapse" => pc = "sent" \/ excuse = "lapse")
    BY <2>1 DEF IInv, TypeOK, Excuses
  <2>3. pc = "sent" => told # "nothing" BY DEF IInv, AlertInHand, Announced
  <2> QED BY <2>1, <2>2, <2>3, BootKeeps DEF IInv, TypeOK, HistoryTells
<1>11. CASE PowerCut
  <2>1. Boot(<<>>) /\ told' = "nothing" /\ excuse' = "documented" BY <1>11 DEF PowerCut
  <2>2. <<>> \in Seq(Entries) /\ Len(<<>>) <= Capacity /\ LastIs(<<>>, LastAlert(<<>>))
        /\ LastAlert(<<>>) = "nothing"
    <3>1. <<>> \in Seq(Entries) /\ LastIs(<<>>, "nothing") BY DEF LastIs
    <3>2. Len(<<>>) <= Capacity BY DEF AlertsAssumption
    <3> QED BY <3>1, <3>2, LastIsFound
  <2>3. excuse' \in Excuses /\ excuse' # "lapse" BY <2>1 DEF Excuses
  <2> QED BY <2>1, <2>2, <2>3, BootKeeps
<1> QED BY <1>1, <1>2, <1>3, <1>4, <1>5, <1>6, <1>7, <1>8, <1>9, <1>10, <1>11 DEF Next, Pass

\* A change of the verdict is compared with what was last sent, across
\* restarts too, unless the ghost knows a reason why not (AlertEngine::
\* updateSafety and seedSafety, SafetyHistory::lastAlert).
THEOREM EngineComparesWithTold == Spec => []EngineKnowsTold
<1>1. IInv => EngineKnowsTold BY DEF IInv
<1> QED BY AlertsAssumption, InitIInv, StepIInv, <1>1, PTL DEF Spec

\* The state keeps its types, the history never outgrows its ring.
THEOREM AlertTypes == Spec => []TypeOK
<1>1. IInv => TypeOK BY DEF IInv
<1> QED BY AlertsAssumption, InitIInv, StepIInv, <1>1, PTL DEF Spec
=============================================================================
