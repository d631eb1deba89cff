------------------------ MODULE AlpacaSession_proofs ------------------------
(***************************************************************************)
(* Proofs about AlpacaSession, for every set of settings, cooldown, silence *)
(* time and number of restarts: a user's pause lasts (PauseStands), and     *)
(* every loss has one answer (LossesAreAnswered).                           *)
(*                                                                          *)
(* PauseStands needs to know what NVS holds while the user's pause stands,  *)
(* or a restart and a change of the mode could end it (PauseKept).          *)
(* LossesAreAnswered needs the tracker to know which losses are open,        *)
(* through rules switched off and Alpaca switched off, and that an open one *)
(* is still counted as told (AnswersOwed).                                  *)
(***************************************************************************)
EXTENDS AlpacaSession, TLAPS

Schedules == [sending : BOOLEAN, reason : Reasons]
SavedSchedules == [sending : BOOLEAN, reason : Reasons \union {"missing"}]
Trackers == [init : BOOLEAN, notified : BOOLEAN, since : 0..Cooldown, answer : BOOLEAN]
Paused == [sending |-> FALSE, reason |-> "user"]

Pauses == {"none", "user", "taken"}
Looks == [started : BOOLEAN, whileConnected : BOOLEAN, connected : BOOLEAN]

\* What NVS holds agrees with the schedule on whether alerts are sent, and
\* both hold the user's pause while it stands and nothing took its place.
PauseKept ==
    /\ sched \in Schedules /\ saved \in SavedSchedules /\ pause \in Pauses /\ seen \in Looks
    /\ saved.sending = sched.sending
    /\ pause = "user" => sched = Paused /\ saved = Paused
    /\ pause = "taken" => ~sched.sending

\* The tracker owes an answer to exactly the open losses, and these are told.
AnswersOwed ==
    /\ teller \in [Followed -> Trackers]
    /\ \A d \in Followed :
         /\ teller[d].answer <=> d \in open
         /\ d \in open => teller[d].notified /\ teller[d].init

-----------------------------------------------------------------------------
(* The schedule                                                             *)

\* What can be stored is a schedule, and the user's pause survives storing.
LEMMA StoreKeepsPause ==
    ASSUME PauseKept, NEW done, StoreReason(sched, done)
    PROVE  PauseKept'
<1>1. /\ sched' = sched /\ saved' = [saved EXCEPT !.reason = sched.reason]
      /\ pause' = IF PausedByUser(sched) THEN "user" ELSE pause
      /\ sched \in Schedules /\ saved \in SavedSchedules /\ pause \in Pauses /\ seen' \in Looks
      /\ saved.sending = sched.sending
      /\ pause = "user" => sched = Paused
      /\ pause = "taken" => ~sched.sending
  BY DEF StoreReason, PauseKept
<1>2. /\ saved' \in SavedSchedules /\ saved'.sending = sched.sending
      /\ saved'.reason = sched.reason
  BY <1>1 DEF Schedules, SavedSchedules
<1>3. PausedByUser(sched) => sched = Paused
  BY <1>1 DEF PausedByUser, Paused, Schedules
<1>4. sched = Paused => saved' = Paused
  <2>1. saved' = [sending |-> saved'.sending, reason |-> saved'.reason]
    BY <1>2 DEF SavedSchedules
  <2> QED BY <1>2, <2>1 DEF Paused
<1>5. pause' = "user" => sched' = Paused /\ saved' = Paused
  BY <1>1, <1>3, <1>4
<1>6. pause' \in Pauses /\ (pause' = "taken" => ~sched'.sending)
  BY <1>1 DEF Pauses
<1> QED BY <1>1, <1>2, <1>5, <1>6 DEF PauseKept

\* A change of the schedule keeps the two in step, and what is not a change
\* keeps the pause.
LEMMA ChangeKeepsPause ==
    ASSUME PauseKept, NEW s \in Schedules, NEW storing, NEW done,
           Changed(s, storing, done), pause' \in Pauses, seen' \in Looks,
           pause' = "user" => pause = "user" /\ s = sched,
           pause' = "taken" => ~s.sending
    PROVE  PauseKept'
<1>1. CASE s = sched BY <1>1 DEF Changed, PauseKept
<1>2. CASE s # sched
  <2>1. saved' = [saved EXCEPT !.sending = s.sending] /\ sched' = s
    BY <1>2 DEF Changed
  <2>2. saved' \in SavedSchedules /\ saved'.sending = s.sending
    BY <2>1 DEF PauseKept, Schedules, SavedSchedules
  <2> QED BY <1>2, <2>1, <2>2 DEF PauseKept
<1> QED BY <1>1, <1>2

\* update() computes a schedule; it ends the user's pause only for an app that
\* connects, and one that a disconnect took over only when the mode is left.
LEMMA UpdatedIsASchedule ==
    ASSUME NEW s \in Schedules, NEW mode \in BOOLEAN, NEW any \in BOOLEAN, seen \in Looks
    PROVE  /\ Updated(s, mode, any) \in Schedules
           /\ s = Paused /\ ~AppConnects(mode, any) /\ ~TakenOver(mode, any)
                => Updated(s, mode, any) = s
           /\ s = Paused /\ TakenOver(mode, any) => ~Updated(s, mode, any).sending
           /\ ~s.sending /\ ~AppConnects(mode, any) /\ ~ModeLeft(mode)
                => ~Updated(s, mode, any).sending
<1>0. /\ seen.started \in BOOLEAN /\ seen.whileConnected \in BOOLEAN
      /\ seen.connected \in BOOLEAN
  BY DEF Looks
<1>1. ModeChanged(s, mode, any) \in Schedules
  BY DEF ModeChanged, Schedules, Reasons
<1>2. Updated(s, mode, any) \in Schedules
  BY <1>1 DEF Updated, Schedules, Reasons
<1>3. ASSUME s = Paused, ~AppConnects(mode, any), ~TakenOver(mode, any)
      PROVE  Updated(s, mode, any) = s
  <2>1. CASE ~seen.started BY <2>1 DEF Updated
  <2>2. CASE seen.started /\ mode # seen.whileConnected
    <3>1. ~(mode /\ any) BY <1>0, <1>3, <2>2 DEF AppConnects
    <3>2. ModeChanged(s, mode, any) = s
      BY <1>3, <3>1 DEF ModeChanged, PausedByUser, Paused
    <3> QED BY <2>2, <3>2 DEF Updated
  <2>3. CASE seen.started /\ mode = seen.whileConnected
    BY <1>0, <1>3, <2>3 DEF Updated, AppConnects, TakenOver
  <2> QED BY <2>1, <2>2, <2>3
<1>4. ASSUME s = Paused, TakenOver(mode, any)
      PROVE  ~Updated(s, mode, any).sending
  BY <1>4 DEF Updated, TakenOver, ModeChanged, PausedByUser, Paused
<1>5. ASSUME ~s.sending, ~AppConnects(mode, any), ~ModeLeft(mode)
      PROVE  ~Updated(s, mode, any).sending
  <2>1. CASE ~seen.started BY <1>5, <2>1 DEF Updated
  <2>2. CASE seen.started /\ mode # seen.whileConnected
    <3>1. mode /\ ~any BY <1>0, <1>5, <2>2 DEF AppConnects, ModeLeft
    <3>2. ~ModeChanged(s, mode, any).sending
      BY <1>5, <3>1 DEF ModeChanged, PausedByUser
    <3> QED BY <2>2, <3>2 DEF Updated
  <2>3. CASE seen.started /\ mode = seen.whileConnected
    BY <1>0, <1>5, <2>3 DEF Updated, AppConnects
  <2> QED BY <2>1, <2>2, <2>3
<1> QED BY <1>2, <1>3, <1>4, <1>5

LEMMA PauseInit == Init => PauseKept
<1> SUFFICES ASSUME Init PROVE PauseKept
  OBVIOUS
<1>1. /\ saved \in [sending : BOOLEAN, reason : {"missing"}]
      /\ sched = Restored(saved) /\ pause = "none" /\ seen = Unseen
  BY DEF Init
<1>2. saved \in SavedSchedules BY <1>1 DEF SavedSchedules
<1>3. Restored(saved) \in Schedules /\ Restored(saved).sending = saved.sending
  BY <1>1 DEF Restored, Schedules, Reasons
<1> QED BY <1>1, <1>2, <1>3 DEF PauseKept, Pauses, Unseen, Looks

LEMMA PauseStep == PauseKept /\ [Next]_vars => PauseKept'
<1> SUFFICES ASSUME PauseKept, [Next]_vars PROVE PauseKept'
  OBVIOUS
<1>1. CASE Ask \/ Answer \/ SaveSettings \/ Watch \/ UNCHANGED vars
  <2>1. UNCHANGED schedule
    BY <1>1, Zenon DEF Ask, Answer, SaveSettings, Watch, vars
  <2> QED BY <2>1 DEF schedule, PauseKept
<1>2. CASE Handle
  <2>1. PICK command \in {"none", "pause", "resume"} :
          /\ Changed(IF command = "none" THEN sched
                     ELSE [sending |-> command = "resume", reason |-> "user"], "save", "watch")
          /\ pause' = IF command = "resume" THEN "none" ELSE pause
          /\ seen' = seen
    BY <1>2, Zenon DEF Handle
  <2> DEFINE s == IF command = "none" THEN sched
                  ELSE [sending |-> command = "resume", reason |-> "user"]
  <2>2. s \in Schedules BY DEF PauseKept, Schedules, Reasons
  <2>3. pause' \in Pauses /\ seen' \in Looks BY <2>1 DEF PauseKept, Pauses
  <2>4. pause' = "user" => pause = "user" /\ s = sched
    BY <2>1 DEF PauseKept, Paused
  <2>5. pause' = "taken" => ~s.sending
    BY <2>1 DEF PauseKept
  <2>6. Changed(s, "save", "watch") BY <2>1, Zenon
  <2> HIDE DEF s
  <2> QED BY <2>2, <2>3, <2>4, <2>5, <2>6, ChangeKeepsPause
<1>3. CASE Save
  BY <1>3, StoreKeepsPause DEF Save
<1>4. CASE Update
  <2> DEFINE mode == settings.alpaca /\ settings.whileConnected
             any  == connected # {}
  <2>1. /\ Changed(Updated(sched, mode, any), "store", "rest")
        /\ pause' = PauseAfter(mode, any)
        /\ seen' = [started |-> TRUE, whileConnected |-> mode, connected |-> any]
    BY <1>4 DEF Update
  <2>2. mode \in BOOLEAN /\ any \in BOOLEAN OBVIOUS
  <2> HIDE DEF mode, any
  <2> DEFINE s == Updated(sched, mode, any)
  <2>3. /\ s \in Schedules
        /\ sched = Paused /\ ~AppConnects(mode, any) /\ ~TakenOver(mode, any) => s = sched
        /\ sched = Paused /\ TakenOver(mode, any) => ~s.sending
        /\ ~sched.sending /\ ~AppConnects(mode, any) /\ ~ModeLeft(mode) => ~s.sending
    BY <2>2, UpdatedIsASchedule DEF PauseKept
  <2>4. Changed(s, "store", "rest") BY <2>1
  <2> HIDE DEF s
  <2>5. pause' \in Pauses /\ seen' \in Looks
    BY <2>1, <2>2 DEF PauseKept, PauseAfter, Pauses, Looks
  <2>6. pause' = "user" => pause = "user" /\ s = sched
    BY <2>1, <2>3 DEF PauseKept, PauseAfter, Pauses
  <2>7. pause' = "taken" => ~s.sending
    <3>1. pause' = "taken" => /\ ~AppConnects(mode, any)
                              /\ \/ pause = "user" /\ TakenOver(mode, any)
                                 \/ pause = "taken" /\ ~ModeLeft(mode)
      BY <2>1 DEF PauseKept, PauseAfter, Pauses
    <3> QED BY <2>3, <3>1 DEF PauseKept
  <2> QED BY <2>3, <2>4, <2>5, <2>6, <2>7, ChangeKeepsPause
<1>5. CASE Store
  BY <1>5, StoreKeepsPause DEF Store
<1>6. CASE Restart
  <2>1. sched' = Restored(saved) /\ saved' = saved /\ pause' = pause /\ seen' = Unseen
    BY <1>6 DEF Restart
  <2>2. Restored(saved) \in Schedules /\ Restored(saved).sending = saved.sending
    BY DEF PauseKept, Restored, Schedules, SavedSchedules, Reasons
  <2>3. saved = Paused => Restored(saved) = Paused
    BY DEF Restored, Paused
  <2> QED BY <2>1, <2>2, <2>3 DEF PauseKept, Unseen, Looks, Pauses
<1> QED BY <1>1, <1>2, <1>3, <1>4, <1>5, <1>6 DEF Next, Loop

\* A user's pause that was stored lasts until the user resumes or, with the
\* mode on, an app connects, through restarts and half-stored changes; the
\* last app's disconnect may take its place, and that pause ends with the mode
\* (AlertSchedule, scheduleChanged).
THEOREM PauseLasts == Spec => []PauseStands
<1>1. PauseKept => PauseStands BY DEF PauseKept, PauseStands, Paused, Pauses
<1> QED BY PauseInit, PauseStep, <1>1, PTL DEF Spec

-----------------------------------------------------------------------------
(* The losses                                                               *)

\* What a device's tracker becomes, and what is said: an answer is owed
\* afterwards exactly when a loss is open afterwards.
LEMMA OneAnswer ==
    ASSUME NEW t \in Trackers, NEW silent \in BOOLEAN, NEW allowed \in BOOLEAN,
           t.answer => t.notified /\ t.init,
           NEW verdict, verdict = ClientSilence(t, silent, allowed),
           NEW stays \in BOOLEAN,
           stays <=> \/ verdict[2] = "lost"
                     \/ t.answer /\ verdict[2] # "back" /\ (silent \/ allowed)
    PROVE  /\ verdict[1] \in Trackers
           /\ verdict[2] = "lost" => ~t.answer
           /\ verdict[2] = "back" => t.answer
           /\ verdict[1].answer <=> stays
           /\ stays => verdict[1].notified /\ verdict[1].init
<1> DEFINE paused == [t EXCEPT !.answer = t.answer /\ (silent \/ allowed)]
<1>0. 0 \in 0..Cooldown BY SessionAssumption
<1>1. CASE ~silent /\ t.init /\ t.notified /\ allowed
  <2> DEFINE after == [t EXCEPT !.notified = FALSE, !.answer = FALSE]
  <2>1. verdict = <<after, IF t.answer THEN "back" ELSE "none">>
    BY <1>1 DEF ClientSilence
  <2>2. after \in Trackers /\ ~after.answer BY DEF Trackers
  <2> HIDE DEF after
  <2>3. verdict[1] = after /\ verdict[2] = IF t.answer THEN "back" ELSE "none" BY <2>1
  <2> QED BY <1>1, <2>2, <2>3
<1>2. CASE ~(~silent /\ t.init /\ t.notified /\ allowed) /\ (~t.init \/ ~allowed)
  <2> DEFINE after == [paused EXCEPT !.init = TRUE, !.notified = silent]
  <2>1. verdict = <<after, "none">>
    BY <1>2 DEF ClientSilence
  <2>2. /\ after \in Trackers /\ after.init /\ after.notified = silent
        /\ after.answer = (t.answer /\ (silent \/ allowed))
    BY DEF Trackers
  <2> HIDE DEF after, paused
  <2>3. verdict[1] = after /\ verdict[2] = "none" BY <2>1
  <2> QED BY <1>2, <2>2, <2>3
<1>3. CASE t.init /\ allowed /\ (silent \/ ~t.notified) /\ (silent = t.notified \/ t.since < Cooldown)
  <2>1. verdict = <<paused, "none">>
    BY <1>3 DEF ClientSilence
  <2>2. /\ paused \in Trackers /\ paused.init = t.init /\ paused.notified = t.notified
        /\ paused.answer = (t.answer /\ (silent \/ allowed))
    BY DEF Trackers
  <2> HIDE DEF paused
  <2>3. verdict[1] = paused /\ verdict[2] = "none" BY <2>1
  <2> QED BY <1>3, <2>2, <2>3
<1>4. CASE t.init /\ allowed /\ (silent \/ ~t.notified) /\ ~(silent = t.notified \/ t.since < Cooldown)
  <2> DEFINE after == [paused EXCEPT !.notified = silent, !.since = 0, !.answer = TRUE]
  <2>1. verdict = <<after, "lost">>
    BY <1>4 DEF ClientSilence
  <2>2. silent /\ ~t.notified BY <1>4 DEF Trackers
  <2>3. /\ after \in Trackers /\ after.init = t.init /\ after.notified = silent /\ after.answer
    BY <1>0 DEF Trackers
  <2> HIDE DEF after, paused
  <2>4. verdict[1] = after /\ verdict[2] = "lost" BY <2>1
  <2> QED BY <1>4, <2>2, <2>3, <2>4
<1> QED BY <1>1, <1>2, <1>3, <1>4 DEF Trackers

\* A pass of the watch, for one device: nothing is said without need, and
\* the tracker and the open losses stay in step.
LEMMA WatchAnswers ==
    ASSUME AnswersOwed, Watch
    PROVE  /\ AnswersOwed'
           /\ \A d \in Followed :
                /\ <<"lost", d>> \in outgoing' => d \notin open
                /\ <<"back", d>> \in outgoing' => d \in open
<1> DEFINE now     == [d \in Followed |-> Watched(d)]
           allowed == [d \in Followed |->
                         /\ Watching(d, now[d].ever, now[d].ended)
                         /\ settings.rules \cap {"lost", "back"} # {}]
           verdict == [d \in Followed |->
                         IF DisconnectedNow(d) THEN <<Ended(teller[d]), "none">>
                         ELSE ClientSilence(teller[d], now[d].silent, allowed[d])]
           said    == {<<verdict[d][2], d>> : d \in Followed}
           sends   == sched.sending /\ settings.alerts
<1>1. /\ teller' = [d \in Followed |-> verdict[d][1]]
      /\ outgoing' = (IF sends THEN {s \in said : s[1] \in settings.rules} ELSE {})
      /\ open' = {d \in Followed :
                    \/ verdict[d][2] = "lost"
                    \/ /\ d \in open /\ verdict[d][2] # "back" /\ ~DisconnectedNow(d)
                       /\ now[d].silent \/ allowed[d]}
  BY Zenon DEF Watch
<1>2. ASSUME NEW d \in Followed
      PROVE  /\ teller[d] \in Trackers
             /\ teller[d].answer <=> d \in open
             /\ d \in open => teller[d].notified /\ teller[d].init
  BY DEF AnswersOwed
<1>3. ASSUME NEW d \in Followed
      PROVE  now[d].silent \in BOOLEAN /\ allowed[d] \in BOOLEAN
  BY DEF Watched, Unwatched
<1>4. ASSUME NEW d \in Followed
      PROVE  /\ verdict[d][1] \in Trackers
             /\ verdict[d][2] = "lost" => d \notin open
             /\ verdict[d][2] = "back" => d \in open
             /\ verdict[d][1].answer <=> d \in open'
             /\ d \in open' => verdict[d][1].notified /\ verdict[d][1].init
  <2>1. d \in open' <=>
          \/ verdict[d][2] = "lost"
          \/ /\ d \in open /\ verdict[d][2] # "back" /\ ~DisconnectedNow(d)
             /\ now[d].silent \/ allowed[d]
    BY <1>1, Zenon
  <2>2. CASE DisconnectedNow(d)
    <3>1. verdict[d] = <<Ended(teller[d]), "none">> BY <2>2
    <3> HIDE DEF verdict, now, allowed
    <3>2. verdict[d][1] = Ended(teller[d]) /\ verdict[d][2] = "none" BY <3>1
    <3>3. Ended(teller[d]) \in Trackers /\ ~Ended(teller[d]).answer
      BY <1>2 DEF Ended, Trackers
    <3> QED BY <2>1, <2>2, <3>2, <3>3
  <2>3. CASE ~DisconnectedNow(d)
    <3>1. verdict[d] = ClientSilence(teller[d], now[d].silent, allowed[d])
      BY <2>3
    <3>2. now[d].silent \in BOOLEAN /\ allowed[d] \in BOOLEAN BY <1>3, Zenon
    <3> HIDE DEF verdict, now, allowed
    <3> DEFINE v     == verdict[d]
               t     == teller[d]
               quiet == now[d].silent
               may   == allowed[d]
               stays == v[2] = "lost" \/ (t.answer /\ v[2] # "back" /\ (quiet \/ may))
    <3>3. t \in Trackers /\ (t.answer => t.notified /\ t.init) BY <1>2
    <3>4. v = ClientSilence(t, quiet, may) BY <3>1
    <3>5. quiet \in BOOLEAN /\ may \in BOOLEAN /\ stays \in BOOLEAN BY <3>2
    <3>6. d \in open' <=> stays BY <1>2, <2>1, <2>3
    <3>7. t.answer <=> d \in open BY <1>2
    <3> HIDE DEF v, t, quiet, may
    <3>8. /\ v[1] \in Trackers
          /\ v[2] = "lost" => ~t.answer
          /\ v[2] = "back" => t.answer
          /\ v[1].answer <=> stays
          /\ stays => v[1].notified /\ v[1].init
      BY <3>3, <3>4, <3>5, OneAnswer
    <3> HIDE DEF stays
    <3>9. /\ v[1] \in Trackers
          /\ v[2] = "lost" => d \notin open
          /\ v[2] = "back" => d \in open
          /\ v[1].answer <=> d \in open'
          /\ d \in open' => v[1].notified /\ v[1].init
      BY <3>6, <3>7, <3>8
    <3> QED BY <3>9 DEF v
  <2> QED BY <2>2, <2>3
<1> HIDE DEF verdict, now, allowed
<1>5. \A d \in Followed : teller'[d] = verdict[d][1]
  BY <1>1
<1>6. teller' \in [Followed -> Trackers]
  BY <1>1, <1>4
<1>7. AnswersOwed'
  BY <1>4, <1>5, <1>6 DEF AnswersOwed
<1>8. ASSUME NEW d \in Followed, NEW what \in Rules, <<what, d>> \in outgoing'
      PROVE  verdict[d][2] = what
  <2>1. <<what, d>> \in said BY <1>1, <1>8
  <2>2. PICK e \in Followed : <<what, d>> = <<verdict[e][2], e>> BY <2>1, Zenon
  <2> QED BY <2>2
<1> QED BY <1>4, <1>7, <1>8 DEF Rules

LEMMA OwedInit == Init => AnswersOwed
<1> SUFFICES ASSUME Init PROVE AnswersOwed
  OBVIOUS
<1>1. Untold \in Trackers /\ ~Untold.answer
  BY SessionAssumption DEF Untold, Trackers
<1> QED BY <1>1 DEF Init, AnswersOwed

LEMMA OwedStep == AnswersOwed /\ [Next]_vars => AnswersOwed'
<1> SUFFICES ASSUME AnswersOwed, [Next]_vars PROVE AnswersOwed'
  OBVIOUS
<1>1. CASE Ask \/ Answer \/ SaveSettings \/ Save \/ Update \/ Store \/ UNCHANGED vars
  BY <1>1 DEF Ask, Answer, SaveSettings, Save, Update, Store, StoreReason, vars, watching,
     AnswersOwed
<1>2. CASE Handle
  <2>1. PICK n \in 1..MaxGap :
          teller' = [d \in Followed |-> [teller[d] EXCEPT !.since = Older(@, n, Cooldown)]]
    BY <1>2, Zenon DEF Handle
  <2>2. open' = open BY <1>2 DEF Handle
  <2>3. ASSUME NEW d \in Followed
        PROVE  /\ teller'[d] \in Trackers
               /\ teller'[d].answer = teller[d].answer
               /\ teller'[d].notified = teller[d].notified
               /\ teller'[d].init = teller[d].init
    <3>1. teller[d] \in Trackers BY DEF AnswersOwed
    <3>2. Older(teller[d].since, n, Cooldown) \in 0..Cooldown
      BY <3>1, SessionAssumption DEF Older, Trackers
    <3>3. teller'[d] = [teller[d] EXCEPT !.since = Older(teller[d].since, n, Cooldown)]
      BY <2>1
    <3> QED BY <3>1, <3>2, <3>3 DEF Trackers
  <2>4. teller' \in [Followed -> Trackers]
    <3>1. DOMAIN teller' = Followed /\ teller' = [d \in Followed |-> teller'[d]] BY <2>1
    <3> QED BY <2>3, <3>1
  <2> QED BY <2>2, <2>3, <2>4 DEF AnswersOwed
<1>3. CASE Watch
  BY <1>3, WatchAnswers
<1>4. CASE Restart
  <2>1. Untold \in Trackers /\ ~Untold.answer
    BY SessionAssumption DEF Untold, Trackers
  <2>2. teller' = [d \in Followed |-> Untold] /\ open' = {}
    BY <1>4 DEF Restart
  <2> QED BY <2>1, <2>2 DEF AnswersOwed
<1> QED BY <1>1, <1>2, <1>3, <1>4 DEF Next, Loop

\* Every "stops checking" has one "is back" before the next, and no "is back"
\* comes without a loss, whatever the app, the rules and the pauses do in
\* between (AlertEngine::clientSilence, watchClients).
THEOREM EveryLossAnswered == Spec => LossesAreAnswered
<1> DEFINE Step == pc = "watch" /\ pc' = "update" =>
                     \A d \in Followed :
                       /\ <<"lost", d>> \in outgoing' => d \notin open
                       /\ <<"back", d>> \in outgoing' => d \in open
<1>1. AnswersOwed /\ [Next]_vars => [Step]_vars
  <2> SUFFICES ASSUME AnswersOwed, Next, pc = "watch", pc' = "update"
               PROVE  Step
    OBVIOUS
  <2>1. Watch
    BY DEF Next, Loop, Ask, Answer, SaveSettings, Handle, Save, Update, Store, StoreReason,
       Changed, Restart
  <2> QED BY <2>1, WatchAnswers
<1> QED BY OwedInit, OwedStep, <1>1, PTL DEF Spec, LossesAreAnswered
=============================================================================
