--------------------------- MODULE AlpacaSession ---------------------------
(***************************************************************************)
(* The imaging app and what the device makes of it.  The web task answers   *)
(* its requests and keeps who is connected; once a second the loop task     *)
(* looks at what came in (ClientWatch), says when an app stops checking or  *)
(* is back (AlertEngine) and starts or pauses the alerts with the session   *)
(* (AlertSchedule).  Connections outlive a restart the device causes itself *)
(* (RTC memory), the schedule outlives every restart (NVS).                 *)
(*                                                                          *)
(* Times are ages in seconds that stop at the age that matters.  An action  *)
(* ends where the other task can see its effect.                            *)
(***************************************************************************)
EXTENDS Naturals, FiniteSets

CONSTANTS
    Followed,     \* bound: the devices whose silence the model follows
    Silence,      \* the "Silent for" time
    Cooldown,
    MaxGap,       \* bound: seconds from one pass of the loop task to the next
    MaxRestarts,  \* bound
    Settings      \* the settings the user switches between

Devices == 0..1   \* SafetyMonitor, ObservingConditions
Rules == {"lost", "back"}

ASSUME SessionAssumption ==
    /\ Followed \subseteq Devices
    /\ Silence \in Nat /\ Cooldown \in Nat \ {0} /\ MaxGap \in Nat \ {0}
    /\ MaxRestarts \in Nat
    /\ Settings \subseteq [alpaca : BOOLEAN, whileConnected : BOOLEAN,
                           alerts : BOOLEAN, rules : SUBSET Rules]
    /\ Settings # {}

VARIABLES
    settings,
    connected,    \* the router: the devices connected
    asked,        \* the devices with requests the watch has not seen
    dropped,      \* the devices with disconnects the watch has not seen
    request,      \* the request being answered
    memory,       \* the connections kept in RTC memory
    pc,           \* the loop task
    watch,        \* ClientWatch, for each device
    teller,       \* the engine's tracker, for each device
    outgoing,     \* the alerts of this pass that were sent
    sched,        \* AlertSchedule: sending, and why
    seen,         \* ... and what it saw last
    saved,        \* sending and reason in NVS
    restarts,
    open,         \* ghost: the devices with a loss that has no answer yet
    pause         \* ghost: a stored pause of the user's, or one a disconnect took over

router == <<connected, asked, dropped, request>>
watching == <<watch, teller, outgoing, open>>
schedule == <<sched, seen, saved, pause>>
vars == <<settings, router, memory, pc, watching, schedule, restarts>>

NoRequest == [device |-> 0, what |-> "none"]
Unwatched == [started |-> FALSE, ever |-> FALSE, silent |-> FALSE, ended |-> FALSE, quiet |-> 0]
Untold == [init |-> FALSE, notified |-> FALSE, since |-> Cooldown, answer |-> FALSE]
Unseen == [started |-> FALSE, whileConnected |-> FALSE, connected |-> FALSE]
Reasons == {"none", "user", "connected", "disconnected", "waiting", "migrated"}
Older(age, n, most) == IF age + n > most THEN most ELSE age + n

TypeOK ==
    /\ settings \in Settings
    /\ connected \subseteq Devices /\ asked \subseteq Followed /\ dropped \subseteq Followed
    /\ request \in [device : Devices, what : {"none", "connect", "clear"}]
    /\ memory \subseteq Devices
    /\ pc \in {"rest", "save", "watch", "update", "store"}
    /\ watch \in [Followed -> [started : BOOLEAN, ever : BOOLEAN, silent : BOOLEAN,
                      ended : BOOLEAN, quiet : 0..(Silence + 1)]]
    /\ teller \in [Followed -> [init : BOOLEAN, notified : BOOLEAN, since : 0..Cooldown,
                       answer : BOOLEAN]]
    /\ outgoing \subseteq Rules \X Followed
    /\ sched \in [sending : BOOLEAN, reason : Reasons]
    /\ seen \in [started : BOOLEAN, whileConnected : BOOLEAN, connected : BOOLEAN]
    /\ saved \in [sending : BOOLEAN, reason : Reasons \union {"missing"}]
    /\ restarts \in 0..MaxRestarts
    /\ open \subseteq Followed
    /\ pause \in {"none", "user", "taken"}

\* AlertSchedule::restore: firmware from before the reasons saved none.
Restored(s) ==
    [sending |-> s.sending,
     reason  |-> IF s.reason # "missing" THEN s.reason
                 ELSE IF s.sending THEN "none" ELSE "migrated"]

\* wrong variant: the silence of kept connections is not counted from boot
WatchAtBootUnset(kept) == [d \in Followed |-> Unwatched]

\* ClientWatch and the connections at boot.
WatchAtBoot(kept) == [d \in Followed |-> [Unwatched EXCEPT !.ever = d \in kept]]

Init ==
    /\ settings \in Settings
    /\ connected = {} /\ asked = {} /\ dropped = {} /\ request = NoRequest
    /\ memory = {} /\ pc = "rest"
    /\ watch = WatchAtBoot({}) /\ teller = [d \in Followed |-> Untold]
    /\ outgoing = {}
    /\ saved \in [sending : BOOLEAN, reason : {"missing"}]
    /\ sched = Restored(saved) /\ seen = Unseen
    /\ restarts = 0
    /\ open = {} /\ pause = "none"

-----------------------------------------------------------------------------
(* The web task                                                             *)

(* Any request of an app: it is counted before it is answered.  With Alpaca *)
(* off a connect is refused, a disconnect is not; a disconnect counts only   *)
(* when the device was connected.                                           *)
Ask ==
    /\ request = NoRequest
    /\ \E d \in Devices, what \in {"none", "connect", "clear"} :
         /\ what = "connect" => settings.alpaca
         /\ asked' = asked \union ({d} \cap Followed)
         /\ dropped' = IF what = "clear" THEN dropped \union ({d} \cap connected \cap Followed) ELSE dropped
         /\ request' = IF what = "none" THEN NoRequest ELSE [device |-> d, what |-> what]
    /\ UNCHANGED <<settings, connected, memory, pc, watching, schedule, restarts>>

(* setConnected, the flag itself.                                           *)
Answer ==
    /\ request # NoRequest
    /\ connected' = IF request.what = "connect" THEN connected \union {request.device}
                    ELSE connected \ {request.device}
    /\ request' = NoRequest
    /\ UNCHANGED <<settings, asked, dropped, memory, pc, watching, schedule, restarts>>

SaveSettings ==
    /\ \E s \in Settings : s # settings /\ settings' = s
    /\ UNCHANGED <<router, memory, pc, watching, schedule, restarts>>

-----------------------------------------------------------------------------
(* AlertSchedule                                                            *)

PausedByUser(s) == ~s.sending /\ s.reason = "user"

\* wrong variant: switching the mode ends any pause
ModeChangedFreely(s, whileConnected, any) ==
    IF whileConnected
    THEN IF any THEN [sending |-> TRUE, reason |-> "connected"]
         ELSE [sending |-> FALSE, reason |-> "waiting"]
    ELSE [sending |-> TRUE, reason |-> "none"]

ModeChanged(s, whileConnected, any) ==
    IF whileConnected
    THEN IF any THEN [sending |-> TRUE, reason |-> "connected"]
         ELSE IF PausedByUser(s) THEN s
         ELSE [sending |-> FALSE, reason |-> "waiting"]
    ELSE IF ~s.sending /\ s.reason \in {"disconnected", "waiting"}
         THEN [sending |-> TRUE, reason |-> "none"] ELSE s

\* update(): what was saved stands until something changes.
Updated(s, whileConnected, any) ==
    IF ~seen.started THEN s
    ELSE IF whileConnected # seen.whileConnected THEN ModeChanged(s, whileConnected, any)
    ELSE IF whileConnected /\ any # seen.connected
         THEN [sending |-> any, reason |-> IF any THEN "connected" ELSE "disconnected"]
    ELSE s

\* The schedule becomes s, and scheduleChanged() begins to store it: whether
\* alerts are sent first, the reason in a write of its own.
Changed(s, storing, done) ==
    /\ sched' = s
    /\ saved' = (IF s = sched THEN saved ELSE [saved EXCEPT !.sending = s.sending])
    /\ pc' = (IF s = sched THEN done ELSE storing)

StoreReason(s, done) ==
    /\ saved' = [saved EXCEPT !.reason = s.reason]
    /\ pause' = (IF PausedByUser(s) THEN "user" ELSE pause)
    /\ pc' = done
    /\ UNCHANGED <<settings, router, memory, watching, sched, seen, restarts>>

-----------------------------------------------------------------------------
(* The loop task: a pass a second                                           *)

\* Bound: what RTC memory holds is followed while a restart can still read it.
Kept(devices, n) == IF n < MaxRestarts THEN devices ELSE {}

(* handle(): connections go to RTC memory, and a pause or resume from the    *)
(* page, REST or MQTT that came since is applied.                           *)
Handle ==
    /\ pc = "rest"
    /\ memory' = Kept(connected, restarts)
    /\ \E n \in 1..MaxGap :
         /\ watch' = [d \in Followed |-> [watch[d] EXCEPT !.quiet = IF watch[d].ever THEN Older(@, n, Silence + 1) ELSE 0]]
         /\ teller' = [d \in Followed |-> [teller[d] EXCEPT !.since = Older(@, n, Cooldown)]]
    /\ \E command \in {"none", "pause", "resume"} :
         /\ LET wanted == [sending |-> command = "resume", reason |-> "user"]
            IN  Changed(IF command = "none" THEN sched ELSE wanted, "save", "watch")
         /\ pause' = (IF command = "resume" THEN "none" ELSE pause)
    /\ UNCHANGED <<settings, router, outgoing, open, seen, restarts>>

Save ==
    /\ pc = "save"
    /\ StoreReason(sched, "watch")

\* The device has a client, as far as one can tell.
Watching(d, ever, ended) == settings.alpaca /\ (d \in connected \/ (ever /\ ~ended))

\* ClientWatch::update, with what its first look at the counters ignores.
Watched(d) ==
    LET w            == watch[d]
        requested    == w.started /\ d \in asked
        disconnected == w.started /\ d \in dropped
        ever         == w.ever \/ requested
        quiet        == IF requested THEN 0 ELSE w.quiet
        ended        == (w.ended \/ disconnected) /\ d \notin connected
    IN  IF ~settings.alpaca THEN [Unwatched EXCEPT !.started = TRUE]
        ELSE [started |-> TRUE, ever |-> ever, quiet |-> quiet, ended |-> ended,
              silent |-> Watching(d, ever, ended) /\ ((w.silent /\ ~requested /\ ~disconnected)
                                                      \/ (ever /\ quiet > Silence))]

DisconnectedNow(d) == settings.alpaca /\ watch[d].started /\ d \in dropped

\* clientSilence(): the tracker t of a device, and what is to be said.
AnswerAlways(t, silent, allowed) ==  \* wrong variant: a loss is told again and again
    IF silent /\ allowed THEN <<[t EXCEPT !.notified = TRUE, !.answer = TRUE], "lost">>
    ELSE <<[t EXCEPT !.notified = FALSE, !.answer = FALSE, !.init = TRUE], "none">>

ClientSilence(t, silent, allowed) ==
    LET paused == [t EXCEPT !.answer = @ /\ (silent \/ allowed)]
    IN  IF ~silent /\ t.init /\ t.notified /\ allowed
        THEN <<[t EXCEPT !.notified = FALSE, !.answer = FALSE],
               IF t.answer THEN "back" ELSE "none">>
        ELSE IF ~t.init \/ ~allowed
        THEN <<[paused EXCEPT !.init = TRUE, !.notified = silent], "none">>
        ELSE IF silent = t.notified \/ t.since < Cooldown THEN <<paused, "none">>
        ELSE <<[paused EXCEPT !.notified = silent, !.since = 0, !.answer = TRUE], "lost">>

\* A disconnect ends the matter.
Ended(t) == [t EXCEPT !.init = TRUE, !.notified = FALSE, !.answer = FALSE]

(* watchClients, updateClients and sendAlerts: the counters are read, each  *)
(* device is judged, and what there is to say goes out unless paused.       *)
Watch ==
    /\ pc = "watch" /\ pc' = "update"
    /\ asked' = {} /\ dropped' = {}
    /\ LET now     == [d \in Followed |-> Watched(d)]
           allowed == [d \in Followed |-> 
                         /\ Watching(d, now[d].ever, now[d].ended)
                         /\ settings.rules \cap {"lost", "back"} # {}]
           verdict == [d \in Followed |->
                          IF DisconnectedNow(d) THEN <<Ended(teller[d]), "none">>
                          ELSE ClientSilence(teller[d], now[d].silent, allowed[d])]
           said    == {<<verdict[d][2], d>> : d \in Followed}
           sends   == sched.sending /\ settings.alerts
       IN  /\ watch' = now
           /\ teller' = [d \in Followed |-> verdict[d][1]]
           /\ outgoing' = (IF sends THEN {s \in said : s[1] \in settings.rules} ELSE {})
           /\ open' = {d \in Followed :
                         \/ verdict[d][2] = "lost"
                         \/ /\ d \in open /\ verdict[d][2] # "back" /\ ~DisconnectedNow(d)
                            /\ now[d].silent \/ allowed[d]}
    /\ UNCHANGED <<settings, connected, request, memory, schedule, restarts>>

\* What ends a user's pause as the guide has it: with the mode on, an app
\* connects, or is connected when the mode is chosen.
AppConnects(mode, any) == seen.started /\ mode /\ any /\ ~(seen.whileConnected /\ seen.connected)

\* What the code makes of one besides: the last app's disconnect takes its
\* place, and is then undone when the mode is left.
TakenOver(mode, any) == seen.started /\ mode /\ seen.whileConnected /\ seen.connected /\ ~any
ModeLeft(mode) == seen.started /\ seen.whileConnected /\ ~mode

\* The ghost after update().
PauseAfter(mode, any) ==
    IF pause = "none" \/ AppConnects(mode, any) \/ (pause = "taken" /\ ModeLeft(mode)) THEN "none"
    ELSE IF TakenOver(mode, any) THEN "taken" ELSE pause

(* The schedule, after this pass's alerts: who is connected is read again.  *)
Update ==
    /\ pc = "update"
    /\ LET mode == settings.alpaca /\ settings.whileConnected
           any  == connected # {}
       IN  /\ Changed(Updated(sched, mode, any), "store", "rest")
           /\ seen' = [started |-> TRUE, whileConnected |-> mode, connected |-> any]
           /\ pause' = PauseAfter(mode, any)
    /\ outgoing' = {}
    /\ UNCHANGED <<settings, router, memory, watch, teller, open, restarts>>

Store ==
    /\ pc = "store"
    /\ StoreReason(sched, "rest")

-----------------------------------------------------------------------------

(* A restart the device causes itself keeps the connections; a power cut,   *)
(* the reset button or waking from sleep does not.                          *)
Restart ==
    /\ restarts < MaxRestarts /\ restarts' = restarts + 1
    /\ connected' \in {memory, {}}
    /\ memory' = Kept(connected', restarts')
    /\ watch' = WatchAtBoot(connected') /\ teller' = [d \in Followed |-> Untold]
    /\ outgoing' = {} /\ open' = {}
    /\ asked' = {} /\ dropped' = {} /\ request' = NoRequest
    /\ sched' = Restored(saved) /\ seen' = Unseen /\ pc' = "rest"
    /\ UNCHANGED <<settings, saved, pause>>

Loop == Handle \/ Save \/ Watch \/ Update \/ Store

Next ==
    \/ Ask \/ Answer \/ SaveSettings
    \/ Loop
    \/ Restart

Spec == Init /\ [][Next]_vars

-----------------------------------------------------------------------------
(* What the session promises                                                *)

\* Every "stops checking" has one "is back" before the next, and no "is back"
\* comes without a loss, whatever the app, the rules and the pauses do in
\* between ("every 'stops checking' gets exactly one 'is back'", clientSilence).
LossesAreAnswered ==
    [][pc = "watch" /\ pc' = "update" =>
         \A d \in Followed :
           /\ <<"lost", d>> \in outgoing' => d \notin open
           /\ <<"back", d>> \in outgoing' => d \in open]_vars

\* A user's pause that was stored lasts until the user resumes or, with the
\* mode on, an app connects: restarts, changes of the mode and half-stored
\* changes do not end it ("a user's stays", AlertSchedule::modeChanged,
\* scheduleChanged) -- but that the last app's disconnect takes its place, and
\* that pause then ends with the mode.
PauseStands == pause # "none" => ~sched.sending

\* What docs/user-guide/alerts.md says, without that exception ("a pause lasts
\* until you resume; ... the next connect also resumes").  TLC refutes it.
PauseEndsAsDocumented ==
    [][pc = "update" /\ pause # "none" /\ sched'.sending
         => AppConnects(settings.alpaca /\ settings.whileConnected, connected # {})]_vars

(* The loop task keeps running; nothing is asked of the app or the user. *)
LiveSpec == Spec /\ WF_vars(Loop)

\* An app that holds a device connected and asks nothing any more is noticed,
\* also when the device restarted in between and kept the connection
\* (ClientWatch::update, restoreConnections, the tracker's cooldown).
LossIsNoticed ==
    \A d \in Followed :
        d \in connected /\ watch[d].ever
          ~> \/ teller[d].notified
             \/ d \in asked \/ d \notin connected
             \/ ~settings.alpaca \/ settings.rules \cap {"lost", "back"} = {}
=============================================================================
