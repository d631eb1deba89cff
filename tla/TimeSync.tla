------------------------------ MODULE TimeSync ------------------------------
(***************************************************************************)
(* The device's clock (TimeManager), on top of WifiLink: whom it asks, what  *)
(* it makes of an answer, and what the start of the device decides for good. *)
(* The clock stays set over a restart of the chip only if a source sets it   *)
(* again, so it starts unset.                                               *)
(***************************************************************************)
EXTENDS WifiLink

CONSTANTS
    Settings,       \* [ntp, gps, primary, secondary] of the configuration
    SyncEvery,      \* ntp.syncIntervalMs
    SyncTimeout,    \* 30 s
    MaxSaves        \* bound: saved settings

TimeAssumption ==
    /\ \A s \in Settings : /\ s.ntp \in BOOLEAN /\ s.gps \in BOOLEAN
                           /\ s.primary \in {"ntp", "gps"} /\ s.secondary \in {"ntp", "gps"}
    /\ SyncEvery \in Nat /\ SyncTimeout \in Nat /\ MaxSaves \in Nat

VARIABLES
    setting,    \* as configured
    fix,        \* the GPS has a fix and a valid time
    begun,      \* begin() has run: time zone and NTP servers are set
    saves,      \* bound
    sync        \* [status, active, since, sntp, clock]: syncStatus, activeSource, since
                \*   lastSyncAttempt; SNTP runs; the clock is set

vars == <<wifiVars, setting, fix, begun, saves, sync>>

Unsynced == [status |-> "notSynced", active |-> "none", since |-> 0, sntp |-> FALSE, clock |-> FALSE]

\* tryTimeSource: NTP is started, and that is its success; GPS must have the time.
Answers(c, source) ==
    \/ source = "ntp" /\ c.ntp
    \/ source = "gps" /\ c.gps /\ fix

Taken(s, source) ==
    IF source = "ntp"
    THEN [s EXCEPT !.active = "ntp", !.sntp = TRUE]
    ELSE [s EXCEPT !.active = "gps", !.status = "synced", !.clock = TRUE]

\* syncTime(): the primary source, or the secondary
SyncTime(s, c) ==
    LET asked == [s EXCEPT !.status = "inProgress", !.since = 0, !.active = "none"]
    IN  IF Answers(c, c.primary) THEN Taken(asked, c.primary)
        ELSE IF Answers(c, c.secondary) THEN Taken(asked, c.secondary)
        ELSE [asked EXCEPT !.status = "failed"]

\* wrong variant: only what once ended is tried again
NeedsIfEnded(s) == s.status \in {"synced", "failed"} /\ s.since >= SyncEvery

\* handle(): due again, or the clock still unset
NeedsSync(s) ==
    \/ s.status \in {"synced", "failed"} /\ s.since >= SyncEvery
    \/ ~s.clock /\ s.status # "inProgress"

\* Whoever set the clock, the attempt counts as a success.
Checked(s) ==
    CASE s.status # "inProgress" -> s
      [] s.status = "inProgress" /\ s.clock -> [s EXCEPT !.status = "synced"]
      [] s.status = "inProgress" /\ ~s.clock /\ s.since > SyncTimeout ->
            [s EXCEPT !.status = "failed", !.active = "none"]
      [] OTHER -> s

HandleTime ==
    LET aged == [sync EXCEPT !.since = Capped(@ + 1, SyncEvery + SyncTimeout)]
    IN  sync' = Checked(IF NeedsSync(aged) THEN SyncTime(aged, setting) ELSE aged)

Loop == HandleWifi /\ HandleTime /\ UNCHANGED <<setting, fix, begun, saves>>

\* startServices(): begin() only if the network is joined by now.
StartServices ==
    /\ Started
    /\ begun' = Joined
    /\ sync' = IF Joined THEN [Unsynced EXCEPT !.status = "inProgress", !.sntp = setting.ntp] ELSE Unsynced
    /\ UNCHANGED <<setting, fix, saves>>

\* SNTP has an answer: it was started, and told its servers.
SntpAnswers ==
    /\ sync.sntp /\ begun /\ Joined /\ ~sync.clock
    /\ sync' = [sync EXCEPT !.clock = TRUE]
    /\ UNCHANGED <<wifiVars, setting, fix, begun, saves>>

\* updateConfig() after a save: other priorities are tried at once, and with
\* NTP on SNTP is stopped first.
Save ==
    /\ started /\ saves < MaxSaves /\ saves' = saves + 1
    /\ \E c \in Settings \ {setting} :
        /\ setting' = c
        /\ sync' = IF <<c.primary, c.secondary>> # <<setting.primary, setting.secondary>>
                   THEN SyncTime([sync EXCEPT !.sntp = @ /\ ~c.ntp], c)
                   ELSE sync
    /\ UNCHANGED <<wifiVars, fix, begun>>

FixChanges ==
    /\ fix' = ~fix
    /\ UNCHANGED <<wifiVars, setting, begun, saves, sync>>

Restart ==
    /\ RestartWifi
    /\ begun' = FALSE /\ sync' = Unsynced
    /\ UNCHANGED <<setting, fix, saves>>

Network ==
    /\ Wait \/ Joins \/ Fails \/ GoesAway \/ ComesBack \/ SetupTries \/ \E joins, stored \in BOOLEAN : SetupEnds(joins, stored)
    /\ UNCHANGED <<setting, fix, begun, saves, sync>>

Init ==
    /\ InitWifi
    /\ setting \in Settings /\ fix = FALSE /\ begun = FALSE /\ saves = 0 /\ sync = Unsynced

Next == Network \/ StartServices \/ Loop \/ Save \/ SntpAnswers \/ FixChanges \/ Restart

\* setup() and loop() run on, an attempt ends, an asked server answers, and a
\* scheduled restart happens.
Fairness ==
    /\ WF_vars(Wait /\ UNCHANGED <<setting, fix, begun, saves, sync>>)
    /\ WF_vars(StartServices) /\ WF_vars(Loop) /\ WF_vars(Restart) /\ SF_vars(SntpAnswers)
    /\ WF_vars((Joins \/ Fails \/ \E joins, stored \in BOOLEAN : SetupEnds(joins, stored)) /\ UNCHANGED <<setting, fix, begun, saves, sync>>)

Spec == Init /\ [][Next]_vars /\ Fairness

-----------------------------------------------------------------------------
(* Properties                                                               *)

\* A saved network that stays in reach is joined in the end, and the device
\* leaves setup mode, whatever outage or setup screen came before: no attempt is
\* cut short for ever, and joining beside the hotspot restarts it.  With
\* autoReconnect off that is said only of a device not joined since it started.
JoinedInTheEnd ==
    <>[](reachable /\ saved) /\ (<>[]autoReconnect \/ <>[]~everJoined) => <>[](Joined /\ ~apMode)

\* The clock is set in the end, and stays, by a source that is asked and can
\* answer: NTP once the device started on its network, or GPS when it is the
\* first choice.
ClockSetInTheEnd ==
    (\/ <>[](setting.ntp /\ begun /\ Joined)
     \/ <>[](started /\ setting.gps /\ fix /\ setting.primary = "gps"))
        => <>[](sync.clock)

\* A configured fallback is used ("Fallback time source",
\* docs/user-guide/configuration.md).
FallbackIsUsed ==
    <>[](started /\ setting.gps /\ fix /\ setting.secondary = "gps") => <>(sync.clock)

\* NTP waits for WiFi and nothing else (docs/reference/settings-dependencies.md).
ClockSetOnceOnline == <>[](setting.ntp /\ Joined) => <>(sync.clock)
=============================================================================
