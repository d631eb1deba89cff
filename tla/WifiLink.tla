------------------------------ MODULE WifiLink ------------------------------
(***************************************************************************)
(* Joining the WiFi network (WiFiManager, CaptivePortal, startWifi and the   *)
(* WiFi part of loop()): the wait at startup, the retries with a growing     *)
(* delay, the setup hotspot that opens beside a network not joined, and the  *)
(* restart once the device has joined from the hotspot.                      *)
(*                                                                          *)
(* One pass of loop() is one unit of time, and the delays are small numbers  *)
(* in the order of the real ones (10 s wait, 45 s hotspot, 15 s restart).    *)
(* WiFi.begin() abandons the attempt in progress, and an attempt takes       *)
(* JoinTime, after which it has joined or failed.  What the WiFi library     *)
(* retries by itself is left out: it only helps.                             *)
(***************************************************************************)
EXTENDS Integers

CONSTANTS
    StartupWait,    \* startWifi(): 20 times 500 ms
    FallbackAfter,  \* CaptivePortal::FALLBACK_AFTER_MS
    HotspotStay,    \* connectedFromHotspotFor(15000)
    JoinTime,       \* how long an attempt takes
    BaseDelay, MaxDelay,    \* config.wifi.reconnectDelayMs, maxReconnectDelayMs
    HotspotDelay,   \* 30 s between attempts beside the hotspot
    MaxOutages,     \* bound: times the network goes away
    MaxSetups       \* bound: networks tried from the setup screen

WifiAssumption ==
    /\ {StartupWait, FallbackAfter, HotspotStay, JoinTime, BaseDelay, MaxDelay, HotspotDelay,
        MaxOutages, MaxSetups} \subseteq Nat
    /\ 0 < BaseDelay /\ BaseDelay <= MaxDelay

VARIABLES
    reachable,  \* the saved network is there, and its password right
    saved,      \* config.wifi has a network
    autoReconnect,  \* config.wifi.autoReconnect, as copied when the device started
    started,    \* setup() is through
    radio,      \* WiFi.status(): "off", "trying" or "joined"
    sinceTry,   \* since lastReconnectAttempt
    backoff,    \* currentReconnectDelay
    apMode, everJoined, \* WiFiManager's
    uptime,     \* since startedTryingAt
    joinedFor,  \* since stationConnectedAt, or NotJoined
    paused,     \* the setup screen is trying a network (wifiConnectActive)
    restarting, \* a restart is scheduled
    outages, setups     \* bounds

wifiVars == <<reachable, saved, autoReconnect, started, radio, sinceTry, backoff, apMode, everJoined, uptime,
              joinedFor, paused, restarting, outages, setups>>

NotJoined == -1
Joined == radio = "joined"
Capped(n, limit) == IF n < limit THEN n ELSE limit
Longest == MaxDelay + HotspotDelay + JoinTime

\* The attempt in progress is over: it joins or fails before time passes.
Outcome == radio = "trying" /\ ~paused /\ sinceTry >= JoinTime

-----------------------------------------------------------------------------
(* Starting                                                                 *)

\* startCaptivePortal()
PortalDelay == IF BaseDelay > HotspotDelay THEN BaseDelay ELSE HotspotDelay

\* begin(): the saved network, or at once the hotspot.
Begin(hasNetwork) ==
    /\ started' = FALSE /\ uptime' = 0 /\ sinceTry' = 0 /\ joinedFor' = NotJoined
    /\ everJoined' = FALSE /\ paused' = FALSE /\ restarting' = FALSE
    /\ radio' = IF hasNetwork THEN "trying" ELSE "off"
    /\ apMode' = ~hasNetwork
    /\ backoff' = IF hasNetwork THEN BaseDelay ELSE PortalDelay

\* startWifi(): wait for the network
Wait ==
    /\ ~started /\ ~Joined /\ ~apMode /\ uptime < StartupWait /\ ~Outcome
    /\ uptime' = uptime + 1 /\ sinceTry' = Capped(sinceTry + 1, Longest)
    /\ UNCHANGED <<reachable, saved, autoReconnect, started, radio, backoff, apMode, everJoined, joinedFor,
                   paused, restarting, outages, setups>>

\* The wait is over: joined, in the hotspot, out of range, or long enough.
WaitOver == Joined \/ apMode \/ ~reachable \/ uptime = StartupWait

Started ==
    /\ ~started /\ WaitOver /\ started' = TRUE
    /\ UNCHANGED <<reachable, saved, autoReconnect, radio, sinceTry, backoff, apMode, everJoined, uptime, joinedFor,
                   paused, restarting, outages, setups>>

-----------------------------------------------------------------------------
(* loop()                                                                   *)

\* shouldOpenHotspot, for a device that hasn't joined since it started
OpensHotspot(joinedSinceBoot) ==
    /\ ~apMode /\ ~joinedSinceBoot
    /\ ~saved \/ (~Joined /\ uptime >= FallbackAfter)

\* handleReconnect()
Due == sinceTry >= backoff

\* wrong variant: the delay never grows
SameDelay == BaseDelay

Doubled == Capped(backoff * 2, MaxDelay)

\* handle(), and the restart once joined from the hotspot.  Beside the hotspot a
\* network is tried whatever the setting says, later only with it on.
HandleWifi ==
    /\ started /\ ~Outcome
    /\ uptime' = Capped(uptime + 1, FallbackAfter)
    /\ everJoined' = (everJoined \/ Joined)
    /\ joinedFor' = IF Joined THEN Capped(joinedFor + 1, HotspotStay) ELSE NotJoined
    /\ LET opens == OpensHotspot(everJoined')
           tries == IF apMode THEN ~paused ELSE autoReconnect
           retries == ~Joined /\ saved /\ Due /\ ~opens /\ tries
       IN  /\ apMode' = (apMode \/ opens)
           /\ radio' = IF retries THEN "trying" ELSE radio
           /\ sinceTry' = IF retries \/ opens THEN 0 ELSE Capped(sinceTry + 1, Longest)
           /\ backoff' = CASE opens -> PortalDelay
                           [] retries -> Doubled
                           [] Joined /\ ~apMode /\ autoReconnect -> BaseDelay
                           [] OTHER -> backoff
    /\ restarting' = (restarting \/ (apMode /\ Joined /\ joinedFor' = HotspotStay))
    /\ UNCHANGED <<reachable, saved, autoReconnect, started, paused, outages, setups>>

-----------------------------------------------------------------------------
(* The network and the setup screen                                         *)

Joins ==
    /\ Outcome /\ reachable
    /\ radio' = "joined"
    /\ UNCHANGED <<reachable, saved, autoReconnect, started, sinceTry, backoff, apMode, everJoined, uptime, joinedFor,
                   paused, restarting, outages, setups>>

Fails ==
    /\ Outcome /\ ~reachable
    /\ radio' = "off"
    /\ UNCHANGED <<reachable, saved, autoReconnect, started, sinceTry, backoff, apMode, everJoined, uptime, joinedFor,
                   paused, restarting, outages, setups>>

GoesAway ==
    /\ reachable /\ outages < MaxOutages
    /\ outages' = outages + 1
    /\ reachable' = FALSE /\ radio' = IF Joined THEN "off" ELSE radio
    /\ UNCHANGED <<saved, autoReconnect, started, sinceTry, backoff, apMode, everJoined, uptime, joinedFor,
                   paused, restarting, setups>>

ComesBack ==
    /\ ~reachable /\ reachable' = TRUE
    /\ UNCHANGED <<saved, autoReconnect, started, radio, sinceTry, backoff, apMode, everJoined, uptime, joinedFor,
                   paused, restarting, outages, setups>>

\* handleWiFiConnect: the radio is taken for the network of the setup screen.
SetupTries ==
    /\ started /\ ~paused /\ setups < MaxSetups
    /\ setups' = setups + 1 /\ paused' = TRUE /\ radio' = "trying"
    /\ UNCHANGED <<reachable, saved, autoReconnect, started, sinceTry, backoff, apMode, everJoined, uptime, joinedFor,
                   restarting, outages>>

\* pollWiFiConnect: joined, stored and restarted; joined and not stored, so that
\* the saved network is still the old one; or given up after a timeout.
SetupEnds(joins, stored) ==
    /\ paused /\ paused' = FALSE
    /\ radio' = IF joins THEN "joined" ELSE "off"
    /\ IF joins /\ stored
       THEN reachable' = TRUE /\ saved' = TRUE /\ restarting' = TRUE
       ELSE UNCHANGED <<reachable, saved, restarting>>
    /\ UNCHANGED <<autoReconnect, started, sinceTry, backoff, apMode, everJoined, uptime, joinedFor,
                   outages, setups>>

\* restartTimerCallback: the settings are read again.
RestartWifi ==
    /\ restarting
    /\ Begin(saved) /\ autoReconnect' \in BOOLEAN
    /\ UNCHANGED <<reachable, saved, outages, setups>>

InitWifi ==
    /\ reachable \in BOOLEAN /\ saved \in BOOLEAN /\ autoReconnect \in BOOLEAN
    /\ started = FALSE /\ uptime = 0 /\ sinceTry = 0 /\ joinedFor = NotJoined
    /\ everJoined = FALSE /\ paused = FALSE /\ restarting = FALSE
    /\ radio = IF saved THEN "trying" ELSE "off"
    /\ apMode = ~saved /\ backoff = (IF saved THEN BaseDelay ELSE PortalDelay)
    /\ outages = 0 /\ setups = 0
=============================================================================
