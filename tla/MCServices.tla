----------------------------- MODULE MCServices -----------------------------
(***************************************************************************)
(* The services of the network: MQTT, and WiFi with time.  They share no     *)
(* state that matters to what is promised of them, so they are checked side   *)
(* by side: each behaviour is one of them, and the other stays as it starts.  *)
(***************************************************************************)
EXTENDS Integers, FiniteSets

CONSTANTS
    Configs, MaxChanges, MaxSaves,
    StartupWait, FallbackAfter, HotspotStay, JoinTime, BaseDelay, MaxDelay, HotspotDelay,
    MaxOutages, MaxSetups, Settings, SyncEvery, SyncTimeout

VARIABLES
    machine,
    config, client, saving, link, broker, sending, told, discovering, saves, restarts, refused, short, lost,
    reachable, saved, autoReconnect, started, radio, sinceTry, backoff, apMode, everJoined, uptime, joinedFor,
    paused, restarting, outages, setups, setting, fix, begun, timeSaves, sync

Mqtt == INSTANCE MqttLink
Time == INSTANCE TimeSync WITH saves <- timeSaves

ASSUME Mqtt!MqttAssumption /\ Time!WifiAssumption /\ Time!TimeAssumption

mqttVars == <<config, client, saving, link, broker, sending, told, discovering, saves, restarts, refused,
              short, lost>>
timeVars == <<reachable, saved, autoReconnect, started, radio, sinceTry, backoff, apMode, everJoined, uptime, joinedFor,
              paused, restarting, outages, setups, setting, fix, begun, timeSaves, sync>>
vars == <<machine, mqttVars, timeVars>>

\* Whether alerts are sent and what is announced share the connection and the
\* settings, and change neither: one at a time.
Mqtts == {"armed", "entities"}
OnlyMqtt == machine \in Mqtts /\ UNCHANGED <<machine, timeVars>>
OnlyTime == machine = "time" /\ UNCHANGED <<machine, mqttVars>>

\* One that stands still has one start.
Init ==
    /\ machine \in Mqtts \union {"time"}
    /\ Mqtt!Init /\ (machine \in Mqtts \/ (config.on /\ config.homeAssistant /\ config.topic = "t1"))
    /\ Time!Init /\ (machine = "time" \/ (reachable /\ saved /\ autoReconnect /\ setting.ntp /\ setting.primary = "ntp"))

Next ==
    \/ OnlyMqtt /\ Mqtt!LinkStep
    \/ OnlyMqtt /\ machine = "armed" /\ Mqtt!ArmedStep
    \/ OnlyMqtt /\ machine = "entities" /\ Mqtt!PublishDiscovery
    \/ OnlyTime /\ Time!Next

\* As each of them states it.
Joining == Time!Joins \/ Time!Fails \/ \E joins, stored \in BOOLEAN : Time!SetupEnds(joins, stored)
Fairness ==
    /\ WF_mqttVars(machine \in Mqtts /\ Mqtt!UpdateConfig)
    /\ WF_mqttVars(machine = "entities" /\ Mqtt!PublishDiscovery)
    /\ SF_mqttVars(machine = "armed" /\ Mqtt!PublishArmed(TRUE))
    /\ WF_timeVars(machine = "time" /\ Time!Wait /\ UNCHANGED <<setting, fix, begun, timeSaves, sync>>)
    /\ WF_timeVars(machine = "time" /\ Joining /\ UNCHANGED <<setting, fix, begun, timeSaves, sync>>)
    /\ WF_timeVars(machine = "time" /\ Time!StartServices)
    /\ WF_timeVars(machine = "time" /\ Time!Loop)
    /\ WF_timeVars(machine = "time" /\ Time!Restart)
    /\ SF_timeVars(machine = "time" /\ Time!SntpAnswers)

Spec == Init /\ [][Next]_vars /\ Fairness

-----------------------------------------------------------------------------
(* What each promises, stated in its module                                 *)

\* MqttLink: whether alerts are sent is retained rightly in the end.
RetainedIsTrue == machine = "armed" => Mqtt!RetainedIsTrue

\* MqttLink: Home Assistant is shown the entities of the settings in use, and
\* none under settings given up, unless a publish of the discovery didn't reach
\* the broker or the settings were saved in the middle of one.
NothingLeftAnnounced == machine = "entities" => Mqtt!NothingLeftAnnounced

\* WifiLink: a saved network that stays in reach is joined in the end.
JoinedInTheEnd == machine = "time" => Time!JoinedInTheEnd

\* TimeSync: the clock is set in the end by a source that is asked and can answer.
ClockSetInTheEnd == machine = "time" => Time!ClockSetInTheEnd

-----------------------------------------------------------------------------
(* Constants                                                                *)

\* MQTT as it is set up, with everything moved, with discovery off, and off
Broker(topic, homeAssistant, prefix, safety) ==
    [on |-> TRUE, topic |-> topic, homeAssistant |-> homeAssistant, prefix |-> prefix, safety |-> safety]
MCConfigs ==
    {Broker("t1", TRUE, "p1", TRUE), Broker("t2", TRUE, "p2", FALSE), Broker("t1", FALSE, "p1", TRUE),
     [Broker("t1", TRUE, "p1", TRUE) EXCEPT !.on = FALSE]}

\* Either source first
MCSettings ==
    {[ntp |-> TRUE, gps |-> TRUE, primary |-> "ntp", secondary |-> "gps"],
     [ntp |-> TRUE, gps |-> TRUE, primary |-> "gps", secondary |-> "ntp"]}
=============================================================================
