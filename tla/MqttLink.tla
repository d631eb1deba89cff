------------------------------ MODULE MqttLink ------------------------------
(***************************************************************************)
(* What an MQTT broker holds of the device (MQTTClient, publishArmedState,   *)
(* publishDiscovery).  Retained topics outlive the connection they were      *)
(* published on, so each must be put right after every reconnection, change  *)
(* of settings and restart.  The web task saves the settings and applies     *)
(* them to the client, in the middle of a discovery too; everything else is  *)
(* done by the loop task.  Left out: that the two use one client without a   *)
(* lock, and the instant between a single publish and reading the counter.   *)
(*                                                                          *)
(* Of the retained payloads: availability, alerts sending or paused, and the *)
(* Home Assistant entities announced.  The verdict and the readings are      *)
(* published again and again and right themselves.  The counter of           *)
(* connections is only ever compared, so each reader keeps whether its copy  *)
(* is the current one.                                                      *)
(***************************************************************************)
EXTENDS Integers, FiniteSets

CONSTANTS
    Configs,        \* config.mqtt: [on, topic, homeAssistant, prefix, safety]
    MaxChanges      \* bound: saved settings and restarts together

NoKey == [homeAssistant |-> FALSE, topic |-> "none", prefix |-> "none", entities |-> {}]

MqttAssumption ==
    /\ \A c \in Configs : c.on \in BOOLEAN /\ c.homeAssistant \in BOOLEAN /\ c.safety \in BOOLEAN
    /\ \A c \in Configs : c.topic # NoKey.topic
    /\ MaxChanges \in Nat

VARIABLES
    config,     \* config.mqtt, as saved
    client,     \* MQTTClient::config
    saving,     \* the web task has saved and not yet called updateConfig
    link,       \* [at, topic]: down, up, or dead (the device hasn't noticed);
                \*   the topic its last will names
    broker,     \* what is retained: [availability, armed, entities]
    sending,    \* the alert schedule
    told,       \* [armedConnection, key, wasOn, keyConnection]: whether the counters
                \*   match, discoveryKey and discoveryWasOn
    discovering,    \* publishDiscovery: how far the loop task is, the key it goes by, and
                \*   whether it announced
    saves, restarts,    \* bounds
    refused,    \* ghost: the last change of the schedule was refused by a live connection
    short,      \* ghost: not all of the last announcement reached the broker as its key says
    lost        \* ghost: a removal didn't reach the broker, or what to remove was forgotten

discovery == <<discovering, short, lost>>
vars == <<config, client, saving, link, broker, sending, told, saves, restarts, refused, discovery>>

Topics == {c.topic : c \in Configs}
Prefixes == {c.prefix : c \in Configs}

NothingTold == [armedConnection |-> FALSE, key |-> NoKey, wasOn |-> FALSE, keyConnection |-> FALSE]
NotDiscovering == [at |-> "idle", key |-> NoKey, on |-> FALSE]
LoopIsFree == discovering = NotDiscovering
Paused(on) == IF on THEN "sending" ELSE "paused"

\* connected(), as far as the device knows
Connected == link.at # "down"

\* A publish reaches the broker, or is accepted by a dead connection, or fails.
Reaches(accepted) == accepted /\ link.at = "up"

-----------------------------------------------------------------------------
(* The connection                                                           *)

\* wrong variant: what was published stays published
ConnectQuietly(c, held, heard) ==
    \/ /\ link' = [at |-> "up", topic |-> c.topic]
       /\ broker' = [held EXCEPT !.availability[c.topic] = "online"]
       /\ told' = heard
    \/ link' = [link EXCEPT !.at = "down"] /\ broker' = held /\ told' = heard

\* connect(): the topic's availability and its last will; every counter differs.
Connect(c, held, heard) ==
    \/ /\ link' = [at |-> "up", topic |-> c.topic]
       /\ broker' = [held EXCEPT !.availability[c.topic] = "online"]
       /\ told' = [heard EXCEPT !.armedConnection = FALSE, !.keyConnection = FALSE]
    \/ link' = [link EXCEPT !.at = "down"] /\ broker' = held /\ told' = heard

\* handle(): a connection found lost is tried again every five seconds.
Reconnect ==
    /\ client.on /\ ~Connected /\ LoopIsFree
    /\ Connect(client, broker, told)
    /\ UNCHANGED <<config, client, saving, sending, saves, restarts, refused, discovery>>

\* The network or the broker drops the connection: the will is published.
Drop ==
    /\ link.at = "up"
    /\ link' = [link EXCEPT !.at = "dead"]
    /\ broker' = [broker EXCEPT !.availability[link.topic] = "offline"]
    /\ UNCHANGED <<config, client, saving, sending, told, saves, restarts, refused, discovery>>

\* loop() notices, by a failed write or the missing answer to a ping.
Noticed ==
    /\ link.at = "dead"
    /\ link' = [link EXCEPT !.at = "down"]
    /\ UNCHANGED <<config, client, saving, broker, sending, told, saves, restarts, refused, discovery>>

-----------------------------------------------------------------------------
(* The settings                                                             *)

\* saveConfigCallback: the configuration is the new one at once.
Save ==
    /\ ~saving /\ saves + restarts < MaxChanges
    /\ config' \in Configs /\ saving' = TRUE /\ saves' = saves + 1
    /\ UNCHANGED <<client, link, broker, sending, told, restarts, refused, discovery>>

\* updateConfig(): goodbye is said under the new topic, and not at all when MQTT
\* was switched off; a clean disconnect publishes no will.
Goodbye(c) ==
    IF c.on /\ link.at = "up" THEN [broker EXCEPT !.availability[c.topic] = "offline"] ELSE broker

UpdateConfig ==
    /\ saving /\ saving' = FALSE
    /\ client' = config
    /\ IF config.on THEN Connect(config, Goodbye(config), told)
       ELSE link' = [link EXCEPT !.at = "down"] /\ UNCHANGED <<broker, told>>
    /\ UNCHANGED <<config, sending, saves, restarts, refused, discovery>>

-----------------------------------------------------------------------------
(* What is retained                                                         *)

\* wrong variant: a publish that failed counts as well
ArmedBlind(state, accepted) ==
    /\ broker' = IF Reaches(accepted) THEN [broker EXCEPT !.armed[client.topic] = Paused(state)] ELSE broker
    /\ told' = [told EXCEPT !.armedConnection = TRUE]

\* publishArmedState, after a reconnection or a change
Armed(state, accepted) ==
    /\ broker' = IF Reaches(accepted) THEN [broker EXCEPT !.armed[client.topic] = Paused(state)] ELSE broker
    /\ told' = IF accepted THEN [told EXCEPT !.armedConnection = TRUE] ELSE told

PublishArmed(accepted) ==
    /\ Connected /\ ~told.armedConnection /\ LoopIsFree
    /\ Armed(sending, accepted)
    /\ refused' = (refused /\ ~Reaches(accepted))
    /\ UNCHANGED <<config, client, saving, link, sending, saves, restarts, discovery>>

\* scheduleChanged: paused or resumed, and published at once if it can be.
ScheduleChanges ==
    /\ LoopIsFree
    /\ sending' = ~sending
    /\ \E accepted \in BOOLEAN :
        IF Connected
        THEN /\ Armed(~sending, accepted)
             /\ refused' = (link.at = "up" /\ ~accepted)
        ELSE UNCHANGED <<broker, told, refused>>
    /\ UNCHANGED <<config, client, saving, link, saves, restarts, discovery>>

\* forEachDiscovery: the entities of a group that is off are removed.
Entities(c) == {"readings"} \union (IF c.safety THEN {"safety"} ELSE {})

Key(c) == [homeAssistant |-> c.homeAssistant, topic |-> c.topic, prefix |-> c.prefix, entities |-> Entities(c)]

\* wrong variant: only a discovery that was switched off is removed
OutdatedIfOff(key) == told.key # NoKey /\ told.wasOn /\ ~key.homeAssistant

\* What was announced under the old settings is to be removed.
Outdated(key) ==
    /\ told.key # NoKey /\ told.wasOn
    /\ ~key.homeAssistant \/ told.key.prefix # key.prefix \/ told.key.topic # key.topic

\* What an earlier run of the firmware announced under other settings.
Leftover(key) == \E p \in Prefixes : broker.entities[p] # {} /\ (~key.homeAssistant \/ p # key.prefix)

\* Each entity is published by itself, and no result is looked at: those of
\* `reached` have the broker know.
Reached(entities, reached) == (reached # {} => link.at = "up") /\ reached \subseteq entities

\* publishDiscovery: after a change or a reconnection, what was announced under
\* the old settings is removed ...
Withdraw ==
    LET key == Key(config)
        old == told.key.prefix
    IN  /\ LoopIsFree /\ Connected
        /\ key # told.key \/ ~told.keyConnection
        /\ discovering' = [at |-> "withdrawn", key |-> key, on |-> FALSE]
        /\ IF Outdated(key)
           THEN \E gone \in SUBSET broker.entities[old] :
                    /\ Reached(broker.entities[old], gone)
                    /\ broker' = [broker EXCEPT !.entities[old] = @ \ gone]
                    /\ lost' = (lost \/ gone # broker.entities[old])
           ELSE broker' = broker /\ lost' = (lost \/ (told.key = NoKey /\ Leftover(key)))
        /\ UNCHANGED <<config, client, saving, link, sending, told, saves, restarts, refused, short>>

\* ... the entities are announced, those of a group that is off by removing them
\* (the settings are read again: they may have been saved meanwhile) ...
Announce ==
    LET key == discovering.key
        all == {"readings", "safety"}
    IN  /\ discovering.at = "withdrawn"
        /\ discovering' = [discovering EXCEPT !.at = "announced", !.on = config.homeAssistant]
        /\ \E reached \in SUBSET all :
            /\ Reached(all, reached) /\ (~config.homeAssistant => reached = {})
            /\ broker' = [broker EXCEPT !.entities[key.prefix] =
                                (@ \ reached) \union (Entities(config) \intersect reached)]
            /\ short' = IF config.homeAssistant
                        THEN reached # all \/ key # [Key(config) EXCEPT !.topic = key.topic, !.prefix = key.prefix]
                        ELSE key.homeAssistant
        /\ UNCHANGED <<config, client, saving, link, sending, told, saves, restarts, refused, lost>>

\* ... and all of it counts as told on the connection there is by now.  With
\* discovery switched off in between nobody will remove what was announced.
Record ==
    /\ discovering.at = "announced"
    /\ discovering' = NotDiscovering
    /\ told' = [told EXCEPT !.key = discovering.key, !.wasOn = config.homeAssistant, !.keyConnection = TRUE]
    /\ lost' = (lost \/ (~config.homeAssistant /\ (discovering.key.homeAssistant \/ discovering.on)))
    /\ UNCHANGED <<config, client, saving, link, broker, sending, saves, restarts, refused, short>>

PublishDiscovery == Withdraw \/ Announce \/ Record

-----------------------------------------------------------------------------
\* Everything in RAM is gone; begin() connects with the settings as stored.
Restart ==
    /\ saves + restarts < MaxChanges /\ restarts' = restarts + 1
    /\ saving' = FALSE /\ client' = config
    /\ LET held == IF link.at = "up" THEN [broker EXCEPT !.availability[link.topic] = "offline"] ELSE broker
       IN  IF config.on THEN Connect(config, held, NothingTold)
           ELSE link' = [link EXCEPT !.at = "down"] /\ broker' = held /\ told' = NothingTold
    /\ discovering' = NotDiscovering
    /\ UNCHANGED <<config, sending, saves, refused, short, lost>>

Init ==
    /\ config \in Configs /\ client = config /\ saving = FALSE
    /\ link = [at |-> "down", topic |-> config.topic]
    /\ broker = [availability |-> [t \in Topics |-> "none"], 
                 armed |-> [t \in Topics |-> "none"], entities |-> [p \in Prefixes |-> {}]]
    /\ sending = TRUE /\ told = NothingTold
    /\ discovering = NotDiscovering
    /\ saves = 0 /\ restarts = 0 /\ refused = FALSE /\ short = FALSE /\ lost = FALSE

LinkStep == Reconnect \/ Drop \/ Noticed \/ Save \/ UpdateConfig \/ Restart
ArmedStep == ScheduleChanges \/ \E accepted \in BOOLEAN : PublishArmed(accepted)

Next == LinkStep \/ ArmedStep \/ PublishDiscovery

\* The loop task runs on; of publishes to a live broker some are accepted.
Fairness ==
    /\ WF_vars(UpdateConfig) /\ WF_vars(PublishDiscovery)
    /\ SF_vars(PublishArmed(TRUE))

Spec == Init /\ [][Next]_vars /\ Fairness

-----------------------------------------------------------------------------
(* What the broker is promised                                              *)

\* While the device stays connected, whether alerts are sent is retained rightly
\* in the end, under the topic in use; unless the connection refused the very
\* publish of a change, which isn't tried again.
RetainedIsTrue ==
    \A v \in BOOLEAN :
        <>[](link.at = "up" /\ sending = v) => <>[](broker.armed[client.topic] = Paused(v) \/ refused)

\* Home Assistant is shown the entities of the settings in use, and none under
\* settings given up, whatever the connection and two changes in a row did.  The
\* one excuse is a publish that did not reach the broker, or settings saved in
\* the middle: what should be removed is never tried again, and what should be
\* announced only after the next change or reconnection (`lost` and `short`).
NothingLeftAnnounced ==
    <>[](link.at = "up")
      => <>[](\/ lost \/ short
              \/ \A p \in Prefixes :
                   broker.entities[p] = IF config.homeAssistant /\ p = config.prefix THEN Entities(config) ELSE {})

\* "clears them when discovery is switched off or moved" (docs/user-guide/mqtt.md),
\* with no excuse but a restart.
ClearedAsDocumented ==
    <>[](link.at = "up") /\ [](restarts = 0)
      => <>[](\A p \in Prefixes : broker.entities[p] # {} => config.homeAssistant /\ p = config.prefix)

\* Availability is "offline" once the device has left ("`online` / `offline`
\* [...] On connect / disconnect", docs/user-guide/mqtt.md).
SaysGoodbye ==
    [][UpdateConfig /\ link.at = "up" /\ client.topic # config.topic
         => broker'.availability[client.topic] = "offline"]_vars
=============================================================================
