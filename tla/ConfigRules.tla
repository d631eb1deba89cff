---------------------------- MODULE ConfigRules ----------------------------
(***************************************************************************)
(* The settings: what a JSON document makes of them (ConfigJsonIn), which    *)
(* are refused (ConfigValidate), what GET shows and flash keeps of them      *)
(* (ConfigJsonOut), and backups (ConfigBackup).                              *)
(*                                                                          *)
(* The settings are a record of the fields some rule is about; any other     *)
(* field is taken and shown as `deviceName` is.  Two fields stand for many:  *)
(* `interval` for the nineteen whole numbers checked up front, pushoverKey   *)
(* for the user key and the token.  A document is a record of some of the    *)
(* fields; its values are the field's own, or Wrong (of another JSON type),  *)
(* Null, Mask.  One behaviour edits one area of the settings, chosen at the  *)
(* start.  Saving always succeeds here (SettingsStore is about that).        *)
(***************************************************************************)
EXTENDS Naturals, FiniteSets

CONSTANTS
    Gpios, RtcGpios,    \* the board's pins, those that can wake it
    Alien,              \* pins of other boards
    Unset,              \* 255
    Wrong, Null, Mask,  \* JSON values
    BluetoothBuild,     \* this build has Bluetooth
    Defaults,           \* the settings of a new device
    Areas               \* what is edited: [start: changes to the defaults, docs: the documents sent,
                        \* joins: networks are joined, own: backups are made,
                        \* foreign: the backups of other devices]

Optional == {"sda2", "scl2", "button", "alertPin", "stat1", "stat2", "pg"}
PinFields == {"gpsRx", "gpsTx", "rainRx", "rainTx", "sda", "scl", "windPin"} \union Optional
Switches == {"ntp", "gps", "rain", "wind", "display", "sqml", "auth", "pushover", "ble", "alpaca"}
SourceFields == {"primary", "secondary"}
Percents == {"low", "critical", "shutdown", "batteryMin"}
Secrets == {"wifiPassword", "authPassword", "pushoverKey", "passkey"}
Fields == PinFields \union Switches \union SourceFields \union Percents \union Secrets
            \union {"deviceName", "ssid", "interval"}

RulesAssumption ==
    /\ RtcGpios \subseteq Gpios /\ Alien \intersect Gpios = {} /\ Unset \notin Gpios \union Alien
    /\ {Wrong, Null, Mask} \intersect {"", "joined", "s2", "ntp", "gps"} = {}
    /\ Mask \notin {Wrong, Null} /\ Wrong # Null
    /\ DOMAIN Defaults = Fields
    /\ \A a \in Areas : DOMAIN a.start \subseteq Fields /\ \A d \in a.docs : DOMAIN d \subseteq Fields
    /\ BluetoothBuild \in BOOLEAN

VARIABLES
    area,
    settings,
    backup,     \* NoBackup, or the backup last made or received
    restarting, \* a restart is scheduled
    named       \* ghost: the fields the last request gave a value for

vars == <<area, settings, backup, restarting, named>>

NoBackup == [doc |-> <<>>, secrets |-> <<>>, of |-> <<>>, sealed |-> FALSE]

-----------------------------------------------------------------------------
(* Validation                                                               *)

SourceOn(c, s) == IF s = "ntp" THEN c.ntp ELSE c.gps

TimeValid(c) ==
    /\ c.ntp \/ c.gps
    /\ SourceOn(c, c.primary)
    /\ c.ntp /\ c.gps => c.primary # c.secondary

AccessValid(c) == c.auth => c.authPassword # ""

\* The serial and I2C pins are looked at one pair at a time.
BusesValid(c) ==
    /\ {c.gpsRx, c.gpsTx, c.rainRx, c.rainTx, c.sda, c.scl} \subseteq Gpios
    /\ c.gpsRx # c.gpsTx /\ c.sda # c.scl
    /\ c.rain => c.rainRx # c.rainTx

SecondBus(c) == Unset \notin {c.sda2, c.scl2}

\* busPins: the pins of the buses in use.
BusPins(c, withSecond) ==
    {c.sda, c.scl}
      \union (IF withSecond /\ SecondBus(c) THEN {c.sda2, c.scl2} ELSE {})
      \union (IF c.gps THEN {c.gpsRx, c.gpsTx} ELSE {})
      \union (IF c.rain THEN {c.rainRx, c.rainTx} ELSE {})

SecondBusValid(c) ==
    \/ c.sda2 = Unset /\ c.scl2 = Unset
    \/ /\ {c.sda2, c.scl2} \subseteq Gpios /\ c.sda2 # c.scl2
       /\ {c.sda2, c.scl2} \intersect BusPins(c, FALSE) = {}

ChargerPins(c) == <<c.stat1, c.stat2, c.pg>>
Wired(c) == {c.alertPin, c.stat1, c.stat2, c.pg} \ {Unset}

WindValid(c) == c.wind => c.windPin \in Gpios \ (BusPins(c, TRUE) \union Wired(c))

ButtonFree(c) ==
    c.button \notin BusPins(c, TRUE) \union Wired(c) \union (IF c.wind THEN {c.windPin} ELSE {})

\* The wake button: only set up, and so only compared, with the display on.
DisplayValid(c) == c.button = Unset \/ (c.button \in Gpios /\ (c.display => ButtonFree(c)))

LevelsValid(c) ==
    /\ c.low \in 5..50
    /\ c.critical \in 2..25 /\ c.critical < c.low
    /\ c.shutdown \in 2..10 /\ c.shutdown < c.critical
    /\ c.batteryMin \in 2..50

\* The battery's pins are compared whether or not it is monitored.
BatteryPinsValid(c) ==
    LET charger == ChargerPins(c)
        wired   == {i \in 1..3 : charger[i] # Unset}
    IN  /\ Wired(c) \subseteq Gpios
        /\ wired \in {{}, 1..3}
        /\ \A i, j \in wired : charger[i] = charger[j] => i = j
        /\ c.alertPin # Unset => \A i \in wired : charger[i] # c.alertPin
        /\ Wired(c) \intersect (BusPins(c, TRUE) \union (IF c.wind THEN {c.windPin} ELSE {})
                                 \union (IF c.display THEN {c.button} ELSE {})) = {}
        /\ c.pg \in RtcGpios \union {Unset}

\* The limits of the numbers.
RangesValid(c) == c.interval >= 1

ChannelsValid(c) == c.pushover => c.pushoverKey # ""

\* validate(): every save, whoever asks for it.
Valid(c) ==
    /\ c.deviceName # "" /\ RangesValid(c)
    /\ TimeValid(c) /\ AccessValid(c) /\ BusesValid(c)
    /\ SecondBusValid(c) /\ (c.sqml => SecondBus(c))
    /\ WindValid(c) /\ DisplayValid(c) /\ LevelsValid(c) /\ BatteryPinsValid(c)
    /\ ChannelsValid(c)

\* validateIncoming: what older firmware let through is refused from the user only.
Malformed == {"stray"}
IncomingValid(c) == c.pushover => c.pushoverKey \notin Malformed

-----------------------------------------------------------------------------
(* Reading a document                                                       *)

OtherSource(s) == IF s = "ntp" THEN "gps" ELSE "ntp"

\* normalizeTimeSources: the primary is kept while it is on.
Normalized(c) ==
    LET primary == IF SourceOn(c, c.primary) THEN c.primary ELSE OtherSource(c.primary)
    IN  IF ~c.ntp /\ ~c.gps THEN c
        ELSE [c EXCEPT !.primary = primary,
                       !.secondary = IF c.ntp /\ c.gps THEN OtherSource(primary) ELSE primary]

\* assignSecret: null clears it; from the user, the mask or "" keeps it.
SecretTaken(old, v, keep) ==
    IF v = Null THEN ""
    ELSE IF v = Wrong \/ (keep /\ v \in {Mask, ""}) THEN old
    ELSE v

\* wrong variant: the limit follows whatever it was
FollowsAlways(c, doc) == "batteryMin" \notin DOMAIN doc

\* The battery rule's limit follows the critical level while the two are equal.
Follows(c, doc) == "batteryMin" \notin DOMAIN doc /\ c.batteryMin = c.critical

\* A field that is missing, or of the wrong type, stays as it was.
Taken(c, doc, keep) ==
    [f \in Fields |->
        IF f \notin DOMAIN doc THEN c[f]
        ELSE IF f \in Secrets THEN SecretTaken(c[f], doc[f], keep)
        ELSE IF doc[f] \in {Wrong, Null} THEN c[f]
        ELSE doc[f]]

Followed(c, doc, taken) ==
    IF Follows(c, doc) /\ taken.critical \in 2..25
    THEN [taken EXCEPT !.batteryMin = taken.critical] ELSE taken

Result(c, doc, keep) == Normalized(Followed(c, doc, Taken(c, doc, keep)))

\* Nineteen fields must be whole numbers in any document, stored ones included.
WholeNumbers(doc) == "interval" \in DOMAIN doc => doc.interval # Wrong

\* From the user, any value of the wrong type is refused, and a blank network.
StrictlyTyped(c, doc) ==
    /\ \A f \in DOMAIN doc : doc[f] # Wrong /\ (doc[f] = Null => f \in Secrets)
    /\ Taken(c, doc, TRUE).ssid = "" => c.ssid = ""

\* wrong variant: the rules for the user's documents hold for stored ones too
AcceptedStrictly(c, doc, keep) ==
    /\ WholeNumbers(doc) /\ StrictlyTyped(c, doc)
    /\ Valid(Result(c, doc, keep)) /\ IncomingValid(Result(c, doc, keep))

\* applyJson(keep): the document is accepted.
Accepted(c, doc, keep) ==
    /\ WholeNumbers(doc)
    /\ keep => StrictlyTyped(c, doc)
    /\ Valid(Result(c, doc, keep))
    /\ keep => IncomingValid(Result(c, doc, keep))

-----------------------------------------------------------------------------
(* Writing documents                                                        *)

SecretShown(v) == IF v = "" THEN "" ELSE Mask

\* toJson(redact)
Shown(c) == [f \in Fields |-> IF f \in Secrets THEN SecretShown(c[f]) ELSE c[f]]
Stored(c) == c

-----------------------------------------------------------------------------
(* Backups                                                                  *)

BackupOf(c, sealed) ==
    [doc |-> Shown(c), secrets |-> IF sealed THEN [f \in Secrets |-> c[f]] ELSE <<>>, of |-> c, sealed |-> sealed]

\* markPins: pins this board does not have
NoSuchPins(doc) ==
    {f \in DOMAIN doc \intersect PinFields :
        doc[f] \notin Gpios \union {Wrong, Null} /\ ~(f \in Optional /\ doc[f] = Unset)}

\* markPushover: switched on, with no keys to send with
NoKeys(c, doc, opened) ==
    IF ~opened /\ c.pushoverKey = "" /\ "pushover" \in DOMAIN doc /\ doc.pushover = TRUE
    THEN {"pushover"} ELSE {}

NoBluetooth == IF BluetoothBuild THEN {} ELSE {"ble", "passkey"}

NotApplicable(c, b, opened) == NoSuchPins(b.doc) \union NoBluetooth \union NoKeys(c, b.doc, opened)

\* wrong variant: secrets are put in before the device's own are looked at, empty ones too
InjectedRaw(v) == v

\* injectSecrets: an empty one clears the setting
Injected(v) == IF v = "" THEN Null ELSE v

\* prepareSettings: what cannot apply taken out, the secrets put in.
Prepared(c, b, opened) ==
    [f \in (DOMAIN b.doc \union (IF opened THEN Secrets ELSE {})) \ NotApplicable(c, b, opened) |->
        IF opened /\ f \in Secrets THEN Injected(b.secrets[f]) ELSE b.doc[f]]

BootPins == {"gpsRx", "gpsTx", "sda", "scl"}

\* restartReasons: the settings only read at start that a restore restarts for
RestartFields == {"ssid", "wifiPassword", "gps", "alpaca", "ble", "passkey"} \union BootPins

RestartReasons(before, after) ==
    {f \in RestartFields : before[f] # after[f]}
      \union (IF after.ble /\ before.deviceName # after.deviceName THEN {"deviceName"} ELSE {})

-----------------------------------------------------------------------------
(* The requests                                                             *)

Over(c, changes) == [f \in Fields |-> IF f \in DOMAIN changes THEN changes[f] ELSE c[f]]

\* Settings as a device holds them: acceptable, the time sources in their order,
\* and nothing that only a document says.
Held(c) ==
    /\ Valid(c) /\ Normalized(c) = c
    /\ \A f \in Fields : c[f] \notin {Wrong, Null}
    /\ \A f \in Secrets : c[f] # Mask

\* A device starts with such settings; a file of another one is not of its making.
StartAssumption ==
    \A a \in Areas : Held(Over(Defaults, a.start)) /\ \A b \in a.foreign : b.of = <<>>

Init ==
    /\ area \in Areas
    /\ settings = Over(Defaults, area.start)
    /\ backup = NoBackup /\ restarting = FALSE /\ named = {}

Named(doc) == {f \in DOMAIN doc : f \in Secrets => doc[f] \notin {Mask, ""}}

(* PUT /api/config: a document that is refused changes nothing.             *)
SetConfig ==
    /\ \E doc \in area.docs :
         IF Accepted(settings, doc, TRUE)
         THEN settings' = Result(settings, doc, TRUE) /\ named' = Named(doc)
         ELSE UNCHANGED settings /\ named' = {}
    /\ UNCHANGED <<area, backup, restarting>>

(* pollWiFiConnect: the network that was joined is stored, and the device    *)
(* restarts onto it.                                                        *)
JoinNetwork ==
    /\ area.joins
    /\ settings' = [settings EXCEPT !.ssid = "joined", !.wifiPassword = "s2"]
    /\ named' = {"ssid", "wifiPassword"}
    /\ restarting' = TRUE
    /\ UNCHANGED <<area, backup>>

(* POST /api/backup, with a passphrase or without; or a file of another device *)
MakeBackup ==
    /\ \/ area.own /\ \E sealed \in BOOLEAN : backup' = BackupOf(settings, sealed)
       \/ backup' \in area.foreign
    /\ named' = {}
    /\ UNCHANGED <<area, settings, restarting>>

(* POST /api/backup/preview and /apply, with or without the passphrase.      *)
Restore ==
    /\ backup # NoBackup
    /\ \E opened \in {backup.sealed, FALSE} :
         LET doc  == Prepared(settings, backup, opened)
             next == Result(settings, doc, TRUE)
         IN  IF Accepted(settings, doc, TRUE)
             THEN /\ settings' = next
                  /\ restarting' = (restarting \/ RestartReasons(settings, next) # {})
                  /\ named' = Named(doc)
             ELSE UNCHANGED <<settings, restarting>> /\ named' = {}
    /\ UNCHANGED <<area, backup>>

(* A restart, the scheduled one or another: the stored settings are read.    *)
Reboot ==
    /\ settings' = Result(Defaults, Stored(settings), FALSE)
    /\ restarting' = FALSE /\ named' = {}
    /\ UNCHANGED <<area, backup>>

Next == SetConfig \/ JoinNetwork \/ MakeBackup \/ Restore \/ Reboot

Spec == Init /\ [][Next]_vars

-----------------------------------------------------------------------------
(* What the rules promise                                                   *)

\* Whatever was saved, joined or restored, the device holds settings it would
\* accept, and can load again: no request locks it out at the next start.
LoadsAgain ==
    /\ Valid(settings)
    /\ Accepted(Defaults, Stored(settings), FALSE)
    /\ Result(Defaults, Stored(settings), FALSE) = settings

\* Uses: who would use which pin.
Uses(c) ==
    {<<"i2c", "sda", c.sda>>, <<"i2c", "scl", c.scl>>}
      \union (IF SecondBus(c) THEN {<<"i2c2", "sda", c.sda2>>, <<"i2c2", "scl", c.scl2>>} ELSE {})
      \union (IF c.gps THEN {<<"gps", "rx", c.gpsRx>>, <<"gps", "tx", c.gpsTx>>} ELSE {})
      \union (IF c.rain THEN {<<"rain", "rx", c.rainRx>>, <<"rain", "tx", c.rainTx>>} ELSE {})
      \union (IF c.wind THEN {<<"wind", "speed", c.windPin>>} ELSE {})
      \union (IF c.display /\ c.button # Unset THEN {<<"display", "button", c.button>>} ELSE {})
      \union {<<"battery", p[1], p[2]>> :
                p \in {q \in {<<"alert", c.alertPin>>, <<"stat1", c.stat1>>, <<"stat2", c.stat2>>, <<"pg", c.pg>>} :
                         q[2] # Unset}}

\* No two devices that are on use the same pin, whichever was set up or
\* switched on first and whichever of the checks looked at it; the first I2C
\* bus, GPS and the rain sensor are not compared with each other.
NoPinTwice ==
    \A u, v \in Uses(settings) :
        u[3] = v[3] => u = v \/ (u[1] # v[1] /\ {u[1], v[1]} \subseteq {"i2c", "gps", "rain"})

\* Both: what the device holds is acceptable as a whole.
SettingsAreSound == LoadsAgain /\ NoPinTwice

\* A request changes what it names, with two exceptions: a time source that was
\* switched off or on moves the order of the two, and the battery rule's limit
\* follows the critical level it was equal to.  Never a secret shown masked.
ChangesWhatItNames ==
    [][\A f \in Fields : settings'[f] # settings[f] =>
          \/ f \in named'
          \/ f = "secondary" /\ named' \intersect {"ntp", "gps", "primary"} # {}
          \/ f = "primary" /\ ~SourceOn(settings', settings.primary)
          \/ f = "batteryMin" /\ settings.batteryMin = settings.critical]_settings

\* What GET shows, sent back, changes nothing; a backup with its passphrase,
\* restored on the device that made it, brings every setting back, but for the
\* pin of an anemometer that is off where the board has no such pin; unless its
\* network was blank or its key is one that is no longer accepted.
ComesBack ==
    /\ Result(settings, Shown(settings), TRUE) = settings
    /\ backup.sealed /\ backup.of # <<>> /\ BluetoothBuild =>
         LET doc  == Prepared(settings, backup, TRUE)
             pin  == IF backup.of.windPin \in Gpios THEN backup.of.windPin ELSE settings.windPin
             back == [backup.of EXCEPT !.windPin = pin]
         IN  /\ Result(settings, doc, TRUE) = back
             /\ \/ Accepted(settings, doc, TRUE)
                \/ backup.of.ssid = "" /\ settings.ssid # ""
                \/ ~IncomingValid(backup.of)

=============================================================================
