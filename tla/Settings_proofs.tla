-------------------------- MODULE Settings_proofs --------------------------
(***************************************************************************)
(* Proofs about the settings, for every value of the constants: that what   *)
(* the device holds is sound and loads again, what a request changes, that  *)
(* backups come back (ConfigRules), that what is reported not to have an    *)
(* effect has none (SettingsDeps), and that the language file is the one    *)
(* its description names (LanguagePack).                                    *)
(*                                                                          *)
(* Of the rules, settings are Kept when they are acceptable, their time     *)
(* sources are in order, and no field holds what only a document says; a    *)
(* document that is accepted leaves them so, and settings that are Kept are *)
(* what their own documents say.  Of the report, its reasons are looked at  *)
(* one setting at a time.  The language file needs the stage each download  *)
(* is at, and that no two write at once.                                    *)
(***************************************************************************)
EXTENDS MCSettings, LanguagePack, TLAPS

-----------------------------------------------------------------------------
(* What a document makes of the settings                                   *)

\* Settings as the device holds them: every field, and Held.
Kept(c) == c = [f \in Rules!Fields |-> c[f]] /\ Rules!Held(c)

\* The fields a rule speaks of are fields.
LEMMA FieldNames ==
    /\ {"ntp", "gps", "primary", "secondary", "ssid", "wifiPassword", "batteryMin", "critical", "interval",
        "windPin"} \subseteq Rules!Fields
    /\ Rules!Secrets \subseteq Rules!Fields /\ Rules!PinFields \subseteq Rules!Fields
    /\ {"ntp", "gps", "primary", "secondary", "batteryMin", "critical", "interval", "ssid", "windPin"}
         \intersect Rules!Secrets = {}
BY DEF Rules!Fields, Rules!Secrets, Rules!PinFields, Rules!Optional, Rules!Switches, Rules!SourceFields,
   Rules!Percents

\* Of the settings' time sources only the order may be put right, and what is
\* right stays: a primary that is on is kept.
LEMMA NormalizedOrders ==
    ASSUME NEW c, c = [f \in Rules!Fields |-> c[f]], NEW n, n = Rules!Normalized(c)
    PROVE  /\ n = [f \in Rules!Fields |-> n[f]]
           /\ \A f \in Rules!Fields \ {"primary", "secondary"} : n[f] = c[f]
           /\ Rules!SourceOn(c, c.primary) => n.primary = c.primary
           /\ n.primary \in {c.primary, "ntp", "gps"}
           /\ n.secondary \in {c.secondary, c.primary, "ntp", "gps"}
           /\ Rules!Normalized(n) = n
<1> DEFINE primary == IF Rules!SourceOn(c, c.primary) THEN c.primary ELSE Rules!OtherSource(c.primary)
           second == IF c.ntp /\ c.gps THEN Rules!OtherSource(primary) ELSE primary
<1>1. CASE ~c.ntp /\ ~c.gps
  <2>1. n = c BY <1>1 DEF Rules!Normalized
  <2> QED BY <1>1, <2>1 DEF Rules!Normalized
<1>2. CASE c.ntp \/ c.gps
  <2>1. n = [c EXCEPT !.primary = primary, !.secondary = second]
    BY <1>2 DEF Rules!Normalized
  <2>2. primary \in {c.primary, "ntp", "gps"} /\ second \in {c.primary, "ntp", "gps"}
    BY DEF Rules!OtherSource
  <2> HIDE DEF primary, second
  <2>3. /\ n = [f \in Rules!Fields |-> n[f]] /\ n.primary = primary /\ n.secondary = second
        /\ \A f \in Rules!Fields \ {"primary", "secondary"} : n[f] = c[f]
    BY <2>1, FieldNames
  <2>4. n.ntp = c.ntp /\ n.gps = c.gps BY <2>3, FieldNames
  <2>5. Rules!SourceOn(n, n.primary)
    BY <1>2, <2>3, <2>4 DEF primary, Rules!SourceOn, Rules!OtherSource
  <2>6. Rules!Normalized(n) = [n EXCEPT !.primary = n.primary, !.secondary = n.secondary]
    BY <1>2, <2>3, <2>4, <2>5 DEF second, Rules!Normalized
  <2>7. Rules!Normalized(n) = n BY <2>3, <2>6
  <2> QED BY <2>2, <2>3, <2>7 DEF primary
<1> QED BY <1>1, <1>2

\* What a document says instead of a value is none of the settings' own.
LEMMA JsonValues ==
    /\ {"", "joined", "s2", "ntp", "gps"} \intersect {Wrong, Null, Mask} = {}
    /\ Mask # Wrong /\ Mask # Null /\ Wrong # Null
BY SettingsAssumption DEF SettingsAssumption, Rules!RulesAssumption

\* What a document of the user's makes of the fields it names.
UserTakes(c, doc) == Rules!Taken(c, doc, TRUE)

\* What is taken of a field from a document of the user's.
LEMMA FieldTaken ==
    ASSUME NEW c, NEW doc, NEW f \in Rules!Fields
    PROVE  LET t == UserTakes(c, doc) IN
           /\ f \notin DOMAIN doc => t[f] = c[f]
           /\ f \in DOMAIN doc /\ f \in Rules!Secrets =>
                t[f] = IF doc[f] = Null THEN "" ELSE IF doc[f] \in {Wrong, Mask, ""} THEN c[f] ELSE doc[f]
           /\ f \in DOMAIN doc /\ f \notin Rules!Secrets =>
                t[f] = IF doc[f] \in {Wrong, Null} THEN c[f] ELSE doc[f]
<1>1. UserTakes(c, doc)[f] = IF f \notin DOMAIN doc THEN c[f]
                             ELSE IF f \in Rules!Secrets THEN Rules!SecretTaken(c[f], doc[f], TRUE)
                             ELSE IF doc[f] \in {Wrong, Null} THEN c[f] ELSE doc[f]
  BY Zenon DEF UserTakes, Rules!Taken
<1>2. Rules!SecretTaken(c[f], doc[f], TRUE)
        = IF doc[f] = Null THEN "" ELSE IF doc[f] \in {Wrong, Mask, ""} THEN c[f] ELSE doc[f]
  BY Zenon DEF Rules!SecretTaken
<1> QED BY <1>1, <1>2

\* A field changes only where the document names it.
LEMMA TakenNames ==
    ASSUME NEW c, NEW doc, NEW f \in Rules!Fields, UserTakes(c, doc)[f] # c[f]
    PROVE  f \in Rules!Named(doc)
<1>1. f \in DOMAIN doc BY FieldTaken
<1>2. f \in Rules!Secrets => doc[f] \notin {Mask, ""} BY <1>1, FieldTaken, JsonValues
<1> QED BY <1>1, <1>2 DEF Rules!Named

\* A document of the user's leaves no field without a value of its own.
LEMMA TakenFills ==
    ASSUME NEW c, \A f \in Rules!Fields : c[f] \notin {Wrong, Null}, \A f \in Rules!Secrets : c[f] # Mask,
           NEW doc
    PROVE  LET t == UserTakes(c, doc) IN
           /\ t = [f \in Rules!Fields |-> t[f]]
           /\ \A f \in Rules!Fields : t[f] \notin {Wrong, Null}
           /\ \A f \in Rules!Secrets : t[f] # Mask
<1> DEFINE t == UserTakes(c, doc)
<1>1. t = [f \in Rules!Fields |-> t[f]] BY Zenon DEF UserTakes, Rules!Taken
<1>2. ASSUME NEW f \in Rules!Fields
      PROVE  t[f] \notin {Wrong, Null} /\ (f \in Rules!Secrets => t[f] # Mask)
  <2> HIDE DEF t
  <2>1. /\ f \notin DOMAIN doc => t[f] = c[f]
        /\ f \in DOMAIN doc /\ f \in Rules!Secrets =>
             t[f] = IF doc[f] = Null THEN "" ELSE IF doc[f] \in {Wrong, Mask, ""} THEN c[f] ELSE doc[f]
        /\ f \in DOMAIN doc /\ f \notin Rules!Secrets =>
             t[f] = IF doc[f] \in {Wrong, Null} THEN c[f] ELSE doc[f]
    BY FieldTaken, Zenon DEF t
  <2>2. CASE f \in Rules!Secrets BY <2>1, <2>2, JsonValues
  <2>3. CASE f \notin Rules!Secrets BY <2>1, <2>3
  <2> QED BY <2>2, <2>3
<1> QED BY <1>1, <1>2, FieldNames

\* So do its settings once the battery's limit and the time sources follow.
LEMMA ResultFills ==
    ASSUME NEW c, Kept(c), NEW doc, NEW r, r = Rules!Result(c, doc, TRUE)
    PROVE  /\ r = [f \in Rules!Fields |-> r[f]] /\ Rules!Normalized(r) = r
           /\ \A f \in Rules!Fields : r[f] \notin {Wrong, Null}
           /\ \A f \in Rules!Secrets : r[f] # Mask
<1> DEFINE t == UserTakes(c, doc)
           w == Rules!Followed(c, doc, t)
<1>1. /\ t = [f \in Rules!Fields |-> t[f]]
      /\ \A f \in Rules!Fields : t[f] \notin {Wrong, Null}
      /\ \A f \in Rules!Secrets : t[f] # Mask
  BY TakenFills, Zenon DEF Kept, Rules!Held
<1> HIDE DEF t
<1>2. w = t \/ w = [t EXCEPT !.batteryMin = t.critical]
  BY DEF Rules!Followed
<1> HIDE DEF w
<1>3. /\ w = [f \in Rules!Fields |-> w[f]]
      /\ \A f \in Rules!Fields : w[f] \notin {Wrong, Null}
      /\ \A f \in Rules!Secrets : w[f] # Mask
  BY <1>1, <1>2, FieldNames
<1>4. r = Rules!Normalized(w) BY DEF UserTakes, Rules!Result, t, w
<1>5. /\ r = [f \in Rules!Fields |-> r[f]] /\ Rules!Normalized(r) = r
      /\ \A f \in Rules!Fields \ {"primary", "secondary"} : r[f] = w[f]
      /\ r.primary \in {w.primary, "ntp", "gps"}
      /\ r.secondary \in {w.secondary, w.primary, "ntp", "gps"}
  BY <1>3, <1>4, NormalizedOrders, Zenon
<1>6. r.primary \notin {Wrong, Null} /\ r.secondary \notin {Wrong, Null}
  BY <1>3, <1>5, FieldNames, JsonValues
<1> QED BY <1>3, <1>5, <1>6, FieldNames

\* A document that is accepted makes settings the device may hold.
LEMMA AcceptedIsKept ==
    ASSUME NEW c, Kept(c), NEW doc, Rules!Accepted(c, doc, TRUE)
    PROVE  Kept(Rules!Result(c, doc, TRUE))
<1> DEFINE r == Rules!Result(c, doc, TRUE)
<1>1. /\ r = [f \in Rules!Fields |-> r[f]] /\ Rules!Normalized(r) = r
      /\ \A f \in Rules!Fields : r[f] \notin {Wrong, Null}
      /\ \A f \in Rules!Secrets : r[f] # Mask
  BY ResultFills, Zenon
<1>2. Rules!Valid(r) BY DEF Rules!Accepted
<1> QED BY <1>1, <1>2, Zenon DEF Kept, Rules!Held

\* Settings that are read back whole are what they were, whatever they replace.
LEMMA WholeDocument ==
    ASSUME NEW c, Kept(c), NEW old, NEW doc, "batteryMin" \in DOMAIN doc,
           NEW t, t = [f \in Rules!Fields |-> t[f]], \A f \in Rules!Fields : t[f] = c[f]
    PROVE  t = c /\ Rules!Normalized(Rules!Followed(old, doc, t)) = c
<1>1. t = c BY DEF Kept
<1>2. Rules!Followed(old, doc, t) = c
  BY <1>1, Zenon DEF Rules!Followed, Rules!Follows
<1> QED BY <1>1, <1>2 DEF Kept, Rules!Held

\* A start reads what was stored, and accepts it.
LEMMA StoredComesBack ==
    ASSUME NEW c, Kept(c)
    PROVE  /\ Rules!Result(Defaults, Rules!Stored(c), FALSE) = c
           /\ Rules!Accepted(Defaults, Rules!Stored(c), FALSE)
<1>1. DOMAIN c = Rules!Fields BY DEF Kept
<1>2. ASSUME NEW f \in Rules!Fields PROVE Rules!Taken(Defaults, c, FALSE)[f] = c[f]
  BY <1>1, <1>2 DEF Rules!Taken, Rules!SecretTaken, Kept, Rules!Held
<1>3. Rules!Result(Defaults, Rules!Stored(c), FALSE) = c
  <2> DEFINE t == Rules!Taken(Defaults, c, FALSE)
  <2>1. "batteryMin" \in DOMAIN c BY <1>1, FieldNames
  <2>2. t = [f \in Rules!Fields |-> t[f]] BY Zenon DEF Rules!Taken
  <2>3. Rules!Normalized(Rules!Followed(Defaults, c, t)) = c
    <3> HIDE DEF t
    <3> SUFFICES \A f \in Rules!Fields : t[f] = c[f] BY <2>1, <2>2, WholeDocument, Zenon
    <3> QED BY <1>2, Zenon DEF t
  <2> QED BY <2>3, Zenon DEF Rules!Stored, Rules!Result
<1> QED BY <1>1, <1>3, FieldNames DEF Rules!Accepted, Rules!WholeNumbers, Rules!Stored, Kept, Rules!Held

\* What GET shows, sent back, is what it shows.
LEMMA ShownComesBack ==
    ASSUME NEW c, Kept(c)
    PROVE  Rules!Result(c, Rules!Shown(c), TRUE) = c
<1>1. DOMAIN Rules!Shown(c) = Rules!Fields BY DEF Rules!Shown
<1>2. ASSUME NEW f \in Rules!Fields PROVE Rules!Taken(c, Rules!Shown(c), TRUE)[f] = c[f]
  BY <1>1, <1>2, JsonValues
     DEF Rules!Taken, Rules!SecretTaken, Rules!Shown, Rules!SecretShown, Kept, Rules!Held
<1>3. "batteryMin" \in DOMAIN Rules!Shown(c) BY <1>1, FieldNames
<1> DEFINE t == Rules!Taken(c, Rules!Shown(c), TRUE)
<1>4. t = [f \in Rules!Fields |-> t[f]] BY Zenon DEF Rules!Taken
<1>5. Rules!Normalized(Rules!Followed(c, Rules!Shown(c), t)) = c
  <2> HIDE DEF t
  <2> SUFFICES \A f \in Rules!Fields : t[f] = c[f] BY <1>3, <1>4, WholeDocument, Zenon
  <2> QED BY <1>2, Zenon DEF t
<1> QED BY <1>5, Zenon DEF Rules!Result

-----------------------------------------------------------------------------
(* Backups                                                                 *)

\* A backup the device made holds settings it had.
OwnBackup(b) ==
    /\ Kept(b.of) /\ b.doc = Rules!Shown(b.of)
    /\ b.sealed => b.secrets = [f \in Rules!Secrets |-> b.of[f]]

\* The pins of settings that are valid are the board's, or left out, but for
\* that of an anemometer that is off.
LEMMA PinsAreTheBoards ==
    ASSUME NEW c, Rules!Valid(c), NEW f \in Rules!PinFields
    PROVE  f = "windPin" \/ c[f] \in Gpios \/ (f \in Rules!Optional /\ c[f] = Unset)
<1>1. {c.gpsRx, c.gpsTx, c.rainRx, c.rainTx, c.sda, c.scl} \subseteq Gpios
  BY DEF Rules!Valid, Rules!BusesValid
<1>2. (c.sda2 = Unset /\ c.scl2 = Unset) \/ {c.sda2, c.scl2} \subseteq Gpios
  BY DEF Rules!Valid, Rules!SecondBusValid
<1>3. c.button = Unset \/ c.button \in Gpios
  BY DEF Rules!Valid, Rules!DisplayValid
<1>4. {c.alertPin, c.stat1, c.stat2, c.pg} \ {Unset} \subseteq Gpios
  BY DEF Rules!Valid, Rules!BatteryPinsValid, Rules!Wired
<1> QED BY <1>1, <1>2, <1>3, <1>4 DEF Rules!PinFields, Rules!Optional

\* No rule looks at the network, or at the pin of an anemometer that is off.
LEMMA RulesLookElsewhere ==
    ASSUME NEW c, Kept(c), NEW d, d = [f \in Rules!Fields |-> d[f]],
           \A f \in Rules!Fields \ {"ssid", "wifiPassword", "windPin"} : d[f] = c[f],
           d.windPin = c.windPin \/ ~c.wind,
           {d.ssid, d.wifiPassword, d.windPin} \intersect {Wrong, Null} = {}, d.wifiPassword # Mask
    PROVE  Kept(d)
<1>3. /\ \A f \in Rules!Fields : d[f] \notin {Wrong, Null}
      /\ \A f \in Rules!Secrets : d[f] # Mask
  BY FieldNames DEF Kept, Rules!Held
<1>4. /\ d.gpsRx = c.gpsRx /\ d.gpsTx = c.gpsTx /\ d.rainRx = c.rainRx /\ d.rainTx = c.rainTx
      /\ d.sda = c.sda /\ d.scl = c.scl /\ d.sda2 = c.sda2 /\ d.scl2 = c.scl2
      /\ d.button = c.button /\ d.alertPin = c.alertPin
      /\ d.stat1 = c.stat1 /\ d.stat2 = c.stat2 /\ d.pg = c.pg
  BY DEF Rules!Fields, Rules!PinFields, Rules!Optional
<1>5. /\ d.ntp = c.ntp /\ d.gps = c.gps /\ d.rain = c.rain /\ d.wind = c.wind /\ d.display = c.display
      /\ d.sqml = c.sqml /\ d.auth = c.auth /\ d.pushover = c.pushover
      /\ d.primary = c.primary /\ d.secondary = c.secondary
  BY DEF Rules!Fields, Rules!Switches, Rules!SourceFields
<1>6. /\ d.low = c.low /\ d.critical = c.critical /\ d.shutdown = c.shutdown /\ d.batteryMin = c.batteryMin
      /\ d.authPassword = c.authPassword /\ d.pushoverKey = c.pushoverKey
      /\ d.deviceName = c.deviceName /\ d.interval = c.interval
  BY DEF Rules!Fields, Rules!Percents, Rules!Secrets
<1>a. (IF d.wind THEN {d.windPin} ELSE {}) = (IF c.wind THEN {c.windPin} ELSE {})
  BY <1>5
<1>7. Rules!Valid(d)
  <2>1. Rules!Valid(c) BY DEF Kept, Rules!Held
  <2>2. /\ Rules!SecondBus(d) = Rules!SecondBus(c) /\ Rules!Wired(d) = Rules!Wired(c)
        /\ Rules!ChargerPins(d) = Rules!ChargerPins(c)
    BY <1>4 DEF Rules!SecondBus, Rules!Wired, Rules!ChargerPins
  <2>3. Rules!BusPins(d, TRUE) = Rules!BusPins(c, TRUE) /\ Rules!BusPins(d, FALSE) = Rules!BusPins(c, FALSE)
    BY <1>4, <1>5, <2>2, Zenon DEF Rules!BusPins
  <2>4. /\ Rules!TimeValid(d) /\ Rules!AccessValid(d) /\ Rules!BusesValid(d) /\ Rules!RangesValid(d)
        /\ Rules!ChannelsValid(d) /\ Rules!LevelsValid(d) /\ d.deviceName # ""
    <3>1. Rules!TimeValid(d)
      BY <1>5, <2>1 DEF Rules!Valid, Rules!TimeValid, Rules!SourceOn
    <3>2. Rules!AccessValid(d) /\ Rules!RangesValid(d) /\ Rules!ChannelsValid(d) /\ d.deviceName # ""
      BY <1>5, <1>6, <2>1 DEF Rules!Valid, Rules!AccessValid, Rules!RangesValid, Rules!ChannelsValid
    <3>3. Rules!BusesValid(d)
      <4>1. Rules!BusesValid(c) BY <2>1 DEF Rules!Valid
      <4>2. {d.gpsRx, d.gpsTx, d.rainRx, d.rainTx, d.sda, d.scl}
              = {c.gpsRx, c.gpsTx, c.rainRx, c.rainTx, c.sda, c.scl}
        BY <1>4
      <4> QED BY <1>4, <1>5, <4>1, <4>2, Zenon DEF Rules!BusesValid
    <3>4. Rules!LevelsValid(d) BY <1>6, <2>1, Zenon DEF Rules!Valid, Rules!LevelsValid
    <3> QED BY <3>1, <3>2, <3>3, <3>4
  <2>5. Rules!SecondBusValid(d) /\ (d.sqml => Rules!SecondBus(d)) /\ Rules!WindValid(d)
    BY <1>4, <1>5, <2>1, <2>2, <2>3 DEF Rules!Valid, Rules!SecondBusValid, Rules!WindValid
  <2>6. Rules!DisplayValid(d)
    BY <1>4, <1>5, <1>a, <2>1, <2>2, <2>3 DEF Rules!Valid, Rules!DisplayValid, Rules!ButtonFree
  <2>7. Rules!BatteryPinsValid(d)
    <3>1. Rules!BatteryPinsValid(c) BY <2>1 DEF Rules!Valid
    <3>2. (IF d.display THEN {d.button} ELSE {}) = (IF c.display THEN {c.button} ELSE {})
      BY <1>4, <1>5
    <3>3. {i \in 1..3 : Rules!ChargerPins(d)[i] # Unset} = {i \in 1..3 : Rules!ChargerPins(c)[i] # Unset}
      BY <2>2
    <3> DEFINE wired == {i \in 1..3 : Rules!ChargerPins(c)[i] # Unset}
    <3>4. /\ Rules!Wired(d) \subseteq Gpios /\ wired \in {{}, 1..3}
          /\ \A i, j \in wired : Rules!ChargerPins(d)[i] = Rules!ChargerPins(d)[j] => i = j
      BY <2>2, <3>1 DEF Rules!BatteryPinsValid
    <3>5. d.alertPin # Unset => \A i \in wired : Rules!ChargerPins(d)[i] # d.alertPin
      BY <1>4, <2>2, <3>1 DEF Rules!BatteryPinsValid
    <3>6. Rules!Wired(d) \intersect (Rules!BusPins(d, TRUE) \union (IF d.wind THEN {d.windPin} ELSE {})
                                     \union (IF d.display THEN {d.button} ELSE {})) = {}
      BY <1>a, <2>2, <2>3, <3>1, <3>2, Zenon DEF Rules!BatteryPinsValid
    <3>7. d.pg \in RtcGpios \union {Unset} BY <1>4, <3>1 DEF Rules!BatteryPinsValid
    <3> QED BY <3>3, <3>4, <3>5, <3>6, <3>7, Zenon DEF Rules!BatteryPinsValid
  <2> QED BY <2>4, <2>5, <2>6, <2>7 DEF Rules!Valid
<1>8. Rules!Normalized(d) = d
  <2>1. Rules!Normalized(c) = c BY DEF Kept, Rules!Held
  <2> DEFINE primary == IF Rules!SourceOn(d, d.primary) THEN d.primary ELSE Rules!OtherSource(d.primary)
             second == IF d.ntp /\ d.gps THEN Rules!OtherSource(primary) ELSE primary
  <2>2. CASE ~c.ntp /\ ~c.gps
    BY <1>5, <2>2 DEF Rules!Normalized
  <2>3. CASE c.ntp \/ c.gps
    <3>1. primary = IF Rules!SourceOn(c, c.primary) THEN c.primary ELSE Rules!OtherSource(c.primary)
      BY <1>5 DEF Rules!SourceOn
    <3>2. second = IF c.ntp /\ c.gps THEN Rules!OtherSource(primary) ELSE primary BY <1>5
    <3> HIDE DEF primary, second
    <3>3. Rules!Normalized(c) = [c EXCEPT !.primary = primary, !.secondary = second]
      BY <2>3, <3>1, <3>2 DEF Rules!Normalized
    <3>4. c.primary = primary /\ c.secondary = second
      BY <2>1, <3>3, FieldNames DEF Kept
    <3>5. Rules!Normalized(d) = [d EXCEPT !.primary = primary, !.secondary = second]
      BY <1>5, <2>3 DEF Rules!Normalized, primary, second
    <3>6. d = [f \in Rules!Fields |-> d[f]] OBVIOUS
    <3> QED BY <1>5, <3>4, <3>5, <3>6
  <2> QED BY <2>2, <2>3
<1> QED BY <1>3, <1>7, <1>8 DEF Kept, Rules!Held

\* What a restore makes of a backup opened with its passphrase: the settings it
\* was made of, but for a pin of the anemometer's that the board does not have.
Back(c, b) ==
    [b.of EXCEPT !.windPin = IF b.of.windPin \in Gpios THEN b.of.windPin ELSE c.windPin]

\* That pin is one of an anemometer that is off, so the settings are sound.
LEMMA BackIsKept ==
    ASSUME NEW c, Kept(c), NEW b, Kept(b.of), NEW r, r = Back(c, b)
    PROVE  Kept(r) /\ \A f \in Rules!Fields \ {"windPin"} : r[f] = b.of[f]
<1> DEFINE s == b.of
<1>1. Kept(s) OBVIOUS
<1>2. r = [s EXCEPT !.windPin = IF s.windPin \in Gpios THEN s.windPin ELSE c.windPin] BY DEF Back
<1> HIDE DEF s
<1>3. /\ r = [f \in Rules!Fields |-> r[f]]
      /\ \A f \in Rules!Fields \ {"windPin"} : r[f] = s[f]
      /\ r.windPin = IF s.windPin \in Gpios THEN s.windPin ELSE c.windPin
  BY <1>1, <1>2, FieldNames DEF Kept
<1>4. s.windPin \in Gpios \/ ~s.wind BY <1>1 DEF Kept, Rules!Held, Rules!Valid, Rules!WindValid
<1>5. "ssid" \in Rules!Fields \ {"windPin"} /\ "wifiPassword" \in Rules!Secrets \ {"windPin"}
  BY FieldNames DEF Rules!Secrets
<1>6. /\ {r.ssid, r.wifiPassword, r.windPin} \intersect {Wrong, Null} = {}
      /\ r.wifiPassword # Mask
  BY <1>1, <1>3, <1>5, FieldNames DEF Kept, Rules!Held
<1>7. Kept(r) BY <1>1, <1>3, <1>4, <1>6, RulesLookElsewhere
<1> QED BY <1>3, <1>7 DEF s

\* A restore leaves out of such a backup that pin at most.
LEMMA LeftOut ==
    ASSUME NEW c, NEW b, OwnBackup(b), BluetoothBuild
    PROVE  LET opened == TRUE IN
           Rules!NotApplicable(c, b, opened) = IF b.of.windPin \in Gpios THEN {} ELSE {"windPin"}
<1> DEFINE s == b.of
<1>1. Kept(s) /\ b.doc = Rules!Shown(s)
  BY DEF OwnBackup
<1>2. DOMAIN b.doc = Rules!Fields /\ \A f \in Rules!Fields \ Rules!Secrets : b.doc[f] = s[f]
  BY <1>1 DEF Rules!Shown
<1> HIDE DEF s
<1>3. Rules!PinFields \intersect Rules!Secrets = {}
  BY DEF Rules!PinFields, Rules!Optional, Rules!Secrets
<1>4. \A f \in Rules!PinFields : b.doc[f] = s[f] BY <1>2, <1>3, FieldNames
<1>5. "windPin" \in Rules!PinFields /\ "windPin" \notin Rules!Optional
  BY DEF Rules!PinFields, Rules!Optional
<1>6. s.windPin \notin {Wrong, Null} BY <1>1, FieldNames DEF Kept, Rules!Held
<1>7. Rules!NoSuchPins(b.doc) = IF s.windPin \in Gpios THEN {} ELSE {"windPin"}
  <2>1. ASSUME NEW f \in Rules!PinFields \ {"windPin"}
        PROVE  b.doc[f] \in Gpios \/ (f \in Rules!Optional /\ b.doc[f] = Unset)
    BY <1>1, <1>4, PinsAreTheBoards DEF Kept, Rules!Held
  <2>2. DOMAIN b.doc \intersect Rules!PinFields = Rules!PinFields BY <1>2, FieldNames
  <2> QED BY <1>4, <1>5, <1>6, <2>1, <2>2 DEF Rules!NoSuchPins
<1>8. Rules!NoBluetooth = {} BY DEF Rules!NoBluetooth
<1>9. Rules!NoKeys(c, b.doc, TRUE) = {} BY Zenon DEF Rules!NoKeys
<1> QED BY <1>7, <1>8, <1>9 DEF Rules!NotApplicable, s

\* A backup of the device's own, opened with its passphrase, is restored whole.
LEMMA BackupComesBack ==
    ASSUME NEW c, Kept(c), NEW b, OwnBackup(b), b.sealed, BluetoothBuild,
           NEW doc, doc = Rules!Prepared(c, b, TRUE)
    PROVE  /\ Rules!Result(c, doc, TRUE) = Back(c, b)
           /\ Rules!Taken(c, doc, TRUE) = Back(c, b)
           /\ \A f \in DOMAIN doc : doc[f] # Wrong /\ (doc[f] = Null => f \in Rules!Secrets)
<1> DEFINE s == b.of
           r == Back(c, b)
           out == IF s.windPin \in Gpios THEN {} ELSE {"windPin"}
<1>1. Kept(s) /\ b.doc = Rules!Shown(s) /\ b.secrets = [f \in Rules!Secrets |-> s[f]]
  BY DEF OwnBackup
<1>2. DOMAIN b.doc = Rules!Fields /\ \A f \in Rules!Fields \ Rules!Secrets : b.doc[f] = s[f]
  BY <1>1 DEF Rules!Shown
<1>3. Rules!NotApplicable(c, b, TRUE) = out BY LeftOut
<1>a. Kept(r) /\ \A f \in Rules!Fields \ {"windPin"} : r[f] = s[f] BY <1>1, BackIsKept
<1>b. r.windPin = IF s.windPin \in Gpios THEN s.windPin ELSE c.windPin
  BY <1>1, FieldNames DEF Back, Kept
<1>c. "windPin" \notin Rules!Secrets /\ "windPin" # "batteryMin" BY FieldNames
<1> HIDE DEF s, r
<1>4. DOMAIN doc = Rules!Fields \ out
  <2>1. doc = [f \in (DOMAIN b.doc \union Rules!Secrets) \ Rules!NotApplicable(c, b, TRUE) |->
                 IF f \in Rules!Secrets THEN Rules!Injected(b.secrets[f]) ELSE b.doc[f]]
    BY Zenon DEF Rules!Prepared
  <2> HIDE DEF out
  <2> QED BY <1>2, <1>3, <2>1, FieldNames
<1>5. \A f \in Rules!Fields \ out :
        doc[f] = IF f \in Rules!Secrets THEN Rules!Injected(s[f]) ELSE s[f]
  <2>1. doc = [f \in (DOMAIN b.doc \union Rules!Secrets) \ Rules!NotApplicable(c, b, TRUE) |->
                 IF f \in Rules!Secrets THEN Rules!Injected(b.secrets[f]) ELSE b.doc[f]]
    BY Zenon DEF Rules!Prepared
  <2> HIDE DEF out
  <2> QED BY <1>1, <1>2, <1>3, <2>1, FieldNames
<1>6. \A f \in Rules!Fields : s[f] \notin {Wrong, Null} /\ (f \in Rules!Secrets => s[f] # Mask)
  BY <1>1 DEF Kept, Rules!Held
<1> DEFINE t == Rules!Taken(c, doc, TRUE)
<1>7. ASSUME NEW f \in Rules!Fields PROVE t[f] = r[f]
  <2>1. CASE f \in Rules!Secrets
    <3>0. f \notin out /\ r[f] = s[f] BY <1>a, <1>c, <2>1
    <3> HIDE DEF out
    <3>1. t[f] = Rules!SecretTaken(c[f], doc[f], TRUE) BY <1>4, <2>1, <3>0 DEF Rules!Taken
    <3>2. t[f] = IF doc[f] = Null THEN "" ELSE IF doc[f] \in {Wrong, Mask, ""} THEN c[f] ELSE doc[f]
      BY <3>1, Zenon DEF Rules!SecretTaken
    <3>3. doc[f] = IF s[f] = "" THEN Null ELSE s[f] BY <1>5, <2>1, <3>0 DEF Rules!Injected
    <3> QED BY <1>6, <2>1, <3>0, <3>2, <3>3
  <2>2. CASE f \notin Rules!Secrets /\ f \notin out
    <3>0. r[f] = s[f] BY <1>a, <1>b, <2>2
    <3> HIDE DEF out
    <3>1. doc[f] = s[f] BY <1>5, <2>2
    <3> QED BY <1>4, <1>6, <2>2, <3>0, <3>1 DEF Rules!Taken
  <2>3. CASE f \in out
    <3>1. f = "windPin" /\ r[f] = c[f] BY <1>b, <2>3
    <3> HIDE DEF out
    <3> QED BY <1>4, <2>3, <3>1 DEF Rules!Taken
  <2> QED BY <1>c, <2>1, <2>2, <2>3
<1>8. t = [f \in Rules!Fields |-> t[f]] BY Zenon DEF Rules!Taken
<1>9. "batteryMin" \in DOMAIN doc BY <1>4, <1>c, FieldNames
<1>10. t = r /\ Rules!Normalized(Rules!Followed(c, doc, t)) = r
  <2>1. \A f \in Rules!Fields : t[f] = r[f] BY <1>7
  <2> HIDE DEF t
  <2>2. Rules!Followed(c, doc, t) = t BY <1>9, Zenon DEF Rules!Followed, Rules!Follows
  <2>3. t = r BY <1>a, <1>8, <2>1 DEF Kept
  <2>4. Rules!Normalized(r) = r BY <1>a, Zenon DEF Kept, Rules!Held
  <2> QED BY <2>2, <2>3, <2>4
<1>11. ASSUME NEW f \in DOMAIN doc
       PROVE  doc[f] # Wrong /\ (doc[f] = Null => f \in Rules!Secrets)
  <2> HIDE DEF out
  <2>1. CASE f \in Rules!Secrets
    <3>1. doc[f] = IF s[f] = "" THEN Null ELSE s[f] BY <1>4, <1>5, <2>1 DEF Rules!Injected
    <3> QED BY <1>4, <1>6, <2>1, <3>1, JsonValues
  <2>2. CASE f \notin Rules!Secrets
    <3>1. doc[f] = s[f] BY <1>4, <1>5, <2>2
    <3> QED BY <1>4, <1>6, <3>1
  <2> QED BY <2>1, <2>2
<1> QED BY <1>10, <1>11, Zenon DEF Rules!Result, r
-----------------------------------------------------------------------------
(* What the device holds                                                   *)

\* What every state of the rules keeps: settings the device may hold, and a
\* backup of its own that holds such settings.
RulesInv ==
    /\ area \in Areas
    /\ Kept(settings)
    /\ backup.of # <<>> => OwnBackup(backup)

\* A new device, with what its area changes, is such.
LEMMA RulesStart == Init => RulesInv
<1> SUFFICES ASSUME Init PROVE RulesInv
  OBVIOUS
<1>1. area \in Areas /\ settings = Rules!Over(Defaults, area.start) /\ backup = Rules!NoBackup
  BY DEF Init, Rules!Init
<1>2. Rules!Held(settings)
  BY <1>1, SettingsAssumption DEF SettingsAssumption, Rules!StartAssumption
<1>3. settings = [f \in Rules!Fields |-> settings[f]]
  BY <1>1 DEF Rules!Over
<1>4. backup.of = <<>> BY <1>1, Zenon DEF Rules!NoBackup
<1> QED BY <1>1, <1>2, <1>3, <1>4 DEF RulesInv, Kept

\* A backup made now is one of the device's own.
LEMMA BackupIsOwn ==
    ASSUME NEW c, Kept(c), NEW sealed \in BOOLEAN, NEW b, b = Rules!BackupOf(c, sealed)
    PROVE  OwnBackup(b)
<1>1. b.of = c /\ b.doc = Rules!Shown(c) /\ b.sealed = sealed
      /\ b.secrets = IF sealed THEN [f \in Rules!Secrets |-> c[f]] ELSE <<>>
  BY Zenon DEF Rules!BackupOf
<1> QED BY <1>1, Zenon DEF OwnBackup

\* A document that is accepted, a network that is joined, a restore and a
\* restart leave it so, and a backup is one of the device's own.
LEMMA RulesKeep == RulesInv /\ [Next]_vars => RulesInv'
<1> SUFFICES ASSUME RulesInv, [Next]_vars PROVE RulesInv'
  OBVIOUS
<1> USE DEF RulesInv
<1>1. CASE Rules!SetConfig
  <2>1. PICK doc \in area.docs :
          IF Rules!Accepted(settings, doc, TRUE) THEN settings' = Rules!Result(settings, doc, TRUE)
                                                 ELSE settings' = settings
    BY <1>1, Zenon DEF Rules!SetConfig
  <2>2. Kept(settings') BY <2>1, AcceptedIsKept, Zenon
  <2> QED BY <1>1, <2>2 DEF Rules!SetConfig
<1>2. CASE Rules!JoinNetwork
  <2>1. settings' = [settings EXCEPT !.ssid = "joined", !.wifiPassword = "s2"] BY <1>2 DEF Rules!JoinNetwork
  <2>2. /\ settings' = [f \in Rules!Fields |-> settings'[f]]
        /\ \A f \in Rules!Fields \ {"ssid", "wifiPassword"} : settings'[f] = settings[f]
        /\ settings'.ssid = "joined" /\ settings'.wifiPassword = "s2"
    BY <2>1, FieldNames DEF Kept
  <2>3. settings'.windPin = settings.windPin /\ settings.windPin \notin {Wrong, Null}
    BY <2>2, FieldNames DEF Kept, Rules!Held
  <2>4. {settings'.ssid, settings'.wifiPassword, settings'.windPin} \intersect {Wrong, Null} = {}
        /\ settings'.wifiPassword # Mask
    BY <2>2, <2>3, JsonValues
  <2>5. Kept(settings') BY <2>2, <2>3, <2>4, RulesLookElsewhere
  <2> QED BY <1>2, <2>5 DEF Rules!JoinNetwork
<1>3. CASE Rules!MakeBackup
  <2>1. area' = area /\ settings' = settings BY <1>3 DEF Rules!MakeBackup
  <2>2. CASE \E sealed \in BOOLEAN : backup' = Rules!BackupOf(settings, sealed)
    <3>1. OwnBackup(backup') BY <2>2, BackupIsOwn, Zenon
    <3> QED BY <2>1, <3>1
  <2>3. CASE backup' \in area.foreign
    <3>1. backup'.of = <<>>
      BY <2>3, SettingsAssumption DEF SettingsAssumption, Rules!StartAssumption
    <3> QED BY <2>1, <3>1
  <2> QED BY <1>3, <2>2, <2>3 DEF Rules!MakeBackup
<1>4. CASE Rules!Restore
  <2>1. PICK opened \in {backup.sealed, FALSE} :
          LET doc == Rules!Prepared(settings, backup, opened)
          IN  IF Rules!Accepted(settings, doc, TRUE) THEN settings' = Rules!Result(settings, doc, TRUE)
                                                     ELSE settings' = settings
    BY <1>4, Zenon DEF Rules!Restore
  <2>2. Kept(settings') BY <2>1, AcceptedIsKept, Zenon
  <2> QED BY <1>4, <2>2 DEF Rules!Restore
<1>5. CASE Rules!Reboot
  <2>1. settings' = settings BY <1>5, StoredComesBack, Zenon DEF Rules!Reboot
  <2> QED BY <1>5, <2>1 DEF Rules!Reboot
<1>6. CASE UNCHANGED rulesVars
  BY <1>6 DEF rulesVars
<1> QED BY <1>1, <1>2, <1>3, <1>4, <1>5, <1>6 DEF Next, OnlyRules, OnlyDeps, vars, Rules!Next
-----------------------------------------------------------------------------
(* The pins of settings that are valid                                     *)

\* Each use of a pin is of one device, and of that device's pins.
LEMMA UsesByDevice ==
    ASSUME NEW c, NEW u \in Rules!Uses(c)
    PROVE  \/ u \in {<<"i2c", "sda", c.sda>>, <<"i2c", "scl", c.scl>>}
           \/ Rules!SecondBus(c) /\ u \in {<<"i2c2", "sda", c.sda2>>, <<"i2c2", "scl", c.scl2>>}
           \/ c.gps /\ u \in {<<"gps", "rx", c.gpsRx>>, <<"gps", "tx", c.gpsTx>>}
           \/ c.rain /\ u \in {<<"rain", "rx", c.rainRx>>, <<"rain", "tx", c.rainTx>>}
           \/ c.wind /\ u = <<"wind", "speed", c.windPin>>
           \/ c.display /\ c.button # Unset /\ u = <<"display", "button", c.button>>
           \/ u[3] # Unset /\ u \in {<<"battery", "alert", c.alertPin>>, <<"battery", "stat1", c.stat1>>,
                                     <<"battery", "stat2", c.stat2>>, <<"battery", "pg", c.pg>>}
BY DEF Rules!Uses

\* The checks together keep the devices apart: the buses that are always
\* looked at, the second bus, the anemometer, the button and the battery.
LEMMA DevicesApart ==
    ASSUME NEW c, Rules!Valid(c)
    PROVE  LET first == Rules!BusPins(c, FALSE)
               buses == Rules!BusPins(c, TRUE)
           IN  /\ {c.sda, c.scl} \subseteq first /\ first \subseteq buses
               /\ c.gps => {c.gpsRx, c.gpsTx} \subseteq first
               /\ c.rain => {c.rainRx, c.rainTx} \subseteq first
               /\ Rules!SecondBus(c) => /\ {c.sda2, c.scl2} \subseteq buses
                                        /\ {c.sda2, c.scl2} \intersect first = {}
               /\ c.wind => c.windPin \notin buses \union Rules!Wired(c)
               /\ c.display /\ c.button # Unset => /\ c.button \notin buses \union Rules!Wired(c)
                                                   /\ c.wind => c.button # c.windPin
               /\ Rules!Wired(c) \intersect buses = {}
<1> DEFINE first == Rules!BusPins(c, FALSE)
           buses == Rules!BusPins(c, TRUE)
           second == IF Rules!SecondBus(c) THEN {c.sda2, c.scl2} ELSE {}
           gps == IF c.gps THEN {c.gpsRx, c.gpsTx} ELSE {}
           rain == IF c.rain THEN {c.rainRx, c.rainTx} ELSE {}
<1>1. first = {c.sda, c.scl} \union {} \union gps \union rain BY Zenon DEF Rules!BusPins
<1>2. buses = {c.sda, c.scl} \union second \union gps \union rain BY Zenon DEF Rules!BusPins
<1> HIDE DEF first, buses
<1>3. Rules!SecondBus(c) => {c.sda2, c.scl2} \intersect first = {}
  BY DEF Rules!SecondBus, Rules!SecondBusValid, Rules!Valid, first
<1>4. c.wind => c.windPin \notin buses \union Rules!Wired(c)
  BY DEF Rules!WindValid, Rules!Valid, buses
<1>5. c.display /\ c.button # Unset => /\ c.button \notin buses \union Rules!Wired(c)
                                       /\ c.wind => c.button # c.windPin
  BY DEF Rules!DisplayValid, Rules!ButtonFree, Rules!Valid, buses
<1>6. Rules!Wired(c) \intersect buses = {}
  BY DEF Rules!BatteryPinsValid, Rules!Valid, buses
<1>7. /\ {c.sda, c.scl} \subseteq first /\ first \subseteq buses
      /\ c.gps => {c.gpsRx, c.gpsTx} \subseteq first
      /\ c.rain => {c.rainRx, c.rainTx} \subseteq first
      /\ Rules!SecondBus(c) => {c.sda2, c.scl2} \subseteq buses
  BY <1>1, <1>2
<1> QED BY <1>3, <1>4, <1>5, <1>6, <1>7, Zenon DEF first, buses

\* One device's own pins differ.
LEMMA OwnPinsDiffer ==
    ASSUME NEW c, Rules!Valid(c)
    PROVE  /\ c.sda # c.scl /\ c.gpsRx # c.gpsTx /\ (c.rain => c.rainRx # c.rainTx)
           /\ Rules!SecondBus(c) => c.sda2 # c.scl2
           /\ c.stat1 # Unset => c.stat1 \notin {c.stat2, c.pg, c.alertPin}
           /\ c.stat2 # Unset => c.stat2 \notin {c.stat1, c.pg, c.alertPin}
           /\ c.pg # Unset => c.pg \notin {c.stat1, c.stat2, c.alertPin}
<1>1. c.sda # c.scl /\ c.gpsRx # c.gpsTx /\ (c.rain => c.rainRx # c.rainTx)
  BY DEF Rules!Valid, Rules!BusesValid
<1>2. Rules!SecondBus(c) => c.sda2 # c.scl2
  BY DEF Rules!Valid, Rules!SecondBus, Rules!SecondBusValid
<1> DEFINE charger == Rules!ChargerPins(c)
           wired == {i \in 1..3 : charger[i] # Unset}
<1>3. charger[1] = c.stat1 /\ charger[2] = c.stat2 /\ charger[3] = c.pg
  BY DEF Rules!ChargerPins
<1>4. /\ \A i, j \in wired : charger[i] = charger[j] => i = j
      /\ c.alertPin # Unset => \A i \in wired : charger[i] # c.alertPin
  BY DEF Rules!Valid, Rules!BatteryPinsValid
<1>5. /\ c.stat1 # Unset <=> 1 \in wired
      /\ c.stat2 # Unset <=> 2 \in wired
      /\ c.pg # Unset <=> 3 \in wired
  BY <1>3
<1> QED BY <1>1, <1>2, <1>3, <1>4, <1>5

\* No two devices that are on share a pin, but for the first I2C bus, GPS and
\* the rain sensor, which are not compared with each other.
LEMMA PinsOnce ==
    ASSUME NEW c, Rules!Valid(c), NEW u \in Rules!Uses(c), NEW v \in Rules!Uses(c), u[3] = v[3]
    PROVE  u = v \/ (u[1] # v[1] /\ {u[1], v[1]} \subseteq {"i2c", "gps", "rain"})
<1> DEFINE first == Rules!BusPins(c, FALSE)
           buses == Rules!BusPins(c, TRUE)
           Of(w) ==
             /\ w[1] \in {"i2c", "gps", "rain", "i2c2", "wind", "display", "battery"}
             /\ w[1] \in {"i2c", "gps", "rain"} => w[3] \in first
             /\ w[1] = "i2c2" => w[3] \in buses /\ w[3] \notin first
             /\ w[1] = "wind" => c.wind /\ w = <<"wind", "speed", c.windPin>>
             /\ w[1] = "display" => c.display /\ c.button # Unset /\ w = <<"display", "button", c.button>>
             /\ w[1] = "battery" => w[3] \in Rules!Wired(c)
<1>0. /\ {c.sda, c.scl} \subseteq first /\ first \subseteq buses
      /\ c.gps => {c.gpsRx, c.gpsTx} \subseteq first
      /\ c.rain => {c.rainRx, c.rainTx} \subseteq first
      /\ Rules!SecondBus(c) => /\ {c.sda2, c.scl2} \subseteq buses
                               /\ {c.sda2, c.scl2} \intersect first = {}
      /\ c.wind => c.windPin \notin buses \union Rules!Wired(c)
      /\ c.display /\ c.button # Unset => /\ c.button \notin buses \union Rules!Wired(c)
                                          /\ c.wind => c.button # c.windPin
      /\ Rules!Wired(c) \intersect buses = {}
  BY DevicesApart, Zenon
<1> HIDE DEF first, buses
<1>1. ASSUME NEW w \in Rules!Uses(c) PROVE Of(w)
  <2>1. CASE w \in {<<"i2c", "sda", c.sda>>, <<"i2c", "scl", c.scl>>}
    BY <1>0, <2>1
  <2>2. CASE Rules!SecondBus(c) /\ w \in {<<"i2c2", "sda", c.sda2>>, <<"i2c2", "scl", c.scl2>>}
    BY <1>0, <2>2
  <2>3. CASE c.gps /\ w \in {<<"gps", "rx", c.gpsRx>>, <<"gps", "tx", c.gpsTx>>}
    BY <1>0, <2>3
  <2>4. CASE c.rain /\ w \in {<<"rain", "rx", c.rainRx>>, <<"rain", "tx", c.rainTx>>}
    BY <1>0, <2>4
  <2>5. CASE c.wind /\ w = <<"wind", "speed", c.windPin>>
    BY <2>5
  <2>6. CASE c.display /\ c.button # Unset /\ w = <<"display", "button", c.button>>
    BY <2>6
  <2>7. CASE w[3] # Unset /\ w \in {<<"battery", "alert", c.alertPin>>, <<"battery", "stat1", c.stat1>>,
                                    <<"battery", "stat2", c.stat2>>, <<"battery", "pg", c.pg>>}
    BY <2>7 DEF Rules!Wired
  <2> QED BY <1>1, <2>1, <2>2, <2>3, <2>4, <2>5, <2>6, <2>7, UsesByDevice, Zenon
<1>2. Of(u) /\ Of(v) BY <1>1
<1>3. CASE u[1] = v[1]
  BY <1>3, UsesByDevice, OwnPinsDiffer
<1>4. CASE u[1] # v[1]
  <2> DEFINE Free == {"i2c", "gps", "rain"}
  <2>1. ASSUME NEW x \in Rules!Uses(c), NEW y \in Rules!Uses(c), x[1] # y[1], x[3] = y[3]
        PROVE  /\ x[1] = "i2c2" => y[1] \notin Free
               /\ x[1] = "wind" => y[1] \notin Free \union {"i2c2"}
               /\ x[1] = "display" => y[1] \notin Free \union {"i2c2", "wind"}
               /\ x[1] = "battery" => y[1] \notin Free \union {"i2c2", "wind", "display"}
    <3>1. Of(x) /\ Of(y) BY <1>1
    <3>2. x[1] = "i2c2" => y[1] \notin Free BY <2>1, <3>1
    <3>3. x[1] = "wind" => y[1] \notin Free \union {"i2c2"} BY <1>0, <2>1, <3>1
    <3>4. x[1] = "display" => y[1] \notin Free \union {"i2c2", "wind"}
      <4> SUFFICES ASSUME x[1] = "display" PROVE y[1] \notin Free \union {"i2c2", "wind"}
        OBVIOUS
      <4>1. x[3] = c.button /\ c.button \notin buses /\ (c.wind => c.button # c.windPin)
        BY <1>0, <3>1
      <4>2. y[3] = c.button BY <2>1, <4>1
      <4>3. y[1] # "wind"
        <5> SUFFICES ASSUME y[1] = "wind" PROVE FALSE
          OBVIOUS
        <5>1. c.wind /\ y[3] = c.windPin BY <3>1
        <5> QED BY <4>1, <4>2, <5>1
      <4>4. y[1] \in Free \union {"i2c2"} => y[3] \in buses BY <1>0, <3>1
      <4> QED BY <4>1, <4>2, <4>3, <4>4
    <3>5. x[1] = "battery" => y[1] \notin Free \union {"i2c2", "wind", "display"}
      <4> SUFFICES ASSUME x[1] = "battery" PROVE y[1] \notin Free \union {"i2c2", "wind", "display"}
        OBVIOUS
      <4>1. x[3] \in Rules!Wired(c) /\ x[3] \notin buses
        BY <1>0, <3>1
      <4> QED BY <1>0, <2>1, <3>1, <4>1
    <3> QED BY <3>2, <3>3, <3>4, <3>5
  <2>2. u[1] \in Free /\ v[1] \in Free
    BY <1>2, <1>4, <2>1
  <2> QED BY <1>4, <2>2
<1> QED BY <1>3, <1>4
-----------------------------------------------------------------------------
(* The theorems about the rules                                            *)

\* Every state is such.
LEMMA RulesAlways == Spec => []RulesInv
<1>1. Init => RulesInv BY RulesStart
<1>2. RulesInv /\ [Next]_vars => RulesInv' BY RulesKeep
<1> QED BY <1>1, <1>2, PTL DEF Spec

\* Settings that are acceptable load again, and share no pin.
LEMMA SoundWhenKept == RulesInv => SettingsAreSound
<1> SUFFICES ASSUME RulesInv PROVE Rules!LoadsAgain /\ Rules!NoPinTwice
  BY DEF SettingsAreSound, Rules!SettingsAreSound
<1>1. Kept(settings) /\ Rules!Valid(settings) BY DEF RulesInv, Kept, Rules!Held
<1>2. Rules!LoadsAgain BY <1>1, StoredComesBack DEF Rules!LoadsAgain
<1>3. Rules!NoPinTwice BY <1>1, PinsOnce, Zenon DEF Rules!NoPinTwice
<1> QED BY <1>2, <1>3

\* The device holds settings it would accept as a whole, and loads them again at
\* the next start, whatever was saved, joined or restored (ConfigValidate,
\* ConfigJsonIn, ConfigStore), and no two devices that are on share a pin.
THEOREM SettingsStaySound == Spec => []SettingsAreSound
BY RulesAlways, SoundWhenKept, PTL

\* What GET shows, and a backup of the device's own, bring back what they were
\* made of.
LEMMA ComesBackWhenKept == RulesInv => ComesBack
<1> SUFFICES ASSUME RulesInv PROVE Rules!ComesBack
  BY DEF ComesBack
<1>1. Kept(settings) BY DEF RulesInv
<1>2. Rules!Result(settings, Rules!Shown(settings), TRUE) = settings
  BY <1>1, ShownComesBack
<1> DEFINE doc == Rules!Prepared(settings, backup, TRUE)
           back == Back(settings, backup)
<1>3. ASSUME backup.sealed, backup.of # <<>>, BluetoothBuild
      PROVE  /\ Rules!Result(settings, doc, TRUE) = back
             /\ \/ Rules!Accepted(settings, doc, TRUE)
                \/ backup.of.ssid = "" /\ settings.ssid # ""
                \/ ~Rules!IncomingValid(backup.of)
  <2>1. OwnBackup(backup) BY <1>3 DEF RulesInv
  <2>2. /\ Rules!Result(settings, doc, TRUE) = back
        /\ Rules!Taken(settings, doc, TRUE) = back
        /\ \A f \in DOMAIN doc : doc[f] # Wrong /\ (doc[f] = Null => f \in Rules!Secrets)
    BY <1>1, <1>3, <2>1, BackupComesBack, Zenon
  <2>3. Kept(back) /\ \A f \in Rules!Fields \ {"windPin"} : back[f] = backup.of[f]
    BY <1>1, <2>1, BackIsKept DEF OwnBackup
  <2> HIDE DEF doc, back
  <2>4. Rules!Valid(back) BY <2>3 DEF Kept, Rules!Held
  <2>5. Rules!IncomingValid(back) = Rules!IncomingValid(backup.of) /\ back.ssid = backup.of.ssid
    <3>1. {"pushover", "pushoverKey", "ssid"} \subseteq Rules!Fields \ {"windPin"}
      BY DEF Rules!Fields, Rules!Switches, Rules!Secrets
    <3>2. back.pushover = backup.of.pushover /\ back.pushoverKey = backup.of.pushoverKey
          /\ back.ssid = backup.of.ssid
      BY <2>3, <3>1
    <3> QED BY <3>2, Zenon DEF Rules!IncomingValid
  <2>6. Rules!WholeNumbers(doc) BY <2>2 DEF Rules!WholeNumbers
  <2>7. ~(backup.of.ssid = "" /\ settings.ssid # "") => Rules!StrictlyTyped(settings, doc)
    BY <2>2, <2>5, Zenon DEF Rules!StrictlyTyped
  <2> QED BY <2>2, <2>4, <2>5, <2>6, <2>7, Zenon DEF Rules!Accepted
<1> QED BY <1>2, <1>3, Zenon DEF Rules!ComesBack, Back

\* What GET shows, sent back, changes nothing, and a backup opened with its
\* passphrase on the device that made it brings every setting back
\* (BackupPreview.cpp, ConfigJsonOut.cpp).
THEOREM BackupsComeBack == Spec => []ComesBack
BY RulesAlways, ComesBackWhenKept, PTL

\* A document changes what it names, but for the order of the time sources
\* and the limit that follows the critical level.
LEMMA DocumentNames ==
    ASSUME NEW c, Kept(c), NEW doc, NEW r, r = Rules!Result(c, doc, TRUE),
           NEW f \in Rules!Fields, r[f] # c[f], NEW n, n = Rules!Named(doc)
    PROVE  \/ f \in n
           \/ f = "secondary" /\ n \intersect {"ntp", "gps", "primary"} # {}
           \/ f = "primary" /\ ~Rules!SourceOn(r, c.primary)
           \/ f = "batteryMin" /\ c.batteryMin = c.critical
<1> DEFINE t == UserTakes(c, doc)
           w == Rules!Followed(c, doc, t)
<1>1. /\ t = [g \in Rules!Fields |-> t[g]]
      /\ \A g \in Rules!Fields : t[g] # c[g] => g \in n
  <2>1. t = [g \in Rules!Fields |-> t[g]] BY Zenon DEF UserTakes, Rules!Taken
  <2> HIDE DEF t
  <2>2. \A g \in Rules!Fields : t[g] # c[g] => g \in Rules!Named(doc) BY TakenNames, Zenon DEF t
  <2> QED BY <2>1, <2>2
<1> HIDE DEF t
<1>2. w = t \/ (w = [t EXCEPT !.batteryMin = t.critical] /\ c.batteryMin = c.critical)
  BY DEF Rules!Followed, Rules!Follows
<1>3. r = Rules!Normalized(w) BY DEF UserTakes, Rules!Result, t, w
<1> HIDE DEF w
<1>4. /\ w = [g \in Rules!Fields |-> w[g]]
      /\ \A g \in Rules!Fields : w[g] = t[g] \/ (g = "batteryMin" /\ c.batteryMin = c.critical)
  BY <1>1, <1>2, FieldNames
<1>5. /\ \A g \in Rules!Fields \ {"primary", "secondary"} : r[g] = w[g]
      /\ Rules!SourceOn(w, w.primary) => r.primary = w.primary
  <2>1. w = [g \in Rules!Fields |-> w[g]] BY <1>4
  <2> QED BY <1>3, <2>1, NormalizedOrders, Zenon
<1>6. CASE f \notin {"primary", "secondary"}
  BY <1>1, <1>4, <1>5, <1>6
<1>7. CASE f = "primary"
  <2> SUFFICES ASSUME "primary" \notin n PROVE ~Rules!SourceOn(r, c.primary)
    BY <1>7
  <2>1. w.primary = c.primary BY <1>1, <1>4, FieldNames
  <2>2. ~Rules!SourceOn(w, c.primary) BY <1>5, <1>7, <2>1
  <2>3. r.ntp = w.ntp /\ r.gps = w.gps BY <1>5, FieldNames
  <2> QED BY <2>2, <2>3 DEF Rules!SourceOn
<1>8. CASE f = "secondary"
  <2> SUFFICES ASSUME n \intersect {"ntp", "gps", "primary", "secondary"} = {} PROVE FALSE
    BY <1>8
  <2>1. w.primary = c.primary /\ w.secondary = c.secondary /\ w.ntp = c.ntp /\ w.gps = c.gps
    BY <1>1, <1>4, FieldNames
  <2>2. Rules!Normalized(c) = c BY DEF Kept, Rules!Held
  <2>3. CASE ~c.ntp /\ ~c.gps
    <3>1. r = w BY <1>3, <2>1, <2>3 DEF Rules!Normalized
    <3> QED BY <1>8, <2>1, <3>1
  <2>4. CASE c.ntp \/ c.gps
    <3> DEFINE primary == IF Rules!SourceOn(c, c.primary) THEN c.primary ELSE Rules!OtherSource(c.primary)
               second == IF c.ntp /\ c.gps THEN Rules!OtherSource(primary) ELSE primary
    <3>1. Rules!Normalized(c) = [c EXCEPT !.primary = primary, !.secondary = second]
      BY <2>4 DEF Rules!Normalized
    <3>2. Rules!SourceOn(w, w.primary) = Rules!SourceOn(c, c.primary)
      BY <2>1, Zenon DEF Rules!SourceOn
    <3>3. Rules!Normalized(w) = [w EXCEPT !.primary = primary, !.secondary = second]
      BY <2>1, <2>4, <3>2 DEF Rules!Normalized
    <3> HIDE DEF primary, second
    <3>4. c.secondary = second BY <2>2, <3>1, FieldNames DEF Kept
    <3>5. r.secondary = second BY <1>3, <1>4, <3>3, FieldNames
    <3> QED BY <1>8, <3>4, <3>5
  <2> QED BY <2>3, <2>4
<1> QED BY <1>6, <1>7, <1>8

\* So does every step: only a document, a network that is joined or a restore
\* changes a setting.
LEMMA RequestNames ==
    RulesInv /\ [Next]_vars =>
      [\A f \in Rules!Fields : settings'[f] # settings[f] =>
          \/ f \in named'
          \/ f = "secondary" /\ named' \intersect {"ntp", "gps", "primary"} # {}
          \/ f = "primary" /\ ~Rules!SourceOn(settings', settings.primary)
          \/ f = "batteryMin" /\ settings.batteryMin = settings.critical]_settings
<1> SUFFICES ASSUME RulesInv, [Next]_vars, NEW f \in Rules!Fields, settings'[f] # settings[f]
             PROVE  \/ f \in named'
                    \/ f = "secondary" /\ named' \intersect {"ntp", "gps", "primary"} # {}
                    \/ f = "primary" /\ ~Rules!SourceOn(settings', settings.primary)
                    \/ f = "batteryMin" /\ settings.batteryMin = settings.critical
  OBVIOUS
<1>0. Kept(settings) BY DEF RulesInv
<1>1. CASE Rules!SetConfig
  <2>1. PICK doc : \/ settings' = settings
                   \/ settings' = Rules!Result(settings, doc, TRUE) /\ named' = Rules!Named(doc)
    BY <1>1, Zenon DEF Rules!SetConfig
  <2> QED BY <1>0, <2>1, DocumentNames
<1>2. CASE Rules!JoinNetwork
  BY <1>0, <1>2 DEF Rules!JoinNetwork, Kept
<1>3. CASE Rules!MakeBackup
  BY <1>3 DEF Rules!MakeBackup
<1>4. CASE Rules!Restore
  <2>1. PICK doc : \/ settings' = settings
                   \/ settings' = Rules!Result(settings, doc, TRUE) /\ named' = Rules!Named(doc)
    BY <1>4, Zenon DEF Rules!Restore
  <2> QED BY <1>0, <2>1, DocumentNames
<1>5. CASE Rules!Reboot
  BY <1>0, <1>5, StoredComesBack, Zenon DEF Rules!Reboot
<1>6. CASE UNCHANGED rulesVars
  BY <1>6 DEF rulesVars
<1> QED BY <1>1, <1>2, <1>3, <1>4, <1>5, <1>6 DEF Next, OnlyRules, OnlyDeps, vars, Rules!Next

\* A request changes what it names, but for the order of the time sources and
\* the limit that follows the critical level (ConfigJsonIn.cpp); a start,
\* nothing.
THEOREM RequestsChangeWhatTheyName == Spec => ChangesWhatItNames
<1> DEFINE Step == \A f \in Rules!Fields : settings'[f] # settings[f] =>
                     \/ f \in named'
                     \/ f = "secondary" /\ named' \intersect {"ntp", "gps", "primary"} # {}
                     \/ f = "primary" /\ ~Rules!SourceOn(settings', settings.primary)
                     \/ f = "batteryMin" /\ settings.batteryMin = settings.critical
<1>1. RulesInv /\ [Next]_vars => [Step]_settings BY RequestNames
<1> QED BY <1>1, RulesAlways, PTL DEF Spec, ChangesWhatItNames, Rules!ChangesWhatItNames
-----------------------------------------------------------------------------
(* What is reported of the settings                                        *)

\* What every state keeps: switches and facts are such.
DepsInv == on \subseteq Deps!Switches /\ facts \subseteq Deps!Facts

\* Every state is such.
LEMMA DepsAlways == Spec => []DepsInv
<1>1. Init => DepsInv
  BY DEF Init, Deps!Init, DepsInv, Deps!Switches
<1>2. DepsInv /\ [Next]_vars => DepsInv'
  <2> SUFFICES ASSUME DepsInv, [Next]_vars PROVE DepsInv'
    OBVIOUS
  <2>1. ASSUME NEW x \in Deps!Switches, Deps!SaveSwitch(x) PROVE DepsInv'
    BY <2>1 DEF Deps!SaveSwitch, Deps!Toggled, DepsInv
  <2>2. ASSUME NEW e \in Events, NEW l \in {0, 1, 4}, Deps!SaveLevel(e, l) PROVE DepsInv'
    BY <2>2 DEF Deps!SaveLevel, DepsInv
  <2>3. ASSUME NEW x \in Deps!Facts, Deps!FactChanges(x) PROVE DepsInv'
    BY <2>3 DEF Deps!FactChanges, Deps!Toggled, DepsInv
  <2>4. CASE Deps!Restart \/ Deps!StartBle
    BY <2>4 DEF Deps!Restart, Deps!StartBle, DepsInv
  <2>5. CASE UNCHANGED depsVars
    BY <2>5 DEF depsVars, DepsInv
  <2> QED BY <2>1, <2>2, <2>3, <2>4, <2>5 DEF Next, OnlyRules, OnlyDeps, vars, Deps!Next
<1> QED BY <1>1, <1>2, PTL DEF Spec

\* There is a first among the needs that are missing.
LEMMA FirstMissing ==
    ASSUME NEW m, m \subseteq {1, 2}, m # {}
    PROVE  \E i \in m : \A j \in m : i <= j
<1>1. CASE 1 \in m BY <1>1
<1>2. CASE 1 \notin m
  <2>1. m = {2} BY <1>2
  <2> QED BY <2>1
<1> QED BY <1>1, <1>2

\* The reason is a need that is missing, if any is: of two, or of one.
LEMMA ReasonOfTwo ==
    ASSUME NEW s, NEW a, NEW b, Deps!Needs(s) = <<a, b>>
    PROVE  IF Deps!Met(a) /\ Deps!Met(b) THEN Deps!Reason(s) = "" ELSE Deps!Reason(s) \in {a, b}
<1> DEFINE needs == Deps!Needs(s)
           missing == {i \in DOMAIN needs : ~Deps!Met(needs[i])}
           first == CHOOSE i \in missing : \A j \in missing : i <= j
<1>1. Deps!Reason(s) = IF missing = {} THEN "" ELSE needs[first]
  BY Zenon DEF Deps!Reason
<1>2. DOMAIN needs = 1..2 /\ needs[1] = a /\ needs[2] = b OBVIOUS
<1> HIDE DEF needs
<1>3. missing \subseteq {1, 2} /\ (missing = {} <=> Deps!Met(a) /\ Deps!Met(b)) BY <1>2
<1> HIDE DEF missing
<1>4. missing # {} => first \in {1, 2}
  <2> SUFFICES ASSUME missing # {} PROVE first \in {1, 2}
    OBVIOUS
  <2>1. \E i \in missing : \A j \in missing : i <= j BY <1>3, FirstMissing
  <2>2. first \in missing BY <2>1, Zenon
  <2> QED BY <1>3, <2>2, Zenon
<1> HIDE DEF first
<1>5. missing # {} => needs[first] \in {a, b} BY <1>2, <1>4
<1> QED BY <1>1, <1>3, <1>5, Zenon

\* What is missing of one need is that need.
LEMMA ReasonOfOne ==
    ASSUME NEW s, NEW a, Deps!Needs(s) = <<a>>
    PROVE  Deps!Reason(s) = IF Deps!Met(a) THEN "" ELSE a
<1> DEFINE needs == Deps!Needs(s)
           missing == {i \in DOMAIN needs : ~Deps!Met(needs[i])}
           first == CHOOSE i \in missing : \A j \in missing : i <= j
<1>1. Deps!Reason(s) = IF missing = {} THEN "" ELSE needs[first]
  BY Zenon DEF Deps!Reason
<1>2. DOMAIN needs = 1..1 /\ needs[1] = a OBVIOUS
<1> HIDE DEF needs
<1>3. missing \subseteq {1} /\ (missing = {} <=> Deps!Met(a)) BY <1>2
<1> HIDE DEF missing
<1>4. missing # {} => first = 1
  <2> SUFFICES ASSUME missing # {} PROVE first = 1
    OBVIOUS
  <2>1. missing \subseteq {1, 2} BY <1>3
  <2>2. \E i \in missing : \A j \in missing : i <= j BY <2>1, FirstMissing
  <2>3. first \in missing BY <2>2, Zenon
  <2> QED BY <1>3, <2>3, Zenon
<1> HIDE DEF first
<1> QED BY <1>1, <1>2, <1>3, <1>4, Zenon

\* A setting is in effect when it is on and nothing is missing.
LEMMA StateOf ==
    ASSUME NEW s
    PROVE  /\ Deps!State(s) = "active" <=> Deps!OwnSwitch(s) /\ Deps!Reason(s) = ""
           /\ Deps!State(s) = "inactive" <=> Deps!OwnSwitch(s) /\ Deps!Reason(s) # ""
<1>1. CASE ~Deps!OwnSwitch(s) BY <1>1 DEF Deps!State
<1>2. CASE Deps!OwnSwitch(s) /\ Deps!Reason(s) = "" BY <1>2 DEF Deps!State
<1>3. CASE Deps!OwnSwitch(s) /\ Deps!Reason(s) # "" BY <1>3 DEF Deps!State
<1> QED BY <1>1, <1>2, <1>3

\* What one need asks for.
LEMMA MetMeans ==
    ASSUME DepsInv
    PROVE  /\ Deps!Met("alerts") <=> "alerts" \in on
           /\ Deps!Met("waking") <=> "alerts" \in on \/ Deps!PhonesRing
           /\ Deps!Met("alerting") <=> "alerts" \in on \/ Deps!PhonesRing
           /\ \A need \in {"rain", "wind", "alpaca"} : Deps!Met(need) <=> need \in on
           /\ \A need \in {"environment", "infrared", "light", "gauge"} : Deps!Met(need) <=> need \in facts
<1>1. Deps!Met("waking") <=> "alerts" \in on \/ Deps!PhonesRing BY DEF Deps!Met
<1>2. Deps!Met("alerting") <=> "alerts" \in on \/ Deps!PhonesRing BY DEF Deps!Met
<1>3. ASSUME NEW need \in {"alerts", "rain", "wind", "alpaca", "environment", "infrared", "light", "gauge"}
      PROVE  Deps!Met(need) <=> need \in on \union facts
  BY DEF Deps!Met
<1>4. {"alerts", "rain", "wind", "alpaca"} \intersect facts = {}
  BY DEF DepsInv, Deps!Facts
<1>5. {"environment", "infrared", "light", "gauge"} \intersect on = {}
  BY DEF DepsInv, Deps!Switches, Deps!Rules
<1> QED BY <1>1, <1>2, <1>3, <1>4, <1>5

\* An event is in effect just when one that arises is told to someone.
LEMMA EventReported == DepsInv => Deps!EventsAsReported
<1> SUFFICES ASSUME DepsInv, Deps!BluetoothIsAsSaved, NEW e \in Events
             PROVE  (Deps!State(e) = "active") <=> Deps!IsTold(e)
  BY DEF Deps!EventsAsReported
<1> DEFINE alerting == IF level[e] = 4 THEN "waking" ELSE "alerts"
<1>1. Deps!PhonesRing <=> Deps!Rings
  BY DEF Deps!PhonesRing, Deps!Rings, Deps!BluetoothIsAsSaved
<1>2. /\ alerting \in {"waking", "alerts"}
      /\ Deps!Met(alerting) <=> "alerts" \in on \/ (level[e] = 4 /\ Deps!Rings)
  <2>1. CASE level[e] = 4 BY <1>1, <2>1, MetMeans
  <2>2. CASE level[e] # 4 BY <2>2, MetMeans
  <2> QED BY <2>1, <2>2
<1>3. Deps!OwnSwitch(e) <=> level[e] # 0 BY DEF Deps!OwnSwitch
<1>4. Deps!Needs(e) = Deps!EventNeeds(e)
  BY SettingsAssumption
     DEF SettingsAssumption, Deps!DepsAssumption, Deps!Needs, Deps!Options, Deps!Rules
<1> HIDE DEF alerting
<1>5. ASSUME NEW src \in {"rain", "environment", "infrared", "alpaca", "gauge"},
             Deps!Needs(e) = <<alerting, src>>
      PROVE  Deps!Reason(e) = "" <=> Deps!Met(alerting) /\ Deps!Met(src)
  <2>1. IF Deps!Met(alerting) /\ Deps!Met(src) THEN Deps!Reason(e) = ""
                                               ELSE Deps!Reason(e) \in {alerting, src}
    BY <1>5, ReasonOfTwo, Zenon
  <2> QED BY <1>2, <2>1
<1>6. Deps!Reason(e) = "" <=> Deps!Met(alerting) /\ Deps!Arises(e)
  <2>1. CASE e = "rainStarted"
    <3>1. Deps!Needs(e) = <<alerting, "rain">> BY <1>4, <2>1 DEF Deps!EventNeeds, alerting
    <3>2. Deps!Arises(e) <=> Deps!Met("rain") BY <2>1, MetMeans DEF Deps!Arises
    <3> QED BY <1>5, <3>1, <3>2
  <2>2. CASE e = "dewRisk"
    <3>1. Deps!Needs(e) = <<alerting, "environment">> BY <1>4, <2>2 DEF Deps!EventNeeds, alerting
    <3>2. Deps!Arises(e) <=> Deps!Met("environment") BY <2>2, MetMeans DEF Deps!Arises
    <3> QED BY <1>5, <3>1, <3>2
  <2>3. CASE e = "clearSky"
    <3>1. Deps!Needs(e) = <<alerting, "infrared">> BY <1>4, <2>3 DEF Deps!EventNeeds, alerting
    <3>2. Deps!Arises(e) <=> Deps!Met("infrared") BY <2>3, MetMeans DEF Deps!Arises
    <3> QED BY <1>5, <3>1, <3>2
  <2>4. CASE e = "clientLost"
    <3>1. Deps!Needs(e) = <<alerting, "alpaca">> BY <1>4, <2>4 DEF Deps!EventNeeds, alerting
    <3>2. Deps!Arises(e) <=> Deps!Met("alpaca") BY <2>4, MetMeans DEF Deps!Arises
    <3> QED BY <1>5, <3>1, <3>2
  <2>5. CASE e = "batteryLow"
    <3>1. Deps!Needs(e) = <<alerting, "gauge">> BY <1>4, <2>5 DEF Deps!EventNeeds, alerting
    <3>2. Deps!Arises(e) <=> Deps!Met("gauge") BY <2>5, MetMeans DEF Deps!Arises
    <3> QED BY <1>5, <3>1, <3>2
  <2>6. CASE e \notin {"rainStarted", "dewRisk", "clearSky", "clientLost", "batteryLow"}
    <3>1. Deps!Needs(e) = <<alerting>> BY <1>4, <2>6 DEF Deps!EventNeeds, alerting
    <3>2. Deps!Arises(e) BY <2>6 DEF Deps!Arises
    <3> QED BY <1>2, <3>1, <3>2, ReasonOfOne
  <2> QED BY <2>1, <2>2, <2>3, <2>4, <2>5, <2>6
<1> QED BY <1>2, <1>3, <1>6, StateOf DEF Deps!IsTold

\* What one rule needs is its sensor.
RuleNeed(r) ==
    CASE r \in {"rainUnsafe", "rainSensorRequired"} -> "rain"
      [] r = "windSpeedUnsafe" -> "wind"
      [] r = "cloudCover" -> "infrared"
      [] r = "sqmMin" -> "light"
      [] r = "humidityMax" -> "environment"
      [] r = "batteryRule" -> "gauge"

\* A rule reported inactive has its reason among those of the verdict, or is one
\* of those not in effect, and gives none.
LEMMA RuleReported == DepsInv => Deps!RulesAsReported
<1> SUFFICES ASSUME DepsInv PROVE Deps!RulesAsReported
  OBVIOUS
<1>1. ASSUME NEW r \in Deps!Rules, r \in on, Deps!State(r) = "inactive"
      PROVE  IF Deps!Unmet(r) = "failSafe" THEN Deps!ReasonsOf(r) # {}
             ELSE /\ r \in Deps!RulesNotInEffect
                  /\ \A raining, healthy \in BOOLEAN : Deps!RainReasons(raining, healthy) = {}
  <2>1. r \notin Events
    BY SettingsAssumption DEF SettingsAssumption, Deps!DepsAssumption
  <2>2. Deps!Needs(r) = <<RuleNeed(r)>> /\ RuleNeed(r) # ""
    <3>1. CASE r \in {"rainUnsafe", "rainSensorRequired"} BY <2>1, <3>1 DEF Deps!Needs, RuleNeed
    <3>2. CASE r = "windSpeedUnsafe" BY <2>1, <3>2 DEF Deps!Needs, RuleNeed
    <3>3. CASE r = "cloudCover" BY <2>1, <3>3 DEF Deps!Needs, RuleNeed
    <3>4. CASE r = "sqmMin" BY <2>1, <3>4 DEF Deps!Needs, RuleNeed
    <3>5. CASE r = "humidityMax" BY <2>1, <3>5 DEF Deps!Needs, RuleNeed
    <3>6. CASE r = "batteryRule" BY <2>1, <3>6 DEF Deps!Needs, RuleNeed
    <3> QED BY <3>1, <3>2, <3>3, <3>4, <3>5, <3>6 DEF Deps!Rules
  <2>3. ~Deps!Met(RuleNeed(r)) BY <1>1, <2>2, ReasonOfOne, StateOf
  <2>4. CASE r \in {"rainUnsafe", "rainSensorRequired"}
    <3>1. "rain" \notin on BY <2>3, <2>4, MetMeans DEF RuleNeed
    <3>2. \A raining, healthy \in BOOLEAN : Deps!RainReasons(raining, healthy) = {}
      BY <3>1, Zenon DEF Deps!RainReasons
    <3>3. r \in Deps!RulesNotInEffect BY <1>1, <2>4, <3>1 DEF Deps!RulesNotInEffect
    <3>4. Deps!Unmet(r) = "inactive" BY <2>4 DEF Deps!Unmet
    <3> QED BY <3>2, <3>3, <3>4
  <2>5. CASE r = "windSpeedUnsafe"
    <3>1. "wind" \notin on BY <2>3, <2>5, MetMeans DEF RuleNeed
    <3>2. "windFault" \in Deps!ReasonsOf(r) BY <1>1, <2>5, <3>1 DEF Deps!ReasonsOf, Deps!WindReasons
    <3> QED BY <2>5, <3>2 DEF Deps!Unmet
  <2>6. CASE r = "cloudCover"
    <3>1. "infrared" \notin facts BY <2>3, <2>6, MetMeans DEF RuleNeed
    <3>2. "infrared" \in Deps!ReasonsOf(r) BY <2>6, <3>1 DEF Deps!ReasonsOf, Deps!SkyFaults
    <3> QED BY <2>6, <3>2 DEF Deps!Unmet
  <2>7. CASE r = "sqmMin"
    <3>1. "light" \notin facts BY <2>3, <2>7, MetMeans DEF RuleNeed
    <3>2. "light" \in Deps!ReasonsOf(r) BY <2>7, <3>1 DEF Deps!ReasonsOf, Deps!SkyFaults
    <3> QED BY <2>7, <3>2 DEF Deps!Unmet
  <2>8. CASE r = "humidityMax"
    <3>1. "environment" \notin facts BY <2>3, <2>8, MetMeans DEF RuleNeed
    <3>2. "environmentFault" \in Deps!ReasonsOf(r)
      BY <1>1, <2>8, <3>1 DEF Deps!ReasonsOf, Deps!EnvironmentReasons
    <3> QED BY <2>8, <3>2 DEF Deps!Unmet
  <2>9. CASE r = "batteryRule"
    <3>1. "gauge" \notin facts BY <2>3, <2>9, MetMeans DEF RuleNeed
    <3>2. "batteryData" \in Deps!ReasonsOf(r) BY <1>1, <2>9, <3>1 DEF Deps!ReasonsOf, Deps!BatteryReasons
    <3> QED BY <2>9, <3>2 DEF Deps!Unmet
  <2> QED BY <2>4, <2>5, <2>6, <2>7, <2>8, <2>9 DEF Deps!Rules
<1>2. "alerts" \in on => ((Deps!State("whileConnected") = "active") <=> Deps!WaitsForApp)
  <2>1. "whileConnected" \notin Events
    BY SettingsAssumption DEF SettingsAssumption, Deps!DepsAssumption, Deps!Options
  <2>2. Deps!Needs("whileConnected") = <<"alerting", "alpaca">> BY <2>1 DEF Deps!Needs
  <2>3. Deps!OwnSwitch("whileConnected") <=> "whileConnected" \in on BY <2>1 DEF Deps!OwnSwitch
  <2>4. Deps!Reason("whileConnected") = "" <=> Deps!Met("alerting") /\ Deps!Met("alpaca")
    <3>1. IF Deps!Met("alerting") /\ Deps!Met("alpaca") THEN Deps!Reason("whileConnected") = ""
          ELSE Deps!Reason("whileConnected") \in {"alerting", "alpaca"}
      BY <2>2, ReasonOfTwo, Zenon
    <3> QED BY <3>1
  <2>5. Deps!State("whileConnected") = "active"
          <=> "whileConnected" \in on /\ Deps!Met("alerting") /\ Deps!Met("alpaca")
    BY <2>3, <2>4, StateOf
  <2> QED BY <2>5, MetMeans DEF Deps!WaitsForApp
<1> QED BY <1>1, <1>2 DEF Deps!RulesAsReported

\* What the settings page says of a rule or an event is what it does, whatever
\* is switched, found, lost or restarted, and however many events there are
\* (SettingsDeps.cpp against the alert pass and SafetyEvaluator).
THEOREM ReportStaysTrue == Spec => []ReportIsTrue
<1>1. DepsInv => ReportIsTrue
  BY EventReported, RuleReported DEF ReportIsTrue, Deps!ReportIsTrue
<1> QED BY <1>1, DepsAlways, PTL
-----------------------------------------------------------------------------
(* The language file                                                       *)

\* What every state of the language file keeps: who is at work on which
\* language, and the parts of what is on disk.
LanguageTypes ==
    /\ lapse \in BOOLEAN
    /\ disk = [file |-> disk.file, temp |-> disk.temp, meta |-> disk.meta, marker |-> disk.marker]
    /\ chosen \in Codes \union {English} /\ web \in Codes \union {English, None}
    /\ starting = [c \in {"web", "loop"} |-> starting[c]]
    /\ \A c \in {"web", "loop"} : starting[c] # NoStart => starting[c].code \in Codes
    /\ task \in [Downloads -> [at : {"idle", "begin", "session", "fetch", "rename", "describe", "end"},
                               code : Codes \union {None}]]
    /\ \A t \in Downloads : Busy(t) => task[t].code \in Codes
    /\ upload # NoUpload => upload.pack.code \in Codes

\* While no two wrote at once and no restart came within an installation, there
\* is one writer, and what it goes to install is what it will describe.
OneWriter ==
    \A t \in Downloads : Busy(t) => upload = NoUpload /\ \A d \in Downloads \ {t} : ~Busy(d)

\* What is about to be installed, or described, is what was fetched or sent.
Ready ==
    /\ \A t \in Downloads : task[t].at = "rename" => disk.temp = Pack(task[t].code)
    /\ \A t \in Downloads : task[t].at = "describe" => disk.file = Pack(task[t].code)
    /\ upload # NoUpload => disk.temp = upload.pack

\* Between installing a pack and describing it the file is ahead of its
\* description, and at no other time.
Described ==
    disk.meta # NoPack /\ (\A t \in Downloads : task[t].at # "describe") => disk.file = disk.meta

\* The parts together; two that wrote at once, a restart within an installation
\* and a description not written are the lapse the promise leaves out.
LanguageInv == LanguageTypes /\ (~lapse => OneWriter /\ Ready /\ Described)

\* Nothing is installed, and nobody is at work.
LEMMA LanguageStart == LanguageInit => LanguageInv
<1> SUFFICES ASSUME LanguageInit PROVE LanguageInv
  OBVIOUS
<1>1. disk.file = NoPack /\ disk.temp = NoPack /\ disk.meta = NoPack
      /\ disk = [file |-> disk.file, temp |-> disk.temp, meta |-> disk.meta, marker |-> disk.marker]
  BY Zenon DEF LanguageInit, Emptied
<1>2. \A t \in Downloads : task[t] = Idle /\ task[t].at = "idle" BY DEF LanguageInit, Idle
<1>3. LanguageTypes
  BY <1>1, <1>2 DEF LanguageInit, LanguageTypes, Idle, Busy
<1>4. OneWriter /\ Ready /\ Described
  BY <1>1, <1>2 DEF LanguageInit, OneWriter, Ready, Described, Busy
<1> QED BY <1>3, <1>4 DEF LanguageInv

\* A pack of a language is one.
LEMMA PackIsOne == \A code \in Codes : \A version : [code |-> code, version |-> version] # NoPack
BY LanguageAssumption DEF LanguageAssumption, NoPack

\* What acting on a choice does: at most the files are removed, by one who is
\* then alone with them, and a download is let through for a language.
LEMMA ChangeEffects ==
    ASSUME LanguageInv, NEW caller \in {"web", "loop"}, NEW code \in Codes \union {English},
           NEW kept, LanguageChanged(caller, code, kept)
    PROVE  /\ disk' = disk \/ (disk' = Emptied /\ (lapse' \/ ~Writing(caller)))
           /\ lapse' \in BOOLEAN /\ (lapse => lapse')
           /\ starting' = [c \in {"web", "loop"} |-> starting'[c]]
           /\ \A c \in {"web", "loop"} : starting'[c] # NoStart => starting'[c].code \in Codes
<1> DEFINE action == ChangeAction(code)
<1>1. /\ disk' = IF action = "remove" THEN Emptied ELSE disk
      /\ lapse' = (lapse \/ Starting(caller) \/ (action = "remove" /\ Writing(caller)))
  BY Zenon DEF LanguageChanged
<1>2. action \in {"after", "remove", "use", "download"} /\ (action = "download" => code # English)
  BY DEF ChangeAction
<1>3. /\ action \in {"after", "remove", "use"} => starting' = starting
      /\ action = "download" => StartDownload(caller, code, "change")
  BY <1>2 DEF LanguageChanged
<1>4. action = "download" =>
        starting' = starting \/ starting' = [starting EXCEPT ![caller] = [code |-> code, by |-> "change"]]
  BY <1>3 DEF StartDownload
<1> HIDE DEF action
<1>5. /\ starting' = [c \in {"web", "loop"} |-> starting'[c]]
      /\ \A c \in {"web", "loop"} : starting'[c] # NoStart => starting'[c].code \in Codes
  <2>1. CASE starting' = starting BY <2>1 DEF LanguageInv, LanguageTypes
  <2>2. CASE /\ action = "download"
             /\ starting' = [starting EXCEPT ![caller] = [code |-> code, by |-> "change"]]
    BY <1>2, <2>2 DEF LanguageInv, LanguageTypes
  <2> QED BY <1>2, <1>3, <1>4, <2>1, <2>2
<1>6. lapse' \in BOOLEAN /\ (lapse => lapse') BY <1>1, Zenon
<1>7. disk' = disk \/ (disk' = Emptied /\ (lapse' \/ ~Writing(caller))) BY <1>1, Zenon
<1> QED BY <1>5, <1>6, <1>7

\* Removed files are described, if nobody writes them.
LEMMA ChangeKeeps ==
    ASSUME LanguageInv, NEW caller \in {"web", "loop"},
           disk' = disk \/ (disk' = Emptied /\ (lapse' \/ ~Writing(caller))),
           lapse' \in BOOLEAN, lapse => lapse',
           UNCHANGED <<chosen, firmware, task, upload>>, web' \in Codes \union {English, None},
           starting' = [c \in {"web", "loop"} |-> starting'[c]],
           \A c \in {"web", "loop"} : starting'[c] # NoStart => starting'[c].code \in Codes
    PROVE  LanguageInv'
<1>1. CASE disk' = disk
  BY <1>1 DEF LanguageInv, LanguageTypes, OneWriter, Ready, Described, Busy, Pack
<1>2. CASE disk' = Emptied /\ (lapse' \/ ~Writing(caller))
  <2>1. /\ disk'.file = NoPack /\ disk'.meta = NoPack
        /\ disk' = [file |-> disk'.file, temp |-> disk'.temp, meta |-> disk'.meta, marker |-> disk'.marker]
    BY <1>2, Zenon DEF Emptied
  <2>2. LanguageTypes' BY <2>1 DEF LanguageInv, LanguageTypes, Busy
  <2>3. ASSUME ~lapse' PROVE (OneWriter /\ Ready /\ Described)'
    <3>1. upload = NoUpload /\ \A t \in Downloads : ~Busy(t) BY <1>2, <2>3 DEF Writing
    <3>2. \A t \in Downloads : task'[t].at = "idle" BY <3>1 DEF Busy
    <3> QED BY <2>1, <3>1, <3>2 DEF OneWriter, Ready, Described, Busy
  <2> QED BY <2>2, <2>3 DEF LanguageInv
<1> QED BY <1>1, <1>2
\* A step of one who writes no file but the marker.
LEMMA FilesKeep ==
    ASSUME LanguageInv,
           disk' = [file |-> disk'.file, temp |-> disk'.temp, meta |-> disk'.meta, marker |-> disk'.marker],
           disk'.file = disk.file, disk'.temp = disk.temp, disk'.meta = disk.meta,
           UNCHANGED <<firmware, task, upload>>,
           chosen' \in Codes \union {English}, web' \in Codes \union {English, None},
           lapse' \in BOOLEAN, lapse => lapse',
           starting' = [c \in {"web", "loop"} |-> starting'[c]],
           \A c \in {"web", "loop"} : starting'[c] # NoStart => starting'[c].code \in Codes
    PROVE  LanguageInv'
BY DEF LanguageInv, LanguageTypes, OneWriter, Ready, Described, Busy, Pack

\* The marker is no part of what is described.
LEMMA MarkerOnly ==
    ASSUME LanguageInv, NEW mark, disk' = [disk EXCEPT !.marker = mark]
    PROVE  /\ disk' = [file |-> disk'.file, temp |-> disk'.temp, meta |-> disk'.meta, marker |-> disk'.marker]
           /\ disk'.file = disk.file /\ disk'.temp = disk.temp /\ disk'.meta = disk.meta
BY DEF LanguageInv, LanguageTypes

\* A download begins when nobody else writes, or it is the lapse.
LEMMA StartKeeps ==
    ASSUME LanguageInv, NEW caller \in {"web", "loop"}, Create(caller)
    PROVE  LanguageInv'
<1>1. /\ starting[caller].code \in Codes
      /\ starting' = [c \in {"web", "loop"} |-> starting'[c]]
      /\ \A c \in {"web", "loop"} : starting'[c] # NoStart => starting'[c].code \in Codes
  BY DEF Create, LanguageInv, LanguageTypes
<1>2. /\ UNCHANGED <<chosen, firmware, disk, web, upload>>
      /\ (lapse' <=> lapse \/ Writing(caller)) /\ lapse' \in BOOLEAN
  BY Zenon DEF Create
<1>3. task' = task \/ \E t \in Downloads :
        ~Busy(t) /\ task' = [task EXCEPT ![t] = [at |-> "begin", code |-> starting[caller].code]]
  BY Zenon DEF Create
<1>4. CASE task' = task
  BY <1>1, <1>2, <1>4, FilesKeep DEF LanguageInv, LanguageTypes
<1>5. ASSUME NEW t \in Downloads, ~Busy(t),
             task' = [task EXCEPT ![t] = [at |-> "begin", code |-> starting[caller].code]]
      PROVE  LanguageInv'
  <2>1. /\ task' \in [Downloads -> [at : {"idle", "begin", "session", "fetch", "rename", "describe", "end"},
                                    code : Codes \union {None}]]
        /\ task'[t].at = "begin" /\ task'[t].code \in Codes /\ \A d \in Downloads \ {t} : task'[d] = task[d]
    BY <1>1, <1>5 DEF LanguageInv, LanguageTypes
  <2>2. LanguageTypes' BY <1>1, <1>2, <2>1 DEF LanguageInv, LanguageTypes, Busy
  <2>3. ASSUME ~lapse' PROVE (OneWriter /\ Ready /\ Described)'
    <3>1. ~lapse /\ upload = NoUpload /\ \A d \in Downloads : ~Busy(d)
      BY <1>2, <2>3 DEF Writing
    <3>2. \A d \in Downloads : task[d].at = "idle" BY <3>1 DEF Busy
    <3>3. disk.meta # NoPack => disk.file = disk.meta
      BY <3>1, <3>2 DEF LanguageInv, Described
    <3>4. \A d \in Downloads : task'[d].at \notin {"rename", "describe"}
      BY <2>1, <3>2
    <3> QED BY <1>2, <2>1, <3>1, <3>2, <3>3, <3>4 DEF OneWriter, Ready, Described, Busy
  <2> QED BY <2>2, <2>3 DEF LanguageInv
<1> QED BY <1>3, <1>4, <1>5

\* An upload is alone with the temporary file, or the ghost says so; what it
\* installs is what it wrote.
LEMMA UploadKeeps ==
    ASSUME LanguageInv, UploadChunks \/ UploadDone
    PROVE  LanguageInv'
<1>1. CASE UploadChunks
  <2>1. PICK code \in Codes, version \in Versions, error \in BOOLEAN :
          /\ disk' = [disk EXCEPT !.temp = [code |-> code, version |-> version]]
          /\ upload' = [pack |-> [code |-> code, version |-> version], error |-> error]
    BY <1>1, Zenon DEF UploadChunks
  <2>2. /\ UNCHANGED <<chosen, firmware, web, starting, task>> /\ upload = NoUpload
        /\ (lapse' <=> lapse \/ Writing("web")) /\ lapse' \in BOOLEAN
    BY <1>1, Zenon DEF UploadChunks
  <2>3. /\ disk' = [file |-> disk'.file, temp |-> disk'.temp, meta |-> disk'.meta, marker |-> disk'.marker]
        /\ disk'.temp = [code |-> code, version |-> version]
        /\ disk'.file = disk.file /\ disk'.meta = disk.meta
    BY <2>1 DEF LanguageInv, LanguageTypes
  <2>4. upload'.pack = [code |-> code, version |-> version] BY <2>1, Zenon
  <2>5. upload'.pack.code \in Codes BY <2>4
  <2>6. LanguageTypes' BY <2>2, <2>3, <2>5 DEF LanguageInv, LanguageTypes, Busy
  <2>7. ASSUME ~lapse' PROVE (OneWriter /\ Ready /\ Described)'
    <3>1. ~lapse /\ \A d \in Downloads : task[d].at = "idle"
      BY <2>2, <2>7 DEF Writing, Busy
    <3> QED BY <2>2, <2>3, <2>4, <3>1 DEF LanguageInv, OneWriter, Ready, Described, Busy
  <2> QED BY <2>6, <2>7 DEF LanguageInv
<1>2. CASE UploadDone
  <2>1. PICK meta \in {upload.pack, disk.meta} :
          /\ UNCHANGED <<chosen, firmware, web, starting, task>>
          /\ upload # NoUpload /\ upload' = NoUpload
          /\ \/ disk' = [disk EXCEPT !.temp = NoPack] /\ lapse' = lapse
             \/ disk.temp = NoPack /\ disk' = [disk EXCEPT !.file = NoPack] /\ lapse' = lapse
             \/ /\ disk.temp # NoPack /\ lapse' = (lapse \/ meta # upload.pack)
                /\ disk' = [disk EXCEPT !.file = disk.temp, !.meta = meta, !.temp = NoPack]
    BY <1>2, Zenon DEF UploadDone, Installed, MetaAfter
  <2>0. lapse' \in BOOLEAN BY <2>1, Zenon DEF LanguageInv, LanguageTypes
  <2>2. disk' = [file |-> disk'.file, temp |-> disk'.temp, meta |-> disk'.meta, marker |-> disk'.marker]
    BY <2>1 DEF LanguageInv, LanguageTypes
  <2>3. LanguageTypes' BY <2>0, <2>1, <2>2 DEF LanguageInv, LanguageTypes, Busy
  <2>4. ASSUME ~lapse' PROVE (OneWriter /\ Ready /\ Described)'
    <3>0. ~lapse BY <2>1, <2>4, Zenon
    <3>1. ~lapse /\ (\A d \in Downloads : task[d].at = "idle")
      BY <2>1, <3>0 DEF LanguageInv, OneWriter, Busy
    <3>2. disk.temp = upload.pack /\ (disk.meta # NoPack => disk.file = disk.meta)
      BY <2>1, <3>1 DEF LanguageInv, Ready, Described
    <3>3. disk.temp # NoPack
      BY <2>1, <3>2, LanguageAssumption DEF LanguageInv, LanguageTypes, LanguageAssumption, NoPack
    <3>4. disk'.meta # NoPack => disk'.file = disk'.meta
      <4>1. disk.temp # NoPack /\ lapse' = (lapse \/ meta # upload.pack) => meta = upload.pack
        BY <2>4, Zenon
      <4> QED BY <2>1, <4>1, <3>2, <3>3 DEF LanguageInv, LanguageTypes
    <3> QED BY <2>1, <3>1, <3>4 DEF OneWriter, Ready, Described, Busy
  <2> QED BY <2>3, <2>4 DEF LanguageInv
<1> QED BY <1>1, <1>2
\* A download that is alone stays so.
LEMMA DownloadAlone ==
    ASSUME LanguageInv, NEW t \in Downloads, Busy(t), OthersUnchanged,
           lapse' \in BOOLEAN, lapse => lapse',
           disk' = [file |-> disk'.file, temp |-> disk'.temp, meta |-> disk'.meta, marker |-> disk'.marker],
           \/ task' = [task EXCEPT ![t] = Idle]
           \/ \E to \in {"session", "fetch", "rename", "describe", "end"} :
                 task' = [task EXCEPT ![t].at = to]
    PROVE  /\ LanguageTypes'
           /\ task'[t].at # "idle" => task'[t].code = task[t].code /\ task[t].code \in Codes
           /\ ~lapse' => /\ ~lapse /\ upload' = NoUpload /\ OneWriter'
                         /\ \A d \in Downloads \ {t} : task[d].at = "idle" /\ task'[d].at = "idle"
<1>1. UNCHANGED <<chosen, firmware, starting, web, upload>> BY DEF OthersUnchanged
<1>2. /\ task' \in [Downloads -> [at : {"idle", "begin", "session", "fetch", "rename", "describe", "end"},
                                  code : Codes \union {None}]]
      /\ \A d \in Downloads \ {t} : task'[d] = task[d]
      /\ task'[t].at # "idle" => task'[t].code = task[t].code
  BY DEF LanguageInv, LanguageTypes, Idle
<1>3. task[t].code \in Codes BY DEF LanguageInv, LanguageTypes
<1>4. LanguageTypes' BY <1>1, <1>2, <1>3 DEF LanguageInv, LanguageTypes, Busy
<1>5. ASSUME ~lapse'
      PROVE  /\ ~lapse /\ upload' = NoUpload /\ OneWriter'
             /\ \A d \in Downloads \ {t} : task[d].at = "idle" /\ task'[d].at = "idle"
  <2>1. upload = NoUpload /\ \A d \in Downloads \ {t} : ~Busy(d)
    BY <1>1, <1>5 DEF LanguageInv, OneWriter
  <2> QED BY <1>1, <1>2, <1>5, <2>1 DEF OneWriter, Busy
<1> QED BY <1>2, <1>3, <1>4, <1>5

\* What a download installs is what it fetched, and describes.
LEMMA DownloadKeeps ==
    ASSUME LanguageInv, NEW t \in Downloads, TaskStep(t)
    PROVE  LanguageInv'
<1> DEFINE Shape ==
             disk' = [file |-> disk'.file, temp |-> disk'.temp, meta |-> disk'.meta, marker |-> disk'.marker]
           Alone == /\ LanguageTypes'
                    /\ task'[t].at # "idle" => task'[t].code = task[t].code /\ task[t].code \in Codes
                    /\ ~lapse' => /\ ~lapse /\ upload' = NoUpload /\ OneWriter'
                                  /\ \A d \in Downloads \ {t} : task[d].at = "idle" /\ task'[d].at = "idle"
<1>0. OthersUnchanged /\ Busy(t) /\ lapse' \in BOOLEAN /\ (lapse => lapse')
  <2>1. OthersUnchanged /\ Busy(t)
    BY DEF TaskStep, MarkAttempt, AwaitSession, Fetch, Rename, Describe, Ends, Busy, TaskUnchanged
  <2>2. \/ lapse' = lapse
        \/ \E meta \in MetaAfter(Pack(task[t].code)) : lapse' = (lapse \/ meta # Pack(task[t].code))
    BY Zenon DEF TaskStep, MarkAttempt, AwaitSession, Fetch, Rename, Describe, Ends, TaskUnchanged
  <2>3. lapse \in BOOLEAN BY DEF LanguageInv, LanguageTypes
  <2>4. lapse' \in BOOLEAN BY <2>2, <2>3, Zenon
  <2>5. lapse => lapse' BY <2>2, Zenon
  <2> QED BY <2>1, <2>4, <2>5
<1>a. firmware' = firmware BY <1>0 DEF OthersUnchanged
<1>1. CASE MarkAttempt(t) \/ AwaitSession(t)
  <2>1. /\ task[t].at \in {"begin", "session"}
        /\ \E to \in {"session", "fetch", "end"} : task' = [task EXCEPT ![t].at = to]
    BY <1>1 DEF MarkAttempt, AwaitSession, Goes
  <2>2. Shape /\ disk'.file = disk.file /\ disk'.temp = disk.temp /\ disk'.meta = disk.meta
    <3>1. CASE MarkAttempt(t)
      <4>1. \E mark : disk' = [disk EXCEPT !.marker = mark] BY <3>1, Zenon DEF MarkAttempt
      <4> QED BY <4>1, MarkerOnly
    <3>2. CASE AwaitSession(t) BY <3>2 DEF AwaitSession, LanguageInv, LanguageTypes
    <3> QED BY <1>1, <3>1, <3>2
  <2>3. Alone BY <1>0, <2>1, <2>2, DownloadAlone
  <2>4. task'[t].at \in {"session", "fetch", "end"} BY <2>1 DEF LanguageInv, LanguageTypes
  <2>5. ASSUME ~lapse' PROVE (Ready /\ Described)'
    BY <2>1, <2>2, <2>3, <2>4, <2>5 DEF LanguageInv, Ready, Described
  <2> QED BY <2>3, <2>5 DEF LanguageInv
<1>2. CASE Fetch(t)
  <2>1. /\ task[t].at = "fetch" /\ disk' = [disk EXCEPT !.temp = disk'.temp]
        /\ \/ disk'.temp = Pack(task[t].code) /\ task' = [task EXCEPT ![t].at = "rename"]
           \/ task' = [task EXCEPT ![t].at = "end"]
    BY <1>2 DEF Fetch, Goes, LanguageInv, LanguageTypes
  <2>2. Shape /\ disk'.file = disk.file /\ disk'.meta = disk.meta
    BY <2>1 DEF LanguageInv, LanguageTypes
  <2>3. Alone BY <1>0, <2>1, <2>2, DownloadAlone
  <2>4. task'[t].at \in {"rename", "end"} BY <2>1 DEF LanguageInv, LanguageTypes
  <2>5. ASSUME ~lapse' PROVE (Ready /\ Described)'
    <3>1. ~lapse /\ \A d \in Downloads : task[d].at # "describe" /\ task'[d].at # "describe"
      BY <2>1, <2>3, <2>4, <2>5
    <3>2. disk'.meta # NoPack => disk'.file = disk'.meta
      BY <2>2, <3>1 DEF LanguageInv, Described
    <3>3. task'[t].at = "rename" => disk'.temp = Pack(task[t].code)'
      BY <1>a, <2>1, <2>3 DEF Pack, LanguageInv, LanguageTypes
    <3> QED BY <2>3, <2>5, <3>1, <3>2, <3>3 DEF Ready, Described
  <2> QED BY <2>3, <2>5 DEF LanguageInv
<1>3. CASE Rename(t)
  <2>1. /\ task[t].at = "rename" /\ disk' = [disk EXCEPT !.file = disk.temp, !.temp = NoPack]
        /\ IF disk.temp = NoPack THEN task' = [task EXCEPT ![t].at = "end"]
                                  ELSE task' = [task EXCEPT ![t].at = "describe"]
    BY <1>3 DEF Rename, Goes
  <2>2. Shape /\ disk'.file = disk.temp BY <2>1 DEF LanguageInv, LanguageTypes
  <2>3. Alone BY <1>0, <2>1, <2>2, DownloadAlone
  <2>4. ASSUME ~lapse' PROVE (Ready /\ Described)'
    <3>1. disk.temp = Pack(task[t].code) BY <2>1, <2>3, <2>4 DEF LanguageInv, Ready
    <3>2. task[t].code \in Codes BY <1>0 DEF LanguageInv, LanguageTypes
    <3>3. disk.temp # NoPack BY <3>1, <3>2, PackIsOne DEF Pack
    <3>4. task'[t].at = "describe" BY <2>1, <3>3 DEF LanguageInv, LanguageTypes
    <3>5. disk'.file = Pack(task[t].code)' BY <1>a, <2>2, <2>3, <3>1, <3>4 DEF Pack
    <3> QED BY <2>3, <2>4, <3>4, <3>5 DEF Ready, Described
  <2> QED BY <2>3, <2>4 DEF LanguageInv
<1>4. CASE Describe(t)
  <2>1. PICK meta \in MetaAfter(Pack(task[t].code)) :
          /\ task[t].at = "describe" /\ disk' = [disk EXCEPT !.meta = meta]
          /\ lapse' = (lapse \/ meta # Pack(task[t].code))
          /\ task' = [task EXCEPT ![t].at = "end"]
    BY <1>4, Zenon DEF Describe, Goes
  <2>0. meta \in {Pack(task[t].code), disk.meta} BY <2>1 DEF MetaAfter
  <2>2. Shape /\ disk'.file = disk.file /\ disk'.meta = meta
    <3>1. disk = [file |-> disk.file, temp |-> disk.temp, meta |-> disk.meta, marker |-> disk.marker]
      BY DEF LanguageInv, LanguageTypes
    <3> QED BY <2>0, <2>1, <3>1
  <2>3. Alone BY <1>0, <2>1, <2>2, DownloadAlone
  <2>4. task'[t].at = "end" BY <2>1 DEF LanguageInv, LanguageTypes
  <2>5. ASSUME ~lapse' PROVE (Ready /\ Described)'
    <3>1. disk.file = Pack(task[t].code) BY <2>1, <2>3, <2>5 DEF LanguageInv, Ready
    <3>2. meta = Pack(task[t].code) BY <2>1, <2>5, Zenon
    <3> QED BY <2>2, <2>3, <2>4, <2>5, <3>1, <3>2 DEF Ready, Described
  <2> QED BY <2>3, <2>5 DEF LanguageInv
<1>5. CASE Ends(t)
  <2>1. task[t].at = "end" /\ task' = [task EXCEPT ![t] = Idle] BY <1>5 DEF Ends
  <2>2. Shape /\ disk'.file = disk.file /\ disk'.temp = disk.temp /\ disk'.meta = disk.meta
    <3>1. \E mark : disk' = [disk EXCEPT !.marker = mark] BY <1>5, Zenon DEF Ends
    <3> QED BY <3>1, MarkerOnly
  <2>3. Alone BY <1>0, <2>1, <2>2, DownloadAlone
  <2>4. task'[t].at = "idle" BY <2>1 DEF LanguageInv, LanguageTypes, Idle
  <2>5. ASSUME ~lapse' PROVE (Ready /\ Described)'
    BY <2>1, <2>2, <2>3, <2>4, <2>5 DEF LanguageInv, Ready, Described
  <2> QED BY <2>3, <2>5 DEF LanguageInv
<1> QED BY <1>1, <1>2, <1>3, <1>4, <1>5 DEF TaskStep

\* A restart ends every write; within an installation the ghost says so.
LEMMA RestartKeeps == LanguageInv /\ Restart => LanguageInv'
<1> SUFFICES ASSUME LanguageInv, Restart PROVE LanguageInv'
  OBVIOUS
<1>1. /\ starting' = [c \in {"web", "loop"} |-> NoStart] /\ web' = None
      /\ task' = [t \in Downloads |-> Idle] /\ upload' = NoUpload /\ UNCHANGED <<chosen, disk>>
      /\ lapse' = (lapse \/ \E t \in Downloads : task[t].at \in {"rename", "describe"})
  BY DEF Restart
<1>2. \A t \in Downloads : task'[t].at = "idle" BY <1>1 DEF Idle
<1>3. lapse' \in BOOLEAN BY <1>1, Zenon
<1>4. LanguageTypes' BY <1>1, <1>2, <1>3 DEF LanguageInv, LanguageTypes, Busy, Idle
<1>5. ASSUME ~lapse' PROVE (OneWriter /\ Ready /\ Described)'
  <2>1. ~lapse /\ \A t \in Downloads : task[t].at # "describe" BY <1>1, <1>5, Zenon
  <2> QED BY <1>1, <1>2, <2>1 DEF LanguageInv, OneWriter, Ready, Described, Busy
<1> QED BY <1>4, <1>5 DEF LanguageInv

\* Every step keeps it.
LEMMA LanguageKeeps == LanguageInv /\ [LanguageNext]_languageVars => LanguageInv'
<1> SUFFICES ASSUME LanguageInv, [LanguageNext]_languageVars PROVE LanguageInv'
  OBVIOUS
<1>0. LanguageTypes BY DEF LanguageInv
<1>1. CASE Choose
  BY <1>0, <1>1, FilesKeep DEF Choose, LanguageTypes
<1>2. CASE ActOnChoice
  <2>1. web \in Codes \union {English} /\ LanguageChanged("web", web, pending) /\ web' = None
        /\ UNCHANGED <<chosen, firmware, task, upload>>
    BY <1>0, <1>2 DEF ActOnChoice, LanguageTypes
  <2> QED BY <2>1, ChangeEffects, ChangeKeeps
<1>3. CASE Install
  <2>1. /\ chosen \in Codes /\ starting' = [starting EXCEPT !["web"] = [code |-> chosen, by |-> "install"]]
        /\ UNCHANGED <<chosen, firmware, disk, web, task, upload>>
    BY <1>0, <1>3 DEF Install, LanguageTypes
  <2>2. lapse' \in BOOLEAN /\ (lapse => lapse') BY <1>3, Zenon DEF Install
  <2> QED BY <1>0, <2>1, <2>2, FilesKeep DEF LanguageTypes
<1>4. CASE UploadChunks \/ UploadDone
  BY <1>4, UploadKeeps
<1>5. CASE PendingChange
  <2>1. chosen \in Codes \union {English} /\ UNCHANGED <<chosen, firmware, web, task, upload>>
    BY <1>0, <1>5 DEF PendingChange, LanguageTypes
  <2>2. \E kept : LanguageChanged("loop", chosen, kept) BY <1>5, Zenon DEF PendingChange
  <2> QED BY <1>0, <2>1, <2>2, ChangeEffects, ChangeKeeps DEF LanguageTypes
<1>6. CASE RestoreCheck
  <2>1. \E mark : disk' = [disk EXCEPT !.marker = mark] BY <1>6, Zenon DEF RestoreCheck
  <2>2. lapse' \in BOOLEAN /\ (lapse => lapse') BY <1>6, Zenon DEF RestoreCheck
  <2>3. UNCHANGED <<chosen, firmware, web, task, upload>> BY <1>6 DEF RestoreCheck
  <2>4. \/ starting' = starting
        \/ chosen # English /\ starting' = [starting EXCEPT !["loop"] = [code |-> chosen, by |-> "boot"]]
    <3> DEFINE action == BootAction(disk.marker)
    <3>1. action \in {"nothing", "use", "wait", "restore"} /\ (action = "restore" => chosen # English)
      BY DEF BootAction
    <3>2. action = "restore" => StartDownload("loop", chosen, "boot") BY <1>6 DEF RestoreCheck
    <3>3. action \in {"nothing", "use", "wait"} => starting' = starting BY <1>6 DEF RestoreCheck
    <3> HIDE DEF action
    <3> QED BY <3>1, <3>2, <3>3 DEF StartDownload
  <2> QED BY <1>0, <2>1, <2>2, <2>3, <2>4, MarkerOnly, FilesKeep DEF LanguageTypes
<1>7. CASE Create("web") \/ Create("loop")
  BY <1>7, StartKeeps
<1>8. ASSUME NEW t \in Downloads, TaskStep(t) PROVE LanguageInv'
  BY <1>8, DownloadKeeps
<1>9. CASE Restart
  BY <1>9, RestartKeeps
<1>10. CASE UNCHANGED languageVars
  BY <1>0, <1>10, FilesKeep DEF languageVars, LanguageTypes
<1> QED BY <1>1, <1>2, <1>3, <1>4, <1>5, <1>6, <1>7, <1>8, <1>9, <1>10
        DEF LanguageNext, WebStep, LoopStep

\* The language file is what its description says, however many languages,
\* downloads, choices and restarts there are (LanguagePack.cpp).
THEOREM LanguageFileIsDescribed == LanguageSpec => []FileIsDescribed
<1>1. LanguageInit => LanguageInv BY LanguageStart
<1>2. LanguageInv /\ [LanguageNext]_languageVars => LanguageInv' BY LanguageKeeps
<1>3. LanguageInv => FileIsDescribed BY DEF LanguageInv, Described, FileIsDescribed
<1> QED BY <1>1, <1>2, <1>3, PTL DEF LanguageSpec
=============================================================================
