-------------------------- MODULE Warnings_proofs --------------------------
(***************************************************************************)
(* Proofs about the warnings of the device, which run next to each other and *)
(* share nothing: the alerts about conditions with the phone alarm they      *)
(* raise (ConditionAlerts), and the warning before it sleeps on an empty     *)
(* battery (BatteryPower).                                                  *)
(*                                                                          *)
(* For every grace, settle time, cooldown and number of alarms: nothing is   *)
(* announced too early or twice (NothingUndue), and a phone that answers     *)
(* late ends no other alarm (LateAckSpares).  NothingUndue is inductive with *)
(* what the tracker stands for: its cooldown is the time since the last      *)
(* announcement, a change waits only while the condition differs from what   *)
(* was told, and no longer than it has been seen (TrackerTells).             *)
(*                                                                          *)
(* For every warning time, extra time and length of a blocked pass: no sleep  *)
(* without the warning (WarnedBeforeSleep).                                  *)
(* It is inductive with how far a shutdown under way has come (Progress).    *)
(***************************************************************************)
EXTENDS ConditionAlerts, BatteryPower, TLAPS

-----------------------------------------------------------------------------
(* What every state of the alerts keeps                                    *)

\* What a tracker and an alarm may hold.
Trackers == [init : BOOLEAN, notified : BOOLEAN, pending : BOOLEAN, pendingSince : Seconds,
             hasNotified : BOOLEAN, notifiedAt : Seconds]
Alarms == [seq : 0..MaxSeq, level : {"none", "info", "active"}, quiet : 0..Resend]

\* The types of the whole.
EngineTypeOK ==
    /\ kind \in AllKinds /\ levels \in Settings
    /\ now \in Seconds /\ engine \in [started : BOOLEAN, at : Seconds]
    /\ valid \in BOOLEAN /\ dark \in BOOLEAN /\ observed \in BOOLEAN
    /\ tracker \in Trackers /\ ruleBits \subseteq RuleReasons
    /\ told \in BOOLEAN /\ held \in 0..Settle /\ spaced \in 0..Cooldown
    /\ turned \in 0..Longest /\ undue \in BOOLEAN

\* Of what took `age` seconds, fewer than `most`, the stamp is no older, if
\* the seconds have not wrapped meanwhile.
Dated(stamp, age, most, time, turn) ==
    TooEarly(age, most, turn) => stamp <= time /\ time - stamp <= age

\* The time of the last announcement.
Stamped(t, since, time, turn) ==
    IF t.hasNotified THEN Dated(t.notifiedAt, since, Cooldown, time, turn) ELSE since = Cooldown

\* The tracker t, by what was observed, told and held.
Tells(t, seeing, said, steady, since, time, turn) ==
    /\ Stamped(t, since, time, turn)
    /\ t.init => t.notified = said
    /\ t.pending => t.init /\ t.notified # seeing /\ Dated(t.pendingSince, steady, Settle, time, turn)

\* What sync() may be given: a change that waits is the one that is there, or
\* it is taken back now.
MaySync(t, present, said, steady, since, time, turn) ==
    /\ Stamped(t, since, time, turn)
    /\ t.init => t.notified = said
    /\ t.pending => /\ t.init
                    /\ t.notified # present => Dated(t.pendingSince, steady, Settle, time, turn)

\* Whether that is news, whether it is taken silently and what for.
Fits(t, present, allowed, news, afresh, silent, said, taken, steady, since, time, turn) ==
    /\ t \in Trackers /\ steady \in 0..Settle /\ since \in 0..Cooldown
    /\ time \in Seconds /\ turn \in Nat
    /\ {present, allowed, news, afresh, silent, said, taken} \subseteq BOOLEAN
    /\ taken <=> (present /\ ~AnnouncedAtStart)
    /\ news <=> ~(present <=> (said /\ t.init))
    /\ silent <=> (~allowed \/ ~t.init)
    /\ ~afresh
    /\ MaySync(t, present, said, steady, since, time, turn)

\* What a tracker makes of what it sees: result is the tracker and whether it
\* announces; `afresh`, it started anew, `silent`, it took what it saw as told.
Tallies(result, present, news, afresh, silent, said, taken, steady, since, time, turn) ==
    /\ result[1] \in Trackers /\ result[2] \in BOOLEAN
    /\ result[2] => /\ ~TooEarly(since, Cooldown, turn) /\ ~TooEarly(steady, SettleTime, turn) /\ news
                    /\ Tells(result[1], present, present, steady, 0, time, turn)
    /\ ~result[2] /\ afresh => Tells(result[1], present, FALSE, steady, Cooldown, time, turn)
    /\ ~result[2] /\ ~afresh /\ silent => Tells(result[1], present, taken, steady, since, time, turn)
    /\ ~result[2] /\ ~afresh /\ ~silent => Tells(result[1], present, said, steady, since, time, turn)

\* The tracker of the alert that is looked at.
TrackerTells ==
    IF kind = "rule" THEN Stamped(tracker, spaced, now, turned)
    ELSE Tells(tracker, observed, told, held, spaced, now, turned)

\* The inductive invariant: nothing undue, and why.
IInv == EngineTypeOK /\ TrackerTells /\ ~undue

-----------------------------------------------------------------------------
(* Time                                                                    *)

\* A time that is let pass stays in its range and never goes back.
LEMMA LaterTypes ==
    ASSUME NEW most \in Nat, NEW n \in Nat, NEW x \in 0..most
    PROVE  Later(x, n, most) \in 0..most /\ Later(x, n, most) >= x
  BY DEF Later

\* The numbers the constants bound.
LEMMA Numbers ==
    /\ Settle \in Nat \ {0} /\ Cooldown \in Nat \ {0} /\ Longest \in Nat
    /\ Longest >= Settle /\ Longest >= Cooldown
    /\ SecMod \in Nat \ {0} /\ 0 \in Seconds /\ UintMod \in Nat /\ UintMod >= SecMod
    /\ SettleTime \in {0, Settle}
  BY ConditionAssumption DEF ConditionAssumption, Longest, Seconds, SettleTime

\* The seconds, n later.
LEMMA TimeTypes ==
    ASSUME EngineTypeOK, NEW n \in 1..MaxGap
    PROVE  Advanced(n) \in Seconds /\ Turned(n) \in 0..Longest
<1>1. now \in 0..(SecMod - 1) /\ turned \in 0..Longest /\ MaxGap \in 1..SecMod
  BY ConditionAssumption DEF EngineTypeOK, Seconds, ConditionAssumption
<1>2. Later(turned, n, Longest) \in 0..Longest BY <1>1, Numbers, LaterTypes
<1> QED BY <1>1, <1>2, Numbers DEF Advanced, Turned, Seconds

\* A stamp that is right stays right.
LEMMA StaysDated ==
    ASSUME EngineTypeOK, NEW n \in 1..MaxGap, NEW most \in Nat, most <= Longest, NEW age \in 0..most,
           NEW stamp \in Seconds, Dated(stamp, age, most, now, turned)
    PROVE  Dated(stamp, Later(age, n, most), most, Advanced(n), Turned(n))
<1>1. /\ now \in Nat /\ turned \in 0..Longest /\ n \in Nat \ {0} /\ stamp \in Nat
      /\ Longest \in Nat /\ SecMod \in Nat
  BY Numbers, ConditionAssumption DEF EngineTypeOK, Seconds, ConditionAssumption
<1>2. SUFFICES ASSUME TooEarly(Later(age, n, most), most, Turned(n))
               PROVE  stamp <= Advanced(n) /\ Advanced(n) - stamp <= Later(age, n, most)
  BY DEF Dated
<1>3. Later(age, n, most) = age + n /\ age + n < most
  BY <1>1, <1>2 DEF TooEarly, Later
<1>4. now + n < SecMod /\ turned >= age
  BY <1>1, <1>2, <1>3 DEF TooEarly, Turned, Later
<1>5. stamp <= now /\ now - stamp <= age
  BY <1>1, <1>3, <1>4 DEF Dated, TooEarly
<1> QED BY <1>1, <1>3, <1>4, <1>5 DEF Advanced

\* A stamp set now is right, whatever it is to be the stamp of.
LEMMA NowIsDated ==
    ASSUME NEW time \in Seconds, NEW age \in Nat, NEW most, NEW turn
    PROVE  Dated(time, age, most, time, turn)
  BY Numbers DEF Dated, Seconds

\* A right stamp lets nothing pass too early.
LEMMA DatedIsEnough ==
    ASSUME NEW time \in Seconds, NEW stamp \in Seconds, NEW age \in Nat, NEW most \in Nat, NEW turn,
           Dated(stamp, age, most, time, turn), Since(time, stamp) >= most
    PROVE  ~TooEarly(age, most, turn)
<1>1. SUFFICES ASSUME TooEarly(age, most, turn) PROVE FALSE
  OBVIOUS
<1>2. stamp <= time /\ time - stamp <= age BY <1>1 DEF Dated
<1>3. age < most BY <1>1 DEF TooEarly
<1> QED BY <1>2, <1>3 DEF Since, Seconds

\* A tracker after its cooldown.
LEMMA CooledIsEnough ==
    ASSUME NEW t \in Trackers, NEW time \in Seconds, NEW since \in 0..Cooldown, NEW turn,
           Stamped(t, since, time, turn), Cooled(t, time)
    PROVE  ~TooEarly(since, Cooldown, turn)
<1>1. t.notifiedAt \in Seconds /\ since \in Nat /\ Cooldown \in Nat BY Numbers DEF Trackers
<1>2. CASE t.hasNotified
  <2>1. Since(time, t.notifiedAt) >= Cooldown BY <1>2 DEF Cooled
  <2>2. Dated(t.notifiedAt, since, Cooldown, time, turn) BY <1>2 DEF Stamped
  <2> QED BY <1>1, <2>1, <2>2, DatedIsEnough
<1>3. CASE ~t.hasNotified BY <1>1, <1>3 DEF Stamped, TooEarly
<1> QED BY <1>2, <1>3

-----------------------------------------------------------------------------
(* One tracker                                                             *)

\* A tracker not yet used is one.
LEMMA NoTrackerTypes == NoTracker \in Trackers
  BY Numbers DEF NoTracker, Trackers

\* What is left of a tracker when no change waits, or one does.
LEMMA QuietOrWaiting ==
    ASSUME NEW t \in Trackers, NEW time \in Seconds
    PROVE  /\ Quiet(t) \in Trackers /\ Quiet(t).init /\ ~Quiet(t).pending
           /\ Quiet(t).notified = t.notified /\ Quiet(t).hasNotified = t.hasNotified
           /\ Quiet(t).notifiedAt = t.notifiedAt
           /\ Waiting(t, time) \in Trackers /\ Waiting(t, time).pending
           /\ Waiting(t, time).init = t.init /\ Waiting(t, time).notified = t.notified
           /\ Waiting(t, time).hasNotified = t.hasNotified
           /\ Waiting(t, time).notifiedAt = t.notifiedAt
           /\ Waiting(t, time).pendingSince = IF t.pending THEN t.pendingSince ELSE time
<1>1. 0 \in Seconds BY Numbers
<1> HIDE DEF Seconds
<1>2. /\ Quiet(t) \in Trackers /\ Quiet(t).init /\ ~Quiet(t).pending
      /\ Quiet(t).notified = t.notified /\ Quiet(t).hasNotified = t.hasNotified
      /\ Quiet(t).notifiedAt = t.notifiedAt
  BY <1>1 DEF Quiet, Trackers
<1>3. CASE t.pending
  <2>1. Waiting(t, time) = t BY <1>3 DEF Waiting
  <2> QED BY <1>2, <1>3, <2>1
<1>4. CASE ~t.pending
  <2> DEFINE w == [t EXCEPT !.pending = TRUE, !.pendingSince = time]
  <2>1. Waiting(t, time) = w BY <1>4 DEF Waiting
  <2>2. /\ w \in Trackers /\ w.pending /\ w.init = t.init /\ w.notified = t.notified
        /\ w.hasNotified = t.hasNotified /\ w.notifiedAt = t.notifiedAt /\ w.pendingSince = time
    BY DEF Trackers
  <2> HIDE DEF w
  <2> QED BY <1>2, <1>4, <2>1, <2>2
<1> QED BY <1>3, <1>4

\* What is left of a tracker that announced.
LEMMA NotifiedTypes ==
    ASSUME NEW t \in Trackers, NEW time \in Seconds, NEW present \in BOOLEAN
    PROVE  /\ Notified(t, present, time) \in Trackers
           /\ Notified(t, present, time).init = t.init
           /\ Notified(t, present, time).pending = t.pending
           /\ Notified(t, present, time).notified = present
           /\ Notified(t, present, time).hasNotified
           /\ Notified(t, present, time).notifiedAt = time
<1> HIDE DEF Seconds
<1> QED BY DEF Notified, Trackers

\* sync(): what is announced is news, after its cooldown and its settle time;
\* the tracker stands for what was said and seen afterwards.  When alerts of
\* the condition are not allowed yet, or this is its first look, the tracker
\* takes what it sees, and `said` becomes that.
LEMMA SyncedTells ==
    ASSUME NEW t, NEW present, NEW allowed, NEW said, NEW steady, NEW since, NEW time, NEW turn,
           NEW first, NEW news, NEW silent, NEW afresh,
           Fits(t, present, allowed, news, afresh, silent, said, first, steady, since, time, turn)
    PROVE  Tallies(Synced(t, present, allowed, time), present, news, afresh, silent, said, first,
                   steady, since, time, turn)
<1> DEFINE taken   == IF AnnouncedAtStart THEN FALSE ELSE present
           start   == IF t.init /\ allowed THEN t ELSE [Quiet(t) EXCEPT !.notified = taken]
           waiting == Waiting(start, time)
           settled == Quiet(start)
           fresh   == Notified(Quiet(start), present, time)
<1>0. /\ t \in Trackers /\ steady \in 0..Settle /\ since \in 0..Cooldown
      /\ time \in Seconds /\ turn \in Nat
      /\ present \in BOOLEAN /\ allowed \in BOOLEAN /\ news \in BOOLEAN /\ afresh \in BOOLEAN
      /\ silent \in BOOLEAN /\ said \in BOOLEAN /\ first \in BOOLEAN
      /\ first <=> (present /\ ~AnnouncedAtStart)
      /\ news <=> ~(present <=> (said /\ t.init))
      /\ silent <=> (~allowed \/ ~t.init)
      /\ ~afresh
      /\ MaySync(t, present, said, steady, since, time, turn)
  BY DEF Fits
<1>1. taken = first
  <2>1. AnnouncedAtStart \in BOOLEAN BY DEF AnnouncedAtStart
  <2>2. CASE AnnouncedAtStart
    <3>1. taken = FALSE BY <1>0, <2>2
    <3> HIDE DEF taken
    <3>2. first = FALSE BY <1>0, <2>2
    <3> QED BY <1>0, <3>1, <3>2
  <2>3. CASE ~AnnouncedAtStart
    <3>1. taken = present BY <1>0, <2>3
    <3> HIDE DEF taken
    <3>2. first = present BY <1>0, <2>3
    <3> QED BY <1>0, <3>1, <3>2
  <2> QED BY <1>0, <2>1, <2>2, <2>3
<1> HIDE DEF taken
<1>2. /\ start \in Trackers /\ start.init /\ Stamped(start, since, time, turn)
      /\ start.notified = IF t.init /\ allowed THEN said ELSE first
      /\ start.pending => /\ t.init /\ allowed
                          /\ start.notified # present
                               => Dated(start.pendingSince, steady, Settle, time, turn)
  <2>1. CASE t.init /\ allowed
    <3>1. start = t BY <1>0, <2>1
    <3> HIDE DEF start
    <3> QED BY <1>0, <2>1, <3>1 DEF MaySync
  <2>2. CASE ~(t.init /\ allowed)
    <3>1. start = [Quiet(t) EXCEPT !.notified = first] BY <1>0, <1>1, <2>2
    <3> HIDE DEF start
    <3>2. /\ Quiet(t) \in Trackers /\ Quiet(t).init /\ ~Quiet(t).pending
          /\ Quiet(t).hasNotified = t.hasNotified /\ Quiet(t).notifiedAt = t.notifiedAt
      BY <1>0, QuietOrWaiting
    <3>3. /\ start \in Trackers /\ start.init /\ ~start.pending /\ start.notified = first
          /\ start.hasNotified = t.hasNotified /\ start.notifiedAt = t.notifiedAt
      BY <1>0, <3>1, <3>2 DEF Trackers
    <3>4. Stamped(t, since, time, turn) BY <1>0 DEF MaySync
    <3>5. Stamped(start, since, time, turn) BY <1>0, <3>3, <3>4 DEF Stamped
    <3> QED BY <1>0, <2>2, <3>3, <3>5
  <2> QED BY <1>0, <2>1, <2>2
<1> HIDE DEF start
<1>3. /\ waiting \in Trackers /\ waiting.pending /\ waiting.init
      /\ waiting.notified = start.notified /\ waiting.hasNotified = start.hasNotified
      /\ waiting.notifiedAt = start.notifiedAt
      /\ waiting.pendingSince = IF start.pending THEN start.pendingSince ELSE time
      /\ settled \in Trackers /\ ~settled.pending /\ settled.init
      /\ settled.notified = start.notified /\ settled.hasNotified = start.hasNotified
      /\ settled.notifiedAt = start.notifiedAt
  <2>1. start \in Trackers /\ start.init BY <1>0, <1>2
  <2> HIDE DEF start
  <2> QED BY <1>0, <2>1, QuietOrWaiting
<1>4. /\ fresh \in Trackers /\ ~fresh.pending /\ fresh.init /\ fresh.notified = present
      /\ fresh.hasNotified /\ fresh.notifiedAt = time
  <2>1. settled \in Trackers /\ ~settled.pending /\ settled.init BY <1>0, <1>3
  <2>2. fresh = Notified(settled, present, time) OBVIOUS
  <2> HIDE DEF settled, fresh
  <2>3. /\ Notified(settled, present, time) \in Trackers
        /\ Notified(settled, present, time).init = settled.init
        /\ Notified(settled, present, time).pending = settled.pending
        /\ Notified(settled, present, time).notified = present
        /\ Notified(settled, present, time).hasNotified
        /\ Notified(settled, present, time).notifiedAt = time
    BY <1>0, <2>1, NotifiedTypes, Zenon
  <2> QED BY <1>0, <2>1, <2>2, <2>3, Zenon
<1>5. Stamped(waiting, since, time, turn) /\ Stamped(settled, since, time, turn)
  BY <1>0, <1>2, <1>3 DEF Stamped
<1>6. steady \in Nat /\ Settle \in Nat BY <1>0, Numbers
<1>7. start.notified # present => Dated(waiting.pendingSince, steady, Settle, time, turn)
  <2>1. CASE start.pending BY <1>0, <1>2, <1>3, <2>1
  <2>2. CASE ~start.pending
    <3>1. waiting.pendingSince = time BY <1>0, <1>3, <2>2
    <3> QED BY <1>0, <1>6, <3>1, NowIsDated
  <2> QED BY <1>0, <2>1, <2>2
<1> DEFINE result == Synced(t, present, allowed, time)
           early  == Since(time, waiting.pendingSince) < SettleTime \/ ~Cooled(start, time)
<1>8. result = IF ~allowed \/ present = start.notified THEN <<settled, FALSE>>
               ELSE IF early THEN <<waiting, FALSE>> ELSE <<fresh, TRUE>>
  BY Zenon DEF Synced, start, taken
<1> SUFFICES Tallies(result, present, news, afresh, silent, said, first, steady, since, time, turn)
  OBVIOUS
<1>9. ~early => ~(Since(time, waiting.pendingSince) < SettleTime) /\ Cooled(start, time)
  OBVIOUS
<1> HIDE DEF waiting, settled, fresh, result, early
<1>10. (silent => start.notified = first) /\ (~silent => start.notified = said)
  BY <1>0, <1>2
<1>11. CASE ~allowed \/ present = start.notified
  <2>1. result[1] = settled /\ result[2] = FALSE BY <1>0, <1>8, <1>11
  <2>2. Tells(settled, present, start.notified, steady, since, time, turn)
    BY <1>0, <1>3, <1>5 DEF Tells
  <2>3. silent => Tells(settled, present, first, steady, since, time, turn) BY <1>0, <1>10, <2>2
  <2>4. ~silent => Tells(settled, present, said, steady, since, time, turn) BY <1>0, <1>10, <2>2
  <2> QED BY <1>0, <1>3, <2>1, <2>3, <2>4 DEF Tallies
<1>12. CASE ~(~allowed \/ present = start.notified) /\ early
  <2>1. result[1] = waiting /\ result[2] = FALSE BY <1>0, <1>8, <1>12
  <2>2. Tells(waiting, present, start.notified, steady, since, time, turn)
    BY <1>0, <1>3, <1>5, <1>7, <1>12 DEF Tells
  <2>3. silent => Tells(waiting, present, first, steady, since, time, turn) BY <1>0, <1>10, <2>2
  <2>4. ~silent => Tells(waiting, present, said, steady, since, time, turn) BY <1>0, <1>10, <2>2
  <2> QED BY <1>0, <1>3, <2>1, <2>3, <2>4 DEF Tallies
<1>13. CASE ~(~allowed \/ present = start.notified) /\ ~early
  <2>1. result[1] = fresh /\ result[2] = TRUE BY <1>0, <1>8, <1>13
  <2>2. ~TooEarly(since, Cooldown, turn) BY <1>0, <1>2, <1>9, <1>13, CooledIsEnough
  <2>3. ~TooEarly(steady, SettleTime, turn)
    <3>1. CASE SettleTime = 0 BY <1>0, <1>6, <3>1 DEF TooEarly
    <3>2. CASE SettleTime = Settle
      <4>1. waiting.pendingSince \in Seconds BY <1>0, <1>3 DEF Trackers
      <4>2. Since(time, waiting.pendingSince) >= Settle
        <5>1. Since(time, waiting.pendingSince) \in Nat BY <1>0, <4>1, Numbers DEF Since, Seconds
        <5> QED BY <1>0, <1>6, <1>9, <1>13, <3>2, <5>1
      <4> QED BY <1>0, <1>6, <1>7, <1>13, <3>2, <4>1, <4>2, DatedIsEnough
    <3> QED BY <1>0, <3>1, <3>2, Numbers
  <2>4. news BY <1>0, <1>2, <1>13
  <2>5. Dated(time, 0, Cooldown, time, turn) BY <1>0, NowIsDated
  <2>6. Tells(fresh, present, present, steady, 0, time, turn)
    BY <1>0, <1>4, <2>5 DEF Tells, Stamped
  <2> QED BY <1>0, <1>4, <2>1, <2>2, <2>3, <2>4, <2>6 DEF Tallies
<1> QED BY <1>0, <1>11, <1>12, <1>13

-----------------------------------------------------------------------------
(* A pass of the loop task                                                 *)

\* The stamp of the last announcement, at the next pass.
LEMMA StaysStamped ==
    ASSUME EngineTypeOK, NEW n \in 1..MaxGap, Stamped(tracker, spaced, now, turned)
    PROVE  Stamped(tracker, Later(spaced, n, Cooldown), Advanced(n), Turned(n))
<1>1. /\ tracker.notifiedAt \in Seconds /\ spaced \in 0..Cooldown /\ n \in Nat
      /\ Cooldown \in Nat /\ Cooldown <= Longest
  BY Numbers DEF EngineTypeOK, Trackers
<1>2. CASE tracker.hasNotified
  <2>1. Dated(tracker.notifiedAt, spaced, Cooldown, now, turned) BY <1>2 DEF Stamped
  <2>2. Dated(tracker.notifiedAt, Later(spaced, n, Cooldown), Cooldown, Advanced(n), Turned(n))
    BY <1>1, <2>1, StaysDated
  <2> QED BY <1>2, <2>2 DEF Stamped
<1>3. CASE ~tracker.hasNotified BY <1>1, <1>3 DEF Stamped, Later
<1> QED BY <1>2, <1>3

\* The tracker of a condition that is not the battery rule's, after a pass.
LEMMA JudgedTells ==
    ASSUME EngineTypeOK, kind # "rule", Tells(tracker, observed, told, held, spaced, now, turned),
           NEW n \in 1..MaxGap, NEW present \in BOOLEAN, NEW there \in BOOLEAN, NEW night \in BOOLEAN,
           NEW allowed \in BOOLEAN,
           ~there => present = observed,
           NEW steady, steady = IF there /\ present # observed THEN 0 ELSE Later(held, n, Settle),
           NEW since, since = Later(spaced, n, Cooldown),
           NEW time, time = Advanced(n), NEW turn, turn = Turned(n),
           NEW first \in BOOLEAN, (first <=> (present /\ ~AnnouncedAtStart)),
           NEW news \in BOOLEAN, (news <=> ~(present <=> (told /\ tracker.init))),
           NEW afresh \in BOOLEAN,
           (afresh <=> ((kind = "sensor" /\ ~there) \/ (kind = "sky" /\ there /\ ~night))),
           NEW silent \in BOOLEAN, (silent <=> (there /\ (~allowed \/ ~tracker.init)))
    PROVE  Tallies(Judged(tracker, present, there, night, allowed, time), present,
                   news, afresh, silent, told, first, steady, since, time, turn)
<1> DEFINE result == Judged(tracker, present, there, night, allowed, time)
<1>1. /\ tracker \in Trackers /\ observed \in BOOLEAN /\ told \in BOOLEAN
      /\ held \in 0..Settle /\ spaced \in 0..Cooldown /\ n \in Nat
  BY DEF EngineTypeOK
<1>2. steady \in 0..Settle /\ since \in 0..Cooldown
  <2>1. Later(held, n, Settle) \in 0..Settle /\ Later(spaced, n, Cooldown) \in 0..Cooldown
    BY <1>1, LaterTypes, Numbers
  <2>2. 0 \in 0..Settle BY Numbers
  <2> QED BY <2>1, <2>2
<1>3. time \in Seconds /\ turn \in Nat BY TimeTypes, Numbers
<1>4. Stamped(tracker, since, time, turn) BY StaysStamped DEF Tells
<1>5. tracker.init => tracker.notified = told BY DEF Tells
<1>6. tracker.pending =>
        /\ tracker.init /\ tracker.notified # observed
        /\ Dated(tracker.pendingSince, Later(held, n, Settle), Settle, time, turn)
  <2>1. SUFFICES ASSUME tracker.pending
                 PROVE  Dated(tracker.pendingSince, Later(held, n, Settle), Settle, time, turn)
    BY DEF Tells
  <2>2. Dated(tracker.pendingSince, held, Settle, now, turned) BY <2>1 DEF Tells
  <2>3. tracker.pendingSince \in Seconds /\ Settle \in Nat /\ Settle <= Longest
    BY <1>1, Numbers DEF Trackers
  <2> QED BY <1>1, <2>2, <2>3, StaysDated
<1>7. tracker.pending /\ tracker.notified # present
        => Dated(tracker.pendingSince, steady, Settle, time, turn)
  <2>1. SUFFICES ASSUME tracker.pending, tracker.notified # present
                 PROVE  Dated(tracker.pendingSince, steady, Settle, time, turn)
    OBVIOUS
  <2>2. tracker.notified \in BOOLEAN BY <1>1 DEF Trackers
  <2>3. present = observed BY <1>1, <1>6, <2>1, <2>2
  <2> QED BY <1>6, <2>1, <2>3
<1>8. result = Judged(tracker, present, there, night, allowed, time) OBVIOUS
<1> HIDE DEF result
<1>9. CASE kind = "sensor" /\ ~there
  <2>1. result = <<NoTracker, FALSE>> BY <1>8, <1>9 DEF Judged
  <2>2. result[1] = NoTracker /\ result[2] = FALSE BY <2>1
  <2>3. Tells(NoTracker, present, FALSE, steady, Cooldown, time, turn)
    BY DEF Tells, Stamped, NoTracker
  <2>4. afresh = TRUE BY <1>9
  <2>5. Tallies(result, present, news, afresh, silent, told, first, steady, since, time, turn)
    BY <2>2, <2>3, <2>4, NoTrackerTypes DEF Tallies
  <2> QED BY <2>5 DEF result
<1>10. CASE ~there /\ kind # "sensor"
  <2>1. result = <<tracker, FALSE>> BY <1>8, <1>10 DEF Judged
  <2>2. result[1] = tracker /\ result[2] = FALSE BY <2>1
  <2>3. Tells(tracker, present, told, steady, since, time, turn)
    <3>1. present = observed /\ steady = Later(held, n, Settle) BY <1>10
    <3> QED BY <1>4, <1>5, <1>6, <3>1 DEF Tells
  <2>4. afresh = FALSE /\ silent = FALSE BY <1>10
  <2>5. Tallies(result, present, news, afresh, silent, told, first, steady, since, time, turn)
    BY <1>1, <2>2, <2>3, <2>4 DEF Tallies
  <2> QED BY <2>5 DEF result
<1>11. CASE there /\ kind = "sky" /\ ~night
  <2> DEFINE day == [NoTracker EXCEPT !.init = TRUE]
  <2>1. result = <<day, FALSE>> BY <1>8, <1>11 DEF Judged
  <2>2. day \in Trackers /\ Tells(day, present, FALSE, steady, Cooldown, time, turn)
    <3>1. ~NoTracker.hasNotified /\ NoTracker.notified = FALSE /\ ~NoTracker.pending
      BY DEF NoTracker
    <3>2. /\ day \in Trackers /\ day.hasNotified = NoTracker.hasNotified
          /\ day.notified = NoTracker.notified /\ day.pending = NoTracker.pending
      BY NoTrackerTypes DEF Trackers
    <3> HIDE DEF day
    <3> QED BY <3>1, <3>2 DEF Tells, Stamped
  <2> HIDE DEF day
  <2>3. result[1] = day /\ result[2] = FALSE BY <2>1
  <2>4. afresh = TRUE BY <1>11
  <2>5. Tallies(result, present, news, afresh, silent, told, first, steady, since, time, turn)
    BY <2>2, <2>3, <2>4 DEF Tallies
  <2> QED BY <2>5 DEF result
<1>12. CASE there /\ (kind # "sky" \/ night)
  <2>1. result = Synced(tracker, present, allowed, time) BY <1>8, <1>12 DEF Judged
  <2>2. MaySync(tracker, present, told, steady, since, time, turn)
    BY <1>4, <1>5, <1>6, <1>7 DEF MaySync
  <2>3. (silent <=> (~allowed \/ ~tracker.init)) BY <1>12
  <2>4. ~afresh BY <1>12
  <2>5. /\ tracker \in Trackers /\ told \in BOOLEAN /\ steady \in 0..Settle
        /\ since \in 0..Cooldown /\ time \in Seconds /\ turn \in Nat
    BY <1>1, <1>2, <1>3
  <2>6. Tallies(Synced(tracker, present, allowed, time), present, news, afresh, silent, told, first,
                steady, since, time, turn)
    <3>1. Fits(tracker, present, allowed, news, afresh, silent, told, first, steady, since, time, turn)
      BY <2>2, <2>3, <2>4, <2>5 DEF Fits
    <3> QED BY ONLY <3>1, SyncedTells
  <2> QED BY <2>1, <2>6 DEF result
<1> QED BY <1>9, <1>10, <1>11, <1>12

\* A pass of the engine keeps the invariant, whatever it observes.
LEMMA PassKeeps == ASSUME IInv, Pass PROVE IInv'
<1>1. PICK value \in 0..2 : observed' = IF valid' THEN Observed(observed, value) ELSE observed
  BY DEF Pass
<1>2. PICK n \in 1..MaxGap, sending \in BOOLEAN :
        /\ now' = Advanced(n) /\ turned' = Turned(n)
        /\ engine' = IF engine.started THEN engine ELSE [started |-> TRUE, at |-> now']
        /\ LET allowed == Since(now', engine'.at) >= Grace /\ Enabled(levels)
               result  == IF kind = "rule" THEN RuleJudged(tracker, ruleBits', allowed, now')
                          ELSE Judged(tracker, observed', valid', dark', allowed, now')
               said    == Said(result[2], kind = "rule" \/ observed')
               afresh  == (kind = "sensor" /\ ~valid') \/ (kind = "sky" /\ valid' /\ ~dark')
               silent  == valid' /\ (~allowed \/ ~tracker.init)
               again   == IF kind = "rule" THEN ruleBits' \subseteq ruleBits
                          ELSE observed' = (told /\ tracker.init)
           IN  /\ tracker' = result[1]
               /\ AlarmPass(n, Rings(said, sending))
               /\ held' = IF valid' /\ observed' # observed THEN 0 ELSE Later(held, n, Settle)
               /\ spaced' = IF result[2] THEN 0 ELSE IF afresh THEN Cooldown ELSE Later(spaced, n, Cooldown)
               /\ told' = IF result[2] THEN observed'
                          ELSE IF afresh THEN FALSE
                          ELSE IF silent THEN observed' /\ ~AnnouncedAtStart
                          ELSE told
               /\ undue' = (result[2] /\ (\/ TooEarly(Later(spaced, n, Cooldown), Cooldown, turned')
                                         \/ TooEarly(held', SettleTime, turned')
                                         \/ again))
  BY DEF Pass
<1> DEFINE allowed == Since(now', engine'.at) >= Grace /\ Enabled(levels)
           result  == IF kind = "rule" THEN RuleJudged(tracker, ruleBits', allowed, now')
                      ELSE Judged(tracker, observed', valid', dark', allowed, now')
           afresh  == (kind = "sensor" /\ ~valid') \/ (kind = "sky" /\ valid' /\ ~dark')
           silent  == valid' /\ (~allowed \/ ~tracker.init)
           again   == IF kind = "rule" THEN ruleBits' \subseteq ruleBits
                      ELSE observed' = (told /\ tracker.init)
           since   == Later(spaced, n, Cooldown)
<1>3. /\ tracker' = result[1]
      /\ held' = IF valid' /\ observed' # observed THEN 0 ELSE Later(held, n, Settle)
      /\ spaced' = IF result[2] THEN 0 ELSE IF afresh THEN Cooldown ELSE since
      /\ told' = IF result[2] THEN observed'
                 ELSE IF afresh THEN FALSE
                 ELSE IF silent THEN observed' /\ ~AnnouncedAtStart
                 ELSE told
      /\ undue' = (result[2] /\ (\/ TooEarly(since, Cooldown, turned')
                                \/ TooEarly(held', SettleTime, turned') \/ again))
  BY <1>2, Zenon
<1>4. /\ kind' = kind /\ levels' = levels /\ valid' \in BOOLEAN /\ dark' \in BOOLEAN
      /\ ruleBits' = IF kind # "rule" THEN {}
                     ELSE IF ~valid' THEN {"missing"} ELSE IF observed' THEN {"low"} ELSE {}
  BY DEF Pass
<1>5. EngineTypeOK /\ TrackerTells BY DEF IInv
<1>6. /\ kind \in AllKinds /\ levels \in Settings /\ tracker \in Trackers
      /\ engine \in [started : BOOLEAN, at : Seconds]
      /\ observed \in BOOLEAN /\ told \in BOOLEAN /\ held \in 0..Settle /\ spaced \in 0..Cooldown
      /\ ruleBits \subseteq RuleReasons /\ n \in Nat
      /\ Settle \in Nat \ {0} /\ Cooldown \in Nat \ {0}
  BY <1>5, Numbers DEF EngineTypeOK
<1>7. observed' \in BOOLEAN /\ (~valid' => observed' = observed)
  BY <1>1, <1>4, <1>6 DEF Observed
<1>8. /\ now' \in Seconds /\ turned' \in 0..Longest
      /\ engine' \in [started : BOOLEAN, at : Seconds]
  <2>1. now' \in Seconds /\ turned' \in 0..Longest BY <1>2, <1>5, TimeTypes
  <2>2. engine' = IF engine.started THEN engine ELSE [started |-> TRUE, at |-> now'] BY <1>2
  <2> HIDE DEF Seconds
  <2> QED BY <1>6, <2>1, <2>2
<1>9. allowed \in BOOLEAN BY DEF Enabled
<1>10. ruleBits' \subseteq RuleReasons BY <1>4 DEF RuleReasons
<1>11. held' \in 0..Settle /\ since \in 0..Cooldown
  <2>1. Later(held, n, Settle) \in 0..Settle /\ since \in 0..Cooldown
    BY <1>6, LaterTypes
  <2> QED BY <1>3, <1>6, <2>1
<1> HIDE DEF since, allowed, result, silent
<1>12. ASSUME result[1] \in Trackers, result[2] \in BOOLEAN PROVE EngineTypeOK'
  <2>1. told' \in BOOLEAN
    <3>1. (observed' /\ ~AnnouncedAtStart) \in BOOLEAN OBVIOUS
    <3> QED BY <1>3, <1>6, <1>7, <3>1, Zenon
  <2>2. spaced' \in 0..Cooldown
    <3>1. 0 \in 0..Cooldown /\ Cooldown \in 0..Cooldown BY <1>6
    <3> QED BY <1>3, <1>11, <3>1, Zenon
  <2>3. undue' \in BOOLEAN BY <1>3, Zenon
  <2>4. tracker' \in Trackers BY <1>3, <1>12
  <2> QED BY <1>4, <1>6, <1>7, <1>8, <1>10, <1>11, <2>1, <2>2, <2>3, <2>4, Zenon DEF EngineTypeOK
\* Nothing was announced, or what the ghost asks of it holds.
<1>13. ASSUME result[2] => /\ ~TooEarly(since, Cooldown, turned')
                           /\ ~TooEarly(held', SettleTime, turned') /\ ~again
       PROVE  ~undue'
  BY <1>3, <1>13, Zenon
<1>14. CASE kind = "rule"
  <2>1. Stamped(tracker, since, now', turned')
    <3>1. Stamped(tracker, spaced, now, turned) BY <1>5, <1>14 DEF TrackerTells
    <3> QED BY <1>2, <1>5, <3>1, StaysStamped DEF since
  <2>2. result = RuleJudged(tracker, ruleBits', allowed, now') BY <1>14 DEF result
  <2> DEFINE spoken == [tracker EXCEPT !.hasNotified = TRUE, !.notifiedAt = now']
  <2>3. spoken \in Trackers /\ spoken.hasNotified /\ spoken.notifiedAt = now'
    BY <1>6, <1>8 DEF Trackers
  <2> HIDE DEF spoken
  <2>4. CASE Appeared(ruleBits') # {} /\ allowed /\ Cooled(tracker, now')
    <3>1. result = <<spoken, TRUE>> BY <2>2, <2>4, Zenon DEF RuleJudged, spoken
    <3>2. result[1] = spoken /\ result[2] = TRUE BY <3>1
    <3>3. ~again BY <1>14, <2>4 DEF Appeared
    <3>4. ~TooEarly(held', SettleTime, turned')
      <4>1. SettleTime = 0 BY <1>14 DEF SettleTime
      <4> QED BY <1>11, <4>1 DEF TooEarly
    <3>5. ~TooEarly(since, Cooldown, turned')
      BY <1>6, <1>8, <1>11, <2>1, <2>4, CooledIsEnough
    <3>6. ~undue' BY <1>13, <3>3, <3>4, <3>5
    <3>7. Dated(now', 0, Cooldown, now', turned') BY <1>8, NowIsDated
    <3>8. tracker' = spoken /\ spaced' = 0 BY <1>3, <3>2
    <3>9. Stamped(tracker', spaced', now', turned') BY <2>3, <3>7, <3>8 DEF Stamped
    <3>10. TrackerTells' BY <1>4, <1>14, <3>9 DEF TrackerTells, Stamped
    <3> QED BY <1>12, <2>3, <3>2, <3>6, <3>10 DEF IInv
  <2>5. CASE ~(Appeared(ruleBits') # {} /\ allowed /\ Cooled(tracker, now'))
    <3>1. result = <<tracker, FALSE>> BY <2>2, <2>5, Zenon DEF RuleJudged
    <3>2. result[1] = tracker /\ result[2] = FALSE BY <3>1
    <3>3. ~undue' BY <1>13, <3>2
    <3>4. ~afresh BY <1>14
    <3>5. tracker' = tracker /\ spaced' = since BY <1>3, <3>2, <3>4
    <3>6. Stamped(tracker', spaced', now', turned') BY <2>1, <3>5
    <3>7. TrackerTells' BY <1>4, <1>14, <3>6 DEF TrackerTells, Stamped
    <3> QED BY <1>6, <1>12, <3>2, <3>3, <3>7 DEF IInv
  <2> QED BY <2>4, <2>5
<1>15. CASE kind # "rule"
  <2> DEFINE first == observed' /\ ~AnnouncedAtStart
             news  == ~(observed' <=> (told /\ tracker.init))
  <2>1. Tells(tracker, observed, told, held, spaced, now, turned)
    BY <1>5, <1>15 DEF TrackerTells
  <2>2. result = Judged(tracker, observed', valid', dark', allowed, now') BY <1>15 DEF result
  <2>3. since = Later(spaced, n, Cooldown) BY DEF since
  <2>4. /\ first \in BOOLEAN /\ news \in BOOLEAN /\ afresh \in BOOLEAN /\ silent \in BOOLEAN
        /\ (first <=> (observed' /\ ~AnnouncedAtStart))
        /\ (news <=> ~(observed' <=> (told /\ tracker.init)))
        /\ (afresh <=> ((kind = "sensor" /\ ~valid') \/ (kind = "sky" /\ valid' /\ ~dark')))
        /\ (silent <=> (valid' /\ (~allowed \/ ~tracker.init)))
    BY DEF silent
  <2>5. told' = IF result[2] THEN observed' ELSE IF afresh THEN FALSE ELSE IF silent THEN first ELSE told
    BY <1>3, Zenon
  <2>6. news => ~again BY <1>6, <1>7, <1>15
  <2> HIDE DEF first, news, afresh
  <2>7. Tallies(Judged(tracker, observed', valid', dark', allowed, now'), observed',
                news, afresh, silent, told, first, held', since, now', turned')
    BY <1>2, <1>3, <1>4, <1>5, <1>7, <1>9, <1>15, <2>1, <2>3, <2>4, JudgedTells, SMTT(100)
  <2>8. Tallies(result, observed', news, afresh, silent, told, first, held', since, now', turned')
    BY <2>2, <2>7
  <2>9. ~undue' BY <1>13, <2>6, <2>8 DEF Tallies
  <2>10. Tells(tracker', observed', told', held', spaced', now', turned')
    BY <1>3, <2>5, <2>8 DEF Tallies
  <2>11. TrackerTells' BY <1>4, <1>15, <2>10 DEF TrackerTells, Tells, Stamped, Dated, TooEarly
  <2> QED BY <1>12, <2>8, <2>9, <2>11 DEF IInv, Tallies
<1> QED BY <1>14, <1>15

\* The device starts with trackers that have told nothing.
LEMMA InitIInv == Init => IInv
<1> SUFFICES ASSUME Init PROVE IInv
  OBVIOUS
<1>1. NoTracker \in Trackers /\ ~NoTracker.hasNotified /\ ~NoTracker.pending /\ ~NoTracker.init
  BY NoTrackerTypes DEF NoTracker
<1>2. EngineTypeOK
  <2>1. /\ 0 \in 0..Settle /\ Cooldown \in 0..Cooldown /\ 0 \in Seconds /\ Longest \in 0..Longest
    BY Numbers
  <2>2. kind \in AllKinds BY ConditionAssumption DEF Init, ConditionAssumption
  <2> HIDE DEF AllKinds
  <2> QED BY <1>1, <2>1, <2>2 DEF Init, EngineTypeOK
<1>3. TrackerTells
  BY <1>1 DEF Init, TrackerTells, Tells, Stamped
<1> QED BY <1>2, <1>3 DEF Init, IInv

\* Every step keeps the invariant.
LEMMA StepIInv == IInv /\ [Next]_vars => IInv'
<1> SUFFICES ASSUME IInv, [Next]_vars PROVE IInv'
  OBVIOUS
<1>1. CASE Pass BY <1>1, PassKeeps
<1>2. CASE ~Pass
  <2>1. UNCHANGED <<kind, seen, state, ghosts>> /\ levels' \in Settings
    BY <1>2 DEF Next, Loop, Acks, SaveSettings, Requests, vars, IInv, EngineTypeOK
  <2> QED BY <2>1 DEF seen, state, ghosts, IInv, EngineTypeOK, TrackerTells, Tells, Stamped, Dated, TooEarly
<1> QED BY <1>1, <1>2

\* Whatever the rules, the readings that come and go and the hysteresis do, an
\* announcement says something new, after its cooldown, and of a sensor or the
\* sky only what every look has shown for the settle time (AlertEngine::sync),
\* but for a cooldown or a settle time in which the engine's seconds wrapped.
THEOREM AnnouncementsAreDue == Spec => []NothingUndue
<1>1. IInv => NothingUndue BY DEF IInv, NothingUndue
<1> QED BY ConditionAssumption, InitIInv, StepIInv, <1>1, PTL DEF Spec

-----------------------------------------------------------------------------
(* The phone alarm                                                         *)

\* What waits to be taken from the phones is what one of them wrote.
AckIsNamed ==
    /\ alarm \in Alarms /\ phoneAck \in Nat
    /\ phoneAck # 0 => phoneAck \in named

\* An alarm that rings is not changed by what a pass raises.
LEMMA PassSpares ==
    ASSUME NEW n \in Nat, NEW raise \in {"none", "info", "active"},
           alarm \in Alarms, AlarmPass(n, raise)
    PROVE  alarm' \in Alarms /\ (alarm.level = "active" => alarm'.level = "active")
<1> DEFINE quiet  == Later(alarm.quiet, n, Resend)
           aged   == IF alarm.level = "active" /\ quiet >= Resend THEN 0 ELSE quiet
           before == Passed(alarm, n)
<1>0. CASE ~alarmService BY <1>0 DEF AlarmPass
<1>1. quiet \in 0..Resend /\ aged \in 0..Resend /\ 0 \in 0..Resend
  <2>1. quiet \in 0..Resend BY LaterTypes, PhoneAssumption DEF PhoneAssumption, Alarms
  <2> QED BY <2>1, PhoneAssumption DEF PhoneAssumption
<1>2. before = [alarm EXCEPT !.quiet = aged] BY DEF Passed
<1> HIDE DEF aged, quiet, before
<1>3. before \in Alarms /\ before.level = alarm.level /\ before.seq = alarm.seq
  BY <1>1, <1>2 DEF Alarms
<1>4. alarmService => alarm' = IF raise = "none" THEN before ELSE Raised(before, raise)
  BY DEF AlarmPass, before
<1>5. CASE alarmService /\ (raise = "none" \/ before.level = "active" \/ before.seq = MaxSeq)
  BY <1>3, <1>4, <1>5 DEF Raised
<1>6. CASE alarmService /\ ~(raise = "none" \/ before.level = "active" \/ before.seq = MaxSeq)
  <2>1. alarm' = [seq |-> before.seq + 1, level |-> raise, quiet |-> 0]
    BY <1>4, <1>6 DEF Raised
  <2>2. before.seq + 1 \in 0..MaxSeq BY <1>3, <1>6, PhoneAssumption DEF Alarms, PhoneAssumption
  <2> QED BY <1>1, <1>3, <1>6, <2>1, <2>2 DEF Alarms
<1> QED BY <1>0, <1>5, <1>6

\* An answer names an alarm that was on, and no other answer than one that
\* names it, or the device's own button, ends an alarm that is on.
LEMMA AckStep ==
    ASSUME AckIsNamed, [Next]_vars
    PROVE  /\ AckIsNamed'
           /\ alarm.level = "active" /\ alarm'.level # "active" => localAck \/ alarm.seq \in named
<1>1. CASE Pass
  <2>1. PICK n \in 1..MaxGap, sending \in BOOLEAN :
          \E said \in {"none", "on", "off"} : AlarmPass(n, Rings(said, sending))
    BY <1>1 DEF Pass, Said
  <2>2. PICK raise \in {"none", "info", "active"} : AlarmPass(n, raise)
    BY <2>1 DEF Rings
  <2>3. UNCHANGED requests BY <1>1 DEF Pass
  <2>4. n \in Nat OBVIOUS
  <2> QED BY <2>2, <2>3, <2>4, PassSpares DEF AckIsNamed, requests
<1>2. CASE Acks
  <2>1. ProcessAcks BY <1>2 DEF Acks
  <2>2. [alarm EXCEPT !.level = "none", !.quiet = 0] \in Alarms
    <3>1. ASSUME NEW a \in Alarms, NEW s, s = [a EXCEPT !.level = "none", !.quiet = 0]
          PROVE  s \in Alarms
      <4>1. 0 \in 0..Resend BY PhoneAssumption DEF PhoneAssumption
      <4> QED BY <3>1, <4>1 DEF Alarms
    <3> QED BY <3>1 DEF AckIsNamed
  <2>3. AckIsNamed' BY <2>1, <2>2 DEF ProcessAcks, AckIsNamed
  <2>4. alarm.level = "active" /\ alarm'.level # "active" => localAck \/ alarm.seq \in named
    BY <2>1 DEF ProcessAcks, Acknowledged, AckIsNamed
  <2> QED BY <2>3, <2>4
<1>3. CASE SaveSettings \/ UNCHANGED vars
  BY <1>3 DEF SaveSettings, vars, phone, requests, AckIsNamed
<1>4. CASE Requests
  <2>1. CASE PhoneWrites
    <3>1. PICK seq \in 1..alarm.seq : phoneAck' = seq /\ named' = named \union {seq}
      BY <2>1 DEF PhoneWrites
    <3>2. seq \in Nat /\ alarm' = alarm BY <2>1 DEF PhoneWrites, AckIsNamed, Alarms
    <3> QED BY <3>1, <3>2 DEF AckIsNamed
  <2>2. CASE ButtonPressed \/ ButtonAsks
    BY <2>2 DEF ButtonPressed, ButtonAsks, AckIsNamed
  <2> QED BY <1>4, <2>1, <2>2 DEF Requests, Others
<1> QED BY <1>1, <1>2, <1>3, <1>4 DEF Next, Loop

\* An alarm ends only when a phone has named it or the button was pressed: a
\* number from an earlier alarm, written late, ends nothing (AlarmTracker::
\* acknowledge, BleService's pending acknowledgements).
THEOREM LateAnswersEndNothing ==
    Spec => LateAckSpares
<1> DEFINE Step == alarm.level = "active" /\ alarm'.level # "active" => localAck \/ alarm.seq \in named
<1>1. Init => AckIsNamed
  BY PhoneAssumption DEF Init, PhoneInit, AckIsNamed, Alarms, PhoneAssumption
<1>2. AckIsNamed /\ [Next]_vars => AckIsNamed' BY AckStep
<1>3. AckIsNamed /\ [Next]_vars => [Step]_phone BY AckStep
<1> QED BY <1>1, <1>2, <1>3, PTL DEF Spec, LateAckSpares

-----------------------------------------------------------------------------
(* The power policy                                                        *)


\* A second that has passed since the pass last came by the evaluation has
\* made one due.
BlockedMeansDue == blocked > 0 => due

\* The one-shot of this shutdown is on its way or was taken, and the snapshot
\* shows the shutdown.
UnderWay ==
    /\ current = "pending"
    /\ snap = "pending" \/ missed
    /\ warned \/ "shutdownStarted" \in events

\* Longer pending than the pass was away: an evaluation ran since, so the
\* warning was taken and the verdict knows.
Announced == warned /\ (reported \/ missed)

\* How far a shutdown has come that nothing interrupted.
Progress ==
    policy = "pending" /\ ~interrupted =>
        UnderWay /\ (pendingFor > blocked => Announced)

\* The inductive invariant of the power policy.
PowerIInv == PowerTypeOK /\ BlockedMeansDue /\ Progress

-----------------------------------------------------------------------------
\* The initial states are typed, and no shutdown is on its way.
LEMMA PowerStart == PowerInit => PowerIInv
<1> SUFFICES ASSUME PowerInit PROVE PowerIInv
  OBVIOUS
<1>1. 0 \in 0 .. ShutdownGrace + Extra /\ 0 \in 0 .. MaxBlock /\ 0 \in 0 .. 2 /\ ~(0 > 0) /\ 0 # 2
  BY PowerAssumption DEF PowerAssumption
<1>2. monitoring \in BOOLEAN /\ powerSaving \in BOOLEAN /\ pins \in BOOLEAN
  BY PowerAssumption DEF PowerAssumption, PowerInit
<1> QED BY <1>1, <1>2, Zenon DEF PowerInit, PowerIInv, PowerTypeOK, BlockedMeansDue, Progress,
           States, Charges, OneShots

\* A device that starts up is as it was at first.
LEMMA StartsUpKeeps ==
    ASSUME PowerTypeOK, NEW next \in {"handle", "asleep"}, NEW woken \in BOOLEAN,
           StartsUp(next, woken)
    PROVE  PowerIInv'
<1>1. 0 \in 0 .. ShutdownGrace + Extra /\ 0 \in 0 .. MaxBlock /\ 0 \in 0 .. 2 /\ ~(0 > 0) /\ 0 # 2
  BY PowerAssumption DEF PowerAssumption
<1>2. /\ usb' = usb /\ charge' = charge /\ monitoring' = monitoring
      /\ powerSaving' = powerSaving /\ pins' = pins
  BY DEF StartsUp, supply, settings
<1> QED BY <1>1, <1>2, Zenon DEF StartsUp, PowerIInv, PowerTypeOK, BlockedMeansDue, Progress,
           States, Charges, OneShots

\* What the policy's update leaves: typed, and how it got to a shutdown.
LEMMA PolicyStep ==
    ASSUME PowerTypeOK, NEW fresh \in BOOLEAN, usbSeen' \in BOOLEAN, restored' \in {FALSE, restored},
           SavingOff \/ FromNormal(fresh) \/ FromSaving(fresh) \/ FromPending \/ Unchanged
    PROVE  /\ policy' \in States /\ below' \in 0 .. 2
           /\ (below' = 2 <=> policy' = "pending")
           /\ events' \subseteq OneShots
           /\ events \subseteq events'
           /\ policy' = "pending" /\ policy # "pending" => "shutdownStarted" \in events'
<1>1. /\ events' \subseteq OneShots /\ events \subseteq events'
      /\ policy' = "pending" /\ policy # "pending" => "shutdownStarted" \in events'
  BY DEF PowerTypeOK, SavingOff, FromNormal, FromSaving, FromPending, Unchanged, Becomes, OneShots
<1>2. policy' \in States /\ below' \in 0 .. 2 /\ (below' = 2 <=> policy' = "pending")
  BY DEF PowerTypeOK, SavingOff, FromNormal, FromSaving, FromPending, Unchanged, Becomes, States
<1> QED BY <1>1, <1>2

\* An awake tick.
LEMMA WorkKeeps ==
    ASSUME PowerIInv, NEW fresh \in BOOLEAN, NEW stored \in BOOLEAN,
           NEW onUsb \in BOOLEAN, usbSeen' = (monitoring /\ onUsb), Work(fresh, stored)
    PROVE  PowerIInv'
<1> USE DEF PowerIInv
<1>1. usbSeen' \in BOOLEAN /\ restored' \in BOOLEAN
  BY DEF Work, PowerTypeOK
<1>2. SavingOff \/ FromNormal(fresh) \/ FromSaving(fresh) \/ FromPending \/ Unchanged
  BY DEF Work
<1>3. /\ policy' \in States /\ below' \in 0 .. 2
      /\ (below' = 2 <=> policy' = "pending")
      /\ events' \subseteq OneShots
      /\ events \subseteq events'
      /\ policy' = "pending" /\ policy # "pending" => "shutdownStarted" \in events'
  <2>1. restored' \in {FALSE, restored}
    BY DEF Work
  <2> QED BY PolicyStep, <1>1, <1>2, <2>1
<1>4. current' \in {policy', "normal"} /\ current' \in States
  BY <1>3 DEF Work, States
<1>5. PowerTypeOK'
  <2>1. /\ usb' = usb /\ charge' = charge /\ monitoring' = monitoring
        /\ powerSaving' = powerSaving /\ pins' = pins /\ reported' = reported /\ due' = due
        /\ blocked' = blocked /\ stage' = "handle"
    BY DEF Work, supply, settings
  <2>2. pendingFor' \in 0 .. ShutdownGrace + Extra /\ (pendingFor' > 0 => policy' = "pending")
    BY PowerAssumption DEF Work, PendingSince, PowerTypeOK, PowerAssumption
  <2>3. warned' \in BOOLEAN /\ missed' \in BOOLEAN /\ interrupted' \in BOOLEAN
    BY Zenon DEF Work, Ghosts
  <2>4. snap' \in States
    BY <1>4 DEF Work, Refresh, PowerTypeOK
  <2> QED BY <1>1, <1>3, <1>4, <2>1, <2>2, <2>3, <2>4, Zenon DEF PowerTypeOK
<1>6. BlockedMeansDue'
  BY DEF Work, BlockedMeansDue
<1>7. Progress'
  <2>1. SUFFICES ASSUME policy' = "pending", ~interrupted'
                 PROVE  UnderWay' /\ (pendingFor' > blocked' => Announced')
    BY DEF Progress
  <2>2. monitoring /\ current' = policy'
    BY <2>1 DEF Work, Ghosts
  <2>3. CASE policy = "pending"
    <3>1. UnderWay /\ (pendingFor > blocked => Announced)
      BY <2>1, <2>3 DEF Progress, Work, Ghosts, PowerTypeOK
    <3>2. warned' = warned /\ missed' = missed /\ pendingFor' = pendingFor
          /\ snap' \in {snap, "pending"}
      BY <2>1, <2>2, <2>3, <3>1
         DEF Work, Ghosts, PendingSince, Refresh, UnderWay, PowerTypeOK
    <3> QED BY <1>3, <2>1, <2>2, <3>1, <3>2 DEF UnderWay, Announced, Work
  <2>4. CASE policy # "pending"
    <3>1. current # "pending"
      BY <2>4 DEF PowerTypeOK
    <3>2. snap' = "pending" \/ missed'
      BY <2>1, <2>2, <3>1 DEF Work, Ghosts, Refresh
    <3>3. pendingFor' = 0
      BY <2>4 DEF Work, PendingSince
    <3>4. ~(pendingFor' > blocked')
      BY <1>5, <3>3 DEF PowerTypeOK
    <3> QED BY <1>3, <2>1, <2>2, <2>4, <3>2, <3>4 DEF UnderWay
  <2> QED BY <2>3, <2>4
<1> QED BY <1>5, <1>6, <1>7

-----------------------------------------------------------------------------
\* The evaluation takes the warning and reads the snapshot.
LEMMA HandleKeeps == PowerIInv /\ Handle => PowerIInv'
<1> SUFFICES ASSUME PowerIInv, Handle PROVE PowerIInv'
  OBVIOUS
<1> USE DEF PowerIInv
<1>1. CASE due
  <2>1. PICK how \in {"read", "blind", "lost"} : Evaluate(how)
    BY <1>1 DEF Handle
  <2>2. /\ reported' \in BOOLEAN /\ missed' \in BOOLEAN /\ warned' \in BOOLEAN
        /\ events' = {} /\ due' = FALSE
    BY <2>1 DEF Evaluate, PowerTypeOK
  <2>3. PowerTypeOK'
    <3>1. 0 \in 0 .. MaxBlock
      BY PowerAssumption DEF PowerAssumption
    <3>2. /\ usb' = usb /\ charge' = charge /\ monitoring' = monitoring
          /\ powerSaving' = powerSaving /\ pins' = pins /\ usbSeen' = usbSeen /\ policy' = policy
          /\ below' = below /\ pendingFor' = pendingFor /\ current' = current
          /\ restored' = restored /\ snap' = snap /\ interrupted' = interrupted
          /\ stage' = "tick" /\ blocked' = 0
      BY DEF Handle, supply, settings
    <3> QED BY <2>2, <3>1, <3>2, Zenon DEF PowerTypeOK
  <2>4. BlockedMeansDue'
    BY DEF Handle, BlockedMeansDue
  <2>5. ASSUME policy = "pending", ~interrupted
        PROVE  warned' /\ (reported' \/ missed') /\ (snap = "pending" \/ missed')
    BY <2>1, <2>5 DEF Progress, UnderWay, Evaluate
  <2>6. Progress'
    BY <2>5 DEF Progress, UnderWay, Announced, Handle
  <2> QED BY <2>3, <2>4, <2>6
<1>2. CASE ~due
  <2>1. blocked = 0
    BY <1>2 DEF BlockedMeansDue, PowerTypeOK
  <2>2. UNCHANGED <<policy, pendingFor, current, events, snap, reported, due, blocked,
                    warned, missed, interrupted>>
    BY <1>2, <2>1 DEF Handle
  <2>3. PowerTypeOK'
    BY <1>2, <2>1, <2>2 DEF Handle, PowerTypeOK, supply, settings
  <2> QED BY <2>2, <2>3 DEF BlockedMeansDue, Progress, UnderWay, Announced
<1> QED BY <1>1, <1>2

\* A second: both counts grow, the shutdown's no further than it can matter.
LEMMA SecondKeeps == PowerIInv /\ Second => PowerIInv'
<1> SUFFICES ASSUME PowerIInv, Second PROVE PowerIInv'
  OBVIOUS
<1> USE DEF PowerIInv
<1>1. /\ blocked \in Nat /\ blocked' = blocked + 1 /\ blocked' <= MaxBlock
      /\ pendingFor \in 0 .. ShutdownGrace + Extra
  BY PowerAssumption DEF Second, PowerTypeOK, PowerAssumption
<1>2. PowerTypeOK'
  BY <1>1, PowerAssumption
     DEF Second, PowerTypeOK, supply, settings, PowerAssumption
<1>3. BlockedMeansDue'
  BY DEF Second, BlockedMeansDue
<1>4. pendingFor' > blocked' => pendingFor > blocked
  BY <1>1, PowerAssumption DEF Second, PowerAssumption
<1>5. Progress'
  BY <1>4 DEF Second, Progress, UnderWay, Announced
<1> QED BY <1>2, <1>3, <1>5

\* A tick sleeps or works.
LEMMA TickKeeps ==
    ASSUME PowerIInv, NEW fresh \in BOOLEAN, NEW polled \in BOOLEAN, NEW stored \in BOOLEAN,
           Tick(fresh, polled, stored)
    PROVE  PowerIInv'
<1>1. CASE Sleep
  BY <1>1, StartsUpKeeps DEF Sleep, PowerIInv
<1>2. ASSUME NEW onUsb \in UsbShown(polled), usbSeen' = (monitoring /\ onUsb), Work(fresh, stored)
      PROVE  PowerIInv'
  <2>1. onUsb \in BOOLEAN BY DEF UsbShown, PowerIInv, PowerTypeOK
  <2> QED BY <1>2, <2>1, WorkKeeps
<1> QED BY <1>1, <1>2 DEF Tick

\* Every step keeps the invariant.
LEMMA PowerStep == PowerIInv /\ [PowerNext]_powerVars => PowerIInv'
<1> SUFFICES ASSUME PowerIInv, [PowerNext]_powerVars PROVE PowerIInv'
  OBVIOUS
<1>1. CASE Handle
  BY <1>1, HandleKeeps
<1>2. CASE SomeTick
  BY <1>2, TickKeeps DEF SomeTick
<1>3. CASE UsbWake
  BY <1>3, StartsUpKeeps DEF UsbWake, Wake, PowerIInv
<1>4. CASE HourlyWake
  <2>1. PICK read \in BOOLEAN : HourlyCheck(read)
    BY <1>4 DEF HourlyWake
  <2>2. StartsUp("handle", usb /\ pins) /\ (usb /\ pins) \in BOOLEAN
    BY <2>1 DEF HourlyCheck, Wake
  <2> QED BY <2>2, StartsUpKeeps DEF PowerIInv
<1>5. CASE Reset
  BY <1>5, StartsUpKeeps DEF Reset, PowerIInv
<1>6. CASE Second
  BY <1>6, SecondKeeps
<1>7. CASE SaveBattery
  <2>1. monitoring' \in BOOLEAN /\ powerSaving' \in BOOLEAN /\ pins' \in BOOLEAN
    BY <1>7, PowerAssumption DEF SaveBattery, PowerAssumption
  <2> QED BY <1>7, <2>1 DEF SaveBattery, PowerIInv, PowerTypeOK, BlockedMeansDue, Progress,
             UnderWay, Announced, supply, ram
<1>8. CASE SupplyChanges
  <2>1. usb' \in BOOLEAN /\ charge' \in Charges
    BY <1>8 DEF SupplyChanges, Neighbours, Charges, PowerIInv, PowerTypeOK
  <2> QED BY <1>8, <2>1 DEF SupplyChanges, PowerIInv, PowerTypeOK, BlockedMeansDue, Progress,
             UnderWay, Announced, settings, ram
<1>9. CASE UNCHANGED powerVars
  BY <1>9 DEF PowerIInv, PowerTypeOK, BlockedMeansDue, Progress, UnderWay, Announced, powerVars,
     supply, settings, ram
<1> QED BY <1>1, <1>2, <1>3, <1>4, <1>5, <1>6, <1>7, <1>8, <1>9 DEF PowerNext

-----------------------------------------------------------------------------
\* The inductive invariant holds in every reachable state.
THEOREM PowerInvariance == PowerSpec => []PowerIInv
BY PowerStart, PowerStep, PTL DEF PowerSpec

\* The counts stay in their ranges and what the manager shows is the policy's
\* state or nothing.
THEOREM PowerTypeCorrect == PowerSpec => []PowerTypeOK
<1>1. PowerIInv => PowerTypeOK
  BY DEF PowerIInv
<1> QED BY <1>1, PowerInvariance, PTL

\* Only the policy, in a tick, puts the device to sleep.
LEMMA OnlyTicksSleep ==
    ASSUME PowerTypeOK, [PowerNext]_powerVars, Sleeps
    PROVE  \E onUsb, idle \in BOOLEAN : SleepNow(onUsb, idle)
<1>1. stage # "asleep" /\ stage' = "asleep"
  BY DEF Sleeps, Awake
<1>2. SomeTick
  BY <1>1 DEF PowerNext, Handle, UsbWake, HourlyWake, HourlyCheck, Wake, Reset, StartsUp,
     Second, SaveBattery, SupplyChanges, powerVars
<1>3. PICK fresh, polled, stored \in BOOLEAN : Tick(fresh, polled, stored)
  BY <1>2 DEF SomeTick
<1>4. PICK onUsb \in UsbShown(polled) : \E idle \in BOOLEAN : SleepNow(onUsb, idle)
  BY <1>1, <1>3 DEF Tick, Work
<1>5. onUsb \in BOOLEAN
  BY DEF UsbShown, PowerTypeOK
<1> QED BY <1>4, <1>5

\* No device goes to sleep unannounced: the warning was taken by an alert pass
\* and the verdict knows of the shutdown, unless a lock or switched-off
\* monitoring came in between, or one pass was held up for the warning time.
THEOREM WarnsBeforeSleep == PowerSpec => WarnedBeforeSleep
<1>1. PowerIInv /\ [PowerNext]_powerVars =>
        [Sleeps => \/ warned /\ (reported \/ missed)
                   \/ interrupted
                   \/ blocked >= ShutdownGrace]_powerVars
  <2> SUFFICES ASSUME PowerIInv, [PowerNext]_powerVars, Sleeps, ~interrupted,
                      ~(blocked >= ShutdownGrace)
               PROVE  warned /\ (reported \/ missed)
    BY DEF PowerIInv, PowerTypeOK
  <2>1. PICK onUsb, idle \in BOOLEAN : SleepNow(onUsb, idle)
    BY OnlyTicksSleep DEF PowerIInv
  <2>2. policy = "pending" /\ pendingFor >= ShutdownGrace
    BY <2>1, PowerAssumption DEF SleepNow, TimeIsUp, PowerIInv, PowerTypeOK, PowerAssumption
  <2>3. pendingFor > blocked
    BY <2>2, PowerAssumption DEF PowerIInv, PowerTypeOK, PowerAssumption
  <2> QED BY <2>2, <2>3 DEF PowerIInv, Progress, Announced
<1> QED BY <1>1, PowerInvariance, PTL DEF PowerSpec, WarnedBeforeSleep
=============================================================================
