---------------------------- MODULE PhoneAlarm -----------------------------
(***************************************************************************)
(* The Bluetooth alarm of paired phones: one alarm with a number, indicated *)
(* again until a phone writes that number back or somebody presses the      *)
(* button of the web UI (AlarmTracker, BleService).  Only the loop task     *)
(* touches it; what phones and the web UI ask for waits in two atomics.     *)
(*                                                                          *)
(* ConditionAlerts raises it; here is the alarm alone, with the passes of   *)
(* the loop task as operators.  An indication may not arrive: a phone knows *)
(* a number or does not.                                                    *)
(***************************************************************************)
EXTENDS Naturals, FiniteSets

CONSTANTS
    Resend,   \* seconds until an alarm is indicated again (30)
    MaxSeq    \* bound: the alarms and notes followed

ASSUME PhoneAssumption == Resend \in Nat \ {0} /\ MaxSeq \in Nat \ {0}

VARIABLES
    alarmService,  \* alarmService of BleService: phones are alarmed, since boot
    alarm,      \* AlarmTracker: the number, the level, the seconds since it was sent
    phoneAck,   \* pendingPhoneAck: 0 or a number
    localAck,   \* localAckRequested
    asking,     \* the web handler has seen an alarm and not asked yet: 0 or its number
    named       \* ghost: the numbers phones have acknowledged

requests == <<phoneAck, localAck, asking, named>>
phone == <<alarmService, alarm, requests>>

Later(age, n, most) == IF age + n > most THEN most ELSE age + n

PhoneTypeOK ==
    /\ alarmService \in BOOLEAN
    /\ alarm \in [seq : 0..MaxSeq, level : {"none", "info", "active"}, quiet : 0..Resend]
    /\ phoneAck \in 0..MaxSeq /\ localAck \in BOOLEAN /\ asking \in 0..MaxSeq
    /\ named \subseteq 1..MaxSeq

PhoneInit ==
    /\ alarm = [seq |-> 0, level |-> "none", quiet |-> Resend]
    /\ phoneAck = 0 /\ localAck = FALSE /\ asking = 0
    /\ named = {}

\* raiseAlarm, raiseInfo: nothing gets past an alarm that is active; after
\* MaxSeq alarms (bound) nothing new is raised.
Raised(a, level) ==
    IF a.level = "active" \/ a.seq = MaxSeq THEN a
    ELSE [seq |-> a.seq + 1, level |-> level, quiet |-> 0]

\* resendDue and sendAlarm, n seconds after the last pass.
Passed(a, n) ==
    LET quiet == Later(a.quiet, n, Resend)
    IN  [a EXCEPT !.quiet = IF a.level = "active" /\ quiet >= Resend THEN 0 ELSE quiet]

Due(a, n) == a.level = "active" /\ a.quiet + n >= Resend

(* What one pass makes of the alarm: the alert it sends, if any, comes after *)
(* the alarm that is due again.                                             *)
AlarmPass(n, raise) ==
    LET before == Passed(alarm, n)
        after  == IF raise = "none" THEN before ELSE Raised(before, raise)
    IN  /\ alarm' = IF alarmService THEN after ELSE alarm
        /\ UNCHANGED alarmService

\* wrong variant: any number a phone writes ends the alarm
AcknowledgedAny(a, seq) == a.level = "active"

Acknowledged(a, seq) == a.level = "active" /\ seq = a.seq

(* processAcks: a phone's number first; the button's only if that was none  *)
(* of the alarm's.  The alarm is sent once more, so the others stop ringing. *)
ProcessAcks ==
    /\ alarm' = (IF (phoneAck # 0 /\ Acknowledged(alarm, phoneAck)) \/ (localAck /\ alarm.level = "active")
                 THEN [alarm EXCEPT !.level = "none", !.quiet = 0] ELSE alarm)
    /\ phoneAck' = 0 /\ localAck' = FALSE
    /\ UNCHANGED <<alarmService, asking, named>>

(* A phone writes a number it was told, the last it heard or an older one;  *)
(* a second write takes the place of one the loop has not seen.             *)
PhoneWrites ==
    /\ \E seq \in 1..alarm.seq : phoneAck' = seq /\ named' = named \union {seq}
    /\ UNCHANGED <<alarmService, alarm, localAck, asking>>

(* The button: refused without an active alarm, ...                         *)
ButtonPressed ==
    /\ asking = 0 /\ alarm.level = "active"
    /\ asking' = alarm.seq
    /\ UNCHANGED <<alarmService, alarm, phoneAck, localAck, named>>

(* ... and asked for after that was checked.                                *)
ButtonAsks ==
    /\ asking # 0
    /\ localAck' = TRUE /\ asking' = 0
    /\ UNCHANGED <<alarmService, alarm, phoneAck, named>>

Others == PhoneWrites \/ ButtonPressed \/ ButtonAsks

-----------------------------------------------------------------------------
(* What the alarm promises                                                  *)

\* An alarm ends only when a phone has named it or the button was pressed:
\* a number from an earlier alarm, written late, ends nothing.
LateAckSpares ==
    [][alarm.level = "active" /\ alarm'.level # "active" => localAck \/ alarm.seq \in named]_phone

=============================================================================
