---------------------------- MODULE BatteryPower ----------------------------
(***************************************************************************)
(* Saving power and going to sleep on an empty battery: the power policy,  *)
(* the loop task's pass (the alert and verdict evaluation, then whatever   *)
(* blocks, then the power tick), the snapshot by which the verdict learns  *)
(* of a shutdown, and the checks that end the sleep.                       *)
(*                                                                         *)
(* Time passes in seconds.  Charge is a range of the gauge's percent:      *)
(*   "empty"   at or below the shutdown level                              *)
(*   "low"     below the critical level                                    *)
(*   "partial" at the critical level, not yet RECOVERY_PERCENT above it    *)
(*   "full"    at least RECOVERY_PERCENT above it                          *)
(***************************************************************************)
EXTENDS Naturals

CONSTANTS
    ShutdownGrace,  \* shutdownGraceSeconds
    Extra,          \* MAX_EXTRA_MS
    Choices,        \* the battery settings to choose from
    MaxBlock        \* bound: seconds from one chance of an evaluation to the next

ASSUME PowerAssumption ==
    /\ ShutdownGrace \in Nat /\ Extra \in Nat /\ MaxBlock \in Nat \ {0}
    /\ Choices \subseteq [monitoring : BOOLEAN, powerSaving : BOOLEAN, pins : BOOLEAN]

VARIABLES
    usb,         \* USB power is there
    charge,      \* how full the battery is
    monitoring,  \* battery.enabled
    powerSaving, \* battery.powerSaving
    pins,        \* battery.stat1Pin, stat2Pin and pgPin are all set: chargerPins()
    usbSeen,     \* the gauge's reading says charging, charged or USB power
    policy,      \* PowerPolicy::current
    below,       \* PowerPolicy::belowShutdown
    pendingFor,  \* seconds since PowerPolicy::pendingSinceMs, up to ShutdownGrace + Extra
    current,     \* PowerManager::current, what the rest of the device sees
    events,      \* PowerManager's one-shots for the next alert pass
    restored,    \* PowerManager::restoredAtBoot
    snap,        \* the power state of the sensor snapshot
    reported,    \* the SafetyStatus is unsafe because of the shutdown
    due,         \* a second has passed since the last evaluation
    stage,       \* where the loop task is; "asleep": sleptForBattery
    blocked,     \* seconds since the pass last came by the evaluation
    warned,      \* ghost: the alert pass took this shutdown's one-shot
    missed,      \* ghost: a lock kept this shutdown from the verdict
    interrupted  \* ghost: monitoring was off during this shutdown

settings == <<monitoring, powerSaving, pins>>
supply == <<usb, charge>>
ram == <<usbSeen, policy, below, pendingFor, current, events, restored, snap,
         reported, due, blocked, warned, missed, interrupted>>
powerVars == <<supply, settings, ram, stage>>

Charges == {"empty", "low", "partial", "full"}
States == {"normal", "saving", "pending"}
OneShots == {"shutdownStarted", "powerRestored", "recovered"}
Awake == stage # "asleep"

PowerTypeOK ==
    /\ usb \in BOOLEAN /\ charge \in Charges
    /\ monitoring \in BOOLEAN /\ powerSaving \in BOOLEAN /\ pins \in BOOLEAN
    /\ usbSeen \in BOOLEAN
    /\ policy \in States /\ below \in 0 .. 2
    /\ pendingFor \in 0 .. ShutdownGrace + Extra
    /\ (below = 2 <=> policy = "pending")
    /\ pendingFor > 0 => policy = "pending"
    /\ current \in {policy, "normal"}
    /\ events \subseteq OneShots
    /\ restored \in BOOLEAN
    /\ snap \in States /\ reported \in BOOLEAN /\ due \in BOOLEAN
    /\ stage \in {"handle", "tick", "asleep"}
    /\ blocked \in 0 .. MaxBlock
    /\ warned \in BOOLEAN /\ missed \in BOOLEAN /\ interrupted \in BOOLEAN

-----------------------------------------------------------------------------
PowerInit ==
    /\ usb \in BOOLEAN /\ charge \in Charges
    /\ \E c \in Choices :
          monitoring = c.monitoring /\ powerSaving = c.powerSaving /\ pins = c.pins
    /\ usbSeen = FALSE
    /\ policy = "normal" /\ below = 0 /\ pendingFor = 0
    /\ current = "normal" /\ events = {} /\ restored = FALSE
    /\ snap = "normal" /\ reported = FALSE /\ due = TRUE
    /\ stage = "handle" /\ blocked = 0
    /\ warned = FALSE /\ missed = FALSE /\ interrupted = FALSE

\* Nothing of the RAM outlives a sleep or a restart: the device starts up at
\* next, woken by USB power or not.
StartsUp(next, woken) ==
    /\ usbSeen' = FALSE
    /\ policy' = "normal" /\ below' = 0 /\ pendingFor' = 0
    /\ current' = "normal" /\ events' = {} /\ restored' = woken
    /\ snap' = "normal" /\ reported' = FALSE /\ due' = TRUE
    /\ stage' = next /\ blocked' = 0
    /\ warned' = FALSE /\ missed' = FALSE /\ interrupted' = FALSE
    /\ UNCHANGED <<supply, settings>>

-----------------------------------------------------------------------------
\* The power policy.  Its next state, the count of low reads and its events;
\* "power restored" at boot is announced with them.  fresh: there is a new,
\* valid reading.
Becomes(state, low, happened) ==
    /\ policy' = state
    /\ below' = low
    /\ events' = events \cup happened
                   \cup {e \in {"powerRestored"} : restored /\ ~restored'}

Unchanged == Becomes(policy, below, {})

SavingOff == ~powerSaving /\ Becomes("normal", 0, {})

FromNormal(fresh) ==
    /\ powerSaving /\ policy = "normal"
    /\ IF fresh /\ ~usbSeen' /\ charge \in {"empty", "low"}
       THEN Becomes("saving", 0, {})
       ELSE Unchanged

FromSaving(fresh) ==
    /\ powerSaving /\ policy = "saving"
    /\ \/ usbSeen' /\ Becomes("normal", 0, {"powerRestored"})
       \/ ~usbSeen' /\ fresh /\ charge = "full"
          /\ Becomes("normal", 0, {"recovered"})
       \/ ~usbSeen' /\ fresh /\ charge \in {"low", "partial"}
          /\ Becomes("saving", 0, {})
       \/ ~usbSeen' /\ fresh /\ charge = "empty"
          /\ IF below + 1 >= 2
             THEN Becomes("pending", 2, {"shutdownStarted"})
             ELSE Becomes("saving", below + 1, {})
       \/ ~usbSeen' /\ ~fresh /\ Unchanged

\* wrong variant: a delivery that hangs is waited for without limit.
TimeIsUpWhenIdle(idle) == pendingFor >= ShutdownGrace /\ idle

\* The warning time is over: the alerts are out, or have had long enough.
TimeIsUp(idle) ==
    \/ pendingFor >= ShutdownGrace /\ idle
    \/ pendingFor >= ShutdownGrace + Extra

\* wrong variant: USB power during the warning delays the sleep and does not end it.
FromPendingHeld == powerSaving /\ policy = "pending" /\ Unchanged

FromPending ==
    /\ powerSaving /\ policy = "pending"
    /\ IF usbSeen' THEN Becomes("normal", 0, {"powerRestored"}) ELSE Unchanged

-----------------------------------------------------------------------------
\* Half of the pass: the evaluation, once a second, and the alert pass after
\* it, which takes the one-shots.  "read": the evaluation had the snapshot;
\* "blind": its lock was not to be had; "lost": the verdict's was not.
Evaluate(how) ==
    /\ reported' = CASE how = "read" -> snap = "pending"
                     [] how = "blind" -> FALSE
                     [] how = "lost" -> reported
    /\ missed' = (missed \/ (policy = "pending" /\ how # "read"))
    /\ warned' = (warned \/ (policy = "pending" /\ "shutdownStarted" \in events))
    /\ events' = {}
    /\ due' = FALSE

Handle ==
    /\ stage = "handle"
    /\ stage' = "tick"
    /\ blocked' = 0
    /\ IF due
       THEN \E how \in {"read", "blind", "lost"} : Evaluate(how)
       ELSE UNCHANGED <<reported, missed, warned, events, due>>
    /\ UNCHANGED <<supply, settings, usbSeen, policy, below, pendingFor, current,
                   restored, snap, interrupted>>

\* What the gauge's reading may say of USB power.  The charger's lines are
\* polled twice a second.  Without them only a charge rate can tell: it takes
\* minutes to become valid, and a full battery has none.
UsbShown(polled) == CASE ~polled -> {usbSeen}
                      [] polled /\ pins -> {usb}
                      [] polled /\ ~pins -> {FALSE, usb}

\* wrong variant: the start of an earlier shutdown stands.
PendingSinceKept == pendingFor' = pendingFor

\* pendingSinceMs is set when the shutdown starts.
PendingSince ==
    pendingFor' = IF policy = "pending" /\ policy' = "pending" THEN pendingFor ELSE 0

\* The snapshot is refreshed at once when the power state changes and at the
\* sensors' interval; it stays as it is when neither is so or its lock is busy.
Refresh(stored) == snap' = IF stored THEN current' ELSE snap

\* The ghosts follow one shutdown, from its start.
Ghosts(stored) ==
    LET starts == policy # "pending"
        ends == policy' # "pending"
    IN  /\ warned' = (warned /\ ~starts /\ ~ends)
        /\ missed' = (~ends /\ ((missed /\ ~starts) \/ (current' # current /\ ~stored)))
        /\ interrupted' = (~ends /\ (interrupted \/ ~monitoring))

\* The other half: the gauge, the power policy and the snapshot.
Work(fresh, stored) ==
    /\ restored' \in {FALSE, restored}
    /\ IF monitoring
       THEN /\ SavingOff \/ FromNormal(fresh) \/ FromSaving(fresh) \/ FromPending
            /\ current' = policy'
       ELSE Unchanged /\ current' = "normal"
    /\ PendingSince
    /\ Refresh(stored)
    /\ Ghosts(stored)
    /\ stage' = "handle"
    /\ UNCHANGED <<supply, settings, reported, due, blocked>>

\* Deep sleep.
Sleep == StartsUp("asleep", FALSE)

\* The policy says so: a shutdown whose warning time is over, not on USB.
\* idle: what the dispatcher answers.
SleepNow(onUsb, idle) ==
    /\ monitoring /\ powerSaving /\ policy = "pending" /\ ~onUsb
    /\ TimeIsUp(idle)

\* The charger's state is dropped when monitoring is switched off.
Tick(fresh, polled, stored) ==
    /\ stage = "tick"
    /\ \E onUsb \in UsbShown(polled) :
          \/ Sleep /\ \E idle \in BOOLEAN : SleepNow(onUsb, idle)
          \/ /\ ~\A idle \in BOOLEAN : SleepNow(onUsb, idle)
             /\ usbSeen' = (monitoring /\ onUsb)
             /\ Work(fresh, stored)

SomeTick == \E fresh, polled, stored \in BOOLEAN : Tick(fresh, polled, stored)

-----------------------------------------------------------------------------
\* The device wakes: it starts up, and remembers that USB power woke it.
Wake(woken) ==
    /\ stage = "asleep"
    /\ StartsUp("handle", woken)

\* The PG pin went low, on a board where it is set and can wake the ESP32.
UsbWake == usb /\ Wake(TRUE)

\* The hourly timer.  bootCheck() asks the charger's lines, and the charge if
\* the gauge answers.  The charge rate, the other sign of USB power it looks
\* for, is never there: it is read with a decoder made for this one read, which
\* has to see a gauge for minutes before it calls a rate valid.
HourlyCheck(read) ==
    LET onUsb == usb /\ pins
        recovered == read /\ charge = "full"
    IN  (onUsb \/ recovered) /\ Wake(onUsb)

HourlyWake == \E read \in BOOLEAN : HourlyCheck(read)

\* The reset button, or a restart: RTC memory does not say battery sleep.
Reset == StartsUp("handle", FALSE)

-----------------------------------------------------------------------------
\* A second passes.
Second ==
    /\ Awake /\ blocked < MaxBlock
    /\ blocked' = blocked + 1
    /\ due' = TRUE
    /\ pendingFor' = IF policy = "pending" /\ pendingFor < ShutdownGrace + Extra
                     THEN pendingFor + 1 ELSE pendingFor
    /\ UNCHANGED <<supply, settings, usbSeen, policy, below, current, events, restored,
                   snap, reported, stage, warned, missed, interrupted>>

\* The owner saves the battery's settings.
SaveBattery ==
    /\ Awake
    /\ \E c \in Choices :
          monitoring' = c.monitoring /\ powerSaving' = c.powerSaving /\ pins' = c.pins
    /\ UNCHANGED <<supply, ram, stage>>

\* The world: USB power comes and goes, and the battery with it.
Neighbours(c) == CASE c = "empty" -> {"low"}
                   [] c = "low" -> {"empty", "partial"}
                   [] c = "partial" -> {"low", "full"}
                   [] c = "full" -> {"partial"}

SupplyChanges ==
    /\ \/ usb' = ~usb /\ UNCHANGED charge
       \/ charge' \in Neighbours(charge) /\ UNCHANGED usb
    /\ UNCHANGED <<settings, ram, stage>>

PowerNext ==
    \/ Handle
    \/ SomeTick
    \/ UsbWake
    \/ HourlyWake
    \/ Reset
    \/ Second
    \/ SaveBattery
    \/ SupplyChanges

PowerSpec == PowerInit /\ [][PowerNext]_powerVars

\* The loop runs, and time with it.  The charger lines are polled, the gauge
\* answers, and the snapshot is stored again and again: none of them fails
\* for ever.  Of the hourly checks one reads the gauge.  No wake-up by the PG
\* pin is promised, nor that a rate ever shows a charge: that takes a board and
\* a battery that do.
Reads == \E polled, stored \in BOOLEAN : Tick(TRUE, polled, stored)
Polls == \E fresh, stored \in BOOLEAN : Tick(fresh, TRUE, stored)
Stores == \E fresh, polled \in BOOLEAN : Tick(fresh, polled, TRUE)

Fairness ==
    /\ WF_powerVars(Handle) /\ WF_powerVars(SomeTick) /\ WF_powerVars(Second)
    /\ SF_powerVars(Reads) /\ SF_powerVars(Polls) /\ SF_powerVars(Stores)
    /\ WF_powerVars(HourlyCheck(TRUE))

PowerLiveSpec == PowerSpec /\ Fairness

-----------------------------------------------------------------------------
Sleeps == Awake /\ ~Awake'

\* The device never goes to sleep without having said so: the alert pass has
\* taken the warning and the verdict is unsafe.  The exceptions are these: a
\* lock kept the shutdown from the verdict; monitoring was off in the middle of
\* it (PowerManager::tick returns early and the policy keeps its shutdown); or
\* the pass that sleeps has itself been held up for the whole warning time
\* since it came by the evaluation, so that no other pass could take it.
WarnedBeforeSleep ==
    [][Sleeps => \/ warned /\ (reported \/ missed)
                 \/ interrupted
                 \/ blocked >= ShutdownGrace]_powerVars

\* What docs/user-guide/battery.md says of every sleep: the device reports
\* unsafe and waits.  It does not when monitoring went off during a shutdown:
\* the first tick after it is on again puts the device to sleep.
AlwaysWarned == [][Sleeps => warned /\ (reported \/ missed)]_powerVars

Empty == ~usb /\ charge = "empty" /\ monitoring /\ powerSaving

\* A battery that is and stays empty ends in sleep when nobody presses the
\* reset button again and again, whatever the dispatcher does: MAX_EXTRA_MS
\* after the warning time it is not waited for.
SleepsInTheEnd == <>[][~Reset]_powerVars /\ <>[]Empty => <>[]~Awake

\* What is seen of a supply for good wakes the device and ends power saving, and
\* the snapshot shows it: USB power where the charger's lines are wired, or a
\* charge that is back.  No shutdown is left in the verdict for ever.
WakesInTheEnd ==
    LET supplied == <>[](usb /\ pins) \/ <>[](charge = "full")
    IN  <>[][~Reset]_powerVars /\ <>[]monitoring /\ supplied
          => <>[](Awake /\ snap = "normal")

\* What docs/user-guide/battery.md says of a board without a PG pin: the hourly
\* check notices charging.  It does not (HourlyCheck); such a device sleeps on
\* until its charge is RECOVERY_PERCENT above the critical level.
ChargingIsNoticed ==
    <>[][~Reset]_powerVars /\ <>[](usb /\ monitoring) => <>[]Awake
=============================================================================
