----------------------------- MODULE FuelGauge ------------------------------
(***************************************************************************)
(* The MAX17048 fuel gauge (MAX17048Sensor, GaugeDecoder, estimate, and what *)
(* DeviceBattery makes of a reading): found and found again, read on its own *)
(* timer, its percentage held back while it settles, its rate averaged over  *)
(* ten minutes.  The gauge is powered by the pack: swapping the pack resets  *)
(* it, and the question is what of the old pack is still in the numbers.     *)
(*                                                                          *)
(* A unit of time is the shortest of the intervals; the constants keep the   *)
(* order of the real ones (5 s read, 10 s search, 2 s settling, 60 s rate).  *)
(* This is the board without the charger's lines; BatteryPower has those.    *)
(***************************************************************************)
EXTENDS Integers

CONSTANTS
    ReadEvery, RedetectEvery, EstimateFor, RateAfter,   \* READ_INTERVAL_MS, REDETECT_MS,
                            \* ESTIMATING_MS, RATE_VALID_MS
    MissesBeforeMissing,    \* MISSES_BEFORE_MISSING
    MaxPacks,               \* bound: packs put in
    MaxSaves                \* bound: monitoring switched off or on

GaugeAssumption ==
    {ReadEvery, RedetectEvery, EstimateFor, RateAfter, MissesBeforeMissing, MaxPacks, MaxSaves} \subseteq Nat

VARIABLES
    pack,       \* the pack fitted, or NoPack
    packs,      \* packs seen so far
    resetBit,   \* the gauge's reset indicator
    settling,   \* a fresh gauge shows 0 % above 3.5 V
    pending,    \* reconfigurePending and the setting to apply
    enabled,    \* settings.enabled
    initialized, misses,
    sinceRead, sinceSearch, \* since lastGaugeRead and lastDetectAttempt, or Never
    decoder,    \* [started, estimatingFor, rateFor, rated]: time since estimatingFrom and
                \*   rateFrom (Never: not started); the packs in the smoothed rate
    reading,    \* [status, pack, estimating, rateValid, rated]: BatteryReading
    saves       \* bound

vars == <<pack, packs, resetBit, settling, pending, enabled, initialized, misses, sinceRead, sinceSearch,
          decoder, reading, saves>>

NoPack == 0
Never == -1
Capped(n, limit) == IF n < limit THEN n ELSE limit
Later(since, limit) == IF since = Never THEN Never ELSE Capped(since + 1, limit)

NewDecoder == [started |-> FALSE, estimatingFor |-> 0, rateFor |-> Never, rated |-> {}]
NoReading == [status |-> "notInitialized", pack |-> NoPack, estimating |-> TRUE, rateValid |-> FALSE, rated |-> {}]

-----------------------------------------------------------------------------
(* Decoding                                                                 *)

\* wrong variant: the average runs on over a reset
AveragedOn(d) == IF d.started THEN d ELSE [d EXCEPT !.started = TRUE, !.estimatingFor = 0, !.rateFor = Never]

\* A gauge found again, or one that says it was reset, starts afresh.
Afresh(d) ==
    IF ~d.started \/ resetBit
    THEN [d EXCEPT !.started = TRUE, !.estimatingFor = 0, !.rateFor = Never]
    ELSE d

\* Too early, or 0 % above 3.5 V
Estimating(d) == d.estimatingFor < EstimateFor \/ settling

\* update(): no rate while estimating; the first rate after is the average.
Updated(d) ==
    LET estimating == Estimating(d)
    IN  CASE estimating -> [d EXCEPT !.rateFor = Never]
          [] ~estimating /\ d.rateFor = Never -> [d EXCEPT !.rateFor = 0, !.rated = {pack}]
          [] OTHER -> [d EXCEPT !.rated = @ \union {pack}]

\* readGauge(): four registers; the reset bit is cleared once seen.
ReadGauge(d) ==
    LET next == Updated(Afresh(d))
        estimating == Estimating(next)
    IN  /\ decoder' = next
        /\ resetBit' = FALSE
        /\ reading' = [status |-> "ok", pack |-> pack, estimating |-> estimating,
                       rateValid |-> ~estimating /\ next.rateFor >= RateAfter, rated |-> next.rated]

-----------------------------------------------------------------------------
(* tick()                                                                   *)

\* requestReconfigure(), and applySettings on the next tick
Applied == IF pending.is THEN pending.to ELSE enabled

\* No answer at 0x36, and none tried until the next search
Missed(d, status) ==
    /\ misses' = misses + 1
    /\ initialized' = (misses' < MissesBeforeMissing)
    /\ reading' = [reading EXCEPT !.status = IF initialized' THEN "readError" ELSE "notInitialized"]
    /\ decoder' = d /\ UNCHANGED resetBit

ReadDue(since) == since = Never \/ since >= ReadEvery

\* The read part of a tick, with a decoder d whose clock has run on
Read(d, since) ==
    IF ~ReadDue(since)
    THEN sinceRead' = since /\ decoder' = d /\ UNCHANGED <<resetBit, reading, misses, initialized>>
    ELSE /\ sinceRead' = 0
         /\ IF pack # NoPack
            THEN ReadGauge(d) /\ misses' = 0 /\ UNCHANGED initialized
            ELSE Missed(d, "readError")

\* The search part: found, it is read at once, by a decoder restarted.
Search(d) ==
    IF sinceSearch # Never /\ sinceSearch < RedetectEvery
    THEN /\ sinceSearch' = Later(sinceSearch, RedetectEvery)
         /\ decoder' = d /\ sinceRead' = Later(sinceRead, ReadEvery)
         /\ UNCHANGED <<resetBit, reading, misses, initialized>>
    ELSE /\ sinceSearch' = 0
         /\ IF pack # NoPack
            THEN /\ initialized' = TRUE /\ misses' = 0 /\ sinceRead' = 0
                 /\ ReadGauge([d EXCEPT !.started = FALSE])
            ELSE /\ decoder' = d /\ sinceRead' = Later(sinceRead, ReadEvery)
                 /\ UNCHANGED <<resetBit, reading, misses, initialized>>

Tick ==
    LET d == [decoder EXCEPT !.estimatingFor = Capped(@ + 1, EstimateFor), !.rateFor = Later(@, RateAfter)]
    IN  /\ pending' = [pending EXCEPT !.is = FALSE] /\ enabled' = Applied
        /\ CASE ~enabled' ->
                  /\ initialized' = FALSE /\ reading' = NoReading /\ decoder' = d
                  /\ sinceRead' = Later(sinceRead, ReadEvery)
                  /\ sinceSearch' = Later(sinceSearch, RedetectEvery)
                  /\ UNCHANGED <<resetBit, misses>>
             [] enabled' /\ initialized ->
                  /\ Read(d, Later(sinceRead, ReadEvery))
                  /\ sinceSearch' = Later(sinceSearch, RedetectEvery)
             [] enabled' /\ ~initialized -> Search(d)
        /\ UNCHANGED <<pack, packs, settling, saves>>

-----------------------------------------------------------------------------
(* The pack and the settings                                                *)

TakeOut ==
    /\ pack # NoPack /\ pack' = NoPack
    /\ UNCHANGED <<packs, resetBit, settling, pending, enabled, initialized, misses, sinceRead, sinceSearch, decoder, reading, saves>>

PutIn ==
    /\ pack = NoPack /\ packs < MaxPacks
    /\ packs' = packs + 1 /\ pack' = packs' /\ resetBit' = TRUE /\ settling' \in BOOLEAN
    /\ UNCHANGED <<pending, enabled, initialized, misses, sinceRead, sinceSearch, decoder, reading, saves>>

Settles ==
    /\ settling /\ settling' = FALSE
    /\ UNCHANGED <<pack, packs, resetBit, pending, enabled, initialized, misses, sinceRead, sinceSearch, decoder, reading, saves>>

Save ==
    /\ saves < MaxSaves /\ saves' = saves + 1
    /\ pending' = [is |-> TRUE, to |-> ~Applied]
    /\ UNCHANGED <<pack, packs, resetBit, settling, enabled, initialized, misses, sinceRead, sinceSearch, decoder, reading>>

\* begin(): one probe, whether monitored or not
Init ==
    /\ pack \in {NoPack, 1} /\ packs = 1 /\ resetBit = TRUE /\ settling = FALSE
    /\ enabled \in BOOLEAN /\ pending = [is |-> FALSE, to |-> enabled]
    /\ initialized = (enabled /\ pack # NoPack) /\ misses = 0
    /\ sinceRead = Never /\ sinceSearch = Never
    /\ decoder = NewDecoder /\ reading = NoReading /\ saves = 0

Next == Tick \/ Settles \/ TakeOut \/ PutIn \/ Save

Spec == Init /\ [][Next]_vars

-----------------------------------------------------------------------------
(* What is made of a reading (DeviceBattery)                                *)

\* estimate()'s input: a percentage to count from
EstimateValid == enabled /\ initialized /\ reading.status = "ok" /\ ~reading.estimating

\* An estimate is of one pack: the time to empty never divides the charge of
\* the pack fitted by the rate of another.
EstimateIsOfOnePack == EstimateValid /\ reading.rateValid => reading.rated = {reading.pack}
=============================================================================
