----------------------------- MODULE OledPanel ------------------------------
(***************************************************************************)
(* The SSD1306 display: Link (found, lost, found again), Controller (lit or  *)
(* not, and which page), OledDisplay (what the panel has been told, one row  *)
(* of the picture per pass) and the panel itself, which remembers what it    *)
(* was told until it loses power.  Every command may fail.                   *)
(*                                                                          *)
(* A pass of the loop is the unit of time; intervals keep their order.  A    *)
(* picture is the page, the layout and the reading it was drawn from; the    *)
(* drawing itself, the one-pixel shift, the day brightnesses and the         *)
(* debouncing of the button are left out.                                    *)
(***************************************************************************)
EXTENDS Integers, Sequences, FiniteSets, SequencesExt

CONSTANTS
    Pages,          \* the pages chosen, in their order; "network" when none can be shown
    Settings,       \* the display settings a user may save
    ProbeEvery,     \* PROBE_INTERVAL_MS
    MaxFailures,    \* MAX_WRITE_FAILURES
    CycleAfter,     \* cycleSeconds
    NightTimeout,   \* NIGHT_TIMEOUT_MS
    Rows,           \* the rows sent one per pass
    MaxFaults,      \* bound: commands lost on the bus
    MaxEvents       \* bound: saves, requests, presses, plugs, power saving

PanelAssumption ==
    /\ {ProbeEvery, MaxFailures, CycleAfter, NightTimeout, MaxFaults, MaxEvents} \subseteq Nat
    /\ Settings \subseteq [enabled : BOOLEAN, timeout : Nat, stayOnAtNight : BOOLEAN,
                           rotate180 : BOOLEAN, wakeOnBoot : BOOLEAN]
    \* rows are numbered: of any of them one comes first
    /\ \A some \in SUBSET Rows \ {{}} : \E r \in some : \A q \in some : r <= q

VARIABLES
    saved, reconfigurePending,  \* config.display; it is to be applied
    settings,   \* what the display works with
    request,    \* wakePending or blankPending, or "none"
    forcedOff,  \* power saving
    night,      \* "day", "night" or "unknown", of the last view
    view,       \* [sky: is the sky page available, value: what it reads]
    link,       \* [found, initPending, wait, failures]; wait: passes to the next probe
    controller, \* [booted, lit, resume, page, onFor, pageFor]
    driver,     \* [panelOn, rendered, viewChanged, shown, picture, dirty]
    plugged,
    panel,      \* [ready, power, night, rotated, ram]: the hardware; ready since its init
    faults, events  \* bounds

vars == <<saved, reconfigurePending, settings, request, forcedOff, night, view, link, controller, driver,
          plugged, panel, faults, events>>

Capped(n, limit) == IF n < limit THEN n ELSE limit
Longest == CHOOSE n \in {NightTimeout, CycleAfter} \union {s.timeout : s \in Settings} :
               \A m \in {NightTimeout, CycleAfter} \union {s.timeout : s \in Settings} : n >= m

Noise == <<>>    \* no row of a picture
Blank == <<"blank">>
BlankFrame == [r \in Rows |-> Blank]

\* What a panel shows when it has just been powered.
Unpowered == [ready |-> FALSE, power |-> FALSE, night |-> FALSE, rotated |-> FALSE, ram |-> [r \in Rows |-> Noise]]
NoLink == [found |-> FALSE, initPending |-> FALSE, wait |-> 0, failures |-> 0]
Told(on, page, isNight, rotated) == [on |-> on, page |-> page, night |-> isNight, rotated |-> rotated]
\* The settings of this pass
Current == IF reconfigurePending THEN saved ELSE settings
NightMode == night # "day"

-----------------------------------------------------------------------------
(* Link: three failed writes in a row lose the display                      *)

ShouldProbe(l) == ~l.found /\ l.wait = 0

ProbeResult(l, ok) ==
    [found |-> ok, initPending |-> l.initPending \/ (ok /\ ~l.found), wait |-> ProbeEvery, failures |-> 0]

WriteResult(l, ok) ==
    CASE ~l.found -> l
      [] l.found /\ ok -> [l EXCEPT !.failures = 0]
      [] l.found /\ ~ok /\ l.failures + 1 < MaxFailures -> [l EXCEPT !.failures = @ + 1]
      [] OTHER -> [NoLink EXCEPT !.wait = ProbeEvery]

-----------------------------------------------------------------------------
(* Controller                                                               *)

\* visiblePages: chosen and available, or the network page
Visible ==
    LET shown == SelectSeq(Pages, LAMBDA p : p # "sky" \/ view.sky)
    IN  IF shown = <<>> THEN <<"network">> ELSE shown

TurnOn(c) ==
    [c EXCEPT !.lit = TRUE, !.onFor = 0,
              !.page = IF c.lit THEN @ ELSE Visible[1],
              !.pageFor = IF c.lit THEN @ ELSE 0]

\* The next visible page after this one in the chosen order, or the first
NextPage(c) ==
    LET at == {i \in DOMAIN Pages : Pages[i] = c.page}
        after(i, step) == Pages[((i + step - 1) % Len(Pages)) + 1]
        isVisible(p) == \E i \in DOMAIN Visible : Visible[i] = p
        steps(i) == {n \in DOMAIN Pages : isVisible(after(i, n))}
        next == IF \E i \in at : steps(i) # {}
                THEN LET i == CHOOSE j \in at : TRUE
                     IN  after(i, CHOOSE n \in steps(i) : \A m \in steps(i) : n <= m)
                ELSE Visible[1]
    IN  [c EXCEPT !.page = next, !.pageFor = 0]

\* "Never" is for known days, staying on for known nights.
TimedOut(c) ==
    /\ ~((~NightMode /\ Current.timeout = 0) \/ (night = "night" /\ Current.stayOnAtNight))
    /\ c.onFor >= IF Current.timeout = 0 THEN NightTimeout ELSE Current.timeout

\* Boot, wake, blank and the button, in that order
HandleRequests(c, button) ==
    LET booted == IF ~c.booted /\ Current.wakeOnBoot
                  THEN TurnOn([c EXCEPT !.booted = TRUE]) ELSE [c EXCEPT !.booted = TRUE]
        blanked == IF request = "blank" THEN [booted EXCEPT !.lit = FALSE] ELSE booted
        woken == IF request = "wake" THEN TurnOn(blanked) ELSE blanked
    IN  CASE ~button -> woken
          [] button /\ ~woken.lit -> TurnOn(woken)
          [] OTHER -> [NextPage(woken) EXCEPT !.onFor = 0]

Cycle(c) ==
    LET shown == \E i \in DOMAIN Visible : Visible[i] = c.page
        due == Len(Visible) > 1 /\ c.pageFor >= CycleAfter
    IN  IF due \/ (~shown /\ Len(Visible) = 1) THEN NextPage(c) ELSE c

\* tick(): off while there is no panel to light, and lit again when it is back
Controlled(c, detected, button) ==
    IF ~detected \/ forcedOff
    THEN [c EXCEPT !.resume = ~detected /\ ~forcedOff /\ (c.lit \/ @), !.lit = FALSE]
    ELSE LET resumed == IF c.resume THEN TurnOn([c EXCEPT !.resume = FALSE]) ELSE c
             asked == HandleRequests(resumed, button)
         IN  CASE ~asked.lit -> asked
               [] asked.lit /\ TimedOut(asked) -> [asked EXCEPT !.lit = FALSE]
               [] OTHER -> Cycle(asked)

-----------------------------------------------------------------------------
(* One pass.  `w' gathers what it changes: link, driver, panel, and the      *)
(* results of the commands sent, in order; `bad' is what fails on the bus.   *)

Commands == {"probe", "init", "contrast", "rotation", "power", "row", "light"}
Losses == {bad \in SUBSET Commands : Cardinality(bad) <= MaxFaults}
Fails(bad, command) == ~plugged \/ command \in bad

Sent(w, ok) == [w EXCEPT !.link = WriteResult(@, ok)]

\* applySettings: switched off, one last command and then silence
ApplySettings(w, bad) ==
    LET off == settings.enabled /\ ~Current.enabled
        dark == off /\ w.driver.panelOn /\ ~Fails(bad, "power")
    IN  IF ~off THEN w
        ELSE [w EXCEPT !.link = NoLink,
                       !.driver = [@ EXCEPT !.panelOn = FALSE, !.rendered = FALSE,
                                            !.picture = BlankFrame, !.dirty = {}],
                       !.panel.power = IF dark THEN FALSE ELSE @]

\* wrong variant: what the panel held before is taken for what it holds now
ToRedrawTrusting(dirty) == dirty

\* The panel's memory is random after power-up.
ToRedraw(dirty) == Rows

\* A panel found, or found again, is initialised and redrawn whole.
HandleLink(w, bad) ==
    LET probed == IF ShouldProbe(w.link) THEN [w EXCEPT !.link = ProbeResult(@, ~Fails(bad, "probe"))] ELSE w
    IN  CASE ~(probed.link.found /\ probed.link.initPending) -> probed
          [] probed.link.found /\ probed.link.initPending /\ Fails(bad, "init") -> Sent(probed, FALSE)
          [] OTHER -> [Sent(probed, TRUE) EXCEPT
                !.link.initPending = FALSE,
                !.driver = [@ EXCEPT !.panelOn = FALSE, !.shown = Told(FALSE, "sky", NightMode, Current.rotate180),
                                     !.rendered = FALSE, !.dirty = ToRedraw(probed.driver.dirty)],
                !.panel = [@ EXCEPT !.ready = TRUE, !.power = FALSE, !.night = NightMode, !.rotated = Current.rotate180]]

Contrast(w, bad, out) ==
    CASE out.night = w.driver.shown.night -> w
      [] out.night # w.driver.shown.night /\ Fails(bad, "contrast") -> Sent(w, FALSE)
      [] OTHER -> [Sent(w, TRUE) EXCEPT !.panel.night = out.night]

\* A new orientation shows in the rows written from now on: all of them.
Rotation(w, bad, out) ==
    CASE out.rotated = w.driver.shown.rotated -> w
      [] out.rotated # w.driver.shown.rotated /\ Fails(bad, "rotation") -> Sent(w, FALSE)
      [] OTHER -> [Sent(w, TRUE) EXCEPT !.panel.rotated = out.rotated,
                                        !.driver = [@ EXCEPT !.dirty = Rows, !.rendered = FALSE]]

\* What a row shows: by day a title over the reading, by night the reading alone.
Titled(row) == \A q \in Rows : row <= q
Drawn(out, row) ==
    CASE ~Titled(row) -> <<out.page, out.night, view>>
      [] Titled(row) /\ ~out.night -> <<out.page>>
      [] OTHER -> Blank

\* Frame::commit: the rows that differ are to be sent.
Committed(d, picture) ==
    [d EXCEPT !.rendered = TRUE, !.viewChanged = FALSE, !.picture = picture,
              !.dirty = @ \union {r \in Rows : picture[r] # d.picture[r]}]

Render(w, out) ==
    LET shown == w.driver.shown
        due == ~w.driver.rendered \/ w.driver.viewChanged \/ out.page # shown.page \/ out.night # shown.night
    IN  IF ~(out.on /\ due) THEN w
        ELSE [w EXCEPT !.driver = Committed(@, [r \in Rows |-> Drawn(out, r)])]

PowerOff(w, bad, out) ==
    CASE out.on \/ ~w.driver.panelOn -> w
      [] ~out.on /\ w.driver.panelOn /\ Fails(bad, "power") -> Sent(w, FALSE)
      [] OTHER -> [Sent(w, TRUE) EXCEPT !.driver.panelOn = FALSE, !.panel.power = FALSE]

\* applyOutput: `shown' is the output, whatever became of the commands.
ApplyOutput(w, bad, out) ==
    LET told == {PowerOff(drawn, bad, out) : drawn \in
                   {Render(turned, out) : turned \in
                      {Rotation(lit, bad, out) : lit \in {Contrast(w, bad, out)}}}}
    IN  [CHOOSE t \in told : TRUE EXCEPT !.driver.shown = out]

\* One row per pass, and then the light; a row cut short is noise.
SendOneDirtyPage(w, bad) ==
    LET d == w.driver
        row == CHOOSE r \in d.dirty : \A q \in d.dirty : r <= q
        cut == IF plugged THEN Noise ELSE w.panel.ram[row]
    IN  CASE d.dirty # {} /\ ~Fails(bad, "row") ->
                [Sent(w, TRUE) EXCEPT !.driver.dirty = @ \ {row},
                                      !.panel.ram[row] = <<d.picture[row], w.panel.rotated>>]
          [] d.dirty # {} /\ Fails(bad, "row") ->
                [Sent(w, FALSE) EXCEPT !.panel.ram[row] = cut]
          [] d.dirty = {} /\ ~d.panelOn /\ ~Fails(bad, "light") ->
                [Sent(w, TRUE) EXCEPT !.driver.panelOn = TRUE, !.panel.power = TRUE]
          [] d.dirty = {} /\ ~d.panelOn /\ Fails(bad, "light") -> Sent(w, FALSE)
          [] OTHER -> w

\* What a pass has waited for is one pass nearer.
Aged(w) == [w EXCEPT !.link.wait = IF @ > 0 THEN @ - 1 ELSE 0]
AgedController(c) == [c EXCEPT !.onFor = Capped(@ + 1, Longest), !.pageFor = Capped(@ + 1, Longest)]

\* The rest of tick() for an enabled display
Tick(w, bad, button) ==
    \E linked \in {HandleLink(w, bad)} :
        LET detected == linked.link.found /\ ~linked.link.initPending IN
        \E c \in {Controlled(AgedController(controller), detected, button)} :
            LET showing == detected /\ ~forcedOff
                out == Told(showing /\ c.lit, IF showing THEN c.page ELSE "sky", NightMode, Current.rotate180) IN
            \E told \in {IF detected THEN ApplyOutput(linked, bad, out) ELSE linked} :
                \E done \in {IF out.on THEN SendOneDirtyPage(told, bad) ELSE told} :
                    /\ controller' = c
                    /\ link' = done.link /\ driver' = done.driver /\ panel' = done.panel

\* tick(): a display switched off is left alone; the controller's time goes on.
Pass(bad, button) ==
    /\ faults + Cardinality(bad) <= MaxFaults
    /\ button => Current.enabled /\ events < MaxEvents
    /\ \E w \in {ApplySettings(Aged([link |-> link, driver |-> driver, panel |-> panel]), bad)} :
           IF Current.enabled THEN Tick(w, bad, button)
           ELSE /\ controller' = AgedController(controller)
                /\ link' = w.link /\ driver' = w.driver /\ panel' = w.panel
    /\ settings' = Current
    /\ reconfigurePending' = FALSE
    /\ request' = "none"
    /\ faults' = faults + Cardinality(bad)
    /\ events' = IF button THEN events + 1 ELSE events
    /\ UNCHANGED <<saved, forcedOff, night, view, plugged>>

-----------------------------------------------------------------------------
(* Around the display                                                       *)

Event == events < MaxEvents /\ events' = events + 1

\* A save on the web task: the next pass applies it.
Save(s) ==
    /\ Event
    /\ s # saved
    /\ saved' = s
    /\ reconfigurePending' = TRUE
    /\ UNCHANGED <<settings, request, forcedOff, night, view, link, controller, driver, plugged, panel, faults>>

\* POST /api/display/wake and blank, refused for a display that is off or lost
HandleDisplayRequest(what) ==
    /\ Event
    /\ saved.enabled /\ link.found /\ ~forcedOff
    /\ request' = what
    /\ UNCHANGED <<saved, reconfigurePending, settings, forcedOff, night, view, link, controller, driver, plugged,
                   panel, faults>>

\* setForcedOff() with the power state
SetForcedOff ==
    /\ Event
    /\ forcedOff' = ~forcedOff
    /\ UNCHANGED <<saved, reconfigurePending, settings, request, night, view, link, controller, driver, plugged,
                   panel, faults>>

\* feedDisplay() after a read of the sensors
SetView(next, nextNight) ==
    /\ Event
    /\ settings.enabled
    /\ view' = next
    /\ night' = nextNight
    /\ driver' = [driver EXCEPT !.viewChanged = TRUE]
    /\ UNCHANGED <<saved, reconfigurePending, settings, request, forcedOff, link, controller, plugged, panel, faults>>

\* The cable: a panel that loses power forgets everything.
Plug ==
    /\ Event
    /\ plugged' = ~plugged
    /\ panel' = Unpowered
    /\ UNCHANGED <<saved, reconfigurePending, settings, request, forcedOff, night, view, link, controller, driver, faults>>

Init ==
    /\ saved \in Settings /\ settings = saved
    /\ reconfigurePending = FALSE /\ request = "none" /\ forcedOff = FALSE
    /\ night = "unknown" /\ view = [sky |-> FALSE, value |-> 0]
    /\ link = NoLink
    /\ controller = [booted |-> FALSE, lit |-> FALSE, resume |-> FALSE, page |-> "sky", onFor |-> 0, pageFor |-> 0]
    /\ driver = [panelOn |-> FALSE, rendered |-> FALSE, viewChanged |-> TRUE, shown |-> Told(FALSE, "sky", TRUE, FALSE),
                 picture |-> BlankFrame, dirty |-> {}]
    /\ plugged \in BOOLEAN /\ panel = Unpowered
    /\ faults = 0 /\ events = 0

Next ==
    \/ \E bad \in Losses, button \in BOOLEAN : Pass(bad, button)
    \/ \E s \in Settings : Save(s)
    \/ \E what \in {"wake", "blank"} : HandleDisplayRequest(what)
    \/ SetForcedOff
    \/ \E sky \in BOOLEAN, value \in 0..1, n \in {"day", "night", "unknown"} :
           SetView([sky |-> sky, value |-> value], n)
    \/ Plug

\* The loop runs on.
Spec == Init /\ [][Next]_vars /\ WF_vars(Pass({}, FALSE))

-----------------------------------------------------------------------------
(* Properties                                                               *)

\* What the driver counts as sent is on a panel that has kept its power: every
\* row it will not send again holds the last picture, written in the
\* orientation the panel has, and it is lit just when the driver thinks so.
PanelIsAsTold ==
    (link.found /\ ~link.initPending /\ panel.ready) =>
        /\ \A r \in Rows \ driver.dirty : panel.ram[r] = <<driver.picture[r], panel.rotated>>
        /\ panel.power = driver.panelOn

\* Where it is night the panel is at its lowest brightness.
\* (docs/user-guide/display.md:70)
NightIsDim ==
    (link.found /\ ~link.initPending /\ link.failures = 0 /\ panel.ready /\ panel.power /\ driver.shown.night)
        => panel.night

\* Switching it on again counts as a boot (DisplayController.cpp:139): a panel
\* found at once is lit at once where the settings say so.
SwitchedOnIsABoot ==
    [][(/\ ~settings.enabled /\ settings'.enabled /\ settings'.wakeOnBoot
        /\ link'.found /\ ~link'.initPending /\ ~forcedOff /\ request # "blank") => controller'.lit]_vars
=============================================================================
