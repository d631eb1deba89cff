--------------------------- MODULE SettingsStore ---------------------------
(***************************************************************************)
(* Keeping the settings: the global `config`, the documents in flash, and    *)
(* the three tasks that work on them.  The web task answers PUT /api/config, *)
(* dark calibrations, WiFi joins and restores; the loop task stores a        *)
(* network once joined (pollWiFiConnect); the backup job makes previews.      *)
(* Saves of the two tasks are not locked against each other, and the device  *)
(* may restart between any two steps.                                       *)
(*                                                                          *)
(* The settings are four parts: wifi and main are kept in the document       *)
(* "config", alerts in a document of its own, client in another (it stands   *)
(* for the two later ones, alertclientB and alertsBattB).  What a value      *)
(* means is ConfigRules' matter.                                            *)
(***************************************************************************)
EXTENDS Naturals, FiniteSets

CONSTANTS
    Networks,       \* that can be joined
    Values,         \* of the other parts
    NoNetwork, NoDoc,
    Bad,            \* a document that is rejected
    MaxRequests     \* bound: requests to the web task

DefaultValue == 0

StoreAssumption ==
    /\ DefaultValue \in Values /\ NoNetwork \notin Networks
    /\ NoDoc \notin Values \union {Bad} /\ Bad \notin Values
    /\ {NoDoc, Bad} \cap [wifi : Networks \union {NoNetwork}, main : Values] = {}
    /\ MaxRequests \in Nat

VARIABLES
    settings,   \* `config`
    flash,      \* document -> [blob, legacy]
    revision,   \* configRevision
    web, loop,  \* what each task is doing: [at, next, ok, restarts]
    job,        \* the backup job: [at, base, candidate, revision; ghost: raced]
    staged,     \* stagedRestore: [base, candidate, revision, old; ghost: raced]
    join,       \* wifiConnectActive, wifiConnectConfigSaved, pendingWifiSSID
    link,       \* the network the device is on (external)
    target,     \* the network it is joining (external)
    due,        \* the restart timer runs
    requests,   \* bound
    overlap,    \* ghost: a save overlapped with the other task's
    trusted     \* ghost: the last save succeeded, alone

vars == <<settings, flash, revision, web, loop, job, staged, join, link, target, due,
          requests, overlap, trusted>>

Docs == {"alerts", "client", "config"}
Default == [wifi |-> NoNetwork, main |-> DefaultValue, alerts |-> DefaultValue, client |-> DefaultValue]
Idle == [at |-> "idle", next |-> Default, ok |-> TRUE, restarts |-> FALSE]
NoJob == [at |-> "none", base |-> Default, candidate |-> Default, revision |-> 0, raced |-> FALSE]
NoStaged == [base |-> Default, candidate |-> Default, revision |-> 0, old |-> TRUE, raced |-> FALSE]
NotJoining == [active |-> FALSE, saved |-> FALSE, pending |-> NoNetwork]

-----------------------------------------------------------------------------
(* The documents                                                            *)

\* toJson and alertsToJson
Document(c, d) == CASE d = "config" -> [wifi |-> c.wifi, main |-> c.main]
                    [] d = "alerts" -> c.alerts
                    [] d = "client" -> c.client

\* readDoc: the blob, or the string older firmware wrote
ReadDoc(f, d) == IF f[d].blob # NoDoc THEN f[d].blob ELSE f[d].legacy

Part(f, d) == IF ReadDoc(f, d) \in {NoDoc, Bad} THEN DefaultValue ELSE ReadDoc(f, d)

\* load: with a rejected alerts document, none of the alerts' parts is used.
Loaded(f) ==
    LET doc  == ReadDoc(f, "config")
        none == Bad \in {ReadDoc(f, "alerts"), ReadDoc(f, "client")}
    IN  IF doc = NoDoc THEN Default
        ELSE [wifi |-> doc.wifi, main |-> doc.main,
              alerts |-> IF none THEN DefaultValue ELSE Part(f, "alerts"),
              client |-> IF none THEN DefaultValue ELSE Part(f, "client")]

\* A device without a document saves the defaults at its start.
WithDefaults(f) ==
    IF ReadDoc(f, "config") # NoDoc THEN f
    ELSE [d \in Docs |-> [blob |-> Document(Default, d), legacy |-> NoDoc]]

-----------------------------------------------------------------------------
(* One save, step by step: saveConfigCallback on either task.               *)

Steps == {"assignFirst", "assignRest", "encode", "alerts", "client", "config", "finish"}
Saving(task) == task.at \in Steps
Begin(next, restarts) == [at |-> "assignFirst", next |-> next, ok |-> TRUE, restarts |-> restarts]

\* The copy `config = newConfig` is not atomic for the other task.
AssignFirst(task) ==
    /\ task.at = "assignFirst"
    /\ settings' = [settings EXCEPT !.wifi = task.next.wifi, !.main = task.next.main]
    /\ UNCHANGED flash

AssignRest(task) ==
    /\ task.at = "assignRest"
    /\ settings' = [settings EXCEPT !.alerts = task.next.alerts, !.client = task.next.client]
    /\ UNCHANGED flash

\* config.save(): the documents are made of what `config` holds by now.
Encode(task, ok) == task.at = "encode" /\ UNCHANGED <<settings, flash>>

Skips(task, d) == d = "client" /\ ~task.ok

\* writeDoc: the blob, and then the string of older firmware goes (one step:
\* with both there, the blob is the one that is read).
WriteDoc(f, d, value) == [f EXCEPT ![d] = [blob |-> value, legacy |-> NoDoc]]

\* One document; a failing write leaves the old one.
Write(task, ok) ==
    /\ task.at \in Docs
    /\ UNCHANGED settings
    /\ flash' = IF Skips(task, task.at) \/ ~ok THEN flash
                ELSE WriteDoc(flash, task.at, Document(task.next, task.at))

\* wrong variant: the last document's success is the save's
StillOkLast(task, ok) == ok

\* A save succeeds when every document was written.
StillOk(task, ok) == task.ok /\ ok /\ ~Skips(task, task.at)

Following == [assignFirst |-> "assignRest", assignRest |-> "encode", encode |-> "alerts",
              alerts |-> "client", client |-> "config", config |-> "finish"]

\* A step of a save, and what the task does next: nothing is written when the
\* settings are refused (two copies mixed) or the storage can't be opened.
SaveStep(task, next) ==
    \E ok \in BOOLEAN :
        /\ AssignFirst(task) \/ AssignRest(task) \/ Encode(task, ok) \/ Write(task, ok)
        /\ task.at \in {"assignFirst", "assignRest"} => ok
        /\ next = [at |-> IF task.at = "encode" /\ ~ok THEN "finish" ELSE Following[task.at],
                   next |-> IF task.at = "encode" THEN settings ELSE task.next,
                   ok |-> StillOk(task, ok),
                   restarts |-> task.restarts]

\* Bookkeeping of the ghosts when a save ends.
Ended(task, other) ==
    /\ trusted' = (task.ok /\ ~overlap /\ ~Saving(other))
    /\ overlap' = Saving(other)

Began(other) == overlap' = (overlap \/ Saving(other))

\* A save that succeeded is counted.
Counted(task) == IF task.ok THEN revision + 1 ELSE revision

\* esp_restart, a crash or a power cut, at any moment.
Restart ==
    /\ settings' = Loaded(flash)
    /\ flash' \in {flash, WithDefaults(flash)}
    /\ revision' = 0
    /\ web' = Idle /\ loop' = Idle /\ job' = NoJob /\ staged' = NoStaged
    /\ join' = NotJoining /\ due' = FALSE
    /\ link' = NoNetwork /\ target' = settings'.wifi
    /\ overlap' = FALSE /\ trusted' = (flash' = WithDefaults(flash))
    /\ UNCHANGED requests

-----------------------------------------------------------------------------
(* The web task                                                             *)

Request == web.at = "idle" /\ requests < MaxRequests /\ requests' = requests + 1

\* PUT /api/config, or a dark calibration: a copy of the settings, changed.
Put ==
    /\ Request
    /\ \E p \in {"main", "alerts"} : \E v \in Values \ {settings[p]} :
         web' = Begin([settings EXCEPT ![p] = v], FALSE)
    /\ Began(loop)
    /\ UNCHANGED <<settings, flash, revision, loop, job, staged, join, link, target, due, trusted>>

WebSaves ==
    /\ SaveStep(web, web')
    /\ UNCHANGED <<revision, loop, job, staged, join, link, target, due, requests, overlap, trusted>>

\* The answer; a restore that needs it schedules a restart.
WebAnswers ==
    /\ web.at = "finish"
    /\ web' = Idle /\ revision' = Counted(web)
    /\ due' = (due \/ (web.ok /\ web.restarts))
    /\ Ended(web, loop)
    /\ UNCHANGED <<settings, flash, loop, job, staged, join, link, target, requests>>

\* handleWiFiConnect: the shared fields first, then the radio.
Connect(n) ==
    /\ Request
    /\ web' = [Idle EXCEPT !.at = "begin"]
    /\ join' = [active |-> TRUE, saved |-> FALSE, pending |-> n]
    /\ UNCHANGED <<settings, flash, revision, loop, job, staged, link, target, due, overlap, trusted>>

BeginJoin ==
    /\ web.at = "begin"
    /\ web' = Idle /\ link' = NoNetwork /\ target' = join.pending
    /\ UNCHANGED <<settings, flash, revision, loop, job, staged, join, due, requests, overlap, trusted>>

\* handleBackupStart (preview): the settings are copied, then the revision.
StartPreview ==
    /\ job.at = "none" /\ Request
    /\ web' = [Idle EXCEPT !.at = "capture"]
    /\ \E p \in {"wifi", "client"} : \E v \in (IF p = "wifi" THEN Networks ELSE Values) \ {settings[p]} :
         job' = [at |-> "started", base |-> settings, candidate |-> [settings EXCEPT ![p] = v],
                 revision |-> 0, raced |-> FALSE]
    /\ UNCHANGED <<settings, flash, revision, loop, staged, join, link, target, due, overlap, trusted>>

\* The task may not be created.
CaptureRevision ==
    /\ web.at = "capture"
    /\ web' = Idle
    /\ job' \in {[job EXCEPT !.at = "running", !.revision = revision, !.raced = (job.base # settings)], NoJob}
    /\ UNCHANGED <<settings, flash, revision, loop, staged, join, link, target, due, requests, overlap, trusted>>

\* wrong variant: the preview belongs to the settings as they are when it is done
StageLate(j) == [base |-> j.base, candidate |-> j.candidate, revision |-> revision, old |-> FALSE, raced |-> j.raced]

Stage(j) == [base |-> j.base, candidate |-> j.candidate, revision |-> j.revision, old |-> FALSE, raced |-> j.raced]

\* previewRestore: it replaces any earlier preview; or the backup is refused.
JobEnds ==
    /\ job.at = "running"
    /\ job' = NoJob
    /\ staged' \in {Stage(job), staged}
    /\ UNCHANGED <<settings, flash, revision, web, loop, join, link, target, due, requests, overlap, trusted>>

\* Ten minutes pass.
Ages ==
    /\ ~staged.old
    /\ staged' = [staged EXCEPT !.old = TRUE]
    /\ UNCHANGED <<settings, flash, revision, web, loop, job, join, link, target, due, requests, overlap, trusted>>

\* handleBackupApply, with the token of this preview or another's.
Apply ==
    /\ Request
    /\ \E match \in BOOLEAN :
         LET usable == ~staged.old /\ match
         IN  /\ staged' = IF usable \/ staged.old THEN NoStaged ELSE staged
             /\ IF usable /\ staged.revision = revision
                THEN /\ web' = Begin(staged.candidate, staged.candidate.wifi # staged.base.wifi)
                     /\ Began(loop)
                ELSE UNCHANGED <<web, overlap>>
    /\ UNCHANGED <<settings, flash, revision, loop, job, join, link, target, due, trusted>>

-----------------------------------------------------------------------------
(* The loop task                                                            *)

Online == link # NoNetwork

PollSeesLink ==
    /\ loop.at = "idle" /\ join.active /\ Online
    /\ loop' = [Idle EXCEPT !.at = IF join.saved THEN "restart" ELSE "copy"]
    /\ UNCHANGED <<settings, flash, revision, web, job, staged, join, link, target, due, requests, overlap, trusted>>

PollCopies ==
    /\ loop.at = "copy"
    /\ loop' = Begin([settings EXCEPT !.wifi = join.pending], FALSE)
    /\ Began(web)
    /\ UNCHANGED <<settings, flash, revision, web, job, staged, join, link, target, due, requests, trusted>>

LoopSaves ==
    /\ SaveStep(loop, loop')
    /\ UNCHANGED <<revision, web, job, staged, join, link, target, due, requests, overlap, trusted>>

LoopSaved ==
    /\ loop.at = "finish"
    /\ loop' = [Idle EXCEPT !.at = "restart"]
    /\ revision' = Counted(loop)
    /\ join' = [join EXCEPT !.saved = loop.ok]
    /\ Ended(loop, web)
    /\ UNCHANGED <<settings, flash, web, job, staged, link, target, due, requests>>

\* The restart is scheduled by what wifiConnectConfigSaved says by now.
PollEnds ==
    /\ loop.at = "restart"
    /\ loop' = Idle
    /\ due' = (due \/ join.saved)
    /\ join' = [join EXCEPT !.active = FALSE, !.pending = NoNetwork]
    /\ UNCHANGED <<settings, flash, revision, web, job, staged, link, target, requests, overlap, trusted>>

PollGivesUp ==
    /\ loop.at = "idle" /\ join.active /\ ~Online
    /\ join' = [join EXCEPT !.active = FALSE, !.pending = NoNetwork]
    /\ link' = NoNetwork /\ target' = NoNetwork
    /\ UNCHANGED <<settings, flash, revision, web, loop, job, staged, due, requests, overlap, trusted>>

\* The radio (external): the network it tries answers, or is lost.
Links ==
    /\ link' \in {target, NoNetwork} \ {link}
    /\ UNCHANGED <<settings, flash, revision, web, loop, job, staged, join, target, due, requests, overlap, trusted>>

-----------------------------------------------------------------------------

\* Flash with nothing in it, or as older firmware and a damaged part left it.
Left ==
    LET none == [blob |-> NoDoc, legacy |-> NoDoc]
    IN  {[d \in Docs |-> none]}
          \union {[alerts |-> [none EXCEPT !.legacy = v], client |-> [none EXCEPT !.blob = Bad],
                   config |-> [none EXCEPT !.legacy = [wifi |-> NoNetwork, main |-> v]]] :
                     v \in Values \ {DefaultValue}}

Init ==
    /\ flash \in Left /\ settings = Loaded(flash)
    /\ revision = 0 /\ web = Idle /\ loop = Idle /\ job = NoJob /\ staged = NoStaged
    /\ join = NotJoining /\ link = NoNetwork /\ target = settings.wifi
    /\ due = FALSE /\ requests = 0 /\ overlap = FALSE
    /\ trusted = (WithDefaults(flash) = flash)

WebNext == Put \/ WebSaves \/ WebAnswers \/ (\E n \in Networks : Connect(n)) \/ BeginJoin
             \/ StartPreview \/ CaptureRevision \/ Apply
LoopNext == PollSeesLink \/ PollCopies \/ LoopSaves \/ LoopSaved \/ PollEnds \/ PollGivesUp
Next == WebNext \/ LoopNext \/ JobEnds \/ Ages \/ Links \/ Restart

Spec == Init /\ [][Next]_vars

-----------------------------------------------------------------------------
(* What the store promises                                                  *)

\* With no save going on and the last one a success of its own, a restart finds
\* the settings that are in effect: whatever older firmware left, whichever
\* documents an earlier failure or restart had left behind.
StoreMatches == ~Saving(web) /\ ~Saving(loop) /\ trusted => Loaded(flash) = settings

\* A restore is applied to the settings it was previewed on (FR-013), unless a
\* save failed since, or the loop task stores a network at that very moment or
\* did between the two reads the preview began with.
AppliedAsPreviewed ==
    [][Apply /\ web' # web =>
          staged.base = settings \/ staged.raced \/ ~trusted \/ Saving(loop)]_vars

=============================================================================
