-------------------------- MODULE FirmwareUpdate ---------------------------
(***************************************************************************)
(* Updates of the firmware and of the web UI, from GitHub and by upload.    *)
(* The update from GitHub runs in a task of its own, the check for releases *)
(* in another; uploads arrive in chunks on the web task.  They share the    *)
(* phase of the updater, the one HTTPS session (TlsLock), the Update        *)
(* library with its single write to the spare slot, and the partition of    *)
(* the web UI.                                                              *)
(*                                                                          *)
(* The bootloader and the Update library are modelled as the code relies on *)
(* them: an image is verified before the boot slot is switched, an image    *)
(* that is not whole is never booted, and one that never was confirmed is   *)
(* left at the next boot.                                                   *)
(***************************************************************************)
EXTENDS Naturals, FiniteSets

CONSTANTS
    Tasks,     \* the update tasks that may run
    Uploads    \* the requests that may upload firmware

UpdateAssumption ==
    /\ Tasks \cap {"free", "check", "other", "web", "none"} = {}
    /\ "none" \notin Uploads

VARIABLES
    phase,      \* OtaUpdater::currentPhase: downloading or writing, or neither
    check,      \* the task that looks for releases
    task,       \* where each update task is
    tls,        \* who has the HTTPS session
    update,     \* the Update library: whose image it is writing, and mixed?
    spare,      \* what is in the slot that is not running
    running,    \* ... and in the one that is
    boots,      \* which of the two boots next
    confirmed,  \* the running firmware is kept
    webUi,      \* the partition of the web UI
    webUiOf,    \* who erased it last and writes it, nobody else having come in
    alone,      \* the update under way had the phase and the web UI to itself (a ghost)
    upload,     \* firmwareUploadRequest, firmwareUploadComplete
    sending,    \* the requests still sending firmware
    fsUpload,   \* an upload of the web UI is under way
    restartDue

tasks == <<phase, check, task, tls, alone>>
slots == <<spare, running, boots, confirmed>>
fs == <<webUi, webUiOf, fsUpload>>
web == <<upload, sending>>
vars == <<tasks, update, slots, fs, web, restartDue>>

Images == {"new", "bad", "foreign"}  \* bad: it does not come up
NoUpdate == [owner |-> "none", mixed |-> FALSE]
NoUpload == [request |-> "none", complete |-> FALSE]

TypeOK ==
    /\ phase \in {"idle", "busy"}
    /\ check \in {"none", "wait", "fetch"}
    /\ task \in [Tasks -> {"none", "wait", "webUi", "webUiWrite", "firmware", "firmwareWrite"}]
    /\ tls \in {"free", "check", "other"} \union Tasks
    /\ update \in [owner : {"none", "web"} \union Tasks, mixed : BOOLEAN]
    /\ spare \in {"old", "new", "bad", "partial"} /\ running \in {"old", "new", "bad"}
    /\ boots \in {"running", "spare"} /\ confirmed \in BOOLEAN
    /\ webUi \in {"old", "new", "partial"}
    /\ webUiOf \in {"none", "web"} \union Tasks
    /\ alone \in BOOLEAN
    /\ upload \in [request : Uploads \union {"none"}, complete : BOOLEAN]
    /\ sending \subseteq Uploads
    /\ fsUpload \in BOOLEAN /\ restartDue \in BOOLEAN

Init ==
    /\ phase = "idle" /\ check = "none" /\ task = [t \in Tasks |-> "none"] /\ tls = "free"
    /\ update = NoUpdate
    /\ running = "old" /\ spare = "old" /\ boots = "running" /\ confirmed = TRUE
    /\ webUi = "old" /\ webUiOf = "none" /\ fsUpload = FALSE /\ alone = TRUE
    /\ upload = NoUpload /\ sending = {}
    /\ restartDue = FALSE

-----------------------------------------------------------------------------
(* Whether nothing disturbed the updates since the first of them began: no  *)
(* check wrote the phase, no upload of the web UI was under way too, and no *)
(* download was taken for whole although nobody knew its size.              *)

Stays(undisturbed) == alone' = (undisturbed \/ \A t \in Tasks : task'[t] = "none")

\* The check writes the phase whatever an update makes of it meanwhile.
Checked == phase' = "idle" /\ Stays(FALSE)

-----------------------------------------------------------------------------
(* The HTTPS session                                                        *)

Free(who) == IF tls = who THEN "free" ELSE tls

(* An alert or a language file is sent or fetched.                          *)
OtherSession ==
    /\ \/ tls = "free" /\ phase = "idle" /\ tls' = "other"
       \/ tls = "other" /\ tls' = "free"
    /\ UNCHANGED <<phase, check, task, alone, update, slots, fs, web, restartDue>>

-----------------------------------------------------------------------------
(* The check for releases                                                   *)

(* One at a time; without memory for the list it ends at once.              *)
StartCheck ==
    /\ check = "none"
    /\ check' \in {"wait", "none"}
    /\ UNCHANGED <<task, tls, update, slots, fs, web, restartDue>>
    /\ Checked

(* It waits 15 seconds for the session.                                     *)
AwaitCheck ==
    /\ check = "wait"
    /\ UNCHANGED <<task, update, slots, fs, web, restartDue>>
    /\ IF tls = "free"
       THEN tls' = "check" /\ check' = "fetch" /\ UNCHANGED <<phase, alone>>
       ELSE tls' = tls /\ check' = "none" /\ Checked

(* The list was read, a second try included, or not.                        *)
EndCheck ==
    /\ check = "fetch" /\ check' = "none"
    /\ tls' = Free("check")
    /\ UNCHANGED <<task, update, slots, fs, web, restartDue>>
    /\ Checked

-----------------------------------------------------------------------------
(* The update from GitHub                                                   *)

\* wrong variant: does not look whether an update is under way
ApplyAnyway ==
    /\ phase' = "busy"
    /\ \E t \in Tasks : task[t] = "none" /\ task' = [task EXCEPT ![t] = "wait"]
    /\ Stays(alone /\ ~fsUpload)
    /\ UNCHANGED <<check, tls, update, slots, fs, web, restartDue>>

(* applyUpdate: refused while one runs, as far as the phase tells.  Nobody  *)
(* looks whether the task could be created.                                 *)
Apply ==
    /\ phase = "idle" /\ phase' = "busy"
    /\ \/ task' = task
       \/ \E t \in Tasks : task[t] = "none" /\ task' = [task EXCEPT ![t] = "wait"]
    /\ Stays(alone /\ ~fsUpload)
    /\ UNCHANGED <<check, tls, update, slots, fs, web, restartDue>>

(* The task waits a minute for the session and goes on with it or without.  *)
AwaitApply(t) ==
    /\ task[t] = "wait" /\ task' = [task EXCEPT ![t] = "webUi"]
    /\ tls' = IF tls = "free" THEN t ELSE tls
    /\ UNCHANGED <<phase, check, alone, update, slots, fs, web, restartDue>>

Fails(t) ==
    /\ task' = [task EXCEPT ![t] = "none"]
    /\ phase' = "idle" /\ tls' = Free(t)
    /\ Stays(alone)

(* The web UI comes first: its partition is erased, unless the image is for *)
(* another layout.                                                          *)
EraseWebUi(t) ==
    /\ task[t] = "webUi"
    /\ \/ Fails(t) /\ UNCHANGED <<webUi, webUiOf>>
       \/ /\ webUi' = "partial"
          /\ \/ Fails(t) /\ webUiOf' = "none"
             \/ /\ task' = [task EXCEPT ![t] = "webUiWrite"] /\ phase' = "busy"
                /\ webUiOf' = t /\ UNCHANGED <<tls, alone>>
    /\ UNCHANGED <<check, update, slots, fsUpload, web, restartDue>>

\* What the partition holds when who has written all of it.
Written(who) == IF webUiOf = who THEN "new" ELSE "partial"

(* The download ends and was written, all of it or what came of it: a part  *)
(* is told from the whole by its size, when the server or the release tells *)
(* it (streamDownload).                                                     *)
WriteWebUi(t) ==
    /\ task[t] = "webUiWrite"
    /\ \/ Fails(t) /\ UNCHANGED webUi
       \/ /\ task' = [task EXCEPT ![t] = "firmware"] /\ UNCHANGED <<phase, tls>>
          /\ \/ webUi' = Written(t) /\ UNCHANGED alone
             \/ webUi' = "partial" /\ Stays(FALSE)
    /\ webUiOf' = "none"
    /\ UNCHANGED <<check, update, slots, fsUpload, web, restartDue>>

\* Update.begin by who: the spare slot is erased as it is written.
Begins(who) ==
    /\ update' = [owner |-> who, mixed |-> FALSE]
    /\ spare' = "partial"

(* Update.begin refuses a second update.                                    *)
BeginFirmware(t) ==
    /\ task[t] = "firmware"
    /\ IF update.owner = "none"
       THEN /\ Begins(t) /\ task' = [task EXCEPT ![t] = "firmwareWrite"]
            /\ phase' = "busy" /\ UNCHANGED <<tls, alone>>
       ELSE Fails(t) /\ UNCHANGED <<update, spare>>
    /\ UNCHANGED <<check, running, boots, confirmed, fs, web, restartDue>>

\* Whether the image in the spare slot is whole and this device's
\* (FirmwareImage::check, and the verification in Update.end).
Accepted(who, image) == update.owner = who /\ ~update.mixed /\ image # "foreign"

\* Update.end: the image is accepted and the slot switched, on a retry perhaps.
Switches(image) == spare' = image /\ boots' = "spare"

(* The firmware was written, found good and switched to; then the restart.  *)
(* Anything else aborts what the Update library is doing.                   *)
WriteFirmware(t) ==
    /\ task[t] = "firmwareWrite"
    /\ update' = NoUpdate
    /\ \/ Fails(t) /\ UNCHANGED <<spare, boots, restartDue>>
       \/ \E image \in Images :
             /\ Accepted(t, image) /\ Switches(image)
             /\ phase' = "idle" /\ restartDue' = TRUE
             /\ task' = [task EXCEPT ![t] = "none"] /\ tls' = Free(t) /\ Stays(alone)
    /\ UNCHANGED <<check, running, confirmed, fs, web>>

-----------------------------------------------------------------------------
(* Uploads                                                                  *)

(* The first chunk aborts what the Update library is doing and begins anew. *)
BeginUpload(r) ==
    /\ r \notin sending
    /\ upload' = [request |-> r, complete |-> FALSE]
    /\ sending' = sending \union {r}
    /\ Begins("web")
    /\ UNCHANGED <<tasks, running, boots, confirmed, fs, restartDue>>

(* A chunk of an upload, or of a download, that the image is not of.        *)
WriteStray ==
    /\ update.owner # "none" /\ update' = [update EXCEPT !.mixed = TRUE]
    /\ \/ \E t \in Tasks \ {update.owner} : task[t] = "firmwareWrite"
       \/ sending \ (IF update.owner = "web" THEN {upload.request} ELSE {}) # {}
    /\ UNCHANGED <<tasks, slots, fs, web, restartDue>>

(* The last chunk: the image is checked, the slot switched, and the answer  *)
(* promises a restart.                                                      *)
EndUpload(r) ==
    /\ r \in sending /\ sending' = sending \ {r}
    /\ upload' = IF upload.request = r THEN NoUpload ELSE [upload EXCEPT !.complete = TRUE]
    /\ update' = NoUpdate
    /\ \/ UNCHANGED <<spare, boots, restartDue>>
       \/ \E image \in Images :
             /\ upload.request = r /\ Accepted("web", image)
             /\ Switches(image) /\ restartDue' = TRUE
    /\ UNCHANGED <<tasks, running, confirmed, fs>>

\* wrong variant: the drop of an earlier upload abandons the one under way
AbandonedAny(r) == ~upload.complete

\* abandonUnfinishedUpload: only the request the update belongs to ends it.
Abandoned(r) == r = upload.request /\ ~upload.complete

(* The connection of an upload drops before the end.                        *)
DropUpload(r) ==
    /\ r \in sending /\ sending' = sending \ {r}
    /\ upload' = IF upload.request = r THEN NoUpload ELSE upload
    /\ update' = IF Abandoned(r) THEN NoUpdate ELSE update
    /\ UNCHANGED <<tasks, slots, fs, restartDue>>

(* The web UI, unless its size is another layout's: the partition is erased *)
(* and, as the file system is gone with it, the device restarts after all   *)
(* of it or an error.  A connection that drops leaves it as it is.          *)
BeginFsUpload ==
    /\ ~fsUpload /\ fsUpload' = TRUE
    /\ webUi' = "partial" /\ webUiOf' = "web"
    /\ UNCHANGED <<phase, check, task, tls, update, slots, web, restartDue>>
    /\ Stays(FALSE)

EndFsUpload ==
    /\ fsUpload /\ fsUpload' = FALSE
    /\ \/ webUi' = Written("web") /\ restartDue' = TRUE
       \/ webUi' = webUi /\ restartDue' \in {restartDue, TRUE}
    /\ webUiOf' = "none"
    /\ UNCHANGED <<tasks, update, slots, web>>

-----------------------------------------------------------------------------
(* Starting                                                                 *)

\* The bootloader takes the other slot: it was switched to, or the running
\* firmware was never confirmed.  One that is not whole is not booted.
BootsOther == (boots = "spare" \/ ~confirmed) /\ spare # "partial"

Boot ==
    /\ running' = IF BootsOther THEN spare ELSE running
    /\ spare' = IF BootsOther THEN running ELSE spare
    /\ confirmed' = (confirmed /\ ~(BootsOther /\ boots = "spare"))
    /\ boots' = "running"
    /\ phase' = "idle" /\ check' = "none" /\ task' = [t \in Tasks |-> "none"] /\ tls' = "free"
    /\ alone' = TRUE
    /\ update' = NoUpdate /\ upload' = NoUpload /\ sending' = {}
    /\ fsUpload' = FALSE /\ webUiOf' = "none" /\ restartDue' = FALSE
    /\ UNCHANGED webUi

Restart == restartDue /\ Boot

(* Firmware that does not come up crashes or is reset by its watchdog.      *)
Crash == running = "bad" /\ ~confirmed /\ Boot

PowerCut == Boot

(* The loop runs and Bluetooth is up.                                       *)
Confirm ==
    /\ ~confirmed /\ running # "bad" /\ confirmed' = TRUE
    /\ UNCHANGED <<tasks, update, spare, running, boots, fs, web, restartDue>>

Check == StartCheck \/ AwaitCheck \/ EndCheck
Work(t) == AwaitApply(t) \/ EraseWebUi(t) \/ WriteWebUi(t) \/ BeginFirmware(t) \/ WriteFirmware(t)

Next ==
    \/ OtherSession
    \/ Check
    \/ Apply
    \/ \E t \in Tasks : Work(t)
    \/ \E r \in Uploads : BeginUpload(r) \/ EndUpload(r) \/ DropUpload(r)
    \/ WriteStray
    \/ BeginFsUpload \/ EndFsUpload
    \/ Restart \/ Crash \/ PowerCut \/ Confirm

Spec == Init /\ [][Next]_vars

-----------------------------------------------------------------------------
(* What updates promise                                                     *)

\* An update from GitHub switches to the new firmware only with all of its web
\* UI in place (runApply: file system first, firmware last).  Updates are kept
\* apart by the phase alone, so three things can break the pair, and only they
\* are left out: a check for releases that wrote the phase while an update was
\* under way, and let another in; an upload of the web UI beside it; a download
\* that was cut short and whose size nobody told.
SwitchedAsAPair ==
    [][\A t \in Tasks :
         WriteFirmware(t) /\ boots' = "spare" /\ boots = "running" /\ alone => webUi = "new"]_vars

\* What the code says of it, "so the device never boots with a firmware/web-UI
\* version mismatch" (runApply), with nothing left out.  It does not hold: each
\* of the three has its behaviour.
SwitchedAsDocumented ==
    [][\A t \in Tasks :
         WriteFirmware(t) /\ boots' = "spare" /\ boots = "running" => webUi = "new"]_vars

\* A drop noticed after the next upload has begun leaves that one alone: an
\* image being uploaded goes on until its own request ends it, another upload
\* begins, or an update from GitHub or a chunk of another upload breaks in.
LateDropSpares ==
    [][update.owner = "web" /\ upload.request \in sending /\ upload.request \in sending'
         /\ task' = task /\ upload' = upload => update'.owner = "web"]_vars
=============================================================================
