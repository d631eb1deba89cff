---------------------------- MODULE LanguagePack ----------------------------
(***************************************************************************)
(* The one language file the device stores (LanguagePack, LanguageLogic).    *)
(* The web task applies a changed setting, starts a download or takes an     *)
(* upload; the loop task applies a change that had to wait and, once per     *)
(* boot, restores the file; download tasks fetch, check and install.  All of *)
(* them share one state field, the temporary file and the attempt marker,    *)
(* with no lock but the one on TLS sessions.                                *)
(*                                                                          *)
(* A file is its language and the firmware version it was made for; the      *)
(* description (META) is a separate file.  Of a download that goes wrong     *)
(* only the place matters.                                                  *)
(***************************************************************************)
EXTENDS Integers, FiniteSets

CONSTANTS
    Codes, English,     \* the languages with a file; the one without
    Versions,           \* firmware versions, 1..n
    Downloads,          \* names for the download tasks
    MaxChoices,         \* bound: changed settings
    MaxRestarts         \* bound: restarts

None == "none"

ASSUME LanguageAssumption ==
    /\ English \notin Codes /\ None \notin Codes
    /\ Versions \subseteq Nat /\ 1 \in Versions
    /\ MaxChoices \in Nat /\ MaxRestarts \in Nat

VARIABLES
    chosen,     \* config.language
    firmware,   \* the version that runs
    disk,       \* [file, temp, meta, marker]: /lang.json.gz, /lang.tmp, /lang.meta, /lang.try
    state,      \* state
    pending,    \* changePending
    checked,    \* restoreChecked
    starting,   \* per caller: what startDownload was let through for, before the state is set
    web,        \* the web task: a setting saved and not yet acted on, or idle
    task,       \* the download tasks: [at, code]
    tls,        \* the task that holds the TLS lock
    upload,     \* an upload under way: [pack, error]
    choices, restarts,  \* bounds
    aside,      \* ghost: since the last choice another file was uploaded, or no memory answered
    lapse       \* ghost: two writers of the same files, a restart within an install, or a
                \*   description that could not be written

languageVars == <<chosen, firmware, disk, state, pending, checked, starting, web, task, tls, upload,
          choices, restarts, aside, lapse>>

Idle == [at |-> "idle", code |-> None]
NoPack == [code |-> None, version |-> 0]
NoUpload == [pack |-> NoPack, error |-> FALSE]
NoStart == [code |-> None, by |-> None]
Running == state \in {"downloading", "restoring"}
Pack(code) == [code |-> code, version |-> firmware]

\* installedMatches: by its description, if there is a file at all
Matches(code) == disk.meta # NoPack /\ disk.file # NoPack /\ disk.meta = Pack(code)

Busy(t) == task[t].at # "idle"

\* ghost: another caller was let through to a download; someone writes the files
Starting(caller) == \E c \in {"web", "loop"} \ {caller} : starting[c] # NoStart
Writing(caller) == upload # NoUpload \/ Starting(caller) \/ \E t \in Downloads : Busy(t)

-----------------------------------------------------------------------------
(* What to do about a choice, and at boot                                   *)

\* wrong variant: a change during a download is refused instead of kept
ChangeActionNow(code) ==
    CASE code = English -> "remove"
      [] code # English /\ Matches(code) -> "use"
      [] OTHER -> "download"

ChangeAction(code) ==
    CASE Running -> "after"
      [] ~Running /\ code = English -> "remove"
      [] ~Running /\ code # English /\ Matches(code) -> "use"
      [] OTHER -> "download"

BootAction(unfinished) ==
    CASE chosen = English -> "nothing"
      [] chosen # English /\ Matches(chosen) -> "use"
      [] chosen # English /\ ~Matches(chosen) /\ unfinished -> "wait"
      [] OTHER -> "restore"

\* startDownload: refused while a download runs, or a firmware update does; let
\* through, it still has to set the state.
StartDownload(caller, code, by) ==
    IF Running THEN state' = "failed" /\ UNCHANGED starting
    ELSE \/ state' = "failed" /\ UNCHANGED starting
         \/ starting' = [starting EXCEPT ![caller] = [code |-> code, by |-> by]] /\ UNCHANGED state

\* remove()
Emptied == [file |-> NoPack, temp |-> NoPack, meta |-> NoPack, marker |-> FALSE]

\* onLanguageChanged, for a change that leaves `kept` as the pending flag
LanguageChanged(caller, code, kept) ==
    LET action == ChangeAction(code) IN
    /\ pending' = IF action = "after" THEN TRUE ELSE kept
    /\ disk' = IF action = "remove" THEN Emptied ELSE disk
    /\ lapse' = (lapse \/ Starting(caller) \/ (action = "remove" /\ Writing(caller)))
    /\ CASE action = "after" -> UNCHANGED <<state, starting>>
         [] action = "remove" -> state' = "idle" /\ UNCHANGED starting
         [] action = "use" -> state' = "installed" /\ UNCHANGED starting
         [] action = "download" -> StartDownload(caller, code, "change")

\* The state is set and the task created, if there is memory for it.
Create(caller) ==
    /\ starting[caller] # NoStart
    /\ lapse' = (lapse \/ Writing(caller))
    /\ starting' = [starting EXCEPT ![caller] = NoStart]
    /\ \/ /\ state' = IF starting[caller].by = "install" THEN "idle" ELSE "failed"
          /\ aside' = (aside \/ starting[caller].by = "install")
          /\ UNCHANGED task
       \/ \E t \in Downloads :
            /\ ~Busy(t)
            /\ task' = [task EXCEPT ![t] = [at |-> "begin", code |-> starting[caller].code]]
            /\ state' = IF starting[caller].by = "boot" THEN "restoring" ELSE "downloading"
            /\ UNCHANGED aside
    /\ UNCHANGED <<chosen, firmware, disk, pending, checked, web, tls, upload, choices, restarts>>

-----------------------------------------------------------------------------
(* The web task                                                             *)

WebFree == web = None /\ starting["web"] = NoStart
CountChoice == choices < MaxChoices /\ choices' = choices + 1

\* applySettings: the setting is saved, then acted on.
Choose ==
    /\ WebFree /\ CountChoice
    /\ chosen' \in (Codes \union {English}) \ {chosen}
    /\ web' = chosen'
    /\ aside' = FALSE
    /\ UNCHANGED <<firmware, disk, state, pending, checked, starting, task, tls, upload, restarts, lapse>>

ActOnChoice ==
    /\ web # None /\ web' = None
    /\ LanguageChanged("web", web, pending)
    /\ UNCHANGED <<chosen, firmware, checked, task, tls, upload, choices, restarts, aside>>

\* handleInstall: the language is asked for again.
Install ==
    /\ WebFree /\ CountChoice
    /\ chosen # English /\ ~Running
    /\ starting' = [starting EXCEPT !["web"] = [code |-> chosen, by |-> "install"]]
    /\ lapse' = (lapse \/ Writing("web"))
    /\ aside' = FALSE
    /\ UNCHANGED <<chosen, firmware, disk, state, pending, checked, web, task, tls, upload, restarts>>

\* handleUploadChunk, all of them: the temporary file is written.
UploadChunks ==
    /\ WebFree /\ upload = NoUpload /\ CountChoice
    /\ \E code \in Codes, version \in Versions, error \in BOOLEAN :
         LET pack == [code |-> code, version |-> version] IN
         /\ disk' = [disk EXCEPT !.temp = pack]
         /\ upload' = [pack |-> pack, error |-> error]
    /\ lapse' = (lapse \/ Writing("web"))
    /\ UNCHANGED <<chosen, firmware, state, pending, checked, starting, web, task, tls, restarts, aside>>

\* writeMeta: without a word the old one stays, if the file can't be opened.
MetaAfter(pack) == {pack, disk.meta}

\* install, in one piece where nothing comes between
Installed(pack) ==
    IF disk.temp = NoPack
    THEN disk' = [disk EXCEPT !.file = NoPack] /\ state' = "failed" /\ UNCHANGED lapse
    ELSE \E meta \in MetaAfter(pack) :
         /\ disk' = [disk EXCEPT !.file = disk.temp, !.meta = meta, !.temp = NoPack]
         /\ state' = "installed"
         /\ lapse' = (lapse \/ meta # pack)

\* handleUploadDone: refused, or installed as what the browser says it is.
UploadDone ==
    /\ WebFree /\ upload # NoUpload /\ upload' = NoUpload
    /\ IF upload.error THEN disk' = [disk EXCEPT !.temp = NoPack] /\ UNCHANGED <<state, lapse>>
       ELSE Installed(upload.pack)
    /\ aside' = (aside \/ (~upload.error /\ upload.pack # Pack(chosen)))
    /\ UNCHANGED <<chosen, firmware, pending, checked, starting, web, task, tls, choices, restarts>>

-----------------------------------------------------------------------------
(* The loop task                                                            *)

\* loop(): a change that had to wait.
PendingChange ==
    /\ pending /\ ~Running /\ starting["loop"] = NoStart
    /\ LanguageChanged("loop", chosen, FALSE)
    /\ UNCHANGED <<chosen, firmware, checked, web, task, tls, upload, choices, restarts, aside>>

\* loop(): once WiFi is up after a boot, the file is restored.  A download the
\* user has started by then loses its marker, and is shown as failed or installed.
RestoreCheck ==
    /\ ~checked /\ checked' = TRUE /\ starting["loop"] = NoStart
    /\ disk' = [disk EXCEPT !.marker = FALSE]
    /\ LET action == BootAction(disk.marker) IN
       CASE action = "nothing" -> UNCHANGED <<state, starting>>
         [] action = "use" -> state' = "installed" /\ UNCHANGED starting
         [] action = "wait" -> state' = "failed" /\ UNCHANGED starting
         [] action = "restore" -> StartDownload("loop", chosen, "boot")
    /\ lapse' = (lapse \/ Writing("loop"))
    /\ UNCHANGED <<chosen, firmware, pending, web, task, tls, upload, choices, restarts, aside>>

-----------------------------------------------------------------------------
(* The download task                                                        *)

Goes(t, to) == task' = [task EXCEPT ![t].at = to]
OthersUnchanged == UNCHANGED <<chosen, firmware, pending, checked, starting, web, upload, choices, restarts, aside>>
TaskUnchanged == OthersUnchanged /\ UNCHANGED lapse

\* The marker is written first; then the TLS session is waited for.
MarkAttempt(t) ==
    /\ task[t].at = "begin" /\ Goes(t, "session")
    /\ disk' = [disk EXCEPT !.marker = TRUE]
    /\ UNCHANGED <<state, tls>> /\ TaskUnchanged

\* Without it in 15 s the download fails: alerts, an update or another download hold it.
AwaitSession(t) ==
    /\ task[t].at = "session"
    /\ \/ tls = None /\ tls' = t /\ Goes(t, "fetch") /\ UNCHANGED state
       \/ state' = "failed" /\ Goes(t, "end") /\ UNCHANGED tls
    /\ UNCHANGED disk /\ TaskUnchanged

\* The checksum and the file: to the temporary one, which a failure removes.
Fetch(t) ==
    /\ task[t].at = "fetch"
    /\ \/ /\ disk' = [disk EXCEPT !.temp = Pack(task[t].code)]
          /\ Goes(t, "rename") /\ UNCHANGED state
       \/ \E temp \in {disk.temp, NoPack} :       \* no checksum or no space; no whole file
            disk' = [disk EXCEPT !.temp = temp] /\ state' = "failed" /\ Goes(t, "end")
    /\ UNCHANGED tls /\ TaskUnchanged

\* install: the old file goes and the new one takes its name ...
Rename(t) ==
    /\ task[t].at = "rename"
    /\ disk' = [disk EXCEPT !.file = disk.temp, !.temp = NoPack]
    /\ IF disk.temp = NoPack THEN state' = "failed" /\ Goes(t, "end")
       ELSE Goes(t, "describe") /\ UNCHANGED state
    /\ UNCHANGED tls /\ TaskUnchanged

\* wrong variant: described as what is chosen by now
DescribeChosen(t) ==
    /\ task[t].at = "describe" /\ Goes(t, "end")
    /\ \E meta \in MetaAfter(Pack(chosen)) :
         disk' = [disk EXCEPT !.meta = meta] /\ lapse' = (lapse \/ meta # Pack(chosen))
    /\ state' = "installed"
    /\ UNCHANGED tls /\ OthersUnchanged

\* ... and then its description.
Describe(t) ==
    /\ task[t].at = "describe" /\ Goes(t, "end")
    /\ \E meta \in MetaAfter(Pack(task[t].code)) :
         disk' = [disk EXCEPT !.meta = meta] /\ lapse' = (lapse \/ meta # Pack(task[t].code))
    /\ state' = "installed"
    /\ UNCHANGED tls /\ OthersUnchanged

\* The task ends: the lock is free and the attempt over.
Ends(t) ==
    /\ task[t].at = "end" /\ task' = [task EXCEPT ![t] = Idle]
    /\ tls' = IF tls = t THEN None ELSE tls
    /\ disk' = [disk EXCEPT !.marker = FALSE]
    /\ UNCHANGED state /\ TaskUnchanged

-----------------------------------------------------------------------------

\* A restart, into the same firmware or another one: all but the files is gone.
Restart ==
    /\ restarts < MaxRestarts /\ restarts' = restarts + 1
    /\ firmware' \in Versions
    /\ state' = "idle" /\ pending' = FALSE /\ checked' = FALSE
    /\ starting' = [c \in {"web", "loop"} |-> NoStart] /\ web' = None
    /\ task' = [t \in Downloads |-> Idle] /\ tls' = None /\ upload' = NoUpload
    /\ aside' = FALSE
    /\ lapse' = (lapse \/ \E t \in Downloads : task[t].at \in {"rename", "describe"})
    /\ UNCHANGED <<chosen, disk, choices>>

LanguageInit ==
    /\ chosen \in Codes \union {English} /\ firmware = 1
    /\ disk = Emptied
    /\ state = "idle" /\ pending = FALSE /\ checked = FALSE
    /\ starting = [c \in {"web", "loop"} |-> NoStart] /\ web = None
    /\ task = [t \in Downloads |-> Idle] /\ tls = None /\ upload = NoUpload
    /\ choices = 0 /\ restarts = 0 /\ aside = FALSE /\ lapse = FALSE

LoopStep == PendingChange \/ RestoreCheck \/ Create("loop")
WebStep == ActOnChoice \/ UploadDone \/ Create("web")
TaskStep(t) == MarkAttempt(t) \/ AwaitSession(t) \/ Fetch(t) \/ Rename(t) \/ Describe(t) \/ Ends(t)

LanguageNext ==
    \/ Choose \/ Install \/ UploadChunks \/ WebStep \/ LoopStep
    \/ (\E t \in Downloads : TaskStep(t))
    \/ Restart

\* The loop passes, with WiFi up in the end; requests and tasks are run.  No
\* fairness for what a user does, a restart, or a download that succeeds.
LanguageFairness ==
    /\ WF_languageVars(PendingChange) /\ WF_languageVars(RestoreCheck) /\ WF_languageVars(Create("loop"))
    /\ WF_languageVars(WebStep)
    /\ \A t \in Downloads : WF_languageVars(TaskStep(t))

LanguageSpec == LanguageInit /\ [][LanguageNext]_languageVars /\ LanguageFairness

-----------------------------------------------------------------------------
(* What the language file promises                                          *)

\* The file is what its description says, whatever choices, downloads that fail,
\* uploads and restarts come; unless two of them wrote at once, a restart came
\* within the installation, or the description could not be written.
FileIsDescribed ==
    ~lapse /\ disk.meta # NoPack /\ (\A t \in Downloads : task[t].at # "describe")
        => disk.file = disk.meta

\* What was chosen last is served in the end, also if it was chosen while another
\* language was on its way: the file is the chosen one, or it failed and says so;
\* unless another file was uploaded, or the files had a lapse.
Served ==
    \/ state = "failed"
    \/ IF chosen = English THEN state = "idle" ELSE Matches(chosen) /\ state = "installed"
ChoiceIsServed == <>[](Served \/ aside \/ lapse)
=============================================================================
