------------------------------ MODULE MCFlash -------------------------------
(***************************************************************************)
(* What flash keeps: the documents of the settings, and the firmware with   *)
(* its web UI.  Two tasks write each of them, and the device may restart     *)
(* between any two writes.  They share no state, so they are checked side by *)
(* side: each behaviour is one of them, and the other stays as it starts.    *)
(*                                                                          *)
(* Two update tasks, for the check that lets a second update start alone    *)
(* the first, and two uploads, for the drop that is noticed late; what is    *)
(* promised is about single steps, so what tells the tasks, or the uploads,  *)
(* apart is only their name.                                                *)
(***************************************************************************)
EXTENDS Naturals, FiniteSets, TLC

CONSTANTS
    Networks, Values, NoNetwork, NoDoc, Bad, MaxRequests,
    Tasks, Uploads

VARIABLES
    machine,
    settings, flash, revision, web, loop, job, staged, join, link, target, due,
    requests, overlap, trusted,
    phase, check, task, tls, update, spare, running, boots, confirmed, webUi, webUiOf,
    alone, upload, sending, fsUpload, restartDue

Store == INSTANCE SettingsStore
Firmware == INSTANCE FirmwareUpdate

ASSUME FlashAssumption == Store!StoreAssumption /\ Firmware!UpdateAssumption

storeVars == <<settings, flash, revision, web, loop, job, staged, join, link, target, due,
               requests, overlap, trusted>>
firmwareVars == <<phase, check, task, tls, update, spare, running, boots, confirmed, webUi, webUiOf,
                  alone, upload, sending, fsUpload, restartDue>>
vars == <<machine, storeVars, firmwareVars>>

OnlyStore == machine = "store" /\ UNCHANGED <<machine, firmwareVars>>
OnlyFirmware == machine = "firmware" /\ UNCHANGED <<machine, storeVars>>

\* One that stands still has one start.
Init ==
    /\ machine \in {"store", "firmware"}
    /\ Store!Init /\ (machine = "store" \/ trusted)
    /\ Firmware!Init

Next ==
    \/ OnlyStore /\ Store!Next
    \/ OnlyFirmware /\ Firmware!Next

Spec == Init /\ [][Next]_vars

-----------------------------------------------------------------------------
(* What each promises, stated in its module                                 *)

\* SettingsStore: a restart finds the settings that are in effect.
StoreMatches == Store!StoreMatches

\* SettingsStore: a restore is applied to the settings it was previewed on.
AppliedAsPreviewed == Store!AppliedAsPreviewed

\* FirmwareUpdate: the firmware is switched to with its web UI in place.
SwitchedAsAPair == Firmware!SwitchedAsAPair

\* FirmwareUpdate: a drop noticed late leaves the next upload alone.
LateDropSpares == Firmware!LateDropSpares

-----------------------------------------------------------------------------
Symmetry == Permutations(Tasks) \union Permutations(Uploads)
=============================================================================
