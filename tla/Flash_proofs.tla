---------------------------- MODULE Flash_proofs ----------------------------
(***************************************************************************)
(* Proofs about the machines of MCFlash.  For every set of networks and      *)
(* values and any number of requests, a restart finds the settings in effect *)
(* (StoreMatches) and a restore meets the settings it was previewed on       *)
(* (AppliedAsPreviewed).  For any number of update tasks and uploads, the    *)
(* firmware is switched to with its web UI in place (SwitchedAsAPair), and a *)
(* late drop spares the next upload (LateDropSpares).                        *)
(*                                                                          *)
(* The first needs what a save that runs alone has written so far, and that  *)
(* the settings do not move under it (SaveOnItsWay); the second, that        *)
(* whatever moves the settings without being counted spoils the trust, until *)
(* a save that is counted restores it (Current).  The third needs that a     *)
(* task which got past the web UI, and was alone there, left it whole        *)
(* (PairInHand); the fourth, that an image being uploaded is not one whose   *)
(* request was answered already (UploadGoesOn).                              *)
(***************************************************************************)
EXTENDS MCFlash, TLAPS

Joinable == Networks \union {NoNetwork}
Configs == [wifi : Joinable, main : Values, alerts : Values, client : Values]
MainDocs == [wifi : Joinable, main : Values]
Contents(d) == IF d = "config" THEN MainDocs ELSE Values
Kept(d) == Contents(d) \union (IF d = "config" THEN {NoDoc} ELSE {NoDoc, Bad})
Savers == [at : Store!Steps \union {"idle", "begin", "capture", "copy", "restart"},
          next : Configs, ok : BOOLEAN, restarts : BOOLEAN]
Joins == [active : BOOLEAN, saved : BOOLEAN, pending : Joinable]
Jobs == [at : {"none", "started", "running"}, base : Configs, candidate : Configs,
         revision : Nat, raced : BOOLEAN]
Previews == [base : Configs, candidate : Configs, revision : Nat, old : BOOLEAN, raced : BOOLEAN]

FlashOK(f) ==
    /\ DOMAIN f = Store!Docs
    /\ \A d \in Store!Docs : f[d] \in [blob : Kept(d), legacy : Kept(d)]

StoreTypeOK ==
    /\ settings \in Configs /\ FlashOK(flash) /\ revision \in Nat
    /\ web \in Savers /\ loop \in Savers
    /\ job \in Jobs /\ staged \in Previews /\ join \in Joins
    /\ link \in Joinable /\ target \in Joinable
    /\ due \in BOOLEAN /\ overlap \in BOOLEAN /\ trusted \in BOOLEAN

\* The documents a save has behind it.
Written(at) == CASE at = "client" -> {"alerts"}
                 [] at = "config" -> {"alerts", "client"}
                 [] at = "finish" -> Store!Docs
                 [] OTHER -> {}

\* What a save that succeeded so far has done, with nobody in its way.
OnItsWay(saver, f, s) ==
    saver.at \notin {"assignFirst", "assignRest", "encode"}
      => saver.next = s /\ \A d \in Written(saver.at) : f[d].blob = Store!Document(saver.next, d)

SaveOnItsWay(saver) == Store!Saving(saver) /\ ~overlap /\ saver.ok => OnItsWay(saver, flash, settings)

Overlapping == Store!Saving(web) /\ Store!Saving(loop) => overlap

\* What was taken at the revision there is is what is in effect.
Current(r) ==
    /\ r.revision <= revision
    /\ r.revision = revision /\ ~r.raced /\ trusted /\ ~Store!Saving(web) /\ ~Store!Saving(loop)
         => r.base = settings

StoreInv ==
    /\ StoreTypeOK
    /\ SaveOnItsWay(web) /\ SaveOnItsWay(loop) /\ Overlapping
    /\ Store!StoreMatches
    /\ job.at = "running" => Current(job)
    /\ ~staged.old => Current(staged)

-----------------------------------------------------------------------------
(* The documents                                                           *)

\* Nothing that is stored is taken for a missing or a damaged document.
LEMMA ContentsAreNoMark ==
    ASSUME Store!StoreAssumption, NEW d \in Store!Docs, NEW v \in Contents(d)
    PROVE  v # NoDoc /\ v # Bad /\ v \in Kept(d)
<1>1. MainDocs \cap {NoDoc, Bad} = {} BY DEF Store!StoreAssumption, MainDocs, Joinable
<1>2. Values \cap {NoDoc, Bad} = {} BY DEF Store!StoreAssumption
<1> QED BY <1>1, <1>2 DEF Contents, Kept

LEMMA DocumentTypes ==
    ASSUME NEW c \in Configs, NEW d \in Store!Docs
    PROVE  Store!Document(c, d) \in Contents(d)
<1>1. CASE d = "config" BY <1>1 DEF Store!Document, Contents, Configs, MainDocs
<1>2. CASE d = "alerts" BY <1>2 DEF Store!Document, Contents, Configs
<1>3. CASE d = "client" BY <1>3 DEF Store!Document, Contents, Configs
<1> QED BY <1>1, <1>2, <1>3 DEF Store!Docs

LEMMA DefaultTypes == ASSUME Store!StoreAssumption PROVE Store!Default \in Configs
  BY DEF Store!StoreAssumption, Store!Default, Configs, Joinable

\* What load makes of the flash is a configuration.
LEMMA LoadedTypes ==
    ASSUME Store!StoreAssumption, NEW f, FlashOK(f)
    PROVE  Store!Loaded(f) \in Configs
<1>1. ASSUME NEW d \in Store!Docs PROVE Store!ReadDoc(f, d) \in Kept(d)
  BY DEF FlashOK, Store!ReadDoc
<1>2. "config" \in Store!Docs /\ "alerts" \in Store!Docs /\ "client" \in Store!Docs BY DEF Store!Docs
<1>3. Store!Part(f, "alerts") \in Values /\ Store!Part(f, "client") \in Values
  BY <1>1, <1>2 DEF Store!Part, Kept, Contents, Store!StoreAssumption
<1>4. Store!ReadDoc(f, "config") \in MainDocs \union {NoDoc}
  BY <1>1, <1>2 DEF Kept, Contents
<1>5. Store!DefaultValue \in Values BY DEF Store!StoreAssumption
<1>6. CASE Store!ReadDoc(f, "config") = NoDoc
  BY <1>6, DefaultTypes DEF Store!Loaded
<1>7. CASE Store!ReadDoc(f, "config") # NoDoc
  <2> DEFINE doc  == Store!ReadDoc(f, "config")
             none == Bad \in {Store!ReadDoc(f, "alerts"), Store!ReadDoc(f, "client")}
             a    == IF none THEN Store!DefaultValue ELSE Store!Part(f, "alerts")
             c    == IF none THEN Store!DefaultValue ELSE Store!Part(f, "client")
  <2>1. Store!Loaded(f) = [wifi |-> doc.wifi, main |-> doc.main, alerts |-> a, client |-> c]
    BY <1>7 DEF Store!Loaded
  <2>2. doc.wifi \in Joinable /\ doc.main \in Values BY <1>4, <1>7 DEF MainDocs
  <2>3. a \in Values /\ c \in Values BY <1>3, <1>5
  <2> HIDE DEF doc, none, a, c
  <2> QED BY <2>1, <2>2, <2>3 DEF Configs
<1> QED BY <1>6, <1>7

\* With every document written, load finds what was written.
LEMMA WrittenIsLoaded ==
    ASSUME Store!StoreAssumption, NEW f, NEW c \in Configs,
           \A d \in Store!Docs : f[d].blob = Store!Document(c, d)
    PROVE  Store!Loaded(f) = c
<1>1. ASSUME NEW d \in Store!Docs
      PROVE  /\ Store!ReadDoc(f, d) = Store!Document(c, d)
             /\ Store!ReadDoc(f, d) # NoDoc /\ Store!ReadDoc(f, d) # Bad
  <2>1. Store!Document(c, d) # NoDoc /\ Store!Document(c, d) # Bad BY DocumentTypes, ContentsAreNoMark
  <2> QED BY <2>1 DEF Store!ReadDoc
<1>2. "config" \in Store!Docs /\ "alerts" \in Store!Docs /\ "client" \in Store!Docs BY DEF Store!Docs
<1>3. Store!ReadDoc(f, "config") = [wifi |-> c.wifi, main |-> c.main] /\ Store!ReadDoc(f, "config") # NoDoc
  BY <1>1, <1>2 DEF Store!Document
<1>4. /\ Store!ReadDoc(f, "alerts") = c.alerts /\ Store!ReadDoc(f, "alerts") \notin {NoDoc, Bad}
      /\ Store!ReadDoc(f, "client") = c.client /\ Store!ReadDoc(f, "client") \notin {NoDoc, Bad}
  BY <1>1, <1>2 DEF Store!Document
<1>5. Store!Part(f, "alerts") = c.alerts /\ Store!Part(f, "client") = c.client
  BY <1>4 DEF Store!Part
<1>6. Store!Loaded(f) = [wifi |-> c.wifi, main |-> c.main, alerts |-> c.alerts, client |-> c.client]
  BY <1>3, <1>4, <1>5 DEF Store!Loaded
<1> QED BY <1>6 DEF Configs

\* The defaults a device without a document saves are what load gave it.
LEMMA DefaultsAreLoaded ==
    ASSUME Store!StoreAssumption, NEW f, FlashOK(f)
    PROVE  FlashOK(Store!WithDefaults(f)) /\ Store!Loaded(Store!WithDefaults(f)) = Store!Loaded(f)
<1>1. CASE Store!ReadDoc(f, "config") # NoDoc
  BY <1>1 DEF Store!WithDefaults
<1>2. CASE Store!ReadDoc(f, "config") = NoDoc
  <2> DEFINE g == [d \in Store!Docs |-> [blob |-> Store!Document(Store!Default, d), legacy |-> NoDoc]]
  <2>1. Store!WithDefaults(f) = g BY <1>2 DEF Store!WithDefaults
  <2>2. ASSUME NEW d \in Store!Docs
        PROVE  g[d] \in [blob : Kept(d), legacy : Kept(d)] /\ g[d].blob = Store!Document(Store!Default, d)
    <3>1. Store!Document(Store!Default, d) \in Kept(d)
      BY DefaultTypes, DocumentTypes, ContentsAreNoMark
    <3>2. NoDoc \in Kept(d) BY DEF Kept
    <3> QED BY <3>1, <3>2
  <2>3. DOMAIN g = Store!Docs OBVIOUS
  <2> HIDE DEF g
  <2>4. FlashOK(g) BY <2>2, <2>3 DEF FlashOK
  <2>5. Store!Loaded(g) = Store!Default BY <2>2, DefaultTypes, WrittenIsLoaded
  <2>6. Store!Loaded(f) = Store!Default BY <1>2 DEF Store!Loaded
  <2> QED BY <2>1, <2>4, <2>5, <2>6
<1> QED BY <1>1, <1>2

-----------------------------------------------------------------------------
(* A save                                                                  *)

LEMMA BeginTypes ==
    ASSUME NEW c \in Configs, NEW r \in BOOLEAN
    PROVE  Store!Begin(c, r) \in Savers /\ Store!Begin(c, r).at = "assignFirst" /\ Store!Begin(c, r).next = c
  BY DEF Store!Begin, Savers, Store!Steps

\* One step of a save: it stays on its way, as far as it succeeded.
LEMMA SaveStepKeeps ==
    ASSUME Store!StoreAssumption, settings \in Configs, FlashOK(flash),
           NEW saver \in Savers, NEW next, Store!SaveStep(saver, next)
    PROVE  /\ Store!Saving(saver) /\ next \in Savers /\ Store!Saving(next)
           /\ settings' \in Configs /\ FlashOK(flash')
           /\ next.ok => saver.ok
           /\ next.ok /\ OnItsWay(saver, flash, settings) => OnItsWay(next, flash', settings')
<1>1. PICK ok \in BOOLEAN :
        /\ \/ Store!AssignFirst(saver) \/ Store!AssignRest(saver)
           \/ Store!Encode(saver, ok) \/ Store!Write(saver, ok)
        /\ next = [at |-> IF saver.at = "encode" /\ ~ok THEN "finish" ELSE Store!Following[saver.at],
                   next |-> IF saver.at = "encode" THEN settings ELSE saver.next,
                   ok |-> Store!StillOk(saver, ok),
                   restarts |-> saver.restarts]
  BY Zenon DEF Store!SaveStep
<1>2. saver.at \in {"assignFirst", "assignRest", "encode", "alerts", "client", "config"}
  BY <1>1 DEF Store!AssignFirst, Store!AssignRest, Store!Encode, Store!Write, Store!Docs
<1>3. Store!Saving(saver) BY <1>2 DEF Store!Saving, Store!Steps
<1>4. /\ saver.next \in Configs /\ saver.ok \in BOOLEAN /\ saver.restarts \in BOOLEAN
  BY DEF Savers
<1>5. Store!StillOk(saver, ok) \in BOOLEAN /\ (Store!StillOk(saver, ok) => saver.ok /\ ok)
  BY <1>4 DEF Store!StillOk
<1>6. Store!Following[saver.at] \in Store!Steps
  BY <1>2 DEF Store!Following, Store!Steps
<1>7. /\ next.at = (IF saver.at = "encode" /\ ~ok THEN "finish" ELSE Store!Following[saver.at])
      /\ next.next = (IF saver.at = "encode" THEN settings ELSE saver.next)
      /\ next.ok = Store!StillOk(saver, ok)
  BY <1>1
<1>8. next \in Savers /\ Store!Saving(next)
  <2>1. next.at \in Store!Steps BY <1>6, <1>7 DEF Store!Steps
  <2>2. next.next \in Configs BY <1>4, <1>7
  <2> QED BY <1>1, <1>4, <1>5, <1>7, <2>1, <2>2 DEF Savers, Store!Saving
<1>9. settings' \in Configs
  <2>1. CASE Store!AssignFirst(saver)
    <3>1. settings' = [settings EXCEPT !.wifi = saver.next.wifi, !.main = saver.next.main]
      BY <2>1 DEF Store!AssignFirst
    <3> QED BY <1>4, <3>1 DEF Configs
  <2>2. CASE Store!AssignRest(saver)
    <3>1. settings' = [settings EXCEPT !.alerts = saver.next.alerts, !.client = saver.next.client]
      BY <2>2 DEF Store!AssignRest
    <3> QED BY <1>4, <3>1 DEF Configs
  <2>3. CASE Store!Encode(saver, ok) \/ Store!Write(saver, ok)
    BY <2>3 DEF Store!Encode, Store!Write
  <2> QED BY <1>1, <2>1, <2>2, <2>3
<1>10. CASE saver.at \in {"assignFirst", "assignRest", "encode"}
  <2>1. flash' = flash
    BY <1>1, <1>10 DEF Store!AssignFirst, Store!AssignRest, Store!Encode, Store!Write, Store!Docs
  <2>2. saver.at = "encode" => settings' = settings
    BY <1>1 DEF Store!AssignFirst, Store!AssignRest, Store!Encode, Store!Write
  <2>3. next.ok => OnItsWay(next, flash', settings')
    <3>1. CASE saver.at = "encode"
      <4>1. Store!Following["encode"] = "alerts" BY DEF Store!Following
      <4>2. next.ok => next.at = "alerts" /\ next.next = settings
        BY <1>5, <1>7, <3>1, <4>1
      <4>3. Written("alerts") = {} BY DEF Written
      <4> QED BY <2>2, <3>1, <4>2, <4>3 DEF OnItsWay
    <3>2. CASE saver.at # "encode"
      <4>1. Store!Following["assignFirst"] = "assignRest" /\ Store!Following["assignRest"] = "encode"
        BY DEF Store!Following
      <4>2. next.at \in {"assignRest", "encode"} BY <1>7, <1>10, <3>2, <4>1
      <4> QED BY <4>2 DEF OnItsWay
    <3> QED BY <3>1, <3>2
  <2> QED BY <1>3, <1>5, <1>7, <1>8, <1>9, <2>1, <2>3
<1>11. CASE saver.at \in Store!Docs
  <2>1. /\ settings' = settings
        /\ flash' = (IF Store!Skips(saver, saver.at) \/ ~ok THEN flash
                     ELSE Store!WriteDoc(flash, saver.at, Store!Document(saver.next, saver.at)))
    BY <1>1, <1>11 DEF Store!AssignFirst, Store!AssignRest, Store!Encode, Store!Write, Store!Docs
  <2>2. Store!Document(saver.next, saver.at) \in Kept(saver.at) /\ NoDoc \in Kept(saver.at)
    BY <1>4, <1>11, DocumentTypes, ContentsAreNoMark DEF Kept
  <2> DEFINE slot == [blob |-> Store!Document(saver.next, saver.at), legacy |-> NoDoc]
  <2>3. slot \in [blob : Kept(saver.at), legacy : Kept(saver.at)]
        /\ slot.blob = Store!Document(saver.next, saver.at)
    BY <2>2
  <2>4. Store!WriteDoc(flash, saver.at, Store!Document(saver.next, saver.at)) = [flash EXCEPT ![saver.at] = slot]
    BY DEF Store!WriteDoc
  <2> HIDE DEF slot
  <2>5. FlashOK(flash')
    BY <1>11, <2>1, <2>3, <2>4 DEF FlashOK
  <2>6. next.ok => /\ flash' = [flash EXCEPT ![saver.at] = slot]
                   /\ next.next = saver.next /\ next.at = Store!Following[saver.at]
    BY <1>5, <1>7, <1>11, <2>1, <2>4 DEF Store!StillOk, Store!Docs
  <2>7. ASSUME next.ok, OnItsWay(saver, flash, settings) PROVE OnItsWay(next, flash', settings')
    <3>1. saver.next = settings /\ \A d \in Written(saver.at) : flash[d].blob = Store!Document(saver.next, d)
      BY <1>11, <2>7 DEF OnItsWay, Store!Docs
    <3>2. \A d \in Store!Docs : flash'[d] = IF d = saver.at THEN slot ELSE flash[d]
      BY <2>6, <2>7 DEF FlashOK
    <3>3. Written(next.at) \subseteq Written(saver.at) \union {saver.at}
      BY <1>11, <2>6, <2>7 DEF Written, Store!Following, Store!Docs
    <3>4. Written(next.at) \subseteq Store!Docs BY DEF Written, Store!Docs
    <3>5. \A d \in Written(next.at) : flash'[d].blob = Store!Document(next.next, d)
      BY <2>3, <2>6, <2>7, <3>1, <3>2, <3>3, <3>4
    <3> QED BY <2>1, <2>6, <2>7, <3>1, <3>5 DEF OnItsWay
  <2> QED BY <1>3, <1>5, <1>7, <1>8, <1>9, <2>5, <2>7
<1> QED BY <1>2, <1>10, <1>11 DEF Store!Docs

\* A save that ends, alone and with success, has stored what is in effect.
LEMMA SaveEndStored ==
    ASSUME Store!StoreAssumption, settings \in Configs, NEW saver \in Savers, saver.at = "finish",
           SaveOnItsWay(saver), saver.ok, ~overlap
    PROVE  Store!Loaded(flash) = settings
<1>1. Store!Saving(saver) BY DEF Store!Saving, Store!Steps
<1>2. saver.next = settings /\ \A d \in Store!Docs : flash[d].blob = Store!Document(settings, d)
  BY <1>1 DEF SaveOnItsWay, OnItsWay, Written
<1> QED BY <1>2, WrittenIsLoaded

-----------------------------------------------------------------------------
(* The steps                                                               *)

\* The parts of the invariant that say something of the saves.
Saves ==
    /\ SaveOnItsWay(web) /\ SaveOnItsWay(loop) /\ Overlapping /\ Store!StoreMatches
    /\ job.at = "running" => Current(job)
    /\ ~staged.old => Current(staged)

LEMMA NotSaving ==
    \A at \in {"idle", "begin", "capture", "copy", "restart"} : at \notin Store!Steps
  BY DEF Store!Steps

LEMMA IdleTypes == ASSUME Store!StoreAssumption PROVE Store!Idle \in Savers /\ Store!Idle.at = "idle" /\ Store!Idle.ok
  BY DefaultTypes DEF Store!Idle, Savers

\* A step that touches no save, no preview and not what they are about.
LEMMA AsideKeeps ==
    ASSUME StoreInv, UNCHANGED <<settings, flash, revision, overlap, trusted>>,
           Store!Saving(web)' = Store!Saving(web), Store!Saving(web) => web' = web,
           Store!Saving(loop)' = Store!Saving(loop), Store!Saving(loop) => loop' = loop,
           job'.at = "running" => job' = job \/ Current(job'),
           staged' = staged \/ staged'.old \/ Current(staged')
    PROVE  Saves'
<1>1. SaveOnItsWay(web)' /\ SaveOnItsWay(loop)' /\ Overlapping' /\ Store!StoreMatches'
  BY DEF StoreInv, SaveOnItsWay, Overlapping, Store!StoreMatches
<1>2. \A r : Current(r) => Current(r)'
  BY DEF Current
<1> QED BY <1>1, <1>2 DEF StoreInv, Saves, Current

\* A save begins on the web task, or on the loop task.
LEMMA WebBegins ==
    ASSUME StoreInv, ~Store!Saving(web), web'.at = "assignFirst", loop' = loop,
           overlap' = (overlap \/ Store!Saving(loop)),
           UNCHANGED <<settings, flash, revision, trusted, job>>,
           staged' = staged \/ staged'.old
    PROVE  Saves'
<1>1. Store!Saving(web)' BY DEF Store!Saving, Store!Steps
<1>2. SaveOnItsWay(web)' BY DEF SaveOnItsWay, OnItsWay
<1>3. SaveOnItsWay(loop)' /\ Overlapping'
  BY DEF StoreInv, SaveOnItsWay, Store!Saving, Overlapping
<1>4. \A r : Current(r) => Current(r)' BY <1>1 DEF Current
<1> QED BY <1>1, <1>2, <1>3, <1>4 DEF StoreInv, Saves, Store!StoreMatches, Current

LEMMA LoopBegins ==
    ASSUME StoreInv, ~Store!Saving(loop), loop'.at = "assignFirst", web' = web,
           overlap' = (overlap \/ Store!Saving(web)),
           UNCHANGED <<settings, flash, revision, trusted, job, staged>>
    PROVE  Saves'
<1>1. Store!Saving(loop)' BY DEF Store!Saving, Store!Steps
<1>2. SaveOnItsWay(loop)' BY DEF SaveOnItsWay, OnItsWay
<1>3. SaveOnItsWay(web)' /\ Overlapping'
  BY DEF StoreInv, SaveOnItsWay, Store!Saving, Overlapping
<1>4. \A r : Current(r) => Current(r)' BY <1>1 DEF Current
<1> QED BY <1>1, <1>2, <1>3, <1>4 DEF StoreInv, Saves, Store!StoreMatches, Current

LEMMA WebSavesKeeps ==
    ASSUME Store!StoreAssumption, StoreInv, Store!WebSaves
    PROVE  Saves' /\ web' \in Savers /\ settings' \in Configs /\ FlashOK(flash')
<1>1. /\ Store!SaveStep(web, web')
      /\ UNCHANGED <<revision, loop, job, staged, overlap, trusted>>
  BY DEF Store!WebSaves
<1>2. /\ Store!Saving(web) /\ web' \in Savers /\ Store!Saving(web')
      /\ settings' \in Configs /\ FlashOK(flash')
      /\ web'.ok => web.ok
      /\ web'.ok /\ OnItsWay(web, flash, settings) => OnItsWay(web', flash', settings')
  BY <1>1, SaveStepKeeps DEF StoreInv, StoreTypeOK
<1>3. SaveOnItsWay(web)'
  BY <1>1, <1>2 DEF StoreInv, SaveOnItsWay, OnItsWay
<1>4. SaveOnItsWay(loop)' /\ Overlapping'
  BY <1>1, <1>2 DEF StoreInv, SaveOnItsWay, Store!Saving, Overlapping
<1>5. Store!Saving(web)' BY <1>2 DEF Store!Saving
<1>6. \A r : Current(r) => Current(r)' BY <1>1, <1>5 DEF Current
<1> QED BY <1>1, <1>2, <1>3, <1>4, <1>5, <1>6 DEF StoreInv, Saves, Store!StoreMatches, Current

LEMMA LoopSavesKeeps ==
    ASSUME Store!StoreAssumption, StoreInv, Store!LoopSaves
    PROVE  Saves' /\ loop' \in Savers /\ settings' \in Configs /\ FlashOK(flash')
<1>1. /\ Store!SaveStep(loop, loop')
      /\ UNCHANGED <<revision, web, job, staged, overlap, trusted>>
  BY DEF Store!LoopSaves
<1>2. /\ Store!Saving(loop) /\ loop' \in Savers /\ Store!Saving(loop')
      /\ settings' \in Configs /\ FlashOK(flash')
      /\ loop'.ok => loop.ok
      /\ loop'.ok /\ OnItsWay(loop, flash, settings) => OnItsWay(loop', flash', settings')
  BY <1>1, SaveStepKeeps DEF StoreInv, StoreTypeOK
<1>3. SaveOnItsWay(loop)'
  BY <1>1, <1>2 DEF StoreInv, SaveOnItsWay, OnItsWay
<1>4. SaveOnItsWay(web)' /\ Overlapping'
  BY <1>1, <1>2 DEF StoreInv, SaveOnItsWay, Store!Saving, Overlapping
<1>5. Store!Saving(loop)' BY <1>2 DEF Store!Saving
<1>6. \A r : Current(r) => Current(r)' BY <1>1, <1>5 DEF Current
<1> QED BY <1>1, <1>2, <1>3, <1>4, <1>5, <1>6 DEF StoreInv, Saves, Store!StoreMatches, Current

\* A save ends: what was taken before it is either counted as older, or the
\* trust is gone.
LEMMA SaveEnds ==
    ASSUME StoreInv, NEW saver \in Savers, revision' = Store!Counted(saver),
           trusted' => saver.ok, NEW r, r.revision \in Nat, Current(r)
    PROVE  Current(r)'
<1>1. revision \in Nat BY DEF StoreInv, StoreTypeOK
<1>2. r.revision <= revision' /\ (saver.ok => r.revision # revision')
  BY <1>1 DEF Current, Store!Counted
<1> QED BY <1>2 DEF Current

LEMMA WebAnswersKeeps ==
    ASSUME Store!StoreAssumption, StoreInv, Store!WebAnswers
    PROVE  Saves'
<1>1. /\ web.at = "finish" /\ web' = Store!Idle /\ revision' = Store!Counted(web)
      /\ trusted' = (web.ok /\ ~overlap /\ ~Store!Saving(loop)) /\ overlap' = Store!Saving(loop)
      /\ UNCHANGED <<settings, flash, loop, job, staged>>
  BY DEF Store!WebAnswers, Store!Ended
<1>2. ~Store!Saving(web)' BY <1>1, IdleTypes, NotSaving DEF Store!Saving
<1>3. SaveOnItsWay(web)' /\ SaveOnItsWay(loop)' /\ Overlapping'
  BY <1>1, <1>2 DEF SaveOnItsWay, Store!Saving, Overlapping
<1>4. web \in Savers /\ settings \in Configs BY DEF StoreInv, StoreTypeOK
<1>5. Store!StoreMatches'
  <2>1. trusted' => Store!Loaded(flash) = settings BY <1>1, <1>4, SaveEndStored DEF StoreInv
  <2> QED BY <1>1, <2>1 DEF Store!StoreMatches
<1>6. job'.at = "running" => Current(job)'
  BY <1>1, <1>4, SaveEnds DEF StoreInv, StoreTypeOK, Jobs, Current
<1>7. ~staged'.old => Current(staged)'
  BY <1>1, <1>4, SaveEnds DEF StoreInv, StoreTypeOK, Previews, Current
<1> QED BY <1>3, <1>5, <1>6, <1>7 DEF Saves

LEMMA LoopSavedKeeps ==
    ASSUME Store!StoreAssumption, StoreInv, Store!LoopSaved
    PROVE  Saves'
<1>1. /\ loop.at = "finish" /\ loop' = [Store!Idle EXCEPT !.at = "restart"] /\ revision' = Store!Counted(loop)
      /\ trusted' = (loop.ok /\ ~overlap /\ ~Store!Saving(web)) /\ overlap' = Store!Saving(web)
      /\ UNCHANGED <<settings, flash, web, job, staged>>
  BY DEF Store!LoopSaved, Store!Ended
<1>2. ~Store!Saving(loop)'
  <2>1. loop'.at = "restart" BY <1>1 DEF Store!Idle
  <2> QED BY <2>1, NotSaving DEF Store!Saving
<1>3. SaveOnItsWay(web)' /\ SaveOnItsWay(loop)' /\ Overlapping'
  BY <1>1, <1>2 DEF SaveOnItsWay, Store!Saving, Overlapping
<1>4. loop \in Savers /\ settings \in Configs BY DEF StoreInv, StoreTypeOK
<1>5. Store!StoreMatches'
  <2>1. trusted' => Store!Loaded(flash) = settings BY <1>1, <1>4, SaveEndStored DEF StoreInv
  <2> QED BY <1>1, <2>1 DEF Store!StoreMatches
<1>6. job'.at = "running" => Current(job)'
  BY <1>1, <1>4, SaveEnds DEF StoreInv, StoreTypeOK, Jobs, Current
<1>7. ~staged'.old => Current(staged)'
  BY <1>1, <1>4, SaveEnds DEF StoreInv, StoreTypeOK, Previews, Current
<1> QED BY <1>3, <1>5, <1>6, <1>7 DEF Saves

LEMMA NoneTypes ==
    ASSUME Store!StoreAssumption
    PROVE  /\ Store!NoJob \in Jobs /\ Store!NoJob.at # "running"
           /\ Store!NoStaged \in Previews /\ Store!NoStaged.old
           /\ Store!NotJoining \in Joins
  BY DefaultTypes DEF Store!NoJob, Store!NoStaged, Store!NotJoining, Jobs, Previews, Joins, Joinable

LEMMA RestartKeeps ==
    ASSUME Store!StoreAssumption, StoreInv, Store!Restart
    PROVE  StoreInv'
<1>1. /\ settings' = Store!Loaded(flash) /\ flash' \in {flash, Store!WithDefaults(flash)}
      /\ revision' = 0 /\ web' = Store!Idle /\ loop' = Store!Idle /\ job' = Store!NoJob /\ staged' = Store!NoStaged
      /\ join' = Store!NotJoining /\ due' = FALSE
      /\ link' = NoNetwork /\ target' = settings'.wifi
      /\ overlap' = FALSE /\ trusted' = (flash' = Store!WithDefaults(flash))
  BY DEF Store!Restart
<1>2. FlashOK(flash) BY DEF StoreInv, StoreTypeOK
<1>3. FlashOK(flash') /\ Store!Loaded(flash') = Store!Loaded(flash) /\ Store!Loaded(flash) \in Configs
  BY <1>1, <1>2, DefaultsAreLoaded, LoadedTypes
<1>4. StoreTypeOK'
  <2>1. settings'.wifi \in Joinable BY <1>1, <1>3 DEF Configs
  <2> QED BY <1>1, <1>3, <2>1, IdleTypes, NoneTypes DEF StoreTypeOK, Joinable
<1>5. ~Store!Saving(web)' /\ ~Store!Saving(loop)'
  BY <1>1, IdleTypes, NotSaving DEF Store!Saving
<1> QED BY <1>1, <1>3, <1>4, <1>5, NoneTypes
        DEF StoreInv, SaveOnItsWay, Overlapping, Store!StoreMatches, Store!Saving

LEMMA StoreInit == Store!StoreAssumption /\ Store!Init => StoreInv
<1> SUFFICES ASSUME Store!StoreAssumption, Store!Init PROVE StoreInv
  OBVIOUS
<1>1. FlashOK(flash)
  <2> DEFINE none == [blob |-> NoDoc, legacy |-> NoDoc]
  <2>1. CASE flash = [d \in Store!Docs |-> none]
    BY <2>1 DEF FlashOK, Kept
  <2>2. CASE \E v \in Values : flash = [alerts |-> [none EXCEPT !.legacy = v],
                                        client |-> [none EXCEPT !.blob = Bad],
                                        config |-> [none EXCEPT !.legacy = [wifi |-> NoNetwork, main |-> v]]]
    <3>1. PICK v \in Values : flash = [alerts |-> [none EXCEPT !.legacy = v],
                                       client |-> [none EXCEPT !.blob = Bad],
                                       config |-> [none EXCEPT !.legacy = [wifi |-> NoNetwork, main |-> v]]]
      BY <2>2
    <3>2. DOMAIN flash = Store!Docs BY <3>1 DEF Store!Docs
    <3>3. [wifi |-> NoNetwork, main |-> v] \in MainDocs BY DEF MainDocs, Joinable
    <3>4. flash["config"] \in [blob : Kept("config"), legacy : Kept("config")]
      BY <3>1, <3>3 DEF Kept, Contents
    <3>5. flash["alerts"] \in [blob : Kept("alerts"), legacy : Kept("alerts")]
      BY <3>1 DEF Kept, Contents
    <3>6. flash["client"] \in [blob : Kept("client"), legacy : Kept("client")]
      BY <3>1 DEF Kept, Contents
    <3> QED BY <3>2, <3>4, <3>5, <3>6 DEF FlashOK, Store!Docs
  <2>3. flash \in Store!Left BY DEF Store!Init
  <2> QED BY <2>1, <2>2, <2>3 DEF Store!Left
<1>2. settings = Store!Loaded(flash) /\ settings \in Configs
  BY <1>1, LoadedTypes DEF Store!Init
<1>3. StoreTypeOK
  <2>1. settings.wifi \in Joinable BY <1>2 DEF Configs
  <2> QED BY <1>1, <1>2, <2>1, IdleTypes, NoneTypes DEF Store!Init, StoreTypeOK, Joinable
<1>4. ~Store!Saving(web) /\ ~Store!Saving(loop)
  BY IdleTypes, NotSaving DEF Store!Init, Store!Saving
<1> QED BY <1>2, <1>3, <1>4, NoneTypes
        DEF Store!Init, StoreInv, SaveOnItsWay, Overlapping, Store!StoreMatches, Store!Saving

-----------------------------------------------------------------------------
(* The steps that begin, prepare or use a save                             *)

LEMMA PutKeeps == ASSUME Store!StoreAssumption, StoreInv, Store!Put PROVE StoreInv'
<1>1. PICK p \in {"main", "alerts"}, v \in Values :
        web' = Store!Begin([settings EXCEPT ![p] = v], FALSE)
  BY DEF Store!Put
<1>2. /\ web.at = "idle" /\ overlap' = (overlap \/ Store!Saving(loop))
      /\ UNCHANGED <<settings, flash, revision, loop, job, staged, join, link, target, due, trusted>>
  BY DEF Store!Put, Store!Request, Store!Began
<1>3. [settings EXCEPT ![p] = v] \in Configs
  <2>1. settings \in Configs BY DEF StoreInv, StoreTypeOK
  <2> QED BY <2>1 DEF Configs
<1>4. web' \in Savers /\ web'.at = "assignFirst" BY <1>1, <1>3, BeginTypes
<1>5. ~Store!Saving(web) BY <1>2, NotSaving DEF Store!Saving
<1>6. Saves' BY <1>2, <1>4, <1>5, WebBegins
<1>7. StoreTypeOK' BY <1>2, <1>4 DEF StoreInv, StoreTypeOK
<1> QED BY <1>6, <1>7 DEF StoreInv, Saves

LEMMA ApplyKeeps == ASSUME Store!StoreAssumption, StoreInv, Store!Apply PROVE StoreInv'
<1>1. PICK match \in BOOLEAN :
        LET usable == ~staged.old /\ match
        IN  /\ staged' = IF usable \/ staged.old THEN Store!NoStaged ELSE staged
            /\ IF usable /\ staged.revision = revision
               THEN /\ web' = Store!Begin(staged.candidate, staged.candidate.wifi # staged.base.wifi)
                    /\ Store!Began(loop)
               ELSE UNCHANGED <<web, overlap>>
  BY DEF Store!Apply
<1>2. /\ web.at = "idle"
      /\ UNCHANGED <<settings, flash, revision, loop, job, join, link, target, due, trusted>>
  BY DEF Store!Apply, Store!Request
<1>3. staged' \in Previews /\ (staged' = staged \/ staged'.old)
  BY <1>1, NoneTypes DEF StoreInv, StoreTypeOK
<1>4. ~Store!Saving(web) BY <1>2, NotSaving DEF Store!Saving
<1>5. staged.candidate \in Configs BY DEF StoreInv, StoreTypeOK, Previews
<1>6. CASE web' = Store!Begin(staged.candidate, staged.candidate.wifi # staged.base.wifi) /\ Store!Began(loop)
  <2>1. web' \in Savers /\ web'.at = "assignFirst" BY <1>5, <1>6, BeginTypes
  <2>2. overlap' = (overlap \/ Store!Saving(loop)) BY <1>6 DEF Store!Began
  <2>3. Saves' BY <1>2, <1>3, <1>4, <2>1, <2>2, WebBegins
  <2>4. StoreTypeOK' BY <1>2, <1>3, <2>1, <2>2 DEF StoreInv, StoreTypeOK
  <2> QED BY <2>3, <2>4 DEF StoreInv, Saves
<1>7. CASE UNCHANGED <<web, overlap>>
  <2>1. Saves' BY <1>2, <1>3, <1>7, AsideKeeps DEF Store!Saving
  <2>2. StoreTypeOK' BY <1>2, <1>3, <1>7 DEF StoreInv, StoreTypeOK
  <2> QED BY <2>1, <2>2 DEF StoreInv, Saves
<1> QED BY <1>1, <1>6, <1>7

LEMMA CaptureKeeps == ASSUME Store!StoreAssumption, StoreInv, Store!CaptureRevision PROVE StoreInv'
<1> DEFINE captured == [job EXCEPT !.at = "running", !.revision = revision, !.raced = (job.base # settings)]
<1>1. /\ web.at = "capture" /\ web' = Store!Idle /\ job' \in {captured, Store!NoJob}
      /\ UNCHANGED <<settings, flash, revision, loop, staged, join, link, target, due,
                     overlap, trusted>>
  BY DEF Store!CaptureRevision
<1>2. captured \in Jobs /\ captured.revision = revision /\ captured.base = job.base
      /\ (captured.raced <=> job.base # settings)
  BY DEF StoreInv, StoreTypeOK, Jobs
<1>3. revision \in Nat BY DEF StoreInv, StoreTypeOK
<1> HIDE DEF captured
<1>4. job' \in Jobs /\ (job'.at = "running" => Current(job'))
  <2>1. CASE job' = captured
    <3>1. captured.revision <= revision BY <1>2, <1>3
    <3>2. ~captured.raced => captured.base = settings BY <1>2, Zenon
    <3>3. Current(captured) BY <3>1, <3>2, Zenon DEF Current
    <3> QED BY <1>2, <2>1, <3>3, Zenon
  <2>2. CASE job' = Store!NoJob BY <2>2, NoneTypes
  <2> QED BY <1>1, <2>1, <2>2
<1>5. web' \in Savers /\ ~Store!Saving(web) /\ ~Store!Saving(web)'
  BY <1>1, IdleTypes, NotSaving DEF Store!Saving
<1>6. Saves' BY <1>1, <1>4, <1>5, AsideKeeps DEF Store!Saving
<1>7. StoreTypeOK' BY <1>1, <1>4, <1>5 DEF StoreInv, StoreTypeOK
<1> QED BY <1>6, <1>7 DEF StoreInv, Saves

LEMMA StartPreviewKeeps == ASSUME Store!StoreAssumption, StoreInv, Store!StartPreview PROVE StoreInv'
<1>0. PICK p \in {"wifi", "client"} : \E v \in (IF p = "wifi" THEN Networks ELSE Values) :
        job' = [at |-> "started", base |-> settings, candidate |-> [settings EXCEPT ![p] = v],
                revision |-> 0, raced |-> FALSE]
  BY DEF Store!StartPreview
<1>1. PICK v \in (IF p = "wifi" THEN Networks ELSE Values) :
        job' = [at |-> "started", base |-> settings, candidate |-> [settings EXCEPT ![p] = v],
                revision |-> 0, raced |-> FALSE]
  BY <1>0
<1>2. /\ web.at = "idle" /\ web' = [Store!Idle EXCEPT !.at = "capture"]
      /\ UNCHANGED <<settings, flash, revision, loop, staged, join, link, target, due, overlap, trusted>>
  BY DEF Store!StartPreview, Store!Request
<1>3. [settings EXCEPT ![p] = v] \in Configs /\ settings \in Configs
  <2>1. settings \in Configs BY DEF StoreInv, StoreTypeOK
  <2>2. CASE p = "wifi"
    <3>1. v \in Joinable BY <1>1, <2>2 DEF Joinable
    <3> QED BY <2>1, <2>2, <3>1 DEF Configs
  <2>3. CASE p = "client"
    <3>1. v \in Values BY <1>1, <2>3
    <3> QED BY <2>1, <2>3, <3>1 DEF Configs
  <2> QED BY <2>1, <2>2, <2>3
<1>4. job' \in Jobs /\ job'.at = "started" BY <1>1, <1>3 DEF Jobs
<1>5. web' \in Savers /\ web'.at = "capture"
  BY <1>2, DefaultTypes DEF Store!Idle, Savers
<1>6. ~Store!Saving(web) /\ ~Store!Saving(web)' BY <1>2, <1>5, NotSaving DEF Store!Saving
<1>7. Saves' BY <1>2, <1>4, <1>6, AsideKeeps DEF Store!Saving
<1>8. StoreTypeOK' BY <1>2, <1>4, <1>5 DEF StoreInv, StoreTypeOK
<1> QED BY <1>7, <1>8 DEF StoreInv, Saves

LEMMA JobEndsKeeps == ASSUME Store!StoreAssumption, StoreInv, Store!JobEnds PROVE StoreInv'
<1>1. /\ job.at = "running" /\ job' = Store!NoJob /\ staged' \in {Store!Stage(job), staged}
      /\ UNCHANGED <<settings, flash, revision, web, loop, join, link, target, due, overlap, trusted>>
  BY DEF Store!JobEnds
<1>2. Store!Stage(job) \in Previews /\ Current(Store!Stage(job))
  BY <1>1 DEF StoreInv, StoreTypeOK, Jobs, Previews, Store!Stage, Current
<1>3. job' \in Jobs /\ job'.at # "running" BY <1>1, NoneTypes
<1>4. staged' \in Previews /\ (staged' = staged \/ Current(staged'))
  BY <1>1, <1>2 DEF StoreInv, StoreTypeOK
<1>5. Saves' BY <1>1, <1>3, <1>4, AsideKeeps DEF Store!Saving
<1>6. StoreTypeOK' BY <1>1, <1>3, <1>4 DEF StoreInv, StoreTypeOK
<1> QED BY <1>5, <1>6 DEF StoreInv, Saves

LEMMA PollCopiesKeeps == ASSUME Store!StoreAssumption, StoreInv, Store!PollCopies PROVE StoreInv'
<1>1. /\ loop.at = "copy" /\ loop' = Store!Begin([settings EXCEPT !.wifi = join.pending], FALSE)
      /\ overlap' = (overlap \/ Store!Saving(web))
      /\ UNCHANGED <<settings, flash, revision, web, job, staged, join, link, target, due, trusted>>
  BY DEF Store!PollCopies, Store!Began
<1>2. [settings EXCEPT !.wifi = join.pending] \in Configs
  BY DEF StoreInv, StoreTypeOK, Configs, Joins
<1>3. loop' \in Savers /\ loop'.at = "assignFirst" BY <1>1, <1>2, BeginTypes
<1>4. ~Store!Saving(loop) BY <1>1, NotSaving DEF Store!Saving
<1>5. Saves' BY <1>1, <1>3, <1>4, LoopBegins
<1>6. StoreTypeOK' BY <1>1, <1>3 DEF StoreInv, StoreTypeOK
<1> QED BY <1>5, <1>6 DEF StoreInv, Saves

\* The radio, the join and the timers: nothing the saves look at.
LEMMA JoinKeeps ==
    ASSUME Store!StoreAssumption, StoreInv,
           \/ \E n \in Networks : Store!Connect(n)
           \/ Store!BeginJoin \/ Store!PollSeesLink \/ Store!PollEnds \/ Store!PollGivesUp
             \/ Store!Links \/ Store!Ages \/ UNCHANGED storeVars
    PROVE  StoreInv'
<1>1. UNCHANGED <<settings, flash, revision, job, overlap, trusted>>
  BY Zenon DEF Store!Connect, Store!BeginJoin, Store!PollSeesLink, Store!PollEnds, Store!PollGivesUp,
     Store!Links, Store!Ages, storeVars
<1>2. staged' = staged \/ (staged' \in Previews /\ staged'.old)
  BY DEF Store!Connect, Store!BeginJoin, Store!PollSeesLink, Store!PollEnds, Store!PollGivesUp,
     Store!Links, Store!Ages, storeVars, Previews, StoreInv, StoreTypeOK
<1>3. web' = web \/ (~Store!Saving(web) /\ web' \in Savers /\ ~Store!Saving(web)')
  <2>1. CASE \E n \in Networks : Store!Connect(n)
    <3>1. web.at = "idle" /\ web' = [Store!Idle EXCEPT !.at = "begin"] BY <2>1 DEF Store!Connect, Store!Request
    <3>2. web' \in Savers /\ web'.at = "begin" BY <3>1, DefaultTypes DEF Store!Idle, Savers
    <3> QED BY <3>1, <3>2, NotSaving DEF Store!Saving
  <2>2. CASE Store!BeginJoin
    <3>1. web.at = "begin" /\ web' = Store!Idle BY <2>2 DEF Store!BeginJoin
    <3> QED BY <3>1, IdleTypes, NotSaving DEF Store!Saving
  <2> QED BY <2>1, <2>2 DEF Store!PollSeesLink, Store!PollEnds, Store!PollGivesUp, Store!Links, Store!Ages,
       storeVars
<1>4. loop' = loop \/ (~Store!Saving(loop) /\ loop' \in Savers /\ ~Store!Saving(loop)')
  <2>1. CASE Store!PollSeesLink
    <3>1. loop.at = "idle" /\ loop' = [Store!Idle EXCEPT !.at = IF join.saved THEN "restart" ELSE "copy"]
      BY <2>1 DEF Store!PollSeesLink
    <3>2. loop' \in Savers /\ loop'.at \in {"restart", "copy"} BY <3>1, DefaultTypes DEF Store!Idle, Savers
    <3> QED BY <3>1, <3>2, NotSaving DEF Store!Saving
  <2>2. CASE Store!PollEnds
    <3>1. loop.at = "restart" /\ loop' = Store!Idle BY <2>2 DEF Store!PollEnds
    <3> QED BY <3>1, IdleTypes, NotSaving DEF Store!Saving
  <2> QED BY <2>1, <2>2 DEF Store!Connect, Store!BeginJoin, Store!PollGivesUp, Store!Links, Store!Ages, storeVars
<1>5. join' \in Joins /\ link' \in Joinable /\ target' \in Joinable /\ due' \in BOOLEAN
  <2>1. join \in Joins /\ link \in Joinable /\ target \in Joinable /\ due \in BOOLEAN
        /\ join.pending \in Joinable /\ NoNetwork \in Joinable /\ Networks \subseteq Joinable
        /\ join.saved \in BOOLEAN
    BY DEF StoreInv, StoreTypeOK, Joins, Joinable
  <2>2. \A n \in Networks : [active |-> TRUE, saved |-> FALSE, pending |-> n] \in Joins
    BY <2>1 DEF Joins
  <2>3. [join EXCEPT !.active = FALSE, !.pending = NoNetwork] \in Joins
    BY <2>1 DEF Joins
  <2>4. CASE \E n \in Networks : Store!Connect(n) BY <2>1, <2>2, <2>4 DEF Store!Connect
  <2>5. CASE Store!BeginJoin BY <2>1, <2>5 DEF Store!BeginJoin
  <2>6. CASE Store!PollSeesLink BY <2>1, <2>6 DEF Store!PollSeesLink
  <2>7. CASE Store!PollEnds BY <2>1, <2>3, <2>7 DEF Store!PollEnds
  <2>8. CASE Store!PollGivesUp BY <2>1, <2>3, <2>8 DEF Store!PollGivesUp
  <2>9. CASE Store!Links BY <2>1, <2>9 DEF Store!Links
  <2>10. CASE Store!Ages \/ UNCHANGED storeVars BY <2>1, <2>10 DEF Store!Ages, storeVars
  <2> QED BY <2>4, <2>5, <2>6, <2>7, <2>8, <2>9, <2>10
<1>6. Saves' BY <1>1, <1>2, <1>3, <1>4, AsideKeeps DEF Store!Saving
<1>7. StoreTypeOK' BY <1>1, <1>2, <1>3, <1>4, <1>5 DEF StoreInv, StoreTypeOK
<1> QED BY <1>6, <1>7 DEF StoreInv, Saves

LEMMA StoreStep == Store!StoreAssumption /\ StoreInv /\ (Store!Next \/ UNCHANGED storeVars) => StoreInv'
<1> SUFFICES ASSUME Store!StoreAssumption, StoreInv, Store!Next \/ UNCHANGED storeVars PROVE StoreInv'
  OBVIOUS
<1>1. CASE Store!Put BY <1>1, PutKeeps
<1>2. CASE Store!WebSaves
  <2>1. UNCHANGED <<revision, loop, job, staged, join, link, target, due, overlap, trusted>>
    BY <1>2 DEF Store!WebSaves
  <2>2. StoreTypeOK' BY <1>2, <2>1, WebSavesKeeps DEF StoreInv, StoreTypeOK
  <2> QED BY <1>2, <2>2, WebSavesKeeps DEF StoreInv, Saves
<1>3. CASE Store!LoopSaves
  <2>1. UNCHANGED <<revision, web, job, staged, join, link, target, due, overlap, trusted>>
    BY <1>3 DEF Store!LoopSaves
  <2>2. StoreTypeOK' BY <1>3, <2>1, LoopSavesKeeps DEF StoreInv, StoreTypeOK
  <2> QED BY <1>3, <2>2, LoopSavesKeeps DEF StoreInv, Saves
<1>4. CASE Store!WebAnswers
  <2>1. /\ web' = Store!Idle /\ revision' = Store!Counted(web) /\ due' = (due \/ (web.ok /\ web.restarts))
        /\ trusted' = (web.ok /\ ~overlap /\ ~Store!Saving(loop)) /\ overlap' = Store!Saving(loop)
        /\ UNCHANGED <<settings, flash, loop, job, staged, join, link, target>>
    BY <1>4 DEF Store!WebAnswers, Store!Ended
  <2>2. web.ok \in BOOLEAN /\ web.restarts \in BOOLEAN /\ Store!Saving(loop) \in BOOLEAN
    BY DEF StoreInv, StoreTypeOK, Savers, Store!Saving
  <2>3. StoreTypeOK' BY <2>1, <2>2, IdleTypes DEF StoreInv, StoreTypeOK, Store!Counted
  <2> QED BY <1>4, <2>3, WebAnswersKeeps DEF StoreInv, Saves
<1>5. CASE Store!LoopSaved
  <2>1. /\ loop' = [Store!Idle EXCEPT !.at = "restart"] /\ revision' = Store!Counted(loop)
        /\ join' = [join EXCEPT !.saved = loop.ok]
        /\ trusted' = (loop.ok /\ ~overlap /\ ~Store!Saving(web)) /\ overlap' = Store!Saving(web)
        /\ UNCHANGED <<settings, flash, web, job, staged, link, target, due>>
    BY <1>5 DEF Store!LoopSaved, Store!Ended
  <2>2. loop.ok \in BOOLEAN /\ Store!Saving(web) \in BOOLEAN /\ loop' \in Savers
    <3>1. loop' \in Savers BY <2>1, DefaultTypes DEF Store!Idle, Savers
    <3> QED BY <3>1 DEF StoreInv, StoreTypeOK, Savers, Store!Saving
  <2>3. join' \in Joins BY <2>1, <2>2 DEF StoreInv, StoreTypeOK, Joins
  <2>4. StoreTypeOK' BY <2>1, <2>2, <2>3 DEF StoreInv, StoreTypeOK, Store!Counted
  <2> QED BY <1>5, <2>4, LoopSavedKeeps DEF StoreInv, Saves
<1>6. CASE Store!StartPreview BY <1>6, StartPreviewKeeps
<1>7. CASE Store!CaptureRevision BY <1>7, CaptureKeeps
<1>8. CASE Store!Apply BY <1>8, ApplyKeeps
<1>9. CASE Store!PollCopies BY <1>9, PollCopiesKeeps
<1>10. CASE Store!JobEnds BY <1>10, JobEndsKeeps
<1>11. CASE Store!Restart BY <1>11, RestartKeeps
<1>12. CASE \/ \E n \in Networks : Store!Connect(n)
            \/ Store!BeginJoin \/ Store!PollSeesLink \/ Store!PollEnds \/ Store!PollGivesUp
              \/ Store!Links \/ Store!Ages \/ UNCHANGED storeVars
  BY <1>12, JoinKeeps
<1> QED BY <1>1, <1>2, <1>3, <1>4, <1>5, <1>6, <1>7, <1>8, <1>9, <1>10, <1>11, <1>12
        DEF Store!Next, Store!WebNext, Store!LoopNext

-----------------------------------------------------------------------------
(* Firmware and web UI                                                      *)

UpdateTasks == {"none", "wait", "webUi", "webUiWrite", "firmware", "firmwareWrite"}

\* While nothing disturbed the updates there is one of them, the phase and the
\* web UI are its own, and when it has come to the firmware the web UI is whole.
OneUpdate ==
    /\ \A t \in Tasks : task[t] # "none" => phase = "busy" /\ ~fsUpload
    /\ \A t, u \in Tasks : task[t] # "none" /\ task[u] # "none" => t = u
    /\ \A t \in Tasks : task[t] = "webUiWrite" => webUiOf = t
    /\ \A t \in Tasks : task[t] \in {"firmware", "firmwareWrite"} => webUi = "new"

PairInHand ==
    /\ task \in [Tasks -> UpdateTasks]
    /\ alone \in BOOLEAN /\ phase \in {"idle", "busy"}
    /\ alone => OneUpdate

\* While the Update library writes an uploaded image, no request ended it.
UploadGoesOn == update.owner = "web" => ~upload.complete

\* The update that fails or is done leaves none; if it was not the only one, the
\* updates were disturbed.
LEMMA TaskEnds ==
    ASSUME PairInHand, NEW t \in Tasks, task[t] # "none",
           task' = [task EXCEPT ![t] = "none"], phase' = "idle", Firmware!Stays(alone)
    PROVE  PairInHand'
<1>1. task' \in [Tasks -> UpdateTasks] BY DEF PairInHand, UpdateTasks
<1>2. alone' \in BOOLEAN BY DEF Firmware!Stays, PairInHand
<1>3. ASSUME alone' PROVE OneUpdate'
  <2>1. \A u \in Tasks : task'[u] = "none"
    <3>1. CASE alone
      <4>1. \A u \in Tasks : task[u] # "none" => t = u BY <3>1 DEF PairInHand, OneUpdate
      <4> QED BY <4>1 DEF PairInHand
    <3>2. CASE ~alone BY <1>3, <3>2 DEF Firmware!Stays
    <3> QED BY <3>1, <3>2
  <2> QED BY <2>1 DEF OneUpdate
<1> QED BY <1>1, <1>2, <1>3 DEF PairInHand

\* An update moves on to `at`, and leaves the web UI as that asks.
LEMMA TaskMoves ==
    ASSUME PairInHand, NEW t \in Tasks, NEW at \in UpdateTasks \ {"none"}, task[t] # "none",
           task' = [task EXCEPT ![t] = at], alone' \in BOOLEAN, phase' \in {"idle", "busy"},
           alone' => alone /\ (phase' = phase \/ phase' = "busy") /\ fsUpload' = fsUpload
                     /\ (at = "webUiWrite" => webUiOf' = t)
                     /\ (at \in {"firmware", "firmwareWrite"} => webUi' = "new")
    PROVE  PairInHand'
<1>1. task' \in [Tasks -> UpdateTasks] BY DEF PairInHand
<1>2. ASSUME alone' PROVE OneUpdate'
  <2>1. OneUpdate /\ alone /\ fsUpload' = fsUpload /\ (phase' = phase \/ phase' = "busy")
    BY <1>2 DEF PairInHand
  <2>2. phase = "busy" /\ ~fsUpload /\ \A u \in Tasks : task[u] # "none" => u = t
    BY <2>1 DEF OneUpdate
  <2>3. task'[t] = at /\ \A u \in Tasks : u # t => task'[u] = "none" BY <2>2 DEF PairInHand
  <2>4. phase' = "busy" /\ ~fsUpload' BY <2>1, <2>2
  <2> QED BY <1>2, <2>3, <2>4 DEF OneUpdate
<1> QED BY <1>1, <1>2 DEF PairInHand

\* The update task's own steps.
LEMMA WorkKeepsPair ==
    ASSUME Firmware!UpdateAssumption, PairInHand, NEW t \in Tasks, Firmware!Work(t)
    PROVE  PairInHand'
<1>1. CASE Firmware!AwaitApply(t)
  <2>1. /\ task[t] = "wait" /\ task' = [task EXCEPT ![t] = "webUi"]
        /\ phase' = phase /\ alone' = alone /\ fsUpload' = fsUpload
    BY <1>1 DEF Firmware!AwaitApply, Firmware!fs
  <2>2. alone' \in BOOLEAN /\ phase' \in {"idle", "busy"} BY <2>1 DEF PairInHand
  <2> QED BY <2>1, <2>2, TaskMoves DEF UpdateTasks
<1>2. CASE Firmware!EraseWebUi(t)
  <2>1. task[t] = "webUi" BY <1>2 DEF Firmware!EraseWebUi
  <2>2. CASE Firmware!Fails(t) BY <2>1, <2>2, TaskEnds DEF Firmware!Fails
  <2>3. CASE task' = [task EXCEPT ![t] = "webUiWrite"] /\ phase' = "busy" /\ webUiOf' = t /\ alone' = alone
             /\ fsUpload' = fsUpload
    <3>1. alone' \in BOOLEAN BY <2>3 DEF PairInHand
    <3> QED BY <2>1, <2>3, <3>1, TaskMoves DEF UpdateTasks
  <2> QED BY <1>2, <2>2, <2>3 DEF Firmware!EraseWebUi
<1>3. CASE Firmware!WriteWebUi(t)
  <2>1. task[t] = "webUiWrite" BY <1>3 DEF Firmware!WriteWebUi
  <2>2. CASE Firmware!Fails(t) BY <2>1, <2>2, TaskEnds DEF Firmware!Fails
  <2>3. CASE /\ task' = [task EXCEPT ![t] = "firmware"] /\ phase' = phase /\ fsUpload' = fsUpload
             /\ \/ webUi' = Firmware!Written(t) /\ alone' = alone
                \/ webUi' = "partial" /\ Firmware!Stays(FALSE)
    <3>1. ~(\A u \in Tasks : task'[u] = "none") BY <2>3 DEF PairInHand
    <3>2. alone' \in BOOLEAN /\ phase' \in {"idle", "busy"} BY <2>3 DEF PairInHand, Firmware!Stays
    <3>3. ASSUME alone' PROVE alone /\ webUi' = "new"
      <4>1. webUi' = Firmware!Written(t) /\ alone' = alone BY <2>3, <3>1, <3>3 DEF Firmware!Stays
      <4>2. webUiOf = t BY <2>1, <3>3, <4>1 DEF PairInHand, OneUpdate
      <4> QED BY <3>3, <4>1, <4>2 DEF Firmware!Written
    <3> QED BY <2>1, <2>3, <3>2, <3>3, TaskMoves DEF UpdateTasks
  <2> QED BY <1>3, <2>2, <2>3 DEF Firmware!WriteWebUi
<1>4. CASE Firmware!BeginFirmware(t)
  <2>1. task[t] = "firmware" BY <1>4 DEF Firmware!BeginFirmware
  <2>2. CASE Firmware!Fails(t) BY <2>1, <2>2, TaskEnds DEF Firmware!Fails
  <2>3. CASE /\ task' = [task EXCEPT ![t] = "firmwareWrite"] /\ phase' = "busy" /\ alone' = alone
             /\ fsUpload' = fsUpload /\ webUi' = webUi
    <3>1. alone' \in BOOLEAN /\ (alone => webUi = "new") BY <2>1, <2>3 DEF PairInHand, OneUpdate
    <3> QED BY <2>1, <2>3, <3>1, TaskMoves DEF UpdateTasks
  <2> QED BY <1>4, <2>2, <2>3 DEF Firmware!BeginFirmware, Firmware!fs
<1>5. CASE Firmware!WriteFirmware(t)
  <2>1. /\ task[t] = "firmwareWrite" /\ task' = [task EXCEPT ![t] = "none"]
        /\ phase' = "idle" /\ Firmware!Stays(alone)
    BY <1>5 DEF Firmware!WriteFirmware, Firmware!Fails
  <2> QED BY <2>1, TaskEnds
<1> QED BY <1>1, <1>2, <1>3, <1>4, <1>5 DEF Firmware!Work

\* An update is started: the phase says that there is none.
LEMMA ApplyKeepsPair == ASSUME PairInHand, Firmware!Apply PROVE PairInHand'
<1>1. /\ phase = "idle" /\ phase' = "busy" /\ fsUpload' = fsUpload
      /\ Firmware!Stays(alone /\ ~fsUpload)
  BY DEF Firmware!Apply, Firmware!fs
<1>2. task' = task \/ \E t \in Tasks : task' = [task EXCEPT ![t] = "wait"]
  BY DEF Firmware!Apply
<1>3. task' \in [Tasks -> UpdateTasks] BY <1>2 DEF PairInHand, UpdateTasks
<1>4. ASSUME alone' PROVE OneUpdate'
  <2>1. CASE \A u \in Tasks : task'[u] = "none" BY <2>1 DEF OneUpdate
  <2>2. CASE ~(\A u \in Tasks : task'[u] = "none")
    <3>1. alone /\ ~fsUpload BY <1>1, <1>4, <2>2 DEF Firmware!Stays
    <3>2. \A u \in Tasks : task[u] = "none" BY <1>1, <3>1 DEF PairInHand, OneUpdate
    <3>3. PICK t \in Tasks : task' = [task EXCEPT ![t] = "wait"] BY <1>2, <2>2, <3>2
    <3>5. \A u \in Tasks : task'[u] = "none" \/ (u = t /\ task'[u] = "wait")
      BY <3>2, <3>3 DEF PairInHand
    <3>4. phase' = "busy" /\ ~fsUpload' BY <1>1, <3>1
    <3> QED BY <3>4, <3>5 DEF OneUpdate
  <2> QED BY <2>1, <2>2
<1>5. alone' \in BOOLEAN BY <1>1 DEF Firmware!Stays, PairInHand
<1> QED BY <1>1, <1>3, <1>4, <1>5 DEF PairInHand

\* A check that writes the phase, and an upload of the web UI: with an update
\* under way they disturb it.
LEMMA DisturbingKeepsPair ==
    ASSUME PairInHand, task' = task, phase' \in {"idle", "busy"}, Firmware!Stays(FALSE)
    PROVE  PairInHand'
<1>1. alone' <=> \A u \in Tasks : task'[u] = "none" BY DEF Firmware!Stays
<1> QED BY <1>1 DEF PairInHand, OneUpdate, Firmware!Stays

\* A step of nobody who is at the web UI.
LEMMA IdleKeepsPair ==
    ASSUME PairInHand, task' = task, phase' = phase, alone' = alone, webUi' = webUi,
           webUiOf' = webUiOf, fsUpload' = fsUpload
    PROVE  PairInHand'
BY DEF PairInHand, OneUpdate

\* The upload of the web UI ends: no update is beside it, or it was disturbed.
LEMMA EndFsKeepsPair == ASSUME PairInHand, Firmware!EndFsUpload PROVE PairInHand'
<1>1. fsUpload /\ task' = task /\ phase' = phase /\ alone' = alone
  BY DEF Firmware!EndFsUpload, Firmware!tasks
<1>2. alone => \A u \in Tasks : task[u] = "none" BY <1>1 DEF PairInHand, OneUpdate
<1> QED BY <1>1, <1>2 DEF PairInHand, OneUpdate

\* After a start nobody is at an update.
LEMMA BootKeepsPair == ASSUME Firmware!Boot PROVE PairInHand'
BY DEF Firmware!Boot, PairInHand, OneUpdate, UpdateTasks

LEMMA PairStep ==
    ASSUME Firmware!UpdateAssumption, PairInHand, Firmware!Next \/ UNCHANGED firmwareVars
    PROVE  PairInHand'
<1>1. CASE \E t \in Tasks : Firmware!Work(t) BY <1>1, WorkKeepsPair
<1>2. CASE Firmware!Restart \/ Firmware!Crash \/ Firmware!PowerCut
  BY <1>2, BootKeepsPair DEF Firmware!Restart, Firmware!Crash, Firmware!PowerCut
<1>3. CASE Firmware!Apply BY <1>3, ApplyKeepsPair
<1>4. CASE Firmware!EndFsUpload BY <1>4, EndFsKeepsPair
<1>5. CASE Firmware!BeginFsUpload
  <2>1. task' = task /\ phase' \in {"idle", "busy"} /\ Firmware!Stays(FALSE)
    BY <1>5 DEF Firmware!BeginFsUpload, PairInHand
  <2> QED BY <2>1, DisturbingKeepsPair
<1>6. CASE Firmware!Check
  <2>1. task' = task /\ webUi' = webUi /\ webUiOf' = webUiOf /\ fsUpload' = fsUpload
        /\ (Firmware!Checked \/ (phase' = phase /\ alone' = alone))
    BY <1>6 DEF Firmware!Check, Firmware!StartCheck, Firmware!AwaitCheck, Firmware!EndCheck, Firmware!fs
  <2>2. CASE Firmware!Checked BY <2>1, <2>2, DisturbingKeepsPair DEF Firmware!Checked
  <2> QED BY <2>1, <2>2, IdleKeepsPair
<1>7. CASE Firmware!OtherSession \/ Firmware!WriteStray \/ Firmware!Confirm
             \/ (\E r \in Uploads : Firmware!BeginUpload(r) \/ Firmware!EndUpload(r) \/ Firmware!DropUpload(r))
             \/ UNCHANGED firmwareVars
  <2>1. /\ task' = task /\ phase' = phase /\ alone' = alone
        /\ webUiOf' = webUiOf /\ webUi' = webUi /\ fsUpload' = fsUpload
    BY <1>7 DEF Firmware!OtherSession, Firmware!WriteStray, Firmware!Confirm, Firmware!BeginUpload,
         Firmware!EndUpload, Firmware!DropUpload, Firmware!tasks, Firmware!fs, firmwareVars
  <2> QED BY <2>1, IdleKeepsPair
<1> QED BY <1>1, <1>2, <1>3, <1>4, <1>5, <1>6, <1>7 DEF Firmware!Next

-----------------------------------------------------------------------------
(* Uploads                                                                  *)

\* An upload goes on until its own request, another upload or an update ends it.
LEMMA UploadStep ==
    ASSUME Firmware!UpdateAssumption, UploadGoesOn, Firmware!Next \/ UNCHANGED firmwareVars
    PROVE  UploadGoesOn'
<1>1. CASE \E t \in Tasks : Firmware!Work(t)
  <2> PICK t \in Tasks : Firmware!Work(t) BY <1>1
  <2>1. t # "web" BY DEF Firmware!UpdateAssumption
  <2>2. upload' = upload
    BY DEF Firmware!Work, Firmware!AwaitApply, Firmware!EraseWebUi, Firmware!WriteWebUi,
       Firmware!BeginFirmware, Firmware!WriteFirmware, Firmware!web
  <2>3. update' = update \/ update'.owner = t \/ update'.owner = "none"
    <3>1. CASE Firmware!AwaitApply(t) \/ Firmware!EraseWebUi(t) \/ Firmware!WriteWebUi(t)
      BY <3>1 DEF Firmware!AwaitApply, Firmware!EraseWebUi, Firmware!WriteWebUi
    <3>2. CASE Firmware!BeginFirmware(t) BY <3>2 DEF Firmware!BeginFirmware, Firmware!Begins
    <3>3. CASE Firmware!WriteFirmware(t) BY <3>3 DEF Firmware!WriteFirmware, Firmware!NoUpdate
    <3> QED BY <3>1, <3>2, <3>3 DEF Firmware!Work
  <2> QED BY <2>1, <2>2, <2>3 DEF UploadGoesOn
<1>2. CASE Firmware!Restart \/ Firmware!Crash \/ Firmware!PowerCut
  BY <1>2 DEF Firmware!Restart, Firmware!Crash, Firmware!PowerCut, Firmware!Boot, Firmware!NoUpdate,
     UploadGoesOn
<1>3. CASE \E r \in Uploads : Firmware!BeginUpload(r)
  BY <1>3 DEF Firmware!BeginUpload, UploadGoesOn
<1>4. CASE \E r \in Uploads : Firmware!EndUpload(r)
  BY <1>4 DEF Firmware!EndUpload, Firmware!NoUpdate, UploadGoesOn
<1>5. CASE \E r \in Uploads : Firmware!DropUpload(r)
  BY <1>5 DEF Firmware!DropUpload, Firmware!NoUpdate, Firmware!NoUpload, UploadGoesOn
<1>6. CASE Firmware!WriteStray
  <2>1. update' = [update EXCEPT !.mixed = TRUE] /\ upload' = upload
    BY <1>6 DEF Firmware!WriteStray, Firmware!web
  <2>2. update'.owner = update.owner BY <2>1
  <2> QED BY <2>1, <2>2 DEF UploadGoesOn
<1>7. CASE Firmware!OtherSession \/ Firmware!Check \/ Firmware!Apply \/ Firmware!BeginFsUpload
             \/ Firmware!EndFsUpload \/ Firmware!Confirm \/ UNCHANGED firmwareVars
  <2>1. update' = update /\ upload' = upload
    BY <1>7 DEF Firmware!OtherSession, Firmware!Check, Firmware!StartCheck, Firmware!AwaitCheck,
         Firmware!EndCheck, Firmware!Apply, Firmware!BeginFsUpload, Firmware!EndFsUpload,
         Firmware!Confirm, Firmware!web, firmwareVars
  <2> QED BY <2>1 DEF UploadGoesOn
<1> QED BY <1>1, <1>2, <1>3, <1>4, <1>5, <1>6, <1>7 DEF Firmware!Next

\* What may end an upload that goes on is its own request, or another writer.
LEMMA DropIsSpared ==
    ASSUME PairInHand, UploadGoesOn, Firmware!Next \/ UNCHANGED firmwareVars,
           update.owner = "web", upload.request \in sending, upload.request \in sending',
           task' = task, upload' = upload, Firmware!UpdateAssumption
    PROVE  update'.owner = "web"
<1>1. ASSUME NEW t \in Tasks, Firmware!Work(t) PROVE update' = update
  <2>1. task'[t] = task[t] OBVIOUS
  <2>2. \A at \in UpdateTasks : [task EXCEPT ![t] = at][t] = at BY DEF PairInHand
  <2>3. ~Firmware!WriteFirmware(t)
    BY <2>1, <2>2 DEF Firmware!WriteFirmware, Firmware!Fails, UpdateTasks
  <2>4. Firmware!BeginFirmware(t) => FALSE
    BY <2>1, <2>2 DEF Firmware!BeginFirmware, Firmware!Fails, UpdateTasks
  <2> QED BY <1>1, <2>3, <2>4 DEF Firmware!Work, Firmware!AwaitApply, Firmware!EraseWebUi, Firmware!WriteWebUi
<1>2. ~Firmware!Boot BY DEF Firmware!Boot
<1>3. ASSUME NEW r \in Uploads, Firmware!BeginUpload(r) PROVE update'.owner = "web"
  BY <1>3 DEF Firmware!BeginUpload, Firmware!Begins
<1>4. ASSUME NEW r \in Uploads, Firmware!EndUpload(r) PROVE FALSE
  <2>1. upload.request # r BY <1>4 DEF Firmware!EndUpload
  <2>2. upload' = [upload EXCEPT !.complete = TRUE] BY <1>4, <2>1 DEF Firmware!EndUpload
  <2> QED BY <2>2 DEF UploadGoesOn
<1>5. ASSUME NEW r \in Uploads, Firmware!DropUpload(r) PROVE update' = update
  BY <1>5 DEF Firmware!DropUpload, Firmware!Abandoned
<1>6. CASE Firmware!WriteStray
  BY <1>6 DEF Firmware!WriteStray
<1>7. CASE Firmware!OtherSession \/ Firmware!Check \/ Firmware!Apply \/ Firmware!BeginFsUpload
             \/ Firmware!EndFsUpload \/ Firmware!Confirm \/ UNCHANGED firmwareVars
  BY <1>7 DEF Firmware!OtherSession, Firmware!Check, Firmware!StartCheck, Firmware!AwaitCheck,
       Firmware!EndCheck, Firmware!Apply, Firmware!BeginFsUpload, Firmware!EndFsUpload,
       Firmware!Confirm, firmwareVars
<1> QED BY <1>1, <1>2, <1>3, <1>4, <1>5, <1>6, <1>7
        DEF Firmware!Next, Firmware!Restart, Firmware!Crash, Firmware!PowerCut

-----------------------------------------------------------------------------
(* The machines put together                                                *)

\* A step is one of one machine, and the other stands still.
LEMMA OneMachineSteps ==
    [Next]_vars => /\ Store!Next \/ UNCHANGED storeVars
                   /\ Firmware!Next \/ UNCHANGED firmwareVars
BY DEF Next, vars, OnlyStore, OnlyFirmware

\* The two invariants hold throughout.
LEMMA StoreAlways == Spec => []StoreInv
<1>1. Init => StoreInv BY FlashAssumption, StoreInit DEF Init
<1>2. StoreInv /\ [Next]_vars => StoreInv' BY FlashAssumption, StoreStep, OneMachineSteps
<1> QED BY <1>1, <1>2, PTL DEF Spec

LEMMA FirmwareAlways == Spec => [](PairInHand /\ UploadGoesOn)
<1>1. Init => PairInHand /\ UploadGoesOn
  BY DEF Init, Firmware!Init, Firmware!NoUpdate, PairInHand, OneUpdate, UploadGoesOn, UpdateTasks
<1>2. PairInHand /\ UploadGoesOn /\ [Next]_vars => (PairInHand /\ UploadGoesOn)'
  BY FlashAssumption, PairStep, UploadStep, OneMachineSteps
<1> QED BY <1>1, <1>2, PTL DEF Spec

\* With no save going on and the last one a success of its own, a restart
\* finds the settings that are in effect (Config::load and save,
\* saveConfigCallback on either task).
THEOREM RestartFindsSettings == Spec => []StoreMatches
<1>1. StoreInv => StoreMatches BY DEF StoreInv, StoreMatches
<1> QED BY StoreAlways, <1>1, PTL

\* A restore is applied to the settings it was previewed on, unless the ghosts
\* know why not (handleBackupApply, the revision a preview carries).
THEOREM RestoreMeetsItsPreview == Spec => AppliedAsPreviewed
<1> DEFINE Step == Store!Apply /\ web' # web =>
                     staged.base = settings \/ staged.raced \/ ~trusted \/ Store!Saving(loop)
<1>1. StoreInv /\ [Next]_vars => [Step]_(Store!vars)
  <2> SUFFICES ASSUME StoreInv, Store!Apply, web' # web
               PROVE  staged.base = settings \/ staged.raced \/ ~trusted \/ Store!Saving(loop)
    OBVIOUS
  <2>1. ~staged.old /\ staged.revision = revision /\ web.at = "idle"
    BY DEF Store!Apply, Store!Request
  <2>2. ~Store!Saving(web) BY <2>1, NotSaving DEF Store!Saving
  <2> QED BY <2>1, <2>2 DEF StoreInv, Current
<1> QED BY StoreAlways, <1>1, PTL DEF Spec, AppliedAsPreviewed, Store!AppliedAsPreviewed

\* An update from GitHub switches to the new firmware only with all of its web
\* UI in place, unless a check wrote the phase, an upload of the web UI came in
\* or a download of unknown size was cut short while updates were under way
\* (applyUpdate, runApply).
THEOREM PairIsSwitched == Spec => SwitchedAsAPair
<1> DEFINE Step == \A t \in Tasks :
         Firmware!WriteFirmware(t) /\ boots' = "spare" /\ boots = "running" /\ alone => webUi = "new"
<1>1. PairInHand /\ [Next]_vars => [Step]_(Firmware!vars)
  BY DEF PairInHand, OneUpdate, Firmware!WriteFirmware
<1> QED BY FirmwareAlways, <1>1, PTL DEF Spec, SwitchedAsAPair, Firmware!SwitchedAsAPair

\* A drop noticed after the next upload has begun leaves that one alone
\* (abandonUnfinishedUpload), and nothing but its own request, another upload
\* or an update from GitHub ends an upload.
THEOREM UploadsAreSpared == Spec => LateDropSpares
<1> DEFINE Step == update.owner = "web" /\ upload.request \in sending /\ upload.request \in sending'
                     /\ task' = task /\ upload' = upload => update'.owner = "web"
<1>1. (PairInHand /\ UploadGoesOn) /\ [Next]_vars => [Step]_(Firmware!vars)
  BY FlashAssumption, DropIsSpared, OneMachineSteps
<1> QED BY FirmwareAlways, <1>1, PTL DEF Spec, LateDropSpares, Firmware!LateDropSpares
=============================================================================
