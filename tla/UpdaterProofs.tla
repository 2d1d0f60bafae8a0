--------------------------- MODULE UpdaterProofs ---------------------------
(***************************************************************************)
(* Installing a release, for any number of GUI processes and releases and  *)
(* any number of crashes and failing calls.                                *)
(*                                                                         *)
(* What install.lock protects needs no other assumption: the candidate of  *)
(* a transaction is verified and stays what it is (Untouched).  That one   *)
(* worker lives at a time, and that a pause is kept, also rests on         *)
(* active.json and on the outcome, which a mishap leaves out of date: it   *)
(* is stated until the first one (Sequence).                               *)
(***************************************************************************)
EXTENDS Updater, FiniteSetTheorems, TLAPS

\* The flock is held by whoever acts under it.
Locked ==
    \A g \in Guis :
        /\ gpc[g] \in Preparing => lock = <<"gui", g>>
        /\ wpc[g] \in Holding => lock = <<"worker", g>>

Untouched ==
    /\ target # 0
    /\ \A g \in Guis : wpc[g] \in {"verified"} \cup Transacting => candidate[g] # 0

\* Whoever downloads does not find a whole file, and nobody downloads into one.
NoneUnderWay == \A v \in Versions : dmg[v] = "whole" => tmp[v].by = NoGui

\* A worker belongs to a process that left for it, or is about to.
Owned ==
    \A g \in Guis : WorkerAlive(g) =>
        /\ gpc[g] \in {"spawned", "leaving"} \cup Ended
        /\ Alive(g) => wpc[g] \in {"new", "waiting"}

\* It is named in active.json once its process has left the lock.
Named == \A g \in Guis : WorkerAlive(g) /\ gpc[g] # "spawned" => active = g

\* A process that has looked at active.json is alone.
Alone ==
    \A f, g \in Guis :
        /\ gpc[g] \in {"locked", "copied", "staged"} => ~WorkerAlive(f)
        /\ gpc[g] = "spawned" /\ WorkerAlive(f) => f = g

AfterUndo == {"undoing", "restoring", "reopening", "failed"}

\* The rollback is told by the outcome, or will be by its worker.
Told ==
    rolledBack # 0 =>
        \/ LastFailure(rolledBack)
        \/ \E f \in Guis : wpc[f] \in AfterUndo /\ Version(f) = rolledBack

\* No automatic attempt, and no worker before its rollback, is about it.
Spared ==
    \A g \in Guis :
        /\ gpc[g] \in {"locked", "copied", "staged"} /\ attempt[g].automatic =>
               Version(g) # rolledBack
        /\ WorkerAlive(g) /\ wpc[g] \notin AfterUndo => Version(g) # rolledBack

Sequence == Owned /\ Named /\ Alone /\ Told /\ Spared


-----------------------------------------------------------------------------
(* What has its type.                                                      *)

GuiStates == Ended \cup Fetching \cup Preparing \cup {"starting", "up", "asked", "leaving"}
WorkerStates == Working \cup {"none"}

GuiTypes ==
    /\ gpc \in [Guis -> GuiStates]
    /\ runs \in [Guis -> Versions]
    /\ attempt \in [Guis -> [version : Versions, automatic : BOOLEAN]]
    /\ asking \subseteq Guis

DiskTypes ==
    /\ target \in Versions \cup {0}
    /\ candidate \in [Guis -> Versions \cup {0}]
    /\ retained \subseteq Versions

WorkerTypes ==
    /\ wpc \in [Guis -> WorkerStates]
    /\ {ready, owned} \subseteq [Guis -> BOOLEAN]
    /\ {health, child, bornOf} \subseteq [Guis -> Guis \cup {NoGui}]

LockTypes ==
    /\ lock \in {Free} \cup ({"gui", "worker"} \X Guis)
    /\ active \in Guis \cup {NoGui}

DaemonTypes == daemon \in Versions \cup {Unloaded, Down}

FaultTypes == faults \in 0..MaxFaults /\ mishap \in BOOLEAN

OutcomeTypes ==
    /\ outcome \in [version : Versions, failed : BOOLEAN]
    /\ rolledBack \in Versions \cup {0}

FileTypes ==
    /\ latest \in Versions
    /\ tmp \in [Versions -> [by : Guis \cup {NoGui}, whole : BOOLEAN]]
    /\ dmg \in [Versions -> {"none", "part", "whole"}]

Types ==
    GuiTypes /\ DiskTypes /\ WorkerTypes /\ LockTypes /\ DaemonTypes
            /\ FaultTypes /\ OutcomeTypes /\ FileTypes

\* The type invariant, by who writes what.
LEMMA TypesAreTypeOK == Types <=> TypeOK
BY DEF Types, GuiTypes, DiskTypes, WorkerTypes, LockTypes, DaemonTypes,
       FaultTypes, OutcomeTypes, FileTypes, TypeOK, FetchTypeOK, GuiStates, WorkerStates

\* The states that the actions name.
LEMMA States ==
    /\ {"new", "gone", "checked", "curl", "downloaded", "hashed", "fetched",
        "flocked", "locked", "copied", "staged", "spawned",
        "starting", "up", "asked", "leaving"} \subseteq GuiStates
    /\ {"swapped", "launching", "awaiting", "undo", "undoing", "swapping",
        "restoring", "reopening", "locked", "held", "verified", "new", "waiting",
        "exited", "giveup", "failed", "accepted", "tidy", "none"} \subseteq WorkerStates
BY DEF GuiStates, WorkerStates, Ended, Fetching, Preparing, Working, Holding,
       Transacting, OnTrial

\* update-flow.ts and the processes: an attempt is for a released version.
LEMMA GuiTypesStep ==
    ASSUME GuiTypes, {target, latest} \subseteq Versions, Next
    PROVE  GuiTypes'
<1> USE States, UpdaterAssumption, FetchAssumption
    DEF GuiTypes, Goto, Back, WorkerFrame, NoLaunch, End, InstallIdle,
        fetchVars, guiVars, PrepareFails, Postpone
<1>a. NoAttempt \in [version : Versions, automatic : BOOLEAN]
    BY DEF NoAttempt
<1>b. ASSUME NEW g \in Guis, NEW from, Drop(g, from), UNCHANGED runs
      PROVE  GuiTypes'
    BY <1>a, <1>b DEF Drop
<1>c. ASSUME NEW g \in Guis, NEW from, NEW to \in GuiStates, Proceed(g, from, to),
             UNCHANGED runs
      PROVE  GuiTypes'
    BY <1>c DEF Proceed
<1>d. ASSUME NEW h \in Guis, NEW job, Launch(h, job)
      PROVE  GuiTypes'
    BY <1>a, <1>d DEF Launch
<1>e. UNCHANGED guiVars => GuiTypes'
    OBVIOUS
<1>1. ASSUME NEW g \in Guis, Check(g), InstallIdle
      PROVE  GuiTypes'
    BY <1>1, <1>a DEF Check
<1>2. ASSUME NEW g \in Guis, Copy(g)
      PROVE  GuiTypes'
    BY <1>2, <1>b, <1>c DEF Copy
<1>3. ASSUME NEW g \in Guis, VerifyCopy(g)
      PROVE  GuiTypes'
    BY <1>3, <1>b, <1>c DEF VerifyCopy
<1>4. ASSUME NEW g \in Guis, Spawn(g)
      PROVE  GuiTypes'
    BY <1>4, <1>b DEF Spawn
<1>5. ASSUME NEW g \in Guis, HandOver(g)
      PROVE  GuiTypes'
    BY <1>5, <1>b, ZenonT(60) DEF HandOver
<1>6. ASSUME NEW g \in Guis, WorkerNotReady(g)
      PROVE  GuiTypes'
    BY <1>6, <1>b DEF WorkerNotReady
<1>7. ASSUME NEW g \in Guis, StartGui(g)
      PROVE  GuiTypes'
    BY <1>7, <1>d, <1>e DEF StartGui
<1>8. ASSUME NEW g \in Guis, RestoreGui(g)
      PROVE  GuiTypes'
    BY <1>8, <1>d, <1>e DEF RestoreGui
<1>9. ASSUME NEW g \in Guis, GiveUp(g)
      PROVE  GuiTypes'
    BY <1>9, <1>d, <1>e DEF GiveUp
<1>10. ASSUME NEW g \in Guis, WriteOutcome(g)
       PROVE  GuiTypes'
    BY <1>10, <1>e DEF WriteOutcome
<1>11. ASSUME NEW g \in Guis,
              \/ BeginDownload(g) \/ CurlEnds(g) \/ HashDownload(g)
              \/ RenameDownload(g) \/ RequestInstall(g),
              InstallIdle
       PROVE  GuiTypes'
    BY <1>11, <1>a DEF BeginDownload, CurlEnds, HashDownload, RenameDownload,
           RequestInstall
<1>12. ASSUME NEW g \in Guis,
              \/ TakeLock(g) \/ CheckActive(g) \/ Exit(g) \/ WorkerStarts(g)
              \/ OldGuiEnded(g)
       PROVE  GuiTypes'
    BY <1>12, <1>a DEF TakeLock, CheckActive, Exit, WorkerStarts, OldGuiEnded
<1>13. ASSUME NEW g \in Guis,
              \/ WorkerLock(g) \/ WorkerCheckActive(g) \/ WorkerVerify(g)
              \/ StopDaemon(g) \/ Swap(g)
       PROVE  GuiTypes'
    BY <1>13, <1>a DEF WorkerLock, WorkerCheckActive, WorkerVerify,
           StopDaemon, Swap
<1>14. ASSUME NEW g \in Guis,
              \/ StartDaemon(g) \/ AwaitHealth(g) \/ Undo(g) \/ SwapBack(g)
              \/ RestoreDaemon(g)
       PROVE  GuiTypes'
    BY <1>14, <1>a DEF StartDaemon, AwaitHealth, Undo, SwapBack,
           RestoreDaemon
<1>15. ASSUME NEW g \in Guis,
              \/ RemoveWorkspace(g) \/ Ready(g) \/ StartupExits(g)
              \/ GuiCrash(g) \/ WorkerCrash(g)
       PROVE  GuiTypes'
    BY <1>15, <1>a DEF RemoveWorkspace, Ready, StartupExits, GuiCrash,
           WorkerCrash
<1>16. ASSUME NEW g \in Guis, AskChanges(g)
       PROVE  GuiTypes'
    BY <1>16, <1>a DEF AskChanges
<1>17. CASE Publish /\ InstallIdle
    BY <1>17, <1>a DEF Publish
<1>18. CASE UserStarts
    BY <1>18, <1>d DEF UserStarts
<1> QED
    BY <1>1, <1>2, <1>3, <1>4, <1>5, <1>6, <1>7, <1>8, <1>9, <1>10, <1>11,
       <1>12, <1>13, <1>14, <1>15, <1>16, <1>17, <1>18
    DEF Next, Fetch, Prepare, Worker

\* Bundles.
LEMMA DiskTypesStep ==
    ASSUME DiskTypes, GuiTypes, Next
    PROVE  DiskTypes'
<1> USE UpdaterAssumption, FetchAssumption
    DEF DiskTypes, GuiTypes, WorkerFrame, NoLaunch, InstallIdle, Version,
        PrepareFails, Postpone, Exchange, diskVars
<1>a. ASSUME NEW h \in Guis, NEW job, Launch(h, job)
      PROVE  DiskTypes'
    <2>1. retained' = (retained \cup {candidate[h]}) \ {0} /\ UNCHANGED target
        BY <1>a DEF Launch
    <2>2. candidate' = [candidate EXCEPT ![h] = 0]
        BY <1>a DEF Launch
    <2> QED
        BY <2>1, <2>2
<1>b. UNCHANGED diskVars => DiskTypes'
    OBVIOUS
<1>c. ASSUME NEW g \in Guis, NEW from, Drop(g, from), UNCHANGED <<target, retained>>
      PROVE  DiskTypes'
    BY <1>c DEF Drop
<1>1. ASSUME NEW g \in Guis, Copy(g)
      PROVE  DiskTypes'
    <2>1. CASE Drop(g, "locked") /\ UNCHANGED <<target, retained>>
        BY <2>1, <1>c
    <2>2. CASE /\ \E bundle \in {attempt[g].version, 0} :
                     candidate' = [candidate EXCEPT ![g] = bundle]
               /\ UNCHANGED <<target, retained>>
        <3>1. attempt[g].version \in Versions
            OBVIOUS
        <3> QED
            BY <2>2, <3>1
    <2> HIDE DEF DiskTypes, GuiTypes
    <2> QED
        BY <1>1, <2>1, <2>2 DEF Copy
<1>2. ASSUME NEW g \in Guis, VerifyCopy(g)
      PROVE  DiskTypes'
    BY <1>2, <1>b, <1>c DEF VerifyCopy
<1>3. ASSUME NEW g \in Guis, Spawn(g)
      PROVE  DiskTypes'
    BY <1>3, <1>b, <1>c DEF Spawn
<1>4. ASSUME NEW g \in Guis, HandOver(g)
      PROVE  DiskTypes'
    BY <1>4, <1>b, <1>c DEF HandOver
<1>5. ASSUME NEW g \in Guis, WorkerNotReady(g)
      PROVE  DiskTypes'
    BY <1>5, <1>b, <1>c DEF WorkerNotReady
<1>6. ASSUME NEW g \in Guis, WorkerLock(g)
      PROVE  DiskTypes'
    <2> HIDE DEF DiskTypes, GuiTypes
    <2> QED
        BY <1>6, <1>b DEF WorkerLock
<1>7. ASSUME NEW g \in Guis, WorkerCheckActive(g)
      PROVE  DiskTypes'
    <2> HIDE DEF DiskTypes, GuiTypes
    <2> QED
        BY <1>7, <1>b DEF WorkerCheckActive
<1>8. ASSUME NEW g \in Guis, WorkerVerify(g)
      PROVE  DiskTypes'
    <2> HIDE DEF DiskTypes, GuiTypes
    <2> QED
        BY <1>8, <1>b DEF WorkerVerify
<1>9. ASSUME NEW g \in Guis, StopDaemon(g)
      PROVE  DiskTypes'
    <2> HIDE DEF DiskTypes, GuiTypes
    <2> QED
        BY <1>9, <1>b DEF StopDaemon
<1>10. ASSUME NEW g \in Guis, Swap(g)
       PROVE  DiskTypes'
    <2>1. CASE UNCHANGED diskVars
        BY <2>1, <1>b
    <2>2. CASE Exchange(g)
        BY <2>2
    <2> HIDE DEF DiskTypes, GuiTypes, Exchange
    <2> QED
        BY <1>10, <2>1, <2>2 DEF Swap
<1>11. ASSUME NEW g \in Guis, StartDaemon(g)
       PROVE  DiskTypes'
    <2> HIDE DEF DiskTypes, GuiTypes
    <2> QED
        BY <1>11, <1>b DEF StartDaemon
<1>12. ASSUME NEW g \in Guis, StartGui(g)
       PROVE  DiskTypes'
    BY <1>12, <1>a, <1>b DEF StartGui
<1>13. ASSUME NEW g \in Guis, AwaitHealth(g)
       PROVE  DiskTypes'
    <2> HIDE DEF DiskTypes, GuiTypes
    <2> QED
        BY <1>13, <1>b DEF AwaitHealth
<1>14. ASSUME NEW g \in Guis, Undo(g)
       PROVE  DiskTypes'
    <2> HIDE DEF DiskTypes, GuiTypes
    <2> QED
        BY <1>14, <1>b DEF Undo
<1>15. ASSUME NEW g \in Guis, SwapBack(g)
       PROVE  DiskTypes'
    <2>1. CASE UNCHANGED diskVars
        BY <2>1, <1>b
    <2>2. CASE Exchange(g)
        BY <2>2
    <2> HIDE DEF DiskTypes, GuiTypes, Exchange
    <2> QED
        BY <1>15, <2>1, <2>2 DEF SwapBack
<1>16. ASSUME NEW g \in Guis, RestoreDaemon(g)
       PROVE  DiskTypes'
    <2> HIDE DEF DiskTypes, GuiTypes
    <2> QED
        BY <1>16, <1>b DEF RestoreDaemon
<1>17. ASSUME NEW g \in Guis, RestoreGui(g)
       PROVE  DiskTypes'
    BY <1>17, <1>a, <1>b DEF RestoreGui
<1>18. ASSUME NEW g \in Guis, GiveUp(g)
       PROVE  DiskTypes'
    BY <1>18, <1>a, <1>b DEF GiveUp
<1>19. ASSUME NEW g \in Guis, Ready(g)
       PROVE  DiskTypes'
    <2> HIDE DEF DiskTypes, GuiTypes
    <2> QED
        BY <1>19, <1>b DEF Ready
<1>20. ASSUME NEW g \in Guis, StartupExits(g)
       PROVE  DiskTypes'
    <2> HIDE DEF DiskTypes, GuiTypes
    <2> QED
        BY <1>20, <1>b DEF StartupExits
<1>21. ASSUME NEW g \in Guis,
              \/ Check(g) \/ BeginDownload(g) \/ CurlEnds(g)
              \/ HashDownload(g) \/ RenameDownload(g) \/ RequestInstall(g),
              InstallIdle
       PROVE  DiskTypes'
    BY <1>21 DEF Check, BeginDownload, CurlEnds, HashDownload,
           RenameDownload, RequestInstall
<1>22. ASSUME NEW g \in Guis,
              \/ TakeLock(g) \/ CheckActive(g) \/ Exit(g) \/ WorkerStarts(g)
              \/ OldGuiEnded(g)
       PROVE  DiskTypes'
    BY <1>22 DEF TakeLock, CheckActive, Exit, WorkerStarts, OldGuiEnded
<1>23. ASSUME NEW g \in Guis,
              \/ WriteOutcome(g) \/ RemoveWorkspace(g) \/ GuiCrash(g)
              \/ WorkerCrash(g) \/ AskChanges(g)
       PROVE  DiskTypes'
    BY <1>23 DEF WriteOutcome, RemoveWorkspace, GuiCrash, WorkerCrash,
           AskChanges
<1>24. CASE Publish /\ InstallIdle
    BY <1>24 DEF Publish
<1>25. CASE UserStarts
    BY <1>25, <1>a, <1>b DEF UserStarts
<1> QED
    BY <1>1, <1>2, <1>3, <1>4, <1>5, <1>6, <1>7, <1>8, <1>9, <1>10, <1>11,
       <1>12, <1>13, <1>14, <1>15, <1>16, <1>17, <1>18, <1>19, <1>20, <1>21,
       <1>22, <1>23, <1>24, <1>25
    DEF Next, Fetch, Prepare, Worker

\* Workers and the files of their jobs.
LEMMA WorkerTypesStep ==
    ASSUME WorkerTypes, Next
    PROVE  WorkerTypes'
<1> USE States, UpdaterAssumption, FetchAssumption
    DEF WorkerTypes, WorkerGoto, Launch, WorkerFrame, NoLaunch, InstallIdle, jobVars
<1>a. ASSUME NEW g \in Guis, WorkerGone(g)
      PROVE  WorkerTypes'
    BY <1>a DEF WorkerGone
<1>b. ASSUME NEW g \in Guis, NEW from, NEW to \in WorkerStates, WorkerGoto(g, from, to),
             UNCHANGED <<ready, health, child, bornOf>>, owned' \in [Guis -> BOOLEAN]
      PROVE  WorkerTypes'
    BY <1>b
<1>1. ASSUME NEW g \in Guis, HandOver(g)
      PROVE  WorkerTypes'
    BY <1>1, <1>a DEF HandOver
<1>2. ASSUME NEW g \in Guis, WorkerNotReady(g)
      PROVE  WorkerTypes'
    BY <1>2, <1>a DEF WorkerNotReady
<1>3. ASSUME NEW g \in Guis, WorkerStarts(g)
      PROVE  WorkerTypes'
    <2>1. CASE WorkerGone(g)
        BY <2>1, <1>a
    <2>2. CASE WorkerGoto(g, "new", "waiting") /\ ready' = [ready EXCEPT ![g] = TRUE]
                 /\ UNCHANGED <<health, child, owned, bornOf>>
        BY <2>2
    <2> QED
        BY <1>3, <2>1, <2>2 DEF WorkerStarts
<1>4. ASSUME NEW g \in Guis, WorkerVerify(g)
      PROVE  WorkerTypes'
    BY <1>4 DEF WorkerVerify
<1>5. ASSUME NEW g \in Guis, StopDaemon(g)
      PROVE  WorkerTypes'
    <2>1. owned' \in [Guis -> BOOLEAN]
        BY <1>5 DEF StopDaemon
    <2>2. \/ WorkerGoto(g, "verified", "swapping")
          \/ WorkerGoto(g, "verified", "giveup")
        BY <1>5 DEF StopDaemon
    <2>3. UNCHANGED <<ready, health, child, bornOf>>
        BY <1>5 DEF StopDaemon
    <2> HIDE DEF WorkerGoto, WorkerTypes
    <2> QED
        BY <1>b, <2>1, <2>2, <2>3
<1>6. ASSUME NEW g \in Guis, Undo(g)
      PROVE  WorkerTypes'
    BY <1>6 DEF Undo
<1>7. ASSUME NEW g \in Guis, WriteOutcome(g)
      PROVE  WorkerTypes'
    <2>1. WorkerGone(g) \/ (WorkerGoto(g, "accepted", "tidy") /\ UNCHANGED jobVars)
        BY <1>7 DEF WriteOutcome
    <2> QED
        BY <1>a, <2>1
<1>8. ASSUME NEW g \in Guis, RemoveWorkspace(g)
      PROVE  WorkerTypes'
    BY <1>8, <1>a DEF RemoveWorkspace
<1>9. ASSUME NEW g \in Guis, WorkerCrash(g)
      PROVE  WorkerTypes'
    BY <1>9, <1>a DEF WorkerCrash
<1>10. ASSUME NEW g \in Guis,
              \/ Check(g) \/ BeginDownload(g) \/ CurlEnds(g)
              \/ HashDownload(g) \/ RenameDownload(g) \/ RequestInstall(g),
              InstallIdle
       PROVE  WorkerTypes'
    BY <1>10 DEF Check, BeginDownload, CurlEnds, HashDownload,
           RenameDownload, RequestInstall
<1>11. ASSUME NEW g \in Guis,
              \/ TakeLock(g) \/ CheckActive(g) \/ Copy(g) \/ VerifyCopy(g)
              \/ Spawn(g)
       PROVE  WorkerTypes'
    BY <1>11 DEF TakeLock, CheckActive, Copy, VerifyCopy, Spawn
<1>12. ASSUME NEW g \in Guis,
              \/ Exit(g) \/ OldGuiEnded(g) \/ WorkerLock(g)
              \/ WorkerCheckActive(g) \/ Swap(g)
       PROVE  WorkerTypes'
    BY <1>12 DEF Exit, OldGuiEnded, WorkerLock, WorkerCheckActive, Swap
<1>13. ASSUME NEW g \in Guis,
              \/ StartDaemon(g) \/ StartGui(g) \/ AwaitHealth(g)
              \/ SwapBack(g) \/ RestoreDaemon(g)
       PROVE  WorkerTypes'
    BY <1>13 DEF StartDaemon, StartGui, AwaitHealth, SwapBack, RestoreDaemon
<1>14. ASSUME NEW g \in Guis,
              \/ RestoreGui(g) \/ GiveUp(g) \/ Ready(g) \/ StartupExits(g)
              \/ GuiCrash(g)
       PROVE  WorkerTypes'
    BY <1>14 DEF RestoreGui, GiveUp, Ready, StartupExits, GuiCrash
<1>15. ASSUME NEW g \in Guis, AskChanges(g)
       PROVE  WorkerTypes'
    BY <1>15 DEF AskChanges
<1>16. CASE Publish /\ InstallIdle
    BY <1>16 DEF Publish
<1>17. CASE UserStarts
    BY <1>17 DEF UserStarts
<1> QED
    BY <1>1, <1>2, <1>3, <1>4, <1>5, <1>6, <1>7, <1>8, <1>9, <1>10, <1>11,
       <1>12, <1>13, <1>14, <1>15, <1>16, <1>17
    DEF Next, Fetch, Prepare, Worker

\* install.lock and active.json.
LEMMA LockTypesStep ==
    ASSUME LockTypes, Next
    PROVE  LockTypes'
<1> USE UpdaterAssumption, FetchAssumption
    DEF LockTypes, Launch, WorkerFrame, NoLaunch, InstallIdle, Release, Drop,
        Proceed, PrepareFails, Postpone, Free, lockVars
<1>1. ASSUME NEW g \in Guis, Copy(g)
      PROVE  LockTypes'
    BY <1>1 DEF Copy
<1>2. ASSUME NEW g \in Guis, VerifyCopy(g)
      PROVE  LockTypes'
    BY <1>2 DEF VerifyCopy
<1>3. ASSUME NEW g \in Guis, Spawn(g)
      PROVE  LockTypes'
    BY <1>3 DEF Spawn
<1>4. ASSUME NEW g \in Guis, HandOver(g)
      PROVE  LockTypes'
    BY <1>4 DEF HandOver
<1>5. ASSUME NEW g \in Guis, WorkerNotReady(g)
      PROVE  LockTypes'
    BY <1>5 DEF WorkerNotReady
<1>6. ASSUME NEW g \in Guis,
             \/ Check(g) \/ BeginDownload(g) \/ CurlEnds(g) \/ HashDownload(g)
             \/ RenameDownload(g) \/ RequestInstall(g),
             InstallIdle
      PROVE  LockTypes'
    BY <1>6 DEF Check, BeginDownload, CurlEnds, HashDownload,
           RenameDownload, RequestInstall
<1>7. ASSUME NEW g \in Guis,
             \/ TakeLock(g) \/ CheckActive(g) \/ Exit(g) \/ WorkerStarts(g)
             \/ OldGuiEnded(g)
      PROVE  LockTypes'
    BY <1>7 DEF TakeLock, CheckActive, Exit, WorkerStarts, OldGuiEnded
<1>8. ASSUME NEW g \in Guis,
             \/ WorkerLock(g) \/ WorkerCheckActive(g) \/ WorkerVerify(g)
             \/ StopDaemon(g) \/ Swap(g)
      PROVE  LockTypes'
    BY <1>8 DEF WorkerLock, WorkerCheckActive, WorkerVerify, StopDaemon,
           Swap
<1>9. ASSUME NEW g \in Guis,
             \/ StartDaemon(g) \/ StartGui(g) \/ AwaitHealth(g) \/ Undo(g)
             \/ SwapBack(g)
      PROVE  LockTypes'
    BY <1>9 DEF StartDaemon, StartGui, AwaitHealth, Undo, SwapBack
<1>10. ASSUME NEW g \in Guis,
              \/ RestoreDaemon(g) \/ RestoreGui(g) \/ GiveUp(g)
              \/ WriteOutcome(g) \/ RemoveWorkspace(g)
       PROVE  LockTypes'
    BY <1>10 DEF RestoreDaemon, RestoreGui, GiveUp, WriteOutcome,
           RemoveWorkspace
<1>11. ASSUME NEW g \in Guis,
              \/ Ready(g) \/ StartupExits(g) \/ GuiCrash(g) \/ WorkerCrash(g)
              \/ AskChanges(g)
       PROVE  LockTypes'
    BY <1>11 DEF Ready, StartupExits, GuiCrash, WorkerCrash, AskChanges
<1>12. CASE Publish /\ InstallIdle
    BY <1>12 DEF Publish
<1>13. CASE UserStarts
    BY <1>13 DEF UserStarts
<1> QED
    BY <1>1, <1>2, <1>3, <1>4, <1>5, <1>6, <1>7, <1>8, <1>9, <1>10, <1>11,
       <1>12, <1>13
    DEF Next, Fetch, Prepare, Worker

\* The daemon runs what was installed.
LEMMA DaemonTypesStep ==
    ASSUME DaemonTypes, target \in Versions, Next
    PROVE  DaemonTypes'
<1> USE DEF DaemonTypes, WorkerFrame, InstallIdle, LoadDaemon, Unloaded, Down
<1>1. ASSUME NEW g \in Guis,
             \/ Check(g) \/ BeginDownload(g) \/ CurlEnds(g) \/ HashDownload(g)
             \/ RenameDownload(g) \/ RequestInstall(g),
             InstallIdle
      PROVE  DaemonTypes'
    BY <1>1 DEF Check, BeginDownload, CurlEnds, HashDownload,
           RenameDownload, RequestInstall
<1>2. ASSUME NEW g \in Guis,
             \/ TakeLock(g) \/ CheckActive(g) \/ Copy(g) \/ VerifyCopy(g)
             \/ Spawn(g)
      PROVE  DaemonTypes'
    BY <1>2 DEF TakeLock, CheckActive, Copy, VerifyCopy, Spawn
<1>3. ASSUME NEW g \in Guis,
             \/ HandOver(g) \/ WorkerNotReady(g) \/ Exit(g) \/ WorkerStarts(g)
             \/ OldGuiEnded(g)
      PROVE  DaemonTypes'
    BY <1>3 DEF HandOver, WorkerNotReady, Exit, WorkerStarts, OldGuiEnded
<1>4. ASSUME NEW g \in Guis,
             \/ WorkerLock(g) \/ WorkerCheckActive(g) \/ WorkerVerify(g)
             \/ StopDaemon(g) \/ Swap(g)
      PROVE  DaemonTypes'
    BY <1>4 DEF WorkerLock, WorkerCheckActive, WorkerVerify, StopDaemon,
           Swap
<1>5. ASSUME NEW g \in Guis,
             \/ StartDaemon(g) \/ StartGui(g) \/ AwaitHealth(g) \/ Undo(g)
             \/ SwapBack(g)
      PROVE  DaemonTypes'
    BY <1>5 DEF StartDaemon, StartGui, AwaitHealth, Undo, SwapBack
<1>6. ASSUME NEW g \in Guis,
             \/ RestoreDaemon(g) \/ RestoreGui(g) \/ GiveUp(g)
             \/ WriteOutcome(g) \/ RemoveWorkspace(g)
      PROVE  DaemonTypes'
    BY <1>6 DEF RestoreDaemon, RestoreGui, GiveUp, WriteOutcome,
           RemoveWorkspace
<1>7. ASSUME NEW g \in Guis,
             \/ Ready(g) \/ StartupExits(g) \/ GuiCrash(g) \/ WorkerCrash(g)
             \/ AskChanges(g)
      PROVE  DaemonTypes'
    BY <1>7 DEF Ready, StartupExits, GuiCrash, WorkerCrash, AskChanges
<1>8. CASE Publish /\ InstallIdle
    BY <1>8 DEF Publish
<1>9. CASE UserStarts
    BY <1>9 DEF UserStarts
<1> QED
    BY <1>1, <1>2, <1>3, <1>4, <1>5, <1>6, <1>7, <1>8, <1>9
    DEF Next, Fetch, Prepare, Worker

\* What may still go wrong.
LEMMA FaultTypesStep ==
    ASSUME FaultTypes, Next
    PROVE  FaultTypes'
<1> USE DEF WorkerFrame, InstallIdle
<1>a. Fault => faults' \in 0..MaxFaults
    BY UpdaterAssumption DEF FaultTypes, Fault
<1>b. HarmlessFault \/ Mishap => FaultTypes'
    BY <1>a DEF FaultTypes, HarmlessFault, Mishap
<1>c. UNCHANGED faultVars => FaultTypes'
    BY DEF FaultTypes, faultVars
<1> USE <1>b, <1>c DEF NoFault
<1>1. ASSUME NEW g \in Guis,
             \/ Check(g) \/ BeginDownload(g) \/ CurlEnds(g) \/ HashDownload(g)
             \/ RenameDownload(g) \/ RequestInstall(g),
             InstallIdle
      PROVE  FaultTypes'
    BY <1>1 DEF Check, BeginDownload, CurlEnds, HashDownload,
           RenameDownload, RequestInstall
<1>2. ASSUME NEW g \in Guis,
             \/ TakeLock(g) \/ CheckActive(g) \/ Copy(g) \/ VerifyCopy(g)
             \/ Spawn(g)
      PROVE  FaultTypes'
    BY <1>2 DEF TakeLock, CheckActive, Copy, VerifyCopy, Spawn
<1>3. ASSUME NEW g \in Guis,
             \/ HandOver(g) \/ WorkerNotReady(g) \/ Exit(g) \/ WorkerStarts(g)
             \/ OldGuiEnded(g)
      PROVE  FaultTypes'
    BY <1>3 DEF HandOver, WorkerNotReady, Exit, WorkerStarts, OldGuiEnded
<1>4. ASSUME NEW g \in Guis,
             \/ WorkerLock(g) \/ WorkerCheckActive(g) \/ WorkerVerify(g)
             \/ StopDaemon(g) \/ Swap(g)
      PROVE  FaultTypes'
    BY <1>4 DEF WorkerLock, WorkerCheckActive, WorkerVerify, StopDaemon,
           Swap
<1>5. ASSUME NEW g \in Guis,
             \/ StartDaemon(g) \/ StartGui(g) \/ AwaitHealth(g) \/ Undo(g)
             \/ SwapBack(g)
      PROVE  FaultTypes'
    BY <1>5 DEF StartDaemon, StartGui, AwaitHealth, Undo, SwapBack
<1>6. ASSUME NEW g \in Guis,
             \/ RestoreDaemon(g) \/ RestoreGui(g) \/ GiveUp(g)
             \/ WriteOutcome(g) \/ RemoveWorkspace(g)
      PROVE  FaultTypes'
    BY <1>6 DEF RestoreDaemon, RestoreGui, GiveUp, WriteOutcome,
           RemoveWorkspace
<1>7. ASSUME NEW g \in Guis,
             \/ Ready(g) \/ StartupExits(g) \/ GuiCrash(g) \/ WorkerCrash(g)
             \/ AskChanges(g)
      PROVE  FaultTypes'
    BY <1>7 DEF Ready, StartupExits, GuiCrash, WorkerCrash, AskChanges
<1>8. CASE Publish /\ InstallIdle
    BY <1>8 DEF Publish
<1>9. CASE UserStarts
    BY <1>9 DEF UserStarts
<1> QED
    BY <1>1, <1>2, <1>3, <1>4, <1>5, <1>6, <1>7, <1>8, <1>9
    DEF Next, Fetch, Prepare, Worker

\* outcome.json.
LEMMA OutcomeTypesStep ==
    ASSUME OutcomeTypes, GuiTypes, Next
    PROVE  OutcomeTypes'
<1> USE UpdaterAssumption, FetchAssumption
    DEF OutcomeTypes, GuiTypes, Version, WorkerFrame, InstallIdle, Proceed,
        PrepareFails, Postpone, failVars
<1>a. ASSUME NEW g \in Guis, NEW failed \in BOOLEAN, Record(g, failed)
      PROVE  OutcomeTypes'
    BY <1>a DEF Record
<1>1. ASSUME NEW g \in Guis, Copy(g)
      PROVE  OutcomeTypes'
    BY <1>1, <1>a DEF Copy
<1>2. ASSUME NEW g \in Guis, VerifyCopy(g)
      PROVE  OutcomeTypes'
    BY <1>2, <1>a DEF VerifyCopy
<1>3. ASSUME NEW g \in Guis, Spawn(g)
      PROVE  OutcomeTypes'
    <2>1. CASE PrepareFails(g, "staged")
        BY <2>1, <1>a
    <2>2. CASE outcome' = outcome /\ rolledBack' \in {rolledBack, 0}
        BY <2>2
    <2> QED
        BY <1>3, <2>1, <2>2 DEF Spawn
<1>4. ASSUME NEW g \in Guis, HandOver(g)
      PROVE  OutcomeTypes'
    BY <1>4, <1>a DEF HandOver
<1>5. ASSUME NEW g \in Guis, WorkerNotReady(g)
      PROVE  OutcomeTypes'
    BY <1>5, <1>a DEF WorkerNotReady
<1>6. ASSUME NEW g \in Guis, WriteOutcome(g)
      PROVE  OutcomeTypes'
    BY <1>6, <1>a DEF WriteOutcome
<1>7. ASSUME NEW g \in Guis,
             \/ Check(g) \/ BeginDownload(g) \/ CurlEnds(g) \/ HashDownload(g)
             \/ RenameDownload(g) \/ RequestInstall(g),
             InstallIdle
      PROVE  OutcomeTypes'
    BY <1>7 DEF Check, BeginDownload, CurlEnds, HashDownload,
           RenameDownload, RequestInstall
<1>8. ASSUME NEW g \in Guis,
             \/ TakeLock(g) \/ CheckActive(g) \/ Exit(g) \/ WorkerStarts(g)
             \/ OldGuiEnded(g)
      PROVE  OutcomeTypes'
    BY <1>8 DEF TakeLock, CheckActive, Exit, WorkerStarts, OldGuiEnded
<1>9. ASSUME NEW g \in Guis,
             \/ WorkerLock(g) \/ WorkerCheckActive(g) \/ WorkerVerify(g)
             \/ StopDaemon(g) \/ Swap(g)
      PROVE  OutcomeTypes'
    BY <1>9 DEF WorkerLock, WorkerCheckActive, WorkerVerify, StopDaemon,
           Swap
<1>10. ASSUME NEW g \in Guis,
              \/ StartDaemon(g) \/ StartGui(g) \/ AwaitHealth(g) \/ Undo(g)
              \/ SwapBack(g)
       PROVE  OutcomeTypes'
    BY <1>10 DEF StartDaemon, StartGui, AwaitHealth, Undo, SwapBack
<1>11. ASSUME NEW g \in Guis,
              \/ RestoreDaemon(g) \/ RestoreGui(g) \/ GiveUp(g)
              \/ RemoveWorkspace(g) \/ Ready(g)
       PROVE  OutcomeTypes'
    BY <1>11 DEF RestoreDaemon, RestoreGui, GiveUp, RemoveWorkspace, Ready
<1>12. ASSUME NEW g \in Guis,
              \/ StartupExits(g) \/ GuiCrash(g) \/ WorkerCrash(g)
              \/ AskChanges(g)
       PROVE  OutcomeTypes'
    BY <1>12 DEF StartupExits, GuiCrash, WorkerCrash, AskChanges
<1>13. CASE Publish /\ InstallIdle
    BY <1>13 DEF Publish
<1>14. CASE UserStarts
    BY <1>14 DEF UserStarts
<1> QED
    BY <1>1, <1>2, <1>3, <1>4, <1>5, <1>6, <1>7, <1>8, <1>9, <1>10, <1>11,
       <1>12, <1>13, <1>14
    DEF Next, Fetch, Prepare, Worker

\* Downloads.
LEMMA FileTypesStep ==
    ASSUME FileTypes, GuiTypes, Next
    PROVE  FileTypes'
<1> USE FetchAssumption
    DEF FileTypes, WorkerFrame, InstallIdle, fetchVars
<1>a. \A g \in Guis : attempt[g].version \in Versions
    BY DEF GuiTypes
<1>b. NoFile \in [by : Guis \cup {NoGui}, whole : BOOLEAN]
    BY DEF NoFile
<1>1. ASSUME NEW g \in Guis, BeginDownload(g), InstallIdle
      PROVE  FileTypes'
    <2>1. [by |-> g, whole |-> FALSE] \in [by : Guis \cup {NoGui}, whole : BOOLEAN]
        OBVIOUS
    <2> QED
        <3>1. attempt[g].version \in Versions
            BY <1>a
        <3>2. \/ UNCHANGED tmp
              \/ tmp' = [tmp EXCEPT ![attempt[g].version] = [by |-> g, whole |-> FALSE]]
            BY <1>1 DEF BeginDownload
        <3>3. UNCHANGED <<latest, dmg>>
            BY <1>1 DEF BeginDownload
        <3>4. tmp' \in [Versions -> [by : Guis \cup {NoGui}, whole : BOOLEAN]]
            <4> DEFINE v == attempt[g].version
                       r == [by |-> g, whole |-> FALSE]
                       R == [by : Guis \cup {NoGui}, whole : BOOLEAN]
            <4>1. tmp \in [Versions -> R] /\ v \in Versions /\ r \in R
                BY <2>1, <3>1
            <4>2. tmp' = tmp \/ tmp' = [tmp EXCEPT ![v] = r]
                BY <3>2
            <4> HIDE DEF v, r, R, FileTypes, GuiTypes
            <4>3. tmp' \in [Versions -> R]
                BY <4>1, <4>2
            <4> QED
                BY <4>3 DEF R
        <3> QED
            BY <3>3, <3>4
<1>2. ASSUME NEW g \in Guis, CurlEnds(g), InstallIdle
      PROVE  FileTypes'
    <2> DEFINE v == attempt[g].version
    <2>1. v \in Versions
        BY <1>a
    <2>2. [tmp EXCEPT ![v].whole = TRUE]
              \in [Versions -> [by : Guis \cup {NoGui}, whole : BOOLEAN]]
        BY <2>1
    <2>3. tmp' \in {tmp, [tmp EXCEPT ![v].whole = TRUE], [tmp EXCEPT ![v] = NoFile]}
        BY <1>2 DEF CurlEnds
    <2>4. UNCHANGED <<latest, dmg>>
        BY <1>2 DEF CurlEnds
    <2> QED
        BY <1>b, <2>1, <2>2, <2>3, <2>4
<1>3. ASSUME NEW g \in Guis, HashDownload(g), InstallIdle
      PROVE  FileTypes'
    BY <1>3, <1>a, <1>b DEF HashDownload
<1>4. ASSUME NEW g \in Guis, RenameDownload(g), InstallIdle
      PROVE  FileTypes'
    BY <1>4, <1>a, <1>b DEF RenameDownload
<1>5. ASSUME NEW g \in Guis,
             Check(g) \/ RequestInstall(g),
             InstallIdle
      PROVE  FileTypes'
    BY <1>5 DEF Check, RequestInstall
<1>6. ASSUME NEW g \in Guis,
             \/ TakeLock(g) \/ CheckActive(g) \/ Copy(g) \/ VerifyCopy(g)
             \/ Spawn(g)
      PROVE  FileTypes'
    BY <1>6 DEF TakeLock, CheckActive, Copy, VerifyCopy, Spawn
<1>7. ASSUME NEW g \in Guis,
             \/ HandOver(g) \/ WorkerNotReady(g) \/ Exit(g) \/ WorkerStarts(g)
             \/ OldGuiEnded(g)
      PROVE  FileTypes'
    BY <1>7 DEF HandOver, WorkerNotReady, Exit, WorkerStarts, OldGuiEnded
<1>8. ASSUME NEW g \in Guis,
             \/ WorkerLock(g) \/ WorkerCheckActive(g) \/ WorkerVerify(g)
             \/ StopDaemon(g) \/ Swap(g)
      PROVE  FileTypes'
    BY <1>8 DEF WorkerLock, WorkerCheckActive, WorkerVerify, StopDaemon,
           Swap
<1>9. ASSUME NEW g \in Guis,
             \/ StartDaemon(g) \/ StartGui(g) \/ AwaitHealth(g) \/ Undo(g)
             \/ SwapBack(g)
      PROVE  FileTypes'
    BY <1>9 DEF StartDaemon, StartGui, AwaitHealth, Undo, SwapBack
<1>10. ASSUME NEW g \in Guis,
              \/ RestoreDaemon(g) \/ RestoreGui(g) \/ GiveUp(g)
              \/ WriteOutcome(g) \/ RemoveWorkspace(g)
       PROVE  FileTypes'
    BY <1>10 DEF RestoreDaemon, RestoreGui, GiveUp, WriteOutcome,
           RemoveWorkspace
<1>11. ASSUME NEW g \in Guis,
              \/ Ready(g) \/ StartupExits(g) \/ GuiCrash(g) \/ WorkerCrash(g)
              \/ AskChanges(g)
       PROVE  FileTypes'
    BY <1>11 DEF Ready, StartupExits, GuiCrash, WorkerCrash, AskChanges
<1>12. CASE Publish /\ InstallIdle
    BY <1>12 DEF Publish
<1>13. CASE UserStarts
    BY <1>13 DEF UserStarts
<1> QED
    BY <1>1, <1>2, <1>3, <1>4, <1>5, <1>6, <1>7, <1>8, <1>9, <1>10, <1>11,
       <1>12, <1>13
    DEF Next, Fetch, Prepare, Worker

-----------------------------------------------------------------------------
(* What install.lock protects.                                             *)

\* Whoever acts under the lock is alone.
LEMMA WhoHolds ==
    ASSUME Locked, NEW g \in Guis, gpc[g] \in Preparing \/ wpc[g] \in Holding
    PROVE  \A f \in Guis : /\ gpc[f] \in Preparing => f = g /\ gpc[g] \in Preparing
                           /\ wpc[f] \in Holding => f = g /\ wpc[g] \in Holding
BY DEF Locked

\* The lock is taken when it is free and released by its holder.
LEMMA LockedStep ==
    ASSUME Locked, GuiTypes, WorkerTypes, Next
    PROVE  Locked'
<1> USE DEF Locked, GuiTypes, WorkerTypes, Goto, Back, WorkerGoto, WorkerGone, Launch,
        WorkerFrame, NoLaunch, InstallIdle, Release, PrepareFails,
        Postpone, End, Free, Preparing, Holding, Transacting, OnTrial,
        guiVars, lockVars
<1>a. ASSUME NEW g \in Guis, NEW from \in Preparing, Drop(g, from),
             wpc' \in {wpc, [wpc EXCEPT ![g] = "none"]}
      PROVE  Locked'
    BY <1>a, WhoHolds DEF Drop
<1>b. ASSUME NEW g \in Guis, NEW from \in Preparing, NEW to \in Preparing,
             Proceed(g, from, to), UNCHANGED wpc
      PROVE  Locked'
    BY <1>b DEF Proceed
<1>1. ASSUME NEW g \in Guis, Copy(g)
      PROVE  Locked'
    BY <1>1, <1>a, <1>b DEF Copy
<1>2. ASSUME NEW g \in Guis, VerifyCopy(g)
      PROVE  Locked'
    BY <1>2, <1>a, <1>b DEF VerifyCopy
<1>3. ASSUME NEW g \in Guis, Spawn(g)
      PROVE  Locked'
    <2>1. CASE PrepareFails(g, "staged") /\ UNCHANGED wpc
        BY <2>1, <1>a
    <2>2. CASE Postpone(g, "staged") /\ UNCHANGED wpc
        BY <2>2, <1>a
    <2>3. CASE /\ Goto(g, "staged", "spawned")
               /\ wpc' = [wpc EXCEPT ![g] = "new"] /\ UNCHANGED lock
        BY <2>3
    <2> QED
        BY <1>3, <2>1, <2>2, <2>3 DEF Spawn
<1>4. ASSUME NEW g \in Guis, HandOver(g)
      PROVE  Locked'
    <2>1. CASE PrepareFails(g, "spawned") /\ WorkerGone(g)
        BY <2>1, <1>a
    <2>2. CASE Postpone(g, "spawned") /\ WorkerGone(g)
        BY <2>2, <1>a
    <2>3. CASE Goto(g, "spawned", "leaving") /\ UNCHANGED wpc /\ Release
        BY <2>3, WhoHolds
    <2> QED
        BY <1>4, <2>1, <2>2, <2>3 DEF HandOver
<1>5. ASSUME NEW g \in Guis, WorkerNotReady(g)
      PROVE  Locked'
    BY <1>5, <1>a, <1>b DEF WorkerNotReady
<1>6. ASSUME NEW g \in Guis, RestoreGui(g)
      PROVE  Locked'
    BY <1>6 DEF RestoreGui
<1>7. ASSUME NEW g \in Guis, GiveUp(g)
      PROVE  Locked'
    BY <1>7 DEF GiveUp
<1>8. ASSUME NEW g \in Guis, WriteOutcome(g)
      PROVE  Locked'
    <2>1. /\ wpc[g] \notin Holding /\ UNCHANGED <<gpc, lock>>
          /\ \/ wpc' = [wpc EXCEPT ![g] = "tidy"]
             \/ wpc' = [wpc EXCEPT ![g] = "none"]
        BY <1>8 DEF WriteOutcome
    <2> QED
        BY <2>1
<1>9. ASSUME NEW g \in Guis,
             \/ Check(g) \/ BeginDownload(g) \/ CurlEnds(g) \/ HashDownload(g)
             \/ RenameDownload(g) \/ RequestInstall(g),
             InstallIdle
      PROVE  Locked'
    BY <1>9 DEF Check, BeginDownload, CurlEnds, HashDownload,
           RenameDownload, RequestInstall
<1>10. ASSUME NEW g \in Guis,
              \/ TakeLock(g) \/ CheckActive(g) \/ Exit(g) \/ WorkerStarts(g)
              \/ OldGuiEnded(g)
       PROVE  Locked'
    BY <1>10 DEF TakeLock, CheckActive, Exit, WorkerStarts, OldGuiEnded
<1>11. ASSUME NEW g \in Guis,
              \/ WorkerLock(g) \/ WorkerCheckActive(g) \/ WorkerVerify(g)
              \/ StopDaemon(g) \/ Swap(g)
       PROVE  Locked'
    BY <1>11 DEF WorkerLock, WorkerCheckActive, WorkerVerify, StopDaemon,
           Swap
<1>12. ASSUME NEW g \in Guis,
              \/ StartDaemon(g) \/ StartGui(g) \/ AwaitHealth(g) \/ Undo(g)
              \/ SwapBack(g)
       PROVE  Locked'
    BY <1>12 DEF StartDaemon, StartGui, AwaitHealth, Undo, SwapBack
<1>13. ASSUME NEW g \in Guis,
              \/ RestoreDaemon(g) \/ RemoveWorkspace(g) \/ Ready(g)
              \/ StartupExits(g) \/ GuiCrash(g)
       PROVE  Locked'
    BY <1>13 DEF RestoreDaemon, RemoveWorkspace, Ready, StartupExits,
           GuiCrash
<1>14. ASSUME NEW g \in Guis,
              WorkerCrash(g) \/ AskChanges(g)
       PROVE  Locked'
    BY <1>14 DEF WorkerCrash, AskChanges
<1>15. CASE Publish /\ InstallIdle
    BY <1>15 DEF Publish
<1>16. CASE UserStarts
    BY <1>16 DEF UserStarts
<1> QED
    BY <1>1, <1>2, <1>3, <1>4, <1>5, <1>6, <1>7, <1>8, <1>9, <1>10, <1>11,
       <1>12, <1>13, <1>14, <1>15, <1>16
    DEF Next, Fetch, Prepare, Worker

\* A candidate is verified under the lock and then only exchanged.
LEMMA UntouchedStep ==
    ASSUME Untouched, Locked, GuiTypes, DiskTypes, WorkerTypes, Next
    PROVE  Untouched'
<1> USE UpdaterAssumption, FetchAssumption, WhoHolds
    DEF Untouched, GuiTypes, DiskTypes, WorkerTypes, WorkerGoto, WorkerGone,
        WorkerFrame, NoLaunch, InstallIdle, PrepareFails, Postpone, Exchange,
        Verified, Version, Preparing, Holding, Transacting, OnTrial, diskVars
<1> DEFINE Sure(w) == w \in {"verified"} \cup Transacting
<1>a. ASSUME \A f \in Guis : Sure(wpc'[f]) => Sure(wpc[f]), UNCHANGED diskVars
      PROVE  Untouched'
    BY <1>a
<1>p. ASSUME NEW g \in Guis, gpc[g] \in Preparing
      PROVE  ~Sure(wpc[g])
    BY <1>p DEF Locked
<1>b. ASSUME NEW g \in Guis, NEW from \in Preparing, Drop(g, from),
             UNCHANGED target, wpc' \in {wpc, [wpc EXCEPT ![g] = "none"]}
      PROVE  Untouched'
    <2>1. ~Sure(wpc[g])
        BY <1>b, <1>p DEF Drop, Back, Goto
    <2>2. \A f \in Guis \ {g} : wpc'[f] = wpc[f] /\ candidate'[f] = candidate[f]
        BY <1>b DEF Drop
    <2>3. ~Sure(wpc'[g])
        BY <1>b, <2>1
    <2> QED
        BY <1>b, <2>2, <2>3
<1>c. ASSUME NEW h \in Guis, NEW job, Launch(h, job),
             \A f \in Guis : Sure(wpc'[f]) => Sure(wpc[f])
      PROVE  Untouched'
    <2>1. wpc[h] = "none"
        BY <1>c DEF Launch, Startable, WorkerAlive
    <2>2. \A f \in Guis \ {h} : candidate'[f] = candidate[f]
        BY <1>c DEF Launch
    <2>3. ~Sure(wpc'[h]) /\ UNCHANGED target
        BY <1>c, <2>1 DEF Launch
    <2> QED
        BY <1>c, <2>2, <2>3
<1>1. ASSUME NEW g \in Guis, Copy(g)
      PROVE  Untouched'
    <2>1. CASE PrepareFails(g, "locked") /\ UNCHANGED <<wpc, target>>
        BY <2>1, <1>b
    <2>2. ASSUME Proceed(g, "locked", "copied"), UNCHANGED <<wpc, target>>,
                 NEW bundle, candidate' = [candidate EXCEPT ![g] = bundle]
          PROVE  Untouched'
        <3>1. ~Sure(wpc[g])
            BY <2>2, <1>p DEF Proceed, Goto
        <3>2. \A f \in Guis \ {g} : candidate'[f] = candidate[f]
            BY <2>2
        <3> QED
            BY <2>2, <3>1, <3>2
    <2> QED
        BY <1>1, <2>1, <2>2 DEF Copy
<1>2. ASSUME NEW g \in Guis, VerifyCopy(g)
      PROVE  Untouched'
    <2>1. CASE PrepareFails(g, "copied") /\ UNCHANGED <<wpc, target>>
        BY <2>1, <1>b
    <2>2. CASE UNCHANGED <<wpc, diskVars>>
        BY <2>2, <1>a
    <2> QED
        BY <1>2, <2>1, <2>2 DEF VerifyCopy, Proceed
<1>3. ASSUME NEW g \in Guis, Spawn(g)
      PROVE  Untouched'
    <2>1. CASE Drop(g, "staged") /\ UNCHANGED <<wpc, target>>
        BY <2>1, <1>b
    <2>2. CASE wpc' = [wpc EXCEPT ![g] = "new"] /\ UNCHANGED diskVars
        BY <2>2, <1>a
    <2> QED
        BY <1>3, <2>1, <2>2 DEF Spawn
<1>4. ASSUME NEW g \in Guis, HandOver(g)
      PROVE  Untouched'
    <2>1. CASE Drop(g, "spawned") /\ WorkerGone(g) /\ UNCHANGED target
        BY <2>1, <1>b
    <2>2. CASE UNCHANGED <<wpc, diskVars>>
        BY <2>2, <1>a
    <2> QED
        BY <1>4, <2>1, <2>2 DEF HandOver
<1>5. ASSUME NEW g \in Guis, WorkerNotReady(g)
      PROVE  Untouched'
    BY <1>5, <1>b DEF WorkerNotReady, Proceed
<1>6. ASSUME NEW g \in Guis, StartGui(g)
      PROVE  Untouched'
    BY <1>6, <1>a, <1>c DEF StartGui
<1>7. ASSUME NEW g \in Guis, RestoreGui(g)
      PROVE  Untouched'
    BY <1>7, <1>a, <1>c DEF RestoreGui
<1>8. ASSUME NEW g \in Guis, GiveUp(g)
      PROVE  Untouched'
    BY <1>8, <1>a, <1>c DEF GiveUp
<1>9. ASSUME NEW g \in Guis, WriteOutcome(g)
      PROVE  Untouched'
    <2>1. wpc' \in {[wpc EXCEPT ![g] = "tidy"], [wpc EXCEPT ![g] = "none"]}
        BY <1>9 DEF WriteOutcome
    <2> QED
        BY <1>9, <1>a, <2>1 DEF WriteOutcome
<1>10. ASSUME NEW g \in Guis,
              \/ Check(g) \/ BeginDownload(g) \/ CurlEnds(g)
              \/ HashDownload(g) \/ RenameDownload(g) \/ RequestInstall(g),
              InstallIdle
       PROVE  Untouched'
    BY <1>10 DEF Check, BeginDownload, CurlEnds, HashDownload,
           RenameDownload, RequestInstall
<1>11. ASSUME NEW g \in Guis,
              \/ TakeLock(g) \/ CheckActive(g) \/ Exit(g) \/ WorkerStarts(g)
              \/ OldGuiEnded(g)
       PROVE  Untouched'
    BY <1>11 DEF TakeLock, CheckActive, Exit, WorkerStarts, OldGuiEnded
<1>12. ASSUME NEW g \in Guis,
              \/ WorkerLock(g) \/ WorkerCheckActive(g) \/ WorkerVerify(g)
              \/ StopDaemon(g) \/ Swap(g)
       PROVE  Untouched'
    BY <1>12 DEF WorkerLock, WorkerCheckActive, WorkerVerify, StopDaemon,
           Swap
<1>13. ASSUME NEW g \in Guis,
              \/ StartDaemon(g) \/ AwaitHealth(g) \/ Undo(g) \/ SwapBack(g)
              \/ RestoreDaemon(g)
       PROVE  Untouched'
    BY <1>13 DEF StartDaemon, AwaitHealth, Undo, SwapBack, RestoreDaemon
<1>14. ASSUME NEW g \in Guis,
              \/ RemoveWorkspace(g) \/ Ready(g) \/ StartupExits(g)
              \/ GuiCrash(g) \/ WorkerCrash(g)
       PROVE  Untouched'
    BY <1>14 DEF RemoveWorkspace, Ready, StartupExits, GuiCrash, WorkerCrash
<1>15. ASSUME NEW g \in Guis, AskChanges(g)
       PROVE  Untouched'
    BY <1>15 DEF AskChanges
<1>16. CASE Publish /\ InstallIdle
    BY <1>16 DEF Publish
<1>17. CASE UserStarts
    BY <1>17, <1>c DEF UserStarts
<1> QED
    BY <1>1, <1>2, <1>3, <1>4, <1>5, <1>6, <1>7, <1>8, <1>9, <1>10, <1>11,
       <1>12, <1>13, <1>14, <1>15, <1>16, <1>17
    DEF Next, Fetch, Prepare, Worker

\* A download begins without a whole file and ends without a temporary one.
LEMMA NoneUnderWayStep ==
    ASSUME NoneUnderWay, FileTypes, GuiTypes, Next
    PROVE  NoneUnderWay'
<1> USE FetchAssumption
    DEF NoneUnderWay, FileTypes, NoFile, WorkerFrame, InstallIdle, fetchVars
<1>a. \A g \in Guis : attempt[g].version \in Versions
    BY DEF GuiTypes
<1>1. ASSUME NEW g \in Guis,
             \/ Check(g) \/ BeginDownload(g) \/ CurlEnds(g) \/ HashDownload(g)
             \/ RenameDownload(g) \/ RequestInstall(g),
             InstallIdle
      PROVE  NoneUnderWay'
    BY <1>1 DEF Check, BeginDownload, CurlEnds, HashDownload,
           RenameDownload, RequestInstall
<1>2. ASSUME NEW g \in Guis,
             \/ TakeLock(g) \/ CheckActive(g) \/ Copy(g) \/ VerifyCopy(g)
             \/ Spawn(g)
      PROVE  NoneUnderWay'
    BY <1>2 DEF TakeLock, CheckActive, Copy, VerifyCopy, Spawn
<1>3. ASSUME NEW g \in Guis,
             \/ HandOver(g) \/ WorkerNotReady(g) \/ Exit(g) \/ WorkerStarts(g)
             \/ OldGuiEnded(g)
      PROVE  NoneUnderWay'
    BY <1>3 DEF HandOver, WorkerNotReady, Exit, WorkerStarts, OldGuiEnded
<1>4. ASSUME NEW g \in Guis,
             \/ WorkerLock(g) \/ WorkerCheckActive(g) \/ WorkerVerify(g)
             \/ StopDaemon(g) \/ Swap(g)
      PROVE  NoneUnderWay'
    BY <1>4 DEF WorkerLock, WorkerCheckActive, WorkerVerify, StopDaemon,
           Swap
<1>5. ASSUME NEW g \in Guis,
             \/ StartDaemon(g) \/ StartGui(g) \/ AwaitHealth(g) \/ Undo(g)
             \/ SwapBack(g)
      PROVE  NoneUnderWay'
    BY <1>5 DEF StartDaemon, StartGui, AwaitHealth, Undo, SwapBack
<1>6. ASSUME NEW g \in Guis,
             \/ RestoreDaemon(g) \/ RestoreGui(g) \/ GiveUp(g)
             \/ WriteOutcome(g) \/ RemoveWorkspace(g)
      PROVE  NoneUnderWay'
    BY <1>6 DEF RestoreDaemon, RestoreGui, GiveUp, WriteOutcome,
           RemoveWorkspace
<1>7. ASSUME NEW g \in Guis,
             \/ Ready(g) \/ StartupExits(g) \/ GuiCrash(g) \/ WorkerCrash(g)
             \/ AskChanges(g)
      PROVE  NoneUnderWay'
    BY <1>7 DEF Ready, StartupExits, GuiCrash, WorkerCrash, AskChanges
<1>8. CASE Publish /\ InstallIdle
    BY <1>8 DEF Publish
<1>9. CASE UserStarts
    BY <1>9 DEF UserStarts
<1> QED
    BY <1>1, <1>2, <1>3, <1>4, <1>5, <1>6, <1>7, <1>8, <1>9
    DEF Next, Fetch, Prepare, Worker

-----------------------------------------------------------------------------
(* What holds until a mishap.                                              *)

Smooth == Types /\ Locked /\ Sequence /\ ~mishap /\ ~mishap'
Workers == Owned /\ Named /\ Alone

\* An attempt that is dropped has no worker, or takes it along.
LEMMA DropKeeps ==
    ASSUME Smooth, NEW g \in Guis, NEW from \in Preparing, Drop(g, from),
           UNCHANGED active,
           \/ from # "spawned" /\ UNCHANGED wpc
           \/ wpc' = [wpc EXCEPT ![g] = "none"]
    PROVE  Workers'
<1> USE DEF Smooth, Types, GuiTypes, WorkerTypes, Sequence, WorkerAlive
<1>1. /\ gpc[g] = from /\ gpc'[g] = "up"
      /\ \A f \in Guis \ {g} : gpc'[f] = gpc[f] /\ wpc'[f] = wpc[f]
    BY DEF Drop, Back, Goto
<1>2. wpc'[g] = "none"
    BY <1>1 DEF Owned, Preparing, Ended
<1>3. Owned'
    BY <1>1, <1>2 DEF Owned, Alive
<1>4. Named'
    BY <1>1, <1>2 DEF Named
<1>5. Alone'
    BY <1>1, <1>2 DEF Alone
<1> QED
    BY <1>3, <1>4, <1>5 DEF Workers

\* A process is launched under a number without a worker; nothing else happens,
\* or a worker whose own process has ended goes on.
LEMMA LaunchKeeps ==
    ASSUME Smooth, NEW h \in Guis, NEW job, Launch(h, job),
           \/ UNCHANGED wpc
           \/ \E g \in Guis, to \in WorkerStates \ {"none"} :
                 WorkerAlive(g) /\ ~Alive(g) /\ wpc' = [wpc EXCEPT ![g] = to]
    PROVE  Workers'
<1> USE DEF Smooth, Types, GuiTypes, WorkerTypes, Sequence, WorkerAlive
<1>1. /\ gpc'[h] = "starting" /\ wpc[h] = "none"
      /\ \A f \in Guis \ {h} : gpc'[f] = gpc[f]
      /\ active # h => active' = active
    BY DEF Launch, Startable
<1>2. \A f \in Guis : wpc'[f] = "none" <=> wpc[f] = "none"
    OBVIOUS
<1>3. \A f \in Guis : wpc'[f] # wpc[f] => ~Alive(f)
    OBVIOUS
<1>4. Owned'
    BY <1>1, <1>2, <1>3 DEF Owned, Alive, Ended
<1>5. Named'
    BY <1>1, <1>2 DEF Named
<1>6. Alone'
    BY <1>1, <1>2 DEF Alone
<1> QED
    BY <1>4, <1>5, <1>6 DEF Workers

\* Without a change of active.json, no process or worker is new to its place
\* unless its place asks for nothing.
LEMMA GoOnKeeps ==
    ASSUME Smooth, NEW g \in Guis, NEW from, NEW to,
           Goto(g, from, to), UNCHANGED <<wpc, active>>,
           <<from, to>> \in {<<"locked", "copied">>, <<"copied", "staged">>}
    PROVE  Workers'
BY DEF Smooth, Types, GuiTypes, WorkerTypes, Sequence, WorkerAlive, Goto, Workers,
       Owned, Named, Alone, Alive, Ended


\* A process that has no worker and does not hold the lock afterwards.
LEMMA FetchKeeps ==
    ASSUME Smooth, NEW g \in Guis, NEW from, NEW to, Goto(g, from, to),
           UNCHANGED <<wpc, active>>,
           from \in Fetching \cup {"up", "asked", "flocked"},
           to \in Fetching \cup {"up", "asked", "flocked"}
    PROVE  Workers'
<1> USE DEF Smooth, Types, GuiTypes, WorkerTypes, Sequence, WorkerAlive, Fetching
<1>1. gpc'[g] = to /\ \A f \in Guis \ {g} : gpc'[f] = gpc[f]
    BY DEF Goto
<1>2. wpc[g] = "none"
    BY DEF Goto, Owned, Ended
<1>3. Owned'
    BY <1>1, <1>2 DEF Owned, Alive
<1>4. Named' /\ Alone'
    BY <1>1, <1>2 DEF Named, Alone
<1> QED
    BY <1>3, <1>4 DEF Workers

\* A worker whose process has ended goes on, or comes to its end.
LEMMA WorkKeeps ==
    ASSUME Smooth, NEW g \in Guis, NEW to,
           WorkerAlive(g), ~Alive(g), wpc' = [wpc EXCEPT ![g] = to],
           UNCHANGED <<gpc, active>>
    PROVE  Workers'
BY DEF Smooth, Types, GuiTypes, WorkerTypes, Sequence, WorkerAlive, Workers,
       Owned, Named, Alone, Alive

\* Before the lock, a worker's process may still run; after it, not.
LEMMA WorksAfterEnd ==
    ASSUME Smooth, NEW g \in Guis, wpc[g] \notin {"none", "new", "waiting"}
    PROVE  WorkerAlive(g) /\ ~Alive(g)
BY DEF Smooth, Sequence, Owned, WorkerAlive


\* Lock::acquire: active.json names nobody who lives, and nobody lives.
LEMMA NotBusyIsAlone ==
    ASSUME Smooth, NEW g \in Guis, gpc[g] = "flocked", ~Busy(g)
    PROVE  \A f \in Guis : ~WorkerAlive(f)
<1> SUFFICES ASSUME NEW f \in Guis, WorkerAlive(f)
             PROVE  FALSE
    OBVIOUS
<1> USE DEF Smooth, Sequence
<1>1. f # g
    BY DEF Owned, Ended
<1>2. gpc[f] # "spawned"
    BY <1>1 DEF Locked, Preparing
<1>3. active = f
    BY <1>2 DEF Named
<1> QED
    BY <1>1, <1>3, FetchAssumption DEF Busy

\* Two workers would both be named, or one would be spawned beside the other.
LEMMA OneIsAlive ==
    ASSUME Workers, NEW f \in Guis, NEW g \in Guis, WorkerAlive(f), WorkerAlive(g)
    PROVE  f = g
BY SMTT(60) DEF Workers, Named, Alone

\* Workers keep their places.
LEMMA WorkersStep ==
    ASSUME Smooth, Next
    PROVE  Workers'
<1> USE DEF Smooth, Types, GuiTypes, WorkerTypes, Sequence, WorkerAlive, Workers,
        Owned, Named, Alone, Goto, Back, WorkerGoto,
        WorkerGone, WorkerFrame, NoLaunch, InstallIdle, PrepareFails, Postpone, Mishap,
        End, Alive, Ended, guiVars, lockVars
<1>1. ASSUME NEW g \in Guis, Check(g), InstallIdle
      PROVE  Workers'
    <2>1. Goto(g, "up", "checked")
        BY <1>1 DEF Check, Back
    <2>2. UNCHANGED <<wpc, active>>
        BY <1>1 DEF Check
    <2>3. {"checked", "up"} \subseteq Fetching \cup {"up", "asked", "flocked"}
        BY DEF Fetching
    <2> HIDE DEF Goto, Smooth, Workers
    <2> QED
        BY <2>1, <2>2, <2>3, FetchKeeps
<1>2. ASSUME NEW g \in Guis, BeginDownload(g), InstallIdle
      PROVE  Workers'
    <2>1. \/ Goto(g, "checked", "fetched")
          \/ Goto(g, "checked", "curl")
        BY <1>2 DEF BeginDownload, Back
    <2>2. UNCHANGED <<wpc, active>>
        BY <1>2 DEF BeginDownload
    <2>3. {"checked", "curl", "fetched"} \subseteq Fetching \cup {"up", "asked", "flocked"}
        BY DEF Fetching
    <2> HIDE DEF Goto, Smooth, Workers
    <2> QED
        BY <2>1, <2>2, <2>3, FetchKeeps
<1>3. ASSUME NEW g \in Guis, CurlEnds(g), InstallIdle
      PROVE  Workers'
    <2>1. \/ Goto(g, "curl", "downloaded")
          \/ Goto(g, "curl", "up")
        BY <1>3 DEF CurlEnds, Back
    <2>2. UNCHANGED <<wpc, active>>
        BY <1>3 DEF CurlEnds
    <2>3. {"curl", "downloaded", "up"} \subseteq Fetching \cup {"up", "asked", "flocked"}
        BY DEF Fetching
    <2> HIDE DEF Goto, Smooth, Workers
    <2> QED
        BY <2>1, <2>2, <2>3, FetchKeeps
<1>4. ASSUME NEW g \in Guis, HashDownload(g), InstallIdle
      PROVE  Workers'
    <2>1. \/ Goto(g, "downloaded", "hashed")
          \/ Goto(g, "downloaded", "up")
        BY <1>4 DEF HashDownload, Back
    <2>2. UNCHANGED <<wpc, active>>
        BY <1>4 DEF HashDownload
    <2>3. {"downloaded", "hashed", "up"} \subseteq Fetching \cup {"up", "asked", "flocked"}
        BY DEF Fetching
    <2> HIDE DEF Goto, Smooth, Workers
    <2> QED
        BY <2>1, <2>2, <2>3, FetchKeeps
<1>5. ASSUME NEW g \in Guis, RenameDownload(g), InstallIdle
      PROVE  Workers'
    <2>1. \/ Goto(g, "hashed", "fetched")
          \/ Goto(g, "hashed", "up")
        BY <1>5 DEF RenameDownload, Back
    <2>2. UNCHANGED <<wpc, active>>
        BY <1>5 DEF RenameDownload
    <2>3. {"fetched", "hashed", "up"} \subseteq Fetching \cup {"up", "asked", "flocked"}
        BY DEF Fetching
    <2> HIDE DEF Goto, Smooth, Workers
    <2> QED
        BY <2>1, <2>2, <2>3, FetchKeeps
<1>6. ASSUME NEW g \in Guis, RequestInstall(g), InstallIdle
      PROVE  Workers'
    <2>1. \/ Goto(g, "fetched", "asked")
          \/ Goto(g, "fetched", "up")
        BY <1>6 DEF RequestInstall, Back
    <2>2. UNCHANGED <<wpc, active>>
        BY <1>6 DEF RequestInstall
    <2>3. {"asked", "fetched", "up"} \subseteq Fetching \cup {"up", "asked", "flocked"}
        BY DEF Fetching
    <2> HIDE DEF Goto, Smooth, Workers
    <2> QED
        BY <2>1, <2>2, <2>3, FetchKeeps
<1>7. ASSUME NEW g \in Guis, TakeLock(g)
      PROVE  Workers'
    <2>1. \/ Goto(g, "asked", "flocked")
          \/ Goto(g, "asked", "up")
        BY <1>7 DEF TakeLock, Back
    <2>2. UNCHANGED <<wpc, active>>
        BY <1>7 DEF TakeLock
    <2>3. {"asked", "flocked", "up"} \subseteq Fetching \cup {"up", "asked", "flocked"}
        BY DEF Fetching
    <2> HIDE DEF Goto, Smooth, Workers
    <2> QED
        BY <2>1, <2>2, <2>3, FetchKeeps
<1>8. ASSUME NEW g \in Guis, CheckActive(g)
      PROVE  Workers'
    <2>1. CASE Back(g, "flocked") /\ UNCHANGED <<wpc, active>>
        BY <2>1, FetchKeeps DEF Back
    <2>2. CASE ~Busy(g) /\ Goto(g, "flocked", "locked") /\ UNCHANGED <<wpc, active>>
        <3>1. \A f \in Guis : ~WorkerAlive(f)
            BY <2>2, NotBusyIsAlone DEF Goto
        <3> QED
            BY <2>2, <3>1 DEF Goto, Workers, Owned, Named, Alone, WorkerAlive
    <2> QED
        BY <1>8, <2>1, <2>2 DEF CheckActive, fetchVars
<1>9. ASSUME NEW g \in Guis, Copy(g)
      PROVE  Workers'
    <2>1. CASE PrepareFails(g, "locked") /\ UNCHANGED <<wpc, active>>
        BY <2>1, DropKeeps DEF Preparing
    <2>2. CASE Goto(g, "locked", "copied") /\ UNCHANGED <<wpc, active>>
        BY <2>2, GoOnKeeps
    <2> QED
        BY <1>9, <2>1, <2>2 DEF Copy, Proceed
<1>10. ASSUME NEW g \in Guis, VerifyCopy(g)
       PROVE  Workers'
    <2>1. CASE PrepareFails(g, "copied") /\ UNCHANGED <<wpc, active>>
        BY <2>1, DropKeeps DEF Preparing
    <2>2. CASE Goto(g, "copied", "staged") /\ UNCHANGED <<wpc, active>>
        BY <2>2, GoOnKeeps
    <2> QED
        BY <1>10, <2>1, <2>2 DEF VerifyCopy, Proceed
<1>11. ASSUME NEW g \in Guis, Spawn(g)
       PROVE  Workers'
    <2>1. CASE Drop(g, "staged") /\ UNCHANGED <<wpc, active>>
        BY <2>1, DropKeeps DEF Preparing
    <2>2. ASSUME Goto(g, "staged", "spawned"), wpc' = [wpc EXCEPT ![g] = "new"],
                 UNCHANGED active
          PROVE  Workers'
        <3>1. \A f \in Guis : wpc[f] = "none"
            BY <2>2 DEF Goto, Alone, WorkerAlive
        <3>2. wpc'[g] = "new" /\ \A f \in Guis \ {g} : wpc'[f] = "none"
            BY <2>2, <3>1
        <3>3. gpc'[g] = "spawned" /\ \A f \in Guis \ {g} : gpc'[f] = gpc[f]
            BY <2>2 DEF Goto
        <3>4. \A f \in Guis \ {g} : gpc[f] \notin {"locked", "copied", "staged", "spawned"}
            BY <2>2 DEF Goto, Locked, Preparing
        <3> QED
            BY <3>2, <3>3, <3>4 DEF Owned, Named, Alone, Ended, Workers, WorkerAlive
    <2> QED
        BY <1>11, <2>1, <2>2 DEF Spawn
<1>12. ASSUME NEW g \in Guis, HandOver(g)
       PROVE  Workers'
    <2>1. CASE Drop(g, "spawned") /\ WorkerGone(g) /\ UNCHANGED active
        BY <2>1, DropKeeps DEF Preparing, WorkerGone
    <2>2. ASSUME Goto(g, "spawned", "leaving"), active' = g, UNCHANGED wpc
          PROVE  Workers'
        BY <2>2 DEF Goto, Owned, Named, Alone, Alive, Ended, Workers
    <2> QED
        BY <1>12, <2>1, <2>2 DEF HandOver
<1>13. ASSUME NEW g \in Guis, WorkerNotReady(g)
       PROVE  Workers'
    BY <1>13, DropKeeps DEF WorkerNotReady, Preparing, WorkerGone
<1>14. ASSUME NEW g \in Guis, Exit(g)
       PROVE  Workers'
    BY <1>14 DEF Exit
<1>15. ASSUME NEW g \in Guis, WorkerStarts(g)
       PROVE  Workers'
    BY <1>15 DEF WorkerStarts
<1>16. ASSUME NEW g \in Guis, OldGuiEnded(g)
       PROVE  Workers'
    BY <1>16 DEF OldGuiEnded
<1>17. ASSUME NEW g \in Guis, WorkerLock(g)
       PROVE  Workers'
    <2>1. WorkerAlive(g) /\ ~Alive(g)
        BY <1>17, WorksAfterEnd DEF WorkerLock, WorkerGoto
    <2>2. \/ wpc' = [wpc EXCEPT ![g] = "locked"]
          \/ wpc' = [wpc EXCEPT ![g] = "giveup"]
        BY <1>17 DEF WorkerLock, WorkerGoto
    <2>3. UNCHANGED <<gpc, active>>
        BY <1>17 DEF WorkerLock
    <2> HIDE DEF WorkerAlive, Alive, Smooth, Workers
    <2> QED
        BY <2>1, <2>2, <2>3, WorkKeeps
<1>18. ASSUME NEW g \in Guis, WorkerCheckActive(g)
       PROVE  Workers'
    <2>1. WorkerAlive(g) /\ ~Alive(g)
        BY <1>18, WorksAfterEnd DEF WorkerCheckActive, WorkerGoto
    <2>2. \/ wpc' = [wpc EXCEPT ![g] = "held"]
          \/ wpc' = [wpc EXCEPT ![g] = "giveup"]
        BY <1>18 DEF WorkerCheckActive, WorkerGoto
    <2>3. UNCHANGED <<gpc, active>>
        BY <1>18 DEF WorkerCheckActive
    <2> HIDE DEF WorkerAlive, Alive, Smooth, Workers
    <2> QED
        BY <2>1, <2>2, <2>3, WorkKeeps
<1>19. ASSUME NEW g \in Guis, WorkerVerify(g)
       PROVE  Workers'
    <2>1. WorkerAlive(g) /\ ~Alive(g)
        BY <1>19, WorksAfterEnd DEF WorkerVerify, WorkerGoto
    <2>2. \/ wpc' = [wpc EXCEPT ![g] = "verified"]
          \/ wpc' = [wpc EXCEPT ![g] = "giveup"]
        BY <1>19 DEF WorkerVerify, WorkerGoto
    <2>3. UNCHANGED <<gpc, active>>
        BY <1>19 DEF WorkerVerify
    <2> HIDE DEF WorkerAlive, Alive, Smooth, Workers
    <2> QED
        BY <2>1, <2>2, <2>3, WorkKeeps
<1>20. ASSUME NEW g \in Guis, StopDaemon(g)
       PROVE  Workers'
    <2>1. WorkerAlive(g) /\ ~Alive(g)
        BY <1>20, WorksAfterEnd DEF StopDaemon, WorkerGoto
    <2>2. \/ wpc' = [wpc EXCEPT ![g] = "swapping"]
          \/ wpc' = [wpc EXCEPT ![g] = "giveup"]
        BY <1>20 DEF StopDaemon, WorkerGoto
    <2>3. UNCHANGED <<gpc, active>>
        BY <1>20 DEF StopDaemon
    <2> HIDE DEF WorkerAlive, Alive, Smooth, Workers
    <2> QED
        BY <2>1, <2>2, <2>3, WorkKeeps
<1>21. ASSUME NEW g \in Guis, Swap(g)
       PROVE  Workers'
    <2>1. WorkerAlive(g) /\ ~Alive(g)
        BY <1>21, WorksAfterEnd DEF Swap, WorkerGoto
    <2>2. \/ wpc' = [wpc EXCEPT ![g] = "swapped"]
          \/ wpc' = [wpc EXCEPT ![g] = "restoring"]
        BY <1>21 DEF Swap, WorkerGoto
    <2>3. UNCHANGED <<gpc, active>>
        BY <1>21 DEF Swap
    <2> HIDE DEF WorkerAlive, Alive, Smooth, Workers
    <2> QED
        BY <2>1, <2>2, <2>3, WorkKeeps
<1>22. ASSUME NEW g \in Guis, StartDaemon(g)
       PROVE  Workers'
    <2>1. WorkerAlive(g) /\ ~Alive(g)
        BY <1>22, WorksAfterEnd DEF StartDaemon, WorkerGoto
    <2>2. \/ wpc' = [wpc EXCEPT ![g] = "launching"]
          \/ wpc' = [wpc EXCEPT ![g] = "undo"]
        BY <1>22 DEF StartDaemon, WorkerGoto
    <2>3. UNCHANGED <<gpc, active>>
        BY <1>22 DEF StartDaemon
    <2> HIDE DEF WorkerAlive, Alive, Smooth, Workers
    <2> QED
        BY <2>1, <2>2, <2>3, WorkKeeps
<1>23. ASSUME NEW g \in Guis, StartGui(g)
       PROVE  Workers'
    <2>0. WorkerAlive(g) /\ ~Alive(g)
        BY <1>23, WorksAfterEnd DEF StartGui, WorkerGoto
    <2>1. CASE (\E h \in Guis : Launch(h, g)) /\ WorkerGoto(g, "launching", "awaiting")
        <3>1. wpc' = [wpc EXCEPT ![g] = "awaiting"]
            BY <2>1 DEF WorkerGoto
        <3>2. "awaiting" \in WorkerStates \ {"none"}
            BY States
        <3>3. PICK h \in Guis : Launch(h, g)
            BY <2>1
        <3> HIDE DEF WorkerAlive, Alive, Smooth, Workers
        <3> QED
            BY <2>0, <3>1, <3>2, <3>3, LaunchKeeps
    <2>2. CASE NoLaunch /\ WorkerGoto(g, "launching", "undo")
        BY <2>2, WorkKeeps, WorksAfterEnd DEF WorkerGoto, NoLaunch, guiVars
    <2> QED
        BY <1>23, <2>1, <2>2 DEF StartGui
<1>24. ASSUME NEW g \in Guis, AwaitHealth(g)
       PROVE  Workers'
    <2>1. WorkerAlive(g) /\ ~Alive(g)
        BY <1>24, WorksAfterEnd DEF AwaitHealth, WorkerGoto
    <2>2. \/ wpc' = [wpc EXCEPT ![g] = "accepted"]
          \/ wpc' = [wpc EXCEPT ![g] = "undo"]
        BY <1>24 DEF AwaitHealth, WorkerGoto
    <2>3. UNCHANGED <<gpc, active>>
        BY <1>24 DEF AwaitHealth
    <2> HIDE DEF WorkerAlive, Alive, Smooth, Workers
    <2> QED
        BY <2>1, <2>2, <2>3, WorkKeeps
<1>25. ASSUME NEW g \in Guis, Undo(g)
       PROVE  Workers'
    BY <1>25 DEF Undo
<1>26. ASSUME NEW g \in Guis, SwapBack(g)
       PROVE  Workers'
    <2>1. WorkerAlive(g) /\ ~Alive(g)
        BY <1>26, WorksAfterEnd DEF SwapBack, WorkerGoto
    <2>2. \/ wpc' = [wpc EXCEPT ![g] = "restoring"]
          \/ wpc' = [wpc EXCEPT ![g] = "failed"]
        BY <1>26 DEF SwapBack, WorkerGoto
    <2>3. UNCHANGED <<gpc, active>>
        BY <1>26 DEF SwapBack
    <2> HIDE DEF WorkerAlive, Alive, Smooth, Workers
    <2> QED
        BY <2>1, <2>2, <2>3, WorkKeeps
<1>27. ASSUME NEW g \in Guis, RestoreDaemon(g)
       PROVE  Workers'
    <2>1. WorkerAlive(g) /\ ~Alive(g)
        BY <1>27, WorksAfterEnd DEF RestoreDaemon, WorkerGoto
    <2>2. wpc' = [wpc EXCEPT ![g] = "reopening"]
        BY <1>27 DEF RestoreDaemon, WorkerGoto
    <2>3. UNCHANGED <<gpc, active>>
        BY <1>27 DEF RestoreDaemon
    <2> HIDE DEF WorkerAlive, Alive, Smooth, Workers
    <2> QED
        BY <2>1, <2>2, <2>3, WorkKeeps
<1>28. ASSUME NEW g \in Guis, RestoreGui(g)
       PROVE  Workers'
    <2>0. WorkerAlive(g) /\ ~Alive(g)
        BY <1>28, WorksAfterEnd DEF RestoreGui, WorkerGoto
    <2>1. CASE (\E h \in Guis : Launch(h, NoGui)) /\ WorkerGoto(g, "reopening", "failed")
        <3>1. wpc' = [wpc EXCEPT ![g] = "failed"]
            BY <2>1 DEF WorkerGoto
        <3>2. "failed" \in WorkerStates \ {"none"}
            BY States
        <3>3. PICK h \in Guis : Launch(h, NoGui)
            BY <2>1
        <3> HIDE DEF WorkerAlive, Alive, Smooth, Workers
        <3> QED
            BY <2>0, <3>1, <3>2, <3>3, LaunchKeeps
    <2>2. CASE NoLaunch /\ WorkerGoto(g, "reopening", "failed")
        BY <2>2, WorkKeeps, WorksAfterEnd DEF WorkerGoto, NoLaunch, guiVars
    <2> QED
        BY <1>28, <2>1, <2>2 DEF RestoreGui
<1>29. ASSUME NEW g \in Guis, GiveUp(g)
       PROVE  Workers'
    <2>1. WorkerGoto(g, "giveup", "failed") /\ ~Alive(g)
        BY <1>29, WorksAfterEnd DEF GiveUp, WorkerGoto
    <2>2. CASE \E h \in Guis : Launch(h, NoGui)
        BY <2>1, <2>2, LaunchKeeps, WorksAfterEnd, States DEF WorkerGoto
    <2>3. CASE NoLaunch
        BY <2>1, <2>3, WorkKeeps, WorksAfterEnd DEF WorkerGoto, NoLaunch, guiVars
    <2> QED
        BY <1>29, <2>2, <2>3 DEF GiveUp
<1>30. ASSUME NEW g \in Guis, WriteOutcome(g)
       PROVE  Workers'
    <2>1. WorkerAlive(g) /\ ~Alive(g)
        BY <1>30, WorksAfterEnd DEF WriteOutcome, WorkerGoto
    <2>2. \/ wpc' = [wpc EXCEPT ![g] = "tidy"]
          \/ wpc' = [wpc EXCEPT ![g] = "none"]
        BY <1>30 DEF WriteOutcome, WorkerGoto, WorkerGone
    <2>3. UNCHANGED <<gpc, active>>
        BY <1>30 DEF WriteOutcome
    <2> HIDE DEF WorkerAlive, Alive, Smooth, Workers
    <2> QED
        BY <2>1, <2>2, <2>3, WorkKeeps
<1>31. ASSUME NEW g \in Guis, RemoveWorkspace(g)
       PROVE  Workers'
    BY <1>31 DEF RemoveWorkspace
<1>32. ASSUME NEW g \in Guis, Ready(g)
       PROVE  Workers'
    BY <1>32 DEF Ready
<1>33. ASSUME NEW g \in Guis, StartupExits(g)
       PROVE  Workers'
    BY <1>33 DEF StartupExits
<1>34. ASSUME NEW g \in Guis, GuiCrash(g)
       PROVE  Workers'
    BY <1>34 DEF GuiCrash
<1>35. ASSUME NEW g \in Guis, WorkerCrash(g)
       PROVE  Workers'
    BY <1>35 DEF WorkerCrash
<1>36. ASSUME NEW g \in Guis, AskChanges(g)
       PROVE  Workers'
    BY <1>36 DEF AskChanges
<1>37. CASE Publish /\ InstallIdle
    BY <1>37 DEF Publish
<1>38. CASE UserStarts
    BY <1>38, LaunchKeeps DEF UserStarts
<1> QED
    BY <1>1, <1>2, <1>3, <1>4, <1>5, <1>6, <1>7, <1>8, <1>9, <1>10, <1>11,
       <1>12, <1>13, <1>14, <1>15, <1>16, <1>17, <1>18, <1>19, <1>20, <1>21,
       <1>22, <1>23, <1>24, <1>25, <1>26, <1>27, <1>28, <1>29, <1>30, <1>31,
       <1>32, <1>33, <1>34, <1>35, <1>36, <1>37, <1>38
    DEF Next, Fetch, Prepare, Worker

\* An undone version is told of.
LEMMA ToldStep ==
    ASSUME Smooth, Next
    PROVE  Told'
<1> USE FetchAssumption
    DEF Smooth, Types, GuiTypes, WorkerTypes, OutcomeTypes, Sequence, Told,
        WorkerFrame, InstallIdle, PrepareFails, Postpone, Mishap, guiVars, failVars
<1>a. ASSUME UNCHANGED <<rolledBack, outcome>>,
             \A f \in Guis : wpc[f] \in AfterUndo =>
                 wpc'[f] \in AfterUndo /\ attempt'[f] = attempt[f]
      PROVE  Told'
    BY <1>a DEF LastFailure, Version
<1>b. rolledBack' = 0 => Told'
    OBVIOUS
<1>c. ASSUME NEW g \in Guis, Record(g, TRUE)
      PROVE  Told'
    BY <1>c DEF Record, LastFailure
<1>d. \A f \in Guis : wpc[f] \in AfterUndo => WorkerAlive(f) /\ gpc[f] \in Ended
    BY WorksAfterEnd DEF AfterUndo, Alive
<1>e. ASSUME NEW g \in Guis, gpc[g] \notin Ended,
             UNCHANGED <<rolledBack, outcome>>,
             \A f \in Guis \ {g} : attempt'[f] = attempt[f] /\ wpc'[f] = wpc[f]
      PROVE  Told'
    BY <1>a, <1>d, <1>e
<1>f. ASSUME NEW h \in Guis, NEW job, Launch(h, job),
             UNCHANGED <<rolledBack, outcome>>,
             \A f \in Guis : wpc[f] \in AfterUndo => wpc'[f] \in AfterUndo
      PROVE  Told'
    <2>1. wpc[h] = "none" /\ \A f \in Guis \ {h} : attempt'[f] = attempt[f]
        BY <1>f DEF Launch, Startable, WorkerAlive
    <2> QED
        BY <1>a, <1>f, <2>1 DEF AfterUndo
<1>1. ASSUME NEW g \in Guis, Check(g), InstallIdle
      PROVE  Told'
    BY <1>1, <1>e DEF Check, Goto, Back, Ended, failVars
<1>2. ASSUME NEW g \in Guis, BeginDownload(g), InstallIdle
      PROVE  Told'
    BY <1>2, <1>e DEF BeginDownload, Goto, Back, Ended, failVars
<1>3. ASSUME NEW g \in Guis, CurlEnds(g), InstallIdle
      PROVE  Told'
    BY <1>3, <1>e DEF CurlEnds, Goto, Back, Ended, failVars
<1>4. ASSUME NEW g \in Guis, HashDownload(g), InstallIdle
      PROVE  Told'
    BY <1>4, <1>e DEF HashDownload, Goto, Back, Ended, failVars
<1>5. ASSUME NEW g \in Guis, RenameDownload(g), InstallIdle
      PROVE  Told'
    BY <1>5, <1>e DEF RenameDownload, Goto, Back, Ended, failVars
<1>6. ASSUME NEW g \in Guis, RequestInstall(g), InstallIdle
      PROVE  Told'
    BY <1>6, <1>e DEF RequestInstall, Goto, Back, Ended, failVars
<1>7. ASSUME NEW g \in Guis, TakeLock(g)
      PROVE  Told'
    BY <1>7, <1>e DEF TakeLock, Goto, Back, Ended, failVars
<1>8. ASSUME NEW g \in Guis, CheckActive(g)
      PROVE  Told'
    BY <1>8, <1>e DEF CheckActive, Goto, Back, Ended, failVars
<1>9. ASSUME NEW g \in Guis, Copy(g)
      PROVE  Told'
    BY <1>9, <1>a, <1>c DEF Copy, Proceed
<1>10. ASSUME NEW g \in Guis, VerifyCopy(g)
       PROVE  Told'
    BY <1>10, <1>a, <1>c DEF VerifyCopy, Proceed
<1>11. ASSUME NEW g \in Guis, Spawn(g)
       PROVE  Told'
    <2>1. CASE PrepareFails(g, "staged")
        BY <2>1, <1>c
    <2>2. CASE Postpone(g, "staged") /\ UNCHANGED <<outcome, wpc>>
        BY <2>2, <1>e DEF Drop, Goto, Back, Ended
    <2>3. CASE /\ Goto(g, "staged", "spawned") /\ wpc' = [wpc EXCEPT ![g] = "new"]
               /\ rolledBack' \in {rolledBack, 0} /\ UNCHANGED <<attempt, outcome>>
        BY <2>3, <1>b, <1>e DEF Goto, Ended
    <2> QED
        BY <1>11, <2>1, <2>2, <2>3 DEF Spawn
<1>12. ASSUME NEW g \in Guis, HandOver(g)
       PROVE  Told'
    <2>1. CASE PrepareFails(g, "spawned")
        BY <2>1, <1>c
    <2>2. CASE Postpone(g, "spawned") /\ WorkerGone(g)
        BY <2>2, <1>e DEF Drop, Goto, Back, Ended, WorkerGone
    <2>3. CASE UNCHANGED <<attempt, wpc, failVars>>
        BY <2>3, <1>a
    <2> QED
        BY <1>12, <2>1, <2>2, <2>3 DEF HandOver
<1>13. ASSUME NEW g \in Guis, WorkerNotReady(g)
       PROVE  Told'
    BY <1>13, <1>c DEF WorkerNotReady
<1>14. ASSUME NEW g \in Guis, Exit(g)
       PROVE  Told'
    BY <1>14, <1>a DEF Exit
<1>15. ASSUME NEW g \in Guis, WorkerStarts(g)
       PROVE  Told'
    BY <1>15, <1>a DEF WorkerStarts, WorkerGoto, WorkerGone, AfterUndo
<1>16. ASSUME NEW g \in Guis, OldGuiEnded(g)
       PROVE  Told'
    BY <1>16, <1>a DEF OldGuiEnded, WorkerGoto, AfterUndo
<1>17. ASSUME NEW g \in Guis, WorkerLock(g)
       PROVE  Told'
    BY <1>17, <1>a DEF WorkerLock, WorkerGoto, AfterUndo
<1>18. ASSUME NEW g \in Guis, WorkerCheckActive(g)
       PROVE  Told'
    BY <1>18, <1>a DEF WorkerCheckActive, WorkerGoto, AfterUndo
<1>19. ASSUME NEW g \in Guis, WorkerVerify(g)
       PROVE  Told'
    BY <1>19, <1>a DEF WorkerVerify, WorkerGoto, AfterUndo
<1>20. ASSUME NEW g \in Guis, StopDaemon(g)
       PROVE  Told'
    BY <1>20, <1>a DEF StopDaemon, WorkerGoto, AfterUndo
<1>21. ASSUME NEW g \in Guis, Swap(g)
       PROVE  Told'
    BY <1>21, <1>a DEF Swap, WorkerGoto, AfterUndo
<1>22. ASSUME NEW g \in Guis, StartDaemon(g)
       PROVE  Told'
    BY <1>22, <1>a DEF StartDaemon, WorkerGoto, AfterUndo
<1>23. ASSUME NEW g \in Guis, StartGui(g)
       PROVE  Told'
    <2>1. \A f \in Guis : wpc[f] \in AfterUndo => wpc'[f] \in AfterUndo
        BY <1>23 DEF StartGui, WorkerGoto, AfterUndo
    <2>2. CASE NoLaunch
        BY <1>23, <2>1, <2>2, <1>a DEF StartGui, NoLaunch, guiVars
    <2> QED
        BY <1>23, <2>1, <2>2, <1>f DEF StartGui
<1>24. ASSUME NEW g \in Guis, AwaitHealth(g)
       PROVE  Told'
    BY <1>24, <1>a DEF AwaitHealth, WorkerGoto, AfterUndo
<1>25. ASSUME NEW g \in Guis, Undo(g)
       PROVE  Told'
    <2>1. /\ wpc'[g] = "undoing" /\ rolledBack' = Version(g)
          /\ attempt'[g] = attempt[g]
        BY <1>25 DEF Undo, End, WorkerGoto, guiVars
    <2> QED
        BY <2>1 DEF AfterUndo, Version
<1>26. ASSUME NEW g \in Guis, SwapBack(g)
       PROVE  Told'
    BY <1>26, <1>a DEF SwapBack, WorkerGoto, AfterUndo
<1>27. ASSUME NEW g \in Guis, RestoreDaemon(g)
       PROVE  Told'
    BY <1>27, <1>a DEF RestoreDaemon, WorkerGoto, AfterUndo
<1>28. ASSUME NEW g \in Guis, RestoreGui(g)
       PROVE  Told'
    <2>1. \A f \in Guis : wpc[f] \in AfterUndo => wpc'[f] \in AfterUndo
        BY <1>28 DEF RestoreGui, WorkerGoto, AfterUndo
    <2>2. CASE NoLaunch
        BY <1>28, <2>1, <2>2, <1>a DEF RestoreGui, NoLaunch, guiVars
    <2> QED
        BY <1>28, <2>1, <2>2, <1>f DEF RestoreGui
<1>29. ASSUME NEW g \in Guis, GiveUp(g)
       PROVE  Told'
    <2>1. \A f \in Guis : wpc[f] \in AfterUndo => wpc'[f] \in AfterUndo
        BY <1>29 DEF GiveUp, WorkerGoto, AfterUndo
    <2>2. CASE NoLaunch
        BY <1>29, <2>1, <2>2, <1>a DEF GiveUp, NoLaunch, guiVars
    <2> QED
        BY <1>29, <2>1, <2>2, <1>f DEF GiveUp
<1>30. ASSUME NEW g \in Guis, WriteOutcome(g)
       PROVE  Told'
    <2>1. CASE Record(g, TRUE)
        BY <2>1, <1>c
    <2>2. CASE wpc[g] = "accepted" /\ Record(g, FALSE)
        BY <2>2, <1>b DEF Record, Spared, AfterUndo, WorkerAlive
    <2> QED
        BY <1>30, <2>1, <2>2 DEF WriteOutcome, WorkerGoto
<1>31. ASSUME NEW g \in Guis, RemoveWorkspace(g)
       PROVE  Told'
    BY <1>31, <1>a DEF RemoveWorkspace, WorkerGoto, WorkerGone, AfterUndo
<1>32. ASSUME NEW g \in Guis, Ready(g)
       PROVE  Told'
    BY <1>32, <1>a DEF Ready, End
<1>33. ASSUME NEW g \in Guis, StartupExits(g)
       PROVE  Told'
    BY <1>33, <1>a DEF StartupExits, End
<1>34. ASSUME NEW g \in Guis, GuiCrash(g)
       PROVE  Told'
    BY <1>34, <1>a DEF GuiCrash, End
<1>35. ASSUME NEW g \in Guis, WorkerCrash(g)
       PROVE  Told'
    BY <1>35, <1>b DEF WorkerCrash
<1>36. ASSUME NEW g \in Guis, AskChanges(g)
       PROVE  Told'
    BY <1>36, <1>a DEF AskChanges, End
<1>37. CASE Publish /\ InstallIdle
    BY <1>37, <1>a DEF Publish
<1>38. CASE UserStarts
    BY <1>38, <1>f, SMTT(60) DEF UserStarts
<1> QED
    BY <1>1, <1>2, <1>3, <1>4, <1>5, <1>6, <1>7, <1>8, <1>9, <1>10, <1>11,
       <1>12, <1>13, <1>14, <1>15, <1>16, <1>17, <1>18, <1>19, <1>20, <1>21,
       <1>22, <1>23, <1>24, <1>25, <1>26, <1>27, <1>28, <1>29, <1>30, <1>31,
       <1>32, <1>33, <1>34, <1>35, <1>36, <1>37, <1>38
    DEF Next, Fetch, Prepare, Worker

\* CheckActive has looked at the outcome, and nobody is left to change it.
LEMMA SparedStep ==
    ASSUME Smooth, Next
    PROVE  Spared'
<1> USE FetchAssumption
    DEF Smooth, Types, GuiTypes, WorkerTypes, OutcomeTypes, Sequence, Spared,
        WorkerFrame, InstallIdle, PrepareFails, Postpone, Mishap, guiVars, failVars
<1> DEFINE Busies(f) == gpc[f] \in {"locked", "copied", "staged"} /\ attempt[f].automatic
           Early(f) == WorkerAlive(f) /\ wpc[f] \notin AfterUndo
<1>a. ASSUME rolledBack' \in {rolledBack, 0},
             \A f \in Guis : Busies(f)' => Busies(f) /\ attempt'[f] = attempt[f],
             \A f \in Guis : Early(f)' => Early(f) /\ attempt'[f] = attempt[f]
      PROVE  Spared'
    <2>1. \A f \in Guis : Version(f) # 0
        BY DEF Version
    <2> QED
        BY <1>a, <2>1 DEF Version
<1>b. ASSUME NEW g \in Guis, NEW failed, Record(g, failed)
      PROVE  rolledBack' \in {rolledBack, 0}
    BY <1>b DEF Record
<1>c. ASSUME NEW g \in Guis, NEW from, Drop(g, from),
             rolledBack' \in {rolledBack, 0}, from \in Preparing,
             \/ from # "spawned" /\ UNCHANGED wpc
             \/ wpc' = [wpc EXCEPT ![g] = "none"]
      PROVE  Spared'
    <2>1. gpc'[g] = "up" /\ \A f \in Guis \ {g} :
              gpc'[f] = gpc[f] /\ attempt'[f] = attempt[f] /\ wpc'[f] = wpc[f]
        BY <1>c DEF Drop, Goto, Back
    <2>2. wpc'[g] = "none"
        BY <1>c DEF Drop, Goto, Back, Owned, Preparing, Ended, WorkerAlive
    <2> QED
        BY <1>a, <1>c, <2>1, <2>2 DEF WorkerAlive
<1>d. ASSUME NEW h \in Guis, NEW job, Launch(h, job), UNCHANGED rolledBack,
             \A f \in Guis : Early(f)' => Early(f)
      PROVE  Spared'
    <2>1. /\ wpc[h] = "none" /\ gpc'[h] = "starting"
          /\ \A f \in Guis \ {h} : gpc'[f] = gpc[f] /\ attempt'[f] = attempt[f]
        BY <1>d DEF Launch, Startable, WorkerAlive
    <2> QED
        BY <1>a, <1>d, <2>1 DEF WorkerAlive
<1>e. ASSUME NEW g \in Guis, UNCHANGED <<rolledBack, wpc>>, wpc[g] = "none",
             gpc'[g] \notin {"locked", "copied", "staged"},
             \A f \in Guis \ {g} : gpc'[f] = gpc[f] /\ attempt'[f] = attempt[f]
      PROVE  Spared'
    BY <1>a, <1>e DEF WorkerAlive
<1>1. ASSUME NEW g \in Guis, Check(g), InstallIdle
      PROVE  Spared'
    <2>1. wpc[g] = "none"
        BY <1>1 DEF Owned, Ended, WorkerAlive, Check, Goto, Back
    <2> QED
        BY <1>1, <1>e, <2>1 DEF Check, Goto, Back
<1>2. ASSUME NEW g \in Guis, BeginDownload(g), InstallIdle
      PROVE  Spared'
    <2>1. wpc[g] = "none"
        BY <1>2 DEF Owned, Ended, WorkerAlive, BeginDownload, Goto, Back
    <2> QED
        BY <1>2, <1>e, <2>1 DEF BeginDownload, Goto, Back
<1>3. ASSUME NEW g \in Guis, CurlEnds(g), InstallIdle
      PROVE  Spared'
    <2>1. wpc[g] = "none"
        BY <1>3 DEF Owned, Ended, WorkerAlive, CurlEnds, Goto, Back
    <2> QED
        BY <1>3, <1>e, <2>1, SMTT(60) DEF CurlEnds, Goto, Back
<1>4. ASSUME NEW g \in Guis, HashDownload(g), InstallIdle
      PROVE  Spared'
    <2>1. wpc[g] = "none"
        BY <1>4 DEF Owned, Ended, WorkerAlive, HashDownload, Goto, Back
    <2> QED
        BY <1>4, <1>e, <2>1 DEF HashDownload, Goto, Back
<1>5. ASSUME NEW g \in Guis, RenameDownload(g), InstallIdle
      PROVE  Spared'
    <2>1. wpc[g] = "none"
        BY <1>5 DEF Owned, Ended, WorkerAlive, RenameDownload, Goto, Back
    <2> QED
        BY <1>5, <1>e, <2>1 DEF RenameDownload, Goto, Back
<1>6. ASSUME NEW g \in Guis, RequestInstall(g), InstallIdle
      PROVE  Spared'
    <2>1. wpc[g] = "none"
        BY <1>6 DEF Owned, Ended, WorkerAlive, RequestInstall, Goto, Back
    <2> QED
        BY <1>6, <1>e, <2>1 DEF RequestInstall, Goto, Back
<1>7. ASSUME NEW g \in Guis, TakeLock(g)
      PROVE  Spared'
    <2>1. wpc[g] = "none"
        BY <1>7 DEF Owned, Ended, WorkerAlive, TakeLock, Goto, Back
    <2> QED
        BY <1>7, <1>e, <2>1 DEF TakeLock, Goto, Back
<1>8. ASSUME NEW g \in Guis, CheckActive(g)
      PROVE  Spared'
    <2>1. gpc[g] = "flocked" /\ wpc[g] = "none"
        BY <1>8 DEF Owned, Ended, WorkerAlive, CheckActive, Goto, Back
    <2>2. CASE Back(g, "flocked")
        BY <1>8, <1>e, <2>1, <2>2 DEF CheckActive, Goto, Back
    <2>3. CASE ~Busy(g) /\ Goto(g, "flocked", "locked") /\ UNCHANGED attempt
               /\ ~(attempt[g].automatic /\ LastFailure(Version(g)))
        <3>1. \A f \in Guis : ~WorkerAlive(f)
            BY <2>1, <2>3, NotBusyIsAlone
        <3>2. rolledBack # 0 => LastFailure(rolledBack)
            BY <3>1 DEF Told, WorkerAlive, AfterUndo
        <3>3. Version(g) # 0
            BY DEF Version
        <3>4. attempt[g].automatic => Version(g) # rolledBack
            BY <2>3, <3>2, <3>3
        <3>5. UNCHANGED <<rolledBack, wpc, attempt>>
            BY <1>8, <2>3 DEF CheckActive
        <3>6. \A f \in Guis \ {g} : gpc'[f] = gpc[f]
            BY <2>3 DEF Goto
        <3> QED
            BY <3>1, <3>4, <3>5, <3>6 DEF Version, WorkerAlive
    <2> QED
        BY <1>8, <2>2, <2>3 DEF CheckActive
<1>9. ASSUME NEW g \in Guis, Copy(g)
      PROVE  Spared'
    <2>1. CASE Drop(g, "locked") /\ Record(g, TRUE) /\ UNCHANGED wpc
        BY <2>1, <1>b, <1>c DEF Preparing
    <2>2. CASE Proceed(g, "locked", "copied") /\ UNCHANGED wpc
        BY <2>2, <1>a DEF Proceed, Goto, WorkerAlive
    <2> QED
        BY <1>9, <2>1, <2>2 DEF Copy
<1>10. ASSUME NEW g \in Guis, VerifyCopy(g)
       PROVE  Spared'
    <2>1. CASE Drop(g, "copied") /\ Record(g, TRUE) /\ UNCHANGED wpc
        BY <2>1, <1>b, <1>c DEF Preparing
    <2>2. CASE Proceed(g, "copied", "staged") /\ UNCHANGED wpc
        BY <2>2, <1>a DEF Proceed, Goto, WorkerAlive
    <2> QED
        BY <1>10, <2>1, <2>2 DEF VerifyCopy
<1>11. ASSUME NEW g \in Guis, Spawn(g)
       PROVE  Spared'
    <2>1. CASE Drop(g, "staged") /\ UNCHANGED wpc /\ rolledBack' \in {rolledBack, 0}
        BY <2>1, <1>c DEF Preparing
    <2>2. CASE /\ Goto(g, "staged", "spawned") /\ wpc' = [wpc EXCEPT ![g] = "new"]
               /\ rolledBack' = IF attempt[g].automatic THEN rolledBack ELSE 0
               /\ UNCHANGED attempt
        <3>1. \A f \in Guis : Version(f) # 0
            BY DEF Version
        <3>2. Version(g) # rolledBack'
            BY <2>2, <3>1 DEF Goto
        <3>3. /\ gpc'[g] = "spawned"
              /\ \A f \in Guis \ {g} : gpc'[f] = gpc[f] /\ wpc'[f] = wpc[f]
            BY <2>2 DEF Goto
        <3>4. rolledBack' \in {rolledBack, 0}
            BY <2>2
        <3> QED
            BY <2>2, <3>1, <3>2, <3>3, <3>4 DEF Version, WorkerAlive
    <2> QED
        BY <1>11, <2>1, <2>2, <1>b DEF Spawn
<1>12. ASSUME NEW g \in Guis, HandOver(g)
       PROVE  Spared'
    <2>1. CASE Drop(g, "spawned") /\ WorkerGone(g) /\ rolledBack' \in {rolledBack, 0}
        BY <2>1, <1>c DEF Preparing, WorkerGone
    <2>2. CASE Goto(g, "spawned", "leaving") /\ UNCHANGED <<attempt, wpc, failVars>>
        BY <2>2, <1>a DEF Goto, WorkerAlive
    <2> QED
        BY <1>12, <2>1, <2>2, <1>b DEF HandOver
<1>13. ASSUME NEW g \in Guis, WorkerNotReady(g)
       PROVE  Spared'
    BY <1>13, <1>b, <1>c DEF WorkerNotReady, WorkerGone, Preparing
<1>14. ASSUME NEW g \in Guis, Exit(g)
       PROVE  Spared'
    BY <1>14, <1>a DEF Exit, Goto, WorkerAlive
<1>15. ASSUME NEW g \in Guis, WorkerStarts(g)
       PROVE  Spared'
    BY <1>15, <1>a DEF WorkerStarts, WorkerGoto, WorkerGone, WorkerAlive, AfterUndo
<1>16. ASSUME NEW g \in Guis, OldGuiEnded(g)
       PROVE  Spared'
    BY <1>16, <1>a DEF OldGuiEnded, WorkerGoto, WorkerAlive, AfterUndo
<1>17. ASSUME NEW g \in Guis, WorkerLock(g)
       PROVE  Spared'
    BY <1>17, <1>a DEF WorkerLock, WorkerGoto, WorkerAlive, AfterUndo
<1>18. ASSUME NEW g \in Guis, WorkerCheckActive(g)
       PROVE  Spared'
    BY <1>18, <1>a DEF WorkerCheckActive, WorkerGoto, WorkerAlive, AfterUndo
<1>19. ASSUME NEW g \in Guis, WorkerVerify(g)
       PROVE  Spared'
    BY <1>19, <1>a DEF WorkerVerify, WorkerGoto, WorkerAlive, AfterUndo
<1>20. ASSUME NEW g \in Guis, StopDaemon(g)
       PROVE  Spared'
    BY <1>20, <1>a DEF StopDaemon, WorkerGoto, WorkerAlive, AfterUndo
<1>21. ASSUME NEW g \in Guis, Swap(g)
       PROVE  Spared'
    BY <1>21, <1>a DEF Swap, WorkerGoto, WorkerAlive, AfterUndo
<1>22. ASSUME NEW g \in Guis, StartDaemon(g)
       PROVE  Spared'
    BY <1>22, <1>a DEF StartDaemon, WorkerGoto, WorkerAlive, AfterUndo
<1>23. ASSUME NEW g \in Guis, StartGui(g)
       PROVE  Spared'
    <2>1. \A f \in Guis : Early(f)' => Early(f)
        BY <1>23 DEF StartGui, WorkerGoto, WorkerAlive, AfterUndo
    <2>2. CASE NoLaunch
        BY <1>23, <2>1, <2>2, <1>a DEF StartGui, NoLaunch
    <2> QED
        BY <1>23, <2>1, <2>2, <1>d DEF StartGui
<1>24. ASSUME NEW g \in Guis, AwaitHealth(g)
       PROVE  Spared'
    BY <1>24, <1>a DEF AwaitHealth, WorkerGoto, WorkerAlive, AfterUndo
<1>25. ASSUME NEW g \in Guis, Undo(g)
       PROVE  Spared'
    <2>1. WorkerAlive(g) /\ ~Alive(g)
        BY <1>25, WorksAfterEnd DEF Undo, WorkerGoto
    <2>2. \A f \in Guis : WorkerAlive(f) => f = g
        BY <2>1, OneIsAlive DEF Workers
    <2>3. wpc'[g] = "undoing" /\ \A f \in Guis \ {g} : wpc'[f] = wpc[f]
        BY <1>25 DEF Undo, WorkerGoto
    <2>4. \A f \in Guis : gpc'[f] \in {gpc[f], "gone"}
        BY <1>25 DEF Undo, End, guiVars
    <2>5. \A f \in Guis : gpc'[f] \notin {"locked", "copied", "staged"}
        BY <2>1, <2>4 DEF Alone
    <2> QED
        BY <2>2, <2>3, <2>5 DEF WorkerAlive, AfterUndo
<1>26. ASSUME NEW g \in Guis, SwapBack(g)
       PROVE  Spared'
    BY <1>26, <1>a DEF SwapBack, WorkerGoto, WorkerAlive, AfterUndo
<1>27. ASSUME NEW g \in Guis, RestoreDaemon(g)
       PROVE  Spared'
    BY <1>27, <1>a DEF RestoreDaemon, WorkerGoto, WorkerAlive, AfterUndo
<1>28. ASSUME NEW g \in Guis, RestoreGui(g)
       PROVE  Spared'
    <2>1. \A f \in Guis : Early(f)' => Early(f)
        BY <1>28 DEF RestoreGui, WorkerGoto, WorkerAlive, AfterUndo
    <2>2. CASE NoLaunch
        BY <1>28, <2>1, <2>2, <1>a DEF RestoreGui, NoLaunch
    <2> QED
        BY <1>28, <2>1, <2>2, <1>d DEF RestoreGui
<1>29. ASSUME NEW g \in Guis, GiveUp(g)
       PROVE  Spared'
    <2>1. \A f \in Guis : Early(f)' => Early(f)
        BY <1>29 DEF GiveUp, WorkerGoto, WorkerAlive, AfterUndo
    <2>2. CASE NoLaunch
        BY <1>29, <2>1, <2>2, <1>a DEF GiveUp, NoLaunch
    <2> QED
        BY <1>29, <2>1, <2>2, <1>d DEF GiveUp
<1>30. ASSUME NEW g \in Guis, WriteOutcome(g)
       PROVE  Spared'
    <2>1. rolledBack' \in {rolledBack, 0} /\ UNCHANGED <<gpc, attempt>>
        BY <1>30, <1>b DEF WriteOutcome
    <2>2. \/ wpc[g] = "accepted" /\ wpc' = [wpc EXCEPT ![g] = "tidy"]
          \/ wpc' = [wpc EXCEPT ![g] = "none"]
        BY <1>30 DEF WriteOutcome, WorkerGoto, WorkerGone
    <2>3. \A f \in Guis : Early(f)' => Early(f)
        BY <2>2 DEF WorkerAlive, AfterUndo
    <2> QED
        BY <1>a, <2>1, <2>3
<1>31. ASSUME NEW g \in Guis, RemoveWorkspace(g)
       PROVE  Spared'
    BY <1>31, <1>a DEF RemoveWorkspace, WorkerGoto, WorkerGone, WorkerAlive, AfterUndo
<1>32. ASSUME NEW g \in Guis, Ready(g)
       PROVE  Spared'
    BY <1>32, <1>a DEF Ready, End, Goto, WorkerAlive
<1>33. ASSUME NEW g \in Guis, StartupExits(g)
       PROVE  Spared'
    BY <1>33, <1>a DEF StartupExits, End, Goto, WorkerAlive
<1>34. ASSUME NEW g \in Guis, GuiCrash(g)
       PROVE  Spared'
    BY <1>34, <1>a DEF GuiCrash, End, Goto, WorkerAlive
<1>35. ASSUME NEW g \in Guis, WorkerCrash(g)
       PROVE  Spared'
    BY <1>35 DEF WorkerCrash
<1>36. ASSUME NEW g \in Guis, AskChanges(g)
       PROVE  Spared'
    BY <1>36, <1>a DEF AskChanges, End, Goto, WorkerAlive
<1>37. CASE Publish /\ InstallIdle
    BY <1>37, <1>a DEF Publish, WorkerAlive
<1>38. CASE UserStarts
    BY <1>38, <1>d DEF UserStarts, WorkerAlive
<1> QED
    BY <1>1, <1>2, <1>3, <1>4, <1>5, <1>6, <1>7, <1>8, <1>9, <1>10, <1>11,
       <1>12, <1>13, <1>14, <1>15, <1>16, <1>17, <1>18, <1>19, <1>20, <1>21,
       <1>22, <1>23, <1>24, <1>25, <1>26, <1>27, <1>28, <1>29, <1>30, <1>31,
       <1>32, <1>33, <1>34, <1>35, <1>36, <1>37, <1>38
    DEF Next, Fetch, Prepare, Worker

-----------------------------------------------------------------------------
(* The theorems.                                                           *)

\* All of it.
Order == TypeOK /\ Locked /\ Untouched /\ NoneUnderWay /\ (mishap \/ Sequence)

\* At first nothing is under way.
LEMMA OrderAtFirst == Init => Order
<1> SUFFICES ASSUME Init
             PROVE  Order
    OBVIOUS
<1>1. gpc \in [Guis -> {"up", "new"}]
    BY DEF Init
<1>2. Types
    <2> USE UpdaterAssumption, FetchAssumption DEF Init, FetchInit
    <2>1. GuiTypes
        BY <1>1, States DEF GuiTypes, NoAttempt
    <2>2. DiskTypes /\ DaemonTypes
        BY DEF DiskTypes, DaemonTypes
    <2>3. LockTypes
        BY DEF LockTypes
    <2>4. FaultTypes
        <3>1. faults = 0 /\ mishap = FALSE
            OBVIOUS
        <3>2. 0 \in 0..MaxFaults
            OBVIOUS
        <3> HIDE DEF Init
        <3> QED
            BY ONLY <3>1, <3>2 DEF FaultTypes
    <2>5. WorkerTypes
        BY States DEF WorkerTypes
    <2>6. OutcomeTypes /\ FileTypes
        BY DEF OutcomeTypes, FileTypes, NoFile
    <2> QED
        BY <2>1, <2>2, <2>3, <2>4, <2>5, <2>6 DEF Types
<1>3. \A g \in Guis : wpc[g] = "none" /\ gpc[g] \notin Preparing
    BY <1>1 DEF Init, Preparing
<1>4. Locked /\ Untouched
    BY <1>3, FetchAssumption DEF Locked, Untouched, Holding, Transacting, OnTrial, Init
<1>5. NoneUnderWay
    BY DEF NoneUnderWay, Init, FetchInit, NoFile
<1>6. Sequence
    BY <1>3 DEF Sequence, Owned, Named, Alone, Told, Spared, WorkerAlive, Preparing,
       Init
<1> QED
    BY <1>2, <1>4, <1>5, <1>6, TypesAreTypeOK DEF Order


\* What has gone wrong stays so.
LEMMA MishapStays ==
    ASSUME mishap, Next
    PROVE  mishap'
<1> USE DEF NoFault, HarmlessFault, Mishap, faultVars, WorkerFrame, InstallIdle
<1>1. ASSUME NEW g \in Guis,
             \/ Check(g) \/ BeginDownload(g) \/ CurlEnds(g) \/ HashDownload(g)
             \/ RenameDownload(g) \/ RequestInstall(g),
             InstallIdle
      PROVE  mishap'
    BY <1>1 DEF Check, BeginDownload, CurlEnds, HashDownload,
           RenameDownload, RequestInstall
<1>2. ASSUME NEW g \in Guis,
             \/ TakeLock(g) \/ CheckActive(g) \/ Copy(g) \/ VerifyCopy(g)
             \/ Spawn(g)
      PROVE  mishap'
    BY <1>2 DEF TakeLock, CheckActive, Copy, VerifyCopy, Spawn
<1>3. ASSUME NEW g \in Guis,
             \/ HandOver(g) \/ WorkerNotReady(g) \/ Exit(g) \/ WorkerStarts(g)
             \/ OldGuiEnded(g)
      PROVE  mishap'
    BY <1>3 DEF HandOver, WorkerNotReady, Exit, WorkerStarts, OldGuiEnded
<1>4. ASSUME NEW g \in Guis,
             \/ WorkerLock(g) \/ WorkerCheckActive(g) \/ WorkerVerify(g)
             \/ StopDaemon(g) \/ Swap(g)
      PROVE  mishap'
    BY <1>4 DEF WorkerLock, WorkerCheckActive, WorkerVerify, StopDaemon,
           Swap
<1>5. ASSUME NEW g \in Guis,
             \/ StartDaemon(g) \/ StartGui(g) \/ AwaitHealth(g) \/ Undo(g)
             \/ SwapBack(g)
      PROVE  mishap'
    BY <1>5 DEF StartDaemon, StartGui, AwaitHealth, Undo, SwapBack
<1>6. ASSUME NEW g \in Guis,
             \/ RestoreDaemon(g) \/ RestoreGui(g) \/ GiveUp(g)
             \/ WriteOutcome(g) \/ RemoveWorkspace(g)
      PROVE  mishap'
    BY <1>6 DEF RestoreDaemon, RestoreGui, GiveUp, WriteOutcome,
           RemoveWorkspace
<1>7. ASSUME NEW g \in Guis,
             \/ Ready(g) \/ StartupExits(g) \/ GuiCrash(g) \/ WorkerCrash(g)
             \/ AskChanges(g)
      PROVE  mishap'
    BY <1>7 DEF Ready, StartupExits, GuiCrash, WorkerCrash, AskChanges
<1>8. CASE Publish /\ InstallIdle
    BY <1>8 DEF Publish
<1>9. CASE UserStarts
    BY <1>9 DEF UserStarts
<1> QED
    BY <1>1, <1>2, <1>3, <1>4, <1>5, <1>6, <1>7, <1>8, <1>9
    DEF Next, Fetch, Prepare, Worker

\* Nothing is downloaded into a whole file, and nothing renamed over it.
LEMMA WholeStays ==
    ASSUME NoneUnderWay, FileTypes, GuiTypes, NEW v \in Versions, dmg[v] = "whole", Next
    PROVE  dmg'[v] = "whole"
<1> USE DEF NoneUnderWay, FileTypes, GuiTypes, WorkerFrame, InstallIdle, fetchVars
<1>1. ASSUME NEW g \in Guis,
             \/ Check(g) \/ BeginDownload(g) \/ CurlEnds(g) \/ HashDownload(g)
             \/ RenameDownload(g) \/ RequestInstall(g),
             InstallIdle
      PROVE  dmg'[v] = "whole"
    BY <1>1 DEF Check, BeginDownload, CurlEnds, HashDownload,
           RenameDownload, RequestInstall
<1>2. ASSUME NEW g \in Guis,
             \/ TakeLock(g) \/ CheckActive(g) \/ Copy(g) \/ VerifyCopy(g)
             \/ Spawn(g)
      PROVE  dmg'[v] = "whole"
    BY <1>2 DEF TakeLock, CheckActive, Copy, VerifyCopy, Spawn
<1>3. ASSUME NEW g \in Guis,
             \/ HandOver(g) \/ WorkerNotReady(g) \/ Exit(g) \/ WorkerStarts(g)
             \/ OldGuiEnded(g)
      PROVE  dmg'[v] = "whole"
    BY <1>3 DEF HandOver, WorkerNotReady, Exit, WorkerStarts, OldGuiEnded
<1>4. ASSUME NEW g \in Guis,
             \/ WorkerLock(g) \/ WorkerCheckActive(g) \/ WorkerVerify(g)
             \/ StopDaemon(g) \/ Swap(g)
      PROVE  dmg'[v] = "whole"
    BY <1>4 DEF WorkerLock, WorkerCheckActive, WorkerVerify, StopDaemon,
           Swap
<1>5. ASSUME NEW g \in Guis,
             \/ StartDaemon(g) \/ StartGui(g) \/ AwaitHealth(g) \/ Undo(g)
             \/ SwapBack(g)
      PROVE  dmg'[v] = "whole"
    BY <1>5 DEF StartDaemon, StartGui, AwaitHealth, Undo, SwapBack
<1>6. ASSUME NEW g \in Guis,
             \/ RestoreDaemon(g) \/ RestoreGui(g) \/ GiveUp(g)
             \/ WriteOutcome(g) \/ RemoveWorkspace(g)
      PROVE  dmg'[v] = "whole"
    BY <1>6 DEF RestoreDaemon, RestoreGui, GiveUp, WriteOutcome,
           RemoveWorkspace
<1>7. ASSUME NEW g \in Guis,
             \/ Ready(g) \/ StartupExits(g) \/ GuiCrash(g) \/ WorkerCrash(g)
             \/ AskChanges(g)
      PROVE  dmg'[v] = "whole"
    BY <1>7 DEF Ready, StartupExits, GuiCrash, WorkerCrash, AskChanges
<1>8. CASE Publish /\ InstallIdle
    BY <1>8 DEF Publish
<1>9. CASE UserStarts
    BY <1>9 DEF UserStarts
<1> QED
    BY <1>1, <1>2, <1>3, <1>4, <1>5, <1>6, <1>7, <1>8, <1>9
    DEF Next, Fetch, Prepare, Worker

\* A worker is spawned for a process that has staged a bundle.
LEMMA NewIsStaged ==
    ASSUME WorkerTypes, NEW w \in Guis, wpc[w] = "none", wpc'[w] = "new", Next
    PROVE  gpc[w] = "staged"
<1> USE DEF WorkerTypes, WorkerGoto, WorkerGone, WorkerFrame, InstallIdle, Goto
<1>1. ASSUME NEW g \in Guis,
             \/ Check(g) \/ BeginDownload(g) \/ CurlEnds(g) \/ HashDownload(g)
             \/ RenameDownload(g) \/ RequestInstall(g),
             InstallIdle
      PROVE  gpc[w] = "staged"
    BY <1>1 DEF Check, BeginDownload, CurlEnds, HashDownload,
           RenameDownload, RequestInstall
<1>2. ASSUME NEW g \in Guis,
             \/ TakeLock(g) \/ CheckActive(g) \/ Copy(g) \/ VerifyCopy(g)
             \/ Spawn(g)
      PROVE  gpc[w] = "staged"
    BY <1>2 DEF TakeLock, CheckActive, Copy, VerifyCopy, Spawn
<1>3. ASSUME NEW g \in Guis,
             \/ HandOver(g) \/ WorkerNotReady(g) \/ Exit(g) \/ WorkerStarts(g)
             \/ OldGuiEnded(g)
      PROVE  gpc[w] = "staged"
    BY <1>3 DEF HandOver, WorkerNotReady, Exit, WorkerStarts, OldGuiEnded
<1>4. ASSUME NEW g \in Guis,
             \/ WorkerLock(g) \/ WorkerCheckActive(g) \/ WorkerVerify(g)
             \/ StopDaemon(g) \/ Swap(g)
      PROVE  gpc[w] = "staged"
    BY <1>4 DEF WorkerLock, WorkerCheckActive, WorkerVerify, StopDaemon,
           Swap
<1>5. ASSUME NEW g \in Guis,
             \/ StartDaemon(g) \/ StartGui(g) \/ AwaitHealth(g) \/ Undo(g)
             \/ SwapBack(g)
      PROVE  gpc[w] = "staged"
    BY <1>5 DEF StartDaemon, StartGui, AwaitHealth, Undo, SwapBack
<1>6. ASSUME NEW g \in Guis,
             \/ RestoreDaemon(g) \/ RestoreGui(g) \/ GiveUp(g)
             \/ WriteOutcome(g) \/ RemoveWorkspace(g)
      PROVE  gpc[w] = "staged"
    BY <1>6, ZenonT(60) DEF RestoreDaemon, RestoreGui, GiveUp, WriteOutcome,
           RemoveWorkspace
<1>7. ASSUME NEW g \in Guis,
             \/ Ready(g) \/ StartupExits(g) \/ GuiCrash(g) \/ WorkerCrash(g)
             \/ AskChanges(g)
      PROVE  gpc[w] = "staged"
    BY <1>7 DEF Ready, StartupExits, GuiCrash, WorkerCrash, AskChanges
<1>8. CASE Publish /\ InstallIdle
    BY <1>8 DEF Publish
<1>9. CASE UserStarts
    BY <1>9 DEF UserStarts
<1> QED
    BY <1>1, <1>2, <1>3, <1>4, <1>5, <1>6, <1>7, <1>8, <1>9
    DEF Next, Fetch, Prepare, Worker

\* Every step keeps it all.
LEMMA OrderStep ==
    ASSUME Order, [Next]_vars
    PROVE  Order'
<1>1. CASE UNCHANGED vars
    <2> USE <1>1 DEF vars, guiVars, fetchVars, diskVars, jobVars, lockVars, failVars,
                     faultVars
    <2>1. TypeOK'
        BY DEF Order, TypeOK, FetchTypeOK
    <2>2. Locked' /\ Untouched' /\ NoneUnderWay'
        BY DEF Order, Locked, Untouched, NoneUnderWay
    <2>3. Sequence => Sequence'
        BY DEF Sequence, Owned, Named, Alone, Told, Spared, WorkerAlive, Alive,
               LastFailure, Version
    <2> QED
        BY <2>1, <2>2, <2>3 DEF Order
<1>2. CASE Next
    <2>1. Types /\ {target, latest} \subseteq Versions
        BY TypesAreTypeOK DEF Order, Untouched, Types, DiskTypes, FileTypes
    <2>2. Types'
        BY <1>2, <2>1, GuiTypesStep, DiskTypesStep, WorkerTypesStep, LockTypesStep,
           DaemonTypesStep, FaultTypesStep, OutcomeTypesStep, FileTypesStep
        DEF Types
    <2>3. TypeOK'
        BY <2>2, TypesAreTypeOK, PTL
    <2>4. Locked' /\ Untouched' /\ NoneUnderWay'
        BY <1>2, <2>1, LockedStep, UntouchedStep, NoneUnderWayStep DEF Order, Types
    <2>5. ASSUME ~mishap'
          PROVE  Sequence'
        <3>1. Smooth
            BY <1>2, <2>1, <2>5, MishapStays DEF Smooth, Order, Types
        <3> QED
            BY <1>2, <3>1, WorkersStep, ToldStep, SparedStep DEF Workers, Sequence
    <2> QED
        BY <2>3, <2>4, <2>5 DEF Order
<1> QED
    BY <1>1, <1>2

\* So it always holds.
LEMMA OrderAlways == Spec => []Order
BY OrderAtFirst, OrderStep, PTL DEF Spec

\* transact and prepare_and_spawn: what is installed is whole, one process at a
\* time changes it, and without a mishap there is one worker at most.
THEOREM OneProcessInstalls == Spec => []OneInstaller
<1>1. Order => OneTransaction
    BY DEF Order, Locked, OneTransaction, Holding
<1>2. Order => OneWorker
    <2> SUFFICES ASSUME Order, ~mishap
                 PROVE  Cardinality({g \in Guis : WorkerAlive(g)}) <= 1
        BY DEF OneWorker
    <2> DEFINE Living == {g \in Guis : WorkerAlive(g)}
    <2>1. Workers
        BY DEF Order, Sequence, Workers
    <2>2. CASE Living = {}
        BY <2>2, FS_EmptySet
    <2>3. ASSUME NEW g \in Living
          PROVE  Cardinality(Living) <= 1
        <3>1. Living = {g}
            BY <2>1, <2>3, OneIsAlive
        <3> QED
            BY <3>1, FS_Singleton
    <2> QED
        BY <2>2, <2>3
<1>3. Order => OneInstaller
    BY <1>1, <1>2 DEF Order, OneInstaller, Untouched, InstalledIsWhole
<1> QED
    BY <1>3, OrderAlways, PTL

\* update_download: no other process spoils a download that is finished.
THEOREM FinishedDownloadStays == Spec => GoodDownloadStays
<1>1. ASSUME Order, [Next]_vars
      PROVE  [\A v \in Versions : dmg[v] = "whole" => dmg'[v] = "whole"]_vars
    BY <1>1, WholeStays, TypesAreTypeOK DEF Order, Types, vars, fetchVars
<1> QED
    BY <1>1, OrderAlways, PTL DEF Spec, GoodDownloadStays

\* last_failure: no automatic attempt installs what was rolled back last,
\* unless something died or failed on the way.
THEOREM RolledBackIsPaused == Spec => AutoRetryPauses
<1>1. ASSUME Order, [Next]_vars
      PROVE  [\A g \in Guis :
                wpc[g] = "none" /\ wpc'[g] = "new" /\ attempt[g].automatic =>
                    mishap \/ Version(g) # rolledBack]_vars
    <2> SUFFICES ASSUME Next, NEW g \in Guis, wpc[g] = "none", wpc'[g] = "new"
                 PROVE  gpc[g] = "staged"
        BY <1>1 DEF Order, Sequence, Spared, vars
    <2>1. WorkerTypes
        BY <1>1, TypesAreTypeOK DEF Order, Types
    <2> QED
        BY <2>1, NewIsStaged
<1> QED
    BY <1>1, OrderAlways, PTL DEF Spec, AutoRetryPauses

\* A worker's process has handed over, or is about to; it has ended when the
\* worker has waited for it.
Past == {"exited", "accepted", "tidy"} \cup Holding
Left ==
    \A g \in Guis :
        /\ WorkerAlive(g) => gpc[g] \in {"spawned", "leaving"} \cup Ended
        /\ wpc[g] \in Past => ~Alive(g)

\* What is swapped in is what was verified, and newer than what is installed.
Chosen ==
    \A g \in Guis : wpc[g] \in {"verified", "swapping"} =>
        candidate[g] = Version(g) /\ Newer(Version(g))

\* No process reports to a worker that has not started one.
BeforeChild == {"none", "new", "waiting", "exited", "locked", "held", "verified",
                "swapping", "swapped", "launching"}
Unreported ==
    \A g \in Guis : wpc[g] \in BeforeChild =>
        health[g] = NoGui /\ \A h \in Guis : bornOf[h] # g

\* A worker that waits for a report has started the process it waits for.
HasChild == \A g \in Guis : wpc[g] = "awaiting" => child[g] \in Guis

\* No process comes back to life while its worker is past the handover.
LEMMA LeftStep ==
    ASSUME Left, GuiTypes, WorkerTypes, Next
    PROVE  Left'
<1> USE FetchAssumption
    DEF Left, Past, GuiTypes, WorkerTypes, Goto, Back, WorkerGoto, WorkerGone, Launch,
        WorkerFrame, NoLaunch, InstallIdle, PrepareFails, Postpone, Drop, Proceed,
        End, Preparing, Holding, Transacting, OnTrial, Alive, Ended, Startable, WorkerAlive,
        guiVars
<1>1. ASSUME NEW g \in Guis,
             \/ Check(g) \/ BeginDownload(g) \/ CurlEnds(g) \/ HashDownload(g)
             \/ RenameDownload(g) \/ RequestInstall(g),
             InstallIdle
      PROVE  Left'
    BY <1>1 DEF Check, BeginDownload, CurlEnds, HashDownload, RenameDownload,
       RequestInstall
<1>2. ASSUME NEW g \in Guis,
             \/ TakeLock(g) \/ CheckActive(g) \/ Exit(g) \/ WorkerStarts(g)
             \/ OldGuiEnded(g)
      PROVE  Left'
    BY <1>2 DEF TakeLock, CheckActive, Exit, WorkerStarts, OldGuiEnded
<1>3. ASSUME NEW g \in Guis,
             Copy(g)
      PROVE  Left'
    BY <1>3, ZenonT(60) DEF Copy
<1>4. ASSUME NEW g \in Guis,
             VerifyCopy(g)
      PROVE  Left'
    BY <1>4, ZenonT(60) DEF VerifyCopy
<1>5. ASSUME NEW g \in Guis,
             Spawn(g)
      PROVE  Left'
    BY <1>5, ZenonT(60) DEF Spawn
<1>6. ASSUME NEW g \in Guis,
             HandOver(g)
      PROVE  Left'
    <2>1. CASE Drop(g, "spawned") /\ WorkerGone(g)
        BY <2>1
    <2>2. CASE Goto(g, "spawned", "leaving") /\ UNCHANGED wpc
        BY <2>2
    <2> QED
        BY <1>6, <2>1, <2>2 DEF HandOver
<1>7. ASSUME NEW g \in Guis,
             WorkerNotReady(g)
      PROVE  Left'
    BY <1>7 DEF WorkerNotReady
<1>8. ASSUME NEW g \in Guis,
             \/ WorkerLock(g) \/ WorkerCheckActive(g) \/ WorkerVerify(g)
             \/ StopDaemon(g) \/ Swap(g)
      PROVE  Left'
    BY <1>8 DEF WorkerLock, WorkerCheckActive, WorkerVerify, StopDaemon, Swap
<1>9. ASSUME NEW g \in Guis,
             \/ StartDaemon(g) \/ AwaitHealth(g) \/ SwapBack(g) \/ RestoreDaemon(g)
      PROVE  Left'
    BY <1>9 DEF StartDaemon, AwaitHealth, SwapBack, RestoreDaemon
<1>10. ASSUME NEW g \in Guis,
             Undo(g)
      PROVE  Left'
    BY <1>10 DEF Undo
<1>11. ASSUME NEW g \in Guis,
             StartGui(g)
      PROVE  Left'
    BY <1>11 DEF StartGui
<1>12. ASSUME NEW g \in Guis,
             RestoreGui(g)
      PROVE  Left'
    BY <1>12 DEF RestoreGui
<1>13. ASSUME NEW g \in Guis,
             GiveUp(g)
      PROVE  Left'
    BY <1>13 DEF GiveUp
<1>14. ASSUME NEW g \in Guis,
             WriteOutcome(g)
      PROVE  Left'
    <2>1. CASE WorkerGone(g)
        BY <1>14, <2>1 DEF WriteOutcome
    <2>2. CASE wpc' = [wpc EXCEPT ![g] = "tidy"] /\ wpc[g] = "accepted"
        BY <1>14, <2>2 DEF WriteOutcome
    <2> QED
        BY <1>14, <2>1, <2>2 DEF WriteOutcome
<1>15. ASSUME NEW g \in Guis,
             \/ RemoveWorkspace(g) \/ WorkerCrash(g)
      PROVE  Left'
    BY <1>15 DEF RemoveWorkspace, WorkerCrash
<1>16. ASSUME NEW g \in Guis,
             \/ Ready(g) \/ StartupExits(g) \/ GuiCrash(g) \/ AskChanges(g)
      PROVE  Left'
    BY <1>16 DEF Ready, StartupExits, GuiCrash, AskChanges
<1>17. CASE Publish /\ InstallIdle
    BY <1>17 DEF Publish
<1>18. CASE UserStarts
    BY <1>18 DEF UserStarts
<1> QED
    BY <1>1, <1>2, <1>3, <1>4, <1>5, <1>6, <1>7, <1>8, <1>9, <1>10, <1>11, <1>12,
       <1>13, <1>14, <1>15, <1>16, <1>17, <1>18
    DEF Next, Fetch, Prepare, Worker

\* Only the worker itself lets go of the process it started.
LEMMA HasChildStep ==
    ASSUME HasChild, GuiTypes, WorkerTypes, Next
    PROVE  HasChild'
<1> USE FetchAssumption
    DEF HasChild, WorkerTypes, WorkerGoto, WorkerGone,
        WorkerFrame, InstallIdle, jobVars
<1>1. ASSUME NEW g \in Guis,
             \/ Check(g) \/ BeginDownload(g) \/ CurlEnds(g) \/ HashDownload(g)
             \/ RenameDownload(g) \/ RequestInstall(g),
             InstallIdle
      PROVE  HasChild'
    BY <1>1 DEF Check, BeginDownload, CurlEnds, HashDownload, RenameDownload,
       RequestInstall
<1>2. ASSUME NEW g \in Guis,
             \/ TakeLock(g) \/ CheckActive(g) \/ Exit(g) \/ WorkerStarts(g)
             \/ OldGuiEnded(g)
      PROVE  HasChild'
    BY <1>2 DEF TakeLock, CheckActive, Exit, WorkerStarts, OldGuiEnded
<1>3. ASSUME NEW g \in Guis,
             Copy(g)
      PROVE  HasChild'
    BY <1>3 DEF Copy
<1>4. ASSUME NEW g \in Guis,
             VerifyCopy(g)
      PROVE  HasChild'
    BY <1>4 DEF VerifyCopy
<1>5. ASSUME NEW g \in Guis,
             Spawn(g)
      PROVE  HasChild'
    BY <1>5 DEF Spawn
<1>6. ASSUME NEW g \in Guis,
             HandOver(g)
      PROVE  HasChild'
    BY <1>6 DEF HandOver
<1>7. ASSUME NEW g \in Guis,
             WorkerNotReady(g)
      PROVE  HasChild'
    BY <1>7 DEF WorkerNotReady
<1>8. ASSUME NEW g \in Guis,
             \/ WorkerLock(g) \/ WorkerCheckActive(g) \/ WorkerVerify(g)
             \/ StopDaemon(g) \/ Swap(g)
      PROVE  HasChild'
    BY <1>8 DEF WorkerLock, WorkerCheckActive, WorkerVerify, StopDaemon, Swap
<1>9. ASSUME NEW g \in Guis,
             \/ StartDaemon(g) \/ AwaitHealth(g) \/ SwapBack(g) \/ RestoreDaemon(g)
      PROVE  HasChild'
    BY <1>9 DEF StartDaemon, AwaitHealth, SwapBack, RestoreDaemon
<1>10. ASSUME NEW g \in Guis,
             Undo(g)
      PROVE  HasChild'
    BY <1>10 DEF Undo
<1>11. ASSUME NEW g \in Guis,
             StartGui(g)
      PROVE  HasChild'
    BY <1>11 DEF StartGui
<1>12. ASSUME NEW g \in Guis,
             RestoreGui(g)
      PROVE  HasChild'
    BY <1>12 DEF RestoreGui
<1>13. ASSUME NEW g \in Guis,
             GiveUp(g)
      PROVE  HasChild'
    BY <1>13 DEF GiveUp
<1>14. ASSUME NEW g \in Guis,
             WriteOutcome(g)
      PROVE  HasChild'
    BY <1>14, ZenonT(60) DEF WriteOutcome
<1>15. ASSUME NEW g \in Guis,
             \/ RemoveWorkspace(g) \/ WorkerCrash(g)
      PROVE  HasChild'
    BY <1>15 DEF RemoveWorkspace, WorkerCrash
<1>16. ASSUME NEW g \in Guis,
             \/ Ready(g) \/ StartupExits(g) \/ GuiCrash(g) \/ AskChanges(g)
      PROVE  HasChild'
    BY <1>16 DEF Ready, StartupExits, GuiCrash, AskChanges
<1>17. CASE Publish /\ InstallIdle
    BY <1>17 DEF Publish
<1>18. CASE UserStarts
    BY <1>18 DEF UserStarts
<1> QED
    BY <1>1, <1>2, <1>3, <1>4, <1>5, <1>6, <1>7, <1>8, <1>9, <1>10, <1>11, <1>12,
       <1>13, <1>14, <1>15, <1>16, <1>17, <1>18
    DEF Next, Fetch, Prepare, Worker

\* A health report comes from a process that the reporting worker's job started.
LEMMA UnreportedStep ==
    ASSUME Unreported, Left, GuiTypes, WorkerTypes, Next
    PROVE  Unreported'
<1> USE FetchAssumption
    DEF Unreported, BeforeChild, WorkerTypes, WorkerGoto, WorkerGone, Launch,
        WorkerFrame, NoLaunch, InstallIdle, jobVars
<1>1. ASSUME NEW g \in Guis,
             \/ Check(g) \/ BeginDownload(g) \/ CurlEnds(g) \/ HashDownload(g)
             \/ RenameDownload(g) \/ RequestInstall(g),
             InstallIdle
      PROVE  Unreported'
    BY <1>1 DEF Check, BeginDownload, CurlEnds, HashDownload, RenameDownload,
       RequestInstall
<1>2. ASSUME NEW g \in Guis,
             \/ TakeLock(g) \/ CheckActive(g) \/ Exit(g) \/ WorkerStarts(g)
             \/ OldGuiEnded(g)
      PROVE  Unreported'
    BY <1>2 DEF TakeLock, CheckActive, Exit, WorkerStarts, OldGuiEnded
<1>3. ASSUME NEW g \in Guis,
             Copy(g)
      PROVE  Unreported'
    BY <1>3 DEF Copy
<1>4. ASSUME NEW g \in Guis,
             VerifyCopy(g)
      PROVE  Unreported'
    BY <1>4 DEF VerifyCopy
<1>5. ASSUME NEW g \in Guis,
             Spawn(g)
      PROVE  Unreported'
    <2>1. wpc' \in {wpc, [wpc EXCEPT ![g] = "new"]}
        BY <1>5 DEF Spawn
    <2>2. wpc'[g] # wpc[g] => wpc[g] \in BeforeChild
        <3>1. gpc[g] = "staged" \/ wpc' = wpc
            BY <1>5 DEF Spawn, Goto
        <3> QED
            BY <2>1, <3>1 DEF Left, WorkerAlive, Ended
    <2> QED
        BY <1>5, <2>1, <2>2 DEF Spawn
<1>6. ASSUME NEW g \in Guis,
             HandOver(g)
      PROVE  Unreported'
    BY <1>6 DEF HandOver
<1>7. ASSUME NEW g \in Guis,
             WorkerNotReady(g)
      PROVE  Unreported'
    BY <1>7 DEF WorkerNotReady
<1>8. ASSUME NEW g \in Guis,
             \/ WorkerLock(g) \/ WorkerCheckActive(g) \/ WorkerVerify(g)
             \/ StopDaemon(g) \/ Swap(g)
      PROVE  Unreported'
    BY <1>8 DEF WorkerLock, WorkerCheckActive, WorkerVerify, StopDaemon, Swap
<1>9. ASSUME NEW g \in Guis,
             \/ StartDaemon(g) \/ AwaitHealth(g) \/ SwapBack(g) \/ RestoreDaemon(g)
      PROVE  Unreported'
    BY <1>9 DEF StartDaemon, AwaitHealth, SwapBack, RestoreDaemon
<1>10. ASSUME NEW g \in Guis,
             Undo(g)
      PROVE  Unreported'
    BY <1>10 DEF Undo
<1>11. ASSUME NEW g \in Guis,
             StartGui(g)
      PROVE  Unreported'
    BY <1>11 DEF StartGui
<1>12. ASSUME NEW g \in Guis,
             RestoreGui(g)
      PROVE  Unreported'
    BY <1>12 DEF RestoreGui
<1>13. ASSUME NEW g \in Guis,
             GiveUp(g)
      PROVE  Unreported'
    BY <1>13 DEF GiveUp
<1>14. ASSUME NEW g \in Guis,
             WriteOutcome(g)
      PROVE  Unreported'
    <2>1. CASE WorkerGone(g)
        BY <2>1
    <2>2. CASE wpc' = [wpc EXCEPT ![g] = "tidy"] /\ UNCHANGED jobVars
        BY <2>2
    <2> QED
        BY <1>14, <2>1, <2>2 DEF WriteOutcome
<1>15. ASSUME NEW g \in Guis,
             \/ RemoveWorkspace(g) \/ WorkerCrash(g)
      PROVE  Unreported'
    BY <1>15 DEF RemoveWorkspace, WorkerCrash
<1>16. ASSUME NEW g \in Guis,
             \/ Ready(g) \/ StartupExits(g) \/ GuiCrash(g) \/ AskChanges(g)
      PROVE  Unreported'
    BY <1>16 DEF Ready, StartupExits, GuiCrash, AskChanges
<1>17. CASE Publish /\ InstallIdle
    BY <1>17 DEF Publish
<1>18. CASE UserStarts
    BY <1>18 DEF UserStarts
<1> QED
    BY <1>1, <1>2, <1>3, <1>4, <1>5, <1>6, <1>7, <1>8, <1>9, <1>10, <1>11, <1>12,
       <1>13, <1>14, <1>15, <1>16, <1>17, <1>18
    DEF Next, Fetch, Prepare, Worker

\* Verification looks at the staged copy, and only the holder of the lock touches
\* the installed one in between.
LEMMA ChosenStep ==
    ASSUME Chosen, Left, Locked, GuiTypes, DiskTypes, WorkerTypes, Next
    PROVE  Chosen'
<1> DEFINE Sure(w) == w \in {"verified", "swapping"}
           Fixed(f) == candidate'[f] = candidate[f] /\ attempt'[f] = attempt[f]
<1>a. ASSUME \A f \in Guis : Sure(wpc'[f]) => Sure(wpc[f]) /\ Fixed(f), target' = target
      PROVE  Chosen'
    BY <1>a DEF Chosen, Newer, Version
<1> USE FetchAssumption, WhoHolds
    DEF GuiTypes, DiskTypes, WorkerTypes, Goto, Back, WorkerGoto, WorkerGone,
        WorkerFrame, NoLaunch, InstallIdle, PrepareFails, Postpone, Drop, Proceed,
        End, guiVars, diskVars, Left, Past, Alive, Ended, Holding, Transacting, OnTrial
<1>b. ASSUME NEW h \in Guis, NEW job, Launch(h, job)
      PROVE  ~Sure(wpc[h]) /\ (\A f \in Guis \ {h} : Fixed(f)) /\ target' = target
    BY <1>b DEF Launch, Startable, WorkerAlive
<1>c. ASSUME NEW g \in Guis, ~Sure(wpc'[g]), target' = target,
             \A f \in Guis \ {g} : wpc'[f] = wpc[f] /\ Fixed(f)
      PROVE  Chosen'
    <2> HIDE DEF Fixed
    <2> QED
        BY <1>a, <1>c
<1>d. ASSUME NEW g \in Guis, NEW from \in {"locked", "copied", "staged", "spawned"}, Drop(g, from),
             target' = target, wpc' \in {wpc, [wpc EXCEPT ![g] = "none"]}
      PROVE  Chosen'
    <2>1. ~Sure(wpc[g])
        BY <1>d
    <2>2. /\ ~Sure(wpc'[g])
          /\ \A f \in Guis \ {g} : wpc'[f] = wpc[f]
        BY <1>d, <2>1
    <2>3. \A f \in Guis \ {g} : Fixed(f)
        BY <1>d
    <2> HIDE DEF Sure, Fixed
    <2> QED
        BY <1>c, <1>d, <2>2, <2>3
<1>1. ASSUME NEW g \in Guis,
             \/ Check(g) \/ BeginDownload(g) \/ CurlEnds(g) \/ HashDownload(g)
             \/ RenameDownload(g) \/ RequestInstall(g),
             InstallIdle
      PROVE  Chosen'
    BY <1>1, <1>a DEF Check, BeginDownload, CurlEnds, HashDownload, RenameDownload,
       RequestInstall
<1>2. ASSUME NEW g \in Guis,
             \/ TakeLock(g) \/ CheckActive(g) \/ Exit(g) \/ WorkerStarts(g)
             \/ OldGuiEnded(g)
      PROVE  Chosen'
    BY <1>2, <1>a DEF TakeLock, CheckActive, Exit, WorkerStarts, OldGuiEnded
<1>3. ASSUME NEW g \in Guis,
             Copy(g)
      PROVE  Chosen'
    <2>1. CASE Drop(g, "locked") /\ UNCHANGED <<wpc, target>>
        BY <2>1, <1>d
    <2>2. ASSUME Goto(g, "locked", "copied"), UNCHANGED <<wpc, target, attempt>>,
                 NEW bundle, candidate' = [candidate EXCEPT ![g] = bundle]
          PROVE  Chosen'
        BY <2>2, <1>c
    <2> QED
        BY <1>3, <2>1, <2>2 DEF Copy
<1>4. ASSUME NEW g \in Guis,
             VerifyCopy(g)
      PROVE  Chosen'
    <2>1. CASE Drop(g, "copied") /\ UNCHANGED <<wpc, target>>
        BY <2>1, <1>d
    <2>2. CASE UNCHANGED <<wpc, target, attempt, candidate>>
        BY <2>2, <1>a
    <2> QED
        BY <1>4, <2>1, <2>2 DEF VerifyCopy
<1>5. ASSUME NEW g \in Guis,
             Spawn(g)
      PROVE  Chosen'
    <2>1. CASE Drop(g, "staged") /\ UNCHANGED <<wpc, target>>
        BY <2>1, <1>d
    <2>2. CASE wpc' = [wpc EXCEPT ![g] = "new"] /\ UNCHANGED <<target, attempt, candidate>>
        BY <2>2, <1>a
    <2> QED
        BY <1>5, <2>1, <2>2 DEF Spawn
<1>6. ASSUME NEW g \in Guis,
             HandOver(g)
      PROVE  Chosen'
    <2>1. CASE Drop(g, "spawned") /\ WorkerGone(g) /\ UNCHANGED target
        BY <2>1, <1>d
    <2>2. CASE UNCHANGED <<wpc, target, attempt, candidate>>
        BY <2>2, <1>a
    <2> QED
        BY <1>6, <2>1, <2>2 DEF HandOver
<1>7. ASSUME NEW g \in Guis,
             WorkerNotReady(g)
      PROVE  Chosen'
    BY <1>7, <1>a DEF WorkerNotReady
<1>8. ASSUME NEW g \in Guis,
             \/ WorkerLock(g) \/ WorkerCheckActive(g) \/ WorkerVerify(g)
             \/ StopDaemon(g) \/ Swap(g)
      PROVE  Chosen'
    <2>1. CASE WorkerLock(g) \/ WorkerCheckActive(g)
        BY <2>1, <1>a DEF WorkerLock, WorkerCheckActive
    <2>2. CASE WorkerVerify(g)
        <3>1. UNCHANGED <<target, attempt, candidate>>
            BY <2>2 DEF WorkerVerify
        <3>2. CASE wpc' = [wpc EXCEPT ![g] = "verified"] /\ candidate[g] = Version(g)
                   /\ Newer(Version(g))
            BY <3>1, <3>2 DEF Chosen, Newer, Version
        <3>3. CASE wpc' = [wpc EXCEPT ![g] = "giveup"]
            BY <3>1, <3>3, <1>a
        <3> QED
            BY <2>2, <3>2, <3>3 DEF WorkerVerify, Verified
    <2>3. CASE StopDaemon(g)
        BY <2>3, <1>a DEF StopDaemon
    <2>4. CASE Swap(g)
        <3>1. CASE wpc' = [wpc EXCEPT ![g] = "restoring"] /\ UNCHANGED <<diskVars, attempt>>
            BY <3>1, <1>a
        <3>2. CASE wpc[g] = "swapping" /\ wpc' = [wpc EXCEPT ![g] = "swapped"]
            BY <3>2 DEF Chosen, Locked
        <3> QED
            BY <2>4, <3>1, <3>2 DEF Swap
    <2> QED
        BY <1>8, <2>1, <2>2, <2>3, <2>4
<1>9. ASSUME NEW g \in Guis,
             \/ StartDaemon(g) \/ AwaitHealth(g) \/ SwapBack(g) \/ RestoreDaemon(g)
      PROVE  Chosen'
    <2>1. CASE StartDaemon(g) \/ AwaitHealth(g) \/ RestoreDaemon(g)
        BY <2>1, <1>a DEF StartDaemon, AwaitHealth, RestoreDaemon
    <2>2. CASE SwapBack(g)
        <3>1. CASE wpc' = [wpc EXCEPT ![g] = "failed"] /\ UNCHANGED <<diskVars, attempt>>
            BY <3>1, <1>a
        <3>2. CASE wpc[g] = "undoing" /\ wpc' = [wpc EXCEPT ![g] = "restoring"]
            BY <3>2 DEF Chosen, Locked
        <3> QED
            BY <2>2, <3>1, <3>2 DEF SwapBack
    <2> QED
        BY <1>9, <2>1, <2>2
<1>10. ASSUME NEW g \in Guis,
             Undo(g)
      PROVE  Chosen'
    BY <1>10, <1>a DEF Undo
<1>11. ASSUME NEW g \in Guis,
             StartGui(g)
      PROVE  Chosen'
    BY <1>11, <1>a, <1>b DEF StartGui
<1>12. ASSUME NEW g \in Guis,
             RestoreGui(g)
      PROVE  Chosen'
    BY <1>12, <1>a, <1>b DEF RestoreGui
<1>13. ASSUME NEW g \in Guis,
             GiveUp(g)
      PROVE  Chosen'
    BY <1>13, <1>a, <1>b DEF GiveUp
<1>14. ASSUME NEW g \in Guis,
             WriteOutcome(g)
      PROVE  Chosen'
    <2>1. wpc' \in {[wpc EXCEPT ![g] = "tidy"], [wpc EXCEPT ![g] = "none"]}
        BY <1>14 DEF WriteOutcome
    <2> QED
        BY <1>14, <2>1, <1>a DEF WriteOutcome
<1>15. ASSUME NEW g \in Guis,
             \/ RemoveWorkspace(g) \/ WorkerCrash(g)
      PROVE  Chosen'
    BY <1>15, <1>a DEF RemoveWorkspace, WorkerCrash
<1>16. ASSUME NEW g \in Guis,
             \/ Ready(g) \/ StartupExits(g) \/ GuiCrash(g) \/ AskChanges(g)
      PROVE  Chosen'
    BY <1>16, <1>a DEF Ready, StartupExits, GuiCrash, AskChanges
<1>17. CASE Publish /\ InstallIdle
    BY <1>17, <1>a DEF Publish
<1>18. CASE UserStarts
    BY <1>18, <1>a, <1>b DEF UserStarts
<1> QED
    BY <1>1, <1>2, <1>3, <1>4, <1>5, <1>6, <1>7, <1>8, <1>9, <1>10, <1>11, <1>12,
       <1>13, <1>14, <1>15, <1>16, <1>17, <1>18
    DEF Next, Fetch, Prepare, Worker

-----------------------------------------------------------------------------
\* An update is under way from the check of the copy to the end of its worker.
Due(g) == gpc[g] \in {"copied", "staged", "spawned"} \/ WorkerAlive(g)

\* Before the exchange and after it was taken back the update is newer than what
\* is installed; in between it is what is installed.
Bundle(g) ==
    /\ Due(g) /\ wpc[g] \notin OnTrial \cup {"accepted", "tidy"} => Newer(Version(g))
    /\ wpc[g] \in OnTrial => target = Version(g) /\ Version(g) > candidate[g]
    /\ wpc[g] \in {"accepted", "tidy"} => target = Version(g)
Bundles == \A g \in Guis : Bundle(g)

\* One update is under way at a time.
LEMMA OneIsDue ==
    ASSUME Smooth, NEW f \in Guis, NEW g \in Guis, Due(f), Due(g)
    PROVE  f = g
<1>1. Workers
    BY DEF Smooth, Sequence, Workers
<1>2. CASE WorkerAlive(f) /\ WorkerAlive(g)
    BY <1>1, <1>2, OneIsAlive
<1>3. CASE ~(WorkerAlive(f) /\ WorkerAlive(g))
    BY <1>1, <1>3, WhoHolds DEF Due, Workers, Alone, Smooth, Locked, Preparing
<1> QED
    BY <1>2, <1>3

\* The exchange puts in what was newer, and taking it back restores what was there.
LEMMA BundlesStep ==
    ASSUME Smooth, Left, Chosen, Bundles, Next
    PROVE  Bundles'
<1> DEFINE Fixed(f) == candidate'[f] = candidate[f] /\ attempt'[f] = attempt[f]
           Side(w) == IF w \in OnTrial THEN 1
                      ELSE IF w \in {"accepted", "tidy"} THEN 2 ELSE 0
           Rests(f) == \/ gpc'[f] \notin {"copied", "staged", "spawned"} /\ wpc'[f] = "none"
                       \/ Due(f) /\ Fixed(f) /\ Side(wpc'[f]) = Side(wpc[f])
<1>a. ASSUME NEW f \in Guis, Rests(f), target' = target
      PROVE  Bundle(f)'
    BY <1>a DEF Bundles, Bundle, Due, Newer, Version, WorkerAlive, OnTrial
<1> HIDE DEF Rests
<1>b. ASSUME \A f \in Guis : Rests(f), target' = target
      PROVE  Bundles'
    BY <1>a, <1>b DEF Bundles
<1>c. ASSUME NEW g \in Guis, \A f \in Guis \ {g} : ~Due(f)', Bundle(g)'
      PROVE  Bundles'
    BY <1>c DEF Bundles, Bundle, Due, WorkerAlive, OnTrial
<1> USE FetchAssumption, WhoHolds
    DEF Rests, Smooth, Types, GuiTypes, DiskTypes, WorkerTypes, Goto, Back,
       WorkerGoto, WorkerGone,
        WorkerFrame, NoLaunch, InstallIdle, PrepareFails, Postpone, Drop, Proceed,
        End, guiVars, diskVars, Left, Past, Alive, Ended, Holding, Transacting, OnTrial,
        Due, WorkerAlive
<1>d. ASSUME NEW g \in Guis, NEW from \in {"locked", "copied", "staged", "spawned"}, Drop(g, from),
             target' = target, wpc' \in {wpc, [wpc EXCEPT ![g] = "none"]},
             from = "spawned" => wpc'[g] = "none"
      PROVE  Bundles'
    <2>1. wpc'[g] = "none" /\ gpc'[g] = "up"
        BY <1>d, SMTT(60) DEF Sequence, Owned
    <2>2. \A f \in Guis \ {g} : Fixed(f) /\ gpc'[f] = gpc[f] /\ wpc'[f] = wpc[f]
        BY <1>d
    <2>3. \A f \in Guis : Rests(f)
        BY <2>1, <2>2
    <2> QED
        BY <1>b, <1>d, <2>3
<1>e. ASSUME NEW h \in Guis, NEW job, Launch(h, job),
             \A f \in Guis : \/ wpc'[f] = wpc[f]
                             \/ WorkerAlive(f) /\ Side(wpc'[f]) = Side(wpc[f])
      PROVE  Bundles'
    <2>1. /\ ~WorkerAlive(h) /\ ~Alive(h) /\ gpc'[h] = "starting" /\ target' = target
          /\ \A f \in Guis \ {h} : Fixed(f) /\ gpc'[f] = gpc[f]
        BY <1>e DEF Launch, Startable
    <2>2. \A f \in Guis : Rests(f)
        <3> HIDE DEF Side
        <3> QED
            BY <1>e, <2>1
    <2> QED
        BY <1>b, <2>1, <2>2
<1>f. ASSUME NEW g \in Guis, Due(g), UNCHANGED gpc, \A f \in Guis \ {g} : wpc'[f] = wpc[f], Bundle(g)'
      PROVE  Bundles'
    <2>1. \A f \in Guis \ {g} : ~Due(f)
        <3> HIDE DEF Due, Smooth
        <3> QED
            BY <1>f, OneIsDue
    <2> QED
        BY <1>c, <1>f, <2>1
<1>1. ASSUME NEW g \in Guis,
             \/ Check(g) \/ BeginDownload(g) \/ CurlEnds(g) \/ HashDownload(g)
             \/ RenameDownload(g) \/ RequestInstall(g),
             InstallIdle
      PROVE  Bundles'
    BY <1>1, <1>b, SMTT(60) DEF Check, BeginDownload, CurlEnds, HashDownload,
       RenameDownload, RequestInstall
<1>2. ASSUME NEW g \in Guis,
             \/ TakeLock(g) \/ CheckActive(g) \/ Exit(g)
      PROVE  Bundles'
    BY <1>2, <1>b DEF TakeLock, CheckActive, Exit
<1>3. ASSUME NEW g \in Guis,
             Copy(g)
      PROVE  Bundles'
    <2>1. CASE Drop(g, "locked") /\ UNCHANGED <<wpc, target>>
        BY <2>1, <1>d
    <2>2. ASSUME Goto(g, "locked", "copied"), UNCHANGED <<wpc, target, attempt>>, Newer(Version(g))
          PROVE  Bundles'
        <3>1. \A f \in Guis : ~WorkerAlive(f)
            BY <2>2 DEF Sequence, Alone
        <3>2. ASSUME NEW f \in Guis, f # g
              PROVE  ~Due(f)'
            <4>1. gpc[f] \notin Preparing
                BY <2>2, <3>2 DEF Preparing
            <4>2. gpc'[f] = gpc[f] /\ wpc'[f] = "none"
                BY <2>2, <3>1, <3>2
            <4> QED
                BY <4>1, <4>2 DEF Preparing
        <3>3. Bundle(g)'
            BY <2>2, <3>1 DEF Bundle, Newer, Version
        <3> QED
            BY <1>c, <3>2, <3>3
    <2> QED
        BY <1>3, <2>1, <2>2 DEF Copy
<1>4. ASSUME NEW g \in Guis,
             VerifyCopy(g)
      PROVE  Bundles'
    <2>1. CASE Drop(g, "copied") /\ UNCHANGED <<wpc, target>>
        BY <2>1, <1>d
    <2>2. CASE Goto(g, "copied", "staged") /\ UNCHANGED <<wpc, target, attempt, candidate>>
        BY <2>2, <1>b
    <2> QED
        BY <1>4, <2>1, <2>2 DEF VerifyCopy
<1>5. ASSUME NEW g \in Guis,
             Spawn(g)
      PROVE  Bundles'
    <2>1. CASE Drop(g, "staged") /\ UNCHANGED <<wpc, target>>
        BY <2>1, <1>d
    <2>2. CASE /\ Goto(g, "staged", "spawned") /\ wpc' = [wpc EXCEPT ![g] = "new"]
               /\ UNCHANGED <<target, attempt, candidate>>
        <3>1. wpc[g] = "none"
            BY <2>2 DEF Sequence, Owned
        <3> QED
            BY <2>2, <3>1, <1>b
    <2> QED
        BY <1>5, <2>1, <2>2 DEF Spawn
<1>6. ASSUME NEW g \in Guis,
             HandOver(g)
      PROVE  Bundles'
    <2>1. CASE Drop(g, "spawned") /\ WorkerGone(g) /\ UNCHANGED target
        <3>1. wpc' = [wpc EXCEPT ![g] = "none"] /\ wpc'[g] = "none"
            BY <2>1
        <3> HIDE DEF Drop
        <3> QED
            BY <2>1, <3>1, <1>d
    <2>2. CASE Goto(g, "spawned", "leaving") /\ UNCHANGED <<wpc, target, attempt, candidate>>
        BY <2>2, <1>b
    <2> QED
        BY <1>6, <2>1, <2>2 DEF HandOver
<1>7. ASSUME NEW g \in Guis,
             WorkerNotReady(g)
      PROVE  Bundles'
    <2>1. wpc' = [wpc EXCEPT ![g] = "none"] /\ wpc'[g] = "none" /\ target' = target
        BY <1>7 DEF WorkerNotReady
    <2> HIDE DEF Drop
    <2>2. Drop(g, "spawned")
        BY <1>7 DEF WorkerNotReady
    <2> QED
        BY <2>1, <2>2, <1>d
<1>8. ASSUME NEW g \in Guis,
             WorkerStarts(g)
      PROVE  Bundles'
    BY <1>8, <1>b DEF WorkerStarts
<1>9. ASSUME NEW g \in Guis,
             \/ OldGuiEnded(g) \/ WorkerLock(g) \/ WorkerCheckActive(g)
             \/ WorkerVerify(g) \/ StopDaemon(g)
      PROVE  Bundles'
    BY <1>9, <1>b DEF OldGuiEnded, WorkerLock, WorkerCheckActive, WorkerVerify,
       StopDaemon
<1>10. ASSUME NEW g \in Guis,
             Swap(g)
      PROVE  Bundles'
    <2>1. CASE WorkerGoto(g, "swapping", "swapped") /\ Exchange(g)
        <3>1. candidate[g] = Version(g) /\ candidate[g] > target
            BY <2>1 DEF Chosen, Newer
        <3>2. target' = candidate[g] /\ candidate'[g] = target /\ Version(g)' = Version(g)
            BY <1>10, <2>1 DEF Exchange, Swap, Version
        <3>3. wpc'[g] = "swapped"
            BY <2>1
        <3>4. Bundle(g)'
            BY <3>1, <3>2, <3>3 DEF Bundle
        <3> QED
            BY <1>10, <1>f, <2>1, <3>4 DEF Swap
    <2>2. CASE WorkerGoto(g, "swapping", "restoring") /\ UNCHANGED diskVars
        BY <1>10, <1>b, <2>2 DEF Swap
    <2> QED
        BY <1>10, <2>1, <2>2 DEF Swap
<1>11. ASSUME NEW g \in Guis,
             \/ StartDaemon(g) \/ RestoreDaemon(g) \/ Undo(g)
      PROVE  Bundles'
    BY <1>11, <1>b DEF StartDaemon, RestoreDaemon, Undo
<1>12. ASSUME NEW g \in Guis,
             AwaitHealth(g)
      PROVE  Bundles'
    <2>1. CASE WorkerGoto(g, "awaiting", "accepted")
        <3>1. target' = Version(g)' /\ wpc'[g] = "accepted"
            BY <1>12, <2>1 DEF Bundles, Bundle, AwaitHealth, Version
        <3>2. Bundle(g)'
            BY <3>1 DEF Bundle
        <3> QED
            BY <1>12, <1>f, <2>1, <3>2 DEF AwaitHealth
    <2>2. CASE WorkerGoto(g, "awaiting", "undo")
        BY <1>12, <1>b, <2>2 DEF AwaitHealth
    <2> QED
        BY <1>12, <2>1, <2>2 DEF AwaitHealth
<1>13. ASSUME NEW g \in Guis,
             SwapBack(g)
      PROVE  Bundles'
    <2>1. WorkerGoto(g, "undoing", "restoring") /\ Exchange(g)
        BY <1>13 DEF SwapBack, Mishap
    <2>2. Version(g) > candidate[g] /\ target' = candidate[g] /\ Version(g)' = Version(g)
        BY <1>13, <2>1 DEF Bundles, Bundle, Exchange, SwapBack, Version
    <2>3. wpc'[g] = "restoring"
        BY <2>1
    <2>4. Bundle(g)'
        BY <2>2, <2>3 DEF Bundle, Newer
    <2> QED
        BY <1>13, <1>f, <2>1, <2>4 DEF SwapBack
<1>14. ASSUME NEW g \in Guis,
             StartGui(g)
      PROVE  Bundles'
    <2>1. CASE wpc' = [wpc EXCEPT ![g] = "undo"] /\ NoLaunch
        BY <1>14, <1>b, <2>1 DEF StartGui
    <2>2. ASSUME NEW h \in Guis, Launch(h, g), wpc[g] = "launching",
                 wpc' = [wpc EXCEPT ![g] = "awaiting"]
          PROVE  Bundles'
        BY <1>e, <2>2
    <2> QED
        BY <1>14, <2>1, <2>2 DEF StartGui
<1>15. ASSUME NEW g \in Guis,
             RestoreGui(g)
      PROVE  Bundles'
    <2>1. PICK h \in Guis : Launch(h, NoGui)
        BY <1>15 DEF RestoreGui, Mishap
    <2> QED
        BY <1>15, <1>e, <2>1 DEF RestoreGui
<1>16. ASSUME NEW g \in Guis,
             GiveUp(g)
      PROVE  Bundles'
    <2>1. CASE NoLaunch
        BY <1>16, <1>b, <2>1 DEF GiveUp
    <2>2. ASSUME NEW h \in Guis, Launch(h, NoGui)
          PROVE  Bundles'
        BY <1>16, <1>e, <2>2 DEF GiveUp
    <2> QED
        BY <1>16, <2>1, <2>2 DEF GiveUp
<1>17. ASSUME NEW g \in Guis,
             WriteOutcome(g)
      PROVE  Bundles'
    <2>1. ~Alive(g)
        BY <1>17 DEF WriteOutcome, Sequence, Owned
    <2>2. CASE WorkerGone(g)
        BY <1>17, <1>b, <2>1, <2>2 DEF WriteOutcome
    <2>3. CASE WorkerGoto(g, "accepted", "tidy")
        BY <1>17, <1>b, <2>3 DEF WriteOutcome
    <2> QED
        BY <1>17, <2>2, <2>3 DEF WriteOutcome
<1>18. ASSUME NEW g \in Guis,
             \/ RemoveWorkspace(g) \/ WorkerCrash(g)
      PROVE  Bundles'
    BY <1>18, <1>b, SMTT(60) DEF RemoveWorkspace, WorkerCrash
<1>19. ASSUME NEW g \in Guis,
             \/ Ready(g) \/ StartupExits(g) \/ GuiCrash(g) \/ AskChanges(g)
      PROVE  Bundles'
    BY <1>19, <1>b DEF Ready, StartupExits, GuiCrash, AskChanges
<1>20. CASE Publish /\ InstallIdle
    BY <1>20, <1>b DEF Publish
<1>21. CASE UserStarts
    BY <1>21, <1>e DEF UserStarts
<1> QED
    BY <1>1, <1>2, <1>3, <1>4, <1>5, <1>6, <1>7, <1>8, <1>9, <1>10, <1>11, <1>12,
       <1>13, <1>14, <1>15, <1>16, <1>17, <1>18, <1>19, <1>20, <1>21
    DEF Next, Fetch, Prepare, Worker

-----------------------------------------------------------------------------
\* While a worker has the daemon stopped it is not loaded; after that a daemon
\* that was loaded runs from what is installed.
Stopped == {"swapping", "swapped", "undoing", "restoring"}
Trying == {"launching", "awaiting", "undo"}
Loaded == Trying \cup {"reopening", "failed", "accepted", "tidy"}

\* A worker owes the daemon what it unloaded: from stopping it to loading it again
\* none runs, and what is loaded then was started from the installed bundle.
DaemonOf(g) ==
    /\ wpc[g] \notin Stopped \cup Loaded => ~owned[g]
    /\ wpc[g] \in Stopped => daemon = Unloaded
    /\ wpc[g] \in Loaded => (owned[g] => daemon = target)
    /\ wpc[g] \in Trying => (owned[g] \/ daemon = Unloaded)
Daemons ==
    /\ daemon \in {target, Unloaded}
    /\ \A g \in Guis : DaemonOf(g)

\* Stopping, loading and exchanging keep to that order, short of a mishap.
LEMMA DaemonsStep ==
    ASSUME Smooth, Daemons, Next
    PROVE  Daemons'
<1> DEFINE Side(w) == IF w \in Stopped THEN 1 ELSE IF w \in Trying THEN 2
                      ELSE IF w \in Loaded THEN 3 ELSE 0
<1>a. ASSUME UNCHANGED <<target, daemon, owned>>, \A f \in Guis : Side(wpc'[f]) = Side(wpc[f])
      PROVE  Daemons'
    BY <1>a DEF Daemons, DaemonOf, Stopped, Loaded, Trying
<1>b. ASSUME NEW g \in Guis, wpc'[g] = "none", owned'[g] = FALSE, UNCHANGED <<target, daemon>>,
             \A f \in Guis \ {g} : wpc'[f] = wpc[f] /\ owned'[f] = owned[f]
      PROVE  Daemons'
    <2>1. DaemonOf(g)'
        BY <1>b DEF DaemonOf, Stopped, Loaded, Trying
    <2>2. \A f \in Guis \ {g} : DaemonOf(f)'
        BY <1>b DEF Daemons, DaemonOf
    <2> QED
        BY <1>b, <2>1, <2>2 DEF Daemons
<1>c. ASSUME NEW g \in Guis, WorkerAlive(g), daemon' \in {target', Unloaded}, DaemonOf(g)',
             \A f \in Guis \ {g} : wpc'[f] = wpc[f] /\ owned'[f] = owned[f]
      PROVE  Daemons'
    <2>1. ASSUME NEW f \in Guis, f # g
          PROVE  wpc[f] = "none"
        BY <1>c, <2>1, OneIsDue DEF Due, WorkerAlive
    <2>2. \A f \in Guis \ {g} : DaemonOf(f)'
        BY <1>c, <2>1 DEF Daemons, DaemonOf, Stopped, Loaded, Trying
    <2> QED
        BY <1>c, <2>2 DEF Daemons
<1> USE DEF Smooth, Types, WorkerTypes, WorkerGoto, WorkerGone, WorkerFrame, NoLaunch, InstallIdle,
            WorkerAlive, Stopped, Trying, Loaded, diskVars, jobVars
<1>1. ASSUME NEW g \in Guis,
             \/ Check(g) \/ BeginDownload(g) \/ CurlEnds(g) \/ HashDownload(g)
             \/ RenameDownload(g) \/ RequestInstall(g),
             InstallIdle
      PROVE  Daemons'
    BY <1>1, <1>a DEF Check, BeginDownload, CurlEnds, HashDownload, RenameDownload,
       RequestInstall
<1>2. ASSUME NEW g \in Guis,
             \/ TakeLock(g) \/ CheckActive(g) \/ Exit(g) \/ Copy(g) \/ VerifyCopy(g)
      PROVE  Daemons'
    BY <1>2, <1>a DEF TakeLock, CheckActive, Exit, Copy, VerifyCopy
<1>3. ASSUME NEW g \in Guis,
             Spawn(g)
      PROVE  Daemons'
    <2>1. CASE UNCHANGED wpc
        BY <1>3, <1>a, <2>1 DEF Spawn
    <2>2. CASE wpc' = [wpc EXCEPT ![g] = "new"] /\ Goto(g, "staged", "spawned")
        <3>1. wpc[g] = "none"
            BY <2>2 DEF Sequence, Owned, Goto, Ended
        <3> QED
            BY <1>3, <1>a, <2>2, <3>1 DEF Spawn
    <2> QED
        BY <1>3, <2>1, <2>2 DEF Spawn
<1>4. ASSUME NEW g \in Guis,
             HandOver(g)
      PROVE  Daemons'
    <2>1. CASE WorkerGone(g)
        BY <1>4, <1>b, <2>1 DEF HandOver
    <2>2. CASE UNCHANGED <<wpc, jobVars>>
        BY <1>4, <1>a, <2>2 DEF HandOver
    <2> QED
        BY <1>4, <2>1, <2>2 DEF HandOver
<1>5. ASSUME NEW g \in Guis,
             WorkerNotReady(g)
      PROVE  Daemons'
    BY <1>5, <1>b DEF WorkerNotReady
<1>6. ASSUME NEW g \in Guis,
             WorkerStarts(g)
      PROVE  Daemons'
    <2>1. CASE WorkerGone(g)
        BY <1>6, <1>b, <2>1 DEF WorkerStarts
    <2>2. CASE WorkerGoto(g, "new", "waiting") /\ UNCHANGED owned
        BY <1>6, <1>a, <2>2 DEF WorkerStarts
    <2> QED
        BY <1>6, <2>1, <2>2 DEF WorkerStarts
<1>7. ASSUME NEW g \in Guis,
             \/ OldGuiEnded(g) \/ WorkerLock(g) \/ WorkerCheckActive(g)
             \/ WorkerVerify(g)
      PROVE  Daemons'
    BY <1>7, <1>a DEF OldGuiEnded, WorkerLock, WorkerCheckActive, WorkerVerify
<1>8. ASSUME NEW g \in Guis,
             StopDaemon(g)
      PROVE  Daemons'
    <2>1. wpc[g] = "verified" /\ wpc'[g] = "swapping" /\ daemon' = Unloaded /\ target' = target
        BY <1>8 DEF StopDaemon, Mishap
    <2>2. DaemonOf(g)'
        BY <2>1 DEF DaemonOf
    <2>3. \A f \in Guis \ {g} : wpc'[f] = wpc[f] /\ owned'[f] = owned[f]
        BY <1>8 DEF StopDaemon
    <2> QED
        BY <1>c, <2>1, <2>2, <2>3
<1>9. ASSUME NEW g \in Guis,
             Swap(g)
      PROVE  Daemons'
    <2>1. /\ wpc[g] = "swapping" /\ wpc'[g] \in {"swapped", "restoring"}
          /\ UNCHANGED <<owned, daemon>> /\ daemon = Unloaded
        BY <1>9 DEF Swap, Daemons, DaemonOf
    <2>2. DaemonOf(g)'
        BY <2>1 DEF DaemonOf
    <2>3. \A f \in Guis \ {g} : wpc'[f] = wpc[f] /\ owned'[f] = owned[f]
        BY <1>9 DEF Swap
    <2> QED
        BY <1>c, <2>1, <2>2, <2>3
<1>10. ASSUME NEW g \in Guis,
             StartDaemon(g)
      PROVE  Daemons'
    <2>1. /\ wpc[g] = "swapped" /\ wpc'[g] = "launching" /\ UNCHANGED <<owned, target>>
          /\ daemon = Unloaded /\ LoadDaemon(g)
        BY <1>10 DEF StartDaemon, Daemons, DaemonOf, Mishap
    <2>2. daemon' \in {target', Unloaded} /\ DaemonOf(g)'
        BY <2>1 DEF DaemonOf, LoadDaemon
    <2>3. \A f \in Guis \ {g} : wpc'[f] = wpc[f] /\ owned'[f] = owned[f]
        BY <1>10 DEF StartDaemon
    <2> QED
        BY <1>c, <2>1, <2>2, <2>3
<1>11. ASSUME NEW g \in Guis,
             StartGui(g)
      PROVE  Daemons'
    BY <1>11, <1>a DEF StartGui, Launch
<1>12. ASSUME NEW g \in Guis,
             AwaitHealth(g)
      PROVE  Daemons'
    <2>1. CASE WorkerGoto(g, "awaiting", "undo")
        BY <1>12, <1>a, <2>1 DEF AwaitHealth
    <2>2. CASE WorkerGoto(g, "awaiting", "accepted")
        <3>1. wpc'[g] = "accepted" /\ UNCHANGED <<owned, daemon, target>>
              /\ (owned[g] => daemon = target)
            BY <1>12, <2>2 DEF AwaitHealth, Daemons, DaemonOf
        <3>2. DaemonOf(g)' /\ daemon' \in {target', Unloaded}
            BY <3>1 DEF DaemonOf, Daemons
        <3> QED
            BY <1>12, <1>c, <2>2, <3>2 DEF AwaitHealth
    <2> QED
        BY <1>12, <2>1, <2>2 DEF AwaitHealth
<1>13. ASSUME NEW g \in Guis,
             Undo(g)
      PROVE  Daemons'
    <2>1. wpc[g] = "undo" /\ wpc'[g] = "undoing" /\ UNCHANGED <<owned, target>>
          /\ daemon' = Unloaded
        BY <1>13 DEF Undo, Daemons, DaemonOf, Mishap
    <2>2. DaemonOf(g)'
        BY <2>1 DEF DaemonOf
    <2> QED
        BY <1>13, <1>c, <2>1, <2>2 DEF Undo
<1>14. ASSUME NEW g \in Guis,
             SwapBack(g)
      PROVE  Daemons'
    <2>1. /\ wpc[g] = "undoing" /\ wpc'[g] \in {"swapped", "restoring"}
          /\ UNCHANGED <<owned, daemon>> /\ daemon = Unloaded
        BY <1>14 DEF SwapBack, Daemons, DaemonOf, Mishap
    <2>2. DaemonOf(g)'
        BY <2>1 DEF DaemonOf
    <2>3. \A f \in Guis \ {g} : wpc'[f] = wpc[f] /\ owned'[f] = owned[f]
        BY <1>14 DEF SwapBack
    <2> QED
        BY <1>c, <2>1, <2>2, <2>3
<1>15. ASSUME NEW g \in Guis,
             RestoreDaemon(g)
      PROVE  Daemons'
    <2>1. wpc[g] = "restoring" /\ wpc'[g] = "reopening" /\ UNCHANGED <<owned, target>>
          /\ daemon = Unloaded /\ LoadDaemon(g)
        BY <1>15 DEF RestoreDaemon, Daemons, DaemonOf, Mishap
    <2>2. DaemonOf(g)' /\ daemon' \in {target', Unloaded}
        BY <2>1 DEF DaemonOf, LoadDaemon
    <2> QED
        BY <1>15, <1>c, <2>1, <2>2 DEF RestoreDaemon
<1>16. ASSUME NEW g \in Guis,
             RestoreGui(g)
      PROVE  Daemons'
    BY <1>16, <1>a DEF RestoreGui, Launch
<1>17. ASSUME NEW g \in Guis,
             GiveUp(g)
      PROVE  Daemons'
    <2>1. /\ wpc[g] = "giveup" /\ wpc'[g] = "failed" /\ UNCHANGED <<owned, target, daemon>>
          /\ ~owned[g]
        BY <1>17 DEF GiveUp, Daemons, DaemonOf, Launch
    <2>2. DaemonOf(g)' /\ daemon' \in {target', Unloaded}
        BY <2>1 DEF DaemonOf, Daemons
    <2> QED
        BY <1>17, <1>c, <2>1, <2>2 DEF GiveUp
<1>18. ASSUME NEW g \in Guis,
             WriteOutcome(g)
      PROVE  Daemons'
    <2>1. CASE WorkerGone(g)
        BY <1>18, <1>b, <2>1 DEF WriteOutcome
    <2>2. CASE WorkerGoto(g, "accepted", "tidy") /\ UNCHANGED jobVars
        BY <1>18, <1>a, <2>2 DEF WriteOutcome
    <2> QED
        BY <1>18, <2>1, <2>2 DEF WriteOutcome
<1>19. ASSUME NEW g \in Guis,
             \/ RemoveWorkspace(g) \/ WorkerCrash(g)
      PROVE  Daemons'
    BY <1>19, <1>b DEF RemoveWorkspace, WorkerCrash, Mishap
<1>20. ASSUME NEW g \in Guis,
             \/ Ready(g) \/ StartupExits(g) \/ GuiCrash(g) \/ AskChanges(g)
      PROVE  Daemons'
    BY <1>20, <1>a DEF Ready, StartupExits, GuiCrash, AskChanges
<1>21. CASE Publish /\ InstallIdle
    BY <1>21, <1>a DEF Publish
<1>22. CASE UserStarts
    BY <1>22, <1>a DEF UserStarts, Launch
<1> QED
    BY <1>1, <1>2, <1>3, <1>4, <1>5, <1>6, <1>7, <1>8, <1>9, <1>10, <1>11, <1>12,
       <1>13, <1>14, <1>15, <1>16, <1>17, <1>18, <1>19, <1>20, <1>21, <1>22
    DEF Next, Fetch, Prepare, Worker

-----------------------------------------------------------------------------
\* Nothing else ends a worker that has accepted or failed.
LEMMA OutcomeIsWritten ==
    ASSUME Smooth, NEW w \in Guis, Reports(w), Next
    PROVE  WriteOutcome(w)
<1>1. wpc[w] \in {"accepted", "failed"} /\ wpc'[w] # wpc[w] /\ wpc \in [Guis -> WorkerStates]
    BY DEF Reports, Smooth, Types, WorkerTypes
<1>2. gpc[w] \notin {"staged", "spawned"}
    BY <1>1, WorksAfterEnd DEF Alive, Ended
<1>3. SUFFICES ASSUME ~WriteOutcome(w), wpc' # wpc
               PROVE  FALSE
    BY <1>1
<1> USE <1>1, <1>3 DEF WorkerGoto, WorkerGone, WorkerFrame, InstallIdle
<1>4. ASSUME NEW g \in Guis,
             \/ Check(g) \/ BeginDownload(g) \/ CurlEnds(g) \/ HashDownload(g)
             \/ RenameDownload(g) \/ RequestInstall(g),
             InstallIdle
      PROVE  FALSE
    BY <1>4 DEF Check, BeginDownload, CurlEnds, HashDownload, RenameDownload,
       RequestInstall
<1>5. ASSUME NEW g \in Guis,
             \/ TakeLock(g) \/ CheckActive(g) \/ Exit(g) \/ Copy(g) \/ VerifyCopy(g)
      PROVE  FALSE
    BY <1>5 DEF TakeLock, CheckActive, Exit, Copy, VerifyCopy
<1>6. ASSUME NEW g \in Guis,
             Spawn(g)
      PROVE  FALSE
    BY <1>6, <1>2 DEF Spawn, Goto
<1>7. ASSUME NEW g \in Guis,
             HandOver(g)
      PROVE  FALSE
    BY <1>7, <1>2 DEF HandOver, Drop, Back, Goto, PrepareFails, Postpone
<1>8. ASSUME NEW g \in Guis,
             WorkerNotReady(g)
      PROVE  FALSE
    BY <1>8, <1>2 DEF WorkerNotReady, Drop, Back, Goto, PrepareFails
<1>9. ASSUME NEW g \in Guis,
             \/ WorkerStarts(g) \/ OldGuiEnded(g) \/ WorkerLock(g)
             \/ WorkerCheckActive(g) \/ WorkerVerify(g)
      PROVE  FALSE
    BY <1>9 DEF WorkerStarts, OldGuiEnded, WorkerLock, WorkerCheckActive, WorkerVerify
<1>10. ASSUME NEW g \in Guis,
             \/ StopDaemon(g) \/ Swap(g) \/ StartDaemon(g) \/ StartGui(g)
             \/ AwaitHealth(g)
      PROVE  FALSE
    BY <1>10 DEF StopDaemon, Swap, StartDaemon, StartGui, AwaitHealth
<1>11. ASSUME NEW g \in Guis,
             \/ Undo(g) \/ SwapBack(g) \/ RestoreDaemon(g) \/ RestoreGui(g) \/ GiveUp(g)
      PROVE  FALSE
    BY <1>11 DEF Undo, SwapBack, RestoreDaemon, RestoreGui, GiveUp
<1>12. ASSUME NEW g \in Guis,
             WriteOutcome(g)
      PROVE  FALSE
    BY <1>12, ZenonT(60) DEF WriteOutcome
<1>13. ASSUME NEW g \in Guis,
             \/ RemoveWorkspace(g) \/ WorkerCrash(g)
      PROVE  FALSE
    BY <1>13 DEF RemoveWorkspace, WorkerCrash, Mishap, Smooth
<1>14. ASSUME NEW g \in Guis,
             \/ Ready(g) \/ StartupExits(g) \/ GuiCrash(g) \/ AskChanges(g)
      PROVE  FALSE
    BY <1>14 DEF Ready, StartupExits, GuiCrash, AskChanges
<1>15. CASE Publish /\ InstallIdle
    BY <1>15 DEF Publish
<1>16. CASE UserStarts
    BY <1>16 DEF UserStarts
<1> QED
    BY <1>4, <1>5, <1>6, <1>7, <1>8, <1>9, <1>10, <1>11, <1>12, <1>13, <1>14, <1>15,
       <1>16
    DEF Next, Fetch, Prepare, Worker

-----------------------------------------------------------------------------
\* What the report of an update and the promise of Installation rest on.
Trial == Left /\ Chosen /\ Unreported /\ HasChild
Fate == Order /\ Trial /\ (mishap \/ (Bundles /\ Daemons))

\* No update is under way at first.
LEMMA FateAtFirst == Init => Fate
<1> SUFFICES ASSUME Init
             PROVE  Fate
    OBVIOUS
<1>1. \A g \in Guis : wpc[g] = "none" /\ health[g] = NoGui /\ bornOf[g] = NoGui /\ ~owned[g]
    BY DEF Init
<1>2. Trial
    BY <1>1, FetchAssumption DEF Trial, Left, Chosen, Unreported, HasChild,
       WorkerAlive, Past, Holding,
       Transacting, OnTrial
<1>3. \A g \in Guis : gpc[g] \in {"up", "new"}
    BY DEF Init
<1>4. Bundles
    BY <1>1, <1>3 DEF Bundles, Bundle, Due, WorkerAlive, OnTrial
<1>5. Daemons
    BY <1>1 DEF Daemons, DaemonOf, Stopped, Loaded, Trying, Init
<1> QED
    BY <1>2, <1>4, <1>5, OrderAtFirst DEF Fate

\* The order of the steps holds, unless a mishap has undone it.
LEMMA OrderIsSmooth ==
    ASSUME Order, Next, ~mishap'
    PROVE  Smooth
BY MishapStays, TypesAreTypeOK DEF Smooth, Order

\* Every step keeps it.
LEMMA FateStep ==
    ASSUME Fate, [Next]_vars
    PROVE  Fate'
<1>1. CASE UNCHANGED vars
    <2> USE <1>1 DEF vars, guiVars, fetchVars, diskVars, jobVars, lockVars, failVars,
                     faultVars
    <2>1. Order'
        BY OrderStep DEF Fate
    <2>2. Trial'
        BY DEF Fate, Trial, Left, Chosen, Unreported, HasChild, WorkerAlive, Alive,
           Newer, Version
    <2>3. Bundles /\ Daemons => Bundles' /\ Daemons'
        BY DEF Bundles, Bundle, Due, WorkerAlive, Newer, Version, Daemons, DaemonOf
    <2> QED
        BY <2>1, <2>2, <2>3 DEF Fate
<1>2. CASE Next
    <2>1. Order'
        BY OrderStep DEF Fate
    <2>2. Types /\ Locked
        BY TypesAreTypeOK DEF Fate, Order
    <2>3. Trial'
        BY <1>2, <2>2, LeftStep, ChosenStep, UnreportedStep, HasChildStep DEF Fate,
           Trial, Types
    <2>4. ASSUME ~mishap'
          PROVE  Bundles' /\ Daemons'
        <3>1. Smooth /\ ~mishap
            BY <1>2, <2>4, OrderIsSmooth DEF Fate, Smooth
        <3> QED
            BY <1>2, <3>1, BundlesStep, DaemonsStep DEF Fate, Trial
    <2> QED
        BY <2>1, <2>3, <2>4 DEF Fate
<1> QED
    BY <1>1, <1>2

\* Hence it holds throughout.
LEMMA FateAlways == Spec => []Fate
BY FateAtFirst, FateStep, PTL DEF Spec

\* outcome.json: a worker that reports without a mishap tells what is installed,
\* and a daemon that it stopped runs again, from what is installed.
THEOREM ReportsAreTrue == Spec => OutcomeIsTrue
<1>1. ASSUME Fate, [Next]_vars
      PROVE  [\A g \in Guis :
                Reports(g) /\ ~mishap' =>
                    /\ target = Version(g) <=> ~outcome'.failed
                    /\ owned[g] => daemon = target]_vars
    <2> SUFFICES ASSUME Next, NEW g \in Guis, Reports(g), ~mishap'
                 PROVE  /\ target = Version(g) <=> ~outcome'.failed
                        /\ owned[g] => daemon = target
        BY <1>1
    <2>1. Smooth
        BY <1>1, OrderIsSmooth DEF Fate
    <2>2. WriteOutcome(g)
        BY <2>1, OutcomeIsWritten
    <2>3. Bundle(g) /\ DaemonOf(g) /\ Types
        BY <1>1, <2>1 DEF Fate, Smooth, Bundles, Daemons
    <2>4. wpc[g] \in {"accepted", "failed"}
        BY DEF Reports
    <2>5. owned[g] => daemon = target
        BY <2>3, <2>4 DEF DaemonOf, Stopped, Loaded, Trying
    <2>6. CASE wpc[g] = "accepted"
        <3>1. target = Version(g)
            BY <2>3, <2>6 DEF Bundle
        <3>2. ~outcome'.failed
            BY <2>2, <2>6 DEF WriteOutcome, Record, Mishap
        <3> QED
            BY <2>5, <3>1, <3>2
    <2>7. CASE wpc[g] = "failed"
        <3>1. Version(g) > target
            BY <2>3, <2>7 DEF Bundle, Due, WorkerAlive, OnTrial, Newer
        <3>2. outcome'.failed
            BY <2>2, <2>7 DEF WriteOutcome, WorkerGoto, Record, Mishap
        <3>3. target \in Versions \cup {0} /\ Version(g) \in Versions
            BY <2>3 DEF Types, DiskTypes, GuiTypes, Version
        <3>4. target \in Int /\ Version(g) \in Int
            <4>1. \A v \in Versions \cup {0} : v \in Int
                BY FetchAssumption
            <4> QED
                BY <3>3, <4>1
        <3> QED
            BY <2>5, <3>1, <3>2, <3>4
    <2> QED
        BY <2>4, <2>6, <2>7
<1> QED
    BY <1>1, FateAlways, PTL DEF Spec, OutcomeIsTrue

-----------------------------------------------------------------------------
(* What is kept of the installation.                                       *)

\* The state of Installation that Updater's refinement mapping gives, and its step.
Replaced == IF Trials = {} THEN 0 ELSE candidate[CHOOSE g \in Trials : TRUE]
Confirmed == \E g \in Trials : health[g] # NoGui
Keeps == [Contract!Next]_<<target, Replaced, Confirmed, Kept>>

\* A process that does not run and whose job nobody works on.
Behind(f) == ~Alive(f) /\ wpc[f] \in {"none", "failed"}

\* What is kept, element by element.
LEMMA KeptIs ==
    \A x : x \in Kept <=> /\ x # 0
                          /\ x \in retained \/ \E f \in Guis : Behind(f) /\ candidate[f] = x
BY DEF Kept, LeftBehind, Behind

\* The choice of the one trial there is.
LEMMA OnlyOne == ASSUME NEW g PROVE (CHOOSE x \in {g} : TRUE) = g
OBVIOUS

\* While a worker holds the lock the trial is its own, if there is one.
LEMMA TrialIsOwn ==
    ASSUME Locked, NEW g \in Guis, wpc[g] \in Holding
    PROVE  /\ wpc[g] \notin OnTrial => Trials = {} /\ Replaced = 0 /\ ~Confirmed
           /\ wpc[g] \in OnTrial => /\ Trials = {g} /\ Replaced = candidate[g]
                                    /\ Confirmed <=> health[g] # NoGui
<1>1. \A f \in Trials : f = g
    BY WhoHolds DEF Trials, Holding, Transacting
<1>2. g \in Trials <=> wpc[g] \in OnTrial
    BY DEF Trials
<1>3. CASE wpc[g] \notin OnTrial
    BY <1>1, <1>2, <1>3 DEF Replaced, Confirmed
<1>4. CASE wpc[g] \in OnTrial
    <2>1. Trials = {g}
        BY <1>1, <1>2, <1>4
    <2> QED
        BY <1>4, <2>1, OnlyOne DEF Replaced, Confirmed
<1> QED
    BY <1>3, <1>4

\* A step that leaves what is installed and what is on trial alone may leave one
\* more version behind.
LEMMA QuietKeeps ==
    ASSUME target' = target, NEW v \in Versions \cup {0},
           Kept' \in {Kept, (Kept \cup {v}) \ {0}},
           \A f \in Guis : /\ wpc'[f] \in OnTrial <=> wpc[f] \in OnTrial
                           /\ wpc[f] \in OnTrial =>
                                  candidate'[f] = candidate[f] /\ health'[f] = health[f]
    PROVE  Keeps
<1>1. Trials' = Trials /\ \A g \in Trials : g \in Guis /\ wpc[g] \in OnTrial
    BY DEF Trials
<1>2. Replaced' = Replaced
    <2>1. CASE Trials = {}
        BY <1>1, <2>1 DEF Replaced
    <2>2. CASE Trials # {}
        <3>1. (CHOOSE g \in Trials : TRUE) \in Trials
            BY <2>2
        <3> QED
            BY <1>1, <2>2, <3>1 DEF Replaced
    <2> QED
        BY <2>1, <2>2
<1>3. Confirmed' <=> Confirmed
    BY <1>1 DEF Confirmed
<1>4. Confirmed \in BOOLEAN
    BY DEF Confirmed
<1>5. Confirmed' = Confirmed
    BY <1>3, <1>4, Zenon DEF Confirmed
<1>6. CASE Kept' = Kept
    BY <1>2, <1>5, <1>6 DEF Keeps
<1>7. CASE Kept' # Kept
    <2>1. 0 \notin Kept
        BY KeptIs
    <2>2. v \in Versions /\ Kept' = Kept \cup {v}
        BY <1>7, <2>1, FetchAssumption
    <2> QED
        BY <1>2, <1>5, <2>2 DEF Keeps, Contract!Next, Contract!Retain, Replaced,
           Confirmed
<1> QED
    BY <1>6, <1>7

\* One process changes, and does not come back.
LEMMA PlainKept ==
    ASSUME NEW g \in Guis, retained' = retained,
           \A f \in Guis \ {g} : (Behind(f)' <=> Behind(f)) /\ candidate'[f] = candidate[f],
           Behind(g) => Behind(g)' /\ candidate'[g] = candidate[g]
    PROVE  Kept' \in {Kept, (Kept \cup {candidate'[g]}) \ {0}}
<1>1. \A x : x \in Kept' <=> /\ x # 0
                             /\ \/ x \in retained'
                                \/ \E f \in Guis : Behind(f)' /\ candidate'[f] = x
    BY DEF Kept, LeftBehind, Behind
<1>2. CASE Behind(g)'
    <2>1. \A x : x \in Kept' <=> x \in (Kept \cup {candidate'[g]}) \ {0}
        BY <1>1, <1>2, KeptIs
    <2> QED
        BY <2>1
<1>3. CASE ~Behind(g)'
    <2>1. \A x : x \in Kept' <=> x \in Kept
        BY <1>1, <1>3, KeptIs
    <2> QED
        BY <2>1
<1> QED
    BY <1>2, <1>3

\* Nobody leaves anything behind.
LEMMA SameKept ==
    ASSUME NEW g \in Guis, retained' = retained, ~Behind(g), ~Behind(g)',
           \A f \in Guis \ {g} : Behind(f)' <=> Behind(f),
           \A f \in Guis \ {g} : candidate'[f] = candidate[f]
    PROVE  Kept' = Kept
<1>1. \A x : x \in Kept' <=> /\ x # 0
                             /\ \/ x \in retained'
                                \/ \E f \in Guis : Behind(f)' /\ candidate'[f] = x
    BY DEF Kept, LeftBehind, Behind
<1>2. \A x : x \in Kept' <=> x \in Kept
    BY <1>1, KeptIs
<1> QED
    BY <1>2

\* A process starts under an old number, and what that left is retained.
LEMMA LaunchKept ==
    ASSUME GuiTypes, DiskTypes, NEW h \in Guis, NEW job, Launch(h, job), NEW g \in Guis,
           wpc'[h] = wpc[h],
           \A f \in Guis \ {g, h} : Behind(f)' <=> Behind(f),
           g # h /\ Behind(g) => Behind(g)'
    PROVE  Kept' \in {Kept, (Kept \cup {candidate[g]}) \ {0}}
<1>1. \A x : x \in Kept' <=> /\ x # 0
                             /\ \/ x \in retained'
                                \/ \E f \in Guis : Behind(f)' /\ candidate'[f] = x
    BY DEF Kept, LeftBehind, Behind
<1>2. /\ Behind(h) /\ ~Behind(h)'
      /\ \A f \in Guis \ {h} : candidate'[f] = candidate[f]
      /\ \A x : x \in retained' <=> x # 0 /\ (x \in retained \/ x = candidate[h])
    BY DEF Launch, Startable, WorkerAlive, Behind, Alive, Ended, GuiTypes, DiskTypes
<1>3. CASE g # h /\ Behind(g)'
    <2>1. \A x : x \in Kept' <=> x \in (Kept \cup {candidate[g]}) \ {0}
        BY <1>1, <1>2, <1>3, KeptIs
    <2> QED
        BY <2>1
<1>4. CASE ~(g # h /\ Behind(g)')
    <2>1. \A x : x \in Kept' <=> x \in Kept
        BY <1>1, <1>2, <1>4, KeptIs
    <2> QED
        BY <2>1
<1> QED
    BY <1>3, <1>4

\* Every step of the updater is one of Installation, or leaves it as it was.
LEMMA KeepsStep ==
    ASSUME Types, Types', Locked, Locked', Untouched, Trial, Next
    PROVE  Keeps
<1> DEFINE OnTrialAsBefore(f) ==
               /\ wpc'[f] \in OnTrial <=> wpc[f] \in OnTrial
               /\ wpc[f] \in OnTrial => candidate'[f] = candidate[f] /\ health'[f] = health[f]
           Still(f) == /\ Behind(f)' <=> Behind(f)
                       /\ candidate'[f] = candidate[f] /\ health'[f] = health[f]
                       /\ wpc'[f] \in OnTrial <=> wpc[f] \in OnTrial
           Leaves(f) == Behind(f) => Behind(f)' /\ candidate'[f] = candidate[f]
<1>q. ASSUME NEW g \in Guis, UNCHANGED <<target, retained>>, \A f \in Guis \ {g} : Still(f),
             OnTrialAsBefore(g), Leaves(g)
      PROVE  Keeps
    <2>1. Kept' \in {Kept, (Kept \cup {candidate'[g]}) \ {0}}
        BY <1>q, PlainKept
    <2>2. candidate'[g] \in Versions \cup {0}
        BY DEF Types, DiskTypes
    <2>3. \A f \in Guis : OnTrialAsBefore(f)
        BY <1>q
    <2> HIDE DEF OnTrialAsBefore
    <2> QED
        BY <1>q, <2>1, <2>2, <2>3, QuietKeeps DEF OnTrialAsBefore
<1>l. ASSUME NEW h \in Guis, NEW job, Launch(h, job), NEW g \in Guis, UNCHANGED health,
             \A f \in Guis \ {g} : wpc'[f] = wpc[f],
             wpc'[h] = wpc[h],
             wpc'[g] \in OnTrial <=> wpc[g] \in OnTrial,
             g # h /\ Behind(g) => wpc'[g] \in {"none", "failed"}
      PROVE  Keeps
    <2>1. /\ \A f \in Guis \ {h} : candidate'[f] = candidate[f] /\ gpc'[f] = gpc[f]
          /\ wpc[h] = "none" /\ target' = target
        BY <1>l DEF Launch, Startable, WorkerAlive, Types, GuiTypes, DiskTypes
    <2>2. /\ \A f \in Guis \ {g, h} : Behind(f)' <=> Behind(f)
          /\ g # h /\ Behind(g) => Behind(g)'
        BY <1>l, <2>1 DEF Behind, Alive
    <2>3. Kept' \in {Kept, (Kept \cup {candidate[g]}) \ {0}}
        BY <1>l, <2>2, LaunchKept DEF Types
    <2>4. candidate[g] \in Versions \cup {0}
        BY DEF Types, DiskTypes
    <2>5. \A f \in Guis : OnTrialAsBefore(f)
        BY <1>l, <2>1 DEF OnTrial
    <2> QED
        BY <2>1, <2>3, <2>4, <2>5, QuietKeeps
<1> HIDE DEF OnTrialAsBefore, Still, Leaves
<1>g. ASSUME NEW g \in Guis, NEW from \in {"locked", "copied", "staged", "spawned"}, Drop(g, from),
             UNCHANGED <<target, retained>>,
             UNCHANGED <<wpc, health>> \/ WorkerGone(g)
      PROVE  Keeps
    <2>1. ~Behind(g) /\ wpc[g] \notin OnTrial
        BY <1>g DEF Drop, Back, Goto, Behind, Alive, Ended, Locked, Preparing,
           Holding, Transacting, Types, GuiTypes
    <2>2. wpc'[g] \notin OnTrial
        BY <1>g, <2>1 DEF WorkerGone, OnTrial, Types, WorkerTypes
    <2>3. \A f \in Guis \ {g} : Still(f)
        BY <1>g DEF Still, Drop, Back, Goto, WorkerGone, Behind, Alive, Types,
           WorkerTypes, GuiTypes, DiskTypes
    <2> QED
        BY <1>g, <1>q, <2>1, <2>2, <2>3 DEF OnTrialAsBefore, Leaves
<1> USE DEF Types, GuiTypes, DiskTypes, WorkerTypes
<1>w. ASSUME NEW g \in Guis, NEW to \in WorkerStates, wpc' = [wpc EXCEPT ![g] = to],
             wpc[g] \notin {"none", "failed"}, to \in OnTrial <=> wpc[g] \in OnTrial,
             UNCHANGED <<guiVars, diskVars, health>>
      PROVE  Keeps
    <2>1. \A f \in Guis \ {g} : Still(f)
        BY <1>w DEF Still, Behind, Alive, guiVars, diskVars
    <2>2. OnTrialAsBefore(g) /\ Leaves(g)
        BY <1>w DEF OnTrialAsBefore, Leaves, Behind, guiVars, diskVars
    <2> QED
        BY <1>w, <1>q, <2>1, <2>2 DEF diskVars
<1>1. ASSUME NEW g \in Guis,
             \/ Check(g) \/ BeginDownload(g) \/ CurlEnds(g) \/ HashDownload(g)
             \/ RenameDownload(g) \/ RequestInstall(g),
             InstallIdle
      PROVE  Keeps
    <2>1. /\ \A f \in Guis : Alive(f)' <=> Alive(f)
          /\ UNCHANGED <<target, candidate, retained, wpc, health>>
        BY <1>1 DEF Check, BeginDownload, CurlEnds, HashDownload, RenameDownload,
           RequestInstall,
           Goto, Back, InstallIdle, diskVars, jobVars, Alive, Ended
    <2> QED
        BY <1>q, <2>1 DEF Still, OnTrialAsBefore, Leaves, Behind
<1>2. ASSUME NEW g \in Guis,
             \/ TakeLock(g) \/ CheckActive(g) \/ Exit(g)
      PROVE  Keeps
    <2>1. /\ \A f \in Guis \ {g} : Alive(f)' <=> Alive(f)
          /\ Alive(g) /\ UNCHANGED <<target, candidate, retained, wpc, health>>
        BY <1>2 DEF TakeLock, CheckActive, Exit, Goto, Back, diskVars, jobVars, Alive,
           Ended
    <2> QED
        BY <1>q, <2>1 DEF Still, OnTrialAsBefore, Leaves, Behind
<1>3. ASSUME NEW g \in Guis,
             Copy(g)
      PROVE  Keeps
    <2>1. CASE Drop(g, "locked")
        BY <1>3, <1>g, <2>1 DEF Copy, jobVars
    <2>2. ASSUME Goto(g, "locked", "copied"), NEW bundle, candidate' = [candidate EXCEPT ![g] = bundle]
          PROVE  Keeps
        <3>1. /\ ~Behind(g) /\ UNCHANGED <<target, retained, wpc, health>>
              /\ \A f \in Guis \ {g} : Still(f)
            BY <1>3, <2>2 DEF Copy, Goto, Still, Behind, Alive, Ended, jobVars
        <3>2. wpc[g] \notin OnTrial
            BY <2>2 DEF Goto, Locked, Preparing, Holding, Transacting
        <3> QED
            BY <1>q, <3>1, <3>2 DEF OnTrialAsBefore, Leaves
    <2> QED
        BY <1>3, <2>1, <2>2 DEF Copy, Proceed, PrepareFails
<1>4. ASSUME NEW g \in Guis,
             VerifyCopy(g)
      PROVE  Keeps
    <2>1. CASE Drop(g, "copied")
        BY <1>4, <1>g, <2>1 DEF VerifyCopy, jobVars
    <2>2. CASE Goto(g, "copied", "staged") /\ UNCHANGED candidate
        <3>1. /\ \A f \in Guis : Alive(f)' <=> Alive(f)
              /\ UNCHANGED <<target, candidate, retained, wpc, health>>
            BY <1>4, <2>2 DEF VerifyCopy, Goto, jobVars, Alive, Ended
        <3> QED
            BY <1>q, <3>1 DEF Still, OnTrialAsBefore, Leaves, Behind
    <2> QED
        BY <1>4, <2>1, <2>2 DEF VerifyCopy, Proceed, PrepareFails
<1>5. ASSUME NEW g \in Guis,
             Spawn(g)
      PROVE  Keeps
    <2>1. CASE Drop(g, "staged") /\ UNCHANGED wpc
        BY <1>5, <1>g, <2>1 DEF Spawn, jobVars
    <2>2. CASE Goto(g, "staged", "spawned") /\ wpc' = [wpc EXCEPT ![g] = "new"] /\ UNCHANGED candidate
        <3>1. /\ ~Behind(g) /\ UNCHANGED <<target, retained, health, candidate>>
              /\ \A f \in Guis \ {g} : Still(f)
            BY <1>5, <2>2 DEF Spawn, Goto, Still, Behind, Alive, Ended, jobVars
        <3>2. wpc[g] \notin OnTrial /\ wpc'[g] \notin OnTrial
            BY <2>2 DEF Goto, Locked, Preparing, Holding, Transacting, OnTrial
        <3> QED
            BY <1>q, <3>1, <3>2 DEF OnTrialAsBefore, Leaves
    <2> QED
        BY <1>5, <2>1, <2>2 DEF Spawn, PrepareFails, Postpone
<1>6. ASSUME NEW g \in Guis,
             HandOver(g)
      PROVE  Keeps
    <2>1. CASE Drop(g, "spawned") /\ WorkerGone(g)
        BY <1>6, <1>g, <2>1 DEF HandOver
    <2>2. CASE Goto(g, "spawned", "leaving") /\ UNCHANGED <<candidate, wpc, jobVars>>
        <3>1. /\ \A f \in Guis : Alive(f)' <=> Alive(f)
              /\ UNCHANGED <<target, candidate, retained, wpc, health>>
            BY <1>6, <2>2 DEF HandOver, Goto, jobVars, Alive, Ended
        <3> QED
            BY <1>q, <3>1 DEF Still, OnTrialAsBefore, Leaves, Behind
    <2> QED
        BY <1>6, <2>1, <2>2 DEF HandOver, PrepareFails, Postpone
<1>7. ASSUME NEW g \in Guis,
             WorkerNotReady(g)
      PROVE  Keeps
    BY <1>7, <1>g DEF WorkerNotReady, PrepareFails
<1>8. ASSUME NEW g \in Guis,
             \/ WorkerStarts(g) \/ OldGuiEnded(g)
      PROVE  Keeps
    <2>1. CASE wpc[g] = "new" /\ WorkerGone(g)
        <3>1. /\ \A f \in Guis \ {g} : Still(f)
              /\ UNCHANGED <<target, retained, candidate>>
            BY <1>8, <2>1 DEF WorkerStarts, OldGuiEnded, WorkerGone, Still, Behind,
               Alive, diskVars, guiVars
        <3>2. OnTrialAsBefore(g) /\ ~Behind(g)
            BY <2>1 DEF OnTrialAsBefore, Behind, OnTrial, WorkerGone
        <3> QED
            BY <1>q, <3>1, <3>2 DEF Leaves
    <2>2. CASE wpc[g] \in {"new", "waiting"} /\ UNCHANGED health
               /\ \E to \in {"waiting", "exited", "giveup"} : wpc' = [wpc EXCEPT ![g] = to]
        BY <1>8, <1>w, <2>2, States DEF WorkerStarts, OldGuiEnded, OnTrial
    <2> QED
        BY <1>8, <2>1, <2>2 DEF WorkerStarts, OldGuiEnded, WorkerGoto, jobVars
<1>9. ASSUME NEW g \in Guis,
             \/ WorkerLock(g) \/ WorkerCheckActive(g) \/ WorkerVerify(g)
             \/ StopDaemon(g)
      PROVE  Keeps
    <2>1. /\ wpc[g] \in {"exited", "locked", "held", "verified"}
          /\ \E to \in {"locked", "held", "verified", "giveup", "swapping"} :
                wpc' = [wpc EXCEPT ![g] = to]
        BY <1>9 DEF WorkerLock, WorkerCheckActive, WorkerVerify, StopDaemon, WorkerGoto
    <2>2. UNCHANGED <<guiVars, diskVars, health>>
        BY <1>9 DEF WorkerLock, WorkerCheckActive, WorkerVerify, StopDaemon, WorkerFrame
    <2> QED
        BY <1>w, <2>1, <2>2, States DEF OnTrial
<1>10. ASSUME NEW g \in Guis,
             Swap(g)
      PROVE  Keeps
    <2>1. CASE WorkerGoto(g, "swapping", "swapped") /\ Exchange(g)
        <3>1. Replaced = 0 /\ wpc[g] \in Holding
            BY <2>1, TrialIsOwn DEF WorkerGoto, Holding, Transacting, OnTrial
        <3>2. wpc'[g] = "swapped"
            BY <2>1 DEF WorkerGoto
        <3>3. Replaced' = candidate'[g] /\ (Confirmed' <=> health'[g] # NoGui)
            <4>1. \A f \in Guis : wpc'[f] \in OnTrial <=> f = g
                BY <2>1, <3>1, WhoHolds DEF WorkerGoto, Holding, Transacting, OnTrial
            <4>2. Trials' = {g}
                BY <4>1 DEF Trials
            <4> QED
                BY <4>2, OnlyOne DEF Replaced, Confirmed
        <3>4. candidate'[g] = target /\ target' = candidate[g] /\ retained' = retained
              /\ \A f \in Guis \ {g} : candidate'[f] = candidate[f]
            BY <2>1 DEF Exchange
        <3>5. ~Confirmed' /\ Confirmed' \in BOOLEAN
            BY <1>10, <2>1, <3>3 DEF Trial, Unreported, BeforeChild, WorkerGoto, Swap,
               jobVars, Confirmed
        <3>6. candidate[g] \in Versions /\ candidate[g] > target
            BY <2>1, FetchAssumption DEF Trial, Chosen, Newer, Version, WorkerGoto
        <3>7. Kept' = Kept
            <4>1. ~Behind(g) /\ ~Behind(g)' /\ \A f \in Guis \ {g} : Behind(f)' <=> Behind(f)
                BY <1>10, <2>1, <3>2 DEF Behind, Alive, WorkerGoto, Swap, guiVars
            <4> QED
                BY <3>4, <4>1, SameKept
        <3>8. Confirmed' = FALSE
            BY <3>5
        <3> QED
            BY <3>1, <3>3, <3>4, <3>6, <3>7, <3>8
            DEF Keeps, Contract!Next, Contract!Replace, Replaced, Confirmed
    <2>2. CASE WorkerGoto(g, "swapping", "restoring") /\ UNCHANGED diskVars
        BY <1>10, <1>w, <2>2, States DEF Swap, WorkerGoto, OnTrial, jobVars
    <2> QED
        BY <1>10, <2>1, <2>2 DEF Swap
<1>11. ASSUME NEW g \in Guis,
             \/ StartDaemon(g) \/ RestoreDaemon(g)
      PROVE  Keeps
    <2>1. \/ wpc[g] = "swapped" /\ \E to \in {"launching", "undo"} : wpc' = [wpc EXCEPT ![g] = to]
          \/ wpc[g] = "restoring" /\ wpc' = [wpc EXCEPT ![g] = "reopening"]
        BY <1>11 DEF StartDaemon, RestoreDaemon, WorkerGoto
    <2>2. UNCHANGED <<guiVars, diskVars, health>>
        BY <1>11 DEF StartDaemon, RestoreDaemon, jobVars
    <2> QED
        BY <1>w, <2>1, <2>2, States DEF OnTrial
<1>12. ASSUME NEW g \in Guis,
             StartGui(g)
      PROVE  Keeps
    <2>1. CASE WorkerGoto(g, "launching", "undo") /\ NoLaunch
        BY <1>12, <1>w, <2>1, States DEF StartGui, WorkerGoto, OnTrial, NoLaunch
    <2>2. ASSUME WorkerGoto(g, "launching", "awaiting"), NEW h \in Guis, Launch(h, g)
          PROVE  Keeps
        <3>1. h # g
            BY <2>2 DEF Launch, Startable, WorkerAlive, WorkerGoto
        <3> QED
            BY <1>12, <1>l, <2>2, <3>1, ZenonT(60) DEF StartGui, WorkerGoto, OnTrial,
               Behind
    <2> QED
        BY <1>12, <2>1, <2>2 DEF StartGui
<1>13. ASSUME NEW g \in Guis,
             AwaitHealth(g)
      PROVE  Keeps
    <2>1. CASE WorkerGoto(g, "awaiting", "undo")
        BY <1>13, <1>w, <2>1, States DEF AwaitHealth, WorkerFrame, WorkerGoto, OnTrial
    <2>2. CASE WorkerGoto(g, "awaiting", "accepted") /\ Reported(g)
        <3>1. /\ wpc[g] \in Holding /\ wpc[g] \in OnTrial /\ ~Behind(g)
              /\ wpc'[g] = "accepted" /\ UNCHANGED <<guiVars, diskVars, health>>
            BY <1>13, <2>2 DEF AwaitHealth, WorkerFrame, WorkerGoto, OnTrial,
               Transacting, Holding, Behind
        <3>2. Replaced = candidate[g] /\ candidate[g] # 0 /\ (Confirmed <=> health[g] # NoGui)
            BY <3>1, TrialIsOwn DEF Untouched, Transacting
        <3>3. Confirmed
            BY <2>2, <3>2, FetchAssumption DEF Reported, Trial, HasChild, WorkerGoto
        <3>4. Trials' = {}
            BY <2>2, <3>1, WhoHolds DEF Trials, WorkerGoto, Holding, Transacting,
               OnTrial
        <3>5. Replaced' = 0 /\ Confirmed' = FALSE
            BY <3>4 DEF Replaced, Confirmed
        <3>6. Kept' = Kept
            <4>1. \A f \in Guis : Behind(f)' <=> Behind(f)
                BY <2>2, <3>1 DEF Behind, Alive, WorkerGoto, guiVars
            <4> QED
                BY <3>1, <4>1 DEF Kept, LeftBehind, Behind, diskVars
        <3> QED
            BY <3>1, <3>2, <3>3, <3>5, <3>6
            DEF Keeps, Contract!Next, Contract!Accept, Contract!EndTrial, Replaced,
               Confirmed, diskVars
    <2> QED
        BY <1>13, <2>1, <2>2 DEF AwaitHealth
<1>14. ASSUME NEW g \in Guis,
             Undo(g)
      PROVE  Keeps
    <2>1. wpc[g] = "undo" /\ wpc' = [wpc EXCEPT ![g] = "undoing"] /\ UNCHANGED <<diskVars, health>>
        BY <1>14 DEF Undo, WorkerGoto
    <2>2. CASE child[g] = NoGui
        BY <1>14, <1>w, <2>1, <2>2, States DEF Undo, OnTrial
    <2>3. CASE child[g] \in Guis
        <3>4. PICK h \in Guis : h = child[g]
            BY <2>3
        <3>1. gpc' = [gpc EXCEPT ![h] = "gone"]
            BY <1>14, <3>4, FetchAssumption DEF Undo, End
        <3>2. \A f \in Guis \ {h} : Still(f)
            BY <2>1, <3>1 DEF Still, Behind, Alive, diskVars, OnTrial
        <3>5. gpc'[h] = "gone" /\ wpc'[h] = IF h = g THEN "undoing" ELSE wpc[h]
            BY <2>1, <3>1, <3>4 DEF Types, GuiTypes, WorkerTypes
        <3>6. OnTrialAsBefore(h)
            <4>1. wpc'[h] \in OnTrial <=> wpc[h] \in OnTrial
                BY <2>1, <3>5 DEF OnTrial
            <4> QED
                BY <2>1, <4>1 DEF OnTrialAsBefore, diskVars
        <3>7. Leaves(h)
            <4>1. gpc'[h] \in Ended
                BY <3>5 DEF Ended
            <4>2. Behind(h) => h # g
                BY <2>1 DEF Behind
            <4>3. Behind(h) => Behind(h)'
                BY <3>5, <4>1, <4>2 DEF Behind, Alive
            <4> QED
                BY <2>1, <4>3 DEF Leaves, diskVars
        <3>3. OnTrialAsBefore(h) /\ Leaves(h)
            BY <3>6, <3>7
        <3> QED
            BY <1>q, <2>1, <3>2, <3>3, <3>4 DEF diskVars
    <2> QED
        BY <2>2, <2>3
<1>15. ASSUME NEW g \in Guis,
             SwapBack(g)
      PROVE  Keeps
    <2>1. /\ wpc[g] \in Holding /\ wpc[g] \in OnTrial /\ ~Behind(g) /\ ~Alive(g)
          /\ wpc'[g] \notin OnTrial /\ UNCHANGED <<guiVars, health>>
          /\ \A f \in Guis \ {g} : wpc'[f] = wpc[f]
        BY <1>15 DEF SwapBack, WorkerGoto, OnTrial, Transacting, Holding, Behind,
           jobVars,
           Trial, Left, Past
    <2>2. Replaced = candidate[g] /\ candidate[g] # 0
        BY <2>1, TrialIsOwn DEF Untouched, Transacting
    <2>3. Trials' = {}
        BY <2>1, WhoHolds, SMTT(60) DEF Trials, Holding, Transacting
    <2>4. Replaced' = 0 /\ Confirmed' = FALSE
        BY <2>3 DEF Replaced, Confirmed
    <2>5. \A x : x \in Kept' <=> /\ x # 0
                                 /\ \/ x \in retained'
                                    \/ \E f \in Guis : Behind(f)' /\ candidate'[f] = x
        BY DEF Kept, LeftBehind, Behind
    <2>6. \A f \in Guis \ {g} : Behind(f)' <=> Behind(f)
        BY <2>1 DEF Behind, Alive, guiVars
    <2>7. CASE WorkerGoto(g, "undoing", "restoring") /\ Exchange(g)
        <3>1. target' = candidate[g] /\ retained' = retained
              /\ \A f \in Guis \ {g} : candidate'[f] = candidate[f]
            BY <2>7 DEF Exchange
        <3>2. ~Behind(g)'
            BY <2>7 DEF Behind, WorkerGoto
        <3>4. Kept' = Kept
            BY <2>1, <2>6, <3>1, <3>2, SameKept
        <3> QED
            BY <2>2, <2>4, <3>1, <3>4
            DEF Keeps, Contract!Next, Contract!GoBack, Contract!EndTrial, Replaced,
               Confirmed
    <2>8. CASE WorkerGoto(g, "undoing", "failed") /\ UNCHANGED diskVars
        <3>1. Behind(g)'
            BY <2>1, <2>8 DEF Behind, Alive, WorkerGoto, guiVars
        <3>2. \A x : x \in Kept' <=> x \in Kept \cup {candidate[g]}
            BY <2>1, <2>2, <2>5, <2>6, <2>8, <3>1, KeptIs DEF diskVars
        <3>3. Kept' = Kept \cup {Replaced}
            BY <2>2, <3>2
        <3> QED
            BY <2>2, <2>4, <2>8, <3>3
            DEF Keeps, Contract!Next, Contract!BreakOff, Contract!EndTrial, Replaced,
               Confirmed, diskVars
    <2> QED
        BY <1>15, <2>7, <2>8 DEF SwapBack
<1>16. ASSUME NEW g \in Guis,
             RestoreGui(g)
      PROVE  Keeps
    <2>1. CASE NoLaunch
        BY <1>16, <1>w, <2>1, States DEF RestoreGui, WorkerGoto, OnTrial, NoLaunch
    <2>2. ASSUME NEW h \in Guis, Launch(h, NoGui)
          PROVE  Keeps
        <3>1. h # g
            BY <1>16, <2>2 DEF RestoreGui, Launch, Startable, WorkerAlive, WorkerGoto
        <3> QED
            BY <1>16, <1>l, <2>2, <3>1 DEF RestoreGui, WorkerGoto, OnTrial, Behind
    <2> QED
        BY <1>16, <2>1, <2>2 DEF RestoreGui
<1>17. ASSUME NEW g \in Guis,
             GiveUp(g)
      PROVE  Keeps
    <2>1. CASE NoLaunch
        BY <1>17, <1>w, <2>1, States DEF GiveUp, WorkerGoto, OnTrial, NoLaunch
    <2>2. ASSUME NEW h \in Guis, Launch(h, NoGui)
          PROVE  Keeps
        <3>1. h # g
            BY <1>17, <2>2 DEF GiveUp, Launch, Startable, WorkerAlive, WorkerGoto
        <3> QED
            BY <1>17, <1>l, <2>2, <3>1 DEF GiveUp, WorkerGoto, OnTrial, Behind
    <2> QED
        BY <1>17, <2>1, <2>2 DEF GiveUp
<1>18. ASSUME NEW g \in Guis,
             \/ WriteOutcome(g) \/ RemoveWorkspace(g)
      PROVE  Keeps
    <2>1. CASE wpc' = [wpc EXCEPT ![g] = "tidy"] /\ WriteOutcome(g)
        BY <1>w, <2>1, States, ZenonT(60) DEF WriteOutcome, WorkerGoto, WorkerGone,
           OnTrial, jobVars
    <2>2. CASE WorkerGone(g)
        <3>1. /\ wpc[g] \in {"accepted", "failed", "tidy"} /\ wpc'[g] = "none"
              /\ UNCHANGED <<guiVars, target, retained>>
              /\ wpc[g] = "failed" => UNCHANGED candidate
              /\ \A f \in Guis \ {g} : candidate'[f] = candidate[f]
            BY <1>18, <2>2 DEF WriteOutcome, RemoveWorkspace, WorkerGone, WorkerGoto,
               diskVars
        <3>2. \A f \in Guis \ {g} : Still(f)
            BY <2>2, <3>1 DEF WorkerGone, Still, Behind, Alive, guiVars
        <3>3. OnTrialAsBefore(g) /\ Leaves(g)
            BY <3>1 DEF OnTrialAsBefore, Leaves, Behind, Alive, OnTrial, guiVars
        <3> QED
            BY <1>q, <3>1, <3>2, <3>3
    <2> QED
        BY <1>18, <2>1, <2>2 DEF WriteOutcome, RemoveWorkspace, WorkerGoto
<1>19. ASSUME NEW g \in Guis,
             WorkerCrash(g)
      PROVE  Keeps
    <2>1. /\ wpc[g] # "none" /\ wpc'[g] = "none" /\ UNCHANGED <<guiVars, diskVars>>
          /\ \A f \in Guis \ {g} : Still(f) /\ (Behind(f)' <=> Behind(f)) /\ wpc'[f] = wpc[f]
        BY <1>19 DEF WorkerCrash, WorkerGone, Still, Behind, Alive, guiVars, diskVars,
           WorkerAlive
    <2>2. CASE wpc[g] \notin OnTrial
        <3>1. OnTrialAsBefore(g) /\ Leaves(g)
            BY <2>1, <2>2 DEF OnTrialAsBefore, Leaves, Behind, Alive, OnTrial,
               guiVars, diskVars
        <3> QED
            BY <1>q, <2>1, <3>1 DEF diskVars
    <2>3. CASE wpc[g] \in OnTrial
        <3>1. wpc[g] \in Holding /\ ~Alive(g)
            BY <2>3 DEF Holding, Transacting, Trial, Left, Past
        <3>2. Replaced = candidate[g] /\ candidate[g] # 0
            BY <2>3, <3>1, TrialIsOwn DEF Untouched, Transacting
        <3>3. Trials' = {}
            BY <2>1, <3>1, WhoHolds, SMTT(60) DEF Trials, Holding, Transacting, OnTrial
        <3>4. Replaced' = 0 /\ Confirmed' = FALSE
            BY <3>3 DEF Replaced, Confirmed
        <3>5. \A x : x \in Kept' <=> /\ x # 0
                                     /\ \/ x \in retained'
                                        
                                        \/ \E f \in Guis : Behind(f)' /\ candidate'[f] = x
            BY DEF Kept, LeftBehind, Behind
        <3>6. Behind(g)'
            BY <2>1, <3>1 DEF Behind, Alive, guiVars
        <3>7. ~Behind(g)
            BY <2>3 DEF Behind, OnTrial
        <3>8. \A x : x \in Kept' <=> x \in Kept \cup {candidate[g]}
            BY <2>1, <3>2, <3>5, <3>6, <3>7, KeptIs DEF diskVars
        <3>9. Kept' = Kept \cup {Replaced}
            BY <3>2, <3>8
        <3> QED
            BY <2>1, <3>2, <3>4, <3>9
            DEF Keeps, Contract!Next, Contract!BreakOff, Contract!EndTrial, Replaced,
               Confirmed, diskVars
    <2> QED
        BY <2>2, <2>3
<1>20. ASSUME NEW g \in Guis,
             Ready(g)
      PROVE  Keeps
    <2>1. UNCHANGED <<wpc, target, retained, candidate>> /\ \A f \in Guis : Behind(f)' <=> Behind(f)
        BY <1>20 DEF Ready, Goto, Behind, Alive, Ended, diskVars
    <2>2. CASE UNCHANGED health
        BY <1>q, <2>1, <2>2 DEF Still, OnTrialAsBefore, Leaves
    <2>3. ASSUME NEW job \in Guis, health' = [health EXCEPT ![job] = g]
          PROVE  Keeps
        <3>1. CASE wpc[job] \notin OnTrial
            <4>1. \A f \in Guis \ {job} : Still(f)
                BY <2>1, <2>3 DEF Still
            <4>2. OnTrialAsBefore(job) /\ Leaves(job)
                BY <2>1, <3>1 DEF OnTrialAsBefore, Leaves
            <4> QED
                BY <1>q, <2>1, <4>1, <4>2
        <3>2. CASE wpc[job] \in OnTrial
            <4>1. Replaced = candidate[job] /\ candidate[job] # 0 /\ Trials = {job}
                BY <3>2, TrialIsOwn DEF Untouched, Transacting, Holding
            <4>2. Trials' = Trials /\ Replaced' = Replaced
                BY <2>1 DEF Trials, Replaced
            <4>3. Confirmed' = TRUE
                BY <2>3, <4>1, <4>2, FetchAssumption DEF Confirmed
            <4>4. Kept' = Kept
                BY <2>1 DEF Kept, LeftBehind, Behind
            <4> QED
                BY <2>1, <4>1, <4>2, <4>3, <4>4
                DEF Keeps, Contract!Next, Contract!Confirm, Replaced, Confirmed
        <3> QED
            BY <3>1, <3>2
    <2>4. \/ UNCHANGED health
          \/ bornOf[g] \in Guis /\ health' = [health EXCEPT ![bornOf[g]] = g]
        BY <1>20 DEF Ready
    <2> QED
        BY <2>2, <2>3, <2>4
<1>21. ASSUME NEW g \in Guis,
             \/ StartupExits(g) \/ GuiCrash(g) \/ AskChanges(g)
      PROVE  Keeps
    <2>1. /\ UNCHANGED <<target, retained, candidate, wpc, health>>
          /\ gpc' \in {gpc, [gpc EXCEPT ![g] = "gone"]}
        BY <1>21 DEF StartupExits, GuiCrash, AskChanges, End, diskVars, jobVars
    <2>2. \A f \in Guis \ {g} : Still(f)
        BY <2>1 DEF Still, Behind, Alive
    <2>3. OnTrialAsBefore(g) /\ Leaves(g)
        BY <2>1 DEF OnTrialAsBefore, Leaves, Behind, Alive, Ended
    <2> QED
        BY <1>q, <2>1, <2>2, <2>3
<1>22. CASE Publish /\ InstallIdle
    <2>1. UNCHANGED <<target, candidate, retained, wpc, health, gpc>>
        BY <1>22 DEF Publish, InstallIdle, diskVars, jobVars
    <2>2. Kept' = Kept
        BY <2>1 DEF Kept, LeftBehind, Alive
    <2>3. \A f \in Guis : OnTrialAsBefore(f)
        BY <2>1 DEF OnTrialAsBefore
    <2> QED
        BY <2>1, <2>2, <2>3, QuietKeeps DEF OnTrialAsBefore
<1>23. CASE UserStarts
    BY <1>23, <1>l DEF UserStarts
<1> QED
    BY <1>1, <1>2, <1>3, <1>4, <1>5, <1>6, <1>7, <1>8, <1>9, <1>10, <1>11, <1>12,
       <1>13, <1>14, <1>15, <1>16, <1>17, <1>18, <1>19, <1>20, <1>21, <1>22, <1>23
    DEF Next, Fetch, Prepare, Worker

\* lib.rs, transact: it implements Installation: a trial is confirmed, taken back or
\* broken off, and in any case what it replaced is not lost before.
THEOREM InstallationIsKept == Spec => KeepsInstallation
<1>1. Init => Contract!Init
    <2> SUFFICES ASSUME Init
                 PROVE  Contract!Init
        OBVIOUS
    <2>1. \A g \in Guis : wpc[g] = "none" /\ candidate[g] = 0
        BY DEF Init
    <2>2. Trials = {}
        BY <2>1 DEF Trials, OnTrial
    <2>3. Kept = {}
        BY <2>1 DEF Kept, LeftBehind, Init
    <2> QED
        BY <2>2, <2>3 DEF Contract!Init, Init
<1>2. ASSUME Order, Order', Trial, [Next]_vars
      PROVE  Keeps
    <2>1. CASE UNCHANGED vars
        <3>1. UNCHANGED <<target, candidate, retained, wpc, health, gpc>>
            BY <2>1 DEF vars, guiVars, diskVars, jobVars
        <3>2. Trials' = Trials
            BY <3>1 DEF Trials
        <3>3. Kept' = Kept
            BY <3>1 DEF Kept, LeftBehind, Alive
        <3> QED
            BY <3>1, <3>2, <3>3 DEF Keeps, Replaced, Confirmed
    <2>2. CASE Next
        <3>1. Types /\ Types'
            BY <1>2, TypesAreTypeOK, PTL DEF Order
        <3> QED
            BY <1>2, <2>2, <3>1, KeepsStep DEF Order
    <2> QED
        BY <1>2, <2>1, <2>2
<1>3. ASSUME Order, Order', Trial, [Next]_vars
      PROVE  [Contract!Next]_(Contract!vars)
    BY <1>2, <1>3 DEF Keeps, Replaced, Confirmed, Contract!vars
<1>4. Fate => Order /\ Trial
    BY DEF Fate
<1> QED
    BY <1>1, <1>3, <1>4, FateAlways, PTL DEF Spec, KeepsInstallation, Contract!Spec
=============================================================================
