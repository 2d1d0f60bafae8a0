------------------------------ MODULE Updater ------------------------------
(***************************************************************************)
(* Installing a downloaded release: crates/updater/src/lib.rs, called by   *)
(* update_install (commands/mod.rs) and acknowledge_startup (lib.rs).      *)
(*                                                                         *)
(* A GUI process prepares under the install lock and leaves a worker       *)
(* behind, which is named by the process that spawned it: a process has at *)
(* most one.  The worker waits for that process to end, swaps the bundles, *)
(* starts the new version and takes everything back if it does not report. *)
(* Processes may be killed between any two steps, and system calls fail,   *)
(* MaxFaults times in all.                                                 *)
(***************************************************************************)
EXTENDS UpdateFetch

CONSTANTS
    Unhealthy,  \* versions that may fail to reach their Ready event
    MaxFaults   \* bound: crashes and failing calls

ASSUME UpdaterAssumption ==
    /\ Unhealthy \subseteq Versions
    /\ MaxFaults \in Nat

VARIABLES
    target,     \* the installed bundle: its version; 0 is an unusable one
    candidate,  \* candidate.app in the workspace of each process's job
    wpc,        \* where the worker of each process stands
    ready,      \* the worker wrote its ready file
    health,     \* the process named in the job's health.json
    child,      \* the process the worker started with the job's token
    bornOf,     \* the job each process was started for
    owned,      \* the worker found the daemon loaded and stopped it
    lock,       \* who holds install.lock
    active,     \* whose worker active.json names
    daemon,     \* the LaunchAgent of this bundle: the version its process runs
    asking,     \* the processes that show the picker (while it matters)
    retained,   \* bundles in workspaces that were left behind
    rolledBack, \* the version whose last attempt was rolled back (history)
    faults,     \* calls that failed, processes that were killed
    mishap      \* one of them leaves no promise of a running GUI or daemon

guiVars  == <<gpc, runs, attempt, asking>>
diskVars == <<target, candidate, retained>>
jobVars  == <<ready, health, child, bornOf, owned>>
lockVars == <<lock, active>>
failVars == <<outcome, rolledBack>>
faultVars == <<faults, mishap>>
vars == <<guiVars, fetchVars, diskVars, wpc, jobVars, lockVars, daemon,
          failVars, faultVars>>

Free == <<"free", NoGui>>
\* The agent is not loaded, or is loaded and its process does not run.
Unloaded == 0
Down == -1

\* With target and candidate exchanged; holding the lock; running at all.
OnTrial == {"swapped", "launching", "awaiting", "undo", "undoing"}
Transacting == OnTrial \cup {"swapping", "restoring", "reopening"}
Holding == Transacting \cup {"locked", "held", "verified"}
Working == Holding \cup {"new", "waiting", "exited", "giveup", "failed",
                         "accepted", "tidy"}
Preparing == {"flocked", "locked", "copied", "staged", "spawned"}

Alive(g) == gpc[g] \notin Ended
WorkerAlive(g) == wpc[g] # "none"

TypeOK ==
    /\ FetchTypeOK
    /\ gpc \in [Guis -> Ended \cup Fetching \cup Preparing
                        \cup {"starting", "up", "asked", "leaving"}]
    /\ target \in Versions \cup {0}
    /\ candidate \in [Guis -> Versions \cup {0}]
    /\ wpc \in [Guis -> Working \cup {"none"}]
    /\ ready \in [Guis -> BOOLEAN]
    /\ {health, child, bornOf} \subseteq [Guis -> Guis \cup {NoGui}]
    /\ owned \in [Guis -> BOOLEAN]
    /\ lock \in {Free} \cup ({"gui", "worker"} \X Guis)
    /\ active \in Guis \cup {NoGui}
    /\ daemon \in Versions \cup {Unloaded, Down}
    /\ asking \subseteq Guis
    /\ retained \subseteq Versions
    /\ faults \in 0..MaxFaults
    /\ mishap \in BOOLEAN
    /\ rolledBack \in Versions \cup {0}

Init ==
    /\ FetchInit
    /\ LET g == CHOOSE h \in Guis : TRUE
       IN  gpc = [h \in Guis |-> IF h = g THEN "up" ELSE "new"]
    /\ target = First
    /\ candidate = [g \in Guis |-> 0]
    /\ wpc = [g \in Guis |-> "none"]
    /\ ready = [g \in Guis |-> FALSE]
    /\ health = [g \in Guis |-> NoGui]
    /\ child = [g \in Guis |-> NoGui]
    /\ bornOf = [g \in Guis |-> NoGui]
    /\ owned = [g \in Guis |-> FALSE]
    /\ lock = Free
    /\ active = NoGui
    /\ daemon \in {First, Unloaded}
    /\ asking = {}
    /\ retained = {}
    /\ rolledBack = 0 /\ faults = 0 /\ mishap = FALSE

-----------------------------------------------------------------------------
Version(g) == attempt[g].version

\* verify_app: signature, notarization, identity, version and architecture.
Verified(bundle, version) == bundle = version

\* verify_dmg: what was downloaded carries its signature and is notarized.
GoodImage(version) == dmg[version] = "whole"

\* newer, on stable releases.
Newer(version) == version > target

\* Faulty variant: the flock alone is trusted.
BusyNever(g) == FALSE

\* Lock::acquire under the flock: active.json names another worker that lives.
Busy(g) == active \notin {NoGui, g} /\ WorkerAlive(active)

Fault == faults < MaxFaults /\ faults' = faults + 1
NoFault == UNCHANGED faultVars
HarmlessFault == Fault /\ UNCHANGED mishap
Mishap == Fault /\ mishap' = TRUE

\* outcome.json is replaced as a whole.
Record(g, failed) ==
    /\ outcome' = [version |-> Version(g), failed |-> failed]
    /\ rolledBack' = IF Version(g) = rolledBack THEN rolledBack ELSE 0

WorkerGoto(g, from, to) ==
    /\ wpc[g] = from
    /\ wpc' = [wpc EXCEPT ![g] = to]

Release == lock' = Free

-----------------------------------------------------------------------------
(***************************************************************************)
(* prepare_and_spawn, in the GUI.                                          *)
(***************************************************************************)
TakeLock(g) ==
    /\ \/ lock = Free /\ Goto(g, "asked", "flocked") /\ lock' = <<"gui", g>>
          /\ UNCHANGED attempt
       \/ lock # Free /\ Back(g, "asked") /\ UNCHANGED lock
    /\ UNCHANGED <<runs, asking, active, fetchVars, diskVars, wpc, jobVars,
                   daemon, failVars, faultVars>>

\* Another worker, or the pause after a failure: no outcome is written.
CheckActive(g) ==
    LET refused == Busy(g) \/ (attempt[g].automatic /\ LastFailure(Version(g)))
    IN  /\ \/ refused /\ Back(g, "flocked") /\ Release
           \/ ~refused /\ Goto(g, "flocked", "locked") /\ UNCHANGED <<attempt, lock>>
        /\ UNCHANGED <<runs, asking, active, fetchVars, diskVars, wpc, jobVars,
                       daemon, failVars, faultVars>>

\* The attempt ends and its workspace goes; an error is told by outcome.json.
Drop(g, from) ==
    /\ Back(g, from) /\ Release
    /\ asking' = asking \ {g}
    /\ candidate' = [candidate EXCEPT ![g] = 0]
PrepareFails(g, from) == Drop(g, from) /\ Record(g, TRUE)
Postpone(g, from) == Drop(g, from) /\ UNCHANGED failVars

\* Or it goes on under the lock.
Proceed(g, from, to) ==
    /\ Goto(g, from, to)
    /\ UNCHANGED <<attempt, asking, lock, failVars>>

\* The disk image is checked and mounted, its application copied.
Copy(g) ==
    /\ \/ /\ Newer(Version(g)) /\ GoodImage(Version(g))
          /\ Proceed(g, "locked", "copied")
          /\ \E bundle \in {Version(g), 0} :
                candidate' = [candidate EXCEPT ![g] = bundle]
       \/ PrepareFails(g, "locked")
    /\ UNCHANGED <<runs, fetchVars, target, retained, wpc, jobVars, active,
                   daemon, faultVars>>

VerifyCopy(g) ==
    /\ \/ /\ Verified(candidate[g], Version(g))
          /\ Proceed(g, "copied", "staged") /\ UNCHANGED candidate
       \/ ~Verified(candidate[g], Version(g)) /\ PrepareFails(g, "copied")
    /\ UNCHANGED <<runs, fetchVars, target, retained, wpc, jobVars, active,
                   daemon, faultVars>>

\* The closure of update_install: no ask is open, and an automatic update is
\* still wanted.
Allowed(g) == g \notin asking
Refused(g) == g \in asking \/ attempt[g].automatic

Spawn(g) ==
    /\ \/ /\ Allowed(g) /\ Goto(g, "staged", "spawned")
          /\ wpc' = [wpc EXCEPT ![g] = "new"]
          /\ rolledBack' = IF attempt[g].automatic THEN rolledBack ELSE 0
          /\ UNCHANGED <<attempt, asking, candidate, lock, outcome>>
       \/ Allowed(g) /\ PrepareFails(g, "staged") /\ UNCHANGED wpc
       \/ Refused(g) /\ Postpone(g, "staged") /\ UNCHANGED wpc
    /\ UNCHANGED <<runs, fetchVars, target, retained, jobVars, active, daemon,
                   faultVars>>

\* A worker is no more; its files are of no use to another.
WorkerGone(g) ==
    /\ wpc' = [wpc EXCEPT ![g] = "none"]
    /\ ready' = [ready EXCEPT ![g] = FALSE]
    /\ health' = [health EXCEPT ![g] = NoGui]
    /\ child' = [child EXCEPT ![g] = NoGui]
    /\ owned' = [owned EXCEPT ![g] = FALSE]
    /\ bornOf' = [h \in Guis |-> IF bornOf[h] = g THEN NoGui ELSE bornOf[h]]

\* Faulty variant: the process leaves without naming its worker.
HandOverUnnamed(g) ==
    /\ ready[g] /\ Allowed(g) /\ Goto(g, "spawned", "leaving") /\ Release
    /\ UNCHANGED <<runs, attempt, asking, active, fetchVars, diskVars, wpc,
                   jobVars, daemon, failVars, faultVars>>

\* The ready file is there.  The worker is named in active.json, the lock is
\* released, and update_install makes the application exit.
HandOver(g) ==
    /\ ready[g]
    /\ \/ /\ Allowed(g) /\ Goto(g, "spawned", "leaving") /\ Release
          /\ active' = g /\ NoFault
          /\ UNCHANGED <<attempt, asking, candidate, wpc, jobVars, failVars>>
       \/ /\ Allowed(g) /\ PrepareFails(g, "spawned") /\ WorkerGone(g)
          /\ HarmlessFault /\ UNCHANGED active
       \/ /\ Refused(g) /\ Postpone(g, "spawned") /\ WorkerGone(g)
          /\ NoFault /\ UNCHANGED active
    /\ UNCHANGED <<runs, fetchVars, target, retained, daemon>>

\* Five seconds without a ready file, or the worker ended.
WorkerNotReady(g) ==
    /\ ~ready[g] /\ PrepareFails(g, "spawned") /\ WorkerGone(g)
    /\ UNCHANGED <<runs, fetchVars, target, retained, active, daemon, faultVars>>

Exit(g) ==
    /\ Goto(g, "leaving", "gone") /\ asking' = asking \ {g}
    /\ UNCHANGED <<runs, attempt, fetchVars, diskVars, wpc, jobVars, lockVars,
                   daemon, failVars, faultVars>>

Prepare(g) ==
    \/ TakeLock(g) \/ CheckActive(g) \/ Copy(g) \/ VerifyCopy(g) \/ Spawn(g)
    \/ HandOver(g) \/ WorkerNotReady(g) \/ Exit(g)

-----------------------------------------------------------------------------
(***************************************************************************)
(* GUI processes come and go.                                              *)
(***************************************************************************)
\* The numbers that are not in use any more.
Startable == {h \in Guis : /\ ~Alive(h) /\ ~WorkerAlive(h)
                           /\ \A g \in Guis : WorkerAlive(g) => child[g] # h}

\* A process starts from the installed bundle; what its number left is kept.
Launch(h, job) ==
    /\ Startable # {} /\ h = CHOOSE p \in Startable : TRUE
    /\ gpc' = [gpc EXCEPT ![h] = "starting"]
    /\ runs' = [runs EXCEPT ![h] = target]
    /\ attempt' = [attempt EXCEPT ![h] = NoAttempt]
    /\ bornOf' = [bornOf EXCEPT ![h] = job]
    /\ active' = IF active = h THEN NoGui ELSE active
    /\ candidate' = [candidate EXCEPT ![h] = 0]
    /\ retained' = (retained \cup {candidate[h]}) \ {0}
    /\ UNCHANGED <<target, asking>>
NoLaunch == UNCHANGED <<guiVars, bornOf, active, diskVars>>

\* The user opens the application; LaunchServices starts no second instance.
\* Bound: a number is left for each worker that may have to start a process.
UserStarts ==
    /\ \A g \in Guis : ~Alive(g)
    /\ Cardinality(Startable) > Cardinality({g \in Guis : WorkerAlive(g)})
    /\ \E h \in Guis : Launch(h, NoGui)
    /\ UNCHANGED <<fetchVars, wpc, ready, health, child, owned, lock, daemon,
                   failVars, faultVars>>

\* RunEvent::Ready with acknowledge_startup: a process started for a job
\* writes health.json if the installed version is the one of the job.
Ready(h) ==
    LET job == bornOf[h] IN
    /\ Goto(h, "starting", "up")
    /\ bornOf' = [bornOf EXCEPT ![h] = NoGui]
    /\ health' = IF job # NoGui /\ WorkerAlive(job) /\ target = Version(job)
                 THEN [health EXCEPT ![job] = h] ELSE health
    /\ UNCHANGED <<runs, attempt, asking, fetchVars, diskVars, wpc, ready, child,
                   owned, lockVars, daemon, failVars, faultVars>>

End(h) ==
    /\ gpc' = [gpc EXCEPT ![h] = "gone"]
    /\ asking' = asking \ {h}
    /\ UNCHANGED <<runs, attempt>>

StartupExits(h) ==
    /\ gpc[h] = "starting" /\ runs[h] \in Unhealthy /\ End(h)
    /\ UNCHANGED <<fetchVars, diskVars, wpc, jobVars, lockVars, daemon,
                   failVars, faultVars>>

GuiCrash(h) ==
    /\ Alive(h) /\ End(h) /\ Mishap
    /\ lock' = IF lock = <<"gui", h>> THEN Free ELSE lock
    /\ UNCHANGED <<fetchVars, diskVars, wpc, jobVars, active, daemon, failVars>>

\* An ask counts from the moment somebody looks for it.
AskChanges(g) ==
    /\ gpc[g] \in {"staged", "spawned", "leaving"}
    /\ asking' = IF g \in asking THEN asking \ {g} ELSE asking \cup {g}
    /\ UNCHANGED <<gpc, runs, attempt, fetchVars, diskVars, wpc, jobVars,
                   lockVars, daemon, failVars, faultVars>>

-----------------------------------------------------------------------------
(***************************************************************************)
(* run_worker.                                                             *)
(***************************************************************************)
\* load_job; the parent must still be the process that prepared the job.
WorkerStarts(g) ==
    /\ \/ /\ Alive(g) /\ WorkerGoto(g, "new", "waiting")
          /\ ready' = [ready EXCEPT ![g] = TRUE]
          /\ UNCHANGED <<health, child, owned, bornOf>>
       \/ wpc[g] = "new" /\ ~Alive(g) /\ WorkerGone(g)
    /\ UNCHANGED <<guiVars, fetchVars, diskVars, lockVars, daemon, failVars,
                   faultVars>>

\* wait_exit(old_pid, 30 s).
OldGuiEnded(g) ==
    /\ \/ ~Alive(g) /\ WorkerGoto(g, "waiting", "exited") /\ NoFault
       \/ Alive(g) /\ WorkerGoto(g, "waiting", "giveup") /\ Mishap
    /\ UNCHANGED <<guiVars, fetchVars, diskVars, jobVars, lockVars, daemon,
                   failVars>>

\* What the steps under the lock, up to the transaction, leave alone.
WorkerFrame == UNCHANGED <<guiVars, fetchVars, diskVars, ready, health, child,
                           bornOf, active, failVars>>

\* Lock::acquire: the flock, then active.json.
WorkerLock(g) ==
    /\ \/ lock = Free /\ WorkerGoto(g, "exited", "locked") /\ lock' = <<"worker", g>>
       \/ lock # Free /\ WorkerGoto(g, "exited", "giveup") /\ UNCHANGED lock
    /\ NoFault /\ WorkerFrame /\ UNCHANGED <<owned, daemon>>

WorkerCheckActive(g) ==
    /\ \/ ~Busy(g) /\ WorkerGoto(g, "locked", "held") /\ UNCHANGED lock
       \/ Busy(g) /\ WorkerGoto(g, "locked", "giveup") /\ Release
    /\ NoFault /\ WorkerFrame /\ UNCHANGED <<owned, daemon>>

\* verify_app and newer once more.
WorkerVerify(g) ==
    LET good == Verified(candidate[g], Version(g)) /\ Newer(Version(g)) IN
    /\ \/ good /\ WorkerGoto(g, "held", "verified") /\ UNCHANGED lock /\ NoFault
       \/ good /\ WorkerGoto(g, "held", "giveup") /\ Release /\ HarmlessFault
       \/ ~good /\ WorkerGoto(g, "held", "giveup") /\ Release /\ NoFault
    /\ WorkerFrame /\ UNCHANGED <<owned, daemon>>

\* owned_daemon and daemon_load(false).  When stopping fails the daemon is
\* loaded again, with any result.
StopDaemon(g) ==
    /\ \/ /\ WorkerGoto(g, "verified", "swapping") /\ NoFault
          /\ owned' = [owned EXCEPT ![g] = daemon # Unloaded]
          /\ daemon' = Unloaded /\ UNCHANGED lock
       \/ /\ WorkerGoto(g, "verified", "giveup") /\ Mishap /\ Release
          /\ daemon # Unloaded /\ UNCHANGED owned
          /\ daemon' \in {daemon, target, Unloaded, Down}
    /\ WorkerFrame

-----------------------------------------------------------------------------
(***************************************************************************)
(* transact.                                                               *)
(***************************************************************************)
Exchange(g) ==
    /\ target' = candidate[g]
    /\ candidate' = [candidate EXCEPT ![g] = target]
    /\ UNCHANGED retained

\* launchctl load does nothing for an agent that is loaded.
LoadDaemon(g) ==
    daemon' = IF owned[g] /\ daemon = Unloaded THEN target ELSE daemon

\* The atomic exchange fails as a whole.
Swap(g) ==
    /\ \/ WorkerGoto(g, "swapping", "swapped") /\ Exchange(g) /\ NoFault
       \/ /\ WorkerGoto(g, "swapping", "restoring") /\ HarmlessFault
          /\ UNCHANGED diskVars
    /\ UNCHANGED <<guiVars, fetchVars, jobVars, lockVars, daemon, failVars>>

StartDaemon(g) ==
    /\ \/ WorkerGoto(g, "swapped", "launching") /\ LoadDaemon(g) /\ NoFault
       \/ /\ WorkerGoto(g, "swapped", "undo") /\ Mishap /\ owned[g]
          /\ daemon' \in {Down, Unloaded}
    /\ UNCHANGED <<guiVars, fetchVars, diskVars, jobVars, lockVars, failVars>>

StartGui(g) ==
    /\ \/ /\ WorkerGoto(g, "launching", "awaiting") /\ NoFault
          /\ \E h \in Guis : Launch(h, g) /\ child' = [child EXCEPT ![g] = h]
       \/ /\ WorkerGoto(g, "launching", "undo") /\ HarmlessFault
          /\ NoLaunch /\ UNCHANGED child
    /\ UNCHANGED <<fetchVars, ready, health, owned, lock, daemon, failVars>>

\* Faulty variant: it is enough that the child is running.
ReportedByRunning(g) == Alive(child[g])

Reported(g) == health[g] = child[g]

\* await_health: the child has gone, has reported, or 30 s are over.
AwaitHealth(g) ==
    /\ wpc[g] = "awaiting"
    /\ \/ /\ Alive(child[g]) /\ Reported(g)
          /\ WorkerGoto(g, "awaiting", "accepted") /\ Release
       \/ /\ ~Alive(child[g]) \/ ~Reported(g)
          /\ WorkerGoto(g, "awaiting", "undo") /\ UNCHANGED lock
    /\ NoFault /\ WorkerFrame /\ UNCHANGED <<owned, daemon>>

\* The child is killed and reaped, the daemon stopped.
Undo(g) ==
    /\ WorkerGoto(g, "undo", "undoing")
    /\ IF child[g] = NoGui THEN UNCHANGED guiVars ELSE End(child[g])
    /\ child' = [child EXCEPT ![g] = NoGui]
    /\ \/ daemon' = (IF owned[g] THEN Unloaded ELSE daemon) /\ NoFault
       \/ daemon' \in {daemon, Unloaded} /\ owned[g] /\ Mishap
    /\ rolledBack' = Version(g)
    /\ UNCHANGED <<fetchVars, diskVars, ready, health, owned, bornOf, lockVars,
                   outcome>>

\* Faulty variant: the old daemon and GUI are started from what is there.
SwapBackNever(g) ==
    /\ WorkerGoto(g, "undoing", "restoring") /\ UNCHANGED diskVars
    /\ UNCHANGED <<guiVars, fetchVars, jobVars, lockVars, daemon, failVars,
                   faultVars>>

\* "rollback failed; previous app retained": nothing is started any more.
SwapBack(g) ==
    /\ \/ /\ WorkerGoto(g, "undoing", "restoring") /\ Exchange(g) /\ NoFault
          /\ UNCHANGED lock
       \/ /\ WorkerGoto(g, "undoing", "failed") /\ Mishap /\ Release
          /\ UNCHANGED diskVars
    /\ UNCHANGED <<guiVars, fetchVars, jobVars, active, daemon, failVars>>

\* After a failed swap or a rollback: the daemon, then the GUI.
RestoreDaemon(g) ==
    /\ WorkerGoto(g, "restoring", "reopening")
    /\ \/ LoadDaemon(g) /\ NoFault
       \/ owned[g] /\ daemon' \in {daemon, Down, Unloaded} /\ Mishap
    /\ UNCHANGED <<guiVars, fetchVars, diskVars, jobVars, lockVars, failVars>>

RestoreGui(g) ==
    /\ WorkerGoto(g, "reopening", "failed") /\ Release
    /\ \/ (\E h \in Guis : Launch(h, NoGui)) /\ NoFault
       \/ NoLaunch /\ Mishap
    /\ UNCHANGED <<fetchVars, ready, health, child, owned, daemon, failVars>>

\* Faulty variant: only the transaction starts a GUI.
GiveUpQuietly(g) ==
    /\ WorkerGoto(g, "giveup", "failed") /\ NoLaunch /\ NoFault
    /\ UNCHANGED <<fetchVars, ready, health, child, owned, lock, daemon, failVars>>

\* An error before the transaction: the application that was left is started
\* again, unless its process never ended.
GiveUp(g) ==
    /\ WorkerGoto(g, "giveup", "failed")
    /\ \/ ~Alive(g) /\ (\E h \in Guis : Launch(h, NoGui)) /\ NoFault
       \/ ~Alive(g) /\ NoLaunch /\ Mishap
       \/ Alive(g) /\ NoLaunch /\ NoFault
    /\ UNCHANGED <<fetchVars, ready, health, child, owned, lock, daemon, failVars>>

\* outcome.json; a failed job keeps its workspace, as does a failed write.
WriteOutcome(g) ==
    /\ \/ /\ WorkerGoto(g, "accepted", "tidy") /\ Record(g, FALSE) /\ NoFault
          /\ UNCHANGED jobVars
       \/ wpc[g] = "failed" /\ WorkerGone(g) /\ Record(g, TRUE) /\ NoFault
       \/ /\ wpc[g] \in {"accepted", "failed"} /\ WorkerGone(g) /\ Mishap
          /\ rolledBack' = 0 /\ UNCHANGED outcome
    /\ UNCHANGED <<guiVars, fetchVars, diskVars, lockVars, daemon>>

\* Success: the workspace goes, and the old bundle with it.
RemoveWorkspace(g) ==
    /\ wpc[g] = "tidy" /\ WorkerGone(g)
    /\ candidate' = [candidate EXCEPT ![g] = 0]
    /\ UNCHANGED <<guiVars, fetchVars, target, retained, lockVars, daemon,
                   failVars, faultVars>>

WorkerCrash(g) ==
    /\ WorkerAlive(g) /\ WorkerGone(g) /\ Mishap
    /\ lock' = IF lock = <<"worker", g>> THEN Free ELSE lock
    /\ rolledBack' = 0
    /\ UNCHANGED <<guiVars, fetchVars, diskVars, active, daemon, outcome>>

Worker(g) ==
    \/ WorkerStarts(g) \/ OldGuiEnded(g) \/ WorkerLock(g)
    \/ WorkerCheckActive(g) \/ WorkerVerify(g) \/ StopDaemon(g) \/ Swap(g)
    \/ StartDaemon(g) \/ StartGui(g) \/ AwaitHealth(g) \/ Undo(g)
    \/ SwapBack(g) \/ RestoreDaemon(g) \/ RestoreGui(g) \/ GiveUp(g)
    \/ WriteOutcome(g) \/ RemoveWorkspace(g)

\* The steps of UpdateFetch leave all of this module's variables alone.
InstallIdle == UNCHANGED <<asking, diskVars, wpc, jobVars, lockVars, daemon,
                           rolledBack, faultVars>>

Next ==
    \/ Publish /\ InstallIdle
    \/ UserStarts
    \/ \E g \in Guis :
        \/ Fetch(g) /\ InstallIdle
        \/ Prepare(g) \/ Worker(g) \/ Ready(g) \/ StartupExits(g)
        \/ GuiCrash(g) \/ WorkerCrash(g) \/ AskChanges(g)

\* A process that has something to do is scheduled, the time limits included,
\* and a version that can start gets to its Ready event.  Strong fairness only
\* undoes the bound on process numbers: no launch waits for one for ever.
Step(g) == Prepare(g) \/ Worker(g) \/ (runs[g] \notin Unhealthy /\ Ready(g))
Launches(g) == StartGui(g) \/ RestoreGui(g) \/ GiveUp(g)

Fairness == \A g \in Guis : WF_vars(Step(g)) /\ SF_vars(Launches(g))

Spec == Init /\ [][Next]_vars /\ Fairness

-----------------------------------------------------------------------------
\* What is installed passed verify_app or was there before, whatever a copy,
\* a crash or a failed rollback did: no step leaves part of a bundle there.
InstalledIsWhole == target # 0

\* While a worker has the bundles exchanged, or is about to, no other worker
\* does and no process prepares: candidate and target are its own.
OneTransaction ==
    \A f, g \in Guis :
        wpc[g] \in Transacting =>
            gpc[f] \notin Preparing /\ (wpc[f] \in Transacting => f = g)

\* The gap between the end of prepare_and_spawn, which releases the lock, and
\* the worker's own Lock::acquire, and the one between the end of its
\* transaction and its outcome, are closed by active.json: a second worker is
\* not spawned in them.
OneWorker ==
    mishap \/ Cardinality({g \in Guis : WorkerAlive(g)}) <= 1

\* What is installed is whole, and one process at a time changes it.
OneInstaller == TypeOK /\ InstalledIsWhole /\ OneTransaction /\ OneWorker

\* The step with which a worker writes its outcome.
Reports(g) == wpc[g] \in {"accepted", "failed"} /\ wpc'[g] # wpc[g]

\* When a worker writes outcome.json it tells what is installed, the new version
\* on success and never the new version after a failure, and a daemon that
\* was loaded runs again, from the bundle that is installed; unless a call or
\* process died on the way.
OutcomeIsTrue ==
    [][\A g \in Guis :
        Reports(g) /\ ~mishap' =>
            /\ target = Version(g) <=> ~outcome'.failed
            /\ owned[g] => daemon = target]_vars

\* docs/updates.md: automatic retries of the version that was rolled back
\* pause until an explicit retry or another release, even in the GUI that the
\* worker starts before it has written the outcome.  (Not so after a GUI that
\* died before it named its worker in active.json.)
AutoRetryPauses ==
    [][\A g \in Guis :
        wpc[g] = "none" /\ wpc'[g] = "new" /\ attempt[g].automatic =>
            mishap \/ Version(g) # rolledBack]_vars

\* download_update_asset: a finished download is not spoiled by another
\* process that is still downloading the same file.
GoodDownloadStays ==
    [][\A v \in Versions : dmg[v] = "whole" => dmg'[v] = "whole"]_vars

\* Installation, with the trial of the one worker that has exchanged the
\* bundles; a workspace without a worker, or whose job failed, is kept.
Trials == {g \in Guis : wpc[g] \in OnTrial}
LeftBehind == {g \in Guis : ~Alive(g) /\ wpc[g] \in {"none", "failed"}}
Kept == (retained \cup {candidate[g] : g \in LeftBehind}) \ {0}

Contract == INSTANCE Installation WITH
    installed <- target,
    replaced <- IF Trials = {} THEN 0 ELSE candidate[CHOOSE g \in Trials : TRUE],
    confirmed <- \E g \in Trials : health[g] # NoGui,
    kept <- Kept

\* "Only then is the old bundle removed" (docs/updates.md), and a trial that
\* is not confirmed restores what it replaced or leaves it on disk.
KeepsInstallation == Contract!Spec

\* Every worker comes to an end, whatever its GUI and its child do.
WorkersEnd == []<>(\A g \in Guis : ~WorkerAlive(g))

\* A GUI that made room for an update is followed by one that runs, the new
\* version or the old, unless a call or a process died on the way.
GuiReturns ==
    []<>(mishap \/ \E h \in Guis : gpc[h] \notin Ended \cup {"starting", "leaving"})

\* An update ends, one way or the other, with a GUI that runs.
UpdateEnds == WorkersEnd /\ GuiReturns

\* docs/updates.md: "An active Ask picker postpones installation."
OpenAskPostpones ==
    [][\A g \in Guis : gpc[g] = "leaving" /\ gpc'[g] = "gone" => g \notin asking]_vars
=============================================================================
