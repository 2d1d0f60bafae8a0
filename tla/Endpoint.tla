------------------------------ MODULE Endpoint ------------------------------
(***************************************************************************)
(* Who serves the endpoint linkpilot.sock: crates/headless-daemon,         *)
(* crates/ipc/src/server.rs, the pid file of crates/core/src/daemon.rs,    *)
(* the GUI's start-up probe (src-tauri/src/lib.rs), the LaunchAgent and    *)
(* the commands lpt daemon start, stop, restart, install and uninstall.    *)
(*                                                                         *)
(* A process looks for a server that answers, removes the socket file and  *)
(* binds its own; a file is found by its path, whoever made it.  Every     *)
(* process number is used once.  A server that is told to stop removes     *)
(* the file, a process that is killed leaves it, and so does a GUI: its    *)
(* server handle lives as long as the process.                             *)
(***************************************************************************)
EXTENDS Integers, FiniteSets

CONSTANTS
    MaxDaemons, \* bound: processes of linkpilot-daemon, numbered as they start
    Guis,       \* processes of the desktop application
    Nobody,
    Workers,    \* worker threads of a server
    MaxStarts,  \* bound: processes that are started
    MaxKills    \* bound: processes that are killed

Daemons == 1..MaxDaemons
Procs == Daemons \cup Guis

ASSUME EndpointAssumption ==
    /\ {MaxDaemons, MaxStarts} \subseteq Nat
    /\ Daemons \cap Guis = {}
    /\ Nobody \notin Procs
    /\ Workers \in Nat \ {0}
    /\ MaxKills \in Nat

VARIABLES
    pc,         \* where the main thread of each process stands
    task,       \* where its listener task stands
    work,       \* how many of its worker threads run a handler
    sock,       \* whose listener the file at the endpoint leads to
    pidFile,    \* the process linkpilot-daemon.pid names
    agent,      \* the daemon launchd started for the LaunchAgent, if loaded
    ctl,        \* the lpt daemon command under way, or the rest of it
    kills,
    overlapped  \* a start or stop overlapped another, or a probe timed out

serverVars == <<pc, task, work, sock>>
histVars == <<kills, overlapped>>
endpointVars == <<serverVars, pidFile, agent, ctl, histVars>>

Starting == {"probe", "writepid", "rmsock"}
Stopping == {"dropping", "dropped", "rmpid"}
Waiting == {"stop", "restart", "uninstall"}

EndpointTypeOK ==
    /\ pc \in [Procs -> {"new", "up", "client", "gone"} \cup Starting \cup Stopping]
    /\ task \in [Procs -> {"none", "unlink", "bind", "listening"}]
    /\ work \in [Procs -> 0..Workers]
    /\ sock \in Procs \cup {Nobody}
    /\ {pidFile, agent} \subseteq Daemons \cup {Nobody}
    /\ ctl \in {"idle", "start"} \cup Waiting
    /\ overlapped \in BOOLEAN
    /\ kills \in 0..MaxKills

EndpointInit ==
    /\ pc = [p \in Procs |-> "new"]
    /\ task = [p \in Procs |-> "none"]
    /\ work = [p \in Procs |-> 0]
    /\ sock = Nobody /\ pidFile = Nobody /\ agent = Nobody
    /\ ctl = "idle"
    /\ kills = 0 /\ overlapped = FALSE

-----------------------------------------------------------------------------
Alive(p) == pc[p] \notin {"new", "gone"}
Listening(p) == task[p] = "listening"

\* On the way from its probe to its bind, or from SIGTERM to its end.
InTransit(p) ==
    \/ pc[p] \in Starting \cup Stopping
    \/ pc[p] = "up" /\ task[p] \in {"unlink", "bind"}

\* p, or a command of lpt (Nobody), starts or stops while another does, or
\* while lpt is on its way to remove the pid file.
Overlaps(p) ==
    \/ \E q \in Procs \ {p} : InTransit(q)
    \/ ctl \in Waiting

Notice(p) == overlapped' = (overlapped \/ Overlaps(p)) /\ UNCHANGED kills

Goto(p, from, to) == pc[p] = from /\ pc' = [pc EXCEPT ![p] = to]

\* A request to the endpoint reaches a listener; all of its workers are busy.
Reaches == sock # Nobody /\ Listening(sock)
Saturated == Reaches /\ work[sock] = Workers

\* Faulty variant: nobody is asked.
PingNever(answered) == ~answered

\* StatePing: answered by a server, unless five seconds pass without a worker.
Ping(answered) ==
    \/ answered /\ Reaches
    \/ ~answered /\ (~Reaches \/ Saturated)

-----------------------------------------------------------------------------
(***************************************************************************)
(* A process starts: main of the daemon, the setup of the GUI.             *)
(***************************************************************************)
InTurn(p) ==
    /\ pc[p] = "new"
    /\ Cardinality({q \in Procs : pc[q] # "new"}) < MaxStarts
    /\ p \in Daemons => \A q \in Daemons : q < p => pc[q] # "new"

Start(p) ==
    /\ InTurn(p) /\ Goto(p, "new", "probe") /\ Notice(p)
    /\ UNCHANGED <<task, work, sock, pidFile, agent, ctl>>

\* server::serve spawns the listener task and returns.
Serve(p) == task' = [task EXCEPT ![p] = "unlink"]

\* probe_existing_daemon.
Asks(p, answered) ==
    /\ pc[p] = "probe" /\ Ping(answered)
    /\ overlapped' = (overlapped \/ (Saturated /\ ~answered))
    /\ UNCHANGED <<work, sock, pidFile, agent, ctl, kills>>

\* A daemon that finds a server exits.
DaemonProbes(p) ==
    \E answered \in BOOLEAN :
        /\ p \in Daemons /\ Asks(p, answered)
        /\ pc' = [pc EXCEPT ![p] = IF answered THEN "gone" ELSE "writepid"]
        /\ UNCHANGED task

\* A GUI that finds a server runs on as its client.
GuiProbes(p) ==
    \E answered \in BOOLEAN :
        /\ p \in Guis /\ Asks(p, answered)
        /\ pc' = [pc EXCEPT ![p] = IF answered THEN "client" ELSE "up"]
        /\ IF answered THEN UNCHANGED task ELSE Serve(p)

\* Faulty variant: a pid file that a killed daemon left is not replaced.
WritePidIfNone(p) ==
    /\ Goto(p, "writepid", "rmsock")
    /\ pidFile' = IF pidFile = Nobody THEN p ELSE pidFile
    /\ UNCHANGED <<task, work, sock, agent, ctl, histVars>>

\* write_pid_file replaces what cleanup_stale_pid_file left there.
WritePid(p) ==
    /\ Goto(p, "writepid", "rmsock")
    /\ pidFile' = p
    /\ UNCHANGED <<task, work, sock, agent, ctl, histVars>>

RemoveSocket(p) ==
    /\ Goto(p, "rmsock", "up") /\ Serve(p)
    /\ sock' = Nobody
    /\ UNCHANGED <<work, pidFile, agent, ctl, histVars>>

TaskGoto(p, from, to) == task[p] = from /\ task' = [task EXCEPT ![p] = to]

Unlink(p) ==
    /\ TaskGoto(p, "unlink", "bind") /\ sock' = Nobody
    /\ UNCHANGED <<pc, work, pidFile, agent, ctl, histVars>>

\* An error ends the task, not the process.
Bind(p) ==
    /\ \/ sock = Nobody /\ TaskGoto(p, "bind", "listening") /\ sock' = p
       \/ sock # Nobody /\ TaskGoto(p, "bind", "none") /\ UNCHANGED sock
    /\ UNCHANGED <<pc, work, pidFile, agent, ctl, histVars>>

-----------------------------------------------------------------------------
(***************************************************************************)
(* A daemon stops.                                                         *)
(***************************************************************************)
\* SIGTERM to a process: one that waits for it begins to stop, one that has
\* not got there dies, and one that has ended does not mind.
Terminate(p) ==
    IF p \in Daemons /\ pc[p] = "up"
    THEN pc' = [pc EXCEPT ![p] = "dropping"]
    ELSE IF p \in Daemons /\ pc[p] \in Starting
    THEN pc' = [pc EXCEPT ![p] = "gone"]
    ELSE UNCHANGED pc

\* Drop for ServerHandle: shutdown is sent to the task, and the file removed.
DropHandle(p) ==
    /\ Goto(p, "dropping", "dropped") /\ sock' = Nobody
    /\ UNCHANGED <<task, work, pidFile, agent, ctl, histVars>>

\* The task's own reaction to shutdown, before or after that.
TaskStops(p) ==
    /\ pc[p] \in {"dropping", "dropped"}
    /\ TaskGoto(p, "listening", "none") /\ sock' = Nobody
    /\ UNCHANGED <<pc, work, pidFile, agent, ctl, histVars>>

\* The runtime goes with the handle: running handlers come to their end, the
\* task and the connections are dropped.
DropRuntime(p) ==
    /\ Goto(p, "dropped", "rmpid") /\ work[p] = 0 /\ task[p] # "bind"
    /\ task' = [task EXCEPT ![p] = "none"]
    /\ UNCHANGED <<work, sock, pidFile, agent, ctl, histVars>>

\* remove_pid_file, whoever it names.
RemovePid(p) ==
    /\ Goto(p, "rmpid", "gone") /\ pidFile' = Nobody
    /\ UNCHANGED <<task, work, sock, agent, ctl, histVars>>

Gone(p) ==
    /\ pc' = [pc EXCEPT ![p] = "gone"]
    /\ task' = [task EXCEPT ![p] = "none"]
    /\ work' = [work EXCEPT ![p] = 0]
    /\ UNCHANGED <<sock, pidFile, agent, ctl>>

Kill(p) ==
    /\ p \in Daemons /\ Alive(p) /\ Gone(p) /\ kills < MaxKills /\ kills' = kills + 1
    /\ UNCHANGED overlapped

\* The user quits the application.
Quit(g) == g \in Guis /\ pc[g] \in {"up", "client"} /\ Gone(g) /\ UNCHANGED histVars

-----------------------------------------------------------------------------
(***************************************************************************)
(* The LaunchAgent.  launchd does not restart its daemon (KeepAlive is     *)
(* false).                                                                 *)
(***************************************************************************)
\* install_daemon, from lpt, from the Settings page or at the GUI's first run:
\* an agent that is loaded is unloaded first, then launchd starts the daemon.
Install(p) ==
    /\ agent' = p /\ InTurn(p)
    /\ IF agent # Nobody /\ pc[agent] \in {"up"} \cup Starting
       THEN /\ pc[p] = "new" /\ overlapped' = TRUE
            /\ pc' = [pc EXCEPT ![p] = "probe",
                        ![agent] = IF @ = "up" THEN "dropping" ELSE "gone"]
            /\ UNCHANGED kills
       ELSE Goto(p, "new", "probe") /\ Notice(p)
    /\ p \in Daemons
    /\ UNCHANGED <<task, work, sock, pidFile, ctl>>

\* daemon_service_uninstall, from the Settings page.
ServiceUninstall ==
    /\ agent # Nobody /\ agent' = Nobody
    /\ Terminate(agent) /\ Notice(Nobody)
    /\ UNCHANGED <<task, work, sock, pidFile, ctl>>

-----------------------------------------------------------------------------
(***************************************************************************)
(* lpt daemon: one command at a time.  start without a server is Start.    *)
(***************************************************************************)
\* Faulty variant: the agent's own pid is signalled, if there is one.
StopAgent ==
    /\ ctl = "idle" /\ pidFile # Nobody /\ ctl' \in {"stop", "restart"}
    /\ IF agent # Nobody THEN Terminate(agent) ELSE Terminate(pidFile)
    /\ Notice(Nobody)
    /\ UNCHANGED <<task, work, sock, pidFile, agent>>

\* stop and restart signal the process the pid file names.  With an agent, or
\* with a server but no pid file, the command fails.
Stop ==
    /\ ctl = "idle" /\ agent = Nobody /\ pidFile # Nobody
    /\ ctl' \in {"stop", "restart"}
    /\ Terminate(pidFile) /\ Notice(Nobody)
    /\ UNCHANGED <<task, work, sock, pidFile, agent>>

\* With neither there is nothing to stop, only to start.
StopNothing ==
    /\ ctl = "idle" /\ agent = Nobody /\ pidFile = Nobody /\ Ping(FALSE)
    /\ ctl' = "start"
    /\ Notice(Nobody)
    /\ UNCHANGED <<serverVars, pidFile, agent>>

\* uninstall_daemon, then SIGTERM to the process of the pid file.
Uninstall ==
    /\ ctl = "idle" /\ ctl' = "uninstall"
    /\ agent' = Nobody /\ Notice(Nobody)
    /\ pc' = [p \in Procs |->
                IF p \in Daemons \cap {agent, pidFile}
                THEN CASE pc[p] = "up" -> "dropping"
                       [] pc[p] \in Starting -> "gone"
                       [] OTHER -> pc[p]
                ELSE pc[p]]
    /\ UNCHANGED <<task, work, sock, pidFile>>

\* wait_for_socket(false), then the pid file goes; uninstall goes on after its
\* time limit, too.
WaitClosed ==
    /\ ctl \in Waiting
    /\ \/ /\ Ping(FALSE) \/ ctl = "uninstall"
          /\ pidFile' = Nobody
          /\ ctl' = IF ctl = "restart" THEN "start" ELSE "idle"
       \/ Ping(TRUE) /\ ctl # "uninstall" /\ ctl' = "idle" /\ UNCHANGED pidFile
    /\ UNCHANGED <<serverVars, agent, histVars>>

\* The second half of restart is start.
Restart ==
    /\ ctl = "start" /\ ctl' = "idle"
    /\ \/ Ping(TRUE) /\ UNCHANGED <<pc, histVars>>
       \/ Ping(FALSE) /\ \E p \in Daemons :
            InTurn(p) /\ Goto(p, "new", "probe") /\ Notice(p)
       \/ Ping(FALSE) /\ (\A p \in Daemons : ~InTurn(p)) /\ UNCHANGED <<pc, histVars>>
    /\ UNCHANGED <<task, work, sock, pidFile, agent>>

LptDaemon == Stop \/ StopNothing \/ Uninstall \/ WaitClosed \/ Restart

\* What a process that is under way does next.
Proceed(p) ==
    \/ DaemonProbes(p) \/ GuiProbes(p) \/ WritePid(p) \/ RemoveSocket(p)
    \/ Unlink(p) \/ Bind(p) \/ DropHandle(p) \/ TaskStops(p) \/ DropRuntime(p)
    \/ RemovePid(p)

EndpointNext ==
    \/ \E p \in Procs : Start(p) \/ Proceed(p) \/ Kill(p) \/ Quit(p)
    \/ \E p \in Daemons : Install(p)
    \/ ServiceUninstall \/ LptDaemon

-----------------------------------------------------------------------------
\* headless-daemon/src/main.rs: "Hard contract: only one daemon per machine",
\* the GUI's own server included, after kills and with stale files, as long as
\* nobody starts or stops while another does and every probe gets a worker.
OneServer ==
    overlapped \/ \A p, q \in Procs : Listening(p) /\ Listening(q) => p = q

\* A server that is not stopping is found at the endpoint: no other process
\* has removed its file, and its bind did not fail.
ServerIsReached ==
    overlapped \/ \A p \in Procs :
        pc[p] = "up" /\ task[p] \notin {"unlink", "bind"} => sock = p

\* "lpt daemon stop" finds the daemon that serves: the pid file names it.
PidNamesServer ==
    overlapped \/ \A d \in Daemons : pc[d] = "up" => pidFile = d

\* When lpt removes the pid file and reports the stop, the daemon it has
\* signalled does not serve any more, and nobody else's pid file goes.
StopIsTrue ==
    [][ctl' # ctl /\ ctl \in {"stop", "restart"} /\ pidFile' = Nobody =>
        overlapped' \/ \A d \in Daemons : pc[d] \notin Starting \cup {"up"}]_endpointVars
=============================================================================
