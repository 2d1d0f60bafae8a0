--------------------------- MODULE LptOpenProofs ---------------------------
(***************************************************************************)
(* The endpoint and lpt open, for any number of daemons, GUIs and calls.   *)
(*                                                                         *)
(* As long as no start or stop overlaps another, at most one process is on *)
(* its way (OneInTransit), and a process that passed its probe is alone    *)
(* (OneActive): a probe that was not answered met no server, since a       *)
(* server that is not on its way is at the endpoint (UpIsReached).  Every  *)
(* worker that counts as busy has a request in hand (Counted), so the      *)
(* runtime of a server that stops ends with none.                          *)
(***************************************************************************)
EXTENDS LptOpen, FiniteSetTheorems, TLAPS

Phases == {"new", "up", "client", "gone"} \cup Starting \cup Stopping

Shape ==
    /\ pc \in [Procs -> Phases]
    /\ task \in [Procs -> {"none", "unlink", "bind", "listening"}]
    /\ sock \in Procs \cup {Nobody}
    /\ {pidFile, agent} \subseteq Daemons \cup {Nobody}
    /\ ctl \in {"idle", "start"} \cup Waiting
    /\ overlapped \in BOOLEAN

\* Past its probe: it serves, is about to, or has served.
Active(p) == pc[p] \in {"writepid", "rmsock", "up"} \cup Stopping

TaskHasServer == \A p \in Procs : task[p] # "none" => pc[p] \in {"up", "dropping", "dropped"}
GuisDoNotStop == \A p \in Procs \ Daemons : pc[p] \in {"new", "probe", "client", "up", "gone"}
OneInTransit == \A p, q \in Procs : InTransit(p) /\ InTransit(q) => p = q
OneActive == \A p, q \in Procs : Active(p) /\ Active(q) => p = q
BindsFree == \A p \in Procs : task[p] = "bind" => sock = Nobody
UpIsReached ==
    \A p \in Procs : pc[p] = "up" /\ task[p] \notin {"unlink", "bind"} =>
        sock = p /\ task[p] = "listening"
PidIsNamed == \A d \in Daemons : pc[d] \in {"rmsock", "up"} => pidFile = d
WaitsForNobody == ctl \in Waiting => \A d \in Daemons : pc[d] \notin Starting \cup {"up"}

Ordered ==
    /\ OneInTransit /\ OneActive /\ BindsFree /\ UpIsReached
    /\ PidIsNamed /\ WaitsForNobody

Serving == Shape /\ TaskHasServer /\ GuisDoNotStop /\ (overlapped \/ Ordered)

-----------------------------------------------------------------------------
(* lpt open.                                                               *)

OpenShape ==
    /\ client \in [Opens -> {"new", "waiting", "local", "back"}]
    /\ handler \in [Opens -> Pending \cup {"none", "over"}]
    /\ acts \in [Opens -> Nat]
    /\ slow \in [Opens -> BOOLEAN]

\* Where one lpt open stands, unless lpt gave up waiting: nothing is launched
\* before somebody has decided for it, and then at most once.
OpenOnce(r) ==
    \/ slow[r]
    \/ client[r] \in {"new", "local"} /\ handler[r] = "none" /\ acts[r] = 0
    \/ client[r] = "waiting" /\ handler[r] \in {"queued", "handling"} /\ acts[r] = 0
    \/ client[r] = "waiting" /\ handler[r] = "handled" /\ acts[r] \in {0, 1}
    \/ client[r] = "back" /\ handler[r] \in {"none", "over"} /\ acts[r] \in {0, 1}

OpensOnce == OpenShape /\ \A r \in Opens : OpenOnce(r)

\* What a step does to the other opens: nothing.
OthersWait(r) ==
    \A o \in Opens \ {r} :
        /\ client'[o] = client[o] /\ handler'[o] = handler[o]
        /\ acts'[o] = acts[o] /\ slow'[o] = slow[o]

\* A step of one lpt open, or of the server for it, keeps the account.
LEMMA OpenStep ==
    ASSUME OpensOnce, NEW r \in Opens,
           Send(r) \/ OpenLocally(r) \/ Answer(r) \/ GiveUp(r)
    PROVE  OpensOnce'
<1>1. OpenShape' /\ OthersWait(r) /\ OpenOnce(r)'
    <2>1. CASE Send(r)
        BY <2>1 DEF Send, OpensOnce, OpenShape, OpenOnce, OthersWait, ClientGoto,
                    HandlerGoto, Pending
    <2>2. CASE OpenLocally(r)
        BY <2>2 DEF OpenLocally, Act, OpensOnce, OpenShape, OpenOnce, OthersWait,
                    ClientGoto, Pending
    <2>3. CASE Handle(r)
        BY <2>3 DEF Handle, OpensOnce, OpenShape, OpenOnce, OthersWait,
                    HandlerGoto, Pending
    <2>4. CASE Route(r)
        BY <2>4 DEF Route, Act, OpensOnce, OpenShape, OpenOnce, OthersWait,
                    HandlerGoto, Pending
    <2>5. CASE Respond(r)
        BY <2>5 DEF Respond, OpensOnce, OpenShape, OpenOnce, OthersWait,
                    HandlerGoto, Pending
    <2>6. CASE ConnectionLost(r)
        BY <2>6 DEF ConnectionLost, OpensOnce, OpenShape, OpenOnce, OthersWait,
                    Pending
    <2>7. CASE GiveUp(r)
        BY <2>7 DEF GiveUp, OpensOnce, OpenShape, OpenOnce, OthersWait,
                    ClientGoto, Pending
    <2> QED
        BY <2>1, <2>2, <2>3, <2>4, <2>5, <2>6, <2>7 DEF Answer
<1>2. ASSUME NEW o \in Opens \ {r}
      PROVE  OpenOnce(o)'
    BY <1>1 DEF OthersWait, OpensOnce, OpenOnce
<1> QED
    BY <1>1, <1>2 DEF OpensOnce

\* run_open and RouteOpen: a URL is opened twice only after lpt gave up on a
\* slow server, whatever servers start, stop and are killed meanwhile.
THEOREM OpenedOnceUnlessSlow == Spec => []OnceUnlessSlow
<1>1. Init => OpensOnce
    BY DEF Init, OpensOnce, OpenShape, OpenOnce
<1>2. OpensOnce /\ [Next]_vars => OpensOnce'
    <2> SUFFICES ASSUME OpensOnce, [Next]_vars
                 PROVE  OpensOnce'
        OBVIOUS
    <2>1. CASE UNCHANGED openVars
        BY <2>1 DEF OpensOnce, OpenShape, OpenOnce, openVars
    <2>2. ASSUME NEW r \in Opens,
                 Send(r) \/ OpenLocally(r) \/ Answer(r) \/ GiveUp(r)
          PROVE  OpensOnce'
        BY <2>2, OpenStep
    <2> QED
        BY <2>1, <2>2 DEF Next, vars
<1>3. OpensOnce => OnceUnlessSlow
    BY DEF OpensOnce, OpenOnce, OnceUnlessSlow
<1> QED
    BY <1>1, <1>2, <1>3, PTL DEF Spec

-----------------------------------------------------------------------------
(* The endpoint.                                                           *)

\* What an lpt open leaves alone.
endpointState == <<pc, task, sock, pidFile, agent, ctl, overlapped>>

\* They do not touch what the invariant is about.
LEMMA SameEndpoint ==
    ASSUME Serving, UNCHANGED endpointState
    PROVE  Serving'
BY DEF Serving, endpointState, Shape, TaskHasServer, GuisDoNotStop, Ordered, OneInTransit,
       OneActive, BindsFree, UpIsReached, PidIsNamed, WaitsForNobody, InTransit,
       Active

\* Nobody is no process.
LEMMA WhoIsWho == Daemons \subseteq Procs /\ Guis \subseteq Procs /\ Nobody \notin Procs
BY EndpointAssumption DEF Procs

\* The steps keep the shape of the state, and what overlapped stays so.
LEMMA ShapeStep ==
    ASSUME Serving, EndpointNext
    PROVE  Shape' /\ TaskHasServer' /\ GuisDoNotStop' /\ (overlapped => overlapped')
<1> USE WhoIsWho DEF Serving, Shape, TaskHasServer, GuisDoNotStop, Goto, TaskGoto, Phases,
            Starting, Stopping, Waiting, histVars
<1> DEFINE Goal == Shape' /\ TaskHasServer' /\ GuisDoNotStop' /\ (overlapped => overlapped')
<1>1. ASSUME NEW p \in Procs, Start(p)
      PROVE  Goal
    BY <1>1 DEF Start, Notice
<1>2. ASSUME NEW p \in Procs, DaemonProbes(p)
      PROVE  Goal
    BY <1>2 DEF DaemonProbes, Asks
<1>3. ASSUME NEW p \in Procs, GuiProbes(p)
      PROVE  Goal
    BY <1>3 DEF GuiProbes, Asks, Serve
<1>4. ASSUME NEW p \in Procs, WritePid(p)
      PROVE  Goal
    <2>1. p \in Daemons
        BY <1>4 DEF WritePid
    <2> QED
        BY <1>4, <2>1 DEF WritePid
<1>5. ASSUME NEW p \in Procs, RemoveSocket(p)
      PROVE  Goal
    BY <1>5 DEF RemoveSocket, Serve
<1>6. ASSUME NEW p \in Procs, Unlink(p)
      PROVE  Goal
    BY <1>6 DEF Unlink
<1>7. ASSUME NEW p \in Procs, Bind(p)
      PROVE  Goal
    BY <1>7 DEF Bind
<1>8. ASSUME NEW p \in Procs, DropHandle(p)
      PROVE  Goal
    BY <1>8 DEF DropHandle
<1>9. ASSUME NEW p \in Procs, TaskStops(p)
      PROVE  Goal
    BY <1>9 DEF TaskStops
<1>10. ASSUME NEW p \in Procs, DropRuntime(p)
       PROVE  Goal
    BY <1>10 DEF DropRuntime
<1>11. ASSUME NEW p \in Procs, RemovePid(p)
       PROVE  Goal
    BY <1>11 DEF RemovePid
<1>12. ASSUME NEW p \in Procs, Kill(p) \/ Quit(p)
       PROVE  Goal
    BY <1>12 DEF Kill, Quit, Gone
<1>13. ASSUME NEW p \in Daemons, Install(p)
       PROVE  Goal
    BY <1>13, ZenonT(60) DEF Install, InTurn, Notice
<1>14. CASE ServiceUninstall
    BY <1>14 DEF ServiceUninstall, Terminate, Notice
<1>15. CASE Stop \/ StopNothing
    BY <1>15, ZenonT(60) DEF Stop, StopNothing, Terminate, Notice, serverVars
<1>16. CASE Uninstall
    BY <1>16 DEF Uninstall, Notice
<1>17. CASE WaitClosed
    BY <1>17, ZenonT(60) DEF WaitClosed, serverVars
<1>18. CASE Restart
    BY <1>18, ZenonT(60) DEF Restart, Notice
<1> QED
    BY <1>1, <1>2, <1>3, <1>4, <1>5, <1>6, <1>7, <1>8, <1>9, <1>10, <1>11, <1>12,
       <1>13, <1>14, <1>15, <1>16, <1>17, <1>18
    DEF EndpointNext, Proceed, LptDaemon
-----------------------------------------------------------------------------
(* Order: what every step keeps as long as nothing overlaps.  Each lemma   *)
(* has the state before, with its order, and the step.                     *)

Kept == Serving /\ Ordered /\ Shape' /\ TaskHasServer' /\ ~overlapped'

\* A new process, when no other is on its way.
LEMMA BeginInOrder ==
    ASSUME Kept, NEW p \in Procs, Goto(p, "new", "probe"),
           \A q \in Procs \ {p} : ~InTransit(q),
           ctl \notin Waiting, ctl' \notin Waiting, UNCHANGED <<task, sock, pidFile>>
    PROVE  Ordered'
<1> USE DEF Kept, Serving, Ordered, Shape, Goto
<1>1. /\ pc'[p] = "probe" /\ task'[p] = "none" /\ p \in Procs
      /\ \A q \in Procs \ {p} : pc'[q] = pc[q] /\ task'[q] = task[q]
    BY DEF TaskHasServer
<1>2. OneInTransit' /\ OneActive'
    BY <1>1 DEF OneInTransit, InTransit, OneActive, Active, Stopping, Starting
<1>3. BindsFree' /\ UpIsReached'
    BY <1>1 DEF BindsFree, UpIsReached
<1>4. PidIsNamed' /\ WaitsForNobody'
    BY <1>1, WhoIsWho DEF PidIsNamed, WaitsForNobody
<1> QED
    BY <1>2, <1>3, <1>4

\* SIGTERM to a server, when nobody is on the way.
LEMMA TermInOrder ==
    ASSUME Kept, \A q \in Procs : ~InTransit(q), UNCHANGED <<task, sock, pidFile>>,
           pc' = pc \/ \E d \in Daemons : pc[d] = "up" /\ pc' = [pc EXCEPT ![d] = "dropping"],
           ctl' \in Waiting => \A d \in Daemons : pc'[d] # "up"
    PROVE  Ordered'
<1> USE WhoIsWho DEF Kept, Serving, Ordered, Shape
<1>1. \A q \in Procs : Active(q)' => Active(q)
    BY DEF Active, Stopping
<1>2. OneActive'
    BY <1>1 DEF OneActive
<1>3. \A q \in Procs : InTransit(q)' => Active(q)'
    BY DEF InTransit, Active, Starting, Stopping
<1>4. OneInTransit'
    BY <1>2, <1>3 DEF OneInTransit, OneActive
<1>5. \A q \in Procs : pc'[q] = "up" => pc[q] = "up"
    OBVIOUS
<1>6. BindsFree' /\ UpIsReached'
    BY <1>5 DEF BindsFree, UpIsReached
<1>7. \A q \in Procs : pc'[q] \notin Starting
    BY DEF InTransit, Starting
<1>8. PidIsNamed'
    BY <1>5, <1>7 DEF PidIsNamed, Starting
<1>9. WaitsForNobody'
    BY <1>7 DEF WaitsForNobody
<1> QED
    BY <1>2, <1>4, <1>6, <1>8, <1>9

\* The first step of a process: nothing else is under way.
LEMMA StartInOrder ==
    ASSUME Kept, NEW p \in Procs, Start(p)
    PROVE  Ordered'
<1>1. (\A q \in Procs \ {p} : ~InTransit(q)) /\ ctl \notin Waiting
    BY DEF Start, Notice, Overlaps, Kept, Serving, Shape
<1> QED
    BY <1>1, BeginInOrder DEF Start

\* A probe that is not answered: no other process serves, or is about to.
LEMMA UnansweredIsAlone ==
    ASSUME Kept, NEW p \in Procs, Asks(p, FALSE)
    PROVE  \A q \in Procs : ~Active(q)
<1> SUFFICES ASSUME NEW q \in Procs, Active(q)
             PROVE  FALSE
    OBVIOUS
<1>1. InTransit(p) /\ p # q
    BY DEF Asks, InTransit, Starting, Active, Stopping
<1>2. ~InTransit(q)
    BY <1>1 DEF Kept, Ordered, OneInTransit
<1>3. pc[q] = "up" /\ task[q] \notin {"unlink", "bind"}
    BY <1>2 DEF InTransit, Active, Starting, Stopping
<1>4. sock = q /\ Reaches
    BY <1>3, WhoIsWho DEF Kept, Ordered, UpIsReached, Reaches, Listening
<1>5. ~Saturated
    BY DEF Kept, Asks
<1> QED
    BY <1>4, <1>5 DEF Asks, Ping

\* The probe before bind.
LEMMA ProbeInOrder ==
    ASSUME Kept, NEW p \in Procs, DaemonProbes(p) \/ GuiProbes(p)
    PROVE  Ordered'
<1> USE WhoIsWho DEF Kept, Serving, Ordered, OneInTransit, OneActive, BindsFree,
        UpIsReached, PidIsNamed, WaitsForNobody, InTransit, Active, Shape,
        TaskHasServer, Starting, Stopping, Waiting, Asks
<1>1. ASSUME DaemonProbes(p), pc' = [pc EXCEPT ![p] = "gone"]
      PROVE  Ordered'
    BY <1>1 DEF DaemonProbes
<1>2. ASSUME DaemonProbes(p), Asks(p, FALSE), pc' = [pc EXCEPT ![p] = "writepid"]
      PROVE  Ordered'
    <2>1. \A q \in Procs : ~Active(q)
        BY <1>2, UnansweredIsAlone
    <2>2. pc'[p] = "writepid" /\ UNCHANGED task /\ UNCHANGED <<sock, pidFile, ctl>>
        BY <1>2 DEF DaemonProbes
    <2>3. \A q \in Procs \ {p} : pc'[q] = pc[q]
        BY <1>2
    <2>4. InTransit(p)
        BY <1>2
    <2>5. \A q \in Procs \ {p} : ~InTransit(q) /\ pc[q] \notin {"rmsock", "up"}
        BY <2>1, <2>4
    <2>6. OneInTransit' /\ OneActive'
        BY <2>1, <2>3, <2>5
    <2>7. BindsFree' /\ UpIsReached' /\ PidIsNamed'
        BY <2>2, <2>3, <2>5
    <2>8. WaitsForNobody'
        BY <1>2, <2>2, <2>3 DEF DaemonProbes
    <2> QED
        BY <2>6, <2>7, <2>8
<1>3. ASSUME GuiProbes(p), pc' = [pc EXCEPT ![p] = "client"], UNCHANGED task
      PROVE  Ordered'
    BY <1>3 DEF GuiProbes
<1>4. ASSUME GuiProbes(p), Asks(p, FALSE), pc' = [pc EXCEPT ![p] = "up"], Serve(p)
      PROVE  Ordered'
    <2>1. \A q \in Procs : ~Active(q)
        BY <1>4, UnansweredIsAlone
    <2>2. /\ pc'[p] = "up" /\ task'[p] = "unlink" /\ p \notin Daemons
          /\ UNCHANGED <<sock, pidFile, ctl>>
        BY <1>4, EndpointAssumption DEF GuiProbes, Serve
    <2>3. \A q \in Procs \ {p} : pc'[q] = pc[q] /\ task'[q] = task[q]
        BY <1>4 DEF Serve
    <2>4. InTransit(p)
        BY <1>4
    <2>5. \A q \in Procs \ {p} : ~InTransit(q) /\ pc[q] \notin {"rmsock", "up"}
        BY <2>1, <2>4
    <2>6. OneInTransit' /\ OneActive'
        BY <2>1, <2>3, <2>5
    <2>7. BindsFree' /\ UpIsReached' /\ PidIsNamed'
        BY <2>2, <2>3, <2>5
    <2>8. WaitsForNobody'
        BY <2>2, <2>3
    <2> QED
        BY <2>6, <2>7, <2>8
<1> QED
    BY <1>1, <1>2, <1>3, <1>4, ZenonT(60) DEF DaemonProbes, GuiProbes

\* A daemon on its way to its socket is alone, and whatever file it removes or
\* replaces is nobody's.
LEMMA WayInOrder ==
    ASSUME Kept, NEW p \in Procs,
           WritePid(p) \/ RemoveSocket(p) \/ Unlink(p) \/ Bind(p)
    PROVE  Ordered'
<1> USE WhoIsWho DEF Kept, Serving, Ordered, OneInTransit, OneActive, BindsFree,
        UpIsReached, PidIsNamed, WaitsForNobody, InTransit, Active, Shape,
        TaskHasServer, Starting, Stopping, Waiting, Goto, TaskGoto, histVars
<1>1. CASE WritePid(p)
    BY <1>1 DEF WritePid
<1>2. CASE RemoveSocket(p)
    BY <1>2 DEF RemoveSocket, Serve
<1>3. CASE Unlink(p)
    BY <1>3 DEF Unlink
<1>4. CASE Bind(p)
    BY <1>4 DEF Bind
<1> QED
    BY <1>1, <1>2, <1>3, <1>4

\* So is one that stops.
LEMMA StopsInOrder ==
    ASSUME Kept, NEW p \in Procs,
           DropHandle(p) \/ TaskStops(p) \/ DropRuntime(p) \/ RemovePid(p)
              \/ Kill(p) \/ Quit(p)
    PROVE  Ordered'
<1> USE WhoIsWho DEF Kept, Serving, Ordered, OneInTransit, OneActive, BindsFree,
        UpIsReached, PidIsNamed, WaitsForNobody, InTransit, Active, Shape,
        TaskHasServer, Starting, Stopping, Waiting, Goto, TaskGoto, histVars
<1>1. CASE DropHandle(p)
    BY <1>1 DEF DropHandle
<1>2. CASE TaskStops(p)
    BY <1>2 DEF TaskStops
<1>3. CASE DropRuntime(p)
    BY <1>3 DEF DropRuntime
<1>4. CASE RemovePid(p)
    BY <1>4 DEF RemovePid
<1>5. CASE Kill(p) \/ Quit(p)
    BY <1>5 DEF Kill, Quit, Gone
<1> QED
    BY <1>1, <1>2, <1>3, <1>4, <1>5

\* launchd and lpt signal when nobody is on the way.
LEMMA SignalsInOrder ==
    ASSUME Kept,
           \/ \E p \in Daemons : Install(p)
           \/ ServiceUninstall \/ Stop \/ StopNothing \/ Uninstall
    PROVE  Ordered'
<1> USE WhoIsWho DEF Kept, Serving, Ordered, OneInTransit, OneActive, BindsFree,
        UpIsReached, PidIsNamed, WaitsForNobody, InTransit, Active, Shape,
        TaskHasServer, Starting, Stopping, Waiting, Goto, Notice, Overlaps
<1>1. ASSUME NEW p \in Daemons, Install(p)
      PROVE  Ordered'
    BY <1>1 DEF Install
<1>2. CASE ServiceUninstall
    <2>1. \A q \in Procs : ~InTransit(q)
        BY <1>2, ZenonT(60) DEF ServiceUninstall
    <2>2. agent \in Daemons /\ ctl' \notin Waiting /\ UNCHANGED <<task, sock, pidFile>>
        BY <1>2 DEF ServiceUninstall
    <2>3. pc' = pc \/ (pc[agent] = "up" /\ pc' = [pc EXCEPT ![agent] = "dropping"])
        <3>1. pc[agent] \notin Starting
            BY <2>1, <2>2
        <3>2. Terminate(agent)
            BY <1>2 DEF ServiceUninstall
        <3> QED
            BY <2>2, <3>1, <3>2 DEF Terminate
    <2> HIDE DEF Kept, Waiting, InTransit, Ordered
    <2> QED
        BY <2>1, <2>2, <2>3, TermInOrder
<1>3. CASE Stop
    <2>1. \A q \in Procs : ~InTransit(q)
        BY <1>3, ZenonT(60) DEF Stop
    <2>2. \/ pc' = pc /\ pc[pidFile] # "up"
          \/ pc[pidFile] = "up" /\ pc' = [pc EXCEPT ![pidFile] = "dropping"]
        BY <1>3, <2>1 DEF Stop, Terminate
    <2>3. pidFile \in Daemons /\ UNCHANGED <<task, sock, pidFile>>
        BY <1>3 DEF Stop
    <2>4. \A d \in Daemons : pc'[d] # "up"
        BY <2>2, <2>3
    <2> HIDE DEF Kept, Waiting, InTransit, Ordered
    <2> QED
        BY <2>1, <2>2, <2>3, <2>4, TermInOrder
<1>4. CASE StopNothing
    BY <1>4 DEF StopNothing, serverVars
<1>5. CASE Uninstall
    <2>1. \A q \in Procs : ~InTransit(q)
        BY <1>5, ZenonT(60) DEF Uninstall
    <2>2. \A d \in Daemons : pc[d] = "up" => d = pidFile
        OBVIOUS
    <2>3. \A q \in Procs : pc[q] \notin Starting
        BY <2>1
    <2>4. \A q \in Procs : pc'[q] = IF q \in Daemons /\ pc[q] = "up" THEN "dropping" ELSE pc[q]
        BY <1>5, <2>2, <2>3 DEF Uninstall
    <2>5. pc' = pc \/ \E d \in Daemons : pc[d] = "up" /\ pc' = [pc EXCEPT ![d] = "dropping"]
        BY <2>2, <2>4
    <2>6. UNCHANGED <<task, sock, pidFile>> /\ \A d \in Daemons : pc'[d] # "up"
        BY <1>5, <2>4 DEF Uninstall
    <2> HIDE DEF Kept, Waiting, InTransit, Ordered
    <2> QED
        BY <2>1, <2>5, <2>6, TermInOrder
<1> QED
    BY <1>1, <1>2, <1>3, <1>4, <1>5

\* lpt removes the pid file when no daemon serves, and restarts.
LEMMA RestInOrder ==
    ASSUME Kept, WaitClosed \/ Restart
    PROVE  Ordered'
<1> USE WhoIsWho DEF Kept, Serving, Ordered, OneInTransit, OneActive, BindsFree,
        UpIsReached, PidIsNamed, WaitsForNobody, InTransit, Active, Shape,
        TaskHasServer, Starting, Stopping, Waiting, Goto, Notice, Overlaps,
        serverVars, histVars
<1>1. CASE WaitClosed
    BY <1>1 DEF WaitClosed
<1>2. CASE Restart
    <2>1. CASE UNCHANGED <<pc, histVars>>
        BY <1>2, <2>1 DEF Restart
    <2>2. ASSUME NEW p \in Daemons, Goto(p, "new", "probe"), Notice(p)
          PROVE  Ordered'
        <3>1. \A q \in Procs \ {p} : ~InTransit(q)
            BY <2>2
        <3>2. ctl \notin Waiting /\ ctl' \notin Waiting /\ UNCHANGED <<task, sock, pidFile>>
            BY <1>2 DEF Restart
        <3>3. p \in Procs
            OBVIOUS
        <3> HIDE DEF Kept, Waiting, InTransit, Ordered, Goto
        <3> QED
            BY <2>2, <3>1, <3>2, <3>3, BeginInOrder
    <2> QED
        BY <1>2, <2>1, <2>2 DEF Restart
<1> QED
    BY <1>1, <1>2

\* Every step keeps the invariant.
LEMMA ServingIsKept ==
    ASSUME Serving, [Next]_vars
    PROVE  Serving'
<1>1. CASE UNCHANGED endpointState
    BY <1>1, SameEndpoint
<1>2. CASE EndpointNext
    <2>1. Shape' /\ TaskHasServer' /\ GuisDoNotStop' /\ (overlapped => overlapped')
        BY <1>2, ShapeStep
    <2>2. ASSUME ~overlapped'
          PROVE  Ordered'
        <3>1. Kept
            BY <2>1, <2>2 DEF Kept, Serving, Shape
        <3> QED
            BY <1>2, <3>1, StartInOrder, ProbeInOrder, WayInOrder, StopsInOrder,
               SignalsInOrder, RestInOrder
            DEF EndpointNext, Proceed, LptDaemon
    <2> QED
        BY <2>1, <2>2 DEF Serving, Shape
<1>3. ASSUME NEW r \in Opens,
             Send(r) \/ OpenLocally(r) \/ Answer(r) \/ GiveUp(r)
      PROVE  UNCHANGED endpointState
    BY <1>3 DEF Send, OpenLocally, Answer, GiveUp, Handle, Route, Respond,
                ConnectionLost, OtherEndpointVars, endpointState, endpointVars,
                serverVars, histVars
<1>4. CASE UNCHANGED vars
    BY <1>4, <1>1 DEF vars, endpointVars, serverVars, histVars, endpointState
<1> QED
    BY <1>1, <1>2, <1>3, <1>4 DEF Next

\* So it always holds.
LEMMA ServingAlways == Spec => []Serving
<1>1. Init => Serving
    <2> SUFFICES ASSUME EndpointInit
                 PROVE  Serving
        BY DEF Init
    <2>1. Shape /\ TaskHasServer /\ GuisDoNotStop
        BY DEF EndpointInit, Shape, TaskHasServer, GuisDoNotStop, Phases
    <2>2. OneInTransit /\ OneActive
        BY DEF EndpointInit, OneInTransit, OneActive, InTransit, Active,
               Starting, Stopping
    <2>3. BindsFree /\ UpIsReached /\ PidIsNamed /\ WaitsForNobody
        BY WhoIsWho DEF EndpointInit, BindsFree, UpIsReached, PidIsNamed,
               WaitsForNobody, Waiting
    <2> QED
        BY <2>1, <2>2, <2>3 DEF Serving, Ordered
<1> QED
    BY <1>1, ServingIsKept, PTL DEF Spec

\* headless-daemon main: one server answers per machine, the GUI's included, as
\* long as nobody starts or stops while another does.
THEOREM OnlyOneServer == Spec => []OneServer
<1>1. Serving => OneServer
    BY DEF Serving, TaskHasServer, Ordered, OneActive, OneServer, Listening, Active,
           Stopping
<1> QED
    BY <1>1, ServingAlways, PTL

\* Under the same condition a server is found at the endpoint.
THEOREM ServerIsFound == Spec => []ServerIsReached
<1>1. Serving => ServerIsReached
    BY DEF Serving, Ordered, UpIsReached, ServerIsReached
<1> QED
    BY <1>1, ServingAlways, PTL

\* write_pid_file and the three places that remove the file: the daemon that
\* is up is the one lpt daemon stop signals.
THEOREM PidFileNamesServer == Spec => []PidNamesServer
<1>1. Serving => PidNamesServer
    BY DEF Serving, Ordered, PidIsNamed, PidNamesServer
<1> QED
    BY <1>1, ServingAlways, PTL

\* lpt daemon stop and restart: when they have removed the pid file, no daemon
\* starts or serves any more, unless a start and a stop overlapped.
THEOREM StoppedIsStopped == Spec => StopIsTrue
<1>1. ASSUME Serving, Serving', [Next]_vars
      PROVE  [ctl' # ctl /\ ctl \in {"stop", "restart"} /\ pidFile' = Nobody =>
                overlapped' \/ \A d \in Daemons : pc[d] \notin Starting \cup {"up"}]_endpointVars
    <2> SUFFICES ASSUME ctl' # ctl, ctl \in {"stop", "restart"}, ~overlapped'
                 PROVE  \A d \in Daemons : pc[d] \notin Starting \cup {"up"}
        OBVIOUS
    <2>1. ctl \in Waiting
        BY DEF Waiting
    <2>2. CASE overlapped
        <3>1. EndpointNext
            BY <1>1 DEF Next, vars, endpointVars, Send, OpenLocally, Answer, GiveUp, Handle,
               Route, Respond, ConnectionLost, OtherEndpointVars
        <3> QED
            BY <1>1, <2>2, <3>1, ShapeStep
    <2>3. CASE ~overlapped
        BY <1>1, <2>1, <2>3 DEF Serving, Ordered, WaitsForNobody
    <2> QED
        BY <2>2, <2>3
<1> QED
    BY <1>1, ServingAlways, PTL DEF Spec, StopIsTrue

-----------------------------------------------------------------------------
(* The worker threads.                                                     *)

\* The requests a process is handling.
At(p) == {r \in Opens : server[r] = p /\ handler[r] \in {"handling", "handled"}
                                      /\ pc[p] # "gone"}

\* Phases of a process that has been a server.
Past == {"up", "gone"} \cup Stopping

Counters ==
    /\ work \in [Procs -> 0..Workers]
    /\ kills \in 0..MaxKills
    /\ server \in [Opens -> Procs \cup {Nobody}]

\* A request is with a process that listened when it came.
MetServer == \A r \in Opens : handler[r] \in Pending =>
    server[r] \in Procs /\ pc[server[r]] \in Past

\* work counts the handlers, and the runtime ends after them.
Counted == \A p \in Procs :
    /\ IsFiniteSet(At(p)) /\ work[p] = Cardinality(At(p))
    /\ pc[p] = "rmpid" => At(p) = {}

\* The server and lpt act once each.
Twice == \A r \in Opens : acts[r] <=
    (IF client[r] = "back" THEN 1 ELSE 0)
      + (IF handler[r] \in {"handled", "over"} THEN 1 ELSE 0)

Manned == OpenShape /\ Counters /\ MetServer /\ Counted /\ Twice

\* How the phase of a process and its workers change.
Moves(p) ==
    /\ pc[p] \in Past => pc'[p] \in Past
    /\ pc[p] = "gone" => pc'[p] = "gone"
    /\ work'[p] = work[p] \/ (pc'[p] = "gone" /\ work'[p] = 0)
    /\ pc[p] \in Past \ {"rmpid"} /\ pc'[p] = "gone" => work'[p] = 0 \/ pc[p] = "gone"
    /\ pc'[p] = "rmpid" => pc[p] = "rmpid" \/ (pc[p] = "dropped" /\ work[p] = 0)

\* Every start, stop, kill and lpt command moves a process in this way.
LEMMA HowProcsMove ==
    ASSUME Serving, Counters, EndpointNext, UNCHANGED openVars
    PROVE  (\A q \in Procs : Moves(q)) /\ Counters'
<1> USE WhoIsWho, EndpointAssumption
    DEF Serving, Shape, Counters, Moves, Past, Goto, TaskGoto, Phases, Starting, Stopping,
        histVars, openVars
<1> DEFINE Goal == (\A q \in Procs : Moves(q)) /\ Counters'
<1>1. ASSUME NEW p \in Procs, Start(p)
      PROVE  Goal
    BY <1>1 DEF Start, Notice
<1>2. ASSUME NEW p \in Procs, DaemonProbes(p)
      PROVE  Goal
    BY <1>2 DEF DaemonProbes, Asks
<1>3. ASSUME NEW p \in Procs, GuiProbes(p)
      PROVE  Goal
    BY <1>3 DEF GuiProbes, Asks, Serve
<1>4. ASSUME NEW p \in Procs, WritePid(p) \/ RemoveSocket(p) \/ Unlink(p) \/ Bind(p)
      PROVE  Goal
    BY <1>4 DEF WritePid, RemoveSocket, Unlink, Bind, Serve
<1>5. ASSUME NEW p \in Procs, DropHandle(p) \/ TaskStops(p)
      PROVE  Goal
    BY <1>5 DEF DropHandle, TaskStops
<1>6. ASSUME NEW p \in Procs, DropRuntime(p) \/ RemovePid(p)
      PROVE  Goal
    BY <1>6 DEF DropRuntime, RemovePid
<1>7. ASSUME NEW p \in Procs, Kill(p) \/ Quit(p)
      PROVE  Goal
    BY <1>7 DEF Kill, Quit, Gone
<1>8. ASSUME NEW p \in Daemons, Install(p)
      PROVE  Goal
    BY <1>8 DEF Install, InTurn, Notice
<1>9. CASE ServiceUninstall
    BY <1>9 DEF ServiceUninstall, Terminate, Notice
<1>10. CASE Stop \/ StopNothing
    BY <1>10, ZenonT(60) DEF Stop, StopNothing, Terminate, Notice, serverVars
<1>11. CASE Uninstall
    BY <1>11 DEF Uninstall, Notice
<1>12. CASE WaitClosed
    BY <1>12 DEF WaitClosed, serverVars
<1>13. CASE Restart
    BY <1>13 DEF Restart, Notice
<1> QED
    BY <1>1, <1>2, <1>3, <1>4, <1>5, <1>6, <1>7, <1>8, <1>9, <1>10, <1>11, <1>12, <1>13
    DEF EndpointNext, Proceed, LptDaemon

\* Processes that start, stop and die keep the account of the workers.
LEMMA MannedByEndpoint ==
    ASSUME Serving, Manned, EndpointNext, UNCHANGED openVars
    PROVE  Manned'
<1> USE DEF Manned, openVars
<1>1. (\A p \in Procs : Moves(p)) /\ Counters'
    BY HowProcsMove
<1>2. OpenShape' /\ Twice'
    BY DEF OpenShape, Twice
<1>3. MetServer'
    BY <1>1 DEF MetServer, Moves
<1>4. ASSUME NEW p \in Procs
      PROVE  /\ IsFiniteSet(At(p)') /\ work'[p] = Cardinality(At(p)')
             /\ pc'[p] = "rmpid" => At(p)' = {}
    <2>1. At(p) # {} => pc[p] \in Past \ {"gone", "rmpid"}
        BY DEF At, MetServer, Counted, Pending
    <2>2. At(p) = {} => work[p] = 0
        BY FS_EmptySet DEF Counted
    <2>3. work[p] = 0 => At(p) = {}
        BY FS_EmptySet DEF Counted
    <2>4. CASE pc'[p] = "gone"
        <3>1. At(p)' = {}
            BY <2>4 DEF At
        <3>2. work'[p] = 0
            BY <1>1, <2>1, <2>2, <2>4 DEF Moves
        <3> QED
            BY <3>1, <3>2, <2>4, FS_EmptySet
    <2>5. CASE pc'[p] # "gone"
        <3>1. pc[p] # "gone" /\ work'[p] = work[p]
            BY <1>1, <2>5 DEF Moves
        <3>2. At(p)' = At(p)
            BY <3>1, <2>5 DEF At
        <3> QED
            BY <1>1, <2>3, <3>1, <3>2 DEF Counted, Moves
    <2> QED
        BY <2>4, <2>5
<1>5. Counted'
    BY <1>4 DEF Counted
<1> QED
    BY <1>1, <1>2, <1>3, <1>5

\* A step of one lpt open keeps it.
LEMMA MannedByOpen ==
    ASSUME Serving, Manned, NEW r \in Opens,
           Send(r) \/ OpenLocally(r) \/ Answer(r) \/ GiveUp(r)
    PROVE  Manned'
<1> USE WhoIsWho, EndpointAssumption
    DEF Manned, ClientGoto, HandlerGoto, endpointVars, serverVars, histVars, Pending
<1> DEFINE Same == \A p \in Procs : At(p)' = At(p)
<1>1. ASSUME Same, UNCHANGED <<work, pc>> PROVE Counted'
    BY <1>1 DEF Counted
<1>2. CASE Send(r)
    <2>1. Same
        BY <1>2 DEF Send, At, Counters, OpenShape
    <2>2. Reaches => sock \in Procs /\ pc[sock] \in Past
        BY DEF Reaches, Listening, Serving, Shape, TaskHasServer, Past, Stopping
    <2>3. Counted'
        BY <1>1, <1>2, <2>1 DEF Send
    <2>4. OpenShape' /\ Counters'
        BY <1>2, <2>2 DEF Send, OpenShape, Counters
    <2>5. MetServer'
        BY <1>2, <2>2 DEF Send, OpenShape, Counters, MetServer
    <2>6. Twice'
        BY <1>2 DEF Send, OpenShape, Twice
    <2> QED
        BY <2>3, <2>4, <2>5, <2>6
<1>3. CASE Handle(r)
    <2>0. PICK p \in Procs : p = server[r]
        BY <1>3 DEF Handle, Runs, MetServer
    <2>1. p \in Procs /\ r \notin At(p) /\ pc[p] \notin {"gone", "rmpid"}
        BY <1>3, <2>0 DEF Handle, Runs, At, MetServer
    <2>2. /\ \A q \in Procs \ {p} : At(q)' = At(q) /\ work'[q] = work[q]
          /\ At(p)' = At(p) \cup {r} /\ work'[p] = work[p] + 1
        <3>1. UNCHANGED <<server, pc>> /\ handler' = [handler EXCEPT ![r] = "handling"]
              /\ work' = [work EXCEPT ![p] = @ + 1] /\ handler[r] = "queued"
            BY <1>3, <2>0 DEF Handle, Busy, OtherEndpointVars
        <3> QED
            BY <2>0, <2>1, <3>1 DEF At, OpenShape, Counters
    <2>3. IsFiniteSet(At(p)') /\ Cardinality(At(p)') = Cardinality(At(p)) + 1
        BY <2>1, <2>2, FS_AddElement DEF Counted
    <2>4. UNCHANGED pc
        BY <1>3 DEF Handle, OtherEndpointVars
    <2>5. Counted'
        <3> SUFFICES ASSUME NEW q \in Procs
                     PROVE  /\ IsFiniteSet(At(q)') /\ work'[q] = Cardinality(At(q)')
                            /\ pc'[q] = "rmpid" => At(q)' = {}
            BY DEF Counted
        <3>1. CASE q = p
            BY <2>1, <2>2, <2>3, <2>4, <3>1 DEF Counted
        <3>2. CASE q # p
            BY <2>2, <2>4, <3>2 DEF Counted
        <3> QED
            BY <3>1, <3>2
    <2>6. OpenShape' /\ Counters' /\ MetServer' /\ Twice'
        BY <1>3, <2>0, <2>1 DEF Handle, Busy, OtherEndpointVars, OpenShape, Counters, MetServer, Twice
    <2> QED
        BY <2>5, <2>6
<1>4. CASE Route(r)
    <2>1. Same
        BY <1>4 DEF Route, At, OpenShape
    <2>2. Counted'
        BY <1>1, <1>4, <2>1 DEF Route
    <2>3. OpenShape' /\ Counters' /\ MetServer'
        BY <1>4 DEF Route, Act, OpenShape, Counters, MetServer
    <2>4. Twice'
        BY <1>4 DEF Route, Act, OpenShape, Twice
    <2> QED
        BY <2>2, <2>3, <2>4
<1>5. CASE Respond(r)
    <2>0. PICK p \in Procs : p = server[r]
        BY <1>5 DEF Respond, Runs, MetServer
    <2>1. p \in Procs /\ r \in At(p) /\ pc[p] \notin {"gone", "rmpid"}
        BY <1>5, <2>0 DEF Respond, Runs, At, MetServer
    <2>2. /\ \A q \in Procs \ {p} : At(q)' = At(q) /\ work'[q] = work[q]
          /\ At(p)' = At(p) \ {r} /\ work'[p] = work[p] - 1
        <3>1. UNCHANGED <<server, pc>> /\ handler' = [handler EXCEPT ![r] = "over"]
              /\ work' = [work EXCEPT ![p] = @ + (-1)]
            BY <1>5, <2>0 DEF Respond, Busy, OtherEndpointVars
        <3> QED
            BY <2>0, <2>1, <3>1 DEF At, OpenShape, Counters
    <2>3. IsFiniteSet(At(p)') /\ Cardinality(At(p)') = Cardinality(At(p)) - 1
        BY <2>1, <2>2, FS_RemoveElement DEF Counted
    <2>4. UNCHANGED pc
        BY <1>5 DEF Respond, OtherEndpointVars
    <2>5. Counted'
        <3> SUFFICES ASSUME NEW q \in Procs
                     PROVE  /\ IsFiniteSet(At(q)') /\ work'[q] = Cardinality(At(q)')
                            /\ pc'[q] = "rmpid" => At(q)' = {}
            BY DEF Counted
        <3>1. CASE q = p
            BY <2>1, <2>2, <2>3, <2>4, <3>1 DEF Counted
        <3>2. CASE q # p
            BY <2>2, <2>4, <3>2 DEF Counted
        <3> QED
            BY <3>1, <3>2
    <2>6. Cardinality(At(p)') \in Nat
        BY <2>3, FS_CardinalityType
    <2>7. work' \in [Procs -> 0..Workers]
        BY <1>5, <2>0, <2>1, <2>2, <2>3, <2>6 DEF Respond, Busy, Counters, Counted
    <2>8. OpenShape' /\ Counters' /\ MetServer'
        BY <1>5, <2>7 DEF Respond, OtherEndpointVars, OpenShape, Counters, MetServer
    <2>9. Twice'
        BY <1>5 DEF Respond, OpenShape, Twice
    <2> QED
        BY <2>5, <2>8, <2>9
<1>6. CASE ConnectionLost(r)
    <2>1. server[r] \in Procs /\ pc[server[r]] \in {"gone", "rmpid"}
        BY <1>6 DEF ConnectionLost, Runs, MetServer
    <2>2. At(server[r]) = {}
        BY <2>1 DEF Counted, At
    <2>3. r \notin At(server[r])
        BY <2>2
    <2>4. Same
        BY <1>6, <2>3 DEF ConnectionLost, At, OpenShape
    <2>5. Counted'
        BY <1>1, <1>6, <2>4 DEF ConnectionLost
    <2>6. OpenShape' /\ Counters' /\ MetServer'
        BY <1>6 DEF ConnectionLost, OpenShape, Counters, MetServer
    <2>7. Twice'
        BY <1>6 DEF ConnectionLost, OpenShape, Twice
    <2> QED
        BY <2>5, <2>6, <2>7
<1>7. CASE OpenLocally(r) \/ GiveUp(r)
    <2>1. Same
        BY <1>7 DEF OpenLocally, GiveUp, At
    <2>2. Counted'
        BY <1>1, <1>7, <2>1 DEF OpenLocally, GiveUp
    <2>3. OpenShape' /\ Counters' /\ MetServer'
        <3>1. acts' \in [Opens -> Nat]
            BY <1>7 DEF OpenLocally, GiveUp, Act, OpenShape
        <3> QED
            BY <1>7, <3>1 DEF OpenLocally, GiveUp, OpenShape, Counters, MetServer
    <2>4. Twice'
        BY <1>7 DEF OpenLocally, GiveUp, Act, OpenShape, Twice
    <2> QED
        BY <2>2, <2>3, <2>4
<1> QED
    BY <1>2, <1>3, <1>4, <1>5, <1>6, <1>7 DEF Answer

\* So the account is always right.
LEMMA MannedAlways == Spec => [](Serving /\ Manned)
<1>1. Init => Manned
    <2> SUFFICES ASSUME Init PROVE Manned
        OBVIOUS
    <2>1. \A p \in Procs : At(p) = {}
        BY DEF Init, At
    <2>2. Counted
        BY <2>1, FS_EmptySet DEF Init, EndpointInit, Counted
    <2> QED
        BY <2>2, EndpointAssumption
        DEF Init, EndpointInit, Manned, OpenShape, Counters, MetServer, Twice, Pending
<1>2. ASSUME Serving, Manned, [Next]_vars PROVE Manned'
    <2>1. CASE EndpointNext /\ UNCHANGED openVars
        BY <1>2, <2>1, MannedByEndpoint
    <2>2. CASE \E r \in Opens : Send(r) \/ OpenLocally(r) \/ Answer(r) \/ GiveUp(r)
        BY <1>2, <2>2, MannedByOpen
    <2>3. CASE UNCHANGED vars
        BY <1>2, <2>3
        DEF vars, endpointVars, serverVars, histVars, openVars, Manned, OpenShape, Counters,
            MetServer, Counted, At, Twice
    <2> QED
        BY <1>2, <2>1, <2>2, <2>3 DEF Next
<1> QED
    BY <1>1, <1>2, ServingAlways, PTL DEF Spec

\* The state of processes, workers and requests keeps its type: a worker that
\* is counted as busy has a request in hand, in every order of requests,
\* timeouts, stops and kills, and an open is acted on twice at most.
THEOREM EndpointTypeCorrect == Spec => []TypeOK
<1>1. Serving /\ Manned => TypeOK
    <2> SUFFICES ASSUME Serving, Manned PROVE TypeOK
        OBVIOUS
    <2>1. EndpointTypeOK
        BY DEF Serving, Shape, Phases, Manned, Counters, EndpointTypeOK
    <2>2. acts \in [Opens -> 0..2]
        BY DEF Manned, OpenShape, Twice
    <2>3. \A p \in Procs :
            work[p] = Cardinality({r \in Opens : /\ server[r] = p
                                                 /\ handler[r] \in {"handling", "handled"}
                                                 /\ pc[p] # "gone"})
        <3>1. ASSUME NEW p \in Procs
              PROVE  At(p) = {r \in Opens : /\ server[r] = p
                                            /\ handler[r] \in {"handling", "handled"}
                                            /\ pc[p] # "gone"}
            BY DEF At
        <3> QED
            BY <3>1 DEF Manned, Counted
    <2> QED
        BY <2>1, <2>2, <2>3 DEF Manned, OpenShape, Counters, TypeOK
<1> QED
    BY <1>1, MannedAlways, PTL

\* All that the run checks of the endpoint: one server, and it is found.
THEOREM EndpointAlwaysOwned == Spec => []EndpointIsOwned
BY EndpointTypeCorrect, OnlyOneServer, ServerIsFound, PTL DEF EndpointIsOwned
=============================================================================
