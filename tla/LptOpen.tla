------------------------------ MODULE LptOpen ------------------------------
(***************************************************************************)
(* lpt open over the endpoint: run_open of crates/cli/src/main.rs, the     *)
(* client and server of crates/ipc, RouteOpen in crates/core/src/daemon.rs *)
(* (headless) and in src-tauri/src/ipc_host.rs (GUI).                      *)
(*                                                                         *)
(* A request is queued with the server it connected to and is handled by   *)
(* one of its worker threads, which does nothing else meanwhile.  lpt      *)
(* gives up after five seconds, the handler does not.  What the handler    *)
(* decides for the URL may be anything: the configuration changes.         *)
(***************************************************************************)
EXTENDS Endpoint

CONSTANT Opens      \* invocations of lpt open

VARIABLES
    client,     \* where each lpt stands
    server,     \* the process it is connected to
    handler,    \* where the handling of its request stands
    acts,       \* how often the URL was launched or handed to a picker
    slow        \* lpt gave up waiting

openVars == <<client, server, handler, acts, slow>>
vars == <<endpointVars, openVars>>

Pending == {"queued", "handling", "handled"}

TypeOK ==
    /\ EndpointTypeOK
    /\ client \in [Opens -> {"new", "waiting", "local", "back"}]
    /\ server \in [Opens -> Procs \cup {Nobody}]
    /\ handler \in [Opens -> Pending \cup {"none", "over"}]
    /\ acts \in [Opens -> 0..2]
    /\ slow \in [Opens -> BOOLEAN]
    /\ \A p \in Procs :
        work[p] = Cardinality({r \in Opens : /\ server[r] = p
                                             /\ handler[r] \in {"handling", "handled"}
                                             /\ pc[p] # "gone"})

Init ==
    /\ EndpointInit
    /\ client = [r \in Opens |-> "new"]
    /\ server = [r \in Opens |-> Nobody]
    /\ handler = [r \in Opens |-> "none"]
    /\ acts = [r \in Opens |-> 0]
    /\ slow = [r \in Opens |-> FALSE]

-----------------------------------------------------------------------------
ClientGoto(r, from, to) == client[r] = from /\ client' = [client EXCEPT ![r] = to]
HandlerGoto(r, from, to) == handler[r] = from /\ handler' = [handler EXCEPT ![r] = to]
Act(r) == acts' = [acts EXCEPT ![r] = @ + 1]
Busy(p, n) == work' = [work EXCEPT ![p] = @ + n]
OtherEndpointVars == UNCHANGED <<pc, task, sock, pidFile, agent, ctl, histVars>>

\* The server's runtime has neither ended nor been dropped.
Runs(p) == p # Nobody /\ pc[p] \notin {"gone", "rmpid"}

\* client::send connects, or finds no socket or nobody behind it: Offline.
\* --local does not try.
Send(r) ==
    /\ \/ /\ Reaches /\ ClientGoto(r, "new", "waiting")
          /\ server' = [server EXCEPT ![r] = sock]
          /\ HandlerGoto(r, "none", "queued")
       \/ /\ ClientGoto(r, "new", "local")
          /\ UNCHANGED <<server, handler>>
    /\ UNCHANGED <<endpointVars, acts, slow>>

\* A worker takes the request up.
Handle(r) ==
    /\ Runs(server[r]) /\ HandlerGoto(r, "queued", "handling")
    /\ work[server[r]] < Workers /\ Busy(server[r], 1)
    /\ OtherEndpointVars /\ UNCHANGED <<client, server, acts, slow>>

\* RouteOpen launches the URL, or with a GUI hands it to the picker; or leaves
\* it, blocks it, fails to launch it, or has no picker for an Ask.
Route(r) ==
    /\ Runs(server[r]) /\ HandlerGoto(r, "handling", "handled")
    /\ Act(r) \/ UNCHANGED acts
    /\ UNCHANGED <<endpointVars, client, server, slow>>

\* The response, an error or not; nobody may be waiting for it any more.
Respond(r) ==
    /\ Runs(server[r]) /\ HandlerGoto(r, "handled", "over")
    /\ client' = [client EXCEPT ![r] = IF @ = "waiting" THEN "back" ELSE @]
    /\ Busy(server[r], -1)
    /\ OtherEndpointVars /\ UNCHANGED <<server, acts, slow>>

\* Faulty variant: a request whose connection breaks is run again locally.
ConnectionLostIsOffline(r) ==
    /\ handler[r] \in Pending /\ ~Runs(server[r])
    /\ handler' = [handler EXCEPT ![r] = "over"]
    /\ client' = [client EXCEPT ![r] = IF @ = "waiting" THEN "local" ELSE @]
    /\ UNCHANGED <<endpointVars, server, acts, slow>>

\* Faulty variant: lpt reads on from a connection that is closed.
ConnectionLostUnseen(r) ==
    /\ handler[r] \in Pending /\ ~Runs(server[r])
    /\ handler' = [handler EXCEPT ![r] = "over"]
    /\ UNCHANGED <<endpointVars, client, server, acts, slow>>

\* The server has been killed, or has dropped its runtime with the request
\* still queued: the connection closes, lpt reports it, and that is not
\* Offline.
ConnectionLost(r) ==
    /\ handler[r] \in Pending /\ ~Runs(server[r])
    /\ handler' = [handler EXCEPT ![r] = "over"]
    /\ client' = [client EXCEPT ![r] = IF @ = "waiting" THEN "back" ELSE @]
    /\ UNCHANGED <<endpointVars, server, acts, slow>>

\* Timeout: all workers are busy, this request's own among them or not.  It is
\* classified as Offline, and the handler goes on.
GiveUp(r) ==
    /\ handler[r] = "queued" => work[server[r]] = Workers
    /\ ClientGoto(r, "waiting", "local")
    /\ slow' = [slow EXCEPT ![r] = TRUE]
    /\ UNCHANGED <<endpointVars, server, handler, acts>>

\* The rest of run_open: lpt launches it, leaves it, or fails (an Ask, a
\* Block, a failed launch).
OpenLocally(r) ==
    /\ ClientGoto(r, "local", "back")
    /\ Act(r) \/ UNCHANGED acts
    /\ UNCHANGED <<endpointVars, server, handler, slow>>

Answer(r) == Handle(r) \/ Route(r) \/ Respond(r) \/ ConnectionLost(r)

Next ==
    \/ EndpointNext /\ UNCHANGED openVars
    \/ \E r \in Opens : Send(r) \/ OpenLocally(r) \/ Answer(r) \/ GiveUp(r)

\* Whatever is under way is scheduled, and every launch comes to an end.  Each
\* process and each request takes a bounded number of steps, so it is enough
\* that one of them is taken as long as there are any.
Fairness ==
    WF_vars(\/ UNCHANGED openVars /\ \E p \in Procs : Proceed(p)
            \/ \E r \in Opens : Answer(r) \/ OpenLocally(r))

Spec == Init /\ [][Next]_vars /\ Fairness

-----------------------------------------------------------------------------
\* No URL is opened twice, by a server and by lpt's fallback, unless lpt gave
\* up on a server that was slow: no socket, a refused connection and a server
\* that dies in the middle do not lead to it.
OnceUnlessSlow == \A r \in Opens : acts[r] > 1 => slow[r]

\* Every process that was started serves, is a client, or ends; one that was
\* told to stop ends, whatever requests it still has.
StartsSettle == \A p \in Procs : InTransit(p) ~> ~InTransit(p)

\* Every lpt open that has been sent comes back.
OpensReturn == \A r \in Opens : client[r] \in {"waiting", "local"} ~> client[r] = "back"

\* One server, and it is found.
EndpointIsOwned == TypeOK /\ OneServer /\ ServerIsReached

\* Neither a start, a stop nor an open hangs.
CallsReturn == StartsSettle /\ OpensReturn
=============================================================================
