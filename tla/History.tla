------------------------------ MODULE History ------------------------------
(***************************************************************************)
(* The route history and the lists of it that the pages show:              *)
(* src/crates/core/src/history.rs, its writers (url_handler, ipc_host,     *)
(* route_open) and a page that reads it (inspector, sidebar, popover).     *)
(*                                                                         *)
(* A route is logged under the lock of the ring and announced afterwards   *)
(* by an event; routes run on the main thread and on the threads of the    *)
(* server.  A page asks for the newest records and puts those it hears of  *)
(* in front of them; answers and events reach it independently.            *)
(***************************************************************************)
EXTENDS Naturals, Sequences, SequencesExt

CONSTANTS
    Routes,     \* routes, each on a thread of its own
    Capacity,   \* DEFAULT_CAPACITY
    Limit,      \* records a page shows
    MaxAsks     \* bound: refreshes of the page

ASSUME HistoryAssumption ==
    /\ Capacity \in Nat \ {0}
    /\ Limit \in 1..Capacity
    /\ MaxAsks \in Nat

VARIABLES
    ring,       \* the records kept, oldest first
    log,        \* every record ever logged (history)
    at,         \* where each route stands: "new", "logged", "announced"
    events,     \* announced and not yet delivered
    listening,  \* the page has its listener
    refresh,    \* "none", "asked" or "answered"
    answer,     \* the records answered and not yet shown
    shown,      \* the page's list, newest first
    crossed,    \* an event passed the answer of the refresh under way, or was
                \* lost or announced out of order (history)
    asks        \* refreshes so far

vars == <<ring, log, at, events, listening, refresh, answer, shown, crossed, asks>>

Newest(s, n) == SubSeq(Reverse(s), 1, IF Len(s) < n THEN Len(s) ELSE n)

Push(s, r) ==
    IF Len(s) = Capacity THEN Append(Tail(s), r) ELSE Append(s, r)

\* RouteHistory::recent
Recent(limit) == Newest(ring, limit)

TypeOK ==
    /\ ring \in Seq(Routes) /\ Len(ring) <= Capacity
    /\ log \in Seq(Routes) /\ events \in Seq(Routes)
    /\ answer \in Seq(Routes) /\ shown \in Seq(Routes)
    /\ at \in [Routes -> {"new", "logged", "announced"}]
    /\ refresh \in {"none", "asked", "answered"}
    /\ {listening, crossed} \subseteq BOOLEAN
    /\ asks \in 0..MaxAsks

Init ==
    /\ ring = <<>> /\ log = <<>> /\ events = <<>>
    /\ at = [r \in Routes |-> "new"]
    /\ listening = FALSE
    /\ refresh = "none" /\ answer = <<>> /\ shown = <<>>
    /\ crossed = FALSE
    /\ asks = 0

\* history.log(record)
Log(r) ==
    /\ at[r] = "new"
    /\ at' = [at EXCEPT ![r] = "logged"]
    /\ ring' = Push(ring, r)
    /\ log' = Append(log, r)
    /\ UNCHANGED <<events, listening, refresh, answer, shown, crossed, asks>>

\* emit("route-logged", &record).  Two threads may emit in the other order.
Announce(r) ==
    /\ at[r] = "logged"
    /\ at' = [at EXCEPT ![r] = "announced"]
    /\ events' = Append(events, r)
    /\ crossed' = (crossed \/ \E k \in 1..Len(log) :
            /\ at[log[k]] = "logged" /\ log[k] # r
            /\ \E j \in k + 1..Len(log) : log[j] = r)
    /\ UNCHANGED <<ring, log, listening, refresh, answer, shown, asks>>

InFront(s, r) == SubSeq(<<r>> \o s, 1, IF Len(s) < Limit THEN Len(s) + 1 ELSE Limit)

\* Faulty variant: a record heard of goes to the end of the list.
DeliverLast ==
    /\ events # <<>>
    /\ events' = Tail(events)
    /\ shown' = IF listening /\ Len(shown) < Limit THEN Append(shown, Head(events)) ELSE shown
    /\ crossed' = (crossed \/ ~listening \/ refresh = "answered")
    /\ UNCHANGED <<ring, log, at, listening, refresh, answer, asks>>

\* The listener puts the record in front; before it is registered the event
\* is gone.  What is shown between answer and display is overwritten by it.
Deliver ==
    /\ events # <<>>
    /\ events' = Tail(events)
    /\ shown' = IF listening THEN InFront(shown, Head(events)) ELSE shown
    /\ crossed' = (crossed \/ ~listening \/ refresh = "answered")
    /\ UNCHANGED <<ring, log, at, listening, refresh, answer, asks>>

Listen ==
    /\ ~listening
    /\ listening' = TRUE
    /\ UNCHANGED <<ring, log, at, events, refresh, answer, shown, crossed, asks>>

\* refresh(): at mount, and when the configuration changes.
Ask ==
    /\ refresh = "none"
    /\ asks < MaxAsks
    /\ asks' = asks + 1
    /\ refresh' = "asked"
    /\ UNCHANGED <<ring, log, at, events, listening, answer, shown, crossed>>

\* route_history: a record that is in the answer and still to be delivered
\* will be shown twice.
Answer ==
    /\ refresh = "asked"
    /\ refresh' = "answered"
    /\ answer' = Recent(Limit)
    /\ crossed' = \E r \in ToSet(log) : at[r] = "logged" \/ r \in ToSet(events)
    /\ UNCHANGED <<ring, log, at, events, listening, shown, asks>>

\* setRecords(recs), when all answers of the Promise.all are there.
Show ==
    /\ refresh = "answered"
    /\ refresh' = "none"
    /\ shown' = answer
    /\ answer' = <<>>
    /\ UNCHANGED <<ring, log, at, events, listening, crossed, asks>>

Next ==
    \/ \E r \in Routes : Log(r) \/ Announce(r)
    \/ Deliver \/ Listen \/ Ask \/ Answer \/ Show

Spec == Init /\ [][Next]_vars

-----------------------------------------------------------------------------
(* Properties.                                                             *)

\* The ring holds the newest records ever logged, in their order, as many as
\* fit: whatever threads log, none of them is skipped or kept too long.
RingIsNewest ==
    /\ Len(ring) = IF Len(log) < Capacity THEN Len(log) ELSE Capacity
    /\ \A i \in DOMAIN ring : ring[i] = log[Len(log) - Len(ring) + i]

\* Nothing is under way to the page.
Quiet ==
    /\ events = <<>> /\ refresh # "answered"
    /\ \A r \in Routes : at[r] # "logged"

\* "The sidebar hit counts stay in sync with what those pages render": once
\* every event has arrived a page shows the newest records, each once and in
\* order, unless an event and the answer of its last refresh crossed, an event
\* came before the listener, or two threads announced in the other order.
ShownIsRecent == Quiet /\ ~crossed => shown = Recent(Limit)
============================================================================
