------------------------------- MODULE Opener -------------------------------
(***************************************************************************)
(* Which application opened a URL: crates/platform-mac/src/opener.rs.      *)
(*                                                                         *)
(* macOS does not say who sent a URL, and LinkPilot is in front when it is *)
(* asked.  A thread therefore reads the application in front every 750 ms  *)
(* and keeps the last eight others; detect() takes the newest of them that *)
(* was seen in the last thirty seconds.  Entries are told apart by bundle  *)
(* id alone, so two applications without one count as one.                 *)
(***************************************************************************)
EXTENDS Naturals, Sequences, SequencesExt

CONSTANTS
    Apps, Self,     \* applications, and LinkPilot, which is one of them
    bundle,         \* the bundle id of each, or the value that stands for none
    RingCapacity, StaleAfter,   \* the constants of opener.rs, in ticks
    PollInterval,
    MaxLate,        \* ticks a sleep may take too long
    MaxTime         \* bound: the clock

VARIABLES
    clock,
    front,      \* the application in front
    seenApps,   \* the ring: <<[app, seen], ..>>, newest last
    reading,    \* what the poller has read and not pushed, or Nothing
    wakeAt,     \* when the poller's sleep ends
    stretches   \* of every bundle id: when an application with it was last in
                \* front, and from when on (history)

openerVars == <<clock, front, seenApps, reading, wakeAt, stretches>>

Nothing == [none |-> TRUE]
Bundles == {bundle[a] : a \in Apps}
Entry == [app : Apps, seen : 0..MaxTime]

OpenerTypeOK ==
    /\ clock \in 0..MaxTime
    /\ front \in Apps
    /\ Len(seenApps) <= RingCapacity /\ ToSet(seenApps) \subseteq Entry
    /\ reading \in Entry \cup {Nothing}
    /\ wakeAt \in 0..MaxTime + PollInterval + MaxLate
    /\ DOMAIN stretches = Bundles

OpenerInit ==
    /\ clock = 0 /\ front = Self
    /\ seenApps = <<>> /\ reading = Nothing /\ wakeAt = 0
    /\ stretches = [b \in Bundles |-> [from |-> 0, to |-> 0, known |-> b = bundle[Self]]]

\* The user brings another application to the front, or LinkPilot is.
Switch ==
    \E a \in Apps \ {front} :
        /\ front' = a
        /\ stretches' = [stretches EXCEPT
               ![bundle[a]] = [from |-> IF bundle[a] = bundle[front] THEN @.from ELSE clock,
                               to |-> clock, known |-> TRUE]]
        /\ UNCHANGED <<clock, seenApps, reading, wakeAt>>

\* Time passes.  The poller is never later than MaxLate.
Tick ==
    /\ clock < MaxTime
    /\ reading = Nothing
    /\ clock < wakeAt + MaxLate
    /\ clock' = clock + 1
    /\ stretches' = [stretches EXCEPT ![bundle[front]].to = clock + 1]
    /\ UNCHANGED <<front, seenApps, reading, wakeAt>>

\* poll_loop, read_frontmost: LinkPilot itself is dropped at once.
Poll ==
    /\ reading = Nothing /\ clock >= wakeAt
    /\ IF bundle[front] = bundle[Self]
       THEN wakeAt' = clock + PollInterval /\ UNCHANGED reading
       ELSE reading' = [app |-> front, seen |-> clock] /\ UNCHANGED wakeAt
    /\ UNCHANGED <<clock, front, seenApps, stretches>>

IsDup(e) == seenApps # <<>> /\ bundle[Last(seenApps).app] = bundle[e.app]

\* Faulty variant: a repeated application keeps its first time.
WithEntryOnce(e) ==
    IF IsDup(e) THEN seenApps
    ELSE Append(IF Len(seenApps) = RingCapacity THEN Tail(seenApps) ELSE seenApps, e)

\* The time of a repeated application is renewed; its name stays.
WithEntry(e) ==
    IF IsDup(e) THEN [seenApps EXCEPT ![Len(seenApps)].seen = e.seen]
    ELSE Append(IF Len(seenApps) = RingCapacity THEN Tail(seenApps) ELSE seenApps, e)

\* push_unique, then the sleep.
PushUnique ==
    /\ reading # Nothing
    /\ seenApps' = WithEntry(reading)
    /\ reading' = Nothing
    /\ wakeAt' = clock + PollInterval
    /\ UNCHANGED <<clock, front, stretches>>

Fresh == {i \in DOMAIN seenApps : clock < seenApps[i].seen + StaleAfter}

\* detect(): the newest fresh entry, read under the lock of the ring.
Detected ==
    IF Fresh = {} THEN Nothing
    ELSE [app |-> seenApps[CHOOSE i \in Fresh : \A j \in Fresh : j <= i].app]

OpenerNext == Switch \/ Tick \/ Poll \/ PushUnique

OpenerSpec == OpenerInit /\ [][OpenerNext]_openerVars

-----------------------------------------------------------------------------
(* Properties.                                                             *)

\* The answer was in front, or an application with its bundle id was, less
\* than thirty seconds ago, and it is never LinkPilot.
ReportsRecentOther ==
    Detected # Nothing =>
        /\ bundle[Detected.app] # bundle[Self]
        /\ stretches[bundle[Detected.app]].known
        /\ clock < stretches[bundle[Detected.app]].to + StaleAfter

\* Who was in front long enough for a poll, and last before LinkPilot, is the
\* one that is named: however long it had been there, and whoever came before.
\* Only an application that was there between two polls is missed.
FindsOpener ==
    \A b \in Bundles \ {bundle[Self]} :
        LET s == stretches[b] IN
        /\ front = Self /\ reading = Nothing
        /\ s.known
        /\ \A c \in Bundles \ {b, bundle[Self]} : ~stretches[c].known \/ stretches[c].to < s.to
        /\ s.to - s.from > PollInterval + MaxLate
        /\ clock < s.to + StaleAfter - (PollInterval + MaxLate)
        => Detected # Nothing /\ bundle[Detected.app] = b
=============================================================================
