------------------------------ MODULE Desktop ------------------------------
(***************************************************************************)
(* Four parts of the desktop application that share no state, side by      *)
(* side: a behaviour is one of the route history, of the log of picks, of  *)
(* the opener detection or of the tray, and the others rest.               *)
(***************************************************************************)
EXTENDS History, FiniteSets

CONSTANTS
    Procs, Targets, host, Retention, Ttl, MinCount, MaxPicks, MaxDay, MaxCalls,
    Apps, Self, bundle, RingCapacity, StaleAfter, PollInterval, MaxLate, MaxTime,
    Suppress, MaxNow, MaxUserActs

VARIABLES
    part,       \* the part that runs
    day, lines, muted, logTmp, muteTmp, call, picks, calls, cleared, promised, collided,
    clock, front, seenApps, reading, wakeAt, stretches,
    now, popover, focused, lastHidden, hidAt, prewarm, queue, pressed, acts,
    wish, odd, duplicate

O == INSTANCE Observations
P == INSTANCE Opener
T == INSTANCE Tray

ASSUME DesktopAssumption ==
    /\ {Retention, Ttl, MaxPicks, MaxDay, MaxCalls} \subseteq Nat
    /\ MinCount \in Nat \ {0}
    /\ {StaleAfter, PollInterval, MaxLate, MaxTime} \subseteq Nat
    /\ RingCapacity \in Nat \ {0}
    /\ Self \in Apps
    /\ {Suppress, MaxNow, MaxUserActs} \subseteq Nat

obsVars == <<day, lines, muted, logTmp, muteTmp, call, picks, calls, cleared,
             promised, collided>>
openerVars == <<clock, front, seenApps, reading, wakeAt, stretches>>
trayVars == <<now, popover, focused, lastHidden, hidAt, prewarm, queue, pressed,
              acts, wish, odd, duplicate>>

DesktopInit ==
    /\ part \in {"history", "observations", "opener", "tray"}
    /\ Init /\ O!Init /\ P!OpenerInit /\ T!TrayInit

DesktopNext ==
    /\ UNCHANGED part
    /\ \/ part = "history" /\ Next /\ UNCHANGED <<obsVars, openerVars, trayVars>>
       \/ part = "observations" /\ O!Next /\ UNCHANGED <<vars, openerVars, trayVars>>
       \/ part = "opener" /\ P!OpenerNext /\ UNCHANGED <<vars, obsVars, trayVars>>
       \/ part = "tray" /\ T!TrayNext /\ UNCHANGED <<vars, obsVars, openerVars>>

DesktopSpec ==
    DesktopInit /\ [][DesktopNext]_<<part, vars, obsVars, openerVars, trayVars>>

\* The history keeps the newest routes, and a page that follows it shows them.
HistoryIsFollowed == TypeOK /\ RingIsNewest /\ ShownIsRecent

\* Picks, clears and dismissals last, and suggestions follow from them.
ObservationsAreKept ==
    /\ O!TypeOK /\ O!KeepsPicks /\ O!ClearedStaysCleared
    /\ O!OneSuggestionPerHost /\ O!DismissedStaysAway

\* The opener that is reported is the one the user came from.
OpenerIsFound == P!OpenerTypeOK /\ P!ReportsRecentOther /\ P!FindsOpener

\* The popover is one window, and does what the clicks ask.
PopoverObeys == T!TrayTypeOK /\ T!ClickToggles /\ T!BuiltOnce
=============================================================================
