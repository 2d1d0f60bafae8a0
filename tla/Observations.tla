---------------------------- MODULE Observations ----------------------------
(***************************************************************************)
(* The log of picks and the suggestions made from it:                      *)
(* src/crates/core/src/observations.rs.                                    *)
(*                                                                         *)
(* A store belongs to one process, and its write lock orders the calls of  *)
(* that process only; for a while two processes of the application may     *)
(* run.  Appending a line is atomic; pruning, clearing and dismissing      *)
(* write a tmp file, by one name for all processes, and rename it.         *)
(***************************************************************************)
EXTENDS Lists

CONSTANTS
    Procs,        \* processes with a store
    Targets,      \* (host, browser, profile) that picks choose
    host,         \* the host of each target
    Retention,    \* behavior_log_retention_days, in days
    Ttl,          \* DISMISSAL_TTL_DAYS
    MinCount,     \* MIN_OBSERVATIONS
    MaxPicks,     \* bound: picks made
    MaxDay,       \* bound: days that pass
    MaxCalls      \* bound: calls that rewrite a file

VARIABLES
    day,      \* the clock
    lines,    \* observations.ndjson: <<[n, target, day], ..>>
    muted,    \* observations-dismissed.json: set of [target, day]
    logTmp, muteTmp,  \* the tmp files: contents, or what is there
    call,     \* [Procs -> the call that holds the write lock, and how far]
    picks,    \* the day of every pick recorded so far (history)
    calls,    \* calls so far
    cleared,  \* numbers of the picks wiped by a clear that has returned
    promised, \* dismissals that have returned: set of [target, day]
    collided   \* two processes rewrote one file at the same time, or one
              \* appended while another rewrote (history)

vars == <<day, lines, muted, logTmp, muteTmp, call, picks, calls, cleared,
          promised, collided>>

Line == [n : 1..MaxPicks, target : Targets, day : 0..MaxDay]
Mute == [target : Targets, day : 0..MaxDay]

Free == [op |-> "none"]

TypeOK ==
    /\ day \in 0..MaxDay
    /\ ToSet(lines) \subseteq Line /\ ToSet(logTmp) \subseteq Line
    /\ muted \subseteq Mute /\ muteTmp \subseteq Mute
    /\ \A p \in Procs : call[p].op \in {"none", "prune", "clear", "dismiss"}
    /\ picks \in Seq(0..MaxDay) /\ calls \in 0..MaxCalls
    /\ cleared \subseteq 1..MaxPicks
    /\ promised \subseteq Mute
    /\ collided \in BOOLEAN

Init ==
    /\ day = 0
    /\ lines = <<>> /\ muted = {}
    /\ logTmp = <<>> /\ muteTmp = {}
    /\ call = [p \in Procs |-> Free]
    /\ picks = <<>> /\ calls = 0
    /\ cleared = {} /\ promised = {}
    /\ collided = FALSE

Locked(p) == call[p] # Free

\* Another process is between reading and renaming the same file.
Meets(p, ops) == \E q \in Procs \ {p} : call[q].op \in ops

-----------------------------------------------------------------------------
(* Suggestions.                                                            *)

CountOf(t) == Cardinality({i \in DOMAIN lines : lines[i].target = t})
TotalOf(t) == Cardinality({i \in DOMAIN lines : host[lines[i].target] = host[t]})

\* active_dismissals
Active == {m.target : m \in {x \in muted : x.day + Ttl >= day}}

\* aggregate: often enough, at least seven in ten, and not dismissed.
Aggregate ==
    {t \in Targets :
        /\ CountOf(t) >= MinCount
        /\ 10 * CountOf(t) >= 7 * TotalOf(t)
        /\ t \notin Active}

-----------------------------------------------------------------------------
(* Calls.                                                                  *)

\* record: one line, appended under the lock.
Record(p) ==
    /\ ~Locked(p)
    /\ Len(picks) < MaxPicks
    /\ picks' = Append(picks, day)
    /\ \E t \in Targets :
           lines' = Append(lines, [n |-> Len(picks'), target |-> t, day |-> day])
    /\ collided' = (collided \/ Meets(p, {"prune", "clear"}))
    /\ UNCHANGED <<day, muted, logTmp, muteTmp, call, calls, cleared, promised>>

Begin(p, c) ==
    /\ ~Locked(p)
    /\ calls < MaxCalls
    /\ calls' = calls + 1
    /\ call' = [call EXCEPT ![p] = c]

\* Faulty variant: old observations are kept and the others dropped.
RetainedOld == Kept(lines, {i \in DOMAIN lines : lines[i].day + Retention < day})

Retained == Kept(lines, {i \in DOMAIN lines : lines[i].day + Retention >= day})

\* retain_within, which the GUI calls when it starts: the lines are read;
\* nothing is written when all are kept.
Prune(p) ==
    /\ Retained # lines
    /\ Begin(p, [op |-> "prune", at |-> "read", content |-> Retained])
    /\ collided' = (collided \/ Meets(p, {"prune", "clear"}))
    /\ UNCHANGED <<day, lines, muted, logTmp, muteTmp, picks, cleared, promised>>

\* clear_observations
Clear(p) ==
    /\ Begin(p, [op |-> "clear", at |-> "read", content |-> <<>>])
    /\ collided' = (collided \/ Meets(p, {"prune", "clear"}))
    /\ UNCHANGED <<day, lines, muted, logTmp, muteTmp, picks, cleared, promised>>

\* Entries of the same tuple and those past their time go.
WithDismissal(t) ==
    {m \in muted : m.target # t /\ m.day + Ttl >= day}
        \cup {[target |-> t, day |-> day]}

\* dismiss: read, replace the entry, write all.
Dismiss(p) ==
    /\ \E t \in Targets :
           Begin(p, [op |-> "dismiss", at |-> "read", target |-> t, day |-> day,
                     content |-> WithDismissal(t)])
    /\ collided' = (collided \/ Meets(p, {"dismiss"}))
    /\ UNCHANGED <<day, lines, muted, logTmp, muteTmp, picks, cleared, promised>>

\* write_atomic: the tmp file ..
WriteTmp(p) ==
    /\ Locked(p) /\ call[p].at = "read"
    /\ call' = [call EXCEPT ![p].at = "written"]
    /\ IF call[p].op = "dismiss"
       THEN muteTmp' = call[p].content /\ UNCHANGED logTmp
       ELSE logTmp' = call[p].content /\ UNCHANGED muteTmp
    /\ UNCHANGED <<day, lines, muted, picks, calls, cleared, promised, collided>>

\* .. and the rename, which ends the call.
Rename(p) ==
    /\ Locked(p) /\ call[p].at = "written"
    /\ call' = [call EXCEPT ![p] = Free]
    /\ IF call[p].op = "dismiss"
       THEN /\ muted' = muteTmp
            /\ promised' = promised \cup {[target |-> call[p].target, day |-> call[p].day]}
            /\ UNCHANGED <<lines, cleared>>
       ELSE /\ lines' = logTmp
            /\ cleared' = IF call[p].op = "clear" THEN cleared \cup DOMAIN picks ELSE cleared
            /\ UNCHANGED <<muted, promised>>
    /\ UNCHANGED <<day, logTmp, muteTmp, picks, calls, collided>>

\* The process dies with the call, or a write fails: the tmp file stays.
Fail(p) ==
    /\ Locked(p)
    /\ call' = [call EXCEPT ![p] = Free]
    /\ UNCHANGED <<day, lines, muted, logTmp, muteTmp, picks, calls, cleared, promised, collided>>

DayPasses ==
    /\ day < MaxDay
    /\ day' = day + 1
    /\ UNCHANGED <<lines, muted, logTmp, muteTmp, call, picks, calls, cleared, promised, collided>>

Next ==
    \/ \E p \in Procs :
           \/ Record(p) \/ Prune(p) \/ Clear(p) \/ Dismiss(p)
           \/ WriteTmp(p) \/ Rename(p) \/ Fail(p)
    \/ DayPasses

Spec == Init /\ [][Next]_vars

-----------------------------------------------------------------------------
(* Properties.                                                             *)

Numbers == {lines[i].n : i \in DOMAIN lines}

\* No pick is lost or kept out of order but by a clear or by its age, as long
\* as no second process rewrites the file at the same time: the lock covers
\* reading and writing.
KeepsPicks ==
    /\ \A i, j \in DOMAIN lines : i < j => lines[i].n < lines[j].n
    /\ ~collided =>
           \A n \in DOMAIN picks :
               n \in Numbers \/ n \in cleared \/ picks[n] + Retention < day

\* What was cleared stays cleared, whatever prunes and picks come later.
ClearedStaysCleared == ~collided => Numbers \cap cleared = {}

\* A host has at most one suggestion, and it is what most picks chose.
OneSuggestionPerHost ==
    \A t, u \in Aggregate : host[t] = host[u] => t = u

\* A dismissed suggestion does not come back for thirty days, whatever else
\* is dismissed meanwhile.
DismissedStaysAway ==
    ~collided => \A m \in promised : m.day + Ttl >= day => m.target \notin Aggregate
============================================================================
