---------------------------- MODULE UpdateFetch ----------------------------
(***************************************************************************)
(* How a running GUI learns of a release and gets its disk image:          *)
(* apps/desktop/src/lib/update-flow.ts with update_fetch_metadata and      *)
(* update_download of apps/desktop/src-tauri/src/commands/mod.rs.          *)
(*                                                                         *)
(* A process runs one attempt at a time (the page keeps one promise), so   *)
(* the step of the attempt is part of the process's own state.  Two        *)
(* processes may be running and share the directory of downloads.  The     *)
(* setting auto_check_updates may change at any time: each look at it has  *)
(* either result.                                                          *)
(***************************************************************************)
EXTENDS Integers, FiniteSets

CONSTANTS
    Guis,       \* GUI processes; an element is used again after its end
    NoGui,
    Versions,   \* released versions
    First       \* the version that is installed at first

ASSUME FetchAssumption ==
    /\ NoGui \notin Guis
    /\ Versions \subseteq Nat \ {0}
    /\ First \in Versions

VARIABLES
    gpc,        \* where each GUI process stands
    runs,       \* the version each process was started from
    attempt,    \* the attempt it is making: [version, automatic]
    latest,     \* what releases/latest points to
    outcome,    \* updates/outcome.json: [version, failed]
    tmp,        \* per version: the process writing LinkPilot_V.download, and
                \* whether all of it is there; NoGui if there is no file
    dmg         \* per version: "none", "part" or "whole", under its own name

fetchVars == <<latest, tmp, dmg>>

\* A process in one of these is not running.
Ended == {"new", "gone"}
Fetching == {"checked", "curl", "downloaded", "hashed", "fetched"}

NoFile == [by |-> NoGui, whole |-> FALSE]
NoAttempt == [version |-> First, automatic |-> FALSE]

FetchTypeOK ==
    /\ runs \in [Guis -> Versions]
    /\ attempt \in [Guis -> [version : Versions, automatic : BOOLEAN]]
    /\ latest \in Versions
    /\ outcome \in [version : Versions, failed : BOOLEAN]
    /\ tmp \in [Versions -> [by : Guis \cup {NoGui}, whole : BOOLEAN]]
    /\ dmg \in [Versions -> {"none", "part", "whole"}]

FetchInit ==
    /\ runs = [g \in Guis |-> First]
    /\ attempt = [g \in Guis |-> NoAttempt]
    /\ latest = First
    /\ outcome = [version |-> First, failed |-> FALSE]
    /\ tmp = [v \in Versions |-> NoFile]
    /\ dmg = [v \in Versions |-> "none"]

-----------------------------------------------------------------------------
Goto(g, from, to) ==
    /\ gpc[g] = from
    /\ gpc' = [gpc EXCEPT ![g] = to]

\* The attempt is over and forgotten; the process runs on.
Back(g, from) ==
    /\ Goto(g, from, "up")
    /\ attempt' = [attempt EXCEPT ![g] = NoAttempt]

\* last_failure: outcome.json names this version and an error.
LastFailure(v) == outcome.failed /\ outcome.version = v

\* compare_versions, on what the two versions are called without "v".
Available(g) == latest > runs[g]

\* The page asks for the newest release.  An automatic attempt ends here when
\* the last attempt of that version failed.
Check(g) ==
    /\ Goto(g, "up", "checked")
    /\ Available(g)
    /\ \E automatic \in BOOLEAN :
        /\ automatic => ~LastFailure(latest)
        /\ attempt' = [attempt EXCEPT
                           ![g] = [version |-> latest, automatic |-> automatic]]
    /\ UNCHANGED <<runs, outcome, fetchVars>>

\* Faulty variant: a finished download is not reused.
BeginDownloadAgain(g) ==
    /\ Goto(g, "checked", "curl")
    /\ tmp' = [tmp EXCEPT ![attempt[g].version] = [by |-> g, whole |-> FALSE]]
    /\ UNCHANGED <<runs, attempt, outcome, latest, dmg>>

\* update_download reuses a file whose hash matches; otherwise it removes
\* what is under the temporary name and starts curl.
BeginDownload(g) ==
    LET v == attempt[g].version IN
    /\ \/ dmg[v] = "whole" /\ Goto(g, "checked", "fetched") /\ UNCHANGED tmp
       \/ /\ dmg[v] # "whole" /\ Goto(g, "checked", "curl")
          /\ tmp' = [tmp EXCEPT ![v] = [by |-> g, whole |-> FALSE]]
    /\ UNCHANGED <<runs, attempt, outcome, latest, dmg>>

\* curl wrote the file it opened, which may have been removed meanwhile.
CurlEnds(g) ==
    LET v == attempt[g].version IN
    /\ \/ /\ Goto(g, "curl", "downloaded") /\ UNCHANGED attempt
          /\ tmp' = IF tmp[v].by = g THEN [tmp EXCEPT ![v].whole = TRUE] ELSE tmp
       \/ /\ Back(g, "curl")
          /\ tmp' = [tmp EXCEPT ![v] = NoFile]
    /\ UNCHANGED <<runs, outcome, latest, dmg>>

\* The hash of whatever has the temporary name by now.
HashDownload(g) ==
    LET v == attempt[g].version IN
    /\ \/ /\ tmp[v].whole /\ Goto(g, "downloaded", "hashed")
          /\ UNCHANGED <<attempt, tmp>>
       \/ /\ ~tmp[v].whole /\ Back(g, "downloaded")
          /\ tmp' = [tmp EXCEPT ![v] = NoFile]
    /\ UNCHANGED <<runs, outcome, latest, dmg>>

RenameDownload(g) ==
    LET v == attempt[g].version IN
    /\ \/ /\ tmp[v].by # NoGui /\ Goto(g, "hashed", "fetched")
          /\ dmg' = [dmg EXCEPT ![v] = IF tmp[v].whole THEN "whole" ELSE "part"]
          /\ tmp' = [tmp EXCEPT ![v] = NoFile]
          /\ UNCHANGED attempt
       \/ tmp[v].by = NoGui /\ Back(g, "hashed") /\ UNCHANGED <<tmp, dmg>>
    /\ UNCHANGED <<runs, outcome, latest>>

\* The page goes on to install, or stops at "downloaded"; an automatic attempt
\* also stops when the page or update_install find auto_check_updates off.
RequestInstall(g) ==
    /\ \/ Goto(g, "fetched", "asked") /\ UNCHANGED attempt
       \/ Back(g, "fetched")
    /\ UNCHANGED <<runs, outcome, fetchVars>>

Fetch(g) ==
    \/ Check(g) \/ BeginDownload(g) \/ CurlEnds(g) \/ HashDownload(g)
    \/ RenameDownload(g) \/ RequestInstall(g)

Publish ==
    /\ \E v \in Versions : v > latest /\ latest' = v
    /\ UNCHANGED <<gpc, runs, attempt, outcome, tmp, dmg>>
=============================================================================
