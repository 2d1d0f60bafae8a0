---------------------------- MODULE ConfigStore ----------------------------
(***************************************************************************)
(* The configuration file and the processes that share it:                 *)
(* src/crates/core/src/config/store.rs and its callers (the GUI's commands *)
(* and ConfigReplace handler, the headless daemon, mutate_local of lpt).   *)
(*                                                                         *)
(* A process holds one ConfigStore: a document in memory and the token of  *)
(* its last write.  A writer performs one edit: it reads a document, adds  *)
(* its edit and calls replace, which sets the document under the lock,     *)
(* locks again to stamp a fresh token and serialise, writes the shared     *)
(* file linkpilot.config.json.tmp and renames it.  A watching process      *)
(* re-reads the file after each event.                                     *)
(*                                                                         *)
(* A document is the set of edits it contains; the token of a write is     *)
(* named by its writer; an inode is named by the writer that created it.   *)
(***************************************************************************)
EXTENDS Naturals, FiniteSets

CONSTANTS
    Procs,      \* the processes that hold a ConfigStore
    Watching,   \* those that call watch() (the GUI; the daemon never does)
    Writers,    \* calls of replace(), one edit each
    home,       \* the process of each writer
    Loaders,    \* writers that load the file first: `lpt`, mutate_local
    UiWriters,  \* writers whose document was fetched earlier (config_replace)
    Overlap,    \* pairs of writers that may run at the same time
    Editors,    \* edits made to the file without any store
    Pulls,      \* those that bring a meta of their own (git pull); a text
                \* editor keeps the meta it found
    NoToken,    \* a file without last_writer_token
    MaxEvents,  \* bound: watch events queued per process
    MaxCrashes  \* bound: crashes of processes

ASSUME StoreAssumption ==
    /\ Watching \subseteq Procs
    /\ home \in [Writers -> Procs]
    /\ Loaders \subseteq Writers
    /\ UiWriters \subseteq Writers
    /\ Overlap \subseteq Writers \X Writers
    /\ Editors \cap Writers = {}
    /\ Pulls \subseteq Editors
    /\ NoToken \notin Writers \cup Editors
    /\ MaxEvents \in Nat \ {0}
    /\ MaxCrashes \in Nat

VARIABLES
    mem,        \* State.doc of each process
    remembered, \* State.last_writer_token of each process
    pc,         \* where each writer stands
    base,       \* the document the writer read
    json,       \* what the writer serialised
    fd,         \* the inode the writer opened as .json.tmp
    inode,      \* file contents by inode
    disk,       \* the inode under linkpilot.config.json
    tmp,        \* the inode under linkpilot.config.json.tmp, or NoToken
    attached,   \* the processes whose watcher is running
    events,     \* watch events not yet handled, per process
    raw,        \* what the watch callback read and has not yet applied
    edited,     \* text-editor edits made so far
    missed,     \* processes whose file changed while no watcher ran (history)
    crashes     \* crashes so far

memVars   == <<mem, remembered>>
writeVars == <<pc, base, json, fd>>
diskVars  == <<inode, disk, tmp>>
watchVars == <<attached, events, raw, missed>>
vars == <<memVars, writeVars, diskVars, watchVars, edited, crashes>>

Edits  == Writers \cup Editors
Tokens == Writers \cup Pulls \cup {NoToken}
Inodes == Writers \cup {NoToken}   \* NoToken: the file found at the start

File == [kind : {"empty", "whole", "garbled"}, doc : SUBSET Edits,
         token : Tokens]
Empty   == [kind |-> "empty", doc |-> {}, token |-> NoToken]
Garbled == [kind |-> "garbled", doc |-> {}, token |-> NoToken]
Whole(doc, token) == [kind |-> "whole", doc |-> doc, token |-> token]

\* Between document() and the end of replace().
Busy == {"read", "set", "stamped", "opened", "written"}

TypeOK ==
    /\ mem \in [Procs -> SUBSET Edits]
    /\ remembered \in [Procs -> Tokens]
    /\ pc \in [Writers -> {"idle", "ok", "error", "dead"} \cup Busy]
    /\ base \in [Writers -> SUBSET Edits]
    /\ json \in [Writers -> File]
    /\ fd \in [Writers -> Inodes]
    /\ inode \in [Inodes -> File]
    /\ disk \in Inodes
    /\ tmp \in Inodes
    /\ attached \subseteq Watching
    /\ events \in [Procs -> 0..MaxEvents]
    /\ raw \in [Procs -> File]
    /\ edited \subseteq Editors
    /\ missed \subseteq Procs
    /\ crashes \in 0..MaxCrashes

Init ==
    /\ mem = [p \in Procs |-> {}]
    /\ remembered = [p \in Procs |-> NoToken]
    /\ pc = [w \in Writers |-> "idle"]
    /\ base = [w \in Writers |-> {}]
    /\ json = [w \in Writers |-> Empty]
    /\ fd = [w \in Writers |-> NoToken]
    /\ inode = [i \in Inodes |-> IF i = NoToken THEN Whole({}, NoToken) ELSE Empty]
    /\ disk = NoToken
    /\ tmp = NoToken
    /\ attached = {}
    /\ events = [p \in Procs |-> 0]
    /\ raw = [p \in Procs |-> Empty]
    /\ edited = {}
    /\ missed = {}
    /\ crashes = 0

-----------------------------------------------------------------------------
(* Writers.                                                                *)

Goto(w, from, to) ==
    /\ pc[w] = from
    /\ pc' = [pc EXCEPT ![w] = to]

\* The tmp file exists exactly when its name refers to an inode of a writer.
TmpExists == tmp # NoToken

\* GUI commands run one at a time on the main thread.
Alone(w) ==
    \A v \in Writers \ {w} :
        pc[v] \in Busy /\ ~(v \in UiWriters /\ pc[v] = "read") =>
            <<w, v>> \in Overlap

\* The file under the config path changed: watchers get an event.
Notify ==
    /\ events' = [p \in Procs |->
            IF p \in attached /\ events[p] < MaxEvents THEN events[p] + 1
            ELSE events[p]]
    /\ missed' = missed \cup (Procs \ attached)
    /\ UNCHANGED <<attached, raw>>

\* Faulty variant: the document comes from memory, the file is not read.
ReadFromMemory(w) ==
    /\ Goto(w, "idle", "read")
    /\ w \in UiWriters \/ Alone(w)
    /\ base' = [base EXCEPT ![w] = mem[home[w]]]
    /\ UNCHANGED <<memVars, json, fd, diskVars, watchVars, edited, crashes>>

\* document() of the running process; lpt loads the file into a new store.
Read(w) ==
    /\ Goto(w, "idle", "read")
    /\ w \in UiWriters \/ Alone(w)
    /\ IF w \in Loaders
       THEN /\ inode[disk].kind = "whole"
            /\ mem' = [mem EXCEPT ![home[w]] = inode[disk].doc]
            /\ remembered' = [remembered EXCEPT ![home[w]] = inode[disk].token]
       ELSE UNCHANGED memVars
    /\ base' = [base EXCEPT ![w] = mem'[home[w]]]
    /\ UNCHANGED <<json, fd, diskVars, watchVars, edited, crashes>>

\* A file that does not parse makes lpt's load fail before it edits anything.
LoadFails(w) ==
    /\ w \in Loaders
    /\ inode[disk].kind # "whole"
    /\ Goto(w, "idle", "error")
    /\ UNCHANGED <<memVars, base, json, fd, diskVars, watchVars, edited,
                   crashes>>

\* replace(): guard.doc = doc, first lock.
SetDoc(w) ==
    /\ Goto(w, "read", "set")
    /\ Alone(w)
    /\ mem' = [mem EXCEPT ![home[w]] = base[w] \cup {w}]
    /\ UNCHANGED <<remembered, base, json, fd, diskVars, watchVars, edited,
                   crashes>>

\* Faulty variant: the text is serialised before the token is renewed.
StampAfterText(w) ==
    /\ Goto(w, "set", "stamped")
    /\ remembered' = [remembered EXCEPT ![home[w]] = w]
    /\ json' = [json EXCEPT ![w] = Whole(mem[home[w]], remembered[home[w]])]
    /\ UNCHANGED <<mem, base, fd, diskVars, watchVars, edited, crashes>>

\* persist(): second lock; stamps the token and serialises what is in memory.
Stamp(w) ==
    /\ Goto(w, "set", "stamped")
    /\ remembered' = [remembered EXCEPT ![home[w]] = w]
    /\ json' = [json EXCEPT ![w] = Whole(mem[home[w]], w)]
    /\ UNCHANGED <<mem, base, fd, diskVars, watchVars, edited, crashes>>

\* Faulty variant: the tmp file of an earlier write is opened without truncation.
OpenWithoutTruncate(w) ==
    /\ Goto(w, "stamped", "opened")
    /\ tmp' = IF TmpExists THEN tmp ELSE w
    /\ fd' = [fd EXCEPT ![w] = tmp']
    /\ UNCHANGED <<memVars, base, json, inode, disk, watchVars, edited, crashes>>

\* fs::write opens the shared tmp path and truncates it.
OpenTmp(w) ==
    /\ Goto(w, "stamped", "opened")
    /\ LET i == IF TmpExists THEN tmp ELSE w
       IN /\ tmp' = i
          /\ fd' = [fd EXCEPT ![w] = i]
          /\ inode' = [inode EXCEPT ![i] = Empty]
    /\ UNCHANGED <<memVars, base, json, disk, watchVars, edited, crashes>>

\* The bytes go to the opened inode, wherever its name is now; over another
\* writer's longer text they leave its tail behind.
WriteTmp(w) ==
    /\ Goto(w, "opened", "written")
    /\ \E c \in {json[w]} \cup (IF inode[fd[w]] = Empty THEN {} ELSE {Garbled}) :
            inode' = [inode EXCEPT ![fd[w]] = c]
    /\ IF fd[w] = disk THEN Notify ELSE UNCHANGED watchVars
    /\ UNCHANGED <<memVars, base, json, fd, disk, tmp, edited, crashes>>

\* Faulty variant: the watch is on the file, which the rename replaces.
RenameUnnoticed(w) ==
    /\ TmpExists
    /\ Goto(w, "written", "ok")
    /\ disk' = tmp
    /\ tmp' = NoToken
    /\ UNCHANGED <<memVars, base, json, fd, inode, watchVars, edited, crashes>>

Rename(w) ==
    /\ TmpExists
    /\ Goto(w, "written", "ok")
    /\ disk' = tmp
    /\ tmp' = NoToken
    /\ Notify
    /\ UNCHANGED <<memVars, base, json, fd, inode, edited, crashes>>

\* Another writer renamed the tmp file first: replace() returns an error.
RenameFails(w) ==
    /\ ~TmpExists
    /\ Goto(w, "written", "error")
    /\ UNCHANGED <<memVars, base, json, fd, diskVars, watchVars, edited,
                   crashes>>

-----------------------------------------------------------------------------
(* The watcher, text editors, crashes.                                     *)

\* watch(), called after the store was loaded.
Attach(p) ==
    /\ p \in Watching \ attached
    /\ attached' = attached \cup {p}
    /\ UNCHANGED <<memVars, writeVars, diskVars, events, raw, missed, edited,
                   crashes>>

\* handle_disk_change up to the lock; text that does not parse is ignored.
WatchRead(p) ==
    /\ events[p] > 0
    /\ raw[p] = Empty
    /\ events' = [events EXCEPT ![p] = @ - 1]
    /\ IF inode[disk].kind = "whole"
       THEN raw' = [raw EXCEPT ![p] = inode[disk]]
       ELSE UNCHANGED raw
    /\ UNCHANGED <<memVars, writeVars, diskVars, attached, missed, edited,
                   crashes>>

IsEcho(p) == raw[p].token # NoToken /\ raw[p].token = remembered[p]

\* Faulty variant: the document is adopted without its token.
WatchApplyForgetsToken(p) ==
    /\ raw[p] # Empty
    /\ mem' = IF IsEcho(p) THEN mem ELSE [mem EXCEPT ![p] = raw[p].doc]
    /\ raw' = [raw EXCEPT ![p] = Empty]
    /\ missed' = missed \ {p}
    /\ UNCHANGED <<remembered, writeVars, diskVars, attached, events, edited,
                   crashes>>

\* handle_disk_change under the lock.
WatchApply(p) ==
    /\ raw[p] # Empty
    /\ IF IsEcho(p)
       THEN UNCHANGED memVars
       ELSE /\ mem' = [mem EXCEPT ![p] = raw[p].doc]
            /\ remembered' = [remembered EXCEPT ![p] = raw[p].token]
    /\ raw' = [raw EXCEPT ![p] = Empty]
    /\ missed' = missed \ {p}
    /\ UNCHANGED <<writeVars, diskVars, attached, events, edited, crashes>>

\* The text of the file changes; a text editor leaves meta alone.
EditFile(e) ==
    /\ e \in Editors \ edited
    /\ inode[disk].kind = "whole"
    /\ edited' = edited \cup {e}
    /\ inode' = [inode EXCEPT ![disk] =
            Whole(@.doc \cup {e}, IF e \in Pulls THEN e ELSE @.token)]
    /\ Notify
    /\ UNCHANGED <<memVars, writeVars, disk, tmp, crashes>>

\* A process dies at any point of its writes and starts again from the file.
CrashRestart(p) ==
    /\ crashes < MaxCrashes
    /\ inode[disk].kind = "whole"
    /\ crashes' = crashes + 1
    /\ pc' = [w \in Writers |->
            IF home[w] = p /\ pc[w] \in Busy THEN "dead" ELSE pc[w]]
    /\ mem' = [mem EXCEPT ![p] = inode[disk].doc]
    /\ remembered' = [remembered EXCEPT ![p] = inode[disk].token]
    /\ attached' = attached \ {p}
    /\ events' = [events EXCEPT ![p] = 0]
    /\ raw' = [raw EXCEPT ![p] = Empty]
    /\ missed' = missed \ {p}
    /\ UNCHANGED <<base, json, fd, diskVars, edited>>

-----------------------------------------------------------------------------
WriterStep(w) ==
    \/ Read(w) \/ LoadFails(w) \/ SetDoc(w) \/ Stamp(w) \/ OpenTmp(w)
    \/ WriteTmp(w) \/ Rename(w) \/ RenameFails(w)

WatchStep(p) == Attach(p) \/ WatchRead(p) \/ WatchApply(p)

Next ==
    \/ \E w \in Writers : WriterStep(w)
    \/ \E p \in Procs : WatchStep(p) \/ CrashRestart(p)
    \/ \E e \in Editors : EditFile(e)

Spec == Init /\ [][Next]_vars

\* A write that began runs to its end and watch callbacks are delivered.
FairSpec ==
    /\ Spec
    /\ \A w \in Writers : WF_vars(pc[w] \in Busy /\ WriterStep(w))
    /\ \A p \in Procs : WF_vars(WatchStep(p))

-----------------------------------------------------------------------------
(* Safety.                                                                 *)

\* A token names one text: whatever file or half-handled read carries the
\* token of a write is exactly what that write serialised.  This is what
\* lets handle_disk_change skip a file on its token alone.
TokenNamesText ==
    \A f \in {inode[i] : i \in Inodes} \cup {raw[p] : p \in Procs} :
        f.kind = "whole" /\ f.token \in Writers => f = json[f.token]

\* ARCHITECTURE.md: all mutations are atomic rewrites (tmp + rename).  The
\* config path never holds a text that a start or a watcher cannot parse.
DiskParses == inode[disk].kind = "whole"

\* The store of a process that is not in the middle of a write and has no
\* event left to handle holds the document that is on disk.
Settled(p) ==
    /\ \A w \in Writers : pc[w] \notin Busy
    /\ p \in attached \ missed
    /\ events[p] = 0 /\ raw[p] = Empty
SettledAgrees == \A p \in Watching : Settled(p) => mem[p] = inode[disk].doc

\* design-v0.2: the echo token keeps config writes from getting lost.  An
\* edit whose replace() returned Ok stays in the file.
AckedSurvives == \A w \in Writers : pc[w] = "ok" => w \in inode[disk].doc

\* mutate_local edits the file it has just loaded, so a write of lpt keeps
\* every edit that other processes committed, whatever its own memory or a tmp
\* file left behind by a crash may hold.
LptKeepsAcked ==
    [][\A w \in Loaders : pc[w] = "written" /\ pc'[w] = "ok" =>
            inode[disk].doc \cap Writers \subseteq inode'[disk'].doc]_vars

(* Liveness.                                                               *)

\* ARCHITECTURE.md: any process can write the config and the others heal
\* themselves through the watcher.
WatchersConverge ==
    \A p \in Watching : <>[](p \notin missed => mem[p] = inode[disk].doc)
=============================================================================
