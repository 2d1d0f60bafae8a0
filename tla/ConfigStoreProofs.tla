------------------------- MODULE ConfigStoreProofs -------------------------
(***************************************************************************)
(* Theorems about ConfigStore, for any processes, writers and crashes.     *)
(***************************************************************************)
EXTENDS ConfigStore, TLAPS

\* The files that exist, and the reads a watcher has not yet applied.
Texts == {inode[i] : i \in Inodes} \cup {raw[p] : p \in Procs}

\* TokenNamesText made inductive: the writer of a text has passed its stamp,
\* and what it stamped carries its own token.
StampInv ==
    /\ \A f \in Texts : f.kind = "whole" /\ f.token \in Writers =>
            pc[f.token] \notin {"idle", "read", "set"} /\ f = json[f.token]
    /\ \A w \in Writers : pc[w] \in {"stamped", "opened", "written"} =>
            json[w].kind = "whole" /\ json[w].token = w

\* A writer whose document is not just lying in a page of the GUI.
Active(w) == pc[w] \in Busy /\ ~(w \in UiWriters /\ pc[w] = "read")

\* DiskParses made inductive, for writers that never overlap.
OneActive == \A v, w \in Writers : Active(v) /\ Active(w) => v = w
Named == \A i \in Writers : disk = i \/ tmp = i =>
            pc[i] \in {"opened", "written", "ok", "error", "dead"}
TmpIsSpare == TmpExists => tmp # disk
Opened == \A w \in Writers : pc[w] = "opened" =>
            TmpExists /\ fd[w] = tmp /\ inode[tmp] = Empty
Written == \A w \in Writers : pc[w] = "written" =>
            TmpExists /\ fd[w] = tmp /\ inode[tmp] = json[w]
Stamped == \A w \in Writers : pc[w] \in {"stamped", "opened", "written"} =>
            json[w].kind = "whole"
SerialInv ==
    OneActive /\ Named /\ TmpIsSpare /\ Opened /\ Written /\ Stamped /\ DiskParses

-----------------------------------------------------------------------------
\* The initial states are well typed.
LEMMA TypeInit == Init => TypeOK
BY StoreAssumption
DEF Init, TypeOK, Edits, Tokens, Inodes, File, Empty, Whole, Busy

\* The parts of a file.
LEMMA FileFields ==
    ASSUME NEW f \in File PROVE f.doc \in SUBSET Edits /\ f.token \in Tokens
BY DEF File

\* Notifying a watcher keeps the events within their bound.
LEMMA NotifyType ==
    ASSUME TypeOK, Notify
    PROVE  /\ events' \in [Procs -> 0..MaxEvents]
           /\ missed' \subseteq Procs
           /\ attached' = attached /\ raw' = raw
BY StoreAssumption DEF TypeOK, Notify

\* Every variable keeps its type, one step per action.
LEMMA TypeStep == TypeOK /\ [Next]_vars => TypeOK'
<1> USE StoreAssumption DEF Edits, Tokens, Inodes, File, Empty, Whole, Garbled,
        Busy, memVars, writeVars, diskVars, watchVars, Goto
<1> SUFFICES ASSUME TypeOK, [Next]_vars PROVE TypeOK'
    OBVIOUS
<1>1. CASE UNCHANGED vars
    BY <1>1 DEF TypeOK, vars
<1>2. ASSUME NEW w \in Writers, WriterStep(w) PROVE TypeOK'
    <2>1. CASE Read(w)
        <3>1. /\ home[w] \in Procs
              /\ inode[disk].doc \in SUBSET Edits
              /\ inode[disk].token \in Tokens
            BY FileFields DEF TypeOK
        <3>2. mem' \in [Procs -> SUBSET Edits] /\ remembered' \in [Procs -> Tokens]
            <4>1. CASE w \in Loaders
                <5>1. /\ mem' = [mem EXCEPT ![home[w]] = inode[disk].doc]
                      /\ remembered' =
                             [remembered EXCEPT ![home[w]] = inode[disk].token]
                    BY <2>1, <4>1 DEF Read
                <5>2. /\ mem \in [Procs -> SUBSET Edits]
                      /\ remembered \in [Procs -> Tokens]
                    BY DEF TypeOK
                <5> QED
                    BY <3>1, <5>1, <5>2
            <4>2. CASE w \notin Loaders
                BY <2>1, <4>2 DEF TypeOK, Read
            <4> QED
                BY <4>1, <4>2
        <3> QED
            BY <2>1, <3>1, <3>2 DEF TypeOK, Read
    <2>2. CASE LoadFails(w)
        BY <2>2 DEF TypeOK, LoadFails
    <2>3. CASE SetDoc(w)
        BY <2>3 DEF TypeOK, SetDoc
    <2>4. CASE Stamp(w)
        BY <2>4 DEF TypeOK, Stamp
    <2>5. CASE OpenTmp(w)
        BY <2>5 DEF TypeOK, OpenTmp
    <2>6. CASE WriteTmp(w)
        BY <2>6, NotifyType DEF TypeOK, WriteTmp
    <2>7. CASE Rename(w)
        BY <2>7, NotifyType DEF TypeOK, Rename
    <2>8. CASE RenameFails(w)
        BY <2>8 DEF TypeOK, RenameFails
    <2> QED
        BY <1>2, <2>1, <2>2, <2>3, <2>4, <2>5, <2>6, <2>7, <2>8 DEF WriterStep
<1>3. ASSUME NEW p \in Procs, WatchStep(p) PROVE TypeOK'
    <2>1. CASE Attach(p)
        BY <2>1 DEF TypeOK, Attach
    <2>2. CASE WatchRead(p)
        BY <2>2, SMTT(60) DEF TypeOK, WatchRead
    <2>3. CASE WatchApply(p)
        <3>1. raw[p].doc \in SUBSET Edits /\ raw[p].token \in Tokens
            BY FileFields DEF TypeOK
        <3> QED
            BY <2>3, <3>1 DEF TypeOK, WatchApply
    <2> QED
        BY <1>3, <2>1, <2>2, <2>3 DEF WatchStep
<1>4. ASSUME NEW p \in Procs, CrashRestart(p) PROVE TypeOK'
    <2>1. inode[disk].doc \in SUBSET Edits /\ inode[disk].token \in Tokens
        BY FileFields DEF TypeOK
    <2> QED
        BY <1>4, <2>1 DEF TypeOK, CrashRestart
<1>5. ASSUME NEW e \in Editors, EditFile(e) PROVE TypeOK'
    BY <1>5, NotifyType DEF TypeOK, EditFile
<1> QED
    BY <1>1, <1>2, <1>3, <1>4, <1>5 DEF Next

\* The state of the stores, writers, files and watchers keeps its type.
THEOREM StoreTypeCorrect == Spec => []TypeOK
BY TypeInit, TypeStep, PTL DEF Spec

-----------------------------------------------------------------------------
\* No file carries a writer's token initially.
LEMMA StampInit == Init => StampInv
<1> SUFFICES ASSUME Init PROVE StampInv
    OBVIOUS
<1>1. \A f \in Texts : f \in {Empty, Whole({}, NoToken)}
    BY DEF Init, Texts
<1>2. \A f \in Texts : ~(f.kind = "whole" /\ f.token \in Writers)
    BY <1>1, StoreAssumption DEF Empty, Whole
<1> QED
    BY <1>2 DEF Init, StampInv

\* Every step keeps StampInv, if nobody edits under another's token.
LEMMA StampStep ==
    ASSUME Editors = Pulls, TypeOK, StampInv, [Next]_vars PROVE StampInv'
<1> USE StoreAssumption DEF Inodes, Empty, Whole, Garbled, memVars, writeVars,
        diskVars, watchVars, Goto, Texts
<1>1. CASE UNCHANGED vars
    BY <1>1 DEF StampInv, vars
<1>2. ASSUME NEW w \in Writers, WriterStep(w) PROVE StampInv'
    <2>1. CASE Read(w) \/ LoadFails(w) \/ SetDoc(w)
        BY <2>1 DEF StampInv, TypeOK, Read, LoadFails, SetDoc
    <2>2. CASE Stamp(w)
        BY <2>2 DEF StampInv, TypeOK, Stamp
    <2>3. CASE OpenTmp(w)
        BY <2>3 DEF StampInv, TypeOK, OpenTmp
    <2>4. CASE WriteTmp(w)
        BY <2>4 DEF StampInv, TypeOK, WriteTmp, Notify
    <2>5. CASE Rename(w) \/ RenameFails(w)
        BY <2>5 DEF StampInv, TypeOK, Rename, RenameFails, Notify
    <2> QED
        BY <1>2, <2>1, <2>2, <2>3, <2>4, <2>5 DEF WriterStep
<1>3. ASSUME NEW p \in Procs, WatchStep(p) PROVE StampInv'
    BY <1>3 DEF StampInv, TypeOK, WatchStep, Attach, WatchRead, WatchApply
<1>4. ASSUME NEW p \in Procs, CrashRestart(p) PROVE StampInv'
    BY <1>4 DEF StampInv, TypeOK, CrashRestart
<1>5. ASSUME NEW e \in Editors, EditFile(e) PROVE StampInv'
    BY <1>5 DEF StampInv, TypeOK, EditFile, Notify
<1> QED
    BY <1>1, <1>2, <1>3, <1>4, <1>5 DEF Next

\* handle_disk_change may trust a token: as long as nobody keeps the meta of
\* a text it changed, equal tokens mean equal texts, however many processes
\* write at once, tear the shared tmp file or crash.
THEOREM TokenIsFaithful ==
    ASSUME Editors = Pulls PROVE Spec => []TokenNamesText
<1>1. StampInv => TokenNamesText
    BY DEF StampInv, TokenNamesText, Texts
<1>2. TypeOK /\ StampInv /\ [Next]_vars => StampInv'
    BY StampStep
<1> QED
    BY <1>1, <1>2, StampInit, StoreTypeCorrect, PTL DEF Spec

-----------------------------------------------------------------------------
\* No writer is busy initially.
LEMMA SerialInit == Init => SerialInv
BY StoreAssumption
DEF Init, SerialInv, OneActive, Named, TmpIsSpare, Opened, Written, Stamped,
    DiskParses, Active, Busy, TmpExists, Inodes, Whole

\* Every step keeps SerialInv, if no two writes overlap.
LEMMA SerialStep ==
    ASSUME Overlap = {}, TypeOK, SerialInv, [Next]_vars PROVE SerialInv'
<1> USE StoreAssumption DEF Inodes, Empty, Whole, Garbled, memVars, writeVars,
        diskVars, watchVars, Goto, TmpExists, SerialInv
<1>1. CASE UNCHANGED vars
    BY <1>1 DEF vars, OneActive, Named, TmpIsSpare, Opened, Written, Stamped,
        DiskParses, Active
<1>2. ASSUME NEW w \in Writers, WriterStep(w) PROVE SerialInv'
    <2>1. OneActive'
        BY <1>2 DEF WriterStep, Read, LoadFails, SetDoc, Stamp, OpenTmp,
            WriteTmp, Rename, RenameFails, OneActive, Active, Alone, Busy, TypeOK
    <2>2. CASE Read(w) \/ LoadFails(w) \/ SetDoc(w)
        <3>1. /\ UNCHANGED <<json, fd, inode, disk, tmp>>
              /\ \E to \in {"read", "set", "error"} :
                    pc' = [pc EXCEPT ![w] = to]
              /\ pc[w] \in {"idle", "read"}
            BY <2>2 DEF Read, LoadFails, SetDoc
        <3>2. Named' /\ TmpIsSpare' /\ DiskParses'
            BY <3>1 DEF Named, TmpIsSpare, DiskParses, TypeOK
        <3>3. Opened' /\ Written' /\ Stamped'
            BY <3>1, ZenonT(60) DEF Opened, Written, Stamped, TypeOK
        <3> QED
            BY <2>1, <3>2, <3>3
    <2>7. CASE Stamp(w)
        BY <2>1, <2>7, ZenonT(60) DEF Stamp, Named, TmpIsSpare,
            Opened, Written, Stamped, DiskParses, TypeOK
    <2>3. \A v \in Writers \ {w} : pc[v] \in {"opened", "written"} =>
              pc[w] \notin {"stamped", "opened", "written"}
        BY DEF OneActive, Active, Busy
    <2>4. CASE OpenTmp(w)
        BY <2>1, <2>3, <2>4 DEF OpenTmp, Named, TmpIsSpare, Opened, Written,
            Stamped, DiskParses, TypeOK
    <2>5. CASE WriteTmp(w)
        <3>1. fd[w] = tmp /\ TmpExists /\ inode[tmp] = Empty
            BY <2>5 DEF WriteTmp, Opened
        <3>2. inode' = [inode EXCEPT ![tmp] = json[w]]
            BY <2>5, <3>1 DEF WriteTmp
        <3>3. DiskParses' /\ TmpIsSpare'
            BY <2>5, <3>1, <3>2 DEF WriteTmp, DiskParses, TmpIsSpare, TypeOK
        <3>4. Opened' /\ Written'
            BY <2>3, <2>5, <3>1, <3>2 DEF WriteTmp, Opened, Written, TypeOK
        <3>5. Named' /\ Stamped'
            BY <2>5 DEF WriteTmp, Named, Stamped, TypeOK
        <3> QED
            BY <2>1, <3>3, <3>4, <3>5
    <2>6. CASE Rename(w) \/ RenameFails(w)
        BY <2>1, <2>3, <2>6 DEF Rename, RenameFails, Named, TmpIsSpare,
            Opened, Written, Stamped, DiskParses, TypeOK
    <2> QED
        BY <1>2, <2>2, <2>4, <2>5, <2>6, <2>7 DEF WriterStep
<1>3. ASSUME NEW p \in Procs, WatchStep(p) PROVE SerialInv'
    BY <1>3, ZenonT(60) DEF WatchStep, Attach, WatchRead, WatchApply, OneActive, Named,
        TmpIsSpare, Opened, Written, Stamped, DiskParses, Active
<1>4. ASSUME NEW p \in Procs, CrashRestart(p) PROVE SerialInv'
    BY <1>4, ZenonT(60) DEF CrashRestart, OneActive, Named, TmpIsSpare, Opened, Written,
        Stamped, DiskParses, Active, Busy, TypeOK
<1>5. ASSUME NEW e \in Editors, EditFile(e) PROVE SerialInv'
    BY <1>5 DEF EditFile, OneActive, Named, TmpIsSpare, Opened, Written,
        Stamped, DiskParses, Active, TypeOK
<1> QED
    BY <1>1, <1>2, <1>3, <1>4, <1>5 DEF Next

\* Writers that take turns never leave a torn file under the config path:
\* whatever a crash leaves in linkpilot.config.json.tmp, the next write
\* truncates it before it renames it.
THEOREM SerialWritesParse ==
    ASSUME Overlap = {} PROVE Spec => []DiskParses
<1>1. TypeOK /\ SerialInv /\ [Next]_vars => SerialInv'
    BY SerialStep
<1>2. SerialInv => DiskParses
    BY DEF SerialInv
<1> QED
    BY <1>1, <1>2, SerialInit, StoreTypeCorrect, PTL DEF Spec

-----------------------------------------------------------------------------
(* Who has heard of the document on disk, when writes do not overlap.      *)

\* Between the two locks of replace() a process holds a document that its
\* remembered token does not name yet.
Unstamped(p) == \E w \in Writers : home[w] = p /\ pc[w] = "set"

\* The token has been given to a text.
Drawn(t) == t \in edited \/ (t \in Writers /\ pc[t] \notin {"idle", "read", "set"})

\* text[t] is what token t names: in every file, in every read not applied yet,
\* in what a writer serialised, and in a process that remembers the token.
TokensName(text) ==
    /\ \A i \in Inodes : inode[i].kind = "whole" /\ inode[i].token # NoToken =>
            Drawn(inode[i].token) /\ inode[i].doc = text[inode[i].token]
    /\ \A p \in Procs : raw[p].token # NoToken =>
            Drawn(raw[p].token) /\ raw[p].doc = text[raw[p].token]
    /\ \A p \in Procs : remembered[p] # NoToken /\ ~Unstamped(p) =>
            Drawn(remembered[p]) /\ mem[p] = text[remembered[p]]
    /\ \A w \in Writers : pc[w] \in {"stamped", "opened", "written"} =>
            json[w].doc = text[w]

TokensAreNames == \E text \in [Writers \cup Pulls -> SUBSET Edits] : TokensName(text)

\* A writer of process p has set its document and has not renamed its file yet.
Writing(p) ==
    \E w \in Writers : home[w] = p /\ pc[w] \in {"set", "stamped", "opened", "written"}

\* Watch events and reads belong to watchers that run; a read that is not of
\* the newest text has an event behind it.
Watched ==
    /\ \A p \in Procs \ attached : events[p] = 0 /\ raw[p] = Empty
    /\ \A p \in Procs : raw[p] # Empty => events[p] > 0 \/ raw[p] = inode[disk]

\* A process whose file did not change behind its back holds what is on disk,
\* or is writing, or is about to hear of it.
Heard ==
    \A p \in Procs \ missed :
        Writing(p) \/ events[p] > 0 \/ raw[p] # Empty \/ mem[p] = inode[disk].doc

HeardInv == TokensAreNames /\ Watched /\ Heard

\* The file found at the start has no token.
LEMMA HeardInit == Init => HeardInv
<1> SUFFICES ASSUME Init PROVE HeardInv
    OBVIOUS
<1> USE StoreAssumption
<1>1. TokensName([t \in Writers \cup Pulls |-> {}])
    BY DEF Init, TokensName, Inodes, Empty, Whole
<1>2. [t \in Writers \cup Pulls |-> {}] \in [Writers \cup Pulls -> SUBSET Edits]
    OBVIOUS
<1>3. Watched /\ Heard
    BY DEF Init, Watched, Heard, Inodes, Whole
<1> QED
    BY <1>1, <1>2, <1>3 DEF HeardInv, TokensAreNames

\* Steps that move a writer but neither stamp nor leave the set state keep the names.
LEMMA NamesStep ==
    ASSUME Editors = Pulls, Overlap = {}, TypeOK, StampInv, SerialInv,
           TokensAreNames, [Next]_vars
    PROVE  TokensAreNames'
<1> USE StoreAssumption DEF Inodes, Empty, Whole, Garbled, memVars, writeVars,
        diskVars, watchVars, Goto
<1> PICK text \in [Writers \cup Pulls -> SUBSET Edits] : TokensName(text)
    BY DEF TokensAreNames
<1>1. CASE UNCHANGED vars
    BY <1>1 DEF TokensAreNames, TokensName, Drawn, Unstamped, vars
<1>2. ASSUME NEW w \in Writers, WriterStep(w) PROVE TokensAreNames'
    <2>1. CASE Read(w)
        BY <2>1, SMTT(60) DEF Read, TokensAreNames, TokensName, Drawn, Unstamped, TypeOK, SerialInv, DiskParses
    <2>2. CASE LoadFails(w)
        BY <2>2, SMTT(60) DEF LoadFails, TokensAreNames, TokensName, Drawn, Unstamped, TypeOK
    <2>3. CASE SetDoc(w)
        BY <2>3, SMTT(60) DEF SetDoc, TokensAreNames, TokensName, Drawn, Unstamped, TypeOK
    <2>4. CASE Stamp(w)
        <3>1. PICK now \in [Writers \cup Pulls -> SUBSET Edits] :
                  now = [text EXCEPT ![w] = mem[home[w]]]
            BY DEF TypeOK
        <3>2. TokensName(now)'
            BY <2>4, <3>1 DEF Stamp, TokensName, Drawn, Unstamped, TypeOK, SerialInv, OneActive, Active, Busy
        <3> QED
            BY <3>2 DEF TokensAreNames
    <2>5. CASE OpenTmp(w)
        BY <2>5, SMTT(60) DEF OpenTmp, TokensAreNames, TokensName, Drawn, Unstamped, TypeOK
    <2>6. CASE WriteTmp(w)
        BY <2>6, SMTT(60) DEF WriteTmp, Notify, TokensAreNames, TokensName, Drawn, Unstamped, TypeOK, StampInv
    <2>7. CASE Rename(w) \/ RenameFails(w)
        BY <2>7, SMTT(60) DEF Rename, RenameFails, Notify, TokensAreNames, TokensName, Drawn, Unstamped, TypeOK
    <2> QED
        BY <1>2, <2>1, <2>2, <2>3, <2>4, <2>5, <2>6, <2>7 DEF WriterStep
<1>3. ASSUME NEW p \in Procs, Attach(p) \/ WatchRead(p) PROVE TokensAreNames'
    BY <1>3, SMTT(60) DEF Attach, WatchRead, TokensAreNames, TokensName, Drawn, Unstamped, TypeOK,
        SerialInv, DiskParses
<1>4. ASSUME NEW p \in Procs, WatchApply(p) PROVE TokensAreNames'
    <2>1. /\ UNCHANGED <<pc, inode, json, edited>>
          /\ raw' = [raw EXCEPT ![p] = Empty]
        BY <1>4 DEF WatchApply
    <2>2. \A q \in Procs : raw'[q].token # NoToken => raw'[q] = raw[q]
        BY <2>1 DEF TypeOK
    <2>3. \A q \in Procs : \/ mem'[q] = mem[q] /\ remembered'[q] = remembered[q]
                           \/ mem'[q] = raw[q].doc /\ remembered'[q] = raw[q].token
        BY <1>4 DEF WatchApply, TypeOK
    <2>4. TokensName(text)'
        BY <2>1, <2>2, <2>3 DEF TokensName, Drawn, Unstamped
    <2> QED
        BY <2>4 DEF TokensAreNames
<1>5. ASSUME NEW p \in Procs, CrashRestart(p) PROVE TokensAreNames'
    <2>1. /\ UNCHANGED <<inode, json, edited>>
          /\ raw' = [raw EXCEPT ![p] = Empty]
          /\ inode[disk].kind = "whole"
          /\ mem' = [mem EXCEPT ![p] = inode[disk].doc]
          /\ remembered' = [remembered EXCEPT ![p] = inode[disk].token]
        BY <1>5 DEF CrashRestart
    <2>2. \A w \in Writers : \/ pc'[w] = pc[w]
                             \/ home[w] = p /\ pc'[w] = "dead"
        BY <1>5 DEF CrashRestart, TypeOK
    <2>3. \A q \in Procs : raw'[q].token # NoToken => raw'[q] = raw[q]
        BY <2>1 DEF TypeOK
    <2>4. \A t : Drawn(t) => Drawn(t)'
        BY <2>1, <2>2 DEF Drawn
    <2>5. \A q \in Procs \ {p} : Unstamped(q)' <=> Unstamped(q)
        BY <2>2 DEF Unstamped
    <2>6. TokensName(text)'
        BY <2>1, <2>2, <2>3, <2>4, <2>5 DEF TokensName, TypeOK
    <2> QED
        BY <2>6 DEF TokensAreNames
<1>6. ASSUME NEW e \in Editors, EditFile(e) PROVE TokensAreNames'
    <2>1. inode[disk].doc \cup {e} \in SUBSET Edits
        BY FileFields DEF TypeOK, Edits
    <2>2. PICK now \in [Writers \cup Pulls -> SUBSET Edits] :
              now = [text EXCEPT ![e] = inode[disk].doc \cup {e}]
        BY <2>1
    <2>3. /\ UNCHANGED <<pc, json, mem, remembered, raw>>
          /\ inode' = [inode EXCEPT ![disk] = Whole(inode[disk].doc \cup {e}, e)]
          /\ edited' = edited \cup {e} /\ e \notin edited /\ e \notin Writers
        BY <1>6 DEF EditFile, Notify
    <2> DEFINE Given(t) == t \in edited' \/ (t \in Writers /\ pc'[t] \notin {"idle", "read", "set"})
    <2>4. ~Drawn(e) /\ Given(e) /\ \A t : Drawn(t) => Given(t)
        BY <2>3 DEF Drawn
    <2>5. \A t \in (Writers \cup Pulls) \ {e} : now[t] = text[t]
        BY <2>2
    <2>6. now[e] = inode[disk].doc \cup {e}
        BY <2>2
    <2>7. \A t \in Tokens : t # NoToken /\ Drawn(t) => Given(t) /\ now[t] = text[t]
        BY <2>4, <2>5 DEF Tokens
    <2> HIDE DEF Given
    <2>8. \A i \in Inodes : inode'[i].kind = "whole" /\ inode'[i].token # NoToken =>
              Given(inode'[i].token) /\ inode'[i].doc = now[inode'[i].token]
        <3> TAKE i \in Inodes
        <3>1. CASE i = disk
            <4>1. inode'[i].token = e /\ inode'[i].doc = inode[disk].doc \cup {e}
                BY <2>3, <3>1 DEF TypeOK
            <4> QED
                BY <2>4, <2>6, <4>1
        <3>2. CASE i # disk
            <4>1. inode'[i] = inode[i]
                BY <2>3, <3>2 DEF TypeOK
            <4>2. inode[i].token \in Tokens
                BY FileFields DEF TypeOK
            <4> QED
                BY <2>7, <4>1, <4>2 DEF TokensName
        <3> QED
            BY <3>1, <3>2
    <2>9. \A q \in Procs : raw[q].token \in Tokens /\ remembered[q] \in Tokens
        BY FileFields DEF TypeOK
    <2>10. \A q \in Procs : /\ raw'[q].token # NoToken =>
                                Given(raw'[q].token) /\ raw'[q].doc = now[raw'[q].token]
                            /\ remembered'[q] # NoToken /\ ~Unstamped(q)' =>
                                Given(remembered'[q]) /\ mem'[q] = now[remembered'[q]]
        BY <2>3, <2>7, <2>9 DEF TokensName, Unstamped
    <2>11. \A w \in Writers : pc'[w] \in {"stamped", "opened", "written"} =>
               json'[w].doc = now[w]
        BY <2>3, <2>5 DEF TokensName
    <2>12. TokensName(now)'
        BY <2>8, <2>10, <2>11 DEF TokensName, Given, Drawn
    <2> QED
        BY <2>12 DEF TokensAreNames
<1> QED
    BY <1>1, <1>2, <1>3, <1>4, <1>5, <1>6 DEF Next, WatchStep

\* A change of the file reaches the watchers that run, and counts as missed for
\* everybody else.
LEMMA NotifyTells ==
    ASSUME TypeOK, Watched, Notify
    PROVE  /\ \A p \in Procs \ missed' : p \in attached /\ events'[p] > 0
           /\ \A p \in Procs : raw[p] # Empty => events'[p] > 0
           /\ \A p \in Procs \ attached : events'[p] = events[p]
           /\ UNCHANGED <<attached, raw>>
BY StoreAssumption DEF Notify, TypeOK, Watched

\* Every step keeps what is known about the readers.
LEMMA HeardStep ==
    ASSUME TypeOK, SerialInv, HeardInv, [Next]_vars
    PROVE  Watched' /\ Heard'
<1> USE StoreAssumption DEF Inodes, memVars, writeVars, diskVars, watchVars, Goto,
        HeardInv
<1>1. CASE UNCHANGED vars
    BY <1>1 DEF Watched, Heard, Writing, vars
<1>2. ASSUME NEW w \in Writers, WriterStep(w) PROVE Watched' /\ Heard'
    <2>1. CASE Read(w)
        BY <2>1 DEF Read, Watched, Heard, Writing, TypeOK
    <2>2. CASE LoadFails(w) \/ SetDoc(w) \/ Stamp(w)
        BY <2>2 DEF LoadFails, SetDoc, Stamp, Watched, Heard, Writing, TypeOK
    <2>3. CASE OpenTmp(w) \/ (WriteTmp(w) /\ fd[w] # disk)
        <3>1. inode'[disk'] = inode[disk] /\ UNCHANGED <<disk, mem, watchVars>>
            BY <2>3 DEF OpenTmp, WriteTmp, SerialInv, TmpIsSpare, Named, TypeOK
        <3>2. \A p \in Procs : Writing(p) => Writing(p)'
            BY <2>3 DEF OpenTmp, WriteTmp, Writing, TypeOK
        <3> QED
            BY <3>1, <3>2 DEF Watched, Heard
    <2>4. ~(WriteTmp(w) /\ fd[w] = disk) /\ ~RenameFails(w)
        BY DEF WriteTmp, RenameFails, SerialInv, Opened, Written, TmpIsSpare
    <2>5. CASE Rename(w)
        BY <2>5, NotifyTells DEF Rename, Watched, Heard
    <2> QED
        BY <1>2, <2>1, <2>2, <2>3, <2>4, <2>5 DEF WriterStep
<1>3. ASSUME NEW p \in Procs, Attach(p) PROVE Watched' /\ Heard'
    BY <1>3 DEF Attach, Watched, Heard, Writing, TypeOK
<1>4. ASSUME NEW p \in Procs, WatchRead(p) PROVE Watched' /\ Heard'
    BY <1>4 DEF WatchRead, Watched, Heard, Writing, TypeOK, SerialInv, DiskParses, Empty
<1>5. ASSUME NEW p \in Procs, WatchApply(p) PROVE Watched' /\ Heard'
    <2>1. Watched'
        BY <1>5 DEF WatchApply, Watched, TypeOK
    <2>2. \A q \in Procs \ {p} : q \in missed' <=> q \in missed
        BY <1>5 DEF WatchApply
    <2>3. \A q \in Procs : Writing(q)' <=> Writing(q)
        BY <1>5 DEF WatchApply, Writing
    <2>4. \A q \in (Procs \ {p}) \ missed' :
              Writing(q)' \/ events'[q] > 0 \/ raw'[q] # Empty \/ mem'[q] = inode'[disk'].doc
        BY <1>5, <2>2, <2>3 DEF WatchApply, Heard, TypeOK
    <2>5. Writing(p) \/ events[p] > 0 \/ mem'[p] = inode[disk].doc
        <3>1. CASE IsEcho(p)
            <4>1. raw[p].token = remembered[p] /\ remembered[p] # NoToken
                BY <3>1 DEF IsEcho
            <4>2. Unstamped(p) => Writing(p)
                BY DEF Unstamped, Writing
            <4>3. Unstamped(p) \/ mem[p] = raw[p].doc
                BY <4>1 DEF TokensAreNames, TokensName
            <4>4. events[p] > 0 \/ raw[p] = inode[disk]
                BY <1>5 DEF WatchApply, Watched
            <4> QED
                BY <1>5, <3>1, <4>2, <4>3, <4>4 DEF WatchApply
        <3>2. CASE ~IsEcho(p)
            BY <1>5, <3>2 DEF WatchApply, Watched, TypeOK
        <3> QED
            BY <3>1, <3>2
    <2>6. UNCHANGED <<events, inode, disk>>
        BY <1>5 DEF WatchApply
    <2> QED
        BY <2>1, <2>3, <2>4, <2>5, <2>6 DEF Heard
<1>6. ASSUME NEW p \in Procs, CrashRestart(p) PROVE Watched' /\ Heard'
    <2>1. \A q \in Procs \ {p} : Writing(q) => Writing(q)'
        BY <1>6 DEF CrashRestart, Writing, TypeOK
    <2> QED
        BY <1>6, <2>1 DEF CrashRestart, Watched, Heard, TypeOK
<1>7. ASSUME NEW e \in Editors, EditFile(e) PROVE Watched' /\ Heard'
    BY <1>7, NotifyTells DEF EditFile, Watched, Heard
<1> QED
    BY <1>1, <1>2, <1>3, <1>4, <1>5, <1>6, <1>7 DEF Next, WatchStep

\* Writes that take turns, and editors that bring a token of their own: a
\* watching process that has handled its events holds the document on disk.
\* Skipping a file on its token (handle_disk_change) never skips a document the
\* process does not hold, although its own writes set the document first and
\* the token later.
THEOREM WatcherAgrees ==
    ASSUME Overlap = {}, Editors = Pulls PROVE Spec => []SettledAgrees
<1>1. HeardInv => SettledAgrees
    <2> SUFFICES ASSUME HeardInv, NEW p \in Watching, Settled(p)
                 PROVE  mem[p] = inode[disk].doc
        BY DEF SettledAgrees
    <2>1. p \in Procs \ missed /\ ~(events[p] > 0) /\ raw[p] = Empty
        BY StoreAssumption DEF Settled
    <2>2. ~Writing(p)
        BY DEF Settled, Writing, Busy
    <2> QED
        BY <2>1, <2>2 DEF HeardInv, Heard
<1>2. TypeOK /\ StampInv /\ [Next]_vars => StampInv'
    BY StampStep
<1>3. TypeOK /\ SerialInv /\ [Next]_vars => SerialInv'
    BY SerialStep
<1>4. TypeOK /\ StampInv /\ SerialInv /\ HeardInv /\ [Next]_vars => HeardInv'
    BY NamesStep, HeardStep DEF HeardInv
<1> QED
    BY <1>1, <1>2, <1>3, <1>4, StampInit, SerialInit, HeardInit, StoreTypeCorrect, PTL
    DEF Spec

-----------------------------------------------------------------------------
(* What a write of lpt keeps.                                              *)

\* An invocation of lpt is a process of its own: it watches nothing, and its
\* edit is not one that a page holds.
LptIsShort == \A w \in Loaders : w \notin UiWriters /\ home[w] \notin Watching

OnDisk == inode[disk].doc \cap Writers

\* From its load to its rename a write of lpt contains the edits on disk.
LoaderKeeps ==
    \A w \in Loaders :
        /\ pc[w] = "read" => OnDisk \subseteq base[w]
        /\ pc[w] = "set" => OnDisk \subseteq mem[home[w]]
        /\ pc[w] \in {"stamped", "opened", "written"} => OnDisk \subseteq json[w].doc

Deaf == \A p \in Procs \ Watching : raw[p] = Empty

\* Every step keeps it: nobody else renames a file meanwhile, and a text editor
\* adds to the one that is there.
LEMMA LoaderStep ==
    ASSUME Overlap = {}, LptIsShort, TypeOK, SerialInv, Watched, Deaf, LoaderKeeps,
           [Next]_vars
    PROVE  LoaderKeeps' /\ Deaf'
<1> USE StoreAssumption DEF Inodes, memVars, writeVars, diskVars, watchVars, Goto,
        LptIsShort, Empty
<1>1. CASE UNCHANGED vars
    BY <1>1 DEF LoaderKeeps, OnDisk, Deaf, vars
<1>2. ASSUME NEW w \in Writers, WriterStep(w) PROVE LoaderKeeps' /\ Deaf'
    <2>1. Rename(w) \/ OnDisk' = OnDisk
        <3>1. CASE Read(w) \/ LoadFails(w) \/ SetDoc(w) \/ Stamp(w) \/ RenameFails(w)
            BY <3>1 DEF Read, LoadFails, SetDoc, Stamp, RenameFails, OnDisk
        <3>2. CASE OpenTmp(w)
            BY <3>2 DEF OpenTmp, OnDisk, SerialInv, TmpIsSpare, Named, TypeOK
        <3>3. CASE WriteTmp(w)
            BY <3>3 DEF WriteTmp, OnDisk, SerialInv, TmpIsSpare, Opened, TypeOK
        <3> QED
            BY <1>2, <3>1, <3>2, <3>3 DEF WriterStep
    <2>2. Deaf'
        BY <1>2 DEF Deaf, WriterStep, Read, LoadFails, SetDoc, Stamp, OpenTmp, WriteTmp,
                    Rename, RenameFails, Notify
    <2>3. ASSUME NEW v \in Loaders \ {w}, pc[v] \in Busy
          PROVE  base'[v] = base[v] /\ json'[v] = json[v] /\ mem' = mem /\ OnDisk' = OnDisk
        <3>1. Active(v) /\ ~Active(w) /\ ~Alone(w)
            BY <2>3 DEF Active, Alone, SerialInv, OneActive
        <3>2. Read(w) \/ LoadFails(w)
            BY <1>2, <3>1 DEF WriterStep, SetDoc, Stamp, OpenTmp, WriteTmp, Rename,
                              RenameFails, Active, Busy
        <3>3. Read(w) => w \notin Loaders
            BY <3>1 DEF Read
        <3> QED
            BY <3>2, <3>3, <2>1 DEF Read, LoadFails, TypeOK, OnDisk
    <2>4. \A v \in Loaders \ {w} : pc'[v] = pc[v]
        BY <1>2 DEF WriterStep, Read, LoadFails, SetDoc, Stamp, OpenTmp, WriteTmp,
                    Rename, RenameFails, TypeOK
    <2>5. ASSUME w \in Loaders
          PROVE  /\ pc'[w] = "read" => OnDisk' \subseteq base'[w]
                 /\ pc'[w] = "set" => OnDisk' \subseteq mem'[home[w]]
                 /\ pc'[w] \in {"stamped", "opened", "written"} =>
                        OnDisk' \subseteq json'[w].doc
        <3>1. CASE Read(w)
            <4>1. mem'[home[w]] = inode[disk].doc
                BY <2>5, <3>1 DEF Read, TypeOK
            <4>2. base'[w] = inode[disk].doc /\ pc'[w] = "read"
                BY <3>1, <4>1 DEF Read, TypeOK
            <4>3. OnDisk' = OnDisk
                BY <3>1 DEF Read, OnDisk
            <4> QED
                BY <4>2, <4>3 DEF OnDisk
        <3>2. CASE SetDoc(w)
            <4>1. mem'[home[w]] = base[w] \cup {w} /\ pc'[w] = "set" /\ pc[w] = "read"
                BY <3>2 DEF SetDoc, TypeOK
            <4>2. OnDisk' = OnDisk
                BY <3>2 DEF SetDoc, OnDisk
            <4> QED
                BY <2>5, <4>1, <4>2 DEF LoaderKeeps
        <3>3. CASE Stamp(w)
            <4>1. json'[w].doc = mem[home[w]] /\ pc'[w] = "stamped" /\ pc[w] = "set"
                BY <3>3 DEF Stamp, TypeOK, Whole
            <4>2. OnDisk' = OnDisk
                BY <3>3 DEF Stamp, OnDisk
            <4> QED
                BY <2>5, <4>1, <4>2 DEF LoaderKeeps
        <3>4. CASE OpenTmp(w)
            BY <2>5, <3>4, <2>1 DEF OpenTmp, Rename, LoaderKeeps, TypeOK
        <3>5. CASE WriteTmp(w)
            BY <2>5, <3>5, <2>1 DEF WriteTmp, Rename, LoaderKeeps, TypeOK
        <3>6. CASE LoadFails(w) \/ Rename(w) \/ RenameFails(w)
            BY <3>6 DEF LoadFails, Rename, RenameFails, TypeOK
        <3> QED
            BY <1>2, <3>1, <3>2, <3>3, <3>4, <3>5, <3>6 DEF WriterStep
    <2> QED
        BY <2>2, <2>3, <2>4, <2>5 DEF LoaderKeeps, Busy
<1>3. ASSUME NEW p \in Procs, WatchStep(p) PROVE LoaderKeeps' /\ Deaf'
    <2>1. OnDisk' = OnDisk /\ UNCHANGED writeVars
        BY <1>3 DEF WatchStep, Attach, WatchRead, WatchApply, OnDisk
    <2>2. \A v \in Loaders : mem'[home[v]] = mem[home[v]]
        BY <1>3 DEF WatchStep, Attach, WatchRead, WatchApply, Deaf, TypeOK
    <2>3. LoaderKeeps'
        BY <2>1, <2>2 DEF LoaderKeeps
    <2>4. Deaf'
        <3>1. \A q \in Procs \ Watching : raw[q] = Empty /\ ~(events[q] > 0)
            BY DEF Watched, Deaf, TypeOK
        <3>2. CASE Attach(p)
            BY <3>1, <3>2 DEF Attach, Deaf
        <3>3. CASE WatchRead(p)
            <4>1. p \in Watching
                BY <3>1, <3>3 DEF WatchRead
            <4>2. \A q \in Procs \ {p} : raw'[q] = raw[q]
                BY <3>3 DEF WatchRead, TypeOK
            <4> QED
                BY <3>1, <4>1, <4>2 DEF Deaf
        <3>4. CASE WatchApply(p)
            BY <3>1, <3>4 DEF WatchApply, Deaf, TypeOK
        <3> QED
            BY <1>3, <3>2, <3>3, <3>4 DEF WatchStep
    <2> QED
        BY <2>3, <2>4
<1>4. ASSUME NEW p \in Procs, CrashRestart(p) PROVE LoaderKeeps' /\ Deaf'
    BY <1>4 DEF CrashRestart, LoaderKeeps, OnDisk, Deaf, TypeOK, Busy
<1>5. ASSUME NEW e \in Editors, EditFile(e) PROVE LoaderKeeps' /\ Deaf'
    <2>1. OnDisk' = OnDisk
        BY <1>5 DEF EditFile, OnDisk, Whole, TypeOK
    <2> QED
        BY <1>5, <2>1 DEF EditFile, Notify, LoaderKeeps, Deaf
<1> QED
    BY <1>1, <1>2, <1>3, <1>4, <1>5 DEF Next

\* mutate_local: a write of lpt keeps every edit that is in the file it
\* replaces, whatever processes crash between its load and its rename and
\* whatever text editors do meanwhile.
THEOREM LptDoesNotOverwrite ==
    ASSUME Overlap = {}, Editors = Pulls, LptIsShort PROVE Spec => LptKeepsAcked
<1>1. Init => LoaderKeeps /\ Deaf
    BY StoreAssumption DEF Init, LoaderKeeps, Deaf
<1>2. TypeOK /\ SerialInv /\ HeardInv /\ LoaderKeeps /\ Deaf /\ [Next]_vars =>
          LoaderKeeps' /\ Deaf'
    BY LoaderStep DEF HeardInv
<1>3. TypeOK /\ StampInv /\ [Next]_vars => StampInv'
    BY StampStep
<1>4. TypeOK /\ SerialInv /\ [Next]_vars => SerialInv'
    BY SerialStep
<1>5. TypeOK /\ StampInv /\ SerialInv /\ HeardInv /\ [Next]_vars => HeardInv'
    BY NamesStep, HeardStep DEF HeardInv
<1>6. TypeOK /\ SerialInv /\ LoaderKeeps /\ [Next]_vars =>
        [\A w \in Loaders : pc[w] = "written" /\ pc'[w] = "ok" =>
            inode[disk].doc \cap Writers \subseteq inode'[disk'].doc]_vars
    <2> SUFFICES ASSUME TypeOK, SerialInv, LoaderKeeps, Next, NEW w \in Loaders,
                        pc[w] = "written", pc'[w] = "ok"
                 PROVE  inode[disk].doc \cap Writers \subseteq inode'[disk'].doc
        BY DEF vars
    <2> USE StoreAssumption DEF TypeOK, Goto, writeVars
    <2>1. Rename(w)
        BY DEF Next, WriterStep, Read, LoadFails, SetDoc, Stamp, OpenTmp, WriteTmp,
               Rename, RenameFails, WatchStep, Attach, WatchRead, WatchApply,
               CrashRestart, EditFile, Busy
    <2> QED
        BY <2>1 DEF Rename, SerialInv, Written, LoaderKeeps, OnDisk
<1> QED
    BY <1>1, <1>2, <1>3, <1>4, <1>5, <1>6, StampInit, SerialInit, HeardInit,
       StoreTypeCorrect, PTL
    DEF Spec, LptKeepsAcked
=============================================================================
