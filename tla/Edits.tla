------------------------------- MODULE Edits -------------------------------
(***************************************************************************)
(* What the editing commands do to the configuration document: the GUI's   *)
(* commands (src/apps/desktop/src-tauri/src/commands/mod.rs) and the pages *)
(* that call them, and the subcommands of lpt that edit the same file.     *)
(*                                                                         *)
(* There are up to three copies of the document: the file, the store of    *)
(* the GUI process, and the one a page fetched last.  A GUI command works  *)
(* on the store and writes the file, a page builds its edit from its own   *)
(* copy, lpt reads and writes the file.  The GUI hears of a change to the  *)
(* file later.  Each command is one step here; ConfigStore takes them      *)
(* apart.  Launch-at-login lives in a second place, the LaunchAgent plist. *)
(***************************************************************************)
EXTENDS Chooser, FiniteSets

CONSTANTS
    Browsers,    \* browser ids
    Real,        \* [Browsers -> SUBSET profile]: what each browser has
    Orders,      \* sequences of profile ids the order editor may send
    Spaces,      \* workspace ids
    NoSpace,     \* no workspace
    InitialDocs, \* documents the file may hold at first
    Brought,     \* documents that import, compile, the JSON editor and text
                 \* editors bring
    MaxRules,    \* bound: rule ids given out
    MaxEdits     \* bound: edits made

VARIABLES
    disk,        \* the document in the file
    gui,         \* the document in the GUI's ConfigStore
    page,        \* the document the page fetched last
    guiAt,       \* "down", "loaded" (no watcher yet) or "up"
    event,       \* the file changed and the GUI has not looked yet
    plist,       \* the LaunchAgent plist of launch-at-login exists
    created,     \* rule ids 1..created exist or existed
    blind,       \* the last write was not made from the document it replaced
    loose,       \* some write was, or lpt named a workspace nobody created
    loginEdited, \* launch_at_login was written without the plist
    edits        \* edits so far

docVars == <<disk, gui, page>>
vars == <<docVars, guiAt, event, plist, created, blind, loose, loginEdited, edits>>

Rule  == [id : 1..MaxRules, on : BOOLEAN, space : Spaces \cup {NoSpace}]
Space == [id : Spaces, on : BOOLEAN]

ProfileIds == UNION {ToSet(order) : order \in Orders}

Doc == [rules : Seq(Rule), spaces : Seq(Space),
        customs : Seq([id : Browsers, by : {"user"}]),
        hidden : Seq(Browsers), orders : [Browsers -> Seq(ProfileIds)],
        target : Browsers, smart : BOOLEAN, login : BOOLEAN]

ASSUME EditsAssumption ==
    /\ {MaxRules, MaxEdits} \subseteq Nat
    /\ NoSpace \notin Spaces
    /\ IsFiniteSet(Browsers) /\ \A b \in Browsers : IsFiniteSet(Real[b])
    /\ Orders \subseteq Seq(ProfileIds)
    /\ InitialDocs \cup Brought \subseteq Doc
    /\ \A d \in InitialDocs :
           Len(d.rules) <= MaxRules /\ Ids(d.rules) \subseteq 1..Len(d.rules)

TypeOK ==
    /\ {disk, gui, page} \subseteq Doc
    /\ guiAt \in {"down", "loaded", "up"}
    /\ {event, plist, blind, loose, loginEdited} \subseteq BOOLEAN
    /\ created \in 0..MaxRules
    /\ edits \in 0..MaxEdits

Init ==
    /\ disk \in InitialDocs
    /\ gui = disk
    /\ page = disk
    /\ guiAt = "down"
    /\ event = FALSE
    /\ plist \in BOOLEAN
    /\ created = Len(disk.rules)
    /\ blind = FALSE
    /\ loose = FALSE
    /\ loginEdited = TRUE    \* no start has reconciled the two yet
    /\ edits = 0

-----------------------------------------------------------------------------
(* Edits of one document.                                                  *)

\* The rules that leave a workspace stay, ungrouped.
Ungrouped(rules, w) ==
    [i \in DOMAIN rules |->
        IF rules[i].space = w THEN [rules[i] EXCEPT !.space = NoSpace] ELSE rules[i]]

\* Faulty variant: the rules keep the id of the deleted workspace.
DropSpace(d, w) == [d EXCEPT !.spaces = Without(d.spaces, w)]

WithoutSpace(d, w) ==
    [d EXCEPT !.spaces = Without(d.spaces, w), !.rules = Ungrouped(d.rules, w)]

SpaceSet(d, w, on) == [d EXCEPT !.spaces = Put(d.spaces, [id |-> w, on |-> on])]

\* Faulty variant: a browser hidden twice is listed twice.
HideAgain(hidden, b, enabled) ==
    IF enabled THEN Kept(hidden, {i \in DOMAIN hidden : hidden[i] # b}) ELSE Append(hidden, b)

\* browser_set_enabled
Shown(hidden, b, enabled) ==
    IF enabled THEN Kept(hidden, {i \in DOMAIN hidden : hidden[i] # b})
    ELSE IF Contains(hidden, b) THEN hidden ELSE Append(hidden, b)

\* The rules a prefix names; ids are drawn at random, so it may be any set.
FindRule(d, prefix) == {i \in DOMAIN d.rules : d.rules[i].id \in prefix}

-----------------------------------------------------------------------------
(* Writing a document.                                                     *)

\* Counts the edit and records how it was made.
Made(isBlind, isLoose) ==
    /\ edits < MaxEdits
    /\ edits' = edits + 1
    /\ blind' = isBlind
    /\ loose' = (loose \/ isBlind \/ isLoose)

\* replace_config: the store first, then the file, which may fail.
ReplaceConfig(d, isBlind) ==
    /\ guiAt = "up"
    /\ gui' = d
    /\ \/ /\ disk' = d
          /\ event' = (event \/ d # disk)
          /\ loginEdited' = (loginEdited \/ d.login # disk.login)
       \/ UNCHANGED <<disk, event, loginEdited>>
    /\ Made(isBlind, FALSE)

\* A command of the GUI works on the store, which may be behind the file.
Command(d) == ReplaceConfig(d, gui # disk) /\ UNCHANGED <<page, guiAt, plist>>

\* A command that carries something the page read earlier.
PageCommand(d, isStale) ==
    /\ ReplaceConfig(d, isStale \/ gui # disk)
    /\ UNCHANGED <<page, guiAt, plist>>

\* Another process writes the file.  A document whose launch_at_login differs
\* from the one before is one the plist knows nothing of.
WriteFile(d, isBlind, isLoose) ==
    /\ disk' = d
    /\ event' = (event \/ (guiAt = "up" /\ d # disk))
    /\ loginEdited' = (loginEdited \/ d.login # disk.login)
    /\ Made(isBlind, isLoose)
    /\ UNCHANGED <<gui, page, guiAt, plist>>

\* mutate_local: load, change, replace; a save that fails changes nothing.
MutateLocal(d) == WriteFile(d, FALSE, FALSE)

-----------------------------------------------------------------------------
(* Commands of the GUI.                                                    *)

\* saveRule of a new rule, copyRuleToGui, acceptSuggestion.
NewRule ==
    /\ created < MaxRules
    /\ created' = created + 1
    /\ \E w \in Ids(page.spaces) \cup {NoSpace} :
           PageCommand([gui EXCEPT !.rules =
               Put(@, [id |-> created + 1, on |-> TRUE, space |-> w])],
               w \notin Ids(gui.spaces) \cup {NoSpace})

\* saveRule of an edited rule, moveRuleToWorkspace, the row's switch.
RuleUpsert ==
    /\ UNCHANGED created
    /\ \E i \in DOMAIN page.rules, on \in BOOLEAN,
          w \in Ids(page.spaces) \cup {NoSpace} :
           LET rule == [page.rules[i] EXCEPT !.on = on, !.space = w]
           IN  /\ rule # page.rules[i]
               /\ PageCommand([gui EXCEPT !.rules = Put(@, rule)],
                      \/ page.rules[i] \notin ToSet(gui.rules)
                      \/ w \notin Ids(gui.spaces) \cup {NoSpace})

RuleDelete ==
    /\ UNCHANGED created
    /\ \E id \in Ids(page.rules) :
           Command([gui EXCEPT !.rules = Without(@, id)])

WorkspaceUpsert ==
    /\ UNCHANGED created
    /\ \E w \in Spaces, on \in BOOLEAN : Command(SpaceSet(gui, w, on))

WorkspaceDelete ==
    /\ UNCHANGED created
    /\ \E w \in Ids(page.spaces) : Command(WithoutSpace(gui, w))

\* Refused when the store knows no such workspace.
WorkspaceSetEnabled ==
    /\ UNCHANGED created
    /\ \E w \in Ids(page.spaces) \cap Ids(gui.spaces), on \in BOOLEAN :
           Command(SpaceSet(gui, w, on))

\* Also set_language and set_picker_style: one field of the settings.
SetSmartRouting ==
    /\ UNCHANGED created
    /\ Command([gui EXCEPT !.smart = ~gui.smart])

SetProfileOrder ==
    /\ UNCHANGED created
    /\ \E b \in Browsers, order \in Orders :
           Command([gui EXCEPT !.orders[b] = Deduped(order)])

AddCustomBrowser ==
    /\ UNCHANGED created
    /\ \E b \in Browsers :
           Command([gui EXCEPT !.customs = Put(@, [id |-> b, by |-> "user"])])

RemoveCustomBrowser ==
    /\ UNCHANGED created
    /\ \E b \in Ids(page.customs) :
           Command([gui EXCEPT !.customs = Without(@, b)])

BrowserSetEnabled ==
    /\ UNCHANGED created
    /\ \E b \in Browsers, enabled \in BOOLEAN :
           Command([gui EXCEPT !.hidden = Shown(@, b, enabled)])

\* Faulty variant: the preference is saved before the plist is written.
SetLoginConfigFirst ==
    /\ guiAt = "up"
    /\ gui' = [gui EXCEPT !.login = ~gui.login]
    /\ disk' = gui'
    /\ event' = TRUE
    /\ \/ plist' = gui'.login
       \/ UNCHANGED plist
    /\ loginEdited' = FALSE
    /\ Made(gui # disk, FALSE)
    /\ UNCHANGED <<page, guiAt, created>>

\* The plist first; the preference once that has succeeded.  When the file
\* then cannot be written the two differ until the next start.
SetLaunchAtLogin ==
    /\ guiAt = "up"
    /\ \E enabled \in BOOLEAN :
           /\ plist' = enabled
           /\ gui' = [gui EXCEPT !.login = enabled]
    /\ \/ disk' = gui' /\ event' = (event \/ gui' # disk) /\ loginEdited' = FALSE
       \/ UNCHANGED <<disk, event>> /\ loginEdited' = TRUE
    /\ Made(gui # disk, FALSE)
    /\ UNCHANGED <<page, guiAt, created>>

\* commitReorder, one drag: the whole document as the page knows it.
CommitReorder ==
    /\ UNCHANGED created
    /\ \E from, to \in DOMAIN page.rules :
           /\ from # to
           /\ PageCommand([page EXCEPT !.rules = Moved(@, from, to)], page # gui)

\* The settings page and the menu-bar page send the whole document too.
UpdateDefaultTarget ==
    /\ UNCHANGED created
    /\ \E b \in Browsers : PageCommand([page EXCEPT !.target = b], page # gui)

\* The onboarding reads the document right before; templates go on top.
FinishOnboarding ==
    /\ \E n \in 0..(MaxRules - created), b \in Browsers :
           /\ created' = created + n
           /\ Command([gui EXCEPT
                  !.target = b,
                  !.rules = [k \in 1..n |-> [id |-> created + k, on |-> TRUE,
                                             space |-> NoSpace]] \o @])

\* import_config and the JSON editor: a document from elsewhere.
ImportConfig ==
    /\ UNCHANGED created
    /\ \E d \in Brought :
           /\ ToSet(d.rules) \subseteq {r \in Rule : r.id <= created}
           /\ ReplaceConfig(d, TRUE)
    /\ UNCHANGED <<page, guiAt, plist>>

-----------------------------------------------------------------------------
(* Subcommands of lpt.                                                     *)

\* --workspace is taken as it is given.
RulesAdd ==
    /\ created < MaxRules
    /\ created' = created + 1
    /\ \E w \in Spaces \cup {NoSpace}, on \in BOOLEAN :
           WriteFile([disk EXCEPT !.rules =
                  Append(@, [id |-> created + 1, on |-> on, space |-> w])], FALSE,
                  w \notin Ids(disk.spaces) \cup {NoSpace})

\* One rule of the file, named by a prefix only it has.
OneRule(Edited(_)) ==
    /\ UNCHANGED created
    /\ \E prefix \in SUBSET (1..created) :
           LET hits == FindRule(disk, prefix)
           IN  /\ Cardinality(hits) = 1
               /\ \E i \in hits : MutateLocal([disk EXCEPT !.rules = Edited(i)])

RulesDelete == OneRule(LAMBDA i : Without(disk.rules, disk.rules[i].id))

RulesSetEnabled ==
    \E on \in BOOLEAN : OneRule(LAMBDA i : [disk.rules EXCEPT ![i].on = on])

\* Top, up, down and bottom; where that is where it stands, nothing moves.
RulesMove ==
    \E pos \in {"top", "up", "down", "bottom"} :
        OneRule(LAMBDA i :
            LET last == Len(disk.rules)
                to == CASE pos = "top" -> 1
                        [] pos = "up" -> IF i = 1 THEN 1 ELSE i - 1
                        [] pos = "down" -> IF i = last THEN last ELSE i + 1
                        [] pos = "bottom" -> last
            IN  IF to = i THEN disk.rules ELSE Moved(disk.rules, i, to))

WorkspacesAdd ==
    /\ UNCHANGED created
    /\ \E w \in Spaces, on \in BOOLEAN : MutateLocal(SpaceSet(disk, w, on))

WorkspacesDelete ==
    /\ UNCHANGED created
    /\ \E w \in Ids(disk.spaces) : MutateLocal(WithoutSpace(disk, w))

WorkspacesSetEnabled ==
    /\ UNCHANGED created
    /\ \E w \in Ids(disk.spaces), on \in BOOLEAN :
           MutateLocal(SpaceSet(disk, w, on))

CustomAdd ==
    /\ UNCHANGED created
    /\ \E b \in Browsers :
           MutateLocal([disk EXCEPT !.customs = Put(@, [id |-> b, by |-> "user"])])

CustomRemove ==
    /\ UNCHANGED created
    /\ \E b \in Ids(disk.customs) :
           MutateLocal([disk EXCEPT !.customs = Without(@, b)])

\* lpt browsers enable and disable.
BrowsersSetEnabled ==
    /\ UNCHANGED created
    /\ \E b \in Browsers, enabled \in BOOLEAN :
           MutateLocal([disk EXCEPT !.hidden = Shown(@, b, enabled)])

\* lpt settings: among them launch-at-login, without its plist.
SettingsSet ==
    /\ UNCHANGED created
    /\ \/ MutateLocal([disk EXCEPT !.smart = ~disk.smart])
       \/ MutateLocal([disk EXCEPT !.login = ~disk.login])

SetDefaultTarget ==
    /\ UNCHANGED created
    /\ \E b \in Browsers : MutateLocal([disk EXCEPT !.target = b])

\* lpt config import and compile, a text editor, a git pull.
ConfigImport ==
    /\ UNCHANGED created
    /\ \E d \in Brought :
           /\ ToSet(d.rules) \subseteq {r \in Rule : r.id <= created}
           /\ WriteFile(d, TRUE, FALSE)

-----------------------------------------------------------------------------
(* The GUI process.                                                        *)

StartGui ==
    /\ guiAt = "down"
    /\ guiAt' = "loaded"
    /\ gui' = disk
    /\ page' = disk
    /\ event' = FALSE
    /\ UNCHANGED <<disk, plist, created, blind, loose, loginEdited, edits>>

\* The plist follows the document that was loaded, if it can be written;
\* then the watcher is attached.
Reconcile ==
    /\ guiAt = "loaded"
    /\ guiAt' = "up"
    /\ \/ /\ plist' = gui.login
          /\ loginEdited' = (gui.login # disk.login)
       \/ UNCHANGED <<plist, loginEdited>>
    /\ UNCHANGED <<docVars, event, created, blind, loose, edits>>

\* handle_disk_change; the echo of an own write finds the same document.
Watch ==
    /\ guiAt = "up"
    /\ event
    /\ event' = FALSE
    /\ gui' = disk
    /\ UNCHANGED <<disk, page, guiAt, plist, created, blind, loose, loginEdited, edits>>

\* refresh() of a page.
Fetch ==
    /\ guiAt = "up"
    /\ page # gui
    /\ page' = gui
    /\ UNCHANGED <<disk, gui, guiAt, event, plist, created, blind, loose, loginEdited, edits>>

Quit ==
    /\ guiAt # "down"
    /\ guiAt' = "down"
    /\ event' = FALSE
    /\ UNCHANGED <<docVars, plist, created, blind, loose, loginEdited, edits>>

GuiCommands ==
    \/ NewRule \/ RuleUpsert \/ RuleDelete
    \/ WorkspaceUpsert \/ WorkspaceDelete \/ WorkspaceSetEnabled
    \/ SetSmartRouting \/ SetProfileOrder \/ SetLaunchAtLogin
    \/ AddCustomBrowser \/ RemoveCustomBrowser \/ BrowserSetEnabled
    \/ CommitReorder \/ UpdateDefaultTarget \/ FinishOnboarding \/ ImportConfig

LptCommands ==
    \/ RulesAdd \/ RulesDelete \/ RulesSetEnabled \/ RulesMove
    \/ WorkspacesAdd \/ WorkspacesDelete \/ WorkspacesSetEnabled
    \/ CustomAdd \/ CustomRemove \/ BrowsersSetEnabled
    \/ SettingsSet \/ SetDefaultTarget \/ ConfigImport

Next ==
    \/ GuiCommands
    \/ LptCommands
    \/ StartGui \/ Reconcile \/ Watch \/ Fetch \/ Quit

Spec == Init /\ [][Next]_vars
-----------------------------------------------------------------------------
(* Properties.                                                             *)

Distinct(s) == \A i, j \in DOMAIN s : s[i] = s[j] => i = j

Clean(d) ==
    /\ DistinctIds(d.rules) /\ DistinctIds(d.spaces) /\ DistinctIds(d.customs)
    /\ Distinct(d.hidden)
    /\ \A b \in Browsers : Distinct(d.orders[b])

\* Whatever commands are mixed, and whichever copy they start from, no copy of
\* the document lists a rule, workspace, custom browser, hidden browser or
\* profile twice: every lookup by id (find, position, the page's byId map)
\* means one entry.
WellFormed == TypeOK /\ Clean(disk) /\ Clean(gui) /\ Clean(page)

\* "So no rule is left dangling": as long as every write started from the
\* document it replaced, each rule of the file is in a workspace that exists.
NoRuleDangles ==
    ~loose => \A i \in DOMAIN disk.rules :
                  disk.rules[i].space \in Ids(disk.spaces) \cup {NoSpace}

\* "The saved config never claims a state the LaunchAgent doesn't reflect":
\* the plist and the file disagree about launch at login only after the
\* preference was written by something other than its command, or a step of
\* that command or of the start-up reconciliation failed.
LoginAgrees == loginEdited \/ plist = disk.login

\* The list of browsers has each browser once, the user's entry where there
\* is one, and the detected ones stay in their places.
ListedOnce ==
    \A installed \in SUBSET Browsers :
        LET ids == SetToSeq(installed)
            scan == [i \in DOMAIN ids |-> [id |-> ids[i], by |-> "scan"]]
            list == Merged(scan, gui.customs)
        IN  /\ DistinctIds(list)
            /\ Ids(list) = installed \cup Ids(gui.customs)
            /\ \A i \in DOMAIN list :
                   list[i].by = "user" <=> list[i].id \in Ids(gui.customs)
            /\ \A i \in DOMAIN ids : list[i].id = ids[i]

\* What is in both lists is in the same order in both.
InOrderOf(shown, order) ==
    \A i, j \in DOMAIN shown, k, l \in DOMAIN order :
        shown[i] = order[k] /\ shown[j] = order[l] => (i < j <=> k < l)

\* The wheel is never empty when there is something to choose, offers a hidden
\* browser only when all are hidden, and each tile shows profiles the browser
\* has, each once, in the saved order, which hides the others.
WheelIsUsable ==
    \A offered \in (SUBSET Browsers) \ {{}} :
        LET wheel == Wheel(SetToSeq(offered), Real, gui)
        IN  /\ wheel # <<>>
            /\ \A i \in DOMAIN wheel :
                   LET b == wheel[i].id
                       shown == wheel[i].profiles
                   IN  /\ Contains(gui.hidden, b) => offered \subseteq ToSet(gui.hidden)
                       /\ Distinct(shown)
                       /\ ToSet(shown) = IF gui.orders[b] = <<>> THEN Real[b]
                                         ELSE Real[b] \cap ToSet(gui.orders[b])
                       /\ InOrderOf(shown, gui.orders[b])

\* Both lists that a user chooses from, for every document the edits produce.
ChooserIsUsable == ListedOnce /\ WheelIsUsable

RL == INSTANCE RuleList WITH rules <- disk.rules, overwritten <- blind

\* Every edit, by whichever program, does to the rules of the file what
\* RuleList allows: no other rule changes or moves, and a deleted rule does
\* not come back, unless the write was made from an older copy.
KeepsRuleList == RL!Spec
============================================================================
