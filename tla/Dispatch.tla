------------------------------ MODULE Dispatch ------------------------------
(***************************************************************************)
(* From a URL to a browser: src/apps/desktop/src-tauri/src/dispatch.rs and *)
(* its callers url_handler.rs, ipc_host.rs and commands::route_open.       *)
(*                                                                         *)
(* Each element of Contexts is one URL that is opened once.  Its caller    *)
(* (the main thread, or a worker of the IPC server) evaluates it and runs  *)
(* execute; an ask goes on in a thread of its own, which shows the picker  *)
(* by the rules of AskContract.  Meanwhile the configuration and the set   *)
(* of installed browsers may change.                                       *)
(***************************************************************************)
EXTENDS Routing, FiniteSets

CONSTANTS
    Docs,       \* the documents the configuration may be
    ViaIpc,     \* the opens that arrive as IPC RouteOpen
    Custom,     \* browsers known only from the document's custom_browsers
    NoAsk,      \* no pick
    MaxChanges  \* bound: changes of the configuration and of the browsers

ASSUME DispatchAssumption ==
    /\ Docs # {} /\ \A d \in Docs : IsDoc(d)
    /\ ViaIpc \subseteq Contexts
    /\ Custom \subseteq Browsers
    /\ NoAsk \notin Contexts
    /\ MaxChanges \in Nat

VARIABLES
    doc,        \* the document in memory
    installed,  \* what the platform's inventory lists
    changes,    \* changes so far
    pc,         \* where each open stands
    decision,   \* the decision evaluated for it
    default,    \* default_target, read by execute
    seen,       \* the inventory that the plan was made with
    left,       \* the browsers still to try, in order
    onFail,     \* what follows when none of them opens
    offered,    \* the choices of its picker
    stage,      \* its ask: new, open, dropped or done (AskContract)
    picked,     \* the ask its pick came from (AskContract)
    tried       \* the launches attempted for it (history)

envVars  == <<doc, installed, changes>>
planVars == <<decision, default, seen>>
tryVars  == <<left, onFail, tried>>
askVars  == <<offered, stage, picked>>
vars == <<envVars, pc, planVars, tryVars, askVars>>

Picker == INSTANCE AskContract WITH Asks <- Contexts

Inventory == Browsers \ Custom
Final == {"launched", "skipped", "failed", "dismissed", "lost"}
Attempts == [browser : Targets, ok : BOOLEAN, asked : BOOLEAN]

TypeOK ==
    /\ doc \in Docs
    /\ installed \subseteq Inventory
    /\ changes \in 0..MaxChanges
    /\ pc \in [Contexts -> {"idle", "decided", "planning", "launching",
                            "asking", "picker", "shown"} \cup Final]
    /\ decision \in [Contexts -> Actions]
    /\ default \in [Contexts -> Targets]
    /\ seen \in [Contexts -> SUBSET Inventory]
    /\ left \in [Contexts -> Seq(Targets)]
    /\ onFail \in [Contexts -> {"failed", "asking", "lost"}]
    /\ offered \in [Contexts -> SUBSET Browsers]
    /\ stage \in [Contexts -> {"new", "open", "dropped", "done"}]
    /\ picked \in [Contexts -> Contexts \cup {NoAsk}]
    /\ tried \in [Contexts -> Seq(Attempts)]

Init ==
    /\ doc \in Docs
    /\ installed \in SUBSET Inventory
    /\ changes = 0
    /\ pc = [o \in Contexts |-> "idle"]
    /\ decision = [o \in Contexts |-> Ask]
    /\ default = [o \in Contexts |-> System]
    /\ seen = [o \in Contexts |-> {}]
    /\ left = [o \in Contexts |-> <<>>]
    /\ onFail = [o \in Contexts |-> "failed"]
    /\ offered = [o \in Contexts |-> {}]
    /\ tried = [o \in Contexts |-> <<>>]
    /\ Picker!Init

-----------------------------------------------------------------------------
Goto(o, from, to) ==
    /\ pc[o] = from
    /\ pc' = [pc EXCEPT ![o] = to]

\* execute runs on its caller's thread until it returns; an ask does not.
InCaller(o) ==
    \/ pc[o] \in {"decided", "planning"}
    \/ pc[o] = "launching" /\ stage[o] = "new"
MainFree == \A o \in Contexts \ ViaIpc : ~InCaller(o)

\* The browsers to try for o from now on, and what follows if none opens.
Try(o, browsers, otherwise) ==
    /\ left' = [left EXCEPT ![o] = browsers]
    /\ onFail' = [onFail EXCEPT ![o] = otherwise]
    /\ UNCHANGED tried

\* Faulty variant: always a second attempt.
WithFallbackAlways(primary, fallback) == <<primary, fallback>>

\* open_with_default_fallback: no second attempt in the same browser.
WithFallback(primary, fallback) ==
    IF primary = fallback THEN <<primary>> ELSE <<primary, fallback>>

\* An entry point: snapshot the document, evaluate, log to history.
Decide(o) ==
    /\ o \in ViaIpc \/ MainFree
    /\ Goto(o, "idle", "decided")
    /\ \E shortcut \in BOOLEAN :
            decision' = [decision EXCEPT ![o] = Evaluate(doc, o, shortcut)]
    /\ UNCHANGED <<envVars, default, seen, tryVars, askVars>>

\* execute: read the default target of the document that is current now.
Execute(o) ==
    /\ Goto(o, "decided",
            CASE decision[o].kind = "open" -> "planning"
              [] decision[o].kind = "ask"  -> "asking"
              [] OTHER                     -> "skipped")
    /\ default' = [default EXCEPT ![o] = doc.default]
    /\ UNCHANGED <<envVars, decision, seen, tryVars, askVars>>

\* plan_open_target over an inventory that is empty if it cannot be read, and
\* what execute does with each plan.
Plan(o) ==
    \E inv \in {installed, {}} :
        LET primary  == decision[o].target
            fallback == default[o]
        IN  /\ seen' = [seen EXCEPT ![o] = inv]
            /\ \/ /\ primary \in inv
                  /\ fallback \in inv \cup {primary}
                  /\ Goto(o, "planning", "launching")
                  /\ Try(o, WithFallback(primary, fallback), "failed")
               \/ /\ primary \in inv
                  /\ fallback \notin inv \cup {primary}
                  /\ Goto(o, "planning", "launching")
                  /\ Try(o, <<primary>>, "asking")
               \/ /\ primary \notin inv
                  /\ fallback \in inv
                  /\ Goto(o, "planning", "launching")
                  /\ Try(o, <<fallback>>, "asking")
               \/ /\ {primary, fallback} \cap inv = {}
                  /\ Goto(o, "planning", "asking")
                  /\ UNCHANGED tryVars
            /\ UNCHANGED <<envVars, decision, default, askVars>>

\* Faulty variant: the fallback is tried after a success, too.
LaunchGoesOn(o) ==
    /\ Goto(o, "launching",
            IF Len(left[o]) = 1 THEN "launched" ELSE "launching")
    /\ Head(left[o]) \in installed
    /\ left' = [left EXCEPT ![o] = Tail(@)]
    /\ tried' = [tried EXCEPT ![o] = Append(@,
            [browser |-> Head(left[o]), ok |-> TRUE, asked |-> stage[o] # "new"])]
    /\ UNCHANGED <<envVars, planVars, onFail, askVars>>

\* UrlLauncher::open: a browser that is not in the inventory is refused, one
\* that is may still fail to start.
LaunchSucceeds(o) ==
    /\ Goto(o, "launching", "launched")
    /\ Head(left[o]) \in installed
    /\ left' = [left EXCEPT ![o] = <<>>]
    /\ tried' = [tried EXCEPT ![o] = Append(@,
            [browser |-> Head(left[o]), ok |-> TRUE, asked |-> stage[o] # "new"])]
    /\ UNCHANGED <<envVars, planVars, onFail, askVars>>

LaunchFails(o) ==
    /\ Goto(o, "launching",
            IF Len(left[o]) = 1 THEN onFail[o] ELSE "launching")
    /\ left' = [left EXCEPT ![o] = Tail(@)]
    /\ tried' = [tried EXCEPT ![o] = Append(@,
            [browser |-> Head(left[o]), ok |-> FALSE, asked |-> stage[o] # "new"])]
    /\ UNCHANGED <<envVars, planVars, onFail, askVars>>

\* resolve_ask, up to show_picker: the candidates are always empty, so every
\* installed browser is offered, without the hidden ones unless that leaves
\* nothing.
Choices == IF installed \ doc.hidden = {} THEN installed
           ELSE installed \ doc.hidden

Offer(o) ==
    /\ installed # {}
    /\ Goto(o, "asking", "picker")
    /\ offered' = [offered EXCEPT ![o] = Choices]
    /\ UNCHANGED <<envVars, planVars, tryVars, stage, picked>>

\* The inventory cannot be read, or nothing is installed.
OfferNothing(o) ==
    /\ Goto(o, "asking", "dismissed")
    /\ UNCHANGED <<envVars, planVars, tryVars, askVars>>

PickerOpens(o) ==
    /\ Goto(o, "picker", "shown")
    /\ Picker!Open(o)
    /\ UNCHANGED <<envVars, planVars, tryVars, offered>>

\* Another ask holds the picker: this one is cancelled.
PickerBusy(o) ==
    /\ Goto(o, "picker", "dismissed")
    /\ Picker!Drop(o)
    /\ UNCHANGED <<envVars, planVars, tryVars, offered>>

\* Faulty variant: the picked id is looked up in a fresh inventory.
UserPicksInstalled(o) ==
    /\ MainFree
    /\ Goto(o, "shown", "launching")
    /\ Picker!Finish(o) /\ picked'[o] = o
    /\ \E b \in installed : Try(o, WithFallback(b, default[o]), "lost")
    /\ UNCHANGED <<envVars, planVars, offered>>

\* picker_resolve runs on the main thread.
UserPicks(o) ==
    /\ MainFree
    /\ Goto(o, "shown", "launching")
    /\ Picker!Finish(o) /\ picked'[o] = o
    /\ \E b \in offered[o] : Try(o, WithFallback(b, default[o]), "lost")
    /\ UNCHANGED <<envVars, planVars, offered>>

\* Faulty variant: the picker waits for its user without a limit.
NoPickNever(o) == FALSE /\ pc' = [pc EXCEPT ![o] = "dismissed"]

\* Esc, a closed window, or the time limit.
NoPick(o) ==
    /\ Goto(o, "shown", "dismissed")
    /\ Picker!Finish(o) /\ picked'[o] = NoAsk
    /\ UNCHANGED <<envVars, planVars, tryVars, offered>>

-----------------------------------------------------------------------------
\* The world around: configuration edits, (un)installed browsers.
Change ==
    /\ changes < MaxChanges
    /\ changes' = changes + 1
    /\ \/ doc' \in Docs \ {doc} /\ UNCHANGED installed
       \/ installed' \in SUBSET Inventory \ {installed} /\ UNCHANGED doc
    /\ UNCHANGED <<pc, planVars, tryVars, askVars>>

ThreadStep(o) ==
    \/ Execute(o) \/ Plan(o) \/ LaunchSucceeds(o) \/ LaunchFails(o)
    \/ Offer(o) \/ OfferNothing(o) \/ PickerOpens(o) \/ PickerBusy(o)
    \/ NoPick(o)

Next ==
    \/ \E o \in Contexts : Decide(o) \/ ThreadStep(o) \/ UserPicks(o)
    \/ Change

Spec == Init /\ [][Next]_vars

\* Threads run on, and show_picker's time limit ends the wait for the user.
FairSpec == Spec /\ \A o \in Contexts : WF_vars(ThreadStep(o))

-----------------------------------------------------------------------------
(* Safety.                                                                 *)

\* A URL opens at most once, whatever fallback, picker and retry do.
OpensOnce ==
    \A o \in Contexts : \A i \in 1..(Len(tried[o]) - 1) : ~tried[o][i].ok

\* open_with_default_fallback: nothing is gained from launching the same
\* missing binary twice.  Before the picker, and after it, each browser is
\* tried once.
NoSecondTry ==
    \A o \in Contexts : \A i, j \in 1..Len(tried[o]) :
        i # j /\ tried[o][i].asked = tried[o][j].asked
            => tried[o][i].browser # tried[o][j].browser

\* The picker is the last resort of a rule that opens, and so is an error: by
\* then the target and the default were tried, so far as they were installed.
GivesUpLast ==
    \A o \in Contexts :
        decision[o].kind = "open" /\ pc[o] \in {"asking", "shown", "failed"} =>
            {decision[o].target, default[o]} \cap seen[o]
                \subseteq {tried[o][i].browser : i \in 1..Len(tried[o])}

\* A URL that the rules block, or leave to its source, is never launched and
\* never asked about, even if the rules change while it is dispatched.
BlockedStaysClosed ==
    \A o \in Contexts : decision[o].kind \in {"block", "keep-source"} =>
        tried[o] = <<>> /\ stage[o] = "new"

\* The picker never opens without a choice, and hides what the settings hide
\* as long as something else can be chosen.
NeverEmptyPicker == \A o \in Contexts : stage[o] = "open" => offered[o] # {}

\* What is launched comes from the decision, the default or the user's pick.
LaunchExplained ==
    \A o \in Contexts : \A i \in 1..Len(tried[o]) :
        tried[o][i].browser \in
            {default[o]} \cup IF tried[o][i].asked THEN offered[o]
                              ELSE {decision[o].target}

\* Each browser in its turn and once, the picker after them with something to
\* choose.
TriesInOrder == NoSecondTry /\ GivesUpLast /\ NeverEmptyPicker

\* Nothing is launched that the rules, the default or the user did not name.
OpensAsDecided == BlockedStaysClosed /\ LaunchExplained

(* Liveness.                                                               *)

\* Every URL that arrives is settled, whatever the user does.
EveryOpenSettles == \A o \in Contexts : (pc[o] # "idle") ~> (pc[o] \in Final)
=============================================================================
