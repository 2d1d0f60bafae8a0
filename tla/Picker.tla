------------------------------- MODULE Picker -------------------------------
(***************************************************************************)
(* The ask picker of the desktop app: src/apps/desktop/src-tauri/src/      *)
(* picker.rs, the CloseRequested handler of lib.rs and the renderer's      *)
(* PickerWindow.tsx / HaloShell.tsx.                                       *)
(*                                                                         *)
(* Every ask is a worker thread that runs show_picker once.  All asks      *)
(* share one slot (PickerState: pending, session) and one window label.    *)
(* The main thread runs picker_resolve, the CloseRequested handler and     *)
(* the destruction of windows; a window's renderer sends picker_resolve    *)
(* as a fire-and-forget message.  A window is named by the ask that built  *)
(* it, a pick by the ask whose session the renderer displayed.             *)
(***************************************************************************)
EXTENDS Naturals, FiniteSets

CONSTANTS
    Asks,         \* the calls of show_picker, one worker thread each
    Previews,     \* the asks started by picker_preview
    NoAsk,        \* None in an Option<..> slot, and the pick of a cancel
    BareTiles,    \* is a browser without profiles among the choices?
    MaxClicks,    \* bound: tile clicks in one window
    BackToBack,   \* may an ask claim the slot while another is tearing down?
    BuildMayFail  \* may WebviewWindowBuilder::build fail for its own reasons?

ASSUME PickerAssumption ==
    /\ NoAsk \notin Asks
    /\ Previews \subseteq Asks
    /\ BareTiles \in BOOLEAN
    /\ MaxClicks \in Nat \ {0}
    /\ BackToBack \in BOOLEAN
    /\ BuildMayFail \in BOOLEAN

VARIABLES
    pc,         \* where the thread of each ask stands in show_picker
    pending,    \* PickerState.pending: the ask whose sender is in the slot
    session,    \* PickerState.session: the ask whose choices are published
    sender,     \* the channel of each ask: unsent, sent, or sender dropped
    answer,     \* what was sent on the channel
    got,        \* what recv_timeout returned to the ask
    label,      \* the window registered under the label "picker"
    win,        \* the window of each ask: none, open, dying, gone
    closing,    \* close requests queued for each window on the main thread
    view,       \* the renderer: loading, blank or ready
    shown,      \* the session the renderer displays
    clicks,     \* tile clicks so far (bounds the renderer's user)
    picks,      \* picker_resolve(pick) calls: timer armed, or in flight
    cancels     \* picker_resolve(null) invocations in flight

threadVars == <<pc, got>>
slotVars   == <<pending, session>>
chanVars   == <<sender, answer>>
windowVars == <<label, win, closing>>
renderVars == <<view, shown, clicks>>
flightVars == <<picks, cancels>>
vars == <<threadVars, slotVars, chanVars, windowVars, renderVars, flightVars>>

Opt == Asks \cup {NoAsk}

Running  == {"claimed", "building", "waiting", "closing", "clearSession",
             "clearPending"}
Returned == {"dropped", "refused", "failed", "done"}

TypeOK ==
    /\ pc \in [Asks -> {"idle", "checked"} \cup Running \cup Returned]
    /\ pending \in Opt
    /\ session \in Opt
    /\ sender \in [Asks -> {"unsent", "sent", "disconnected"}]
    /\ answer \in [Asks -> Opt]
    /\ got \in [Asks -> Opt]
    /\ label \in Opt
    /\ win \in [Asks -> {"none", "open", "dying", "gone"}]
    /\ closing \in [Asks -> Nat]
    /\ view \in [Asks -> {"loading", "blank", "ready"}]
    /\ shown \in [Asks -> Opt]
    /\ clicks \in [Asks -> 0..MaxClicks]
    /\ picks \in [Asks -> Nat]
    /\ cancels \in [Asks -> 0..1]

Init ==
    /\ pc = [a \in Asks |-> "idle"]
    /\ pending = NoAsk
    /\ session = NoAsk
    /\ sender = [a \in Asks |-> "unsent"]
    /\ answer = [a \in Asks |-> NoAsk]
    /\ got = [a \in Asks |-> NoAsk]
    /\ label = NoAsk
    /\ win = [a \in Asks |-> "none"]
    /\ closing = [a \in Asks |-> 0]
    /\ view = [a \in Asks |-> "loading"]
    /\ shown = [a \in Asks |-> NoAsk]
    /\ clicks = [a \in Asks |-> 0]
    /\ picks = [a \in Asks |-> 0]
    /\ cancels = [a \in Asks |-> 0]

-----------------------------------------------------------------------------
(* The environment of an ask.                                              *)

\* The previous ask has left nothing behind: thread, window, queued closes
\* and renderer messages are all gone.
Quiet ==
    /\ \A a \in Asks : pc[a] \notin Running
    /\ label = NoAsk
    /\ \A a \in Asks : closing[a] + picks[a] + cancels[a] = 0

\* Without BackToBack an ask may arrive while another holds the slot (and is
\* dropped) or when everything is quiet, but not in between: after the slot
\* was emptied and before the teardown of its last owner is over.
MayClaim == BackToBack \/ pending # NoAsk \/ Quiet

-----------------------------------------------------------------------------
(* show_picker, on a worker thread.                                        *)

Goto(a, from, to) ==
    /\ pc[a] = from
    /\ pc' = [pc EXCEPT ![a] = to]

\* app.get_webview_window("picker").close(): queue a close for whichever
\* window is registered under the label.
CloseByLabel ==
    closing' = IF label = NoAsk THEN closing
               ELSE [closing EXCEPT ![label] = @ + 1]

\* picker_preview refuses while a sender is in the slot; the thread it
\* spawns claims the slot later.
PreviewCheck(a) ==
    /\ a \in Previews
    /\ Goto(a, "idle", IF pending # NoAsk THEN "refused" ELSE "checked")
    /\ UNCHANGED <<got, slotVars, chanVars, windowVars,
                   renderVars, flightVars>>

ClaimFrom(a) == pc[a] = (IF a \in Previews THEN "checked" ELSE "idle")

\* Both locks are held: an occupied slot drops the new ask.
Drop(a) ==
    /\ ClaimFrom(a)
    /\ pending # NoAsk
    /\ pc' = [pc EXCEPT ![a] = "dropped"]
    /\ UNCHANGED <<got, slotVars, chanVars, windowVars,
                   renderVars, flightVars>>

\* Faulty variant: the slot is claimed without looking at it.
ClaimUnchecked(a) ==
    /\ ClaimFrom(a)
    /\ MayClaim
    /\ pending' = a
    /\ session' = a
    /\ pc' = [pc EXCEPT ![a] = "claimed"]
    /\ UNCHANGED <<got, chanVars, windowVars, renderVars, flightVars>>

Claim(a) ==
    /\ ClaimFrom(a)
    /\ MayClaim
    /\ pending = NoAsk
    /\ pending' = a
    /\ session' = a
    /\ pc' = [pc EXCEPT ![a] = "claimed"]
    /\ UNCHANGED <<got, chanVars, windowVars, renderVars,
                   flightVars>>

CloseLeftover(a) ==
    /\ Goto(a, "claimed", "building")
    /\ CloseByLabel
    /\ UNCHANGED <<got, slotVars, chanVars, label, win,
                   renderVars, flightVars>>

Build(a) ==
    /\ Goto(a, "building", "waiting")
    /\ label = NoAsk
    /\ label' = a
    /\ win' = [win EXCEPT ![a] = "open"]
    /\ UNCHANGED <<got, slotVars, chanVars, closing,
                   renderVars, flightVars>>

\* A registered label makes build fail; show_picker then returns None at
\* once, without the cleanup at its end.
BuildFails(a) ==
    /\ label # NoAsk \/ BuildMayFail
    /\ Goto(a, "building", "failed")
    /\ UNCHANGED <<got, slotVars, chanVars, windowVars,
                   renderVars, flightVars>>

\* recv_timeout returned: the message, or None when every sender is gone.
Receive(a) ==
    /\ sender[a] # "unsent"
    /\ Goto(a, "waiting", "closing")
    /\ got' = [got EXCEPT ![a] = answer[a]]
    /\ UNCHANGED <<slotVars, chanVars, windowVars,
                   renderVars, flightVars>>

\* Faulty variant: recv in place of recv_timeout.
TimeoutNever(a) == FALSE /\ pc' = [pc EXCEPT ![a] = "closing"]

Timeout(a) ==
    /\ sender[a] = "unsent"
    /\ Goto(a, "waiting", "closing")
    /\ UNCHANGED <<got, slotVars, chanVars, windowVars,
                   renderVars, flightVars>>

\* Faulty variant: the window is left to its user.
CloseWindowSkipped(a) ==
    /\ Goto(a, "closing", "clearSession")
    /\ UNCHANGED <<got, slotVars, chanVars, windowVars, renderVars, flightVars>>

CloseWindow(a) ==
    /\ Goto(a, "closing", "clearSession")
    /\ CloseByLabel
    /\ UNCHANGED <<got, slotVars, chanVars, label, win,
                   renderVars, flightVars>>

ClearSession(a) ==
    /\ Goto(a, "clearSession", "clearPending")
    /\ session' = NoAsk
    /\ UNCHANGED <<got, pending, chanVars, windowVars,
                   renderVars, flightVars>>

\* Faulty variant: the sender of an ask that timed out stays in the slot.
ClearPendingForgets(a) ==
    /\ Goto(a, "clearPending", "done")
    /\ UNCHANGED <<got, slotVars, chanVars, windowVars, renderVars, flightVars>>

\* *p = None drops whatever sender is in the slot.
ClearPending(a) ==
    /\ Goto(a, "clearPending", "done")
    /\ pending' = NoAsk
    /\ sender' = IF pending = NoAsk THEN sender
                 ELSE [sender EXCEPT ![pending] = "disconnected"]
    /\ UNCHANGED <<got, session, answer, windowVars,
                   renderVars, flightVars>>

-----------------------------------------------------------------------------
(* The renderer of window w, driven by its user.                           *)

\* picker_session: an empty session renders a blank page with no handlers.
Load(w) ==
    /\ win[w] = "open"
    /\ view[w] = "loading"
    /\ view' = [view EXCEPT ![w] = IF session = NoAsk THEN "blank" ELSE "ready"]
    /\ shown' = [shown EXCEPT ![w] = session]
    /\ UNCHANGED <<threadVars, slotVars, chanVars, windowVars,
                   clicks, flightVars>>

\* The user can act on a ready page while its window exists.
Interactive(w) == win[w] = "open" /\ view[w] = "ready"

\* A click arms setTimeout(() => onPick(..), 280).  launch() lets only the
\* first click through; the branch for a tile without profiles has no such
\* guard.
Click(w) ==
    /\ Interactive(w)
    /\ clicks[w] = 0 \/ (BareTiles /\ clicks[w] < MaxClicks)
    /\ clicks' = [clicks EXCEPT ![w] = @ + 1]
    /\ picks' = [picks EXCEPT ![w] = @ + 1]
    /\ UNCHANGED <<threadVars, slotVars, chanVars, windowVars, view, shown,
                   cancels>>

\* Esc or X in the page.  Bound: one cancel of a page is under way at a time.
UserCancels(w) ==
    /\ Interactive(w)
    /\ cancels[w] = 0
    /\ cancels' = [cancels EXCEPT ![w] = 1]
    /\ UNCHANGED <<threadVars, slotVars, chanVars, windowVars, renderVars,
                   picks>>

-----------------------------------------------------------------------------
(* The main thread.                                                        *)

\* Faulty variant: the sender is used but not taken out of the slot.
ResolveKeepsSender(picked) ==
    /\ IF pending = NoAsk
       THEN UNCHANGED chanVars
       ELSE /\ sender' = [sender EXCEPT ![pending] = "sent"]
            /\ answer' = [answer EXCEPT ![pending] = picked]
    /\ UNCHANGED slotVars

\* picker_resolve(picked): take the sender that is in the slot now and send.
Resolve(picked) ==
    /\ pending' = NoAsk
    /\ IF pending = NoAsk
       THEN UNCHANGED chanVars
       ELSE /\ sender' = [sender EXCEPT ![pending] = "sent"]
            /\ answer' = [answer EXCEPT ![pending] = picked]
    /\ UNCHANGED session

ResolvePick(w) ==
    /\ picks[w] > 0
    /\ picks' = [picks EXCEPT ![w] = @ - 1]
    /\ Resolve(shown[w])
    /\ UNCHANGED <<threadVars, windowVars, renderVars, cancels>>

ResolveCancel(w) ==
    /\ cancels[w] > 0
    /\ cancels' = [cancels EXCEPT ![w] = @ - 1]
    /\ Resolve(NoAsk)
    /\ UNCHANGED <<threadVars, windowVars, renderVars, picks>>

\* A queued close of a window that still exists raises CloseRequested, whose
\* handler resolves the slot as cancelled; the window then goes away.
MainClose(w) ==
    /\ closing[w] > 0
    /\ closing' = [closing EXCEPT ![w] = @ - 1]
    /\ IF win[w] \in {"open", "dying"}
       THEN /\ Resolve(NoAsk)
            /\ win' = [win EXCEPT ![w] = "dying"]
       ELSE UNCHANGED <<slotVars, chanVars, win>>
    /\ UNCHANGED <<threadVars, label, renderVars, flightVars>>

\* The user closes the window itself: the same handler, straight from the
\* event loop.
UserCloses(w) ==
    /\ win[w] = "open"
    /\ Resolve(NoAsk)
    /\ win' = [win EXCEPT ![w] = "dying"]
    /\ UNCHANGED <<threadVars, label, closing, renderVars, flightVars>>

\* The label is free once the window is destroyed; timers of its page die with
\* it, calls already sent still arrive.
MainDestroyed(w) ==
    /\ win[w] = "dying"
    /\ win' = [win EXCEPT ![w] = "gone"]
    /\ label' = IF label = w THEN NoAsk ELSE label
    /\ clicks' = [clicks EXCEPT ![w] = 0]
    /\ \E sent \in 0..picks[w] : picks' = [picks EXCEPT ![w] = sent]
    /\ UNCHANGED <<threadVars, slotVars, chanVars, closing, view, shown,
                   cancels>>

-----------------------------------------------------------------------------
ThreadStep(a) ==
    \/ Drop(a) \/ Claim(a) \/ CloseLeftover(a) \/ Build(a) \/ BuildFails(a)
    \/ Receive(a) \/ Timeout(a) \/ CloseWindow(a) \/ ClearSession(a)
    \/ ClearPending(a)

UserStep(w) == Load(w) \/ Click(w) \/ UserCancels(w) \/ UserCloses(w)

MainStep(w) ==
    ResolvePick(w) \/ ResolveCancel(w) \/ MainClose(w) \/ MainDestroyed(w)

Next ==
    \E a \in Asks :
        \/ PreviewCheck(a) \/ ThreadStep(a) \/ UserStep(a) \/ MainStep(a)

Spec == Init /\ [][Next]_vars

\* Claimed threads keep running (recv_timeout bounds the wait) and the event
\* loop serves every queued event; neither users nor new asks are obliged to act.
Fairness ==
    \A a \in Asks :
        /\ WF_vars(pc[a] \in Running /\ ThreadStep(a))
        /\ WF_vars(ResolvePick(a))
        /\ WF_vars(ResolveCancel(a))
        /\ WF_vars(MainClose(a))
        /\ WF_vars(MainDestroyed(a))

FairSpec == Spec /\ Fairness

-----------------------------------------------------------------------------
(* Safety.                                                                 *)

\* The sender in the slot belongs to a thread that is still inside
\* show_picker, or to one that left it through a failed build: cleanup of an
\* ask never leaves its own sender behind.
SlotHolderIsLive ==
    pending # NoAsk => pc[pending] \in Running \cup {"failed"}

\* Nothing was sent to the ask whose sender is in the slot, and nothing was
\* sent to an ask that has not been in the slot.
SlotSenderUnsent == pending # NoAsk => sender[pending] = "unsent"
FreshUnsent ==
    \A a \in Asks : pc[a] \in {"idle", "checked"} => sender[a] = "unsent"

\* The slot and the channels agree, at any distance between asks: the slot
\* holds at most the unused sender of an ask that claimed it and has not come
\* back from its cleanup.
SlotInv == SlotHolderIsLive /\ SlotSenderUnsent /\ FreshUnsent

\* picker.rs claims the slot atomically so that a picked target never routes
\* to the wrong URL: what an ask returns was picked in its own session.
OwnPick == \A a \in Asks : got[a] \in {a, NoAsk}

\* picker.rs, picker_preview: "The picker state has a pending sender if and
\* only if there's a live Ask flow waiting for the user" - here its one
\* direction: a sender in the slot means a thread that will empty it.
PendingMeansLiveAsk == pending # NoAsk => pc[pending] \in Running

\* A page never displays the choices of another ask.
ShowsOwnSession ==
    \A w \in Asks : view[w] = "ready" => shown[w] = w

\* An ask has its session to itself from its claim to its cleanup: what it
\* returns, what its page shows and what waits in the slot are its own.
OwnSession == OwnPick /\ PendingMeansLiveAsk /\ ShowsOwnSession

\* picker_resolve takes the sender out of the slot, so an ask is answered at
\* most once and the answer is never replaced.
AnsweredOnce ==
    [][\A a \in Asks : sender[a] = "sent" =>
            sender'[a] = "sent" /\ answer'[a] = answer[a]]_vars

\* While an ask waits, only its own window's user ends it before the timeout:
\* the page's pick or cancel, or the user closing the window.  No other ask's
\* teardown takes its sender away.
NoPhantomCancel ==
    [][\A a \in Asks :
            pc[a] = "waiting" /\ sender[a] = "unsent" /\ sender'[a] # "unsent"
            => \/ picks'[a] < picks[a]
               \/ cancels'[a] < cancels[a]
               \/ win'[a] # win[a] /\ closing' = closing]_vars

(* Liveness.                                                               *)

\* Whatever its user and the other asks do, a claimed ask returns.
EveryAskReturns ==
    \A a \in Asks : (pc[a] \in Running) ~> (pc[a] \in Returned)

\* No picker window outlives its ask for ever.
NoOrphanWindow == \A w \in Asks : (win[w] = "open") ~> (win[w] = "gone")

\* Neither the thread of an ask nor its window stays for ever.
EveryAskEnds == EveryAskReturns /\ NoOrphanWindow

\* The slot is always handed back.
SlotComesFree == (pending # NoAsk) ~> (pending = NoAsk)

-----------------------------------------------------------------------------
(* The contract that show_picker keeps.                                    *)

StageOf(a) ==
    IF pc[a] \in {"idle", "checked"} THEN "new"
    ELSE IF pc[a] \in Running THEN "open"
    ELSE IF pc[a] \in {"dropped", "refused"} THEN "dropped"
    ELSE "done"

Contract == INSTANCE AskContract WITH
    stage  <- [a \in Asks |-> StageOf(a)],
    picked <- [a \in Asks |-> IF pc[a] = "done" THEN got[a] ELSE NoAsk]

\* The slot protocol implements AskContract: one ask open at a time, the
\* others dropped, and every open ask ends with its own pick or with nothing.
KeepsContract == Contract!Spec
=============================================================================
